----------------------------- MODULE RecordSet -----------------------------
(***************************************************************************)
(* What the allocator needs of the table of its live allocations           *)
(* (src/memory_diagnostics.hpp): a set of records with room for so many,   *)
(* where a record is added once and taken back exactly as it was added.    *)
(***************************************************************************)
EXTENDS Integers, FiniteSets

CONSTANTS
  Pointer, Record, NoRecord,
  Room           (* records the table can hold                              *)

VARIABLES
  records,
  result         (* what the last take returned                             *)

Of(p) == {r \in records : r.pointer = p}

(* A full table drops the record. *)
Add(r) ==
  /\ Of(r.pointer) = {}
  /\ records' = IF Cardinality(records) < Room THEN records \union {r} ELSE records
  /\ UNCHANGED result

Take(p) ==
  /\ records' = records \ Of(p)
  /\ IF Of(p) = {} THEN result' = NoRecord ELSE result' \in Of(p)

Init == records = {} /\ result = NoRecord

Next == (\E r \in Record : Add(r)) \/ (\E p \in Pointer : Take(p))

Spec == Init /\ [][Next]_<<records, result>>
=============================================================================
