--------------------------- MODULE OwnershipTable ---------------------------
(***************************************************************************)
(* The table of the title's live allocations (src/memory_diagnostics.cpp): *)
(* open addressing with linear probing and tombstones in a fixed array, and *)
(* the statistics kept beside it.  add and take run under one mutex, each  *)
(* is one action.  SpanAllocator uses the table as a set of records.       *)
(***************************************************************************)
EXTENDS Integers, FiniteSets

CONSTANTS
  Pointer,
  NoPointer,
  Bytes,         (* the sizes that are recorded                              *)
  Route,         (* Native, Mapped, Aligned                                  *)
  Capacity,      (* slots of the table (131072)                              *)
  Hash,          (* the slot each pointer hashes to                          *)
  MaxEvents      (* bound of the three event counters                        *)

Slot == 0 .. Capacity - 1

ASSUME TableAssumption ==
  /\ Capacity \in Nat \ {0}
  /\ NoPointer \notin Pointer
  /\ Hash \in [Pointer -> Slot]
  /\ Bytes \subseteq Nat

ASSUME MaxAssumption == MaxEvents \in Nat

Record == [pointer : Pointer, bytes : Bytes, route : Route]
NoRecord == [pointer |-> NoPointer]

VARIABLES
  states,        (* "never" used, "live" or "tombstone"                      *)
  slots,         (* records[]                                                *)
  stats,         (* bytes, count and peak of each route                      *)
  dropped, foreignFrees, foreignReallocs,
  held,          (* the pointers the allocator has given out                *)
  result         (* what the last take returned                              *)

counters == <<dropped, foreignFrees, foreignReallocs>>
tableVars == <<states, slots, stats, counters, held, result>>

Probe(p, n) == (Hash[p] + n) % Capacity
Live == {s \in Slot : states[s] = "live"}
Records == {slots[s] : s \in Live}

-----------------------------------------------------------------------------
(* Probes a new record finds a place at: any slot that is not live.         *)
Vacancies(p) == {n \in Slot : states[Probe(p, n)] # "live"}

(* Probes that meet p's record before a slot that was never used. *)
Matches(p) ==
  {n \in Slot : /\ states[Probe(p, n)] = "live"
                /\ slots[Probe(p, n)].pointer = p
                /\ \A m \in 0 .. n : states[Probe(p, m)] # "never"}

First(N) == {n \in N : \A m \in N : n <= m}

(* Mutated form: the peak is taken before the record is counted. *)
CountedEarly(r) ==
  [stats EXCEPT ![r.route] =
     [bytes |-> @.bytes + r.bytes,
      count |-> @.count + 1,
      peak  |-> IF @.bytes > @.peak THEN @.bytes ELSE @.peak]]

Counted(r) ==
  [stats EXCEPT ![r.route] =
     [bytes |-> @.bytes + r.bytes,
      count |-> @.count + 1,
      peak  |-> IF @.bytes + r.bytes > @.peak THEN @.bytes + r.bytes ELSE @.peak]]

Uncounted(r) ==
  [stats EXCEPT ![r.route].bytes = @ - r.bytes, ![r.route].count = @ - 1]

Stored(r, n) == [slots EXCEPT ![Probe(r.pointer, n)] = r]

(* A pointer is recorded when the allocator has just returned it.           *)
TableAdd(r) ==
  /\ r.pointer \notin held
  /\ held' = held \union {r.pointer}
  /\ IF Vacancies(r.pointer) = {}
     THEN /\ dropped < MaxEvents /\ dropped' = dropped + 1
          /\ UNCHANGED <<states, slots, stats>>
     ELSE /\ \E n \in First(Vacancies(r.pointer)) :
               /\ states' = [states EXCEPT ![Probe(r.pointer, n)] = "live"]
               /\ slots' = Stored(r, n)
          /\ stats' = Counted(r)
          /\ UNCHANGED dropped
  /\ UNCHANGED <<foreignFrees, foreignReallocs, result>>

(* Mutated form: the slot is given back as if it had never been used. *)
TakeNever(p, resizing) ==
  /\ held' = held \ {p}
  /\ \E n \in First(Matches(p)) :
       LET s == Probe(p, n) IN
       /\ result' = slots[s]
       /\ states' = [states EXCEPT ![s] = "never"]
       /\ stats' = Uncounted(slots[s])
  /\ UNCHANGED <<slots, counters>>

TableTake(p, resizing) ==
  /\ held' = held \ {p}
  /\ \E n \in First(Matches(p)) :
       LET s == Probe(p, n) IN
       /\ result' = slots[s]
       /\ states' = [states EXCEPT ![s] = "tombstone"]
       /\ stats' = Uncounted(slots[s])
  /\ UNCHANGED <<slots, counters>>

(* take of a pointer the title did not allocate, or whose record was dropped. *)
TakeForeign(p, resizing) ==
  /\ Matches(p) = {}
  /\ held' = held \ {p}
  /\ result' = NoRecord
  /\ IF resizing
     THEN /\ foreignReallocs < MaxEvents /\ foreignReallocs' = foreignReallocs + 1
          /\ UNCHANGED foreignFrees
     ELSE /\ foreignFrees < MaxEvents /\ foreignFrees' = foreignFrees + 1
          /\ UNCHANGED foreignReallocs
  /\ UNCHANGED <<states, slots, stats, dropped>>

-----------------------------------------------------------------------------
TableInit ==
  /\ states = [s \in Slot |-> "never"]
  /\ slots = [s \in Slot |-> NoRecord]
  /\ stats = [r \in Route |-> [bytes |-> 0, count |-> 0, peak |-> 0]]
  /\ dropped = 0 /\ foreignFrees = 0 /\ foreignReallocs = 0
  /\ held = {} /\ result = NoRecord

TableNext ==
  \/ \E r \in Record : TableAdd(r)
  \/ \E p \in Pointer, resizing \in BOOLEAN : TableTake(p, resizing) \/ TakeForeign(p, resizing)

TableSpec == TableInit /\ [][TableNext]_tableVars

-----------------------------------------------------------------------------
TableTypeOK ==
  /\ states \in [Slot -> {"never", "live", "tombstone"}]
  /\ slots \in [Slot -> Record \union {NoRecord}]
  /\ \A s \in Slot : states[s] # "never" => slots[s] \in Record
  /\ dropped \in 0 .. MaxEvents /\ foreignFrees \in 0 .. MaxEvents
  /\ foreignReallocs \in 0 .. MaxEvents
  /\ held \subseteq Pointer
  /\ result \in Record \union {NoRecord}

(* A live slot names a pointer that is given out, and no two the same one:   *)
(* no record is left behind for the pointer's next owner.                    *)
OneSlotEach ==
  /\ \A s \in Live : slots[s].pointer \in held
  /\ \A s, u \in Live : slots[s].pointer = slots[u].pointer => s = u

(* Every live record is met by the probe for its pointer before a slot that  *)
(* was never used, whatever was added and taken around it.                   *)
Findable == \A s \in Live : \E n \in Matches(slots[s].pointer) : Probe(slots[s].pointer, n) = s

Mine(route) == {s \in Live : slots[s].route = route}
BytesOf(S) == UNION {{s} \X (1 .. slots[s].bytes) : s \in S}

(* The statistics agree with the records in the table, and the peak is no    *)
(* less than what is live now.                                               *)
StatsTrue ==
  \A route \in Route :
    /\ stats[route].count = Cardinality(Mine(route))
    /\ stats[route].bytes = Cardinality(BytesOf(Mine(route)))
    /\ stats[route].bytes <= stats[route].peak

(* The table is the set of records the allocator takes it for: nothing is   *)
(* lost behind a tombstone, found twice, or dropped while there is room.     *)
Set == INSTANCE RecordSet WITH records <- Records, Room <- Capacity
SetSpec == Set!Spec

(* What the proofs carry through a step.                                     *)
TableInv == TableTypeOK /\ OneSlotEach /\ Findable
=============================================================================
