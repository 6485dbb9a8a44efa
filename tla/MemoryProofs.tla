---------------------------- MODULE MemoryProofs ----------------------------
(***************************************************************************)
(* Proofs about the title's memory.  The table of live allocations, for    *)
(* every capacity, set of pointers and hash function: probing is a         *)
(* bijection between the distances and the slots, the search of take stops  *)
(* at slots that were never used, and no action makes a slot such a slot   *)
(* again.  The allocator, for any number of threads, addresses and sizes:   *)
(* no span has two holders or none, and what a thread wrote stays.         *)
(***************************************************************************)
EXTENDS OwnershipTable, SpanAllocator, FiniteSetTheorems, SequenceTheorems, TLAPS

-----------------------------------------------------------------------------
(* The table.                                                               *)

(* One reduction brings a probe back into the table.                         *)
LEMMA Wrap ==
  ASSUME NEW a \in Nat, a < Capacity + Capacity
  PROVE  a % Capacity = IF a < Capacity THEN a ELSE a - Capacity
<1> Capacity \in Nat \ {0}
  BY TableAssumption
<1>1. CASE a < Capacity
  BY <1>1
<1>2. CASE a >= Capacity
  BY <1>2
<1>3. QED
  BY <1>1, <1>2

(* Probing in terms of one subtraction. *)
LEMMA ProbeIs ==
  ASSUME NEW p \in Pointer, NEW n \in Slot
  PROVE  /\ Hash[p] \in Nat /\ Hash[p] < Capacity
         /\ Probe(p, n) = IF Hash[p] + n < Capacity THEN Hash[p] + n
                          ELSE Hash[p] + n - Capacity
<1>1. Hash[p] \in Nat /\ Hash[p] < Capacity /\ n \in Nat /\ n < Capacity
      /\ Capacity \in Nat
  BY TableAssumption DEF Slot
<1>2. QED
  BY <1>1, Wrap DEF Probe

(* A probe is a slot.                                                        *)
LEMMA ProbeInSlot ==
  ASSUME NEW p \in Pointer, NEW n \in Slot
  PROVE  Probe(p, n) \in Slot
BY ProbeIs, TableAssumption DEF Slot

(* No slot is probed twice.                                                  *)
LEMMA ProbeInjective ==
  ASSUME NEW p \in Pointer, NEW m \in Slot, NEW n \in Slot, Probe(p, m) = Probe(p, n)
  PROVE  m = n
BY ProbeIs, TableAssumption DEF Slot

(* Every slot is at some distance from where a pointer hashes to.           *)
LEMMA ProbeReachesAll ==
  ASSUME NEW p \in Pointer, NEW s \in Slot
  PROVE  \E n \in Slot : Probe(p, n) = s
<1> DEFINE n == IF s >= Hash[p] THEN s - Hash[p] ELSE s - Hash[p] + Capacity
<1>1. Hash[p] \in Nat /\ Hash[p] < Capacity /\ Capacity \in Nat /\ s \in Nat /\ s < Capacity
  BY TableAssumption DEF Slot
<1>2. n \in Slot
  BY <1>1 DEF Slot
<1>3. Probe(p, n) = s
  <2>1. Probe(p, n) = IF Hash[p] + n < Capacity THEN Hash[p] + n
                      ELSE Hash[p] + n - Capacity
    BY <1>2, ProbeIs
  <2>2. QED
    BY <1>1, <2>1
<1>4. QED
  BY <1>2, <1>3

-----------------------------------------------------------------------------
(* What add and take do to the table, with the slot they do it at.          *)
LEMMA AddIs ==
  ASSUME NEW r \in Record, TableAdd(r), Vacancies(r.pointer) # {}
  PROVE  \E n \in Slot :
           /\ states[Probe(r.pointer, n)] # "live"
           /\ \A m \in Slot : m < n => states[Probe(r.pointer, m)] = "live"
           /\ states' = [states EXCEPT ![Probe(r.pointer, n)] = "live"]
           /\ slots' = [slots EXCEPT ![Probe(r.pointer, n)] = r]
BY TableAssumption DEF TableAdd, First, Vacancies, Slot, Stored

(* take() turns the pointer's live slot into a tombstone, or finds none.     *)
LEMMA TakeIs ==
  ASSUME NEW p \in Pointer, NEW resizing \in BOOLEAN, TableTake(p, resizing)
  PROVE  \E n \in Slot :
           LET s == Probe(p, n) IN
           /\ states[s] = "live" /\ slots[s].pointer = p
           /\ states' = [states EXCEPT ![s] = "tombstone"]
           /\ slots' = slots /\ result' = slots[s]
BY DEF TableTake, First, Matches

(* The table keeps its shape.                                               *)
THEOREM TableTypeCorrect == TableSpec => []TableTypeOK
<1>1. TableInit => TableTypeOK
  BY MaxAssumption DEF TableInit, TableTypeOK
<1>2. TableTypeOK /\ [TableNext]_tableVars => TableTypeOK'
  <2> SUFFICES ASSUME TableTypeOK, [TableNext]_tableVars PROVE TableTypeOK'
    OBVIOUS
  <2> USE DEF TableTypeOK
  <2>1. ASSUME NEW r \in Record, TableAdd(r) PROVE TableTypeOK'
    <3>1. CASE Vacancies(r.pointer) = {}
      BY <2>1, <3>1, MaxAssumption DEF TableAdd, Record
    <3>2. CASE Vacancies(r.pointer) # {}
      <4>1. PICK n \in Slot : /\ states' = [states EXCEPT ![Probe(r.pointer, n)] = "live"]
                              /\ slots' = [slots EXCEPT ![Probe(r.pointer, n)] = r]
        BY <2>1, <3>2, AddIs
      <4>2. Probe(r.pointer, n) \in Slot
        BY ProbeInSlot DEF Record
      <4>3. UNCHANGED <<counters, result>> /\ held' = held \union {r.pointer}
            /\ r.pointer \in Pointer
        BY <2>1, <3>2 DEF TableAdd, counters, Record
      <4>4. QED
        BY <4>1, <4>2, <4>3 DEF counters
    <3>3. QED
      BY <3>1, <3>2
  <2>2. ASSUME NEW p \in Pointer, NEW resizing \in BOOLEAN, TableTake(p, resizing) PROVE TableTypeOK'
    <3>1. PICK n \in Slot : /\ states[Probe(p, n)] = "live"
                            /\ states' = [states EXCEPT ![Probe(p, n)] = "tombstone"]
                            /\ slots' = slots /\ result' = slots[Probe(p, n)]
      BY <2>2, TakeIs
    <3>2. Probe(p, n) \in Slot
      BY ProbeInSlot
    <3>3. UNCHANGED counters /\ held' = held \ {p}
      BY <2>2 DEF TableTake
    <3>4. QED
      BY <3>1, <3>2, <3>3 DEF counters
  <2>3. ASSUME NEW p \in Pointer, NEW resizing \in BOOLEAN, TakeForeign(p, resizing)
        PROVE  TableTypeOK'
    BY <2>3, MaxAssumption DEF TakeForeign
  <2>4. CASE UNCHANGED tableVars
    BY <2>4 DEF tableVars, counters
  <2>5. QED
    BY <2>1, <2>2, <2>3, <2>4 DEF TableNext
<1>3. QED
  BY <1>1, <1>2, PTL DEF TableSpec

-----------------------------------------------------------------------------
(* No pointer is in two live slots: the caller adds a pointer it was just    *)
(* given, and take frees the only slot that names it.                                  *)
LEMMA OneSlotStep ==
  ASSUME TableTypeOK, OneSlotEach, Findable, [TableNext]_tableVars
  PROVE  OneSlotEach'
<1> USE DEF OneSlotEach, Live
<1>1. ASSUME NEW r \in Record, TableAdd(r) PROVE OneSlotEach'
  <2>1. CASE Vacancies(r.pointer) = {}
    BY <1>1, <2>1 DEF TableAdd
  <2>2. CASE Vacancies(r.pointer) # {}
    <3>1. PICK n \in Slot : /\ states' = [states EXCEPT ![Probe(r.pointer, n)] = "live"]
                            /\ slots' = [slots EXCEPT ![Probe(r.pointer, n)] = r]
      BY <1>1, <2>2, AddIs
    <3>2. /\ \A s \in Live : slots[s].pointer # r.pointer
          /\ held' = held \union {r.pointer}
      BY <1>1 DEF TableAdd
    <3>3. \A s \in Slot : s # Probe(r.pointer, n) =>
                            states'[s] = states[s] /\ slots'[s] = slots[s]
      BY <3>1 DEF TableTypeOK
    <3>4. Probe(r.pointer, n) \in Slot => slots'[Probe(r.pointer, n)].pointer = r.pointer
      BY <3>1 DEF TableTypeOK
    <3>5. QED
      BY <3>2, <3>3, <3>4
  <2>3. QED
    BY <2>1, <2>2
<1>2. ASSUME NEW p \in Pointer, NEW resizing \in BOOLEAN, TableTake(p, resizing)
      PROVE  OneSlotEach'
  <2>1. PICK n \in Slot : /\ states[Probe(p, n)] = "live" /\ slots[Probe(p, n)].pointer = p
                          /\ states' = [states EXCEPT ![Probe(p, n)] = "tombstone"]
                          /\ slots' = slots
    BY <1>2, TakeIs
  <2>2. held' = held \ {p} /\ Probe(p, n) \in Slot
    BY <1>2, ProbeInSlot DEF TableTake
  <2>3. \A s \in Live' : s \in Live /\ slots[s].pointer # p
    BY <2>1, <2>2 DEF TableTypeOK
  <2>4. QED
    BY <2>1, <2>2, <2>3
<1>3. ASSUME NEW p \in Pointer, NEW resizing \in BOOLEAN, TakeForeign(p, resizing)
      PROVE  OneSlotEach'
  <2>1. /\ Live' = Live /\ slots' = slots /\ held' = held \ {p}
        /\ \A s \in Live : slots[s].pointer # p
    BY <1>3 DEF TakeForeign, Findable, Matches
  <2>2. QED
    BY <2>1
<1>4. CASE UNCHANGED tableVars
  BY <1>4 DEF tableVars
<1>5. QED
  BY <1>1, <1>2, <1>3, <1>4 DEF TableNext

(* A new record lands in the first slot that is not live, so only live slots *)
(* are in front of it; no slot becomes one that was never used.              *)
LEMMA FindableStep ==
  ASSUME TableTypeOK, Findable, [TableNext]_tableVars
  PROVE  Findable'
<1> USE DEF Live
<1>0. \A s \in Live : \E n \in Slot :
        /\ Probe(slots[s].pointer, n) = s
        /\ \A m \in 0 .. n : states[Probe(slots[s].pointer, m)] # "never"
  BY DEF Findable, Matches
<1>1. SUFFICES ASSUME NEW s \in Slot, states'[s] = "live"
               PROVE  \E n \in Slot :
                        /\ Probe(slots'[s].pointer, n) = s
                        /\ \A m \in 0 .. n : states'[Probe(slots'[s].pointer, m)] # "never"
  BY DEF Findable, Matches
<1>2. ASSUME NEW t \in Slot, NEW k, k # "never", states' = [states EXCEPT ![t] = k],
             states[s] = "live", slots'[s] = slots[s]
      PROVE  \E n \in Slot :
               /\ Probe(slots'[s].pointer, n) = s
               /\ \A m \in 0 .. n : states'[Probe(slots'[s].pointer, m)] # "never"
  <2>1. PICK n \in Slot :
          /\ Probe(slots[s].pointer, n) = s
          /\ \A m \in 0 .. n : states[Probe(slots[s].pointer, m)] # "never"
    BY <1>0, <1>2
  <2>2. slots[s].pointer \in Pointer
    BY <1>2 DEF TableTypeOK, Record
  <2>3. \A m \in 0 .. n : Probe(slots[s].pointer, m) \in Slot
    BY <2>2, ProbeInSlot, TableAssumption DEF Slot
  <2>4. \A u \in Slot : states[u] # "never" => states'[u] # "never"
    BY <1>2 DEF TableTypeOK
  <2>5. QED
    BY <1>2, <2>1, <2>3, <2>4
<1>3. ASSUME NEW r \in Record, TableAdd(r)
      PROVE  \E n \in Slot :
               /\ Probe(slots'[s].pointer, n) = s
               /\ \A m \in 0 .. n : states'[Probe(slots'[s].pointer, m)] # "never"
  <2>1. CASE Vacancies(r.pointer) = {}
    BY <1>0, <1>1, <1>3, <2>1 DEF TableAdd
  <2>2. CASE Vacancies(r.pointer) # {}
    <3>1. PICK n \in Slot :
            /\ \A m \in Slot : m < n => states[Probe(r.pointer, m)] = "live"
            /\ states' = [states EXCEPT ![Probe(r.pointer, n)] = "live"]
            /\ slots' = [slots EXCEPT ![Probe(r.pointer, n)] = r]
      BY <1>3, <2>2, AddIs
    <3>2. Probe(r.pointer, n) \in Slot /\ r.pointer \in Pointer
      BY ProbeInSlot DEF Record
    <3>3. CASE s = Probe(r.pointer, n)
      <4>1. slots'[s] = r
        BY <3>1, <3>2, <3>3 DEF TableTypeOK
      <4>2. ASSUME NEW m \in 0 .. n PROVE states'[Probe(r.pointer, m)] # "never"
        <5>1. m \in Slot
          BY TableAssumption DEF Slot
        <5>2. Probe(r.pointer, m) \in Slot
          BY <3>2, <5>1, ProbeInSlot
        <5>3. m < n \/ m = n
          BY DEF Slot
        <5>4. QED
          BY <3>1, <5>1, <5>2, <5>3 DEF TableTypeOK
      <4>3. QED
        BY <3>3, <4>1, <4>2
    <3>4. CASE s # Probe(r.pointer, n)
      <4>1. states[s] = "live" /\ slots'[s] = slots[s]
        BY <1>1, <3>1, <3>2, <3>4 DEF TableTypeOK
      <4>2. QED
        BY <1>2, <3>1, <3>2, <4>1
    <3>5. QED
      BY <3>3, <3>4
  <2>3. QED
    BY <2>1, <2>2
<1>4. ASSUME NEW p \in Pointer, NEW resizing \in BOOLEAN, TableTake(p, resizing)
      PROVE  \E n \in Slot :
               /\ Probe(slots'[s].pointer, n) = s
               /\ \A m \in 0 .. n : states'[Probe(slots'[s].pointer, m)] # "never"
  <2>1. PICK n \in Slot : /\ states' = [states EXCEPT ![Probe(p, n)] = "tombstone"]
                          /\ slots' = slots
    BY <1>4, TakeIs
  <2>2. Probe(p, n) \in Slot
    BY ProbeInSlot
  <2>3. states[s] = "live"
    BY <1>1, <2>1, <2>2 DEF TableTypeOK
  <2>4. QED
    BY <1>2, <2>1, <2>2, <2>3
<1>5. ASSUME NEW p \in Pointer, NEW resizing \in BOOLEAN, TakeForeign(p, resizing)
      PROVE  \E n \in Slot :
               /\ Probe(slots'[s].pointer, n) = s
               /\ \A m \in 0 .. n : states'[Probe(slots'[s].pointer, m)] # "never"
  BY <1>0, <1>1, <1>5 DEF TakeForeign
<1>6. CASE UNCHANGED tableVars
  BY <1>0, <1>1, <1>6 DEF tableVars
<1>7. QED
  BY <1>3, <1>4, <1>5, <1>6 DEF TableNext

(* The inductive invariant holds in every behaviour.                         *)
THEOREM TableInductive == TableSpec => []TableInv
<1>1. TableInit => TableInv
  BY MaxAssumption DEF TableInit, TableInv, TableTypeOK, OneSlotEach, Findable, Live
<1>2. TableInv /\ [TableNext]_tableVars => OneSlotEach' /\ Findable'
  BY OneSlotStep, FindableStep DEF TableInv
<1>3. QED
  BY <1>1, <1>2, TableTypeCorrect, PTL DEF TableSpec, TableInv

(* A probe for a live record always meets it.                               *)
THEOREM FindableCorrect == TableSpec => []Findable
BY TableInductive, PTL DEF TableInv

(* No pointer is recorded twice.                                            *)
THEOREM OneSlotEachCorrect == TableSpec => []OneSlotEach
BY TableInductive, PTL DEF TableInv

-----------------------------------------------------------------------------
(* One live slot for each record: the set is full when every slot is live.  *)
LEMMA RoomIs ==
  ASSUME TableInv
  PROVE  /\ Cardinality(Records) \in Nat
         /\ Cardinality(Records) <= Capacity
         /\ Cardinality(Records) = Capacity <=> Live = Slot
<1>1. IsFiniteSet(Slot) /\ Cardinality(Slot) = Capacity
  <2>1. Capacity \in Nat /\ Capacity > 0
    BY TableAssumption
  <2>2. QED
    BY <2>1, FS_Interval DEF Slot
<1>2. /\ IsFiniteSet(Live) /\ Cardinality(Live) <= Cardinality(Slot)
      /\ Cardinality(Live) = Cardinality(Slot) => Live = Slot
  BY <1>1, FS_Subset DEF Live
<1>3. ExistsBijection(Live, Records)
  <2> DEFINE f == [s \in Live |-> slots[s]]
  <2>1. f \in [Live -> Records]
    BY DEF Records
  <2>2. \A s, t \in Live : f[s] = f[t] => s = t
    BY DEF TableInv, OneSlotEach
  <2>3. \A r \in Records : \E s \in Live : f[s] = r
    BY DEF Records
  <2>4. f \in Bijection(Live, Records)
    <3> HIDE DEF f
    <3>1. QED
      BY <2>1, <2>2, <2>3 DEF Bijection, Injection, Surjection, IsInjective
  <2>5. QED
    BY <2>4 DEF ExistsBijection
<1>4. Cardinality(Records) = Cardinality(Live) /\ IsFiniteSet(Records)
  BY <1>2, <1>3, FS_Bijection
<1>5. Cardinality(Live) \in Nat
  BY <1>2, FS_CardinalityType
<1>6. QED
  BY <1>1, <1>2, <1>4, <1>5, TableAssumption

(* The set counts its records as the table does. *)
LEMMA SameCardinality == \A S : Set!Cardinality(S) = Cardinality(S)
BY DEF Set!Cardinality, Cardinality, Set!IsFiniteSet, IsFiniteSet

(* add adds the record exactly when the set has room for it.                *)
LEMMA AddRefines ==
  ASSUME TableInv, NEW r \in Record, TableAdd(r)
  PROVE  Set!Add(r)
<1>1. Set!Of(r.pointer) = {}
  BY DEF TableAdd, Set!Of, Records, TableInv, OneSlotEach
<1>2. r.pointer \in Pointer
  BY DEF Record
<1>3. CASE Vacancies(r.pointer) = {}
  <2>1. Live = Slot
    BY <1>2, <1>3, ProbeReachesAll DEF Vacancies, Live
  <2>2. Cardinality(Records) = Capacity
    BY <2>1, RoomIs
  <2>3. ~(Cardinality(Records) < Capacity)
    BY <2>2, TableAssumption
  <2>4. Records' = Records /\ result' = result
    BY <1>3 DEF TableAdd, Records, Live
  <2>5. QED
    BY <1>1, <2>3, <2>4, SameCardinality DEF Set!Add
<1>4. CASE Vacancies(r.pointer) # {}
  <2>1. PICK n \in Slot : /\ states[Probe(r.pointer, n)] # "live"
                          /\ states' = [states EXCEPT ![Probe(r.pointer, n)] = "live"]
                          /\ slots' = [slots EXCEPT ![Probe(r.pointer, n)] = r]
    BY <1>4, AddIs
  <2> DEFINE s == Probe(r.pointer, n)
  <2>2. s \in Slot
    BY <1>2, ProbeInSlot
  <2>3. s \notin Live
    BY <2>1 DEF Live
  <2>4. Cardinality(Records) < Capacity
    BY <2>2, <2>3, RoomIs, TableAssumption
  <2>5. Live' = Live \union {s}
    BY <2>1, <2>2 DEF Live, TableInv, TableTypeOK
  <2>6. slots'[s] = r /\ \A t \in Live : slots'[t] = slots[t]
    BY <2>1, <2>2, <2>3 DEF TableInv, TableTypeOK, Live
  <2>7. Records' = Records \union {r}
    BY <2>5, <2>6 DEF Records
  <2>8. result' = result
    BY DEF TableAdd
  <2>9. QED
    BY <1>1, <2>4, <2>7, <2>8, SameCardinality DEF Set!Add
<1>5. QED
  BY <1>3, <1>4

(* take returns the only record of the pointer and removes nothing else.    *)
LEMMA TakeRefines ==
  ASSUME TableInv, NEW p \in Pointer, NEW resizing \in BOOLEAN, TableTake(p, resizing)
  PROVE  Set!Take(p)
<1>1. PICK n \in Slot : /\ states[Probe(p, n)] = "live" /\ slots[Probe(p, n)].pointer = p
                        /\ states' = [states EXCEPT ![Probe(p, n)] = "tombstone"]
                        /\ slots' = slots /\ result' = slots[Probe(p, n)]
  BY TakeIs
<1> DEFINE s == Probe(p, n)
<1>2. s \in Live
  BY <1>1, ProbeInSlot DEF Live
<1>3. Live' = Live \ {s}
  BY <1>1, <1>2 DEF Live, TableInv, TableTypeOK
<1>4. Set!Of(p) = {slots[s]}
  BY <1>1, <1>2 DEF Set!Of, Records, TableInv, OneSlotEach
<1>5. Records' = Records \ {slots[s]}
  <2>1. \A t \in Live : t # s => slots[t] # slots[s]
    BY <1>2 DEF TableInv, OneSlotEach
  <2>2. QED
    BY <1>1, <1>2, <1>3, <2>1 DEF Records
<1>6. QED
  BY <1>1, <1>4, <1>5 DEF Set!Take

(* take reports a foreign pointer only when the table has no record of it.  *)
LEMMA TakeForeignRefines ==
  ASSUME TableInv, NEW p \in Pointer, NEW resizing \in BOOLEAN, TakeForeign(p, resizing)
  PROVE  Set!Take(p)
<1>1. Set!Of(p) = {}
  BY DEF TakeForeign, Set!Of, Records, TableInv, Findable
<1>2. Records' = Records /\ result' = NoRecord
  BY DEF TakeForeign, Records, Live
<1>3. QED
  BY <1>1, <1>2 DEF Set!Take

(* The table is the set of records the allocator takes it for.              *)
THEOREM TableIsSet == TableSpec => SetSpec
<1>1. TableInit => Set!Init
  BY DEF TableInit, Set!Init, Records, Live
<1>2. TableInv /\ [TableNext]_tableVars => [Set!Next]_<<Records, result>>
  <2> SUFFICES ASSUME TableInv, [TableNext]_tableVars PROVE [Set!Next]_<<Records, result>>
    OBVIOUS
  <2>1. CASE \E r \in Record : TableAdd(r)
    BY <2>1, AddRefines DEF Set!Next
  <2>2. ASSUME NEW p \in Pointer, NEW resizing \in BOOLEAN,
               TableTake(p, resizing) \/ TakeForeign(p, resizing)
        PROVE  Set!Next
    BY <2>2, TakeRefines, TakeForeignRefines DEF Set!Next
  <2>3. CASE UNCHANGED tableVars
    BY <2>3 DEF tableVars, Records, Live
  <2>4. QED
    BY <2>1, <2>2, <2>3 DEF TableNext
<1>3. QED
  BY <1>1, <1>2, TableInductive, PTL DEF TableSpec, SetSpec, Set!Spec

-----------------------------------------------------------------------------
(* The statistics.  BytesIn(r, S) are the bytes of the records r at the slots *)
(* S; one more slot adds as many as its record has.                           *)
BytesIn(r, S) == UNION {{s} \X (1 .. r[s].bytes) : s \in S}

(* A slot's bytes count as its record says.                                  *)
LEMMA OneSlotBytes ==
  ASSUME NEW s, NEW b \in Nat
  PROVE  IsFiniteSet({s} \X (1 .. b)) /\ Cardinality({s} \X (1 .. b)) = b
<1>1. IsFiniteSet(1 .. b) /\ Cardinality(1 .. b) = b
  <2>1. 1 \in Int /\ b \in Int
    OBVIOUS
  <2>2. IsFiniteSet(1 .. b) /\ Cardinality(1 .. b) = IF 1 > b THEN 0 ELSE b - 1 + 1
    BY <2>1, FS_Interval
  <2>3. QED
    BY <2>2
<1>2. IsFiniteSet({s}) /\ Cardinality({s}) = 1
  BY FS_Singleton
<1>3. /\ IsFiniteSet({s} \X (1 .. b))
      /\ Cardinality({s} \X (1 .. b)) = Cardinality({s}) * Cardinality(1 .. b)
  BY <1>1, <1>2, FS_Product, Zenon
<1>4. QED
  BY <1>1, <1>2, <1>3

(* One more slot adds its bytes.                                             *)
LEMMA OneMoreSlot ==
  ASSUME NEW r, NEW S, IsFiniteSet(S), \A s \in S : r[s].bytes \in Nat,
         NEW a, a \notin S, r[a].bytes \in Nat
  PROVE  /\ Cardinality(BytesIn(r, S)) \in Nat
         /\ Cardinality(BytesIn(r, S \union {a})) = Cardinality(BytesIn(r, S)) + r[a].bytes
         /\ Cardinality(S) \in Nat
         /\ Cardinality(S \union {a}) = Cardinality(S) + 1
<1> DEFINE B(s) == {s} \X (1 .. r[s].bytes)
           U == BytesIn(r, S)
<1>1. ASSUME NEW s, r[s].bytes \in Nat
      PROVE  IsFiniteSet(B(s)) /\ Cardinality(B(s)) = r[s].bytes
  BY <1>1, OneSlotBytes
<1>2. IsFiniteSet(U)
  <2> DEFINE F == {B(s) : s \in S}
  <2>1. IsFiniteSet(F)
    <3> DEFINE f == [s \in S |-> B(s)]
    <3>1. f \in Surjection(S, F)
      BY DEF Surjection
    <3> HIDE DEF f, F
    <3>2. QED
      BY <3>1, FS_Surjection
  <2>2. \A X \in F : IsFiniteSet(X)
    BY <1>1
  <2>3. IsFiniteSet(UNION F)
    BY <2>1, <2>2, FS_UNION
  <2>4. QED
    BY <2>3 DEF BytesIn
<1>3. U \cap B(a) = {}
  BY DEF BytesIn
<1>4. BytesIn(r, S \union {a}) = U \union B(a)
  BY DEF BytesIn
<1>5. IsFiniteSet(B(a)) /\ Cardinality(B(a)) = r[a].bytes
  BY <1>1
<1> HIDE DEF B, U
<1>6. Cardinality(U \union B(a)) = Cardinality(U) + Cardinality(B(a)) - Cardinality(U \cap B(a))
  BY <1>2, <1>5, FS_Union
<1>7. Cardinality(U) \in Nat /\ Cardinality({}) = 0 /\ Cardinality(S) \in Nat
  BY <1>2, FS_CardinalityType, FS_EmptySet
<1>8. Cardinality(S \union {a}) = Cardinality(S) + 1
  BY FS_AddElement
<1>9. QED
  <2>1. Cardinality(U \cap B(a)) = 0
    BY <1>3, <1>7
  <2>2. Cardinality(U \union B(a)) = Cardinality(U) + r[a].bytes
    BY <2>1, <1>5, <1>6, <1>7
  <2>3. Cardinality(BytesIn(r, S \union {a})) = Cardinality(U) + r[a].bytes
    BY <2>2, <1>4
  <2>4. QED
    BY <2>3, <1>7, <1>8 DEF U

StatsType == stats \in [Route -> [bytes : Int, count : Int, peak : Int]]

(* The slots of a route are finitely many live ones.                         *)
LEMMA MineIsFinite ==
  ASSUME TableInv, NEW route
  PROVE  /\ IsFiniteSet(Mine(route)) /\ Mine(route) \subseteq Live /\ Live \subseteq Slot
         /\ \A s \in Live : slots[s] \in Record /\ slots[s].bytes \in Nat
<1>1. IsFiniteSet(Slot)
  BY TableAssumption, FS_Interval DEF Slot
<1>2. Mine(route) \subseteq Slot /\ Mine(route) \subseteq Live /\ Live \subseteq Slot
  BY DEF Mine, Live
<1>3. \A s \in Live : slots[s] \in Record
  BY DEF TableInv, TableTypeOK, Live
<1>4. \A q \in Record : q.bytes \in Nat
  BY TableAssumption DEF Record
<1>5. QED
  BY <1>1, <1>2, <1>3, <1>4, FS_Subset

(* A step that leaves slots and statistics alone keeps both.                 *)
LEMMA StatsKept ==
  ASSUME StatsType, StatsTrue, UNCHANGED <<states, slots, stats>>
  PROVE  StatsType' /\ StatsTrue'
<1>1. \A q : Mine(q)' = Mine(q)
  BY DEF Mine, Live
<1>2. \A q : BytesOf(Mine(q))' = BytesOf(Mine(q))
  BY <1>1 DEF BytesOf
<1>3. QED
  BY <1>1, <1>2 DEF StatsType, StatsTrue

(* add counts the record it stored, under the record's route.                 *)
LEMMA AddCounts ==
  ASSUME TableInv, StatsType, StatsTrue, NEW r \in Record, TableAdd(r)
  PROVE  StatsType' /\ StatsTrue'
<1>1. CASE Vacancies(r.pointer) = {}
  BY <1>1, StatsKept DEF TableAdd
<1>2. CASE Vacancies(r.pointer) # {}
  <2>1. PICK n \in Slot : /\ states[Probe(r.pointer, n)] # "live"
                          /\ states' = [states EXCEPT ![Probe(r.pointer, n)] = "live"]
                          /\ slots' = [slots EXCEPT ![Probe(r.pointer, n)] = r]
    BY <1>2, AddIs
  <2> DEFINE s == Probe(r.pointer, n)
  <2>2. s \in Slot /\ s \notin Live
    BY <2>1, ProbeInSlot DEF Record, Live
  <2>3. stats' = Counted(r) /\ r.route \in Route /\ r.bytes \in Nat
    BY <1>2, TableAssumption DEF TableAdd, Record
  <2>4. Live' = Live \union {s}
    BY <2>1, <2>2 DEF Live, TableInv, TableTypeOK
  <2>5. slots'[s] = r /\ \A x \in Live : slots'[x] = slots[x]
    BY <2>1, <2>2 DEF TableInv, TableTypeOK, Live
  <2> HIDE DEF s
  <2>6. ASSUME NEW q \in Route
        PROVE  /\ Mine(q)' = IF q = r.route THEN Mine(q) \union {s} ELSE Mine(q)
               /\ BytesOf(Mine(q)) = BytesIn(slots', Mine(q))
               /\ BytesOf(Mine(q))' = BytesIn(slots', Mine(q)')
               /\ s \notin Mine(q) /\ IsFiniteSet(Mine(q))
               /\ slots'[s].bytes = r.bytes
               /\ \A x \in Mine(q) : slots'[x].bytes \in Nat
    <3>1. IsFiniteSet(Mine(q)) /\ Mine(q) \subseteq Live /\ \A x \in Live : slots[x].bytes \in Nat
      BY MineIsFinite
    <3>2. Mine(q)' = IF q = r.route THEN Mine(q) \union {s} ELSE Mine(q)
      BY <2>4, <2>5 DEF Mine
    <3>3. BytesOf(Mine(q))' = BytesIn(slots', Mine(q)')
      BY DEF BytesOf, BytesIn
    <3>4. {{x} \X (1 .. slots[x].bytes) : x \in Mine(q)} = {{x} \X (1 .. slots'[x].bytes) : x \in Mine(q)}
      BY <2>5, <3>1
    <3>5. BytesOf(Mine(q)) = BytesIn(slots', Mine(q))
      BY <3>4 DEF BytesOf, BytesIn
    <3>6. QED
      BY <2>2, <2>5, <3>1, <3>2, <3>3, <3>5
  <2>7. ASSUME NEW q \in Route, q # r.route
        PROVE  /\ stats'[q] = stats[q]
               /\ Mine(q)' = Mine(q) /\ BytesOf(Mine(q))' = BytesOf(Mine(q))
    BY <2>3, <2>6, <2>7 DEF StatsType, Counted
  <2>8. /\ stats'[r.route].count = stats[r.route].count + 1
        /\ stats'[r.route].bytes = stats[r.route].bytes + r.bytes
        /\ stats'[r.route].bytes <= stats'[r.route].peak
        /\ StatsType'
    BY <2>3 DEF StatsType, Counted
  <2>9. /\ Cardinality(Mine(r.route)') = stats[r.route].count + 1
        /\ Cardinality(BytesOf(Mine(r.route))') = stats[r.route].bytes + r.bytes
    BY <2>3, <2>6, OneMoreSlot DEF StatsTrue
  <2>10. QED
    BY <2>3, <2>7, <2>8, <2>9 DEF StatsTrue
<1>3. QED
  BY <1>1, <1>2

(* take counts off the record it returns, and no more than was counted.       *)
LEMMA TakeCounts ==
  ASSUME TableInv, StatsType, StatsTrue,
         NEW p \in Pointer, NEW resizing \in BOOLEAN, TableTake(p, resizing)
  PROVE  StatsType' /\ StatsTrue'
<1>1. PICK s \in Slot, r \in Record :
        /\ s \in Live /\ r = slots[s]
        /\ states' = [states EXCEPT ![s] = "tombstone"]
        /\ slots' = slots /\ stats' = Uncounted(r)
  <2>1. PICK n \in Slot : /\ states[Probe(p, n)] = "live"
                          /\ states' = [states EXCEPT ![Probe(p, n)] = "tombstone"]
                          /\ slots' = slots /\ stats' = Uncounted(slots[Probe(p, n)])
    BY DEF TableTake, First, Matches
  <2>2. Probe(p, n) \in Live /\ Probe(p, n) \in Slot
    BY <2>1, ProbeInSlot DEF Live
  <2>3. slots[Probe(p, n)] \in Record
    BY <2>2, MineIsFinite
  <2>4. QED
    BY <2>1, <2>2, <2>3
<1>2. s \in Live /\ r = slots[s]
  BY <1>1
<1>3. Live' = Live \ {s}
  BY <1>1 DEF Live, TableInv, TableTypeOK
<1>4. r.route \in Route /\ r.bytes \in Nat
  BY TableAssumption DEF Record
<1>5. stats' = Uncounted(r) /\ slots' = slots
  BY <1>1
<1>6. \A q \in Route : Mine(q)' = IF q = r.route THEN Mine(q) \ {s} ELSE Mine(q)
  BY <1>2, <1>3, <1>5 DEF Mine
<1>7. \A q \in Route : /\ BytesOf(Mine(q)) = BytesIn(slots, Mine(q))
                        /\ BytesOf(Mine(q))' = BytesIn(slots, Mine(q)')
  BY <1>5 DEF BytesOf, BytesIn
<1>8. /\ Cardinality(Mine(r.route)') + 1 = Cardinality(Mine(r.route))
      /\ Cardinality(BytesOf(Mine(r.route))') + r.bytes = Cardinality(BytesOf(Mine(r.route)))
      /\ Cardinality(Mine(r.route)') \in Nat /\ Cardinality(BytesOf(Mine(r.route))') \in Nat
  <2> DEFINE M == Mine(r.route) \ {s}
  <2>1. Mine(r.route)' = M /\ Mine(r.route) = M \union {s}
    <3>1. Mine(r.route)' = M
      BY <1>4, <1>6
    <3>2. s \in Mine(r.route)
      BY <1>2 DEF Mine
    <3>3. QED
      BY <3>1, <3>2
  <2>2. IsFiniteSet(M) /\ s \notin M /\ \A x \in M : slots[x].bytes \in Nat
    BY MineIsFinite, FS_Subset
  <2> HIDE DEF M
  <2>3. /\ Cardinality(BytesIn(slots, M)) \in Nat
        /\ Cardinality(BytesIn(slots, M \union {s})) = Cardinality(BytesIn(slots, M)) + slots[s].bytes
        /\ Cardinality(M) \in Nat
        /\ Cardinality(M \union {s}) = Cardinality(M) + 1
    BY <2>2, <1>2, <1>4, OneMoreSlot
  <2>4. /\ BytesOf(Mine(r.route)) = BytesIn(slots, M \union {s})
        /\ BytesOf(Mine(r.route))' = BytesIn(slots, M)
    BY <2>1, <1>4, <1>7
  <2>5. QED
    BY <2>1, <2>3, <2>4, <1>2
<1>9. \A q \in Route : q # r.route => stats'[q] = stats[q]
  BY <1>4, <1>5 DEF StatsType, Uncounted
<1>10. /\ stats'[r.route].count = stats[r.route].count - 1
       /\ stats'[r.route].bytes = stats[r.route].bytes - r.bytes
       /\ stats'[r.route].peak = stats[r.route].peak
       /\ StatsType'
  BY <1>4, <1>5 DEF StatsType, Uncounted
<1>11. /\ stats[r.route].count \in Int /\ stats[r.route].bytes \in Int
       /\ stats[r.route].peak \in Int
  BY <1>4 DEF StatsType
<1>12. ASSUME NEW q \in Route
       PROVE  /\ stats'[q].count = Cardinality(Mine(q)')
              /\ stats'[q].bytes = Cardinality(BytesOf(Mine(q))')
              /\ stats'[q].bytes <= stats'[q].peak
  <2>1. /\ stats[q].count = Cardinality(Mine(q))
        /\ stats[q].bytes = Cardinality(BytesOf(Mine(q)))
        /\ stats[q].bytes <= stats[q].peak
    BY DEF StatsTrue
  <2>2. CASE q = r.route
    BY <2>1, <2>2, <1>4, <1>8, <1>10, <1>11
  <2>3. CASE q # r.route
    <3>1. Mine(q)' = Mine(q)
      BY <2>3, <1>6
    <3>2. BytesOf(Mine(q))' = BytesOf(Mine(q))
      BY <3>1, <1>7
    <3>3. QED
      BY <2>1, <2>3, <1>9, <3>1, <3>2
  <2>4. QED
    BY <2>2, <2>3
<1>13. QED
  BY <1>10, <1>12 DEF StatsTrue

(* What the memory reports print of a route is what its live records add up   *)
(* to, after any calls of add and take, and the peak never below it.          *)
THEOREM StatsCorrect == TableSpec => []StatsTrue
<1>1. TableInit => StatsType /\ StatsTrue
  <2> SUFFICES ASSUME TableInit PROVE StatsType /\ StatsTrue
    OBVIOUS
  <2>1. StatsType
    BY DEF TableInit, StatsType
  <2>2. \A q \in Route : Mine(q) = {} /\ BytesOf(Mine(q)) = {}
    BY DEF TableInit, Mine, Live, BytesOf
  <2>3. Cardinality({}) = 0
    BY FS_EmptySet
  <2>4. QED
    BY <2>1, <2>2, <2>3 DEF TableInit, StatsTrue
<1>2. TableInv /\ StatsType /\ StatsTrue /\ [TableNext]_tableVars => StatsType' /\ StatsTrue'
  <2> SUFFICES ASSUME TableInv, StatsType, StatsTrue, [TableNext]_tableVars PROVE StatsType' /\ StatsTrue'
    OBVIOUS
  <2>1. CASE \E r \in Record : TableAdd(r)
    BY <2>1, AddCounts
  <2>2. CASE \E p \in Pointer, resizing \in BOOLEAN : TableTake(p, resizing)
    BY <2>2, TakeCounts
  <2>3. CASE \E p \in Pointer, resizing \in BOOLEAN : TakeForeign(p, resizing)
    BY <2>3, StatsKept DEF TakeForeign
  <2>4. CASE UNCHANGED tableVars
    BY <2>4, StatsKept DEF tableVars
  <2>5. QED
    BY <2>1, <2>2, <2>3, <2>4 DEF TableNext
<1>3. QED
  BY <1>1, <1>2, TableInductive, PTL DEF TableSpec

-----------------------------------------------------------------------------
(* The allocator.                                                           *)

(* The calls, as the threads keep them.                                      *)
PC == {"idle", "alloc", "map", "insert", "resize", "libcRealloc", "copy", "release",
       "return", "add", "fail"}
Op == {"none", "malloc", "calloc", "realloc", "free"}
AnyAddress == Address \union {NoAddress}
ByteStrings == Seq(Byte)
Block == [title : BOOLEAN, data : ByteStrings]
Held == UNION {[S -> Block] : S \in SUBSET Address}
OldRecord == BlockRecord \union {NoBlockRecord}
CallState == [pc : PC, op : Op, ptr : AnyAddress, size : 0 .. SizeMax,
              old : OldRecord, new : AnyAddress, copy : 0 .. SizeMax,
              kept : Block]
SpanHeader == [requested : 0 .. SizeMax, span : 0 .. SizeMax]

Types ==
  /\ kind \in [Address -> {"free", "native", "mapped"}]
  /\ memory \in [Address -> ByteStrings]
  /\ header \in [Address -> SpanHeader]
  /\ mappings \subseteq Address
  /\ cached \in Seq(Address)
  /\ client \in [Thread -> Held]
  /\ th \in [Thread -> CallState]

(* The old block and the new one are the call's until it is done with them.  *)
HasPtr(t) == th[t].ptr # NoAddress /\ th[t].pc # "add"
HasNew(t) == th[t].new # NoAddress

Holds(t, a) == \/ a \in DOMAIN client[t]
               \/ HasPtr(t) /\ a = th[t].ptr
               \/ HasNew(t) /\ a = th[t].new

(* A span on its way between the system and a list.                          *)
Moving(t, a) == \/ At(t, "insert") /\ a = th[t].new
                \/ At(t, "return") /\ a = th[t].ptr

(* realloc still has to keep the old block.                                  *)
Keeping(t) == /\ th[t].op = "realloc" /\ th[t].ptr # NoAddress
              /\ th[t].pc \in {"resize", "alloc", "map", "insert", "libcRealloc", "copy", "fail"}

Agrees(data, bytes) == /\ Len(data) <= Len(bytes)
                       /\ \A i \in 1 .. Len(data) : data[i] = bytes[i]

-----------------------------------------------------------------------------
(* What each thread's call and blocks are like.                              *)

(* Which of a call's fields are set at which step.                           *)
CallShape(t) ==
  LET o == th[t] IN
  /\ o.pc = "idle" => o.ptr = NoAddress
  /\ o.op \in {"malloc", "calloc"} => o.ptr = NoAddress
  /\ o.ptr = NoAddress => o.kept.data = <<>> /\ o.old = NoBlockRecord
  /\ o.pc \in {"resize", "libcRealloc", "copy"} => o.op = "realloc"
  /\ o.pc \in {"alloc", "map", "insert", "fail"} => o.op \in {"malloc", "calloc", "realloc"}
  /\ o.pc = "libcRealloc" => o.ptr # NoAddress
  /\ o.pc \in {"release", "return"} => o.ptr # NoAddress /\ o.op \in {"free", "realloc"}
  /\ o.pc \in {"idle", "alloc", "map", "resize", "libcRealloc", "fail"} => o.new = NoAddress
  /\ o.pc \in {"insert", "copy", "add"} => o.new # NoAddress
  /\ o.pc \in {"release", "return"} => (o.new # NoAddress <=> o.op = "realloc" /\ o.size # 0)
  /\ o.ptr # NoAddress /\ o.pc \in {"alloc", "map", "insert", "libcRealloc", "copy"} => o.size # 0
  /\ o.pc = "add" => o.op \in {"malloc", "calloc", "realloc"}
  /\ o.pc = "add" /\ o.ptr # NoAddress => o.op = "realloc" /\ o.size # 0
  /\ o.pc \in {"map", "insert"} => o.size >= Threshold /\ ~TooLarge(o.size)

(* A thread's blocks are different ones, and of the kind the lists say.      *)
Apart(t) ==
  /\ HasPtr(t) => th[t].ptr \notin DOMAIN client[t]
  /\ HasNew(t) => th[t].new \notin DOMAIN client[t]
  /\ HasPtr(t) /\ HasNew(t) => th[t].ptr # th[t].new
KindOK(t) ==
  /\ \A a \in Address : Holds(t, a) =>
       /\ kind[a] # "free"
       /\ a \in mappings <=> kind[a] = "mapped" /\ ~Moving(t, a)
  /\ At(t, "insert") => kind[th[t].new] = "mapped"
  /\ At(t, "libcRealloc") => kind[th[t].ptr] = "native"
  /\ At(t, "add") /\ th[t].op # "realloc" =>
       (kind[th[t].new] = "native" <=> th[t].size < Threshold)

(* What a thread wrote is there, in its blocks, in the block realloc resizes *)
(* and in the one it gives back.                                             *)
BlocksOK(t) == \A a \in DOMAIN client[t] :
  /\ Agrees(client[t][a].data, memory[a])
  /\ a \in mappings => header[a].requested = Len(client[t][a].data)
KeptOK(t) == Keeping(t) =>
  LET o == th[t] IN
  /\ Agrees(o.kept.data, memory[o.ptr])
  /\ o.ptr \in mappings => header[o.ptr].requested = Len(o.kept.data)
  /\ o.pc \in {"alloc", "map", "insert", "copy"} => o.copy = Len(o.kept.data)
NewOK(t) ==
  LET o == th[t] IN
  /\ o.pc = "insert" => Len(memory[o.new]) + Header = Span(o.size)
  /\ o.pc \in {"copy", "release", "return", "add"} /\ HasNew(t) => Len(memory[o.new]) >= o.size
  /\ o.pc \in {"copy", "release", "return", "add"} /\ o.new \in mappings =>
       header[o.new].requested = o.size
  /\ o.pc \in {"release", "return", "add"} /\ HasNew(t) => Agrees(Promised(o), memory[o.new])

(* The record realloc took is the old block's.                               *)
OldOK(t) == Keeping(t) =>
  LET o == th[t] IN
  /\ \/ o.old = NoBlockRecord
     \/ o.old \in BlockRecord /\ o.kept.title /\ o.old.pointer = o.ptr
        /\ o.old.bytes = Len(o.kept.data) /\ o.old.route = kind[o.ptr]
  /\ Cardinality(Address) <= TableRoom /\ o.kept.title => o.old.pointer = o.ptr
NamesOK(t) ==
  /\ \A r \in records : r.pointer \in DOMAIN client[t] =>
       /\ client[t][r.pointer].title
       /\ r.bytes = Len(client[t][r.pointer].data)
       /\ r.route = kind[r.pointer]
  /\ Cardinality(Address) <= TableRoom =>
       \A a \in DOMAIN client[t] : client[t][a].title => \E r \in records : r.pointer = a

ThreadOK(t) ==
  /\ CallShape(t) /\ Apart(t) /\ KindOK(t) /\ BlocksOK(t) /\ KeptOK(t) /\ NewOK(t)
  /\ OldOK(t) /\ NamesOK(t)

-----------------------------------------------------------------------------
(* What they are like together.                                              *)

OneHolder == \A a \in Address, s, t \in Thread : Holds(s, a) /\ Holds(t, a) => s = t

InCache(a) == \E i \in DOMAIN cached : cached[i] = a

ListsOK ==
  /\ \A i, j \in DOMAIN cached : cached[i] = cached[j] => i = j
  /\ \A a \in Address : InCache(a) => kind[a] = "mapped" /\ a \notin mappings
  /\ \A a \in Address : a \in mappings => kind[a] = "mapped"
  /\ \A a \in Address : a \in mappings \/ InCache(a) =>
       header[a].span = Len(memory[a]) + Header
  /\ \A a \in Address : InCache(a) => \A t \in Thread : ~Holds(t, a)
  /\ \A a \in Address : kind[a] # "free" => InCache(a) \/ \E t \in Thread : Holds(t, a)

CountOK == CacheIsBounded

RecordsOK ==
  /\ records \subseteq BlockRecord /\ IsFiniteSet(records) /\ Cardinality(records) <= TableRoom
  /\ \A q, r \in records : q.pointer = r.pointer => q = r
  /\ \A r \in records : \E t \in Thread : r.pointer \in DOMAIN client[t]

IInv == /\ Types /\ (\A t \in Thread : ThreadOK(t))
        /\ OneHolder /\ ListsOK /\ CountOK /\ RecordsOK

-----------------------------------------------------------------------------
(* Sizes.                                                                    *)
LEMMA Numbers ==
  /\ SizeMax \in Nat \ {0} /\ Threshold \in Nat \ {0} /\ Header \in Nat \ {0}
  /\ Page \in Nat \ {0} /\ Header + Page <= SizeMax
  /\ CacheSlots \in Nat /\ CacheSpanLimit \in Nat /\ CacheBytesLimit \in Nat /\ TableRoom \in Nat
BY AllocatorAssumption DEF AllocatorAssumption

(* A quotient's product lies within one divisor of the number.               *)
LEMMA Division ==
  ASSUME NEW n \in Nat \ {0}, NEW a \in Nat
  PROVE  /\ a \div n \in Nat /\ n * (a \div n) <= a
         /\ a - n < n * (a \div n)
OBVIOUS

(* A span that is not too large has room for the header and the block, and    *)
(* its size has not wrapped.                                                 *)
LEMMA SpanFits ==
  ASSUME NEW size \in 0 .. SizeMax, ~TooLarge(size)
  PROVE  Span(size) \in 0 .. SizeMax /\ Span(size) >= Header + size
<1> DEFINE x == Header + size + Page - 1
<1>1. x \in Nat /\ x <= SizeMax
  BY Numbers DEF TooLarge
<1>2. x % (SizeMax + 1) = x
  BY <1>1, Numbers
<1>3. Span(size) = (x \div Page) * Page
  BY <1>2 DEF Span
<1>4. \A a \in Nat, n \in Nat \ {0} :
        a \div n \in Nat /\ n * (a \div n) <= a /\ a - n < n * (a \div n)
  BY Division
<1>5. x \div Page \in Nat /\ Page * (x \div Page) <= x /\ x - Page < Page * (x \div Page)
  BY <1>1, <1>4, Numbers, Zenon
<1> DEFINE q == x \div Page
<1>6. q \in Nat /\ Page * q <= x /\ x - Page < Page * q /\ Span(size) = q * Page
  BY <1>3, <1>5
<1> HIDE DEF q
<1>7. Page * q \in Nat /\ q * Page = Page * q
  BY <1>6, Numbers
<1>8. QED
  BY <1>1, <1>6, <1>7, Numbers

-----------------------------------------------------------------------------
(* Bytes of a block.                                                        *)
LEMMA FillIs ==
  ASSUME NEW n \in Nat, NEW b \in Byte
  PROVE  /\ Fill(n, b) \in ByteStrings /\ Len(Fill(n, b)) = n
         /\ \A i \in 1 .. n : Fill(n, b)[i] = b
BY DEF Fill, ByteStrings

(* What an overwritten block holds.                                          *)
LEMMA OverwriteIs ==
  ASSUME NEW f \in ByteStrings, NEW g \in ByteStrings, NEW n \in Nat, n <= Len(g)
  PROVE  /\ Overwrite(f, n, g) \in ByteStrings /\ Len(Overwrite(f, n, g)) = Len(f)
         /\ \A i \in 1 .. Len(f) : Overwrite(f, n, g)[i] = IF i <= n THEN g[i] ELSE f[i]
<1>1. DOMAIN f = 1 .. Len(f) /\ Len(f) \in Nat
  BY DEF ByteStrings
<1>2. Overwrite(f, n, g) = [i \in 1 .. Len(f) |-> IF i <= n THEN g[i] ELSE f[i]]
  BY <1>1 DEF Overwrite
<1>3. \A i \in 1 .. Len(f) : (IF i <= n THEN g[i] ELSE f[i]) \in Byte
  BY <1>1 DEF ByteStrings
<1>4. QED
  BY <1>1, <1>2, <1>3 DEF ByteStrings

(* The lesser of two numbers.                                                *)
LEMMA LeastIs ==
  ASSUME NEW m \in Nat, NEW n \in Nat
  PROVE  Least(m, n) \in Nat /\ Least(m, n) <= m /\ Least(m, n) <= n
BY DEF Least

(* What realloc promises is the front of the old block.                      *)
LEMMA PromisedIs ==
  ASSUME NEW o \in CallState, o.op # "calloc"
  PROVE  /\ Len(Promised(o)) = Least(Len(o.kept.data), o.size)
         /\ Promised(o) \in ByteStrings
         /\ \A i \in 1 .. Len(Promised(o)) : Promised(o)[i] = o.kept.data[i]
<1> DEFINE d == o.kept.data
           m == Least(Len(d), o.size)
<1>1. d \in ByteStrings /\ o.size \in Nat
  BY DEF CallState, Block
<1>0. Len(d) \in Nat
  BY <1>1 DEF ByteStrings
<1>2. m \in Nat /\ m <= Len(d)
  BY <1>0, <1>1, LeastIs
<1>3. Promised(o) = SubSeq(d, 1, m)
  BY DEF Promised
<1> HIDE DEF d, m
<1>4. Promised(o) \in ByteStrings /\ Len(Promised(o)) = m
  BY <1>1, <1>2, <1>3 DEF ByteStrings
<1>5. \A i \in 1 .. m : Promised(o)[i] = d[i]
  BY <1>1, <1>2, <1>3 DEF ByteStrings
<1>6. QED
  BY <1>4, <1>5 DEF d, m

(* calloc promises zeroes.                                                   *)
LEMMA PromisedZeroes ==
  ASSUME NEW o \in CallState, o.op = "calloc"
  PROVE  /\ Len(Promised(o)) = o.size /\ Promised(o) \in ByteStrings
         /\ \A i \in 1 .. o.size : Promised(o)[i] = 0
<1>1. o.size \in Nat
  BY DEF CallState
<1>2. 0 \in Byte
  BY DEF Byte
<1>3. QED
  BY <1>1, <1>2, FillIs DEF Promised

-----------------------------------------------------------------------------
(* What a thread holds and where its call is.                                *)
LEMMA WithoutHeld ==
  ASSUME NEW f \in Held, NEW a
  PROVE  /\ Without(f, a) \in Held /\ DOMAIN Without(f, a) = DOMAIN f \ {a}
         /\ \A x \in DOMAIN f \ {a} : Without(f, a)[x] = f[x]
<1>1. PICK S \in SUBSET Address : f \in [S -> Block]
  BY DEF Held
<1>2. Without(f, a) \in [S \ {a} -> Block] /\ S \ {a} \in SUBSET Address
  BY <1>1 DEF Without
<1>3. QED
  BY <1>1, <1>2 DEF Held, Without

(* A thread that gets a block holds it beside the others.                    *)
LEMMA WithHeld ==
  ASSUME NEW f \in Held, NEW a \in Address, NEW v \in Block
  PROVE  /\ With(f, a, v) \in Held /\ DOMAIN With(f, a, v) = DOMAIN f \union {a}
         /\ With(f, a, v)[a] = v
         /\ \A x \in DOMAIN f \ {a} : With(f, a, v)[x] = f[x]
<1>1. PICK S \in SUBSET Address : f \in [S -> Block]
  BY DEF Held
<1>2. With(f, a, v) \in [S \union {a} -> Block] /\ S \union {a} \in SUBSET Address
  BY <1>1 DEF With
<1>3. QED
  BY <1>1, <1>2 DEF Held, With

(* What a thread holds has the types.                                        *)
LEMMA HeldTypes ==
  ASSUME Types, NEW t \in Thread
  PROVE  /\ client[t] \in Held /\ DOMAIN client[t] \subseteq Address
         /\ \A a \in DOMAIN client[t] :
              client[t][a] \in Block /\ client[t][a].data \in ByteStrings /\ Len(client[t][a].data) \in Nat
<1>1. client[t] \in Held
  BY DEF Types
<1>2. PICK S \in SUBSET Address : client[t] \in [S -> Block]
  BY <1>1 DEF Held
<1>3. DOMAIN client[t] = S /\ \A a \in S : client[t][a] \in Block
  BY <1>2
<1>4. \A b \in Block : b.data \in ByteStrings /\ Len(b.data) \in Nat
  BY DEF Block, ByteStrings
<1>5. QED
  BY <1>1, <1>3, <1>4

(* A call's fields have the types.                                           *)
LEMMA CallTypes ==
  ASSUME Types, NEW t \in Thread
  PROVE  /\ th[t] \in CallState
         /\ th[t].pc \in PC /\ th[t].op \in Op /\ th[t].ptr \in AnyAddress /\ th[t].new \in AnyAddress
         /\ th[t].size \in 0 .. SizeMax /\ th[t].size \in Nat /\ th[t].copy \in 0 .. SizeMax
         /\ th[t].copy \in Nat
         /\ th[t].old \in OldRecord /\ th[t].kept \in Block
         /\ th[t].kept.data \in ByteStrings /\ Len(th[t].kept.data) \in Nat
<1>1. th[t] \in CallState
  BY DEF Types
<1>2. \A b \in Block : b.data \in ByteStrings /\ Len(b.data) \in Nat
  BY DEF Block, ByteStrings
<1>3. QED
  BY <1>1, <1>2, Numbers DEF CallState

(* A block's bytes and header have the types.                                *)
LEMMA MemoryTypes ==
  ASSUME Types, NEW a \in Address
  PROVE  /\ memory[a] \in ByteStrings /\ Len(memory[a]) \in Nat /\ DOMAIN memory[a] = 1 .. Len(memory[a])
         /\ kind[a] \in {"free", "native", "mapped"}
         /\ header[a] \in SpanHeader
         /\ header[a].span \in 0 .. SizeMax /\ header[a].requested \in 0 .. SizeMax
         /\ a # NoAddress
<1>1. memory[a] \in ByteStrings
  BY DEF Types
<1>2. header[a] \in SpanHeader
  BY DEF Types
<1>3. Len(memory[a]) \in Nat /\ DOMAIN memory[a] = 1 .. Len(memory[a])
  BY <1>1 DEF ByteStrings
<1>4. header[a].span \in 0 .. SizeMax /\ header[a].requested \in 0 .. SizeMax
  BY <1>2 DEF SpanHeader
<1>5. kind[a] \in {"free", "native", "mapped"} /\ a # NoAddress
  BY AllocatorAssumption DEF Types, AllocatorAssumption
<1>6. QED
  BY <1>1, <1>2, <1>3, <1>4, <1>5

-----------------------------------------------------------------------------
(* Steps.  A step of t leaves what is behind an address alone, or t holds it  *)
(* or nobody does: then nothing changes for the other threads.               *)
Same(a) == /\ kind'[a] = kind[a] /\ memory'[a] = memory[a] /\ header'[a] = header[a]
           /\ a \in mappings' <=> a \in mappings
           /\ \A r \in BlockRecord : r.pointer = a => (r \in records' <=> r \in records)

(* A step that leaves a thread's blocks alone keeps its part.                *)
LEMMA FrameParts ==
  ASSUME Types, Types', NEW s \in Thread, ThreadOK(s), RecordsOK, records' \subseteq BlockRecord,
         th'[s] = th[s], client'[s] = client[s],
         \A a \in Address : Holds(s, a) => Same(a)
  PROVE  ThreadOK(s)'
<1> DEFINE o == th[s]
<1>1. /\ HasPtr(s)' <=> HasPtr(s)
      /\ HasNew(s)' <=> HasNew(s)
      /\ \A a : Holds(s, a)' <=> Holds(s, a)
      /\ \A a : Moving(s, a)' <=> Moving(s, a)
      /\ Keeping(s)' <=> Keeping(s)
      /\ \A p : At(s, p)' <=> At(s, p)
  BY DEF HasPtr, HasNew, Holds, Moving, Keeping, At
<1>2. \A a \in DOMAIN client[s] : a \in Address /\ Same(a)
  BY HeldTypes DEF Holds
<1>3. HasPtr(s) => o.ptr \in Address /\ Same(o.ptr)
  BY CallTypes DEF HasPtr, Holds, AnyAddress
<1>4. HasNew(s) => o.new \in Address /\ Same(o.new)
  BY CallTypes DEF HasNew, Holds, AnyAddress
<1>5. Keeping(s) => HasPtr(s)
  BY DEF Keeping, HasPtr
<1>6. CallShape(s)'
  BY DEF ThreadOK, CallShape
<1>7. Apart(s)'
  BY <1>1 DEF ThreadOK, Apart
<1>8. KindOK(s)'
  <2>1. o.pc = "insert" => HasNew(s)
    BY DEF ThreadOK, CallShape, HasNew
  <2>2. o.pc = "libcRealloc" => HasPtr(s)
    BY DEF ThreadOK, CallShape, HasPtr
  <2>3. o.pc = "add" => HasNew(s)
    BY DEF ThreadOK, CallShape, HasNew
  <2>4. \A a \in Address : Holds(s, a)' => kind'[a] # "free"
                                          /\ (a \in mappings' <=> kind'[a] = "mapped" /\ ~Moving(s, a)')
    BY <1>1 DEF ThreadOK, KindOK, Same
  <2>5. At(s, "insert")' => kind'[o.new] = "mapped"
    BY <1>4, <2>1 DEF At, ThreadOK, KindOK, Same
  <2>6. At(s, "libcRealloc")' => kind'[o.ptr] = "native"
    BY <1>3, <2>2 DEF At, ThreadOK, KindOK, Same
  <2>7. At(s, "add")' /\ o.op # "realloc" => (kind'[o.new] = "native" <=> o.size < Threshold)
    BY <1>4, <2>3 DEF At, ThreadOK, KindOK, Same
  <2>8. QED
    BY <2>4, <2>5, <2>6, <2>7 DEF KindOK
<1>9. BlocksOK(s)'
  BY <1>2 DEF ThreadOK, BlocksOK, Same, Agrees
<1>10. KeptOK(s)'
  BY <1>1, <1>3, <1>5 DEF ThreadOK, KeptOK, Same, Agrees
<1>11. NewOK(s)'
  <2>1. o.pc \in {"insert", "copy", "add"} => HasNew(s)
    BY DEF ThreadOK, CallShape, HasNew
  <2>2. o.new \in mappings' => HasNew(s)
    <3>1. mappings' \subseteq Address /\ NoAddress \notin Address
      BY AllocatorAssumption DEF Types, AllocatorAssumption
    <3>2. QED
      BY <3>1 DEF HasNew
  <2>3. QED
    BY <1>1, <1>4, <2>1, <2>2 DEF ThreadOK, NewOK, Same, Agrees
<1>12. OldOK(s)'
  BY <1>1, <1>3, <1>5 DEF ThreadOK, OldOK, Same
<1>13. NamesOK(s)'
  <2>1. \A r \in records' : r.pointer \in DOMAIN client[s] => r \in records /\ kind'[r.pointer] = kind[r.pointer]
    BY <1>2 DEF Same
  <2>2. \A r \in records : r.pointer \in DOMAIN client[s] => r \in records'
    BY <1>2 DEF Same, RecordsOK
  <2>3. QED
    BY <2>1, <2>2 DEF ThreadOK, NamesOK
<1>14. QED
  BY <1>6, <1>7, <1>8, <1>9, <1>10, <1>11, <1>12, <1>13 DEF ThreadOK

(* A step of one thread that keeps its own part keeps the invariant.         *)
LEMMA Assemble ==
  ASSUME IInv, NEW t \in Thread, Types',
         \A s \in Thread \ {t} : th'[s] = th[s] /\ client'[s] = client[s],
         \A a \in Address : Same(a) \/ Holds(t, a) \/ \A s \in Thread : ~Holds(s, a),
         \A a \in Address : Holds(t, a)' => Holds(t, a) \/ \A s \in Thread : ~Holds(s, a),
         ThreadOK(t)', ListsOK', CountOK', RecordsOK'
  PROVE  IInv'
<1>1. \A s \in Thread \ {t}, a \in Address : Holds(s, a)' <=> Holds(s, a)
  BY DEF Holds, HasPtr, HasNew
<1>2. OneHolder'
  BY <1>1 DEF OneHolder, IInv
<1>3. \A s \in Thread : ThreadOK(s)'
  <2>1. SUFFICES ASSUME NEW s \in Thread \ {t} PROVE ThreadOK(s)'
    OBVIOUS
  <2>2. \A a \in Address : Holds(s, a) => Same(a)
    BY DEF IInv, OneHolder
  <2>3. records' \subseteq BlockRecord
    BY DEF RecordsOK
  <2>4. QED
    BY <2>2, <2>3, FrameParts DEF IInv
<1>4. QED
  BY <1>2, <1>3 DEF IInv

(* A block nobody has.                                                       *)
LEMMA FreshIs ==
  ASSUME IInv, NEW a \in Fresh
  PROVE  /\ a \in Address /\ kind[a] = "free" /\ a \notin mappings /\ ~InCache(a)
         /\ \A s \in Thread : ~Holds(s, a)
         /\ \A s \in Thread : a \notin DOMAIN client[s]
         /\ \A r \in records : r.pointer # a
<1>1. a \in Address /\ kind[a] = "free"
  BY DEF Fresh
<1>2. \A s \in Thread : ~Holds(s, a)
  BY <1>1 DEF IInv, ThreadOK, KindOK
<1>3. a \notin mappings /\ ~InCache(a)
  BY <1>1 DEF IInv, ListsOK
<1>4. QED
  BY <1>1, <1>2, <1>3 DEF Holds, IInv, RecordsOK

(* What a call works on has no record.                                       *)
LEMMA NoNameInCall ==
  ASSUME IInv, NEW t \in Thread, NEW a \in Address, Holds(t, a), a \notin DOMAIN client[t]
  PROVE  \A r \in records : r.pointer # a
<1>1. SUFFICES ASSUME NEW r \in records, r.pointer = a PROVE FALSE
  OBVIOUS
<1>2. PICK s \in Thread : a \in DOMAIN client[s]
  BY <1>1 DEF IInv, RecordsOK
<1>3. Holds(s, a)
  BY <1>2 DEF Holds
<1>4. s = t
  BY <1>3 DEF IInv, OneHolder
<1>5. QED
  BY <1>2, <1>4

(* The lists when the cache stays as it is.                                  *)
LEMMA ListsKept ==
  ASSUME IInv, NEW t \in Thread, cached' = cached,
         \A s \in Thread \ {t} : th'[s] = th[s] /\ client'[s] = client[s],
         \A a \in Address : InCache(a) =>
           /\ kind'[a] = kind[a] /\ memory'[a] = memory[a] /\ header'[a] = header[a]
           /\ a \notin mappings' /\ ~Holds(t, a)',
         \A a \in Address : a \in mappings' =>
           kind'[a] = "mapped" /\ header'[a].span = Len(memory'[a]) + Header,
         \A a \in Address : kind'[a] # "free" => Holds(t, a)' \/ (kind[a] # "free" /\ ~Holds(t, a))
  PROVE  ListsOK'
<1>1. \A s \in Thread \ {t}, a \in Address : Holds(s, a)' <=> Holds(s, a)
  BY DEF Holds, HasPtr, HasNew
<1>2. \A a \in Address : InCache(a)' <=> InCache(a)
  BY DEF InCache
<1>3. \A i, j \in DOMAIN cached' : cached'[i] = cached'[j] => i = j
  BY DEF IInv, ListsOK
<1>4. \A a \in Address : InCache(a)' => kind'[a] = "mapped" /\ a \notin mappings'
  BY <1>2 DEF IInv, ListsOK
<1>5. \A a \in Address : a \in mappings' \/ InCache(a)' => header'[a].span = Len(memory'[a]) + Header
  BY <1>2 DEF IInv, ListsOK
<1>6. \A a \in Address : InCache(a)' => \A s \in Thread : ~Holds(s, a)'
  BY <1>1, <1>2 DEF IInv, ListsOK
<1>7. \A a \in Address : kind'[a] # "free" => InCache(a)' \/ \E s \in Thread : Holds(s, a)'
  <2>1. SUFFICES ASSUME NEW a \in Address, kind'[a] # "free", ~Holds(t, a)', ~InCache(a)
                 PROVE  \E s \in Thread : Holds(s, a)'
    BY <1>2
  <2>2. kind[a] # "free" /\ ~Holds(t, a)
    BY <2>1
  <2>3. PICK s \in Thread : Holds(s, a)
    BY <2>1, <2>2 DEF IInv, ListsOK
  <2>4. s # t
    BY <2>2, <2>3
  <2>5. QED
    BY <1>1, <2>3, <2>4
<1>8. QED
  BY <1>3, <1>4, <1>5, <1>6, <1>7 DEF ListsOK

(* The spans of the cache are those of its list.                             *)
LEMMA RangeOfCache ==
  ASSUME Types
  PROVE  Range(cached) = {a \in Address : InCache(a)}
<1>1. \A i \in DOMAIN cached : cached[i] \in Address
  BY DEF Types
<1>2. QED
  BY <1>1 DEF Range, InCache

(* The count of cached bytes holds when cache and headers stay.              *)
LEMMA CountKept ==
  ASSUME IInv, cached' = cached, cachedBytes' = cachedBytes,
         \A a \in Address : InCache(a) => header'[a] = header[a]
  PROVE  CountOK'
<1>1. \A i \in DOMAIN cached : cached[i] \in Address /\ header'[cached[i]] = header[cached[i]]
  BY DEF IInv, Types, InCache
<1>2. Range(cached') = Range(cached)
  OBVIOUS
<1>3. \A a \in Range(cached) : a \in Address /\ InCache(a)
  BY RangeOfCache DEF IInv
<1>4. \A a \in Range(cached) : SpanBytes(a)' = SpanBytes(a)
  BY <1>3 DEF SpanBytes
<1>5. UNION {SpanBytes(a)' : a \in Range(cached)'} = UNION {SpanBytes(a) : a \in Range(cached)}
  <2>1. {SpanBytes(a)' : a \in Range(cached')} = {SpanBytes(a) : a \in Range(cached)}
    BY <1>2, <1>4
  <2>2. QED
    BY <2>1
<1>6. QED
  BY <1>1, <1>5 DEF IInv, CountOK, CacheIsBounded

(* The records hold when they stay and nobody loses a block.                 *)
LEMMA RecordsKept ==
  ASSUME IInv, NEW t \in Thread, records' = records,
         \A s \in Thread \ {t} : client'[s] = client[s],
         DOMAIN client[t] \subseteq DOMAIN client'[t]
  PROVE  RecordsOK'
<1>1. \A s \in Thread : DOMAIN client[s] \subseteq DOMAIN client'[s]
  OBVIOUS
<1>2. QED
  BY <1>1 DEF IInv, RecordsOK

-----------------------------------------------------------------------------
(* What a step does to the calls: the caller's changes as said, the others   *)
(* stay.                                                                     *)
OthersStay(t) == \A s \in Thread \ {t} : th'[s] = th[s]

(* An idle thread is in a state of a call.                                   *)
LEMMA IdleIsCall == Idle \in CallState /\ NoAddress \in AnyAddress /\ NoBlockRecord \in OldRecord
<1>1. Idle.kept \in Block
  BY EmptySeq DEF Idle, Block, ByteStrings
<1>2. 0 \in 0 .. SizeMax
  BY Numbers
<1>3. NoBlockRecord \in OldRecord /\ NoAddress \in AnyAddress /\ "idle" \in PC /\ "none" \in Op
  BY DEF OldRecord, AnyAddress, PC, Op
<1>4. QED
  BY <1>1, <1>2, <1>3 DEF Idle, CallState

Moved(t, p, a) ==
  /\ th' \in [Thread -> CallState] /\ OthersStay(t)
  /\ th'[t].pc = p /\ th'[t].new = a
  /\ th'[t].op = th[t].op /\ th'[t].ptr = th[t].ptr /\ th'[t].size = th[t].size
  /\ th'[t].old = th[t].old /\ th'[t].copy = th[t].copy /\ th'[t].kept = th[t].kept

(* A step that sets place and block sets nothing else of the call.           *)
LEMMA MoveOn ==
  ASSUME Types, NEW t \in Thread, NEW p \in PC, NEW a \in AnyAddress,
         th' = [th EXCEPT ![t].pc = p, ![t].new = a]
  PROVE  Moved(t, p, a)
<1>1. th \in [Thread -> CallState]
  BY DEF Types
<1>2. [th[t] EXCEPT !.pc = p, !.new = a] \in CallState
  BY <1>1 DEF CallState
<1>3. th[t] \in CallState
  BY <1>1
<1>4. th' = [th EXCEPT ![t] = [th[t] EXCEPT !.pc = p, !.new = a]]
  BY <1>1, <1>3
<1>5. th'[t] = [th[t] EXCEPT !.pc = p, !.new = a]
  BY <1>1, <1>4
<1>6. QED
  BY <1>1, <1>2, <1>3, <1>4, <1>5 DEF OthersStay, CallState, Moved

(* A step that sets the place sets nothing else.                             *)
LEMMA GoOn ==
  ASSUME Types, NEW t \in Thread, NEW p \in PC, Goto(t, p)
  PROVE  /\ th' \in [Thread -> CallState] /\ OthersStay(t)
         /\ th'[t].pc = p /\ th'[t].new = th[t].new
         /\ th'[t].op = th[t].op /\ th'[t].ptr = th[t].ptr /\ th'[t].size = th[t].size
         /\ th'[t].old = th[t].old /\ th'[t].copy = th[t].copy /\ th'[t].kept = th[t].kept
<1>1. th \in [Thread -> CallState]
  BY DEF Types
<1>2. [th[t] EXCEPT !.pc = p] \in CallState
  BY <1>1 DEF CallState
<1>3. th[t] \in CallState
  BY <1>1
<1>4. th' = [th EXCEPT ![t] = [th[t] EXCEPT !.pc = p]]
  BY <1>1, <1>3 DEF Goto
<1>5. th'[t] = [th[t] EXCEPT !.pc = p]
  BY <1>1, <1>4
<1>6. QED
  BY <1>1, <1>2, <1>3, <1>4, <1>5 DEF OthersStay, CallState

(* A call begun sets its own state only.                                     *)
LEMMA BeginCall ==
  ASSUME Types, NEW t \in Thread, NEW c \in CallState, th' = [th EXCEPT ![t] = c]
  PROVE  th' \in [Thread -> CallState] /\ OthersStay(t) /\ th'[t] = c
BY DEF Types, OthersStay

(* A step that only moves the call on.                                       *)
LEMMA QuietStep ==
  ASSUME IInv, NEW t \in Thread, UNCHANGED <<system, spans, records, client>>,
         th' \in [Thread -> CallState], OthersStay(t),
         \A a \in Address : Holds(t, a)' <=> Holds(t, a), ThreadOK(t)'
  PROVE  IInv'
<1>1. /\ UNCHANGED <<kind, memory, header, mappings, cached, cachedBytes, records, client>>
      /\ \A s \in Thread \ {t} : th'[s] = th[s] /\ client'[s] = client[s]
  BY DEF system, spans, OthersStay
<1>2. Types'
  BY <1>1 DEF IInv, Types
<1>3. \A a \in Address : Same(a)
  BY <1>1 DEF Same
<1>4. ListsOK'
  <2>1. \A a \in Address : InCache(a) => a \notin mappings' /\ ~Holds(t, a)'
    BY <1>1 DEF IInv, ListsOK
  <2>2. \A a \in Address : a \in mappings' =>
           kind'[a] = "mapped" /\ header'[a].span = Len(memory'[a]) + Header
    BY <1>1 DEF IInv, ListsOK
  <2>3. \A a \in Address : kind'[a] # "free" => Holds(t, a)' \/ (kind[a] # "free" /\ ~Holds(t, a))
    BY <1>1
  <2>4. QED
    BY <1>1, <2>1, <2>2, <2>3, ListsKept
<1>5. CountOK'
  BY <1>1, CountKept
<1>6. RecordsOK'
  BY <1>1, RecordsKept
<1>7. QED
  BY <1>1, <1>2, <1>3, <1>4, <1>5, <1>6, Assemble

(* A call that begins without a block.                                       *)
LEMMA BeginKeeps ==
  ASSUME IInv, NEW t \in Thread, NEW c \in CallState, At(t, "idle"),
         UNCHANGED <<system, spans, records, client>>, th' = [th EXCEPT ![t] = c],
         c.pc \in {"alloc", "resize"}, c.ptr = NoAddress, c.new = NoAddress, CallShape(t)'
  PROVE  IInv'
<1>3. th' \in [Thread -> CallState] /\ OthersStay(t) /\ th'[t] = c
  BY BeginCall DEF IInv
<1>4. UNCHANGED <<kind, memory, header, mappings, cached, cachedBytes, records, client>>
  BY DEF system, spans
<1>5. th[t].pc = "idle" /\ th[t].ptr = NoAddress /\ th[t].new = NoAddress
  BY DEF At, IInv, ThreadOK, CallShape
<1>6. ~HasPtr(t)' /\ ~HasNew(t)' /\ ~HasPtr(t) /\ ~HasNew(t) /\ ~Keeping(t)'
  BY <1>3, <1>5 DEF HasPtr, HasNew, Keeping
<1>7. \A a \in Address : (Holds(t, a)' <=> Holds(t, a)) /\ (Moving(t, a)' <=> Moving(t, a))
  BY <1>3, <1>4, <1>5, <1>6 DEF Holds, Moving, At
<1>8. ThreadOK(t)'
  <2>0. ThreadOK(t)
    BY DEF IInv
  <2>2. Apart(t)'
    BY <1>6 DEF Apart
  <2>3. KindOK(t)'
    BY <1>3, <1>4, <1>7, <2>0 DEF ThreadOK, KindOK, At
  <2>4. BlocksOK(t)'
    BY <1>4, <2>0 DEF ThreadOK, BlocksOK, Agrees
  <2>5. KeptOK(t)' /\ OldOK(t)'
    BY <1>6 DEF KeptOK, OldOK
  <2>6. NewOK(t)'
    BY <1>3 DEF NewOK
  <2>7. NamesOK(t)'
    BY <1>4, <2>0 DEF ThreadOK, NamesOK
  <2>8. QED
    BY <2>2, <2>3, <2>4, <2>5, <2>6, <2>7 DEF ThreadOK
<1>9. QED
  BY <1>3, <1>4, <1>7, <1>8, QuietStep DEF system, spans

(* The start of malloc and calloc keeps the invariant.                       *)
LEMMA MallocCallKeeps ==
  ASSUME IInv, NEW t \in Thread, NEW size \in Sizes, NEW op \in {"malloc", "calloc"},
         MallocCall(t, size, op)
  PROVE  IInv'
<1> DEFINE c == [Idle EXCEPT !.pc = "alloc", !.op = op, !.size = size]
<1>1. c \in CallState /\ c.pc = "alloc" /\ c.op = op /\ c.size = size /\ c.ptr = NoAddress
      /\ c.new = NoAddress /\ c.old = NoBlockRecord /\ c.kept.data = <<>>
  <2>1. size \in 0 .. SizeMax /\ "alloc" \in PC /\ op \in Op
    BY AllocatorAssumption DEF AllocatorAssumption, PC, Op
  <2>2. c \in CallState
    BY <2>1, IdleIsCall DEF CallState
  <2>3. QED
    BY <2>2 DEF Idle
<1>2. th' = [th EXCEPT ![t] = c] /\ At(t, "idle") /\ UNCHANGED <<system, spans, records, client>>
  BY DEF MallocCall
<1> HIDE DEF c
<1>3. CallShape(t)'
  <2>1. th'[t] = c
    BY <1>1, <1>2, BeginCall DEF IInv
  <2>2. QED
    BY <1>1, <2>1 DEF CallShape
<1>4. QED
  BY <1>1, <1>2, <1>3, BeginKeeps

(* A call that only moves on keeps what it holds and what it holds there.     *)
LEMMA CallMoves ==
  ASSUME IInv, NEW t \in Thread, UNCHANGED <<system, spans, records, client>>,
         th' \in [Thread -> CallState], OthersStay(t),
         th'[t].ptr = th[t].ptr, th'[t].new = th[t].new, th'[t].op = th[t].op,
         th'[t].size = th[t].size, th'[t].old = th[t].old, th'[t].kept = th[t].kept,
         th[t].pc \in {"alloc", "map", "resize", "libcRealloc"},
         th'[t].pc \in {"alloc", "map", "resize", "libcRealloc", "fail", "release"},
         th'[t].pc \in {"alloc", "map"} /\ Keeping(t) => th'[t].copy = Len(th[t].kept.data),
         th'[t].pc = "libcRealloc" => th[t].ptr # NoAddress /\ kind[th[t].ptr] = "native",
         CallShape(t)'
  PROVE  IInv'
<1>1. UNCHANGED <<kind, memory, header, mappings, cached, cachedBytes, records, client>>
  BY DEF system, spans
<1>2. ThreadOK(t)
  BY DEF IInv
<1>3. th[t].new = NoAddress /\ ~HasNew(t) /\ ~HasNew(t)' /\ (HasPtr(t)' <=> HasPtr(t))
  BY <1>2 DEF ThreadOK, CallShape, HasNew, HasPtr
<1>4. \A a \in Address : (Holds(t, a)' <=> Holds(t, a)) /\ ~Moving(t, a)' /\ ~Moving(t, a)
  BY <1>1, <1>3 DEF Holds, Moving, At
<1>5. Keeping(t)' => Keeping(t)
  BY DEF Keeping
<1>6. Apart(t)'
  BY <1>1, <1>2, <1>3 DEF ThreadOK, Apart
<1>7. KindOK(t)'
  <2>1. \A a \in Address : Holds(t, a)' => kind'[a] # "free"
                             /\ (a \in mappings' <=> kind'[a] = "mapped" /\ ~Moving(t, a)')
    BY <1>1, <1>2, <1>4 DEF ThreadOK, KindOK
  <2>2. At(t, "libcRealloc")' => kind'[th'[t].ptr] = "native"
    BY <1>1 DEF At
  <2>3. ~At(t, "insert")' /\ ~At(t, "add")'
    BY DEF At
  <2>4. QED
    BY <2>1, <2>2, <2>3 DEF KindOK
<1>8. BlocksOK(t)'
  BY <1>1, <1>2 DEF ThreadOK, BlocksOK, Agrees
<1>9. KeptOK(t)'
  BY <1>1, <1>2, <1>5 DEF ThreadOK, KeptOK, Agrees
<1>10. NewOK(t)'
  <2>1. th'[t].new \notin mappings'
    BY <1>1, <1>3, AllocatorAssumption DEF IInv, Types, AllocatorAssumption
  <2>2. QED
    BY <1>3, <2>1 DEF NewOK
<1>11. OldOK(t)'
  BY <1>1, <1>2, <1>5 DEF ThreadOK, OldOK
<1>12. NamesOK(t)'
  BY <1>1, <1>2 DEF ThreadOK, NamesOK
<1>13. QED
  BY <1>4, <1>6, <1>7, <1>8, <1>9, <1>10, <1>11, <1>12, QuietStep DEF ThreadOK

(* A step that sets place and length sets nothing else.                      *)
LEMMA MoveWith ==
  ASSUME Types, NEW t \in Thread, NEW p \in PC, NEW n \in 0 .. SizeMax,
         th' = [th EXCEPT ![t].pc = p, ![t].copy = n]
  PROVE  /\ th' \in [Thread -> CallState] /\ OthersStay(t)
         /\ th'[t].pc = p /\ th'[t].new = th[t].new
         /\ th'[t].op = th[t].op /\ th'[t].ptr = th[t].ptr /\ th'[t].size = th[t].size
         /\ th'[t].old = th[t].old /\ th'[t].copy = n /\ th'[t].kept = th[t].kept
<1>1. th \in [Thread -> CallState]
  BY DEF Types
<1>2. [th[t] EXCEPT !.pc = p, !.copy = n] \in CallState
  BY <1>1 DEF CallState
<1>3. th[t] \in CallState
  BY <1>1
<1>4. th' = [th EXCEPT ![t] = [th[t] EXCEPT !.pc = p, !.copy = n]]
  BY <1>1, <1>3
<1>5. th'[t] = [th[t] EXCEPT !.pc = p, !.copy = n]
  BY <1>1, <1>4
<1>6. QED
  BY <1>1, <1>2, <1>3, <1>4, <1>5 DEF OthersStay, CallState

(* The choice between the ways to resize keeps the invariant.                *)
LEMMA ResizeKeeps ==
  ASSUME IInv, NEW t \in Thread, Resize(t)
  PROVE  IInv'
<1> DEFINE o == th[t]
<1>0. Types /\ ThreadOK(t)
  BY DEF IInv
<1>1. o.pc = "resize" /\ UNCHANGED <<system, spans, records, client>>
  BY DEF Resize, At
<1>2. {"alloc", "release", "libcRealloc"} \subseteq PC
  BY DEF PC
<1>3. o.op = "realloc" /\ o.new = NoAddress /\ (o.ptr = NoAddress \/ Keeping(t))
  BY <1>0, <1>1 DEF ThreadOK, CallShape, Keeping
<1>4. CASE o.ptr = NoAddress /\ Goto(t, "alloc")
  <2>1. CallShape(t)'
    BY <1>0, <1>1, <1>2, <1>3, <1>4, GoOn DEF ThreadOK, CallShape
  <2>2. ~Keeping(t)
    BY <1>4 DEF Keeping
  <2>3. QED
    BY <1>0, <1>1, <1>2, <1>4, <2>1, <2>2, GoOn, CallMoves
<1>5. CASE o.ptr # NoAddress /\ o.size = 0 /\ Goto(t, "release")
  <2>1. CallShape(t)'
    BY <1>0, <1>1, <1>2, <1>3, <1>5, GoOn DEF ThreadOK, CallShape
  <2>2. QED
    BY <1>0, <1>1, <1>2, <1>5, <2>1, GoOn, CallMoves
<1>6. CASE /\ o.ptr # NoAddress /\ o.size # 0 /\ (o.ptr \in mappings \/ Migrates(o))
           /\ th' = [th EXCEPT ![t].pc = "alloc",
                               ![t].copy = IF o.ptr \in mappings THEN header[o.ptr].requested
                                           ELSE o.old.bytes]
  <2> DEFINE n == IF o.ptr \in mappings THEN header[o.ptr].requested ELSE o.old.bytes
  <2>1. o.ptr \in mappings => n = Len(o.kept.data)
    BY <1>0, <1>3, <1>6 DEF ThreadOK, KeptOK
  <2>2. o.ptr \notin mappings => o.old \in BlockRecord /\ n = Len(o.kept.data)
    BY <1>0, <1>3, <1>6 DEF ThreadOK, OldOK, Migrates, NoBlockRecord
  <2>3. n \in 0 .. SizeMax
    <3>1. o.ptr \in Address
      BY <1>0, <1>6, CallTypes DEF AnyAddress
    <3>2. header[o.ptr].requested \in 0 .. SizeMax
      BY <1>0, <3>1, MemoryTypes
    <3>3. o.old \in BlockRecord => o.old.bytes \in 0 .. SizeMax
      BY DEF BlockRecord
    <3>4. QED
      BY <2>2, <3>2, <3>3
  <2>4. th' = [th EXCEPT ![t].pc = "alloc", ![t].copy = n]
    BY <1>6
  <2>5. n = Len(o.kept.data)
    BY <2>1, <2>2
  <2> HIDE DEF n
  <2>6. /\ th' \in [Thread -> CallState] /\ OthersStay(t)
        /\ th'[t].pc = "alloc" /\ th'[t].new = o.new
        /\ th'[t].op = o.op /\ th'[t].ptr = o.ptr /\ th'[t].size = o.size
        /\ th'[t].old = o.old /\ th'[t].copy = n /\ th'[t].kept = o.kept
    <3>1. "alloc" \in PC
      BY <1>2
    <3>2. QED
      BY <1>0, <2>3, <2>4, <3>1, MoveWith, Zenon
  <2>7. o.size # 0 /\ o.ptr # NoAddress
    BY <1>6
  <2>8. CallShape(t)'
    BY <1>0, <1>1, <1>3, <2>6, <2>7 DEF ThreadOK, CallShape
  <2>9. QED
    BY <1>1, <2>5, <2>6, <2>8, CallMoves
<1>7. CASE /\ o.ptr # NoAddress /\ o.size # 0 /\ o.ptr \notin mappings
           /\ Goto(t, "libcRealloc")
  <2>1. CallShape(t)'
    BY <1>0, <1>1, <1>2, <1>3, <1>7, GoOn DEF ThreadOK, CallShape
  <2>2. kind[o.ptr] = "native"
    <3>1. o.ptr \in Address
      BY <1>0, <1>7, CallTypes DEF AnyAddress
    <3>2. Holds(t, o.ptr) /\ ~Moving(t, o.ptr)
      BY <1>1, <1>7 DEF Holds, HasPtr, Moving, At
    <3>3. kind[o.ptr] # "free" /\ kind[o.ptr] # "mapped"
      BY <1>0, <1>7, <3>1, <3>2 DEF ThreadOK, KindOK
    <3>4. QED
      BY <1>0, <3>1, <3>3, MemoryTypes
  <2>3. QED
    BY <1>0, <1>1, <1>2, <1>7, <2>1, <2>2, GoOn, CallMoves
<1>8. QED
  BY <1>4, <1>5, <1>6, <1>7 DEF Resize

(* A call that fails, or finds no span in the cache.                         *)
LEMMA FailsKeeps ==
  ASSUME IInv, NEW t \in Thread, LibcReallocFails(t) \/ AllocFails(t)
  PROVE  IInv'
<1>0. Types /\ ThreadOK(t) /\ "fail" \in PC
  BY DEF IInv, PC
<1>1. /\ th[t].pc \in {"libcRealloc", "alloc", "map"} /\ Goto(t, "fail")
      /\ UNCHANGED <<system, spans, records, client>>
  BY DEF LibcReallocFails, AllocFails, At
<1>2. CallShape(t)'
  BY <1>0, <1>1, GoOn DEF ThreadOK, CallShape
<1>3. QED
  BY <1>0, <1>1, <1>2, GoOn, CallMoves

(* So does a search of the cache that finds nothing.                         *)
LEMMA MissKeeps ==
  ASSUME IInv, NEW t \in Thread, TakeCached(t), Hits(th[t].size) = {}
  PROVE  IInv'
<1>0. Types /\ ThreadOK(t) /\ "map" \in PC
  BY DEF IInv, PC
<1>1. /\ th[t].pc = "alloc" /\ Goto(t, "map") /\ UNCHANGED <<system, spans, records, client>>
      /\ th[t].size >= Threshold /\ ~TooLarge(th[t].size)
  BY DEF TakeCached, At
<1>2. CallShape(t)'
  BY <1>0, <1>1, GoOn DEF ThreadOK, CallShape
<1>3. th'[t].pc = "map" /\ (Keeping(t) => th'[t].copy = Len(th[t].kept.data))
  BY <1>0, <1>1, GoOn DEF ThreadOK, KeptOK
<1>4. QED
  BY <1>0, <1>1, <1>2, <1>3, GoOn, CallMoves

-----------------------------------------------------------------------------
(* Calls that take a block from the thread that holds it, and its record.    *)

(* Both: the block goes to the call, its record leaves the table.            *)
LEMMA TakeKeeps ==
  ASSUME IInv, NEW t \in Thread, NEW a \in DOMAIN client[t], NEW c \in CallState,
         At(t, "idle"), Take(a), client' = [client EXCEPT ![t] = Without(@, a)],
         th' = [th EXCEPT ![t] = c], UNCHANGED <<system, spans>>,
         c.ptr = a, c.new = NoAddress, c.pc \in {"release", "resize"},
         CallShape(t)', KeptOK(t)', OldOK(t)'
  PROVE  IInv'
<1>0. Types /\ ThreadOK(t)
  BY DEF IInv
<1>1. UNCHANGED <<kind, memory, header, mappings, cached, cachedBytes>>
  BY DEF system, spans
<1>2. a \in Address /\ a # NoAddress
  BY <1>0, HeldTypes, MemoryTypes
<1>3. th' \in [Thread -> CallState] /\ OthersStay(t) /\ th'[t] = c
  BY <1>0, BeginCall
<1>4. /\ client' \in [Thread -> Held] /\ \A s \in Thread \ {t} : client'[s] = client[s]
      /\ DOMAIN client'[t] = DOMAIN client[t] \ {a}
      /\ \A x \in DOMAIN client'[t] : client'[t][x] = client[t][x]
  <2>1. client[t] \in Held /\ client \in [Thread -> Held]
    BY <1>0, HeldTypes DEF Types
  <2>2. /\ Without(client[t], a) \in Held
        /\ DOMAIN Without(client[t], a) = DOMAIN client[t] \ {a}
        /\ \A x \in DOMAIN client[t] \ {a} : Without(client[t], a)[x] = client[t][x]
    BY <2>1, WithoutHeld, ZenonT(30)
  <2>3. client'[t] = Without(client[t], a)
    BY <2>1
  <2>4. client' \in [Thread -> Held] /\ \A s \in Thread \ {t} : client'[s] = client[s]
    BY <2>1, <2>2
  <2>5. QED
    BY <2>2, <2>3, <2>4
<1>5. th[t].pc = "idle" /\ th[t].ptr = NoAddress /\ th[t].new = NoAddress
  BY <1>0 DEF At, ThreadOK, CallShape
<1>6. ~HasPtr(t) /\ ~HasNew(t) /\ HasPtr(t)' /\ ~HasNew(t)'
  BY <1>2, <1>3, <1>5 DEF HasPtr, HasNew
<1>7. \A x \in Address : (Holds(t, x)' <=> Holds(t, x)) /\ ~Moving(t, x)' /\ ~Moving(t, x)
  BY <1>3, <1>4, <1>5, <1>6 DEF Holds, Moving, At
<1>8. Holds(t, a)
  BY DEF Holds
<1>9. records' = {r \in records : r.pointer # a}
  BY DEF Take
<1>10. Types'
  BY <1>0, <1>1, <1>3, <1>4 DEF Types
<1>11. \A x \in Address : Same(x) \/ Holds(t, x)
  <2>1. SUFFICES ASSUME NEW x \in Address, x # a PROVE Same(x)
    BY <1>8
  <2>2. QED
    BY <1>1, <1>9, <2>1 DEF Same
<1>12. ThreadOK(t)'
  <2>1. Apart(t)'
    BY <1>3, <1>4, <1>6 DEF Apart
  <2>2. KindOK(t)'
    <3>1. \A x \in Address : Holds(t, x)' => kind'[x] # "free"
                               /\ (x \in mappings' <=> kind'[x] = "mapped" /\ ~Moving(t, x)')
      BY <1>0, <1>1, <1>7 DEF ThreadOK, KindOK
    <3>2. ~At(t, "insert")' /\ ~At(t, "add")' /\ ~At(t, "libcRealloc")'
      BY <1>3 DEF At
    <3>3. QED
      BY <3>1, <3>2 DEF KindOK
  <2>3. BlocksOK(t)'
    BY <1>0, <1>1, <1>4 DEF ThreadOK, BlocksOK, Agrees
  <2>4. NewOK(t)'
    <3>1. NoAddress \notin mappings'
      BY <1>10, AllocatorAssumption DEF Types, AllocatorAssumption
    <3>2. QED
      BY <1>3, <1>6, <3>1 DEF NewOK
  <2>5. NamesOK(t)'
    <3>1. \A r \in records' : r \in records /\ r.pointer # a
      BY <1>9
    <3>2. \A x \in DOMAIN client'[t] : x # a /\ x \in DOMAIN client[t]
      BY <1>4
    <3>3. Cardinality(Address) <= TableRoom =>
            \A x \in DOMAIN client'[t] : client'[t][x].title => \E r \in records' : r.pointer = x
      BY <1>0, <1>4, <1>9, <3>2 DEF ThreadOK, NamesOK
    <3>4. QED
      BY <1>0, <1>1, <1>4, <3>1, <3>3 DEF ThreadOK, NamesOK
  <2>6. QED
    BY <2>1, <2>2, <2>3, <2>4, <2>5 DEF ThreadOK
<1>13. ListsOK'
  <2>1. \A x \in Address : InCache(x) => x \notin mappings' /\ ~Holds(t, x)'
    BY <1>1, <1>7 DEF IInv, ListsOK
  <2>2. \A x \in Address : x \in mappings' =>
           kind'[x] = "mapped" /\ header'[x].span = Len(memory'[x]) + Header
    BY <1>1 DEF IInv, ListsOK
  <2>3. \A x \in Address : kind'[x] # "free" => Holds(t, x)' \/ (kind[x] # "free" /\ ~Holds(t, x))
    BY <1>1, <1>7
  <2>4. QED
    BY <1>1, <1>3, <1>4, <2>1, <2>2, <2>3, ListsKept DEF OthersStay
<1>14. CountOK'
  BY <1>1, CountKept
<1>15. RecordsOK'
  <2>1. records' \subseteq records
    BY <1>9
  <2>2. IsFiniteSet(records') /\ Cardinality(records') <= Cardinality(records)
    BY <2>1, FS_Subset DEF IInv, RecordsOK
  <2>3. Cardinality(records') <= TableRoom
    BY <2>1, <2>2, FS_CardinalityType, Numbers DEF IInv, RecordsOK
  <2>4. \A r \in records' : \E s \in Thread : r.pointer \in DOMAIN client'[s]
    <3>1. SUFFICES ASSUME NEW r \in records' PROVE \E s \in Thread : r.pointer \in DOMAIN client'[s]
      OBVIOUS
    <3>2. r \in records /\ r.pointer # a
      BY <1>9
    <3>3. PICK s \in Thread : r.pointer \in DOMAIN client[s]
      BY <3>2 DEF IInv, RecordsOK
    <3>4. r.pointer \in DOMAIN client'[s]
      BY <1>4, <3>2, <3>3
    <3>5. QED
      BY <3>4
  <2>5. QED
    BY <2>1, <2>2, <2>3, <2>4 DEF IInv, RecordsOK
<1>16. QED
  BY <1>3, <1>4, <1>7, <1>10, <1>11, <1>12, <1>13, <1>14, <1>15, Assemble DEF OthersStay

(* The start of free keeps the invariant.                                    *)
LEMMA FreeTakeKeeps ==
  ASSUME IInv, NEW t \in Thread, NEW a \in Address, FreeTake(t, a)
  PROVE  IInv'
<1> DEFINE c == [Idle EXCEPT !.pc = "release", !.op = "free", !.ptr = a]
<1>1. /\ At(t, "idle") /\ a \in DOMAIN client[t] /\ Take(a) /\ UNCHANGED <<system, spans>>
      /\ client' = [client EXCEPT ![t] = Without(@, a)]
      /\ th' = [th EXCEPT ![t] = c]
  BY DEF FreeTake
<1>2. c \in CallState
  <2>1. "release" \in PC /\ "free" \in Op /\ a \in AnyAddress
    BY DEF PC, Op, AnyAddress
  <2>2. QED
    BY <2>1, IdleIsCall DEF CallState
<1>3. c.ptr = a /\ c.new = NoAddress /\ c.pc = "release" /\ c.op = "free" /\ a # NoAddress
  BY AllocatorAssumption DEF Idle, AllocatorAssumption
<1> HIDE DEF c
<1>4. th'[t] = c
  BY <1>1, <1>2, BeginCall DEF IInv
<1>5. CallShape(t)' /\ ~Keeping(t)'
  BY <1>3, <1>4 DEF CallShape, Keeping
<1>6. KeptOK(t)' /\ OldOK(t)'
  BY <1>5 DEF KeptOK, OldOK
<1>7. QED
  BY <1>1, <1>2, <1>3, <1>5, <1>6, TakeKeeps

(* The start of realloc keeps the invariant.                                 *)
LEMMA ReallocTakeKeeps ==
  ASSUME IInv, NEW t \in Thread, NEW a \in Address \union {NoAddress}, NEW size \in Sizes,
         ReallocTake(t, a, size)
  PROVE  IInv'
<1> DEFINE kept == IF a = NoAddress THEN Idle.kept ELSE client[t][a]
           c == [Idle EXCEPT !.pc = "resize", !.op = "realloc", !.ptr = a, !.size = size,
                             !.old = RecordOf(a), !.kept = kept]
<1>0. Types /\ ThreadOK(t)
  BY DEF IInv
<1>1. /\ At(t, "idle") /\ a \in DOMAIN client[t] \union {NoAddress} /\ Take(a)
      /\ UNCHANGED <<system, spans>>
      /\ client' = [client EXCEPT ![t] = Without(@, a)]
      /\ th' = [th EXCEPT ![t] = c]
  BY DEF ReallocTake, Idle
<1>2. RecordOf(a) = NoBlockRecord \/ (RecordOf(a) \in records /\ RecordOf(a).pointer = a)
  BY DEF RecordOf
<1>3. kept \in Block /\ RecordOf(a) \in OldRecord
  <2>1. a # NoAddress => client[t][a] \in Block
    BY <1>0, <1>1, HeldTypes
  <2>2. Idle.kept \in Block
    BY IdleIsCall DEF CallState
  <2>3. records \subseteq BlockRecord
    BY DEF IInv, RecordsOK
  <2>4. QED
    BY <1>2, <2>1, <2>2, <2>3 DEF OldRecord
<1> HIDE DEF kept
<1>4. c \in CallState
  <2>1. "resize" \in PC /\ "realloc" \in Op /\ a \in AnyAddress /\ size \in 0 .. SizeMax
    BY AllocatorAssumption DEF PC, Op, AnyAddress, AllocatorAssumption
  <2>2. QED
    BY <1>3, <2>1, IdleIsCall DEF CallState
<1>5. /\ c.ptr = a /\ c.new = NoAddress /\ c.pc = "resize" /\ c.op = "realloc"
      /\ c.size = size /\ c.old = RecordOf(a) /\ c.kept = kept
  BY DEF Idle
<1> HIDE DEF c
<1>6. th'[t] = c
  BY <1>0, <1>1, <1>4, BeginCall
<1>7. CASE a = NoAddress
  <2>1. \A r \in records : r.pointer # a
    <3>1. \A r \in BlockRecord : r.pointer # NoAddress
      BY AllocatorAssumption DEF BlockRecord, AllocatorAssumption
    <3>2. QED
      BY <1>7, <3>1 DEF IInv, RecordsOK
  <2>2. records' = records
    BY <1>1, <2>1 DEF Take
  <2>3. Without(client[t], a) = client[t]
    <3>1. client[t] \in Held
      BY <1>0, HeldTypes
    <3>2. PICK S \in SUBSET Address : client[t] \in [S -> Block]
      BY <3>1 DEF Held
    <3>3. S \ {a} = S
      BY <1>7, AllocatorAssumption DEF AllocatorAssumption
    <3>4. QED
      BY <3>2, <3>3 DEF Without
  <2>4. client' = client
    BY <1>0, <1>1, <2>3 DEF Types
  <2>5. RecordOf(a) = NoBlockRecord /\ kept.data = <<>>
    BY <1>7, <2>1 DEF RecordOf, kept, Idle
  <2>6. CallShape(t)'
    BY <1>5, <1>6, <1>7, <2>5 DEF CallShape
  <2>7. QED
    BY <1>1, <1>4, <1>5, <1>7, <2>2, <2>4, <2>6, BeginKeeps
<1>8. CASE a # NoAddress
  <2>1. a \in DOMAIN client[t] /\ kept = client[t][a]
    BY <1>1, <1>8 DEF kept
  <2>2. CallShape(t)'
    BY <1>5, <1>6, <1>8 DEF CallShape
  <2>3. UNCHANGED <<kind, memory, header, mappings, cached, cachedBytes>>
    BY <1>1 DEF system, spans
  <2>4. KeptOK(t)'
    BY <1>0, <1>5, <1>6, <2>1, <2>3 DEF ThreadOK, BlocksOK, KeptOK, Agrees
  <2>5. OldOK(t)'
    <3>1. RecordOf(a) \in records /\ RecordOf(a).pointer = a =>
            /\ RecordOf(a) \in BlockRecord /\ kept.title /\ RecordOf(a).bytes = Len(kept.data)
            /\ RecordOf(a).route = kind[a]
      BY <1>0, <2>1 DEF IInv, RecordsOK, ThreadOK, NamesOK
    <3>2. Cardinality(Address) <= TableRoom /\ kept.title => RecordOf(a).pointer = a
      <4>1. SUFFICES ASSUME \E r \in records : r.pointer = a PROVE RecordOf(a).pointer = a
        BY <1>0, <2>1 DEF ThreadOK, NamesOK
      <4>2. QED
        BY <4>1 DEF RecordOf
    <3>3. QED
      BY <1>2, <1>5, <1>6, <2>3, <3>1, <3>2 DEF OldOK
  <2>6. QED
    BY <1>1, <1>4, <1>5, <2>1, <2>2, <2>4, <2>5, TakeKeeps
<1>9. QED
  BY <1>7, <1>8

-----------------------------------------------------------------------------
(* Calls that get a block from the system.                                   *)
LEMMA NewBlockIs ==
  ASSUME Types, NEW a \in Address, NEW k \in {"native", "mapped"}, NEW n \in Nat, NEW b \in Byte,
         NewBlock(a, k, n, b)
  PROVE  /\ kind' \in [Address -> {"free", "native", "mapped"}] /\ memory' \in [Address -> ByteStrings]
         /\ kind'[a] = k /\ memory'[a] = Fill(n, b)
         /\ \A x \in Address \ {a} : kind'[x] = kind[x] /\ memory'[x] = memory[x]
<1>1. Fill(n, b) \in ByteStrings
  BY FillIs
<1>2. QED
  BY <1>1 DEF Types, NewBlock

(* A new block of either heap keeps the invariant.                           *)
LEMMA GetBlockKeeps ==
  ASSUME IInv, NEW t \in Thread, NEW a \in Fresh, NEW k \in {"native", "mapped"}, NEW n \in Nat,
         NEW b \in Byte, NEW p \in {"copy", "add", "insert"},
         NewBlock(a, k, n, b), UNCHANGED <<spans, records, client>>,
         th' = [th EXCEPT ![t].pc = p, ![t].new = a],
         th[t].pc \in {"alloc", "map"},
         k = "mapped" <=> p = "insert",
         p = "add" => th[t].op # "realloc" /\ th[t].size < Threshold,
         CallShape(t)', NewOK(t)'
  PROVE  IInv'
<1>0. Types /\ ThreadOK(t) /\ p \in PC /\ a \in AnyAddress
  BY DEF IInv, PC, AnyAddress, Fresh
<1>1. /\ a \in Address /\ kind[a] = "free" /\ a \notin mappings /\ ~InCache(a)
      /\ \A s \in Thread : ~Holds(s, a)
      /\ a \notin DOMAIN client[t] /\ \A r \in records : r.pointer # a
  BY FreshIs
<1>2. UNCHANGED <<header, mappings, cached, cachedBytes, records, client>>
  BY DEF spans
<1>3. /\ th' \in [Thread -> CallState] /\ OthersStay(t)
      /\ th'[t].pc = p /\ th'[t].new = a
      /\ th'[t].op = th[t].op /\ th'[t].ptr = th[t].ptr /\ th'[t].size = th[t].size
      /\ th'[t].old = th[t].old /\ th'[t].copy = th[t].copy /\ th'[t].kept = th[t].kept
  BY <1>0, MoveOn DEF Moved
<1>4. /\ kind' \in [Address -> {"free", "native", "mapped"}] /\ memory' \in [Address -> ByteStrings]
      /\ kind'[a] = k
      /\ \A x \in Address \ {a} : kind'[x] = kind[x] /\ memory'[x] = memory[x]
  BY <1>0, <1>1, NewBlockIs
<1>5. Types'
  BY <1>0, <1>2, <1>3, <1>4 DEF Types
<1>6. a # NoAddress /\ th[t].new = NoAddress /\ ~HasNew(t) /\ HasNew(t)' /\ (HasPtr(t)' => HasPtr(t))
  BY <1>0, <1>1, <1>3, AllocatorAssumption DEF ThreadOK, CallShape, HasNew, HasPtr, AllocatorAssumption
<1>7. HasPtr(t)' <=> HasPtr(t)
  <2>1. p = "add" => th[t].ptr = NoAddress
    BY <1>0 DEF ThreadOK, CallShape
  <2>2. QED
    BY <1>3, <1>6, <2>1 DEF HasPtr
<1>8. \A x \in Address : Holds(t, x)' <=> Holds(t, x) \/ x = a
  BY <1>2, <1>3, <1>6, <1>7 DEF Holds
<1>9. \A x \in Address : Holds(t, x) => x # a /\ ~Moving(t, x)
  BY <1>1 DEF Moving, At
<1>10. \A x \in Address : Moving(t, x)' <=> p = "insert" /\ x = a
  BY <1>3 DEF Moving, At
<1>11. \A x \in Address : Same(x) \/ \A s \in Thread : ~Holds(s, x)
  <2>1. SUFFICES ASSUME NEW x \in Address, x # a PROVE Same(x)
    BY <1>1
  <2>2. QED
    BY <1>2, <1>4, <2>1 DEF Same
<1>12. ThreadOK(t)'
  <2>1. Apart(t)'
    <3>1. HasPtr(t)' => th[t].ptr \in Address /\ Holds(t, th[t].ptr)
      BY <1>0, <1>7, CallTypes DEF HasPtr, Holds, AnyAddress
    <3>2. QED
      BY <1>0, <1>1, <1>2, <1>3, <1>7, <1>9, <3>1 DEF ThreadOK, Apart
  <2>2. KindOK(t)'
    <3>1. \A x \in Address : Holds(t, x)' => kind'[x] # "free"
                               /\ (x \in mappings' <=> kind'[x] = "mapped" /\ ~Moving(t, x)')
      <4>1. SUFFICES ASSUME NEW x \in Address, Holds(t, x)'
                     PROVE  /\ kind'[x] # "free"
                            /\ x \in mappings' <=> kind'[x] = "mapped" /\ ~Moving(t, x)'
        OBVIOUS
      <4>2. CASE x = a
        BY <1>1, <1>2, <1>4, <1>10, <4>2
      <4>3. CASE x # a
        BY <1>0, <1>2, <1>4, <1>8, <1>9, <1>10, <4>1, <4>3 DEF ThreadOK, KindOK
      <4>4. QED
        BY <4>2, <4>3
    <3>2. At(t, "insert")' => kind'[th'[t].new] = "mapped"
      BY <1>3, <1>4 DEF At
    <3>3. ~At(t, "libcRealloc")'
      BY <1>3 DEF At
    <3>4. At(t, "add")' => (kind'[th'[t].new] = "native" <=> th'[t].size < Threshold)
      BY <1>3, <1>4 DEF At
    <3>5. QED
      BY <3>1, <3>2, <3>3, <3>4 DEF KindOK
  <2>3. BlocksOK(t)'
    <3>1. \A x \in DOMAIN client[t] : x \in Address /\ x # a
      BY <1>0, <1>1, HeldTypes
    <3>2. QED
      BY <1>0, <1>2, <1>4, <3>1 DEF ThreadOK, BlocksOK, Agrees
  <2>4. Keeping(t)' => Keeping(t) /\ th[t].ptr \in Address /\ th[t].ptr # a
    <3>1. SUFFICES ASSUME Keeping(t)' PROVE Keeping(t) /\ th[t].ptr \in Address /\ th[t].ptr # a
      OBVIOUS
    <3>2. Keeping(t)
      BY <1>3, <3>1 DEF Keeping
    <3>3. th[t].ptr \in Address /\ Holds(t, th[t].ptr)
      BY <1>0, <3>2, CallTypes DEF Keeping, HasPtr, Holds, AnyAddress
    <3>4. QED
      BY <1>9, <3>2, <3>3
  <2>5. KeptOK(t)'
    BY <1>0, <1>2, <1>3, <1>4, <2>4 DEF ThreadOK, KeptOK, Agrees
  <2>6. OldOK(t)'
    BY <1>0, <1>2, <1>3, <1>4, <2>4 DEF ThreadOK, OldOK
  <2>7. NamesOK(t)'
    BY <1>0, <1>1, <1>2, <1>4 DEF ThreadOK, NamesOK, IInv, RecordsOK, BlockRecord
  <2>8. QED
    BY <2>1, <2>2, <2>3, <2>5, <2>6, <2>7 DEF ThreadOK
<1>13. ListsOK'
  <2>1. \A x \in Address : InCache(x) => /\ kind'[x] = kind[x] /\ memory'[x] = memory[x]
                                         /\ header'[x] = header[x] /\ x \notin mappings' /\ ~Holds(t, x)'
    BY <1>1, <1>2, <1>4, <1>8 DEF IInv, ListsOK
  <2>2. \A x \in Address : x \in mappings' =>
           kind'[x] = "mapped" /\ header'[x].span = Len(memory'[x]) + Header
    BY <1>1, <1>2, <1>4 DEF IInv, ListsOK
  <2>3. \A x \in Address : kind'[x] # "free" => Holds(t, x)' \/ (kind[x] # "free" /\ ~Holds(t, x))
    BY <1>4, <1>8
  <2>4. QED
    BY <1>2, <1>3, <2>1, <2>2, <2>3, ListsKept DEF OthersStay
<1>14. CountOK'
  BY <1>2, CountKept
<1>15. RecordsOK'
  BY <1>2, RecordsKept
<1>16. \A x \in Address : Holds(t, x)' => Holds(t, x) \/ \A s \in Thread : ~Holds(s, x)
  BY <1>1, <1>8
<1>17. QED
  BY <1>2, <1>3, <1>5, <1>11, <1>12, <1>13, <1>14, <1>15, <1>16, Assemble DEF OthersStay

(* In particular one of the C library,                                       *)
LEMMA LibcAllocKeeps ==
  ASSUME IInv, NEW t \in Thread, LibcAlloc(t)
  PROVE  IInv'
<1> DEFINE o == th[t]
           n == IF o.size = 0 THEN 1 ELSE o.size
           b == IF o.op = "calloc" THEN 0 ELSE Junk
           p == AfterAlloc(t)
<1>0. Types /\ ThreadOK(t)
  BY DEF IInv
<1>1. PICK a \in Fresh : NewBlock(a, "native", n, b) /\ th' = [th EXCEPT ![t].pc = p, ![t].new = a]
  BY DEF LibcAlloc
<1>2. o.pc = "alloc" /\ o.size < Threshold /\ UNCHANGED <<spans, records, client>>
  BY DEF LibcAlloc, At
<1>3. n \in Nat /\ b \in Byte /\ o.size \in Nat /\ o.size <= n
  BY <1>0, CallTypes DEF Byte
<1>4. p = IF o.op = "realloc" THEN "copy" ELSE "add"
  BY DEF AfterAlloc
<1> HIDE DEF n, p
<1>5. p \in {"copy", "add", "insert"} /\ p # "insert"
  BY <1>4
<1>6. p \in PC /\ a \in AnyAddress /\ a \in Address /\ a # NoAddress
  BY <1>4, AllocatorAssumption DEF PC, AnyAddress, Fresh, AllocatorAssumption
<1>7. /\ th' \in [Thread -> CallState]
      /\ th'[t].pc = p /\ th'[t].new = a
      /\ th'[t].op = o.op /\ th'[t].ptr = o.ptr /\ th'[t].size = o.size
      /\ th'[t].old = o.old /\ th'[t].copy = o.copy /\ th'[t].kept = o.kept
  <2>1. p \in PC /\ a \in AnyAddress /\ th' = [th EXCEPT ![t].pc = p, ![t].new = a]
    BY <1>1, <1>6
  <2>2. Moved(t, p, a)
    BY <1>0, <2>1, MoveOn, Zenon
  <2>3. QED
    BY <2>2 DEF Moved
<1>8. CallShape(t)'
  BY <1>0, <1>2, <1>4, <1>6, <1>7 DEF ThreadOK, CallShape
<1>9. NewOK(t)'
  <2>1. memory'[a] = Fill(n, b)
    BY <1>0, <1>1, <1>3, <1>6, NewBlockIs
  <2>2. Len(memory'[a]) = n /\ \A i \in 1 .. n : memory'[a][i] = b
    BY <1>3, <2>1, FillIs
  <2>3. a \notin mappings'
    BY <1>2, FreshIs DEF spans
  <2>4. CASE o.op = "realloc"
    BY <1>3, <1>4, <1>7, <2>2, <2>3, <2>4 DEF NewOK
  <2>5. CASE o.op = "calloc"
    <3>1. th'[t] \in CallState
      BY <1>7
    <3>2. Len(Promised(th'[t])) = o.size /\ \A i \in 1 .. o.size : Promised(th'[t])[i] = 0
      BY <1>7, <2>5, <3>1, PromisedZeroes
    <3>3. Agrees(Promised(th'[t]), memory'[a])
      BY <1>3, <2>2, <2>5, <3>2 DEF Agrees
    <3>4. QED
      BY <1>3, <1>4, <1>7, <2>2, <2>3, <2>5, <3>3 DEF NewOK
  <2>6. CASE o.op = "malloc"
    <3>1. th'[t] \in CallState
      BY <1>7
    <3>2. o.kept.data = <<>>
      BY <1>0, <2>6 DEF ThreadOK, CallShape
    <3>3. Len(Promised(th'[t])) = 0
      BY <1>3, <1>7, <2>6, <3>1, <3>2, PromisedIs DEF Least
    <3>4. Agrees(Promised(th'[t]), memory'[a])
      BY <1>3, <2>2, <3>3 DEF Agrees
    <3>5. QED
      BY <1>3, <1>4, <1>7, <2>2, <2>3, <2>6, <3>4 DEF NewOK
  <2>7. QED
    BY <1>0, <1>2, <2>4, <2>5, <2>6 DEF ThreadOK, CallShape
<1>10. p = "add" => o.op # "realloc" /\ o.size < Threshold
  BY <1>2, <1>4
<1> HIDE DEF b
<1>11. QED
  BY <1>1, <1>2, <1>3, <1>5, <1>8, <1>9, <1>10, GetBlockKeeps

(* and a mapping.                                                            *)
LEMMA MapKeeps ==
  ASSUME IInv, NEW t \in Thread, Map(t)
  PROVE  IInv'
<1> DEFINE o == th[t]
           n == Span(o.size) - Header
<1>0. Types /\ ThreadOK(t)
  BY DEF IInv
<1>1. PICK a \in Fresh : NewBlock(a, "mapped", n, 0) /\ th' = [th EXCEPT ![t].pc = "insert", ![t].new = a]
  BY DEF Map
<1>2. o.pc = "map" /\ UNCHANGED <<spans, records, client>>
  BY DEF Map, At
<1>3. o.size \in 0 .. SizeMax /\ o.size >= Threshold /\ ~TooLarge(o.size)
  BY <1>0, <1>2, CallTypes DEF ThreadOK, CallShape
<1>4. Span(o.size) \in 0 .. SizeMax /\ Span(o.size) >= Header + o.size
  BY <1>3, SpanFits
<1>5. n \in Nat /\ n + Header = Span(o.size) /\ 0 \in Byte
  BY <1>3, <1>4, Numbers DEF Byte
<1> HIDE DEF n
<1>6. "insert" \in PC /\ a \in AnyAddress /\ a \in Address /\ a # NoAddress
  BY AllocatorAssumption DEF PC, AnyAddress, Fresh, AllocatorAssumption
<1>7. /\ th' \in [Thread -> CallState]
      /\ th'[t].pc = "insert" /\ th'[t].new = a
      /\ th'[t].op = o.op /\ th'[t].ptr = o.ptr /\ th'[t].size = o.size
      /\ th'[t].old = o.old /\ th'[t].copy = o.copy /\ th'[t].kept = o.kept
  <2>1. "insert" \in PC /\ a \in AnyAddress /\ th' = [th EXCEPT ![t].pc = "insert", ![t].new = a]
    BY <1>1, <1>6
  <2>2. Moved(t, "insert", a)
    BY <1>0, <2>1, MoveOn, Zenon
  <2>3. QED
    BY <2>2 DEF Moved
<1>8. CallShape(t)'
  BY <1>0, <1>2, <1>3, <1>6, <1>7 DEF ThreadOK, CallShape
<1>9. NewOK(t)'
  <2>1. memory'[a] = Fill(n, 0)
    BY <1>0, <1>1, <1>5, <1>6, NewBlockIs
  <2>2. Len(memory'[a]) = n
    BY <1>5, <2>1, FillIs
  <2>3. QED
    BY <1>5, <1>7, <2>2 DEF NewOK
<1>10. QED
  BY <1>1, <1>2, <1>5, <1>8, <1>9, GetBlockKeeps

(* A resize inside the C library keeps the invariant.                        *)
LEMMA LibcReallocKeeps ==
  ASSUME IInv, NEW t \in Thread, LibcRealloc(t)
  PROVE  IInv'
<1> DEFINE o == th[t]
           q == o.ptr
           moved == [i \in 1 .. o.size |-> IF i \in DOMAIN memory[q] THEN memory[q][i] ELSE Junk]
<1>0. Types /\ ThreadOK(t)
  BY DEF IInv
<1>1. PICK b \in Fresh \union {q} :
        /\ kind' = [kind EXCEPT ![q] = "free", ![b] = "native"]
        /\ memory' = [memory EXCEPT ![q] = <<>>, ![b] = moved]
        /\ th' = [th EXCEPT ![t].pc = "add", ![t].new = b]
  BY DEF LibcRealloc
<1>2. o.pc = "libcRealloc" /\ UNCHANGED <<header, mappings, cached, cachedBytes, records, client>>
  BY DEF LibcRealloc, At, spans
<1>3. o.op = "realloc" /\ q # NoAddress /\ o.new = NoAddress /\ o.size # 0
  BY <1>0, <1>2 DEF ThreadOK, CallShape
<1>4. HasPtr(t) /\ Holds(t, q) /\ ~HasNew(t) /\ Keeping(t)
  BY <1>2, <1>3 DEF HasPtr, Holds, HasNew, Keeping
<1>5. q \in Address /\ kind[q] = "native" /\ q \notin mappings /\ ~InCache(q) /\ q \notin DOMAIN client[t]
  <2>1. q \in Address
    BY <1>0, <1>3, CallTypes DEF AnyAddress
  <2>2. kind[q] = "native"
    BY <1>0, <1>2 DEF ThreadOK, KindOK, At
  <2>3. q \notin mappings /\ ~InCache(q)
    BY <2>1, <2>2 DEF IInv, ListsOK
  <2>4. QED
    BY <1>0, <1>4, <2>1, <2>2, <2>3 DEF ThreadOK, Apart
<1>6. /\ b \in Address /\ b # NoAddress /\ b \notin mappings /\ ~InCache(b) /\ b \notin DOMAIN client[t]
      /\ b = q \/ \A s \in Thread : ~Holds(s, b)
  BY <1>1, <1>5, FreshIs, AllocatorAssumption DEF AllocatorAssumption
<1>7. o.size \in Nat /\ moved \in ByteStrings /\ Len(moved) = o.size
  <2>1. memory[q] \in ByteStrings /\ DOMAIN memory[q] = 1 .. Len(memory[q])
    BY <1>0, <1>5, MemoryTypes
  <2>2. \A i \in DOMAIN memory[q] : memory[q][i] \in Byte
    BY <2>1 DEF ByteStrings
  <2>3. Junk \in Byte /\ o.size \in Nat
    BY <1>0, CallTypes DEF Byte
  <2>4. QED
    BY <2>2, <2>3 DEF ByteStrings
<1>8. \A i \in 1 .. o.size : i <= Len(memory[q]) => moved[i] = memory[q][i]
  BY <1>0, <1>5, <1>7, MemoryTypes
<1> HIDE DEF moved
<1>9. /\ kind' \in [Address -> {"free", "native", "mapped"}] /\ memory' \in [Address -> ByteStrings]
      /\ kind'[b] = "native" /\ memory'[b] = moved
      /\ \A x \in Address \ {q, b} : kind'[x] = kind[x] /\ memory'[x] = memory[x]
      /\ q # b => kind'[q] = "free"
  <2>1. <<>> \in ByteStrings
    BY EmptySeq DEF ByteStrings
  <2>2. QED
    BY <1>0, <1>1, <1>5, <1>6, <1>7, <2>1 DEF Types
<1>10. Moved(t, "add", b)
  <2>1. "add" \in PC /\ b \in AnyAddress /\ th' = [th EXCEPT ![t].pc = "add", ![t].new = b]
    BY <1>1, <1>6 DEF PC, AnyAddress
  <2>2. QED
    BY <1>0, <2>1, MoveOn, Zenon
<1>11. /\ th' \in [Thread -> CallState] /\ OthersStay(t) /\ th'[t].pc = "add" /\ th'[t].new = b
       /\ th'[t].op = o.op /\ th'[t].ptr = o.ptr /\ th'[t].size = o.size /\ th'[t].kept = o.kept
  BY <1>10 DEF Moved
<1>12. Types'
  BY <1>0, <1>2, <1>9, <1>11 DEF Types
<1>13. ~HasPtr(t)' /\ HasNew(t)'
  BY <1>6, <1>11 DEF HasPtr, HasNew
<1>14. \A x \in Address : Holds(t, x)' <=> x \in DOMAIN client[t] \/ x = b
  BY <1>2, <1>11, <1>13 DEF Holds
<1>15. \A x \in Address : ~Moving(t, x)' /\ ~Moving(t, x)
  BY <1>2, <1>11 DEF Moving, At
<1>16. \A x \in Address : Same(x) \/ Holds(t, x) \/ \A s \in Thread : ~Holds(s, x)
  <2>1. SUFFICES ASSUME NEW x \in Address, x # q, x # b PROVE Same(x)
    BY <1>4, <1>6
  <2>2. QED
    BY <1>2, <1>9, <2>1 DEF Same
<1>17. ThreadOK(t)'
  <2>1. CallShape(t)'
    <3>1. th'[t].old = o.old
      BY <1>10 DEF Moved
    <3>2. QED
      BY <1>0, <1>3, <1>6, <1>11, <3>1 DEF ThreadOK, CallShape
  <2>2. Apart(t)'
    BY <1>2, <1>6, <1>11, <1>13 DEF Apart
  <2>3. \A x \in DOMAIN client[t] : x \in Address /\ x # q /\ x # b /\ Holds(t, x)
    BY <1>0, <1>5, <1>6, HeldTypes DEF Holds
  <2>4. KindOK(t)'
    <3>1. \A x \in Address : Holds(t, x)' => kind'[x] # "free"
                               /\ (x \in mappings' <=> kind'[x] = "mapped" /\ ~Moving(t, x)')
      <4>1. SUFFICES ASSUME NEW x \in Address, Holds(t, x)'
                     PROVE  /\ kind'[x] # "free"
                            /\ x \in mappings' <=> kind'[x] = "mapped" /\ ~Moving(t, x)'
        OBVIOUS
      <4>2. CASE x = b
        BY <1>2, <1>6, <1>9, <4>2
      <4>3. CASE x # b
        <5>1. x \in DOMAIN client[t]
          BY <1>14, <4>1, <4>3
        <5>2. QED
          BY <1>0, <1>2, <1>9, <1>15, <2>3, <5>1 DEF ThreadOK, KindOK
      <4>4. QED
        BY <4>2, <4>3
    <3>2. ~At(t, "insert")' /\ ~At(t, "libcRealloc")'
      BY <1>11 DEF At
    <3>3. th'[t].op = "realloc"
      BY <1>3, <1>11
    <3>4. QED
      BY <3>1, <3>2, <3>3 DEF KindOK
  <2>5. BlocksOK(t)'
    BY <1>0, <1>2, <1>9, <2>3 DEF ThreadOK, BlocksOK, Agrees
  <2>6. KeptOK(t)' /\ OldOK(t)'
    BY <1>11 DEF KeptOK, OldOK, Keeping
  <2>7. NewOK(t)'
    <3>1. Len(memory'[b]) >= o.size /\ b \notin mappings'
      BY <1>2, <1>6, <1>7, <1>9
    <3>2. Agrees(Promised(th'[t]), memory'[b])
      <4>1. Agrees(o.kept.data, memory[q])
        BY <1>0, <1>4 DEF ThreadOK, KeptOK
      <4>2. th'[t] \in CallState /\ th'[t].op # "calloc"
        BY <1>3, <1>11
      <4>3. /\ Len(Promised(th'[t])) = Least(Len(o.kept.data), o.size)
            /\ \A i \in 1 .. Len(Promised(th'[t])) : Promised(th'[t])[i] = o.kept.data[i]
        BY <1>11, <4>2, PromisedIs
      <4>4. Len(o.kept.data) \in Nat /\ Len(memory[q]) \in Nat
        BY <1>0, <1>5, CallTypes, MemoryTypes
      <4>5. /\ Least(Len(o.kept.data), o.size) \in Nat
            /\ Least(Len(o.kept.data), o.size) <= Len(o.kept.data)
            /\ Least(Len(o.kept.data), o.size) <= o.size
        BY <1>7, <4>4, LeastIs
      <4>6. /\ Len(Promised(th'[t])) <= Len(memory'[b])
            /\ \A i \in 1 .. Len(Promised(th'[t])) : memory'[b][i] = memory[q][i]
        BY <1>7, <1>8, <1>9, <4>1, <4>3, <4>4, <4>5, SMTT(30) DEF Agrees
      <4>7. \A i \in 1 .. Len(Promised(th'[t])) : o.kept.data[i] = memory[q][i]
        <5>1. \A i \in 1 .. Len(Promised(th'[t])) : i \in 1 .. Len(o.kept.data)
          BY <4>3, <4>4, <4>5
        <5>2. QED
          BY <4>1, <5>1 DEF Agrees
      <4>8. QED
        BY <4>3, <4>6, <4>7 DEF Agrees
    <3>3. QED
      BY <1>11, <3>1, <3>2 DEF NewOK
  <2>8. NamesOK(t)'
    BY <1>0, <1>2, <1>9, <2>3 DEF ThreadOK, NamesOK
  <2>9. QED
    BY <2>1, <2>2, <2>4, <2>5, <2>6, <2>7, <2>8 DEF ThreadOK
<1>18. ListsOK'
  <2>1. \A x \in Address : InCache(x) => /\ kind'[x] = kind[x] /\ memory'[x] = memory[x]
                                         /\ header'[x] = header[x] /\ x \notin mappings' /\ ~Holds(t, x)'
    <3>1. SUFFICES ASSUME NEW x \in Address, InCache(x)
                   PROVE  /\ kind'[x] = kind[x] /\ memory'[x] = memory[x]
                          /\ header'[x] = header[x] /\ x \notin mappings' /\ ~Holds(t, x)'
      OBVIOUS
    <3>2. x # q /\ x # b
      BY <1>5, <1>6, <3>1
    <3>3. ~Holds(t, x) /\ x \notin mappings
      BY <3>1 DEF IInv, ListsOK
    <3>4. QED
      BY <1>2, <1>9, <1>14, <3>2, <3>3 DEF Holds
  <2>2. \A x \in Address : x \in mappings' =>
           kind'[x] = "mapped" /\ header'[x].span = Len(memory'[x]) + Header
    BY <1>2, <1>5, <1>6, <1>9 DEF IInv, ListsOK
  <2>3. \A x \in Address : kind'[x] # "free" => Holds(t, x)' \/ (kind[x] # "free" /\ ~Holds(t, x))
    <3>1. SUFFICES ASSUME NEW x \in Address, kind'[x] # "free", x # b, x \notin DOMAIN client[t]
                   PROVE  kind[x] # "free" /\ ~Holds(t, x)
      BY <1>14
    <3>2. x # q
      BY <1>9, <3>1
    <3>3. QED
      BY <1>4, <1>9, <3>1, <3>2 DEF Holds
  <2>4. QED
    BY <1>2, <1>11, <2>1, <2>2, <2>3, ListsKept DEF OthersStay
<1>19. CountOK'
  BY <1>2, CountKept
<1>20. RecordsOK'
  BY <1>2, RecordsKept
<1>21. \A x \in Address : Holds(t, x)' => Holds(t, x) \/ \A s \in Thread : ~Holds(s, x)
  BY <1>4, <1>6, <1>14 DEF Holds
<1>22. QED
  BY <1>2, <1>11, <1>12, <1>16, <1>17, <1>18, <1>19, <1>20, <1>21, Assemble DEF OthersStay

-----------------------------------------------------------------------------
(* Calls that fill the new block and put it in the list.                     *)
LEMMA CopyKeeps ==
  ASSUME IInv, NEW t \in Thread, Copy(t)
  PROVE  IInv'
<1> DEFINE o == th[t]
           q == o.ptr
           b == o.new
           p == IF q = NoAddress THEN "add" ELSE "release"
<1>0. Types /\ ThreadOK(t)
  BY DEF IInv
<1>1. /\ o.pc = "copy" /\ Goto(t, p)
      /\ UNCHANGED <<kind, header, mappings, cached, cachedBytes, records, client>>
  BY DEF Copy, At, spans
<1>2. o.op = "realloc" /\ b # NoAddress /\ (q # NoAddress => o.size # 0)
  BY <1>0, <1>1 DEF ThreadOK, CallShape
<1>3. b \in Address /\ HasNew(t) /\ Holds(t, b) /\ b \notin DOMAIN client[t]
  BY <1>0, <1>2, CallTypes DEF AnyAddress, HasNew, Holds, ThreadOK, Apart
<1>4. q # NoAddress => HasPtr(t) /\ Keeping(t) /\ q \in Address /\ q # b
  BY <1>0, <1>1, <1>2, <1>3, CallTypes DEF HasPtr, Keeping, AnyAddress, ThreadOK, Apart
<1>5. Len(memory[b]) >= o.size /\ memory[b] \in ByteStrings /\ Len(memory[b]) \in Nat /\ o.size \in Nat
  BY <1>0, <1>1, <1>3, CallTypes, MemoryTypes DEF ThreadOK, NewOK
<1>6. o.copy \in Nat /\ CopyBytes(o) \in Nat /\ CopyBytes(o) <= o.copy /\ CopyBytes(o) <= o.size
  BY <1>0, <1>5, CallTypes, LeastIs DEF CopyBytes
<1>7. CASE q # NoAddress
  <2> DEFINE written == Overwrite(memory[b], CopyBytes(o), memory[q])
  <2>1. /\ Agrees(o.kept.data, memory[q]) /\ o.copy = Len(o.kept.data)
        /\ Len(o.kept.data) \in Nat /\ memory[q] \in ByteStrings /\ Len(memory[q]) \in Nat
    BY <1>0, <1>1, <1>4, <1>7, CallTypes, MemoryTypes DEF ThreadOK, KeptOK
  <2>2. CopyBytes(o) <= Len(memory[q])
    BY <1>6, <2>1 DEF Agrees
  <2>3. /\ written \in ByteStrings /\ Len(written) = Len(memory[b])
        /\ \A i \in 1 .. Len(memory[b]) : written[i] = IF i <= CopyBytes(o) THEN memory[q][i] ELSE memory[b][i]
    BY <1>5, <1>6, <2>1, <2>2, OverwriteIs
  <2>4. memory' = [memory EXCEPT ![b] = written]
    BY <1>7 DEF Copy
  <2> HIDE DEF written
  <2>5. memory' \in [Address -> ByteStrings] /\ memory'[b] = written /\ \A x \in Address \ {b} : memory'[x] = memory[x]
    BY <1>0, <1>3, <2>3, <2>4 DEF Types
  <2>6. "release" \in PC /\ Goto(t, "release")
    BY <1>1, <1>7 DEF PC
  <2>7. /\ th' \in [Thread -> CallState] /\ OthersStay(t) /\ th'[t].pc = "release" /\ th'[t].new = b
        /\ th'[t].op = o.op /\ th'[t].ptr = q /\ th'[t].size = o.size
        /\ th'[t].old = o.old /\ th'[t].copy = o.copy /\ th'[t].kept = o.kept
    BY <1>0, <2>6, GoOn
  <2>8. Types'
    BY <1>0, <1>1, <2>5, <2>7 DEF Types
  <2>9. HasPtr(t)' /\ HasNew(t)' /\ HasPtr(t)
    BY <1>2, <1>4, <1>7, <2>7 DEF HasPtr, HasNew
  <2>10. \A x \in Address : (Holds(t, x)' <=> Holds(t, x)) /\ ~Moving(t, x)' /\ ~Moving(t, x)
    BY <1>1, <1>3, <2>7, <2>9 DEF Holds, Moving, At
  <2>11. \A x \in Address : Same(x) \/ Holds(t, x)
    <3>1. SUFFICES ASSUME NEW x \in Address, x # b PROVE Same(x)
      BY <1>3
    <3>2. QED
      BY <1>1, <2>5, <3>1 DEF Same
  <2>12. ThreadOK(t)'
    <3>1. CallShape(t)'
      BY <1>0, <1>1, <1>2, <1>7, <2>7 DEF ThreadOK, CallShape
    <3>2. Apart(t)'
      BY <1>0, <1>1, <1>3, <2>7, <2>9 DEF ThreadOK, Apart
    <3>3. KindOK(t)'
      <4>1. \A x \in Address : Holds(t, x)' => kind'[x] # "free"
                                 /\ (x \in mappings' <=> kind'[x] = "mapped" /\ ~Moving(t, x)')
        BY <1>0, <1>1, <2>10 DEF ThreadOK, KindOK
      <4>2. ~At(t, "insert")' /\ ~At(t, "libcRealloc")' /\ ~At(t, "add")'
        BY <2>7 DEF At
      <4>3. QED
        BY <4>1, <4>2 DEF KindOK
    <3>4. BlocksOK(t)'
      <4>1. \A x \in DOMAIN client[t] : x \in Address /\ x # b
        BY <1>0, <1>3, HeldTypes
      <4>2. QED
        BY <1>0, <1>1, <2>5, <4>1 DEF ThreadOK, BlocksOK, Agrees
    <3>5. KeptOK(t)' /\ OldOK(t)'
      BY <2>7 DEF KeptOK, OldOK, Keeping
    <3>6. NewOK(t)'
      <4>1. Len(memory'[b]) >= o.size
        BY <1>5, <2>3, <2>5
      <4>2. b \in mappings' => header'[b].requested = o.size
        BY <1>0, <1>1 DEF ThreadOK, NewOK
      <4>3. Agrees(Promised(th'[t]), memory'[b])
        <5>1. th'[t] \in CallState /\ th'[t].op # "calloc"
          BY <1>2, <2>7
        <5>2. /\ Len(Promised(th'[t])) = CopyBytes(o)
              /\ \A i \in 1 .. Len(Promised(th'[t])) : Promised(th'[t])[i] = o.kept.data[i]
          BY <2>1, <2>7, <5>1, PromisedIs DEF CopyBytes
        <5>3. CopyBytes(o) <= Len(memory'[b])
          BY <1>5, <1>6, <2>3, <2>5
        <5>4. \A i \in 1 .. CopyBytes(o) : memory'[b][i] = memory[q][i]
          BY <1>5, <1>6, <2>3, <2>5
        <5>5. \A i \in 1 .. CopyBytes(o) : o.kept.data[i] = memory[q][i]
          BY <1>6, <2>1 DEF Agrees
        <5>6. QED
          BY <5>2, <5>3, <5>4, <5>5 DEF Agrees
      <4>4. QED
        BY <2>7, <4>1, <4>2, <4>3 DEF NewOK
    <3>7. NamesOK(t)'
      BY <1>0, <1>1 DEF ThreadOK, NamesOK
    <3>8. QED
      BY <3>1, <3>2, <3>3, <3>4, <3>5, <3>6, <3>7 DEF ThreadOK
  <2>13. ListsOK'
    <3>1. \A x \in Address : InCache(x) => /\ kind'[x] = kind[x] /\ memory'[x] = memory[x]
                                           /\ header'[x] = header[x] /\ x \notin mappings' /\ ~Holds(t, x)'
      <4>1. \A x \in Address : InCache(x) => ~Holds(t, x) /\ x \notin mappings
        BY DEF IInv, ListsOK
      <4>2. QED
        BY <1>1, <1>3, <2>5, <2>10, <4>1
    <3>2. \A x \in Address : x \in mappings' =>
             kind'[x] = "mapped" /\ header'[x].span = Len(memory'[x]) + Header
      BY <1>1, <2>3, <2>5 DEF IInv, ListsOK
    <3>3. \A x \in Address : kind'[x] # "free" => Holds(t, x)' \/ (kind[x] # "free" /\ ~Holds(t, x))
      BY <1>1, <2>10
    <3>4. QED
      BY <1>1, <2>7, <3>1, <3>2, <3>3, ListsKept DEF OthersStay
  <2>14. CountOK'
    BY <1>1, CountKept
  <2>15. RecordsOK'
    BY <1>1, RecordsKept
  <2>16. QED
    BY <1>1, <2>7, <2>8, <2>10, <2>11, <2>12, <2>13, <2>14, <2>15, Assemble DEF OthersStay
<1>8. CASE q = NoAddress
  <2>1. "add" \in PC /\ Goto(t, "add")
    BY <1>1, <1>8 DEF PC
  <2>2. /\ th' \in [Thread -> CallState] /\ OthersStay(t) /\ th'[t].pc = "add" /\ th'[t].new = b
        /\ th'[t].op = o.op /\ th'[t].ptr = q /\ th'[t].size = o.size
        /\ th'[t].old = o.old /\ th'[t].copy = o.copy /\ th'[t].kept = o.kept
    BY <1>0, <2>1, GoOn
  <2>3. UNCHANGED <<kind, memory, header, mappings, cached, cachedBytes, records, client>>
    BY <1>1, <1>8 DEF Copy
  <2>4. ~HasPtr(t) /\ ~HasPtr(t)' /\ HasNew(t) /\ HasNew(t)'
    BY <1>2, <1>8, <2>2 DEF HasPtr, HasNew
  <2>5. \A x \in Address : (Holds(t, x)' <=> Holds(t, x)) /\ ~Moving(t, x)' /\ ~Moving(t, x)
    BY <1>1, <2>2, <2>3, <2>4 DEF Holds, Moving, At
  <2>6. ThreadOK(t)'
    <3>1. CallShape(t)'
      BY <1>0, <1>1, <1>2, <1>8, <2>2 DEF ThreadOK, CallShape
    <3>2. Apart(t)'
      BY <1>0, <2>2, <2>3, <2>4 DEF ThreadOK, Apart
    <3>3. KindOK(t)'
      <4>1. \A x \in Address : Holds(t, x)' => kind'[x] # "free"
                                 /\ (x \in mappings' <=> kind'[x] = "mapped" /\ ~Moving(t, x)')
        BY <1>0, <2>3, <2>5 DEF ThreadOK, KindOK
      <4>2. ~At(t, "insert")' /\ ~At(t, "libcRealloc")' /\ th'[t].op = "realloc"
        BY <1>2, <2>2 DEF At
      <4>3. QED
        BY <4>1, <4>2 DEF KindOK
    <3>4. BlocksOK(t)'
      BY <1>0, <2>3 DEF ThreadOK, BlocksOK, Agrees
    <3>5. KeptOK(t)' /\ OldOK(t)'
      BY <2>2 DEF KeptOK, OldOK, Keeping
    <3>6. NewOK(t)'
      <4>1. o.kept.data = <<>>
        BY <1>0, <1>8 DEF ThreadOK, CallShape
      <4>2. th'[t] \in CallState /\ th'[t].op # "calloc"
        BY <1>2, <2>2
      <4>3. Len(Promised(th'[t])) = 0
        BY <1>5, <2>2, <4>1, <4>2, PromisedIs DEF Least
      <4>4. Agrees(Promised(th'[t]), memory'[b])
        BY <1>5, <2>3, <4>3 DEF Agrees
      <4>5. b \in mappings' => header'[b].requested = o.size
        BY <1>0, <1>1 DEF ThreadOK, NewOK
      <4>6. QED
        BY <1>5, <2>2, <2>3, <4>4, <4>5 DEF NewOK
    <3>7. NamesOK(t)'
      BY <1>0, <2>3 DEF ThreadOK, NamesOK
    <3>8. QED
      BY <3>1, <3>2, <3>3, <3>4, <3>5, <3>6, <3>7 DEF ThreadOK
  <2>7. QED
    BY <2>2, <2>3, <2>5, <2>6, QuietStep DEF system, spans
<1>9. QED
  BY <1>7, <1>8

(* Linking the new mapping in keeps the invariant.                           *)
LEMMA InsertKeeps ==
  ASSUME IInv, NEW t \in Thread, Insert(t)
  PROVE  IInv'
<1> DEFINE o == th[t]
           b == o.new
           p == AfterAlloc(t)
<1>0. Types /\ ThreadOK(t)
  BY DEF IInv
<1>1. /\ o.pc = "insert" /\ Goto(t, p)
      /\ UNCHANGED <<kind, cached, cachedBytes, records, client>>
      /\ memory' = [memory EXCEPT ![b] = Zeroed(o)]
      /\ header' = [header EXCEPT ![b] = [requested |-> o.size, span |-> Span(o.size)]]
      /\ mappings' = mappings \union {b}
  BY DEF Insert, At
<1>2. /\ b # NoAddress /\ o.op \in {"malloc", "calloc", "realloc"}
      /\ o.size >= Threshold /\ ~TooLarge(o.size)
      /\ o.ptr # NoAddress => o.size # 0 /\ o.op = "realloc"
  BY <1>0, <1>1 DEF ThreadOK, CallShape
<1>3. b \in Address /\ HasNew(t) /\ Holds(t, b) /\ b \notin DOMAIN client[t]
  BY <1>0, <1>2, CallTypes DEF AnyAddress, HasNew, Holds, ThreadOK, Apart
<1>4. kind[b] = "mapped" /\ b \notin mappings /\ Len(memory[b]) + Header = Span(o.size)
  <2>1. kind[b] = "mapped" /\ Moving(t, b)
    BY <1>0, <1>1 DEF ThreadOK, KindOK, At, Moving
  <2>2. b \notin mappings
    BY <1>0, <1>3, <2>1 DEF ThreadOK, KindOK
  <2>3. QED
    BY <1>0, <1>1, <2>1, <2>2 DEF ThreadOK, NewOK
<1>5. /\ o.size \in 0 .. SizeMax /\ o.size \in Nat
      /\ Span(o.size) \in 0 .. SizeMax /\ Span(o.size) >= Header + o.size
  BY <1>0, <1>2, CallTypes, SpanFits
<1>6. memory[b] \in ByteStrings /\ Len(memory[b]) \in Nat /\ Len(memory[b]) >= o.size
  BY <1>0, <1>3, <1>4, <1>5, MemoryTypes, Numbers
<1>7. /\ Zeroed(o) \in ByteStrings /\ Len(Zeroed(o)) = Len(memory[b])
      /\ o.op = "calloc" => \A i \in 1 .. o.size : Zeroed(o)[i] = 0
  <2>1. CASE o.op = "calloc"
    <3>1. 0 \in Byte
      BY DEF Byte
    <3>2. /\ Fill(o.size, 0) \in ByteStrings /\ Len(Fill(o.size, 0)) = o.size
          /\ \A i \in 1 .. o.size : Fill(o.size, 0)[i] = 0
      BY <1>5, <3>1, FillIs
    <3>3. Zeroed(o) = Overwrite(memory[b], o.size, Fill(o.size, 0))
      BY <2>1 DEF Zeroed
    <3>4. /\ Zeroed(o) \in ByteStrings /\ Len(Zeroed(o)) = Len(memory[b])
          /\ \A i \in 1 .. Len(memory[b]) :
               Zeroed(o)[i] = IF i <= o.size THEN Fill(o.size, 0)[i] ELSE memory[b][i]
      BY <1>5, <1>6, <3>2, <3>3, OverwriteIs
    <3>5. QED
      BY <1>5, <1>6, <3>2, <3>4
  <2>2. CASE o.op # "calloc"
    BY <1>6, <2>2 DEF Zeroed
  <2>3. QED
    BY <2>1, <2>2
<1>8. /\ memory' \in [Address -> ByteStrings] /\ memory'[b] = Zeroed(o)
      /\ \A x \in Address \ {b} : memory'[x] = memory[x] /\ header'[x] = header[x]
      /\ header' \in [Address -> SpanHeader]
      /\ header'[b].requested = o.size /\ header'[b].span = Span(o.size)
  <2>1. [requested |-> o.size, span |-> Span(o.size)] \in SpanHeader
    BY <1>5 DEF SpanHeader
  <2>2. QED
    BY <1>0, <1>1, <1>3, <1>7, <2>1 DEF Types
<1>9. p = (IF o.op = "realloc" THEN "copy" ELSE "add") /\ p \in PC
  BY DEF AfterAlloc, PC
<1> HIDE DEF p
<1>10. /\ th' \in [Thread -> CallState] /\ OthersStay(t) /\ th'[t].pc = p /\ th'[t].new = b
       /\ th'[t].op = o.op /\ th'[t].ptr = o.ptr /\ th'[t].size = o.size
       /\ th'[t].old = o.old /\ th'[t].copy = o.copy /\ th'[t].kept = o.kept
  BY <1>0, <1>1, <1>9, GoOn
<1>11. Types'
  BY <1>0, <1>1, <1>3, <1>8, <1>10 DEF Types
<1>12. (HasPtr(t)' <=> HasPtr(t)) /\ HasNew(t)'
  BY <1>1, <1>2, <1>9, <1>10 DEF HasPtr, HasNew
<1>13. \A x \in Address : (Holds(t, x)' <=> Holds(t, x)) /\ ~Moving(t, x)' /\ (Moving(t, x) <=> x = b)
  BY <1>1, <1>3, <1>9, <1>10, <1>12 DEF Holds, Moving, At
<1>14. \A x \in Address : Same(x) \/ Holds(t, x)
  <2>1. SUFFICES ASSUME NEW x \in Address, x # b PROVE Same(x)
    BY <1>3
  <2>2. QED
    BY <1>1, <1>8, <2>1 DEF Same
<1>15. ThreadOK(t)'
  <2>1. CallShape(t)'
    BY <1>0, <1>1, <1>2, <1>9, <1>10 DEF ThreadOK, CallShape
  <2>2. Apart(t)'
    BY <1>0, <1>1, <1>3, <1>10, <1>12 DEF ThreadOK, Apart
  <2>3. KindOK(t)'
    <3>1. \A x \in Address : Holds(t, x)' => kind'[x] # "free"
                               /\ (x \in mappings' <=> kind'[x] = "mapped" /\ ~Moving(t, x)')
      <4>1. SUFFICES ASSUME NEW x \in Address, Holds(t, x)
                     PROVE  /\ kind'[x] # "free"
                            /\ x \in mappings' <=> kind'[x] = "mapped"
        BY <1>13
      <4>2. CASE x = b
        BY <1>1, <1>4, <4>2
      <4>3. CASE x # b
        BY <1>0, <1>1, <1>13, <4>1, <4>3 DEF ThreadOK, KindOK
      <4>4. QED
        BY <4>2, <4>3
    <3>2. ~At(t, "insert")' /\ ~At(t, "libcRealloc")'
      BY <1>9, <1>10 DEF At
    <3>3. kind'[th'[t].new] # "native" /\ ~(th'[t].size < Threshold)
      BY <1>1, <1>2, <1>4, <1>5, <1>10, Numbers
    <3>4. QED
      BY <3>1, <3>2, <3>3 DEF KindOK
  <2>4. BlocksOK(t)'
    <3>1. \A x \in DOMAIN client[t] : x \in Address /\ x # b
      BY <1>0, <1>3, HeldTypes
    <3>2. QED
      BY <1>0, <1>1, <1>8, <3>1 DEF ThreadOK, BlocksOK, Agrees
  <2>5. Keeping(t)' => Keeping(t) /\ o.ptr \in Address /\ o.ptr # b
    <3>1. SUFFICES ASSUME Keeping(t)' PROVE Keeping(t) /\ o.ptr \in Address /\ o.ptr # b
      OBVIOUS
    <3>2. Keeping(t) /\ HasPtr(t)
      BY <1>1, <1>10, <3>1 DEF Keeping, HasPtr
    <3>3. QED
      BY <1>0, <1>3, <3>2, CallTypes DEF Keeping, AnyAddress, ThreadOK, Apart
  <2>6. KeptOK(t)'
    BY <1>0, <1>1, <1>8, <1>10, <2>5 DEF ThreadOK, KeptOK, Agrees
  <2>7. OldOK(t)'
    BY <1>0, <1>1, <1>10, <2>5 DEF ThreadOK, OldOK
  <2>8. NewOK(t)'
    <3>1. Len(memory'[b]) >= o.size /\ header'[b].requested = o.size
      BY <1>6, <1>7, <1>8
    <3>2. p = "add" => Agrees(Promised(th'[t]), memory'[b])
      <4>1. CASE o.op = "calloc"
        <5>1. th'[t] \in CallState
          BY <1>10
        <5>2. Len(Promised(th'[t])) = o.size /\ \A i \in 1 .. o.size : Promised(th'[t])[i] = 0
          BY <1>10, <4>1, <5>1, PromisedZeroes
        <5>3. QED
          BY <1>6, <1>7, <1>8, <4>1, <5>2 DEF Agrees
      <4>2. CASE o.op = "malloc"
        <5>1. th'[t] \in CallState
          BY <1>10
        <5>2. o.kept.data = <<>>
          BY <1>0, <4>2 DEF ThreadOK, CallShape
        <5>3. Len(Promised(th'[t])) = 0
          BY <1>5, <1>10, <4>2, <5>1, <5>2, PromisedIs DEF Least
        <5>4. QED
          BY <1>6, <1>7, <1>8, <5>3 DEF Agrees
      <4>3. QED
        BY <1>2, <1>9, <4>1, <4>2
    <3>3. QED
      BY <1>9, <1>10, <3>1, <3>2 DEF NewOK
  <2>9. NamesOK(t)'
    BY <1>0, <1>1 DEF ThreadOK, NamesOK
  <2>10. QED
    BY <2>1, <2>2, <2>3, <2>4, <2>6, <2>7, <2>8, <2>9 DEF ThreadOK
<1>16. ListsOK'
  <2>1. \A x \in Address : InCache(x) => /\ kind'[x] = kind[x] /\ memory'[x] = memory[x]
                                         /\ header'[x] = header[x] /\ x \notin mappings' /\ ~Holds(t, x)'
    <3>1. \A x \in Address : InCache(x) => ~Holds(t, x) /\ x \notin mappings
      BY DEF IInv, ListsOK
    <3>2. QED
      BY <1>1, <1>3, <1>8, <1>13, <3>1
  <2>2. \A x \in Address : x \in mappings' =>
           kind'[x] = "mapped" /\ header'[x].span = Len(memory'[x]) + Header
    <3>1. \A x \in Address : x \in mappings =>
            kind[x] = "mapped" /\ header[x].span = Len(memory[x]) + Header
      BY DEF IInv, ListsOK
    <3>2. QED
      BY <1>1, <1>4, <1>7, <1>8, <3>1
  <2>3. \A x \in Address : kind'[x] # "free" => Holds(t, x)' \/ (kind[x] # "free" /\ ~Holds(t, x))
    BY <1>1, <1>13
  <2>4. QED
    BY <1>1, <1>10, <2>1, <2>2, <2>3, ListsKept DEF OthersStay
<1>17. CountOK'
  <2>1. \A x \in Address : InCache(x) => header'[x] = header[x]
    <3>1. \A x \in Address : InCache(x) => ~Holds(t, x)
      BY DEF IInv, ListsOK
    <3>2. QED
      BY <1>3, <1>8, <3>1
  <2>2. QED
    BY <1>1, <2>1, CountKept
<1>18. RecordsOK'
  BY <1>1, RecordsKept
<1>19. QED
  BY <1>1, <1>10, <1>11, <1>13, <1>14, <1>15, <1>16, <1>17, <1>18, Assemble DEF OthersStay

-----------------------------------------------------------------------------
(* Calls that give a block up: to the cache or to the system.                *)
LEMMA LeaveIs ==
  ASSUME Types, NEW t \in Thread, ThreadOK(t), th[t].pc \in {"release", "return"}, Leave(t)
  PROVE  /\ th' \in [Thread -> CallState] /\ OthersStay(t)
         /\ th[t].new = NoAddress => th'[t] = Idle
         /\ th[t].new # NoAddress =>
              /\ th'[t].pc = "add" /\ th'[t].new = th[t].new /\ th'[t].op = th[t].op
              /\ th'[t].ptr = th[t].ptr /\ th'[t].size = th[t].size /\ th'[t].old = th[t].old
              /\ th'[t].copy = th[t].copy /\ th'[t].kept = th[t].kept
              /\ th[t].op = "realloc" /\ th[t].size # 0
<1>1. th[t].new # NoAddress <=> th[t].op = "realloc" /\ th[t].size # 0
  BY DEF ThreadOK, CallShape
<1>2. CASE th[t].new = NoAddress
  <2>1. AfterRelease(t) = "idle"
    BY <1>1, <1>2 DEF AfterRelease
  <2>2. th' = [th EXCEPT ![t] = Idle]
    BY <2>1 DEF Leave
  <2>3. QED
    BY <1>2, <2>2, IdleIsCall DEF Types, OthersStay
<1>3. CASE th[t].new # NoAddress
  <2>1. AfterRelease(t) # "idle"
    BY <1>1, <1>3 DEF AfterRelease
  <2>2. th \in [Thread -> CallState] /\ th[t] \in CallState
    BY DEF Types
  <2>3. th' = [th EXCEPT ![t] = [th[t] EXCEPT !.pc = "add"]]
    BY <2>1, <2>2 DEF Leave
  <2>4. [th[t] EXCEPT !.pc = "add"] \in CallState
    <3>1. "add" \in PC
      BY DEF PC
    <3>2. QED
      BY <2>2, <3>1 DEF CallState
  <2>5. th'[t] = [th[t] EXCEPT !.pc = "add"]
    BY <2>2, <2>3
  <2>6. QED
    BY <1>1, <1>3, <2>2, <2>3, <2>4, <2>5 DEF OthersStay, CallState
<1>4. QED
  BY <1>2, <1>3

(* A thread that leaves its old block to others keeps its own part and the   *)
(* records.                                                                  *)
LEMMA GiveUp ==
  ASSUME IInv, NEW t \in Thread, th[t].pc \in {"release", "return"}, Leave(t), Types',
         UNCHANGED <<records, client>>,
         \A x \in Address \ {th[t].ptr} :
           /\ kind'[x] = kind[x] /\ memory'[x] = memory[x] /\ header'[x] = header[x]
           /\ x \in mappings' <=> x \in mappings
  PROVE  /\ ThreadOK(t)' /\ RecordsOK' /\ OthersStay(t)
         /\ th[t].ptr \in Address /\ Holds(t, th[t].ptr)
         /\ \A x \in Address : Holds(t, x)' <=> Holds(t, x) /\ x # th[t].ptr
         /\ \A x \in Address : Same(x) \/ Holds(t, x)
<1> DEFINE o == th[t]
           q == o.ptr
           b == o.new
<1>0. Types /\ ThreadOK(t)
  BY DEF IInv
<1>1. /\ th' \in [Thread -> CallState] /\ OthersStay(t)
      /\ b = NoAddress => th'[t] = Idle
      /\ b # NoAddress =>
           /\ th'[t].pc = "add" /\ th'[t].new = b /\ th'[t].op = o.op /\ th'[t].ptr = q
           /\ th'[t].size = o.size /\ th'[t].old = o.old /\ th'[t].kept = o.kept
           /\ o.op = "realloc" /\ o.size # 0
  BY <1>0, LeaveIs
<1>2. q # NoAddress /\ q \in Address /\ HasPtr(t) /\ Holds(t, q) /\ q \notin DOMAIN client[t]
  BY <1>0, CallTypes DEF AnyAddress, HasPtr, Holds, ThreadOK, CallShape, Apart
<1>3. b # NoAddress => b \in Address /\ HasNew(t) /\ b # q /\ b \notin DOMAIN client[t]
  BY <1>0, <1>2, CallTypes DEF AnyAddress, HasNew, ThreadOK, Apart
<1>4. ~HasPtr(t)' /\ (HasNew(t)' <=> b # NoAddress)
  BY <1>1 DEF HasPtr, HasNew, Idle
<1>5. \A x \in Address : Holds(t, x)' <=> Holds(t, x) /\ x # q
  BY <1>1, <1>2, <1>3, <1>4 DEF Holds, HasNew
<1>6. \A x \in Address : Same(x) \/ Holds(t, x)
  <2>1. SUFFICES ASSUME NEW x \in Address, x # q PROVE Same(x)
    BY <1>2
  <2>2. QED
    BY <2>1 DEF Same
<1>7. th'[t].pc \in {"idle", "add"} /\ \A x \in Address : ~Moving(t, x)'
  BY <1>1 DEF Moving, At, Idle
<1>8. \A x \in Address : Moving(t, x) => x = q
  BY DEF Moving, At
<1>9. \A x \in DOMAIN client[t] : x \in Address /\ x # q
  BY <1>0, <1>2, HeldTypes
<1>10. ThreadOK(t)'
  <2>1. CallShape(t)'
    <3>1. CASE b = NoAddress
      BY <1>1, <3>1 DEF CallShape, Idle
    <3>2. CASE b # NoAddress
      BY <1>0, <1>1, <1>2, <3>2 DEF ThreadOK, CallShape
    <3>3. QED
      BY <3>1, <3>2
  <2>2. Apart(t)'
    BY <1>1, <1>3, <1>4 DEF Apart
  <2>3. KindOK(t)'
    <3>1. \A x \in Address : Holds(t, x)' => kind'[x] # "free"
                               /\ (x \in mappings' <=> kind'[x] = "mapped" /\ ~Moving(t, x)')
      BY <1>0, <1>5, <1>7, <1>8 DEF ThreadOK, KindOK
    <3>2. ~At(t, "insert")' /\ ~At(t, "libcRealloc")' /\ (At(t, "add")' => th'[t].op = "realloc")
      BY <1>1, <1>7 DEF At, Idle
    <3>3. QED
      BY <3>1, <3>2 DEF KindOK
  <2>4. BlocksOK(t)'
    BY <1>0, <1>9 DEF ThreadOK, BlocksOK, Agrees
  <2>5. KeptOK(t)' /\ OldOK(t)'
    BY <1>7 DEF KeptOK, OldOK, Keeping
  <2>6. NewOK(t)'
    <3>1. CASE b = NoAddress
      BY <1>1, <3>1 DEF NewOK, Idle
    <3>2. CASE b # NoAddress
      <4>1. Promised(th'[t]) = Promised(o)
        BY <1>1, <3>2 DEF Promised
      <4>2. /\ Len(memory[b]) >= o.size /\ Agrees(Promised(o), memory[b])
            /\ b \in mappings => header[b].requested = o.size
        BY <1>0, <1>3, <3>2 DEF ThreadOK, NewOK
      <4>3. Agrees(Promised(th'[t]), memory'[b])
        BY <1>3, <3>2, <4>1, <4>2
      <4>4. QED
        BY <1>1, <1>3, <3>2, <4>2, <4>3 DEF NewOK
    <3>3. QED
      BY <3>1, <3>2
  <2>7. NamesOK(t)'
    BY <1>0, <1>9 DEF ThreadOK, NamesOK
  <2>8. QED
    BY <2>1, <2>2, <2>3, <2>4, <2>5, <2>6, <2>7 DEF ThreadOK
<1>11. RecordsOK'
  BY RecordsKept
<1>12. QED
  BY <1>1, <1>2, <1>5, <1>6, <1>10, <1>11

(* Returning a block to its heap keeps the invariant.                        *)
LEMMA ReturnKeeps ==
  ASSUME IInv, NEW t \in Thread, Return(t)
  PROVE  IInv'
<1> DEFINE q == th[t].ptr
<1>0. Types /\ ThreadOK(t)
  BY DEF IInv
<1>1. /\ th[t].pc = "return" /\ Leave(t) /\ UNCHANGED <<mappings, cached, cachedBytes, records, client>>
      /\ kind' = [kind EXCEPT ![q] = "free"] /\ memory' = [memory EXCEPT ![q] = <<>>]
      /\ header' = [header EXCEPT ![q] = NoHeader]
  BY DEF Return, DropBlock, At
<1>2. q \in Address /\ Holds(t, q) /\ Moving(t, q)
  BY <1>0, <1>1, CallTypes DEF AnyAddress, ThreadOK, CallShape, Holds, HasPtr, Moving, At
<1>3. q \notin mappings /\ ~InCache(q)
  BY <1>0, <1>2 DEF ThreadOK, KindOK, IInv, ListsOK
<1>4. <<>> \in ByteStrings /\ NoHeader \in SpanHeader
  BY EmptySeq, Numbers DEF ByteStrings, NoHeader, SpanHeader
<1>5. /\ kind' \in [Address -> {"free", "native", "mapped"}] /\ memory' \in [Address -> ByteStrings]
      /\ header' \in [Address -> SpanHeader] /\ kind'[q] = "free"
      /\ \A x \in Address \ {q} : kind'[x] = kind[x] /\ memory'[x] = memory[x] /\ header'[x] = header[x]
  BY <1>0, <1>1, <1>2, <1>4 DEF Types
<1>6. Types'
  BY <1>0, <1>1, <1>5, LeaveIs DEF Types
<1>7. /\ ThreadOK(t)' /\ RecordsOK' /\ OthersStay(t)
      /\ \A x \in Address : Holds(t, x)' <=> Holds(t, x) /\ x # q
      /\ \A x \in Address : Same(x) \/ Holds(t, x)
  BY <1>1, <1>5, <1>6, GiveUp
<1>8. ListsOK'
  <2>1. \A x \in Address : InCache(x) => /\ kind'[x] = kind[x] /\ memory'[x] = memory[x]
                                         /\ header'[x] = header[x] /\ x \notin mappings' /\ ~Holds(t, x)'
    <3>1. \A x \in Address : InCache(x) => ~Holds(t, x) /\ x \notin mappings /\ x # q
      BY <1>3 DEF IInv, ListsOK
    <3>2. QED
      BY <1>1, <1>5, <1>7, <3>1
  <2>2. \A x \in Address : x \in mappings' =>
           kind'[x] = "mapped" /\ header'[x].span = Len(memory'[x]) + Header
    BY <1>1, <1>3, <1>5 DEF IInv, ListsOK
  <2>3. \A x \in Address : kind'[x] # "free" => Holds(t, x)' \/ (kind[x] # "free" /\ ~Holds(t, x))
    BY <1>5, <1>7
  <2>4. QED
    BY <1>1, <1>7, <2>1, <2>2, <2>3, ListsKept DEF OthersStay
<1>9. CountOK'
  BY <1>1, <1>3, <1>5, CountKept
<1>10. QED
  BY <1>1, <1>6, <1>7, <1>8, <1>9, Assemble DEF OthersStay

(* The bytes of a set of spans, and of one span more.                        *)
LEMMA CountMore ==
  ASSUME Types, NEW R \in SUBSET Address, NEW a \in Address \ R
  PROVE  /\ Cardinality(UNION {SpanBytes(x) : x \in R}) \in Nat
         /\ Cardinality(UNION {SpanBytes(x) : x \in R \union {a}}) =
              Cardinality(UNION {SpanBytes(x) : x \in R}) + header[a].span
<1> DEFINE U == UNION {SpanBytes(x) : x \in R}
           B == SpanBytes(a)
<1>1. \A x \in Address : header[x].span \in 0 .. SizeMax
  BY MemoryTypes
<1>2. \A x \in Address : SpanBytes(x) \subseteq Address \X (0 .. SizeMax)
  BY <1>1, Numbers DEF SpanBytes
<1>3. IsFiniteSet(Address \X (0 .. SizeMax))
  <2>1. IsFiniteSet(0 .. SizeMax)
    BY FS_Interval, Numbers
  <2>2. QED
    BY <2>1, FS_Product, AllocatorAssumption DEF AllocatorAssumption
<1>4. U \subseteq Address \X (0 .. SizeMax)
  BY <1>2
<1>5. IsFiniteSet(U)
  BY <1>3, <1>4, FS_Subset
<1>6. IsFiniteSet(B) /\ Cardinality(B) = header[a].span
  <2>1. header[a].span \in Nat
    BY <1>1, Numbers
  <2>2. IsFiniteSet(1 .. header[a].span) /\ Cardinality(1 .. header[a].span) = header[a].span
    <3>1. \A n \in Nat : IsFiniteSet(1 .. n) /\ Cardinality(1 .. n) = n
      BY FS_Interval
    <3>2. QED
      BY <2>1, <3>1, Zenon
  <2>3. IsFiniteSet({a}) /\ Cardinality({a}) = 1
    BY FS_Singleton
  <2>4. /\ IsFiniteSet({a} \X (1 .. header[a].span))
        /\ Cardinality({a} \X (1 .. header[a].span)) = Cardinality({a}) * Cardinality(1 .. header[a].span)
    BY <2>2, <2>3, FS_Product, Zenon
  <2>5. QED
    BY <2>1, <2>2, <2>3, <2>4 DEF SpanBytes
<1>7. U \intersect B = {}
  BY DEF SpanBytes
<1>8. UNION {SpanBytes(x) : x \in R \union {a}} = U \union B
  OBVIOUS
<1> HIDE DEF U, B
<1>9. Cardinality(U \union B) = Cardinality(U) + Cardinality(B) - Cardinality({})
  BY <1>5, <1>6, <1>7, FS_Union
<1>10. Cardinality(U) \in Nat /\ Cardinality({}) = 0 /\ header[a].span \in Nat
  BY <1>1, <1>5, FS_CardinalityType, FS_EmptySet, Numbers
<1>11. Cardinality(U \union B) = Cardinality(U) + header[a].span
  BY <1>6, <1>9, <1>10
<1>12. QED
  BY <1>8, <1>10, <1>11 DEF U

(* So does putting a span into the cache, or finding it full.                *)
LEMMA ReleaseKeeps ==
  ASSUME IInv, NEW t \in Thread, Release(t)
  PROVE  IInv'
<1> DEFINE o == th[t]
           q == o.ptr
           span == header[q].span
<1>0. Types /\ ThreadOK(t)
  BY DEF IInv
<1>1. /\ o.pc = "release" /\ mappings' = mappings \ {q}
      /\ UNCHANGED <<kind, header, records, client>>
  BY DEF Release, At
<1>2. q # NoAddress /\ q \in Address /\ HasPtr(t) /\ Holds(t, q) /\ ~Moving(t, q)
  BY <1>0, <1>1, CallTypes DEF AnyAddress, ThreadOK, CallShape, Holds, HasPtr, Moving, At, Apart
<1>3. ~InCache(q)
  BY <1>2 DEF IInv, ListsOK
<1>4. CASE q \in mappings /\ Keeps(span)
  <2>1. /\ cached' = Append(cached, q) /\ cachedBytes' = cachedBytes + span
        /\ memory' = [memory EXCEPT ![q] = Fill(Len(memory[q]), Junk)] /\ Leave(t)
    BY <1>4 DEF Release
  <2>2. /\ Fill(Len(memory[q]), Junk) \in ByteStrings
        /\ Len(Fill(Len(memory[q]), Junk)) = Len(memory[q])
    <3>1. Junk \in Byte /\ Len(memory[q]) \in Nat
      BY <1>0, <1>2, MemoryTypes DEF Byte
    <3>2. QED
      BY <3>1, FillIs
  <2>3. /\ memory' \in [Address -> ByteStrings] /\ Len(memory'[q]) = Len(memory[q])
        /\ \A x \in Address \ {q} : memory'[x] = memory[x]
    BY <1>0, <1>2, <2>1, <2>2 DEF Types
  <2>4. /\ cached' \in Seq(Address) /\ Len(cached') = Len(cached) + 1
        /\ \A i \in 1 .. Len(cached) : cached'[i] = cached[i]
        /\ cached'[Len(cached) + 1] = q
    <3>1. cached \in Seq(Address)
      BY <1>0 DEF Types
    <3>2. QED
      BY <1>2, <2>1, <3>1, AppendProperties
  <2>5. /\ cached \in Seq(Address) /\ DOMAIN cached = 1 .. Len(cached) /\ Len(cached) \in Nat
        /\ DOMAIN cached' = 1 .. Len(cached) + 1
    BY <1>0, <2>4 DEF Types
  <2>6. \A x : InCache(x)' <=> InCache(x) \/ x = q
    BY <2>4, <2>5 DEF InCache
  <2>7. Types'
    BY <1>0, <1>1, <2>1, <2>3, <2>4, LeaveIs DEF Types
  <2>8. /\ ThreadOK(t)' /\ RecordsOK' /\ OthersStay(t)
        /\ \A x \in Address : Holds(t, x)' <=> Holds(t, x) /\ x # q
        /\ \A x \in Address : Same(x) \/ Holds(t, x)
    BY <1>1, <2>1, <2>3, <2>7, GiveUp
  <2>9. \A s \in Thread, x \in Address : Holds(s, x)' <=> Holds(s, x) /\ x # q
    <3>1. SUFFICES ASSUME NEW s \in Thread, s # t, NEW x \in Address
                   PROVE  Holds(s, x)' <=> Holds(s, x) /\ x # q
      BY <2>8
    <3>2. th'[s] = th[s] /\ client'[s] = client[s]
      BY <1>1, <2>8, <3>1 DEF OthersStay
    <3>3. Holds(s, x)' <=> Holds(s, x)
      BY <3>2 DEF Holds, HasPtr, HasNew
    <3>4. ~Holds(s, q)
      BY <1>2, <3>1 DEF IInv, OneHolder
    <3>5. QED
      BY <3>3, <3>4
  <2>10. ListsOK'
    <3>1. \A i, j \in DOMAIN cached' : cached'[i] = cached'[j] => i = j
      <4>1. \A i \in 1 .. Len(cached) : cached[i] # q
        BY <1>3, <2>5 DEF InCache
      <4>2. QED
        BY <2>4, <2>5, <4>1 DEF IInv, ListsOK
    <3>2. \A x \in Address : InCache(x)' => kind'[x] = "mapped" /\ x \notin mappings'
      BY <1>1, <1>4, <2>6 DEF IInv, ListsOK
    <3>3. \A x \in Address : x \in mappings' => kind'[x] = "mapped"
      BY <1>1 DEF IInv, ListsOK
    <3>4. \A x \in Address : x \in mappings' \/ InCache(x)' =>
            header'[x].span = Len(memory'[x]) + Header
      <4>1. SUFFICES ASSUME NEW x \in Address, x \in mappings \/ InCache(x)
                     PROVE  header'[x].span = Len(memory'[x]) + Header
        BY <1>1, <1>4, <2>6
      <4>2. header[x].span = Len(memory[x]) + Header
        BY <4>1 DEF IInv, ListsOK
      <4>3. Len(memory'[x]) = Len(memory[x])
        BY <2>3
      <4>4. QED
        BY <1>1, <4>2, <4>3
    <3>5. \A x \in Address : InCache(x)' => \A s \in Thread : ~Holds(s, x)'
      BY <2>6, <2>9 DEF IInv, ListsOK
    <3>6. \A x \in Address : kind'[x] # "free" => InCache(x)' \/ \E s \in Thread : Holds(s, x)'
      BY <1>1, <2>6, <2>9 DEF IInv, ListsOK
    <3>7. QED
      BY <3>1, <3>2, <3>3, <3>4, <3>5, <3>6 DEF ListsOK
  <2>11. CountOK'
    <3>1. Range(cached') = Range(cached) \union {q} /\ Range(cached) \in SUBSET Address
      <4>1. Range(cached') = {cached'[i] : i \in 1 .. Len(cached) + 1}
        BY <2>5 DEF Range
      <4>2. Range(cached) = {cached[i] : i \in 1 .. Len(cached)}
        BY <2>5 DEF Range
      <4>3. QED
        BY <2>4, <2>5, <4>1, <4>2
    <3>2. q \in Address \ Range(cached)
      BY <1>0, <1>2, <1>3, RangeOfCache
    <3>3. /\ Cardinality(UNION {SpanBytes(x) : x \in Range(cached)}) \in Nat
          /\ Cardinality(UNION {SpanBytes(x) : x \in Range(cached) \union {q}}) =
              Cardinality(UNION {SpanBytes(x) : x \in Range(cached)}) + span
      BY <1>0, <3>1, <3>2, CountMore
    <3>4. {SpanBytes(x)' : x \in Range(cached')} = {SpanBytes(x) : x \in Range(cached) \union {q}}
      BY <1>1, <3>1 DEF SpanBytes
    <3>5. cachedBytes = Cardinality(UNION {SpanBytes(x) : x \in Range(cached)})
      BY DEF IInv, CountOK, CacheIsBounded
    <3>6. cachedBytes' = Cardinality(UNION {SpanBytes(x)' : x \in Range(cached')})
      BY <2>1, <3>3, <3>4, <3>5
    <3>7. /\ span <= CacheSpanLimit /\ Len(cached) < CacheSlots
          /\ cachedBytes + span <= CacheBytesLimit
      BY <1>4 DEF Keeps
    <3>8. Len(cached') <= CacheSlots /\ cachedBytes' <= CacheBytesLimit
      BY <2>1, <2>4, <2>5, <3>7, Numbers
    <3>9. \A i \in DOMAIN cached' : header'[cached'[i]].span <= CacheSpanLimit
      BY <1>1, <2>4, <2>5, <3>7 DEF IInv, CountOK, CacheIsBounded
    <3>10. QED
      BY <3>6, <3>8, <3>9 DEF CountOK, CacheIsBounded
  <2>12. QED
    BY <1>1, <2>7, <2>8, <2>10, <2>11, Assemble DEF OthersStay
<1>5. CASE ~(q \in mappings /\ Keeps(span))
  <2>1. UNCHANGED <<memory, cached, cachedBytes>> /\ Goto(t, "return") /\ "return" \in PC
    BY <1>5 DEF Release, PC
  <2>2. /\ th' \in [Thread -> CallState] /\ OthersStay(t) /\ th'[t].pc = "return"
        /\ th'[t].new = o.new /\ th'[t].op = o.op /\ th'[t].ptr = q /\ th'[t].size = o.size
        /\ th'[t].old = o.old /\ th'[t].copy = o.copy /\ th'[t].kept = o.kept
    BY <1>0, <2>1, GoOn
  <2>3. Types'
    BY <1>0, <1>1, <2>1, <2>2 DEF Types
  <2>4. (HasPtr(t)' <=> HasPtr(t)) /\ (HasNew(t)' <=> HasNew(t))
    BY <1>1, <2>2 DEF HasPtr, HasNew
  <2>5. \A x \in Address : (Holds(t, x)' <=> Holds(t, x)) /\ (Moving(t, x)' <=> x = q) /\ ~Moving(t, x)
    BY <1>1, <2>2, <2>4 DEF Holds, Moving, At
  <2>6. \A x \in Address : Same(x) \/ Holds(t, x)
    <3>1. SUFFICES ASSUME NEW x \in Address, x # q PROVE Same(x)
      BY <1>2
    <3>2. QED
      BY <1>1, <2>1, <3>1 DEF Same
  <2>7. ThreadOK(t)'
    <3>1. CallShape(t)'
      BY <1>0, <1>1, <2>2 DEF ThreadOK, CallShape
    <3>2. Apart(t)'
      BY <1>0, <1>1, <2>2, <2>4 DEF ThreadOK, Apart
    <3>3. KindOK(t)'
      <4>1. \A x \in Address : Holds(t, x)' => kind'[x] # "free"
                                 /\ (x \in mappings' <=> kind'[x] = "mapped" /\ ~Moving(t, x)')
        BY <1>0, <1>1, <2>5 DEF ThreadOK, KindOK
      <4>2. ~At(t, "insert")' /\ ~At(t, "libcRealloc")' /\ ~At(t, "add")'
        BY <2>2 DEF At
      <4>3. QED
        BY <4>1, <4>2 DEF KindOK
    <3>4. BlocksOK(t)'
      BY <1>0, <1>1, <2>1 DEF ThreadOK, BlocksOK, Agrees
    <3>5. KeptOK(t)' /\ OldOK(t)'
      BY <2>2 DEF KeptOK, OldOK, Keeping
    <3>6. NewOK(t)'
      <4>1. Promised(th'[t]) = Promised(o)
        BY <2>2 DEF Promised
      <4>2. HasNew(t) => /\ Len(memory[o.new]) >= o.size /\ Agrees(Promised(o), memory[o.new])
        BY <1>0, <1>1 DEF ThreadOK, NewOK
      <4>3. o.new \in mappings => header[o.new].requested = o.size
        BY <1>0, <1>1 DEF ThreadOK, NewOK
      <4>4. HasNew(t) => Agrees(Promised(th'[t]), memory'[o.new])
        BY <2>1, <4>1, <4>2
      <4>5. QED
        BY <1>1, <2>1, <2>2, <2>4, <4>2, <4>3, <4>4 DEF NewOK
    <3>7. NamesOK(t)'
      BY <1>0, <1>1 DEF ThreadOK, NamesOK
    <3>8. QED
      BY <3>1, <3>2, <3>3, <3>4, <3>5, <3>6, <3>7 DEF ThreadOK
  <2>8. ListsOK'
    <3>1. \A x \in Address : InCache(x) => /\ kind'[x] = kind[x] /\ memory'[x] = memory[x]
                                           /\ header'[x] = header[x] /\ x \notin mappings' /\ ~Holds(t, x)'
      BY <1>1, <2>1, <2>5 DEF IInv, ListsOK
    <3>2. \A x \in Address : x \in mappings' =>
             kind'[x] = "mapped" /\ header'[x].span = Len(memory'[x]) + Header
      BY <1>1, <2>1 DEF IInv, ListsOK
    <3>3. \A x \in Address : kind'[x] # "free" => Holds(t, x)' \/ (kind[x] # "free" /\ ~Holds(t, x))
      BY <1>1, <2>5
    <3>4. QED
      BY <1>1, <2>1, <2>2, <3>1, <3>2, <3>3, ListsKept DEF OthersStay
  <2>9. CountOK'
    BY <1>1, <2>1, CountKept
  <2>10. RecordsOK'
    BY <1>1, RecordsKept
  <2>11. QED
    BY <1>1, <2>2, <2>3, <2>5, <2>6, <2>7, <2>8, <2>9, <2>10, Assemble DEF OthersStay
<1>6. QED
  BY <1>4, <1>5

-----------------------------------------------------------------------------
(* The other end of the cache: a span that fits is taken again.              *)
LEMMA FirstOf ==
  ASSUME NEW n \in Nat, NEW T \in SUBSET (1 .. n), T # {}
  PROVE  \E i \in T : \A j \in T : i <= j
<1> DEFINE Fronts == {1 .. i : i \in T}
<1>1. Fronts \subseteq FiniteSubsetsOf(1 .. n) /\ Fronts # {}
  <2>1. IsFiniteSet(1 .. n)
    BY FS_Interval
  <2>2. FiniteSubsetsOf(1 .. n) = SUBSET (1 .. n)
    BY <2>1, FS_FiniteSubsetsOfFinite
  <2>3. \A i \in T : 1 .. i \in SUBSET (1 .. n)
    OBVIOUS
  <2>4. PICK i \in T : TRUE
    OBVIOUS
  <2>5. 1 .. i \in Fronts
    OBVIOUS
  <2>6. Fronts \subseteq SUBSET (1 .. n)
    BY <2>3
  <2>7. QED
    BY <2>2, <2>5, <2>6, Zenon
<1>2. PICK x \in Fronts : \A y \in Fronts : <<y, x>> \notin StrictSubsetOrdering(1 .. n)
  <2> HIDE DEF Fronts
  <2>1. QED
    BY <1>1, FS_StrictSubsetOrderingWellFounded, WFMin
<1>3. PICK i \in T : x = 1 .. i
  OBVIOUS
<1>4. \A j \in T : ~(j < i)
  <2>1. SUFFICES ASSUME NEW j \in T, j < i PROVE FALSE
    OBVIOUS
  <2>2. 1 .. j \subseteq 1 .. i /\ 1 .. j # 1 .. i /\ 1 .. j \in SUBSET (1 .. n) /\ 1 .. i \in SUBSET (1 .. n)
    BY <2>1
  <2>3. <<1 .. j, 1 .. i>> \in StrictSubsetOrdering(1 .. n)
    BY <2>2 DEF StrictSubsetOrdering
  <2>4. QED
    BY <1>2, <1>3, <2>3
<1>5. QED
  BY <1>4

(* A span taken from the cache keeps the invariant.                          *)
LEMMA HitKeeps ==
  ASSUME IInv, NEW t \in Thread, TakeCached(t), Hits(th[t].size) # {}
  PROVE  IInv'
<1> DEFINE o == th[t]
           n == Len(cached)
           h == FirstHit(o.size)
           b == cached[h]
<1>0. Types /\ ThreadOK(t)
  BY DEF IInv
<1>1. /\ o.pc = "alloc" /\ o.size >= Threshold /\ ~TooLarge(o.size)
      /\ cached' = WithoutHit(h) /\ cachedBytes' = cachedBytes - Span(o.size)
      /\ th' = [th EXCEPT ![t].pc = "insert", ![t].new = b]
      /\ UNCHANGED <<kind, memory, header, mappings, records, client>>
  BY DEF TakeCached, At, system
<1>2. cached \in Seq(Address) /\ n \in Nat /\ DOMAIN cached = 1 .. n /\ \A i \in 1 .. n : cached[i] \in Address
  BY <1>0 DEF Types
<1>3. h \in 1 .. n /\ header[b].span = Span(o.size)
  <2>1. Hits(o.size) \subseteq Nat /\ Hits(o.size) \subseteq 1 .. n
    BY <1>2 DEF Hits
  <2>2. PICK i \in Hits(o.size) : \A j \in Hits(o.size) : i <= j
    BY <1>2, <2>1, FirstOf
  <2>3. h \in Hits(o.size)
    BY <2>2 DEF FirstHit
  <2>4. QED
    BY <1>2, <2>3 DEF Hits
<1> HIDE DEF h
<1>4. b \in Address /\ InCache(b) /\ b # NoAddress
  BY <1>2, <1>3, AllocatorAssumption DEF InCache, AllocatorAssumption
<1>5. /\ kind[b] = "mapped" /\ b \notin mappings /\ header[b].span = Len(memory[b]) + Header
      /\ \A s \in Thread : ~Holds(s, b)
  BY <1>4 DEF IInv, ListsOK
<1>6. /\ cached' \in Seq(Address) /\ Len(cached') = n - 1 /\ DOMAIN cached' = 1 .. n - 1
      /\ \A i \in 1 .. n - 1 : cached'[i] = IF i = h THEN cached[n] ELSE cached[i]
  <2> DEFINE e == [cached EXCEPT ![h] = Last(cached)]
  <2>1. Last(cached) = cached[n] /\ cached[n] \in Address
    BY <1>2, <1>3 DEF Last
  <2>2. e \in Seq(Address) /\ Len(e) = n /\ \A i \in 1 .. n : e[i] = IF i = h THEN cached[n] ELSE cached[i]
    BY <1>2, <1>3, <2>1
  <2>3. cached' = SubSeq(e, 1, Len(e) - 1)
    BY <1>1 DEF WithoutHit, Front
  <2> HIDE DEF e
  <2>4. cached' = SubSeq(e, 1, n - 1)
    BY <2>2, <2>3
  <2>5. /\ SubSeq(e, 1, n - 1) \in Seq(Address) /\ Len(SubSeq(e, 1, n - 1)) = n - 1
        /\ \A i \in 1 .. n - 1 : SubSeq(e, 1, n - 1)[i] = e[i]
    BY <1>2, <1>3, <2>2
  <2> DEFINE d == SubSeq(e, 1, n - 1)
  <2>6. d \in Seq(Address) /\ Len(d) = n - 1 /\ cached' = d
        /\ \A i \in 1 .. n - 1 : d[i] = IF i = h THEN cached[n] ELSE cached[i]
    <3>1. \A i \in 1 .. n - 1 : i \in 1 .. n
      BY <1>2
    <3>2. QED
      BY <2>2, <2>4, <2>5, <3>1
  <2> HIDE DEF d
  <2>7. QED
    BY <2>6
<1>7. \A i, j \in 1 .. n : cached[i] = cached[j] => i = j
  BY <1>2 DEF IInv, ListsOK
<1>8. \A i, j \in DOMAIN cached' : cached'[i] = cached'[j] => i = j
  BY <1>2, <1>3, <1>6, <1>7
<1>9. \A x : InCache(x)' <=> InCache(x) /\ x # b
  <2>1. SUFFICES ASSUME NEW x PROVE InCache(x)' <=> InCache(x) /\ x # b
    OBVIOUS
  <2>2. ASSUME InCache(x)' PROVE InCache(x) /\ x # b
    <3>1. PICK i \in 1 .. n - 1 : cached'[i] = x
      BY <1>6, <2>2 DEF InCache
    <3>2. CASE i = h
      BY <1>2, <1>3, <1>6, <1>7, <3>1, <3>2 DEF InCache
    <3>3. CASE i # h
      BY <1>2, <1>3, <1>6, <1>7, <3>1, <3>3 DEF InCache
    <3>4. QED
      BY <3>2, <3>3
  <2>3. ASSUME InCache(x), x # b PROVE InCache(x)'
    <3>1. PICK i \in 1 .. n : cached[i] = x
      BY <1>2, <2>3 DEF InCache
    <3>2. i # h
      BY <2>3, <3>1
    <3>3. CASE i = n
      <4>0. h \in 1 .. n - 1
        <5>1. n \in Nat /\ h \in 1 .. n
          BY <1>2, <1>3
        <5> HIDE DEF n
        <5>2. QED
          BY <3>2, <3>3, <5>1
      <4>1. h \in 1 .. n - 1 /\ cached'[h] = x
        <5>1. cached'[h] = IF h = h THEN cached[n] ELSE cached[h]
          BY <1>6, <4>0
        <5>2. QED
          BY <3>1, <3>3, <4>0, <5>1
      <4>2. QED
        BY <1>6, <4>1 DEF InCache
    <3>4. CASE i # n
      <4>0. i \in 1 .. n - 1
        <5>1. n \in Nat
          BY <1>2
        <5> HIDE DEF n
        <5>2. QED
          BY <3>4, <5>1
      <4>1. i \in 1 .. n - 1 /\ cached'[i] = x
        <5>1. cached'[i] = IF i = h THEN cached[n] ELSE cached[i]
          BY <1>6, <4>0
        <5>2. QED
          BY <3>1, <3>2, <4>0, <5>1
      <4>2. QED
        BY <1>6, <4>1 DEF InCache
    <3>5. QED
      BY <3>3, <3>4
  <2>4. QED
    BY <2>2, <2>3
<1> HIDE DEF b
<1>10. Moved(t, "insert", b)
  <2>1. "insert" \in PC /\ b \in AnyAddress /\ th' = [th EXCEPT ![t].pc = "insert", ![t].new = b]
    BY <1>1, <1>4 DEF PC, AnyAddress, b
  <2>2. QED
    BY <1>0, <2>1, MoveOn, Zenon
<1>11. /\ th' \in [Thread -> CallState] /\ OthersStay(t) /\ th'[t].pc = "insert" /\ th'[t].new = b
       /\ th'[t].op = o.op /\ th'[t].ptr = o.ptr /\ th'[t].size = o.size
       /\ th'[t].old = o.old /\ th'[t].copy = o.copy /\ th'[t].kept = o.kept
  BY <1>10 DEF Moved
<1>12. o.new = NoAddress /\ ~HasNew(t) /\ HasNew(t)' /\ (HasPtr(t)' <=> HasPtr(t))
  BY <1>0, <1>1, <1>4, <1>11 DEF ThreadOK, CallShape, HasNew, HasPtr
<1>13. \A x \in Address : Holds(t, x)' <=> Holds(t, x) \/ x = b
  BY <1>1, <1>11, <1>12 DEF Holds
<1>14. \A x \in Address : (Moving(t, x)' <=> x = b) /\ ~Moving(t, x)
  BY <1>1, <1>11 DEF Moving, At
<1>15. \A x \in Address : Same(x)
  BY <1>1 DEF Same
<1>16. Types'
  BY <1>0, <1>1, <1>6, <1>11 DEF Types
<1>17. ThreadOK(t)'
  <2>1. CallShape(t)'
    BY <1>0, <1>1, <1>4, <1>11 DEF ThreadOK, CallShape
  <2>2. Apart(t)'
    <3>1. HasPtr(t) => o.ptr \in Address /\ Holds(t, o.ptr)
      BY <1>0, CallTypes DEF HasPtr, Holds, AnyAddress
    <3>2. b \notin DOMAIN client[t]
      BY <1>5 DEF Holds
    <3>3. QED
      BY <1>0, <1>1, <1>5, <1>11, <1>12, <3>1, <3>2 DEF ThreadOK, Apart
  <2>3. KindOK(t)'
    <3>1. \A x \in Address : Holds(t, x)' => kind'[x] # "free"
                               /\ (x \in mappings' <=> kind'[x] = "mapped" /\ ~Moving(t, x)')
      <4>1. SUFFICES ASSUME NEW x \in Address, Holds(t, x)'
                     PROVE  /\ kind'[x] # "free"
                            /\ x \in mappings' <=> kind'[x] = "mapped" /\ ~Moving(t, x)'
        OBVIOUS
      <4>2. CASE x = b
        BY <1>1, <1>5, <1>14, <4>2
      <4>3. CASE x # b
        BY <1>0, <1>1, <1>13, <1>14, <4>1, <4>3 DEF ThreadOK, KindOK
      <4>4. QED
        BY <4>2, <4>3
    <3>2. ~At(t, "add")' /\ ~At(t, "libcRealloc")' /\ kind'[th'[t].new] = "mapped"
      BY <1>1, <1>5, <1>11 DEF At
    <3>3. QED
      BY <3>1, <3>2 DEF KindOK
  <2>4. BlocksOK(t)'
    BY <1>0, <1>1 DEF ThreadOK, BlocksOK, Agrees
  <2>5. Keeping(t)' => Keeping(t)
    BY <1>1, <1>11 DEF Keeping
  <2>6. KeptOK(t)'
    BY <1>0, <1>1, <1>11, <2>5 DEF ThreadOK, KeptOK, Agrees
  <2>7. OldOK(t)'
    BY <1>0, <1>1, <1>11, <2>5 DEF ThreadOK, OldOK
  <2>8. NewOK(t)'
    BY <1>1, <1>3, <1>5, <1>11 DEF NewOK, b
  <2>9. NamesOK(t)'
    BY <1>0, <1>1 DEF ThreadOK, NamesOK
  <2>10. QED
    BY <2>1, <2>2, <2>3, <2>4, <2>6, <2>7, <2>8, <2>9 DEF ThreadOK
<1>18. ListsOK'
  <2>1. \A s \in Thread, x \in Address : Holds(s, x)' <=> Holds(s, x) \/ (s = t /\ x = b)
    <3>1. \A s \in Thread \ {t}, x \in Address : Holds(s, x)' <=> Holds(s, x)
      BY <1>1, <1>11 DEF Holds, HasPtr, HasNew, OthersStay
    <3>2. QED
      BY <1>13, <3>1
  <2>2. \A x \in Address : InCache(x)' => kind'[x] = "mapped" /\ x \notin mappings'
    BY <1>1, <1>9 DEF IInv, ListsOK
  <2>3. \A x \in Address : x \in mappings' => kind'[x] = "mapped"
    BY <1>1 DEF IInv, ListsOK
  <2>4. \A x \in Address : x \in mappings' \/ InCache(x)' => header'[x].span = Len(memory'[x]) + Header
    BY <1>1, <1>9 DEF IInv, ListsOK
  <2>5. \A x \in Address : InCache(x)' => \A s \in Thread : ~Holds(s, x)'
    BY <1>9, <2>1 DEF IInv, ListsOK
  <2>6. \A x \in Address : kind'[x] # "free" => InCache(x)' \/ \E s \in Thread : Holds(s, x)'
    BY <1>1, <1>9, <2>1 DEF IInv, ListsOK
  <2>7. QED
    BY <1>8, <2>2, <2>3, <2>4, <2>5, <2>6 DEF ListsOK
<1>19. CountOK'
  <2>1. Range(cached) = {x \in Address : InCache(x)}
    BY <1>0, RangeOfCache
  <2>2. Range(cached') = {x \in Address : InCache(x)'}
    <3>1. \A i \in DOMAIN cached' : cached'[i] \in Address
      BY <1>6
    <3>2. QED
      BY <3>1 DEF Range, InCache
  <2>3. /\ Range(cached) = Range(cached') \union {b} /\ b \in Address \ Range(cached')
        /\ Range(cached') \in SUBSET Address
    BY <1>4, <1>9, <2>1, <2>2
  <2>4. /\ Cardinality(UNION {SpanBytes(x) : x \in Range(cached')}) \in Nat
        /\ Cardinality(UNION {SpanBytes(x) : x \in Range(cached)}) =
             Cardinality(UNION {SpanBytes(x) : x \in Range(cached')}) + header[b].span
    BY <1>0, <2>3, CountMore
  <2>5. {SpanBytes(x)' : x \in Range(cached')} = {SpanBytes(x) : x \in Range(cached')}
    BY <1>1 DEF SpanBytes
  <2>6. header[b].span = Span(o.size) /\ header[b].span \in Nat
    BY <1>0, <1>3, <1>4, MemoryTypes, Numbers DEF b
  <2>7. cachedBytes = Cardinality(UNION {SpanBytes(x) : x \in Range(cached)})
    BY DEF IInv, CountOK, CacheIsBounded
  <2>8. cachedBytes' = Cardinality(UNION {SpanBytes(x)' : x \in Range(cached')})
    <3>1. cachedBytes' = cachedBytes - header[b].span
      BY <1>1, <2>6
    <3>2. cachedBytes' = Cardinality(UNION {SpanBytes(x) : x \in Range(cached')})
      BY <2>4, <2>6, <2>7, <3>1
    <3>3. QED
      BY <2>5, <3>2
  <2>9. Len(cached) <= CacheSlots /\ cachedBytes <= CacheBytesLimit /\ cachedBytes' <= cachedBytes
        /\ cachedBytes' \in Nat /\ cachedBytes \in Nat
    BY <1>1, <2>4, <2>6, <2>7 DEF IInv, CountOK, CacheIsBounded
  <2>10. Len(cached') <= CacheSlots /\ cachedBytes' <= CacheBytesLimit
    BY <1>2, <1>6, <2>9, Numbers
  <2>11. \A i \in DOMAIN cached' : header'[cached'[i]].span <= CacheSpanLimit
    <3>1. \A i \in 1 .. n : header[cached[i]].span <= CacheSpanLimit
      BY <1>2 DEF IInv, CountOK, CacheIsBounded
    <3>2. QED
      BY <1>1, <1>2, <1>3, <1>6, <3>1
  <2>12. QED
    BY <2>8, <2>10, <2>11 DEF CountOK, CacheIsBounded
<1>20. RecordsOK'
  BY <1>1, RecordsKept
<1>21. \A x \in Address : Holds(t, x)' => Holds(t, x) \/ \A s \in Thread : ~Holds(s, x)
  BY <1>5, <1>13
<1>22. QED
  BY <1>1, <1>11, <1>15, <1>16, <1>17, <1>18, <1>19, <1>20, <1>21, Assemble DEF OthersStay

-----------------------------------------------------------------------------
(* The ends of the calls: the thread gets a block, or its old one back.      *)

(* A table with room for every address has room for one block more.          *)
LEMMA RecordsFit ==
  ASSUME RecordsOK, NEW a \in Address, \A r \in records : r.pointer # a,
         Cardinality(Address) <= TableRoom
  PROVE  Cardinality(records) < TableRoom
<1> DEFINE f == [r \in records |-> r.pointer]
           S == Address \ {a}
<1>1. records \subseteq BlockRecord /\ IsFiniteSet(records)
  BY DEF RecordsOK
<1>2. \A r \in records : r.pointer \in S
  BY <1>1 DEF BlockRecord
<1>3. f \in Injection(records, S)
  <2>1. f \in [records -> S]
    BY <1>2
  <2>2. \A q, r \in records : f[q] = f[r] => q = r
    BY DEF RecordsOK
  <2>3. DOMAIN f = records
    OBVIOUS
  <2>4. IsInjective(f)
    BY <2>2, <2>3 DEF IsInjective
  <2>5. QED
    BY <2>1, <2>4 DEF Injection
<1>4. IsFiniteSet(Address)
  BY AllocatorAssumption DEF AllocatorAssumption
<1>5. IsFiniteSet(S) /\ Cardinality(S) = Cardinality(Address) - 1
  BY <1>4, FS_RemoveElement
<1>6. Cardinality(records) <= Cardinality(S)
  <2> HIDE DEF f, S
  <2>1. QED
    BY <1>3, <1>5, FS_Injection
<1>7. Cardinality(records) \in Nat /\ Cardinality(Address) \in Nat
  BY <1>1, <1>4, FS_CardinalityType
<1>8. QED
  BY <1>5, <1>6, <1>7, Numbers

(* What a block and its record look like when a thread gets it.              *)
NamesBlock(q, a, v) ==
  /\ q = NoBlockRecord \/ (/\ q \in BlockRecord /\ q.pointer = a /\ v.title
                      /\ q.bytes = Len(v.data) /\ q.route = kind'[a])
  /\ Cardinality(Address) <= TableRoom /\ v.title => q # NoBlockRecord

(* A record added names the new block, or there was no room for it.          *)
LEMMA AddedIs ==
  ASSUME RecordsOK, NEW a \in Address, \A r \in records : r.pointer # a,
         NEW q, NEW v \in Block, NamesBlock(q, a, v), records' = Added(q)
  PROVE  /\ records \subseteq records' /\ records' \subseteq records \union {q}
         /\ records' \subseteq BlockRecord /\ IsFiniteSet(records')
         /\ Cardinality(records') <= TableRoom
         /\ \A r \in records' \ records : r.pointer = a /\ r = q
         /\ Cardinality(Address) <= TableRoom /\ v.title => \E r \in records' : r.pointer = a
<1>1. IsFiniteSet(records) /\ Cardinality(records) \in Nat /\ Cardinality(records) <= TableRoom
  BY FS_CardinalityType DEF RecordsOK
<1>2. CASE q = NoBlockRecord
  <2>1. records' = records
    BY <1>2 DEF Added, NoBlockRecord
  <2>2. QED
    BY <1>1, <1>2, <2>1 DEF NamesBlock, RecordsOK
<1>3. CASE q \in BlockRecord /\ q.pointer = a
  <2>1. a # NoAddress
    BY AllocatorAssumption DEF AllocatorAssumption
  <2>2. Cardinality(Address) <= TableRoom => Cardinality(records) < TableRoom
    BY RecordsFit
  <2>3. CASE Cardinality(records) >= TableRoom
    <3>1. records' = records
      BY <2>3 DEF Added
    <3>2. ~(Cardinality(Address) <= TableRoom)
      BY <1>1, <2>2, <2>3, Numbers
    <3>3. QED
      BY <1>1, <3>1, <3>2 DEF RecordsOK
  <2>4. CASE ~(Cardinality(records) >= TableRoom)
    <3>1. records' = records \union {q}
      BY <1>3, <2>1, <2>4 DEF Added
    <3>2. q \notin records
      BY <1>3
    <3>3. IsFiniteSet(records') /\ Cardinality(records') = Cardinality(records) + 1
      BY <1>1, <3>1, <3>2, FS_AddElement
    <3>4. Cardinality(records') <= TableRoom
      BY <1>1, <2>4, <3>3, Numbers
    <3>5. QED
      BY <1>3, <3>1, <3>3, <3>4 DEF RecordsOK
  <2>5. QED
    BY <2>3, <2>4
<1>4. QED
  BY <1>2, <1>3 DEF NamesBlock

(* A thread that is handed its new block keeps the invariant.                *)
LEMMA GetsBlock ==
  ASSUME IInv, NEW t \in Thread, NEW a \in Address, NEW v \in Block, NEW q,
         a \notin DOMAIN client[t], Holds(t, a) \/ \A s \in Thread : ~Holds(s, a),
         ~InCache(a), \A r \in records : r.pointer # a,
         \A x \in Address : Holds(t, x) => x \in DOMAIN client[t] \/ x = a,
         client' = [client EXCEPT ![t] = With(@, a, v)],
         th' \in [Thread -> CallState], OthersStay(t),
         th'[t].pc = "idle", th'[t].ptr = NoAddress, th'[t].new = NoAddress, CallShape(t)',
         records' = Added(q), NamesBlock(q, a, v), UNCHANGED spans,
         kind' \in [Address -> {"free", "native", "mapped"}], memory' \in [Address -> ByteStrings],
         \A x \in Address \ {a} : kind'[x] = kind[x] /\ memory'[x] = memory[x],
         kind'[a] # "free", a \in mappings <=> kind'[a] = "mapped",
         a \in mappings => /\ Len(memory'[a]) = Len(memory[a])
                           /\ header[a].requested = Len(v.data),
         Agrees(v.data, memory'[a])
  PROVE  IInv'
<1>0. Types /\ ThreadOK(t) /\ RecordsOK
  BY DEF IInv
<1>1. UNCHANGED <<header, mappings, cached, cachedBytes>>
  BY DEF spans
<1>2. /\ client' \in [Thread -> Held] /\ \A s \in Thread \ {t} : client'[s] = client[s]
      /\ DOMAIN client'[t] = DOMAIN client[t] \union {a} /\ client'[t][a] = v
      /\ \A x \in DOMAIN client[t] : client'[t][x] = client[t][x]
  <2>1. client[t] \in Held /\ client \in [Thread -> Held]
    BY <1>0, HeldTypes DEF Types
  <2>2. /\ With(client[t], a, v) \in Held
        /\ DOMAIN With(client[t], a, v) = DOMAIN client[t] \union {a}
        /\ With(client[t], a, v)[a] = v
        /\ \A x \in DOMAIN client[t] \ {a} : With(client[t], a, v)[x] = client[t][x]
    <3>1. v \in Block /\ a \in Address
      OBVIOUS
    <3> DEFINE Put(f, x, w) ==
                 /\ With(f, x, w) \in Held /\ DOMAIN With(f, x, w) = DOMAIN f \union {x}
                 /\ With(f, x, w)[x] = w
                 /\ \A y \in DOMAIN f \ {x} : With(f, x, w)[y] = f[y]
    <3>2. \A f \in Held, x \in Address, w \in Block : Put(f, x, w)
      BY WithHeld
    <3>3. Put(client[t], a, v)
      <4> HIDE DEF Put
      <4>1. QED
        BY <2>1, <3>1, <3>2
    <3>4. QED
      BY <3>3
  <2>3. client'[t] = With(client[t], a, v)
    BY <2>1
  <2>4. client' \in [Thread -> Held] /\ \A s \in Thread \ {t} : client'[s] = client[s]
    BY <2>1, <2>2
  <2>5. QED
    BY <2>2, <2>3, <2>4
<1>3. /\ records \subseteq records' /\ records' \subseteq BlockRecord /\ IsFiniteSet(records')
      /\ Cardinality(records') <= TableRoom
      /\ \A r \in records' \ records : r.pointer = a /\ r = q
      /\ Cardinality(Address) <= TableRoom /\ v.title => \E r \in records' : r.pointer = a
  BY <1>0, AddedIs
<1>4. ~HasPtr(t)' /\ ~HasNew(t)' /\ ~Keeping(t)' /\ \A x \in Address : ~Moving(t, x)'
  BY DEF HasPtr, HasNew, Keeping, Moving, At
<1>5. \A x \in Address : Holds(t, x)' <=> x \in DOMAIN client[t] \/ x = a
  BY <1>2, <1>4 DEF Holds
<1>6. \A x \in DOMAIN client[t] : x \in Address /\ x # a /\ Holds(t, x)
  BY <1>0, HeldTypes DEF Holds
<1>7. Types'
  BY <1>0, <1>1, <1>2 DEF Types
<1>8. \A x \in Address \ {a} : Same(x)
  <2>1. \A x \in Address \ {a} : \A r \in BlockRecord : r.pointer = x => (r \in records' <=> r \in records)
    BY <1>3
  <2>2. QED
    BY <1>1, <2>1 DEF Same
<1>9. ThreadOK(t)'
  <2>1. Apart(t)'
    BY <1>4 DEF Apart
  <2>2. KindOK(t)'
    <3>1. \A x \in DOMAIN client[t] : ~Moving(t, x)
      BY <1>0 DEF Moving, At, ThreadOK, CallShape, Apart, HasPtr, HasNew
    <3>2. \A x \in DOMAIN client[t] : kind'[x] # "free" /\ (x \in mappings' <=> kind'[x] = "mapped")
      BY <1>0, <1>1, <1>6, <3>1 DEF ThreadOK, KindOK
    <3>3. \A x \in Address : Holds(t, x)' => kind'[x] # "free"
                               /\ (x \in mappings' <=> kind'[x] = "mapped" /\ ~Moving(t, x)')
      BY <1>1, <1>4, <1>5, <3>2
    <3>4. ~At(t, "insert")' /\ ~At(t, "add")' /\ ~At(t, "libcRealloc")'
      BY DEF At
    <3>5. QED
      BY <3>3, <3>4 DEF KindOK
  <2>3. BlocksOK(t)'
    BY <1>0, <1>1, <1>2, <1>6 DEF ThreadOK, BlocksOK, Agrees
  <2>4. KeptOK(t)' /\ OldOK(t)'
    BY <1>4 DEF KeptOK, OldOK
  <2>5. NewOK(t)'
    BY DEF NewOK
  <2>6. NamesOK(t)'
    <3>1. \A r \in records' : r.pointer \in DOMAIN client'[t] =>
             /\ client'[t][r.pointer].title
             /\ r.bytes = Len(client'[t][r.pointer].data)
             /\ r.route = kind'[r.pointer]
      <4>1. SUFFICES ASSUME NEW r \in records', r.pointer \in DOMAIN client'[t]
                     PROVE  /\ client'[t][r.pointer].title
                            /\ r.bytes = Len(client'[t][r.pointer].data)
                            /\ r.route = kind'[r.pointer]
        OBVIOUS
      <4>2. CASE r \in records
        BY <1>0, <1>2, <1>6, <4>1, <4>2 DEF ThreadOK, NamesOK
      <4>3. CASE r \notin records
        <5>1. r = q /\ r.pointer = a /\ r \in BlockRecord
          BY <1>3, <4>1, <4>3
        <5>2. r # NoBlockRecord
          BY <5>1, AllocatorAssumption DEF NoBlockRecord, AllocatorAssumption
        <5>3. QED
          BY <1>2, <5>1, <5>2 DEF NamesBlock
      <4>4. QED
        BY <4>2, <4>3
    <3>2. Cardinality(Address) <= TableRoom =>
            \A x \in DOMAIN client'[t] : client'[t][x].title => \E r \in records' : r.pointer = x
      BY <1>0, <1>2, <1>3 DEF ThreadOK, NamesOK
    <3>3. QED
      BY <3>1, <3>2 DEF NamesOK
  <2>7. QED
    BY <2>1, <2>2, <2>3, <2>4, <2>5, <2>6 DEF ThreadOK
<1>10. ListsOK'
  <2>1. \A x \in Address : InCache(x) => /\ kind'[x] = kind[x] /\ memory'[x] = memory[x]
                                         /\ header'[x] = header[x] /\ x \notin mappings' /\ ~Holds(t, x)'
    <3>1. \A x \in Address : InCache(x) => x # a /\ x \notin mappings /\ ~Holds(t, x)
      BY DEF IInv, ListsOK
    <3>2. QED
      BY <1>1, <1>5, <1>6, <3>1
  <2>2. \A x \in Address : x \in mappings' =>
           kind'[x] = "mapped" /\ header'[x].span = Len(memory'[x]) + Header
    <3>1. \A x \in Address : x \in mappings => kind[x] = "mapped" /\ header[x].span = Len(memory[x]) + Header
      BY DEF IInv, ListsOK
    <3>2. QED
      BY <1>1, <3>1
  <2>3. \A x \in Address : kind'[x] # "free" => Holds(t, x)' \/ (kind[x] # "free" /\ ~Holds(t, x))
    BY <1>5
  <2>4. QED
    BY <1>1, <1>2, <2>1, <2>2, <2>3, ListsKept DEF OthersStay
<1>11. CountOK'
  BY <1>1, CountKept
<1>12. RecordsOK'
  <2>1. \A p, r \in records' : p.pointer = r.pointer => p = r
    BY <1>0, <1>3 DEF RecordsOK
  <2>2. \A r \in records' : \E s \in Thread : r.pointer \in DOMAIN client'[s]
    <3>1. SUFFICES ASSUME NEW r \in records' PROVE \E s \in Thread : r.pointer \in DOMAIN client'[s]
      OBVIOUS
    <3>2. CASE r \in records
      <4>1. PICK s \in Thread : r.pointer \in DOMAIN client[s]
        BY <1>0, <3>2 DEF RecordsOK
      <4>2. r.pointer \in DOMAIN client'[s]
        BY <1>2, <4>1
      <4>3. QED
        BY <4>2
    <3>3. CASE r \notin records
      BY <1>2, <1>3, <3>1, <3>3
    <3>4. QED
      BY <3>2, <3>3
  <2>3. QED
    BY <1>3, <2>1, <2>2 DEF RecordsOK
<1>13. QED
  <2>1. \A x \in Address : Same(x) \/ Holds(t, x) \/ \A s \in Thread : ~Holds(s, x)
    BY <1>8
  <2>2. \A x \in Address : Holds(t, x)' => Holds(t, x) \/ \A s \in Thread : ~Holds(s, x)
    BY <1>5, <1>6
  <2>3. \A s \in Thread \ {t} : th'[s] = th[s] /\ client'[s] = client[s]
    BY <1>2 DEF OthersStay
  <2>4. QED
    BY <1>7, <1>9, <1>10, <1>11, <1>12, <2>1, <2>2, <2>3, Assemble

(* The bytes a caller finds and writes in its new block.                     *)
Written(o, t) == [i \in 1 .. o.size |-> IF i <= Len(Promised(o)) THEN Promised(o)[i] ELSE t]
Rewritten(o, t, f) ==
  [i \in DOMAIN f |-> IF i <= Len(Promised(o)) \/ i > o.size THEN f[i] ELSE t]

(* What a client writes it finds behind the pointer.                         *)
LEMMA WrittenIs ==
  ASSUME NEW o \in CallState, NEW t \in Thread, NEW f \in ByteStrings,
         o.size <= Len(f), Agrees(Promised(o), f)
  PROVE  /\ Written(o, t) \in ByteStrings /\ Len(Written(o, t)) = o.size
         /\ Rewritten(o, t, f) \in ByteStrings /\ Len(Rewritten(o, t, f)) = Len(f)
         /\ Agrees(Written(o, t), Rewritten(o, t, f))
<1> DEFINE p == Promised(o)
           n == Len(p)
<1>1. p \in ByteStrings /\ o.size \in Nat /\ t \in Byte
  <2>1. o.size \in Nat
    BY Numbers DEF CallState
  <2>2. p \in ByteStrings
    BY PromisedIs, PromisedZeroes
  <2>3. QED
    BY <2>1, <2>2 DEF Byte
<1>2. n \in Nat /\ \A i \in 1 .. n : p[i] \in Byte /\ p[i] = f[i]
  BY <1>1 DEF ByteStrings, Agrees
<1>3. DOMAIN f = 1 .. Len(f) /\ Len(f) \in Nat /\ \A i \in 1 .. Len(f) : f[i] \in Byte
  BY DEF ByteStrings
<1>4. Written(o, t) = [i \in 1 .. o.size |-> IF i <= n THEN p[i] ELSE t]
  BY DEF Written
<1>5. Rewritten(o, t, f) = [i \in 1 .. Len(f) |-> IF i <= n \/ i > o.size THEN f[i] ELSE t]
  BY <1>3 DEF Rewritten
<1> HIDE DEF p, n
<1>6. Written(o, t) \in ByteStrings /\ Len(Written(o, t)) = o.size
  <2>1. \A i \in 1 .. o.size : (IF i <= n THEN p[i] ELSE t) \in Byte
    BY <1>1, <1>2
  <2>2. Written(o, t) \in [1 .. o.size -> Byte]
    BY <1>4, <2>1
  <2>3. QED
    BY <1>1, <2>2 DEF ByteStrings
<1>7. Rewritten(o, t, f) \in ByteStrings /\ Len(Rewritten(o, t, f)) = Len(f)
  <2>1. \A i \in 1 .. Len(f) : (IF i <= n \/ i > o.size THEN f[i] ELSE t) \in Byte
    BY <1>1, <1>3
  <2>2. QED
    BY <1>3, <1>5, <2>1 DEF ByteStrings
<1>8. \A i \in 1 .. o.size : Written(o, t)[i] = Rewritten(o, t, f)[i]
  BY <1>1, <1>2, <1>3, <1>4, <1>5
<1>9. QED
  BY <1>6, <1>7, <1>8 DEF Agrees

(* The end of a successful call keeps the invariant.                         *)
LEMMA AddKeeps ==
  ASSUME IInv, NEW t \in Thread, Add(t)
  PROVE  IInv'
<1> DEFINE o == th[t]
           b == o.new
           v == [title |-> TRUE, data |-> Written(o, t)]
           q == [pointer |-> b, bytes |-> o.size, route |-> RouteOf(o)]
<1>0. Types /\ ThreadOK(t) /\ o \in CallState
  BY CallTypes DEF IInv
<1>1. /\ o.pc = "add" /\ UNCHANGED <<kind, spans>> /\ records' = Added(q)
      /\ client' = [client EXCEPT ![t] = With(@, b, v)]
      /\ memory' = [memory EXCEPT ![b] = Rewritten(o, t, @)]
      /\ th' = [th EXCEPT ![t] = Idle]
  BY DEF Add, At, Written, Rewritten
<1>2. b \in Address /\ b # NoAddress /\ HasNew(t) /\ Holds(t, b) /\ b \notin DOMAIN client[t]
  BY <1>0, <1>1, CallTypes DEF AnyAddress, ThreadOK, CallShape, HasNew, Holds, Apart
<1>3. \A x \in Address : Holds(t, x) => x \in DOMAIN client[t] \/ x = b
  BY <1>1 DEF Holds, HasPtr
<1>4. ~InCache(b) /\ \A r \in records : r.pointer # b
  BY <1>2, NoNameInCall DEF IInv, ListsOK
<1>5. /\ kind[b] # "free" /\ (b \in mappings <=> kind[b] = "mapped")
      /\ kind[b] \in {"free", "native", "mapped"}
  BY <1>0, <1>1, <1>2, MemoryTypes DEF ThreadOK, KindOK, Moving, At
<1>6. /\ o.size <= Len(memory[b]) /\ memory[b] \in ByteStrings /\ Agrees(Promised(o), memory[b])
      /\ b \in mappings => header[b].requested = o.size
  BY <1>0, <1>1, <1>2, MemoryTypes, CallTypes DEF ThreadOK, NewOK
<1>7. /\ Written(o, t) \in ByteStrings /\ Len(Written(o, t)) = o.size
      /\ Rewritten(o, t, memory[b]) \in ByteStrings
      /\ Len(Rewritten(o, t, memory[b])) = Len(memory[b])
      /\ Agrees(Written(o, t), Rewritten(o, t, memory[b]))
  BY <1>0, <1>6, WrittenIs
<1>8. v \in Block /\ v.title /\ v.data = Written(o, t)
  BY <1>7 DEF Block
<1>9. RouteOf(o) = kind[b]
  <2>1. CASE o.op = "realloc"
    BY <1>5, <2>1 DEF RouteOf
  <2>2. CASE o.op # "realloc"
    BY <1>0, <1>1, <1>5, <2>2 DEF RouteOf, ThreadOK, KindOK, At
  <2>3. QED
    BY <2>1, <2>2
<1>10. q \in BlockRecord /\ q.pointer = b /\ q.bytes = o.size /\ q.route = kind[b]
  BY <1>0, <1>2, <1>5, <1>9, CallTypes DEF BlockRecord
<1>11. q # NoBlockRecord
  BY <1>2, <1>10 DEF NoBlockRecord
<1>12. /\ th' \in [Thread -> CallState] /\ OthersStay(t) /\ th'[t] = Idle
  BY <1>0, <1>1, IdleIsCall, BeginCall
<1>13. /\ memory' \in [Address -> ByteStrings] /\ memory'[b] = Rewritten(o, t, memory[b])
       /\ \A x \in Address \ {b} : memory'[x] = memory[x]
  BY <1>0, <1>1, <1>2, <1>7 DEF Types
<1>14. /\ th'[t].pc = "idle" /\ th'[t].ptr = NoAddress /\ th'[t].new = NoAddress /\ CallShape(t)'
  BY <1>12 DEF Idle, CallShape
<1> HIDE DEF v, q
<1>15. NamesBlock(q, b, v)
  BY <1>1, <1>7, <1>8, <1>10, <1>11 DEF NamesBlock
<1>16. b \in mappings => Len(memory'[b]) = Len(memory[b]) /\ header[b].requested = Len(v.data)
  BY <1>6, <1>7, <1>8, <1>13
<1>17. Agrees(v.data, memory'[b])
  BY <1>7, <1>8, <1>13
<1>18. /\ kind' \in [Address -> {"free", "native", "mapped"}] /\ kind'[b] # "free"
       /\ b \in mappings <=> kind'[b] = "mapped"
       /\ \A x \in Address \ {b} : kind'[x] = kind[x] /\ memory'[x] = memory[x]
  BY <1>0, <1>1, <1>5, <1>13 DEF Types
<1>19. UNCHANGED spans
  BY <1>1
<1> HIDE DEF b
<1>20. QED
  BY <1>1, <1>2, <1>3, <1>4, <1>8, <1>12, <1>13, <1>14, <1>15, <1>16, <1>17, <1>18, <1>19, GetsBlock

(* So does the end of one that fails.                                        *)
LEMMA FailKeeps ==
  ASSUME IInv, NEW t \in Thread, Fail(t)
  PROVE  IInv'
<1> DEFINE o == th[t]
           a == o.ptr
<1>0. Types /\ ThreadOK(t)
  BY DEF IInv
<1>1. /\ o.pc = "fail" /\ UNCHANGED <<system, spans>> /\ records' = Added(o.old)
      /\ client' = IF a = NoAddress THEN client
                   ELSE [client EXCEPT ![t] = With(@, a, o.kept)]
      /\ th' = [th EXCEPT ![t] = Idle]
  BY DEF Fail, At
<1>2. /\ th' \in [Thread -> CallState] /\ OthersStay(t) /\ th'[t] = Idle
  BY <1>0, <1>1, IdleIsCall, BeginCall
<1>3. /\ th'[t].pc = "idle" /\ th'[t].ptr = NoAddress /\ th'[t].new = NoAddress /\ CallShape(t)'
  BY <1>2 DEF Idle, CallShape
<1>4. o.new = NoAddress /\ ~HasNew(t)
  BY <1>0, <1>1 DEF ThreadOK, CallShape, HasNew
<1>5. UNCHANGED <<kind, memory, header, mappings, cached, cachedBytes>>
  BY <1>1 DEF system, spans
<1>6. CASE a = NoAddress
  <2>1. o.old = NoBlockRecord
    BY <1>0, <1>6 DEF ThreadOK, CallShape
  <2>2. records' = records /\ client' = client
    BY <1>1, <1>6, <2>1 DEF Added, NoBlockRecord
  <2>3. ~HasPtr(t) /\ ~HasPtr(t)' /\ ~HasNew(t)' /\ ~Keeping(t)'
    BY <1>3, <1>6 DEF HasPtr, HasNew, Keeping
  <2>4. \A x \in Address : (Holds(t, x)' <=> Holds(t, x)) /\ ~Moving(t, x)' /\ ~Moving(t, x)
    BY <1>1, <1>3, <1>4, <2>2, <2>3 DEF Holds, Moving, At
  <2>5. KindOK(t)'
    <3>1. \A x \in Address : Holds(t, x)' => kind'[x] # "free"
                               /\ (x \in mappings' <=> kind'[x] = "mapped" /\ ~Moving(t, x)')
      BY <1>0, <1>5, <2>4 DEF ThreadOK, KindOK
    <3>2. QED
      BY <1>3, <3>1 DEF KindOK, At
  <2>6. BlocksOK(t)' /\ NamesOK(t)'
    BY <1>0, <1>5, <2>2 DEF ThreadOK, BlocksOK, NamesOK, Agrees
  <2>7. Apart(t)' /\ KeptOK(t)' /\ OldOK(t)' /\ NewOK(t)'
    BY <1>3, <2>3 DEF Apart, KeptOK, OldOK, NewOK
  <2>8. ThreadOK(t)'
    BY <1>3, <2>5, <2>6, <2>7 DEF ThreadOK
  <2>9. QED
    BY <1>1, <1>2, <2>2, <2>4, <2>8, QuietStep
<1>7. CASE a # NoAddress
  <2>1. a \in Address /\ o.kept \in Block
    BY <1>0, <1>7, CallTypes DEF AnyAddress
  <2>2. o.op = "realloc" /\ Keeping(t) /\ HasPtr(t)
    BY <1>0, <1>1, <1>7 DEF ThreadOK, CallShape, Keeping, HasPtr
  <2>3. Holds(t, a) /\ a \notin DOMAIN client[t]
    BY <1>0, <2>2 DEF Holds, ThreadOK, Apart
  <2>4. \A x \in Address : Holds(t, x) => x \in DOMAIN client[t] \/ x = a
    BY <1>4 DEF Holds
  <2>5. ~InCache(a) /\ \A r \in records : r.pointer # a
    BY <2>1, <2>3, NoNameInCall DEF IInv, ListsOK
  <2>6. kind[a] # "free" /\ (a \in mappings <=> kind[a] = "mapped")
    BY <1>0, <1>1, <2>1, <2>3 DEF ThreadOK, KindOK, Moving, At
  <2>7. Agrees(o.kept.data, memory[a]) /\ (a \in mappings => header[a].requested = Len(o.kept.data))
    BY <1>0, <2>2 DEF ThreadOK, KeptOK
  <2>8. NamesBlock(o.old, a, o.kept)
    <3>1. \/ o.old = NoBlockRecord
          \/ o.old \in BlockRecord /\ o.kept.title /\ o.old.pointer = a
             /\ o.old.bytes = Len(o.kept.data) /\ o.old.route = kind'[a]
      BY <1>0, <1>5, <2>2 DEF ThreadOK, OldOK
    <3>2. Cardinality(Address) <= TableRoom /\ o.kept.title => o.old # NoBlockRecord
      BY <1>0, <1>7, <2>2 DEF ThreadOK, OldOK, NoBlockRecord
    <3>3. QED
      BY <3>1, <3>2 DEF NamesBlock
  <2>9. client' = [client EXCEPT ![t] = With(@, a, o.kept)]
    BY <1>1, <1>7
  <2>10. /\ kind' \in [Address -> {"free", "native", "mapped"}] /\ memory' \in [Address -> ByteStrings]
         /\ \A x \in Address \ {a} : kind'[x] = kind[x] /\ memory'[x] = memory[x]
         /\ kind'[a] # "free" /\ (a \in mappings <=> kind'[a] = "mapped")
         /\ a \in mappings => /\ Len(memory'[a]) = Len(memory[a])
                              /\ header[a].requested = Len(o.kept.data)
         /\ Agrees(o.kept.data, memory'[a])
    BY <1>0, <1>5, <2>6, <2>7 DEF Types
  <2>11. UNCHANGED spans
    BY <1>1
  <2> HIDE DEF a
  <2>12. QED
    BY <1>1, <1>2, <1>3, <2>1, <2>3, <2>4, <2>5, <2>8, <2>9, <2>10, <2>11, GetsBlock
<1>8. QED
  BY <1>6, <1>7

(* A block of a library's.                                                   *)
LEMMA ForeignBlockKeeps ==
  ASSUME IInv, NEW t \in Thread, NEW size \in Sizes, ForeignBlock(t, size)
  PROVE  IInv'
<1>0. Types /\ ThreadOK(t) /\ size \in Nat /\ t \in Byte
  BY AllocatorAssumption, Numbers DEF IInv, AllocatorAssumption, Byte
<1>1. PICK a \in Fresh :
        /\ NewBlock(a, "native", size, t)
        /\ client' = [client EXCEPT ![t] = With(@, a, [title |-> FALSE, data |-> Fill(size, t)])]
  BY DEF ForeignBlock
<1>2. th[t].pc = "idle" /\ UNCHANGED <<spans, records, th>>
  BY DEF ForeignBlock, At
<1> DEFINE v == [title |-> FALSE, data |-> Fill(size, t)]
<1>3. /\ a \in Address /\ kind[a] = "free" /\ a \notin mappings /\ ~InCache(a)
      /\ \A s \in Thread : ~Holds(s, a)
      /\ a \notin DOMAIN client[t]
      /\ \A r \in records : r.pointer # a
  BY FreshIs
<1>4. /\ kind' \in [Address -> {"free", "native", "mapped"}] /\ memory' \in [Address -> ByteStrings]
      /\ kind'[a] = "native" /\ memory'[a] = Fill(size, t)
      /\ \A x \in Address \ {a} : kind'[x] = kind[x] /\ memory'[x] = memory[x]
  BY <1>0, <1>1, <1>3, NewBlockIs
<1>5. v \in Block /\ ~v.title /\ v.data = Fill(size, t)
  BY <1>0, FillIs DEF Block
<1>6. Agrees(Fill(size, t), Fill(size, t))
  BY <1>0, FillIs DEF Agrees
<1>7. /\ th' \in [Thread -> CallState] /\ OthersStay(t)
      /\ th'[t].pc = "idle" /\ th'[t].ptr = NoAddress /\ th'[t].new = NoAddress
  BY <1>0, <1>2 DEF Types, OthersStay, ThreadOK, CallShape
<1>8. CallShape(t)'
  BY <1>0, <1>2 DEF ThreadOK, CallShape
<1>9. \A x \in Address : Holds(t, x) => x \in DOMAIN client[t] \/ x = a
  BY <1>0, <1>2 DEF Holds, HasPtr, HasNew, ThreadOK, CallShape
<1>10. records' = Added(NoBlockRecord)
  BY <1>2 DEF Added, NoBlockRecord
<1>11. client' = [client EXCEPT ![t] = With(@, a, v)]
  BY <1>1
<1> HIDE DEF v
<1>12. NamesBlock(NoBlockRecord, a, v)
  BY <1>5 DEF NamesBlock
<1>13. Agrees(v.data, memory'[a]) /\ (a \in mappings <=> kind'[a] = "mapped") /\ kind'[a] # "free"
  BY <1>3, <1>4, <1>5, <1>6
<1>14. UNCHANGED spans
  BY <1>2
<1>15. a \in mappings => /\ Len(memory'[a]) = Len(memory[a])
                         /\ header[a].requested = Len(v.data)
  BY <1>3
<1>16. QED
  BY <1>3, <1>4, <1>5, <1>7, <1>8, <1>9, <1>10, <1>11, <1>12, <1>13, <1>14, <1>15, GetsBlock

-----------------------------------------------------------------------------
(* What the cache keeps is finitely many bytes.                              *)
LEMMA CountedIsNat ==
  ASSUME Types, NEW R \in SUBSET Address
  PROVE  Cardinality(UNION {SpanBytes(x) : x \in R}) \in Nat
<1>1. \A x \in Address : header[x].span \in 0 .. SizeMax
  BY MemoryTypes
<1>2. \A x \in Address : SpanBytes(x) \subseteq Address \X (0 .. SizeMax)
  BY <1>1, Numbers DEF SpanBytes
<1>3. IsFiniteSet(0 .. SizeMax) /\ IsFiniteSet(Address)
  BY FS_Interval, Numbers, AllocatorAssumption DEF AllocatorAssumption
<1>4. IsFiniteSet(Address \X (0 .. SizeMax))
  BY <1>3, FS_Product
<1>5. UNION {SpanBytes(x) : x \in R} \subseteq Address \X (0 .. SizeMax)
  BY <1>2
<1>6. QED
  BY <1>4, <1>5, FS_Subset, FS_CardinalityType

(* The invariant holds before the first call.                                *)
LEMMA InitIInv == Init => IInv
<1> SUFFICES ASSUME Init PROVE IInv
  OBVIOUS
<1>1. Types
  <2>1. memory \in [Address -> ByteStrings]
    BY EmptySeq DEF Init, ByteStrings
  <2>2. header \in [Address -> SpanHeader]
    BY Numbers DEF Init, NoHeader, SpanHeader
  <2>3. client \in [Thread -> Held]
    <3>1. <<>> \in [{} -> Block] /\ {} \in SUBSET Address
      OBVIOUS
    <3>2. <<>> \in Held
      BY <3>1 DEF Held
    <3>3. QED
      BY <3>2 DEF Init
  <2>4. th \in [Thread -> CallState]
    BY IdleIsCall DEF Init
  <2>5. cached \in Seq(Address)
    BY EmptySeq DEF Init
  <2>6. QED
    BY <2>1, <2>2, <2>3, <2>4, <2>5 DEF Init, Types
<1>2. \A t \in Thread :
        /\ th[t].pc = "idle" /\ th[t].ptr = NoAddress /\ th[t].new = NoAddress
        /\ th[t].op = "none" /\ th[t].old = NoBlockRecord /\ th[t].kept.data = <<>>
        /\ DOMAIN client[t] = {}
  BY DEF Init, Idle
<1>3. \A t \in Thread : ~HasPtr(t) /\ ~HasNew(t) /\ ~Keeping(t)
  BY <1>2 DEF HasPtr, HasNew, Keeping
<1>4. \A t \in Thread, a \in Address : ~Holds(t, a)
  BY <1>2, <1>3 DEF Holds
<1>5. ASSUME NEW t \in Thread PROVE ThreadOK(t)
  <2>1. CallShape(t) /\ Apart(t) /\ KeptOK(t) /\ OldOK(t)
    BY <1>2, <1>3 DEF CallShape, Apart, KeptOK, OldOK
  <2>2. KindOK(t) /\ NewOK(t)
    BY <1>2, <1>4 DEF KindOK, NewOK, At
  <2>3. BlocksOK(t) /\ NamesOK(t)
    BY <1>2 DEF BlocksOK, NamesOK, Init
  <2>4. QED
    BY <2>1, <2>2, <2>3 DEF ThreadOK
<1>6. DOMAIN cached = {} /\ \A a \in Address : ~InCache(a)
  BY DEF Init, InCache
<1>7. ListsOK
  BY <1>6 DEF ListsOK, Init
<1>8. CountOK
  <2>1. Range(cached) = {}
    BY <1>6 DEF Range
  <2>2. UNION {SpanBytes(a) : a \in Range(cached)} = {}
    BY <2>1
  <2>3. Cardinality({}) = 0
    BY FS_EmptySet
  <2>4. Len(cached) = 0
    BY DEF Init
  <2>5. cachedBytes = Cardinality(UNION {SpanBytes(a) : a \in Range(cached)})
    BY <2>2, <2>3 DEF Init
  <2>6. Len(cached) <= CacheSlots /\ cachedBytes <= CacheBytesLimit
    BY <2>4, Numbers DEF Init
  <2>7. QED
    BY <1>6, <2>5, <2>6 DEF CountOK, CacheIsBounded
<1>9. RecordsOK
  BY FS_EmptySet, Numbers DEF Init, RecordsOK
<1>10. OneHolder
  BY <1>4 DEF OneHolder
<1>11. QED
  BY <1>1, <1>5, <1>7, <1>8, <1>9, <1>10 DEF IInv

(* It is kept when nothing happens.                                          *)
LEMMA StutterKeeps ==
  ASSUME IInv, UNCHANGED vars
  PROVE  IInv'
<1>1. UNCHANGED <<kind, memory, header, mappings, cached, cachedBytes, records, client, th>>
  BY DEF vars
<1>2. Types' /\ RecordsOK'
  BY <1>1 DEF IInv, Types, RecordsOK
<1>3. \A t \in Thread : ThreadOK(t)'
  <2>1. SUFFICES ASSUME NEW t \in Thread PROVE ThreadOK(t)'
    OBVIOUS
  <2>2. \A a \in Address : Same(a)
    BY <1>1 DEF Same
  <2>3. records' \subseteq BlockRecord
    BY <1>2 DEF RecordsOK
  <2>4. QED
    BY <1>1, <1>2, <2>2, <2>3, FrameParts DEF IInv
<1>4. OneHolder'
  BY <1>1 DEF IInv, OneHolder, Holds, HasPtr, HasNew
<1>5. \A a \in Address : InCache(a)' <=> InCache(a)
  BY <1>1 DEF InCache
<1>6. \A a \in Address, t \in Thread : Holds(t, a)' <=> Holds(t, a)
  BY <1>1 DEF Holds, HasPtr, HasNew
<1>7. ListsOK'
  BY <1>1, <1>5, <1>6 DEF IInv, ListsOK
<1>8. CountOK'
  BY <1>1, CountKept
<1>9. QED
  BY <1>2, <1>3, <1>4, <1>7, <1>8 DEF IInv

(* Every step of the allocator and of its callers keeps the invariant.       *)
THEOREM Inductive == Spec => []IInv
<1>1. Init => IInv
  BY InitIInv
<1>2. IInv /\ [Next]_vars => IInv'
  <2>1. SUFFICES ASSUME IInv, [Next]_vars PROVE IInv'
    OBVIOUS
  <2>2. CASE UNCHANGED vars
    BY <2>1, <2>2, StutterKeeps
  <2>3. CASE Next
    <3>1. PICK t \in Thread : \/ Call(t) \/ Allocate(t) \/ Reallocate(t) \/ Finish(t)
                              \/ \E size \in Sizes : ForeignBlock(t, size)
      BY <2>3 DEF Next
    <3>2. CASE Call(t)
      BY <2>1, <3>2, MallocCallKeeps, FreeTakeKeeps, ReallocTakeKeeps DEF Call
    <3>3. CASE Allocate(t)
      BY <2>1, <3>3, LibcAllocKeeps, FailsKeeps, MissKeeps, HitKeeps, MapKeeps, InsertKeeps
      DEF Allocate
    <3>4. CASE Reallocate(t)
      BY <2>1, <3>4, ResizeKeeps, LibcReallocKeeps, FailsKeeps, CopyKeeps DEF Reallocate
    <3>5. CASE Finish(t)
      BY <2>1, <3>5, ReleaseKeeps, ReturnKeeps, AddKeeps, FailKeeps DEF Finish
    <3>6. CASE \E size \in Sizes : ForeignBlock(t, size)
      BY <2>1, <3>6, ForeignBlockKeeps
    <3>7. QED
      BY <3>1, <3>2, <3>3, <3>4, <3>5, <3>6
  <2>4. QED
    BY <2>1, <2>2, <2>3
<1>3. QED
  BY <1>1, <1>2, PTL DEF Spec

(* The bytes a thread wrote stay, in blocks as large as they were asked to    *)
(* be, through every call of every thread: ContentsKept.                     *)
THEOREM ContentsKeptCorrect == Spec => []ContentsKept
<1>1. IInv => ContentsKept
  <2>1. SUFFICES ASSUME IInv, NEW t \in Thread, NEW a \in DOMAIN client[t]
                 PROVE  /\ Len(client[t][a].data) <= Len(memory[a])
                        /\ \A i \in DOMAIN client[t][a].data :
                             client[t][a].data[i] = memory[a][i]
    BY DEF ContentsKept
  <2>2. Agrees(client[t][a].data, memory[a])
    BY <2>1 DEF IInv, ThreadOK, BlocksOK
  <2>3. DOMAIN client[t][a].data = 1 .. Len(client[t][a].data)
    BY <2>1, HeldTypes DEF IInv, ByteStrings
  <2>4. QED
    BY <2>2, <2>3 DEF Agrees
<1>2. QED
  BY <1>1, Inductive, PTL

(* A record names a block some thread holds, with its size and allocator;    *)
(* a title's block loses it only to a full table: RecordsTrue.               *)
THEOREM RecordsTrueCorrect == Spec => []RecordsTrue
<1>1. IInv => RecordsTrue
  <2>1. SUFFICES ASSUME IInv PROVE RecordsTrue
    OBVIOUS
  <2>2. \A t \in Thread : NamesOK(t)
    BY <2>1 DEF IInv, ThreadOK
  <2>3. \A r \in records : \E t \in Thread : r.pointer \in DOMAIN client[t]
    BY <2>1 DEF IInv, RecordsOK
  <2>4. ASSUME NEW r \in records
        PROVE  \E t \in Thread : /\ r.pointer \in DOMAIN client[t]
                                 /\ client[t][r.pointer].title
                                 /\ r.bytes = Len(client[t][r.pointer].data)
                                 /\ r.route = kind[r.pointer]
    <3>1. PICK t \in Thread : r.pointer \in DOMAIN client[t]
      BY <2>3
    <3>2. NamesOK(t)
      BY <2>2
    <3>3. QED
      BY <3>1, <3>2 DEF NamesOK
  <2>5. QED
    BY <2>2, <2>4 DEF RecordsTrue, NamesOK
<1>2. QED
  BY <1>1, Inductive, PTL

(* No span is lost, doubled or leaked, in the gaps of the two locked halves   *)
(* of allocate and of release too, and the cache stays within its bounds:    *)
(* SpansSafe.                                                                *)
THEOREM SpansSafeCorrect == Spec => []SpansSafe
<1>1. IInv => SpansSafe
  <2>0. SUFFICES ASSUME IInv PROVE SpansSafe
    OBVIOUS
  <2>1. Types /\ ListsOK /\ CountOK /\ RecordsOK /\ OneHolder
    BY <2>0 DEF IInv
  <2>2. Range(cached) = {a \in Address : InCache(a)}
    BY <2>1, RangeOfCache
  <2>3. TypeOK
    <3>1. cachedBytes \in 0 .. CacheBytesLimit /\ Len(cached) <= CacheSlots
      <4>1. Cardinality(UNION {SpanBytes(x) : x \in Range(cached)}) \in Nat
        BY <2>1, <2>2, CountedIsNat
      <4>2. QED
        BY <2>1, <4>1, Numbers DEF CountOK, CacheIsBounded
    <3>2. \A a \in Address : memory[a] \in Seq(Byte)
      BY <2>1 DEF Types, ByteStrings
    <3>3. header \in [Address -> [requested : 0 .. SizeMax, span : 0 .. SizeMax]]
      BY <2>1 DEF Types, SpanHeader
    <3>4. ASSUME NEW t \in Thread
          PROVE  /\ DOMAIN client[t] \subseteq Address
                 /\ \A a \in DOMAIN client[t] : client[t][a].data \in Seq(Byte)
                 /\ th[t].pc \in PC /\ th[t].ptr \in AnyAddress /\ th[t].new \in AnyAddress
                 /\ th[t].old \in OldRecord
      BY <2>1, HeldTypes, CallTypes DEF ByteStrings
    <3>5. QED
      BY <2>1, <3>1, <3>2, <3>3, <3>4 DEF TypeOK, Types, RecordsOK, PC, AnyAddress, OldRecord
  <2>4. \A t \in Thread : \A a \in DOMAIN client[t] \union Working(t) : a \in Address /\ Holds(t, a)
    <3>1. SUFFICES ASSUME NEW t \in Thread, NEW a \in DOMAIN client[t] \union Working(t)
                   PROVE  a \in Address /\ Holds(t, a)
      OBVIOUS
    <3>2. CASE a \in DOMAIN client[t]
      BY <2>1, <3>2, HeldTypes DEF Holds
    <3>3. CASE a \in Working(t)
      <4>1. a # NoAddress /\ a \in {th[t].ptr, th[t].new}
        BY <3>3 DEF Working
      <4>2. a \in Address
        BY <2>1, <4>1, CallTypes DEF AnyAddress
      <4>3. CASE a = th[t].new
        BY <4>1, <4>2, <4>3 DEF Holds, HasNew
      <4>4. CASE a = th[t].ptr /\ a # th[t].new
        <5>1. th[t].pc # "add"
          <6>1. SUFFICES ASSUME th[t].pc = "add" PROVE FALSE
            OBVIOUS
          <6>2. th[t].op = "realloc" /\ th[t].size # 0
            BY <2>0, <4>1, <4>4, <6>1 DEF IInv, ThreadOK, CallShape
          <6>3. AfterRelease(t) = "add" /\ At(t, "add")
            BY <6>1, <6>2 DEF AfterRelease, At
          <6>4. QED
            BY <3>3, <4>4, <6>3 DEF Working
        <5>2. QED
          BY <4>1, <4>2, <4>4, <5>1 DEF Holds, HasPtr
      <4>5. QED
        BY <4>1, <4>2, <4>3, <4>4
    <3>4. QED
      BY <3>2, <3>3
  <2>5. \A t \in Thread, a \in Address :
          a \in InTransit(t) <=> Moving(t, a) /\ kind[a] = "mapped"
    <3>1. \A t \in Thread : At(t, "insert") => kind[th[t].new] = "mapped"
      BY <2>0 DEF IInv, ThreadOK, KindOK
    <3>2. QED
      BY <3>1 DEF InTransit, Moving
  <2>6. \A t \in Thread, a \in Address : Moving(t, a) => Holds(t, a)
    <3>1. SUFFICES ASSUME NEW t \in Thread, NEW a \in Address, Moving(t, a) PROVE Holds(t, a)
      OBVIOUS
    <3>2. a # NoAddress
      BY AllocatorAssumption DEF AllocatorAssumption
    <3>3. QED
      BY <3>1, <3>2 DEF Moving, Holds, HasNew, HasPtr, At
  <2>7. \A t \in Thread, a \in Address : Holds(t, a) =>
          kind[a] # "free" /\ (a \in mappings <=> kind[a] = "mapped" /\ ~Moving(t, a))
    BY <2>0 DEF IInv, ThreadOK, KindOK
  <2>8. SpansAccounted
    <3>1. mappings \intersect Range(cached) = {}
      BY <2>1, <2>2 DEF ListsOK
    <3>2. ASSUME NEW t \in Thread PROVE InTransit(t) \intersect (mappings \union Range(cached)) = {}
      <4>1. SUFFICES ASSUME NEW a \in InTransit(t), a \in mappings \union Range(cached) PROVE FALSE
        OBVIOUS
      <4>2. a \in Address
        BY DEF InTransit
      <4>3. Moving(t, a) /\ Holds(t, a)
        BY <2>5, <2>6, <4>2
      <4>4. a \notin mappings
        BY <2>7, <4>2, <4>3
      <4>5. ~InCache(a)
        BY <2>1, <4>2, <4>3 DEF ListsOK
      <4>6. QED
        BY <2>2, <4>1, <4>4, <4>5
    <3>3. ASSUME NEW s \in Thread, NEW t \in Thread, s # t
          PROVE  (DOMAIN client[s] \union Working(s)) \intersect
                 (DOMAIN client[t] \union Working(t)) = {}
      BY <2>1, <2>4, <3>3 DEF OneHolder
    <3>4. \A a \in Address : kind[a] = "mapped" <=>
            a \in mappings \/ InCache(a) \/ \E t \in Thread : a \in InTransit(t)
      <4>1. SUFFICES ASSUME NEW a \in Address
                     PROVE  kind[a] = "mapped" <=>
                              a \in mappings \/ InCache(a) \/ \E t \in Thread : a \in InTransit(t)
        OBVIOUS
      <4>2. ASSUME kind[a] = "mapped", a \notin mappings, ~InCache(a)
            PROVE  \E t \in Thread : a \in InTransit(t)
        <5>1. PICK t \in Thread : Holds(t, a)
          BY <2>1, <4>2 DEF ListsOK
        <5>2. Moving(t, a)
          BY <2>7, <4>2, <5>1
        <5>3. QED
          BY <2>5, <4>2, <5>2
      <4>3. a \in mappings \/ InCache(a) => kind[a] = "mapped"
        BY <2>1 DEF ListsOK
      <4>4. (\E t \in Thread : a \in InTransit(t)) => kind[a] = "mapped"
        BY <2>5
      <4>5. QED
        BY <4>2, <4>3, <4>4
    <3>5. mappings \subseteq Address /\ \A t \in Thread : InTransit(t) \subseteq Address
      BY <2>1 DEF Types, InTransit
    <3>6. {a \in Address : kind[a] = "mapped"} =
            mappings \union Range(cached) \union UNION {InTransit(t) : t \in Thread}
      BY <2>2, <3>4, <3>5
    <3>7. QED
      BY <2>1, <3>1, <3>2, <3>3, <3>6 DEF SpansAccounted, ListsOK
  <2>9. NoLeak
    <3>1. SUFFICES ASSUME \A t \in Thread : At(t, "idle"), NEW a \in Address, kind[a] # "free"
                   PROVE  a \in Range(cached) \union UNION {DOMAIN client[t] : t \in Thread}
      BY DEF NoLeak
    <3>2. CASE InCache(a)
      BY <2>2, <3>2
    <3>3. CASE ~InCache(a)
      <4>1. PICK t \in Thread : Holds(t, a)
        BY <2>1, <3>1, <3>3 DEF ListsOK
      <4>2. ~HasPtr(t) /\ ~HasNew(t)
        BY <2>0, <3>1 DEF IInv, ThreadOK, CallShape, HasPtr, HasNew, At
      <4>3. QED
        BY <4>1, <4>2 DEF Holds
    <3>4. QED
      BY <3>2, <3>3
  <2>10. QED
    BY <2>1, <2>3, <2>8, <2>9 DEF SpansSafe, CountOK
<1>2. QED
  BY <1>1, Inductive, PTL
=============================================================================
