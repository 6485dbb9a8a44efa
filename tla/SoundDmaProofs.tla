---------------------------- MODULE SoundDmaProofs ----------------------------
(***************************************************************************)
(* Safety of the engine's sound path for every size of the DMA ring and of  *)
(* the device block: what each step of the two threads keeps of the         *)
(* resources, of the mutex and of the block, and from that the invariants   *)
(* that SoundDma.cfg checks on a small ring.                                *)
(***************************************************************************)
EXTENDS SoundDma, SequenceTheorems, TLAPS

(* The resources the first k acquisitions leave.                             *)
Upto(k) == {Acquired[i] : i \in 1 .. k}

(* What each step of the engine's calls leaves of the resources.             *)
HeldByStep ==
  /\ engine = "idle" => AllOrNothing
  /\ engine = "opening" => ~audio /\ \E k \in 0 .. 6 : held = Upto(k)
  /\ engine = "opened" => held = Resource /\ ~audio /\ shm
  /\ engine \in {"locking", "mixing", "stop", "stopWaiting", "drain", "drainFailed", "join"} =>
       held = Resource /\ audio /\ shm
  /\ engine = "lastDrain" => held = Resource \ {"thread"} /\ audio /\ shm
  /\ engine = "freeing" => held = {"buffer"} /\ ~audio /\ shm

(* The worker is there as long as its thread is.                             *)
WorkerLives == worker # "none" <=> "thread" \in held

(* Whose steps are taken with the mutex, and who may be woken.               *)
MutexByStep ==
  /\ mutex = "worker" <=> worker \in {"loop", "woken", "painting"}
  /\ mutex = "engine" <=> engine \in {"mixing", "stop"}
  /\ "worker" \in waiting => worker = "asleep"
  /\ "engine" \in waiting => engine = "stopWaiting"

(* The block so far is consecutive from its start, the cursor behind it.     *)
BlockSoFar ==
  worker \in {"painting", "output"} =>
    /\ \A i \in 1 .. Len(block) : block[i] = (start + i - 1) % Samples
    /\ samplepos = (start + Len(block)) % Samples
    /\ worker = "output" => Len(block) = BlockSize

MixesFromCursor == engine = "mixing" => pos = samplepos
PaintsActive == worker = "painting" => active

IInv == /\ TypeOK /\ HeldByStep /\ WorkerLives /\ MutexByStep /\ BlockSoFar
        /\ MixesFromCursor /\ PaintsActive
-----------------------------------------------------------------------------
(* Arithmetic of the cursor. *)
LEMMA Remainder ==
  ASSUME NEW n \in Nat \ {0}, NEW q \in Nat, NEW r \in 0 .. n - 1
  PROVE  (n * q + r) % n = r
OBVIOUS

(* A number is a multiple and a remainder.                                   *)
LEMMA Division ==
  ASSUME NEW n \in Nat \ {0}, NEW a \in Nat
  PROVE  \E q \in Nat, r \in 0 .. n - 1 : a = n * q + r /\ a % n = r
<1>1. a = n * (a \div n) + (a % n) /\ a \div n \in Nat /\ a % n \in 0 .. n - 1
  OBVIOUS
<1>2. QED
  BY <1>1

(* A cursor that goes no further than the end of the ring wraps there alone. *)
LEMMA ModAdd ==
  ASSUME NEW n \in Nat \ {0}, NEW a \in Nat, NEW k \in Nat, (a % n) + k <= n
  PROVE  (a + k) % n = IF (a % n) + k = n THEN 0 ELSE (a % n) + k
<1>1. PICK q \in Nat, r \in 0 .. n - 1 : a = n * q + r /\ a % n = r
  BY Division
<1>2. CASE r + k < n
  <2>1. a + k = n * q + (r + k) /\ r + k \in 0 .. n - 1
    BY <1>1, <1>2
  <2>2. QED
    BY <1>1, <1>2, <2>1, Remainder
<1>3. CASE r + k = n
  <2>1. a + k = n * (q + 1) + 0
    BY <1>1, <1>3
  <2>2. (n * (q + 1) + 0) % n = 0
    BY Remainder
  <2>3. QED
    BY <1>1, <1>3, <2>1, <2>2
<1>4. QED
  BY <1>1, <1>2, <1>3

-----------------------------------------------------------------------------
(* The acquisitions go in order, and a failed one takes back all before it.  *)
LEMMA AcquiredIs ==
  /\ DOMAIN Acquired = 1 .. 7
  /\ \A i, j \in 1 .. 7 : Acquired[i] = Acquired[j] => i = j
  /\ \A i \in 1 .. 7 : Acquired[i] = "thread" <=> i = 7
BY DEF Acquired

(* Nothing is acquired at first, everything at last.                         *)
LEMMA UptoIs == Upto(0) = {} /\ Upto(7) = Resource
BY AcquiredIs DEF Upto, Resource

(* The next resource extends what is held by one.                            *)
LEMMA NextIs ==
  ASSUME NEW k \in 0 .. 6, held = Upto(k)
  PROVE  NextResource = Acquired[k + 1] /\ held \union {NextResource} = Upto(k + 1)
<1> DEFINE Missing(i) == Acquired[i] \notin held /\ \A j \in 1 .. i - 1 : Acquired[j] \in held
<1>1. \A i \in 1 .. 7 : Acquired[i] \in held <=> i \in 1 .. k
  BY AcquiredIs DEF Upto
<1>2. Missing(k + 1)
  BY <1>1
<1>3. \A i \in DOMAIN Acquired : Missing(i) => i = k + 1
  <2>1. SUFFICES ASSUME NEW i \in 1 .. 7, Missing(i) PROVE i = k + 1
    BY AcquiredIs
  <2>2. ~(i <= k)
    BY <1>1, <2>1
  <2>3. ~(k + 1 <= i - 1)
    BY <1>1, <2>1
  <2>4. QED
    BY <2>2, <2>3
<1>4. (CHOOSE i \in DOMAIN Acquired : Missing(i)) = k + 1
  <2> HIDE DEF Missing
  <2>1. QED
    BY <1>2, <1>3, AcquiredIs
<1>5. NextResource = Acquired[k + 1]
  BY <1>4 DEF NextResource
<1>6. QED
  BY <1>5 DEF Upto

(* A failure releases all that was acquired before.                          *)
LEMMA UnwindsAll ==
  ASSUME NEW k \in 0 .. 6, held = Upto(k)
  PROVE  held \ Unwound(NextResource) = {}
<1>1. NextResource = Acquired[k + 1]
  BY NextIs
<1>2. k \in {0, 1, 2, 3, 4, 5, 6}
  OBVIOUS
<1>3. \A r \in held : \E i \in 1 .. 7 : i <= k /\ r = Acquired[i]
  BY DEF Upto
<1>4. QED
  BY <1>1, <1>2, <1>3 DEF Unwound, Acquired

-----------------------------------------------------------------------------
USE SoundAssumption DEF SoundAssumption

(* One round of the copy: the samples it adds and where it leaves the cursor. *)
LEMMA CopyIs ==
  ASSUME TypeOK, PaintCopy
  PROVE  /\ Run \in 1 .. BlockSize - Len(block) /\ samplepos + Run <= Samples
         /\ block' \in Seq(0 .. Samples - 1) /\ Len(block') = Len(block) + Run
         /\ \A i \in 1 .. Len(block) : block'[i] = block[i]
         /\ \A i \in Len(block) + 1 .. Len(block) + Run : block'[i] = samplepos + (i - Len(block)) - 1
         /\ samplepos' = IF samplepos + Run = Samples THEN 0 ELSE samplepos + Run
<1>1. /\ Len(block) \in Nat /\ Len(block) < BlockSize /\ samplepos \in 0 .. Samples - 1
      /\ block \in Seq(0 .. Samples - 1)
  BY DEF TypeOK, PaintCopy
<1>2. Run \in 1 .. BlockSize - Len(block) /\ samplepos + Run <= Samples
  BY <1>1 DEF Run
<1> DEFINE more == [i \in 1 .. Run |-> samplepos + i - 1]
<1>3. /\ more \in Seq(0 .. Samples - 1) /\ Len(more) = Run
      /\ \A i \in 1 .. Run : more[i] = samplepos + i - 1
  <2> HIDE DEF Run
  <2>1. \A i \in 1 .. Run : samplepos + i - 1 \in 0 .. Samples - 1
    BY <1>1, <1>2
  <2>2. QED
    BY <1>2, <2>1
<1>4. block' = block \o more
  BY DEF PaintCopy
<1>5. samplepos' = IF samplepos + Run = Samples THEN 0 ELSE samplepos + Run
  <2>1. samplepos % Samples = samplepos
    BY <1>1
  <2>2. samplepos' = (samplepos + Run) % Samples
    BY DEF PaintCopy
  <2> HIDE DEF Run
  <2>3. samplepos \in Nat /\ Run \in Nat /\ (samplepos % Samples) + Run <= Samples
    BY <1>1, <1>2, <2>1
  <2>4. (samplepos + Run) % Samples = IF (samplepos % Samples) + Run = Samples THEN 0
                                      ELSE (samplepos % Samples) + Run
    BY <2>3, ModAdd, ZenonT(30)
  <2>5. QED
    BY <2>1, <2>2, <2>4
<1> HIDE DEF more, Run
<1>6. block' \in Seq(0 .. Samples - 1) /\ Len(block') = Len(block) + Run
  BY <1>1, <1>3, <1>4, ConcatProperties, Zenon
<1>both. \A i \in 1 .. Len(block) + Len(more) :
          block'[i] = IF i <= Len(block) THEN block[i] ELSE more[i - Len(block)]
  BY <1>1, <1>3, <1>4, ConcatProperties, Zenon
<1>7. \A i \in 1 .. Len(block) : block'[i] = block[i]
  <2>1. \A i \in 1 .. Len(block) : i \in 1 .. Len(block) + Len(more) /\ i <= Len(block)
    BY <1>1, <1>2, <1>3
  <2>2. QED
    BY <2>1, <1>both
<1>8. \A i \in Len(block) + 1 .. Len(block) + Run : block'[i] = samplepos + (i - Len(block)) - 1
  <2>1. SUFFICES ASSUME NEW i \in Len(block) + 1 .. Len(block) + Run
                 PROVE  block'[i] = samplepos + (i - Len(block)) - 1
    OBVIOUS
  <2>2. block'[i] = more[i - Len(block)] /\ i - Len(block) \in 1 .. Run
    BY <1>1, <1>2, <1>3, <1>both
  <2>3. QED
    BY <1>3, <2>2
<1>9. QED
  BY <1>2, <1>5, <1>6, <1>7, <1>8

(* A copy keeps the block and the cursor in their ranges.                    *)
LEMMA CopyTypes ==
  ASSUME TypeOK, PaintCopy
  PROVE  block' \in Seq(0 .. Samples - 1) /\ Len(block') <= BlockSize /\ samplepos' \in 0 .. Samples - 1
<1>1. /\ Len(block) \in Nat /\ Len(block) < BlockSize /\ samplepos \in 0 .. Samples - 1
  BY DEF TypeOK, PaintCopy
<1>2. /\ Run \in 1 .. BlockSize - Len(block) /\ samplepos + Run <= Samples
      /\ block' \in Seq(0 .. Samples - 1) /\ Len(block') = Len(block) + Run
      /\ samplepos' = IF samplepos + Run = Samples THEN 0 ELSE samplepos + Run
  BY CopyIs
<1>3. QED
  BY <1>1, <1>2, SoundAssumption DEF SoundAssumption

(* Every variable keeps its type. *)
LEMMA TypeStep == IInv /\ [Next]_vars => TypeOK'
<1> SUFFICES ASSUME IInv, [Next]_vars PROVE TypeOK'
  OBVIOUS
<1> USE DEF IInv, ptrs, lock, fields, paint, Lock, Unlock, Broadcast, CondWait, NoThread, TypeOK
<1>1. CASE InitBegin
  BY <1>1 DEF InitBegin
<1>2. CASE InitAcquire
  <2>1. PICK k \in 0 .. 6 : held = Upto(k) /\ NextResource = Acquired[k + 1]
    BY <1>2, NextIs DEF InitAcquire, HeldByStep
  <2>2. NextResource \in Resource
    BY <2>1, AcquiredIs DEF Resource
  <2>3. held' \subseteq Resource
    BY <1>2, <2>2 DEF InitAcquire
  <2> HIDE DEF NextResource, Resource
  <2>4. QED
    BY <1>2, <2>3 DEF InitAcquire
<1>3. CASE InitFail
  BY <1>3, ZenonT(30) DEF InitFail
<1>4. CASE InitDone
  BY <1>4 DEF InitDone
<1>5. CASE WorkerLock \/ WorkerExit \/ WorkerSleep
  <2>1. CASE WorkerLock
    BY <2>1 DEF WorkerLock
  <2>2. CASE WorkerExit
    BY <2>2 DEF WorkerExit
  <2>3. CASE WorkerSleep
    BY <2>3 DEF WorkerSleep
  <2>4. QED
    BY <1>5, <2>1, <2>2, <2>3
<1>6. CASE PaintBegin
  BY <1>6 DEF PaintBegin
<1>7. CASE PaintCopy
  <2> HIDE DEF TypeOK
  <2>1. block' \in Seq(0 .. Samples - 1) /\ Len(block') <= BlockSize /\ samplepos' \in 0 .. Samples - 1
    BY <1>7, CopyTypes
  <2>2. worker' = "painting" /\ UNCHANGED <<ptrs, lock, fields, start, engine, pos>>
    BY <1>7 DEF PaintCopy
  <2>3. TypeOK
    OBVIOUS
  <2> HIDE DEF IInv
  <2>4. QED
    BY <2>1, <2>2, <2>3 DEF TypeOK
<1>8. CASE WorkerOutput
  BY <1>8 DEF WorkerOutput
<1>9. CASE \E ok \in BOOLEAN : WorkerReturn(ok)
  BY <1>9 DEF WorkerReturn
<1>10. CASE MixCall \/ MixStep
  <2>1. CASE MixCall
    BY <2>1 DEF MixCall
  <2>2. CASE MixLock
    BY <2>2 DEF MixLock
  <2>3. CASE Submit
    BY <2>3 DEF Submit
  <2>4. QED
    BY <1>10, <2>1, <2>2, <2>3 DEF MixStep
<1>11. CASE BlockBegin \/ Unblock \/ BlockStep
  <2>1. CASE BlockBegin
    BY <2>1 DEF BlockBegin
  <2>2. CASE Unblock
    <3>1. active' \in BOOLEAN
      BY <2>2, Zenon DEF Unblock
    <3>2. QED
      BY <2>2, <3>1 DEF Unblock
  <2>3. CASE BlockWait
    BY <2>3 DEF BlockWait
  <2>4. CASE BlockLock
    BY <2>4 DEF BlockLock
  <2>5. CASE BlockQuiet
    BY <2>5 DEF BlockQuiet
  <2>6. CASE \E ok \in BOOLEAN : BlockDrained(ok)
    BY <2>6 DEF BlockDrained
  <2>7. CASE BlockFailed
    BY <2>7 DEF BlockFailed
  <2>8. QED
    BY <1>11, <2>1, <2>2, <2>3, <2>4, <2>5, <2>6, <2>7 DEF BlockStep
<1>12. CASE CloseBegin \/ CloseStep
  <2>1. CASE CloseBegin
    BY <2>1 DEF CloseBegin
  <2>2. CASE CloseStep
    <3>1. "buffer" \in Resource
      BY DEF Resource, Acquired
    <3> HIDE DEF Resource
    <3>2. CASE CloseJoin
      BY <3>2 DEF CloseJoin
    <3>3. CASE CloseDevice
      BY <3>1, <3>3, ZenonT(30) DEF CloseDevice
    <3>4. CASE FreeBuffer
      BY <3>4, ZenonT(30) DEF FreeBuffer
    <3>5. QED
      BY <2>2, <3>2, <3>3, <3>4 DEF CloseStep
  <2>3. QED
    BY <1>12, <2>1, <2>2
<1>13. CASE \E t \in {"worker", "engine"} : SpuriousWake(t)
  BY <1>13 DEF SpuriousWake
<1>14. CASE UNCHANGED vars
  BY <1>14 DEF vars
<1>15. QED
  BY <1>1, <1>2, <1>3, <1>4, <1>5, <1>6, <1>7, <1>8, <1>9, <1>10, <1>11, <1>12, <1>13, <1>14
  DEF Next, WorkerStep, WorkerRuns, EngineStep, EngineCall

(* The resources go with the step the engine's call is at. *)
LEMMA HeldStep == IInv /\ [Next]_vars => (HeldByStep /\ WorkerLives)'
<1> SUFFICES ASSUME IInv, [Next]_vars PROVE (HeldByStep /\ WorkerLives)'
  OBVIOUS
<1> USE DEF IInv, ptrs, lock, fields, paint, Lock, Unlock, Broadcast, CondWait, NoThread, TypeOK, HeldByStep, WorkerLives, AllOrNothing
<1>0. Resource # {} /\ "thread" \in Resource /\ "buffer" \in Resource
  BY DEF Resource, Acquired
<1> HIDE DEF Resource
<1>1. CASE InitBegin
  <2>1. held = Upto(0)
    BY <1>1, UptoIs DEF InitBegin
  <2>2. QED
    BY <1>1, <2>1 DEF InitBegin
<1>2. CASE InitAcquire
  <2>1. PICK k \in 0 .. 6 : held = Upto(k) /\ NextResource = Acquired[k + 1]
    BY <1>2, NextIs DEF InitAcquire, HeldByStep
  <2>2. held' = Upto(k + 1) /\ NextResource \in Resource /\ (NextResource = "thread" <=> k = 6)
    BY <1>2, <2>1, NextIs, AcquiredIs DEF InitAcquire, Resource
  <2>3. "thread" \in Upto(k + 1) <=> k = 6
    BY AcquiredIs DEF Upto
  <2>4. k = 6 => Upto(k + 1) = Resource
    BY UptoIs
  <2>5. "thread" \notin held
    BY <2>1, AcquiredIs DEF Upto
  <2> HIDE DEF NextResource, Resource
  <2>6. QED
    BY <1>2, <2>1, <2>2, <2>3, <2>4, <2>5 DEF InitAcquire
<1>3. CASE InitFail
  <2>1. PICK k \in 0 .. 6 : held = Upto(k)
    BY <1>3 DEF InitFail
  <2>2. held' = {}
    BY <1>3, <2>1, UnwindsAll DEF InitFail
  <2>3. "thread" \notin held
    BY <2>1, AcquiredIs DEF Upto
  <2>4. QED
    BY <1>3, <2>2, <2>3 DEF InitFail
<1>4. CASE InitDone
  BY <1>0, <1>4 DEF InitDone
<1>5. CASE WorkerLock \/ WorkerExit \/ WorkerSleep
  BY <1>5 DEF WorkerLock, WorkerExit, WorkerSleep
<1>6. CASE PaintBegin
  BY <1>6 DEF PaintBegin
<1>7. CASE PaintCopy
  BY <1>7 DEF PaintCopy
<1>8. CASE WorkerOutput
  BY <1>8 DEF WorkerOutput
<1>9. CASE \E ok \in BOOLEAN : WorkerReturn(ok)
  BY <1>9 DEF WorkerReturn
<1>10. CASE MixCall \/ MixStep
  BY <1>0, <1>10 DEF MixCall, MixStep, MixLock, Submit
<1>11. CASE BlockBegin \/ Unblock \/ BlockStep
  BY <1>0, <1>11 DEF BlockBegin, Unblock, BlockStep, BlockWait, BlockLock, BlockQuiet, BlockDrained, BlockFailed
<1>12. CASE CloseBegin \/ CloseStep
  BY <1>0, <1>12 DEF CloseBegin, CloseStep, CloseJoin, CloseDevice, FreeBuffer
<1>13. CASE \E t \in {"worker", "engine"} : SpuriousWake(t)
  BY <1>13 DEF SpuriousWake
<1>14. CASE UNCHANGED vars
  BY <1>14 DEF vars
<1>15. QED
  BY <1>1, <1>2, <1>3, <1>4, <1>5, <1>6, <1>7, <1>8, <1>9, <1>10, <1>11, <1>12, <1>13, <1>14
  DEF Next, WorkerStep, WorkerRuns, EngineStep, EngineCall

(* The mutex and the condition go with the steps of both threads. *)
LEMMA MutexStep == IInv /\ [Next]_vars => MutexByStep'
<1> SUFFICES ASSUME IInv, [Next]_vars PROVE MutexByStep'
  OBVIOUS
<1> USE DEF IInv, ptrs, lock, fields, paint, Lock, Unlock, Broadcast, CondWait, NoThread, TypeOK, MutexByStep
<1>1. CASE InitBegin
  BY <1>1 DEF InitBegin
<1>2. CASE InitAcquire
  <2>1. worker = "none"
    BY <1>2, AcquiredIs DEF InitAcquire, HeldByStep, WorkerLives, Upto
  <2>2. QED
    BY <1>2, <2>1 DEF InitAcquire
<1>3. CASE InitFail
  BY <1>3 DEF InitFail
<1>4. CASE InitDone
  BY <1>4 DEF InitDone
<1>5. CASE WorkerLock \/ WorkerExit \/ WorkerSleep
  BY <1>5 DEF WorkerLock, WorkerExit, WorkerSleep
<1>6. CASE PaintBegin
  BY <1>6 DEF PaintBegin
<1>7. CASE PaintCopy
  BY <1>7 DEF PaintCopy
<1>8. CASE WorkerOutput
  BY <1>8 DEF WorkerOutput
<1>9. CASE \E ok \in BOOLEAN : WorkerReturn(ok)
  BY <1>9 DEF WorkerReturn
<1>10. CASE MixCall \/ MixStep
  BY <1>10 DEF MixCall, MixStep, MixLock, Submit
<1>11. CASE BlockBegin \/ Unblock \/ BlockStep
  BY <1>11 DEF BlockBegin, Unblock, BlockStep, BlockWait, BlockLock, BlockQuiet, BlockDrained, BlockFailed
<1>12. CASE CloseBegin \/ CloseStep
  BY <1>12 DEF CloseBegin, CloseStep, CloseJoin, CloseDevice, FreeBuffer
<1>13. CASE \E t \in {"worker", "engine"} : SpuriousWake(t)
  BY <1>13 DEF SpuriousWake
<1>14. CASE UNCHANGED vars
  BY <1>14 DEF vars
<1>15. QED
  BY <1>1, <1>2, <1>3, <1>4, <1>5, <1>6, <1>7, <1>8, <1>9, <1>10, <1>11, <1>12, <1>13, <1>14
  DEF Next, WorkerStep, WorkerRuns, EngineStep, EngineCall

(* A block goes on where it stopped, across the end of the ring. *)
LEMMA BlockStepKeeps == IInv /\ [Next]_vars => BlockSoFar'
<1> SUFFICES ASSUME IInv, [Next]_vars PROVE BlockSoFar'
  OBVIOUS
<1> USE DEF IInv, ptrs, lock, fields, paint, BlockSoFar
<1>1. CASE InitBegin
  <2>1. worker = "none"
    BY <1>1 DEF InitBegin, HeldByStep, AllOrNothing, WorkerLives
  <2>2. QED
    BY <1>1, <2>1 DEF InitBegin
<1>2. CASE InitAcquire \/ InitFail \/ InitDone
  BY <1>2 DEF InitAcquire, InitFail, InitDone
<1>3. CASE WorkerLock \/ WorkerExit \/ WorkerSleep
  BY <1>3 DEF WorkerLock, WorkerExit, WorkerSleep
<1>4. CASE PaintBegin
  <2>1. block' = <<>> /\ start' = samplepos /\ samplepos' = samplepos /\ worker' = "painting"
    BY <1>4 DEF PaintBegin
  <2>2. samplepos % Samples = samplepos /\ samplepos \in Nat
    BY DEF TypeOK
  <2>3. QED
    BY <2>1, <2>2
<1>5. CASE PaintCopy
  <2> HIDE DEF Run
  <2>1. /\ Len(block) \in Nat /\ start \in Nat /\ samplepos \in Nat /\ Run \in Nat /\ Run > 0
        /\ samplepos = (start + Len(block)) % Samples
    <3>1. Len(block) \in Nat /\ start \in Nat /\ samplepos \in Nat
      BY DEF TypeOK
    <3>2. Run \in 1 .. BlockSize - Len(block)
      BY <1>5, CopyIs
    <3>3. samplepos = (start + Len(block)) % Samples
      BY <1>5 DEF PaintCopy
    <3>4. QED
      BY <3>1, <3>2, <3>3
  <2>2. Len(block') = Len(block) + Run /\ start' = start /\ worker' = "painting"
    BY <1>5, CopyIs DEF PaintCopy
  <2>3. samplepos' = (start' + Len(block')) % Samples
    <3>1. start + Len(block) \in Nat /\ ((start + Len(block)) % Samples) + Run <= Samples
      BY <1>5, <2>1, CopyIs
    <3>2. ((start + Len(block)) + Run) % Samples
            = IF ((start + Len(block)) % Samples) + Run = Samples THEN 0
              ELSE ((start + Len(block)) % Samples) + Run
      <4>1. \A a, k \in Nat : (a % Samples) + k <= Samples =>
              (a + k) % Samples = IF (a % Samples) + k = Samples THEN 0 ELSE (a % Samples) + k
        BY ModAdd
      <4>2. QED
        BY <2>1, <3>1, <4>1, Zenon
    <3>3. (start + Len(block)) + Run = start' + Len(block')
      BY <2>1, <2>2
    <3>4. samplepos' = IF samplepos + Run = Samples THEN 0 ELSE samplepos + Run
      BY <1>5, CopyIs
    <3>5. QED
      BY <2>1, <3>2, <3>3, <3>4, Zenon
  <2>4. ASSUME NEW i \in 1 .. Len(block')
        PROVE  block'[i] = (start' + i - 1) % Samples
    <3>1. CASE i <= Len(block)
      <4>1. i \in 1 .. Len(block)
        BY <2>1, <3>1
      <4>2. QED
        BY <1>5, <2>2, <4>1, CopyIs DEF PaintCopy
    <3>2. CASE ~(i <= Len(block))
      <4> DEFINE k == i - Len(block) - 1
      <4>1. k \in Nat /\ k < Run /\ i \in Len(block) + 1 .. Len(block) + Run
        BY <2>1, <2>2, <3>2
      <4>2. block'[i] = samplepos + k
        <5>1. block'[i] = samplepos + (i - Len(block)) - 1
          BY <1>5, <4>1, CopyIs
        <5>2. QED
          BY <2>1, <5>1
      <4>3. samplepos + k < Samples
        <5>1. samplepos + Run <= Samples
          BY <1>5, CopyIs
        <5>2. QED
          BY <2>1, <4>1, <5>1, SMTT(30)
      <4>4. start' + i - 1 = (start + Len(block)) + k
        BY <2>1, <2>2
      <4> HIDE DEF k
      <4>5. start + Len(block) \in Nat /\ ((start + Len(block)) % Samples) + k <= Samples
        BY <2>1, <4>1, <4>3
      <4>6. ((start + Len(block)) + k) % Samples
              = IF ((start + Len(block)) % Samples) + k = Samples THEN 0
                ELSE ((start + Len(block)) % Samples) + k
        BY <4>1, <4>5, ModAdd, Zenon
      <4>7. samplepos + k # Samples
        BY <2>1, <4>1, <4>3
      <4>8. QED
        BY <2>1, <4>2, <4>4, <4>6, <4>7, Zenon
    <3>3. QED
      BY <3>1, <3>2
  <2>5. QED
    BY <2>2, <2>3, <2>4
<1>6. CASE WorkerOutput
  BY <1>6 DEF WorkerOutput
<1>7. CASE \E ok \in BOOLEAN : WorkerReturn(ok)
  BY <1>7 DEF WorkerReturn
<1>8. CASE MixCall \/ MixStep
  BY <1>8 DEF MixCall, MixStep, MixLock, Submit
<1>9. CASE BlockBegin \/ Unblock \/ BlockStep
  BY <1>9 DEF BlockBegin, Unblock, BlockStep, BlockWait, BlockLock, BlockQuiet, BlockDrained, BlockFailed
<1>10. CASE CloseBegin \/ CloseStep
  BY <1>10 DEF CloseBegin, CloseStep, CloseJoin, CloseDevice, FreeBuffer
<1>11. CASE \E t \in {"worker", "engine"} : SpuriousWake(t)
  BY <1>11 DEF SpuriousWake
<1>12. CASE UNCHANGED vars
  BY <1>12 DEF vars
<1>13. QED
  BY <1>1, <1>2, <1>3, <1>4, <1>5, <1>6, <1>7, <1>8, <1>9, <1>10, <1>11, <1>12
  DEF Next, WorkerStep, WorkerRuns, EngineStep, EngineCall

(* While the engine mixes nothing moves the cursor, and no block is painted while *)
(* sound is blocked. *)
LEMMA CursorStep == IInv /\ [Next]_vars => (MixesFromCursor /\ PaintsActive)'
<1> SUFFICES ASSUME IInv, [Next]_vars PROVE (MixesFromCursor /\ PaintsActive)'
  OBVIOUS
<1> USE DEF IInv, ptrs, lock, fields, paint, MixesFromCursor, PaintsActive, MutexByStep, Lock, Unlock
<1>1. CASE InitBegin
  BY <1>1 DEF InitBegin
<1>2. CASE InitAcquire \/ InitFail \/ InitDone
  <2>1. InitAcquire => worker = "none"
    BY AcquiredIs DEF InitAcquire, HeldByStep, WorkerLives, Upto
  <2>2. QED
    BY <1>2, <2>1 DEF InitAcquire, InitFail, InitDone
<1>3. CASE WorkerLock \/ WorkerExit \/ WorkerSleep
  BY <1>3 DEF WorkerLock, WorkerExit, WorkerSleep
<1>4. CASE PaintBegin
  BY <1>4 DEF PaintBegin
<1>5. CASE PaintCopy
  BY <1>5 DEF PaintCopy
<1>6. CASE WorkerOutput
  BY <1>6 DEF WorkerOutput
<1>7. CASE \E ok \in BOOLEAN : WorkerReturn(ok)
  BY <1>7 DEF WorkerReturn
<1>8. CASE MixCall \/ MixStep
  BY <1>8 DEF MixCall, MixStep, MixLock, Submit
<1>9. CASE BlockBegin \/ Unblock \/ BlockStep
  <2>1. CASE Unblock
    <3>1. active => active'
      BY <2>1, Zenon DEF Unblock
    <3>2. QED
      BY <2>1, <3>1 DEF Unblock
  <2>2. CASE BlockBegin
    BY <2>2 DEF BlockBegin, NoThread
  <2>3. CASE BlockStep
    BY <2>3 DEF BlockStep, BlockWait, BlockLock, BlockQuiet, BlockDrained, BlockFailed
  <2>4. QED
    BY <1>9, <2>1, <2>2, <2>3
<1>10. CASE CloseBegin \/ CloseStep
  BY <1>10 DEF CloseBegin, CloseStep, CloseJoin, CloseDevice, FreeBuffer
<1>11. CASE \E t \in {"worker", "engine"} : SpuriousWake(t)
  BY <1>11 DEF SpuriousWake
<1>12. CASE UNCHANGED vars
  BY <1>12 DEF vars
<1>13. QED
  BY <1>1, <1>2, <1>3, <1>4, <1>5, <1>6, <1>7, <1>8, <1>9, <1>10, <1>11, <1>12
  DEF Next, WorkerStep, WorkerRuns, EngineStep, EngineCall

(* The inductive invariant holds in every behaviour.                         *)
THEOREM Inductive == Spec => []IInv
<1>1. Init => IInv
  <2> SUFFICES ASSUME Init PROVE IInv
    OBVIOUS
  <2>1. <<>> \in Seq(0 .. Samples - 1) /\ Len(<<>>) = 0
    OBVIOUS
  <2>2. active \in BOOLEAN /\ audio \in BOOLEAN /\ shm \in BOOLEAN /\ shutdown \in BOOLEAN
        /\ failed \in BOOLEAN /\ inOutput \in BOOLEAN
    BY Zenon DEF Init
  <2>3. TypeOK
    BY <2>1, <2>2 DEF Init, TypeOK, NoThread
  <2>4. QED
    BY <2>3 DEF Init, IInv, HeldByStep, AllOrNothing, WorkerLives, MutexByStep, BlockSoFar,
                MixesFromCursor, PaintsActive, NoThread
<1>2. IInv /\ [Next]_vars => IInv'
  BY TypeStep, HeldStep, MutexStep, BlockStepKeeps, CursorStep DEF IInv
<1>3. QED
  BY <1>1, <1>2, PTL DEF Spec

(* Outside its calls sound has every resource or none, whichever step of      *)
(* SNDDMA_Init failed, and the worker uses no resource that is not there.      *)
THEOREM ResourcesCorrect == Spec => []ResourcesSafe
<1>1. IInv => ResourcesSafe
  <2> SUFFICES ASSUME IInv PROVE ResourcesSafe
    OBVIOUS
  <2>1. AllOrNothing
    BY DEF IInv, HeldByStep, AllOrNothing
  <2>2. worker # "none" => held = Resource
    <3>1. "thread" \in held => engine \notin {"opening", "lastDrain", "freeing"}
      BY AcquiredIs DEF IInv, HeldByStep, Upto
    <3>2. QED
      BY <3>1 DEF IInv, TypeOK, HeldByStep, AllOrNothing, WorkerLives
  <2>3. {"buffer", "device", "port", "mutex", "cond"} \subseteq Resource
    BY DEF Resource, Acquired
  <2>4. QED
    BY <2>1, <2>2, <2>3 DEF IInv, ResourcesSafe, UsesWhatExists
<1>2. QED
  BY <1>1, Inductive, PTL

(* The engine mixes alone, and from the cursor of the device.                 *)
THEOREM MixIsExclusiveCorrect == Spec => []MixIsExclusive
<1>1. IInv => MixIsExclusive
  BY DEF IInv, MutexByStep, MixesFromCursor, MixIsExclusive
<1>2. QED
  BY <1>1, Inductive, PTL

(* A block is BlockSize consecutive samples, however often the ring wraps      *)
(* inside it.                                                                 *)
THEOREM BlockIsConsecutiveCorrect == Spec => []BlockIsConsecutive
<1>1. IInv => BlockIsConsecutive
  BY DEF IInv, BlockSoFar, BlockIsConsecutive
<1>2. QED
  BY <1>1, Inductive, PTL

(* No sample is skipped or played while sound is blocked.                     *)
THEOREM PausedKeepsCursorCorrect == Spec => PausedKeepsCursor
<1> DEFINE Paused == engine = "idle" /\ engine' = "idle" /\ audio /\ ~active
<1>1. IInv /\ [Next]_vars => [Paused => samplepos' = samplepos]_vars
  <2> SUFFICES ASSUME IInv, [Next]_vars, Paused PROVE samplepos' = samplepos
    OBVIOUS
  <2>1. ~PaintCopy /\ ~InitBegin
    BY DEF IInv, PaintsActive, PaintCopy, InitBegin
  <2>2. QED
    BY <2>1 DEF Next, WorkerStep, WorkerRuns, EngineStep, EngineCall, MixStep, BlockStep, CloseStep,
       InitAcquire, InitFail, InitDone, WorkerLock, WorkerExit, WorkerSleep, PaintBegin,
       WorkerOutput, WorkerReturn, MixCall, MixLock, Submit, BlockBegin, BlockWait, BlockLock,
       BlockQuiet, BlockDrained, BlockFailed, Unblock, CloseBegin, CloseJoin, CloseDevice,
       FreeBuffer, SpuriousWake, vars, paint
<1>2. QED
  BY <1>1, Inductive, PTL DEF Spec, PausedKeepsCursor
=============================================================================
