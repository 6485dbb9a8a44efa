--------------------------- MODULE AudioOutProofs ---------------------------
(***************************************************************************)
(* Proofs about AudioOut, for every grain, capacity and bound of the model.*)
(* TypeOK is inductive by itself.  The safety invariants are proved        *)
(* together with Positions and Progress, one step per action of AudioOut.  *)
(***************************************************************************)
EXTENDS AudioOut, SequenceTheorems, TLAPS

USE AudioAssumption DEF AudioAssumption

(* What the two integer operators of the ring return. *)
LEMMA LeastOf ==
  ASSUME NEW a \in Nat, NEW b \in Nat
  PROVE  Least(a, b) \in Nat /\ Least(a, b) <= a /\ Least(a, b) <= b
BY DEF Least

(* A position counted without bound falls on a slot.                         *)
LEMMA ModInSlot ==
  ASSUME NEW a \in Nat
  PROVE  a % Capacity \in Slot
BY DEF Slot

(* A block holds frames of the ring or silence, and a copy leaves the ring a  *)
(* ring of frame numbers.                                                     *)
LEMMA BlockType ==
  ASSUME TypeOK
  PROVE  /\ Taken \in 0 .. Grain
         /\ Taken <= count
         /\ Block(Taken) \in [1 .. Grain -> Nat]
<1> DEFINE n == Taken
           first == Least(n, Capacity - head)
<1>1. n \in 0 .. Grain /\ n <= count
  BY DEF Taken, Least, TypeOK
<1>2. first \in Nat /\ first <= n /\ first <= Capacity - head
  BY <1>1 DEF Least, TypeOK, Slot
<1>3. ASSUME NEW i \in 1 .. Grain
      PROVE  /\ i <= first => head + i - 1 \in Slot
             /\ i > first /\ i <= n => i - first - 1 \in Slot
  <2>1. head \in 0 .. Capacity - 1
    BY DEF TypeOK, Slot
  <2> HIDE DEF n, first
  <2>2. QED
    BY <1>1, <1>2, <2>1 DEF Slot
<1> HIDE DEF first
<1>4. Block(n) \in [1 .. Grain -> Nat]
  BY <1>1, <1>2, <1>3 DEF Block, TypeOK, first
<1>5. QED
  BY <1>1, <1>4

(* A filled ring holds numbers.                                              *)
LEMMA FilledType ==
  ASSUME TypeOK, NEW n \in Nat, n <= Capacity - count
  PROVE  Filled(n) \in [Slot -> Nat]
<1> DEFINE tail == (head + count) % Capacity
           first == Least(n, Capacity - tail)
<1>1. tail \in Slot
  <2>1. head + count \in Nat
    BY DEF TypeOK, Slot
  <2>2. QED
    BY <2>1, ModInSlot
<1>2. first \in Nat
  BY <1>1 DEF Least, Slot
<1>3. ASSUME NEW s \in Slot
      PROVE  (IF s >= tail /\ s < tail + first THEN accepted + 1 + (s - tail)
              ELSE IF s < n - first THEN accepted + 1 + first + s
              ELSE ring[s]) \in Nat
  <2> HIDE DEF tail, first
  <2>1. s \in Nat /\ tail \in Nat /\ accepted \in Nat /\ ring[s] \in Nat
    BY <1>1 DEF TypeOK, Slot
  <2>2. QED
    BY <1>2, <2>1
<1>4. QED
  BY <1>3 DEF Filled


-----------------------------------------------------------------------------
(* Every variable keeps its type: cursors stay inside the ring, the count    *)
(* between empty and full, the in-flight block within a grain.               *)
LEMMA TypeStep == TypeOK /\ [Next]_vars => TypeOK'
<1> SUFFICES ASSUME TypeOK, [Next]_vars
             PROVE  TypeOK'
  OBVIOUS
<1> USE DEF TypeOK, Thread, Lock, Unlock, CondWait, Broadcast,
            fields, queue, totals, workerVars, writerVars, controlVars
<1>1. CASE WorkerLock
  BY <1>1 DEF WorkerLock
<1>2. CASE WorkerExit
  BY <1>2 DEF WorkerExit
<1>3. CASE WorkerSleep
  BY <1>3 DEF WorkerSleep
<1>4. CASE WorkerTake
  <2>1. (head + Taken) % Capacity \in Slot
    <3>1. head \in Nat /\ Taken \in Nat
      BY BlockType DEF Slot
    <3>2. head + Taken \in Nat
      BY <3>1
    <3>3. QED
      BY <3>2, ModInSlot
  <2>2. count - Taken \in 0 .. Capacity
    <3>1. count \in 0 .. Capacity /\ Taken \in Nat /\ Taken <= count
      BY BlockType
    <3>2. QED
      BY <3>1
  <2>3. QED
    BY <1>4, <2>1, <2>2, BlockType DEF WorkerTake
<1>5. ASSUME NEW ok \in BOOLEAN, WorkerReturn(ok) PROVE TypeOK'
  <2>1. played + frames \in Nat /\ discarded + frames \in Nat
    OBVIOUS
  <2>2. played' \in Nat /\ discarded' \in Nat /\ failed' \in BOOLEAN
    BY <1>5, <2>1 DEF WorkerReturn, Settle
  <2>3. QED
    BY <1>5, <2>2 DEF WorkerReturn, Settle
<1>6. ASSUME NEW n \in 1 .. MaxWrite, WriteCall(n) PROVE TypeOK'
  BY <1>6 DEF WriteCall
<1>7. CASE WriteLock
  BY <1>7 DEF WriteLock
<1>8. CASE WriteReturn
  BY <1>8 DEF WriteReturn
<1>9. CASE WriteWait
  BY <1>9 DEF WriteWait, CanWrite
<1>10. CASE WriteCopy
  <2> DEFINE n == Least(want, FreeFrames)
  <2>1. n \in Nat /\ n <= want /\ n <= Capacity - count
    BY DEF Least, FreeFrames
  <2>2. Filled(n) \in [Slot -> Nat]
    BY <2>1, FilledType
  <2>3. count + n \in 0 .. Capacity /\ accepted + n \in Nat /\ want - n \in Nat
    BY <2>1, SMTT(30)
  <2> HIDE DEF n
  <2>4. QED
    BY <1>10, <2>2, <2>3, SMTT(30) DEF WriteCopy, n
<1>11. CASE StopBegin
  <2>1. discarded + count \in Nat /\ 0 \in Slot /\ 0 \in 0 .. Capacity
    BY DEF Slot
  <2>2. head' \in Slot /\ count' \in 0 .. Capacity /\ discarded' \in Nat
    BY <1>11, <2>1 DEF StopBegin
  <2>3. QED
    BY <1>11, <2>2, ZenonT(30) DEF StopBegin
<1>12. CASE StopWait
  BY <1>12 DEF StopWait
<1>13. CASE StopLock
  BY <1>13 DEF StopLock
<1>14. CASE StopQuiet
  BY <1>14 DEF StopQuiet
<1>15. ASSUME NEW ok \in BOOLEAN, StopDrained(ok) PROVE TypeOK'
  BY <1>15 DEF StopDrained
<1>16. CASE StopFailed
  BY <1>16 DEF StopFailed
<1>17. CASE Start
  BY <1>17 DEF Start
<1>18. ASSUME NEW enabled \in BOOLEAN, SetNonblock(enabled) PROVE TypeOK'
  BY <1>18 DEF SetNonblock
<1>19. CASE DestroyBegin
  BY <1>19 DEF DestroyBegin
<1>20. CASE DestroyJoin
  BY <1>20 DEF DestroyJoin
<1>21. CASE DestroyStep
  BY <1>21 DEF DestroyStep
<1>22. ASSUME NEW t \in Thread, SpuriousWake(t) PROVE TypeOK'
  BY <1>22 DEF SpuriousWake
<1>23. CASE Terminated
  BY <1>23 DEF Terminated, vars
<1>24. CASE UNCHANGED vars
  BY <1>24 DEF vars
<1>25. QED
  BY <1>1, <1>2, <1>3, <1>4, <1>5, <1>6, <1>7, <1>8, <1>9, <1>10, <1>11, <1>12, <1>13, <1>14, <1>15, <1>16, <1>17, <1>18, <1>19, <1>20, <1>21, <1>22, <1>23, <1>24
     DEF Next, WorkerStep, WriterStep, StopStep, DestroyRest

(* The device just opened has the types.                                     *)
LEMMA InitTypeOK == Init => TypeOK
<1> SUFFICES ASSUME Init
             PROVE  TypeOK
  OBVIOUS
<1>1. head \in Slot /\ count \in 0 .. Capacity /\ frames \in 0 .. Grain
  BY DEF Init, Slot
<1>2. ring \in [Slot -> Nat] /\ output \in [1 .. Grain -> Nat]
  BY DEF Init
<1>3. mutex \in Thread \union {NoThread} /\ waiting \in SUBSET Thread
  BY DEF Init, Thread, NoThread
<1>4. QED
  BY <1>1, <1>2, <1>3 DEF Init, TypeOK

(* Every reachable state is well typed, for every grain and capacity.        *)
THEOREM TypeCorrect == Spec => []TypeOK
BY InitTypeOK, TypeStep, PTL DEF Spec

-----------------------------------------------------------------------------
(* The mutex and the sleepers are where the program counters say. *)
LEMMA PositionsStep ==
  TypeOK /\ Positions /\ [Next]_vars => Positions'
<1> SUFFICES ASSUME TypeOK, Positions, [Next]_vars
             PROVE  Positions'
  OBVIOUS
<1> USE DEF TypeOK, Positions, Thread, NoThread, Lock, Unlock, CondWait, Broadcast,
            fields, queue, totals, workerVars, writerVars, controlVars
<1>1. CASE WorkerLock
  BY <1>1 DEF WorkerLock
<1>2. CASE WorkerExit
  BY <1>2 DEF WorkerExit
<1>3. CASE WorkerSleep
  BY <1>3 DEF WorkerSleep
<1>4. CASE WorkerTake
  BY <1>4 DEF WorkerTake
<1>5. ASSUME NEW ok \in BOOLEAN, WorkerReturn(ok) PROVE Positions'
  BY <1>5 DEF WorkerReturn, Settle
<1>6. ASSUME NEW n \in 1 .. MaxWrite, WriteCall(n) PROVE Positions'
  BY <1>6 DEF WriteCall
<1>7. CASE WriteLock
  BY <1>7 DEF WriteLock
<1>8. CASE WriteReturn
  BY <1>8 DEF WriteReturn
<1>9. CASE WriteWait
  BY <1>9 DEF WriteWait, CanWrite
<1>10. CASE WriteCopy
  BY <1>10 DEF WriteCopy, CanWrite
<1>11. CASE StopBegin
  BY <1>11 DEF StopBegin
<1>12. CASE StopWait
  BY <1>12 DEF StopWait
<1>13. CASE StopLock
  BY <1>13 DEF StopLock
<1>14. CASE StopQuiet
  BY <1>14 DEF StopQuiet
<1>15. ASSUME NEW ok \in BOOLEAN, StopDrained(ok) PROVE Positions'
  BY <1>15 DEF StopDrained
<1>16. CASE StopFailed
  BY <1>16 DEF StopFailed
<1>17. CASE Start
  BY <1>17 DEF Start
<1>18. ASSUME NEW enabled \in BOOLEAN, SetNonblock(enabled) PROVE Positions'
  BY <1>18 DEF SetNonblock
<1>19. CASE DestroyBegin
  BY <1>19 DEF DestroyBegin
<1>20. CASE DestroyJoin
  BY <1>20 DEF DestroyJoin
<1>21. CASE DestroyStep
  BY <1>21 DEF DestroyStep
<1>22. ASSUME NEW t \in Thread, SpuriousWake(t) PROVE Positions'
  BY <1>22 DEF SpuriousWake
<1>23. CASE UNCHANGED vars
  BY <1>23 DEF vars
<1>24. QED
  BY <1>1, <1>2, <1>3, <1>4, <1>5, <1>6, <1>7, <1>8, <1>9, <1>10, <1>11, <1>12, <1>13, <1>14, <1>15, <1>16, <1>17, <1>18, <1>19, <1>20, <1>21, <1>22, <1>23
     DEF Next, WorkerStep, WriterStep, StopStep, DestroyRest, Terminated

(* What the controller has established holds at each of its later steps. *)
LEMMA ProgressStep ==
  TypeOK /\ Positions /\ Progress /\ SafetyInv /\ [Next]_vars => Progress'
<1> SUFFICES ASSUME TypeOK, Positions, Progress, SafetyInv, [Next]_vars
             PROVE  Progress'
  OBVIOUS
<1> USE DEF TypeOK, Positions, Progress, SafetyInv, DeviceQuiet, FailedIsFinal,
            StopTellsTheTruth, Thread, NoThread, Lock, Unlock, CondWait, Broadcast,
            fields, queue, totals, workerVars, writerVars, controlVars
<1>1. CASE WorkerLock
  BY <1>1 DEF WorkerLock
<1>2. CASE WorkerExit
  BY <1>2 DEF WorkerExit
<1>3. CASE WorkerSleep
  BY <1>3 DEF WorkerSleep
<1>4. CASE WorkerTake
  BY <1>4 DEF WorkerTake
<1>5. ASSUME NEW ok \in BOOLEAN, WorkerReturn(ok) PROVE Progress'
  BY <1>5 DEF WorkerReturn, Settle
<1>6. ASSUME NEW n \in 1 .. MaxWrite, WriteCall(n) PROVE Progress'
  BY <1>6 DEF WriteCall
<1>7. CASE WriteLock
  BY <1>7 DEF WriteLock
<1>8. CASE WriteReturn
  BY <1>8 DEF WriteReturn
<1>9. CASE WriteWait
  BY <1>9 DEF WriteWait, CanWrite
<1>10. CASE WriteCopy
  BY <1>10 DEF WriteCopy, CanWrite
<1>11. CASE StopBegin
  BY <1>11 DEF StopBegin
<1>12. CASE StopWait
  BY <1>12 DEF StopWait
<1>13. CASE StopLock
  BY <1>13 DEF StopLock
<1>14. CASE StopQuiet
  BY <1>14 DEF StopQuiet
<1>15. ASSUME NEW ok \in BOOLEAN, StopDrained(ok) PROVE Progress'
  BY <1>15 DEF StopDrained
<1>16. CASE StopFailed
  BY <1>16 DEF StopFailed
<1>17. CASE Start
  BY <1>17 DEF Start
<1>18. ASSUME NEW enabled \in BOOLEAN, SetNonblock(enabled) PROVE Progress'
  BY <1>18 DEF SetNonblock
<1>19. CASE DestroyBegin
  BY <1>19 DEF DestroyBegin
<1>20. CASE DestroyJoin
  BY <1>20 DEF DestroyJoin
<1>21. CASE DestroyStep
  BY <1>21 DEF DestroyStep
<1>22. ASSUME NEW t \in Thread, SpuriousWake(t) PROVE Progress'
  BY <1>22 DEF SpuriousWake
<1>23. CASE UNCHANGED vars
  BY <1>23 DEF vars
<1>24. QED
  BY <1>1, <1>2, <1>3, <1>4, <1>5, <1>6, <1>7, <1>8, <1>9, <1>10, <1>11, <1>12, <1>13, <1>14, <1>15, <1>16, <1>17, <1>18, <1>19, <1>20, <1>21, <1>22, <1>23
     DEF Next, WorkerStep, WriterStep, StopStep, DestroyRest, Terminated

(* Every frame stays counted exactly once. *)
LEMMA ConservationStep ==
  TypeOK /\ Positions /\ Progress /\ Conservation /\ [Next]_vars => Conservation'
<1> SUFFICES ASSUME TypeOK, Positions, Progress, Conservation, [Next]_vars
             PROVE  Conservation'
  OBVIOUS
<1> USE DEF TypeOK, Positions, Progress, Conservation, InFlight, Thread, NoThread, Lock, Unlock, CondWait, Broadcast,
            fields, queue, totals, workerVars, writerVars, controlVars
<1>1. CASE WorkerLock
  BY <1>1 DEF WorkerLock
<1>2. CASE WorkerExit
  BY <1>2 DEF WorkerExit
<1>3. CASE WorkerSleep
  BY <1>3 DEF WorkerSleep
<1>4. CASE WorkerTake
  BY <1>4 DEF WorkerTake, Least, Taken
<1>5. ASSUME NEW ok \in BOOLEAN, WorkerReturn(ok) PROVE Conservation'
  BY <1>5 DEF WorkerReturn, Settle
<1>6. ASSUME NEW n \in 1 .. MaxWrite, WriteCall(n) PROVE Conservation'
  BY <1>6 DEF WriteCall
<1>7. CASE WriteLock
  BY <1>7 DEF WriteLock
<1>8. CASE WriteReturn
  BY <1>8 DEF WriteReturn
<1>9. CASE WriteWait
  BY <1>9 DEF WriteWait, CanWrite
<1>10. CASE WriteCopy
  BY <1>10 DEF WriteCopy, CanWrite, Least, FreeFrames
<1>11. CASE StopBegin
  BY <1>11 DEF StopBegin
<1>12. CASE StopWait
  BY <1>12 DEF StopWait
<1>13. CASE StopLock
  BY <1>13 DEF StopLock
<1>14. CASE StopQuiet
  BY <1>14 DEF StopQuiet
<1>15. ASSUME NEW ok \in BOOLEAN, StopDrained(ok) PROVE Conservation'
  BY <1>15 DEF StopDrained
<1>16. CASE StopFailed
  BY <1>16 DEF StopFailed
<1>17. CASE Start
  BY <1>17 DEF Start
<1>18. ASSUME NEW enabled \in BOOLEAN, SetNonblock(enabled) PROVE Conservation'
  BY <1>18 DEF SetNonblock
<1>19. CASE DestroyBegin
  BY <1>19 DEF DestroyBegin
<1>20. CASE DestroyJoin
  BY <1>20 DEF DestroyJoin
<1>21. CASE DestroyStep
  BY <1>21 DEF DestroyStep
<1>22. ASSUME NEW t \in Thread, SpuriousWake(t) PROVE Conservation'
  BY <1>22 DEF SpuriousWake
<1>23. CASE UNCHANGED vars
  BY <1>23 DEF vars
<1>24. QED
  BY <1>1, <1>2, <1>3, <1>4, <1>5, <1>6, <1>7, <1>8, <1>9, <1>10, <1>11, <1>12, <1>13, <1>14, <1>15, <1>16, <1>17, <1>18, <1>19, <1>20, <1>21, <1>22, <1>23
     DEF Next, WorkerStep, WriterStep, StopStep, DestroyRest, Terminated

(* The controller's device calls and the worker's never overlap. *)
LEMMA QuietStep ==
  TypeOK /\ Positions /\ Progress /\ SafetyInv /\ [Next]_vars => DeviceQuiet'
<1> SUFFICES ASSUME TypeOK, Positions, Progress, SafetyInv, [Next]_vars
             PROVE  DeviceQuiet'
  OBVIOUS
<1> USE DEF TypeOK, Positions, Progress, SafetyInv, DeviceQuiet, FailedIsFinal,
            StopTellsTheTruth, NobodySleepsInVain, Thread, NoThread, Lock, Unlock, CondWait, Broadcast,
            fields, queue, totals, workerVars, writerVars, controlVars
<1>1. CASE WorkerLock
  BY <1>1 DEF WorkerLock
<1>2. CASE WorkerExit
  BY <1>2 DEF WorkerExit
<1>3. CASE WorkerSleep
  BY <1>3 DEF WorkerSleep
<1>4. CASE WorkerTake
  BY <1>4 DEF WorkerTake
<1>5. ASSUME NEW ok \in BOOLEAN, WorkerReturn(ok) PROVE DeviceQuiet'
  BY <1>5 DEF WorkerReturn, Settle
<1>6. ASSUME NEW n \in 1 .. MaxWrite, WriteCall(n) PROVE DeviceQuiet'
  BY <1>6 DEF WriteCall
<1>7. CASE WriteLock
  BY <1>7 DEF WriteLock
<1>8. CASE WriteReturn
  BY <1>8 DEF WriteReturn
<1>9. CASE WriteWait
  BY <1>9 DEF WriteWait, CanWrite
<1>10. CASE WriteCopy
  BY <1>10 DEF WriteCopy, CanWrite
<1>11. CASE StopBegin
  BY <1>11 DEF StopBegin
<1>12. CASE StopWait
  BY <1>12 DEF StopWait
<1>13. CASE StopLock
  BY <1>13 DEF StopLock
<1>14. CASE StopQuiet
  BY <1>14 DEF StopQuiet
<1>15. ASSUME NEW ok \in BOOLEAN, StopDrained(ok) PROVE DeviceQuiet'
  BY <1>15 DEF StopDrained
<1>16. CASE StopFailed
  BY <1>16 DEF StopFailed
<1>17. CASE Start
  BY <1>17 DEF Start
<1>18. ASSUME NEW enabled \in BOOLEAN, SetNonblock(enabled) PROVE DeviceQuiet'
  BY <1>18 DEF SetNonblock
<1>19. CASE DestroyBegin
  BY <1>19 DEF DestroyBegin
<1>20. CASE DestroyJoin
  BY <1>20 DEF DestroyJoin
<1>21. CASE DestroyStep
  BY <1>21 DEF DestroyStep
<1>22. ASSUME NEW t \in Thread, SpuriousWake(t) PROVE DeviceQuiet'
  BY <1>22 DEF SpuriousWake
<1>23. CASE UNCHANGED vars
  BY <1>23 DEF vars
<1>24. QED
  BY <1>1, <1>2, <1>3, <1>4, <1>5, <1>6, <1>7, <1>8, <1>9, <1>10, <1>11, <1>12, <1>13, <1>14, <1>15, <1>16, <1>17, <1>18, <1>19, <1>20, <1>21, <1>22, <1>23
     DEF Next, WorkerStep, WriterStep, StopStep, DestroyRest, Terminated

(* Whoever removes a sleeper's reason to sleep wakes it. *)
LEMMA SleepStep ==
  TypeOK /\ Positions /\ Progress /\ SafetyInv /\ [Next]_vars => NobodySleepsInVain'
<1> SUFFICES ASSUME TypeOK, Positions, Progress, SafetyInv, [Next]_vars
             PROVE  NobodySleepsInVain'
  OBVIOUS
<1> USE DEF TypeOK, Positions, Progress, SafetyInv, DeviceQuiet, FailedIsFinal,
            StopTellsTheTruth, NobodySleepsInVain, Thread, NoThread, Lock, Unlock, CondWait, Broadcast,
            fields, queue, totals, workerVars, writerVars, controlVars
<1>1. CASE WorkerLock
  BY <1>1 DEF WorkerLock
<1>2. CASE WorkerExit
  BY <1>2 DEF WorkerExit
<1>3. CASE WorkerSleep
  BY <1>3 DEF WorkerSleep
<1>4. CASE WorkerTake
  BY <1>4 DEF WorkerTake, Least, Taken
<1>5. ASSUME NEW ok \in BOOLEAN, WorkerReturn(ok) PROVE NobodySleepsInVain'
  BY <1>5 DEF WorkerReturn, Settle
<1>6. ASSUME NEW n \in 1 .. MaxWrite, WriteCall(n) PROVE NobodySleepsInVain'
  BY <1>6 DEF WriteCall
<1>7. CASE WriteLock
  BY <1>7 DEF WriteLock
<1>8. CASE WriteReturn
  BY <1>8 DEF WriteReturn
<1>9. CASE WriteWait
  BY <1>9 DEF WriteWait, CanWrite
<1>10. CASE WriteCopy
  BY <1>10 DEF WriteCopy, CanWrite, Least, FreeFrames
<1>11. CASE StopBegin
  BY <1>11 DEF StopBegin
<1>12. CASE StopWait
  BY <1>12 DEF StopWait
<1>13. CASE StopLock
  BY <1>13 DEF StopLock
<1>14. CASE StopQuiet
  BY <1>14 DEF StopQuiet
<1>15. ASSUME NEW ok \in BOOLEAN, StopDrained(ok) PROVE NobodySleepsInVain'
  BY <1>15 DEF StopDrained
<1>16. CASE StopFailed
  BY <1>16 DEF StopFailed
<1>17. CASE Start
  BY <1>17 DEF Start
<1>18. ASSUME NEW enabled \in BOOLEAN, SetNonblock(enabled) PROVE NobodySleepsInVain'
  BY <1>18 DEF SetNonblock
<1>19. CASE DestroyBegin
  BY <1>19 DEF DestroyBegin
<1>20. CASE DestroyJoin
  BY <1>20 DEF DestroyJoin
<1>21. CASE DestroyStep
  BY <1>21 DEF DestroyStep
<1>22. ASSUME NEW t \in Thread, SpuriousWake(t) PROVE NobodySleepsInVain'
  BY <1>22 DEF SpuriousWake
<1>23. CASE UNCHANGED vars
  BY <1>23 DEF vars
<1>24. QED
  BY <1>1, <1>2, <1>3, <1>4, <1>5, <1>6, <1>7, <1>8, <1>9, <1>10, <1>11, <1>12, <1>13, <1>14, <1>15, <1>16, <1>17, <1>18, <1>19, <1>20, <1>21, <1>22, <1>23
     DEF Next, WorkerStep, WriterStep, StopStep, DestroyRest, Terminated

(* A failed device is not driven again, and a pause reports its health. *)
LEMMA FailedStep ==
  TypeOK /\ Positions /\ Progress /\ SafetyInv /\ [Next]_vars => (FailedIsFinal /\ StopTellsTheTruth)'
<1> SUFFICES ASSUME TypeOK, Positions, Progress, SafetyInv, [Next]_vars
             PROVE  (FailedIsFinal /\ StopTellsTheTruth)'
  OBVIOUS
<1> USE DEF TypeOK, Positions, Progress, SafetyInv, DeviceQuiet, FailedIsFinal,
            StopTellsTheTruth, NobodySleepsInVain, Thread, NoThread, Lock, Unlock, CondWait, Broadcast,
            fields, queue, totals, workerVars, writerVars, controlVars
<1>1. CASE WorkerLock
  BY <1>1 DEF WorkerLock
<1>2. CASE WorkerExit
  BY <1>2 DEF WorkerExit
<1>3. CASE WorkerSleep
  BY <1>3 DEF WorkerSleep
<1>4. CASE WorkerTake
  BY <1>4 DEF WorkerTake
<1>5. ASSUME NEW ok \in BOOLEAN, WorkerReturn(ok) PROVE (FailedIsFinal /\ StopTellsTheTruth)'
  BY <1>5 DEF WorkerReturn, Settle
<1>6. ASSUME NEW n \in 1 .. MaxWrite, WriteCall(n) PROVE (FailedIsFinal /\ StopTellsTheTruth)'
  BY <1>6 DEF WriteCall
<1>7. CASE WriteLock
  BY <1>7 DEF WriteLock
<1>8. CASE WriteReturn
  BY <1>8 DEF WriteReturn
<1>9. CASE WriteWait
  BY <1>9 DEF WriteWait, CanWrite
<1>10. CASE WriteCopy
  BY <1>10 DEF WriteCopy, CanWrite
<1>11. CASE StopBegin
  BY <1>11 DEF StopBegin
<1>12. CASE StopWait
  BY <1>12 DEF StopWait
<1>13. CASE StopLock
  BY <1>13 DEF StopLock
<1>14. CASE StopQuiet
  BY <1>14 DEF StopQuiet
<1>15. ASSUME NEW ok \in BOOLEAN, StopDrained(ok) PROVE (FailedIsFinal /\ StopTellsTheTruth)'
  BY <1>15 DEF StopDrained
<1>16. CASE StopFailed
  BY <1>16 DEF StopFailed
<1>17. CASE Start
  BY <1>17 DEF Start
<1>18. ASSUME NEW enabled \in BOOLEAN, SetNonblock(enabled) PROVE (FailedIsFinal /\ StopTellsTheTruth)'
  BY <1>18 DEF SetNonblock
<1>19. CASE DestroyBegin
  BY <1>19 DEF DestroyBegin
<1>20. CASE DestroyJoin
  BY <1>20 DEF DestroyJoin
<1>21. CASE DestroyStep
  BY <1>21 DEF DestroyStep
<1>22. ASSUME NEW t \in Thread, SpuriousWake(t) PROVE (FailedIsFinal /\ StopTellsTheTruth)'
  BY <1>22 DEF SpuriousWake
<1>23. CASE UNCHANGED vars
  BY <1>23 DEF vars
<1>24. QED
  BY <1>1, <1>2, <1>3, <1>4, <1>5, <1>6, <1>7, <1>8, <1>9, <1>10, <1>11, <1>12, <1>13, <1>14, <1>15, <1>16, <1>17, <1>18, <1>19, <1>20, <1>21, <1>22, <1>23
     DEF Next, WorkerStep, WriterStep, StopStep, DestroyRest, Terminated

-----------------------------------------------------------------------------
(* The inductive invariant of the device. *)
THEOREM Inductive == Spec => []IInv
<1>1. Init => IInv
  <2>1. Init => TypeOK
    BY InitTypeOK
  <2>2. Init => Positions /\ Progress /\ SafetyInv
    BY DEF Init, Positions, Progress, SafetyInv, Conservation, InFlight, DeviceQuiet,
           NobodySleepsInVain, FailedIsFinal, StopTellsTheTruth, NoThread
  <2>3. QED
    BY <2>1, <2>2 DEF IInv
<1>2. IInv /\ [Next]_vars => IInv'
  BY TypeStep, PositionsStep, ProgressStep, ConservationStep, QuietStep, SleepStep,
     FailedStep DEF IInv, SafetyInv
<1>3. QED
  BY <1>1, <1>2, PTL DEF Spec

(* At every moment each accepted frame is played, discarded, queued, or in    *)
(* the device.                                                                *)
THEOREM ConservationCorrect == Spec => []Conservation
<1>1. IInv => Conservation
  BY DEF IInv, SafetyInv
<1>2. QED
  BY <1>1, Inductive, PTL

(* The port never sees two device calls at once, and a completed audio_stop   *)
(* leaves no block in it.                                                     *)
THEOREM DeviceQuietCorrect == Spec => []DeviceQuiet
<1>1. IInv => DeviceQuiet
  BY DEF IInv, SafetyInv
<1>2. QED
  BY <1>1, Inductive, PTL

(* No wake-up is lost: a sleeper always still has its reason to sleep.        *)
THEOREM NobodySleepsInVainCorrect == Spec => []NobodySleepsInVain
<1>1. IInv => NobodySleepsInVain
  BY DEF IInv, SafetyInv
<1>2. QED
  BY <1>1, Inductive, PTL

(* A failed device is never given another block.                              *)
THEOREM FailedIsFinalCorrect == Spec => []FailedIsFinal
<1>1. IInv => FailedIsFinal
  BY DEF IInv, SafetyInv
<1>2. QED
  BY <1>1, Inductive, PTL

(* A pause that reports success left a device that has not failed.            *)
THEOREM StopTellsTheTruthCorrect == Spec => []StopTellsTheTruth
<1>1. IInv => StopTellsTheTruth
  BY DEF IInv, SafetyInv
<1>2. QED
  BY <1>1, Inductive, PTL
-----------------------------------------------------------------------------
(* A cursor less than two laps ahead wraps by at most one subtraction.        *)
LEMMA Wrap ==
  ASSUME NEW a \in Nat, a < Capacity + Capacity
  PROVE  a % Capacity = IF a < Capacity THEN a ELSE a - Capacity
<1>1. CASE a < Capacity
  BY <1>1
<1>2. CASE a >= Capacity
  BY <1>2
<1>3. QED
  BY <1>1, <1>2

(* Taking n frames advances head past exactly the n oldest.                   *)
LEMMA TakeKeepsPending ==
  ASSUME TypeOK, RingHoldsPending, WorkerTake
  PROVE  RingHoldsPending'
<1> DEFINE n == Taken
<1>1. n \in Nat /\ n <= count /\ head \in Nat /\ head < Capacity
      /\ count \in Nat /\ count <= Capacity /\ accepted \in Nat
  BY BlockType DEF TypeOK, Slot
<1>2. /\ ring' = ring /\ accepted' = accepted
      /\ head' = (head + n) % Capacity /\ count' = count - n
  BY DEF WorkerTake, totals
<1> HIDE DEF n
<1>3. SUFFICES ASSUME NEW i \in 0 .. count' - 1
               PROVE  ring[(head' + i) % Capacity] = accepted - count' + 1 + i
  BY <1>2 DEF RingHoldsPending
<1>4. i \in Nat /\ i < count - n
  BY <1>1, <1>2
<1>5. (head' + i) % Capacity = (head + (n + i)) % Capacity
  <2>1. head' = IF head + n < Capacity THEN head + n ELSE head + n - Capacity
    BY <1>1, <1>2, Wrap
  <2>2. (head + (n + i)) % Capacity = IF head + (n + i) < Capacity THEN head + (n + i)
                                      ELSE head + (n + i) - Capacity
    BY <1>1, <1>4, Wrap
  <2>3. CASE head + n < Capacity
    BY <2>1, <2>3, <1>1
  <2>4. CASE head + n >= Capacity
    <3>1. head' + i \in Nat /\ head' + i < Capacity
      BY <2>1, <2>4, <1>1, <1>4
    <3>2. (head' + i) % Capacity = head' + i
      BY <3>1, Wrap
    <3>3. QED
      BY <3>2, <2>1, <2>2, <2>4, <1>1, <1>4
  <2>5. QED
    BY <2>3, <2>4, <1>1
<1>6. n + i \in 0 .. count - 1
  BY <1>1, <1>4
<1>7. ring[(head + (n + i)) % Capacity] = accepted - count + 1 + (n + i)
  BY <1>6 DEF RingHoldsPending
<1>8. QED
  BY <1>1, <1>2, <1>4, <1>5, <1>7

(* Copying n frames in at the tail touches no slot that still holds a         *)
(* pending one, and puts the new ones behind them in order.                   *)
LEMMA CopyKeepsPending ==
  ASSUME TypeOK, RingHoldsPending, WriteCopy
  PROVE  RingHoldsPending'
<1> DEFINE n == Least(want, FreeFrames)
           tail == (head + count) % Capacity
           first == Least(n, Capacity - tail)
<1>1. /\ n \in Nat /\ n <= Capacity - count
      /\ head \in Nat /\ head < Capacity
      /\ count \in Nat /\ count <= Capacity /\ accepted \in Nat
  BY DEF TypeOK, Slot, Least, FreeFrames
<1>2. /\ ring' = Filled(n) /\ accepted' = accepted + n
      /\ head' = head /\ count' = count + n
  BY DEF WriteCopy
<1> HIDE DEF n
<1>3. tail = IF head + count < Capacity THEN head + count ELSE head + count - Capacity
  BY <1>1, Wrap
<1>4. tail \in Nat /\ tail < Capacity
  BY <1>1, <1>3
<1>5. first \in Nat /\ first = IF n <= Capacity - tail THEN n ELSE Capacity - tail
  BY <1>1, <1>4 DEF Least
<1>6. SUFFICES ASSUME NEW i \in 0 .. count + n - 1
               PROVE  ring'[(head + i) % Capacity] = accepted - count + 1 + i
  <2>1. \A i \in 0 .. count' - 1 :
          /\ i \in 0 .. count + n - 1
          /\ accepted' - count' + 1 + i = accepted - count + 1 + i
    BY <1>1, <1>2
  <2>2. SUFFICES ASSUME NEW i \in 0 .. count' - 1
                 PROVE  ring'[(head' + i) % Capacity] = accepted' - count' + 1 + i
    BY DEF RingHoldsPending
  <2>3. QED
    BY <1>2, <2>1
<1> DEFINE p == (head + i) % Capacity
<1>7. p = IF head + i < Capacity THEN head + i ELSE head + i - Capacity
  BY <1>1, Wrap
<1>8. p \in Slot
  BY <1>1, <1>7 DEF Slot
<1>9. ring'[p] = IF p >= tail /\ p < tail + first THEN accepted + 1 + (p - tail)
                 ELSE IF p < n - first THEN accepted + 1 + first + p
                 ELSE ring[p]
  BY <1>2, <1>8 DEF Filled
<1>10. i < count => ring[p] = accepted - count + 1 + i
  <2>1. i < count => i \in 0 .. count - 1
    BY <1>1
  <2>2. QED
    BY <2>1 DEF RingHoldsPending
<1> HIDE DEF p, tail, first
<1>11. CASE i < count
  <2>1. ~(p >= tail /\ p < tail + first) /\ ~(p < n - first)
    BY <1>1, <1>3, <1>4, <1>5, <1>7, <1>11
  <2>2. QED
    BY <2>1, <1>9, <1>10, <1>11 DEF p
<1>12. CASE i >= count
  <2>1. CASE head + i < Capacity \/ head + count >= Capacity
    <3>1. p >= tail /\ p < tail + first /\ p - tail = i - count
      BY <1>1, <1>3, <1>4, <1>5, <1>7, <1>12, <2>1
    <3>2. ring'[p] = accepted + 1 + (i - count)
      BY <3>1, <1>9
    <3>3. QED
      BY <3>2, <1>1 DEF p
  <2>2. CASE head + i >= Capacity /\ head + count < Capacity
    <3>1. p < tail /\ p < n - first /\ first + p = i - count /\ p \in Nat
      BY <1>1, <1>3, <1>4, <1>5, <1>7, <1>12, <2>2
    <3>2. ring'[p] = accepted + 1 + first + p
      BY <3>1, <1>4, <1>9
    <3>3. QED
      BY <3>1, <3>2, <1>1, <1>5 DEF p
  <2>3. QED
    BY <2>1, <2>2, <1>1
<1>13. QED
  BY <1>11, <1>12, <1>1

(* Every step leaves the newest frames in the ring.                          *)
LEMMA PendingStep ==
  TypeOK /\ RingHoldsPending /\ [Next]_vars => RingHoldsPending'
<1> SUFFICES ASSUME TypeOK, RingHoldsPending, [Next]_vars
             PROVE  RingHoldsPending'
  OBVIOUS
<1>1. CASE WorkerTake
  BY <1>1, TakeKeepsPending
<1>2. CASE WriteCopy
  BY <1>2, CopyKeepsPending
<1>3. CASE StopBegin \/ DestroyBegin
  <2>1. count' = 0
    BY <1>3 DEF StopBegin, DestroyBegin
  <2>2. 0 .. count' - 1 = {}
    BY <2>1
  <2>3. QED
    BY <2>2 DEF RingHoldsPending
<1>4. CASE UNCHANGED <<ring, head, count, accepted>>
  BY <1>4 DEF RingHoldsPending
<1>5. QED
  <2> USE DEF queue, totals
  <2>1. [Next]_vars =>
          \/ WorkerTake \/ WriteCopy \/ StopBegin \/ DestroyBegin
          \/ UNCHANGED <<ring, head, count, accepted>>
    BY DEF Next, vars, WorkerStep, WriterStep, StopStep, DestroyRest, Terminated,
           WorkerLock, WorkerExit, WorkerSleep, WorkerReturn, WriteCall, WriteLock,
           WriteReturn, WriteWait, StopWait, StopLock, StopQuiet, StopDrained,
           StopFailed, Start, SetNonblock, DestroyJoin, DestroyStep, SpuriousWake
  <2>2. QED
    BY <2>1, <1>1, <1>2, <1>3, <1>4

(* The ring always holds exactly the frames accepted last, in order, across   *)
(* the wrap of both cursors.                                                  *)
THEOREM RingHoldsPendingCorrect == Spec => []RingHoldsPending
<1>1. Init => RingHoldsPending
  <2>1. Init => 0 .. count - 1 = {}
    BY DEF Init
  <2>2. QED
    BY <2>1 DEF RingHoldsPending
<1>2. QED
  BY <1>1, PendingStep, TypeCorrect, PTL DEF Spec
-----------------------------------------------------------------------------
(* The refinement of PcmStream.  RingHoldsPending says which frames the ring  *)
(* holds, so that the queue is a function of two counters; what a copy or a   *)
(* block does to it is then a fact about sequences: Newest(a, c) are the last *)
(* c frames up to the a-th, After(a, n) the n frames behind it.               *)
Newest(a, c) == [i \in 1 .. c |-> a - c + i]
After(a, n) == [i \in 1 .. n |-> a + i]

(* The newest frames are a sequence of that many numbers.                    *)
LEMMA NewestType ==
  ASSUME NEW a \in Nat, NEW c \in Nat
  PROVE  Newest(a, c) \in Seq(Int) /\ Len(Newest(a, c)) = c
BY DEF Newest

(* Accepting frames appends to the newest ones.                              *)
LEMMA NewestAccept ==
  ASSUME NEW a \in Nat, NEW c \in Nat, NEW n \in Nat
  PROVE  Newest(a + n, c + n) = Newest(a, c) \o After(a, n)
<1> DEFINE s == Newest(a, c)
           t == After(a, n)
<1>1. s \in Seq(Int) /\ Len(s) = c
  BY NewestType
<1>2. t \in Seq(Int) /\ Len(t) = n /\ \A i \in 1 .. n : t[i] = a + i
  BY DEF After
<1>3. \A i \in 1 .. c : s[i] = a - c + i
  BY DEF Newest
<1> HIDE DEF s, t
<1>4. /\ s \o t \in Seq(Int) /\ Len(s \o t) = c + n
      /\ \A i \in 1 .. c + n : (s \o t)[i] = IF i <= c THEN s[i] ELSE t[i - c]
  <2>1. /\ s \o t \in Seq(Int) /\ Len(s \o t) = Len(s) + Len(t)
        /\ \A i \in 1 .. Len(s) + Len(t) : (s \o t)[i] = IF i <= Len(s) THEN s[i] ELSE t[i - Len(s)]
    BY <1>1, <1>2, ConcatProperties, Zenon
  <2>2. QED
    BY <1>1, <1>2, <2>1
<1>5. ASSUME NEW i \in 1 .. c + n
      PROVE  (s \o t)[i] = (a + n) - (c + n) + i
  <2>1. (s \o t)[i] = IF i <= c THEN s[i] ELSE t[i - c]
    BY <1>4
  <2>2. i <= c => s[i] = a - c + i
    BY <1>3
  <2>3. i > c => i - c \in 1 .. n /\ t[i - c] = a + (i - c)
    BY <1>2
  <2>4. QED
    BY <2>1, <2>2, <2>3
<1>6. Newest(a + n, c + n) \in Seq(Int) /\ Len(Newest(a + n, c + n)) = c + n
  <2>1. a + n \in Nat /\ c + n \in Nat
    OBVIOUS
  <2>2. QED
    BY <2>1, NewestType
<1>7. \A i \in 1 .. c + n : Newest(a + n, c + n)[i] = (a + n) - (c + n) + i
  BY DEF Newest
<1> DEFINE u == Newest(a + n, c + n)
           v == s \o t
<1>8. u \in Seq(Int) /\ v \in Seq(Int) /\ Len(u) = Len(v)
      /\ \A i \in 1 .. Len(u) : u[i] = v[i]
  BY <1>4, <1>5, <1>6, <1>7
<1> HIDE DEF u, v
<1>9. u = v
  BY <1>8, SeqEqual
<1>10. QED
  BY <1>9 DEF u, v, s, t

(* Taking frames away leaves the newer ones.                                 *)
LEMMA NewestTake ==
  ASSUME NEW a \in Nat, NEW c \in Nat, NEW n \in 0 .. c
  PROVE  /\ SubSeq(Newest(a, c), 1, n) = After(a - c, n)
         /\ SubSeq(Newest(a, c), n + 1, c) = Newest(a, c - n)
<1> DEFINE s == Newest(a, c)
           t == After(a - c, n)
<1>1. s \in Seq(Int) /\ Len(s) = c
  BY NewestType
<1>2. \A i \in 1 .. c : s[i] = a - c + i
  BY DEF Newest
<1>3. t \in Seq(Int) /\ Len(t) = n /\ \A i \in 1 .. n : t[i] = a - c + i
  BY DEF After
<1>4. /\ Newest(a, c - n) \in Seq(Int) /\ Len(Newest(a, c - n)) = c - n
      /\ \A i \in 1 .. c - n : Newest(a, c - n)[i] = a - (c - n) + i
  BY NewestType DEF Newest
<1> HIDE DEF s, t
<1>5. SubSeq(s, 1, n) = t
  <2>1. /\ SubSeq(s, 1, n) \in Seq(Int) /\ Len(SubSeq(s, 1, n)) = n
        /\ \A i \in 1 .. n : SubSeq(s, 1, n)[i] = s[i]
    BY <1>1
  <2>2. QED
    BY <2>1, <1>2, <1>3, SeqEqual
<1>6. SubSeq(s, n + 1, c) = Newest(a, c - n)
  <2>1. /\ SubSeq(s, n + 1, c) \in Seq(Int) /\ Len(SubSeq(s, n + 1, c)) = c - n
        /\ \A i \in 1 .. c - n : SubSeq(s, n + 1, c)[i] = s[n + i]
    BY <1>1
  <2>2. \A i \in 1 .. c - n : s[n + i] = a - (c - n) + i
    BY <1>2
  <2> DEFINE u == SubSeq(s, n + 1, c)
             v == Newest(a, c - n)
  <2>3. u \in Seq(Int) /\ v \in Seq(Int) /\ Len(u) = Len(v)
        /\ \A i \in 1 .. Len(u) : u[i] = v[i]
    BY <2>1, <2>2, <1>4
  <2> HIDE DEF u, v
  <2>4. u = v
    BY <2>3, SeqEqual
  <2>5. QED
    BY <2>4 DEF u, v
<1>7. QED
  BY <1>5, <1>6 DEF s, t

(* The queue of the ring, before and after a step.                            *)
Queue(r, h, c) == [i \in 1 .. c |-> r[(h + i - 1) % Capacity]]
InOrder(r, h, a, c) == \A i \in 0 .. c - 1 : r[(h + i) % Capacity] = a - c + 1 + i

(* A ring in order holds the newest frames.                                  *)
LEMMA QueueIsNewest ==
  ASSUME NEW r, NEW h \in Nat, NEW a \in Nat, NEW c \in Nat, InOrder(r, h, a, c)
  PROVE  Queue(r, h, c) = Newest(a, c)
<1>1. ASSUME NEW i \in 1 .. c
      PROVE  r[(h + i - 1) % Capacity] = a - c + i
  <2>1. i - 1 \in 0 .. c - 1 /\ h + (i - 1) = h + i - 1
    OBVIOUS
  <2>2. r[(h + (i - 1)) % Capacity] = a - c + 1 + (i - 1)
    BY <2>1 DEF InOrder
  <2>3. QED
    BY <2>1, <2>2
<1>2. QED
  BY <1>1 DEF Queue, Newest

(* What is pending is given by two counters.                                 *)
LEMMA PendingIsNewest ==
  ASSUME TypeOK, RingHoldsPending
  PROVE  Pending = Newest(accepted, count)
<1>1. head \in Nat /\ accepted \in Nat /\ count \in Nat
  BY DEF TypeOK, Slot
<1>2. InOrder(ring, head, accepted, count)
  BY DEF RingHoldsPending, InOrder
<1>3. Queue(ring, head, count) = Newest(accepted, count)
  BY <1>1, <1>2, QueueIsNewest
<1>4. QED
  BY <1>3 DEF Pending, Queue

(* So it is in the next state.                                               *)
LEMMA PendingIsNewestNext ==
  ASSUME TypeOK', RingHoldsPending'
  PROVE  Pending' = Newest(accepted', count')
<1>1. head' \in Nat /\ accepted' \in Nat /\ count' \in Nat
  BY DEF TypeOK, Slot
<1>2. InOrder(ring', head', accepted', count')
  BY DEF RingHoldsPending, InOrder
<1>3. Queue(ring', head', count') = Newest(accepted', count')
  BY <1>1, <1>2, QueueIsNewest
<1>4. QED
  BY <1>3 DEF Pending, Queue

(* The first n frames of a block are the first n of the ring.                 *)
LEMMA BlockIsOldest ==
  ASSUME TypeOK, RingHoldsPending, NEW i \in 1 .. Taken
  PROVE  Block(Taken)[i] = accepted - count + i
<1> DEFINE n == Taken
           first == Least(n, Capacity - head)
<1>1. /\ n \in Nat /\ n <= count /\ n <= Grain /\ i \in 1 .. Grain
      /\ head \in Nat /\ head < Capacity /\ count \in Nat /\ count <= Capacity
      /\ accepted \in Nat
  BY BlockType DEF TypeOK, Slot
<1> HIDE DEF n
<1>2. first = IF n <= Capacity - head THEN n ELSE Capacity - head
  BY DEF Least
<1>3. Block(n)[i] = IF i <= first THEN ring[head + i - 1] ELSE ring[i - first - 1]
  BY <1>1 DEF Block, n
<1>4. (head + (i - 1)) % Capacity = IF head + (i - 1) < Capacity THEN head + (i - 1)
                                    ELSE head + (i - 1) - Capacity
  BY <1>1, Wrap DEF n
<1>5. i - 1 \in 0 .. count - 1
  BY <1>1 DEF n
<1>6. ring[(head + (i - 1)) % Capacity] = accepted - count + 1 + (i - 1)
  BY <1>5 DEF RingHoldsPending
<1> HIDE DEF first
<1>7. Block(n)[i] = ring[(head + (i - 1)) % Capacity]
  <2>1. CASE i <= first
    <3>1. head + i - 1 = head + (i - 1) /\ head + (i - 1) < Capacity
      BY <1>1, <1>2, <2>1
    <3>2. QED
      BY <3>1, <1>3, <1>4, <2>1
  <2>2. CASE ~(i <= first)
    <3>1. i \in Nat /\ i <= n
      BY DEF n
    <3>2. first = Capacity - head
      BY <1>1, <1>2, <2>2, <3>1
    <3>3. ~(head + (i - 1) < Capacity) /\ i - first - 1 = head + (i - 1) - Capacity
      BY <1>1, <2>2, <3>1, <3>2
    <3>4. QED
      BY <3>3, <1>3, <1>4, <2>2
  <2>3. QED
    BY <2>1, <2>2
<1>8. QED
  BY <1>1, <1>6, <1>7 DEF n

(* What the device holds changes with nothing else.                           *)
Seen == <<Pending, InDevice, accepted, played, discarded, Mode, failed>>

(* A device without a block has no frames of one.                            *)
LEMMA EmptyDevice ==
  /\ worker # "output" => InFlight = 0 /\ InDevice = <<>>
  /\ InFlight = 0 => InDevice = <<>>
BY DEF InFlight, InDevice

(* audio_write: the copy is an acceptance of as many frames as fit.           *)
LEMMA CopyRefines ==
  ASSUME IInv, RingHoldsPending, TypeOK', RingHoldsPending', WriteCopy
  PROVE  Stream!Next
<1> DEFINE n == Least(want, FreeFrames)
<1>1. n \in 1 .. Capacity /\ n <= Capacity - count
  BY DEF IInv, TypeOK, WriteCopy, CanWrite, Least, FreeFrames
<1>2. accepted' = accepted + n /\ count' = count + n
  BY DEF WriteCopy
<1>3. UNCHANGED <<InDevice, played, discarded, Mode, failed>>
  BY DEF WriteCopy, fields, workerVars, controlVars, InDevice, InFlight, Mode
<1>4. Mode = "playing" /\ ~failed
  BY DEF IInv, Progress, WriteCopy, CanWrite, Mode
<1> HIDE DEF n
<1>5. accepted \in Nat /\ count \in Nat
  BY DEF IInv, TypeOK
<1>6. Pending = Newest(accepted, count) /\ Len(Pending) = count
  BY <1>5, PendingIsNewest, NewestType DEF IInv
<1>7. Pending' = Pending \o After(accepted, n)
  <2>1. Pending' = Newest(accepted + n, count + n)
    BY <1>2, PendingIsNewestNext
  <2>2. n \in Nat
    BY <1>1
  <2>3. QED
    BY <2>1, <2>2, <1>5, <1>6, NewestAccept
<1>8. Len(Pending) + n <= Capacity
  BY <1>1, <1>5, <1>6
<1>9. Stream!Accept(n)
  BY <1>2, <1>3, <1>4, <1>7, <1>8 DEF Stream!Accept, After
<1>10. QED
  BY <1>1, <1>9 DEF Stream!Next

(* The worker takes what Take takes, or a block of silence nobody sees.       *)
LEMMA TakeRefines ==
  ASSUME IInv, RingHoldsPending, TypeOK', RingHoldsPending', WorkerTake
  PROVE  Stream!Next \/ UNCHANGED Seen
<1> DEFINE n == Taken
<1>1. /\ n \in Nat /\ n <= count /\ n = (IF count < Grain THEN count ELSE Grain)
      /\ accepted \in Nat /\ count \in Nat
  <2>1. count \in Nat /\ accepted \in Nat /\ Grain \in Nat
    BY AudioAssumption DEF IInv, TypeOK, AudioAssumption
  <2>2. QED
    BY <2>1 DEF Taken, Least
<1>2. /\ accepted' = accepted /\ count' = count - n
      /\ InFlight' = n /\ output' = Block(n)
  BY DEF WorkerTake, totals, InFlight
<1>3. UNCHANGED <<accepted, played, discarded, Mode, failed>>
  BY DEF WorkerTake, totals, controlVars, Mode
<1>4. Mode = "playing" /\ ~failed
  BY DEF IInv, TypeOK, Progress, WorkerTake, Mode
<1>5. InDevice = <<>>
  BY EmptyDevice DEF WorkerTake
<1>6. InDevice' = After(accepted - count, n)
  <2>1. InDevice' = [i \in 1 .. n |-> Block(n)[i]]
    BY <1>2 DEF InDevice
  <2>2. \A i \in 1 .. n : Block(n)[i] = accepted - count + i
    BY BlockIsOldest DEF IInv
  <2> HIDE DEF n
  <2>3. QED
    BY <2>1, <2>2 DEF After
<1> HIDE DEF n
<1>7. Pending = Newest(accepted, count) /\ Len(Pending) = count
  BY <1>1, PendingIsNewest, NewestType DEF IInv
<1>8. Pending' = Newest(accepted, count - n)
  BY <1>2, PendingIsNewestNext
<1>9. CASE count = 0
  <2>1. n = 0
    BY <1>1, <1>9
  <2>2. Pending' = Pending
    BY <2>1, <1>7, <1>8, <1>9
  <2>3. InDevice' = <<>>
    BY <2>1, <1>6 DEF After
  <2>4. QED
    BY <2>2, <2>3, <1>3, <1>5 DEF Seen
<1>10. CASE count # 0
  <2>1. n \in 0 .. count
    BY <1>1
  <2>2. InDevice' = SubSeq(Pending, 1, n) /\ Pending' = SubSeq(Pending, n + 1, Len(Pending))
    <3>1. /\ SubSeq(Newest(accepted, count), 1, n) = After(accepted - count, n)
          /\ SubSeq(Newest(accepted, count), n + 1, count) = Newest(accepted, count - n)
      <4>1. accepted \in Nat /\ count \in Nat /\ n \in 0 .. count
        BY <1>1, <2>1
      <4>2. QED
        BY <4>1, NewestTake, Zenon
    <3>2. QED
      BY <3>1, <1>6, <1>7, <1>8
  <2>3. Pending # <<>>
    BY <1>1, <1>7, <1>10
  <2>4. n = IF Len(Pending) < Grain THEN Len(Pending) ELSE Grain
    BY <1>1, <1>7
  <2>5. Stream!Take
    BY <2>2, <2>3, <2>4, <1>3, <1>4, <1>5 DEF Stream!Take
  <2>6. QED
    BY <2>5 DEF Stream!Next
<1>11. QED
  BY <1>9, <1>10

(* The end of a device call: the block was played, or refused and the device  *)
(* is dead.                                                                   *)
LEMMA ReturnRefines ==
  ASSUME IInv, NEW ok \in BOOLEAN, WorkerReturn(ok)
  PROVE  Stream!Next \/ UNCHANGED Seen
<1>1. InFlight = frames /\ frames \in Nat /\ ~failed
  BY DEF IInv, TypeOK, SafetyInv, FailedIsFinal, WorkerReturn, InFlight
<1>2. Len(InDevice) = frames /\ (frames = 0 <=> InDevice = <<>>)
  BY <1>1 DEF InDevice
<1>3. InDevice' = <<>>
  <2>1. InFlight' = 0
    BY DEF WorkerReturn, InFlight
  <2>2. QED
    BY <2>1 DEF InDevice
<1>4. UNCHANGED <<Pending, accepted, Mode>>
  BY DEF WorkerReturn, queue, controlVars, Pending, Mode
<1>5. CASE ok
  <2>1. failed' = failed /\ played' = played + frames /\ discarded' = discarded
    <3>1. played' = played + frames /\ discarded' = discarded
      BY <1>5 DEF WorkerReturn, Settle
    <3>2. failed' = FALSE /\ failed = FALSE
      BY <1>1, <1>5 DEF WorkerReturn, IInv, TypeOK
    <3>3. QED
      BY <3>1, <3>2
  <2>2. CASE frames = 0
    <3>1. played' = played
      BY <2>1, <2>2 DEF IInv, TypeOK
    <3>2. QED
      BY <3>1, <2>1, <2>2, <1>2, <1>3, <1>4 DEF Seen
  <2>3. CASE frames # 0
    BY <2>1, <2>3, <1>2, <1>3, <1>4 DEF Stream!Play, Stream!Next
  <2>4. QED
    BY <2>2, <2>3
<1>6. CASE ~ok
  <2>1. failed' = TRUE /\ played' = played /\ discarded' = discarded + frames
    BY <1>6 DEF WorkerReturn, Settle
  <2>2. QED
    BY <2>1, <1>1, <1>2, <1>3, <1>4 DEF Stream!Lose, Stream!Next
<1>7. QED
  BY <1>5, <1>6

(* A pause and the close drop what is queued.                                 *)
LEMMA DropRefines ==
  ASSUME IInv, StopBegin \/ DestroyBegin
  PROVE  Stream!Next
<1>1. Len(Pending) = count
  BY DEF IInv, TypeOK, Pending
<1>2. Pending' = <<>>
  <2>1. count' = 0
    BY DEF StopBegin, DestroyBegin
  <2>2. QED
    BY <2>1 DEF Pending
<1>3. discarded' = discarded + count /\ Mode' = "stopping"
  BY DEF StopBegin, DestroyBegin, Mode
<1>4. UNCHANGED <<InDevice, accepted, played, failed>>
  BY DEF StopBegin, DestroyBegin, workerVars, InDevice, InFlight
<1>5. QED
  BY <1>1, <1>2, <1>3, <1>4 DEF Stream!Stop, Stream!Next

(* A pause is over once the worker is out of the device, a close once it has  *)
(* ended.                                                                     *)
LEMMA QuietRefines ==
  ASSUME IInv, StopQuiet \/ DestroyJoin
  PROVE  Stream!Next
<1>1. worker # "output" /\ (~active \/ shutdown)
  BY DEF IInv, Positions, Progress, StopQuiet, DestroyJoin
<1>2. InDevice = <<>>
  BY <1>1, EmptyDevice
<1>3. Mode = "stopping" /\ Mode' = "paused"
  BY <1>1 DEF StopQuiet, DestroyJoin, Mode, fields
<1>4. UNCHANGED <<Pending, InDevice, accepted, played, discarded, failed>>
  BY DEF StopQuiet, DestroyJoin, fields, queue, totals, workerVars, Pending, InDevice, InFlight
<1>5. QED
  BY <1>2, <1>3, <1>4 DEF Stream!Paused, Stream!Next

(* A failed drain kills the device, with nothing in it to lose.               *)
LEMMA DrainRefines ==
  ASSUME IInv, StopFailed
  PROVE  Stream!Next \/ UNCHANGED Seen
<1>1. ~active /\ worker # "output"
  BY DEF IInv, Progress, SafetyInv, DeviceQuiet, StopFailed
<1>2. InDevice = <<>> /\ Len(InDevice) = 0
  BY <1>1, EmptyDevice
<1>3. UNCHANGED <<Pending, InDevice, accepted, played, discarded, Mode>> /\ failed' = TRUE
  BY <1>1 DEF StopFailed, queue, totals, workerVars, Pending, InDevice, InFlight, Mode
<1>4. CASE failed
  BY <1>3, <1>4 DEF Seen, IInv, TypeOK
<1>5. CASE ~failed
  <2>1. discarded' = discarded + Len(InDevice)
    BY <1>2, <1>3 DEF IInv, TypeOK
  <2>2. QED
    BY <2>1, <1>2, <1>3, <1>5 DEF Stream!Lose, Stream!Next
<1>6. QED
  BY <1>4, <1>5

(* audio_start resumes a paused device that has not failed.                   *)
LEMMA StartRefines ==
  ASSUME IInv, Start
  PROVE  Stream!Next \/ UNCHANGED Seen
<1>1. UNCHANGED <<Pending, InDevice, accepted, played, discarded, failed>>
  BY DEF Start, queue, totals, workerVars, Pending, InDevice, InFlight
<1>2. ~shutdown /\ shutdown' = shutdown /\ control = "outside" /\ control' = control
  BY DEF IInv, Progress, Start, controlVars
<1>3. CASE active \/ failed
  <2>1. active' = active
    BY <1>2, <1>3 DEF Start, IInv, TypeOK
  <2>2. QED
    BY <2>1, <1>1, <1>2 DEF Mode, Seen
<1>4. CASE ~active /\ ~failed
  <2>1. active' = TRUE
    BY <1>2, <1>4 DEF Start
  <2>2. Mode = "paused" /\ Mode' = "playing"
    BY <2>1, <1>2, <1>4 DEF Mode
  <2>3. QED
    BY <2>2, <1>1, <1>4 DEF Stream!Resume, Stream!Next
<1>5. QED
  BY <1>3, <1>4

(* Every other step is about threads, the lock or the producer's wishes, and  *)
(* the caller of PcmStream sees none of it.                                   *)
LEMMA RestIsUnseen ==
  ASSUME IInv,
         \/ WorkerLock \/ WorkerExit \/ WorkerSleep
         \/ \E n \in 1 .. MaxWrite : WriteCall(n)
         \/ WriteLock \/ WriteReturn \/ WriteWait
         \/ StopWait \/ StopLock \/ \E ok \in BOOLEAN : StopDrained(ok)
         \/ \E enabled \in BOOLEAN : SetNonblock(enabled)
         \/ DestroyStep
         \/ \E th \in Thread : SpuriousWake(th)
         \/ UNCHANGED vars
  PROVE  UNCHANGED Seen
<1>1. UNCHANGED <<ring, head, count, accepted, played, discarded, frames, output,
                  active, shutdown, failed>>
  BY DEF WorkerLock, WorkerExit, WorkerSleep, WriteCall, WriteLock, WriteReturn, WriteWait,
         StopWait, StopLock, StopDrained, SetNonblock, DestroyStep, SpuriousWake, vars,
         fields, queue, totals, workerVars, writerVars, controlVars
<1>2. InFlight' = InFlight
  BY DEF WorkerLock, WorkerExit, WorkerSleep, WriteCall, WriteLock, WriteReturn, WriteWait,
         StopWait, StopLock, StopDrained, SetNonblock, DestroyStep, SpuriousWake, vars,
         fields, queue, totals, workerVars, writerVars, controlVars, InFlight
<1>3. Mode' = Mode
  BY <1>1
     DEF IInv, Progress, WorkerLock, WorkerExit, WorkerSleep, WriteCall, WriteLock, WriteReturn,
         WriteWait, StopWait, StopLock, StopDrained, SetNonblock, DestroyStep, SpuriousWake,
         vars, controlVars, Mode
<1>4. QED
  BY <1>1, <1>2, <1>3 DEF Seen, Pending, InDevice

(* The ring, the two-part copies, the lock and the condition variable give    *)
(* the callers the bounded FIFO of PcmStream, for every grain and capacity:   *)
(* audio_write, audio_stop, audio_start, audio_free and the worker do to the  *)
(* queue, the block in the device and the totals what PcmStream allows.       *)
THEOREM DeviceIsStream == Spec => StreamSpec
<1>1. Init => Stream!Init
  <2>1. ASSUME Init PROVE Pending = <<>> /\ InDevice = <<>> /\ Mode = "playing"
    BY <2>1 DEF Init, Pending, InDevice, InFlight, Mode
  <2>2. QED
    BY <2>1 DEF Init, Stream!Init
<1>2. /\ IInv /\ RingHoldsPending /\ IInv' /\ RingHoldsPending'
      /\ [Next]_vars
      => [Stream!Next]_(Stream!vars)
  <2> SUFFICES ASSUME IInv, RingHoldsPending, IInv', RingHoldsPending', [Next]_vars
               PROVE  Stream!Next \/ UNCHANGED Seen
    BY DEF Seen, Stream!vars
  <2>1. TypeOK'
    BY DEF IInv
  <2>2. CASE WriteCopy
    BY <2>1, <2>2, CopyRefines
  <2>3. CASE WorkerTake
    BY <2>1, <2>3, TakeRefines
  <2>4. CASE \E ok \in BOOLEAN : WorkerReturn(ok)
    BY <2>4, ReturnRefines
  <2>5. CASE StopBegin \/ DestroyBegin
    BY <2>5, DropRefines
  <2>6. CASE StopQuiet \/ DestroyJoin
    BY <2>6, QuietRefines
  <2>7. CASE StopFailed
    BY <2>7, DrainRefines
  <2>8. CASE Start
    BY <2>8, StartRefines
  <2>9. QED
    BY <2>2, <2>3, <2>4, <2>5, <2>6, <2>7, <2>8, RestIsUnseen
       DEF Next, WorkerStep, WriterStep, StopStep, DestroyRest, Terminated
<1>3. QED
  BY <1>1, <1>2, Inductive, RingHoldsPendingCorrect, PTL DEF Spec, StreamSpec, Stream!Spec
=============================================================================
