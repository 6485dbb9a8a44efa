------------------------------ MODULE PadProofs ------------------------------
(***************************************************************************)
(* The pad, from the device to the engine.  What the device says is what    *)
(* its last news said, for any number of buttons, any size of the buffer    *)
(* and any timestamps; the handle and the user service last as long as the  *)
(* state.  And the engine's keys and the adapter's agree, for any number of *)
(* keys and of calls inside one another, and repeats keep their delays.     *)
(***************************************************************************)
EXTENDS PadDevice, PadKeys, FiniteSetTheorems, SequenceTheorems, TLAPS

-----------------------------------------------------------------------------
(* The device.                                                             *)

Buffer == [1 .. Capacity -> Sample]
PadState == [exists : {TRUE}, handle : BOOLEAN, owns : BOOLEAN,
             samples : Buffer, count : 0 .. Capacity,
             buttons : SUBSET Button]

DeviceIInv ==
  /\ state = NoState \/ state \in PadState
  /\ opening \in -1 .. Attempts - 1 /\ (opening >= 0 => state.exists)
  /\ service \in {"no", "ours", "theirs"} /\ handle \in BOOLEAN
  /\ HandleAndService /\ ReportsLastNews
-----------------------------------------------------------------------------
USE PadAssumption DEF PadAssumption

(* The sample to act on: no other is newer, and none before it is as new.     *)
Best(batch, n, i) ==
  /\ i \in 1 .. n
  /\ \A j \in 1 .. n : batch[j].time < batch[i].time \/ (batch[j].time = batch[i].time /\ i <= j)

(* A batch has one: among the sets of samples that come before some sample    *)
(* one is smallest, and it is empty.                                         *)
LEMMA BestExists ==
  ASSUME NEW n \in Nat \ {0}, NEW batch \in [1 .. n -> Sample]
  PROVE  \E i \in 1 .. n : Best(batch, n, i)
<1> DEFINE Before(j, i) == batch[j].time > batch[i].time \/ (batch[j].time = batch[i].time /\ j < i)
           Ahead(i) == {j \in 1 .. n : Before(j, i)}
           T == {Ahead(i) : i \in 1 .. n}
<1>1. \A i \in 1 .. n : batch[i].time \in Nat
  BY DEF Sample
<1>2. T \subseteq FiniteSubsetsOf(1 .. n)
  <2>1. IsFiniteSet(1 .. n)
    BY FS_Interval
  <2>2. FiniteSubsetsOf(1 .. n) = SUBSET (1 .. n)
    BY <2>1, FS_FiniteSubsetsOfFinite
  <2>3. QED
    BY <2>2
<1>3. T # {}
  <2>1. Ahead(1) \in T
    OBVIOUS
  <2>2. QED
    BY <2>1
<1>4. PICK x \in T : \A y \in T : <<y, x>> \notin StrictSubsetOrdering(1 .. n)
  <2> HIDE DEF T
  <2>1. QED
    BY <1>2, <1>3, FS_StrictSubsetOrderingWellFounded, WFMin
<1>5. PICK i \in 1 .. n : x = Ahead(i)
  OBVIOUS
<1>6. \A j \in Ahead(i) : FALSE
  <2>1. SUFFICES ASSUME NEW j \in Ahead(i) PROVE FALSE
    OBVIOUS
  <2>2. Ahead(j) \subseteq Ahead(i) /\ j \notin Ahead(j)
    BY <1>1, <2>1
  <2>3. Ahead(j) # Ahead(i)
    BY <2>1, <2>2
  <2>4. Ahead(j) \in T
    BY <2>1
  <2>5. Ahead(j) \in SUBSET (1 .. n) /\ Ahead(i) \in SUBSET (1 .. n)
    OBVIOUS
  <2> HIDE DEF T, Ahead
  <2>6. <<Ahead(j), Ahead(i)>> \in StrictSubsetOrdering(1 .. n)
    BY <2>2, <2>3, <2>5 DEF StrictSubsetOrdering
  <2>7. QED
    BY <1>4, <1>5, <2>4, <2>6
<1>7. \A j \in 1 .. n : ~Before(j, i)
  BY <1>6
<1>8. Best(batch, n, i)
  <2>1. \A j \in 1 .. n : batch[j].time < batch[i].time \/ (batch[j].time = batch[i].time /\ i <= j)
    <3>1. SUFFICES ASSUME NEW j \in 1 .. n
                   PROVE  batch[j].time < batch[i].time \/ (batch[j].time = batch[i].time /\ i <= j)
      OBVIOUS
    <3>2. ~(batch[j].time > batch[i].time) /\ ~(batch[j].time = batch[i].time /\ j < i)
      BY <1>7
    <3>3. batch[j].time \in Nat /\ batch[i].time \in Nat
      BY <1>1
    <3>4. QED
      BY <3>2, <3>3
  <2>2. QED
    BY <2>1 DEF Best
<1>9. QED
  BY <1>8

(* No other sample is the one to act on.                                     *)
LEMMA BestUnique ==
  ASSUME NEW n \in Nat \ {0}, NEW batch \in [1 .. n -> Sample],
         NEW i, NEW j, Best(batch, n, i), Best(batch, n, j)
  PROVE  i = j
<1>1. \A k \in 1 .. n : batch[k].time \in Nat
  BY DEF Sample
<1>2. QED
  BY <1>1 DEF Best

(* Both readings of a batch find it.                                         *)
LEMMA NewestIs ==
  ASSUME NEW n \in Nat \ {0}, NEW batch \in [1 .. n -> Sample], NEW i, Best(batch, n, i),
         NEW st, st.count = n, \A j \in 1 .. n : st.samples[j] = batch[j]
  PROVE  Newest(st) = i /\ Current(st) = 1 .. n
<1>1. Current(st) = 1 .. n
  BY DEF Current
<1>2. \A k : k \in Current(st) /\ (\A j \in Current(st) :
                  \/ st.samples[j].time < st.samples[k].time
                  \/ st.samples[j].time = st.samples[k].time /\ k <= j) <=> Best(batch, n, k)
  BY <1>1 DEF Best
<1>3. QED
  BY <1>1, <1>2, BestUnique DEF Newest

(* LatestOf takes its reading from that sample.                              *)
LEMMA LatestIs ==
  ASSUME NEW n \in Nat \ {0}, NEW batch \in [1 .. n -> Sample], NEW i, Best(batch, n, i)
  PROVE  LatestOf(batch) = IF Usable(batch[i])
                           THEN [buttons |-> batch[i].buttons, axis |-> batch[i].axis]
                           ELSE Nothing
<1> DEFINE latest == {k \in DOMAIN batch : \A j \in DOMAIN batch : batch[j].time <= batch[k].time}
<1>1. \A k \in 1 .. n : batch[k].time \in Nat
  BY DEF Sample
<1>2. \A k : k \in latest /\ (\A j \in latest : k <= j) <=> k = i
  <2>1. i \in latest /\ \A j \in latest : i <= j
    BY <1>1 DEF Best
  <2>2. \A k \in latest : (\A j \in latest : k <= j) => k = i
    BY <1>1, <2>1 DEF Best
  <2>3. QED
    BY <2>1, <2>2
<1>3. (CHOOSE k \in latest : \A j \in latest : k <= j) = i
  <2> HIDE DEF latest
  <2>1. QED
    BY <1>2
<1>4. QED
  BY <1>3 DEF LatestOf
-----------------------------------------------------------------------------
(* A state that exists has all its parts.                                    *)
LEMMA PadFields ==
  ASSUME NEW st \in PadState
  PROVE  /\ st.exists = TRUE /\ st.handle \in BOOLEAN /\ st.owns \in BOOLEAN
         /\ st.samples \in Buffer /\ st.count \in 0 .. Capacity
         /\ st.buttons \subseteq Button
  BY DEF PadState

(* The state object of an open pad is complete.                              *)
LEMMA OpenedState ==
  ASSUME DeviceIInv, state.exists
  PROVE  state \in PadState /\ state.exists = TRUE
<1>1. ~NoState.exists
  BY DEF NoState
<1>2. QED
  BY <1>1, PadFields, Zenon DEF DeviceIInv

(* What a poll leaves to be read is what the batch says: the samples of an    *)
(* earlier batch that are still in the buffer are not looked at.             *)
LEMMA PollKeeps ==
  ASSUME DeviceIInv, PollNews
  PROVE  DeviceIInv'
<1>0. PICK n \in 1 .. Capacity :
        \E batch \in [1 .. n -> Sample] : ReadPad(batch) /\ report' = LatestOf(batch)
  BY DEF PollNews
<1>1. PICK batch \in [1 .. n -> Sample] : ReadPad(batch) /\ report' = LatestOf(batch)
  BY <1>0
<1> DEFINE filled == [state EXCEPT
                   !.samples = [i \in 1 .. Capacity |->
                                  IF i <= Len(batch) THEN batch[i] ELSE @[i]],
                   !.count = Len(batch)]
           shown == IF HasNewest(filled) THEN filled.samples[Newest(filled)].buttons ELSE {}
<1>2. n \in Nat \ {0} /\ Len(batch) = n /\ state \in PadState
  <2>1. state.exists
    BY <1>1 DEF ReadPad
  <2>2. QED
    BY <2>1, OpenedState
<1>3. PICK i \in 1 .. n : Best(batch, n, i)
  BY <1>2, BestExists
<1>4. /\ filled \in PadState /\ filled.count = n
      /\ \A j \in 1 .. n : filled.samples[j] = batch[j]
  <2> DEFINE f == [j \in 1 .. Capacity |-> IF j <= Len(batch) THEN batch[j] ELSE state.samples[j]]
  <2>0. state.samples \in Buffer
    BY <1>2, PadFields
  <2>1. f \in Buffer /\ \A j \in 1 .. n : f[j] = batch[j]
    <3>1. \A j \in 1 .. Capacity : f[j] \in Sample
      BY <1>2, <2>0 DEF Buffer
    <3>2. n <= Capacity
      OBVIOUS
    <3>3. QED
      BY <1>2, <3>1, <3>2 DEF Buffer
  <2>2. filled = [state EXCEPT !.samples = f, !.count = n]
    BY <1>2
  <2>3. n \in 0 .. Capacity
    OBVIOUS
  <2> HIDE DEF f, filled
  <2>4. filled \in PadState /\ filled.samples = f /\ filled.count = n
    BY <1>2, <2>1, <2>2, <2>3 DEF PadState
  <2>5. QED
    BY <2>1, <2>4
<1>5. state' = [filled EXCEPT !.buttons = shown]
  BY <1>1 DEF ReadPad
<1> HIDE DEF filled, shown
<1>6. Newest(filled) = i /\ Current(filled) = 1 .. n
  BY <1>2, <1>3, <1>4, NewestIs
<1>7. batch[i] \in Sample /\ filled.samples[i] = batch[i]
  BY <1>3, <1>4
<1>8. shown = IF Usable(batch[i]) THEN batch[i].buttons ELSE {}
  BY <1>3, <1>6, <1>7 DEF shown, HasNewest
<1>9. shown \subseteq Button
  BY <1>7, <1>8 DEF Sample
<1>10. /\ state' \in PadState /\ state'.buttons = shown /\ state'.count = n
       /\ state'.samples = filled.samples
       /\ state'.handle = filled.handle /\ state'.owns = filled.owns
  BY <1>4, <1>5, <1>9 DEF PadState
<1>11. state'.handle = state.handle /\ state'.owns = state.owns
  BY <1>2, <1>10 DEF filled, PadState
<1>12. \A j \in 1 .. n : state'.samples[j] = batch[j]
  BY <1>4, <1>10
<1>13. Newest(state') = i /\ Current(state') = 1 .. n
  BY <1>2, <1>3, <1>10, <1>12, NewestIs
<1>14. report' = IF Usable(batch[i])
                 THEN [buttons |-> batch[i].buttons, axis |-> batch[i].axis]
                 ELSE Nothing
  BY <1>1, <1>2, <1>3, LatestIs
<1>15. state'.exists = TRUE /\ state'.samples[i] = batch[i]
  BY <1>7, <1>10 DEF PadState
<1>16. Buttons' = shown
  BY <1>10, <1>15 DEF Buttons
<1>17. Axis' = (Usable(batch[i]) /\ batch[i].axis)
  BY <1>3, <1>13, <1>15 DEF Axis, HasNewest
<1>18. ReportsLastNews'
  <2>1. batch[i].axis \in BOOLEAN
    BY <1>7 DEF Sample
  <2>2. CASE Usable(batch[i])
    <3>1. report' = [buttons |-> batch[i].buttons, axis |-> batch[i].axis]
      BY <1>14, <2>2
    <3>2. Buttons' = report'.buttons
      BY <1>8, <1>16, <2>2, <3>1
    <3>3. report'.axis = batch[i].axis
      BY <3>1
    <3>4. Axis' = batch[i].axis
      BY <1>17, <2>1, <2>2, Zenon
    <3>5. QED
      BY <3>2, <3>3, <3>4 DEF ReportsLastNews
  <2>3. CASE ~Usable(batch[i])
    <3>1. report' = Nothing
      BY <1>14, <2>3
    <3>2. Buttons' = {} /\ report'.buttons = {} /\ report'.axis = FALSE
      BY <1>8, <1>16, <2>3, <3>1 DEF Nothing
    <3>3. Axis' = FALSE
      BY <1>17, <2>3, Zenon
    <3>4. QED
      BY <3>2, <3>3 DEF ReportsLastNews
  <2>4. QED
    BY <2>2, <2>3
<1>19. UNCHANGED <<opening, service, handle>> /\ state.exists
  BY <1>1 DEF ReadPad
<1>20. HandleAndService'
  BY <1>11, <1>15, <1>19 DEF DeviceIInv, HandleAndService
<1>21. QED
  BY <1>10, <1>15, <1>18, <1>19, <1>20 DEF DeviceIInv

(* The other steps: opening, an error, closing.                              *)
LEMMA OpenBeginKeeps ==
  ASSUME DeviceIInv, OpenBegin
  PROVE  DeviceIInv'
<1>1. PICK owns \in BOOLEAN, goesOn \in BOOLEAN :
        /\ owns => service = "no"
        /\ service' = IF owns THEN "ours" ELSE service
        /\ state' = [NewState EXCEPT !.owns = owns]
        /\ opening' = IF goesOn THEN 0 ELSE -1
  BY DEF OpenBegin
<1>2. ~state.exists /\ UNCHANGED <<handle, report>>
  BY DEF OpenBegin
<1>3. [i \in 1 .. Capacity |-> NoSample] \in [1 .. Capacity -> Sample]
  BY DEF NoSample, Sample
<1>4. /\ state' \in PadState /\ state'.exists = TRUE /\ state'.handle = FALSE
      /\ state'.owns = owns /\ state'.count = 0 /\ state'.buttons = {}
  <2> DEFINE f == [i \in 1 .. Capacity |-> NoSample]
  <2>1. f \in Buffer
    BY <1>3 DEF Buffer
  <2>2. state' = [exists |-> TRUE, handle |-> FALSE, owns |-> owns,
                  samples |-> f, count |-> 0, buttons |-> {}]
    BY <1>1 DEF NewState
  <2> HIDE DEF f
  <2>3. QED
    BY <2>1, <2>2 DEF PadState
<1>5. Current(state') = {}
  BY <1>4 DEF Current
<1>6. Buttons' = {} /\ Axis' = FALSE
  BY <1>4, <1>5 DEF Buttons, Axis, HasNewest
<1>7. report.buttons = {} /\ report.axis = FALSE
  BY <1>2 DEF DeviceIInv, ReportsLastNews, Buttons, Axis
<1>8. ReportsLastNews'
  BY <1>2, <1>6, <1>7 DEF ReportsLastNews
<1>9. HandleAndService' /\ service' \in {"no", "ours", "theirs"}
  BY <1>1, <1>2, <1>4 DEF DeviceIInv, HandleAndService
<1>10. opening' \in -1 .. Attempts - 1
  BY <1>1
<1>11. QED
  BY <1>2, <1>4, <1>8, <1>9, <1>10 DEF DeviceIInv

(* An attempt at opening keeps the invariant.                                *)
LEMMA OpenAttemptKeeps ==
  ASSUME DeviceIInv, OpenAttempt
  PROVE  DeviceIInv'
<1>1. state \in PadState /\ state.exists = TRUE
  BY OpenedState DEF DeviceIInv, OpenAttempt
<1>2. CASE /\ state' = [state EXCEPT !.handle = TRUE]
           /\ handle' = TRUE /\ opening' = -1
  <2>1. /\ state' \in PadState /\ state'.exists = TRUE /\ state'.handle = TRUE
        /\ state'.owns = state.owns /\ state'.count = state.count
        /\ state'.samples = state.samples /\ state'.buttons = state.buttons
    BY <1>1, <1>2 DEF PadState
  <2>2. Current(state') = Current(state) /\ Newest(state') = Newest(state)
    BY <2>1 DEF Current, Newest
  <2>3. Axis' = Axis /\ Buttons' = Buttons
    BY <1>1, <2>1, <2>2 DEF Axis, Buttons, HasNewest
  <2>4. UNCHANGED <<service, report>>
    BY DEF OpenAttempt
  <2>5. ReportsLastNews'
    BY <2>3, <2>4 DEF DeviceIInv, ReportsLastNews
  <2>6. HandleAndService'
    BY <1>1, <1>2, <2>1, <2>4 DEF DeviceIInv, HandleAndService
  <2>7. QED
    BY <1>2, <2>1, <2>4, <2>5, <2>6 DEF DeviceIInv
<1>3. CASE /\ opening' = IF opening + 1 = Attempts THEN -1 ELSE opening + 1
           /\ UNCHANGED <<state, handle>>
  <2>1. UNCHANGED <<state, handle, service, report>>
    BY <1>3 DEF OpenAttempt
  <2>2. ReportsLastNews' /\ HandleAndService'
    BY <2>1, ZenonT(30) DEF DeviceIInv, ReportsLastNews, HandleAndService, Buttons, Axis, HasNewest, Current, Newest
  <2>3. opening' \in -1 .. Attempts - 1
    BY <1>3 DEF DeviceIInv, OpenAttempt
  <2>4. QED
    BY <1>1, <2>1, <2>2, <2>3 DEF DeviceIInv
<1>4. QED
  BY <1>2, <1>3 DEF OpenAttempt

(* So does a refused reading,                                                *)
LEMMA RefusedKeeps ==
  ASSUME DeviceIInv, PollRefused
  PROVE  DeviceIInv'
<1>1. state \in PadState /\ state.exists = TRUE
  BY OpenedState DEF DeviceIInv, PollRefused
<1>2. /\ state' \in PadState /\ state'.exists = TRUE /\ state'.handle = state.handle
      /\ state'.owns = state.owns /\ state'.count = 0 /\ state'.buttons = {}
  <2>1. state' = [state EXCEPT !.count = 0, !.buttons = {}]
    BY DEF PollRefused
  <2>2. 0 \in 0 .. Capacity /\ {} \in SUBSET Button
    OBVIOUS
  <2>3. [state EXCEPT !.count = 0, !.buttons = {}] \in PadState
    BY <1>1, <2>2 DEF PadState
  <2>4. QED
    BY <1>1, <2>1, <2>3, PadFields DEF PadState
<1>3. Current(state') = {}
  BY <1>2 DEF Current
<1>4. Buttons' = {} /\ Axis' = FALSE
  BY <1>2, <1>3 DEF Buttons, Axis, HasNewest
<1>5. ReportsLastNews'
  BY <1>4 DEF ReportsLastNews, PollRefused, Nothing
<1>6. UNCHANGED <<opening, service, handle>>
  BY DEF PollRefused
<1>7. HandleAndService'
  BY <1>1, <1>2, <1>6 DEF DeviceIInv, HandleAndService
<1>8. QED
  BY <1>2, <1>5, <1>6, <1>7 DEF DeviceIInv

(* and closing.                                                              *)
LEMMA CloseKeeps ==
  ASSUME DeviceIInv, Close
  PROVE  DeviceIInv'
<1>1. /\ state \in PadState /\ state.exists = TRUE /\ opening = -1
      /\ state.owns \in BOOLEAN /\ state.handle \in BOOLEAN
  BY OpenedState, PadFields DEF Close
<1>2. state' = NoState /\ state'.exists = FALSE /\ report' = Nothing /\ UNCHANGED opening
  BY DEF Close, NoState
<1>3. Buttons' = {} /\ Axis' = FALSE
  BY <1>2 DEF Buttons, Axis
<1>4. ReportsLastNews'
  BY <1>2, <1>3 DEF ReportsLastNews, Nothing
<1>5. handle' = FALSE
  BY <1>1, Zenon DEF Close, DeviceIInv, HandleAndService
<1>6. service' \in {"no", "theirs"}
  BY <1>1 DEF Close, DeviceIInv, HandleAndService
<1>7. HandleAndService'
  BY <1>2, <1>5, <1>6 DEF HandleAndService
<1>8. opening' \in -1 .. Attempts - 1 /\ opening' = -1
  BY <1>1, <1>2
<1>9. /\ state' = NoState \/ state' \in PadState
      /\ opening' \in -1 .. Attempts - 1 /\ (opening' >= 0 => state'.exists)
  BY <1>2, <1>8
<1>10. service' \in {"no", "ours", "theirs"} /\ handle' \in BOOLEAN
  BY <1>5, <1>6
<1>11. QED
  BY <1>4, <1>7, <1>9, <1>10 DEF DeviceIInv

(* What is kept from step to step.                                           *)
THEOREM DeviceInductive == DeviceSpec => []DeviceIInv
<1>1. DeviceInit => DeviceIInv
  <2> SUFFICES ASSUME DeviceInit PROVE DeviceIInv
    OBVIOUS
  <2>1. state = NoState /\ state.exists = FALSE /\ opening = -1
    BY DEF DeviceInit, NoState
  <2>2. opening \in -1 .. Attempts - 1 /\ ~(opening >= 0)
    BY <2>1
  <2>3. Buttons = {} /\ Axis = FALSE
    BY <2>1, Zenon DEF Buttons, Axis
  <2>4. ReportsLastNews
    BY <2>3 DEF DeviceInit, ReportsLastNews, Nothing
  <2>5. HandleAndService
    BY <2>1 DEF DeviceInit, HandleAndService
  <2>6. QED
    BY <2>1, <2>2, <2>4, <2>5 DEF DeviceInit, DeviceIInv
<1>2. DeviceIInv /\ [DeviceNext]_deviceVars => DeviceIInv'
  <2> SUFFICES ASSUME DeviceIInv, [DeviceNext]_deviceVars PROVE DeviceIInv'
    OBVIOUS
  <2>1. CASE UNCHANGED deviceVars
    BY <2>1, ZenonT(30) DEF deviceVars, DeviceIInv, ReportsLastNews, HandleAndService, Buttons, Axis, HasNewest,
                Current, Newest
  <2>2. QED
    BY <2>1, PollKeeps, OpenBeginKeeps, OpenAttemptKeeps, RefusedKeeps, CloseKeeps DEF DeviceNext
<1>3. QED
  BY <1>1, <1>2, PTL DEF DeviceSpec

(* Buttons and axes always say what the pad's last news said.                *)
THEOREM ReportsLastNewsCorrect == DeviceSpec => []ReportsLastNews
<1>1. DeviceIInv => ReportsLastNews
  BY DEF DeviceIInv
<1>2. QED
  BY <1>1, DeviceInductive, PTL

(* The handle and the user service last as long as the state, and a service   *)
(* someone else began is never ended.                                        *)
THEOREM ServiceIsReturnedCorrect == DeviceSpec => ServiceIsReturned
<1>1. DeviceIInv => DeviceTypeOK /\ HandleAndService
  BY OpenedState, PadFields DEF DeviceIInv, DeviceTypeOK, Buffer
<1>2. DeviceIInv /\ [DeviceNext]_deviceVars => [service = "theirs" => service' = "theirs"]_deviceVars
  <2> SUFFICES ASSUME DeviceIInv, DeviceNext, service = "theirs" PROVE service' = "theirs"
    OBVIOUS
  <2>1. CASE OpenBegin
    BY <2>1 DEF OpenBegin
  <2>2. CASE OpenAttempt \/ PollRefused
    BY <2>2 DEF OpenAttempt, PollRefused
  <2>3. CASE PollNews
    BY <2>3 DEF PollNews, ReadPad
  <2>4. CASE Close
    BY <2>4 DEF Close, DeviceIInv, HandleAndService
  <2>5. QED
    BY <2>1, <2>2, <2>3, <2>4 DEF DeviceNext
<1>3. QED
  BY <1>1, <1>2, DeviceInductive, PTL DEF DeviceSpec, ServiceIsReturned

-----------------------------------------------------------------------------
(* The keys.                                                               *)

Call == [commands : BOOLEAN, buttons : SUBSET Key, tilts : SUBSET Key,
         at : 1 .. Keys + 1, inEvent : BOOLEAN, down : BOOLEAN]

(* Every call but the innermost is inside an event, which is about a key.    *)
CallsTyped ==
  /\ calls \in Seq(Call)
  /\ \A i \in 1 .. Depth : calls[i].inEvent => calls[i].at \in Key

(* IN_ClearStates only releases, so nothing is called from inside it, and what *)
(* it has been through is up.                                                *)
ClearsGoThrough ==
  \A i \in 1 .. Depth : ~calls[i].commands =>
    /\ i = Depth /\ ~calls[i].down
    /\ \A k \in Key : k < calls[i].at \/ (k = calls[i].at /\ calls[i].inEvent) => ~held[k]

(* What is left of a key's delay and what has passed of it make up the delay.  *)
Delay(k) == IF k \in repeated THEN NextRepeat ELSE FirstRepeat
DelaysKept == \A k \in engine : left[k] + since[k] >= Delay(k)

IInv == TypeOK /\ EngineAgrees /\ CallsTyped /\ ClearsGoThrough /\ DelaysKept
-----------------------------------------------------------------------------
USE KeysAssumption DEF KeysAssumption

(* No call is running at first.                                              *)
LEMMA CallsEmpty == <<>> \in Seq(Call) /\ Len(<<>>) = 0
OBVIOUS

(* What the three ways to change the calls make of them. *)
LEMMA WithTopIs ==
  ASSUME calls \in Seq(Call), Depth > 0, NEW r \in Call, calls' = WithTop(r)
  PROVE  /\ calls' \in Seq(Call) /\ Depth' = Depth /\ Top' = r
         /\ \A i \in 1 .. Depth - 1 : calls'[i] = calls[i]
BY DEF WithTop, Depth, Top

(* A call begun lies on the others.                                          *)
LEMMA AppendIs ==
  ASSUME calls \in Seq(Call), NEW r \in Call, calls' = Append(calls, r)
  PROVE  /\ calls' \in Seq(Call) /\ Depth' = Depth + 1 /\ Top' = r
         /\ \A i \in 1 .. Depth : calls'[i] = calls[i]
BY DEF Depth, Top

(* A call that returns leaves the others.                                    *)
LEMMA ReturnIs ==
  ASSUME calls \in Seq(Call), Depth > 0, calls' = SubSeq(calls, 1, Depth - 1)
  PROVE  /\ calls' \in Seq(Call) /\ Depth' = Depth - 1
         /\ \A i \in 1 .. Depth - 1 : calls'[i] = calls[i]
<1> DEFINE n == Depth - 1
<1>1. n \in Nat /\ \A i \in 1 .. n : calls[i] \in Call
  BY DEF Depth
<1> HIDE DEF n
<1>2. /\ SubSeq(calls, 1, n) \in Seq(Call) /\ Len(SubSeq(calls, 1, n)) = n
      /\ \A i \in 1 .. n : SubSeq(calls, 1, n)[i] = calls[i]
  <2>1. n - 1 + 1 = n /\ \A i \in 1 .. n : 1 + i - 1 = i
    BY <1>1
  <2>2. QED
    BY <1>1, <2>1, SubSeqProperties
<1>3. calls' = SubSeq(calls, 1, n)
  BY DEF n
<1>4. QED
  BY <1>2, <1>3 DEF n, Depth

(* The innermost call. *)
LEMMA TopIs ==
  ASSUME calls \in Seq(Call)
  PROVE  Depth \in Nat /\ (Depth > 0 => Top \in Call /\ Top = calls[Depth] /\ Depth \in 1 .. Depth)
BY DEF Depth, Top

(* The constants are numbers.                                                *)
LEMMA LongestIs ==
  /\ Longest \in Nat /\ FirstRepeat \in 1 .. Longest /\ NextRepeat \in 1 .. Longest
  /\ MaxDepth \in Nat \ {0} /\ Keys \in Nat \ {0}
BY DEF Longest

(* Whether a key is down is a truth value.                                   *)
LEMMA DownIs == ASSUME NEW c, NEW k PROVE Down(c, k) \in BOOLEAN
BY Zenon DEF Down

(* A call that begins. *)
LEMMA CallBegins ==
  ASSUME IInv, CommandsCall \/ ClearCall
  PROVE  \E r \in Call : /\ calls' = Append(calls, r) /\ ~r.inEvent /\ ~r.down /\ r.at = 1
                         /\ Depth > 0 => Top.inEvent /\ Top.down /\ Depth < MaxDepth
                         /\ UNCHANGED <<outside, keys, seen>>
<1>1. Depth \in Nat /\ pad \in Pad /\ 1 \in 1 .. Keys + 1
  BY TopIs DEF IInv, TypeOK, CallsTyped
<1>2. Callable => (Depth > 0 => Top.inEvent /\ Top.down /\ Depth < MaxDepth)
  BY <1>1 DEF Callable, InEvent
<1>3. Snapshot.buttons \in SUBSET Key /\ Snapshot.tilts \in SUBSET Key
  BY <1>1 DEF Snapshot, Pad
<1>4. CASE CommandsCall
  <2> DEFINE r == [commands |-> TRUE, buttons |-> Snapshot.buttons, tilts |-> Snapshot.tilts,
                   at |-> 1, inEvent |-> FALSE, down |-> FALSE]
  <2>1. r \in Call /\ ~r.inEvent /\ ~r.down /\ r.at = 1
    BY <1>1, <1>3 DEF Call
  <2>2. QED
    BY <1>2, <1>4, <2>1 DEF CommandsCall
<1>5. CASE ClearCall
  <2> DEFINE r == [commands |-> FALSE, buttons |-> {}, tilts |-> {},
                   at |-> 1, inEvent |-> FALSE, down |-> FALSE]
  <2>1. r \in Call /\ ~r.inEvent /\ ~r.down /\ r.at = 1
    BY <1>1 DEF Call
  <2>2. QED
    BY <1>2, <1>5, <2>1 DEF ClearCall
<1>6. QED
  BY <1>4, <1>5

(* A step of the innermost call. *)
LEMMA CallGoesOn ==
  ASSUME IInv, Transition \/ Repeat \/ Same \/ EventReturn
  PROVE  \E r \in Call :
           /\ calls' = WithTop(r) /\ Depth > 0 /\ r.commands = Top.commands
           /\ r.inEvent => r.at \in Key /\ r.at = Top.at
           /\ UNCHANGED outside
<1>1. Depth \in Nat /\ (Depth > 0 => Top \in Call /\ Top = calls[Depth] /\ Depth \in 1 .. Depth)
  BY TopIs DEF IInv, CallsTyped
<1>2. CASE Transition \/ Repeat
  <2>1. PICK d \in BOOLEAN : calls' = WithTop([Top EXCEPT !.inEvent = TRUE, !.down = d])
    <3>1. Down(Top, Top.at) \in BOOLEAN
      BY DownIs
    <3>2. QED
      BY <1>2, <3>1 DEF Transition, Repeat, Tell
  <2>2. Depth > 0 /\ Top.at <= Keys /\ UNCHANGED outside
    BY <1>2 DEF Transition, Repeat, Running, outside
  <2>3. Top.at \in Key
    BY <1>1, <2>2 DEF Call, Key
  <2> DEFINE r == [Top EXCEPT !.inEvent = TRUE, !.down = d]
  <2>4. r \in Call /\ r.commands = Top.commands /\ r.at = Top.at
    BY <1>1, <2>2 DEF Call
  <2>5. QED
    BY <2>1, <2>2, <2>3, <2>4
<1>3. CASE Same
  <2>1. Depth > 0 /\ Top.at <= Keys /\ ~Top.inEvent
    BY <1>3 DEF Same, Running
  <2> DEFINE r == [Top EXCEPT !.at = Top.at + 1]
  <2>2. r \in Call /\ r.commands = Top.commands /\ ~r.inEvent
    BY <1>1, <2>1 DEF Call
  <2>3. calls' = WithTop(r) /\ UNCHANGED outside
    BY <1>3 DEF Same
  <2>4. QED
    BY <2>1, <2>2, <2>3
<1>4. CASE EventReturn
  <2>1. Depth > 0 /\ Top.inEvent
    BY <1>4 DEF EventReturn, InEvent
  <2>2. Top.at \in Key
    BY <1>1, <2>1 DEF IInv, CallsTyped
  <2> DEFINE r == [Top EXCEPT !.at = @ + 1, !.inEvent = FALSE]
  <2>3. Top.at + 1 \in 1 .. Keys + 1
    BY <2>2, LongestIs DEF Key
  <2>4. r \in Call /\ r.commands = Top.commands /\ ~r.inEvent
    BY <1>1, <2>1, <2>3 DEF Call
  <2>5. calls' = WithTop(r) /\ UNCHANGED outside
    BY <1>4 DEF EventReturn
  <2>6. QED
    BY <2>1, <2>4, <2>5
<1>5. QED
  BY <1>2, <1>3, <1>4

(* The calls keep their shape. *)
CallsShape == /\ CallsTyped /\ Depth <= MaxDepth
              /\ \A i \in 1 .. Depth : calls[i].at \in 1 .. Keys + 1 /\ (i < Depth => calls[i].inEvent)

(* Every step keeps the shape of the stack.                                  *)
LEMMA ShapeStep == IInv /\ [Next]_vars => CallsShape'
<1> SUFFICES ASSUME IInv, [Next]_vars PROVE CallsShape'
  OBVIOUS
<1> USE DEF CallsShape, CallsTyped
<1>0. /\ calls \in Seq(Call) /\ Depth \in Nat /\ Depth <= MaxDepth
      /\ Depth > 0 => Top \in Call /\ Top = calls[Depth] /\ Depth \in 1 .. Depth
      /\ \A i \in 1 .. Depth : (calls[i].inEvent => calls[i].at \in Key) /\ (i < Depth => calls[i].inEvent)
  BY TopIs DEF IInv, TypeOK
<1>bounds. \A c \in Call : c.at \in 1 .. Keys + 1
  BY DEF Call
<1>typed. ASSUME calls' \in Seq(Call), Depth' = Len(calls')
        PROVE  \A i \in 1 .. Depth' : calls'[i].at \in 1 .. Keys + 1
  BY <1>bounds, <1>typed
<1>1. CASE CommandsCall \/ ClearCall
  <2>1. PICK r \in Call : calls' = Append(calls, r) /\ ~r.inEvent
                          /\ (Depth > 0 => Top.inEvent /\ Depth < MaxDepth)
    BY <1>1, CallBegins
  <2>2. calls' \in Seq(Call) /\ Depth' = Depth + 1 /\ Top' = r /\ \A i \in 1 .. Depth : calls'[i] = calls[i]
    BY <1>0, <2>1, AppendIs
  <2>3. calls'[Depth + 1] = r
    BY <2>2 DEF Top
  <2>4. Depth + 1 <= MaxDepth
    BY <1>0, <2>1, LongestIs
  <2>5. \A i \in 1 .. Depth' : calls'[i].at \in 1 .. Keys + 1
    BY <1>typed, <2>2 DEF Depth
  <2>6. \A i \in 1 .. Depth' : (calls'[i].inEvent => calls'[i].at \in Key) /\ (i < Depth' => calls'[i].inEvent)
    <3>1. SUFFICES ASSUME NEW i \in 1 .. Depth + 1
                   PROVE  (calls'[i].inEvent => calls'[i].at \in Key) /\ (i < Depth + 1 => calls'[i].inEvent)
      BY <2>2
    <3>2. CASE i = Depth + 1
      <4>1. ~calls'[i].inEvent
        BY <2>1, <2>3, <3>2, Zenon
      <4>2. ~(i < Depth + 1)
        BY <1>0, <3>2
      <4>3. QED
        BY <4>1, <4>2
    <3>3. CASE i \in 1 .. Depth
      <4>1. calls'[i] = calls[i] /\ (i = Depth => Top.inEvent)
        BY <1>0, <2>1, <2>2, <3>3
      <4>2. QED
        BY <1>0, <3>3, <4>1
    <3>4. QED
      BY <1>0, <3>2, <3>3
  <2>7. QED
    BY <2>2, <2>4, <2>5, <2>6
<1>2. CASE Transition \/ Repeat \/ Same \/ EventReturn
  <2>1. PICK r \in Call : calls' = WithTop(r) /\ Depth > 0 /\ (r.inEvent => r.at \in Key)
    BY <1>2, CallGoesOn
  <2>2. calls' \in Seq(Call) /\ Depth' = Depth /\ Top' = r /\ \A i \in 1 .. Depth - 1 : calls'[i] = calls[i]
    BY <1>0, <2>1, WithTopIs
  <2>3. calls'[Depth] = r
    BY <2>2 DEF Top
  <2>4. \A i \in 1 .. Depth' : calls'[i].at \in 1 .. Keys + 1
    BY <1>typed, <2>2 DEF Depth
  <2>5. \A i \in 1 .. Depth' : (calls'[i].inEvent => calls'[i].at \in Key) /\ (i < Depth' => calls'[i].inEvent)
    <3>1. SUFFICES ASSUME NEW i \in 1 .. Depth'
                   PROVE  (calls'[i].inEvent => calls'[i].at \in Key) /\ (i < Depth' => calls'[i].inEvent)
      OBVIOUS
    <3>2. CASE i = Depth
      BY <1>0, <2>1, <2>2, <2>3, <3>2
    <3>3. CASE i \in 1 .. Depth - 1
      BY <1>0, <2>2, <3>3
    <3>4. QED
      BY <1>0, <2>2, <3>1, <3>2, <3>3
  <2>6. QED
    BY <1>0, <2>2, <2>4, <2>5
<1>3. CASE CallReturn
  <2>1. calls' = SubSeq(calls, 1, Depth - 1) /\ Depth > 0
    BY <1>3 DEF CallReturn, Running
  <2>2. calls' \in Seq(Call) /\ Depth' = Depth - 1 /\ \A i \in 1 .. Depth - 1 : calls'[i] = calls[i]
    BY <1>0, <2>1, ReturnIs
  <2>3. \A i \in 1 .. Depth' : calls'[i].at \in 1 .. Keys + 1
    BY <1>typed, <2>2 DEF Depth
  <2>4. \A i \in 1 .. Depth' : (calls'[i].inEvent => calls'[i].at \in Key) /\ (i < Depth' => calls'[i].inEvent)
    <3>1. SUFFICES ASSUME NEW i \in 1 .. Depth'
                   PROVE  (calls'[i].inEvent => calls'[i].at \in Key) /\ (i < Depth' => calls'[i].inEvent)
      OBVIOUS
    <3>2. i \in 1 .. Depth /\ i < Depth /\ calls'[i] = calls[i]
      BY <1>0, <2>1, <2>2, <3>1
    <3>3. QED
      BY <1>0, <3>2
  <2>5. Depth' \in 0 .. MaxDepth
    BY <1>0, <2>1, <2>2
  <2>6. QED
    BY <2>2, <2>3, <2>4, <2>5
<1>4. CASE Poll \/ SetMenu \/ SetEnabled \/ Tick \/ UNCHANGED vars
  <2>1. calls' = calls /\ Depth' = Depth
    BY <1>4 DEF Poll, SetMenu, SetEnabled, Tick, vars, Depth
  <2>2. QED
    BY <1>0, <1>typed, <2>1 DEF Depth
<1>5. QED
  BY <1>1, <1>2, <1>3, <1>4 DEF Next, Continue

(* The key a running call is at. *)
LEMMA AtKey ==
  ASSUME IInv, Running, Top.at <= Keys
  PROVE  Top.at \in Key /\ held[Top.at] \in BOOLEAN /\ Top.commands \in BOOLEAN /\ Down(Top, Top.at) \in BOOLEAN
<1>1. Top \in Call
  BY TopIs DEF IInv, CallsTyped, Running
<1>2. Top.at \in Key /\ Top.commands \in BOOLEAN
  BY <1>1 DEF Call, Key
<1>3. QED
  BY <1>2, DownIs DEF IInv, TypeOK

(* What an event does to the keys: a change, or a repeat.                    *)
LEMMA TransitionIs ==
  ASSUME IInv, Transition
  PROVE  \E k \in Key, d \in BOOLEAN :
           /\ k = Top.at /\ held[k] = ~d
           /\ held' = [held EXCEPT ![k] = d] /\ left' = [left EXCEPT ![k] = FirstRepeat]
           /\ engine' = IF d THEN engine \union {k} ELSE engine \ {k}
           /\ since' = IF d THEN [since EXCEPT ![k] = 0] ELSE since
           /\ repeated' = repeated \ {k}
           /\ calls' = WithTop([Top EXCEPT !.inEvent = TRUE, !.down = d])
           /\ d = Down(Top, k) /\ Depth > 0 /\ ~Top.inEvent
<1> DEFINE k == Top.at
           d == Down(Top, k)
<1>1. k \in Key /\ d \in BOOLEAN /\ held[k] \in BOOLEAN
  BY AtKey DEF Transition
<1>2. d # held[k]
  BY DEF Transition, Changes
<1>3. held[k] = ~d
  BY <1>1, <1>2
<1>4. Depth > 0 /\ ~Top.inEvent
  BY DEF Transition, Running
<1>5. /\ held' = [held EXCEPT ![k] = d] /\ left' = [left EXCEPT ![k] = FirstRepeat]
      /\ repeated' = repeated \ {k} /\ Tell(k, d)
  BY DEF Transition
<1> HIDE DEF k, d
<1>6. QED
  BY <1>1, <1>3, <1>4, <1>5, Zenon DEF Tell, k, d

(* What a repeat does.                                                       *)
LEMMA RepeatIs ==
  ASSUME IInv, Repeat
  PROVE  \E k \in Key :
           /\ k = Top.at /\ held[k] /\ menu /\ left[k] = 0 /\ Top.commands
           /\ held' = held /\ left' = [left EXCEPT ![k] = NextRepeat]
           /\ engine' = engine \union {k} /\ since' = [since EXCEPT ![k] = 0]
           /\ repeated' = repeated \union {k}
           /\ calls' = WithTop([Top EXCEPT !.inEvent = TRUE, !.down = TRUE])
           /\ Depth > 0 /\ ~Top.inEvent
<1> DEFINE k == Top.at
<1>1. k \in Key /\ held[k] \in BOOLEAN
  BY AtKey DEF Repeat
<1>2. held[k] /\ menu /\ left[k] = 0 /\ ~(Down(Top, k) # held[k])
  BY DEF Repeat, Changes, Repeats
<1>3. Top.commands
  <2>1. Down(Top, k) = held[k]
    BY <1>2
  <2>2. Down(Top, k)
    BY <1>2, <2>1
  <2>3. QED
    BY <2>2 DEF Down
<1>4. /\ held' = held /\ left' = [left EXCEPT ![k] = NextRepeat]
      /\ repeated' = repeated \union {k} /\ Tell(k, TRUE)
      /\ Depth > 0 /\ ~Top.inEvent
  BY DEF Repeat, Running
<1> HIDE DEF k
<1>5. QED
  BY <1>1, <1>2, <1>3, <1>4, Zenon DEF Tell, k

(* Every step keeps keys, engine and delays together.                        *)
LEMMA KeysStep == IInv /\ [Next]_vars => (TypeOK /\ EngineAgrees /\ DelaysKept)'
<1> SUFFICES ASSUME IInv, [Next]_vars PROVE (TypeOK /\ EngineAgrees /\ DelaysKept)'
  OBVIOUS
<1> DEFINE Told == /\ held \in [Key -> BOOLEAN]
                   /\ left \in [Key -> 0 .. Longest] /\ since \in [Key -> 0 .. Longest]
                   /\ engine \subseteq Key /\ repeated \subseteq Key
                   /\ EngineAgrees /\ DelaysKept
<1> USE DEF outside, keys, seen
<1>0. Told /\ pad \in Pad /\ enabled \in BOOLEAN /\ menu \in BOOLEAN
  BY DEF IInv, TypeOK
<1>shape. CallsShape'
  BY ShapeStep
<1>1. CASE Transition
  <2>1. PICK k \in Key, d \in BOOLEAN :
           /\ held[k] = ~d
           /\ held' = [held EXCEPT ![k] = d] /\ left' = [left EXCEPT ![k] = FirstRepeat]
           /\ engine' = IF d THEN engine \union {k} ELSE engine \ {k}
           /\ since' = IF d THEN [since EXCEPT ![k] = 0] ELSE since
           /\ repeated' = repeated \ {k}
    BY <1>1, TransitionIs, Zenon
  <2>2. held' \in [Key -> BOOLEAN] /\ engine' \subseteq Key /\ repeated' \subseteq Key
    BY <1>0, <2>1
  <2>3. left' \in [Key -> 0 .. Longest] /\ since' \in [Key -> 0 .. Longest]
    BY <1>0, <2>1, LongestIs
  <2>4. EngineAgrees'
    <3>1. \A j \in Key : held'[j] <=> IF j = k THEN d ELSE held[j]
      BY <1>0, <2>1
    <3>2. CASE d
      BY <1>0, <2>1, <3>1, <3>2 DEF EngineAgrees
    <3>3. CASE ~d
      BY <1>0, <2>1, <3>1, <3>3 DEF EngineAgrees
    <3>4. QED
      BY <3>2, <3>3
  <2>5. DelaysKept'
    <3>1. SUFFICES ASSUME NEW j \in engine' PROVE left'[j] + since'[j] >= Delay(j)'
      BY DEF DelaysKept
    <3>2. j \in Key
      BY <2>2
    <3>3. CASE j = k
      BY <1>0, <2>1, <2>3, <3>3, LongestIs DEF Delay
    <3>4. CASE j # k
      <4>1. left'[j] = left[j] /\ since'[j] = since[j] /\ (j \in repeated' <=> j \in repeated) /\ j \in engine
        BY <1>0, <2>1, <3>1, <3>2, <3>4
      <4>2. QED
        BY <1>0, <4>1 DEF Delay, DelaysKept
    <3>5. QED
      BY <3>3, <3>4
  <2>6. UNCHANGED outside
    BY <1>1 DEF Transition
  <2>7. QED
    BY <1>0, <1>shape, <2>2, <2>3, <2>4, <2>5, <2>6 DEF TypeOK, CallsShape
<1>2. CASE Repeat
  <2>1. PICK k \in Key :
           /\ held[k] /\ held' = held /\ left' = [left EXCEPT ![k] = NextRepeat]
           /\ engine' = engine \union {k} /\ since' = [since EXCEPT ![k] = 0]
           /\ repeated' = repeated \union {k}
    BY <1>2, RepeatIs, Zenon
  <2>2. engine' = engine
    BY <1>0, <2>1 DEF EngineAgrees
  <2>3. left' \in [Key -> 0 .. Longest] /\ since' \in [Key -> 0 .. Longest] /\ repeated' \subseteq Key
    BY <1>0, <2>1, LongestIs
  <2>4. DelaysKept'
    <3>1. SUFFICES ASSUME NEW j \in engine PROVE left'[j] + since'[j] >= Delay(j)'
      BY <2>2 DEF DelaysKept
    <3>2. CASE j = k
      BY <1>0, <2>1, <2>3, <3>2, LongestIs DEF Delay
    <3>3. CASE j # k
      <4>1. left'[j] = left[j] /\ since'[j] = since[j] /\ (j \in repeated' <=> j \in repeated)
        BY <1>0, <2>1, <3>3
      <4>2. QED
        BY <1>0, <4>1 DEF Delay, DelaysKept
    <3>4. QED
      BY <3>2, <3>3
  <2>5. UNCHANGED outside
    BY <1>2 DEF Repeat
  <2>6. EngineAgrees'
    BY <1>0, <2>1, <2>2 DEF EngineAgrees
  <2>7. QED
    BY <1>0, <1>shape, <2>1, <2>2, <2>3, <2>4, <2>5, <2>6 DEF TypeOK, CallsShape
<1>3. CASE Tick
  <2>1. left' \in [Key -> 0 .. Longest] /\ since' \in [Key -> 0 .. Longest]
    BY <1>0, <1>3, LongestIs DEF Tick
  <2>2. /\ \A k \in Key : left'[k] = (IF left[k] = 0 THEN 0 ELSE left[k] - 1)
        /\ \A k \in Key : since'[k] = (IF since[k] = Longest THEN Longest ELSE since[k] + 1)
        /\ UNCHANGED <<held, engine, repeated, outside>>
    BY <1>3 DEF Tick
  <2>3. DelaysKept'
    <3>1. SUFFICES ASSUME NEW j \in engine PROVE left'[j] + since'[j] >= Delay(j)'
      BY <2>2 DEF DelaysKept
    <3>2. j \in Key /\ left[j] \in 0 .. Longest /\ since[j] \in 0 .. Longest /\ left[j] + since[j] >= Delay(j)
          /\ Delay(j) \in 1 .. Longest /\ Delay(j)' = Delay(j)
      BY <1>0, <2>2, LongestIs DEF DelaysKept, Delay
    <3>3. QED
      BY <2>2, <3>2, LongestIs
  <2>4. QED
    BY <1>0, <1>shape, <2>1, <2>2, <2>3 DEF TypeOK, CallsShape, EngineAgrees
<1>4. CASE CommandsCall \/ ClearCall \/ Same \/ EventReturn \/ CallReturn \/ UNCHANGED vars
  <2>1. UNCHANGED <<outside, keys, seen>>
    BY <1>4 DEF CommandsCall, ClearCall, Same, EventReturn, CallReturn, vars
  <2>2. QED
    BY <1>0, <1>shape, <2>1 DEF TypeOK, CallsShape, EngineAgrees, DelaysKept, Delay
<1>5. CASE Poll \/ SetMenu \/ SetEnabled
  <2>1. UNCHANGED <<keys, seen>>
    BY <1>5 DEF Poll, SetMenu, SetEnabled
  <2>2. pad' \in Pad
    BY <1>0, <1>5 DEF Poll, SetMenu, SetEnabled
  <2>3. enabled' \in BOOLEAN /\ menu' \in BOOLEAN
    BY <1>0, <1>5, Zenon DEF Poll, SetMenu, SetEnabled
  <2>4. QED
    BY <1>0, <1>shape, <2>1, <2>2, <2>3 DEF TypeOK, CallsShape, EngineAgrees, DelaysKept, Delay
<1>6. QED
  BY <1>1, <1>2, <1>3, <1>4, <1>5 DEF Next, Continue

(* Every step keeps what a running IN_ClearStates has passed.                *)
LEMMA ClearsStep == IInv /\ [Next]_vars => ClearsGoThrough'
<1> SUFFICES ASSUME IInv, [Next]_vars PROVE ClearsGoThrough'
  OBVIOUS
<1> DEFINE Through(c, h) ==
      /\ ~c.down
      /\ \A k \in Key : k < c.at \/ (k = c.at /\ c.inEvent) => ~h[k]
<1>0. /\ calls \in Seq(Call) /\ Depth \in Nat /\ held \in [Key -> BOOLEAN]
      /\ Depth > 0 => Top \in Call /\ Top = calls[Depth] /\ Depth \in 1 .. Depth
  BY TopIs DEF IInv, TypeOK, CallsTyped
<1>clears. \A i \in 1 .. Depth : ~calls[i].commands => i = Depth /\ Through(calls[i], held)
  BY DEF IInv, ClearsGoThrough
<1>goal. (\A i \in 1 .. Depth' : ~calls'[i].commands => i = Depth' /\ Through(calls'[i], held')) => ClearsGoThrough'
  BY DEF ClearsGoThrough
<1>1. CASE CommandsCall \/ ClearCall
  <2>1. PICK r \in Call : calls' = Append(calls, r) /\ ~r.inEvent /\ ~r.down /\ r.at = 1
                          /\ (Depth > 0 => Top.down) /\ UNCHANGED keys
    BY <1>1, CallBegins
  <2>2. Depth' = Depth + 1 /\ Top' = r /\ \A i \in 1 .. Depth : calls'[i] = calls[i]
    BY <1>0, <2>1, AppendIs
  <2>3. calls'[Depth + 1] = r
    BY <2>2 DEF Top
  <2>4. \A i \in 1 .. Depth : calls[i].commands
    BY <1>0, <1>clears, <2>1
  <2>5. Through(r, held')
    <3>1. \A k \in Key : ~(k < r.at \/ (k = r.at /\ r.inEvent))
      BY <2>1 DEF Key
    <3>2. QED
      BY <2>1, <3>1
  <2> HIDE DEF Through
  <2>6. \A i \in 1 .. Depth' : ~calls'[i].commands => i = Depth' /\ Through(calls'[i], held')
    <3>1. \A i \in 1 .. Depth' : i \in 1 .. Depth \/ i = Depth'
      BY <1>0, <2>2
    <3>2. \A i \in 1 .. Depth : calls'[i].commands
      BY <2>2, <2>4
    <3>3. calls'[Depth'] = r
      BY <2>2, <2>3
    <3>4. QED
      BY <2>5, <3>1, <3>2, <3>3
  <2>7. QED
    BY <1>goal, <2>6
<1>2. CASE Transition \/ Repeat \/ Same \/ EventReturn
  <2>1. PICK r \in Call : calls' = WithTop(r) /\ Depth > 0 /\ r.commands = Top.commands
    BY <1>2, CallGoesOn
  <2>2. Depth' = Depth /\ Top' = r /\ \A i \in 1 .. Depth - 1 : calls'[i] = calls[i]
    BY <1>0, <2>1, WithTopIs
  <2>3. calls'[Depth] = r
    BY <2>2 DEF Top
  <2>4. ~Top.commands => Through(Top', held')
    <3>1. SUFFICES ASSUME ~Top.commands PROVE Through(Top', held')
      OBVIOUS
    <3>2. Through(Top, held) /\ Top \in Call
      BY <1>0, <1>clears, <2>1, <3>1
    <3>3. CASE Transition
      <4>1. PICK k \in Key, d \in BOOLEAN :
              /\ k = Top.at /\ held' = [held EXCEPT ![k] = d]
              /\ calls' = WithTop([Top EXCEPT !.inEvent = TRUE, !.down = d]) /\ d = Down(Top, k)
        BY <3>3, TransitionIs
      <4>2. ~d
        BY <3>1, <4>1 DEF Down
      <4>3. Top' = [Top EXCEPT !.inEvent = TRUE, !.down = d]
        <5>1. [Top EXCEPT !.inEvent = TRUE, !.down = d] \in Call
          BY <3>2 DEF Call
        <5>2. QED
          BY <1>0, <2>1, <4>1, <5>1, WithTopIs
      <4>4. \A j \in Key : j < Top.at \/ j = Top.at => ~held'[j]
        BY <1>0, <3>2, <4>1, <4>2 DEF Key
      <4>5. Top'.at = Top.at /\ Top'.down = d
        BY <3>2, <4>3 DEF Call
      <4>6. QED
        BY <4>2, <4>4, <4>5
    <3>4. CASE Repeat
      BY <3>1, <3>4, RepeatIs
    <3>5. CASE Same
      <4>1. Top.at \in Key /\ ~held[Top.at] /\ ~Top.inEvent
        <5>1. Running /\ Top.at <= Keys /\ Down(Top, Top.at) = held[Top.at]
          BY <3>5 DEF Same, Changes
        <5>2. ~Down(Top, Top.at)
          BY <3>1 DEF Down
        <5>3. QED
          BY <5>1, <5>2, AtKey DEF Running
      <4>2. Top' = [Top EXCEPT !.at = Top.at + 1] /\ held' = held
        <5>1. calls' = WithTop([Top EXCEPT !.at = Top.at + 1]) /\ held' = held
          BY <3>5 DEF Same, keys
        <5>2. [Top EXCEPT !.at = Top.at + 1] \in Call
          BY <3>2, <4>1, LongestIs DEF Call, Key
        <5>3. QED
          BY <1>0, <2>1, <5>1, <5>2, WithTopIs
      <4>3. Top'.at = Top.at + 1 /\ Top'.down = Top.down /\ Top'.inEvent = Top.inEvent
        BY <3>2, <4>2 DEF Call
      <4>4. \A k \in Key : k < Top.at + 1 => k < Top.at \/ k = Top.at
        BY <4>1 DEF Key
      <4>5. QED
        BY <3>2, <4>1, <4>2, <4>3, <4>4, Zenon
    <3>6. CASE EventReturn
      <4>1. Top.inEvent /\ Top.at \in Key /\ held' = held
            /\ calls' = WithTop([Top EXCEPT !.at = @ + 1, !.inEvent = FALSE])
        BY <2>1, <1>0, <3>6 DEF EventReturn, InEvent, keys, IInv, CallsTyped
      <4>2. Top.at + 1 \in 1 .. Keys + 1
        BY <4>1, LongestIs DEF Key
      <4>3. [Top EXCEPT !.at = @ + 1, !.inEvent = FALSE] \in Call
        BY <3>2, <4>2 DEF Call
      <4>4. Top' = [Top EXCEPT !.at = @ + 1, !.inEvent = FALSE]
        BY <1>0, <2>1, <4>1, <4>3, WithTopIs
      <4>5. Top'.at = Top.at + 1 /\ Top'.down = Top.down /\ ~Top'.inEvent
        BY <3>2, <4>4 DEF Call
      <4>6. \A k \in Key : k < Top.at + 1 => k < Top.at \/ k = Top.at
        BY <4>1 DEF Key
      <4>7. QED
        BY <3>2, <4>1, <4>5, <4>6, Zenon
    <3>7. QED
      BY <1>2, <3>3, <3>4, <3>5, <3>6
  <2> HIDE DEF Through
  <2>5. \A i \in 1 .. Depth' : ~calls'[i].commands => i = Depth' /\ Through(calls'[i], held')
    <3>1. SUFFICES ASSUME NEW i \in 1 .. Depth, ~calls'[i].commands PROVE i = Depth /\ Through(calls'[i], held')
      BY <2>2
    <3>2. CASE i = Depth
      BY <2>1, <2>2, <2>3, <2>4, <3>1, <3>2, Zenon
    <3>3. CASE i # Depth
      <4>1. i \in 1 .. Depth - 1
        BY <1>0, <3>3
      <4>2. ~calls[i].commands
        BY <2>2, <3>1, <4>1, Zenon
      <4>3. QED
        BY <1>clears, <3>3, <4>2
    <3>4. QED
      BY <3>2, <3>3
  <2>6. QED
    BY <1>goal, <2>5
<1>3. CASE CallReturn
  <2>1. calls' = SubSeq(calls, 1, Depth - 1) /\ Depth > 0 /\ held' = held
    BY <1>3 DEF CallReturn, Running, keys
  <2>2. Depth' = Depth - 1 /\ \A i \in 1 .. Depth - 1 : calls'[i] = calls[i]
    BY <1>0, <2>1, ReturnIs
  <2>3. \A i \in 1 .. Depth - 1 : calls[i].commands
    BY <1>0, <1>clears
  <2>4. \A i \in 1 .. Depth' : calls'[i].commands
    BY <2>2, <2>3
  <2>5. QED
    BY <1>goal, <2>4
<1>4. CASE Poll \/ SetMenu \/ SetEnabled \/ Tick \/ UNCHANGED vars
  <2>1. calls' = calls /\ Depth' = Depth /\ held' = held
    BY <1>4 DEF Poll, SetMenu, SetEnabled, Tick, vars, keys, Depth
  <2> HIDE DEF Through
  <2>2. \A i \in 1 .. Depth' : ~calls'[i].commands => i = Depth' /\ Through(calls'[i], held')
    BY <1>clears, <2>1
  <2>3. QED
    BY <1>goal, <2>2
<1>5. QED
  BY <1>1, <1>2, <1>3, <1>4 DEF Next, Continue

(* The inductive invariant of the keys holds in every behaviour.             *)
THEOREM Inductive == Spec => []IInv
<1>1. Init => IInv
  <2> SUFFICES ASSUME Init PROVE IInv
    OBVIOUS
  <2>1. calls \in Seq(Call) /\ Depth = 0 /\ 1 .. Depth = {}
    BY CallsEmpty DEF Init, Depth
  <2>2. pad \in Pad /\ engine = {} /\ repeated = {}
    BY DEF Init, NoPad, Pad
  <2>3. enabled \in BOOLEAN /\ menu \in BOOLEAN
    BY Zenon DEF Init
  <2>4. held \in [Key -> BOOLEAN] /\ \A k \in Key : ~held[k]
    BY Zenon DEF Init
  <2>5. left \in [Key -> 0 .. Longest] /\ since \in [Key -> 0 .. Longest]
    BY LongestIs DEF Init
  <2>6. Depth <= MaxDepth
    BY <2>1, LongestIs
  <2>7. TypeOK /\ CallsTyped /\ ClearsGoThrough
    BY <2>1, <2>2, <2>3, <2>4, <2>5, <2>6 DEF TypeOK, CallsTyped, ClearsGoThrough
  <2>8. QED
    BY <2>2, <2>4, <2>7 DEF IInv, EngineAgrees, DelaysKept
<1>2. IInv /\ [Next]_vars => IInv'
  BY ShapeStep, KeysStep, ClearsStep DEF IInv, CallsShape
<1>3. QED
  BY <1>1, <1>2, PTL DEF Spec

(* The engine's keys and the adapter's are the same at every step of calls     *)
(* however deep inside one another.                                           *)
THEOREM KeysAgreeCorrect == Spec => []KeysAgree
<1>1. IInv => KeysAgree
  BY DEF IInv, KeysAgree
<1>2. QED
  BY <1>1, Inductive, PTL

(* IN_ClearStates leaves no key down, also from inside a press.                *)
THEOREM ClearReleasesAllCorrect == Spec => ClearReleasesAll
<1> DEFINE Cleared == Running /\ ~Top.commands /\ Depth' < Depth
<1>1. IInv /\ [Next]_vars => [Cleared => engine' = {}]_vars
  <2> SUFFICES ASSUME IInv, [Next]_vars, Cleared PROVE engine' = {}
    OBVIOUS
  <2>1. /\ calls \in Seq(Call) /\ Depth \in Nat /\ Depth > 0
        /\ Top \in Call /\ Top = calls[Depth] /\ Depth \in 1 .. Depth
    BY TopIs DEF IInv, CallsTyped, Running
  <2>2. CASE CallReturn
    <3>1. Top.at > Keys /\ engine' = engine
      BY <2>2 DEF CallReturn, seen
    <3>2. \A k \in Key : k < Top.at
      BY <2>1, <3>1, LongestIs DEF Key, Call
    <3>3. \A k \in Key : ~held[k]
      BY <2>1, <3>2 DEF IInv, ClearsGoThrough
    <3>4. QED
      BY <3>1, <3>3 DEF IInv, EngineAgrees
  <2>3. CASE CommandsCall \/ ClearCall
    <3>1. PICK r \in Call : calls' = Append(calls, r)
      BY <2>3, CallBegins
    <3>2. QED
      BY <2>1, <3>1, AppendIs
  <2>4. CASE Transition \/ Repeat \/ Same \/ EventReturn
    <3>1. PICK r \in Call : calls' = WithTop(r)
      BY <2>4, CallGoesOn
    <3>2. QED
      BY <2>1, <3>1, WithTopIs
  <2>5. CASE Poll \/ SetMenu \/ SetEnabled \/ Tick \/ UNCHANGED vars
    BY <2>1, <2>5 DEF Poll, SetMenu, SetEnabled, Tick, vars, Depth
  <2>6. QED
    BY <2>2, <2>3, <2>4, <2>5 DEF Next, Continue
<1>2. QED
  BY <1>1, Inductive, PTL DEF Spec, ClearReleasesAll

(* A key is sent again without a release in a menu alone, and not before its   *)
(* delay has passed since the engine was told of it last.                     *)
THEOREM RepeatsAreSpacedCorrect == Spec => RepeatsAreSpaced
<1> DEFINE Sent(k) == k \in engine /\ calls' # calls /\ Depth' = Depth /\ ~Top.inEvent
                        /\ calls'[Depth].inEvent /\ calls'[Depth].down /\ Top.at = k
           Spaced(k) == menu /\ since[k] >= IF k \in repeated THEN NextRepeat ELSE FirstRepeat
<1>1. IInv /\ [Next]_vars =>
        [\A k \in Key :
           (k \in engine /\ calls' # calls /\ Depth' = Depth /\ ~Top.inEvent
              /\ calls'[Depth].inEvent /\ calls'[Depth].down /\ Top.at = k) =>
             /\ menu
             /\ since[k] >= IF k \in repeated THEN NextRepeat ELSE FirstRepeat]_vars
  <2> SUFFICES ASSUME IInv, [Next]_vars, NEW k \in Key, Sent(k) PROVE Spaced(k)
    BY Zenon
  <2>1. calls \in Seq(Call) /\ Depth \in Nat
    BY TopIs DEF IInv, CallsTyped
  <2>2. CASE Repeat
    <3>1. menu /\ left[k] = 0
      BY <2>2, RepeatIs
    <3>2. left[k] + since[k] >= Delay(k) /\ since[k] \in Nat
      BY DEF IInv, DelaysKept, TypeOK
    <3>3. QED
      BY <3>1, <3>2 DEF Delay
  <2>3. CASE Transition
    <3>1. PICK d \in BOOLEAN :
             /\ held[k] = ~d /\ calls' = WithTop([Top EXCEPT !.inEvent = TRUE, !.down = d])
             /\ Depth > 0
      BY <2>3, TransitionIs
    <3>2. Top \in Call
      BY <2>1, <3>1, TopIs
    <3>3. [Top EXCEPT !.inEvent = TRUE, !.down = d] \in Call
      BY <3>2 DEF Call
    <3>4. calls'[Depth] = [Top EXCEPT !.inEvent = TRUE, !.down = d]
      BY <2>1, <3>1, <3>3, WithTopIs DEF Top
    <3>5. calls'[Depth].down = d
      BY <3>2, <3>4 DEF Call
    <3>6. d
      BY <3>5
    <3>7. held[k]
      BY DEF IInv, EngineAgrees
    <3>8. QED
      BY <3>1, <3>6, <3>7
  <2>4. CASE CommandsCall \/ ClearCall
    <3>1. PICK r \in Call : calls' = Append(calls, r)
      BY <2>4, CallBegins
    <3>2. QED
      BY <2>1, <3>1, AppendIs
  <2>5. CASE Same
    <3>1. Depth > 0 /\ ~Top.inEvent
      BY <2>5 DEF Same, Running
    <3>2. Top \in Call /\ Top.at <= Keys
      BY <2>1, <2>5, <3>1, TopIs DEF Same
    <3>3. [Top EXCEPT !.at = Top.at + 1] \in Call /\ calls' = WithTop([Top EXCEPT !.at = Top.at + 1])
      BY <2>5, <3>2, LongestIs DEF Call, Same
    <3>4. calls'[Depth] = [Top EXCEPT !.at = Top.at + 1]
      BY <2>1, <3>1, <3>3, WithTopIs DEF Top
    <3>5. calls'[Depth].inEvent = Top.inEvent
      BY <3>2, <3>4 DEF Call
    <3>6. QED
      BY <3>1, <3>5
  <2>6. CASE EventReturn
    BY <2>6 DEF EventReturn, InEvent
  <2>7. CASE CallReturn
    <3>1. calls' = SubSeq(calls, 1, Depth - 1) /\ Depth > 0
      BY <2>7 DEF CallReturn, Running
    <3>2. Depth' = Depth - 1
      BY <2>1, <3>1, ReturnIs
    <3>3. QED
      BY <2>1, <3>2
  <2>8. CASE Poll \/ SetMenu \/ SetEnabled \/ Tick \/ UNCHANGED vars
    BY <2>8 DEF Poll, SetMenu, SetEnabled, Tick, vars
  <2>9. QED
    BY <2>2, <2>3, <2>4, <2>5, <2>6, <2>7, <2>8 DEF Next, Continue
<1>2. QED
  BY <1>1, Inductive, PTL DEF Spec, RepeatsAreSpaced
=============================================================================
