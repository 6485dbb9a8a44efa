------------------------------ MODULE ShimProofs ------------------------------
(* Theorems of the shims of TitleShims, each of its own part's specification.      *)
EXTENDS TitleShims, FiniteSetTheorems, SequenceTheorems, TLAPS

-----------------------------------------------------------------------------
(* Semaphores: no wake-up is lost, for any number of threads.                *)

(* The threads at a place can be counted.                                    *)
LEMMA Members ==
  ASSUME SemaphoreTypeOK, NEW place
  PROVE  IsFiniteSet(In(place)) /\ Cardinality(In(place)) \in Nat
<1>1. In(place) \subseteq Thread
  BY DEF In
<1>2. QED
  BY <1>1, ThreadAssumption, FS_Subset, FS_CardinalityType

(* A thread that goes from one place to another, and the counts of both.     *)
LEMMA Arrives ==
  ASSUME SemaphoreTypeOK, NEW t \in Thread, at[t] # "woken", at' = To(t, "woken")
  PROVE  Cardinality(In("woken")') = Cardinality(In("woken")) + 1
<1>1. In("woken")' = In("woken") \union {t}
  BY DEF In, To, SemaphoreTypeOK
<1>2. t \notin In("woken")
  BY DEF In
<1>3. QED
  BY <1>1, <1>2, Members, FS_AddElement

(* One that leaves is one less.                                              *)
LEMMA Leaves ==
  ASSUME SemaphoreTypeOK, NEW t \in Thread, at[t] = "woken", NEW place, place # "woken",
         at' = To(t, place)
  PROVE  Cardinality(In("woken")') = Cardinality(In("woken")) - 1
<1>1. In("woken")' = In("woken") \ {t}
  BY DEF In, To, SemaphoreTypeOK
<1>2. t \in In("woken")
  BY DEF In
<1>3. QED
  BY <1>1, <1>2, Members, FS_RemoveElement

(* The woken stay when another thread moves.                                 *)
LEMMA StaysWoken ==
  ASSUME SemaphoreTypeOK, NEW t \in Thread, at[t] # "woken", NEW place, place # "woken",
         at' = To(t, place)
  PROVE  In("woken")' = In("woken")
BY DEF In, To, SemaphoreTypeOK

(* Every step keeps the types and the count of tokens.                       *)
LEMMA TypeAndTokens ==
  ASSUME SemaphoreTypeOK, TokensAccounted, [SemaphoreNext]_semaphoreVars
  PROVE  SemaphoreTypeOK' /\ TokensAccounted'
<1> USE DEF SemaphoreTypeOK, TokensAccounted, To
<1>1. CASE Post
  BY <1>1, CountAssumption DEF Post, Signal, In
<1>2. ASSUME NEW t \in Thread, WaitEnter(t) PROVE SemaphoreTypeOK' /\ TokensAccounted'
  BY <1>2 DEF WaitEnter
<1>3. ASSUME NEW t \in Thread, WaitTake(t) PROVE SemaphoreTypeOK' /\ TokensAccounted'
  BY <1>3, CountAssumption DEF WaitTake, CanTake
<1>4. ASSUME NEW t \in Thread, WaitSleep(t) PROVE SemaphoreTypeOK' /\ TokensAccounted'
  BY <1>4 DEF WaitSleep
<1>5. ASSUME NEW t \in Thread, SpuriousWake(t) PROVE SemaphoreTypeOK' /\ TokensAccounted'
  BY <1>5 DEF SpuriousWake
<1>6. ASSUME NEW t \in Thread, TryWait(t) PROVE SemaphoreTypeOK' /\ TokensAccounted'
  BY <1>6, CountAssumption DEF TryWait
<1>7. CASE UNCHANGED semaphoreVars
  BY <1>7 DEF semaphoreVars
<1>8. QED
  BY <1>1, <1>2, <1>3, <1>4, <1>5, <1>6, <1>7 DEF SemaphoreNext, Lock

(* A post wakes a thread while one sleeps; whoever takes a token away from   *)
(* the threads that are awake lowers the count with them.                    *)
LEMMA NoWakeUpLost ==
  ASSUME SemaphoreTypeOK, NobodySleepsInVain, [SemaphoreNext]_semaphoreVars
  PROVE  NobodySleepsInVain'
<1>0. Cardinality(In("woken")) \in Nat /\ count \in Nat
  BY Members DEF SemaphoreTypeOK
<1>1. CASE Post
  <2>1. CASE In("asleep") = {}
    <3>1. In("asleep")' = {}
      BY <1>1, <2>1 DEF Post, Signal, In
    <3>2. QED
      BY <3>1 DEF NobodySleepsInVain
  <2>2. CASE In("asleep") # {}
    <3>1. PICK t \in In("asleep") : at' = To(t, "woken")
      BY <1>1, <2>2 DEF Post, Signal
    <3>2. t \in Thread /\ at[t] = "asleep"
      BY DEF In
    <3>3. Cardinality(In("woken")') = Cardinality(In("woken")) + 1
      BY <3>1, <3>2, Arrives
    <3>4. QED
      BY <1>0, <1>1, <2>2, <3>3 DEF Post, NobodySleepsInVain
  <2>3. QED
    BY <2>1, <2>2
<1>2. ASSUME NEW t \in Thread, WaitEnter(t) PROVE NobodySleepsInVain'
  <2>1. In("woken")' = In("woken") /\ count' = count
    BY <1>2, StaysWoken DEF WaitEnter
  <2>2. In("asleep")' = In("asleep")
    BY <1>2 DEF WaitEnter, In, To, SemaphoreTypeOK
  <2>3. QED
    BY <2>1, <2>2 DEF NobodySleepsInVain
<1>3. ASSUME NEW t \in Thread, WaitTake(t) PROVE NobodySleepsInVain'
  <2>1. In("asleep")' = In("asleep")
    BY <1>3 DEF WaitTake, CanTake, In, To, SemaphoreTypeOK
  <2>2. count' = count - 1
    BY <1>3 DEF WaitTake
  <2>3. CASE at[t] = "woken"
    <3>1. Cardinality(In("woken")') = Cardinality(In("woken")) - 1
      BY <1>3, <2>3, Leaves DEF WaitTake
    <3>2. QED
      BY <1>0, <2>1, <2>2, <3>1 DEF NobodySleepsInVain
  <2>4. CASE at[t] # "woken"
    <3>1. In("woken")' = In("woken")
      BY <1>3, <2>4, StaysWoken DEF WaitTake
    <3>2. QED
      BY <1>0, <2>1, <2>2, <3>1 DEF NobodySleepsInVain
  <2>5. QED
    BY <2>3, <2>4
<1>4. ASSUME NEW t \in Thread, WaitSleep(t) PROVE NobodySleepsInVain'
  <2>1. SemaphoreTypeOK'
    BY <1>4 DEF WaitSleep, To, SemaphoreTypeOK
  <2>2. count' = 0 /\ Cardinality(In("woken")') \in Nat
    <3>1. In("woken")' \subseteq Thread
      BY DEF In
    <3>2. QED
      BY <1>4, <3>1, ThreadAssumption, FS_Subset, FS_CardinalityType DEF WaitSleep
  <2>3. QED
    BY <2>2 DEF NobodySleepsInVain
<1>5. ASSUME NEW t \in Thread, SpuriousWake(t) PROVE NobodySleepsInVain'
  <2>1. Cardinality(In("woken")') = Cardinality(In("woken")) + 1
    BY <1>5, Arrives DEF SpuriousWake
  <2>2. In("asleep") # {} /\ count' = count
    BY <1>5 DEF SpuriousWake, In
  <2>3. QED
    BY <1>0, <2>1, <2>2 DEF NobodySleepsInVain
<1>6. ASSUME NEW t \in Thread, TryWait(t) PROVE NobodySleepsInVain'
  <2>1. In("asleep")' = In("asleep") /\ In("woken")' = In("woken")
    BY <1>6 DEF TryWait, In
  <2>2. QED
    BY <1>0, <1>6, <2>1 DEF TryWait, NobodySleepsInVain
<1>7. CASE UNCHANGED semaphoreVars
  BY <1>7 DEF semaphoreVars, NobodySleepsInVain, In
<1>8. QED
  BY <1>1, <1>2, <1>3, <1>4, <1>5, <1>6, <1>7 DEF SemaphoreNext, Lock

(* Tokens are neither lost nor taken twice, and while a thread sleeps every   *)
(* token has a woken thread of its own.                                      *)
THEOREM SemaphoreCorrect == SemaphoreSpec => []SemaphoreInv
<1>1. SemaphoreInit => SemaphoreInv
  <2> SUFFICES ASSUME SemaphoreInit PROVE SemaphoreInv
    OBVIOUS
  <2>1. In("asleep") = {}
    BY DEF SemaphoreInit, In
  <2>2. QED
    BY <2>1, CountAssumption
    DEF SemaphoreInit, SemaphoreInv, SemaphoreTypeOK, TokensAccounted, NobodySleepsInVain
<1>2. SemaphoreInv /\ [SemaphoreNext]_semaphoreVars => SemaphoreInv'
  BY TypeAndTokens, NoWakeUpLost DEF SemaphoreInv
<1>3. QED
  BY <1>1, <1>2, PTL DEF SemaphoreSpec

-----------------------------------------------------------------------------
(* Threads. *)

(* However the two sides interleave, for any number of handles: no use of a  *)
(* block that is gone, no second free, none that is never freed once both    *)
(* sides have let go, and the right status for the side that waits.          *)
THEOREM HandlesCorrect == HandleSpec => []HandlesSafe
<1> USE StatusAssumption DEF HandlesSafe, HandleTypeOK, HandleSafe, Bookkeeping, OwnerUses,
        ThreadUses, OwnerHolds, ThreadHolds, Set
<1>1. HandleInit => HandlesSafe
  BY DEF HandleInit
<1>2. HandlesSafe /\ [HandleNext]_threadVars => HandlesSafe'
  <2> SUFFICES ASSUME HandlesSafe, [HandleNext]_threadVars PROVE HandlesSafe'
    OBVIOUS
  <2>1. ASSUME NEW h \in Handle, CreateBegin(h) PROVE HandlesSafe'
    BY <2>1 DEF CreateBegin, FirstReferences
  <2>2. ASSUME NEW h \in Handle, CreateStart(h) PROVE HandlesSafe'
    BY <2>2 DEF CreateStart
  <2>3. ASSUME NEW h \in Handle, CreateDone(h) PROVE HandlesSafe'
    BY <2>3 DEF CreateDone
  <2>4. ASSUME NEW h \in Handle, CreateFail(h) PROVE HandlesSafe'
    BY <2>4 DEF CreateFail
  <2>5. ASSUME NEW h \in Handle, FunctionReturns(h) PROVE HandlesSafe'
    BY <2>5 DEF FunctionReturns
  <2>6. ASSUME NEW h \in Handle, ThreadRelease(h) PROVE HandlesSafe'
    BY <2>6 DEF ThreadRelease, Release, Free, After
  <2>7. ASSUME NEW h \in Handle, WaitCall(h) PROVE HandlesSafe'
    BY <2>7 DEF WaitCall
  <2>8. ASSUME NEW h \in Handle, WaitStatus(h) PROVE HandlesSafe'
    BY <2>8 DEF WaitStatus
  <2>9. ASSUME NEW h \in Handle, Detach(h) PROVE HandlesSafe'
    BY <2>9 DEF Detach
  <2>10. ASSUME NEW h \in Handle, OwnerRelease(h) PROVE HandlesSafe'
    BY <2>10 DEF OwnerRelease, Release, Free, After
  <2>11. CASE UNCHANGED threadVars
    BY <2>11 DEF threadVars
  <2>12. QED
    BY <2>1, <2>2, <2>3, <2>4, <2>5, <2>6, <2>7, <2>8, <2>9, <2>10, <2>11 DEF HandleNext
<1>3. QED
  BY <1>1, <1>2, PTL DEF HandleSpec

-----------------------------------------------------------------------------
(* The clock. *)

(* The deadline is normalised and lies ms milliseconds after the clock.      *)
THEOREM DeadlineIsExact ==
  ASSUME NEW sec \in Nat, NEW nsec \in Nat, nsec < Second, NEW ms \in Nat
  PROVE  LET d == Deadline(sec, nsec, ms) IN
           /\ d[2] \in Nat /\ d[2] < Second
           /\ d[1] * Second + d[2] = sec * Second + nsec + ms * Million
<1> DEFINE q == ms \div 1000
           r == ms % 1000
           n == nsec + r * Million
<1>1. q \in Nat /\ r \in 0 .. 999 /\ ms = 1000 * q + r
  BY SMT
<1>2. CASE n >= Second
  <2>1. Deadline(sec, nsec, ms) = <<sec + q + 1, n - Second>>
    BY <1>2 DEF Deadline
  <2> HIDE DEF q, r
  <2>2. QED
    BY <1>1, <1>2, <2>1, SMT DEF Million, Second
<1>3. CASE ~(n >= Second)
  <2>1. Deadline(sec, nsec, ms) = <<sec + q, n>>
    BY <1>3 DEF Deadline
  <2> HIDE DEF q, r
  <2>2. QED
    BY <1>1, <1>3, <2>1, SMT DEF Million, Second
<1>4. QED
  BY <1>2, <1>3

(* The clock never goes backwards, however many threads read it and however  *)
(* far their cores' counters lie apart.                                      *)
THEOREM ClockCorrect == ClockSpec => []ClockInv
<1> USE DEF ClockInv, ClockTypeOK, NeverBackwards, LatestIsLatest, Time
<1>1. ClockInit => ClockInv
  BY TimeAssumption DEF ClockInit
<1>2. ClockInv /\ [ClockNext]_clockVars => ClockInv'
  <2> SUFFICES ASSUME ClockInv, [ClockNext]_clockVars PROVE ClockInv'
    OBVIOUS
  <2>1. ASSUME NEW t \in ClockThread, Call(t) PROVE ClockInv'
    BY <2>1 DEF Call
  <2>2. ASSUME NEW t \in ClockThread, Load(t) PROVE ClockInv'
    BY <2>2 DEF Load
  <2>3. ASSUME NEW t \in ClockThread, Exchange(t) PROVE ClockInv'
    BY <2>3 DEF Exchange, Return, Later
  <2>4. ASSUME NEW t \in ClockThread, ExchangeFail(t) PROVE ClockInv'
    BY <2>4 DEF ExchangeFail
  <2>5. ASSUME NEW t \in ClockThread, Clamp(t) PROVE ClockInv'
    BY <2>5 DEF Clamp, Return, Later
  <2>6. CASE UNCHANGED clockVars
    BY <2>6 DEF clockVars
  <2>7. QED
    BY <2>1, <2>2, <2>3, <2>4, <2>5, <2>6 DEF ClockNext
<1>3. QED
  BY <1>1, <1>2, PTL DEF ClockSpec

-----------------------------------------------------------------------------
(* Directories. *)

(* An empty list has no places.                                              *)
LEMMA EmptyList == <<>> \in Seq(Nat) /\ DOMAIN <<>> = {}
OBVIOUS

(* For every folder and every size of the buffer.                            *)
THEOREM ListingCorrect == DirectorySpec => []ListingTrue
<1> USE FolderAssumption DEF ListingTrue, DirectoryTypeOK, ListedInOrder, EndIsTheEnd, Consumed, Next1
<1>1. DirectoryInit => ListingTrue
    <2> SUFFICES ASSUME DirectoryInit PROVE ListingTrue
        OBVIOUS
    <2>1. /\ listed \in Seq(Nat) /\ DOMAIN listed = {} /\ position = 0 /\ buffered = 0
          /\ finished = FALSE /\ broken = FALSE /\ stream = "closed" /\ Len(Folder) \in Nat
        BY EmptyList DEF DirectoryInit
    <2>2. Consumed = 0 /\ 1 .. Consumed = {}
        BY <2>1
    <2>3. DirectoryTypeOK
        <3>1. finished \in BOOLEAN /\ broken \in BOOLEAN
            BY <2>1, Zenon
        <3>2. stream \in {"closed", "open", "reading"} /\ position \in 0 .. Len(Folder) /\ buffered \in 0 .. position
            BY <2>1
        <3>3. QED
            BY <2>1, <3>1, <3>2, Zenon
    <2>4. ListedInOrder
        <3> HIDE DEF Consumed
        <3>1. QED
            BY <2>1, <2>2
    <2>5. QED
        BY <2>1, <2>3, <2>4
<1>2. ListingTrue /\ [DirectoryNext]_directoryVars => ListingTrue'
    <2> SUFFICES ASSUME ListingTrue, [DirectoryNext]_directoryVars PROVE ListingTrue'
        OBVIOUS
    <2>1. ASSUME Fresh, stream' \in {"closed", "open"} PROVE ListingTrue'
        <3>1. /\ listed' \in Seq(Nat) /\ DOMAIN (listed') = {} /\ position' = 0 /\ buffered' = 0
              /\ finished' = FALSE /\ broken' = FALSE /\ Len(Folder) \in Nat
            BY <2>1, EmptyList DEF Fresh
        <3>2. Consumed' = 0 /\ 1 .. Consumed' = {}
            BY <3>1
        <3>3. DirectoryTypeOK'
            <4>1. finished' \in BOOLEAN /\ broken' \in BOOLEAN
                BY <3>1, Zenon
            <4>2. stream' \in {"closed", "open", "reading"} /\ position' \in 0 .. Len(Folder) /\ buffered' \in 0 .. position'
                BY <2>1, <3>1
            <4>3. QED
                BY <3>1, <4>1, <4>2, Zenon
        <3>4. ListedInOrder'
            <4> HIDE DEF Consumed
            <4>1. QED
                BY <3>1, <3>2
        <3>5. QED
            BY <3>1, <3>3, <3>4
    <2>2. CASE Opendir \/ Rewinddir
        BY <2>1, <2>2 DEF Opendir, Rewinddir
    <2>3. CASE ReaddirCall \/ Closedir
        BY <2>3 DEF ReaddirCall, Closedir
    <2>4. CASE ReaddirFinished
        BY <2>4 DEF ReaddirFinished, Finish
    <2>5. CASE Refill
        BY <2>5 DEF Refill
    <2>6. CASE RefillEnds \/ TakeBad
        BY <2>6 DEF RefillEnds, TakeBad, Finish
    <2>7. CASE TakeFree
        BY <2>7 DEF TakeFree
    <2>8. CASE TakeLive
        <3>1. listed \in Seq(Nat) /\ Next1 \in Nat /\ Next1 \in 1 .. Len(Folder)
            BY <2>8 DEF TakeLive
        <3> DEFINE more == Append(listed, Next1)
        <3>2. /\ more \in Seq(Nat) /\ DOMAIN more = 1 .. Len(listed) + 1
              /\ DOMAIN listed = 1 .. Len(listed) /\ Len(listed) \in Nat
              /\ \A i \in 1 .. Len(listed) : more[i] = listed[i]
              /\ more[Len(listed) + 1] = Next1
            BY <3>1
        <3>3. listed' = more /\ position' = position /\ buffered' = buffered - 1
            BY <2>8 DEF TakeLive
        <3>4. DirectoryTypeOK'
            BY <2>8, <3>2, <3>3 DEF TakeLive
        <3>5. \A i \in DOMAIN more : more[i] \in 1 .. Next1 /\ Folder[more[i]] = "live"
            BY <2>8, <3>1, <3>2 DEF TakeLive
        <3>6. \A i, j \in DOMAIN more : i < j => more[i] < more[j]
            <4>1. Consumed \in Nat /\ Next1 = Consumed + 1
                OBVIOUS
            <4>2. \A i \in 1 .. Len(listed) : listed[i] \in 1 .. Consumed
                BY <3>2, Zenon
            <4>3. \A i, j \in 1 .. Len(listed) : i < j => listed[i] < listed[j]
                BY <3>2, Zenon
            <4> HIDE DEF more, Consumed, Next1, ListingTrue, DirectoryTypeOK, ListedInOrder
            <4>4. SUFFICES ASSUME NEW i \in 1 .. Len(listed) + 1, NEW j \in 1 .. Len(listed) + 1, i < j
                           PROVE  more[i] < more[j]
                BY <3>2
            <4>5. i \in 1 .. Len(listed) /\ more[i] = listed[i]
                BY <3>2, <4>4
            <4>6. CASE j = Len(listed) + 1
                BY <3>2, <4>1, <4>2, <4>5, <4>6
            <4>7. CASE j \in 1 .. Len(listed)
                BY <3>2, <4>3, <4>4, <4>5, <4>7
            <4>8. QED
                BY <3>2, <4>6, <4>7
        <3>7. \A n \in 1 .. Next1 : Folder[n] = "live" => \E i \in DOMAIN more : more[i] = n
            <4> SUFFICES ASSUME NEW n \in 1 .. Next1, Folder[n] = "live" PROVE \E i \in DOMAIN more : more[i] = n
                OBVIOUS
            <4>1. CASE n = Next1
                BY <3>2, <4>1
            <4>2. CASE n # Next1
                <5>1. n \in 1 .. Consumed
                    BY <3>1, <4>2
                <5>2. PICK i \in DOMAIN listed : listed[i] = n
                    BY <5>1
                <5>3. QED
                    BY <3>2, <5>2
            <4>3. QED
                BY <4>1, <4>2
        <3>8. Consumed' = Next1
            BY <3>3
        <3>9. ListedInOrder'
            <4> HIDE DEF more, Next1, Consumed
            <4>1. QED
                BY <3>3, <3>5, <3>6, <3>7, <3>8 DEF ListedInOrder
        <3>10. QED
            BY <2>8, <3>4, <3>9 DEF TakeLive
    <2>9. CASE UNCHANGED directoryVars
        BY <2>9 DEF directoryVars
    <2>10. QED
        BY <2>2, <2>3, <2>4, <2>5, <2>6, <2>7, <2>8, <2>9 DEF DirectoryNext
<1>3. QED
    BY <1>1, <1>2, PTL DEF DirectorySpec

-----------------------------------------------------------------------------
(* The environment. *)

(* For any names and values, and any size of the array.                      *)
THEOREM EnvironmentCorrect == EnvironmentSpec => []EnvironmentTrue
<1> USE EnvironmentAssumption DEF EnvironmentTrue, EnvironmentTypeOK, HoldsContents, PointersRead, Used, Entry
<1>1. EnvironmentInit => EnvironmentTrue
    <2> SUFFICES ASSUME EnvironmentInit PROVE EnvironmentTrue
        OBVIOUS
    <2>1. Used = {} /\ contents = {} /\ handed = {} /\ environmentCount = 0 /\ DOMAIN environment = 1 .. EnvMax
        <3>1. contents = {} /\ handed = {} /\ environmentCount = 0
            BY DEF EnvironmentInit
        <3>2. DOMAIN environment = 1 .. EnvMax
            BY Zenon DEF EnvironmentInit
        <3>3. Used = {}
            BY <3>1
        <3>4. QED
            BY <3>1, <3>2, <3>3, Zenon
    <2>2. EnvironmentTypeOK /\ PointersRead
        BY <2>1
    <2>3. HoldsContents
        <3> HIDE DEF Used
        <3>1. QED
            BY <2>1
    <2>4. QED
        BY <2>2, <2>3
<1>2. EnvironmentTrue /\ [EnvironmentNext]_environmentVars => EnvironmentTrue'
    <2> SUFFICES ASSUME EnvironmentTrue, [EnvironmentNext]_environmentVars PROVE EnvironmentTrue'
        OBVIOUS
    <2>1. ASSUME NEW name \in EnvName, Getenv(name) PROVE EnvironmentTrue'
        BY <2>1 DEF Getenv, At
    <2>2. ASSUME NEW name \in EnvName, NEW value \in EnvValue, SetOver(name, value) PROVE EnvironmentTrue'
        <3>1. PICK i \in Used : At(name, i) /\ environment' = [environment EXCEPT ![i] = Entry(name, value)]
            BY <2>2 DEF SetOver
        <3>2. EnvironmentTypeOK' /\ PointersRead' /\ \A k, j \in Used' : environment'[k].name = environment'[j].name => k = j
            BY <2>2, <3>1 DEF SetOver, At
        <3>3. contents' = {environment'[k] : k \in Used'}
            <4>1. \A k \in Used : environment'[k] = IF k = i THEN Entry(name, value) ELSE environment[k]
                BY <3>1
            <4>2. \A k \in Used : environment[k].name = name <=> k = i
                BY <3>1 DEF At
            <4>3. QED
                BY <2>2, <4>1, <4>2 DEF SetOver, Others
        <3>4. QED
            BY <3>2, <3>3
    <2>3. ASSUME NEW name \in EnvName, NEW value \in EnvValue, SetNew(name, value) PROVE EnvironmentTrue'
        <3> DEFINE new == environmentCount + 1
        <3>1. /\ environmentCount' = new /\ environment' = [environment EXCEPT ![new] = Entry(name, value)]
              /\ contents' = contents \union {Entry(name, value)} /\ UNCHANGED handed
              /\ value \notin TooLong /\ new \in 1 .. EnvMax /\ \A i \in Used : environment[i].name # name
            BY <2>3 DEF SetNew
        <3>2. /\ Used' = Used \union {new} /\ new \notin Used
              /\ environment'[new] = Entry(name, value) /\ \A i \in Used : environment'[i] = environment[i]
            BY <3>1
        <3>3. EnvironmentTypeOK' /\ PointersRead'
            BY <3>1
        <3>4. \A k, j \in Used' : environment'[k].name = environment'[j].name => k = j
            BY <3>1, <3>2
        <3>5. contents' = {environment'[k] : k \in Used'}
            BY <3>1, <3>2
        <3>6. QED
            BY <3>3, <3>4, <3>5
    <2>4. ASSUME NEW name \in EnvName, Unsetenv(name) PROVE EnvironmentTrue'
        <3>1. PICK i \in Used : /\ At(name, i) /\ FillHole(i)
                                /\ handed' = {p \in handed : p[1] \notin {i, environmentCount}}
            BY <2>4 DEF Unsetenv
        <3>2. EnvironmentTypeOK' /\ PointersRead' /\ \A k, j \in Used' : environment'[k].name = environment'[j].name => k = j
            BY <2>4, <3>1 DEF Unsetenv, At, FillHole
        <3>3. contents' = {environment'[k] : k \in Used'}
            BY <2>4, <3>1, SMTT(30) DEF Unsetenv, At, FillHole, Others
        <3>4. QED
            BY <3>2, <3>3
    <2>5. CASE UNCHANGED environmentVars
        BY <2>5 DEF environmentVars
    <2>6. QED
        BY <2>1, <2>2, <2>3, <2>4, <2>5 DEF EnvironmentNext, Setenv, Putenv
<1>3. QED
    BY <1>1, <1>2, PTL DEF EnvironmentSpec

-----------------------------------------------------------------------------
(* The display and the Vulkan entry points. *)

(* What every step keeps of the display: the frame it comes to is whole and not    *)
(* the caller's; unless a wait ended early, that is the frame it scans out, but for     *)
(* the one flip that present waits for.                                          *)
Clean(frame) == memory[frame] = cached[frame] /\ \E p \in 1 .. MaxPictures : cached[frame] = Whole(p)

(* A frame that is the caller's no more, or not yet again, while present is at a step. *)
Given(frame) ==
    /\ frame \in Frames /\ Clean(frame)
    /\ display \in {"open", "submitting"} => frame # back /\ cached[frame] = shown

DisplayIInv ==
    /\ display \in {"closed", "opening", "open", "submitting", "waiting", "waited"}
    /\ back \in Frames
    /\ drawing \in 1 .. MaxPictures
    /\ DOMAIN cached = Frames /\ DOMAIN memory = Frames
    /\ scanned \in Frames \union {-1} /\ submitted \in Seq(Frames)
    /\ Coming # -1 => Given(Coming)
    /\ display \in {"waiting", "waited"} => Coming = back
    /\ display = "waiting" => submitted # <<>>
    /\ early => submitted # <<>>
    /\ ~early /\ scanned # -1 => Given(scanned)
    /\ ~early /\ submitted # <<>> => display = "waiting" /\ Len(submitted) = 1
    /\ display \in {"submitting", "waiting", "waited"} => Clean(back)

(* What a vertical blank and a new flip do to the queue and to the frame the display *)
(* comes to.                                                                    *)
LEMMA Queue ==
    ASSUME NEW q \in Seq(Frames)
    PROVE  /\ q # <<>> => /\ Head(q) \in Frames /\ Tail(q) \in Seq(Frames)
                          /\ Len(q) = 1 => Tail(q) = <<>>
                          /\ Tail(q) = <<>> => Head(q) = q[Len(q)]
                          /\ Tail(q) # <<>> => Tail(q)[Len(Tail(q))] = q[Len(q)]
           /\ \A f \in Frames : /\ Append(q, f) \in Seq(Frames) /\ Append(q, f) # <<>>
                                /\ Append(q, f)[Len(Append(q, f))] = f
                                /\ q = <<>> => Len(Append(q, f)) = 1
<1>1. ASSUME q # <<>>
      PROVE  /\ Head(q) \in Frames /\ Tail(q) \in Seq(Frames)
             /\ Len(q) = 1 => Tail(q) = <<>>
             /\ Tail(q) = <<>> => Head(q) = q[Len(q)]
             /\ Tail(q) # <<>> => Tail(q)[Len(Tail(q))] = q[Len(q)]
  <2>1. Len(q) \in Nat \ {0} /\ Head(q) = q[1] /\ q[1] \in Frames
    BY <1>1
  <2>2. /\ Tail(q) \in Seq(Frames) /\ Len(Tail(q)) = Len(q) - 1
        /\ \A i \in 1 .. Len(q) - 1 : Tail(q)[i] = q[i + 1]
    BY <1>1, HeadTailProperties
  <2>3. Tail(q) = <<>> <=> Len(Tail(q)) = 0
    BY <2>2, EmptySeq
  <2>4. Tail(q) # <<>> => Tail(q)[Len(Tail(q))] = q[Len(q)]
    BY <2>1, <2>2, <2>3
  <2>5. QED
    BY <2>1, <2>2, <2>3, <2>4
<1>2. ASSUME NEW f \in Frames
      PROVE  /\ Append(q, f) \in Seq(Frames) /\ Append(q, f) # <<>>
             /\ Append(q, f)[Len(Append(q, f))] = f
             /\ q = <<>> => Len(Append(q, f)) = 1
  BY AppendProperties
<1>3. QED
  BY <1>1, <1>2

(* Only flips and vertical blanks change the frame the display comes to.     *)
LEMMA QueueRests == UNCHANGED <<scanned, submitted>> => Coming' = Coming
BY DEF Coming

(* The frame the display comes to holds a whole picture, that of the last         *)
(* present, for any number of pictures and flips, whatever the cache writes back      *)
(* when, and whether the waits answered early or not.                                *)
THEOREM FlipCorrect == DisplaySpec => []FlipSound
<1> USE PictureAssumption DEF DisplayIInv, Given, Clean, Frames, Whole, Partly
<1>1. DisplayInit => DisplayIInv
    BY DEF DisplayInit, Blank, Coming
<1>2. DisplayIInv /\ [DisplayNext]_displayVars => DisplayIInv'
    <2> SUFFICES ASSUME DisplayIInv, [DisplayNext]_displayVars PROVE DisplayIInv'
        OBVIOUS
    <2>1. CASE OpenBegins
        BY <2>1, QueueRests DEF OpenBegins
    <2>2. CASE OpenRefused
        BY <2>2, QueueRests DEF OpenRefused, Closed
    <2>3. CASE OpenDone
        BY <2>3 DEF OpenDone, Blank, Coming
    <2>4. CASE WriteSome
        BY <2>4, QueueRests DEF WriteSome
    <2>5. CASE WriteLast
        BY <2>5, QueueRests DEF WriteLast
    <2>6. CASE PresentBegins
        BY <2>6, QueueRests DEF PresentBegins, Flush
    <2>7. CASE SubmitRefused
        BY <2>7, QueueRests DEF SubmitRefused
    <2>8. CASE Submit
        <3>1. submitted' \in Seq(Frames) /\ submitted' # <<>> /\ Coming' = back
              /\ (submitted = <<>> => Len(submitted') = 1)
            BY <2>8, Queue DEF Submit, Coming
        <3>2. QED
            BY <2>8, <3>1 DEF Submit
    <2>9. CASE Vblank
        <3>1. /\ submitted' \in Seq(Frames) /\ Coming' = Coming /\ scanned' \in Frames
              /\ submitted' = <<>> => scanned' = Coming
              /\ Len(submitted) = 1 => submitted' = <<>>
            BY <2>9, Queue DEF Vblank, Coming
        <3>2. early' <=> early /\ submitted' # <<>>
            BY <2>9, Zenon DEF Vblank
        <3>3. QED
            BY <2>9, <3>1, <3>2 DEF Vblank
    <2>10. CASE WaitFails
        BY <2>10, QueueRests DEF WaitFails
    <2>11. CASE PresentEnds
        <3>1. Coming' = Coming /\ (submitted = <<>> => Coming = scanned)
            BY <2>11, QueueRests DEF PresentEnds, Coming
        <3>2. back' \in Frames /\ back # back' /\ Coming = back
            BY <2>11 DEF PresentEnds, Swap
        <3>3. QED
            BY <2>11, <3>1, <3>2 DEF PresentEnds
    <2>12. CASE Close
        BY <2>12, QueueRests DEF Close, Closed
    <2>13. ASSUME NEW f \in Frames, Evict(f) PROVE DisplayIInv'
        BY <2>13, QueueRests DEF Evict
    <2>14. CASE UNCHANGED displayVars
        BY <2>14, QueueRests DEF displayVars
    <2>15. QED
        BY <2>1, <2>2, <2>3, <2>4, <2>5, <2>6, <2>7, <2>8, <2>9, <2>10, <2>11, <2>12, <2>13, <2>14
        DEF DisplayNext
<1>3. DisplayIInv => FlipSound
    BY DEF FlipSound, Presentable
<1>4. QED
    BY <1>1, <1>2, <1>3, PTL DEF DisplaySpec

-----------------------------------------------------------------------------
(* What every step keeps of the entry points: an object that a call was allowed   *)
(* on stays, a function that is kept is the right one.                         *)
VkIInv ==
    /\ instance \in BOOLEAN /\ device \in BOOLEAN /\ (device => instance)
    /\ deviceProc \in {None, "vkGetDeviceProcAddr"}
    /\ DOMAIN pfn = Command /\ \A c \in Command : pfn[c] \in {None, c}
    /\ vkAt \in [Caller -> {"outside", "resolve", "call"} \X (Command \union {None})]
    /\ \A t \in Caller : vkAt[t][1] # "outside" =>
          /\ vkAt[t][2] \in Command
          /\ vkAt[t][2] \in OfInstance => instance
          /\ vkAt[t][2] \in OfDevice => device
    /\ CallsReach

(* A legal command finds the driver's function, whatever is known by then.   *)
LEMMA Resolves ==
    ASSUME NEW c \in Command, instance \in BOOLEAN, device \in BOOLEAN, device => instance,
           c \in OfInstance => instance, c \in OfDevice => device,
           deviceProc \in {None, "vkGetDeviceProcAddr"}
    PROVE  Resolve(c)[1] = c /\ Resolve(c)[2] \in {None, "vkGetDeviceProcAddr"}
BY DEF Resolve, InstanceProc, DeviceProc, Command, Global, OfInstance, OfDevice, None

(* For any number of threads, and whichever of a device's commands the driver      *)
(* answers for an instance: no call goes to null or to another function.        *)
THEOREM CallsCorrect == VkSpec => []CallsReach
<1>1. VkInit => VkIInv
    <2> SUFFICES ASSUME VkInit PROVE VkIInv
        OBVIOUS
    <2>1. instance \in BOOLEAN /\ device \in BOOLEAN /\ (device => instance)
        BY Zenon DEF VkInit
    <2>2. vkAt \in [Caller -> {"outside", "resolve", "call"} \X (Command \union {None})]
        BY DEF VkInit
    <2>3. DOMAIN pfn = Command /\ \A c \in Command : pfn[c] = None
        BY DEF VkInit
    <2>4. (\A t \in Caller : vkAt[t][1] = "outside") /\ deviceProc = None /\ engine = {}
        BY DEF VkInit
    <2>5. CallsReach
        BY <2>4 DEF CallsReach
    <2>6. QED
        BY <2>1, <2>2, <2>3, <2>4, <2>5 DEF VkIInv
<1>2. VkIInv /\ [VkNext]_vkVars => VkIInv'
    <2> SUFFICES ASSUME VkIInv, [VkNext]_vkVars PROVE VkIInv'
        OBVIOUS
    <2>1. ASSUME NEW t \in Caller, NEW c \in Command, Trampoline(t, c) PROVE VkIInv'
        BY <2>1 DEF Trampoline, Legal, Go, UnchangedLookups, VkIInv, CallsReach
    <2>2. ASSUME NEW t \in Caller, StoreResolved(t) PROVE VkIInv'
        BY <2>2, Resolves DEF StoreResolved, Go, UnchangedLookups, VkIInv, CallsReach
    <2>3. ASSUME NEW t \in Caller, DriverReturns(t) PROVE VkIInv'
        BY <2>3 DEF DriverReturns, Go, UnchangedLookups, VkIInv, CallsReach, OfInstance
    <2>4. ASSUME NEW name \in {"vkGetDeviceProcAddr", "vkGetPhysicalDeviceFeatures2"}, LookInstance(name) PROVE VkIInv'
        BY <2>4 DEF LookInstance, Aliased, InstanceProc, Promoted, None, VkIInv, CallsReach
    <2>5. ASSUME NEW name \in {"vkQueuePresentKHR", "vkCmdDraw"}, LookDevice(name) PROVE VkIInv'
        BY <2>5 DEF LookDevice, DeviceProc, OfDevice, None, Promoted, VkIInv, CallsReach
    <2>6. CASE UNCHANGED vkVars
        BY <2>6 DEF vkVars, VkIInv, CallsReach
    <2>7. QED
        BY <2>1, <2>2, <2>3, <2>4, <2>5, <2>6 DEF VkNext
<1>3. VkIInv => CallsReach
    BY DEF VkIInv
<1>4. QED
    BY <1>1, <1>2, <1>3, PTL DEF VkSpec

-----------------------------------------------------------------------------
(* Surfaces. A call knows at every step what it may hold.                     *)
HeldByStep ==
    /\ surfaceStep \in {"idle", "displays", "read displays", "planes", "read planes", "modes", "read modes"}
    /\ surfaceStep \in {"idle", "displays"} => held = {}
    /\ surfaceStep \in {"read displays", "planes"} => held \subseteq {"displays"}
    /\ surfaceStep \in {"read planes", "modes"} => held \subseteq {"displays", "planes"}
    /\ surfaceStep = "read modes" => held \subseteq {"displays", "planes", "modes"}

(* Before the modes are looked at nothing is known; the displays it has passed do *)
(* not have the mode.                                                        *)
SearchByStep ==
    /\ refused \in BOOLEAN
    /\ looking \in Nat \ {0} /\ chosen \in Displays \union {0}
    /\ chosen # 0 => Offers(chosen)
    /\ surfaceStep # "idle" => surface = <<>>
    /\ surfaceStep \in {"displays", "read displays", "planes", "read planes"} =>
          looking = 1 /\ chosen = 0 /\ ~refused
    /\ surfaceStep = "read modes" => chosen = 0 /\ looking \in Displays
    /\ surfaceStep \in {"modes", "read modes"} /\ ~refused /\ chosen = 0 =>
          \A d \in Displays : d < looking => ~Offers(d)

SurfaceIInv == HeldByStep /\ SearchByStep /\ SurfaceSound

(* Displays are numbered from one.                                           *)
LEMMA Places == Displays = 1 .. Len(DisplayModes) /\ Len(DisplayModes) \in Nat /\ 0 \notin Displays
BY ScreenAssumption DEF Displays

(* A way out that frees what is held leaves no list behind.                  *)
LEMMA LeavesClean ==
    ASSUME SurfaceIInv, NEW wrong \in BOOLEAN, NEW freed, held \subseteq freed,
           Leave(freed, <<>>, wrong),
           ~refused /\ ~wrong =>
              \/ chosen # 0 /\ \A p \in Planes : PlaneDisplays[p] \notin {0, chosen}
              \/ chosen = 0 /\ \A d \in Displays : ~Offers(d)
    PROVE  SurfaceIInv'
<1>1. /\ surfaceStep' = "idle" /\ held' = {} /\ surface' = <<>> /\ refused' \in BOOLEAN
      /\ refused' <=> refused \/ wrong
      /\ looking' = looking /\ chosen' = chosen
    <2>1. refused' = (refused \/ wrong) /\ refused \in BOOLEAN
        BY Zenon DEF Leave, SurfaceIInv, HeldByStep, SearchByStep
    <2>2. refused' \in BOOLEAN /\ (refused' <=> refused \/ wrong)
        BY <2>1, Zenon
    <2>3. QED
        BY <2>2, Zenon DEF Leave
<1>2. SurfaceSound'
    BY <1>1 DEF SurfaceSound, SurfaceIInv, HeldByStep, SearchByStep, Offers
<1>3. QED
    BY <1>1, <1>2 DEF SurfaceIInv, HeldByStep, SearchByStep, Offers

(* A surface is on a display with the screen's mode and a plane that can drive    *)
(* it, and nothing else is left of a call; for any displays and planes.       *)
THEOREM SurfaceCorrect == SurfaceSpec => []SurfaceSound
<1>1. SurfaceInit => SurfaceIInv
    <2> SUFFICES ASSUME SurfaceInit PROVE SurfaceIInv
        OBVIOUS
    <2>1. ~refused /\ refused \in BOOLEAN
        BY Zenon DEF SurfaceInit
    <2>2. QED
        BY <2>1 DEF SurfaceInit, SurfaceIInv, HeldByStep, SearchByStep, SurfaceSound
<1>2. SurfaceIInv /\ [SurfaceNext]_surfaceVars => SurfaceIInv'
    <2> SUFFICES ASSUME SurfaceIInv, [SurfaceNext]_surfaceVars PROVE SurfaceIInv'
        OBVIOUS
    <2>1. CASE CreateCall
        <3>1. ~refused' /\ refused' \in BOOLEAN
            BY <2>1, Zenon DEF CreateCall
        <3>2. QED
            BY <2>1, <3>1 DEF CreateCall, SurfaceIInv, HeldByStep, SearchByStep, SurfaceSound
    <2>2. CASE DisplaysRefused \/ DisplaysUnread \/ PlanesRefused \/ PlanesUnread
        <3>1. CASE DisplaysRefused
            BY <3>1, LeavesClean DEF DisplaysRefused, SurfaceIInv, HeldByStep, SearchByStep
        <3>2. CASE DisplaysUnread
            BY <3>2, LeavesClean DEF DisplaysUnread, SurfaceIInv, HeldByStep, SearchByStep
        <3>3. CASE PlanesRefused
            BY <3>3, LeavesClean DEF PlanesRefused, SurfaceIInv, HeldByStep, SearchByStep
        <3>4. CASE PlanesUnread
            BY <3>4, LeavesClean DEF PlanesUnread, SurfaceIInv, HeldByStep, SearchByStep
        <3>5. QED
            BY <2>2, <3>1, <3>2, <3>3, <3>4
    <2>3. CASE DisplaysAllocated \/ DisplaysRead \/ PlanesAllocated \/ PlanesRead
        <3>1. /\ UNCHANGED <<looking, chosen, surface, refused>>
              /\ surfaceStep \in {"displays", "read displays", "planes", "read planes"}
              /\ surfaceStep' \in {"read displays", "planes", "read planes", "modes"}
            BY <2>3 DEF DisplaysAllocated, DisplaysRead, PlanesAllocated, PlanesRead, Allocate
        <3>2. HeldByStep'
            <4>1. CASE DisplaysAllocated
                BY <4>1 DEF DisplaysAllocated, Allocate, SurfaceIInv, HeldByStep
            <4>2. CASE DisplaysRead
                BY <4>2 DEF DisplaysRead, SurfaceIInv, HeldByStep
            <4>3. CASE PlanesAllocated
                BY <4>3 DEF PlanesAllocated, Allocate, SurfaceIInv, HeldByStep
            <4>4. CASE PlanesRead
                BY <4>4 DEF PlanesRead, SurfaceIInv, HeldByStep
            <4>5. QED
                BY <2>3, <4>1, <4>2, <4>3, <4>4
        <3>3. \A d \in Displays : ~(d < 1)
            BY Places
        <3>4. SearchByStep'
            BY <3>1, <3>3 DEF SurfaceIInv, SearchByStep, Offers
        <3>5. QED
            BY <3>1, <3>2, <3>4 DEF SurfaceIInv, SurfaceSound
    <2>5. CASE ModesRefused \/ ModesUnread
        <3>0. PassOver /\ Looking /\ surfaceStep \in {"modes", "read modes"} /\ surfaceStep' = "modes"
            BY <2>5 DEF ModesRefused, ModesUnread, PassOver, Looking, SurfaceIInv, SearchByStep
        <3>1. refused' = (refused \/ DisplayModes[looking] # {}) /\ refused \in BOOLEAN
            BY <3>0, Zenon DEF PassOver, SurfaceIInv, SearchByStep
        <3>2. refused' \in BOOLEAN /\ (refused' <=> refused \/ DisplayModes[looking] # {})
            BY <3>1, Zenon
        <3>3. ~refused' => ~refused /\ ~Offers(looking)
            BY <3>2 DEF Offers
        <3>4. held' \subseteq {"displays", "planes"}
            BY <2>5 DEF ModesRefused, ModesUnread, SurfaceIInv, HeldByStep
        <3>5. HeldByStep'
            BY <3>0, <3>4 DEF HeldByStep
        <3>6. \A d \in Displays : d < looking + 1 => d < looking \/ d = looking
            <4>1. looking \in Nat \ {0}
                BY DEF SurfaceIInv, SearchByStep
            <4>2. QED
                BY <4>1, Places
        <3>7. SearchByStep'
            <4>1. /\ looking \in Nat \ {0} /\ looking' = looking + 1 /\ chosen = 0 /\ chosen' = 0
                  /\ surface' = <<>>
                BY <3>0 DEF PassOver, Looking, SurfaceIInv, SearchByStep
            <4>2. ~refused' => \A d \in Displays : d < looking' => ~Offers(d)
                <5>1. ~refused => \A d \in Displays : d < looking => ~Offers(d)
                    BY <3>0, <4>1 DEF SurfaceIInv, SearchByStep
                <5>2. QED
                    BY <3>3, <3>6, <4>1, <5>1
            <4>3. refused' \in BOOLEAN
                BY <3>2, Zenon
            <4>4. looking' \in Nat \ {0}
                BY <4>1
            <4>5. surfaceStep' = "modes"
                BY <3>0
            <4>6. QED
                BY <4>1, <4>2, <4>3, <4>4, <4>5 DEF SearchByStep, Offers
        <3>8. QED
            BY <3>0, <3>5, <3>7 DEF SurfaceIInv, SurfaceSound
    <2>6. CASE ModesAllocated
        <3>1. HeldByStep'
            BY <2>6 DEF ModesAllocated, Allocate, SurfaceIInv, HeldByStep
        <3>2. SearchByStep'
            BY <2>6 DEF ModesAllocated, Allocate, Looking, SurfaceIInv, SearchByStep, Offers
        <3>3. QED
            BY <2>6, <3>1, <3>2 DEF ModesAllocated, Allocate, SurfaceIInv, SurfaceSound
    <2>7. CASE ModesCompared
        <3>1. HeldByStep'
            BY <2>7 DEF ModesCompared, SurfaceIInv, HeldByStep
        <3>2. \A d \in Displays : d < looking + 1 => d < looking \/ d = looking
            <4>1. looking \in Nat \ {0}
                BY DEF SurfaceIInv, SearchByStep
            <4>2. QED
                BY <4>1, Places
        <3>3. SearchByStep'
            <4>1. /\ looking \in Nat \ {0} /\ looking \in Displays /\ looking' = looking + 1 /\ chosen = 0
                  /\ surface' = <<>> /\ UNCHANGED refused /\ refused \in BOOLEAN /\ surfaceStep' = "modes"
                  /\ chosen' = IF Offers(looking) THEN looking ELSE 0
                BY <2>7, Zenon DEF ModesCompared, SurfaceIInv, SearchByStep, Offers
            <4>2. ~refused' /\ chosen' = 0 => \A d \in Displays : d < looking' => ~Offers(d)
                <5>1. ~refused => \A d \in Displays : d < looking => ~Offers(d)
                    BY <2>7, <4>1 DEF ModesCompared, SurfaceIInv, SearchByStep
                <5>2. chosen' = 0 => ~Offers(looking)
                    BY <4>1
                <5>3. QED
                    BY <3>2, <4>1, <5>1, <5>2
            <4>3. looking' \in Nat \ {0} /\ chosen' \in Displays \union {0} /\ (chosen' # 0 => Offers(chosen'))
                BY <4>1
            <4>4. refused' \in BOOLEAN
                BY <4>1, Zenon
            <4>5. QED
                BY <4>1, <4>2, <4>3, <4>4 DEF SearchByStep, Offers
        <3>4. QED
            BY <2>7, <3>1, <3>3 DEF ModesCompared, SurfaceIInv, SurfaceSound
    <2>8. CASE NoMode
        <3>1. ~refused => \A d \in Displays : ~Offers(d)
            BY <2>8, Places DEF NoMode, SurfaceIInv, HeldByStep, SearchByStep
        <3>2. QED
            BY <2>8, <3>1, LeavesClean DEF NoMode, LeaveBoth, SurfaceIInv, HeldByStep, SearchByStep
    <2>9. CASE NoPlane
        BY <2>9, LeavesClean DEF NoPlane, LeaveBoth, Drives, SurfaceIInv, HeldByStep, SearchByStep
    <2>10. CASE SurfaceMade
        <3>1. PICK plane \in Planes :
                 FirstPlane(plane) /\ (LeaveBoth(<<chosen, plane>>, FALSE) \/ LeaveBoth(<<>>, TRUE))
            BY <2>10 DEF SurfaceMade
        <3>0. held \subseteq {"displays", "planes"}
            BY <2>10 DEF SurfaceMade, SurfaceIInv, HeldByStep, SearchByStep
        <3>2. CASE LeaveBoth(<<>>, TRUE)
            BY <3>0, <3>2, LeavesClean DEF LeaveBoth
        <3>3. CASE LeaveBoth(<<chosen, plane>>, FALSE)
            <4>1. refused' = (refused \/ FALSE) /\ refused \in BOOLEAN
                BY <3>3, Zenon DEF LeaveBoth, Leave, SurfaceIInv, HeldByStep, SearchByStep
            <4>2. refused' \in BOOLEAN
                BY <4>1, Zenon
            <4>3. /\ surfaceStep' = "idle" /\ held' = {} /\ surface' = <<chosen, plane>>
                  /\ looking' = looking /\ chosen' = chosen
                BY <3>0, <3>3 DEF LeaveBoth, Leave
            <4>4. surface'[1] = chosen /\ surface'[2] = plane /\ surface' # <<>>
                BY <4>3
            <4>5. Offers(chosen) /\ PlaneDisplays[plane] \in {0, chosen}
                BY <2>10, <3>1 DEF SurfaceMade, SurfaceIInv, HeldByStep, SearchByStep, FirstPlane, Drives
            <4>6. SurfaceSound'
                BY <4>3, <4>4, <4>5 DEF SurfaceSound, Offers
            <4>7. QED
                BY <4>2, <4>3, <4>6 DEF SurfaceIInv, HeldByStep, SearchByStep, Offers
        <3>4. QED
            BY <3>1, <3>2, <3>3
    <2>11. CASE UNCHANGED surfaceVars
        BY <2>11 DEF surfaceVars, SurfaceIInv, HeldByStep, SearchByStep, SurfaceSound, Offers
    <2>12. QED
        BY <2>1, <2>2, <2>3, <2>5, <2>6, <2>7, <2>8, <2>9, <2>10, <2>11 DEF SurfaceNext
<1>3. SurfaceIInv => SurfaceSound
    BY DEF SurfaceIInv, HeldByStep, SearchByStep
<1>4. QED
    BY <1>1, <1>2, <1>3, PTL DEF SurfaceSpec

-----------------------------------------------------------------------------
(* Frames. *)
FrameIInv ==
    /\ presents \in Nat /\ timed \in Nat /\ hitchLines \in Nat /\ frames \in Nat /\ unsaid \in Nat
    /\ vblanks \in [1 .. 4 -> Nat]
    /\ presents > 1 => askedBefore = askedOwn
    /\ TraceTrue

(* Every period falls into a bucket.                                         *)
LEMMA Buckets == \A period \in Periods : Bucket(period) \in 1 .. 4
BY DEF Periods, Bucket

(* A present more in its column of the window.                               *)
LEMMA OneMore ==
    ASSUME FrameIInv, NEW period \in Periods
    PROVE  /\ VblanksNow(period) \in [1 .. 4 -> Nat] /\ TimedNow \in Nat /\ UnsaidNow \in Nat
           /\ TimedNow = UnsaidNow
           /\ VblanksNow(period)[1] + VblanksNow(period)[2] + VblanksNow(period)[3]
                + VblanksNow(period)[4] = UnsaidNow
           /\ LinesNow(period) \in Nat /\ LinesNow(period) <= HitchMax
<1>1. Bucket(period) \in {1, 2, 3, 4}
    BY Buckets
<1> HIDE DEF Periods
<1>2. LinesNow(period) \in Nat /\ LinesNow(period) <= HitchMax
    BY TraceAssumption DEF LinesNow, IsHitch, FrameIInv, TraceTrue
<1>3. TimedNow \in Nat /\ UnsaidNow \in Nat /\ TimedNow = UnsaidNow
    BY DEF TimedNow, UnsaidNow, FrameIInv, TraceTrue
<1>4. /\ VblanksNow(period) \in [1 .. 4 -> Nat]
      /\ VblanksNow(period)[1] + VblanksNow(period)[2] + VblanksNow(period)[3]
           + VblanksNow(period)[4] = UnsaidNow
    BY <1>1 DEF VblanksNow, UnsaidNow, FrameIInv, TraceTrue
<1>5. QED
    BY <1>2, <1>3, <1>4

(* What the lines say is so, for any number of presents, intervals and hitches. *)
THEOREM TraceCorrect == FrameSpec => []TraceTrue
<1>1. FrameInit => FrameIInv
    <2> SUFFICES ASSUME FrameInit PROVE FrameIInv
        OBVIOUS
    <2>1. ~startupReported
        BY Zenon DEF FrameInit
    <2>2. QED
        BY <2>1, TraceAssumption DEF FrameInit, FrameIInv, TraceTrue
<1>2. FrameIInv /\ [FrameNext]_frameVars => FrameIInv'
    <2> SUFFICES ASSUME FrameIInv, [FrameNext]_frameVars PROVE FrameIInv'
        OBVIOUS
    <2>1. CASE Ask
        BY <2>1 DEF Ask, counters, FrameIInv, TraceTrue
    <2>2. CASE StartupMark
        BY <2>2 DEF StartupMark, counters, FrameIInv, TraceTrue
    <2>3. CASE PresentEnter
        BY <2>3 DEF PresentEnter, counters, FrameIInv, TraceTrue
    <2>4. ASSUME NEW ok \in BOOLEAN, NEW period \in Periods, PresentReturn(ok, period)
          PROVE  FrameIInv'
        <3>1. presents' \in Nat /\ frames' \in Nat /\ frames' >= frames /\ (ok => frames' > 0)
            BY <2>4 DEF PresentReturn, FrameIInv
        <3>2. presents' > 1 => askedBefore' = askedOwn'
            BY <2>4 DEF PresentReturn, Sample, FrameIInv
        <3>3. presents' > 2 => presents' > 1
            BY <3>1
        <3>4. startupReported' => frames' > 0
            <4>1. startupReported' = (startupReported \/ (~traced /\ ok))
                BY <2>4 DEF PresentReturn
            <4>2. startupReported' => startupReported \/ ok
                BY <4>1, Zenon
            <4>3. startupReported => frames > 0
                BY DEF FrameIInv, TraceTrue
            <4>4. QED
                BY <3>1, <4>2, <4>3 DEF FrameIInv
        <3>5. /\ timed' \in Nat /\ unsaid' \in Nat /\ hitchLines' \in Nat /\ hitchLines' <= HitchMax
              /\ vblanks' \in [1 .. 4 -> Nat] /\ timed' = unsaid'
              /\ vblanks'[1] + vblanks'[2] + vblanks'[3] + vblanks'[4] = unsaid'
            <4>1. CASE IntervalLine(ok, period)
                BY <2>4, <4>1, TraceAssumption DEF PresentReturn, Count
            <4>2. CASE ~IntervalLine(ok, period)
                <5>1. /\ timed' = TimedNow /\ vblanks' = VblanksNow(period)
                      /\ hitchLines' = LinesNow(period) /\ unsaid' = UnsaidNow
                    BY <2>4, <4>2 DEF PresentReturn, Count
                <5>2. QED
                    BY <5>1, OneMore
            <4>3. QED
                BY <4>1, <4>2
        <3>6. QED
            BY <3>1, <3>2, <3>3, <3>4, <3>5 DEF FrameIInv, TraceTrue
    <2>5. CASE UNCHANGED frameVars
        BY <2>5 DEF frameVars, FrameIInv, TraceTrue
    <2>6. QED
        BY <2>1, <2>2, <2>3, <2>4, <2>5 DEF FrameNext
<1>3. FrameIInv => TraceTrue
    BY DEF FrameIInv
<1>4. QED
    BY <1>1, <1>2, <1>3, PTL DEF FrameSpec

-----------------------------------------------------------------------------
(* Destructors. The list is in the order of its ids, newest first; every id is    *)
(* in the list or among those run.                                           *)
Destructor == [id : Nat, dso : Dso]
Run == [entry : Destructor, upTo : Nat]
Listed(id) == \E i \in DOMAIN pending : pending[i].id = id
Ran(id) == \E j \in DOMAIN started : started[j].entry.id = id

FinalizersIInv ==
    /\ registered \in Nat /\ pending \in Seq(Destructor) /\ started \in Seq(Run)
    /\ \A i, j \in DOMAIN pending : i < j => pending[j].id < pending[i].id
    /\ \A id \in Nat : Listed(id) \/ Ran(id) <=> id \in 1 .. registered
    /\ \A i \in DOMAIN started, j \in DOMAIN pending : started[i].entry.id # pending[j].id
    /\ Len(pending) + Len(started) = registered
    /\ \A i \in DOMAIN started : started[i].upTo <= registered
    /\ \A i \in DOMAIN started : \A id \in started[i].entry.id + 1 .. started[i].upTo :
          \/ \E j \in 1 .. i - 1 : started[j].entry.id = id
          \/ \E j \in DOMAIN started : j > i /\ started[j].entry.id = id
                                             /\ started[j].entry.dso # started[i].entry.dso
          \/ \E k \in DOMAIN pending : pending[k].id = id /\ pending[k].dso # started[i].entry.dso

(* Destructors, registered or started, have an id.                           *)
LEMMA Entries ==
    ASSUME FinalizersIInv
    PROVE  /\ \A i \in DOMAIN pending : pending[i] \in Destructor /\ pending[i].id \in Nat
           /\ \A i \in DOMAIN started : /\ started[i] \in Run /\ started[i].entry.id \in Nat
                                        /\ started[i].upTo \in Nat
<1>1. \A e \in Destructor : e.id \in Nat
    BY DEF Destructor
<1>2. \A r \in Run : r.entry.id \in Nat /\ r.upTo \in Nat
    BY <1>1 DEF Run
<1>3. \A i \in DOMAIN pending : pending[i] \in Destructor
    BY DEF FinalizersIInv
<1>4. \A i \in DOMAIN started : started[i] \in Run
    BY DEF FinalizersIInv
<1>5. QED
    BY <1>1, <1>2, <1>3, <1>4

(* A set of places has a first one.                                          *)
LEMMA FirstPlaceOf ==
    ASSUME NEW n \in Nat, NEW T \in SUBSET (1 .. n), T # {}
    PROVE  Min(T) \in T /\ \A j \in T : Min(T) <= j
<1> DEFINE Fronts == {1 .. i : i \in T}
<1>1. Fronts \subseteq FiniteSubsetsOf(1 .. n) /\ Fronts # {}
    <2>1. IsFiniteSet(1 .. n)
        BY FS_Interval
    <2>2. FiniteSubsetsOf(1 .. n) = SUBSET (1 .. n)
        BY <2>1, FS_FiniteSubsetsOfFinite
    <2>3. \A i \in T : 1 .. i \in SUBSET (1 .. n)
        OBVIOUS
    <2>4. PICK i \in T : TRUE
        OBVIOUS
    <2>5. 1 .. i \in Fronts /\ Fronts \subseteq SUBSET (1 .. n)
        BY <2>3
    <2>6. QED
        BY <2>2, <2>5, Zenon
<1>2. PICK x \in Fronts : \A y \in Fronts : <<y, x>> \notin StrictSubsetOrdering(1 .. n)
    <2> HIDE DEF Fronts
    <2>1. QED
        BY <1>1, FS_StrictSubsetOrderingWellFounded, WFMin
<1>3. PICK i \in T : x = 1 .. i
    OBVIOUS
<1>4. \A j \in T : ~(j < i)
    <2>1. SUFFICES ASSUME NEW j \in T, j < i PROVE FALSE
        OBVIOUS
    <2>2. 1 .. j \subseteq 1 .. i /\ 1 .. j # 1 .. i
          /\ 1 .. j \in SUBSET (1 .. n) /\ 1 .. i \in SUBSET (1 .. n)
        BY <2>1
    <2>3. <<1 .. j, 1 .. i>> \in StrictSubsetOrdering(1 .. n)
        BY <2>2 DEF StrictSubsetOrdering
    <2>4. QED
        BY <1>2, <1>3, <2>3
<1>5. \A j \in T : i <= j
    BY <1>4
<1>6. QED
    BY <1>5, Zenon DEF Min

(* A list without one of its entries.                                        *)
LEMMA RemoveAtIs ==
    ASSUME NEW S, NEW s \in Seq(S), NEW k \in DOMAIN s
    PROVE  /\ RemoveAt(s, k) \in Seq(S) /\ Len(RemoveAt(s, k)) = Len(s) - 1
           /\ \A i \in 1 .. Len(s) - 1 : RemoveAt(s, k)[i] = IF i < k THEN s[i] ELSE s[i + 1]
<1>1. Len(s) \in Nat /\ k \in 1 .. Len(s)
    OBVIOUS
<1>2. /\ SubSeq(s, 1, k - 1) \in Seq(S) /\ Len(SubSeq(s, 1, k - 1)) = k - 1
      /\ \A i \in 1 .. k - 1 : SubSeq(s, 1, k - 1)[i] = s[i]
    BY <1>1
<1>3. /\ SubSeq(s, k + 1, Len(s)) \in Seq(S) /\ Len(SubSeq(s, k + 1, Len(s))) = Len(s) - k
      /\ \A i \in 1 .. Len(s) - k : SubSeq(s, k + 1, Len(s))[i] = s[k + i]
    BY <1>1
<1> DEFINE a == SubSeq(s, 1, k - 1)
           b == SubSeq(s, k + 1, Len(s))
<1>4. RemoveAt(s, k) = a \o b
    BY DEF RemoveAt
<1> HIDE DEF a, b
<1>5. a \o b \in Seq(S) /\ Len(a \o b) = Len(s) - 1
    <2>1. a \in Seq(S) /\ b \in Seq(S) /\ Len(a) = k - 1 /\ Len(b) = Len(s) - k
        BY <1>2, <1>3 DEF a, b
    <2>2. a \o b \in Seq(S) /\ Len(a \o b) = Len(a) + Len(b)
        BY <2>1, ConcatProperties
    <2>3. QED
        BY <1>1, <2>1, <2>2
<1>6. \A i \in 1 .. Len(s) - 1 : (a \o b)[i] = IF i < k THEN s[i] ELSE s[i + 1]
    <2>1. SUFFICES ASSUME NEW i \in 1 .. Len(s) - 1
                   PROVE  (a \o b)[i] = IF i < k THEN s[i] ELSE s[i + 1]
        OBVIOUS
    <2>2. a \in Seq(S) /\ b \in Seq(S) /\ Len(a) = k - 1 /\ Len(b) = Len(s) - k
        BY <1>2, <1>3 DEF a, b
    <2>3. (a \o b)[i] = IF i <= Len(a) THEN a[i] ELSE b[i - Len(a)]
        <3>1. /\ Len(a) \in Nat /\ Len(b) \in Nat /\ a \o b \in Seq(S)
              /\ i \in 1 .. Len(a) + Len(b)
            BY <1>1, <2>2
        <3>2. QED
            BY <2>2, <3>1, ConcatProperties
    <2>4. CASE i < k
        <3>1. a[i] = s[i]
            BY <1>1, <1>2, <2>4 DEF a
        <3>2. QED
            BY <1>1, <2>2, <2>3, <2>4, <3>1
    <2>5. CASE ~(i < k)
        <3>1. i - Len(a) \in 1 .. Len(s) - k
            BY <1>1, <2>2, <2>5
        <3>2. b[i - Len(a)] = s[k + (i - Len(a))]
            BY <1>3, <3>1 DEF b
        <3>3. k + (i - Len(a)) = i + 1
            BY <1>1, <2>2
        <3>4. QED
            BY <1>1, <2>2, <2>3, <2>5, <3>2, <3>3
    <2>6. QED
        BY <2>4, <2>5
<1>7. QED
    BY <1>4, <1>5, <1>6

(* Registering keeps the invariant.                                          *)
LEMMA AtexitKeeps ==
    ASSUME FinalizersIInv, NEW t \in Finalizing, NEW dso \in Dso, Atexit(t, dso)
    PROVE  FinalizersIInv'
<1> DEFINE e == [id |-> registered + 1, dso |-> dso]
           n == Len(pending)
<1>0. registered \in Nat /\ pending \in Seq(Destructor) /\ started \in Seq(Run) /\ n \in Nat
    BY DEF FinalizersIInv
<1>1. registered' = registered + 1 /\ started' = started
      /\ pending' = <<e>> \o pending
    BY DEF Atexit
<1>2. e \in Destructor /\ e.id = registered + 1
    BY <1>0 DEF Destructor
<1>3. /\ pending' \in Seq(Destructor) /\ Len(pending') = n + 1 /\ pending'[1] = e
      /\ \A i \in 1 .. n : pending'[i + 1] = pending[i]
      /\ \A i \in 2 .. n + 1 : pending'[i] = pending[i - 1]
    BY <1>0, <1>1, <1>2
<1>4. DOMAIN pending = 1 .. n /\ DOMAIN pending' = 1 .. n + 1
    BY <1>0, <1>3
<1>5. \A i \in DOMAIN pending : pending[i].id \in 1 .. registered
    <2>1. \A i \in DOMAIN pending : pending[i].id \in Nat /\ Listed(pending[i].id)
        BY Entries DEF Listed
    <2>2. QED
        BY <2>1 DEF FinalizersIInv
<1>6. \A i \in DOMAIN started : started[i].entry.id \in 1 .. registered
    <2>1. \A i \in DOMAIN started : started[i].entry.id \in Nat /\ Ran(started[i].entry.id)
        BY Entries DEF Ran
    <2>2. QED
        BY <2>1 DEF FinalizersIInv
<1> HIDE DEF e, n
<1>7. \A id : Listed(id)' <=> id = registered + 1 \/ Listed(id)
    <2>1. ASSUME NEW id, Listed(id)' PROVE id = registered + 1 \/ Listed(id)
        <3>1. PICK i \in 1 .. n + 1 : pending'[i].id = id
            BY <1>4, <2>1 DEF Listed
        <3>2. CASE i = 1
            BY <1>2, <1>3, <3>1, <3>2
        <3>3. CASE i # 1
            <4>1. i \in 2 .. n + 1 /\ i - 1 \in 1 .. n
                BY <1>0, <3>3
            <4>2. QED
                BY <1>3, <1>4, <3>1, <4>1 DEF Listed
        <3>4. QED
            BY <3>2, <3>3
    <2>2. ASSUME NEW id, id = registered + 1 PROVE Listed(id)'
        <3>1. 1 \in 1 .. n + 1
            BY <1>0
        <3>2. QED
            BY <1>2, <1>3, <1>4, <2>2, <3>1 DEF Listed
    <2>3. ASSUME NEW id, Listed(id) PROVE Listed(id)'
        <3>1. PICK i \in 1 .. n : pending[i].id = id
            BY <1>4, <2>3 DEF Listed
        <3>2. i + 1 \in 1 .. n + 1 /\ pending'[i + 1] = pending[i]
            BY <1>0, <1>3
        <3>3. QED
            BY <1>4, <3>1, <3>2 DEF Listed
    <2>4. QED
        BY <2>1, <2>2, <2>3
<1>8. \A id : Ran(id)' <=> Ran(id)
    BY <1>1 DEF Ran
<1>9. \A i, j \in DOMAIN pending' : i < j => pending'[j].id < pending'[i].id
    <2>1. SUFFICES ASSUME NEW i \in 1 .. n + 1, NEW j \in 1 .. n + 1, i < j
                   PROVE  pending'[j].id < pending'[i].id
        BY <1>4
    <2>2. j \in 2 .. n + 1 /\ j - 1 \in 1 .. n /\ pending'[j] = pending[j - 1]
        BY <1>0, <1>3, <2>1
    <2>3. CASE i = 1
        <3>1. pending'[i].id = registered + 1
            BY <1>2, <1>3, <2>3
        <3>2. pending'[j].id \in 1 .. registered
            BY <1>4, <1>5, <2>2
        <3>3. QED
            BY <1>0, <3>1, <3>2
    <2>4. CASE i # 1
        <3>1. i \in 2 .. n + 1 /\ i - 1 \in 1 .. n /\ pending'[i] = pending[i - 1] /\ i - 1 < j - 1
            BY <1>0, <1>3, <2>1, <2>4
        <3>2. QED
            BY <1>4, <2>2, <3>1 DEF FinalizersIInv
    <2>5. QED
        BY <2>3, <2>4
<1>10. \A id \in Nat : Listed(id)' \/ Ran(id)' <=> id \in 1 .. registered'
    <2>1. \A id \in Nat : Listed(id) \/ Ran(id) <=> id \in 1 .. registered
        BY DEF FinalizersIInv
    <2>2. \A id \in Nat : id \in 1 .. registered + 1 <=> id \in 1 .. registered \/ id = registered + 1
        BY <1>0
    <2>3. QED
        BY <1>1, <1>7, <1>8, <2>1, <2>2
<1>11. \A i \in DOMAIN started', j \in DOMAIN pending' : started'[i].entry.id # pending'[j].id
    <2>1. SUFFICES ASSUME NEW i \in DOMAIN started, NEW j \in 1 .. n + 1
                   PROVE  started[i].entry.id # pending'[j].id
        BY <1>1, <1>4
    <2>2. CASE j = 1
        BY <1>0, <1>2, <1>3, <1>6, <2>2
    <2>3. CASE j # 1
        <3>1. j \in 2 .. n + 1 /\ j - 1 \in 1 .. n /\ pending'[j] = pending[j - 1]
            BY <1>0, <1>3, <2>3
        <3>2. QED
            BY <1>4, <3>1 DEF FinalizersIInv
    <2>4. QED
        BY <2>2, <2>3
<1>12. Len(pending') + Len(started') = registered'
    <2>1. n + Len(started) = registered /\ Len(started) \in Nat
        BY <1>0 DEF FinalizersIInv, n
    <2>2. Len(pending') = n + 1 /\ Len(started') = Len(started)
        BY <1>1, <1>3
    <2>3. QED
        BY <1>0, <1>1, <2>1, <2>2
<1>13. \A i \in DOMAIN started' : started'[i].upTo <= registered'
    <2>1. \A i \in DOMAIN started : started[i].upTo \in Nat
        BY Entries
    <2>2. QED
        BY <1>0, <1>1, <2>1 DEF FinalizersIInv
<1>14. ASSUME NEW i \in DOMAIN started', NEW id \in started'[i].entry.id + 1 .. started'[i].upTo
       PROVE  \/ \E j \in 1 .. i - 1 : started'[j].entry.id = id
              \/ \E j \in DOMAIN started' : j > i /\ started'[j].entry.id = id
                                                 /\ started'[j].entry.dso # started'[i].entry.dso
              \/ \E k \in DOMAIN pending' : pending'[k].id = id
                                              /\ pending'[k].dso # started'[i].entry.dso
    <2>1. CASE \E k \in DOMAIN pending : pending[k].id = id /\ pending[k].dso # started[i].entry.dso
        <3>1. PICK k \in 1 .. n : pending[k].id = id /\ pending[k].dso # started[i].entry.dso
            BY <1>4, <2>1
        <3>2. k + 1 \in 1 .. n + 1 /\ pending'[k + 1] = pending[k]
            BY <1>0, <1>3
        <3>3. QED
            BY <1>1, <1>4, <3>1, <3>2
    <2>2. QED
        BY <1>1, <2>1 DEF FinalizersIInv
<1>15. QED
    <2>1. registered' \in Nat /\ started' \in Seq(Run) /\ pending' \in Seq(Destructor)
        BY <1>0, <1>1, <1>3
    <2>2. QED
        BY <1>9, <1>10, <1>11, <1>12, <1>13, <1>14, <2>1 DEF FinalizersIInv

(* So does taking the next one out.                                          *)
LEMMA RunNextKeeps ==
    ASSUME FinalizersIInv, NEW t \in Finalizing, RunNext(t)
    PROVE  FinalizersIInv'
<1> DEFINE dso == Top(t).dso
           k == Found(dso)
           e == pending[k]
           r == [entry |-> e, upTo |-> registered]
           n == Len(pending)
           m == Len(started)
<1>0. registered \in Nat /\ pending \in Seq(Destructor) /\ started \in Seq(Run) /\ n \in Nat /\ m \in Nat
    BY DEF FinalizersIInv
<1>1. /\ Matching(dso) # {} /\ registered' = registered
      /\ pending' = RemoveAt(pending, k) /\ started' = Append(started, r)
    BY DEF RunNext
<1>2. DOMAIN pending = 1 .. n /\ DOMAIN started = 1 .. m
    BY <1>0
<1>3. k \in 1 .. n /\ dso \in {All, e.dso} /\ \A i \in 1 .. n : dso \in {All, pending[i].dso} => k <= i
    <2>1. Matching(dso) \in SUBSET (1 .. n)
        BY <1>2 DEF Matching
    <2>2. k \in Matching(dso) /\ \A j \in Matching(dso) : k <= j
        <3> HIDE DEF dso, n
        <3>1. QED
            BY <1>0, <1>1, <2>1, FirstPlaceOf DEF Found
    <2>3. QED
        BY <1>2, <2>2 DEF Matching
<1> HIDE DEF dso, k, n, m
<1>4. e \in Destructor /\ e.id \in Nat /\ r \in Run /\ r.entry = e /\ r.upTo = registered
    <2>1. e \in Destructor
        BY <1>0, <1>2, <1>3
    <2>2. QED
        BY <1>0, <2>1 DEF Run, Destructor
<1>5. /\ pending' \in Seq(Destructor) /\ Len(pending') = n - 1
      /\ \A i \in 1 .. n - 1 : pending'[i] = IF i < k THEN pending[i] ELSE pending[i + 1]
    BY <1>0, <1>1, <1>2, <1>3, RemoveAtIs DEF n
<1>6. DOMAIN pending' = 1 .. n - 1
    BY <1>5
<1>7. /\ started' \in Seq(Run) /\ Len(started') = m + 1 /\ started'[m + 1] = r
      /\ \A i \in 1 .. m : started'[i] = started[i]
    BY <1>0, <1>1, <1>4 DEF m
<1>8. DOMAIN started' = 1 .. m + 1
    BY <1>0, <1>7
<1>9. \A i \in 1 .. n : i # k => \E j \in 1 .. n - 1 : pending'[j] = pending[i]
    <2>1. SUFFICES ASSUME NEW i \in 1 .. n, i # k PROVE \E j \in 1 .. n - 1 : pending'[j] = pending[i]
        OBVIOUS
    <2>2. CASE i < k
        <3>1. i \in 1 .. n - 1 /\ pending'[i] = pending[i]
            BY <1>0, <1>3, <1>5, <2>2
        <3>2. QED
            BY <3>1
    <2>3. CASE i > k
        <3>1. i - 1 \in 1 .. n - 1 /\ ~(i - 1 < k) /\ i = (i - 1) + 1
            BY <1>0, <1>3, <2>3
        <3>2. pending'[i - 1] = pending[i]
            BY <1>5, <3>1
        <3>3. QED
            BY <3>1, <3>2
    <2>4. QED
        BY <1>0, <1>3, <2>1, <2>2, <2>3
<1> DEFINE From(i) == IF i < k THEN i ELSE i + 1
<1>10. \A i \in 1 .. n - 1 : From(i) \in 1 .. n /\ From(i) # k /\ pending'[i] = pending[From(i)]
    BY <1>0, <1>3, <1>5
<1>11. \A i, j \in 1 .. n - 1 : i < j => From(i) < From(j)
    BY <1>0, <1>3
<1> HIDE DEF e, r, From
<1>12. \A i \in 1 .. n : i # k => pending[i].id # e.id
    <2>1. \A i, j \in 1 .. n : i < j => pending[j].id < pending[i].id
        BY <1>2 DEF FinalizersIInv
    <2>2. \A i \in 1 .. n : pending[i].id \in Nat
        BY <1>2, Entries
    <2>3. QED
        BY <1>0, <1>3, <2>1, <2>2 DEF e
<1>13. \A i, j \in DOMAIN pending' : i < j => pending'[j].id < pending'[i].id
    BY <1>2, <1>6, <1>10, <1>11 DEF FinalizersIInv
<1>14. \A id : (Listed(id)' \/ Ran(id)') <=> (Listed(id) \/ Ran(id))
    <2>1. ASSUME NEW id, Listed(id)' PROVE Listed(id)
        <3>1. PICK i \in 1 .. n - 1 : pending'[i].id = id
            BY <1>6, <2>1 DEF Listed
        <3>2. QED
            BY <1>2, <1>10, <3>1 DEF Listed
    <2>2. ASSUME NEW id, Ran(id)' PROVE Listed(id) \/ Ran(id)
        <3>1. PICK j \in 1 .. m + 1 : started'[j].entry.id = id
            BY <1>8, <2>2 DEF Ran
        <3>2. CASE j = m + 1
            BY <1>2, <1>3, <1>4, <1>7, <3>1, <3>2 DEF Listed, e
        <3>3. CASE j # m + 1
            <4>1. j \in 1 .. m
                BY <1>0, <3>3
            <4>2. QED
                BY <1>2, <1>7, <3>1, <4>1 DEF Ran
        <3>4. QED
            BY <3>2, <3>3
    <2>3. ASSUME NEW id, Listed(id) PROVE Listed(id)' \/ Ran(id)'
        <3>1. PICK i \in 1 .. n : pending[i].id = id
            BY <1>2, <2>3 DEF Listed
        <3>2. CASE i = k
            <4>1. m + 1 \in 1 .. m + 1
                BY <1>0
            <4>2. started'[m + 1].entry.id = id
                BY <1>4, <1>7, <3>1, <3>2 DEF e
            <4>3. QED
                BY <1>8, <4>1, <4>2 DEF Ran
        <3>3. CASE i # k
            <4>1. PICK j \in 1 .. n - 1 : pending'[j] = pending[i]
                BY <1>9, <3>3
            <4>2. QED
                BY <1>6, <3>1, <4>1 DEF Listed
        <3>4. QED
            BY <3>2, <3>3
    <2>4. ASSUME NEW id, Ran(id) PROVE Ran(id)'
        <3>1. PICK j \in 1 .. m : started[j].entry.id = id
            BY <1>2, <2>4 DEF Ran
        <3>2. j \in 1 .. m + 1 /\ started'[j] = started[j]
            BY <1>0, <1>7
        <3>3. QED
            BY <1>8, <3>1, <3>2 DEF Ran
    <2>5. QED
        BY <2>1, <2>2, <2>3, <2>4
<1>15. \A i \in DOMAIN started', j \in DOMAIN pending' : started'[i].entry.id # pending'[j].id
    <2>1. SUFFICES ASSUME NEW i \in 1 .. m + 1, NEW j \in 1 .. n - 1
                   PROVE  started'[i].entry.id # pending'[j].id
        BY <1>6, <1>8
    <2>2. CASE i = m + 1
        BY <1>4, <1>7, <1>10, <1>12, <2>2
    <2>3. CASE i # m + 1
        <3>1. i \in 1 .. m
            BY <1>0, <2>3
        <3>2. QED
            <4>1. started'[i] = started[i]
                BY <1>7, <3>1
            <4>2. From(j) \in 1 .. n /\ pending'[j] = pending[From(j)]
                BY <1>10
            <4>3. started[i].entry.id # pending[From(j)].id
                BY <1>2, <3>1, <4>2 DEF FinalizersIInv
            <4>4. QED
                BY <4>1, <4>2, <4>3
    <2>4. QED
        BY <2>2, <2>3
<1>16. Len(pending') + Len(started') = registered'
    <2>1. n + m = registered
        BY DEF FinalizersIInv, n, m
    <2>2. QED
        BY <1>0, <1>1, <1>5, <1>7, <2>1
<1>17. \A i \in DOMAIN started' : started'[i].upTo <= registered'
    <2>1. SUFFICES ASSUME NEW i \in 1 .. m + 1 PROVE started'[i].upTo <= registered'
        BY <1>8
    <2>2. CASE i = m + 1
        BY <1>0, <1>1, <1>4, <1>7, <2>2
    <2>3. CASE i # m + 1
        <3>1. i \in 1 .. m
            BY <1>0, <2>3
        <3>2. QED
            BY <1>1, <1>2, <1>7, <3>1 DEF FinalizersIInv
    <2>4. QED
        BY <2>2, <2>3
<1>18. ASSUME NEW i \in 1 .. m + 1, NEW id \in started'[i].entry.id + 1 .. started'[i].upTo
       PROVE  \/ \E j \in 1 .. i - 1 : started'[j].entry.id = id
              \/ \E j \in DOMAIN started' : j > i /\ started'[j].entry.id = id
                                                 /\ started'[j].entry.dso # started'[i].entry.dso
              \/ \E l \in DOMAIN pending' : pending'[l].id = id
                                              /\ pending'[l].dso # started'[i].entry.dso
    <2>1. CASE i = m + 1
        <3>1. started'[i].entry = e /\ started'[i].upTo = registered /\ id \in e.id + 1 .. registered
            BY <1>4, <1>7, <2>1
        <3>2. id \in Nat /\ id \in 1 .. registered /\ id > e.id
            BY <1>0, <1>4, <3>1
        <3>3. Listed(id) \/ Ran(id)
            BY <3>2 DEF FinalizersIInv
        <3>4. CASE Ran(id)
            <4>1. PICK j \in 1 .. m : started[j].entry.id = id
                BY <1>2, <3>4 DEF Ran
            <4>2. j \in 1 .. i - 1 /\ started'[j] = started[j]
                BY <1>0, <1>7, <2>1
            <4>3. QED
                BY <4>1, <4>2
        <3>5. CASE Listed(id)
            <4>1. PICK l \in 1 .. n : pending[l].id = id
                BY <1>2, <3>5 DEF Listed
            <4>2. l < k
                <5>1. ~(k < l) /\ l # k
                    <6>1. k < l => pending[l].id < pending[k].id
                        BY <1>2, <1>3 DEF FinalizersIInv
                    <6>2. QED
                        BY <1>4, <3>2, <4>1, <6>1 DEF e
                <5>2. QED
                    BY <1>0, <1>3, <5>1
            <4>3. dso \notin {All, pending[l].dso}
                BY <1>0, <1>3, <4>2
            <4>4. pending[l].dso # e.dso
                BY <1>3, <4>3
            <4>5. l # k
                BY <1>3, <4>2
            <4>6. PICK j \in 1 .. n - 1 : pending'[j] = pending[l]
                BY <1>9, <4>5
            <4>7. QED
                BY <1>6, <3>1, <4>1, <4>4, <4>6
        <3>6. QED
            BY <3>3, <3>4, <3>5
    <2>2. CASE i # m + 1
        <3>1. i \in 1 .. m /\ started'[i] = started[i]
            BY <1>0, <1>7, <2>2
        <3>2. \/ \E j \in 1 .. i - 1 : started[j].entry.id = id
              \/ \E j \in 1 .. m : j > i /\ started[j].entry.id = id
                                         /\ started[j].entry.dso # started[i].entry.dso
              \/ \E l \in 1 .. n : pending[l].id = id /\ pending[l].dso # started[i].entry.dso
            BY <1>2, <3>1 DEF FinalizersIInv
        <3>3. CASE \E j \in 1 .. i - 1 : started[j].entry.id = id
            <4>1. PICK j \in 1 .. i - 1 : started[j].entry.id = id
                BY <3>3
            <4>2. j \in 1 .. m
                BY <1>0, <3>1
            <4>3. QED
                BY <1>7, <4>1, <4>2
        <3>4. CASE \E j \in 1 .. m : j > i /\ started[j].entry.id = id
                                           /\ started[j].entry.dso # started[i].entry.dso
            <4>1. PICK j \in 1 .. m : j > i /\ started[j].entry.id = id
                                            /\ started[j].entry.dso # started[i].entry.dso
                BY <3>4
            <4>2. j \in 1 .. m + 1 /\ started'[j] = started[j]
                BY <1>0, <1>7
            <4>3. QED
                BY <1>8, <3>1, <4>1, <4>2
        <3>5. CASE \E l \in 1 .. n : pending[l].id = id /\ pending[l].dso # started[i].entry.dso
            <4>1. PICK l \in 1 .. n : pending[l].id = id /\ pending[l].dso # started[i].entry.dso
                BY <3>5
            <4>2. CASE l = k
                <5>1. m + 1 \in 1 .. m + 1 /\ m + 1 > i
                    BY <1>0, <3>1
                <5>2. started'[m + 1].entry = pending[l]
                    BY <1>4, <1>7, <4>2 DEF e
                <5>3. QED
                    BY <1>8, <3>1, <4>1, <5>1, <5>2
            <4>3. CASE l # k
                <5>1. PICK j \in 1 .. n - 1 : pending'[j] = pending[l]
                    BY <1>9, <4>3
                <5>2. QED
                    BY <1>6, <3>1, <4>1, <5>1
            <4>4. QED
                BY <4>2, <4>3
        <3>6. QED
            BY <3>2, <3>3, <3>4, <3>5
    <2>3. QED
        BY <2>1, <2>2
<1>19. \A id \in Nat : Listed(id)' \/ Ran(id)' <=> id \in 1 .. registered'
    BY <1>1, <1>14 DEF FinalizersIInv
<1>20. QED
    BY <1>0, <1>1, <1>5, <1>7, <1>8, <1>13, <1>15, <1>16, <1>17, <1>18, <1>19, ZenonT(30) DEF FinalizersIInv

(* Every destructor that was registered is in the list or was run, once, and      *)
(* newest first, for any number of threads, cores and registrations, and however   *)
(* deep destructors register and finalize.                                    *)
THEOREM FinalizersCorrect == FinalizersSpec => []FinalizersSafe
<1>1. FinalizersInit => FinalizersIInv
    <2> SUFFICES ASSUME FinalizersInit PROVE FinalizersIInv
        OBVIOUS
    <2>1. pending = <<>> /\ started = <<>> /\ registered = 0
        BY DEF FinalizersInit
    <2>2. DOMAIN pending = {} /\ DOMAIN started = {} /\ Len(pending) = 0 /\ Len(started) = 0
          /\ pending \in Seq(Destructor) /\ started \in Seq(Run)
        BY <2>1
    <2>3. QED
        BY <2>1, <2>2 DEF FinalizersIInv, Listed, Ran
<1>2. FinalizersIInv /\ [FinalizersNext]_finalizerVars => FinalizersIInv'
    <2> SUFFICES ASSUME FinalizersIInv, [FinalizersNext]_finalizerVars PROVE FinalizersIInv'
        OBVIOUS
    <2>1. ASSUME NEW t \in Finalizing, NEW dso \in Dso, Atexit(t, dso) PROVE FinalizersIInv'
        BY <2>1, AtexitKeeps
    <2>2. ASSUME NEW t \in Finalizing, RunNext(t) PROVE FinalizersIInv'
        BY <2>2, RunNextKeeps
    <2>3. ASSUME UNCHANGED <<pending, registered, started>> PROVE FinalizersIInv'
        <3>1. pending' = pending /\ registered' = registered /\ started' = started
            BY <2>3
        <3>2. QED
            BY <3>1, ZenonT(60) DEF FinalizersIInv, Listed, Ran
    <2>4. ASSUME NEW t \in Finalizing,
                 (\E dso \in Callers : FinalizeCall(t, dso)) \/ DestructorReturns(t) \/ FinalizeEnds(t)
          PROVE  FinalizersIInv'
        BY <2>3, <2>4 DEF FinalizeCall, DestructorReturns, FinalizeEnds
    <2>5. QED
        BY <2>1, <2>2, <2>3, <2>4 DEF FinalizersNext, finalizerVars
<1>3. FinalizersIInv => FinalizersSafe
    <2> SUFFICES ASSUME FinalizersIInv PROVE FinalizersSafe
        OBVIOUS
    <2>1. /\ pending \in Seq(Destructor) /\ started \in Seq(Run) /\ registered \in Nat
        BY DEF FinalizersIInv
    <2>2. \A i \in DOMAIN started, j \in DOMAIN pending : started[i].entry.id # pending[j].id
        BY DEF FinalizersIInv
    <2>3. ToSet(pending) \intersect {s.entry : s \in ToSet(started)} = {}
        BY <2>2 DEF ToSet
    <2>4. {e.id : e \in ToSet(pending)} \union {s.entry.id : s \in ToSet(started)} = 1 .. registered
        <3>1. \A i \in DOMAIN pending : pending[i].id \in Nat
            BY Entries
        <3>2. \A i \in DOMAIN started : started[i].entry.id \in Nat
            BY Entries
        <3>3. \A id : id \in {e.id : e \in ToSet(pending)} <=> Listed(id)
            BY DEF ToSet, Listed
        <3>4. \A id : id \in {s.entry.id : s \in ToSet(started)} <=> Ran(id)
            BY DEF ToSet, Ran
        <3>5. \A id : Listed(id) \/ Ran(id) => id \in Nat
            BY <3>1, <3>2 DEF Listed, Ran
        <3>6. \A id \in Nat : Listed(id) \/ Ran(id) <=> id \in 1 .. registered
            BY DEF FinalizersIInv
        <3>7. \A id \in 1 .. registered : id \in Nat
            BY <2>1
        <3>8. QED
            BY <3>3, <3>4, <3>5, <3>6, <3>7
    <2>5. DestructorsOnce
        BY <2>3, <2>4 DEF DestructorsOnce, FinalizersIInv
    <2>6. NewestFirst
        <3>1. ASSUME NEW i \in DOMAIN started, NEW id \in started[i].entry.id + 1 .. started[i].upTo
              PROVE  \/ \E j \in 1 .. i - 1 : started[j].entry.id = id
                     \/ \E j \in DOMAIN started : j > i /\ started[j].entry.id = id
                                                   /\ started[j].entry.dso # started[i].entry.dso
                     \/ \E e \in ToSet(pending) : e.id = id /\ e.dso # started[i].entry.dso
            BY SMTT(30) DEF FinalizersIInv, ToSet
        <3>2. QED
            BY <3>1 DEF NewestFirst
    <2>7. QED
        BY <2>5, <2>6 DEF FinalizersSafe
<1>4. QED
    BY <1>1, <1>2, <1>3, PTL DEF FinalizersSpec

-----------------------------------------------------------------------------
(* Together. A behaviour of the title's shims is one of every part: each of its    *)
(* steps is a step of that part, or leaves it as it was.                      *)
THEOREM PartsImplemented ==
    Spec => /\ SemaphoreSpec /\ HandleSpec /\ ClockSpec /\ DirectorySpec /\ EnvironmentSpec
            /\ FinalizersSpec /\ VkSpec /\ SurfaceSpec /\ DisplaySpec /\ FrameSpec
<1>1. Init => /\ SemaphoreInit /\ HandleInit /\ ClockInit /\ DirectoryInit /\ EnvironmentInit
              /\ FinalizersInit /\ VkInit /\ SurfaceInit /\ DisplayInit /\ FrameInit
    BY DEF Init
<1>2. [Next]_vars => [SemaphoreNext]_semaphoreVars
    BY Zenon DEF Next, vars, Rest
<1>3. [Next]_vars => [HandleNext]_threadVars
    BY Zenon DEF Next, vars, Rest
<1>4. [Next]_vars => [ClockNext]_clockVars
    BY Zenon DEF Next, vars, Rest
<1>5. [Next]_vars => [DirectoryNext]_directoryVars
    BY Zenon DEF Next, vars, Rest
<1>6. [Next]_vars => [EnvironmentNext]_environmentVars
    BY Zenon DEF Next, vars, Rest
<1>7. [Next]_vars => [FinalizersNext]_finalizerVars
    BY Zenon DEF Next, vars, Rest
<1>8. [Next]_vars => [VkNext]_vkVars
    BY Zenon DEF Next, vars, Rest
<1>9. [Next]_vars => [SurfaceNext]_surfaceVars
    BY Zenon DEF Next, vars, Rest
<1>10. [Next]_vars => [DisplayNext]_displayVars
    BY Zenon DEF Next, vars, Rest
<1>11. [Next]_vars => [FrameNext]_frameVars
    BY Zenon DEF Next, vars, Rest
<1>12. QED
    BY <1>1, <1>2, <1>3, <1>4, <1>5, <1>6, <1>7, <1>8, <1>9, <1>10, <1>11, PTL
    DEF Spec, SemaphoreSpec, HandleSpec, ClockSpec, DirectorySpec, EnvironmentSpec, FinalizersSpec, VkSpec, SurfaceSpec, DisplaySpec, FrameSpec

(* What holds of each part by itself holds of the shims.                     *)
THEOREM ShimsCorrect ==
    Spec => [](/\ SemaphoreInv /\ HandlesSafe /\ ClockInv /\ ListingTrue /\ EnvironmentTrue
               /\ FinalizersSafe /\ CallsReach /\ SurfaceSound /\ FlipSound /\ TraceTrue)
BY PartsImplemented, SemaphoreCorrect, HandlesCorrect, ClockCorrect, ListingCorrect,
   EnvironmentCorrect, FinalizersCorrect, CallsCorrect, SurfaceCorrect, FlipCorrect,
   TraceCorrect, PTL
=============================================================================
