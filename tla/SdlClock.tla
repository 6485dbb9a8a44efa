------------------------------ MODULE SdlClock ------------------------------
(***************************************************************************)
(* SDL_GetPerformanceCounter (platform/ps5/sdl_ps5.c): each call reads the *)
(* counter of the core it runs on, which may lie behind another core's,    *)
(* and brings its answer up to the latest one with a compare and exchange  *)
(* loop.  And the deadline of SDL_CondWaitTimeout.                         *)
(*                                                                         *)
(* The conversion of ticks to nanoseconds is monotone and left out.  The   *)
(* atomics are relaxed; on this machine a read sees the latest write.      *)
(***************************************************************************)
EXTENDS ShimParameters

VARIABLES
  latest,
  clockAt,       (* "outside", "read", "compare"                             *)
  ns, seen,      (* the locals of each call                                  *)
  answer,        (* what each thread's last call returned                    *)
  given,         (* the greatest answer any call has returned                *)
  floor          (* the greatest when the thread's call began                *)

clockVars == <<latest, clockAt, ns, seen, answer, given, floor>>

Time == 0 .. MaxTime
Later(a, b) == IF a > b THEN a ELSE b

Return(t, n) ==
  /\ answer' = [answer EXCEPT ![t] = n]
  /\ given' = Later(given, n)
  /\ clockAt' = [clockAt EXCEPT ![t] = "outside"]

(* The counter's value was read at any time before, on any core. *)
Call(t) ==
  /\ clockAt[t] = "outside"
  /\ clockAt' = [clockAt EXCEPT ![t] = "read"]
  /\ \E n \in Time : ns' = [ns EXCEPT ![t] = n]
  /\ floor' = [floor EXCEPT ![t] = given]
  /\ UNCHANGED <<latest, seen, answer, given>>

Load(t) ==
  /\ clockAt[t] = "read"
  /\ seen' = [seen EXCEPT ![t] = latest]
  /\ clockAt' = [clockAt EXCEPT ![t] = "compare"]
  /\ UNCHANGED <<latest, ns, answer, given, floor>>

(* Mutated form: latest is stored without a comparison. *)
ExchangeAlways(t) ==
  /\ clockAt[t] = "compare" /\ ns[t] > seen[t]
  /\ latest' = ns[t]
  /\ Return(t, ns[t])
  /\ UNCHANGED <<ns, seen, floor>>

(* The exchange succeeds, and the call returns what it read. *)
Exchange(t) ==
  /\ clockAt[t] = "compare" /\ ns[t] > seen[t]
  /\ latest = seen[t]
  /\ latest' = ns[t]
  /\ Return(t, ns[t])
  /\ UNCHANGED <<ns, seen, floor>>

(* The exchange fails, which the weak form may without a reason. *)
ExchangeFail(t) ==
  /\ clockAt[t] = "compare" /\ ns[t] > seen[t]
  /\ seen' = [seen EXCEPT ![t] = latest]
  /\ UNCHANGED <<latest, clockAt, ns, answer, given, floor>>

(* The clock was further already. *)
Clamp(t) ==
  /\ clockAt[t] = "compare" /\ ns[t] <= seen[t]
  /\ Return(t, seen[t])
  /\ UNCHANGED <<latest, ns, seen, floor>>

ClockInit ==
  /\ latest = 0
  /\ clockAt = [t \in ClockThread |-> "outside"]
  /\ ns = [t \in ClockThread |-> 0] /\ seen = [t \in ClockThread |-> 0]
  /\ given = 0 /\ answer = [t \in ClockThread |-> 0] /\ floor = [t \in ClockThread |-> 0]

ClockNext == \E t \in ClockThread :
  Call(t) \/ Load(t) \/ Exchange(t) \/ ExchangeFail(t) \/ Clamp(t)

ClockSpec == ClockInit /\ [][ClockNext]_clockVars

-----------------------------------------------------------------------------
ClockTypeOK ==
  /\ latest \in Time
  /\ clockAt \in [ClockThread -> {"outside", "read", "compare"}]
  /\ ns \in [ClockThread -> Time] /\ seen \in [ClockThread -> Time]
  /\ given \in Time /\ answer \in [ClockThread -> Time] /\ floor \in [ClockThread -> Time]

(* The clock does not go backwards: a call that begins after another has     *)
(* returned, on whichever core and thread, returns no less.                  *)
NeverBackwards == \A t \in ClockThread : clockAt[t] = "outside" => answer[t] >= floor[t]

(* What has been returned, and what a call has seen, is no later than latest. *)
LatestIsLatest ==
  /\ given <= latest
  /\ \A t \in ClockThread :
       /\ floor[t] <= given /\ seen[t] <= latest
       /\ clockAt[t] = "compare" => floor[t] <= seen[t]

ClockInv == ClockTypeOK /\ NeverBackwards /\ LatestIsLatest

-----------------------------------------------------------------------------
(* SDL_CondWaitTimeout's deadline: seconds and nanoseconds of the clock, and *)
(* the milliseconds to wait.                                                 *)
Million == 1000 * 1000     (* nanoseconds of a millisecond *)
Second == 1000 * Million

Deadline(sec, nsec, ms) ==
  LET s == sec + ms \div 1000
      n == nsec + (ms % 1000) * Million
  IN  IF n >= Second THEN <<s + 1, n - Second>> ELSE <<s, n>>
=============================================================================
