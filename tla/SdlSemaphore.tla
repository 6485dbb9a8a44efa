---------------------------- MODULE SdlSemaphore ----------------------------
(***************************************************************************)
(* SDL's semaphore made of a mutex, a condition variable and a count       *)
(* (platform/ps5/sdl_ps5.c).  Nothing is done with the mutex held but what *)
(* an action below does, so each critical section is one action and the    *)
(* mutex is not modelled: taking it is what the fairness stands for.       *)
(* The counters of lock_counted are diagnostics and left out.              *)
(***************************************************************************)
EXTENDS ShimParameters

VARIABLES
  count,
  at,            (* where each thread is: "outside", "lock" (about to take the
                    mutex in SDL_SemWait), "asleep", "woken"                 *)
  posts, takes   (* how often the count went up and down                    *)

semaphoreVars == <<count, at, posts, takes>>

In(place) == {t \in Thread : at[t] = place}
To(t, place) == [at EXCEPT ![t] = place]

-----------------------------------------------------------------------------
WaitEnter(t) ==
  /\ at[t] = "outside"
  /\ at' = To(t, "lock")
  /\ UNCHANGED <<count, posts, takes>>

(* Mutated form: a thread that was woken does not look at the count again. *)
CanTakeWoken(t) == at[t] = "woken" \/ (at[t] = "lock" /\ count > 0)

CanTake(t) == at[t] \in {"lock", "woken"} /\ count > 0

WaitTake(t) ==
  /\ CanTake(t)
  /\ count' = count - 1
  /\ takes' = takes + 1
  /\ at' = To(t, "outside")
  /\ UNCHANGED posts

WaitSleep(t) ==
  /\ at[t] \in {"lock", "woken"} /\ count = 0
  /\ at' = To(t, "asleep")
  /\ UNCHANGED <<count, posts, takes>>

(* A condition variable may wake a thread without a signal. *)
SpuriousWake(t) ==
  /\ at[t] = "asleep"
  /\ at' = To(t, "woken")
  /\ UNCHANGED <<count, posts, takes>>

(* An empty semaphore answers 1 and nothing changes. *)
TryWait(t) ==
  /\ at[t] = "outside" /\ count > 0
  /\ count' = count - 1
  /\ takes' = takes + 1
  /\ UNCHANGED <<at, posts>>

(* Mutated form: a post to a semaphore that is not empty does not signal. *)
SignalFirst ==
  IF In("asleep") = {} \/ count > 0 THEN UNCHANGED at
  ELSE \E t \in In("asleep") : at' = To(t, "woken")

(* pthread_cond_signal wakes one of the threads asleep, if any. *)
Signal ==
  IF In("asleep") = {} THEN UNCHANGED at
  ELSE \E t \in In("asleep") : at' = To(t, "woken")

Post ==
  /\ posts < MaxPosts
  /\ \E t \in Thread : at[t] = "outside"
  /\ count' = count + 1
  /\ posts' = posts + 1
  /\ Signal
  /\ UNCHANGED takes

-----------------------------------------------------------------------------
SemaphoreInit ==
  /\ count = Initial
  /\ at = [t \in Thread |-> "outside"]
  /\ posts = 0 /\ takes = 0

Lock(t) == WaitTake(t) \/ WaitSleep(t)

SemaphoreNext ==
  \/ Post
  \/ \E t \in Thread : WaitEnter(t) \/ Lock(t) \/ SpuriousWake(t) \/ TryWait(t)

SemaphoreSpec == SemaphoreInit /\ [][SemaphoreNext]_semaphoreVars

(* A thread that wants the mutex gets it at some time.                       *)
FairSemaphoreSpec == SemaphoreSpec /\ \A t \in Thread : WF_semaphoreVars(Lock(t))

-----------------------------------------------------------------------------
SemaphoreTypeOK ==
  /\ count \in Nat /\ posts \in 0 .. MaxPosts /\ takes \in Nat
  /\ at \in [Thread -> {"outside", "lock", "asleep", "woken"}]

(* The count is what was posted and not taken: no token is taken twice.      *)
TokensAccounted == count + takes = Initial + posts

(* While a thread sleeps every token has a thread of its own on the way to   *)
(* it: no wake-up is lost, although each post wakes one thread, posts may    *)
(* come in a row, and newcomers may be faster than those that were woken.    *)
NobodySleepsInVain == In("asleep") # {} => count <= Cardinality(In("woken"))

SemaphoreInv == SemaphoreTypeOK /\ TokensAccounted /\ NobodySleepsInVain

(* Tokens and waiting threads do not stay beside each other.                 *)
TokensAreTaken == []<>(count = 0 \/ \A t \in Thread : at[t] = "outside")
=============================================================================
