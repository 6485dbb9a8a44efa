------------------------------ MODULE Finalizers ------------------------------
(* tooling/native/core_cxx_runtime.cpp: a core's own list of C++ destructors.      *)
(* __cxa_atexit puts one in front under the lock; __cxa_finalize takes one out      *)
(* under the lock and runs it without, so that a destructor may register others      *)
(* and finalize a core itself, while another thread finalizes too.                *)
EXTENDS ShimParameters, SequencesExt

VARIABLES
    pending,       \* the list, newest first: [id, dso]
    registered,    \* how many were registered; the last has this id
    started,       \* what was run, in order, and how many were registered then
    finalizing     \* each thread's calls of __cxa_finalize, the innermost first

finalizerVars == <<pending, registered, started, finalizing>>

All == "all"       \* a null dso
Callers == Dso \union {All}

(* The calls of a thread: of which dso, and the destructor it is inside, or 0. *)
CallOf(dso, id) == [dso |-> dso, inside |-> id]
MayCall(t) == finalizing[t] # <<>> => Head(finalizing[t]).inside # 0
Top(t) == Head(finalizing[t])
WithTop(t, call) == [finalizing EXCEPT ![t] = <<call>> \o Tail(@)]

(* Without memory for the entry nothing is registered.                       *)
Atexit(t, dso) ==
    /\ MayCall(t) /\ registered < MaxRegistered
    /\ registered' = registered + 1
    /\ pending' = <<[id |-> registered', dso |-> dso]>> \o pending
    /\ UNCHANGED <<started, finalizing>>

FinalizeCall(t, dso) ==
    /\ MayCall(t) /\ Len(finalizing[t]) < MaxDepth
    /\ finalizing' = [finalizing EXCEPT ![t] = <<CallOf(dso, 0)>> \o @]
    /\ UNCHANGED <<pending, registered, started>>

Matching(dso) == {i \in DOMAIN pending : dso \in {All, pending[i].dso}}

(* Mutated form: the walk goes on to the last entry that matches.            *)
FoundLast(dso) == Max(Matching(dso))

(* The walk stops at the first entry that matches.                           *)
Found(dso) == Min(Matching(dso))

(* The entry is out of the list before its destructor runs.                  *)
RunNext(t) ==
    /\ ~MayCall(t) /\ Matching(Top(t).dso) # {}
    /\ LET entry == pending[Found(Top(t).dso)] IN
          /\ pending' = RemoveAt(pending, Found(Top(t).dso))
          /\ started' = Append(started, [entry |-> entry, upTo |-> registered])
          /\ finalizing' = WithTop(t, CallOf(Top(t).dso, entry.id))
    /\ UNCHANGED registered

DestructorReturns(t) ==
    /\ finalizing[t] # <<>> /\ Top(t).inside # 0
    /\ finalizing' = WithTop(t, CallOf(Top(t).dso, 0))
    /\ UNCHANGED <<pending, registered, started>>

FinalizeEnds(t) ==
    /\ ~MayCall(t) /\ Matching(Top(t).dso) = {}
    /\ finalizing' = [finalizing EXCEPT ![t] = Tail(@)]
    /\ UNCHANGED <<pending, registered, started>>

FinalizersInit ==
    /\ pending = <<>> /\ registered = 0 /\ started = <<>>
    /\ finalizing = [t \in Finalizing |-> <<>>]

FinalizersNext == \E t \in Finalizing :
    \/ \E dso \in Dso : Atexit(t, dso)
    \/ \E dso \in Callers : FinalizeCall(t, dso)
    \/ RunNext(t) \/ DestructorReturns(t) \/ FinalizeEnds(t)

FinalizersSpec == FinalizersInit /\ [][FinalizersNext]_finalizerVars

-----------------------------------------------------------------------------
(* Every destructor is either still to run or was run once, and whenever one     *)
(* was run, every later one of its dso that was registered by then had been:     *)
(* the newest first, whatever destructors register and whoever finalizes.       *)
DestructorsOnce ==
    /\ ToSet(pending) \intersect {s.entry : s \in ToSet(started)} = {}
    /\ Len(pending) + Len(started) = registered
    /\ {e.id : e \in ToSet(pending)} \union {s.entry.id : s \in ToSet(started)} = 1 .. registered

NewestFirst ==
    \A i \in DOMAIN started :
       LET one == started[i] IN
       \A id \in one.entry.id + 1 .. one.upTo :
          \/ \E j \in 1 .. i - 1 : started[j].entry.id = id
          \/ \E j \in DOMAIN started : j > i /\ started[j].entry.id = id /\ started[j].entry.dso # one.entry.dso
          \/ \E e \in ToSet(pending) : e.id = id /\ e.dso # one.entry.dso

FinalizersSafe == DestructorsOnce /\ NewestFirst
=============================================================================
