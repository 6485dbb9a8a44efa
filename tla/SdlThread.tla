----------------------------- MODULE SdlThread -----------------------------
(***************************************************************************)
(* SDL's thread handle and its reference count (platform/ps5/sdl_ps5.c):   *)
(* the creator's side, which waits for the thread or detaches it, and the  *)
(* thread's own side, each of which lets go of the handle once.  A handle  *)
(* is a block of memory; every step that reads or writes it is an action.  *)
(***************************************************************************)
EXTENDS ShimParameters

VARIABLES
  block,         (* the handle's memory: "none", "allocated", "freed"        *)
  references, status,
  thread,        (* the thread: "none", "running", "releasing", "last", "ended" *)
  owner,         (* the creator: "outside", "creating", "holding", "joining",
                    "releasing", "last", "done"                  *)
  returned,      (* what the thread function returned                        *)
  got            (* what SDL_WaitThread handed back, or -1                   *)

threadVars == <<block, references, status, thread, owner, returned, got>>

Set(f, h, v) == [f EXCEPT ![h] = v]

-----------------------------------------------------------------------------
(* Mutated form: the thread's reference is left to the thread to take. *)
FirstReferencesOne == 1

FirstReferences == 2

CreateBegin(h) ==
  /\ block[h] = "none" /\ owner[h] = "outside"
  /\ block' = Set(block, h, "allocated")
  /\ references' = Set(references, h, FirstReferences)
  /\ status' = Set(status, h, 0)
  /\ owner' = Set(owner, h, "creating")
  /\ UNCHANGED <<thread, returned, got>>

(* pthread_create starts the thread, which may run, and end, before its      *)
(* creator has the handle.                                                   *)
CreateStart(h) ==
  /\ owner[h] = "creating" /\ thread[h] = "none"
  /\ thread' = Set(thread, h, "running")
  /\ UNCHANGED <<block, references, status, owner, returned, got>>

(* pthread_create writes the native handle into the block. *)
CreateDone(h) ==
  /\ owner[h] = "creating" /\ thread[h] # "none"
  /\ owner' = Set(owner, h, "holding")
  /\ UNCHANGED <<block, references, status, thread, returned, got>>

CreateFail(h) ==
  /\ owner[h] = "creating" /\ thread[h] = "none"
  /\ block' = Set(block, h, "freed")
  /\ owner' = Set(owner, h, "done")
  /\ UNCHANGED <<references, status, thread, returned, got>>

(* The trampoline stores the result. *)
FunctionReturns(h) ==
  /\ thread[h] = "running"
  /\ \E r \in Status : status' = Set(status, h, r) /\ returned' = Set(returned, h, r)
  /\ thread' = Set(thread, h, "releasing")
  /\ UNCHANGED <<block, references, owner, got>>

(* thread_release: the decrement, and the free of whoever was last.          *)
Release(h) ==
  /\ references' = Set(references, h, references[h] - 1)
  /\ UNCHANGED <<block, status, returned, got>>

Free(h) ==
  /\ block' = Set(block, h, "freed")
  /\ UNCHANGED <<references, status, returned, got>>

After(h, done) == IF references[h] = 1 THEN "last" ELSE done

ThreadRelease(h) ==
  /\ \/ thread[h] = "releasing" /\ Release(h) /\ thread' = Set(thread, h, After(h, "ended"))
     \/ thread[h] = "last" /\ Free(h) /\ thread' = Set(thread, h, "ended")
  /\ UNCHANGED owner

OwnerRelease(h) ==
  /\ \/ owner[h] = "releasing" /\ Release(h) /\ owner' = Set(owner, h, After(h, "done"))
     \/ owner[h] = "last" /\ Free(h) /\ owner' = Set(owner, h, "done")
  /\ UNCHANGED thread

WaitCall(h) ==
  /\ owner[h] = "holding"
  /\ owner' = Set(owner, h, "joining")
  /\ UNCHANGED <<block, references, status, thread, returned, got>>

(* pthread_join returns once the thread has ended; then its status is read.  *)
WaitStatus(h) ==
  /\ owner[h] = "joining" /\ thread[h] = "ended"
  /\ got' = Set(got, h, status[h])
  /\ owner' = Set(owner, h, "releasing")
  /\ UNCHANGED <<block, references, status, thread, returned>>

(* pthread_detach reads the native handle from the block. *)
Detach(h) ==
  /\ owner[h] = "holding"
  /\ owner' = Set(owner, h, "releasing")
  /\ UNCHANGED <<block, references, status, thread, returned, got>>

HandleInit ==
  /\ block = [h \in Handle |-> "none"]
  /\ references = [h \in Handle |-> 0]
  /\ status = [h \in Handle |-> 0] /\ returned = [h \in Handle |-> 0]
  /\ thread = [h \in Handle |-> "none"]
  /\ owner = [h \in Handle |-> "outside"]
  /\ got = [h \in Handle |-> -1]

HandleNext == \E h \in Handle :
  \/ CreateBegin(h)
  \/ CreateStart(h)
  \/ CreateDone(h)
  \/ CreateFail(h)
  \/ FunctionReturns(h)
  \/ ThreadRelease(h)
  \/ WaitCall(h)
  \/ WaitStatus(h)
  \/ Detach(h)
  \/ OwnerRelease(h)

HandleSpec == HandleInit /\ [][HandleNext]_threadVars

-----------------------------------------------------------------------------
HandleTypeOK ==
  /\ block \in [Handle -> {"none", "allocated", "freed"}]
  /\ references \in [Handle -> 0 .. 2]
  /\ status \in [Handle -> Status] /\ returned \in [Handle -> Status]
  /\ thread \in [Handle -> {"none", "running", "releasing", "last", "ended"}]
  /\ owner \in [Handle -> {"outside", "creating", "holding", "joining", "releasing",
                          "last", "done"}]
  /\ got \in [Handle -> Status \union {-1}]

OwnerUses(h) == owner[h] \in {"creating", "holding", "joining", "releasing", "last"}
ThreadUses(h) == thread[h] \in {"running", "releasing", "last"}

(* Neither side finds the block gone at any step it still has to make, one   *)
(* of them frees it, once, when both are through, and the creator that waits *)
(* is handed what the function returned: however the two sides interleave.   *)
HandleSafe(h) ==
  /\ OwnerUses(h) \/ ThreadUses(h) <=> block[h] = "allocated"
  /\ ~(owner[h] = "last" /\ (ThreadUses(h) \/ thread[h] = "none"))
  /\ ~(thread[h] = "last" /\ OwnerUses(h))
  /\ got[h] # -1 => got[h] = returned[h]

(* The references are those of the sides that still hold one; the thread's   *)
(* is there before the thread is, and its status is there when it has ended. *)
OwnerHolds(h) == owner[h] \in {"creating", "holding", "joining", "releasing"}
ThreadHolds(h) == \/ thread[h] \in {"running", "releasing"}
                  \/ thread[h] = "none" /\ owner[h] = "creating"
Bookkeeping(h) ==
  /\ block[h] = "allocated" =>
       references[h] = (IF OwnerHolds(h) THEN 1 ELSE 0) + (IF ThreadHolds(h) THEN 1 ELSE 0)
  /\ thread[h] = "none" => owner[h] \in {"outside", "creating", "done"} /\ returned[h] = 0
  /\ thread[h] # "none" => owner[h] # "outside"
  /\ block[h] = "none" <=> owner[h] = "outside"
  /\ got[h] # -1 => thread[h] = "ended"
  /\ status[h] = returned[h]

HandlesSafe == HandleTypeOK /\ \A h \in Handle : HandleSafe(h) /\ Bookkeeping(h)
=============================================================================
