------------------------------ MODULE SoundDma ------------------------------
(***************************************************************************)
(* The engine's sound path: the SNDDMA_* adapter of platform/ps5/          *)
(* ps5_audio.c over the audio device of src/audio_ps5.cpp in fill mode.    *)
(* The engine thread opens and shuts down sound, locks the DMA ring to mix *)
(* into it, and pauses and resumes the device; the device's worker thread  *)
(* paints blocks out of the same ring under the device mutex and outputs   *)
(* them without it.                                                        *)
(*                                                                         *)
(* A sample is abstracted to its position in the DMA ring.  Counters of    *)
(* played and discarded frames are in AudioOut and left out here.          *)
(***************************************************************************)
EXTENDS Integers, Sequences

CONSTANTS
  Samples,     (* samples in the DMA ring (32768)                            *)
  BlockSize    (* samples in a device block (2 * 256)                        *)

ASSUME SoundAssumption == Samples \in Nat \ {0} /\ BlockSize \in Nat \ {0}

VARIABLES
  held,        (* the resources that exist                                   *)
  audio, shm,  (* the adapter's device pointer, the engine's ring pointer    *)
  mutex, waiting,
  active, shutdown, failed, inOutput,
  samplepos,   (* dma->samplepos                                             *)
  start,       (* the cursor when the current block was begun                *)
  block,       (* ring positions copied into the device block so far         *)
  worker, engine,
  pos          (* the cursor the engine read with SNDDMA_GetDMAPos           *)

fields == <<active, shutdown, failed, inOutput>>
paint  == <<samplepos, start, block>>
lock   == <<mutex, waiting>>
ptrs   == <<held, audio, shm>>
vars == <<held, audio, shm, mutex, waiting, active, shutdown, failed, inOutput,
          samplepos, start, block, worker, engine, pos>>

(* In the order SNDDMA_Init and audio_init acquire them. *)
Acquired == <<"buffer", "device", "ring", "mutex", "cond", "port", "thread">>
Resource == {Acquired[i] : i \in DOMAIN Acquired}

NoThread == "none"
Lock(t) == mutex = NoThread /\ t \notin waiting /\ mutex' = t
Unlock(t) == mutex = t /\ mutex' = NoThread
Broadcast == waiting' = {}
CondWait(t) == Unlock(t) /\ waiting' = waiting \union {t}

(* POSIX lets a condition wait return without a broadcast. *)
SpuriousWake(t) ==
  /\ t \in waiting
  /\ waiting' = waiting \ {t}
  /\ UNCHANGED <<held, audio, shm, mutex, fields, paint, worker, engine, pos>>

-----------------------------------------------------------------------------
(* SNDDMA_Init. *)

(* Mutated form: a failed cond_init leaves the mutex behind. *)
UnwoundLeaky(r) ==
  CASE r \in {"buffer", "device"} -> {"buffer"}
    [] r = "ring"   -> {"device", "buffer"}
    [] r = "mutex"  -> {"ring", "device", "buffer"}
    [] r = "cond"   -> {"ring", "device", "buffer"}
    [] r = "port"   -> {"cond", "mutex", "ring", "device", "buffer"}
    [] r = "thread" -> {"port", "cond", "mutex", "ring", "device", "buffer"}

(* What audio_init and then SNDDMA_Init release when r cannot be acquired. *)
Unwound(r) ==
  CASE r \in {"buffer", "device"} -> {"buffer"}
    [] r = "ring"   -> {"device", "buffer"}
    [] r = "mutex"  -> {"ring", "device", "buffer"}
    [] r = "cond"   -> {"mutex", "ring", "device", "buffer"}
    [] r = "port"   -> {"cond", "mutex", "ring", "device", "buffer"}
    [] r = "thread" -> {"port", "cond", "mutex", "ring", "device", "buffer"}

NextResource ==
  Acquired[CHOOSE i \in DOMAIN Acquired :
             Acquired[i] \notin held /\ \A j \in 1 .. i - 1 : Acquired[j] \in held]

(* memset(dma, 0, sizeof *dma) *)
InitBegin ==
  /\ engine = "idle" /\ ~shm
  /\ engine' = "opening"
  /\ samplepos' = 0 /\ pos' = 0
  /\ UNCHANGED <<ptrs, lock, fields, start, block, worker>>

(* The device starts active with no block; its thread starts at once.      *)
InitAcquire ==
  /\ engine = "opening"
  /\ held' = held \union {NextResource}
  /\ shm' = TRUE
  /\ engine' = IF NextResource = "thread" THEN "opened" ELSE "opening"
  /\ worker' = IF NextResource = "thread" THEN "start" ELSE worker
  /\ IF NextResource = "device"
     THEN /\ active' = TRUE
          /\ shutdown' = FALSE /\ failed' = FALSE /\ inOutput' = FALSE
     ELSE UNCHANGED fields
  /\ UNCHANGED <<audio, lock, paint, pos>>

InitFail ==
  /\ engine = "opening"
  /\ held' = held \ Unwound(NextResource)
  /\ shm' = FALSE
  /\ engine' = "idle"
  /\ UNCHANGED <<audio, lock, fields, paint, worker, pos>>

(* audio = ps5_audio_open(...), with the worker already running. *)
InitDone ==
  /\ engine = "opened"
  /\ audio' = TRUE
  /\ engine' = "idle"
  /\ UNCHANGED <<held, shm, lock, fields, paint, worker, pos>>

-----------------------------------------------------------------------------
(* The worker thread in fill mode. *)

WorkerLock ==
  /\ worker \in {"start", "asleep"}
  /\ Lock("worker")
  /\ worker' = IF worker = "start" THEN "loop" ELSE "woken"
  /\ UNCHANGED <<ptrs, waiting, fields, paint, engine, pos>>

WorkerExit ==
  /\ \/ worker = "loop" /\ (shutdown \/ failed)
     \/ worker = "woken" /\ shutdown
  /\ Unlock("worker")
  /\ worker' = "exited"
  /\ UNCHANGED <<ptrs, waiting, fields, paint, engine, pos>>

WorkerSleep ==
  /\ \/ worker = "loop" /\ ~failed
     \/ worker = "woken"
  /\ ~shutdown /\ ~active
  /\ CondWait("worker")
  /\ worker' = "asleep"
  /\ UNCHANGED <<ptrs, fields, paint, engine, pos>>

(* Mutated form: the pause is tested with if, not again after a wake-up. *)
PaintBeginOnce ==
  /\ \/ worker = "loop" /\ ~failed /\ active
     \/ worker = "woken"
  /\ ~shutdown
  /\ start' = samplepos
  /\ block' = <<>>
  /\ worker' = "painting"
  /\ UNCHANGED <<ptrs, lock, fields, samplepos, engine, pos>>

(* a->fill(a->context, a->output, frames) is called, the mutex held. *)
PaintBegin ==
  /\ \/ worker = "loop" /\ ~failed
     \/ worker = "woken"
  /\ ~shutdown /\ active
  /\ start' = samplepos
  /\ block' = <<>>
  /\ worker' = "painting"
  /\ UNCHANGED <<ptrs, lock, fields, samplepos, engine, pos>>

(* Mutated form: the copy runs over the end of the ring. *)
RunOver == BlockSize - Len(block)

(* The longest copy that neither leaves the ring nor overfills the block. *)
Run ==
  LET left == BlockSize - Len(block)
  IN  IF left <= Samples - samplepos THEN left ELSE Samples - samplepos

(* One round of paint_audio's loop. *)
PaintCopy ==
  /\ worker = "painting"
  /\ Len(block) < BlockSize
  /\ block' = block \o [i \in 1 .. Run |-> samplepos + i - 1]
  /\ samplepos' = (samplepos + Run) % Samples
  /\ UNCHANGED <<ptrs, lock, fields, start, worker, engine, pos>>

WorkerOutput ==
  /\ worker = "painting"
  /\ Len(block) = BlockSize
  /\ inOutput' = TRUE
  /\ Broadcast
  /\ Unlock("worker")
  /\ worker' = "output"
  /\ UNCHANGED <<ptrs, active, shutdown, failed, paint, engine, pos>>

WorkerReturn(ok) ==
  /\ worker = "output"
  /\ Lock("worker")
  /\ inOutput' = FALSE
  /\ failed' = (failed \/ ~ok)
  /\ Broadcast
  /\ worker' = "loop"
  /\ UNCHANGED <<ptrs, active, shutdown, paint, engine, pos>>

-----------------------------------------------------------------------------
(* The engine mixes: SNDDMA_LockBuffer, SNDDMA_GetDMAPos, mixing into the  *)
(* ring from the cursor on, SNDDMA_Submit.                                 *)

MixCall ==
  /\ engine = "idle" /\ audio
  /\ engine' = "locking"
  /\ UNCHANGED <<ptrs, lock, fields, paint, worker, pos>>

(* Mutated form: the ring is mixed into without the mutex. *)
MixLockMissing ==
  /\ engine = "locking"
  /\ engine' = "mixing"
  /\ pos' = samplepos
  /\ UNCHANGED <<ptrs, lock, fields, paint, worker>>

(* Mutated form: locking waits for the device to be idle. *)
MixLockIdle ==
  /\ engine = "locking" /\ ~inOutput
  /\ Lock("engine")
  /\ engine' = "mixing"
  /\ pos' = samplepos
  /\ UNCHANGED <<ptrs, waiting, fields, paint, worker>>

MixLock ==
  /\ engine = "locking"
  /\ Lock("engine")
  /\ engine' = "mixing"
  /\ pos' = samplepos
  /\ UNCHANGED <<ptrs, waiting, fields, paint, worker>>

Submit ==
  /\ engine = "mixing"
  /\ Unlock("engine")
  /\ engine' = "idle"
  /\ UNCHANGED <<ptrs, waiting, fields, paint, worker, pos>>

-----------------------------------------------------------------------------
(* SNDDMA_BlockSound (audio_stop) and SNDDMA_UnblockSound (audio_start).   *)

BlockBegin ==
  /\ engine = "idle" /\ audio
  /\ Lock("engine")
  /\ active' = FALSE
  /\ Broadcast
  /\ engine' = "stop"
  /\ UNCHANGED <<ptrs, shutdown, failed, inOutput, paint, worker, pos>>

BlockWait ==
  /\ engine = "stop" /\ inOutput
  /\ CondWait("engine")
  /\ engine' = "stopWaiting"
  /\ UNCHANGED <<ptrs, fields, paint, worker, pos>>

BlockLock ==
  /\ engine = "stopWaiting"
  /\ Lock("engine")
  /\ engine' = "stop"
  /\ UNCHANGED <<ptrs, waiting, fields, paint, worker, pos>>

BlockQuiet ==
  /\ engine = "stop" /\ ~inOutput
  /\ Unlock("engine")
  /\ engine' = "drain"
  /\ UNCHANGED <<ptrs, waiting, fields, paint, worker, pos>>

BlockDrained(ok) ==
  /\ engine = "drain"
  /\ engine' = IF ok THEN "idle" ELSE "drainFailed"
  /\ UNCHANGED <<ptrs, lock, fields, paint, worker, pos>>

BlockFailed ==
  /\ engine = "drainFailed"
  /\ mutex = NoThread
  /\ failed' = TRUE
  /\ engine' = "idle"
  /\ UNCHANGED <<ptrs, lock, active, shutdown, inOutput, paint, worker, pos>>

Unblock ==
  /\ engine = "idle" /\ audio
  /\ mutex = NoThread
  /\ active' = (active \/ (~shutdown /\ ~failed))
  /\ Broadcast
  /\ UNCHANGED <<ptrs, mutex, shutdown, failed, inOutput, paint, worker, engine, pos>>

-----------------------------------------------------------------------------
(* SNDDMA_Shutdown: close the device, then free the ring the worker read.  *)

(* Mutated form: the shutdown is not announced. *)
CloseBeginSilent ==
  /\ engine = "idle" /\ audio
  /\ mutex = NoThread
  /\ shutdown' = TRUE
  /\ engine' = "join"
  /\ UNCHANGED <<ptrs, lock, active, failed, inOutput, paint, worker, pos>>

CloseBegin ==
  /\ engine = "idle" /\ audio
  /\ mutex = NoThread
  /\ shutdown' = TRUE
  /\ Broadcast
  /\ engine' = "join"
  /\ UNCHANGED <<ptrs, mutex, active, failed, inOutput, paint, worker, pos>>

CloseJoin ==
  /\ engine = "join" /\ worker = "exited"
  /\ held' = held \ {"thread"}
  /\ worker' = "none"
  /\ engine' = "lastDrain"
  /\ UNCHANGED <<audio, shm, lock, fields, paint, pos>>

(* The last drain, close, destroys and delete; audio = NULL. *)
CloseDevice ==
  /\ engine = "lastDrain"
  /\ held' = {"buffer"}
  /\ audio' = FALSE
  /\ engine' = "freeing"
  /\ UNCHANGED <<shm, lock, fields, paint, worker, pos>>

FreeBuffer ==
  /\ engine = "freeing"
  /\ held' = held \ {"buffer"}
  /\ shm' = FALSE
  /\ engine' = "idle"
  /\ UNCHANGED <<audio, lock, fields, paint, worker, pos>>

-----------------------------------------------------------------------------
Init ==
  /\ held = {} /\ audio = FALSE /\ shm = FALSE
  /\ mutex = NoThread /\ waiting = {}
  /\ active = TRUE /\ shutdown = FALSE /\ failed = FALSE /\ inOutput = FALSE
  /\ samplepos = 0 /\ start = 0 /\ block = <<>>
  /\ worker = "none" /\ engine = "idle" /\ pos = 0

WorkerRuns ==
  \/ WorkerLock
  \/ WorkerExit
  \/ WorkerSleep
  \/ PaintBegin
  \/ PaintCopy
  \/ WorkerOutput

WorkerStep == WorkerRuns \/ \E ok \in BOOLEAN : WorkerReturn(ok)

MixStep == MixLock \/ Submit

BlockStep ==
  \/ BlockWait
  \/ BlockLock
  \/ BlockQuiet
  \/ \E ok \in BOOLEAN : BlockDrained(ok)
  \/ BlockFailed

CloseStep == CloseJoin \/ CloseDevice \/ FreeBuffer

(* Inside a call the engine thread goes on to its end. *)
EngineStep == InitAcquire \/ InitFail \/ InitDone \/ MixStep \/ BlockStep \/ CloseStep

EngineCall == InitBegin \/ MixCall \/ BlockBegin \/ Unblock \/ CloseBegin

Next ==
  \/ WorkerStep
  \/ EngineStep
  \/ EngineCall
  \/ \E t \in {"worker", "engine"} : SpuriousWake(t)

Spec == Init /\ [][Next]_vars

(* Both threads keep running, and a thread that keeps asking for the mutex   *)
(* gets it.  The engine need not make any call, and a device call need not    *)
(* return.                                                                    *)
FairSpec == Spec /\ SF_vars(WorkerRuns) /\ SF_vars(EngineStep)

-----------------------------------------------------------------------------
TypeOK ==
  /\ held \subseteq Resource
  /\ audio \in BOOLEAN /\ shm \in BOOLEAN
  /\ mutex \in {NoThread, "worker", "engine"}
  /\ waiting \subseteq {"worker", "engine"}
  /\ active \in BOOLEAN /\ shutdown \in BOOLEAN /\ failed \in BOOLEAN
  /\ inOutput \in BOOLEAN
  /\ samplepos \in 0 .. Samples - 1 /\ start \in 0 .. Samples - 1
  /\ pos \in 0 .. Samples - 1
  /\ block \in Seq(0 .. Samples - 1) /\ Len(block) <= BlockSize
  /\ worker \in {"none", "start", "loop", "asleep", "woken", "painting", "output",
                 "exited"}
  /\ engine \in {"idle", "opening", "opened", "locking", "mixing", "stop",
                 "stopWaiting", "drain", "drainFailed", "join", "lastDrain", "freeing"}

(* Outside the calls sound is open with every resource or closed with none,  *)
(* whichever step of SNDDMA_Init failed before, and the pointers say which.   *)
AllOrNothing ==
  engine = "idle" => /\ held \in {{}, Resource}
                     /\ audio <=> held # {}
                     /\ shm <=> audio

(* The worker touches nothing that is not there: the DMA ring while it       *)
(* paints, the port in a device call, the lock while it runs at all.         *)
UsesWhatExists ==
  /\ worker = "painting" => {"buffer", "device"} \subseteq held
  /\ worker = "output" => {"port", "device"} \subseteq held
  /\ worker \notin {"none", "exited"} => {"device", "mutex", "cond"} \subseteq held

ResourcesSafe == TypeOK /\ AllOrNothing /\ UsesWhatExists

(* The engine never mixes while a block is painted, and the cursor it mixes  *)
(* from is still the device's cursor when it submits.                        *)
MixIsExclusive ==
  engine = "mixing" => worker # "painting" /\ pos = samplepos

(* A block in the device is BlockSize consecutive samples of the ring from   *)
(* the cursor on, across its end, and the cursor stands right behind it.     *)
BlockIsConsecutive ==
  worker = "output" =>
    /\ \A i \in 1 .. BlockSize : block[i] = (start + i - 1) % Samples
    /\ samplepos = (start + BlockSize) % Samples

(* Nothing moves the cursor while sound is blocked: resuming continues with  *)
(* the sample after the last one that was played.                            *)
PausedKeepsCursor ==
  [][engine = "idle" /\ engine' = "idle" /\ audio /\ ~active => samplepos' = samplepos]_vars

(* The engine always gets to mix, even when a device call never returns:     *)
(* the worker does not hold the producer's mutex during output.              *)
MixReturns == engine = "locking" ~> engine = "idle"

(* Blocking and shutting down sound return, whatever the worker is doing, if *)
(* the device's calls do: that alone is what they wait for.                  *)
DeviceReturns == SF_vars(\E ok \in BOOLEAN : WorkerReturn(ok))
BlockReturns == engine = "stop" ~> engine = "idle"
ShutdownReturns == engine = "join" ~> engine = "idle"
CallsReturn == DeviceReturns => BlockReturns /\ ShutdownReturns
=============================================================================
