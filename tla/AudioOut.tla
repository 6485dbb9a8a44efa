------------------------------ MODULE AudioOut ------------------------------
(***************************************************************************)
(* The native audio device of src/audio_ps5.cpp in ring mode: a producer   *)
(* copies frames into a ring, a worker thread takes one grain at a time    *)
(* and blocks in sceAudioOutOutput, a controller pauses, resumes and frees *)
(* the device.  All shared fields are guarded by one mutex and announced   *)
(* on one condition variable; the mutex is released around every device    *)
(* call.                                                                   *)
(*                                                                         *)
(* A frame is abstracted to its place in the order of acceptance: the n-th *)
(* frame audio_write accepts is the number n, and 0 is a frame of silence. *)
(* The statistics nothing decides on (silence, calls, errors, peak) are    *)
(* left out.                                                               *)
(***************************************************************************)
EXTENDS Integers, Sequences

CONSTANTS
  Grain,      (* frames per device block (grain = 256 in the source)         *)
  Capacity,   (* frames the ring holds                                       *)
  MaxFrames,  (* bound of the model: frames the producer ever offers         *)
  MaxWrite    (* bound of the model: frames in one audio_write               *)

(* audio_init rounds the capacity to at least two grains. *)
ASSUME AudioAssumption ==
  /\ Grain \in Nat \ {0}
  /\ Capacity \in Nat /\ Capacity >= 2 * Grain
  /\ MaxFrames \in Nat
  /\ MaxWrite \in Nat \ {0}

VARIABLES
  mutex,      (* the thread that holds Audio::mutex, or NoThread             *)
  waiting,    (* threads inside pthread_cond_wait on Audio::changed          *)
  ring, head, count,
  active, shutdown, failed, nonblock, inOutput,
  accepted, played, discarded,
  frames,     (* the worker's local: frames of the block it last took        *)
  output,     (* the worker's block buffer                                   *)
  worker,     (* where the worker thread is                                  *)
  writer,     (* where the producer thread is                                *)
  want,       (* frames left to copy in the producer's audio_write           *)
  control,    (* where the controller thread is                              *)
  healthy     (* audio_stop's local, and then its result                     *)

fields  == <<active, shutdown, failed, nonblock, inOutput>>
queue   == <<ring, head, count>>
totals  == <<accepted, played, discarded>>
workerVars  == <<worker, frames, output>>
writerVars  == <<writer, want>>
controlVars == <<control, healthy>>
vars == <<mutex, waiting, ring, head, count, active, shutdown, failed, nonblock,
          inOutput, accepted, played, discarded, frames, output, worker, writer,
          want, control, healthy>>

NoThread == "none"
Thread == {"worker", "writer", "control"}
Slot == 0 .. Capacity - 1
Least(a, b) == IF a <= b THEN a ELSE b

-----------------------------------------------------------------------------
(* The mutex and the condition variable. *)

(* pthread_mutex_lock, also the relock inside pthread_cond_wait. *)
Lock(t) == mutex = NoThread /\ t \notin waiting /\ mutex' = t

Unlock(t) == mutex = t /\ mutex' = NoThread

(* pthread_cond_broadcast(&changed) *)
Broadcast == waiting' = {}

(* pthread_cond_wait(&changed, &mutex): release and sleep in one step. *)
CondWait(t) == Unlock(t) /\ waiting' = waiting \union {t}

(* POSIX lets a condition wait return without a broadcast. *)
SpuriousWake(t) ==
  /\ t \in waiting
  /\ waiting' = waiting \ {t}
  /\ UNCHANGED <<mutex, fields, queue, totals, workerVars, writerVars, controlVars>>

-----------------------------------------------------------------------------
(* The worker thread. *)

(* Take the mutex: on thread start, or when a wait for resume returns. *)
WorkerLock ==
  /\ worker \in {"start", "asleep"}
  /\ Lock("worker")
  /\ worker' = IF worker = "start" THEN "loop" ELSE "woken"
  /\ UNCHANGED <<waiting, fields, queue, totals, frames, output, writerVars, controlVars>>

(* The outer loop ends on shutdown or failure, the inner wait on shutdown. *)
WorkerExit ==
  /\ \/ worker = "loop" /\ (shutdown \/ failed)
     \/ worker = "woken" /\ shutdown
  /\ Unlock("worker")
  /\ worker' = "exited"
  /\ UNCHANGED <<waiting, fields, queue, totals, frames, output, writerVars, controlVars>>

(* while (!active && !shutdown) pthread_cond_wait.  The inner loop does not *)
(* look at failed, the outer one has.                                       *)
WorkerSleep ==
  /\ \/ worker = "loop" /\ ~failed
     \/ worker = "woken"
  /\ ~shutdown /\ ~active
  /\ CondWait("worker")
  /\ worker' = "asleep"
  /\ UNCHANGED <<fields, queue, totals, frames, output, writerVars, controlVars>>

(* Mutated form: the second copy starts at the wrong offset. *)
BlockMisplaced(n) ==
  LET first == Least(n, Capacity - head)
  IN  [i \in 1 .. Grain |->
         IF i <= first THEN ring[head + i - 1]
         ELSE IF i <= n THEN ring[i - 1]
         ELSE 0]

(* The block a worker takes: n frames from the ring in two copies, one up   *)
(* to the end of the ring and one from its start, then silence.             *)
Block(n) ==
  LET first == Least(n, Capacity - head)
  IN  [i \in 1 .. Grain |->
         IF i <= first THEN ring[head + i - 1]
         ELSE IF i <= n THEN ring[i - first - 1]
         ELSE 0]

Taken == Least(count, Grain)

(* Take up to a grain off the ring, release the mutex and enter the device. *)
WorkerTake ==
  /\ \/ worker = "loop" /\ ~failed
     \/ worker = "woken"
  /\ ~shutdown /\ active
  /\ Unlock("worker")
  /\ frames' = Taken
  /\ output' = Block(Taken)
  /\ head' = (head + Taken) % Capacity
  /\ count' = count - Taken
  /\ inOutput' = TRUE
  /\ Broadcast
  /\ worker' = "output"
  /\ UNCHANGED <<ring, active, shutdown, failed, nonblock, totals, writerVars, controlVars>>

(* Mutated form: the frames of a refused block are forgotten. *)
SettleForgetful(ok) ==
  /\ played' = IF ok THEN played + frames ELSE played
  /\ discarded' = discarded

Settle(ok) ==
  /\ played' = IF ok THEN played + frames ELSE played
  /\ discarded' = IF ok THEN discarded ELSE discarded + frames

(* Mutated form: the end of a device call is not announced. *)
WorkerReturnSilent(ok) ==
  /\ worker = "output"
  /\ Lock("worker")
  /\ inOutput' = FALSE
  /\ failed' = (failed \/ ~ok)
  /\ Settle(ok)
  /\ worker' = "loop"
  /\ UNCHANGED <<waiting, queue, active, shutdown, nonblock, accepted, frames, output,
                 writerVars, controlVars>>

(* sceAudioOutOutput returned ok or an error: relock and account for the   *)
(* block.  The mutex stays held into the next round of the loop.           *)
WorkerReturn(ok) ==
  /\ worker = "output"
  /\ Lock("worker")
  /\ inOutput' = FALSE
  /\ failed' = (failed \/ ~ok)
  /\ Settle(ok)
  /\ Broadcast
  /\ worker' = "loop"
  /\ UNCHANGED <<queue, active, shutdown, nonblock, accepted, frames, output,
                 writerVars, controlVars>>

-----------------------------------------------------------------------------
(* The producer thread: audio_write(a, data, n). *)

WriteCall(n) ==
  /\ writer = "outside"
  /\ control \notin {"join", "lastDrain", "close", "freed"}  \* no write during audio_free
  /\ accepted + n <= MaxFrames
  /\ writer' = "lock"
  /\ want' = n
  /\ UNCHANGED <<mutex, waiting, fields, queue, totals, workerVars, controlVars>>

WriteLock ==
  /\ writer = "lock"
  /\ Lock("writer")
  /\ writer' = "loop"
  /\ UNCHANGED <<waiting, fields, queue, totals, workerVars, want, controlVars>>

(* The call returns: everything written, the device failed or shut down,   *)
(* paused, or full in nonblocking mode.                                    *)
WriteReturn ==
  /\ writer = "loop"
  /\ \/ want = 0
     \/ failed \/ shutdown
     \/ ~active
     \/ count = Capacity /\ nonblock
  /\ Unlock("writer")
  /\ writer' = "outside"
  /\ want' = 0
  /\ UNCHANGED <<waiting, fields, queue, totals, workerVars, controlVars>>

CanWrite == writer = "loop" /\ want > 0 /\ ~failed /\ ~shutdown /\ active

(* The ring is full: wait for the worker to take a block. *)
WriteWait ==
  /\ CanWrite
  /\ count = Capacity /\ ~nonblock
  /\ CondWait("writer")
  /\ writer' = "lock"
  /\ UNCHANGED <<fields, queue, totals, workerVars, want, controlVars>>

(* Mutated form: the copy does not wrap, its tail is dropped. *)
FilledNoWrap(n) ==
  LET tail == (head + count) % Capacity
      first == Least(n, Capacity - tail)
  IN  [s \in Slot |->
         IF s >= tail /\ s < tail + first THEN accepted + 1 + (s - tail) ELSE ring[s]]

(* The ring after n more frames were copied in at its tail, in two copies. *)
Filled(n) ==
  LET tail == (head + count) % Capacity
      first == Least(n, Capacity - tail)
  IN  [s \in Slot |->
         IF s >= tail /\ s < tail + first THEN accepted + 1 + (s - tail)
         ELSE IF s < n - first THEN accepted + 1 + first + s
         ELSE ring[s]]

FreeFrames == Capacity - count

WriteCopy ==
  /\ CanWrite
  /\ count < Capacity
  /\ LET n == Least(want, FreeFrames)
     IN  /\ ring' = Filled(n)
         /\ count' = count + n
         /\ accepted' = accepted + n
         /\ want' = want - n
  /\ Broadcast
  /\ UNCHANGED <<mutex, head, fields, played, discarded, workerVars, writer, controlVars>>

-----------------------------------------------------------------------------
(* The controller thread: audio_stop, audio_start, nonblock, destroy. *)

(* Mutated form: the pause is not announced. *)
StopBeginSilent ==
  /\ control = "outside"
  /\ Lock("control")
  /\ active' = FALSE
  /\ discarded' = discarded + count
  /\ count' = 0
  /\ head' = 0
  /\ control' = "stop"
  /\ UNCHANGED <<waiting, ring, shutdown, failed, nonblock, inOutput, accepted, played,
                 workerVars, writerVars, healthy>>

(* Mutated form: a pause keeps what is queued. *)
StopBeginKeeps ==
  /\ control = "outside"
  /\ Lock("control")
  /\ active' = FALSE
  /\ Broadcast
  /\ control' = "stop"
  /\ UNCHANGED <<queue, totals, shutdown, failed, nonblock, inOutput, workerVars,
                 writerVars, healthy>>

(* Drop what is queued; the mutex stays held into the wait for in_output. *)
StopBegin ==
  /\ control = "outside"
  /\ Lock("control")
  /\ active' = FALSE
  /\ discarded' = discarded + count
  /\ count' = 0
  /\ head' = 0
  /\ Broadcast
  /\ control' = "stop"
  /\ UNCHANGED <<ring, shutdown, failed, nonblock, inOutput, accepted, played,
                 workerVars, writerVars, healthy>>

StopWait ==
  /\ control = "stop"
  /\ inOutput
  /\ CondWait("control")
  /\ control' = "stopWaiting"
  /\ UNCHANGED <<fields, queue, totals, workerVars, writerVars, healthy>>

StopLock ==
  /\ control = "stopWaiting"
  /\ Lock("control")
  /\ control' = "stop"
  /\ UNCHANGED <<waiting, fields, queue, totals, workerVars, writerVars, healthy>>

(* Mutated form: the drain does not wait for the block in the device. *)
StopQuietEarly ==
  /\ control = "stop"
  /\ Unlock("control")
  /\ healthy' = ~failed
  /\ control' = "drain"
  /\ UNCHANGED <<waiting, fields, queue, totals, workerVars, writerVars>>

(* The worker is out of the device: note its health, release, and drain.   *)
StopQuiet ==
  /\ control = "stop"
  /\ ~inOutput
  /\ Unlock("control")
  /\ healthy' = ~failed
  /\ control' = "drain"
  /\ UNCHANGED <<waiting, fields, queue, totals, workerVars, writerVars>>

(* Mutated form: only the drain decides what audio_stop answers. *)
StopDrainedHides(ok) ==
  /\ control = "drain"
  /\ control' = IF ok THEN "outside" ELSE "drainFailed"
  /\ healthy' = ok
  /\ UNCHANGED <<mutex, waiting, fields, queue, totals, workerVars, writerVars>>

(* sceAudioOutOutput(port, nullptr) returned, without the mutex. *)
StopDrained(ok) ==
  /\ control = "drain"
  /\ control' = IF ok THEN "outside" ELSE "drainFailed"
  /\ healthy' = (healthy /\ ok)
  /\ UNCHANGED <<mutex, waiting, fields, queue, totals, workerVars, writerVars>>

(* The drain failed: mark the device failed.  Nothing is announced. *)
StopFailed ==
  /\ control = "drainFailed"
  /\ mutex = NoThread
  /\ failed' = TRUE
  /\ control' = "outside"
  /\ UNCHANGED <<mutex, waiting, active, shutdown, nonblock, inOutput, queue, totals,
                 workerVars, writerVars, healthy>>

Start ==
  /\ control = "outside"
  /\ mutex = NoThread
  /\ active' = (active \/ (~shutdown /\ ~failed))
  /\ Broadcast
  /\ UNCHANGED <<mutex, shutdown, failed, nonblock, inOutput, queue, totals,
                 workerVars, writerVars, controlVars>>

SetNonblock(enabled) ==
  /\ control = "outside"
  /\ mutex = NoThread
  /\ nonblock' = enabled
  /\ Broadcast
  /\ UNCHANGED <<mutex, active, shutdown, failed, inOutput, queue, totals,
                 workerVars, writerVars, controlVars>>

(* audio_free, once no audio_write is running (the callers wait for it). *)
DestroyBegin ==
  /\ control = "outside"
  /\ writer = "outside"
  /\ mutex = NoThread
  /\ shutdown' = TRUE
  /\ discarded' = discarded + count
  /\ count' = 0
  /\ Broadcast
  /\ control' = "join"
  /\ UNCHANGED <<mutex, ring, head, active, failed, nonblock, inOutput, accepted,
                 played, workerVars, writerVars, healthy>>

(* pthread_join(a->thread) *)
DestroyJoin ==
  /\ control = "join"
  /\ worker = "exited"
  /\ control' = "lastDrain"
  /\ UNCHANGED <<mutex, waiting, fields, queue, totals, workerVars, writerVars, healthy>>

(* The last drain, the close of the port, then the delete of the device.   *)
DestroyStep ==
  /\ \/ control = "lastDrain" /\ control' = "close"
     \/ control = "close" /\ control' = "freed"
  /\ UNCHANGED <<mutex, waiting, fields, queue, totals, workerVars, writerVars, healthy>>

-----------------------------------------------------------------------------
Init ==
  /\ mutex = NoThread
  /\ waiting = {}
  /\ ring = [s \in Slot |-> 0]
  /\ head = 0 /\ count = 0
  /\ active = TRUE
  /\ shutdown = FALSE /\ failed = FALSE /\ nonblock = FALSE /\ inOutput = FALSE
  /\ accepted = 0 /\ played = 0 /\ discarded = 0
  /\ frames = 0
  /\ output = [i \in 1 .. Grain |-> 0]
  /\ worker = "start"
  /\ writer = "outside" /\ want = 0
  /\ control = "outside" /\ healthy = TRUE

WorkerStep ==
  \/ WorkerLock
  \/ WorkerExit
  \/ WorkerSleep
  \/ WorkerTake
  \/ \E ok \in BOOLEAN : WorkerReturn(ok)

WriterStep ==
  \/ WriteLock
  \/ WriteReturn
  \/ WriteWait
  \/ WriteCopy

StopStep ==
  \/ StopWait
  \/ StopLock
  \/ StopQuiet
  \/ \E ok \in BOOLEAN : StopDrained(ok)
  \/ StopFailed

DestroyRest == DestroyJoin \/ DestroyStep

(* Nothing is left to run after the device is deleted. *)
Terminated == control = "freed" /\ UNCHANGED vars

Next ==
  \/ WorkerStep
  \/ \E n \in 1 .. MaxWrite : WriteCall(n)
  \/ WriterStep
  \/ StopBegin
  \/ StopStep
  \/ Start
  \/ \E enabled \in BOOLEAN : SetNonblock(enabled)
  \/ DestroyBegin
  \/ DestroyRest
  \/ \E t \in Thread : SpuriousWake(t)
  \/ Terminated

Spec == Init /\ [][Next]_vars

(* A device call returns, a running thread keeps running, and a thread that *)
(* asks for the mutex again and again gets it (strong fairness): no call of *)
(* the API has to happen.                                                   *)
Fairness ==
  /\ SF_vars(WorkerStep)
  /\ SF_vars(WriterStep)
  /\ SF_vars(StopStep)
  /\ WF_vars(DestroyRest)

FairSpec == Spec /\ Fairness

-----------------------------------------------------------------------------
TypeOK ==
  /\ mutex \in Thread \union {NoThread}
  /\ waiting \in SUBSET Thread
  /\ ring \in [Slot -> Nat]
  /\ head \in Slot
  /\ count \in 0 .. Capacity
  /\ active \in BOOLEAN /\ shutdown \in BOOLEAN /\ failed \in BOOLEAN
  /\ nonblock \in BOOLEAN /\ inOutput \in BOOLEAN
  /\ accepted \in Nat /\ played \in Nat /\ discarded \in Nat
  /\ frames \in 0 .. Grain
  /\ output \in [1 .. Grain -> Nat]
  /\ worker \in {"start", "loop", "asleep", "woken", "output", "exited"}
  /\ writer \in {"outside", "lock", "loop"}
  /\ want \in Nat
  /\ control \in {"outside", "stop", "stopWaiting", "drain", "drainFailed",
                  "join", "lastDrain", "close", "freed"}
  /\ healthy \in BOOLEAN

(* Conservation, what the bring-up test asserts only once everything has     *)
(* drained: at every moment each accepted frame is counted exactly once, as  *)
(* played, discarded, queued, or inside the device call.                     *)
InFlight == IF worker = "output" THEN frames ELSE 0
Conservation == accepted = played + discarded + count + InFlight

(* The ring holds exactly the frames accepted last, oldest at head, across   *)
(* the wrap of both cursors: nothing queued is overwritten or reordered.     *)
RingHoldsPending ==
  \A i \in 0 .. count - 1 :
    ring[(head + i) % Capacity] = accepted - count + 1 + i

(* The port is never in two device calls at once, and no block is in the     *)
(* device once audio_stop has returned, until audio_start.                   *)
DeviceQuiet ==
  \/ control \in {"drain", "drainFailed", "lastDrain", "close", "freed"}
  \/ control = "outside" /\ ~active
  => worker # "output"

(* Lost wake-ups: a thread asleep on the condition has a reason to sleep that *)
(* the thread which removes it has not removed yet.  StopFailed sets failed   *)
(* without a broadcast, so this rests on nobody sleeping at that moment.      *)
NobodySleepsInVain ==
  /\ "writer" \in waiting => count = Capacity /\ active /\ ~failed /\ ~shutdown
  /\ "control" \in waiting => inOutput
  /\ "worker" \in waiting => ~active /\ ~shutdown

(* A failed device is not driven again: no block enters it, even after a     *)
(* failed drain and a resume.                                                *)
FailedIsFinal == failed => worker # "output"

(* audio_stop answers true only for a device that has not failed, whatever   *)
(* the block it waited for did.                                              *)
StopTellsTheTruth == control = "outside" /\ ~active /\ healthy => ~failed

(* The inductive strengthening: who holds the mutex and who sleeps is read    *)
(* off the program counters, and what the controller has already established  *)
(* at each of its steps stays true until it moves on.                         *)
Positions ==
  /\ mutex = "worker" <=> worker \in {"loop", "woken"}
  /\ mutex = "writer" <=> writer = "loop"
  /\ mutex = "control" <=> control = "stop"
  /\ "worker" \in waiting => worker = "asleep"
  /\ "writer" \in waiting => writer = "lock"
  /\ "control" \in waiting => control = "stopWaiting"
  /\ inOutput <=> worker = "output"

Progress ==
  /\ shutdown <=> control \in {"join", "lastDrain", "close", "freed"}
  /\ control \in {"stop", "stopWaiting", "drain", "drainFailed"} => ~active
  /\ control \in {"lastDrain", "close", "freed"} => worker = "exited"
  /\ shutdown => writer = "outside"
  /\ ~active => count = 0
  /\ failed => ~active \/ worker \in {"loop", "exited"}
  /\ control = "drain" /\ healthy => ~failed
  /\ control = "drainFailed" => ~healthy

SafetyInv ==
  /\ Conservation
  /\ DeviceQuiet
  /\ NobodySleepsInVain
  /\ FailedIsFinal
  /\ StopTellsTheTruth

IInv == TypeOK /\ Positions /\ Progress /\ SafetyInv

(* Every call of the API returns: pausing a device that is mid-block,        *)
(* writing into a full ring while it is paused, failed or slow, freeing it.  *)
StopReturns == control = "stop" ~> control = "outside"
WriteReturns == writer = "lock" ~> writer = "outside"
FreeReturns == control = "join" ~> control = "freed"
CallsReturn == StopReturns /\ WriteReturns /\ FreeReturns

(* What wait_empty waits for: accepted frames are eventually played or       *)
(* discarded, unless the device fails.                                       *)
AcceptedIsSettled ==
  \A n \in 1 .. MaxFrames : accepted >= n ~> played + discarded >= n \/ failed

-----------------------------------------------------------------------------
(* The device implements PcmStream: what is queued, what is in the device,   *)
(* and how far a pause has come.                                             *)
Pending == [i \in 1 .. count |-> ring[(head + i - 1) % Capacity]]

InDevice == [i \in 1 .. InFlight |-> output[i]]

Mode == IF control \in {"stop", "stopWaiting", "join"} THEN "stopping"
        ELSE IF active /\ ~shutdown THEN "playing"
        ELSE "paused"

Stream == INSTANCE PcmStream WITH
  pending <- Pending, block <- InDevice, dropped <- discarded,
  dead <- failed, mode <- Mode

(* The ring, the two-part copies, the lock and the condition variable give   *)
(* the callers the plain bounded FIFO of PcmStream.                          *)
StreamSpec == Stream!Spec
=============================================================================
