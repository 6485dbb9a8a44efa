----------------------------- MODULE PcmStream ------------------------------
(***************************************************************************)
(* What the audio device promises its callers, with no threads, ring or    *)
(* lock: a bounded FIFO of PCM frames that leaves in blocks of one grain.  *)
(* Every accepted frame is played once, in order, or dropped by a pause, a *)
(* close or the one device error; a pause completes only when no block is  *)
(* in the device, and nothing is accepted or taken until it is resumed.    *)
(***************************************************************************)
EXTENDS Integers, Sequences

CONSTANTS Grain, Capacity

VARIABLES
  pending,   (* the accepted frames no block has taken yet                   *)
  block,     (* the frames in the device, <<>> when it plays silence or none *)
  accepted, played, dropped,
  mode,      (* "playing", "stopping" or "paused"                            *)
  dead       (* the device has failed                                        *)

vars == <<pending, block, accepted, played, dropped, mode, dead>>

Init ==
  /\ pending = <<>> /\ block = <<>>
  /\ accepted = 0 /\ played = 0 /\ dropped = 0
  /\ mode = "playing"
  /\ dead = FALSE

Accept(n) ==
  /\ mode = "playing" /\ ~dead
  /\ Len(pending) + n <= Capacity
  /\ pending' = pending \o [i \in 1 .. n |-> accepted + i]
  /\ accepted' = accepted + n
  /\ UNCHANGED <<block, played, dropped, mode, dead>>

(* A block takes a whole grain, or everything when less is pending. *)
Take ==
  /\ mode = "playing" /\ ~dead
  /\ block = <<>> /\ pending # <<>>
  /\ LET n == IF Len(pending) < Grain THEN Len(pending) ELSE Grain
     IN  /\ block' = SubSeq(pending, 1, n)
         /\ pending' = SubSeq(pending, n + 1, Len(pending))
  /\ UNCHANGED <<accepted, played, dropped, mode, dead>>

Play ==
  /\ block # <<>>
  /\ played' = played + Len(block)
  /\ block' = <<>>
  /\ UNCHANGED <<pending, accepted, dropped, mode, dead>>

(* The device refused the block, which may have been silence. *)
Lose ==
  /\ ~dead
  /\ dropped' = dropped + Len(block)
  /\ block' = <<>>
  /\ dead' = TRUE
  /\ UNCHANGED <<pending, accepted, played, mode>>

Stop ==
  /\ dropped' = dropped + Len(pending)
  /\ pending' = <<>>
  /\ mode' = "stopping"
  /\ UNCHANGED <<block, accepted, played, dead>>

Paused ==
  /\ mode = "stopping" /\ block = <<>>
  /\ mode' = "paused"
  /\ UNCHANGED <<pending, block, accepted, played, dropped, dead>>

Resume ==
  /\ mode = "paused" /\ ~dead
  /\ mode' = "playing"
  /\ UNCHANGED <<pending, block, accepted, played, dropped, dead>>

Next ==
  \/ \E n \in 1 .. Capacity : Accept(n)
  \/ Take
  \/ Play
  \/ Lose
  \/ Stop
  \/ Paused
  \/ Resume

Spec == Init /\ [][Next]_vars
=============================================================================
