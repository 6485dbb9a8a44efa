----------------------------- MODULE DisplayFlip -----------------------------
(* src/display.cpp: two frames that the CPU writes and the display scans out. What *)
(* the CPU writes lies in its cache until it is flushed, or evicted; the display      *)
(* reads memory. Flips that were submitted take place one at each vertical blank, in *)
(* order. present waits for the blank, but goes on whatever the wait answers.       *)
(* A frame is the number of the picture it holds.                                  *)
EXTENDS ShimParameters

VARIABLES
    display,       \* "closed", "open", or the step of open or present
    back,          \* the frame the caller writes
    cached,        \* what each frame holds as the CPU sees it
    memory,        \* what each frame holds as the display sees it
    scanned,       \* the frame the display scans out, or -1
    submitted,     \* the frames it was told to take, one at each vertical blank
    early,         \* history: a wait ended before its flip, and flips are outstanding
    drawing,       \* the picture that is drawn, begun or complete
    shown          \* the picture of the last present that succeeded

displayVars == <<display, back, cached, memory, scanned, submitted, early, drawing, shown>>

Frames == {0, 1}
Partly(picture) == <<"partly", picture>>
Whole(picture) == <<"whole", picture>>
Blank == [f \in Frames |-> Partly(0)]

(* open: the handle, the memory, the mapping and the registration, each of which   *)
(* may be refused, which closes what there is. Each open allocates frames anew.   *)
OpenBegins ==
    /\ display = "closed"
    /\ display' = "opening"
    /\ UNCHANGED <<back, cached, memory, scanned, submitted, early, drawing, shown>>

Closed ==
    /\ display' = "closed" /\ back' = 0
    /\ UNCHANGED <<cached, memory, scanned, submitted, early, drawing, shown>>

OpenRefused == display = "opening" /\ Closed

OpenDone ==
    /\ display = "opening"
    /\ display' = "open" /\ back' = 0
    /\ cached' = Blank /\ memory' = Blank
    /\ scanned' = -1 /\ submitted' = <<>> /\ early' = FALSE
    /\ UNCHANGED <<drawing, shown>>

(* The caller writes the frame back_surface gave it, pixel by pixel.         *)
WriteSome ==
    /\ display = "open" /\ drawing < MaxPictures
    /\ cached[back] # Partly(drawing)
    /\ drawing' = drawing + 1
    /\ cached' = [cached EXCEPT ![back] = Partly(drawing')]
    /\ UNCHANGED <<display, back, memory, scanned, submitted, early, shown>>

WriteLast ==
    /\ display = "open" /\ cached[back] = Partly(drawing)
    /\ cached' = [cached EXCEPT ![back] = Whole(drawing)]
    /\ UNCHANGED <<display, back, memory, scanned, submitted, early, drawing, shown>>

(* A cache writes back what it likes, when it likes.                         *)
Evict(frame) ==
    /\ cached[frame] # memory[frame]
    /\ memory' = [memory EXCEPT ![frame] = cached[frame]]
    /\ UNCHANGED <<display, back, cached, scanned, submitted, early, drawing, shown>>

(* Mutated form: the frame is left to the cache.                             *)
FlushNothing == UNCHANGED memory

Flush == memory' = [memory EXCEPT ![back] = cached[back]]

PresentBegins ==
    /\ display = "open" /\ cached[back] = Whole(drawing)
    /\ Flush
    /\ display' = "submitting"
    /\ UNCHANGED <<back, cached, scanned, submitted, early, drawing, shown>>

(* A refused flip leaves the frame with the caller; a full queue refuses it.   *)
SubmitRefused ==
    /\ display = "submitting"
    /\ display' = "open"
    /\ UNCHANGED <<back, cached, memory, scanned, submitted, early, drawing, shown>>

Submit ==
    /\ display = "submitting" /\ Len(submitted) < MaxFlips
    /\ submitted' = Append(submitted, back)
    /\ display' = "waiting"
    /\ UNCHANGED <<back, cached, memory, scanned, early, drawing, shown>>

(* The vertical blank; a present that waits for it goes on.                  *)
Vblank ==
    /\ submitted # <<>>
    /\ scanned' = Head(submitted) /\ submitted' = Tail(submitted)
    /\ early' = (early /\ submitted' # <<>>)
    /\ display' = IF display = "waiting" THEN "waited" ELSE display
    /\ UNCHANGED <<back, cached, memory, drawing, shown>>

(* The wait answers before the vertical blank, and its answer is not looked at. *)
WaitFails ==
    /\ display = "waiting"
    /\ display' = "waited" /\ early' = TRUE
    /\ UNCHANGED <<back, cached, memory, scanned, submitted, drawing, shown>>

(* Mutated form: the caller keeps the frame it has just given away.          *)
SwapNothing == back

Swap == 1 - back

PresentEnds ==
    /\ display = "waited"
    /\ back' = Swap
    /\ shown' = cached[back]
    /\ display' = "open"
    /\ UNCHANGED <<cached, memory, scanned, submitted, early, drawing>>

Close ==
    /\ display = "open"
    /\ Closed

DisplayInit ==
    /\ display = "closed" /\ back = 0 /\ drawing = 1
    /\ cached = Blank /\ memory = Blank
    /\ scanned = -1 /\ submitted = <<>> /\ early = FALSE /\ shown = <<>>

DisplayNext ==
    \/ OpenBegins \/ OpenRefused \/ OpenDone \/ WriteSome \/ WriteLast
    \/ PresentBegins \/ SubmitRefused \/ Submit \/ Vblank \/ WaitFails \/ PresentEnds
    \/ Close
    \/ \E f \in Frames : Evict(f)

DisplaySpec == DisplayInit /\ [][DisplayNext]_displayVars

-----------------------------------------------------------------------------
(* A frame is complete where the display reads it; between two presents it is not *)
(* the one the caller writes and holds the picture of the last present that         *)
(* succeeded.                                                                  *)
Presentable(frame) ==
    /\ memory[frame] \in {Whole(p) : p \in 1 .. MaxPictures}
    /\ display = "open" => frame # back /\ memory[frame] = shown

(* The frame the display comes to when all flips have taken place.           *)
Coming == IF submitted = <<>> THEN scanned ELSE submitted[Len(submitted)]

(* Whatever the waits answered, the frame the display comes to holds a whole      *)
(* picture, the last one presented, and no pixel of it is in the cache or the         *)
(* caller's to write. The frame it scans out is such a one too, but from a wait that     *)
(* ended before its flip until the flips that were outstanding have taken place.    *)
FlipSound ==
    /\ Coming # -1 => Presentable(Coming)
    /\ scanned # -1 /\ ~early => Presentable(scanned)
=============================================================================
