------------------------------ MODULE FrameTrace ------------------------------
(* platform/ps5/ps5_window.c: traced_present, which wraps every present of the      *)
(* engine and says how the frames went: one line for a hitch, one every so long, one  *)
(* at start-up (src/host_frames.cpp). Times are in half vertical blanks of 60 Hz.     *)
(* What other threads ask of the kernel meanwhile is one count for all it samples:    *)
(* those of sdl_ps5.c, of the files and of the allocator.                          *)
EXTENDS ShimParameters, FiniteSetsExt

VARIABLES
    presenting,        \* whether the engine is inside vkQueuePresentKHR
    presents,          \* how many have returned
    timed, vblanks,    \* of the window: presents, and presents by their period
    hitchLines,
    asked,             \* what was asked of the kernel so far
    askedBefore,       \* ... when the counts were last sampled
    askedOwn,          \* ... when the last present returned
    hitch,             \* what the last hitch line says: <<counts, the frame's own>>
    traced,            \* traced_present's own flag "reported"
    frames, lastFrames, sinceTick,
    unsaid,            \* presents with a period since the last interval line
    startupMarks, startupReported

frameVars == <<presenting, presents, timed, vblanks, hitchLines, asked, askedBefore, askedOwn,
               hitch, traced, frames, lastFrames, sinceTick, unsaid, startupMarks, startupReported>>
counters == <<timed, vblanks, hitchLines, askedBefore, askedOwn, hitch, traced, frames, lastFrames,
              sinceTick, unsaid, startupReported>>

Periods == {1, 3, 5, 9}
HitchPeriod == 5                            \* the first of them over 40 ms
Bucket(period) == IF (period + 1) \div 2 > 4 THEN 4 ELSE (period + 1) \div 2
StartupMax == 16
NoHitch == <<0, 0>>

Ask ==
    /\ asked < MaxAsked
    /\ asked' = asked + 1
    /\ UNCHANGED <<presenting, presents, startupMarks, counters>>

StartupMark ==
    /\ ~startupReported /\ startupMarks < StartupMax /\ startupMarks < MaxMarks
    /\ startupMarks' = startupMarks + 1
    /\ UNCHANGED <<presenting, presents, asked, counters>>

PresentEnter ==
    /\ ~presenting /\ presents < MaxPresents
    /\ presenting' = TRUE
    /\ UNCHANGED <<presents, asked, startupMarks, counters>>

IsHitch(period) == period >= HitchPeriod /\ hitchLines < HitchMax

(* Mutated form: the counts are sampled for a hitch alone.                   *)
SampleHitches(period) ==
    IF presents > 0 /\ IsHitch(period)
    THEN askedBefore' = asked /\ hitch' = <<asked - askedBefore, asked - askedOwn>>
    ELSE UNCHANGED <<askedBefore, hitch>>

(* From the second present on: the frame's end becomes the next one's start. *)
Sample(period) ==
    IF presents > 0
    THEN /\ askedBefore' = asked
         /\ hitch' = IF IsHitch(period) THEN <<asked - askedBefore, asked - askedOwn>> ELSE hitch
    ELSE UNCHANGED <<askedBefore, hitch>>

(* What a present adds to the window that the next interval line is about.   *)
TimedNow == IF presents > 0 THEN timed + 1 ELSE timed
VblanksNow(period) == IF presents > 0 THEN [vblanks EXCEPT ![Bucket(period)] = @ + 1] ELSE vblanks
LinesNow(period) == IF presents > 0 /\ IsHitch(period) THEN hitchLines + 1 ELSE hitchLines
UnsaidNow == IF presents > 0 THEN unsaid + 1 ELSE unsaid

(* A present that succeeded after the interval writes the line and starts anew. *)
IntervalLine(ok, period) == ok /\ frames > 0 /\ sinceTick + period >= IntervalTicks

Count(ok, period) ==
    IF IntervalLine(ok, period)
    THEN /\ timed' = 0 /\ vblanks' = [b \in 1 .. 4 |-> 0] /\ hitchLines' = 0 /\ unsaid' = 0
         /\ sinceTick' = 0
         /\ lastFrames' = frames + 1
    ELSE /\ timed' = TimedNow /\ vblanks' = VblanksNow(period)
         /\ hitchLines' = LinesNow(period) /\ unsaid' = UnsaidNow
         /\ sinceTick' = IF ok /\ frames = 0 THEN 0 ELSE Min({sinceTick + period, IntervalTicks})
         /\ lastFrames' = IF ok /\ frames = 0 THEN 1 ELSE lastFrames

PresentReturn(ok, period) ==
    /\ presenting
    /\ presenting' = FALSE
    /\ presents' = presents + 1
    /\ Sample(period)
    /\ askedOwn' = asked
    /\ startupReported' = (startupReported \/ (~traced /\ ok))
    /\ traced' = TRUE
    /\ frames' = IF ok THEN frames + 1 ELSE frames
    /\ Count(ok, period)
    /\ UNCHANGED <<asked, startupMarks>>

FrameInit ==
    /\ presenting = FALSE /\ presents = 0 /\ timed = 0 /\ vblanks = [b \in 1 .. 4 |-> 0] /\ hitchLines = 0
    /\ asked = 0 /\ askedBefore = 0 /\ askedOwn = 0 /\ hitch = NoHitch
    /\ traced = FALSE /\ frames = 0 /\ lastFrames = 0 /\ sinceTick = 0 /\ unsaid = 0
    /\ startupMarks = 0 /\ startupReported = FALSE

FrameNext ==
    \/ Ask \/ StartupMark \/ PresentEnter
    \/ \E ok \in BOOLEAN, period \in Periods : PresentReturn(ok, period)

FrameSpec == FrameInit /\ [][FrameNext]_frameVars

-----------------------------------------------------------------------------
(* The lines are about what they say. The periods of an interval line are those of  *)
(* the presents since the line before, each in one column, whether they succeeded     *)
(* or not; no window has more hitch lines than allowed; and from the third present    *)
(* on a hitch line's counts are those of its own frame.                          *)
TraceTrue ==
    /\ vblanks[1] + vblanks[2] + vblanks[3] + vblanks[4] = unsaid /\ timed = unsaid
    /\ hitchLines <= HitchMax
    /\ presents > 2 => askedBefore = askedOwn
    /\ startupReported => frames > 0

(* "The frame counts are taken every frame so that a hitch's are its own."    *)
HitchIsItsOwn == hitch[1] = hitch[2]
=============================================================================
