------------------------------ MODULE PadKeys ------------------------------
(***************************************************************************)
(* The pad as the engine's keys (platform/ps5/ps5_input.c).  IN_Commands   *)
(* compares each key with what the pad says and sends the differences; a   *)
(* press may open a dialog in the engine whose own loop polls the pad and  *)
(* calls IN_Commands again before Key_Event returns.                       *)
(*                                                                         *)
(* What the pad says is PadDevice's report, kept to what a key depends on: *)
(* the keys whose button is down, the keys whose stick direction is past   *)
(* 0.7, and the triggers past their deadzone.                              *)
(***************************************************************************)
EXTENDS Integers, Sequences

CONSTANTS
  Keys,          (* pad_keys: how many entries                               *)
  Directions,    (* the entries a stick stands in for in a menu              *)
  Triggers,      (* the entries read from a trigger                          *)
  FirstRepeat,   (* ticks before a held key repeats in a menu (0.5 s)        *)
  NextRepeat,    (* ticks between repeats (0.1 s)                            *)
  MaxDepth       (* bound of the calls of IN_Commands inside one another     *)

Key == 1 .. Keys
Longest == IF FirstRepeat > NextRepeat THEN FirstRepeat ELSE NextRepeat

ASSUME KeysAssumption ==
  /\ Keys \in Nat \ {0}
  /\ Directions \subseteq Key /\ Triggers \subseteq Key
  /\ Directions \intersect Triggers = {}
  /\ {FirstRepeat, NextRepeat, MaxDepth} \subseteq Nat \ {0}

VARIABLES
  pad,           (* the pad as of the last poll                              *)
  enabled,       (* joy_enable                                               *)
  menu,          (* key_dest # key_game                                      *)
  held,
  left,          (* the ticks until repeat_at, 0 once it has passed          *)
  calls,         (* the IN_Commands and IN_ClearStates calls, innermost last *)
  engine,        (* the keys the engine has been told are down               *)
  since,         (* ticks since the engine was last told so, as far as they
                    matter                                                   *)
  repeated       (* the keys the engine has been sent a repeat of            *)

vars == <<pad, enabled, menu, held, left, calls, engine, since, repeated>>
outside == <<pad, enabled, menu>>
keys == <<held, left>>
seen == <<engine, since, repeated>>

NoPad == [buttons |-> {}, tilts |-> {}, pulls |-> {}]
Pad == [buttons : SUBSET (Key \ Triggers), tilts : SUBSET Directions,
        pulls : SUBSET Triggers]

Depth == Len(calls)
Top == calls[Depth]
WithTop(f) == [calls EXCEPT ![Depth] = f]
Running == Depth > 0 /\ ~Top.inEvent
InEvent == Depth > 0 /\ Top.inEvent

-----------------------------------------------------------------------------
(* What a call makes of the pad: buttons and stick as they were when it     *)
(* began, triggers, menu and joy_enable as they are.                        *)
Down(c, k) ==
  /\ c.commands
  /\ IF k \in Triggers /\ enabled
     THEN k \in pad.pulls
     ELSE \/ k \in c.buttons
          \/ menu /\ k \in c.tilts

(* The same for the pad as of the last poll. *)
Snapshot == IF enabled THEN [buttons |-> pad.buttons, tilts |-> pad.tilts]
            ELSE [buttons |-> {}, tilts |-> {}]

(* The engine calls from its frame, or from inside a press.                  *)
Callable == Depth = 0 \/ (InEvent /\ Depth < MaxDepth /\ Top.down)

CommandsCall ==
  /\ Callable
  /\ calls' = Append(calls,
       [commands |-> TRUE, buttons |-> Snapshot.buttons, tilts |-> Snapshot.tilts,
        at |-> 1, inEvent |-> FALSE, down |-> FALSE])
  /\ UNCHANGED <<outside, keys, seen>>

(* IN_ClearStates, which IN_Shutdown begins with; the engine can shut down in *)
(* the middle of a press, from its menu.                                    *)
ClearCall ==
  /\ Callable
  /\ calls' = Append(calls,
       [commands |-> FALSE, buttons |-> {}, tilts |-> {},
        at |-> 1, inEvent |-> FALSE, down |-> FALSE])
  /\ UNCHANGED <<outside, keys, seen>>

(* Key_Event begins: the engine notes the key before it acts on it.         *)
Tell(k, down) ==
  /\ engine' = IF down THEN engine \union {k} ELSE engine \ {k}
  /\ since' = IF down THEN [since EXCEPT ![k] = 0] ELSE since
  /\ calls' = WithTop([Top EXCEPT !.inEvent = TRUE, !.down = down])

(* Mutated form: a release is not looked for. *)
ChangesDown(k) == Down(Top, k) /\ ~held[k]

Changes(k) == Down(Top, k) # held[k]

(* Mutated form: held and repeat_at are set when Key_Event has returned, so  *)
(* that what runs inside it still sees the old ones.                        *)
TransitionLate ==
  LET k == Top.at IN
  /\ Running /\ k <= Keys /\ Changes(k)
  /\ Tell(k, Down(Top, k))
  /\ repeated' = repeated \ {k}
  /\ UNCHANGED <<outside, keys>>

(* pad_event: the key changed. *)
Transition ==
  LET k == Top.at IN
  /\ Running /\ k <= Keys /\ Changes(k)
  /\ held' = [held EXCEPT ![k] = Down(Top, k)]
  /\ left' = [left EXCEPT ![k] = FirstRepeat]
  /\ Tell(k, Down(Top, k))
  /\ repeated' = repeated \ {k}
  /\ UNCHANGED outside

(* Mutated form: a key repeats in the game as it does in a menu. *)
RepeatsAnywhere(k) == held[k] /\ left[k] = 0

Repeats(k) == held[k] /\ menu /\ left[k] = 0

(* pad_event: the key is held, in a menu, for long enough. *)
Repeat ==
  LET k == Top.at IN
  /\ Running /\ k <= Keys /\ ~Changes(k) /\ Repeats(k)
  /\ left' = [left EXCEPT ![k] = NextRepeat]
  /\ Tell(k, TRUE)
  /\ repeated' = repeated \union {k}
  /\ UNCHANGED <<outside, held>>

Same ==
  LET k == Top.at IN
  /\ Running /\ k <= Keys /\ ~Changes(k) /\ ~Repeats(k)
  /\ calls' = WithTop([Top EXCEPT !.at = k + 1])
  /\ UNCHANGED <<outside, keys, seen>>

EventReturn ==
  /\ InEvent
  /\ calls' = WithTop([Top EXCEPT !.at = @ + 1, !.inEvent = FALSE])
  /\ UNCHANGED <<outside, keys, seen>>

CallReturn ==
  /\ Running /\ Top.at > Keys
  /\ calls' = SubSeq(calls, 1, Depth - 1)
  /\ UNCHANGED <<outside, keys, seen>>

-----------------------------------------------------------------------------
(* The engine, the player and the clock, between calls or inside Key_Event. *)

Elsewhere == Depth = 0 \/ InEvent

Poll ==
  /\ Elsewhere
  /\ pad' \in Pad
  /\ UNCHANGED <<enabled, menu, keys, calls, seen>>

SetMenu ==
  /\ Elsewhere
  /\ menu' = ~menu
  /\ UNCHANGED <<pad, enabled, keys, calls, seen>>

SetEnabled ==
  /\ Elsewhere
  /\ enabled' = ~enabled
  /\ UNCHANGED <<pad, menu, keys, calls, seen>>

Tick ==
  /\ Elsewhere
  /\ left' = [k \in Key |-> IF left[k] = 0 THEN 0 ELSE left[k] - 1]
  /\ since' = [k \in Key |-> IF since[k] = Longest THEN Longest ELSE since[k] + 1]
  /\ UNCHANGED <<outside, held, calls, engine, repeated>>

Init ==
  /\ pad = NoPad /\ enabled = TRUE /\ menu \in BOOLEAN
  /\ held = [k \in Key |-> FALSE] /\ left = [k \in Key |-> 0]
  /\ calls = <<>>
  /\ engine = {} /\ since = [k \in Key |-> 0] /\ repeated = {}

Continue == Transition \/ Repeat \/ Same \/ EventReturn \/ CallReturn

Next ==
  \/ CommandsCall
  \/ ClearCall
  \/ Continue
  \/ Poll
  \/ SetMenu
  \/ SetEnabled
  \/ Tick

Spec == Init /\ [][Next]_vars

(* The engine's frame calls IN_Commands again and again, whatever it calls   *)
(* in between, and every call goes on.                                       *)
FairSpec == Spec /\ SF_vars(CommandsCall /\ Depth = 0) /\ WF_vars(Continue)

-----------------------------------------------------------------------------
TypeOK ==
  /\ pad \in Pad /\ enabled \in BOOLEAN /\ menu \in BOOLEAN
  /\ held \in [Key -> BOOLEAN]
  /\ left \in [Key -> 0 .. Longest] /\ since \in [Key -> 0 .. Longest]
  /\ engine \subseteq Key /\ repeated \subseteq Key
  /\ Depth <= MaxDepth
  /\ \A i \in 1 .. Depth :
       /\ calls[i].at \in 1 .. Keys + 1
       /\ i < Depth => calls[i].inEvent

(* The engine's keys and the adapter's are the same at every moment, inside  *)
(* a dialog a press opened as well: no press is sent twice, no release of a  *)
(* key that is not down.                                                     *)
EngineAgrees == engine = {k \in Key : held[k]}
KeysAgree == TypeOK /\ EngineAgrees

(* When IN_ClearStates returns no key is down, inside a press as well.       *)
ClearReleasesAll ==
  [][Running /\ ~Top.commands /\ Depth' < Depth => engine' = {}]_vars

(* The engine sees a key go down again without a release only in a menu, and *)
(* only when the repeat delays have passed, however often the keys are       *)
(* compared and by how deep a call.                                          *)
RepeatsAreSpaced ==
  [][\A k \in Key :
       (k \in engine /\ calls' # calls /\ Depth' = Depth /\ ~Top.inEvent
          /\ calls'[Depth].inEvent /\ calls'[Depth].down /\ Top.at = k) =>
         /\ menu
         /\ since[k] >= IF k \in repeated THEN NextRepeat ELSE FirstRepeat]_vars

(* The key is down as the pad was polled last.                              *)
Wanted(k) == /\ enabled
             /\ \/ k \in pad.buttons \/ k \in pad.pulls
                \/ menu /\ k \in pad.tilts

(* A release is sent only of a key that is up, as the pad was polled last,   *)
(* also when a dialog has polled it meanwhile: the comment at l.47.  The code *)
(* goes on with the buttons and the stick it read before the dialog.         *)
ReleasesAreReal ==
  [][\A k \in Key : (k \in engine \ engine' /\ Top.commands) => ~Wanted(k)]_vars

(* A key the player has let go of for good, or the pad that went has, or that   *)
(* was down when the adapter was turned off or the menu closed over the stick,   *)
(* does not stay down; and one held for good reaches the engine, whatever was     *)
(* sent from old snapshots before.                                           *)
Pressed(k) == k \in pad.buttons \union pad.pulls
NoKeySticks == \A k \in Key :
  (\/ <>[]~enabled
   \/ <>[](~Pressed(k) /\ k \notin pad.tilts)
   \/ <>[](~Pressed(k) /\ ~menu))
  => <>[](Depth = 0 => k \notin engine)
HeldKeysArrive == \A k \in Key :
  (<>[](enabled /\ Pressed(k)) /\ []<>(Depth = 0)) => []<>(k \in engine)
KeysFollow == NoKeySticks /\ HeldKeysArrive
=============================================================================
