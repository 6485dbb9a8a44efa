----------------------------- MODULE PadDevice -----------------------------
(***************************************************************************)
(* The native pad (src/input_ps5.cpp): opening and closing it with the     *)
(* user service, and reading batches of samples into a buffer of which only *)
(* the front is current.  One thread calls it.                             *)
(*                                                                         *)
(* A stick or trigger is abstracted to a flag of the sample, axis.         *)
(***************************************************************************)
EXTENDS Integers, Sequences

CONSTANTS
  Button,
  Time,          (* timestamps; the pad's clock may start again              *)
  Capacity,      (* sample_capacity (64)                                     *)
  Attempts       (* pad_open_attempts (10)                                   *)

ASSUME PadAssumption ==
  /\ Time \subseteq Nat /\ 0 \in Time
  /\ Capacity \in Nat \ {0} /\ Attempts \in Nat \ {0}

Sample == [time : Time, buttons : SUBSET Button, axis : BOOLEAN,
           connected : BOOLEAN, intercepted : BOOLEAN]
NoSample == [time |-> 0, buttons |-> {}, axis |-> FALSE,
             connected |-> FALSE, intercepted |-> FALSE]

VARIABLES
  state,         (* active_pad                                               *)
  opening,       (* attempts made so far, or -1 outside ps5_pad_open         *)
  service,       (* the user service is initialised: "no", "ours", "theirs"  *)
  handle,        (* a pad handle is open                                     *)
  report         (* what the service said last that was news                 *)

deviceVars == <<state, opening, service, handle, report>>

NoState == [exists |-> FALSE]
NewState == [exists |-> TRUE, handle |-> FALSE, owns |-> FALSE,
             samples |-> [i \in 1 .. Capacity |-> NoSample], count |-> 0,
             buttons |-> {}]

(* Nothing is held: no pad, an error, or a sample that may not be acted on. *)
Nothing == [buttons |-> {}, axis |-> FALSE]

Usable(s) == s.connected /\ ~s.intercepted

(* Mutated form: every entry of the buffer is looked at. *)
CurrentAll(st) == 1 .. Capacity

Current(st) == 1 .. st.count

(* The first of the current samples with the greatest timestamp.            *)
Newest(st) ==
  CHOOSE i \in Current(st) : \A j \in Current(st) :
    \/ st.samples[j].time < st.samples[i].time
    \/ st.samples[j].time = st.samples[i].time /\ i <= j

(* newest_sample: what there is to act on, if anything. *)
HasNewest(st) == Current(st) # {} /\ Usable(st.samples[Newest(st)])

-----------------------------------------------------------------------------
(* ps5_pad_buttons and ps5_pad_axis.                                        *)

Buttons == IF state.exists THEN state.buttons ELSE {}
Axis == state.exists /\ HasNewest(state) /\ state.samples[Newest(state)].axis

-----------------------------------------------------------------------------
(* ps5_pad_open: a state that could not open its pad stays, and is not      *)
(* opened again.                                                            *)

OpenBegin ==
  /\ opening = -1 /\ ~state.exists
  /\ \E owns \in BOOLEAN, goesOn \in BOOLEAN :
       /\ owns => service = "no"
       /\ service' = IF owns THEN "ours" ELSE service
       /\ state' = [NewState EXCEPT !.owns = owns]
       /\ opening' = IF goesOn THEN 0 ELSE -1
  /\ UNCHANGED <<handle, report>>

OpenAttempt ==
  /\ opening >= 0
  /\ \/ /\ state' = [state EXCEPT !.handle = TRUE]
        /\ handle' = TRUE
        /\ opening' = -1
     \/ /\ opening' = IF opening + 1 = Attempts THEN -1 ELSE opening + 1
        /\ UNCHANGED <<state, handle>>
  /\ UNCHANGED <<service, report>>

(* scePadRead fails or reports more samples than there is room for.         *)
PollRefused ==
  /\ opening = -1 /\ state.exists /\ state.handle
  /\ state' = [state EXCEPT !.count = 0, !.buttons = {}]
  /\ report' = Nothing
  /\ UNCHANGED <<opening, service, handle>>

(* A batch of samples replaces the front of the buffer.                     *)
ReadPad(batch) ==
  LET filled == [state EXCEPT
                   !.samples = [i \in 1 .. Capacity |->
                                  IF i <= Len(batch) THEN batch[i] ELSE @[i]],
                   !.count = Len(batch)]
      newest == filled.samples[Newest(filled)]
  IN
  /\ opening = -1 /\ state.exists /\ state.handle
  /\ Len(batch) > 0
  /\ state' = [filled EXCEPT !.buttons = IF HasNewest(filled) THEN newest.buttons ELSE {}]
  /\ UNCHANGED <<opening, service, handle>>

(* Mutated form: without a handle there is nothing to close. *)
CloseHandleOnly ==
  /\ opening = -1 /\ state.exists
  /\ handle' = (handle /\ ~state.handle)
  /\ service' = IF state.owns /\ state.handle THEN "no" ELSE service
  /\ state' = NoState
  /\ report' = Nothing
  /\ UNCHANGED opening

Close ==
  /\ opening = -1 /\ state.exists
  /\ handle' = (handle /\ ~state.handle)
  /\ service' = IF state.owns THEN "no" ELSE service
  /\ state' = NoState
  /\ report' = Nothing
  /\ UNCHANGED opening

-----------------------------------------------------------------------------
(* What the batch says to a reader who sorts it by time: the samples that   *)
(* are as new as any, and of those the first.                               *)
LatestOf(batch) ==
  LET latest == {i \in DOMAIN batch : \A j \in DOMAIN batch : batch[j].time <= batch[i].time}
      first == CHOOSE i \in latest : \A j \in latest : i <= j
  IN  IF Usable(batch[first])
      THEN [buttons |-> batch[first].buttons, axis |-> batch[first].axis]
      ELSE Nothing

PollNews == \E n \in 1 .. Capacity : \E batch \in [1 .. n -> Sample] :
              ReadPad(batch) /\ report' = LatestOf(batch)

DeviceInit ==
  /\ state = NoState
  /\ opening = -1
  /\ service \in {"no", "theirs"}
  /\ handle = FALSE
  /\ report = Nothing

DeviceNext == OpenBegin \/ OpenAttempt \/ PollRefused \/ PollNews \/ Close

DeviceSpec == DeviceInit /\ [][DeviceNext]_deviceVars

-----------------------------------------------------------------------------
DeviceTypeOK ==
  /\ state.exists =>
       /\ state.samples \in [1 .. Capacity -> Sample]
       /\ state.count \in 0 .. Capacity
       /\ state.buttons \subseteq Button
  /\ opening \in -1 .. Attempts - 1
  /\ service \in {"no", "ours", "theirs"}
  /\ handle \in BOOLEAN

(* Buttons and axes, which are read separately and at different times, both  *)
(* say what the last news from the pad said: samples of an earlier batch and *)
(* the last state before an error or a disconnection never show through.     *)
ReportsLastNews == Buttons = report.buttons /\ Axis = report.axis

(* A pad handle and the user service last as long as the state that began    *)
(* them, whichever step of the opening failed, and a service someone else    *)
(* began is still there afterwards.                                          *)
HandleAndService ==
  /\ handle <=> state.exists /\ state.handle
  /\ service = "ours" <=> state.exists /\ state.owns

ServiceIsReturned ==
  [](DeviceTypeOK /\ HandleAndService) /\ [][service = "theirs" => service' = "theirs"]_deviceVars
=============================================================================
