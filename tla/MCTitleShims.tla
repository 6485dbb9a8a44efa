----------------------------- MODULE MCTitleShims -----------------------------
(* Instances of what a configuration file cannot write: a folder with records that   *)
(* are free and one that does not parse, and a console with a second display that     *)
(* offers the screen's mode, two planes of which the first is on another display.     *)
EXTENDS TitleShims

MCFolder == <<"live", "free", "live", "live", "bad", "live">>
MCDisplayModes == <<{"other"}, {"other", "screen"}, {"screen"}>>
MCPlaneDisplays == <<1, 3, 2, 0>>
=============================================================================
