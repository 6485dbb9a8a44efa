--------------------------- MODULE MCTitleDeploy ---------------------------
(* An instance of TitleDeploy for TLC: a library, the runtime, the image and  *)
(* the metadata.  Files compared by their digest alone are there with the     *)
(* last.                                                                    *)
EXTENDS TitleDeploy

CONSTANTS eboot, param, libc, library

MCOthers == <<library, libc>>
MCSigned == {eboot, library}

(* The third library is the first one's again where the 32 bytes are. *)
MCCarrying == [g \in {library} |-> <<{1, 3}, {2}, {1, 3}>>]
=============================================================================
