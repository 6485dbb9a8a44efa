---------------------------- MODULE TitleDeploy ----------------------------
(***************************************************************************)
(* Publishing a build of the title to the console (tools/deploy-title.py   *)
(* and the FTP helpers of tools/ps5_ftp.py): one file after the other is   *)
(* stored under a second name, renamed, read back and compared.  The       *)
(* connection or the script may end at any step, and the server is what    *)
(* the comments say it is: an upload may leave the previous bytes in place *)
(* and a read may answer with other bytes.                                 *)
(*                                                                         *)
(* A file is the number of the build it is of, and two builds of a file    *)
(* differ.  The staged folder does not change while it is published.       *)
(* Emulator cores and their .info files, which this title does not stage,  *)
(* are left out.                                                           *)
(***************************************************************************)
EXTENDS Integers, Sequences

CONSTANTS
  Others,        (* the staged files but the next two, in order              *)
  Image, Metadata,  (* eboot.bin, sce_sys/param.json                         *)
  Signed,        (* the files the console stores in another container: the
                    image and shared objects                                 *)
  Runtime,       (* sce_module/libc.prx                                      *)
  Carrying,      (* of a shared object and a build: the builds of it that hold
                    the 32 bytes from the middle of that build's             *)
  MaxBuilds      (* bound of the builds                                      *)

(* Mutated form: the image goes first. *)
OrderedImageFirst == <<Image>> \o Others \o <<Metadata>>

Ordered == Others \o <<Image, Metadata>>
File == {Ordered[i] : i \in DOMAIN Ordered}

ASSUME DeployAssumption ==
  /\ Others \in Seq({Others[i] : i \in DOMAIN Others})
  /\ \A i, j \in DOMAIN Ordered : Ordered[i] = Ordered[j] => i = j
  /\ Signed \subseteq File /\ Image \in Signed /\ Metadata \notin Signed
  /\ Runtime \in File \ (Signed \union {Metadata})
  /\ MaxBuilds \in Nat \ {0}
  /\ Carrying \in [Signed \ {Image} -> [1 .. MaxBuilds -> SUBSET (1 .. MaxBuilds)]]

VARIABLES
  built,         (* the build in dist/                                       *)
  stored,        (* what the console holds under each file's name; 0: nothing *)
  upload,        (* what it holds under the name for the upload; -1: part    *)
  was,           (* what it held before the file was removed last            *)
  at,            (* the file being published, 0 outside the script           *)
  step,          (* the next call                                            *)
  uploads,       (* of this file so far                                      *)
  kept,          (* kept_runtime                                             *)
  outcome        (* of the last run of the script                            *)

vars == <<built, stored, upload, was, at, step, uploads, kept, outcome>>
server == <<stored, upload, was>>

f == Ordered[at]
Last == at = Len(Ordered)

Running == at # 0
Call(name) == Running /\ step = name

-----------------------------------------------------------------------------
(* A new build is staged; the first one that is published finds no folder.  *)
Build ==
  /\ ~Running /\ built < MaxBuilds
  /\ built' = built + 1
  /\ outcome' = "none"
  /\ UNCHANGED <<server, at, step, uploads, kept>>

Start ==
  /\ ~Running /\ built > 0
  /\ at' = 1 /\ step' = "clear" /\ uploads' = 0
  /\ kept' = FALSE
  /\ outcome' = "none"
  /\ UNCHANGED <<built, server>>

(* Any call may raise, and nothing catches it. *)
Raise ==
  /\ Running
  /\ at' = 0 /\ step' = "none" /\ uploads' = 0
  /\ outcome' = "failed"
  /\ UNCHANGED <<built, server, kept>>

(* --clean removes what an upload that ended early has left, but not in the  *)
(* folder's own folders.                                                     *)
Clean ==
  /\ ~Running
  /\ upload' = [g \in File |-> IF g \in {Metadata, Runtime} THEN upload[g] ELSE 0]
  /\ UNCHANGED <<built, stored, was, at, step, uploads, kept, outcome>>

(* upload_atomic.                                                           *)
Clear ==
  /\ Call("clear")
  /\ upload' = [upload EXCEPT ![f] = 0]
  /\ step' = "store"
  /\ UNCHANGED <<built, stored, was, at, uploads, kept, outcome>>

Store ==
  /\ Call("store")
  /\ upload' = [upload EXCEPT ![f] = -1]
  /\ step' = "storing"
  /\ UNCHANGED <<built, stored, was, at, uploads, kept, outcome>>

StoreDone ==
  /\ Call("storing")
  /\ upload' = [upload EXCEPT ![f] = built]
  /\ step' = "remove"
  /\ UNCHANGED <<built, stored, was, at, uploads, kept, outcome>>

Remove ==
  /\ Call("remove")
  /\ was' = [was EXCEPT ![f] = IF stored[f] = 0 THEN @ ELSE stored[f]]
  /\ stored' = [stored EXCEPT ![f] = 0]
  /\ step' = "rename"
  /\ UNCHANGED <<built, upload, at, uploads, kept, outcome>>

(* The previous bytes may be what is there afterwards. *)
Rename ==
  /\ Call("rename")
  /\ \E b \in {upload[f], was[f]} : stored' = [stored EXCEPT ![f] = b]
  /\ upload' = [upload EXCEPT ![f] = 0]
  /\ uploads' = uploads + 1
  /\ step' = IF uploads < 2 THEN "digest" ELSE "marker"
  /\ UNCHANGED <<built, was, at, kept, outcome>>

-----------------------------------------------------------------------------
(* What a read answers: the file, or bytes that are not it.                 *)
Reads == {stored[f], 0}

Continue ==
  /\ step' = IF Last THEN "list" ELSE "clear"
  /\ at' = IF Last THEN at ELSE at + 1
  /\ uploads' = 0

Again == step' = "clear" /\ UNCHANGED <<at, uploads>>

(* The digest of a file in another container is not the local one.          *)
DigestSame ==
  /\ Call("digest")
  /\ f \notin Signed /\ built \in Reads
  /\ Continue
  /\ UNCHANGED <<built, server, kept, outcome>>

DigestDiffers ==
  /\ Call("digest")
  /\ uploads = 1
  /\ Again
  /\ UNCHANGED <<built, server, kept, outcome>>

(* Mutated form: any file the console does not replace is let through. *)
KeepsAny == TRUE

Keeps == f = Runtime

DigestDiffersTwice ==
  /\ Call("digest")
  /\ uploads = 2
  /\ IF f \in Signed
     THEN step' = "marker" /\ UNCHANGED <<at, uploads, kept>>
     ELSE Keeps /\ kept' = TRUE /\ Continue
  /\ UNCHANGED <<built, server, outcome>>

(* The builds of a file that the script takes for build b.  The image carries *)
(* one build's identity; of a shared object 32 bytes are looked for, which    *)
(* another build may hold as well; any other file is compared by its digest.  *)
PassesFor(g, b) == IF g \in Signed \ {Image} THEN Carrying[g][b] ELSE {b}

(* Mutated form: what is there after the last upload is not looked at. *)
MarkerAssumed ==
  /\ Call("marker")
  /\ uploads = 3 \/ Reads \intersect PassesFor(f, built) # {}
  /\ Continue
  /\ UNCHANGED <<built, server, kept, outcome>>

MarkerPresent ==
  /\ Call("marker")
  /\ Reads \intersect PassesFor(f, built) # {}
  /\ Continue
  /\ UNCHANGED <<built, server, kept, outcome>>

MarkerMissing ==
  /\ Call("marker")
  /\ uploads = 2
  /\ Again
  /\ UNCHANGED <<built, server, kept, outcome>>

(* Both names are listed, or the script has raised.                         *)
Finish ==
  /\ Call("list")
  /\ stored[Image] # 0 /\ stored[Metadata] # 0
  /\ at' = 0 /\ step' = "none"
  /\ outcome' = IF kept THEN "kept" ELSE "all"
  /\ UNCHANGED <<built, server, uploads, kept>>

-----------------------------------------------------------------------------
Init ==
  /\ built = 0
  /\ stored = [g \in File |-> 0] /\ upload = [g \in File |-> 0]
  /\ was = [g \in File |-> 0]
  /\ at = 0 /\ step = "none" /\ uploads = 0
  /\ kept = FALSE
  /\ outcome = "none"

Next ==
  \/ Build
  \/ Start
  \/ Raise
  \/ Clean
  \/ Clear
  \/ Store
  \/ StoreDone
  \/ Remove
  \/ Rename
  \/ DigestSame
  \/ DigestDiffers
  \/ DigestDiffersTwice
  \/ MarkerPresent
  \/ MarkerMissing
  \/ Finish

Spec == Init /\ [][Next]_vars

-----------------------------------------------------------------------------
TypeOK ==
  /\ built \in 0 .. MaxBuilds
  /\ stored \in [File -> 0 .. MaxBuilds] /\ was \in [File -> 0 .. MaxBuilds]
  /\ upload \in [File -> -1 .. MaxBuilds]
  /\ at \in 0 .. Len(Ordered)
  /\ step \in {"none", "clear", "store", "storing", "remove", "rename", "digest",
               "marker", "list"}
  /\ uploads \in 0 .. 3
  /\ kept \in BOOLEAN
  /\ outcome \in {"none", "failed", "kept", "all"}

(* A run that reports success has published its build: every file the console *)
(* holds is one the script's check takes for it, exactly the staged one but   *)
(* for shared objects, and but for the runtime when that was reported as      *)
(* kept; whatever the runs before have left and however unsteady the reads.   *)
PublishedIsBuilt ==
  outcome \in {"kept", "all"} =>
    \A g \in File :
      stored[g] \in PassesFor(g, built) \/ (g = Runtime /\ outcome = "kept")

DeployInv == TypeOK /\ PublishedIsBuilt

NotOlder(g, c, b) == c >= b \/ c \in PassesFor(g, b)

(* Whenever publishing was interrupted, an image on the console stands beside *)
(* no file of an older build that the script would tell from its own, but     *)
(* beside newer ones, or with some missing.  The runtime, which the console   *)
(* may keep, is excepted; the metadata goes after the image and may be older, *)
(* but is never newer: what the console announces is there.                  *)
ImageIsLast ==
  stored[Image] # 0 =>
    /\ \A g \in File \ {Image, Metadata, Runtime} :
         stored[g] = 0 \/ NotOlder(g, stored[g], stored[Image])
    /\ stored[Metadata] <= stored[Image]

(* deploy-title.py's comment: "a partially published title must never look   *)
(* complete to the loader".  Over an older build the old image and metadata  *)
(* stand while the other files are replaced, and the folder looks complete.  *)
PartialNeverLooksComplete ==
  (\A g \in File : stored[g] # 0) =>
    \A g \in File \ {Runtime} : stored[g] = stored[Image]
=============================================================================
