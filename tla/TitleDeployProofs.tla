-------------------------- MODULE TitleDeployProofs --------------------------
(***************************************************************************)
(* What a published title holds, for any number of staged files, in any    *)
(* order before the image, any number of builds, and whichever of a shared *)
(* object's builds hold the 32 bytes that are looked for.                  *)
(***************************************************************************)
EXTENDS TitleDeploy, SequenceTheorems, TLAPS

(* The files that are neither the image, nor after it, nor left to the console. *)
Plain == File \ {Image, Metadata, Runtime}

(* Where a run of the script stands. *)
RunByStep ==
  /\ Running <=> step # "none"
  /\ Running => built > 0 /\ outcome = "none"
  /\ step = "list" => Last
  /\ step \in {"clear", "store", "storing", "remove", "rename"} => uploads <= 2
  /\ step \in {"remove", "rename"} => upload[f] = built
  /\ step = "rename" => stored[f] = 0

NothingIsNewer == \A g \in File : stored[g] <= built /\ was[g] <= built

(* A file a run has been through was taken for its build, or left. *)
Taken(g) == stored[g] \in PassesFor(g, built) \/ (g = Runtime /\ kept)

DoneSoFar ==
  Running => \A i \in 1 .. Len(Ordered) : i < at \/ step = "list" => Taken(Ordered[i])

(* The image that is there, or that may come back. *)
Standing == IF stored[Image] # 0 THEN stored[Image] ELSE was[Image]

(* What is there is not older than that image, nor is what may come back; the *)
(* metadata is not newer.                                                    *)
NoneComesBackOlder ==
  /\ \A g \in Plain :
       /\ stored[g] = 0 \/ NotOlder(g, stored[g], Standing)
       /\ stored[g] = 0 => was[g] = 0 \/ NotOlder(g, was[g], Standing)
  /\ stored[Metadata] <= Standing /\ was[Metadata] <= Standing

IInv == /\ TypeOK /\ RunByStep /\ NothingIsNewer /\ DoneSoFar
        /\ PublishedIsBuilt /\ NoneComesBackOlder
-----------------------------------------------------------------------------
(* The order of publishing: each file once, the image and the metadata last.  *)
LEMMA OrderIs ==
  \E m \in Nat :
    /\ DOMAIN Ordered = 1 .. m + 2 /\ Len(Ordered) = m + 2
    /\ Ordered[m + 1] = Image /\ Ordered[m + 2] = Metadata
<1> DEFINE S == {Others[i] : i \in DOMAIN Others}
           T == S \union {Image, Metadata}
<1>1. Others \in Seq(T) /\ <<Image, Metadata>> \in Seq(T) /\ Len(Others) \in Nat
  <2>1. Others \in Seq(S)
    BY DeployAssumption DEF DeployAssumption
  <2> HIDE DEF S
  <2>2. Image \in T /\ Metadata \in T /\ S \subseteq T
    OBVIOUS
  <2> HIDE DEF T
  <2>3. QED
    BY <2>1, <2>2
<1> HIDE DEF T
<1>2. Ordered \in Seq(T) /\ Len(Ordered) = Len(Others) + 2
  <2>1. Len(<<Image, Metadata>>) = 2
    OBVIOUS
  <2>2. QED
    BY <1>1, <2>1, ConcatProperties DEF Ordered
<1>3. Ordered[Len(Others) + 1] = Image /\ Ordered[Len(Others) + 2] = Metadata
  BY <1>1 DEF Ordered
<1>4. DOMAIN Ordered = 1 .. Len(Others) + 2
  BY <1>1, <1>2
<1>5. QED
  BY <1>1, <1>2, <1>3, <1>4

(* The files staged are those in the order, with the three special ones      *)
(* among them.                                                               *)
LEMMA FileIs ==
  /\ \A i \in DOMAIN Ordered : Ordered[i] \in File
  /\ \A g \in File : \E i \in DOMAIN Ordered : g = Ordered[i]
  /\ Image \in File /\ Metadata \in File /\ Runtime \in File /\ MaxBuilds \in Nat
  /\ Len(Ordered) \in Nat /\ Len(Ordered) > 0 /\ DOMAIN Ordered = 1 .. Len(Ordered)
BY OrderIs, DeployAssumption DEF File, DeployAssumption

(* When it is the image's turn, all that may not be older is behind it.       *)
LEMMA ImageIsAfter ==
  ASSUME NEW j \in DOMAIN Ordered, Ordered[j] = Image, NEW g \in Plain
  PROVE  \E i \in DOMAIN Ordered : i < j /\ Ordered[i] = g
<1>1. PICK m \in Nat : DOMAIN Ordered = 1 .. m + 2 /\ Ordered[m + 1] = Image /\ Ordered[m + 2] = Metadata
  BY OrderIs
<1>2. j = m + 1
  BY <1>1, DeployAssumption DEF DeployAssumption
<1>3. PICK i \in DOMAIN Ordered : Ordered[i] = g
  BY FileIs DEF Plain
<1>4. i # m + 1 /\ i # m + 2
  BY <1>1, <1>3 DEF Plain
<1>5. QED
  BY <1>1, <1>2, <1>3, <1>4

(* When it is the metadata's turn, the image is behind it.                    *)
LEMMA MetadataIsAfter ==
  ASSUME NEW j \in DOMAIN Ordered, Ordered[j] = Metadata
  PROVE  \E i \in DOMAIN Ordered : i < j /\ Ordered[i] = Image
<1>1. PICK m \in Nat : DOMAIN Ordered = 1 .. m + 2 /\ Ordered[m + 1] = Image /\ Ordered[m + 2] = Metadata
  BY OrderIs
<1>2. j = m + 2
  BY <1>1, DeployAssumption DEF DeployAssumption
<1>3. QED
  BY <1>1, <1>2

(* The file a run is at. *)
LEMMA AtIs ==
  ASSUME TypeOK, Running
  PROVE  at \in 1 .. Len(Ordered) /\ f \in File /\ (Last <=> at = Len(Ordered))
<1>1. at \in 1 .. Len(Ordered)
  BY FileIs DEF TypeOK, Running
<1>2. QED
  BY <1>1, FileIs DEF f, Last

(* What the script takes for a build is a build, and but for shared objects   *)
(* that very one.                                                            *)
LEMMA PassingIs ==
  ASSUME NEW g \in File, NEW b \in 1 .. MaxBuilds
  PROVE  /\ \A c \in PassesFor(g, b) : c \in 1 .. MaxBuilds
         /\ g \notin Signed \/ g = Image => \A c : c \in PassesFor(g, b) <=> c = b
<1>1. CASE g \in Signed \ {Image}
  <2>1. Carrying[g] \in [1 .. MaxBuilds -> SUBSET (1 .. MaxBuilds)]
    BY <1>1, DeployAssumption DEF DeployAssumption
  <2>2. Carrying[g][b] \in SUBSET (1 .. MaxBuilds)
    BY <2>1
  <2>3. QED
    BY <1>1, <2>2 DEF PassesFor
<1>2. CASE g \notin Signed \ {Image}
  BY <1>2 DEF PassesFor
<1>3. QED
  BY <1>1, <1>2

(* A file the script has compared and gone on from was taken for its build.   *)
LEMMA ComparedIsTaken ==
  ASSUME TypeOK, RunByStep, DigestSame \/ MarkerPresent
  PROVE  stored[f] \in PassesFor(f, built)
<1>1. Running /\ built \in 1 .. MaxBuilds /\ f \in File
  <2>1. Running
    BY DEF DigestSame, MarkerPresent, Call
  <2>2. f \in File
    BY <2>1, AtIs
  <2>3. built \in 1 .. MaxBuilds
    BY <2>1, FileIs DEF TypeOK, RunByStep
  <2>4. QED
    BY <2>1, <2>2, <2>3
<1>2. CASE DigestSame
  <2>1. built = stored[f] /\ f \notin Signed
    BY <1>1, <1>2 DEF DigestSame, Reads
  <2>2. QED
    BY <1>1, <2>1, PassingIs
<1>3. CASE MarkerPresent
  <2>1. PICK c \in PassesFor(f, built) : c = stored[f] \/ c = 0
    BY <1>3 DEF MarkerPresent, Reads
  <2>2. c # 0
    BY <1>1, <2>1, PassingIs
  <2>3. QED
    BY <2>1, <2>2
<1>4. QED
  BY <1>2, <1>3

-----------------------------------------------------------------------------
(* Every variable keeps its type. *)
LEMMA TypeStep == IInv /\ [Next]_vars => TypeOK'
<1> SUFFICES ASSUME IInv, [Next]_vars PROVE TypeOK'
  OBVIOUS
<1> USE DEF IInv, TypeOK, RunByStep, Running, Call, server
<1> HIDE DEF f, Last
<1>0. Running => at \in 1 .. Len(Ordered) /\ f \in File /\ (Last <=> at = Len(Ordered))
  BY AtIs
<1> Len(Ordered) \in Nat /\ Len(Ordered) > 0 /\ MaxBuilds \in Nat
  BY FileIs
<1>1. CASE Build
  BY <1>0, <1>1 DEF Build
<1>2. CASE Start
  <2>1. kept' \in BOOLEAN
    BY <1>2, Zenon DEF Start
  <2>2. QED
    BY <1>2, <2>1 DEF Start
<1>3. CASE Raise
  BY <1>0, <1>3 DEF Raise
<1>4. CASE Clean
  BY <1>0, <1>4 DEF Clean
<1>5. CASE Clear
  BY <1>0, <1>5 DEF Clear
<1>6. CASE Store
  BY <1>0, <1>6 DEF Store
<1>7. CASE StoreDone
  BY <1>0, <1>7 DEF StoreDone
<1>8. CASE Remove
  BY <1>0, <1>8 DEF Remove
<1>9. CASE Rename
  BY <1>0, <1>9 DEF Rename
<1>10. CASE DigestSame
  BY <1>0, <1>10 DEF DigestSame, Continue, Reads, Keeps
<1>11. CASE DigestDiffers
  BY <1>0, <1>11 DEF DigestDiffers, Again
<1>12. CASE DigestDiffersTwice
  <2>1. kept' \in BOOLEAN
    BY <1>12, Zenon DEF DigestDiffersTwice
  <2>2. QED
    BY <1>0, <1>12, <2>1 DEF DigestDiffersTwice, Continue
<1>13. CASE MarkerPresent
  BY <1>0, <1>13 DEF MarkerPresent, Continue, Reads
<1>14. CASE MarkerMissing
  BY <1>0, <1>14 DEF MarkerMissing, Again
<1>15. CASE Finish
  BY <1>0, <1>15 DEF Finish
<1>16. CASE UNCHANGED vars
  BY <1>16 DEF vars, f, Last
<1>17. QED
  BY <1>1, <1>2, <1>3, <1>4, <1>5, <1>6, <1>7, <1>8, <1>9, <1>10, <1>11, <1>12, <1>13, <1>14, <1>15, <1>16 DEF Next

(* The steps of a run follow one another. *)
LEMMA StepsStep == IInv /\ [Next]_vars => RunByStep'
<1> SUFFICES ASSUME IInv, [Next]_vars PROVE RunByStep'
  OBVIOUS
<1> USE DEF IInv, TypeOK, RunByStep, Running, Call, server
<1> HIDE DEF f, Last
<1>0. Running => at \in 1 .. Len(Ordered) /\ f \in File /\ (Last <=> at = Len(Ordered))
  BY AtIs
<1> Len(Ordered) \in Nat /\ Len(Ordered) > 0 /\ MaxBuilds \in Nat
  BY FileIs
<1>1. CASE Build
  BY <1>0, <1>1 DEF Build
<1>2. CASE Start
  BY <1>0, <1>2 DEF Start
<1>3. CASE Raise
  BY <1>0, <1>3 DEF Raise
<1>4. CASE Clean
  BY <1>0, <1>4 DEF Clean
<1>5. CASE Clear
  BY <1>0, <1>5 DEF Clear, f, Last
<1>6. CASE Store
  BY <1>0, <1>6 DEF Store, f, Last
<1>7. CASE StoreDone
  BY <1>0, <1>7 DEF StoreDone, f, Last
<1>8. CASE Remove
  BY <1>0, <1>8 DEF Remove, f, Last
<1>9. CASE Rename
  BY <1>0, <1>9 DEF Rename, f, Last
<1>10. CASE DigestSame
  BY <1>0, <1>10 DEF DigestSame, Continue, Reads, Keeps, Last
<1>11. CASE DigestDiffers
  BY <1>0, <1>11 DEF DigestDiffers, f, Last, Again
<1>12. CASE DigestDiffersTwice
  BY <1>0, <1>12 DEF DigestDiffersTwice, Continue, Keeps, Last
<1>13. CASE MarkerPresent
  BY <1>0, <1>13 DEF MarkerPresent, Continue, Reads, Last
<1>14. CASE MarkerMissing
  BY <1>0, <1>14 DEF MarkerMissing, f, Last, Again
<1>15. CASE Finish
  BY <1>0, <1>15 DEF Finish
<1>16. CASE UNCHANGED vars
  BY <1>16 DEF vars, f, Last
<1>17. QED
  BY <1>1, <1>2, <1>3, <1>4, <1>5, <1>6, <1>7, <1>8, <1>9, <1>10, <1>11, <1>12, <1>13, <1>14, <1>15, <1>16 DEF Next

(* Nothing on the console is of a later build than the staged folder. *)
LEMMA NewerStep == IInv /\ [Next]_vars => NothingIsNewer'
<1> SUFFICES ASSUME IInv, [Next]_vars PROVE NothingIsNewer'
  OBVIOUS
<1> USE DEF IInv, TypeOK, RunByStep, NothingIsNewer, Running, Call, server
<1> HIDE DEF f, Last
<1>0. Running => at \in 1 .. Len(Ordered) /\ f \in File /\ (Last <=> at = Len(Ordered))
  BY AtIs
<1> Len(Ordered) \in Nat /\ Len(Ordered) > 0 /\ MaxBuilds \in Nat
  BY FileIs
<1>1. CASE Build
  BY <1>0, <1>1 DEF Build
<1>2. CASE Start
  BY <1>0, <1>2 DEF Start
<1>3. CASE Raise
  BY <1>0, <1>3 DEF Raise
<1>4. CASE Clean
  BY <1>0, <1>4 DEF Clean
<1>5. CASE Clear
  BY <1>0, <1>5 DEF Clear
<1>6. CASE Store
  BY <1>0, <1>6 DEF Store
<1>7. CASE StoreDone
  BY <1>0, <1>7 DEF StoreDone
<1>8. CASE Remove
  BY <1>0, <1>8 DEF Remove
<1>9. CASE Rename
  BY <1>0, <1>9 DEF Rename
<1>10. CASE DigestSame
  BY <1>0, <1>10 DEF DigestSame, Continue, Reads, Keeps
<1>11. CASE DigestDiffers
  BY <1>0, <1>11 DEF DigestDiffers, Again
<1>12. CASE DigestDiffersTwice
  BY <1>0, <1>12 DEF DigestDiffersTwice, Continue, Keeps
<1>13. CASE MarkerPresent
  BY <1>0, <1>13 DEF MarkerPresent, Continue, Reads
<1>14. CASE MarkerMissing
  BY <1>0, <1>14 DEF MarkerMissing, Again
<1>15. CASE Finish
  BY <1>0, <1>15 DEF Finish
<1>16. CASE UNCHANGED vars
  BY <1>16 DEF vars, f, Last
<1>17. QED
  BY <1>1, <1>2, <1>3, <1>4, <1>5, <1>6, <1>7, <1>8, <1>9, <1>10, <1>11, <1>12, <1>13, <1>14, <1>15, <1>16 DEF Next

(* What a run has been through is of its build: it is only left when it was    *)
(* read back, or is the runtime.                                             *)
LEMMA DoneStep == IInv /\ [Next]_vars => DoneSoFar'
<1> SUFFICES ASSUME IInv, [Next]_vars PROVE DoneSoFar'
  OBVIOUS
<1> USE DEF IInv, TypeOK, RunByStep, DoneSoFar, Taken, Running, Call, server
<1> HIDE DEF f, Last, PassesFor
<1>0. Running => at \in 1 .. Len(Ordered) /\ f \in File /\ (Last <=> at = Len(Ordered))
  BY AtIs
<1> Len(Ordered) \in Nat /\ Len(Ordered) > 0 /\ MaxBuilds \in Nat
  BY FileIs
<1>before. \A i \in 1 .. Len(Ordered) : i < at => Ordered[i] # f
  <2>1. SUFFICES ASSUME NEW i \in 1 .. Len(Ordered), i < at, Ordered[i] = f PROVE FALSE
    OBVIOUS
  <2>2. Running
    BY <2>1
  <2>3. i \in DOMAIN Ordered /\ at \in DOMAIN Ordered /\ Ordered[i] = Ordered[at]
    <3>1. DOMAIN Ordered = 1 .. Len(Ordered)
      BY FileIs
    <3>2. QED
      BY <1>0, <2>1, <2>2, <3>1 DEF f
  <2>4. QED
    BY <2>1, <2>3, DeployAssumption DEF DeployAssumption
<1>1. CASE Build
  BY <1>0, <1>1 DEF Build
<1>2. CASE Start
  BY <1>0, <1>2 DEF Start
<1>3. CASE Raise
  BY <1>0, <1>3 DEF Raise
<1>4. CASE Clean
  BY <1>0, <1>4 DEF Clean
<1>5. CASE Clear
  BY <1>0, <1>5 DEF Clear
<1>6. CASE Store
  BY <1>0, <1>6 DEF Store
<1>7. CASE StoreDone
  BY <1>0, <1>7 DEF StoreDone
<1>8. CASE Remove
  <2>1. \A i \in 1 .. Len(Ordered) : i < at => stored'[Ordered[i]] = stored[Ordered[i]]
    BY <1>0, <1>before, <1>8, FileIs DEF Remove
  <2>2. QED
    BY <1>8, <2>1 DEF Remove
<1>9. CASE Rename
  <2>1. \A i \in 1 .. Len(Ordered) : i < at => stored'[Ordered[i]] = stored[Ordered[i]]
    BY <1>0, <1>before, <1>9, FileIs DEF Rename
  <2>2. step' # "list"
    BY <1>9 DEF Rename
  <2>3. QED
    BY <1>9, <2>1, <2>2 DEF Rename
<1>10. CASE DigestSame
  <2>1. stored[f] \in PassesFor(f, built) \/ (f = Runtime /\ kept')
    BY <1>10, ComparedIsTaken
  <2>2. f = Ordered[at] /\ stored' = stored /\ built' = built /\ (kept => kept') /\ Continue
        /\ at \in 1 .. Len(Ordered) /\ step # "list" /\ Running
    BY <1>0, <1>10 DEF DigestSame, f
  <2>3. \A i \in 1 .. Len(Ordered) : i <= at => stored[Ordered[i]] \in PassesFor(Ordered[i], built) \/ (Ordered[i] = Runtime /\ kept')
    BY <2>1, <2>2
  <2>4. \A i \in 1 .. Len(Ordered) : i < at' \/ step' = "list" => i <= at
    BY <1>0, <2>2 DEF Continue
  <2>5. QED
    BY <2>2, <2>3, <2>4
<1>11. CASE DigestDiffers
  BY <1>0, <1>11 DEF DigestDiffers, Again
<1>12. CASE DigestDiffersTwice
  <2>1. CASE f \in Signed
    BY <1>12, <2>1 DEF DigestDiffersTwice
  <2>2. CASE f \notin Signed
    <3>1. stored[f] \in PassesFor(f, built) \/ (f = Runtime /\ kept')
      BY <1>0, <1>12, <2>2 DEF DigestDiffersTwice, Keeps
    <3>2. f = Ordered[at] /\ stored' = stored /\ built' = built /\ (kept => kept') /\ Continue
          /\ at \in 1 .. Len(Ordered) /\ step # "list" /\ Running
      BY <1>0, <1>12, <2>2 DEF DigestDiffersTwice, Keeps, f
    <3>3. \A i \in 1 .. Len(Ordered) : i <= at => stored[Ordered[i]] \in PassesFor(Ordered[i], built) \/ (Ordered[i] = Runtime /\ kept')
      BY <3>1, <3>2
    <3>4. \A i \in 1 .. Len(Ordered) : i < at' \/ step' = "list" => i <= at
      BY <1>0, <3>2 DEF Continue
    <3>5. QED
      BY <3>2, <3>3, <3>4
  <2>3. QED
    BY <2>1, <2>2
<1>13. CASE MarkerPresent
  <2>1. stored[f] \in PassesFor(f, built) \/ (f = Runtime /\ kept')
    BY <1>13, ComparedIsTaken
  <2>2. f = Ordered[at] /\ stored' = stored /\ built' = built /\ (kept => kept') /\ Continue
        /\ at \in 1 .. Len(Ordered) /\ step # "list" /\ Running
    BY <1>0, <1>13 DEF MarkerPresent, f
  <2>3. \A i \in 1 .. Len(Ordered) : i <= at => stored[Ordered[i]] \in PassesFor(Ordered[i], built) \/ (Ordered[i] = Runtime /\ kept')
    BY <2>1, <2>2
  <2>4. \A i \in 1 .. Len(Ordered) : i < at' \/ step' = "list" => i <= at
    BY <1>0, <2>2 DEF Continue
  <2>5. QED
    BY <2>2, <2>3, <2>4
<1>14. CASE MarkerMissing
  BY <1>0, <1>14 DEF MarkerMissing, Again
<1>15. CASE Finish
  BY <1>0, <1>15 DEF Finish
<1>16. CASE UNCHANGED vars
  BY <1>16 DEF vars, f, Last
<1>17. QED
  BY <1>1, <1>2, <1>3, <1>4, <1>5, <1>6, <1>7, <1>8, <1>9, <1>10, <1>11, <1>12, <1>13, <1>14, <1>15, <1>16 DEF Next

(* Success is reported when the run has been through every file. *)
LEMMA PublishedStep == IInv /\ [Next]_vars => PublishedIsBuilt'
<1> SUFFICES ASSUME IInv, [Next]_vars PROVE PublishedIsBuilt'
  OBVIOUS
<1> USE DEF IInv, TypeOK, RunByStep, PublishedIsBuilt, Running, Call, server
<1> HIDE DEF f, Last, PassesFor
<1>0. Running => at \in 1 .. Len(Ordered) /\ f \in File /\ (Last <=> at = Len(Ordered))
  BY AtIs
<1> Len(Ordered) \in Nat /\ Len(Ordered) > 0 /\ MaxBuilds \in Nat
  BY FileIs
<1>1. CASE Build
  BY <1>0, <1>1 DEF Build
<1>2. CASE Start
  BY <1>0, <1>2 DEF Start
<1>3. CASE Raise
  BY <1>0, <1>3 DEF Raise
<1>4. CASE Clean
  BY <1>0, <1>4 DEF Clean
<1>5. CASE Clear
  BY <1>0, <1>5 DEF Clear
<1>6. CASE Store
  BY <1>0, <1>6 DEF Store
<1>7. CASE StoreDone
  BY <1>0, <1>7 DEF StoreDone
<1>8. CASE Remove
  BY <1>0, <1>8 DEF Remove
<1>9. CASE Rename
  BY <1>0, <1>9 DEF Rename
<1>10. CASE DigestSame
  BY <1>0, <1>10 DEF DigestSame, Continue, Reads, Keeps
<1>11. CASE DigestDiffers
  BY <1>0, <1>11 DEF DigestDiffers, Again
<1>12. CASE DigestDiffersTwice
  BY <1>0, <1>12 DEF DigestDiffersTwice, Continue, Keeps
<1>13. CASE MarkerPresent
  BY <1>0, <1>13 DEF MarkerPresent, Continue, Reads
<1>14. CASE MarkerMissing
  BY <1>0, <1>14 DEF MarkerMissing, Again
<1>15. CASE Finish
  <2>1. \A i \in 1 .. Len(Ordered) : stored[Ordered[i]] \in PassesFor(Ordered[i], built) \/ (Ordered[i] = Runtime /\ kept)
    BY <1>15 DEF Finish, DoneSoFar, Taken
  <2>2. \A g \in File : stored[g] \in PassesFor(g, built) \/ (g = Runtime /\ kept)
    BY <2>1, FileIs
  <2>3. QED
    BY <1>15, <2>2 DEF Finish
<1>16. CASE UNCHANGED vars
  BY <1>16 DEF vars, f, Last
<1>17. QED
  BY <1>1, <1>2, <1>3, <1>4, <1>5, <1>6, <1>7, <1>8, <1>9, <1>10, <1>11, <1>12, <1>13, <1>14, <1>15, <1>16 DEF Next

(* The image that stands changes when another one comes in, and then is the    *)
(* build's.                                                                  *)
LEMMA StandingStep ==
  ASSUME IInv, Remove \/ Rename
  PROVE  \/ Standing' = Standing
         \/ Standing' = built /\ f = Image /\ Rename /\ stored'[Image] = built
<1> USE DEF IInv, TypeOK, RunByStep, Call
<1> HIDE DEF f
<1>1. Running /\ f \in File /\ Image \in File /\ built > 0
  BY AtIs, FileIs DEF Remove, Rename
<1>2. CASE Remove
  BY <1>1, <1>2 DEF Remove, Standing
<1>3. CASE Rename
  <2>1. /\ was' = was /\ stored[f] = 0 /\ upload[f] = built
        /\ stored' = [stored EXCEPT ![f] = upload[f]] \/ stored' = [stored EXCEPT ![f] = was[f]]
    BY <1>3 DEF Rename
  <2>2. CASE f = Image
    BY <1>1, <1>3, <2>1, <2>2 DEF Standing
  <2>3. CASE f # Image
    BY <1>1, <2>1, <2>3 DEF Standing
  <2>4. QED
    BY <2>2, <2>3
<1>4. QED
  BY <1>2, <1>3

(* The image comes back, or in, when every file it needs was taken for its     *)
(* build.                                                                    *)
LEMMA BackStep == IInv /\ [Next]_vars => NoneComesBackOlder'
<1> SUFFICES ASSUME IInv, [Next]_vars PROVE NoneComesBackOlder'
  OBVIOUS
<1> USE DEF IInv, TypeOK, RunByStep, NoneComesBackOlder, Running, Call, server
<1> HIDE DEF f, Last
<1>0. Running => at \in 1 .. Len(Ordered) /\ f \in File /\ (Last <=> at = Len(Ordered))
  BY AtIs
<1>files. /\ Image \in File /\ Metadata \in File /\ Image # Metadata /\ Image # Runtime
          /\ \A g \in Plain : g \in File /\ g # Image /\ g # Metadata /\ g # Runtime
  BY FileIs, DeployAssumption DEF Plain, DeployAssumption
<1>same. ASSUME stored' = stored, was' = was PROVE NoneComesBackOlder'
  BY <1>same DEF Standing, NotOlder
<1>types. /\ built \in Nat /\ Standing \in Nat /\ Standing <= built
          /\ \A g \in File : stored[g] \in Nat /\ was[g] \in Nat /\ stored[g] <= built /\ was[g] <= built
  BY <1>files, FileIs DEF Standing, NothingIsNewer
<1> HIDE DEF Plain
<1>8. CASE Remove
  <2>0. /\ Running /\ f \in File
        /\ \A g \in File : IF g = f THEN stored'[g] = 0 /\ was'[g] = (IF stored[g] = 0 THEN was[g] ELSE stored[g])
                           ELSE stored'[g] = stored[g] /\ was'[g] = was[g]
    BY <1>8, <1>0 DEF Remove
  <2>1. Standing' = Standing
    BY <1>8, <1>types, <1>files, StandingStep DEF Remove, Standing
  <2>2. \A g \in Plain :
          /\ stored'[g] = 0 \/ NotOlder(g, stored'[g], Standing)
          /\ stored'[g] = 0 => was'[g] = 0 \/ NotOlder(g, was'[g], Standing)
    <3> HIDE DEF NotOlder, Standing
    <3>1. QED
      BY <1>files, <2>0
  <2>3. stored'[Metadata] <= Standing /\ was'[Metadata] <= Standing
    BY <1>files, <1>types, <2>0
  <2>4. QED
    BY <2>1, <2>2, <2>3 DEF NotOlder
<1>9. CASE Rename
  <2>0. /\ Running /\ f \in File /\ upload[f] = built /\ stored[f] = 0 /\ was' = was /\ built > 0
        /\ built' = built /\ step # "list"
        /\ stored' = [stored EXCEPT ![f] = upload[f]] \/ stored' = [stored EXCEPT ![f] = was[f]]
    BY <1>9, <1>0 DEF Rename
  <2>turn. \A j \in 1 .. Len(Ordered) : j < at => Taken(Ordered[j])
    BY <2>0 DEF DoneSoFar
  <2>1. CASE Standing' = Standing
    <3>1. \A g \in File : IF g = f THEN stored'[g] = built \/ stored'[g] = was[g]
                          ELSE stored'[g] = stored[g]
      BY <2>0
    <3>2. \A g \in Plain : NotOlder(g, built, Standing)
      BY <1>types DEF NotOlder
    <3>3. \A g \in Plain :
            /\ stored'[g] = 0 \/ NotOlder(g, stored'[g], Standing)
            /\ stored'[g] = 0 => was[g] = 0 \/ NotOlder(g, was[g], Standing)
      <4> HIDE DEF NotOlder, Standing
      <4>1. QED
        BY <1>files, <2>0, <3>1, <3>2
    <3>4. stored'[Metadata] <= Standing
      <4>1. CASE f # Metadata
        BY <1>files, <3>1, <4>1
      <4>2. CASE f = Metadata
        <5>1. Taken(Image)
          <6>1. at \in DOMAIN Ordered /\ Ordered[at] = Metadata
            BY <1>0, <2>0, <4>2, FileIs DEF f
          <6>2. QED
            BY <2>turn, <6>1, MetadataIsAfter, FileIs
        <5>2. stored[Image] = built
          <6>1. stored[Image] \in PassesFor(Image, built)
            BY <1>files, <5>1 DEF Taken
          <6>2. built \in 1 .. MaxBuilds
            BY <1>types, <2>0, FileIs
          <6>3. QED
            BY <6>1, <6>2, FileIs, PassingIs
        <5>3. Standing = built
          BY <2>0, <5>2 DEF Standing
        <5>4. QED
          BY <1>files, <1>types, <3>1, <4>2, <5>3
      <4>3. QED
        BY <4>1, <4>2
    <3>5. QED
      BY <2>0, <2>1, <3>3, <3>4 DEF NotOlder
  <2>2. CASE Standing' = built /\ f = Image
    <3>1. \A g \in Plain : stored[g] \in PassesFor(g, built)
      <4>1. SUFFICES ASSUME NEW g \in Plain PROVE stored[g] \in PassesFor(g, built)
        OBVIOUS
      <4>2. at \in DOMAIN Ordered /\ Ordered[at] = Image
        BY <1>0, <2>0, <2>2, FileIs DEF f
      <4>3. PICK i \in DOMAIN Ordered : i < at /\ Ordered[i] = g
        BY <4>2, ImageIsAfter
      <4>4. i \in 1 .. Len(Ordered)
        BY FileIs
      <4>5. QED
        BY <1>files, <2>turn, <4>3, <4>4 DEF Taken
    <3>2. \A g \in Plain : stored'[g] = stored[g] /\ stored[g] # 0
      <4>0. built \in 1 .. MaxBuilds
        BY <2>0, FileIs
      <4>1. ASSUME NEW g \in Plain PROVE stored[g] # 0
        <5>1. g \in File /\ stored[g] \in PassesFor(g, built)
          BY <1>files, <3>1
        <5>2. stored[g] \in 1 .. MaxBuilds
          BY <4>0, <5>1, PassingIs
        <5>3. QED
          BY <5>2
      <4>2. QED
        BY <1>files, <2>0, <2>2, <4>1
    <3>3. \A g \in Plain : NotOlder(g, stored'[g], built)
      BY <3>1, <3>2 DEF NotOlder
    <3>4. stored'[Metadata] <= built /\ was[Metadata] <= built
      BY <1>files, <1>types, <2>0, <2>2
    <3>5. QED
      BY <2>0, <2>2, <3>2, <3>3, <3>4 DEF NotOlder
  <2>3. QED
    BY <1>9, <2>1, <2>2, StandingStep
<1>17. QED
  BY <1>same, <1>8, <1>9 DEF Next, vars, Build, Start, Raise, Clean, Clear, Store, StoreDone,
     DigestSame, DigestDiffers, DigestDiffersTwice, MarkerPresent, MarkerMissing, Finish

(* What holds of the image that may come back holds of the one that is there.  *)
LEMMA StandingIs == TypeOK /\ NoneComesBackOlder => ImageIsLast
BY FileIs DEF TypeOK, NoneComesBackOlder, ImageIsLast, Standing, Plain, NotOlder

(* The inductive invariant holds in every behaviour.                         *)
THEOREM Inductive == Spec => []IInv
<1>1. Init => IInv
  <2> SUFFICES ASSUME Init PROVE IInv
    OBVIOUS
  <2>1. kept \in BOOLEAN
    BY Zenon DEF Init
  <2>2. TypeOK
    BY <2>1, FileIs DEF Init, TypeOK
  <2>3. NoneComesBackOlder
    BY FileIs DEF Init, NoneComesBackOlder, Standing, Plain
  <2>4. QED
    BY <2>2, <2>3 DEF Init, IInv, RunByStep, Running, NothingIsNewer, DoneSoFar, PublishedIsBuilt
<1>2. IInv /\ [Next]_vars => IInv'
  BY TypeStep, StepsStep, NewerStep, DoneStep, PublishedStep, BackStep DEF IInv
<1>3. QED
  BY <1>1, <1>2, PTL DEF Spec

(* A run that reports success leaves only files that the script's checks take   *)
(* for those of its build, wherever the runs before it ended and whatever the   *)
(* reads answered.                                                             *)
THEOREM DeployCorrect == Spec => []DeployInv
<1>1. IInv => DeployInv
  BY DEF IInv, DeployInv
<1>2. QED
  BY <1>1, Inductive, PTL

(* Beside an image stands no file, the runtime and the metadata excepted, that  *)
(* is older and that the script would tell from the image's own, and no newer   *)
(* metadata, at any step of any run.                                           *)
THEOREM ImageIsLastCorrect == Spec => []ImageIsLast
<1>1. IInv => ImageIsLast
  BY StandingIs DEF IInv
<1>2. QED
  BY <1>1, Inductive, PTL
=============================================================================
