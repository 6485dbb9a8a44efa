----------------------------- MODULE Environment -----------------------------
(* platform/ps5/libc_shims.c: getenv, setenv, unsetenv and putenv over an array of *)
(* EnvMax buffers, the first environmentCount of them in use. getenv hands out      *)
(* pointers into the buffers, which later calls write to. An entry is "name=value"; *)
(* a value in TooLong is one with which no entry fits its buffer.                  *)
EXTENDS ShimParameters

VARIABLES
    environment,       \* the buffers; those past the count hold what they held last
    environmentCount,
    contents,          \* the entries the calls were to leave behind
    handed             \* the pointers a caller may still read: <<buffer, name>>

environmentVars == <<environment, environmentCount, contents, handed>>

Entry(name, value) == [name |-> name, value |-> value]
Used == 1 .. environmentCount

(* environment_find: the first entry of that name, if there is one.          *)
At(name, i) ==
    /\ environment[i].name = name
    /\ \A j \in 1 .. i - 1 : environment[j].name # name

Others(name) == {e \in contents : e.name # name}

Getenv(name) ==
    /\ \E i \in Used : At(name, i) /\ handed' = handed \union {<<i, name>>}
    /\ UNCHANGED <<environment, environmentCount, contents>>

(* An entry that is there is written where it is, whoever holds a pointer.   *)
SetOver(name, value) ==
    /\ value \notin TooLong
    /\ \E i \in Used : At(name, i) /\ environment' = [environment EXCEPT ![i] = Entry(name, value)]
    /\ contents' = Others(name) \union {Entry(name, value)}
    /\ UNCHANGED <<environmentCount, handed>>

SetNew(name, value) ==
    /\ value \notin TooLong /\ environmentCount < EnvMax
    /\ \A i \in Used : environment[i].name # name
    /\ environment' = [environment EXCEPT ![environmentCount + 1] = Entry(name, value)]
    /\ environmentCount' = environmentCount + 1
    /\ contents' = contents \union {Entry(name, value)}
    /\ UNCHANGED handed

(* Without overwrite an entry that is there stays, and the call answers 0. A   *)
(* value that does not fit and an array that is full are refused. Neither     *)
(* changes anything, and neither does a name that is empty or holds a "=".    *)
Setenv(name, value, overwrite) ==
    \/ overwrite /\ SetOver(name, value)
    \/ SetNew(name, value)

(* Mutated form: the hole is closed by shortening the array alone.           *)
FillHoleForgets(i) == UNCHANGED environment

(* The last entry moves into the hole; its old buffer keeps what it held.    *)
FillHole(i) == environment' = [environment EXCEPT ![i] = environment[environmentCount]]

(* Pointers to the variable, and to the one that moves, end here.            *)
Unsetenv(name) ==
    /\ \E i \in Used :
          /\ At(name, i)
          /\ FillHole(i)
          /\ handed' = {p \in handed : p[1] \notin {i, environmentCount}}
    /\ environmentCount' = environmentCount - 1
    /\ contents' = Others(name)

(* A string without "=" unsets, any other sets and overwrites.               *)
Putenv(name) == Unsetenv(name) \/ \E value \in EnvValue : Setenv(name, value, TRUE)

EnvironmentInit ==
    /\ environment = [i \in 1 .. EnvMax |-> Entry("", "")]
    /\ environmentCount = 0
    /\ contents = {}
    /\ handed = {}

EnvironmentNext ==
    \E name \in EnvName :
       \/ Getenv(name)
       \/ \E value \in EnvValue, overwrite \in BOOLEAN : Setenv(name, value, overwrite)
       \/ Unsetenv(name)
       \/ Putenv(name)

EnvironmentSpec == EnvironmentInit /\ [][EnvironmentNext]_environmentVars

-----------------------------------------------------------------------------
EnvironmentTypeOK ==
    /\ environmentCount \in 0 .. EnvMax
    /\ DOMAIN environment = 1 .. EnvMax
    /\ \A i \in Used : environment[i] \in [name : EnvName, value : EnvValue \ TooLong]

(* After any calls, in any order, the array holds every variable once, with   *)
(* the value it was last given, and no other.                                *)
HoldsContents ==
    /\ \A i, j \in Used : environment[i].name = environment[j].name => i = j
    /\ contents = {environment[i] : i \in Used}

(* A pointer getenv gave out reads its variable's value of now, not another     *)
(* variable's, until that variable is unset or moves into a hole.             *)
PointersRead == \A p \in handed : p[1] \in Used /\ environment[p[1]].name = p[2]

(* The environment is what its calls made of it, also read through a pointer.  *)
EnvironmentTrue == EnvironmentTypeOK /\ HoldsContents /\ PointersRead
=============================================================================
