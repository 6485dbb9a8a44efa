---------------------------- MODULE ShimParameters ----------------------------
(* The constants of the title's shims and what is assumed of them, in one place: *)
(* each shim's module extends this one, and so does TitleShims, which runs them.  *)
EXTENDS Integers, Sequences, FiniteSets

CONSTANTS
    Thread,          \* SDL: the threads
    Initial,         \* SDL_CreateSemaphore's initial_value
    MaxPosts,        \* bound of the posts to the semaphore
    Handle,          \* SDL thread handles
    Status,          \* what thread functions return; 0 is one of them
    ClockThread,     \* the threads that read the clock
    MaxTime,         \* bound of what a core's counter shows
    Folder,          \* a folder's records: "live", "free" or "bad"
    Batch,           \* how many of them fit into a directory stream's buffer
    EnvName, EnvValue,
    TooLong,         \* values with which no environment entry fits its buffer
    EnvMax,          \* PS5_ENV_MAX
    Dso, Finalizing, \* cores, and the threads that register and finalize
    MaxRegistered,   \* bound of the destructors registered
    MaxDepth,        \* bound of finalizations inside each other
    DisplayModes,    \* for each display the modes it offers: "screen", "other"
    PlaneDisplays,   \* for each plane the display it is on, or 0
    MaxPictures,     \* bound of the pictures drawn
    MaxFlips,        \* how many flips the display takes before they take place
    Caller,          \* threads that call Vulkan
    InstanceAnswers, \* commands of devices that the driver answers for an instance
    MaxPresents, MaxAsked, MaxMarks,   \* bounds of the frame trace
    IntervalTicks,   \* the interval of its lines, in half vertical blanks
    HitchMax         \* how many hitch lines an interval may have

ASSUME ThreadAssumption == IsFiniteSet(Thread)
ASSUME CountAssumption == Initial \in Nat /\ MaxPosts \in Nat
ASSUME StatusAssumption == 0 \in Status /\ Status \subseteq Nat
ASSUME TimeAssumption == MaxTime \in Nat
ASSUME FolderAssumption == Folder \in Seq({"live", "free", "bad"}) /\ Batch \in Nat \ {0}
ASSUME EnvironmentAssumption == EnvMax \in Nat
ASSUME ScreenAssumption == /\ DisplayModes \in Seq(SUBSET {"screen", "other"})
                           /\ PlaneDisplays \in Seq(Nat)
ASSUME PictureAssumption == MaxPictures \in Nat \ {0}
ASSUME FlipAssumption == MaxFlips \in Nat
ASSUME TraceAssumption == HitchMax \in Nat
=============================================================================
