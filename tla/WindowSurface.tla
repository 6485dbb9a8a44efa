---------------------------- MODULE WindowSurface ----------------------------
(* platform/ps5/ps5_window.c: SDL_Vulkan_CreateSurface, which looks for a display *)
(* with a mode of the screen's size and for a plane that can drive it, step by       *)
(* step, with the lists it allocates on the way. The driver may refuse any step.    *)
EXTENDS ShimParameters

VARIABLES
    surfaceStep,   \* the step a call is at, or "idle"
    held,          \* the lists that are allocated
    looking,       \* the display whose modes are next
    chosen,        \* the display chosen, or 0
    surface,       \* what the last call made: <<display, plane>>, or <<>>
    refused        \* whether the driver, or the heap, refused it a step

surfaceVars == <<surfaceStep, held, looking, chosen, surface, refused>>

(* The console, as the driver describes it: for each display the modes it       *)
(* offers, "screen" or "other"; for each plane the display it is on, or 0.      *)
Displays == 1 .. Len(DisplayModes)
Planes == 1 .. Len(PlaneDisplays)

(* The driver's entry points, and its one physical device.                   *)
CreateCall ==
    /\ surfaceStep = "idle"
    /\ surfaceStep' = "displays" /\ surface' = <<>>
    /\ looking' = 1 /\ chosen' = 0 /\ refused' = FALSE
    /\ UNCHANGED held

(* A way out, with the lists it frees; freeing a list that was not allocated   *)
(* is freeing NULL.                                                          *)
Leave(freed, with, wrong) ==
    /\ surfaceStep' = "idle" /\ held' = held \ freed /\ surface' = with
    /\ refused' = (refused \/ wrong)
    /\ UNCHANGED <<looking, chosen>>

(* A list is allocated, or the heap refuses it.                              *)
Allocate(from, list, to) ==
    /\ surfaceStep = from
    /\ held' \in {held, held \union {list}}
    /\ surfaceStep' = to
    /\ UNCHANGED <<looking, chosen, surface, refused>>

(* Any step up to here, and the counting of displays, may be refused.        *)
DisplaysRefused == surfaceStep = "displays" /\ Leave({}, <<>>, TRUE)

DisplaysAllocated == Displays # {} /\ Allocate("displays", "displays", "read displays")

DisplaysUnread == surfaceStep = "read displays" /\ Leave({"displays"}, <<>>, TRUE)

DisplaysRead ==
    /\ surfaceStep = "read displays" /\ "displays" \in held
    /\ surfaceStep' = "planes"
    /\ UNCHANGED <<held, looking, chosen, surface, refused>>

PlanesRefused == surfaceStep = "planes" /\ Leave({"displays"}, <<>>, TRUE)

PlanesAllocated == Planes # {} /\ Allocate("planes", "planes", "read planes")

(* Mutated form: the list that could not be filled is forgotten.             *)
PlanesUnreadForgets == surfaceStep = "read planes" /\ Leave({"displays"}, <<>>, TRUE)

PlanesUnread == surfaceStep = "read planes" /\ Leave({"displays", "planes"}, <<>>, TRUE)

PlanesRead ==
    /\ surfaceStep = "read planes" /\ "planes" \in held
    /\ surfaceStep' = "modes"
    /\ UNCHANGED <<held, looking, chosen, surface, refused>>

Looking == looking \in Displays /\ chosen = 0

(* A display whose modes cannot be read is passed over.                      *)
PassOver ==
    /\ looking' = looking + 1
    /\ refused' = (refused \/ DisplayModes[looking] # {})
    /\ surfaceStep' = "modes"
    /\ UNCHANGED <<chosen, surface>>

ModesRefused == surfaceStep = "modes" /\ Looking /\ PassOver /\ UNCHANGED held

ModesAllocated == Looking /\ DisplayModes[looking] # {} /\ Allocate("modes", "modes", "read modes")

ModesUnread == surfaceStep = "read modes" /\ PassOver /\ held' = held \ {"modes"}

ModesCompared ==
    /\ surfaceStep = "read modes" /\ "modes" \in held
    /\ chosen' = IF "screen" \in DisplayModes[looking] THEN looking ELSE 0
    /\ held' = held \ {"modes"}
    /\ looking' = looking + 1
    /\ surfaceStep' = "modes"
    /\ UNCHANGED <<surface, refused>>

(* The ways out after both lists were read free both.                        *)
LeaveBoth(with, wrong) == Leave({"displays", "planes"}, with, wrong)

NoMode == surfaceStep = "modes" /\ looking \notin Displays /\ chosen = 0 /\ LeaveBoth(<<>>, FALSE)

(* Mutated form: the plane is taken by its place, not by what it can do.     *)
DrivesAny(plane) == plane \in Planes

(* A plane that is on no display, or on this one.                            *)
Drives(plane) == PlaneDisplays[plane] \in {0, chosen}

FirstPlane(plane) == Drives(plane) /\ \A p \in 1 .. plane - 1 : ~Drives(p)

NoPlane == surfaceStep = "modes" /\ chosen # 0 /\ (\A p \in Planes : ~Drives(p))
           /\ LeaveBoth(<<>>, FALSE)

(* The driver makes the surface, or does not.                                *)
SurfaceMade ==
    /\ surfaceStep = "modes" /\ chosen # 0
    /\ \E plane \in Planes :
          FirstPlane(plane) /\ (LeaveBoth(<<chosen, plane>>, FALSE) \/ LeaveBoth(<<>>, TRUE))

SurfaceInit ==
    /\ surfaceStep = "idle" /\ held = {} /\ looking = 1 /\ chosen = 0
    /\ surface = <<>> /\ refused = FALSE

SurfaceNext ==
    \/ CreateCall
    \/ DisplaysRefused \/ DisplaysAllocated \/ DisplaysUnread \/ DisplaysRead
    \/ PlanesRefused \/ PlanesAllocated \/ PlanesUnread \/ PlanesRead
    \/ ModesRefused \/ ModesAllocated \/ ModesUnread \/ ModesCompared
    \/ NoMode \/ NoPlane \/ SurfaceMade

SurfaceSpec == SurfaceInit /\ [][SurfaceNext]_surfaceVars

-----------------------------------------------------------------------------
Offers(display) == "screen" \in DisplayModes[display]

(* A call leaves no list behind, whichever step was refused; a surface is on a   *)
(* display that offers the screen's mode and on a plane that can drive that      *)
(* display; and where no step was refused there is none only if the first        *)
(* display with the mode has no such plane, or none has the mode.              *)
SurfaceSound ==
    surfaceStep = "idle" =>
       /\ held = {}
       /\ surface # <<>> => Offers(surface[1]) /\ PlaneDisplays[surface[2]] \in {0, surface[1]}
       /\ surface = <<>> /\ ~refused /\ chosen # 0 => \A p \in Planes : PlaneDisplays[p] \notin {0, chosen}
       /\ surface = <<>> /\ ~refused /\ chosen = 0 /\ looking > 1 => \A d \in Displays : ~Offers(d)
=============================================================================
