------------------------------ MODULE TitleShims ------------------------------
(* The shims between the engine and the console that share no state with one      *)
(* another. What a behaviour of the title does to one of them is a behaviour of      *)
(* that one with the others at rest between its steps, so a behaviour of this module  *)
(* is of one of them, the part that is chosen at the start.                        *)
EXTENDS ShimParameters, SdlSemaphore, SdlThread, SdlClock, DirectoryStream, Environment,
        Finalizers, VulkanEntry, WindowSurface, DisplayFlip, FrameTrace

VARIABLE part

vars == <<part, semaphoreVars, threadVars, clockVars, directoryVars, environmentVars, finalizerVars,
          vkVars, surfaceVars, displayVars, frameVars>>

(* The parts that are not the one chosen rest.                                *)
Rest ==
    /\ UNCHANGED part
    /\ IF part = "semaphore" THEN TRUE ELSE UNCHANGED semaphoreVars
    /\ IF part = "thread" THEN TRUE ELSE UNCHANGED threadVars
    /\ IF part = "clock" THEN TRUE ELSE UNCHANGED clockVars
    /\ IF part = "directory" THEN TRUE ELSE UNCHANGED directoryVars
    /\ IF part = "environment" THEN TRUE ELSE UNCHANGED environmentVars
    /\ IF part = "finalizers" THEN TRUE ELSE UNCHANGED finalizerVars
    /\ IF part = "vulkan" THEN TRUE ELSE UNCHANGED vkVars
    /\ IF part = "surface" THEN TRUE ELSE UNCHANGED surfaceVars
    /\ IF part = "display" THEN TRUE ELSE UNCHANGED displayVars
    /\ IF part = "frames" THEN TRUE ELSE UNCHANGED frameVars

Init ==
    /\ part \in {"semaphore", "thread", "clock", "directory", "environment", "finalizers",
                "vulkan", "surface", "display", "frames"}
    /\ SemaphoreInit
    /\ HandleInit
    /\ ClockInit
    /\ DirectoryInit
    /\ EnvironmentInit
    /\ FinalizersInit
    /\ VkInit
    /\ SurfaceInit
    /\ DisplayInit
    /\ FrameInit

Next ==
    \/ part = "semaphore" /\ SemaphoreNext /\ Rest
    \/ part = "thread" /\ HandleNext /\ Rest
    \/ part = "clock" /\ ClockNext /\ Rest
    \/ part = "directory" /\ DirectoryNext /\ Rest
    \/ part = "environment" /\ EnvironmentNext /\ Rest
    \/ part = "finalizers" /\ FinalizersNext /\ Rest
    \/ part = "vulkan" /\ VkNext /\ Rest
    \/ part = "surface" /\ SurfaceNext /\ Rest
    \/ part = "display" /\ DisplayNext /\ Rest
    \/ part = "frames" /\ FrameNext /\ Rest

(* A thread that wants the semaphore's mutex gets it at some time.            *)
LockOnce(t) == part = "semaphore" /\ Lock(t) /\ Rest

Spec == Init /\ [][Next]_vars /\ \A t \in Thread : WF_vars(LockOnce(t))
=============================================================================
