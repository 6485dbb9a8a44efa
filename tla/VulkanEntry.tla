----------------------------- MODULE VulkanEntry -----------------------------
(* platform/ps5/vk_globals.c, vk_loader.c and the lookups of ps5_window.c: how the *)
(* engine's calls of Vulkan find the driver. Each of the 79 commands is a trampoline  *)
(* that looks its function up at its first call and keeps it; two of them also keep   *)
(* what they create. A function is known by its name; what is traced is left out.    *)
EXTENDS ShimParameters

VARIABLES
    instance, device,     \* whether the trampolines know one
    deviceProc,           \* ps5_get_device_proc_addr
    pfn,                  \* what each trampoline keeps, or None
    vkAt,                 \* each thread: <<where, command>>
    engine,               \* <<name, answer>> of the engine's own lookups
    windowDeviceProc,     \* ps5_window.c: device_proc_addr
    queuePresent          \* and queue_present

vkVars == <<instance, device, deviceProc, pfn, vkAt, engine, windowDeviceProc, queuePresent>>

None == "NULL"

(* The commands by the object they are called on, one or two of each kind.   *)
Global == {"vkCreateInstance"}
OfInstance == {"vkEnumeratePhysicalDevices", "vkCreateDevice"}
OfDevice == {"vkCmdDraw", "vkQueueSubmit"}
Command == Global \union OfInstance \union OfDevice
Creates == {"vkCreateInstance", "vkCreateDevice"}

(* The loader's aliases: a promoted name and its extension's.                *)
Promoted == [vkGetPhysicalDeviceFeatures2 |-> "vkGetPhysicalDeviceFeatures2KHR"]

(* The driver's answers: for a null instance the globals alone; for an instance    *)
(* its commands, and those of a device that it chooses to; for a device that      *)
(* one's.                                                                   *)
InstanceProc(known, name) ==
    LET answered == IF known THEN OfInstance \union InstanceAnswers \union
                                  {"vkGetDeviceProcAddr", "vkGetPhysicalDeviceFeatures2KHR"}
                    ELSE Global
    IN  IF name \in answered THEN name ELSE None
DeviceProc(name) == IF name \in OfDevice \union {"vkQueuePresentKHR"} THEN name ELSE None

(* What Vulkan allows: a command is called on an object that there is. The title   *)
(* makes one instance and one device, with no other call on the way.          *)
Legal(c) ==
    /\ c \in OfInstance => instance
    /\ c \in OfDevice => device
    /\ c \in Creates => \A t \in Caller : vkAt[t][1] = "outside"
    /\ c = "vkCreateInstance" => ~instance
    /\ c = "vkCreateDevice" => ~device

(* Mutated form: every command is asked of a null instance.                  *)
ResolveNull(c) == <<InstanceProc(FALSE, c), deviceProc>>

(* ps5_resolve: the function, and what is kept of vkGetDeviceProcAddr.        *)
Resolve(c) ==
    LET byInstance == InstanceProc(instance, c)
        getDevice == IF deviceProc = None THEN InstanceProc(instance, "vkGetDeviceProcAddr") ELSE deviceProc
    IN  IF c \in Global \/ ~(instance \/ device) THEN <<InstanceProc(FALSE, c), deviceProc>>
        ELSE IF instance /\ byInstance # None THEN <<byInstance, deviceProc>>
        ELSE IF device /\ getDevice # None /\ DeviceProc(c) # None THEN <<DeviceProc(c), getDevice>>
        ELSE <<InstanceProc(FALSE, c), IF device THEN getDevice ELSE deviceProc>>

Go(t, where, c) == vkAt' = [vkAt EXCEPT ![t] = <<where, c>>]
UnchangedLookups == UNCHANGED <<engine, windowDeviceProc, queuePresent>>

(* Two threads may both find nothing, look the function up and store it.     *)
Trampoline(t, c) ==
    /\ vkAt[t][1] = "outside" /\ Legal(c)
    /\ Go(t, IF pfn[c] = None THEN "resolve" ELSE "call", c)
    /\ UNCHANGED <<instance, device, deviceProc, pfn>> /\ UnchangedLookups

StoreResolved(t) ==
    /\ vkAt[t][1] = "resolve"
    /\ LET c == vkAt[t][2]
           found == Resolve(c)
       IN  /\ pfn' = [pfn EXCEPT ![c] = found[1]]
           /\ deviceProc' = found[2]
           /\ Go(t, "call", c)
    /\ UNCHANGED <<instance, device>> /\ UnchangedLookups

(* The driver's function returns; what it created is kept if it succeeded.   *)
DriverReturns(t) ==
    /\ vkAt[t][1] = "call"
    /\ \E success \in BOOLEAN :
          /\ instance' = (instance \/ (success /\ vkAt[t][2] = "vkCreateInstance"))
          /\ device' = (device \/ (success /\ vkAt[t][2] = "vkCreateDevice"))
    /\ Go(t, "outside", None)
    /\ UNCHANGED <<deviceProc, pfn>> /\ UnchangedLookups

(* ps5_vk_loader_proc_addr: the driver's answer, or that for the extension's name. *)
Aliased(name) ==
    LET asked == InstanceProc(instance, name) IN
    IF asked = None /\ name \in DOMAIN Promoted THEN InstanceProc(instance, Promoted[name]) ELSE asked

(* What the window hands out as vkGetInstanceProcAddr.                       *)
LookInstance(name) ==
    /\ instance
    /\ LET proc == Aliased(name) IN
          IF name = "vkGetDeviceProcAddr" /\ proc # None
          THEN windowDeviceProc' = proc /\ engine' = engine \union {<<name, "traced_device_proc">>}
          ELSE engine' = engine \union {<<name, proc>>} /\ UNCHANGED windowDeviceProc
    /\ UNCHANGED <<instance, device, deviceProc, pfn, vkAt, queuePresent>>

(* traced_device_proc, once the engine was handed it.                        *)
LookDevice(name) ==
    /\ device /\ <<"vkGetDeviceProcAddr", "traced_device_proc">> \in engine
    /\ LET proc == IF windowDeviceProc = None THEN None ELSE DeviceProc(name) IN
          IF name = "vkQueuePresentKHR" /\ proc # None
          THEN queuePresent' = proc /\ engine' = engine \union {<<name, "traced_present">>}
          ELSE engine' = engine \union {<<name, proc>>} /\ UNCHANGED queuePresent
    /\ UNCHANGED <<instance, device, deviceProc, pfn, vkAt, windowDeviceProc>>

VkInit ==
    /\ instance = FALSE /\ device = FALSE /\ deviceProc = None
    /\ pfn = [c \in Command |-> None]
    /\ vkAt = [t \in Caller |-> <<"outside", None>>]
    /\ engine = {} /\ windowDeviceProc = None /\ queuePresent = None

VkNext ==
    \/ \E t \in Caller : \/ \E c \in Command : Trampoline(t, c)
                         \/ StoreResolved(t) \/ DriverReturns(t)
    \/ \E name \in {"vkGetDeviceProcAddr", "vkGetPhysicalDeviceFeatures2"} : LookInstance(name)
    \/ \E name \in {"vkQueuePresentKHR", "vkCmdDraw"} : LookDevice(name)

VkSpec == VkInit /\ [][VkNext]_vkVars

-----------------------------------------------------------------------------
(* Every call that Vulkan allows goes to the driver's function of that name,     *)
(* never to null, in whatever order the engine's threads make their first ones,    *)
(* and whether the driver answers a device's commands for an instance or not. What  *)
(* the engine looks up itself is that function, its extension's, or a wrapper that   *)
(* has the driver's.                                                        *)
CallsReach ==
    /\ \A t \in Caller : vkAt[t][1] = "call" => pfn[vkAt[t][2]] = vkAt[t][2]
    /\ \A answer \in engine :
          \/ answer[2] = answer[1]
          \/ answer[1] \in DOMAIN Promoted /\ answer[2] = Promoted[answer[1]]
          \/ answer = <<"vkGetDeviceProcAddr", "traced_device_proc">> /\ windowDeviceProc = answer[1]
          \/ answer = <<"vkQueuePresentKHR", "traced_present">> /\ queuePresent = answer[1]
=============================================================================
