# vkQuake for PS5: verification models

TLA+ models of the native parts of this port: what stands between the engine
(vkQuake, not in the repository) and the console. They cover the code that runs
threads, keeps caches and tables, is called back in the middle of its own work,
or talks to services that fail, and the tool chain that lays out what the
console loads. Each module names the file it translates;
`PROJECT.json` gives, for every definition, the lines it stands for.

Paths below are relative to the repository.

## The system and its parts

The title is one process. The engine's main thread calls the adapters in
`platform/ps5/` (C, in the engine's vocabulary), which call the devices in
`src/` (C++, over the console's services). The audio device adds a thread, the
engine's task workers and the Vulkan driver add more; all of them allocate
through `memory_ps5.cpp` and use the SDL shim. The title is put on a console by
the scripts in `tools/`, over FTP, after the
tools in `tooling/native/` have made its modules on the build machine.

| Component | State it keeps | Operations | Called by / calls | Status |
|---|---|---|---|---|
| Audio output device, `src/audio_ps5.cpp` | ring with `head`, `count`; `active`, `shutdown`, `failed`, `nonblock`, `in_output`; one mutex, one condition; port handle | `audio_init`, `audio_init_fill`, `write`, `stop`, `start`, `set_nonblock`, `producer_lock/unlock`, `free`; the worker thread | adapter, bring-up test / `sceAudioOut*` | `AudioOut` (ring mode), `SoundDma` (fill mode) |
| Engine sound adapter, `platform/ps5/ps5_audio.c` | DMA ring, cursor `samplepos`, device pointer | `SNDDMA_Init`, `GetDMAPos`, `LockBuffer`, `Submit`, `Block/UnblockSound`, `Shutdown`; the paint callback | engine thread, worker thread / audio device | `SoundDma` |
| Span allocator, `src/memory_ps5.cpp` | list of mappings, cache of released spans with a byte count, one lock | `malloc`, `calloc`, `realloc`, `free`, `posix_memalign` | every thread / the C library's heap, `mmap`, ownership table | `SpanAllocator` |
| Ownership table, `src/memory_diagnostics.cpp` | open-addressing array with tombstones, statistics | `add`, `take`; reports | allocator | `OwnershipTable`; reports not modelled |
| Pad device, `src/input_ps5.cpp` | handle, buffer of samples, count, buttons, who owns the user service | `ps5_pad_open/poll/close`, `buttons`, `axis` | input adapter / `scePad*`, user service | `PadDevice` |
| Input adapter, `platform/ps5/ps5_input.c` | `held[]`, `repeat_at[]` | `IN_Commands`, `IN_ClearStates`, `IN_Move` | engine frame, and dialogs inside `Key_Event` / engine | `PadKeys`; `IN_Move` not |
| SDL shim, `platform/ps5/sdl_ps5.c` | semaphores, thread handles with a reference count, the latest time given out | SDL 1/2 calls | engine threads / pthreads | `SdlSemaphore`, `SdlThread`, `SdlClock` |
| Deployment, `tools/deploy-title.py`, `tools/ps5_ftp.py` | the folder on the console | publish, `--clean`, `--check` | by hand / FTP server | `TitleDeploy` |
| Directories, `src/ps5_directory.cpp` | descriptor, a buffer of records | `opendir` … `closedir` | engine / `getdents` | `DirectoryStream` |
| C library shims, `platform/ps5/libc_shims.c` | environment table | `getenv`, `setenv`, `unsetenv`, `putenv`, others | engine | `Environment`; the others not |
| Destructors of cores, `tooling/native/core_cxx_runtime.cpp` | a list under a lock | `__cxa_atexit`, `__cxa_finalize` | start and exit of a core / the destructors | `Finalizers` |
| Vulkan entry points, `platform/ps5/vk_globals.c`, `vk_loader.c` | the instance, the device, a pointer for each of 79 commands | trampolines, the loader's lookup | engine / driver | `VulkanEntry` |
| Window and surface, `platform/ps5/ps5_window.c` | window flags and size, counters of presents, two wrapped functions | window calls, `SDL_Vulkan_CreateSurface`, `traced_present` | engine / driver | `WindowSurface`, `FrameTrace`, `VulkanEntry`; flags and size not |
| Start-up and frame reports, `src/host_frames.cpp` | marks, frame count | `ps5_startup_mark`, reports | present | `FrameTrace` |
| Display, `src/display.cpp` | handle, two frames, which one is the caller's | `open`, `present`, `close` | bring-up only / `sceVideoOut*` | `DisplayFlip` |
| Native tool chain, `tooling/native/` | none beyond one run | `link`, `self` (sign, inspect, extract), the runtime builder | `tools/build.sh` | `ElfImage`, `ModuleWriter`, `SelfContainer`, `LibcBuilder`, `ToolChain` |
| Memory reports, traces, probe, remaining scripts | counters | formatting, forwarding | everyone | not modelled, see below |

What is hard about them:

- **Audio.** The worker gives up its lock around each device call. Pausing,
  resuming, writing and freeing all run while a block is in the device, and
  `audio_stop` then uses the port itself, without the lock. The correctness is:
  frames are neither lost, repeated nor reordered across the ring's wrap; no two
  device calls overlap; nobody sleeps through the wake-up meant for it; every
  call returns.
- **Sound.** Opening acquires seven things in two functions that each undo
  their own part, and the worker paints before the opening has returned. Mixing
  and painting must exclude each other although the engine must never wait for
  the device.
- **Allocator.** A span is for a moment in no list (two gaps in `allocate`, one
  in `release`). `realloc` has given up its record when it may still fail. A
  cache has three limits and a count beside it. Sizes near `SIZE_MAX` wrap.
- **Ownership table.** A free slot ends a probe; a slot that was given back
  must not.
- **Pad and keys.** Batches are ordered by timestamp, not place, and lie in a
  buffer whose rear is older. A key press may open a dialog that runs its own
  loop and calls the adapter again from inside.
- **SDL.** Semaphores built on a condition variable, a handle released by two
  sides in any order, a clock that is not the same on every core.
- **Other shims.** A folder is read in batches and may be rewound between them;
  a pointer from `getenv` outlives the move of its entry; destructors register
  others while two threads run them; a Vulkan command may be called first before
  or after the device exists; a frame is in the cache, in memory or on the
  screen; counters that all threads raise are sampled once a present.
- **Tool chain.** Three programs agree on addresses nobody passes between them:
  the linker script, the writer that adds segments behind and between what the
  linker placed, and the console's loader that follows pointers into both.
- **Deployment.** Any call of it may fail, it is started again by hand, and the
  server may keep old bytes or answer a read with others.

`PROJECT.json` lists forty such hazards at their lines and the properties that
cover them; each has at least one.

## Modules

| Module | Models | Composes with |
|---|---|---|
| `AudioOut` | the device in ring mode: worker, producer and controller threads, mutex and condition variable | refines `PcmStream` |
| `PcmStream` | the abstract device: a bounded FIFO that leaves in blocks, a pause, one error | |
| `AudioOutProofs` | theorems about `AudioOut`, and that it implements `PcmStream` | |
| `SoundDma` | the adapter together with the device in fill mode: engine and worker thread | |
| `SoundDmaProofs` | theorems about `SoundDma` | |
| `SpanAllocator` | the allocator over both heaps, any number of threads | uses the records as `RecordSet` states them |
| `OwnershipTable` | the table and its statistics | refines `RecordSet` |
| `RecordSet` | the abstract table: a set with room for so many records | |
| `MemoryProofs` | theorems about `OwnershipTable` and `SpanAllocator` | |
| `PadDevice` | opening, reading, closing the pad | its report is `PadKeys`' input |
| `PadKeys` | keys, repeats, nested calls | |
| `PadProofs` | theorems about `PadDevice` and `PadKeys` | |
| `SdlSemaphore` | the semaphore | |
| `SdlThread` | thread handles | |
| `SdlClock` | the performance counter and the timed wait's deadline | |
| `DirectoryStream` | a directory stream over batches | |
| `Environment` | the environment table | |
| `Finalizers` | a core's list of destructors | |
| `VulkanEntry` | trampolines and lookups | |
| `WindowSurface` | the search for a display, mode and plane | |
| `DisplayFlip` | two frames behind a cache | |
| `FrameTrace` | what the lines about frames are about | |
| `ShimParameters` | the constants of the modules from `SdlSemaphore` on, with their assumptions | |
| `TitleShims` | one specification of the modules from `SdlSemaphore` on | composes them |
| `ShimProofs` | theorems about each of those ten modules and about `TitleShims` | |
| `IndexOrder` | the members of a set of positions in their order | used by the next four |
| `ElfImage` | reading the linked program and the stubs; the linker script | |
| `ModuleWriter` | the module for the console | uses `ElfImage` |
| `SelfContainer` | the container around it: sign, extract, inspect | |
| `LibcBuilder` | the runtime module `libc.prx` | |
| `ToolChain` | the tools one after the other, and what the console does with the result | composes the four above |
| `ContainerProofs` | lemmas about loops, the runtime module and the container | |
| `ToolChainProofs` | lemmas about the linked file and the writer, theorems about `ToolChain` | uses `ContainerProofs` |
| `TitleDeploy` | publishing and cleaning | takes what `ToolChain` makes as files |
| `TitleDeployProofs` | theorems about `TitleDeploy` | |
| `MCAudioOut`, `MCOwnershipTable`, `MCSpanAllocator`, `MCTitleDeploy`, `MCTitleShims`, `MCToolChain` | instances for TLC | |

An operator whose comment begins "Mutated form" is a plausible mistake in the
definition after it. It is used by nothing; putting it in that definition's
place must make a property fail, and `PROJECT.json` says which one.

### How state and actions correspond to the code

**AudioOut.** Variables have the names of the `Audio` fields. `mutex` and
`waiting` are the mutex's holder and the threads inside `pthread_cond_wait`;
`worker`, `writer`, `control` say where each thread is. A critical section is
one action where nothing in it can block, so `WorkerTake` is everything from the
end of the worker's inner wait to the unlock before `sceAudioOutOutput`, and
`WorkerReturn` the relock and the accounting, with the mutex kept into the next
round of the loop. The n-th frame accepted is the number n: a lost, repeated or
reordered frame is a wrong number. Statistics that decide nothing are left out.
One controller calls `audio_stop`, `audio_start` and `audio_free`, and no
`audio_write` runs during `audio_free`: the code offers no protection there and
its callers keep to it. `Init` is a device `audio_init` has opened; the failures
of opening are in `SoundDma`.

**SoundDma.** `held` is the set of resources that exist; `Acquired` is the order
of their acquisition through `SNDDMA_Init` and `audio_init_fill`, `Unwound` what
a failure releases. A sample is its position in the DMA ring, so the order of
what is played can be read off a block. `PaintBegin` and `PaintCopy` are the
callback, one copy a step.

**SpanAllocator.** Small and mapped blocks are `kind`; `memory` is the bytes
behind a pointer, `header` the `Mapping` in front. Each block of code under the
lock is one action, what a thread does before it to memory only it can reach is
part of it. Sizes are modulo `SizeMax + 1`. `client` is a ghost: what each
thread holds and what it wrote there. Assumed of what is outside: `libc`'s
functions behave as the standard says (`calloc` refuses a product that
overflows), and `ForeignBlock`, blocks the C library made for itself that the
title frees or resizes, are only ever handed to the title's `free` and `realloc`
by the thread that owns them. `posix_memalign` forwards and adds a record, as
`malloc` of a small block does, and is not a separate action. A build with the
RADV driver in it compiles the allocator out; it is the other build that is
modelled.

**OwnershipTable.** `states`, `slots` and `stats` are the arrays; `Vacancies`
and `Matches` are the two probe loops stated as sets of probe numbers of which
the first is taken. `held` is what the allocator has given out: a pointer is not
added twice without a free between, and a pointer the table has no record of may
be taken (foreign).

**PadDevice.** The state object is `state`; `opening` counts attempts inside
`ps5_pad_open`. A stick or a trigger is one flag of a sample. `report` is a
ghost: what a reader who sorts the batch by time would take from it.

**PadKeys.** `calls` is the stack of `IN_Commands` and `IN_ClearStates` calls,
each with the snapshot it took, the key it is at and whether it is inside
`Key_Event`. Time is relative: `left` is `repeat_at[k]` less the present time,
zero once passed, `since` the ghost that measures the distance of repeats. A
state is finite however long the game runs. Sticks are the flag "past 0.7".

**SdlSemaphore, SdlThread, SdlClock.** One action per critical section, per
access to the handle's memory, and per atomic operation. `at = "woken"` is a
thread that has left the condition and seeks the mutex again. The handle's
reference is dropped and the block freed in two steps. A core's counter may show
any time when a call reads it; the conversion of ticks, which is monotone, is
left out. The atomics are relaxed, but there is one variable only, and its
modification order is what the model follows.

**TitleShims.** The shims share no state, so `part` picks the one whose
behaviour is run and the others rest; the shims' interleavings with each other
would multiply the states and show nothing. All ten modules are extended, so that
what TLC checks is what is proved.

**DirectoryStream, Environment, Finalizers.** One action per call that decides
something, and in a stream one per record; `listed` and `contents` are ghosts:
what the calls have answered, and what a map would hold after the same calls.
`handed` are the pointers a caller may still read. A pointer ends where the C
standard lets it, when its variable is removed, and beyond that when `unsetenv`
moves its entry: a caller of this table may not keep one across `unsetenv`.
`Finalizers` takes entries out under the lock and runs them
without; a thread's calls are a stack, since a destructor may finalize.

**VulkanEntry.** The 79 trampolines are alike; the `map` names one of them for
each definition: `vkCmdDraw` for the call, what it resolves and what it stores,
`vkCreateInstance` for what a command that creates keeps; `Command` is all of
them. One instance and one
device, created by calls nobody else overlaps, are what the engine makes. What
the driver answers for an instance is a constant (`InstanceAnswers`): a driver
may give a device's command for an instance or not. Two threads may resolve the
same command at once.

**WindowSurface, FrameTrace.** Each driver call of `SDL_Vulkan_CreateSurface` is
an action with a refusal beside it, and so is each allocation. `held` are the
lists that are allocated: each way out takes away those it frees in the code and
no others, so a list that is forgotten stays.
`enumerate_devices` is taken to find one device, as the call that asks for one
assumes. In `FrameTrace` the counts of files, waits and mappings are one number,
`asked`, and a sample of it is one step; time is in half vertical blanks.

**DisplayFlip.** A frame is the number of its picture, whole or in part; `cached`
is what the CPU sees, `memory` what the display scans out. Eviction may happen at
any time. Flips that were submitted wait in `submitted`; each vertical blank takes
one. `present` discards what `sceVideoOutWaitVblank` answers, so `WaitFails` lets
it go on before its flip took place; the frames then change places all the same,
and the next flip may be submitted while one is outstanding. `early` is a history
variable: it is set by such a wait and falls when nothing is outstanding. That
flips take place in order, one at a blank, is taken from how the code waits.

**ElfImage, ModuleWriter, SelfContainer, LibcBuilder, ToolChain.** The tools are
functions of their inputs and are stated as such; `ToolChain` has one action per
command. Sections are records with an address, an offset and a size; a byte is
known by where it is copied from. `nid` is taken to be injective and each string
of the string table to take 16 bytes. Which of two errors is reported first is
left out. What `ld.lld` does under `ps5-pie.ld` (`Place`, `LinkedPie`,
`PieFile`), and what the console's loader looks for, is external.

**TitleDeploy.** A file is the number of the build it is of, 0 is no file, -1
the part of one an interrupted upload leaves. One action per FTP call; `Raise`
ends the script at any of them. `Rename` may leave the previous bytes, a read
may answer with others, as the comments of `deploy-title.py` say the servers
do. `dist/` does not change while it is published, and two builds of a file differ.
How the script tells builds apart is `PassesFor`. A digest and the image's build
identity are one build's. For a shared object it looks for 32 bytes of the local
file in what is served, which another build may hold as well: `Carrying` says which
builds' libraries hold which builds' bytes. It is a constant, of which nothing is
assumed, not even that a build holds its own: of a file below 1024 bytes the script
takes none and passes nothing. Cores with their `.info`
files, which this title does not stage, are left out.

## Runs

All run under TLC with two workers in less than three minutes each.

| Run | Instance | What it shows |
|---|---|---|
| `audio_ring` | grain 2, ring 4, 5 frames, writes of 1 to 5 | `IInv` (the invariant of the proofs: types, conservation, lost wake-ups, device exclusion, a quiet device while paused, what `audio_stop` answers), `RingHoldsPending`; the device implements `PcmStream`; `CallsReturn`, `AcceptedIsSettled` |
| `sound_dma` | ring 5, block 3 | `ResourcesSafe`, `MixIsExclusive`, `BlockIsConsecutive`, `PausedKeepsCursor`, `MixReturns`, `CallsReturn` |
| `span_threads` | 2 threads, 2 addresses, sizes 0, 1, 2, 4, 7 of 0..7, threshold 2, cache of 2 spans of at most 4 and 8 bytes | `SpansSafe` (the cache's limits with it), `ContentsKept`, `RecordsTrue` |
| `table` | 3 slots, 4 pointers, two of them hashing to the last slot, 2 sizes | `TableInv`, `StatsTrue`, and the refinement of `RecordSet` |
| `pad_device` | batches of up to 2, two times, 2 attempts | `ReportsLastNews`, `ServiceIsReturned` |
| `pad_keys` | a trigger and a key that is also a stick direction, calls 2 deep, repeats after 2 and 1 ticks | `KeysAgree`, `ClearReleasesAll`, `RepeatsAreSpaced`, `KeysFollow` |
| `pad_keys_stale` | the same without the trigger | finds `ReleasesAreReal` violated, see Findings |
| `shims` | see below | `SemaphoreInv`, `TokensAreTaken`, `HandlesSafe`, `ClockInv`, `ListingTrue`, `EnvironmentTrue`, `FinalizersSafe`, `CallsReach`, `SurfaceSound`, `FlipSound`, `TraceTrue` |
| `frame_hitch` | the same | finds `HitchIsItsOwn` violated, see Findings |
| `tool_chain` | programs, stubs, manifests and options listed in `MCToolChain` | `LayoutSound`, `ImportsBound`, `RuntimeBound`, `RoundTrip` |
| `title_deploy` | a library, the runtime, the image, the metadata; 3 builds, the first and third library alike in the 32 bytes | `DeployInv`, `ImageIsLast` |
| `title_partial` | the same | finds `PartialNeverLooksComplete` violated, see Findings |

Each property is stated in words in front of its definition.

**Why the bounds are enough.** A ring of two grains is the least `audio_init`
makes; grain 2 is the least with a partial block, and five frames carry both
cursors past the wrap and fill the ring more than once. In `sound_dma` 5 and 3
are coprime, so a block starts everywhere and straddles the end with both
remainders, and there is no bound on the number of calls. Two addresses and two
threads are what a race for one span needs beside a block that moves; a cache
of two lets a hit be behind another span, and size 7 rounds past `SizeMax`.
`Header + Page <= SizeMax` keeps the smallest request mappable, as in the
source. Three slots let a probe meet a tombstone and a live slot and wrap; the
fourth pointer finds the table full. Two samples show order, ties and the rear
of the buffer. Two keys show a nested call at an earlier, the same and a later
key; a third level does nothing the second does not. Of three builds
one lies between two libraries the script cannot tell apart, and one is newer than an
older and older than a newer one. Data files, compared by their digest as the metadata
is and published before the image as the library is, are left to the theorems. Any number
of runs and interruptions is allowed.

In `shims`: four threads on a semaphore with first count 1 and 4 posts allow two
sleepers, one woken and a newcomer at once; two handles, two statuses;
three readers of the clock and times 0 to 2. A folder of six records has a free one and one
that does not parse, not at the ends, and a buffer of two makes every alignment
of batch and record. Four names and room for three fill the environment and move
its last entry into a hole; one value is too long. Three destructors of two
cores, two threads and calls inside each other to depth 2. Two threads make the
first Vulkan calls. Three displays of which the first lacks the mode, and four
planes: another display's, a later display's, the right one's and a free one.
Four pictures bring each frame round twice; two flips may be outstanding, one of each
frame. Five presents pass an interval line
and more hitches than an interval may report.

In `tool_chain`: programs whose segments end just before, on and behind a page,
an empty thread-local section, a file cut off, symbols several modules export,
a program that exports, a needed module that no stub has, stubs that repeat a
name, a stub without a name, no stub at all, room for the parameters that is just
enough and just not, and manifests with the imports in several orders.

Names of bounds that are the model's and not the code's: `MaxFrames`,
`MaxWrite`, `MaxEvents` (event counters of the table), `MaxDepth`, `MaxPosts`,
`MaxTime`, `MaxBuilds`, `MaxRegistered`, `MaxPictures`, `MaxPresents`,
`MaxAsked`, `MaxMarks`, and `MaxFlips`, the length of the display's queue, which the
code does not know. The counts `Capacity`, `CacheSlots`, `Attempts` and so
on are the code's constants made small.

**Deadlock** is checked everywhere but in `shims`, `frame_hitch` (handles are
used once, posts and presents are bounded) and `tool_chain` (a build ends). In
`AudioOut` the stop after `audio_free` is the explicit step `Terminated`.

## Fairness

- `AudioOut`: strong fairness of the worker's, the writer's and the pause's
  steps, weak of the rest of `audio_free`. That says: device calls return, a
  thread that can run runs, and a thread that asks for a mutex again and again
  gets it. No call of the API is forced to happen. Strong fairness is needed
  because another thread may take the mutex between any two tries; pthread
  mutexes starve nobody forever on this console's scheduler, but POSIX does not
  promise it, so it is an assumption.
- `SoundDma`: the same for the engine and the worker, but **not** for device
  calls: `MixReturns` holds although a device call never returns. `CallsReturn`
  states its own premise, `DeviceReturns`.
- `PadKeys`: the frame calls `IN_Commands` again and again (strong, since a
  dialog may be open for a while), and a call goes on (weak). `Poll`, `Tick` and
  the menu are free.
- `TitleShims`: a thread that wants the semaphore's mutex gets it (`LockOnce`).
  Posts are not forced, and no other shim makes a liveness claim.
- The other modules make no liveness claim: an interrupted deployment stays
  interrupted until someone starts it again.

## Proofs

TLAPS proves these for every value of the constants. Where a property is also
checked by a run, TLC checked it on the instance first. Each component has its
inductive invariant (`IInv`, or a name that ends in `Inv`), with one lemma for each
part of it or for each action that disturbs it.

- **`AudioOutProofs`.** `IInv` is inductive, for every grain and every ring of
  at least two grains (`AudioAssumption`), with no bound on frames used. The
  properties alone are not inductive: that a paused device has no block in it
  (`DeviceQuiet`) depends on where the threads are. `Positions` reads the mutex,
  the sleepers and `inOutput` off the program counters, `Progress` says what the
  controller has established at each of its steps: once it is past its wait the
  device is inactive, the ring empty and the worker out. One lemma per part
  (`PositionsStep`, `ProgressStep`, `ConservationStep`, `QuietStep`, `SleepStep`,
  `FailedStep`), one step per action. `RingHoldsPendingCorrect` rests on the
  arithmetic of both two-part copies: `TakeKeepsPending`, `CopyKeepsPending`.
- **`DeviceIsStream`** (there too): the device implements `PcmStream`. The mapping
  is `Pending` (the ring read from `head`), `InDevice` and `Mode`. Since the ring
  holds exactly the newest frames, `Pending` is a function of two counters
  (`PendingIsNewest`), so a copy into the ring is an append and a block taken is a
  prefix removed, wherever the wrap lies. One lemma per kind of step
  (`CopyRefines`, `TakeRefines`, `ReturnRefines`, `DropRefines`, `QuietRefines`,
  `DrainRefines`, `StartRefines`); all others, the block of silence among them,
  are stutters (`RestIsUnseen`).
- **`SoundDmaProofs`.** For every ring and block. The invariant says which prefix
  of `Acquired` exists at each step of the engine (`HeldByStep`), who has the
  mutex (`MutexByStep`), and what a block holds when it is partly painted
  (`BlockSoFar`). `ResourcesSafe` alone is not inductive: that a failed opening
  leaves nothing rests on what its half had acquired. That no copy runs over the
  end of the ring, and that the cursor wraps there alone, is `ModAdd`.
- **`MemoryProofs`**, first the table, whose invariant is `TableInv`. Probing from a pointer's hash meets every slot
  once (`ProbeInjective`, `ProbeReachesAll`). A slot never returns to "never
  used", so no probe gets shorter; hence every record is met by its probe
  (`Findable`), first and only (`OneSlotEach`). Then every `add` and `take` is a
  step of `RecordSet`, and `TableIsSet` is the refinement, for every capacity
  and every hash function. `StatsCorrect`: the statistics are the number of a
  route's records and of their bytes. The bytes are stated as the cardinality of
  the pairs of slot and byte (`BytesOf`): a sum over the slots is defined by
  recursion, of which nothing could be proved, and this is the same number.
- **The allocator** (there too). For any threads, any finite set of addresses and any
  limits. A span between two lists belongs to the call of one thread; the
  invariant therefore counts among what a thread holds its call's old and new
  block (`Holds`), and says that no address has two holders or is in the cache
  as well (`OneHolder`, `ListsOK`). `ThreadOK` is what one call keeps: which
  fields are set when (`CallShape`), that its blocks differ (`Apart`) and are of
  the heap their size asks for (`KindOK`), that the client's bytes are behind the
  pointer before, in and after a resize (`BlocksOK`, `KeptOK`, `NewOK`), that the
  record taken is the old block's (`OldOK`) and records name what is held
  (`NamesOK`). One lemma per action; a step of one thread leaves the others' part
  alone by `FrameParts`, as it touches no address they hold.
- **`PadProofs`**, first the device. For any buffer, attempts and timestamps. A batch has
  exactly one sample to act on (`BestExists`, `BestUnique`), the one `Newest`
  finds, and the ghost `report` is taken from. `HandleAndService` relates the state object to the
  service: who began it ends it.
- **`PadProofs`**, then the keys. For any keys and any depth. `EngineAgrees` needs the type
  of the stack: a call inside an event is at a key (`CallsTyped`); `ClearReleasesAll` that a call of `IN_ClearStates` is the
  innermost and what it has passed is up (`ClearsGoThrough`); `RepeatsAreSpaced`
  that what is left and what has passed make up the delay (`DelaysKept`).
- **`TitleDeployProofs`.** For any files and builds, and whatever libraries hold
  whichever 32 bytes. `DeployInv` needs `DoneSoFar` (the files gone through hold
  what the script takes for this build, `Taken`) and `NothingIsNewer`. `ImageIsLast`
  follows (`StandingIs`) from `NoneComesBackOlder`, which says the same of every file
  that stands and of one that is away for a moment, against the image that stands
  or may come back (`Standing`): a failed rename may bring the old bytes back. Both
  compare a library with the bytes of the image's build, not by its age: an older
  one may stand there, but only one the script would take for that build's.
- **`ShimProofs`**, one section for each shim:
  - `SemaphoreCorrect`: while a thread sleeps, each token has a woken thread
    of its own: `count` is at most the number of the woken. A post wakes one when
    there is one asleep, and a thread that leaves "woken" takes a token or goes to
    sleep at count zero.
  - `HandlesCorrect`: the reference count is the number of sides that still hold
    the handle; the thread's reference exists before the thread does.
  - `ClockCorrect`: what was returned is at most `latest`, and what a call saw is
    at least what had been returned when it began. `DeadlineIsExact`: the deadline
    is normalised and lies exactly the milliseconds later.
  - `ListingCorrect`: what was answered since the rewind is every live record up
    to the one the stream has come to, once and in order. `ListingTrue` is
    inductive as it stands: it speaks of `Consumed`, the records handed out less
    those buffered.
  - `EnvironmentCorrect`: closing the hole is the step that needs both that names
    are distinct and that nothing past the count is read.
  - `FinalizersCorrect`: the list is ordered by age and every id is either in it
    or run (`FinalizersIInv`); what a destructor of the same core may find ahead
    of it was registered after it began to run.
  - `CallsCorrect` rests on `Resolves`: for a legal command `Resolve` answers the
    driver's function whatever is known at that time.
  - `SurfaceCorrect`: which lists are held at each step of the search
    (`HeldByStep`), so that what a way out frees is all there is, and that what
    the search passed did not fit (`SearchByStep`).
  - `FlipCorrect`: whatever the waits answer, the frame the display *comes to*
    (`Coming`) is whole in memory and not the one the CPU writes; the frame it
    scans out is so too but after a wait that ended early. `DisplayIInv` says what
    holds at each step of `present` and which flips are outstanding then (`Queue`).
  - `TraceCorrect`: from the second present on, the counts last taken are those
    before this frame (`FrameIInv`).
  - `PartsImplemented`: a behaviour of `TitleShims` is one of each of the ten
    modules, so `ShimsCorrect` has all their invariants of the composition that
    the run checks.

- **`ContainerProofs`** and **`ToolChainProofs`**, one argument in two modules. For programs, stubs and manifests of any size, all four
  properties the run checks. `StagesCorrect` says what the files are at each stage:
  what the tools make of the files before them. The rest is about those functions:
  - *Loops.* The tools go over lists. A model's loop is a recursive function; that
    one exists and obeys its equations is `Iteration`, a union of partial functions.
    Induction is `Induction`, with a set in the place of the predicate; it rests on
    the well-founded order of finite sets, which the library has as a theorem.
    `InOrder` lists a set of positions (`InOrderIs`, `PickedIs`), so that a
    filter over a list is a statement about ranks.
  - `RuntimeBoundCorrect`: a call's word and its relocation are found by two counts
    of the called imports, which agree since both are a rank (`JumpsAre`).
    The exported objects lie apart because the cursor only moves forward.
  - `RoundTripCorrect`: a container's segments lie one behind the other
    (`SegmentCursorsAre`), none of what it is written from overlaps
    (`CopiesApart`), so a byte extracted comes from the one copy that covers it.
    The property looks at the ends of what comes back, as TLC would take too long
    for more; `ExtractionWhole` says the same of every byte.
  - `ImportsBoundCorrect`: an inner loop's invariant for the hash table (a bucket
    leads to the first symbol of its class, a chain to the next), walks of the
    chain are injective and end; encoding an id in base 64 and decoding it
    gives the id; the string table keeps each string once, at the offset recorded.
  - `LayoutSoundCorrect`: the linker script is gone through row by row
    (`LaidIs`, `FirmTurn`): offsets stay a page above addresses until the sections
    without bytes. Each region then is the span of its rows (`RegionsAre`), regions
    follow each other, and the writer's own segments lie behind or between them
    (`BehindIs`, `TitleHeaders`). That nothing overlaps is stated by slots: each
    section lies in one, and slots are apart (`SlotsApart`). A refusal is traced to
    the fault that caused it (`WriterIs`, `WriterJustified`).

**What the proofs assume** is the named `ASSUME`s of the modules and nothing
else; TLC evaluates them in the runs. They say that counts are numbers, that a
ring holds two grains, that a set of threads or addresses is finite, that no
file is staged twice and the image, its metadata and the runtime are different
files (`DeployAssumption`; its first part says only that the files staged before
the image are a sequence, and its last is the type of `Carrying`), and
that displays, planes and folders are sequences.
Of a linked program they say that it has code, unwind records, a GOT, a dynamic
table and the null symbol, as the SDK's start-up code and the linker give it, and
no zeroed thread-local section without an initialized one, as the compilers
emulate thread-local storage (`ProgramAssumption`). The writer's refusal of a
program without such a section is in the model and cannot occur under it.
What the environment does is in the actions of the modules, above.

**Checked by TLC only:**

- The five liveness properties (`CallsReturn`, `AcceptedIsSettled`, `MixReturns`, `KeysFollow`,
  `TokensAreTaken`): liveness under fairness and `ENABLED` are out of this
  prover's reach.
- That the bounded instances reach the cases of interest: the mutants show it.

## Findings

1. **A press may act twice** (`pad_keys_stale`). `IN_Commands` reads buttons and
   stick once (`platform/ps5/ps5_input.c:82`) and uses them after `Key_Event`
   returns. The comment at line 47 shows that the reentrant poll was thought of:
   `held[]` is committed first. But a *later* key pressed while the dialog polled
   is then compared with the old reading, released while it is down, and pressed
   again by the next frame. `KeysFollow` shows that the error does not last, and
   `KeysAgree` that engine and adapter agree all the while.
2. **A partial title can look complete** (`title_partial`).
   `tools/deploy-title.py:209-210` says that it never does, because the image goes
   last. That holds for a first publication. Over an older one, the old image
   and metadata stand until their own turn, beside newer files. What does hold
   is `ImageIsLast`. An image stands with no older file that the script could tell
   from the image's own, but perhaps with some missing. Two files are excepted: the
   runtime, which the console may keep, and `param.json`, which goes after the
   image and may be older than it, never newer.
3. **The first hitch is not its own** (`frame_hitch`). The comment at
   `platform/ps5/ps5_window.c:371-372` says that the counts are taken every frame
   so that a hitch's are its own. The block that takes them is entered from the
   second present on only (line 376), so a hitch at the second present reports
   everything since the process began. `TraceTrue` shows that from the third on
   the comment is right.

Read while modelling, without a run:

- *A stale library can be reported as published.* The script looks for 32 bytes
  from the middle of a shared object in what the console serves
  (`tools/deploy-title.py:264`). The comment at lines 194-195 says a stale library
  does not hold them, and the message at line 310 that every file is byte for byte
  the one here. Nothing makes those bytes differ between two builds: if an older
  library holds them and the upload left it in place, the run ends with that
  message. `PublishedIsBuilt` says what a success does mean.
- *`present` hands out the frame on the screen after a failed wait.*
  `src/display.cpp:325` discards the answer of `sceVideoOutWaitVblank`; the
  comment at 328-329 says "The display is on this buffer now". If the wait failed
  or ended before the flip, the display is still on the other frame, which the
  caller now writes. `FlipSound` says what is left: once the outstanding flips
  have taken place, the frame shown is whole and not the caller's.

And in passing: the header of `deploy-title.py` says sizes are compared, digests are;
`sdl_ps5.c`'s header names `CLOCK_MONOTONIC`, the counter is the core's;
`SDL_vulkan.h` calls the window 1920x1080, it is 3840x2160; `display.cpp`'s
`close` speaks of releasing buffers and releases none; in `ps5_window.c` the
first present that fails sets `reported`, so the first one that succeeds is not
traced.

## Not modelled

- **vkQuake and the Vulkan driver** are not in the repository; they appear as
  the callers and services of the modules.
- **Memory reports, traces, file counts, probe, build identity**: counters and
  lines of text nothing else reads, or a forwarding call.
- **Files, CPU, message boxes of the SDL shim; mutexes and conditions**: one
  call of the C library or a constant each.
- **`IN_Move`**: floating-point arithmetic on the sticks.
- **Run and evidence tools**: sequences of transfers that end at the first error.
- **Parts of the tool chain**: compressed segments of foreign containers, the
  contents of parameters, notes and version records, digests as numbers, the
  start-up code. Thread-local sections are placed but not required to be loaded:
  the compilers emulate them (`docs/PHASE_LOG.md`).
- **`locale_shims.c` and the rest of `libc_shims.c`**: one call of the C library
  each. It and `ps5_directory.cpp` step aside in a build with the RADV driver.
- **The bring-up test of the audio device** and statistics that decide nothing.

## Plan

Done, in the order of importance: `AudioOut` with `PcmStream` and its proofs,
`SoundDma`, `SpanAllocator`, `OwnershipTable` with `RecordSet` and proofs,
`PadDevice`, `PadKeys`, the SDL modules, `TitleDeploy`, the tool chain, and the
shims with their proofs.

Proved: every safety and action property the runs check, the implementations of
`PcmStream` and `RecordSet`, and the ten parts of `TitleShims`.

Left: `MemoryReport` (`memory_diagnostics.cpp:228-337`), the throttling of failure
reports. Abstract specifications worth adding: a client's view of the allocator
(a block keeps its bytes until freed), for which `ContentsKept` has the
invariant, and a counting semaphore.
