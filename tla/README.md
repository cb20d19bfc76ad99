# DuckStation in TLA+

A model of DuckStation, a PlayStation emulator, as far as its correctness is a
matter of *order*: threads that share a ring or a disc, a scheduler whose
callbacks reschedule it, devices that call each other, counters that are brought
up to date late, frames that are rolled back, limits that two threads count up and down.  The modules
are translated from the C++ under `src/src`; TLC checks them on small instances,
and TLAPS proves the safety properties of all of them, and the two
refinements, for every value of their constants.  What the emulated chips *compute* is left out.

- [The system](#the-system)
- [The modules and the code](#the-modules-and-the-code)
- [The runs](#the-runs)
- [Assumptions and abstractions](#assumptions-and-abstractions)
- [What the code does that it says it does not](#what-the-code-does-that-it-says-it-does-not)
- [Proofs](#proofs)
- [What is not modelled](#what-is-not-modelled)
- [Plan](#plan)

## The system

One **core thread** emulates the machine.  It runs CPU instructions until the
first timing event is due, runs events, whose callbacks are the devices, and
goes on.  Around it are helper threads: the **video thread** executes drawing
commands and presents frames, the **read-ahead thread** reads the disc, the
**audio thread** is a callback of the sound library, **worker tasks** write
memory cards and fetch from the web, and the **user interface thread** posts
functions to the core thread.

| Part | State | Operations | Talks to | Hard | Correct when |
|---|---|---|---|---|---|
| Video thread (`video_thread.cpp`) | ring of commands, read/write pointers, wake count, two semaphores, `use_thread`, run-idle flag | allocate, push (without wake, with wake, and sync), sync, reconfigure, switch the thread on/off, shut down | core thread pushes, video thread executes | variable-sized commands that wrap, sleep against wake, sync against sleep, reset of the ring | commands run once and in order; no memory is reused early; no wakeup is lost; every call returns |
| Frame limit (`gpu_backend.cpp`) | frames in flight, a four-state word, a semaphore | begin a frame, wait for one, release one | core thread before it pushes, video thread after it presents | a release races with a wait that has become unnecessary; the limit changes in flight | frames in flight stay bounded, posts and waits stay in step |
| CD read-ahead (`cdrom_async_reader.cpp`) | the image, its position, a requested position, a ring of sector buffers, five flags, mutex and two condition variables | queue a sector, wait for it, wait for idle, read uncached, cancel, resize, set/remove/precache the image, shut down | the drive (`cdrom.cpp`) on the core thread, a worker | a request while the worker seeks without the mutex; failed seeks and reads; the image has no lock | a wait returns the newest request's sector or its error; one user of the image; every call returns |
| Timing events (`timing_event.cpp`) | doubly linked list, per-event times, two global counters, pending ticks, downcount | schedule, delay, invoke early, activate, deactivate, run, cancel, commit left-over ticks | every device, CPU loop, run loop | callbacks change the list that is being run; execution leaves a callback by a long jump | list sorted; no event late; time neither lost nor invented |
| Interrupt controller (`interrupt_controller.cpp`) | status, mask, line states | set a line, acknowledge, mask | every device, CPU | edges against acknowledgements | an edge is never lost |
| Controller port (`pad.cpp`, `sio.cpp`) | transmit/receive buffers, status, state of the transfer | register access, transfer and acknowledge event, reset | timing events, interrupts, controllers, memory cards | registers read while the event is due | each byte is exchanged once, with one interrupt |
| Memory card (`memory_card.cpp`, the card's side of `pad.cpp`) | data, changed flag, pending save per slot, a backup, the frame of the last transfer | transfer, delayed save, flush, close, backup for rollback | worker tasks, run-ahead | saves out of order, failed saves, rollback across a write | the file ends up with the newest data; a rollback gives the card what it had |
| DMA (`dma.cpp`) | seven channels, halt ticks, interrupt register | start, request, slice, halt, resume | GPU, MDEC, SPU, CD-ROM, timing events | re-entry through requests, halts within halts | each word is moved once; no channel waits for nothing |
| Macroblock decoder (`mdec.cpp`) | state, two FIFOs, two requests, copy-out event | command, data, reset, decode, copy out | DMA from both ends, the program | its requests run transfers, which run it | decoder and channels never wait for each other |
| Timers (`timers.cpp`) | three counters, modes, delays | add ticks, gate, register access | timing events, interrupts, GPU | many ticks at once across target and overflow | as many interrupts as tick by tick |
| CD-ROM controller (`cdrom.cpp`) | command, responses, drive state, sector buffers | commands, their first and second responses, acknowledge | timing events, read-ahead, interrupts, SPU | responses pending while a command arrives | a response is delivered once, in order |
| Audio stream (`core_audio_stream.cpp`) | ring of frames, two positions, stretcher | begin/end write, read, drop, pause, reset | core thread writes, audio thread reads | full against empty, reader that drops input | frames come out in order, none is read while written |
| Run loop and rollback (`system.cpp`) | system state, memory states, counters of rewind and run-ahead | run, pause, save, load, rewind, run ahead | everything | replay of frames, interrupted callbacks | the machine that is shown is the one that was saved |
| Code cache (`cpu_code_cache.cpp`) | blocks, pages, protection | compile, link, invalidate, protect | CPU, bus, page faults | code that overwrites itself; changes of protection | no stale block is run |
| HTTP downloader (`http_downloader.cpp`) | requests and their states | create, poll, cancel, shut down | worker, UI and core thread | cancel against a late answer | each callback runs at most once |

The rest of the repository is listed in `PROJECT.json` with the reason why it is
not modelled; the hazards each part is exposed to are listed there with their
lines, also those no property covers yet.

## The modules and the code

| Module | Models | Remarks |
|---|---|---|
| `CommandQueue` | what the video thread promises | abstract: issued, executed in order, synchronising calls |
| `VideoThread` | `video_thread.cpp` | implements `CommandQueue` under the refinement mapping `syncing <- InSync` |
| `VideoThreadProofs` | | the theorems about the ring of `VideoThread`, then those about its wake protocol, and that it implements `CommandQueue` |
| `FrameQueue` | frame limit of `gpu_backend.cpp`, its callers in `gpu.cpp` and `system.cpp` | stands on the promise of `CommandQueue` |
| `FrameQueueProofs` | | the theorems about `FrameQueue` |
| `CDROMAsyncReader`, `MCCDROMAsyncReader` | `cdrom_async_reader.cpp`, `cd_image.cpp`, the callers in `cdrom.cpp` | the MC module holds the usages |
| `CDROMAsyncReaderProofs` | | the theorems about `CDROMAsyncReader` |
| `TimingEvents`, `MCTimingEvents` | `timing_event.cpp`, the CPU loop's and run loop's part in it | the MC module holds symmetry and view |
| `TimingEventsProofs` | | the theorems about `TimingEvents` |
| `AudioQueue` | what the game's audio stream promises | abstract: frames in order, each at most once, some lost |
| `CoreAudioStream` | `core_audio_stream.cpp`, its caller in `spu.cpp` | implements `AudioQueue`: the queue is what lies between the callback's position and the writer's |
| `CoreAudioStreamProofs` | | the theorems about `CoreAudioStream`, and that it implements `AudioQueue` |
| `DMA` | `dma.cpp` composed with `mdec.cpp`; display list and manual transfer as devices | nested calls are a stack of activations |
| `DMAProofs` | | the theorems about `DMA` |
| `Timers`, `MCTimers` | `timers.cpp`, one line of `interrupt_controller.cpp` | the emulator's counter next to the console's; the MC module holds the modes |
| `TimersProofs` | | the theorems about `Timers` |
| `MemoryCard` | the saves of `memory_card.cpp`, the card's side of `pad.cpp`, run-ahead of `system.cpp` | one card, one core thread, worker tasks |
| `MemoryCardProofs` | | the theorems about `MemoryCard` |

In every module a variable has the name of the code's variable without its
prefix (`s_state.command_fifo_write_ptr` is `command_fifo_write_ptr`) and an
action the name of the function, or of the step inside it.  A definition whose
name extends that of the definition after it (`NoRoomOffByOne`, `NoRoom`) is a
plausible bug in the latter.  It is no part of the specification; it records
that a property is able to notice.

**VideoThread.**  Each access to a variable that the other thread may write is
a step.  `core` is a stack of program points because the core thread's calls
nest: `Reconfigure` pushes and synchronises, which allocates and wakes.
`AllocateCommand` is `Alloc`, `FullLoad` (its inner loop), `UnprocessedLoad`,
`Wrap` and `Fill`; `WakeThread` is the raising of the count and the post, two
steps; `SyncThread` is the spin, the compare-exchange loop and the wait;
`VideoThreadEntryPoint` and `SleepThread` are the video thread's steps.  The wake
count is the two's complement word it is, with -1 for a sleeping thread and a
flag bit for a waiting core thread.  `issued` and `executed` are history.

**FrameQueue.**  `BeginQueueFrame`, `WaitForOneQueuedFrame` and
`ReleaseQueuedFrame` are taken apart at each atomic access.  The four-state word
is `wait_state`.  Without the thread the same steps happen inside the core
thread's push.  `ChangeLimit` stores a new limit first and drains the queue
after, as `CheckForSettingsChanges` does.

**CDROMAsyncReader.**  A step is what a thread does between letting go of the
mutex and taking it again; the worker's stores that the core thread reads
without the mutex are separate steps.  `LockFree` says who holds the mutex. A
buffer records the LBA it is labelled with *and* the sector that was read into
it, so that a wrong pairing shows.  The drive is modelled by how it calls: it
queues a request, waits for it, may be asked by the game to read while it seeks
(`GetNextSectorToBeRead`), and may fail.

**TimingEvents.**  The list is four functions, its operations are the code's
pointer updates.  `at` says where the core thread is: in the CPU, in the loops of
`RunEvents` and `CommitGlobalTicks`, in a callback, or stopped.  In the CPU and
in a callback every operation on any event may be called (`DeviceStep`), under
the code's own assertions.

**CoreAudioStream.**  Each side owns one position and reads the other's.  The
writer's batch is `BeginWrite`, one `WriteFrame` per frame and `EndWrite`, which
publishes the position; `SPU::Execute` drops what does not fit (`LoseFrames`).
The callback is `ReadFrames`, with or without the stretcher: a restart drops to
what the stretcher needs (`Restart`), a reader that has fallen behind drops to
what it can take (`LimitInput`), then frames are copied one by one and the
position is stored last.  Frames are numbered as they are made; `heard` is
history.

**DMA.**  All of it is one thread, but the calls nest: `UpdateStatus` of the decoder raises
a request, `SetRequest` runs the transfer, which hands a block to the decoder,
which executes and updates its status again.  `stack` holds the activations, a
step runs the first one up to its next call, and what an activation has in a
local variable of the code (address, blocks and ticks that are left) it keeps in its
frame, so that a second activation of one channel would work on its own copy.
The program writes registers and events run when the stack is empty.  `moved`
is history: the addresses of the blocks a channel has moved.

**Timers.**  `hw` is the counter as the comments describe the console's: it counts one
tick at a time (`CountOne`), and is the reference definition.  `cs` is `CounterState`; it has not been given the last
`pending` ticks, and its event runs when they are `due`.  `AddTicks`,
`CheckForIRQ` and `GetTicksUntilNextInterrupt` are functions of the record, translated branch by branch.
What an access changes (`WithMode`, `WithGate` and so on) it does to both, but
to `cs` only after the synchronisation the code does, if it does any: a gate that
opens in one mode, and most reads (`CountingOnly`), go without.  A state holds one
timer; that another one is accessed, which brings all of them up to date, is `InvokeEarly`.

**MemoryCard.**  A card's data is the number of the write that made it.  `core`
is where the core thread is: `wait` is the wait of `SaveIfChanged` for the save before,
`load` and `restore` are `LoadMemoryState` before and after the save that a
load begins with.  `memory_states` are the states of run-ahead; each records,
for the property, the whole card (`truth`) besides what the code puts into it.
`CardTransfer` is the card's side of some bytes; a card is `Idle`, waits for a
`Command`, or is in the `Data` of one.  `Pad::DoState` leaves `active_device` out of every
state, so `Replay` leaves `active` as it is; `device` is what it would be if it
were saved, which is what the game goes by.

## The runs

| Run | Expected | What it shows | Distinct states |
|---|---|---|---|
| `video_ring` | pass | use of the ring, wake, sleep and sync; refinement of `CommandQueue` | 2.8 million |
| `video_switch` | pass | thread switched off and on, device changes, run idle, shutdown; refinement; liveness | 179,000 |
| `video_alloc_hang` | violation | `AllocateCommand` may spin for ever | |
| `frame_queue` | pass | bound, pairing and progress of the frame limit | 472 |
| `reader` | pass | sectors served, one user of the image, errors, progress | 124,000 |
| `reader_media` | violation | two users of the image | |
| `timing_events` | pass | sorted list, no late event, conserved time | 979,000 |
| `audio_ring` | pass | the ring shares no frame; refinement of `AudioQueue`; a full ring is drained | 801,000 |
| `dma` | pass | requests, halts and ticks in step; no channel entered twice; no starvation; no decoder and channel waiting for each other | 856,000 |
| `mdec_read_ahead` | violation | a word is taken from an empty FIFO | |
| `timers` | pass | a counter brought up to date late shows what one does that counts every tick; interrupts in time | 246,000 |
| `memory_cards` | pass | saves in order, rollbacks restore the card's data, waits are answered | 1.7 million |

Deadlock is checked in all of them but `memory_cards`, where a card that has been
closed is the end; a core thread that has shut down, or that has reached the
bound, is otherwise an explicit stuttering step.

Ten more configurations are kept for the disagreements below that are no runs of their own:
`VideoThread_sync_early.cfg`, `VideoThread_sync_hang.cfg`,
`FrameQueue_sanity.cfg`, `MCCDROMAsyncReader_behind.cfg`,
`MCCDROMAsyncReader_consumed.cfg`, `MemoryCard_multitap.cfg`, `MemoryCard_reset.cfg`,
`MemoryCard_stall.cfg`, `MemoryCard_device.cfg` and `MemoryCard_backup.cfg`.  TLC finds each violated.

**Bounds.**

- `video_ring`: a ring of 5 units, commands of 1 and 2, at most 5 commands (so
  that calls begun near the bound may still finish).  5 is the least size where
  a command of 2 can be placed at both ends and wrap, and where the queue
  works with commands of 2 at all (see below); five commands make two laps.
- `video_switch`: a ring of 4 and commands of 1, at most 3 commands besides the ones that
  the switches themselves push.  The ring still wraps; the subject is the order
  of the calls, not the sizes.
- `frame_queue`: limits 0, 1 and 3, changed at any time.  Nothing else is
  bounded: the limit itself bounds the state.  0 is the case where every frame
  waits, 1 the default of a low-latency user, 3 lets two excesses coexist if
  they could.
- `reader`: a disc of 3 sectors, rings of 2 slots and of none, exchanged at run time; 2 slots
  wrap and fill.  Requests are for the first two sectors and for one beyond the
  disc, so that a request can hit the ring's front, the sector after it, or
  neither.
- `timing_events`: three events, tick counts 1 and 2, counters up to 3.  Three events
  put one in front of, behind and between others in every order; a count of 2
  passes over an event due at 1, which is what "late" means.  Symmetry exchanges the
  two events that are not the clock.  The view identifies states that differ in
  the times of inactive events and in the saved time of no running event, which
  are written before they are read.
- `audio_ring`: a ring of 6 frames in chunks of 2, and 8 frames made, so that it
  wraps; callbacks of 2 and of 7, the latter larger than the ring; a refill of one chunk and
  inputs of 1 and 2, so that a reader that is behind drops none, some and all
  but a part of a chunk.
- `dma`: two blocks of two words, slices of one and two of them, so that a
  transfer ends with a slice and between two.  The memory is 4 words and bases
  are 0 and 3: the first fits exactly, the second is a bus error.  A macroblock takes 3
  words of code and gives 2, so that blocks and macroblocks do not line up; a
  command has 4 words, which fill the FIFO, or is a table of 3.  Four register writes: both channels,
  the command and the decoder's control, which is what it takes to have all of them running; or
  a display list, a halt, a chopped transfer and one more.  `mdec_read_ahead` needs a fifth.
- `timers`: counters wrap at 4 instead of 65536, so that the targets are 0, the
  last value, and two between them; up to 9 ticks are pending, in which a
  counter wraps twice or resets three times, and the CPU may be a tick past an event.  The prescaler
  divides by 2.  Timer 2 is run with all 24 modes that interrupt, with the
  prescaler, and on a CPU that is overclocked by 3/2; timer 0 with its gate in all four modes.
- `memory_cards`: states for one frame, six frames and two writes.  A transfer then
  begins before, in and after the frame of a state, twice, and far enough apart for a second
  backup; two writes make two saves that could change places.  With states for two frames
  the run takes too long for two writes; with one write it has been run
  through 7 frames as well and passes.

**Fairness.**  The threads are threads of an operating system, so weak fairness
of each one's steps.  It is put on a thread as a whole: which call the core
thread makes next is up to the game, and making one at all is not assumed.  The
spin in `SyncThread` is measured by a clock and therefore ends (strong fairness
of its expiry, since the loop keeps leaving the state where it is enabled).
Spurious wakeups of a condition variable are possible at any time, but not for
ever.  `TimingEvents` makes only safety claims.  The audio callback is called
again and again unless the stream is paused.  In `DMA` a call that has begun
goes on to its end, and an event that has been scheduled is run when its time
has come, even if other events and register writes keep coming first (strong
fairness, since an event can run only between calls); that the program writes a
register is not assumed.  In `MemoryCard` worker tasks run and the core thread, which waits
for nothing else, sees the flag go down; that there is a next frame or transfer
is not assumed.

## Assumptions and abstractions

- Atomics are sequentially consistent, and a weak compare-exchange fails only
  when the value differs.  The code uses acquire/release orders in the ring;
  a violation that needs a weaker order would not be found.
- `WakeCountAssumption`: the wakes of one behaviour do not add up to the flag
  bit of the wake count, bit 30.  The count drops to 0 only when the video thread
  has caught up, so this assumes that it does now and then.
- The passing runs of `VideoThread` have `SyncUnwoken = FALSE`: a call that
  synchronises does not directly follow a `PushCommand` that woke nobody.  The
  runs without that assumption are the two violations of `SyncThread`.
- `FrameQueue` takes from the command queue what `CommandQueue` says: submitted
  frames are executed in order, and a synchronising call returns when all have
  been.
- The `reader` run has two usages.  In `LateWorker` the worker may be delayed at
  will and the game may peek; seeks succeed and the whole image is not used.  In
  `PatientCore` seeks may fail and the image may be mapped and precached, but a
  worker that was told to read ahead gets to run before the core thread makes its next call
  and the game does not peek.  The combinations left out are those of the three
  violations, one usage each.
- `TimingEvents`: `Clock`, always active, stands for the events that are (the
  GPU's scan-out): it keeps the list from ever being empty.  `InvokeEarly` and
  `Delay` are not called on the running event, as their assertions say.
  Whether an event runs early when asked is a function of its period in the
  code and a choice in the model.

- `CoreAudioStream`: the stretcher is an external library.  How many frames it
  wants after a change of speed is a multiple of the chunk, and what it can take
  at most is at least a chunk less one; both are several callbacks in the code.
- `VideoThread`: a `Create` in `SetThreadEnabled` that fails leaves no device; the report of a fatal error
  and the shutdown that the code then asks for are left out.
- `DMA`: it begins when the program has enabled every channel.  The two places where a list's entry can be a
  bus error are one.  Times are left out: an event that is active
  may run.  The decoder's path is that of a
  coloured macroblock; words left over after a command are taken for commands without parameters.
  The program does not rewrite the address of a running transfer, and the
  passing run does not read a macroblock that is still to be copied out.
- `Timers`: the program acknowledges an interrupt while no event is due.  (If it did so
  in the few ticks that the CPU is past one, it could clear an interrupt that has yet to be
  raised.)  The gate's changes come from the GPU at the time they happen.
- `MemoryCard`: in the passing run there is no multitap (`Multitap`), a transfer
  does not rest for more frames than run-ahead keeps (`Stalls`), and the system is
  reset only while the frame of the last transfer is recent from the new
  frame 1 too (`LateResets`).  After a rollback `active_device` may still be the card though the game is
  between two transfers; the run assumes that the game then deselects before it
  transfers (`StaleDevice`).  Each of the four has a configuration that shows why.

## What the code does that it says it does not

TLC finds each of these violated, with the trace in its output: three by a run,
whose exact lines are in `PROJECT.json`, the others by the configuration that is named.

- **AllocateCommand spins with an empty ring** (`video_alloc_hang`).  With a
  reader ahead and close, it waits for room in an inner loop that does not look
  at wrapping again.  If the reader wraps first, the room it sees is what is
  left up to the end of the ring.  Should that not suffice for the command, it
  never changes.  In the program it takes a command almost as long as the rest
  of the ring, which its assertion permits.
- **SyncThread returns early, or never** (`VideoThread_sync_early.cfg`,
  `VideoThread_sync_hang.cfg`).  `PushCommand` below the threshold does not raise the wake count, by which
  the video thread decides that all is done; and the `continue` in the
  compare-exchange loop exchanges the value that was loaded while the thread
  slept.
- **One frame over the limit** (`FrameQueue_sanity.cfg`).  A release that has counted down
  but not yet looked for a waiting core thread wakes it for a frame that it had
  counted before.  It does not add up: `QueueIsBounded` has the excess at one.
- **Two users of the image** (`reader_media`).  `WaitForIdle` does not
  look at `can_readahead`, so a worker that was told to read ahead but has not
  run yet counts as idle.
- **Read-ahead behind a failed seek** (`MCCDROMAsyncReader_behind.cfg`).  The failed seek's path
  leaves `can_readahead` as it is.
- **A consumed error** (`MCCDROMAsyncReader_consumed.cfg`).  The first wait clears the seek
  error; if it was `GetNextSectorToBeRead`'s and the command is then ignored,
  the drive's own wait has nothing left to be woken by.
- **A word from an empty FIFO** (`mdec_read_ahead`).  `ReadDataRegister` says that
  it stalls the CPU until the macroblock is there (mdec.cpp:383), but it adds ticks, which
  runs no event, and pops the empty FIFO.
- **A card behind a multitap is not rolled back** (`MemoryCard_multitap.cfg`).  Its
  transfers neither make a backup nor mark the frame, although the backup is to be
  made "when any transfer begins" (pad.cpp:391).
- **A card after a reset** (`MemoryCard_reset.cfg`).  `ResetSystem` sets the frame
  number back to 1, but `last_memory_card_transfer_frame` stays.  The next transfer at
  that frame number, or soon after it, makes no backup, and a rollback
  to before it restores none or the one of another transfer.
- **A transfer that rests** (`MemoryCard_stall.cfg`).  Only the first byte
  of a transfer makes a backup.  If the game waits for more frames than run-ahead keeps before the next
  byte, the states in between have no card, and the backup is as old as
  the transfer.
- **An active device that is in no state** (`MemoryCard_device.cfg`).  A rollback
  from inside a transfer to before it leaves `active_device` at the card (pad.cpp:497
  saves all around it but not that).  If the game selects without having deselected, the next transfer goes
  straight to the card, marks its frame and makes no backup: `DoTransfer` makes one only while no
  device is active.  The next rollback to before it restores an empty or an old backup.
- **A backup that is not "pre transfer"** (`MemoryCard_backup.cfg`).  It is made
  after the first byte has been given to the card (pad.cpp:784, 801), so
  what is restored is a card that waits for the second.  Its data is right, which is what
  `RollbackRestoresTheData` claims.

## Proofs

Each safety property that a passing run checks is proved here for every value of the
constants.  Hardly any of them is inductive;
each part below says what its inductive invariant adds.

| Module | Theorems about the runs' properties | Assumed, besides the named assumptions on constants |
|---|---|---|
| `VideoThreadProofs`, the ring | `AllocationIsFree`, `ReadsHeaders` | the behaviour satisfies `[]ResetIsSafe` |
| `VideoThreadProofs`, the wake protocol | `TypeOK`, `WaitIsAnswered`, `NoLostWakeup`, `ResetIsSafe`, `SyncThreadDrains`, `AllocationIsFree`, `ReadsHeaders`, the refinement of `CommandQueue` | `WokenSpec`: no synchronising call begins after a `PushCommand` that woke nobody |
| `VideoThreadProofs`, its last part | `WaitIsAnswered`, but for a wait on a sleeper | |
| `FrameQueueProofs` | `TypeOK`, `FramesAreCounted`, `QueueIsBounded`, `PostsArePaired`, `WaitIsAnswered` | |
| `CDROMAsyncReaderProofs` | `TypeOK`; `SeekErrorIsTheResult`; `ServesTheRequest`, `MediaHasOneUser` | none for `TypeOK`; no step `BadSeekOvertakesHit` for `SeekErrorIsTheResult`; `UsagesInTime` for the others |
| `TimingEventsProofs` | `TypeOK`, `ListIsSorted`, `NeverLate`, `StopsInTime`, `PeriodsAreKept`, `TimeIsConserved` | |
| `CoreAudioStreamProofs` | `NoFrameIsShared`, the refinement of `AudioQueue` | |
| `DMAProofs` | `Settled`, `EachWordOnce` | |
| `MemoryCardProofs` | `SavesAreInOrder`; `TypeOK`, `RollbackRestoresTheData` | none for `SavesAreInOrder`; `Careful` for the others |
| `TimersProofs` | `ReadsAreExact`, `InterruptsAreInTime` | |

The assumptions in the last column are those of the passing runs or weaker, the code does not
guarantee them, and the violations above are what happens without them.
Two theorems say what a violation takes: `OnlyAWaitOnASleeperHangs`, of every behaviour, and
`SeekErrorIsAlwaysTheResult`, of every usage.

**The ring.**  The first part of `VideoThreadProofs` proves `AllocationIsAlwaysFree` and
`AlwaysReadsHeaders`: `Spec /\ []ResetIsSafe` implies `[]AllocationIsFree` and
`[]ReadsHeaders`, for every size of the ring, every set of command sizes and
every set of calls.  The runs have rings of 4 and 5 units; an off-by-one that needs a
larger one would escape them.  Constants are restricted by `QueueAssumption`
alone.  `ResetIsSafe` is an assumption on the behaviour: whether the video thread
sleeps when the ring is reset is a matter of the wake protocol, whose proof,
below, discharges it (`RingIsAlwaysSafe`).

Neither property is inductive: that there is a header where the reader looks
follows from what was written there a lap ago, and from nothing having been
written over it.  The inductive invariant `Inv` has four parts:

- `RingInv`: the unread part of the ring is a chain of headers (`IsChain`), each
  of which says where the next one is, and nothing between two of them looks
  like one.  The chain leads from the read pointer to the write pointer
  (`Straight`), or to a wraparound and then from 0 to the write pointer
  (`Wrapped`), or the ring is half reset and the reader asleep (`Resetting`).  The
  video thread's own pointers are on the chain.  The shutdown command, once
  pushed, ends it.
- `AllocInv`: what `AllocateCommand` has found out when it reaches each of its
  points stays true while the reader moves: `Room` after its check, `Filled`
  after the header is written, a reader that is not ahead before it wraps.
- `StackInv`: which program point may be below which on the core thread's stack
  (`MayBeBelow`), and that nothing is allocated after the shutdown command.
- `Types`.

The chain is described by what each header says about the next, and not by a
function that walks it, because a walk would need induction over data.
`ChainKept`, `ChainFrom`, `ChainNext` and `ChainGrows` are the facts about
chains; `ReturnKeeps`, `GotoKeeps` and `BeginKeeps` deal with the core thread's
steps that only move its stack; the steps that write the ring or publish a
pointer have a lemma each.

**The wake protocol.**  The second part of `VideoThreadProofs` proves the rest of
`WokenSpec`, for either value of `SyncUnwoken`: of the behaviours without the step `SyncsUnwoken`, a synchronising call
that begins after a `PushCommand` that woke nobody.  With `SyncUnwoken = FALSE` these are all
behaviours (`CarefulCallsAreWoken`); the code makes no such promise, and with that step TLC finds the
early return and the hang of `SyncThread`.  The inductive invariant `WakeInv` is proved together with the
ring's `Inv` (`BothAlways`), and has these parts:

- `OrderInv`, `BoundInv`: the program points on the core thread's stack have rising levels
  (`Ordered`), so the one that runs determines what can be below; and how many
  commands those below may still push.
- `CountInv`, `SleepInv`, `FlagInv`, `WokenInv`: which values the wake count and the two
  semaphores can have in each phase of both threads.  A thread that sleeps is
  owed one post by whoever found it asleep; a core thread that waits has set
  the flag, or has been released.
- `NumberInv`: the headers of the ring's chain carry the commands' numbers in order, up to
  the last one issued, beginning with the next one to execute.  The
  refinement rests on this.
- `DrainInv`: a video thread that has found nothing to execute has executed all, or the wake
  count says that there is more.  `NoLostWakeup` and `SyncThreadDrains` follow.
- `DestroyInv`, `IdleInv`, `DirectInv`, `SwitchInv`: what holds of ring, device and video thread at
  each point of a switch between the threads, up to the reset.  `ResetIsSafe` follows.

Each action has a lemma; `WakeImplies` and `WakeImpliesResetIsSafe` derive the properties.
`VideoThreadImplementsQueue` maps each step to a step of `CommandQueue` or to a
stutter: a command is issued when it is filled in, the one executed is
always the next, and a synchronising call ends with an empty queue.

**What can hang.**  So `WaitIsAlwaysAnswered` leaves out a schedule in which the code does
hang.  `OnlyAWaitOnASleeperHangs` leaves nothing out: `Spec` implies that a wait is answered or is
a `WaitsOnASleeper`, one whose compare-exchange succeeded with `SLEEPING`.
All bits of that value are set, the flag bit too, so the exchange changes nothing and
the sleeping thread is asked for no post.  In the code it is the `continue` of the
do-while (video_thread.cpp:415), which goes to the condition with the
value loaded before the wake.  Its invariant, `AnswerInv`, stands alone, since after an unsafe reset
neither `Inv` nor `WakeInv` need hold: nothing on the core thread's stack is
a wait but its top, and the video thread takes the flag away only on its way to post.

**The frame limit.**  `FrameQueueProofs` proves for every set `Limits` of naturals
(`LimitsAssumption`, the only one): `TypeCorrect` (`[]TypeOK`), `Counted`
(`[]FramesAreCounted`), `Bounded` (`[]QueueIsBounded`), `Paired`
(`[]PostsArePaired`) and `Answered` (`[]WaitIsAnswered`).  The number of frames
in flight is not bounded by any constant, so no run could do it.

None of these is inductive either.  `QueueIsBounded` speaks of a core thread
between frames, but whether it holds there depends on what the count was when
it began to wait and on how far the video thread's release had come.  The
inductive invariant `Inv` adds:

- `Handshake`: which values the word, the semaphore and the video thread's step can have
  in each phase of the core thread.  From it follow `Paired`
  and that only a core thread in the protocol is signalled.
- `Excess`: how far the count may be over the limit in each phase, one less
  when a release has counted down and not yet looked (`video = "signal"`), and
  one less when the word has left `CORE_THREAD_WAITING`.
- `FrameToCome`: a core thread that waits unseen still has a frame in flight,
  because otherwise it would have found the count within the limit.
- `DirectIsDrained` and `ThreadOnly`: without the video thread nothing is in
  flight between calls, so a changed limit needs no drain.

`InitInv` and `NextInv` show that `Inv` holds initially and is preserved, with one
step per action (a change of the limit, the longest, is a lemma of its own);
`Invariance` puts them together, and each theorem follows from it by temporal
reasoning.

**The read-ahead thread.**  `CDROMAsyncReaderProofs` has two inductive invariants.
`BaseInv` holds for any disc, ring and usage of the class: the sectors in the
ring and the one being read end at its back (`RingInv`), the worker's flag is up
exactly while it works without the mutex (`BusyInv`), and a core thread that has cancelled
the worker finds it parked (`ParkedInv`).  `Inv` holds if the usages are
in time (`UsagesInTime`): the core thread gives a worker that was told to read ahead the time
to begin, or it neither uses the whole image nor asks for what is off the disc.  `RequestInv`
follows the newest request from the queue over the seek to the front of the ring,
`ErrorInv` a failed seek up to the wait that takes it, `FoundInv` says
that what a wait has found stays, and `WholeImageInv` and `KickInv` keep the worker out while the
core thread has the image.

`SeekErrorIsAlwaysTheResult` needs neither: it is about every usage, failing seeks and
a worker of any lateness included, as long as one step is not taken (`BadSeekOvertakesHit`), a seek that will fail
queued while the worker has not begun to read ahead for a hit.  The code does not rule that step
out, and the violation above takes it; the theorem says that there is
no other way.  `BadSeekInv` is its invariant: no order to read ahead is standing while a seek that will
fail is queued or under way.  `BadSeekNeverOvertakesHit` shows that usages in time never take the step.

**Timing events.**  Whether the list is sorted is not a matter of each event and its
neighbours alone: the search for an event's place has to end, and in the
right place, which it does because the list is one line.  `ListInv`
says so by positions: there are numbers that rise along `next` and fall along
`prev`, with no active event between two neighbours, and times rise with them.  The search is
a recursive function; that it exists and where it ends is shown without the library's
induction rules, by the least counterexample among the distances to the end of
the list.  The two directions of the search are one proof
about an end, its links and the positions or their negatives.  `PhaseInv` says
what the loop has in its hands when it is interrupted, and `ClockInv` where the
clock's next time is.

**The audio stream.**  In `CoreAudioStreamProofs` everything is measured from `m_rpos`, the
way around the ring: what the callback has still to read lies within the frames available
(`ReaderInv`), and the writer's batch behind them, without closing the ring (`WriterInv`).
`StreamImplementsAudioQueue` adds that each available frame has the number its
place says, and shows that each step is one of `AudioQueue`.

**DMA and the decoder.**  The calls nest, so what holds when the last one has returned depends on
every activation that is still waiting.  `DMAProofs` counts activations from the
bottom of the stack, where a call leaves them alone.  The parts of the invariant:

- `Shape`: what may wait for a call, that loops over all channels are only at the
  bottom, that a block to memory calls nothing but the decoder, and that no channel has two
  transfers on the stack.  The last is kept because of the requests:
- `InRequested`, `OutRequested`, `RunRequested`: the request of a channel whose transfer is under way is
  up, or the decoder has nothing to ask for, so that raising it again runs nothing.
- `Quiet`: while it is not running, the decoder has used up what it can.
- `ActiveInv`, `StallInv`, `HaltInv`: a channel with a transfer under way is busy; one that
  could run is halted, under way, or a loop will come to it; ticks without an
  event are left only while the loop after a halt runs.
- `MovedInv`: each transfer's address and blocks left continue what it has moved.

`StepBlock`, `StepUpdateStatusIn`, `StepUpdateStatusOut` and `StepExecute` carry the weight; the other actions
have one lemma each.  Sizes of blocks, slices, memory, FIFOs, macroblocks and commands are free, and so
is the number of register writes.  `ReadsAhead` may be true: an overdrawn FIFO
leaves these two properties intact.

**Memory cards.**  `SavesInv` (one save at most, of the newest data, exactly while the flag is up) gives
`SavesAreInOrder`.  For rollback, `KeptInv` says of every memory state what loading it would find:
the card's data is in the state, or in the backup, or still in the card,
by the frames of its last transfer and the newest; `FramesInv` says that no state
is older than run-ahead goes back, `DeviceInv` that an active device has had a
recent transfer.  `TypeCorrect` includes the assertion of `RestoreMemoryCardState`.
`Careful` excludes the four cases that the configurations show.

**The timers.**  The run has counters that wrap at 4 and a divider by 2; the theorems are
for every `TIMER_OVERFLOW` above 1, every `Divider`, every ratio of the CPU's
clock, every set of modes and every `MaxLate`.  The inductive invariant `IInv`
(`CounterIsExact`) says that `hw` is `AddSysClkTicks(cs, pending)`, in every field, that `due`
is what `GetTicksUntilNextInterrupt` gives for `cs`, and what a counter's settings
have to do with each other (`Consistent`): an external clock leaves no delay, only timer 2 has
one, and a counter that the gate resets counts.  Both properties follow from it.  TLC has
checked it, by simulation, on larger instances than the run's, with overflows of 5, a divider by 3
and CPUs of 3/2 and 2/3, before it was proved.

The weight is in the arithmetic, which mentions no step:

- `IsAt` says where a counter ends by how far it would have gone, without a loop and
  without a tick at a time.  `CheckForIRQIs` and `CountOneIs` show that the emulator's code and the
  console's tick both fit it, `OneOn` that it takes one tick more, and so
  `AddOneMore` that `AddTicks` of n + 1 ticks is `CountOne` of `AddTicks` of n.
- For toggle mode, where `AddTicks` goes from target to overflow to target, the
  rounds of n and of n + 1 ticks are run next to each other (`Lockstep`,
  `RoundsTogether`): they are the same until the shorter one has run out of ticks.
- `AddClocksOneMore` and `OneTickMore` are the same for the divider and for the CPU's carry, with the
  remainder of a sum taken in two goes (`InTwoGoes`).  `BatchesAddUp` follows.
- `QuietOne` is one tick of a counter that is not yet at its next interrupt, and
  `QuietUntilDue` all of them up to the event, through both carries.  A one-shot
  interrupt that has been raised is quiet for good.
- `AddTicksAlike` and its likes: the gate, the status bit and the carries do not
  influence counting.  An edge of the gate that the code does not synchronise for (`GateAlone`),
  a read of the mode (`FlagsCount`) and an acknowledgement can so be done before or
  after the pending ticks.

Induction over the number of ticks is by the least counterexample, on sets of
natural numbers (`Induction`).

Model-checked only:

- Everything with fairness (`FramesReturn`, `CallsReturn`, `CommandsAreExecuted`, `AllocateCommandReturns`,
  the progress of the reader, the audio ring, the decoder and the cards), which
  is out of the prover's reach.

## What is not modelled

Data: what instructions, drawing commands, decoders and mixers compute; file
formats; settings; everything that draws.  Foreign code: graphics and audio
drivers, operating system services, the achievements library.  Of the modelled
components: what the video thread's device and window handlers do
with the graphics API, and of `timing_event.cpp` saving and loading, and the
entry point for the GPU dump player, which sets the counter.  Of the audio
stream: samples, fades and the stretcher's arithmetic.  Of DMA: the
interrupt flags, the OTC channel, the GPU's and CD-ROM's direction to memory
and saving and loading.  Of the decoder: what it decodes.  Of the timers: counting the
GPU's dots and lines, and a change of the CPU's clock.  Of the interrupt controller: the mask
and the CPU's request.  Of the cards:
their command protocol, formats and the replacement of a card while states of it are
kept.  Of `system.cpp`: rewind, save states in files, pausing and starting.  Real time: the
speed limiter and the sleeps.

## Plan

Modules, in this order, each with its MC module, mutants and properties:

1. `Pad`, with its interrupt line: register access, transfer and
   acknowledge events, `SoftReset`.  Property: after the handler has
   acknowledged, the next transfer interrupts again.
2. `TimingEvents`: saving and loading the list, also from inside a callback.
3. `CDROM`: commands, responses, interrupts, over an abstract drive.
4. `DMA`: the interrupt flags, one interrupt per completion.
5. `CodeCache`, then `HTTPDownloader`.

Theorems: the invariants of the modules that are still to come.
