----------------------------- MODULE VideoThread -----------------------------
(***************************************************************************)
(* The command queue between the core (emulation) thread and the video     *)
(* thread, src/core/video_thread.cpp: a ring of variable-sized commands    *)
(* with one producer and one consumer, and the wake / sleep / sync         *)
(* protocol over one counter and two counting semaphores.                  *)
(*                                                                         *)
(* Every access to a variable that the other thread writes is a step of    *)
(* its own.  "core" is the core thread's stack of program points: its head *)
(* is the next step, the rest is where the calling functions continue.     *)
(* Atomics are sequentially consistent here; weak compare-exchanges fail   *)
(* only when the value differs.                                            *)
(*                                                                         *)
(* A definition just before the one it varies (NoRoomOffByOne before       *)
(* NoRoom) is that one with a plausible bug: the properties must see it.   *)
(***************************************************************************)
EXTENDS Naturals, Integers, Sequences

CONSTANTS
  COMMAND_QUEUE_SIZE,            \* the ring's size, in allocation units
  COMMAND_QUEUE_RESERVED_SPACE,  \* one allocation unit
  THRESHOLD_TO_WAKE_GPU,         \* PushCommand wakes the thread from this fill on
  CPU_THREAD_IS_WAITING,         \* the flag bit of thread_wake_count
  Sizes,                         \* the command sizes the core thread uses
  MaxCommands,                   \* bound: no call is begun after so many commands
  Calls,                         \* the calls the core thread makes
  SyncUnwoken,                   \* SyncThread follows a PushCommand without a wake
  RunIdle                        \* the video thread may run idle

ASSUME QueueAssumption ==
  /\ COMMAND_QUEUE_SIZE \in Nat \ {0}
  /\ COMMAND_QUEUE_RESERVED_SPACE \in Nat \ {0}
  /\ Sizes \subseteq 1..(COMMAND_QUEUE_SIZE - COMMAND_QUEUE_RESERVED_SPACE)
  /\ THRESHOLD_TO_WAKE_GPU \in Nat
  /\ MaxCommands \in Nat
  /\ SyncUnwoken \in BOOLEAN
  /\ RunIdle \in BOOLEAN
  /\ Calls \subseteq {"PushCommand", "PushCommandAndWakeThread", "PushCommandAndSync",
                      "SyncThread", "Reconfigure", "SetThreadEnabled", "ProcessShutdown"}

\* No execution of the model adds up to the flag bit.
ASSUME WakeCountAssumption ==
  CPU_THREAD_IS_WAITING \in Nat /\ CPU_THREAD_IS_WAITING > 4 * MaxCommands + 20

VARIABLES
  command_fifo_write_ptr, command_fifo_read_ptr, command_fifo_data,
  thread_wake_count, thread_wake_semaphore, thread_is_done_semaphore,
  use_thread,        \* the video thread executes the commands, not the caller
  gpu_device,        \* g_gpu_device is not null
  run_idle_flag,
  core,              \* the core thread's stack of program points
  cmd,               \* the command being allocated or pushed
  seen_read_ptr,     \* the core thread's last load of the read pointer
  sync_value,        \* SyncThread's local "value"
  video,             \* the video thread's program point
  write_ptr, read_ptr,  \* the video thread's local pointers
  old_state, allow_sleep,  \* SleepThread's local and parameter
  issued, executed,  \* history: commands issued, and executed (their numbers, in order)
  unwoken            \* history: a command was pushed and no wake has followed

ring == <<command_fifo_write_ptr, command_fifo_read_ptr, command_fifo_data>>
wake == <<thread_wake_count, thread_wake_semaphore, thread_is_done_semaphore>>
config == <<use_thread, gpu_device, run_idle_flag>>
coreLocals == <<cmd, seen_read_ptr, sync_value>>
videoLocals == <<write_ptr, read_ptr, old_state, allow_sleep>>
history == <<issued, executed, unwoken>>
coreVars == <<core, coreLocals>>
videoVars == <<video, videoLocals>>
vars == <<ring, wake, config, coreVars, videoVars, history>>

-----------------------------------------------------------------------------
(* The ring. *)

Command(type, size) == [type |-> type, size |-> size, id |-> 0]
Body == Command("Body", 0)

\* A command with its header at the offset "at"; its body overwrites the rest.
Store(at, c) ==
  [o \in 0..(COMMAND_QUEUE_SIZE - 1) |->
     IF o = at THEN c
     ELSE IF o \in at..(at + c.size - 1) THEN Body ELSE command_fifo_data[o]]

\* The room AllocateCommand sees: up to the reader, or up to the end.
AvailableSize(r, w) == IF r > w THEN r - w ELSE COMMAND_QUEUE_SIZE - w

\* Filling the room up to the reader would make a full ring look empty.
NoRoomIgnored(available) == FALSE
NoRoomOffByOne(available) == available < cmd.size
NoRoom(available) == available <= cmd.size

\* Wrapping around while the reader is at 0 would make it look empty, too.
UnprocessedIgnored == FALSE
Unprocessed == command_fifo_read_ptr = 0

IsCommandFIFOEmpty == command_fifo_read_ptr = command_fifo_write_ptr

GetPendingCommandSize ==
  IF command_fifo_write_ptr >= command_fifo_read_ptr
    THEN command_fifo_write_ptr - command_fifo_read_ptr
    ELSE COMMAND_QUEUE_SIZE - command_fifo_read_ptr + command_fifo_write_ptr

\* thread_wake_count is a two's complement word: -1 has every bit set, the
\* flag bit too, and clearing the flag bit leaves it negative.
SLEEPING == -1
WorkOfOneWake == 1
WorkOfWake == 2  \* positive when added to SLEEPING
NeedsNoPost(state) == FALSE
AlwaysPost(state) == TRUE
NeedsPost(state) == state < 0
Work(state) == IF state >= CPU_THREAD_IS_WAITING THEN state - CPU_THREAD_IS_WAITING ELSE state
FlagSet(state) == state < 0 \/ state >= CPU_THREAD_IS_WAITING
SetFlag(state) == IF FlagSet(state) THEN state ELSE state + CPU_THREAD_IS_WAITING
FlagDropped(state) == 0
OnlyFlag(state) == IF FlagSet(state) THEN CPU_THREAD_IS_WAITING ELSE 0

-----------------------------------------------------------------------------
(* The core thread's stack. *)

At(point) == core # <<>> /\ Head(core) = point
Return == core' = Tail(core)
Goto(points) == core' = points \o Tail(core)

\* What the execution of a command does to the state the protocol reads.
\* The run idle flag needs a device, and any command or frame may change it.
RunIdleValues(device) == {f \in BOOLEAN : f => device /\ RunIdle}

Run(type) ==
  /\ gpu_device' \in CASE type = "Create" -> BOOLEAN
                       [] type = "Destroy" -> {FALSE}
                       [] OTHER -> {gpu_device}
  /\ run_idle_flag' \in RunIdleValues(gpu_device')

\* The program executes the command on the thread that takes this step.
Execute(c) ==
  /\ Run(c.type)
  /\ executed' = Append(executed, c.id)

-----------------------------------------------------------------------------
Init ==
  /\ command_fifo_write_ptr = 0 /\ command_fifo_read_ptr = 0
  /\ command_fifo_data = [o \in 0..(COMMAND_QUEUE_SIZE - 1) |-> Body]
  /\ thread_wake_count = 0 /\ thread_wake_semaphore = 0 /\ thread_is_done_semaphore = 0
  /\ use_thread \in BOOLEAN /\ gpu_device = FALSE /\ run_idle_flag = FALSE
  /\ core = <<>> /\ cmd = Body /\ seen_read_ptr = 0 /\ sync_value = 0
  /\ video = "load_write_ptr" /\ write_ptr = 0 /\ read_ptr = 0
  /\ old_state = 0 /\ allow_sleep = FALSE
  /\ issued = 0 /\ executed = <<>> /\ unwoken = FALSE

-----------------------------------------------------------------------------
(* Calls the core thread begins.  SyncThread ends at "synced". *)

Sync(spin) == IF spin THEN <<"spin_check", "synced">> ELSE <<"sync_load", "synced">>

Begin(call, points) ==
  /\ core = <<>>
  /\ call \in Calls
  /\ issued < MaxCommands
  /\ core' = points
  /\ UNCHANGED <<ring, wake, config, videoVars, history, seen_read_ptr, sync_value>>

\* AllocateCommand fills in the header, and one of the three functions pushes it.
BeginPush ==
  \E size \in Sizes, push \in {"PushCommand", "PushCommandAndWakeThread", "PushCommandAndSync"} :
    /\ Begin(push, <<"alloc", "fill", push>>)
    /\ cmd' = Command("Call", size)

\* Reconfigure to a renderer or to the fullscreen UI alone.
BeginReconfigure ==
  \E size \in Sizes :
    /\ Begin("Reconfigure", <<"alloc", "fill", "PushCommandAndSync">>)
    /\ cmd' = Command("Create", size)

\* SyncThread with nothing pushed by the same call.
BeginSyncThread ==
  \E spin \in BOOLEAN :
    /\ unwoken => SyncUnwoken
    /\ Begin("SyncThread", IF use_thread THEN Sync(spin) ELSE <<>>)
    /\ UNCHANGED cmd

SetThreadEnabledUnsynced ==
  /\ Begin("SetThreadEnabled", <<"set_thread_enabled">>)
  /\ UNCHANGED cmd

BeginSetThreadEnabled ==
  /\ unwoken => SyncUnwoken
  /\ Begin("SetThreadEnabled",
           (IF use_thread THEN Sync(FALSE) ELSE <<>>) \o <<"set_thread_enabled">>)
  /\ UNCHANGED cmd

BeginProcessShutdown ==
  /\ unwoken => SyncUnwoken
  /\ Begin("ProcessShutdown",
           (IF use_thread THEN Sync(FALSE) ELSE <<"set_thread_enabled">>) \o <<"shutdown", "join">>)
  /\ UNCHANGED cmd

-----------------------------------------------------------------------------
(* AllocateCommand. *)

LoadReadPtr == seen_read_ptr' = command_fifo_read_ptr

\* One turn of the outer loop: room before the reader, room up to the end,
\* or no room before the end of the ring.
Alloc ==
  /\ At("alloc")
  /\ LoadReadPtr
  /\ \/ /\ ~NoRoom(AvailableSize(command_fifo_read_ptr, command_fifo_write_ptr))
        /\ Return
     \/ /\ NoRoom(AvailableSize(command_fifo_read_ptr, command_fifo_write_ptr))
        /\ Goto(IF command_fifo_read_ptr > command_fifo_write_ptr
                  THEN <<"wake_if_sleeping", "full_load">>
                ELSE IF Unprocessed
                  THEN <<"wake_if_sleeping", "unprocessed_load">>
                ELSE <<"wrap">>)
  /\ UNCHANGED <<ring, wake, config, cmd, sync_value, videoVars, history>>

\* The inner loop, while the reader is ahead and too close.
FullLoad ==
  /\ At("full_load")
  /\ LoadReadPtr
  /\ IF NoRoom(AvailableSize(command_fifo_read_ptr, command_fifo_write_ptr))
       THEN Goto(<<"wake_if_sleeping", "full_load">>)
       ELSE Return
  /\ UNCHANGED <<ring, wake, config, cmd, sync_value, videoVars, history>>

\* It cannot wrap around until the reader has left offset 0.
UnprocessedLoad ==
  /\ At("unprocessed_load")
  /\ LoadReadPtr
  /\ IF Unprocessed
       THEN Goto(<<"wake_if_sleeping", "unprocessed_load">>)
       ELSE Goto(<<"wrap">>)
  /\ UNCHANGED <<ring, wake, config, cmd, sync_value, videoVars, history>>

\* A dummy command fills the ring up to its end.
Wrap ==
  /\ At("wrap")
  /\ command_fifo_data' =
       Store(command_fifo_write_ptr,
             Command("Wraparound", COMMAND_QUEUE_SIZE - command_fifo_write_ptr))
  /\ command_fifo_write_ptr' = 0
  /\ Goto(<<"alloc">>)
  /\ UNCHANGED <<command_fifo_read_ptr, wake, config, coreLocals, videoVars, history>>

\* The header and the payload are written before the pointer is published.
Fill ==
  /\ At("fill")
  /\ cmd' = [cmd EXCEPT !.id = issued + 1]
  /\ command_fifo_data' = Store(command_fifo_write_ptr, cmd')
  /\ Return
  /\ UNCHANGED <<command_fifo_write_ptr, command_fifo_read_ptr, wake, config,
                 seen_read_ptr, sync_value, videoVars, history>>

-----------------------------------------------------------------------------
(* PushCommand, PushCommandAndWakeThread, PushCommandAndSync. *)

\* Without the thread the caller executes the command, and the ring does not move.
PushDirectly(push) ==
  /\ At(push)
  /\ ~use_thread
  /\ Execute(cmd)
  /\ issued' = issued + 1
  /\ Return
  /\ UNCHANGED <<ring, wake, use_thread, coreLocals, videoVars, unwoken>>

Publish(push, points) ==
  /\ At(push)
  /\ use_thread
  /\ command_fifo_write_ptr' = (command_fifo_write_ptr + cmd.size) % COMMAND_QUEUE_SIZE
  /\ issued' = issued + 1
  /\ unwoken' = TRUE
  /\ Goto(points)
  /\ UNCHANGED <<command_fifo_read_ptr, command_fifo_data, wake, config, coreLocals,
                 videoVars, executed>>

Push ==
  \/ \E push \in {"PushCommand", "PushCommandAndWakeThread", "PushCommandAndSync"} :
        PushDirectly(push)
  \/ Publish("PushCommand", <<"threshold">>)
  \/ Publish("PushCommandAndWakeThread", <<"wake">>)
  \/ \E spin \in BOOLEAN : Publish("PushCommandAndSync", <<"wake">> \o Sync(spin))

Threshold ==
  /\ At("threshold")
  /\ IF GetPendingCommandSize >= THRESHOLD_TO_WAKE_GPU THEN Goto(<<"wake">>) ELSE Return
  /\ UNCHANGED <<ring, wake, config, coreLocals, videoVars, history>>

-----------------------------------------------------------------------------
(* WakeThread and WakeThreadIfSleeping. *)

WakeThread ==
  /\ At("wake")
  /\ thread_wake_count' = thread_wake_count + WorkOfWake
  /\ unwoken' = FALSE
  /\ IF NeedsPost(thread_wake_count) THEN Goto(<<"wake_post">>) ELSE Return
  /\ UNCHANGED <<ring, thread_wake_semaphore, thread_is_done_semaphore, config, coreLocals,
                 videoVars, issued, executed>>

WakePost ==
  /\ At("wake_post")
  /\ thread_wake_semaphore' = thread_wake_semaphore + 1
  /\ Return
  /\ UNCHANGED <<ring, thread_wake_count, thread_is_done_semaphore, config, coreLocals,
                 videoVars, history>>

WakeThreadIfSleeping ==
  /\ \/ /\ At("wake_if_sleeping")
        /\ IF Work(thread_wake_count) < 0 THEN Goto(<<"wake_if_not_empty">>) ELSE Return
     \/ /\ At("wake_if_not_empty")
        /\ IF IsCommandFIFOEmpty THEN Return ELSE Goto(<<"wake">>)
  /\ UNCHANGED <<ring, wake, config, coreLocals, videoVars, history>>

-----------------------------------------------------------------------------
(* SyncThread. *)

\* Polling for a while: a sleeping thread with an empty ring is done.
SpinCheck ==
  /\ \/ /\ At("spin_check")
        /\ IF Work(thread_wake_count) < 0 THEN Goto(<<"spin_empty">>) ELSE Goto(<<"spin">>)
     \/ /\ At("spin_empty")
        /\ IF IsCommandFIFOEmpty THEN Return ELSE Goto(<<"wake", "spin">>)
     \/ /\ At("spin")
        /\ Goto(<<"spin_check">>)
  /\ UNCHANGED <<ring, wake, config, coreLocals, videoVars, history>>

\* thread_spin_time has passed.
SpinExpire ==
  /\ At("spin")
  /\ Goto(<<"sync_load">>)
  /\ UNCHANGED <<ring, wake, config, coreLocals, videoVars, history>>

\* "continue" in the do-while goes to its condition, the compare-exchange.
SyncLoad ==
  /\ At("sync_load")
  /\ sync_value' = thread_wake_count
  /\ IF Work(thread_wake_count) < 0 THEN Goto(<<"sync_empty">>) ELSE Goto(<<"sync_cas">>)
  /\ UNCHANGED <<ring, wake, config, cmd, seen_read_ptr, videoVars, history>>

SyncEmpty ==
  /\ At("sync_empty")
  /\ IF IsCommandFIFOEmpty THEN Return ELSE Goto(<<"wake", "sync_cas">>)
  /\ UNCHANGED <<ring, wake, config, coreLocals, videoVars, history>>

SyncCAS ==
  /\ At("sync_cas")
  /\ IF thread_wake_count = sync_value
       THEN thread_wake_count' = SetFlag(sync_value) /\ Goto(<<"sync_wait">>)
       ELSE UNCHANGED thread_wake_count /\ Goto(<<"sync_load">>)
  /\ UNCHANGED <<ring, thread_wake_semaphore, thread_is_done_semaphore, config, coreLocals,
                 videoVars, history>>

SyncWait ==
  /\ At("sync_wait")
  /\ thread_is_done_semaphore > 0
  /\ thread_is_done_semaphore' = thread_is_done_semaphore - 1
  /\ Return
  /\ UNCHANGED <<ring, thread_wake_count, thread_wake_semaphore, config, coreLocals,
                 videoVars, history>>

Synced ==
  /\ At("synced")
  /\ Return
  /\ UNCHANGED <<ring, wake, config, coreLocals, videoVars, history>>

-----------------------------------------------------------------------------
(* SetThreadEnabled, after its SyncThread, ResetCommandFIFO, ProcessShutdown. *)

\* Without a device the ring is reset and that is all; with one, the device
\* is destroyed first and created again on the other thread.
SetThreadEnabled ==
  /\ At("set_thread_enabled")
  /\ IF gpu_device
       THEN /\ Goto(<<"read_vram", "destroy", "reset", "reset_read_ptr", "enable", "create">>)
            /\ UNCHANGED use_thread
       ELSE /\ Goto(<<"reset", "reset_read_ptr">>)
            /\ use_thread' = ~use_thread
  /\ UNCHANGED <<ring, wake, gpu_device, run_idle_flag, coreLocals, videoVars, history>>

Enable ==
  /\ At("enable")
  /\ use_thread' = ~use_thread
  /\ Return
  /\ UNCHANGED <<ring, wake, gpu_device, run_idle_flag, coreLocals, videoVars, history>>

\* ResetCommandFIFO asserts that nothing is pending (ResetIsSafe) and
\* stores the two pointers one after the other.
Reset ==
  /\ At("reset")
  /\ command_fifo_write_ptr' = 0
  /\ Return
  /\ UNCHANGED <<command_fifo_read_ptr, command_fifo_data, wake, config, coreLocals,
                 videoVars, history>>

ResetReadPtr ==
  /\ At("reset_read_ptr")
  /\ command_fifo_read_ptr' = 0
  /\ Return
  /\ UNCHANGED <<command_fifo_write_ptr, command_fifo_data, wake, config, coreLocals,
                 videoVars, history>>

\* The commands these two functions push.
PushFrom(point, type, push) ==
  /\ At(point)
  /\ \E size \in Sizes : cmd' = Command(type, size)
  /\ Goto(<<"alloc", "fill", push>>)
  /\ UNCHANGED <<ring, wake, config, seen_read_ptr, sync_value, videoVars, history>>

\* The download is needed only when there is a renderer.
SkipReadVRAM ==
  /\ At("read_vram")
  /\ Return
  /\ UNCHANGED <<ring, wake, config, coreLocals, videoVars, history>>

PushOwnUnsynced ==
  \/ PushFrom("read_vram", "Call", "PushCommand")
  \/ PushFrom("destroy", "Destroy", "PushCommandAndWakeThread")
  \/ PushFrom("create", "Create", "PushCommandAndSync")
  \/ PushFrom("shutdown", "Shutdown", "PushCommandAndWakeThread")

PushOwn ==
  \/ PushFrom("read_vram", "Call", "PushCommand")
  \/ PushFrom("destroy", "Destroy", "PushCommandAndSync")
  \/ PushFrom("create", "Create", "PushCommandAndSync")
  \/ PushFrom("shutdown", "Shutdown", "PushCommandAndWakeThread")

Join ==
  /\ At("join")
  /\ video = "exited"
  /\ core' = <<"joined">>
  /\ UNCHANGED <<ring, wake, config, coreLocals, videoVars, history>>

-----------------------------------------------------------------------------
(* VideoThreadEntryPoint. *)

LoadWritePtr ==
  /\ video = "load_write_ptr"
  /\ write_ptr' = command_fifo_write_ptr
  /\ video' = "load_read_ptr"
  /\ UNCHANGED <<ring, wake, config, coreVars, read_ptr, old_state, allow_sleep, history>>

LoadReadPtrOnThread ==
  /\ video = "load_read_ptr"
  /\ read_ptr' = command_fifo_read_ptr
  /\ IF read_ptr' = write_ptr
       THEN /\ allow_sleep' = ~run_idle_flag
            /\ video' = "sleep_load"
            /\ UNCHANGED write_ptr
       ELSE /\ write_ptr' = IF write_ptr < read_ptr' THEN COMMAND_QUEUE_SIZE ELSE write_ptr
            /\ video' = "execute"
            /\ UNCHANGED allow_sleep
  /\ UNCHANGED <<ring, wake, config, coreVars, old_state, history>>

NextCommand == command_fifo_data[read_ptr]

ExecuteCommand ==
  /\ video = "execute"
  /\ read_ptr < write_ptr
  /\ NextCommand.type \notin {"Wraparound", "Shutdown"}
  /\ Execute(NextCommand)
  /\ read_ptr' = read_ptr + NextCommand.size
  /\ UNCHANGED <<ring, wake, use_thread, coreVars, video, write_ptr, old_state, allow_sleep,
                 issued, unwoken>>

ExecuteWraparound ==
  /\ video = "execute"
  /\ read_ptr < write_ptr
  /\ NextCommand.type = "Wraparound"
  /\ write_ptr' = command_fifo_write_ptr
  /\ read_ptr' = 0
  /\ video' = "wrap_publish"
  /\ UNCHANGED <<ring, wake, config, coreVars, old_state, allow_sleep, history>>

\* The reader's new lap is published before the batch goes on.
WrapPublish ==
  /\ video = "wrap_publish"
  /\ command_fifo_read_ptr' = 0
  /\ video' = "execute"
  /\ UNCHANGED <<command_fifo_write_ptr, command_fifo_data, wake, config, coreVars,
                 videoLocals, history>>

ExecuteShutdown ==
  /\ video = "execute"
  /\ read_ptr < write_ptr
  /\ NextCommand.type = "Shutdown"
  /\ executed' = Append(executed, NextCommand.id)
  /\ read_ptr' = read_ptr + NextCommand.size
  /\ command_fifo_read_ptr' = read_ptr'
  /\ video' = "exited"
  /\ UNCHANGED <<command_fifo_write_ptr, command_fifo_data, wake, config, coreVars,
                 write_ptr, old_state, allow_sleep, issued, unwoken>>

PublishReadPtr ==
  /\ video = "execute"
  /\ read_ptr >= write_ptr
  /\ command_fifo_read_ptr' = read_ptr % COMMAND_QUEUE_SIZE
  /\ video' = "load_write_ptr"
  /\ UNCHANGED <<command_fifo_write_ptr, command_fifo_data, wake, config, coreVars,
                 videoLocals, history>>

DoRunIdle ==
  /\ video = "run_idle"
  /\ Run("Call")
  /\ video' = "load_write_ptr"
  /\ UNCHANGED <<ring, wake, use_thread, coreVars, videoLocals, history>>

-----------------------------------------------------------------------------
(* SleepThread. *)

SleepLoad ==
  /\ video = "sleep_load"
  /\ old_state' = thread_wake_count
  /\ video' = "sleep_cas"
  /\ UNCHANGED <<ring, wake, config, coreVars, write_ptr, read_ptr, allow_sleep, history>>

SleepResult(state) ==
  IF Work(state) > 0 THEN OnlyFlag(state) ELSE IF allow_sleep THEN SLEEPING ELSE 0

AfterAcknowledge == IF allow_sleep THEN "sleep_wait" ELSE "run_idle"

\* Acknowledge the work and go back for it, or be done: release a waiting
\* core thread, then sleep or run idle.
SleepCAS ==
  /\ video = "sleep_cas"
  /\ IF thread_wake_count # old_state
       THEN video' = "sleep_load" /\ UNCHANGED thread_wake_count
       ELSE /\ thread_wake_count' = SleepResult(old_state)
            /\ video' = IF Work(old_state) > 0 THEN "load_write_ptr"
                        ELSE IF FlagSet(old_state) THEN "sleep_post" ELSE AfterAcknowledge
  /\ UNCHANGED <<ring, thread_wake_semaphore, thread_is_done_semaphore, config, coreVars,
                 videoLocals, history>>

SleepPost ==
  /\ video = "sleep_post"
  /\ thread_is_done_semaphore' = thread_is_done_semaphore + 1
  /\ video' = AfterAcknowledge
  /\ UNCHANGED <<ring, thread_wake_count, thread_wake_semaphore, config, coreVars,
                 videoLocals, history>>

SleepWait ==
  /\ video = "sleep_wait"
  /\ thread_wake_semaphore > 0
  /\ thread_wake_semaphore' = thread_wake_semaphore - 1
  /\ video' = "sleep_load"
  /\ UNCHANGED <<ring, thread_wake_count, thread_is_done_semaphore, config, coreVars,
                 videoLocals, history>>

-----------------------------------------------------------------------------
CoreCalls ==
  BeginPush \/ BeginReconfigure \/ BeginSyncThread \/ BeginSetThreadEnabled \/ BeginProcessShutdown

CoreSteps ==
  \/ Alloc \/ FullLoad \/ UnprocessedLoad \/ Wrap \/ Fill
  \/ Push \/ Threshold
  \/ WakeThread \/ WakePost \/ WakeThreadIfSleeping
  \/ SpinCheck \/ SpinExpire \/ SyncLoad \/ SyncEmpty \/ SyncCAS \/ SyncWait \/ Synced
  \/ SetThreadEnabled \/ Enable \/ Reset \/ ResetReadPtr \/ PushOwn \/ SkipReadVRAM \/ Join

VideoSteps ==
  \/ LoadWritePtr \/ LoadReadPtrOnThread
  \/ ExecuteCommand \/ ExecuteWraparound \/ WrapPublish \/ ExecuteShutdown \/ PublishReadPtr
  \/ DoRunIdle \/ SleepLoad \/ SleepCAS \/ SleepPost \/ SleepWait

\* The bound stops the core thread, or the program has shut down.
Terminated ==
  /\ \/ core = <<"joined">>
     \/ core = <<>> /\ issued >= MaxCommands /\ video = "sleep_wait"
  /\ UNCHANGED vars

Next == CoreCalls \/ CoreSteps \/ VideoSteps \/ Terminated

Spec == Init /\ [][Next]_vars

\* Both are threads of the operating system; the spin time is measured by a
\* clock, so a spin that goes on long enough expires.
FairSpec == Spec /\ WF_vars(CoreSteps) /\ SF_vars(SpinExpire) /\ WF_vars(VideoSteps)
-----------------------------------------------------------------------------
(* Properties. *)

\* Every variable stays in its type: the pointers inside the ring, the wake
\* count between sleeping and twice the flag, the semaphores binary.
TypeOK ==
  /\ command_fifo_write_ptr \in 0..(COMMAND_QUEUE_SIZE - 1)
  /\ command_fifo_read_ptr \in 0..COMMAND_QUEUE_SIZE
  /\ thread_wake_count \in SLEEPING..(2 * CPU_THREAD_IS_WAITING)
  /\ thread_wake_semaphore \in 0..1
  /\ thread_is_done_semaphore \in 0..1
  /\ write_ptr \in 0..COMMAND_QUEUE_SIZE
  /\ read_ptr \in 0..COMMAND_QUEUE_SIZE
  /\ old_state \in SLEEPING..(2 * CPU_THREAD_IS_WAITING)
  /\ use_thread \in BOOLEAN /\ gpu_device \in BOOLEAN /\ run_idle_flag \in BOOLEAN
  /\ allow_sleep \in BOOLEAN /\ unwoken \in BOOLEAN
  /\ issued \in Nat /\ executed \in Seq(Nat)

\* The commands are executed once each and in order, whatever the ring, the
\* wraps and the switches between the threads do, and a synchronising call
\* returns when all of them have run: the video thread implements CommandQueue.
InSync == \E i \in DOMAIN core : core[i] = "synced"
Queue == INSTANCE CommandQueue WITH syncing <- InSync
ImplementsQueue == Queue!Spec

\* AllocateCommand never hands out memory the video thread has still to read,
\* nor so much that a full ring would look like an empty one.
AllocationIsFree ==
  At("fill") =>
    /\ command_fifo_write_ptr + cmd.size < COMMAND_QUEUE_SIZE
    /\ command_fifo_read_ptr \notin
         (command_fifo_write_ptr + 1)..(command_fifo_write_ptr + cmd.size)

\* The video thread always finds a header where it looks for one, a wraparound
\* ends exactly at the end of the ring, and nothing follows the shutdown
\* command (the DebugAsserts of VideoThreadEntryPoint).
ReadsHeaders ==
  video = "execute" /\ read_ptr < write_ptr =>
    /\ NextCommand.type # "Body"
    /\ read_ptr + NextCommand.size <= COMMAND_QUEUE_SIZE
    /\ NextCommand.type = "Wraparound" => read_ptr + NextCommand.size = COMMAND_QUEUE_SIZE
    /\ NextCommand.type = "Shutdown" => read_ptr + NextCommand.size = write_ptr

\* ResetCommandFIFO's assertion holds, and the video thread cannot see the two
\* pointers half reset: it is past its loads, or they do not change.
ResetIsSafe ==
  At("reset") \/ At("reset_read_ptr") =>
    /\ At("reset") => IsCommandFIFOEmpty
    /\ ~run_idle_flag
    /\ \/ video \in {"sleep_post", "sleep_wait"}
       \/ command_fifo_write_ptr = 0 /\ command_fifo_read_ptr = 0 /\ write_ptr = 0

\* A core thread that waits in SyncThread will be released: the post has been
\* made, is about to be, or the flag asks the video thread for it.
WaitIsAnswered ==
  At("sync_wait") =>
    \/ thread_is_done_semaphore > 0
    \/ video = "sleep_post"
    \/ thread_wake_count >= CPU_THREAD_IS_WAITING

\* No wakeup is lost: a video thread that sleeps with commands to execute has
\* been woken, is about to be, or was never asked (PushCommand below the
\* threshold).
NoLostWakeup ==
  video = "sleep_wait" /\ Len(executed) < issued =>
    thread_wake_semaphore > 0 \/ At("wake_post") \/ unwoken

\* When SyncThread returns, every command has been executed.
SyncThreadDrains == At("synced") => Len(executed) = issued

\* AllocateCommand finds room for any size it accepts.
AllocateCommandReturns == At("alloc") ~> At("fill")

\* Every call of the core thread returns.
CallsReturn == core # <<>> ~> core \in {<<>>, <<"joined">>}

\* A command is executed in the end, unless PushCommand left it without a wake.
CommandsAreExecuted ==
  \A n \in 1..MaxCommands : issued >= n ~> Len(executed) >= n \/ unwoken
=============================================================================
