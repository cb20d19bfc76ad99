----------------------------- MODULE MemoryCard -----------------------------
(***************************************************************************)
(* A memory card under run-ahead: src/core/memory_card.cpp saves it to its *)
(* file on worker threads; run-ahead (src/core/system.cpp) saves a memory  *)
(* state after every frame and, when the input changes, loads the oldest   *)
(* one and replays; and src/core/pad.cpp leaves the card out of most of    *)
(* these states, as it is large, and keeps a backup of its own instead.    *)
(*                                                                         *)
(* The core thread does one step at a time.  When it has to wait for a     *)
(* worker, "core" is "wait" and "after" is where it goes on.               *)
(*                                                                         *)
(* A card's data is the number of the write that made it.                  *)
(*                                                                         *)
(* A definition just before the one it varies (NeedsBackupLater before     *)
(* NeedsBackup) is that one with a plausible bug: the properties must see  *)
(* it.                                                                     *)
(***************************************************************************)
EXTENDS Integers, Sequences, SequencesExt, FiniteSets

CONSTANTS
  RunaheadFrames,   \* g_settings.runahead_frames
  FrameValues,      \* values of a frame number, 2^32 in the code
  Multitap,         \* the card is behind a multitap
  LateResets,       \* the system is also reset after a transfer later than in the first frame
  StaleDevice,      \* after a rollback the game does not deselect a device that was not active then
  Stalls,           \* the game waits for more frames than that inside a transfer
  MaxFrames,        \* bound: the last frame
  MaxWrites         \* bound: writes of the game

ASSUME BoundsAssumption ==
  /\ RunaheadFrames \in Nat \ {0} /\ MaxFrames \in Nat \ {0} /\ MaxWrites \in Nat
  /\ FrameValues \in Nat /\ FrameValues > MaxFrames + RunaheadFrames
  /\ {Multitap, LateResets, StaleDevice, Stalls} \subseteq BOOLEAN

VARIABLES
  \* system.cpp
  frame_number, frame_done_due,
  memory_states, replay_pending, replay_frames,
  \* pad.cpp
  active,           \* active_device is the card
  last_transfer,    \* last_memory_card_transfer_frame
  backup,           \* memory_card_backup
  \* memory_card.cpp
  card,             \* m_data, m_state, m_changed
  save_event, save_pending, tasks, file,
  core, after,
  \* history
  device,           \* what active_device would be if states held it
  writes, saved, failed

frames == <<frame_number, frame_done_due, memory_states, replay_pending, replay_frames>>
pad == <<active, device, last_transfer, backup>>
saves == <<save_event, save_pending, tasks, file, saved, failed>>
vars == <<frames, pad, card, saves, core, after, writes>>

NoCard == [data |-> -1, state |-> "Idle", changed |-> FALSE]

Init ==
  /\ frame_number = 1 /\ frame_done_due = FALSE
  /\ memory_states = <<>> /\ replay_pending = FALSE /\ replay_frames = 0
  /\ active = FALSE /\ device = FALSE /\ last_transfer = 0 /\ backup = NoCard
  /\ card = [data |-> 0, state |-> "Idle", changed |-> FALSE]
  /\ save_event = FALSE /\ save_pending = FALSE /\ tasks = {} /\ file = 0
  /\ core = "run" /\ after = "run"
  /\ writes = 0 /\ saved = 0 /\ failed = FALSE

-----------------------------------------------------------------------------
(* memory_card.cpp *)

\* SaveIfChanged, up to its wait for the save before this one, and what
\* follows it.
SaveIfChanged(then) ==
  /\ save_event' = FALSE
  /\ core' = IF card.changed THEN "wait" ELSE then
  /\ after' = then

QueueSaveAtOnce ==
  /\ core = "wait"
  /\ save_pending' = TRUE
  /\ tasks' = tasks \cup {[data |-> card.data, written |-> FALSE]}
  /\ saved' = card.data
  /\ card' = [card EXCEPT !.changed = FALSE]
  /\ core' = after
  /\ UNCHANGED <<frames, pad, save_event, file, failed, after, writes>>

QueueSave ==
  /\ core = "wait"
  /\ ~save_pending
  /\ save_pending' = TRUE
  /\ tasks' = tasks \cup {[data |-> card.data, written |-> FALSE]}
  /\ saved' = card.data
  /\ card' = [card EXCEPT !.changed = FALSE]
  /\ core' = after
  /\ UNCHANGED <<frames, pad, save_event, file, failed, after, writes>>

SaveEvent ==
  /\ core = "run" /\ save_event
  /\ SaveIfChanged("run")
  /\ UNCHANGED <<frames, pad, card, save_pending, tasks, file, saved, failed, writes>>

\* Before the cards are changed, and when the card goes away.
FlushOrClose ==
  /\ core = "run"
  /\ \E then \in {"flush", "close"} : SaveIfChanged(then)
  /\ UNCHANGED <<frames, pad, card, save_pending, tasks, file, saved, failed, writes>>

Closed ==
  /\ core \in {"flush", "close"}
  /\ ~save_pending
  /\ core' = IF core = "flush" THEN "run" ELSE "closed"
  /\ UNCHANGED <<frames, pad, card, saves, after, writes>>

\* A worker: SaveToFile, and the end of the task.
WriteFile ==
  /\ \E t \in tasks :
       /\ ~t.written
       /\ tasks' = (tasks \ {t}) \cup {[t EXCEPT !.written = TRUE]}
       /\ failed' \in BOOLEAN
       /\ file' = IF failed' THEN file ELSE t.data
  /\ UNCHANGED <<frames, pad, card, save_event, save_pending, saved, core, after, writes>>

EndTaskIfSaved ==
  /\ \E t \in tasks : t.written /\ tasks' = tasks \ {t}
  /\ save_pending' = failed
  /\ UNCHANGED <<frames, pad, card, save_event, file, saved, failed, core, after, writes>>

EndTask ==
  /\ \E t \in tasks : t.written /\ tasks' = tasks \ {t}
  /\ save_pending' = FALSE
  /\ UNCHANGED <<frames, pad, card, save_event, file, saved, failed, core, after, writes>>

-----------------------------------------------------------------------------
(* pad.cpp *)

Since(frame, last) == (frame + FrameValues - last) % FrameValues
IsRecent(frame, last) == Since(frame, last) <= RunaheadFrames

NeedsBackupLater == Since(frame_number, last_transfer) > RunaheadFrames + 1
NeedsBackup == ~IsRecent(frame_number, last_transfer)

\* memory_card.cpp's Transfer of some bytes, the last of which it acknowledges
\* or not.  A card is addressed, takes a command, and goes on with it; it may
\* then be given data and, at the end of a sector, queue a save.
CardTransfer(ack) ==
  \/ /\ card' = [card EXCEPT !.state = IF ~ack THEN "Idle" ELSE IF @ = "Idle" THEN "Command" ELSE "Data"]
     /\ UNCHANGED <<save_event, writes>>
  \/ /\ ack /\ card.state = "Data" /\ writes < MaxWrites
     /\ writes' = writes + 1
     /\ card' = [card EXCEPT !.data = writes', !.changed = TRUE]
     /\ save_event' \in {save_event, TRUE}

CanTransfer == core = "run" /\ (active /\ ~device => StaleDevice)

\* DoTransfer while no device is active: the card answers, which makes it the
\* active one, and only then is the backup made.  A card that expects a command
\* does not answer to its address.
FirstByte ==
  /\ CanTransfer /\ ~active
  /\ active' \in BOOLEAN /\ device' = active'
  /\ active' => device \/ card.state = "Idle"
  /\ CardTransfer(active')
  /\ last_transfer' = IF active' /\ ~Multitap THEN frame_number ELSE last_transfer
  /\ backup' = IF active' /\ ~Multitap /\ NeedsBackup THEN card' ELSE backup
  /\ UNCHANGED <<frames, save_pending, tasks, file, saved, failed, core, after>>

NextBytes ==
  /\ CanTransfer /\ active
  /\ active' \in BOOLEAN /\ device' = active'
  /\ CardTransfer(active')
  /\ last_transfer' = IF Multitap THEN last_transfer ELSE frame_number
  /\ UNCHANGED <<frames, backup, save_pending, tasks, file, saved, failed, core, after>>

\* The game takes JOY_CTRL's SELECT away.
ResetDeviceTransferState ==
  /\ core = "run"
  /\ active' = FALSE /\ device' = FALSE
  /\ card' = [card EXCEPT !.state = "Idle"]
  /\ UNCHANGED <<frames, last_transfer, backup, saves, core, after, writes>>

\* DoState of a memory state, writing.  "truth" is the whole card, for the
\* property.
MemoryState ==
  [frame |-> frame_number, last |-> last_transfer, device |-> device,
   card |-> IF IsRecent(frame_number, last_transfer) THEN card ELSE NoCard, truth |-> card]

\* DoState, reading: no transfer has been made since the state was saved.
Loaded == Head(memory_states)
CardIsCurrentIfSameFrame == Loaded.last = last_transfer
CardIsCurrent == Loaded.last # Loaded.frame /\ Loaded.last = last_transfer

-----------------------------------------------------------------------------
(* system.cpp *)

VBlank ==
  /\ core = "run" /\ ~frame_done_due
  /\ frame_number < MaxFrames
  /\ frame_number' = (frame_number + 1) % FrameValues
  /\ frame_done_due' = TRUE
  /\ device /\ ~Stalls => IsRecent(frame_number', last_transfer)
  /\ UNCHANGED <<memory_states, replay_pending, replay_frames, pad, card, saves, core, after, writes>>

\* FrameDone polls the input, unless it replays; a change of it asks for a
\* replay if there is a state.
FrameDone ==
  /\ core = "run" /\ frame_done_due
  /\ frame_done_due' = FALSE
  /\ replay_pending' = FALSE
  /\ \E input \in BOOLEAN :
       LET pending == replay_pending \/ (input /\ replay_frames = 0)
       IN  IF pending /\ memory_states # <<>>
             THEN core' = "load" /\ UNCHANGED <<memory_states, replay_frames>>
             ELSE /\ replay_frames' = IF replay_frames > 0 THEN replay_frames - 1 ELSE 0
                  /\ memory_states' = IF Len(memory_states) = RunaheadFrames
                       THEN Append(Tail(memory_states), MemoryState) ELSE Append(memory_states, MemoryState)
                  /\ UNCHANGED core
  /\ UNCHANGED <<frame_number, pad, card, saves, after, writes>>

\* DoRunahead, after LoadMemoryState.  DoState leaves active_device as it is.
Replay ==
  /\ frame_number' = Loaded.frame
  /\ last_transfer' = Loaded.last
  /\ device' = Loaded.device
  /\ replay_frames' = Len(memory_states)
  /\ memory_states' = <<>>
  /\ UNCHANGED <<frame_done_due, replay_pending, active, backup, writes>>

LoadWithoutCard ==
  /\ core = "load" /\ CardIsCurrent
  /\ Replay
  /\ core' = "run"
  /\ UNCHANGED <<card, saves, after>>

LoadCard ==
  /\ core = "load" /\ ~CardIsCurrent
  /\ SaveIfChanged("restore")
  /\ UNCHANGED <<frames, pad, card, save_pending, tasks, file, saved, failed, writes>>

RestoreCard ==
  /\ core = "restore"
  /\ Replay
  /\ card' = IF Loaded.card # NoCard THEN Loaded.card ELSE IF backup # NoCard THEN backup ELSE card
  /\ core' = "run"
  /\ UNCHANGED <<saves, after>>

\* ResetSystem: the memory states are cleared, the card is reset as well.
ResetSystem ==
  /\ core = "run"
  /\ LateResets \/ IsRecent(1, last_transfer)
  /\ frame_number' = 1 /\ frame_done_due' = FALSE
  /\ memory_states' = <<>>
  /\ active' = FALSE /\ device' = FALSE
  /\ card' = [card EXCEPT !.state = "Idle"]
  /\ SaveIfChanged("run")
  /\ UNCHANGED <<replay_pending, replay_frames, last_transfer, backup, save_pending, tasks, file, saved, failed, writes>>

Worker == WriteFile \/ EndTask

Core ==
  \/ QueueSave \/ SaveEvent \/ FlushOrClose \/ Closed
  \/ FirstByte \/ NextBytes \/ ResetDeviceTransferState
  \/ VBlank \/ FrameDone \/ LoadWithoutCard \/ LoadCard \/ RestoreCard \/ ResetSystem

Next == Core \/ Worker

\* Queued tasks are run, and the core thread, which waits for nothing else, sees
\* the flag go down.
Spec == Init /\ [][Next]_vars /\ WF_vars(Worker) /\ WF_vars(QueueSave \/ Closed)

-----------------------------------------------------------------------------
Cards == [data : 0 .. MaxWrites, state : {"Idle", "Command", "Data"}, changed : BOOLEAN]
States ==
  [frame : 0 .. MaxFrames, last : 0 .. MaxFrames, device : BOOLEAN, card : Cards \cup {NoCard}, truth : Cards]

\* The last part is RestoreMemoryCardState's assertion: what was left out of the
\* state has been backed up.
TypeOK ==
  /\ frame_number \in 1 .. MaxFrames /\ last_transfer \in 0 .. MaxFrames
  /\ frame_done_due \in BOOLEAN /\ replay_pending \in BOOLEAN /\ replay_frames \in 0 .. RunaheadFrames
  /\ \A i \in DOMAIN memory_states : memory_states[i] \in States
  /\ Len(memory_states) <= RunaheadFrames
  /\ {active, device} \subseteq BOOLEAN /\ backup \in Cards \cup {NoCard} /\ card \in Cards
  /\ tasks \subseteq [data : 0 .. MaxWrites, written : BOOLEAN]
  /\ core \in {"run", "wait", "load", "restore", "flush", "close", "closed"}
  /\ core = "restore" => Loaded.card # NoCard \/ backup # NoCard

\* When an old memory state has been loaded the card holds what it held when
\* the state was saved, also if the state is one without the card: "we can't
\* roll back past a transfer boundary, because that'll corrupt our cards"
\* (pad.cpp:377).
IsLoading == core \in {"load", "restore"} /\ core' = "run"
RollbackRestoresTheData == [][IsLoading => card'.data = Loaded.truth.data]_vars

\* And it is as ready for a transfer as it was then: the backup is "the known
\* good 'pre transfer' state" (pad.cpp:392).
RollbackRestoresTheCard == [][IsLoading => card'.state = Loaded.truth.state]_vars

\* However late the workers are, the file ends up with the newest data that was
\* saved, if it could be written; and no task outlives the card.
SavesAreInOrder ==
  /\ ~save_pending => tasks = {} /\ (file = saved \/ failed)
  /\ core = "closed" => tasks = {}

\* The core thread never waits in vain for a save, not even one that failed.
WaitIsAnswered == core \in {"wait", "flush", "close"} ~> core \in {"run", "restore", "closed"}
=============================================================================
