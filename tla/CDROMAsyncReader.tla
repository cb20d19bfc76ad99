------------------------- MODULE CDROMAsyncReader -------------------------
(***************************************************************************)
(* The CD-ROM read-ahead thread, src/core/cdrom_async_reader.cpp: the core *)
(* thread queues a sector and later waits for it; a worker seeks, reads    *)
(* that sector and the ones after it into a ring of buffers, and sleeps.   *)
(*                                                                         *)
(* The mutex is free whenever no thread is at a step that holds it.  What  *)
(* the core thread does under the mutex without letting go of it is one    *)
(* step; of the worker, each store that the core thread can see without    *)
(* the mutex is one.  A sector is its LBA: a slot records the LBA it is    *)
(* labelled with and the sector that was read into it.                     *)
(*                                                                         *)
(* A definition just before the one it varies (FillPastEnd before Fill) is *)
(* that one with a plausible bug: the properties must see it.              *)
(***************************************************************************)
EXTENDS Naturals, FiniteSets

CONSTANTS
  Length,      \* sectors on the disc; seeking to another LBA fails
  Sizes,       \* the values of the setting cdrom_readahead_sectors
  Usages       \* how the core thread may use the reader

\* A usage says which LBAs the drive asks for; does the game issue a read
\* while the drive seeks or reads; does the core thread precache the image or
\* map its files; does a worker told to read ahead run before the next call.
Usage == [requests : SUBSET Nat, peeks : BOOLEAN, whole_image : BOOLEAN, kick_is_seen : BOOLEAN]

ASSUME ReaderAssumption == Length \in Nat \ {0} /\ Sizes \subseteq Nat /\ Usages \subseteq Usage

VARIABLES
  usage,                           \* the one of this behaviour
  media, position,                 \* is there an image, and its m_position_on_disc
  next_position, next_position_set,
  shutdown_flag, readahead_enabled, is_reading, can_readahead, seek_error,
  buffer_front, buffer_back, buffer_count, buffers,
  worker, seek_location, slot,     \* the worker's next step, and its locals
  core, asleep,                    \* the core thread's, and is it in the wait set
  requested_lba, expecting,        \* the drive's request; is it seeking or reading
  peeking                          \* is the wait GetNextSectorToBeRead's

disc == <<usage, media, position>>
queue == <<next_position, next_position_set>>
ring == <<buffer_front, buffer_back, buffer_count, buffers>>
modes == <<shutdown_flag, readahead_enabled>>
local == <<seek_location, slot>>
drive == <<requested_lba, expecting, peeking>>
vars == <<disc, queue, modes, is_reading, can_readahead, seek_error, ring, worker, local,
          core, asleep, drive>>

EmptySlot == [lba |-> 0, sector |-> 0, result |-> FALSE]

Slots(n) == [0 .. (IF n = 0 THEN 0 ELSE n - 1) -> {EmptySlot}]
Size == Cardinality(DOMAIN buffers)
ReadaheadCount == IF readahead_enabled THEN Size ELSE 0

Requests == usage.requests

Init ==
  /\ usage \in Usages
  /\ media = FALSE /\ position = 0
  /\ next_position = 0 /\ next_position_set = FALSE
  /\ shutdown_flag = FALSE /\ is_reading = FALSE /\ can_readahead = FALSE /\ seek_error = FALSE
  /\ \E n \in Sizes : buffers \in Slots(n) /\ readahead_enabled = (n > 0)
  /\ buffer_front = 0 /\ buffer_back = 0 /\ buffer_count = 0
  /\ worker = "woken" /\ seek_location = 0 /\ slot = 0
  /\ core = "idle" /\ asleep = FALSE
  /\ requested_lba = 0 /\ expecting = FALSE /\ peeking = FALSE

-----------------------------------------------------------------------------
(* The mutex, the condition variables and the image. *)

LockFree ==
  /\ worker \notin {"predicate", "loop", "emptied", "fill"}
  /\ core \notin {"uncached_read", "precache"}

NotifyWorker == worker' = IF worker = "waiting" THEN "woken" ELSE worker

NotifyNobody == asleep' = asleep
NotifyCore == asleep' = FALSE

EmptyBuffers == buffer_front' = 0 /\ buffer_back' = 0 /\ buffer_count' = 0

Next1(i) == (i + 1) % Size

CanSeek(lba) == lba < Length

\* A readable sector can fail all the same.
ReadResults(lba) == IF lba < Length THEN BOOLEAN ELSE {FALSE}

\* Where reading lba leaves the image: ReadRawSector advances on success.
PositionsAfter(lba) == IF CanSeek(lba) THEN {lba, lba + 1} ELSE {position}

-----------------------------------------------------------------------------
(* The worker. *)

Acquire ==
  /\ worker = "woken" /\ LockFree
  /\ worker' = "predicate"
  /\ UNCHANGED <<disc, queue, modes, is_reading, can_readahead, seek_error, ring, local,
                 core, asleep, drive>>

Predicate ==
  /\ worker = "predicate"
  /\ worker' = IF shutdown_flag THEN "stopped"
               ELSE IF next_position_set \/ can_readahead THEN "loop" ELSE "waiting"
  /\ UNCHANGED <<disc, queue, modes, is_reading, can_readahead, seek_error, ring, local,
                 core, asleep, drive>>

Loop ==
  /\ worker = "loop"
  /\ IF next_position_set
     THEN worker' = "emptied" /\ seek_location' = next_position /\ EmptyBuffers
     ELSE /\ worker' = IF can_readahead THEN "fill" ELSE "predicate"
          /\ UNCHANGED <<seek_location, buffer_front, buffer_back, buffer_count>>
  /\ UNCHANGED <<disc, queue, modes, is_reading, can_readahead, seek_error, buffers, slot,
                 core, asleep, drive>>

BeginSeekKeepingError ==
  /\ worker = "emptied"
  /\ next_position_set' = FALSE /\ is_reading' = TRUE
  /\ worker' = "seeking"
  /\ UNCHANGED <<disc, next_position, modes, can_readahead, seek_error, ring, local,
                 core, asleep, drive>>

BeginSeek ==
  /\ worker = "emptied"
  /\ next_position_set' = FALSE /\ seek_error' = FALSE /\ is_reading' = TRUE
  /\ worker' = "seeking"
  /\ UNCHANGED <<disc, next_position, modes, can_readahead, ring, local, core, asleep, drive>>

\* No seek is needed when the image is there already, at the end even.
SeekMedia ==
  /\ worker = "seeking"
  /\ IF CanSeek(seek_location) \/ position = seek_location
     THEN position' = seek_location /\ worker' = "seeked"
     ELSE position' = position /\ worker' = "seek_failed"
  /\ seek_location' = 0
  /\ UNCHANGED <<usage, media, queue, modes, is_reading, can_readahead, seek_error, ring, slot,
                 core, asleep, drive>>

SeekDoneSilently ==
  /\ worker \in {"seeked", "seek_failed"} /\ LockFree
  /\ is_reading' = FALSE
  /\ worker' = IF next_position_set THEN "loop"
               ELSE IF worker = "seeked" THEN "fill" ELSE "predicate"
  /\ seek_error' = (seek_error \/ worker' = "predicate")
  /\ can_readahead' = (can_readahead \/ worker' = "fill")
  /\ NotifyNobody
  /\ UNCHANGED <<disc, queue, modes, ring, local, core, drive>>

\* A request that came in meanwhile makes the result irrelevant.
SeekDone ==
  /\ worker \in {"seeked", "seek_failed"} /\ LockFree
  /\ is_reading' = FALSE
  /\ worker' = IF next_position_set THEN "loop"
               ELSE IF worker = "seeked" THEN "fill" ELSE "predicate"
  /\ seek_error' = (seek_error \/ worker' = "predicate")
  /\ can_readahead' = (can_readahead \/ worker' = "fill")
  /\ IF worker' = "predicate" THEN NotifyCore ELSE NotifyNobody
  /\ UNCHANGED <<disc, queue, modes, ring, local, core, drive>>

FillPastEnd ==
  /\ worker = "fill"
  /\ IF buffer_count <= Size /\ ~next_position_set
     THEN /\ slot' = buffer_back
          /\ buffer_back' = Next1(buffer_back)
          /\ buffers' = [buffers EXCEPT ![buffer_back].lba = position]
          /\ is_reading' = TRUE
          /\ worker' = "reading"
          /\ UNCHANGED can_readahead
     ELSE /\ can_readahead' = FALSE
          /\ worker' = "predicate"
          /\ UNCHANGED <<is_reading, buffer_back, buffers, slot>>
  /\ UNCHANGED <<disc, queue, modes, seek_error, buffer_front, buffer_count, seek_location,
                 core, asleep, drive>>

\* ReadSectorIntoBuffer as far as the unlock, while there is room.
Fill ==
  /\ worker = "fill"
  /\ IF buffer_count < Size /\ ~next_position_set
     THEN /\ slot' = buffer_back
          /\ buffer_back' = Next1(buffer_back)
          /\ buffers' = [buffers EXCEPT ![buffer_back].lba = position]
          /\ is_reading' = TRUE
          /\ worker' = "reading"
          /\ UNCHANGED can_readahead
     ELSE /\ can_readahead' = FALSE
          /\ worker' = "predicate"
          /\ UNCHANGED <<is_reading, buffer_back, buffers, slot>>
  /\ UNCHANGED <<disc, queue, modes, seek_error, buffer_front, buffer_count, seek_location,
                 core, asleep, drive>>

Read ==
  /\ worker = "reading"
  /\ \E ok \in ReadResults(position) :
       /\ buffers' = [buffers EXCEPT ![slot].result = ok, ![slot].sector = position]
       /\ position' = IF ok THEN position + 1 ELSE position
  /\ worker' = "read"
  /\ UNCHANGED <<usage, media, queue, modes, is_reading, can_readahead, seek_error, buffer_front,
                 buffer_back, buffer_count, local, core, asleep, drive>>

ReadDone ==
  /\ worker = "read" /\ LockFree
  /\ is_reading' = FALSE
  /\ buffer_count' = buffer_count + 1
  /\ NotifyCore
  /\ slot' = 0
  /\ worker' = IF buffers[slot].result THEN "fill" ELSE "predicate"
  /\ can_readahead' = (can_readahead /\ buffers[slot].result)
  /\ UNCHANGED <<disc, queue, modes, seek_error, buffer_front, buffer_back, buffers,
                 seek_location, core, drive>>

-----------------------------------------------------------------------------
(* The core thread: QueueReadSector. *)

\* A step of the core thread that begins a call.
Begins == core = "idle" /\ (usage.kick_is_seen => ~(can_readahead /\ worker \in {"waiting", "woken"}))

Asks(lba) == requested_lba' = lba /\ core' = "idle" /\ peeking' = FALSE

ReadSectorNonThreaded(lba) ==
  /\ ~readahead_enabled
  /\ Asks(lba)
  /\ buffer_front' = 0 /\ buffer_back' = 0
  /\ \/ /\ ~CanSeek(lba) /\ position # lba
        /\ seek_error' = TRUE /\ buffer_count' = 0
        /\ UNCHANGED <<position, buffers>>
     \/ /\ CanSeek(lba) \/ position = lba
        /\ seek_error' = FALSE /\ buffer_count' = 1
        /\ \E ok \in ReadResults(lba) :
             /\ position' = IF ok THEN lba + 1 ELSE lba
             /\ buffers' = [buffers EXCEPT ![0] = [lba |-> lba, sector |-> lba, result |-> ok]]
  /\ UNCHANGED <<usage, media, queue, modes, is_reading, can_readahead, worker, local, asleep>>

\* The same sector is not read again, whatever its result was.
SameSector(lba) == ~next_position_set /\ buffer_count > 0 /\ buffers[buffer_front].lba = lba

NextSectorIgnoringSeek(lba) ==
  /\ ~SameSector(lba)
  /\ buffer_count > 1
  /\ buffers[Next1(buffer_front)].lba = lba

NextSector(lba) ==
  /\ ~next_position_set /\ ~SameSector(lba)
  /\ buffer_count > 1
  /\ buffers[Next1(buffer_front)].lba = lba

SkipSameSector(lba) ==
  /\ SameSector(lba)
  /\ UNCHANGED <<queue, can_readahead, ring, worker>>

HitNextSector(lba) ==
  /\ NextSector(lba)
  /\ buffer_front' = Next1(buffer_front) /\ buffer_count' = buffer_count - 1
  /\ can_readahead' = TRUE
  /\ NotifyWorker
  /\ UNCHANGED <<queue, buffer_back, buffers>>

QueueSeek(lba) ==
  /\ ~SameSector(lba) /\ ~NextSector(lba)
  /\ next_position' = lba /\ next_position_set' = TRUE
  /\ NotifyWorker
  /\ UNCHANGED <<can_readahead, ring>>

QueueReadSector(lba) ==
  \/ ReadSectorNonThreaded(lba)
  \/ /\ readahead_enabled /\ LockFree
     /\ Asks(lba)
     /\ SkipSameSector(lba) \/ HitNextSector(lba) \/ QueueSeek(lba)
     /\ UNCHANGED <<disc, modes, is_reading, seek_error, local, asleep>>

\* BeginSeeking, BeginReading, BeginPlaying, and the next sector of DoSectorRead.
Queue ==
  /\ Begins /\ media
  /\ expecting' = TRUE
  /\ \E lba \in Requests : QueueReadSector(lba)

-----------------------------------------------------------------------------
(* The core thread: WaitForReadToComplete, for CompleteSeek, DoSectorRead    *)
(* and GetNextSectorToBeRead.                                                *)

others == <<disc, queue, modes, is_reading, can_readahead, ring, worker, local>>

\* Only core and asleep change.
Goes(from, to) == core = from /\ core' = to /\ UNCHANGED <<others, seek_error, asleep, drive>>

BeginWait ==
  /\ Begins /\ media /\ expecting
  /\ peeking' \in IF usage.peeks THEN BOOLEAN ELSE {FALSE}
  /\ core' = IF next_position_set THEN "wait" ELSE "wait_count"
  /\ UNCHANGED <<others, seek_error, asleep, requested_lba, expecting>>

\* What a result leads to; an error ends the drive's seek or read.
Returned(ok) == IF peeking THEN "peeked" ELSE IF ok THEN "using" ELSE "failed"

WaitCount ==
  /\ core = "wait_count"
  /\ core' = IF buffer_count > 0 THEN Returned(buffers[buffer_front].result) ELSE "wait"
  /\ UNCHANGED <<others, seek_error, asleep, drive>>

SectorReady == (buffer_count > 0 \/ seek_error) /\ ~next_position_set

\* A seek error is consumed, a sector is not.
WaitForReadToComplete ==
  /\ core = "wait" /\ ~asleep /\ LockFree
  /\ IF SectorReady
     THEN /\ core' = Returned(~seek_error /\ buffers[buffer_front].result)
          /\ seek_error' = FALSE
          /\ UNCHANGED asleep
     ELSE asleep' = TRUE /\ UNCHANGED <<core, seek_error>>
  /\ UNCHANGED <<others, drive>>

\* The sector buffer is copied out; DoSectorRead then queues the next one.
UseSector ==
  /\ core \in {"using", "failed"}
  /\ core' = "idle"
  /\ expecting' = FALSE
  /\ UNCHANGED <<others, seek_error, asleep, requested_lba, peeking>>

\* "Ignoring read command": the game asks for the sector that is coming.
IgnoreRead ==
  /\ core = "peeked"
  /\ buffers[buffer_front].lba \in Requests
  /\ core' = "idle"
  /\ peeking' = FALSE
  /\ UNCHANGED <<others, seek_error, asleep, requested_lba, expecting>>

SeekElsewhere ==
  /\ core = "peeked"
  /\ UNCHANGED expecting
  /\ \E lba \in Requests \ {buffers[buffer_front].lba} : QueueReadSector(lba)

-----------------------------------------------------------------------------
(* The core thread: the calls that need the worker idle. *)

\* notify_read_complete_cv.wait: go on to the next step, or sleep.
WaitUntil(ready, from, to) ==
  /\ core = from /\ ~asleep /\ LockFree
  /\ IF ready THEN core' = to /\ UNCHANGED asleep ELSE asleep' = TRUE /\ UNCHANGED core

Idle == ~is_reading /\ ~next_position_set

BeginUncached ==
  /\ Begins /\ media
  /\ IF readahead_enabled
     THEN core' = "uncached" /\ UNCHANGED position
     ELSE \E lba \in Requests : position' \in PositionsAfter(lba) /\ UNCHANGED core
  /\ UNCHANGED <<usage, media, queue, modes, is_reading, can_readahead, seek_error, ring, worker,
                 local, asleep, drive>>

UncachedAtOnce ==
  /\ WaitUntil(TRUE, "uncached", "uncached_read")
  /\ UNCHANGED <<others, seek_error, drive>>

Uncached ==
  /\ WaitUntil(~is_reading, "uncached", "uncached_read")
  /\ UNCHANGED <<others, seek_error, drive>>

\* The image is put back where the worker left it, unless that was the end.
ReadSectorUncached ==
  /\ core = "uncached_read"
  /\ core' = "idle"
  /\ IF CanSeek(position)
     THEN UNCHANGED <<position, can_readahead>>
     ELSE /\ \E lba \in Requests : position' \in PositionsAfter(lba)
          /\ can_readahead' = FALSE
  /\ UNCHANGED <<usage, media, queue, modes, is_reading, seek_error, ring, worker, local, asleep, drive>>

BeginCancel(next) == core' = next /\ UNCHANGED <<others, seek_error, asleep, drive>>

Callers == {"resize", "insert", "remove"}
Cancelling == [resize |-> "cancel_resize", insert |-> "cancel_insert", remove |-> "cancel_remove"]

CancelReadahead(next) ==
  /\ WaitUntil(Idle, Cancelling[next], next)
  /\ IF Idle THEN can_readahead' = FALSE /\ EmptyBuffers
     ELSE UNCHANGED <<can_readahead, buffer_front, buffer_back, buffer_count>>
  /\ UNCHANGED <<disc, queue, modes, is_reading, seek_error, buffers, worker, local, drive>>

Cancel == \E next \in Callers : CancelReadahead(next)

\* After it a drive with a disc queues the sector it had requested.
SetReadaheadSectors ==
  /\ core = "resize"
  /\ \E n \in Sizes \ {ReadaheadCount} : buffers' \in Slots(n) /\ readahead_enabled' = (n > 0)
  /\ EmptyBuffers
  /\ core' = IF media THEN "requeue" ELSE "idle"
  /\ UNCHANGED <<disc, queue, shutdown_flag, is_reading, can_readahead, seek_error, worker,
                 local, asleep, drive>>

Requeue == core = "requeue" /\ UNCHANGED expecting /\ QueueReadSector(requested_lba)

ChangeMedia(next, present) ==
  /\ core = next
  /\ core' = "idle"
  /\ media' = present /\ position' = 0
  /\ expecting' = FALSE
  /\ UNCHANGED <<usage, queue, modes, is_reading, can_readahead, seek_error, ring, worker, local,
                 asleep, requested_lba, peeking>>

SetMedia == ChangeMedia("insert", TRUE)
RemoveMedia == ChangeMedia("remove", FALSE)

BeginExclusive ==
  /\ Begins
  /\ \/ Sizes \ {ReadaheadCount} # {} /\ BeginCancel("cancel_resize")
     \/ ~media /\ BeginCancel("cancel_insert")
     \/ media /\ BeginCancel("cancel_remove")
     \/ usage.whole_image /\ media
        /\ BeginCancel(IF readahead_enabled THEN "idle_precache" ELSE "precache_lock")
     \/ usage.whole_image /\ media
        /\ BeginCancel(IF readahead_enabled THEN "idle_map" ELSE "map")

WaitForIdle ==
  /\ WaitUntil(Idle, "idle_precache", "precache_lock") \/ WaitUntil(Idle, "idle_map", "map")
  /\ UNCHANGED <<others, seek_error, drive>>

PrecacheLock == LockFree /\ Goes("precache_lock", "precache")

\* Another image replaces the one that was copied, at the same position.
Precache == Goes("precache", "idle")

\* CreateFileMap walks the file system of the image and does not seek back.
CreateFileMap ==
  /\ core = "map"
  /\ core' = "idle"
  /\ \E lba \in Requests : position' \in PositionsAfter(lba)
  /\ UNCHANGED <<usage, media, queue, modes, is_reading, can_readahead, seek_error, ring, worker,
                 local, asleep, drive>>

ProcessShutdownSilently ==
  /\ Begins /\ ~media /\ LockFree
  /\ shutdown_flag' = TRUE
  /\ core' = "join"
  /\ UNCHANGED <<disc, queue, readahead_enabled, is_reading, can_readahead, seek_error, ring,
                 worker, local, asleep, drive>>

ProcessShutdown ==
  /\ Begins /\ ~media /\ LockFree
  /\ shutdown_flag' = TRUE
  /\ core' = "join"
  /\ NotifyWorker
  /\ UNCHANGED <<disc, queue, readahead_enabled, is_reading, can_readahead, seek_error, ring,
                 local, asleep, drive>>

Join == worker = "stopped" /\ Goes("join", "joined")

-----------------------------------------------------------------------------
\* Threading::ConditionVariable permits it.
SpuriousWakeup ==
  /\ \/ worker = "waiting" /\ worker' = "woken" /\ UNCHANGED asleep
     \/ asleep /\ asleep' = FALSE /\ UNCHANGED worker
  /\ UNCHANGED <<disc, queue, modes, is_reading, can_readahead, seek_error, ring, local, core,
                 drive>>

WorkerSteps ==
  Acquire \/ Predicate \/ Loop \/ BeginSeek \/ SeekMedia \/ SeekDone \/ Fill \/ Read \/ ReadDone

CoreSteps ==
  \/ WaitCount \/ WaitForReadToComplete \/ UseSector \/ IgnoreRead \/ SeekElsewhere
  \/ Uncached \/ ReadSectorUncached \/ Cancel \/ SetReadaheadSectors \/ Requeue
  \/ SetMedia \/ RemoveMedia \/ WaitForIdle \/ PrecacheLock \/ Precache \/ CreateFileMap \/ Join

Calls == Queue \/ BeginWait \/ BeginUncached \/ BeginExclusive \/ ProcessShutdown

Done == core = "joined" /\ UNCHANGED vars

Next == WorkerSteps \/ CoreSteps \/ Calls \/ SpuriousWakeup \/ Done

Spec == Init /\ [][Next]_vars

\* Two threads of the operating system, each of which gets to run; the core
\* thread finishes a call it has begun, and need not begin another.  Spurious
\* wakeups, each of which takes the mutex for a moment, end.
FairSpec ==
  /\ Spec
  /\ WF_vars(WorkerSteps) /\ WF_vars(CoreSteps)
  /\ <>[][~SpuriousWakeup]_vars

-----------------------------------------------------------------------------
(* Properties. *)

WorkerAt == {"woken", "predicate", "loop", "emptied", "seeking", "seeked", "seek_failed", "fill",
             "reading", "read", "waiting", "stopped"}
CoreAt == {"idle", "wait_count", "wait", "using", "failed", "peeked", "uncached", "uncached_read",
           "cancel_resize", "cancel_insert", "cancel_remove", "resize", "insert", "remove",
           "requeue", "idle_precache", "precache_lock", "precache", "idle_map", "map", "join",
           "joined"}

\* In particular the ring never holds more sectors than it has slots.
TypeOK ==
  /\ usage \in Usages
  /\ media \in BOOLEAN /\ position \in 0 .. Length
  /\ next_position \in Requests \cup {0} /\ next_position_set \in BOOLEAN
  /\ {shutdown_flag, readahead_enabled, is_reading, can_readahead, seek_error} \subseteq BOOLEAN
  /\ buffers \in [0 .. Size - 1 ->
                    [lba : 0 .. Length, sector : 0 .. Length, result : BOOLEAN]]
  /\ Size \in Nat \ {0} /\ ReadaheadCount \in Sizes
  /\ {buffer_front, buffer_back} \subseteq 0 .. Size - 1 /\ buffer_count \in 0 .. Size
  /\ worker \in WorkerAt /\ seek_location \in Requests \cup {0} /\ slot \in Nat
  /\ core \in CoreAt /\ asleep \in BOOLEAN
  /\ requested_lba \in Requests \cup {0} /\ {expecting, peeking} \subseteq BOOLEAN

\* A wait that succeeds has returned the sector of the newest request, read
\* from the disc at that position: neither a sector buffered for an older
\* request nor one that the worker is writing.
ServesTheRequest ==
  core = "using" =>
    /\ buffer_count > 0
    /\ buffers[buffer_front] = [lba |-> requested_lba, sector |-> requested_lba, result |-> TRUE]
    /\ worker = "reading" => slot # buffer_front

\* The image, which has no lock of its own and whose position both threads
\* move, is never used by both: "read while the lock is held so it has to
\* wait", "prevent it from doing any more when it re-acquires the lock".
MediaHasOneUser ==
  core \in {"uncached_read", "resize", "insert", "remove", "precache", "map"} =>
    worker \notin {"seeking", "reading"}

\* Nothing is buffered behind a failed seek: "add the error result, and don't
\* try to read ahead".
SeekErrorIsTheResult ==
  seek_error => buffer_count = 0 /\ worker # "reading"

\* A core thread asleep in any of the waits has something to be woken for:
\* the worker is busy or has been told to be.
WaitIsAnswered ==
  asleep => worker # "waiting" /\ worker # "stopped"

\* Every call returns: waits, cancellations and the join of the worker.
CallsReturn == core \notin {"idle", "joined"} ~> core \in {"idle", "joined"}
=============================================================================
