----------------------- MODULE CDROMAsyncReaderProofs -----------------------
(***************************************************************************)
(* The read-ahead thread, for every disc, every size of the ring and every *)
(* usage of its class.  The first invariant, of any usage, is about the    *)
(* ring and the worker's flag: the sectors and the one being read end at   *)
(* the back, and a core thread that has cancelled the worker finds it      *)
(* parked.  The second, of a usage that gives the worker time or asks for  *)
(* nothing that needs it, follows the request from the queue over the seek *)
(* into the front of the ring.                                             *)
(***************************************************************************)
EXTENDS CDROMAsyncReader, FiniteSetTheorems, TLAPS

\* The core thread gives a worker that it has told to read ahead the time to
\* begin, or it neither uses the whole image nor asks for LBAs off the disc.
InTime(u) == u.kick_is_seen \/ (~u.whole_image /\ u.requests \subseteq 0 .. Length - 1)

UsagesInTime == \A u \in Usages : InTime(u)

Busy == worker \in {"seeking", "seeked", "seek_failed", "reading", "read"}
Filling == worker \in {"reading", "read"}
HoldsMutex == worker \in {"predicate", "loop", "emptied", "fill"}

Slot == [lba : 0 .. Length, sector : 0 .. Length, result : BOOLEAN]

Types ==
  /\ usage \in Usages
  /\ media \in BOOLEAN /\ position \in 0 .. Length
  /\ next_position \in Requests \cup {0} /\ next_position_set \in BOOLEAN
  /\ readahead_enabled \in BOOLEAN /\ is_reading \in BOOLEAN
  /\ can_readahead \in BOOLEAN /\ seek_error \in BOOLEAN /\ shutdown_flag \in BOOLEAN
  /\ worker \in WorkerAt /\ seek_location \in Requests \cup {0} /\ core \in CoreAt /\ asleep \in BOOLEAN
  /\ requested_lba \in Requests \cup {0} /\ expecting \in BOOLEAN /\ peeking \in BOOLEAN

RingTypes ==
  /\ Size \in Nat \ {0} /\ buffers \in [0 .. Size - 1 -> Slot]
  /\ IF readahead_enabled THEN Size \in Sizes ELSE Size = 1 /\ 0 \in Sizes
  /\ buffer_front \in 0 .. Size - 1 /\ buffer_back \in 0 .. Size - 1 /\ buffer_count \in 0 .. Size
  /\ slot \in 0 .. Size - 1 /\ (~Filling => slot = 0)

\* The slot of the i-th sector in the ring.
At(i) == IF buffer_front + i < Size THEN buffer_front + i ELSE buffer_front + i - Size

\* The sectors in the ring, and the one that is being read, end at the back.
RingInv ==
  /\ buffer_back = At(buffer_count + (IF Filling THEN 1 ELSE 0))
  /\ Filling => buffer_count < Size /\ slot = At(buffer_count)

\* A seek has nothing behind it.
SeekingInv == worker \in {"emptied", "seeking", "seeked", "seek_failed"} => buffer_count = 0

\* The worker's flag, and the mutex.
BusyInv ==
  /\ is_reading <=> Busy
  /\ core \in {"uncached_read", "precache"} => ~HoldsMutex
  /\ core = "uncached_read" => ~Busy

\* The worker has nothing to do and cannot find anything.
Parked ==
  /\ ~can_readahead /\ ~next_position_set
  /\ worker \in {"woken", "waiting", "predicate", "stopped"}

ParkedInv == core \in {"resize", "insert", "remove", "requeue"} \/ ~readahead_enabled => Parked

BaseInv == Types /\ RingTypes /\ RingInv /\ SeekingInv /\ BusyInv /\ ParkedInv

-----------------------------------------------------------------------------
\* Of a core thread in time: while it uses the whole image the worker is
\* parked; and a request never meets a worker that has yet to read ahead.
WholeImageInv ==
  /\ core \in {"idle_precache", "precache_lock", "precache", "idle_map", "map"} => usage.whole_image
  /\ core \in {"precache_lock", "precache", "map"} => Parked

KickInv ==
  usage.kick_is_seen =>
    /\ core # "idle" /\ worker \in {"waiting", "woken"} => ~can_readahead
    /\ worker \in {"woken", "waiting", "predicate", "loop"} => ~(can_readahead /\ next_position_set)
    /\ worker \in {"emptied", "seeking", "seeked", "seek_failed"} => ~can_readahead

\* After a failed seek the worker waits for the next request.
ErrorInv ==
  /\ seek_error =>
       /\ buffer_count = 0 /\ ~can_readahead
       /\ worker \in {"woken", "waiting", "predicate", "loop", "emptied", "stopped"}
  /\ ~usage.kick_is_seen => ~seek_error /\ worker # "seek_failed"

\* Where the request is: still queued, being sought, or the next to be read.
RequestInv ==
  /\ next_position_set => next_position = requested_lba
  /\ worker = "emptied" => next_position_set /\ seek_location = next_position
  /\ ~next_position_set =>
       /\ worker = "seeking" => seek_location = requested_lba
       /\ worker = "seeked" => position = requested_lba
       /\ buffer_count = 0 /\ worker = "fill" => position = requested_lba
       /\ buffer_count = 0 /\ worker \in {"reading", "read"} => buffers[slot].lba = requested_lba
       /\ buffer_count > 0 => buffers[buffer_front].lba = requested_lba
       /\ can_readahead /\ worker \in {"woken", "waiting", "predicate", "loop"} => buffer_count > 0

\* Every slot holds the sector it is labelled with, or is about to.
ContentsInv ==
  /\ \A i \in 0 .. buffer_count - 1 : buffers[At(i)].lba = buffers[At(i)].sector
  /\ worker = "reading" => buffers[slot].lba = position
  /\ worker = "read" => buffers[slot].lba = buffers[slot].sector

\* What a wait has found stays.
FoundInv ==
  /\ core \in {"wait_count", "using", "failed", "peeked"} => ~next_position_set
  /\ core = "using" => buffer_count > 0 /\ buffers[buffer_front].result

\* The worker stops when the core thread is done with it.
StopInv ==
  /\ worker = "stopped" => shutdown_flag
  /\ shutdown_flag => core \in {"join", "joined"}

Inv == StopInv /\ WholeImageInv /\ KickInv /\ ErrorInv /\ RequestInv /\ ContentsInv /\ FoundInv

-----------------------------------------------------------------------------
(* The ring. *)

\* A buffer of n slots has n.
LEMMA SizeIs ==
  ASSUME NEW n \in Nat, NEW f, DOMAIN f = 0 .. n - 1
  PROVE  Cardinality(DOMAIN f) = n
<1>1. Cardinality(0 .. n - 1) = n - 1 - 0 + 1
  BY FS_Interval
<1> QED
  BY <1>1

\* Going round.
LEMMA NextIs ==
  ASSUME RingTypes, NEW i \in 0 .. Size - 1
  PROVE  Next1(i) = IF i + 1 < Size THEN i + 1 ELSE 0
<1>1. Size \in Nat \ {0}
  BY DEF RingTypes
<1> DEFINE n == Size
<1> HIDE DEF n
<1>2. (i + 1) % n = IF i + 1 < n THEN i + 1 ELSE 0
  <2>1. n \in Nat \ {0} /\ i \in 0 .. n - 1
    BY <1>1 DEF n
  <2> QED
    BY <2>1
<1> QED
  BY <1>2 DEF n, Next1

\* Only SetReadaheadSectors changes the ring's size.
LEMMA SizeKept ==
  ASSUME Types, RingTypes,
         \/ UNCHANGED buffers
         \/ \E i, lba, sector, ok :
              buffers' = [buffers EXCEPT ![i].lba = lba] \/ buffers' = [buffers EXCEPT ![i] = sector]
              \/ buffers' = [buffers EXCEPT ![i].result = ok, ![i].sector = sector]
  PROVE  Size' = Size
<1>1. DOMAIN buffers' = DOMAIN buffers
  BY DEF RingTypes
<1> QED
  BY <1>1 DEF Size

-----------------------------------------------------------------------------
(* The first invariant. *)

\* A step that leaves the ring, its size and the reading of it alone.
LEMMA RingSame ==
  ASSUME BaseInv, UNCHANGED <<ring, readahead_enabled, slot>>, Filling' <=> Filling
  PROVE  RingTypes' /\ RingInv'
<1>1. Size' = Size
  BY SizeKept DEF BaseInv, ring
<1>2. RingTypes'
  BY <1>1 DEF BaseInv, RingTypes, ring
<1>3. \A i : At(i)' = At(i)
  BY <1>1 DEF At, ring
<1>4. RingInv'
  BY <1>1, <1>3 DEF BaseInv, RingInv, ring
<1> QED
  BY <1>2, <1>4

\* Emptying the ring while nothing is read into it.
LEMMA RingEmptied ==
  ASSUME BaseInv, EmptyBuffers, UNCHANGED <<buffers, readahead_enabled, slot>>, ~Filling, ~Filling'
  PROVE  RingTypes' /\ RingInv'
<1>1. Size' = Size
  BY SizeKept DEF BaseInv
<1>2. RingTypes'
  BY <1>1 DEF BaseInv, RingTypes, EmptyBuffers
<1>3. RingInv'
  BY <1>1, <1>2 DEF RingInv, At, EmptyBuffers, RingTypes
<1> QED
  BY <1>2, <1>3

\* The worker's steps.
LEMMA WorkerBase ==
  ASSUME BaseInv, WorkerSteps
  PROVE  BaseInv'
<1>1. CASE Acquire \/ Predicate \/ BeginSeek \/ SeekMedia \/ SeekDone
  <2>1. UNCHANGED <<ring, readahead_enabled, slot>> /\ (Filling' <=> Filling)
    BY <1>1 DEF Acquire, Predicate, BeginSeek, SeekMedia, SeekDone, Filling, local, modes
  <2>2. RingTypes' /\ RingInv'
    BY <2>1, RingSame
  <2>3. Types'
    <3>1. CASE Acquire \/ Predicate \/ BeginSeek
      <4>1. worker' \in WorkerAt
        BY <3>1 DEF Acquire, Predicate, BeginSeek, WorkerAt
      <4>2. /\ next_position_set' \in BOOLEAN /\ seek_error' \in BOOLEAN /\ is_reading' \in BOOLEAN
            /\ UNCHANGED <<disc, next_position, modes, can_readahead, local, core, asleep, drive>>
        BY <3>1, Zenon DEF Acquire, Predicate, BeginSeek, BaseInv, Types, queue
      <4> QED
        BY <4>1, <4>2 DEF BaseInv, Types, Requests, local, modes, disc, drive
    <3>2. CASE SeekMedia
      <4>1. position' \in 0 .. Length /\ seek_location' = 0
        BY <3>2, ReaderAssumption DEF SeekMedia, CanSeek, BaseInv, Types, Requests, Usage
      <4>2. worker' \in WorkerAt
        BY <3>2 DEF SeekMedia, WorkerAt
      <4> QED
        BY <3>2, <4>1, <4>2 DEF SeekMedia, BaseInv, Types, Requests, local, modes, queue, drive
    <3>3. CASE SeekDone
      <4>1. worker' \in WorkerAt
        BY <3>3 DEF SeekDone, WorkerAt
      <4>2. seek_error' \in BOOLEAN /\ can_readahead' \in BOOLEAN /\ is_reading' \in BOOLEAN /\ asleep' \in BOOLEAN
        BY <3>3, Zenon DEF SeekDone, NotifyCore, NotifyNobody, BaseInv, Types
      <4> QED
        BY <3>3, <4>1, <4>2 DEF SeekDone, BaseInv, Types, Requests, local, modes, disc, queue, drive
    <3> QED
      BY <1>1, <3>1, <3>2, <3>3
  <2>4. SeekingInv' /\ BusyInv' /\ ParkedInv'
    BY <1>1 DEF BaseInv, Types, WorkerAt, SeekingInv, BusyInv, Busy, HoldsMutex, ParkedInv, Parked, LockFree,
                Acquire, Predicate, BeginSeek, SeekMedia, SeekDone, local, modes, disc, queue, drive, ring
  <2> QED
    BY <2>2, <2>3, <2>4 DEF BaseInv
<1>2. CASE Loop
  <2>1. CASE next_position_set
    <3>1. RingTypes' /\ RingInv'
      BY <1>2, <2>1, RingEmptied DEF Loop, Filling, modes
    <3>2. Types'
      BY <1>2, <2>1 DEF BaseInv, Types, WorkerAt, Requests, Loop, disc, queue, modes, drive
    <3>3. SeekingInv' /\ BusyInv' /\ ParkedInv'
      BY <1>2, <2>1 DEF BaseInv, Types, SeekingInv, BusyInv, Busy, HoldsMutex, ParkedInv, Parked, Loop, EmptyBuffers,
                        modes, queue
    <3> QED
      BY <3>1, <3>2, <3>3 DEF BaseInv
  <2>2. CASE ~next_position_set
    <3>1. RingTypes' /\ RingInv'
      BY <1>2, <2>2, RingSame DEF Loop, Filling, ring, modes
    <3>2. Types'
      BY <1>2, <2>2 DEF BaseInv, Types, WorkerAt, Requests, Loop, disc, queue, modes, drive
    <3>3. SeekingInv' /\ BusyInv' /\ ParkedInv'
      BY <1>2, <2>2 DEF BaseInv, Types, SeekingInv, BusyInv, Busy, HoldsMutex, ParkedInv, Parked, Loop,
                        modes, queue
    <3> QED
      BY <3>1, <3>2, <3>3 DEF BaseInv
  <2> QED
    BY <2>1, <2>2
<1>3. CASE Fill
  <2>1. CASE buffer_count < Size /\ ~next_position_set
    <3>1. /\ buffers' = [buffers EXCEPT ![buffer_back].lba = position]
          /\ slot' = buffer_back /\ buffer_back' = Next1(buffer_back)
          /\ worker = "fill" /\ worker' = "reading" /\ is_reading'
          /\ UNCHANGED <<disc, queue, modes, seek_error, can_readahead, buffer_front, buffer_count, seek_location,
                         core, asleep, drive>>
      BY <1>3, <2>1 DEF Fill
    <3>2. Size' = Size
      BY <3>1, SizeKept DEF BaseInv
    <3>3. Next1(buffer_back) = IF buffer_back + 1 < Size THEN buffer_back + 1 ELSE 0
      BY NextIs DEF BaseInv, RingTypes
    <3>4. buffers' \in [0 .. Size - 1 -> Slot]
      BY <3>1 DEF BaseInv, Types, RingTypes, Slot
    <3>5. RingTypes'
      BY <3>1, <3>2, <3>3, <3>4 DEF BaseInv, RingTypes, Filling, modes
    <3>6. RingInv'
      BY <2>1, <3>1, <3>2, <3>3 DEF BaseInv, RingTypes, RingInv, At, Filling
    <3>7. Types'
      <4>1. UNCHANGED <<usage, media, position, next_position, next_position_set, readahead_enabled, shutdown_flag>>
        BY <3>1 DEF disc, queue, modes
      <4>2. UNCHANGED <<seek_error, seek_location, core, asleep, requested_lba, expecting, peeking>>
        BY <3>1 DEF drive
      <4>3. is_reading' \in BOOLEAN /\ can_readahead' \in BOOLEAN
        BY <3>1 DEF BaseInv, Types
      <4>4. worker' \in WorkerAt
        BY <3>1 DEF WorkerAt
      <4> QED
        BY <4>1, <4>2, <4>3, <4>4 DEF BaseInv, Types, Requests
    <3>8. SeekingInv' /\ BusyInv' /\ ParkedInv'
      BY <3>1 DEF BaseInv, SeekingInv, BusyInv, Busy, HoldsMutex, ParkedInv, Parked, modes, queue
    <3> QED
      BY <3>5, <3>6, <3>7, <3>8 DEF BaseInv
  <2>2. CASE ~(buffer_count < Size /\ ~next_position_set)
    <3>1. /\ can_readahead' = FALSE /\ worker = "fill" /\ worker' = "predicate"
          /\ UNCHANGED <<disc, queue, modes, is_reading, seek_error, ring, local, core, asleep, drive>>
      BY <1>3, <2>2 DEF Fill, ring, local
    <3>2. RingTypes' /\ RingInv'
      BY <3>1, RingSame DEF Filling, modes, local
    <3>3. Types'
      <4>1. UNCHANGED <<usage, media, position, next_position, next_position_set, readahead_enabled, shutdown_flag>>
        BY <3>1 DEF disc, queue, modes
      <4>2. UNCHANGED <<seek_error, seek_location, core, asleep, requested_lba, expecting, peeking>>
        BY <3>1 DEF drive, local
      <4>3. is_reading' \in BOOLEAN /\ can_readahead' \in BOOLEAN
        BY <3>1 DEF BaseInv, Types
      <4>4. worker' \in WorkerAt
        BY <3>1 DEF WorkerAt
      <4> QED
        BY <4>1, <4>2, <4>3, <4>4 DEF BaseInv, Types, Requests
    <3>4. SeekingInv' /\ BusyInv' /\ ParkedInv'
      BY <3>1 DEF BaseInv, SeekingInv, BusyInv, Busy, HoldsMutex, ParkedInv, Parked, modes, queue
    <3> QED
      BY <3>2, <3>3, <3>4 DEF BaseInv
  <2> QED
    BY <2>1, <2>2
<1>4. CASE Read
  <2>1. PICK ok \in ReadResults(position) :
             /\ buffers' = [buffers EXCEPT ![slot].result = ok, ![slot].sector = position]
             /\ position' = IF ok THEN position + 1 ELSE position
    BY <1>4 DEF Read
  <2>2. /\ worker = "reading" /\ worker' = "read"
        /\ UNCHANGED <<usage, media, queue, modes, is_reading, can_readahead, seek_error, buffer_front,
                       buffer_back, buffer_count, local, core, asleep, drive>>
    BY <1>4 DEF Read
  <2>3. ok \in BOOLEAN /\ position' \in 0 .. Length
    <3>1. ok \in BOOLEAN /\ (ok => position < Length)
      BY <2>1, Zenon DEF ReadResults
    <3> QED
      BY <2>1, <3>1, ReaderAssumption DEF BaseInv, Types
  <2>4. Size' = Size
    BY <2>1, SizeKept DEF BaseInv
  <2>5. buffers' \in [0 .. Size - 1 -> Slot]
    BY <2>1, <2>3 DEF BaseInv, Types, RingTypes, Slot
  <2>6. RingTypes'
    BY <2>2, <2>4, <2>5 DEF BaseInv, RingTypes, Filling, modes, local
  <2>7. RingInv'
    BY <2>2, <2>4 DEF BaseInv, RingInv, At, Filling, local
  <2>8. Types'
    BY <2>2, <2>3 DEF BaseInv, Types, WorkerAt, Requests, disc, queue, modes, drive, local
  <2>9. SeekingInv' /\ BusyInv' /\ ParkedInv'
    BY <2>2 DEF BaseInv, SeekingInv, BusyInv, Busy, HoldsMutex, ParkedInv, Parked, modes, queue
  <2> QED
    BY <2>6, <2>7, <2>8, <2>9 DEF BaseInv
<1>5. CASE ReadDone
  <2>1. /\ worker = "read" /\ LockFree /\ is_reading' = FALSE /\ buffer_count' = buffer_count + 1
        /\ slot' = 0 /\ worker' \in {"fill", "predicate"} /\ asleep' = FALSE
        /\ can_readahead' = (can_readahead /\ buffers[slot].result)
        /\ UNCHANGED <<disc, queue, modes, seek_error, buffer_front, buffer_back, buffers, seek_location, core, drive>>
    BY <1>5 DEF ReadDone, NotifyCore
  <2>2. Size' = Size
    BY <2>1, SizeKept DEF BaseInv
  <2>3. RingTypes'
    BY <2>1, <2>2 DEF BaseInv, RingTypes, RingInv, Filling, modes
  <2>4. RingInv'
    BY <2>1, <2>2 DEF BaseInv, RingTypes, RingInv, At, Filling
  <2>5. Types'
    BY <2>1, Zenon DEF BaseInv, Types, WorkerAt, Requests, disc, queue, modes, drive
  <2>6. SeekingInv' /\ BusyInv' /\ ParkedInv'
    BY <2>1 DEF BaseInv, SeekingInv, BusyInv, Busy, HoldsMutex, LockFree, ParkedInv, Parked, modes, queue
  <2> QED
    BY <2>3, <2>4, <2>5, <2>6 DEF BaseInv
<1> QED
  BY <1>1, <1>2, <1>3, <1>4, <1>5 DEF WorkerSteps

\* A step that leaves the worker, the ring and the mutex's owner alone.
LEMMA QuietBase ==
  ASSUME BaseInv, Types',
         UNCHANGED <<ring, readahead_enabled, slot, worker, is_reading, can_readahead, next_position_set>>,
         core' \in {"uncached_read", "precache"} => core' = core,
         core' \in {"resize", "insert", "remove", "requeue"} => Parked
  PROVE  BaseInv'
<1>1. RingTypes' /\ RingInv'
  BY RingSame DEF Filling
<1>2. SeekingInv' /\ BusyInv' /\ ParkedInv'
  BY DEF BaseInv, SeekingInv, BusyInv, Busy, HoldsMutex, ParkedInv, Parked, ring
<1> QED
  BY <1>1, <1>2 DEF BaseInv

\* Waking the worker, or nobody.
LEMMA Notified ==
  ASSUME Types, NotifyWorker
  PROVE  /\ worker' \in WorkerAt /\ (Filling' <=> Filling) /\ (Busy' <=> Busy) /\ (HoldsMutex' <=> HoldsMutex)
         /\ (worker' = worker \/ (worker = "waiting" /\ worker' = "woken"))
  BY DEF Types, NotifyWorker, WorkerAt, Filling, Busy, HoldsMutex

\* Asking for a sector, with the worker or without it.
LEMMA QueueBase ==
  ASSUME BaseInv, NEW lba \in Requests \cup {0}, QueueReadSector(lba), expecting' \in BOOLEAN,
         core \in {"idle", "peeked", "requeue"}
  PROVE  BaseInv'
<1>1. lba \in Nat /\ Length \in Nat \ {0}
  BY ReaderAssumption DEF BaseInv, Types, Requests, Usage
<1>2. Asks(lba)
  BY DEF QueueReadSector, ReadSectorNonThreaded
<1>3. CASE ReadSectorNonThreaded(lba)
  <2>1. /\ UNCHANGED <<usage, media, queue, modes, is_reading, can_readahead, worker, local, asleep>>
        /\ ~readahead_enabled /\ Parked /\ Size = 1 /\ 0 \in Sizes
        /\ buffer_front' = 0 /\ buffer_back' = 0
    BY <1>3 DEF ReadSectorNonThreaded, BaseInv, ParkedInv, RingTypes
  <2>2. /\ position' \in 0 .. Length /\ seek_error' \in BOOLEAN /\ (buffer_count' = 0 \/ buffer_count' = 1)
        /\ Size' = 1 /\ buffers' \in [0 .. 0 -> Slot]
    <3>1. CASE /\ ~CanSeek(lba) /\ position # lba
               /\ seek_error' = TRUE /\ buffer_count' = 0
               /\ UNCHANGED <<position, buffers>>
      <4>1. Size' = Size
        BY <3>1, SizeKept DEF BaseInv
      <4>2. seek_error' \in BOOLEAN
        BY <3>1, Zenon
      <4> QED
        BY <2>1, <3>1, <4>1, <4>2 DEF BaseInv, Types, RingTypes
    <3>2. ASSUME CanSeek(lba) \/ position = lba, seek_error' = FALSE, buffer_count' = 1,
                 NEW ok \in ReadResults(lba), position' = IF ok THEN lba + 1 ELSE lba,
                 buffers' = [buffers EXCEPT ![0] = [lba |-> lba, sector |-> lba, result |-> ok]]
          PROVE  /\ position' \in 0 .. Length /\ seek_error' \in BOOLEAN /\ (buffer_count' = 0 \/ buffer_count' = 1)
                 /\ Size' = 1 /\ buffers' \in [0 .. 0 -> Slot]
      <4>1. Size' = Size
        BY <3>2, SizeKept DEF BaseInv
      <4>2. ok \in BOOLEAN /\ (ok => lba < Length) /\ seek_error' \in BOOLEAN
        BY <3>2, Zenon DEF ReadResults
      <4>3. lba \in 0 .. Length /\ position' \in 0 .. Length
        BY <1>1, <3>2, <4>2 DEF CanSeek, BaseInv, Types
      <4>4. [lba |-> lba, sector |-> lba, result |-> ok] \in Slot
        BY <4>2, <4>3 DEF Slot
      <4>5. buffers \in [0 .. 0 -> Slot]
        BY <2>1 DEF BaseInv, RingTypes
      <4> QED
        BY <2>1, <3>2, <4>1, <4>2, <4>3, <4>4, <4>5
    <3> QED
      BY <1>3, <3>1, <3>2 DEF ReadSectorNonThreaded
  <2>3. RingTypes'
    BY <2>1, <2>2 DEF BaseInv, RingTypes, Filling, Parked, modes, local
  <2>4. ~Filling'
    BY <2>1 DEF Filling, Parked
  <2>5. RingInv'
    <3>1. (IF Filling' THEN 1 ELSE 0) = 0
      BY <2>4, Zenon
    <3>2. CASE buffer_count' = 0
      BY <2>1, <2>2, <2>4, <3>1, <3>2 DEF RingInv, At
    <3>3. CASE buffer_count' = 1
      BY <2>1, <2>2, <2>4, <3>1, <3>3 DEF RingInv, At
    <3> QED
      BY <2>2, <3>2, <3>3
  <2>6. Types'
    BY <1>2, <2>1, <2>2 DEF Asks, BaseInv, Types, Requests, queue, modes, local, CoreAt
  <2>7. SeekingInv' /\ BusyInv' /\ ParkedInv'
    BY <1>2, <2>1 DEF Asks, BaseInv, SeekingInv, BusyInv, Busy, HoldsMutex, ParkedInv, Parked, modes, queue
  <2> QED
    BY <2>3, <2>5, <2>6, <2>7 DEF BaseInv
<1>4. CASE /\ readahead_enabled /\ LockFree
           /\ SkipSameSector(lba) \/ HitNextSector(lba) \/ QueueSeek(lba)
           /\ UNCHANGED <<disc, modes, is_reading, seek_error, local, asleep>>
  <2>1. core' = "idle" /\ requested_lba' = lba /\ peeking' = FALSE
    BY <1>2 DEF Asks
  <2>2. CASE SkipSameSector(lba)
    <3>1. Types'
      BY <1>4, <2>1, <2>2 DEF SkipSameSector, BaseInv, Types, Requests, CoreAt, disc, queue, modes, local
    <3> QED
      BY <1>4, <2>1, <2>2, <3>1, QuietBase DEF SkipSameSector, modes, local, queue
  <2>3. CASE HitNextSector(lba)
    <3>1. /\ buffer_count > 1 /\ NotifyWorker /\ can_readahead' = TRUE
          /\ buffer_front' = Next1(buffer_front) /\ buffer_count' = buffer_count - 1
          /\ UNCHANGED <<queue, buffer_back, buffers>>
      BY <2>3 DEF HitNextSector, NextSector
    <3>2. /\ worker' \in WorkerAt /\ (Filling' <=> Filling) /\ (Busy' <=> Busy) /\ (HoldsMutex' <=> HoldsMutex)
          /\ (worker' = worker \/ (worker = "waiting" /\ worker' = "woken"))
      BY <3>1, Notified DEF BaseInv
    <3>3. can_readahead' \in BOOLEAN /\ peeking' \in BOOLEAN
      BY <2>1, <3>1, Zenon
    <3>4. Types'
      BY <1>4, <2>1, <3>1, <3>2, <3>3 DEF BaseInv, Types, Requests, CoreAt, disc, queue, modes, local
    <3>5. Size' = Size
      BY <3>1, SizeKept DEF BaseInv
    <3>6. Next1(buffer_front) = IF buffer_front + 1 < Size THEN buffer_front + 1 ELSE 0
      BY NextIs DEF BaseInv, RingTypes
    <3>7. RingTypes'
      BY <1>4, <3>1, <3>2, <3>5, <3>6 DEF BaseInv, RingTypes, modes, local
    <3>8. RingInv'
      <4>1. buffer_count \in 2 .. Size /\ buffer_front \in 0 .. Size - 1 /\ Size \in Nat
        BY <3>1 DEF BaseInv, RingTypes
      <4>2. CASE Filling
        BY <1>4, <3>1, <3>2, <3>5, <3>6, <4>1, <4>2 DEF BaseInv, RingInv, At, local
      <4>3. CASE ~Filling
        BY <1>4, <3>1, <3>2, <3>5, <3>6, <4>1, <4>3 DEF BaseInv, RingInv, At, local
      <4> QED
        BY <4>2, <4>3
    <3>9. SeekingInv' /\ BusyInv' /\ ParkedInv'
      BY <1>4, <2>1, <3>1, <3>2 DEF BaseInv, RingTypes, SeekingInv, BusyInv, ParkedInv, modes
    <3> QED
      BY <3>4, <3>7, <3>8, <3>9 DEF BaseInv
  <2>4. CASE QueueSeek(lba)
    <3>1. NotifyWorker /\ next_position' = lba /\ next_position_set' = TRUE /\ UNCHANGED <<can_readahead, ring>>
      BY <2>4 DEF QueueSeek
    <3>2. /\ worker' \in WorkerAt /\ (Filling' <=> Filling) /\ (Busy' <=> Busy) /\ (HoldsMutex' <=> HoldsMutex)
          /\ (worker' = worker \/ (worker = "waiting" /\ worker' = "woken"))
      BY <3>1, Notified DEF BaseInv
    <3>3. next_position_set' \in BOOLEAN /\ peeking' \in BOOLEAN
      BY <2>1, <3>1, Zenon
    <3>4. Types'
      BY <1>4, <2>1, <3>1, <3>2, <3>3 DEF BaseInv, Types, Requests, CoreAt, disc, modes, local
    <3>5. RingTypes' /\ RingInv'
      BY <1>4, <3>1, <3>2, RingSame DEF modes, local
    <3>6. SeekingInv' /\ BusyInv' /\ ParkedInv'
      BY <1>4, <2>1, <3>1, <3>2 DEF BaseInv, SeekingInv, BusyInv, ParkedInv, modes, ring
    <3> QED
      BY <3>4, <3>5, <3>6 DEF BaseInv
  <2> QED
    BY <1>4, <2>2, <2>3, <2>4
<1> QED
  BY <1>3, <1>4 DEF QueueReadSector

\* The core thread's steps that use what it has been given, wait, and begin.
LEMMA WaitingBase ==
  ASSUME BaseInv,
         \/ WaitCount \/ WaitForReadToComplete \/ UseSector \/ IgnoreRead \/ Uncached
         \/ WaitForIdle \/ PrecacheLock \/ Precache \/ Join \/ BeginWait \/ BeginExclusive
  PROVE  BaseInv'
<1>1. /\ UNCHANGED <<disc, queue, modes, is_reading, can_readahead, ring, worker, local, requested_lba>>
      /\ core' \notin {"resize", "insert", "remove", "requeue"}
  BY DEF WaitCount, WaitForReadToComplete, UseSector, IgnoreRead, Uncached, WaitForIdle, PrecacheLock, Precache,
         Join, BeginWait, BeginExclusive, BeginCancel, WaitUntil, Goes, others, Returned, drive
<1>2. core' \in CoreAt
  BY DEF WaitCount, WaitForReadToComplete, UseSector, IgnoreRead, Uncached, WaitForIdle, PrecacheLock, Precache,
         Join, BeginWait, BeginExclusive, BeginCancel, WaitUntil, Goes, Returned, CoreAt, BaseInv, Types
<1>3. seek_error' \in BOOLEAN /\ asleep' \in BOOLEAN /\ expecting' \in BOOLEAN /\ peeking' \in BOOLEAN
  <2>1. FALSE \in BOOLEAN /\ TRUE \in BOOLEAN
    OBVIOUS
  <2>2. CASE WaitForReadToComplete \/ UseSector \/ IgnoreRead
    BY <2>1, <2>2, Zenon DEF WaitForReadToComplete, UseSector, IgnoreRead, others, drive, BaseInv, Types
  <2>3. CASE BeginWait
    BY <2>1, <2>3, Zenon DEF BeginWait, others, drive, BaseInv, Types
  <2>4. CASE WaitCount \/ PrecacheLock \/ Precache \/ Join \/ BeginExclusive
    BY <2>1, <2>4, Zenon DEF WaitCount, PrecacheLock, Precache, Join, BeginExclusive, BeginCancel, Goes, others, drive,
                             BaseInv, Types
  <2>5. CASE Uncached \/ WaitForIdle
    BY <2>1, <2>5, Zenon DEF Uncached, WaitForIdle, WaitUntil, others, drive, BaseInv, Types
  <2> QED
    BY <2>2, <2>3, <2>4, <2>5
<1>4. Types'
  BY <1>1, <1>2, <1>3 DEF BaseInv, Types, Requests, disc, queue, modes, local
<1>5. CASE core' \notin {"uncached_read", "precache"} \/ core' = core
  BY <1>1, <1>4, <1>5, QuietBase DEF modes, local, queue
<1>6. CASE core' \in {"uncached_read", "precache"}
  <2>1. (LockFree /\ (core' = "uncached_read" => ~is_reading)) \/ core' = core
    BY <1>6 DEF WaitCount, WaitForReadToComplete, UseSector, IgnoreRead, Uncached, WaitForIdle, PrecacheLock, Precache,
         Join, BeginWait, BeginExclusive, BeginCancel, WaitUntil, Goes, Returned
  <2>2. CASE LockFree /\ (core' = "uncached_read" => ~is_reading)
    <3>1. RingTypes' /\ RingInv'
      BY <1>1, RingSame DEF Filling, modes, local
    <3>2. SeekingInv' /\ BusyInv' /\ ParkedInv'
      BY <1>1, <1>6, <2>2 DEF BaseInv, SeekingInv, BusyInv, Busy, HoldsMutex, LockFree, ParkedInv, Parked, ring, modes, queue
    <3> QED
      BY <1>4, <3>1, <3>2 DEF BaseInv
  <2> QED
    BY <1>5, <2>1, <2>2
<1> QED
  BY <1>5, <1>6

\* The steps that move the image, when the worker does not.
LEMMA PositionBase ==
  ASSUME BaseInv, BeginUncached \/ ReadSectorUncached \/ CreateFileMap
  PROVE  BaseInv'
<1>1. ASSUME NEW lba \in Requests, NEW p \in PositionsAfter(lba) PROVE p \in 0 .. Length
  BY <1>1, ReaderAssumption DEF PositionsAfter, CanSeek, BaseInv, Types, Requests, Usage
<1>2. position' \in 0 .. Length
  <2>1. position' = position \/ \E lba \in Requests : position' \in PositionsAfter(lba)
    BY DEF BeginUncached, ReadSectorUncached, CreateFileMap
  <2> QED
    BY <1>1, <2>1 DEF BaseInv, Types
<1>3. /\ UNCHANGED <<usage, media, queue, modes, is_reading, seek_error, ring, worker, local, asleep, drive>>
      /\ core' \in {"idle", "uncached"}
      /\ UNCHANGED can_readahead \/ can_readahead' = FALSE
  BY DEF BeginUncached, Begins, ReadSectorUncached, CreateFileMap
<1>4. Types'
  <2>1. can_readahead' \in BOOLEAN
    BY <1>3, Zenon DEF BaseInv, Types
  <2> QED
    BY <1>2, <1>3, <2>1 DEF BaseInv, Types, Requests, CoreAt, queue, modes, local, drive
<1>5. RingTypes' /\ RingInv'
  BY <1>3, RingSame DEF Filling, modes, local
<1>6. SeekingInv' /\ BusyInv' /\ ParkedInv'
  BY <1>3 DEF BaseInv, SeekingInv, BusyInv, Busy, HoldsMutex, ParkedInv, Parked, ring, modes, queue
<1> QED
  BY <1>4, <1>5, <1>6 DEF BaseInv

\* Cancelling parks the worker.
LEMMA CancelBase == ASSUME BaseInv, Cancel PROVE BaseInv'
<1>1. PICK next \in Callers : CancelReadahead(next)
  BY DEF Cancel
<1>2. /\ UNCHANGED <<disc, queue, modes, is_reading, seek_error, buffers, worker, local, drive>>
      /\ LockFree
  BY <1>1 DEF CancelReadahead, WaitUntil
<1>3. CASE Idle
  <2>1. core' = next /\ can_readahead' = FALSE /\ EmptyBuffers /\ UNCHANGED asleep
    BY <1>1, <1>3 DEF CancelReadahead, WaitUntil
  <2>2. worker \in {"woken", "waiting", "stopped"}
    BY <1>2, <1>3 DEF BaseInv, Types, WorkerAt, BusyInv, Busy, LockFree, Idle
  <2>3. RingTypes' /\ RingInv'
    BY <1>2, <2>1, <2>2, RingEmptied DEF Filling, modes, local
  <2>4. can_readahead' \in BOOLEAN
    BY <2>1, Zenon
  <2>5. Types'
    BY <1>2, <2>1, <2>4 DEF BaseInv, Types, Requests, CoreAt, Callers, disc, queue, modes, local, drive
  <2>6. Parked'
    BY <1>2, <1>3, <2>1, <2>2 DEF Parked, Idle, queue
  <2>7. SeekingInv' /\ BusyInv' /\ ParkedInv'
    BY <1>2, <2>1, <2>2, <2>6 DEF BaseInv, SeekingInv, BusyInv, Busy, HoldsMutex, ParkedInv, Callers
  <2> QED
    BY <2>3, <2>5, <2>7 DEF BaseInv
<1>4. CASE ~Idle
  <2>1. asleep' = TRUE /\ UNCHANGED <<core, can_readahead, buffer_front, buffer_back, buffer_count>>
    BY <1>1, <1>4 DEF CancelReadahead, WaitUntil
  <2>2. asleep' \in BOOLEAN
    BY <2>1, Zenon
  <2>3. Types'
    BY <1>2, <2>1, <2>2 DEF BaseInv, Types, Requests, disc, queue, modes, local, drive
  <2>4. core' \in {"resize", "insert", "remove", "requeue"} => Parked
    BY <2>1 DEF BaseInv, ParkedInv
  <2> QED
    BY <1>2, <2>1, <2>3, <2>4, QuietBase DEF ring, modes, local, queue
<1> QED
  BY <1>3, <1>4

\* A new size: the worker is parked and the ring empty.
LEMMA ResizeBase == ASSUME BaseInv, SetReadaheadSectors PROVE BaseInv'
<1>1. PICK n \in Sizes : buffers' \in Slots(n) /\ readahead_enabled' = (n > 0)
  BY DEF SetReadaheadSectors
<1>2. /\ EmptyBuffers /\ core = "resize" /\ core' \in {"requeue", "idle"}
      /\ UNCHANGED <<disc, queue, shutdown_flag, is_reading, can_readahead, seek_error, worker,
                     local, asleep, drive>>
  BY DEF SetReadaheadSectors
<1>3. Parked /\ Parked'
  BY <1>2 DEF BaseInv, ParkedInv, Parked, queue
<1> DEFINE m == IF n = 0 THEN 1 ELSE n
<1>4. m \in Nat \ {0} /\ (IF n = 0 THEN 0 ELSE n - 1) = m - 1 /\ n \in Nat
  BY ReaderAssumption
<1>5. EmptySlot \in Slot
  BY ReaderAssumption DEF EmptySlot, Slot
<1>6. buffers' \in [0 .. m - 1 -> Slot] /\ Size' = m
  <2> HIDE DEF m
  <2>1. buffers' \in [0 .. m - 1 -> {EmptySlot}]
    BY <1>1, <1>4 DEF Slots
  <2>2. DOMAIN buffers' = 0 .. m - 1
    BY <2>1
  <2>3. Size' = m
    BY <1>4, <2>2, SizeIs DEF Size
  <2> QED
    BY <1>5, <2>1, <2>3
<1>7. RingTypes'
  <2>1. slot' = slot /\ ~Filling
    BY <1>2, <1>3 DEF local, Parked, Filling
  <2>2. slot = 0
    BY <2>1 DEF BaseInv, RingTypes
  <2>3. buffer_front' = 0 /\ buffer_back' = 0 /\ buffer_count' = 0 /\ slot' = 0
    BY <1>2, <2>1, <2>2 DEF EmptyBuffers
  <2>4. IF readahead_enabled' THEN m \in Sizes ELSE m = 1 /\ 0 \in Sizes
    <3>1. readahead_enabled' <=> n > 0
      BY <1>1, Zenon
    <3>2. n > 0 \/ n = 0
      BY <1>4
    <3> QED
      BY <1>4, <3>1, <3>2
  <2> HIDE DEF m
  <2> QED
    BY <1>4, <1>6, <2>3, <2>4 DEF RingTypes
<1>8. RingInv'
  BY <1>2, <1>3, <1>4, <1>6 DEF RingInv, At, Filling, Parked, EmptyBuffers
<1>9. Types'
  <2>1. readahead_enabled' \in BOOLEAN
    <3>1. (n > 0) \in BOOLEAN
      OBVIOUS
    <3> QED
      BY <1>1, <3>1
  <2> QED
    BY <1>2, <2>1 DEF BaseInv, Types, Requests, CoreAt, disc, queue, local, drive
<1>10. SeekingInv' /\ BusyInv' /\ ParkedInv'
  BY <1>2, <1>3 DEF BaseInv, SeekingInv, BusyInv, Busy, HoldsMutex, ParkedInv, Parked
<1> QED
  BY <1>7, <1>8, <1>9, <1>10 DEF BaseInv

\* The image changes, the worker being parked; the thread is told to stop; a
\* thread wakes up for nothing.
LEMMA OtherBase ==
  ASSUME BaseInv, SetMedia \/ RemoveMedia \/ ProcessShutdown \/ SpuriousWakeup
  PROVE  BaseInv'
<1>1. CASE SetMedia \/ RemoveMedia
  <2>1. /\ core' = "idle" /\ position' = 0 /\ media' \in BOOLEAN /\ expecting' \in BOOLEAN
        /\ UNCHANGED <<usage, queue, modes, is_reading, can_readahead, seek_error, ring, worker, local,
                       asleep, requested_lba, peeking>>
    BY <1>1, Zenon DEF SetMedia, RemoveMedia, ChangeMedia
  <2>2. Types'
    BY <2>1, ReaderAssumption DEF BaseInv, Types, Requests, CoreAt, queue, modes, local
  <2> QED
    BY <2>1, <2>2, QuietBase DEF modes, local, queue
<1>2. CASE ProcessShutdown
  <2>1. /\ core' = "join" /\ shutdown_flag' \in BOOLEAN
        /\ UNCHANGED <<disc, queue, readahead_enabled, is_reading, can_readahead, seek_error, ring,
                       local, asleep, drive>>
    BY <1>2, Zenon DEF ProcessShutdown
  <2>2. /\ worker' \in WorkerAt /\ (Filling' <=> Filling) /\ (Busy' <=> Busy) /\ (HoldsMutex' <=> HoldsMutex)
        /\ (worker' = worker \/ (worker = "waiting" /\ worker' = "woken"))
    BY <1>2, Notified DEF ProcessShutdown, BaseInv
  <2>3. Types'
    BY <2>1, <2>2 DEF BaseInv, Types, Requests, CoreAt, disc, queue, local, drive
  <2>4. RingTypes' /\ RingInv'
    BY <2>1, <2>2, RingSame DEF local
  <2>5. SeekingInv' /\ BusyInv' /\ ParkedInv'
    BY <2>1, <2>2 DEF BaseInv, SeekingInv, BusyInv, ParkedInv, Parked, queue, ring
  <2> QED
    BY <2>3, <2>4, <2>5 DEF BaseInv
<1>3. CASE SpuriousWakeup
  <2>1. /\ (worker' = worker \/ (worker = "waiting" /\ worker' = "woken"))
        /\ UNCHANGED <<disc, queue, modes, is_reading, can_readahead, seek_error, ring, local, core, drive>>
    BY <1>3 DEF SpuriousWakeup
  <2>2. /\ worker' \in WorkerAt /\ (Filling' <=> Filling) /\ (Busy' <=> Busy) /\ (HoldsMutex' <=> HoldsMutex)
    BY <2>1 DEF BaseInv, Types, WorkerAt, Filling, Busy, HoldsMutex
  <2>3. asleep' \in BOOLEAN
    BY <1>3, Zenon DEF SpuriousWakeup, BaseInv, Types
  <2>4. Types'
    BY <2>1, <2>2, <2>3 DEF BaseInv, Types, Requests, disc, queue, modes, local, drive
  <2>5. RingTypes' /\ RingInv'
    BY <2>1, <2>2, RingSame DEF local, modes
  <2>6. SeekingInv' /\ BusyInv' /\ ParkedInv'
    BY <2>1, <2>2 DEF BaseInv, SeekingInv, BusyInv, ParkedInv, Parked, queue, ring, modes
  <2> QED
    BY <2>4, <2>5, <2>6 DEF BaseInv
<1> QED
  BY <1>1, <1>2, <1>3

\* Nothing is buffered and nothing asked for at the start.
LEMMA BaseInit == Init => BaseInv
<1> SUFFICES ASSUME Init PROVE BaseInv
  OBVIOUS
<1>1. PICK n \in Sizes : buffers \in Slots(n) /\ readahead_enabled = (n > 0)
  BY DEF Init
<1> DEFINE m == IF n = 0 THEN 1 ELSE n
<1>2. m \in Nat \ {0} /\ (IF n = 0 THEN 0 ELSE n - 1) = m - 1 /\ n \in Nat
  BY ReaderAssumption
<1>3. EmptySlot \in Slot
  BY ReaderAssumption DEF EmptySlot, Slot
<1>4. buffers \in [0 .. m - 1 -> Slot] /\ Size = m
  <2> HIDE DEF m
  <2>1. buffers \in [0 .. m - 1 -> {EmptySlot}]
    BY <1>1, <1>2 DEF Slots
  <2>2. DOMAIN buffers = 0 .. m - 1
    BY <2>1
  <2>3. Size = m
    BY <1>2, <2>2, SizeIs DEF Size
  <2> QED
    BY <1>3, <2>1, <2>3
<1>5. IF readahead_enabled THEN m \in Sizes ELSE m = 1 /\ 0 \in Sizes
  <2>1. readahead_enabled <=> n > 0
    BY <1>1, Zenon
  <2>2. n > 0 \/ n = 0
    BY <1>2
  <2> QED
    BY <1>2, <2>1, <2>2
<1> HIDE DEF m
<1>6. RingTypes /\ RingInv
  BY <1>2, <1>4, <1>5 DEF Init, RingTypes, RingInv, Filling, At
<1>7. Types
  <2>1. /\ media \in BOOLEAN /\ next_position_set \in BOOLEAN /\ is_reading \in BOOLEAN /\ can_readahead \in BOOLEAN
        /\ seek_error \in BOOLEAN /\ shutdown_flag \in BOOLEAN /\ asleep \in BOOLEAN /\ expecting \in BOOLEAN
        /\ peeking \in BOOLEAN
    BY Zenon DEF Init
  <2>2. readahead_enabled \in BOOLEAN
    <3>1. (n > 0) \in BOOLEAN
      OBVIOUS
    <3> QED
      BY <1>1, <3>1
  <2> QED
    BY <2>1, <2>2, ReaderAssumption DEF Init, Types, WorkerAt, CoreAt
<1>8. SeekingInv /\ BusyInv /\ ParkedInv
  BY DEF Init, SeekingInv, BusyInv, Busy, HoldsMutex, ParkedInv, Parked
<1> QED
  BY <1>6, <1>7, <1>8 DEF BaseInv

\* Every step of either thread keeps it.
LEMMA BaseNext == BaseInv /\ [Next]_vars => BaseInv'
<1> SUFFICES ASSUME BaseInv, [Next]_vars PROVE BaseInv'
  OBVIOUS
<1>1. CASE Queue \/ SeekElsewhere \/ Requeue
  <2>1. expecting' \in BOOLEAN /\ core \in {"idle", "peeked", "requeue"}
    <3>1. expecting' = TRUE \/ expecting' = expecting
      BY <1>1 DEF Queue, SeekElsewhere, Requeue
    <3> QED
      BY <1>1, <3>1, Zenon DEF Queue, Begins, SeekElsewhere, Requeue, BaseInv, Types
  <2>2. \E lba \in Requests \cup {0} : QueueReadSector(lba)
    <3>1. requested_lba \in Requests \cup {0}
      BY DEF BaseInv, Types
    <3> QED
      BY <1>1, <3>1 DEF Queue, SeekElsewhere, Requeue
  <2> QED
    BY <2>1, <2>2, QueueBase
<1>2. CASE UNCHANGED vars
  <2>1. UNCHANGED <<disc, queue, modes, is_reading, can_readahead, seek_error, ring, worker, local,
                    core, asleep, drive>>
    BY <1>2 DEF vars
  <2>2. Types'
    BY <2>1 DEF BaseInv, Types, Requests, disc, queue, modes, local, drive
  <2>3. core' \in {"resize", "insert", "remove", "requeue"} => Parked
    BY <2>1 DEF BaseInv, ParkedInv
  <2> QED
    BY <2>1, <2>2, <2>3, QuietBase DEF modes, local, queue
<1> QED
  BY <1>1, <1>2, WorkerBase, WaitingBase, PositionBase, CancelBase, ResizeBase, OtherBase
  DEF Next, CoreSteps, Calls, Done

\* The ring's invariant holds in every reachable state, of any usage.
THEOREM BaseAlways == Spec => []BaseInv
  BY BaseInit, BaseNext, PTL DEF Spec

\* The variables keep their types for any disc, any sizes and any usage; in
\* particular the ring never holds more sectors than it has slots.
THEOREM TypeCorrect == Spec => []TypeOK
<1>1. BaseInv => TypeOK
  <2> SUFFICES ASSUME BaseInv PROVE TypeOK
    OBVIOUS
  <2>1. {shutdown_flag, readahead_enabled, is_reading, can_readahead, seek_error} \subseteq BOOLEAN
        /\ {expecting, peeking} \subseteq BOOLEAN
    BY DEF BaseInv, Types
  <2>2. Size \in Nat \ {0} /\ buffers \in [0 .. Size - 1 -> [lba : 0 .. Length, sector : 0 .. Length, result : BOOLEAN]]
        /\ {buffer_front, buffer_back} \subseteq 0 .. Size - 1 /\ buffer_count \in 0 .. Size /\ slot \in Nat
    BY DEF BaseInv, RingTypes, Slot
  <2>3. ReadaheadCount \in Sizes
    BY DEF BaseInv, RingTypes, ReadaheadCount
  <2> QED
    BY <2>1, <2>2, <2>3 DEF BaseInv, Types, TypeOK
<1> QED
  BY <1>1, BaseAlways, PTL

-----------------------------------------------------------------------------
(* The second invariant. *)

\* Different sectors of the ring have different slots.
LEMMA SlotsDiffer ==
  ASSUME RingTypes, NEW i \in 0 .. Size - 1, NEW j \in 0 .. Size - 1, i # j
  PROVE  At(i) # At(j) /\ At(i) \in 0 .. Size - 1 /\ At(j) \in 0 .. Size - 1
  BY DEF RingTypes, At

\* The first sector is at the front.
LEMMA FirstSlot ==
  ASSUME RingTypes
  PROVE  At(0) = buffer_front /\ buffer_front \in 0 .. Size - 1
  BY DEF RingTypes, At

\* The worker, at the steps that do not touch the ring.
LEMMA SeekingSteps ==
  ASSUME BaseInv, Inv, InTime(usage), Acquire \/ Predicate \/ BeginSeek \/ SeekMedia \/ SeekDone
  PROVE  Inv'
<1>1. UNCHANGED <<usage, next_position, modes, ring, slot, core, requested_lba>>
  BY DEF Acquire, Predicate, BeginSeek, SeekMedia, SeekDone, disc, queue, local, drive
<1>2. ContentsInv'
  <2>1. Size' = Size
    BY <1>1, SizeKept DEF BaseInv, ring
  <2>2. worker' \notin {"reading", "read"}
    BY DEF Acquire, Predicate, BeginSeek, SeekMedia, SeekDone
  <2> QED
    BY <1>1, <2>1, <2>2 DEF Inv, ContentsInv, At, ring
<1>3. CASE Acquire
  BY <1>1, <1>2, <1>3 DEF Acquire, Inv, StopInv, WholeImageInv, Parked, KickInv, ErrorInv, RequestInv, FoundInv,
                         modes, disc, queue, ring, local
<1>4. CASE Predicate
  BY <1>1, <1>2, <1>4 DEF Predicate, Inv, StopInv, WholeImageInv, Parked, KickInv, ErrorInv, RequestInv, FoundInv,
                         modes, disc, queue, ring, local
<1>5. CASE BeginSeek
  BY <1>1, <1>2, <1>5 DEF BeginSeek, BaseInv, SeekingInv, RingTypes, Inv, StopInv, WholeImageInv, Parked, KickInv, ErrorInv,
                         RequestInv, FoundInv, modes, disc, queue, ring, local
<1>6. CASE SeekMedia
  <2>1. ~usage.kick_is_seen => CanSeek(seek_location)
    BY ReaderAssumption DEF CanSeek, InTime, BaseInv, Types, Requests
  <2> QED
    BY <1>1, <1>2, <1>6, <2>1 DEF SeekMedia, BaseInv, SeekingInv, RingTypes, Inv, StopInv, WholeImageInv, Parked, KickInv,
                         ErrorInv, RequestInv, FoundInv, modes, disc, queue, ring, local
<1>7. CASE SeekDone
  <2>1. buffer_count = 0 /\ worker \in {"seeked", "seek_failed"} /\ ~seek_error
    BY <1>7 DEF SeekDone, BaseInv, SeekingInv, Inv, ErrorInv
  <2>2. /\ worker' = IF next_position_set THEN "loop" ELSE IF worker = "seeked" THEN "fill" ELSE "predicate"
        /\ seek_error' <=> worker' = "predicate"
        /\ can_readahead' <=> can_readahead \/ worker' = "fill"
        /\ UNCHANGED <<position, next_position_set>>
    BY <1>7, <2>1 DEF SeekDone, disc, queue
  <2>3. usage.kick_is_seen => ~can_readahead
    BY <2>1 DEF Inv, KickInv
  <2>4. ~usage.kick_is_seen => worker = "seeked"
    BY <2>1 DEF Inv, ErrorInv
  <2>5. StopInv' /\ WholeImageInv'
    BY <1>1, <2>1, <2>2 DEF Inv, StopInv, WholeImageInv, Parked, modes
  <2>6. KickInv' /\ ErrorInv'
    BY <1>1, <2>1, <2>2, <2>3, <2>4 DEF KickInv, ErrorInv, ring
  <2>7. RequestInv' /\ FoundInv'
    BY <1>1, <2>1, <2>2, <2>3, <2>4 DEF Inv, RequestInv, FoundInv, ring
  <2> QED
    BY <1>2, <2>5, <2>6, <2>7 DEF Inv
<1> QED
  BY <1>3, <1>4, <1>5, <1>6, <1>7

\* A request found by the loop empties the ring.
LEMMA LoopStep ==
  ASSUME BaseInv, Inv, Loop
  PROVE  Inv'
<1>1. UNCHANGED <<disc, queue, modes, can_readahead, seek_error, buffers, slot, core, drive>> /\ worker = "loop"
  BY DEF Loop
<1>2. Size' = Size
  BY <1>1, SizeKept DEF BaseInv
<1>3. CASE next_position_set
  <2>1. worker' = "emptied" /\ seek_location' = next_position /\ buffer_count' = 0
    BY <1>3 DEF Loop, EmptyBuffers
  <2>2. StopInv' /\ WholeImageInv' /\ KickInv' /\ ErrorInv' /\ FoundInv'
    BY <1>1, <1>3, <2>1 DEF Inv, StopInv, WholeImageInv, Parked, KickInv, ErrorInv, FoundInv, disc, queue, modes
  <2>3. RequestInv' /\ ContentsInv'
    BY <1>1, <1>3, <2>1 DEF Inv, RequestInv, ContentsInv, queue, drive
  <2> QED
    BY <2>2, <2>3 DEF Inv
<1>4. CASE ~next_position_set
  <2>1. /\ worker' = IF can_readahead THEN "fill" ELSE "predicate"
        /\ UNCHANGED <<seek_location, buffer_front, buffer_back, buffer_count>>
    BY <1>4 DEF Loop
  <2>2. StopInv' /\ WholeImageInv' /\ KickInv' /\ ErrorInv' /\ FoundInv'
    BY <1>1, <1>4, <2>1 DEF Inv, StopInv, WholeImageInv, Parked, KickInv, ErrorInv, FoundInv, disc, queue, modes
  <2>3. RequestInv'
    BY <1>1, <1>4, <2>1 DEF Inv, RequestInv, queue, drive, disc, BaseInv, RingTypes
  <2>4. ContentsInv'
    BY <1>1, <1>2, <2>1 DEF Inv, ContentsInv, At
  <2> QED
    BY <2>2, <2>3, <2>4 DEF Inv
<1> QED
  BY <1>3, <1>4

\* The label of the next sector is put where none of the ring is.
LEMMA FillStep ==
  ASSUME BaseInv, Inv, Fill
  PROVE  Inv'
<1>1. CASE buffer_count < Size /\ ~next_position_set
  <2>1. /\ buffers' = [buffers EXCEPT ![buffer_back].lba = position]
        /\ slot' = buffer_back
        /\ worker = "fill" /\ worker' = "reading"
        /\ UNCHANGED <<disc, queue, modes, seek_error, can_readahead, buffer_front, buffer_count, seek_location,
                       core, drive>>
    BY <1>1 DEF Fill
  <2>2. Size' = Size
    BY <2>1, SizeKept DEF BaseInv
  <2>3. buffer_count \in 0 .. Size - 1 /\ Size \in Nat \ {0} /\ buffer_back = At(buffer_count)
    BY <1>1, <2>1 DEF BaseInv, RingTypes, RingInv, Filling
  <2>4. \A i \in 0 .. buffer_count - 1 : At(i) # buffer_back /\ At(i) \in 0 .. Size - 1 /\ buffers'[At(i)] = buffers[At(i)]
    <3> SUFFICES ASSUME NEW i \in 0 .. buffer_count - 1
                 PROVE  At(i) # buffer_back /\ At(i) \in 0 .. Size - 1 /\ buffers'[At(i)] = buffers[At(i)]
      OBVIOUS
    <3>1. At(i) # buffer_back /\ At(i) \in 0 .. Size - 1
      BY <2>3, SlotsDiffer DEF BaseInv
    <3> QED
      BY <2>1, <3>1 DEF BaseInv, RingTypes
  <2>5. buffers'[buffer_back].lba = position
    BY <2>1 DEF BaseInv, RingTypes, Slot
  <2>6. buffer_count > 0 => buffers'[buffer_front] = buffers[buffer_front]
    BY <2>3, <2>4, FirstSlot DEF BaseInv
  <2>7. StopInv' /\ WholeImageInv' /\ KickInv' /\ ErrorInv'
    BY <2>1 DEF Inv, StopInv, WholeImageInv, Parked, KickInv, ErrorInv, disc, queue, modes
  <2>8. FoundInv'
    BY <2>1, <2>6 DEF Inv, FoundInv, queue
  <2>9. RequestInv'
    BY <2>1, <2>3, <2>5, <2>6 DEF Inv, RequestInv, queue, drive, disc
  <2>10. ContentsInv'
    BY <2>1, <2>2, <2>4, <2>5 DEF Inv, ContentsInv, At, disc
  <2> QED
    BY <2>7, <2>8, <2>9, <2>10 DEF Inv
<1>2. CASE ~(buffer_count < Size /\ ~next_position_set)
  <2>1. /\ ~can_readahead' /\ worker = "fill" /\ worker' = "predicate"
        /\ UNCHANGED <<disc, queue, modes, seek_error, ring, local, core, drive>>
    BY <1>2 DEF Fill, ring, local
  <2>2. Size' = Size
    BY <2>1, SizeKept DEF BaseInv, ring
  <2>3. StopInv' /\ WholeImageInv' /\ KickInv' /\ ErrorInv' /\ FoundInv'
    BY <2>1 DEF Inv, StopInv, WholeImageInv, Parked, KickInv, ErrorInv, FoundInv, disc, queue, modes, ring
  <2>4. RequestInv'
    BY <2>1 DEF Inv, RequestInv, queue, drive, disc, ring
  <2>5. ContentsInv'
    BY <2>1, <2>2 DEF Inv, ContentsInv, At, ring
  <2> QED
    BY <2>3, <2>4, <2>5 DEF Inv
<1> QED
  BY <1>1, <1>2

\* The sector is read into the slot labelled with it.
LEMMA ReadStep ==
  ASSUME BaseInv, Inv, Read
  PROVE  Inv'
<1>1. PICK ok \in ReadResults(position) :
           buffers' = [buffers EXCEPT ![slot].result = ok, ![slot].sector = position]
  BY DEF Read
<1>2. /\ worker = "reading" /\ worker' = "read"
      /\ UNCHANGED <<usage, queue, modes, can_readahead, seek_error, buffer_front, buffer_count, local, core, drive>>
  BY DEF Read
<1>3. Size' = Size
  BY <1>1, SizeKept DEF BaseInv
<1>4. buffer_count \in 0 .. Size - 1 /\ Size \in Nat \ {0} /\ slot = At(buffer_count) /\ slot \in 0 .. Size - 1
  BY <1>2 DEF BaseInv, RingTypes, RingInv, Filling
<1>5. \A i \in 0 .. buffer_count - 1 : At(i) # slot /\ At(i) \in 0 .. Size - 1 /\ buffers'[At(i)] = buffers[At(i)]
  <2> SUFFICES ASSUME NEW i \in 0 .. buffer_count - 1
               PROVE  At(i) # slot /\ At(i) \in 0 .. Size - 1 /\ buffers'[At(i)] = buffers[At(i)]
    OBVIOUS
  <2>1. At(i) # slot /\ At(i) \in 0 .. Size - 1
    BY <1>4, SlotsDiffer DEF BaseInv
  <2> QED
    BY <1>1, <2>1 DEF BaseInv, RingTypes
<1>6. buffers'[slot].lba = buffers[slot].lba /\ buffers'[slot].sector = position
  BY <1>1, <1>4 DEF BaseInv, RingTypes, Slot
<1>7. buffer_count > 0 => buffers'[buffer_front] = buffers[buffer_front]
  BY <1>4, <1>5, FirstSlot DEF BaseInv
<1>8. StopInv' /\ WholeImageInv' /\ KickInv' /\ ErrorInv'
  BY <1>2 DEF Inv, StopInv, WholeImageInv, Parked, KickInv, ErrorInv, queue, modes
<1>9. FoundInv'
  BY <1>2, <1>7 DEF Inv, FoundInv, queue
<1>10. RequestInv'
  BY <1>2, <1>4, <1>6, <1>7 DEF Inv, RequestInv, queue, drive, local
<1>11. ContentsInv'
  BY <1>2, <1>3, <1>5, <1>6 DEF Inv, ContentsInv, At, local
<1> QED
  BY <1>8, <1>9, <1>10, <1>11 DEF Inv

\* It is the last of the ring then.
LEMMA ReadDoneStep ==
  ASSUME BaseInv, Inv, ReadDone
  PROVE  Inv'
<1>1. /\ worker = "read" /\ buffer_count' = buffer_count + 1 /\ worker' \in {"fill", "predicate"}
      /\ can_readahead' => can_readahead
      /\ UNCHANGED <<disc, queue, modes, seek_error, buffer_front, buffers, seek_location, core, drive>>
  BY DEF ReadDone
<1>2. Size' = Size
  BY <1>1, SizeKept DEF BaseInv
<1>3. buffer_count \in 0 .. Size - 1 /\ Size \in Nat \ {0} /\ slot = At(buffer_count) /\ slot \in 0 .. Size - 1
  BY <1>1 DEF BaseInv, RingTypes, RingInv, Filling
<1>4. buffers[slot].lba = buffers[slot].sector
  BY <1>1 DEF Inv, ContentsInv
<1>5. ContentsInv'
  <2> SUFFICES ASSUME NEW i \in 0 .. buffer_count PROVE buffers[At(i)].lba = buffers[At(i)].sector
    BY <1>1, <1>2, <1>3 DEF ContentsInv, At
  <2>1. CASE i = buffer_count
    BY <1>3, <1>4, <2>1
  <2>2. CASE i # buffer_count
    BY <1>3, <2>2 DEF Inv, ContentsInv
  <2> QED
    BY <2>1, <2>2
<1>6. buffer_count = 0 => slot = buffer_front
  BY <1>3, FirstSlot DEF BaseInv
<1>7. RequestInv'
  <2>1. buffer_count' > 0 /\ buffer_count' # 0
    BY <1>1, <1>3
  <2>2. ~next_position_set => buffers[buffer_front].lba = requested_lba
    <3>1. CASE buffer_count = 0
      BY <1>1, <1>6, <3>1 DEF Inv, RequestInv
    <3>2. CASE buffer_count # 0
      BY <1>3, <3>2 DEF Inv, RequestInv
    <3> QED
      BY <3>1, <3>2
  <2> QED
    BY <1>1, <2>1, <2>2 DEF Inv, RequestInv, queue, drive
<1>8. StopInv' /\ WholeImageInv' /\ ErrorInv' /\ FoundInv'
  BY <1>1, <1>3 DEF Inv, StopInv, WholeImageInv, Parked, ErrorInv, FoundInv, disc, queue, modes
<1>9. KickInv'
  <2>1. worker' = "predicate" => ~can_readahead'
    BY DEF ReadDone
  <2> QED
    BY <1>1, <2>1 DEF KickInv
<1> QED
  BY <1>5, <1>7, <1>8, <1>9 DEF Inv

\* A step of the core thread that changes nothing but where it is, and may use
\* up an error.
LEMMA QuietInv ==
  ASSUME BaseInv, Inv,
         UNCHANGED <<usage, queue, can_readahead, ring, local, worker, requested_lba, shutdown_flag>>,
         UNCHANGED position \/ worker \notin {"seeked", "fill", "reading"},
         seek_error' => seek_error,
         shutdown_flag => core' \in {"join", "joined"},
         core' \in {"idle_precache", "precache_lock", "precache", "idle_map", "map"} => usage.whole_image,
         core' \in {"precache_lock", "precache", "map"} => Parked,
         usage.kick_is_seen /\ core' # "idle" /\ worker \in {"waiting", "woken"} => ~can_readahead,
         core' \in {"wait_count", "using", "failed", "peeked"} => ~next_position_set,
         core' = "using" => buffer_count > 0 /\ buffers[buffer_front].result
  PROVE  Inv'
<1>1. Size' = Size
  BY SizeKept DEF BaseInv, ring
<1>2. StopInv' /\ WholeImageInv' /\ KickInv' /\ ErrorInv' /\ FoundInv'
  BY DEF Inv, StopInv, WholeImageInv, Parked, KickInv, ErrorInv, FoundInv, queue, ring
<1>3. RequestInv'
  BY DEF Inv, RequestInv, queue, ring, local
<1>4. ContentsInv'
  BY <1>1 DEF Inv, ContentsInv, At, ring, local
<1> QED
  BY <1>2, <1>3, <1>4 DEF Inv

\* Asking for a sector: it is in the ring, the next one of it, or sought.
LEMMA QueueStep ==
  ASSUME BaseInv, Inv, InTime(usage), NEW lba \in Requests \cup {0}, QueueReadSector(lba),
         usage.kick_is_seen => ~(can_readahead /\ worker \in {"waiting", "woken"}),
         ~shutdown_flag
  PROVE  Inv'
<1>1. Asks(lba) /\ UNCHANGED <<usage, shutdown_flag>>
  <2>1. CASE ReadSectorNonThreaded(lba)
    BY <2>1 DEF ReadSectorNonThreaded, modes
  <2>2. CASE ~ReadSectorNonThreaded(lba)
    BY <2>2 DEF QueueReadSector, disc, modes
  <2> QED
    BY <2>1, <2>2
<1>2. core' = "idle" /\ requested_lba' = lba
  BY <1>1 DEF Asks
<1>3. WholeImageInv' /\ FoundInv'
  BY <1>2 DEF WholeImageInv, FoundInv
<1>4. CASE ReadSectorNonThreaded(lba)
  <2>1. /\ UNCHANGED <<usage, queue, can_readahead, worker, local>>
        /\ Parked /\ Size = 1 /\ buffer_front' = 0
    BY <1>4 DEF ReadSectorNonThreaded, BaseInv, ParkedInv, RingTypes
  <2>2. StopInv' /\ KickInv'
    BY <1>1, <1>2, <2>1 DEF Inv, StopInv, KickInv, Parked, queue
  <2>3. CASE /\ ~CanSeek(lba) /\ position # lba
             /\ seek_error' = TRUE /\ buffer_count' = 0
             /\ UNCHANGED <<position, buffers>>
    <3>1. usage.kick_is_seen
      BY <2>3, ReaderAssumption DEF InTime, CanSeek, BaseInv, Types, Requests
    <3>2. ErrorInv'
      BY <2>1, <2>3, <3>1 DEF ErrorInv, Parked
    <3>3. RequestInv' /\ ContentsInv'
      BY <1>2, <2>1, <2>3 DEF RequestInv, ContentsInv, Parked, queue
    <3> QED
      BY <1>3, <2>2, <3>2, <3>3 DEF Inv
  <2>4. CASE /\ CanSeek(lba) \/ position = lba
             /\ seek_error' = FALSE /\ buffer_count' = 1
             /\ \E ok \in ReadResults(lba) :
                  buffers' = [buffers EXCEPT ![0] = [lba |-> lba, sector |-> lba, result |-> ok]]
    <3>1. ErrorInv'
      BY <2>1, <2>4 DEF Inv, ErrorInv, Parked
    <3>2. buffers'[0].lba = lba /\ buffers'[0].sector = lba /\ Size' = 1
      <4>1. PICK ok : buffers' = [buffers EXCEPT ![0] = [lba |-> lba, sector |-> lba, result |-> ok]]
        BY <2>4
      <4>2. Size' = Size
        BY <4>1, SizeKept DEF BaseInv
      <4> QED
        BY <2>1, <4>1, <4>2 DEF BaseInv, RingTypes
    <3>3. RequestInv'
      BY <1>2, <2>1, <2>4, <3>2 DEF RequestInv, Parked, queue
    <3>4. ContentsInv'
      BY <2>1, <2>4, <3>2 DEF ContentsInv, At, Parked
    <3> QED
      BY <1>3, <2>2, <3>1, <3>3, <3>4 DEF Inv
  <2> QED
    BY <1>4, <2>3, <2>4 DEF ReadSectorNonThreaded
<1>5. CASE /\ readahead_enabled /\ LockFree
           /\ SkipSameSector(lba) \/ HitNextSector(lba) \/ QueueSeek(lba)
           /\ UNCHANGED <<disc, modes, is_reading, seek_error, local, asleep>>
  <2>1. CASE SkipSameSector(lba)
    <3>1. UNCHANGED <<queue, can_readahead, ring, worker>> /\ ~next_position_set /\ buffer_count > 0
          /\ buffers[buffer_front].lba = lba
      BY <2>1 DEF SkipSameSector, SameSector
    <3>2. Size' = Size
      BY <3>1, SizeKept DEF BaseInv, ring
    <3>3. StopInv' /\ KickInv' /\ ErrorInv'
      BY <1>1, <1>2, <1>5, <3>1 DEF Inv, StopInv, KickInv, ErrorInv, ring, queue, disc
    <3>4. buffer_count # 0
      BY <3>1
    <3>5. RequestInv'
      <4>1. worker \notin {"emptied", "seeking", "seeked", "seek_failed", "fill", "loop", "predicate"}
        BY <1>5, <3>4 DEF LockFree, BaseInv, SeekingInv
      <4> QED
        BY <1>2, <3>1, <3>4, <4>1 DEF RequestInv, ring, queue
    <3>6. ContentsInv'
      BY <1>5, <3>1, <3>2 DEF Inv, ContentsInv, At, ring, disc, local
    <3> QED
      BY <1>3, <3>3, <3>5, <3>6 DEF Inv
  <2>2. CASE HitNextSector(lba)
    <3>1. /\ buffer_count > 1 /\ NotifyWorker /\ can_readahead' = TRUE /\ ~next_position_set
          /\ buffer_front' = Next1(buffer_front) /\ buffer_count' = buffer_count - 1
          /\ buffers[Next1(buffer_front)].lba = lba
          /\ UNCHANGED <<queue, buffer_back, buffers>>
      BY <2>2 DEF HitNextSector, NextSector
    <3>2. worker' = worker \/ (worker = "waiting" /\ worker' = "woken")
      BY <3>1, Notified DEF BaseInv
    <3>3. Size' = Size
      BY <3>1, SizeKept DEF BaseInv
    <3>4. Next1(buffer_front) = IF buffer_front + 1 < Size THEN buffer_front + 1 ELSE 0
      BY NextIs DEF BaseInv, RingTypes
    <3>5. buffer_count \in 2 .. Size /\ Size \in Nat \ {0} /\ buffer_front \in 0 .. Size - 1
      BY <3>1 DEF BaseInv, RingTypes
    <3>6. ~seek_error /\ worker \notin {"emptied", "seeking", "seeked", "seek_failed"}
      BY <3>5 DEF BaseInv, SeekingInv, Inv, ErrorInv
    <3>7. StopInv' /\ KickInv' /\ ErrorInv'
      BY <1>1, <1>2, <1>5, <3>1, <3>2, <3>6 DEF Inv, StopInv, KickInv, ErrorInv, queue
    <3>8. buffer_count' > 0 /\ buffer_count' # 0
      BY <3>1, <3>5
    <3>9. RequestInv'
      BY <1>2, <1>5, <3>1, <3>2, <3>6, <3>8 DEF Inv, RequestInv, queue, local
    <3>10. ContentsInv'
      <4>1. \A i \in 0 .. buffer_count - 2 : buffers[At(i + 1)].lba = buffers[At(i + 1)].sector
        BY <3>5 DEF Inv, ContentsInv
      <4>2. \A i \in 0 .. buffer_count - 2 : At(i)' = At(i + 1)
        BY <3>1, <3>3, <3>4, <3>5 DEF At
      <4>3. worker' = "reading" => buffers'[slot'].lba = position'
        BY <1>5, <3>1, <3>2 DEF Inv, ContentsInv, local, disc
      <4>4. worker' = "read" => buffers'[slot'].lba = buffers'[slot'].sector
        BY <1>5, <3>1, <3>2 DEF Inv, ContentsInv, local
      <4>5. buffer_count' - 1 = buffer_count - 2
        BY <3>1, <3>5
      <4> QED
        BY <3>1, <4>1, <4>2, <4>3, <4>4, <4>5 DEF ContentsInv
    <3> QED
      BY <1>3, <3>7, <3>9, <3>10 DEF Inv
  <2>3. CASE QueueSeek(lba)
    <3>1. NotifyWorker /\ next_position' = lba /\ next_position_set' = TRUE /\ UNCHANGED <<can_readahead, ring>>
      BY <2>3 DEF QueueSeek
    <3>2. worker' = worker \/ (worker = "waiting" /\ worker' = "woken")
      BY <3>1, Notified DEF BaseInv
    <3>3. worker \notin {"predicate", "loop", "emptied", "fill"}
      BY <1>5 DEF LockFree
    <3>4. Size' = Size
      BY <3>1, SizeKept DEF BaseInv, ring
    <3>5. KickInv'
      BY <1>1, <1>2, <3>1, <3>2, <3>3 DEF Inv, KickInv
    <3>6. StopInv' /\ ErrorInv'
      BY <1>1, <1>2, <1>5, <3>1, <3>2 DEF Inv, StopInv, ErrorInv, ring
    <3>7. RequestInv'
      BY <1>2, <3>1, <3>2, <3>3 DEF RequestInv
    <3>8. ContentsInv'
      BY <1>5, <3>1, <3>2, <3>4 DEF Inv, ContentsInv, At, ring, disc, local
    <3> QED
      BY <1>3, <3>5, <3>6, <3>7, <3>8 DEF Inv
  <2> QED
    BY <1>5, <2>1, <2>2, <2>3
<1> QED
  BY <1>4, <1>5 DEF QueueReadSector

\* The core thread's steps that use what it has been given, wait, and begin.
LEMMA WaitingSteps ==
  ASSUME BaseInv, Inv, InTime(usage),
         \/ WaitCount \/ WaitForReadToComplete \/ UseSector \/ IgnoreRead \/ Uncached
         \/ WaitForIdle \/ PrecacheLock \/ Precache \/ Join \/ BeginWait \/ BeginExclusive
  PROVE  Inv'
<1>1. /\ UNCHANGED <<disc, queue, modes, can_readahead, ring, worker, local, requested_lba>>
      /\ seek_error' = seek_error \/ seek_error' = FALSE
  BY DEF WaitCount, WaitForReadToComplete, UseSector, IgnoreRead, Uncached, WaitForIdle, PrecacheLock, Precache,
         Join, BeginWait, BeginExclusive, BeginCancel, WaitUntil, Goes, others, drive
<1>2. shutdown_flag => core' \in {"join", "joined"}
  BY DEF WaitCount, WaitForReadToComplete, UseSector, IgnoreRead, Uncached, WaitForIdle, PrecacheLock, Precache,
         Join, BeginWait, BeginExclusive, BeginCancel, Begins, WaitUntil, Goes, Inv, StopInv
<1>3. usage.kick_is_seen /\ worker \in {"waiting", "woken"} => ~can_readahead
  BY DEF WaitCount, WaitForReadToComplete, UseSector, IgnoreRead, Uncached, WaitForIdle, PrecacheLock, Precache,
         Join, BeginWait, BeginExclusive, BeginCancel, Begins, WaitUntil, Goes, Inv, KickInv
<1>4. core' \in {"idle_precache", "precache_lock", "precache", "idle_map", "map"} => usage.whole_image
  BY DEF WaitCount, WaitForReadToComplete, UseSector, IgnoreRead, Uncached, WaitForIdle, PrecacheLock, Precache,
         Join, BeginWait, BeginExclusive, BeginCancel, WaitUntil, Goes, Inv, WholeImageInv, Returned
<1>5. core' \in {"precache_lock", "precache", "map"} => Parked
  <2>1. CASE core' = core \/ core \in {"precache_lock", "precache", "map"}
    BY <2>1 DEF Inv, WholeImageInv, WaitCount, WaitForReadToComplete, UseSector, IgnoreRead, Uncached, WaitForIdle,
         PrecacheLock, Precache, Join, BeginWait, BeginExclusive, Begins, BeginCancel, WaitUntil, Goes, Returned
  <2>2. CASE WaitForIdle /\ core' # core
    <3>1. Idle /\ LockFree /\ core \in {"idle_precache", "idle_map"}
      BY <2>2 DEF WaitForIdle, WaitUntil
    <3>2. worker \in {"woken", "waiting", "stopped"} /\ ~next_position_set
      BY <3>1 DEF BaseInv, Types, WorkerAt, BusyInv, Busy, LockFree, Idle
    <3>3. worker # "stopped"
      BY <3>1 DEF Inv, StopInv
    <3>4. usage.kick_is_seen
      BY <3>1 DEF Inv, WholeImageInv, InTime
    <3> QED
      BY <1>3, <3>2, <3>3, <3>4 DEF Parked
  <2>3. CASE BeginExclusive
    BY <2>3 DEF BeginExclusive, BeginCancel, BaseInv, ParkedInv
  <2>4. CASE ~WaitForIdle /\ ~BeginExclusive /\ core' # core
    BY <2>4 DEF WaitCount, WaitForReadToComplete, UseSector, IgnoreRead, Uncached, PrecacheLock, Precache,
         Join, BeginWait, WaitUntil, Goes, Inv, WholeImageInv, Returned
  <2> QED
    BY <2>1, <2>2, <2>3, <2>4
<1>6. core' \in {"wait_count", "using", "failed", "peeked"} => ~next_position_set
  BY DEF WaitCount, WaitForReadToComplete, UseSector, IgnoreRead, Uncached, WaitForIdle, PrecacheLock, Precache,
         Join, BeginWait, BeginExclusive, BeginCancel, WaitUntil, Goes, Inv, FoundInv, Returned, SectorReady
<1>7. core' = "using" => buffer_count > 0 /\ buffers[buffer_front].result
  BY DEF WaitCount, WaitForReadToComplete, UseSector, IgnoreRead, Uncached, WaitForIdle, PrecacheLock, Precache,
         Join, BeginWait, BeginExclusive, BeginCancel, WaitUntil, Goes, Inv, FoundInv, Returned, SectorReady
<1> QED
  BY <1>1, <1>2, <1>3, <1>4, <1>5, <1>6, <1>7, QuietInv DEF disc, modes

\* The steps that move the image, when the worker does not use it.
LEMMA PositionSteps ==
  ASSUME BaseInv, Inv, InTime(usage), BeginUncached \/ ReadSectorUncached \/ CreateFileMap \/ SetMedia \/ RemoveMedia
  PROVE  Inv'
<1>1. /\ UNCHANGED <<usage, queue, modes, seek_error, ring, worker, local, requested_lba>>
      /\ can_readahead' => can_readahead
  BY DEF BeginUncached, Begins, ReadSectorUncached, CreateFileMap, SetMedia, RemoveMedia, ChangeMedia, drive
<1>2. core' \in {"idle", "uncached"} /\ ~shutdown_flag
  BY DEF BeginUncached, Begins, ReadSectorUncached, CreateFileMap, SetMedia, RemoveMedia, ChangeMedia, Inv, StopInv
<1>3. core' # "idle" => (usage.kick_is_seen => ~(can_readahead /\ worker \in {"waiting", "woken"}))
  BY DEF BeginUncached, Begins, ReadSectorUncached, CreateFileMap, SetMedia, RemoveMedia, ChangeMedia
<1>4. UNCHANGED position \/ worker \notin {"seeked", "fill", "reading"}
  BY DEF BeginUncached, Begins, ReadSectorUncached, CreateFileMap, SetMedia, RemoveMedia, ChangeMedia,
         BaseInv, BusyInv, Busy, HoldsMutex, ParkedInv, Parked, Inv, WholeImageInv
<1>5. Size' = Size
  BY <1>1, SizeKept DEF BaseInv, ring
<1>6. StopInv' /\ WholeImageInv' /\ KickInv' /\ ErrorInv' /\ FoundInv'
  BY <1>1, <1>2, <1>3 DEF Inv, StopInv, WholeImageInv, KickInv, ErrorInv, FoundInv, queue, ring, modes
<1>7. RequestInv'
  BY <1>1, <1>4 DEF Inv, RequestInv, queue, ring, local
<1>8. ContentsInv'
  BY <1>1, <1>4, <1>5 DEF Inv, ContentsInv, At, ring, local
<1> QED
  BY <1>6, <1>7, <1>8 DEF Inv

\* An empty ring, a parked worker.
LEMMA EmptyingSteps ==
  ASSUME BaseInv, Inv, Cancel \/ SetReadaheadSectors
  PROVE  Inv'
<1>1. CASE Cancel
  <2>1. PICK next \in Callers : CancelReadahead(next)
    BY <1>1 DEF Cancel
  <2>2. /\ UNCHANGED <<disc, queue, modes, seek_error, buffers, worker, local, drive>>
        /\ LockFree /\ core = Cancelling[next]
    BY <2>1 DEF CancelReadahead, WaitUntil
  <2>3. core \in {"cancel_resize", "cancel_insert", "cancel_remove"}
    BY <2>2 DEF Callers, Cancelling
  <2>4. CASE Idle
    <3>1. core' = next /\ can_readahead' = FALSE /\ EmptyBuffers
      BY <2>1, <2>4 DEF CancelReadahead, WaitUntil
    <3>2. worker \in {"woken", "waiting", "stopped"} /\ buffer_count' = 0
      BY <2>2, <2>4, <3>1 DEF BaseInv, Types, WorkerAt, BusyInv, Busy, LockFree, Idle, EmptyBuffers
    <3>3. core' \in {"resize", "insert", "remove"}
      BY <3>1 DEF Callers
    <3>4. StopInv' /\ WholeImageInv' /\ KickInv' /\ ErrorInv' /\ FoundInv'
      BY <2>2, <2>3, <3>1, <3>2, <3>3 DEF Inv, StopInv, WholeImageInv, KickInv, ErrorInv, FoundInv, disc, queue, modes
    <3>5. RequestInv' /\ ContentsInv'
      BY <2>2, <3>1, <3>2 DEF Inv, RequestInv, ContentsInv, queue, drive
    <3> QED
      BY <3>4, <3>5 DEF Inv
  <2>5. CASE ~Idle
    <3>1. UNCHANGED <<core, can_readahead, buffer_front, buffer_back, buffer_count>>
      BY <2>1, <2>5 DEF CancelReadahead, WaitUntil
    <3> QED
      BY <2>2, <2>3, <3>1, QuietInv DEF Inv, StopInv, KickInv, disc, modes, drive, ring
  <2> QED
    BY <2>4, <2>5
<1>2. CASE SetReadaheadSectors
  <2>1. /\ core = "resize" /\ core' \in {"requeue", "idle"} /\ buffer_count' = 0
        /\ UNCHANGED <<disc, queue, shutdown_flag, can_readahead, seek_error, worker, local, drive>>
    BY <1>2 DEF SetReadaheadSectors, EmptyBuffers
  <2>2. Parked
    BY <2>1 DEF BaseInv, ParkedInv
  <2>3. StopInv' /\ WholeImageInv' /\ KickInv' /\ ErrorInv' /\ FoundInv'
    BY <2>1, <2>2 DEF Inv, StopInv, WholeImageInv, KickInv, ErrorInv, FoundInv, Parked, disc, queue
  <2>4. RequestInv' /\ ContentsInv'
    BY <2>1, <2>2 DEF Inv, RequestInv, ContentsInv, Parked, queue, drive
  <2> QED
    BY <2>3, <2>4 DEF Inv
<1> QED
  BY <1>1, <1>2

\* Waking the worker up, to stop it or for nothing.
LEMMA WakingSteps ==
  ASSUME BaseInv, Inv, ProcessShutdown \/ SpuriousWakeup
  PROVE  Inv'
<1>1. /\ UNCHANGED <<disc, queue, can_readahead, seek_error, ring, local, drive>>
      /\ worker' = worker \/ (worker = "waiting" /\ worker' = "woken")
  BY Notified DEF ProcessShutdown, SpuriousWakeup, BaseInv
<1>2. \/ core' = "join"
      \/ core' = core /\ UNCHANGED shutdown_flag
  BY DEF ProcessShutdown, SpuriousWakeup, modes
<1>3. core' # "idle" => (usage.kick_is_seen => ~(can_readahead /\ worker \in {"waiting", "woken"}))
  BY DEF ProcessShutdown, Begins, SpuriousWakeup, Inv, KickInv
<1>4. Size' = Size
  BY <1>1, SizeKept DEF BaseInv, ring
<1>5. StopInv'
  BY <1>1, <1>2 DEF ProcessShutdown, SpuriousWakeup, Inv, StopInv, modes
<1>6. WholeImageInv' /\ KickInv' /\ ErrorInv' /\ FoundInv'
  BY <1>1, <1>2, <1>3 DEF Inv, WholeImageInv, Parked, KickInv, ErrorInv, FoundInv, disc, queue, ring
<1>7. RequestInv'
  BY <1>1 DEF Inv, RequestInv, queue, ring, local, disc, drive
<1>8. ContentsInv'
  BY <1>1, <1>4 DEF Inv, ContentsInv, At, ring, local, disc
<1> QED
  BY <1>5, <1>6, <1>7, <1>8 DEF Inv

\* At the start nothing is asked for.
LEMMA InvInit == Init => Inv
<1> SUFFICES ASSUME Init PROVE Inv
  OBVIOUS
<1>1. StopInv /\ WholeImageInv /\ KickInv /\ ErrorInv /\ FoundInv
  BY DEF Init, StopInv, WholeImageInv, KickInv, ErrorInv, FoundInv
<1>2. RequestInv /\ ContentsInv
  BY DEF Init, RequestInv, ContentsInv
<1> QED
  BY <1>1, <1>2 DEF Inv

\* Every step keeps the request where it can be found.
LEMMA InvNext == UsagesInTime /\ BaseInv /\ Inv /\ [Next]_vars => Inv'
<1> SUFFICES ASSUME UsagesInTime, BaseInv, Inv, [Next]_vars PROVE Inv'
  OBVIOUS
<1>1. InTime(usage)
  BY DEF UsagesInTime, BaseInv, Types
<1>2. CASE Queue \/ SeekElsewhere \/ Requeue
  <2>1. \E lba \in Requests \cup {0} : QueueReadSector(lba)
    <3>1. requested_lba \in Requests \cup {0}
      BY DEF BaseInv, Types
    <3> QED
      BY <1>2, <3>1 DEF Queue, SeekElsewhere, Requeue
  <2>2. ~shutdown_flag /\ (usage.kick_is_seen => ~(can_readahead /\ worker \in {"waiting", "woken"}))
    BY <1>2 DEF Queue, Begins, SeekElsewhere, Requeue, Inv, StopInv, KickInv
  <2> QED
    BY <1>1, <2>1, <2>2, QueueStep
<1>3. CASE UNCHANGED vars
  <2>1. UNCHANGED <<disc, queue, modes, can_readahead, seek_error, ring, worker, local, core, drive>>
    BY <1>3 DEF vars
  <2> QED
    BY <2>1, QuietInv DEF Inv, StopInv, WholeImageInv, KickInv, FoundInv, disc, modes, drive
<1>4. CASE WorkerSteps
  BY <1>1, <1>4, SeekingSteps, LoopStep, FillStep, ReadStep, ReadDoneStep DEF WorkerSteps
<1> QED
  BY <1>1, <1>2, <1>3, <1>4, WaitingSteps, PositionSteps, EmptyingSteps, WakingSteps
  DEF Next, CoreSteps, Calls, Done

\* Both invariants hold in every reachable state of usages in time.
THEOREM InvAlways == ASSUME UsagesInTime PROVE Spec => [](BaseInv /\ Inv)
<1>1. Init => BaseInv /\ Inv
  BY BaseInit, InvInit
<1>2. (BaseInv /\ Inv) /\ [Next]_vars => (BaseInv /\ Inv)'
  BY BaseNext, InvNext
<1> QED
  BY <1>1, <1>2, PTL DEF Spec

\* A wait that succeeds has returned the sector of the newest request, read
\* from the disc at that position, in a slot the worker does not touch.
THEOREM AlwaysServesTheRequest == ASSUME UsagesInTime PROVE Spec => []ServesTheRequest
<1>1. BaseInv /\ Inv => ServesTheRequest
  <2> SUFFICES ASSUME BaseInv, Inv, core = "using" PROVE
          /\ buffer_count > 0
          /\ buffers[buffer_front] = [lba |-> requested_lba, sector |-> requested_lba, result |-> TRUE]
          /\ worker = "reading" => slot # buffer_front
    BY DEF ServesTheRequest
  <2>1. buffer_count > 0 /\ buffers[buffer_front].result /\ ~next_position_set
    BY DEF Inv, FoundInv
  <2>2. buffer_count \in 1 .. Size /\ Size \in Nat \ {0} /\ buffers[buffer_front] \in Slot
    BY <2>1 DEF BaseInv, RingTypes
  <2>3. buffers[buffer_front].lba = requested_lba
    BY <2>1 DEF Inv, RequestInv
  <2>4. buffers[buffer_front].sector = requested_lba
    <3>1. 0 \in 0 .. buffer_count - 1
      BY <2>2
    <3>2. buffers[At(0)].lba = buffers[At(0)].sector
      BY <3>1 DEF Inv, ContentsInv
    <3> QED
      BY <2>3, <3>2, FirstSlot DEF BaseInv
  <2>5. buffers[buffer_front].result = TRUE
    BY <2>1, <2>2 DEF Slot
  <2>6. ASSUME worker = "reading" PROVE slot # buffer_front
    <3>1. slot = At(buffer_count) /\ buffer_count \in 0 .. Size - 1 /\ 0 \in 0 .. Size - 1 /\ buffer_count # 0
      BY <2>2, <2>6 DEF BaseInv, RingInv, Filling
    <3> QED
      BY <3>1, FirstSlot, SlotsDiffer DEF BaseInv
  <2> QED
    BY <2>1, <2>2, <2>3, <2>4, <2>5, <2>6 DEF Slot
<1> QED
  BY <1>1, InvAlways, PTL

\* The image, which has no lock of its own, is never used by both threads.
THEOREM MediaAlwaysHasOneUser == ASSUME UsagesInTime PROVE Spec => []MediaHasOneUser
<1>1. BaseInv /\ Inv => MediaHasOneUser
  BY DEF BaseInv, BusyInv, Busy, HoldsMutex, ParkedInv, Parked, Inv, WholeImageInv, MediaHasOneUser
<1> QED
  BY <1>1, InvAlways, PTL

-----------------------------------------------------------------------------
(* A failed seek, of any usage: no matter how late the worker is, sectors    *)
(* are read behind it only in the schedule that the next action names.       *)

\* A seek that will fail is queued when a hit in the ring has told the worker
\* to read ahead and the worker has not begun to.
BadSeekOvertakesHit ==
  /\ next_position_set' /\ ~CanSeek(next_position') /\ ~UNCHANGED queue
  /\ can_readahead /\ worker \notin {"reading", "read"}

\* A seek that will fail finds no order to read ahead, in the queue or on its
\* way; once it has failed there is none either.
BadSeekInv ==
  /\ next_position_set /\ ~CanSeek(next_position) /\ worker \notin {"fill", "reading", "read"} =>
       ~can_readahead
  /\ worker = "emptied" => next_position_set /\ seek_location = next_position
  /\ worker = "seeking" /\ ~CanSeek(seek_location) => ~can_readahead
  /\ worker = "seek_failed" => ~can_readahead
  /\ seek_error =>
       /\ buffer_count = 0 /\ ~can_readahead
       /\ worker \in {"woken", "waiting", "predicate", "loop", "emptied", "stopped"}

\* The worker keeps it.
LEMMA BadSeekOfWorker == ASSUME BaseInv, BadSeekInv, WorkerSteps PROVE BadSeekInv'
<1> USE DEF BadSeekInv, CanSeek, queue, local, ring, disc
<1>1. buffer_count \in Nat
  BY DEF BaseInv, RingTypes
<1>2. CASE Acquire \/ Predicate
  BY <1>2 DEF Acquire, Predicate
<1>3. CASE Loop
  BY <1>3 DEF Loop, EmptyBuffers
<1>4. CASE BeginSeek
  BY <1>4 DEF BeginSeek
<1>5. CASE SeekMedia
  BY <1>5 DEF SeekMedia
<1>6. CASE SeekDone
  <2>1. buffer_count = 0
    BY <1>6 DEF SeekDone, BaseInv, SeekingInv
  <2> QED
    BY <1>6, <2>1 DEF SeekDone
<1>7. CASE Fill
  BY <1>7 DEF Fill
<1>8. CASE Read
  BY <1>8 DEF Read
<1>9. CASE ReadDone
  BY <1>9 DEF ReadDone
<1> QED
  BY <1>2, <1>3, <1>4, <1>5, <1>6, <1>7, <1>8, <1>9 DEF WorkerSteps

\* A request keeps it, unless it is the one that is excluded.
LEMMA BadSeekOfRequest ==
  ASSUME BaseInv, BadSeekInv, NEW lba \in Requests \cup {0}, QueueReadSector(lba), ~BadSeekOvertakesHit
  PROVE  BadSeekInv'
<1> USE DEF BadSeekInv, CanSeek, queue, local, ring, disc
<1>1. CASE ReadSectorNonThreaded(lba)
  <2>1. Parked
    BY <1>1 DEF ReadSectorNonThreaded, BaseInv, ParkedInv
  <2>2. UNCHANGED <<queue, can_readahead, worker, local>> /\ (seek_error' => buffer_count' = 0)
    BY <1>1 DEF ReadSectorNonThreaded
  <2> QED
    BY <2>1, <2>2 DEF Parked
<1>2. CASE SkipSameSector(lba) /\ UNCHANGED <<seek_error, local>>
  BY <1>2 DEF SkipSameSector
<1>3. CASE HitNextSector(lba) /\ UNCHANGED <<seek_error, local>>
  <2>1. buffer_count > 1 /\ ~next_position_set /\ worker \notin {"seeking", "seek_failed", "emptied"}
    BY <1>3 DEF HitNextSector, NextSector, BaseInv, SeekingInv
  <2> QED
    BY <1>3, <2>1 DEF HitNextSector, NotifyWorker
<1>4. CASE LockFree /\ QueueSeek(lba) /\ UNCHANGED <<seek_error, local>>
  <2>1. worker \notin {"predicate", "loop", "emptied", "fill"}
    BY <1>4 DEF LockFree
  <2>2. next_position_set' /\ UNCHANGED <<can_readahead, buffer_count, seek_location, seek_error>>
    BY <1>4 DEF QueueSeek
  <2>3. worker' = IF worker = "waiting" THEN "woken" ELSE worker
    BY <1>4 DEF QueueSeek, NotifyWorker
  <2>4. CASE UNCHANGED queue
    BY <2>1, <2>2, <2>3, <2>4
  <2>5. CASE ~UNCHANGED queue
    <3>1. ~CanSeek(next_position') => ~can_readahead \/ worker \in {"reading", "read"}
      BY <2>2, <2>5 DEF BadSeekOvertakesHit
    <3> QED
      BY <2>1, <2>2, <2>3, <3>1
  <2> QED
    BY <2>4, <2>5
<1> QED
  BY <1>1, <1>2, <1>3, <1>4 DEF QueueReadSector

\* So does every step.
LEMMA BadSeekNext ==
  BaseInv /\ BadSeekInv /\ [Next]_vars /\ [~BadSeekOvertakesHit]_vars => BadSeekInv'
<1> SUFFICES ASSUME BaseInv, BadSeekInv, [Next]_vars, [~BadSeekOvertakesHit]_vars PROVE BadSeekInv'
  OBVIOUS
<1> USE DEF queue, local, ring, disc, modes
<1>1. CASE UNCHANGED vars
  BY <1>1 DEF vars, BadSeekInv, CanSeek
<1>2. CASE WorkerSteps
  BY <1>2, BadSeekOfWorker
<1>3. CASE (Queue \/ SeekElsewhere \/ Requeue) /\ ~BadSeekOvertakesHit
  <2>1. PICK lba \in Requests \cup {0} : QueueReadSector(lba)
    BY <1>3 DEF Queue, SeekElsewhere, Requeue, BaseInv, Types
  <2> QED
    BY <1>3, <2>1, BadSeekOfRequest
<1> DEFINE ReadsNoFurther ==
             /\ UNCHANGED queue /\ UNCHANGED seek_location
             /\ UNCHANGED <<can_readahead, buffer_count>> \/ (~can_readahead' /\ buffer_count' \in {0, buffer_count})
             /\ seek_error' => seek_error
             /\ worker' = worker \/ (worker = "waiting" /\ worker' = "woken")
<1>4. ReadsNoFurther => BadSeekInv'
  BY DEF BadSeekInv, CanSeek
<1>5. CASE WaitCount \/ WaitForReadToComplete \/ UseSector \/ IgnoreRead \/ BeginWait
  <2>1. UNCHANGED others /\ (seek_error' => seek_error)
    <3>1. CASE WaitForReadToComplete
      BY <3>1, Zenon DEF WaitForReadToComplete
    <3>2. CASE WaitCount
      BY <3>2 DEF WaitCount
    <3>3. CASE UseSector
      BY <3>3 DEF UseSector
    <3>4. CASE IgnoreRead
      BY <3>4 DEF IgnoreRead
    <3>5. CASE BeginWait
      BY <3>5 DEF BeginWait
    <3> QED
      BY <1>5, <3>1, <3>2, <3>3, <3>4, <3>5
  <2>2. ReadsNoFurther
    BY <2>1 DEF others
  <2> QED
    BY <1>4, <2>2
<1>6. CASE WaitForIdle \/ PrecacheLock \/ Precache \/ Join \/ BeginExclusive
  <2>1. UNCHANGED others /\ UNCHANGED seek_error
    BY <1>6 DEF WaitForIdle, PrecacheLock, Precache, Join, BeginExclusive, BeginCancel, Goes
  <2>2. ReadsNoFurther
    BY <2>1 DEF others
  <2> QED
    BY <1>4, <2>2
<1>7. CASE Uncached \/ ReadSectorUncached \/ BeginUncached \/ SetMedia \/ RemoveMedia \/ CreateFileMap
  <2>1. CASE ReadSectorUncached
    BY <1>4, <2>1 DEF ReadSectorUncached
  <2>2. CASE ~ReadSectorUncached
    <3>1. ReadsNoFurther
      BY <1>7, <2>2 DEF Uncached, BeginUncached, SetMedia, RemoveMedia, ChangeMedia, CreateFileMap, others
    <3> QED
      BY <1>4, <3>1
  <2> QED
    BY <2>1, <2>2
<1>8. CASE Cancel \/ SetReadaheadSectors \/ ProcessShutdown \/ SpuriousWakeup
  <2>1. CASE Cancel
    <3>1. ReadsNoFurther
      BY <2>1 DEF Cancel, CancelReadahead, EmptyBuffers
    <3> QED
      BY <1>4, <3>1
  <2>2. CASE SetReadaheadSectors
    <3>1. Parked
      BY <2>2 DEF SetReadaheadSectors, BaseInv, ParkedInv
    <3>2. ReadsNoFurther
      BY <2>2, <3>1 DEF SetReadaheadSectors, EmptyBuffers, Parked
    <3> QED
      BY <1>4, <3>2
  <2>3. CASE ProcessShutdown \/ SpuriousWakeup
    <3>1. ReadsNoFurther
      BY <2>3 DEF ProcessShutdown, NotifyWorker, SpuriousWakeup
    <3> QED
      BY <1>4, <3>1
  <2> QED
    BY <1>8, <2>1, <2>2, <2>3
<1> QED
  BY <1>1, <1>2, <1>3, <1>5, <1>6, <1>7, <1>8 DEF Next, CoreSteps, Calls, Done

\* Nothing is buffered behind a failed seek, whatever the core thread asks for
\* and however late the worker is, until a seek that will fail overtakes the
\* read-ahead of a hit: the worker then still has the order to read ahead when
\* the seek has failed, and sectors end up behind the error.
THEOREM SeekErrorIsAlwaysTheResult ==
  Spec /\ [][~BadSeekOvertakesHit]_vars => []SeekErrorIsTheResult
<1>1. Init => BadSeekInv
  BY DEF Init, BadSeekInv
<1>2. BadSeekInv => SeekErrorIsTheResult
  BY DEF BadSeekInv, SeekErrorIsTheResult
<1> QED
  BY <1>1, <1>2, BadSeekNext, BaseAlways, PTL DEF Spec

\* A core thread that gives the worker time, or asks for no LBA off the disc,
\* never takes that step: the theorem above then holds of the specification.
THEOREM BadSeekNeverOvertakesHit ==
  ASSUME UsagesInTime PROVE Spec => [][~BadSeekOvertakesHit]_vars
<1>1. BaseInv /\ Inv /\ [Next]_vars => [~BadSeekOvertakesHit]_vars
  <2> SUFFICES ASSUME BaseInv, Inv, [Next]_vars, BadSeekOvertakesHit PROVE FALSE
    OBVIOUS
  <2>1. ~UNCHANGED queue /\ next_position_set' /\ ~CanSeek(next_position')
    BY DEF BadSeekOvertakesHit
  <2>2. Queue \/ SeekElsewhere \/ Requeue
    BY <2>1 DEF Next, WorkerSteps, CoreSteps, Calls, Done, vars, queue, Acquire, Predicate, Loop,
         BeginSeek, SeekMedia, SeekDone, Fill, Read, ReadDone, WaitCount, WaitForReadToComplete,
         UseSector, IgnoreRead, BeginWait, WaitForIdle, PrecacheLock, Precache, Join, BeginExclusive,
         BeginCancel, Goes, others, Uncached, ReadSectorUncached, BeginUncached, SetMedia,
         RemoveMedia, ChangeMedia, CreateFileMap, Cancel, CancelReadahead, SetReadaheadSectors,
         ProcessShutdown, SpuriousWakeup
  <2>3. PICK lba \in Requests \cup {0} : QueueReadSector(lba)
    BY <2>2 DEF Queue, SeekElsewhere, Requeue, BaseInv, Types
  <2>4. QueueSeek(lba) /\ LockFree /\ next_position' = lba
    BY <2>1, <2>3 DEF QueueReadSector, ReadSectorNonThreaded, SkipSameSector, HitNextSector, QueueSeek, queue
  <2>5. usage.kick_is_seen
    <3> SUFFICES ASSUME ~usage.kick_is_seen PROVE CanSeek(lba)
      BY <2>1, <2>4
    <3>1. Requests \subseteq 0 .. Length - 1
      BY DEF UsagesInTime, InTime, BaseInv, Types, Requests
    <3> QED
      BY <3>1, ReaderAssumption DEF CanSeek
  <2>6. can_readahead /\ worker \in WorkerAt \ {"reading", "read", "predicate", "loop", "emptied", "fill"}
    BY <2>4 DEF BadSeekOvertakesHit, LockFree, BaseInv, Types
  <2>7. worker \in {"waiting", "woken", "stopped"}
    BY <2>5, <2>6 DEF Inv, KickInv, WorkerAt
  <2>8. worker \in {"waiting", "woken"} => core = "idle"
    BY <2>5, <2>6 DEF Inv, KickInv
  <2>9. core = "idle" => Begins
    BY <2>2 DEF Queue, SeekElsewhere, Requeue
  <2>10. worker # "stopped"
    BY <2>2 DEF Inv, StopInv, Queue, Begins, SeekElsewhere, Requeue
  <2> QED
    BY <2>5, <2>6, <2>7, <2>8, <2>9, <2>10 DEF Begins
<1> QED
  BY <1>1, InvAlways, PTL DEF Spec
=============================================================================
