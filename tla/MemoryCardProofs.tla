-------------------------- MODULE MemoryCardProofs --------------------------
(***************************************************************************)
(* Saving a memory card to its file is in order whatever the constants     *)
(* are; and run-ahead restores the card's data, for any number of frames,  *)
(* if the game and the user do none of the four things the constants allow *)
(* for.  The inductive invariant says of every memory state what loading   *)
(* it would do to the card: the data is in the state, or in the backup, or *)
(* still in the card.                                                      *)
(***************************************************************************)
EXTENDS MemoryCard, TLAPS

\* There is a save under way exactly while the flag is up, of the newest data.
OneSave ==
  \/ ~save_pending /\ tasks = {} /\ (file = saved \/ failed)
  \/ /\ save_pending
     /\ \E w \in BOOLEAN :
          tasks = {[data |-> saved, written |-> w]} /\ (w => file = saved \/ failed)

\* A card is closed once its save has ended.
ClosedIsSaved == (core = "closed" => ~save_pending) /\ after # "closed"

SavesInv == OneSave /\ ClosedIsSaved

-----------------------------------------------------------------------------
\* Initially nothing has been changed and nothing is saved.
LEMMA SavesInit == Init => SavesInv
  BY DEF Init, SavesInv, OneSave, ClosedIsSaved

\* Every step of the core thread and of the workers keeps the order.
LEMMA SavesNext == SavesInv /\ [Next]_vars => SavesInv'
<1> SUFFICES ASSUME SavesInv, [Next]_vars PROVE SavesInv'
  OBVIOUS
<1>1. CASE QueueSave
  <2>1. tasks' = {[data |-> saved', written |-> FALSE]} /\ save_pending'
    BY <1>1 DEF QueueSave, SavesInv, OneSave
  <2>2. core' # "closed" /\ UNCHANGED after
    BY <1>1 DEF QueueSave, SavesInv, ClosedIsSaved
  <2> QED
    BY <2>1, <2>2 DEF SavesInv, OneSave, ClosedIsSaved
<1>2. CASE WriteFile
  <2>1. PICK w \in BOOLEAN : tasks = {[data |-> saved, written |-> w]}
    BY <1>2 DEF WriteFile, SavesInv, OneSave
  <2>2. ~w /\ tasks' = {[data |-> saved, written |-> TRUE]} /\ (file' = saved \/ failed')
    BY <1>2, <2>1 DEF WriteFile
  <2>3. save_pending /\ UNCHANGED <<save_pending, saved, core, after>>
    BY <1>2, <2>1 DEF WriteFile, SavesInv, OneSave
  <2> QED
    BY <2>2, <2>3 DEF SavesInv, OneSave, ClosedIsSaved
<1>3. CASE EndTask
  <2>1. PICK w \in BOOLEAN : tasks = {[data |-> saved, written |-> w]} /\ (w => file = saved \/ failed)
    BY <1>3 DEF EndTask, SavesInv, OneSave
  <2>2. w /\ tasks' = {}
    BY <1>3, <2>1 DEF EndTask
  <2> QED
    BY <1>3, <2>1, <2>2 DEF EndTask, SavesInv, OneSave, ClosedIsSaved
<1>4. CASE Closed
  BY <1>4 DEF Closed, SavesInv, OneSave, ClosedIsSaved, saves
<1>5. ASSUME UNCHANGED <<save_pending, tasks, file, saved, failed>>, core' # "closed" \/ core' = core,
             after' # "closed" \/ after' = after
      PROVE SavesInv'
  BY <1>5 DEF SavesInv, OneSave, ClosedIsSaved
<1>6. CASE SaveEvent \/ FlushOrClose \/ LoadCard \/ ResetSystem
  BY <1>5, <1>6 DEF SaveEvent, FlushOrClose, LoadCard, ResetSystem, SaveIfChanged
<1>7. CASE FirstByte \/ NextBytes \/ ResetDeviceTransferState \/ VBlank
  BY <1>5, <1>7 DEF FirstByte, NextBytes, ResetDeviceTransferState, VBlank, saves
<1>8. CASE FrameDone
  BY <1>5, <1>8 DEF FrameDone, saves
<1>9. CASE LoadWithoutCard \/ RestoreCard
  BY <1>5, <1>9 DEF LoadWithoutCard, RestoreCard, saves
<1>10. CASE UNCHANGED vars
  BY <1>5, <1>10 DEF vars, saves
<1> QED
  BY <1>1, <1>2, <1>3, <1>4, <1>6, <1>7, <1>8, <1>9, <1>10 DEF Next, Core, Worker

\* However late the workers are and whatever they fail to write, the file ends
\* up with the newest data that was saved, and no task outlives the card.
THEOREM SavesAreAlwaysInOrder == Spec => []SavesAreInOrder
<1>1. SavesInv => SavesAreInOrder
  BY DEF SavesInv, OneSave, ClosedIsSaved, SavesAreInOrder
<1> QED
  BY <1>1, SavesInit, SavesNext, PTL DEF Spec
-----------------------------------------------------------------------------
(* Run-ahead. *)

\* The card is not behind a multitap, the system is only reset while a
\* rollback cannot follow a transfer, and the game does not stay in a transfer
\* across frames or go on with one that the rollback took away.
Careful == ~Multitap /\ ~LateResets /\ ~StaleDevice /\ ~Stalls

\* IsRecent, without the wrap of the frame numbers.
Recent(frame, last) == frame - last <= RunaheadFrames

\* A memory state is to be loaded.
Loading == core \in {"load", "restore"} \/ (core = "wait" /\ after = "restore")

\* A state without the card is one from long after the last transfer.
IsState(s) ==
  /\ s \in States
  /\ s.frame >= 1 /\ s.last <= s.frame
  /\ s.card = NoCard \/ s.card = s.truth
  /\ s.card = NoCard <=> ~Recent(s.frame, s.last)
  /\ s.device => Recent(s.frame, s.last)

FrameTypes ==
  /\ frame_number \in 1 .. MaxFrames /\ last_transfer \in 0 .. frame_number
  /\ frame_done_due \in BOOLEAN /\ replay_pending \in BOOLEAN /\ replay_frames \in 0 .. RunaheadFrames

StateTypes ==
  memory_states \in Seq({s \in States : IsState(s)}) /\ Len(memory_states) <= RunaheadFrames

CardTypes ==
  /\ active \in BOOLEAN /\ device \in BOOLEAN /\ backup \in Cards \cup {NoCard} /\ card \in Cards
  /\ writes \in 0 .. MaxWrites

CoreTypes ==
  /\ tasks \subseteq [data : 0 .. MaxWrites, written : BOOLEAN]
  /\ core \in {"run", "wait", "load", "restore", "flush", "close", "closed"}
  /\ after \in {"run", "restore", "flush", "close"}

Types == FrameTypes /\ StateTypes /\ CardTypes /\ CoreTypes

\* Run-ahead goes back no further than the frames it is set to.
FramesInv ==
  \A i \in 1 .. Len(memory_states) :
    /\ memory_states[i].frame <= frame_number
    /\ frame_number - memory_states[i].frame
         <= Len(memory_states) - i + (IF frame_done_due \/ Loading THEN 1 ELSE 0)

\* A device that states hold to be active has made a transfer lately.
DeviceInv == device => Recent(frame_number, last_transfer)

\* What loading s finds: no transfer since, or one after s was saved; no change
\* of the card without a transfer; and the backup, if s needs it.
IsKept(s) ==
  /\ s.last # last_transfer => s.frame <= last_transfer
  /\ s.last = last_transfer /\ s.last # s.frame => card.data = s.truth.data
  /\ s.card = NoCard /\ s.last # last_transfer => backup # NoCard /\ backup.data = s.truth.data

KeptInv == \A i \in 1 .. Len(memory_states) : IsKept(memory_states[i])

\* There is something to load, and the card is loaded only if it is not current.
LoadingInv ==
  /\ Loading => memory_states # <<>>
  /\ Loading /\ core # "load" => ~CardIsCurrent

Inv == Types /\ FramesInv /\ DeviceInv /\ KeptInv /\ LoadingInv

-----------------------------------------------------------------------------
\* Without the wrap of the frame numbers, which are counted from 1 at a reset.
LEMMA RecentIs ==
  ASSUME NEW frame \in 0 .. MaxFrames, NEW last \in 0 .. frame
  PROVE  IsRecent(frame, last) <=> Recent(frame, last)
<1> DEFINE k == frame - last
<1>1. k \in 0 .. FrameValues - 1 /\ FrameValues \in Nat \ {0}
  BY BoundsAssumption
<1>2. (k + FrameValues) % FrameValues = k
  <2> HIDE DEF k
  <2> QED BY <1>1
<1>3. k + FrameValues = frame + FrameValues - last
  BY BoundsAssumption
<1> QED
  BY <1>2, <1>3 DEF IsRecent, Since, Recent

\* Every memory state is one.
LEMMA Elements ==
  ASSUME Types
  PROVE  /\ Len(memory_states) \in 0 .. RunaheadFrames
         /\ \A i \in 1 .. Len(memory_states) : IsState(memory_states[i])
         /\ memory_states # <<>> => 1 \in 1 .. Len(memory_states) /\ Loaded = memory_states[1]
  BY BoundsAssumption DEF Types, FrameTypes, StateTypes, CardTypes, CoreTypes, Loaded

\* A state about to be saved is one, and loading it at once changes nothing.
LEMMA Saved ==
  ASSUME Types, DeviceInv
  PROVE  IsState(MemoryState) /\ IsKept(MemoryState) /\ MemoryState.frame = frame_number
<1>1. IsRecent(frame_number, last_transfer) <=> Recent(frame_number, last_transfer)
  BY RecentIs, BoundsAssumption DEF Types, FrameTypes, StateTypes, CardTypes, CoreTypes
<1>2. card # NoCard
  BY BoundsAssumption DEF Types, FrameTypes, StateTypes, CardTypes, CoreTypes, Cards, NoCard
<1>3. MemoryState \in States
  BY BoundsAssumption DEF MemoryState, States, Types, FrameTypes, StateTypes, CardTypes, CoreTypes
<1> QED
  BY <1>1, <1>2, <1>3, BoundsAssumption DEF MemoryState, IsState, IsKept, DeviceInv, Types, FrameTypes, StateTypes, CardTypes, CoreTypes

\* A step that makes no transfer and leaves the frames alone.
LEMMA Quiet ==
  ASSUME Inv, Types',
         UNCHANGED <<frame_number, frame_done_due, memory_states, last_transfer, backup>>,
         card'.data = card.data, device' => device,
         Loading' <=> Loading,
         core = "load" /\ core' # "load" => ~CardIsCurrent
  PROVE  Inv'
<1>1. FramesInv'
  <2> SUFFICES ASSUME NEW i \in 1 .. Len(memory_states)
               PROVE  /\ memory_states[i].frame <= frame_number
                      /\ frame_number - memory_states[i].frame
                           <= Len(memory_states) - i + (IF frame_done_due \/ Loading' THEN 1 ELSE 0)
    BY DEF FramesInv
  <2>1. memory_states[i].frame \in Nat /\ frame_number \in Nat /\ Len(memory_states) \in Nat
    BY Elements DEF Inv, IsState, States, Types, FrameTypes, StateTypes, CardTypes, CoreTypes
  <2> QED
    BY <2>1 DEF Inv, FramesInv
<1>2. DeviceInv'
  BY DEF Inv, DeviceInv
<1>3. KeptInv'
  BY DEF Inv, KeptInv, IsKept
<1>4. LoadingInv'
  BY DEF Inv, LoadingInv, Loading, CardIsCurrent, Loaded
<1> QED
  BY <1>1, <1>2, <1>3, <1>4 DEF Inv

\* A step after which there is no memory state, and nothing to load.
LEMMA Forgotten ==
  ASSUME Types', memory_states' = <<>>, ~Loading', DeviceInv'
  PROVE  Inv'
  BY DEF Inv, FramesInv, KeptInv, LoadingInv

\* The game's use of the card is one, and leaves the data alone unless it goes
\* on with a command.
LEMMA Transferred ==
  ASSUME Types, NEW ack \in BOOLEAN, CardTransfer(ack)
  PROVE  /\ card' \in Cards /\ writes' \in 0 .. MaxWrites
         /\ ~ack \/ card.state # "Data" => card'.data = card.data
<1>1. CASE card' = [card EXCEPT !.state = IF ~ack THEN "Idle" ELSE IF @ = "Idle" THEN "Command" ELSE "Data"]
           /\ UNCHANGED writes
  BY <1>1 DEF Types, FrameTypes, StateTypes, CardTypes, CoreTypes, Cards
<1>2. CASE /\ ack /\ card.state = "Data" /\ writes < MaxWrites /\ writes' = writes + 1
           /\ card' = [card EXCEPT !.data = writes', !.changed = TRUE]
  <2>1. writes' \in 0 .. MaxWrites
    BY <1>2, BoundsAssumption DEF Types, FrameTypes, StateTypes, CardTypes, CoreTypes
  <2>2. card' \in Cards
    BY <1>2, <2>1 DEF Types, FrameTypes, StateTypes, CardTypes, CoreTypes, Cards
  <2> QED
    BY <1>2, <2>1, <2>2
<1> QED
  BY <1>1, <1>2 DEF CardTransfer

\* A transfer: every state that had not seen one is now older than it.  The
\* backup is made by the first one for which a state may lack the card.
LEMMA TransferKeeps ==
  ASSUME Inv, card' \in Cards, UNCHANGED <<memory_states, frame_number>>,
         last_transfer' = frame_number,
         \/ UNCHANGED backup /\ Recent(frame_number, last_transfer)
         \/ /\ ~Recent(frame_number, last_transfer)
            /\ backup' = card' /\ card'.data = card.data
  PROVE  KeptInv'
<1> SUFFICES ASSUME NEW i \in 1 .. Len(memory_states) PROVE IsKept(memory_states[i])'
  BY DEF KeptInv
<1> DEFINE s == memory_states[i]
<1>1. IsState(s) /\ IsKept(s)
  BY Elements DEF Inv, KeptInv
<1>2. s.frame <= frame_number /\ frame_number - s.frame <= RunaheadFrames
  <2>1. s.frame \in Nat /\ frame_number \in Nat /\ RunaheadFrames \in Nat
        /\ Len(memory_states) \in 0 .. RunaheadFrames
    BY Elements, <1>1, BoundsAssumption DEF Inv, IsState, States, Types, FrameTypes, StateTypes, CardTypes, CoreTypes
  <2>2. /\ s.frame <= frame_number
        /\ frame_number - s.frame <= Len(memory_states) - i + (IF frame_done_due \/ Loading THEN 1 ELSE 0)
    BY DEF Inv, FramesInv
  <2> QED
    BY <2>1, <2>2
<1>3. /\ s.frame \in Nat /\ s.last \in Nat /\ s.last <= s.frame /\ RunaheadFrames \in Nat \ {0}
      /\ frame_number \in Nat /\ last_transfer \in Nat
  BY <1>1, BoundsAssumption DEF IsState, States, Inv, Types, FrameTypes, StateTypes, CardTypes, CoreTypes
<1>4. card' # NoCard
  BY BoundsAssumption DEF Cards, NoCard
<1>5. s' = s
  OBVIOUS
<1> HIDE DEF s
<1>6. ASSUME s.card = NoCard, s.last # frame_number PROVE backup' # NoCard /\ backup'.data = s.truth.data
  <2>1. ~Recent(s.frame, s.last)
    BY <1>1, <1>6 DEF IsState
  <2>2. CASE s.last = last_transfer
    <3>1. ~Recent(frame_number, last_transfer) /\ s.last # s.frame
      BY <1>2, <1>3, <2>1, <2>2 DEF Recent
    <3> QED
      BY <1>1, <1>4, <2>2, <3>1 DEF IsKept
  <2>3. CASE s.last # last_transfer
    <3>1. Recent(frame_number, last_transfer)
      BY <1>1, <1>2, <1>3, <2>3 DEF IsKept, Recent
    <3> QED
      BY <1>1, <1>6, <2>3, <3>1 DEF IsKept
  <2> QED
    BY <2>2, <2>3
<1>7. IsKept(s)'
  BY <1>2, <1>3, <1>5, <1>6 DEF IsKept
<1> QED
  BY <1>7 DEF s

\* A transfer keeps the rest as well.
LEMMA TransferInv ==
  ASSUME Inv, Careful, FirstByte \/ NextBytes
  PROVE  Inv'
<1>1. PICK ack \in BOOLEAN : CardTransfer(ack) /\ ack = active' /\ device' = active'
  BY DEF FirstByte, NextBytes
<1>2. /\ card' \in Cards /\ writes' \in 0 .. MaxWrites
      /\ ~ack \/ card.state # "Data" => card'.data = card.data
  BY <1>1, Transferred DEF Inv
<1>3. ~Multitap /\ ~StaleDevice /\ core = "run"
  BY DEF Careful, FirstByte, NextBytes, CanTransfer
<1>4. IsRecent(frame_number, last_transfer) <=> Recent(frame_number, last_transfer)
  BY RecentIs, BoundsAssumption DEF Inv, Types, FrameTypes, StateTypes, CardTypes, CoreTypes
<1>5. UNCHANGED <<frames, save_pending, tasks, file, saved, failed, core, after>>
  BY DEF FirstByte, NextBytes
<1>6. /\ last_transfer' \in {frame_number, last_transfer}
      /\ backup' \in {backup, card'}
  BY <1>3 DEF FirstByte, NextBytes
<1>7. Types'
  BY <1>1, <1>2, <1>5, <1>6 DEF Inv, Types, FrameTypes, StateTypes, CardTypes, CoreTypes, frames
<1>8. FramesInv'
  BY <1>5 DEF Inv, FramesInv, Loading, frames
<1>9. ~Loading /\ ~Loading'
  BY <1>3, <1>5 DEF Loading
<1>10. LoadingInv'
  BY <1>9 DEF LoadingInv
<1>11. CASE last_transfer' = last_transfer /\ UNCHANGED backup /\ ~ack
  <2>1. card'.data = card.data
    BY <1>2, <1>11
  <2> QED
    BY <2>1, <1>1, <1>5, <1>7, <1>9, <1>11, Quiet DEF frames
<1>12. CASE last_transfer' = frame_number
  <2>1. DeviceInv'
    BY <1>5, <1>12, BoundsAssumption DEF Inv, Types, FrameTypes, StateTypes, CardTypes, CoreTypes, DeviceInv, Recent, frames
  <2>2. \/ UNCHANGED backup /\ Recent(frame_number, last_transfer)
        \/ /\ ~Recent(frame_number, last_transfer)
           /\ backup' = card' /\ card'.data = card.data
    <3>1. CASE FirstByte /\ ack
      <4>1. backup' = IF ~IsRecent(frame_number, last_transfer) THEN card' ELSE backup
        BY <1>1, <1>3, <3>1 DEF FirstByte, NeedsBackup
      <4>2. ~Recent(frame_number, last_transfer) => card.state # "Data"
        BY <1>1, <3>1 DEF FirstByte, Inv, DeviceInv
      <4> QED
        BY <4>1, <4>2, <1>2, <1>4
    <3>2. CASE FirstByte /\ ~ack
      <4>1. last_transfer = frame_number /\ UNCHANGED backup
        BY <1>1, <1>12, <3>2 DEF FirstByte
      <4> QED
        BY <4>1, BoundsAssumption DEF Recent, Inv, Types, FrameTypes, StateTypes, CardTypes, CoreTypes
    <3>3. CASE NextBytes
      BY <3>3, <1>3 DEF NextBytes, CanTransfer, Inv, DeviceInv
    <3> QED
      BY <3>1, <3>2, <3>3
  <2>3. KeptInv'
    BY <1>2, <1>5, <1>12, <2>2, TransferKeeps DEF frames
  <2> QED
    BY <1>7, <1>8, <1>10, <2>1, <2>3 DEF Inv
<1> QED
  BY <1>1, <1>3, <1>11, <1>12 DEF FirstByte, NextBytes

\* A frame ends: states hold that a device is active only if the game goes on
\* with it in time.
LEMMA VBlankInv ==
  ASSUME Inv, Careful, VBlank
  PROVE  Inv'
<1>1. /\ core = "run" /\ ~frame_done_due /\ frame_done_due'
      /\ UNCHANGED <<memory_states, replay_pending, replay_frames, pad, card, saves, core, after, writes>>
      /\ device => IsRecent(frame_number', last_transfer)
  BY DEF VBlank, Careful
<1>2. frame_number' = frame_number + 1 /\ frame_number + 1 \in 1 .. MaxFrames
  <2>1. frame_number + 1 \in 0 .. FrameValues - 1 /\ FrameValues \in Nat \ {0}
    BY BoundsAssumption DEF VBlank, Inv, Types, FrameTypes, StateTypes, CardTypes, CoreTypes
  <2>2. (frame_number + 1) % FrameValues = frame_number + 1
    BY <2>1
  <2> QED
    BY <2>2, BoundsAssumption DEF VBlank, Inv, Types, FrameTypes, StateTypes, CardTypes, CoreTypes
<1>3. Types'
  BY <1>1, <1>2, BoundsAssumption DEF Inv, Types, FrameTypes, StateTypes, CardTypes, CoreTypes, pad, saves
<1>4. last_transfer \in 0 .. frame_number' /\ frame_number' \in 0 .. MaxFrames
  BY <1>2, BoundsAssumption DEF Inv, Types, FrameTypes, StateTypes, CardTypes, CoreTypes
<1>5. DeviceInv'
  BY <1>1, <1>4, RecentIs DEF DeviceInv, pad
<1>6. FramesInv'
  <2>1. memory_states' = memory_states /\ (IF frame_done_due' \/ Loading' THEN 1 ELSE 0) = 1
    BY <1>1
  <2> SUFFICES ASSUME NEW i \in 1 .. Len(memory_states)
               PROVE  /\ memory_states[i].frame <= frame_number'
                      /\ frame_number' - memory_states[i].frame
                           <= Len(memory_states) - i + (IF frame_done_due' \/ Loading' THEN 1 ELSE 0)
    BY <2>1 DEF FramesInv
  <2>2. memory_states[i].frame \in Nat /\ frame_number \in Nat /\ Len(memory_states) \in Nat
    BY Elements DEF Inv, IsState, States, Types, FrameTypes
  <2>3. /\ memory_states[i].frame <= frame_number
        /\ frame_number - memory_states[i].frame <= Len(memory_states) - i
    BY <1>1 DEF Inv, FramesInv, Loading
  <2> QED
    BY <1>2, <2>1, <2>2, <2>3
<1>7. KeptInv'
  BY <1>1 DEF Inv, KeptInv, IsKept, pad
<1>8. LoadingInv'
  BY <1>1 DEF LoadingInv, Loading
<1> QED
  BY <1>3, <1>5, <1>6, <1>7, <1>8 DEF Inv

\* The states kept after a frame: the oldest goes when there are enough.
LEMMA Appended ==
  ASSUME Types, DeviceInv, NEW states,
         states = IF Len(memory_states) = RunaheadFrames
                  THEN Append(Tail(memory_states), MemoryState) ELSE Append(memory_states, MemoryState)
  PROVE  /\ states \in Seq({s \in States : IsState(s)}) /\ Len(states) \in 1 .. RunaheadFrames
         /\ \A i \in 1 .. Len(states) :
              \/ i = Len(states) /\ states[i] = MemoryState
              \/ \E j \in 1 .. Len(memory_states) :
                   states[i] = memory_states[j] /\ Len(states) - i = Len(memory_states) - j + 1
<1> DEFINE S == {s \in States : IsState(s)}
<1>1. memory_states \in Seq(S) /\ MemoryState \in S
  BY Saved DEF Types, FrameTypes, StateTypes, CardTypes, CoreTypes, IsState
<1>2. RunaheadFrames \in Nat \ {0} /\ Len(memory_states) \in 0 .. RunaheadFrames
  BY BoundsAssumption, Elements
<1> HIDE DEF S
<1>3. CASE Len(memory_states) = RunaheadFrames
  <2> DEFINE t == Tail(memory_states)
  <2>1. /\ t \in Seq(S) /\ Len(t) = Len(memory_states) - 1
        /\ \A i \in 1 .. Len(t) : t[i] = memory_states[i + 1]
    BY <1>1, <1>2, <1>3
  <2>2. states = Append(t, MemoryState)
    BY <1>3
  <2> HIDE DEF t
  <2>3. /\ states \in Seq(S) /\ Len(states) = Len(t) + 1
        /\ \A i \in 1 .. Len(t) : states[i] = t[i]
        /\ states[Len(t) + 1] = MemoryState
    BY <1>1, <2>1, <2>2
  <2>4. ASSUME NEW i \in 1 .. Len(states), i # Len(states)
        PROVE  \E j \in 1 .. Len(memory_states) :
                 states[i] = memory_states[j] /\ Len(states) - i = Len(memory_states) - j + 1
    <3>1. i \in 1 .. Len(t) /\ i + 1 \in 1 .. Len(memory_states) /\ states[i] = memory_states[i + 1]
      BY <1>2, <2>1, <2>3, <2>4
    <3>2. Len(states) - i = Len(memory_states) - (i + 1) + 1
      BY <1>2, <2>1, <2>3, <3>1
    <3> QED
      BY <3>1, <3>2
  <2> QED
    BY <1>2, <1>3, <2>1, <2>3, <2>4 DEF S
<1>4. CASE Len(memory_states) # RunaheadFrames
  <2>1. /\ states \in Seq(S) /\ Len(states) = Len(memory_states) + 1
        /\ \A i \in 1 .. Len(memory_states) : states[i] = memory_states[i]
        /\ states[Len(memory_states) + 1] = MemoryState
    BY <1>1, <1>2, <1>4
  <2> QED
    BY <1>2, <1>4, <2>1 DEF S
<1> QED
  BY <1>3, <1>4

\* After a frame a state is saved, or an old one is to be loaded.
LEMMA FrameDoneInv ==
  ASSUME Inv, FrameDone
  PROVE  Inv'
<1>1. /\ core = "run" /\ frame_done_due /\ frame_done_due' = FALSE /\ replay_pending' = FALSE
      /\ UNCHANGED <<frame_number, pad, card, saves, after, writes>>
  BY DEF FrameDone
<1>2. ~Loading
  BY <1>1 DEF Loading
<1>3. DeviceInv'
  BY <1>1 DEF Inv, DeviceInv, pad
<1>4. CASE core' = "load" /\ memory_states # <<>> /\ UNCHANGED <<memory_states, replay_frames>>
  <2>1. Types'
    BY <1>1, <1>4 DEF Inv, Types, FrameTypes, StateTypes, CardTypes, CoreTypes, pad, saves
  <2>2. FramesInv'
    BY <1>1, <1>4 DEF Inv, FramesInv, Loading
  <2>3. KeptInv'
    BY <1>1, <1>4 DEF Inv, KeptInv, IsKept, pad
  <2>4. LoadingInv'
    BY <1>4 DEF LoadingInv, Loading
  <2> QED
    BY <1>3, <2>1, <2>2, <2>3, <2>4 DEF Inv
<1>5. CASE /\ UNCHANGED core
           /\ replay_frames' = IF replay_frames > 0 THEN replay_frames - 1 ELSE 0
           /\ memory_states' = IF Len(memory_states) = RunaheadFrames
                THEN Append(Tail(memory_states), MemoryState) ELSE Append(memory_states, MemoryState)
  <2>1. /\ memory_states' \in Seq({s \in States : IsState(s)}) /\ Len(memory_states') \in 1 .. RunaheadFrames
        /\ \A i \in 1 .. Len(memory_states') :
             \/ i = Len(memory_states') /\ memory_states'[i] = MemoryState
             \/ \E j \in 1 .. Len(memory_states) :
                  /\ memory_states'[i] = memory_states[j]
                  /\ Len(memory_states') - i = Len(memory_states) - j + 1
    BY <1>5, Appended DEF Inv
  <2>2. replay_frames' \in 0 .. RunaheadFrames
    BY <1>5, BoundsAssumption DEF Inv, Types, FrameTypes, StateTypes, CardTypes, CoreTypes
  <2>3. Types'
    <3>1. StateTypes'
      BY <2>1, BoundsAssumption DEF StateTypes
    <3>2. FrameTypes' /\ CardTypes'
      BY <1>1, <2>2 DEF Inv, Types, FrameTypes, CardTypes, pad
    <3>3. CoreTypes'
      BY <1>1, <1>5 DEF Inv, Types, CoreTypes, saves
    <3> QED
      BY <3>1, <3>2, <3>3 DEF Types
  <2>4. ~Loading'
    BY <1>1, <1>5 DEF Loading
  <2>5. FramesInv'
    <3> SUFFICES ASSUME NEW i \in 1 .. Len(memory_states')
                 PROVE  /\ memory_states'[i].frame <= frame_number
                        /\ frame_number - memory_states'[i].frame <= Len(memory_states') - i
      BY <1>1, <2>4 DEF FramesInv
    <3>1. CASE i = Len(memory_states') /\ memory_states'[i] = MemoryState
      <4>1. memory_states'[i].frame = frame_number /\ frame_number \in Nat
        BY <3>1, Saved DEF Inv, Types, FrameTypes, StateTypes, CardTypes, CoreTypes
      <4> QED
        BY <3>1, <4>1, <2>1
    <3>2. ASSUME NEW j \in 1 .. Len(memory_states), memory_states'[i] = memory_states[j],
                 Len(memory_states') - i = Len(memory_states) - j + 1
          PROVE  /\ memory_states'[i].frame <= frame_number
                 /\ frame_number - memory_states'[i].frame <= Len(memory_states') - i
      BY <1>1, <3>2 DEF Inv, FramesInv
    <3> QED
      BY <2>1, <3>1, <3>2
  <2>6. KeptInv'
    <3> SUFFICES ASSUME NEW i \in 1 .. Len(memory_states')
                 PROVE  IsKept(memory_states'[i])
      BY <1>1 DEF KeptInv, IsKept, pad
    <3>1. IsKept(MemoryState)
      BY Saved DEF Inv
    <3> QED
      BY <2>1, <3>1 DEF Inv, KeptInv
  <2>7. LoadingInv'
    BY <2>4, <1>1, <1>5 DEF LoadingInv, Loading
  <2> QED
    BY <1>3, <2>3, <2>5, <2>6, <2>7 DEF Inv
<1> QED
  BY <1>4, <1>5 DEF FrameDone

\* What is loaded has the card as it was, whichever of the three places it is
\* taken from.
LEMMA LoadedIs ==
  ASSUME Inv, LoadWithoutCard \/ RestoreCard
  PROVE  /\ IsState(Loaded)
         /\ card' \in Cards /\ card'.data = Loaded.truth.data
<1>1. Loading
  BY DEF LoadWithoutCard, RestoreCard, Loading
<1>2. memory_states # <<>>
  BY <1>1 DEF Inv, LoadingInv
<1>3. IsState(Loaded) /\ IsKept(Loaded)
  BY <1>2, Elements DEF Inv, KeptInv
<1>4. CASE LoadWithoutCard
  BY <1>3, <1>4 DEF LoadWithoutCard, CardIsCurrent, IsKept, Inv, Types, FrameTypes, StateTypes, CardTypes, CoreTypes
<1>5. CASE RestoreCard
  <2>1. ~CardIsCurrent
    BY <1>1, <1>5 DEF RestoreCard, Inv, LoadingInv
  <2>2. CASE Loaded.card # NoCard
    BY <1>3, <1>5, <2>2 DEF RestoreCard, IsState, States
  <2>3. CASE Loaded.card = NoCard
    <3>1. Loaded.last # Loaded.frame
      BY <1>3, <2>3, BoundsAssumption DEF IsState, States, Recent
    <3>2. backup # NoCard /\ backup.data = Loaded.truth.data
      BY <1>3, <2>1, <2>3, <3>1 DEF IsKept, CardIsCurrent
    <3> QED
      BY <1>3, <1>5, <2>3, <3>2 DEF RestoreCard, Inv, Types, FrameTypes, StateTypes, CardTypes, CoreTypes
  <2> QED
    BY <2>2, <2>3
<1> QED
  BY <1>3, <1>4, <1>5

\* A rollback leaves no state, and the frame and the last transfer of the one
\* that it has loaded.
LEMMA LoadInv ==
  ASSUME Inv, LoadWithoutCard \/ RestoreCard
  PROVE  Inv'
<1>1. /\ Replay /\ core' = "run"
      /\ UNCHANGED <<saves, after>>
  BY DEF LoadWithoutCard, RestoreCard
<1>2. IsState(Loaded) /\ card' \in Cards
  BY LoadedIs
<1>3. Loaded.frame \in 1 .. MaxFrames /\ Loaded.last \in 0 .. Loaded.frame /\ Loaded.device \in BOOLEAN
  BY <1>2, BoundsAssumption DEF IsState, States
<1>4. Len(memory_states) \in 0 .. RunaheadFrames /\ <<>> \in Seq({s \in States : IsState(s)}) /\ Len(<<>>) = 0
  BY Elements DEF Inv
<1>5. Types'
  <2>1. FrameTypes' /\ CardTypes'
    BY <1>1, <1>2, <1>3, <1>4 DEF Inv, Types, FrameTypes, CardTypes, Replay
  <2>2. StateTypes' /\ CoreTypes'
    BY <1>1, <1>4, BoundsAssumption DEF Inv, Types, StateTypes, CoreTypes, Replay, saves
  <2> QED
    BY <2>1, <2>2 DEF Types
<1>6. DeviceInv'
  BY <1>1, <1>2 DEF DeviceInv, Replay, IsState
<1>7. memory_states' = <<>> /\ ~Loading'
  BY <1>1 DEF Replay, Loading
<1> QED
  BY <1>5, <1>6, <1>7, Forgotten

\* After a reset the last transfer is still not one of a later frame.
LEMMA ResetInv ==
  ASSUME Inv, Careful, ResetSystem
  PROVE  Inv'
<1>1. last_transfer \in 0 .. 1
  <2>1. IsRecent(1, last_transfer)
    BY DEF Careful, ResetSystem
  <2> SUFFICES ASSUME last_transfer > 1 PROVE FALSE
    BY DEF Inv, Types, FrameTypes, StateTypes, CardTypes, CoreTypes
  <2> DEFINE k == 1 + FrameValues - last_transfer
  <2>2. k \in 0 .. FrameValues - 1 /\ FrameValues \in Nat \ {0} /\ k > RunaheadFrames
    BY BoundsAssumption DEF Inv, Types, FrameTypes, StateTypes, CardTypes, CoreTypes
  <2>3. k % FrameValues = k
    <3> HIDE DEF k
    <3> QED BY <2>2
  <2> QED
    BY <2>1, <2>2, <2>3, BoundsAssumption DEF IsRecent, Since
<1>2. /\ frame_number' = 1 /\ frame_done_due' = FALSE /\ memory_states' = <<>>
      /\ active' = FALSE /\ device' = FALSE
      /\ card' = [card EXCEPT !.state = "Idle"] /\ after' = "run" /\ core' \in {"run", "wait"}
      /\ UNCHANGED <<replay_pending, replay_frames, last_transfer, backup, tasks, writes>>
  BY DEF ResetSystem, SaveIfChanged
<1>3. card' \in Cards
  BY <1>2 DEF Inv, Types, FrameTypes, StateTypes, CardTypes, CoreTypes, Cards
<1>4. <<>> \in Seq({s \in States : IsState(s)}) /\ Len(<<>>) = 0
  OBVIOUS
<1>5. Types'
  <2>1. FrameTypes'
    <3>1. frame_done_due' \in BOOLEAN /\ replay_pending' \in BOOLEAN
      BY <1>2, Zenon DEF Inv, Types, FrameTypes
    <3> QED
      BY <1>1, <1>2, <3>1, BoundsAssumption DEF Inv, Types, FrameTypes
  <2>3. CardTypes'
    BY <1>2, <1>3 DEF Inv, Types, CardTypes
  <2>2. StateTypes' /\ CoreTypes'
    BY <1>2, <1>4, BoundsAssumption DEF Inv, Types, StateTypes, CoreTypes
  <2> QED
    BY <2>1, <2>2, <2>3 DEF Types
<1>6. DeviceInv' /\ ~Loading'
  BY <1>2 DEF DeviceInv, Loading
<1> QED
  BY <1>2, <1>5, <1>6, Forgotten

\* The steps that write the card to its file and wait for that.
LEMMA SavingInv ==
  ASSUME Inv, QueueSave \/ SaveEvent \/ FlushOrClose \/ Closed \/ LoadCard \/ Worker
  PROVE  Inv'
<1>1. CASE QueueSave
  <2>1. UNCHANGED <<frames, pad, after, writes>> /\ core = "wait" /\ core' = after
    BY <1>1 DEF QueueSave
  <2>2. card' \in Cards /\ card'.data = card.data
    BY <1>1 DEF QueueSave, Inv, Types, FrameTypes, StateTypes, CardTypes, CoreTypes, Cards
  <2>3. tasks' \subseteq [data : 0 .. MaxWrites, written : BOOLEAN]
    <3>1. [data |-> card.data, written |-> FALSE] \in [data : 0 .. MaxWrites, written : BOOLEAN]
      BY DEF Inv, Types, CardTypes, Cards
    <3> QED
      BY <1>1, <3>1 DEF QueueSave, Inv, Types, CoreTypes
  <2>4. Types'
    BY <2>1, <2>2, <2>3 DEF Inv, Types, FrameTypes, StateTypes, CardTypes, CoreTypes, frames, pad
  <2>5. Loading' <=> Loading
    BY <2>1 DEF Loading, Inv, Types, FrameTypes, StateTypes, CardTypes, CoreTypes
  <2> QED
    BY <2>1, <2>2, <2>4, <2>5, Quiet DEF frames, pad
<1>2. ASSUME UNCHANGED <<frames, pad, card, tasks, writes>>,
             core' \in {"run", "wait", "restore", "flush", "close", "closed"},
             after' \in {"run", "restore", "flush", "close"},
             Loading' <=> Loading, core = "load" => ~CardIsCurrent
      PROVE  Inv'
  <2>1. Types'
    BY <1>2 DEF Inv, Types, FrameTypes, StateTypes, CardTypes, CoreTypes, frames, pad
  <2> QED
    BY <1>2, <2>1, Quiet DEF frames, pad
<1>3. CASE SaveEvent \/ FlushOrClose \/ LoadCard
  BY <1>2, <1>3 DEF SaveEvent, FlushOrClose, LoadCard, SaveIfChanged, Loading
<1>4. CASE Closed
  BY <1>2, <1>4 DEF Closed, saves, Loading, Inv, Types, FrameTypes, StateTypes, CardTypes, CoreTypes
<1>5. CASE Worker
  <2>1. UNCHANGED <<frames, pad, card, core, after, writes>>
    BY <1>5 DEF Worker, WriteFile, EndTask
  <2>2. tasks' \subseteq [data : 0 .. MaxWrites, written : BOOLEAN]
    <3>1. \A t \in tasks : [t EXCEPT !.written = TRUE] \in [data : 0 .. MaxWrites, written : BOOLEAN]
      BY DEF Inv, Types, CoreTypes
    <3> QED
      BY <1>5, <3>1 DEF Worker, WriteFile, EndTask, Inv, Types, CoreTypes
  <2>3. Types'
    BY <2>1, <2>2 DEF Inv, Types, FrameTypes, StateTypes, CardTypes, CoreTypes, frames, pad
  <2>4. Loading' <=> Loading
    BY <2>1 DEF Loading
  <2> QED
    BY <2>1, <2>3, <2>4, Quiet DEF frames, pad
<1> QED
  BY <1>1, <1>3, <1>4, <1>5

\* Initially there is nothing to load.
LEMMA InitInv == Init => Inv
<1> SUFFICES ASSUME Init PROVE Inv
  OBVIOUS
<1>1. Types
  <2>1. <<>> \in Seq({s \in States : IsState(s)}) /\ Len(<<>>) = 0
    OBVIOUS
  <2>2. FrameTypes
    <3>1. frame_done_due \in BOOLEAN /\ replay_pending \in BOOLEAN
      BY Zenon DEF Init
    <3> QED
      BY <3>1, BoundsAssumption DEF Init, FrameTypes
  <2>4. CardTypes
    <3>1. active \in BOOLEAN /\ device \in BOOLEAN /\ FALSE \in BOOLEAN
      BY Zenon DEF Init
    <3>2. card \in Cards
      BY BoundsAssumption, <3>1 DEF Init, Cards
    <3> QED
      BY <3>1, <3>2, BoundsAssumption DEF Init, CardTypes
  <2>3. StateTypes /\ CoreTypes
    BY <2>1, BoundsAssumption DEF Init, StateTypes, CoreTypes
  <2> QED
    BY <2>2, <2>3, <2>4 DEF Types
<1> QED
  BY <1>1 DEF Init, Inv, FramesInv, DeviceInv, KeptInv, LoadingInv, Loading

\* Every step keeps what loading a state would do to the card.
LEMMA NextInv == Inv /\ Careful /\ [Next]_vars => Inv'
<1> SUFFICES ASSUME Inv, Careful, [Next]_vars PROVE Inv'
  OBVIOUS
<1>1. CASE ResetDeviceTransferState
  <2>1. /\ UNCHANGED <<frames, last_transfer, backup, saves, core, after, writes>>
        /\ card' \in Cards /\ card'.data = card.data /\ ~active' /\ active' \in BOOLEAN
        /\ device' = FALSE /\ core = "run"
    BY <1>1 DEF ResetDeviceTransferState, Inv, Types, FrameTypes, StateTypes, CardTypes, CoreTypes, Cards
  <2>2. Types'
    BY <2>1 DEF Inv, Types, FrameTypes, StateTypes, CardTypes, CoreTypes, frames, saves
  <2>3. Loading' <=> Loading
    BY <2>1 DEF Loading
  <2> QED
    BY <2>1, <2>2, <2>3, Quiet DEF frames
<1>2. CASE UNCHANGED vars
  BY <1>2 DEF vars, frames, pad, saves, Inv, Types, FrameTypes, StateTypes, CardTypes, CoreTypes, FramesInv, DeviceInv, KeptInv, IsKept, LoadingInv,
              Loading, CardIsCurrent, Loaded
<1> QED
  BY <1>1, <1>2, SavingInv, TransferInv, VBlankInv, FrameDoneInv, LoadInv, ResetInv DEF Next, Core

\* The inductive invariant holds in every reachable state.
THEOREM InvAlways == ASSUME Careful PROVE Spec => []Inv
  BY InitInv, NextInv, PTL DEF Spec

\* The variables keep their types; and when a state without the card is loaded
\* the backup has been made: RestoreMemoryCardState's assertion.
THEOREM TypeCorrect == ASSUME Careful PROVE Spec => []TypeOK
<1>1. Inv => TypeOK
  <2> SUFFICES ASSUME Inv PROVE TypeOK
    OBVIOUS
  <2>1. ASSUME core = "restore" PROVE Loaded.card # NoCard \/ backup # NoCard
    <3>1. memory_states # <<>> /\ ~CardIsCurrent
      BY <2>1 DEF Inv, LoadingInv, Loading
    <3>2. IsState(Loaded) /\ IsKept(Loaded)
      BY <3>1, Elements DEF Inv, KeptInv
    <3>3. Loaded.card = NoCard => Loaded.last # Loaded.frame
      BY <3>2, BoundsAssumption DEF IsState, States, Recent
    <3> QED
      BY <3>1, <3>2, <3>3 DEF IsKept, CardIsCurrent
  <2>2. \A i \in DOMAIN memory_states : memory_states[i] \in States
    BY DEF Inv, Types, FrameTypes, StateTypes, CardTypes, CoreTypes
  <2>3. last_transfer \in 0 .. MaxFrames
    BY BoundsAssumption DEF Inv, Types, FrameTypes, StateTypes, CardTypes, CoreTypes
  <2> QED
    BY <2>1, <2>2, <2>3 DEF Inv, Types, FrameTypes, StateTypes, CardTypes, CoreTypes, TypeOK
<1> QED
  BY <1>1, InvAlways, PTL

\* However many frames a rollback goes back, whatever has been written to the
\* card since and wherever the workers are: once an old state has been loaded,
\* the card holds the data it held when the state was saved.
THEOREM RollbackAlwaysRestoresTheData == ASSUME Careful PROVE Spec => RollbackRestoresTheData
<1>1. Inv /\ [Next]_vars => [IsLoading => card'.data = Loaded.truth.data]_vars
  <2> SUFFICES ASSUME Inv, Next, IsLoading PROVE card'.data = Loaded.truth.data
    OBVIOUS
  <2>1. LoadWithoutCard \/ RestoreCard
    BY DEF IsLoading, Next, Core, Worker, QueueSave, SaveEvent, FlushOrClose, Closed, FirstByte, NextBytes,
           CanTransfer, ResetDeviceTransferState, VBlank, FrameDone, LoadCard, SaveIfChanged, ResetSystem,
           WriteFile, EndTask
  <2> QED
    BY <2>1, LoadedIs
<1> QED
  BY <1>1, InvAlways, PTL DEF Spec, RollbackRestoresTheData
=============================================================================
