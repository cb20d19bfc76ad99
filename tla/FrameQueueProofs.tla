-------------------------- MODULE FrameQueueProofs --------------------------
(***************************************************************************)
(* The frame limit's invariants hold for every set of limits.  The         *)
(* inductive invariant adds, to what the properties say, where the         *)
(* four-state word, the semaphore and the video thread can be in each      *)
(* phase of the core thread, and how the count relates to the limit while  *)
(* a release is between its decrement and its look at the word.            *)
(***************************************************************************)
EXTENDS FrameQueue, TLAPS

\* The core thread is inside the protocol: the word says that it waits, or
\* that the video thread has seen so.
InWait == core \in {"push_and_drain", "direct_and_drain", "check", "clear_waiting", "wait"}

\* Where the word, the semaphore and the video thread are.
Handshake ==
  /\ ~InWait => video_thread_wait = 0 /\ video # "post"
  /\ ~InWait /\ core # "woken" => wait_state = "NONE"
  /\ core = "woken" => wait_state \in {"VIDEO_THREAD_SIGNALING", "VIDEO_THREAD_POSTED"}
  /\ InWait =>
       \/ wait_state = "CORE_THREAD_WAITING" /\ video_thread_wait = 0 /\ video # "post"
       \/ wait_state = "VIDEO_THREAD_SIGNALING" /\ video_thread_wait = 0 /\ video = "post"
       \/ wait_state = "VIDEO_THREAD_SIGNALING" /\ video_thread_wait = 1 /\ video = "posted"
       \/ wait_state = "VIDEO_THREAD_POSTED" /\ video_thread_wait = 1 /\ video # "post"
  /\ wait_state = "VIDEO_THREAD_SIGNALING" => video \in {"post", "posted"}

\* The frames over the limit: one, not counting a frame being begun, and none
\* once a release has counted down and not yet looked at the word.
Excess ==
  /\ core \in {"idle", "woken", "sanity_check"} =>
       /\ queued_frames <= gpu_max_queued_frames + 1
       /\ video = "signal" => queued_frames <= gpu_max_queued_frames
  /\ core \in {"push", "direct", "clear_waiting"} => queued_frames <= gpu_max_queued_frames
  /\ core = "store_waiting" \/ InWait =>
       /\ queued_frames <= gpu_max_queued_frames + 2
       /\ video = "signal" => queued_frames <= gpu_max_queued_frames + 1
  /\ InWait /\ wait_state # "CORE_THREAD_WAITING" =>
       /\ queued_frames <= gpu_max_queued_frames + 1
       /\ video = "signal" => queued_frames <= gpu_max_queued_frames

\* A core thread that waits unseen still has a frame coming.
FrameToCome ==
  core = "wait" /\ wait_state = "CORE_THREAD_WAITING" /\ video # "signal" => queued_frames > 0

\* Without the thread, frames are presented inside the push.
DirectIsDrained == ~use_thread /\ core \notin {"direct", "direct_and_drain"} => Drained

ThreadOnly ==
  /\ core \in {"direct", "direct_and_drain"} => ~use_thread
  /\ core = "sync" => use_thread

Inv == TypeOK /\ FramesAreCounted /\ Handshake /\ Excess /\ FrameToCome /\ DirectIsDrained /\ ThreadOnly

-----------------------------------------------------------------------------
\* Initially nothing is queued and nobody waits.
LEMMA InitInv == Init => Inv
  BY LimitsAssumption
  DEF Init, Inv, TypeOK, WaitStates, FramesAreCounted, Handshake, InWait, Excess, FrameToCome,
      DirectIsDrained, Drained, ThreadOnly

\* A change of the limit: without the thread nothing is in flight, with it
\* the core thread drains the queue before it goes on.
LEMMA ChangeLimitInv == Inv /\ ChangeLimit => Inv'
<1> SUFFICES ASSUME Inv, ChangeLimit PROVE Inv'
  OBVIOUS
<1>1. core = "idle" /\ UNCHANGED <<shared, use_thread, pending, video>>
  BY DEF ChangeLimit
<1>2. gpu_max_queued_frames' \in Limits
  BY DEF ChangeLimit
<1>3. \/ use_thread /\ core' = "sync"
      \/ ~use_thread /\ core' = "idle"
  BY DEF ChangeLimit
<1>4. core' \in {"idle", "sync"} /\ ~InWait /\ ~InWait'
  BY <1>1, <1>3 DEF InWait
<1>5. TypeOK'
  BY <1>1, <1>2, <1>4 DEF Inv, TypeOK, shared
<1>6. FramesAreCounted' /\ Handshake'
  BY <1>1, <1>4 DEF Inv, FramesAreCounted, Handshake, shared
<1>7. core' = "idle" => queued_frames' = 0
  <2> SUFFICES ASSUME core' = "idle" PROVE queued_frames' = 0
    OBVIOUS
  <2>1. Drained
    BY <1>1, <1>3 DEF Inv, DirectIsDrained
  <2>2. queued_frames = 0
    BY <1>1, <2>1 DEF Inv, TypeOK, FramesAreCounted, Drained
  <2> QED
    BY <1>1, <2>2 DEF shared
<1>8. gpu_max_queued_frames' \in Nat
  BY <1>2, LimitsAssumption
<1>9. Excess'
  BY <1>4, <1>7, <1>8 DEF Excess
<1>10. FrameToCome'
  BY <1>4 DEF FrameToCome
<1>11. DirectIsDrained' /\ ThreadOnly'
  BY <1>1, <1>3 DEF Inv, DirectIsDrained, Drained, ThreadOnly
<1> QED
  BY <1>5, <1>6, <1>9, <1>10, <1>11 DEF Inv

\* Every step of either thread preserves the invariant.
LEMMA NextInv == Inv /\ [Next]_vars => Inv'
<1> SUFFICES ASSUME Inv, [Next]_vars PROVE Inv'
  OBVIOUS
<1> USE LimitsAssumption
    DEF Inv, TypeOK, WaitStates, FramesAreCounted, Handshake, InWait, Excess, FrameToCome,
        DirectIsDrained, Drained, ThreadOnly, vars, shared, settings
<1>1. CASE BeginQueueFrame
  BY <1>1 DEF BeginQueueFrame
<1>2. CASE StoreWaiting
  BY <1>2 DEF StoreWaiting
<1>3. CASE PushFrame
  BY <1>3 DEF PushFrame
<1>4. CASE PushReturns
  BY <1>4 DEF PushReturns
<1>5. CASE CheckQueued
  BY <1>5 DEF CheckQueued
<1>6. CASE ClearWaiting
  BY <1>6 DEF ClearWaiting, Exchange
<1>7. CASE Wait
  BY <1>7 DEF Wait
<1>8. CASE StoreNone
  BY <1>8 DEF StoreNone
<1>9. CASE SanityCheck
  BY <1>9 DEF SanityCheck
<1>10. CASE ChangeLimit
  BY <1>10, ChangeLimitInv
<1>11. CASE SyncReturns
  BY <1>11 DEF SyncReturns
<1>12. CASE SwitchThread
  BY <1>12 DEF SwitchThread
<1>13. CASE HandleSubmitFrame
  BY <1>13 DEF HandleSubmitFrame
<1>14. CASE ReleaseQueuedFrame
  BY <1>14 DEF ReleaseQueuedFrame
<1>15. CASE Signal
  BY <1>15 DEF Signal, Exchange
<1>16. CASE Post
  BY <1>16 DEF Post
<1>17. CASE MarkPosted
  BY <1>17 DEF MarkPosted, Exchange
<1>18. CASE UNCHANGED vars
  BY <1>18
<1> QED
  BY <1>1, <1>2, <1>3, <1>4, <1>5, <1>6, <1>7, <1>8, <1>9, <1>10, <1>11, <1>12, <1>13, <1>14, <1>15, <1>16, <1>17, <1>18 DEF Next, CoreSteps, VideoSteps

-----------------------------------------------------------------------------
\* The inductive invariant holds in every reachable state.
THEOREM Invariance == Spec => []Inv
<1>1. Init => Inv
  BY InitInv
<1>2. Inv /\ [Next]_vars => Inv'
  BY NextInv
<1> QED
  BY <1>1, <1>2, PTL DEF Spec

\* The variables keep their types for every set of limits; in particular
\* queued_frames, an unsigned word in the code, never goes below zero.
THEOREM TypeCorrect == Spec => []TypeOK
<1>1. Inv => TypeOK
  BY DEF Inv
<1> QED
  BY <1>1, Invariance, PTL

\* The core thread never goes on with more than one frame over the limit.
THEOREM Bounded == Spec => []QueueIsBounded
<1>1. Inv => QueueIsBounded
  BY DEF Inv, Excess, QueueIsBounded
<1> QED
  BY <1>1, Invariance, PTL

\* The semaphore is never posted twice and never left posted for a later wait.
THEOREM Paired == Spec => []PostsArePaired
<1>1. Inv => PostsArePaired
  BY DEF Inv, TypeOK, Handshake, InWait, PostsArePaired
<1> QED
  BY <1>1, Invariance, PTL

\* A core thread that blocks on the semaphore has a post made or to come.
THEOREM Answered == Spec => []WaitIsAnswered
<1>1. Inv => WaitIsAnswered
  BY DEF Inv, TypeOK, FramesAreCounted, Handshake, InWait, FrameToCome, WaitIsAnswered
<1> QED
  BY <1>1, Invariance, PTL

\* Every queued frame is accounted for, in the ring, on screen or in a push.
THEOREM Counted == Spec => []FramesAreCounted
<1>1. Inv => FramesAreCounted
  BY DEF Inv
<1> QED
  BY <1>1, Invariance, PTL
=============================================================================
