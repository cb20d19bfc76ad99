----------------------------- MODULE FrameQueue -----------------------------
(***************************************************************************)
(* The limit on frames in flight, src/core/gpu_backend.cpp: the core       *)
(* thread counts a frame before it pushes it to the video thread and waits *)
(* for one to be presented when there are too many; the video thread       *)
(* counts it down and posts a semaphore, through a four-state word that    *)
(* keeps the posts and the waits in step.                                  *)
(*                                                                         *)
(* The command queue in between is the one VideoThread.tla implements: a   *)
(* number of pushed frames, executed in order.  Without the video thread   *)
(* the core thread takes the "video" steps itself, inside its push.        *)
(*                                                                         *)
(* A definition just before the one it varies (BeginUncounted before       *)
(* BeginQueueFrame) is that one with a plausible bug: the properties must  *)
(* see it.                                                                 *)
(***************************************************************************)
EXTENDS Naturals

CONSTANT Limits  \* the values of the setting gpu_max_queued_frames

ASSUME LimitsAssumption == Limits \subseteq Nat

VARIABLES
  queued_frames, wait_state,
  video_thread_wait,        \* the semaphore's count
  gpu_max_queued_frames,    \* g_settings, owned by the core thread
  use_thread,               \* VideoThread's use_thread
  pending,                  \* submitted frames in the command queue
  core, video               \* what each thread does next

shared == <<queued_frames, wait_state, video_thread_wait>>
settings == <<gpu_max_queued_frames, use_thread>>
vars == <<shared, settings, pending, core, video>>

WaitStates == {"NONE", "CORE_THREAD_WAITING", "VIDEO_THREAD_SIGNALING", "VIDEO_THREAD_POSTED"}

Init ==
  /\ queued_frames = 0 /\ wait_state = "NONE" /\ video_thread_wait = 0
  /\ gpu_max_queued_frames \in Limits /\ use_thread \in BOOLEAN
  /\ pending = 0 /\ core = "idle" /\ video = "idle"

\* The compare-exchange of wait_state succeeds or leaves it alone.
Exchange(expected, desired) ==
  wait_state' = IF wait_state = expected THEN desired ELSE wait_state

-----------------------------------------------------------------------------
(* The core thread: UpdateDisplay and QueuePresentCurrentFrame. *)

BeginUncounted ==
  /\ core = "idle"
  /\ queued_frames' = IF queued_frames < gpu_max_queued_frames THEN queued_frames ELSE queued_frames + 1
  /\ core' = IF queued_frames < gpu_max_queued_frames THEN "push" ELSE "store_waiting"
  /\ UNCHANGED <<wait_state, video_thread_wait, settings, pending, video>>

BeginQueueFrame ==
  /\ core = "idle"
  /\ queued_frames' = queued_frames + 1
  /\ core' = IF queued_frames' <= gpu_max_queued_frames THEN "push" ELSE "store_waiting"
  /\ UNCHANGED <<wait_state, video_thread_wait, settings, pending, video>>

StoreWaiting ==
  /\ core = "store_waiting"
  /\ wait_state' = "CORE_THREAD_WAITING"
  /\ core' = "push_and_drain"
  /\ UNCHANGED <<queued_frames, video_thread_wait, settings, pending, video>>

\* PushCommandAndWakeThread(cmd): with the thread it returns at once.
PushFrame ==
  /\ \/ core = "push" /\ core' = IF use_thread THEN "idle" ELSE "direct"
     \/ core = "push_and_drain" /\ core' = IF use_thread THEN "check" ELSE "direct_and_drain"
  /\ pending' = pending + 1
  /\ UNCHANGED <<shared, settings, video>>

Drained == pending = 0 /\ video = "idle"

PushReturns ==
  /\ \/ core = "direct" /\ core' = "idle"
     \/ core = "direct_and_drain" /\ core' = "check"
  /\ Drained
  /\ UNCHANGED <<shared, settings, pending, video>>

\* WaitForOneQueuedFrame: one may have been presented already.
CheckQueued ==
  /\ core = "check"
  /\ core' = IF queued_frames <= gpu_max_queued_frames THEN "clear_waiting" ELSE "wait"
  /\ UNCHANGED <<shared, settings, pending, video>>

ClearWaitingAndWait ==
  /\ core = "clear_waiting"
  /\ Exchange("CORE_THREAD_WAITING", "NONE")
  /\ core' = "wait"
  /\ UNCHANGED <<queued_frames, video_thread_wait, settings, pending, video>>

\* If the video thread has begun to signal, the semaphore has to be drained.
ClearWaiting ==
  /\ core = "clear_waiting"
  /\ Exchange("CORE_THREAD_WAITING", "NONE")
  /\ core' = IF wait_state = "CORE_THREAD_WAITING" THEN "idle" ELSE "wait"
  /\ UNCHANGED <<queued_frames, video_thread_wait, settings, pending, video>>

Wait ==
  /\ core = "wait"
  /\ video_thread_wait > 0
  /\ video_thread_wait' = video_thread_wait - 1
  /\ core' = "woken"
  /\ UNCHANGED <<queued_frames, wait_state, settings, pending, video>>

StoreNone ==
  /\ core = "woken"
  /\ wait_state' = "NONE"
  /\ core' = "sanity_check"
  /\ UNCHANGED <<queued_frames, video_thread_wait, settings, pending, video>>

SanityCheck ==
  /\ core = "sanity_check"
  /\ core' = "idle"
  /\ UNCHANGED <<shared, settings, pending, video>>

\* New settings are stored first; the queue is drained if the limit changed.
ChangeLimit ==
  /\ core = "idle"
  /\ gpu_max_queued_frames' \in Limits \ {gpu_max_queued_frames}
  /\ core' = IF use_thread THEN "sync" ELSE "idle"
  /\ UNCHANGED <<shared, use_thread, pending, video>>

SyncReturnsEarly ==
  /\ core = "sync"
  /\ core' = "idle"
  /\ UNCHANGED <<shared, settings, pending, video>>

SyncReturns ==
  /\ core = "sync"
  /\ Drained
  /\ core' = "idle"
  /\ UNCHANGED <<shared, settings, pending, video>>

\* SetThreadEnabled: the switch waits for the video thread on the way.
SwitchThread ==
  /\ core = "idle"
  /\ Drained
  /\ use_thread' = ~use_thread
  /\ UNCHANGED <<shared, gpu_max_queued_frames, pending, core, video>>

-----------------------------------------------------------------------------
(* The video thread: HandleSubmitFrameCommand, then ReleaseQueuedFrame. *)

HandleSubmitFrameUnreleased ==
  /\ video = "idle"
  /\ pending > 0
  /\ pending' = pending - 1
  /\ video' \in {"idle", "present"}
  /\ UNCHANGED <<shared, settings, core>>

HandleSubmitFrame ==
  /\ video = "idle"
  /\ pending > 0
  /\ pending' = pending - 1
  /\ video' = "present"
  /\ UNCHANGED <<shared, settings, core>>

ReleaseQueuedFrame ==
  /\ video = "present"
  /\ queued_frames' = queued_frames - 1
  /\ video' = "signal"
  /\ UNCHANGED <<wait_state, video_thread_wait, settings, pending, core>>

SignalAgain ==
  /\ video = "signal"
  /\ video' = IF wait_state = "CORE_THREAD_WAITING" THEN "post" ELSE "idle"
  /\ UNCHANGED <<shared, settings, pending, core>>

Signal ==
  /\ video = "signal"
  /\ Exchange("CORE_THREAD_WAITING", "VIDEO_THREAD_SIGNALING")
  /\ video' = IF wait_state = "CORE_THREAD_WAITING" THEN "post" ELSE "idle"
  /\ UNCHANGED <<queued_frames, video_thread_wait, settings, pending, core>>

Post ==
  /\ video = "post"
  /\ video_thread_wait' = video_thread_wait + 1
  /\ video' = "posted"
  /\ UNCHANGED <<queued_frames, wait_state, settings, pending, core>>

MarkPostedAnyway ==
  /\ video = "posted"
  /\ wait_state' = "VIDEO_THREAD_POSTED"
  /\ video' = "idle"
  /\ UNCHANGED <<queued_frames, video_thread_wait, settings, pending, core>>

\* The core thread can have cleared the word before this.
MarkPosted ==
  /\ video = "posted"
  /\ Exchange("VIDEO_THREAD_SIGNALING", "VIDEO_THREAD_POSTED")
  /\ video' = "idle"
  /\ UNCHANGED <<queued_frames, video_thread_wait, settings, pending, core>>

-----------------------------------------------------------------------------
CoreSteps ==
  \/ StoreWaiting \/ PushFrame \/ PushReturns \/ CheckQueued \/ ClearWaiting
  \/ Wait \/ StoreNone \/ SanityCheck \/ SyncReturns

VideoSteps == HandleSubmitFrame \/ ReleaseQueuedFrame \/ Signal \/ Post \/ MarkPosted

Next == BeginQueueFrame \/ ChangeLimit \/ SwitchThread \/ CoreSteps \/ VideoSteps

Spec == Init /\ [][Next]_vars

\* Two threads of the operating system; nothing forces the game to draw.
FairSpec == Spec /\ WF_vars(CoreSteps) /\ WF_vars(VideoSteps)

-----------------------------------------------------------------------------
(* Properties. *)

TypeOK ==
  /\ queued_frames \in Nat
  /\ wait_state \in WaitStates
  /\ video_thread_wait \in Nat
  /\ gpu_max_queued_frames \in Limits
  /\ use_thread \in BOOLEAN
  /\ pending \in Nat
  /\ core \in {"idle", "push", "store_waiting", "push_and_drain", "direct", "direct_and_drain",
               "check", "clear_waiting", "wait", "woken", "sanity_check", "sync"}
  /\ video \in {"idle", "present", "signal", "post", "posted"}

\* The frames between BeginQueueFrame's count and the video thread's are the
\* frame being pushed, those in the command queue and the one on screen; when
\* the queue is drained none is left, which DestroyGPUPresenterOnThread asserts.
FramesAreCounted ==
  queued_frames = pending
                  + (IF core \in {"push", "store_waiting", "push_and_drain"} THEN 1 ELSE 0)
                  + (IF video = "present" THEN 1 ELSE 0)

\* The core thread goes on with at most one frame more in flight than the
\* limit.  The one more is real: a release that has counted down, but has not
\* yet looked for a waiting core thread, wakes it for a frame it had counted
\* before.  The excess does not add up over frames.
QueueIsBounded ==
  core \in {"idle", "woken", "sanity_check"} => queued_frames <= gpu_max_queued_frames + 1

\* WaitForOneQueuedFrame's sanity check: "queued frames should be in range now."
WaitBringsIntoRange ==
  core = "sanity_check" => queued_frames <= gpu_max_queued_frames

\* Posts and waits are paired.  The semaphore is never posted twice, and when
\* the core thread leaves the protocol nothing is left in it for a later wait.
PostsArePaired ==
  /\ video_thread_wait <= 1
  /\ core \notin {"push_and_drain", "direct_and_drain", "check", "clear_waiting", "wait"} =>
       /\ video_thread_wait = 0
       /\ video # "post"

\* A core thread that blocks on the semaphore will be released: it has been
\* posted, will be by the step the video thread is in, or frames are left to
\* be presented and the first one will see the core thread waiting.
WaitIsAnswered ==
  core = "wait" =>
    \/ video_thread_wait > 0
    \/ video = "post"
    \/ wait_state = "CORE_THREAD_WAITING" /\ (pending > 0 \/ video \in {"present", "signal"})

\* Queueing a frame always ends, and so does a change of the settings.
FramesReturn == core # "idle" ~> core = "idle"
=============================================================================
