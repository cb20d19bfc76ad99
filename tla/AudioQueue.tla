----------------------------- MODULE AudioQueue -----------------------------
(***************************************************************************)
(* What the game's audio stream promises to the audio device: it plays     *)
(* frames in the order they were made, each at most once.  Frames may be   *)
(* lost as they are made (the stream is full, muted or paused) or later    *)
(* (the device has fallen behind, the stream is created anew).             *)
(***************************************************************************)
EXTENDS Naturals, Sequences

VARIABLES
  queue,  \* the frames that may still be played, oldest first
  made,   \* frames made so far: they are numbered from 1
  heard   \* the last frame the device took, 0 before the first

vars == <<queue, made, heard>>

Init == queue = <<>> /\ made = 0 /\ heard = 0

Put ==
  /\ made' > made
  /\ queue' = queue \o [i \in 1 .. made' - made |-> made + i]
  /\ UNCHANGED heard

Lose ==
  /\ made' > made
  /\ UNCHANGED <<queue, heard>>

Take ==
  /\ queue # <<>>
  /\ heard' = Head(queue)
  /\ queue' = Tail(queue)
  /\ UNCHANGED made

Drop ==
  /\ \E n \in 1..Len(queue) : queue' = SubSeq(queue, n + 1, Len(queue))
  /\ UNCHANGED <<made, heard>>

Next == Put \/ Lose \/ Take \/ Drop

Spec == Init /\ [][Next]_vars
=============================================================================
