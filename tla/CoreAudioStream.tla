-------------------------- MODULE CoreAudioStream --------------------------
(***************************************************************************)
(* The game's audio stream, src/util/core_audio_stream.cpp: a ring between *)
(* the core thread, where SPU::Execute writes frames, and the thread of    *)
(* the audio device, which calls ReadFrames when it needs some.  There is  *)
(* no lock: each side owns one position and reads the other's.             *)
(*                                                                         *)
(* A frame is a number.  The stretcher is external: its input is the       *)
(* frames the callback takes; how many frames it wants to keep after a     *)
(* change of speed, and how many it can take at most, depend on its tempo  *)
(* and are chosen from sets.                                               *)
(*                                                                         *)
(* A definition just before the one it varies (SpaceToTheBrim before       *)
(* Space) is that one with a plausible bug: the properties must see it.    *)
(***************************************************************************)
EXTENDS Naturals, Sequences, FiniteSetsExt

CONSTANTS
  BufferSize,       \* m_buffer_size
  Chunk,            \* CHUNK_SIZE
  TargetSize,       \* m_target_buffer_size + m_extra_target_frames
  CallbackSizes,    \* the sizes of the device's callbacks
  RefillSizes,      \* refill_frames: what the stretcher needs to start over
  MaxInputs,        \* max_input_frames: what the stretcher can take
  MaxFrames         \* bound: frames made in a run

\* GetAlignedBufferSize makes the sizes multiples of CHUNK_SIZE.  MaxInputs:
\* max_input_frames is several times a callback.
ASSUME SizesAssumption ==
  /\ Chunk \in Nat \ {0} /\ BufferSize \in Nat /\ BufferSize % Chunk = 0 /\ BufferSize \div Chunk >= 2
  /\ TargetSize \in Nat /\ CallbackSizes \subseteq Nat \ {0}
  /\ RefillSizes \subseteq {n \in Nat : n % Chunk = 0}
  /\ MaxInputs \subseteq {n \in Nat : n >= Chunk - 1}
  /\ MaxFrames \in Nat

VARIABLES
  m_buffer, m_wpos, m_rpos,
  m_filling,                \* of ReadFrames: owned by the audio thread
  m_stretch_reset_request,
  stretching,               \* IsStretchEnabled(): a parameter of the stream
  m_paused,
  m_callback_frames,        \* what the device asks for: the same each time
  made,                     \* frames SPU::Execute has made
  writer,                   \* SPU::Execute: frames of the batch, and those written
  reader,                   \* the callback: what it does next, its rpos and the frames left to read
  heard                     \* the last frame it took

ring == <<m_buffer, m_wpos, m_rpos>>
params == <<stretching, m_paused, m_callback_frames>>
flags == <<m_filling, m_stretch_reset_request>>
vars == <<ring, params, flags, made, writer, reader, heard>>

Ring == 0 .. BufferSize - 1
Forward(pos, n) == (pos + n) % BufferSize
Between(from, to) == (to + BufferSize - from) % BufferSize

Idle == [pc |-> "idle", rpos |-> 0, left |-> 0]
NotWriting == [batch |-> 0, written |-> 0]

Init ==
  /\ m_buffer = [p \in Ring |-> 0] /\ m_wpos = 0 /\ m_rpos = 0
  /\ m_filling = FALSE /\ m_stretch_reset_request = FALSE
  /\ stretching \in BOOLEAN /\ m_paused = FALSE /\ m_callback_frames \in CallbackSizes
  /\ made = 0 /\ heard = 0
  /\ writer = NotWriting /\ reader = Idle

-----------------------------------------------------------------------------
(* The core thread *)

\* BeginWrite: all that is free, up to the end of the buffer, but one frame.
SpaceToTheBrim ==
  LET free == BufferSize - Between(m_rpos, m_wpos)
  IN  Min({BufferSize - m_wpos, free})

Space ==
  LET free == BufferSize - Between(m_rpos, m_wpos)
  IN  Min({BufferSize - m_wpos, free - 1})

\* SPU::Execute has frames to make: as many as it wants of what it is given.
BeginWrite ==
  /\ writer = NotWriting
  /\ ~m_paused
  /\ \E n \in 1 .. Min({Space, MaxFrames - made}) : writer' = [batch |-> n, written |-> 0]
  /\ UNCHANGED <<ring, params, flags, made, reader, heard>>

\* They go to the muted buffer instead: there is no room, the stream is paused,
\* or (any time) its volume is 0 or SPU's audio_output_muted is set.
LoseFrames ==
  /\ writer = NotWriting
  /\ made' \in made + 1 .. MaxFrames
  /\ UNCHANGED <<ring, params, flags, writer, reader, heard>>

WriteFrame ==
  /\ writer.written < writer.batch
  /\ m_buffer' = [m_buffer EXCEPT ![m_wpos + writer.written] = made + writer.written + 1]
  /\ writer' = [writer EXCEPT !.written = @ + 1]
  /\ UNCHANGED <<m_wpos, m_rpos, params, flags, made, reader, heard>>

EndWrite ==
  /\ writer # NotWriting /\ writer.written = writer.batch
  /\ LET wpos == m_wpos + writer.batch
     IN  m_wpos' = IF wpos = BufferSize THEN 0 ELSE wpos
  /\ made' = made + writer.batch
  /\ writer' = NotWriting
  /\ UNCHANGED <<m_buffer, m_rpos, params, flags, reader, heard>>

\* A callback in progress goes on after the device's Stop.
SetPaused ==
  /\ writer = NotWriting
  /\ m_paused' = ~m_paused
  /\ UNCHANGED <<ring, stretching, m_callback_frames, flags, made, writer, reader, heard>>

EmptyStretchBuffers ==
  /\ writer = NotWriting
  /\ stretching
  /\ m_stretch_reset_request' = TRUE
  /\ UNCHANGED <<ring, params, m_filling, made, writer, reader, heard>>

\* SPU::CreateOutputStream: Destroy, whose m_stream.reset() ends the callbacks,
\* then Initialize with new settings.  The null output is paused for good, any
\* other runs until SetPaused.
CreateOutputStream ==
  /\ writer = NotWriting
  /\ reader = Idle
  /\ stretching' \in BOOLEAN /\ m_callback_frames' \in CallbackSizes
  /\ m_wpos' = 0 /\ m_rpos' = 0
  /\ m_filling' = FALSE /\ m_stretch_reset_request' = FALSE
  /\ m_paused' \in BOOLEAN
  /\ UNCHANGED <<m_buffer, made, writer, reader, heard>>

Core ==
  \/ BeginWrite \/ LoseFrames \/ WriteFrame \/ EndWrite
  \/ SetPaused \/ EmptyStretchBuffers \/ CreateOutputStream

-----------------------------------------------------------------------------
(* The audio thread *)

Aligned(n) == ((n + Chunk - 1) \div Chunk) * Chunk
AlignedDown(n) == (n \div Chunk) * Chunk

\* GetTargetSize: two callbacks at least.
Target == Max({TargetSize, m_callback_frames * 2})

\* After an underrun, what has to be there before frames are played again.
ToFillUncapped == Aligned(Max({m_callback_frames, Target \div 2}))

ToFill == Min({Aligned(Max({m_callback_frames, Target \div 2})), BufferSize \div 2})

\* There are frames to read, or the callback is over for the ring.
Copy(rpos, left) ==
  IF left = 0 THEN Idle ELSE [pc |-> "copy", rpos |-> rpos, left |-> left]

\* ReadFrames without stretching.
ReadFrames ==
  /\ reader = Idle /\ ~m_paused /\ ~stretching
  /\ LET available == Between(m_rpos, m_wpos)
         waits == m_filling /\ available < ToFill
     IN  /\ m_filling' = (waits \/ available < m_callback_frames)
         /\ reader' = Copy(m_rpos, IF waits THEN 0 ELSE Min({m_callback_frames, available}))
  /\ UNCHANGED <<ring, params, m_stretch_reset_request, made, writer, heard>>

\* StretchReadFrames takes all input there is.
StretchReadFrames ==
  /\ reader = Idle /\ ~m_paused /\ stretching
  /\ reader' = [pc |-> IF m_stretch_reset_request THEN "restart" ELSE "limit",
                rpos |-> m_rpos, left |-> Between(m_rpos, m_wpos)]
  /\ m_stretch_reset_request' = FALSE
  /\ UNCHANGED <<ring, params, m_filling, made, writer, heard>>

\* A new speed: the input beyond what refills the stretcher is old.
Restart ==
  /\ reader.pc = "restart"
  /\ \E refill \in RefillSizes :
       LET n == IF reader.left >= refill THEN AlignedDown(reader.left - refill) ELSE 0
       IN  /\ m_rpos' = Forward(reader.rpos, n)
           /\ reader' = [pc |-> "limit", rpos |-> m_rpos', left |-> reader.left - n]
  /\ UNCHANGED <<m_buffer, m_wpos, params, flags, made, writer, heard>>

\* The device has fallen behind: there is more input than it can catch up on.
\* What is left is read in whole chunks.
LimitInput ==
  /\ reader.pc = "limit"
  /\ \E max_input \in MaxInputs :
       LET n == IF reader.left > max_input THEN Aligned(reader.left - max_input) ELSE 0
       IN  /\ m_rpos' = Forward(reader.rpos, n)
           /\ reader' = Copy(m_rpos', AlignedDown(reader.left - n))
  /\ UNCHANGED <<m_buffer, m_wpos, params, flags, made, writer, heard>>

ReadFrameAndStore ==
  /\ reader.pc = "copy"
  /\ heard' = m_buffer[reader.rpos]
  /\ reader' = [reader EXCEPT !.rpos = Forward(@, 1), !.left = @ - 1,
                              !.pc = IF reader.left = 1 THEN "store" ELSE "copy"]
  /\ m_rpos' = Forward(m_rpos, IF m_rpos = reader.rpos THEN reader.left ELSE 0)
  /\ UNCHANGED <<m_buffer, m_wpos, params, flags, made, writer>>

\* ReadBufferFrames, a frame at a time.
ReadFrame ==
  /\ reader.pc = "copy"
  /\ heard' = m_buffer[reader.rpos]
  /\ reader' = [reader EXCEPT !.rpos = Forward(@, 1), !.left = @ - 1,
                              !.pc = IF reader.left = 1 THEN "store" ELSE "copy"]
  /\ UNCHANGED <<ring, params, flags, made, writer>>

\* The writer may have the frames back.
StoreRpos ==
  /\ reader.pc = "store"
  /\ m_rpos' = reader.rpos
  /\ reader' = Idle
  /\ UNCHANGED <<m_buffer, m_wpos, params, flags, made, writer, heard>>

Audio ==
  \/ ReadFrames \/ StretchReadFrames \/ Restart \/ LimitInput \/ ReadFrame \/ StoreRpos

Next == Core \/ Audio

\* The device calls back as long as the stream is not paused.
Spec == Init /\ [][Next]_vars /\ WF_vars(Audio)

-----------------------------------------------------------------------------
Holds(from, n) == {Forward(from, i) : i \in 0 .. n - 1}

\* The two threads never touch the same part of the buffer: what BeginWrite
\* hands out is neither among the frames the callback still reads nor among
\* those that wait for it, and does not pass the end of the buffer
\* (EndWrite's DebugAssert).
NoFrameIsShared ==
  LET given == Holds(m_wpos, writer.batch)
  IN  /\ m_wpos + writer.batch <= BufferSize
      /\ given \cap Holds(m_rpos, Between(m_rpos, m_wpos)) = {}
      /\ given \cap Holds(reader.rpos, reader.left) = {}

\* Where the callback is: m_rpos still has the position it started from.
Position == IF reader = Idle THEN m_rpos ELSE reader.rpos

Promise == INSTANCE AudioQueue WITH
  queue <- [i \in 1 .. Between(Position, m_wpos) |-> m_buffer[Forward(Position, i - 1)]]

\* Whatever the callback discards, and however the positions wrap around, the
\* device gets the frames in order, none of them twice, none half written and
\* none from before the stream was created anew.
ImplementsAudioQueue == Promise!Spec

\* SPU::Execute never waits for room, it drops: a ring that stayed full would
\* be silence for ever.  A full ring is drained unless the stream is paused,
\* also when the callback is still waiting for it to fill after an underrun.
FullRingIsDrained ==
  (Between(m_rpos, m_wpos) = BufferSize - 1) ~> (Between(m_rpos, m_wpos) < BufferSize - 1 \/ m_paused)
=============================================================================
