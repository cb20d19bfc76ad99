----------------------- MODULE CoreAudioStreamProofs -----------------------
(***************************************************************************)
(* The game's audio stream, for every buffer, callback and chunk size: the *)
(* two threads never touch the same frames, and the device hears the       *)
(* frames in order, each at most once (AudioQueue).                        *)
(*                                                                         *)
(* The inductive invariant measures everything from m_rpos: what the       *)
(* callback has still to read is among the frames available, and the batch *)
(* being written follows them, without closing the ring.                   *)
(***************************************************************************)
EXTENDS CoreAudioStream, TLAPS, SequenceTheorems

Types ==
  /\ m_buffer \in [Ring -> Nat]
  /\ m_wpos \in Ring /\ m_rpos \in Ring
  /\ m_callback_frames \in Nat \ {0}
  /\ made \in Nat
  /\ writer \in [batch : Nat, written : Nat]
  /\ reader \in [pc : {"idle", "restart", "limit", "copy", "store"}, rpos : Ring, left : Nat]

Available == Between(m_rpos, m_wpos)

\* The batch fits, before the end of the buffer and before the frames that are
\* available, and what has been written of it has its numbers.
WriterInv ==
  /\ writer.written <= writer.batch
  /\ m_wpos + writer.batch <= BufferSize
  /\ Available + writer.batch < BufferSize
  /\ \A i \in 0 .. writer.written - 1 : m_buffer[m_wpos + i] = made + i + 1

\* The callback reads frames that are available.
ReaderInv ==
  /\ reader.pc = "idle" => reader = Idle
  /\ reader.pc \in {"restart", "limit"} => reader.rpos = m_rpos /\ reader.left <= Available
  /\ reader.pc \in {"copy", "store"} => Between(m_rpos, reader.rpos) + reader.left <= Available
  /\ reader.pc = "copy" => reader.left > 0
  /\ reader.pc = "store" => reader.left = 0

Inv == Types /\ WriterInv /\ ReaderInv

-----------------------------------------------------------------------------
(* Facts about the operators. *)

\* The buffer is not empty.
LEMMA SizeIsPositive == BufferSize \in Nat \ {0}
<1>1. BufferSize \in Nat /\ Chunk \in Nat \ {0} /\ BufferSize \div Chunk >= 2
  BY SizesAssumption
<1> QED
  BY <1>1

\* The smaller and the larger of two numbers.
LEMMA MinMax ==
  ASSUME NEW a \in Int, NEW b \in Int
  PROVE  /\ Min({a, b}) = IF a <= b THEN a ELSE b
         /\ Max({a, b}) = IF a >= b THEN a ELSE b
  BY DEF Min, Max

\* A position goes around at most once.
LEMMA ForwardIs ==
  ASSUME NEW p \in Ring, NEW n \in 0 .. BufferSize
  PROVE  /\ Forward(p, n) = IF p + n < BufferSize THEN p + n ELSE p + n - BufferSize
         /\ Forward(p, n) \in Ring
<1> DEFINE S == BufferSize
           k == p + n
<1>1. S \in Nat \ {0} /\ p \in 0 .. S - 1 /\ n \in 0 .. S
  BY SizeIsPositive DEF Ring
<1>2. k \in 0 .. 2 * S - 1
  BY <1>1
<1> HIDE DEF k
<1>3. k < S => k % S = k
  BY <1>1, <1>2
<1>4. k >= S => k % S = k - S
  BY <1>1, <1>2
<1> QED
  BY <1>1, <1>2, <1>3, <1>4 DEF Forward, Ring, k

\* How far it is from one position to another.
LEMMA BetweenIs ==
  ASSUME NEW from \in Ring, NEW to \in Ring
  PROVE  /\ Between(from, to) = IF to >= from THEN to - from ELSE to + BufferSize - from
         /\ Between(from, to) \in 0 .. BufferSize - 1
<1> DEFINE S == BufferSize
           k == to + S - from
<1>1. S \in Nat \ {0} /\ from \in 0 .. S - 1 /\ to \in 0 .. S - 1
  BY SizeIsPositive DEF Ring
<1>2. k \in 1 .. 2 * S - 1
  BY <1>1
<1>5. k < S <=> to < from
  BY <1>1
<1> HIDE DEF k
<1>3. k < S => k % S = k
  BY <1>1, <1>2
<1>4. k >= S => k % S = k - S
  BY <1>1, <1>2
<1>6. Between(from, to) = k % S
  BY DEF Between, k
<1> QED
  BY <1>1, <1>2, <1>3, <1>4, <1>5, <1>6 DEF k

\* Going forward and measuring agree.
LEMMA BetweenForward ==
  ASSUME NEW p \in Ring, NEW q \in Ring, NEW n \in 0 .. BufferSize - 1
  PROVE  /\ Between(p, Forward(p, n)) = n
         /\ n <= Between(p, q) => Between(Forward(p, n), q) = Between(p, q) - n
         /\ n < BufferSize - Between(q, p) => Between(q, Forward(p, n)) = Between(q, p) + n
<1>1. BufferSize \in Nat \ {0} /\ p \in 0 .. BufferSize - 1 /\ q \in 0 .. BufferSize - 1
  BY SizeIsPositive DEF Ring
<1>2. /\ Forward(p, n) = IF p + n < BufferSize THEN p + n ELSE p + n - BufferSize
      /\ Forward(p, n) \in Ring
  BY <1>1, ForwardIs
<1>3. \A from, to \in Ring :
        Between(from, to) = IF to >= from THEN to - from ELSE to + BufferSize - from
  BY BetweenIs
<1> QED
  BY <1>1, <1>2, <1>3

\* Rounding to whole chunks: down, and up by less than a chunk.
LEMMA AlignedIs ==
  ASSUME NEW n \in Nat
  PROVE  /\ AlignedDown(n) \in 0 .. n
         /\ Aligned(n) \in n .. n + Chunk - 1
<1>1. Chunk \in Nat \ {0}
  BY SizesAssumption
<1>2. ASSUME NEW k \in Nat PROVE (k \div Chunk) * Chunk = k - (k % Chunk) /\ k % Chunk \in 0 .. Chunk - 1
  BY <1>1
<1>3. AlignedDown(n) = n - (n % Chunk) /\ n % Chunk \in 0 .. Chunk - 1
  BY <1>2 DEF AlignedDown
<1> DEFINE k == n + Chunk - 1
<1>4. k \in Nat /\ Aligned(n) = k - (k % Chunk) /\ k % Chunk \in 0 .. Chunk - 1
  BY <1>1, <1>2 DEF Aligned
<1>5. n % Chunk <= n
  BY <1>1
<1> QED
  BY <1>1, <1>3, <1>4, <1>5

-----------------------------------------------------------------------------
(* The invariant. *)

\* It holds at first.
LEMMA InvInit == Init => Inv
<1> SUFFICES ASSUME Init PROVE Inv
  OBVIOUS
<1>1. BufferSize \in Nat \ {0} /\ CallbackSizes \subseteq Nat \ {0}
  BY SizeIsPositive, SizesAssumption
<1>2. Types
  BY <1>1 DEF Init, Types, Ring, Idle, NotWriting
<1>3. Available = 0
  BY <1>1, BetweenIs DEF Init, Available, Ring
<1> QED
  BY <1>1, <1>2, <1>3 DEF Init, Inv, WriterInv, ReaderInv, Idle, NotWriting

\* What everything is measured in.
LEMMA Numbers ==
  ASSUME Types
  PROVE  /\ BufferSize \in Nat \ {0} /\ Available \in 0 .. BufferSize - 1
         /\ m_wpos \in 0 .. BufferSize - 1 /\ m_rpos \in 0 .. BufferSize - 1
         /\ reader.rpos \in 0 .. BufferSize - 1 /\ reader.rpos \in Ring
         /\ reader.left \in Nat /\ writer.batch \in Nat /\ writer.written \in Nat
         /\ Between(m_rpos, reader.rpos) \in 0 .. BufferSize - 1
  BY SizeIsPositive, BetweenIs DEF Types, Available, Ring

\* SPU::Execute begins with what BeginWrite gives it.
LEMMA BeginWriteKeeps == ASSUME Inv, BeginWrite PROVE Inv'
<1>1. PICK n \in 1 .. Min({Space, MaxFrames - made}) : writer' = [batch |-> n, written |-> 0]
  BY DEF BeginWrite
<1>2. UNCHANGED <<m_buffer, m_wpos, m_rpos, m_callback_frames, made, reader>>
  BY DEF BeginWrite, ring, params
<1>3. /\ BufferSize \in Nat \ {0} /\ Available \in 0 .. BufferSize - 1
      /\ m_wpos \in 0 .. BufferSize - 1 /\ made \in Nat /\ MaxFrames \in Nat
  BY Numbers, SizesAssumption DEF Inv, Types
<1>4. Space = IF BufferSize - m_wpos <= BufferSize - Available - 1
                THEN BufferSize - m_wpos ELSE BufferSize - Available - 1
  BY <1>3, MinMax DEF Space, Available
<1>5. Min({Space, MaxFrames - made}) <= Space /\ Min({Space, MaxFrames - made}) \in Int
  BY <1>3, <1>4, MinMax
<1>6. n \in Nat /\ m_wpos + n <= BufferSize /\ Available + n < BufferSize
  BY <1>3, <1>4, <1>5
<1>7. Available' = Available
  BY <1>2 DEF Available
<1> QED
  BY <1>1, <1>2, <1>6, <1>7 DEF Inv, Types, WriterInv, ReaderInv

\* A frame is written where the batch is.
LEMMA WriteFrameKeeps == ASSUME Inv, WriteFrame PROVE Inv'
<1>1. /\ UNCHANGED <<m_wpos, m_rpos, m_callback_frames, made, reader>>
      /\ writer.written < writer.batch
      /\ m_buffer' = [m_buffer EXCEPT ![m_wpos + writer.written] = made + writer.written + 1]
      /\ writer' = [writer EXCEPT !.written = @ + 1]
  BY DEF WriteFrame, params
<1>2. /\ BufferSize \in Nat \ {0} /\ m_wpos \in 0 .. BufferSize - 1
      /\ made \in Nat /\ writer.batch \in Nat /\ writer.written \in Nat
  BY Numbers DEF Inv, Types
<1>3. m_wpos + writer.written \in Ring
  BY <1>1, <1>2 DEF Inv, WriterInv, Ring
<1>4. writer' = [batch |-> writer.batch, written |-> writer.written + 1]
  BY <1>1 DEF Inv, Types
<1>5. Types'
  BY <1>1, <1>2, <1>3, <1>4 DEF Inv, Types
<1>6. Available' = Available
  BY <1>1 DEF Available
<1>7. ASSUME NEW i \in 0 .. writer'.written - 1 PROVE m_buffer'[m_wpos + i] = made + i + 1
  <2>1. i \in 0 .. writer.written
    BY <1>2, <1>4, <1>7
  <2>2. CASE i = writer.written
    BY <1>1, <1>3, <2>2 DEF Inv, Types
  <2>3. CASE i # writer.written
    <3>1. i \in 0 .. writer.written - 1 /\ m_wpos + i \in Ring /\ m_wpos + i # m_wpos + writer.written
      BY <1>1, <1>2, <1>3, <2>1, <2>3 DEF Ring
    <3> QED
      BY <1>1, <3>1 DEF Inv, Types, WriterInv
  <2> QED
    BY <2>2, <2>3
<1>8. WriterInv'
  BY <1>1, <1>2, <1>4, <1>6, <1>7 DEF Inv, WriterInv
<1>9. ReaderInv'
  BY <1>1, <1>6 DEF Inv, ReaderInv
<1> QED
  BY <1>5, <1>8, <1>9 DEF Inv

\* EndWrite makes the batch available.
LEMMA Ended ==
  ASSUME Inv, EndWrite
  PROVE  /\ m_wpos' = Forward(m_wpos, writer.batch) /\ m_wpos' \in Ring
         /\ Between(m_rpos, m_wpos') = Available + writer.batch
         /\ UNCHANGED <<m_buffer, m_rpos, m_callback_frames, reader>>
         /\ writer.written = writer.batch /\ writer' = NotWriting /\ made' = made + writer.batch
         /\ writer.batch \in 0 .. BufferSize - 1
<1>1. /\ UNCHANGED <<m_buffer, m_rpos, m_callback_frames, reader>>
      /\ writer.written = writer.batch /\ writer' = NotWriting /\ made' = made + writer.batch
      /\ m_wpos' = IF m_wpos + writer.batch = BufferSize THEN 0 ELSE m_wpos + writer.batch
  BY DEF EndWrite, params
<1>2. /\ BufferSize \in Nat \ {0} /\ m_wpos \in 0 .. BufferSize - 1 /\ writer.batch \in Nat
      /\ Available \in 0 .. BufferSize - 1
      /\ m_wpos + writer.batch <= BufferSize /\ Available + writer.batch < BufferSize
  BY Numbers DEF Inv, WriterInv
<1>3. writer.batch \in 0 .. BufferSize - 1 /\ writer.batch \in 0 .. BufferSize
  BY <1>2
<1>4. m_wpos' = Forward(m_wpos, writer.batch) /\ m_wpos' \in Ring
  BY <1>1, <1>2, <1>3, ForwardIs DEF Inv, Types
<1>5. Between(m_rpos, m_wpos') = Available + writer.batch
  <2>1. writer.batch < BufferSize - Between(m_rpos, m_wpos)
    BY <1>2 DEF Available
  <2> QED
    BY <1>3, <1>4, <2>1, BetweenForward DEF Inv, Types, Available
<1> QED
  BY <1>1, <1>3, <1>4, <1>5

\* So the batch's frames are now the last available.
LEMMA EndWriteKeeps == ASSUME Inv, EndWrite PROVE Inv'
<1>1. Available' = Available + writer.batch /\ reader' = reader /\ m_rpos' = m_rpos
  BY Ended DEF Available
<1>2. /\ BufferSize \in Nat \ {0} /\ Available \in 0 .. BufferSize - 1 /\ writer.batch \in Nat
      /\ reader.left \in Nat /\ Between(m_rpos, reader.rpos) \in 0 .. BufferSize - 1
  BY Numbers DEF Inv
<1>3. Types'
  BY <1>2, Ended DEF Inv, Types, NotWriting
<1>4. WriterInv'
  <2>1. m_wpos' \in 0 .. BufferSize - 1 /\ Available' < BufferSize
    BY <1>1, <1>2, Ended DEF Ring, Inv, WriterInv
  <2> QED
    BY <1>1, <1>2, <2>1, Ended DEF WriterInv, NotWriting
<1>5. ReaderInv'
  BY <1>1, <1>2 DEF Inv, ReaderInv
<1> QED
  BY <1>3, <1>4, <1>5 DEF Inv

\* The core thread's other steps leave the ring alone, or empty it.
LEMMA OtherCoreStepsKeep ==
  ASSUME Inv, LoseFrames \/ SetPaused \/ EmptyStretchBuffers \/ CreateOutputStream PROVE Inv'
<1>1. CASE LoseFrames
  <2>1. /\ UNCHANGED <<m_buffer, m_wpos, m_rpos, m_callback_frames, reader, writer>>
        /\ writer = NotWriting /\ made' \in Nat
    BY <1>1, SizesAssumption DEF LoseFrames, ring, params, Inv, Types
  <2>2. Available' = Available
    BY <2>1 DEF Available
  <2> QED
    BY <2>1, <2>2 DEF Inv, Types, WriterInv, ReaderInv, NotWriting
<1>2. CASE SetPaused \/ EmptyStretchBuffers
  <2>1. UNCHANGED <<m_buffer, m_wpos, m_rpos, m_callback_frames, reader, writer, made>>
    BY <1>2 DEF SetPaused, EmptyStretchBuffers, ring, params
  <2>2. Available' = Available
    BY <2>1 DEF Available
  <2> QED
    BY <2>1, <2>2 DEF Inv, Types, WriterInv, ReaderInv
<1>3. CASE CreateOutputStream
  <2>1. /\ UNCHANGED <<m_buffer, reader, writer, made>> /\ m_wpos' = 0 /\ m_rpos' = 0
        /\ m_callback_frames' \in Nat \ {0} /\ writer = NotWriting /\ reader = Idle
    BY <1>3, SizesAssumption DEF CreateOutputStream
  <2>2. BufferSize \in Nat \ {0} /\ 0 \in Ring
    BY SizeIsPositive DEF Ring
  <2>3. Available' = 0
    BY <2>1, <2>2, BetweenIs DEF Available
  <2>4. Types'
    BY <2>1, <2>2 DEF Inv, Types
  <2> QED
    BY <2>1, <2>2, <2>3, <2>4 DEF Inv, WriterInv, ReaderInv, NotWriting, Idle
<1> QED
  BY <1>1, <1>2, <1>3

\* What the callback goes on with is to be read, or there is nothing.
LEMMA CopyKeeps ==
  ASSUME Types, NEW rpos \in Ring, NEW left \in Nat, NEW before \in Ring,
         reader' = Copy(rpos, left), m_rpos' = before, UNCHANGED m_wpos,
         Between(before, rpos) + left <= Between(before, m_wpos)
  PROVE  /\ reader' \in [pc : {"idle", "restart", "limit", "copy", "store"}, rpos : Ring, left : Nat]
         /\ ReaderInv'
<1>1. 0 \in Ring
  BY SizeIsPositive DEF Ring
<1>2. Available' = Between(before, m_wpos)
  BY DEF Available
<1> QED
  BY <1>1, <1>2 DEF Copy, Idle, ReaderInv

\* A callback begins.
LEMMA ReadFramesKeeps == ASSUME Inv, ReadFrames PROVE Inv'
<1> DEFINE left == reader'.left
<1>1. UNCHANGED <<m_buffer, m_wpos, m_rpos, m_callback_frames, made, writer>>
  BY DEF ReadFrames, ring, params
<1>2. /\ Available \in 0 .. BufferSize - 1 /\ BufferSize \in Nat /\ m_rpos \in Ring
      /\ m_callback_frames \in Nat
  BY Numbers DEF Inv, Types
<1>3. PICK n \in {0, Min({m_callback_frames, Available})} : reader' = Copy(m_rpos, n)
  BY DEF ReadFrames, Available
<1>4. n \in Nat /\ n <= Available
  BY <1>2, <1>3, MinMax
<1>5. Between(m_rpos, m_rpos) = 0
  BY <1>2, BetweenIs DEF Ring
<1>6. Types' /\ ReaderInv'
  BY <1>1, <1>2, <1>3, <1>4, <1>5, CopyKeeps DEF Inv, Types, Available
<1>7. WriterInv'
  BY <1>1 DEF Inv, WriterInv, Available
<1> QED
  BY <1>6, <1>7 DEF Inv

\* A callback of the stretcher begins with all the frames there are.
LEMMA StretchReadFramesKeeps == ASSUME Inv, StretchReadFrames PROVE Inv'
<1>1. /\ UNCHANGED <<m_buffer, m_wpos, m_rpos, m_callback_frames, made, writer>>
      /\ reader' = [pc |-> IF m_stretch_reset_request THEN "restart" ELSE "limit",
                    rpos |-> m_rpos, left |-> Available]
  BY DEF StretchReadFrames, ring, params, Available
<1>2. Available \in 0 .. BufferSize - 1 /\ BufferSize \in Nat
  BY Numbers DEF Inv
<1>3. Available' = Available
  BY <1>1 DEF Available
<1>4. Available \in Nat
  BY <1>2
<1>5. Types'
  BY <1>1, <1>4 DEF Inv, Types
<1>6. WriterInv'
  BY <1>1, <1>3 DEF Inv, WriterInv
<1>7. ReaderInv'
  BY <1>1, <1>3, <1>4 DEF Inv, ReaderInv
<1> QED
  BY <1>5, <1>6, <1>7 DEF Inv

\* Frames given back leave the writer more room.
LEMMA GivenBack ==
  ASSUME Inv, NEW n \in 0 .. Available, m_rpos' = Forward(m_rpos, n),
         UNCHANGED <<m_buffer, m_wpos, made, writer>>
  PROVE  /\ m_rpos' \in Ring /\ Available' = Available - n /\ WriterInv'
<1>1. /\ BufferSize \in Nat \ {0} /\ Available \in 0 .. BufferSize - 1 /\ writer.batch \in Nat
      /\ m_rpos \in Ring /\ m_wpos \in Ring
  BY Numbers DEF Inv, Types
<1>2. n \in 0 .. BufferSize - 1 /\ n \in 0 .. BufferSize /\ n <= Between(m_rpos, m_wpos)
  BY <1>1 DEF Available
<1>3. m_rpos' \in Ring
  BY <1>1, <1>2, ForwardIs
<1>4. Available' = Available - n
  BY <1>1, <1>2, BetweenForward DEF Available
<1>5. WriterInv'
  BY <1>1, <1>2, <1>4 DEF Inv, WriterInv
<1> QED
  BY <1>3, <1>4, <1>5

\* A new speed discards the first of the frames available.
LEMMA Restarted ==
  ASSUME Inv, Restart
  PROVE  \E n \in 0 .. reader.left :
           /\ m_rpos' = Forward(m_rpos, n) /\ reader.rpos = m_rpos /\ reader.left <= Available
           /\ reader' = [pc |-> "limit", rpos |-> m_rpos', left |-> reader.left - n]
           /\ UNCHANGED <<m_buffer, m_wpos, m_callback_frames, made, writer, heard>>
<1>1. reader.rpos = m_rpos /\ reader.left <= Available /\ reader.left \in Nat
  BY Numbers DEF Restart, Inv, ReaderInv
<1>2. UNCHANGED <<m_buffer, m_wpos, m_callback_frames, made, writer, heard>>
  BY DEF Restart, params
<1>3. PICK refill \in RefillSizes :
        LET n == IF reader.left >= refill THEN AlignedDown(reader.left - refill) ELSE 0
        IN  /\ m_rpos' = Forward(reader.rpos, n)
            /\ reader' = [pc |-> "limit", rpos |-> m_rpos', left |-> reader.left - n]
  BY DEF Restart
<1> DEFINE n == IF reader.left >= refill THEN AlignedDown(reader.left - refill) ELSE 0
<1>4. refill \in Nat
  BY SizesAssumption
<1>5. n \in 0 .. reader.left
  <2>1. CASE reader.left >= refill
    <3>1. reader.left - refill \in Nat
      BY <1>1, <1>4, <2>1
    <3>2. AlignedDown(reader.left - refill) \in 0 .. reader.left - refill
      BY <3>1, AlignedIs
    <3> QED
      BY <1>1, <1>4, <2>1, <3>2
  <2>2. CASE ~(reader.left >= refill)
    BY <1>1, <2>2
  <2> QED
    BY <2>1, <2>2
<1> QED
  BY <1>1, <1>2, <1>3, <1>5

\* The same for a device that has fallen behind.
LEMMA Limited ==
  ASSUME Inv, LimitInput
  PROVE  \E n \in 0 .. reader.left, left \in Nat :
           /\ m_rpos' = Forward(m_rpos, n) /\ reader.rpos = m_rpos /\ reader.left <= Available
           /\ reader' = Copy(m_rpos', left) /\ left <= reader.left - n
           /\ UNCHANGED <<m_buffer, m_wpos, m_callback_frames, made, writer, heard>>
<1>1. reader.rpos = m_rpos /\ reader.left <= Available /\ reader.left \in Nat
  BY Numbers DEF LimitInput, Inv, ReaderInv
<1>2. UNCHANGED <<m_buffer, m_wpos, m_callback_frames, made, writer, heard>>
  BY DEF LimitInput, params
<1>3. PICK max_input \in MaxInputs :
        LET n == IF reader.left > max_input THEN Aligned(reader.left - max_input) ELSE 0
        IN  /\ m_rpos' = Forward(reader.rpos, n)
            /\ reader' = Copy(m_rpos', AlignedDown(reader.left - n))
  BY DEF LimitInput
<1> DEFINE n == IF reader.left > max_input THEN Aligned(reader.left - max_input) ELSE 0
           left == AlignedDown(reader.left - n)
<1>4. max_input \in Nat /\ max_input >= Chunk - 1 /\ Chunk \in Nat
  BY SizesAssumption
<1>5. n \in 0 .. reader.left
  <2>1. CASE reader.left > max_input
    <3>1. reader.left - max_input \in Nat
      BY <1>1, <1>4, <2>1
    <3>2. Aligned(reader.left - max_input) \in
            reader.left - max_input .. reader.left - max_input + Chunk - 1
      BY <3>1, AlignedIs
    <3> QED
      BY <1>1, <1>4, <2>1, <3>2
  <2>2. CASE ~(reader.left > max_input)
    BY <1>1, <2>2
  <2> QED
    BY <2>1, <2>2
<1>6. left \in Nat /\ left <= reader.left - n
  <2>1. reader.left - n \in Nat
    BY <1>1, <1>5
  <2> HIDE DEF n
  <2> QED
    BY <2>1, AlignedIs
<1> QED
  BY <1>1, <1>2, <1>3, <1>5, <1>6

\* Frames discarded are no longer available.
LEMMA DiscardsKeep == ASSUME Inv, Restart \/ LimitInput PROVE Inv'
<1>1. Available \in 0 .. BufferSize - 1 /\ reader.left \in Nat /\ BufferSize \in Nat
  BY Numbers DEF Inv
<1>2. CASE Restart
  <2>1. PICK n \in 0 .. reader.left :
           /\ m_rpos' = Forward(m_rpos, n) /\ reader.rpos = m_rpos /\ reader.left <= Available
           /\ reader' = [pc |-> "limit", rpos |-> m_rpos', left |-> reader.left - n]
           /\ UNCHANGED <<m_buffer, m_wpos, m_callback_frames, made, writer, heard>>
    BY <1>2, Restarted
  <2>2. n \in 0 .. Available /\ reader.left - n \in Nat
    BY <1>1, <2>1
  <2>3. m_rpos' \in Ring /\ Available' = Available - n /\ WriterInv'
    BY <2>1, <2>2, GivenBack
  <2>4. Types'
    BY <2>1, <2>2, <2>3 DEF Inv, Types
  <2>5. ReaderInv'
    BY <1>1, <2>1, <2>2, <2>3 DEF ReaderInv
  <2> QED
    BY <2>3, <2>4, <2>5 DEF Inv
<1>3. CASE LimitInput
  <2>1. PICK n \in 0 .. reader.left, left \in Nat :
           /\ m_rpos' = Forward(m_rpos, n) /\ reader.rpos = m_rpos /\ reader.left <= Available
           /\ reader' = Copy(m_rpos', left) /\ left <= reader.left - n
           /\ UNCHANGED <<m_buffer, m_wpos, m_callback_frames, made, writer, heard>>
    BY <1>3, Limited
  <2>2. n \in 0 .. Available
    BY <1>1, <2>1
  <2>3. m_rpos' \in Ring /\ Available' = Available - n /\ WriterInv'
    BY <2>1, <2>2, GivenBack
  <2>4. Between(m_rpos', m_rpos') = 0
    BY <2>3, BetweenIs DEF Ring
  <2>5. Between(m_rpos', m_wpos) = Available - n
    BY <2>1, <2>3 DEF Available
  <2>6. /\ reader' \in [pc : {"idle", "restart", "limit", "copy", "store"}, rpos : Ring, left : Nat]
        /\ ReaderInv'
    <3> DEFINE before == m_rpos'
    <3>1. before \in Ring /\ Between(before, before) + left <= Between(before, m_wpos)
      BY <1>1, <2>1, <2>3, <2>4, <2>5
    <3> QED
      BY <2>1, <3>1, CopyKeeps DEF Inv
  <2>7. Types'
    BY <2>1, <2>3, <2>6 DEF Inv, Types
  <2> QED
    BY <2>3, <2>6, <2>7 DEF Inv
<1> QED
  BY <1>2, <1>3

\* A frame read is one less to read.
LEMMA ReadFrameKeeps == ASSUME Inv, ReadFrame PROVE Inv'
<1>1. /\ UNCHANGED <<m_buffer, m_wpos, m_rpos, m_callback_frames, made, writer>>
      /\ reader.pc = "copy"
      /\ reader' = [pc |-> IF reader.left = 1 THEN "store" ELSE "copy",
                    rpos |-> Forward(reader.rpos, 1), left |-> reader.left - 1]
  BY DEF ReadFrame, ring, params, Inv, Types
<1>2. /\ BufferSize \in Nat \ {0} /\ Available \in 0 .. BufferSize - 1
      /\ reader.left \in Nat \ {0} /\ reader.rpos \in Ring /\ m_rpos \in Ring
      /\ Between(m_rpos, reader.rpos) \in 0 .. BufferSize - 1
      /\ Between(m_rpos, reader.rpos) + reader.left <= Available
  BY <1>1, Numbers DEF Inv, Types, ReaderInv
<1>3. 1 \in 0 .. BufferSize - 1 /\ 1 \in 0 .. BufferSize
      /\ 1 < BufferSize - Between(m_rpos, reader.rpos)
  BY <1>2
<1>4. /\ Forward(reader.rpos, 1) \in Ring
      /\ Between(m_rpos, Forward(reader.rpos, 1)) = Between(m_rpos, reader.rpos) + 1
  BY <1>2, <1>3, ForwardIs, BetweenForward
<1>5. Available' = Available
  BY <1>1 DEF Available
<1>6. Types'
  BY <1>1, <1>2, <1>4 DEF Inv, Types
<1>7. WriterInv'
  BY <1>1, <1>5 DEF Inv, WriterInv
<1>8. ReaderInv'
  BY <1>1, <1>2, <1>4, <1>5 DEF ReaderInv
<1> QED
  BY <1>6, <1>7, <1>8 DEF Inv

\* The callback gives back what it has read.
LEMMA StoreRposKeeps == ASSUME Inv, StoreRpos PROVE Inv'
<1>1. /\ UNCHANGED <<m_buffer, m_wpos, m_callback_frames, made, writer>>
      /\ m_rpos' = reader.rpos /\ reader' = Idle /\ reader.pc = "store"
  BY DEF StoreRpos, params
<1> DEFINE n == Between(m_rpos, reader.rpos)
<1>2. /\ BufferSize \in Nat \ {0} /\ Available \in 0 .. BufferSize - 1 /\ reader.left \in Nat
      /\ m_rpos \in Ring /\ reader.rpos \in Ring /\ n \in 0 .. BufferSize - 1
      /\ n + reader.left <= Available
  BY <1>1, Numbers DEF Inv, Types, ReaderInv
<1>3. n \in 0 .. Available
  BY <1>2
<1>4. m_rpos' = Forward(m_rpos, n)
  <2>1. n = IF reader.rpos >= m_rpos THEN reader.rpos - m_rpos ELSE reader.rpos + BufferSize - m_rpos
    BY <1>2, BetweenIs
  <2> HIDE DEF n
  <2>2. n \in 0 .. BufferSize
    BY <1>2
  <2>3. Forward(m_rpos, n) = IF m_rpos + n < BufferSize THEN m_rpos + n ELSE m_rpos + n - BufferSize
    BY <1>2, <2>2, ForwardIs
  <2> QED
    BY <1>1, <1>2, <2>1, <2>3 DEF Ring
<1> HIDE DEF n
<1>5. WriterInv' /\ m_rpos' \in Ring
  BY <1>1, <1>3, <1>4, GivenBack
<1>6. Types'
  BY <1>1, <1>2, <1>5 DEF Inv, Types, Idle, Ring
<1>7. ReaderInv'
  BY <1>1 DEF ReaderInv, Idle
<1> QED
  BY <1>5, <1>6, <1>7 DEF Inv

\* Every step keeps the invariant.
LEMMA InvNext == Inv /\ [Next]_vars => Inv'
<1> SUFFICES ASSUME Inv, [Next]_vars PROVE Inv'
  OBVIOUS
<1>1. CASE Core
  BY <1>1, BeginWriteKeeps, WriteFrameKeeps, EndWriteKeeps, OtherCoreStepsKeep DEF Core
<1>2. CASE Audio
  BY <1>2, ReadFramesKeeps, StretchReadFramesKeeps, DiscardsKeep, ReadFrameKeeps, StoreRposKeeps
  DEF Audio
<1>3. CASE UNCHANGED vars
  BY <1>3 DEF vars, ring, params, Inv, Types, WriterInv, ReaderInv, Available
<1> QED
  BY <1>1, <1>2, <1>3 DEF Next

-----------------------------------------------------------------------------
(* The positions of the frames. *)

\* No two of the positions from p on are the same.
LEMMA Apart ==
  ASSUME NEW p \in Ring, NEW i \in 0 .. BufferSize - 1, NEW j \in 0 .. BufferSize - 1,
         Forward(p, i) = Forward(p, j)
  PROVE  i = j
<1>1. Between(p, Forward(p, i)) = i /\ Between(p, Forward(p, j)) = j
  BY BetweenForward
<1> QED
  BY <1>1

\* Going forward twice.
LEMMA ForwardTwice ==
  ASSUME NEW p \in Ring, NEW m \in Nat, NEW n \in Nat, m + n < BufferSize
  PROVE  Forward(Forward(p, m), n) = Forward(p, m + n)
<1>1. BufferSize \in Nat \ {0} /\ p \in 0 .. BufferSize - 1
  BY SizeIsPositive DEF Ring
<1>2. m \in 0 .. BufferSize /\ n \in 0 .. BufferSize /\ m + n \in 0 .. BufferSize
  BY <1>1
<1>3. Forward(p, m) = (IF p + m < BufferSize THEN p + m ELSE p + m - BufferSize)
      /\ Forward(p, m) \in Ring
  BY <1>2, ForwardIs
<1> DEFINE q == Forward(p, m)
<1>4. Forward(q, n) = IF q + n < BufferSize THEN q + n ELSE q + n - BufferSize
  BY <1>2, <1>3, ForwardIs
<1>5. Forward(p, m + n) =
        IF p + (m + n) < BufferSize THEN p + (m + n) ELSE p + (m + n) - BufferSize
  BY <1>2, ForwardIs
<1> QED
  BY <1>1, <1>2, <1>3, <1>4, <1>5

\* The position that is so far away is where it leads.
LEMMA ForwardBetween ==
  ASSUME NEW p \in Ring, NEW q \in Ring
  PROVE  Forward(p, Between(p, q)) = q
<1>1. BufferSize \in Nat \ {0} /\ p \in 0 .. BufferSize - 1 /\ q \in 0 .. BufferSize - 1
  BY SizeIsPositive DEF Ring
<1> DEFINE n == Between(p, q)
<1>2. (n = IF q >= p THEN q - p ELSE q + BufferSize - p) /\ n \in 0 .. BufferSize - 1
  BY BetweenIs
<1> HIDE DEF n
<1>3. n \in 0 .. BufferSize
  BY <1>1, <1>2
<1>4. Forward(p, n) = IF p + n < BufferSize THEN p + n ELSE p + n - BufferSize
  BY <1>3, ForwardIs
<1>5. Forward(p, n) = q
  BY <1>1, <1>2, <1>4
<1> QED
  BY <1>5 DEF n

\* The batch lies beyond the frames available, the callback's are among them.
LEMMA GivenIs ==
  ASSUME Inv, NEW i \in 0 .. writer.batch - 1
  PROVE  /\ Forward(m_wpos, i) = Forward(m_rpos, Available + i)
         /\ Forward(m_wpos, i) = m_wpos + i
<1>1. /\ BufferSize \in Nat \ {0} /\ Available \in 0 .. BufferSize - 1 /\ writer.batch \in Nat
      /\ m_wpos \in 0 .. BufferSize - 1 /\ m_rpos \in Ring /\ m_wpos \in Ring
      /\ m_wpos + writer.batch <= BufferSize /\ Available + writer.batch < BufferSize
  BY Numbers DEF Inv, Types, WriterInv
<1>2. Forward(m_rpos, Available) = m_wpos
  BY <1>1, ForwardBetween DEF Available
<1>3. i \in Nat /\ Available \in Nat /\ Available + i < BufferSize /\ i \in 0 .. BufferSize
  BY <1>1
<1>4. Forward(Forward(m_rpos, Available), i) = Forward(m_rpos, Available + i)
  BY <1>1, <1>3, ForwardTwice
<1>5. Forward(m_wpos, i) = m_wpos + i
  BY <1>1, <1>3, ForwardIs
<1> QED
  BY <1>2, <1>4, <1>5

\* The callback's frames are among those available.
LEMMA Reading ==
  ASSUME Inv, reader # Idle
  PROVE  /\ Between(m_rpos, reader.rpos) + reader.left <= Available
         /\ Between(reader.rpos, m_wpos) = Available - Between(m_rpos, reader.rpos)
<1> DEFINE n == Between(m_rpos, reader.rpos)
<1>1. /\ BufferSize \in Nat \ {0} /\ Available \in 0 .. BufferSize - 1 /\ reader.left \in Nat
      /\ m_rpos \in Ring /\ m_wpos \in Ring /\ reader.rpos \in Ring /\ n \in 0 .. BufferSize - 1
      /\ m_rpos \in 0 .. BufferSize - 1
  BY Numbers DEF Inv, Types
<1>2. n + reader.left <= Available
  <2>1. CASE reader.pc \in {"restart", "limit"}
    <3>1. reader.rpos = m_rpos /\ reader.left <= Available
      BY <2>1 DEF Inv, ReaderInv
    <3>2. Between(m_rpos, m_rpos) = 0
      BY <1>1, BetweenIs
    <3> QED
      BY <1>1, <3>1, <3>2
  <2>2. CASE reader.pc \in {"copy", "store"}
    BY <2>2 DEF Inv, ReaderInv
  <2> QED
    BY <2>1, <2>2 DEF Inv, Types, ReaderInv
<1>3. Forward(m_rpos, n) = reader.rpos
  BY <1>1, ForwardBetween
<1>4. Between(Forward(m_rpos, n), m_wpos) = Between(m_rpos, m_wpos) - n
  BY <1>1, <1>2, BetweenForward DEF Available
<1> QED
  BY <1>2, <1>3, <1>4 DEF Available

\* And so are those after them.
LEMMA ReadingIs ==
  ASSUME Inv, reader # Idle, NEW i \in Nat, i < Between(reader.rpos, m_wpos)
  PROVE  /\ Between(m_rpos, reader.rpos) + i < Available
         /\ Forward(reader.rpos, i) = Forward(m_rpos, Between(m_rpos, reader.rpos) + i)
<1> DEFINE n == Between(m_rpos, reader.rpos)
<1>1. /\ BufferSize \in Nat \ {0} /\ Available \in 0 .. BufferSize - 1
      /\ m_rpos \in Ring /\ reader.rpos \in Ring /\ n \in 0 .. BufferSize - 1
  BY Numbers DEF Inv, Types
<1>2. n + i < Available
  BY <1>1, Reading
<1>3. Forward(m_rpos, n) = reader.rpos
  BY <1>1, ForwardBetween
<1> HIDE DEF n
<1>4. Forward(Forward(m_rpos, n), i) = Forward(m_rpos, n + i)
  BY <1>1, <1>2, ForwardTwice
<1> QED
  BY <1>2, <1>3, <1>4 DEF n

\* So no position that is written is read.
LEMMA InvImplies == Inv => NoFrameIsShared
<1> SUFFICES ASSUME Inv PROVE NoFrameIsShared
  OBVIOUS
<1>1. /\ BufferSize \in Nat \ {0} /\ Available \in 0 .. BufferSize - 1 /\ writer.batch \in Nat
      /\ m_rpos \in Ring /\ m_wpos \in Ring /\ reader.left \in Nat
      /\ m_wpos + writer.batch <= BufferSize /\ Available + writer.batch < BufferSize
  BY Numbers DEF Inv, Types, WriterInv
<1>2. ASSUME NEW i \in 0 .. writer.batch - 1, NEW j \in 0 .. Available - 1,
             Forward(m_wpos, i) = Forward(m_rpos, j)
      PROVE  FALSE
  <2>1. Forward(m_rpos, Available + i) = Forward(m_rpos, j)
    BY <1>2, GivenIs
  <2>2. Available + i \in 0 .. BufferSize - 1 /\ j \in 0 .. BufferSize - 1 /\ Available + i # j
    BY <1>1
  <2> QED
    BY <1>1, <2>1, <2>2, Apart
<1>3. ASSUME NEW i \in 0 .. writer.batch - 1, NEW j \in 0 .. reader.left - 1,
             Forward(m_wpos, i) = Forward(reader.rpos, j)
      PROVE  FALSE
  <2> DEFINE k == Between(m_rpos, reader.rpos) + j
  <2>1. reader # Idle
    BY <1>1, <1>3 DEF Idle
  <2>2. j \in Nat /\ j < Between(reader.rpos, m_wpos)
    <3>1. Between(m_rpos, reader.rpos) \in 0 .. BufferSize - 1
      BY Numbers DEF Inv
    <3> QED
      BY <1>1, <2>1, <3>1, Reading
  <2>3. k < Available /\ Forward(reader.rpos, j) = Forward(m_rpos, k)
    BY <2>1, <2>2, ReadingIs
  <2>4. k \in 0 .. Available - 1
    BY <1>1, <2>2, <2>3, Numbers DEF Inv
  <2> HIDE DEF k
  <2> QED
    BY <1>2, <1>3, <2>3, <2>4
<1> QED
  BY <1>1, <1>2, <1>3 DEF NoFrameIsShared, Holds, Available

\* The two threads never touch the same part of the buffer, however their
\* positions wrap around and whatever the callback discards.
THEOREM FramesAreNeverShared == Spec => []NoFrameIsShared
<1> QED
  BY InvInit, InvNext, InvImplies, PTL DEF Spec

-----------------------------------------------------------------------------
(* The refinement: every step is a step of AudioQueue, or none. *)

Queue == [i \in 1 .. Between(Position, m_wpos) |-> m_buffer[Forward(Position, i - 1)]]

\* The queue is as long as it is from the callback's position to the writer's.
LEMMA QueueIs ==
  ASSUME Inv
  PROVE  /\ Position \in Ring /\ Between(Position, m_wpos) \in 0 .. BufferSize - 1
         /\ Between(Position, m_wpos) <= Available
         /\ reader # Idle => reader.left <= Between(Position, m_wpos)
         /\ Queue \in Seq(Nat) /\ Len(Queue) = Between(Position, m_wpos)
         /\ \A i \in 1 .. Len(Queue) : Queue[i] = m_buffer[Forward(Position, i - 1)]
<1> DEFINE n == Between(Position, m_wpos)
<1>1. /\ BufferSize \in Nat \ {0} /\ Available \in 0 .. BufferSize - 1 /\ reader.left \in Nat
      /\ m_rpos \in Ring /\ m_wpos \in Ring /\ reader.rpos \in Ring
      /\ Between(m_rpos, reader.rpos) \in 0 .. BufferSize - 1
  BY Numbers DEF Inv, Types
<1>2. Position \in Ring
  BY <1>1 DEF Position
<1>3. n \in 0 .. BufferSize - 1
  BY <1>1, <1>2, BetweenIs
<1>4. n <= Available /\ (reader # Idle => reader.left <= n)
  <2>1. CASE reader = Idle
    BY <1>1, <2>1 DEF Position, Available
  <2>2. CASE reader # Idle
    BY <1>1, <2>2, Reading DEF Position
  <2> QED
    BY <2>1, <2>2
<1> HIDE DEF n
<1>5. ASSUME NEW i \in 1 .. n PROVE m_buffer[Forward(Position, i - 1)] \in Nat
  <2>1. i - 1 \in 0 .. BufferSize
    BY <1>1, <1>3
  <2>2. Forward(Position, i - 1) \in Ring
    BY <1>2, <2>1, ForwardIs
  <2> QED
    BY <2>2 DEF Inv, Types
<1>6. Queue = [i \in 1 .. n |-> m_buffer[Forward(Position, i - 1)]] /\ n \in Nat
  BY <1>1, <1>3 DEF Queue, n
<1>7. Queue \in Seq(Nat) /\ Len(Queue) = n
  BY <1>5, <1>6
<1>8. \A i \in 1 .. Len(Queue) : Queue[i] = m_buffer[Forward(Position, i - 1)]
  BY <1>6, <1>7
<1> QED
  BY <1>2, <1>3, <1>4, <1>7, <1>8 DEF n

\* No frame of the queue is where the batch goes.
LEMMA Unwritten ==
  ASSUME Inv, NEW i \in 0 .. Between(Position, m_wpos) - 1, NEW j \in 0 .. writer.batch - 1
  PROVE  Forward(Position, i) # m_wpos + j
<1>1. /\ BufferSize \in Nat \ {0} /\ Available \in 0 .. BufferSize - 1 /\ writer.batch \in Nat
      /\ m_rpos \in Ring /\ Between(m_rpos, reader.rpos) \in 0 .. BufferSize - 1
      /\ Available + writer.batch < BufferSize
      /\ Between(Position, m_wpos) \in 0 .. BufferSize - 1
  BY Numbers, QueueIs DEF Inv, Types, WriterInv
<1>2. PICK k \in 0 .. Available - 1 : Forward(Position, i) = Forward(m_rpos, k)
  <2>1. CASE reader = Idle
    BY <2>1 DEF Position, Available
  <2>2. CASE reader # Idle
    <3> DEFINE k == Between(m_rpos, reader.rpos) + i
    <3>1. Position = reader.rpos /\ i \in Nat /\ i < Between(reader.rpos, m_wpos)
      BY <1>1, <2>2 DEF Position
    <3>2. k < Available /\ Forward(reader.rpos, i) = Forward(m_rpos, k)
      BY <2>2, <3>1, ReadingIs
    <3>3. k \in 0 .. Available - 1
      BY <1>1, <3>1, <3>2
    <3> QED
      BY <3>1, <3>2, <3>3
  <2> QED
    BY <2>1, <2>2
<1>3. m_wpos + j = Forward(m_rpos, Available + j)
  BY GivenIs
<1>4. k \in 0 .. BufferSize - 1 /\ Available + j \in 0 .. BufferSize - 1 /\ k # Available + j
  BY <1>1
<1> QED
  BY <1>1, <1>2, <1>3, <1>4, Apart

\* A frame written is not yet in the queue.
LEMMA WriteFrameStutters == ASSUME Inv, WriteFrame PROVE Queue' = Queue
<1>1. /\ UNCHANGED <<m_wpos, m_rpos, reader>> /\ writer.written < writer.batch
      /\ m_buffer' = [m_buffer EXCEPT ![m_wpos + writer.written] = made + writer.written + 1]
  BY DEF WriteFrame
<1>2. Position' = Position
  BY <1>1 DEF Position
<1>3. writer.batch \in Nat /\ writer.written \in Nat /\ BufferSize \in Nat
      /\ Between(Position, m_wpos) \in 0 .. BufferSize - 1 /\ Position \in Ring
  BY Numbers, QueueIs DEF Inv
<1>4. ASSUME NEW i \in 1 .. Between(Position, m_wpos)
      PROVE  m_buffer'[Forward(Position, i - 1)] = m_buffer[Forward(Position, i - 1)]
  <2>1. i - 1 \in 0 .. Between(Position, m_wpos) - 1 /\ writer.written \in 0 .. writer.batch - 1
        /\ i - 1 \in 0 .. BufferSize
    BY <1>1, <1>3
  <2>2. Forward(Position, i - 1) # m_wpos + writer.written /\ Forward(Position, i - 1) \in Ring
    BY <1>3, <2>1, Unwritten, ForwardIs
  <2> QED
    BY <1>1, <2>2 DEF Inv, Types
<1> QED
  BY <1>1, <1>2, <1>4 DEF Queue

\* How two sequences are put together.
LEMMA IsConcatenation ==
  ASSUME NEW s \in Seq(Nat), NEW t \in Seq(Nat), NEW u \in Seq(Nat), Len(u) = Len(s) + Len(t),
         \A i \in 1 .. Len(s) : u[i] = s[i],
         \A i \in 1 .. Len(t) : u[Len(s) + i] = t[i]
  PROVE  u = s \o t
<1>1. /\ s \o t \in Seq(Nat) /\ Len(s \o t) = Len(s) + Len(t)
      /\ \A i \in 1 .. Len(s) + Len(t) : (s \o t)[i] = IF i <= Len(s) THEN s[i] ELSE t[i - Len(s)]
  BY ConcatProperties
<1>2. ASSUME NEW i \in 1 .. Len(u) PROVE u[i] = (s \o t)[i]
  <2>1. Len(s) \in Nat /\ Len(t) \in Nat
    OBVIOUS
  <2>2. CASE i <= Len(s)
    BY <1>1, <2>1, <2>2
  <2>3. CASE i > Len(s)
    <3>1. i - Len(s) \in 1 .. Len(t) /\ Len(s) + (i - Len(s)) = i
      BY <2>1, <2>3
    <3>2. u[i] = t[i - Len(s)]
      BY <3>1
    <3> QED
      BY <1>1, <2>1, <2>3, <3>2
  <2> QED
    BY <2>1, <2>2, <2>3
<1> QED
  BY <1>1, <1>2, SeqEqual

\* What is left of a sequence without its first n elements.
LEMMA IsRest ==
  ASSUME NEW s \in Seq(Nat), NEW n \in 0 .. Len(s), NEW u \in Seq(Nat), Len(u) = Len(s) - n,
         \A i \in 1 .. Len(u) : u[i] = s[n + i]
  PROVE  /\ u = SubSeq(s, n + 1, Len(s))
         /\ n = 0 => u = s
         /\ n = 1 => u = Tail(s) /\ s # <<>> /\ Head(s) = s[1]
<1>1. Len(s) \in Nat /\ n \in Nat /\ n <= Len(s)
  OBVIOUS
<1> DEFINE m == Len(s)
           t == SubSeq(s, n + 1, m)
<1>2. \A i \in n + 1 .. m : s[i] \in Nat
  BY <1>1
<1>3. /\ t \in Seq(Nat) /\ Len(t) = IF n + 1 <= m THEN m - (n + 1) + 1 ELSE 0
      /\ \A i \in 1 .. m - (n + 1) + 1 : t[i] = s[(n + 1) + i - 1]
  <2>1. n + 1 \in Int /\ m \in Int
    BY <1>1
  <2> HIDE DEF m
  <2> QED
    BY <1>2, <2>1, SubSeqProperties
<1> HIDE DEF t
<1>4. Len(t) = Len(u)
  BY <1>1, <1>3
<1>5. ASSUME NEW i \in 1 .. Len(u) PROVE u[i] = t[i]
  <2>1. i \in 1 .. m - (n + 1) + 1 /\ (n + 1) + i - 1 = n + i
    BY <1>1
  <2> QED
    BY <1>3, <2>1
<1>6. u = t
  BY <1>3, <1>4, <1>5, SeqEqual
<1>7. n = 0 => u = s
  <2> SUFFICES ASSUME n = 0 PROVE u = s
    OBVIOUS
  <2>1. Len(u) = Len(s) /\ \A i \in 1 .. Len(u) : u[i] = s[i]
    BY <1>1
  <2> QED
    BY <2>1, SeqEqual
<1>8. n = 1 => u = Tail(s) /\ s # <<>> /\ Head(s) = s[1]
  <2> SUFFICES ASSUME n = 1 PROVE u = Tail(s) /\ s # <<>> /\ Head(s) = s[1]
    OBVIOUS
  <2>1. s # <<>> /\ Head(s) = s[1]
    BY <1>1
  <2>2. Tail(s) \in Seq(Nat) /\ Len(Tail(s)) = Len(s) - 1
        /\ \A i \in 1 .. Len(Tail(s)) : Tail(s)[i] = s[i + 1]
    BY <2>1, HeadTailProperties
  <2>3. Len(Tail(s)) = Len(u) /\ \A i \in 1 .. Len(u) : u[i] = Tail(s)[i]
    BY <1>1, <2>2
  <2> QED
    BY <2>1, <2>2, <2>3, SeqEqual
<1> QED
  BY <1>6, <1>7, <1>8 DEF t

\* The whole batch joins the queue at once.
LEMMA EndWriteImplements == ASSUME Inv, EndWrite PROVE Promise!Put
<1> DEFINE n == Between(Position, m_wpos)
           b == writer.batch
           new == [i \in 1 .. made' - made |-> made + i]
<1>1. /\ m_wpos' = Forward(m_wpos, b) /\ m_wpos' \in Ring
      /\ UNCHANGED <<m_buffer, m_rpos, reader>>
      /\ writer.written = b /\ made' = made + b
  BY Ended
<1>2. b \in Nat \ {0} /\ made \in Nat
  BY DEF EndWrite, NotWriting, Inv, Types, WriterInv
<1>3. UNCHANGED heard
  BY DEF EndWrite
<1>4. /\ BufferSize \in Nat \ {0} /\ m_wpos \in Ring /\ n \in 0 .. BufferSize - 1
      /\ n + b < BufferSize /\ Position \in Ring
  <2>1. /\ n \in 0 .. BufferSize - 1 /\ n <= Available /\ Available + b < BufferSize
        /\ Available \in 0 .. BufferSize - 1 /\ BufferSize \in Nat \ {0} /\ Position \in Ring
    BY QueueIs, Numbers DEF Inv, WriterInv
  <2> QED
    BY <1>2, <2>1 DEF Inv, Types
<1>5. Position' = Position
  BY <1>1 DEF Position
<1>6. Between(Position, m_wpos') = n + b
  <2>1. b \in 0 .. BufferSize - 1 /\ b < BufferSize - Between(Position, m_wpos)
    BY <1>2, <1>4
  <2> QED
    BY <1>1, <1>4, <2>1, BetweenForward
<1>7. Queue \in Seq(Nat) /\ Len(Queue) = n
      /\ \A i \in 1 .. n : Queue[i] = m_buffer[Forward(Position, i - 1)]
  BY QueueIs
<1>8. new \in Seq(Nat) /\ Len(new) = b /\ \A i \in 1 .. b : new[i] = made + i
  <2>1. made' - made = b
    BY <1>1, <1>2
  <2> QED
    BY <1>2, <2>1
<1> HIDE DEF new, n
<1>9. Queue' = [i \in 1 .. n + b |-> m_buffer[Forward(Position, i - 1)]]
  BY <1>1, <1>5, <1>6 DEF Queue
<1>10. ASSUME NEW k \in 1 .. b PROVE m_buffer[Forward(Position, n + k - 1)] = new[k]
  <2>1. k - 1 \in Nat /\ k - 1 \in 0 .. b - 1 /\ n + (k - 1) = n + k - 1
        /\ n + (k - 1) < BufferSize /\ n \in Nat
    BY <1>2, <1>4
  <2>2. Forward(Position, n) = m_wpos
    BY <1>4, ForwardBetween DEF n, Inv, Types
  <2>3. Forward(m_wpos, k - 1) = Forward(Position, n + (k - 1))
    BY <1>4, <2>1, <2>2, ForwardTwice
  <2>4. Forward(m_wpos, k - 1) = m_wpos + (k - 1)
    BY <2>1, GivenIs
  <2>5. m_buffer[m_wpos + (k - 1)] = made + (k - 1) + 1
    BY <1>1, <2>1 DEF Inv, WriterInv
  <2>6. made + (k - 1) + 1 = made + k
    BY <1>2, <2>1
  <2> QED
    BY <1>8, <2>1, <2>3, <2>4, <2>5, <2>6
<1>11. ASSUME NEW i \in 1 .. n + b PROVE m_buffer[Forward(Position, i - 1)] \in Nat
  <2>1. i - 1 \in 0 .. BufferSize
    BY <1>2, <1>4
  <2> QED
    BY <1>4, <2>1, ForwardIs DEF Inv, Types
<1>12. Queue' = Queue \o new
  <2> DEFINE u == Queue'
  <2>1. n + b \in Nat /\ n \in Nat
    BY <1>2, <1>4
  <2>2. u \in Seq(Nat) /\ Len(u) = n + b
        /\ \A i \in 1 .. n + b : u[i] = m_buffer[Forward(Position, i - 1)]
    BY <1>9, <1>11, <2>1
  <2>3. ASSUME NEW i \in 1 .. n PROVE u[i] = Queue[i]
    <3>1. i \in 1 .. n + b
      BY <1>2, <2>1
    <3>2. u[i] = m_buffer[Forward(Position, i - 1)]
      BY <2>2, <3>1
    <3> QED
      BY <1>7, <3>2
  <2>4. ASSUME NEW k \in 1 .. b PROVE u[n + k] = new[k]
    <3>1. n + k \in 1 .. n + b
      BY <1>2, <2>1
    <3>2. PICK i \in 1 .. n + b : i = n + k
      BY <3>1
    <3>3. u[i] = m_buffer[Forward(Position, i - 1)]
      BY <2>2
    <3>4. m_buffer[Forward(Position, n + k - 1)] = new[k]
      BY <1>10
    <3>5. n + k - 1 = i - 1
      BY <1>2, <2>1, <3>2
    <3> HIDE DEF u
    <3> QED
      BY <3>2, <3>3, <3>4, <3>5
  <2> HIDE DEF u
  <2>5. /\ Queue \in Seq(Nat) /\ new \in Seq(Nat) /\ u \in Seq(Nat)
        /\ Len(u) = Len(Queue) + Len(new)
        /\ \A i \in 1 .. Len(Queue) : u[i] = Queue[i]
        /\ \A i \in 1 .. Len(new) : u[Len(Queue) + i] = new[i]
    BY <1>7, <1>8, <2>2, <2>3, <2>4
  <2>6. u = Queue \o new
    BY <2>5, IsConcatenation
  <2> QED
    BY <2>6 DEF u
<1>13. made' > made
  BY <1>1, <1>2
<1> QED
  BY <1>3, <1>12, <1>13 DEF Promise!Put, Queue, new

\* The callback has gone forward by n frames.
LEMMA Advanced ==
  ASSUME Inv, NEW n \in 0 .. Between(Position, m_wpos), Position' = Forward(Position, n),
         UNCHANGED <<m_buffer, m_wpos>>
  PROVE  /\ n = 0 => Queue' = Queue
         /\ Queue' = SubSeq(Queue, n + 1, Len(Queue))
         /\ n = 1 => Queue' = Tail(Queue) /\ Queue # <<>> /\ Head(Queue) = m_buffer[Position]
<1> DEFINE m == Between(Position, m_wpos)
<1>1. /\ BufferSize \in Nat \ {0} /\ m \in 0 .. BufferSize - 1 /\ Position \in Ring /\ m_wpos \in Ring
      /\ Queue \in Seq(Nat) /\ Len(Queue) = m
      /\ \A i \in 1 .. m : Queue[i] = m_buffer[Forward(Position, i - 1)]
  BY QueueIs, SizeIsPositive DEF Inv, Types
<1>2. n \in Nat /\ n <= m /\ n \in 0 .. BufferSize - 1 /\ m \in Nat
  BY <1>1
<1>3. Between(Position', m_wpos) = m - n
  BY <1>1, <1>2, BetweenForward
<1> HIDE DEF m
<1>4. Queue' = [i \in 1 .. m - n |-> m_buffer[Forward(Position', i - 1)]]
  BY <1>3 DEF Queue
<1>5. ASSUME NEW i \in 1 .. m - n
      PROVE  /\ n + i \in 1 .. m
             /\ m_buffer[Forward(Position', i - 1)] = Queue[n + i]
  <2>1. i - 1 \in Nat /\ n + (i - 1) < BufferSize /\ n + i \in 1 .. m /\ n + i - 1 = n + (i - 1)
    BY <1>1, <1>2
  <2>2. Forward(Forward(Position, n), i - 1) = Forward(Position, n + (i - 1))
    BY <1>1, <1>2, <2>1, ForwardTwice
  <2>3. Queue[n + i] = m_buffer[Forward(Position, n + i - 1)]
    BY <1>1, <2>1
  <2> QED
    BY <2>1, <2>2, <2>3
<1> DEFINE u == Queue'
<1>6. u \in Seq(Nat) /\ Len(u) = m - n /\ \A i \in 1 .. Len(u) : u[i] = Queue[n + i]
  <2>1. m - n \in Nat
    BY <1>2
  <2>2. \A i \in 1 .. m - n : Queue[n + i] \in Nat
    BY <1>1, <1>5
  <2>3. u = [i \in 1 .. m - n |-> Queue[n + i]]
    BY <1>4, <1>5
  <2> HIDE DEF u
  <2> QED
    BY <2>1, <2>2, <2>3
<1> HIDE DEF u
<1>7. /\ u = SubSeq(Queue, n + 1, Len(Queue))
      /\ n = 0 => u = Queue
      /\ n = 1 => u = Tail(Queue) /\ Queue # <<>> /\ Head(Queue) = Queue[1]
  <2>1. n \in 0 .. Len(Queue) /\ Len(u) = Len(Queue) - n
    BY <1>1, <1>2, <1>6
  <2> QED
    BY <1>1, <1>6, <2>1, IsRest
<1>8. n = 1 => Queue[1] = m_buffer[Position]
  <2> SUFFICES ASSUME n = 1 PROVE Queue[1] = m_buffer[Position]
    OBVIOUS
  <2>1. 1 \in 1 .. m /\ 0 \in 0 .. BufferSize /\ Position \in 0 .. BufferSize - 1
    BY <1>1, <1>2 DEF Ring
  <2>2. Forward(Position, 0) = Position
    BY <1>1, <2>1, ForwardIs
  <2>3. Queue[1] = m_buffer[Forward(Position, 1 - 1)]
    BY <1>1, <2>1
  <2> QED
    BY <2>2, <2>3
<1> QED
  BY <1>7, <1>8 DEF u

\* What the callback discards is dropped from the queue.
LEMMA Drops ==
  ASSUME Inv, NEW n \in 0 .. Between(Position, m_wpos), Position' = Forward(Position, n),
         UNCHANGED <<m_buffer, m_wpos, made, heard>>
  PROVE  Promise!Drop \/ UNCHANGED Promise!vars
<1>1. CASE n = 0
  BY <1>1, Advanced DEF Promise!vars, Queue
<1>2. CASE n # 0
  <2>1. n \in 1 .. Len(Queue)
    BY <1>2, QueueIs, SizeIsPositive
  <2>2. Queue' = SubSeq(Queue, n + 1, Len(Queue))
    BY Advanced
  <2> QED
    BY <2>1, <2>2 DEF Promise!Drop, Queue
<1> QED
  BY <1>1, <1>2

\* The callback takes frames and drops some; its other steps do not show.
LEMMA AudioImplements ==
  ASSUME Inv, Audio PROVE Promise!Take \/ Promise!Drop \/ UNCHANGED Promise!vars
<1> DEFINE n == Between(Position, m_wpos)
<1>1. /\ UNCHANGED <<m_buffer, m_wpos, made>>
  BY DEF Audio, ReadFrames, StretchReadFrames, Restart, LimitInput, ReadFrame, StoreRpos, ring
<1>2. /\ Position \in Ring /\ n \in 0 .. BufferSize - 1 /\ BufferSize \in Nat
      /\ reader.left \in Nat /\ (reader # Idle => reader.left <= n)
  BY QueueIs, Numbers DEF Inv
<1>3. CASE Position' = Position /\ UNCHANGED heard
  BY <1>1, <1>3 DEF Promise!vars, Queue
<1>4. CASE ReadFrames
  <2>1. reader = Idle /\ UNCHANGED <<m_rpos, heard>>
    BY <1>4 DEF ReadFrames, ring
  <2>2. Position' = Position
    BY <1>4, <2>1 DEF ReadFrames, Copy, Position, Idle
  <2> QED
    BY <1>3, <2>1, <2>2
<1>5. CASE StretchReadFrames
  <2>1. Position' = Position /\ UNCHANGED heard
    BY <1>5 DEF StretchReadFrames, Position, ring, Idle
  <2> QED
    BY <1>3, <2>1
<1>6. CASE Restart
  <2>1. PICK k \in 0 .. reader.left :
           /\ m_rpos' = Forward(m_rpos, k) /\ reader.rpos = m_rpos /\ reader.left <= Available
           /\ reader' = [pc |-> "limit", rpos |-> m_rpos', left |-> reader.left - k]
           /\ UNCHANGED <<m_buffer, m_wpos, m_callback_frames, made, writer, heard>>
    BY <1>6, Restarted
  <2>2. reader # Idle /\ Position = m_rpos /\ Position' = m_rpos'
    BY <1>6, <2>1 DEF Restart, Position, Idle
  <2>3. k \in 0 .. n
    BY <1>2, <2>1, <2>2
  <2> QED
    BY <2>1, <2>2, <2>3, Drops
<1>7. CASE LimitInput
  <2>1. PICK k \in 0 .. reader.left, left \in Nat :
           /\ m_rpos' = Forward(m_rpos, k) /\ reader.rpos = m_rpos /\ reader.left <= Available
           /\ reader' = Copy(m_rpos', left) /\ left <= reader.left - k
           /\ UNCHANGED <<m_buffer, m_wpos, m_callback_frames, made, writer, heard>>
    BY <1>7, Limited
  <2>2. reader # Idle /\ Position = m_rpos /\ Position' = m_rpos'
    BY <1>7, <2>1 DEF LimitInput, Position, Idle, Copy
  <2>3. k \in 0 .. n
    BY <1>2, <2>1, <2>2
  <2> QED
    BY <2>1, <2>2, <2>3, Drops
<1>8. CASE ReadFrame
  <2>1. /\ reader.pc = "copy" /\ reader # Idle /\ heard' = m_buffer[reader.rpos]
        /\ reader'.pc # "idle" /\ reader'.rpos = Forward(reader.rpos, 1)
    BY <1>8 DEF ReadFrame, Idle, Inv, Types
  <2>2. Position = reader.rpos /\ Position' = Forward(Position, 1)
    BY <2>1 DEF Position, Idle
  <2>3. 1 \in 0 .. n
    BY <1>2, <2>1 DEF Inv, ReaderInv
  <2>4. Queue' = Tail(Queue) /\ Queue # <<>> /\ Head(Queue) = m_buffer[Position]
    BY <1>1, <2>2, <2>3, Advanced
  <2> QED
    BY <1>1, <2>1, <2>2, <2>4 DEF Promise!Take, Queue
<1>9. CASE StoreRpos
  <2>1. Position' = Position /\ UNCHANGED heard
    BY <1>9 DEF StoreRpos, Position, Idle
  <2> QED
    BY <1>3, <2>1
<1> QED
  BY <1>4, <1>5, <1>6, <1>7, <1>8, <1>9 DEF Audio

\* The core thread's steps put a batch, lose one, or drop everything.
LEMMA CoreImplements ==
  ASSUME Inv, Core PROVE Promise!Next \/ UNCHANGED Promise!vars
<1>1. CASE BeginWrite \/ SetPaused \/ EmptyStretchBuffers
  <2>1. UNCHANGED <<m_buffer, m_wpos, m_rpos, reader, made, heard>>
    BY <1>1 DEF BeginWrite, SetPaused, EmptyStretchBuffers, ring
  <2> QED
    BY <2>1 DEF Promise!vars, Position
<1>2. CASE LoseFrames
  <2>1. UNCHANGED <<m_buffer, m_wpos, m_rpos, reader, heard>> /\ made' > made
    BY <1>2, SizesAssumption DEF LoseFrames, ring, Inv, Types
  <2> QED
    BY <2>1 DEF Promise!Next, Promise!Lose, Position
<1>3. CASE WriteFrame
  <2>1. Queue' = Queue /\ UNCHANGED <<made, heard>>
    BY <1>3, WriteFrameStutters DEF WriteFrame
  <2> QED
    BY <2>1 DEF Promise!vars, Queue
<1>4. CASE EndWrite
  BY <1>4, EndWriteImplements DEF Promise!Next
<1>5. CASE CreateOutputStream
  <2>1. UNCHANGED <<m_buffer, made, heard, reader>> /\ m_wpos' = 0 /\ m_rpos' = 0 /\ reader = Idle
    BY <1>5 DEF CreateOutputStream
  <2>2. Between(0, 0) = 0
    BY SizeIsPositive, BetweenIs DEF Ring
  <2>3. Between(Position', m_wpos') = 0
    BY <2>1, <2>2 DEF Position
  <2>4. Queue' = <<>>
    BY <2>3 DEF Queue
  <2>5. Queue \in Seq(Nat) /\ Len(Queue) \in Nat
    BY QueueIs
  <2>6. CASE Queue = <<>>
    BY <2>1, <2>4, <2>6 DEF Promise!vars, Queue
  <2>7. CASE Queue # <<>>
    <3>1. Len(Queue) \in 1 .. Len(Queue)
      BY <2>5, <2>7
    <3>2. SubSeq(Queue, Len(Queue) + 1, Len(Queue)) = <<>>
      BY <2>5, SubSeqEmpty
    <3> QED
      BY <2>1, <2>4, <3>1, <3>2 DEF Promise!Next, Promise!Drop, Queue
  <2> QED
    BY <2>6, <2>7
<1> QED
  BY <1>1, <1>2, <1>3, <1>4, <1>5 DEF Core

\* The initial queue is empty.
LEMMA PromiseInit == Init => Promise!Init
<1> SUFFICES ASSUME Init PROVE Promise!Init
  OBVIOUS
<1>1. m_wpos = 0 /\ Position = 0 /\ made = 0 /\ heard = 0
  BY DEF Init, Position, Idle
<1>2. Between(0, 0) = 0
  BY SizeIsPositive, BetweenIs DEF Ring
<1>3. Queue = <<>>
  BY <1>1, <1>2 DEF Queue
<1> QED
  BY <1>1, <1>3 DEF Promise!Init, Queue

\* Every step is a step of AudioQueue, or leaves it as it is.
LEMMA PromiseNext == Inv /\ [Next]_vars => [Promise!Next]_(Promise!vars)
<1> SUFFICES ASSUME Inv, [Next]_vars PROVE Promise!Next \/ UNCHANGED Promise!vars
  OBVIOUS
<1>1. CASE Core
  BY <1>1, CoreImplements
<1>2. CASE Audio
  BY <1>2, AudioImplements DEF Promise!Next
<1>3. CASE UNCHANGED vars
  BY <1>3 DEF vars, ring, Promise!vars, Position
<1> QED
  BY <1>1, <1>2, <1>3 DEF Next

\* The device hears the frames in the order in which they were made, none of
\* them twice, none half written and none from before the stream was created
\* anew: the stream implements AudioQueue.
THEOREM StreamImplementsAudioQueue == Spec => ImplementsAudioQueue
<1> QED
  BY InvInit, InvNext, PromiseInit, PromiseNext, PTL DEF Spec, ImplementsAudioQueue, Promise!Spec
=============================================================================
