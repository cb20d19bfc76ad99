------------------------------ MODULE DMAProofs ------------------------------
(***************************************************************************)
(* Theorems about the DMA controller and the macroblock decoder, DMA.tla.  *)
(*                                                                         *)
(* The calls nest, so what has to be shown of the registers when the last  *)
(* one has returned depends on every activation that is still waiting.     *)
(* Activations are counted from the bottom of the stack, where a call      *)
(* leaves them alone: a step changes the top one, and may add one above.   *)
(***************************************************************************)
EXTENDS DMA, TLAPS, FiniteSetTheorems

Functions == {"transfer", "list", "block", "block_done", "unhalt", "dpcr", "execute", "status_in", "status_out"}
Activations == [fn : Functions, channel : 0 .. SPU + 1, addr : Int, left : Int, ticks : Int]
ChannelTypes == [base : Int, blocks : Int, mode : {"Manual", "Request", "LinkedList"},
                 busy : BOOLEAN, request : BOOLEAN, enabled : BOOLEAN]

\* The d-th activation of a stack from the bottom.
Act(s, d) == s[Len(s) + 1 - d]
Upper(s) == Act(s, Len(s))

\* One of a set is on the stack, or below the one that runs.
Has(s, S) == \E d \in 1 .. Len(s) : Act(s, d) \in S
Waits(s, S) == \E d \in 1 .. Len(s) - 1 : Act(s, d) \in S

\* What the running activation does to the stack.
Kept(s, t) ==
  /\ t \in Seq(Activations) /\ Len(t) >= Len(s) - 1
  /\ \A d \in 1 .. Len(s) - 1 : Act(t, d) = Act(s, d)
Pops(s, t) == Kept(s, t) /\ Len(t) = Len(s) - 1
Becomes(s, t, g) == Kept(s, t) /\ Len(t) = Len(s) /\ Act(t, Len(s)) = g
CallsAs(s, t, f, g) == Kept(s, t) /\ Len(t) = Len(s) + 1 /\ Act(t, Len(s)) = g /\ Act(t, Len(s) + 1) = f

\* The first activation of an empty stack.
Starts(t, f) == t \in Seq(Activations) /\ Len(t) = 1 /\ Act(t, 1) = f

-----------------------------------------------------------------------------
(* The stack *)

\* The running activation is the last one.
LEMMA TopIs ==
  ASSUME NEW s \in Seq(Activations), s # <<>>
  PROVE  /\ Len(s) \in Nat \ {0} /\ Head(s) = Upper(s) /\ Upper(s) \in Activations
         /\ \A d \in 1 .. Len(s) : Act(s, d) \in Activations
  BY DEF Act, Upper

\* A return leaves the activations below.
LEMMA Popped ==
  ASSUME NEW s \in Seq(Activations), s # <<>>
  PROVE  Pops(s, <<>> \o Tail(s))
<1>1. <<>> \o Tail(s) = Tail(s)
  OBVIOUS
<1>2. Tail(s) \in Seq(Activations) /\ Len(Tail(s)) = Len(s) - 1 /\ Len(s) \in Nat \ {0}
  OBVIOUS
<1>3. \A d \in 1 .. Len(s) - 1 : Act(Tail(s), d) = Act(s, d)
  BY <1>2 DEF Act
<1> QED
  BY <1>1, <1>2, <1>3 DEF Pops, Kept

\* An activation that goes on leaves those below alone.
LEMMA Became ==
  ASSUME NEW s \in Seq(Activations), s # <<>>, NEW g \in Activations
  PROVE  Becomes(s, <<g>> \o Tail(s), g)
<1>2. Tail(s) \in Seq(Activations) /\ Len(Tail(s)) = Len(s) - 1 /\ Len(s) \in Nat \ {0}
  OBVIOUS
<1>3. <<g>> \o Tail(s) \in Seq(Activations) /\ Len(<<g>> \o Tail(s)) = Len(s)
  BY <1>2
<1>4. \A d \in 1 .. Len(s) - 1 : Act(<<g>> \o Tail(s), d) = Act(s, d)
  BY <1>2, <1>3 DEF Act
<1>5. Act(<<g>> \o Tail(s), Len(s)) = g
  BY <1>2, <1>3 DEF Act
<1> QED
  BY <1>2, <1>3, <1>4, <1>5 DEF Becomes, Kept

\* Nor does a call touch them.
LEMMA Called ==
  ASSUME NEW s \in Seq(Activations), s # <<>>, NEW f \in Activations, NEW g \in Activations
  PROVE  CallsAs(s, <<f>> \o <<g>> \o Tail(s), f, g)
<1> DEFINE t == <<f>> \o <<g>> \o Tail(s)
<1>2. Tail(s) \in Seq(Activations) /\ Len(Tail(s)) = Len(s) - 1 /\ Len(s) \in Nat \ {0}
  OBVIOUS
<1>3. t \in Seq(Activations) /\ Len(t) = Len(s) + 1
  BY <1>2
<1>4. t[1] = f /\ t[2] = g /\ \A i \in 3 .. Len(s) + 1 : t[i] = s[i - 1]
  BY <1>2
<1> HIDE DEF t
<1>5. \A d \in 1 .. Len(s) - 1 : Act(t, d) = Act(s, d)
  BY <1>2, <1>3, <1>4 DEF Act
<1>6. Act(t, Len(s)) = g /\ Act(t, Len(s) + 1) = f
  <2>1. Len(t) + 1 - Len(s) = 2 /\ Len(t) + 1 - (Len(s) + 1) = 1
    BY <1>2, <1>3
  <2> QED
    BY <1>4, <2>1 DEF Act
<1>7. CallsAs(s, t, f, g)
  BY <1>2, <1>3, <1>5, <1>6 DEF CallsAs, Kept
<1> QED
  BY <1>7 DEF t

\* Nothing but the new activation is on a stack that was empty.
LEMMA Started ==
  ASSUME NEW f \in Activations
  PROVE  Starts(<<f>>, f)
  BY DEF Starts, Act

\* The two forms of the code's calls.
LEMMA TailCalled ==
  ASSUME NEW s \in Seq(Activations), s # <<>>, NEW condition, NEW f \in Activations
  PROVE  /\ condition => Becomes(s, If(condition, f) \o Tail(s), f)
         /\ ~condition => Pops(s, If(condition, f) \o Tail(s))
  BY Popped, Became DEF If

\* The same, of a call after which the activation goes on.
LEMMA CalledThen ==
  ASSUME NEW s \in Seq(Activations), s # <<>>, NEW condition, NEW f \in Activations, NEW g \in Activations
  PROVE  /\ condition => CallsAs(s, If(condition, f) \o <<g>> \o Tail(s), f, g)
         /\ ~condition => Becomes(s, If(condition, f) \o <<g>> \o Tail(s), g)
<1>1. CASE condition
  BY <1>1, Called DEF If
<1>2. CASE ~condition
  <2>1. If(condition, f) \o <<g>> \o Tail(s) = <<g>> \o Tail(s)
    BY <1>2 DEF If
  <2> QED
    BY <1>2, <2>1, Became
<1> QED
  BY <1>1, <1>2

\* What is on the stack before and after a step.
LEMMA HasNow ==
  ASSUME NEW s \in Seq(Activations), s # <<>>, NEW S
  PROVE  Has(s, S) <=> Waits(s, S) \/ Upper(s) \in S
<1>1. Len(s) \in Nat \ {0}
  OBVIOUS
<1> QED
  BY <1>1 DEF Has, Waits, Upper

\* After a return.
LEMMA HasPopped ==
  ASSUME NEW s \in Seq(Activations), s # <<>>, NEW t, Pops(s, t), NEW S
  PROVE  Has(t, S) <=> Waits(s, S)
  BY DEF Has, Waits, Pops, Kept

\* When the running activation has gone on.
LEMMA HasBecome ==
  ASSUME NEW s \in Seq(Activations), s # <<>>, NEW t, NEW g, Becomes(s, t, g), NEW S
  PROVE  (Has(t, S) <=> Waits(s, S) \/ g \in S) /\ t # <<>> /\ Upper(t) = g
<1>1. Len(s) \in Nat \ {0} /\ Len(t) = Len(s) /\ t \in Seq(Activations)
  BY DEF Becomes, Kept
<1>2. Has(t, S) <=> Waits(t, S) \/ Act(t, Len(t)) \in S
  BY <1>1 DEF Has, Waits
<1>3. Waits(t, S) <=> Waits(s, S)
  BY <1>1 DEF Waits, Becomes, Kept
<1> QED
  BY <1>1, <1>2, <1>3 DEF Becomes, Upper

\* After a call.
LEMMA HasCalled ==
  ASSUME NEW s \in Seq(Activations), s # <<>>, NEW t, NEW f, NEW g, CallsAs(s, t, f, g), NEW S
  PROVE  (Has(t, S) <=> Waits(s, S) \/ g \in S \/ f \in S) /\ t # <<>> /\ Upper(t) = f
<1>1. Len(s) \in Nat \ {0} /\ Len(t) = Len(s) + 1 /\ t \in Seq(Activations)
  BY DEF CallsAs, Kept
<1>2. Has(t, S) <=> (\E d \in 1 .. Len(s) - 1 : Act(t, d) \in S) \/ Act(t, Len(s)) \in S \/ Act(t, Len(s) + 1) \in S
  BY <1>1 DEF Has
<1>3. (\E d \in 1 .. Len(s) - 1 : Act(t, d) \in S) <=> Waits(s, S)
  BY <1>1 DEF Waits, CallsAs, Kept
<1> QED
  BY <1>1, <1>2, <1>3 DEF CallsAs, Upper

\* On a stack of one.
LEMMA HasStarted ==
  ASSUME NEW t, NEW f, Starts(t, f), NEW S
  PROVE  (Has(t, S) <=> f \in S) /\ t # <<>> /\ Upper(t) = f
<1>1. Len(t) = 1 /\ Len(<<>>) = 0
  BY DEF Starts
<1>2. t # <<>>
  BY <1>1
<1> QED
  BY <1>2 DEF Has, Upper, Starts

\* On an empty one.
LEMMA HasNone ==
  ASSUME NEW S
  PROVE  ~Has(<<>>, S)
  BY DEF Has

-----------------------------------------------------------------------------
(* The inductive invariant *)

Types ==
  /\ channels \in [Channels -> ChannelTypes]
  /\ \A c \in Channels : channels[c].busy => channels[c].mode = Mode(c)
  /\ state \in {"Idle", "Decoding", "SetTable", "NoCommand", "Writing"}
  /\ enable_dma_in \in BOOLEAN /\ enable_dma_out \in BOOLEAN
  /\ data_in \in Nat /\ data_out \in Nat /\ remaining \in Nat /\ current \in 0 .. MacroblockWords
  /\ copy_out_event = (state = "Writing")

IsTransfer(f) == f.fn \in {"transfer", "list", "block", "block_done"}
IsLoop(f) == f.fn \in {"unhalt", "dpcr"}
Updates == {"execute", "status_in", "status_out"}
IsUpdate(f) == f.fn \in Updates

\* What an activation can be.
Proper(f) ==
  /\ f \in Activations
  /\ IsLoop(f) => f.channel >= MDECin
  /\ IsTransfer(f) => f.channel \in Channels
  /\ f.fn = "list" => f.channel = GPU
  /\ f.fn \in {"block", "block_done"} => f.channel \in {MDECin, MDECout}

\* Which calls another: what waits for a call, a loop that is the first one,
\* the decoder that a block of the channel out has called, a transfer that is
\* the only one of its channel.
Waiting == {"status_out", "block_done", "unhalt", "dpcr"}
OutDone(f) == f.fn = "block_done" /\ f.channel = MDECout
Shape(s) ==
  /\ s \in Seq(Activations)
  /\ \A d \in 1 .. Len(s) :
       Proper(Act(s, d)) /\ (d < Len(s) => Act(s, d).fn \in Waiting) /\ (d > 1 => ~IsLoop(Act(s, d)))
  /\ \A d \in 1 .. Len(s) - 1 : OutDone(Act(s, d)) => IsUpdate(Act(s, d + 1))
  /\ \A d, e \in 1 .. Len(s) :
       IsTransfer(Act(s, d)) /\ IsTransfer(Act(s, e)) /\ Act(s, d).channel = Act(s, e).channel => d = e

\* A transfer of the channel is under way, and moves a block.
TransfersOf(c) == {f \in Activations : IsTransfer(f) /\ f.channel = c}
MovesOf(c) == {f \in Activations : f.fn \in {"block", "block_done"} /\ f.channel = c}

ActiveInv == \A c \in Channels : Has(stack, TransfersOf(c)) => channels[c].busy

Unhalts == {f \in Activations : f.fn = "unhalt"}

\* The halt.  Only while the loop after it runs are there ticks and no event.
HaltInv ==
  /\ unhalt_event \in Nat /\ halt_ticks_remaining \in Nat /\ halt_ticks_remaining >= unhalt_event
  /\ IsTransferHalted \/ halt_ticks_remaining = 0 \/ Has(stack, Unhalts)
  /\ IsTransferHalted \/ result

\* A loop will come to the channel.
LoopsTo(c) == {f \in Activations : IsLoop(f) /\ f.channel <= c}

StallInv ==
  \A c \in Channels :
    channels[c].busy /\ channels[c].enabled /\ channels[c].request =>
      IsTransferHalted \/ Has(stack, TransfersOf(c)) \/ Has(stack, LoopsTo(c))

\* Execute has nothing to do until it is given more words, or room for a
\* macroblock.
Quiet ==
  /\ state = "Idle" => data_in = 0
  /\ state = "Decoding" => current = MacroblockWords \/ (data_in = 0 /\ remaining > 0)
  /\ state = "SetTable" => data_in < remaining
  /\ state = "NoCommand" => data_in = 0 /\ remaining > 0

Runs(s, f) == s # <<>> /\ Upper(s).fn = f
RunsFor(s, c) == s # <<>> /\ IsTransfer(Upper(s)) /\ Upper(s).channel = c
UpdateSteps == {f \in Activations : IsUpdate(f)}

\* The requests of the decoder's channels.  A channel whose transfer is under
\* way is not requested anew, as that would run another one.
InRequested ==
  /\ Quiet \/ Runs(stack, "execute")
  /\ Runs(stack, "execute") \/ Runs(stack, "status_in") \/ channels[MDECin].request = WantsData
  /\ Has(stack, TransfersOf(MDECin)) => channels[MDECin].request \/ (Quiet /\ ~WantsData)
OutRequested ==
  /\ Has(stack, UpdateSteps) \/ channels[MDECout].request = HasData
  /\ Has(stack, TransfersOf(MDECout)) /\ HasData => channels[MDECout].request
  /\ RunsFor(stack, MDECout) /\ channels[MDECout].request => HasData
RunRequested ==
  Runs(stack, "transfer") \/ Runs(stack, "block") => channels[Upper(stack).channel].request

\* The blocks moved so far follow one another, and the transfer is to go on at
\* this address with so many blocks left.
Regular(m) == m \in Seq(Int) /\ Len(m) <= Blocks /\ \A i \in 1 .. Len(m) : m[i] = m[1] + (i - 1) * BlockWords
GoesOn(m, addr, left) ==
  /\ left \in Nat /\ Len(m) + left = Blocks
  /\ m # <<>> => addr = m[1] + Len(m) * BlockWords

MDECs == {MDECin, MDECout}
IsAt(f, m) ==
  /\ f.fn = "block" => GoesOn(m, f.addr, f.left) /\ f.left > 0
  /\ f.fn = "block_done" => GoesOn(m, f.addr + BlockWords, f.left - 1)

MovedInv ==
  /\ moved \in [Channels -> Seq(Int)] /\ \A c \in MDECs : Regular(moved[c])
  /\ \A c \in MDECs :
       channels[c].busy /\ ~Has(stack, MovesOf(c)) =>
         GoesOn(moved[c], channels[c].base, channels[c].blocks) /\ channels[c].blocks > 0
  /\ \A d \in 1 .. Len(stack) : IsAt(Act(stack, d), moved[Act(stack, d).channel])

Inv ==
  Types /\ Shape(stack) /\ ActiveInv /\ HaltInv /\ StallInv /\ InRequested /\ OutRequested /\ RunRequested /\ MovedInv

-----------------------------------------------------------------------------
(* Stacks keep their shape *)

\* What the running activation may go on as.
Fits(s, g) ==
  /\ Proper(g) /\ (IsLoop(g) => IsLoop(Upper(s)))
  /\ IsTransfer(g) => \/ IsTransfer(Upper(s)) /\ g.channel = Upper(s).channel
                      \/ ~Has(s, TransfersOf(g.channel))
  /\ IsUpdate(Upper(s)) => IsUpdate(g) \/ ~Has(s, TransfersOf(MDECout))

\* What it may call then.
FitsAbove(s, f, g) ==
  /\ Proper(f) /\ ~IsLoop(f) /\ g.fn \in Waiting /\ (OutDone(g) => IsUpdate(f))
  /\ IsTransfer(f) => ~Has(s, TransfersOf(f.channel)) /\ ~(IsTransfer(g) /\ g.channel = f.channel)

\* A return.
LEMMA ShapePopped ==
  ASSUME NEW s, Shape(s), s # <<>>, NEW t, Pops(s, t)
  PROVE  Shape(t)
<1>1. Len(s) \in Nat \ {0} /\ s \in Seq(Activations)
  BY DEF Shape
<1>2. /\ t \in Seq(Activations) /\ Len(t) = Len(s) - 1
      /\ \A d \in 1 .. Len(t) : d \in 1 .. Len(s) /\ d < Len(s) /\ Act(t, d) = Act(s, d)
  BY <1>1 DEF Pops, Kept
<1>3. \A d \in 1 .. Len(t) :
        Proper(Act(t, d)) /\ (d < Len(t) => Act(t, d).fn \in Waiting) /\ (d > 1 => ~IsLoop(Act(t, d)))
  BY <1>1, <1>2 DEF Shape
<1>4. \A d \in 1 .. Len(t) - 1 : OutDone(Act(t, d)) => IsUpdate(Act(t, d + 1))
  BY <1>1, <1>2 DEF Shape
<1>5. \A d, e \in 1 .. Len(t) :
        IsTransfer(Act(t, d)) /\ IsTransfer(Act(t, e)) /\ Act(t, d).channel = Act(t, e).channel => d = e
  BY <1>2 DEF Shape
<1> QED
  BY <1>2, <1>3, <1>4, <1>5 DEF Shape

\* The activation goes on.
LEMMA ShapeBecome ==
  ASSUME NEW s, Shape(s), s # <<>>, NEW t, NEW g, Becomes(s, t, g), Fits(s, g)
  PROVE  Shape(t)
<1>1. Len(s) \in Nat \ {0} /\ s \in Seq(Activations)
  BY DEF Shape
<1>2. /\ t \in Seq(Activations) /\ Len(t) = Len(s) /\ Act(t, Len(s)) = g
      /\ \A d \in 1 .. Len(s) - 1 : d \in 1 .. Len(s) /\ d < Len(s) /\ Act(t, d) = Act(s, d)
      /\ \A d \in 1 .. Len(s) : d = Len(s) \/ d \in 1 .. Len(s) - 1
  BY <1>1 DEF Becomes, Kept
<1>3. \A d \in 1 .. Len(s) - 1 : Proper(Act(s, d)) /\ Act(s, d).fn \in Waiting /\ (d > 1 => ~IsLoop(Act(s, d)))
  BY <1>1, <1>2 DEF Shape
<1>4. Len(s) > 1 => ~IsLoop(g)
  BY <1>1 DEF Shape, Fits, Upper
<1>5. \A d \in 1 .. Len(t) :
        Proper(Act(t, d)) /\ (d < Len(t) => Act(t, d).fn \in Waiting) /\ (d > 1 => ~IsLoop(Act(t, d)))
  BY <1>2, <1>3, <1>4 DEF Fits
<1>6. \A d \in 1 .. Len(s) - 1 : IsTransfer(Act(s, d)) => Act(s, d) \in TransfersOf(Act(s, d).channel)
  BY <1>3 DEF TransfersOf, Proper
<1>7. \A d \in 1 .. Len(s) - 1 : IsTransfer(g) /\ IsTransfer(Act(s, d)) => Act(s, d).channel # g.channel
  <2> SUFFICES ASSUME NEW d \in 1 .. Len(s) - 1, IsTransfer(g), IsTransfer(Act(s, d)), Act(s, d).channel = g.channel
               PROVE  FALSE
    OBVIOUS
  <2>1. Has(s, TransfersOf(g.channel))
    BY <1>2, <1>6 DEF Has
  <2>2. IsTransfer(Upper(s)) /\ g.channel = Upper(s).channel
    BY <2>1 DEF Fits
  <2>3. d = Len(s)
    BY <1>1, <1>2, <2>2 DEF Shape, Upper
  <2> QED
    BY <1>1, <2>3
<1>8. \A d \in 1 .. Len(t) - 1 : OutDone(Act(t, d)) => IsUpdate(Act(t, d + 1))
  <2> SUFFICES ASSUME NEW d \in 1 .. Len(s) - 1, OutDone(Act(s, d)), ~IsUpdate(Act(t, d + 1))
               PROVE  FALSE
    BY <1>2
  <2>1. IsUpdate(Act(s, d + 1)) /\ IsTransfer(Act(s, d)) /\ Act(s, d).channel = MDECout
    BY DEF Shape, OutDone, IsTransfer
  <2>2. CASE d + 1 = Len(s)
    <3>1. IsUpdate(Upper(s)) /\ ~IsUpdate(g)
      BY <1>2, <2>1, <2>2 DEF Upper
    <3>2. Has(s, TransfersOf(MDECout))
      BY <1>2, <1>6, <2>1 DEF Has
    <3> QED
      BY <3>1, <3>2 DEF Fits
  <2>3. CASE d + 1 # Len(s)
    <3>1. d + 1 \in 1 .. Len(s) - 1
      BY <1>1, <2>3
    <3> QED
      BY <1>2, <2>1, <3>1
  <2> QED
    BY <2>2, <2>3
<1>9. \A d, e \in 1 .. Len(t) :
        IsTransfer(Act(t, d)) /\ IsTransfer(Act(t, e)) /\ Act(t, d).channel = Act(t, e).channel => d = e
  <2> SUFFICES ASSUME NEW d \in 1 .. Len(t), NEW e \in 1 .. Len(t), IsTransfer(Act(t, d)), IsTransfer(Act(t, e)),
                      Act(t, d).channel = Act(t, e).channel
               PROVE  d = e
    OBVIOUS
  <2>1. CASE d \in 1 .. Len(s) - 1 /\ e \in 1 .. Len(s) - 1
    BY <1>2, <2>1 DEF Shape
  <2>2. CASE d = Len(s) \/ e = Len(s)
    BY <1>2, <1>7, <2>2
  <2> QED
    BY <1>2, <2>1, <2>2
<1> QED
  BY <1>2, <1>5, <1>8, <1>9 DEF Shape

\* A call.
LEMMA ShapeCalled ==
  ASSUME NEW s, Shape(s), s # <<>>, NEW t, NEW f, NEW g, CallsAs(s, t, f, g), Fits(s, g), FitsAbove(s, f, g)
  PROVE  Shape(t)
<1>1. Len(s) \in Nat \ {0} /\ s \in Seq(Activations)
  BY DEF Shape
<1> DEFINE u == SubSeq(t, 2, Len(t))
<1>2. t \in Seq(Activations) /\ Len(t) = Len(s) + 1 /\ Act(t, Len(s)) = g /\ Act(t, Len(s) + 1) = f
  BY DEF CallsAs, Kept
<1>3. u \in Seq(Activations) /\ Len(u) = Len(s) /\ \A i \in 1 .. Len(s) : u[i] = t[i + 1]
  BY <1>1, <1>2
<1> HIDE DEF u
<1>4. \A d \in 1 .. Len(s) : Act(u, d) = Act(t, d)
  <2> TAKE d \in 1 .. Len(s)
  <2>1. Len(u) + 1 - d \in 1 .. Len(s) /\ Len(u) + 1 - d + 1 = Len(t) + 1 - d
    BY <1>1, <1>2, <1>3
  <2> QED
    BY <1>3, <2>1 DEF Act
<1>5. Becomes(s, u, g)
  BY <1>1, <1>2, <1>3, <1>4 DEF CallsAs, Becomes, Kept
<1>6. Shape(u)
  BY <1>5, ShapeBecome
<1>7. /\ \A d \in 1 .. Len(t) : d = Len(t) \/ d \in 1 .. Len(s)
      /\ \A d \in 1 .. Len(s) : d < Len(t) /\ (d = Len(s) \/ d < Len(s)) /\ d \in 1 .. Len(u)
  BY <1>1, <1>2, <1>3
<1>8. \A d \in 1 .. Len(t) :
        Proper(Act(t, d)) /\ (d < Len(t) => Act(t, d).fn \in Waiting) /\ (d > 1 => ~IsLoop(Act(t, d)))
  BY <1>2, <1>3, <1>4, <1>6, <1>7 DEF Shape, FitsAbove
<1>9. \A d \in 1 .. Len(t) - 1 : OutDone(Act(t, d)) => IsUpdate(Act(t, d + 1))
  <2> SUFFICES ASSUME NEW d \in 1 .. Len(s), OutDone(Act(t, d))
               PROVE  IsUpdate(Act(t, d + 1))
    BY <1>1, <1>2
  <2>1. CASE d = Len(s)
    BY <1>2, <2>1 DEF FitsAbove
  <2>2. CASE d # Len(s)
    <3>1. d \in 1 .. Len(u) - 1 /\ d + 1 \in 1 .. Len(s)
      BY <1>1, <1>3, <2>2
    <3> QED
      BY <1>4, <1>6, <3>1 DEF Shape
  <2> QED
    BY <2>1, <2>2
<1>10. \A d \in 1 .. Len(s) : IsTransfer(f) /\ IsTransfer(Act(t, d)) => Act(t, d).channel # f.channel
  <2> SUFFICES ASSUME NEW d \in 1 .. Len(s), IsTransfer(f), IsTransfer(Act(t, d)), Act(t, d).channel = f.channel
               PROVE  FALSE
    OBVIOUS
  <2>1. CASE d = Len(s)
    BY <1>2, <2>1 DEF FitsAbove
  <2>2. CASE d # Len(s)
    <3>1. d \in 1 .. Len(s) - 1
      BY <1>1, <2>2
    <3>2. Act(t, d) = Act(s, d) /\ Act(s, d) \in Activations
      BY <3>1 DEF CallsAs, Kept, Shape, Proper
    <3>3. Has(s, TransfersOf(f.channel))
      BY <3>2 DEF Has, TransfersOf
    <3> QED
      BY <3>3 DEF FitsAbove
  <2> QED
    BY <2>1, <2>2
<1>11. \A d, e \in 1 .. Len(t) :
         IsTransfer(Act(t, d)) /\ IsTransfer(Act(t, e)) /\ Act(t, d).channel = Act(t, e).channel => d = e
  <2> SUFFICES ASSUME NEW d \in 1 .. Len(t), NEW e \in 1 .. Len(t), IsTransfer(Act(t, d)), IsTransfer(Act(t, e)),
                      Act(t, d).channel = Act(t, e).channel
               PROVE  d = e
    OBVIOUS
  <2>1. CASE d \in 1 .. Len(s) /\ e \in 1 .. Len(s)
    BY <1>3, <1>4, <1>6, <2>1 DEF Shape
  <2>2. CASE d = Len(t) \/ e = Len(t)
    BY <1>2, <1>7, <1>10, <2>2
  <2> QED
    BY <1>7, <2>1, <2>2
<1> QED
  BY <1>2, <1>8, <1>9, <1>11 DEF Shape

\* The first activation.
LEMMA ShapeStarted ==
  ASSUME NEW t, NEW f, Starts(t, f), Proper(f)
  PROVE  Shape(t)
<1>1. t \in Seq(Activations) /\ Len(t) = 1 /\ \A d \in 1 .. Len(t) : d = 1 /\ Act(t, d) = f
  BY DEF Starts
<1>2. 1 .. Len(t) - 1 = {}
  BY <1>1
<1> QED
  BY <1>1, <1>2 DEF Shape

\* No activation.
LEMMA ShapeNone == Shape(<<>>)
  BY DEF Shape

\* A transfer is the only one of its channel, a loop the only activation.
LEMMA OnlyOne ==
  ASSUME NEW s, Shape(s), s # <<>>
  PROVE  /\ IsTransfer(Upper(s)) => ~Waits(s, TransfersOf(Upper(s).channel))
         /\ IsLoop(Upper(s)) => \A S : ~Waits(s, S)
<1>1. Len(s) \in Nat \ {0} /\ s \in Seq(Activations)
  BY DEF Shape
<1>2. IsTransfer(Upper(s)) => ~Waits(s, TransfersOf(Upper(s).channel))
  <2> SUFFICES ASSUME IsTransfer(Upper(s)), NEW d \in 1 .. Len(s) - 1, Act(s, d) \in TransfersOf(Upper(s).channel)
               PROVE  FALSE
    BY DEF Waits
  <2>1. d = Len(s)
    BY <1>1 DEF Shape, TransfersOf, Upper
  <2> QED
    BY <1>1, <2>1
<1>3. IsLoop(Upper(s)) => Len(s) = 1
  <2>1. Len(s) \in 1 .. Len(s) /\ (Len(s) > 1 \/ Len(s) = 1)
    <3>1. \A n \in Nat \ {0} : n \in 1 .. n /\ (n > 1 \/ n = 1)
      OBVIOUS
    <3> QED
      BY <1>1, <3>1
  <2> QED
    BY <2>1 DEF Shape, Upper
<1>4. Len(s) = 1 => \A S : ~Waits(s, S)
  BY DEF Waits
<1> QED
  BY <1>2, <1>3, <1>4

\* What a return goes back to: something that was waiting, and a block of the
\* channel out only from the decoder.
LEMMA Revealed ==
  ASSUME NEW s, Shape(s), s # <<>>, NEW t, Pops(s, t), t # <<>>
  PROVE  Upper(t) \in Activations /\ Upper(t).fn \in Waiting /\ (OutDone(Upper(t)) => IsUpdate(Upper(s)))
<1>1. Len(s) \in Nat \ {0} /\ t \in Seq(Activations) /\ Len(t) = Len(s) - 1
  BY DEF Shape, Pops, Kept
<1>2. Len(t) \in Nat \ {0}
  BY <1>1
<1>3. /\ Len(t) \in 1 .. Len(s) - 1 /\ Len(t) \in 1 .. Len(s) /\ Len(t) < Len(s)
      /\ Len(t) + 1 = Len(s) /\ Upper(t) = Act(s, Len(t))
  BY <1>1, <1>2 DEF Pops, Kept, Upper
<1> QED
  BY <1>3 DEF Shape, Proper, Upper

-----------------------------------------------------------------------------
(* What a step leaves alone *)

\* The modes of the channels.
LEMMA Modes ==
  /\ Mode(MDECin) = "Request" /\ Mode(MDECout) = "Request" /\ Mode(GPU) = "LinkedList" /\ Mode(SPU) = "Manual"
  /\ Channels = {MDECin, MDECout, GPU, SPU} /\ MDECs \subseteq Channels /\ MDECin # MDECout
  /\ GPU \notin MDECs /\ SPU \notin MDECs /\ MDECs = {MDECin, MDECout} /\ SPU + 1 \notin Channels
  /\ \A c \in Channels : c + 1 \in 0 .. SPU + 1 /\ c \in 0 .. SPU + 1 /\ c >= MDECin
  BY DEF Mode, Channels, MDECs, MDECin, MDECout, GPU, SPU

\* One channel is changed, but for its mode and whether it is enabled.
Changes(old, new, c) ==
  /\ new \in [Channels -> ChannelTypes]
  /\ \A x \in Channels \ {c} : new[x] = old[x]
  /\ new[c].mode = old[c].mode /\ new[c].enabled = old[c].enabled

\* A channel is stored.
LEMMA Stored ==
  ASSUME channels \in [Channels -> ChannelTypes], NEW c \in Channels,
         NEW a \in Int, NEW l \in Int, NEW b \in BOOLEAN, Store(c, a, l, b)
  PROVE  /\ Changes(channels, channels', c)
         /\ channels'[c].base = a /\ channels'[c].blocks = l /\ channels'[c].busy = b
         /\ channels'[c].request = channels[c].request
  BY DEF Changes, ChannelTypes, Store

\* A device sets its request.
LEMMA RequestSet ==
  ASSUME channels \in [Channels -> ChannelTypes], NEW c \in Channels, NEW r \in BOOLEAN
  PROVE  /\ Changes(channels, Requested(c, r), c)
         /\ Requested(c, r)[c].base = channels[c].base /\ Requested(c, r)[c].blocks = channels[c].blocks
         /\ Requested(c, r)[c].busy = channels[c].busy /\ Requested(c, r)[c].request = r
  BY DEF Changes, ChannelTypes, Requested

\* Nothing that is changed outside the decoder changes what it asks for.
LEMMA DecoderKept ==
  ASSUME mdec' = mdec
  PROVE  /\ Quiet' <=> Quiet
         /\ WantsData' = WantsData /\ HasData' = HasData
         /\ UNCHANGED <<state, enable_dma_in, enable_dma_out, data_in, data_out, remaining, current, copy_out_event>>
<1>1. UNCHANGED <<state, enable_dma_in, enable_dma_out, data_in, data_out, remaining, current, copy_out_event>>
  BY DEF mdec
<1>2. Quiet' <=> Quiet
  BY <1>1 DEF Quiet
<1>3. WantsData' = WantsData
  BY <1>1 DEF WantsData
<1>4. HasData' = HasData
  BY <1>1 DEF HasData
<1> QED
  BY <1>1, <1>2, <1>3, <1>4

\* The halt is begun or left as it is: the loop after a halt still follows.
LEMMA Halted ==
  ASSUME HaltInv, NEW d \in Nat \ {0}, NoHalt \/ HaltTransfer(d)
  PROVE  /\ unhalt_event' \in Nat /\ halt_ticks_remaining' \in Nat /\ halt_ticks_remaining' >= unhalt_event'
         /\ IsTransferHalted => IsTransferHalted'
         /\ HaltTransfer(d) => IsTransferHalted'
         /\ ~IsTransferHalted' => halt_ticks_remaining' = halt_ticks_remaining
  BY DEF HaltInv, NoHalt, HaltTransfer, IsTransferHalted

\* What a program may count on when a transfer is called: the channel can.
LEMMA Can ==
  ASSUME NEW cs \in ChannelTypes
  PROVE  /\ CanTransferChannel(cs, FALSE) => cs.enabled /\ cs.busy /\ cs.request
         /\ cs.enabled /\ cs.busy /\ cs.request => CanTransferChannel(cs, FALSE) \/ IsTransferHalted
         /\ CanTransferChannel(cs, TRUE) <=> cs.enabled /\ cs.busy /\ cs.request
  BY DEF CanTransferChannel, ChannelTypes

\* What a transfer does to the requests of the decoder's channels: nothing, if
\* it leaves them and the decoder alone, and comes back to a transfer of the
\* channel out only with the decoder.
LEMMA RequestsKept ==
  ASSUME Shape(stack), InRequested, OutRequested, stack # <<>>, ~IsUpdate(Upper(stack)), mdec' = mdec,
         \A c \in MDECs : channels'[c].request = channels[c].request,
         ~Runs(stack', "execute"), ~Runs(stack', "status_in"),
         Waits(stack, UpdateSteps) => Has(stack', UpdateSteps),
         \A c \in MDECs : Has(stack', TransfersOf(c)) => Has(stack, TransfersOf(c)) \/ channels[c].request,
         RunsFor(stack', MDECout) => RunsFor(stack, MDECout) \/ ~Waits(stack, UpdateSteps)
  PROVE  InRequested' /\ OutRequested'
<1>1. /\ Quiet' <=> Quiet
      /\ WantsData' = WantsData /\ HasData' = HasData
  BY DecoderKept
<1>2. /\ channels'[MDECin].request = channels[MDECin].request /\ channels'[MDECout].request = channels[MDECout].request
      /\ Has(stack', TransfersOf(MDECin)) => Has(stack, TransfersOf(MDECin)) \/ channels[MDECin].request
      /\ Has(stack', TransfersOf(MDECout)) => Has(stack, TransfersOf(MDECout)) \/ channels[MDECout].request
  BY DEF MDECs
<1>3. Upper(stack) \notin UpdateSteps /\ (Has(stack, UpdateSteps) <=> Waits(stack, UpdateSteps))
  BY HasNow DEF UpdateSteps, Shape
<1>4. ~Runs(stack, "execute") /\ ~Runs(stack, "status_in")
  BY DEF Runs, IsUpdate, Updates
<1>6. InRequested'
  BY <1>1, <1>2, <1>4 DEF InRequested
<1>7. Has(stack', UpdateSteps) \/ channels'[MDECout].request = HasData'
  BY <1>1, <1>2, <1>3 DEF OutRequested
<1>8. Has(stack', TransfersOf(MDECout)) /\ HasData' => channels'[MDECout].request
  BY <1>1, <1>2 DEF OutRequested
<1>9. RunsFor(stack', MDECout) /\ channels'[MDECout].request => HasData'
  BY <1>1, <1>2, <1>3 DEF OutRequested
<1> QED
  BY <1>6, <1>7, <1>8, <1>9 DEF OutRequested

-----------------------------------------------------------------------------
(* Transfers *)

\* What is below the running transfer is about other channels.
LEMMA BelowTransfer ==
  ASSUME Inv, stack # <<>>, IsTransfer(Upper(stack))
  PROVE  /\ stack \in Seq(Activations) /\ Len(stack) \in Nat \ {0} /\ Top = Upper(stack) /\ Upper(stack) \in Activations
         /\ Top.channel \in Channels /\ channels[Top.channel] \in ChannelTypes /\ channels[Top.channel].busy
         /\ channels[Top.channel].mode = Mode(Top.channel)
         /\ ~IsUpdate(Upper(stack)) /\ ~IsLoop(Upper(stack)) /\ Proper(Upper(stack))
         /\ Upper(stack) \in TransfersOf(Top.channel) /\ ~Waits(stack, TransfersOf(Top.channel))
         /\ \A S : Has(stack, S) <=> Waits(stack, S) \/ Top \in S
<1>1. stack \in Seq(Activations) /\ Len(stack) \in Nat \ {0} /\ Top = Upper(stack) /\ Upper(stack) \in Activations
  BY TopIs DEF Inv, Shape, Top
<1>2. Proper(Upper(stack))
  BY <1>1 DEF Inv, Shape, Upper
<1>3. Top.channel \in Channels /\ ~IsUpdate(Upper(stack)) /\ ~IsLoop(Upper(stack))
  BY <1>1, <1>2 DEF Proper, IsTransfer, IsUpdate, Updates, IsLoop
<1>4. Upper(stack) \in TransfersOf(Top.channel)
  BY <1>1 DEF TransfersOf
<1>5. ~Waits(stack, TransfersOf(Top.channel))
  BY <1>1, OnlyOne DEF Inv
<1>6. \A S : Has(stack, S) <=> Waits(stack, S) \/ Top \in S
  BY <1>1, HasNow
<1>7. channels[Top.channel].busy
  BY <1>3, <1>4, <1>1, <1>6 DEF Inv, ActiveInv
<1>8. channels[Top.channel] \in ChannelTypes /\ channels[Top.channel].mode = Mode(Top.channel)
  BY <1>3, <1>7 DEF Inv, Types
<1> QED
  BY <1>1, <1>2, <1>3, <1>4, <1>5, <1>6, <1>7, <1>8

\* The types of what a transfer changes.
LEMMA TransferTypes ==
  ASSUME Inv, stack # <<>>, IsTransfer(Upper(stack)), Changes(channels, channels', Top.channel), mdec' = mdec
  PROVE  Types'
<1>1. Top.channel \in Channels /\ channels[Top.channel].busy /\ channels[Top.channel].mode = Mode(Top.channel)
  BY BelowTransfer
<1>2. channels' \in [Channels -> ChannelTypes] /\ \A c \in Channels : channels'[c].busy => channels'[c].mode = Mode(c)
  BY <1>1 DEF Changes, Inv, Types
<1> QED
  BY <1>2, DecoderKept DEF Inv, Types

\* What a channel keeps when a transfer ends.
Leaves(c) ==
  /\ Changes(channels, channels', c)
  /\ c \in MDECs => channels'[c].request = channels[c].request
  /\ channels'[c].busy /\ channels'[c].enabled /\ channels'[c].request => IsTransferHalted'
  /\ channels'[c].busy /\ c \in MDECs =>
       GoesOn(moved[c], channels'[c].base, channels'[c].blocks) /\ channels'[c].blocks > 0
  /\ (result' \/ IsTransferHalted') /\ (NoHalt \/ HaltTransfer(HaltTicks))

\* A transfer, or a slice of it, ends.
LEMMA TransferEnds ==
  ASSUME Inv, stack # <<>>, IsTransfer(Upper(stack)), stack' = <<>> \o Tail(stack), Leaves(Top.channel),
         UNCHANGED <<mdec, moved>>
  PROVE  Inv'
<1> DEFINE c == Top.channel
<1>1. /\ stack \in Seq(Activations) /\ Len(stack) \in Nat \ {0} /\ Top = Upper(stack) /\ Upper(stack) \in Activations
      /\ c \in Channels /\ channels[c] \in ChannelTypes /\ channels[c].busy /\ channels[c].mode = Mode(c)
      /\ ~IsUpdate(Upper(stack)) /\ ~IsLoop(Upper(stack)) /\ Proper(Upper(stack))
      /\ Upper(stack) \in TransfersOf(c) /\ ~Waits(stack, TransfersOf(c))
      /\ \A S : Has(stack, S) <=> Waits(stack, S) \/ Top \in S
  BY BelowTransfer
<1> HIDE DEF c
<1>2. Pops(stack, stack')
  BY <1>1, Popped
<1>3. \A S : Has(stack', S) <=> Waits(stack, S)
  BY <1>1, <1>2, HasPopped
<1>4. Types'
  BY TransferTypes DEF Leaves
<1>5. Shape(stack')
  BY <1>2, ShapePopped DEF Inv
<1>6. /\ \A x \in Channels \ {c} : channels'[x] = channels[x]
      /\ channels'[c].mode = channels[c].mode /\ channels'[c].enabled = channels[c].enabled
  BY DEF Leaves, Changes, c
<1>7. \A x \in Channels : x # c => Top \notin TransfersOf(x)
  BY DEF TransfersOf, c
<1>8. ActiveInv'
  BY <1>1, <1>3, <1>6 DEF Inv, ActiveInv
<1>9. /\ unhalt_event' \in Nat /\ halt_ticks_remaining' \in Nat /\ halt_ticks_remaining' >= unhalt_event'
      /\ IsTransferHalted => IsTransferHalted'
      /\ ~IsTransferHalted' => halt_ticks_remaining' = halt_ticks_remaining
  <2>1. HaltTicks \in Nat \ {0}
    BY SizesAssumption
  <2> QED
    BY <2>1, Halted DEF Inv, Leaves
<1>10. Top \notin Unhalts
  BY <1>1 DEF Unhalts, IsLoop
<1>11. HaltInv'
  <2>1. IsTransferHalted' \/ halt_ticks_remaining' = 0 \/ Has(stack', Unhalts)
    BY <1>1, <1>3, <1>9, <1>10 DEF Inv, HaltInv
  <2>2. IsTransferHalted' \/ result'
    BY DEF Leaves
  <2> QED
    BY <1>9, <2>1, <2>2 DEF HaltInv
<1>12. StallInv'
  <2> SUFFICES ASSUME NEW x \in Channels, channels'[x].busy, channels'[x].enabled, channels'[x].request,
                      ~IsTransferHalted'
               PROVE  Has(stack', TransfersOf(x)) \/ Has(stack', LoopsTo(x))
    BY DEF StallInv
  <2>1. x # c /\ ~IsTransferHalted
    BY <1>9 DEF Leaves, c
  <2>2. Has(stack, TransfersOf(x)) \/ Has(stack, LoopsTo(x))
    BY <1>6, <2>1 DEF Inv, StallInv
  <2>3. Top \notin LoopsTo(x)
    BY <1>1 DEF LoopsTo
  <2> QED
    BY <1>1, <1>3, <1>7, <2>1, <2>2, <2>3
<1>13. stack' # <<>> => /\ Upper(stack') \in Activations /\ Upper(stack').fn \in Waiting
                        /\ ~OutDone(Upper(stack'))
  BY <1>1, <1>2, Revealed DEF Inv
<1>14. InRequested' /\ OutRequested'
  <2>1. ~Runs(stack', "execute") /\ ~Runs(stack', "status_in")
    BY <1>13 DEF Runs, Waiting
  <2>2. ~RunsFor(stack', MDECout)
    BY <1>13 DEF RunsFor, Waiting, OutDone, IsTransfer
  <2>3. \A x \in MDECs : channels'[x].request = channels[x].request
    BY <1>6, Modes DEF Leaves, c
  <2>4. \A x \in MDECs : Has(stack', TransfersOf(x)) => Has(stack, TransfersOf(x)) \/ channels[x].request
    BY <1>1, <1>3
  <2> QED
    BY <1>1, <1>3, <2>1, <2>2, <2>3, <2>4, RequestsKept DEF Inv
<1>15. RunRequested'
  BY <1>13 DEF RunRequested, Runs, Waiting
<1>16. MovedInv'
  <2>1. moved' \in [Channels -> Seq(Int)] /\ \A x \in MDECs : Regular(moved'[x])
    BY DEF Inv, MovedInv
  <2>2. ASSUME NEW x \in MDECs, channels'[x].busy, ~Has(stack', MovesOf(x))
        PROVE  GoesOn(moved'[x], channels'[x].base, channels'[x].blocks) /\ channels'[x].blocks > 0
    <3>1. CASE x = c
      BY <2>2, <3>1 DEF Leaves, c
    <3>2. CASE x # c
      <4>1. Top \notin MovesOf(x)
        BY <3>2 DEF MovesOf, c
      <4>2. ~Has(stack, MovesOf(x)) /\ channels'[x] = channels[x]
        BY <1>1, <1>3, <1>6, <2>2, <3>2, <4>1, Modes
      <4> QED
        BY <2>2, <4>2 DEF Inv, MovedInv
    <3> QED
      BY <3>1, <3>2
  <2>3. \A d \in 1 .. Len(stack') : IsAt(Act(stack', d), moved'[Act(stack', d).channel])
    <3>1. \A d \in 1 .. Len(stack') : d \in 1 .. Len(stack) /\ Act(stack', d) = Act(stack, d)
      BY <1>1, <1>2 DEF Pops, Kept
    <3> QED
      BY <3>1 DEF Inv, MovedInv
  <2> QED
    BY <2>1, <2>2, <2>3 DEF MovedInv
<1> QED
  BY <1>4, <1>5, <1>8, <1>11, <1>12, <1>14, <1>15, <1>16 DEF Inv

\* A transfer goes on, at its next entry or block.
LEMMA TransferGoesOn ==
  ASSUME Inv, stack # <<>>, IsTransfer(Upper(stack)), NEW g, Proper(g), IsTransfer(g), g.channel = Top.channel,
         stack' = <<g>> \o Tail(stack), Changes(channels, channels', Top.channel),
         channels'[Top.channel].busy = channels[Top.channel].busy,
         Top.channel \in MDECs => /\ channels'[Top.channel].request = channels[Top.channel].request
                                  /\ g.fn = "block" /\ GoesOn(moved[Top.channel], g.addr, g.left) /\ g.left > 0,
         g.fn = "list" \/ channels'[Top.channel].request,
         NoHalt, result' \/ IsTransferHalted', UNCHANGED <<mdec, moved>>
  PROVE  Inv'
<1> DEFINE c == Top.channel
<1>1. /\ stack \in Seq(Activations) /\ Len(stack) \in Nat \ {0} /\ Top = Upper(stack) /\ Upper(stack) \in Activations
      /\ c \in Channels /\ channels[c] \in ChannelTypes /\ channels[c].busy /\ channels[c].mode = Mode(c)
      /\ ~IsUpdate(Upper(stack)) /\ ~IsLoop(Upper(stack)) /\ Proper(Upper(stack))
      /\ Upper(stack) \in TransfersOf(c) /\ ~Waits(stack, TransfersOf(c))
      /\ \A S : Has(stack, S) <=> Waits(stack, S) \/ Top \in S
  BY BelowTransfer
<1>2. g \in Activations /\ g \in TransfersOf(c) /\ ~IsUpdate(g) /\ ~IsLoop(g)
  BY DEF Proper, TransfersOf, c, IsUpdate, IsLoop, Updates, IsTransfer
<1>3. Becomes(stack, stack', g)
  BY <1>1, <1>2, Became
<1>4. (\A S : Has(stack', S) <=> Waits(stack, S) \/ g \in S) /\ stack' # <<>> /\ Upper(stack') = g
  BY <1>1, <1>3, HasBecome
<1>5. Types'
  BY TransferTypes
<1>6. Shape(stack')
  <2>1. Fits(stack, g)
    BY <1>1, <1>2 DEF Fits, c
  <2> QED
    BY <1>3, <2>1, ShapeBecome DEF Inv
<1>7. /\ \A x \in Channels \ {c} : channels'[x] = channels[x]
      /\ channels'[c].mode = channels[c].mode /\ channels'[c].enabled = channels[c].enabled
      /\ channels'[c].busy
  BY <1>1 DEF Changes, c
<1>8. \A x \in Channels : Has(stack', TransfersOf(x)) <=> Has(stack, TransfersOf(x))
  <2> TAKE x \in Channels
  <2>1. g \in TransfersOf(x) <=> x = c
    BY <1>2 DEF TransfersOf
  <2>2. Top \in TransfersOf(x) <=> x = c
    BY <1>1 DEF TransfersOf, c
  <2> QED
    BY <1>1, <1>4, <2>1, <2>2
<1>9. ActiveInv'
  BY <1>7, <1>8 DEF Inv, ActiveInv
<1>10. Top \notin Unhalts /\ (\A x \in Channels : Top \notin LoopsTo(x)) /\ Top \notin UpdateSteps
  BY <1>1 DEF Unhalts, IsLoop, LoopsTo, UpdateSteps
<1>11. HaltInv'
  <2>1. IsTransferHalted' = IsTransferHalted /\ UNCHANGED <<unhalt_event, halt_ticks_remaining>>
    BY DEF NoHalt, IsTransferHalted
  <2>2. Has(stack, Unhalts) => Has(stack', Unhalts)
    BY <1>1, <1>4, <1>10
  <2> QED
    BY <2>1, <2>2 DEF Inv, HaltInv
<1>12. StallInv'
  <2>1. IsTransferHalted' = IsTransferHalted
    BY DEF NoHalt, IsTransferHalted
  <2>2. \A x \in Channels : Has(stack, LoopsTo(x)) => Has(stack', LoopsTo(x))
    BY <1>1, <1>4, <1>10
  <2>3. Has(stack', TransfersOf(c))
    BY <1>2, <1>4
  <2> QED
    BY <1>7, <1>8, <2>1, <2>2, <2>3 DEF Inv, StallInv
<1>13. InRequested' /\ OutRequested'
  <2>1. ~Runs(stack', "execute") /\ ~Runs(stack', "status_in")
    BY <1>2, <1>4 DEF Runs, IsUpdate, Updates
  <2>2. RunsFor(stack', MDECout) => RunsFor(stack, MDECout)
    BY <1>1, <1>4 DEF RunsFor
  <2>3. \A x \in MDECs : channels'[x].request = channels[x].request
    BY <1>7, Modes DEF c
  <2>4. \A x \in MDECs : Has(stack', TransfersOf(x)) => Has(stack, TransfersOf(x)) \/ channels[x].request
    BY <1>8, Modes
  <2>5. Waits(stack, UpdateSteps) => Has(stack', UpdateSteps)
    BY <1>4
  <2> QED
    BY <1>1, <2>1, <2>2, <2>3, <2>4, <2>5, RequestsKept DEF Inv
<1>14. RunRequested'
  BY <1>4 DEF RunRequested, Runs
<1>15. MovedInv'
  <2>1. moved' \in [Channels -> Seq(Int)] /\ \A x \in MDECs : Regular(moved'[x])
    BY DEF Inv, MovedInv
  <2>2. ASSUME NEW x \in MDECs, channels'[x].busy, ~Has(stack', MovesOf(x))
        PROVE  GoesOn(moved'[x], channels'[x].base, channels'[x].blocks) /\ channels'[x].blocks > 0
    <3>1. x # c
      <4>1. g \notin MovesOf(x)
        BY <1>4, <2>2
      <4> QED
        BY <1>2, <2>2, <4>1 DEF MovesOf, c
    <3>2. Top \notin MovesOf(x)
      BY <3>1 DEF MovesOf, c
    <3>3. ~Has(stack, MovesOf(x)) /\ channels'[x] = channels[x]
      BY <1>1, <1>4, <1>7, <2>2, <3>1, <3>2, Modes
    <3> QED
      BY <2>2, <3>3 DEF Inv, MovedInv
  <2>3. \A d \in 1 .. Len(stack') : IsAt(Act(stack', d), moved'[Act(stack', d).channel])
    <3>1. Len(stack') = Len(stack) /\ \A d \in 1 .. Len(stack) - 1 : Act(stack', d) = Act(stack, d)
      BY <1>3 DEF Becomes, Kept
    <3>2. IsAt(g, moved[g.channel])
      <4>1. CASE c \in MDECs
        BY <4>1 DEF IsAt, c
      <4>2. CASE c \notin MDECs
        BY <1>2, <4>2, Modes DEF IsAt, c, Proper
      <4> QED
        BY <4>1, <4>2
    <3>3. Act(stack', Len(stack)) = g
      BY <1>3 DEF Becomes
    <3>4. \A d \in 1 .. Len(stack') : d = Len(stack) \/ (d \in 1 .. Len(stack) - 1 /\ d \in 1 .. Len(stack))
      <4>1. \A n \in Nat : \A d \in 1 .. n : d = n \/ (d \in 1 .. n - 1 /\ d \in 1 .. n)
        OBVIOUS
      <4> QED
        BY <1>1, <3>1, <4>1
    <3> QED
      BY <3>1, <3>2, <3>3, <3>4 DEF Inv, MovedInv
  <2> QED
    BY <2>1, <2>2, <2>3 DEF MovedInv
<1> QED
  BY <1>5, <1>6, <1>9, <1>11, <1>12, <1>13, <1>14, <1>15 DEF Inv

\* The running activation is the last of the stack.
LEMMA RunningIs ==
  ASSUME Inv, NEW fn, Running(fn)
  PROVE  /\ stack # <<>> /\ Top = Upper(stack) /\ Top.fn = fn /\ Proper(Top) /\ Top \in Activations
         /\ Top.addr \in Int /\ Top.left \in Int /\ Top.ticks \in Int
         /\ Top.fn = "list" => Top.channel = GPU
         /\ fn \in {"transfer", "list", "block", "block_done"} => IsTransfer(Upper(stack))
<1>1. stack # <<>> /\ Top.fn = fn /\ stack \in Seq(Activations)
  BY DEF Running, Inv, Shape
<1>2. Top = Upper(stack) /\ Len(stack) \in Nat \ {0}
  BY <1>1, TopIs DEF Top
<1>3. Proper(Top) /\ Top \in Activations
  BY <1>1, <1>2 DEF Inv, Shape, Upper, Proper
<1>4. Top.addr \in Int /\ Top.left \in Int /\ Top.ticks \in Int
  BY <1>3 DEF Activations
<1>5. Top.fn = "list" => Top.channel = GPU
  BY <1>3 DEF Proper
<1>6. fn \in {"transfer", "list", "block", "block_done"} => IsTransfer(Upper(stack))
  BY <1>1, <1>2 DEF IsTransfer
<1> QED
  BY <1>1, <1>2, <1>3, <1>4, <1>5, <1>6

\* The running transfer is where the blocks moved so far have led it.
LEMMA TopIsAt ==
  ASSUME MovedInv, stack \in Seq(Activations), Len(stack) \in Nat \ {0}, Top = Upper(stack)
  PROVE  IsAt(Top, moved[Top.channel])
<1>1. Len(stack) \in 1 .. Len(stack)
  OBVIOUS
<1> QED
  BY <1>1 DEF MovedInv, Upper

\* A list goes on at its next entry.
LEMMA AtNextEntry ==
  ASSUME NEW f \in Activations, NEW a \in Int
  PROVE  /\ [f EXCEPT !.addr = a, !.ticks = @ - 1] \in Activations
         /\ [f EXCEPT !.addr = a, !.ticks = @ - 1].fn = f.fn
         /\ [f EXCEPT !.addr = a, !.ticks = @ - 1].channel = f.channel
<1> DEFINE g == [f EXCEPT !.addr = a]
           t == f.ticks - 1
<1>1. g \in Activations /\ g.fn = f.fn /\ g.channel = f.channel /\ t \in Int
  BY DEF Activations
<1>2. \A h \in Activations, k \in Int :
        /\ [h EXCEPT !.ticks = k] \in Activations /\ [h EXCEPT !.ticks = k].fn = h.fn
        /\ [h EXCEPT !.ticks = k].channel = h.channel
  BY DEF Activations
<1>3. /\ [g EXCEPT !.ticks = t] \in Activations
      /\ [g EXCEPT !.ticks = t].fn = f.fn /\ [g EXCEPT !.ticks = t].channel = f.channel
  <2> HIDE DEF g, t
  <2> QED
    BY <1>1, <1>2
<1> QED
  BY <1>3

\* A manual transfer.
LEMMA StepTransferManual ==
  ASSUME Inv, TransferManual
  PROVE  Inv'
<1> DEFINE c == Top.channel
<1>1. /\ stack # <<>> /\ IsTransfer(Upper(stack)) /\ channels[c].mode = "Manual"
      /\ stack' = <<>> \o Tail(stack) /\ result' = TRUE /\ NoHalt /\ UNCHANGED <<mdec, moved>>
  BY RunningIs DEF TransferManual, TailCall
<1>2. c \in Channels /\ channels[c].mode = Mode(c) /\ channels \in [Channels -> ChannelTypes]
  BY <1>1, BelowTransfer DEF Inv, Types
<1>3. c \notin MDECs
  BY <1>1, <1>2, Modes
<1>4. PICK request \in BOOLEAN :
        channels' = [channels EXCEPT ![c].busy = FALSE,
                                     ![c].request = BusError(channels[c].base, Blocks * BlockWords) \/ request]
  BY DEF TransferManual
<1>5. (BusError(channels[c].base, Blocks * BlockWords) \/ request) \in BOOLEAN
  BY DEF BusError
<1> DEFINE r == BusError(channels[c].base, Blocks * BlockWords) \/ request
<1>6. r \in BOOLEAN /\ channels' = [channels EXCEPT ![c].busy = FALSE, ![c].request = r]
  BY <1>4, <1>5
<1> HIDE DEF c, r
<1>7. Changes(channels, channels', c) /\ channels'[c].busy = FALSE
  BY <1>2, <1>6 DEF Changes, ChannelTypes
<1>8. Leaves(c)
  BY <1>1, <1>3, <1>7 DEF Leaves
<1> QED
  BY <1>1, <1>8, TransferEnds DEF c

\* A slice begins.
LEMMA StepBeginSlice ==
  ASSUME Inv, BeginSlice
  PROVE  Inv'
<1> DEFINE c == Top.channel
<1>1. /\ stack # <<>> /\ IsTransfer(Upper(stack)) /\ Top.fn = "transfer" /\ Top = Upper(stack)
      /\ channels[c].mode # "Manual" /\ NoHalt /\ UNCHANGED <<channels, result, mdec, moved, halt_ticks_remaining, unhalt_event>>
  BY RunningIs DEF BeginSlice, dma, NoHalt
<1>2. /\ c \in Channels /\ channels[c].mode = Mode(c) /\ channels \in [Channels -> ChannelTypes]
      /\ channels[c] \in ChannelTypes /\ channels[c].busy /\ ~Waits(stack, TransfersOf(c))
      /\ \A S : Has(stack, S) <=> Waits(stack, S) \/ Top \in S
  BY <1>1, BelowTransfer DEF Inv, Types
<1>3. PICK ticks \in Slices :
        TailCall(<<[fn |-> IF channels[c].mode = "LinkedList" THEN "list" ELSE "block", channel |-> c,
                    addr |-> channels[c].base, left |-> channels[c].blocks, ticks |-> ticks]>>)
  BY DEF BeginSlice
<1> DEFINE g == [fn |-> IF channels[c].mode = "LinkedList" THEN "list" ELSE "block", channel |-> c,
                 addr |-> channels[c].base, left |-> channels[c].blocks, ticks |-> ticks]
<1>4. stack' = <<g>> \o Tail(stack)
  BY <1>3 DEF TailCall
<1>5. /\ g.fn = (IF channels[c].mode = "LinkedList" THEN "list" ELSE "block") /\ g.channel = c
      /\ g.addr = channels[c].base /\ g.left = channels[c].blocks
      /\ (channels[c].mode = "LinkedList" <=> c = GPU) /\ (c \in MDECs <=> c # GPU)
  BY <1>1, <1>2, Modes
<1>6. g \in Activations
  BY <1>2, <1>3, Modes, SizesAssumption DEF Activations, ChannelTypes, Functions
<1> HIDE DEF g, c
<1>7. Proper(g) /\ IsTransfer(g)
  BY <1>2, <1>5, <1>6, Modes DEF Proper, IsTransfer, IsLoop
<1>8. Changes(channels, channels', c)
  BY <1>1, <1>2 DEF Changes
<1>9. channels[c].request
  BY <1>1 DEF Inv, RunRequested, Runs, c
<1>10. c \in MDECs => GoesOn(moved[c], g.addr, g.left) /\ g.left > 0
  <2> SUFFICES ASSUME c \in MDECs PROVE GoesOn(moved[c], g.addr, g.left) /\ g.left > 0
    OBVIOUS
  <2>1. ~Waits(stack, MovesOf(c))
    BY <1>2 DEF Waits, MovesOf, TransfersOf, IsTransfer
  <2>2. Top \notin MovesOf(c)
    BY <1>1 DEF MovesOf
  <2>3. ~Has(stack, MovesOf(c))
    BY <1>2, <2>1, <2>2
  <2> QED
    BY <1>2, <1>5, <2>3 DEF Inv, MovedInv
<1>11. result' \/ IsTransferHalted'
  BY <1>1 DEF Inv, HaltInv, IsTransferHalted
<1> QED
  BY <1>1, <1>4, <1>5, <1>7, <1>8, <1>9, <1>10, <1>11, TransferGoesOn DEF c

\* An entry of the display list.
LEMMA StepListEntry ==
  ASSUME Inv, ListEntry
  PROVE  Inv'
<1> DEFINE c == Top.channel
           next == NextEntry(Top.addr)
<1>1. /\ stack # <<>> /\ IsTransfer(Upper(stack)) /\ Top.fn = "list" /\ Top = Upper(stack) /\ Top \in Activations
      /\ Proper(Top) /\ c = GPU /\ Top.addr \in Int /\ Top.left \in Int /\ Top.ticks \in Int
      /\ NoHalt /\ UNCHANGED <<mdec, moved>> /\ result' = TRUE
  <2>1. Running("list") /\ NoHalt /\ UNCHANGED <<mdec, moved>> /\ result' = TRUE
    BY DEF ListEntry
  <2> QED
    BY <2>1, RunningIs
<1>2. /\ c \in Channels /\ channels \in [Channels -> ChannelTypes] /\ channels[c] \in ChannelTypes
      /\ channels[c].busy /\ c \notin MDECs
  BY <1>1, BelowTransfer, Modes DEF Inv, Types
<1>3. CASE BusError(Top.addr, 2)
  <2>1. stack' = <<>> \o Tail(stack) /\ Store(c, Top.addr, Top.left, FALSE)
    BY <1>3 DEF ListEntry, TailCall
  <2> HIDE DEF c
  <2>2. Changes(channels, channels', c) /\ channels'[c].busy = FALSE
    BY <1>1, <1>2, <2>1, Stored
  <2>3. Leaves(c)
    BY <1>1, <1>2, <2>2 DEF Leaves
  <2> QED
    BY <1>1, <2>1, <2>3, TransferEnds DEF c
<1>4. CASE ~BusError(Top.addr, 2)
  <2>1. PICK request \in BOOLEAN :
          channels' = IF next = Terminator
            THEN [channels EXCEPT ![c].request = request, ![c].base = next, ![c].busy = FALSE]
            ELSE Requested(c, request)
    BY <1>4 DEF ListEntry
  <2>2. TailCall(If(next # Terminator, [Top EXCEPT !.addr = next, !.ticks = @ - 1]))
    BY <1>4 DEF ListEntry
  <2>3. next \in Int
    BY <1>1, SizesAssumption DEF NextEntry, Terminator, Activations
  <2> HIDE DEF next, c
  <2>4. CASE next = Terminator
    <3>1. channels' = [channels EXCEPT ![c].request = request, ![c].base = next, ![c].busy = FALSE]
      BY <2>1, <2>4
    <3>2. Changes(channels, channels', c) /\ channels'[c].busy = FALSE
      BY <1>2, <2>3, <3>1 DEF Changes, ChannelTypes
    <3>3. Leaves(c)
      BY <1>1, <1>2, <3>2 DEF Leaves
    <3>4. stack' = <<>> \o Tail(stack)
      BY <2>2, <2>4 DEF TailCall, If
    <3> QED
      BY <1>1, <3>3, <3>4, TransferEnds DEF c
  <2>5. CASE next # Terminator
    <3> DEFINE g == [Top EXCEPT !.addr = next, !.ticks = @ - 1]
    <3>1. stack' = <<g>> \o Tail(stack)
      BY <2>2, <2>5 DEF TailCall, If
    <3>2. g \in Activations /\ g.fn = "list" /\ g.channel = c
      BY <1>1, <2>3, AtNextEntry DEF c
    <3> HIDE DEF g
    <3>3. Proper(g) /\ IsTransfer(g)
      BY <1>1, <1>2, <3>2 DEF Proper, IsTransfer, IsLoop
    <3>4. Changes(channels, channels', c) /\ channels'[c].busy = channels[c].busy
      BY <1>2, <2>1, <2>5, RequestSet
    <3> QED
      BY <1>1, <1>2, <3>1, <3>2, <3>3, <3>4, TransferGoesOn DEF c
  <2> QED
    BY <2>4, <2>5
<1> QED
  BY <1>3, <1>4

\* The list is left, as the GPU is full, or its slice is used up.
LEMMA StepListSliceEnds ==
  ASSUME Inv, ListSliceEnds
  PROVE  Inv'
<1> DEFINE c == Top.channel
<1>1. /\ stack # <<>> /\ IsTransfer(Upper(stack)) /\ Top.addr \in Int /\ Top.left \in Int /\ c = GPU
      /\ UNCHANGED <<mdec, moved>> /\ stack' = <<>> \o Tail(stack) /\ Store(c, Top.addr, Top.left, TRUE)
      /\ (IF channels[c].request THEN HaltTransfer(HaltTicks) ELSE NoHalt) /\ result' = ~channels[c].request
  <2>1. /\ Running("list") /\ UNCHANGED <<mdec, moved>> /\ stack' = <<>> \o Tail(stack)
        /\ Store(c, Top.addr, Top.left, TRUE) /\ result' = ~channels[c].request
        /\ (IF channels[c].request THEN HaltTransfer(HaltTicks) ELSE NoHalt)
    BY DEF ListSliceEnds, TailCall
  <2>2. stack # <<>> /\ IsTransfer(Upper(stack)) /\ Top.addr \in Int /\ Top.left \in Int /\ c = GPU
    BY <2>1, RunningIs
  <2> QED
    BY <2>1, <2>2
<1>2. c \in Channels /\ channels \in [Channels -> ChannelTypes] /\ c \notin MDECs /\ channels[c] \in ChannelTypes
  BY <1>1, BelowTransfer, Modes DEF Inv, Types
<1> HIDE DEF c
<1>3. Changes(channels, channels', c) /\ channels'[c].request = channels[c].request
  BY <1>1, <1>2, Stored
<1>4. channels[c].request => IsTransferHalted'
  <2>1. HaltTicks \in Nat \ {0} /\ HaltInv
    BY SizesAssumption DEF Inv
  <2> QED
    BY <1>1, <2>1, Halted
<1>5. Leaves(c)
  BY <1>1, <1>2, <1>3, <1>4 DEF Leaves, ChannelTypes
<1> QED
  BY <1>1, <1>5, TransferEnds DEF c

\* Another block follows.
LEMMA StepMoreBlocks ==
  ASSUME Inv, MoreBlocks
  PROVE  Inv'
<1> DEFINE c == Top.channel
           g == [fn |-> "block", channel |-> Top.channel, addr |-> Top.addr + BlockWords,
                 left |-> Top.left - 1, ticks |-> Top.ticks - 1]
<1>1. /\ stack # <<>> /\ IsTransfer(Upper(stack)) /\ Top \in Activations /\ Proper(Top) /\ Top.fn = "block_done"
      /\ Top.addr \in Int /\ Top.left \in Int /\ Top.ticks \in Int
      /\ Top = Upper(stack) /\ stack' = <<g>> \o Tail(stack) /\ channels[c].request /\ Top.left > 1
      /\ NoHalt /\ UNCHANGED <<channels, result, mdec, moved, unhalt_event, halt_ticks_remaining>>
  BY RunningIs DEF MoreBlocks, TailCall, dma, NoHalt
<1>2. /\ c \in Channels /\ channels \in [Channels -> ChannelTypes] /\ channels[c].busy /\ c \in MDECs
      /\ stack \in Seq(Activations) /\ Len(stack) \in Nat \ {0}
  BY <1>1, BelowTransfer, Modes DEF Inv, Types, Proper
<1>3. g \in Activations /\ g.fn = "block" /\ g.channel = c /\ g.addr = Top.addr + BlockWords /\ g.left = Top.left - 1
  <2>1. Top.channel \in 0 .. SPU + 1 /\ BlockWords \in Int
    BY <1>1, SizesAssumption DEF Activations
  <2> QED
    BY <1>1, <2>1 DEF Activations, Functions
<1> HIDE DEF g, c
<1>4. Proper(g) /\ IsTransfer(g)
  BY <1>2, <1>3, Modes DEF Proper, IsTransfer, IsLoop
<1>5. Changes(channels, channels', c)
  BY <1>1, <1>2 DEF Changes
<1>6. GoesOn(moved[c], g.addr, g.left) /\ g.left > 0
  <2>1. IsAt(Top, moved[c])
    BY <1>1, <1>2, TopIsAt DEF Inv, c
  <2> QED
    BY <1>1, <1>3, <2>1 DEF IsAt
<1>7. result' \/ IsTransferHalted'
  BY <1>1 DEF Inv, HaltInv, IsTransferHalted
<1> QED
  BY <1>1, <1>2, <1>3, <1>4, <1>5, <1>6, <1>7, TransferGoesOn DEF c

\* The blocks of a slice are done.
LEMMA StepSliceEnds ==
  ASSUME Inv, SliceEnds
  PROVE  Inv'
<1> DEFINE c == Top.channel
           halted == Top.left > 1 /\ channels[c].request
<1>1. /\ stack # <<>> /\ IsTransfer(Upper(stack)) /\ Top \in Activations /\ Proper(Top) /\ Top.fn = "block_done"
      /\ Top.addr \in Int /\ Top.left \in Int
      /\ Top = Upper(stack) /\ stack' = <<>> \o Tail(stack) /\ UNCHANGED <<mdec, moved>>
      /\ Store(c, Top.addr + BlockWords, Top.left - 1, Top.left > 1) /\ result' = ~halted
      /\ (IF halted /\ ~IsTransferHalted THEN HaltTransfer(HaltTicks) ELSE NoHalt)
  BY RunningIs DEF SliceEnds, TailCall
<1>2. /\ c \in Channels /\ channels \in [Channels -> ChannelTypes] /\ channels[c] \in ChannelTypes /\ c \in MDECs
      /\ stack \in Seq(Activations) /\ Len(stack) \in Nat \ {0}
  BY <1>1, BelowTransfer, Modes DEF Inv, Types, Proper
<1>3. Top.left - 1 \in Int /\ Top.addr + BlockWords \in Int /\ (Top.left > 1) \in BOOLEAN
  <2>1. BlockWords \in Int
    BY SizesAssumption
  <2> QED
    BY <1>1, <2>1
<1> HIDE DEF c
<1>4. /\ Changes(channels, channels', c) /\ channels'[c].request = channels[c].request
      /\ channels'[c].base = Top.addr + BlockWords /\ channels'[c].blocks = Top.left - 1
      /\ channels'[c].busy = (Top.left > 1)
  <2> DEFINE b == Top.left > 1
  <2>1. b \in BOOLEAN /\ Store(c, Top.addr + BlockWords, Top.left - 1, b)
    BY <1>1, <1>3
  <2> HIDE DEF b
  <2>2. /\ Changes(channels, channels', c) /\ channels'[c].request = channels[c].request
        /\ channels'[c].base = Top.addr + BlockWords /\ channels'[c].blocks = Top.left - 1
        /\ channels'[c].busy = b
    BY <1>2, <1>3, <2>1, Stored
  <2> QED
    BY <2>2 DEF b
<1>5. halted => IsTransferHalted'
  <2>1. HaltTicks \in Nat \ {0} /\ HaltInv
    BY SizesAssumption DEF Inv
  <2> QED
    BY <1>1, <2>1, Halted
<1>6. IsAt(Top, moved[c])
  BY <1>1, <1>2, TopIsAt DEF Inv, c
<1>7. Leaves(c)
  <2>1. channels'[c].busy /\ channels'[c].request => IsTransferHalted'
    BY <1>4, <1>5
  <2>2. channels'[c].busy => GoesOn(moved[c], channels'[c].base, channels'[c].blocks) /\ channels'[c].blocks > 0
    <3>1. GoesOn(moved[c], Top.addr + BlockWords, Top.left - 1)
      BY <1>1, <1>6 DEF IsAt
    <3>2. channels'[c].busy => Top.left > 1
      BY <1>4
    <3>3. Top.left > 1 => Top.left - 1 > 0
      BY <1>1
    <3>4. channels'[c].base = Top.addr + BlockWords /\ channels'[c].blocks = Top.left - 1
      BY <1>4
    <3> QED
      BY <3>1, <3>2, <3>3, <3>4
  <2>3. result' \/ IsTransferHalted'
    BY <1>1, <1>5
  <2>4. NoHalt \/ HaltTransfer(HaltTicks)
    BY <1>1
  <2> QED
    BY <1>4, <2>1, <2>2, <2>3, <2>4 DEF Leaves
<1> QED
  BY <1>1, <1>7, TransferEnds DEF c

\* The lesser and the greater of two numbers.
LEMMA MinMax ==
  ASSUME NEW a \in Int, NEW b \in Int
  PROVE  /\ Min({a, b}) = (IF a <= b THEN a ELSE b)
         /\ Max({a, b}) = (IF a >= b THEN a ELSE b)
<1>1. \A S : (\E x \in S : \A y \in S : x =< y) => Min(S) \in S /\ \A y \in S : Min(S) =< y
  BY DEF Min
<1>2. \A S : (\E x \in S : \A y \in S : x >= y) => Max(S) \in S /\ \A y \in S : Max(S) >= y
  BY DEF Max
<1>3. \E x \in {a, b} : \A y \in {a, b} : x =< y
  OBVIOUS
<1>4. \E x \in {a, b} : \A y \in {a, b} : x >= y
  OBVIOUS
<1>5. Min({a, b}) \in {a, b} /\ Min({a, b}) <= a /\ Min({a, b}) <= b
  BY <1>1, <1>3
<1>6. Max({a, b}) \in {a, b} /\ Max({a, b}) >= a /\ Max({a, b}) >= b
  BY <1>2, <1>4
<1> QED
  BY <1>5, <1>6

\* The least of three.
LEMMA MinOfThree ==
  ASSUME NEW a \in Int, NEW b \in Int, NEW c \in Int
  PROVE  /\ Min({a, b, c}) \in {a, b, c}
         /\ Min({a, b, c}) <= a /\ Min({a, b, c}) <= b /\ Min({a, b, c}) <= c
<1>1. \A S : (\E x \in S : \A y \in S : x =< y) => Min(S) \in S /\ \A y \in S : Min(S) =< y
  BY DEF Min
<1>2. \E x \in {a, b, c} : \A y \in {a, b, c} : x =< y
  OBVIOUS
<1> QED
  BY <1>1, <1>2

\* A block more.
LEMMA Appended ==
  ASSUME NEW m, Regular(m), NEW a \in Int, NEW l \in Int, GoesOn(m, a, l), l > 0
  PROVE  Regular(Append(m, a)) /\ GoesOn(Append(m, a), a + BlockWords, l - 1)
<1> DEFINE q == Append(m, a)
<1>1. /\ m \in Seq(Int) /\ Len(m) \in Nat /\ q \in Seq(Int) /\ Len(q) = Len(m) + 1 /\ q # <<>>
      /\ q[Len(m) + 1] = a /\ \A i \in 1 .. Len(m) : q[i] = m[i]
  BY DEF Regular
<1> HIDE DEF q
<1>2. BlockWords \in Nat /\ Blocks \in Nat
  BY SizesAssumption
<1>3. \A x \in Int : (x + 1) * BlockWords = x * BlockWords + BlockWords /\ x * BlockWords \in Int
  BY <1>2
<1>4. a = q[1] + Len(m) * BlockWords
  <2>1. CASE m = <<>>
    <3>1. Len(m) = 0 /\ q[1] = a
      BY <1>1, <2>1
    <3> QED
      BY <1>2, <3>1
  <2>2. CASE m # <<>>
    <3>1. Len(m) >= 1 /\ q[1] = m[1]
      BY <1>1, <2>2
    <3> QED
      BY <2>2, <3>1 DEF GoesOn
  <2> QED
    BY <2>1, <2>2
<1>5. Len(q) <= Blocks
  BY <1>1, <1>2 DEF GoesOn
<1>6. \A i \in 1 .. Len(q) : q[i] = q[1] + (i - 1) * BlockWords
  <2> TAKE i \in 1 .. Len(q)
  <2>1. CASE i = Len(q)
    <3>1. i = Len(m) + 1 /\ i - 1 = Len(m)
      BY <1>1, <2>1
    <3> QED
      BY <1>1, <1>4, <3>1
  <2>2. CASE i # Len(q)
    <3>1. i \in 1 .. Len(m) /\ 1 \in 1 .. Len(m)
      BY <1>1, <2>2
    <3>2. q[i] = m[i] /\ q[1] = m[1]
      BY <1>1, <3>1
    <3> QED
      BY <3>1, <3>2 DEF Regular
  <2> QED
    BY <2>1, <2>2
<1>7. GoesOn(q, a + BlockWords, l - 1)
  <2>1. q[1] \in Int
    BY <1>1
  <2>2. a + BlockWords = q[1] + Len(q) * BlockWords
    <3>1. Len(q) * BlockWords = Len(m) * BlockWords + BlockWords /\ Len(m) * BlockWords \in Int
      BY <1>1, <1>3
    <3> QED
      BY <1>2, <1>4, <2>1, <3>1
  <2> QED
    BY <1>1, <2>2 DEF GoesOn
<1>8. Regular(q)
  BY <1>1, <1>5, <1>6 DEF Regular
<1> QED
  BY <1>7, <1>8 DEF q

\* What the decoder asks for depends on its own state and on the words that
\* wait, what it has to offer on the words that are done.
LEMMA WantsKept ==
  ASSUME UNCHANGED <<state, enable_dma_in, data_in, remaining, current>>
  PROVE  (Quiet' <=> Quiet) /\ WantsData' = WantsData
<1>1. Quiet' <=> Quiet
  BY DEF Quiet
<1> QED
  BY <1>1 DEF WantsData

\* The transfers that are under way do not change when one goes on.
LEMMA SameTransfers ==
  ASSUME NEW f, NEW g, IsTransfer(f), IsTransfer(g), f \in Activations, g \in Activations, f.channel = g.channel, NEW c
  PROVE  f \in TransfersOf(c) <=> g \in TransfersOf(c)
  BY DEF TransfersOf

\* A block is moved.
LEMMA StepBlock ==
  ASSUME Inv, Block
  PROVE  Inv'
<1> DEFINE c == Top.channel
           g == [Top EXCEPT !.fn = "block_done"]
           rest == Max({data_out - BlockWords, 0})
           m == moved[c]
<1>1. /\ stack # <<>> /\ IsTransfer(Upper(stack)) /\ Top \in Activations /\ Proper(Top) /\ Top.fn = "block"
      /\ Top.addr \in Int /\ Top.left \in Int /\ Top = Upper(stack) /\ NoHalt /\ UNCHANGED <<unhalt_event, halt_ticks_remaining>>
  BY RunningIs DEF Block, NoHalt
<1>2. /\ c \in Channels /\ channels \in [Channels -> ChannelTypes] /\ channels[c] \in ChannelTypes /\ c \in MDECs
      /\ stack \in Seq(Activations) /\ Len(stack) \in Nat \ {0} /\ channels[c].busy
      /\ ~IsUpdate(Top) /\ ~IsLoop(Top) /\ Top \in TransfersOf(c) /\ ~Waits(stack, TransfersOf(c))
      /\ \A S : Has(stack, S) <=> Waits(stack, S) \/ Top \in S
  BY <1>1, BelowTransfer, Modes DEF Inv, Types, Proper
<1>3. CASE BusError(Top.addr, BlockWords)
  <2>1. stack' = <<>> \o Tail(stack) /\ Store(c, Top.addr, Top.left, FALSE) /\ result' = TRUE /\ UNCHANGED <<mdec, moved>>
    BY <1>3 DEF Block, TailCall
  <2> HIDE DEF c
  <2>2. Changes(channels, channels', c) /\ channels'[c].busy = FALSE /\ channels'[c].request = channels[c].request
    BY <1>1, <1>2, <2>1, Stored
  <2>3. Leaves(c)
    BY <1>1, <1>2, <2>1, <2>2 DEF Leaves
  <2> QED
    BY <1>1, <2>1, <2>3, TransferEnds DEF c
<1>4. CASE ~BusError(Top.addr, BlockWords)
  <2>1. /\ moved' = [moved EXCEPT ![c] = Append(@, Top.addr)]
        /\ UNCHANGED <<channels, result, state, enable_dma_in, enable_dma_out, remaining, current, copy_out_event>>
        /\ \/ /\ c = MDECin
              /\ data_in' = Min({data_in + BlockWords, FIFOWords})
              /\ CallThen(<<Frame("execute")>>, g)
              /\ UNCHANGED data_out
           \/ /\ c = MDECout
              /\ data_out' = rest
              /\ CallThen(If(rest = 0, Frame("execute")), g)
              /\ UNCHANGED data_in
    BY <1>4, Zenon DEF Block
  <2>2. g \in Activations /\ g.fn = "block_done" /\ g.channel = c /\ g.addr = Top.addr /\ g.left = Top.left
    BY <1>1 DEF Activations, Functions
  <2>3. Frame("execute") \in Activations /\ Frame("execute").fn = "execute"
    BY DEF Activations, Functions, Frame, SPU
  <2>4. rest = 0 \/ (rest > 0 /\ data_out > 0 /\ rest \in Nat)
    <3>1. data_out \in Nat /\ BlockWords \in Nat /\ data_out - BlockWords \in Int
      BY SizesAssumption DEF Inv, Types
    <3>2. rest = IF data_out - BlockWords >= 0 THEN data_out - BlockWords ELSE 0
      <4>1. Max({data_out - BlockWords, 0}) = IF data_out - BlockWords >= 0 THEN data_out - BlockWords ELSE 0
        BY <3>1, MinMax
      <4> QED
        BY <4>1
    <3> HIDE DEF rest
    <3>3. BlockWords > 0
      BY SizesAssumption
    <3> QED
      BY <3>1, <3>2, <3>3
  <2> HIDE DEF g, rest, c
  <2>5. \/ CallsAs(stack, stack', Frame("execute"), g)
        \/ Becomes(stack, stack', g) /\ c = MDECout /\ rest # 0
    <3>1. CASE CallThen(<<Frame("execute")>>, g)
      BY <1>1, <1>2, <2>2, <2>3, <3>1, Called DEF CallThen
    <3>2. CASE c = MDECout /\ CallThen(If(rest = 0, Frame("execute")), g)
      BY <1>1, <1>2, <2>2, <2>3, <3>2, CalledThen DEF CallThen
    <3> QED
      BY <2>1, <3>1, <3>2
  <2>6. /\ Proper(g) /\ IsTransfer(g) /\ ~IsLoop(g) /\ ~IsUpdate(g) /\ g \in TransfersOf(c)
        /\ Proper(Frame("execute")) /\ IsUpdate(Frame("execute")) /\ ~IsTransfer(Frame("execute")) /\ ~IsLoop(Frame("execute"))
    <3>1. Proper(g)
      <4>1. ~IsLoop(g) /\ IsTransfer(g) /\ g.fn # "list"
        BY <2>2 DEF IsLoop, IsTransfer
      <4> QED
        BY <1>2, <2>2, <4>1, Modes DEF Proper
    <3>2. Proper(Frame("execute"))
      BY <2>3 DEF Proper, IsLoop, IsTransfer
    <3> QED
      BY <2>2, <2>3, <3>1, <3>2 DEF IsTransfer, IsLoop, IsUpdate, Updates, TransfersOf
  <2>7. Types'
    <3>1. data_in' \in Nat
      <4>1. data_in \in Nat /\ data_in + BlockWords \in Int /\ BlockWords \in Nat /\ FIFOWords \in Nat
        BY SizesAssumption DEF Inv, Types
      <4>2. Min({data_in + BlockWords, FIFOWords}) \in Nat
        BY <4>1, MinMax
      <4> QED
        BY <2>1, <4>1, <4>2
    <3>2. data_out' \in Nat
      BY <2>1, <2>4 DEF Inv, Types
    <3> QED
      BY <2>1, <3>1, <3>2 DEF Inv, Types
  <2>8. Shape(stack')
    <3>1. Fits(stack, g)
      BY <1>1, <1>2, <2>2, <2>6 DEF Fits, c
    <3>2. FitsAbove(stack, Frame("execute"), g)
      BY <2>2, <2>6 DEF FitsAbove, Waiting
    <3> QED
      BY <1>1, <2>5, <3>1, <3>2, ShapeBecome, ShapeCalled DEF Inv
  <2>9. /\ \A S : Has(stack', S) <=> Waits(stack, S) \/ g \in S \/ (Upper(stack') # g /\ Frame("execute") \in S)
        /\ stack' # <<>>
        /\ \/ Upper(stack') = Frame("execute")
           \/ Upper(stack') = g /\ c = MDECout /\ rest # 0
    <3>1. Frame("execute") # g
      BY <2>2, <2>3
    <3>2. CASE CallsAs(stack, stack', Frame("execute"), g)
      BY <1>1, <1>2, <3>1, <3>2, HasCalled
    <3>3. CASE Becomes(stack, stack', g) /\ c = MDECout /\ rest # 0
      BY <1>1, <1>2, <3>1, <3>3, HasBecome
    <3> QED
      BY <2>5, <3>2, <3>3
  <2>10. \A x \in Channels : Has(stack', TransfersOf(x)) <=> Has(stack, TransfersOf(x))
    <3> TAKE x \in Channels
    <3>1. g \in TransfersOf(x) <=> Top \in TransfersOf(x)
      BY <1>1, <2>2, <2>6, SameTransfers DEF c
    <3>2. Frame("execute") \notin TransfersOf(x)
      BY <2>6 DEF TransfersOf
    <3> QED
      BY <1>2, <2>9, <3>1, <3>2
  <2>11. ActiveInv'
    BY <2>1, <2>10 DEF Inv, ActiveInv
  <2>12. Top \notin Unhalts /\ (\A x \in Channels : Top \notin LoopsTo(x)) /\ Top \notin UpdateSteps
    BY <1>2 DEF Unhalts, IsLoop, LoopsTo, UpdateSteps
  <2>13. HaltInv' /\ StallInv'
    <3>1. IsTransferHalted' = IsTransferHalted
      BY <1>1 DEF IsTransferHalted
    <3>2. Has(stack, Unhalts) => Has(stack', Unhalts)
      BY <1>2, <2>9, <2>12
    <3>3. \A x \in Channels : Has(stack, LoopsTo(x)) => Has(stack', LoopsTo(x))
      BY <1>2, <2>9, <2>12
    <3>4. HaltInv'
      BY <1>1, <2>1, <3>1, <3>2 DEF Inv, HaltInv
    <3>5. StallInv'
      BY <2>1, <2>10, <3>1, <3>3 DEF Inv, StallInv
    <3> QED
      BY <3>4, <3>5
  <2>14. /\ channels[c].request
         /\ ~Runs(stack, "execute") /\ ~Runs(stack, "status_in")
         /\ Has(stack, UpdateSteps) <=> Waits(stack, UpdateSteps)
    BY <1>1, <1>2, <2>12 DEF Inv, RunRequested, Runs, c
  <2>15. InRequested'
    <3>1. CASE c = MDECin
      BY <2>1, <2>3, <2>9, <2>14, <3>1, Modes DEF InRequested, Runs
    <3>2. CASE c = MDECout
      <4>1. (Quiet' <=> Quiet) /\ WantsData' = WantsData
        BY <2>1, <3>2, WantsKept, Modes
      <4>2. channels' = channels
        BY <2>1
      <4>3. Quiet' \/ Runs(stack', "execute")
        BY <2>14, <4>1 DEF Inv, InRequested
      <4>4. channels'[MDECin].request = WantsData'
        BY <2>14, <4>1, <4>2 DEF Inv, InRequested
      <4>5. Has(stack', TransfersOf(MDECin)) => channels'[MDECin].request \/ (Quiet' /\ ~WantsData')
        BY <2>10, <4>1, <4>2, Modes DEF Inv, InRequested
      <4> QED
        BY <4>3, <4>4, <4>5 DEF InRequested
    <3> QED
      BY <1>2, <3>1, <3>2, Modes
  <2>16. OutRequested'
    <3>1. CASE Upper(stack') = Frame("execute")
      <4>1. Has(stack', UpdateSteps)
        <5>1. Upper(stack') # g /\ Frame("execute") \in UpdateSteps
          BY <2>2, <2>3, <2>6, <3>1 DEF UpdateSteps
        <5> QED
          BY <2>9, <5>1
      <4>2. ~RunsFor(stack', MDECout)
        BY <2>6, <3>1 DEF RunsFor
      <4>3. Has(stack', TransfersOf(MDECout)) /\ HasData' => channels'[MDECout].request
        <5>1. CASE c = MDECin
          <6>1. HasData' = HasData
            BY <2>1, <5>1, Modes DEF HasData
          <6> QED
            BY <2>1, <2>10, <6>1, Modes DEF Inv, OutRequested
        <5>2. CASE c = MDECout
          BY <2>1, <2>14, <5>2
        <5> QED
          BY <1>2, <5>1, <5>2, Modes
      <4> QED
        BY <4>1, <4>2, <4>3 DEF OutRequested
    <3>2. CASE Upper(stack') = g /\ c = MDECout /\ rest # 0
      <4>1. HasData
        BY <1>1, <1>2, <2>14, <3>2 DEF Inv, OutRequested, RunsFor, c
      <4>2. HasData' = TRUE
        BY <2>1, <2>4, <3>2, <4>1, Modes DEF HasData
      <4>3. channels'[MDECout].request = TRUE
        BY <1>2, <2>1, <2>14, <3>2 DEF ChannelTypes
      <4> QED
        BY <4>2, <4>3 DEF OutRequested
    <3> QED
      BY <2>9, <3>1, <3>2
  <2>17. RunRequested'
    BY <2>2, <2>3, <2>9 DEF RunRequested, Runs
  <2>18. MovedInv'
    <3>1. IsAt(Top, m)
      BY <1>1, <1>2, TopIsAt DEF Inv, c
    <3>2. GoesOn(m, Top.addr, Top.left) /\ Top.left > 0
      BY <1>1, <3>1 DEF IsAt
    <3>3. Regular(m) /\ moved \in [Channels -> Seq(Int)]
      BY <1>2 DEF Inv, MovedInv
    <3>4. Regular(Append(m, Top.addr)) /\ GoesOn(Append(m, Top.addr), Top.addr + BlockWords, Top.left - 1)
      BY <1>1, <3>2, <3>3, Appended
    <3>5. moved'[c] = Append(m, Top.addr) /\ \A x \in Channels \ {c} : moved'[x] = moved[x]
      BY <1>2, <2>1, <3>3
    <3>6. moved' \in [Channels -> Seq(Int)] /\ \A x \in MDECs : Regular(moved'[x])
      <4>1. Append(m, Top.addr) \in Seq(Int)
        BY <3>4 DEF Regular
      <4> QED
        BY <1>2, <2>1, <3>3, <3>4, <3>5, <4>1, Modes DEF Inv, MovedInv
    <3>7. ASSUME NEW x \in MDECs, channels'[x].busy, ~Has(stack', MovesOf(x))
          PROVE  GoesOn(moved'[x], channels'[x].base, channels'[x].blocks) /\ channels'[x].blocks > 0
      <4>1. x # c /\ g \notin MovesOf(x)
        BY <2>2, <2>9, <3>7 DEF MovesOf
      <4>2. Top \notin MovesOf(x)
        BY <4>1 DEF MovesOf, c
      <4>3. ~Has(stack, MovesOf(x)) /\ channels'[x] = channels[x] /\ moved'[x] = moved[x]
        BY <1>2, <2>1, <2>9, <3>5, <3>7, <4>1, <4>2, Modes
      <4> QED
        BY <3>7, <4>3 DEF Inv, MovedInv
    <3>8. IsAt(g, moved'[c])
      BY <2>2, <3>4, <3>5 DEF IsAt
    <3>9. IsAt(Frame("execute"), moved'[Frame("execute").channel])
      BY <2>3 DEF IsAt
    <3>10. \A d \in 1 .. Len(stack) - 1 : IsAt(Act(stack, d), moved'[Act(stack, d).channel])
      <4> TAKE d \in 1 .. Len(stack) - 1
      <4>1. d \in 1 .. Len(stack) /\ Proper(Act(stack, d))
        BY <1>2 DEF Inv, Shape
      <4>2. IsAt(Act(stack, d), moved[Act(stack, d).channel])
        BY <4>1 DEF Inv, MovedInv
      <4>3. CASE Act(stack, d).fn \in {"block", "block_done"}
        <5>1. Act(stack, d) \notin TransfersOf(c)
          BY <1>2 DEF Waits
        <5>2. Act(stack, d).channel # c
          BY <4>1, <4>3, <5>1 DEF TransfersOf, Proper, IsTransfer
        <5>3. Act(stack, d).channel \in Channels
          BY <4>1, <4>3 DEF Proper, IsTransfer
        <5> QED
          BY <3>5, <4>2, <5>2, <5>3
      <4>4. CASE Act(stack, d).fn \notin {"block", "block_done"}
        BY <4>4 DEF IsAt
      <4> QED
        BY <4>3, <4>4
    <3>11. \A d \in 1 .. Len(stack') : IsAt(Act(stack', d), moved'[Act(stack', d).channel])
      <4>1. /\ Kept(stack, stack') /\ Act(stack', Len(stack)) = g
            /\ \/ Len(stack') = Len(stack)
               \/ Len(stack') = Len(stack) + 1 /\ Act(stack', Len(stack) + 1) = Frame("execute")
        BY <2>5 DEF CallsAs, Becomes
      <4> TAKE d \in 1 .. Len(stack')
      <4>2. \/ d \in 1 .. Len(stack) - 1 \/ d = Len(stack)
            \/ d = Len(stack) + 1 /\ Act(stack', Len(stack) + 1) = Frame("execute")
        BY <1>2, <4>1
      <4> QED
        BY <2>2, <3>8, <3>9, <3>10, <4>1, <4>2 DEF Kept
    <3> QED
      BY <3>6, <3>7, <3>11 DEF MovedInv
  <2> QED
    BY <2>7, <2>8, <2>11, <2>13, <2>15, <2>16, <2>17, <2>18 DEF Inv
<1> QED
  BY <1>3, <1>4

-----------------------------------------------------------------------------
(* The loops over all channels *)

\* A loop is the only activation.
LEMMA LoopIs ==
  ASSUME Inv, NEW fn \in {"unhalt", "dpcr"}, Running(fn)
  PROVE  /\ stack # <<>> /\ stack \in Seq(Activations) /\ Len(stack) = 1 /\ Top = Upper(stack) /\ Top.fn = fn
         /\ Top \in Activations /\ IsLoop(Top) /\ ~IsTransfer(Top) /\ ~IsUpdate(Top)
         /\ Top.channel \in Channels \/ Top.channel = SPU + 1
         /\ \A S : ~Waits(stack, S) /\ (Has(stack, S) <=> Top \in S)
         /\ \A c : ~Has(stack, TransfersOf(c)) /\ ~Has(stack, MovesOf(c))
         /\ ~Has(stack, UpdateSteps)
         /\ Top \in Unhalts <=> fn = "unhalt"
<1>1. stack # <<>> /\ Top = Upper(stack) /\ Top.fn = fn /\ Proper(Top) /\ Top \in Activations
  BY RunningIs
<1>2. stack \in Seq(Activations) /\ IsLoop(Top) /\ ~IsTransfer(Top) /\ ~IsUpdate(Top)
  BY <1>1 DEF Inv, Shape, IsLoop, IsTransfer, IsUpdate, Updates
<1>3. Len(stack) = 1
  <2>1. Len(stack) \in Nat \ {0}
    BY <1>1, <1>2
  <2>2. \A n \in Nat \ {0} : n \in 1 .. n /\ (n > 1 \/ n = 1)
    OBVIOUS
  <2> QED
    BY <1>1, <1>2, <2>1, <2>2 DEF Inv, Shape, Upper
<1>4. Top.channel \in Channels \/ Top.channel = SPU + 1
  <2>1. Top.channel \in 0 .. SPU + 1 /\ Top.channel >= MDECin
    BY <1>1, <1>2 DEF Activations, Proper
  <2> QED
    BY <2>1 DEF Channels, MDECin, SPU
<1>5. \A S : ~Waits(stack, S) /\ (Has(stack, S) <=> Top \in S)
  <2>1. \A S : ~Waits(stack, S)
    BY <1>3 DEF Waits
  <2> QED
    BY <1>1, <1>2, <2>1, HasNow
<1>6. \A c : Top \notin TransfersOf(c) /\ Top \notin MovesOf(c)
  BY <1>2 DEF TransfersOf, MovesOf, IsTransfer
<1>7. Top \notin UpdateSteps /\ (Top \in Unhalts <=> fn = "unhalt")
  BY <1>1, <1>2 DEF UpdateSteps, Unhalts
<1> QED
  BY <1>1, <1>2, <1>3, <1>4, <1>5, <1>6, <1>7

\* A loop comes to a channel, runs its transfer if it can, and goes on; the
\* channel is not left to wait.
LEMMA LoopGoesOn ==
  ASSUME Inv, NEW fn \in {"unhalt", "dpcr"}, Running(fn), Top.channel \in Channels, NEW condition \in BOOLEAN,
         condition => CanTransferChannel(channels[Top.channel], FALSE),
         ~condition => IsTransferHalted \/ ~CanTransferChannel(channels[Top.channel], FALSE),
         CallThen(If(condition, On("transfer", Top.channel)), On(fn, Top.channel + 1)),
         UNCHANGED <<dma, result, mdec, moved>>
  PROVE  Inv'
<1> DEFINE c == Top.channel
           f == On("transfer", Top.channel)
           g == On(fn, Top.channel + 1)
<1>1. /\ stack # <<>> /\ stack \in Seq(Activations) /\ Len(stack) = 1 /\ Top = Upper(stack) /\ Top.fn = fn
      /\ Top \in Activations /\ IsLoop(Top) /\ ~IsTransfer(Top) /\ ~IsUpdate(Top)
      /\ \A S : ~Waits(stack, S) /\ (Has(stack, S) <=> Top \in S)
      /\ \A x : ~Has(stack, TransfersOf(x)) /\ ~Has(stack, MovesOf(x))
      /\ ~Has(stack, UpdateSteps)
      /\ Top \in Unhalts <=> fn = "unhalt"
  BY LoopIs
<1>2. UNCHANGED <<channels, unhalt_event, halt_ticks_remaining, result, mdec, moved>>
  BY DEF dma
<1>3. c \in Channels /\ channels \in [Channels -> ChannelTypes] /\ channels[c] \in ChannelTypes
  BY DEF Inv, Types
<1>4. /\ f \in Activations /\ f.fn = "transfer" /\ f.channel = c
      /\ g \in Activations /\ g.fn = fn /\ g.channel = c + 1 /\ c + 1 >= MDECin
  <2>1. c \in 0 .. SPU + 1 /\ c + 1 \in 0 .. SPU + 1 /\ c + 1 >= MDECin
    BY <1>3 DEF Channels, SPU, MDECin
  <2> HIDE DEF c
  <2>2. \A x \in 0 .. SPU + 1, n \in Functions : On(n, x) \in Activations /\ On(n, x).fn = n /\ On(n, x).channel = x
    BY DEF On, Frame, Activations
  <2> QED
    BY <2>1, <2>2 DEF Functions, c
<1>5. stack' = If(condition, f) \o <<g>> \o Tail(stack)
  BY DEF CallThen
<1> HIDE DEF c, f, g
<1>6. IF condition THEN CallsAs(stack, stack', f, g) ELSE Becomes(stack, stack', g)
  BY <1>1, <1>4, <1>5, CalledThen
<1>7. /\ ~IsTransfer(g) /\ IsLoop(g) /\ ~IsUpdate(g) /\ IsTransfer(f) /\ ~IsLoop(f) /\ ~IsUpdate(f)
      /\ g.fn \in Waiting /\ ~OutDone(g)
  BY <1>4 DEF IsTransfer, IsLoop, IsUpdate, Updates, Waiting, OutDone
<1>8. /\ \A S : Has(stack', S) <=> g \in S \/ (condition /\ f \in S)
      /\ stack' # <<>>
      /\ Upper(stack') = IF condition THEN f ELSE g
  <2>1. CASE condition
    BY <1>1, <1>6, <2>1, HasCalled
  <2>2. CASE ~condition
    BY <1>1, <1>6, <2>2, HasBecome
  <2> QED
    BY <2>1, <2>2
<1>9. Types'
  BY <1>2, DecoderKept DEF Inv, Types
<1>10. Proper(f) /\ Proper(g)
  BY <1>3, <1>4, <1>7 DEF Proper
<1>11. Shape(stack')
  <2>1. Fits(stack, g)
    BY <1>1, <1>7, <1>10 DEF Fits
  <2>2. FitsAbove(stack, f, g)
    BY <1>1, <1>7, <1>10 DEF FitsAbove
  <2> QED
    BY <1>1, <1>6, <2>1, <2>2, ShapeCalled, ShapeBecome DEF Inv
<1>12. condition => channels[c].enabled /\ channels[c].busy /\ channels[c].request
  BY <1>3, Can DEF c
<1>13. \A x : Has(stack', TransfersOf(x)) <=> condition /\ x = c
  <2> TAKE x
  <2>1. g \notin TransfersOf(x)
    BY <1>7 DEF TransfersOf
  <2>2. f \in TransfersOf(x) <=> x = c
    BY <1>4, <1>7 DEF TransfersOf
  <2> QED
    BY <1>8, <2>1, <2>2
<1>14. ActiveInv'
  BY <1>2, <1>12, <1>13 DEF ActiveInv
<1>15. HaltInv'
  <2>1. IsTransferHalted' = IsTransferHalted
    BY <1>2 DEF IsTransferHalted
  <2>2. Top \in Unhalts => g \in Unhalts
    BY <1>1, <1>4 DEF Unhalts
  <2>3. Has(stack, Unhalts) => Has(stack', Unhalts)
    BY <1>1, <1>8, <2>2
  <2> QED
    BY <1>2, <2>1, <2>3 DEF Inv, HaltInv
<1>16. StallInv'
  <2> SUFFICES ASSUME NEW x \in Channels, channels[x].busy, channels[x].enabled, channels[x].request,
                      ~IsTransferHalted
               PROVE  Has(stack', TransfersOf(x)) \/ Has(stack', LoopsTo(x))
    BY <1>2 DEF StallInv, IsTransferHalted
  <2>1. Top \in LoopsTo(x)
    BY <1>1 DEF Inv, StallInv
  <2>2. CASE x = c
    <3>1. condition
      BY <1>3, <2>2, Can DEF c
    <3> QED
      BY <1>13, <2>2, <3>1
  <2>3. CASE x # c
    <3>1. c <= x
      BY <2>1 DEF LoopsTo, c
    <3>2. c + 1 <= x
      BY <1>3, <2>3, <3>1 DEF Channels, MDECin, SPU
    <3>3. g \in LoopsTo(x)
      BY <1>4, <1>7, <3>2 DEF LoopsTo
    <3> QED
      BY <1>8, <3>3
  <2> QED
    BY <2>2, <2>3
<1>17. InRequested' /\ OutRequested'
  <2>1. ~Runs(stack', "execute") /\ ~Runs(stack', "status_in")
    BY <1>7, <1>8 DEF Runs, IsUpdate, Updates
  <2>2. \A x \in MDECs : Has(stack', TransfersOf(x)) => Has(stack, TransfersOf(x)) \/ channels[x].request
    BY <1>12, <1>13
  <2> QED
    BY <1>1, <1>2, <2>1, <2>2, RequestsKept DEF Inv
<1>18. RunRequested'
  BY <1>2, <1>4, <1>7, <1>8, <1>12 DEF RunRequested, Runs, IsLoop
<1>19. MovedInv'
  <2>1. moved' \in [Channels -> Seq(Int)] /\ \A x \in MDECs : Regular(moved'[x])
    BY <1>2 DEF Inv, MovedInv
  <2>2. \A x \in MDECs : channels'[x].busy =>
          GoesOn(moved'[x], channels'[x].base, channels'[x].blocks) /\ channels'[x].blocks > 0
    BY <1>1, <1>2 DEF Inv, MovedInv
  <2>3. IsAt(f, moved'[f.channel]) /\ IsAt(g, moved'[g.channel])
    BY <1>4 DEF IsAt
  <2>4. \A d \in 1 .. Len(stack') : IsAt(Act(stack', d), moved'[Act(stack', d).channel])
    <3>1. CASE condition
      <4>1. Len(stack') = 2 /\ Act(stack', 1) = g /\ Act(stack', 2) = f
        BY <1>1, <1>6, <3>1 DEF CallsAs
      <4> QED
        BY <2>3, <4>1
    <3>2. CASE ~condition
      <4>1. Len(stack') = 1 /\ Act(stack', 1) = g
        BY <1>1, <1>6, <3>2 DEF Becomes
      <4> QED
        BY <2>3, <4>1
    <3> QED
      BY <3>1, <3>2
  <2> QED
    BY <2>1, <2>2, <2>4 DEF MovedInv
<1> QED
  BY <1>9, <1>11, <1>14, <1>15, <1>16, <1>17, <1>18, <1>19 DEF Inv

\* A loop is over: it has come to every channel, or met a halt.
LEMMA LoopEnds ==
  ASSUME Inv, NEW fn \in {"unhalt", "dpcr"}, Running(fn), Top.channel \notin Channels \/ IsTransferHalted,
         TailCall(<<>>), UNCHANGED <<channels, unhalt_event, result, mdec, moved>>,
         \/ halt_ticks_remaining' = halt_ticks_remaining /\ fn = "dpcr"
         \/ halt_ticks_remaining' = IF IsTransferHalted THEN halt_ticks_remaining ELSE 0
  PROVE  Inv'
<1>1. /\ stack # <<>> /\ stack \in Seq(Activations) /\ Len(stack) = 1 /\ Top = Upper(stack) /\ Top.fn = fn
      /\ Top \in Activations /\ IsLoop(Top) /\ ~IsTransfer(Top) /\ ~IsUpdate(Top)
      /\ Top.channel \in Channels \/ Top.channel = SPU + 1
      /\ \A S : ~Waits(stack, S) /\ (Has(stack, S) <=> Top \in S)
      /\ \A x : ~Has(stack, TransfersOf(x)) /\ ~Has(stack, MovesOf(x))
      /\ ~Has(stack, UpdateSteps)
      /\ Top \in Unhalts <=> fn = "unhalt"
  BY LoopIs
<1>2. stack' = <<>>
  <2>1. stack' = <<>> \o Tail(stack)
    BY DEF TailCall
  <2>2. Tail(stack) \in Seq(Activations) /\ Len(Tail(stack)) = 0
    BY <1>1
  <2> QED
    BY <2>1, <2>2
<1>3. \A S : ~Has(stack', S)
  BY <1>2, HasNone
<1>4. Types'
  BY DecoderKept DEF Inv, Types
<1>5. Shape(stack')
  BY <1>2, ShapeNone
<1>6. IsTransferHalted' = IsTransferHalted
  BY DEF IsTransferHalted
<1>7. HaltInv'
  <2>1. IsTransferHalted \/ halt_ticks_remaining' = 0
    BY <1>1 DEF Inv, HaltInv
  <2>2. halt_ticks_remaining' \in Nat /\ halt_ticks_remaining' >= unhalt_event' /\ unhalt_event' \in Nat
    BY DEF Inv, HaltInv, IsTransferHalted
  <2> QED
    BY <1>6, <2>1, <2>2 DEF Inv, HaltInv
<1>8. StallInv'
  <2> SUFFICES ASSUME NEW x \in Channels, channels[x].busy, channels[x].enabled, channels[x].request,
                      ~IsTransferHalted
               PROVE  FALSE
    BY <1>6 DEF StallInv
  <2>1. Top \in LoopsTo(x)
    BY <1>1 DEF Inv, StallInv
  <2>2. Top.channel = SPU + 1 /\ Top.channel <= x
    BY <1>1, <2>1 DEF LoopsTo
  <2> QED
    BY <2>2 DEF Channels, SPU, MDECin
<1>9. InRequested' /\ OutRequested'
  <2>1. ~Runs(stack', "execute") /\ ~Runs(stack', "status_in") /\ ~RunsFor(stack', MDECout)
    BY <1>2 DEF Runs, RunsFor
  <2> QED
    BY <1>1, <1>2, <1>3, <2>1, RequestsKept DEF Inv
<1>10. RunRequested' /\ ActiveInv'
  BY <1>2, <1>3 DEF RunRequested, Runs, ActiveInv
<1>11. MovedInv'
  <2>1. 1 .. Len(stack') = {}
    BY <1>2
  <2>2. \A x \in MDECs : channels'[x].busy =>
          GoesOn(moved'[x], channels'[x].base, channels'[x].blocks) /\ channels'[x].blocks > 0
    BY <1>1 DEF Inv, MovedInv
  <2> QED
    BY <2>1, <2>2 DEF Inv, MovedInv
<1> QED
  BY <1>4, <1>5, <1>7, <1>8, <1>9, <1>10, <1>11 DEF Inv

\* The end of a halt comes to a channel.
LEMMA StepUnhaltChannel ==
  ASSUME Inv, UnhaltChannel
  PROVE  Inv'
<1> DEFINE condition == CanTransferChannel(channels[Top.channel], FALSE)
<1>1. /\ Running("unhalt") /\ Top.channel \in Channels /\ UNCHANGED <<dma, result, mdec, moved>>
      /\ CallThen(If(condition, On("transfer", Top.channel)), On("unhalt", Top.channel + 1))
  BY DEF UnhaltChannel
<1>2. condition \in BOOLEAN
  BY DEF CanTransferChannel
<1> QED
  BY <1>1, <1>2, LoopGoesOn

\* It has come to all of them.
LEMMA StepUnhalted ==
  ASSUME Inv, Unhalted
  PROVE  Inv'
  BY LoopEnds DEF Unhalted

\* The write of DPCR comes to a channel, or stops at a halt.
LEMMA StepDPCRChannel ==
  ASSUME Inv, DPCRChannel
  PROVE  Inv'
<1> DEFINE condition == CanTransferChannel(channels[Top.channel], FALSE)
<1>1. /\ Running("dpcr") /\ UNCHANGED <<dma, result, mdec, moved>>
  BY DEF DPCRChannel
<1>2. CASE Top.channel \in Channels /\ result
  <2>1. CallThen(If(condition, On("transfer", Top.channel)), On("dpcr", Top.channel + 1))
    BY <1>2 DEF DPCRChannel
  <2>2. condition \in BOOLEAN
    BY DEF CanTransferChannel
  <2> QED
    BY <1>1, <1>2, <2>1, <2>2, LoopGoesOn
<1>3. CASE ~(Top.channel \in Channels /\ result)
  <2>1. TailCall(<<>>)
    BY <1>3 DEF DPCRChannel
  <2>2. Top.channel \notin Channels \/ IsTransferHalted
    BY <1>3 DEF Inv, HaltInv
  <2> QED
    BY <1>1, <2>1, <2>2, LoopEnds DEF dma
<1> QED
  BY <1>2, <1>3

-----------------------------------------------------------------------------
(* Requests *)

\* A device runs the transfer of its channel if it had not asked for it, and
\* the channel can; otherwise nothing is left to wait but for a halt.
LEMMA TransferIfIs ==
  ASSUME channels \in [Channels -> ChannelTypes], NEW c \in Channels, NEW r \in BOOLEAN
  PROVE  \E condition \in BOOLEAN :
           /\ TransferIf(c, r) = If(condition, On("transfer", c))
           /\ condition => r /\ ~channels[c].request /\ channels[c].busy /\ channels[c].enabled
           /\ ~condition /\ r /\ channels[c].busy /\ channels[c].enabled => channels[c].request \/ IsTransferHalted
<1> DEFINE cs == Requested(c, TRUE)[c]
           condition == r /\ ~channels[c].request /\ CanTransferChannel(cs, FALSE)
<1>1. /\ cs \in ChannelTypes /\ cs.request = TRUE
      /\ cs.busy = channels[c].busy /\ cs.enabled = channels[c].enabled
  BY RequestSet DEF Changes
<1>2. TransferIf(c, r) = If(condition, On("transfer", c))
  BY DEF TransferIf
<1>3. condition \in BOOLEAN
  BY DEF CanTransferChannel
<1> HIDE DEF cs
<1>4. /\ CanTransferChannel(cs, FALSE) => cs.enabled /\ cs.busy
      /\ cs.enabled /\ cs.busy => CanTransferChannel(cs, FALSE) \/ IsTransferHalted
  BY <1>1, Can
<1>5. /\ condition => r /\ ~channels[c].request /\ channels[c].busy /\ channels[c].enabled
      /\ ~condition /\ r /\ channels[c].busy /\ channels[c].enabled => channels[c].request \/ IsTransferHalted
  BY <1>1, <1>4
<1> QED
  BY <1>2, <1>3, <1>5

\* What is on the stack after a request: perhaps the transfer that it runs.
Runs1(c, condition) ==
  /\ \A x \in Channels : /\ Has(stack', TransfersOf(x)) <=> Has(stack, TransfersOf(x)) \/ (condition /\ x = c)
                         /\ Has(stack, MovesOf(x)) <=> Has(stack', MovesOf(x))
                         /\ Has(stack, LoopsTo(x)) => Has(stack', LoopsTo(x))
  /\ Has(stack, Unhalts) => Has(stack', Unhalts)
  /\ \A d \in 1 .. Len(stack') : \/ d \in 1 .. Len(stack) /\ Act(stack', d) = Act(stack, d)
                                 \/ Act(stack', d).fn \notin {"block", "block_done"}

\* A request, and its transfer.
LEMMA RequestStep ==
  ASSUME Inv, NEW c \in Channels, NEW r \in BOOLEAN, NEW condition \in BOOLEAN, channels' = Requested(c, r),
         condition => r /\ ~channels[c].request /\ channels[c].busy /\ channels[c].enabled,
         ~condition /\ r /\ channels[c].busy /\ channels[c].enabled => channels[c].request \/ IsTransferHalted,
         Runs1(c, condition), NoHalt, UNCHANGED <<result, mdec, moved>>
  PROVE  Types' /\ ActiveInv' /\ HaltInv' /\ StallInv' /\ MovedInv'
<1>1. channels \in [Channels -> ChannelTypes]
  BY DEF Inv, Types
<1>2. /\ channels' \in [Channels -> ChannelTypes] /\ channels'[c].request = r
      /\ \A x \in Channels : x # c => channels'[x] = channels[x]
      /\ \A x \in Channels : /\ channels'[x].base = channels[x].base /\ channels'[x].blocks = channels[x].blocks
                             /\ channels'[x].busy = channels[x].busy /\ channels'[x].mode = channels[x].mode
                             /\ channels'[x].enabled = channels[x].enabled
  BY <1>1, RequestSet DEF Changes
<1>3. Types'
  BY <1>2, DecoderKept DEF Inv, Types
<1>4. ActiveInv'
  BY <1>2 DEF Inv, ActiveInv, Runs1
<1>5. UNCHANGED <<unhalt_event, halt_ticks_remaining>> /\ IsTransferHalted' = IsTransferHalted
  BY DEF NoHalt, IsTransferHalted
<1>6. HaltInv'
  BY <1>5 DEF Inv, HaltInv, Runs1
<1>7. StallInv'
  <2> SUFFICES ASSUME NEW x \in Channels, channels'[x].busy, channels'[x].enabled, channels'[x].request,
                      ~IsTransferHalted
               PROVE  Has(stack', TransfersOf(x)) \/ Has(stack', LoopsTo(x))
    BY <1>5 DEF StallInv
  <2>1. CASE x = c /\ condition
    BY <2>1 DEF Runs1
  <2>2. CASE x # c \/ ~condition
    <3>1. channels[x].busy /\ channels[x].enabled /\ channels[x].request
      BY <1>2, <2>2
    <3>2. Has(stack, TransfersOf(x)) \/ Has(stack, LoopsTo(x))
      BY <3>1 DEF Inv, StallInv
    <3> QED
      BY <3>2 DEF Runs1
  <2> QED
    BY <2>1, <2>2
<1>8. MovedInv'
  <2>1. moved' \in [Channels -> Seq(Int)] /\ \A x \in MDECs : Regular(moved'[x])
    BY DEF Inv, MovedInv
  <2>2. ASSUME NEW x \in MDECs, channels'[x].busy, ~Has(stack', MovesOf(x))
        PROVE  GoesOn(moved'[x], channels'[x].base, channels'[x].blocks) /\ channels'[x].blocks > 0
    <3>1. x \in Channels /\ ~Has(stack, MovesOf(x)) /\ channels[x].busy
      BY <1>2, <2>2, Modes DEF Runs1
    <3> QED
      BY <1>2, <2>2, <3>1 DEF Inv, MovedInv
  <2>3. \A d \in 1 .. Len(stack') : IsAt(Act(stack', d), moved'[Act(stack', d).channel])
    <3> TAKE d \in 1 .. Len(stack')
    <3>1. CASE d \in 1 .. Len(stack) /\ Act(stack', d) = Act(stack, d)
      BY <3>1 DEF Inv, MovedInv
    <3>2. CASE Act(stack', d).fn \notin {"block", "block_done"}
      BY <3>2 DEF IsAt
    <3> QED
      BY <3>1, <3>2 DEF Runs1
  <2> QED
    BY <2>1, <2>2, <2>3 DEF MovedInv
<1> QED
  BY <1>3, <1>4, <1>6, <1>7, <1>8

\* The activations of the requests.
LEMMA OnIs ==
  ASSUME NEW c \in Channels
  PROVE  /\ On("transfer", c) \in Activations /\ On("transfer", c).fn = "transfer" /\ On("transfer", c).channel = c
         /\ Proper(On("transfer", c)) /\ IsTransfer(On("transfer", c)) /\ ~IsLoop(On("transfer", c))
         /\ ~IsUpdate(On("transfer", c))
         /\ \A x : On("transfer", c) \in TransfersOf(x) <=> x = c
         /\ \A x : On("transfer", c) \notin MovesOf(x)
<1> DEFINE f == On("transfer", c)
<1>1. f.fn = "transfer" /\ f.channel = c /\ f \in Activations
  <2>1. c \in 0 .. SPU + 1
    BY Modes
  <2> QED
    BY <2>1 DEF On, Frame, Activations, Functions
<1> HIDE DEF f
<1>2. Proper(f) /\ IsTransfer(f) /\ ~IsLoop(f) /\ ~IsUpdate(f)
  BY <1>1 DEF Proper, IsTransfer, IsLoop, IsUpdate, Updates
<1>3. \A x : (f \in TransfersOf(x) <=> x = c) /\ f \notin MovesOf(x)
  BY <1>1, <1>2 DEF TransfersOf, MovesOf
<1> QED
  BY <1>1, <1>2, <1>3 DEF f

\* And those of the decoder.
LEMMA UpdateFrames ==
  ASSUME NEW fn \in Updates
  PROVE  /\ Frame(fn) \in Activations /\ Frame(fn).fn = fn
         /\ Proper(Frame(fn)) /\ IsUpdate(Frame(fn)) /\ Frame(fn) \in UpdateSteps
<1> DEFINE f == Frame(fn)
<1>1. f.fn = fn /\ f \in Activations
  BY DEF Frame, Activations, Functions, Updates, SPU
<1> HIDE DEF f
<1>2. Proper(f) /\ IsUpdate(f) /\ f \in UpdateSteps
  BY <1>1 DEF Proper, IsTransfer, IsLoop, IsUpdate, Updates, UpdateSteps
<1> QED
  BY <1>1, <1>2 DEF f

\* An activation of the decoder is none of the others.
LEMMA UpdateIsNothingElse ==
  ASSUME NEW f \in Activations, IsUpdate(f)
  PROVE  /\ ~IsTransfer(f) /\ ~IsLoop(f) /\ f \in UpdateSteps /\ f \notin Unhalts /\ ~OutDone(f)
         /\ f.fn \notin {"block", "block_done"}
         /\ \A x : f \notin TransfersOf(x) /\ f \notin MovesOf(x) /\ f \notin LoopsTo(x)
<1>1. ~IsTransfer(f) /\ ~IsLoop(f) /\ f.fn \notin {"block", "block_done", "unhalt"}
  BY DEF IsTransfer, IsLoop, IsUpdate, Updates
<1> QED
  BY <1>1 DEF TransfersOf, MovesOf, LoopsTo, UpdateSteps, Unhalts, OutDone

\* The decoder runs.
LEMMA UpdateIs ==
  ASSUME Inv, NEW fn \in Updates, Running(fn)
  PROVE  /\ stack # <<>> /\ stack \in Seq(Activations) /\ Len(stack) \in Nat \ {0} /\ Top = Upper(stack)
         /\ Top.fn = fn /\ IsUpdate(Top) /\ Top \in Activations
         /\ \A S : Has(stack, S) <=> Waits(stack, S) \/ Top \in S
<1>1. stack # <<>> /\ Top = Upper(stack) /\ Top.fn = fn /\ Top \in Activations /\ stack \in Seq(Activations)
  BY RunningIs DEF Inv, Shape
<1>2. \A S : Has(stack, S) <=> Waits(stack, S) \/ Top \in S
  BY <1>1, HasNow
<1> QED
  BY <1>1, <1>2 DEF IsUpdate

\* The decoder raises or lowers its request for words.
LEMMA StepUpdateStatusIn ==
  ASSUME Inv, UpdateStatusIn
  PROVE  Inv'
<1> DEFINE c == MDECin
           f == On("transfer", c)
           g == Frame("status_out")
<1>1. /\ stack # <<>> /\ stack \in Seq(Activations) /\ Len(stack) \in Nat \ {0} /\ Top = Upper(stack)
      /\ Top.fn = "status_in" /\ IsUpdate(Top) /\ Top \in Activations
      /\ \A S : Has(stack, S) <=> Waits(stack, S) \/ Top \in S
  <2>1. Running("status_in") /\ "status_in" \in Updates
    BY DEF UpdateStatusIn, Updates
  <2> QED
    BY <2>1, UpdateIs
<1>2. c \in Channels /\ channels \in [Channels -> ChannelTypes] /\ WantsData \in BOOLEAN
  BY Modes DEF Inv, Types, WantsData
<1>3. PICK condition \in BOOLEAN :
        /\ TransferIf(c, WantsData) = If(condition, f)
        /\ condition => WantsData /\ ~channels[c].request /\ channels[c].busy /\ channels[c].enabled
        /\ ~condition /\ WantsData /\ channels[c].busy /\ channels[c].enabled => channels[c].request \/ IsTransferHalted
  BY <1>2, TransferIfIs
<1>4. /\ channels' = Requested(c, WantsData) /\ stack' = If(condition, f) \o <<g>> \o Tail(stack)
      /\ NoHalt /\ UNCHANGED <<result, mdec, moved>>
  BY <1>3 DEF UpdateStatusIn, CallThen
<1>5. channels'[c].request = WantsData /\ \A x \in Channels : x # c => channels'[x] = channels[x]
  BY <1>2, <1>4, RequestSet DEF Changes
<1>6. /\ f \in Activations /\ f.fn = "transfer" /\ f.channel = c /\ Proper(f) /\ IsTransfer(f) /\ ~IsLoop(f) /\ ~IsUpdate(f)
      /\ \A x : (f \in TransfersOf(x) <=> x = c) /\ f \notin MovesOf(x)
  BY <1>2, OnIs
<1>7. g \in Activations /\ g.fn = "status_out" /\ Proper(g) /\ IsUpdate(g)
  BY UpdateFrames DEF Updates
<1> HIDE DEF f, g, c
<1>8. /\ ~IsTransfer(g) /\ ~IsLoop(g) /\ g \in UpdateSteps /\ g \notin Unhalts /\ ~OutDone(g)
      /\ g.fn \notin {"block", "block_done"}
      /\ \A x : g \notin TransfersOf(x) /\ g \notin MovesOf(x) /\ g \notin LoopsTo(x)
  BY <1>7, UpdateIsNothingElse
<1>9. /\ ~IsTransfer(Top) /\ Top \notin Unhalts
      /\ \A x : Top \notin TransfersOf(x) /\ Top \notin MovesOf(x) /\ Top \notin LoopsTo(x)
  BY <1>1, UpdateIsNothingElse
<1>10. IF condition THEN CallsAs(stack, stack', f, g) ELSE Becomes(stack, stack', g)
  BY <1>1, <1>4, <1>6, <1>7, CalledThen
<1>11. /\ \A S : Has(stack', S) <=> Waits(stack, S) \/ g \in S \/ (condition /\ f \in S)
       /\ stack' # <<>> /\ Upper(stack') = IF condition THEN f ELSE g
  <2>1. CASE condition
    BY <1>1, <1>10, <2>1, HasCalled
  <2>2. CASE ~condition
    BY <1>1, <1>10, <2>2, HasBecome
  <2> QED
    BY <2>1, <2>2
<1>12. Runs1(c, condition)
  <2>1. \A x \in Channels : /\ Has(stack', TransfersOf(x)) <=> Has(stack, TransfersOf(x)) \/ (condition /\ x = c)
                            /\ Has(stack, MovesOf(x)) <=> Has(stack', MovesOf(x))
                            /\ Has(stack, LoopsTo(x)) => Has(stack', LoopsTo(x))
    BY <1>1, <1>6, <1>8, <1>9, <1>11
  <2>2. Has(stack, Unhalts) => Has(stack', Unhalts)
    BY <1>1, <1>9, <1>11
  <2>3. ASSUME NEW d \in 1 .. Len(stack')
        PROVE  \/ d \in 1 .. Len(stack) /\ Act(stack', d) = Act(stack, d)
               \/ Act(stack', d).fn \notin {"block", "block_done"}
    <3>1. /\ Kept(stack, stack') /\ Act(stack', Len(stack)) = g
          /\ \/ Len(stack') = Len(stack)
             \/ Len(stack') = Len(stack) + 1 /\ Act(stack', Len(stack) + 1) = f
      BY <1>10 DEF CallsAs, Becomes
    <3>2. \/ d \in 1 .. Len(stack) - 1 /\ d \in 1 .. Len(stack)
          \/ d = Len(stack) \/ (d = Len(stack) + 1 /\ Act(stack', Len(stack) + 1) = f)
      BY <1>1, <3>1
    <3> QED
      BY <1>6, <1>8, <3>1, <3>2 DEF Kept
  <2> QED
    BY <2>1, <2>2, <2>3 DEF Runs1
<1>13. Types' /\ ActiveInv' /\ HaltInv' /\ StallInv' /\ MovedInv'
  BY <1>2, <1>3, <1>4, <1>12, RequestStep
<1>14. ~Runs(stack, "execute") /\ Quiet
  BY <1>1 DEF Inv, InRequested, Runs
<1>15. condition => ~Has(stack, TransfersOf(c))
  BY <1>3, <1>14 DEF Inv, InRequested, c
<1>16. Shape(stack')
  <2>1. Fits(stack, g)
    BY <1>7, <1>8 DEF Fits
  <2>2. condition => FitsAbove(stack, f, g)
    BY <1>6, <1>7, <1>8, <1>15 DEF FitsAbove, Waiting
  <2> QED
    BY <1>1, <1>10, <2>1, <2>2, ShapeCalled, ShapeBecome DEF Inv
<1>17. /\ Quiet' <=> Quiet
       /\ WantsData' = WantsData /\ HasData' = HasData
  BY <1>4, DecoderKept
<1>18. InRequested'
  BY <1>2, <1>5, <1>14, <1>17 DEF InRequested, c
<1>19. OutRequested'
  <2>1. Has(stack', UpdateSteps)
    BY <1>8, <1>11
  <2>2. channels'[MDECout] = channels[MDECout] /\ MDECout # c /\ MDECout \in Channels
    BY <1>5, Modes DEF c
  <2>3. Has(stack', TransfersOf(MDECout)) <=> Has(stack, TransfersOf(MDECout))
    BY <1>12, <2>2 DEF Runs1
  <2>4. ~RunsFor(stack', MDECout)
    BY <1>6, <1>8, <1>11, <2>2 DEF RunsFor
  <2> QED
    BY <1>17, <2>1, <2>2, <2>3, <2>4 DEF Inv, OutRequested
<1>20. RunRequested'
  BY <1>3, <1>5, <1>6, <1>7, <1>11 DEF RunRequested, Runs
<1> QED
  BY <1>13, <1>16, <1>18, <1>19, <1>20 DEF Inv

\* The decoder raises or lowers its request for a reader.
LEMMA StepUpdateStatusOut ==
  ASSUME Inv, UpdateStatusOut
  PROVE  Inv'
<1> DEFINE c == MDECout
           f == On("transfer", c)
<1>1. /\ stack # <<>> /\ stack \in Seq(Activations) /\ Len(stack) \in Nat \ {0} /\ Top = Upper(stack)
      /\ Top.fn = "status_out" /\ IsUpdate(Top) /\ Top \in Activations
      /\ \A S : Has(stack, S) <=> Waits(stack, S) \/ Top \in S
  <2>1. Running("status_out") /\ "status_out" \in Updates
    BY DEF UpdateStatusOut, Updates
  <2> QED
    BY <2>1, UpdateIs
<1>2. c \in Channels /\ channels \in [Channels -> ChannelTypes] /\ HasData \in BOOLEAN
  BY Modes DEF Inv, Types, HasData
<1>3. PICK condition \in BOOLEAN :
        /\ TransferIf(c, HasData) = If(condition, f)
        /\ condition => HasData /\ ~channels[c].request /\ channels[c].busy /\ channels[c].enabled
        /\ ~condition /\ HasData /\ channels[c].busy /\ channels[c].enabled => channels[c].request \/ IsTransferHalted
  BY <1>2, TransferIfIs
<1>4. /\ channels' = Requested(c, HasData) /\ stack' = If(condition, f) \o Tail(stack)
      /\ NoHalt /\ UNCHANGED <<result, mdec, moved>>
  BY <1>3 DEF UpdateStatusOut, TailCall
<1>5. channels'[c].request = HasData /\ \A x \in Channels : x # c => channels'[x] = channels[x]
  BY <1>2, <1>4, RequestSet DEF Changes
<1>6. /\ f \in Activations /\ f.fn = "transfer" /\ f.channel = c /\ Proper(f) /\ IsTransfer(f) /\ ~IsLoop(f) /\ ~IsUpdate(f)
      /\ \A x : (f \in TransfersOf(x) <=> x = c) /\ f \notin MovesOf(x)
  BY <1>2, OnIs
<1> HIDE DEF f, c
<1>7. /\ ~IsTransfer(Top) /\ Top \notin Unhalts
      /\ \A x : Top \notin TransfersOf(x) /\ Top \notin MovesOf(x) /\ Top \notin LoopsTo(x)
  BY <1>1, UpdateIsNothingElse
<1>8. IF condition THEN Becomes(stack, stack', f) ELSE Pops(stack, stack')
  BY <1>1, <1>4, <1>6, TailCalled
<1>9. \A S : Has(stack', S) <=> Waits(stack, S) \/ (condition /\ f \in S)
  <2>1. CASE condition
    BY <1>1, <1>8, <2>1, HasBecome
  <2>2. CASE ~condition
    BY <1>1, <1>8, <2>2, HasPopped
  <2> QED
    BY <2>1, <2>2
<1>10. \/ condition /\ stack' # <<>> /\ Upper(stack') = f
       \/ ~condition /\ (stack' # <<>> => Upper(stack').fn \in Waiting)
  <2>1. CASE condition
    BY <1>1, <1>8, <2>1, HasBecome
  <2>2. CASE ~condition
    BY <1>1, <1>8, <2>2, Revealed DEF Inv
  <2> QED
    BY <2>1, <2>2
<1>11. Runs1(c, condition)
  <2>1. \A x \in Channels : /\ Has(stack', TransfersOf(x)) <=> Has(stack, TransfersOf(x)) \/ (condition /\ x = c)
                            /\ Has(stack, MovesOf(x)) <=> Has(stack', MovesOf(x))
                            /\ Has(stack, LoopsTo(x)) => Has(stack', LoopsTo(x))
    BY <1>1, <1>6, <1>7, <1>9
  <2>2. Has(stack, Unhalts) => Has(stack', Unhalts)
    BY <1>1, <1>7, <1>9
  <2>3. ASSUME NEW d \in 1 .. Len(stack')
        PROVE  \/ d \in 1 .. Len(stack) /\ Act(stack', d) = Act(stack, d)
               \/ Act(stack', d).fn \notin {"block", "block_done"}
    <3>1. /\ Kept(stack, stack')
          /\ \/ Len(stack') = Len(stack) - 1
             \/ Len(stack') = Len(stack) /\ Act(stack', Len(stack)) = f
      BY <1>8 DEF Pops, Becomes
    <3>2. \/ d \in 1 .. Len(stack) - 1 /\ d \in 1 .. Len(stack)
          \/ d = Len(stack) /\ Act(stack', Len(stack)) = f
      BY <1>1, <3>1
    <3> QED
      BY <1>6, <3>1, <3>2 DEF Kept
  <2> QED
    BY <2>1, <2>2, <2>3 DEF Runs1
<1>12. Types' /\ ActiveInv' /\ HaltInv' /\ StallInv' /\ MovedInv'
  BY <1>2, <1>3, <1>4, <1>11, RequestStep
<1>13. ~Runs(stack, "execute") /\ ~Runs(stack, "status_in") /\ Quiet
  BY <1>1 DEF Inv, InRequested, Runs
<1>14. condition => ~Has(stack, TransfersOf(c))
  BY <1>3 DEF Inv, OutRequested, c
<1>15. Shape(stack')
  <2>1. condition => Fits(stack, f)
    BY <1>6, <1>14 DEF Fits, c
  <2> QED
    BY <1>1, <1>8, <2>1, ShapePopped, ShapeBecome DEF Inv
<1>16. /\ Quiet' <=> Quiet
       /\ WantsData' = WantsData /\ HasData' = HasData
  BY <1>4, DecoderKept
<1>17. InRequested'
  <2>1. channels'[MDECin] = channels[MDECin] /\ MDECin # c /\ MDECin \in Channels
    BY <1>5, Modes DEF c
  <2>2. Has(stack', TransfersOf(MDECin)) <=> Has(stack, TransfersOf(MDECin))
    BY <1>11, <2>1 DEF Runs1
  <2> QED
    BY <1>13, <1>16, <2>1, <2>2 DEF Inv, InRequested
<1>18. OutRequested'
  BY <1>5, <1>16 DEF OutRequested, c
<1>19. RunRequested'
  BY <1>3, <1>5, <1>6, <1>10 DEF RunRequested, Runs, Waiting
<1> QED
  BY <1>12, <1>15, <1>17, <1>18, <1>19 DEF Inv

\* Execute does all that can be done with the words there are; if there was
\* nothing to be done, it does not change what the decoder asks for.
LEMMA ExecuteDoes ==
  ASSUME Types, Execute
  PROVE  /\ state' \in {"Idle", "Decoding", "SetTable", "NoCommand", "Writing"}
         /\ data_in' \in Nat /\ remaining' \in Nat /\ current' \in 0 .. MacroblockWords
         /\ copy_out_event' = (state' = "Writing")
         /\ Quiet'
         /\ Quiet => WantsData' = WantsData
<1> DEFINE use == IF state = "Decoding" THEN Min({data_in, remaining, MacroblockWords - current})
                  ELSE IF state = "SetTable" /\ data_in >= remaining THEN remaining
                  ELSE IF state = "NoCommand" THEN Min({data_in, remaining})
                  ELSE 0
           decoded == state = "Decoding" /\ current + use = MacroblockWords
           over == \/ state = "Idle"
                   \/ state \in {"SetTable", "NoCommand"} /\ use = remaining
                   \/ state = "Decoding" /\ ~decoded /\ use = remaining
<1>1. /\ remaining' = remaining - use
      /\ data_in' = IF over THEN 0 ELSE data_in - use
      /\ IF decoded /\ data_out = 0
           THEN state' = "Writing" /\ current' = 0 /\ copy_out_event' = TRUE
           ELSE /\ state' = IF over THEN "Idle" ELSE state
                /\ current' = IF over \/ state # "Decoding" THEN 0 ELSE current + use
                /\ UNCHANGED copy_out_event
      /\ UNCHANGED <<enable_dma_in, data_out>>
  BY Zenon DEF Execute
<1>2. /\ data_in \in Nat /\ remaining \in Nat /\ current \in 0 .. MacroblockWords /\ MacroblockWords \in Nat \ {0}
      /\ MacroblockWords - current \in Nat /\ data_out \in Nat
      /\ state \in {"Idle", "Decoding", "SetTable", "NoCommand", "Writing"} /\ copy_out_event = (state = "Writing")
  <2>1. MacroblockWords \in Nat \ {0}
    BY SizesAssumption
  <2> QED
    BY <2>1 DEF Types
<1>3. CASE state = "Decoding"
  <2>1. /\ use \in {data_in, remaining, MacroblockWords - current} /\ use <= data_in /\ use <= remaining
        /\ use <= MacroblockWords - current
    <3> DEFINE u == Min({data_in, remaining, MacroblockWords - current})
    <3>1. /\ u \in {data_in, remaining, MacroblockWords - current}
          /\ u <= data_in /\ u <= remaining /\ u <= MacroblockWords - current
      <4>1. \A k \in Int : /\ Min({data_in, remaining, k}) \in {data_in, remaining, k}
                           /\ Min({data_in, remaining, k}) <= data_in /\ Min({data_in, remaining, k}) <= remaining
                           /\ Min({data_in, remaining, k}) <= k
        <5>1. data_in \in Int /\ remaining \in Int
          BY <1>2
        <5> QED
          BY <5>1, MinOfThree
      <4>2. MacroblockWords - current \in Int
        BY <1>2
      <4> QED
        BY <4>1, <4>2
    <3>2. use = u
      BY <1>3
    <3> QED
      BY <3>1, <3>2
  <2>2. (decoded <=> current + use = MacroblockWords) /\ (over <=> ~decoded /\ use = remaining)
    BY <1>3
  <2> HIDE DEF use, decoded, over
  <2>3. use \in Nat /\ data_in - use \in Nat /\ remaining - use \in Nat /\ current + use \in 0 .. MacroblockWords
    BY <1>2, <2>1
  <2>4. CASE decoded /\ data_out = 0
    <3>1. state' = "Writing" /\ current' = 0 /\ copy_out_event' = TRUE /\ data_in' = data_in - use
      BY <1>1, <2>2, <2>4
    <3>2. Quiet'
      BY <3>1 DEF Quiet
    <3>3. Quiet => WantsData' = WantsData
      <4> SUFFICES ASSUME Quiet PROVE use = 0
        BY <1>1, <1>2, <1>3, <3>1 DEF WantsData
      <4> QED
        BY <1>2, <1>3, <2>1, <2>3 DEF Quiet
    <3>4. data_in' \in Nat /\ remaining' \in Nat /\ current' \in 0 .. MacroblockWords
      BY <1>1, <1>2, <2>3, <3>1
    <3>5. copy_out_event' = (state' = "Writing")
      BY <3>1
    <3> QED
      BY <3>1, <3>2, <3>3, <3>4, <3>5
  <2>5. CASE ~(decoded /\ data_out = 0) /\ over
    <3>1. state' = "Idle" /\ current' = 0 /\ data_in' = 0 /\ copy_out_event' = copy_out_event
      BY <1>1, <2>5
    <3>2. Quiet'
      BY <3>1 DEF Quiet
    <3>3. ~Quiet
      BY <1>2, <1>3, <2>1, <2>2, <2>3, <2>5 DEF Quiet
    <3> QED
      BY <1>1, <1>2, <1>3, <2>3, <3>1, <3>2, <3>3
  <2>6. CASE ~(decoded /\ data_out = 0) /\ ~over
    <3>1. state' = "Decoding" /\ current' = current + use /\ data_in' = data_in - use /\ copy_out_event' = copy_out_event
      BY <1>1, <1>3, <2>6
    <3>2. Quiet'
      <4>1. CASE decoded
        BY <2>2, <3>1, <4>1 DEF Quiet
      <4>2. CASE ~decoded
        <5>1. use # remaining /\ use # MacroblockWords - current
          BY <1>2, <2>2, <2>3, <2>6, <4>2
        <5>2. data_in' = 0 /\ remaining' > 0
          BY <1>1, <1>2, <2>1, <2>3, <3>1, <5>1
        <5> QED
          BY <3>1, <5>2 DEF Quiet
      <4> QED
        BY <4>1, <4>2
    <3>3. Quiet => WantsData' = WantsData
      <4> SUFFICES ASSUME Quiet PROVE use = 0
        BY <1>1, <1>2, <1>3, <3>1 DEF WantsData
      <4> QED
        BY <1>2, <1>3, <2>1, <2>3 DEF Quiet
    <3> QED
      BY <1>1, <1>2, <1>3, <2>3, <3>1, <3>2, <3>3
  <2> QED
    BY <2>4, <2>5, <2>6
<1>4. CASE state = "SetTable"
  <2>1. use = (IF data_in >= remaining THEN remaining ELSE 0) /\ ~decoded /\ (over <=> use = remaining)
    BY <1>4
  <2> HIDE DEF use, decoded, over
  <2>2. /\ state' = (IF over THEN "Idle" ELSE "SetTable") /\ current' = 0 /\ copy_out_event' = copy_out_event
        /\ data_in' = (IF over THEN 0 ELSE data_in - use) /\ remaining' = remaining - use
    BY <1>1, <1>4, <2>1
  <2>3. CASE data_in >= remaining
    <3>1. use = remaining /\ over /\ remaining' = 0
      BY <1>2, <2>1, <2>2, <2>3
    <3>2. Quiet' /\ ~Quiet
      BY <1>2, <1>4, <2>2, <2>3, <3>1 DEF Quiet
    <3> QED
      BY <1>2, <1>4, <2>2, <3>1, <3>2
  <2>4. CASE ~(data_in >= remaining)
    <3>1. use = 0 /\ remaining # 0 /\ ~over /\ data_in' = data_in /\ remaining' = remaining /\ state' = state
      BY <1>2, <1>4, <2>1, <2>2, <2>4
    <3>2. Quiet' /\ WantsData' = WantsData
      BY <1>1, <1>2, <1>4, <2>4, <3>1 DEF Quiet, WantsData
    <3> QED
      BY <1>2, <1>4, <2>2, <3>1, <3>2
  <2> QED
    BY <2>3, <2>4
<1>5. CASE state = "NoCommand"
  <2>1. use = Min({data_in, remaining}) /\ ~decoded /\ (over <=> use = remaining)
    BY <1>5
  <2>2. Min({data_in, remaining}) = IF data_in <= remaining THEN data_in ELSE remaining
    BY <1>2, MinMax
  <2> HIDE DEF use, decoded, over
  <2>3. /\ state' = (IF over THEN "Idle" ELSE "NoCommand") /\ current' = 0 /\ copy_out_event' = copy_out_event
        /\ data_in' = (IF over THEN 0 ELSE data_in - use) /\ remaining' = remaining - use
    BY <1>1, <1>5, <2>1
  <2>4. CASE over
    <3>1. remaining' = 0 /\ data_in' = 0 /\ state' = "Idle"
      BY <1>2, <2>1, <2>3, <2>4
    <3>2. Quiet' /\ ~Quiet
      BY <1>2, <1>5, <2>1, <2>2, <2>4, <3>1 DEF Quiet
    <3> QED
      BY <1>2, <1>5, <2>3, <3>1, <3>2
  <2>5. CASE ~over
    <3>1. use = data_in /\ data_in' = 0 /\ remaining' = remaining - data_in /\ remaining' \in Nat /\ remaining' > 0
      BY <1>2, <2>1, <2>2, <2>3, <2>5
    <3>2. Quiet'
      BY <2>3, <2>5, <3>1 DEF Quiet
    <3>3. Quiet => WantsData' = WantsData
      BY <1>1, <1>2, <1>5, <2>3, <2>5, <3>1 DEF Quiet, WantsData
    <3> QED
      BY <1>2, <1>5, <2>3, <2>5, <3>1, <3>2, <3>3
  <2> QED
    BY <2>4, <2>5
<1>6. CASE state = "Idle"
  <2>1. use = 0 /\ ~decoded /\ over
    BY <1>6
  <2> HIDE DEF use, decoded, over
  <2>2. state' = "Idle" /\ current' = 0 /\ copy_out_event' = copy_out_event /\ data_in' = 0 /\ remaining' = remaining
    BY <1>1, <1>2, <2>1
  <2>3. Quiet' /\ WantsData' = WantsData
    BY <1>1, <1>6, <2>2 DEF Quiet, WantsData
  <2> QED
    BY <1>2, <1>6, <2>2, <2>3
<1>7. CASE state = "Writing"
  <2>1. use = 0 /\ ~decoded /\ ~over
    BY <1>7
  <2> HIDE DEF use, decoded, over
  <2>2. /\ state' = "Writing" /\ current' = 0 /\ copy_out_event' = copy_out_event
        /\ data_in' = data_in /\ remaining' = remaining
    BY <1>1, <1>2, <1>7, <2>1
  <2>3. Quiet' /\ WantsData' = WantsData
    BY <1>1, <1>7, <2>2 DEF Quiet, WantsData
  <2> QED
    BY <1>2, <1>7, <2>2, <2>3
<1> QED
  BY <1>2, <1>3, <1>4, <1>5, <1>6, <1>7

\* The decoder takes the words that wait.
LEMMA StepExecute ==
  ASSUME Inv, Execute
  PROVE  Inv'
<1> DEFINE g == Frame("status_in")
<1>1. /\ stack # <<>> /\ stack \in Seq(Activations) /\ Len(stack) \in Nat \ {0} /\ Top = Upper(stack)
      /\ Top.fn = "execute" /\ IsUpdate(Top) /\ Top \in Activations
      /\ \A S : Has(stack, S) <=> Waits(stack, S) \/ Top \in S
  <2>1. Running("execute") /\ "execute" \in Updates
    BY DEF Execute, Updates
  <2> QED
    BY <2>1, UpdateIs
<1>2. stack' = <<g>> \o Tail(stack) /\ UNCHANGED <<dma, result, enable_dma_in, enable_dma_out, data_out, moved>>
  BY DEF Execute, ThenUpdateStatus, TailCall
<1>3. UNCHANGED <<channels, unhalt_event, halt_ticks_remaining, result, enable_dma_in, enable_dma_out, data_out, moved>>
  BY <1>2 DEF dma
<1>4. g \in Activations /\ g.fn = "status_in" /\ Proper(g) /\ IsUpdate(g)
  BY UpdateFrames DEF Updates
<1> HIDE DEF g
<1>5. /\ ~IsTransfer(g) /\ ~IsLoop(g) /\ g \in UpdateSteps /\ g \notin Unhalts /\ ~OutDone(g)
      /\ g.fn \notin {"block", "block_done"}
      /\ \A x : g \notin TransfersOf(x) /\ g \notin MovesOf(x) /\ g \notin LoopsTo(x)
  BY <1>4, UpdateIsNothingElse
<1>6. /\ ~IsTransfer(Top) /\ Top \notin Unhalts /\ Top \in UpdateSteps
      /\ \A x : Top \notin TransfersOf(x) /\ Top \notin MovesOf(x) /\ Top \notin LoopsTo(x)
  BY <1>1, UpdateIsNothingElse
<1>7. Becomes(stack, stack', g)
  BY <1>1, <1>2, <1>4, Became
<1>8. (\A S : Has(stack', S) <=> Waits(stack, S) \/ g \in S) /\ stack' # <<>> /\ Upper(stack') = g
  BY <1>1, <1>7, HasBecome
<1>9. /\ \A x : /\ Has(stack', TransfersOf(x)) <=> Has(stack, TransfersOf(x))
                /\ Has(stack', MovesOf(x)) <=> Has(stack, MovesOf(x))
                /\ Has(stack', LoopsTo(x)) <=> Has(stack, LoopsTo(x))
      /\ Has(stack', Unhalts) <=> Has(stack, Unhalts)
      /\ Has(stack', UpdateSteps)
  BY <1>1, <1>5, <1>6, <1>8
<1>10. /\ state' \in {"Idle", "Decoding", "SetTable", "NoCommand", "Writing"}
       /\ data_in' \in Nat /\ remaining' \in Nat /\ current' \in 0 .. MacroblockWords
       /\ copy_out_event' = (state' = "Writing")
       /\ Quiet'
       /\ Quiet => WantsData' = WantsData
  BY ExecuteDoes DEF Inv
<1>11. Types'
  BY <1>3, <1>10 DEF Inv, Types
<1>12. Shape(stack')
  <2>1. Fits(stack, g)
    BY <1>4, <1>5 DEF Fits
  <2> QED
    BY <1>1, <1>7, <2>1, ShapeBecome DEF Inv
<1>13. IsTransferHalted' = IsTransferHalted
  BY <1>3 DEF IsTransferHalted
<1>14. ActiveInv' /\ HaltInv' /\ StallInv'
  <2>1. ActiveInv'
    BY <1>3, <1>9 DEF Inv, ActiveInv
  <2>2. HaltInv'
    BY <1>3, <1>9, <1>13 DEF Inv, HaltInv
  <2>3. StallInv'
    BY <1>3, <1>9, <1>13 DEF Inv, StallInv
  <2> QED
    BY <2>1, <2>2, <2>3
<1>15. InRequested'
  <2>1. Runs(stack', "status_in")
    BY <1>4, <1>8 DEF Runs
  <2> QED
    BY <1>3, <1>9, <1>10, <2>1 DEF Inv, InRequested
<1>16. OutRequested'
  <2>1. HasData' = HasData
    BY <1>3 DEF HasData
  <2>2. ~RunsFor(stack', MDECout)
    BY <1>5, <1>8 DEF RunsFor
  <2> QED
    BY <1>3, <1>9, <2>1, <2>2 DEF Inv, OutRequested
<1>17. RunRequested'
  BY <1>4, <1>8 DEF RunRequested, Runs
<1>18. MovedInv'
  <2>1. \A x \in MDECs : channels'[x].busy /\ ~Has(stack', MovesOf(x)) =>
          GoesOn(moved'[x], channels'[x].base, channels'[x].blocks) /\ channels'[x].blocks > 0
    BY <1>3, <1>9 DEF Inv, MovedInv
  <2>2. \A d \in 1 .. Len(stack') : IsAt(Act(stack', d), moved'[Act(stack', d).channel])
    <3> TAKE d \in 1 .. Len(stack')
    <3>1. Kept(stack, stack') /\ Act(stack', Len(stack)) = g /\ Len(stack') = Len(stack)
      BY <1>7 DEF Becomes
    <3>2. (d \in 1 .. Len(stack) - 1 /\ d \in 1 .. Len(stack)) \/ d = Len(stack)
      BY <1>1, <3>1
    <3>3. IsAt(g, moved'[g.channel])
      BY <1>5 DEF IsAt
    <3>4. CASE d = Len(stack)
      BY <3>1, <3>3, <3>4
    <3>5. CASE d \in 1 .. Len(stack) - 1 /\ d \in 1 .. Len(stack)
      BY <1>3, <3>1, <3>5 DEF Kept, Inv, MovedInv
    <3> QED
      BY <3>2, <3>4, <3>5
  <2> QED
    BY <1>3, <2>1, <2>2 DEF Inv, MovedInv
<1> QED
  BY <1>11, <1>12, <1>14, <1>15, <1>16, <1>17, <1>18 DEF Inv

-----------------------------------------------------------------------------
(* The program, and the events *)

\* With no call under way the requests are what the decoder asks for.
LEMMA AtRest ==
  ASSUME Inv, stack = <<>>
  PROVE  /\ \A S : ~Has(stack, S)
         /\ Quiet /\ channels[MDECin].request = WantsData /\ channels[MDECout].request = HasData
         /\ IsTransferHalted \/ halt_ticks_remaining = 0
         /\ \A c \in Channels : channels[c].busy /\ channels[c].enabled /\ channels[c].request => IsTransferHalted
         /\ \A c \in MDECs : channels[c].busy =>
              GoesOn(moved[c], channels[c].base, channels[c].blocks) /\ channels[c].blocks > 0
         /\ channels \in [Channels -> ChannelTypes]
<1>1. \A S : ~Has(stack, S)
  BY HasNone
<1>2. \A fn : ~Runs(stack, fn)
  BY DEF Runs
<1>3. Quiet /\ channels[MDECin].request = WantsData
  BY <1>2 DEF Inv, InRequested
<1>4. channels[MDECout].request = HasData
  BY <1>1 DEF Inv, OutRequested
<1>5. IsTransferHalted \/ halt_ticks_remaining = 0
  BY <1>1 DEF Inv, HaltInv
<1>6. \A c \in Channels : channels[c].busy /\ channels[c].enabled /\ channels[c].request => IsTransferHalted
  BY <1>1 DEF Inv, StallInv
<1>7. \A c \in MDECs : channels[c].busy =>
        GoesOn(moved[c], channels[c].base, channels[c].blocks) /\ channels[c].blocks > 0
  BY <1>1 DEF Inv, MovedInv
<1> QED
  BY <1>1, <1>3, <1>4, <1>5, <1>6, <1>7 DEF Inv, Types

\* The decoder is called.
LEMMA DecoderStarts ==
  ASSUME Inv, stack = <<>>, NEW fn \in {"execute", "status_in"}, stack' = <<Frame(fn)>>, Types',
         fn = "execute" \/ Quiet',
         \A c \in Channels : /\ channels'[c].base = channels[c].base /\ channels'[c].blocks = channels[c].blocks
                             /\ channels'[c].busy = channels[c].busy /\ channels'[c].enabled = channels[c].enabled
                             /\ channels'[c].request => channels[c].request,
         UNCHANGED <<unhalt_event, halt_ticks_remaining, result, moved>>
  PROVE  Inv'
<1> DEFINE f == Frame(fn)
<1>1. /\ IsTransferHalted \/ halt_ticks_remaining = 0
      /\ \A c \in Channels : channels[c].busy /\ channels[c].enabled /\ channels[c].request => IsTransferHalted
      /\ \A c \in MDECs : channels[c].busy =>
           GoesOn(moved[c], channels[c].base, channels[c].blocks) /\ channels[c].blocks > 0
  BY AtRest
<1>2. f \in Activations /\ f.fn = fn /\ Proper(f) /\ IsUpdate(f)
  BY UpdateFrames DEF Updates
<1> HIDE DEF f
<1>3. /\ ~IsTransfer(f) /\ f \in UpdateSteps /\ f.fn \notin {"block", "block_done"}
      /\ \A x : f \notin TransfersOf(x)
  BY <1>2, UpdateIsNothingElse
<1>4. Starts(stack', f)
  BY <1>2, Started DEF f
<1>5. (\A S : Has(stack', S) <=> f \in S) /\ stack' # <<>> /\ Upper(stack') = f
  BY <1>4, HasStarted
<1>6. Shape(stack')
  BY <1>2, <1>4, ShapeStarted
<1>7. ActiveInv'
  BY <1>3, <1>5 DEF ActiveInv
<1>8. IsTransferHalted' = IsTransferHalted
  BY DEF IsTransferHalted
<1>9. HaltInv' /\ StallInv'
  <2>1. HaltInv'
    BY <1>1, <1>8 DEF Inv, HaltInv
  <2>2. StallInv'
    BY <1>1, <1>8 DEF StallInv
  <2> QED
    BY <2>1, <2>2
<1>10. InRequested'
  BY <1>2, <1>3, <1>5 DEF InRequested, Runs
<1>11. OutRequested'
  BY <1>3, <1>5 DEF OutRequested, RunsFor
<1>12. RunRequested'
  BY <1>2, <1>5 DEF RunRequested, Runs
<1>13. MovedInv'
  <2>1. IsAt(f, moved'[f.channel])
    BY <1>3 DEF IsAt
  <2>2. \A d \in 1 .. Len(stack') : IsAt(Act(stack', d), moved'[Act(stack', d).channel])
    <3>1. \A d \in 1 .. Len(stack') : Act(stack', d) = f
      BY <1>4 DEF Starts
    <3> QED
      BY <2>1, <3>1
  <2>3. \A x \in MDECs : channels'[x].busy => GoesOn(moved'[x], channels'[x].base, channels'[x].blocks) /\ channels'[x].blocks > 0
    BY <1>1, Modes
  <2> QED
    BY <2>2, <2>3 DEF Inv, MovedInv
<1> QED
  BY <1>6, <1>7, <1>9, <1>10, <1>11, <1>12, <1>13 DEF Inv

\* A macroblock is copied out.
LEMMA StepCopyOutBlock ==
  ASSUME Inv, CopyOutBlock
  PROVE  Inv'
<1>1. /\ stack = <<>> /\ copy_out_event' = FALSE /\ state' = (IF remaining = 0 THEN "Idle" ELSE "Decoding")
      /\ data_out' = (data_out + OutputWords) % SizeValues /\ stack' = <<Frame("execute")>>
      /\ UNCHANGED <<channels, unhalt_event, halt_ticks_remaining, result, enable_dma_in, enable_dma_out,
                     data_in, remaining, current, moved>>
  BY DEF CopyOutBlock, dma
<1>2. data_out' \in Nat
  <2>1. data_out + OutputWords \in Nat /\ SizeValues \in Nat \ {0}
    BY SizesAssumption DEF Inv, Types
  <2> QED
    BY <1>1, <2>1
<1>3. Types'
  BY <1>1, <1>2 DEF Inv, Types
<1> QED
  BY <1>1, <1>3, DecoderStarts

\* A command is written.
LEMMA StepWriteMDECCommand ==
  ASSUME Inv, WriteMDECCommand
  PROVE  Inv'
<1>1. /\ stack = <<>> /\ state = "Idle" /\ state' \in {"Decoding", "SetTable", "NoCommand"}
      /\ remaining' \in (IF state' = "SetTable" THEN {TableWords} ELSE Parameters) /\ stack' = <<Frame("execute")>>
      /\ UNCHANGED <<channels, unhalt_event, halt_ticks_remaining, result, enable_dma_in, enable_dma_out,
                     data_in, data_out, current, copy_out_event, moved>>
  BY DEF WriteMDECCommand, CanWrite, dma
<1>2. remaining' \in Nat
  BY <1>1, SizesAssumption
<1>3. Types'
  BY <1>1, <1>2 DEF Inv, Types
<1> QED
  BY <1>1, <1>3, DecoderStarts

\* A parameter is written.
LEMMA StepWriteMDECData ==
  ASSUME Inv, WriteMDECData
  PROVE  Inv'
<1>1. /\ stack = <<>> /\ data_in' = data_in + 1 /\ stack' = <<Frame("execute")>>
      /\ UNCHANGED <<channels, unhalt_event, halt_ticks_remaining, result, state, enable_dma_in, enable_dma_out,
                     data_out, remaining, current, copy_out_event, moved>>
  BY DEF WriteMDECData, CanWrite, dma
<1>2. Types'
  BY <1>1 DEF Inv, Types
<1> QED
  BY <1>1, <1>2, DecoderStarts

\* Requests are lowered, and nothing else.
Lowers(old, new) ==
  /\ new \in [Channels -> ChannelTypes]
  /\ \A c \in Channels : /\ new[c].base = old[c].base /\ new[c].blocks = old[c].blocks
                         /\ new[c].busy = old[c].busy /\ new[c].enabled = old[c].enabled
                         /\ new[c].mode = old[c].mode /\ (new[c].request => old[c].request)

\* One request is lowered.
LEMMA Lowered ==
  ASSUME NEW old \in [Channels -> ChannelTypes], NEW c \in Channels
  PROVE  Lowers(old, [old EXCEPT ![c].request = FALSE])
  BY DEF Lowers, ChannelTypes

\* The control register is written, perhaps with a reset.
LEMMA StepWriteMDECControl ==
  ASSUME Inv, WriteMDECControl
  PROVE  Inv'
<1>1. /\ stack = <<>> /\ stack' = <<Frame("execute")>> /\ enable_dma_in' \in BOOLEAN /\ enable_dma_out' \in BOOLEAN
      /\ UNCHANGED <<unhalt_event, halt_ticks_remaining, result, moved>>
  BY DEF WriteMDECControl, CanWrite, NoHalt
<1>2. channels \in [Channels -> ChannelTypes]
  BY DEF Inv, Types
<1>3. CASE UNCHANGED <<channels, state, data_in, data_out, remaining, current, copy_out_event>>
  <2>1. Types'
    BY <1>1, <1>3 DEF Inv, Types
  <2> QED
    BY <1>1, <1>3, <2>1, DecoderStarts
<1>4. CASE SoftReset
  <2>1. /\ state' = "Idle" /\ data_in' = 0 /\ data_out' = 0 /\ remaining' = 0 /\ current' = 0
        /\ copy_out_event' = FALSE
        /\ channels' = [channels EXCEPT ![MDECin].request = FALSE, ![MDECout].request = FALSE]
    BY <1>4 DEF SoftReset
  <2> DEFINE first == [channels EXCEPT ![MDECin].request = FALSE]
  <2>2. channels' = [first EXCEPT ![MDECout].request = FALSE]
    BY <2>1
  <2>3. Lowers(channels, first)
    BY <1>2, Lowered, Modes
  <2> HIDE DEF first
  <2>4. Lowers(first, channels')
    <3>1. first \in [Channels -> ChannelTypes] /\ MDECout \in Channels
      BY <2>3, Modes DEF Lowers
    <3>2. Lowers(first, [first EXCEPT ![MDECout].request = FALSE])
      BY <3>1, Lowered
    <3> QED
      BY <2>2, <3>2
  <2>5. Lowers(channels, channels')
    BY <2>3, <2>4 DEF Lowers
  <2>6. Types'
    <3>1. channels' \in [Channels -> ChannelTypes] /\ \A c \in Channels : channels'[c].busy => channels'[c].mode = Mode(c)
      BY <2>5 DEF Lowers, Inv, Types
    <3>2. 0 \in 0 .. MacroblockWords
      BY SizesAssumption
    <3> QED
      BY <1>1, <2>1, <3>1, <3>2 DEF Types
  <2> QED
    BY <1>1, <2>5, <2>6, DecoderStarts DEF Lowers
<1> QED
  BY <1>3, <1>4 DEF WriteMDECControl

\* A decoded word is read.
LEMMA StepReadMDECData ==
  ASSUME Inv, ReadMDECData
  PROVE  Inv'
<1> DEFINE fn == IF data_out = 1 THEN "execute" ELSE "status_in"
<1>1. /\ stack = <<>> /\ data_out' = (data_out + SizeValues - 1) % SizeValues /\ stack' = <<Frame(fn)>>
      /\ UNCHANGED <<channels, unhalt_event, halt_ticks_remaining, result, state, enable_dma_in, enable_dma_out,
                     data_in, remaining, current, copy_out_event, moved>>
  BY DEF ReadMDECData, CanWrite, dma
<1>2. data_out' \in Nat
  <2>1. data_out + SizeValues - 1 \in Nat /\ SizeValues \in Nat \ {0}
    BY SizesAssumption DEF Inv, Types
  <2> QED
    BY <1>1, <2>1
<1>3. Types'
  BY <1>1, <1>2 DEF Inv, Types
<1>4. Quiet'
  BY <1>1, AtRest, WantsKept
<1>5. fn \in {"execute", "status_in"}
  OBVIOUS
<1> HIDE DEF fn
<1> QED
  BY <1>1, <1>3, <1>4, <1>5, DecoderStarts

\* A channel control register is written.
LEMMA StepWriteChannelControl ==
  ASSUME Inv, WriteChannelControl
  PROVE  Inv'
<1>1. /\ \A S : ~Has(stack, S)
      /\ Quiet /\ channels[MDECin].request = WantsData /\ channels[MDECout].request = HasData
      /\ IsTransferHalted \/ halt_ticks_remaining = 0
      /\ \A c \in Channels : channels[c].busy /\ channels[c].enabled /\ channels[c].request => IsTransferHalted
      /\ \A c \in MDECs : channels[c].busy =>
           GoesOn(moved[c], channels[c].base, channels[c].blocks) /\ channels[c].blocks > 0
      /\ channels \in [Channels -> ChannelTypes] /\ stack = <<>>
  BY AtRest DEF WriteChannelControl, CanWrite
<1>2. PICK c \in Channels, busy \in BOOLEAN, chopping \in BOOLEAN :
        \E base \in IF busy /\ ~channels[c].busy THEN Bases ELSE {channels[c].base} :
          LET starts == busy /\ ~channels[c].busy
              cs == [channels[c] EXCEPT !.mode = Mode(c), !.busy = busy, !.base = base,
                                        !.blocks = IF starts THEN Blocks ELSE @]
              can == CanTransferChannel(cs, starts)
              delayed == can /\ c = SPU /\ chopping
          IN  /\ busy \/ channels[c].busy
              /\ channels' = [channels EXCEPT ![c] = cs]
              /\ moved' = IF starts THEN [moved EXCEPT ![c] = <<>>] ELSE moved
              /\ IF delayed THEN HaltTransfer(ChopTicks) ELSE NoHalt
              /\ stack' = If(can /\ ~delayed, On("transfer", c))
  BY DEF WriteChannelControl
<1> DEFINE starts == busy /\ ~channels[c].busy
<1>3. PICK base \in IF starts THEN Bases ELSE {channels[c].base} :
          LET cs == [channels[c] EXCEPT !.mode = Mode(c), !.busy = busy, !.base = base,
                                        !.blocks = IF starts THEN Blocks ELSE @]
              can == CanTransferChannel(cs, starts)
              delayed == can /\ c = SPU /\ chopping
          IN  /\ busy \/ channels[c].busy
              /\ channels' = [channels EXCEPT ![c] = cs]
              /\ moved' = IF starts THEN [moved EXCEPT ![c] = <<>>] ELSE moved
              /\ IF delayed THEN HaltTransfer(ChopTicks) ELSE NoHalt
              /\ stack' = If(can /\ ~delayed, On("transfer", c))
  BY <1>2
<1> DEFINE cs == [channels[c] EXCEPT !.mode = Mode(c), !.busy = busy, !.base = base,
                                     !.blocks = IF starts THEN Blocks ELSE @]
           can == CanTransferChannel(cs, starts)
           delayed == can /\ c = SPU /\ chopping
           f == On("transfer", c)
<1>4. /\ busy \/ channels[c].busy
      /\ channels' = [channels EXCEPT ![c] = cs]
      /\ moved' = (IF starts THEN [moved EXCEPT ![c] = <<>>] ELSE moved)
      /\ IF delayed THEN HaltTransfer(ChopTicks) ELSE NoHalt
      /\ stack' = If(can /\ ~delayed, f)
  BY <1>3
<1>5. result' = result /\ mdec' = mdec
  BY DEF WriteChannelControl
<1>6. base \in Int /\ (~starts => base = channels[c].base)
  BY <1>1, <1>3, SizesAssumption DEF ChannelTypes
<1>7. /\ cs \in ChannelTypes /\ cs.mode = Mode(c) /\ cs.busy = busy /\ cs.base = base
      /\ cs.blocks = (IF starts THEN Blocks ELSE channels[c].blocks)
      /\ cs.request = channels[c].request /\ cs.enabled = channels[c].enabled
  <2>1. channels[c] \in ChannelTypes
    BY <1>1
  <2>2. Mode(c) \in {"Manual", "Request", "LinkedList"}
    <3>1. c = MDECin \/ c = MDECout \/ c = GPU \/ c = SPU
      BY Modes
    <3> QED
      BY <3>1, Modes
  <2>3. Blocks \in Int
    BY SizesAssumption
  <2> QED
    BY <1>6, <2>1, <2>2, <2>3 DEF ChannelTypes
<1> HIDE DEF cs
<1>8. /\ can => cs.enabled /\ cs.busy /\ cs.request
      /\ cs.enabled /\ cs.busy /\ cs.request => can \/ IsTransferHalted
      /\ starts \in BOOLEAN /\ can \in BOOLEAN
  <2>1. starts = TRUE \/ starts = FALSE
    OBVIOUS
  <2> HIDE DEF starts
  <2>2. can \in BOOLEAN
    BY DEF CanTransferChannel
  <2>3. CASE starts = TRUE
    BY <1>7, <2>2, <2>3, Can
  <2>4. CASE starts = FALSE
    BY <1>7, <2>2, <2>4, Can
  <2> QED
    BY <2>1, <2>3, <2>4
<1>9. channels'[c] = cs /\ (\A x \in Channels : x # c => channels'[x] = channels[x]) /\ channels' \in [Channels -> ChannelTypes]
  BY <1>1, <1>4, <1>7
<1>10. /\ f \in Activations /\ f.fn = "transfer" /\ f.channel = c /\ Proper(f) /\ IsTransfer(f) /\ ~IsLoop(f) /\ ~IsUpdate(f)
       /\ \A x : (f \in TransfersOf(x) <=> x = c) /\ f \notin MovesOf(x)
  BY OnIs
<1> DEFINE condition == can /\ ~delayed
<1>11. condition \in BOOLEAN /\ delayed \in BOOLEAN /\ (condition => can) /\ (can /\ ~condition => delayed)
  BY <1>8
<1>12. condition => starts \/ ~IsTransferHalted \/ cs.mode = "Manual"
  BY DEF CanTransferChannel
<1>13. (delayed => HaltTransfer(ChopTicks)) /\ (NoHalt \/ HaltTransfer(ChopTicks))
  BY <1>4
<1>14. stack' = If(condition, f)
  BY <1>4
<1> HIDE DEF f, can, delayed, condition
<1>15. IF condition THEN Starts(stack', f) ELSE stack' = <<>>
  BY <1>10, <1>14, Started DEF If
<1>16. /\ \A S : Has(stack', S) <=> condition /\ f \in S
       /\ condition => stack' # <<>> /\ Upper(stack') = f
       /\ ~condition => stack' = <<>>
  <2>1. CASE condition
    BY <1>15, <2>1, HasStarted
  <2>2. CASE ~condition
    BY <1>15, <2>2, HasNone
  <2> QED
    BY <2>1, <2>2
<1>17. Types'
  <2>1. \A x \in Channels : channels'[x].busy => channels'[x].mode = Mode(x)
    BY <1>7, <1>9 DEF Inv, Types
  <2> QED
    BY <1>5, <1>9, <2>1, DecoderKept DEF Inv, Types
<1>18. Shape(stack')
  BY <1>10, <1>15, ShapeStarted, ShapeNone
<1>19. ActiveInv'
  BY <1>8, <1>9, <1>10, <1>11, <1>16 DEF ActiveInv
<1>20. /\ unhalt_event' \in Nat /\ halt_ticks_remaining' \in Nat /\ halt_ticks_remaining' >= unhalt_event'
       /\ IsTransferHalted => IsTransferHalted'
       /\ delayed => IsTransferHalted'
       /\ ~IsTransferHalted' => halt_ticks_remaining' = halt_ticks_remaining
  <2>1. HaltInv /\ ChopTicks \in Nat \ {0}
    BY SizesAssumption DEF Inv
  <2> QED
    BY <1>13, <2>1, Halted
<1>21. HaltInv'
  BY <1>1, <1>5, <1>20 DEF Inv, HaltInv
<1>22. StallInv'
  <2> SUFFICES ASSUME NEW x \in Channels, channels'[x].busy, channels'[x].enabled, channels'[x].request,
                      ~IsTransferHalted'
               PROVE  Has(stack', TransfersOf(x))
    BY DEF StallInv
  <2>1. ~IsTransferHalted /\ ~delayed
    BY <1>20
  <2>2. x = c
    BY <1>1, <1>9, <2>1
  <2>3. condition
    BY <1>8, <1>9, <1>11, <2>1, <2>2
  <2> QED
    BY <1>10, <1>16, <2>2, <2>3
<1>23. \A x \in Channels : channels'[x].request = channels[x].request
  BY <1>7, <1>9
<1>24. /\ Quiet' <=> Quiet
       /\ WantsData' = WantsData /\ HasData' = HasData
  BY <1>5, DecoderKept
<1>25. condition => channels'[c].request
  BY <1>8, <1>9, <1>11
<1>26. InRequested'
  <2>1. channels'[MDECin].request = WantsData'
    BY <1>1, <1>23, <1>24, Modes
  <2>2. Has(stack', TransfersOf(MDECin)) => channels'[MDECin].request
    BY <1>10, <1>16, <1>25
  <2> QED
    BY <1>1, <1>24, <2>1, <2>2 DEF InRequested
<1>27. OutRequested'
  <2>1. channels'[MDECout].request = HasData'
    BY <1>1, <1>23, <1>24, Modes
  <2> QED
    BY <2>1 DEF OutRequested
<1>28. RunRequested'
  BY <1>10, <1>16, <1>25 DEF RunRequested, Runs
<1>29. MovedInv'
  <2>1. moved' \in [Channels -> Seq(Int)] /\ \A x \in Channels : moved'[x] = IF x = c /\ starts THEN <<>> ELSE moved[x]
    <3>1. moved \in [Channels -> Seq(Int)] /\ <<>> \in Seq(Int)
      BY DEF Inv, MovedInv
    <3> HIDE DEF starts
    <3> QED
      BY <1>4, <3>1
  <2>2. Regular(<<>>)
    <3>1. Len(<<>>) = 0 /\ <<>> \in Seq(Int) /\ Blocks \in Nat
      BY SizesAssumption
    <3> QED
      BY <3>1 DEF Regular
  <2>3. \A x \in MDECs : Regular(moved'[x])
    BY <2>1, <2>2, Modes DEF Inv, MovedInv
  <2>4. ASSUME NEW x \in MDECs, channels'[x].busy
        PROVE  GoesOn(moved'[x], channels'[x].base, channels'[x].blocks) /\ channels'[x].blocks > 0
    <3>1. x \in Channels
      BY Modes
    <3>2. CASE x = c /\ starts
      <4>1. moved'[x] = <<>> /\ channels'[x].blocks = Blocks /\ Blocks \in Nat \ {0} /\ Len(<<>>) = 0
        BY <1>7, <1>9, <2>1, <3>1, <3>2, SizesAssumption
      <4> QED
        BY <4>1 DEF GoesOn
    <3>3. CASE ~(x = c /\ starts)
      <4>1. /\ channels[x].busy /\ channels'[x].base = channels[x].base /\ channels'[x].blocks = channels[x].blocks
            /\ moved'[x] = moved[x]
        BY <1>6, <1>7, <1>9, <2>1, <2>4, <3>1, <3>3
      <4> QED
        BY <1>1, <4>1
    <3> QED
      BY <3>2, <3>3
  <2>5. \A d \in 1 .. Len(stack') : IsAt(Act(stack', d), moved'[Act(stack', d).channel])
    <3>1. CASE condition
      <4>0. Starts(stack', f)
        BY <1>15, <3>1
      <4>1. \A d \in 1 .. Len(stack') : Act(stack', d) = f
        BY <4>0 DEF Starts
      <4>2. IsAt(f, moved'[f.channel])
        BY <1>10 DEF IsAt
      <4> QED
        BY <4>1, <4>2
    <3>2. CASE ~condition
      <4>1. 1 .. Len(stack') = {}
        BY <1>16, <3>2
      <4> QED
        BY <4>1
    <3> QED
      BY <3>1, <3>2
  <2> QED
    BY <2>1, <2>3, <2>4, <2>5 DEF MovedInv
<1> QED
  BY <1>17, <1>18, <1>19, <1>21, <1>22, <1>26, <1>27, <1>28, <1>29 DEF Inv

\* A loop over all channels begins.
LEMMA LoopStarts ==
  ASSUME Inv, stack = <<>>, NEW fn \in {"unhalt", "dpcr"}, stack' = <<On(fn, MDECin)>>,
         channels' \in [Channels -> ChannelTypes],
         \A c \in Channels : /\ channels'[c].base = channels[c].base /\ channels'[c].blocks = channels[c].blocks
                             /\ channels'[c].busy = channels[c].busy /\ channels'[c].mode = channels[c].mode
                             /\ channels'[c].request = channels[c].request,
         unhalt_event' \in Nat, halt_ticks_remaining' \in Nat, halt_ticks_remaining' >= unhalt_event',
         fn = "dpcr" => IsTransferHalted' \/ halt_ticks_remaining' = 0,
         result' = TRUE, UNCHANGED <<mdec, moved>>
  PROVE  Inv'
<1> DEFINE f == On(fn, MDECin)
<1>1. /\ Quiet /\ channels[MDECin].request = WantsData /\ channels[MDECout].request = HasData
      /\ \A c \in MDECs : channels[c].busy =>
           GoesOn(moved[c], channels[c].base, channels[c].blocks) /\ channels[c].blocks > 0
  BY AtRest
<1>2. f \in Activations /\ f.fn = fn /\ f.channel = MDECin
  BY DEF On, Frame, Activations, Functions, MDECin, SPU
<1> HIDE DEF f
<1>3. IsLoop(f) /\ ~IsTransfer(f) /\ ~IsUpdate(f) /\ f.fn \notin {"block", "block_done"}
  BY <1>2 DEF IsLoop, IsTransfer, IsUpdate, Updates
<1>4. Proper(f)
  BY <1>2, <1>3 DEF Proper, MDECin
<1>5. /\ \A x : f \notin TransfersOf(x)
      /\ \A x \in Channels : f \in LoopsTo(x)
      /\ f \in Unhalts <=> fn = "unhalt"
  BY <1>2, <1>3 DEF TransfersOf, LoopsTo, Unhalts, Channels
<1>6. Starts(stack', f)
  BY <1>2, Started DEF f
<1>7. (\A S : Has(stack', S) <=> f \in S) /\ stack' # <<>> /\ Upper(stack') = f
  BY <1>6, HasStarted
<1>8. Shape(stack')
  BY <1>4, <1>6, ShapeStarted
<1>9. Types'
  BY DecoderKept DEF Inv, Types
<1>10. ActiveInv' /\ StallInv'
  BY <1>5, <1>7 DEF ActiveInv, StallInv
<1>11. HaltInv'
  <2>1. IsTransferHalted' \/ halt_ticks_remaining' = 0 \/ Has(stack', Unhalts)
    BY <1>5, <1>7
  <2> QED
    BY <2>1 DEF HaltInv
<1>12. /\ Quiet' <=> Quiet
       /\ WantsData' = WantsData /\ HasData' = HasData
  BY DecoderKept
<1>13. InRequested' /\ OutRequested'
  <2>1. channels'[MDECin].request = WantsData' /\ channels'[MDECout].request = HasData'
    BY <1>1, <1>12, Modes
  <2>2. ~RunsFor(stack', MDECout)
    BY <1>3, <1>7 DEF RunsFor
  <2>3. InRequested'
    BY <1>1, <1>5, <1>7, <1>12, <2>1 DEF InRequested
  <2>4. OutRequested'
    BY <1>5, <1>7, <2>1, <2>2 DEF OutRequested
  <2> QED
    BY <2>3, <2>4
<1>14. RunRequested'
  BY <1>2, <1>7 DEF RunRequested, Runs
<1>15. MovedInv'
  <2>1. \A d \in 1 .. Len(stack') : IsAt(Act(stack', d), moved'[Act(stack', d).channel])
    <3>1. \A d \in 1 .. Len(stack') : Act(stack', d) = f
      BY <1>6 DEF Starts
    <3>2. IsAt(f, moved'[f.channel])
      BY <1>3 DEF IsAt
    <3> QED
      BY <3>1, <3>2
  <2>2. \A x \in MDECs : channels'[x].busy => GoesOn(moved'[x], channels'[x].base, channels'[x].blocks) /\ channels'[x].blocks > 0
    BY <1>1, Modes
  <2> QED
    BY <2>1, <2>2 DEF Inv, MovedInv
<1> QED
  BY <1>8, <1>9, <1>10, <1>11, <1>13, <1>14, <1>15 DEF Inv

\* DPCR is written.
LEMMA StepWriteDPCR ==
  ASSUME Inv, WriteDPCR
  PROVE  Inv'
<1>1. stack = <<>> /\ stack' = <<On("dpcr", MDECin)>> /\ result' = TRUE /\ NoHalt /\ UNCHANGED <<mdec, moved>>
  BY DEF WriteDPCR, CanWrite
<1>2. PICK enabled \in {Channels, {GPU}} :
        channels' = [c \in Channels |-> [channels[c] EXCEPT !.enabled = c \in enabled]]
  BY DEF WriteDPCR
<1>3. channels \in [Channels -> ChannelTypes]
  BY DEF Inv, Types
<1>4. ASSUME NEW c \in Channels
      PROVE  /\ channels'[c] \in ChannelTypes
             /\ channels'[c].base = channels[c].base /\ channels'[c].blocks = channels[c].blocks
             /\ channels'[c].busy = channels[c].busy /\ channels'[c].mode = channels[c].mode
             /\ channels'[c].request = channels[c].request
  <2> DEFINE e == c \in enabled
  <2>1. channels'[c] = [channels[c] EXCEPT !.enabled = e] /\ channels[c] \in ChannelTypes
    BY <1>2, <1>3
  <2>2. e \in BOOLEAN
    OBVIOUS
  <2> HIDE DEF e
  <2> QED
    BY <2>1, <2>2 DEF ChannelTypes
<1>5. channels' \in [Channels -> ChannelTypes]
  BY <1>2, <1>4
<1>6. /\ unhalt_event' \in Nat /\ halt_ticks_remaining' \in Nat /\ halt_ticks_remaining' >= unhalt_event'
      /\ IsTransferHalted' \/ halt_ticks_remaining' = 0
  BY <1>1, AtRest DEF NoHalt, IsTransferHalted, Inv, HaltInv
<1> QED
  BY <1>1, <1>4, <1>5, <1>6, LoopStarts

\* A halt is over.
LEMMA StepUnhaltTransfer ==
  ASSUME Inv, UnhaltTransfer
  PROVE  Inv'
<1>1. /\ stack = <<>> /\ stack' = <<On("unhalt", MDECin)>> /\ result' = TRUE /\ UNCHANGED <<channels, mdec, moved>>
      /\ unhalt_event' = 0 /\ halt_ticks_remaining' = halt_ticks_remaining - unhalt_event
  BY DEF UnhaltTransfer
<1>2. unhalt_event' \in Nat /\ halt_ticks_remaining' \in Nat /\ halt_ticks_remaining' >= unhalt_event'
  BY <1>1 DEF Inv, HaltInv
<1>3. channels' \in [Channels -> ChannelTypes]
  BY <1>1 DEF Inv, Types
<1> QED
  BY <1>1, <1>2, <1>3, LoopStarts

\* The GPU or the SPU asks for a transfer, or no longer does.
LEMMA StepDeviceRequest ==
  ASSUME Inv, DeviceRequest
  PROVE  Inv'
<1>1. /\ \A S : ~Has(stack, S)
      /\ Quiet /\ channels[MDECin].request = WantsData /\ channels[MDECout].request = HasData
      /\ channels \in [Channels -> ChannelTypes] /\ stack = <<>>
  BY AtRest DEF DeviceRequest
<1>2. PICK c \in {GPU, SPU}, r \in BOOLEAN : channels' = Requested(c, r) /\ stack' = TransferIf(c, r)
  BY DEF DeviceRequest
<1>3. c \in Channels /\ c \notin MDECs /\ c # MDECin /\ c # MDECout
  BY Modes
<1> DEFINE f == On("transfer", c)
<1>4. PICK condition \in BOOLEAN :
        /\ TransferIf(c, r) = If(condition, f)
        /\ condition => r /\ ~channels[c].request /\ channels[c].busy /\ channels[c].enabled
        /\ ~condition /\ r /\ channels[c].busy /\ channels[c].enabled => channels[c].request \/ IsTransferHalted
  BY <1>1, <1>3, TransferIfIs
<1>5. NoHalt /\ UNCHANGED <<result, mdec, moved>> /\ stack' = If(condition, f)
  BY <1>2, <1>4 DEF DeviceRequest
<1>6. channels'[c].request = r /\ \A x \in Channels : x # c => channels'[x] = channels[x]
  BY <1>1, <1>2, <1>3, RequestSet DEF Changes
<1>7. /\ f \in Activations /\ f.fn = "transfer" /\ f.channel = c /\ Proper(f) /\ IsTransfer(f) /\ ~IsLoop(f)
      /\ \A x : (f \in TransfersOf(x) <=> x = c) /\ f \notin MovesOf(x)
  BY <1>3, OnIs
<1> HIDE DEF f
<1>8. IF condition THEN Starts(stack', f) ELSE stack' = <<>>
  BY <1>5, <1>7, Started DEF If
<1>9. /\ \A S : Has(stack', S) <=> condition /\ f \in S
      /\ condition => stack' # <<>> /\ Upper(stack') = f
      /\ ~condition => stack' = <<>>
  <2>1. CASE condition
    BY <1>8, <2>1, HasStarted
  <2>2. CASE ~condition
    BY <1>8, <2>2, HasNone
  <2> QED
    BY <2>1, <2>2
<1>10. Runs1(c, condition)
  <2>1. \A d \in 1 .. Len(stack') : Act(stack', d).fn \notin {"block", "block_done"}
    <3>1. CASE condition
      <4>1. Starts(stack', f)
        BY <1>8, <3>1
      <4> QED
        BY <1>7, <4>1 DEF Starts
    <3>2. CASE ~condition
      <4>1. 1 .. Len(stack') = {}
        BY <1>9, <3>2
      <4> QED
        BY <4>1
    <3> QED
      BY <3>1, <3>2
  <2> QED
    BY <1>1, <1>7, <1>9, <2>1 DEF Runs1
<1>11. Types' /\ ActiveInv' /\ HaltInv' /\ StallInv' /\ MovedInv'
  BY <1>2, <1>3, <1>4, <1>5, <1>10, RequestStep
<1>12. Shape(stack')
  BY <1>7, <1>8, ShapeStarted, ShapeNone
<1>13. /\ Quiet' <=> Quiet
       /\ WantsData' = WantsData /\ HasData' = HasData
  BY <1>5, DecoderKept
<1>14. channels'[MDECin].request = WantsData' /\ channels'[MDECout].request = HasData'
  BY <1>1, <1>3, <1>6, <1>13, Modes
<1>15. ~Has(stack', TransfersOf(MDECin)) /\ ~Has(stack', TransfersOf(MDECout))
  BY <1>3, <1>7, <1>9
<1>16. InRequested'
  BY <1>1, <1>13, <1>14, <1>15 DEF InRequested
<1>17. OutRequested'
  <2>1. ~RunsFor(stack', MDECout)
    BY <1>3, <1>7, <1>9 DEF RunsFor
  <2> QED
    BY <1>14, <1>15, <2>1 DEF OutRequested
<1>18. RunRequested'
  BY <1>4, <1>6, <1>7, <1>9 DEF RunRequested, Runs
<1> QED
  BY <1>11, <1>12, <1>16, <1>17, <1>18 DEF Inv

\* The initial states, and steps that change nothing.
LEMMA InvInit ==
  ASSUME Init
  PROVE  Inv
<1>1. /\ stack = <<>> /\ unhalt_event = 0 /\ halt_ticks_remaining = 0 /\ result = TRUE
      /\ state = "Idle" /\ enable_dma_in = FALSE /\ enable_dma_out = FALSE
      /\ data_in = 0 /\ data_out = 0 /\ remaining = 0 /\ current = 0 /\ copy_out_event = FALSE
      /\ moved = [c \in Channels |-> <<>>]
      /\ channels = [c \in Channels |-> [base |-> 0, blocks |-> 0, mode |-> "Manual", busy |-> FALSE,
                                         request |-> FALSE, enabled |-> TRUE]]
  BY DEF Init
<1>2. channels \in [Channels -> ChannelTypes] /\ \A c \in Channels : ~channels[c].busy /\ ~channels[c].request
  BY <1>1 DEF ChannelTypes
<1>3. Types
  <2>1. 0 \in 0 .. MacroblockWords
    BY SizesAssumption
  <2> QED
    BY <1>1, <1>2, <2>1 DEF Types
<1>4. \A S : ~Has(stack, S)
  BY <1>1, HasNone
<1>5. Shape(stack) /\ ActiveInv /\ StallInv
  BY <1>1, <1>2, <1>4, ShapeNone DEF ActiveInv, StallInv
<1>6. HaltInv
  BY <1>1 DEF HaltInv
<1>7. Quiet /\ ~WantsData /\ ~HasData
  BY <1>1 DEF Quiet, WantsData, HasData
<1>8. channels[MDECin].request = WantsData /\ channels[MDECout].request = HasData
  <2>1. /\ channels[MDECin].request = FALSE /\ channels[MDECout].request = FALSE
        /\ WantsData = FALSE /\ HasData = FALSE
    BY <1>1, Modes DEF WantsData, HasData
  <2> QED
    BY <2>1
<1>9. InRequested /\ OutRequested /\ RunRequested
  BY <1>1, <1>4, <1>7, <1>8 DEF InRequested, OutRequested, RunRequested, Runs, RunsFor
<1>10. MovedInv
  <2>1. <<>> \in Seq(Int) /\ Len(<<>>) = 0 /\ Blocks \in Nat /\ MDECs \subseteq Channels
    BY SizesAssumption, Modes
  <2>2. moved \in [Channels -> Seq(Int)] /\ \A c \in MDECs : moved[c] = <<>>
    BY <1>1, <2>1
  <2>3. Regular(<<>>)
    BY <2>1 DEF Regular
  <2>4. 1 .. Len(stack) = {} /\ \A c \in MDECs : ~channels[c].busy
    BY <1>1, <1>2, <2>1
  <2> QED
    BY <2>2, <2>3, <2>4 DEF MovedInv
<1> QED
  BY <1>3, <1>5, <1>6, <1>9, <1>10 DEF Inv

\* A step that changes nothing.
LEMMA StepNothing ==
  ASSUME Inv, vars' = vars
  PROVE  Inv'
<1>1. UNCHANGED <<channels, unhalt_event, halt_ticks_remaining, stack, result, mdec, moved>>
  BY DEF vars, dma
<1>2. UNCHANGED <<state, enable_dma_in, enable_dma_out, data_in, data_out, remaining, current, copy_out_event>>
  BY <1>1 DEF mdec
<1>3. Types' /\ Shape(stack') /\ ActiveInv'
  BY <1>1, <1>2 DEF Inv, Types, ActiveInv
<1>4. IsTransferHalted' = IsTransferHalted
  BY <1>1 DEF IsTransferHalted
<1>5. HaltInv' /\ StallInv'
  BY <1>1, <1>4 DEF Inv, HaltInv, StallInv
<1>6. /\ Quiet' <=> Quiet
      /\ WantsData' = WantsData /\ HasData' = HasData
  BY <1>1, DecoderKept
<1>7. InRequested' /\ OutRequested' /\ RunRequested'
  BY <1>1, <1>6 DEF Inv, InRequested, OutRequested, RunRequested
<1>8. MovedInv'
  BY <1>1 DEF Inv, MovedInv
<1> QED
  BY <1>3, <1>5, <1>7, <1>8 DEF Inv

\* A step of the calls.
LEMMA StepCalls ==
  ASSUME Inv, Calls
  PROVE  Inv'
<1>1. CASE TransferManual \/ BeginSlice \/ ListEntry \/ ListSliceEnds
  BY <1>1, StepTransferManual, StepBeginSlice, StepListEntry, StepListSliceEnds
<1>2. CASE Block \/ MoreBlocks \/ SliceEnds
  BY <1>2, StepBlock, StepMoreBlocks, StepSliceEnds
<1>3. CASE UnhaltChannel \/ Unhalted \/ DPCRChannel
  BY <1>3, StepUnhaltChannel, StepUnhalted, StepDPCRChannel
<1>4. CASE Execute \/ UpdateStatusIn \/ UpdateStatusOut
  BY <1>4, StepExecute, StepUpdateStatusIn, StepUpdateStatusOut
<1> QED
  BY <1>1, <1>2, <1>3, <1>4 DEF Calls

\* The invariant holds whatever the sizes of the FIFOs, blocks and slices, the
\* program's writes and the times at which the events run.
THEOREM InvAlways == Spec => []Inv
<1>1. Init => Inv
  BY InvInit
<1>2. Inv /\ [Next]_vars => Inv'
  <2> SUFFICES ASSUME Inv, [Next]_vars
               PROVE  Inv'
    OBVIOUS
  <2>1. CASE Calls
    BY <2>1, StepCalls
  <2>2. CASE UnhaltTransfer
    BY <2>2, StepUnhaltTransfer
  <2>3. CASE CopyOutBlock
    BY <2>3, StepCopyOutBlock
  <2>4. CASE DeviceRequest
    BY <2>4, StepDeviceRequest
  <2>5. CASE WriteChannelControl \/ WriteDPCR
    BY <2>5, StepWriteChannelControl, StepWriteDPCR
  <2>6. CASE WriteMDECCommand \/ WriteMDECData \/ WriteMDECControl \/ ReadMDECData
    BY <2>6, StepWriteMDECCommand, StepWriteMDECData, StepWriteMDECControl, StepReadMDECData
  <2>7. CASE vars' = vars
    BY <2>7, StepNothing
  <2> QED
    BY <2>1, <2>2, <2>3, <2>4, <2>5, <2>6, <2>7 DEF Next, Program
<1> QED
  BY <1>1, <1>2, PTL DEF Spec

-----------------------------------------------------------------------------
(* The properties *)

\* When the last call has returned, no channel that is started, enabled and
\* asked for waits for anything but the end of a halt, a halt has ticks left if
\* and only if its event is active, the requests of the decoder are what it
\* asks for, and its event runs exactly while a macroblock waits.
THEOREM AlwaysSettled == Spec => []Settled
<1>1. Inv => Settled
  <2> SUFFICES ASSUME Inv, stack = <<>>
               PROVE  NoChannelIsStalled /\ HaltIsCounted /\ RequestsAreCurrent /\ CopiesOutWhileWriting
    BY DEF Settled
  <2>1. NoChannelIsStalled /\ RequestsAreCurrent
    BY AtRest DEF NoChannelIsStalled, RequestsAreCurrent
  <2>2. HaltIsCounted
    <3>1. /\ IsTransferHalted \/ halt_ticks_remaining = 0
          /\ unhalt_event \in Nat /\ halt_ticks_remaining \in Nat /\ halt_ticks_remaining >= unhalt_event
      BY AtRest DEF Inv, HaltInv
    <3> QED
      BY <3>1 DEF HaltIsCounted, IsTransferHalted
  <2>3. CopiesOutWhileWriting
    BY DEF Inv, Types, CopiesOutWhileWriting
  <2> QED
    BY <2>1, <2>2, <2>3
<1> QED
  BY <1>1, InvAlways, PTL

\* A transfer is the only one of its channel.
LEMMA NeverReentered == Inv => NoReentry
<1> SUFFICES ASSUME Inv, NEW c \in Channels
             PROVE  Cardinality(Transfers(c)) <= 1
  BY DEF NoReentry
<1>1. stack \in Seq(Activations) /\ Len(stack) \in Nat /\ DOMAIN stack = 1 .. Len(stack)
  BY DEF Inv, Shape
<1>2. ASSUME NEW i \in Transfers(c), NEW j \in Transfers(c)
      PROVE  i = j
  <2>1. /\ i \in 1 .. Len(stack) /\ j \in 1 .. Len(stack)
        /\ IsTransfer(stack[i]) /\ IsTransfer(stack[j]) /\ stack[i].channel = stack[j].channel
    BY <1>1, <1>2 DEF Transfers, IsTransfer
  <2> DEFINE d == Len(stack) + 1 - i
             e == Len(stack) + 1 - j
  <2>2. /\ d \in 1 .. Len(stack) /\ e \in 1 .. Len(stack)
        /\ Len(stack) + 1 - d = i /\ Len(stack) + 1 - e = j
    BY <1>1, <2>1
  <2>3. Act(stack, d) = stack[i] /\ Act(stack, e) = stack[j]
    BY <2>2 DEF Act
  <2> HIDE DEF d, e
  <2>4. d = e
    BY <2>1, <2>2, <2>3 DEF Inv, Shape
  <2> QED
    BY <2>2, <2>4
<1>3. CASE Transfers(c) = {}
  BY <1>3, FS_EmptySet
<1>4. CASE Transfers(c) # {}
  <2>1. PICK i \in Transfers(c) : TRUE
    BY <1>4
  <2>2. Transfers(c) = {i}
    BY <1>2, <2>1
  <2>3. Cardinality(Transfers(c)) = 1
    BY <2>2, FS_Singleton
  <2> QED
    BY <2>3
<1> QED
  BY <1>3, <1>4

\* A block that is to be moved has been asked for, and there is room for it, or
\* a word to read.
LEMMA NeverUnasked == Inv => OnlyWhatIsAskedFor
<1> SUFFICES ASSUME Inv, Running("block")
             PROVE  IF Top.channel = MDECin THEN FIFOWords - data_in >= BlockWords ELSE data_out > 0
  BY DEF OnlyWhatIsAskedFor
<1>1. stack # <<>> /\ Top = Upper(stack) /\ Top.fn = "block" /\ Proper(Top) /\ Top \in Activations
  BY RunningIs
<1>2. IsTransfer(Top) /\ Top.channel \in {MDECin, MDECout}
  BY <1>1 DEF IsTransfer, Proper
<1>3. channels[Top.channel].request
  BY <1>1 DEF Inv, RunRequested, Runs
<1>4. CASE Top.channel = MDECin
  <2>1. Has(stack, TransfersOf(MDECin)) /\ Runs(stack, "block")
    <3>1. Top \in TransfersOf(MDECin) /\ stack \in Seq(Activations)
      BY <1>1, <1>2, <1>4 DEF TransfersOf, Inv, Shape
    <3> QED
      BY <1>1, <3>1, HasNow DEF Runs
  <2>2. channels[MDECin].request = WantsData
    BY <1>1 DEF Inv, InRequested, Runs
  <2>3. WantsData
    BY <1>3, <1>4, <2>2
  <2> QED
    BY <1>4, <2>3 DEF WantsData
<1>5. CASE Top.channel = MDECout
  <2>1. RunsFor(stack, MDECout)
    BY <1>1, <1>2, <1>5 DEF RunsFor
  <2>2. HasData
    BY <1>3, <1>5, <2>1 DEF Inv, OutRequested
  <2> QED
    BY <1>5, <2>2 DEF HasData, MDECin, MDECout
<1> QED
  BY <1>2, <1>4, <1>5

\* No transfer is entered again while it is under way, the blocks that a
\* channel of the decoder moves follow one another and are not more than it was
\* programmed with, and none is moved that the decoder has not asked for.
THEOREM EachWordIsMovedOnce == Spec => []EachWordOnce
<1>1. Inv => InOrder
  <2> SUFFICES ASSUME Inv, NEW c \in {MDECin, MDECout}
               PROVE  /\ \A i \in DOMAIN moved[c] : moved[c][i] = moved[c][1] + (i - 1) * BlockWords
                      /\ Len(moved[c]) <= Blocks
    BY DEF InOrder
  <2>1. Regular(moved[c])
    BY DEF Inv, MovedInv, MDECs
  <2>2. DOMAIN moved[c] = 1 .. Len(moved[c])
    BY <2>1 DEF Regular
  <2> QED
    BY <2>1, <2>2 DEF Regular
<1>2. Inv => EachWordOnce
  BY <1>1, NeverReentered, NeverUnasked DEF EachWordOnce
<1> QED
  BY <1>2, InvAlways, PTL

=============================================================================
