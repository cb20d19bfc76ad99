------------------------- MODULE VideoThreadProofs -------------------------
(***************************************************************************)
(* Theorems about the video thread's command queue, VideoThread.tla, in    *)
(* two parts.                                                              *)
(*                                                                         *)
(* The first is the ring: it is used safely, for every size of the ring    *)
(* and of the commands. What AllocateCommand hands out is free, and the    *)
(* video thread finds the commands where it looks for them. Assumed is     *)
(* that a reset of the ring comes at a time when nobody reads it,          *)
(* ResetIsSafe, which is a matter of the wake protocol and not of the      *)
(* ring: the second part proves it, and at its end the ring's theorems     *)
(* hold without the assumption.                                            *)
(*                                                                         *)
(* The ring's invariant describes its unread part as a chain of headers,   *)
(* each of which says where the next one is, from the read pointer to the  *)
(* write pointer, or to a wraparound and from 0 on.                        *)
(*                                                                         *)
(* The second is the wake protocol, for every ring and every number of     *)
(* commands: a wait in SyncThread is answered, no wakeup is lost, what     *)
(* SyncThread promises holds when it returns, and the ring is reset only   *)
(* when nobody reads it. All of them together show that the thread         *)
(* implements CommandQueue.                                                *)
(*                                                                         *)
(* Assumed there is that no SyncThread follows a PushCommand that has      *)
(* woken nobody, WokenSpec: the code does not rule that out, and TLC finds *)
(* that it then returns early or hangs. The last part says without the     *)
(* assumption how a wait can hang at all.                                  *)
(*                                                                         *)
(* Its invariant has a part for the core thread's stack, for the wake      *)
(* count and the semaphores in each phase of both threads, for the         *)
(* numbers of the commands in the ring, for what is left to execute when   *)
(* the video thread goes to sleep, and for the switch between the          *)
(* threads.                                                                *)
(***************************************************************************)
EXTENDS VideoThread, SequenceTheorems, TLAPS

-----------------------------------------------------------------------------
(* The core thread's stack: which program points may be below which. *)

AllocPoints == {"alloc", "full_load", "unprocessed_load", "wrap"}
Pushes == {"PushCommand", "PushCommandAndWakeThread", "PushCommandAndSync"}
WakePoints == {"wake_if_sleeping", "wake_if_not_empty", "wake", "wake_post"}

MayBeBelow(x, y) ==
  /\ y \notin WakePoints \cup {"alloc", "wrap"}
  /\ y \in {"full_load", "unprocessed_load"} => x \in WakePoints
  /\ y = "fill" => x \in AllocPoints
  /\ y \in Pushes => x = "fill"
  /\ y = "reset_read_ptr" <=> x = "reset"
  /\ x = "shutdown" => y = "join"
  /\ x \notin {"join", "joined"}

Points == AllocPoints \cup WakePoints \cup Pushes \cup
  {"fill", "threshold", "spin_check", "spin_empty", "spin", "sync_load", "sync_empty", "sync_cas",
   "sync_wait", "synced", "set_thread_enabled", "read_vram", "destroy", "reset",
   "reset_read_ptr", "enable", "create", "shutdown", "join", "joined"}

IsStack(s) ==
  /\ s \in Seq(Points)
  /\ \A i \in 1 .. Len(s) - 1 : MayBeBelow(s[i], s[i + 1])
  /\ s # <<>> => s[Len(s)] \notin {"reset", "shutdown"}

Within(s, points) == \A i \in 1 .. Len(s) : s[i] \in points

\* The points of a command's way into the ring need a command; after the
\* shutdown command there is no other.
CommandPoints == AllocPoints \cup {"fill"} \cup Pushes
Quiet == {"wake", "wake_post", "join", "joined"}
ShutdownPoints == Quiet \cup AllocPoints \cup {"fill", "PushCommandAndWakeThread"} \cup WakePoints

StackInv ==
  /\ IsStack(core)
  /\ cmd.type = "Body" => Within(core, Points \ CommandPoints)
  /\ cmd.type = "Shutdown" =>
       Within(core, ShutdownPoints) /\ core # <<>> /\ core[Len(core)] \in {"join", "joined"}

-----------------------------------------------------------------------------
(* The ring. *)

Commands ==
  [type : {"Body", "Call", "Create", "Destroy", "Shutdown", "Wraparound"}, size : Nat, id : Nat]

Types ==
  /\ command_fifo_write_ptr \in 0 .. COMMAND_QUEUE_SIZE - 1
  /\ command_fifo_read_ptr \in 0 .. COMMAND_QUEUE_SIZE - 1
  /\ command_fifo_data \in [0 .. COMMAND_QUEUE_SIZE - 1 -> Commands]
  /\ cmd \in Commands /\ cmd.type # "Wraparound" /\ (cmd.type # "Body" => cmd.size > 0)
  /\ issued \in Nat

IsHeader(data, o) == data[o].type # "Body"

\* A command at o ends where the next one begins, or at the end of its chain.
\* The shutdown command ends at one of the offsets "last".
CommandAt(data, o, end, last) ==
  /\ data[o].type # "Wraparound"
  /\ data[o].size \in Nat \ {0}
  /\ o + data[o].size <= end
  /\ o + data[o].size < end => IsHeader(data, o + data[o].size)
  /\ \A k \in o + 1 .. o + data[o].size - 1 : ~IsHeader(data, k)
  /\ data[o].type = "Shutdown" => o + data[o].size \in last

IsChain(data, begin, end, last) ==
  /\ begin <= end
  /\ begin < end => IsHeader(data, begin)
  /\ \A o \in begin .. end - 1 : IsHeader(data, o) => CommandAt(data, o, end, last)

\* p is at the start of a command of the chain from begin to end, or at its end.
OnChain(data, p, begin, end) == p \in begin .. end /\ (p < end => IsHeader(data, p))

WraparoundAt(data, o) ==
  data[o].type = "Wraparound" /\ data[o].size = COMMAND_QUEUE_SIZE - o

\* Nothing follows the shutdown command once it is pushed.
ShutdownIsPushed == cmd.type = "Shutdown" /\ Within(core, Quiet)
Last == IF ShutdownIsPushed THEN {command_fifo_write_ptr} ELSE {}

Chain(begin, end) == IsChain(command_fifo_data, begin, end, Last)
On(p, begin, end) == OnChain(command_fifo_data, p, begin, end)

\* The reader is on the same lap as the writer ...
Straight ==
  /\ Chain(command_fifo_read_ptr, command_fifo_write_ptr)
  /\ video = "load_read_ptr" => On(write_ptr, command_fifo_read_ptr, command_fifo_write_ptr)
  /\ video = "execute" =>
       /\ On(write_ptr, command_fifo_read_ptr, command_fifo_write_ptr)
       /\ On(read_ptr, command_fifo_read_ptr, write_ptr)
  /\ video # "wrap_publish"

\* ... or one lap behind, with the wraparound still to read, at w.
Wrapped(w) ==
  /\ command_fifo_write_ptr < command_fifo_read_ptr
  /\ w \in command_fifo_read_ptr .. COMMAND_QUEUE_SIZE - 1
  /\ Chain(command_fifo_read_ptr, w) /\ WraparoundAt(command_fifo_data, w)
  /\ Chain(0, command_fifo_write_ptr)
  /\ video = "load_read_ptr" =>
       On(write_ptr, command_fifo_read_ptr, w) \/ write_ptr \in 0 .. command_fifo_write_ptr
  /\ video = "execute" =>
       /\ On(read_ptr, command_fifo_read_ptr, w)
       /\ \/ write_ptr = COMMAND_QUEUE_SIZE
          \/ On(write_ptr, read_ptr, w)
  /\ video = "wrap_publish" => read_ptr = 0 /\ On(write_ptr, 0, command_fifo_write_ptr)

\* ... or the ring is being reset, and nobody reads it.
Resetting ==
  /\ At("reset_read_ptr")
  /\ command_fifo_write_ptr = 0
  /\ video \in {"sleep_post", "sleep_wait"}

RingInv == Straight \/ (\E w \in 0 .. COMMAND_QUEUE_SIZE - 1 : Wrapped(w)) \/ Resetting

\* What AllocateCommand has found out on its way: that the reader is on the
\* writer's lap, and not at 0; that there is room; and what it has stored.
Room ==
  /\ command_fifo_write_ptr + cmd.size < COMMAND_QUEUE_SIZE
  /\ command_fifo_read_ptr \notin command_fifo_write_ptr + 1 .. command_fifo_write_ptr + cmd.size

Filled ==
  /\ command_fifo_data[command_fifo_write_ptr].type = cmd.type
  /\ command_fifo_data[command_fifo_write_ptr].size = cmd.size
  /\ \A k \in command_fifo_write_ptr + 1 .. command_fifo_write_ptr + cmd.size - 1 :
       ~IsHeader(command_fifo_data, k)

AllocInv ==
  /\ \/ At("unprocessed_load") \/ At("wrap")
     \/ Len(core) > 1 /\ core[2] = "unprocessed_load"
     => command_fifo_read_ptr <= command_fifo_write_ptr
  /\ At("wrap") => command_fifo_read_ptr # 0
  /\ At("fill") => Room
  /\ \A push \in Pushes : At(push) => Room /\ Filled
  /\ At("reset_read_ptr") =>
       /\ command_fifo_write_ptr = 0
       /\ command_fifo_read_ptr = 0 \/ Resetting

Inv == Types /\ StackInv /\ RingInv /\ AllocInv

-----------------------------------------------------------------------------
(* Facts about chains, whatever the ring holds. *)

\* A chain does not change when something else is written.
LEMMA ChainKept ==
  ASSUME NEW data, NEW data2, NEW begin \in Nat, NEW end \in Nat, NEW last, NEW last2,
         IsChain(data, begin, end, last), last \subseteq last2,
         \A o \in begin .. end - 1 : data2[o] = data[o]
  PROVE  IsChain(data2, begin, end, last2)
<1> SUFFICES ASSUME NEW o \in begin .. end - 1, IsHeader(data2, o)
             PROVE  CommandAt(data2, o, end, last2)
  BY DEF IsChain, IsHeader
<1>1. CommandAt(data, o, end, last) /\ data2[o] = data[o]
  BY DEF IsChain, IsHeader
<1> QED
  BY <1>1 DEF CommandAt, IsHeader

\* What is left of a chain when the reader has got to p is a chain.
LEMMA ChainFrom ==
  ASSUME NEW data, NEW begin \in Nat, NEW end \in Nat, NEW p, NEW last,
         IsChain(data, begin, end, last), OnChain(data, p, begin, end)
  PROVE  IsChain(data, p, end, last)
  BY DEF IsChain, OnChain

\* The reader gets from a command to the next one and never past another
\* offset on the chain.
LEMMA ChainNext ==
  ASSUME NEW data, NEW begin \in Nat, NEW end \in Nat, NEW last,
         IsChain(data, begin, end, last),
         NEW p, NEW q, OnChain(data, p, begin, end), OnChain(data, q, begin, end), p < q
  PROVE  /\ CommandAt(data, p, end, last)
         /\ OnChain(data, p + data[p].size, begin, q)
<1>1. CommandAt(data, p, end, last)
  BY DEF IsChain, OnChain
<1>2. p + data[p].size <= q
  BY <1>1 DEF OnChain, CommandAt, IsHeader
<1> QED
  BY <1>1, <1>2 DEF OnChain, CommandAt

\* A command stored at the end of a chain makes it longer.
LEMMA ChainGrows ==
  ASSUME NEW data, NEW begin \in Nat, NEW end \in Nat, NEW last, NEW size \in Nat \ {0},
         IsChain(data, begin, end, {}), data[end].size = size,
         data[end].type \notin {"Body", "Wraparound"},
         data[end].type = "Shutdown" => end + size \in last,
         \A k \in end + 1 .. end + size - 1 : ~IsHeader(data, k)
  PROVE  IsChain(data, begin, end + size, last)
<1> SUFFICES ASSUME NEW o \in begin .. end + size - 1, IsHeader(data, o)
             PROVE  CommandAt(data, o, end + size, last)
  BY DEF IsChain, IsHeader
<1>1. CASE o < end
  <2>1. CommandAt(data, o, end, {})
    BY <1>1 DEF IsChain
  <2> QED
    BY <2>1 DEF CommandAt, IsHeader
<1>2. CASE o = end
  BY <1>2 DEF CommandAt
<1>3. CASE o > end
  BY <1>3
<1> QED
  BY <1>1, <1>2, <1>3

-----------------------------------------------------------------------------
(* Facts about stacks. *)

\* Returning takes the top off.
LEMMA Popped ==
  ASSUME NEW s, IsStack(s), s # <<>>
  PROVE  /\ IsStack(Tail(s))
         /\ Head(s) = s[1] /\ Len(Tail(s)) = Len(s) - 1
         /\ \A i \in 1 .. Len(s) - 1 : Tail(s)[i] = s[i + 1]
         /\ Tail(s) # <<>> => MayBeBelow(Head(s), Head(Tail(s)))
         /\ \A points : Within(s, points) => Within(Tail(s), points)
<1> DEFINE t == Tail(s)
<1>1. s \in Seq(Points) /\ Len(s) \in Nat \ {0}
  BY DEF IsStack
<1>2. t \in Seq(Points) /\ Len(t) = Len(s) - 1 /\ \A i \in 1 .. Len(s) - 1 : t[i] = s[i + 1]
  BY <1>1, HeadTailProperties
<1>3. IsStack(t)
  BY <1>1, <1>2 DEF IsStack
<1>4. \A points : Within(s, points) => Within(t, points)
  BY <1>1, <1>2 DEF Within
<1>5. t # <<>> => MayBeBelow(Head(s), Head(t))
  <2> SUFFICES ASSUME t # <<>> PROVE MayBeBelow(s[1], s[2])
    BY <1>1, <1>2
  <2> QED
    BY <1>1, <1>2 DEF IsStack
<1> QED
  BY <1>1, <1>2, <1>3, <1>4, <1>5

\* Going on at other points puts them in the place of the top.
LEMMA Replaced ==
  ASSUME NEW s, IsStack(s), s # <<>>, NEW points, IsStack(points), points # <<>>,
         \A y : MayBeBelow(Head(s), y) => MayBeBelow(points[Len(points)], y)
  PROVE  LET t == points \o Tail(s)
         IN /\ IsStack(t) /\ t # <<>> /\ Head(t) = points[1]
            /\ Len(t) = Len(points) + Len(s) - 1
            /\ \A i \in 1 .. Len(points) : t[i] = points[i]
            /\ \A i \in 2 .. Len(s) : t[Len(points) + i - 1] = s[i]
            /\ \A all : Within(s, all) /\ Within(points, all) => Within(t, all)
<1> DEFINE u == Tail(s)
           t == points \o u
<1>1. IsStack(u) /\ Len(u) = Len(s) - 1 /\ \A i \in 1 .. Len(s) - 1 : u[i] = s[i + 1]
  BY Popped
<1>2. /\ s \in Seq(Points) /\ points \in Seq(Points) /\ u \in Seq(Points)
      /\ Len(s) \in Nat \ {0} /\ Len(points) \in Nat \ {0} /\ Len(u) \in Nat
  BY <1>1 DEF IsStack
<1> HIDE DEF u
<1>3. /\ t \in Seq(Points) /\ Len(t) = Len(points) + Len(u)
      /\ \A i \in 1 .. Len(points) + Len(u) :
           t[i] = IF i <= Len(points) THEN points[i] ELSE u[i - Len(points)]
  BY <1>2, ConcatProperties
<1> HIDE DEF t
<1>4. \A i \in 1 .. Len(points) : t[i] = points[i]
  BY <1>2, <1>3
<1>5. \A j \in 1 .. Len(u) : t[Len(points) + j] = u[j]
  <2> SUFFICES ASSUME NEW j \in 1 .. Len(u), NEW k, k = Len(points) + j PROVE t[k] = u[j]
    OBVIOUS
  <2>1. k \in 1 .. Len(points) + Len(u) /\ ~(k <= Len(points)) /\ k - Len(points) = j
    BY <1>2
  <2> QED
    BY <1>3, <2>1
<1>6. \A i \in 2 .. Len(s) : t[Len(points) + i - 1] = s[i]
  <2> SUFFICES ASSUME NEW i \in 2 .. Len(s), NEW j, j = i - 1 PROVE t[Len(points) + j] = s[i]
    BY <1>2
  <2>1. j \in 1 .. Len(u) /\ j \in 1 .. Len(s) - 1 /\ j + 1 = i
    BY <1>1, <1>2
  <2> QED
    BY <1>1, <1>5, <2>1
<1>7. t # <<>> /\ Head(t) = points[1]
  BY <1>2, <1>3, <1>4
<1>8. \A all : Within(s, all) /\ Within(points, all) => Within(t, all)
  <2> SUFFICES ASSUME NEW all, Within(u, all), Within(points, all), NEW i \in 1 .. Len(t)
               PROVE  t[i] \in all
    BY Popped DEF Within, u
  <2>1. CASE i <= Len(points)
    <3>1. i \in 1 .. Len(points)
      BY <1>2, <1>3, <2>1
    <3> QED
      BY <1>4, <3>1 DEF Within
  <2>2. CASE ~(i <= Len(points))
    <3>1. i - Len(points) \in 1 .. Len(u) /\ t[i] = u[i - Len(points)]
      BY <1>2, <1>3, <2>2
    <3> QED
      BY <3>1 DEF Within
  <2> QED
    BY <2>1, <2>2
<1>9. \A i \in 1 .. Len(t) - 1 : MayBeBelow(t[i], t[i + 1])
  <2> TAKE i \in 1 .. Len(t) - 1
  <2>1. CASE i < Len(points)
    <3>1. i \in 1 .. Len(points) - 1 /\ i \in 1 .. Len(points) /\ i + 1 \in 1 .. Len(points)
      BY <1>2, <2>1
    <3>2. t[i] = points[i] /\ t[i + 1] = points[i + 1]
      BY <1>4, <3>1
    <3> QED
      BY <3>1, <3>2 DEF IsStack
  <2>2. CASE i = Len(points)
    <3>1. t[i] = points[Len(points)] /\ t[i + 1] = s[2] /\ Len(s) > 1
      <4>1. /\ Len(s) > 1 /\ i \in 1 .. Len(points)
            /\ 1 \in 1 .. Len(u) /\ 1 \in 1 .. Len(s) - 1
        BY <1>1, <1>2, <1>3, <2>2
      <4>2. t[i] = points[Len(points)]
        BY <1>4, <2>2, <4>1
      <4>3. t[Len(points) + 1] = u[1] /\ u[1] = s[2]
        BY <1>1, <1>5, <4>1
      <4> QED
        BY <2>2, <4>1, <4>2, <4>3
    <3>2. MayBeBelow(Head(s), s[2])
      BY <1>2, <3>1 DEF IsStack
    <3> QED
      BY <3>1, <3>2
  <2>3. CASE i > Len(points)
    <3>1. t[i] = u[i - Len(points)] /\ t[i + 1] = u[i + 1 - Len(points)]
      BY <1>2, <1>3, <2>3
    <3>2. i - Len(points) \in 1 .. Len(u) - 1
      BY <1>2, <1>3, <2>3
    <3> DEFINE j == i - Len(points)
    <3>3. MayBeBelow(u[j], u[j + 1])
      BY <1>1, <3>2 DEF IsStack
    <3>4. j + 1 = i + 1 - Len(points)
      BY <1>2
    <3> QED
      BY <3>1, <3>3, <3>4
  <2> QED
    BY <1>2, <1>3, <2>1, <2>2, <2>3
<1>10. t[Len(t)] \notin {"reset", "shutdown"}
  <2>1. CASE Len(u) = 0
    BY <1>2, <1>3, <2>1 DEF IsStack
  <2>2. CASE Len(u) > 0
    BY <1>1, <1>2, <1>3, <1>5, <2>2 DEF IsStack
  <2> QED
    BY <1>2, <2>1, <2>2
<1> QED
  BY <1>1, <1>2, <1>3, <1>4, <1>6, <1>7, <1>8, <1>9, <1>10 DEF IsStack, t, u

\* The sequences that the actions put together.
IsConcat(s, t, u) ==
  /\ s \in Seq(Points) /\ t \in Seq(Points) /\ u \in Seq(Points)
  /\ Len(u) = Len(s) + Len(t)
  /\ \A i \in 1 .. Len(u) : u[i] = IF i <= Len(s) THEN s[i] ELSE t[i - Len(s)]

\* A sequence is the concatenation of two others when it has their elements.
LEMMA Concatenated == ASSUME NEW s, NEW t, NEW u, IsConcat(s, t, u) PROVE s \o t = u
<1>1. s \o t \in Seq(Points) /\ Len(s \o t) = Len(u)
  BY ConcatProperties DEF IsConcat
<1>2. \A i \in 1 .. Len(u) : (s \o t)[i] = u[i]
  BY ConcatProperties DEF IsConcat
<1> QED
  BY <1>1, <1>2, SeqEqual DEF IsConcat

\* The stacks and points that the calls and Publish put together.
LEMMA Concatenations ==
  /\ <<>> \o <<"set_thread_enabled">> = <<"set_thread_enabled">>
  /\ <<"sync_load", "synced">> \o <<"set_thread_enabled">> =
       <<"sync_load", "synced", "set_thread_enabled">>
  /\ <<"sync_load", "synced">> \o <<"shutdown", "join">> =
       <<"sync_load", "synced", "shutdown", "join">>
  /\ <<"set_thread_enabled">> \o <<"shutdown", "join">> =
       <<"set_thread_enabled", "shutdown", "join">>
  /\ <<"wake">> \o <<"sync_load", "synced">> = <<"wake", "sync_load", "synced">>
  /\ <<"wake">> \o <<"spin_check", "synced">> = <<"wake", "spin_check", "synced">>
<1>1. IsConcat(<<>>, <<"set_thread_enabled">>, <<"set_thread_enabled">>)
  BY DEF IsConcat, Points
<1>2. IsConcat(<<"sync_load", "synced">>, <<"set_thread_enabled">>,
               <<"sync_load", "synced", "set_thread_enabled">>)
  BY DEF IsConcat, Points
<1>3. IsConcat(<<"sync_load", "synced">>, <<"shutdown", "join">>,
               <<"sync_load", "synced", "shutdown", "join">>)
  BY DEF IsConcat, Points
<1>4. IsConcat(<<"set_thread_enabled">>, <<"shutdown", "join">>,
               <<"set_thread_enabled", "shutdown", "join">>)
  BY DEF IsConcat, Points
<1>5. IsConcat(<<"wake">>, <<"sync_load", "synced">>, <<"wake", "sync_load", "synced">>)
  BY DEF IsConcat, Points, WakePoints
<1>6. IsConcat(<<"wake">>, <<"spin_check", "synced">>, <<"wake", "spin_check", "synced">>)
  BY DEF IsConcat, Points, WakePoints
<1> QED
  BY <1>1, <1>2, <1>3, <1>4, <1>5, <1>6, Concatenated

\* The stack's part of the invariant when a step returns.
LEMMA StackReturns ==
  ASSUME StackInv, core # <<>>, Return, cmd'.type = cmd.type, Head(core) \notin {"join", "joined"}
  PROVE  /\ StackInv'
         /\ ShutdownIsPushed => ShutdownIsPushed'
         /\ ~(Len(core') > 1 /\ core'[2] = "unprocessed_load")
         /\ \A x : At(x)' => Len(core) > 1 /\ core[2] = x /\ MayBeBelow(Head(core), x)
<1>1. /\ IsStack(core) /\ core \in Seq(Points) /\ Len(core) \in Nat \ {0}
      /\ core' = Tail(core)
  BY DEF StackInv, IsStack, Return
<1>2. /\ IsStack(core') /\ Len(core') = Len(core) - 1 /\ Len(core') \in Nat
      /\ \A i \in 1 .. Len(core) - 1 : core'[i] = core[i + 1]
      /\ core' # <<>> => MayBeBelow(Head(core), Head(core'))
      /\ \A points : Within(core, points) => Within(core', points)
  BY <1>1, Popped DEF IsStack
<1>3. Len(core) = 1 => core[Len(core)] \notin {"join", "joined"}
  BY <1>1
<1>4. core' # <<>> => Len(core) > 1 /\ core'[Len(core')] = core[Len(core)]
  BY <1>1, <1>2
<1>5. StackInv'
  <2>1. cmd'.type = "Body" => Within(core', Points \ CommandPoints)
    BY <1>2 DEF StackInv
  <2>2. cmd'.type = "Shutdown" =>
          Within(core', ShutdownPoints) /\ core' # <<>> /\ core'[Len(core')] \in {"join", "joined"}
    <3> SUFFICES ASSUME cmd.type = "Shutdown"
                 PROVE  /\ Within(core', ShutdownPoints)
                        /\ core' # <<>> /\ core'[Len(core')] \in {"join", "joined"}
      OBVIOUS
    <3>1. Within(core, ShutdownPoints) /\ core[Len(core)] \in {"join", "joined"}
      BY DEF StackInv
    <3>2. core' = <<>> => Len(core) = 1
      <4>1. core' = <<>> => Len(core') = 0
        OBVIOUS
      <4>2. Len(core') = 0 => Len(core) = 1
        BY <1>1, <1>2
      <4> QED
        BY <4>1, <4>2
    <3>3. core' # <<>>
      BY <1>3, <3>1, <3>2
    <3> QED
      BY <1>2, <1>4, <3>1, <3>3
  <2> QED
    BY <1>2, <2>1, <2>2 DEF StackInv
<1>6. ShutdownIsPushed => ShutdownIsPushed'
  BY <1>2 DEF ShutdownIsPushed
<1>7. ~(Len(core') > 1 /\ core'[2] = "unprocessed_load")
  <2>1. Len(core') > 1 => MayBeBelow(core'[1], core'[2]) /\ core'[1] = Head(core')
    BY <1>1, <1>2 DEF IsStack
  <2> QED
    BY <1>2, <2>1 DEF MayBeBelow
<1>8. core' # <<>> => Len(core) > 1 /\ Head(core') = core[2]
  BY <1>1, <1>2
<1> QED
  BY <1>2, <1>5, <1>6, <1>7, <1>8 DEF At

\* ... and when it goes on at other points.
MayReplace(x, points) ==
  /\ IsStack(points) /\ points # <<>>
  /\ points[1] \notin {"fill", "reset_read_ptr", "unprocessed_load"} \cup Pushes
  /\ \A y : MayBeBelow(x, y) => MayBeBelow(points[Len(points)], y)
  /\ x \in CommandPoints \/ Within(points, Points \ CommandPoints)
  /\ x \in ShutdownPoints => Within(points, ShutdownPoints)
  /\ x \in Quiet => Within(points, Quiet)
  /\ x \notin {"join", "joined", "reset_read_ptr"}

\* A step that puts admissible points in place of the top keeps the stack.
LEMMA StackGoes ==
  ASSUME StackInv, core # <<>>, NEW points, Goto(points), MayReplace(Head(core), points),
         cmd'.type = cmd.type
  PROVE  /\ StackInv'
         /\ ShutdownIsPushed => ShutdownIsPushed'
         /\ core' # <<>> /\ Head(core') = points[1]
         /\ Len(core') > 1 /\ core'[2] = "unprocessed_load" =>
              \/ Len(points) > 1 /\ points[2] = "unprocessed_load"
              \/ Len(core) > 1 /\ core[2] = "unprocessed_load"
<1> USE DEF MayReplace
<1>1. /\ IsStack(core) /\ core \in Seq(Points) /\ Len(core) \in Nat \ {0}
      /\ core' = points \o Tail(core) /\ Len(points) \in Nat \ {0} /\ Head(core) = core[1]
  BY DEF StackInv, IsStack, Goto
<1>2. /\ IsStack(core') /\ core' # <<>> /\ Head(core') = points[1]
      /\ Len(core') = Len(points) + Len(core) - 1
      /\ \A i \in 1 .. Len(points) : core'[i] = points[i]
      /\ \A i \in 2 .. Len(core) : core'[Len(points) + i - 1] = core[i]
      /\ \A all : Within(core, all) /\ Within(points, all) => Within(core', all)
  BY <1>1, Replaced
<1>3. \A all : Within(core, all) => Head(core) \in all
  BY <1>1 DEF Within
<1>4. StackInv'
  <2>1. Len(core) > 1 => core'[Len(core')] = core[Len(core)]
    BY <1>1, <1>2
  <2>2. Len(core) = 1 => core[Len(core)] \notin {"join", "joined"}
    BY <1>1
  <2>3. cmd'.type = "Body" => Within(core', Points \ CommandPoints)
    BY <1>2, <1>3 DEF StackInv
  <2>4. cmd'.type = "Shutdown" =>
          /\ Within(core', ShutdownPoints)
          /\ core'[Len(core')] \in {"join", "joined"}
    BY <1>1, <1>2, <1>3, <2>1, <2>2 DEF StackInv
  <2> QED
    BY <1>2, <2>3, <2>4 DEF StackInv
<1>5. ShutdownIsPushed => ShutdownIsPushed'
  BY <1>2, <1>3 DEF ShutdownIsPushed
<1>6. Len(core') > 1 /\ core'[2] = "unprocessed_load" =>
        \/ Len(points) > 1 /\ points[2] = "unprocessed_load"
        \/ Len(core) > 1 /\ core[2] = "unprocessed_load"
  <2>1. CASE Len(points) > 1
    BY <1>1, <1>2, <2>1
  <2>2. CASE Len(points) = 1
    <3>1. Len(core) > 1 => \A k : k = Len(points) + 2 - 1 => core'[k] = core[2]
      BY <1>1, <1>2
    <3>2. Len(core) > 1 => core'[2] = core[2]
      BY <2>2, <3>1
    <3>3. Len(core') > 1 => Len(core) > 1
      BY <1>1, <1>2, <2>2
    <3> QED
      BY <3>2, <3>3
  <2>3. Len(points) > 1 \/ Len(points) = 1
    <3>1. Len(points) \in Nat \ {0}
      BY <1>1
    <3>2. \A n \in Nat \ {0} : n > 1 \/ n = 1
      OBVIOUS
    <3> QED
      BY <3>1, <3>2
  <2> QED
    BY <2>1, <2>2, <2>3
<1> QED
  BY <1>2, <1>4, <1>5, <1>6

-----------------------------------------------------------------------------
(* Steps of the core thread that leave the ring alone. *)

\* They keep the invariant when they keep the stack's part of it.
LEMMA CoreKeeps ==
  ASSUME Inv, UNCHANGED <<ring, videoVars>>, ~At("reset_read_ptr"),
         issued' \in Nat, cmd' \in Commands, cmd'.type # "Wraparound",
         cmd'.type # "Body" => cmd'.size > 0,
         ShutdownIsPushed => ShutdownIsPushed',
         StackInv', AllocInv'
  PROVE  Inv'
<1> USE DEF ring, videoVars, videoLocals
<1>1. Types'
  BY DEF Inv, Types
<1>2. Last \subseteq Last'
  BY DEF Last
<1>3. \A begin, end \in Nat : Chain(begin, end) => Chain(begin, end)'
  <2> SUFFICES ASSUME NEW begin \in Nat, NEW end \in Nat, Chain(begin, end)
               PROVE  IsChain(command_fifo_data', begin, end, Last')
    BY DEF Chain
  <2> QED
    BY <1>2, ChainKept DEF Chain
<1>4. Straight => Straight'
  BY <1>3 DEF Straight, On, Inv, Types
<1>5. \A w \in 0 .. COMMAND_QUEUE_SIZE - 1 : Wrapped(w) => Wrapped(w)'
  BY <1>3 DEF Wrapped, On, Inv, Types
<1> QED
  BY <1>1, <1>4, <1>5 DEF Inv, RingInv, Resetting

\* One that returns.
LEMMA ReturnKeeps ==
  ASSUME Inv, core # <<>>, Return, UNCHANGED <<ring, cmd, videoVars>>, issued' \in Nat,
         Head(core) \notin {"join", "joined", "reset", "reset_read_ptr", "fill"},
         Head(core) \in AllocPoints => Room
  PROVE  Inv'
<1>1. /\ StackInv'
      /\ ShutdownIsPushed => ShutdownIsPushed'
      /\ ~(Len(core') > 1 /\ core'[2] = "unprocessed_load")
      /\ \A x : At(x)' => Len(core) > 1 /\ core[2] = x /\ MayBeBelow(Head(core), x)
  BY StackReturns DEF Inv
<1>2. AllocInv'
  <2>1. /\ At("unprocessed_load")' => Len(core) > 1 /\ core[2] = "unprocessed_load"
        /\ ~At("wrap")'
        /\ At("fill")' => Head(core) \in AllocPoints
        /\ \A push \in Pushes : ~At(push)'
        /\ ~At("reset_read_ptr")'
    BY <1>1 DEF MayBeBelow, Pushes
  <2> QED
    BY <1>1, <2>1 DEF AllocInv, Room, Inv, ring
<1> QED
  BY <1>1, <1>2, CoreKeeps DEF Inv, Types, At

\* One that goes on at other points.
LEMMA GotoKeeps ==
  ASSUME Inv, core # <<>>, NEW points, Goto(points), MayReplace(Head(core), points),
         UNCHANGED <<ring, cmd, videoVars>>, issued' \in Nat,
         points[1] = "wrap" =>
           command_fifo_read_ptr # 0 /\ command_fifo_read_ptr <= command_fifo_write_ptr,
         Len(points) > 1 /\ points[2] = "unprocessed_load" =>
           command_fifo_read_ptr <= command_fifo_write_ptr
  PROVE  Inv'
<1>1. /\ StackInv'
      /\ ShutdownIsPushed => ShutdownIsPushed'
      /\ core' # <<>> /\ Head(core') = points[1]
      /\ Len(core') > 1 /\ core'[2] = "unprocessed_load" =>
           \/ Len(points) > 1 /\ points[2] = "unprocessed_load"
           \/ Len(core) > 1 /\ core[2] = "unprocessed_load"
  BY StackGoes DEF Inv
<1>2. AllocInv'
  <2>1. points[1] \notin {"fill", "reset_read_ptr", "unprocessed_load"} \cup Pushes
    BY DEF MayReplace
  <2>2. /\ At("unprocessed_load")' => points[1] = "unprocessed_load"
        /\ At("wrap")' => points[1] = "wrap"
        /\ At("fill")' => points[1] = "fill"
        /\ \A push \in Pushes : At(push)' => points[1] = push
        /\ At("reset_read_ptr")' => points[1] = "reset_read_ptr"
    BY <1>1 DEF At
  <2>3. Len(core) > 1 /\ core[2] = "unprocessed_load" =>
          command_fifo_read_ptr <= command_fifo_write_ptr
    BY DEF Inv, AllocInv
  <2> QED
    BY <1>1, <2>1, <2>2, <2>3 DEF AllocInv, ring
<1>3. ~At("reset_read_ptr")
  BY DEF At, MayReplace
<1> QED
  BY <1>1, <1>2, <1>3, CoreKeeps DEF Inv, Types

\* Where the core thread goes on from a point that does not return.
LEMMA Replacements ==
  /\ \A x \in {"alloc", "full_load"} : MayReplace(x, <<"wake_if_sleeping", "full_load">>)
  /\ \A x \in {"alloc", "unprocessed_load"} :
       MayReplace(x, <<"wake_if_sleeping", "unprocessed_load">>) /\ MayReplace(x, <<"wrap">>)
  /\ MayReplace("threshold", <<"wake">>)
  /\ MayReplace("wake", <<"wake_post">>)
  /\ MayReplace("wake_if_sleeping", <<"wake_if_not_empty">>)
  /\ MayReplace("wake_if_not_empty", <<"wake">>)
  /\ MayReplace("spin_check", <<"spin_empty">>) /\ MayReplace("spin_check", <<"spin">>)
  /\ MayReplace("spin_empty", <<"wake", "spin">>)
  /\ MayReplace("spin", <<"spin_check">>) /\ MayReplace("spin", <<"sync_load">>)
  /\ MayReplace("sync_load", <<"sync_empty">>) /\ MayReplace("sync_load", <<"sync_cas">>)
  /\ MayReplace("sync_empty", <<"wake", "sync_cas">>)
  /\ MayReplace("sync_cas", <<"sync_wait">>) /\ MayReplace("sync_cas", <<"sync_load">>)
  /\ MayReplace("set_thread_enabled", <<"reset", "reset_read_ptr">>)
  /\ MayReplace("set_thread_enabled",
                <<"read_vram", "destroy", "reset", "reset_read_ptr", "enable", "create">>)
<1> USE DEF MayReplace, IsStack, Within, MayBeBelow, Points, CommandPoints, AllocPoints, WakePoints,
            Pushes, ShutdownPoints, Quiet
<1>1. \A x \in {"alloc", "full_load"} : MayReplace(x, <<"wake_if_sleeping", "full_load">>)
  OBVIOUS
<1>2. \A x \in {"alloc", "unprocessed_load"} :
        MayReplace(x, <<"wake_if_sleeping", "unprocessed_load">>) /\ MayReplace(x, <<"wrap">>)
  OBVIOUS
<1>3. MayReplace("threshold", <<"wake">>) /\ MayReplace("wake", <<"wake_post">>)
  OBVIOUS
<1>4. /\ MayReplace("wake_if_sleeping", <<"wake_if_not_empty">>)
      /\ MayReplace("wake_if_not_empty", <<"wake">>)
  OBVIOUS
<1>5. /\ MayReplace("spin_check", <<"spin_empty">>) /\ MayReplace("spin_check", <<"spin">>)
      /\ MayReplace("spin", <<"spin_check">>) /\ MayReplace("spin", <<"sync_load">>)
  OBVIOUS
<1>6. MayReplace("spin_empty", <<"wake", "spin">>) /\ MayReplace("sync_empty", <<"wake", "sync_cas">>)
  OBVIOUS
<1>7. /\ MayReplace("sync_load", <<"sync_empty">>) /\ MayReplace("sync_load", <<"sync_cas">>)
      /\ MayReplace("sync_cas", <<"sync_wait">>) /\ MayReplace("sync_cas", <<"sync_load">>)
  OBVIOUS
<1>8. MayReplace("set_thread_enabled", <<"reset", "reset_read_ptr">>)
  OBVIOUS
<1>9. MayReplace("set_thread_enabled",
                 <<"read_vram", "destroy", "reset", "reset_read_ptr", "enable", "create">>)
  <2> DEFINE points == <<"read_vram", "destroy", "reset", "reset_read_ptr", "enable", "create">>
  <2>1. points \in Seq(Points)
    OBVIOUS
  <2>2. \A i \in 1 .. Len(points) - 1 : MayBeBelow(points[i], points[i + 1])
    OBVIOUS
  <2>3. Within(points, Points \ CommandPoints)
    OBVIOUS
  <2>4. /\ points # <<>> /\ points[Len(points)] = "create"
        /\ points[1] \notin {"fill", "reset_read_ptr", "unprocessed_load"} \cup Pushes
    OBVIOUS
  <2> HIDE DEF points
  <2>5. IsStack(points)
    BY <2>1, <2>2, <2>4
  <2>6. MayReplace("set_thread_enabled", points)
    BY <2>3, <2>4, <2>5
  <2> QED
    BY <2>6 DEF points
<1> QED
  BY <1>1, <1>2, <1>3, <1>4, <1>5, <1>6, <1>7, <1>8, <1>9

-----------------------
(* The steps of AllocateCommand. *)

\* AllocateCommand returns when it sees room, and what it sees is really free.
LEMMA RoomFound ==
  ASSUME Types, ~NoRoom(AvailableSize(command_fifo_read_ptr, command_fifo_write_ptr))
  PROVE  Room
  BY QueueAssumption DEF Types, NoRoom, AvailableSize, Room, Commands

\* The outer loop.
LEMMA AllocKeeps == ASSUME Inv, Alloc PROVE Inv'
<1>1. core # <<>> /\ Head(core) = "alloc" /\ UNCHANGED <<ring, cmd, videoVars>> /\ issued' \in Nat
  BY DEF Alloc, At, Inv, Types, ring, videoVars, history
<1>2. CASE Return /\ ~NoRoom(AvailableSize(command_fifo_read_ptr, command_fifo_write_ptr))
  BY <1>1, <1>2, ReturnKeeps, RoomFound DEF Inv
<1>3. CASE Goto(<<"wake_if_sleeping", "full_load">>)
  BY <1>1, <1>3, GotoKeeps, Replacements
<1>4. CASE /\ Goto(<<"wake_if_sleeping", "unprocessed_load">>)
           /\ command_fifo_read_ptr <= command_fifo_write_ptr
  BY <1>1, <1>4, GotoKeeps, Replacements
<1>5. CASE /\ Goto(<<"wrap">>)
           /\ command_fifo_read_ptr <= command_fifo_write_ptr /\ command_fifo_read_ptr # 0
  BY <1>1, <1>5, GotoKeeps, Replacements
<1> QED
  BY <1>2, <1>3, <1>4, <1>5 DEF Alloc, Inv, Types, Unprocessed

\* The inner loop, while the reader is ahead.
LEMMA FullLoadKeeps == ASSUME Inv, FullLoad PROVE Inv'
<1>1. /\ core # <<>> /\ Head(core) = "full_load"
      /\ UNCHANGED <<ring, cmd, videoVars>> /\ issued' \in Nat
  BY DEF FullLoad, At, Inv, Types, ring, videoVars, history
<1>2. CASE Return /\ ~NoRoom(AvailableSize(command_fifo_read_ptr, command_fifo_write_ptr))
  BY <1>1, <1>2, ReturnKeeps, RoomFound DEF Inv
<1>3. CASE Goto(<<"wake_if_sleeping", "full_load">>)
  BY <1>1, <1>3, GotoKeeps, Replacements
<1> QED
  BY <1>2, <1>3 DEF FullLoad

\* The inner loop, while the reader is at 0.
LEMMA UnprocessedLoadKeeps == ASSUME Inv, UnprocessedLoad PROVE Inv'
<1>1. /\ core # <<>> /\ Head(core) = "unprocessed_load"
      /\ UNCHANGED <<ring, cmd, videoVars>> /\ issued' \in Nat
      /\ command_fifo_read_ptr <= command_fifo_write_ptr
  BY DEF UnprocessedLoad, At, Inv, AllocInv, Types, ring, videoVars, history
<1>2. CASE Goto(<<"wake_if_sleeping", "unprocessed_load">>)
  BY <1>1, <1>2, GotoKeeps, Replacements
<1>3. CASE Goto(<<"wrap">>) /\ command_fifo_read_ptr # 0
  BY <1>1, <1>3, GotoKeeps, Replacements
<1> QED
  BY <1>2, <1>3 DEF UnprocessedLoad, Unprocessed

-----------------------------------------------------------------------------
(* The steps that wake, wait, switch or execute, and leave the ring alone. *)

\* At a point that is neither part of AllocateCommand nor one where the ring
\* or the stack changes in another way.
Plain(point) == point \notin AllocPoints \cup {"join", "joined", "reset", "reset_read_ptr", "fill"}

\* Such a point returns or goes on, and the ring stays what it is.
LEMMA PlainKeeps ==
  ASSUME Inv, NEW point, At(point), Plain(point),
         UNCHANGED <<ring, cmd, videoVars>>, issued' \in Nat,
         Return \/ \E points : Goto(points) /\ MayReplace(point, points) /\ points[1] # "wrap"
                                 /\ ~(Len(points) > 1 /\ points[2] = "unprocessed_load")
  PROVE  Inv'
<1>1. core # <<>> /\ Head(core) = point
  BY DEF At
<1>2. CASE Return
  BY <1>1, <1>2, ReturnKeeps DEF Plain
<1>3. ASSUME NEW points, Goto(points), MayReplace(point, points), points[1] # "wrap",
             ~(Len(points) > 1 /\ points[2] = "unprocessed_load")
      PROVE  Inv'
  BY <1>1, <1>3, GotoKeeps
<1> QED
  BY <1>2, <1>3

WaitSteps ==
  \/ Threshold \/ WakeThread \/ WakePost \/ WakeThreadIfSleeping
  \/ SpinCheck \/ SpinExpire \/ SyncLoad \/ SyncEmpty \/ SyncCAS \/ SyncWait \/ Synced
  \/ SetThreadEnabled \/ Enable \/ SkipReadVRAM

\* The steps of that kind.
LEMMA WaitStepsKeep == ASSUME Inv, WaitSteps PROVE Inv'
<1> USE DEF Plain, AllocPoints
<1>1. UNCHANGED <<ring, cmd, videoVars>> /\ issued' \in Nat
  BY DEF WaitSteps, Inv, Types, ring, videoVars, history, coreLocals, Threshold, WakeThread,
         WakePost, WakeThreadIfSleeping, SpinCheck, SpinExpire, SyncLoad, SyncEmpty, SyncCAS,
         SyncWait, Synced, SetThreadEnabled, Enable, SkipReadVRAM
<1>2. CASE Threshold
  <2>1. At("threshold") /\ (Goto(<<"wake">>) \/ Return)
    BY <1>2 DEF Threshold
  <2>2. CASE Return
    BY <1>1, <2>1, <2>2, PlainKeeps
  <2>3. CASE Goto(<<"wake">>)
    BY <1>1, <2>1, <2>3, PlainKeeps, Replacements
  <2> QED
    BY <2>1, <2>2, <2>3
<1>3. CASE WakeThread
  BY <1>1, <1>3, PlainKeeps, Replacements DEF WakeThread
<1>4. CASE WakePost
  BY <1>1, <1>4, PlainKeeps DEF WakePost
<1>5. CASE WakeThreadIfSleeping
  <2>1. \/ At("wake_if_sleeping") /\ (Goto(<<"wake_if_not_empty">>) \/ Return)
        \/ At("wake_if_not_empty") /\ (Goto(<<"wake">>) \/ Return)
    BY <1>5 DEF WakeThreadIfSleeping
  <2>2. CASE Return
    BY <1>1, <2>1, <2>2, PlainKeeps
  <2>3. CASE At("wake_if_sleeping") /\ Goto(<<"wake_if_not_empty">>)
    BY <1>1, <2>3, PlainKeeps, Replacements
  <2>4. CASE At("wake_if_not_empty") /\ Goto(<<"wake">>)
    BY <1>1, <2>4, PlainKeeps, Replacements
  <2> QED
    BY <2>1, <2>2, <2>3, <2>4
<1>6. CASE SpinCheck
  <2>1. \/ At("spin_check") /\ (Goto(<<"spin_empty">>) \/ Goto(<<"spin">>))
        \/ At("spin_empty") /\ (Return \/ Goto(<<"wake", "spin">>))
        \/ At("spin") /\ Goto(<<"spin_check">>)
    BY <1>6 DEF SpinCheck
  <2>2. CASE At("spin_empty") /\ Return
    BY <1>1, <2>2, PlainKeeps
  <2>3. CASE At("spin_check") /\ Goto(<<"spin_empty">>)
    <3>1. MayReplace("spin_check", <<"spin_empty">>)
      BY Replacements
    <3>2. \E points : Goto(points) /\ MayReplace("spin_check", points) /\ points[1] # "wrap"
                      /\ ~(Len(points) > 1 /\ points[2] = "unprocessed_load")
      BY <2>3, <3>1
    <3> QED
      BY <1>1, <2>3, <3>2, PlainKeeps
  <2>4. CASE At("spin_check") /\ Goto(<<"spin">>)
    <3>1. MayReplace("spin_check", <<"spin">>)
      BY Replacements
    <3>2. \E points : Goto(points) /\ MayReplace("spin_check", points) /\ points[1] # "wrap"
                      /\ ~(Len(points) > 1 /\ points[2] = "unprocessed_load")
      BY <2>4, <3>1
    <3> QED
      BY <1>1, <2>4, <3>2, PlainKeeps
  <2>5. CASE At("spin_empty") /\ Goto(<<"wake", "spin">>)
    <3>1. MayReplace("spin_empty", <<"wake", "spin">>)
      BY Replacements
    <3>2. \E points : Goto(points) /\ MayReplace("spin_empty", points) /\ points[1] # "wrap"
                      /\ ~(Len(points) > 1 /\ points[2] = "unprocessed_load")
      BY <2>5, <3>1
    <3> QED
      BY <1>1, <2>5, <3>2, PlainKeeps
  <2>6. CASE At("spin") /\ Goto(<<"spin_check">>)
    <3>1. MayReplace("spin", <<"spin_check">>)
      BY Replacements
    <3>2. \E points : Goto(points) /\ MayReplace("spin", points) /\ points[1] # "wrap"
                      /\ ~(Len(points) > 1 /\ points[2] = "unprocessed_load")
      BY <2>6, <3>1
    <3> QED
      BY <1>1, <2>6, <3>2, PlainKeeps
  <2> QED
    BY <2>1, <2>2, <2>3, <2>4, <2>5, <2>6
<1>7. CASE SpinExpire
  BY <1>1, <1>7, PlainKeeps, Replacements DEF SpinExpire
<1>8. CASE SyncLoad
  <2>1. At("sync_load") /\ (Goto(<<"sync_empty">>) \/ Goto(<<"sync_cas">>))
    BY <1>8 DEF SyncLoad
  <2> QED
    BY <1>1, <2>1, PlainKeeps, Replacements
<1>9. CASE SyncEmpty
  BY <1>1, <1>9, PlainKeeps, Replacements DEF SyncEmpty
<1>10. CASE SyncCAS
  BY <1>1, <1>10, PlainKeeps, Replacements DEF SyncCAS
<1>11. CASE SyncWait
  BY <1>1, <1>11, PlainKeeps DEF SyncWait
<1>12. CASE Synced
  BY <1>1, <1>12, PlainKeeps DEF Synced
<1>13. CASE SetThreadEnabled
  BY <1>1, <1>13, PlainKeeps, Replacements DEF SetThreadEnabled
<1>14. CASE Enable
  BY <1>1, <1>14, PlainKeeps DEF Enable
<1>15. CASE SkipReadVRAM
  BY <1>1, <1>15, PlainKeeps DEF SkipReadVRAM
<1> QED
  BY <1>2, <1>3, <1>4, <1>5, <1>6, <1>7, <1>8, <1>9, <1>10, <1>11, <1>12, <1>13, <1>14, <1>15
     DEF WaitSteps

\* Executing a command directly, without the thread.
LEMMA PushDirectlyKeeps ==
  ASSUME Inv, NEW push \in Pushes, PushDirectly(push) PROVE Inv'
<1>1. At(push) /\ Return /\ UNCHANGED <<ring, cmd, videoVars>> /\ issued' \in Nat
  BY DEF PushDirectly, Inv, Types, ring, videoVars, coreLocals
<1>2. Plain(push)
  BY DEF Plain, Pushes, AllocPoints
<1> QED
  BY <1>1, <1>2, PlainKeeps

-----------------------------------------------------------------------------
(* The calls, and the commands they make. *)

MayBegin(points) ==
  /\ IsStack(points)
  /\ points # <<>> =>
       points[1] \notin {"unprocessed_load", "wrap", "fill", "reset_read_ptr"} \cup Pushes
  /\ Len(points) > 1 => points[2] # "unprocessed_load"

\* A call begins with an empty stack.
LEMMA BeginKeeps ==
  ASSUME Inv, core = <<>>, NEW points, core' = points, MayBegin(points),
         UNCHANGED <<ring, videoVars, issued>>,
         cmd' \in Commands, cmd'.type \notin {"Wraparound", "Shutdown"},
         cmd'.type # "Body" => cmd'.size > 0,
         cmd'.type = "Body" => Within(points, Points \ CommandPoints)
  PROVE  Inv'
<1>1. ~ShutdownIsPushed /\ ~At("reset_read_ptr")
  BY DEF ShutdownIsPushed, Inv, StackInv, At
<1>2. StackInv'
  BY DEF StackInv, MayBegin
<1>3. AllocInv'
  BY DEF AllocInv, At, MayBegin, Pushes
<1> QED
  BY <1>1, <1>2, <1>3, CoreKeeps DEF Inv, Types

\* The points at which the calls begin.
LEMMA Beginnings ==
  /\ MayBegin(<<>>) /\ Within(<<>>, Points \ CommandPoints)
  /\ \A push \in Pushes : MayBegin(<<"alloc", "fill", push>>)
  /\ \A points \in
       {<<"spin_check", "synced">>, <<"sync_load", "synced">>, <<"set_thread_enabled">>,
        <<"sync_load", "synced", "set_thread_enabled">>,
        <<"sync_load", "synced", "shutdown", "join">>,
        <<"set_thread_enabled", "shutdown", "join">>} :
       MayBegin(points) /\ Within(points, Points \ CommandPoints)
BY DEF MayBegin, IsStack, Within, MayBeBelow, Points, CommandPoints, AllocPoints, WakePoints, Pushes

\* The calls.
LEMMA CallsKeep == ASSUME Inv, CoreCalls PROVE Inv'
<1>1. core = <<>> /\ UNCHANGED <<ring, videoVars, issued>>
  BY DEF CoreCalls, BeginPush, BeginReconfigure, BeginSyncThread, BeginSetThreadEnabled,
         BeginProcessShutdown, Begin, history
<1>2. ASSUME NEW push \in Pushes, core' = <<"alloc", "fill", push>>,
             NEW size \in Sizes, NEW type \in {"Call", "Create"}, cmd' = Command(type, size)
      PROVE  Inv'
  <2>1. /\ cmd' \in Commands /\ cmd'.type = type /\ cmd'.size > 0
    BY <1>2, QueueAssumption DEF Command, Commands
  <2> QED
    BY <1>1, <1>2, <2>1, BeginKeeps, Beginnings
<1>3. ASSUME NEW points, core' = points, MayBegin(points), Within(points, Points \ CommandPoints),
             UNCHANGED cmd
      PROVE  Inv'
  <2>1. cmd \in Commands /\ cmd.type \notin {"Wraparound", "Shutdown"}
        /\ (cmd.type # "Body" => cmd.size > 0)
    BY <1>1 DEF Inv, Types, StackInv
  <2> QED
    BY <1>1, <1>3, <2>1, BeginKeeps
<1>4. CASE BeginPush
  BY <1>2, <1>4 DEF BeginPush, Begin, Pushes
<1>5. CASE BeginReconfigure
  BY <1>2, <1>5 DEF BeginReconfigure, Begin, Pushes
<1>6. CASE BeginSyncThread
  BY <1>3, <1>6, Beginnings DEF BeginSyncThread, Begin, Sync
<1>7. CASE BeginSetThreadEnabled
  BY <1>3, <1>7, Beginnings, Concatenations DEF BeginSetThreadEnabled, Begin, Sync
<1>8. CASE BeginProcessShutdown
  BY <1>3, <1>8, Beginnings, Concatenations DEF BeginProcessShutdown, Begin, Sync
<1> QED
  BY <1>4, <1>5, <1>6, <1>7, <1>8 DEF CoreCalls

\* A function in the middle of a call makes a command of its own.
LEMMA PushFromKeeps ==
  ASSUME Inv, NEW point \in {"read_vram", "destroy", "create", "shutdown"},
         NEW type \in {"Call", "Destroy", "Create", "Shutdown"}, NEW push \in Pushes,
         type = "Shutdown" => point = "shutdown" /\ push = "PushCommandAndWakeThread",
         PushFrom(point, type, push)
  PROVE  Inv'
<1> DEFINE points == <<"alloc", "fill", push>>
<1>1. /\ core # <<>> /\ Head(core) = point /\ core' = points \o Tail(core)
      /\ UNCHANGED <<ring, videoVars, issued>>
      /\ \E size \in Sizes : cmd' = Command(type, size)
  BY DEF PushFrom, At, Goto, history
<1>2. /\ cmd' \in Commands /\ cmd'.type = type /\ cmd'.size > 0
  BY <1>1, QueueAssumption DEF Command, Commands
<1>3. /\ IsStack(core) /\ core \in Seq(Points) /\ Len(core) \in Nat \ {0} /\ core[1] = point
  BY <1>1 DEF Inv, StackInv, IsStack
<1>4. IsStack(points) /\ points # <<>>
  BY DEF IsStack, Points, MayBeBelow, AllocPoints, WakePoints, Pushes
<1>5. \A y : MayBeBelow(Head(core), y) => MayBeBelow(points[Len(points)], y)
  BY <1>1 DEF MayBeBelow, WakePoints, Pushes, AllocPoints
<1>6. Len(points) = 3 /\ points[1] = "alloc" /\ points[2] = "fill" /\ points[3] = push
  OBVIOUS
<1> HIDE DEF points
<1>7. /\ IsStack(core') /\ core' # <<>> /\ Head(core') = points[1]
      /\ Len(core') = Len(points) + Len(core) - 1
      /\ \A i \in 1 .. Len(points) : core'[i] = points[i]
      /\ \A i \in 2 .. Len(core) : core'[Len(points) + i - 1] = core[i]
  BY <1>1, <1>4, <1>5, Replaced DEF Inv, StackInv
<1>8. ASSUME type = "Shutdown"
      PROVE  Within(core', ShutdownPoints) /\ core'[Len(core')] = "join"
  <2>1. Len(core) > 1 /\ core[2] = "join"
    BY <1>3, <1>8 DEF IsStack, MayBeBelow
  <2>2. Len(core) = 2
    <3>1. Len(core) > 2 => MayBeBelow(core[2], core[3])
      BY <1>3 DEF IsStack
    <3>2. ~(Len(core) > 2)
      BY <2>1, <3>1 DEF MayBeBelow
    <3>3. \A n \in Nat : n > 1 /\ ~(n > 2) => n = 2
      OBVIOUS
    <3> QED
      BY <1>3, <2>1, <3>2, <3>3
  <2>3. Len(core') = 4 /\ \A k : k = Len(points) + 2 - 1 => core'[k] = "join"
    BY <1>6, <1>7, <2>1, <2>2
  <2>4. core'[1] = "alloc" /\ core'[2] = "fill" /\ core'[3] = push /\ core'[4] = "join"
    BY <1>6, <1>7, <2>3
  <2> QED
    BY <1>8, <2>3, <2>4 DEF Within, ShutdownPoints, AllocPoints, Quiet
<1>9. StackInv'
  BY <1>2, <1>7, <1>8 DEF StackInv
<1>10. AllocInv'
  BY <1>6, <1>7 DEF AllocInv, At, Pushes
<1>11. ~ShutdownIsPushed /\ ~At("reset_read_ptr")
  <2>1. 1 \in 1 .. Len(core) /\ core[1] \notin Quiet
    BY <1>3 DEF Quiet
  <2>2. ~Within(core, Quiet)
    BY <2>1 DEF Within
  <2> QED
    BY <1>1, <2>2 DEF ShutdownIsPushed, At
<1> QED
  BY <1>1, <1>2, <1>9, <1>10, <1>11, CoreKeeps DEF Inv, Types

\* The functions that do.
LEMMA PushOwnKeeps == ASSUME Inv, PushOwn PROVE Inv'
<1>1. CASE PushFrom("read_vram", "Call", "PushCommand")
  BY <1>1, PushFromKeeps DEF Pushes
<1>2. CASE PushFrom("destroy", "Destroy", "PushCommandAndSync")
  BY <1>2, PushFromKeeps DEF Pushes
<1>3. CASE PushFrom("create", "Create", "PushCommandAndSync")
  BY <1>3, PushFromKeeps DEF Pushes
<1>4. CASE PushFrom("shutdown", "Shutdown", "PushCommandAndWakeThread")
  BY <1>4, PushFromKeeps DEF Pushes
<1> QED
  BY <1>1, <1>2, <1>3, <1>4 DEF PushOwn

\* The end of ProcessShutdown.
LEMMA JoinKeeps == ASSUME Inv, Join PROVE Inv'
<1>1. /\ core # <<>> /\ Head(core) = "join" /\ core' = <<"joined">>
      /\ UNCHANGED <<ring, videoVars, issued, cmd>>
  BY DEF Join, At, history, coreLocals
<1>2. IsStack(<<"joined">>)
  BY DEF IsStack, Points
<1>3. StackInv'
  BY <1>1, <1>2
     DEF StackInv, Within, CommandPoints, AllocPoints, Pushes, ShutdownPoints, Quiet, Points
<1>4. AllocInv'
  BY <1>1 DEF AllocInv, At, Pushes
<1>5. ~At("reset_read_ptr") /\ (ShutdownIsPushed => ShutdownIsPushed')
  BY <1>1 DEF At, ShutdownIsPushed, Within, Quiet
<1> QED
  BY <1>1, <1>3, <1>4, <1>5, CoreKeeps DEF Inv, Types

-----------------------------------------------------------------------------
(* The steps of the core thread that change the ring. *)

\* What AllocateCommand's caller writes is outside both laps.
LEMMA FillKeeps == ASSUME Inv, Fill PROVE Inv'
<1>1. /\ core # <<>> /\ Head(core) = "fill" /\ Return
      /\ command_fifo_data' = Store(command_fifo_write_ptr, cmd')
      /\ UNCHANGED <<command_fifo_write_ptr, command_fifo_read_ptr, videoVars, issued>>
  BY DEF Fill, At, history
<1>2. cmd' \in Commands /\ cmd'.type = cmd.type /\ cmd'.size = cmd.size
  BY DEF Fill, Inv, Types, Commands
<1>3. Room
  BY <1>1 DEF Inv, AllocInv, At
<1>4. /\ StackInv'
      /\ ~(Len(core') > 1 /\ core'[2] = "unprocessed_load")
      /\ \A x : At(x)' => MayBeBelow("fill", x)
  BY <1>1, <1>2, StackReturns DEF Inv
<1>5. ~ShutdownIsPushed /\ ~At("reset_read_ptr")
  <2>1. 1 \in 1 .. Len(core) /\ core[1] \notin Quiet
    BY <1>1 DEF Quiet, Inv, StackInv, IsStack
  <2>2. ~Within(core, Quiet)
    BY <2>1 DEF Within
  <2> QED
    BY <1>1, <2>2 DEF ShutdownIsPushed, At
<1>6. Types'
  <2>1. Body \in Commands
    BY DEF Body, Command, Commands
  <2>2. command_fifo_data' \in [0 .. COMMAND_QUEUE_SIZE - 1 -> Commands]
    BY <1>1, <1>2, <2>1 DEF Store, Inv, Types
  <2> QED
    BY <1>1, <1>2, <2>2 DEF Inv, Types
<1>7. /\ command_fifo_write_ptr \in Nat /\ command_fifo_read_ptr \in Nat
       /\ command_fifo_write_ptr < COMMAND_QUEUE_SIZE /\ command_fifo_read_ptr < COMMAND_QUEUE_SIZE
       /\ COMMAND_QUEUE_SIZE \in Nat /\ cmd.size \in Nat \ {0}
  <2>1. 1 \in 1 .. Len(core) /\ core[1] \notin Points \ CommandPoints
    BY <1>1 DEF CommandPoints, Inv, StackInv, IsStack
  <2>2. cmd.type # "Body"
    BY <2>1 DEF Inv, StackInv, Within
  <2> QED
    BY <2>2, QueueAssumption DEF Inv, Types, Commands
<1>8. \A o \in 0 .. COMMAND_QUEUE_SIZE - 1 :
        o < command_fifo_write_ptr \/ o >= command_fifo_write_ptr + cmd.size =>
          command_fifo_data'[o] = command_fifo_data[o]
  BY <1>1, <1>2, <1>7 DEF Store
<1>9. Filled'
  <2>1. \A o \in command_fifo_write_ptr .. command_fifo_write_ptr + cmd.size - 1 :
          command_fifo_data'[o] = IF o = command_fifo_write_ptr THEN cmd' ELSE Body
    BY <1>1, <1>2, <1>3, <1>7 DEF Store, Room
  <2>2. command_fifo_data'[command_fifo_write_ptr] = cmd'
    BY <1>7, <2>1
  <2>3. \A o \in command_fifo_write_ptr + 1 .. command_fifo_write_ptr + cmd.size - 1 :
          command_fifo_data'[o] = Body
    BY <1>7, <2>1
  <2> QED
    BY <1>1, <1>2, <2>2, <2>3 DEF Filled, IsHeader, Body, Command
<1>10. AllocInv'
  <2>1. ~At("unprocessed_load")' /\ ~At("wrap")' /\ ~At("fill")' /\ ~At("reset_read_ptr")'
    BY <1>4 DEF MayBeBelow, WakePoints, AllocPoints
  <2> QED
    BY <1>1, <1>2, <1>3, <1>4, <1>9, <2>1 DEF AllocInv, Room
<1>11. Last = {}
  BY <1>5 DEF Last
<1>12. ASSUME NEW begin \in Nat, NEW end \in Nat, Chain(begin, end),
              \A o \in begin .. end - 1 : command_fifo_data'[o] = command_fifo_data[o]
       PROVE  IsChain(command_fifo_data', begin, end, Last')
  BY <1>11, <1>12, ChainKept DEF Chain
<1>13. ASSUME Straight PROVE Straight'
  <2>1. \A o \in command_fifo_read_ptr .. command_fifo_write_ptr - 1 :
          command_fifo_data'[o] = command_fifo_data[o]
    BY <1>7, <1>8
  <2>2. Chain(command_fifo_read_ptr, command_fifo_write_ptr)'
    BY <1>1, <1>7, <1>12, <1>13, <2>1 DEF Straight, Chain
  <2>3. \A p : On(p, command_fifo_read_ptr, command_fifo_write_ptr) =>
          On(p, command_fifo_read_ptr, command_fifo_write_ptr)'
    BY <1>1, <2>1 DEF On, OnChain, IsHeader, Inv, Types
  <2>4. \A p, q : On(q, command_fifo_read_ptr, command_fifo_write_ptr)
                    /\ On(p, command_fifo_read_ptr, q) => On(p, command_fifo_read_ptr, q)'
    BY <1>1, <2>1 DEF On, OnChain, IsHeader, Inv, Types
  <2> QED
    BY <1>1, <1>13, <2>2, <2>3, <2>4 DEF Straight, videoVars, videoLocals
<1>14. ASSUME NEW w \in 0 .. COMMAND_QUEUE_SIZE - 1, Wrapped(w) PROVE Wrapped(w)'
  <2>1. /\ command_fifo_write_ptr + cmd.size < command_fifo_read_ptr
        /\ command_fifo_write_ptr < command_fifo_read_ptr
    BY <1>3, <1>7, <1>14 DEF Wrapped, Room
  <2>2. \A o \in 0 .. command_fifo_write_ptr - 1 : command_fifo_data'[o] = command_fifo_data[o]
    BY <1>7, <1>8
  <2>3. \A o \in command_fifo_read_ptr .. w : command_fifo_data'[o] = command_fifo_data[o]
    BY <1>7, <1>8, <2>1
  <2>4. Chain(0, command_fifo_write_ptr)'
    BY <1>1, <1>7, <1>12, <1>14, <2>2 DEF Wrapped, Chain
  <2>5. Chain(command_fifo_read_ptr, w)'
    BY <1>1, <1>7, <1>12, <1>14, <2>3 DEF Wrapped, Chain
  <2>6. WraparoundAt(command_fifo_data, w)'
    BY <1>14, <2>3 DEF WraparoundAt, Wrapped, Inv, Types
  <2>7. \A p : On(p, 0, command_fifo_write_ptr) => On(p, 0, command_fifo_write_ptr)'
    BY <1>1, <2>2 DEF On, OnChain, IsHeader, Inv, Types
  <2>8. \A p, q : On(p, command_fifo_read_ptr, w) /\ On(q, p, w) =>
          On(p, command_fifo_read_ptr, w)' /\ On(q, p, w)'
    BY <1>1, <2>3 DEF On, OnChain, IsHeader, Inv, Types
  <2>9. \A p : On(p, command_fifo_read_ptr, w) => On(p, command_fifo_read_ptr, w)'
    BY <1>1, <2>3 DEF On, OnChain, IsHeader, Inv, Types
  <2> QED
    BY <1>1, <1>14, <2>4, <2>5, <2>6, <2>7, <2>8, <2>9 DEF Wrapped, videoVars, videoLocals
<1> QED
  BY <1>4, <1>5, <1>6, <1>10, <1>13, <1>14 DEF Inv, RingInv, Resetting

\* Where the core thread goes on from a push, and from the wraparound.
LEMMA PushReplacements ==
  /\ MayReplace("PushCommand", <<"threshold">>)
  /\ MayReplace("PushCommandAndWakeThread", <<"wake">>)
  /\ MayReplace("PushCommandAndSync", <<"wake", "sync_load", "synced">>)
  /\ MayReplace("PushCommandAndSync", <<"wake", "spin_check", "synced">>)
  /\ MayReplace("wrap", <<"alloc">>)
BY DEF MayReplace, IsStack, Within, MayBeBelow, Points, CommandPoints, AllocPoints, WakePoints,
       Pushes, ShutdownPoints, Quiet

\* Once the shutdown command is in the ring, the thread is joined and that is all.
LEMMA ShutdownPushed ==
  ASSUME StackInv, cmd.type = "Shutdown", UNCHANGED cmd,
         At("PushCommandAndWakeThread"), Goto(<<"wake">>)
  PROVE  ShutdownIsPushed'
<1>1. /\ core # <<>> /\ Head(core) = "PushCommandAndWakeThread"
      /\ core' = <<"wake">> \o Tail(core)
      /\ IsStack(core) /\ core \in Seq(Points) /\ Within(core, ShutdownPoints)
  BY DEF StackInv, IsStack, At, Goto
<1>2. MayReplace("PushCommandAndWakeThread", <<"wake">>)
  BY PushReplacements
<1>3. Len(core) \in Nat \ {0} /\ core[1] = "PushCommandAndWakeThread"
  BY <1>1
<1>4. ~(Len(core) > 2) /\ (Len(core) > 1 => core[2] \in {"join", "joined"})
  <2>1. Len(core) > 1 => MayBeBelow(core[1], core[2]) /\ core[2] \in ShutdownPoints
    BY <1>1, <1>3 DEF IsStack, Within
  <2>2. Len(core) > 1 => core[2] \in {"join", "joined"}
    BY <1>3, <2>1
       DEF MayBeBelow, ShutdownPoints, Quiet, AllocPoints, WakePoints, Pushes
  <2>3. Len(core) > 2 => MayBeBelow(core[2], core[3]) /\ Len(core) > 1
    BY <1>1, <1>3 DEF IsStack
  <2> QED
    BY <2>2, <2>3 DEF MayBeBelow
<1>5. /\ Len(core') = Len(core)
      /\ core'[1] = "wake"
      /\ \A k : Len(core) > 1 /\ k = 1 + 2 - 1 => core'[k] = core[2]
  <2> DEFINE points == <<"wake">>
  <2>1. IsStack(points) /\ points # <<>> /\ Len(points) = 1 /\ points[1] = "wake"
        /\ \A y : MayBeBelow(Head(core), y) => MayBeBelow(points[Len(points)], y)
    BY <1>1, <1>2 DEF MayReplace
  <2> HIDE DEF points
  <2>2. /\ Len(points \o Tail(core)) = Len(points) + Len(core) - 1
        /\ \A i \in 1 .. Len(points) : (points \o Tail(core))[i] = points[i]
        /\ \A i \in 2 .. Len(core) : (points \o Tail(core))[Len(points) + i - 1] = core[i]
    BY <1>1, <2>1, Replaced
  <2>3. core' = points \o Tail(core)
    BY <1>1 DEF points
  <2> QED
    BY <1>3, <2>1, <2>2, <2>3
<1>6. Len(core) > 1 => core'[2] = core[2]
  BY <1>5
<1>7. Within(core', Quiet)
  BY <1>3, <1>4, <1>5, <1>6 DEF Within, Quiet
<1> QED
  BY <1>7 DEF ShutdownIsPushed

\* Publishing a command makes the writer's chain longer.
LEMMA PublishKeeps ==
  ASSUME Inv, NEW push \in Pushes, NEW points, Publish(push, points),
         MayReplace(push, points), points[1] # "wrap",
         ~(Len(points) > 1 /\ points[2] = "unprocessed_load"),
         push = "PushCommandAndWakeThread" => points = <<"wake">>
  PROVE  Inv'
<1> DEFINE W == command_fifo_write_ptr
           R == command_fifo_read_ptr
<1>1. /\ core # <<>> /\ Head(core) = push /\ Goto(points) /\ At(push)
      /\ UNCHANGED <<R, command_fifo_data, videoVars, cmd>>
      /\ W' = (W + cmd.size) % COMMAND_QUEUE_SIZE /\ issued' = issued + 1
  BY DEF Publish, At, coreLocals
<1>2. Room /\ Filled
  BY <1>1 DEF Inv, AllocInv
<1>3. push \in Points /\ push \in CommandPoints /\ push \notin Quiet
      /\ (push \in ShutdownPoints => push = "PushCommandAndWakeThread")
      /\ push \notin {"reset_read_ptr", "unprocessed_load", "wrap"} \cup WakePoints
  BY DEF Pushes, Points, CommandPoints, Quiet, ShutdownPoints, AllocPoints, WakePoints
<1>4. 1 \in 1 .. Len(core) /\ core[1] = push
  BY <1>1 DEF Inv, StackInv, IsStack
<1>5. /\ cmd.type \notin {"Body", "Wraparound"}
      /\ cmd.type \in {"Call", "Create", "Destroy", "Shutdown"}
  BY <1>3, <1>4 DEF Inv, StackInv, Within, Types, Commands
<1>6. /\ W \in Nat /\ R \in Nat /\ W < COMMAND_QUEUE_SIZE /\ R < COMMAND_QUEUE_SIZE
      /\ COMMAND_QUEUE_SIZE \in Nat /\ cmd.size \in Nat \ {0}
  BY <1>5, QueueAssumption DEF Inv, Types, Commands
<1>7. W' = W + cmd.size /\ W + cmd.size < COMMAND_QUEUE_SIZE
  <2>1. \A a \in Nat, b \in Nat \ {0} : a < b => a % b = a
    OBVIOUS
  <2>2. W + cmd.size < COMMAND_QUEUE_SIZE
    BY <1>2 DEF Room
  <2>3. COMMAND_QUEUE_SIZE \in Nat \ {0} /\ W + cmd.size \in Nat
    BY <1>6, QueueAssumption
  <2> QED
    BY <1>1, <2>1, <2>2, <2>3
<1>8. Types'
  <2>1. W' \in 0 .. COMMAND_QUEUE_SIZE - 1
    BY <1>6, <1>7
  <2>2. issued' \in Nat
    BY <1>1 DEF Inv, Types
  <2> QED
    BY <1>1, <2>1, <2>2 DEF Inv, Types
<1>9. /\ StackInv'
      /\ core' # <<>> /\ Head(core') = points[1]
      /\ Len(core') > 1 /\ core'[2] = "unprocessed_load" =>
           Len(core) > 1 /\ core[2] = "unprocessed_load"
  BY <1>1, StackGoes DEF Inv
<1>10. AllocInv'
  <2>1. Len(core) > 1 => MayBeBelow(push, core[2])
    BY <1>4 DEF Inv, StackInv, IsStack
  <2>2. ~(Len(core) > 1 /\ core[2] = "unprocessed_load")
    BY <1>3, <2>1 DEF MayBeBelow
  <2>3. points[1] \notin {"fill", "reset_read_ptr", "unprocessed_load", "wrap"} \cup Pushes
    BY DEF MayReplace
  <2> QED
    BY <1>9, <2>2, <2>3 DEF AllocInv, At
<1>11. ~ShutdownIsPushed /\ Last = {} /\ ~At("reset_read_ptr")
  BY <1>1, <1>3, <1>4 DEF ShutdownIsPushed, Within, Last, At
<1>12. cmd.type = "Shutdown" => W' \in Last'
  <2>1. ASSUME cmd.type = "Shutdown" PROVE push \in ShutdownPoints
    BY <1>4, <2>1 DEF Inv, StackInv, Within
  <2>2. cmd.type = "Shutdown" => ShutdownIsPushed'
    BY <1>1, <1>3, <2>1, ShutdownPushed DEF Inv
  <2> QED
    BY <2>2 DEF Last
<1>13. \A begin \in Nat : Chain(begin, W) => Chain(begin, W)'
  <2> SUFFICES ASSUME NEW begin \in Nat, IsChain(command_fifo_data, begin, W, {})
               PROVE  IsChain(command_fifo_data, begin, W + cmd.size, Last')
    BY <1>1, <1>7, <1>11 DEF Chain
  <2>1. /\ command_fifo_data[W].size = cmd.size
        /\ command_fifo_data[W].type \notin {"Body", "Wraparound"}
        /\ command_fifo_data[W].type = "Shutdown" => W + cmd.size \in Last'
        /\ \A k \in W + 1 .. W + cmd.size - 1 : ~IsHeader(command_fifo_data, k)
    BY <1>2, <1>5, <1>7, <1>12 DEF Filled
  <2> QED
    BY <1>6, <2>1, ChainGrows
<1>14. \A begin \in Nat : \A p : On(p, begin, W) => On(p, begin, W)'
  <2>1. IsHeader(command_fifo_data, W)
    BY <1>2, <1>5 DEF Filled, IsHeader
  <2>2. \A begin \in Nat : \A p \in begin .. W :
          p \in begin .. W + cmd.size /\ (p < W \/ p = W)
    BY <1>6
  <2> QED
    BY <1>1, <1>7, <2>1, <2>2 DEF On, OnChain
<1>15. ASSUME Straight PROVE Straight'
  <2>1. Chain(R, W)'
    BY <1>1, <1>6, <1>13, <1>15 DEF Straight
  <2>2. \A p, q : On(p, R, q) => On(p, R, q)'
    BY <1>1 DEF On
  <2> QED
    BY <1>1, <1>6, <1>14, <1>15, <2>1, <2>2 DEF Straight, videoVars, videoLocals
<1>16. ASSUME NEW w \in 0 .. COMMAND_QUEUE_SIZE - 1, Wrapped(w) PROVE Wrapped(w)'
  <2>1. W + cmd.size < R
    BY <1>2, <1>6, <1>16 DEF Wrapped, Room
  <2>2. Chain(0, W)'
    BY <1>13, <1>16 DEF Wrapped
  <2>3. Chain(R, w)'
    <3>1. IsChain(command_fifo_data, R, w, {})
      BY <1>11, <1>16 DEF Wrapped, Chain
    <3>2. IsChain(command_fifo_data, R, w, Last')
      BY <1>6, <3>1, ChainKept
    <3> QED
      BY <1>1, <3>2 DEF Chain
  <2> QED
    BY <1>1, <1>6, <1>7, <1>14, <1>16, <2>1, <2>2, <2>3 DEF Wrapped, videoVars, videoLocals, On
<1> QED
  BY <1>8, <1>9, <1>10, <1>11, <1>15, <1>16 DEF Inv, RingInv, Resetting

\* The three functions that push.
LEMMA PushKeeps == ASSUME Inv, Push PROVE Inv'
<1>1. ASSUME NEW push \in {"PushCommand", "PushCommandAndWakeThread", "PushCommandAndSync"},
             PushDirectly(push)
      PROVE  Inv'
  BY <1>1, PushDirectlyKeeps DEF Pushes
<1>2. CASE Publish("PushCommand", <<"threshold">>)
  BY <1>2, PublishKeeps, PushReplacements DEF Pushes
<1>3. CASE Publish("PushCommandAndWakeThread", <<"wake">>)
  BY <1>3, PublishKeeps, PushReplacements DEF Pushes
<1>4. CASE Publish("PushCommandAndSync", <<"wake", "sync_load", "synced">>)
  BY <1>4, PublishKeeps, PushReplacements DEF Pushes
<1>5. CASE Publish("PushCommandAndSync", <<"wake", "spin_check", "synced">>)
  BY <1>5, PublishKeeps, PushReplacements DEF Pushes
<1> QED
  BY <1>1, <1>2, <1>3, <1>4, <1>5, Concatenations DEF Push, Sync

\* The wraparound ends the lap of the reader, and the writer starts the next one.
LEMMA WrapKeeps == ASSUME Inv, Wrap PROVE Inv'
<1> DEFINE W == command_fifo_write_ptr
           R == command_fifo_read_ptr
           dummy == Command("Wraparound", COMMAND_QUEUE_SIZE - W)
<1>1. /\ core # <<>> /\ Head(core) = "wrap" /\ Goto(<<"alloc">>) /\ At("wrap")
      /\ UNCHANGED <<R, videoVars, cmd, issued>>
      /\ command_fifo_data' = Store(W, dummy) /\ W' = 0
  BY DEF Wrap, At, coreLocals, history
<1>2. /\ W \in Nat /\ R \in Nat /\ W < COMMAND_QUEUE_SIZE /\ R < COMMAND_QUEUE_SIZE
      /\ COMMAND_QUEUE_SIZE \in Nat /\ R <= W /\ R # 0
  BY <1>1, QueueAssumption DEF Inv, Types, AllocInv
<1>3. /\ StackInv'
      /\ core' # <<>> /\ Head(core') = "alloc"
      /\ Len(core') > 1 /\ core'[2] = "unprocessed_load" =>
           Len(core) > 1 /\ core[2] = "unprocessed_load"
  BY <1>1, StackGoes, PushReplacements DEF Inv
<1>4. AllocInv'
  <2>1. Len(core) > 1 => MayBeBelow("wrap", core[2])
    BY <1>1 DEF Inv, StackInv, IsStack
  <2>2. ~(Len(core) > 1 /\ core[2] = "unprocessed_load")
    BY <2>1 DEF MayBeBelow, WakePoints
  <2> QED
    BY <1>3, <2>2 DEF AllocInv, At, Pushes
<1>5. Last = {} /\ ~At("reset_read_ptr")
  <2>1. 1 \in 1 .. Len(core) /\ core[1] \notin Quiet
    BY <1>1 DEF Quiet, Inv, StackInv, IsStack
  <2>2. ~Within(core, Quiet)
    BY <2>1 DEF Within
  <2> QED
    BY <1>1, <2>2 DEF ShutdownIsPushed, Last, At
<1>6. dummy \in Commands /\ dummy.type = "Wraparound" /\ dummy.size = COMMAND_QUEUE_SIZE - W
  BY <1>2 DEF Commands, Command
<1>7. Types'
  <2>1. Body \in Commands
    BY DEF Body, Command, Commands
  <2>2. command_fifo_data' \in [0 .. COMMAND_QUEUE_SIZE - 1 -> Commands]
    BY <1>1, <1>6, <2>1 DEF Store, Inv, Types
  <2>3. W' \in 0 .. COMMAND_QUEUE_SIZE - 1
    BY <1>1, <1>2
  <2> QED
    BY <1>1, <2>2, <2>3 DEF Inv, Types
<1>8. /\ WraparoundAt(command_fifo_data', W)
      /\ \A o \in R .. W - 1 : command_fifo_data'[o] = command_fifo_data[o]
  BY <1>1, <1>2, <1>6 DEF Store, WraparoundAt
<1>9. Straight
  BY <1>2, <1>5 DEF Inv, RingInv, Wrapped, Resetting
<1>10. IsChain(command_fifo_data', R, W, Last')
  <2>1. IsChain(command_fifo_data, R, W, {})
    BY <1>5, <1>9 DEF Straight, Chain
  <2>2. R \in Nat /\ W \in Nat
    BY <1>2
  <2>3. \A o \in R .. W - 1 : command_fifo_data'[o] = command_fifo_data[o]
    BY <1>8
  <2> QED
    BY <2>1, <2>2, <2>3, ChainKept
<1>11. IsChain(command_fifo_data', 0, 0, Last')
  BY DEF IsChain
<1>12. \A p : On(p, R, W) => OnChain(command_fifo_data', p, R, W)
  BY <1>2, <1>8 DEF On, OnChain, IsHeader
<1>13. ASSUME video = "execute"
       PROVE  /\ OnChain(command_fifo_data', read_ptr, R, W)
              /\ OnChain(command_fifo_data', write_ptr, read_ptr, W)
  <2>1. On(write_ptr, R, W) /\ On(read_ptr, R, write_ptr)
    BY <1>9, <1>13 DEF Straight
  <2>2. On(read_ptr, R, W) /\ On(write_ptr, read_ptr, W)
    BY <1>2, <2>1 DEF On, OnChain
  <2>3. OnChain(command_fifo_data', read_ptr, R, W) /\ OnChain(command_fifo_data', write_ptr, R, W)
    BY <1>12, <2>1, <2>2
  <2> QED
    BY <2>2, <2>3 DEF On, OnChain
<1>14. ASSUME NEW w \in 0 .. COMMAND_QUEUE_SIZE - 1, w = W PROVE Wrapped(w)'
  <2>1. /\ (video = "load_read_ptr" => On(write_ptr, R, W)) /\ video # "wrap_publish"
    BY <1>9 DEF Straight
  <2>2. UNCHANGED <<video, write_ptr, read_ptr>>
    BY <1>1 DEF videoVars, videoLocals
  <2> QED
    BY <1>1, <1>2, <1>8, <1>10, <1>11, <1>12, <1>13, <1>14, <2>1, <2>2 DEF Wrapped, Chain, On
<1> QED
  <2>1. W \in 0 .. COMMAND_QUEUE_SIZE - 1
    BY <1>2
  <2>2. RingInv'
    BY <1>14, <2>1 DEF RingInv
  <2> QED
    BY <1>3, <1>4, <1>7, <2>2 DEF Inv

\* The first half of a reset.
LEMMA ResetKeeps == ASSUME Inv, ResetIsSafe, Reset PROVE Inv'
<1>1. /\ core # <<>> /\ Head(core) = "reset" /\ Return /\ At("reset")
      /\ command_fifo_write_ptr' = 0
      /\ UNCHANGED <<command_fifo_read_ptr, command_fifo_data, videoVars, cmd, issued>>
  BY DEF Reset, At, coreLocals, history
<1>2. /\ StackInv'
      /\ ShutdownIsPushed => ShutdownIsPushed'
      /\ ~(Len(core') > 1 /\ core'[2] = "unprocessed_load")
      /\ \A x : At(x)' => MayBeBelow("reset", x)
  BY <1>1, StackReturns DEF Inv
<1>3. At("reset_read_ptr")'
  <2>1. Len(core) \in Nat \ {0} /\ core[1] = "reset" /\ core \in Seq(Points)
    BY <1>1 DEF Inv, StackInv, IsStack
  <2>2. Len(core) > 1
    BY <1>1, <2>1 DEF Inv, StackInv, IsStack
  <2>3. MayBeBelow(core[1], core[2])
    BY <2>1, <2>2 DEF Inv, StackInv, IsStack
  <2>4. core' # <<>> /\ Head(core') = core[2]
    <3>1. Len(core') = Len(core) - 1 /\ \A i \in 1 .. Len(core) - 1 : core'[i] = core[i + 1]
      BY <1>1, Popped DEF Return, Inv, StackInv
    <3>2. Len(core') > 0 /\ core'[1] = core[2] /\ core' \in Seq(Points)
      BY <1>2, <2>1, <2>2, <3>1 DEF StackInv, IsStack
    <3> QED
      BY <3>2
  <2> QED
    BY <2>1, <2>3, <2>4 DEF At, MayBeBelow
<1>4. \A x : At(x)' => x = "reset_read_ptr"
  BY <1>3 DEF At
<1>5. Types'
  BY <1>1, QueueAssumption DEF Inv, Types
<1>6. CASE video \in {"sleep_post", "sleep_wait"}
  <2>1. Resetting'
    BY <1>1, <1>3, <1>6 DEF Resetting, videoVars
  <2>2. AllocInv'
    BY <1>1, <1>2, <1>4, <2>1 DEF AllocInv, Pushes
  <2> QED
    BY <1>2, <1>5, <2>1, <2>2 DEF Inv, RingInv
<1>7. CASE command_fifo_write_ptr = 0 /\ command_fifo_read_ptr = 0
  <2>1. AllocInv'
    BY <1>1, <1>2, <1>4, <1>7 DEF AllocInv, Pushes
  <2>2. ~At("reset_read_ptr") /\ UNCHANGED <<ring, videoVars>>
    BY <1>1, <1>7 DEF At, ring
  <2>3. /\ issued' \in Nat /\ cmd' \in Commands /\ cmd'.type # "Wraparound"
        /\ (cmd'.type # "Body" => cmd'.size > 0)
    BY <1>5 DEF Types
  <2> QED
    BY <1>2, <2>1, <2>2, <2>3, CoreKeeps
<1> QED
  BY <1>1, <1>6, <1>7 DEF ResetIsSafe

\* The second half.
LEMMA ResetReadPtrKeeps == ASSUME Inv, ResetReadPtr PROVE Inv'
<1>1. /\ core # <<>> /\ Head(core) = "reset_read_ptr" /\ Return /\ At("reset_read_ptr")
      /\ command_fifo_read_ptr' = 0
      /\ UNCHANGED <<command_fifo_write_ptr, command_fifo_data, videoVars, cmd, issued>>
  BY DEF ResetReadPtr, At, coreLocals, history
<1>2. /\ StackInv'
      /\ ~(Len(core') > 1 /\ core'[2] = "unprocessed_load")
      /\ \A x : At(x)' => MayBeBelow("reset_read_ptr", x)
  BY <1>1, StackReturns DEF Inv
<1>3. Types'
  BY <1>1, QueueAssumption DEF Inv, Types
<1>4. AllocInv'
  <2>1. ~At("unprocessed_load")' /\ ~At("wrap")' /\ ~At("fill")' /\ ~At("reset_read_ptr")'
        /\ \A push \in Pushes : ~At(push)'
    BY <1>2 DEF MayBeBelow, WakePoints, AllocPoints
  <2> QED
    BY <1>2, <2>1 DEF AllocInv
<1>5. command_fifo_write_ptr = 0 /\ (command_fifo_read_ptr = 0 \/ Resetting)
  BY <1>1 DEF Inv, AllocInv
<1>6. Chain(command_fifo_read_ptr, command_fifo_write_ptr)'
  BY <1>1, <1>5 DEF Chain, IsChain
<1>7. Resetting => Straight'
  BY <1>1, <1>6 DEF Resetting, Straight, videoVars
<1>8. Straight /\ command_fifo_read_ptr = 0 => Straight'
  BY <1>1, <1>6 DEF Straight, On, videoVars, videoLocals
<1>9. Straight'
  BY <1>5, <1>7, <1>8 DEF Inv, RingInv, Wrapped, Types
<1> QED
  BY <1>2, <1>3, <1>4, <1>9 DEF Inv, RingInv

-----------------------------------------------------------------------------
(* The steps of the video thread. *)

\* What is only the core thread's stays as it is.
LEMMA CoreWaits ==
  ASSUME Inv, UNCHANGED <<command_fifo_write_ptr, command_fifo_data, core, cmd, issued>>,
         command_fifo_read_ptr' \in 0 .. COMMAND_QUEUE_SIZE - 1
  PROVE  /\ Types' /\ StackInv' /\ Last' = Last
         /\ \A begin, end : Chain(begin, end) => Chain(begin, end)'
         /\ \A p, begin, end : On(p, begin, end) => On(p, begin, end)'
<1>1. Types' /\ StackInv'
  BY DEF Inv, Types, StackInv
<1>2. Last' = Last
  BY DEF Last, ShutdownIsPushed
<1> QED
  BY <1>1, <1>2 DEF Chain, On

\* While the reader moves, what AllocateCommand has found out stays true.
LEMMA ReaderMoves ==
  ASSUME Types, AllocInv, ~Resetting,
         UNCHANGED <<command_fifo_write_ptr, command_fifo_data, core, cmd>>,
         command_fifo_read_ptr' \in Nat,
         \/ /\ command_fifo_read_ptr <= command_fifo_read_ptr'
            /\ command_fifo_read_ptr' <= command_fifo_write_ptr
         \/ /\ command_fifo_write_ptr < command_fifo_read_ptr
            /\ command_fifo_read_ptr' = 0 \/ command_fifo_read_ptr <= command_fifo_read_ptr'
  PROVE  AllocInv'
<1> DEFINE W == command_fifo_write_ptr
           R == command_fifo_read_ptr
<1>1. W \in Nat /\ R \in Nat /\ R' \in Nat /\ cmd.size \in Nat
  BY QueueAssumption DEF Types, Commands
<1>2. R <= W => R' <= W /\ (R # 0 => R' # 0)
  BY <1>1
<1>3. R \notin W + 1 .. W + cmd.size => R' \notin W + 1 .. W + cmd.size
  BY <1>1
<1>4. Room => Room'
  BY <1>3 DEF Room
<1>5. W = 0 /\ R = 0 => R' = 0
  BY <1>1
<1> QED
  BY <1>2, <1>4, <1>5 DEF AllocInv, At, Filled

\* Neither the ring nor a pointer into it changes; the thread may leave its sleep.
LEMMA ElsewhereKeeps ==
  ASSUME Inv, ResetIsSafe', UNCHANGED <<ring, core, cmd, issued>>,
         video' \notin {"load_read_ptr", "execute", "wrap_publish"}
  PROVE  Inv'
<1> USE DEF ring
<1>1. /\ Types' /\ StackInv'
      /\ \A begin, end : Chain(begin, end) => Chain(begin, end)'
  BY CoreWaits DEF Inv, Types
<1>2. Straight => Straight'
  BY <1>1 DEF Straight
<1>3. \A w \in 0 .. COMMAND_QUEUE_SIZE - 1 : Wrapped(w) => Wrapped(w)'
  BY <1>1 DEF Wrapped
<1>4. Resetting => Resetting' \/ (Straight' /\ command_fifo_read_ptr = 0)
  <2> SUFFICES ASSUME Resetting, video' \notin {"sleep_post", "sleep_wait"}
               PROVE  Straight' /\ command_fifo_read_ptr = 0
    BY DEF Resetting, At
  <2>1. command_fifo_write_ptr = 0 /\ command_fifo_read_ptr = 0
    BY DEF Resetting, ResetIsSafe, At
  <2>2. Chain(0, 0)'
    BY DEF Chain, IsChain
  <2> QED
    BY <2>1, <2>2 DEF Straight
<1>5. RingInv'
  BY <1>2, <1>3, <1>4 DEF Inv, RingInv
<1>6. AllocInv'
  BY <1>4 DEF Inv, AllocInv, At, Room, Filled
<1> QED
  BY <1>1, <1>5, <1>6 DEF Inv

\* The steps of SleepThread, and running idle.
LEMMA SleepStepsKeep ==
  ASSUME Inv, ResetIsSafe', DoRunIdle \/ SleepLoad \/ SleepCAS \/ SleepPost \/ SleepWait
  PROVE  Inv'
<1>1. /\ UNCHANGED <<ring, core, cmd, issued>>
      /\ video' \notin {"load_read_ptr", "execute", "wrap_publish"}
  BY DEF DoRunIdle, SleepLoad, SleepCAS, SleepPost, SleepWait, AfterAcknowledge,
         coreVars, coreLocals, history
<1> QED
  BY <1>1, ElsewhereKeeps

\* The first load.
LEMMA LoadWritePtrKeeps == ASSUME Inv, LoadWritePtr PROVE Inv'
<1>1. /\ UNCHANGED <<ring, core, cmd, issued>> /\ video = "load_write_ptr"
      /\ video' = "load_read_ptr" /\ write_ptr' = command_fifo_write_ptr
  BY DEF LoadWritePtr, coreVars, coreLocals, history
<1>2. /\ Types' /\ StackInv'
      /\ \A begin, end : Chain(begin, end) => Chain(begin, end)'
  BY <1>1, CoreWaits DEF Inv, Types, ring
<1>3. AllocInv'
  BY <1>1 DEF Inv, AllocInv, At, Room, Filled, Resetting, ring
<1>4. Straight => Straight'
  <2>1. command_fifo_read_ptr <= command_fifo_write_ptr =>
          On(command_fifo_write_ptr, command_fifo_read_ptr, command_fifo_write_ptr)
    BY DEF On, OnChain, Inv, Types
  <2> QED
    BY <1>1, <1>2, <2>1 DEF Straight, Chain, IsChain, On, ring
<1>5. \A w \in 0 .. COMMAND_QUEUE_SIZE - 1 : Wrapped(w) => Wrapped(w)'
  BY <1>1, <1>2 DEF Wrapped, Inv, Types, ring
<1> QED
  BY <1>1, <1>2, <1>3, <1>4, <1>5 DEF Inv, RingInv, Resetting

\* The second load: the batch is up to the write pointer, or to the end of the ring.
LEMMA LoadReadPtrKeeps == ASSUME Inv, ResetIsSafe', LoadReadPtrOnThread PROVE Inv'
<1> DEFINE W == command_fifo_write_ptr
           R == command_fifo_read_ptr
<1>1. /\ UNCHANGED <<ring, core, cmd, issued>> /\ video = "load_read_ptr" /\ read_ptr' = R
  BY DEF LoadReadPtrOnThread, coreVars, coreLocals, history
<1>2. CASE R = write_ptr
  BY <1>1, <1>2, ElsewhereKeeps DEF LoadReadPtrOnThread
<1>3. CASE R # write_ptr
  <2>1. /\ write_ptr' = IF write_ptr < R THEN COMMAND_QUEUE_SIZE ELSE write_ptr
        /\ video' = "execute"
    BY <1>1, <1>3 DEF LoadReadPtrOnThread
  <2>2. /\ Types' /\ StackInv' /\ W \in Nat /\ R \in Nat
        /\ \A begin, end : Chain(begin, end) => Chain(begin, end)'
        /\ \A p, begin, end : On(p, begin, end) => On(p, begin, end)'
    BY <1>1, CoreWaits DEF Inv, Types, ring
  <2>3. AllocInv'
    BY <1>1 DEF Inv, AllocInv, At, Room, Filled, Resetting, ring
  <2>4. \A end \in Nat : Chain(R, end) => On(R, R, end)
    BY <2>2 DEF Chain, IsChain, On, OnChain
  <2>5. \A end, q \in Nat : Chain(R, end) /\ On(q, R, end) => On(R, R, q)
    BY <2>2 DEF Chain, IsChain, On, OnChain
  <2>6. ASSUME Straight PROVE Straight'
    <3>1. On(write_ptr, R, W) /\ Chain(R, W)
      BY <1>1, <2>6 DEF Straight
    <3>2. write_ptr \in Nat /\ ~(write_ptr < R)
      BY <2>2, <3>1 DEF On, OnChain
    <3>3. On(R, R, write_ptr)
      BY <2>2, <2>5, <3>1, <3>2
    <3> QED
      BY <1>1, <2>1, <2>2, <3>1, <3>2, <3>3 DEF Straight, On, ring
  <2>7. ASSUME NEW w \in 0 .. COMMAND_QUEUE_SIZE - 1, Wrapped(w) PROVE Wrapped(w)'
    <3>1. /\ Chain(R, w) /\ W < R /\ w \in Nat
          /\ On(write_ptr, R, w) \/ write_ptr \in 0 .. W
      BY <1>1, <2>7 DEF Wrapped
    <3>2. On(R, R, w)
      BY <2>4, <3>1
    <3>3. CASE On(write_ptr, R, w)
      <4>1. ~(write_ptr < R)
        BY <2>2, <3>1, <3>3 DEF On, OnChain
      <4>2. UNCHANGED <<command_fifo_write_ptr, command_fifo_read_ptr, command_fifo_data, write_ptr>>
        BY <1>1, <2>1, <4>1 DEF ring
      <4> QED
        BY <1>1, <2>1, <2>2, <2>7, <3>2, <3>3, <4>2 DEF Wrapped, On
    <3>4. CASE write_ptr \in 0 .. W
      <4>1. write_ptr < R
        BY <2>2, <3>1, <3>4
      <4> QED
        BY <1>1, <2>1, <2>2, <2>7, <3>2, <4>1 DEF Wrapped, On, ring
    <3> QED
      BY <3>1, <3>3, <3>4
  <2> QED
    BY <1>1, <2>2, <2>3, <2>6, <2>7 DEF Inv, RingInv, Resetting
<1> QED
  BY <1>2, <1>3

\* The reader goes on by one command.
LEMMA ExecuteCommandKeeps == ASSUME Inv, ExecuteCommand PROVE Inv'
<1> DEFINE W == command_fifo_write_ptr
           R == command_fifo_read_ptr
           data == command_fifo_data
<1>1. /\ UNCHANGED <<ring, core, cmd, issued, write_ptr>> /\ video = "execute" /\ video' = "execute"
      /\ read_ptr < write_ptr /\ data[read_ptr].type # "Wraparound"
      /\ read_ptr' = read_ptr + data[read_ptr].size
  BY DEF ExecuteCommand, NextCommand, coreVars, coreLocals
<1>2. /\ Types' /\ StackInv' /\ W \in Nat /\ R \in Nat
      /\ \A begin, end : Chain(begin, end) => Chain(begin, end)'
      /\ \A p, begin, end : On(p, begin, end) => On(p, begin, end)'
  BY <1>1, CoreWaits DEF Inv, Types, ring
<1>3. AllocInv'
  BY <1>1 DEF Inv, AllocInv, At, Room, Filled, Resetting, ring
\* Wherever the next command is on a chain, the reader gets to the one after it.
<1>4. ASSUME NEW end \in Nat, NEW q, read_ptr < q,
             Chain(R, end), On(read_ptr, R, end), On(q, R, end)
      PROVE  On(read_ptr', R, q) /\ read_ptr' \in Nat
  <2>1. /\ CommandAt(data, read_ptr, end, Last)
        /\ OnChain(data, read_ptr + data[read_ptr].size, R, q)
    BY <1>2, <1>4, ChainNext DEF Chain, On
  <2> QED
    BY <1>1, <1>2, <2>1 DEF On, OnChain
<1>5. ASSUME NEW end \in Nat, NEW p, NEW q, On(p, R, q), On(q, R, end)
      PROVE  On(p, R, end)
  BY <1>2, <1>5 DEF On, OnChain
<1>6. ASSUME Straight PROVE Straight'
  <2>1. Chain(R, W) /\ On(write_ptr, R, W) /\ On(read_ptr, R, write_ptr)
    BY <1>1, <1>6 DEF Straight
  <2>2. On(read_ptr', R, write_ptr)
    BY <1>1, <1>2, <1>4, <1>5, <2>1
  <2> QED
    BY <1>1, <1>2, <2>1, <2>2 DEF Straight, On, ring
<1>7. ASSUME NEW w \in 0 .. COMMAND_QUEUE_SIZE - 1, Wrapped(w) PROVE Wrapped(w)'
  <2>1. /\ Chain(R, w) /\ On(read_ptr, R, w) /\ w \in Nat /\ WraparoundAt(data, w)
        /\ write_ptr = COMMAND_QUEUE_SIZE \/ On(write_ptr, read_ptr, w)
    BY <1>1, <1>7 DEF Wrapped
  <2>2. read_ptr < w /\ read_ptr \in R .. w
    BY <1>1, <2>1 DEF On, OnChain, WraparoundAt
  <2>3. On(w, R, w)
    BY <1>2, <2>2 DEF On, OnChain
  <2>4. On(read_ptr', R, w)
    BY <1>4, <2>1, <2>2, <2>3
  <2>5. ASSUME On(write_ptr, read_ptr, w) PROVE On(write_ptr, read_ptr', w)
    <3>1. On(write_ptr, R, w)
      BY <1>2, <2>2, <2>5 DEF On, OnChain
    <3>2. On(read_ptr', R, write_ptr) /\ read_ptr' \in Nat
      BY <1>1, <1>4, <2>1, <3>1
    <3> QED
      BY <1>2, <2>5, <3>1, <3>2 DEF On, OnChain
  <2> QED
    BY <1>1, <1>2, <1>7, <2>1, <2>4, <2>5 DEF Wrapped, On, ring
<1> QED
  BY <1>1, <1>2, <1>3, <1>6, <1>7 DEF Inv, RingInv, Resetting

\* The reader starts the next lap.
LEMMA ExecuteWraparoundKeeps == ASSUME Inv, ExecuteWraparound PROVE Inv'
<1> DEFINE W == command_fifo_write_ptr
           R == command_fifo_read_ptr
           data == command_fifo_data
<1>1. /\ UNCHANGED <<ring, core, cmd, issued>> /\ video = "execute" /\ video' = "wrap_publish"
      /\ read_ptr < write_ptr /\ data[read_ptr].type = "Wraparound"
      /\ write_ptr' = W /\ read_ptr' = 0
  BY DEF ExecuteWraparound, NextCommand, coreVars, coreLocals, history
<1>2. /\ Types' /\ StackInv' /\ W \in Nat /\ R \in Nat
      /\ \A begin, end : Chain(begin, end) => Chain(begin, end)'
  BY <1>1, CoreWaits DEF Inv, Types, ring
<1>3. AllocInv'
  BY <1>1 DEF Inv, AllocInv, At, Room, Filled, Resetting, ring
\* There is no wraparound on the writer's lap.
<1>4. ~Straight
  <2>1. Straight => On(read_ptr, R, W) /\ read_ptr < W /\ Chain(R, W)
    BY <1>1, <1>2 DEF Straight, On, OnChain
  <2>2. IsHeader(data, read_ptr)
    BY <1>1 DEF IsHeader
  <2>3. Straight => read_ptr \in R .. W - 1
    BY <1>2, <2>1 DEF On, OnChain
  <2>4. Straight => CommandAt(data, read_ptr, W, Last)
    BY <2>1, <2>2, <2>3 DEF Chain, IsChain
  <2> QED
    BY <1>1, <2>4 DEF CommandAt
<1>5. ASSUME NEW w \in 0 .. COMMAND_QUEUE_SIZE - 1, Wrapped(w) PROVE Wrapped(w)'
  <2>1. On(W, 0, W)
    BY <1>2 DEF On, OnChain
  <2> QED
    BY <1>1, <1>2, <1>5, <2>1 DEF Wrapped, On, ring
<1> QED
  BY <1>1, <1>2, <1>3, <1>4, <1>5 DEF Inv, RingInv, Resetting

\* The writer learns of it.
LEMMA WrapPublishKeeps == ASSUME Inv, WrapPublish PROVE Inv'
<1> DEFINE W == command_fifo_write_ptr
           R == command_fifo_read_ptr
<1>1. /\ UNCHANGED <<W, command_fifo_data, core, cmd, issued, write_ptr, read_ptr>>
      /\ video = "wrap_publish" /\ video' = "execute" /\ R' = 0
  BY DEF WrapPublish, coreVars, coreLocals, history, videoLocals
<1>2. R' \in 0 .. COMMAND_QUEUE_SIZE - 1
  BY <1>1, QueueAssumption
<1>3. /\ Types' /\ StackInv' /\ W \in Nat /\ R \in Nat
      /\ \A begin, end : Chain(begin, end) => Chain(begin, end)'
      /\ \A p, begin, end : On(p, begin, end) => On(p, begin, end)'
  BY <1>1, <1>2, CoreWaits DEF Inv, Types
<1>4. PICK w \in 0 .. COMMAND_QUEUE_SIZE - 1 : Wrapped(w)
  BY <1>1 DEF Inv, RingInv, Straight, Resetting
<1>5. W < R /\ Chain(0, W) /\ read_ptr = 0 /\ On(write_ptr, 0, W)
  BY <1>1, <1>4 DEF Wrapped
<1>6. AllocInv'
  BY <1>1, <1>3, <1>5, ReaderMoves DEF Inv, Resetting
<1>7. On(0, 0, write_ptr)
  BY <1>3, <1>5 DEF Chain, IsChain, On, OnChain
<1>8. Straight'
  BY <1>1, <1>3, <1>5, <1>7 DEF Straight
<1> QED
  BY <1>3, <1>6, <1>8 DEF Inv, RingInv

\* The read pointer is published at the reader's place on its chain.
LEMMA PublishedKeeps ==
  ASSUME Inv, UNCHANGED <<command_fifo_write_ptr, command_fifo_data, core, cmd, issued>>,
         video = "execute", video' \notin {"load_read_ptr", "execute", "wrap_publish"},
         Straight =>
           On(command_fifo_read_ptr', command_fifo_read_ptr, command_fifo_write_ptr),
         \A w \in 0 .. COMMAND_QUEUE_SIZE - 1 :
           Wrapped(w) => On(command_fifo_read_ptr', command_fifo_read_ptr, w)
  PROVE  Inv'
<1> DEFINE W == command_fifo_write_ptr
           R == command_fifo_read_ptr
<1>1. /\ W \in 0 .. COMMAND_QUEUE_SIZE - 1
      /\ R \in 0 .. COMMAND_QUEUE_SIZE - 1
      /\ COMMAND_QUEUE_SIZE \in Nat
  BY QueueAssumption DEF Inv, Types
<1>2. ~Resetting
  BY DEF Resetting
<1>3. ASSUME NEW end \in 0 .. COMMAND_QUEUE_SIZE - 1, Chain(R, end), On(R', R, end),
             R' \in 0 .. COMMAND_QUEUE_SIZE - 1
      PROVE  Chain(R', end)
  BY <1>1, <1>3, ChainFrom DEF Chain, On
<1>4. CASE Straight
  <2>1. On(R', R, W) /\ Chain(R, W)
    BY <1>4 DEF Straight
  <2>2. R' \in 0 .. COMMAND_QUEUE_SIZE - 1 /\ R <= R' /\ R' <= W
    BY <1>1, <2>1 DEF On, OnChain
  <2>3. Types' /\ StackInv' /\ \A begin, end : Chain(begin, end) => Chain(begin, end)'
    BY <2>2, CoreWaits
  <2>4. AllocInv'
    BY <1>2, <2>2, ReaderMoves DEF Inv
  <2>5. Chain(R, W)'
    <3>1. IsChain(command_fifo_data, R', W, Last)
      BY <1>1, <1>3, <2>1, <2>2 DEF Chain
    <3>2. Last' = Last
      BY DEF Last, ShutdownIsPushed
    <3> QED
      BY <3>1, <3>2 DEF Chain
  <2> QED
    BY <2>3, <2>4, <2>5 DEF Inv, RingInv, Straight
<1>5. ASSUME NEW w \in 0 .. COMMAND_QUEUE_SIZE - 1, Wrapped(w) PROVE Inv'
  <2>1. On(R', R, w) /\ Chain(R, w) /\ W < R /\ w \in R .. COMMAND_QUEUE_SIZE - 1
    BY <1>5 DEF Wrapped
  <2>2. R' \in 0 .. COMMAND_QUEUE_SIZE - 1 /\ R <= R' /\ R' <= w
    BY <1>1, <2>1 DEF On, OnChain
  <2>3. Types' /\ StackInv' /\ \A begin, end : Chain(begin, end) => Chain(begin, end)'
    BY <2>2, CoreWaits
  <2>4. AllocInv'
    BY <1>2, <2>1, <2>2, ReaderMoves DEF Inv
  <2>5. IsChain(command_fifo_data', R', w, Last')
    <3>1. IsChain(command_fifo_data, R', w, Last)
      BY <1>1, <1>3, <2>1, <2>2 DEF Chain
    <3>2. Last' = Last
      BY DEF Last, ShutdownIsPushed
    <3> QED
      BY <3>1, <3>2
  <2>6. Wrapped(w)'
    BY <1>1, <1>5, <2>1, <2>2, <2>3, <2>5 DEF Wrapped, Chain
  <2> QED
    BY <2>3, <2>4, <2>6 DEF Inv, RingInv
<1> QED
  BY <1>2, <1>4, <1>5 DEF Inv, RingInv

\* The batch is done.
LEMMA PublishReadPtrKeeps == ASSUME Inv, PublishReadPtr PROVE Inv'
<1> DEFINE W == command_fifo_write_ptr
           R == command_fifo_read_ptr
<1>1. /\ UNCHANGED <<W, command_fifo_data, core, cmd, issued>>
      /\ video = "execute" /\ video' = "load_write_ptr"
      /\ read_ptr >= write_ptr /\ R' = read_ptr % COMMAND_QUEUE_SIZE
  BY DEF PublishReadPtr, coreVars, coreLocals, history
<1>2. /\ W \in 0 .. COMMAND_QUEUE_SIZE - 1
      /\ R \in 0 .. COMMAND_QUEUE_SIZE - 1
      /\ COMMAND_QUEUE_SIZE \in Nat \ {0}
  BY QueueAssumption DEF Inv, Types
<1>3. read_ptr \in Nat /\ read_ptr < COMMAND_QUEUE_SIZE => R' = read_ptr
  <2>1. \A a \in Nat, b \in Nat \ {0} : a < b => a % b = a
    OBVIOUS
  <2> QED
    BY <1>1, <1>2, <2>1
<1>4. ASSUME Straight PROVE On(R', R, W)
  <2>1. On(write_ptr, R, W) /\ On(read_ptr, R, write_ptr)
    BY <1>1, <1>4 DEF Straight
  <2>2. read_ptr = write_ptr /\ read_ptr \in Nat /\ read_ptr < COMMAND_QUEUE_SIZE
    BY <1>1, <1>2, <2>1 DEF On, OnChain
  <2> QED
    BY <1>3, <2>1, <2>2
<1>5. ASSUME NEW w \in 0 .. COMMAND_QUEUE_SIZE - 1, Wrapped(w) PROVE On(R', R, w)
  <2>1. On(read_ptr, R, w)
    BY <1>1, <1>5 DEF Wrapped
  <2>2. read_ptr \in Nat /\ read_ptr < COMMAND_QUEUE_SIZE
    BY <1>2, <2>1 DEF On, OnChain
  <2> QED
    BY <1>3, <2>1, <2>2
<1> QED
  BY <1>1, <1>4, <1>5, PublishedKeeps

\* The thread returns.
LEMMA ExecuteShutdownKeeps == ASSUME Inv, ExecuteShutdown PROVE Inv'
<1> DEFINE W == command_fifo_write_ptr
           R == command_fifo_read_ptr
           data == command_fifo_data
<1>1. /\ UNCHANGED <<W, data, core, cmd, issued>>
      /\ video = "execute" /\ video' = "exited"
      /\ read_ptr < write_ptr /\ data[read_ptr].type = "Shutdown"
      /\ R' = read_ptr + data[read_ptr].size
  BY DEF ExecuteShutdown, NextCommand, coreVars, coreLocals
<1>2. W \in Nat /\ R \in Nat
  BY DEF Inv, Types
<1>3. ASSUME NEW end \in Nat, NEW q, read_ptr < q,
             Chain(R, end), On(read_ptr, R, end), On(q, R, end)
      PROVE  On(R', R, q)
  <2>1. OnChain(data, read_ptr + data[read_ptr].size, R, q)
    BY <1>2, <1>3, ChainNext DEF Chain, On
  <2> QED
    BY <1>1, <2>1 DEF On
<1>4. ASSUME NEW end \in Nat, NEW p, NEW q, On(p, R, q), On(q, R, end)
      PROVE  On(p, R, end)
  BY <1>2, <1>4 DEF On, OnChain
<1>5. ASSUME Straight PROVE On(R', R, W)
  <2>1. Chain(R, W) /\ On(write_ptr, R, W) /\ On(read_ptr, R, write_ptr)
    BY <1>1, <1>5 DEF Straight
  <2> QED
    BY <1>1, <1>2, <1>3, <1>4, <2>1
<1>6. ASSUME NEW w \in 0 .. COMMAND_QUEUE_SIZE - 1, Wrapped(w) PROVE On(R', R, w)
  <2>1. Chain(R, w) /\ On(read_ptr, R, w) /\ WraparoundAt(data, w) /\ w \in Nat
    BY <1>1, <1>6 DEF Wrapped
  <2>2. read_ptr < w /\ On(w, R, w)
    BY <1>1, <1>2, <2>1 DEF On, OnChain, WraparoundAt
  <2> QED
    BY <1>3, <2>1, <2>2
<1> QED
  BY <1>1, <1>5, <1>6, PublishedKeeps

-----------------------------------------------------------------------------
(* The theorems. *)

\* The ring is empty at first.
LEMMA InvInit == Init => Inv
<1> SUFFICES ASSUME Init PROVE Inv
  OBVIOUS
<1>1. Body \in Commands /\ Body.type = "Body"
  BY DEF Body, Command, Commands
<1>2. Types
  BY <1>1, QueueAssumption DEF Init, Types
<1>3. StackInv
  BY <1>1 DEF Init, StackInv, IsStack, Within
<1>4. Chain(0, 0)
  BY DEF Chain, IsChain
<1>5. Straight
  BY <1>4 DEF Init, Straight
<1>6. AllocInv
  BY DEF Init, AllocInv, At
<1> QED
  BY <1>2, <1>3, <1>5, <1>6 DEF Inv, RingInv

\* Every step keeps the invariant, if a reset at it is safe.
LEMMA InvNext == Inv /\ ResetIsSafe /\ ResetIsSafe' /\ [Next]_vars => Inv'
<1> SUFFICES ASSUME Inv, ResetIsSafe, ResetIsSafe', [Next]_vars PROVE Inv'
  OBVIOUS
<1>1. CASE CoreCalls
  BY <1>1, CallsKeep
<1>2. CASE CoreSteps
  <2>1. CASE Alloc
    BY <2>1, AllocKeeps
  <2>2. CASE FullLoad
    BY <2>2, FullLoadKeeps
  <2>3. CASE UnprocessedLoad
    BY <2>3, UnprocessedLoadKeeps
  <2>4. CASE Wrap
    BY <2>4, WrapKeeps
  <2>5. CASE Fill
    BY <2>5, FillKeeps
  <2>6. CASE Push
    BY <2>6, PushKeeps
  <2>7. CASE WaitSteps
    BY <2>7, WaitStepsKeep
  <2>8. CASE Reset
    BY <2>8, ResetKeeps
  <2>9. CASE ResetReadPtr
    BY <2>9, ResetReadPtrKeeps
  <2>10. CASE PushOwn
    BY <2>10, PushOwnKeeps
  <2>11. CASE Join
    BY <2>11, JoinKeeps
  <2> QED
    BY <1>2, <2>1, <2>2, <2>3, <2>4, <2>5, <2>6, <2>7, <2>8, <2>9, <2>10, <2>11
       DEF CoreSteps, WaitSteps
<1>3. CASE VideoSteps
  <2>1. CASE LoadWritePtr
    BY <2>1, LoadWritePtrKeeps
  <2>2. CASE LoadReadPtrOnThread
    BY <2>2, LoadReadPtrKeeps
  <2>3. CASE ExecuteCommand
    BY <2>3, ExecuteCommandKeeps
  <2>4. CASE ExecuteWraparound
    BY <2>4, ExecuteWraparoundKeeps
  <2>5. CASE WrapPublish
    BY <2>5, WrapPublishKeeps
  <2>6. CASE ExecuteShutdown
    BY <2>6, ExecuteShutdownKeeps
  <2>7. CASE PublishReadPtr
    BY <2>7, PublishReadPtrKeeps
  <2>8. CASE DoRunIdle \/ SleepLoad \/ SleepCAS \/ SleepPost \/ SleepWait
    BY <2>8, SleepStepsKeep
  <2> QED
    BY <1>3, <2>1, <2>2, <2>3, <2>4, <2>5, <2>6, <2>7, <2>8 DEF VideoSteps
<1>4. CASE UNCHANGED vars
  <2>1. UNCHANGED <<ring, videoVars, core, cmd, issued>>
    BY <1>4 DEF vars, coreVars, coreLocals, history
  <2>2. UNCHANGED <<command_fifo_write_ptr, command_fifo_read_ptr, command_fifo_data,
                    video, write_ptr, read_ptr>>
    BY <2>1 DEF ring, videoVars, videoLocals
  <2>3. /\ Types' /\ StackInv'
        /\ \A begin, end : Chain(begin, end) => Chain(begin, end)'
        /\ \A p, begin, end : On(p, begin, end) => On(p, begin, end)'
    BY <2>1, <2>2, CoreWaits DEF Inv, Types
  <2>4. AllocInv'
    BY <2>1, <2>2 DEF Inv, AllocInv, At, Room, Filled, Resetting
  <2>5. RingInv'
    BY <2>1, <2>2, <2>3 DEF Inv, RingInv, Straight, Wrapped, Resetting, At
  <2> QED
    BY <2>3, <2>4, <2>5 DEF Inv
<1> QED
  BY <1>1, <1>2, <1>3, <1>4 DEF Next, Terminated

\* The invariant says what the properties say.
LEMMA InvImplies == Inv => AllocationIsFree /\ ReadsHeaders
<1> SUFFICES ASSUME Inv PROVE AllocationIsFree /\ ReadsHeaders
  OBVIOUS
<1> DEFINE W == command_fifo_write_ptr
           R == command_fifo_read_ptr
           data == command_fifo_data
           next == read_ptr + data[read_ptr].size
<1>1. AllocationIsFree
  BY DEF Inv, AllocInv, AllocationIsFree, Room
<1>2. ReadsHeaders
  <2> SUFFICES ASSUME video = "execute", read_ptr < write_ptr
               PROVE  /\ data[read_ptr].type # "Body"
                      /\ next <= COMMAND_QUEUE_SIZE
                      /\ data[read_ptr].type = "Wraparound" => next = COMMAND_QUEUE_SIZE
                      /\ data[read_ptr].type = "Shutdown" => next = write_ptr
    BY DEF ReadsHeaders, NextCommand
  <2>1. /\ W \in Nat /\ R \in Nat /\ COMMAND_QUEUE_SIZE \in Nat
        /\ W < COMMAND_QUEUE_SIZE /\ R < COMMAND_QUEUE_SIZE
    BY QueueAssumption DEF Inv, Types
  <2>2. next \in Last => next = W
    BY DEF Last
  <2>3. CASE Straight
    <3>1. Chain(R, W) /\ On(write_ptr, R, W) /\ On(read_ptr, R, write_ptr)
      BY <2>3 DEF Straight
    <3>2. On(read_ptr, R, W)
      BY <2>1, <3>1 DEF On, OnChain
    <3>3. CommandAt(data, read_ptr, W, Last) /\ OnChain(data, next, R, write_ptr)
      BY <2>1, <3>1, <3>2, ChainNext DEF Chain, On
    <3>4. IsHeader(data, read_ptr)
      BY <3>1 DEF On, OnChain
    <3> QED
      BY <2>1, <2>2, <3>1, <3>3, <3>4 DEF CommandAt, On, OnChain, IsHeader
  <2>4. ASSUME NEW w \in 0 .. COMMAND_QUEUE_SIZE - 1, Wrapped(w)
        PROVE  /\ data[read_ptr].type # "Body"
               /\ next <= COMMAND_QUEUE_SIZE
               /\ data[read_ptr].type = "Wraparound" => next = COMMAND_QUEUE_SIZE
               /\ data[read_ptr].type = "Shutdown" => next = write_ptr
    <3>1. Chain(R, w) /\ On(read_ptr, R, w) /\ WraparoundAt(data, w) /\ W < R /\ w \in Nat
      BY <2>4 DEF Wrapped
    <3>2. CASE read_ptr = w
      BY <2>1, <3>1, <3>2 DEF WraparoundAt
    <3>3. CASE read_ptr < w
      <4>1. IsHeader(data, read_ptr) /\ read_ptr \in R .. w - 1
        BY <2>1, <3>1, <3>3 DEF On, OnChain
      <4>2. CommandAt(data, read_ptr, w, Last)
        BY <3>1, <4>1 DEF Chain, IsChain
      <4> QED
        BY <2>1, <2>2, <2>4, <3>1, <4>1, <4>2 DEF CommandAt, IsHeader
    <3> QED
      BY <2>1, <3>1, <3>2, <3>3 DEF On, OnChain
  <2> QED
    BY <2>3, <2>4 DEF Inv, RingInv, Resetting
<1> QED
  BY <1>1, <1>2

\* Every command between the reader and the writer is whole and followed by the
\* next one, in a ring of any size and with commands of any size, as long as
\* every reset comes when ResetCommandFIFO's assertion says it may.
THEOREM InvAlways == Spec /\ []ResetIsSafe => []Inv
<1>1. Inv /\ ResetIsSafe /\ ResetIsSafe' /\ [Next]_vars => Inv'
  BY InvNext
<1> QED
  BY <1>1, InvInit, PTL DEF Spec

\* So AllocateCommand never hands out memory the video thread has still to read.
THEOREM AllocationIsAlwaysFree == Spec /\ []ResetIsSafe => []AllocationIsFree
  BY InvAlways, InvImplies, PTL

\* And VideoThreadEntryPoint finds a header wherever it looks for one.
THEOREM AlwaysReadsHeaders == Spec /\ []ResetIsSafe => []ReadsHeaders
  BY InvAlways, InvImplies, PTL

-----------------------------------------------------------------------------
(* The stack, more precisely than the ring's proof needs it: the points of  *)
(* a stack have increasing levels, and each has only some directly above it.*)

SyncPoints ==
  {"spin_check", "spin_empty", "spin", "sync_load", "sync_empty", "sync_cas", "sync_wait"}

Level(p) ==
  CASE p \in WakePoints -> 0
    [] p \in AllocPoints -> 1
    [] p = "fill" -> 2
    [] p \in SyncPoints -> 3
    [] p = "synced" -> 4
    [] p \in Pushes \cup {"threshold"} -> 5
    [] p = "read_vram" -> 6
    [] p = "destroy" -> 7
    [] p = "reset" -> 8
    [] p = "reset_read_ptr" -> 9
    [] p = "enable" -> 10
    [] p = "create" -> 11
    [] p = "set_thread_enabled" -> 12
    [] p = "shutdown" -> 13
    [] OTHER -> 14

Above(x, y) ==
  \/ x \in AllocPoints /\ y = "fill"
  \/ x = "fill" /\ y \in Pushes
  \/ x \in WakePoints /\ y \in {"full_load", "unprocessed_load"}
  \/ x \in {"wake", "wake_post"} /\ y \in {"spin_check", "sync_load", "destroy", "join"}
  \/ x \in SyncPoints /\ y = "synced"
  \/ x = "synced" /\ y \in {"set_thread_enabled", "reset", "shutdown"}
  \/ x \in {"read_vram", "PushCommand", "threshold"} /\ y = "destroy"
  \/ x \in {"destroy", "PushCommandAndSync"} /\ y = "reset"
  \/ x = "reset" /\ y = "reset_read_ptr"
  \/ x = "reset_read_ptr" /\ y \in {"enable", "shutdown"}
  \/ x = "enable" /\ y = "create"
  \/ x \in {"create", "PushCommandAndSync", "set_thread_enabled"} /\ y = "shutdown"
  \/ x \in {"shutdown", "PushCommandAndWakeThread"} /\ y = "join"

Ordered(s) ==
  /\ \A i, j \in 1 .. Len(s) : i < j => Level(s[i]) < Level(s[j])
  /\ \A i \in 1 .. Len(s) - 1 : Above(s[i], s[i + 1])

OrderInv == Ordered(core)

\* The next step of the core thread.
Top == IF core = <<>> THEN "none" ELSE Head(core)

\* A command is on its way into the ring.
Pushing == \E i \in 1 .. Len(core) : core[i] \in Pushes

\* A bound of the commands that are still to be pushed at a point and below.
Rank(p) ==
  CASE p \in {"read_vram", "set_thread_enabled"} -> 4
    [] p = "destroy" -> 3
    [] p = "create" -> 2
    [] p = "shutdown" -> 1
    [] OTHER -> 0

Pushed == issued + (IF Pushing THEN 1 ELSE 0)
BoundInv ==
  /\ Pushed <= MaxCommands + 3
  /\ \A i \in 1 .. Len(core) : Pushed + Rank(core[i]) <= MaxCommands + 3

-----------------------------------------------------------------------------
(* The wake count. *)

Count == thread_wake_count

\* Every wake that finds the video thread awake follows a command of its own.
CountInv ==
  /\ Count >= 0 => Work(Count) <= 2 * issued + 1
  /\ Top \in {"wake", "threshold"} /\ Count >= 0 => Work(Count) + 2 <= 2 * issued + 1

\* The video thread has decided to sleep.
Asleep == video \in {"sleep_post", "sleep_wait"} /\ allow_sleep

\* A thread that sleeps is woken by one post for the wake that finds it so.
SleepInv ==
  /\ Count = SLEEPING \/ Count \in 0 .. 2 * CPU_THREAD_IS_WAITING - 1
  /\ video = "sleep_wait" => allow_sleep
  /\ ~Asleep => Count >= 0 /\ thread_wake_semaphore = 0 /\ Top # "wake_post"
  /\ Asleep /\ Count = SLEEPING => thread_wake_semaphore = 0 /\ Top # "wake_post"
  /\ Asleep /\ Count # SLEEPING =>
       /\ Work(Count) > 0
       /\ \/ thread_wake_semaphore = 1 /\ Top # "wake_post"
          \/ thread_wake_semaphore = 0 /\ Top = "wake_post"
  /\ Top \in {"wake_if_not_empty", "spin_empty", "sync_empty"} => Count = SLEEPING

\* A core thread that waits has set the flag, or it is being released.
FlagInv ==
  /\ Top # "sync_wait" =>
       Count < CPU_THREAD_IS_WAITING /\ thread_is_done_semaphore = 0 /\ video # "sleep_post"
  /\ Top = "sync_wait" =>
       \/ /\ Count >= CPU_THREAD_IS_WAITING
          /\ thread_is_done_semaphore = 0 /\ video # "sleep_post"
       \/ /\ Count < CPU_THREAD_IS_WAITING
          /\ thread_is_done_semaphore = IF video = "sleep_post" THEN 0 ELSE 1
  /\ Top = "sync_cas" => sync_value \in 0 .. CPU_THREAD_IS_WAITING - 1

\* Where nothing has been pushed without a wake.
WokenPoints ==
  SyncPoints \cup {"synced", "wake_post", "set_thread_enabled", "reset", "reset_read_ptr", "enable"}

WokenInv ==
  /\ Top \in WokenPoints => ~unwoken
  /\ ~use_thread => ~unwoken

LocalTypes ==
  /\ unwoken \in BOOLEAN /\ use_thread \in BOOLEAN /\ allow_sleep \in BOOLEAN
  /\ gpu_device \in BOOLEAN /\ run_idle_flag \in BOOLEAN
  /\ write_ptr \in 0 .. COMMAND_QUEUE_SIZE /\ read_ptr \in 0 .. COMMAND_QUEUE_SIZE
  /\ old_state \in SLEEPING .. 2 * CPU_THREAD_IS_WAITING

-----------------------------------------------------------------------------
(* The numbers of the commands. *)

IsCommand(o) == command_fifo_data[o].type \notin {"Body", "Wraparound"}

Unread(o) ==
  IF command_fifo_read_ptr <= command_fifo_write_ptr
    THEN o \in command_fifo_read_ptr .. command_fifo_write_ptr - 1
    ELSE o \in command_fifo_read_ptr .. COMMAND_QUEUE_SIZE - 1 \/ o \in 0 .. command_fifo_write_ptr - 1

\* The number of the command at p, or of the one that will be.
NumberAt(p) ==
  IF p = command_fifo_write_ptr THEN issued + 1
  ELSE IF command_fifo_data[p].type # "Wraparound" THEN command_fifo_data[p].id
  ELSE IF command_fifo_write_ptr = 0 THEN issued + 1 ELSE command_fifo_data[0].id

Position == IF video \in {"execute", "wrap_publish"} THEN read_ptr ELSE command_fifo_read_ptr

\* The unread commands are numbered up to the last one issued, beginning with
\* the next one to be executed; nothing follows a wraparound.
IsNumbered ==
  /\ \A o \in 0 .. COMMAND_QUEUE_SIZE - 1 :
       Unread(o) /\ IsCommand(o) =>
         /\ command_fifo_data[o].id <= issued
         /\ NumberAt(o + command_fifo_data[o].size) = command_fifo_data[o].id + 1
  /\ NumberAt(Position) = Len(executed) + 1
  /\ command_fifo_write_ptr < command_fifo_read_ptr =>
       \A o \in command_fifo_read_ptr .. COMMAND_QUEUE_SIZE - 1 :
         command_fifo_data[o].type = "Wraparound" =>
           \A k \in o + 1 .. COMMAND_QUEUE_SIZE - 1 : ~IsHeader(command_fifo_data, k)

\* The writer waits at 0 only with a command to write there.
NumberInv ==
  /\ executed \in Seq(Nat)
  /\ Top # "reset_read_ptr" => IsNumbered
  /\ \A i \in 1 .. Len(core) : core[i] \in AllocPoints \cup {"fill"} => Pushing
  /\ Top # "reset_read_ptr" /\ command_fifo_write_ptr = 0 /\ command_fifo_read_ptr # 0 => Pushing
  /\ Top \in Pushes => cmd.id = issued + 1 /\ command_fifo_data[command_fifo_write_ptr].id = issued + 1
  /\ cmd.type # "Body" => cmd.size <= COMMAND_QUEUE_SIZE - COMMAND_QUEUE_RESERVED_SPACE

-----------------------------------------------------------------------------
(* Going to sleep, and synchronising. *)

\* A video thread that finds no command to execute has executed all, or will be
\* told of more.
AllDone == Len(executed) = issued \/ unwoken \/ Work(Count) > 0

DrainInv ==
  /\ video \in {"sleep_load", "sleep_cas", "sleep_post", "sleep_wait"} => AllDone
  /\ video = "load_read_ptr" /\ write_ptr = command_fifo_read_ptr => AllDone

Drained ==
  /\ command_fifo_write_ptr = command_fifo_read_ptr /\ Len(executed) = issued
  /\ video \notin {"execute", "wrap_publish"}
  /\ video = "load_read_ptr" => write_ptr = command_fifo_write_ptr

\* The video thread sleeps, or it can see only zeros.
Parked ==
  \/ Asleep /\ Count = SLEEPING
  \/ command_fifo_read_ptr = 0 /\ command_fifo_write_ptr = 0 /\ write_ptr = 0

\* What SyncThread promises.
Synchronized == Drained /\ (gpu_device \/ Parked)

\* A destroy command, once pushed, is the last one to be executed before the
\* reset.
LastIsDestroy ==
  /\ Len(executed) = issued => ~gpu_device
  /\ \A o \in 0 .. COMMAND_QUEUE_SIZE - 1 :
       Unread(o) /\ IsCommand(o) /\ command_fifo_data[o].id = issued =>
         command_fifo_data[o].type = "Destroy"

DestroyInv ==
  \A i \in 1 .. Len(core) - 1 : core[i + 1] = "reset" =>
    /\ core[i] = "PushCommandAndSync" => cmd.type = "Destroy"
    /\ core[i] = "synced" => LastIsDestroy

\* An idle run, which does not sleep, needs a device; without one the thread
\* has read nothing since.
IdleInv ==
  /\ run_idle_flag => gpu_device
  /\ video \in {"sleep_load", "sleep_cas", "sleep_post"} /\ ~allow_sleep /\ ~gpu_device =>
       command_fifo_read_ptr = 0 /\ write_ptr = 0

\* The points at which the thread is not used, and what holds then.
ThreadPoints ==
  WakePoints \cup {"full_load", "unprocessed_load", "wrap", "threshold"}

DirectInv ==
  /\ ~use_thread /\ Top \notin {"reset", "reset_read_ptr"} =>
       Drained /\ Parked /\ command_fifo_read_ptr = 0
  /\ ~use_thread => Top \notin ThreadPoints

SwitchInv ==
  /\ Top \in {"synced", "set_thread_enabled", "reset"} => Synchronized
  /\ Top = "sync_wait" /\ Count < CPU_THREAD_IS_WAITING => Synchronized
  /\ Top = "reset" => ~gpu_device
  /\ Top = "reset_read_ptr" =>
       /\ Len(executed) = issued /\ ~gpu_device
       /\ command_fifo_write_ptr = 0 /\ Parked /\ (Asleep \/ Drained)
  /\ Top = "enable" => Drained /\ Parked /\ command_fifo_read_ptr = 0

WakeInv ==
  /\ OrderInv /\ BoundInv /\ CountInv /\ SleepInv /\ FlagInv /\ WokenInv
  /\ LocalTypes /\ NumberInv /\ DrainInv /\ DestroyInv /\ IdleInv /\ DirectInv /\ SwitchInv

-----------------------------------------------------------------------------
(* Facts about stacks. *)

\* The top is the head.
LEMMA TopIs ==
  ASSUME StackInv
  PROVE  /\ core \in Seq(Points) /\ Len(core) \in Nat
         /\ core = <<>> => Top = "none" /\ Len(core) = 0
         /\ core # <<>> => Len(core) > 0 /\ Top = core[1] /\ Head(core) = core[1] /\ Top \in Points
         /\ \A x : At(x) => Top = x /\ core # <<>>
         /\ \A x \in Points : Top = x => At(x)
<1>1. core \in Seq(Points)
  BY DEF StackInv, IsStack
<1>2. core # <<>> => Len(core) > 0 /\ Head(core) = core[1] /\ core[1] \in Points
  BY <1>1
<1>3. "none" \notin Points
  BY DEF Points, AllocPoints, WakePoints, Pushes
<1> QED
  BY <1>1, <1>2, <1>3 DEF Top, At

\* What a return leaves.
LEMMA Returned ==
  ASSUME StackInv, OrderInv, core # <<>>, Return
  PROVE  /\ OrderInv'
         /\ Len(core') = Len(core) - 1 /\ \A i \in 1 .. Len(core') : core'[i] = core[i + 1]
         /\ Top' = "none" \/ (Top' \in Points /\ Above(Top, Top'))
         /\ core' # <<>> => Len(core') > 0 /\ Top' = core'[1] /\ Top' # "none"
         /\ Top \notin Pushes => (Pushing' <=> Pushing)
<1> DEFINE t == core'
<1>1. core \in Seq(Points) /\ Len(core) \in Nat \ {0} /\ Top = core[1]
  BY TopIs
<1>2. t \in Seq(Points) /\ Len(t) = Len(core) - 1 /\ \A i \in 1 .. Len(core) - 1 : t[i] = core[i + 1]
  BY <1>1, HeadTailProperties DEF Return
<1>3. OrderInv'
  <2>1. ASSUME NEW i \in 1 .. Len(t), NEW j \in 1 .. Len(t), i < j PROVE Level(t[i]) < Level(t[j])
    <3>1. i + 1 \in 1 .. Len(core) /\ j + 1 \in 1 .. Len(core) /\ i + 1 < j + 1
      BY <1>1, <1>2, <2>1
    <3>2. Level(core[i + 1]) < Level(core[j + 1])
      BY <3>1 DEF OrderInv, Ordered
    <3> QED
      BY <1>1, <1>2, <3>2
  <2>2. ASSUME NEW i \in 1 .. Len(t) - 1 PROVE Above(t[i], t[i + 1])
    <3>1. i + 1 \in 1 .. Len(core) - 1
      BY <1>1, <1>2
    <3>2. Above(core[i + 1], core[i + 1 + 1])
      BY <3>1 DEF OrderInv, Ordered
    <3> QED
      BY <1>1, <1>2, <3>2
  <2> QED
    BY <2>1, <2>2 DEF OrderInv, Ordered
<1>4. Top' = "none" \/ (Top' \in Points /\ Above(Top, Top'))
  <2>1. CASE t = <<>>
    BY <2>1 DEF Top
  <2>2. CASE t # <<>>
    <3>1. Len(t) \in Nat \ {0} /\ Top' = t[1] /\ t[1] \in Points
      BY <1>2, <2>2 DEF Top
    <3>2. t[1] = core[2] /\ 1 \in 1 .. Len(core) - 1
      BY <1>1, <1>2, <3>1
    <3>3. Above(core[1], core[1 + 1])
      BY <3>2 DEF OrderInv, Ordered
    <3> QED
      BY <1>1, <3>1, <3>2, <3>3
  <2> QED
    BY <2>1, <2>2
<1>6. core' # <<>> => Len(core') > 0 /\ Top' = core'[1] /\ Top' # "none"
  <2> SUFFICES ASSUME t # <<>> PROVE Len(t) > 0 /\ Top' = t[1] /\ Top' # "none"
    OBVIOUS
  <2>1. Len(t) > 0 /\ Head(t) = t[1] /\ t[1] \in Points
    BY <1>2
  <2>2. "none" \notin Points
    BY DEF Points, AllocPoints, WakePoints, Pushes
  <2> QED
    BY <2>1, <2>2 DEF Top
<1>5. ASSUME Top \notin Pushes PROVE Pushing' <=> Pushing
  <2>1. ASSUME NEW i \in 1 .. Len(core), core[i] \in Pushes PROVE Pushing'
    <3>1. i # 1 /\ i - 1 \in 1 .. Len(t) /\ t[i - 1] = core[i]
      BY <1>1, <1>2, <1>5, <2>1
    <3> QED
      BY <2>1, <3>1 DEF Pushing
  <2>2. ASSUME NEW i \in 1 .. Len(t), t[i] \in Pushes PROVE Pushing
    <3>1. i + 1 \in 1 .. Len(core) /\ core[i + 1] = t[i]
      BY <1>1, <1>2
    <3> QED
      BY <2>2, <3>1 DEF Pushing
  <2> QED
    BY <2>1, <2>2 DEF Pushing
<1> QED
  BY <1>1, <1>2, <1>3, <1>4, <1>5, <1>6

\* Points that may go on where x was.
MayGo(x, points) ==
  /\ IsStack(points) /\ points # <<>> /\ Ordered(points)
  /\ \A y : MayBeBelow(x, y) => MayBeBelow(points[Len(points)], y)
  /\ \A y : Above(x, y) => Above(points[Len(points)], y)
  /\ \A i \in 1 .. Len(points) : Level(points[i]) <= Level(x) /\ Rank(points[i]) <= Rank(x)

\* What going on at other points makes of the stack.
LEMMA Gone ==
  ASSUME StackInv, OrderInv, core # <<>>, NEW points, Goto(points), MayGo(Top, points)
  PROVE  /\ OrderInv' /\ core' # <<>> /\ Top' = points[1]
         /\ Len(core') = Len(points) + Len(core) - 1 /\ Len(points) \in Nat \ {0}
         /\ \A i \in 1 .. Len(points) : core'[i] = points[i]
         /\ \A i \in 2 .. Len(core) : core'[Len(points) + i - 1] = core[i]
<1> DEFINE t == core'
           n == Len(points)
<1>1. core \in Seq(Points) /\ Len(core) \in Nat \ {0} /\ Top = core[1] /\ Head(core) = core[1]
  BY TopIs
<1>2. points \in Seq(Points) /\ n \in Nat \ {0} /\ IsStack(core)
  BY DEF MayGo, IsStack, StackInv
<1>3. /\ IsStack(t) /\ t # <<>> /\ Head(t) = points[1]
      /\ Len(t) = n + Len(core) - 1
      /\ \A i \in 1 .. n : t[i] = points[i]
      /\ \A i \in 2 .. Len(core) : t[n + i - 1] = core[i]
  BY <1>1, <1>2, Replaced DEF Goto, MayGo
<1> HIDE DEF t, n
<1>4. \A i \in 1 .. n : t[i] = points[i] /\ Level(t[i]) <= Level(core[1])
  BY <1>1, <1>3 DEF MayGo, n
<1>5. ASSUME NEW i \in n + 1 .. Len(t)
      PROVE  i - n + 1 \in 2 .. Len(core) /\ t[i] = core[i - n + 1]
  <2>1. i - n + 1 \in 2 .. Len(core) /\ n + (i - n + 1) - 1 = i
    BY <1>1, <1>2, <1>3, <1>5
  <2> QED
    BY <1>3, <2>1
<1>6. \A p : Level(p) \in Nat
  BY DEF Level
<1>7. ASSUME NEW i \in 1 .. Len(t), NEW j \in 1 .. Len(t), i < j PROVE Level(t[i]) < Level(t[j])
  <2>1. CASE j <= n
    BY <1>2, <1>3, <1>7, <2>1 DEF MayGo, Ordered, n
  <2>2. CASE i <= n /\ j > n
    <3>1. j - n + 1 \in 2 .. Len(core) /\ t[j] = core[j - n + 1] /\ Level(t[i]) <= Level(core[1])
      BY <1>2, <1>3, <1>4, <1>5, <2>2
    <3>2. Level(core[1]) < Level(core[j - n + 1])
      BY <1>1, <3>1 DEF OrderInv, Ordered
    <3> QED
      BY <1>6, <3>1, <3>2
  <2>3. CASE i > n
    <3>1. /\ i - n + 1 \in 2 .. Len(core) /\ t[i] = core[i - n + 1]
          /\ j - n + 1 \in 2 .. Len(core) /\ t[j] = core[j - n + 1]
      BY <1>2, <1>3, <1>5, <1>7, <2>3
    <3>2. i - n + 1 < j - n + 1
      BY <1>2, <1>3, <1>7
    <3> QED
      BY <1>1, <3>1, <3>2 DEF OrderInv, Ordered
  <2> QED
    BY <1>2, <1>3, <2>1, <2>2, <2>3
<1>8. ASSUME NEW i \in 1 .. Len(t) - 1 PROVE Above(t[i], t[i + 1])
  <2>1. CASE i < n
    <3>1. i \in 1 .. n - 1 /\ i \in 1 .. n /\ i + 1 \in 1 .. n
      BY <1>2, <2>1
    <3>2. t[i] = points[i] /\ t[i + 1] = points[i + 1]
      BY <1>3, <3>1
    <3>3. Above(points[i], points[i + 1])
      BY <3>1 DEF MayGo, Ordered, n
    <3> QED
      BY <3>2, <3>3
  <2>2. CASE i = n
    <3>1. t[i] = points[n] /\ t[i + 1] = core[2] /\ Len(core) > 1
      BY <1>1, <1>2, <1>3, <1>4, <1>5, <1>8, <2>2
    <3>2. Above(core[1], core[1 + 1])
      BY <1>1, <3>1 DEF OrderInv, Ordered
    <3> QED
      BY <1>1, <3>1, <3>2 DEF MayGo, n
  <2>3. CASE i > n
    <3> DEFINE k == i - n + 1
    <3>1. k \in 2 .. Len(core) /\ t[i] = core[k] /\ i + 1 - n + 1 \in 2 .. Len(core)
          /\ t[i + 1] = core[i + 1 - n + 1]
      BY <1>2, <1>3, <1>5, <1>8, <2>3
    <3>2. i + 1 - n + 1 = k + 1 /\ k \in 1 .. Len(core) - 1
      BY <1>1, <1>2, <1>3, <3>1
    <3>3. Above(core[k], core[k + 1])
      BY <3>2 DEF OrderInv, Ordered
    <3> QED
      BY <3>1, <3>2, <3>3
  <2> QED
    BY <1>2, <1>3, <2>1, <2>2, <2>3
<1>9. OrderInv'
  BY <1>7, <1>8 DEF OrderInv, Ordered, t
<1> QED
  BY <1>2, <1>3, <1>9 DEF t, n, Top

\* At a point from the pushes' level on, no other command is on its way.
LEMMA NothingPushedBelow ==
  ASSUME StackInv, OrderInv, core # <<>>, Level(Top) >= 5
  PROVE  \A i \in 2 .. Len(core) : core[i] \notin Pushes \cup {"synced"}
<1>1. Len(core) \in Nat \ {0} /\ Top = core[1]
  BY TopIs
<1>2. \A p \in Pushes \cup {"synced"} : Level(p) <= 5
  BY DEF Level, Pushes, AllocPoints, WakePoints, SyncPoints
<1> SUFFICES ASSUME NEW i \in 2 .. Len(core) PROVE Level(core[i]) > 5
  BY <1>2 DEF Level
<1>3. Level(core[1]) < Level(core[i])
  BY <1>1 DEF OrderInv, Ordered
<1> QED
  BY <1>1, <1>3 DEF Level

\* Nor while the core thread synchronises.
LEMMA NothingPushedInSync ==
  ASSUME StackInv, OrderInv, Top \in SyncPoints \cup {"synced"}
  PROVE  ~Pushing
<1>1. core # <<>> /\ Len(core) \in Nat \ {0} /\ Top = core[1]
  BY TopIs DEF SyncPoints
<1>2. core[1] \notin Pushes /\ Level(core[1]) \in 3 .. 4
  BY <1>1 DEF SyncPoints, Pushes, Level, WakePoints, AllocPoints
<1> SUFFICES ASSUME NEW i \in 2 .. Len(core), core[i] \in Pushes PROVE FALSE
  BY <1>1, <1>2 DEF Pushing
<1>3. i - 1 \in 1 .. Len(core) - 1 /\ i - 1 + 1 = i
  BY <1>1
<1>4. Above(core[i - 1], core[i])
  BY <1>3 DEF OrderInv, Ordered
<1>5. core[i - 1] = "fill"
  BY <1>4 DEF Above, Pushes
<1>6. i - 1 = 1 \/ Level(core[1]) < Level(core[i - 1])
  BY <1>1, <1>3 DEF OrderInv, Ordered
<1> QED
  <2>1. Level("fill") = 2
    BY DEF Level, AllocPoints, WakePoints, SyncPoints, Pushes
  <2>2. Level(core[1]) \in 3 .. 4 /\ Level(core[i - 1]) = 2
    BY <1>2, <1>5, <2>1
  <2> QED
    BY <1>6, <2>2

-----------------------------------------------------------------------------
(* Facts about the numbers of the commands. *)

\* Where the reader can be: at the write pointer, or at an unread header.
Place(p) ==
  \/ p = command_fifo_write_ptr
  \/ p \in 0 .. COMMAND_QUEUE_SIZE - 1 /\ Unread(p) /\ IsHeader(command_fifo_data, p)

\* The reader is at such a place, every command ends at one, and after a
\* wraparound comes the one at 0.
LEMMA Places ==
  ASSUME Inv, ~At("reset_read_ptr"), IsNumbered
  PROVE  /\ Place(Position)
         /\ \A o \in 0 .. COMMAND_QUEUE_SIZE - 1 : Unread(o) /\ IsCommand(o) =>
              /\ command_fifo_data[o].size \in Nat \ {0}
              /\ Place(o + command_fifo_data[o].size)
         /\ \A p : Place(p) /\ p # command_fifo_write_ptr /\ ~IsCommand(p) =>
              /\ command_fifo_data[p].type = "Wraparound"
              /\ command_fifo_write_ptr < command_fifo_read_ptr /\ p >= command_fifo_read_ptr
              /\ command_fifo_write_ptr # 0 => Place(0) /\ IsCommand(0) /\ Unread(0)
<1> DEFINE W == command_fifo_write_ptr
           R == command_fifo_read_ptr
           D == command_fifo_data
           S == COMMAND_QUEUE_SIZE
<1>1. W \in 0 .. S - 1 /\ R \in 0 .. S - 1 /\ S \in Nat \ {0} /\ D \in [0 .. S - 1 -> Commands]
  BY QueueAssumption DEF Inv, Types
<1>2. CASE Straight
  <2>1. /\ R <= W
        /\ \A o \in R .. W - 1 : IsHeader(D, o) => CommandAt(D, o, W, Last)
        /\ R < W => IsHeader(D, R)
    BY <1>2 DEF Straight, Chain, IsChain
  <2>2. \A p : Unread(p) <=> p \in R .. W - 1
    BY <2>1 DEF Unread
  <2>3. Place(Position)
    <3>1. CASE video = "execute"
      <4>1. On(write_ptr, R, W) /\ On(read_ptr, R, write_ptr)
        BY <1>2, <3>1 DEF Straight
      <4>2. read_ptr \in R .. W /\ (read_ptr < W => IsHeader(D, read_ptr))
        BY <1>1, <2>1, <4>1 DEF On, OnChain
      <4> QED
        BY <1>1, <2>2, <3>1, <4>2 DEF Place, Position
    <3>2. CASE video # "execute"
      <4>1. Position = R
        BY <1>2, <3>2 DEF Straight, Position
      <4> QED
        BY <1>1, <2>1, <2>2, <4>1 DEF Place
    <3> QED
      BY <3>1, <3>2
  <2>4. ASSUME NEW o \in 0 .. S - 1, Unread(o), IsCommand(o)
        PROVE  D[o].size \in Nat \ {0} /\ Place(o + D[o].size)
    <3>1. o \in R .. W - 1 /\ CommandAt(D, o, W, Last)
      BY <1>1, <2>1, <2>2, <2>4 DEF IsCommand, IsHeader
    <3>2. /\ D[o].size \in Nat \ {0} /\ o + D[o].size <= W
          /\ o + D[o].size < W => IsHeader(D, o + D[o].size)
      BY <3>1 DEF CommandAt
    <3>3. o + D[o].size \in R .. W
      BY <1>1, <3>1, <3>2
    <3> QED
      BY <1>1, <2>2, <3>2, <3>3 DEF Place
  <2>5. ASSUME NEW p, Place(p), p # W PROVE IsCommand(p)
    <3>1. p \in R .. W - 1 /\ IsHeader(D, p)
      BY <2>2, <2>5 DEF Place
    <3> QED
      BY <1>1, <2>1, <3>1 DEF CommandAt, IsCommand, IsHeader
  <2> QED
    BY <2>3, <2>4, <2>5
<1>3. ASSUME NEW w \in 0 .. S - 1, Wrapped(w)
      PROVE  /\ Place(Position)
             /\ \A o \in 0 .. S - 1 : Unread(o) /\ IsCommand(o) =>
                  D[o].size \in Nat \ {0} /\ Place(o + D[o].size)
             /\ \A p : Place(p) /\ p # W /\ ~IsCommand(p) =>
                  /\ D[p].type = "Wraparound" /\ W < R /\ p >= R
                  /\ W # 0 => Place(0) /\ IsCommand(0) /\ Unread(0)
  <2>1. /\ W < R /\ w \in R .. S - 1
        /\ \A o \in R .. w - 1 : IsHeader(D, o) => CommandAt(D, o, w, Last)
        /\ R < w => IsHeader(D, R)
        /\ \A o \in 0 .. W - 1 : IsHeader(D, o) => CommandAt(D, o, W, Last)
        /\ 0 < W => IsHeader(D, 0)
        /\ D[w].type = "Wraparound" /\ D[w].size = S - w
    BY <1>3 DEF Wrapped, Chain, IsChain, WraparoundAt
  <2>2. \A p : Unread(p) <=> p \in R .. S - 1 \/ p \in 0 .. W - 1
    BY <1>1, <2>1 DEF Unread
  <2>3. Place(w)
    BY <1>1, <2>1, <2>2 DEF Place, IsHeader
  <2>4. W # 0 => Place(0) /\ IsCommand(0) /\ Unread(0)
    <3> SUFFICES ASSUME W # 0 PROVE Place(0) /\ IsCommand(0) /\ Unread(0)
      OBVIOUS
    <3>1. 0 \in 0 .. W - 1 /\ 0 \in 0 .. S - 1 /\ 0 < W
      BY <1>1
    <3>2. IsHeader(D, 0) /\ CommandAt(D, 0, W, Last)
      BY <2>1, <3>1
    <3> QED
      BY <2>2, <3>1, <3>2 DEF CommandAt, Place, IsCommand, IsHeader
  <2>5. Place(Position)
    <3>1. CASE video = "execute"
      <4>1. On(read_ptr, R, w)
        BY <1>3, <3>1 DEF Wrapped
      <4>2. read_ptr \in R .. w /\ (read_ptr < w => IsHeader(D, read_ptr)) /\ Position = read_ptr
        BY <3>1, <4>1 DEF On, OnChain, Position
      <4>3. read_ptr = w \/ read_ptr \in R .. w - 1
        BY <1>1, <2>1, <4>2
      <4> QED
        BY <1>1, <2>1, <2>2, <2>3, <4>2, <4>3 DEF Place
    <3>2. CASE video = "wrap_publish"
      <4>1. Position = 0
        BY <1>3, <3>2 DEF Wrapped, Position
      <4> QED
        BY <2>4, <4>1 DEF Place
    <3>3. CASE video \notin {"execute", "wrap_publish"}
      <4>1. Position = R
        BY <3>3 DEF Position
      <4>2. R = w \/ R < w
        BY <1>1, <2>1
      <4> QED
        BY <1>1, <2>1, <2>2, <2>3, <4>1, <4>2 DEF Place
    <3> QED
      BY <3>1, <3>2, <3>3
  <2>6. ASSUME NEW o \in 0 .. S - 1, Unread(o), IsHeader(D, o), o >= R PROVE o \in R .. w
    <3>1. \A k \in w + 1 .. S - 1 : ~IsHeader(D, k)
      BY <1>1, <2>1 DEF IsNumbered
    <3> QED
      BY <1>1, <2>1, <2>6, <3>1
  <2>7. ASSUME NEW o \in 0 .. S - 1, Unread(o), IsCommand(o)
        PROVE  D[o].size \in Nat \ {0} /\ Place(o + D[o].size)
    <3>1. CASE o >= R
      <4>1. o \in R .. w - 1
        <5>1. o \in R .. w /\ o # w
          BY <2>1, <2>6, <2>7, <3>1 DEF IsCommand, IsHeader
        <5> QED
          BY <1>1, <2>1, <5>1
      <4>2. CommandAt(D, o, w, Last)
        BY <2>1, <2>7, <4>1 DEF IsCommand, IsHeader
      <4>3. /\ D[o].size \in Nat \ {0} /\ o + D[o].size <= w
            /\ o + D[o].size < w => IsHeader(D, o + D[o].size)
        BY <4>2 DEF CommandAt
      <4>4. o + D[o].size \in R .. w /\ (o + D[o].size < w \/ o + D[o].size = w)
        BY <1>1, <2>1, <4>1, <4>3
      <4> QED
        BY <1>1, <2>1, <2>2, <2>3, <4>3, <4>4 DEF Place
    <3>2. CASE o < R
      <4>1. o \in 0 .. W - 1
        BY <1>1, <2>1, <2>2, <2>7, <3>2
      <4>2. CommandAt(D, o, W, Last)
        BY <2>1, <2>7, <4>1 DEF IsCommand, IsHeader
      <4>3. /\ D[o].size \in Nat \ {0} /\ o + D[o].size <= W
            /\ o + D[o].size < W => IsHeader(D, o + D[o].size)
        BY <4>2 DEF CommandAt
      <4>4. o + D[o].size \in 0 .. W /\ (o + D[o].size < W \/ o + D[o].size = W)
        BY <1>1, <2>1, <4>1, <4>3
      <4> QED
        BY <1>1, <2>1, <2>2, <4>3, <4>4 DEF Place
    <3> QED
      BY <1>1, <3>1, <3>2
  <2>8. ASSUME NEW p, Place(p), p # W, ~IsCommand(p)
        PROVE  D[p].type = "Wraparound" /\ p >= R
    <3>1. p \in 0 .. S - 1 /\ Unread(p) /\ IsHeader(D, p)
      BY <2>8 DEF Place
    <3>2. D[p].type = "Wraparound"
      BY <2>8, <3>1 DEF IsHeader, IsCommand
    <3>3. ASSUME p \in 0 .. W - 1 PROVE FALSE
      BY <2>1, <3>1, <3>2, <3>3 DEF CommandAt
    <3> QED
      BY <1>1, <2>2, <3>1, <3>2, <3>3
  <2> QED
    BY <2>1, <2>4, <2>5, <2>7, <2>8
<1>4. CASE Resetting
  BY <1>4 DEF Resetting
<1> QED
  BY <1>2, <1>3, <1>4 DEF Inv, RingInv

\* No more commands are executed than were issued.
LEMMA ExecutedIssued ==
  ASSUME Inv, NumberInv, Top # "reset_read_ptr"
  PROVE  Len(executed) \in Nat /\ Len(executed) <= issued
<1>1. IsNumbered /\ ~At("reset_read_ptr") /\ Len(executed) \in Nat /\ issued \in Nat
  BY TopIs DEF NumberInv, Inv, Types
<1>2. Types /\ COMMAND_QUEUE_SIZE \in Nat
  BY QueueAssumption DEF Inv
<1> SUFFICES NumberAt(Position) \in Nat /\ NumberAt(Position) <= issued + 1
  BY <1>1 DEF IsNumbered
<1>3. \A o \in 0 .. COMMAND_QUEUE_SIZE - 1 : Unread(o) /\ IsCommand(o) =>
        command_fifo_data[o].id \in Nat /\ command_fifo_data[o].id <= issued
  BY <1>1, <1>2 DEF IsNumbered, Types, Commands
<1>4. CASE Position = command_fifo_write_ptr
  BY <1>1, <1>4 DEF NumberAt
<1>5. CASE Position # command_fifo_write_ptr
  <2>1. Place(Position)
    BY <1>1, Places
  <2>2. Position \in 0 .. COMMAND_QUEUE_SIZE - 1 /\ Unread(Position)
    BY <1>5, <2>1 DEF Place
  <2>3. CASE IsCommand(Position)
    BY <1>1, <1>3, <1>5, <2>2, <2>3 DEF NumberAt, IsCommand
  <2>4. CASE ~IsCommand(Position)
    <3>1. /\ command_fifo_data[Position].type = "Wraparound"
          /\ command_fifo_write_ptr # 0 => Place(0) /\ IsCommand(0) /\ Unread(0)
      BY <1>1, <1>5, <2>1, <2>4, Places
    <3>2. 0 \in 0 .. COMMAND_QUEUE_SIZE - 1
      BY QueueAssumption
    <3> QED
      BY <1>1, <1>3, <1>5, <3>1, <3>2 DEF NumberAt
  <2> QED
    BY <2>3, <2>4
<1> QED
  BY <1>4, <1>5

\* With every command executed and none on its way, the reader is at the
\* write pointer.
LEMMA AllRead ==
  ASSUME Inv, NumberInv, Top # "reset_read_ptr", ~Pushing, Len(executed) = issued,
         video \notin {"execute", "wrap_publish"}
  PROVE  command_fifo_read_ptr = command_fifo_write_ptr
<1>1. IsNumbered /\ ~At("reset_read_ptr") /\ issued \in Nat /\ Position = command_fifo_read_ptr
  BY TopIs DEF NumberInv, Inv, Types, Position
<1> SUFFICES ASSUME Position # command_fifo_write_ptr PROVE FALSE
  BY <1>1
<1>2. Place(Position) /\ NumberAt(Position) = issued + 1
  BY <1>1, Places DEF IsNumbered
<1>3. \A o \in 0 .. COMMAND_QUEUE_SIZE - 1 : Unread(o) /\ IsCommand(o) =>
        command_fifo_data[o].id # issued + 1
  <2> TAKE o \in 0 .. COMMAND_QUEUE_SIZE - 1
  <2>1. command_fifo_data[o].id \in Nat
    BY DEF Inv, Types, Commands
  <2> QED
    BY <1>1, <2>1 DEF IsNumbered
<1>4. Position \in 0 .. COMMAND_QUEUE_SIZE - 1 /\ Unread(Position)
  BY <1>2 DEF Place
<1>5. CASE IsCommand(Position)
  BY <1>2, <1>3, <1>4, <1>5 DEF NumberAt, IsCommand
<1>6. CASE ~IsCommand(Position)
  <2>1. /\ command_fifo_data[Position].type = "Wraparound"
        /\ command_fifo_write_ptr < command_fifo_read_ptr
        /\ command_fifo_write_ptr # 0 => Place(0) /\ IsCommand(0) /\ Unread(0)
    BY <1>1, <1>2, <1>6, Places
  <2>2. 0 \in 0 .. COMMAND_QUEUE_SIZE - 1 /\ command_fifo_write_ptr \in Nat
    BY QueueAssumption DEF Inv, Types
  <2>3. command_fifo_write_ptr # 0
    BY <2>1, <2>2 DEF NumberInv
  <2> QED
    BY <1>2, <1>3, <2>1, <2>2, <2>3 DEF NumberAt
<1> QED
  BY <1>5, <1>6

\* A reader at the write pointer has executed every command.
LEMMA AllExecuted ==
  ASSUME Inv, NumberInv, Top # "reset_read_ptr", Position = command_fifo_write_ptr
  PROVE  Len(executed) = issued
<1>1. Len(executed) \in Nat /\ issued \in Nat
  BY ExecutedIssued DEF Inv, Types
<1> QED
  BY <1>1 DEF NumberInv, IsNumbered, NumberAt

\* A thread asleep that nothing has been pushed to since has nothing to do.
LEMMA NothingLeft ==
  ASSUME Inv, WakeInv, Top \in SyncPoints, Asleep, Count = SLEEPING
  PROVE  Synchronized
<1>1. Len(executed) = issued
  <2>1. AllDone /\ ~unwoken
    BY DEF WakeInv, DrainInv, Asleep, WokenInv, WokenPoints
  <2>2. ~(Work(Count) > 0)
    BY WakeCountAssumption DEF SLEEPING, Work
  <2> QED
    BY <2>1, <2>2 DEF AllDone
<1>2. ~Pushing
  BY NothingPushedInSync DEF WakeInv, Inv
<1>3. command_fifo_read_ptr = command_fifo_write_ptr
  BY <1>1, <1>2, AllRead DEF Asleep, SyncPoints, WakeInv
<1> QED
  BY <1>1, <1>3 DEF Synchronized, Drained, Parked, Asleep

-----------------------------------------------------------------------------
(* Steps of the core thread that change nothing but its own position. *)

\* What is kept with the ring and the video thread.
LEMMA SameRing ==
  ASSUME UNCHANGED <<ring, gpu_device, video, write_ptr, read_ptr, issued, executed>>
  PROVE  /\ Drained' <=> Drained
         /\ IsNumbered' <=> IsNumbered
         /\ LastIsDestroy' <=> LastIsDestroy
<1> USE DEF ring
<1>1. Drained' <=> Drained
  BY DEF Drained
<1>2. \A o : (Unread(o)' <=> Unread(o)) /\ (IsCommand(o)' <=> IsCommand(o))
  BY DEF Unread, IsCommand
<1>3. \A p : NumberAt(p)' = NumberAt(p)
  BY DEF NumberAt
<1>4. Position' = Position
  BY DEF Position
<1>5. IsNumbered' <=> IsNumbered
  BY <1>2, <1>3, <1>4 DEF IsNumbered
<1>6. LastIsDestroy' <=> LastIsDestroy
  BY <1>2 DEF LastIsDestroy
<1> QED
  BY <1>1, <1>5, <1>6

\* What such a step keeps.
LEMMA Same ==
  ASSUME UNCHANGED <<ring, wake, config, videoVars, history>>
  PROVE  /\ Count' = Count /\ (Asleep' <=> Asleep) /\ (Parked' <=> Parked)
         /\ (Drained' <=> Drained) /\ (Synchronized' <=> Synchronized)
         /\ (IsNumbered' <=> IsNumbered) /\ (AllDone' <=> AllDone)
         /\ (LastIsDestroy' <=> LastIsDestroy)
<1>1. Count' = Count /\ (Asleep' <=> Asleep)
  BY DEF Asleep, Count, wake, videoVars, videoLocals
<1>2. Parked' <=> Parked
  BY <1>1 DEF Parked, ring, videoVars, videoLocals
<1>3. AllDone' <=> AllDone
  BY <1>1 DEF AllDone, history
<1>4. /\ Drained' <=> Drained
      /\ IsNumbered' <=> IsNumbered
      /\ LastIsDestroy' <=> LastIsDestroy
  BY SameRing DEF config, videoVars, videoLocals, history
<1> QED
  BY <1>1, <1>2, <1>3, <1>4 DEF Synchronized, config

\* What has to hold at a point for the core thread to come to it by itself.
MayEnter(x) ==
  /\ x \notin {"sync_wait", "wake_post", "reset_read_ptr", "enable"} \cup Pushes
  /\ x \in {"wake", "threshold"} /\ Count >= 0 => Work(Count) + 2 <= 2 * issued + 1
  /\ x \in {"wake_if_not_empty", "spin_empty", "sync_empty"} => Count = SLEEPING
  /\ x \in WokenPoints => ~unwoken
  /\ ~use_thread => x \notin ThreadPoints
  /\ x \in {"synced", "set_thread_enabled", "reset"} => Synchronized
  /\ x = "reset" => ~gpu_device

Busy == {"sync_wait", "wake_post", "reset", "reset_read_ptr", "enable"} \cup Pushes

\* A step that changes only the stack and the core thread's locals keeps the
\* invariant when it comes to a point where what must hold already does.
LEMMA Enters ==
  ASSUME WakeInv, UNCHANGED <<ring, wake, config, videoVars, history>>,
         Top \notin Busy, MayEnter(Top'),
         OrderInv', BoundInv', DestroyInv',
         Top' = "sync_cas" => sync_value' \in 0 .. CPU_THREAD_IS_WAITING - 1,
         Pushing => Pushing',
         \A i \in 1 .. Len(core') : core'[i] \in AllocPoints \cup {"fill"} => Pushing',
         cmd'.type # "Body" => cmd'.size <= COMMAND_QUEUE_SIZE - COMMAND_QUEUE_RESERVED_SPACE
  PROVE  WakeInv'
<1> USE DEF MayEnter, Busy
<1>1. /\ Count' = Count /\ (Asleep' <=> Asleep) /\ (Parked' <=> Parked)
      /\ (Drained' <=> Drained) /\ (Synchronized' <=> Synchronized)
      /\ (IsNumbered' <=> IsNumbered) /\ (AllDone' <=> AllDone)
  BY Same
<1>2. CountInv'
  BY <1>1 DEF WakeInv, CountInv, history
<1>3. SleepInv'
  BY <1>1 DEF WakeInv, SleepInv, wake, videoVars, videoLocals
<1>4. FlagInv'
  BY <1>1 DEF WakeInv, FlagInv, wake, videoVars
<1>5. WokenInv'
  BY DEF WakeInv, WokenInv, history, config
<1>6. LocalTypes'
  BY DEF WakeInv, LocalTypes, config, videoVars, videoLocals, history
<1>7. NumberInv'
  BY <1>1 DEF WakeInv, NumberInv, ring, history
<1>8. DrainInv'
  BY <1>1 DEF WakeInv, DrainInv, videoVars, videoLocals, ring
<1>9. IdleInv'
  BY DEF WakeInv, IdleInv, config, videoVars, videoLocals, ring
<1>10. DirectInv'
  BY <1>1 DEF WakeInv, DirectInv, config, ring
<1>11. SwitchInv'
  BY <1>1 DEF WakeInv, SwitchInv, config, ring, history
<1> QED
  BY <1>2, <1>3, <1>4, <1>5, <1>6, <1>7, <1>8, <1>9, <1>10, <1>11 DEF WakeInv

\* What a return keeps of the stack.
LEMMA ReturnKeepsStack ==
  ASSUME Inv, WakeInv, core # <<>>, Return, Top \notin Pushes,
         cmd'.type = cmd.type, issued' = issued, (LastIsDestroy => LastIsDestroy') \/ Level(Top) >= 5
  PROVE  /\ OrderInv' /\ BoundInv' /\ DestroyInv'
         /\ Top' = "none" \/ Above(Top, Top')
         /\ Pushing' <=> Pushing
         /\ \A i \in 1 .. Len(core') : core'[i] \in AllocPoints \cup {"fill"} => Pushing'
<1>1. /\ OrderInv' /\ StackInv /\ core \in Seq(Points) /\ Len(core) \in Nat \ {0}
      /\ Len(core') = Len(core) - 1 /\ \A i \in 1 .. Len(core') : core'[i] = core[i + 1]
      /\ Top' = "none" \/ Above(Top, Top')
      /\ Pushing' <=> Pushing
  BY Returned, TopIs DEF WakeInv, Inv
<1>2. BoundInv'
  BY <1>1 DEF WakeInv, BoundInv, Pushed
<1>3. DestroyInv'
  <2> SUFFICES ASSUME NEW i \in 1 .. Len(core') - 1, core'[i + 1] = "reset"
               PROVE  /\ core'[i] = "PushCommandAndSync" => cmd.type = "Destroy"
                      /\ core'[i] = "synced" => LastIsDestroy'
    BY DEF DestroyInv
  <2>2. i + 1 \in 1 .. Len(core) - 1 /\ core'[i] = core[i + 1] /\ core'[i + 1] = core[i + 1 + 1]
    BY <1>1
  <2>3. CASE LastIsDestroy => LastIsDestroy'
    BY <2>2, <2>3 DEF WakeInv, DestroyInv
  <2>4. CASE Level(Top) >= 5
    <3>1. core[i + 1] \notin Pushes \cup {"synced"}
      BY <1>1, <2>2, <2>4, NothingPushedBelow DEF Inv, WakeInv
    <3> QED
      BY <2>2, <3>1 DEF Pushes
  <2> QED
    BY <2>3, <2>4
<1>4. \A i \in 1 .. Len(core') : core'[i] \in AllocPoints \cup {"fill"} => Pushing'
  <2> TAKE i \in 1 .. Len(core')
  <2>1. i + 1 \in 1 .. Len(core) /\ core'[i] = core[i + 1]
    BY <1>1
  <2> QED
    BY <1>1, <2>1 DEF WakeInv, NumberInv
<1> QED
  BY <1>1, <1>2, <1>3, <1>4

\* A return to the caller changes only the top.
LEMMA Returns ==
  ASSUME Inv, WakeInv, core # <<>>, Return, Top \notin Busy,
         UNCHANGED <<ring, wake, config, videoVars, history, cmd>>,
         Top' = "none" \/ (Above(Top, Top') => MayEnter(Top')),
         Top' # "sync_cas"
  PROVE  WakeInv'
<1>1. /\ OrderInv' /\ BoundInv' /\ DestroyInv'
      /\ Top' = "none" \/ Above(Top, Top')
      /\ Pushing' <=> Pushing
      /\ \A i \in 1 .. Len(core') : core'[i] \in AllocPoints \cup {"fill"} => Pushing'
  BY ReturnKeepsStack, Same DEF Busy, history
<1>2. MayEnter("none")
  BY DEF MayEnter, Pushes, WokenPoints, SyncPoints, ThreadPoints, WakePoints
<1> QED
  BY <1>1, <1>2, Enters DEF WakeInv, NumberInv

\* Going on elsewhere, with no push to come.
Plainly(points) ==
  \A i \in 1 .. Len(points) : points[i] \notin Pushes \cup {"fill", "synced"}

\* What going on at other points keeps of the facts about the stack.
LEMMA GoingKeepsStack ==
  ASSUME Inv, WakeInv, core # <<>>, NEW points, Goto(points), MayGo(Top, points),
         Plainly(points), Top \notin Pushes,
         cmd'.type = cmd.type, issued' = issued, LastIsDestroy => LastIsDestroy',
         \A i \in 1 .. Len(points) : points[i] \in AllocPoints => Top \in AllocPoints
  PROVE  /\ OrderInv' /\ BoundInv' /\ DestroyInv'
         /\ Top' = points[1]
         /\ Pushing' <=> Pushing
         /\ \A i \in 1 .. Len(core') : core'[i] \in AllocPoints \cup {"fill"} => Pushing'
<1> DEFINE n == Len(points)
<1>0. StackInv /\ OrderInv
  BY DEF WakeInv, Inv
<1>0a. /\ OrderInv' /\ Top' = points[1] /\ core' # <<>>
       /\ Len(core') = n + Len(core) - 1 /\ n \in Nat \ {0}
       /\ \A i \in 1 .. n : core'[i] = points[i]
       /\ \A i \in 2 .. Len(core) : core'[n + i - 1] = core[i]
  BY <1>0, Gone
<1>0b. core \in Seq(Points) /\ Len(core) \in Nat \ {0} /\ Top = core[1]
  BY <1>0, TopIs
<1> HIDE DEF n
<1>1. /\ OrderInv' /\ Top' = points[1] /\ core' # <<>>
      /\ Len(core') = n + Len(core) - 1 /\ n \in Nat \ {0}
      /\ \A i \in 1 .. n : core'[i] = points[i]
      /\ \A i \in 2 .. Len(core) : core'[n + i - 1] = core[i]
      /\ core \in Seq(Points) /\ Len(core) \in Nat \ {0} /\ Top = core[1]
  BY <1>0a, <1>0b
<1>2. ASSUME NEW j \in n + 1 .. Len(core')
      PROVE  j - n + 1 \in 2 .. Len(core) /\ core'[j] = core[j - n + 1]
  <2>1. j - n + 1 \in 2 .. Len(core) /\ n + (j - n + 1) - 1 = j
    BY <1>1
  <2> QED
    BY <1>1, <2>1
<1>3. Pushing' <=> Pushing
  <2>1. ASSUME NEW i \in 1 .. Len(core), core[i] \in Pushes PROVE Pushing'
    <3>1. i \in 2 .. Len(core)
      BY <1>1, <2>1
    <3>2. n + i - 1 \in 1 .. Len(core') /\ core'[n + i - 1] = core[i]
      BY <1>1, <3>1
    <3> QED
      BY <2>1, <3>2 DEF Pushing
  <2>2. ASSUME NEW j \in 1 .. Len(core'), core'[j] \in Pushes PROVE Pushing
    <3>1. j \notin 1 .. n
      BY <1>1, <2>2 DEF Plainly, n
    <3>2. j - n + 1 \in 1 .. Len(core) /\ core[j - n + 1] = core'[j]
      BY <1>1, <1>2, <3>1
    <3> QED
      BY <2>2, <3>2 DEF Pushing
  <2> QED
    BY <2>1, <2>2 DEF Pushing
<1>4. BoundInv'
  <2>1. Pushed' = Pushed /\ Pushed \in Nat
    BY <1>3 DEF Pushed, Inv, Types
  <2>2. \A x : Rank(x) \in 0 .. 4
    BY DEF Rank
  <2>3. ASSUME NEW j \in 1 .. Len(core') PROVE Pushed + Rank(core'[j]) <= MaxCommands + 3
    <3>1. CASE j \in 1 .. n
      <4>1. Rank(core'[j]) <= Rank(core[1])
        BY <1>1, <3>1 DEF MayGo, n
      <4>2. Pushed + Rank(core[1]) <= MaxCommands + 3
        BY <1>1 DEF WakeInv, BoundInv
      <4> QED
        BY <2>1, <2>2, <4>1, <4>2, QueueAssumption
    <3>2. CASE j \notin 1 .. n
      <4>1. j - n + 1 \in 1 .. Len(core) /\ core[j - n + 1] = core'[j]
        BY <1>1, <1>2, <3>2
      <4> QED
        BY <4>1 DEF WakeInv, BoundInv
    <3> QED
      BY <3>1, <3>2
  <2> QED
    BY <2>1, <2>3 DEF WakeInv, BoundInv
<1>5. DestroyInv'
  <2> SUFFICES ASSUME NEW j \in 1 .. Len(core') - 1, core'[j + 1] = "reset"
               PROVE  /\ core'[j] = "PushCommandAndSync" => cmd.type = "Destroy"
                      /\ core'[j] = "synced" => LastIsDestroy
    BY DEF DestroyInv
  <2>2. CASE j \in 1 .. n
    BY <1>1, <2>2 DEF Plainly, Pushes, n
  <2>3. CASE j \notin 1 .. n
    <3> DEFINE i == j - n + 1
    <3>1. i \in 2 .. Len(core) /\ core[i] = core'[j] /\ i \in 1 .. Len(core) - 1
      BY <1>1, <1>2, <2>3
    <3>2. core'[j + 1] = core[i + 1]
      <4>1. j + 1 \in n + 1 .. Len(core') /\ (j + 1) - n + 1 = i + 1
        BY <1>1, <2>3
      <4>2. core'[j + 1] = core[(j + 1) - n + 1]
        BY <1>2, <4>1
      <4> QED
        BY <4>1, <4>2
    <3> QED
      BY <3>1, <3>2 DEF WakeInv, DestroyInv
  <2> QED
    BY <2>2, <2>3
<1>6. ASSUME NEW j \in 1 .. Len(core'), core'[j] \in AllocPoints \cup {"fill"} PROVE Pushing'
  <2>1. CASE j \in 1 .. n
    <3>1. core[1] \in AllocPoints
      BY <1>1, <1>6, <2>1 DEF Plainly, n
    <3> QED
      BY <1>1, <1>3, <3>1 DEF WakeInv, NumberInv
  <2>2. CASE j \notin 1 .. n
    <3>1. j - n + 1 \in 1 .. Len(core) /\ core[j - n + 1] = core'[j]
      BY <1>1, <1>2, <2>2
    <3> QED
      BY <1>3, <1>6, <3>1 DEF WakeInv, NumberInv
  <2> QED
    BY <2>1, <2>2
<1> QED
  BY <1>1, <1>3, <1>4, <1>5, <1>6

\* A step that only goes on at other points keeps the invariant.
LEMMA Goes ==
  ASSUME Inv, WakeInv, core # <<>>, NEW points, Goto(points), MayGo(Top, points),
         Plainly(points), Top \notin Busy,
         UNCHANGED <<ring, wake, config, videoVars, history, cmd>>,
         MayEnter(points[1]),
         points[1] = "sync_cas" => sync_value' \in 0 .. CPU_THREAD_IS_WAITING - 1,
         \A i \in 1 .. Len(points) : points[i] \in AllocPoints => Top \in AllocPoints
  PROVE  WakeInv'
<1>1. /\ OrderInv' /\ BoundInv' /\ DestroyInv'
      /\ Top' = points[1]
      /\ Pushing' <=> Pushing
      /\ \A i \in 1 .. Len(core') : core'[i] \in AllocPoints \cup {"fill"} => Pushing'
  BY GoingKeepsStack, Same DEF Busy, history
<1> QED
  BY <1>1, Enters DEF WakeInv, NumberInv

\* The points such steps go on at.
LEMMA Goings ==
  /\ \A x \in {"alloc", "full_load"} : MayGo(x, <<"wake_if_sleeping", "full_load">>)
  /\ \A x \in {"alloc", "unprocessed_load"} :
       MayGo(x, <<"wake_if_sleeping", "unprocessed_load">>) /\ MayGo(x, <<"wrap">>)
  /\ MayGo("threshold", <<"wake">>)
  /\ MayGo("wake", <<"wake_post">>)
  /\ MayGo("wake_if_sleeping", <<"wake_if_not_empty">>)
  /\ MayGo("wake_if_not_empty", <<"wake">>)
  /\ MayGo("spin_check", <<"spin_empty">>) /\ MayGo("spin_check", <<"spin">>)
  /\ MayGo("spin", <<"spin_check">>) /\ MayGo("spin", <<"sync_load">>)
  /\ MayGo("sync_load", <<"sync_empty">>) /\ MayGo("sync_load", <<"sync_cas">>)
  /\ MayGo("sync_cas", <<"sync_wait">>) /\ MayGo("sync_cas", <<"sync_load">>)
  /\ MayGo("wrap", <<"alloc">>)
<1> USE DEF MayGo, IsStack, Ordered, MayBeBelow, Above, Level, Rank, Points, AllocPoints, WakePoints,
      SyncPoints, Pushes
<1>1. \A x \in {"alloc", "full_load"} : MayGo(x, <<"wake_if_sleeping", "full_load">>)
  OBVIOUS
<1>2. \A x \in {"alloc", "unprocessed_load"} :
        MayGo(x, <<"wake_if_sleeping", "unprocessed_load">>) /\ MayGo(x, <<"wrap">>)
  OBVIOUS
<1>3. MayGo("threshold", <<"wake">>) /\ MayGo("wake", <<"wake_post">>)
  OBVIOUS
<1>4. /\ MayGo("wake_if_sleeping", <<"wake_if_not_empty">>)
      /\ MayGo("wake_if_not_empty", <<"wake">>)
  OBVIOUS
<1>5. /\ MayGo("spin_check", <<"spin_empty">>) /\ MayGo("spin_check", <<"spin">>)
      /\ MayGo("spin", <<"spin_check">>) /\ MayGo("spin", <<"sync_load">>)
  OBVIOUS
<1>6. /\ MayGo("sync_load", <<"sync_empty">>) /\ MayGo("sync_load", <<"sync_cas">>)
      /\ MayGo("sync_cas", <<"sync_wait">>) /\ MayGo("sync_cas", <<"sync_load">>)
  OBVIOUS
<1>7. MayGo("wrap", <<"alloc">>)
  OBVIOUS
<1> HIDE DEF MayGo
<1> QED
  BY <1>1, <1>2, <1>3, <1>4, <1>5, <1>6, <1>7

\* Without the thread the ring is empty, and there is room.
LEMMA ThreadHasNoRoom ==
  ASSUME Inv, WakeInv, At("alloc"),
         NoRoom(AvailableSize(command_fifo_read_ptr, command_fifo_write_ptr))
  PROVE  use_thread
<1> SUFFICES ASSUME ~use_thread PROVE FALSE
  OBVIOUS
<1>1. Top = "alloc" /\ core[1] = "alloc" /\ 1 \in 1 .. Len(core)
  BY TopIs DEF Inv
<1>2. command_fifo_read_ptr = 0 /\ command_fifo_write_ptr = 0
  BY <1>1 DEF WakeInv, DirectInv, Drained
<1>3. cmd.type # "Body"
  BY <1>1 DEF Inv, StackInv, Within, CommandPoints, AllocPoints
<1>4. cmd.size \in Nat /\ cmd.size <= COMMAND_QUEUE_SIZE - COMMAND_QUEUE_RESERVED_SPACE
  BY <1>3 DEF WakeInv, NumberInv, Inv, Types, Commands
<1> QED
  BY <1>2, <1>4, QueueAssumption DEF NoRoom, AvailableSize

AllocSteps == Alloc \/ FullLoad \/ UnprocessedLoad

\* AllocateCommand's loops.
LEMMA AllocStepsWake == ASSUME Inv, WakeInv, AllocSteps PROVE WakeInv'
<1> USE DEF AllocPoints, Pushes, WakePoints, SyncPoints, WokenPoints, ThreadPoints, Busy
<1>1. UNCHANGED <<ring, wake, config, videoVars, history, cmd>>
  BY DEF AllocSteps, Alloc, FullLoad, UnprocessedLoad
<1>2. PICK x \in {"alloc", "full_load", "unprocessed_load"} :
        /\ At(x)
        /\ \/ Return
           \/ /\ x \in {"alloc", "full_load"} /\ Goto(<<"wake_if_sleeping", "full_load">>)
              /\ use_thread
           \/ /\ x \in {"alloc", "unprocessed_load"} /\ use_thread
              /\ Goto(<<"wake_if_sleeping", "unprocessed_load">>) \/ Goto(<<"wrap">>)
  <2>1. CASE Alloc
    BY <2>1, ThreadHasNoRoom DEF Alloc
  <2>2. CASE FullLoad
    <3>1. At("full_load") /\ Top = "full_load"
      BY <2>2, TopIs DEF FullLoad, Inv
    <3>2. use_thread
      BY <3>1 DEF WakeInv, DirectInv
    <3> QED
      BY <2>2, <3>1, <3>2 DEF FullLoad
  <2>3. CASE UnprocessedLoad
    <3>1. At("unprocessed_load") /\ Top = "unprocessed_load"
      BY <2>3, TopIs DEF UnprocessedLoad, Inv
    <3>2. use_thread
      BY <3>1 DEF WakeInv, DirectInv
    <3> QED
      BY <2>3, <3>1, <3>2 DEF UnprocessedLoad
  <2> QED
    BY <2>1, <2>2, <2>3 DEF AllocSteps
<1>3. Top = x /\ core # <<>>
  BY <1>2, TopIs DEF Inv
<1>4. CASE Return
  <2>1. Top' = "none" \/ Above(x, Top')
    BY <1>3, <1>4, Returned DEF Inv, WakeInv
  <2>2. Above(x, Top') => Top' = "fill"
    BY DEF Above
  <2>3. MayEnter("fill")
    BY DEF MayEnter
  <2> QED
    BY <1>1, <1>3, <1>4, <2>1, <2>2, <2>3, Returns
<1>5. ASSUME NEW points \in {<<"wake_if_sleeping", "full_load">>,
                             <<"wake_if_sleeping", "unprocessed_load">>, <<"wrap">>},
             Goto(points), MayGo(x, points), use_thread
      PROVE  WakeInv'
  <2>1. points[1] \in {"wake_if_sleeping", "wrap"} /\ Plainly(points)
    BY <1>5 DEF Plainly
  <2>2. MayEnter(points[1])
    BY <1>5, <2>1 DEF MayEnter
  <2> QED
    BY <1>1, <1>2, <1>3, <1>5, <2>1, <2>2, Goes
<1> QED
  BY <1>2, <1>4, <1>5, Goings

\* A wake count below zero says that the thread sleeps.
LEMMA Sleeping ==
  ASSUME WakeInv, Work(Count) < 0
  PROVE  Count = SLEEPING /\ Asleep
  BY WakeCountAssumption DEF WakeInv, SleepInv, Work, SLEEPING

WakeIfSteps == Threshold \/ WakeThreadIfSleeping

\* PushCommand's threshold, and WakeThreadIfSleeping.
LEMMA WakeIfStepsWake == ASSUME Inv, WakeInv, WakeIfSteps PROVE WakeInv'
<1> USE DEF AllocPoints, Pushes, WakePoints, SyncPoints, WokenPoints, ThreadPoints, Busy
<1>1. UNCHANGED <<ring, wake, config, videoVars, history, cmd>>
  BY DEF WakeIfSteps, Threshold, WakeThreadIfSleeping, coreLocals
<1>2. PICK x \in {"threshold", "wake_if_sleeping", "wake_if_not_empty"} :
        /\ At(x)
        /\ \/ Return
           \/ x \in {"threshold", "wake_if_not_empty"} /\ Goto(<<"wake">>)
           \/ x = "wake_if_sleeping" /\ Goto(<<"wake_if_not_empty">>) /\ Work(Count) < 0
  BY DEF WakeIfSteps, Threshold, WakeThreadIfSleeping, Count
<1>3. Top = x /\ core # <<>>
  BY <1>2, TopIs DEF Inv
<1>4. use_thread
  BY <1>3 DEF WakeInv, DirectInv
<1>5. CASE Return
  <2>1. Top' = "none" \/ Above(x, Top')
    BY <1>3, <1>5, Returned DEF Inv, WakeInv
  <2>2. Above(x, Top') => Top' \in {"destroy", "full_load", "unprocessed_load"}
    BY DEF Above
  <2>3. \A y \in {"destroy", "full_load", "unprocessed_load"} : MayEnter(y)
    BY <1>4 DEF MayEnter
  <2> QED
    BY <1>1, <1>3, <1>5, <2>1, <2>2, <2>3, Returns
<1>6. CASE x \in {"threshold", "wake_if_not_empty"} /\ Goto(<<"wake">>)
  <2>1. Count >= 0 => Work(Count) + 2 <= 2 * issued + 1
    BY <1>3, <1>6 DEF WakeInv, CountInv, SleepInv, SLEEPING
  <2>2. MayEnter("wake")
    BY <1>4, <2>1 DEF MayEnter
  <2>3. MayGo(x, <<"wake">>) /\ Plainly(<<"wake">>)
    BY <1>6, Goings DEF Plainly
  <2> QED
    BY <1>1, <1>3, <1>6, <2>2, <2>3, Goes
<1>7. CASE x = "wake_if_sleeping" /\ Goto(<<"wake_if_not_empty">>) /\ Work(Count) < 0
  <2>1. MayEnter("wake_if_not_empty")
    BY <1>4, <1>7, Sleeping DEF MayEnter
  <2>2. MayGo(x, <<"wake_if_not_empty">>) /\ Plainly(<<"wake_if_not_empty">>)
    BY <1>7, Goings DEF Plainly
  <2> QED
    BY <1>1, <1>3, <1>7, <2>1, <2>2, Goes
<1> QED
  BY <1>2, <1>5, <1>6, <1>7

SpinSteps == SpinCheck \/ SpinExpire \/ SyncLoad \/ SyncEmpty

\* SyncThread up to its compare-exchange.
LEMMA SpinStepsWake == ASSUME Inv, WakeInv, SpinSteps PROVE WakeInv'
<1> USE DEF AllocPoints, Pushes, WakePoints, WokenPoints, ThreadPoints, Busy
<1>1. UNCHANGED <<ring, wake, config, videoVars, history, cmd>>
  BY DEF SpinSteps, SpinCheck, SpinExpire, SyncLoad, SyncEmpty, coreLocals
<1>2. PICK x \in {"spin_check", "spin_empty", "spin", "sync_load", "sync_empty"} :
        /\ At(x)
        /\ \/ /\ x \in {"spin_empty", "sync_empty"}
              /\ IF IsCommandFIFOEmpty THEN Return ELSE core' # core
           \/ x = "spin_check" /\ Goto(<<"spin_empty">>) /\ Work(Count) < 0
           \/ x = "spin_check" /\ Goto(<<"spin">>)
           \/ x = "spin" /\ (Goto(<<"spin_check">>) \/ Goto(<<"sync_load">>))
           \/ x = "sync_load" /\ Goto(<<"sync_empty">>) /\ Work(Count) < 0
           \/ /\ x = "sync_load" /\ Goto(<<"sync_cas">>)
              /\ ~(Work(Count) < 0) /\ sync_value' = Count
  <2>1. At("spin_empty") \/ At("sync_empty") => IsCommandFIFOEmpty
    <3> SUFFICES ASSUME At("spin_empty") \/ At("sync_empty") PROVE IsCommandFIFOEmpty
      OBVIOUS
    <3>1. Top \in {"spin_empty", "sync_empty"}
      BY TopIs DEF Inv
    <3>2. Count = SLEEPING /\ Asleep
      BY <3>1 DEF WakeInv, SleepInv, SLEEPING
    <3> QED
      BY <3>1, <3>2, NothingLeft DEF SyncPoints, Synchronized, Drained, IsCommandFIFOEmpty
  <2> QED
    BY <2>1 DEF SpinSteps, SpinCheck, SpinExpire, SyncLoad, SyncEmpty, Count
<1>3. Top = x /\ core # <<>>
  BY <1>2, TopIs DEF Inv
<1>4. ~unwoken /\ x \in SyncPoints
  BY <1>3 DEF WakeInv, WokenInv, SyncPoints
<1>5. CASE x \in {"spin_empty", "sync_empty"} /\ IF IsCommandFIFOEmpty THEN Return ELSE core' # core
  <2>1. Count = SLEEPING /\ Asleep
    BY <1>3, <1>5 DEF WakeInv, SleepInv, SLEEPING
  <2>2. Synchronized
    BY <1>3, <1>4, <2>1, NothingLeft
  <2>3. Return
    BY <1>5, <2>2 DEF Synchronized, Drained, IsCommandFIFOEmpty
  <2>4. Top' = "none" \/ Above(x, Top')
    BY <1>3, <2>3, Returned DEF Inv, WakeInv
  <2>5. Above(x, Top') => Top' = "synced"
    BY <1>5 DEF Above
  <2>6. MayEnter("synced")
    BY <1>4, <2>2 DEF MayEnter
  <2> QED
    BY <1>1, <1>3, <2>3, <2>4, <2>5, <2>6, Returns DEF SyncPoints
<1>6. ASSUME NEW y \in {"spin_empty", "spin", "spin_check", "sync_load", "sync_empty", "sync_cas"},
             Goto(<<y>>), MayGo(x, <<y>>),
             y \in {"spin_empty", "sync_empty"} => Work(Count) < 0,
             y = "sync_cas" => ~(Work(Count) < 0) /\ sync_value' = Count
      PROVE  WakeInv'
  <2>1. y \in {"spin_empty", "sync_empty"} => Count = SLEEPING
    BY <1>6, Sleeping
  <2>2. MayEnter(y) /\ Plainly(<<y>>)
    BY <1>4, <2>1 DEF MayEnter, Plainly
  <2>3. y = "sync_cas" => sync_value' \in 0 .. CPU_THREAD_IS_WAITING - 1
    <3>1. Top # "sync_wait" /\ Count < CPU_THREAD_IS_WAITING
      BY <1>2, <1>3 DEF WakeInv, FlagInv
    <3>2. Count = SLEEPING \/ Count \in 0 .. 2 * CPU_THREAD_IS_WAITING - 1
      BY DEF WakeInv, SleepInv
    <3>3. Work(SLEEPING) < 0
      BY WakeCountAssumption DEF Work, SLEEPING
    <3> QED
      BY <1>6, <3>1, <3>2, <3>3, WakeCountAssumption
  <2> QED
    BY <1>1, <1>2, <1>3, <1>6, <2>2, <2>3, Goes DEF SyncPoints
<1> QED
  BY <1>2, <1>5, <1>6, Goings

\* SyncThread returns.
LEMMA SyncedWake == ASSUME Inv, WakeInv, Synced \/ SkipReadVRAM PROVE WakeInv'
<1> USE DEF AllocPoints, Pushes, WakePoints, SyncPoints, WokenPoints, ThreadPoints, Busy
<1>1. UNCHANGED <<ring, wake, config, videoVars, history, cmd>> /\ Return
  BY DEF Synced, SkipReadVRAM, coreLocals
<1>2. PICK x \in {"synced", "read_vram"} : At(x)
  BY DEF Synced, SkipReadVRAM
<1>3. Top = x /\ core # <<>> /\ Top = core[1] /\ Len(core) \in Nat
  BY <1>2, TopIs DEF Inv
<1>4. /\ Top' = "none" \/ Above(x, Top')
      /\ Len(core') = Len(core) - 1 /\ \A i \in 1 .. Len(core') : core'[i] = core[i + 1]
      /\ core' # <<>> => Top' = core'[1] /\ Len(core') > 0
  <2>1. core' # <<>> => Top' = core'[1] /\ Len(core') > 0
    <3>1. core \in Seq(Points) /\ core' = Tail(core)
      BY <1>1 DEF Inv, StackInv, IsStack, Return
    <3>2. core' \in Seq(Points)
      BY <1>3, <3>1
    <3> QED
      BY <3>2 DEF Top
  <2> QED
    BY <1>1, <1>3, <2>1, Returned DEF Inv, WakeInv
<1>5. Above(x, Top') => MayEnter(Top')
  <2> SUFFICES ASSUME Above(x, Top') PROVE MayEnter(Top')
    OBVIOUS
  <2>1. CASE x = "read_vram"
    BY <2>1 DEF MayEnter, Above
  <2>2. CASE x = "synced"
    <3>1. Synchronized /\ ~unwoken
      BY <1>3, <2>2 DEF WakeInv, SwitchInv, WokenInv
    <3>2. Top' \in {"set_thread_enabled", "reset", "shutdown"}
      BY <2>2 DEF Above
    <3>3. ASSUME Top' = "reset" PROVE ~gpu_device
      <4>1. core' # <<>>
        BY <3>3 DEF Top
      <4>2. 1 \in 1 .. Len(core) - 1 /\ core[1 + 1] = "reset"
        BY <1>3, <1>4, <3>3, <4>1
      <4>3. LastIsDestroy
        BY <1>3, <2>2, <4>2 DEF WakeInv, DestroyInv
      <4> QED
        BY <3>1, <4>3 DEF LastIsDestroy, Synchronized, Drained
    <3> QED
      BY <3>1, <3>2, <3>3 DEF MayEnter
  <2> QED
    BY <2>1, <2>2
<1>6. Top' # "sync_cas"
  BY <1>4 DEF Above
<1> QED
  BY <1>1, <1>3, <1>4, <1>5, <1>6, Returns

-----------------------------------------------------------------------------
(* Steps of the core thread that begin calls. *)

CallStacks ==
  {<<>>, <<"spin_check", "synced">>, <<"sync_load", "synced">>, <<"set_thread_enabled">>,
   <<"sync_load", "synced", "set_thread_enabled">>, <<"sync_load", "synced", "shutdown", "join">>,
   <<"set_thread_enabled", "shutdown", "join">>}

PushStacks == {<<"alloc", "fill", push>> : push \in Pushes}

\* A call that synchronises begins after a PushCommand that has woken nobody.
SyncsUnwoken == unwoken /\ (BeginSyncThread \/ BeginSetThreadEnabled \/ BeginProcessShutdown)

\* The calls of the core thread, of which that one is excluded.
LEMMA CallsWake == ASSUME ~SyncsUnwoken, Inv, WakeInv, CoreCalls PROVE WakeInv'
<1> USE DEF AllocPoints, Pushes, WakePoints, SyncPoints, WokenPoints, ThreadPoints, Busy
<1>1. /\ core = <<>> /\ issued < MaxCommands
      /\ UNCHANGED <<ring, wake, config, videoVars, history>>
  BY DEF CoreCalls, BeginPush, BeginReconfigure, BeginSyncThread, BeginSetThreadEnabled,
         BeginProcessShutdown, Begin
<1>2. \/ /\ core' \in PushStacks
         /\ \E size \in Sizes, type \in {"Call", "Create"} : cmd' = Command(type, size)
      \/ /\ core' \in CallStacks /\ cmd' = cmd /\ ~unwoken
         /\ core' # <<>> /\ core'[1] = "set_thread_enabled" => ~use_thread
  <2>1. CASE BeginPush
    BY <2>1 DEF BeginPush, Begin, PushStacks
  <2>2. CASE BeginReconfigure
    BY <2>2 DEF BeginReconfigure, Begin, PushStacks
  <2>3. CASE BeginSyncThread
    <3>1. cmd' = cmd /\ ~unwoken
      BY <2>3 DEF BeginSyncThread, SyncsUnwoken
    <3>2. \/ use_thread /\ core' \in {<<"spin_check", "synced">>, <<"sync_load", "synced">>}
          \/ core' = <<>>
      BY <2>3 DEF BeginSyncThread, Begin, Sync
    <3> QED
      BY <3>1, <3>2 DEF CallStacks
  <2>4. CASE BeginSetThreadEnabled
    <3>1. cmd' = cmd /\ ~unwoken
      BY <2>4 DEF BeginSetThreadEnabled, SyncsUnwoken
    <3>2. \/ core' = <<"sync_load", "synced", "set_thread_enabled">>
          \/ ~use_thread /\ core' = <<"set_thread_enabled">>
      BY <2>4, Concatenations DEF BeginSetThreadEnabled, Begin, Sync
    <3> QED
      BY <3>1, <3>2 DEF CallStacks
  <2>5. CASE BeginProcessShutdown
    <3>1. cmd' = cmd /\ ~unwoken
      BY <2>5 DEF BeginProcessShutdown, SyncsUnwoken
    <3>2. \/ core' = <<"sync_load", "synced", "shutdown", "join">>
          \/ ~use_thread /\ core' = <<"set_thread_enabled", "shutdown", "join">>
      BY <2>5, Concatenations DEF BeginProcessShutdown, Begin, Sync
    <3> QED
      BY <3>1, <3>2 DEF CallStacks
  <2> QED
    BY <2>1, <2>2, <2>3, <2>4, <2>5 DEF CoreCalls
<1>3. Top = "none" /\ ~Pushing /\ issued \in Nat /\ MaxCommands \in Nat
  BY <1>1, TopIs, QueueAssumption DEF Inv, Types, Pushing
<1>4. CASE core' \in PushStacks /\ \E size \in Sizes, type \in {"Call", "Create"} : cmd' = Command(type, size)
  <2>1. PICK push \in Pushes : core' = <<"alloc", "fill", push>>
    BY <1>4 DEF PushStacks
  <2>2. OrderInv' /\ Top' = "alloc" /\ Pushing'
    BY <2>1 DEF OrderInv, Ordered, Level, Above, Top, Pushing
  <2>3. BoundInv'
    BY <1>1, <1>3, <2>1, <2>2 DEF BoundInv, Pushed, Rank, history
  <2>4. DestroyInv'
    BY <2>1 DEF DestroyInv
  <2>5. cmd'.size <= COMMAND_QUEUE_SIZE - COMMAND_QUEUE_RESERVED_SPACE
    BY <1>4, QueueAssumption DEF Command
  <2>6. MayEnter("alloc")
    BY DEF MayEnter
  <2> QED
    BY <1>1, <1>3, <2>2, <2>3, <2>4, <2>5, <2>6, Enters
<1>5. CASE /\ core' \in CallStacks /\ cmd' = cmd /\ ~unwoken
           /\ core' # <<>> /\ core'[1] = "set_thread_enabled" => ~use_thread
  <2>1. /\ \A i \in 1 .. Len(core') : core'[i] \notin Pushes \cup AllocPoints \cup {"fill", "reset"}
        /\ OrderInv'
        /\ Top' = "none" \/ Top' = core'[1]
        /\ Top' \in {"none", "spin_check", "sync_load", "set_thread_enabled"}
        /\ Len(core') \in Nat
    <3>1. /\ \A i \in 1 .. Len(core') : core'[i] \notin Pushes \cup AllocPoints \cup {"fill", "reset"}
          /\ Len(core') \in Nat
      BY <1>5 DEF CallStacks
    <3>2. OrderInv'
      <4>1. ASSUME NEW s \in CallStacks PROVE Ordered(s)
        <5> USE DEF Ordered, Level, Above
        <5>1. Ordered(<<>>) /\ Ordered(<<"spin_check", "synced">>) /\ Ordered(<<"sync_load", "synced">>)
          OBVIOUS
        <5>2. Ordered(<<"set_thread_enabled">>) /\ Ordered(<<"sync_load", "synced", "set_thread_enabled">>)
          OBVIOUS
        <5>3. Ordered(<<"sync_load", "synced", "shutdown", "join">>)
          OBVIOUS
        <5>4. Ordered(<<"set_thread_enabled", "shutdown", "join">>)
          OBVIOUS
        <5> HIDE DEF Ordered
        <5> QED
          BY <4>1, <5>1, <5>2, <5>3, <5>4 DEF CallStacks
      <4> QED
        BY <1>5, <4>1 DEF OrderInv
    <3>3. /\ Top' = "none" \/ Top' = core'[1]
          /\ Top' \in {"none", "spin_check", "sync_load", "set_thread_enabled"}
      BY <1>5 DEF CallStacks, Top
    <3> QED
      BY <3>1, <3>2, <3>3
  <2>2. ~Pushing'
    BY <2>1 DEF Pushing
  <2>3. BoundInv'
    <3>1. \A p : Rank(p) \in 0 .. 4
      BY DEF Rank
    <3> QED
      BY <1>1, <1>3, <2>2, <3>1 DEF BoundInv, Pushed, history
  <2>4. DestroyInv'
    BY <2>1 DEF DestroyInv
  <2>5. MayEnter(Top')
    <3>1. CASE Top' = "set_thread_enabled"
      <4>1. ~use_thread
        BY <1>5, <2>1, <3>1 DEF Top
      <4>2. Drained /\ Parked
        BY <1>3, <4>1 DEF WakeInv, DirectInv
      <4> QED
        BY <1>5, <3>1, <4>2 DEF MayEnter, Synchronized
    <3>2. CASE Top' # "set_thread_enabled"
      BY <1>5, <2>1, <3>2 DEF MayEnter
    <3> QED
      BY <3>1, <3>2
  <2>6. cmd'.type # "Body" => cmd'.size <= COMMAND_QUEUE_SIZE - COMMAND_QUEUE_RESERVED_SPACE
    BY <1>5 DEF WakeInv, NumberInv
  <2> QED
    BY <1>1, <1>3, <2>1, <2>2, <2>3, <2>4, <2>5, <2>6, Enters
<1> QED
  BY <1>2, <1>4, <1>5

\* The functions that push commands of their own have fewer left to push.
LEMMA RankBelow ==
  ASSUME StackInv, OrderInv, core # <<>>, Top \in {"read_vram", "destroy", "create", "shutdown"}
  PROVE  \A i \in 2 .. Len(core) : Rank(core[i]) + 1 <= Rank(Top)
<1>1. Len(core) \in Nat \ {0} /\ Top = core[1]
  BY TopIs
<1> SUFFICES ASSUME NEW i \in 2 .. Len(core) PROVE Rank(core[i]) + 1 <= Rank(Top)
  OBVIOUS
<1>2. Level(Top) < Level(core[i]) /\ (i - 1 = 1 \/ Level(Top) < Level(core[i - 1]))
  BY <1>1 DEF OrderInv, Ordered
<1>3. i - 1 \in 1 .. Len(core) - 1 /\ (i - 1) + 1 = i
  BY <1>1
<1>4. Above(core[i - 1], core[i])
  BY <1>3 DEF OrderInv, Ordered
<1> USE DEF AllocPoints, Pushes, WakePoints, SyncPoints
<1>5. core[i] # "set_thread_enabled"
  <2> SUFFICES ASSUME core[i] = "set_thread_enabled" PROVE FALSE
    OBVIOUS
  <2>1. core[i - 1] = "synced"
    BY <1>4 DEF Above
  <2>2. Level("synced") = 4
    BY DEF Level
  <2>3. Level(Top) \in 6 .. 13
    BY DEF Level
  <2> QED
    BY <1>1, <1>2, <2>1, <2>2, <2>3
<1>6. core[i] # "read_vram" /\ (core[i] = "destroy" => Top = "read_vram")
      /\ (core[i] = "create" => Top \in {"read_vram", "destroy"})
      /\ (core[i] = "shutdown" => Top # "shutdown")
  BY <1>2 DEF Level
<1> QED
  BY <1>5, <1>6 DEF Rank

\* The commands SetThreadEnabled and ProcessShutdown push.
LEMMA PushFromWakes ==
  ASSUME Inv, WakeInv, NEW x \in {"read_vram", "destroy", "create", "shutdown"}, NEW type,
         NEW push \in Pushes, PushFrom(x, type, push), x = "destroy" <=> type = "Destroy",
         MayGo(x, <<"alloc", "fill", push>>)
  PROVE  WakeInv'
<1> USE DEF AllocPoints, Pushes, WakePoints, SyncPoints, WokenPoints, ThreadPoints, Busy
<1> DEFINE points == <<"alloc", "fill", push>>
<1>1. /\ UNCHANGED <<ring, wake, config, videoVars, history>> /\ At(x) /\ Goto(points)
      /\ \E size \in Sizes : cmd' = Command(type, size)
  BY DEF PushFrom
<1>2. Top = x /\ core # <<>> /\ Top = core[1] /\ Len(core) \in Nat \ {0} /\ issued \in Nat
  BY <1>1, TopIs DEF Inv, Types
<1>3. /\ OrderInv' /\ core' # <<>> /\ Top' = "alloc"
      /\ Len(core') = 3 + Len(core) - 1
      /\ core'[1] = "alloc" /\ core'[2] = "fill" /\ core'[3] = push
      /\ \A i \in 2 .. Len(core) : core'[3 + i - 1] = core[i]
  <2>1. /\ OrderInv' /\ core' # <<>> /\ Top' = points[1]
        /\ Len(core') = Len(points) + Len(core) - 1
        /\ \A i \in 1 .. Len(points) : core'[i] = points[i]
        /\ \A i \in 2 .. Len(core) : core'[Len(points) + i - 1] = core[i]
    BY <1>1, <1>2, Gone DEF Inv, WakeInv
  <2>2. Len(points) = 3 /\ points[1] = "alloc" /\ points[2] = "fill" /\ points[3] = push
    OBVIOUS
  <2> QED
    BY <2>1, <2>2
<1>4. ASSUME NEW j \in 4 .. Len(core')
      PROVE  j - 2 \in 2 .. Len(core) /\ core'[j] = core[j - 2]
  <2>1. j - 2 \in 2 .. Len(core) /\ 3 + (j - 2) - 1 = j
    BY <1>2, <1>3
  <2> QED
    BY <1>3, <2>1
<1>5. Level(Top) >= 5
  BY <1>2 DEF Level
<1>6. \A i \in 2 .. Len(core) : core[i] \notin Pushes \cup {"synced"}
  BY <1>2, <1>5, NothingPushedBelow DEF Inv, WakeInv
<1>7. Pushing' /\ ~Pushing
  <2>1. 3 \in 1 .. Len(core') /\ core'[3] \in Pushes
    BY <1>2, <1>3
  <2>2. \A i \in 1 .. Len(core) : i = 1 \/ i \in 2 .. Len(core)
    BY <1>2
  <2> QED
    BY <1>2, <1>6, <2>1, <2>2 DEF Pushing
<1>8. BoundInv'
  <2>1. Pushed' = issued + 1 /\ Pushed = issued
    BY <1>1, <1>2, <1>7 DEF Pushed, history
  <2>2. issued + Rank(x) <= MaxCommands + 3
    <3>1. 1 \in 1 .. Len(core)
      BY <1>2
    <3> QED
      BY <1>2, <2>1, <3>1 DEF WakeInv, BoundInv
  <2>3. Rank(x) \in 1 .. 4 /\ \A y : Rank(y) \in 0 .. 4
    BY DEF Rank
  <2>4. ASSUME NEW j \in 1 .. Len(core') PROVE issued + 1 + Rank(core'[j]) <= MaxCommands + 3
    <3>1. CASE j \in 1 .. 3
      <4>1. core'[j] \in {"alloc", "fill"} \cup Pushes
        BY <1>3, <3>1
      <4>2. Rank(core'[j]) = 0
        BY <4>1 DEF Rank
      <4> QED
        BY <1>2, <2>2, <2>3, <4>2, QueueAssumption
    <3>2. CASE j \notin 1 .. 3
      <4>1. j - 2 \in 2 .. Len(core) /\ core'[j] = core[j - 2]
        BY <1>4, <3>2
      <4> DEFINE a == Rank(core[j - 2])
                 b == Rank(x)
      <4>2. a + 1 <= b
        BY <1>2, <4>1, RankBelow DEF Inv, WakeInv
      <4>3. a \in 0 .. 4 /\ b \in 0 .. 4 /\ Rank(core'[j]) = a /\ issued + b <= MaxCommands + 3
        BY <2>2, <2>3, <4>1
      <4>4. MaxCommands \in Nat /\ issued \in Nat
        BY <1>2, QueueAssumption
      <4> HIDE DEF a, b
      <4> QED
        BY <4>2, <4>3, <4>4
    <3> QED
      BY <3>1, <3>2
  <2>5. issued + 1 <= MaxCommands + 3
    BY <1>2, <2>2, <2>3, QueueAssumption
  <2> QED
    BY <2>1, <2>4, <2>5 DEF BoundInv
<1>9. DestroyInv'
  <2> SUFFICES ASSUME NEW j \in 1 .. Len(core') - 1, core'[j + 1] = "reset"
               PROVE  /\ core'[j] = "PushCommandAndSync" => cmd'.type = "Destroy"
                      /\ core'[j] # "synced"
    BY DEF DestroyInv
  <2>1. CASE j \in 1 .. 2
    BY <1>3, <2>1
  <2>2. CASE j = 3
    <3>1. 4 \in 4 .. Len(core') /\ core'[4] = "reset"
      BY <1>2, <1>3, <2>2
    <3>2. core[2] = "reset" /\ 1 \in 1 .. Len(core) - 1
      BY <1>2, <1>3, <1>4, <3>1
    <3>3. Above(x, "reset")
      BY <1>2, <3>2 DEF WakeInv, OrderInv, Ordered
    <3>4. cmd'.type = "Destroy"
      BY <1>1, <3>3 DEF Above, Command
    <3> QED
      BY <1>3, <2>2, <3>4
  <2>3. CASE j \notin 1 .. 3
    <3>1. j \in 4 .. Len(core') /\ j + 1 \in 4 .. Len(core')
      BY <1>2, <1>3, <2>3
    <3>2. j - 2 \in 2 .. Len(core) /\ core'[j] = core[j - 2]
      BY <1>4, <3>1
    <3>3. core'[j] \notin Pushes \cup {"synced"}
      BY <1>6, <3>2
    <3> QED
      BY <3>3
  <2> QED
    BY <2>1, <2>2, <2>3
<1>10. cmd'.size <= COMMAND_QUEUE_SIZE - COMMAND_QUEUE_RESERVED_SPACE
  BY <1>1, QueueAssumption DEF Command
<1>11. MayEnter("alloc")
  BY DEF MayEnter
<1> QED
  BY <1>1, <1>2, <1>3, <1>7, <1>8, <1>9, <1>10, <1>11, Enters

\* The commands that SetThreadEnabled and ProcessShutdown push.
LEMMA PushOwnWakes == ASSUME Inv, WakeInv, PushOwn PROVE WakeInv'
<1> USE DEF Pushes
<1>1. /\ MayGo("read_vram", <<"alloc", "fill", "PushCommand">>)
      /\ MayGo("destroy", <<"alloc", "fill", "PushCommandAndSync">>)
      /\ MayGo("create", <<"alloc", "fill", "PushCommandAndSync">>)
      /\ MayGo("shutdown", <<"alloc", "fill", "PushCommandAndWakeThread">>)
  BY DEF MayGo, IsStack, Ordered, MayBeBelow, Above, Level, Rank, Points, AllocPoints, WakePoints,
         SyncPoints
<1>2. CASE PushFrom("read_vram", "Call", "PushCommand")
  BY <1>1, <1>2, PushFromWakes
<1>3. CASE PushFrom("destroy", "Destroy", "PushCommandAndSync")
  BY <1>1, <1>3, PushFromWakes
<1>4. CASE PushFrom("create", "Create", "PushCommandAndSync")
  BY <1>1, <1>4, PushFromWakes
<1>5. CASE PushFrom("shutdown", "Shutdown", "PushCommandAndWakeThread")
  BY <1>1, <1>5, PushFromWakes
<1> QED
  BY <1>2, <1>3, <1>4, <1>5 DEF PushOwn

\* The thread has been joined.
LEMMA JoinWakes == ASSUME Inv, WakeInv, Join PROVE WakeInv'
<1> USE DEF AllocPoints, Pushes, WakePoints, SyncPoints, WokenPoints, ThreadPoints, Busy
<1>1. /\ UNCHANGED <<ring, wake, config, videoVars, history, cmd>>
      /\ At("join") /\ core' = <<"joined">>
  BY DEF Join, coreLocals
<1>2. Top = "join" /\ core # <<>> /\ Len(core) \in Nat \ {0} /\ core[1] = "join" /\ issued \in Nat
  BY <1>1, TopIs DEF Inv, Types
<1>3. OrderInv' /\ Top' = "joined" /\ ~Pushing' /\ DestroyInv'
  BY <1>1 DEF OrderInv, Ordered, Top, Pushing, DestroyInv
<1>4. BoundInv' /\ ~Pushing
  <2>1. \A i \in 2 .. Len(core) : core[i] \notin Pushes \cup {"synced"}
    BY <1>2, NothingPushedBelow DEF Inv, WakeInv, Level
  <2>2. ~Pushing
    <3>1. \A i \in 1 .. Len(core) : i = 1 \/ i \in 2 .. Len(core)
      BY <1>2
    <3> QED
      BY <1>2, <2>1, <3>1 DEF Pushing
  <2>3. issued <= MaxCommands + 3
    BY <1>2, <2>2 DEF WakeInv, BoundInv, Pushed
  <2>4. Rank("joined") = 0
    BY DEF Rank
  <2> QED
    BY <1>1, <1>2, <1>3, <2>2, <2>3, <2>4, QueueAssumption DEF BoundInv, Pushed, history
<1>5. MayEnter("joined")
  BY DEF MayEnter
<1>6. cmd'.type # "Body" => cmd'.size <= COMMAND_QUEUE_SIZE - COMMAND_QUEUE_RESERVED_SPACE
  BY <1>1 DEF WakeInv, NumberInv
<1>7. \A i \in 1 .. Len(core') : core'[i] \notin AllocPoints \cup {"fill"}
  BY <1>1
<1> QED
  BY <1>1, <1>2, <1>3, <1>4, <1>5, <1>6, <1>7, Enters

-----------------------------------------------------------------------------
(* Steps of the core thread that use the wake count and the semaphores. *)

\* The count stays below the flag while commands are counted in twos.
LEMMA CountIsSmall ==
  ASSUME Inv, WakeInv
  PROVE  issued \in Nat /\ MaxCommands \in Nat /\ CPU_THREAD_IS_WAITING \in Nat
         /\ issued <= MaxCommands + 3 /\ 2 * issued + 3 < CPU_THREAD_IS_WAITING
<1>1. issued \in Nat /\ MaxCommands \in Nat
  BY QueueAssumption DEF Inv, Types
<1>2. issued <= MaxCommands + 3
  BY <1>1 DEF WakeInv, BoundInv, Pushed
<1> QED
  BY <1>1, <1>2, WakeCountAssumption

\* WakeThread adds its work, and posts if it finds the thread asleep.
LEMMA WakeThreadWakes == ASSUME Inv, WakeInv, WakeThread PROVE WakeInv'
<1> USE DEF AllocPoints, Pushes, WakePoints, SyncPoints, WokenPoints, ThreadPoints
<1>1. /\ UNCHANGED <<ring, config, videoVars, issued, executed, cmd>> /\ At("wake")
      /\ UNCHANGED <<thread_wake_semaphore, thread_is_done_semaphore>>
      /\ Count' = Count + 2 /\ unwoken' = FALSE
      /\ IF Count < 0 THEN Goto(<<"wake_post">>) ELSE Return
  BY DEF WakeThread, Count, WorkOfWake, NeedsPost, coreLocals
<1>2. Top = "wake" /\ core # <<>> /\ use_thread
  <2>1. Top = "wake" /\ core # <<>>
    BY <1>1, TopIs DEF Inv
  <2> QED
    BY <2>1 DEF WakeInv, DirectInv
<1>3. Count = SLEEPING \/ Count \in 0 .. 2 * issued - 1
  BY <1>2, CountIsSmall DEF WakeInv, SleepInv, CountInv, FlagInv, Work
<1>4. /\ Count' \in 1 .. 2 * issued + 1 /\ Count' < CPU_THREAD_IS_WAITING
      /\ Work(Count') = Count' /\ Count' > 0 /\ Count' # SLEEPING
  BY <1>1, <1>3, CountIsSmall DEF SLEEPING, Work
<1>5. /\ Drained' <=> Drained
      /\ IsNumbered' <=> IsNumbered
      /\ LastIsDestroy' <=> LastIsDestroy
  BY <1>1, SameRing DEF config, videoVars, videoLocals
<1>6. /\ OrderInv' /\ BoundInv' /\ DestroyInv' /\ (Pushing' <=> Pushing)
      /\ \A i \in 1 .. Len(core') : core'[i] \in AllocPoints \cup {"fill"} => Pushing'
      /\ IF Count = SLEEPING THEN Top' = "wake_post"
         ELSE Top' \in {"none", "full_load", "unprocessed_load", "spin_check", "sync_load",
                        "destroy", "join"}
  <2>1. CASE Count < 0
    <3>1. Goto(<<"wake_post">>) /\ MayGo("wake", <<"wake_post">>) /\ Plainly(<<"wake_post">>)
      BY <1>1, <2>1, Goings DEF Plainly
    <3> HIDE DEF AllocPoints, Pushes
    <3>2. Top \notin Pushes /\ \A i \in 1 .. Len(<<"wake_post">>) : <<"wake_post">>[i] \notin AllocPoints
      BY <1>2 DEF Pushes, AllocPoints
    <3> QED
      BY <1>1, <1>2, <1>3, <1>5, <2>1, <3>1, <3>2, GoingKeepsStack DEF SLEEPING
  <2>2. CASE ~(Count < 0)
    <3>1. Top' = "none" \/ Above("wake", Top')
      BY <1>1, <1>2, <1>5, <2>2, ReturnKeepsStack
    <3>2. Above("wake", Top') =>
            Top' \in {"full_load", "unprocessed_load", "spin_check", "sync_load", "destroy", "join"}
      BY DEF Above
    <3>3. Count # SLEEPING
      BY <2>2 DEF SLEEPING
    <3> QED
      BY <1>1, <1>2, <1>5, <2>2, <3>1, <3>2, <3>3, ReturnKeepsStack
  <2> QED
    BY <2>1, <2>2
<1>7. CountInv'
  BY <1>1, <1>4, <1>6, CountIsSmall DEF CountInv
<1>8. SleepInv'
  <2>1. Asleep' <=> Asleep
    BY <1>1 DEF Asleep, videoVars, videoLocals
  <2>2. Count' \in 0 .. 2 * CPU_THREAD_IS_WAITING - 1 /\ Count' >= 0
    BY <1>4, CountIsSmall
  <2>3. (Asleep /\ Count = SLEEPING) \/ Count # SLEEPING
    BY <1>2 DEF WakeInv, SleepInv, SLEEPING
  <2> QED
    BY <1>1, <1>2, <1>4, <1>6, <2>1, <2>2, <2>3 DEF WakeInv, SleepInv, videoVars, videoLocals
<1>9. FlagInv'
  BY <1>1, <1>2, <1>4, <1>6 DEF WakeInv, FlagInv, videoVars
<1>10. WokenInv'
  BY <1>1 DEF WokenInv
<1>11. LocalTypes'
  BY <1>1 DEF WakeInv, LocalTypes, config, videoVars, videoLocals
<1>12. NumberInv'
  BY <1>1, <1>2, <1>5, <1>6 DEF WakeInv, NumberInv, ring
<1>13. DrainInv'
  BY <1>4 DEF DrainInv, AllDone
<1>14. IdleInv'
  BY <1>1 DEF WakeInv, IdleInv, config, videoVars, videoLocals, ring
<1>15. DirectInv'
  BY <1>1, <1>2 DEF DirectInv, config
<1>16. SwitchInv'
  BY <1>6 DEF SwitchInv
<1> QED
  BY <1>6, <1>7, <1>8, <1>9, <1>10, <1>11, <1>12, <1>13, <1>14, <1>15, <1>16 DEF WakeInv

\* The post that follows.
LEMMA WakePostWakes == ASSUME Inv, WakeInv, WakePost PROVE WakeInv'
<1> USE DEF AllocPoints, Pushes, WakePoints, SyncPoints, WokenPoints, ThreadPoints
<1>1. /\ UNCHANGED <<ring, config, videoVars, history, cmd>> /\ At("wake_post") /\ Return
      /\ thread_wake_semaphore' = thread_wake_semaphore + 1
      /\ UNCHANGED thread_is_done_semaphore /\ Count' = Count
  BY DEF WakePost, Count, coreLocals
<1>2. Top = "wake_post" /\ core # <<>>
  BY <1>1, TopIs DEF Inv
<1>3. /\ Drained' <=> Drained
      /\ IsNumbered' <=> IsNumbered
      /\ LastIsDestroy' <=> LastIsDestroy
  BY <1>1, SameRing DEF config, videoVars, videoLocals, history
<1>4. /\ OrderInv' /\ BoundInv' /\ DestroyInv' /\ (Pushing' <=> Pushing)
      /\ \A i \in 1 .. Len(core') : core'[i] \in AllocPoints \cup {"fill"} => Pushing'
      /\ Top' = "none" \/ Above("wake_post", Top')
  BY <1>1, <1>2, <1>3, ReturnKeepsStack DEF history
<1>5. Top' \in {"none", "full_load", "unprocessed_load", "spin_check", "sync_load", "destroy", "join"}
  BY <1>4 DEF Above
<1>6. use_thread /\ ~unwoken
  BY <1>2 DEF WakeInv, DirectInv, WokenInv
<1>7. CountInv'
  BY <1>1, <1>5 DEF WakeInv, CountInv, history
<1>8. SleepInv'
  <2>1. Asleep' <=> Asleep
    BY <1>1 DEF Asleep, videoVars, videoLocals
  <2>2. Asleep /\ Count # SLEEPING /\ thread_wake_semaphore = 0 /\ Work(Count) > 0
    BY <1>2 DEF WakeInv, SleepInv
  <2>3. thread_wake_semaphore' = 1
    BY <1>1, <2>2
  <2> QED
    BY <1>1, <1>5, <2>1, <2>2, <2>3 DEF WakeInv, SleepInv, videoVars, videoLocals
<1>9. FlagInv'
  BY <1>1, <1>2, <1>5 DEF WakeInv, FlagInv, videoVars
<1>10. WokenInv'
  BY <1>1, <1>6 DEF WokenInv, history
<1>11. LocalTypes'
  BY <1>1 DEF WakeInv, LocalTypes, config, videoVars, videoLocals, history
<1>12. NumberInv'
  BY <1>1, <1>2, <1>3, <1>4, <1>5 DEF WakeInv, NumberInv, ring, history
<1>13. DrainInv'
  BY <1>1 DEF WakeInv, DrainInv, AllDone, videoVars, videoLocals, ring, history
<1>14. IdleInv'
  BY <1>1 DEF WakeInv, IdleInv, config, videoVars, videoLocals, ring
<1>15. DirectInv'
  BY <1>1, <1>6 DEF DirectInv, config
<1>16. SwitchInv'
  BY <1>5 DEF SwitchInv
<1> QED
  BY <1>4, <1>7, <1>8, <1>9, <1>10, <1>11, <1>12, <1>13, <1>14, <1>15, <1>16 DEF WakeInv

\* The compare-exchange sets the flag in a count that has not changed.
LEMMA SyncCASWakes == ASSUME Inv, WakeInv, SyncCAS PROVE WakeInv'
<1> USE DEF AllocPoints, Pushes, WakePoints, SyncPoints, WokenPoints, ThreadPoints
<1>1. /\ UNCHANGED <<ring, config, videoVars, history, cmd, sync_value>> /\ At("sync_cas")
      /\ UNCHANGED <<thread_wake_semaphore, thread_is_done_semaphore>>
      /\ IF Count = sync_value THEN Count' = SetFlag(sync_value) /\ Goto(<<"sync_wait">>)
         ELSE Count' = Count /\ Goto(<<"sync_load">>)
  BY DEF SyncCAS, Count, coreLocals
<1>2. Top = "sync_cas" /\ core # <<>> /\ ~unwoken
  <2>1. Top = "sync_cas" /\ core # <<>>
    BY <1>1, TopIs DEF Inv
  <2> QED
    BY <2>1 DEF WakeInv, WokenInv
<1>3. CASE Count # sync_value
  <2>1. UNCHANGED <<ring, wake, config, videoVars, history, cmd>> /\ Goto(<<"sync_load">>)
    BY <1>1, <1>3 DEF wake, Count
  <2>2. MayGo("sync_cas", <<"sync_load">>) /\ Plainly(<<"sync_load">>) /\ MayEnter("sync_load")
    BY <1>2, Goings DEF Plainly, MayEnter
  <2> QED
    BY <1>2, <2>1, <2>2, Goes DEF Busy
<1>4. CASE Count = sync_value
  <2>1. Count' = SetFlag(sync_value) /\ Goto(<<"sync_wait">>)
    BY <1>1, <1>4
  <2>2. /\ Drained' <=> Drained
        /\ IsNumbered' <=> IsNumbered
        /\ LastIsDestroy' <=> LastIsDestroy
    BY <1>1, SameRing DEF config, videoVars, videoLocals, history
  <2>3. /\ OrderInv' /\ BoundInv' /\ DestroyInv' /\ (Pushing' <=> Pushing) /\ Top' = "sync_wait"
        /\ \A i \in 1 .. Len(core') : core'[i] \in AllocPoints \cup {"fill"} => Pushing'
    <3>1. MayGo("sync_cas", <<"sync_wait">>) /\ Plainly(<<"sync_wait">>)
      BY Goings DEF Plainly
    <3> QED
      BY <1>1, <1>2, <2>1, <2>2, <3>1, GoingKeepsStack DEF history
  <2>4. Count \in 0 .. CPU_THREAD_IS_WAITING - 1 /\ CPU_THREAD_IS_WAITING \in Nat
    BY <1>2, <1>4, CountIsSmall DEF WakeInv, FlagInv
  <2>5. /\ Count' = Count + CPU_THREAD_IS_WAITING /\ Work(Count') = Count /\ Work(Count) = Count
        /\ Count' \in 0 .. 2 * CPU_THREAD_IS_WAITING - 1 /\ Count' >= CPU_THREAD_IS_WAITING
        /\ Count' >= 0 /\ Count >= 0 /\ Count # SLEEPING /\ Count' # SLEEPING
    BY <1>4, <2>1, <2>4 DEF SetFlag, FlagSet, Work, SLEEPING
  <2>6. CountInv'
    BY <1>1, <2>3, <2>5 DEF WakeInv, CountInv, history
  <2>7. SleepInv'
    <3>1. Asleep' <=> Asleep
      BY <1>1 DEF Asleep, videoVars, videoLocals
    <3> QED
      BY <1>1, <1>2, <2>3, <2>5, <3>1 DEF WakeInv, SleepInv, videoVars, videoLocals
  <2>8. FlagInv'
    BY <1>1, <1>2, <2>3, <2>5 DEF WakeInv, FlagInv, videoVars
  <2>9. WokenInv'
    BY <1>1, <1>2 DEF WakeInv, WokenInv, history, config
  <2>10. LocalTypes'
    BY <1>1 DEF WakeInv, LocalTypes, config, videoVars, videoLocals, history
  <2>11. NumberInv'
    BY <1>1, <1>2, <2>2, <2>3 DEF WakeInv, NumberInv, ring, history
  <2>12. DrainInv'
    BY <1>1, <2>5 DEF WakeInv, DrainInv, AllDone, videoVars, videoLocals, ring, history
  <2>13. IdleInv'
    BY <1>1 DEF WakeInv, IdleInv, config, videoVars, videoLocals, ring
  <2>14. DirectInv'
    <3>1. Parked => Parked'
      BY <1>1, <2>5 DEF Parked, ring, videoVars, videoLocals
    <3> QED
      BY <1>1, <1>2, <2>2, <2>3, <3>1 DEF WakeInv, DirectInv, config, ring
  <2>15. SwitchInv'
    <3>1. ~(Count' < CPU_THREAD_IS_WAITING)
      BY <2>4, <2>5
    <3> QED
      BY <2>3, <3>1 DEF SwitchInv
  <2> QED
    BY <2>3, <2>6, <2>7, <2>8, <2>9, <2>10, <2>11, <2>12, <2>13, <2>14, <2>15 DEF WakeInv
<1> QED
  BY <1>3, <1>4

\* The wait ends with the post.
LEMMA SyncWaitWakes == ASSUME Inv, WakeInv, SyncWait PROVE WakeInv'
<1> USE DEF AllocPoints, Pushes, WakePoints, SyncPoints, WokenPoints, ThreadPoints
<1>1. /\ UNCHANGED <<ring, config, videoVars, history, cmd>> /\ At("sync_wait") /\ Return
      /\ thread_is_done_semaphore > 0
      /\ thread_is_done_semaphore' = thread_is_done_semaphore - 1
      /\ UNCHANGED thread_wake_semaphore /\ Count' = Count
  BY DEF SyncWait, Count, coreLocals
<1>2. Top = "sync_wait" /\ core # <<>> /\ ~unwoken
  <2>1. Top = "sync_wait" /\ core # <<>>
    BY <1>1, TopIs DEF Inv
  <2> QED
    BY <2>1 DEF WakeInv, WokenInv
<1>3. /\ Drained' <=> Drained
      /\ IsNumbered' <=> IsNumbered
      /\ LastIsDestroy' <=> LastIsDestroy
  BY <1>1, SameRing DEF config, videoVars, videoLocals, history
<1>4. Asleep' <=> Asleep
  BY <1>1 DEF Asleep, videoVars, videoLocals
<1>5. Parked' <=> Parked
  BY <1>1, <1>4 DEF Parked, ring, videoVars, videoLocals
<1>6. /\ OrderInv' /\ BoundInv' /\ DestroyInv' /\ (Pushing' <=> Pushing)
      /\ \A i \in 1 .. Len(core') : core'[i] \in AllocPoints \cup {"fill"} => Pushing'
      /\ Top' = "none" \/ Above("sync_wait", Top')
  BY <1>1, <1>2, <1>3, ReturnKeepsStack DEF history
<1>7. Top' \in {"none", "synced"}
  BY <1>6 DEF Above
<1>8. /\ Count < CPU_THREAD_IS_WAITING /\ video # "sleep_post" /\ thread_is_done_semaphore = 1
  BY <1>1, <1>2 DEF WakeInv, FlagInv
<1>9. Synchronized'
  <2>1. Synchronized
    BY <1>2, <1>8 DEF WakeInv, SwitchInv
  <2> QED
    BY <1>1, <1>3, <1>5, <2>1 DEF Synchronized, config
<1>10. CountInv'
  BY <1>1, <1>7 DEF WakeInv, CountInv, history
<1>11. SleepInv'
  BY <1>1, <1>2, <1>4, <1>7 DEF WakeInv, SleepInv, videoVars, videoLocals
<1>12. FlagInv'
  BY <1>1, <1>7, <1>8 DEF FlagInv, videoVars
<1>13. WokenInv'
  BY <1>1, <1>2 DEF WokenInv, history
<1>14. LocalTypes'
  BY <1>1 DEF WakeInv, LocalTypes, config, videoVars, videoLocals, history
<1>15. NumberInv'
  BY <1>1, <1>2, <1>3, <1>6, <1>7 DEF WakeInv, NumberInv, ring, history
<1>16. DrainInv'
  BY <1>1 DEF WakeInv, DrainInv, AllDone, videoVars, videoLocals, ring, history
<1>17. IdleInv'
  BY <1>1 DEF WakeInv, IdleInv, config, videoVars, videoLocals, ring
<1>18. DirectInv'
  BY <1>1, <1>2, <1>3, <1>5, <1>7 DEF WakeInv, DirectInv, config, ring
<1>19. SwitchInv'
  BY <1>7, <1>9 DEF SwitchInv
<1> QED
  BY <1>6, <1>10, <1>11, <1>12, <1>13, <1>14, <1>15, <1>16, <1>17, <1>18, <1>19 DEF WakeInv

-----------------------------------------------------------------------------
(* Steps of the core thread that reset the ring and change threads. *)

\* Without a device the thread changes at once, before the ring is reset.
LEMMA SetThreadEnabledWakes == ASSUME Inv, WakeInv, SetThreadEnabled PROVE WakeInv'
<1> USE DEF AllocPoints, Pushes, WakePoints, SyncPoints, WokenPoints, ThreadPoints
<1>1. /\ UNCHANGED <<ring, wake, gpu_device, run_idle_flag, videoVars, history, cmd>>
      /\ At("set_thread_enabled")
  BY DEF SetThreadEnabled, coreLocals
<1>2. /\ Top = "set_thread_enabled" /\ core # <<>> /\ Synchronized /\ ~unwoken
  <2>1. Top = "set_thread_enabled" /\ core # <<>>
    BY <1>1, TopIs DEF Inv
  <2> QED
    BY <2>1 DEF WakeInv, SwitchInv, WokenInv
<1>3. /\ MayGo("set_thread_enabled",
               <<"read_vram", "destroy", "reset", "reset_read_ptr", "enable", "create">>)
      /\ MayGo("set_thread_enabled", <<"reset", "reset_read_ptr">>)
  BY DEF MayGo, IsStack, Ordered, MayBeBelow, Above, Level, Rank, Points
<1>4. CASE gpu_device
  <2> DEFINE points == <<"read_vram", "destroy", "reset", "reset_read_ptr", "enable", "create">>
  <2>1. Goto(points) /\ UNCHANGED <<ring, wake, config, videoVars, history, cmd>>
    BY <1>1, <1>4 DEF SetThreadEnabled, config
  <2>2. /\ Plainly(points) /\ points[1] = "read_vram"
        /\ \A i \in 1 .. Len(points) : points[i] \notin AllocPoints
    BY DEF Plainly
  <2>3. MayEnter("read_vram")
    BY DEF MayEnter
  <2> HIDE DEF points
  <2>4. MayGo(Top, points)
    BY <1>2, <1>3 DEF points
  <2> QED
    BY <1>2, <2>1, <2>2, <2>3, <2>4, Goes DEF Busy
<1>5. CASE ~gpu_device
  <2>1. Goto(<<"reset", "reset_read_ptr">>)
    BY <1>5 DEF SetThreadEnabled
  <2>2. use_thread' \in BOOLEAN
    BY <1>1, <1>5 DEF SetThreadEnabled
  <2>3. /\ Drained' <=> Drained
        /\ IsNumbered' <=> IsNumbered
        /\ LastIsDestroy' <=> LastIsDestroy
    BY <1>1, SameRing DEF videoVars, videoLocals, history
  <2>4. (Asleep' <=> Asleep) /\ Count' = Count
    BY <1>1 DEF Asleep, Count, videoVars, videoLocals, wake
  <2>5. Parked' <=> Parked
    BY <1>1, <2>4 DEF Parked, ring, videoVars, videoLocals
  <2>6. /\ OrderInv' /\ BoundInv' /\ DestroyInv' /\ (Pushing' <=> Pushing) /\ Top' = "reset"
        /\ \A i \in 1 .. Len(core') : core'[i] \in AllocPoints \cup {"fill"} => Pushing'
    <3>1. /\ Plainly(<<"reset", "reset_read_ptr">>) /\ <<"reset", "reset_read_ptr">>[1] = "reset"
          /\ \A i \in 1 .. Len(<<"reset", "reset_read_ptr">>) :
               <<"reset", "reset_read_ptr">>[i] \notin AllocPoints
      BY DEF Plainly
    <3>2. MayGo(Top, <<"reset", "reset_read_ptr">>) /\ Top \notin Pushes
      BY <1>2, <1>3
    <3> HIDE DEF AllocPoints, Pushes
    <3> QED
      BY <1>1, <1>2, <2>1, <2>3, <3>1, <3>2, GoingKeepsStack DEF history
  <2>7. Synchronized'
    BY <1>1, <1>2, <2>3, <2>5 DEF Synchronized
  <2>8. CountInv'
    BY <1>1, <2>4, <2>6 DEF WakeInv, CountInv, history
  <2>9. SleepInv'
    BY <1>1, <1>2, <2>4, <2>6 DEF WakeInv, SleepInv, wake, videoVars, videoLocals
  <2>10. FlagInv'
    BY <1>1, <1>2, <2>4, <2>6 DEF WakeInv, FlagInv, wake, videoVars
  <2>11. WokenInv'
    BY <1>1, <1>2 DEF WokenInv, history
  <2>12. LocalTypes'
    BY <1>1, <2>2 DEF WakeInv, LocalTypes, videoVars, videoLocals, history
  <2>13. NumberInv'
    BY <1>1, <1>2, <2>3, <2>6 DEF WakeInv, NumberInv, ring, history
  <2>14. DrainInv'
    BY <1>1, <2>4 DEF WakeInv, DrainInv, AllDone, videoVars, videoLocals, ring, history
  <2>15. IdleInv'
    BY <1>1 DEF WakeInv, IdleInv, videoVars, videoLocals, ring
  <2>16. DirectInv'
    BY <2>6 DEF DirectInv
  <2>17. SwitchInv'
    BY <1>1, <1>5, <2>6, <2>7 DEF SwitchInv
  <2> QED
    BY <2>6, <2>8, <2>9, <2>10, <2>11, <2>12, <2>13, <2>14, <2>15, <2>16, <2>17 DEF WakeInv
<1> QED
  BY <1>4, <1>5

\* With one, after the reset.
LEMMA EnableWakes == ASSUME Inv, WakeInv, Enable PROVE WakeInv'
<1> USE DEF AllocPoints, Pushes, WakePoints, SyncPoints, WokenPoints, ThreadPoints
<1>1. /\ UNCHANGED <<ring, wake, gpu_device, run_idle_flag, videoVars, history, cmd>>
      /\ At("enable") /\ Return /\ use_thread' \in BOOLEAN
  BY DEF Enable, coreLocals
<1>2. /\ Top = "enable" /\ core # <<>> /\ Drained /\ Parked /\ command_fifo_read_ptr = 0 /\ ~unwoken
  <2>1. Top = "enable" /\ core # <<>>
    BY <1>1, TopIs DEF Inv
  <2> QED
    BY <2>1 DEF WakeInv, SwitchInv, WokenInv
<1>3. /\ Drained' <=> Drained
      /\ IsNumbered' <=> IsNumbered
      /\ LastIsDestroy' <=> LastIsDestroy
  BY <1>1, SameRing DEF videoVars, videoLocals, history
<1>4. (Asleep' <=> Asleep) /\ Count' = Count
  BY <1>1 DEF Asleep, Count, videoVars, videoLocals, wake
<1>5. Parked' <=> Parked
  BY <1>1, <1>4 DEF Parked, ring, videoVars, videoLocals
<1>6. /\ OrderInv' /\ BoundInv' /\ DestroyInv' /\ (Pushing' <=> Pushing)
      /\ \A i \in 1 .. Len(core') : core'[i] \in AllocPoints \cup {"fill"} => Pushing'
      /\ Top' = "none" \/ Above("enable", Top')
  BY <1>1, <1>2, <1>3, ReturnKeepsStack DEF history
<1>7. Top' \in {"none", "create"}
  BY <1>6 DEF Above
<1>8. CountInv'
  BY <1>1, <1>4, <1>7 DEF WakeInv, CountInv, history
<1>9. SleepInv'
  BY <1>1, <1>2, <1>4, <1>7 DEF WakeInv, SleepInv, wake, videoVars, videoLocals
<1>10. FlagInv'
  BY <1>1, <1>2, <1>4, <1>7 DEF WakeInv, FlagInv, wake, videoVars
<1>11. WokenInv'
  BY <1>1, <1>2 DEF WokenInv, history
<1>12. LocalTypes'
  BY <1>1 DEF WakeInv, LocalTypes, videoVars, videoLocals, history
<1>13. NumberInv'
  BY <1>1, <1>2, <1>3, <1>6, <1>7 DEF WakeInv, NumberInv, ring, history
<1>14. DrainInv'
  BY <1>1, <1>4 DEF WakeInv, DrainInv, AllDone, videoVars, videoLocals, ring, history
<1>15. IdleInv'
  BY <1>1 DEF WakeInv, IdleInv, videoVars, videoLocals, ring
<1>16. DirectInv'
  BY <1>1, <1>2, <1>3, <1>5, <1>7 DEF DirectInv, ring
<1>17. SwitchInv'
  BY <1>7 DEF SwitchInv
<1> QED
  BY <1>6, <1>8, <1>9, <1>10, <1>11, <1>12, <1>13, <1>14, <1>15, <1>16, <1>17 DEF WakeInv

\* The write pointer is reset first.
LEMMA ResetWakes == ASSUME Inv, WakeInv, Reset PROVE WakeInv'
<1> USE DEF AllocPoints, Pushes, WakePoints, SyncPoints, WokenPoints, ThreadPoints
<1>1. /\ UNCHANGED <<command_fifo_read_ptr, wake, config, videoVars, history, cmd>>
      /\ At("reset") /\ Return /\ command_fifo_write_ptr' = 0
  BY DEF Reset, coreLocals
<1>2. /\ Top = "reset" /\ core # <<>> /\ Drained /\ Parked /\ ~gpu_device /\ ~unwoken
  <2>1. Top = "reset" /\ core # <<>>
    BY <1>1, TopIs DEF Inv
  <2> QED
    BY <2>1 DEF WakeInv, SwitchInv, WokenInv, Synchronized
<1>3. (Asleep' <=> Asleep) /\ Count' = Count
  BY <1>1 DEF Asleep, Count, videoVars, videoLocals, wake
<1>4. Parked' /\ (Asleep' \/ Drained')
  <2>1. CASE Asleep /\ Count = SLEEPING
    BY <1>3, <2>1 DEF Parked
  <2>2. CASE command_fifo_read_ptr = 0 /\ command_fifo_write_ptr = 0 /\ write_ptr = 0
    BY <1>1, <1>2, <2>2 DEF Parked, Drained, videoVars, videoLocals, history
  <2> QED
    BY <1>2, <2>1, <2>2 DEF Parked
<1>5. /\ OrderInv' /\ BoundInv' /\ DestroyInv' /\ (Pushing' <=> Pushing)
      /\ \A i \in 1 .. Len(core') : core'[i] \in AllocPoints \cup {"fill"} => Pushing'
      /\ Top' = "none" \/ Above("reset", Top')
  <2>1. Level("reset") >= 5
    BY DEF Level
  <2> QED
    BY <1>1, <1>2, <2>1, ReturnKeepsStack DEF history
<1>6. Top' = "reset_read_ptr"
  <2>1. core \in Seq(Points) /\ core[Len(core)] # "reset" /\ core[1] = "reset" /\ Len(core) \in Nat
    BY <1>2, TopIs DEF Inv, StackInv, IsStack
  <2>2. Len(core') = Len(core) - 1
    BY <1>1, <1>2, Returned DEF Inv, WakeInv
  <2>3. core' # <<>>
    BY <2>1, <2>2
  <2>4. Top' # "none"
    BY <1>1, <1>2, <2>3, Returned DEF Inv, WakeInv
  <2> QED
    BY <1>5, <2>4 DEF Above
<1>7. CountInv'
  BY <1>1, <1>3, <1>6 DEF WakeInv, CountInv, history
<1>8. SleepInv'
  BY <1>1, <1>2, <1>3, <1>6 DEF WakeInv, SleepInv, wake, videoVars, videoLocals
<1>9. FlagInv'
  BY <1>1, <1>2, <1>3, <1>6 DEF WakeInv, FlagInv, wake, videoVars
<1>10. WokenInv'
  BY <1>1, <1>2 DEF WokenInv, history
<1>11. LocalTypes'
  BY <1>1 DEF WakeInv, LocalTypes, config, videoVars, videoLocals, history
<1>12. NumberInv'
  BY <1>1, <1>5, <1>6 DEF WakeInv, NumberInv, history
<1>13. DrainInv'
  BY <1>1, <1>2 DEF DrainInv, AllDone, Drained, history
<1>14. IdleInv'
  BY <1>1 DEF WakeInv, IdleInv, config, videoVars, videoLocals
<1>15. DirectInv'
  BY <1>6 DEF DirectInv
<1>16. SwitchInv'
  BY <1>1, <1>2, <1>4, <1>6 DEF SwitchInv, Drained, config, history
<1> QED
  BY <1>5, <1>7, <1>8, <1>9, <1>10, <1>11, <1>12, <1>13, <1>14, <1>15, <1>16 DEF WakeInv

\* Then the read pointer, and the ring is as it was at first.
LEMMA ResetReadPtrWakes == ASSUME Inv, WakeInv, ResetReadPtr PROVE WakeInv'
<1> USE DEF AllocPoints, Pushes, WakePoints, SyncPoints, WokenPoints, ThreadPoints
<1>1. /\ UNCHANGED <<command_fifo_write_ptr, wake, config, videoVars, history, cmd>>
      /\ At("reset_read_ptr") /\ Return /\ command_fifo_read_ptr' = 0
  BY DEF ResetReadPtr, coreLocals
<1>2. /\ Top = "reset_read_ptr" /\ core # <<>> /\ ~unwoken
      /\ Len(executed) = issued /\ ~gpu_device
      /\ command_fifo_write_ptr = 0 /\ Parked /\ (Asleep \/ Drained)
  <2>1. Top = "reset_read_ptr" /\ core # <<>>
    BY <1>1, TopIs DEF Inv
  <2> QED
    BY <2>1 DEF WakeInv, SwitchInv, WokenInv
<1>3. (Asleep' <=> Asleep) /\ Count' = Count
  BY <1>1 DEF Asleep, Count, videoVars, videoLocals, wake
<1>4. Parked'
  BY <1>1, <1>2, <1>3 DEF Parked, videoVars, videoLocals
<1>5. Drained'
  BY <1>1, <1>2 DEF Asleep, Drained, videoVars, videoLocals, history
<1>6. IsNumbered'
  <2>1. \A o \in 0 .. COMMAND_QUEUE_SIZE - 1 : ~Unread(o)'
    BY <1>1, <1>2 DEF Unread
  <2>2. Position' = 0
    BY <1>1, <1>5 DEF Position, Drained
  <2>3. NumberAt(Position)' = issued' + 1
    BY <1>1, <1>2, <2>2 DEF NumberAt
  <2> QED
    BY <1>1, <1>2, <2>1, <2>3 DEF IsNumbered, history
<1>7. /\ OrderInv' /\ BoundInv' /\ DestroyInv' /\ (Pushing' <=> Pushing)
      /\ \A i \in 1 .. Len(core') : core'[i] \in AllocPoints \cup {"fill"} => Pushing'
      /\ Top' = "none" \/ Above("reset_read_ptr", Top')
  <2>1. Level("reset_read_ptr") >= 5
    BY DEF Level
  <2> QED
    BY <1>1, <1>2, <2>1, ReturnKeepsStack DEF history
<1>8. Top' \in {"none", "enable", "shutdown"}
  BY <1>7 DEF Above
<1>9. CountInv'
  BY <1>1, <1>3, <1>8 DEF WakeInv, CountInv, history
<1>10. SleepInv'
  BY <1>1, <1>2, <1>3, <1>8 DEF WakeInv, SleepInv, wake, videoVars, videoLocals
<1>11. FlagInv'
  BY <1>1, <1>2, <1>3, <1>8 DEF WakeInv, FlagInv, wake, videoVars
<1>12. WokenInv'
  BY <1>1, <1>2 DEF WokenInv, history
<1>13. LocalTypes'
  BY <1>1 DEF WakeInv, LocalTypes, config, videoVars, videoLocals, history
<1>14. NumberInv'
  BY <1>1, <1>6, <1>7, <1>8 DEF WakeInv, NumberInv, history
<1>15. DrainInv'
  BY <1>1, <1>2 DEF DrainInv, AllDone, history
<1>16. IdleInv'
  BY <1>1 DEF WakeInv, IdleInv, config, videoVars, videoLocals
<1>17. DirectInv'
  BY <1>1, <1>4, <1>5, <1>8 DEF DirectInv
<1>18. SwitchInv'
  BY <1>1, <1>4, <1>5, <1>8 DEF SwitchInv
<1> QED
  BY <1>7, <1>9, <1>10, <1>11, <1>12, <1>13, <1>14, <1>15, <1>16, <1>17, <1>18 DEF WakeInv

-----------------------------------------------------------------------------
(* Steps of the core thread that write into the ring. *)

\* AllocateCommand's callers write the command to the place it has found.
LEMMA FillWakes == ASSUME Inv, WakeInv, Fill PROVE WakeInv'
<1> DEFINE W == command_fifo_write_ptr
           R == command_fifo_read_ptr
           D == command_fifo_data
           S == COMMAND_QUEUE_SIZE
<1>1. /\ UNCHANGED <<command_fifo_write_ptr, command_fifo_read_ptr, wake, config, videoVars, history>>
      /\ At("fill") /\ Return /\ cmd' = [cmd EXCEPT !.id = issued + 1]
      /\ D' = Store(W, cmd')
  BY DEF Fill
<1>2. /\ Top = "fill" /\ core # <<>> /\ Types /\ Room /\ S \in Nat /\ core[1] = "fill" /\ Len(core) > 0
  BY <1>1, TopIs, QueueAssumption DEF Inv, AllocInv
<1>3. cmd'.type = cmd.type /\ cmd'.size = cmd.size /\ cmd'.id = issued + 1 /\ cmd.size \in Nat \ {0}
  <2>1. cmd.type # "Body"
    <3>1. 1 \in 1 .. Len(core) /\ core[1] \in CommandPoints
      BY <1>2, TopIs DEF Inv, CommandPoints
    <3> QED
      BY <3>1 DEF Inv, StackInv, Within
  <2> QED
    BY <1>1, <1>2, <2>1 DEF Types, Commands
<1>4. /\ W \in 0 .. S - 1 /\ R \in 0 .. S - 1
      /\ W + cmd.size < S /\ (R <= W \/ R > W + cmd.size)
  BY <1>2, <1>3 DEF Types, Room
<1>5. /\ D'[W].id = issued + 1 /\ D'[W].type = cmd.type
      /\ \A o \in 0 .. S - 1 : o \notin W .. W + cmd.size - 1 => D'[o] = D[o]
  <2>1. \A o \in 0 .. S - 1 :
          D'[o] = IF o = W THEN cmd' ELSE IF o \in W .. W + cmd.size - 1 THEN Body ELSE D[o]
    BY <1>1, <1>3 DEF Store
  <2>2. D'[W] = cmd'
    BY <1>4, <2>1
  <2>3. ASSUME NEW o \in 0 .. S - 1, o \notin W .. W + cmd.size - 1 PROVE D'[o] = D[o]
    <3>1. o # W
      BY <1>3, <1>4, <2>3
    <3> QED
      BY <2>1, <2>3, <3>1
  <2> QED
    BY <1>3, <2>2, <2>3
<1>6. \A o : Unread(o)' <=> Unread(o)
  BY <1>1 DEF Unread
<1>7. \A o \in 0 .. S - 1 : Unread(o) =>
        /\ o \notin W .. W + cmd.size - 1 /\ D'[o] = D[o]
        /\ IsCommand(o)' <=> IsCommand(o)
  <2> SUFFICES ASSUME NEW o \in 0 .. S - 1, Unread(o) PROVE o \notin W .. W + cmd.size - 1
    BY <1>5 DEF IsCommand
  <2> QED
    BY <1>3, <1>4 DEF Unread
<1>8. ASSUME IsNumbered PROVE IsNumbered'
  <2>1. ~At("reset_read_ptr")
    BY <1>2, TopIs DEF Inv
  <2>2. ASSUME NEW p, Place(p) PROVE NumberAt(p)' = NumberAt(p)
    <3>1. CASE p = W
      BY <1>1, <3>1 DEF NumberAt, history
    <3>2. CASE p # W
      <4>1. p \in 0 .. S - 1 /\ Unread(p) /\ D'[p] = D[p]
        BY <1>7, <2>2, <3>2 DEF Place
      <4>2. W # 0 => D'[0] = D[0]
        <5> SUFFICES ASSUME W # 0 PROVE D'[0] = D[0]
          OBVIOUS
        <5>1. W \in 1 .. S - 1 /\ S \in Nat
          BY <1>2, <1>4
        <5>2. 0 \in 0 .. S - 1 /\ 0 \notin W .. W + cmd.size - 1
          BY <1>3, <5>1
        <5> QED
          BY <1>5, <5>2
      <4> QED
        BY <1>1, <3>2, <4>1, <4>2 DEF NumberAt, history
    <3> QED
      BY <3>1, <3>2
  <2>3. Place(Position) /\ Position' = Position
    BY <1>1, <1>8, <2>1, Places DEF Position, videoVars, videoLocals
  <2>4. NumberAt(Position)' = Len(executed)' + 1
    <3>1. NumberAt(Position) = Len(executed) + 1
      BY <1>8 DEF IsNumbered
    <3>2. NumberAt(Position)' = NumberAt(Position)
      <4>1. ASSUME NEW p, p = Position PROVE NumberAt(p)' = NumberAt(p)
        BY <2>2, <2>3, <4>1
      <4> QED
        BY <2>3, <4>1 DEF NumberAt
    <3> QED
      BY <1>1, <3>1, <3>2 DEF history
  <2>5. ASSUME NEW o \in 0 .. S - 1, Unread(o)', IsCommand(o)'
        PROVE  D'[o].id <= issued' /\ NumberAt(o + D[o].size)' = D'[o].id + 1 /\ D'[o] = D[o]
    <3>1. Unread(o) /\ IsCommand(o) /\ D'[o] = D[o]
      BY <1>6, <1>7, <2>5
    <3>2. Place(o + D[o].size) /\ D[o].id <= issued /\ NumberAt(o + D[o].size) = D[o].id + 1
      BY <1>8, <2>1, <3>1, Places DEF IsNumbered
    <3> QED
      BY <1>1, <2>2, <3>1, <3>2 DEF history
  <2>6. ASSUME W < R, NEW o \in R .. S - 1, D'[o].type = "Wraparound", NEW k \in o + 1 .. S - 1
        PROVE  ~IsHeader(D', k)
    <3>1. D'[o] = D[o] /\ D'[k] = D[k] /\ k \in 0 .. S - 1
      BY <1>3, <1>4, <1>5, <2>6
    <3> QED
      BY <1>8, <2>6, <3>1 DEF IsNumbered, IsHeader
  <2> QED
    BY <1>1, <2>4, <2>5, <2>6 DEF IsNumbered
<1>9. LastIsDestroy => LastIsDestroy'
  BY <1>1, <1>6, <1>7 DEF LastIsDestroy, history, config
<1>10. (Asleep' <=> Asleep) /\ Count' = Count
  BY <1>1 DEF Asleep, Count, videoVars, videoLocals, wake
<1>11. (Parked' <=> Parked) /\ (Drained' <=> Drained)
  BY <1>1, <1>10 DEF Parked, Drained, videoVars, videoLocals, history
<1> USE DEF AllocPoints, Pushes, WakePoints, SyncPoints, WokenPoints, ThreadPoints
<1>12. /\ OrderInv' /\ BoundInv' /\ DestroyInv' /\ (Pushing' <=> Pushing)
       /\ \A i \in 1 .. Len(core') : core'[i] \in AllocPoints \cup {"fill"} => Pushing'
       /\ Top' = "none" \/ Above("fill", Top')
  BY <1>1, <1>2, <1>3, <1>9, ReturnKeepsStack DEF history
<1>13. Top' \in {"none"} \cup Pushes
  BY <1>12 DEF Above
<1>14. CountInv'
  BY <1>1, <1>10, <1>13 DEF WakeInv, CountInv, history
<1>15. SleepInv'
  BY <1>1, <1>2, <1>10, <1>13 DEF WakeInv, SleepInv, wake, videoVars, videoLocals
<1>16. FlagInv'
  BY <1>1, <1>2, <1>10, <1>13 DEF WakeInv, FlagInv, wake, videoVars
<1>17. WokenInv'
  BY <1>1, <1>13 DEF WakeInv, WokenInv, history, config
<1>18. LocalTypes'
  BY <1>1 DEF WakeInv, LocalTypes, config, videoVars, videoLocals, history
<1>19. NumberInv'
  <2>1. IsNumbered'
    BY <1>2, <1>8 DEF WakeInv, NumberInv
  <2> HIDE DEF AllocPoints, Pushes
  <2> QED
    BY <1>1, <1>2, <1>3, <1>5, <1>12, <2>1 DEF WakeInv, NumberInv, history
<1>20. DrainInv'
  BY <1>1, <1>10 DEF WakeInv, DrainInv, AllDone, videoVars, videoLocals, history
<1>21. IdleInv'
  BY <1>1 DEF WakeInv, IdleInv, config, videoVars, videoLocals
<1>22. DirectInv'
  BY <1>1, <1>2, <1>11, <1>13 DEF WakeInv, DirectInv, config
<1>23. SwitchInv'
  BY <1>13 DEF SwitchInv
<1> QED
  BY <1>12, <1>14, <1>15, <1>16, <1>17, <1>18, <1>19, <1>20, <1>21, <1>22, <1>23 DEF WakeInv

\* The dummy command takes the number of the next one, and the writer goes to 0.
LEMMA WrapWakes == ASSUME Inv, WakeInv, Wrap PROVE WakeInv'
<1> DEFINE W == command_fifo_write_ptr
           R == command_fifo_read_ptr
           D == command_fifo_data
           S == COMMAND_QUEUE_SIZE
           dummy == Command("Wraparound", S - W)
<1>1. /\ UNCHANGED <<command_fifo_read_ptr, wake, config, videoVars, history, cmd>>
      /\ At("wrap") /\ Goto(<<"alloc">>) /\ W' = 0 /\ D' = Store(W, dummy)
  BY DEF Wrap, coreLocals
<1>2. /\ Top = "wrap" /\ core # <<>> /\ Types /\ S \in Nat /\ core[1] = "wrap" /\ Len(core) > 0
      /\ R <= W /\ R # 0
  BY <1>1, TopIs, QueueAssumption DEF Inv, AllocInv
<1>3. use_thread /\ Len(core) \in Nat /\ IsNumbered /\ Pushing
  <2>1. use_thread
    BY <1>2 DEF WakeInv, DirectInv, ThreadPoints
  <2>2. 1 \in 1 .. Len(core)
    BY <1>2, TopIs DEF Inv
  <2> QED
    BY <1>2, <2>1, <2>2, TopIs DEF WakeInv, NumberInv, AllocPoints, Inv
<1>4. W \in 0 .. S - 1 /\ R \in 1 .. S - 1 /\ W > 0
  BY <1>2 DEF Types
<1>5. /\ D'[W].type = "Wraparound"
      /\ \A o \in 0 .. W - 1 : D'[o] = D[o]
      /\ \A o \in W + 1 .. S - 1 : D'[o].type = "Body"
  <2>1. \A o \in 0 .. S - 1 :
          D'[o] = IF o = W THEN dummy ELSE IF o \in W .. W + (S - W) - 1 THEN Body ELSE D[o]
    BY <1>1 DEF Store, Command
  <2>2. \A o \in 0 .. W - 1 : o \in 0 .. S - 1 /\ o # W /\ o \notin W .. W + (S - W) - 1
    BY <1>2, <1>4
  <2>3. \A o \in W + 1 .. S - 1 : o \in 0 .. S - 1 /\ o # W /\ o \in W .. W + (S - W) - 1
    BY <1>2, <1>4
  <2>4. dummy.type = "Wraparound" /\ Body.type = "Body"
    BY DEF Command, Body
  <2> HIDE DEF dummy
  <2> QED
    BY <1>4, <2>1, <2>2, <2>3, <2>4
<1>6. \A o : (Unread(o) <=> o \in R .. W - 1) /\ (Unread(o)' <=> o \in R .. S - 1)
  BY <1>1, <1>2, <1>4 DEF Unread
<1>7. \A o \in 0 .. S - 1 : Unread(o)' /\ IsCommand(o)' => Unread(o) /\ IsCommand(o) /\ D'[o] = D[o]
  BY <1>4, <1>5, <1>6 DEF IsCommand
<1>8. ~At("reset_read_ptr")
  BY <1>2, TopIs DEF Inv
<1>9. \A p : Place(p) /\ p # W => p \in R .. W - 1 /\ IsCommand(p) /\ D'[p] = D[p]
  <2> SUFFICES ASSUME NEW p, Place(p), p # W PROVE p \in R .. W - 1 /\ IsCommand(p) /\ D'[p] = D[p]
    OBVIOUS
  <2>1. p \in R .. W - 1
    BY <1>6 DEF Place
  <2>2. IsCommand(p)
    BY <1>2, <1>3, <1>4, <1>8, Places
  <2> QED
    BY <1>4, <1>5, <2>1, <2>2
<1>10. IsNumbered'
  <2>1. ASSUME NEW p, Place(p) PROVE NumberAt(p)' = NumberAt(p)
    <3>1. CASE p = W
      BY <1>1, <1>4, <1>5, <3>1 DEF NumberAt, history
    <3>2. CASE p # W
      BY <1>1, <1>4, <1>9, <2>1, <3>2 DEF NumberAt, IsCommand
    <3> QED
      BY <3>1, <3>2
  <2>2. Place(Position) /\ Position' = Position
    BY <1>1, <1>3, <1>8, Places DEF Position, videoVars, videoLocals
  <2>3. NumberAt(Position)' = Len(executed)' + 1
    <3>1. NumberAt(Position) = Len(executed) + 1
      BY <1>3 DEF IsNumbered
    <3>2. NumberAt(Position)' = NumberAt(Position)
      <4>1. ASSUME NEW p, p = Position PROVE NumberAt(p)' = NumberAt(p)
        BY <2>1, <2>2, <4>1
      <4> QED
        BY <2>2, <4>1 DEF NumberAt
    <3> QED
      BY <1>1, <3>1, <3>2 DEF history
  <2>4. ASSUME NEW o \in 0 .. S - 1, Unread(o)', IsCommand(o)'
        PROVE  D'[o].id <= issued' /\ NumberAt(o + D[o].size)' = D'[o].id + 1 /\ D'[o] = D[o]
    <3>1. Unread(o) /\ IsCommand(o) /\ D'[o] = D[o]
      BY <1>7, <2>4
    <3>2. Place(o + D[o].size) /\ D[o].id <= issued /\ NumberAt(o + D[o].size) = D[o].id + 1
      BY <1>3, <1>8, <3>1, Places DEF IsNumbered
    <3> QED
      BY <1>1, <2>1, <3>1, <3>2 DEF history
  <2>5. ASSUME NEW o \in R .. S - 1, D'[o].type = "Wraparound", NEW k \in o + 1 .. S - 1
        PROVE  ~IsHeader(D', k)
    <3>1. CASE o < W
      <4>1. Unread(o) /\ IsHeader(D, o) /\ ~IsCommand(o) /\ o \in 0 .. S - 1
        BY <1>4, <1>5, <1>6, <2>5, <3>1 DEF IsHeader, IsCommand
      <4> QED
        BY <1>4, <1>9, <3>1, <4>1 DEF Place
    <3>2. CASE o >= W
      <4>1. k \in W + 1 .. S - 1
        BY <1>4, <2>5, <3>2
      <4> QED
        BY <1>5, <4>1 DEF IsHeader
    <3> QED
      BY <1>4, <3>1, <3>2
  <2> QED
    BY <1>1, <2>3, <2>4, <2>5 DEF IsNumbered
<1>11. LastIsDestroy => LastIsDestroy'
  BY <1>1, <1>7 DEF LastIsDestroy, history, config
<1>12. (Asleep' <=> Asleep) /\ Count' = Count
  BY <1>1 DEF Asleep, Count, videoVars, videoLocals, wake
<1> USE DEF AllocPoints, Pushes, WakePoints, SyncPoints, WokenPoints, ThreadPoints
<1>13. /\ OrderInv' /\ BoundInv' /\ DestroyInv' /\ (Pushing' <=> Pushing) /\ Top' = "alloc"
       /\ \A i \in 1 .. Len(core') : core'[i] \in AllocPoints \cup {"fill"} => Pushing'
  <2>1. MayGo("wrap", <<"alloc">>) /\ Plainly(<<"alloc">>) /\ <<"alloc">>[1] = "alloc"
    BY Goings DEF Plainly
  <2>2. Top \in AllocPoints /\ Top \notin Pushes
    BY <1>2
  <2> HIDE DEF AllocPoints, Pushes
  <2> QED
    BY <1>1, <1>2, <1>11, <2>1, <2>2, GoingKeepsStack DEF history
<1>14. CountInv'
  BY <1>1, <1>12, <1>13 DEF WakeInv, CountInv, history
<1>15. SleepInv'
  BY <1>1, <1>2, <1>12, <1>13 DEF WakeInv, SleepInv, wake, videoVars, videoLocals
<1>16. FlagInv'
  BY <1>1, <1>2, <1>12, <1>13 DEF WakeInv, FlagInv, wake, videoVars
<1>17. WokenInv'
  BY <1>1, <1>13 DEF WakeInv, WokenInv, history, config
<1>18. LocalTypes'
  BY <1>1 DEF WakeInv, LocalTypes, config, videoVars, videoLocals, history
<1>19. NumberInv'
  BY <1>1, <1>3, <1>10, <1>13 DEF WakeInv, NumberInv, history
<1>20. DrainInv'
  BY <1>1, <1>12 DEF WakeInv, DrainInv, AllDone, videoVars, videoLocals, history
<1>21. IdleInv'
  BY <1>1 DEF WakeInv, IdleInv, config, videoVars, videoLocals
<1>22. DirectInv'
  BY <1>1, <1>3 DEF DirectInv, config
<1>23. SwitchInv'
  BY <1>13 DEF SwitchInv
<1> QED
  BY <1>13, <1>14, <1>15, <1>16, <1>17, <1>18, <1>19, <1>20, <1>21, <1>22, <1>23 DEF WakeInv

-----------------------------------------------------------------------------
(* The pushes. *)

\* Below a push there is no other command on its way.
LEMMA BelowPush ==
  ASSUME Inv, WakeInv, core # <<>>, Top \in Pushes
  PROVE  /\ \A i \in 2 .. Len(core) : core[i] \notin Pushes \cup AllocPoints \cup {"fill", "synced"}
         /\ Pushing /\ Pushed = issued + 1
<1> USE DEF AllocPoints, Pushes, WakePoints, SyncPoints
<1>1. Len(core) \in Nat \ {0} /\ Top = core[1] /\ 1 \in 1 .. Len(core)
  BY TopIs DEF Inv
<1>2. Pushing /\ Pushed = issued + 1
  BY <1>1 DEF Pushing, Pushed
<1>3. ASSUME NEW i \in 2 .. Len(core)
      PROVE core[i] \notin Pushes \cup AllocPoints \cup {"fill", "synced"}
  <2>1. Level(core[1]) < Level(core[i])
    BY <1>1 DEF WakeInv, OrderInv, Ordered
  <2>2. Level(core[1]) = 5
    BY <1>1 DEF Level
  <2>3. \A p \in Pushes \cup AllocPoints \cup {"fill", "synced"} : Level(p) <= 5
    BY DEF Level
  <2> QED
    BY <2>1, <2>2, <2>3 DEF Level
<1> QED
  BY <1>2, <1>3

\* Without the thread the caller executes the command itself.
LEMMA PushDirectlyWakes ==
  ASSUME Inv, WakeInv, NEW push \in Pushes, PushDirectly(push)
  PROVE  WakeInv'
<1>1. /\ UNCHANGED <<ring, wake, use_thread, videoVars, unwoken, cmd>>
      /\ At(push) /\ ~use_thread /\ Return
      /\ executed' = Append(executed, cmd.id) /\ issued' = issued + 1 /\ Run(cmd.type)
  BY DEF PushDirectly, Execute, coreLocals
<1>2. Top = push /\ core # <<>> /\ core[1] = push /\ Len(core) \in Nat \ {0} /\ Top \in Pushes
      /\ issued \in Nat /\ MaxCommands \in Nat
  <2>1. push \in Points
    BY DEF Points
  <2> QED
    BY <1>1, <2>1, TopIs, QueueAssumption DEF Inv, Types
<1>3. /\ Drained /\ Parked /\ command_fifo_read_ptr = 0 /\ ~unwoken
      /\ cmd.id = issued + 1 /\ executed \in Seq(Nat)
  BY <1>1, <1>2 DEF WakeInv, DirectInv, WokenInv, NumberInv, Pushes
<1>4. /\ executed' \in Seq(Nat) /\ Len(executed') = issued' /\ Len(executed) = issued
      /\ command_fifo_read_ptr = command_fifo_write_ptr
  BY <1>1, <1>2, <1>3 DEF Drained
<1>5. Drained'
  BY <1>1, <1>3, <1>4 DEF Drained, ring, videoVars, videoLocals
<1>6. (Asleep' <=> Asleep) /\ Count' = Count
  BY <1>1 DEF Asleep, Count, videoVars, videoLocals, wake
<1>7. Parked'
  BY <1>1, <1>3, <1>6 DEF Parked, ring, videoVars, videoLocals
<1>8. IsNumbered'
  <2>1. \A o \in 0 .. COMMAND_QUEUE_SIZE - 1 : ~Unread(o)'
    BY <1>1, <1>3, <1>4 DEF Unread, ring
  <2>2. Position' = command_fifo_write_ptr'
    BY <1>5 DEF Position, Drained
  <2>3. NumberAt(Position)' = issued' + 1
    BY <2>2 DEF NumberAt
  <2>4. command_fifo_read_ptr' = 0 /\ command_fifo_write_ptr' = 0
    BY <1>1, <1>3, <1>4 DEF ring
  <2> QED
    BY <1>4, <2>1, <2>3, <2>4 DEF IsNumbered
<1>9. cmd.type = "Destroy" => gpu_device' = FALSE
  BY <1>1 DEF Run
<1>9a. gpu_device' \in BOOLEAN
  BY <1>1 DEF Run, WakeInv, LocalTypes
<1>9b. run_idle_flag' \in BOOLEAN
  BY <1>1 DEF Run, RunIdleValues
<1>9c. run_idle_flag' => gpu_device'
  BY <1>1 DEF Run, RunIdleValues
<1>10. /\ OrderInv'
       /\ Len(core') = Len(core) - 1 /\ \A i \in 1 .. Len(core') : core'[i] = core[i + 1]
       /\ Top' = "none" \/ Above(Top, Top')
       /\ core' # <<>> => Len(core') > 0 /\ Top' = core'[1]
  BY <1>1, <1>2, Returned DEF Inv, WakeInv
<1>11. /\ \A i \in 1 .. Len(core') : core'[i] \notin Pushes \cup AllocPoints \cup {"fill", "synced"}
       /\ Pushed = issued + 1
  <2> SUFFICES ASSUME NEW i \in 1 .. Len(core') PROVE i + 1 \in 2 .. Len(core)
    BY <1>2, <1>10, BelowPush
  <2> QED
    BY <1>2, <1>10
<1>12. ~Pushing'
  BY <1>11 DEF Pushing
<1>13. BoundInv'
  <2>1. Pushed' = Pushed
    BY <1>1, <1>2, <1>11, <1>12 DEF Pushed
  <2>2. ASSUME NEW i \in 1 .. Len(core') PROVE Pushed + Rank(core'[i]) <= MaxCommands + 3
    <3>1. i + 1 \in 1 .. Len(core) /\ core'[i] = core[i + 1]
      BY <1>2, <1>10
    <3> QED
      BY <3>1 DEF WakeInv, BoundInv
  <2> QED
    BY <2>1, <2>2 DEF WakeInv, BoundInv
<1>14. DestroyInv'
  BY <1>11 DEF DestroyInv, Pushes
<1> USE DEF AllocPoints, Pushes, WakePoints, SyncPoints, WokenPoints, ThreadPoints
<1>15. Top' \in {"none", "destroy", "reset", "shutdown", "join"}
  BY <1>2, <1>10 DEF Above
<1>16. Top' = "reset" => gpu_device' = FALSE
  <2> SUFFICES ASSUME Top' = "reset" PROVE cmd.type = "Destroy"
    BY <1>9
  <2>1. core' # <<>>
    BY <1>15 DEF Top
  <2>2. 1 \in 1 .. Len(core) - 1 /\ core[1 + 1] = "reset"
    BY <1>2, <1>10, <2>1
  <2>3. Above(push, "reset")
    BY <1>2, <2>2 DEF WakeInv, OrderInv, Ordered
  <2>4. push = "PushCommandAndSync"
    BY <2>3 DEF Above
  <2> QED
    BY <1>2, <2>2, <2>4 DEF WakeInv, DestroyInv
<1>17. CountInv'
  <2>1. Count >= 0 => Work(Count) <= 2 * issued + 1
    BY DEF WakeInv, CountInv
  <2>2. Count >= 0 => Work(Count) \in Int
    BY WakeCountAssumption DEF Work, WakeInv, SleepInv, SLEEPING
  <2> QED
    BY <1>1, <1>2, <1>6, <1>15, <2>1, <2>2 DEF CountInv
<1>18. SleepInv'
  BY <1>1, <1>2, <1>6, <1>15 DEF WakeInv, SleepInv, wake, videoVars, videoLocals
<1>19. FlagInv'
  BY <1>1, <1>2, <1>6, <1>15 DEF WakeInv, FlagInv, wake, videoVars
<1>20. WokenInv'
  BY <1>1, <1>3 DEF WokenInv
<1>21. LocalTypes'
  <2>1. /\ UNCHANGED <<unwoken, use_thread, allow_sleep, write_ptr, read_ptr, old_state>>
        /\ LocalTypes
    BY <1>1 DEF WakeInv, videoVars, videoLocals
  <2> QED
    BY <1>9a, <1>9b, <2>1 DEF LocalTypes
<1>22. NumberInv'
  <2>1. command_fifo_read_ptr' = 0
    BY <1>1, <1>3 DEF ring
  <2> HIDE DEF AllocPoints, Pushes
  <2>2. Top' \notin Pushes
    BY <1>15 DEF Pushes
  <2> QED
    BY <1>1, <1>4, <1>8, <1>11, <2>1, <2>2 DEF WakeInv, NumberInv
<1>23. DrainInv'
  BY <1>4 DEF DrainInv, AllDone
<1>24. IdleInv'
  <2>1. ASSUME video \in {"sleep_load", "sleep_cas", "sleep_post"}, ~allow_sleep
        PROVE  command_fifo_read_ptr = 0 /\ write_ptr = 0
    BY <1>3, <2>1 DEF Parked, Asleep
  <2>2. UNCHANGED <<video, allow_sleep, command_fifo_read_ptr, write_ptr>>
    BY <1>1 DEF ring, videoVars, videoLocals
  <2> QED
    BY <1>9c, <2>1, <2>2 DEF IdleInv
<1>25. DirectInv'
  BY <1>1, <1>3, <1>5, <1>7, <1>15 DEF DirectInv, ring
<1>26. SwitchInv'
  BY <1>5, <1>7, <1>15, <1>16 DEF SwitchInv, Synchronized
<1> QED
  BY <1>10, <1>13, <1>14, <1>17, <1>18, <1>19, <1>20, <1>21, <1>22, <1>23, <1>24, <1>25, <1>26
  DEF WakeInv

\* What the writer's progress past the command at its pointer does to the
\* numbers: nothing moves, and the command takes the number after the last one.
LEMMA PublishNumbers ==
  ASSUME Inv, WakeInv, NEW push \in Pushes, NEW points, Publish(push, points)
  PROVE  /\ IsNumbered' /\ command_fifo_write_ptr' # 0
         /\ cmd.type = "Destroy" => LastIsDestroy'
<1> DEFINE W == command_fifo_write_ptr
           R == command_fifo_read_ptr
           D == command_fifo_data
           S == COMMAND_QUEUE_SIZE
<1>1. /\ UNCHANGED <<command_fifo_read_ptr, command_fifo_data, cmd, executed, videoVars>>
      /\ At(push) /\ W' = (W + cmd.size) % S /\ issued' = issued + 1
  BY DEF Publish, coreLocals
<1>2. Top = push /\ core # <<>> /\ core[1] = push /\ Len(core) \in Nat \ {0}
  <2>1. push \in Points
    BY DEF Points
  <2> QED
    BY <1>1, <2>1, TopIs DEF Inv
<1>3. Types /\ Room /\ Filled /\ S \in Nat \ {0}
  BY <1>1, QueueAssumption DEF Inv, AllocInv
<1>4. /\ cmd.type \notin {"Body", "Wraparound"} /\ cmd.size \in Nat \ {0}
      /\ D[W].type = cmd.type /\ D[W].size = cmd.size
  <2>1. 1 \in 1 .. Len(core) /\ core[1] \in CommandPoints
    BY <1>2 DEF CommandPoints
  <2>2. cmd.type # "Body"
    BY <2>1 DEF Inv, StackInv, Within
  <2> QED
    BY <1>3, <2>2 DEF Types, Commands, Filled
<1>5. /\ IsNumbered /\ ~At("reset_read_ptr") /\ D[W].id = issued + 1 /\ issued \in Nat
      /\ Len(executed) \in Nat /\ Len(executed) <= issued
  <2>1. Top # "reset_read_ptr"
    BY <1>2 DEF Pushes
  <2> QED
    BY <1>2, <1>3, <2>1, TopIs, ExecutedIssued DEF WakeInv, NumberInv, Inv, Types
<1>6. /\ W' = W + cmd.size /\ W' < S /\ W' > W
      /\ W \in 0 .. S - 1 /\ R \in 0 .. S - 1 /\ (R <= W \/ R > W')
  <2>1. W \in 0 .. S - 1 /\ R \in 0 .. S - 1
    BY <1>3 DEF Types
  <2>2. W + cmd.size < S /\ R \notin W + 1 .. W + cmd.size
    BY <1>3 DEF Room
  <2>3. W + cmd.size \in 0 .. S - 1
    BY <1>3, <1>4, <2>1, <2>2
  <2>4. \A k \in 0 .. S - 1 : k % S = k
    <3> HIDE DEF W, R, D, S
    <3> QED
      BY <1>3
  <2>5. W' = W + cmd.size
    BY <1>1, <2>3, <2>4
  <2> QED
    BY <1>3, <1>4, <2>1, <2>2, <2>5
<1>7. \A o : Unread(o)' <=> Unread(o) \/ o \in W .. W' - 1
  BY <1>1, <1>3, <1>6 DEF Unread
<1>8. \A p : Place(p) => p # W'
  BY <1>3, <1>6 DEF Place, Unread
<1>9. \A p : Place(p) => NumberAt(p)' = NumberAt(p)
  <2> SUFFICES ASSUME NEW p, Place(p) PROVE NumberAt(p)' = NumberAt(p)
    OBVIOUS
  <2>1. p # W' /\ W' # 0
    BY <1>6, <1>8
  <2>2. CASE p = W
    BY <1>1, <1>4, <1>5, <2>1, <2>2 DEF NumberAt
  <2>3. CASE p # W
    <3>1. W = 0 => D[0].id = issued + 1
      BY <1>5
    <3> QED
      BY <1>1, <2>1, <2>3, <3>1 DEF NumberAt
  <2> QED
    BY <2>2, <2>3
<1>10. \A o \in 0 .. S - 1 : Unread(o)' /\ IsCommand(o)' => (Unread(o) /\ IsCommand(o)) \/ o = W
  <2> SUFFICES ASSUME NEW o \in W + 1 .. W' - 1 PROVE ~IsCommand(o)'
    BY <1>1, <1>6, <1>7 DEF IsCommand
  <2>1. ~IsHeader(D, o)
    <3>1. o \in W + 1 .. W + cmd.size - 1
      BY <1>3, <1>4, <1>6
    <3> QED
      BY <1>3, <3>1 DEF Filled
  <2> QED
    BY <1>1, <2>1 DEF IsHeader, IsCommand
<1>11. NumberAt(Position)' = Len(executed)' + 1
  <2>1. Place(Position) /\ Position' = Position /\ NumberAt(Position) = Len(executed) + 1
    BY <1>1, <1>5, Places DEF Position, videoVars, videoLocals, IsNumbered
  <2>2. NumberAt(Position)' = NumberAt(Position)
    <3>1. ASSUME NEW p, p = Position PROVE NumberAt(p)' = NumberAt(p)
      BY <1>9, <2>1, <3>1
    <3> QED
      BY <2>1, <3>1 DEF NumberAt
  <2> QED
    BY <1>1, <2>1, <2>2
<1>12. ASSUME NEW o \in 0 .. S - 1, Unread(o)', IsCommand(o)'
       PROVE  D'[o].id <= issued' /\ NumberAt(o + D[o].size)' = D'[o].id + 1
  <2>1. CASE o = W
    <3>1. ASSUME NEW p, p = W' PROVE NumberAt(p)' = issued' + 1
      BY <3>1 DEF NumberAt
    <3>2. W + D[W].size = W'
      BY <1>4, <1>6
    <3>3. NumberAt(o + D[o].size)' = issued' + 1
      BY <1>1, <2>1, <3>1, <3>2 DEF NumberAt
    <3> QED
      BY <1>1, <1>5, <2>1, <3>3
  <2>2. CASE Unread(o) /\ IsCommand(o)
    <3>1. Place(o + D[o].size) /\ D[o].id <= issued /\ NumberAt(o + D[o].size) = D[o].id + 1
      BY <1>5, <2>2, Places DEF IsNumbered
    <3>2. D[o].id \in Nat
      BY <1>3 DEF Types, Commands
    <3> QED
      BY <1>1, <1>5, <1>9, <3>1, <3>2
  <2> QED
    BY <1>10, <1>12, <2>1, <2>2
<1>13. IsNumbered'
  <2>1. W' < R => W < R
    BY <1>3, <1>4, <1>6
  <2>2. \A o \in 0 .. S - 1 : Unread(o)' /\ IsCommand(o)' =>
          D'[o].id <= issued' /\ NumberAt(o + D[o].size)' = D'[o].id + 1
    BY <1>12
  <2> QED
    BY <1>1, <1>5, <1>11, <2>1, <2>2 DEF IsNumbered, IsHeader
<1>14. ASSUME cmd.type = "Destroy" PROVE LastIsDestroy'
  <2>1. Len(executed)' # issued'
    BY <1>1, <1>5
  <2>2. ASSUME NEW o \in 0 .. S - 1, Unread(o)', IsCommand(o)', D'[o].id = issued'
        PROVE  D'[o].type = "Destroy"
    <3>1. CASE o = W
      BY <1>1, <1>4, <1>14, <3>1
    <3>2. CASE Unread(o) /\ IsCommand(o)
      <4>1. D[o].id <= issued
        BY <1>5, <3>2 DEF IsNumbered
      <4> QED
        BY <1>1, <1>5, <2>2, <4>1
    <3> QED
      BY <1>10, <2>2, <3>1, <3>2
  <2> QED
    BY <2>1, <2>2 DEF LastIsDestroy
<1> QED
  BY <1>3, <1>6, <1>13, <1>14

\* A command has been pushed.
LEMMA PublishWakes ==
  ASSUME Inv, WakeInv, NEW push \in Pushes, NEW points, Publish(push, points),
         MayGo(push, points), points[1] \in {"wake", "threshold"},
         \A i \in 1 .. Len(points) :
           points[i] \notin Pushes \cup AllocPoints \cup {"fill", "reset"},
         \A i \in 1 .. Len(points) :
           points[i] = "synced" => i = Len(points) /\ push = "PushCommandAndSync"
  PROVE  WakeInv'
<1> DEFINE n == Len(points)
<1>1. /\ UNCHANGED <<command_fifo_read_ptr, command_fifo_data, wake, config, cmd, executed, videoVars>>
      /\ At(push) /\ Goto(points) /\ use_thread
      /\ issued' = issued + 1 /\ unwoken' = TRUE
      /\ command_fifo_write_ptr' = (command_fifo_write_ptr + cmd.size) % COMMAND_QUEUE_SIZE
  BY DEF Publish, coreLocals
<1>2. Top = push /\ core # <<>> /\ core[1] = push /\ Len(core) \in Nat \ {0} /\ Top \in Pushes
      /\ issued \in Nat /\ MaxCommands \in Nat
  <2>1. push \in Points
    BY DEF Points
  <2> QED
    BY <1>1, <2>1, TopIs, QueueAssumption DEF Inv, Types
<1>3. /\ IsNumbered' /\ command_fifo_write_ptr' # 0
      /\ cmd.type = "Destroy" => LastIsDestroy'
  BY PublishNumbers
<1>4. (Asleep' <=> Asleep) /\ Count' = Count
  BY <1>1 DEF Asleep, Count, videoVars, videoLocals, wake
<1>5. /\ OrderInv' /\ core' # <<>> /\ Top' = points[1]
      /\ Len(core') = n + Len(core) - 1 /\ n \in Nat \ {0}
      /\ \A i \in 1 .. n : core'[i] = points[i]
      /\ \A i \in 2 .. Len(core) : core'[n + i - 1] = core[i]
  BY <1>1, <1>2, Gone DEF Inv, WakeInv
<1> HIDE DEF n
<1>6. ASSUME NEW j \in n + 1 .. Len(core')
      PROVE  j - n + 1 \in 2 .. Len(core) /\ core'[j] = core[j - n + 1]
  <2>1. j - n + 1 \in 2 .. Len(core) /\ n + (j - n + 1) - 1 = j
    BY <1>2, <1>5
  <2> QED
    BY <1>5, <2>1
<1>7. /\ \A i \in 2 .. Len(core) : core[i] \notin Pushes \cup AllocPoints \cup {"fill", "synced"}
      /\ Pushed = issued + 1
  BY <1>2, BelowPush
<1>8. ASSUME NEW j \in 1 .. Len(core')
      PROVE  core'[j] \notin Pushes \cup AllocPoints \cup {"fill"}
  <2>1. CASE j \in 1 .. n
    BY <1>5, <2>1 DEF n
  <2>2. CASE j \notin 1 .. n
    BY <1>5, <1>6, <1>7, <2>2
  <2> QED
    BY <2>1, <2>2
<1>9. ~Pushing'
  BY <1>8 DEF Pushing
<1>10. BoundInv'
  <2>1. Pushed' = Pushed
    BY <1>1, <1>2, <1>7, <1>9 DEF Pushed
  <2>2. ASSUME NEW j \in 1 .. Len(core') PROVE Pushed + Rank(core'[j]) <= MaxCommands + 3
    <3>1. CASE j \in 1 .. n
      <4>1. Rank(core'[j]) <= Rank(core[1])
        BY <1>2, <1>5, <3>1 DEF MayGo, n
      <4>2. 1 \in 1 .. Len(core)
        BY <1>2
      <4>3. Pushed + Rank(core[1]) <= MaxCommands + 3
        BY <4>2 DEF WakeInv, BoundInv
      <4>4. \A x : Rank(x) \in 0 .. 4
        BY DEF Rank
      <4> QED
        BY <1>2, <1>7, <4>1, <4>3, <4>4
    <3>2. CASE j \notin 1 .. n
      <4>1. j - n + 1 \in 1 .. Len(core) /\ core[j - n + 1] = core'[j]
        BY <1>5, <1>6, <3>2
      <4> QED
        BY <4>1 DEF WakeInv, BoundInv
    <3> QED
      BY <3>1, <3>2
  <2> QED
    BY <2>1, <2>2 DEF WakeInv, BoundInv
<1>11. DestroyInv'
  <2> SUFFICES ASSUME NEW j \in 1 .. Len(core') - 1, core'[j + 1] = "reset"
               PROVE  /\ core'[j] # "PushCommandAndSync"
                      /\ core'[j] = "synced" => LastIsDestroy'
    BY DEF DestroyInv
  <2>1. core'[j] # "PushCommandAndSync"
    BY <1>5, <1>8 DEF Pushes
  <2>2. ASSUME core'[j] = "synced" PROVE LastIsDestroy'
    <3>1. j \in 1 .. n
      <4>1. j \in 1 .. n \/ j \in n + 1 .. Len(core')
        BY <1>2, <1>5
      <4>2. ASSUME j \in n + 1 .. Len(core') PROVE FALSE
        BY <1>6, <1>7, <2>2, <4>2
      <4> QED
        BY <4>1, <4>2
    <3>2. j = n /\ push = "PushCommandAndSync"
      BY <1>5, <2>2, <3>1 DEF n
    <3>3. 1 \in 1 .. Len(core) - 1 /\ core[1 + 1] = "reset"
      <4> DEFINE k == n + 1
      <4>1. k \in n + 1 .. Len(core') /\ k - n + 1 = 2
        BY <1>2, <1>5, <3>2
      <4>2. core'[k] = "reset"
        BY <3>2
      <4> HIDE DEF k
      <4>3. 2 \in 2 .. Len(core) /\ core'[k] = core[2]
        BY <1>6, <4>1
      <4> QED
        BY <1>2, <4>2, <4>3
    <3>4. cmd.type = "Destroy"
      BY <1>2, <3>2, <3>3 DEF WakeInv, DestroyInv
    <3> QED
      BY <1>3, <3>4
  <2> QED
    BY <2>1, <2>2
<1>12. Top' \in {"wake", "threshold"}
  BY <1>5
<1>13. CountInv'
  <2>1. Count >= 0 => Work(Count) <= 2 * issued + 1
    BY DEF WakeInv, CountInv
  <2>2. Count >= 0 => Work(Count) \in Int
    BY WakeCountAssumption DEF Work, WakeInv, SleepInv, SLEEPING
  <2> QED
    BY <1>1, <1>2, <1>4, <2>1, <2>2 DEF CountInv
<1>14. NumberInv'
  <2>1. Top' \notin Pushes
    BY <1>12 DEF Pushes
  <2> QED
    BY <1>1, <1>3, <1>8, <2>1 DEF WakeInv, NumberInv
<1> USE DEF AllocPoints, Pushes, WakePoints, SyncPoints, WokenPoints, ThreadPoints
<1>15. SleepInv'
  BY <1>1, <1>2, <1>4, <1>12 DEF WakeInv, SleepInv, wake, videoVars, videoLocals
<1>16. FlagInv'
  BY <1>1, <1>2, <1>4, <1>12 DEF WakeInv, FlagInv, wake, videoVars
<1>17. WokenInv'
  BY <1>1, <1>12 DEF WokenInv, config
<1>18. LocalTypes'
  BY <1>1 DEF WakeInv, LocalTypes, config, videoVars, videoLocals
<1>19. DrainInv'
  BY <1>1 DEF DrainInv, AllDone
<1>20. IdleInv'
  BY <1>1 DEF WakeInv, IdleInv, config, videoVars, videoLocals
<1>21. DirectInv'
  BY <1>1 DEF DirectInv, config
<1>22. SwitchInv'
  BY <1>12 DEF SwitchInv
<1> QED
  BY <1>5, <1>10, <1>11, <1>13, <1>14, <1>15, <1>16, <1>17, <1>18, <1>19, <1>20, <1>21, <1>22
  DEF WakeInv

\* The three functions that push.
LEMMA PushWakes == ASSUME Inv, WakeInv, Push PROVE WakeInv'
<1>1. ASSUME NEW push \in {"PushCommand", "PushCommandAndWakeThread", "PushCommandAndSync"},
             PushDirectly(push)
      PROVE  WakeInv'
  BY <1>1, PushDirectlyWakes DEF Pushes
<1>2. /\ MayGo("PushCommand", <<"threshold">>)
      /\ MayGo("PushCommandAndWakeThread", <<"wake">>)
      /\ MayGo("PushCommandAndSync", <<"wake", "sync_load", "synced">>)
      /\ MayGo("PushCommandAndSync", <<"wake", "spin_check", "synced">>)
  BY DEF MayGo, IsStack, Ordered, MayBeBelow, Above, Level, Rank, Points, AllocPoints, WakePoints,
         SyncPoints, Pushes
<1>3. ASSUME NEW push \in {"PushCommand", "PushCommandAndWakeThread"},
             NEW p \in {"threshold", "wake"}, Publish(push, <<p>>), MayGo(push, <<p>>)
      PROVE  WakeInv'
  <2> DEFINE points == <<p>>
  <2>1. Len(points) = 1 /\ points[1] = p
    OBVIOUS
  <2> HIDE DEF points
  <2>2. ASSUME NEW i \in 1 .. Len(points)
        PROVE  points[i] \notin Pushes \cup AllocPoints \cup {"fill", "reset", "synced"}
    <3>1. i = 1
      BY <2>1
    <3> QED
      BY <2>1, <3>1 DEF Pushes, AllocPoints
  <2>3. push \in Pushes
    BY DEF Pushes
  <2> QED
    BY <1>3, <2>1, <2>2, <2>3, PublishWakes DEF points
<1>4. CASE Publish("PushCommand", <<"threshold">>)
      \/ Publish("PushCommandAndWakeThread", <<"wake">>)
  BY <1>2, <1>3, <1>4
<1>5. ASSUME NEW p \in {"sync_load", "spin_check"},
             Publish("PushCommandAndSync", <<"wake", p, "synced">>),
             MayGo("PushCommandAndSync", <<"wake", p, "synced">>)
      PROVE  WakeInv'
  <2> DEFINE points == <<"wake", p, "synced">>
  <2>1. Len(points) = 3 /\ points[1] = "wake" /\ points[2] = p /\ points[3] = "synced"
    OBVIOUS
  <2> HIDE DEF points
  <2>2. ASSUME NEW i \in 1 .. Len(points)
        PROVE  /\ points[i] \notin Pushes \cup AllocPoints \cup {"fill", "reset"}
               /\ points[i] = "synced" => i = Len(points)
    <3>1. i = 1 \/ i = 2 \/ i = 3
      BY <2>1
    <3> QED
      BY <2>1, <3>1 DEF Pushes, AllocPoints
  <2>3. "PushCommandAndSync" \in Pushes
    BY DEF Pushes
  <2> QED
    BY <1>5, <2>1, <2>2, <2>3, PublishWakes DEF points
<1> QED
  BY <1>1, <1>2, <1>3, <1>4, <1>5, Concatenations DEF Push, Sync

-----------------------------------------------------------------------------
(* Steps of the video thread. *)

\* The core thread's stack is not theirs.
LEMMA VideoKeepsStack ==
  ASSUME WakeInv, UNCHANGED <<coreVars, use_thread, issued, unwoken>>,
         LastIsDestroy => LastIsDestroy'
  PROVE  /\ Top' = Top /\ (Pushing' <=> Pushing)
         /\ OrderInv' /\ BoundInv' /\ WokenInv' /\ DestroyInv'
<1>1. UNCHANGED <<core, cmd>>
  BY DEF coreVars, coreLocals
<1>2. Top' = Top /\ (Pushing' <=> Pushing) /\ OrderInv'
  BY <1>1 DEF Top, Pushing, WakeInv, OrderInv
<1>3. BoundInv'
  BY <1>1, <1>2 DEF WakeInv, BoundInv, Pushed
<1>4. WokenInv'
  BY <1>2 DEF WakeInv, WokenInv
<1>5. DestroyInv'
  BY <1>1 DEF WakeInv, DestroyInv
<1> QED
  BY <1>2, <1>3, <1>4, <1>5

\* What a step keeps that executes no command.
LEMMA VideoWaits ==
  ASSUME Inv, WakeInv, UNCHANGED <<ring, coreVars, use_thread, gpu_device, history>>,
         video \notin {"execute", "wrap_publish"}, video' \notin {"execute", "wrap_publish"},
         video' = "load_read_ptr" => write_ptr' = command_fifo_write_ptr,
         Drained /\ Parked => Parked',
         Top = "reset_read_ptr" => Parked' /\ (Asleep' \/ Drained'),
         Top = "sync_wait" /\ Count' < CPU_THREAD_IS_WAITING =>
           Count < CPU_THREAD_IS_WAITING \/ Synchronized',
         CountInv', SleepInv', FlagInv', LocalTypes', DrainInv', IdleInv'
  PROVE  WakeInv'
<1>1. /\ UNCHANGED <<command_fifo_write_ptr, command_fifo_read_ptr, command_fifo_data>>
      /\ UNCHANGED <<issued, executed, unwoken, core, cmd>>
  BY DEF ring, history, coreVars, coreLocals
<1>2. Drained => Drained'
  BY <1>1 DEF Drained
<1>3. \A o : (Unread(o)' <=> Unread(o)) /\ (IsCommand(o)' <=> IsCommand(o))
  BY <1>1 DEF Unread, IsCommand
<1>4. /\ IsNumbered' <=> IsNumbered
      /\ LastIsDestroy' <=> LastIsDestroy
  <2>1. \A p : NumberAt(p)' = NumberAt(p)
    BY <1>1 DEF NumberAt
  <2>2. Position' = Position
    BY <1>1 DEF Position
  <2>3. IsNumbered' <=> IsNumbered
    BY <1>1, <1>3, <2>1, <2>2 DEF IsNumbered
  <2>4. LastIsDestroy' <=> LastIsDestroy
    BY <1>1, <1>3 DEF LastIsDestroy
  <2> QED
    BY <2>3, <2>4
<1>5. /\ Top' = Top /\ (Pushing' <=> Pushing)
      /\ OrderInv' /\ BoundInv' /\ WokenInv' /\ DestroyInv'
  BY <1>1, <1>4, VideoKeepsStack
<1>6. NumberInv'
  BY <1>1, <1>4, <1>5 DEF WakeInv, NumberInv
<1>7. DirectInv'
  BY <1>1, <1>2, <1>5 DEF WakeInv, DirectInv
<1>8. Synchronized => Synchronized'
  BY <1>2 DEF Synchronized
<1>9. SwitchInv'
  BY <1>1, <1>2, <1>5, <1>8 DEF WakeInv, SwitchInv
<1> QED
  BY <1>5, <1>6, <1>7, <1>9 DEF WakeInv

\* What a step keeps that reads the ring.
LEMMA VideoRuns ==
  ASSUME Inv, WakeInv, ~Drained, ~Asleep,
         UNCHANGED <<command_fifo_write_ptr, command_fifo_data, wake, coreVars, use_thread,
                     issued, unwoken>>,
         video # "sleep_post",
         video' \notin {"sleep_load", "sleep_cas", "sleep_post", "sleep_wait", "load_read_ptr"},
         Top # "reset_read_ptr" =>
           IsNumbered' /\ (command_fifo_write_ptr = 0 /\ command_fifo_read_ptr' # 0 => Pushing),
         LastIsDestroy => LastIsDestroy',
         executed' \in Seq(Nat), LocalTypes', run_idle_flag' => gpu_device'
  PROVE  WakeInv'
<1>1. UNCHANGED <<core, cmd, sync_value>>
  BY DEF coreVars, coreLocals
<1>2. /\ Top' = Top /\ (Pushing' <=> Pushing)
      /\ OrderInv' /\ BoundInv' /\ WokenInv' /\ DestroyInv'
  BY VideoKeepsStack
<1>3. ~Asleep' /\ Count' = Count
  BY DEF Asleep, Count, wake
<1>4. CountInv'
  BY <1>2, <1>3 DEF WakeInv, CountInv
<1>5. SleepInv'
  BY <1>2, <1>3 DEF WakeInv, SleepInv, wake
<1>6. FlagInv'
  BY <1>1, <1>2, <1>3 DEF WakeInv, FlagInv, wake
<1>7. NumberInv'
  BY <1>1, <1>2 DEF WakeInv, NumberInv
<1>8. DrainInv' /\ IdleInv'
  BY DEF DrainInv, IdleInv
<1>9. Top \notin {"synced", "set_thread_enabled", "reset", "reset_read_ptr", "enable"}
      /\ ~(Top = "sync_wait" /\ Count < CPU_THREAD_IS_WAITING)
  BY DEF WakeInv, SwitchInv, Synchronized
<1>10. use_thread
  BY <1>9 DEF WakeInv, DirectInv
<1>11. DirectInv'
  BY <1>10 DEF DirectInv
<1>12. SwitchInv'
  BY <1>2, <1>3, <1>9 DEF SwitchInv
<1> QED
  BY <1>2, <1>4, <1>5, <1>6, <1>7, <1>8, <1>11, <1>12 DEF WakeInv

\* The write pointer is loaded first.
LEMMA LoadWritePtrWakes == ASSUME Inv, WakeInv, LoadWritePtr PROVE WakeInv'
<1>1. /\ UNCHANGED <<ring, wake, coreVars, use_thread, gpu_device, run_idle_flag, history>>
      /\ UNCHANGED <<read_ptr, old_state, allow_sleep>>
      /\ video = "load_write_ptr" /\ video' = "load_read_ptr"
      /\ write_ptr' = command_fifo_write_ptr
  BY DEF LoadWritePtr, config
<1>2. Count' = Count /\ ~Asleep /\ ~Asleep'
  BY <1>1 DEF Count, Asleep, wake
<1>3. /\ UNCHANGED <<command_fifo_write_ptr, command_fifo_read_ptr, issued, executed, unwoken, core>>
  BY <1>1 DEF ring, history, coreVars
<1>4. Top' = Top
  BY <1>3 DEF Top
<1>5. Parked => Parked'
  BY <1>1, <1>2, <1>3 DEF Parked
<1>6. Drained => Drained'
  BY <1>1, <1>3 DEF Drained
<1>7. CountInv'
  BY <1>2, <1>3, <1>4 DEF WakeInv, CountInv
<1>8. SleepInv'
  BY <1>1, <1>2, <1>4 DEF WakeInv, SleepInv, wake
<1>9. FlagInv'
  BY <1>1, <1>2, <1>4 DEF WakeInv, FlagInv, wake, coreVars, coreLocals
<1>10. LocalTypes'
  <2>1. write_ptr' \in 0 .. COMMAND_QUEUE_SIZE
    BY <1>1, QueueAssumption DEF Inv, Types
  <2> QED
    BY <1>1, <1>3, <2>1 DEF WakeInv, LocalTypes
<1>11. DrainInv'
  <2> SUFFICES ASSUME command_fifo_write_ptr = command_fifo_read_ptr PROVE Len(executed) = issued
    BY <1>1, <1>3 DEF DrainInv, AllDone
  <2>1. CASE Top = "reset_read_ptr"
    BY <2>1 DEF WakeInv, SwitchInv
  <2>2. CASE Top # "reset_read_ptr"
    <3>1. Position = command_fifo_write_ptr
      BY <1>1 DEF Position
    <3> QED
      BY <2>2, <3>1, AllExecuted DEF WakeInv
  <2> QED
    BY <2>1, <2>2
<1>12. IdleInv'
  BY <1>1 DEF WakeInv, IdleInv
<1>13. Top = "reset_read_ptr" => Parked /\ Drained
  BY <1>2 DEF WakeInv, SwitchInv
<1> QED
  BY <1>1, <1>2, <1>5, <1>6, <1>7, <1>8, <1>9, <1>10, <1>11, <1>12, <1>13, VideoWaits

\* An idle run changes nothing but the flag that asks for it.
LEMMA DoRunIdleWakes == ASSUME Inv, WakeInv, DoRunIdle PROVE WakeInv'
<1>1. /\ UNCHANGED <<ring, wake, coreVars, use_thread, videoLocals, history>>
      /\ video = "run_idle" /\ video' = "load_write_ptr" /\ Run("Call")
  BY DEF DoRunIdle
<1>2. gpu_device' = gpu_device
  BY <1>1 DEF Run
<1>3. run_idle_flag' \in BOOLEAN
  BY <1>1 DEF Run, RunIdleValues
<1>4. run_idle_flag' => gpu_device'
  BY <1>1 DEF Run, RunIdleValues
<1>5. Count' = Count /\ ~Asleep /\ ~Asleep'
  BY <1>1 DEF Count, Asleep, wake
<1>6. /\ UNCHANGED <<command_fifo_write_ptr, command_fifo_read_ptr, issued, executed, unwoken, core>>
      /\ UNCHANGED <<write_ptr, read_ptr, old_state, allow_sleep, sync_value>>
  BY <1>1 DEF ring, history, coreVars, coreLocals, videoLocals
<1>7. Top' = Top
  BY <1>6 DEF Top
<1>8. Parked => Parked'
  BY <1>5, <1>6 DEF Parked
<1>9. Drained => Drained'
  BY <1>1, <1>6 DEF Drained
<1>10. CountInv'
  BY <1>5, <1>6, <1>7 DEF WakeInv, CountInv
<1>11. SleepInv'
  BY <1>1, <1>5, <1>7 DEF WakeInv, SleepInv, wake
<1>12. FlagInv'
  BY <1>1, <1>5, <1>6, <1>7 DEF WakeInv, FlagInv, wake
<1>13. LocalTypes'
  BY <1>1, <1>2, <1>3, <1>6 DEF WakeInv, LocalTypes
<1>14. DrainInv'
  BY <1>1 DEF DrainInv
<1>15. IdleInv'
  BY <1>1, <1>4 DEF IdleInv
<1>16. Top = "reset_read_ptr" => Parked /\ Drained
  BY <1>5 DEF WakeInv, SwitchInv
<1> QED
  BY <1>1, <1>2, <1>5, <1>8, <1>9, <1>10, <1>11, <1>12, <1>13, <1>14, <1>15, <1>16, VideoWaits

\* SleepThread loads the wake count.
LEMMA SleepLoadWakes == ASSUME Inv, WakeInv, SleepLoad PROVE WakeInv'
<1>1. /\ UNCHANGED <<ring, wake, coreVars, use_thread, gpu_device, run_idle_flag, history>>
      /\ UNCHANGED <<write_ptr, read_ptr, allow_sleep>>
      /\ video = "sleep_load" /\ video' = "sleep_cas" /\ old_state' = Count
  BY DEF SleepLoad, config, Count
<1>2. Count' = Count /\ ~Asleep /\ ~Asleep'
  BY <1>1 DEF Count, Asleep, wake
<1>3. /\ UNCHANGED <<command_fifo_write_ptr, command_fifo_read_ptr, issued, executed, unwoken, core>>
  BY <1>1 DEF ring, history, coreVars
<1>4. Top' = Top
  BY <1>3 DEF Top
<1>5. Parked => Parked'
  BY <1>1, <1>2, <1>3 DEF Parked
<1>6. Drained => Drained'
  BY <1>1, <1>3 DEF Drained
<1>7. CountInv'
  BY <1>2, <1>3, <1>4 DEF WakeInv, CountInv
<1>8. SleepInv'
  BY <1>1, <1>2, <1>4 DEF WakeInv, SleepInv, wake
<1>9. FlagInv'
  BY <1>1, <1>2, <1>4 DEF WakeInv, FlagInv, wake, coreVars, coreLocals
<1>10. LocalTypes'
  <2>1. old_state' \in SLEEPING .. 2 * CPU_THREAD_IS_WAITING
    BY <1>1, WakeCountAssumption DEF WakeInv, SleepInv, SLEEPING
  <2> QED
    BY <1>1, <1>3, <2>1 DEF WakeInv, LocalTypes
<1>11. DrainInv'
  BY <1>1, <1>2, <1>3 DEF WakeInv, DrainInv, AllDone
<1>12. IdleInv'
  BY <1>1, <1>3 DEF WakeInv, IdleInv
<1>13. Top = "reset_read_ptr" => Parked /\ Drained
  BY <1>2 DEF WakeInv, SwitchInv
<1> QED
  BY <1>1, <1>2, <1>5, <1>6, <1>7, <1>8, <1>9, <1>10, <1>11, <1>12, <1>13, VideoWaits

\* It is woken.
LEMMA SleepWaitWakes == ASSUME Inv, WakeInv, SleepWait PROVE WakeInv'
<1>1. /\ UNCHANGED <<ring, coreVars, use_thread, gpu_device, run_idle_flag, history>>
      /\ UNCHANGED <<write_ptr, read_ptr, old_state, allow_sleep>>
      /\ video = "sleep_wait" /\ video' = "sleep_load"
      /\ thread_wake_semaphore > 0 /\ thread_wake_semaphore' = thread_wake_semaphore - 1
      /\ UNCHANGED thread_is_done_semaphore /\ Count' = Count
  BY DEF SleepWait, config, Count, videoLocals
<1>2. Asleep /\ ~Asleep'
  BY <1>1 DEF WakeInv, SleepInv, Asleep
<1>3. /\ UNCHANGED <<command_fifo_write_ptr, command_fifo_read_ptr, issued, executed, unwoken, core>>
      /\ sync_value' = sync_value
  BY <1>1 DEF ring, history, coreVars, coreLocals
<1>4. Top' = Top
  BY <1>3 DEF Top
<1>5. /\ Count # SLEEPING /\ Count >= 0 /\ Top # "wake_post"
      /\ thread_wake_semaphore = 1 /\ thread_wake_semaphore' = 0
      /\ Top \notin {"wake_if_not_empty", "spin_empty", "sync_empty"}
  <2>1. Count # SLEEPING
    BY <1>1, <1>2 DEF WakeInv, SleepInv
  <2>2. Count \in 0 .. 2 * CPU_THREAD_IS_WAITING - 1
    BY <2>1 DEF WakeInv, SleepInv
  <2>3. thread_wake_semaphore = 1 /\ Top # "wake_post"
    BY <1>1, <1>2, <2>1 DEF WakeInv, SleepInv
  <2>4. Top \notin {"wake_if_not_empty", "spin_empty", "sync_empty"}
    BY <2>1 DEF WakeInv, SleepInv
  <2> QED
    BY <1>1, <2>1, <2>2, <2>3, <2>4
<1>6. Parked => Parked'
  BY <1>1, <1>3, <1>5 DEF Parked
<1>7. Drained => Drained'
  BY <1>1, <1>3 DEF Drained
<1>8. CountInv'
  BY <1>1, <1>3, <1>4 DEF WakeInv, CountInv
<1>9. SleepInv'
  BY <1>1, <1>2, <1>4, <1>5 DEF WakeInv, SleepInv
<1>10. FlagInv'
  BY <1>1, <1>3, <1>4 DEF WakeInv, FlagInv
<1>11. LocalTypes'
  BY <1>1, <1>3 DEF WakeInv, LocalTypes
<1>12. DrainInv'
  BY <1>1, <1>3 DEF WakeInv, DrainInv, AllDone
<1>13. IdleInv'
  BY <1>1, <1>2 DEF WakeInv, IdleInv, Asleep
<1>14. Top = "reset_read_ptr" => Parked' /\ Drained'
  <2> SUFFICES ASSUME Top = "reset_read_ptr" PROVE Parked /\ Drained
    BY <1>6, <1>7
  <2>1. Parked /\ Len(executed) = issued
    BY DEF WakeInv, SwitchInv
  <2> QED
    BY <1>1, <1>5, <2>1 DEF Parked, Drained
<1> QED
  BY <1>1, <1>3, <1>6, <1>8, <1>9, <1>10, <1>11, <1>12, <1>13, <1>14, VideoWaits

\* A waiting core thread is released.
LEMMA SleepPostWakes == ASSUME Inv, WakeInv, SleepPost PROVE WakeInv'
<1>1. /\ UNCHANGED <<ring, coreVars, use_thread, gpu_device, run_idle_flag, history>>
      /\ UNCHANGED <<write_ptr, read_ptr, old_state, allow_sleep>>
      /\ video = "sleep_post" /\ video' = AfterAcknowledge
      /\ thread_is_done_semaphore' = thread_is_done_semaphore + 1
      /\ UNCHANGED thread_wake_semaphore /\ Count' = Count
  BY DEF SleepPost, config, Count, videoLocals
<1>2. /\ UNCHANGED <<command_fifo_write_ptr, command_fifo_read_ptr, issued, executed, unwoken, core>>
      /\ sync_value' = sync_value
  BY <1>1 DEF ring, history, coreVars, coreLocals
<1>3. Top' = Top
  BY <1>2 DEF Top
<1>4. (video' = "sleep_wait" /\ allow_sleep) \/ (video' = "run_idle" /\ ~allow_sleep)
  BY <1>1 DEF AfterAcknowledge
<1>5. Asleep' <=> Asleep
  BY <1>1, <1>4 DEF Asleep
<1>6. Top = "sync_wait" /\ Count < CPU_THREAD_IS_WAITING /\ thread_is_done_semaphore' = 1
  <2>1. Top = "sync_wait" /\ Count < CPU_THREAD_IS_WAITING /\ thread_is_done_semaphore = 0
    BY <1>1 DEF WakeInv, FlagInv
  <2> QED
    BY <1>1, <2>1
<1>7. Parked => Parked'
  BY <1>1, <1>2, <1>5 DEF Parked
<1>8. CountInv'
  BY <1>1, <1>2, <1>3 DEF WakeInv, CountInv
<1>9. SleepInv'
  BY <1>1, <1>3, <1>4, <1>5 DEF WakeInv, SleepInv
<1>10. FlagInv'
  BY <1>1, <1>3, <1>4, <1>6 DEF FlagInv
<1>11. LocalTypes'
  BY <1>1, <1>2 DEF WakeInv, LocalTypes
<1>12. DrainInv'
  BY <1>1, <1>2, <1>4 DEF WakeInv, DrainInv, AllDone
<1>13. IdleInv'
  BY <1>1, <1>4 DEF WakeInv, IdleInv
<1> QED
  BY <1>1, <1>4, <1>6, <1>7, <1>8, <1>9, <1>10, <1>11, <1>12, <1>13, VideoWaits

\* SleepThread acknowledges the work, or goes to sleep or runs idle.
LEMMA SleepCASWakes == ASSUME Inv, WakeInv, SleepCAS PROVE WakeInv'
<1> USE DEF Pushes, WakePoints, SyncPoints, WokenPoints
<1>1. /\ UNCHANGED <<ring, coreVars, use_thread, gpu_device, run_idle_flag, history>>
      /\ UNCHANGED <<write_ptr, read_ptr, old_state, allow_sleep>>
      /\ UNCHANGED <<thread_wake_semaphore, thread_is_done_semaphore>>
      /\ video = "sleep_cas"
  BY DEF SleepCAS, config, videoLocals
<1>2. /\ UNCHANGED <<command_fifo_write_ptr, command_fifo_read_ptr, issued, executed, unwoken, core>>
      /\ sync_value' = sync_value
  BY <1>1 DEF ring, history, coreVars, coreLocals
<1>3. Top' = Top
  BY <1>2 DEF Top
<1>4. /\ Count \in 0 .. 2 * CPU_THREAD_IS_WAITING - 1 /\ Count >= 0
      /\ ~Asleep /\ thread_wake_semaphore = 0 /\ Top # "wake_post"
      /\ Top \notin {"wake_if_not_empty", "spin_empty", "sync_empty"}
  <2>1. ~Asleep
    BY <1>1 DEF Asleep
  <2>2. Count >= 0 /\ thread_wake_semaphore = 0 /\ Top # "wake_post"
    BY <2>1 DEF WakeInv, SleepInv
  <2>3. Count # SLEEPING
    BY <2>2 DEF SLEEPING
  <2> QED
    BY <2>1, <2>2, <2>3 DEF WakeInv, SleepInv
<1>5. AllDone
  BY <1>1 DEF WakeInv, DrainInv
<1>6. LocalTypes'
  BY <1>1, <1>2 DEF WakeInv, LocalTypes
<1>7. video' # "load_read_ptr" /\ video' \notin {"execute", "wrap_publish"}
  BY DEF SleepCAS, AfterAcknowledge
<1>8. Drained => Drained'
  BY <1>2, <1>7 DEF Drained
<1>9. Top = "reset_read_ptr" => Parked /\ Drained
  BY <1>4 DEF WakeInv, SwitchInv
<1>10. Parked => Parked'
  BY <1>1, <1>2, <1>4 DEF Parked
<1>11. CPU_THREAD_IS_WAITING \in Nat \ {0} /\ issued \in Nat
  BY CountIsSmall
<1>12. CASE Count # old_state
  <2>1. Count' = Count /\ video' = "sleep_load" /\ ~Asleep'
    BY <1>12 DEF SleepCAS, Count, Asleep
  <2>2. CountInv'
    BY <1>2, <1>3, <2>1 DEF WakeInv, CountInv
  <2>3. SleepInv'
    BY <1>3, <1>1, <1>4, <2>1 DEF WakeInv, SleepInv
  <2>4. FlagInv'
    BY <1>1, <1>2, <1>3, <2>1 DEF WakeInv, FlagInv
  <2>5. DrainInv'
    BY <1>2, <1>5, <2>1 DEF DrainInv, AllDone
  <2>6. IdleInv'
    BY <1>1, <1>2, <2>1 DEF WakeInv, IdleInv
  <2> QED
    BY <1>1, <1>6, <1>7, <1>8, <1>9, <1>10, <2>1, <2>2, <2>3, <2>4, <2>5, <2>6, VideoWaits
<1>13. CASE Count = old_state /\ Work(Count) > 0
  <2>1. Count' = OnlyFlag(Count) /\ video' = "load_write_ptr" /\ ~Asleep'
    BY <1>13 DEF SleepCAS, SleepResult, Count, Asleep
  <2>2. /\ Count < CPU_THREAD_IS_WAITING => Count' = 0
        /\ Count >= CPU_THREAD_IS_WAITING => Count' = CPU_THREAD_IS_WAITING
        /\ Work(Count') = 0 /\ Count' >= 0 /\ Count' \in 0 .. 2 * CPU_THREAD_IS_WAITING - 1
    BY <1>4, <1>11, <2>1 DEF OnlyFlag, FlagSet, Work
  <2>3. Work(Count) \in Nat
    BY <1>4, <1>11 DEF Work
  <2>4. CountInv'
    BY <1>2, <1>3, <1>4, <1>11, <1>13, <2>2, <2>3 DEF WakeInv, CountInv
  <2>5. SleepInv'
    BY <1>1, <1>3, <1>4, <2>1, <2>2 DEF SleepInv
  <2>6. FlagInv'
    BY <1>1, <1>2, <1>3, <1>11, <2>1, <2>2 DEF WakeInv, FlagInv
  <2>7. DrainInv' /\ IdleInv'
    <3>1. DrainInv'
      BY <2>1 DEF DrainInv
    <3>2. IdleInv'
      BY <1>1, <2>1 DEF WakeInv, IdleInv
    <3> QED
      BY <3>1, <3>2
  <2>8. Count' < CPU_THREAD_IS_WAITING => Count < CPU_THREAD_IS_WAITING
    BY <1>4, <1>11, <2>2
  <2> QED
    BY <1>1, <1>6, <1>7, <1>8, <1>9, <1>10, <2>1, <2>4, <2>5, <2>6, <2>7, <2>8, VideoWaits
<1>14. CASE Count = old_state /\ ~(Work(Count) > 0)
  <2>1. /\ Count' = IF allow_sleep THEN SLEEPING ELSE 0
        /\ video' = IF FlagSet(Count) THEN "sleep_post" ELSE AfterAcknowledge
    BY <1>14 DEF SleepCAS, SleepResult, Count
  <2>2. Work(Count) = 0 /\ (Count = 0 \/ Count = CPU_THREAD_IS_WAITING)
    BY <1>4, <1>11, <1>14 DEF Work
  <2>3. Len(executed) = issued \/ unwoken
    BY <1>5, <1>14 DEF AllDone
  <2>4. /\ Count' < CPU_THREAD_IS_WAITING /\ (Count' >= 0 => Count' = 0 /\ Work(Count') = 0)
        /\ Count' = SLEEPING \/ Count' \in 0 .. 2 * CPU_THREAD_IS_WAITING - 1
    BY <1>11, <2>1 DEF SLEEPING, Work
  <2>5. CountInv'
    BY <1>2, <1>3, <1>4, <1>11, <2>2, <2>4 DEF WakeInv, CountInv
  <2>6. /\ video' \in {"sleep_post", "sleep_wait", "run_idle"}
        /\ video' = "sleep_wait" => allow_sleep
        /\ video' = "run_idle" => ~allow_sleep
    BY <2>1 DEF AfterAcknowledge
  <2>7. Asleep' <=> allow_sleep
    BY <1>1, <2>6 DEF Asleep
  <2>8. SleepInv'
    <3>1. allow_sleep => Count' = SLEEPING
      BY <2>1
    <3>2. ~allow_sleep => Count' = 0
      BY <2>1
    <3> QED
      BY <1>1, <1>3, <1>4, <2>4, <2>6, <2>7, <3>1, <3>2 DEF SleepInv
  <2>9. IdleInv'
    BY <1>1, <1>2, <2>6 DEF WakeInv, IdleInv
  <2>10. CASE Count = 0
    <3>1. video' # "sleep_post" /\ Count < CPU_THREAD_IS_WAITING
      BY <1>11, <2>1, <2>10 DEF FlagSet, AfterAcknowledge
    <3>2. FlagInv'
      <4>1. Top = "sync_wait" => thread_is_done_semaphore = 1
        BY <1>1, <1>11, <2>10 DEF WakeInv, FlagInv
      <4>2. Top # "sync_wait" => thread_is_done_semaphore = 0
        BY DEF WakeInv, FlagInv
      <4>3. Top = "sync_cas" => sync_value \in 0 .. CPU_THREAD_IS_WAITING - 1
        BY DEF WakeInv, FlagInv
      <4> QED
        BY <1>1, <1>2, <1>3, <2>4, <3>1, <4>1, <4>2, <4>3 DEF FlagInv
    <3>3. DrainInv'
      BY <1>2, <2>3, <2>6 DEF DrainInv, AllDone
    <3> QED
      BY <1>1, <1>6, <1>7, <1>8, <1>9, <1>10, <2>5, <2>8, <2>9, <3>1, <3>2, <3>3, VideoWaits
  <2>11. CASE Count = CPU_THREAD_IS_WAITING
    <3>1. video' = "sleep_post" /\ Count >= CPU_THREAD_IS_WAITING
      BY <1>11, <2>1, <2>11 DEF FlagSet
    <3>2. Top = "sync_wait" /\ thread_is_done_semaphore = 0
      BY <1>11, <2>11 DEF WakeInv, FlagInv
    <3>3. ~unwoken /\ ~Pushing
      <4>1. ~unwoken
        BY <3>2 DEF WakeInv, WokenInv
      <4>2. ~Pushing
        BY <3>2, NothingPushedInSync DEF WakeInv, Inv
      <4> QED
        BY <4>1, <4>2
    <3>4. Len(executed) = issued /\ command_fifo_read_ptr = command_fifo_write_ptr
      BY <1>1, <2>3, <3>2, <3>3, AllRead DEF WakeInv
    <3>5. Drained'
      BY <1>2, <3>1, <3>4 DEF Drained
    <3>6. gpu_device' \/ Parked'
      <4>1. CASE allow_sleep
        BY <2>1, <2>7, <4>1 DEF Parked
      <4>2. CASE ~allow_sleep /\ ~gpu_device
        <5>1. command_fifo_read_ptr = 0 /\ write_ptr = 0
          BY <1>1, <4>2 DEF WakeInv, IdleInv
        <5> QED
          BY <1>1, <1>2, <3>4, <5>1 DEF Parked
      <4> QED
        BY <1>1, <4>1, <4>2
    <3>7. Synchronized'
      BY <3>5, <3>6 DEF Synchronized
    <3>8. FlagInv'
      BY <1>1, <1>3, <2>4, <3>1, <3>2 DEF FlagInv
    <3>9. DrainInv'
      BY <1>2, <3>1, <3>4 DEF DrainInv, AllDone
    <3> QED
      BY <1>1, <1>6, <1>7, <1>8, <1>9, <1>10, <2>5, <2>8, <2>9, <3>7, <3>8, <3>9, VideoWaits
  <2> QED
    BY <2>2, <2>10, <2>11
<1> QED
  BY <1>12, <1>13, <1>14

\* The read pointer is loaded next: either there is nothing to do, or a batch begins.
LEMMA LoadReadPtrWakes == ASSUME Inv, WakeInv, LoadReadPtrOnThread PROVE WakeInv'
<1> DEFINE R == command_fifo_read_ptr
<1>1. /\ UNCHANGED <<ring, wake, coreVars, use_thread, gpu_device, run_idle_flag, history>>
      /\ UNCHANGED old_state
      /\ video = "load_read_ptr" /\ read_ptr' = R
  BY DEF LoadReadPtrOnThread, config
<1>2. /\ UNCHANGED <<command_fifo_write_ptr, command_fifo_read_ptr, command_fifo_data>>
      /\ UNCHANGED <<issued, executed, unwoken, core, sync_value>>
  BY <1>1 DEF ring, history, coreVars, coreLocals
<1>3. Count' = Count /\ ~Asleep
  BY <1>1 DEF Count, Asleep, wake
<1>4. R \in 0 .. COMMAND_QUEUE_SIZE
  BY QueueAssumption DEF Inv, Types
<1>5. CASE R = write_ptr
  <2>1. video' = "sleep_load" /\ write_ptr' = write_ptr /\ allow_sleep' = ~run_idle_flag
    BY <1>1, <1>5 DEF LoadReadPtrOnThread
  <2>2. ~Asleep'
    BY <2>1 DEF Asleep
  <2>3. Top' = Top
    BY <1>2 DEF Top
  <2>4. Parked => Parked'
    BY <1>2, <1>3, <2>1 DEF Parked
  <2>5. Drained => Drained'
    BY <1>2, <2>1 DEF Drained
  <2>6. CountInv'
    BY <1>2, <1>3, <2>3 DEF WakeInv, CountInv
  <2>7. SleepInv'
    BY <1>1, <1>3, <2>1, <2>2, <2>3 DEF WakeInv, SleepInv, wake
  <2>8. FlagInv'
    BY <1>1, <1>2, <1>3, <2>1, <2>3 DEF WakeInv, FlagInv, wake
  <2>9. LocalTypes'
    <3>1. allow_sleep' \in BOOLEAN
      BY <2>1
    <3> QED
      BY <1>1, <1>2, <1>4, <2>1, <3>1 DEF WakeInv, LocalTypes
  <2>10. DrainInv'
    BY <1>1, <1>2, <1>3, <1>5, <2>1 DEF WakeInv, DrainInv, AllDone
  <2>11. IdleInv'
    <3>1. run_idle_flag => gpu_device
      BY DEF WakeInv, IdleInv
    <3> QED
      BY <1>1, <2>1, <3>1 DEF IdleInv
  <2>12. Top = "reset_read_ptr" => Parked /\ Drained
    BY <1>3 DEF WakeInv, SwitchInv
  <2> QED
    BY <1>1, <1>3, <2>1, <2>4, <2>5, <2>6, <2>7, <2>8, <2>9, <2>10, <2>11, <2>12, VideoWaits
<1>6. CASE R # write_ptr
  <2>1. /\ video' = "execute" /\ allow_sleep' = allow_sleep
        /\ write_ptr' = IF write_ptr < R THEN COMMAND_QUEUE_SIZE ELSE write_ptr
    BY <1>1, <1>6 DEF LoadReadPtrOnThread
  <2>2. ~Drained
    BY <1>1, <1>6 DEF Drained
  <2>3. \A o : (Unread(o)' <=> Unread(o)) /\ (IsCommand(o)' <=> IsCommand(o))
    BY <1>2 DEF Unread, IsCommand
  <2>4. /\ IsNumbered' <=> IsNumbered
        /\ LastIsDestroy' <=> LastIsDestroy
    <3>1. \A p : NumberAt(p)' = NumberAt(p)
      BY <1>2 DEF NumberAt
    <3>2. Position' = Position
      BY <1>1, <1>2, <2>1 DEF Position
    <3>3. IsNumbered' <=> IsNumbered
      BY <1>2, <2>3, <3>1, <3>2 DEF IsNumbered
    <3>4. LastIsDestroy' <=> LastIsDestroy
      BY <1>1, <1>2, <2>3 DEF LastIsDestroy
    <3> QED
      BY <3>3, <3>4
  <2>5. LocalTypes'
    <3>1. write_ptr' \in 0 .. COMMAND_QUEUE_SIZE
      <4>1. write_ptr \in 0 .. COMMAND_QUEUE_SIZE /\ COMMAND_QUEUE_SIZE \in 0 .. COMMAND_QUEUE_SIZE
        BY QueueAssumption DEF WakeInv, LocalTypes
      <4> QED
        BY <2>1, <4>1
    <3> QED
      BY <1>1, <1>2, <1>4, <2>1, <3>1 DEF WakeInv, LocalTypes
  <2>6. run_idle_flag' => gpu_device'
    BY <1>1 DEF WakeInv, IdleInv
  <2>7. Top # "reset_read_ptr" =>
          IsNumbered' /\ (command_fifo_write_ptr = 0 /\ command_fifo_read_ptr' # 0 => Pushing)
    BY <1>2, <2>4 DEF WakeInv, NumberInv
  <2>8. executed' \in Seq(Nat)
    BY <1>2 DEF WakeInv, NumberInv
  <2> QED
    BY <1>1, <1>2, <1>3, <2>1, <2>2, <2>4, <2>5, <2>6, <2>7, <2>8, VideoRuns
<1> QED
  BY <1>5, <1>6

\* Where the video thread reads there is an unread command.
LEMMA NextIsUnread ==
  ASSUME Inv, WakeInv, video = "execute", read_ptr < write_ptr
  PROVE  /\ ~At("reset_read_ptr") /\ Top # "reset_read_ptr" /\ IsNumbered /\ ~Drained
         /\ read_ptr \in 0 .. COMMAND_QUEUE_SIZE - 1 /\ read_ptr # command_fifo_write_ptr
         /\ Unread(read_ptr) /\ NextCommand \in Commands /\ NextCommand.type # "Body"
         /\ NumberAt(read_ptr) = Len(executed) + 1
         /\ Len(executed) \in Nat /\ issued \in Nat
<1> DEFINE W == command_fifo_write_ptr
           R == command_fifo_read_ptr
           S == COMMAND_QUEUE_SIZE
<1>1. ~Drained /\ ~Asleep
  BY DEF Drained, Asleep
<1>2. Top # "reset_read_ptr"
  BY <1>1 DEF WakeInv, SwitchInv
<1>3. ~At("reset_read_ptr") /\ IsNumbered /\ Len(executed) \in Nat /\ issued \in Nat
  BY <1>2, TopIs DEF WakeInv, NumberInv, Inv, Types
<1>4. W \in 0 .. S - 1 /\ R \in 0 .. S - 1 /\ S \in Nat
  BY QueueAssumption DEF Inv, Types
<1>5. read_ptr \in 0 .. S - 1 /\ read_ptr # W /\ Unread(read_ptr)
  <2>1. CASE Straight
    <3>1. R <= W /\ write_ptr \in R .. W /\ read_ptr \in R .. write_ptr
      BY <2>1 DEF Straight, On, OnChain, Chain, IsChain
    <3> QED
      BY <1>4, <3>1 DEF Unread
  <2>2. ASSUME NEW w \in 0 .. S - 1, Wrapped(w)
        PROVE  read_ptr \in 0 .. S - 1 /\ read_ptr # W /\ Unread(read_ptr)
    <3>1. W < R /\ read_ptr \in R .. w
      BY <2>2 DEF Wrapped, On, OnChain
    <3> QED
      BY <1>4, <3>1 DEF Unread
  <2> QED
    BY <1>3, <2>1, <2>2 DEF Inv, RingInv, Resetting
<1>6. NextCommand \in Commands
  BY <1>5 DEF Inv, Types, NextCommand
<1>7. NextCommand.type # "Body"
  BY InvImplies DEF ReadsHeaders
<1>8. NumberAt(read_ptr) = Len(executed) + 1
  <2>1. Position = read_ptr
    BY DEF Position
  <2> QED
    BY <1>3, <2>1 DEF IsNumbered
<1> QED
  BY <1>1, <1>2, <1>3, <1>5, <1>6, <1>7, <1>8

\* A command is executed, the one whose turn it is.
LEMMA ExecuteCommandWakes == ASSUME Inv, WakeInv, ExecuteCommand PROVE WakeInv'
<1> DEFINE D == command_fifo_data
<1>1. /\ UNCHANGED <<ring, wake, use_thread, coreVars, video, write_ptr, old_state, allow_sleep,
                     issued, unwoken>>
      /\ video = "execute" /\ read_ptr < write_ptr
      /\ NextCommand.type \notin {"Wraparound", "Shutdown"}
      /\ Run(NextCommand.type) /\ executed' = Append(executed, NextCommand.id)
      /\ read_ptr' = read_ptr + NextCommand.size
  BY DEF ExecuteCommand, Execute
<1>2. UNCHANGED <<command_fifo_write_ptr, command_fifo_read_ptr, command_fifo_data>>
  BY <1>1 DEF ring
<1>3. /\ ~Drained /\ Top # "reset_read_ptr" /\ IsNumbered
      /\ read_ptr \in 0 .. COMMAND_QUEUE_SIZE - 1 /\ read_ptr # command_fifo_write_ptr
      /\ Unread(read_ptr) /\ NextCommand \in Commands /\ NextCommand.type # "Body"
      /\ NumberAt(read_ptr) = Len(executed) + 1
      /\ Len(executed) \in Nat /\ issued \in Nat
  BY <1>1, NextIsUnread
<1>4. IsCommand(read_ptr) /\ D[read_ptr] = NextCommand
  BY <1>1, <1>3 DEF IsCommand, NextCommand
<1>5. /\ NextCommand.id = Len(executed) + 1
      /\ NumberAt(read_ptr + NextCommand.size) = NextCommand.id + 1
  BY <1>1, <1>3, <1>4 DEF NumberAt, IsNumbered
<1>6. executed' \in Seq(Nat) /\ Len(executed') = Len(executed) + 1
  BY <1>1, <1>3 DEF WakeInv, NumberInv, Commands
<1>7. \A o : (Unread(o)' <=> Unread(o)) /\ (IsCommand(o)' <=> IsCommand(o))
  BY <1>2 DEF Unread, IsCommand
<1>8. IsNumbered'
  <2>1. \A p : NumberAt(p)' = NumberAt(p)
    BY <1>1, <1>2 DEF NumberAt
  <2>2. Position' = read_ptr + NextCommand.size
    BY <1>1 DEF Position
  <2>3. NumberAt(Position)' = Len(executed)' + 1
    <3>1. ASSUME NEW p, p = Position' PROVE NumberAt(p)' = Len(executed)' + 1
      BY <1>5, <1>6, <2>1, <2>2, <3>1
    <3> QED
      BY <3>1 DEF NumberAt
  <2> QED
    BY <1>1, <1>2, <1>3, <1>7, <2>1, <2>3 DEF IsNumbered
<1>9. NextCommand.type = "Destroy" => gpu_device' = FALSE
  BY <1>1 DEF Run
<1>10. LastIsDestroy => LastIsDestroy'
  <2> SUFFICES ASSUME LastIsDestroy, Len(executed)' = issued' PROVE ~gpu_device'
    BY <1>1, <1>2, <1>7 DEF LastIsDestroy
  <2>1. NextCommand.id = issued
    BY <1>1, <1>5, <1>6
  <2>2. NextCommand.type = "Destroy"
    BY <1>3, <1>4, <2>1 DEF LastIsDestroy
  <2> QED
    BY <1>9, <2>2
<1>11. LocalTypes'
  <2>1. gpu_device' \in BOOLEAN
    BY <1>1 DEF Run, WakeInv, LocalTypes
  <2>2. run_idle_flag' \in BOOLEAN
    BY <1>1 DEF Run, RunIdleValues
  <2>3. read_ptr' \in 0 .. COMMAND_QUEUE_SIZE
    <3>1. read_ptr + NextCommand.size <= COMMAND_QUEUE_SIZE
      BY <1>1, InvImplies DEF ReadsHeaders
    <3> QED
      BY <1>1, <1>3, <3>1, QueueAssumption DEF Commands
  <2> QED
    BY <1>1, <2>1, <2>2, <2>3 DEF WakeInv, LocalTypes
<1>12. run_idle_flag' => gpu_device'
  BY <1>1 DEF Run, RunIdleValues
<1>13. command_fifo_write_ptr = 0 /\ command_fifo_read_ptr' # 0 => Pushing
  BY <1>2, <1>3 DEF WakeInv, NumberInv
<1>14. ~Asleep
  BY <1>1 DEF Asleep
<1> QED
  BY <1>1, <1>2, <1>3, <1>6, <1>8, <1>10, <1>11, <1>12, <1>13, <1>14, VideoRuns

\* At the wraparound the reader goes to 0.
LEMMA ExecuteWraparoundWakes == ASSUME Inv, WakeInv, ExecuteWraparound PROVE WakeInv'
<1> DEFINE D == command_fifo_data
           W == command_fifo_write_ptr
<1>1. /\ UNCHANGED <<ring, wake, use_thread, gpu_device, run_idle_flag, coreVars, old_state,
                     allow_sleep, history>>
      /\ video = "execute" /\ read_ptr < write_ptr /\ video' = "wrap_publish"
      /\ NextCommand.type = "Wraparound"
      /\ read_ptr' = 0 /\ write_ptr' = W
  BY DEF ExecuteWraparound, config
<1>2. /\ UNCHANGED <<command_fifo_write_ptr, command_fifo_read_ptr, command_fifo_data>>
      /\ UNCHANGED <<issued, executed, unwoken>>
  BY <1>1 DEF ring, history
<1>3. /\ ~Drained /\ Top # "reset_read_ptr" /\ IsNumbered /\ ~At("reset_read_ptr")
      /\ read_ptr \in 0 .. COMMAND_QUEUE_SIZE - 1 /\ read_ptr # W /\ Unread(read_ptr)
      /\ NumberAt(read_ptr) = Len(executed) + 1
  BY <1>1, NextIsUnread
<1>4. W # 0 => IsCommand(0)
  <2>1. Place(read_ptr) /\ ~IsCommand(read_ptr)
    BY <1>1, <1>3 DEF Place, IsHeader, IsCommand, NextCommand
  <2> QED
    BY <1>3, <2>1, Places
<1>5. NumberAt(0) = NumberAt(read_ptr)
  BY <1>1, <1>3, <1>4 DEF NumberAt, NextCommand, IsCommand
<1>6. \A o : (Unread(o)' <=> Unread(o)) /\ (IsCommand(o)' <=> IsCommand(o))
  BY <1>2 DEF Unread, IsCommand
<1>7. IsNumbered'
  <2>1. \A p : NumberAt(p)' = NumberAt(p)
    BY <1>2 DEF NumberAt
  <2>2. Position' = 0
    BY <1>1 DEF Position
  <2>3. NumberAt(Position)' = Len(executed)' + 1
    <3>1. ASSUME NEW p, p = Position' PROVE NumberAt(p)' = Len(executed)' + 1
      BY <1>2, <1>3, <1>5, <2>1, <2>2, <3>1
    <3> QED
      BY <3>1 DEF NumberAt
  <2> QED
    BY <1>2, <1>3, <1>6, <2>1, <2>3 DEF IsNumbered
<1>8. LastIsDestroy => LastIsDestroy'
  BY <1>1, <1>2, <1>6 DEF LastIsDestroy
<1>9. LocalTypes'
  <2>1. W \in 0 .. COMMAND_QUEUE_SIZE /\ 0 \in 0 .. COMMAND_QUEUE_SIZE
    BY QueueAssumption DEF Inv, Types
  <2> QED
    BY <1>1, <1>2, <2>1 DEF WakeInv, LocalTypes
<1>10. executed' \in Seq(Nat)
  BY <1>2 DEF WakeInv, NumberInv
<1>11. run_idle_flag' => gpu_device'
  BY <1>1 DEF WakeInv, IdleInv
<1>12. W = 0 /\ command_fifo_read_ptr' # 0 => Pushing
  BY <1>2, <1>3 DEF WakeInv, NumberInv
<1>13. ~Asleep
  BY <1>1 DEF Asleep
<1> QED
  BY <1>1, <1>2, <1>3, <1>7, <1>8, <1>9, <1>10, <1>11, <1>12, <1>13, VideoRuns

\* And publishes that it is there.
LEMMA WrapPublishWakes == ASSUME Inv, WakeInv, WrapPublish PROVE WakeInv'
<1> DEFINE W == command_fifo_write_ptr
           R == command_fifo_read_ptr
           S == COMMAND_QUEUE_SIZE
<1>1. /\ UNCHANGED <<command_fifo_write_ptr, command_fifo_data, wake, use_thread, gpu_device,
                     run_idle_flag, coreVars, videoLocals, history>>
      /\ video = "wrap_publish" /\ video' = "execute" /\ R' = 0
  BY DEF WrapPublish, config
<1>2. UNCHANGED <<write_ptr, read_ptr, old_state, allow_sleep, issued, executed, unwoken>>
  BY <1>1 DEF history, videoLocals
<1>3. ~Drained /\ ~Asleep
  BY <1>1 DEF Drained, Asleep
<1>4. Top # "reset_read_ptr"
  BY <1>3 DEF WakeInv, SwitchInv
<1>5. ~At("reset_read_ptr") /\ IsNumbered
  BY <1>4, TopIs DEF WakeInv, NumberInv, Inv
<1>6. W < R /\ read_ptr = 0
  BY <1>1, <1>5 DEF Inv, RingInv, Straight, Wrapped, Resetting
<1>7. W \in 0 .. S - 1 /\ R \in 0 .. S - 1 /\ S \in Nat
  BY QueueAssumption DEF Inv, Types
<1>8. \A o : (Unread(o)' => Unread(o)) /\ (IsCommand(o)' <=> IsCommand(o))
  <2>1. \A o : IsCommand(o)' <=> IsCommand(o)
    BY <1>1 DEF IsCommand
  <2>2. \A o : Unread(o)' => Unread(o)
    BY <1>1, <1>6, <1>7 DEF Unread
  <2> QED
    BY <2>1, <2>2
<1>9. IsNumbered'
  <2>1. \A p : NumberAt(p)' = NumberAt(p)
    BY <1>1, <1>2 DEF NumberAt
  <2>2. Position' = Position
    BY <1>1, <1>2, <1>6 DEF Position
  <2>3. ~(W' < R')
    BY <1>1, <1>7
  <2> QED
    BY <1>1, <1>2, <1>5, <1>8, <2>1, <2>2, <2>3 DEF IsNumbered
<1>10. LastIsDestroy => LastIsDestroy'
  BY <1>1, <1>2, <1>8 DEF LastIsDestroy
<1>11. LocalTypes'
  BY <1>1, <1>2 DEF WakeInv, LocalTypes
<1>12. executed' \in Seq(Nat)
  BY <1>2 DEF WakeInv, NumberInv
<1>13. run_idle_flag' => gpu_device'
  BY <1>1 DEF WakeInv, IdleInv
<1> QED
  BY <1>1, <1>2, <1>3, <1>9, <1>10, <1>11, <1>12, <1>13, VideoRuns

\* The shutdown command is the last one there is.
LEMMA ExecuteShutdownWakes == ASSUME Inv, WakeInv, ExecuteShutdown PROVE WakeInv'
<1> DEFINE D == command_fifo_data
           W == command_fifo_write_ptr
           R == command_fifo_read_ptr
           S == COMMAND_QUEUE_SIZE
           next == read_ptr + NextCommand.size
<1>1. /\ UNCHANGED <<command_fifo_write_ptr, command_fifo_data, wake, use_thread, gpu_device,
                     run_idle_flag, coreVars, write_ptr, old_state, allow_sleep, issued, unwoken>>
      /\ video = "execute" /\ read_ptr < write_ptr /\ video' = "exited"
      /\ NextCommand.type = "Shutdown" /\ executed' = Append(executed, NextCommand.id)
      /\ read_ptr' = next /\ R' = next
  BY DEF ExecuteShutdown, config
<1>2. /\ ~Drained /\ Top # "reset_read_ptr" /\ IsNumbered /\ ~At("reset_read_ptr")
      /\ read_ptr \in 0 .. S - 1 /\ read_ptr # W /\ Unread(read_ptr)
      /\ NextCommand \in Commands /\ NextCommand.type # "Body"
      /\ NumberAt(read_ptr) = Len(executed) + 1
      /\ Len(executed) \in Nat /\ issued \in Nat
  BY <1>1, NextIsUnread
<1>3. W \in 0 .. S - 1 /\ R \in 0 .. S - 1 /\ S \in Nat
  BY QueueAssumption DEF Inv, Types
<1>4. IsCommand(read_ptr) /\ D[read_ptr] = NextCommand
  BY <1>1 DEF IsCommand, NextCommand
<1>5. NextCommand.id = Len(executed) + 1 /\ NumberAt(next) = NextCommand.id + 1
  BY <1>1, <1>2, <1>4 DEF NumberAt, IsNumbered
<1>6. next = W
  <2>1. next \in Last
    <3>1. CASE Straight
      <4>1. /\ Chain(R, W) /\ R <= W /\ write_ptr \in R .. W /\ read_ptr \in R .. write_ptr
        BY <1>1, <3>1 DEF Straight, On, OnChain, Chain, IsChain
      <4>2. read_ptr \in R .. W - 1 /\ IsHeader(D, read_ptr)
        BY <1>2, <1>3, <1>4, <4>1 DEF IsHeader
      <4>3. CommandAt(D, read_ptr, W, Last)
        BY <4>1, <4>2 DEF Chain, IsChain
      <4> QED
        BY <1>1, <1>4, <4>3 DEF CommandAt
    <3>2. ASSUME NEW w \in 0 .. S - 1, Wrapped(w) PROVE next \in Last
      <4>1. Chain(R, w) /\ W < R /\ read_ptr \in R .. w /\ D[w].type = "Wraparound"
        BY <1>1, <3>2 DEF Wrapped, On, OnChain, WraparoundAt
      <4>2. read_ptr # w
        BY <1>1, <1>4, <4>1
      <4>3. read_ptr \in R .. w - 1 /\ IsHeader(D, read_ptr)
        BY <1>2, <1>3, <1>4, <4>1, <4>2 DEF IsHeader
      <4>4. CommandAt(D, read_ptr, w, Last)
        BY <4>1, <4>3 DEF Chain, IsChain
      <4> QED
        BY <1>1, <1>4, <4>4 DEF CommandAt
    <3> QED
      BY <1>2, <3>1, <3>2 DEF Inv, RingInv, Resetting
  <2> QED
    BY <2>1 DEF Last
<1>7. NumberAt(W) = issued + 1
  BY DEF NumberAt
<1>8. NextCommand.id = issued
  BY <1>2, <1>5, <1>6, <1>7 DEF Commands
<1>9. executed' \in Seq(Nat) /\ Len(executed') = issued
  BY <1>1, <1>2, <1>5, <1>8 DEF WakeInv, NumberInv, Commands
<1>10. \A o : ~Unread(o)'
  BY <1>1, <1>3, <1>6 DEF Unread
<1>11. IsNumbered'
  <2>1. NumberAt(Position)' = Len(executed)' + 1
    <3>1. Position' = W'
      BY <1>1, <1>6 DEF Position
    <3>2. ASSUME NEW p, p = W' PROVE NumberAt(p)' = issued' + 1
      BY <3>2 DEF NumberAt
    <3>3. NumberAt(Position)' = issued' + 1
      BY <3>1, <3>2 DEF NumberAt
    <3> QED
      BY <1>1, <1>9, <3>3
  <2>2. ~(W' < R')
    BY <1>1, <1>3, <1>6
  <2> QED
    BY <1>10, <2>1, <2>2 DEF IsNumbered
<1>12. ~LastIsDestroy
  BY <1>1, <1>2, <1>4, <1>8 DEF LastIsDestroy
<1>13. LocalTypes'
  <2>1. read_ptr' \in 0 .. S
    BY <1>1, <1>3, <1>6
  <2> QED
    BY <1>1, <2>1 DEF WakeInv, LocalTypes
<1>14. run_idle_flag' => gpu_device'
  BY <1>1 DEF WakeInv, IdleInv
<1>15. ~Asleep
  BY <1>1 DEF Asleep
<1>16. ~(W = 0 /\ R' # 0)
  BY <1>1, <1>6
<1> QED
  BY <1>1, <1>2, <1>9, <1>11, <1>12, <1>13, <1>14, <1>15, <1>16, VideoRuns

\* The end of a batch.
LEMMA PublishReadPtrWakes == ASSUME Inv, WakeInv, PublishReadPtr PROVE WakeInv'
<1> DEFINE W == command_fifo_write_ptr
           R == command_fifo_read_ptr
           S == COMMAND_QUEUE_SIZE
<1>1. /\ UNCHANGED <<command_fifo_write_ptr, command_fifo_data, wake, use_thread, gpu_device,
                     run_idle_flag, coreVars, videoLocals, history>>
      /\ video = "execute" /\ video' = "load_write_ptr" /\ read_ptr >= write_ptr
      /\ R' = read_ptr % S
  BY DEF PublishReadPtr, config
<1>2. UNCHANGED <<write_ptr, read_ptr, old_state, allow_sleep, issued, executed, unwoken>>
  BY <1>1 DEF history, videoLocals
<1>3. ~Drained /\ ~Asleep
  BY <1>1 DEF Drained, Asleep
<1>4. Top # "reset_read_ptr"
  BY <1>3 DEF WakeInv, SwitchInv
<1>5. ~At("reset_read_ptr") /\ IsNumbered
  BY <1>4, TopIs DEF WakeInv, NumberInv, Inv
<1>6. W \in 0 .. S - 1 /\ R \in 0 .. S - 1 /\ S \in Nat \ {0}
  BY QueueAssumption DEF Inv, Types
<1>7. /\ read_ptr \in 0 .. S - 1 /\ R <= read_ptr
      /\ (R <= W /\ read_ptr <= W) \/ W < R
  <2>1. CASE Straight
    <3>1. R <= W /\ write_ptr \in R .. W /\ read_ptr \in R .. write_ptr
      BY <1>1, <2>1 DEF Straight, On, OnChain, Chain, IsChain
    <3> QED
      BY <1>6, <3>1
  <2>2. ASSUME NEW w \in 0 .. S - 1, Wrapped(w)
        PROVE  read_ptr \in 0 .. S - 1 /\ R <= read_ptr /\ W < R
    <3>1. W < R /\ read_ptr \in R .. w
      BY <1>1, <2>2 DEF Wrapped, On, OnChain
    <3> QED
      BY <1>6, <3>1
  <2> QED
    BY <1>5, <2>1, <2>2 DEF Inv, RingInv, Resetting
<1>8. R' = read_ptr
  <2>1. \A k \in 0 .. S - 1 : k % S = k
    <3> HIDE DEF W, R, S
    <3> QED
      BY <1>6
  <2> QED
    BY <1>1, <1>7, <2>1
<1>9. \A o : (Unread(o)' => Unread(o)) /\ (IsCommand(o)' <=> IsCommand(o))
  <2>1. \A o : IsCommand(o)' <=> IsCommand(o)
    BY <1>1 DEF IsCommand
  <2>2. \A o : Unread(o)' => Unread(o)
    BY <1>1, <1>6, <1>7, <1>8 DEF Unread
  <2> QED
    BY <2>1, <2>2
<1>10. IsNumbered'
  <2>1. \A p : NumberAt(p)' = NumberAt(p)
    BY <1>1, <1>2 DEF NumberAt
  <2>2. Position' = Position
    BY <1>1, <1>2, <1>8 DEF Position
  <2>3. W' < R' => W < R
    BY <1>1, <1>6, <1>7, <1>8
  <2> QED
    BY <1>1, <1>2, <1>5, <1>6, <1>7, <1>8, <1>9, <2>1, <2>2, <2>3 DEF IsNumbered, IsHeader
<1>11. LastIsDestroy => LastIsDestroy'
  BY <1>1, <1>2, <1>9 DEF LastIsDestroy
<1>12. LocalTypes'
  BY <1>1, <1>2 DEF WakeInv, LocalTypes
<1>13. executed' \in Seq(Nat)
  BY <1>2 DEF WakeInv, NumberInv
<1>14. run_idle_flag' => gpu_device'
  BY <1>1 DEF WakeInv, IdleInv
<1>15. W = 0 /\ R' # 0 => Pushing
  <2> SUFFICES ASSUME W = 0, R' # 0 PROVE R # 0
    BY <1>4 DEF WakeInv, NumberInv
  <2> QED
    BY <1>6, <1>7, <1>8
<1> QED
  BY <1>1, <1>2, <1>3, <1>10, <1>11, <1>12, <1>13, <1>14, <1>15, VideoRuns

-----------------------------------------------------------------------------
(* The invariant. *)

\* The invariant holds at first.
LEMMA WakeInit == Init => WakeInv
<1> SUFFICES ASSUME Init PROVE WakeInv
  OBVIOUS
<1> USE DEF Init
<1>1. Top = "none" /\ ~Pushing /\ Len(core) = 0 /\ Count = 0 /\ ~Asleep /\ Parked /\ Drained
  BY DEF Top, Pushing, Count, Asleep, Parked, Drained
<1>2. MaxCommands \in Nat /\ CPU_THREAD_IS_WAITING \in Nat \ {0} /\ COMMAND_QUEUE_SIZE \in Nat \ {0}
  BY QueueAssumption, WakeCountAssumption
<1>3. OrderInv
  BY DEF OrderInv, Ordered
<1>4. BoundInv
  BY <1>1, <1>2 DEF BoundInv, Pushed
<1>5. CountInv
  BY <1>1, <1>2 DEF CountInv, Work
<1>6. SleepInv
  BY <1>1, <1>2 DEF SleepInv
<1>7. FlagInv
  BY <1>1, <1>2 DEF FlagInv
<1>8. WokenInv /\ DrainInv /\ DestroyInv /\ SwitchInv
  BY <1>1 DEF WokenInv, WokenPoints, SyncPoints, DrainInv, DestroyInv, SwitchInv
<1>9. LocalTypes
  BY <1>2, WakeCountAssumption DEF LocalTypes, SLEEPING
<1>10. NumberInv
  <2>1. \A o \in 0 .. COMMAND_QUEUE_SIZE - 1 : ~Unread(o)
    BY <1>2 DEF Unread
  <2>2. NumberAt(Position) = Len(executed) + 1
    BY DEF NumberAt, Position
  <2>3. IsNumbered
    BY <2>1, <2>2 DEF IsNumbered
  <2> QED
    BY <1>1, <2>3 DEF NumberInv, Pushes, Body, Command
<1>11. IdleInv /\ DirectInv
  BY <1>1 DEF IdleInv, DirectInv, ThreadPoints, WakePoints
<1> QED
  BY <1>3, <1>4, <1>5, <1>6, <1>7, <1>8, <1>9, <1>10, <1>11 DEF WakeInv

\* A stuttering step.
LEMMA StutterWakes == ASSUME WakeInv, UNCHANGED vars PROVE WakeInv'
<1>1. UNCHANGED <<ring, wake, config, coreVars, videoVars, history>>
  BY DEF vars
<1>2. UNCHANGED <<command_fifo_write_ptr, command_fifo_read_ptr, command_fifo_data>>
  BY <1>1 DEF ring
<1>3. UNCHANGED <<thread_wake_count, thread_wake_semaphore, thread_is_done_semaphore>>
  BY <1>1 DEF wake
<1>4. UNCHANGED <<use_thread, gpu_device, run_idle_flag, core, cmd, sync_value>>
  BY <1>1 DEF config, coreVars, coreLocals
<1>5. /\ UNCHANGED <<video, write_ptr, read_ptr, old_state, allow_sleep>>
      /\ UNCHANGED <<issued, executed, unwoken>>
  BY <1>1 DEF videoVars, videoLocals, history
<1>6. /\ Count' = Count /\ (Asleep' <=> Asleep) /\ (Parked' <=> Parked)
      /\ (Drained' <=> Drained) /\ (Synchronized' <=> Synchronized)
      /\ (IsNumbered' <=> IsNumbered) /\ (AllDone' <=> AllDone)
      /\ (LastIsDestroy' <=> LastIsDestroy)
  BY <1>1, Same
<1>7. /\ Top' = Top /\ (Pushing' <=> Pushing)
      /\ OrderInv' /\ BoundInv' /\ WokenInv' /\ DestroyInv'
  BY <1>1, <1>4, <1>5, <1>6, VideoKeepsStack
<1>8. CountInv'
  BY <1>5, <1>6, <1>7 DEF WakeInv, CountInv
<1>9. SleepInv'
  BY <1>3, <1>5, <1>6, <1>7 DEF WakeInv, SleepInv
<1>10. FlagInv'
  BY <1>3, <1>4, <1>5, <1>6, <1>7 DEF WakeInv, FlagInv
<1>11. LocalTypes'
  BY <1>4, <1>5 DEF WakeInv, LocalTypes
<1>12. NumberInv'
  BY <1>2, <1>4, <1>5, <1>6, <1>7 DEF WakeInv, NumberInv
<1>13. DrainInv'
  BY <1>2, <1>5, <1>6 DEF WakeInv, DrainInv
<1>14. IdleInv'
  BY <1>2, <1>4, <1>5 DEF WakeInv, IdleInv
<1>15. DirectInv'
  BY <1>2, <1>4, <1>6, <1>7 DEF WakeInv, DirectInv
<1>16. SwitchInv'
  BY <1>2, <1>4, <1>5, <1>6, <1>7 DEF WakeInv, SwitchInv
<1> QED
  BY <1>7, <1>8, <1>9, <1>10, <1>11, <1>12, <1>13, <1>14, <1>15, <1>16 DEF WakeInv

\* Every step keeps it, given the ring's invariant.
LEMMA WakeNext == Inv /\ WakeInv /\ [Next]_vars /\ [~SyncsUnwoken]_vars => WakeInv'
<1> SUFFICES ASSUME Inv, WakeInv, [Next]_vars, [~SyncsUnwoken]_vars PROVE WakeInv'
  OBVIOUS
<1>1. CASE CoreCalls /\ ~SyncsUnwoken
  BY <1>1, CallsWake
<1>2. CASE CoreSteps
  <2>1. CASE AllocSteps
    BY <2>1, AllocStepsWake
  <2>2. CASE Wrap
    BY <2>2, WrapWakes
  <2>3. CASE Fill
    BY <2>3, FillWakes
  <2>4. CASE Push
    BY <2>4, PushWakes
  <2>5. CASE WakeIfSteps
    BY <2>5, WakeIfStepsWake
  <2>6. CASE WakeThread
    BY <2>6, WakeThreadWakes
  <2>7. CASE WakePost
    BY <2>7, WakePostWakes
  <2>8. CASE SpinSteps
    BY <2>8, SpinStepsWake
  <2>9. CASE SyncCAS
    BY <2>9, SyncCASWakes
  <2>10. CASE SyncWait
    BY <2>10, SyncWaitWakes
  <2>11. CASE Synced \/ SkipReadVRAM
    BY <2>11, SyncedWake
  <2>12. CASE SetThreadEnabled
    BY <2>12, SetThreadEnabledWakes
  <2>13. CASE Enable
    BY <2>13, EnableWakes
  <2>14. CASE Reset
    BY <2>14, ResetWakes
  <2>15. CASE ResetReadPtr
    BY <2>15, ResetReadPtrWakes
  <2>16. CASE PushOwn
    BY <2>16, PushOwnWakes
  <2>17. CASE Join
    BY <2>17, JoinWakes
  <2> QED
    BY <1>2, <2>1, <2>2, <2>3, <2>4, <2>5, <2>6, <2>7, <2>8, <2>9, <2>10, <2>11, <2>12, <2>13,
       <2>14, <2>15, <2>16, <2>17 DEF CoreSteps, AllocSteps, WakeIfSteps, SpinSteps
<1>3. CASE VideoSteps
  <2>1. CASE LoadWritePtr
    BY <2>1, LoadWritePtrWakes
  <2>2. CASE LoadReadPtrOnThread
    BY <2>2, LoadReadPtrWakes
  <2>3. CASE ExecuteCommand
    BY <2>3, ExecuteCommandWakes
  <2>4. CASE ExecuteWraparound
    BY <2>4, ExecuteWraparoundWakes
  <2>5. CASE WrapPublish
    BY <2>5, WrapPublishWakes
  <2>6. CASE ExecuteShutdown
    BY <2>6, ExecuteShutdownWakes
  <2>7. CASE PublishReadPtr
    BY <2>7, PublishReadPtrWakes
  <2>8. CASE DoRunIdle
    BY <2>8, DoRunIdleWakes
  <2>9. CASE SleepLoad
    BY <2>9, SleepLoadWakes
  <2>10. CASE SleepCAS
    BY <2>10, SleepCASWakes
  <2>11. CASE SleepPost
    BY <2>11, SleepPostWakes
  <2>12. CASE SleepWait
    BY <2>12, SleepWaitWakes
  <2> QED
    BY <1>3, <2>1, <2>2, <2>3, <2>4, <2>5, <2>6, <2>7, <2>8, <2>9, <2>10, <2>11, <2>12
    DEF VideoSteps
<1>4. CASE UNCHANGED vars
  BY <1>4, StutterWakes
<1> QED
  BY <1>1, <1>2, <1>3, <1>4 DEF Next, Terminated

\* A reset is safe.  The proof of a step takes this of the state after it, where
\* the ring's invariant is what is being proved: it is not assumed here.
LEMMA WakeImpliesResetIsSafe == WakeInv => ResetIsSafe
<1> SUFFICES ASSUME WakeInv, Top \in {"reset", "reset_read_ptr"}
             PROVE  /\ Top = "reset" => IsCommandFIFOEmpty
                    /\ ~run_idle_flag
                    /\ \/ video \in {"sleep_post", "sleep_wait"}
                       \/ command_fifo_write_ptr = 0 /\ command_fifo_read_ptr = 0 /\ write_ptr = 0
  <2>1. At("reset") <=> Top = "reset"
    BY DEF At, Top
  <2>2. At("reset_read_ptr") <=> Top = "reset_read_ptr"
    BY DEF At, Top
  <2> QED
    BY <2>1, <2>2 DEF ResetIsSafe
<1>1. Top = "reset" => IsCommandFIFOEmpty
  BY DEF WakeInv, SwitchInv, Synchronized, Drained, IsCommandFIFOEmpty
<1>2. ~gpu_device /\ Parked
  BY DEF WakeInv, SwitchInv, Synchronized
<1>3. ~run_idle_flag
  BY <1>2 DEF WakeInv, IdleInv
<1> QED
  BY <1>1, <1>2, <1>3 DEF Parked, Asleep

\* And that the waits are answered, that no wakeup is lost, and that every
\* command has been executed when SyncThread returns.
LEMMA WakeImplies ==
  Inv /\ WakeInv => TypeOK /\ WaitIsAnswered /\ NoLostWakeup /\ SyncThreadDrains
<1> SUFFICES ASSUME Inv, WakeInv PROVE TypeOK /\ WaitIsAnswered /\ NoLostWakeup /\ SyncThreadDrains
  OBVIOUS
<1>1. \A x \in Points : At(x) <=> Top = x
  BY TopIs DEF Inv
<1>2. {"sync_wait", "wake_post", "synced"} \subseteq Points
  BY DEF Points, WakePoints
<1>3. CPU_THREAD_IS_WAITING \in Nat \ {0} /\ issued \in Nat
  BY CountIsSmall
<1>4. WaitIsAnswered
  <2> SUFFICES ASSUME Top = "sync_wait"
               PROVE  \/ thread_is_done_semaphore > 0 \/ video = "sleep_post"
                      \/ Count >= CPU_THREAD_IS_WAITING
    BY <1>1, <1>2 DEF WaitIsAnswered, Count
  <2> QED
    BY DEF WakeInv, FlagInv
<1>5. NoLostWakeup
  <2> SUFFICES ASSUME video = "sleep_wait", Len(executed) < issued
               PROVE  thread_wake_semaphore > 0 \/ Top = "wake_post" \/ unwoken
    BY <1>1, <1>2 DEF NoLostWakeup
  <2>1. unwoken \/ Work(Count) > 0
    BY <1>3 DEF WakeInv, DrainInv, AllDone
  <2>2. Work(SLEEPING) = SLEEPING
    BY <1>3 DEF Work, SLEEPING
  <2>3. Asleep
    BY DEF Asleep, WakeInv, SleepInv
  <2>4. Count = SLEEPING => unwoken
    BY <2>1, <2>2 DEF SLEEPING
  <2> QED
    BY <2>3, <2>4 DEF WakeInv, SleepInv
<1>6. SyncThreadDrains
  BY <1>1, <1>2 DEF SyncThreadDrains, WakeInv, SwitchInv, Synchronized, Drained
<1>7. TypeOK
  <2>1. /\ command_fifo_write_ptr \in 0 .. COMMAND_QUEUE_SIZE - 1
        /\ command_fifo_read_ptr \in 0 .. COMMAND_QUEUE_SIZE
    BY QueueAssumption DEF Inv, Types
  <2>2. thread_wake_count \in SLEEPING .. 2 * CPU_THREAD_IS_WAITING
    BY <1>3 DEF WakeInv, SleepInv, Count, SLEEPING
  <2>3. thread_wake_semaphore \in 0 .. 1
    BY DEF WakeInv, SleepInv
  <2>4. thread_is_done_semaphore \in 0 .. 1
    BY DEF WakeInv, FlagInv
  <2>5. run_idle_flag \in BOOLEAN /\ executed \in Seq(Nat)
    BY DEF WakeInv, LocalTypes, NumberInv
  <2> QED
    BY <1>3, <2>1, <2>2, <2>3, <2>4, <2>5 DEF TypeOK, WakeInv, LocalTypes
<1> QED
  BY <1>4, <1>5, <1>6, <1>7

-----------------------------------------------------------------------------
(* Theorems. *)

\* The two invariants together are inductive: neither assumes a safe reset.
LEMMA BothNext ==
  Inv /\ WakeInv /\ [Next]_vars /\ [~SyncsUnwoken]_vars => Inv' /\ WakeInv'
<1> SUFFICES ASSUME Inv, WakeInv, [Next]_vars, [~SyncsUnwoken]_vars PROVE Inv' /\ WakeInv'
  OBVIOUS
<1>1. WakeInv'
  BY WakeNext
<1>2. ResetIsSafe
  BY WakeImpliesResetIsSafe
<1>3. ResetIsSafe'
  <2>1. WakeInv' => ResetIsSafe'
    BY WakeImpliesResetIsSafe, PTL
  <2> QED
    BY <1>1, <2>1
<1> QED
  BY <1>1, <1>2, <1>3, InvNext

\* The behaviours in which no synchronising call follows a PushCommand that has
\* woken nobody. SyncThread after a PushCommand below the threshold is legal
\* code and not among them.
WokenSpec == Spec /\ [][~SyncsUnwoken]_vars

\* A core thread that makes no such calls has only such behaviours.
LEMMA CarefulCallsAreWoken == ASSUME SyncUnwoken = FALSE PROVE Spec => WokenSpec
<1>1. [Next]_vars => [~SyncsUnwoken]_vars
  BY DEF SyncsUnwoken, BeginSyncThread, BeginSetThreadEnabled, BeginProcessShutdown
<1> QED
  BY <1>1, PTL DEF Spec, WokenSpec

\* The invariants of the ring and of the wake protocol hold in every state.
THEOREM BothAlways == WokenSpec => [](Inv /\ WakeInv)
<1>1. Inv /\ WakeInv /\ [Next]_vars /\ [~SyncsUnwoken]_vars => (Inv /\ WakeInv)'
  BY BothNext
<1>2. Init => Inv /\ WakeInv
  BY InvInit, WakeInit
<1> QED
  BY <1>1, <1>2, PTL DEF Spec, WokenSpec

\* Every variable stays in its type: the semaphores binary, the wake count
\* below twice the flag, the pointers in the ring.
THEOREM TypeCorrect == WokenSpec => []TypeOK
<1>1. Inv /\ WakeInv => TypeOK
  BY WakeImplies
<1> QED
  BY <1>1, BothAlways, PTL

\* A core thread that waits in SyncThread will be released, in every schedule of
\* the two threads but one: SyncThread after a PushCommand that has woken nobody,
\* where the code hangs.
THEOREM WaitIsAlwaysAnswered == WokenSpec => []WaitIsAnswered
<1>1. Inv /\ WakeInv => WaitIsAnswered
  BY WakeImplies
<1> QED
  BY <1>1, BothAlways, PTL

\* The video thread never sleeps through a wake that found commands to execute.
THEOREM NoWakeupIsLost == WokenSpec => []NoLostWakeup
<1>1. Inv /\ WakeInv => NoLostWakeup
  BY WakeImplies
<1> QED
  BY <1>1, BothAlways, PTL

\* ResetCommandFIFO's assertion holds, and the video thread cannot see the two
\* pointers half reset.
THEOREM ResetIsAlwaysSafe == WokenSpec => []ResetIsSafe
<1>1. Inv /\ WakeInv => ResetIsSafe
  BY WakeImpliesResetIsSafe
<1> QED
  BY <1>1, BothAlways, PTL

\* When SyncThread returns, every command issued before has been executed.
THEOREM SyncThreadAlwaysDrains == WokenSpec => []SyncThreadDrains
<1>1. Inv /\ WakeInv => SyncThreadDrains
  BY WakeImplies
<1> QED
  BY <1>1, BothAlways, PTL

\* The memory safety of the ring, without an assumption about resets: what
\* AllocateCommand hands out is free, and the video thread finds headers.
THEOREM RingIsAlwaysSafe == WokenSpec => [](AllocationIsFree /\ ReadsHeaders)
<1>1. Inv /\ WakeInv => AllocationIsFree /\ ReadsHeaders
  BY InvImplies
<1> QED
  BY <1>1, BothAlways, PTL

-----------------------------------------------------------------------------
(* The refinement: every step of the two threads is a step of CommandQueue   *)
(* or leaves it as it is.                                                    *)

\* The core thread is inside a synchronising call as long as "synced" is on
\* its stack.
LEMMA InSyncIs ==
  ASSUME StackInv
  PROVE  /\ InSync <=> \E i \in 1 .. Len(core) : core[i] = "synced"
         /\ core = <<>> => ~InSync
<1>1. core \in Seq(Points)
  BY TopIs
<1> QED
  BY <1>1 DEF InSync

\* It is a truth value, which the abstract queue keeps by an equation.
LEMMA SameSync ==
  /\ (InSync' <=> InSync) => InSync' = InSync
  /\ InSync => InSync = TRUE
  /\ InSync' => InSync' = TRUE
  /\ ~InSync' => InSync' = FALSE
<1>1. InSync \in BOOLEAN /\ InSync' \in BOOLEAN
  BY DEF InSync
<1> QED
  BY <1>1

\* A return from another point does not end the call.
LEMMA ReturnKeepsSync ==
  ASSUME StackInv, OrderInv, core # <<>>, Return, Top # "synced"
  PROVE  InSync' <=> InSync
<1>1. /\ core \in Seq(Points) /\ Len(core) \in Nat \ {0} /\ Top = core[1]
      /\ Len(core') = Len(core) - 1 /\ \A i \in 1 .. Len(core') : core'[i] = core[i + 1]
  BY TopIs, Returned
<1>2. core' \in Seq(Points)
  BY <1>1, HeadTailProperties DEF Return
<1>3. ASSUME NEW i \in 1 .. Len(core), core[i] = "synced" PROVE InSync'
  <2>1. i # 1 /\ i - 1 \in 1 .. Len(core') /\ core'[i - 1] = core[i]
    BY <1>1, <1>3
  <2> QED
    BY <1>2, <1>3, <2>1 DEF InSync
<1>4. ASSUME NEW i \in 1 .. Len(core'), core'[i] = "synced" PROVE InSync
  <2>1. i + 1 \in 1 .. Len(core) /\ core[i + 1] = "synced"
    BY <1>1, <1>4
  <2> QED
    BY <1>1, <2>1 DEF InSync
<1> QED
  BY <1>1, <1>2, <1>3, <1>4 DEF InSync

\* Nor does it begin or end where other points take the place of another.
LEMMA GotoKeepsSync ==
  ASSUME StackInv, core # <<>>, NEW points \in Seq(Points), Goto(points), Top # "synced",
         \A i \in 1 .. Len(points) : points[i] # "synced"
  PROVE  InSync' <=> InSync
<1> DEFINE n == Len(points)
<1>1. core \in Seq(Points) /\ Len(core) \in Nat \ {0} /\ Top = core[1] /\ n \in Nat
  BY TopIs
<1>2. /\ Tail(core) \in Seq(Points) /\ Len(Tail(core)) = Len(core) - 1
      /\ \A i \in 1 .. Len(core) - 1 : Tail(core)[i] = core[i + 1]
  BY <1>1, HeadTailProperties
<1>3. /\ core' \in Seq(Points) /\ Len(core') = n + Len(core) - 1
      /\ \A i \in 1 .. Len(core') :
           core'[i] = IF i <= n THEN points[i] ELSE Tail(core)[i - n]
  BY <1>1, <1>2, ConcatProperties DEF Goto
<1>4. ASSUME NEW i \in 1 .. Len(core), core[i] = "synced" PROVE InSync'
  <2>1. i # 1 /\ n + i - 1 \in 1 .. Len(core') /\ n + i - 1 > n /\ n + i - 1 - n = i - 1
        /\ i - 1 \in 1 .. Len(core) - 1 /\ i - 1 + 1 = i
    BY <1>1, <1>3, <1>4
  <2>2. core'[n + i - 1] = core[i]
    BY <1>1, <1>2, <1>3, <2>1
  <2> QED
    BY <1>3, <1>4, <2>1, <2>2 DEF InSync
<1>5. ASSUME NEW i \in 1 .. Len(core'), core'[i] = "synced" PROVE InSync
  <2>1. i > n
    BY <1>3, <1>5
  <2>2. i - n \in 1 .. Len(core) - 1 /\ core'[i] = Tail(core)[i - n]
    BY <1>1, <1>3, <1>5, <2>1
  <2>3. i - n + 1 \in 1 .. Len(core) /\ core[i - n + 1] = "synced"
    BY <1>1, <1>2, <1>5, <2>2
  <2> QED
    BY <1>1, <2>3 DEF InSync
<1>6. /\ InSync <=> \E i \in 1 .. Len(core) : core[i] = "synced"
      /\ InSync' <=> \E i \in 1 .. Len(core') : core'[i] = "synced"
  BY <1>1, <1>3 DEF InSync
<1> QED
  BY <1>4, <1>5, <1>6

\* What a step that goes on as one of these two does.
Moves == Return \/ \E points \in Seq(Points \ {"synced"}) : Goto(points)

\* It leaves the abstract queue as it is.
LEMMA MovesStutter ==
  ASSUME Inv, WakeInv, core # <<>>, Moves, Top # "synced", UNCHANGED <<issued, executed>>
  PROVE  UNCHANGED Queue!vars
<1>1. StackInv /\ OrderInv
  BY DEF Inv, WakeInv
<1>2. ASSUME NEW points \in Seq(Points \ {"synced"}), Goto(points) PROVE InSync' <=> InSync
  <2>1. points \in Seq(Points) /\ \A i \in 1 .. Len(points) : points[i] # "synced"
    OBVIOUS
  <2> QED
    BY <1>1, <1>2, <2>1, GotoKeepsSync
<1>3. InSync' <=> InSync
  BY <1>1, <1>2, ReturnKeepsSync DEF Moves
<1> QED
  BY <1>3, SameSync DEF Queue!vars

\* The queue of commands is empty at first.
LEMMA QueueInit == Init => Queue!Init
  BY DEF Init, Queue!Init, InSync

\* A call that begins a synchronisation is BeginSync.
LEMMA CallsImplement ==
  ASSUME Inv, CoreCalls PROVE Queue!BeginSync \/ UNCHANGED Queue!vars
<1>1. core = <<>> /\ UNCHANGED <<issued, executed>>
  BY DEF CoreCalls, BeginPush, BeginReconfigure, BeginSyncThread, BeginSetThreadEnabled,
         BeginProcessShutdown, Begin, history
<1>2. ~InSync
  BY <1>1, InSyncIs DEF Inv
<1>3. CASE InSync'
  BY <1>1, <1>2, <1>3, SameSync DEF Queue!BeginSync
<1>4. CASE ~InSync'
  BY <1>1, <1>2, <1>4, SameSync DEF Queue!vars
<1> QED
  BY <1>3, <1>4

\* A push is Issue, or IssueDirectly without the thread.
LEMMA PushImplements ==
  ASSUME Inv, WakeInv, Push PROVE Queue!Issue \/ Queue!IssueDirectly
<1>1. ASSUME NEW push \in Pushes, At(push)
      PROVE  core # <<>> /\ Top = push /\ ~InSync /\ cmd.id = issued + 1
  <2>1. push \in Points /\ push # "synced"
    BY DEF Points, Pushes
  <2>2. core # <<>> /\ Top = push /\ core[1] = push /\ Len(core) \in Nat \ {0}
    BY <1>1, <2>1, TopIs DEF Inv
  <2>3. \A i \in 1 .. Len(core) : core[i] # "synced"
    BY <2>1, <2>2, BelowPush
  <2>4. ~InSync
    BY <2>3, InSyncIs DEF Inv
  <2> QED
    BY <2>2, <2>4 DEF WakeInv, NumberInv
<1>2. ASSUME NEW push \in Pushes, NEW points, Publish(push, points) PROVE Queue!Issue
  BY <1>1, <1>2 DEF Publish, Queue!Issue, InSync
<1>3. ASSUME NEW push \in Pushes, PushDirectly(push) PROVE Queue!IssueDirectly
  <2>1. /\ At(push) /\ ~use_thread /\ Return
        /\ executed' = Append(executed, cmd.id) /\ issued' = issued + 1
    BY <1>3 DEF PushDirectly, Execute
  <2>2. core # <<>> /\ Top = push /\ ~InSync /\ cmd.id = issued + 1
    BY <1>1, <2>1
  <2>3. Top \notin {"synced", "reset", "reset_read_ptr"}
    BY <2>2 DEF Pushes
  <2>4. Len(executed) = issued
    BY <2>1, <2>3 DEF WakeInv, DirectInv, Drained
  <2>5. InSync' <=> InSync
    BY <2>1, <2>2, <2>3, ReturnKeepsSync DEF Inv, WakeInv
  <2> QED
    BY <2>1, <2>2, <2>4, <2>5, SameSync DEF Queue!IssueDirectly, Queue!ExecuteOne
<1> QED
  BY <1>2, <1>3 DEF Push, Pushes

\* The end of SyncThread is EndSync.
LEMMA SyncedImplements == ASSUME Inv, WakeInv, Synced PROVE Queue!EndSync
<1>1. At("synced") /\ Return /\ UNCHANGED <<issued, executed>>
  BY DEF Synced, history
<1>2. /\ Top = "synced" /\ core # <<>> /\ core \in Seq(Points)
      /\ Len(core) \in Nat \ {0} /\ core[1] = "synced"
  BY <1>1, TopIs DEF Inv
<1>3. InSync
  BY <1>2 DEF InSync
<1>4. Len(executed) = issued
  BY <1>2 DEF WakeInv, SwitchInv, Synchronized, Drained
<1>5. ~InSync'
  <2>1. /\ Len(core') = Len(core) - 1 /\ \A i \in 1 .. Len(core') : core'[i] = core[i + 1]
    BY <1>1, <1>2, Returned DEF Inv, WakeInv
  <2>2. core' \in Seq(Points)
    BY <1>1, <1>2, HeadTailProperties DEF Return
  <2>3. ASSUME NEW i \in 1 .. Len(core') PROVE core'[i] # "synced"
    <3>1. i + 1 \in 1 .. Len(core) /\ 1 < i + 1 /\ core'[i] = core[i + 1]
      BY <1>2, <2>1
    <3>2. Level(core[1]) < Level(core[i + 1])
      BY <1>2, <3>1 DEF WakeInv, OrderInv, Ordered
    <3> QED
      BY <1>2, <3>1, <3>2 DEF Level
  <2> QED
    BY <2>2, <2>3 DEF InSync
<1> QED
  BY <1>1, <1>3, <1>4, <1>5, SameSync DEF Queue!EndSync

\* The steps of the core thread that are not pushes, nor the end of SyncThread.
OtherCoreSteps ==
  \/ Alloc \/ FullLoad \/ UnprocessedLoad \/ Wrap \/ Fill \/ Threshold
  \/ WakeThread \/ WakePost \/ WakeThreadIfSleeping
  \/ SpinCheck \/ SpinExpire \/ SyncLoad \/ SyncEmpty \/ SyncCAS \/ SyncWait
  \/ SetThreadEnabled \/ Enable \/ Reset \/ ResetReadPtr \/ PushOwn \/ SkipReadVRAM

\* They issue and execute nothing, and they stay in the call they are in.
LEMMA OtherCoreStepsStutter ==
  ASSUME Inv, WakeInv, OtherCoreSteps PROVE UNCHANGED Queue!vars
<1> DEFINE Others == Seq(Points \ {"synced"})
<1> USE DEF Points, AllocPoints, WakePoints, Pushes
<1>1. UNCHANGED <<issued, executed>>
  BY DEF OtherCoreSteps, history, Alloc, FullLoad, UnprocessedLoad, Wrap, Fill, Threshold,
         WakeThread, WakePost, WakeThreadIfSleeping, SpinCheck, SpinExpire, SyncLoad, SyncEmpty,
         SyncCAS, SyncWait, SetThreadEnabled, Enable, Reset, ResetReadPtr, PushOwn, PushFrom,
         SkipReadVRAM
<1>2. \A x, y \in Points \ {"synced"} : <<x>> \in Others /\ <<x, y>> \in Others
  OBVIOUS
<1>3. core # <<>> /\ Top # "synced"
  <2>1. \E x \in Points \ {"synced"} : At(x)
    <3>1. CASE Alloc \/ FullLoad \/ UnprocessedLoad \/ Wrap \/ Fill \/ Threshold
      BY <3>1 DEF Alloc, FullLoad, UnprocessedLoad, Wrap, Fill, Threshold
    <3>2. CASE WakeThread \/ WakePost \/ WakeThreadIfSleeping \/ SpinCheck \/ SpinExpire
      BY <3>2 DEF WakeThread, WakePost, WakeThreadIfSleeping, SpinCheck, SpinExpire
    <3>3. CASE SyncLoad \/ SyncEmpty \/ SyncCAS \/ SyncWait
      BY <3>3 DEF SyncLoad, SyncEmpty, SyncCAS, SyncWait
    <3>4. CASE SetThreadEnabled \/ Enable \/ Reset \/ ResetReadPtr \/ SkipReadVRAM
      BY <3>4 DEF SetThreadEnabled, Enable, Reset, ResetReadPtr, SkipReadVRAM
    <3>5. CASE PushOwn
      BY <3>5 DEF PushOwn, PushFrom
    <3> QED
      BY <3>1, <3>2, <3>3, <3>4, <3>5 DEF OtherCoreSteps
  <2> QED
    BY <2>1 DEF At, Top
<1>4. Moves
  <2>1. \A x, y \in Points \ {"synced"} :
          (Goto(<<x>>) => Moves) /\ (Goto(<<x, y>>) => Moves)
    BY <1>2 DEF Moves
  <2>2. Return => Moves
    BY DEF Moves
  <2> HIDE DEF Points, AllocPoints, WakePoints, Pushes, Others
  <2>3. {"wake_if_sleeping", "full_load", "unprocessed_load", "wrap", "alloc", "wake", "wake_post",
         "wake_if_not_empty", "spin_empty", "spin", "spin_check", "sync_load", "sync_empty",
         "sync_cas", "sync_wait", "reset", "reset_read_ptr"} \subseteq Points \ {"synced"}
    BY DEF Points, AllocPoints, WakePoints
  <2>4. CASE Alloc
    <3>1. \/ Return \/ Goto(<<"wake_if_sleeping", "full_load">>)
          \/ Goto(<<"wake_if_sleeping", "unprocessed_load">>) \/ Goto(<<"wrap">>)
      BY <2>4 DEF Alloc
    <3> QED
      BY <2>1, <2>2, <2>3, <3>1
  <2>5. CASE FullLoad \/ UnprocessedLoad \/ Wrap \/ Fill
    <3>1. \/ Return \/ Goto(<<"wake_if_sleeping", "full_load">>)
          \/ Goto(<<"wake_if_sleeping", "unprocessed_load">>) \/ Goto(<<"wrap">>)
          \/ Goto(<<"alloc">>)
      BY <2>5 DEF FullLoad, UnprocessedLoad, Wrap, Fill
    <3> QED
      BY <2>1, <2>2, <2>3, <3>1
  <2>6. CASE Threshold \/ WakeThread \/ WakePost \/ WakeThreadIfSleeping
    <3>1. \/ Return \/ Goto(<<"wake">>) \/ Goto(<<"wake_post">>) \/ Goto(<<"wake_if_not_empty">>)
      BY <2>6 DEF Threshold, WakeThread, WakePost, WakeThreadIfSleeping
    <3> QED
      BY <2>1, <2>2, <2>3, <3>1
  <2>7. CASE SpinCheck \/ SpinExpire
    <3>1. \/ Return \/ Goto(<<"spin_empty">>) \/ Goto(<<"spin">>) \/ Goto(<<"spin_check">>)
          \/ Goto(<<"wake", "spin">>) \/ Goto(<<"sync_load">>)
      BY <2>7 DEF SpinCheck, SpinExpire
    <3> QED
      BY <2>1, <2>2, <2>3, <3>1
  <2>8. CASE SyncLoad \/ SyncEmpty \/ SyncCAS \/ SyncWait
    <3>1. \/ Return \/ Goto(<<"sync_empty">>) \/ Goto(<<"sync_cas">>)
          \/ Goto(<<"wake", "sync_cas">>) \/ Goto(<<"sync_wait">>) \/ Goto(<<"sync_load">>)
      BY <2>8 DEF SyncLoad, SyncEmpty, SyncCAS, SyncWait
    <3> QED
      BY <2>1, <2>2, <2>3, <3>1
  <2>9. CASE Enable \/ Reset \/ ResetReadPtr \/ SkipReadVRAM
    BY <2>2, <2>9 DEF Enable, Reset, ResetReadPtr, SkipReadVRAM
  <2>10. CASE SetThreadEnabled
    <3>1. \/ Goto(<<"read_vram", "destroy", "reset", "reset_read_ptr", "enable", "create">>)
          \/ Goto(<<"reset", "reset_read_ptr">>)
      BY <2>10 DEF SetThreadEnabled
    <3>2. <<"read_vram", "destroy", "reset", "reset_read_ptr", "enable", "create">>
            \in Seq(Points \ {"synced"})
      BY DEF Points
    <3> QED
      BY <2>1, <2>3, <3>1, <3>2 DEF Moves
  <2>11. CASE PushOwn
    <3>1. ASSUME NEW push \in Pushes PROVE <<"alloc", "fill", push>> \in Seq(Points \ {"synced"})
      BY DEF Points, AllocPoints, Pushes
    <3>2. ASSUME NEW point, NEW type, NEW push \in Pushes, PushFrom(point, type, push) PROVE Moves
      BY <3>1, <3>2 DEF PushFrom, Moves
    <3> QED
      BY <2>11, <3>2 DEF PushOwn, Pushes
  <2> QED
    BY <2>4, <2>5, <2>6, <2>7, <2>8, <2>9, <2>10, <2>11 DEF OtherCoreSteps
<1> QED
  BY <1>1, <1>3, <1>4, MovesStutter

\* Nothing is below the join.
LEMMA JoinStutters == ASSUME Inv, WakeInv, Join PROVE UNCHANGED Queue!vars
<1>1. At("join") /\ core' = <<"joined">> /\ UNCHANGED <<issued, executed>>
  BY DEF Join, history
<1>2. "join" \in Points
  BY DEF Points
<1>3. core \in Seq(Points) /\ Len(core) \in Nat \ {0} /\ core[1] = "join"
  BY <1>1, <1>2, TopIs DEF Inv
<1>4. ASSUME NEW i \in 1 .. Len(core), core[i] = "synced" PROVE FALSE
  <2>1. i > 1
    BY <1>3, <1>4
  <2>2. Level(core[1]) < Level(core[i])
    BY <1>3, <2>1 DEF WakeInv, OrderInv, Ordered
  <2>3. Level("join") = 14 /\ Level("synced") = 4
    BY DEF Level, WakePoints, AllocPoints, SyncPoints, Pushes
  <2> QED
    BY <1>3, <1>4, <2>2, <2>3
<1>5. ~InSync /\ ~InSync'
  BY <1>1, <1>4, InSyncIs DEF Inv, InSync
<1> QED
  BY <1>1, <1>5, SameSync DEF Queue!vars

\* The video thread executes the next command; its other steps do not show.
LEMMA VideoImplements ==
  ASSUME Inv, WakeInv, VideoSteps PROVE Queue!Execute \/ UNCHANGED Queue!vars
<1>1. UNCHANGED <<core, issued>>
  BY DEF VideoSteps, coreVars, history, LoadWritePtr, LoadReadPtrOnThread, ExecuteCommand,
         ExecuteWraparound, WrapPublish, ExecuteShutdown, PublishReadPtr, DoRunIdle, SleepLoad,
         SleepCAS, SleepPost, SleepWait
<1>2. InSync' <=> InSync
  BY <1>1 DEF InSync
<1>3. CASE ExecuteCommand \/ ExecuteShutdown
  <2>1. /\ video = "execute" /\ read_ptr < write_ptr /\ NextCommand.type # "Wraparound"
        /\ executed' = Append(executed, NextCommand.id)
    BY <1>3 DEF ExecuteCommand, ExecuteShutdown, Execute
  <2>2. /\ IsNumbered /\ read_ptr \in 0 .. COMMAND_QUEUE_SIZE - 1
        /\ read_ptr # command_fifo_write_ptr
        /\ Unread(read_ptr) /\ NextCommand.type # "Body"
        /\ NumberAt(read_ptr) = Len(executed) + 1
        /\ Len(executed) \in Nat /\ issued \in Nat
    BY <2>1, NextIsUnread
  <2>3. IsCommand(read_ptr) /\ command_fifo_data[read_ptr] = NextCommand
    BY <2>1, <2>2 DEF IsCommand, NextCommand
  <2>4. NextCommand.id = Len(executed) + 1 /\ NextCommand.id <= issued
    BY <2>1, <2>2, <2>3 DEF NumberAt, IsNumbered
  <2> QED
    BY <1>1, <1>2, <2>1, <2>2, <2>4, SameSync DEF Queue!Execute, Queue!ExecuteOne
<1>4. CASE ~(ExecuteCommand \/ ExecuteShutdown)
  <2>1. UNCHANGED executed
    BY <1>4 DEF VideoSteps, history, LoadWritePtr, LoadReadPtrOnThread, ExecuteWraparound,
         WrapPublish, PublishReadPtr, DoRunIdle, SleepLoad, SleepCAS, SleepPost, SleepWait
  <2> QED
    BY <1>1, <1>2, <2>1, SameSync DEF Queue!vars
<1> QED
  BY <1>3, <1>4

\* Every step is one of the abstract queue, or leaves it as it is.
LEMMA QueueNext ==
  Inv /\ WakeInv /\ [Next]_vars => [Queue!Next]_(Queue!vars)
<1> SUFFICES ASSUME Inv, WakeInv, [Next]_vars PROVE Queue!Next \/ UNCHANGED Queue!vars
  OBVIOUS
<1>1. CASE CoreCalls
  BY <1>1, CallsImplement DEF Queue!Next
<1>2. CASE Push
  BY <1>2, PushImplements DEF Queue!Next
<1>3. CASE Synced
  BY <1>3, SyncedImplements DEF Queue!Next
<1>4. CASE OtherCoreSteps
  BY <1>4, OtherCoreStepsStutter
<1>5. CASE Join
  BY <1>5, JoinStutters
<1>6. CASE VideoSteps
  BY <1>6, VideoImplements DEF Queue!Next
<1>7. CASE UNCHANGED vars
  <2>1. UNCHANGED <<core, issued, executed>>
    BY <1>7 DEF vars, coreVars, history
  <2> QED
    BY <2>1 DEF Queue!vars, InSync
<1> QED
  BY <1>1, <1>2, <1>3, <1>4, <1>5, <1>6, <1>7 DEF Next, CoreSteps, OtherCoreSteps, Terminated

\* The video thread implements CommandQueue: the commands are executed once
\* each and in the order in which they were issued, and a synchronising call
\* returns when all of them have been.
THEOREM VideoThreadImplementsQueue == WokenSpec => ImplementsQueue
<1>1. Inv /\ WakeInv /\ [Next]_vars => [Queue!Next]_(Queue!vars)
  BY QueueNext
<1> QED
  BY <1>1, QueueInit, BothAlways, PTL DEF WokenSpec, Spec, ImplementsQueue, Queue!Spec

-----------------------------------------------------------------------------
(* What can hang at all, of any calls: nothing is assumed of what has been   *)
(* woken, nor of resets, so none of the invariants above is available.       *)

NoWaitIn(s) == \A i \in 1 .. Len(s) : s[i] # "sync_wait"

WakeStates == Nat \cup {SLEEPING}

\* SyncThread's compare-exchange has succeeded with the count of a thread that
\* sleeps: the flag is one of the bits of that count, nobody is asked for a post.
WaitsOnASleeper == At("sync_wait") /\ sync_value = SLEEPING

AnswerInv ==
  /\ core \in Seq(Points) /\ \A i \in 2 .. Len(core) : core[i] # "sync_wait"
  /\ thread_wake_count \in WakeStates /\ sync_value \in WakeStates /\ old_state \in WakeStates
  /\ thread_is_done_semaphore \in Nat
  /\ WaitIsAnswered \/ WaitsOnASleeper

\* The ways in which the core thread goes on, other than to wait.
GoesOn ==
  \/ core' = Tail(core)
  \/ \E p \in Seq(Points) : NoWaitIn(p) /\ core' = p \o Tail(core)

\* A thread that goes on does not wait.
LEMMA GoingOn ==
  ASSUME AnswerInv, core # <<>>, GoesOn
  PROVE  core' \in Seq(Points) /\ NoWaitIn(core')
<1>1. /\ core \in Seq(Points) /\ Tail(core) \in Seq(Points) /\ Len(core) \in Nat \ {0}
      /\ Len(Tail(core)) = Len(core) - 1 /\ \A i \in 1 .. Len(core) - 1 : Tail(core)[i] = core[i + 1]
  BY DEF AnswerInv
<1>2. NoWaitIn(Tail(core))
  BY <1>1 DEF AnswerInv, NoWaitIn
<1>3. ASSUME NEW p \in Seq(Points), NoWaitIn(p)
      PROVE  p \o Tail(core) \in Seq(Points) /\ NoWaitIn(p \o Tail(core))
  <2> DEFINE t == Tail(core)
  <2>1. t \in Seq(Points) /\ NoWaitIn(t)
    BY <1>1, <1>2
  <2> HIDE DEF t
  <2>2. /\ p \o t \in Seq(Points) /\ Len(p \o t) = Len(p) + Len(t) /\ Len(p) \in Nat /\ Len(t) \in Nat
        /\ \A i \in 1 .. Len(p) + Len(t) : (p \o t)[i] = IF i <= Len(p) THEN p[i] ELSE t[i - Len(p)]
    BY <2>1
  <2>3. NoWaitIn(p \o t)
    BY <1>3, <2>1, <2>2 DEF NoWaitIn
  <2> QED
    BY <2>2, <2>3 DEF t
<1> QED
  BY <1>1, <1>2, <1>3 DEF GoesOn

\* Then nothing is left to show but that the counts keep their types.
LEMMA NobodyWaits ==
  ASSUME core' \in Seq(Points), NoWaitIn(core'),
         thread_wake_count' \in WakeStates, sync_value' \in WakeStates, old_state' \in WakeStates,
         thread_is_done_semaphore' \in Nat
  PROVE  AnswerInv'
<1>1. Len(core') \in Nat /\ (core' # <<>> => Head(core') = core'[1] /\ 1 \in 1 .. Len(core'))
  OBVIOUS
<1>2. ~At("sync_wait")'
  BY <1>1 DEF At, NoWaitIn
<1>3. \A i \in 2 .. Len(core') : core'[i] # "sync_wait"
  BY <1>1 DEF NoWaitIn
<1> QED
  BY <1>2, <1>3 DEF AnswerInv, WaitIsAnswered

\* The pieces of stack that the core thread's steps put on top.
StepPieces ==
  {<<"wake_if_sleeping", "full_load">>, <<"wake_if_sleeping", "unprocessed_load">>, <<"wrap">>,
   <<"alloc">>, <<"threshold">>, <<"wake">>, <<"wake_post">>, <<"wake_if_not_empty">>,
   <<"spin_empty">>, <<"spin">>, <<"wake", "spin">>, <<"spin_check">>, <<"sync_load">>,
   <<"sync_empty">>, <<"sync_cas">>, <<"wake", "sync_cas">>, <<"wake", "sync_load", "synced">>,
   <<"wake", "spin_check", "synced">>, <<"reset", "reset_read_ptr">>,
   <<"read_vram", "destroy", "reset", "reset_read_ptr", "enable", "create">>}

Pieces == StepPieces \cup PushStacks \cup CallStacks

\* None of them holds a wait.
LEMMA PiecesDoNotWait == \A p \in Pieces : p \in Seq(Points) /\ NoWaitIn(p)
<1> DEFINE Still(p) == p \in Seq(Points) /\ NoWaitIn(p)
           Others == Points \ {"sync_wait"}
<1>1. \A a \in Others : Still(<<a>>)
  BY DEF NoWaitIn
<1>2. \A a, b \in Others : Still(<<a, b>>)
  BY DEF NoWaitIn
<1>3. \A a, b, c \in Others : Still(<<a, b, c>>)
  BY DEF NoWaitIn
<1>4. \A a, b, c, d \in Others : Still(<<a, b, c, d>>)
  BY DEF NoWaitIn
<1>5. \A a, b, c, d, e, f \in Others : Still(<<a, b, c, d, e, f>>)
  BY DEF NoWaitIn
<1>6. Still(<<>>)
  BY DEF NoWaitIn
<1>7. Others = Points \ {"sync_wait"}
  OBVIOUS
<1> HIDE DEF Still, Others
<1> USE <1>7 DEF Points, AllocPoints, WakePoints, Pushes
<1>8. ASSUME NEW p \in StepPieces PROVE Still(p)
  <2>1. CASE p \in {<<"wrap">>, <<"alloc">>, <<"threshold">>, <<"wake">>, <<"wake_post">>,
                    <<"wake_if_not_empty">>, <<"spin_empty">>, <<"spin">>, <<"spin_check">>,
                    <<"sync_load">>, <<"sync_empty">>, <<"sync_cas">>}
    BY <1>1, <2>1
  <2>2. CASE p \in {<<"wake_if_sleeping", "full_load">>, <<"wake_if_sleeping", "unprocessed_load">>,
                    <<"wake", "spin">>, <<"wake", "sync_cas">>, <<"reset", "reset_read_ptr">>}
    BY <1>2, <2>2
  <2>3. CASE p \in {<<"wake", "sync_load", "synced">>, <<"wake", "spin_check", "synced">>}
    BY <1>3, <2>3
  <2>4. CASE p = <<"read_vram", "destroy", "reset", "reset_read_ptr", "enable", "create">>
    BY <1>5, <2>4
  <2> QED
    BY <1>8, <2>1, <2>2, <2>3, <2>4 DEF StepPieces
<1>9. ASSUME NEW p \in PushStacks PROVE Still(p)
  BY <1>3, <1>9 DEF PushStacks
<1>10. ASSUME NEW p \in CallStacks PROVE Still(p)
  BY <1>1, <1>2, <1>3, <1>4, <1>6, <1>10 DEF CallStacks
<1> QED
  BY <1>8, <1>9, <1>10 DEF Pieces, Still

\* The core thread goes on by returning or with one of these pieces.
LEMMA GoingOnWith ==
  ASSUME AnswerInv, core # <<>>, Return \/ \E p \in Pieces : Goto(p)
  PROVE  core' \in Seq(Points) /\ NoWaitIn(core')
<1>1. GoesOn
  BY PiecesDoNotWait DEF GoesOn, Return, Goto
<1> QED
  BY <1>1, GoingOn

\* The core thread begins a call.
LEMMA CallsAnswer == ASSUME AnswerInv, CoreCalls PROVE AnswerInv'
<1>1. UNCHANGED <<thread_wake_count, thread_is_done_semaphore, sync_value, old_state>>
  BY DEF CoreCalls, BeginPush, BeginReconfigure, BeginSyncThread, BeginSetThreadEnabled,
         BeginProcessShutdown, Begin, wake, videoVars, videoLocals
<1>2. core' \in Pieces
  <2>1. CASE BeginPush \/ BeginReconfigure
    BY <2>1 DEF BeginPush, BeginReconfigure, Begin, Pieces, PushStacks, Pushes
  <2>2. CASE BeginSyncThread \/ BeginSetThreadEnabled \/ BeginProcessShutdown
    <3>1. core' \in CallStacks
      BY <2>2, Concatenations DEF BeginSyncThread, BeginSetThreadEnabled, BeginProcessShutdown, Begin,
           Sync, CallStacks
    <3> QED
      BY <3>1 DEF Pieces
  <2> QED
    BY <2>1, <2>2 DEF CoreCalls
<1> QED
  BY <1>1, <1>2, PiecesDoNotWait, NobodyWaits DEF AnswerInv

\* A step of the core thread that is not the compare-exchange of SyncThread
\* leaves it waiting for nothing.
LEMMA CoreAnswers == ASSUME AnswerInv, CoreSteps, ~SyncCAS PROVE AnswerInv'
<1> USE DEF wake, coreLocals, videoVars, videoLocals
<1> DEFINE Continues == core # <<>> /\ (Return \/ \E p \in Pieces : Goto(p))
           CountsStay == UNCHANGED <<thread_wake_count, sync_value, old_state>>
                         /\ thread_is_done_semaphore' = thread_is_done_semaphore
<1>1. ASSUME Continues, thread_wake_count' \in WakeStates, sync_value' \in WakeStates,
             old_state' \in WakeStates, thread_is_done_semaphore' \in Nat
      PROVE  AnswerInv'
  BY <1>1, GoingOnWith, NobodyWaits
<1>2. Continues /\ CountsStay => AnswerInv'
  BY <1>1 DEF AnswerInv
<1> USE DEF Pieces, StepPieces, PushStacks, Pushes, At
<1>3. CASE Alloc \/ FullLoad \/ UnprocessedLoad \/ Wrap \/ Fill
  BY <1>2, <1>3 DEF Alloc, FullLoad, UnprocessedLoad, Wrap, Fill
<1>4. CASE Push \/ Threshold
  <2>1. CASE Threshold
    BY <1>2, <2>1 DEF Threshold
  <2>2. CASE \E push \in Pushes : PushDirectly(push)
    BY <1>2, <2>2 DEF PushDirectly
  <2>3. ASSUME NEW push \in Pushes, NEW points \in StepPieces, Publish(push, points) PROVE AnswerInv'
    BY <1>2, <2>3 DEF Publish
  <2> QED
    BY <1>4, <2>1, <2>2, <2>3, Concatenations DEF Push, Sync
<1>5. CASE WakeThread
  <2>1. Continues /\ UNCHANGED <<sync_value, old_state, thread_is_done_semaphore>>
    BY <1>5 DEF WakeThread
  <2>2. thread_wake_count' = thread_wake_count + 2
    BY <1>5 DEF WakeThread, WorkOfWake
  <2>3. thread_wake_count' \in WakeStates
    BY <2>2 DEF AnswerInv, WakeStates, SLEEPING
  <2> QED
    BY <1>1, <2>1, <2>3 DEF AnswerInv
<1>6. CASE WakePost \/ WakeThreadIfSleeping
  BY <1>2, <1>6 DEF WakePost, WakeThreadIfSleeping
<1>7. CASE SpinCheck \/ SpinExpire \/ SyncEmpty \/ Synced
  BY <1>2, <1>7 DEF SpinCheck, SpinExpire, SyncEmpty, Synced
<1>8. CASE SyncLoad
  <2>1. Continues /\ UNCHANGED <<thread_wake_count, old_state, thread_is_done_semaphore>>
    BY <1>8 DEF SyncLoad
  <2>2. sync_value' \in WakeStates
    BY <1>8 DEF SyncLoad, AnswerInv
  <2> QED
    BY <1>1, <2>1, <2>2 DEF AnswerInv
<1>9. CASE SyncWait
  <2>1. Continues /\ UNCHANGED <<thread_wake_count, sync_value, old_state>>
    BY <1>9 DEF SyncWait
  <2>2. thread_is_done_semaphore' \in Nat
    BY <1>9 DEF SyncWait, AnswerInv
  <2> QED
    BY <1>1, <2>1, <2>2 DEF AnswerInv
<1>10. CASE SetThreadEnabled \/ Enable \/ Reset \/ ResetReadPtr \/ SkipReadVRAM
  BY <1>2, <1>10 DEF SetThreadEnabled, Enable, Reset, ResetReadPtr, SkipReadVRAM
<1>11. CASE PushOwn
  <2>1. PICK point \in Points, type \in {"Call", "Destroy", "Create", "Shutdown"}, push \in Pushes :
          PushFrom(point, type, push)
    BY <1>11 DEF PushOwn, Points
  <2> QED
    BY <1>2, <2>1 DEF PushFrom
<1>12. CASE Join
  <2>1. core' = <<"joined">> /\ CountsStay
    BY <1>12 DEF Join
  <2>2. core' \in Seq(Points) /\ NoWaitIn(core')
    BY <2>1 DEF Points, NoWaitIn
  <2> QED
    BY <2>1, <2>2, NobodyWaits DEF AnswerInv
<1> QED
  BY <1>3, <1>4, <1>5, <1>6, <1>7, <1>8, <1>9, <1>10, <1>11, <1>12 DEF CoreSteps

\* The compare-exchange sets the flag, except in the count of a sleeping thread.
LEMMA SyncCASAnswers == ASSUME AnswerInv, SyncCAS PROVE AnswerInv'
<1>1. /\ core # <<>> /\ UNCHANGED <<sync_value, old_state, thread_is_done_semaphore>>
      /\ CPU_THREAD_IS_WAITING \in Nat
  BY WakeCountAssumption DEF SyncCAS, At, coreLocals, videoVars, videoLocals
<1>2. CASE thread_wake_count # sync_value
  <2>1. Goto(<<"sync_load">>) /\ UNCHANGED thread_wake_count
    BY <1>2 DEF SyncCAS
  <2> QED
    BY <1>1, <2>1, GoingOnWith, NobodyWaits DEF AnswerInv, Pieces, StepPieces
<1>3. CASE thread_wake_count = sync_value
  <2>1. thread_wake_count' = SetFlag(sync_value) /\ core' = <<"sync_wait">> \o Tail(core)
    BY <1>3 DEF SyncCAS, Goto
  <2>2. /\ sync_value # SLEEPING => thread_wake_count' \in Nat /\ thread_wake_count' >= CPU_THREAD_IS_WAITING
        /\ sync_value = SLEEPING => thread_wake_count' = SLEEPING
    BY <1>1, <2>1 DEF AnswerInv, WakeStates, SLEEPING, SetFlag, FlagSet
  <2>3. /\ core \in Seq(Points) /\ Tail(core) \in Seq(Points) /\ Len(Tail(core)) \in Nat
        /\ \A i \in 1 .. Len(Tail(core)) : Tail(core)[i] # "sync_wait"
    BY <1>1 DEF AnswerInv
  <2>4. /\ core' \in Seq(Points) /\ core' # <<>> /\ Head(core') = "sync_wait"
        /\ \A i \in 2 .. Len(core') : core'[i] # "sync_wait"
    <3> DEFINE t == Tail(core)
    <3>1. t \in Seq(Points) /\ Len(t) \in Nat /\ \A i \in 1 .. Len(t) : t[i] # "sync_wait"
      BY <2>3
    <3>2. core' = <<"sync_wait">> \o t /\ <<"sync_wait">> \in Seq(Points)
      BY <2>1 DEF Points
    <3> HIDE DEF t
    <3> QED
      BY <3>1, <3>2
  <2> QED
    BY <1>1, <2>2, <2>4 DEF AnswerInv, WaitIsAnswered, WaitsOnASleeper, At, WakeStates
<1> QED
  BY <1>2, <1>3

\* The video thread takes the flag away only when it goes to post.
LEMMA VideoAnswers == ASSUME AnswerInv, VideoSteps PROVE AnswerInv'
<1>1. UNCHANGED <<core, sync_value>> /\ (At("sync_wait")' <=> At("sync_wait"))
  BY DEF VideoSteps, LoadWritePtr, LoadReadPtrOnThread, ExecuteCommand, ExecuteWraparound, WrapPublish,
         ExecuteShutdown, PublishReadPtr, DoRunIdle, SleepLoad, SleepCAS, SleepPost, SleepWait,
         coreVars, coreLocals, At
<1>2. CPU_THREAD_IS_WAITING \in Nat \ {0}
  BY WakeCountAssumption, QueueAssumption
<1>3. CASE SleepLoad
  BY <1>1, <1>3 DEF SleepLoad, AnswerInv, WaitIsAnswered, WaitsOnASleeper, wake
<1>4. CASE SleepCAS
  <2>1. UNCHANGED <<old_state, thread_is_done_semaphore>> /\ video = "sleep_cas"
    BY <1>4 DEF SleepCAS, videoLocals
  <2>2. CASE thread_wake_count # old_state
    BY <1>1, <1>4, <2>1, <2>2 DEF SleepCAS, AnswerInv, WaitIsAnswered, WaitsOnASleeper
  <2>3. CASE thread_wake_count = old_state
    <3>1. thread_wake_count' = SleepResult(old_state) /\ old_state \in WakeStates
      BY <1>4, <2>3 DEF SleepCAS, AnswerInv
    <3>2. thread_wake_count' \in WakeStates
      BY <1>2, <3>1 DEF SleepResult, OnlyFlag, WakeStates, SLEEPING
    <3>3. ASSUME old_state >= CPU_THREAD_IS_WAITING
          PROVE  video' = "sleep_post" \/ thread_wake_count' >= CPU_THREAD_IS_WAITING
      <4>1. FlagSet(old_state)
        BY <3>3 DEF FlagSet
      <4>2. CASE Work(old_state) > 0
        BY <1>2, <3>1, <4>1, <4>2 DEF SleepResult, OnlyFlag
      <4>3. CASE ~(Work(old_state) > 0)
        BY <1>4, <2>3, <4>1, <4>3 DEF SleepCAS
      <4> QED
        BY <4>2, <4>3
    <3> QED
      BY <1>1, <2>1, <2>3, <3>2, <3>3 DEF AnswerInv, WaitIsAnswered, WaitsOnASleeper
  <2> QED
    BY <2>2, <2>3
<1>5. CASE SleepPost
  <2>1. /\ thread_is_done_semaphore' = thread_is_done_semaphore + 1
        /\ UNCHANGED <<thread_wake_count, old_state>>
    BY <1>5 DEF SleepPost, videoLocals
  <2> QED
    BY <1>1, <2>1 DEF AnswerInv, WaitIsAnswered, WaitsOnASleeper
<1>6. CASE ~(SleepLoad \/ SleepCAS \/ SleepPost)
  <2>1. UNCHANGED <<thread_wake_count, thread_is_done_semaphore, old_state>> /\ video # "sleep_post"
    BY <1>6 DEF VideoSteps, LoadWritePtr, LoadReadPtrOnThread, ExecuteCommand, ExecuteWraparound,
         WrapPublish, ExecuteShutdown, PublishReadPtr, DoRunIdle, SleepWait, wake, videoLocals
  <2> QED
    BY <1>1, <2>1 DEF AnswerInv, WaitIsAnswered, WaitsOnASleeper
<1> QED
  BY <1>3, <1>4, <1>5, <1>6

\* Whatever the core thread calls and whatever has been woken, also after a
\* PushCommand that woke nobody, a wait in SyncThread is answered, or its
\* compare-exchange has exchanged the count of a sleeping thread for itself. That
\* is the only way for the code to hang here.
THEOREM OnlyAWaitOnASleeperHangs == Spec => [](WaitIsAnswered \/ WaitsOnASleeper)
<1>1. Init => AnswerInv
  <2>1. Init => core = <<>> /\ ~At("sync_wait")
    BY DEF Init, At
  <2> QED
    BY <2>1 DEF Init, AnswerInv, WaitIsAnswered, WakeStates
<1>2. AnswerInv /\ [Next]_vars => AnswerInv'
  <2> SUFFICES ASSUME AnswerInv, [Next]_vars PROVE AnswerInv'
    OBVIOUS
  <2>1. CASE UNCHANGED vars
    BY <2>1 DEF vars, wake, coreVars, coreLocals, videoVars, videoLocals, AnswerInv, WaitIsAnswered,
         WaitsOnASleeper, At
  <2> QED
    BY <2>1, CallsAnswer, CoreAnswers, SyncCASAnswers, VideoAnswers DEF Next, Terminated
<1>3. AnswerInv => WaitIsAnswered \/ WaitsOnASleeper
  BY DEF AnswerInv
<1> QED
  BY <1>1, <1>2, <1>3, PTL DEF Spec
=============================================================================
