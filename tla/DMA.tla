-------------------------------- MODULE DMA --------------------------------
(***************************************************************************)
(* The DMA controller, src/core/dma.cpp, and the devices that drive it:    *)
(* the macroblock decoder (src/core/mdec.cpp) with a channel in and a      *)
(* channel out, a display list that the GPU takes as it finds room, and a  *)
(* manual transfer, here the SPU's.                                        *)
(*                                                                         *)
(* All of it runs on one thread, but the calls nest: a device raises its   *)
(* request, that runs a transfer, which calls the device, which raises     *)
(* the request of another channel, and so on.  "stack" holds the           *)
(* activations, the running one first; a step runs it up to its next call  *)
(* or its end.  A program writes registers, and events run, only when it   *)
(* is empty.  Times are not modelled: an event that is active may run.     *)
(*                                                                         *)
(* Memory is a list of words; a word is its address.                       *)
(*                                                                         *)
(* A definition just before the one it varies (TransferAgain before        *)
(* TransferIf) is that one with a plausible bug: the properties must see   *)
(* it.                                                                     *)
(***************************************************************************)
EXTENDS Integers, Sequences, SequencesExt, FiniteSetsExt

CONSTANTS
  BlockWords,       \* words of a block in request mode
  Blocks,           \* blocks of a transfer
  RAMWords,         \* g_bus.ram_mapped_size
  Bases,            \* base addresses a program uses
  Slices,           \* blocks or list entries that fit into a slice
  HaltTicks,        \* dma_halt_cycles
  ChopTicks,        \* the delay of a chopped transfer
  ListLength,       \* entries of the display list
  MacroblockWords,  \* words of a macroblock's code
  OutputWords,      \* words of a decoded macroblock
  FIFOWords,        \* DATA_IN_FIFO_SIZE
  SizeValues,       \* values of FIFOQueue::m_size, 2^32 in the code
  ReadsAhead,       \* the program reads a macroblock that is still to be written
  Parameters,       \* numbers of parameter words of a command
  TableWords,       \* of a command that sets a table
  MaxWrites         \* bound: register writes of the program

\* The FIFO has room for a block besides a table, which is taken as a whole.
ASSUME SizesAssumption ==
  /\ {BlockWords, Blocks, RAMWords, HaltTicks, ChopTicks, ListLength, MacroblockWords, OutputWords} \subseteq Nat \ {0}
  /\ Bases \subseteq 0 .. RAMWords /\ Slices \subseteq Nat \ {0} /\ Parameters \subseteq Nat \ {0}
  /\ FIFOWords \in Nat /\ TableWords \in 1 .. FIFOWords - BlockWords + 1
  /\ SizeValues \in Nat /\ SizeValues > OutputWords /\ ReadsAhead \in BOOLEAN
  /\ MaxWrites \in Nat

\* In ascending order, as the loops over all channels go.
MDECin == 1
MDECout == 2
GPU == 3
SPU == 4
Channels == MDECin .. SPU

VARIABLES
  channels,               \* ChannelState, and DPCR's master enable
  unhalt_event,           \* 0, or the interval it was scheduled with
  halt_ticks_remaining,
  list_loops,             \* the last entry of the display list leads to the first
  stack,
  result,                 \* what TransferChannel returned last
  \* MDEC
  state, enable_dma_in, enable_dma_out,
  data_in, data_out,      \* words in the two FIFOs
  remaining, current,     \* parameter words to come; words of this macroblock's code
  copy_out_event,
  \* history
  moved,                  \* addresses of the blocks a channel has moved since it was programmed
  writes

dma == <<channels, unhalt_event, halt_ticks_remaining, list_loops>>
mdec == <<state, enable_dma_in, enable_dma_out, data_in, data_out, remaining, current, copy_out_event>>
vars == <<dma, stack, result, mdec, moved, writes>>

\* After a reset and a write of DPCR that enables every channel.
Init ==
  /\ channels = [c \in Channels |->
       [base |-> 0, blocks |-> 0, mode |-> "Manual", busy |-> FALSE, request |-> FALSE, enabled |-> TRUE]]
  /\ unhalt_event = 0 /\ halt_ticks_remaining = 0 /\ list_loops \in BOOLEAN
  /\ stack = <<>> /\ result = TRUE
  /\ state = "Idle" /\ enable_dma_in = FALSE /\ enable_dma_out = FALSE
  /\ data_in = 0 /\ data_out = 0 /\ remaining = 0 /\ current = 0 /\ copy_out_event = FALSE
  /\ moved = [c \in Channels |-> <<>>] /\ writes = 0

-----------------------------------------------------------------------------
(* Calls *)

Frame(fn) == [fn |-> fn, channel |-> 0, addr |-> 0, left |-> 0, ticks |-> 0]
On(fn, c) == [Frame(fn) EXCEPT !.channel = c]
Top == Head(stack)
Running(fn) == stack # <<>> /\ Top.fn = fn

\* The running activation makes some calls, one or none, and goes on as
\* "frame", or is over with them.
CallThen(calls, frame) == stack' = calls \o <<frame>> \o Tail(stack)
TailCall(calls) == stack' = calls \o Tail(stack)
If(condition, frame) == IF condition THEN <<frame>> ELSE <<>>

-----------------------------------------------------------------------------
(* dma.cpp *)

IsTransferHalted == unhalt_event > 0

CanTransferChannel(cs, ignore_halt) ==
  /\ cs.enabled /\ cs.busy /\ cs.request
  /\ cs.mode # "Manual" /\ IsTransferHalted => ignore_halt

\* SetRequest: the channel, and the transfer that it calls.
Requested(c, request) == [channels EXCEPT ![c].request = request]

TransferAgain(c, request) ==
  If(request /\ CanTransferChannel(Requested(c, TRUE)[c], FALSE), On("transfer", c))

TransferIf(c, request) ==
  If(request /\ ~channels[c].request /\ CanTransferChannel(Requested(c, TRUE)[c], FALSE), On("transfer", c))

HaltTransfer(duration) ==
  /\ halt_ticks_remaining' = halt_ticks_remaining + duration
  /\ unhalt_event' = IF IsTransferHalted THEN unhalt_event ELSE halt_ticks_remaining'

NoHalt == UNCHANGED <<unhalt_event, halt_ticks_remaining>>

\* CheckForBusError: the words do not fit into the memory; for the header of a
\* list entry it is asked with one word more.
BusError(addr, words) == addr + words - 1 >= RAMWords

TransferManual ==
  LET c == Top.channel
  IN  /\ Running("transfer") /\ channels[c].mode = "Manual"
      /\ \E request \in BOOLEAN :    \* the device may have had enough
           channels' = [channels EXCEPT ![c].busy = FALSE,
             ![c].request = BusError(channels[c].base, Blocks * BlockWords) \/ request]
      /\ result' = TRUE
      /\ TailCall(<<>>)
      /\ NoHalt /\ UNCHANGED <<list_loops, mdec, moved, writes>>

BeginSlice ==
  LET c == Top.channel
  IN  /\ Running("transfer") /\ channels[c].mode # "Manual"
      /\ \E ticks \in Slices :
           TailCall(<<[fn |-> IF channels[c].mode = "LinkedList" THEN "list" ELSE "block", channel |-> c,
                       addr |-> channels[c].base, left |-> channels[c].blocks, ticks |-> ticks]>>)
      /\ UNCHANGED <<dma, result, mdec, moved, writes>>

\* The channel at the end of a slice, or of the transfer.
Store(c, addr, left, busy) ==
  channels' = [channels EXCEPT ![c].base = addr, ![c].blocks = left, ![c].busy = busy]

Terminator == -1
NextEntry(addr) ==
  IF addr + 1 < ListLength THEN addr + 1 ELSE IF list_loops THEN 0 ELSE Terminator

\* SyncMode::LinkedList: an entry, after which the GPU may be full.
ListEntry ==
  LET c == Top.channel
      next == NextEntry(Top.addr)
  IN  /\ Running("list") /\ channels[c].request /\ Top.ticks > 0
      /\ \/ /\ BusError(Top.addr, 2)
            /\ Store(c, Top.addr, Top.left, FALSE) /\ result' = TRUE /\ TailCall(<<>>)
         \/ /\ ~BusError(Top.addr, 2)
            /\ \E request \in BOOLEAN :
                 channels' = IF next = Terminator
                   THEN [channels EXCEPT ![c].request = request, ![c].base = next, ![c].busy = FALSE]
                   ELSE Requested(c, request)
            /\ result' = TRUE
            /\ TailCall(If(next # Terminator, [Top EXCEPT !.addr = next, !.ticks = @ - 1]))
      /\ NoHalt /\ UNCHANGED <<list_loops, mdec, moved, writes>>

ListSliceEnds ==
  LET c == Top.channel
  IN  /\ Running("list") /\ ~(channels[c].request /\ Top.ticks > 0)
      /\ Store(c, Top.addr, Top.left, TRUE)
      /\ IF channels[c].request THEN HaltTransfer(HaltTicks) ELSE NoHalt
      /\ result' = ~channels[c].request
      /\ TailCall(<<>>)
      /\ UNCHANGED <<list_loops, mdec, moved, writes>>

\* SyncMode::Request: MDEC::DMAWrite or MDEC::DMARead of a block.
Block ==
  LET c == Top.channel
      rest == Max({data_out - BlockWords, 0})
  IN  /\ Running("block")
      /\ \/ /\ BusError(Top.addr, BlockWords)
            /\ Store(c, Top.addr, Top.left, FALSE) /\ result' = TRUE /\ TailCall(<<>>)
            /\ UNCHANGED <<moved, mdec>>
         \/ /\ ~BusError(Top.addr, BlockWords)
            /\ moved' = [moved EXCEPT ![c] = Append(@, Top.addr)]
            /\ \/ /\ c = MDECin
                  /\ data_in' = Min({data_in + BlockWords, FIFOWords})
                  /\ CallThen(<<Frame("execute")>>, [Top EXCEPT !.fn = "block_done"])
                  /\ UNCHANGED data_out
               \/ /\ c = MDECout
                  /\ data_out' = rest
                  /\ CallThen(If(rest = 0, Frame("execute")), [Top EXCEPT !.fn = "block_done"])
                  /\ UNCHANGED data_in
            /\ UNCHANGED <<channels, result, state, enable_dma_in, enable_dma_out, remaining, current, copy_out_event>>
      /\ NoHalt /\ UNCHANGED <<list_loops, writes>>

MoreBlocks ==
  /\ Running("block_done") /\ channels[Top.channel].request /\ Top.left > 1 /\ Top.ticks > 1
  /\ TailCall(<<[fn |-> "block", channel |-> Top.channel, addr |-> Top.addr + BlockWords,
                 left |-> Top.left - 1, ticks |-> Top.ticks - 1]>>)
  /\ UNCHANGED <<dma, result, mdec, moved, writes>>

SliceEnds ==
  LET c == Top.channel
      cs == channels[c]
      halted == Top.left > 1 /\ cs.request
  IN  /\ Running("block_done") /\ ~(cs.request /\ Top.left > 1 /\ Top.ticks > 1)
      /\ Store(c, Top.addr + BlockWords, Top.left - 1, Top.left > 1)
      /\ IF halted /\ ~IsTransferHalted THEN HaltTransfer(HaltTicks) ELSE NoHalt
      /\ result' = ~halted
      /\ TailCall(<<>>)
      /\ UNCHANGED <<list_loops, mdec, moved, writes>>

\* The event's callback, then its loop over all channels.
UnhaltTransfer ==
  /\ stack = <<>>
  /\ IsTransferHalted
  /\ halt_ticks_remaining' = halt_ticks_remaining - unhalt_event
  /\ unhalt_event' = 0
  /\ result' = TRUE
  /\ stack' = <<On("unhalt", MDECin)>>
  /\ UNCHANGED <<channels, list_loops, mdec, moved, writes>>

UnhaltUntilHalted ==
  LET c == Top.channel
  IN  /\ Running("unhalt") /\ c \in Channels
      /\ CallThen(If(result /\ CanTransferChannel(channels[c], FALSE), On("transfer", c)), On("unhalt", c + 1))
      /\ UNCHANGED <<dma, result, mdec, moved, writes>>

UnhaltChannel ==
  LET c == Top.channel
  IN  /\ Running("unhalt") /\ c \in Channels
      /\ CallThen(If(CanTransferChannel(channels[c], FALSE), On("transfer", c)), On("unhalt", c + 1))
      /\ UNCHANGED <<dma, result, mdec, moved, writes>>

UnhaltedNotReset ==
  /\ Running("unhalt") /\ Top.channel \notin Channels
  /\ TailCall(<<>>)
  /\ UNCHANGED <<dma, result, mdec, moved, writes>>

Unhalted ==
  /\ Running("unhalt") /\ Top.channel \notin Channels
  /\ halt_ticks_remaining' = IF IsTransferHalted THEN halt_ticks_remaining ELSE 0
  /\ TailCall(<<>>)
  /\ UNCHANGED <<channels, unhalt_event, list_loops, result, mdec, moved, writes>>

\* The write of DPCR: a channel that is halted ends the loop.
DPCRChannel ==
  LET c == Top.channel
  IN  /\ Running("dpcr")
      /\ IF c \in Channels /\ result
           THEN CallThen(If(CanTransferChannel(channels[c], FALSE), On("transfer", c)), On("dpcr", c + 1))
           ELSE TailCall(<<>>)
      /\ UNCHANGED <<dma, result, mdec, moved, writes>>

-----------------------------------------------------------------------------
(* mdec.cpp *)

\* Execute, up to its call of UpdateStatus.  Left-over words are commands
\* without parameters.
ThenUpdateStatus == TailCall(<<Frame("status_in")>>)

Execute ==
  LET use == IF state = "Decoding" THEN Min({data_in, remaining, MacroblockWords - current})
             ELSE IF state = "SetTable" /\ data_in >= remaining THEN remaining
             ELSE IF state = "NoCommand" THEN Min({data_in, remaining})
             ELSE 0
      decoded == state = "Decoding" /\ current + use = MacroblockWords
      over == \/ state = "Idle"
              \/ state \in {"SetTable", "NoCommand"} /\ use = remaining
              \/ state = "Decoding" /\ ~decoded /\ use = remaining
  IN  /\ Running("execute")
      /\ remaining' = remaining - use
      /\ data_in' = IF over THEN 0 ELSE data_in - use
      /\ IF decoded /\ data_out = 0
           THEN state' = "Writing" /\ current' = 0 /\ copy_out_event' = TRUE
           ELSE /\ state' = IF over THEN "Idle" ELSE state
                /\ current' = IF over \/ state # "Decoding" THEN 0 ELSE current + use
                /\ UNCHANGED copy_out_event
      /\ ThenUpdateStatus
      /\ UNCHANGED <<dma, result, enable_dma_in, enable_dma_out, data_out, moved, writes>>

WantsDataIfMore ==
  enable_dma_in /\ state # "Idle" /\ data_in < remaining /\ FIFOWords - data_in > BlockWords

WantsData ==
  enable_dma_in /\ state # "Idle" /\ data_in < remaining /\ FIFOWords - data_in >= BlockWords
HasData == enable_dma_out /\ data_out > 0

UpdateStatusIn ==
  /\ Running("status_in")
  /\ channels' = Requested(MDECin, WantsData)
  /\ CallThen(TransferIf(MDECin, WantsData), Frame("status_out"))
  /\ NoHalt /\ UNCHANGED <<list_loops, result, mdec, moved, writes>>

UpdateStatusOut ==
  /\ Running("status_out")
  /\ channels' = Requested(MDECout, HasData)
  /\ TailCall(TransferIf(MDECout, HasData))
  /\ NoHalt /\ UNCHANGED <<list_loops, result, mdec, moved, writes>>

CopyOutBlock ==
  /\ stack = <<>>
  /\ copy_out_event
  /\ copy_out_event' = FALSE
  /\ data_out' = (data_out + OutputWords) % SizeValues
  /\ state' = IF remaining = 0 THEN "Idle" ELSE "Decoding"
  /\ stack' = <<Frame("execute")>>
  /\ UNCHANGED <<dma, result, enable_dma_in, enable_dma_out, data_in, remaining, current, moved, writes>>

-----------------------------------------------------------------------------
(* The program and the other devices *)

Mode(c) == CASE c = GPU -> "LinkedList" [] c = SPU -> "Manual" [] OTHER -> "Request"

CanWrite == stack = <<>> /\ writes < MaxWrites /\ writes' = writes + 1

\* Base address, block control and channel control.  A transfer that is
\* started runs its first slice in spite of a halt; a chopped one is delayed.
WriteChannelControl ==
  /\ CanWrite
  /\ \E c \in Channels, busy, chopping \in BOOLEAN :
       LET old == channels[c] IN
       \E base \in IF busy /\ ~old.busy THEN Bases ELSE {old.base} :
         LET starts == busy /\ ~old.busy
             cs == [old EXCEPT !.mode = Mode(c), !.busy = busy, !.base = base,
                               !.blocks = IF starts THEN Blocks ELSE @]
             can == CanTransferChannel(cs, starts)
             delayed == can /\ c = SPU /\ chopping
         IN  /\ busy \/ old.busy
             /\ channels' = [channels EXCEPT ![c] = cs]
             /\ moved' = IF starts THEN [moved EXCEPT ![c] = <<>>] ELSE moved
             /\ IF delayed THEN HaltTransfer(ChopTicks) ELSE NoHalt
             /\ stack' = If(can /\ ~delayed, On("transfer", c))
  /\ UNCHANGED <<list_loops, result, mdec>>

WriteDPCR ==
  /\ CanWrite
  /\ \E enabled \in {Channels, {GPU}} :
       channels' = [c \in Channels |-> [channels[c] EXCEPT !.enabled = c \in enabled]]
  /\ result' = TRUE
  /\ stack' = <<On("dpcr", MDECin)>>
  /\ NoHalt /\ UNCHANGED <<list_loops, mdec, moved>>

WriteMDECCommand ==
  /\ CanWrite
  /\ state = "Idle"
  /\ state' \in {"Decoding", "SetTable", "NoCommand"}
  /\ remaining' \in IF state' = "SetTable" THEN {TableWords} ELSE Parameters
  /\ stack' = <<Frame("execute")>>
  /\ UNCHANGED <<dma, result, enable_dma_in, enable_dma_out, data_in, data_out, current, copy_out_event, moved>>

WriteMDECData ==
  /\ CanWrite
  /\ state # "Idle" /\ data_in < FIFOWords
  /\ data_in' = data_in + 1
  /\ stack' = <<Frame("execute")>>
  /\ UNCHANGED <<dma, result, state, enable_dma_in, enable_dma_out, data_out, remaining, current, copy_out_event, moved>>

SoftResetKeepsEvent ==
  /\ state' = "Idle" /\ data_in' = 0 /\ data_out' = 0 /\ remaining' = 0 /\ current' = 0
  /\ UNCHANGED copy_out_event
  /\ channels' = [channels EXCEPT ![MDECin].request = FALSE, ![MDECout].request = FALSE]

SoftReset ==
  /\ state' = "Idle" /\ data_in' = 0 /\ data_out' = 0 /\ remaining' = 0 /\ current' = 0
  /\ copy_out_event' = FALSE
  /\ channels' = [channels EXCEPT ![MDECin].request = FALSE, ![MDECout].request = FALSE]

WriteMDECControl ==
  /\ CanWrite
  /\ enable_dma_in' \in BOOLEAN /\ enable_dma_out' \in BOOLEAN
  /\ \/ UNCHANGED <<channels, state, data_in, data_out, remaining, current, copy_out_event>>
     \/ SoftReset
  /\ stack' = <<Frame("execute")>>
  /\ NoHalt /\ UNCHANGED <<list_loops, result, moved>>

\* To stall the CPU adds ticks, which runs no event: the FIFO is still empty.
ReadMDECData ==
  /\ CanWrite
  /\ data_out > 0 \/ (ReadsAhead /\ copy_out_event)
  /\ data_out' = (data_out + SizeValues - 1) % SizeValues
  /\ stack' = <<Frame(IF data_out = 1 THEN "execute" ELSE "status_in")>>
  /\ UNCHANGED <<dma, result, state, enable_dma_in, enable_dma_out, data_in, remaining, current, copy_out_event, moved>>

\* The GPU's and the SPU's FIFOs run empty, or their direction is changed.
DeviceRequest ==
  /\ stack = <<>>
  /\ \E c \in {GPU, SPU}, request \in BOOLEAN :
       /\ channels' = Requested(c, request)
       /\ stack' = TransferIf(c, request)
  /\ NoHalt /\ UNCHANGED <<list_loops, result, mdec, moved, writes>>

Calls ==
  \/ TransferManual \/ BeginSlice \/ ListEntry \/ ListSliceEnds \/ Block \/ MoreBlocks \/ SliceEnds
  \/ UnhaltChannel \/ Unhalted \/ DPCRChannel \/ Execute \/ UpdateStatusIn \/ UpdateStatusOut

Program ==
  \/ WriteChannelControl \/ WriteDPCR \/ WriteMDECCommand \/ WriteMDECData \/ WriteMDECControl \/ ReadMDECData

Next == Calls \/ UnhaltTransfer \/ CopyOutBlock \/ Program \/ DeviceRequest

\* The thread runs on, and the events are run when their time has come.
Spec == Init /\ [][Next]_vars /\ WF_vars(Calls) /\ SF_vars(UnhaltTransfer) /\ SF_vars(CopyOutBlock)

-----------------------------------------------------------------------------
\* "Stall the CPU until we're done processing" (mdec.cpp:383): no word is taken
\* from the output FIFO before the macroblock is in it.
OutFIFOIsNotOverdrawn == data_out <= OutputWords

\* When the last call has returned, the flags that the nested calls have been
\* working on agree with each other.  No channel that is started, enabled and
\* asked for waits for nothing: it is halted, and the halt will end.
NoChannelIsStalled ==
  \A c \in Channels : channels[c].busy /\ channels[c].enabled /\ channels[c].request => IsTransferHalted

\* When a state is loaded, DoState finds out from the ticks that are left
\* whether the event is to run.
HaltIsCounted == IsTransferHalted <=> halt_ticks_remaining > 0

\* An outer UpdateStatus has not overwritten what an inner one found.
RequestsAreCurrent ==
  channels[MDECin].request = WantsData /\ channels[MDECout].request = HasData

\* The event that copies a macroblock out runs exactly while one waits to be
\* written: the Assert of CopyOutBlock.
CopiesOutWhileWriting == copy_out_event = (state = "Writing")

Settled ==
  stack = <<>> => NoChannelIsStalled /\ HaltIsCounted /\ RequestsAreCurrent /\ CopiesOutWhileWriting

\* A transfer keeps its address to itself until its slice ends: if it were
\* entered again from a call of its device, words would be moved twice.
Transfers(c) == {i \in DOMAIN stack : stack[i].channel = c /\ stack[i].fn \in {"transfer", "list", "block", "block_done"}}
NoReentry == \A c \in Channels : Cardinality(Transfers(c)) <= 1

InOrder ==
  \A c \in {MDECin, MDECout} :
    /\ \A i \in DOMAIN moved[c] : moved[c][i] = moved[c][1] + (i - 1) * BlockWords
    /\ Len(moved[c]) <= Blocks

\* Nor is a word lost: a block is moved only while the FIFO has room for it, or
\* something to read.
OnlyWhatIsAskedFor ==
  Running("block") => IF Top.channel = MDECin THEN FIFOWords - data_in >= BlockWords ELSE data_out > 0

EachWordOnce == NoReentry /\ InOrder /\ OnlyWhatIsAskedFor

\* A manual transfer that had to wait is made, also beside a display list that
\* loops for ever and uses up every slice (core-tests/dma_tests.cpp).
ManualTransferWaits == channels[SPU].busy /\ channels[SPU].enabled /\ channels[SPU].request
ManualTransfersRun == ManualTransferWaits ~> ~ManualTransferWaits

\* The decoder and its two channels never wait for each other: while both run
\* and the decoder has a command, it goes on until one of them is done.
Coupled ==
  /\ enable_dma_in /\ enable_dma_out /\ state # "Idle"
  /\ \A c \in {MDECin, MDECout} : channels[c].busy /\ channels[c].enabled
DecodingGoesOn == Coupled ~> ~Coupled
=============================================================================
