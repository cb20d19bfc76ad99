------------------------------- MODULE Timers -------------------------------
(***************************************************************************)
(* One of the three timers of src/core/timers.cpp, next to the counter     *)
(* that it stands for.                                                     *)
(*                                                                         *)
(* The console's counter, "hw", counts each tick of its clock.  The        *)
(* emulator's, "cs", is brought up to date only now and then: when the     *)
(* event that is scheduled for the next interrupt runs, and before         *)
(* accesses that could tell the difference.  It is then given the ticks    *)
(* since the last time at once, "pending", which may take it past its      *)
(* target, its overflow or both, more than once.  What the program sees    *)
(* has to be the same.                                                     *)
(*                                                                         *)
(* Timer 0 has a gate (as has timer 1), timer 2 can be clocked by an       *)
(* eighth of the system clock.                                             *)
(*                                                                         *)
(* A definition just before the one it varies (ResetDelayIgnored before    *)
(* ResetAtTarget) is that one with a plausible bug: the properties must    *)
(* see it.                                                                 *)
(***************************************************************************)
EXTENDS Integers, FiniteSetsExt

CONSTANTS
  Setups,           \* which timer it is, how fast the CPU is, the modes the program writes
  TIMER_OVERFLOW,   \* 0x10000 in the code
  Divider,          \* 8 in the code
  MaxSliceTicks,
  MaxLate           \* bound: ticks the CPU may be past an event that is due

Mode ==
  [sync_enable : BOOLEAN, sync_mode : 0 .. 3, reset_at_target : BOOLEAN,
   irq_at_target : BOOLEAN, irq_on_overflow : BOOLEAN, irq_repeat : BOOLEAN,
   irq_pulse_n : BOOLEAN, use_external_clock : BOOLEAN]

ASSUME ClockAssumption ==
  /\ \A s \in Setups :
       /\ s.index \in {0, 2} /\ s.numerator \in Nat \ {0} /\ s.denominator \in Nat \ {0}
       /\ s.modes \subseteq {m \in Mode : m.use_external_clock => s.index = 2}
  /\ TIMER_OVERFLOW \in Nat \ {0, 1} /\ Divider \in Nat \ {0}
  /\ MaxSliceTicks \in Nat \ {0} /\ MaxLate \in Nat

TARGET_RESET_DELAY == 2

\* sync_mode
PauseWhileGateActive == 0
ResetOnGateEnd == 1
ResetAndRunOnGateStart == 2
FreeRunOnGateEnd == 3

VARIABLES
  setup,
  cs,               \* CounterState, the carries, and the line to the interrupt controller
  hw,               \* the same of the console
  pending, due      \* ticks since the event last ran, and from then to when it is to run

vars == <<setup, cs, hw, pending, due>>

Values == 0 .. TIMER_OVERFLOW - 1
Num == setup.numerator
Den == setup.denominator

-----------------------------------------------------------------------------
(* Interrupts *)

\* interrupt_controller.cpp: the status bit is set by an edge.
SetLineState(c, state) == [c EXCEPT !.line = state, !.irq = @ \/ (state /\ ~c.line)]

\* The end of CheckForIRQ: one pulse, or the line changed over, and in one-shot
\* mode just once.
Request(c) ==
  IF c.irq_done /\ ~c.irq_repeat
    THEN IF c.irq_pulse_n THEN c ELSE [c EXCEPT !.interrupt_request_n = TRUE]
    ELSE IF c.irq_pulse_n
      THEN [SetLineState(c, c.interrupt_request_n)
              EXCEPT !.irq_done = TRUE, !.interrupt_request_n = ~@]
      ELSE [SetLineState(SetLineState(c, FALSE), TRUE)
              EXCEPT !.irq_done = TRUE, !.interrupt_request_n = TRUE]

-----------------------------------------------------------------------------
(* The console: one tick at a time *)

\* "On the system clock, the counter reads as the target on the tick it gets
\* there, then is held at zero for two ticks" (timers.cpp:28).
CountOne(c) ==
  IF c.delay > 0 THEN [c EXCEPT !.delay = @ - 1]
  ELSE
    LET value    == (c.counter + 1) % TIMER_OVERFLOW
        overflow == value = 0
        hit      == value = c.target
        reset    == hit /\ c.reset_at_target /\ c.target \notin {0, TIMER_OVERFLOW - 1}
        next     == [c EXCEPT !.counter = IF reset THEN 0 ELSE value,
                              !.delay = IF reset /\ ~c.use_external_clock THEN TARGET_RESET_DELAY ELSE 0,
                              !.reached_target = @ \/ hit,
                              !.reached_overflow = @ \/ overflow]
    IN  IF (hit /\ c.irq_at_target) \/ (overflow /\ c.irq_on_overflow) THEN Request(next) ELSE next

\* A tick of the system clock, and one of the CPU.
ClockOne(c) ==
  IF ~c.counting_enabled THEN c
  ELSE IF ~c.use_external_clock THEN CountOne(c)
  ELSE IF c.div = Divider - 1 THEN CountOne([c EXCEPT !.div = 0])
  ELSE [c EXCEPT !.div = @ + 1]

Clocks(c, clocks) ==
  LET clocked[i \in 0 .. clocks] == IF i = 0 THEN c ELSE ClockOne(clocked[i - 1])
  IN  clocked[clocks]

TickOne(c) ==
  IF Num = Den THEN ClockOne(c)
  ELSE Clocks([c EXCEPT !.carry = (@ + Den) % Num], (c.carry + Den) \div Num)

-----------------------------------------------------------------------------
(* The emulator: many ticks at once *)

\* A reset that forgets that the counter is held for two ticks each time.
ResetDelayIgnored(c) == [c EXCEPT !.counter = @ % c.target]

ResetAtTarget(c) ==
  LET since == (c.counter - c.target) % (c.target + TARGET_RESET_DELAY)
  IN  IF c.use_external_clock THEN [c EXCEPT !.counter = @ % c.target]
      ELSE [c EXCEPT !.counter = Max({since - TARGET_RESET_DELAY, 0}),
                     !.delay = Max({TARGET_RESET_DELAY - since, 0})]

\* first: the first value that has not been compared with the target yet.
CheckForIRQ(c, first) ==
  LET wraps    == c.counter >= TIMER_OVERFLOW
      passed   == first > c.target
      wrapped  == wraps /\ (~c.reset_at_target \/ passed)
      start    == IF wraps /\ passed THEN [c EXCEPT !.counter = @ - TIMER_OVERFLOW] ELSE c
      hit      == start.counter >= c.target /\ (wraps \/ ~passed)
      reset    == hit /\ c.reset_at_target /\ c.target > 0 /\ c.target # TIMER_OVERFLOW - 1
      end      == IF reset THEN ResetAtTarget(start) ELSE start
      overflow == end.counter >= TIMER_OVERFLOW \/ wrapped
      next     == [end EXCEPT !.counter = IF overflow THEN @ % TIMER_OVERFLOW ELSE @,
                              !.reached_target = @ \/ hit,
                              !.reached_overflow = @ \/ overflow]
  IN  IF (hit /\ c.irq_at_target) \/ (overflow /\ c.irq_on_overflow) THEN Request(next) ELSE next

\* What is left of "count" ticks when the counter has been held.
Hold(c, count) ==
  LET held == Min({c.delay, count}) IN [c |-> [c EXCEPT !.delay = @ - held], count |-> count - held]

\* One round of the loop for toggle mode, up to the next target or overflow.
ToggleRound(s) ==
  IF s.count = 0 THEN s
  ELSE LET c   == s.c
           at  == IF c.counter < c.target THEN c.target ELSE TIMER_OVERFLOW
           add == Min({at - c.counter, s.count})
       IN  Hold(CheckForIRQ([c EXCEPT !.counter = @ + add], c.counter + 1), s.count - add)

ToggleRounds(s) ==
  LET rounds[i \in 0 .. s.count] == IF i = 0 THEN s ELSE ToggleRound(rounds[i - 1])
  IN  rounds[s.count]

\* Most of the time the counter reaches neither its target nor its overflow.
OnlyCounts(c, end) == end < TIMER_OVERFLOW /\ (end < c.target \/ c.counter >= c.target)

AddTicks(c, count) ==
  LET s   == Hold(c, count)
      end == s.c.counter + s.count
  IN  IF OnlyCounts(c, end)
        THEN [s.c EXCEPT !.counter = end]
        ELSE IF c.irq_pulse_n
          THEN ToggleRounds(s).c
          ELSE CheckForIRQ([s.c EXCEPT !.counter = end], c.counter + 1)

AddSysClkTicks(c, ticks) ==
  LET sysclk == IF Num = Den THEN ticks ELSE (ticks * Den + c.carry) \div Num
      d      == IF Num = Den THEN c ELSE [c EXCEPT !.carry = (ticks * Den + @) % Num]
  IN  IF ~c.counting_enabled THEN d
      ELSE IF ~c.use_external_clock THEN AddTicks(d, sysclk)
      ELSE AddTicks([d EXCEPT !.div = (sysclk + @) % Divider], (sysclk + c.div) \div Divider)

\* When the next interrupt can be, in ticks of the CPU.
TicksUntil(c, value) ==
  LET ticks == c.delay + value IN IF c.use_external_clock THEN ticks * Divider - c.div ELSE ticks

ToTarget(c) == IF c.counter < c.target THEN c.target - c.counter ELSE TIMER_OVERFLOW - c.counter + c.target

Distances(c) ==
  (IF c.irq_at_target THEN {ToTarget(c)} ELSE {})
    \cup (IF c.irq_on_overflow THEN {TIMER_OVERFLOW - c.counter} ELSE {})

SysClkTicksUntilNextInterrupt(c) ==
  LET none  == ~c.counting_enabled \/ (~c.irq_repeat /\ c.irq_done)
      ticks == IF none THEN {} ELSE {TicksUntil(c, d) : d \in Distances(c)}
  IN  Max({1, Min({MaxSliceTicks} \cup ticks)})

\* Part of the overclocked CPU's first tick has already been counted.
CarryForgotten(c) ==
  IF Num = Den THEN SysClkTicksUntilNextInterrupt(c)
  ELSE (SysClkTicksUntilNextInterrupt(c) * Num + Den - 1) \div Den

GetTicksUntilNextInterrupt(c) ==
  IF Num = Den THEN SysClkTicksUntilNextInterrupt(c)
  ELSE (SysClkTicksUntilNextInterrupt(c) * Num - c.carry + Den - 1) \div Den

-----------------------------------------------------------------------------
(* What accesses do to a counter that is up to date *)

UpdateCountingEnabled(c) ==
  LET free == ~c.sync_enable \/ c.sync_mode = ResetOnGateEnd
  IN  [c EXCEPT !.counting_enabled =
        IF setup.index = 2 THEN free \/ c.sync_mode = ResetAndRunOnGateStart
        ELSE free \/ (c.gate # (c.sync_mode = PauseWhileGateActive))]

WithMode(c, mode) ==
  LET d == UpdateCountingEnabled([x \in DOMAIN c |-> IF x \in DOMAIN mode THEN mode[x] ELSE c[x]])
  IN  CheckForIRQ([SetLineState(d, FALSE)
        EXCEPT !.interrupt_request_n = TRUE, !.irq_done = FALSE, !.counter = 0,
               !.delay = IF d.use_external_clock THEN 0 ELSE 1], 0)

WithCounter(c, value) == [c EXCEPT !.counter = value, !.delay = IF c.use_external_clock THEN 0 ELSE 1]

WithTarget(c, value) == [c EXCEPT !.target = value]

WithGate(c, state) ==
  LET resets == (c.sync_mode = ResetOnGateEnd /\ ~state) \/ (c.sync_mode = ResetAndRunOnGateStart /\ state)
      d      == [c EXCEPT !.gate = state]
  IN  IF ~c.sync_enable THEN d
      ELSE UpdateCountingEnabled([d EXCEPT !.counter = IF resets THEN 0 ELSE @,
             !.sync_enable = c.sync_mode = FreeRunOnGateEnd => state])

WithReachedRead(c) == [c EXCEPT !.reached_target = FALSE, !.reached_overflow = FALSE]

WithoutIRQ(c) == [c EXCEPT !.irq = FALSE]

-----------------------------------------------------------------------------
Reset ==
  [counter |-> 0, target |-> 0, delay |-> 0, gate |-> FALSE, counting_enabled |-> TRUE, irq_done |-> FALSE,
   interrupt_request_n |-> TRUE, reached_target |-> FALSE, reached_overflow |-> FALSE,
   sync_enable |-> FALSE, sync_mode |-> 0, reset_at_target |-> FALSE,
   irq_at_target |-> FALSE, irq_on_overflow |-> FALSE, irq_repeat |-> FALSE,
   irq_pulse_n |-> FALSE, use_external_clock |-> FALSE,
   carry |-> 0, div |-> 0, line |-> FALSE, irq |-> FALSE]

Init ==
  /\ setup \in Setups
  /\ cs = Reset /\ hw = Reset
  /\ pending = 0 /\ due = GetTicksUntilNextInterrupt(cs)

\* InvokeEarlyNoReschedule, whose callback reschedules the event.
Current == IF pending = 0 THEN cs ELSE AddSysClkTicks(cs, pending)

IsAnyEventDue == pending >= due

Tick ==
  /\ pending < due + MaxLate
  /\ pending' = pending + 1
  /\ hw' = TickOne(hw)
  /\ UNCHANGED <<setup, cs, due>>

\* RunEvents goes from event to event, also when the CPU is past them.
RunEvent ==
  /\ IsAnyEventDue
  /\ cs' = AddSysClkTicks(cs, due)
  /\ due' = GetTicksUntilNextInterrupt(cs')
  /\ pending' = pending - due
  /\ UNCHANGED <<setup, hw>>

\* What the program changes once the counter is up to date.
Synchronize(c) ==
  /\ cs' = c
  /\ pending' = 0
  /\ due' = GetTicksUntilNextInterrupt(c)
  /\ UNCHANGED setup

\* A read of the counter, or any access to another timer.
InvokeEarly ==
  /\ pending > 0
  /\ Synchronize(Current)
  /\ UNCHANGED hw

WriteCounter ==
  \E value \in Values : Synchronize(WithCounter(Current, value)) /\ hw' = WithCounter(hw, value)

WriteTarget ==
  \E value \in Values : Synchronize(WithTarget(Current, value)) /\ hw' = WithTarget(hw, value)

WriteMode ==
  \E mode \in setup.modes :
    /\ Synchronize(WithMode(Current, mode)) /\ hw' = WithMode(hw, mode)

\* GPU calls it when a blank starts or ends.
UpdatesForGate(state) ==
  cs.sync_enable /\ ~cs.use_external_clock /\ (cs.sync_mode # ResetOnGateEnd \/ ~state)

SetGate ==
  /\ setup.index # 2
  /\ hw' = WithGate(hw, ~hw.gate)
  /\ IF UpdatesForGate(~cs.gate)
       THEN Synchronize(WithGate(Current, ~cs.gate))
       ELSE cs' = WithGate(cs, ~cs.gate) /\ UNCHANGED <<setup, pending, due>>

\* UpdateForRead, which can do without bringing the counter up to date if
\* nothing has happened to it but counting.
CountingOnly ==
  LET count == IF ~cs.counting_enabled THEN 0
               ELSE IF cs.use_external_clock THEN (pending + cs.div) \div Divider ELSE pending
      s     == Hold(cs, count)
      end   == cs.counter + s.count
  IN  [possible |-> Num = Den /\ ~IsAnyEventDue /\ OnlyCounts(cs, end),
       c |-> [s.c EXCEPT !.counter = end]]

ReadMode ==
  /\ hw' = WithReachedRead(hw)
  /\ \/ /\ CountingOnly.possible
        /\ cs' = WithReachedRead(cs) /\ UNCHANGED <<setup, pending, due>>
     \/ Synchronize(WithReachedRead(Current))

\* The program clears the timer's bit of the status register.
AcknowledgeInterrupt ==
  /\ ~IsAnyEventDue
  /\ hw' = WithoutIRQ(hw) /\ cs' = WithoutIRQ(cs)
  /\ UNCHANGED <<setup, pending, due>>

Next ==
  \/ Tick \/ RunEvent \/ InvokeEarly \/ SetGate
  \/ WriteCounter \/ WriteTarget \/ WriteMode \/ ReadMode \/ AcknowledgeInterrupt

Spec == Init /\ [][Next]_vars

-----------------------------------------------------------------------------
\* What the program reads of the counter and its mode is what the console's
\* shows, whether the counter is brought up to date for the read or not, and
\* however late.
GetReadCounter(c) == IF c.delay = TARGET_RESET_DELAY THEN c.target ELSE c.counter
Reads(c) == <<GetReadCounter(c), c.interrupt_request_n, c.reached_target, c.reached_overflow, c.sync_enable>>

ReadsAreExact ==
  /\ Reads(Current) = Reads(hw)
  /\ CountingOnly.possible => Reads(CountingOnly.c) = Reads(hw)

\* As long as the timer's event is not due, its interrupt is neither ahead nor
\* behind: one event at the time of the next interrupt is enough, even though a
\* tick may request it and a later one take the request back.
InterruptsAreInTime == ~IsAnyEventDue => cs.irq = hw.irq /\ cs.line = hw.line
=============================================================================
