---------------------------- MODULE TimersProofs ----------------------------
(***************************************************************************)
(* Theorems about a timer, Timers.tla, for every overflow, divider, clock  *)
(* of the CPU and mode: the emulator's counter, which is given many ticks  *)
(* at once, is the console's, which counts them one by one.                *)
(*                                                                         *)
(* AddTicks is described first by where the counter ends: its value,       *)
(* delay and flags follow from how far it would have gone, without steps   *)
(* (IsAt). That description takes one tick more in one step, so AddTicks   *)
(* does, too (AddOneMore), and the loop for toggle mode, whose rounds are  *)
(* of any length, is compared with itself one tick earlier. What follows   *)
(* for the divider and for the CPU's carry is arithmetic: the remainder    *)
(* of a sum can be had in two goes. So ticks can be added in any batches   *)
(* (BatchesAddUp).                                                         *)
(*                                                                         *)
(* Then, no count asks for an interrupt before the time that               *)
(* GetTicksUntilNextInterrupt works out (QuietUntilDue), which is what     *)
(* makes it right to acknowledge an interrupt, or to read the mode,        *)
(* without bringing the counter up to date.                                *)
(*                                                                         *)
(* The inductive invariant says that the console's counter is the          *)
(* emulator's with the pending ticks added, and that the event is where    *)
(* the emulator's counter, as it is, puts it.                              *)
(***************************************************************************)
EXTENDS Timers, WellFoundedInduction, TLAPS

-----------------------------------------------------------------------------
(* Counters *)

Counters ==
  [counter : Values, target : Values, delay : 0 .. TARGET_RESET_DELAY, gate : BOOLEAN,
   counting_enabled : BOOLEAN, irq_done : BOOLEAN, interrupt_request_n : BOOLEAN,
   reached_target : BOOLEAN, reached_overflow : BOOLEAN, sync_enable : BOOLEAN, sync_mode : 0 .. 3,
   reset_at_target : BOOLEAN, irq_at_target : BOOLEAN, irq_on_overflow : BOOLEAN,
   irq_repeat : BOOLEAN, irq_pulse_n : BOOLEAN, use_external_clock : BOOLEAN,
   carry : Nat, div : 0 .. Divider - 1, line : BOOLEAN, irq : BOOLEAN]

\* The fields that counting leaves alone.
SameSettings(d, c) ==
  /\ d.target = c.target /\ (d.gate <=> c.gate) /\ (d.counting_enabled <=> c.counting_enabled)
  /\ (d.sync_enable <=> c.sync_enable) /\ d.sync_mode = c.sync_mode
  /\ (d.reset_at_target <=> c.reset_at_target) /\ (d.irq_at_target <=> c.irq_at_target)
  /\ (d.irq_on_overflow <=> c.irq_on_overflow) /\ (d.irq_repeat <=> c.irq_repeat)
  /\ (d.irq_pulse_n <=> c.irq_pulse_n) /\ (d.use_external_clock <=> c.use_external_clock)
  /\ d.carry = c.carry /\ d.div = c.div

SameReached(d, c) == (d.reached_target <=> c.reached_target) /\ (d.reached_overflow <=> c.reached_overflow)

SameInterrupt(d, c) ==
  /\ (d.irq_done <=> c.irq_done) /\ (d.interrupt_request_n <=> c.interrupt_request_n)
  /\ (d.line <=> c.line) /\ (d.irq <=> c.irq)

\* Two counters with the same fields are the same.
LEMMA SameCounter ==
  ASSUME NEW c \in Counters, NEW d \in Counters,
         SameSettings(d, c), d.counter = c.counter, d.delay = c.delay, SameReached(d, c), SameInterrupt(d, c)
  PROVE  d = c
  BY DEF Counters, SameSettings, SameReached, SameInterrupt

Raises(c) == ~c.irq_done \/ c.irq_repeat

\* What a request does to the other fields.
IsRequested(d, c) ==
  /\ d.irq_done
  /\ d.interrupt_request_n <=>
       ~c.irq_pulse_n \/ (Raises(c) /\ ~c.interrupt_request_n) \/ (~Raises(c) /\ c.interrupt_request_n)
  /\ d.line <=> (~Raises(c) /\ c.line) \/ (Raises(c) /\ (~c.irq_pulse_n \/ c.interrupt_request_n))
  /\ d.irq <=> c.irq \/ (Raises(c) /\ (~c.irq_pulse_n \/ (c.interrupt_request_n /\ ~c.line)))

\* A request changes the fields of the interrupt, and no others.
LEMMA RequestIs ==
  ASSUME NEW c \in Counters
  PROVE  /\ Request(c) \in Counters /\ SameSettings(Request(c), c) /\ SameReached(Request(c), c)
         /\ Request(c).counter = c.counter /\ Request(c).delay = c.delay
         /\ IsRequested(Request(c), c)
<1>1. CASE ~Raises(c) /\ c.irq_pulse_n
  <2>1. Request(c) = c
    BY <1>1 DEF Request, Raises
  <2> QED
    BY <1>1, <2>1 DEF Raises, IsRequested, SameSettings, SameReached
<1>2. CASE ~Raises(c) /\ ~c.irq_pulse_n
  <2>1. Request(c) = [c EXCEPT !.interrupt_request_n = TRUE]
    BY <1>2 DEF Request, Raises
  <2>2. Request(c) \in Counters
    BY <2>1 DEF Counters
  <2>3. SameSettings(Request(c), c)
    BY <2>1 DEF SameSettings, Counters
  <2> QED
    BY <1>2, <2>1, <2>2, <2>3 DEF Raises, IsRequested, SameReached, Counters
<1>3. CASE Raises(c) /\ c.irq_pulse_n
  <2> DEFINE n == ~c.interrupt_request_n
             q == c.irq \/ (c.interrupt_request_n /\ ~c.line)
             l == c.interrupt_request_n
             d == [c EXCEPT !.line = l, !.irq = q]
  <2>1. Request(c) = [d EXCEPT !.irq_done = TRUE, !.interrupt_request_n = n]
    BY <1>3 DEF Request, Raises, SetLineState, Counters
  <2>2. l \in BOOLEAN /\ n \in BOOLEAN /\ q \in BOOLEAN
    BY DEF Counters
  <2>3. (l <=> c.interrupt_request_n) /\ (n <=> ~c.interrupt_request_n)
        /\ (q <=> c.irq \/ (c.interrupt_request_n /\ ~c.line))
    OBVIOUS
  <2> HIDE DEF l, n, q
  <2>4. d \in Counters
    BY <2>2 DEF Counters
  <2>5. SameSettings(d, c)
    BY <2>2 DEF Counters, SameSettings
  <2>6. SameReached(d, c) /\ d.counter = c.counter /\ d.delay = c.delay /\ d.line = l /\ d.irq = q
    BY <2>2 DEF Counters, SameReached
  <2> HIDE DEF d
  <2>7. Request(c) \in Counters
    BY <2>1, <2>2, <2>4 DEF Counters
  <2>8. SameSettings(Request(c), d)
    BY <2>1, <2>2, <2>4 DEF Counters, SameSettings
  <2>9. SameReached(Request(c), d) /\ Request(c).counter = d.counter /\ Request(c).delay = d.delay
        /\ Request(c).line = d.line /\ Request(c).irq = d.irq /\ Request(c).irq_done = TRUE
        /\ Request(c).interrupt_request_n = n
    BY <2>1, <2>2, <2>4 DEF Counters, SameReached
  <2>10. IsRequested(Request(c), c)
    BY <1>3, <2>3, <2>6, <2>9 DEF IsRequested
  <2> QED
    BY <2>5, <2>6, <2>7, <2>8, <2>9, <2>10 DEF SameSettings, SameReached
<1>4. CASE Raises(c) /\ ~c.irq_pulse_n
  <2> DEFINE d == SetLineState(c, FALSE)
             e == SetLineState(d, TRUE)
  <2>1. Request(c) = [e EXCEPT !.irq_done = TRUE, !.interrupt_request_n = TRUE]
    BY <1>4 DEF Request, Raises
  <2>2. d = [c EXCEPT !.line = FALSE]
    BY DEF SetLineState, Counters
  <2> HIDE DEF d
  <2>3. d \in Counters /\ ~d.line
    BY <2>2 DEF Counters
  <2>4. e = [d EXCEPT !.line = TRUE, !.irq = TRUE]
    BY <2>3 DEF SetLineState, Counters
  <2> HIDE DEF e
  <2>5. e \in Counters
    BY <2>3, <2>4 DEF Counters
  <2>6. Request(c) \in Counters
    BY <2>1, <2>5 DEF Counters
  <2> QED
    BY <1>4, <2>1, <2>2, <2>3, <2>4, <2>5, <2>6 DEF IsRequested, Counters, SameSettings, SameReached
<1> QED
  BY <1>1, <1>2, <1>3, <1>4

-----------------------------------------------------------------------------
(* Remainders *)

\* A number is its quotient and its remainder.
LEMMA Division ==
  ASSUME NEW a \in Nat, NEW m \in Nat \ {0}
  PROVE  a \div m \in Nat /\ a % m \in 0 .. m - 1 /\ a = ((a \div m) * m) + (a % m)
  OBVIOUS

\* They are unique.
LEMMA Quotient ==
  ASSUME NEW q \in Int, NEW m \in Nat \ {0}, NEW r \in 0 .. m - 1
  PROVE  (q * m + r) % m = r /\ (q * m + r) \div m = q
  OBVIOUS

\* A number below the divisor is its own remainder.
LEMMA Small ==
  ASSUME NEW a \in Nat, NEW m \in Nat \ {0}, a < m
  PROVE  a % m = a /\ a \div m = 0
  OBVIOUS

\* The divisor makes no difference to the remainder.
LEMMA LessDivisor ==
  ASSUME NEW a \in Nat, NEW m \in Nat \ {0}, a >= m
  PROVE  (a - m) % m = a % m
<1> DEFINE q == a \div m
           r == a % m
           p == q - 1
<1>1. a = (q * m) + r /\ r \in 0 .. m - 1 /\ q \in Nat
  BY Division
<1>2. p \in Int /\ q = p + 1
  BY <1>1
<1> HIDE DEF q, r, p
<1>3. a - m = (p * m) + r
  BY <1>1, <1>2
<1>4. (p * m + r) % m = r
  BY <1>1, <1>2, Quotient
<1> QED
  BY <1>3, <1>4 DEF r

\* The remainder goes up by one, until it starts again.
LEMMA OneMore ==
  ASSUME NEW a \in Nat, NEW m \in Nat \ {0}
  PROVE  /\ a % m < m - 1 => (a + 1) % m = (a % m) + 1 /\ (a + 1) \div m = a \div m
         /\ a % m = m - 1 => (a + 1) % m = 0 /\ (a + 1) \div m = (a \div m) + 1
<1> DEFINE q == a \div m
           r == a % m
<1>1. a = (q * m) + r /\ r \in 0 .. m - 1 /\ q \in Nat
  BY Division
<1> HIDE DEF q, r
<1>2. CASE r < m - 1
  <2>1. a + 1 = q * m + (r + 1) /\ r + 1 \in 0 .. m - 1
    BY <1>1, <1>2
  <2>2. (a + 1) % m = r + 1 /\ (a + 1) \div m = q
    BY <2>1, <1>1, Quotient
  <2> QED
    BY <2>2, <1>2 DEF r, q
<1>3. CASE r = m - 1
  <2>1. a + 1 = (q + 1) * m + 0 /\ 0 \in 0 .. m - 1 /\ q + 1 \in Int
    BY <1>1, <1>3
  <2>2. (a + 1) % m = 0 /\ (a + 1) \div m = q + 1
    BY <2>1, <1>1, Quotient
  <2> QED
    BY <2>2, <1>3 DEF r, q
<1> QED
  BY <1>2, <1>3, <1>1 DEF r, q

\* A sum can be divided in two goes, the second with the remainder of the first.
LEMMA InTwoGoes ==
  ASSUME NEW a \in Nat, NEW b \in Nat, NEW m \in Nat \ {0}
  PROVE  /\ (a + b) % m = ((a % m) + b) % m
         /\ (a + b) \div m = (a \div m) + (((a % m) + b) \div m)
<1> DEFINE q == a \div m
           r == a % m
           t == r + b
           p == t \div m
           s == t % m
           u == q + p
<1>1. a = (q * m) + r /\ r \in 0 .. m - 1 /\ q \in Nat
  BY Division
<1>2. t \in Nat
  BY <1>1
<1> HIDE DEF t
<1>3. t = (p * m) + s /\ s \in 0 .. m - 1 /\ p \in Nat
  BY <1>2, Division
<1>4. u \in Int /\ u = q + p
  BY <1>1, <1>3
<1> HIDE DEF q, r, p, s, u
<1>5. t = r + b
  BY DEF t
<1>6. a + b = (u * m) + s
  BY <1>1, <1>3, <1>4, <1>5
<1>7. (u * m + s) % m = s /\ (u * m + s) \div m = u
  BY <1>3, <1>4, Quotient
<1> QED
  BY <1>4, <1>6, <1>7 DEF q, r, p, s, t

\* The constants.
LEMMA Constants ==
  TIMER_OVERFLOW \in Nat /\ TIMER_OVERFLOW > 1 /\ Divider \in Nat \ {0} /\ MaxSliceTicks \in Nat \ {0}
  BY ClockAssumption

-----------------------------------------------------------------------------
(* Counting *)

Asks(c, hit, overflow) == (hit /\ c.irq_at_target) \/ (overflow /\ c.irq_on_overflow)

\* d is the counter c with another value and delay, after it has reached its
\* target, its overflow, or both.
IsAfter(d, c, value, delay, hit, overflow) ==
  /\ d \in Counters /\ SameSettings(d, c) /\ d.counter = value /\ d.delay = delay
  /\ d.reached_target <=> c.reached_target \/ hit
  /\ d.reached_overflow <=> c.reached_overflow \/ overflow
  /\ Asks(c, hit, overflow) => IsRequested(d, c)
  /\ ~Asks(c, hit, overflow) => SameInterrupt(d, c)

\* There is one such counter.
LEMMA OneAfter ==
  ASSUME NEW c \in Counters, NEW d, NEW e, NEW value, NEW delay, NEW hit \in BOOLEAN, NEW overflow \in BOOLEAN,
         IsAfter(d, c, value, delay, hit, overflow), IsAfter(e, c, value, delay, hit, overflow)
  PROVE  d = e
<1>1. /\ d \in Counters /\ e \in Counters /\ d.counter = e.counter /\ d.delay = e.delay
  BY DEF IsAfter
<1>2. SameSettings(d, e)
  BY DEF IsAfter, SameSettings
<1>3. SameReached(d, e)
  BY DEF IsAfter, SameReached
<1>4. SameInterrupt(d, e)
  BY DEF IsAfter, IsRequested, SameInterrupt
<1> QED
  BY <1>1, <1>2, <1>3, <1>4, SameCounter

\* Only the flags are changed.
LEMMA SetReached ==
  ASSUME NEW c \in Counters, NEW t \in BOOLEAN, NEW o \in BOOLEAN, NEW d,
         d = [c EXCEPT !.reached_target = t, !.reached_overflow = o]
  PROVE  SameSettings(d, c)
  BY DEF Counters, SameSettings

\* The end of CountOne and of CheckForIRQ.
LEMMA Reaches ==
  ASSUME NEW c \in Counters, NEW value \in Values, NEW delay \in 0 .. TARGET_RESET_DELAY,
         NEW hit \in BOOLEAN, NEW overflow \in BOOLEAN, NEW next,
         next = [c EXCEPT !.counter = value, !.delay = delay, !.reached_target = c.reached_target \/ hit,
                          !.reached_overflow = c.reached_overflow \/ overflow]
  PROVE  IsAfter(IF Asks(c, hit, overflow) THEN Request(next) ELSE next, c, value, delay, hit, overflow)
<1> DEFINE t == c.reached_target \/ hit
           o == c.reached_overflow \/ overflow
           b == [c EXCEPT !.counter = value, !.delay = delay]
<1>1. t \in BOOLEAN /\ o \in BOOLEAN /\ (t <=> c.reached_target \/ hit) /\ (o <=> c.reached_overflow \/ overflow)
  BY DEF Counters
<1>2. next = [b EXCEPT !.reached_target = t, !.reached_overflow = o]
  OBVIOUS
<1> HIDE DEF t, o
<1>3. b \in Counters
  BY DEF Counters
<1>4. SameSettings(b, c)
  BY DEF Counters, SameSettings
<1>5. SameInterrupt(b, c) /\ b.counter = value /\ b.delay = delay
  BY DEF Counters, SameInterrupt
<1> HIDE DEF b
<1>6. next \in Counters
  BY <1>1, <1>2, <1>3 DEF Counters
<1>7. SameSettings(next, b)
  BY <1>1, <1>2, <1>3, SetReached
<1>8. SameInterrupt(next, b) /\ next.counter = b.counter /\ next.delay = b.delay
  BY <1>1, <1>2, <1>3 DEF Counters, SameInterrupt
<1>9. next.reached_target = t /\ next.reached_overflow = o
  BY <1>1, <1>2, <1>3 DEF Counters
<1>10. SameSettings(next, c) /\ SameInterrupt(next, c) /\ next.counter = value /\ next.delay = delay
  BY <1>4, <1>5, <1>7, <1>8 DEF SameSettings, SameInterrupt
<1>11. CASE ~Asks(c, hit, overflow)
  BY <1>1, <1>6, <1>9, <1>10, <1>11 DEF IsAfter
<1>12. CASE Asks(c, hit, overflow)
  <2> DEFINE r == Request(next)
  <2>1. /\ r \in Counters /\ SameSettings(r, next) /\ SameReached(r, next)
        /\ r.counter = next.counter /\ r.delay = next.delay /\ IsRequested(r, next)
    BY <1>6, RequestIs
  <2> HIDE DEF r
  <2>2. SameSettings(r, c) /\ r.counter = value /\ r.delay = delay
    BY <2>1, <1>10 DEF SameSettings
  <2>3. (r.reached_target <=> c.reached_target \/ hit) /\ (r.reached_overflow <=> c.reached_overflow \/ overflow)
    BY <2>1, <1>1, <1>9 DEF SameReached
  <2>4. IsRequested(r, c)
    BY <2>1, <1>10 DEF IsRequested, Raises, SameSettings, SameInterrupt
  <2>5. IsAfter(r, c, value, delay, hit, overflow)
    BY <2>1, <2>2, <2>3, <2>4, <1>12 DEF IsAfter
  <2> QED
    BY <2>5, <1>12 DEF r
<1> QED
  BY <1>11, <1>12

\* Once it has requested an interrupt by a pulse, another request makes no
\* difference.
LEMMA AfterTwice ==
  ASSUME NEW c \in Counters, NEW d, NEW e,
         NEW v, NEW y, NEW h \in BOOLEAN, NEW o \in BOOLEAN,
         NEW w, NEW z, NEW i \in BOOLEAN, NEW p \in BOOLEAN,
         IsAfter(d, c, v, y, h, o), IsAfter(e, d, w, z, i, p), ~c.irq_pulse_n \/ ~(h \/ o)
  PROVE  IsAfter(e, c, w, z, h \/ i, o \/ p)
<1>1. d \in Counters /\ e \in Counters /\ e.counter = w /\ e.delay = z
  BY DEF IsAfter
<1>2. SameSettings(e, c)
  BY DEF IsAfter, SameSettings
<1>3. (e.reached_target <=> c.reached_target \/ (h \/ i)) /\ (e.reached_overflow <=> c.reached_overflow \/ (o \/ p))
  BY DEF IsAfter
<1>4. Asks(c, h \/ i, o \/ p) <=> Asks(c, h, o) \/ Asks(d, i, p)
  BY DEF IsAfter, Asks, SameSettings
<1>5. CASE ~Asks(c, h, o)
  <2>1. SameInterrupt(d, c) /\ SameSettings(d, c)
    BY <1>5 DEF IsAfter
  <2>2. Asks(d, i, p) => IsRequested(e, c)
    BY <2>1 DEF IsAfter, IsRequested, SameInterrupt, SameSettings, Raises
  <2>3. ~Asks(d, i, p) => SameInterrupt(e, c)
    BY <2>1 DEF IsAfter, SameInterrupt
  <2> QED
    BY <1>1, <1>2, <1>3, <1>4, <1>5, <2>2, <2>3 DEF IsAfter
<1>6. CASE Asks(c, h, o)
  <2>1. IsRequested(d, c) /\ SameSettings(d, c) /\ ~c.irq_pulse_n
    BY <1>6 DEF IsAfter, Asks
  <2>2. Asks(d, i, p) => IsRequested(e, c)
    BY <2>1 DEF IsAfter, IsRequested, SameSettings, Raises
  <2>3. ~Asks(d, i, p) => IsRequested(e, c)
    BY <2>1 DEF IsAfter, IsRequested, SameInterrupt
  <2> QED
    BY <1>1, <1>2, <1>3, <1>4, <1>6, <2>2, <2>3 DEF IsAfter
<1> QED
  BY <1>5, <1>6

-----------------------------------------------------------------------------
(* A counter that goes on to "end" *)

\* How far a counter goes to reach its target, maybe past its overflow.
Goal(c) == IF c.counter < c.target THEN c.target ELSE TIMER_OVERFLOW + c.target

Resets(c) == c.reset_at_target /\ c.target # 0 /\ c.target # TIMER_OVERFLOW - 1

Resetting(c, end) == Resets(c) /\ end >= Goal(c)

\* The ticks of a round, from one reset to the next, for the first of which it is held.
Held(c) == IF c.use_external_clock THEN 0 ELSE TARGET_RESET_DELAY
Since(c, end) == (end - Goal(c)) % (c.target + Held(c))

ValueAt(c, end) ==
  IF Resetting(c, end) THEN IF Since(c, end) > Held(c) THEN Since(c, end) - Held(c) ELSE 0
  ELSE end % TIMER_OVERFLOW

DelayAt(c, end) == IF Resetting(c, end) /\ Since(c, end) < Held(c) THEN Held(c) - Since(c, end) ELSE 0

HitAt(c, end) == end >= Goal(c)

OverflowAt(c, end) == IF Resetting(c, end) THEN c.counter >= c.target ELSE end >= TIMER_OVERFLOW

IsAt(d, c, end) == IsAfter(d, c, ValueAt(c, end), DelayAt(c, end), HitAt(c, end), OverflowAt(c, end))

\* The operators' values.
LEMMA AtTypes ==
  ASSUME NEW c \in Counters, NEW end \in Nat
  PROVE  /\ Goal(c) \in Nat /\ Held(c) \in 0 .. TARGET_RESET_DELAY /\ Resetting(c, end) \in BOOLEAN
         /\ ValueAt(c, end) \in Values /\ DelayAt(c, end) \in 0 .. TARGET_RESET_DELAY
         /\ HitAt(c, end) \in BOOLEAN /\ OverflowAt(c, end) \in BOOLEAN
         /\ Resetting(c, end) => Since(c, end) \in 0 .. c.target + Held(c) - 1 /\ c.target + Held(c) > 0
<1>1. c.counter \in Nat /\ c.target \in Nat /\ c.target < TIMER_OVERFLOW /\ c.counter < TIMER_OVERFLOW
      /\ TIMER_OVERFLOW \in Nat /\ TIMER_OVERFLOW > 1 /\ TARGET_RESET_DELAY = 2
      /\ c.reset_at_target \in BOOLEAN /\ Values = 0 .. TIMER_OVERFLOW - 1
  BY Constants DEF Counters, Values, TARGET_RESET_DELAY
<1>2. Goal(c) \in Nat /\ Held(c) \in 0 .. 2
  BY <1>1 DEF Goal, Held
<1>3. Resetting(c, end) \in BOOLEAN /\ HitAt(c, end) \in BOOLEAN /\ OverflowAt(c, end) \in BOOLEAN
  <2>1. Resetting(c, end) \in BOOLEAN
    BY DEF Resetting, Resets
  <2>2. HitAt(c, end) \in BOOLEAN
    BY DEF HitAt
  <2>3. OverflowAt(c, end) \in BOOLEAN
    <3>1. CASE Resetting(c, end)
      BY <3>1 DEF OverflowAt
    <3>2. CASE ~Resetting(c, end)
      BY <3>2 DEF OverflowAt
    <3> QED
      BY <3>1, <3>2
  <2> QED
    BY <2>1, <2>2, <2>3
<1>4. end % TIMER_OVERFLOW \in Values
  <2>1. TIMER_OVERFLOW \in Nat \ {0}
    BY <1>1
  <2> QED
    BY <1>1, <2>1, Division
<1>5. CASE ~Resetting(c, end)
  BY <1>1, <1>2, <1>3, <1>4, <1>5 DEF ValueAt, DelayAt
<1>6. CASE Resetting(c, end)
  <2>1. end - Goal(c) \in Nat /\ c.target + Held(c) \in Nat \ {0} /\ c.target > 0 /\ c.target + 1 < TIMER_OVERFLOW
    BY <1>1, <1>2, <1>6 DEF Resetting, Resets
  <2>2. Since(c, end) \in 0 .. c.target + Held(c) - 1
    <3> DEFINE m == c.target + Held(c)
               a == end - Goal(c)
    <3>1. m \in Nat \ {0} /\ a \in Nat
      BY <2>1
    <3> HIDE DEF m, a
    <3>2. a % m \in 0 .. m - 1
      BY <3>1, Division
    <3>3. Since(c, end) = a % m
      BY DEF Since, a, m
    <3>4. m - 1 = c.target + Held(c) - 1
      BY <1>1, <1>2 DEF m
    <3>5. Since(c, end) \in 0 .. m - 1
      BY <3>2, <3>3
    <3> QED
      BY <3>4, <3>5
  <2> DEFINE since == Since(c, end)
             held == Held(c)
  <2>3. since \in Int /\ since >= 0 /\ since <= c.target + held - 1 /\ held \in 0 .. 2 /\ c.target + 1 < TIMER_OVERFLOW
    BY <1>1, <1>2, <2>1, <2>2
  <2>4. ValueAt(c, end) = IF since > held THEN since - held ELSE 0
    BY <1>6 DEF ValueAt
  <2>5. DelayAt(c, end) = IF since < held THEN held - since ELSE 0
    BY <1>6 DEF DelayAt
  <2> HIDE DEF since, held
  <2>6. ValueAt(c, end) \in Values /\ DelayAt(c, end) \in 0 .. TARGET_RESET_DELAY
    BY <1>1, <2>3, <2>4, <2>5
  <2>7. c.target + Held(c) > 0 /\ Goal(c) \in Nat /\ Held(c) \in 0 .. TARGET_RESET_DELAY
    BY <1>1, <1>2, <2>1
  <2> QED
    BY <1>3, <2>2, <2>6, <2>7
<1> QED
  BY <1>5, <1>6

\* As long as it reaches neither target nor overflow, a counter only counts.
LEMMA OnlyCountsIs ==
  ASSUME NEW c \in Counters, NEW end \in Nat, end >= c.counter
  PROVE  /\ OnlyCounts(c, end) <=> ~HitAt(c, end) /\ ~OverflowAt(c, end)
         /\ OnlyCounts(c, end) => ValueAt(c, end) = end /\ DelayAt(c, end) = 0
         /\ OnlyCounts(c, end) <=> end < TIMER_OVERFLOW /\ end < Goal(c)
<1>1. c.counter \in Nat /\ c.target \in Nat /\ c.target < TIMER_OVERFLOW /\ c.counter < TIMER_OVERFLOW
      /\ TIMER_OVERFLOW \in Nat /\ TIMER_OVERFLOW > 1 /\ Values = 0 .. TIMER_OVERFLOW - 1
  BY Constants DEF Counters, Values
<1>2. OnlyCounts(c, end) <=> end < TIMER_OVERFLOW /\ end < Goal(c)
  BY <1>1 DEF OnlyCounts, Goal
<1>3. OnlyCounts(c, end) <=> ~HitAt(c, end) /\ ~OverflowAt(c, end)
  BY <1>1, <1>2 DEF HitAt, OverflowAt, Resetting, Goal
<1>4. end < TIMER_OVERFLOW => end % TIMER_OVERFLOW = end
  BY <1>1, Small
<1> QED
  BY <1>2, <1>3, <1>4 DEF ValueAt, DelayAt, HitAt, Resetting

\* The console's tick is one for the emulator, too.
LEMMA CountOneIs ==
  ASSUME NEW c \in Counters, c.use_external_clock => c.delay = 0
  PROVE  /\ c.delay = 0 => IsAt(CountOne(c), c, c.counter + 1)
         /\ c.delay > 0 => IsAfter(CountOne(c), c, c.counter, c.delay - 1, FALSE, FALSE)
<1>1. c.counter \in Nat /\ c.target \in Nat /\ c.target < TIMER_OVERFLOW /\ c.counter < TIMER_OVERFLOW
      /\ TIMER_OVERFLOW \in Nat /\ TIMER_OVERFLOW > 1 /\ TARGET_RESET_DELAY = 2
      /\ c.reset_at_target \in BOOLEAN /\ Values = 0 .. TIMER_OVERFLOW - 1 /\ c.delay \in 0 .. 2
  BY Constants DEF Counters, Values, TARGET_RESET_DELAY
<1>2. CASE c.delay > 0
  <2> DEFINE d == [c EXCEPT !.delay = c.delay - 1]
  <2>1. CountOne(c) = d
    BY <1>2 DEF CountOne
  <2>2. c.delay - 1 \in 0 .. TARGET_RESET_DELAY
    BY <1>1, <1>2
  <2>3. d \in Counters
    BY <2>2 DEF Counters
  <2>4. SameSettings(d, c)
    BY <2>2 DEF Counters, SameSettings
  <2>5. d.counter = c.counter /\ d.delay = c.delay - 1 /\ SameInterrupt(d, c) /\ SameReached(d, c)
    BY <2>2 DEF Counters, SameInterrupt, SameReached
  <2> HIDE DEF d
  <2>6. IsAfter(d, c, c.counter, c.delay - 1, FALSE, FALSE)
    BY <2>3, <2>4, <2>5 DEF IsAfter, Asks, SameReached
  <2>7. IsAfter(CountOne(c), c, c.counter, c.delay - 1, FALSE, FALSE)
    BY <2>1, <2>6
  <2>8. c.delay # 0
    BY <1>1, <1>2
  <2> QED
    BY <2>7, <2>8
<1>3. CASE c.delay = 0
  <2> DEFINE value    == (c.counter + 1) % TIMER_OVERFLOW
             overflow == value = 0
             hit      == value = c.target
             reset    == hit /\ c.reset_at_target /\ c.target \notin {0, TIMER_OVERFLOW - 1}
             v        == IF reset THEN 0 ELSE value
             y        == IF reset /\ ~c.use_external_clock THEN TARGET_RESET_DELAY ELSE 0
             next     == [c EXCEPT !.counter = v, !.delay = y, !.reached_target = c.reached_target \/ hit,
                                   !.reached_overflow = c.reached_overflow \/ overflow]
             end      == c.counter + 1
  <2>1. CountOne(c) = IF Asks(c, hit, overflow) THEN Request(next) ELSE next
    BY <1>3, <1>1 DEF CountOne, Asks
  <2>2. value = IF c.counter = TIMER_OVERFLOW - 1 THEN 0 ELSE c.counter + 1
    BY <1>1, Small
  <2>3. v \in Values /\ y \in 0 .. TARGET_RESET_DELAY /\ hit \in BOOLEAN /\ overflow \in BOOLEAN
    BY <2>2, <1>1
  <2>4. hit <=> HitAt(c, end)
    BY <2>2, <1>1 DEF HitAt, Goal
  <2>5. reset <=> Resetting(c, end)
    BY <2>4 DEF Resetting, Resets, HitAt
  <2>6. Resetting(c, end) => end = Goal(c) /\ Since(c, end) = 0
    <3>1. Resetting(c, end) => end = Goal(c) /\ c.target + Held(c) \in Nat \ {0}
      BY <1>1 DEF Resetting, Resets, Goal, Held
    <3>2. ASSUME NEW m \in Nat \ {0} PROVE 0 % m = 0
      BY <3>2, Small
    <3> QED
      BY <3>1, <3>2, <1>1 DEF Since, Goal
  <2>7. v = ValueAt(c, end)
    BY <2>5, <2>6, <1>1 DEF ValueAt, Held
  <2>8. y = DelayAt(c, end)
    BY <2>5, <2>6, <1>1 DEF DelayAt, Held
  <2>9. overflow <=> OverflowAt(c, end)
    BY <2>2, <2>5, <1>1 DEF OverflowAt, Resetting, Resets, Goal
  <2>10. IsAfter(IF Asks(c, hit, overflow) THEN Request(next) ELSE next, c, v, y, hit, overflow)
    <3> HIDE DEF v, y, hit, overflow, value
    <3> QED
      BY <2>3, Reaches
  <2>11. IsAfter(CountOne(c), c, v, y, hit, overflow)
    BY <2>1, <2>10
  <2>12. hit = HitAt(c, end) /\ overflow = OverflowAt(c, end)
    BY <2>3, <2>4, <2>9 DEF HitAt, OverflowAt
  <2> HIDE DEF v, y, hit, overflow, value
  <2>13. IsAt(CountOne(c), c, end)
    BY <2>7, <2>8, <2>11, <2>12 DEF IsAt
  <2> QED
    BY <1>3, <2>13
<1> QED
  <2> HIDE DEF IsAt, IsAfter
  <2>1. c.delay > 0 \/ c.delay = 0
    BY <1>1
  <2> QED
    BY <2>1, <1>2, <1>3

\* An emulator's counter that has gone on to "end" is what CheckForIRQ says.
LEMMA CheckForIRQIs ==
  ASSUME NEW c \in Counters, c.delay = 0, NEW end \in Nat, end > c.counter
  PROVE  IsAt(CheckForIRQ([c EXCEPT !.counter = end], c.counter + 1), c, end)
<1> DEFINE b        == [c EXCEPT !.counter = end]
           wraps    == end >= TIMER_OVERFLOW
           passed   == c.counter + 1 > c.target
           wrapped  == wraps /\ (~c.reset_at_target \/ passed)
           s        == IF wraps /\ passed THEN end - TIMER_OVERFLOW ELSE end
           start    == IF wraps /\ passed THEN [b EXCEPT !.counter = @ - TIMER_OVERFLOW] ELSE b
           hit      == s >= c.target /\ (wraps \/ ~passed)
           reset    == hit /\ c.reset_at_target /\ c.target > 0 /\ c.target # TIMER_OVERFLOW - 1
           last     == IF reset THEN ResetAtTarget(start) ELSE start
           x        == IF ~reset THEN s ELSE IF c.use_external_clock THEN s % c.target
                       ELSE Max({((s - c.target) % (c.target + TARGET_RESET_DELAY)) - TARGET_RESET_DELAY, 0})
           y        == IF ~reset \/ c.use_external_clock THEN 0
                       ELSE Max({TARGET_RESET_DELAY - ((s - c.target) % (c.target + TARGET_RESET_DELAY)), 0})
           overflow == x >= TIMER_OVERFLOW \/ wrapped
           v        == IF overflow THEN x % TIMER_OVERFLOW ELSE x
           next     == [c EXCEPT !.counter = v, !.delay = y, !.reached_target = c.reached_target \/ hit,
                                 !.reached_overflow = c.reached_overflow \/ overflow]
<1>1. c.counter \in Nat /\ c.target \in Nat /\ c.target < TIMER_OVERFLOW /\ c.counter < TIMER_OVERFLOW
      /\ TIMER_OVERFLOW \in Nat /\ TIMER_OVERFLOW > 1 /\ TARGET_RESET_DELAY = 2
      /\ c.reset_at_target \in BOOLEAN /\ Values = 0 .. TIMER_OVERFLOW - 1
  BY Constants DEF Counters, Values, TARGET_RESET_DELAY
<1>2. start = [c EXCEPT !.counter = s]
  BY DEF Counters
<1>3. last = [c EXCEPT !.counter = x, !.delay = y]
  <2> HIDE DEF start, s
  <2>1. /\ start.counter = s /\ start.target = c.target /\ start.use_external_clock = c.use_external_clock
        /\ start.delay = 0
    BY <1>2 DEF Counters
  <2>2. CASE ~reset
    <3> HIDE DEF reset
    <3>1. x = s /\ y = 0 /\ last = start
      BY <2>2
    <3> HIDE DEF last, x, y
    <3> QED
      BY <3>1, <1>2 DEF Counters
  <2>3. CASE reset /\ c.use_external_clock
    <3>1. last = [start EXCEPT !.counter = x] /\ y = 0
      BY <2>1, <2>3 DEF ResetAtTarget
    <3> HIDE DEF last, x, y, reset
    <3> QED
      BY <3>1, <1>2 DEF Counters
  <2>4. CASE reset /\ ~c.use_external_clock
    <3>1. last = [start EXCEPT !.counter = x, !.delay = y]
      BY <2>1, <2>4 DEF ResetAtTarget
    <3> HIDE DEF last, x, y, reset
    <3> QED
      BY <3>1, <1>2 DEF Counters
  <2> QED
    BY <2>2, <2>3, <2>4
<1>4. CheckForIRQ(b, c.counter + 1) = IF Asks(c, hit, overflow) THEN Request(next) ELSE next
  <2>1. b.counter = end /\ b.target = c.target /\ b.reset_at_target = c.reset_at_target
        /\ b.irq_at_target = c.irq_at_target /\ b.irq_on_overflow = c.irq_on_overflow
    BY DEF Counters
  <2>2. start.counter = s
    BY <1>2 DEF Counters
  <2>3. last.counter = x
    BY <1>3 DEF Counters
  <2> DEFINE wraps0    == b.counter >= TIMER_OVERFLOW
             passed0   == c.counter + 1 > b.target
             wrapped0  == wraps0 /\ (~b.reset_at_target \/ passed0)
             start0    == IF wraps0 /\ passed0 THEN [b EXCEPT !.counter = @ - TIMER_OVERFLOW] ELSE b
             hit0      == start0.counter >= b.target /\ (wraps0 \/ ~passed0)
             reset0    == hit0 /\ b.reset_at_target /\ b.target > 0 /\ b.target # TIMER_OVERFLOW - 1
             last0     == IF reset0 THEN ResetAtTarget(start0) ELSE start0
             overflow0 == last0.counter >= TIMER_OVERFLOW \/ wrapped0
             nx0       == [last0 EXCEPT !.counter = IF overflow0 THEN @ % TIMER_OVERFLOW ELSE @,
                                        !.reached_target = @ \/ hit0, !.reached_overflow = @ \/ overflow0]
             nx        == [last EXCEPT !.counter = IF overflow THEN @ % TIMER_OVERFLOW ELSE @,
                                       !.reached_target = @ \/ hit, !.reached_overflow = @ \/ overflow]
  <2> HIDE DEF b, s, x
  <2>6. CheckForIRQ(b, c.counter + 1)
          = IF (hit0 /\ b.irq_at_target) \/ (overflow0 /\ b.irq_on_overflow) THEN Request(nx0) ELSE nx0
    BY DEF CheckForIRQ
  <2>7. wraps0 = wraps /\ passed0 = passed /\ wrapped0 = wrapped
    BY <2>1
  <2>8. start0 = start
    BY <2>7
  <2> HIDE DEF wraps0, passed0, start0, wraps, passed, start, wrapped0, wrapped
  <2>9. hit0 = hit
    BY <2>1, <2>2, <2>7, <2>8
  <2>10. reset0 = reset
    BY <2>1, <2>9
  <2>11. last0 = last
    BY <2>8, <2>10
  <2> HIDE DEF hit0, hit, reset0, reset, last0, last
  <2>12. overflow0 = overflow
    BY <2>3, <2>7, <2>11
  <2> HIDE DEF overflow0, overflow
  <2>13. nx0 = nx
    BY <2>9, <2>11, <2>12
  <2> HIDE DEF nx0, nx
  <2>4. CheckForIRQ(b, c.counter + 1) = IF Asks(c, hit, overflow) THEN Request(nx) ELSE nx
    BY <2>1, <2>6, <2>9, <2>12, <2>13 DEF Asks
  <2>5. nx = next
    <3> HIDE DEF y
    <3> QED
      BY <1>3 DEF Counters, last, nx
  <2> QED
    BY <2>4, <2>5
<1>5. hit <=> HitAt(c, end)
  BY <1>1 DEF HitAt, Goal
<1>6. reset <=> Resetting(c, end)
  BY <1>1, <1>5 DEF Resetting, Resets, HitAt
<1>7. ~reset => v = end % TIMER_OVERFLOW /\ (overflow <=> end >= TIMER_OVERFLOW)
  <2> SUFFICES ASSUME ~reset PROVE v = end % TIMER_OVERFLOW /\ (overflow <=> end >= TIMER_OVERFLOW)
    OBVIOUS
  <2>1. x = s
    OBVIOUS
  <2>2. wraps => s % TIMER_OVERFLOW = end % TIMER_OVERFLOW /\ s \in Nat
    <3>1. TIMER_OVERFLOW \in Nat \ {0}
      BY <1>1
    <3>2. end >= TIMER_OVERFLOW => (end - TIMER_OVERFLOW) % TIMER_OVERFLOW = end % TIMER_OVERFLOW
      BY <3>1, LessDivisor
    <3> QED
      BY <3>2, <1>1
  <2>3. ~wraps => s = end /\ end % TIMER_OVERFLOW = end
    BY <1>1, Small
  <2>4. overflow <=> wraps
    BY <2>1, <1>1, <1>6 DEF Resetting, Resets, Goal
  <2> QED
    BY <2>1, <2>2, <2>3, <2>4
<1>8. reset => /\ s - c.target = end - Goal(c) /\ end - Goal(c) \in Nat /\ Since(c, end) \in Nat
               /\ c.target > 0 /\ c.target + 1 < TIMER_OVERFLOW
               /\ Since(c, end) < c.target + Held(c)
  <2>1. reset => /\ s - c.target = end - Goal(c) /\ end - Goal(c) \in Nat
                 /\ c.target > 0 /\ c.target + 1 < TIMER_OVERFLOW
    BY <1>1 DEF Goal
  <2>2. Resetting(c, end) => Since(c, end) \in 0 .. c.target + Held(c) - 1
    BY AtTypes
  <2>3. Held(c) \in Nat
    BY <1>1 DEF Held
  <2> QED
    BY <2>1, <2>2, <2>3, <1>1, <1>6
<1>9. reset => x = (IF Since(c, end) > Held(c) THEN Since(c, end) - Held(c) ELSE 0) /\ y = DelayAt(c, end)
  <2> SUFFICES ASSUME reset
               PROVE  x = (IF Since(c, end) > Held(c) THEN Since(c, end) - Held(c) ELSE 0) /\ y = DelayAt(c, end)
    OBVIOUS
  <2>1. CASE c.use_external_clock
    <3>1. c.target \in Nat \ {0} /\ s \in Nat /\ s >= c.target
      BY <1>1, <1>8
    <3>2. (s - c.target) % c.target = s % c.target
      <4> HIDE DEF s
      <4> QED
        BY <3>1, LessDivisor
    <3>3. Since(c, end) = (s - c.target) % c.target
      BY <1>1, <1>8, <2>1 DEF Since, Held
    <3>4. x = Since(c, end) /\ y = 0 /\ Held(c) = 0
      BY <2>1, <3>2, <3>3 DEF Held
    <3> QED
      BY <3>4, <1>6, <1>8 DEF DelayAt
  <2>2. CASE ~c.use_external_clock
    <3>1. Held(c) = 2 /\ Since(c, end) = (s - c.target) % (c.target + TARGET_RESET_DELAY)
      BY <1>1, <1>8, <2>2 DEF Since, Held
    <3>2. x = Max({Since(c, end) - 2, 0}) /\ y = Max({2 - Since(c, end), 0})
      BY <1>1, <2>2, <3>1
    <3>3. ASSUME NEW n \in Nat
          PROVE  /\ Max({n - 2, 0}) = IF n > 2 THEN n - 2 ELSE 0
                 /\ Max({2 - n, 0}) = IF n < 2 THEN 2 - n ELSE 0
      BY DEF Max
    <3> QED
      BY <3>1, <3>2, <3>3, <1>6, <1>8 DEF DelayAt
  <2> QED
    BY <2>1, <2>2
<1>10. v = ValueAt(c, end) /\ y = DelayAt(c, end) /\ (overflow <=> OverflowAt(c, end))
  <2>1. CASE ~reset
    BY <2>1, <1>6, <1>7 DEF ValueAt, DelayAt, OverflowAt
  <2>2. CASE reset
    <3>1. x \in Nat /\ x < TIMER_OVERFLOW
      <4> HIDE DEF x, reset
      <4>1. Held(c) \in Nat
        BY <1>1 DEF Held
      <4> QED
        BY <2>2, <4>1, <1>1, <1>8, <1>9
    <3>2. overflow <=> wrapped
      <4> HIDE DEF x, wrapped
      <4> QED
        BY <3>1, <1>1
    <3>3. wrapped <=> c.counter >= c.target
      BY <2>2, <1>1
    <3>4. v = x
      <4>1. TIMER_OVERFLOW \in Nat \ {0}
        BY <1>1
      <4> HIDE DEF x, overflow
      <4>2. x % TIMER_OVERFLOW = x
        BY <3>1, <4>1, Small
      <4> QED
        BY <4>2
    <3> HIDE DEF x, y, v, overflow, reset
    <3> QED
      BY <2>2, <3>2, <3>3, <3>4, <1>6, <1>9 DEF ValueAt, OverflowAt
  <2> QED
    BY <2>1, <2>2
<1>11. hit \in BOOLEAN /\ overflow \in BOOLEAN
  OBVIOUS
<1> HIDE DEF hit, overflow, v, y, x, last, reset, start, s, wrapped, wraps, passed
<1>12. v \in Values /\ y \in 0 .. TARGET_RESET_DELAY
  BY <1>10, AtTypes
<1> HIDE DEF b
<1>17. next = [c EXCEPT !.counter = v, !.delay = y, !.reached_target = c.reached_target \/ hit,
                        !.reached_overflow = c.reached_overflow \/ overflow]
  OBVIOUS
<1> HIDE DEF next
<1>18. IsAfter(IF Asks(c, hit, overflow) THEN Request(next) ELSE next, c, v, y, hit, overflow)
  BY <1>11, <1>12, <1>17, Reaches
<1>13. IsAfter(CheckForIRQ(b, c.counter + 1), c, v, y, hit, overflow)
  BY <1>4, <1>18
<1>14. HitAt(c, end) \in BOOLEAN /\ OverflowAt(c, end) \in BOOLEAN
  BY AtTypes
<1>15. hit = HitAt(c, end) /\ overflow = OverflowAt(c, end)
  BY <1>5, <1>10, <1>11, <1>14
<1>16. IsAt(CheckForIRQ(b, c.counter + 1), c, end)
  BY <1>10, <1>13, <1>15 DEF IsAt
<1> QED
  BY <1>16 DEF b

\* The counter itself, before it goes on.
LEMMA AtCounter ==
  ASSUME NEW c \in Counters, c.delay = 0
  PROVE  IsAt(c, c, c.counter)
<1>1. c.counter \in Nat /\ c.target \in Nat /\ c.target < TIMER_OVERFLOW /\ c.counter < TIMER_OVERFLOW
      /\ TIMER_OVERFLOW \in Nat
  BY Constants DEF Counters, Values
<1>2. OnlyCounts(c, c.counter)
  BY <1>1 DEF OnlyCounts
<1>3. ~HitAt(c, c.counter) /\ ~OverflowAt(c, c.counter) /\ ValueAt(c, c.counter) = c.counter /\ DelayAt(c, c.counter) = 0
  BY <1>1, <1>2, OnlyCountsIs
<1>4. SameSettings(c, c) /\ SameInterrupt(c, c)
  BY DEF SameSettings, SameInterrupt
<1> QED
  BY <1>3, <1>4 DEF IsAt, IsAfter, Asks

\* A tick takes a counter that is at "end" to the next value, unless it would
\* toggle its request.
LEMMA OneOn ==
  ASSUME NEW c \in Counters, NEW end \in Nat, end >= c.counter, NEW d, IsAt(d, c, end),
         ~c.irq_pulse_n \/ ~(HitAt(c, end) \/ OverflowAt(c, end))
  PROVE  IsAt(CountOne(d), c, end + 1)
<1> DEFINE W == TIMER_OVERFLOW
           T == c.target
           H == Held(c)
           x == Since(c, end)
           u == d.counter
<1>1. c.counter \in Nat /\ T \in Nat /\ T < W /\ c.counter < W /\ W \in Nat \ {0} /\ W > 1 /\ end + 1 \in Nat
      /\ c.reset_at_target \in BOOLEAN /\ Values = 0 .. W - 1 /\ H \in {0, 2} /\ H \in Nat /\ Goal(c) \in Nat
  BY Constants DEF Counters, Values, Held, TARGET_RESET_DELAY, Goal
<1>2. d \in Counters /\ d.target = T /\ u = ValueAt(c, end) /\ d.delay = DelayAt(c, end)
      /\ (Resets(d) <=> Resets(c)) /\ Held(d) = H /\ (d.use_external_clock <=> c.use_external_clock)
  BY DEF IsAt, IsAfter, SameSettings, Resets, Held
<1>3. Resetting(c, end) => x \in 0 .. T + H - 1 /\ x \in Nat /\ x < T + H /\ T > 0 /\ T + 1 < W /\ end - Goal(c) \in Nat
  <2>1. Resetting(c, end) => x \in 0 .. T + H - 1
    BY AtTypes
  <2> QED
    BY <2>1, <1>1 DEF Resetting, Resets
<1>4. d.use_external_clock => d.delay = 0
  BY <1>1, <1>2, <1>3 DEF DelayAt, Held
<1>5. HitAt(c, end) \in BOOLEAN /\ OverflowAt(c, end) \in BOOLEAN
  BY AtTypes
<1>6. Resetting(c, end) => /\ Resetting(c, end + 1)
                           /\ Since(c, end + 1) = IF x = T + H - 1 THEN 0 ELSE x + 1
  <2> SUFFICES ASSUME Resetting(c, end)
               PROVE  Resetting(c, end + 1) /\ Since(c, end + 1) = IF x = T + H - 1 THEN 0 ELSE x + 1
    OBVIOUS
  <2> DEFINE m == T + H
             a == end - Goal(c)
  <2>1. m \in Nat \ {0} /\ a \in Nat
    BY <1>1, <1>3
  <2>2. x = a % m
    BY DEF Since
  <2>3. (end + 1) - Goal(c) = a + 1 /\ m - 1 = T + H - 1
    BY <1>1
  <2>4. Since(c, end + 1) = (a + 1) % m
    BY <2>3 DEF Since
  <2> HIDE DEF a, m
  <2>5. a % m \in 0 .. m - 1
    BY <2>1, Division
  <2>6. (a + 1) % m = IF a % m = m - 1 THEN 0 ELSE (a % m) + 1
    <3>1. a % m < m - 1 => (a + 1) % m = (a % m) + 1
      BY <2>1, OneMore
    <3>2. a % m = m - 1 => (a + 1) % m = 0
      BY <2>1, OneMore
    <3>3. a % m < m - 1 \/ a % m = m - 1
      BY <2>1, <2>5
    <3> QED
      BY <2>1, <3>1, <3>2, <3>3
  <2>7. Since(c, end + 1) = IF x = T + H - 1 THEN 0 ELSE x + 1
    BY <2>2, <2>3, <2>4, <2>6
  <2>8. Resetting(c, end + 1)
    BY <1>1 DEF Resetting
  <2> QED
    BY <2>7, <2>8
<1>7. CASE d.delay > 0
  <2>1. IsAfter(CountOne(d), d, u, d.delay - 1, FALSE, FALSE)
    BY <1>2, <1>4, <1>7, CountOneIs
  <2>2. Resetting(c, end) /\ x < H /\ d.delay = H - x
    BY <1>2, <1>7 DEF DelayAt
  <2>10. x \in Nat /\ H = 2 /\ x < H /\ T > 0 /\ T \in Nat /\ x # T + H - 1
    BY <2>2, <1>1, <1>3
  <2>3. Resetting(c, end + 1) /\ Since(c, end + 1) = x + 1
    BY <2>2, <2>10, <1>6
  <2>4. ValueAt(c, end + 1) = u
    BY <2>2, <2>3, <1>1, <1>2, <1>3 DEF ValueAt
  <2>5. DelayAt(c, end + 1) = d.delay - 1
    BY <2>2, <2>3, <2>10 DEF DelayAt
  <2>6. HitAt(c, end) /\ HitAt(c, end + 1) /\ (OverflowAt(c, end + 1) <=> OverflowAt(c, end))
    BY <2>2, <2>3, <1>1 DEF HitAt, OverflowAt, Resetting
  <2>7. IsAfter(d, c, u, d.delay, HitAt(c, end), OverflowAt(c, end))
    BY <1>2 DEF IsAt
  <2> DEFINE h == HitAt(c, end)
             o == OverflowAt(c, end)
             n == FALSE
             y == d.delay - 1
  <2>8. IsAfter(CountOne(d), c, u, y, h \/ n, o \/ n)
    <3>1. h \in BOOLEAN /\ o \in BOOLEAN /\ n \in BOOLEAN /\ (~c.irq_pulse_n \/ ~(h \/ o))
      BY <1>5
    <3>2. IsAfter(CountOne(d), d, u, y, n, n) /\ IsAfter(d, c, u, d.delay, h, o)
      BY <2>1, <2>7
    <3> HIDE DEF h, o, n, y, u
    <3> QED
      BY <3>1, <3>2, AfterTwice
  <2>9. HitAt(c, end + 1) = (HitAt(c, end) \/ FALSE) /\ OverflowAt(c, end + 1) = (OverflowAt(c, end) \/ FALSE)
    <3>1. HitAt(c, end + 1) \in BOOLEAN /\ OverflowAt(c, end + 1) \in BOOLEAN
      BY <1>1, AtTypes
    <3> QED
      BY <3>1, <2>6, <1>5
  <2> QED
    BY <2>4, <2>5, <2>8, <2>9 DEF IsAt
<1>8. CASE d.delay = 0
  <2> DEFINE h == HitAt(d, u + 1)
             o == OverflowAt(d, u + 1)
  <2>1. IsAfter(CountOne(d), d, ValueAt(d, u + 1), DelayAt(d, u + 1), h, o)
    BY <1>2, <1>4, <1>8, CountOneIs DEF IsAt
  <2>2. u \in Nat /\ u + 1 \in Nat /\ u < W
    BY <1>1, <1>2 DEF Counters
  <2>3. h \in BOOLEAN /\ o \in BOOLEAN
    BY <1>2, <2>2, AtTypes
  <2>4. IsAfter(CountOne(d), c, ValueAt(d, u + 1), DelayAt(d, u + 1), HitAt(c, end) \/ h, OverflowAt(c, end) \/ o)
    <3>1. IsAfter(d, c, ValueAt(c, end), DelayAt(c, end), HitAt(c, end), OverflowAt(c, end))
      BY DEF IsAt
    <3> HIDE DEF h, o, u
    <3> QED
      BY <2>1, <2>3, <3>1, <1>5, AfterTwice
  <2>5. /\ ValueAt(c, end + 1) = ValueAt(d, u + 1) /\ DelayAt(c, end + 1) = DelayAt(d, u + 1)
        /\ HitAt(c, end + 1) <=> HitAt(c, end) \/ h
        /\ OverflowAt(c, end + 1) <=> OverflowAt(c, end) \/ o
    <3>0. (u + 1) % W = IF u = W - 1 THEN 0 ELSE u + 1
      <4>1. u % W = u
        BY <1>1, <2>2, Small
      <4>2. u % W < W - 1 => (u + 1) % W = (u % W) + 1
        BY <1>1, <2>2, OneMore
      <4>3. u % W = W - 1 => (u + 1) % W = 0
        BY <1>1, <2>2, OneMore
      <4> HIDE DEF u
      <4> QED
        BY <1>1, <2>2, <4>1, <4>2, <4>3
    <3>1. CASE Resetting(c, end)
      <4>1. x >= H /\ u = x - H /\ u < T /\ Goal(d) = T
        BY <3>1, <1>1, <1>2, <1>3, <1>8 DEF DelayAt, ValueAt, Goal
      <4>2. Resetting(c, end + 1) /\ HitAt(c, end) /\ HitAt(c, end + 1)
        BY <3>1, <1>1, <1>6 DEF HitAt, Resetting
      <4>3. OverflowAt(c, end + 1) <=> OverflowAt(c, end)
        BY <3>1, <4>2 DEF OverflowAt
      <4>6. x \in Nat /\ H \in Nat /\ T \in Nat /\ T > 0 /\ x < T + H
        BY <3>1, <1>1, <1>3
      <4>7. Since(c, end + 1) = IF x = T + H - 1 THEN 0 ELSE x + 1
        BY <3>1, <1>6
      <4> HIDE DEF x, H, T, u
      <4>4. CASE x = T + H - 1
        <5>1. Since(c, end + 1) = 0 /\ u + 1 = T
          BY <4>4, <4>1, <4>6, <4>7
        <5>2. Resetting(d, u + 1)
          BY <5>1, <4>1, <4>6, <3>1, <1>2 DEF Resetting
        <5>3. Since(d, u + 1) = 0
          <6>1. ASSUME NEW m \in Nat \ {0} PROVE 0 % m = 0
            BY <6>1, Small
          <6>2. T + H \in Nat \ {0}
            BY <4>6
          <6>3. d.target + Held(d) = T + H /\ (u + 1) - Goal(d) = 0
            BY <5>1, <4>1, <4>6, <1>2
          <6>4. Since(d, u + 1) = 0 % (T + H)
            BY <6>3 DEF Since
          <6> QED
            BY <6>1, <6>2, <6>4
        <5>4. ~o
          BY <5>2, <4>1, <4>6, <1>2, <2>2 DEF OverflowAt, T, u
        <5>5. ValueAt(c, end + 1) = ValueAt(d, u + 1) /\ DelayAt(c, end + 1) = DelayAt(d, u + 1)
          BY <5>1, <5>2, <5>3, <4>2, <1>2 DEF ValueAt, DelayAt, H
        <5> QED
          BY <5>4, <5>5, <4>2, <4>3
      <4>5. CASE x # T + H - 1
        <5>1. Since(c, end + 1) = x + 1 /\ u + 1 < T
          BY <4>5, <4>1, <4>6, <4>7
        <5>2. ~Resetting(d, u + 1)
          BY <5>1, <4>1, <4>6, <2>2 DEF Resetting, u
        <5>3. ~o
          BY <5>1, <5>2, <1>1, <2>2 DEF OverflowAt, T, u
        <5>4. ValueAt(d, u + 1) = u + 1 /\ DelayAt(d, u + 1) = 0
          BY <5>1, <5>2, <1>1, <2>2, <3>0 DEF ValueAt, DelayAt, T, u
        <5>6. x + 1 > H /\ (x + 1) - H = u + 1
          BY <4>1, <4>6
        <5>5. ValueAt(c, end + 1) = (x + 1) - H /\ DelayAt(c, end + 1) = 0
          BY <5>1, <5>6, <4>2, <4>6 DEF ValueAt, DelayAt, H
        <5> QED
          BY <5>3, <5>4, <5>5, <5>6, <4>2, <4>3
      <4> QED
        BY <4>4, <4>5
    <3>2. CASE ~Resetting(c, end)
      <4>1. u = end % W
        BY <3>2, <1>2 DEF ValueAt
      <4>2. (end < W => u = end) /\ (end >= W /\ end < W + W => u = end - W)
        <5>1. end < W => end % W = end
          BY <1>1, Small
        <5>2. end >= W => (end - W) % W = end % W
          BY <1>1, LessDivisor
        <5>3. end >= W /\ end < W + W => (end - W) % W = end - W
          BY <1>1, Small
        <5> QED
          BY <5>1, <5>2, <5>3, <4>1
      <4>3. (end + 1) % W = (u + 1) % W
        <5>1. u < W - 1 => (end + 1) % W = u + 1
          BY <4>1, <1>1, OneMore
        <5>2. u = W - 1 => (end + 1) % W = 0
          BY <4>1, <1>1, OneMore
        <5> QED
          BY <5>1, <5>2, <3>0, <2>2, <1>1
      <4>4. HitAt(c, end + 1) <=> HitAt(c, end) \/ h
        BY <4>2, <1>1, <1>2, <2>2 DEF HitAt, Goal
      <4>5. Resetting(c, end + 1) <=> Resetting(d, u + 1)
        BY <4>4, <3>2, <1>2 DEF Resetting, HitAt
      <4>6. Resetting(c, end + 1) => end + 1 = Goal(c) /\ u + 1 = T /\ u < T /\ Goal(d) = T
        BY <4>2, <4>5, <3>2, <1>1, <1>2, <2>2 DEF Resetting, Resets, Goal
      <4>7. CASE Resetting(c, end + 1)
        <5>1. Since(c, end + 1) = 0 /\ Since(d, u + 1) = 0
          <6>1. ASSUME NEW m \in Nat \ {0} PROVE 0 % m = 0
            BY <6>1, Small
          <6>2. T + H \in Nat \ {0}
            BY <4>7, <1>1 DEF Resetting, Resets
          <6>3. Since(d, u + 1) = 0 % (T + H)
            BY <4>6, <4>7, <1>1, <1>2 DEF Since
          <6>4. Since(c, end + 1) = 0 % (T + H)
            BY <4>6, <4>7, <1>1, <1>2 DEF Since
          <6> QED
            BY <6>1, <6>2, <6>3, <6>4
        <5>2. ~o
          BY <4>5, <4>6, <4>7, <1>1, <1>2, <2>2 DEF OverflowAt
        <5>3. OverflowAt(c, end + 1) <=> OverflowAt(c, end)
          BY <4>6, <4>7, <3>2, <1>1 DEF OverflowAt, Goal, Resetting, Resets
        <5>4. ValueAt(c, end + 1) = ValueAt(d, u + 1) /\ DelayAt(c, end + 1) = DelayAt(d, u + 1)
          BY <5>1, <4>5, <4>7, <1>2 DEF ValueAt, DelayAt
        <5> QED
          BY <5>2, <5>3, <5>4, <4>4
      <4>8. CASE ~Resetting(c, end + 1)
        <5>1. OverflowAt(c, end + 1) <=> OverflowAt(c, end) \/ o
          BY <4>2, <4>5, <4>8, <3>2, <1>1, <2>2 DEF OverflowAt
        <5>2. ValueAt(c, end + 1) = ValueAt(d, u + 1) /\ DelayAt(c, end + 1) = DelayAt(d, u + 1)
          BY <4>3, <4>5, <4>8 DEF ValueAt, DelayAt
        <5> QED
          BY <5>1, <5>2, <4>4
      <4> QED
        BY <4>7, <4>8
    <3> QED
      BY <3>1, <3>2
  <2>6. HitAt(c, end + 1) = (HitAt(c, end) \/ h) /\ OverflowAt(c, end + 1) = (OverflowAt(c, end) \/ o)
    <3>1. HitAt(c, end + 1) \in BOOLEAN /\ OverflowAt(c, end + 1) \in BOOLEAN
      BY <1>1, AtTypes
    <3> HIDE DEF h, o
    <3> QED
      BY <3>1, <2>3, <2>5, <1>5
  <2> HIDE DEF h, o
  <2> QED
    BY <2>4, <2>5, <2>6 DEF IsAt
<1> QED
  <2>1. d.delay > 0 \/ d.delay = 0
    BY <1>2 DEF Counters
  <2> QED
    BY <2>1, <1>7, <1>8

-----------------------------------------------------------------------------
(* Many ticks *)

\* The smaller of two.
LEMMA MinTwo ==
  ASSUME NEW a \in Int, NEW b \in Int
  PROVE  Min({a, b}) = IF a <= b THEN a ELSE b
  BY DEF Min

Free(c) == [c EXCEPT !.delay = 0]

\* The counters whose delay the external clock does not use.
Timer(c) == c \in Counters /\ (c.use_external_clock => c.delay = 0)

\* A delay is over, whatever it was.
LEMMA FreeIs ==
  ASSUME NEW c \in Counters
  PROVE  /\ Free(c) \in Counters /\ Free(c).delay = 0 /\ Free(c).counter = c.counter
         /\ SameSettings(Free(c), c) /\ SameInterrupt(Free(c), c) /\ SameReached(Free(c), c)
         /\ \A d, end : IsAt(d, Free(c), end) <=> IsAt(d, c, end)
         /\ \A end : OnlyCounts(Free(c), end) <=> OnlyCounts(c, end)
<1>1. 0 \in 0 .. TARGET_RESET_DELAY
  BY DEF TARGET_RESET_DELAY
<1>2. Free(c) \in Counters
  BY <1>1 DEF Counters, Free
<1>3. SameSettings(Free(c), c)
  BY DEF Counters, Free, SameSettings
<1>4. SameInterrupt(Free(c), c) /\ SameReached(Free(c), c) /\ Free(c).delay = 0 /\ Free(c).counter = c.counter
  BY DEF Counters, Free, SameInterrupt, SameReached
<1>5. ASSUME NEW end
      PROVE  /\ ValueAt(Free(c), end) = ValueAt(c, end) /\ DelayAt(Free(c), end) = DelayAt(c, end)
             /\ HitAt(Free(c), end) = HitAt(c, end) /\ OverflowAt(Free(c), end) = OverflowAt(c, end)
             /\ (OnlyCounts(Free(c), end) <=> OnlyCounts(c, end))
  <2> DEFINE f == Free(c)
  <2>1. f.counter = c.counter /\ f.target = c.target /\ f.reset_at_target = c.reset_at_target
        /\ f.use_external_clock = c.use_external_clock
    BY DEF Free, Counters
  <2> HIDE DEF f
  <2>2. Goal(f) = Goal(c) /\ Resets(f) = Resets(c) /\ Held(f) = Held(c)
    BY <2>1 DEF Goal, Resets, Held
  <2>3. Resetting(f, end) = Resetting(c, end) /\ Since(f, end) = Since(c, end)
    BY <2>1, <2>2 DEF Resetting, Since
  <2>4. ValueAt(f, end) = ValueAt(c, end)
    BY <2>1, <2>2, <2>3 DEF ValueAt
  <2>5. DelayAt(f, end) = DelayAt(c, end)
    BY <2>1, <2>2, <2>3 DEF DelayAt
  <2>6. HitAt(f, end) = HitAt(c, end)
    BY <2>1, <2>2, <2>3 DEF HitAt
  <2>7. OverflowAt(f, end) = OverflowAt(c, end)
    BY <2>1, <2>2, <2>3 DEF OverflowAt
  <2>8. OnlyCounts(f, end) <=> OnlyCounts(c, end)
    BY <2>1 DEF OnlyCounts
  <2> QED
    BY <2>4, <2>5, <2>6, <2>7, <2>8 DEF f
<1>6. ASSUME NEW d, NEW v, NEW y, NEW h, NEW o
      PROVE  IsAfter(d, Free(c), v, y, h, o) <=> IsAfter(d, c, v, y, h, o)
  <2>1. SameSettings(d, Free(c)) <=> SameSettings(d, c)
    BY <1>3 DEF SameSettings
  <2>2. SameInterrupt(d, Free(c)) <=> SameInterrupt(d, c)
    BY <1>4 DEF SameInterrupt
  <2>3. IsRequested(d, Free(c)) <=> IsRequested(d, c)
    BY <1>3, <1>4 DEF IsRequested, Raises, SameSettings, SameInterrupt
  <2>4. Asks(Free(c), h, o) <=> Asks(c, h, o)
    BY <1>3 DEF Asks, SameSettings
  <2> QED
    BY <2>1, <2>2, <2>3, <2>4, <1>4 DEF IsAfter, SameReached
<1>7. \A d, end : IsAt(d, Free(c), end) <=> IsAt(d, c, end)
  BY <1>5, <1>6 DEF IsAt
<1> QED
  BY <1>2, <1>3, <1>4, <1>5, <1>7

\* Ticks for which the counter is held.
LEMMA AddTicksHeld ==
  ASSUME NEW c \in Counters, NEW n \in Nat, n <= c.delay
  PROVE  IsAfter(AddTicks(c, n), c, c.counter, c.delay - n, FALSE, FALSE)
<1> DEFINE d == [c EXCEPT !.delay = c.delay - n]
<1>1. c.delay \in 0 .. TARGET_RESET_DELAY /\ c.delay - n \in 0 .. TARGET_RESET_DELAY /\ c.delay \in Int
      /\ c.counter \in Nat /\ c.counter < TIMER_OVERFLOW /\ c.target \in Nat
  BY Constants DEF Counters, Values, TARGET_RESET_DELAY
<1>2. Min({c.delay, n}) = n
  BY <1>1, MinTwo
<1>3. Hold(c, n) = [c |-> d, count |-> 0]
  BY <1>2 DEF Hold
<1>4. d \in Counters
  BY <1>1 DEF Counters
<1>5. SameSettings(d, c)
  BY <1>1 DEF Counters, SameSettings
<1>6. SameInterrupt(d, c) /\ SameReached(d, c) /\ d.delay = c.delay - n /\ d.counter = c.counter
  BY <1>1 DEF Counters, SameInterrupt, SameReached
<1> HIDE DEF d
<1>7. Hold(c, n).c = d /\ Hold(c, n).count = 0 /\ d.counter + 0 = c.counter
  BY <1>1, <1>3, <1>6
<1>8. OnlyCounts(c, c.counter)
  BY <1>1 DEF OnlyCounts
<1>9. AddTicks(c, n) = [d EXCEPT !.counter = c.counter]
  BY <1>7, <1>8 DEF AddTicks
<1>10. [d EXCEPT !.counter = c.counter] = d
  BY <1>4, <1>6 DEF Counters
<1>11. IsAfter(d, c, c.counter, c.delay - n, FALSE, FALSE)
  BY <1>4, <1>5, <1>6 DEF IsAfter, Asks, SameReached
<1> QED
  BY <1>9, <1>10, <1>11

\* Ticks after which it is not.
LEMMA AddTicksFree ==
  ASSUME NEW c \in Counters, NEW n \in Nat, n >= c.delay
  PROVE  /\ Hold(c, n) = [c |-> Free(c), count |-> n - c.delay]
         /\ c.counter + (n - c.delay) \in Nat
         /\ OnlyCounts(c, c.counter + (n - c.delay)) =>
              AddTicks(c, n) = [Free(c) EXCEPT !.counter = c.counter + (n - c.delay)]
         /\ ~OnlyCounts(c, c.counter + (n - c.delay)) /\ c.irq_pulse_n =>
              AddTicks(c, n) = ToggleRounds([c |-> Free(c), count |-> n - c.delay]).c
         /\ ~OnlyCounts(c, c.counter + (n - c.delay)) /\ ~c.irq_pulse_n =>
              AddTicks(c, n) = CheckForIRQ([Free(c) EXCEPT !.counter = c.counter + (n - c.delay)], c.counter + 1)
<1>1. c.delay \in Nat /\ c.counter \in Nat /\ n - c.delay \in Nat
  BY Constants DEF Counters, Values, TARGET_RESET_DELAY
<1>2. Min({c.delay, n}) = c.delay
  BY <1>1, MinTwo
<1>3. c.delay - c.delay = 0
  BY <1>1
<1>4. Hold(c, n) = [c |-> Free(c), count |-> n - c.delay]
  BY <1>2, <1>3 DEF Hold, Free
<1> DEFINE k == n - c.delay
           end == c.counter + k
<1>5. Hold(c, n).c = Free(c) /\ Hold(c, n).count = k /\ Hold(c, n).c.counter + Hold(c, n).count = end
  BY <1>4, FreeIs
<1> HIDE DEF k
<1>6. AddTicks(c, n) = IF OnlyCounts(c, end) THEN [Free(c) EXCEPT !.counter = end]
                       ELSE IF c.irq_pulse_n THEN ToggleRounds(Hold(c, n)).c
                       ELSE CheckForIRQ([Free(c) EXCEPT !.counter = end], c.counter + 1)
  <2> HIDE DEF end
  <2> QED
    BY <1>5 DEF AddTicks
<1> QED
  BY <1>1, <1>4, <1>6 DEF k

\* As long as neither target nor overflow is reached.
LEMMA Counts ==
  ASSUME NEW c \in Counters, NEW end \in Nat, end >= c.counter, OnlyCounts(c, end)
  PROVE  IsAt([Free(c) EXCEPT !.counter = end], c, end)
<1> DEFINE f == Free(c)
           d == [f EXCEPT !.counter = end]
<1>1. /\ f \in Counters /\ f.delay = 0 /\ f.counter = c.counter
      /\ SameSettings(f, c) /\ SameInterrupt(f, c) /\ SameReached(f, c)
  BY FreeIs
<1>2. ~HitAt(c, end) /\ ~OverflowAt(c, end) /\ ValueAt(c, end) = end /\ DelayAt(c, end) = 0 /\ end < TIMER_OVERFLOW
  BY OnlyCountsIs
<1>3. end \in Values
  BY <1>2, Constants DEF Values
<1> HIDE DEF f
<1>4. d \in Counters
  BY <1>1, <1>3 DEF Counters
<1>5. SameSettings(d, f)
  BY <1>1, <1>3 DEF Counters, SameSettings
<1>6. SameInterrupt(d, f) /\ SameReached(d, f) /\ d.counter = end /\ d.delay = 0
  BY <1>1, <1>3 DEF Counters, SameInterrupt, SameReached
<1> HIDE DEF d
<1>7. SameSettings(d, c) /\ SameInterrupt(d, c) /\ SameReached(d, c)
  BY <1>1, <1>5, <1>6 DEF SameSettings, SameInterrupt, SameReached
<1>8. IsAt(d, c, end)
  BY <1>2, <1>4, <1>6, <1>7 DEF IsAt, IsAfter, Asks, SameReached
<1> QED
  BY <1>8 DEF d, f

\* Any number of ticks, if they only count or interrupt by pulses.
LEMMA AddTicksIs ==
  ASSUME NEW c \in Counters, NEW n \in Nat, n >= c.delay,
         OnlyCounts(c, c.counter + (n - c.delay)) \/ ~c.irq_pulse_n
  PROVE  IsAt(AddTicks(c, n), c, c.counter + (n - c.delay))
<1> DEFINE f == Free(c)
           end == c.counter + (n - c.delay)
<1>1. c.delay \in Nat /\ c.counter \in Nat /\ end \in Nat /\ end >= c.counter
  BY Constants DEF Counters, Values, TARGET_RESET_DELAY
<1>2. CASE OnlyCounts(c, end)
  <2>1. AddTicks(c, n) = [f EXCEPT !.counter = end]
    BY <1>2, AddTicksFree
  <2>2. IsAt([f EXCEPT !.counter = end], c, end)
    BY <1>1, <1>2, Counts
  <2> QED
    BY <2>1, <2>2
<1>3. CASE ~OnlyCounts(c, end)
  <2>1. AddTicks(c, n) = CheckForIRQ([f EXCEPT !.counter = end], c.counter + 1)
    BY <1>3, AddTicksFree
  <2>2. f \in Counters /\ f.delay = 0 /\ f.counter = c.counter
    BY FreeIs
  <2>3. ~OnlyCounts(f, end)
    BY <1>3, FreeIs
  <2>4. end # c.counter
    BY <1>1, <1>3, Constants DEF OnlyCounts, Counters, Values
  <2>5. end > f.counter
    BY <1>1, <2>2, <2>4
  <2> HIDE DEF end, f
  <2>6. IsAt(CheckForIRQ([f EXCEPT !.counter = end], f.counter + 1), f, end)
    BY <1>1, <2>2, <2>5, CheckForIRQIs
  <2>7. IsAt(CheckForIRQ([f EXCEPT !.counter = end], c.counter + 1), c, end)
    BY <2>2, <2>6, FreeIs DEF f
  <2> QED
    BY <2>1, <2>7 DEF end
<1> QED
  BY <1>2, <1>3

-----------------------------------------------------------------------------
(* The rounds of toggle mode *)

\* A set of natural numbers has a least one.
LEMMA LeastOf ==
  ASSUME NEW S \in SUBSET Nat, S # {}
  PROVE  \E m \in S : \A n \in S : m <= n
<1>1. IsWellFoundedOn(OpToRel(<, Nat), Nat)
  BY NatLessThanWellFounded, Zenon
<1>2. PICK m \in S : \A n \in S : ~ (<<n, m>> \in OpToRel(<, Nat))
  BY <1>1, WFMin, Zenon
<1>3. \A n \in S : ~(n < m)
  BY <1>2 DEF OpToRel
<1> QED
  BY <1>3

AreRounds(f, s, k) == f = [i \in 0 .. k |-> IF i = 0 THEN s ELSE ToggleRound(f[i - 1])]

\* There are as many rounds as one likes.
LEMMA RoundsExist ==
  ASSUME NEW s, NEW k \in Nat
  PROVE  \E f : AreRounds(f, s, k)
<1> DEFINE Bad == {n \in Nat : ~ \E f : AreRounds(f, s, n)}
<1> SUFFICES ASSUME Bad # {} PROVE FALSE
  OBVIOUS
<1>1. PICK m \in Bad : \A n \in Bad : m <= n
  BY LeastOf
<1>2. CASE m = 0
  <2> DEFINE f == [i \in 0 .. 0 |-> s]
  <2>1. AreRounds(f, s, 0)
    BY DEF AreRounds
  <2> QED
    BY <1>2, <2>1
<1>3. CASE m # 0
  <2>1. m - 1 \in Nat /\ m - 1 \notin Bad
    BY <1>1, <1>3
  <2>2. PICK g : AreRounds(g, s, m - 1)
    BY <2>1
  <2> DEFINE f == [i \in 0 .. m |-> IF i = 0 THEN s ELSE ToggleRound(g[i - 1])]
  <2>3. \A i \in 0 .. m - 1 : g[i] = IF i = 0 THEN s ELSE ToggleRound(g[i - 1])
    BY <2>2 DEF AreRounds
  <2>4. \A i \in 1 .. m : i - 1 \in 0 .. m - 1
    BY <2>1
  <2>5. \A i \in 1 .. m : f[i - 1] = g[i - 1]
    BY <2>1, <2>3, <2>4
  <2>7. \A i \in 0 .. m : (IF i = 0 THEN s ELSE ToggleRound(g[i - 1])) = IF i = 0 THEN s ELSE ToggleRound(f[i - 1])
    <3> HIDE DEF f
    <3>1. \A i \in 0 .. m : i # 0 => i \in 1 .. m
      BY <2>1
    <3> QED
      BY <2>5, <3>1
  <2>8. f = [i \in 0 .. m |-> IF i = 0 THEN s ELSE ToggleRound(g[i - 1])]
    OBVIOUS
  <2> HIDE DEF f
  <2>6. AreRounds(f, s, m)
    BY <2>7, <2>8, Zenon DEF AreRounds
  <2> QED
    BY <2>6
<1> QED
  BY <1>2, <1>3

\* The loop is its rounds.
LEMMA ToggleRoundsIs ==
  ASSUME NEW s, s.count \in Nat
  PROVE  \E r : /\ r[0] = s /\ \A i \in 1 .. s.count : r[i] = ToggleRound(r[i - 1])
                /\ ToggleRounds(s) = r[s.count]
<1> DEFINE r == CHOOSE f : AreRounds(f, s, s.count)
<1>1. AreRounds(r, s, s.count)
  BY RoundsExist
<1>2. ToggleRounds(s) = r[s.count]
  BY DEF ToggleRounds, AreRounds
<1> HIDE DEF r
<1>3. r[0] = s /\ \A i \in 1 .. s.count : r[i] = ToggleRound(r[i - 1])
  BY <1>1 DEF AreRounds
<1> QED
  BY <1>2, <1>3

\* What is left when a counter is held for some of the ticks, or all of them.
LEMMA HoldIs ==
  ASSUME NEW c \in Counters, NEW n \in Nat
  PROVE  /\ n >= c.delay => Hold(c, n) = [c |-> Free(c), count |-> n - c.delay]
         /\ n <= c.delay => Hold(c, n) = [c |-> [c EXCEPT !.delay = c.delay - n], count |-> 0]
<1>1. c.delay \in Int
  BY DEF Counters, TARGET_RESET_DELAY
<1>2. n <= c.delay => Min({c.delay, n}) = n
  BY <1>1, MinTwo
<1>3. n <= c.delay => Hold(c, n) = [c |-> [c EXCEPT !.delay = c.delay - n], count |-> 0]
  BY <1>1, <1>2 DEF Hold
<1> QED
  BY <1>3, AddTicksFree

\* How far a round goes.
RoundEnd(c) == IF c.counter < c.target THEN c.target ELSE TIMER_OVERFLOW

\* A round counts up to its end, or as far as there are ticks.
LEMMA RoundIs ==
  ASSUME NEW s, s.c \in Counters, s.c.delay = 0, s.count \in Nat \ {0},
         NEW add, add = IF RoundEnd(s.c) - s.c.counter <= s.count THEN RoundEnd(s.c) - s.c.counter ELSE s.count
  PROVE  \E b : /\ IsAt(b, s.c, s.c.counter + add)
                /\ ToggleRound(s) = Hold(b, s.count - add)
<1> DEFINE c == s.c
           b == CheckForIRQ([c EXCEPT !.counter = c.counter + add], c.counter + 1)
<1>1. c.counter \in Nat /\ c.target \in Nat /\ c.target < TIMER_OVERFLOW /\ c.counter < TIMER_OVERFLOW
      /\ TIMER_OVERFLOW \in Nat /\ s.count \in Nat /\ s.count > 0
  BY Constants DEF Counters, Values
<1>2. RoundEnd(c) \in Nat /\ RoundEnd(c) > c.counter
  BY <1>1 DEF RoundEnd
<1>3. add = Min({RoundEnd(c) - c.counter, s.count})
  BY <1>1, <1>2, MinTwo
<1>4. add \in Nat /\ add > 0
  BY <1>1, <1>2
<1>5. ToggleRound(s) = Hold(b, s.count - add)
  BY <1>1, <1>3 DEF ToggleRound, RoundEnd
<1>6. c.counter + add \in Nat /\ c.counter + add > c.counter
  BY <1>1, <1>4
<1> HIDE DEF c
<1> DEFINE end == c.counter + add
<1>7. c \in Counters /\ c.delay = 0 /\ end \in Nat /\ end > c.counter
  BY <1>6 DEF c
<1> HIDE DEF end
<1>8. IsAt(CheckForIRQ([c EXCEPT !.counter = end], c.counter + 1), c, end)
  BY <1>7, CheckForIRQIs
<1> QED
  BY <1>5, <1>8 DEF end, c

\* The last round, which counts all that is left.
LEMMA ShortRound ==
  ASSUME NEW s, s.c \in Counters, s.c.delay = 0, s.count \in Nat \ {0}, s.count <= RoundEnd(s.c) - s.c.counter
  PROVE  IsAt(ToggleRound(s).c, s.c, s.c.counter + s.count) /\ ToggleRound(s).count = 0
<1> DEFINE c == s.c
           k == s.count
<1>1. c.counter \in Int /\ RoundEnd(c) \in Int
  BY Constants DEF Counters, Values, RoundEnd
<1>2. k = IF RoundEnd(c) - c.counter <= k THEN RoundEnd(c) - c.counter ELSE k
  BY <1>1
<1>3. PICK b : IsAt(b, c, c.counter + k) /\ ToggleRound(s) = Hold(b, k - k)
  BY <1>2, RoundIs
<1>4. k - k = 0 /\ b \in Counters
  BY <1>3 DEF IsAt, IsAfter
<1>5. b.delay \in Nat /\ b.delay - 0 = b.delay
  BY <1>4 DEF Counters, TARGET_RESET_DELAY
<1>6. Hold(b, 0) = [c |-> [b EXCEPT !.delay = b.delay - 0], count |-> 0]
  BY <1>4, <1>5, HoldIs
<1>7. [b EXCEPT !.delay = b.delay - 0] = b
  BY <1>4, <1>5 DEF Counters
<1> QED
  BY <1>3, <1>4, <1>6, <1>7

\* The external clock does not use the delay.
LEMMA AtTimer ==
  ASSUME NEW c \in Counters, NEW end \in Nat, NEW d, IsAt(d, c, end)
  PROVE  d \in Counters /\ (d.use_external_clock => d.delay = 0)
<1>1. Resetting(c, end) => Since(c, end) \in 0 .. c.target + Held(c) - 1
  BY AtTypes
<1>2. c.target \in Nat /\ Held(c) \in Nat
  BY Constants DEF Held, TARGET_RESET_DELAY, Counters, Values
<1>3. Resetting(c, end) => Since(c, end) >= 0
  BY <1>1, <1>2
<1>4. d.delay = DelayAt(c, end) /\ d \in Counters /\ (d.use_external_clock <=> c.use_external_clock)
  BY DEF IsAt, IsAfter, SameSettings
<1> QED
  BY <1>3, <1>4, <1>1, <1>2 DEF DelayAt, Held

\* Two runs of the loop, one with a tick more.
Lockstep(x, y) ==
  x.c = y.c /\ x.count \in Nat /\ y.count = x.count + 1 /\ x.c \in Counters /\ x.c.delay = 0

Finished(x, y) == x.count = 0 /\ y.count = 0 /\ x.c \in Counters /\ y.c = CountOne(x.c)

\* They go on together until the last tick.
LEMMA RoundsTogether ==
  ASSUME NEW x, NEW y, Lockstep(x, y)
  PROVE  /\ Lockstep(ToggleRound(x), ToggleRound(y)) \/ Finished(ToggleRound(x), ToggleRound(y))
         /\ x.count = 0 => Finished(ToggleRound(x), ToggleRound(y))
         /\ ToggleRound(x).count \in Nat /\ (x.count > 0 => ToggleRound(x).count < x.count)
<1> DEFINE c == x.c
           k == x.count
           a == RoundEnd(c) - c.counter
<1>1. c \in Counters /\ c.delay = 0 /\ y.c = c /\ y.count = k + 1 /\ k \in Nat /\ y.count \in Nat \ {0}
  BY DEF Lockstep
<1>2. c.counter \in Nat /\ c.target \in Nat /\ c.target < TIMER_OVERFLOW /\ c.counter < TIMER_OVERFLOW
      /\ TIMER_OVERFLOW \in Nat
  BY <1>1, Constants DEF Counters, Values
<1>3. a \in Nat /\ a > 0 /\ RoundEnd(c) \in Nat /\ RoundEnd(c) <= TIMER_OVERFLOW
  BY <1>2 DEF RoundEnd
<1> HIDE DEF a
<1>4. CASE k < a
  <2>1. PICK b : IsAt(b, c, c.counter + k) /\ ToggleRound(x).c = b /\ ToggleRound(x).count = 0
    <3>1. CASE k = 0
      <4>1. ToggleRound(x) = x
        BY <3>1 DEF ToggleRound
      <4>2. IsAt(c, c, c.counter)
        BY <1>1, AtCounter
      <4>3. c.counter + k = c.counter
        BY <1>2, <3>1
      <4> QED
        BY <3>1, <4>1, <4>2, <4>3
    <3>2. CASE k # 0
      <4>1. k \in Nat \ {0} /\ k <= RoundEnd(c) - c.counter
        BY <1>1, <1>3, <1>4, <3>2 DEF a
      <4> QED
        BY <1>1, <4>1, ShortRound
    <3> QED
      BY <3>1, <3>2
  <2>2. PICK e : IsAt(e, c, c.counter + (k + 1)) /\ ToggleRound(y).c = e /\ ToggleRound(y).count = 0
    <3>1. k + 1 <= RoundEnd(c) - c.counter
      BY <1>1, <1>3, <1>4 DEF a
    <3> QED
      BY <1>1, <3>1, ShortRound
  <2> DEFINE end == c.counter + k
  <2>3. end \in Nat /\ end >= c.counter /\ end + 1 = c.counter + (k + 1) /\ end < RoundEnd(c)
    BY <1>1, <1>2, <1>3, <1>4 DEF a
  <2>4. OnlyCounts(c, end)
    BY <2>3, <1>2 DEF OnlyCounts, RoundEnd
  <2>5. ~HitAt(c, end) /\ ~OverflowAt(c, end)
    BY <1>1, <2>3, <2>4, OnlyCountsIs
  <2>6. IsAt(CountOne(b), c, end + 1)
    BY <1>1, <2>1, <2>3, <2>5, OneOn
  <2>7. IsAt(e, c, end + 1)
    BY <2>2, <2>3
  <2>8. e = CountOne(b)
    <3>1. HitAt(c, end + 1) \in BOOLEAN /\ OverflowAt(c, end + 1) \in BOOLEAN
      BY <1>1, <2>3, AtTypes
    <3> HIDE DEF end, c
    <3> QED
      BY <1>1, <2>6, <2>7, <3>1, OneAfter DEF IsAt
  <2>9. b \in Counters
    BY <2>1 DEF IsAt, IsAfter
  <2> QED
    BY <1>1, <2>1, <2>2, <2>8, <2>9 DEF Finished
<1>5. CASE k >= a
  <2>1. k \in Nat \ {0} /\ k - a \in Nat /\ k - a < k /\ (k + 1) - a = (k - a) + 1
    BY <1>1, <1>3, <1>5
  <2>2. a = IF RoundEnd(c) - c.counter <= k THEN RoundEnd(c) - c.counter ELSE k
    BY <1>1, <1>3, <1>5 DEF a
  <2>3. a = IF RoundEnd(c) - c.counter <= k + 1 THEN RoundEnd(c) - c.counter ELSE k + 1
    BY <1>1, <1>3, <1>5 DEF a
  <2>4. PICK b : IsAt(b, c, c.counter + a) /\ ToggleRound(x) = Hold(b, k - a)
    BY <1>1, <2>1, <2>2, RoundIs
  <2>5. PICK e : IsAt(e, c, c.counter + a) /\ ToggleRound(y) = Hold(e, (k + 1) - a)
    BY <1>1, <2>3, RoundIs
  <2>6. e = b
    <3> DEFINE end == c.counter + a
    <3>1. end \in Nat
      BY <1>2, <1>3
    <3>2. HitAt(c, end) \in BOOLEAN /\ OverflowAt(c, end) \in BOOLEAN
      BY <1>1, <3>1, AtTypes
    <3>3. IsAt(b, c, end) /\ IsAt(e, c, end)
      BY <2>4, <2>5
    <3> HIDE DEF end, c
    <3> QED
      BY <1>1, <3>2, <3>3, OneAfter DEF IsAt
  <2>7. b \in Counters /\ b.delay \in Nat
    BY <2>4 DEF IsAt, IsAfter, Counters, TARGET_RESET_DELAY
  <2> DEFINE j == k - a
  <2>8. j \in Nat /\ j + 1 \in Nat /\ ToggleRound(x) = Hold(b, j) /\ ToggleRound(y) = Hold(b, j + 1) /\ j < k
    BY <2>1, <2>4, <2>5, <2>6
  <2> HIDE DEF j
  <2>9. CASE b.delay <= j
    <3>1. Hold(b, j) = [c |-> Free(b), count |-> j - b.delay]
      BY <2>7, <2>8, <2>9, HoldIs
    <3>2. Hold(b, j + 1) = [c |-> Free(b), count |-> (j + 1) - b.delay]
      BY <2>7, <2>8, <2>9, HoldIs
    <3>3. Free(b) \in Counters /\ Free(b).delay = 0
      BY <2>7, FreeIs
    <3>4. j - b.delay \in Nat /\ (j + 1) - b.delay = (j - b.delay) + 1 /\ j - b.delay < k
      BY <1>1, <2>7, <2>8, <2>9
    <3>5. Lockstep(ToggleRound(x), ToggleRound(y))
      BY <2>8, <3>1, <3>2, <3>3, <3>4 DEF Lockstep
    <3> QED
      BY <2>1, <2>8, <3>1, <3>4, <3>5
  <2>10. CASE b.delay > j
    <3> DEFINE d == [b EXCEPT !.delay = b.delay - j]
    <3>1. Hold(b, j) = [c |-> d, count |-> 0]
      BY <2>7, <2>8, <2>10, HoldIs
    <3>2. Hold(b, j + 1) = [c |-> [b EXCEPT !.delay = b.delay - (j + 1)], count |-> 0]
      BY <2>7, <2>8, <2>10, HoldIs
    <3>3. b.delay - j \in 0 .. TARGET_RESET_DELAY /\ b.delay - j > 0 /\ (b.delay - j) - 1 = b.delay - (j + 1)
      BY <2>7, <2>8, <2>10 DEF Counters, TARGET_RESET_DELAY
    <3>4. d \in Counters /\ d.delay = b.delay - j
      BY <2>7, <3>3 DEF Counters
    <3>5. CountOne(d) = [d EXCEPT !.delay = b.delay - (j + 1)]
      BY <3>3, <3>4 DEF CountOne
    <3>6. [d EXCEPT !.delay = b.delay - (j + 1)] = [b EXCEPT !.delay = b.delay - (j + 1)]
      BY <2>7 DEF Counters
    <3> HIDE DEF d
    <3>7. Finished(ToggleRound(x), ToggleRound(y))
      BY <2>8, <3>1, <3>2, <3>4, <3>5, <3>6 DEF Finished
    <3> QED
      BY <2>1, <2>8, <3>1, <3>7
  <2> QED
    BY <2>7, <2>8, <2>9, <2>10
<1> QED
  BY <1>1, <1>3, <1>4, <1>5

\* One tick more, one tick on.
LEMMA RoundsStep ==
  ASSUME NEW c \in Counters, c.delay = 0, NEW k \in Nat
  PROVE  /\ ToggleRounds([c |-> c, count |-> k]).c \in Counters
         /\ ToggleRounds([c |-> c, count |-> k + 1]).c = CountOne(ToggleRounds([c |-> c, count |-> k]).c)
<1> DEFINE x == [c |-> c, count |-> k]
           y == [c |-> c, count |-> k + 1]
<1>1. PICK r : r[0] = x /\ (\A i \in 1 .. k : r[i] = ToggleRound(r[i - 1])) /\ ToggleRounds(x) = r[k]
  BY ToggleRoundsIs
<1>2. PICK q : r[0] = x /\ q[0] = y /\ (\A i \in 1 .. k + 1 : q[i] = ToggleRound(q[i - 1])) /\ ToggleRounds(y) = q[k + 1]
  BY <1>1, ToggleRoundsIs
<1> DEFINE P(i) == /\ Lockstep(r[i], q[i]) \/ Finished(r[i], q[i])
                   /\ r[i].count \in Nat /\ r[i].count <= k - i
           Bad == {i \in 0 .. k : ~P(i)}
<1>3. P(0)
  <2>1. Lockstep(x, y) /\ x.count \in Nat /\ x.count <= k - 0
    BY DEF Lockstep
  <2> QED
    BY <1>2, <2>1
<1>4. ASSUME NEW i \in 0 .. k, P(i) PROVE r[i].count = 0 => ToggleRound(r[i]) = r[i]
  BY DEF ToggleRound
<1>5. ASSUME NEW i \in 0 .. k, i # 0, P(i - 1) PROVE P(i)
  <2>1. i \in 1 .. k /\ i \in 1 .. k + 1 /\ i - 1 \in 0 .. k
    BY <1>5
  <2>2. r[i] = ToggleRound(r[i - 1]) /\ q[i] = ToggleRound(q[i - 1])
    BY <1>1, <1>2, <2>1
  <2>3. CASE Finished(r[i - 1], q[i - 1])
    <3>1. r[i] = r[i - 1] /\ q[i] = q[i - 1]
      BY <2>2, <2>3 DEF ToggleRound, Finished
    <3>2. r[i].count = 0 /\ 0 <= k - i
      BY <2>3, <3>1 DEF Finished
    <3> QED
      BY <2>3, <3>1, <3>2
  <2>4. CASE Lockstep(r[i - 1], q[i - 1])
    <3>1. /\ Lockstep(r[i], q[i]) \/ Finished(r[i], q[i])
          /\ r[i - 1].count = 0 => Finished(r[i], q[i])
          /\ r[i].count \in Nat /\ (r[i - 1].count > 0 => r[i].count < r[i - 1].count)
      BY <2>2, <2>4, RoundsTogether
    <3>2. r[i].count <= k - i
      BY <3>1, <1>5 DEF Finished
    <3> QED
      BY <3>1, <3>2
  <2> QED
    BY <1>5, <2>3, <2>4
<1>6. \A i \in 0 .. k : P(i)
  <2> HIDE DEF P
  <2> SUFFICES ASSUME Bad # {} PROVE FALSE
    OBVIOUS
  <2>1. Bad \in SUBSET Nat
    OBVIOUS
  <2>2. PICK m \in Bad : \A n \in Bad : m <= n
    BY <2>1, LeastOf
  <2>3. m # 0
    BY <1>3, <2>2
  <2>4. m - 1 \in 0 .. k /\ m - 1 \notin Bad
    BY <2>2, <2>3
  <2> QED
    BY <1>5, <2>2, <2>3, <2>4
<1>7. k \in 0 .. k /\ k - k = 0 /\ k + 1 \in 1 .. k + 1 /\ (k + 1) - 1 = k
  OBVIOUS
<1>8. P(k) /\ r[k].count = 0
  <2>1. P(k)
    BY <1>6, <1>7
  <2> QED
    BY <2>1, <1>7
<1>9. q[k + 1] = ToggleRound(q[k])
  BY <1>2, <1>7
<1>10. Finished(r[k], q[k + 1])
  <2>1. CASE Finished(r[k], q[k])
    BY <1>9, <2>1 DEF Finished, ToggleRound
  <2>2. CASE Lockstep(r[k], q[k])
    <3>1. Finished(ToggleRound(r[k]), ToggleRound(q[k]))
      BY <1>8, <2>2, RoundsTogether
    <3>2. ToggleRound(r[k]) = r[k]
      BY <1>8 DEF ToggleRound
    <3> QED
      BY <1>9, <3>1, <3>2
  <2> QED
    BY <1>8, <2>1, <2>2
<1> QED
  BY <1>1, <1>2, <1>10 DEF Finished

\* A loop that is not needed is not wrong.
LEMMA RoundsOnlyCount ==
  ASSUME NEW c \in Counters, c.delay = 0, NEW k \in Nat, OnlyCounts(c, c.counter + k)
  PROVE  IsAt(ToggleRounds([c |-> c, count |-> k]).c, c, c.counter + k)
<1> DEFINE s == [c |-> c, count |-> k]
<1>1. PICK r : r[0] = s /\ (\A i \in 1 .. k : r[i] = ToggleRound(r[i - 1])) /\ ToggleRounds(s) = r[k]
  BY ToggleRoundsIs
<1>2. c.counter \in Nat /\ c.target \in Nat /\ c.target < TIMER_OVERFLOW /\ c.counter < TIMER_OVERFLOW
      /\ TIMER_OVERFLOW \in Nat
  BY Constants DEF Counters, Values
<1>3. CASE k = 0
  <2>1. ToggleRounds(s).c = c /\ c.counter + k = c.counter
    BY <1>1, <1>2, <1>3
  <2> QED
    BY <2>1, AtCounter
<1>4. CASE k # 0
  <2>1. k \in Nat \ {0} /\ k <= RoundEnd(c) - c.counter
    BY <1>2, <1>4 DEF RoundEnd, OnlyCounts
  <2>2. s.c = c /\ s.count = k
    OBVIOUS
  <2> HIDE DEF s
  <2> DEFINE b == ToggleRound(s)
  <2>3. IsAt(b.c, c, c.counter + k) /\ b.count = 0
    BY <2>1, <2>2, ShortRound
  <2> HIDE DEF b
  <2>4. ToggleRound(b) = b
    BY <2>3 DEF ToggleRound
  <2> DEFINE Bad == {i \in 1 .. k : r[i] # b}
  <2>5. Bad = {}
    <3> SUFFICES ASSUME Bad # {} PROVE FALSE
      OBVIOUS
    <3>4. Bad \in SUBSET Nat
      OBVIOUS
    <3>1. PICK m \in Bad : \A n \in Bad : m <= n
      BY <3>4, LeastOf
    <3>2. CASE m = 1
      <4>1. r[1] = ToggleRound(r[1 - 1]) /\ 1 - 1 = 0
        BY <1>1, <3>1, <3>2
      <4> QED
        BY <1>1, <3>1, <3>2, <4>1 DEF b
    <3>3. CASE m # 1
      <4>1. m - 1 \in 1 .. k /\ m - 1 \notin Bad
        BY <3>1, <3>3
      <4>2. r[m] = ToggleRound(r[m - 1]) /\ r[m - 1] = b
        BY <1>1, <3>1, <4>1
      <4> QED
        BY <2>4, <3>1, <4>2
    <3> QED
      BY <3>2, <3>3
  <2>6. k \in 1 .. k
    BY <2>1
  <2>7. r[k] = b
    BY <2>5, <2>6
  <2> QED
    BY <1>1, <2>3, <2>7 DEF s
<1> QED
  BY <1>3, <1>4

\* No ticks change nothing.
LEMMA AddNone ==
  ASSUME NEW c \in Counters
  PROVE  AddTicks(c, 0) = c
<1>1. c.delay \in Nat /\ c.delay - 0 = c.delay
  BY DEF Counters, TARGET_RESET_DELAY
<1>2. IsAfter(AddTicks(c, 0), c, c.counter, c.delay, FALSE, FALSE)
  <2>1. 0 \in Nat /\ 0 <= c.delay
    BY <1>1
  <2>2. IsAfter(AddTicks(c, 0), c, c.counter, c.delay - 0, FALSE, FALSE)
    BY <2>1, AddTicksHeld
  <2> QED
    BY <1>1, <2>2
<1>3. SameSettings(c, c) /\ SameInterrupt(c, c)
  BY DEF SameSettings, SameInterrupt
<1>4. IsAfter(c, c, c.counter, c.delay, FALSE, FALSE)
  BY <1>3 DEF IsAfter, Asks
<1> QED
  BY <1>2, <1>4, OneAfter

\* The console's tick leaves a counter that is one of these.
LEMMA CountOneTimer ==
  ASSUME NEW c, Timer(c)
  PROVE  Timer(CountOne(c)) /\ SameSettings(CountOne(c), c)
<1>1. c.delay \in Nat /\ c.counter + 1 \in Nat /\ c \in Counters
  BY Constants DEF Counters, TARGET_RESET_DELAY, Values, Timer
<1>2. CASE c.delay = 0
  <2>1. IsAt(CountOne(c), c, c.counter + 1)
    BY <1>1, <1>2, CountOneIs
  <2> QED
    BY <1>1, <2>1, AtTimer DEF IsAt, IsAfter, Timer
<1>3. CASE c.delay > 0
  <2>2. ~c.use_external_clock
    BY <1>1, <1>3 DEF Timer
  <2>1. IsAfter(CountOne(c), c, c.counter, c.delay - 1, FALSE, FALSE)
    BY <1>1, <1>3, <2>2, CountOneIs
  <2> QED
    BY <2>1, <2>2 DEF IsAfter, Timer, SameSettings
<1> QED
  BY <1>1, <1>2, <1>3

\* The emulator's n + 1 ticks are its n ticks and one of the console's.
LEMMA AddOneMore ==
  ASSUME NEW c, Timer(c), NEW n \in Nat
  PROVE  AddTicks(c, n + 1) = CountOne(AddTicks(c, n))
<1> DEFINE A == AddTicks(c, n)
           B == AddTicks(c, n + 1)
           k == n - c.delay
<1>1. c \in Counters /\ c.delay \in Nat /\ c.counter \in Nat /\ n + 1 \in Nat
      /\ c.target \in Nat /\ c.target < TIMER_OVERFLOW /\ c.counter < TIMER_OVERFLOW /\ TIMER_OVERFLOW \in Nat
  BY Constants DEF Counters, TARGET_RESET_DELAY, Values, Timer
<1>2. CASE n < c.delay
  <2> DEFINE z == FALSE
  <2>0. n <= c.delay /\ n + 1 <= c.delay
    BY <1>1, <1>2
  <2>1. IsAfter(A, c, c.counter, c.delay - n, z, z)
    BY <1>1, <2>0, AddTicksHeld
  <2>2. IsAfter(B, c, c.counter, c.delay - (n + 1), z, z)
    BY <1>1, <2>0, AddTicksHeld
  <2>3. A \in Counters /\ A.counter = c.counter /\ A.delay = c.delay - n /\ (A.use_external_clock <=> c.use_external_clock)
    BY <2>1 DEF IsAfter, SameSettings
  <2>4. ~c.use_external_clock /\ A.delay > 0 /\ A.delay - 1 = c.delay - (n + 1)
    BY <1>1, <1>2, <2>3 DEF Timer
  <2> HIDE DEF A, B
  <2>5. IsAfter(CountOne(A), A, c.counter, c.delay - (n + 1), z, z)
    BY <2>3, <2>4, CountOneIs
  <2>6. z \in BOOLEAN /\ (z \/ z) = z /\ ~(z \/ z)
    OBVIOUS
  <2> DEFINE y == c.delay - (n + 1)
             w == c.delay - n
  <2>7. IsAfter(A, c, c.counter, w, z, z) /\ IsAfter(CountOne(A), A, c.counter, y, z, z) /\ IsAfter(B, c, c.counter, y, z, z)
    BY <2>1, <2>2, <2>5
  <2> HIDE DEF z, y, w
  <2>8. IsAfter(CountOne(A), c, c.counter, y, z \/ z, z \/ z)
    BY <1>1, <2>6, <2>7, AfterTwice
  <2>9. IsAfter(CountOne(A), c, c.counter, y, z, z)
    BY <2>6, <2>8
  <2>10. B = CountOne(A)
    BY <1>1, <2>6, <2>7, <2>9, OneAfter
  <2> QED
    BY <2>10 DEF A, B
<1>3. CASE n >= c.delay
  <2> DEFINE end == c.counter + k
             f == Free(c)
  <2>1. k \in Nat /\ (n + 1) - c.delay = k + 1 /\ n + 1 >= c.delay /\ end \in Nat /\ end + 1 \in Nat
        /\ end >= c.counter /\ c.counter + (k + 1) = end + 1
    BY <1>1, <1>3
  <2>2. f \in Counters /\ f.delay = 0 /\ f.counter = c.counter
    BY <1>1, FreeIs
  <2> HIDE DEF A, B
  <2>3. CASE OnlyCounts(c, end) \/ ~c.irq_pulse_n
    <3>1. IsAt(A, c, end)
      BY <1>1, <1>3, <2>3, AddTicksIs DEF A
    <3>2. ~c.irq_pulse_n \/ ~(HitAt(c, end) \/ OverflowAt(c, end))
      BY <1>1, <2>1, <2>3, OnlyCountsIs
    <3>3. IsAt(CountOne(A), c, end + 1)
      <4> HIDE DEF end
      <4> QED
        BY <1>1, <2>1, <3>1, <3>2, OneOn
    <3>4. CASE OnlyCounts(c, end + 1) \/ ~c.irq_pulse_n
      <4>1. IsAt(B, c, end + 1)
        BY <1>1, <2>1, <3>4, AddTicksIs DEF B
      <4>2. HitAt(c, end + 1) \in BOOLEAN /\ OverflowAt(c, end + 1) \in BOOLEAN
        BY <1>1, <2>1, AtTypes
      <4>3. B = CountOne(A)
        <5> HIDE DEF end
        <5> QED
          BY <1>1, <3>3, <4>1, <4>2, OneAfter DEF IsAt
      <4> QED
        BY <4>3 DEF A, B
    <3>5. CASE ~OnlyCounts(c, end + 1) /\ c.irq_pulse_n
      <4>1. B = ToggleRounds([c |-> f, count |-> k + 1]).c
        BY <1>1, <2>1, <3>5, AddTicksFree DEF B
      <4>2. ToggleRounds([c |-> f, count |-> k + 1]).c = CountOne(ToggleRounds([c |-> f, count |-> k]).c)
        BY <2>1, <2>2, RoundsStep
      <4>3. OnlyCounts(f, f.counter + k)
        BY <1>1, <2>2, <2>3, <3>5, FreeIs
      <4>4. IsAt(ToggleRounds([c |-> f, count |-> k]).c, f, f.counter + k)
        BY <2>1, <2>2, <4>3, RoundsOnlyCount
      <4>5. IsAt(ToggleRounds([c |-> f, count |-> k]).c, c, end)
        BY <1>1, <2>2, <4>4, FreeIs
      <4>6. HitAt(c, end) \in BOOLEAN /\ OverflowAt(c, end) \in BOOLEAN
        BY <1>1, <2>1, AtTypes
      <4> DEFINE D == ToggleRounds([c |-> f, count |-> k]).c
      <4>7. D = A
        <5>1. IsAt(D, c, end)
          BY <4>5
        <5> HIDE DEF end, D
        <5> QED
          BY <1>1, <3>1, <4>6, <5>1, OneAfter DEF IsAt
      <4> QED
        BY <4>1, <4>2, <4>7 DEF A, B
    <3> QED
      BY <3>4, <3>5
  <2>4. CASE ~OnlyCounts(c, end) /\ c.irq_pulse_n
    <3>1. ~OnlyCounts(c, end + 1)
      BY <1>1, <2>1, <2>4 DEF OnlyCounts
    <3>2. A = ToggleRounds([c |-> f, count |-> k]).c
      BY <1>1, <1>3, <2>4, AddTicksFree DEF A
    <3>3. B = ToggleRounds([c |-> f, count |-> k + 1]).c
      BY <1>1, <2>1, <2>4, <3>1, AddTicksFree DEF B
    <3>4. ToggleRounds([c |-> f, count |-> k + 1]).c = CountOne(ToggleRounds([c |-> f, count |-> k]).c)
      BY <2>1, <2>2, RoundsStep
    <3> QED
      BY <3>2, <3>3, <3>4 DEF A, B
  <2> QED
    BY <2>3, <2>4
<1> QED
  BY <1>1, <1>2, <1>3

\* Induction, for a set of numbers.
LEMMA Induction ==
  ASSUME NEW S \in SUBSET Nat, 0 \in S, \A n \in S : n + 1 \in S
  PROVE  S = Nat
<1> SUFFICES ASSUME Nat \ S # {} PROVE FALSE
  OBVIOUS
<1>1. PICK m \in Nat \ S : \A n \in Nat \ S : m <= n
  BY LeastOf
<1>2. m - 1 \in Nat /\ m - 1 \notin Nat \ S
  BY <1>1
<1> QED
  BY <1>1, <1>2

\* Ticks leave the settings alone.
LEMMA AddTicksTimer ==
  ASSUME NEW c, Timer(c)
  PROVE  \A n \in Nat : Timer(AddTicks(c, n)) /\ SameSettings(AddTicks(c, n), c)
<1> DEFINE S == {n \in Nat : Timer(AddTicks(c, n)) /\ SameSettings(AddTicks(c, n), c)}
<1>1. 0 \in S
  BY AddNone DEF Timer, SameSettings
<1>2. ASSUME NEW n \in S PROVE n + 1 \in S
  <2>1. AddTicks(c, n + 1) = CountOne(AddTicks(c, n)) /\ n + 1 \in Nat
    BY <1>2, AddOneMore
  <2>2. Timer(AddTicks(c, n + 1)) /\ SameSettings(AddTicks(c, n + 1), AddTicks(c, n))
    BY <1>2, <2>1, CountOneTimer
  <2>3. SameSettings(AddTicks(c, n + 1), c)
    BY <1>2, <2>2 DEF SameSettings
  <2> QED
    BY <2>1, <2>2, <2>3
<1>3. S = Nat
  BY <1>1, <1>2, Induction
<1> QED
  BY <1>3

\* Two counters that are the same but for the gate, the carries and the
\* interrupt's status bit.
Alike(d, c) ==
  /\ d.target = c.target /\ d.counter = c.counter /\ d.delay = c.delay
  /\ (d.counting_enabled <=> c.counting_enabled)
  /\ (d.sync_enable <=> c.sync_enable) /\ d.sync_mode = c.sync_mode
  /\ (d.reset_at_target <=> c.reset_at_target) /\ (d.irq_at_target <=> c.irq_at_target)
  /\ (d.irq_on_overflow <=> c.irq_on_overflow) /\ (d.irq_repeat <=> c.irq_repeat)
  /\ (d.irq_pulse_n <=> c.irq_pulse_n) /\ (d.use_external_clock <=> c.use_external_clock)
  /\ SameReached(d, c)
  /\ (d.irq_done <=> c.irq_done) /\ (d.interrupt_request_n <=> c.interrupt_request_n)
  /\ (d.line <=> c.line)

\* They stay so.
LEMMA AfterAlike ==
  ASSUME NEW c, NEW d, Alike(d, c), NEW x, NEW y,
         NEW value, NEW delay, NEW hit \in BOOLEAN, NEW overflow \in BOOLEAN,
         IsAfter(x, c, value, delay, hit, overflow), IsAfter(y, d, value, delay, hit, overflow)
  PROVE  Alike(y, x) /\ ((d.irq <=> c.irq) => (y.irq <=> x.irq))
<1>1. Asks(d, hit, overflow) <=> Asks(c, hit, overflow)
  BY DEF Asks, Alike
<1>2. /\ y.target = x.target /\ y.counter = x.counter /\ y.delay = x.delay
      /\ (y.counting_enabled <=> x.counting_enabled)
      /\ (y.sync_enable <=> x.sync_enable) /\ y.sync_mode = x.sync_mode
      /\ (y.reset_at_target <=> x.reset_at_target) /\ (y.irq_at_target <=> x.irq_at_target)
      /\ (y.irq_on_overflow <=> x.irq_on_overflow) /\ (y.irq_repeat <=> x.irq_repeat)
      /\ (y.irq_pulse_n <=> x.irq_pulse_n) /\ (y.use_external_clock <=> x.use_external_clock)
  BY DEF IsAfter, SameSettings, Alike
<1>3. SameReached(y, x)
  BY DEF IsAfter, SameReached, Alike
<1>4. CASE Asks(c, hit, overflow)
  <2>1. IsRequested(x, c) /\ IsRequested(y, d)
    BY <1>1, <1>4 DEF IsAfter
  <2>2. Raises(d) <=> Raises(c)
    BY DEF Alike, Raises
  <2>3. /\ (y.irq_done <=> x.irq_done) /\ (y.interrupt_request_n <=> x.interrupt_request_n)
        /\ (y.line <=> x.line) /\ ((d.irq <=> c.irq) => (y.irq <=> x.irq))
    BY <2>1, <2>2 DEF IsRequested, Alike
  <2> QED
    BY <1>2, <1>3, <2>3 DEF Alike
<1>5. CASE ~Asks(c, hit, overflow)
  <2>1. SameInterrupt(x, c) /\ SameInterrupt(y, d)
    BY <1>1, <1>5 DEF IsAfter
  <2>2. /\ (y.irq_done <=> x.irq_done) /\ (y.interrupt_request_n <=> x.interrupt_request_n)
        /\ (y.line <=> x.line) /\ ((d.irq <=> c.irq) => (y.irq <=> x.irq))
    BY <2>1 DEF SameInterrupt, Alike
  <2> QED
    BY <1>2, <1>3, <2>2 DEF Alike
<1> QED
  BY <1>4, <1>5

\* They tick alike.
LEMMA CountOneAlike ==
  ASSUME NEW c, NEW d, Timer(c), Timer(d), Alike(d, c)
  PROVE  Alike(CountOne(d), CountOne(c)) /\ ((d.irq <=> c.irq) => (CountOne(d).irq <=> CountOne(c).irq))
<1> DEFINE x == CountOne(c)
           y == CountOne(d)
<1>1. c.delay \in Nat /\ c.counter + 1 \in Nat /\ c \in Counters /\ d \in Counters
      /\ d.delay = c.delay /\ d.counter = c.counter
      /\ (c.use_external_clock => c.delay = 0) /\ (d.use_external_clock => d.delay = 0)
  BY Constants DEF Counters, TARGET_RESET_DELAY, Values, Timer, Alike
<1>2. CASE c.delay = 0
  <2> DEFINE end == c.counter + 1
  <2>1. IsAt(x, c, end) /\ IsAt(y, d, end)
    BY <1>1, <1>2, CountOneIs
  <2>2. d.target = c.target /\ (d.reset_at_target <=> c.reset_at_target)
        /\ (d.use_external_clock <=> c.use_external_clock)
    BY DEF Alike
  <2> HIDE DEF x, y, end
  <2>3. Goal(d) = Goal(c) /\ (Resets(d) <=> Resets(c)) /\ Held(d) = Held(c)
    BY <1>1, <2>2 DEF Goal, Resets, Held
  <2>4. (Resetting(d, end) <=> Resetting(c, end)) /\ Since(d, end) = Since(c, end)
    BY <2>2, <2>3 DEF Resetting, Since
  <2>5. ValueAt(d, end) = ValueAt(c, end)
    BY <2>2, <2>3, <2>4 DEF ValueAt
  <2>6. DelayAt(d, end) = DelayAt(c, end)
    BY <2>2, <2>3, <2>4 DEF DelayAt
  <2>7. HitAt(d, end) = HitAt(c, end)
    BY <2>3 DEF HitAt
  <2>8. OverflowAt(d, end) = OverflowAt(c, end)
    BY <1>1, <2>2, <2>4 DEF OverflowAt
  <2>9. HitAt(c, end) \in BOOLEAN /\ OverflowAt(c, end) \in BOOLEAN
    BY <1>1, AtTypes DEF end
  <2> DEFINE v == ValueAt(c, end)
             z == DelayAt(c, end)
             h == HitAt(c, end)
             o == OverflowAt(c, end)
  <2>10. IsAfter(x, c, v, z, h, o) /\ IsAfter(y, d, v, z, h, o) /\ h \in BOOLEAN /\ o \in BOOLEAN
    BY <2>1, <2>5, <2>6, <2>7, <2>8, <2>9 DEF IsAt
  <2> HIDE DEF v, z, h, o
  <2> QED
    BY <2>10, AfterAlike DEF x, y
<1>3. CASE c.delay > 0
  <2> DEFINE n == FALSE
             v == c.counter
             z == c.delay - 1
  <2>1. IsAfter(x, c, v, z, n, n)
    BY <1>1, <1>3, CountOneIs
  <2>2. IsAfter(y, d, v, z, n, n)
    BY <1>1, <1>3, CountOneIs
  <2>3. n \in BOOLEAN
    OBVIOUS
  <2> HIDE DEF x, y, n, v, z
  <2> QED
    BY <2>1, <2>2, <2>3, AfterAlike DEF x, y
<1> QED
  BY <1>1, <1>2, <1>3

\* Any number of times.
LEMMA AddTicksAlike ==
  ASSUME NEW c, NEW d, Timer(c), Timer(d), Alike(d, c)
  PROVE  \A n \in Nat : /\ Alike(AddTicks(d, n), AddTicks(c, n))
                        /\ (d.irq <=> c.irq) => (AddTicks(d, n).irq <=> AddTicks(c, n).irq)
<1> DEFINE P(n) == /\ Alike(AddTicks(d, n), AddTicks(c, n))
                   /\ (d.irq <=> c.irq) => (AddTicks(d, n).irq <=> AddTicks(c, n).irq)
           S == {n \in Nat : P(n)}
<1>1. 0 \in S
  BY AddNone DEF Timer
<1>2. ASSUME NEW n \in S PROVE n + 1 \in S
  <2>1. AddTicks(c, n + 1) = CountOne(AddTicks(c, n)) /\ AddTicks(d, n + 1) = CountOne(AddTicks(d, n)) /\ n + 1 \in Nat
    BY <1>2, AddOneMore
  <2>2. Timer(AddTicks(c, n)) /\ Timer(AddTicks(d, n))
    BY <1>2, AddTicksTimer
  <2>3. P(n + 1)
    BY <1>2, <2>1, <2>2, CountOneAlike
  <2> QED
    BY <2>1, <2>3
<1>3. S = Nat
  <2> HIDE DEF P
  <2> QED
    BY <1>1, <1>2, Induction
<1> QED
  BY <1>3

\* Counters that are alike, and have the same gate and so on, are the same.
LEMMA SameAlike ==
  ASSUME NEW c \in Counters, NEW d \in Counters, Alike(d, c), d.gate <=> c.gate, d.carry = c.carry, d.div = c.div,
         d.irq <=> c.irq
  PROVE  d = c
<1>1. SameSettings(d, c) /\ SameInterrupt(d, c) /\ SameReached(d, c) /\ d.counter = c.counter /\ d.delay = c.delay
  BY DEF SameSettings, SameInterrupt, Alike
<1> QED
  BY <1>1, SameCounter

-----------------------------------------------------------------------------
(* Ticks of the system clock, and of the CPU *)

\* AddSysClkTicks, for ticks that are not the CPU's.
AddClocks(c, n) ==
  IF ~c.counting_enabled THEN c
  ELSE IF ~c.use_external_clock THEN AddTicks(c, n)
  ELSE AddTicks([c EXCEPT !.div = (n + c.div) % Divider], (n + c.div) \div Divider)

\* A change of the divider's carry alone.
LEMMA DivIs ==
  ASSUME NEW c, Timer(c), NEW v \in 0 .. Divider - 1
  PROVE  LET d == [c EXCEPT !.div = v]
         IN  /\ Timer(d) /\ Alike(d, c) /\ d.div = v /\ d.carry = c.carry /\ (d.gate <=> c.gate) /\ (d.irq <=> c.irq)
             /\ d = [d EXCEPT !.div = v]
<1> DEFINE d == [c EXCEPT !.div = v]
<1>1. c \in Counters
  BY DEF Timer
<1>2. d \in Counters
  BY <1>1 DEF Counters
<1>3. Alike(d, c) /\ d.div = v /\ d.carry = c.carry /\ (d.gate <=> c.gate) /\ (d.irq <=> c.irq)
  BY <1>1 DEF Counters, Alike, SameReached
<1>4. d = [d EXCEPT !.div = v]
  BY <1>1 DEF Counters
<1> HIDE DEF d
<1>5. Timer(d)
  BY <1>2, <1>3 DEF Timer, Alike
<1> QED
  BY <1>3, <1>4, <1>5 DEF d

\* One of the CPU's carry.
LEMMA CarryIs ==
  ASSUME NEW c, Timer(c), NEW v \in Nat
  PROVE  LET d == [c EXCEPT !.carry = v]
         IN  /\ Timer(d) /\ Alike(d, c) /\ d.carry = v /\ d.div = c.div /\ (d.gate <=> c.gate) /\ (d.irq <=> c.irq)
<1> DEFINE d == [c EXCEPT !.carry = v]
<1>1. c \in Counters
  BY DEF Timer
<1>2. d \in Counters
  BY <1>1 DEF Counters
<1>3. Alike(d, c) /\ d.carry = v /\ d.div = c.div /\ (d.gate <=> c.gate) /\ (d.irq <=> c.irq)
  BY <1>1 DEF Counters, Alike, SameReached
<1> HIDE DEF d
<1>5. Timer(d)
  BY <1>2, <1>3 DEF Timer, Alike
<1> QED
  BY <1>3, <1>5 DEF d

\* Ticks and the divider's carry do not mind each other.
LEMMA AddTicksDiv ==
  ASSUME NEW c, Timer(c), NEW v \in 0 .. Divider - 1, NEW w \in 0 .. Divider - 1, NEW n \in Nat
  PROVE  [AddTicks([c EXCEPT !.div = w], n) EXCEPT !.div = v] = AddTicks([c EXCEPT !.div = v], n)
<1> DEFINE d == [c EXCEPT !.div = w]
           e == [c EXCEPT !.div = v]
           x == AddTicks(d, n)
           y == AddTicks(e, n)
           z == [x EXCEPT !.div = v]
<1>1. Timer(d) /\ Alike(d, c) /\ d.carry = c.carry /\ (d.gate <=> c.gate) /\ (d.irq <=> c.irq)
  BY DivIs
<1>2. Timer(e) /\ Alike(e, c) /\ e.div = v /\ e.carry = c.carry /\ (e.gate <=> c.gate) /\ (e.irq <=> c.irq)
  BY DivIs
<1> HIDE DEF d, e
<1>3. Alike(e, d) /\ e.carry = d.carry /\ (e.gate <=> d.gate) /\ (e.irq <=> d.irq)
  BY <1>1, <1>2 DEF Alike, SameReached
<1>4. Timer(x) /\ SameSettings(x, d) /\ Timer(y) /\ SameSettings(y, e)
  BY <1>1, <1>2, AddTicksTimer
<1>5. Alike(y, x) /\ (y.irq <=> x.irq)
  BY <1>1, <1>2, <1>3, AddTicksAlike
<1> HIDE DEF x, y
<1>6. Timer(z) /\ Alike(z, x) /\ z.div = v /\ z.carry = x.carry /\ (z.gate <=> x.gate) /\ (z.irq <=> x.irq)
  BY <1>4, DivIs
<1> HIDE DEF z
<1>7. Alike(y, z) /\ (y.irq <=> z.irq) /\ y.carry = z.carry /\ y.div = z.div /\ (y.gate <=> z.gate)
  <2>1. Alike(y, z)
    BY <1>5, <1>6 DEF Alike, SameReached
  <2>2. y.carry = z.carry /\ y.div = z.div /\ (y.gate <=> z.gate)
    BY <1>2, <1>3, <1>4, <1>6 DEF SameSettings
  <2> QED
    BY <2>1, <2>2, <1>5, <1>6
<1>8. y = z
  BY <1>4, <1>6, <1>7, SameAlike DEF Timer
<1> QED
  BY <1>8 DEF x, y, z, d, e

\* No ticks change nothing.
LEMMA AddNoClocks ==
  ASSUME NEW c, Timer(c)
  PROVE  AddClocks(c, 0) = c
<1>1. c \in Counters /\ c.div \in 0 .. Divider - 1 /\ Divider \in Nat \ {0} /\ AddTicks(c, 0) = c
  BY Constants, AddNone DEF Counters, Timer
<1>2. 0 + c.div = c.div /\ c.div % Divider = c.div /\ c.div \div Divider = 0
  BY <1>1, Small
<1>3. [c EXCEPT !.div = c.div] = c
  BY <1>1 DEF Counters
<1> QED
  BY <1>1, <1>2, <1>3 DEF AddClocks

\* What n ticks leave alone.
LEMMA AddClocksTimer ==
  ASSUME NEW c, Timer(c), NEW n \in Nat
  PROVE  /\ Timer(AddClocks(c, n)) /\ AddClocks(c, n).carry = c.carry /\ (AddClocks(c, n).gate <=> c.gate)
         /\ (AddClocks(c, n).counting_enabled <=> c.counting_enabled)
         /\ (AddClocks(c, n).use_external_clock <=> c.use_external_clock)
         /\ (AddClocks(c, n).sync_enable <=> c.sync_enable) /\ AddClocks(c, n).sync_mode = c.sync_mode
<1>1. CASE ~c.counting_enabled
  BY <1>1 DEF AddClocks
<1>2. CASE c.counting_enabled /\ ~c.use_external_clock
  BY <1>2, AddTicksTimer DEF AddClocks, SameSettings
<1>3. CASE c.counting_enabled /\ c.use_external_clock
  <2> DEFINE v == (n + c.div) % Divider
             j == (n + c.div) \div Divider
             d == [c EXCEPT !.div = v]
  <2>1. n + c.div \in Nat /\ Divider \in Nat \ {0}
    BY Constants DEF Timer, Counters
  <2>2. v \in 0 .. Divider - 1 /\ j \in Nat
    BY <2>1, Division
  <2>3. AddClocks(c, n) = AddTicks(d, j)
    BY <1>3 DEF AddClocks
  <2> HIDE DEF v, j
  <2>4. Timer(d) /\ Alike(d, c) /\ d.carry = c.carry /\ (d.gate <=> c.gate)
    BY <2>2, DivIs
  <2> HIDE DEF d
  <2>5. Timer(AddTicks(d, j)) /\ SameSettings(AddTicks(d, j), d)
    BY <2>2, <2>4, AddTicksTimer
  <2> QED
    BY <2>3, <2>4, <2>5 DEF SameSettings, Alike
<1> QED
  BY <1>1, <1>2, <1>3

\* One more, one on.
LEMMA AddClocksOneMore ==
  ASSUME NEW c, Timer(c), NEW n \in Nat
  PROVE  AddClocks(c, n + 1) = ClockOne(AddClocks(c, n))
<1>1. CASE ~c.counting_enabled
  BY <1>1 DEF AddClocks, ClockOne
<1>2. CASE c.counting_enabled /\ ~c.use_external_clock
  <2>1. AddClocks(c, n + 1) = AddTicks(c, n + 1) /\ AddClocks(c, n) = AddTicks(c, n)
    BY <1>2 DEF AddClocks
  <2>2. AddTicks(c, n).counting_enabled /\ ~AddTicks(c, n).use_external_clock
    BY <1>2, AddTicksTimer DEF SameSettings
  <2> QED
    BY <2>1, <2>2, AddOneMore DEF ClockOne
<1>3. CASE c.counting_enabled /\ c.use_external_clock
  <2> DEFINE a == n + c.div
             v == a % Divider
             j == a \div Divider
             w == (a + 1) % Divider
             k == (a + 1) \div Divider
             x == AddTicks([c EXCEPT !.div = v], j)
  <2>1. a \in Nat /\ a + 1 \in Nat /\ Divider \in Nat \ {0} /\ (n + 1) + c.div = a + 1
    BY Constants DEF Timer, Counters
  <2>2. AddClocks(c, n) = x /\ AddClocks(c, n + 1) = AddTicks([c EXCEPT !.div = w], k)
    BY <1>3, <2>1 DEF AddClocks
  <2> HIDE DEF a
  <2>3. v \in 0 .. Divider - 1 /\ j \in Nat /\ w \in 0 .. Divider - 1 /\ k \in Nat
    BY <2>1, Division
  <2>4. v < Divider - 1 => w = v + 1 /\ k = j
    BY <2>1, OneMore
  <2>5. v = Divider - 1 => w = 0 /\ k = j + 1
    BY <2>1, OneMore
  <2> HIDE DEF v, w, j, k
  <2>6. [x EXCEPT !.div = w] = AddTicks([c EXCEPT !.div = w], j)
    BY <2>3, AddTicksDiv
  <2>7. x.counting_enabled /\ x.use_external_clock /\ x.div = v
    <3> DEFINE d == [c EXCEPT !.div = v]
    <3>1. Timer(d) /\ Alike(d, c) /\ d.div = v
      BY <2>3, DivIs
    <3> HIDE DEF d
    <3>2. SameSettings(AddTicks(d, j), d)
      BY <2>3, <3>1, AddTicksTimer
    <3>3. AddTicks(d, j).counting_enabled /\ AddTicks(d, j).use_external_clock /\ AddTicks(d, j).div = v
      BY <1>3, <3>1, <3>2 DEF SameSettings, Alike
    <3> QED
      BY <3>3 DEF d
  <2> HIDE DEF x
  <2>8. CASE v < Divider - 1
    <3>1. v # Divider - 1 /\ w = v + 1 /\ k = j
      BY <2>1, <2>3, <2>4, <2>8
    <3>2. ClockOne(x) = [x EXCEPT !.div = w]
      BY <2>7, <3>1 DEF ClockOne
    <3> QED
      BY <2>2, <2>6, <3>1, <3>2
  <2>9. CASE v = Divider - 1
    <3>1. ClockOne(x) = CountOne([x EXCEPT !.div = w])
      BY <2>5, <2>7, <2>9 DEF ClockOne
    <3> DEFINE d == [c EXCEPT !.div = w]
    <3>2. Timer(d)
      BY <2>3, DivIs
    <3> HIDE DEF d
    <3>3. AddTicks(d, j + 1) = CountOne(AddTicks(d, j))
      BY <2>3, <3>2, AddOneMore
    <3> QED
      BY <2>2, <2>5, <2>6, <2>9, <3>1, <3>3 DEF d
  <2> QED
    BY <2>1, <2>3, <2>8, <2>9
<1> QED
  BY <1>1, <1>2, <1>3

\* The console's ticks are the emulator's.
LEMMA ClocksAre ==
  ASSUME NEW c, Timer(c), NEW n \in Nat, NEW k \in Nat
  PROVE  Clocks(AddClocks(c, n), k) = AddClocks(c, n + k)
<1> DEFINE b == AddClocks(c, n)
           IsRun(f) == f = [i \in 0 .. k |-> IF i = 0 THEN b ELSE ClockOne(f[i - 1])]
           g == [i \in 0 .. k |-> AddClocks(c, n + i)]
           r == CHOOSE f : IsRun(f)
<1>1. IsRun(g)
  <2>1. ASSUME NEW i \in 0 .. k
        PROVE  AddClocks(c, n + i) = IF i = 0 THEN b ELSE ClockOne(g[i - 1])
    <3>1. CASE i = 0
      BY <3>1
    <3>2. CASE i # 0
      <4>1. i - 1 \in 0 .. k /\ n + (i - 1) \in Nat /\ (n + (i - 1)) + 1 = n + i
        BY <3>2
      <4>2. AddClocks(c, n + i) = ClockOne(AddClocks(c, n + (i - 1)))
        BY <4>1, AddClocksOneMore
      <4>3. g[i - 1] = AddClocks(c, n + (i - 1))
        BY <4>1
      <4> QED
        BY <3>2, <4>2, <4>3
    <3> QED
      BY <3>1, <3>2
  <2>2. g = [i \in 0 .. k |-> AddClocks(c, n + i)]
    OBVIOUS
  <2> HIDE DEF g, b
  <2> QED
    BY <2>1, <2>2
<1>2. IsRun(r)
  <2> HIDE DEF IsRun, g
  <2> QED
    BY <1>1
<1>3. Clocks(b, k) = r[k]
  BY DEF Clocks
<1> HIDE DEF r
<1>4. r[0] = b /\ \A i \in 1 .. k : r[i] = ClockOne(r[i - 1])
  BY <1>2
<1> DEFINE Bad == {i \in 0 .. k : r[i] # AddClocks(c, n + i)}
<1>5. Bad = {}
  <2> SUFFICES ASSUME Bad # {} PROVE FALSE
    OBVIOUS
  <2>1. Bad \in SUBSET Nat
    OBVIOUS
  <2>2. PICK m \in Bad : \A i \in Bad : m <= i
    BY <2>1, LeastOf
  <2>3. m # 0
    BY <1>4, <2>2
  <2>4. m \in 1 .. k /\ m - 1 \in 0 .. k /\ m - 1 \notin Bad /\ n + (m - 1) \in Nat /\ (n + (m - 1)) + 1 = n + m
    BY <2>2, <2>3
  <2>5. r[m - 1] = AddClocks(c, n + (m - 1)) /\ r[m] = ClockOne(r[m - 1])
    BY <1>4, <2>4
  <2>6. AddClocks(c, n + m) = ClockOne(AddClocks(c, n + (m - 1)))
    BY <2>4, AddClocksOneMore
  <2> QED
    BY <2>2, <2>5, <2>6
<1>6. r[k] = AddClocks(c, n + k)
  <2>1. k \in 0 .. k
    OBVIOUS
  <2> QED
    BY <1>5, <2>1
<1> QED
  BY <1>3, <1>6

\* Counters that are alike stay so.
LEMMA AddClocksAlike ==
  ASSUME NEW c, NEW d, Timer(c), Timer(d), Alike(d, c), d.div = c.div, NEW n \in Nat
  PROVE  /\ Alike(AddClocks(d, n), AddClocks(c, n)) /\ AddClocks(d, n).div = AddClocks(c, n).div
         /\ (d.irq <=> c.irq) => (AddClocks(d, n).irq <=> AddClocks(c, n).irq)
<1>1. (d.counting_enabled <=> c.counting_enabled) /\ (d.use_external_clock <=> c.use_external_clock)
  BY DEF Alike
<1>2. CASE ~c.counting_enabled
  BY <1>1, <1>2 DEF AddClocks
<1>3. CASE c.counting_enabled /\ ~c.use_external_clock
  <2>1. AddClocks(c, n) = AddTicks(c, n) /\ AddClocks(d, n) = AddTicks(d, n)
    BY <1>1, <1>3 DEF AddClocks
  <2>2. SameSettings(AddTicks(c, n), c) /\ SameSettings(AddTicks(d, n), d)
    BY AddTicksTimer
  <2>3. AddTicks(d, n).div = AddTicks(c, n).div
    BY <2>2 DEF SameSettings
  <2> QED
    BY <2>1, <2>3, AddTicksAlike
<1>4. CASE c.counting_enabled /\ c.use_external_clock
  <2> DEFINE v == (n + c.div) % Divider
             j == (n + c.div) \div Divider
             x == [c EXCEPT !.div = v]
             y == [d EXCEPT !.div = v]
  <2>1. n + c.div \in Nat /\ Divider \in Nat \ {0}
    BY Constants DEF Timer, Counters
  <2>2. v \in 0 .. Divider - 1 /\ j \in Nat
    BY <2>1, Division
  <2>3. AddClocks(c, n) = AddTicks(x, j) /\ AddClocks(d, n) = AddTicks(y, j)
    BY <1>1, <1>4 DEF AddClocks
  <2> HIDE DEF v, j
  <2>4. Timer(x) /\ Alike(x, c) /\ x.div = v /\ (x.irq <=> c.irq)
    BY <2>2, DivIs
  <2>5. Timer(y) /\ Alike(y, d) /\ y.div = v /\ (y.irq <=> d.irq)
    BY <2>2, DivIs
  <2> HIDE DEF x, y
  <2>6. Alike(y, x)
    BY <2>4, <2>5 DEF Alike, SameReached
  <2>7. SameSettings(AddTicks(x, j), x) /\ SameSettings(AddTicks(y, j), y)
    BY <2>2, <2>4, <2>5, AddTicksTimer
  <2>8. AddTicks(y, j).div = AddTicks(x, j).div
    BY <2>4, <2>5, <2>7 DEF SameSettings
  <2>9. Alike(AddTicks(y, j), AddTicks(x, j)) /\ ((y.irq <=> x.irq) => (AddTicks(y, j).irq <=> AddTicks(x, j).irq))
    BY <2>2, <2>4, <2>5, <2>6, AddTicksAlike
  <2> QED
    BY <2>3, <2>4, <2>5, <2>8, <2>9
<1> QED
  BY <1>2, <1>3, <1>4

\* Ticks and the CPU's carry do not mind each other.
LEMMA AddClocksCarry ==
  ASSUME NEW c, Timer(c), NEW v \in Nat, NEW w \in Nat, NEW n \in Nat
  PROVE  [AddClocks([c EXCEPT !.carry = w], n) EXCEPT !.carry = v] = AddClocks([c EXCEPT !.carry = v], n)
<1> DEFINE d == [c EXCEPT !.carry = w]
           e == [c EXCEPT !.carry = v]
           x == AddClocks(d, n)
           y == AddClocks(e, n)
           z == [x EXCEPT !.carry = v]
<1>1. Timer(d) /\ Alike(d, c) /\ d.div = c.div /\ (d.gate <=> c.gate) /\ (d.irq <=> c.irq)
  BY CarryIs
<1>2. Timer(e) /\ Alike(e, c) /\ e.carry = v /\ e.div = c.div /\ (e.gate <=> c.gate) /\ (e.irq <=> c.irq)
  BY CarryIs
<1> HIDE DEF d, e
<1>3. Alike(e, d) /\ e.div = d.div /\ (e.gate <=> d.gate) /\ (e.irq <=> d.irq)
  BY <1>1, <1>2 DEF Alike, SameReached
<1>4. Timer(x) /\ (x.gate <=> d.gate)
  BY <1>1, AddClocksTimer
<1>5. Timer(y) /\ y.carry = v /\ (y.gate <=> e.gate)
  BY <1>2, AddClocksTimer
<1>6. Alike(y, x) /\ y.div = x.div /\ (y.irq <=> x.irq)
  BY <1>1, <1>2, <1>3, AddClocksAlike
<1> HIDE DEF x, y
<1>7. Timer(z) /\ Alike(z, x) /\ z.carry = v /\ z.div = x.div /\ (z.gate <=> x.gate) /\ (z.irq <=> x.irq)
  BY <1>4, CarryIs
<1> HIDE DEF z
<1>8. Alike(y, z) /\ y.div = z.div /\ y.carry = z.carry /\ (y.gate <=> z.gate) /\ (y.irq <=> z.irq)
  <2>1. Alike(y, z)
    BY <1>6, <1>7 DEF Alike, SameReached
  <2> QED
    BY <2>1, <1>3, <1>4, <1>5, <1>6, <1>7
<1>9. y = z
  BY <1>5, <1>7, <1>8, SameAlike DEF Timer
<1> QED
  BY <1>9 DEF x, y, z, d, e

-----------------------------------------------------------------------------
(* Ticks of the CPU *)

\* The carry is a remainder of what a tick of the CPU is divided by.
Carries(c) == Timer(c) /\ c.carry \in 0 .. Num - 1

\* The setup's numbers.
LEMMA SetupIs ==
  ASSUME setup \in Setups
  PROVE  Num \in Nat \ {0} /\ Den \in Nat \ {0} /\ setup.index \in {0, 2}
         /\ setup.modes \subseteq {m \in Mode : m.use_external_clock => setup.index = 2}
  BY ClockAssumption DEF Num, Den

\* Ticks of the CPU are so many of the system clock, and a new carry.
LEMMA AddSysClkTicksIs ==
  ASSUME NEW c, Timer(c), NEW n
  PROVE  AddSysClkTicks(c, n) =
           IF Num = Den THEN AddClocks(c, n)
           ELSE AddClocks([c EXCEPT !.carry = (n * Den + c.carry) % Num], (n * Den + c.carry) \div Num)
<1>1. CASE Num = Den
  BY <1>1 DEF AddSysClkTicks, AddClocks
<1>2. CASE Num # Den
  <2> DEFINE v == (n * Den + c.carry) % Num
             k == (n * Den + c.carry) \div Num
             d == [c EXCEPT !.carry = v]
  <2>1. AddSysClkTicks(c, n) =
          IF ~c.counting_enabled THEN d
          ELSE IF ~c.use_external_clock THEN AddTicks(d, k)
          ELSE AddTicks([d EXCEPT !.div = (k + @) % Divider], (k + c.div) \div Divider)
    BY <1>2 DEF AddSysClkTicks
  <2> HIDE DEF v, k
  <2>2. c \in Counters
    BY DEF Timer
  <2>3. d.counting_enabled = c.counting_enabled /\ d.use_external_clock = c.use_external_clock /\ d.div = c.div
    BY <2>2 DEF Counters
  <2>4. [d EXCEPT !.div = (k + @) % Divider] = [d EXCEPT !.div = (k + d.div) % Divider]
    BY <2>2 DEF Counters
  <2> HIDE DEF d
  <2>5. AddSysClkTicks(c, n) = AddClocks(d, k)
    BY <2>1, <2>3, <2>4 DEF AddClocks
  <2> QED
    BY <1>2, <2>5 DEF d, v, k
<1> QED
  BY <1>1, <1>2

\* Both are natural numbers.
LEMMA DivisionNat ==
  ASSUME NEW a \in Nat, NEW m \in Nat \ {0}
  PROVE  a \div m \in Nat /\ a % m \in Nat
  BY Division

\* The carry's quotient and remainder.
LEMMA CarryAfter ==
  ASSUME NEW a \in Nat, NEW n \in Nat, setup \in Setups
  PROVE  /\ (n * Den + a) \in Nat /\ (n * Den + a) % Num \in 0 .. Num - 1 /\ (n * Den + a) \div Num \in Nat
         /\ (n + 1) * Den + a = (n * Den + a) + Den
<1>1. Num \in Nat \ {0} /\ Den \in Nat
  BY SetupIs
<1>2. n * Den + a \in Nat /\ (n + 1) * Den + a = (n * Den + a) + Den
  BY <1>1
<1> QED
  BY <1>1, <1>2, Division

\* No ticks, no change.
LEMMA AddNoTicks ==
  ASSUME NEW c, Carries(c), setup \in Setups
  PROVE  AddSysClkTicks(c, 0) = c
<1>1. Timer(c) /\ c \in Counters /\ c.carry \in 0 .. Num - 1 /\ Num \in Nat \ {0} /\ Den \in Nat
  BY SetupIs DEF Carries, Timer
<1>2. CASE Num = Den
  BY <1>1, <1>2, AddSysClkTicksIs, AddNoClocks
<1>3. CASE Num # Den
  <2>1. 0 * Den + c.carry = c.carry /\ c.carry \in Nat /\ c.carry < Num
    BY <1>1
  <2>2. c.carry % Num = c.carry /\ c.carry \div Num = 0
    BY <1>1, <2>1, Small
  <2>3. [c EXCEPT !.carry = c.carry] = c
    BY <1>1 DEF Counters
  <2>4. AddSysClkTicks(c, 0) = AddClocks(c, 0)
    BY <1>1, <1>3, <2>1, <2>2, <2>3, AddSysClkTicksIs
  <2> QED
    BY <1>1, <2>4, AddNoClocks
<1> QED
  BY <1>2, <1>3

\* What ticks leave alone.
SameMode(d, c) ==
  /\ (d.gate <=> c.gate) /\ (d.counting_enabled <=> c.counting_enabled)
  /\ (d.use_external_clock <=> c.use_external_clock) /\ (d.sync_enable <=> c.sync_enable) /\ d.sync_mode = c.sync_mode

\* A counter stays one.
LEMMA TicksCarry ==
  ASSUME NEW c, Carries(c), NEW n \in Nat, setup \in Setups
  PROVE  Carries(AddSysClkTicks(c, n)) /\ SameMode(AddSysClkTicks(c, n), c)
<1>1. Timer(c) /\ c.carry \in Nat /\ c.carry \in 0 .. Num - 1
  BY SetupIs DEF Carries, Timer
<1>2. CASE Num = Den
  <2>1. AddSysClkTicks(c, n) = AddClocks(c, n)
    BY <1>1, <1>2, AddSysClkTicksIs
  <2>2. /\ Timer(AddClocks(c, n)) /\ AddClocks(c, n).carry = c.carry /\ (AddClocks(c, n).gate <=> c.gate)
        /\ (AddClocks(c, n).counting_enabled <=> c.counting_enabled)
        /\ (AddClocks(c, n).use_external_clock <=> c.use_external_clock)
        /\ (AddClocks(c, n).sync_enable <=> c.sync_enable) /\ AddClocks(c, n).sync_mode = c.sync_mode
    BY <1>1, AddClocksTimer
  <2>3. Carries(AddClocks(c, n))
    BY <1>1, <2>2 DEF Carries
  <2>4. SameMode(AddClocks(c, n), c)
    BY <2>2 DEF SameMode
  <2> QED
    BY <2>1, <2>3, <2>4
<1>3. CASE Num # Den
  <2> DEFINE v == (n * Den + c.carry) % Num
             k == (n * Den + c.carry) \div Num
             d == [c EXCEPT !.carry = v]
  <2>1. v \in 0 .. Num - 1 /\ v \in Nat /\ k \in Nat
    <3>1. (n * Den + c.carry) % Num \in 0 .. Num - 1 /\ (n * Den + c.carry) \div Num \in Nat
      BY <1>1, CarryAfter
    <3> QED
      BY <3>1, SetupIs
  <2>2. AddSysClkTicks(c, n) = AddClocks(d, k)
    BY <1>1, <1>3, AddSysClkTicksIs
  <2> HIDE DEF v, k
  <2>3. Timer(d) /\ Alike(d, c) /\ d.carry = v /\ (d.gate <=> c.gate)
    BY <1>1, <2>1, CarryIs
  <2> HIDE DEF d
  <2>4. /\ Timer(AddClocks(d, k)) /\ AddClocks(d, k).carry = d.carry /\ (AddClocks(d, k).gate <=> d.gate)
        /\ (AddClocks(d, k).counting_enabled <=> d.counting_enabled)
        /\ (AddClocks(d, k).use_external_clock <=> d.use_external_clock)
        /\ (AddClocks(d, k).sync_enable <=> d.sync_enable) /\ AddClocks(d, k).sync_mode = d.sync_mode
    BY <2>1, <2>3, AddClocksTimer
  <2>5. Carries(AddClocks(d, k))
    BY <2>1, <2>3, <2>4 DEF Carries
  <2>6. SameMode(AddClocks(d, k), c)
    BY <2>3, <2>4 DEF SameMode, Alike
  <2> QED
    BY <2>2, <2>5, <2>6
<1> QED
  BY <1>2, <1>3

\* The emulator's n + 1 ticks at once are n at once, then one of the console's.
THEOREM OneTickMore ==
  ASSUME NEW c, Carries(c), NEW n \in Nat, setup \in Setups
  PROVE  AddSysClkTicks(c, n + 1) = TickOne(AddSysClkTicks(c, n))
<1>1. Timer(c) /\ c.carry \in Nat /\ n + 1 \in Nat /\ Num \in Nat \ {0} /\ Den \in Nat
  BY SetupIs DEF Carries, Timer, Counters
<1>2. CASE Num = Den
  BY <1>1, <1>2, AddSysClkTicksIs, AddClocksOneMore DEF TickOne
<1>3. CASE Num # Den
  <2> DEFINE a == n * Den + c.carry
             v == a % Num
             k == a \div Num
             w == (v + Den) % Num
             j == (v + Den) \div Num
             d == [c EXCEPT !.carry = v]
             e == [c EXCEPT !.carry = w]
             x == AddClocks(d, k)
  <2>1. a \in Nat /\ (n + 1) * Den + c.carry = a + Den
    BY <1>1, CarryAfter
  <2>2. AddSysClkTicks(c, n) = x
    BY <1>1, <1>3, AddSysClkTicksIs
  <2>3. AddSysClkTicks(c, n + 1) = AddClocks([c EXCEPT !.carry = (a + Den) % Num], (a + Den) \div Num)
    BY <1>1, <1>3, <2>1, AddSysClkTicksIs
  <2> HIDE DEF a
  <2>4. (a + Den) % Num = w /\ (a + Den) \div Num = k + j
    BY <1>1, <2>1, InTwoGoes
  <2>5. v \in Nat /\ k \in Nat
    BY <1>1, <2>1, DivisionNat
  <2> HIDE DEF v, k
  <2>6. v + Den \in Nat
    BY <1>1, <2>5
  <2>7. w \in Nat /\ j \in Nat
    BY <1>1, <2>6, DivisionNat
  <2>8. AddSysClkTicks(c, n + 1) = AddClocks(e, k + j)
    BY <2>3, <2>4
  <2>9. Timer(d) /\ d.carry = v /\ Timer(e)
    BY <1>1, <2>5, <2>7, CarryIs
  <2>10. x.carry = v
    BY <2>5, <2>9, AddClocksTimer
  <2>11. [x EXCEPT !.carry = w] = AddClocks(e, k)
    <3> HIDE DEF w, j
    <3> QED
      BY <1>1, <2>5, <2>7, AddClocksCarry
  <2>12. TickOne(x) = Clocks([x EXCEPT !.carry = (v + Den) % Num], (v + Den) \div Num)
    BY <1>3, <2>10 DEF TickOne
  <2>13. TickOne(x) = Clocks(AddClocks(e, k), j)
    BY <2>11, <2>12
  <2> HIDE DEF e, w, j, x
  <2> QED
    BY <2>2, <2>5, <2>7, <2>8, <2>9, <2>13, ClocksAre
<1> QED
  BY <1>2, <1>3

\* Ticks can be added in any batches.
THEOREM BatchesAddUp ==
  ASSUME NEW c, Carries(c), NEW m \in Nat, setup \in Setups
  PROVE  \A n \in Nat : AddSysClkTicks(AddSysClkTicks(c, m), n) = AddSysClkTicks(c, m + n)
<1> DEFINE d == AddSysClkTicks(c, m)
           S == {n \in Nat : AddSysClkTicks(d, n) = AddSysClkTicks(c, m + n)}
<1>1. Carries(d)
  BY TicksCarry
<1>2. 0 \in S
  BY <1>1, AddNoTicks
<1>3. ASSUME NEW n \in S PROVE n + 1 \in S
  <2> HIDE DEF d
  <2>1. n \in Nat /\ m + n \in Nat /\ (m + n) + 1 = m + (n + 1) /\ n + 1 \in Nat
    BY <1>3
  <2>2. AddSysClkTicks(d, n + 1) = TickOne(AddSysClkTicks(d, n))
    BY <1>1, <2>1, OneTickMore
  <2>3. AddSysClkTicks(c, (m + n) + 1) = TickOne(AddSysClkTicks(c, m + n))
    BY <2>1, OneTickMore
  <2>4. AddSysClkTicks(d, n) = AddSysClkTicks(c, m + n)
    BY <1>3
  <2> QED
    BY <2>1, <2>2, <2>3, <2>4
<1>4. S = Nat
  <2> HIDE DEF d
  <2>1. S \in SUBSET Nat
    OBVIOUS
  <2> HIDE DEF S
  <2> QED
    BY <1>2, <1>3, <2>1, Induction
<1> QED
  BY <1>4

\* Counters that are alike stay so.
LEMMA TicksAlike ==
  ASSUME NEW c, NEW d, Carries(c), Carries(d), Alike(d, c), d.div = c.div, d.carry = c.carry,
         NEW n \in Nat, setup \in Setups
  PROVE  LET x == AddSysClkTicks(c, n)
             y == AddSysClkTicks(d, n)
         IN  Alike(y, x) /\ y.div = x.div /\ y.carry = x.carry /\ ((d.irq <=> c.irq) => (y.irq <=> x.irq))
<1>1. Timer(c) /\ Timer(d) /\ c.carry \in Nat
  BY SetupIs DEF Carries
<1>2. CASE Num = Den
  BY <1>1, <1>2, AddSysClkTicksIs, AddClocksAlike, AddClocksTimer
<1>3. CASE Num # Den
  <2> DEFINE v == (n * Den + c.carry) % Num
             k == (n * Den + c.carry) \div Num
             f == [c EXCEPT !.carry = v]
             g == [d EXCEPT !.carry = v]
  <2>1. v \in Nat /\ k \in Nat
    <3>1. (n * Den + c.carry) % Num \in 0 .. Num - 1 /\ (n * Den + c.carry) \div Num \in Nat
      BY <1>1, CarryAfter
    <3> QED
      BY <3>1, SetupIs
  <2>2. AddSysClkTicks(c, n) = AddClocks(f, k) /\ AddSysClkTicks(d, n) = AddClocks(g, k)
    BY <1>1, <1>3, AddSysClkTicksIs
  <2> HIDE DEF v, k
  <2>3. Timer(f) /\ Alike(f, c) /\ f.carry = v /\ f.div = c.div /\ (f.irq <=> c.irq)
    BY <1>1, <2>1, CarryIs
  <2>4. Timer(g) /\ Alike(g, d) /\ g.carry = v /\ g.div = d.div /\ (g.irq <=> d.irq)
    BY <1>1, <2>1, CarryIs
  <2> HIDE DEF f, g
  <2>5. Alike(g, f) /\ g.div = f.div
    BY <2>3, <2>4 DEF Alike, SameReached
  <2>6. /\ Alike(AddClocks(g, k), AddClocks(f, k)) /\ AddClocks(g, k).div = AddClocks(f, k).div
        /\ (g.irq <=> f.irq) => (AddClocks(g, k).irq <=> AddClocks(f, k).irq)
    BY <2>1, <2>3, <2>4, <2>5, AddClocksAlike
  <2>7. AddClocks(g, k).carry = AddClocks(f, k).carry
    BY <2>1, <2>3, <2>4, AddClocksTimer
  <2> QED
    BY <2>2, <2>3, <2>4, <2>6, <2>7
<1> QED
  BY <1>2, <1>3

-----------------------------------------------------------------------------
(* Up to the next interrupt *)

SameLine(d, c) == (d.line <=> c.line) /\ (d.irq <=> c.irq)

\* None of the next j counts asks for an interrupt, or it would not be raised.
Quiet(c, j) ==
  Raises(c) => /\ c.irq_at_target => j < c.delay + ToTarget(c)
               /\ c.irq_on_overflow => j < c.delay + (TIMER_OVERFLOW - c.counter)

\* A quiet tick.
LEMMA QuietOne ==
  ASSUME NEW c, Timer(c), NEW j \in Nat, Quiet(c, j + 1)
  PROVE  SameLine(CountOne(c), c) /\ Quiet(CountOne(c), j)
<1> DEFINE d == CountOne(c)
           end == c.counter + 1
<1>1. c \in Counters /\ c.counter \in Nat /\ c.target \in Nat /\ c.target < TIMER_OVERFLOW /\ c.counter < TIMER_OVERFLOW
      /\ TIMER_OVERFLOW \in Nat /\ TIMER_OVERFLOW > 1 /\ c.delay \in 0 .. 2 /\ end \in Nat
      /\ (c.use_external_clock => c.delay = 0)
  BY Constants DEF Counters, Values, TARGET_RESET_DELAY, Timer
<1>2. CASE c.delay > 0
  <2>1. IsAfter(d, c, c.counter, c.delay - 1, FALSE, FALSE)
    BY <1>1, <1>2, CountOneIs
  <2>2. SameSettings(d, c) /\ SameInterrupt(d, c) /\ d.counter = c.counter /\ d.delay = c.delay - 1
    BY <2>1 DEF IsAfter, Asks
  <2> HIDE DEF d
  <2>3. Raises(d) <=> Raises(c)
    BY <2>2 DEF Raises, SameSettings, SameInterrupt
  <2>4. ToTarget(d) = ToTarget(c) /\ ToTarget(c) \in Int
    BY <1>1, <2>2 DEF ToTarget, SameSettings
  <2>5. Quiet(d, j)
    BY <1>1, <2>2, <2>3, <2>4 DEF Quiet, SameSettings
  <2>6. SameLine(d, c)
    BY <2>2 DEF SameInterrupt, SameLine
  <2> QED
    BY <2>5, <2>6 DEF d
<1>3. CASE c.delay = 0
  <2> DEFINE hit == HitAt(c, end)
             overflow == OverflowAt(c, end)
  <2>1. IsAfter(d, c, ValueAt(c, end), DelayAt(c, end), hit, overflow)
    BY <1>1, <1>3, CountOneIs DEF IsAt
  <2>2. SameSettings(d, c) /\ d.counter = ValueAt(c, end) /\ d.delay = DelayAt(c, end)
        /\ (Asks(c, hit, overflow) => IsRequested(d, c)) /\ (~Asks(c, hit, overflow) => SameInterrupt(d, c))
    BY <2>1 DEF IsAfter
  <2> HIDE DEF d
  <2>3. CASE ~Raises(c)
    <3>1. ~Raises(d) /\ SameLine(d, c)
      BY <2>2, <2>3 DEF Raises, IsRequested, SameInterrupt, SameSettings, SameLine
    <3> QED
      BY <3>1 DEF Quiet, d
  <2>4. CASE Raises(c)
    <3>1. /\ c.irq_at_target => j + 1 < ToTarget(c)
          /\ c.irq_on_overflow => j + 1 < TIMER_OVERFLOW - c.counter
      <4>1. ToTarget(c) \in Int
        BY <1>1 DEF ToTarget
      <4> QED
        BY <4>1, <1>1, <1>3, <2>4 DEF Quiet
    <3>2. Goal(c) = c.counter + ToTarget(c) /\ Goal(c) \in Nat
      BY <1>1 DEF Goal, ToTarget
    <3>3. c.irq_at_target => ~hit
      BY <3>1, <3>2, <1>1 DEF HitAt, ToTarget
    <3>4. c.irq_on_overflow => ~overflow /\ end < TIMER_OVERFLOW
      <4>1. ASSUME c.irq_on_overflow PROVE end < TIMER_OVERFLOW
        BY <1>1, <3>1, <4>1
      <4>2. ASSUME c.irq_on_overflow PROVE ~overflow
        BY <1>1, <4>1, <4>2 DEF OverflowAt, Resetting, Goal
      <4> QED
        BY <4>1, <4>2
    <3>5. SameInterrupt(d, c)
      BY <2>2, <3>3, <3>4 DEF Asks
    <3>6. Raises(d)
      BY <2>2, <2>4, <3>5 DEF Raises, SameSettings, SameInterrupt
    <3>7. d.target = c.target /\ (d.irq_at_target <=> c.irq_at_target) /\ (d.irq_on_overflow <=> c.irq_on_overflow)
      BY <2>2 DEF SameSettings
    <3>8. d.delay \in 0 .. 2 /\ d.counter \in 0 .. TIMER_OVERFLOW - 1
      BY <1>1, <2>2, AtTypes DEF TARGET_RESET_DELAY, Values
    <3>9. ~Resetting(c, end) => d.delay = 0 /\ d.counter = IF end = TIMER_OVERFLOW THEN 0 ELSE end
      <4>1. end % TIMER_OVERFLOW = IF end = TIMER_OVERFLOW THEN 0 ELSE end
        BY <1>1, Small
      <4> QED
        BY <2>2, <4>1 DEF ValueAt, DelayAt
    <3>10. ASSUME c.irq_at_target
           PROVE  j < d.delay + ToTarget(d)
      <4>1. ~hit
        BY <3>3, <3>10
      <4>2. ~Resetting(c, end)
        BY <4>1 DEF Resetting, HitAt
      <4>3. ToTarget(d) = ToTarget(c) - 1
        BY <1>1, <3>2, <3>7, <3>9, <4>1, <4>2 DEF HitAt, ToTarget
      <4>4. ToTarget(c) \in Int
        BY <1>1 DEF ToTarget
      <4> QED
        BY <3>1, <3>8, <3>10, <4>3, <4>4
    <3>11. ASSUME c.irq_on_overflow
           PROVE  j < d.delay + (TIMER_OVERFLOW - d.counter)
      <4>1. CASE Resetting(c, end)
        <5>1. d.counter = 0
          <6>1. end = Goal(c)
            BY <1>1, <3>4, <3>11, <4>1 DEF Resetting, Goal
          <6>2. Since(c, end) = 0
            <7>1. c.target + Held(c) \in Nat \ {0}
              BY <1>1, <4>1 DEF Resetting, Resets, Held, TARGET_RESET_DELAY
            <7>2. ASSUME NEW m \in Nat \ {0} PROVE 0 % m = 0
              BY <7>2, Small
            <7> QED
              BY <6>1, <7>1, <7>2, <3>2 DEF Since
          <6>3. Held(c) \in Nat
            BY DEF Held, TARGET_RESET_DELAY
          <6> QED
            BY <2>2, <4>1, <6>2, <6>3 DEF ValueAt
        <5> QED
          BY <1>1, <3>1, <3>8, <3>11, <5>1
      <4>2. CASE ~Resetting(c, end)
        <5>1. d.counter = end /\ d.delay = 0
          BY <1>1, <3>4, <3>9, <3>11, <4>2
        <5> QED
          BY <1>1, <3>1, <3>11, <5>1
      <4> QED
        BY <4>1, <4>2
    <3>12. Quiet(d, j)
      BY <3>7, <3>10, <3>11 DEF Quiet
    <3>13. SameLine(d, c)
      BY <3>5 DEF SameInterrupt, SameLine
    <3> QED
      BY <3>12, <3>13 DEF d
  <2> QED
    BY <2>3, <2>4
<1> QED
  BY <1>1, <1>2, <1>3

\* Many of them.
LEMMA QuietTicks ==
  ASSUME NEW c, Timer(c), NEW n \in Nat, Quiet(c, n)
  PROVE  SameLine(AddTicks(c, n), c)
<1> DEFINE P(m) == m <= n => SameLine(AddTicks(c, m), c) /\ Quiet(AddTicks(c, m), n - m)
           S == {m \in Nat : P(m)}
<1>1. 0 \in S
  <2>1. AddTicks(c, 0) = c /\ n - 0 = n
    BY AddNone DEF Timer
  <2> QED
    BY <2>1 DEF SameLine
<1>2. ASSUME NEW m \in S PROVE m + 1 \in S
  <2> SUFFICES ASSUME m + 1 <= n PROVE P(m + 1)
    OBVIOUS
  <2> DEFINE d == AddTicks(c, m)
  <2>1. m \in Nat /\ n - (m + 1) \in Nat /\ (n - (m + 1)) + 1 = n - m /\ m <= n
    BY <1>2
  <2>2. SameLine(d, c) /\ Quiet(d, (n - (m + 1)) + 1)
    BY <1>2, <2>1
  <2>3. Timer(d) /\ AddTicks(c, m + 1) = CountOne(d)
    BY <2>1, AddTicksTimer, AddOneMore
  <2> HIDE DEF d
  <2>4. SameLine(CountOne(d), d) /\ Quiet(CountOne(d), n - (m + 1))
    BY <2>1, <2>2, <2>3, QuietOne
  <2> QED
    BY <2>2, <2>3, <2>4 DEF SameLine
<1>3. S = Nat
  <2>1. S \in SUBSET Nat
    OBVIOUS
  <2> HIDE DEF S
  <2> QED
    BY <1>1, <1>2, <2>1, Induction
<1>4. P(n)
  BY <1>3
<1> QED
  BY <1>4

\* A quotient is below any number whose multiple is not reached.
LEMMA BelowMultiple ==
  ASSUME NEW a \in Nat, NEW m \in Nat \ {0}, NEW t \in Nat, a < t * m
  PROVE  a \div m < t
<1> DEFINE q == a \div m
<1>1. q \in Nat /\ a >= q * m
  BY Division
<1> HIDE DEF q
<1>2. q >= t => q * m >= t * m
  <2>1. q >= t => q - t \in Nat /\ q = t + (q - t)
    BY <1>1
  <2>2. ASSUME NEW e \in Nat PROVE (t + e) * m = (t * m) + (e * m) /\ e * m \in Nat /\ t * m \in Nat
    OBVIOUS
  <2> QED
    BY <2>1, <2>2
<1>3. q < t
  BY <1>1, <1>2
<1> QED
  BY <1>3 DEF q

\* How long it is to target and overflow.
LEMMA DistancesAre ==
  ASSUME NEW c, Timer(c)
  PROVE  /\ ToTarget(c) \in Nat \ {0} /\ (TIMER_OVERFLOW - c.counter) \in Nat \ {0}
         /\ \A t \in Nat \ {0} : TicksUntil(c, t) \in Nat \ {0}
<1>1. c.counter \in Nat /\ c.target \in Nat /\ c.target < TIMER_OVERFLOW /\ c.counter < TIMER_OVERFLOW
      /\ TIMER_OVERFLOW \in Nat /\ c.delay \in Nat /\ c.div \in 0 .. Divider - 1 /\ Divider \in Nat \ {0}
  BY Constants DEF Counters, Values, TARGET_RESET_DELAY, Timer
<1>2. ToTarget(c) \in Nat \ {0} /\ (TIMER_OVERFLOW - c.counter) \in Nat \ {0}
  BY <1>1 DEF ToTarget
<1>3. ASSUME NEW t \in Nat \ {0} PROVE TicksUntil(c, t) \in Nat \ {0}
  <2>1. ASSUME NEW a \in Nat \ {0} PROVE a * Divider >= Divider /\ a * Divider \in Nat
    BY <1>1
  <2>2. c.delay + t \in Nat \ {0}
    BY <1>1
  <2>3. (c.delay + t) * Divider >= Divider /\ (c.delay + t) * Divider \in Nat
    BY <2>1, <2>2
  <2>4. (c.delay + t) * Divider - c.div \in Nat \ {0}
    BY <1>1, <2>3
  <2> QED
    BY <2>2, <2>4 DEF TicksUntil
<1> QED
  BY <1>2, <1>3

\* Ticks of the system clock before the first of the distances.
LEMMA QuietClocks ==
  ASSUME NEW c, Timer(c), NEW k \in Nat,
         c.counting_enabled /\ Raises(c) => \A t \in Distances(c) : k < TicksUntil(c, t)
  PROVE  SameLine(AddClocks(c, k), c)
<1>1. c.counter \in Nat /\ c.target \in Nat /\ c.target < TIMER_OVERFLOW /\ c.counter < TIMER_OVERFLOW
      /\ TIMER_OVERFLOW \in Nat /\ c.delay \in Nat /\ c.div \in 0 .. Divider - 1 /\ Divider \in Nat \ {0}
      /\ (c.use_external_clock => c.delay = 0)
  BY Constants DEF Counters, Values, TARGET_RESET_DELAY, Timer
<1>2. /\ c.irq_at_target => ToTarget(c) \in Distances(c)
      /\ c.irq_on_overflow => (TIMER_OVERFLOW - c.counter) \in Distances(c)
      /\ ToTarget(c) \in Nat \ {0} /\ (TIMER_OVERFLOW - c.counter) \in Nat \ {0}
  BY DistancesAre DEF Distances
<1>3. CASE ~c.counting_enabled
  BY <1>3 DEF AddClocks, SameLine
<1>4. CASE c.counting_enabled /\ ~c.use_external_clock
  <2>1. Quiet(c, k)
    BY <1>1, <1>2, <1>4 DEF Quiet, TicksUntil
  <2> QED
    BY <1>4, <2>1, QuietTicks DEF AddClocks
<1>5. CASE c.counting_enabled /\ c.use_external_clock
  <2> DEFINE v == (k + c.div) % Divider
             j == (k + c.div) \div Divider
             d == [c EXCEPT !.div = v]
  <2>1. k + c.div \in Nat /\ c.delay = 0
    BY <1>1, <1>5
  <2>2. v \in 0 .. Divider - 1 /\ j \in Nat
    BY <1>1, <2>1, Division
  <2>3. ASSUME NEW t \in Nat, k < TicksUntil(c, t)
        PROVE  j < t
    <3>1. k < t * Divider - c.div
      BY <1>1, <1>5, <2>1, <2>3 DEF TicksUntil
    <3>2. k + c.div < t * Divider
      BY <1>1, <3>1
    <3> QED
      BY <1>1, <2>1, <3>2, BelowMultiple
  <2>4. AddClocks(c, k) = AddTicks(d, j)
    BY <1>5 DEF AddClocks
  <2> HIDE DEF v, j
  <2>5. Timer(d) /\ Alike(d, c) /\ (d.irq <=> c.irq)
    BY <2>2, DivIs
  <2> HIDE DEF d
  <2>6. (Raises(d) <=> Raises(c)) /\ ToTarget(d) = ToTarget(c) /\ d.delay = 0 /\ d.counter = c.counter
        /\ (d.irq_at_target <=> c.irq_at_target) /\ (d.irq_on_overflow <=> c.irq_on_overflow)
    BY <2>1, <2>5 DEF Alike, Raises, ToTarget
  <2>7. Raises(c) => /\ c.irq_at_target => j < ToTarget(c)
                     /\ c.irq_on_overflow => j < TIMER_OVERFLOW - c.counter
    BY <1>2, <1>5, <2>3
  <2>8. Quiet(d, j)
    BY <1>2, <2>6, <2>7 DEF Quiet
  <2>9. SameLine(AddTicks(d, j), d)
    BY <2>2, <2>5, <2>8, QuietTicks
  <2> QED
    BY <2>4, <2>5, <2>9 DEF SameLine, Alike
<1> QED
  BY <1>3, <1>4, <1>5

\* The larger of two.
LEMMA MaxOne ==
  ASSUME NEW a \in Nat \ {0}
  PROVE  Max({1, a}) = a
  BY DEF Max

\* The least of many.
LEMMA MinIs ==
  ASSUME NEW S \in SUBSET Nat, S # {}
  PROVE  Min(S) \in S /\ \A n \in S : Min(S) <= n
<1>1. \E m \in S : \A n \in S : m <= n
  BY LeastOf
<1> QED
  BY <1>1 DEF Min

\* The event is not behind the interrupt, on the system clock...
LEMMA NextInterruptIs ==
  ASSUME NEW c, Timer(c)
  PROVE  /\ SysClkTicksUntilNextInterrupt(c) \in Nat \ {0}
         /\ c.counting_enabled /\ Raises(c) =>
              \A t \in Distances(c) : SysClkTicksUntilNextInterrupt(c) <= TicksUntil(c, t)
<1> DEFINE none  == ~c.counting_enabled \/ (~c.irq_repeat /\ c.irq_done)
           ticks == IF none THEN {} ELSE {TicksUntil(c, d) : d \in Distances(c)}
           all   == {MaxSliceTicks} \cup ticks
<1>1. ticks \in SUBSET (Nat \ {0})
  BY DistancesAre DEF Distances
<1>2. all \in SUBSET (Nat \ {0}) /\ all # {}
  BY <1>1, Constants
<1>3. SysClkTicksUntilNextInterrupt(c) = Max({1, Min(all)})
  BY DEF SysClkTicksUntilNextInterrupt
<1>4. c.counting_enabled /\ Raises(c) => \A t \in Distances(c) : TicksUntil(c, t) \in all
  BY DEF Raises
<1> HIDE DEF all
<1>5. Min(all) \in all /\ \A n \in all : Min(all) <= n
  BY <1>2, MinIs
<1>6. Min(all) \in Nat \ {0}
  BY <1>2, <1>5
<1>7. Max({1, Min(all)}) = Min(all)
  BY <1>6, MaxOne
<1> QED
  BY <1>3, <1>4, <1>5, <1>6, <1>7

\* ... nor on the CPU's.
LEMMA NextInterruptOnCPU ==
  ASSUME NEW s \in Nat \ {0}, NEW num \in Nat \ {0}, NEW den \in Nat \ {0}, NEW a \in 0 .. num - 1
  PROVE  LET g == (s * num - a + den - 1) \div den
         IN  g \in Nat \ {0} /\ \A n \in Nat : n < g => (n * den + a) \div num < s
<1> DEFINE b == s * num - a + den - 1
           g == b \div den
<1>1. s * num \in Nat /\ s * num >= num
  OBVIOUS
<1>2. b \in Nat /\ b >= den /\ b = (s * num - a) + (den - 1)
  BY <1>1
<1>3. g \in Nat /\ b >= g * den
  <2> HIDE DEF b
  <2> QED
    BY <1>2, Division
<1>4. g # 0
  <2>1. g = 0 => b < den
    <3> HIDE DEF b
    <3>1. b % den \in 0 .. den - 1 /\ b = ((b \div den) * den) + (b % den)
      BY <1>2, Division
    <3> QED
      BY <1>2, <3>1
  <2> QED
    BY <1>2, <2>1
<1> HIDE DEF g
<1>5. ASSUME NEW n \in Nat, n < g PROVE (n * den + a) \div num < s
  <2>1. (n + 1) * den <= g * den
    BY <1>3, <1>5
  <2>2. (n + 1) * den = (n * den) + den /\ n * den \in Nat
    OBVIOUS
  <2>3. (n * den) + a < s * num /\ (n * den) + a \in Nat
    <3> DEFINE p == n * den
               q == s * num
               r == g * den
    <3>1. p \in Nat /\ q \in Nat /\ p + den <= r /\ r <= (q - a) + (den - 1) /\ r \in Nat
      BY <1>1, <1>2, <1>3, <2>1, <2>2
    <3> HIDE DEF p, q, r
    <3>2. p + a < q /\ p + a \in Nat
      BY <3>1
    <3> QED
      BY <3>2 DEF p, q
  <2> QED
    BY <2>3, BelowMultiple
<1> QED
  BY <1>3, <1>4, <1>5 DEF g

\* Before the time of the event, ticks do not change the line or the interrupt.
THEOREM QuietUntilDue ==
  ASSUME NEW c, Carries(c), setup \in Setups
  PROVE  /\ GetTicksUntilNextInterrupt(c) \in Nat \ {0}
         /\ \A n \in Nat : n < GetTicksUntilNextInterrupt(c) => SameLine(AddSysClkTicks(c, n), c)
<1> DEFINE s == SysClkTicksUntilNextInterrupt(c)
           g == GetTicksUntilNextInterrupt(c)
<1>1. Timer(c) /\ c.carry \in 0 .. Num - 1 /\ Num \in Nat \ {0} /\ Den \in Nat \ {0} /\ c.carry \in Nat
  BY SetupIs DEF Carries
<1>2. s \in Nat \ {0} /\ (c.counting_enabled /\ Raises(c) => \A t \in Distances(c) : s <= TicksUntil(c, t))
  BY <1>1, NextInterruptIs
<1>3. g = IF Num = Den THEN s ELSE (s * Num - c.carry + Den - 1) \div Den
  BY DEF GetTicksUntilNextInterrupt
<1> HIDE DEF s, g
<1>4. \A t \in Distances(c) : TicksUntil(c, t) \in Nat
  BY <1>1, DistancesAre DEF Distances
<1>5. CASE Num = Den
  <2>1. ASSUME NEW n \in Nat, n < g PROVE SameLine(AddSysClkTicks(c, n), c)
    <3>1. AddSysClkTicks(c, n) = AddClocks(c, n)
      BY <1>1, <1>5, AddSysClkTicksIs
    <3>2. c.counting_enabled /\ Raises(c) => \A t \in Distances(c) : n < TicksUntil(c, t)
      BY <1>2, <1>3, <1>4, <1>5, <2>1
    <3> QED
      BY <1>1, <3>1, <3>2, QuietClocks
  <2> QED
    BY <1>2, <1>3, <1>5, <2>1 DEF g
<1>6. CASE Num # Den
  <2>1. g \in Nat \ {0} /\ \A n \in Nat : n < g => (n * Den + c.carry) \div Num < s
    BY <1>1, <1>2, <1>3, <1>6, NextInterruptOnCPU
  <2>2. ASSUME NEW n \in Nat, n < g PROVE SameLine(AddSysClkTicks(c, n), c)
    <3> DEFINE v == (n * Den + c.carry) % Num
               k == (n * Den + c.carry) \div Num
               d == [c EXCEPT !.carry = v]
    <3>1. v \in Nat /\ k \in Nat /\ k < s
      <4>1. n * Den + c.carry \in Nat
        BY <1>1, CarryAfter
      <4> QED
        BY <1>1, <2>1, <2>2, <4>1, DivisionNat
    <3>2. AddSysClkTicks(c, n) = AddClocks(d, k)
      BY <1>1, <1>6, AddSysClkTicksIs
    <3> HIDE DEF v, k
    <3>3. Timer(d) /\ Alike(d, c) /\ d.div = c.div /\ (d.irq <=> c.irq)
      BY <1>1, <3>1, CarryIs
    <3> HIDE DEF d
    <3>4. (d.counting_enabled <=> c.counting_enabled) /\ (Raises(d) <=> Raises(c)) /\ SameLine(d, c)
      BY <3>3 DEF Alike, Raises, SameLine
    <3>5. ToTarget(d) = ToTarget(c) /\ d.counter = c.counter /\ (d.irq_at_target <=> c.irq_at_target)
          /\ (d.irq_on_overflow <=> c.irq_on_overflow)
      BY <3>3 DEF ToTarget, Alike
    <3>6. Distances(d) = Distances(c)
      BY <3>5 DEF Distances
    <3>7. \A t : TicksUntil(d, t) = TicksUntil(c, t)
      BY <3>3 DEF TicksUntil, Alike
    <3>8. c.counting_enabled /\ Raises(c) => \A t \in Distances(c) : k < TicksUntil(c, t)
      BY <1>2, <1>4, <3>1
    <3>9. SameLine(AddClocks(d, k), d)
      BY <3>1, <3>3, <3>4, <3>6, <3>7, <3>8, QuietClocks
    <3> QED
      BY <3>2, <3>4, <3>9 DEF SameLine
  <2> QED
    BY <2>1, <2>2 DEF g
<1> QED
  BY <1>5, <1>6

-----------------------------------------------------------------------------
(* Accesses *)

\* What the settings of a counter have to do with each other.
Consistent(c) ==
  /\ Carries(c)
  /\ c.use_external_clock => setup.index = 2
  /\ c.sync_mode = ResetOnGateEnd => c.counting_enabled

\* A write of the mode leaves the other settings.
LEMMA ModeOver ==
  ASSUME NEW c \in Counters, NEW m \in Mode
  PROVE  LET d == [x \in DOMAIN c |-> IF x \in DOMAIN m THEN m[x] ELSE c[x]]
         IN  d \in Counters /\ d.carry = c.carry /\ (d.use_external_clock <=> m.use_external_clock)
<1> DEFINE d == [x \in DOMAIN c |-> IF x \in DOMAIN m THEN m[x] ELSE c[x]]
           e == [counter |-> c.counter, target |-> c.target, delay |-> c.delay, gate |-> c.gate,
                 counting_enabled |-> c.counting_enabled, irq_done |-> c.irq_done,
                 interrupt_request_n |-> c.interrupt_request_n, reached_target |-> c.reached_target,
                 reached_overflow |-> c.reached_overflow, sync_enable |-> m.sync_enable, sync_mode |-> m.sync_mode,
                 reset_at_target |-> m.reset_at_target, irq_at_target |-> m.irq_at_target,
                 irq_on_overflow |-> m.irq_on_overflow, irq_repeat |-> m.irq_repeat, irq_pulse_n |-> m.irq_pulse_n,
                 use_external_clock |-> m.use_external_clock, carry |-> c.carry, div |-> c.div, line |-> c.line,
                 irq |-> c.irq]
<1>1. DOMAIN m = {"sync_enable", "sync_mode", "reset_at_target", "irq_at_target", "irq_on_overflow", "irq_repeat",
                  "irq_pulse_n", "use_external_clock"}
  BY DEF Mode
<1>2. DOMAIN c = {"counter", "target", "delay", "gate", "counting_enabled", "irq_done", "interrupt_request_n",
                  "reached_target", "reached_overflow", "sync_enable", "sync_mode", "reset_at_target", "irq_at_target",
                  "irq_on_overflow", "irq_repeat", "irq_pulse_n", "use_external_clock", "carry", "div", "line", "irq"}
  BY DEF Counters
<1>3. d = e
  BY <1>1, <1>2
<1>4. e \in Counters /\ e.carry = c.carry /\ (e.use_external_clock <=> m.use_external_clock)
  BY DEF Counters, Mode
<1> QED
  BY <1>3, <1>4

\* Whether it counts follows from the mode and the gate.
LEMMA EnabledIs ==
  ASSUME NEW c \in Counters
  PROVE  LET d == UpdateCountingEnabled(c)
         IN  /\ d \in Counters /\ (c.sync_mode = ResetOnGateEnd => d.counting_enabled)
             /\ d.sync_mode = c.sync_mode /\ d.carry = c.carry /\ d.delay = c.delay
             /\ d.use_external_clock = c.use_external_clock
<1> DEFINE free == ~c.sync_enable \/ c.sync_mode = ResetOnGateEnd
           b    == IF setup.index = 2 THEN free \/ c.sync_mode = ResetAndRunOnGateStart
                   ELSE free \/ (c.gate # (c.sync_mode = PauseWhileGateActive))
           d    == [c EXCEPT !.counting_enabled = b]
<1>1. UpdateCountingEnabled(c) = d
  BY DEF UpdateCountingEnabled
<1>2. b \in BOOLEAN /\ (c.sync_mode = ResetOnGateEnd => b)
  <2>1. CASE setup.index = 2
    BY <2>1
  <2>2. CASE setup.index # 2
    BY <2>2
  <2> QED
    BY <2>1, <2>2
<1> HIDE DEF b
<1>3. d \in Counters
  BY <1>2 DEF Counters
<1>4. /\ d.counting_enabled = b /\ d.sync_mode = c.sync_mode /\ d.carry = c.carry /\ d.delay = c.delay
      /\ d.use_external_clock = c.use_external_clock
  BY DEF Counters
<1> QED
  BY <1>1, <1>2, <1>3, <1>4

\* A counter that starts from zero is at its target only if that is zero.
LEMMA CheckAtZero ==
  ASSUME NEW c \in Counters, c.counter = 0
  PROVE  IsAfter(CheckForIRQ(c, 0), c, c.counter, c.delay, c.target = 0, FALSE)
<1> DEFINE hit == c.target = 0
           t == c.reached_target \/ hit
           o == c.reached_overflow \/ FALSE
           next == [c EXCEPT !.counter = c.counter, !.delay = c.delay, !.reached_target = t, !.reached_overflow = o]
           last == [c EXCEPT !.reached_target = t, !.reached_overflow = o]
<1>1. c.target \in Nat /\ c.target < TIMER_OVERFLOW /\ c.counter \in Values /\ c.delay \in 0 .. TARGET_RESET_DELAY
      /\ TIMER_OVERFLOW \in Nat /\ TIMER_OVERFLOW > 1
  BY Constants DEF Counters, Values
<1>2. next = last
  BY DEF Counters
<1>3. ~(0 > c.target) /\ ~(c.counter >= TIMER_OVERFLOW) /\ (c.counter >= c.target <=> hit)
  BY <1>1
<1>4. CheckForIRQ(c, 0) = IF Asks(c, hit, FALSE) THEN Request(last) ELSE last
  <2> DEFINE wraps    == c.counter >= TIMER_OVERFLOW
             passed   == 0 > c.target
             wrapped  == wraps /\ (~c.reset_at_target \/ passed)
             start    == IF wraps /\ passed THEN [c EXCEPT !.counter = @ - TIMER_OVERFLOW] ELSE c
             reached  == start.counter >= c.target /\ (wraps \/ ~passed)
             reset    == reached /\ c.reset_at_target /\ c.target > 0 /\ c.target # TIMER_OVERFLOW - 1
             end      == IF reset THEN ResetAtTarget(start) ELSE start
             overflow == end.counter >= TIMER_OVERFLOW \/ wrapped
             then     == [end EXCEPT !.counter = IF overflow THEN @ % TIMER_OVERFLOW ELSE @,
                                     !.reached_target = @ \/ reached,
                                     !.reached_overflow = @ \/ overflow]
  <2>1. CheckForIRQ(c, 0) =
          IF (reached /\ c.irq_at_target) \/ (overflow /\ c.irq_on_overflow) THEN Request(then) ELSE then
    BY DEF CheckForIRQ
  <2>2. wraps = FALSE /\ passed = FALSE
    BY <1>3
  <2> HIDE DEF wraps, passed
  <2>3. start = c
    BY <2>2
  <2> HIDE DEF start
  <2>4. reached = hit
    BY <1>3, <2>2, <2>3
  <2>5. reset = FALSE
    BY <1>1, <2>4
  <2> HIDE DEF reached, reset
  <2>6. end = c
    BY <2>3, <2>5
  <2> HIDE DEF end
  <2>7. overflow = FALSE
    BY <1>3, <2>2, <2>6 DEF wraps
  <2> HIDE DEF overflow
  <2>8. then = last
    BY <2>4, <2>6, <2>7 DEF Counters
  <2> HIDE DEF then
  <2> QED
    BY <2>1, <2>4, <2>7, <2>8 DEF Asks
<1> QED
  <2> HIDE DEF last
  <2>1. hit \in BOOLEAN /\ FALSE \in BOOLEAN
    OBVIOUS
  <2>2. next = [c EXCEPT !.counter = c.counter, !.delay = c.delay, !.reached_target = c.reached_target \/ hit,
                         !.reached_overflow = c.reached_overflow \/ FALSE]
    OBVIOUS
  <2> HIDE DEF next, hit
  <2>3. IsAfter(IF Asks(c, hit, FALSE) THEN Request(next) ELSE next, c, c.counter, c.delay, hit, FALSE)
    BY <1>1, <2>1, <2>2, Reaches
  <2> QED
    BY <1>2, <1>4, <2>3 DEF hit

\* A write of the mode.
LEMMA WithModeIs ==
  ASSUME NEW c, Consistent(c), setup \in Setups, NEW m \in setup.modes
  PROVE  Consistent(WithMode(c, m))
<1> DEFINE b == [x \in DOMAIN c |-> IF x \in DOMAIN m THEN m[x] ELSE c[x]]
           d == UpdateCountingEnabled(b)
           l == SetLineState(d, FALSE)
           t == IF d.use_external_clock THEN 0 ELSE 1
           r == [l EXCEPT !.interrupt_request_n = TRUE, !.irq_done = FALSE, !.counter = 0, !.delay = t]
<1>1. m \in Mode /\ (m.use_external_clock => setup.index = 2)
  BY SetupIs
<1>2. c \in Counters /\ c.carry \in 0 .. Num - 1
  BY DEF Consistent, Carries, Timer
<1>3. WithMode(c, m) = CheckForIRQ(r, 0)
  BY DEF WithMode
<1>4. b \in Counters /\ b.carry = c.carry /\ (b.use_external_clock => setup.index = 2)
  BY <1>1, <1>2, ModeOver
<1> HIDE DEF b
<1>5. /\ d \in Counters /\ (d.sync_mode = ResetOnGateEnd => d.counting_enabled) /\ d.carry = c.carry
      /\ (d.use_external_clock => setup.index = 2)
  BY <1>4, EnabledIs
<1> HIDE DEF d
<1>6. l = [d EXCEPT !.line = FALSE]
  <2>1. d.irq \in BOOLEAN
    BY <1>5 DEF Counters
  <2>2. (d.irq \/ (FALSE /\ ~d.line)) = d.irq
    BY <2>1
  <2> QED
    BY <1>5, <2>2 DEF SetLineState, Counters
<1> HIDE DEF l
<1>7. /\ l \in Counters /\ l.sync_mode = d.sync_mode /\ l.counting_enabled = d.counting_enabled /\ l.carry = d.carry
      /\ l.use_external_clock = d.use_external_clock
  BY <1>5, <1>6 DEF Counters
<1>8. t \in 0 .. TARGET_RESET_DELAY /\ (d.use_external_clock => t = 0) /\ 0 \in Values
  BY Constants DEF TARGET_RESET_DELAY, Values
<1> HIDE DEF t
<1>9. /\ r.sync_mode = d.sync_mode /\ r.counting_enabled = d.counting_enabled /\ r.carry = d.carry
      /\ r.use_external_clock = d.use_external_clock /\ r.counter = 0 /\ r.delay = t
  BY <1>7, <1>8 DEF Counters
<1>10. r \in Counters
  BY <1>7, <1>8 DEF Counters
<1> HIDE DEF r
<1> DEFINE e == CheckForIRQ(r, 0)
<1>11. e \in Counters /\ SameSettings(e, r) /\ e.delay = r.delay
  BY <1>9, <1>10, CheckAtZero DEF IsAfter
<1> HIDE DEF e
<1>12. Consistent(e)
  BY <1>2, <1>5, <1>8, <1>9, <1>11 DEF Consistent, Carries, Timer, SameSettings
<1> QED
  BY <1>3, <1>12 DEF e

\* Writes of the counter and the target.
LEMMA WithValueIs ==
  ASSUME NEW c, Consistent(c), NEW value \in Values
  PROVE  Consistent(WithCounter(c, value)) /\ Consistent(WithTarget(c, value))
<1> DEFINE t == IF c.use_external_clock THEN 0 ELSE 1
           d == [c EXCEPT !.counter = value, !.delay = t]
           e == [c EXCEPT !.target = value]
<1>1. c \in Counters /\ (c.use_external_clock => c.delay = 0)
  BY DEF Consistent, Carries, Timer
<1>2. t \in 0 .. TARGET_RESET_DELAY /\ (c.use_external_clock => t = 0)
  BY DEF TARGET_RESET_DELAY
<1>3. WithCounter(c, value) = d /\ WithTarget(c, value) = e
  BY DEF WithCounter, WithTarget
<1> HIDE DEF t
<1>4. d \in Counters
  BY <1>1, <1>2 DEF Counters
<1>5. e \in Counters
  BY <1>1 DEF Counters
<1>6. /\ d.delay = t /\ d.use_external_clock = c.use_external_clock /\ d.carry = c.carry
      /\ d.sync_mode = c.sync_mode /\ d.counting_enabled = c.counting_enabled
  BY <1>1, <1>2 DEF Counters
<1>7. /\ e.delay = c.delay /\ e.use_external_clock = c.use_external_clock /\ e.carry = c.carry
      /\ e.sync_mode = c.sync_mode /\ e.counting_enabled = c.counting_enabled
  BY <1>1 DEF Counters
<1> HIDE DEF d, e
<1>8. Consistent(d)
  BY <1>2, <1>4, <1>6 DEF Consistent, Carries, Timer
<1>9. Consistent(e)
  BY <1>1, <1>5, <1>7 DEF Consistent, Carries, Timer
<1> QED
  BY <1>3, <1>8, <1>9

\* An edge of the gate.
LEMMA WithGateIs ==
  ASSUME NEW c, Consistent(c), NEW state \in BOOLEAN
  PROVE  Consistent(WithGate(c, state))
<1> DEFINE resets == (c.sync_mode = ResetOnGateEnd /\ ~state) \/ (c.sync_mode = ResetAndRunOnGateStart /\ state)
           d == [c EXCEPT !.gate = state]
           v == IF resets THEN 0 ELSE c.counter
           s == c.sync_mode = FreeRunOnGateEnd => state
           e == [d EXCEPT !.counter = v, !.sync_enable = s]
           f == UpdateCountingEnabled(e)
<1>1. c \in Counters /\ (c.use_external_clock => c.delay = 0)
  BY DEF Consistent, Carries, Timer
<1>2. d \in Counters
  BY <1>1 DEF Counters
<1>3. /\ d.delay = c.delay /\ d.use_external_clock = c.use_external_clock /\ d.carry = c.carry
      /\ d.sync_mode = c.sync_mode /\ d.counting_enabled = c.counting_enabled /\ d.counter = c.counter
  BY <1>1 DEF Counters
<1>4. WithGate(c, state) = IF ~c.sync_enable THEN d ELSE f
  <2> HIDE DEF d
  <2>1. [d EXCEPT !.counter = IF resets THEN 0 ELSE @, !.sync_enable = s] = e
    BY <1>3
  <2> HIDE DEF e
  <2> QED
    BY <2>1 DEF WithGate, d
<1>5. v \in Values /\ s \in BOOLEAN
  BY <1>1, Constants DEF Counters, Values
<1> HIDE DEF d, v, s
<1>6. e \in Counters
  BY <1>2, <1>5 DEF Counters
<1>7. /\ e.delay = d.delay /\ e.use_external_clock = d.use_external_clock /\ e.carry = d.carry
      /\ e.sync_mode = d.sync_mode
  BY <1>2, <1>5 DEF Counters
<1> HIDE DEF e
<1>8. /\ f \in Counters /\ (e.sync_mode = ResetOnGateEnd => f.counting_enabled)
      /\ f.sync_mode = e.sync_mode /\ f.carry = e.carry /\ f.delay = e.delay
      /\ f.use_external_clock = e.use_external_clock
  BY <1>6, EnabledIs
<1> HIDE DEF f
<1>9. Consistent(d)
  BY <1>1, <1>2, <1>3 DEF Consistent, Carries, Timer
<1>10. Consistent(f)
  BY <1>1, <1>3, <1>7, <1>8 DEF Consistent, Carries, Timer
<1> QED
  BY <1>4, <1>9, <1>10

\* The gate alone.
LEMMA GateAlone ==
  ASSUME NEW c, Consistent(c), setup.index # 2, NEW state \in BOOLEAN,
         ~(c.sync_enable /\ ~c.use_external_clock /\ (c.sync_mode # ResetOnGateEnd \/ ~state))
  PROVE  WithGate(c, state) = [c EXCEPT !.gate = state]
<1>1. c \in Counters /\ ~c.use_external_clock
  BY DEF Consistent, Carries, Timer
<1>2. CASE ~c.sync_enable
  BY <1>2 DEF WithGate
<1>3. CASE c.sync_enable
  <2> DEFINE d == [c EXCEPT !.gate = state]
             resets == (c.sync_mode = ResetOnGateEnd /\ ~state) \/ (c.sync_mode = ResetAndRunOnGateStart /\ state)
             s == c.sync_mode = FreeRunOnGateEnd => state
             e == [d EXCEPT !.counter = IF resets THEN 0 ELSE @, !.sync_enable = s]
             free == ~e.sync_enable \/ e.sync_mode = ResetOnGateEnd
             b == free \/ (e.gate # (e.sync_mode = PauseWhileGateActive))
  <2>1. c.sync_mode = ResetOnGateEnd /\ state /\ c.counting_enabled = TRUE /\ c.sync_enable = TRUE
    <3>1. c.sync_mode = ResetOnGateEnd /\ state /\ c.counting_enabled
      BY <1>1, <1>3 DEF Consistent
    <3>2. c.counting_enabled \in BOOLEAN /\ c.sync_enable \in BOOLEAN
      BY <1>1 DEF Counters
    <3> QED
      BY <1>3, <3>1, <3>2
  <2>2. WithGate(c, state) = UpdateCountingEnabled(e)
    BY <1>3 DEF WithGate
  <2>3. UpdateCountingEnabled(e) = [e EXCEPT !.counting_enabled = b]
    BY DEF UpdateCountingEnabled
  <2>4. resets = FALSE /\ s = TRUE
    BY <2>1 DEF ResetOnGateEnd, ResetAndRunOnGateStart, FreeRunOnGateEnd
  <2> HIDE DEF resets, s
  <2>5. d \in Counters /\ d.sync_enable = c.sync_enable /\ d.sync_mode = c.sync_mode
        /\ d.counting_enabled = c.counting_enabled
    BY <1>1 DEF Counters
  <2> HIDE DEF d
  <2>6. e = d
    BY <2>1, <2>4, <2>5 DEF Counters
  <2> HIDE DEF e
  <2>7. b = TRUE
    BY <2>1, <2>5, <2>6
  <2> HIDE DEF b
  <2>8. [e EXCEPT !.counting_enabled = b] = d
    BY <2>1, <2>5, <2>6, <2>7 DEF Counters
  <2> QED
    BY <2>2, <2>3, <2>8 DEF d
<1> QED
  BY <1>2, <1>3

\* What a change of the gate alone leaves as it was.
LEMMA GateIs ==
  ASSUME NEW c, Consistent(c), NEW state \in BOOLEAN
  PROVE  LET d == [c EXCEPT !.gate = state]
         IN  /\ Consistent(d) /\ Alike(d, c) /\ d.gate = state /\ d.div = c.div /\ d.carry = c.carry
             /\ (d.irq <=> c.irq)
<1> DEFINE d == [c EXCEPT !.gate = state]
<1>1. c \in Counters
  BY DEF Consistent, Carries, Timer
<1>2. d \in Counters
  BY <1>1 DEF Counters
<1>3. Alike(d, c) /\ d.gate = state /\ d.div = c.div /\ d.carry = c.carry /\ (d.irq <=> c.irq)
  BY <1>1 DEF Counters, Alike, SameReached
<1> HIDE DEF d
<1>4. Consistent(d)
  BY <1>2, <1>3 DEF Consistent, Carries, Timer, Alike
<1> QED
  BY <1>3, <1>4 DEF d

\* What an acknowledgement of the interrupt does.
LEMMA AcknowledgedIs ==
  ASSUME NEW c, Consistent(c)
  PROVE  LET d == WithoutIRQ(c)
         IN  /\ Consistent(d) /\ Alike(d, c) /\ ~d.irq /\ d.div = c.div /\ d.carry = c.carry
             /\ (d.gate <=> c.gate)
<1> DEFINE d == [c EXCEPT !.irq = FALSE]
<1>1. c \in Counters
  BY DEF Consistent, Carries, Timer
<1>2. d \in Counters
  BY <1>1 DEF Counters
<1>3. Alike(d, c) /\ ~d.irq /\ d.div = c.div /\ d.carry = c.carry /\ (d.gate <=> c.gate)
  BY <1>1 DEF Counters, Alike, SameReached
<1>4. WithoutIRQ(c) = d
  BY DEF WithoutIRQ
<1> HIDE DEF d
<1>5. Consistent(d)
  BY <1>2, <1>3 DEF Consistent, Carries, Timer, Alike
<1> QED
  BY <1>3, <1>4, <1>5

\* What a read of the flags does.
LEMMA FlagsAre ==
  ASSUME NEW c, Consistent(c)
  PROVE  LET d == WithReachedRead(c)
         IN  /\ Consistent(d) /\ SameSettings(d, c) /\ d.counter = c.counter /\ d.delay = c.delay
             /\ (d.irq_done <=> c.irq_done)
<1> DEFINE d == [c EXCEPT !.reached_target = FALSE, !.reached_overflow = FALSE]
<1>1. c \in Counters
  BY DEF Consistent, Carries, Timer
<1>2. d \in Counters
  BY <1>1 DEF Counters
<1>3. SameSettings(d, c)
  BY <1>1, SetReached
<1>4. d.counter = c.counter /\ d.delay = c.delay /\ (d.irq_done <=> c.irq_done)
  BY <1>1 DEF Counters
<1>5. WithReachedRead(c) = d
  BY DEF WithReachedRead
<1> HIDE DEF d
<1>6. Consistent(d)
  BY <1>2, <1>3, <1>4 DEF Consistent, Carries, Timer, SameSettings
<1> QED
  BY <1>3, <1>4, <1>5, <1>6

\* What the time of the event depends on.
LEMMA SameDue ==
  ASSUME NEW c, NEW d, d.counter = c.counter, d.target = c.target, d.delay = c.delay,
         d.div = c.div, d.carry = c.carry, d.use_external_clock <=> c.use_external_clock,
         d.counting_enabled <=> c.counting_enabled, d.irq_at_target <=> c.irq_at_target,
         d.irq_on_overflow <=> c.irq_on_overflow, d.irq_repeat <=> c.irq_repeat, d.irq_done <=> c.irq_done
  PROVE  GetTicksUntilNextInterrupt(d) = GetTicksUntilNextInterrupt(c)
<1>1. ToTarget(d) = ToTarget(c)
  BY DEF ToTarget
<1>2. Distances(d) = Distances(c)
  BY <1>1 DEF Distances
<1>3. \A t : TicksUntil(d, t) = TicksUntil(c, t)
  BY DEF TicksUntil
<1>4. {TicksUntil(d, t) : t \in Distances(d)} = {TicksUntil(c, t) : t \in Distances(c)}
  BY <1>2, <1>3
<1>5. SysClkTicksUntilNextInterrupt(d) = SysClkTicksUntilNextInterrupt(c)
  <2> DEFINE x == {TicksUntil(c, t) : t \in Distances(c)}
             y == {TicksUntil(d, t) : t \in Distances(d)}
             p == IF ~c.counting_enabled \/ (~c.irq_repeat /\ c.irq_done) THEN {} ELSE x
             q == IF ~d.counting_enabled \/ (~d.irq_repeat /\ d.irq_done) THEN {} ELSE y
  <2>1. SysClkTicksUntilNextInterrupt(c) = Max({1, Min({MaxSliceTicks} \cup p)})
    BY DEF SysClkTicksUntilNextInterrupt
  <2>2. SysClkTicksUntilNextInterrupt(d) = Max({1, Min({MaxSliceTicks} \cup q)})
    BY DEF SysClkTicksUntilNextInterrupt
  <2>3. y = x
    BY <1>4
  <2> HIDE DEF x, y
  <2>4. q = p
    BY <2>3
  <2> QED
    BY <2>1, <2>2, <2>4
<1> QED
  BY <1>5 DEF GetTicksUntilNextInterrupt

-----------------------------------------------------------------------------
(* Reads that do without bringing the counter up to date *)

Counted(c, n) == IF ~c.counting_enabled THEN 0 ELSE IF c.use_external_clock THEN (n + c.div) \div Divider ELSE n
HeldFor(c, n) == Min({c.delay, Counted(c, n)})
EndOf(c, n) == c.counter + (Counted(c, n) - HeldFor(c, n))
DivAfter(c, n) == IF c.counting_enabled /\ c.use_external_clock THEN (n + c.div) % Divider ELSE c.div

\* The counter of UpdateForRead.
CountedOn(c, n) == [c EXCEPT !.delay = c.delay - HeldFor(c, n), !.counter = EndOf(c, n)]

\* The numbers' types.
LEMMA CountedTypes ==
  ASSUME NEW c, Timer(c), NEW n \in Nat
  PROVE  /\ Counted(c, n) \in Nat /\ HeldFor(c, n) \in Nat /\ DivAfter(c, n) \in 0 .. Divider - 1
         /\ EndOf(c, n) \in Nat /\ c.delay - HeldFor(c, n) \in 0 .. TARGET_RESET_DELAY
         /\ ~c.counting_enabled => HeldFor(c, n) = 0 /\ EndOf(c, n) = c.counter
<1>1. /\ c \in Counters /\ c.delay \in 0 .. TARGET_RESET_DELAY /\ c.delay \in Nat /\ c.counter \in Nat
      /\ Divider \in Nat \ {0} /\ c.div \in 0 .. Divider - 1 /\ n + c.div \in Nat
  BY Constants DEF Timer, Counters, Values, TARGET_RESET_DELAY
<1>2. (n + c.div) \div Divider \in Nat /\ (n + c.div) % Divider \in 0 .. Divider - 1
  BY <1>1, Division
<1>3. Counted(c, n) \in Nat /\ DivAfter(c, n) \in 0 .. Divider - 1 /\ (~c.counting_enabled => Counted(c, n) = 0)
  BY <1>1, <1>2 DEF Counted, DivAfter
<1>4. HeldFor(c, n) = IF c.delay <= Counted(c, n) THEN c.delay ELSE Counted(c, n)
  BY <1>1, <1>3, MinTwo DEF HeldFor
<1> QED
  BY <1>1, <1>3, <1>4 DEF EndOf, TARGET_RESET_DELAY

\* If it has only counted, it is that one, and the divider has its own carry.
LEMMA AddClocksCounts ==
  ASSUME NEW c, Timer(c), NEW n \in Nat, OnlyCounts(c, EndOf(c, n))
  PROVE  AddClocks(c, n) = [CountedOn(c, n) EXCEPT !.div = DivAfter(c, n)]
<1> DEFINE x == CountedOn(c, n)
           h == HeldFor(c, n)
           end == EndOf(c, n)
<1>1. /\ c \in Counters /\ c.delay \in 0 .. TARGET_RESET_DELAY /\ c.delay \in Nat /\ c.counter \in Nat
      /\ Divider \in Nat \ {0} /\ c.div \in 0 .. Divider - 1
  BY Constants DEF Timer, Counters, Values, TARGET_RESET_DELAY
<1>2. CASE ~c.counting_enabled
  <2>1. h = 0 /\ end = c.counter /\ DivAfter(c, n) = c.div /\ c.delay - 0 = c.delay
    BY <1>1, <1>2, CountedTypes DEF DivAfter
  <2>2. x = [c EXCEPT !.delay = c.delay, !.counter = c.counter]
    BY <2>1 DEF CountedOn
  <2>3. x = c
    BY <1>1, <2>2 DEF Counters
  <2>4. [c EXCEPT !.div = c.div] = c
    BY <1>1 DEF Counters
  <2> QED
    BY <1>2, <2>1, <2>3, <2>4 DEF AddClocks
<1>3. CASE c.counting_enabled /\ ~c.use_external_clock
  <2>1. Counted(c, n) = n /\ DivAfter(c, n) = c.div
    BY <1>3 DEF Counted, DivAfter
  <2>2. AddTicks(c, n) = [[c EXCEPT !.delay = c.delay - h] EXCEPT !.counter = end]
    <3> DEFINE d == [c EXCEPT !.delay = c.delay - h]
    <3>1. Hold(c, n) = [c |-> d, count |-> n - h]
      BY <2>1, <1>1 DEF Hold, HeldFor, Counters
    <3>2. d.counter = c.counter
      BY <1>1 DEF Counters
    <3> HIDE DEF d, h
    <3>3. d.counter + (n - h) = end
      BY <2>1, <3>2 DEF EndOf, h
    <3>4. OnlyCounts(c, d.counter + (n - h))
      BY <3>3
    <3>5. AddTicks(c, n) = [d EXCEPT !.counter = d.counter + (n - h)]
      BY <3>1, <3>4 DEF AddTicks
    <3> QED
      BY <3>3, <3>5 DEF d
  <2>3. AddTicks(c, n) = x
    BY <2>2 DEF CountedOn
  <2>4. [x EXCEPT !.div = c.div] = x
    BY <1>1 DEF Counters, CountedOn
  <2> QED
    BY <1>3, <2>1, <2>3, <2>4 DEF AddClocks
<1>4. CASE c.counting_enabled /\ c.use_external_clock
  <2> DEFINE v == DivAfter(c, n)
             j == Counted(c, n)
             e == [c EXCEPT !.div = v]
             d == [e EXCEPT !.delay = c.delay - h]
  <2>1. v = (n + c.div) % Divider /\ j = (n + c.div) \div Divider
    BY <1>4 DEF Counted, DivAfter
  <2>2. AddClocks(c, n) = AddTicks(e, j)
    BY <1>4, <2>1 DEF AddClocks
  <2>3. e.counter = c.counter /\ e.target = c.target /\ e.delay = c.delay /\ e \in Counters
    <3> HIDE DEF v
    <3>1. v \in 0 .. Divider - 1
      BY CountedTypes DEF v
    <3> QED
      BY <1>1, <3>1 DEF Counters
  <2> HIDE DEF e
  <2>4. Hold(e, j) = [c |-> d, count |-> j - h]
    BY <2>3 DEF Hold, HeldFor, Counters
  <2>5. d.counter = c.counter
    BY <2>3 DEF Counters
  <2> HIDE DEF d
  <2>6. d.counter + (j - h) = end
    BY <2>5 DEF EndOf
  <2>7. OnlyCounts(e, d.counter + (j - h))
    BY <2>3, <2>6 DEF OnlyCounts
  <2>8. AddTicks(e, j) = [d EXCEPT !.counter = end]
    BY <2>4, <2>6, <2>7 DEF AddTicks
  <2>9. [d EXCEPT !.counter = end] = [x EXCEPT !.div = v]
    <3> HIDE DEF v, h, end
    <3>1. x = [c EXCEPT !.delay = c.delay - h, !.counter = end]
      BY DEF CountedOn, h, end
    <3> HIDE DEF x
    <3> QED
      BY <1>1, <3>1 DEF Counters, d, e
  <2> QED
    BY <2>2, <2>8, <2>9
<1> QED
  BY <1>2, <1>3, <1>4

\* A read of the flags and counting do not mind each other.
LEMMA FlagsCount ==
  ASSUME NEW c, Consistent(c), NEW n \in Nat, OnlyCounts(c, EndOf(c, n))
  PROVE  WithReachedRead(AddClocks(c, n)) = AddClocks(WithReachedRead(c), n)
<1> DEFINE d == WithReachedRead(c)
<1>1. Timer(c) /\ c \in Counters
  BY DEF Consistent, Carries, Timer
<1>2. d = [c EXCEPT !.reached_target = FALSE, !.reached_overflow = FALSE]
  BY DEF WithReachedRead
<1>3. Timer(d) /\ SameSettings(d, c) /\ d.counter = c.counter /\ d.delay = c.delay
  BY FlagsAre DEF Consistent, Carries
<1> HIDE DEF d
<1>4. Counted(d, n) = Counted(c, n)
  BY <1>3 DEF Counted, SameSettings
<1>5. HeldFor(d, n) = HeldFor(c, n) /\ DivAfter(d, n) = DivAfter(c, n)
  BY <1>3, <1>4 DEF HeldFor, DivAfter, SameSettings
<1>6. EndOf(d, n) = EndOf(c, n)
  BY <1>3, <1>4, <1>5 DEF EndOf
<1>7. OnlyCounts(d, EndOf(d, n))
  BY <1>3, <1>6 DEF OnlyCounts, SameSettings
<1> DEFINE a == c.delay - HeldFor(c, n)
           b == EndOf(c, n)
           v == DivAfter(c, n)
<1>8. AddClocks(c, n) = [[c EXCEPT !.delay = a, !.counter = b] EXCEPT !.div = v]
  BY <1>1, AddClocksCounts DEF CountedOn
<1>9. AddClocks(d, n) = [[d EXCEPT !.delay = a, !.counter = b] EXCEPT !.div = v]
  BY <1>3, <1>5, <1>6, <1>7, AddClocksCounts DEF CountedOn
<1> HIDE DEF a, b, v
<1>10. WithReachedRead([[c EXCEPT !.delay = a, !.counter = b] EXCEPT !.div = v])
         = [[d EXCEPT !.delay = a, !.counter = b] EXCEPT !.div = v]
  BY <1>1, <1>2 DEF Counters, WithReachedRead
<1> QED
  BY <1>8, <1>9, <1>10 DEF d

\* What is read is the same.
LEMMA ReadsCount ==
  ASSUME NEW c, Timer(c), NEW n \in Nat, OnlyCounts(c, EndOf(c, n))
  PROVE  Reads(CountedOn(c, n)) = Reads(AddClocks(c, n))
<1> DEFINE x == CountedOn(c, n)
           v == DivAfter(c, n)
           y == [x EXCEPT !.div = v]
<1>1. AddClocks(c, n) = y
  BY AddClocksCounts
<1>2. x.delay = y.delay /\ x.counter = y.counter /\ x.target = y.target /\ x.sync_enable = y.sync_enable
      /\ x.interrupt_request_n = y.interrupt_request_n /\ x.reached_target = y.reached_target
      /\ x.reached_overflow = y.reached_overflow
  <2> HIDE DEF v
  <2> QED
    BY DEF CountedOn, Timer, Counters
<1> HIDE DEF x, y
<1>3. GetReadCounter(x) = GetReadCounter(y)
  BY <1>2 DEF GetReadCounter
<1> QED
  BY <1>1, <1>2, <1>3 DEF Reads, x

\* The way that UpdateForRead can go.
LEMMA CountingOnlyIs ==
  ASSUME Timer(cs), pending \in Nat
  PROVE  /\ CountingOnly.possible => Num = Den /\ OnlyCounts(cs, EndOf(cs, pending))
         /\ CountingOnly.c = CountedOn(cs, pending)
<1> DEFINE count == Counted(cs, pending)
           h == HeldFor(cs, pending)
           d == [cs EXCEPT !.delay = cs.delay - h]
           s == Hold(cs, count)
           end == cs.counter + s.count
<1>1. cs \in Counters
  BY DEF Timer
<1>2. s = [c |-> d, count |-> count - h]
  BY <1>1 DEF Hold, HeldFor, Counters
<1>3. CountingOnly = [possible |-> Num = Den /\ ~IsAnyEventDue /\ OnlyCounts(cs, end),
                      c |-> [s.c EXCEPT !.counter = end]]
  BY DEF CountingOnly, Counted
<1> HIDE DEF s, d, count, h
<1>4. end = EndOf(cs, pending)
  BY <1>2 DEF EndOf, count, h
<1>5. s.c = d
  BY <1>2
<1> HIDE DEF end
<1>6. CountingOnly.c = [d EXCEPT !.counter = EndOf(cs, pending)]
  BY <1>3, <1>4, <1>5
<1>7. CountingOnly.possible => Num = Den /\ OnlyCounts(cs, EndOf(cs, pending))
  BY <1>3, <1>4
<1> QED
  BY <1>6, <1>7 DEF d, h, CountedOn

-----------------------------------------------------------------------------
(* The invariant *)

\* The console's counter is the emulator's, given the pending ticks.
IInv ==
  /\ setup \in Setups /\ pending \in Nat
  /\ Consistent(cs)
  /\ due = GetTicksUntilNextInterrupt(cs)
  /\ hw = AddSysClkTicks(cs, pending)

\* The counters of a step.
Holds(c, d, n, t) ==
  n \in Nat /\ Consistent(c) /\ t = GetTicksUntilNextInterrupt(c) /\ d = AddSysClkTicks(c, n)

\* A step leaves the setup alone.
LEMMA NextHolds ==
  ASSUME IInv, setup' = setup, Holds(cs', hw', pending', due')
  PROVE  IInv'
<1>1. setup' \in Setups /\ pending' \in Nat
  BY DEF IInv, Holds
<1>2. Consistent(cs)'
  BY DEF Holds, Consistent, Carries, Num
<1>3. due' = GetTicksUntilNextInterrupt(cs)'
  BY DEF Holds, GetTicksUntilNextInterrupt, Num, Den
<1>4. hw' = AddSysClkTicks(cs, pending)'
  BY DEF Holds, AddSysClkTicks, Num, Den
<1> QED
  BY <1>1, <1>2, <1>3, <1>4 DEF IInv

\* The counter that an access is to be of.
LEMMA CurrentIs ==
  ASSUME IInv
  PROVE  Current = hw /\ Consistent(hw) /\ SameMode(hw, cs)
<1>1. Carries(cs) /\ pending \in Nat /\ setup \in Setups /\ hw = AddSysClkTicks(cs, pending)
  BY DEF IInv, Consistent
<1>2. Current = hw
  BY <1>1, AddNoTicks DEF Current
<1>3. Carries(hw) /\ SameMode(hw, cs)
  BY <1>1, TicksCarry
<1>4. Consistent(hw)
  BY <1>3 DEF IInv, Consistent, SameMode
<1> QED
  BY <1>2, <1>3, <1>4

\* An access brings the counter up to date.
LEMMA SynchronizeHolds ==
  ASSUME IInv, NEW c, Consistent(c), Synchronize(c), hw' = c
  PROVE  IInv'
<1>1. setup' = setup /\ cs' = c /\ pending' = 0 /\ due' = GetTicksUntilNextInterrupt(c)
  BY DEF Synchronize
<1>2. AddSysClkTicks(c, 0) = c
  BY AddNoTicks DEF IInv, Consistent
<1>3. Holds(cs', hw', pending', due')
  BY <1>1, <1>2 DEF Holds
<1> QED
  BY <1>1, <1>3, NextHolds

\* The invariant holds at first...
LEMMA InitHolds ==
  Init => IInv
<1> SUFFICES ASSUME Init PROVE IInv
  OBVIOUS
<1>1. setup \in Setups /\ cs = Reset /\ hw = Reset /\ pending = 0 /\ due = GetTicksUntilNextInterrupt(cs)
  BY DEF Init
<1>2. Reset \in Counters
  BY Constants DEF Reset, Counters, Values, TARGET_RESET_DELAY
<1>3. Reset.delay = 0 /\ Reset.carry = 0 /\ ~Reset.use_external_clock /\ Reset.counting_enabled
  BY DEF Reset
<1>4. Consistent(Reset)
  BY <1>1, <1>2, <1>3, SetupIs DEF Consistent, Carries, Timer
<1>5. AddSysClkTicks(Reset, 0) = Reset
  BY <1>1, <1>4, AddNoTicks DEF Consistent
<1> QED
  BY <1>1, <1>4, <1>5 DEF IInv

\* ... and is kept by every step.
LEMMA TickHolds ==
  IInv /\ Tick => IInv'
<1> SUFFICES ASSUME IInv, Tick PROVE IInv'
  OBVIOUS
<1>1. Carries(cs) /\ Consistent(cs) /\ pending \in Nat /\ setup \in Setups /\ hw = AddSysClkTicks(cs, pending)
      /\ due = GetTicksUntilNextInterrupt(cs)
  BY DEF IInv, Consistent
<1>2. pending' = pending + 1 /\ hw' = TickOne(hw) /\ setup' = setup /\ cs' = cs /\ due' = due
  BY DEF Tick
<1>3. AddSysClkTicks(cs, pending + 1) = TickOne(AddSysClkTicks(cs, pending))
  BY <1>1, OneTickMore
<1>4. Holds(cs', hw', pending', due')
  BY <1>1, <1>2, <1>3 DEF Holds
<1> QED
  BY <1>2, <1>4, NextHolds

\* The event.
LEMMA RunEventHolds ==
  IInv /\ RunEvent => IInv'
<1> SUFFICES ASSUME IInv, RunEvent PROVE IInv'
  OBVIOUS
<1>1. Carries(cs) /\ pending \in Nat /\ setup \in Setups /\ hw = AddSysClkTicks(cs, pending)
      /\ due = GetTicksUntilNextInterrupt(cs)
  BY DEF IInv, Consistent
<1> DEFINE c == AddSysClkTicks(cs, due)
<1>2. pending >= due /\ cs' = c /\ pending' = pending - due /\ setup' = setup /\ hw' = hw
  BY DEF RunEvent, IsAnyEventDue
<1>3. due' = GetTicksUntilNextInterrupt(c)
  <2>1. due' = GetTicksUntilNextInterrupt(cs')
    BY DEF RunEvent
  <2> QED
    BY <1>2, <2>1
<1>4. due \in Nat
  BY <1>1, QuietUntilDue
<1>5. pending - due \in Nat /\ due + (pending - due) = pending
  BY <1>1, <1>2, <1>4
<1>6. AddSysClkTicks(c, pending - due) = AddSysClkTicks(cs, due + (pending - due))
  BY <1>1, <1>4, <1>5, BatchesAddUp
<1>7. Carries(c) /\ SameMode(c, cs)
  BY <1>1, <1>4, TicksCarry
<1> HIDE DEF c
<1>8. Consistent(c)
  BY <1>7 DEF IInv, Consistent, SameMode
<1>9. Holds(cs', hw', pending', due')
  BY <1>1, <1>2, <1>3, <1>5, <1>6, <1>8 DEF Holds
<1> QED
  BY <1>2, <1>9, NextHolds

\* Accesses to the counter, the target and the mode.
LEMMA AccessHolds ==
  IInv /\ (InvokeEarly \/ WriteCounter \/ WriteTarget \/ WriteMode) => IInv'
<1> SUFFICES ASSUME IInv PROVE InvokeEarly \/ WriteCounter \/ WriteTarget \/ WriteMode => IInv'
  OBVIOUS
<1>1. Current = hw /\ Consistent(hw) /\ setup \in Setups
  BY CurrentIs DEF IInv
<1>2. ASSUME InvokeEarly PROVE IInv'
  BY <1>1, <1>2, SynchronizeHolds DEF InvokeEarly
<1>3. ASSUME WriteCounter PROVE IInv'
  <2>1. PICK value \in Values : Synchronize(WithCounter(hw, value)) /\ hw' = WithCounter(hw, value)
    BY <1>1, <1>3 DEF WriteCounter
  <2>2. Consistent(WithCounter(hw, value))
    BY <1>1, WithValueIs
  <2> QED
    BY <2>1, <2>2, SynchronizeHolds
<1>4. ASSUME WriteTarget PROVE IInv'
  <2>1. PICK value \in Values : Synchronize(WithTarget(hw, value)) /\ hw' = WithTarget(hw, value)
    BY <1>1, <1>4 DEF WriteTarget
  <2>2. Consistent(WithTarget(hw, value))
    BY <1>1, WithValueIs
  <2> QED
    BY <2>1, <2>2, SynchronizeHolds
<1>5. ASSUME WriteMode PROVE IInv'
  <2>1. PICK mode \in setup.modes : Synchronize(WithMode(hw, mode)) /\ hw' = WithMode(hw, mode)
    BY <1>1, <1>5 DEF WriteMode
  <2>2. Consistent(WithMode(hw, mode))
    BY <1>1, WithModeIs
  <2> QED
    BY <2>1, <2>2, SynchronizeHolds
<1> QED
  BY <1>2, <1>3, <1>4, <1>5

\* Edges of the gate, for which the counter may not be brought up to date.
LEMMA SetGateHolds ==
  IInv /\ SetGate => IInv'
<1> SUFFICES ASSUME IInv, SetGate PROVE IInv'
  OBVIOUS
<1> DEFINE state == ~cs.gate
<1>1. /\ Consistent(cs) /\ Carries(cs) /\ pending \in Nat /\ setup \in Setups /\ hw = AddSysClkTicks(cs, pending)
      /\ due = GetTicksUntilNextInterrupt(cs) /\ cs \in Counters
  BY DEF IInv, Consistent, Carries, Timer
<1>2. Current = hw /\ Consistent(hw) /\ SameMode(hw, cs) /\ Carries(hw) /\ hw \in Counters
  BY CurrentIs DEF Consistent, Carries, Timer
<1>3. (~hw.gate) = state /\ state \in BOOLEAN
  <2>1. hw.gate = cs.gate
    BY <1>1, <1>2 DEF SameMode, Counters
  <2> QED
    BY <2>1
<1>4. setup.index # 2 /\ hw' = WithGate(hw, state)
  BY <1>3 DEF SetGate
<1>5. CASE UpdatesForGate(state)
  <2>1. Synchronize(WithGate(hw, state))
    BY <1>2, <1>5 DEF SetGate
  <2>2. Consistent(WithGate(hw, state))
    <3> HIDE DEF state
    <3> QED
      BY <1>2, <1>3, WithGateIs
  <2> QED
    BY <1>4, <2>1, <2>2, SynchronizeHolds
<1>6. CASE ~UpdatesForGate(state)
  <2>1. cs' = WithGate(cs, state) /\ setup' = setup /\ pending' = pending /\ due' = due
    BY <1>6 DEF SetGate
  <2> HIDE DEF state
  <2>2. ~(cs.sync_enable /\ ~cs.use_external_clock /\ (cs.sync_mode # ResetOnGateEnd \/ ~state))
    BY <1>6 DEF UpdatesForGate
  <2>3. ~(hw.sync_enable /\ ~hw.use_external_clock /\ (hw.sync_mode # ResetOnGateEnd \/ ~state))
    BY <1>2, <2>2 DEF SameMode
  <2> DEFINE c == [cs EXCEPT !.gate = state]
             d == [hw EXCEPT !.gate = state]
             y == AddSysClkTicks(c, pending)
  <2>4. cs' = c /\ hw' = d
    BY <1>1, <1>2, <1>3, <1>4, <2>1, <2>2, <2>3, GateAlone
  <2>5. Consistent(c) /\ Alike(c, cs) /\ c.gate = state /\ c.div = cs.div /\ c.carry = cs.carry /\ (c.irq <=> cs.irq)
    BY <1>1, <1>3, GateIs
  <2>6. Consistent(d) /\ Alike(d, hw) /\ d.gate = state /\ d.div = hw.div /\ d.carry = hw.carry /\ (d.irq <=> hw.irq)
    BY <1>2, <1>3, GateIs
  <2> HIDE DEF c, d
  <2>7. Carries(c)
    BY <2>5 DEF Consistent
  <2>8. Alike(y, hw) /\ y.div = hw.div /\ y.carry = hw.carry /\ (y.irq <=> hw.irq)
    BY <1>1, <2>5, <2>7, TicksAlike
  <2>9. Carries(y) /\ SameMode(y, c)
    BY <1>1, <2>7, TicksCarry
  <2> HIDE DEF y
  <2>10. Alike(y, d) /\ (y.gate <=> d.gate) /\ y.carry = d.carry /\ y.div = d.div /\ (y.irq <=> d.irq)
    <3>1. Alike(y, d)
      BY <2>6, <2>8 DEF Alike, SameReached
    <3>2. y.gate <=> d.gate
      BY <2>5, <2>6, <2>9 DEF SameMode
    <3> QED
      BY <3>1, <3>2, <2>6, <2>8
  <2>11. y = d
    BY <2>6, <2>9, <2>10, SameAlike DEF Consistent, Carries, Timer
  <2>12. GetTicksUntilNextInterrupt(c) = GetTicksUntilNextInterrupt(cs)
    BY <2>5, SameDue DEF Alike
  <2>13. Holds(cs', hw', pending', due')
    BY <1>1, <2>1, <2>4, <2>5, <2>11, <2>12 DEF Holds, y
  <2> QED
    BY <2>1, <2>13, NextHolds
<1> QED
  BY <1>5, <1>6

\* Reads of the mode, for which the counter may only have counted.
LEMMA ReadModeHolds ==
  IInv /\ ReadMode => IInv'
<1> SUFFICES ASSUME IInv, ReadMode PROVE IInv'
  OBVIOUS
<1>1. /\ Consistent(cs) /\ Carries(cs) /\ pending \in Nat /\ setup \in Setups /\ hw = AddSysClkTicks(cs, pending)
      /\ due = GetTicksUntilNextInterrupt(cs) /\ Timer(cs)
  BY DEF IInv, Consistent, Carries
<1>2. Current = hw /\ Consistent(hw)
  BY CurrentIs
<1>3. CASE Synchronize(WithReachedRead(Current))
  <2>1. Consistent(WithReachedRead(hw)) /\ hw' = WithReachedRead(hw)
    BY <1>2, FlagsAre DEF ReadMode
  <2> QED
    BY <1>2, <1>3, <2>1, SynchronizeHolds
<1>4. CASE /\ CountingOnly.possible
           /\ cs' = WithReachedRead(cs) /\ UNCHANGED <<setup, pending, due>>
  <2> DEFINE c == WithReachedRead(cs)
  <2>1. cs' = c /\ hw' = WithReachedRead(hw) /\ setup' = setup /\ pending' = pending /\ due' = due
    BY <1>4 DEF ReadMode
  <2>2. Num = Den /\ OnlyCounts(cs, EndOf(cs, pending))
    BY <1>1, <1>4, CountingOnlyIs
  <2>3. Consistent(c) /\ SameSettings(c, cs) /\ c.counter = cs.counter /\ c.delay = cs.delay
        /\ (c.irq_done <=> cs.irq_done)
    BY <1>1, FlagsAre
  <2>4. WithReachedRead(AddClocks(cs, pending)) = AddClocks(c, pending)
    BY <1>1, <2>2, FlagsCount
  <2> HIDE DEF c
  <2>5. hw = AddClocks(cs, pending) /\ AddSysClkTicks(c, pending) = AddClocks(c, pending)
    BY <1>1, <2>2, <2>3, AddSysClkTicksIs DEF Consistent, Carries
  <2>6. GetTicksUntilNextInterrupt(c) = GetTicksUntilNextInterrupt(cs)
    BY <2>3, SameDue DEF SameSettings
  <2>7. Holds(cs', hw', pending', due')
    BY <1>1, <2>1, <2>3, <2>4, <2>5, <2>6 DEF Holds
  <2> QED
    BY <2>1, <2>7, NextHolds
<1> QED
  BY <1>3, <1>4 DEF ReadMode

\* The interrupt is acknowledged before the event is due.
LEMMA AcknowledgeHolds ==
  IInv /\ AcknowledgeInterrupt => IInv'
<1> SUFFICES ASSUME IInv, AcknowledgeInterrupt PROVE IInv'
  OBVIOUS
<1> DEFINE c == WithoutIRQ(cs)
           d == WithoutIRQ(hw)
           y == AddSysClkTicks(c, pending)
<1>1. /\ Consistent(cs) /\ Carries(cs) /\ pending \in Nat /\ setup \in Setups /\ hw = AddSysClkTicks(cs, pending)
      /\ due = GetTicksUntilNextInterrupt(cs)
  BY DEF IInv, Consistent
<1>2. Consistent(hw) /\ SameMode(hw, cs)
  BY CurrentIs
<1>3. ~(pending >= due) /\ hw' = d /\ cs' = c /\ setup' = setup /\ pending' = pending /\ due' = due
  BY DEF AcknowledgeInterrupt, IsAnyEventDue
<1>4. Consistent(c) /\ Alike(c, cs) /\ ~c.irq /\ c.div = cs.div /\ c.carry = cs.carry /\ (c.gate <=> cs.gate)
  BY <1>1, AcknowledgedIs
<1>5. Consistent(d) /\ Alike(d, hw) /\ ~d.irq /\ d.div = hw.div /\ d.carry = hw.carry /\ (d.gate <=> hw.gate)
  BY <1>2, AcknowledgedIs
<1> HIDE DEF c, d
<1>6. Carries(c)
  BY <1>4 DEF Consistent
<1>7. GetTicksUntilNextInterrupt(c) = due
  BY <1>1, <1>4, SameDue DEF Alike
<1>8. ~y.irq
  <2>1. due \in Nat
    BY <1>1, <1>6, <1>7, QuietUntilDue
  <2>2. pending < GetTicksUntilNextInterrupt(c)
    BY <1>1, <1>3, <1>7, <2>1
  <2>3. SameLine(y, c)
    BY <1>1, <1>6, <2>2, QuietUntilDue
  <2> QED
    BY <1>4, <2>3 DEF SameLine
<1>9. Alike(y, hw) /\ y.div = hw.div /\ y.carry = hw.carry
  BY <1>1, <1>4, <1>6, TicksAlike
<1>10. Carries(y) /\ SameMode(y, c)
  BY <1>1, <1>6, TicksCarry
<1> HIDE DEF y
<1>11. Alike(y, d) /\ (y.gate <=> d.gate) /\ y.carry = d.carry /\ y.div = d.div /\ (y.irq <=> d.irq)
  <2>1. Alike(y, d)
    BY <1>5, <1>9 DEF Alike, SameReached
  <2>2. y.gate <=> d.gate
    BY <1>2, <1>4, <1>5, <1>10 DEF SameMode
  <2> QED
    BY <2>1, <2>2, <1>5, <1>8, <1>9
<1>12. y = d
  BY <1>5, <1>10, <1>11, SameAlike DEF Consistent, Carries, Timer
<1>13. Holds(cs', hw', pending', due')
  BY <1>1, <1>3, <1>4, <1>7, <1>12 DEF Holds, y
<1> QED
  BY <1>3, <1>13, NextHolds

\* The emulator's counter and the console's, in every behaviour.
THEOREM CounterIsExact ==
  Spec => []IInv
<1>1. IInv /\ [Next]_vars => IInv'
  <2> SUFFICES ASSUME IInv, [Next]_vars PROVE IInv'
    OBVIOUS
  <2>1. CASE Next
    BY <2>1, TickHolds, RunEventHolds, AccessHolds, SetGateHolds, ReadModeHolds, AcknowledgeHolds DEF Next
  <2>2. CASE UNCHANGED vars
    <3>1. setup' = setup /\ cs' = cs /\ hw' = hw /\ pending' = pending /\ due' = due
      BY <2>2 DEF vars
    <3>2. Holds(cs', hw', pending', due')
      BY <3>1 DEF IInv, Holds
    <3> QED
      BY <3>1, <3>2, NextHolds
  <2> QED
    BY <2>1, <2>2
<1> QED
  BY <1>1, InitHolds, PTL DEF Spec

\* What the program reads is what the console shows, whichever way it is read.
THEOREM ReadsAreAlwaysExact ==
  Spec => []ReadsAreExact
<1>1. IInv => ReadsAreExact
  <2> SUFFICES ASSUME IInv PROVE ReadsAreExact
    OBVIOUS
  <2>1. Timer(cs) /\ pending \in Nat /\ hw = AddSysClkTicks(cs, pending)
    BY DEF IInv, Consistent, Carries
  <2>2. Reads(Current) = Reads(hw)
    BY CurrentIs
  <2>3. ASSUME CountingOnly.possible
        PROVE  Reads(CountingOnly.c) = Reads(hw)
    <3>1. Num = Den /\ OnlyCounts(cs, EndOf(cs, pending)) /\ CountingOnly.c = CountedOn(cs, pending)
      BY <2>1, <2>3, CountingOnlyIs
    <3>2. hw = AddClocks(cs, pending)
      BY <2>1, <3>1, AddSysClkTicksIs
    <3> QED
      BY <2>1, <3>1, <3>2, ReadsCount
  <2> QED
    BY <2>2, <2>3 DEF ReadsAreExact
<1> QED
  BY <1>1, CounterIsExact, PTL

\* The event is never behind the interrupt, nor is the interrupt ahead of it.
THEOREM InterruptsAreAlwaysInTime ==
  Spec => []InterruptsAreInTime
<1>1. IInv => InterruptsAreInTime
  <2> SUFFICES ASSUME IInv, ~IsAnyEventDue PROVE cs.irq = hw.irq /\ cs.line = hw.line
    BY DEF InterruptsAreInTime
  <2>1. Carries(cs) /\ pending \in Nat /\ setup \in Setups /\ hw = AddSysClkTicks(cs, pending)
        /\ due = GetTicksUntilNextInterrupt(cs) /\ cs \in Counters
    BY DEF IInv, Consistent, Carries, Timer
  <2>2. due \in Nat
    BY <2>1, QuietUntilDue
  <2>3. pending < due
    BY <2>1, <2>2 DEF IsAnyEventDue
  <2>4. SameLine(hw, cs)
    BY <2>1, <2>3, QuietUntilDue
  <2>5. hw \in Counters
    BY CurrentIs DEF Consistent, Carries, Timer
  <2> QED
    BY <2>1, <2>4, <2>5 DEF SameLine, Counters
<1> QED
  BY <1>1, CounterIsExact, PTL
=============================================================================
