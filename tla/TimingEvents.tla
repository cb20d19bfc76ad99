--------------------------- MODULE TimingEvents ---------------------------
(***************************************************************************)
(* The scheduler of the emulated machine, src/core/timing_event.cpp: the   *)
(* events of the devices in a doubly linked list sorted by the time they   *)
(* are due, the CPU running until the first of them, and the loop that     *)
(* runs what is due, callbacks that reschedule themselves and each other   *)
(* included.  Execution may be interrupted inside a callback, and goes on  *)
(* later with the ticks that were left.                                    *)
(*                                                                         *)
(* A definition just before the one it varies (StartStale before Start)   *)
(* is that one with a plausible bug: the properties must see it.           *)
(***************************************************************************)
EXTENDS Integers, Sequences, FiniteSets

CONSTANTS
  Events,   \* the timing events, all created at time 0
  Clock,    \* one that is always active and that no other code reschedules
  NULL,
  Ticks,    \* delays, intervals, and the ticks an instruction or a DMA takes
  MaxTime   \* bound: no ticks are added beyond it

ASSUME TimingAssumption ==
  /\ Clock \in Events
  /\ NULL \notin Events
  /\ Ticks \subseteq Nat \ {0} /\ Ticks # {}
  /\ MaxTime \in Nat

VARIABLES
  head, tail, prev, next,        \* the list: active_events_head, ..., TimingEvent::next
  active, next_run_time, last_run_time, interval,   \* per event
  current_event, current_event_next_run_time,
  global_tick_counter, event_run_tick_counter,
  pending_ticks, downcount,      \* the CPU's
  interrupt,                     \* CPU::HasPendingInterrupt
  at                             \* where the core thread is

list == <<head, tail, prev, next>>
times == <<next_run_time, last_run_time, interval>>
running == <<current_event, current_event_next_run_time>>
clock == <<global_tick_counter, event_run_tick_counter>>
cpu == <<pending_ticks, downcount>>
vars == <<list, active, times, running, clock, cpu, interrupt, at>>

Earliest(a, b) == IF a < b THEN a ELSE b

-----------------------------------------------------------------------------
(* The list.  Each operation is given the times the events are sorted by,    *)
(* and says what the list becomes.                                           *)

Ref == Events \cup {NULL}

Becomes(h, t, p, n) == head' = h /\ tail' = t /\ prev' = p /\ next' = n

\* e is linked between two neighbours, either of which may be missing.
LinkBetween(e, before, after, h, t, p, n) ==
  Becomes(IF before = NULL THEN e ELSE h,
          IF after = NULL THEN e ELSE t,
          [x \in Events |-> IF x = e THEN before ELSE IF x = after THEN e ELSE p[x]],
          [x \in Events |-> IF x = e THEN after ELSE IF x = before THEN e ELSE n[x]])

HeadWithout(e) == IF prev[e] = NULL THEN next[e] ELSE head
TailWithout(e) == IF next[e] = NULL THEN prev[e] ELSE tail
PrevWithout(e) == [x \in Events |-> IF x = next[e] THEN prev[e] ELSE prev[x]]
NextWithout(e) == [x \in Events |-> IF x = prev[e] THEN next[e] ELSE next[x]]

\* The first event from x on that is not due before t, and the last event
\* from x backwards that is not due after t.
NotBefore(time, t, x) ==
  LET walk[y \in Ref] == IF y = NULL \/ time[y] >= t THEN y ELSE walk[next[y]] IN walk[x]
NotAfter(time, t, x) ==
  LET walk[y \in Ref] == IF y = NULL \/ time[y] <= t THEN y ELSE walk[prev[y]] IN walk[x]

AddActiveEvent(e, time) ==
  LET after == NotBefore(time, time[e], head)
      before == IF after = NULL THEN tail ELSE prev[after]
  IN LinkBetween(e, before, after, head, tail, prev, next)

RemoveActiveEvent(e) ==
  Becomes(HeadWithout(e), TailWithout(e), [PrevWithout(e) EXCEPT ![e] = NULL],
          [NextWithout(e) EXCEPT ![e] = NULL])

MoveBack(e, time) ==
  LET before == NotAfter(time, time[e], prev[e])
      after == IF before = NULL THEN HeadWithout(e) ELSE NextWithout(e)[before]
  IN LinkBetween(e, before, after, HeadWithout(e), TailWithout(e), PrevWithout(e), NextWithout(e))

MoveForward(e, time) ==
  LET after == NotBefore(time, time[e], next[e])
      before == IF after = NULL THEN TailWithout(e) ELSE PrevWithout(e)[after]
  IN LinkBetween(e, before, after, HeadWithout(e), TailWithout(e), PrevWithout(e), NextWithout(e))

SortEventForwardOnly(e, time) ==
  IF next[e] # NULL /\ time[e] > time[next[e]] THEN MoveForward(e, time) ELSE UNCHANGED list

SortEvent(e, time) ==
  IF prev[e] # NULL /\ time[prev[e]] > time[e] THEN MoveBack(e, time)
  ELSE IF next[e] # NULL /\ time[e] > time[next[e]] THEN MoveForward(e, time)
  ELSE UNCHANGED list

\* UpdateCPUDowncount, which the operations on events call when the head of
\* the list may have changed.
UpdateCPUDowncountIf(condition) ==
  downcount' = IF ~condition THEN downcount
               ELSE IF interrupt THEN 0 ELSE next_run_time'[head'] - global_tick_counter

-----------------------------------------------------------------------------
Init ==
  /\ interval \in [Events -> Ticks]
  /\ next_run_time = interval /\ last_run_time = [e \in Events |-> 0]
  /\ active = {Clock} /\ head = Clock /\ tail = Clock
  /\ prev = [e \in Events |-> NULL] /\ next = [e \in Events |-> NULL]
  /\ current_event = NULL /\ current_event_next_run_time = 0
  /\ global_tick_counter = 0 /\ event_run_tick_counter = 0
  /\ pending_ticks = 0 /\ downcount = next_run_time[head]
  /\ interrupt = FALSE
  /\ at = "cpu"

-----------------------------------------------------------------------------
(* What register accesses and callbacks do: at any time while the CPU runs, *)
(* and while an event's callback does.                                       *)

Code == at \in {"cpu", "callback"}

\* GetTimestampForNewEvent.
Now == global_tick_counter + pending_ticks

UntouchedByEvents == <<clock, pending_ticks, interrupt, at>>

\* A new time for an event in the list.
Move(e, time) ==
  /\ next_run_time' = [next_run_time EXCEPT ![e] = time]
  /\ SortEvent(e, next_run_time')
  /\ UpdateCPUDowncountIf(head' = e \/ (head' # head /\ current_event = NULL))

\* The time after the callback of the event that is running.
NextIfCurrent(e, time) ==
  current_event_next_run_time' = IF current_event = e THEN time ELSE current_event_next_run_time

StartStale(e, time) ==
  /\ next_run_time' = [next_run_time EXCEPT ![e] = time]
  /\ last_run_time' = [last_run_time EXCEPT ![e] = Now]
  /\ active' = active \cup {e}
  /\ AddActiveEvent(e, next_run_time')
  /\ UNCHANGED downcount

Start(e, time) ==
  /\ next_run_time' = [next_run_time EXCEPT ![e] = time]
  /\ last_run_time' = [last_run_time EXCEPT ![e] = Now]
  /\ active' = active \cup {e}
  /\ AddActiveEvent(e, next_run_time')
  /\ UpdateCPUDowncountIf(head' = e)

\* The event that is running keeps its place until its callback returns.
ScheduleTo(e, time) ==
  /\ NextIfCurrent(e, time)
  /\ \/ e \notin active /\ Start(e, time)
     \/ e \in active /\ e # current_event /\ Move(e, time) /\ UNCHANGED <<active, last_run_time>>
     \/ e \in active /\ e = current_event
        /\ UNCHANGED <<list, active, next_run_time, last_run_time, downcount>>

Schedule(e) ==
  /\ Code
  /\ \E ticks \in Ticks \cup {0} : ScheduleTo(e, Now + ticks)
  /\ UNCHANGED <<interval, current_event, UntouchedByEvents>>

SetIntervalAndSchedule(e) ==
  /\ Code
  /\ \E ticks \in Ticks : interval' = [interval EXCEPT ![e] = ticks] /\ ScheduleTo(e, Now + ticks)
  /\ UNCHANGED <<current_event, UntouchedByEvents>>

Activate(e) ==
  /\ Code /\ e \notin active
  /\ NextIfCurrent(e, Now + interval[e])
  /\ Start(e, Now + interval[e])
  /\ UNCHANGED <<interval, current_event, UntouchedByEvents>>

Deactivate(e) ==
  /\ Code /\ e \in active
  /\ active' = active \ {e}
  /\ RemoveActiveEvent(e)
  /\ UNCHANGED <<times, running, UntouchedByEvents>>
  /\ UpdateCPUDowncountIf(head = e /\ current_event = NULL)

Delay(e) ==
  /\ Code /\ e \in active /\ e # current_event
  /\ next_run_time[e] <= MaxTime
  /\ \E ticks \in Ticks : Move(e, next_run_time[e] + ticks)
  /\ UNCHANGED <<active, last_run_time, interval, running, UntouchedByEvents>>

\* The callback is given the ticks up to now; the event moves on by its
\* interval.  What the callback does besides is further steps.
InvokeEarly(e) ==
  /\ Code /\ e \in active /\ e # current_event /\ Now > last_run_time[e]
  /\ last_run_time' = [last_run_time EXCEPT ![e] = Now]
  /\ Move(e, Now + interval[e])
  /\ UNCHANGED <<active, interval, running, UntouchedByEvents>>

\* The callback is to schedule or deactivate the event, in further steps.
InvokeEarlyNoReschedule(e) ==
  /\ Code /\ e \in active /\ e # current_event /\ Now > last_run_time[e]
  /\ last_run_time' = [last_run_time EXCEPT ![e] = Now]
  /\ UNCHANGED <<list, active, next_run_time, interval, running, cpu, clock, interrupt, at>>

\* Instructions, and DMA transfers that callbacks begin.
AddPendingTicks ==
  /\ Code
  /\ \E ticks \in Ticks :
       /\ event_run_tick_counter + pending_ticks + ticks <= MaxTime
       /\ pending_ticks' = pending_ticks + ticks
  /\ UNCHANGED <<list, active, times, running, clock, downcount, interrupt, at>>

\* CheckForPendingInterrupt.
RaiseInterrupt ==
  /\ Code /\ ~interrupt
  /\ interrupt' = TRUE /\ downcount' = 0
  /\ UNCHANGED <<list, active, times, running, clock, pending_ticks, at>>

\* The CPU masks or acknowledges it; the downcount stays as it is.
LowerInterrupt ==
  /\ at = "cpu" /\ interrupt
  /\ interrupt' = FALSE
  /\ UNCHANGED <<list, active, times, running, clock, cpu, at>>

DeviceStep ==
  \/ \E e \in Events \ {Clock} :
       Schedule(e) \/ SetIntervalAndSchedule(e) \/ Activate(e) \/ Deactivate(e) \/ Delay(e)
       \/ InvokeEarly(e) \/ InvokeEarlyNoReschedule(e)
  \/ AddPendingTicks \/ RaiseInterrupt \/ LowerInterrupt

-----------------------------------------------------------------------------
(* RunEvents. *)

CheckEvents ==
  /\ at = "cpu" /\ pending_ticks >= downcount
  /\ at' = "run"
  /\ UNCHANGED <<list, active, times, running, clock, cpu, interrupt>>

CommitGlobalTicks(new_global_ticks) ==
  /\ event_run_tick_counter' = new_global_ticks
  /\ global_tick_counter' = Earliest(new_global_ticks, next_run_time[head])
  /\ at' = "loop"

RunEventsAtOnce ==
  /\ at = "run"
  /\ pending_ticks' = 0
  /\ event_run_tick_counter' = event_run_tick_counter + pending_ticks
  /\ global_tick_counter' = event_run_tick_counter'
  /\ at' = "loop"
  /\ UNCHANGED <<list, active, times, running, downcount, interrupt>>

RunEvents ==
  /\ at = "run"
  /\ LET new_global_ticks == event_run_tick_counter + pending_ticks IN
     IF new_global_ticks >= next_run_time[head]
     THEN pending_ticks' = 0 /\ CommitGlobalTicks(new_global_ticks)
     ELSE at' = "dispatch" /\ UNCHANGED <<clock, pending_ticks>>
  /\ UNCHANGED <<list, active, times, running, downcount, interrupt>>

\* The callback of the first event, if it is due.
RunEvent ==
  /\ at = "loop" /\ global_tick_counter >= next_run_time[head]
  /\ current_event' = head
  /\ current_event_next_run_time' = next_run_time[head] + interval[head]
  /\ last_run_time' = [last_run_time EXCEPT ![head] = global_tick_counter]
  /\ at' = "callback"
  /\ UNCHANGED <<list, active, next_run_time, interval, clock, cpu, interrupt>>

Reschedule(e) ==
  IF e \in active
  THEN /\ next_run_time' = [next_run_time EXCEPT ![e] = current_event_next_run_time]
       /\ SortEvent(e, next_run_time')
  ELSE UNCHANGED <<list, next_run_time>>

CallbackReturns ==
  /\ at = "callback"
  /\ Reschedule(current_event)
  /\ at' = "loop"
  /\ UNCHANGED <<active, last_run_time, interval, running, clock, cpu, interrupt>>

AdvanceTime ==
  /\ at = "loop" /\ global_tick_counter < next_run_time[head]
  /\ IF event_run_tick_counter > global_tick_counter
     THEN /\ global_tick_counter' = Earliest(event_run_tick_counter, next_run_time[head])
          /\ UNCHANGED <<current_event, at>>
     ELSE at' = "dispatch" /\ current_event' = NULL /\ UNCHANGED global_tick_counter
  /\ UNCHANGED <<list, active, times, current_event_next_run_time, event_run_tick_counter, cpu,
                 interrupt>>

\* DispatchInterrupt masks the interrupt; then UpdateCPUDowncount.
Dispatch ==
  /\ at = "dispatch"
  /\ interrupt' = FALSE
  /\ downcount' = next_run_time[head] - global_tick_counter
  /\ at' = IF pending_ticks >= downcount' THEN "run" ELSE "cpu"
  /\ UNCHANGED <<list, active, times, running, clock, pending_ticks>>

-----------------------------------------------------------------------------
(* Leaving the loop for the host: pausing, loading a state, shutting down. *)

Stopped ==
  /\ current_event' = NULL
  /\ at' = "stopped"
  /\ UNCHANGED <<active, last_run_time, interval, current_event_next_run_time, clock, cpu, interrupt>>

CancelWithoutReschedule ==
  /\ at = "callback"
  /\ UNCHANGED <<list, next_run_time>>
  /\ Stopped

CancelRunningEvent ==
  /\ at = "callback"
  /\ Reschedule(current_event)
  /\ Stopped

\* A device that the CPU invoked early stops it just the same.
ExitExecution ==
  /\ at = "cpu"
  /\ at' = "stopped"
  /\ UNCHANGED <<list, active, times, running, clock, cpu, interrupt>>

CommitLeftoverAtOnce ==
  /\ at = "stopped"
  /\ global_tick_counter' = event_run_tick_counter
  /\ at' = "dispatch"
  /\ UNCHANGED <<list, active, times, running, event_run_tick_counter, cpu, interrupt>>

CommitLeftoverForgetting ==
  /\ at = "stopped"
  /\ CommitGlobalTicks(global_tick_counter)
  /\ UNCHANGED <<list, active, times, running, cpu, interrupt>>

CommitLeftoverTicks ==
  /\ at = "stopped"
  /\ CommitGlobalTicks(event_run_tick_counter)
  /\ UNCHANGED <<list, active, times, running, cpu, interrupt>>

Next ==
  \/ DeviceStep \/ CheckEvents \/ RunEvents \/ RunEvent \/ CallbackReturns \/ AdvanceTime
  \/ Dispatch \/ CancelRunningEvent \/ ExitExecution \/ CommitLeftoverTicks

Spec == Init /\ [][Next]_vars

-----------------------------------------------------------------------------
(* Properties. *)

TypeOK ==
  /\ head \in Events /\ tail \in Events
  /\ prev \in [Events -> Ref] /\ next \in [Events -> Ref]
  /\ active \subseteq Events
  /\ next_run_time \in [Events -> Nat] /\ last_run_time \in [Events -> Nat]
  /\ interval \in [Events -> Ticks]
  /\ current_event \in Ref /\ current_event_next_run_time \in Nat
  /\ {global_tick_counter, event_run_tick_counter, pending_ticks, downcount} \subseteq Nat
  /\ interrupt \in BOOLEAN
  /\ at \in {"cpu", "run", "loop", "callback", "dispatch", "stopped"}

\* The list holds the active events, each once, in the order they are due, the
\* same forwards and backwards, whatever callbacks did to it while an event was
\* running: "otherwise the event list won't be sorted".
ListIsSorted ==
  /\ Clock \in active
  /\ prev[head] = NULL /\ next[tail] = NULL
  /\ \A e \in active :
       /\ next[e] = NULL => e = tail
       /\ next[e] # NULL => next[e] \in active /\ prev[next[e]] = e
                            /\ next_run_time[e] <= next_run_time[next[e]]
       /\ prev[e] = NULL => e = head
       /\ prev[e] # NULL => prev[e] \in active /\ next[prev[e]] = e
  /\ \A e \in Events \ active : prev[e] = NULL /\ next[e] = NULL
  /\ \A e \in active : next_run_time[head] <= next_run_time[e]

\* An event is run at the time it is due for: "Shouldn't ever be late".  No
\* event is due in the past of the counter, so that none is passed over, nor
\* when UpdateCPUDowncount subtracts.
NeverLate ==
  /\ next_run_time[head] >= global_tick_counter
  /\ global_tick_counter <= event_run_tick_counter

\* The CPU, whenever it runs, stops no later than the first event is due,
\* however the events were rescheduled since; for an interrupt at once.
StopsInTime ==
  at = "cpu" =>
    /\ global_tick_counter = event_run_tick_counter
    /\ global_tick_counter + downcount <= next_run_time[head]
    /\ interrupt => downcount = 0

\* An event that nobody reschedules runs exactly once per interval, also when
\* execution was interrupted inside its callback or another's.
PeriodsAreKept ==
  /\ last_run_time[Clock] % interval[Clock] = 0
  /\ next_run_time[Clock] = last_run_time[Clock] + (IF at = "callback" /\ current_event = Clock THEN 0
                                                    ELSE interval[Clock])

\* Only what runs takes time: committing ticks, running events, stopping inside
\* a callback and going on later neither lose time nor make it up, and the
\* devices' time never goes back.
TimeIsConserved ==
  [][/\ AddPendingTicks \/ event_run_tick_counter' + pending_ticks' = event_run_tick_counter + pending_ticks
     /\ global_tick_counter' >= global_tick_counter]_vars
=============================================================================
