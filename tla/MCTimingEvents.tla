-------------------------- MODULE MCTimingEvents --------------------------
(* A clock, and two events that the devices use alike. *)
EXTENDS TimingEvents, TLC

Symmetry == Permutations(Events \ {Clock})

\* Two states are one when they differ in values that nothing reads before they
\* are written again: the times of events that are not active, and the time
\* kept for the running event when none is running.
Live(time) == [e \in active |-> time[e]]
View ==
  <<list, active, Live(next_run_time), Live(last_run_time), interval, clock, cpu, interrupt, at,
    current_event, IF current_event = NULL THEN 0 ELSE current_event_next_run_time>>
=============================================================================
