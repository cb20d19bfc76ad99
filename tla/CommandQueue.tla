---------------------------- MODULE CommandQueue ----------------------------
(***************************************************************************)
(* What the video thread promises the core thread, without saying how:     *)
(* commands are executed once each, in the order they were issued, and a   *)
(* synchronising call returns only after everything issued has executed.   *)
(* VideoThread.tla implements this over a shared ring and two semaphores.  *)
(***************************************************************************)
EXTENDS Naturals, Sequences

VARIABLES
  issued,     \* the number of commands the core thread has issued
  executed,   \* the numbers of the executed commands, in execution order
  syncing     \* TRUE while the core thread is inside a synchronising call

vars == <<issued, executed, syncing>>

Init ==
  /\ issued = 0
  /\ executed = <<>>
  /\ syncing = FALSE

\* The next unexecuted command runs.
ExecuteOne == executed' = Append(executed, Len(executed) + 1)

\* A call may issue a command and begin to wait in one step.
Issue ==
  /\ ~syncing
  /\ issued' = issued + 1
  /\ syncing' \in BOOLEAN
  /\ UNCHANGED executed

Execute ==
  /\ Len(executed) < issued
  /\ ExecuteOne
  /\ UNCHANGED <<issued, syncing>>

\* Without the thread, issuing a command is executing it.
IssueDirectly ==
  /\ ~syncing
  /\ Len(executed) = issued
  /\ issued' = issued + 1
  /\ ExecuteOne
  /\ UNCHANGED syncing

BeginSync ==
  /\ ~syncing
  /\ syncing' = TRUE
  /\ UNCHANGED <<issued, executed>>

EndSync ==
  /\ syncing
  /\ Len(executed) = issued
  /\ syncing' = FALSE
  /\ UNCHANGED <<issued, executed>>

Next == Issue \/ Execute \/ IssueDirectly \/ BeginSync \/ EndSync

Spec == Init /\ [][Next]_vars
=============================================================================
