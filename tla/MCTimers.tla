------------------------------ MODULE MCTimers ------------------------------
(***************************************************************************)
(* Timers with the modes that a run writes: each way to interrupt and to   *)
(* reset without a gate, and some of them with each gate and clock.        *)
(***************************************************************************)
EXTENDS Timers

Plain(m) == ~m.sync_enable /\ m.sync_mode = PauseWhileGateActive

Free ==
  {m \in Mode : Plain(m) /\ ~m.use_external_clock /\ (m.irq_at_target \/ m.irq_on_overflow)}

Gated ==
  {m \in Mode : m.sync_enable /\ m.irq_at_target /\ ~m.irq_on_overflow /\ m.irq_repeat
                  /\ ~m.irq_pulse_n /\ ~m.use_external_clock}

Divided ==
  {m \in Mode : Plain(m) /\ m.use_external_clock /\ m.irq_repeat /\ m.irq_at_target}

Repeated == {m \in Free : m.irq_repeat /\ m.irq_at_target /\ ~m.irq_on_overflow}

With(index, numerator, denominator, modes) ==
  [index |-> index, numerator |-> numerator, denominator |-> denominator, modes |-> modes]

MCSetups ==
  {With(2, 1, 1, Free), With(0, 1, 1, Gated), With(2, 1, 1, Divided), With(2, 3, 2, Repeated)}
=============================================================================
