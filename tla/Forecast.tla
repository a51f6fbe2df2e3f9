------------------------------ MODULE Forecast ------------------------------
(***************************************************************************)
(* forecast_run of src/src/agentpause/forecast.py: a simulation of the     *)
(* remaining steps against a snapshot of the window.                       *)
(*                                                                         *)
(* per_step is the estimate with its margin.  Amounts are in grains of a   *)
(* token: what the code holds as an integer is a multiple of Grain, what   *)
(* it holds as a float is rounded down to a grain.                         *)
(***************************************************************************)
EXTENDS Risk, SequencesExt

CONSTANT Grain          \* grains of a token

ASSUME GrainAssumption == Grain \in Nat \ {0}

\* int(), in grains.
Whole(t) == Grain * (t \div Grain)

\* The bucket a suspended run comes back to.
Fresh(b) == IF Known(b.limit_tokens) THEN b.limit_tokens ELSE b.remaining_tokens

\* Mutated form: no step is too large for the window.
Wall_Never(b, per_step) == FALSE

\* 98% of the window or more: no pause ever fits the step.
Wall(b, per_step) ==
    Known(b.limit_tokens) /\ 100 * per_step >= 98 * b.limit_tokens

\* Mutated form: any pause brings the whole window back.
Refilled_Full(b, remaining, pause) == Fresh(b)

\* What a pause served in place leaves in the bucket.
Refilled(b, remaining, pause) ==
    IF RateKnown([b EXCEPT !.remaining_tokens = remaining])
      THEN Lesser(b.limit_tokens,
                  remaining + ((b.limit_tokens - remaining) * pause)
                                \div b.reset_seconds)
      ELSE Fresh(b)

\* The pause before a step that does not fit, as decide() would take it: none
\* known or a long one is a suspension, which waits the full reset out.
Paused(b, sim, per_step, wait_threshold_s) ==
    LET pause == refill_wait([b EXCEPT !.remaining_tokens = Whole(sim.remaining)],
                             per_step)
        short == Known(pause) /\ pause <= wait_threshold_s
    IN  IF short
          THEN [sim EXCEPT !.remaining = Refilled(b, @, pause),
                           !.waiting_s = @ + pause,
                           !.waits = @ + 1]
          ELSE [sim EXCEPT !.remaining = Fresh(b),
                           !.waiting_s = @ + FalsyOr(b.reset_seconds, 0),
                           !.suspensions = @ + 1]

\* One turn of the loop.
SimStep(b, sim, per_step, wait_threshold_s) ==
    LET fits  == per_step <= sim.remaining
        ready == IF fits THEN sim ELSE Paused(b, sim, per_step, wait_threshold_s)
    IN  CASE sim.context_wall \/ (~fits /\ Wall(b, per_step)) ->
               [sim EXCEPT !.context_wall = TRUE]
          [] ~sim.context_wall /\ ~(~fits /\ Wall(b, per_step)) ->
               IF per_step > ready.remaining
                 THEN [ready EXCEPT !.context_wall = TRUE]
                 ELSE [ready EXCEPT !.remaining = @ - per_step, !.steps = @ + 1]

forecast_run(b, per_step, steps, latency, wait_threshold_s) ==
    LET start == [remaining |-> b.remaining_tokens, steps |-> 0,
                  waiting_s |-> 0, waits |-> 0, suspensions |-> 0,
                  context_wall |-> FALSE]
        end == FoldLeft(LAMBDA sim, n : SimStep(b, sim, per_step, wait_threshold_s),
                        start, [n \in 1 .. steps |-> n])
    IN  [steps        |-> end.steps,
         total_tokens |-> end.steps * per_step,
         waiting_s    |-> end.waiting_s,
         wall_clock_s |-> end.steps * latency + end.waiting_s,
         stalls       |-> end.waits + end.suspensions,
         context_wall |-> end.context_wall]

=============================================================================
