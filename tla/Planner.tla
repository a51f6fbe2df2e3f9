------------------------------ MODULE Planner -------------------------------
(***************************************************************************)
(* A session that was forecast and then runs: Session.forecast             *)
(* (src/src/agentpause/scheduler.py) on the reading an adapter gives,      *)
(* against what decide() then makes of the run, with the adapter's         *)
(* detection of the refill regime (OpenAICompatAdapter, RegimeDetector)    *)
(* between them and a provider that refills continuously or at the         *)
(* boundaries of a fixed window.                                           *)
(*                                                                         *)
(* The run is driven as scripts/validate_provider.py drives one: it sleeps *)
(* the advised wait out, marks the cached reading stale and decides again. *)
(*                                                                         *)
(* The clock is kept as ages.  The provider counts in grains of a token;   *)
(* its headers state whole tokens.                                         *)
(***************************************************************************)
EXTENDS Refill, Forecast

CONSTANTS
    Kinds,                  \* subset of {"continuous", "fixed"}
    Limit,
    Rate,                   \* grains a tick, of a continuous bucket
    Period,                 \* ticks from boundary to boundary
    Boundaries,             \* how far the first one may be
    ping_tokens,            \* what a ping costs
    InitialTokens,
    StepSizes,              \* what a step is estimated at, with its margin
    Steps,                  \* of the run
    latency,                \* of a step
    Rests,                  \* what passes between two steps
    wait_threshold_s,
    max_age_s,
    Invalidates,            \* is invalidate() called after a pause, as the
                            \* loops of scripts/ all do?
    MaxStalls, MaxWaited    \* bounds on what is counted

ASSUME PlannerAssumption ==
    /\ Kinds \subseteq {"continuous", "fixed"}
    /\ Limit \in Nat \ {0} /\ Rate \in Nat \ {0}
    /\ Period \in Nat \ {0} /\ Boundaries \subseteq 1 .. Period
    /\ ping_tokens \in 0 .. Limit /\ InitialTokens \subseteq 0 .. Limit
    /\ StepSizes \subseteq Nat \ {0} /\ Steps \in Nat
    /\ latency \in 0 .. Period /\ Rests \subseteq 0 .. Period
    /\ wait_threshold_s \in Nat /\ max_age_s \in Nat
    /\ Invalidates \in BOOLEAN /\ MaxStalls \in Nat /\ MaxWaited \in Nat

FiveSeconds == 10 * HalfSecond
FifteenSeconds == 30 * HalfSecond

VARIABLES
    kind, per_step,
    tokens,                 \* in the provider's bucket
    boundary,               \* time to the next one, of a fixed window
    _budget,                \* the adapter's cached reading, None without one
    age,                    \* of the reading
    _prev_ping,             \* the last sample, None without one
    since,                  \* its age
    _votes,
    honest,                 \* how many of the last votes are from gaps in
                            \* which the bucket neither filled nor was reset
    whole,                  \* did it, since the last sample?
    doing,
    pause,                  \* the one being served
    done,                   \* steps done
    plan,                   \* the forecast, None before it is asked for
    stalls, waited          \* since then

provider == <<kind, tokens, boundary>>
adapter == <<_budget, age, _prev_ping, since, _votes, honest, whole>>
run == <<per_step, done>>
planner == <<provider, adapter, run, doing, pause, plan, stalls, waited>>

-----------------------------------------------------------------------------
(* The provider.                                                           *)

After(t, d) ==
    CASE kind = "continuous"               -> Lesser(Limit, t + Rate * d)
      [] kind = "fixed" /\ d >= boundary   -> Limit
      [] kind = "fixed" /\ d < boundary    -> t

\* The reset the headers state.
Reset(t, b) == IF kind = "fixed" THEN b ELSE CeilDiv(Limit - t, Rate)

Header(t, b) ==
    [TokenBudget(Whole(t)) EXCEPT !.limit_tokens  = Limit,
                                  !.reset_seconds = Reset(t, b)]

BoundaryAfter(d) ==
    IF kind = "fixed"
      THEN ((boundary - d - 1) % Period) + 1
      ELSE boundary

\* d ticks pass for a bucket that holds t.
Pass(t, d) ==
    /\ tokens' = After(t, d)
    /\ boundary' = BoundaryAfter(d)

-----------------------------------------------------------------------------
(* The adapter.                                                            *)

Older(d) ==
    /\ age' = Lesser(age + d, max_age_s + 1) /\ since' = since + d
    /\ whole' = (whole \/ (d > 0 /\ After(tokens, d) = Limit))

\* invalidate(), for a reading taken before a pause.
invalidate == age' = max_age_s + 1

\* A response's headers are absorbed, and start a sample.
Absorb(t, b) ==
    /\ _budget' = Header(t, b) /\ age' = 0
    /\ _prev_ping' = _sample_point(_budget') /\ since' = 0
    /\ whole' = FALSE

\* budget(), on a reading that is fresh.
reading ==
    LET aged == [_budget EXCEPT !.reset_seconds =
                    IF Known(@) THEN Greater(0, @ - age) ELSE None]
    IN  IF regime(_votes) = "unknown"
          THEN aged ELSE [aged EXCEPT !.refill_regime = regime(_votes)]

Is_fresh == Known(_budget) /\ age <= max_age_s

\* feed(), and how many honest votes in a row that makes.
Sampled ==
    LET rise == Whole(tokens - ping_tokens) - _prev_ping.remaining
    IN  IF Known(_prev_ping)
          THEN /\ _votes' = feed(_votes, since, rise, _prev_ping)
               /\ honest' = IF ~Known(Vote(since, rise, _prev_ping))
                              THEN honest
                              ELSE IF whole THEN 0 ELSE Lesser(honest + 1, window)
          ELSE UNCHANGED <<_votes, honest>>

ping ==
    /\ doing = "deciding" /\ ~Is_fresh /\ tokens >= ping_tokens
    /\ Sampled
    /\ tokens' = tokens - ping_tokens
    /\ Absorb(tokens', boundary)
    /\ UNCHANGED <<kind, boundary, run, doing, pause, plan, stalls, waited>>

\* A ping refused for want of tokens is a reading of zero, and no sample.
PingRefused ==
    /\ doing = "deciding" /\ ~Is_fresh /\ tokens < ping_tokens
    /\ \E retry_after \in {None, Reset(tokens, boundary)} :
         _budget' = [TokenBudget(0) EXCEPT
                       !.remaining_requests = 0,
                       !.reset_seconds =
                          FalsyOr(retry_after,
                                  IF Known(_budget) THEN _budget.reset_seconds
                                                    ELSE FiveSeconds),
                       !.reset_requests_seconds = retry_after]
    /\ age' = 0 /\ _prev_ping' = None /\ since' = 0 /\ whole' = FALSE
    /\ UNCHANGED <<provider, run, _votes, honest, doing, pause, plan, stalls, waited>>

-----------------------------------------------------------------------------
(* The session.                                                            *)

\* Session.forecast(), for the rest of the run.
forecast ==
    /\ doing = "deciding" /\ Is_fresh /\ plan = None
    /\ plan' = forecast_run(reading, per_step, Steps - done, latency,
                            wait_threshold_s)
    /\ stalls' = 0 /\ waited' = 0
    /\ UNCHANGED <<provider, adapter, run, doing, pause>>

verdict == decide(reading, TokenStep(per_step), wait_threshold_s, 0)

next_action ==
    /\ doing = "deciding" /\ Is_fresh
    /\ doing' = CASE verdict.action = "continue"   -> "going"
               [] verdict.action = "wait"       -> "waiting"
               [] verdict.action = "checkpoint" -> "suspended"
    /\ pause' = CASE verdict.action = "continue"   -> 0
                  [] verdict.action = "wait"       -> verdict.wait_seconds
                  [] verdict.action = "checkpoint" -> FalsyOr(reading.reset_seconds, 1)
    /\ stalls' = IF verdict.action = "continue" THEN stalls
                                             ELSE Lesser(stalls + 1, MaxStalls)
    /\ UNCHANGED <<provider, adapter, run, plan, waited>>

\* Mutated form: a call of one's own does not end the pair of samples.
call_KeepsSample ==
    /\ doing = "going"
    /\ Pass(tokens - per_step, latency)
    /\ _budget' = Header(tokens', boundary') /\ age' = 0
    /\ since' = since + latency
    /\ done' = done + 1
    /\ doing' = IF done' = Steps THEN "done" ELSE "resting"
    /\ UNCHANGED <<kind, per_step, _prev_ping, _votes, honest, whole, pause,
                   plan, stalls, waited>>

\* backend(): a call of the estimated size.
call ==
    /\ doing = "going"
    /\ Pass(tokens - per_step, latency)
    /\ Absorb(tokens', boundary')
    /\ done' = done + 1
    /\ doing' = IF done' = Steps THEN "done" ELSE "resting"
    /\ UNCHANGED <<kind, per_step, _votes, honest, pause, plan, stalls, waited>>

Rest ==
    /\ doing = "resting"
    /\ \E d \in Rests : Pass(tokens, d) /\ Older(d)
    /\ doing' = "deciding"
    /\ UNCHANGED <<kind, run, _budget, _prev_ping, _votes, honest, pause, plan,
                   stalls, waited>>

\* The advised wait is slept out in place, at most fifteen seconds of it, half
\* a second longer; a wait that is over before it begins makes it five.
Wait ==
    LET advised == FalsyOr(FalsyOr(pause, reading.reset_seconds), FiveSeconds)
        d == Lesser(advised, FifteenSeconds) + HalfSecond
    IN  /\ doing = "waiting"
        /\ Pass(tokens, d)
        /\ since' = since + d
        /\ whole' = (whole \/ After(tokens, d) = Limit)
        /\ IF Invalidates THEN invalidate
                          ELSE age' = Lesser(age + d, max_age_s + 1)
        /\ waited' = Lesser(waited + pause, MaxWaited)
        /\ doing' = "deciding"
        /\ UNCHANGED <<kind, run, _budget, _prev_ping, _votes, honest, pause,
                       plan, stalls>>

\* The run is resumed after the reset, by a process with an adapter of its own.
ResumeRun ==
    /\ doing = "suspended"
    /\ Pass(tokens, pause)
    /\ waited' = Lesser(waited + pause, MaxWaited)
    /\ _budget' = None /\ age' = 0 /\ _prev_ping' = None /\ since' = 0
    /\ _votes' = <<>> /\ honest' = 0 /\ whole' = FALSE
    /\ doing' = "deciding"
    /\ UNCHANGED <<kind, run, pause, plan, stalls>>

PlannerInit ==
    /\ kind \in Kinds /\ per_step \in StepSizes
    /\ tokens \in InitialTokens
    /\ boundary \in (IF kind = "fixed" THEN Boundaries ELSE {0})
    /\ _budget = None /\ age = 0 /\ _prev_ping = None /\ since = 0
    /\ _votes = <<>> /\ honest = 0 /\ whole = FALSE
    /\ doing = "deciding" /\ pause = 0 /\ done = 0
    /\ plan = None /\ stalls = 0 /\ waited = 0

Turn ==
    \/ ping \/ PingRefused \/ next_action \/ call
    \/ Rest \/ Wait \/ ResumeRun

PlannerNext == Turn \/ forecast

\* The agent goes on with its run, and time with it; nobody has to ask for a
\* forecast.
PlannerSpec == PlannerInit /\ [][PlannerNext]_planner /\ WF_planner(Turn)

-----------------------------------------------------------------------------
(* Properties.                                                             *)

\* The forecast counts every stall: under continuous refill decide() stops the
\* run no more often than forecast_run() simulated, pings included.
StallsCovered ==
    plan # None /\ kind = "continuous" /\ ~plan.context_wall
      => stalls <= plan.stalls

\* A run for which no wall was forecast gets done: wait and suspension always
\* lead past the step they were advised for.
RunCompletes == (plan # None /\ ~plan.context_wall) ~> doing = "done"

\* A wrong verdict on the regime lasts no longer than the votes are remembered:
\* after a window of gaps in which the bucket neither filled up nor was reset,
\* the verdict is right.
VerdictFades == honest = window => regime(_votes) = kind

\* The waiting that was forecast covers the waiting that is advised.
WaitingCovered ==
    plan # None /\ ~plan.context_wall => waited <= plan.waiting_s

\* A wall is forecast only for a step that needs the whole window.
WallIsReal == plan # None /\ plan.context_wall => 100 * per_step >= 98 * Limit

=============================================================================
