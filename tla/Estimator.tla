----------------------------- MODULE Estimator ------------------------------
(***************************************************************************)
(* What an estimator learns: Estimator (src/src/agentpause/estimator.py)   *)
(* and the FeatureEstimator over it (src/src/agentpause/regression.py), as *)
(* operators on what it remembers.                                         *)
(*                                                                         *)
(* A step's sample carries its error, realised cost less base estimate.    *)
(* Means and deviations are compared by their sums, multiplied out.  A     *)
(* fitted regression is the samples it was fitted to.                      *)
(***************************************************************************)
EXTENDS Risk, FiniteSets, SequencesExt

CONSTANTS
    error_window,
    phase_window,
    phase_threshold,
    min_estimate,
    quantile,               \* in percent
    quantile_min,           \* min_samples and window of upper_estimate()
    quantile_window,
    min_samples,            \* of the regression
    history_cap, sample_cap

ASSUME EstimatorAssumption ==
    /\ {error_window, phase_window, phase_threshold, quantile_min,
        quantile_window, min_samples, history_cap, sample_cap} \subseteq Nat \ {0}
    /\ min_estimate \in Nat /\ quantile \in 1 .. 100

\* The last n of a sequence: s[-n:].
Last_n(s, n) == IF Len(s) <= n THEN s ELSE SubSeq(s, Len(s) - n + 1, Len(s))

Total(s) == FoldLeft(LAMBDA a, b : a + b, 0, s)

Squares(s) == FoldLeft(LAMBDA a, b : a + b * b, 0, s)

Magnitude(x) == IF x < 0 THEN -x ELSE x

\* Variance times the square of the length.
Spread(s) == Len(s) * Squares(s) - Total(s) * Total(s)

Untaught == [errors |-> <<>>, all |-> <<>>, samples |-> <<>>, fitted |-> None]

-----------------------------------------------------------------------------
(* Estimates.                                                              *)

\* int() cuts towards zero.
epsilon(est) ==
    IF est.errors = <<>> THEN 0
    ELSE LET t == Total(est.errors)
         IN  IF t < 0 THEN -((-t) \div Len(est.errors))
                      ELSE t \div Len(est.errors)

\* The estimate a regression not yet fitted falls back to.
estimate(est, base) == Greater(min_estimate, base + epsilon(est))

\* ceil(q n), at least 1.
Rank(n) == Greater(1, -((-quantile * n) \div 100))

upper_estimate(est, base) ==
    IF Len(est.all) < quantile_min THEN None
    ELSE LET recent == SortSeq(Last_n(est.all, quantile_window), <)
         IN  Greater(min_estimate, base + recent[Rank(Len(recent))])

-----------------------------------------------------------------------------
(* Learning.                                                               *)

\* The mean moved by more than the threshold times the old window's deviation,
\* a tenth of its mean, and ten.
Shifted(prev, recent) ==
    LET w == phase_window
        moved == Magnitude(Total(recent) - Total(prev))
    IN  /\ moved * moved > phase_threshold * phase_threshold * Spread(prev)
        /\ 10 * moved > phase_threshold * Magnitude(Total(prev))
        /\ moved > phase_threshold * 10 * w

\* The new window is no mixture of two phases.
Tight(recent) ==
    LET level == phase_threshold
                   * Greater(Magnitude(Total(recent)), 100 * phase_window)
    IN  100 * Spread(recent) <= level * level

\* Mutated form: one step more is wanted than the two windows.
AfterPhase_Late(all) ==
    LET w == phase_window
        recent == Last_n(all, w)
        prev == SubSeq(all, Len(all) - 2 * w + 1, Len(all) - w)
    IN  IF Len(all) > 2 * w /\ Shifted(prev, recent) /\ Tight(recent)
          THEN recent ELSE all

\* A coherent shift drops the history before it.
AfterPhase(all) ==
    LET w == phase_window
        recent == Last_n(all, w)
        prev == SubSeq(all, Len(all) - 2 * w + 1, Len(all) - w)
    IN  IF Len(all) >= 2 * w /\ Shifted(prev, recent) /\ Tight(recent)
          THEN recent ELSE all

\* _Ridge.fit: degenerate with no more samples than features, of which the
\* context's length is one.
fit(samples) ==
    LET keys == {samples[i].feat : i \in DOMAIN samples} \ {None}
    IN  IF Len(samples) < Cardinality(keys) + 2 THEN None ELSE samples

_refit(est) ==
    IF Len(est.samples) < min_samples THEN est
                                      ELSE [est EXCEPT !.fitted = fit(est.samples)]

record(est, sample) ==
    _refit([est EXCEPT !.errors = Last_n(Append(@, sample.err), error_window),
                       !.all = AfterPhase(Append(@, sample.err)),
                       !.samples = Last_n(Append(@, sample), sample_cap)])

-----------------------------------------------------------------------------
(* Persistence.                                                            *)

to_dict(est) ==
    [errors        |-> Last_n(est.all, history_cap),
     recent_errors |-> est.errors,
     samples       |-> Last_n(est.samples, sample_cap)]

\* Mutated form: the recent errors are added to those at hand.
load_NoClear(est, state) ==
    _refit([est EXCEPT !.errors = Last_n(@ \o state.recent_errors, error_window),
                       !.all = state.errors,
                       !.samples = state.samples])

load(est, state) ==
    _refit([est EXCEPT !.errors = Last_n(state.recent_errors, error_window),
                       !.all = state.errors,
                       !.samples = state.samples])

=============================================================================
