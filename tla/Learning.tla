------------------------------ MODULE Learning ------------------------------
(***************************************************************************)
(* The sessions of one scheduler and the estimator they share              *)
(* (src/src/agentpause/scheduler.py, regression.py): a session that        *)
(* resumes loads what was saved with its checkpoint, every call teaches    *)
(* the estimator, and a checkpoint carries all of it away.                 *)
(*                                                                         *)
(* Features set for a step are known by the session that set them.         *)
(***************************************************************************)
EXTENDS Estimator

CONSTANTS
    Sessions,
    WithContext,            \* those that call set_context() before a call
    Errors,                 \* what an estimate is off by
    MaxSteps,               \* bound on a session's steps
    MaxSamples,             \* bound on what the estimator has seen
    MaxFailures,            \* bound on calls that raise
    MaxSaves,               \* bound on checkpoints
    Overlap                 \* may a session begin before another has ended?

ASSUME LearningAssumption ==
    /\ WithContext \subseteq Sessions /\ None \notin Sessions
    /\ Errors \subseteq Int
    /\ MaxSteps \in Nat /\ MaxSamples \in Nat /\ MaxFailures \in Nat
    /\ MaxSaves \in Nat
    /\ Overlap \in BOOLEAN

VARIABLES
    est,                    \* scheduler.estimator
    _ambient,               \* features for the next step, None if cleared
    pc,                     \* of each session: "out", "idle", "calling",
                            \* "done"
    step,                   \* cp.step of a session in memory
    store,                  \* its checkpoint, None without one
    work,                   \* what each step of each session is off by
    failures, saves

vars == <<work, est, _ambient, pc, step, store, failures, saves>>

Samples ==
    [of : Sessions, step : Nat, err : Errors, feat : Sessions \cup {None}]

Estimators ==
    [errors : Seq(Errors), all : Seq(Errors), samples : Seq(Samples),
     fitted : Seq(Samples) \cup {None}]

Checkpoints ==
    [step : 0 .. MaxSteps,
     estimator : [errors : Seq(Errors), recent_errors : Seq(Errors),
                  samples : Seq(Samples)]]

TypeOK ==
    /\ est \in Estimators
    /\ store \in [Sessions -> Checkpoints \cup {None}]
    /\ _ambient \in Sessions \cup {None}
    /\ pc \in [Sessions -> {"out", "idle", "calling", "done"}]
    /\ step \in [Sessions -> 0 .. MaxSteps]
    /\ failures \in 0 .. MaxFailures /\ saves \in 0 .. MaxSaves
    /\ work \in [Sessions -> [1 .. MaxSteps -> Errors]]

-----------------------------------------------------------------------------
\* Mutated form: a resumed session takes the estimator as it finds it.
Enter_Unread(s) ==
    /\ pc[s] = "out"
    /\ Overlap \/ \A t \in Sessions : pc[t] \in {"out", "done"}
    /\ pc' = [pc EXCEPT ![s] = "idle"]
    /\ step' = [step EXCEPT ![s] = IF store[s] # None THEN store[s].step ELSE 0]
    /\ UNCHANGED <<work, est, _ambient, store, failures, saves>>

\* Session.__init__: only a checkpoint with steps behind it is resumed.
Enter(s) ==
    /\ pc[s] = "out"
    /\ Overlap \/ \A t \in Sessions : pc[t] \in {"out", "done"}
    /\ pc' = [pc EXCEPT ![s] = "idle"]
    /\ IF store[s] # None
         THEN /\ step' = [step EXCEPT ![s] = store[s].step]
              /\ est' = IF store[s].step > 0 THEN load(est, store[s].estimator)
                                             ELSE est
         ELSE /\ step' = [step EXCEPT ![s] = 0]
              /\ UNCHANGED est
    /\ UNCHANGED <<work, _ambient, store, failures, saves>>

\* set_context(), by those that use it, and the call that follows it.
Call(s) ==
    /\ pc[s] = "idle" /\ step[s] < MaxSteps /\ Len(est.samples) < MaxSamples
    /\ pc' = [pc EXCEPT ![s] = "calling"]
    /\ _ambient' = IF s \in WithContext THEN s ELSE _ambient
    /\ UNCHANGED <<work, est, step, store, failures, saves>>

\* _record_success: record() takes the ambient features, and clears them.
_record_success(s) ==
    /\ pc[s] = "calling"
    /\ est' = record(est, [of |-> s, step |-> step[s] + 1,
                           err |-> work[s][step[s] + 1], feat |-> _ambient])
    /\ _ambient' = None
    /\ step' = [step EXCEPT ![s] = @ + 1]
    /\ pc' = [pc EXCEPT ![s] = "idle"]
    /\ UNCHANGED <<work, store, failures, saves>>

\* The call raises: nothing is recorded, nothing cleared.
Raise(s) ==
    /\ pc[s] = "calling" /\ failures < MaxFailures
    /\ pc' = [pc EXCEPT ![s] = "idle"]
    /\ failures' = failures + 1
    /\ UNCHANGED <<work, est, _ambient, step, store, saves>>

\* Session.checkpoint()
checkpoint(s) ==
    /\ pc[s] = "idle" /\ saves < MaxSaves
    /\ store' = [store EXCEPT ![s] = [step |-> step[s], estimator |-> to_dict(est)]]
    /\ saves' = saves + 1
    /\ UNCHANGED <<work, est, _ambient, pc, step, failures>>

\* Session.complete(): the checkpoint goes, and what was learned stays.
complete(s) ==
    /\ pc[s] = "idle" /\ step[s] > 0
    /\ store' = [store EXCEPT ![s] = None]
    /\ pc' = [pc EXCEPT ![s] = "done"] /\ step' = [step EXCEPT ![s] = 0]
    /\ UNCHANGED <<work, est, _ambient, failures, saves>>

\* The session is suspended, its last step checkpointed.
Suspend(s) ==
    /\ pc[s] = "idle" /\ store[s] # None
    /\ store[s].step = step[s]
    /\ pc' = [pc EXCEPT ![s] = "out"] /\ step' = [step EXCEPT ![s] = 0]
    /\ UNCHANGED <<work, est, _ambient, store, failures, saves>>

\* The process dies and another is started; steps since the last checkpoint
\* are done again.
Restart ==
    /\ est' = Untaught /\ _ambient' = None
    /\ pc' = [s \in Sessions |-> IF pc[s] = "done" THEN "done" ELSE "out"]
    /\ step' = [s \in Sessions |-> 0]
    /\ UNCHANGED <<work, store, failures, saves>>

Init ==
    /\ work \in [Sessions -> [1 .. MaxSteps -> Errors]]
    /\ est = Untaught /\ _ambient = None
    /\ pc = [s \in Sessions |-> "out"] /\ step = [s \in Sessions |-> 0]
    /\ store = [s \in Sessions |-> None] /\ failures = 0 /\ saves = 0

Next ==
    \/ \E s \in Sessions :
         \/ Enter(s) \/ Call(s) \/ _record_success(s) \/ Raise(s)
         \/ checkpoint(s) \/ complete(s) \/ Suspend(s)
    \/ Restart

Spec == Init /\ [][Next]_vars

-----------------------------------------------------------------------------
(* Properties.                                                             *)

ErrorsOf(samples) == [i \in DOMAIN samples |-> samples[i].err]

\* All the estimator corrects itself by is of the history it holds, however
\* many histories were loaded into it before: its recent errors are that
\* history's last, and what it keeps for its margins ends as the history does.
OneHistory ==
    LET errs == ErrorsOf(est.samples)
    IN  /\ est.errors = Last_n(errs, error_window)
        /\ \A k \in 0 .. Len(est.all) - 1 : k < Len(errs) =>
              est.all[Len(est.all) - k] = errs[Len(errs) - k]

\* F9.3, a resumed session starts calibrated: the statistics saved with a
\* checkpoint are of all the steps the session has behind it there.
CheckpointCarriesItsSteps ==
    \A s \in Sessions : store[s] # None =>
        \A n \in 1 .. store[s].step :
            \E i \in DOMAIN store[s].estimator.samples :
                /\ store[s].estimator.samples[i].of = s
                /\ store[s].estimator.samples[i].step = n

Near(errs) == \A x, y \in errs : Magnitude(x - y) <= 10

Far(errs, others) ==
    \A x \in errs, y \in others : Magnitude(x - y) > 10 * phase_threshold
                                  /\ 2 * Magnitude(x - y) > Magnitude(y)

\* Step i began a phase that has settled since, after a settled one.
PhaseBegan(errs, i) ==
    LET before == {errs[j] : j \in (i - phase_window) .. (i - 1)}
        since  == {errs[j] : j \in i .. Len(errs)}
    IN  Near(before) /\ Near(since) /\ Far(since, before)

\* Once a phase has lasted as long as the window, what is expected of the next
\* step is what the phase's own steps have cost, whatever came before: the
\* quantile bound, and the moving average when it reaches no further back.
BoundOfThePhase ==
    LET errs == ErrorsOf(est.samples)
    IN  \A i \in (phase_window + 1) .. (Len(errs) - phase_window + 1) :
            PhaseBegan(errs, i) =>
                LET costs == {Greater(min_estimate, min_estimate + errs[j]) :
                                 j \in i .. Len(errs)}
                IN  /\ Len(est.all) >= quantile_min =>
                          upper_estimate(est, min_estimate) \in costs
                    /\ Len(errs) - i + 1 >= error_window =>
                          \E x, y \in costs :
                             estimate(est, min_estimate) \in x .. y

\* The features of a sample are those its own step was given.
OwnFeatures ==
    \A i \in DOMAIN est.samples :
        est.samples[i].feat = IF est.samples[i].of \in WithContext
                                THEN est.samples[i].of ELSE None

\* What sigma() takes its residuals from is the history at hand.
FitOfTheHistory ==
    est.fitted # None /\ Len(est.fitted) >= 4 => est.fitted = est.samples

=============================================================================
