------------------------------- MODULE Session -------------------------------
(***************************************************************************)
(* Session and PredictiveScheduler of src/src/agentpause/scheduler.py with *)
(* RetryPolicy of src/src/agentpause/retry.py: agents that share one       *)
(* scheduler, each running the loop of the module's docstring (ask, decide *)
(* before the call, call with retries, or checkpoint and stop).            *)
(*                                                                         *)
(* The store is atomic here; StateStore looks inside it.  What the         *)
(* estimator has learned is any of Corrections.  The safety factor counts  *)
(* quarters, money counts the price of a token.                            *)
(***************************************************************************)
EXTENDS Risk, Compaction, TokenTotals

CONSTANTS
    Sessions,
    Questions,          \* length of each agent's list of questions
    Sizes,              \* of a message
    MaxTokens,          \* the estimator's cap on output and overhead
    Corrections,        \* what its history may add to an estimate
    Sigma,
    InitialK, KBump, KMax,
    Readings,           \* token readings telemetry may return
    Resets,             \* and times to reset
    WaitThreshold,
    Used,               \* what a call may really use
    MoneyBudget,        \* None without one
    TimeBudget,         \* None without one
    Latency,            \* predicted, None for estimators that predict none
    ContextWindow,      \* None without preventive compaction
    MaxRetries, BaseDelay, Factor, MaxDelay,
    Jitter,             \* percent
    RetryAfters,        \* what a 429 may ask for, None for nothing
    Summaries,          \* are histories summarized before a suspension?
    Parallel,           \* do calls overlap (acall() on one event loop)?
    MaxMessages,        \* bound on a history
    MaxClock            \* bound on the clock

ASSUME SessionAssumption ==
    /\ Sizes \subseteq Nat /\ Used \subseteq Nat /\ Corrections \subseteq Int
    /\ MaxTokens \in Nat
    /\ MoneyBudget \in Nat \cup {None}
    /\ Summaries \in BOOLEAN /\ Parallel \in BOOLEAN

VARIABLES
    pc,                 \* where each agent is in its loop
    messages, step, total_tokens_used,
    started_at,
    estimated,          \* the estimate a call was let through by, 0 before
    attempt,            \* retries of the call, 0 outside one
    pause,              \* the backoff being slept, 0 for none
    stored,             \* the store: each session's checkpoint
    safety_k, money_spent,
    clock,
    begun               \* when the run began, resumptions included

scheduler == <<safety_k, money_spent>>
logical == <<messages, step, total_tokens_used>>
vars == <<pc, logical, started_at, estimated, attempt, pause, stored,
          scheduler, clock, begun>>

Places == {"out", "ready", "asked", "go", "stop", "waiting", "calling",
           "backoff", "raised", "done"}

\* Without parallel calls one agent's iteration ends before another's begins.
Turn(s) ==
    Parallel \/ \A t \in Sessions \ {s} :
                    pc[t] \in {"out", "ready", "raised", "done"}

Move(s, place) == pc' = [pc EXCEPT ![s] = place]

-----------------------------------------------------------------------------
(* Entering, asking, deciding.                                             *)

Blank == [step |-> 0, messages |-> <<>>, total |-> 0]

\* Mutated form: the step counter is not part of what is restored.
Restored_StepLost(s) ==
    IF stored[s] = None THEN Blank ELSE [stored[s] EXCEPT !.step = 0]

Restored(s) == IF stored[s] = None THEN Blank ELSE stored[s]

session(s) ==
    /\ pc[s] \in {"out", "raised"} /\ Turn(s)
    /\ messages' = [messages EXCEPT ![s] = Restored(s).messages]
    /\ step' = [step EXCEPT ![s] = Restored(s).step]
    /\ total_tokens_used' = [total_tokens_used EXCEPT ![s] = Restored(s).total]
    /\ started_at' = [started_at EXCEPT ![s] = clock]
    /\ begun' = [begun EXCEPT ![s] = IF @ = None THEN clock ELSE @]
    /\ estimated' = [estimated EXCEPT ![s] = 0]
    /\ attempt' = [attempt EXCEPT ![s] = 0]
    /\ Move(s, "ready")
    /\ UNCHANGED <<pause, stored, scheduler, clock>>

\* Room for a question and its answer.
Room(s) == Len(messages[s]) + 2 <= MaxMessages

add_message(s, m) == messages' = [messages EXCEPT ![s] = Append(@, m)]

add_system(s) ==
    /\ pc[s] = "ready" /\ messages[s] = <<>> /\ Room(s)
    /\ \E size \in Sizes : add_message(s, Message("system", 0, size))
    /\ UNCHANGED <<pc, step, total_tokens_used, started_at, estimated,
                   attempt, pause, stored, scheduler, clock, begun>>

\* for question in questions[s.step:]: s.add_user(question)
add_user(s) ==
    /\ pc[s] = "ready" /\ Turn(s)
    /\ step[s] < Questions /\ Room(s)
    /\ \E size \in Sizes : add_message(s, Message("user", step[s] + 1, size))
    /\ Move(s, "asked")
    /\ UNCHANGED <<step, total_tokens_used, started_at, estimated, attempt,
                   pause, stored, scheduler, clock, begun>>

_input_tokens(m) == Total([i \in DOMAIN m |-> m[i].size], DOMAIN m)

\* Preventive compaction, at 60% of the context window.
Compacted(m) ==
    IF Known(ContextWindow) /\ 10 * _input_tokens(m) > 6 * ContextWindow
      THEN compact(m) ELSE m

money_remaining == MoneyBudget - money_spent

TimeLeft(s) ==
    IF Known(TimeBudget) THEN TimeBudget - (clock - started_at[s]) ELSE None

\* Mutated form: the estimated cost is not compared with what is left.
Affordable_Ignored(cost) == TRUE

Affordable(cost) == Known(MoneyBudget) => cost <= money_remaining

Verdict(s, tokens, reset, cost) ==
    LET b == [TokenBudget(tokens) EXCEPT !.reset_seconds = reset,
                                         !.remaining_seconds = TimeLeft(s)]
        n == [TokenStep(cost + CeilDiv(safety_k * Sigma, 4))
                EXCEPT !.latency = Latency]
    IN  IF Affordable(cost) THEN decide(b, n, WaitThreshold, 0).action
                            ELSE "checkpoint"

next_action(s) ==
    /\ pc[s] = "asked" /\ Turn(s)
    /\ messages' = [messages EXCEPT ![s] = Compacted(@)]
    /\ \E tokens \in Readings, reset \in Resets, epsilon \in Corrections :
         LET cost == _input_tokens(messages'[s]) + MaxTokens + epsilon
             verdict == Verdict(s, tokens, reset, cost)
         IN  /\ estimated' = [estimated EXCEPT ![s] =
                                IF verdict = "continue" THEN cost ELSE 0]
             /\ Move(s, CASE verdict = "continue"   -> "go"
                          [] verdict = "wait"       -> "waiting"
                          [] verdict = "checkpoint" -> "stop")
    /\ UNCHANGED <<step, total_tokens_used, started_at, attempt, pause,
                   stored, scheduler, clock, begun>>

\* Session.summarize_with(), by a loop that must stop.
summarize(s) ==
    /\ Summaries /\ pc[s] = "stop"
    /\ \E size \in Sizes :
         messages' = [messages EXCEPT ![s] = summarize_with(@, size)]
    /\ UNCHANGED <<pc, step, total_tokens_used, started_at, estimated,
                   attempt, pause, stored, scheduler, clock, begun>>

\* A loop that acts on `wait' sleeps and decides again.
Waited(s) ==
    /\ pc[s] = "waiting" /\ Turn(s)
    /\ Move(s, "asked")
    /\ UNCHANGED <<logical, started_at, estimated, attempt, pause, stored,
                   scheduler, clock, begun>>

\* The memory of the sessions in S is gone.
Forget(S) ==
    /\ messages' = [s \in Sessions |-> IF s \in S THEN <<>> ELSE messages[s]]
    /\ step' = [s \in Sessions |-> IF s \in S THEN 0 ELSE step[s]]
    /\ total_tokens_used' = [s \in Sessions |->
                               IF s \in S THEN 0 ELSE total_tokens_used[s]]
    /\ estimated' = [s \in Sessions |-> IF s \in S THEN 0 ELSE estimated[s]]
    /\ attempt' = [s \in Sessions |-> IF s \in S THEN 0 ELSE attempt[s]]
    /\ pause' = [s \in Sessions |-> IF s \in S THEN 0 ELSE pause[s]]
    /\ started_at' = [s \in Sessions |-> IF s \in S THEN 0 ELSE started_at[s]]

\* should_suspend() takes both other answers for a reason to suspend.
checkpoint(s) ==
    /\ pc[s] \in {"stop", "waiting"}
    /\ stored' = [stored EXCEPT ![s] = [step     |-> step[s],
                                        messages |-> messages[s],
                                        total    |-> total_tokens_used[s]]]
    /\ Forget({s})
    /\ Move(s, "out")
    /\ UNCHANGED <<scheduler, clock, begun>>

complete(s) ==
    /\ pc[s] = "ready" /\ step[s] = Questions
    /\ stored' = [stored EXCEPT ![s] = None]
    /\ Forget({s})
    /\ Move(s, "done")
    /\ UNCHANGED <<scheduler, clock, begun>>

-----------------------------------------------------------------------------
(* call() and acall().                                                     *)

call(s) ==
    /\ pc[s] = "go" /\ Turn(s)
    /\ attempt' = [attempt EXCEPT ![s] = 0]
    /\ Move(s, "calling")
    /\ UNCHANGED <<logical, started_at, estimated, pause, stored, scheduler,
                   clock, begun>>

\* _record_success, after the backend's reply.  A call that uses more than was
\* estimated is left out: no cap decided before the call can hold against it.
Reply(s) ==
    /\ pc[s] = "calling"
    /\ \E used \in Used, size \in Sizes :
         /\ used <= estimated[s]
         /\ total_tokens_used' = [total_tokens_used EXCEPT ![s] = @ + used]
         /\ step' = [step EXCEPT ![s] = @ + 1]
         /\ add_message(s, Message("assistant", step'[s], size))
         /\ money_spent' = IF Known(MoneyBudget) THEN money_spent + used
                                                 ELSE money_spent
    /\ estimated' = [estimated EXCEPT ![s] = 0]
    /\ attempt' = [attempt EXCEPT ![s] = 0]
    /\ Move(s, "ready")
    /\ UNCHANGED <<started_at, pause, stored, safety_k, clock, begun>>

_register_rate_limit_hit == safety_k' = Lesser(safety_k + KBump, KMax)

\* RetryPolicy.delay: exponential, capped, then jittered.
delay(n) ==
    LET base == Lesser(BaseDelay * Factor ^ n, MaxDelay)
    IN  CeilDiv(base * (100 - Jitter), 100) .. (base * (100 + Jitter)) \div 100

\* Mutated form: the attempts are not counted.
Retry_Uncounted(s, pauses) ==
    /\ \E d \in pauses : pause' = [pause EXCEPT ![s] = d]
    /\ UNCHANGED attempt
    /\ Move(s, "backoff")

Retry(s, pauses) ==
    IF attempt[s] >= MaxRetries
      THEN Move(s, "raised") /\ UNCHANGED <<pause, attempt>>
      ELSE /\ \E d \in pauses : pause' = [pause EXCEPT ![s] = d]
           /\ attempt' = [attempt EXCEPT ![s] = @ + 1]
           /\ Move(s, "backoff")

\* RateLimitHit: the provider's retry-after is slept instead of a backoff.
RateLimited(s) ==
    /\ pc[s] = "calling"
    /\ _register_rate_limit_hit
    /\ \E after \in RetryAfters :
         Retry(s, IF Known(after) THEN {0} ELSE delay(attempt[s]))
    /\ UNCHANGED <<logical, started_at, estimated, stored, money_spent, clock,
                   begun>>

\* Mutated form: a failed call takes its question back.
Failed_TakesQuestionBack(s) ==
    /\ pc[s] = "calling"
    /\ messages' = [messages EXCEPT ![s] = Front(@)]
    /\ Move(s, "raised")
    /\ UNCHANGED <<step, total_tokens_used, started_at, estimated, attempt,
                   pause, stored, scheduler, clock, begun>>

\* BackendError: only a retriable one is retried.
Failed(s) ==
    /\ pc[s] = "calling"
    /\ \/ Retry(s, delay(attempt[s]))
       \/ Move(s, "raised") /\ UNCHANGED <<attempt, pause>>
    /\ UNCHANGED <<logical, started_at, estimated, stored, scheduler, clock,
                   begun>>

Slept(s) ==
    /\ pc[s] = "backoff"
    /\ pause' = [pause EXCEPT ![s] = 0]
    /\ Move(s, "calling")
    /\ UNCHANGED <<logical, started_at, estimated, attempt, stored, scheduler,
                   clock, begun>>

-----------------------------------------------------------------------------
\* The process ends, and with it every session and the scheduler.
Exit ==
    /\ \E s \in Sessions : pc[s] \notin {"out", "done"}
    /\ pc' = [s \in Sessions |-> IF pc[s] = "done" THEN "done" ELSE "out"]
    /\ safety_k' = InitialK /\ money_spent' = 0
    /\ Forget(Sessions)
    /\ UNCHANGED <<stored, clock, begun>>

Tick ==
    /\ clock < MaxClock
    /\ clock' = clock + 1
    /\ UNCHANGED <<pc, logical, started_at, estimated, attempt, pause, stored,
                   scheduler, begun>>

Init ==
    /\ pc = [s \in Sessions |-> "out"]
    /\ messages = [s \in Sessions |-> <<>>]
    /\ step = [s \in Sessions |-> 0]
    /\ total_tokens_used = [s \in Sessions |-> 0]
    /\ started_at = [s \in Sessions |-> 0]
    /\ estimated = [s \in Sessions |-> 0]
    /\ attempt = [s \in Sessions |-> 0]
    /\ pause = [s \in Sessions |-> 0]
    /\ stored = [s \in Sessions |-> None]
    /\ safety_k = InitialK /\ money_spent = 0
    /\ clock = 0
    /\ begun = [s \in Sessions |-> None]

Backend(s) == Reply(s) \/ RateLimited(s) \/ Failed(s)

Next ==
    \/ \E s \in Sessions :
         \/ session(s) \/ add_system(s) \/ add_user(s) \/ next_action(s)
         \/ summarize(s) \/ Waited(s) \/ checkpoint(s) \/ complete(s) \/ call(s)
         \/ Backend(s) \/ Slept(s)
    \/ Exit \/ Tick

\* A backend answers or raises, and a sleep ends.
Spec ==
    /\ Init /\ [][Next]_vars
    /\ \A s \in Sessions : WF_vars(Backend(s)) /\ WF_vars(Slept(s))

-----------------------------------------------------------------------------
(* Properties.                                                             *)

TypeOK ==
    /\ pc \in [Sessions -> Places]
    /\ \A s \in Sessions : Len(messages[s]) <= MaxMessages
    /\ step \in [Sessions -> 0 .. Questions]
    /\ total_tokens_used \in [Sessions -> Nat]
    /\ started_at \in [Sessions -> 0 .. MaxClock]
    /\ estimated \in [Sessions -> Nat]
    /\ attempt \in [Sessions -> 0 .. MaxRetries]
    /\ pause \in [Sessions -> Nat]
    /\ safety_k \in Lesser(InitialK, KMax) .. Greater(InitialK, KMax)
    /\ money_spent \in Nat
    /\ clock \in 0 .. MaxClock

Answers(m) == {i \in DOMAIN m : m[i].role = "assistant"}

\* One answer for each of n steps, in the order asked, after its question; a
\* summary stands for the answers before it, and for a question it cut off.
Consistent(m, n) ==
    /\ \A i \in Answers(m) :
          /\ m[i].about \in 1 .. n
          /\ \A j \in Answers(m) : i < j => m[i].about < m[j].about
          /\ i > 1
          /\ \/ m[i - 1].role = "user" /\ m[i - 1].about = m[i].about
             \/ Summaries /\ m[i - 1].role = "system"
    /\ \A k \in 1 .. n :
          \/ \E i \in Answers(m) : m[i].about = k
          \/ Summaries /\ \A i \in Answers(m) : k < m[i].about

\* No phantom steps: through failures, retries, suspensions, crashes and
\* resumptions, in memory and in the store, the history and the step counter
\* agree.
NoPhantomSteps ==
    \A s \in Sessions :
        /\ Consistent(messages[s], step[s])
        /\ stored[s] # None => Consistent(stored[s].messages, stored[s].step)

\* A failed call leaves the session untouched, and so does every retry on the
\* way: only the step to a recorded answer changes it.
CleanFailure ==
    [][\A s \in Sessions :
          /\ pc[s] \in {"calling", "backoff"}
          /\ pc'[s] \in {"calling", "backoff", "raised"}
          => /\ messages'[s] = messages[s] /\ step'[s] = step[s]
             /\ total_tokens_used'[s] = total_tokens_used[s]]_vars

\* Every call returns or raises: retries end.
CallEnds ==
    \A s \in Sessions :
        pc[s] = "calling" ~> pc[s] \notin {"calling", "backoff"}

\* The spending cap holds as long as no call uses more than was estimated.
MoneyCap == Known(MoneyBudget) => money_spent <= MoneyBudget

\* What shrinking m to n is to leave alone.
KeepsEnds(m, n) ==
    /\ m # <<>> /\ m[1].role = "system" => n[1] = m[1]
    /\ \A i \in 0 .. Lesser(keep_last, Len(m)) - 1 :
          i < Len(n) /\ n[Len(n) - i] = m[Len(m) - i]

\* keep_last messages or more, or no more than half as many.
LongOrShort(m) == keep_last <= Len(m) \/ 2 * Len(m) <= keep_last

\* Shrinking a history of keep_last messages or more keeps a leading system
\* message and the keep_last most recent ones intact, and shrinking one of no
\* more than half as many keeps it whole.
KeepsHeadAndRecent ==
    [][\A s \in Sessions :
          /\ pc[s] \in {"asked", "stop"}
          /\ pc'[s] \in {"go", "stop", "waiting"}
          /\ LongOrShort(messages[s])
          => KeepsEnds(messages[s], messages'[s])]_vars

\* Shrinking a history keeps a leading system message and the most recent
\* messages intact, whatever its length.
EndsAlwaysKept ==
    [][\A s \in Sessions :
          /\ pc[s] \in {"asked", "stop"}
          /\ pc'[s] \in {"go", "stop", "waiting"}
          => KeepsEnds(messages[s], messages'[s])]_vars

\* Within a process the safety factor only ever grows.
CautionGrows ==
    [][safety_k' < safety_k =>
          \A s \in Sessions : pc'[s] \in {"out", "done"}]_vars

\* max_delay_s is the ceiling for any single backoff delay.
DelayCeiling == \A s \in Sessions : pause[s] <= MaxDelay

\* A step is begun only when the whole run has time for it.
RunDeadline ==
    [][\A s \in Sessions :
          pc[s] = "asked" /\ pc'[s] = "go" =>
             clock - begun[s] + Latency <= TimeBudget]_vars

\* A resumed run asks each question once.
OneQuestionEach ==
    \A s \in Sessions : \A i, j \in 1 .. Len(messages[s]) :
        /\ messages[s][i].role = "user" /\ messages[s][j].role = "user"
        /\ messages[s][i].about = messages[s][j].about
        => i = j

==============================================================================
