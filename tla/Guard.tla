------------------------------- MODULE Guard --------------------------------
(***************************************************************************)
(* One agent pacing itself against one provider: the gate                  *)
(* AgentPauseGuard.check of src/src/agentpause/adapters/langgraph.py, on   *)
(* the telemetry cache OpenAICompatAdapter of                              *)
(* src/src/agentpause/adapters/openai_compat.py, deciding with Risk.       *)
(*                                                                         *)
(* The gate reads telemetry, decides, and returns, sleeps in place or      *)
(* interrupts the graph, at most MaxResumes times per check().  A reading  *)
(* younger than MaxAge is served from the cache with its reset clocks      *)
(* advanced; an older one costs a ping, which itself spends tokens and one *)
(* request.  The gated call itself goes through the adapter, which reads   *)
(* its headers, or past it, as the llm.invoke() of the guard's docs does:  *)
(* the cached reading then stays what it was.                              *)
(*                                                                         *)
(* The provider is a token bucket and a request window that refills whole  *)
(* when its own clock runs out.  A tick is the time one token takes to     *)
(* come back, so that HalfSecond sets the refill rate.                     *)
(***************************************************************************)
EXTENDS Risk

CONSTANTS
    Limit,              \* capacity of the token bucket
    RequestLimit,       \* requests per request window
    RequestPeriod,      \* ticks a request window lasts
    PingCost,           \* tokens one telemetry ping spends
    Wirings,            \* what the node calls: adapter.backend, llm.invoke
    Silent,             \* does the provider send no rate-limit headers?
    Fallback,           \* fallback_remaining, or None
    MaxAge,             \* max_age_s of the telemetry cache
    Needs,              \* what the next step may need, margin included
    Costs,              \* what it may turn out to cost
    Threshold,          \* wait_threshold_s
    Chunk,              \* chunk_s: the longest single sleep
    MaxResumes,         \* max_resumes
    Pauses              \* how long a suspended graph may stay suspended

ASSUME GuardAssumption ==
    /\ Limit \in Nat \ {0} /\ RequestLimit \in Nat \ {0}
    /\ RequestPeriod \in Nat \ {0} /\ PingCost \in 0 .. Limit
    /\ Wirings \subseteq {"backend", "invoke"}
    /\ Silent \in BOOLEAN /\ Fallback \in Nat \cup {None}
    /\ MaxAge \in Nat /\ Threshold \in Nat /\ Chunk \in Nat
    /\ MaxResumes \in Nat \ {0}
    /\ Needs \subseteq Nat \ {0} /\ Costs \subseteq Nat \ {0}
    /\ Pauses \subseteq Nat

OneSecond == 2 * HalfSecond
FiveSeconds == 10 * HalfSecond

\* An older reading is no different.
AgeCap == Greater(Limit, RequestPeriod) + FiveSeconds

VARIABLES
    window,     \* the provider: [tokens, requests, requests_reset]
    cache,      \* the adapter's _budget: the last reading, or None
    age,        \* ticks since _read_at, or None when never read
    unseen,     \* what calls the adapter had no headers of spent since then;
                \* kept for the properties, no step depends on it
    needed,     \* what the gated call needs
    pc,         \* where check() stands
    passes,     \* loop passes of this check() so far
    answers,    \* resume values the node's next interrupt() calls return
    resumes,    \* resumes of the graph since the node's last call
    reading,    \* the budget the last pass decided on, or None
    decision    \* what it decided, or None

vars == <<window, cache, age, unseen, needed, pc, passes, answers, resumes,
          reading, decision>>

interrupts == <<answers, resumes>>

Windows == [tokens : 0 .. Limit, requests : 0 .. RequestLimit,
            requests_reset : 0 .. RequestPeriod]

Spent(tokens, requests) == [tokens |-> tokens, requests |-> requests]

Nothing == Spent(0, 0)

\* Of what was spent unseen, more than a whole window is no different.
Spendings == [tokens : 0 .. Limit, requests : 0 .. RequestLimit]

Clocks == Nat \cup {None}

\* The budgets this adapter can report.
Readings == [remaining_tokens        : Nat,
             remaining_requests      : Nat \cup {None},
             reset_seconds           : Clocks,
             reset_requests_seconds  : Clocks,
             remaining_input_tokens  : {None},
             remaining_output_tokens : {None},
             limit_tokens            : {Limit, None},
             refill_regime           : {None},
             remaining_seconds       : {None}]

\* No reading is not a reading.
ASSUME ReadingAssumption == None \notin Readings

-----------------------------------------------------------------------------
(* The provider.                                                           *)

Elapse(w, d) ==
    LET over == w.requests_reset <= d
    IN  [tokens         |-> Lesser(Limit, w.tokens + d),
         requests       |-> IF over THEN RequestLimit ELSE w.requests,
         requests_reset |-> IF over THEN 0 ELSE w.requests_reset - d]

Accepts(w) == w.requests > 0 /\ w.tokens >= PingCost

\* The first request after a reset opens the next request window.
Spend(w) ==
    [tokens         |-> w.tokens - PingCost,
     requests       |-> w.requests - 1,
     requests_reset |-> IF w.requests_reset = 0 THEN RequestPeriod
                                                ELSE w.requests_reset]

\* The rate-limit headers of a response, as _absorb parses them.
absorb(w) ==
    [TokenBudget(w.tokens) EXCEPT
        !.remaining_requests     = w.requests,
        !.reset_seconds          = Limit - w.tokens,
        !.reset_requests_seconds = w.requests_reset,
        !.limit_tokens           = Limit]

\* An honest retry-after: when the ping would be accepted.
RetryAfter(w) ==
    IF w.requests = 0 THEN w.requests_reset
                      ELSE Greater(0, PingCost - w.tokens)

-----------------------------------------------------------------------------
(* The telemetry cache.                                                    *)

is_fresh == age # None /\ age <= MaxAge

Outcome(w, b, a, u, ok) ==
    [window |-> w, cache |-> b, age |-> a, unseen |-> u, ok |-> ok]

\* Mutated form: a reading once cached is not replaced.
Read_KeepsFirst(w, headers) == IF cache = None THEN absorb(w) ELSE cache

\* What a response leaves in the cache: its headers, if it carries any.
Read(w, headers) == IF headers /\ ~Silent THEN absorb(w) ELSE cache

ReadAge(headers) == IF headers /\ ~Silent THEN 0 ELSE age

\* What is unseen once a request has spent `spent'.
Unseen(headers, spent) ==
    IF headers /\ ~Silent
      THEN Nothing
      ELSE Spent(Lesser(unseen.tokens + spent.tokens, Limit),
                 Lesser(unseen.requests + spent.requests, RequestLimit))

PingAnswered ==
    LET w == Spend(window)
    IN  {Outcome(w, Read(w, TRUE), ReadAge(TRUE),
                 Unseen(TRUE, Spent(PingCost, 1)), TRUE)}

\* A 429 on a ping is itself a reading: nothing left until the retry-after.
Ping429 ==
    {LET known == Read(window, headers)
         reset == IF known = None THEN FiveSeconds ELSE known.reset_seconds
     IN  Outcome(window,
                 [TokenBudget(0) EXCEPT
                    !.remaining_requests     = 0,
                    !.reset_seconds          = FalsyOr(after, reset),
                    !.reset_requests_seconds = after],
                 0, Nothing, TRUE)
     : after \in {None, RetryAfter(window)}, headers \in BOOLEAN}

\* A 5xx raises out of the reading, its headers absorbed all the same.
Ping5xx ==
    {Outcome(window, Read(window, headers), ReadAge(headers),
             Unseen(headers, Nothing), FALSE)
     : headers \in BOOLEAN}

ping == (IF Accepts(window) THEN PingAnswered ELSE Ping429) \cup Ping5xx

Aged(clock, a) == IF Known(clock) THEN Greater(0, clock - a) ELSE None

age_adjusted(b, a) ==
    IF a = None
      THEN b
      ELSE [b EXCEPT !.reset_seconds = Aged(b.reset_seconds, a),
                     !.reset_requests_seconds =
                        Aged(b.reset_requests_seconds, a)]

\* What budget() returns once the cache is as fresh as it gets, or None for
\* the error it raises when the provider never sent a header.
Served(o) ==
    CASE ~o.ok -> None
      [] o.ok /\ o.cache # None -> age_adjusted(o.cache, o.age)
      [] o.ok /\ o.cache = None ->
            IF Known(Fallback) THEN TokenBudget(Fallback) ELSE None

budget ==
    IF is_fresh THEN {Outcome(window, cache, age, unseen, TRUE)} ELSE ping

-----------------------------------------------------------------------------
(* The gate.                                                               *)

Init ==
    /\ window \in Windows
    /\ window.requests_reset = 0 => window.requests = RequestLimit
    /\ cache = None /\ age = None /\ unseen = Nothing
    /\ needed \in Needs
    /\ pc = "reading" /\ passes = 0 /\ answers = 0 /\ resumes = 0
    /\ reading = None /\ decision = None

\* One pass up to its decision: read telemetry, decide, branch.
Pass ==
    /\ pc = "reading" /\ passes < MaxResumes
    /\ \E o \in budget :
         /\ window' = o.window /\ cache' = o.cache /\ age' = o.age
         /\ unseen' = o.unseen
         /\ reading' = Served(o)
         /\ decision' = IF Served(o) = None
                          THEN None
                          ELSE decide(Served(o), TokenStep(needed),
                                      Threshold, 0)
         /\ pc' = CASE Served(o) = None -> "raised"
                    [] Served(o) # None /\ decision'.action = "continue" ->
                          "proceed"
                    [] Served(o) # None /\ decision'.action = "wait" ->
                          "sleeping"
                    [] Served(o) # None /\ decision'.action = "checkpoint" ->
                          "interrupting"
    /\ passes' = passes + 1
    /\ UNCHANGED <<needed, interrupts>>

TimePasses(d) ==
    /\ window' = Elapse(window, d)
    /\ age' = IF age = None THEN None ELSE Lesser(age + d, AgeCap)

\* Sleep a chunk of the advised wait, a default second when it is zero.
Sleep ==
    /\ pc = "sleeping"
    /\ TimePasses(Lesser(FalsyOr(FalsyOr(decision.wait_seconds,
                                         reading.reset_seconds), OneSecond),
                         Chunk) + HalfSecond)
    /\ pc' = "reading"
    /\ UNCHANGED <<cache, unseen, needed, passes, interrupts, reading,
                   decision>>

\* interrupt() without a resume value aborts the node: the graph is suspended.
Interrupt ==
    /\ pc = "interrupting" /\ answers = 0
    /\ pc' = "suspended"
    /\ UNCHANGED <<window, cache, age, unseen, needed, passes, interrupts,
                   reading, decision>>

\* On a resume pass interrupt() returns, and the loop reads again.
InterruptReturns ==
    /\ pc = "interrupting" /\ answers > 0
    /\ pc' = "reading" /\ answers' = answers - 1
    /\ UNCHANGED <<window, cache, age, unseen, needed, passes, resumes,
                   reading, decision>>

\* The graph is resumed: the node runs check() from its start, and as many
\* interrupt() calls return as the graph was resumed times.
Resume ==
    /\ pc = "suspended"
    /\ \E d \in Pauses : TimePasses(d)
    /\ resumes' = Lesser(resumes + 1, MaxResumes) /\ answers' = resumes'
    /\ pc' = "reading" /\ passes' = 0
    /\ UNCHANGED <<cache, unseen, needed, reading, decision>>

\* The node raised, and the graph is invoked again.
Invoke ==
    /\ pc = "raised"
    /\ \E d \in Pauses : TimePasses(d)
    /\ pc' = "reading" /\ passes' = 0 /\ answers' = resumes
    /\ UNCHANGED <<cache, unseen, needed, resumes, reading, decision>>

\* The for loop runs out of passes and check() returns.
PassesExhausted ==
    /\ pc = "reading" /\ passes = MaxResumes
    /\ pc' = "exhausted"
    /\ UNCHANGED <<window, cache, age, unseen, needed, passes, interrupts,
                   reading, decision>>

\* The telemetry after a call: its headers, if it went through the adapter.
Heard(w, wiring, spent) ==
    LET headers == wiring = "backend"
    IN  /\ cache' = Read(w, headers) /\ age' = ReadAge(headers)
        /\ unseen' = Unseen(headers, spent)

\* The gated call, once check() has returned: it costs no more than needed.
Call ==
    /\ pc \in {"proceed", "exhausted"}
    /\ \E used \in Costs, wiring \in Wirings :
         /\ used <= needed /\ window.tokens >= used /\ window.requests > 0
         /\ window' = [Spend(window) EXCEPT !.tokens = window.tokens - used]
         /\ Heard(window', wiring, Spent(used, 1))
    /\ pc' = "reading" /\ passes' = 0 /\ answers' = 0 /\ resumes' = 0
    /\ needed' \in Needs
    /\ UNCHANGED <<reading, decision>>

\* The provider turns the call away: 429, raised out of the node.
CallRejected ==
    /\ pc \in {"proceed", "exhausted"}
    /\ window.requests = 0 \/ window.tokens < needed
    /\ \E wiring \in Wirings : Heard(window, wiring, Nothing)
    /\ pc' = "raised"
    /\ UNCHANGED <<window, needed, passes, interrupts, reading, decision>>

Next == Pass \/ Sleep \/ Interrupt \/ InterruptReturns \/ Resume
            \/ Invoke \/ PassesExhausted \/ Call \/ CallRejected

Spec == Init /\ [][Next]_vars

-----------------------------------------------------------------------------
(* Properties.                                                             *)

TypeOK ==
    /\ window \in Windows
    /\ cache \in Readings \cup {None}
    /\ age \in 0 .. AgeCap \cup {None} /\ unseen \in Spendings
    /\ needed \in Needs
    /\ pc \in {"reading", "sleeping", "interrupting", "suspended", "proceed",
               "exhausted", "raised"}
    /\ passes \in 0 .. MaxResumes
    /\ resumes \in 0 .. MaxResumes /\ answers \in 0 .. resumes
    /\ reading \in Readings \cup {None}
    /\ decision = None \/ decision.action \in {"continue", "wait",
                                               "checkpoint"}

\* What was read and what was spent unseen since account for the window: a call
\* let through on a `continue', whatever the age of the reading, is one the
\* provider takes but for what calls past the adapter spent.  With every call
\* made through it, nothing is, and the provider takes the call.
AdmittedCallAccepted ==
    pc = "proceed" => /\ window.tokens + unseen.tokens >= needed
                      /\ window.requests + unseen.requests >= 1

\* When tokens are what is short, sleeping the advised time out leaves the
\* step covered, but for what was spent unseen: the refill math is right on
\* fresh readings and on aged ones.
AdvisedWaitSuffices ==
    pc = "sleeping" /\ requests_fit(reading, 0) =>
        Elapse(window, decision.wait_seconds).tokens + unseen.tokens >= needed

\* The gate interrupts again `rather than letting the call fail with a 429':
\* nothing is taken off for calls past the adapter.
NoCallFailsAdmitted ==
    pc = "proceed" => window.tokens >= needed /\ window.requests >= 1

\* Waiting converges: pings and sleeps alone never use the passes up.
WaitingConverges == pc = "exhausted" => decision.action = "checkpoint"

\* While requests are short the pace is set by the requests clock, not the
\* token clock.
RequestClockRules ==
    /\ decision # None
    /\ ~requests_fit(reading, 0) /\ Known(reading.reset_requests_seconds)
    /\ reading.reset_requests_seconds <= Threshold
    => decision.action = "wait"

\* check() only returns once a budget it read covers the step.
ProceedsOnlyOnFit ==
    pc \in {"proceed", "exhausted"} => decision.action = "continue"

\* With a provider that sends no headers, a fixed assumption that covers the
\* step lets it proceed, sooner or later.
FallbackProceeds == Known(Fallback) /\ needed <= Fallback => pc # "exhausted"

=============================================================================
