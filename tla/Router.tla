------------------------------- MODULE Router -------------------------------
(***************************************************************************)
(* BudgetRouter of src/src/agentpause/router.py, as AgentFleet.call and    *)
(* the scheduler use it: budget() first, then, when the decision is to go  *)
(* on, backend().  Providers go down and come up, their readings change    *)
(* and time passes between and during the calls.                           *)
(*                                                                         *)
(* cooldown[r] is what is left until cooldown_until, in ticks.             *)
(***************************************************************************)
EXTENDS Risk, Sequences

CONSTANTS
    N,                  \* number of providers, in the order given
    Scores,             \* what key() makes of a budget
    RetryAfters,        \* what a 429 may ask for, None for nothing
    Resets,             \* reset_seconds of a budget
    DefaultCooldown,    \* default_cooldown_s
    MaxWait,            \* the longest of these
    PingsFail           \* may budget() raise BackendError (a 5xx ping)?

Providers == 1 .. N

ASSUME RouterAssumption ==
    /\ N \in Nat \ {0} /\ Scores \subseteq Nat
    /\ MaxWait \in Nat /\ DefaultCooldown \in 1 .. MaxWait
    /\ RetryAfters \ {None} \subseteq 0 .. MaxWait
    /\ Resets \subseteq 0 .. MaxWait
    /\ PingsFail \in BOOLEAN

VARIABLES
    cooldown,
    queue,          \* the ranked providers still to be tried, with scores
    parking,        \* the provider that has just failed, 0 for none
    retry_after,    \* and what it asked for
    at,             \* where the caller is
    outcome,        \* how the last call ended
    last_exc,
    down,           \* providers that are down
    blind,          \* providers without telemetry
    broken,         \* is the request under way a malformed one?
    asked,          \* providers asked during this call
    skipped,        \* providers it does not rank: in cooldown or blind
    banned          \* what is left of each provider's last Retry-After

router == <<cooldown, queue, parking, retry_after, last_exc>>
routing ==
    <<router, at, outcome, down, blind, broken, asked, skipped, banned>>

Places == {"idle", "planned", "ranking", "calling", "parking"}

-----------------------------------------------------------------------------
(* budget() of the providers.                                              *)

Idle(r) == cooldown[r] = 0

\* What a route's budget() may do: return a budget, or raise.
Reads(r) ==
    IF r \in blind THEN {"TelemetryError"}
    ELSE IF PingsFail /\ r \in down THEN {"budget", "BackendError"}
    ELSE {"budget"}

\* Best first; the sort is stable, and reverse=True keeps it so.
Better(x, y) ==
    x.score > y.score \/ (x.score = y.score /\ x.route < y.route)

\* The providers that are not parked and not blind.
Visible == {r \in Providers : Idle(r) /\ r \notin blind}

\* Their rankings: each of them in one place.
Rankings ==
    {ranking \in UNION {[1 .. n -> [route : Visible, score : Scores]] : n \in 0 .. N} :
        /\ \A r \in Visible : \E i \in DOMAIN ranking : ranking[i].route = r
        /\ \A i, j \in DOMAIN ranking : i < j =>
              ranking[i].route # ranking[j].route /\ Better(ranking[i], ranking[j])}

\* A ping that raises BackendError while the providers are ranked.
PingRaises ==
    \E r \in Providers : Idle(r) /\ "BackendError" \in Reads(r)

Asking == at \in {"ranking", "calling", "parking"}

End(how) ==
    /\ outcome' = how /\ at' = "idle"
    /\ queue' = <<>> /\ parking' = 0 /\ retry_after' = None /\ last_exc' = None
    /\ broken' = FALSE

-----------------------------------------------------------------------------
\* budget(): the best budget, on which the caller decides to go on or not.
budget ==
    /\ at = "idle"
    /\ \/ \E ranking \in Rankings :
            IF ranking = <<>> THEN outcome' = "TelemetryError" /\ UNCHANGED at
                              ELSE outcome' = None /\ at' \in {"idle", "planned"}
       \/ PingRaises /\ outcome' = "BackendError" /\ UNCHANGED at
    /\ UNCHANGED <<router, down, blind, broken, asked, skipped, banned>>

backend(malformed) ==
    /\ at = "planned"
    /\ at' = "ranking" /\ outcome' = None
    /\ broken' = malformed /\ asked' = {}
    /\ UNCHANGED <<router, down, blind, skipped, banned>>

Rank ==
    /\ at = "ranking"
    /\ \/ /\ \E ranking \in Rankings :
               IF ranking = <<>>
                 THEN End("TelemetryError")
                 ELSE /\ queue' = ranking /\ at' = "calling"
                      /\ UNCHANGED <<parking, retry_after, last_exc, outcome, broken>>
       \/ PingRaises /\ End("BackendError")
    /\ skipped' = {r \in Providers : ~Idle(r) \/ r \in blind}
    /\ UNCHANGED <<cooldown, down, blind, asked, banned>>

\* The provider at the head of the queue is called.
Route == Head(queue).route

Answer ==
    /\ at = "calling" /\ Route \notin down /\ ~broken
    /\ asked' = asked \cup {Route}
    /\ End("answered")
    /\ UNCHANGED <<cooldown, down, blind, skipped, banned>>

\* A malformed request is not passed on.
Reject ==
    /\ at = "calling" /\ Route \notin down /\ broken
    /\ asked' = asked \cup {Route}
    /\ End("rejected")
    /\ UNCHANGED <<cooldown, down, blind, skipped, banned>>

\* A 429, with or without a Retry-After, or a retriable error.
Fail ==
    /\ at = "calling" /\ Route \in down
    /\ asked' = asked \cup {Route}
    /\ \E exc \in {"RateLimitHit", "retriable"}, after \in RetryAfters :
         /\ exc = "retriable" => after = None
         /\ last_exc' = exc /\ retry_after' = after
         /\ banned' = IF after = None THEN banned
                                      ELSE [banned EXCEPT ![Route] = after]
    /\ parking' = Route /\ queue' = Tail(queue) /\ at' = "parking"
    /\ UNCHANGED <<cooldown, outcome, down, blind, broken, skipped>>

\* Mutated form: what the 429 asked for is ignored.
Wait_Unasked(reset) == FalsyOr(reset, DefaultCooldown)

\* The wait a parked route is given: what the 429 asked for, else its reset;
\* `or' takes a zero for nothing.
Wait(reset) ==
    FalsyOr(IF retry_after = None THEN reset ELSE retry_after, DefaultCooldown)

\* Mutated form: the call ends with the first failure.
Descend_Never == End(last_exc)

\* The call falls through to the next best, or raises.
Descend ==
    IF queue = <<>>
      THEN End(last_exc)
      ELSE /\ at' = "calling" /\ parking' = 0 /\ retry_after' = None
           /\ UNCHANGED <<queue, last_exc, outcome, broken>>

\* _park(); without a Retry-After it reads the route's budget once more.
Park ==
    /\ at = "parking"
    /\ \E reading \in (IF retry_after = None THEN Reads(parking) ELSE {"unread"}) :
         \/ /\ reading = "BackendError"
            /\ End("BackendError")
            /\ UNCHANGED cooldown
         \/ /\ reading # "BackendError"
            /\ \E reset \in (IF reading = "budget" THEN Resets ELSE {None}) :
                 cooldown' = [cooldown EXCEPT ![parking] = Wait(reset)]
            /\ Descend
    /\ UNCHANGED <<down, blind, asked, skipped, banned>>

-----------------------------------------------------------------------------
Sooner(wait) == IF wait = 0 THEN 0 ELSE wait - 1

Tick ==
    /\ cooldown' = [r \in Providers |-> Sooner(cooldown[r])]
    /\ banned' = [r \in Providers |-> Sooner(banned[r])]
    /\ UNCHANGED <<queue, parking, retry_after, last_exc, at, outcome, down,
                   blind, broken, asked, skipped>>

\* Providers go down and come up, and lose and regain their telemetry.
Weather ==
    /\ down' \in SUBSET Providers /\ blind' \in SUBSET Providers
    /\ UNCHANGED <<router, at, outcome, broken, asked, skipped, banned>>

RouterInit ==
    /\ cooldown = [r \in Providers |-> 0]
    /\ queue = <<>> /\ parking = 0 /\ retry_after = None /\ last_exc = None
    /\ at = "idle" /\ outcome = None
    /\ down \in SUBSET Providers /\ blind \in SUBSET Providers
    /\ broken = FALSE /\ asked = {} /\ skipped = {}
    /\ banned = [r \in Providers |-> 0]

Step == Rank \/ Answer \/ Reject \/ Fail \/ Park

RouterNext ==
    \/ budget \/ (\E malformed \in BOOLEAN : backend(malformed))
    \/ Step \/ Tick \/ Weather

\* What is called returns, and time passes.
RouterSpec ==
    RouterInit /\ [][RouterNext]_routing /\ WF_routing(Step) /\ WF_routing(Tick)

-----------------------------------------------------------------------------
(* Properties.                                                             *)

RouterTypeOK ==
    /\ cooldown \in [Providers -> 0 .. MaxWait]
    /\ \A i \in DOMAIN queue : queue[i] \in [route : Providers, score : Scores]
    /\ parking \in 0 .. N
    /\ retry_after \in RetryAfters \cup {None}
    /\ at \in Places
    /\ last_exc \in {"RateLimitHit", "retriable", None}
    /\ outcome \in {"answered", "rejected", "RateLimitHit", "retriable",
                    "TelemetryError", "BackendError", None}
    /\ down \subseteq Providers /\ blind \subseteq Providers
    /\ asked \subseteq Providers /\ skipped \subseteq Providers
    /\ banned \in [Providers -> 0 .. MaxWait]

\* A provider is not called again before the time its last 429 asked for is
\* over, through whatever failures of others, and other calls, in between.
RetryAfterKept == [][\A r \in asked' \ asked : banned[r] = 0]_routing

\* A sound call is given up only when every provider has been asked, except
\* those in cooldown or without telemetry when the call ranked them.
EveryProviderTried ==
    [][Asking /\ at' = "idle" /\ outcome' # "answered" /\ ~broken =>
          \A r \in Providers : r \in asked' \cup skipped']_routing

\* While some provider stays up and readable and sound calls keep coming, they
\* are answered again and again.
AnswersAgain ==
    (\E r \in Providers : <>[](r \notin down \cup blind))
        /\ []<>(at = "ranking" /\ ~broken)
        => []<>(outcome = "answered")

=============================================================================
