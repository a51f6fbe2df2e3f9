---------------------------- MODULE Coordinator -----------------------------
(***************************************************************************)
(* MultiAgentCoordinator of src/src/agentpause/coordinator.py: agents that *)
(* share one rate-limit window, each holding a reservation for the call it *)
(* has in flight.  The coordinator's own state is four dictionaries; around*)
(* it are the provider's window, the calls in flight and the telemetry     *)
(* cache of the adapter, which every response overwrites.                  *)
(*                                                                         *)
(* The coordinator takes no lock: its methods run one at a time (an event  *)
(* loop, or one thread).  What interleaves with them, also between two     *)
(* decisions of one arbitrate(), is the provider: it charges calls and     *)
(* refills the window at any moment.  Responses are delivered to the       *)
(* adapter one by one.                                                     *)
(***************************************************************************)
EXTENDS Risk, TokenTotals, Sequences

CONSTANTS
    Agents,
    Limit,              \* tokens in a full window
    RequestLimit,       \* requests in a full window
    Needs,              \* what a call may need: estimated + ceil(k * sigma)
    Priorities,
    WaitThreshold,
    PingCost,           \* tokens a telemetry ping spends
    InOrder,            \* are responses absorbed in the order of processing?
    MaxClock            \* bound on the clock

ASSUME CoordinatorAssumption ==
    /\ IsFiniteSet(Agents)
    /\ Limit \in Nat /\ RequestLimit \in Nat /\ PingCost \in Nat
    /\ Needs \subseteq Nat \ {0}
    /\ Priorities \subseteq Int /\ 0 \in Priorities
    /\ WaitThreshold \in Nat /\ MaxClock \in Nat /\ InOrder \in BOOLEAN

VARIABLES
    priority,           \* _priority
    order,              \* _order: registration rank, None when unknown
    reservations,       \* _reservations: tokens held, 0 when absent
    waiting_since,      \* _waiting_since: clock reading, None when absent
    queue,              \* arbitrate(): sorted requests not decided yet
    results,            \* arbitrate(): decisions so far, in service order
    clock,
    window,             \* the provider: [tokens, requests] left
    reading,            \* the adapter's last reading, same fields
    call,               \* where each agent's call stands
    header,             \* the window each undelivered response reports
    ahead               \* responses processed before, not absorbed yet

coordinator == <<priority, order, reservations, waiting_since>>
round == <<queue, results>>
provider == <<window, call, header, ahead>>
vars == <<coordinator, round, clock, reading, provider>>

Windows == [tokens : 0 .. Limit, requests : 0 .. RequestLimit]

\* A request of arbitrate() with the sort key's clock reading.
Requests == [agent : Agents, needed : Needs, waited : 0 .. MaxClock]

CallStates == {"idle", "granted", "served", "refused", "returned"}

\* Granted calls the provider has not answered, and answers on the way back.
Outstanding == {a \in Agents : call[a] = "granted"}
Undelivered == {a \in Agents : call[a] \in {"served", "refused"}}

-----------------------------------------------------------------------------
(* Shared-pool accounting.                                                 *)

reserved == Total(reservations, Agents)

\* Mutated form: the reading is taken before the ping is charged.
Pinged_Early ==
    LET w == [tokens |-> window.tokens - PingCost,
              requests |-> window.requests - 1]
    IN  [window |-> IF w \in Windows THEN w ELSE window, reading |-> window]

\* A ping the provider turns away reads as an empty window.
Pinged ==
    LET w == [tokens |-> window.tokens - PingCost,
              requests |-> window.requests - 1]
    IN  IF w \in Windows
          THEN [window |-> w, reading |-> w]
          ELSE [window |-> window, reading |-> [tokens |-> 0, requests |-> 0]]

\* Telemetry serves the cached reading or pings for a fresh one.  In order, no
\* ping overtakes a response on its way.
Telemetry ==
    {[window |-> window, reading |-> reading]}
        \cup (IF InOrder /\ Undelivered # {} THEN {} ELSE {Pinged})

\* Mutated form: what other agents hold is not subtracted.
shadow_IgnoresHolds(r, held) ==
    [TokenBudget(r.tokens) EXCEPT !.remaining_requests = r.requests]

\* The budget an agent decides against.
shadow(r, held) ==
    [TokenBudget(Greater(0, r.tokens - held)) EXCEPT
        !.remaining_requests = r.requests,
        !.reset_seconds      = Limit - r.tokens,
        !.limit_tokens       = Limit]

Verdict(r, held, needed) ==
    decide(shadow(r, held), TokenStep(needed), WaitThreshold, 0).action

-----------------------------------------------------------------------------
(* Registration.                                                           *)

Registered == {a \in Agents : order[a] # None}

\* register() at the default priority, for agents seen for the first time.
ensure(S) ==
    LET known == Cardinality(Registered)
        new == S \ Registered
    IN  /\ \E rank \in [new -> known .. known + Cardinality(new) - 1] :
             /\ \A a, b \in new : rank[a] = rank[b] => a = b
             /\ order' = [a \in Agents |-> IF a \in new THEN rank[a]
                                                        ELSE order[a]]
        /\ priority' = [a \in Agents |-> IF a \in new THEN 0 ELSE priority[a]]

Idle == queue = <<>> /\ results = <<>>

\* Mutated form: registering again moves an agent to the back.
register_Reranks(a, p) ==
    /\ Idle
    /\ order' = [order EXCEPT ![a] = Cardinality(Registered)]
    /\ priority' = [priority EXCEPT ![a] = p]
    /\ UNCHANGED <<reservations, waiting_since, round, clock, reading,
                   provider>>

register(a, p) ==
    /\ Idle
    /\ order' = [order EXCEPT ![a] = IF a \in Registered
                                       THEN order[a]
                                       ELSE Cardinality(Registered)]
    /\ priority' = [priority EXCEPT ![a] = p]
    /\ UNCHANGED <<reservations, waiting_since, round, clock, reading,
                   provider>>

-----------------------------------------------------------------------------
(* One decision: the bookkeeping request() and arbitrate() share.          *)

Grant(a, needed) ==
    /\ reservations' = [reservations EXCEPT ![a] = needed]
    /\ waiting_since' = [waiting_since EXCEPT ![a] = None]
    /\ call' = [call EXCEPT ![a] = "granted"]

Refuse(a) ==
    /\ waiting_since' = [waiting_since EXCEPT ![a] = IF @ = None THEN clock
                                                                 ELSE @]
    /\ UNCHANGED <<reservations, call>>

\* The agent's own stale hold does not count against its fresh request.
request(a, needed) ==
    /\ Idle
    /\ call[a] = "idle"
    /\ ensure({a})
    /\ \E t \in Telemetry :
         /\ window' = t.window /\ reading' = t.reading
         /\ IF Verdict(t.reading, reserved - reservations[a], needed)
                 = "continue"
              THEN Grant(a, needed)
              ELSE Refuse(a)
    /\ UNCHANGED <<round, clock, header, ahead>>

\* The caller's call has returned: the hold is dropped.
complete(a) ==
    /\ Idle
    /\ call[a] = "returned"
    /\ reservations' = [reservations EXCEPT ![a] = 0]
    /\ waiting_since' = [waiting_since EXCEPT ![a] = None]
    /\ call' = [call EXCEPT ![a] = "idle"]
    /\ UNCHANGED <<priority, order, round, clock, reading, window, header,
                   ahead>>

-----------------------------------------------------------------------------
(* arbitrate(): sort, then decide one request after the other.             *)

\* The clock reading an agent is ranked by: when it first waited, or now.
Waited(a) == IF waiting_since[a] = None THEN clock ELSE waiting_since[a]

\* Mutated form: first come, first served.
Before_IgnoresPriority(a, b) == Waited(a) <= Waited(b)

\* May a be served before b?  On equal readings registration order decides,
\* unless b is not waiting and its `now' was read after the clock had moved.
Before(a, b) ==
    \/ priority'[a] > priority'[b]
    \/ /\ priority'[a] = priority'[b]
       /\ \/ Waited(a) < Waited(b)
          \/ /\ Waited(a) = Waited(b)
             /\ order'[a] < order'[b] \/ waiting_since[b] = None

Sorted(q) ==
    \A i, j \in 1 .. Len(q) : i < j => Before(q[i].agent, q[j].agent)

arbitrate(S, needs) ==
    /\ Idle
    /\ \A a \in S : call[a] = "idle"
    /\ ensure(S)
    /\ \E rank \in [1 .. Cardinality(S) -> S] :
         /\ \A i, j \in 1 .. Cardinality(S) : rank[i] = rank[j] => i = j
         /\ queue' = [i \in 1 .. Cardinality(S) |->
                         [agent  |-> rank[i],
                          needed |-> needs[rank[i]],
                          waited |-> Waited(rank[i])]]
         /\ Sorted(queue')
    /\ UNCHANGED <<reservations, waiting_since, results, clock, reading,
                   provider>>

\* One turn of the loop.  Here every hold counts, the agent's own included.
arbitrate_next ==
    /\ queue # <<>>
    /\ LET a == Head(queue).agent
           needed == Head(queue).needed
       IN  \E t \in Telemetry :
             /\ window' = t.window /\ reading' = t.reading
             /\ LET verdict == Verdict(t.reading, reserved, needed)
                IN  /\ IF verdict = "continue" THEN Grant(a, needed)
                                               ELSE Refuse(a)
                    /\ results' = Append(results,
                          [agent    |-> a,
                           needed   |-> needed,
                           granted  |-> verdict = "continue",
                           waited   |-> Head(queue).waited,
                           own      |-> reservations[a],
                           tokens   |-> t.reading.tokens,
                           requests |-> t.reading.requests])
    /\ queue' = Tail(queue)
    /\ UNCHANGED <<priority, order, clock, header, ahead>>

arbitrate_return ==
    /\ queue = <<>> /\ results # <<>>
    /\ results' = <<>>
    /\ UNCHANGED <<coordinator, queue, clock, reading, provider>>

-----------------------------------------------------------------------------
(* The calls, the provider and the adapter.                                *)

\* The provider takes the call: at most the reserved tokens, and a request.
Serve(a) ==
    /\ call[a] = "granted"
    /\ window.requests > 0
    /\ \E used \in 0 .. reservations[a] :
         /\ used <= window.tokens
         /\ window' = [tokens |-> window.tokens - used,
                       requests |-> window.requests - 1]
    /\ header' = [header EXCEPT ![a] = window']
    /\ ahead' = [ahead EXCEPT ![a] = Undelivered]
    /\ call' = [call EXCEPT ![a] = "served"]
    /\ UNCHANGED <<coordinator, round, clock, reading>>

\* The call fails (429, or 5xx): it costs nothing, its headers still come.
Fail(a) ==
    /\ call[a] = "granted"
    /\ header' = [header EXCEPT ![a] = window]
    /\ ahead' = [ahead EXCEPT ![a] = Undelivered]
    /\ call' = [call EXCEPT ![a] = "refused"]
    /\ UNCHANGED <<coordinator, round, clock, reading, window>>

\* The adapter absorbs the response's headers.  After an error the backend
\* raises past the caller's complete(): AgentFleet.call does not catch it.
Deliver(a) ==
    /\ Idle
    /\ a \in Undelivered
    /\ InOrder => ahead[a] = {}
    /\ reading' = header[a]
    /\ ahead' = [b \in Agents |-> IF b = a THEN {} ELSE ahead[b] \ {a}]
    /\ header' = [header EXCEPT ![a] = None]
    /\ call' = [call EXCEPT ![a] = IF @ = "served" THEN "returned" ELSE "idle"]
    /\ UNCHANGED <<coordinator, round, clock, window>>

\* The window refills, in part or whole.
Refill ==
    /\ \E w \in Windows :
         /\ w.tokens >= window.tokens /\ w.requests >= window.requests
         /\ window' = w
    /\ UNCHANGED <<coordinator, round, clock, reading, call, header, ahead>>

Tick ==
    /\ clock < MaxClock
    /\ clock' = clock + 1
    /\ UNCHANGED <<coordinator, round, reading, provider>>

-----------------------------------------------------------------------------
Init ==
    /\ priority = [a \in Agents |-> 0]
    /\ order = [a \in Agents |-> None]
    /\ reservations = [a \in Agents |-> 0]
    /\ waiting_since = [a \in Agents |-> None]
    /\ queue = <<>> /\ results = <<>>
    /\ clock = 0
    /\ window = [tokens |-> Limit, requests |-> RequestLimit]
    /\ reading = window
    /\ call = [a \in Agents |-> "idle"]
    /\ header = [a \in Agents |-> None]
    /\ ahead = [a \in Agents |-> {}]

Next ==
    \/ \E a \in Agents, p \in Priorities : register(a, p)
    \/ \E a \in Agents, n \in Needs : request(a, n)
    \/ \E a \in Agents : complete(a) \/ Serve(a) \/ Fail(a) \/ Deliver(a)
    \/ \E S \in SUBSET Agents : \E needs \in [S -> Needs] : arbitrate(S, needs)
    \/ arbitrate_next \/ arbitrate_return
    \/ Refill \/ Tick

Spec == Init /\ [][Next]_vars

-----------------------------------------------------------------------------
(* Properties.                                                             *)

TypeOK ==
    /\ priority \in [Agents -> Priorities]
    /\ order \in [Agents -> 0 .. Cardinality(Agents) - 1 \cup {None}]
    /\ reservations \in [Agents -> Needs \cup {0}]
    /\ waiting_since \in [Agents -> 0 .. MaxClock \cup {None}]
    /\ queue \in Seq(Requests)
    /\ results \in Seq([agent : Agents, needed : Needs, granted : BOOLEAN,
                        waited : 0 .. MaxClock, own : Needs \cup {0},
                        tokens : 0 .. Limit, requests : 0 .. RequestLimit])
    /\ clock \in 0 .. MaxClock
    /\ window \in Windows /\ reading \in Windows
    /\ call \in [Agents -> CallStates]
    /\ header \in [Agents -> Windows \cup {None}]
    /\ ahead \in [Agents -> SUBSET Agents]

(* The parts of the inductive invariant behind the two properties below.   *)

\* Responses on their way are totally ordered by `ahead', and carry a reading.
AnswersOrdered ==
    \A a \in Undelivered :
        /\ header[a] \in Windows
        /\ ahead[a] \subseteq Undelivered \ {a}
        /\ \A b \in Undelivered \ {a} : a \in ahead[b] \/ b \in ahead[a]

\* The agents of a round are idle and distinct; a granted call holds tokens.
RoundIdle ==
    /\ \A i \in 1 .. Len(queue) : call[queue[i].agent] = "idle"
    /\ \A i, j \in 1 .. Len(queue) : queue[i].agent = queue[j].agent => i = j

GrantsHold == \A a \in Outstanding : reservations[a] > 0

\* A reading is ahead of the window by no more than the holds of the calls
\* charged after it was taken, all of them undelivered still.
Behind(a) == {b \in Undelivered : a \in ahead[b]}

ReadingBounded ==
    reading.tokens <= window.tokens + Total(reservations, Undelivered)

HeadersBounded ==
    \A a \in Undelivered :
        header[a].tokens <= window.tokens + Total(reservations, Behind(a))

PoolInv ==
    /\ TypeOK
    /\ RoundIdle /\ GrantsHold /\ AnswersOrdered
    /\ ReadingBounded /\ HeadersBounded

\* What the coordinator believes free is free: the reading less every hold
\* never exceeds the window less the calls still to be charged.
ReadingIsSafe ==
    reading.tokens - reserved <= window.tokens - Total(reservations,
                                                       Outstanding)

\* No two agents are told `go' into a window that only fits one: when a grant
\* is issued, the window holds every call granted and not yet charged.
GrantFits ==
    [][\A a \in Agents : call[a] # "granted" /\ call'[a] = "granted" =>
          Total(reservations', Outstanding') <= window'.tokens]_vars

Outranks(r, s) ==
    \/ priority[r.agent] > priority[s.agent]
    \/ priority[r.agent] = priority[s.agent] /\ r.waited < s.waited

\* Decision r refused an agent a call that decision s, of the same arbitrate(),
\* granted an agent it outranks (by priority, or at equal priority by a longer
\* wait) and that asked for no less.
Inverted(r, s) ==
    /\ Outranks(r, s) /\ r.needed <= s.needed
    /\ s.granted /\ ~r.granted

\* The window was seen to refill between the two decisions.
SeenToRefill(r, s) == s.tokens > r.tokens \/ s.requests > r.requests

\* A grant of the round between decisions i and j took the place of a larger
\* hold, left over from a call that never completed.
GaveBack(i, j) ==
    \E k \in i + 1 .. j - 1 :
        results[k].granted /\ results[k].own > results[k].needed

\* In one arbitrate(), nobody outranked is preferred, unless the window was
\* seen to refill in between or a grant in between gave tokens back.
NoPriorityInversion ==
    \A i, j \in 1 .. Len(results) :
        Inverted(results[i], results[j]) =>
            \/ SeenToRefill(results[i], results[j])
            \/ GaveBack(i, j)

\* The same without the second exception: in one round the pool only shrinks,
\* and who is refused has lost to nobody it outranks.
HighestFirst ==
    \A i, j \in 1 .. Len(results) :
        Inverted(results[i], results[j]) =>
            SeenToRefill(results[i], results[j])

(* The parts of the inductive invariant behind NoPriorityInversion.        *)

\* Decisions come in the order of rank.
ServedInOrder ==
    /\ \A i, j \in 1 .. Len(results) :
          i < j => ~Outranks(results[j], results[i])
    /\ \A i \in 1 .. Len(results) : \A j \in 1 .. Len(queue) :
          ~Outranks(queue[j], results[i])
    /\ \A i, j \in 1 .. Len(queue) : i < j => ~Outranks(queue[j], queue[i])

\* What was refused would be refused again on the same reading.
RefusedStill ==
    \A i \in 1 .. Len(results) :
        ~results[i].granted =>
            \/ results[i].requests < 1
            \/ results[i].tokens - reserved < results[i].needed
            \/ GaveBack(i, Len(results) + 1)

RankInv == ServedInOrder /\ RefusedStill /\ NoPriorityInversion

\* The request dimension is shared too: granted calls not yet made never
\* outnumber the requests left when the last of them was granted.
GrantFitsRequests ==
    [][\A a \in Agents : call[a] # "granted" /\ call'[a] = "granted" =>
          Cardinality(Outstanding') <= window'.requests]_vars

\* Tokens are held by in-flight agents only.
HeldInFlightOnly ==
    \A a \in Agents : reservations[a] > 0 => call[a] # "idle"

\* The wait advised to an agent short of tokens is long enough for the window,
\* refilling at the rate its headers imply, to cover it beside every hold.
AdvisedWaitSuffices ==
    \A a \in Agents, n \in Needs :
        LET held == reserved - reservations[a]
            d == decide(shadow(reading, held), TokenStep(n), WaitThreshold, 0)
        IN  /\ Idle /\ call[a] = "idle" /\ reading = window
            /\ reading.requests > 0 /\ d.action = "wait"
            /\ \A b \in Agents : reservations[b] > 0 => call[b] = "granted"
            => Lesser(Limit, window.tokens + d.wait_seconds) - held >= n

\* Every behaviour of the coordinator is one of a shared window that only
\* promises what it has: the tokens of a granted call are a claim until the
\* provider answers it.
SharedPool ==
    INSTANCE SharedWindow WITH
        free   <- window.tokens,
        claims <- [a \in Agents |-> IF call[a] = "granted"
                                      THEN reservations[a] ELSE 0]

ImplementsSharedWindow == SharedPool!Spec

=============================================================================
