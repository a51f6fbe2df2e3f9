------------------------------ MODULE Attention ------------------------------
(***************************************************************************)
(* HumanAttentionBudget of src/src/agentpause/attention.py, shared by      *)
(* agents that ask a human who comes and goes, and ToolQuota of            *)
(* src/src/agentpause/tools.py, by which a tool paces itself: two sliding  *)
(* windows kept as queues of times and pruned when they are looked at.     *)
(*                                                                         *)
(* A queue holds the ages of its entries, oldest first, up to the window.  *)
(***************************************************************************)
EXTENDS Risk, TokenTotals, Sequences

CONSTANTS
    Agents,
    max_asks, calls_per_window,
    Window,             \* window_s of both, in ticks
    WaitThreshold,      \* of decide()
    Absences            \* what away() may be told, None for no return time

ASSUME AttentionAssumption ==
    /\ max_asks \in Nat \ {0} /\ calls_per_window \in Nat \ {0}
    /\ Window \in Nat \ {0} /\ WaitThreshold \in Nat
    /\ Absences \ {None} \subseteq Nat

VARIABLES
    asks,               \* _asks
    away, away_until,   \* _away, and what is left until _away_until
    nap,                \* each agent: what is left of its sleep
    calls,              \* the tool's _calls
    acquiring,          \* what is left of acquire()'s sleep, None outside it
    asked, called       \* how many asks and calls were made at each age

human == <<asks, away, away_until, nap, asked>>
tool == <<calls, acquiring, called>>
attention == <<human, tool>>

-----------------------------------------------------------------------------
(* Sliding windows.                                                        *)

\* The entries that leave with the i-th, or before it.
Leaving(queue, span) ==
    {i \in DOMAIN queue : \A j \in 1 .. i : queue[j] >= span}

\* Mutated form: an entry leaves the queue one tick early.
Pruned_Early(queue) ==
    SubSeq(queue, Cardinality(Leaving(queue, Window - 1)) + 1, Len(queue))

\* _prune(): entries that are not younger than the window leave, from the left.
Pruned(queue) ==
    SubSeq(queue, Cardinality(Leaving(queue, Window)) + 1, Len(queue))

\* Mutated form: until the newest entry leaves.
Free_Newest(queue, limit) ==
    LET q == Pruned(queue)
    IN  IF Len(q) < limit THEN 0 ELSE Window - q[Len(q)]

\* Until the oldest entry leaves, 0 when there is room.
Free(queue, limit) ==
    LET q == Pruned(queue)
    IN  IF Len(q) < limit THEN 0 ELSE Window - Head(q)

Recorded(queue) == Append(Pruned(queue), 0)

-----------------------------------------------------------------------------
(* HumanAttentionBudget.                                                   *)

\* Mutated form: a declared absence does not run out.
is_away_Unsynced == away

\* _sync_away_expiry: an absence whose end is known runs out by itself.
is_away == away /\ (Known(away_until) => away_until > 0)

\* Tokens never bind.
Sentinel == 1

\* Mutated form: an absence without return time is reported as no wait at all.
as_budget_NoClock ==
    [TokenBudget(Sentinel) EXCEPT
        !.remaining_requests = IF is_away THEN 0
                               ELSE Greater(0, max_asks - Len(Pruned(asks))),
        !.reset_requests_seconds = IF is_away THEN FalsyOr(away_until, 1)
                                   ELSE Free(asks, max_asks)]

as_budget ==
    [TokenBudget(Sentinel) EXCEPT
        !.remaining_requests = IF is_away THEN 0
                               ELSE Greater(0, max_asks - Len(Pruned(asks))),
        !.reset_requests_seconds = IF is_away THEN away_until
                                   ELSE Free(asks, max_asks)]

Decided == decide(as_budget, TokenStep(Sentinel), WaitThreshold, 0)

\* The override is cleared when its end is noticed.
Synced ==
    /\ away' = is_away
    /\ away_until' = IF is_away THEN away_until ELSE None

\* An agent asks: it looks at the budget and records the ask.
record_ask(a) ==
    /\ nap[a] = 0 /\ Decided.action = "continue"
    /\ asks' = Recorded(asks)
    /\ asked' = [asked EXCEPT ![0] = @ + 1]
    /\ Synced
    /\ UNCHANGED <<nap, tool>>

\* Told to wait, it sleeps.
Nap(a) ==
    /\ nap[a] = 0 /\ Decided.action = "wait"
    /\ nap' = [nap EXCEPT ![a] = Decided.wait_seconds]
    /\ Synced
    /\ UNCHANGED <<asks, asked, tool>>

\* The human steps away, or is back.
StepAway(until) ==
    /\ away' = TRUE /\ away_until' = until
    /\ UNCHANGED <<asks, nap, asked, tool>>

available ==
    /\ away' = FALSE /\ away_until' = None
    /\ UNCHANGED <<asks, nap, asked, tool>>

-----------------------------------------------------------------------------
(* ToolQuota.acquire(): sleep until there is room, then record.            *)

acquire ==
    /\ acquiring = None
    /\ acquiring' = Free(calls, calls_per_window)
    /\ UNCHANGED <<human, calls, called>>

record ==
    /\ acquiring = 0
    /\ calls' = Recorded(calls)
    /\ called' = [called EXCEPT ![0] = @ + 1]
    /\ acquiring' = None
    /\ UNCHANGED human

-----------------------------------------------------------------------------
Older(queue) == [i \in DOMAIN queue |-> Lesser(queue[i] + 1, Window)]
Sooner(wait) == IF wait \in {None, 0} THEN wait ELSE wait - 1
Shifted(count) ==
    [age \in 0 .. Window - 1 |-> IF age = 0 THEN 0 ELSE count[age - 1]]

Tick ==
    /\ asks' = Older(asks) /\ calls' = Older(calls)
    /\ asked' = Shifted(asked) /\ called' = Shifted(called)
    /\ away_until' = Sooner(away_until)
    /\ nap' = [a \in Agents |-> Sooner(nap[a])]
    /\ acquiring' = Sooner(acquiring)
    /\ UNCHANGED away

AttentionInit ==
    /\ asks = <<>> /\ away = FALSE /\ away_until = None
    /\ nap = [a \in Agents |-> 0]
    /\ calls = <<>> /\ acquiring = None
    /\ asked = [age \in 0 .. Window - 1 |-> 0]
    /\ called = [age \in 0 .. Window - 1 |-> 0]

AskOrNap == \E a \in Agents : record_ask(a) \/ Nap(a)

AttentionNext ==
    \/ AskOrNap
    \/ (\E until \in Absences : StepAway(until)) \/ available
    \/ acquire \/ record
    \/ Tick

\* Agents look again when they wake, and time passes.
AttentionSpec ==
    /\ AttentionInit /\ [][AttentionNext]_attention
    /\ WF_attention(AskOrNap) /\ WF_attention(Tick)

-----------------------------------------------------------------------------
(* Properties.                                                             *)

AttentionTypeOK ==
    /\ Len(asks) <= max_asks /\ Len(calls) <= calls_per_window
    /\ \A i \in DOMAIN asks : asks[i] \in 0 .. Window
    /\ \A i \in DOMAIN calls : calls[i] \in 0 .. Window
    /\ away \in BOOLEAN /\ away_until \in Nat \cup {None}
    /\ nap \in [Agents -> 0 .. WaitThreshold]
    /\ acquiring \in 0 .. Window \cup {None}

\* Whenever the windows begin, at most max_asks questions and at most
\* calls_per_window calls fall into one.
WindowKept ==
    /\ Total(asked, 0 .. Window - 1) <= max_asks
    /\ Total(called, 0 .. Window - 1) <= calls_per_window

\* How many entries are younger than the window, d ticks from now.
YoungAfter(count, d) == Total(count, 0 .. Window - 1 - d)

\* d is the least time after which one more entry fits the window.
Frees(count, limit, d) ==
    /\ d \in 0 .. Window /\ YoungAfter(count, d) < limit
    /\ \A e \in 0 .. d - 1 : YoungAfter(count, e) >= limit

\* The advised wait is exact: the least after which an ask, or a call, fits
\* the window.
WaitIsExact ==
    /\ Frees(asked, max_asks, Free(asks, max_asks))
    /\ Frees(called, calls_per_window, Free(calls, calls_per_window))

\* Nobody waits for a human who may never return: agents sleep only towards a
\* declared return or a slot of the window.
NoIndefiniteWait ==
    [][\A a \in Agents :
          nap'[a] > nap[a] => ~(away /\ away_until = None)]_attention

\* Once the human stops leaving, and is not away without an end, the agents'
\* questions are asked again and again.
AskedAgain ==
    <>[]~(away /\ away_until = None)
       /\ <>[][\A until \in Absences : ~StepAway(until)]_attention
    => []<>(asked[0] > 0)

=============================================================================
