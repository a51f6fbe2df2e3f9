-------------------------------- MODULE Chain --------------------------------
(***************************************************************************)
(* FallbackBackend of src/src/agentpause/fallback.py over backends of      *)
(* which some are wrapped in a CircuitBreaker (breaker.py): a caller calls *)
(* the chain again and again while backends go down and come up and time   *)
(* passes, between calls and during them.                                  *)
(*                                                                         *)
(* The clock is kept as ages: opened[b] is the time since the circuit was  *)
(* opened, up to the cooldown.  Failures are counted up to the threshold:  *)
(* only whether it is reached is ever asked.                               *)
(***************************************************************************)
EXTENDS Integers

CONSTANTS
    N,              \* number of backends, primary first
    Guarded,        \* the ones behind a circuit breaker
    Threshold,      \* failure_threshold
    Cooldown,       \* cooldown_s, in ticks
    None

Backends == 1 .. N

ASSUME ChainAssumption ==
    /\ N \in Nat \ {0} /\ Guarded \subseteq Backends
    /\ Threshold \in Nat \ {0} /\ Cooldown \in Nat
    /\ None \notin 0 .. Cooldown

VARIABLES
    failures, opened,   \* the breakers' _failures and _opened_at
    at,                 \* the backend the call under way has come to, or 0
    seen,               \* the state its breaker computed on entry, while the
                        \* backend is being called
    last_exc,           \* the chain's last_exc
    outcome,            \* how the last call of the chain ended
    down,               \* backends that are down
    broken,             \* is the request under way a malformed one?
    asked,              \* backends asked during this call
    since               \* time since each backend's last failure

breakers == <<failures, opened>>
vars == <<breakers, at, seen, last_exc, outcome, down, broken, asked, since>>

Errors == {"RateLimitHit", "retriable", "rejected", "CircuitOpenError"}

\* What the chain passes over.
Transient == {"RateLimitHit", "retriable"}

-----------------------------------------------------------------------------
(* CircuitBreaker.                                                         *)

\* Mutated form: an open circuit never admits a probe.
state_NoProbe(b) == IF opened[b] = None THEN "closed" ELSE "open"

state(b) ==
    IF opened[b] = None THEN "closed"
    ELSE IF opened[b] >= Cooldown THEN "half_open" ELSE "open"

Counted(b) == IF failures[b] < Threshold THEN failures[b] + 1 ELSE Threshold

\* Mutated form: a failed probe leaves the circuit half-open.
Trip_ClosedOnly(b) ==
    /\ failures' = [failures EXCEPT ![b] = Counted(b)]
    /\ opened' = IF seen = "closed" /\ Counted(b) >= Threshold
                   THEN [opened EXCEPT ![b] = 0] ELSE opened

\* The circuit opens, or opens again, and the cooldown starts.
Trip(b) ==
    /\ failures' = [failures EXCEPT ![b] = Counted(b)]
    /\ opened' = IF seen = "half_open" \/ Counted(b) >= Threshold
                   THEN [opened EXCEPT ![b] = 0] ELSE opened

\* Mutated form: a success closes the circuit and leaves the count.
Close_KeepsCount(b) ==
    /\ opened' = [opened EXCEPT ![b] = None]
    /\ UNCHANGED failures

\* Any success closes the circuit.
Close(b) ==
    /\ failures' = [failures EXCEPT ![b] = 0]
    /\ opened' = [opened EXCEPT ![b] = None]

-----------------------------------------------------------------------------
(* FallbackBackend.                                                        *)

\* Mutated form: the chain stops before its last backend.
Last_Early(b) == b >= N - 1

Last(b) == b = N

\* The call of the chain ends.
End(how) ==
    /\ at' = 0 /\ seen' = None /\ last_exc' = None /\ broken' = FALSE
    /\ outcome' = how

\* A backend raised: on to the next, or raise.
Raised(b, exc) ==
    IF exc \notin Transient \/ Last(b)
      THEN End(exc)
      ELSE /\ at' = b + 1 /\ seen' = None /\ last_exc' = exc
           /\ UNCHANGED <<outcome, broken>>

Call(malformed) ==
    /\ at = 0
    /\ at' = 1 /\ asked' = {} /\ broken' = malformed /\ outcome' = None
    /\ UNCHANGED <<breakers, seen, last_exc, down, since>>

\* The next backend is entered; an open circuit raises without calling it.
Enter ==
    /\ at # 0 /\ seen = None
    /\ IF at \in Guarded /\ state(at) = "open"
         THEN /\ Raised(at, "CircuitOpenError")
              /\ UNCHANGED asked
         ELSE /\ seen' = IF at \in Guarded THEN state(at) ELSE "closed"
              /\ asked' = asked \cup {at}
              /\ UNCHANGED <<at, last_exc, outcome, broken>>
    /\ UNCHANGED <<breakers, down, since>>

Succeed ==
    /\ at # 0 /\ seen # None /\ at \notin down /\ ~broken
    /\ IF at \in Guarded THEN Close(at) ELSE UNCHANGED breakers
    /\ End("answered")
    /\ UNCHANGED <<down, asked, since>>

\* Rate limits and retriable errors count; and the chain passes over them.
Fail(exc) ==
    /\ at # 0 /\ seen # None /\ at \in down
    /\ IF at \in Guarded THEN Trip(at) ELSE UNCHANGED breakers
    /\ since' = [since EXCEPT ![at] = 0]
    /\ Raised(at, exc)
    /\ UNCHANGED <<down, asked>>

\* A malformed request: neither the breaker nor the chain goes on.
Reject ==
    /\ at # 0 /\ seen # None /\ at \notin down /\ broken
    /\ Raised(at, "rejected")
    /\ UNCHANGED <<breakers, down, asked, since>>

-----------------------------------------------------------------------------
Older(age) == IF age = None \/ age >= Cooldown THEN age ELSE age + 1

Tick ==
    /\ opened' = [b \in Backends |-> Older(opened[b])]
    /\ since' = [b \in Backends |-> Older(since[b])]
    /\ UNCHANGED <<failures, at, seen, last_exc, outcome, down, broken, asked>>

\* Backends go down and come up.
Weather ==
    /\ down' \in SUBSET Backends
    /\ UNCHANGED <<breakers, at, seen, last_exc, outcome, broken, asked, since>>

Init ==
    /\ failures = [b \in Backends |-> 0]
    /\ opened = [b \in Backends |-> None]
    /\ at = 0 /\ seen = None /\ last_exc = None /\ outcome = None
    /\ down \in SUBSET Backends
    /\ broken = FALSE /\ asked = {}
    /\ since = [b \in Backends |-> None]

Step == Enter \/ Succeed \/ Reject \/ \E exc \in Transient : Fail(exc)

Next ==
    \/ \E malformed \in BOOLEAN : Call(malformed)
    \/ Step \/ Tick \/ Weather

\* Calls are made again and again, what is called returns, and time passes.
Spec ==
    /\ Init /\ [][Next]_vars
    /\ WF_vars(\E malformed \in BOOLEAN : Call(malformed))
    /\ WF_vars(Step) /\ WF_vars(Tick)

-----------------------------------------------------------------------------
(* Properties.                                                             *)

TypeOK ==
    /\ failures \in [Backends -> 0 .. Threshold]
    /\ opened \in [Backends -> 0 .. Cooldown \cup {None}]
    /\ at \in 0 .. N
    /\ seen \in {"closed", "half_open", None}
    /\ last_exc \in Transient \cup {None}
    /\ outcome \in Errors \cup {"answered", None}
    /\ down \subseteq Backends /\ asked \subseteq Backends
    /\ broken \in BOOLEAN
    /\ since \in [Backends -> 0 .. Cooldown \cup {None}]

\* No hammering: a backend that has failed Threshold times in a row is left
\* alone until the cooldown has passed since the last of these failures, and
\* so again after every failed probe.
LeftAlone ==
    [][\A b \in Guarded :
          b \in asked' \ asked /\ failures[b] >= Threshold =>
              since[b] >= Cooldown]_vars

\* Only failures in a row open the circuit: it is open exactly while the count
\* since the last success has reached the threshold.
OpenedByCount ==
    \A b \in Guarded : opened[b] # None <=> failures[b] >= Threshold

\* The chain gives up on a sound request only when every backend has been
\* asked, or has been failing fast.
EveryBackendTried ==
    [][at # 0 /\ at' = 0 /\ outcome' # "answered" /\ ~broken =>
          \A b \in Backends :
              b \in asked \/ (b \in Guarded /\ state(b) = "open")]_vars

\* While some backend stays up and sound requests keep coming, the chain
\* answers again and again: no circuit stays open on a healthy backend.
AnswersAgain ==
    (\E b \in Backends : <>[](b \notin down)) /\ []<>(at # 0 /\ ~broken)
        => []<>(outcome = "answered")

=============================================================================
