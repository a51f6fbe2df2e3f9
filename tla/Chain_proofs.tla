---------------------------- MODULE Chain_proofs ----------------------------
(***************************************************************************)
(* The circuit breaker's promises inside a fallback chain, for any number  *)
(* of backends, any of them guarded, any threshold and any cooldown: only  *)
(* failures in a row open the circuit, and a backend whose circuit is open *)
(* is left alone until the cooldown has passed since its last failure.     *)
(* And the chain's own, where no breaker is before its last backend.       *)
(***************************************************************************)
EXTENDS Chain, TLAPS

USE ChainAssumption

\* What a breaker computed on entry still holds when its backend returns: the
\* circuit of a backend being called does not change under it.
EntryHolds ==
    seen # None =>
        /\ at # 0
        /\ at \in Guarded => (seen = "half_open" <=> opened[at] # None)

\* The cooldown of an open circuit runs from the backend's last failure.
CooldownSinceFailure ==
    \A b \in Guarded : opened[b] # None => since[b] = opened[b]

\* The inductive invariant.
BreakerInv ==
    /\ TypeOK
    /\ OpenedByCount
    /\ EntryHolds
    /\ CooldownSinceFailure

-----------------------------------------------------------------------------
\* The initial state: every circuit is closed and nothing has failed.
LEMMA BreakerInit == Init => BreakerInv
<1> SUFFICES ASSUME Init PROVE BreakerInv
  OBVIOUS
<1>1. TypeOK
  <2>1. /\ failures \in [Backends -> 0 .. Threshold]
        /\ opened \in [Backends -> 0 .. Cooldown \cup {None}]
        /\ since \in [Backends -> 0 .. Cooldown \cup {None}]
        /\ at \in 0 .. N
    BY DEF Init
  <2>2. broken \in BOOLEAN
    BY DEF Init
  <2> QED BY <2>1, <2>2 DEF Init, TypeOK
<1>2. OpenedByCount
  BY DEF Init, OpenedByCount
<1>3. EntryHolds /\ CooldownSinceFailure
  BY DEF Init, EntryHolds, CooldownSinceFailure
<1> QED BY <1>1, <1>2, <1>3 DEF BreakerInv

\* A backend that raised is followed by the next one, or the call ends.
LEMMA RaisedType ==
  ASSUME TypeOK, at # 0, NEW exc \in Errors, Raised(at, exc)
  PROVE  /\ at' \in 0 .. N /\ seen' = None
         /\ last_exc' \in Transient \cup {None}
         /\ outcome' \in Errors \cup {"answered", None}
         /\ broken' \in BOOLEAN
<1>1. CASE exc \notin Transient \/ Last(at)
  <2>1. End(exc)
    BY <1>1 DEF Raised
  <2>2. 0 \in 0 .. N
    OBVIOUS
  <2> QED BY <2>1, <2>2 DEF End
<1>2. CASE ~(exc \notin Transient \/ Last(at))
  <2>1. /\ at' = at + 1 /\ seen' = None /\ last_exc' = exc
        /\ outcome' = outcome /\ broken' = broken
    BY <1>2 DEF Raised
  <2>2. at' \in 0 .. N
    BY <1>2, <2>1 DEF Last, TypeOK
  <2> QED BY <1>2, <2>1, <2>2 DEF TypeOK
<1> QED BY <1>1, <1>2

\* A failure counts, and opens the circuit once the threshold is reached.
LEMMA TripOpens ==
  ASSUME TypeOK, OpenedByCount, EntryHolds,
         at \in Guarded, seen # None, Trip(at)
  PROVE  /\ failures' \in [Backends -> 0 .. Threshold]
         /\ opened' \in [Backends -> 0 .. Cooldown \cup {None}]
         /\ \A b \in Backends \ {at} :
               failures'[b] = failures[b] /\ opened'[b] = opened[b]
         /\ opened'[at] # None <=> failures'[at] >= Threshold
         /\ opened'[at] # None => opened'[at] = 0
<1>1. at \in Backends /\ failures[at] \in 0 .. Threshold
      /\ Counted(at) \in 0 .. Threshold
  BY DEF TypeOK, Counted, Backends
<1>2. failures' = [failures EXCEPT ![at] = Counted(at)]
  BY DEF Trip
<1>3. CASE seen = "half_open" \/ Counted(at) >= Threshold
  <2>1. opened' = [opened EXCEPT ![at] = 0]
    BY <1>3 DEF Trip
  <2>2. Counted(at) = Threshold
    <3>1. CASE Counted(at) >= Threshold
      BY <1>1, <3>1
    <3>2. CASE seen = "half_open"
      BY <1>1, <3>2 DEF EntryHolds, OpenedByCount, Counted
    <3> QED BY <1>3, <3>1, <3>2
  <2> QED BY <1>1, <1>2, <2>1, <2>2 DEF TypeOK
<1>4. CASE ~(seen = "half_open" \/ Counted(at) >= Threshold)
  <2>1. opened' = opened
    BY <1>4 DEF Trip
  <2>2. opened[at] = None
    BY <1>4 DEF EntryHolds
  <2> QED BY <1>1, <1>2, <1>4, <2>1, <2>2 DEF TypeOK
<1> QED BY <1>3, <1>4

\* Every step keeps the invariant.
LEMMA BreakerStep ==
  ASSUME BreakerInv, [Next]_vars
  PROVE  BreakerInv'
<1> USE DEF BreakerInv
<1>1. ASSUME NEW malformed \in BOOLEAN, Call(malformed)
      PROVE  BreakerInv'
  BY <1>1 DEF Call, TypeOK, OpenedByCount, EntryHolds, CooldownSinceFailure,
              breakers, Backends
<1>2. CASE Enter
  <2>1. at \in Backends
    BY <1>2 DEF Enter, TypeOK, Backends
  <2>2. CASE at \in Guarded /\ state(at) = "open"
    <3>1. /\ Raised(at, "CircuitOpenError")
          /\ UNCHANGED <<breakers, down, since, asked>>
      BY <1>2, <2>2 DEF Enter
    <3>2. "CircuitOpenError" \in Errors /\ at # 0
      BY <1>2 DEF Errors, Enter
    <3>3. TypeOK' /\ seen' = None
      BY <3>1, <3>2, RaisedType DEF TypeOK, breakers
    <3> QED BY <3>1, <3>3 DEF OpenedByCount, EntryHolds, CooldownSinceFailure,
                              breakers
  <2>3. CASE ~(at \in Guarded /\ state(at) = "open")
    <3>1. /\ seen' = IF at \in Guarded THEN state(at) ELSE "closed"
          /\ asked' = asked \cup {at}
          /\ UNCHANGED <<breakers, down, since, at, last_exc, outcome, broken>>
      BY <1>2, <2>3 DEF Enter
    <3>2. seen' \in {"closed", "half_open"}
      BY <2>3, <3>1 DEF state
    <3>3. TypeOK'
      BY <2>1, <3>1, <3>2 DEF TypeOK, breakers
    <3>4. EntryHolds'
      BY <1>2, <2>3, <3>1 DEF EntryHolds, state, Enter, breakers
    <3> QED BY <3>1, <3>3, <3>4 DEF OpenedByCount, CooldownSinceFailure,
                                    breakers
  <2> QED BY <2>2, <2>3
<1>3. CASE Succeed
  <2>1. at \in Backends
    BY <1>3 DEF Succeed, TypeOK, Backends
  <2>2. /\ at' = 0 /\ seen' = None /\ last_exc' = None /\ broken' = FALSE
        /\ outcome' = "answered"
        /\ UNCHANGED <<down, asked, since>>
    BY <1>3 DEF Succeed, End
  <2>3. /\ failures' \in [Backends -> 0 .. Threshold]
        /\ opened' \in [Backends -> 0 .. Cooldown \cup {None}]
        /\ OpenedByCount' /\ CooldownSinceFailure'
    <3>1. failures \in [Backends -> 0 .. Threshold]
          /\ opened \in [Backends -> 0 .. Cooldown \cup {None}]
      BY DEF TypeOK
    <3>2. CASE at \in Guarded
      <4>1. /\ failures' = [failures EXCEPT ![at] = 0]
            /\ opened' = [opened EXCEPT ![at] = None]
        BY <1>3, <3>2 DEF Succeed, Close
      <4> QED BY <2>1, <2>2, <3>1, <4>1 DEF OpenedByCount, CooldownSinceFailure
    <3>3. CASE at \notin Guarded
      <4>1. failures' = failures /\ opened' = opened
        BY <1>3, <3>3 DEF Succeed, breakers
      <4> QED BY <2>2, <3>1, <4>1 DEF OpenedByCount, CooldownSinceFailure
    <3> QED BY <3>2, <3>3
  <2>4. 0 \in 0 .. N
    OBVIOUS
  <2> QED BY <2>2, <2>3, <2>4 DEF TypeOK, EntryHolds
<1>4. ASSUME NEW exc \in Transient, Fail(exc)
      PROVE  BreakerInv'
  <2>1. at \in Backends /\ exc \in Errors /\ at # 0 /\ seen # None
    BY <1>4 DEF Fail, TypeOK, Backends, Errors, Transient
  <2>2. /\ Raised(at, exc)
        /\ since' = [since EXCEPT ![at] = 0]
        /\ UNCHANGED <<down, asked>>
        /\ IF at \in Guarded THEN Trip(at) ELSE UNCHANGED breakers
    BY <1>4 DEF Fail
  <2>3. /\ at' \in 0 .. N /\ seen' = None
        /\ last_exc' \in Transient \cup {None}
        /\ outcome' \in Errors \cup {"answered", None}
        /\ broken' \in BOOLEAN
    BY <2>1, <2>2, RaisedType
  <2>4. since' \in [Backends -> 0 .. Cooldown \cup {None}]
    <3>1. since \in [Backends -> 0 .. Cooldown \cup {None}]
      BY DEF TypeOK
    <3>2. 0 \in 0 .. Cooldown \cup {None}
      OBVIOUS
    <3> QED BY <2>2, <3>1, <3>2
  <2>5. CASE at \in Guarded
    <3>1. /\ failures' \in [Backends -> 0 .. Threshold]
          /\ opened' \in [Backends -> 0 .. Cooldown \cup {None}]
          /\ \A b \in Backends \ {at} :
                failures'[b] = failures[b] /\ opened'[b] = opened[b]
          /\ opened'[at] # None <=> failures'[at] >= Threshold
          /\ opened'[at] # None => opened'[at] = 0
      BY <2>1, <2>2, <2>5, TripOpens
    <3>2. TypeOK'
      BY <2>2, <2>3, <2>4, <3>1 DEF TypeOK
    <3>3. OpenedByCount'
      BY <3>1 DEF OpenedByCount
    <3>4. CooldownSinceFailure'
      <4> SUFFICES ASSUME NEW b \in Guarded, opened'[b] # None
                   PROVE  since'[b] = opened'[b]
        BY DEF CooldownSinceFailure
      <4>1. CASE b = at
        BY <2>1, <2>2, <3>1, <4>1 DEF TypeOK
      <4>2. CASE b # at
        BY <2>2, <3>1, <4>2 DEF TypeOK, CooldownSinceFailure
      <4> QED BY <4>1, <4>2
    <3> QED BY <2>3, <3>2, <3>3, <3>4 DEF EntryHolds
  <2>6. CASE at \notin Guarded
    <3>1. TypeOK'
      BY <2>2, <2>3, <2>4, <2>6 DEF TypeOK, breakers
    <3>2. OpenedByCount' /\ CooldownSinceFailure'
      BY <2>2, <2>6 DEF OpenedByCount, CooldownSinceFailure, breakers, TypeOK
    <3> QED BY <2>3, <3>1, <3>2 DEF EntryHolds
  <2> QED BY <2>5, <2>6
<1>5. CASE Reject
  <2>1. /\ Raised(at, "rejected") /\ "rejected" \in Errors /\ at # 0
        /\ UNCHANGED <<breakers, down, asked, since>>
    BY <1>5 DEF Reject, Errors
  <2>2. TypeOK' /\ seen' = None
    BY <2>1, RaisedType DEF TypeOK, breakers
  <2> QED BY <2>1, <2>2 DEF OpenedByCount, EntryHolds, CooldownSinceFailure,
                            breakers
<1>6. CASE Tick
  <2>1. \A age \in 0 .. Cooldown \cup {None} :
           /\ Older(age) \in 0 .. Cooldown \cup {None}
           /\ Older(age) = None <=> age = None
    BY DEF Older
  <2>2. /\ opened' = [b \in Backends |-> Older(opened[b])]
        /\ since' = [b \in Backends |-> Older(since[b])]
        /\ UNCHANGED <<failures, at, seen, last_exc, outcome, down, broken,
                       asked>>
    BY <1>6 DEF Tick
  <2>3. TypeOK'
    BY <2>1, <2>2 DEF TypeOK
  <2>4. \A b \in Backends : opened'[b] = None <=> opened[b] = None
    BY <2>1, <2>2 DEF TypeOK
  <2>5. OpenedByCount' /\ EntryHolds'
    BY <2>2, <2>4 DEF OpenedByCount, EntryHolds
  <2>6. CooldownSinceFailure'
    BY <2>2, <2>4 DEF CooldownSinceFailure
  <2> QED BY <2>3, <2>5, <2>6
<1>7. CASE Weather
  BY <1>7 DEF Weather, TypeOK, OpenedByCount, EntryHolds,
              CooldownSinceFailure, breakers
<1>8. CASE UNCHANGED vars
  BY <1>8 DEF vars, TypeOK, OpenedByCount, EntryHolds, CooldownSinceFailure,
              breakers
<1> QED BY <1>1, <1>2, <1>3, <1>4, <1>5, <1>6, <1>7, <1>8 DEF Next, Step

\* The inductive invariant of the breakers in a chain: what a breaker computed
\* on entry still holds when its backend returns, and cooldowns run from the
\* last failure.
THEOREM BreakerInvariant == Spec => []BreakerInv
<1> QED BY BreakerInit, BreakerStep, PTL DEF Spec

\* Only failures in a row open a circuit (breaker.py: _failures is counted up
\* on failures and reset on every success).
THEOREM OpensByCount == Spec => []OpenedByCount
<1>1. BreakerInv => OpenedByCount
  BY DEF BreakerInv
<1> QED BY <1>1, BreakerInvariant, PTL

\* A backend that has failed Threshold times in a row is left alone until the
\* cooldown has passed since its last failure.
THEOREM BackendLeftAlone == Spec => LeftAlone
<1>1. ASSUME BreakerInv, [Next]_vars,
             NEW b \in Guarded, b \in asked' \ asked, failures[b] >= Threshold
      PROVE  since[b] >= Cooldown
  <2>1. Enter /\ b = at /\ state(at) # "open"
    BY <1>1 DEF Next, Step, Call, Enter, Succeed, Fail, Reject, Tick, Weather,
                vars
  <2>2. opened[b] # None /\ opened[b] >= Cooldown
    BY <1>1, <2>1 DEF BreakerInv, OpenedByCount, state
  <2> QED BY <1>1, <2>2 DEF BreakerInv, CooldownSinceFailure
<1>2. BreakerInv /\ [Next]_vars =>
        [\A b \in Guarded :
            b \in asked' \ asked /\ failures[b] >= Threshold =>
                since[b] >= Cooldown]_vars
  BY <1>1
<1> QED BY <1>2, BreakerInvariant, PTL DEF Spec, LeftAlone

-----------------------------------------------------------------------------
(* The chain.  An open circuit in front of others would end its call.      *)

BreakerLast == Guarded \subseteq {N}

\* The backends before the one the call has come to have been asked, and so
\* has this one once it has been entered.
AskedSoFar ==
    /\ TypeOK
    /\ seen # None => at # 0 /\ at \in asked
    /\ at # 0 => 1 .. at - 1 \subseteq asked

\* The initial state: no call is under way.
LEMMA AskedInit == Init => AskedSoFar
<1> SUFFICES ASSUME Init PROVE AskedSoFar
  OBVIOUS
<1>1. TypeOK
  BY BreakerInit DEF BreakerInv
<1> QED BY <1>1 DEF Init, AskedSoFar

\* A backend that has been asked and raised: the next one, or the end.
LEMMA AskedOnwards ==
  ASSUME TypeOK', TypeOK, at # 0, at \in asked, 1 .. at - 1 \subseteq asked,
         asked' = asked, NEW exc, Raised(at, exc)
  PROVE  AskedSoFar'
<1>1. at \in 1 .. N
  BY DEF TypeOK
<1>2. seen' = None /\ (at' = 0 \/ at' = at + 1)
  BY DEF Raised, End
<1>3. at' = at + 1 => 1 .. at' - 1 = 1 .. at - 1 \cup {at}
  BY <1>1
<1> QED BY <1>2, <1>3 DEF AskedSoFar

\* Every step keeps it: only the last backend can be passed without being
\* asked, and nothing comes after it.
LEMMA AskedStep ==
  ASSUME BreakerLast, AskedSoFar, BreakerInv, BreakerInv', [Next]_vars
  PROVE  AskedSoFar'
<1>0. TypeOK /\ TypeOK'
  BY DEF BreakerInv
<1>1. ASSUME NEW malformed \in BOOLEAN, Call(malformed)
      PROVE  AskedSoFar'
  <2>1. at = 0 /\ at' = 1 /\ seen' = seen
    BY <1>1 DEF Call
  <2>2. seen' = None
    BY <2>1 DEF AskedSoFar
  <2>3. 1 .. at' - 1 = {}
    BY <2>1
  <2> QED BY <1>0, <2>2, <2>3 DEF AskedSoFar
<1>2. CASE Enter
  <2>1. CASE at \in Guarded /\ state(at) = "open"
    <3>1. at = N /\ Raised(at, "CircuitOpenError")
      BY <1>2, <2>1 DEF Enter, BreakerLast
    <3>2. at' = 0 /\ seen' = None
      BY <3>1 DEF Raised, Last, End
    <3> QED BY <1>0, <3>2 DEF AskedSoFar
  <2>2. CASE ~ (at \in Guarded /\ state(at) = "open")
    <3>1. at # 0 /\ at' = at /\ asked' = asked \cup {at}
      BY <1>2, <2>2 DEF Enter
    <3> QED BY <1>0, <3>1 DEF AskedSoFar
  <2> QED BY <2>1, <2>2
<1>3. CASE Succeed
  <2>1. at' = 0 /\ seen' = None
    BY <1>3 DEF Succeed, End
  <2> QED BY <1>0, <2>1 DEF AskedSoFar
<1>4. ASSUME NEW exc \in Transient, Fail(exc)
      PROVE  AskedSoFar'
  <2>1. at # 0 /\ seen # None /\ asked' = asked /\ Raised(at, exc)
    BY <1>4 DEF Fail
  <2> QED BY <1>0, <2>1, AskedOnwards DEF AskedSoFar
<1>5. CASE Reject
  <2>1. at # 0 /\ seen # None /\ asked' = asked /\ Raised(at, "rejected")
    BY <1>5 DEF Reject
  <2> QED BY <1>0, <2>1, AskedOnwards DEF AskedSoFar
<1>6. CASE UNCHANGED <<at, seen, asked>>
  BY <1>0, <1>6 DEF AskedSoFar
<1>7. Tick \/ Weather \/ UNCHANGED vars => UNCHANGED <<at, seen, asked>>
  BY DEF Tick, Weather, vars
<1> QED BY <1>1, <1>2, <1>3, <1>4, <1>5, <1>6, <1>7 DEF Next, Step

\* A chain whose only breaker, if any, guards its last backend gives up on a
\* sound request only when every backend has been asked or fails fast, for any
\* number of backends, whatever goes down or comes up during the call.
THEOREM NoBackendSkipped == ASSUME BreakerLast PROVE Spec => EveryBackendTried
<1> DEFINE Tried ==
      at # 0 /\ at' = 0 /\ outcome' # "answered" /\ ~broken =>
          \A b \in Backends : b \in asked \/ (b \in Guarded /\ state(b) = "open")
<1>1. AskedSoFar /\ [Next]_vars => Tried
  <2> SUFFICES ASSUME AskedSoFar, [Next]_vars, at # 0, at' = 0,
                      outcome' # "answered", ~broken, NEW b \in Backends
               PROVE  b \in asked \/ (b \in Guarded /\ state(b) = "open")
    OBVIOUS
  <2>1. at \in 1 .. N /\ 1 .. at - 1 \subseteq asked
    BY DEF AskedSoFar, TypeOK
  <2>2. b \in 1 .. at - 1 \/ b = at \/ (b > at /\ at # N)
    BY <2>1 DEF Backends
  <2>3. CASE Enter
    <3>1. at \in Guarded /\ state(at) = "open"
      BY <2>3 DEF Enter
    <3>2. at = N
      BY <3>1 DEF BreakerLast
    <3> QED BY <2>1, <2>2, <3>1, <3>2
  <2>4. ASSUME NEW exc \in Transient, Fail(exc)
        PROVE  b \in asked
    <3>1. at \in asked
      BY <2>4 DEF Fail, AskedSoFar
    <3>2. Raised(at, exc)
      BY <2>4 DEF Fail
    <3>3. at = N
      <4>1. at + 1 # 0
        BY <2>1
      <4> QED BY <3>2, <4>1 DEF Raised, Last
    <3> QED BY <2>1, <2>2, <3>1, <3>3
  <2>5. ~ Succeed /\ ~ Reject
    BY DEF Succeed, Reject, End
  <2>6. \A malformed \in BOOLEAN : ~ Call(malformed)
    BY DEF Call
  <2>7. ~ Tick /\ ~ Weather /\ ~ UNCHANGED vars
    BY DEF Tick, Weather, vars
  <2> QED BY <2>3, <2>4, <2>5, <2>6, <2>7 DEF Next, Step
<1> QED BY <1>1, BreakerInit, BreakerStep, AskedInit, AskedStep, PTL
        DEF Spec, EveryBackendTried

=============================================================================
