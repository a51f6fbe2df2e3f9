------------------------- MODULE Coordinator_proofs -------------------------
(***************************************************************************)
(* The coordinator never tells two agents to go into a window that fits    *)
(* only one, for every number of agents, window size and cost, provided    *)
(* responses are absorbed in the order the provider processed them.        *)
(***************************************************************************)
EXTENDS Coordinator, FiniteSetTheorems, TLAPS

-----------------------------------------------------------------------------
(* Sums of tokens: the proofs below reason about them through these lemmas. *)

\* The tokens of a finite set of agents are a finite set.
LEMMA TokensFinite ==
  ASSUME NEW S, IsFiniteSet(S), NEW f, \A a \in S : f[a] \in Nat
  PROVE  IsFiniteSet(TokensOf(f, S))
<1> DEFINE piles == {{a} \X (1 .. f[a]) : a \in S}
           pile == [a \in S |-> {a} \X (1 .. f[a])]
<1>1. pile \in Surjection(S, piles)
  BY DEF Surjection
<1>2. IsFiniteSet(piles)
  BY <1>1, FS_Surjection
<1>3. ASSUME NEW a \in S
      PROVE  IsFiniteSet({a} \X (1 .. f[a]))
  <2>1. f[a] \in Nat
    OBVIOUS
  <2>2. IsFiniteSet(1 .. f[a])
    BY <2>1, FS_Interval
  <2>3. IsFiniteSet({a})
    BY FS_Singleton
  <2> QED BY <2>2, <2>3, FS_Product
<1>4. \A p \in piles : IsFiniteSet(p)
  BY <1>3
<1>5. IsFiniteSet(UNION piles)
  <2> HIDE DEF piles
  <2> QED BY <1>2, <1>4, FS_UNION
<1> QED BY <1>5 DEF TokensOf

\* A sum of natural numbers is a natural number.
LEMMA TotalNat ==
  ASSUME NEW S, IsFiniteSet(S), NEW f, \A a \in S : f[a] \in Nat
  PROVE  Total(f, S) \in Nat
BY TokensFinite, FS_CardinalityType DEF Total

\* The empty sum.
LEMMA TotalEmpty ==
  ASSUME NEW f
  PROVE  Total(f, {}) = 0
<1>1. TokensOf(f, {}) = {}
  BY DEF TokensOf
<1> QED BY <1>1, FS_EmptySet DEF Total

\* A sum over one agent is what that agent holds.
LEMMA TotalSingleton ==
  ASSUME NEW f, NEW a, f[a] \in Nat
  PROVE  Total(f, {a}) = f[a]
<1>1. TokensOf(f, {a}) = {a} \X (1 .. f[a])
  BY DEF TokensOf
<1>2. IsFiniteSet({a}) /\ Cardinality({a}) = 1
  BY FS_Singleton
<1>3. IsFiniteSet(1 .. f[a]) /\ Cardinality(1 .. f[a]) = f[a]
  BY FS_Interval
<1>4. Cardinality({a} \X (1 .. f[a])) = Cardinality({a}) * Cardinality(1 .. f[a])
  BY ONLY <1>2, <1>3, FS_Product, Zenon
<1>5. 1 * f[a] = f[a]
  OBVIOUS
<1> QED BY <1>1, <1>2, <1>3, <1>4, <1>5, Zenon DEF Total

\* Agents that hold nothing add nothing.
LEMMA TotalZero ==
  ASSUME NEW S, NEW f, \A a \in S : f[a] = 0
  PROVE  Total(f, S) = 0
<1>1. \A a \in S : {a} \X (1 .. f[a]) = {}
  OBVIOUS
<1>2. TokensOf(f, S) = {}
  BY <1>1 DEF TokensOf
<1> QED BY <1>2, FS_EmptySet DEF Total

\* Sums over disjoint sets add up.
LEMMA TotalDisjoint ==
  ASSUME NEW S, IsFiniteSet(S), NEW T, IsFiniteSet(T), S \cap T = {},
         NEW f, \A a \in S \cup T : f[a] \in Nat
  PROVE  Total(f, S \cup T) = Total(f, S) + Total(f, T)
<1>1. TokensOf(f, S \cup T) = TokensOf(f, S) \cup TokensOf(f, T)
  BY DEF TokensOf
<1>2. TokensOf(f, S) \cap TokensOf(f, T) = {}
  BY DEF TokensOf
<1>3. /\ IsFiniteSet(TokensOf(f, S)) /\ IsFiniteSet(TokensOf(f, T))
      /\ Cardinality(TokensOf(f, S)) \in Nat
      /\ Cardinality(TokensOf(f, T)) \in Nat
  BY TokensFinite, FS_CardinalityType
<1>4. Cardinality(TokensOf(f, S) \cap TokensOf(f, T)) = 0
  BY <1>2, FS_EmptySet
<1>5. Cardinality(TokensOf(f, S) \cup TokensOf(f, T))
        = Cardinality(TokensOf(f, S)) + Cardinality(TokensOf(f, T)) - 0
  BY <1>3, <1>4, FS_Union
<1>6. Cardinality(TokensOf(f, S) \cup TokensOf(f, T))
        = Cardinality(TokensOf(f, S)) + Cardinality(TokensOf(f, T))
  BY <1>3, <1>5
<1> QED BY <1>1, <1>6, Zenon DEF Total

\* One agent's part of a sum can be taken out of it.
LEMMA TotalSplit ==
  ASSUME NEW S, IsFiniteSet(S), NEW f, \A a \in S : f[a] \in Nat, NEW b \in S
  PROVE  Total(f, S) = Total(f, S \ {b}) + f[b]
<1>1. IsFiniteSet(S \ {b}) /\ IsFiniteSet({b})
  BY FS_RemoveElement, FS_Singleton
<1>2. (S \ {b}) \cap {b} = {} /\ (S \ {b}) \cup {b} = S
  OBVIOUS
<1>3. Total(f, (S \ {b}) \cup {b}) = Total(f, S \ {b}) + Total(f, {b})
  BY <1>1, <1>2, TotalDisjoint
<1>4. Total(f, {b}) = f[b]
  BY TotalSingleton
<1> QED BY <1>2, <1>3, <1>4

\* A sum over fewer agents is no larger.
LEMMA TotalMonotone ==
  ASSUME NEW S, IsFiniteSet(S), NEW T \in SUBSET S,
         NEW f, \A a \in S : f[a] \in Nat
  PROVE  Total(f, T) <= Total(f, S)
<1>1. TokensOf(f, T) \subseteq TokensOf(f, S)
  BY DEF TokensOf
<1> QED BY <1>1, TokensFinite, FS_Subset DEF Total

\* A sum depends on nothing but what the summed agents hold.
LEMMA TotalSame ==
  ASSUME NEW S, NEW f, NEW g, \A a \in S : f[a] = g[a]
  PROVE  Total(f, S) = Total(g, S)
<1>1. TokensOf(f, S) = TokensOf(g, S)
  BY DEF TokensOf
<1> QED BY <1>1 DEF Total

-----------------------------------------------------------------------------
(* The coordinator.                                                        *)

USE CoordinatorAssumption, NoneAssumption

Ranks == 0 .. Cardinality(Agents) - 1

-----------------------------------------------------------------------------
(* Registration ranks.                                                     *)

\* A new agent finds a rank left for it.
LEMMA RankLeft ==
  ASSUME TypeOK, NEW S \in SUBSET (Agents \ Registered)
  PROVE  /\ Cardinality(Registered) \in Nat
         /\ Cardinality(S) \in Nat
         /\ Cardinality(Registered) + Cardinality(S) <= Cardinality(Agents)
<1>1. Registered \in SUBSET Agents /\ Registered \cup S \in SUBSET Agents
  BY DEF Registered
<1>2. IsFiniteSet(Registered) /\ IsFiniteSet(S)
  BY <1>1, FS_Subset
<1>3. Registered \cap S = {}
  OBVIOUS
<1>4. Cardinality(Registered \cap S) = 0
  BY <1>3, FS_EmptySet
<1>5. Cardinality(Registered) \in Nat /\ Cardinality(S) \in Nat
  BY <1>2, FS_CardinalityType
<1>6. Cardinality(Registered \cup S)
        = Cardinality(Registered) + Cardinality(S) - 0
  BY <1>2, <1>4, FS_Union
<1>7. Cardinality(Registered \cup S) <= Cardinality(Agents)
  BY <1>1, FS_Subset
<1> QED BY <1>5, <1>6, <1>7

\* register() keeps the registration dictionaries well typed.
LEMMA RegisterType ==
  ASSUME TypeOK, NEW a \in Agents, NEW p \in Priorities, register(a, p)
  PROVE  /\ order' \in [Agents -> Ranks \cup {None}]
         /\ priority' \in [Agents -> Priorities]
<1>1. CASE a \in Registered
  <2>1. order' = order
    BY <1>1 DEF register, TypeOK
  <2> QED BY <2>1 DEF register, TypeOK, Ranks
<1>2. CASE a \notin Registered
  <2>1. Cardinality({a}) = 1
    BY FS_Singleton
  <2>2. Cardinality(Registered) \in Ranks
    BY <1>2, <2>1, RankLeft, FS_CardinalityType DEF Ranks
  <2> QED BY <1>2, <2>2 DEF register, TypeOK, Ranks
<1> QED BY <1>1, <1>2

\* So does the automatic registration of unknown agents.
LEMMA EnsureType ==
  ASSUME TypeOK, NEW S \in SUBSET Agents, ensure(S)
  PROVE  /\ order' \in [Agents -> Ranks \cup {None}]
         /\ priority' \in [Agents -> Priorities]
<1> DEFINE known == Cardinality(Registered)
           new == S \ Registered
<1>1. PICK rank \in [new -> known .. known + Cardinality(new) - 1] :
          order' = [a \in Agents |-> IF a \in new THEN rank[a] ELSE order[a]]
  BY DEF ensure
<1>2. new \in SUBSET (Agents \ Registered)
  OBVIOUS
<1>3. /\ known \in Nat /\ Cardinality(new) \in Nat
      /\ known + Cardinality(new) <= Cardinality(Agents)
  BY <1>2, RankLeft
<1>4. Cardinality(Agents) \in Nat
  BY FS_CardinalityType
<1>5. \A a \in new : rank[a] \in Ranks
  BY <1>3, <1>4 DEF Ranks
<1>6. order' \in [Agents -> Ranks \cup {None}]
  BY <1>1, <1>5 DEF TypeOK, Ranks
<1>7. priority' \in [Agents -> Priorities]
  BY DEF ensure, TypeOK
<1> QED BY <1>6, <1>7

-----------------------------------------------------------------------------
(* Telemetry and the verdict.                                              *)

\* Whatever telemetry returns is a window and a reading of one.
LEMMA TelemetryType ==
  ASSUME TypeOK, NEW t \in Telemetry
  PROVE  /\ t.window \in Windows /\ t.reading \in Windows
         /\ t.window.tokens <= window.tokens
BY DEF Telemetry, Pinged, Windows, TypeOK

\* A `continue' means the reading, less what others hold, covers the call.
LEMMA VerdictFits ==
  ASSUME NEW r \in Windows, NEW held \in Nat, NEW needed \in Nat \ {0},
         Verdict(r, held, needed) = "continue"
  PROVE  needed <= r.tokens - held
<1> DEFINE b == shadow(r, held)
           s == TokenStep(needed)
<1>1. r.tokens \in Nat
  BY DEF Windows
<1>2. AllFit(b, s, 0)
  BY DEF Verdict, decide, Decision
<1>3. ~ should_checkpoint(b.remaining_tokens, s.needed)
  BY <1>2 DEF AllFit, tokens_fit
<1>4. b.remaining_tokens = Greater(0, r.tokens - held) /\ s.needed = needed
  BY DEF shadow, TokenBudget, TokenStep
<1>5. ~ (Greater(0, r.tokens - held) < needed)
  BY <1>3, <1>4 DEF should_checkpoint
<1> QED BY <1>1, <1>5 DEF Greater

\* The sum of all reservations is a natural number, own hold included.
LEMMA ReservedNat ==
  ASSUME TypeOK
  PROVE  /\ reservations \in [Agents -> Nat]
         /\ reserved \in Nat
         /\ \A a \in Agents : reserved - reservations[a] \in Nat
<1>1. reservations \in [Agents -> Nat]
  <2>1. reservations \in [Agents -> Needs \cup {0}]
    BY DEF TypeOK
  <2>2. Needs \cup {0} \subseteq Nat
    OBVIOUS
  <2> QED BY <2>1, <2>2
<1>2. reserved \in Nat
  BY <1>1, TotalNat DEF reserved
<1>3. ASSUME NEW a \in Agents
      PROVE  reserved - reservations[a] \in Nat
  <2>1. reserved = Total(reservations, Agents \ {a}) + reservations[a]
    BY <1>1, TotalSplit DEF reserved
  <2>2. Total(reservations, Agents \ {a}) \in Nat
    BY <1>1, TotalNat, FS_RemoveElement
  <2>3. reservations[a] \in Nat
    BY <1>1
  <2> HIDE DEF reserved
  <2> QED BY <2>1, <2>2, <2>3
<1> QED BY <1>1, <1>2, <1>3

-----------------------------------------------------------------------------
(* Type correctness, one step per action.                                  *)

\* The coordinator is built with variables of their types.
LEMMA InitType == Init => TypeOK
<1> SUFFICES ASSUME Init
             PROVE  TypeOK
  OBVIOUS
<1>1. window \in Windows /\ reading \in Windows
  BY DEF Init, Windows
<1>2. /\ priority \in [Agents -> Priorities]
      /\ order \in [Agents -> Ranks \cup {None}]
      /\ reservations \in [Agents -> Needs \cup {0}]
      /\ waiting_since \in [Agents -> 0 .. MaxClock \cup {None}]
      /\ clock \in 0 .. MaxClock
  BY DEF Init
<1>3. /\ call \in [Agents -> CallStates]
      /\ header \in [Agents -> Windows \cup {None}]
      /\ ahead \in [Agents -> SUBSET Agents]
  BY DEF Init, CallStates
<1>4. queue \in Seq(Requests) /\ queue = <<>> /\ results = <<>>
  BY DEF Init
<1> QED BY <1>1, <1>2, <1>3, <1>4 DEF TypeOK, Ranks

\* The bookkeeping of one decision keeps the dictionaries well typed.
LEMMA DecisionType ==
  ASSUME TypeOK, NEW a \in Agents, NEW needed \in Needs,
         Grant(a, needed) \/ Refuse(a)
  PROVE  /\ reservations' \in [Agents -> Needs \cup {0}]
         /\ waiting_since' \in [Agents -> 0 .. MaxClock \cup {None}]
         /\ call' \in [Agents -> CallStates]
<1>1. /\ reservations \in [Agents -> Needs \cup {0}]
      /\ waiting_since \in [Agents -> 0 .. MaxClock \cup {None}]
      /\ call \in [Agents -> CallStates]
      /\ clock \in 0 .. MaxClock
  BY DEF TypeOK
<1>2. CASE Grant(a, needed)
  BY <1>1, <1>2 DEF Grant, CallStates
<1>3. CASE Refuse(a)
  BY <1>1, <1>3 DEF Refuse
<1> QED BY <1>2, <1>3

\* Every step keeps the types.
LEMMA TypeStep ==
  ASSUME TypeOK, AnswersOrdered, [Next]_vars
  PROVE  TypeOK'
<1> USE DEF Ranks, coordinator, round, provider
<1>1. ASSUME NEW a \in Agents, NEW p \in Priorities, register(a, p)
      PROVE  TypeOK'
  <2>1. /\ order' \in [Agents -> Ranks \cup {None}]
        /\ priority' \in [Agents -> Priorities]
    BY <1>1, RegisterType
  <2> QED BY <1>1, <2>1 DEF register, TypeOK
<1>2. ASSUME NEW a \in Agents, NEW n \in Needs, request(a, n)
      PROVE  TypeOK'
  <2>1. PICK t \in Telemetry :
            /\ window' = t.window /\ reading' = t.reading
            /\ Grant(a, n) \/ Refuse(a)
    BY <1>2 DEF request
  <2>2. window' \in Windows /\ reading' \in Windows
    BY <2>1, TelemetryType
  <2>3. /\ order' \in [Agents -> Ranks \cup {None}]
        /\ priority' \in [Agents -> Priorities]
    BY <1>2, EnsureType DEF request
  <2>4. /\ reservations' \in [Agents -> Needs \cup {0}]
        /\ waiting_since' \in [Agents -> 0 .. MaxClock \cup {None}]
        /\ call' \in [Agents -> CallStates]
    BY <2>1, DecisionType
  <2>5. UNCHANGED <<queue, results, clock, header, ahead>>
    BY <1>2 DEF request
  <2> QED BY <2>2, <2>3, <2>4, <2>5 DEF TypeOK
<1>3. ASSUME NEW a \in Agents, complete(a)
      PROVE  TypeOK'
  BY <1>3 DEF complete, TypeOK, CallStates
<1>4. ASSUME NEW a \in Agents, Serve(a)
      PROVE  TypeOK'
  <2>1. PICK used \in 0 .. reservations[a] :
            /\ used <= window.tokens
            /\ window' = [tokens |-> window.tokens - used,
                          requests |-> window.requests - 1]
    BY <1>4 DEF Serve
  <2>2. window' \in Windows
    BY <1>4, <2>1 DEF Serve, TypeOK, Windows
  <2>3. Undelivered \in SUBSET Agents
    BY DEF Undelivered
  <2> QED BY <1>4, <2>2, <2>3 DEF Serve, TypeOK, CallStates
<1>5. ASSUME NEW a \in Agents, Fail(a)
      PROVE  TypeOK'
  <2>1. Undelivered \in SUBSET Agents
    BY DEF Undelivered
  <2> QED BY <1>5, <2>1 DEF Fail, TypeOK, CallStates
<1>6. ASSUME NEW a \in Agents, Deliver(a)
      PROVE  TypeOK'
  BY <1>6 DEF Deliver, TypeOK, CallStates, AnswersOrdered
<1>7. ASSUME NEW S \in SUBSET Agents, NEW needs \in [S -> Needs],
             arbitrate(S, needs)
      PROVE  TypeOK'
  <2>1. PICK rank \in [1 .. Cardinality(S) -> S] :
            queue' = [i \in 1 .. Cardinality(S) |->
                         [agent  |-> rank[i],
                          needed |-> needs[rank[i]],
                          waited |-> Waited(rank[i])]]
    BY <1>7 DEF arbitrate
  <2>2. \A a \in Agents : Waited(a) \in 0 .. MaxClock
    BY DEF Waited, TypeOK
  <2>3. \A i \in 1 .. Cardinality(S) : queue'[i] \in Requests
    BY <2>1, <2>2 DEF Requests
  <2>4. Cardinality(S) \in Nat
    BY FS_Subset, FS_CardinalityType
  <2>5. queue' \in Seq(Requests)
    BY <2>1, <2>3, <2>4
  <2>6. /\ order' \in [Agents -> Ranks \cup {None}]
        /\ priority' \in [Agents -> Priorities]
    BY <1>7, EnsureType DEF arbitrate
  <2> QED BY <1>7, <2>5, <2>6 DEF arbitrate, TypeOK
<1>8. ASSUME arbitrate_next
      PROVE  TypeOK'
  <2> DEFINE a == Head(queue).agent
             n == Head(queue).needed
             Results == [agent : Agents, needed : Needs, granted : BOOLEAN,
                         waited : 0 .. MaxClock, own : Needs \cup {0},
                         tokens : 0 .. Limit, requests : 0 .. RequestLimit]
  <2>1. queue \in Seq(Requests) /\ queue # <<>>
    BY <1>8 DEF arbitrate_next, TypeOK
  <2>2. Head(queue) \in Requests /\ Tail(queue) \in Seq(Requests)
    BY <2>1
  <2>3. /\ a \in Agents /\ n \in Needs
        /\ Head(queue).waited \in 0 .. MaxClock
    BY <2>2 DEF Requests
  <2>4. PICK t \in Telemetry :
            /\ window' = t.window /\ reading' = t.reading
            /\ Grant(a, n) \/ Refuse(a)
            /\ results' = Append(results,
                  [agent    |-> a,
                   needed   |-> n,
                   granted  |-> Verdict(t.reading, reserved, n) = "continue",
                   waited   |-> Head(queue).waited,
                   own      |-> reservations[a],
                   tokens   |-> t.reading.tokens,
                   requests |-> t.reading.requests])
    BY <1>8 DEF arbitrate_next
  <2>5. window' \in Windows /\ reading' \in Windows /\ t.reading \in Windows
    BY <2>4, TelemetryType
  <2>6. /\ reservations' \in [Agents -> Needs \cup {0}]
        /\ waiting_since' \in [Agents -> 0 .. MaxClock \cup {None}]
        /\ call' \in [Agents -> CallStates]
    BY <2>3, <2>4, DecisionType
  <2>7. results \in Seq(Results)
    BY DEF TypeOK
  <2>8. results' \in Seq(Results)
    BY <2>3, <2>4, <2>5, <2>7 DEF Windows, TypeOK
  <2>9. /\ queue' = Tail(queue)
        /\ UNCHANGED <<priority, order, clock, header, ahead>>
    BY <1>8 DEF arbitrate_next
  <2> QED BY <2>2, <2>5, <2>6, <2>8, <2>9 DEF TypeOK
<1>9. ASSUME arbitrate_return
      PROVE  TypeOK'
  BY <1>9 DEF arbitrate_return, TypeOK
<1>10. ASSUME Refill \/ Tick \/ UNCHANGED vars
       PROVE  TypeOK'
  BY <1>10 DEF Refill, Tick, vars, TypeOK
<1> QED BY <1>1, <1>2, <1>3, <1>4, <1>5, <1>6, <1>7, <1>8, <1>9, <1>10
        DEF Next

-----------------------------------------------------------------------------
(* The parts of the invariant that say who holds what, and in which order  *)
(* answers come.                                                           *)

\* A decision about an idle agent touches that agent only, and no answer.
LEMMA DecisionLocal ==
  ASSUME TypeOK, NEW a \in Agents, NEW needed \in Needs, call[a] = "idle",
         Grant(a, needed) \/ Refuse(a)
  PROVE  /\ \A b \in Agents \ {a} : /\ call'[b] = call[b]
                                    /\ reservations'[b] = reservations[b]
         /\ call'[a] = "granted" => reservations'[a] = needed
         /\ call'[a] \in {"granted", "idle"}
         /\ Undelivered' = Undelivered
         /\ a \notin Undelivered
<1>1. /\ \A b \in Agents \ {a} : /\ call'[b] = call[b]
                                 /\ reservations'[b] = reservations[b]
      /\ call'[a] = "granted" => reservations'[a] = needed
      /\ call'[a] \in {"granted", "idle"}
  <2>1. CASE Grant(a, needed)
    BY <2>1 DEF Grant, TypeOK
  <2>2. CASE Refuse(a)
    BY <2>2 DEF Refuse, TypeOK
  <2> QED BY <2>1, <2>2
<1>2. Undelivered' = Undelivered /\ a \notin Undelivered
  BY <1>1 DEF Undelivered
<1> QED BY <1>1, <1>2

\* arbitrate_next decides about the first agent of the queue, who is idle.
LEMMA NextInRound ==
  ASSUME TypeOK, RoundIdle, arbitrate_next
  PROVE  \E a \in Agents, n \in Needs :
           /\ a = Head(queue).agent /\ n = Head(queue).needed
           /\ call[a] = "idle"
           /\ Grant(a, n) \/ Refuse(a)
           /\ \E t \in Telemetry :
                /\ window' = t.window /\ reading' = t.reading
                /\ call'[a] = "granted" =>
                     Verdict(t.reading, reserved, n) = "continue"
<1> DEFINE a == Head(queue).agent
           n == Head(queue).needed
<1>1. queue \in Seq(Requests) /\ queue # <<>>
  BY DEF arbitrate_next, TypeOK
<1>2. Head(queue) \in Requests /\ Head(queue) = queue[1] /\ 1 \in 1 .. Len(queue)
  BY <1>1
<1>3. a \in Agents /\ n \in Needs
  BY <1>2 DEF Requests
<1>4. call[a] = "idle"
  BY <1>2 DEF RoundIdle
<1>5. PICK t \in Telemetry :
          /\ window' = t.window /\ reading' = t.reading
          /\ IF Verdict(t.reading, reserved, n) = "continue"
               THEN Grant(a, n) ELSE Refuse(a)
  BY DEF arbitrate_next
<1>6. Grant(a, n) \/ Refuse(a)
  BY <1>5
<1>7. Refuse(a) => call'[a] # "granted"
  BY <1>4 DEF Refuse
<1>8. call'[a] = "granted" => Verdict(t.reading, reserved, n) = "continue"
  BY <1>5, <1>7
<1> QED BY <1>3, <1>4, <1>5, <1>6, <1>8

\* A round keeps its agents idle until their turn, and asks each one once.
LEMMA RoundStep ==
  ASSUME TypeOK, RoundIdle, [Next]_vars
  PROVE  RoundIdle'
<1> USE DEF coordinator, round, provider
<1>1. CASE queue = <<>> /\ queue' = queue
  <2>1. Len(queue') = 0
    BY <1>1
  <2> QED BY <2>1 DEF RoundIdle
<1>2. ASSUME NEW a \in Agents, Serve(a) \/ Fail(a)
      PROVE  RoundIdle'
  <2>1. /\ queue' = queue /\ call[a] = "granted"
        /\ \A b \in Agents \ {a} : call'[b] = call[b]
    BY <1>2 DEF Serve, Fail, TypeOK
  <2>2. \A i \in 1 .. Len(queue) : queue[i] \in Requests
    BY DEF TypeOK
  <2>3. \A i \in 1 .. Len(queue) : queue[i].agent \in Agents \ {a}
    BY <2>1, <2>2 DEF RoundIdle, Requests
  <2> QED BY <2>1, <2>3 DEF RoundIdle
<1>3. ASSUME NEW S \in SUBSET Agents, NEW needs \in [S -> Needs],
             arbitrate(S, needs)
      PROVE  RoundIdle'
  <2>1. PICK rank \in [1 .. Cardinality(S) -> S] :
            /\ \A i, j \in 1 .. Cardinality(S) : rank[i] = rank[j] => i = j
            /\ queue' = [i \in 1 .. Cardinality(S) |->
                            [agent  |-> rank[i],
                             needed |-> needs[rank[i]],
                             waited |-> Waited(rank[i])]]
    BY <1>3 DEF arbitrate
  <2>2. Cardinality(S) \in Nat
    BY FS_Subset, FS_CardinalityType
  <2>3. Len(queue') = Cardinality(S)
    BY <2>1, <2>2
  <2>4. \A i \in 1 .. Cardinality(S) : queue'[i].agent = rank[i]
    BY <2>1
  <2>5. call' = call /\ \A a \in S : call[a] = "idle"
    BY <1>3 DEF arbitrate
  <2>6. \A i \in 1 .. Len(queue') : call'[queue'[i].agent] = "idle"
    BY <2>1, <2>3, <2>4, <2>5
  <2>7. \A i, j \in 1 .. Len(queue') :
            queue'[i].agent = queue'[j].agent => i = j
    BY <2>1, <2>3, <2>4
  <2> QED BY <2>6, <2>7 DEF RoundIdle
<1>4. ASSUME arbitrate_next
      PROVE  RoundIdle'
  <2>1. PICK a \in Agents, n \in Needs :
            /\ a = Head(queue).agent /\ call[a] = "idle"
            /\ Grant(a, n) \/ Refuse(a)
    BY <1>4, NextInRound
  <2>2. \A b \in Agents \ {a} : call'[b] = call[b]
    BY <2>1, DecisionLocal
  <2>3. queue' = Tail(queue) /\ queue \in Seq(Requests) /\ queue # <<>>
    BY <1>4 DEF arbitrate_next, TypeOK
  <2>4. /\ Len(queue') = Len(queue) - 1 /\ Len(queue) \in Nat
        /\ \A i \in 1 .. Len(queue') : queue'[i] = queue[i + 1]
        /\ Head(queue) = queue[1]
    <3>1. Len(Tail(queue)) = Len(queue) - 1 /\ Len(queue) \in Nat
      BY <2>3
    <3>2. \A i \in 1 .. Len(queue) - 1 : Tail(queue)[i] = queue[i + 1]
      BY <2>3
    <3>3. Head(queue) = queue[1]
      BY <2>3
    <3> QED BY <2>3, <3>1, <3>2, <3>3
  <2>5. \A i \in 1 .. Len(queue) : queue[i].agent \in Agents
    <3>1. \A i \in 1 .. Len(queue) : queue[i] \in Requests
      BY <2>3
    <3> QED BY <3>1 DEF Requests
  <2>6. \A i \in 1 .. Len(queue') :
            i + 1 \in 1 .. Len(queue) /\ i + 1 # 1 /\ 1 \in 1 .. Len(queue)
    BY <2>4
  <2>7. ASSUME NEW i \in 1 .. Len(queue')
        PROVE  /\ queue'[i].agent \in Agents \ {a}
               /\ call[queue'[i].agent] = "idle"
    <3>1. /\ queue'[i] = queue[i + 1]
          /\ i + 1 \in 1 .. Len(queue) /\ 1 \in 1 .. Len(queue) /\ i + 1 # 1
      BY <2>4, <2>6
    <3>2. /\ queue[i + 1].agent # queue[1].agent
          /\ call[queue[i + 1].agent] = "idle"
      BY <3>1 DEF RoundIdle
    <3>3. queue[1].agent = a
      BY <2>1, <2>4
    <3> QED BY <2>5, <3>1, <3>2, <3>3
  <2>8. \A i \in 1 .. Len(queue') : call'[queue'[i].agent] = "idle"
    BY <2>2, <2>7
  <2>9. ASSUME NEW i \in 1 .. Len(queue'), NEW j \in 1 .. Len(queue'),
               queue'[i].agent = queue'[j].agent
        PROVE  i = j
    <3>1. i + 1 = j + 1
      BY <2>4, <2>6, <2>9 DEF RoundIdle
    <3> QED BY <3>1, <2>4
  <2> QED BY <2>8, <2>9 DEF RoundIdle
<1>5. ASSUME arbitrate_return \/ Refill \/ Tick \/ UNCHANGED vars
      PROVE  RoundIdle'
  BY <1>5 DEF arbitrate_return, Refill, Tick, vars, RoundIdle
<1>6. ASSUME \/ \E a \in Agents, p \in Priorities : register(a, p)
             \/ \E a \in Agents, n \in Needs : request(a, n)
             \/ \E a \in Agents : complete(a) \/ Deliver(a)
      PROVE  RoundIdle'
  BY <1>1, <1>6 DEF register, request, complete, Deliver, Idle
<1> QED BY <1>2, <1>3, <1>4, <1>5, <1>6 DEF Next

\* A granted call keeps its hold until it is made.
LEMMA HoldStep ==
  ASSUME TypeOK, RoundIdle, GrantsHold, [Next]_vars
  PROVE  GrantsHold'
<1> USE DEF coordinator, round, provider
<1>1. ASSUME NEW a \in Agents, NEW n \in Needs, call[a] = "idle",
             Grant(a, n) \/ Refuse(a)
      PROVE  GrantsHold'
  <2>1. /\ \A b \in Agents \ {a} : /\ call'[b] = call[b]
                                   /\ reservations'[b] = reservations[b]
        /\ call'[a] = "granted" => reservations'[a] = n
    BY <1>1, DecisionLocal
  <2>2. n > 0
    OBVIOUS
  <2> QED BY <2>1, <2>2 DEF GrantsHold, Outstanding
<1>2. ASSUME NEW a \in Agents, Serve(a) \/ Fail(a) \/ Deliver(a)
      PROVE  GrantsHold'
  <2>1. /\ reservations' = reservations
        /\ \A b \in Agents : call'[b] = "granted" => call[b] = "granted"
    BY <1>2 DEF Serve, Fail, Deliver, TypeOK
  <2> QED BY <2>1 DEF GrantsHold, Outstanding
<1>3. ASSUME NEW a \in Agents, complete(a)
      PROVE  GrantsHold'
  BY <1>3 DEF complete, GrantsHold, Outstanding, TypeOK
<1>4. ASSUME NEW a \in Agents, NEW n \in Needs, request(a, n)
      PROVE  GrantsHold'
  BY <1>1, <1>4 DEF request
<1>5. ASSUME arbitrate_next
      PROVE  GrantsHold'
  BY <1>1, <1>5, NextInRound
<1>6. ASSUME UNCHANGED <<reservations, call>>
      PROVE  GrantsHold'
  BY <1>6 DEF GrantsHold, Outstanding
<1>7. ASSUME \/ \E a \in Agents, p \in Priorities : register(a, p)
             \/ \E S \in SUBSET Agents :
                  \E needs \in [S -> Needs] : arbitrate(S, needs)
             \/ arbitrate_return \/ Refill \/ Tick \/ UNCHANGED vars
      PROVE  UNCHANGED <<reservations, call>>
  BY <1>7 DEF register, arbitrate, arbitrate_return, Refill, Tick, vars
<1> QED BY <1>2, <1>3, <1>4, <1>5, <1>6, <1>7 DEF Next

\* Answers stay totally ordered, each one carrying a window.
LEMMA AnswersStep ==
  ASSUME TypeOK, RoundIdle, AnswersOrdered, [Next]_vars
  PROVE  AnswersOrdered'
<1> USE DEF coordinator, round, provider
<1>1. ASSUME Undelivered' = Undelivered, UNCHANGED <<header, ahead>>
      PROVE  AnswersOrdered'
  BY <1>1 DEF AnswersOrdered
<1>2. ASSUME NEW a \in Agents, Serve(a) \/ Fail(a)
      PROVE  AnswersOrdered'
  <2>1. Undelivered' = Undelivered \cup {a} /\ a \notin Undelivered
    BY <1>2 DEF Serve, Fail, TypeOK, Undelivered
  <2>2. ahead' = [ahead EXCEPT ![a] = Undelivered]
    BY <1>2 DEF Serve, Fail
  <2>3. window \in Windows /\ TypeOK'
    BY TypeStep DEF TypeOK
  <2>4. /\ \A b \in Agents \ {a} : header'[b] = header[b]
        /\ header'[a] \in Windows
    <3>1. CASE Serve(a)
      BY <3>1, <2>3 DEF Serve, TypeOK
    <3>2. CASE Fail(a)
      BY <3>2, <2>3 DEF Fail, TypeOK
    <3> QED BY <1>2, <3>1, <3>2
  <2>5. /\ ahead'[a] = Undelivered
        /\ \A b \in Agents \ {a} : ahead'[b] = ahead[b]
    BY <2>2 DEF TypeOK
  <2>6. Undelivered \subseteq Agents
    BY DEF Undelivered
  <2> QED BY <2>1, <2>4, <2>5, <2>6 DEF AnswersOrdered
<1>3. ASSUME NEW a \in Agents, Deliver(a)
      PROVE  AnswersOrdered'
  <2>1. Undelivered' = Undelivered \ {a}
    BY <1>3 DEF Deliver, TypeOK, Undelivered
  <2>2. \A b \in Undelivered' : /\ header'[b] = header[b]
                                /\ ahead'[b] = ahead[b] \ {a}
    BY <1>3, <2>1 DEF Deliver, TypeOK, Undelivered
  <2> QED BY <2>1, <2>2 DEF AnswersOrdered
<1>4. ASSUME NEW a \in Agents, complete(a)
      PROVE  AnswersOrdered'
  <2>1. Undelivered' = Undelivered
    BY <1>4 DEF complete, TypeOK, Undelivered
  <2> QED BY <1>1, <1>4, <2>1 DEF complete
<1>5. ASSUME NEW a \in Agents, NEW n \in Needs, request(a, n)
      PROVE  AnswersOrdered'
  <2>1. Undelivered' = Undelivered
    BY <1>5, DecisionLocal DEF request
  <2> QED BY <1>1, <1>5, <2>1 DEF request
<1>6. ASSUME arbitrate_next
      PROVE  AnswersOrdered'
  <2>1. Undelivered' = Undelivered
    BY <1>6, NextInRound, DecisionLocal
  <2> QED BY <1>1, <1>6, <2>1 DEF arbitrate_next
<1>7. ASSUME \/ \E a \in Agents, p \in Priorities : register(a, p)
             \/ \E S \in SUBSET Agents :
                  \E needs \in [S -> Needs] : arbitrate(S, needs)
             \/ arbitrate_return \/ Refill \/ Tick \/ UNCHANGED vars
      PROVE  UNCHANGED <<call, header, ahead>>
  BY <1>7 DEF register, arbitrate, arbitrate_return, Refill, Tick, vars
<1>8. ASSUME UNCHANGED <<call, header, ahead>>
      PROVE  AnswersOrdered'
  BY <1>8 DEF AnswersOrdered, Undelivered
<1> QED BY <1>2, <1>3, <1>4, <1>5, <1>6, <1>7, <1>8 DEF Next

-----------------------------------------------------------------------------
(* No reading is further ahead of the window than the undelivered answers  *)
(* account for.                                                            *)

\* The sums the two bounds speak of are natural numbers.
LEMMA BehindNat ==
  ASSUME TypeOK, NEW a
  PROVE  /\ reservations \in [Agents -> Nat]
         /\ IsFiniteSet(Undelivered) /\ Undelivered \subseteq Agents
         /\ IsFiniteSet(Behind(a)) /\ Behind(a) \subseteq Undelivered
         /\ Total(reservations, Undelivered) \in Nat
         /\ Total(reservations, Behind(a)) \in Nat
<1>1. reservations \in [Agents -> Nat]
  BY ReservedNat
<1>2. /\ Undelivered \in SUBSET Agents /\ Behind(a) \in SUBSET Agents
      /\ Behind(a) \subseteq Undelivered
  BY DEF Undelivered, Behind
<1>3. IsFiniteSet(Undelivered) /\ IsFiniteSet(Behind(a))
  BY <1>2, FS_Subset
<1>4. \A b \in Undelivered : reservations[b] \in Nat
  BY <1>1, <1>2
<1>5. \A b \in Behind(a) : reservations[b] \in Nat
  BY <1>1, <1>2
<1>6. /\ Total(reservations, Undelivered) \in Nat
      /\ Total(reservations, Behind(a)) \in Nat
  BY <1>3, <1>4, <1>5, TotalNat
<1> QED BY <1>1, <1>2, <1>3, <1>6

\* Steps that leave the answers and their holds alone, and the window no
\* smaller, keep both bounds.
LEMMA BoundsSame ==
  ASSUME TypeOK, TypeOK', AnswersOrdered, ReadingBounded, HeadersBounded,
         Undelivered' = Undelivered,
         \A b \in Undelivered : reservations'[b] = reservations[b],
         UNCHANGED <<header, ahead, reading>>,
         window.tokens <= window'.tokens
  PROVE  ReadingBounded' /\ HeadersBounded'
<1>1. /\ window.tokens \in Int /\ window'.tokens \in Int
      /\ reading.tokens \in Int
  BY DEF TypeOK, Windows
<1>2. Total(reservations', Undelivered') = Total(reservations, Undelivered)
  BY TotalSame
<1>3. Total(reservations, Undelivered) \in Nat
  BY BehindNat
<1>4. ReadingBounded'
  BY <1>1, <1>2, <1>3 DEF ReadingBounded
<1>5. ASSUME NEW a \in Undelivered'
      PROVE  header'[a].tokens
               <= window'.tokens + Total(reservations', Behind(a)')
  <2>1. Behind(a)' = Behind(a)
    BY DEF Behind
  <2>2. \A b \in Behind(a) : reservations'[b] = reservations[b]
    BY DEF Behind
  <2>3. Total(reservations', Behind(a)') = Total(reservations, Behind(a))
    BY <2>1, <2>2, TotalSame
  <2>4. header[a].tokens <= window.tokens + Total(reservations, Behind(a))
    BY DEF HeadersBounded
  <2>5. Total(reservations, Behind(a)) \in Nat
    BY BehindNat
  <2>6. header[a].tokens \in Int /\ header' = header
    BY DEF AnswersOrdered, Windows
  <2> QED BY <1>1, <2>3, <2>4, <2>5, <2>6
<1> QED BY <1>4, <1>5 DEF HeadersBounded

\* A decision reads the cache, or pings while no answer is on its way.
LEMMA BoundsDecision ==
  ASSUME InOrder, TypeOK, TypeOK', AnswersOrdered,
         ReadingBounded, HeadersBounded,
         NEW a \in Agents, NEW n \in Needs, call[a] = "idle",
         Grant(a, n) \/ Refuse(a),
         NEW t \in Telemetry, window' = t.window, reading' = t.reading,
         UNCHANGED <<header, ahead>>
  PROVE  ReadingBounded' /\ HeadersBounded'
<1>1. /\ Undelivered' = Undelivered
      /\ \A b \in Undelivered : reservations'[b] = reservations[b]
  BY DecisionLocal DEF Undelivered
<1>2. CASE t = [window |-> window, reading |-> reading]
  <2>1. window' = window /\ reading' = reading
    BY <1>2
  <2>2. window.tokens <= window'.tokens
    BY <2>1 DEF TypeOK, Windows
  <2> QED BY <1>1, <2>1, <2>2, BoundsSame
<1>3. CASE Undelivered = {} /\ t = Pinged
  <2>1. reading'.tokens <= window'.tokens
    BY <1>3 DEF Pinged, TypeOK, Windows
  <2>2. Total(reservations', Undelivered') = 0
    BY <1>1, <1>3, TotalEmpty
  <2>3. window'.tokens \in Int /\ reading'.tokens \in Int
    BY DEF TypeOK, Windows
  <2>4. ReadingBounded'
    BY <2>1, <2>2, <2>3 DEF ReadingBounded
  <2> QED BY <1>1, <1>3, <2>4 DEF HeadersBounded
<1> QED BY <1>2, <1>3 DEF Telemetry

\* A call answered lowers the window by its hold at most.
LEMMA BoundsAnswered ==
  ASSUME TypeOK, TypeOK', AnswersOrdered, ReadingBounded, HeadersBounded,
         NEW a \in Agents, Serve(a) \/ Fail(a)
  PROVE  ReadingBounded' /\ HeadersBounded'
<1>1. /\ reservations' = reservations /\ reading' = reading
      /\ Undelivered' = Undelivered \cup {a} /\ a \notin Undelivered
      /\ ahead'[a] = Undelivered /\ header'[a] = window'
      /\ \A b \in Agents \ {a} : /\ header'[b] = header[b]
                                 /\ ahead'[b] = ahead[b]
  <2>1. CASE Serve(a)
    BY <2>1 DEF Serve, TypeOK, Undelivered, coordinator
  <2>2. CASE Fail(a)
    BY <2>2 DEF Fail, TypeOK, Undelivered, coordinator
  <2> QED BY <2>1, <2>2
<1>2. /\ reservations \in [Agents -> Nat] /\ reservations[a] \in Nat
      /\ window.tokens \in Int /\ window'.tokens \in Int
      /\ reading.tokens \in Int
  <2>1. window \in Windows /\ window' \in Windows /\ reading \in Windows
    BY DEF TypeOK
  <2>2. reservations \in [Agents -> Nat]
    BY ReservedNat
  <2> QED BY <2>1, <2>2 DEF Windows
<1>3. window.tokens <= window'.tokens + reservations[a]
  <2>1. CASE Serve(a)
    <3>1. PICK used \in 0 .. reservations[a] :
              window'.tokens = window.tokens - used
      BY <2>1 DEF Serve
    <3> QED BY <1>2, <3>1
  <2>2. CASE Fail(a)
    BY <1>2, <2>2 DEF Fail
  <2> QED BY <2>1, <2>2
<1>4. /\ IsFiniteSet(Undelivered) /\ IsFiniteSet(Undelivered')
      /\ \A b \in Undelivered \cup {a} : reservations[b] \in Nat
  BY <1>1, <1>2, BehindNat, FS_AddElement
<1>5. ASSUME NEW S \in SUBSET Undelivered
      PROVE  /\ Total(reservations, S) \in Nat
             /\ Total(reservations, S \cup {a})
                  = Total(reservations, S) + reservations[a]
  <2>1. IsFiniteSet(S) /\ IsFiniteSet(S \cup {a})
    BY <1>4, FS_Subset, FS_AddElement
  <2>2. (S \cup {a}) \ {a} = S
    BY <1>1
  <2>3. \A b \in S \cup {a} : reservations[b] \in Nat
    BY <1>4
  <2>4. Total(reservations, S) \in Nat
    BY <2>1, <2>3, TotalNat
  <2>5. Total(reservations, S \cup {a})
          = Total(reservations, (S \cup {a}) \ {a}) + reservations[a]
    BY <2>1, <2>3, TotalSplit
  <2> QED BY <2>2, <2>4, <2>5
<1>6. ReadingBounded'
  <2>1. /\ Total(reservations, Undelivered) \in Nat
        /\ Total(reservations', Undelivered')
             = Total(reservations, Undelivered) + reservations[a]
    BY <1>1, <1>5
  <2>2. reading.tokens <= window.tokens + Total(reservations, Undelivered)
    BY DEF ReadingBounded
  <2>3. reading'.tokens <= window'.tokens + Total(reservations', Undelivered')
    BY <1>1, <1>2, <1>3, <2>1, <2>2
  <2> QED BY <2>3 DEF ReadingBounded
<1>7. ASSUME NEW b \in Undelivered'
      PROVE  header'[b].tokens
               <= window'.tokens + Total(reservations', Behind(b)')
  <2>1. CASE b = a
    <3>1. Behind(b)' \in SUBSET Undelivered'
      BY DEF Behind
    <3>2. IsFiniteSet(Behind(b)')
      BY <1>4, <3>1, FS_Subset
    <3>3. \A c \in Behind(b)' : reservations'[c] \in Nat
      BY <1>1, <1>4, <3>1
    <3>4. Total(reservations', Behind(b)') \in Nat
      BY <3>2, <3>3, TotalNat
    <3> QED BY <1>1, <1>2, <2>1, <3>4
  <2>2. CASE b # a
    <3>1. b \in Undelivered /\ b \in Agents \ {a}
      BY <1>1, <2>2 DEF Undelivered
    <3>2. Behind(b)' = Behind(b) \cup {a}
      BY <1>1, <3>1 DEF Behind, Undelivered
    <3>3. Behind(b) \in SUBSET Undelivered
      BY DEF Behind
    <3>4. /\ Total(reservations, Behind(b)) \in Nat
          /\ Total(reservations', Behind(b)')
               = Total(reservations, Behind(b)) + reservations[a]
      BY <1>1, <1>5, <3>2, <3>3
    <3>5. /\ header[b].tokens <= window.tokens + Total(reservations, Behind(b))
          /\ header[b].tokens \in Int
      BY <3>1 DEF HeadersBounded, AnswersOrdered, Windows
    <3>6. header'[b] = header[b]
      BY <1>1, <3>1
    <3> QED BY <1>2, <1>3, <3>4, <3>5, <3>6
  <2> QED BY <2>1, <2>2
<1> QED BY <1>6, <1>7 DEF HeadersBounded

\* An answer absorbed in order leaves none behind it unaccounted for.
LEMMA BoundsDelivered ==
  ASSUME InOrder, TypeOK, TypeOK', AnswersOrdered,
         ReadingBounded, HeadersBounded, NEW a \in Agents, Deliver(a)
  PROVE  ReadingBounded' /\ HeadersBounded'
<1>1. /\ reservations' = reservations /\ window' = window
      /\ a \in Undelivered /\ Undelivered' = Undelivered \ {a}
      /\ ahead[a] = {} /\ reading' = header[a]
      /\ \A b \in Agents \ {a} : /\ header'[b] = header[b]
                                 /\ ahead'[b] = ahead[b] \ {a}
  BY DEF Deliver, TypeOK, Undelivered, coordinator
<1>2. /\ window.tokens \in Int
      /\ \A b \in Undelivered : header[b].tokens \in Int
  BY DEF TypeOK, Windows, AnswersOrdered
<1>3. /\ IsFiniteSet(Undelivered') /\ reservations \in [Agents -> Nat]
      /\ Undelivered \subseteq Agents
  BY <1>1, BehindNat, FS_RemoveElement
<1>4. Behind(a) \in SUBSET Undelivered'
  BY <1>1 DEF Behind
<1>5. /\ Total(reservations, Behind(a)) <= Total(reservations, Undelivered')
      /\ Total(reservations, Behind(a)) \in Nat
      /\ Total(reservations, Undelivered') \in Nat
  <2>1. \A b \in Undelivered' : reservations[b] \in Nat
    BY <1>1, <1>3
  <2> QED BY <1>3, <1>4, <2>1, TotalMonotone, TotalNat, BehindNat
<1>6. header[a].tokens <= window.tokens + Total(reservations, Behind(a))
  BY <1>1 DEF HeadersBounded
<1>7. reading'.tokens <= window'.tokens + Total(reservations', Undelivered')
  BY <1>1, <1>2, <1>5, <1>6
<1>8. ASSUME NEW b \in Undelivered'
      PROVE  header'[b].tokens
               <= window'.tokens + Total(reservations', Behind(b)')
  <2>1. b \in Undelivered /\ b \in Agents \ {a}
    BY <1>1, <1>3
  <2>2. Behind(b)' = Behind(b)
    BY <1>1, <1>3, <2>1 DEF Behind
  <2>3. header[b].tokens <= window.tokens + Total(reservations, Behind(b))
    BY <2>1 DEF HeadersBounded
  <2> QED BY <1>1, <2>1, <2>2, <2>3
<1> QED BY <1>7, <1>8 DEF ReadingBounded, HeadersBounded

\* Every step keeps both bounds.
LEMMA BoundsStep ==
  ASSUME InOrder, TypeOK, RoundIdle, AnswersOrdered,
         ReadingBounded, HeadersBounded, [Next]_vars
  PROVE  ReadingBounded' /\ HeadersBounded'
<1> USE DEF coordinator, round, provider
<1>1. TypeOK'
  BY TypeStep
<1>2. ASSUME NEW a \in Agents, NEW n \in Needs, request(a, n)
      PROVE  ReadingBounded' /\ HeadersBounded'
  <2>1. PICK t \in Telemetry : /\ window' = t.window /\ reading' = t.reading
                               /\ Grant(a, n) \/ Refuse(a)
    BY <1>2 DEF request
  <2>2. call[a] = "idle" /\ UNCHANGED <<header, ahead>>
    BY <1>2 DEF request
  <2> QED BY <1>1, <2>1, <2>2, BoundsDecision
<1>3. ASSUME arbitrate_next
      PROVE  ReadingBounded' /\ HeadersBounded'
  <2>1. PICK a \in Agents, n \in Needs :
            /\ call[a] = "idle"
            /\ Grant(a, n) \/ Refuse(a)
            /\ \E t \in Telemetry :
                 window' = t.window /\ reading' = t.reading
    BY <1>3, NextInRound
  <2>2. UNCHANGED <<header, ahead>>
    BY <1>3 DEF arbitrate_next
  <2> QED BY <1>1, <2>1, <2>2, BoundsDecision
<1>4. ASSUME NEW a \in Agents, Serve(a) \/ Fail(a)
      PROVE  ReadingBounded' /\ HeadersBounded'
  BY <1>1, <1>4, BoundsAnswered
<1>5. ASSUME NEW a \in Agents, Deliver(a)
      PROVE  ReadingBounded' /\ HeadersBounded'
  BY <1>1, <1>5, BoundsDelivered
<1>6. ASSUME NEW a \in Agents, complete(a)
      PROVE  ReadingBounded' /\ HeadersBounded'
  <2>1. Undelivered' = Undelivered
    BY <1>6 DEF complete, TypeOK, Undelivered
  <2>2. \A b \in Undelivered : reservations'[b] = reservations[b]
    BY <1>6 DEF complete, TypeOK, Undelivered
  <2>3. window.tokens <= window'.tokens /\ UNCHANGED <<header, ahead, reading>>
    BY <1>6 DEF complete, TypeOK, Windows
  <2> QED BY <1>1, <2>1, <2>2, <2>3, BoundsSame
<1>7. ASSUME \/ \E a \in Agents, p \in Priorities : register(a, p)
             \/ \E S \in SUBSET Agents :
                  \E needs \in [S -> Needs] : arbitrate(S, needs)
             \/ arbitrate_return \/ Refill \/ Tick \/ UNCHANGED vars
      PROVE  ReadingBounded' /\ HeadersBounded'
  <2>1. UNCHANGED <<reservations, reading, call, header, ahead>>
    BY <1>7 DEF register, arbitrate, arbitrate_return, Refill, Tick, vars
  <2>2. window.tokens <= window'.tokens
    <3>1. CASE Refill
      BY <3>1 DEF Refill
    <3>2. CASE window' = window
      BY <3>2 DEF TypeOK, Windows
    <3>3. Refill \/ window' = window
      BY <1>7 DEF register, arbitrate, arbitrate_return, Tick, vars
    <3> QED BY <3>1, <3>2, <3>3
  <2>3. Undelivered' = Undelivered
    BY <2>1 DEF Undelivered
  <2> QED BY <1>1, <2>1, <2>2, <2>3, BoundsSame
<1> QED BY <1>2, <1>3, <1>4, <1>5, <1>6, <1>7 DEF Next

-----------------------------------------------------------------------------
(* Nobody outranked is preferred.                                          *)

\* The converse of VerdictFits: a call is refused for want of a request or
\* because the reading, less what is held, does not cover it.
LEMMA VerdictRefuses ==
  ASSUME NEW r \in Windows, NEW held \in Nat, NEW needed \in Nat \ {0},
         Verdict(r, held, needed) # "continue"
  PROVE  r.requests < 1 \/ r.tokens - held < needed
<1> DEFINE b == shadow(r, held)
           s == TokenStep(needed)
<1>1. r.tokens \in Nat /\ r.requests \in Nat
  BY DEF Windows
<1>2. /\ b.remaining_tokens = Greater(0, r.tokens - held)
      /\ b.remaining_requests = r.requests
      /\ b.remaining_input_tokens = None /\ b.remaining_output_tokens = None
      /\ s.needed = needed /\ s.input = None /\ s.output = None
      /\ s.latency = None
  BY DEF shadow, TokenBudget, TokenStep
<1>3. time_fit(b, s) /\ split_fit(b, s)
  BY <1>2 DEF time_fit, split_fit, Fits, Known
<1>4. ~ AllFit(b, s, 0)
  <2> DEFINE soon == /\ Known(wait_s(b, s, 0))
                     /\ wait_s(b, s, 0) <= WaitThreshold
  <2> HIDE DEF b, s
  <2>1. AllFit(b, s, 0) =>
          decide(b, s, WaitThreshold, 0) = Decision("continue", None)
    BY <1>3, Zenon DEF decide, b, s
  <2>2. Decision("continue", None).action = "continue"
    BY DEF Decision
  <2> QED BY <2>1, <2>2 DEF Verdict, b, s
<1>5. ~ tokens_fit(b, s) \/ ~ requests_fit(b, 0)
  BY <1>3, <1>4 DEF AllFit
<1>6. ~ tokens_fit(b, s) => r.tokens - held < needed
  BY <1>1, <1>2 DEF tokens_fit, should_checkpoint, Greater
<1>7. ~ requests_fit(b, 0) => r.requests < 1
  BY <1>1, <1>2 DEF requests_fit, Fits
<1> QED BY <1>5, <1>6, <1>7

\* A `continue' needs a request left, too.
LEMMA VerdictAsks ==
  ASSUME NEW r \in Windows, NEW held \in Nat, NEW needed \in Nat \ {0},
         Verdict(r, held, needed) = "continue"
  PROVE  r.requests >= 1
<1> DEFINE b == shadow(r, held)
           s == TokenStep(needed)
<1>1. r.requests \in Nat /\ b.remaining_requests = r.requests
  BY DEF Windows, shadow, TokenBudget
<1>2. AllFit(b, s, 0)
  BY DEF Verdict, decide, Decision
<1>3. Fits(1 + 0, r.requests)
  BY <1>1, <1>2 DEF AllFit, requests_fit
<1> QED BY <1>1, <1>3 DEF Fits, Known

\* A sorted queue has nobody behind an agent it outranks.
LEMMA SortedRanks ==
  ASSUME TypeOK, NEW S \in SUBSET Agents, NEW needs \in [S -> Needs],
         arbitrate(S, needs), TypeOK'
  PROVE  \A i, j \in 1 .. Len(queue') :
            i < j => ~ Outranks(queue[j], queue[i])'
<1> SUFFICES ASSUME NEW i \in 1 .. Len(queue'), NEW j \in 1 .. Len(queue'),
                    i < j
             PROVE  ~ Outranks(queue[j], queue[i])'
  OBVIOUS
<1>1. PICK rank \in [1 .. Cardinality(S) -> S] :
          /\ queue' = [m \in 1 .. Cardinality(S) |->
                          [agent  |-> rank[m],
                           needed |-> needs[rank[m]],
                           waited |-> Waited(rank[m])]]
          /\ Sorted(queue')
  BY DEF arbitrate
<1>2. Cardinality(S) \in Nat
  BY FS_Subset, FS_CardinalityType
<1>3. Len(queue') = Cardinality(S)
  BY <1>1, <1>2
<1>4. i \in 1 .. Cardinality(S) /\ j \in 1 .. Cardinality(S)
  BY <1>3
<1>5. /\ queue'[i].agent = rank[i] /\ queue'[i].waited = Waited(rank[i])
      /\ queue'[j].agent = rank[j] /\ queue'[j].waited = Waited(rank[j])
  BY <1>1, <1>4
<1>6. Before(rank[i], rank[j])
  <2>1. Before(queue'[i].agent, queue'[j].agent)
    BY <1>1 DEF Sorted
  <2> QED BY <1>5, <2>1
<1>7. rank[i] \in Agents /\ rank[j] \in Agents
  BY <1>4
<1>8. /\ Waited(rank[i]) \in Int /\ Waited(rank[j]) \in Int
      /\ priority'[rank[i]] \in Int /\ priority'[rank[j]] \in Int
  <2>1. \A a \in Agents : Waited(a) \in 0 .. MaxClock
    BY DEF Waited, TypeOK
  <2>2. \A a \in Agents : priority'[a] \in Int
    BY DEF TypeOK
  <2> QED BY <1>7, <2>1, <2>2
<1>9. \/ priority'[rank[i]] > priority'[rank[j]]
      \/ /\ priority'[rank[i]] = priority'[rank[j]]
         /\ Waited(rank[i]) <= Waited(rank[j])
  BY <1>6, <1>8 DEF Before
<1>10. ~ \/ priority'[rank[j]] > priority'[rank[i]]
         \/ /\ priority'[rank[j]] = priority'[rank[i]]
            /\ Waited(rank[j]) < Waited(rank[i])
  BY <1>8, <1>9
<1> QED BY <1>5, <1>10 DEF Outranks

\* The first of the queue becomes the last of the results, with the verdict on
\* the reading of its turn; what it holds changes by a grant only.
RoundDecision(r, a, n) ==
    /\ a \in Agents /\ n \in Needs
    /\ r.agent = a /\ r.needed = n /\ r.waited = Head(queue).waited
    /\ r.agent = Head(queue).agent
    /\ r.own = reservations[a]
    /\ r.granted \in BOOLEAN /\ r.tokens \in Nat /\ r.requests \in Nat
    /\ r.granted =>
          /\ reservations' = [reservations EXCEPT ![a] = n]
          /\ r.requests >= 1 /\ n <= r.tokens - reserved
    /\ ~ r.granted =>
          /\ reservations' = reservations
          /\ r.requests < 1 \/ r.tokens - reserved < n

\* arbitrate_next appends one such decision.
LEMMA NextDecides ==
  ASSUME TypeOK, arbitrate_next
  PROVE  /\ queue # <<>> /\ queue' = Tail(queue) /\ priority' = priority
         /\ \E r, a, n : results' = Append(results, r) /\ RoundDecision(r, a, n)
<1> DEFINE a == Head(queue).agent
           n == Head(queue).needed
<1>1. queue \in Seq(Requests) /\ queue # <<>>
  BY DEF arbitrate_next, TypeOK
<1>2. Head(queue) \in Requests
  BY <1>1
<1>3. a \in Agents /\ n \in Needs /\ n \in Nat \ {0}
  BY <1>2 DEF Requests
<1>4. PICK t \in Telemetry :
          /\ IF Verdict(t.reading, reserved, n) = "continue"
               THEN Grant(a, n) ELSE Refuse(a)
          /\ results' = Append(results,
                [agent    |-> a,
                 needed   |-> n,
                 granted  |-> Verdict(t.reading, reserved, n) = "continue",
                 waited   |-> Head(queue).waited,
                 own      |-> reservations[a],
                 tokens   |-> t.reading.tokens,
                 requests |-> t.reading.requests])
  BY DEF arbitrate_next
<1>5. t.reading \in Windows /\ reserved \in Nat
  BY TelemetryType, ReservedNat
<1>6. t.reading.tokens \in Nat /\ t.reading.requests \in Nat
  BY <1>5 DEF Windows
<1> DEFINE go == Verdict(t.reading, reserved, n) = "continue"
           r == [agent    |-> a,
                 needed   |-> n,
                 granted  |-> go,
                 waited   |-> Head(queue).waited,
                 own      |-> reservations[a],
                 tokens   |-> t.reading.tokens,
                 requests |-> t.reading.requests]
<1>7. go => /\ reservations' = [reservations EXCEPT ![a] = n]
            /\ t.reading.requests >= 1 /\ n <= t.reading.tokens - reserved
  BY <1>3, <1>4, <1>5, VerdictFits, VerdictAsks DEF Grant
<1>8. ~ go => /\ reservations' = reservations
              /\ \/ t.reading.requests < 1
                 \/ t.reading.tokens - reserved < n
  BY <1>3, <1>4, <1>5, VerdictRefuses DEF Refuse
<1>9. RoundDecision(r, a, n)
  <2> HIDE DEF go, n, a
  <2>1. r.granted = go /\ go \in BOOLEAN
    BY DEF go
  <2> QED BY <1>3, <1>6, <1>7, <1>8, <2>1 DEF RoundDecision, a, n
<1>10. results' = Append(results, r)
  BY <1>4
<1> QED BY <1>1, <1>9, <1>10 DEF arbitrate_next

\* Where the entries of a round are after one decision.
LEMMA RoundMoves ==
  ASSUME TypeOK, queue # <<>>, queue' = Tail(queue),
         NEW r, results' = Append(results, r)
  PROVE  /\ Len(results) \in Nat /\ Len(results') = Len(results) + 1
         /\ \A i \in 1 .. Len(results) : results'[i] = results[i]
         /\ results'[Len(results) + 1] = r
         /\ Len(queue) \in Nat \ {0} /\ Len(queue') = Len(queue) - 1
         /\ \A i \in 1 .. Len(queue') : queue'[i] = queue[i + 1]
         /\ Head(queue) = queue[1]
<1> DEFINE Results == [agent : Agents, needed : Needs, granted : BOOLEAN,
                       waited : 0 .. MaxClock, own : Needs \cup {0},
                       tokens : 0 .. Limit, requests : 0 .. RequestLimit]
<1>1. queue \in Seq(Requests) /\ results \in Seq(Results)
  BY DEF TypeOK
<1> HIDE DEF Results
<1>2. Len(queue) \in Nat \ {0} /\ Head(queue) = queue[1]
  BY <1>1
<1>3. Len(Tail(queue)) = Len(queue) - 1
  BY <1>1
<1>4. \A i \in 1 .. Len(queue) - 1 : Tail(queue)[i] = queue[i + 1]
  BY <1>1
<1>5. Len(results) \in Nat /\ DOMAIN results = 1 .. Len(results)
  BY <1>1
<1>6. Len(results') = Len(results) + 1
  BY <1>1, <1>5
<1>7. \A i \in 1 .. Len(results) : results'[i] = results[i]
  BY <1>1, <1>5
<1>8. results'[Len(results) + 1] = r
  BY <1>1, <1>5
<1> QED BY <1>2, <1>3, <1>4, <1>5, <1>6, <1>7, <1>8

\* Decisions stay in the order of rank: the next one is about the first of the
\* queue, which outranks neither.
LEMMA ServedStep ==
  ASSUME TypeOK, ServedInOrder, arbitrate_next
  PROVE  ServedInOrder'
<1>1. /\ queue # <<>> /\ queue' = Tail(queue) /\ priority' = priority
      /\ \E r, a, n : results' = Append(results, r) /\ RoundDecision(r, a, n)
  BY NextDecides
<1>2. PICK r, a, n : results' = Append(results, r) /\ RoundDecision(r, a, n)
  BY <1>1
<1> DEFINE N == Len(results)
<1>3. /\ N \in Nat /\ Len(results') = N + 1
      /\ \A i \in 1 .. N : results'[i] = results[i]
      /\ results'[N + 1] = r
      /\ Len(queue) \in Nat \ {0} /\ Len(queue') = Len(queue) - 1
      /\ \A i \in 1 .. Len(queue') : queue'[i] = queue[i + 1]
      /\ Head(queue) = queue[1]
  BY <1>1, <1>2, RoundMoves
<1>4. r.agent = queue[1].agent /\ r.waited = queue[1].waited
  BY <1>2, <1>3 DEF RoundDecision
<1>5. \A x, y : Outranks(x, y)' <=> Outranks(x', y')
  BY <1>1 DEF Outranks
<1>6. /\ \A x : Outranks(x, r) <=> Outranks(x, queue[1])
      /\ \A x : Outranks(r, x) <=> Outranks(queue[1], x)
  BY <1>4 DEF Outranks
<1> HIDE DEF N
<1>7. 1 \in 1 .. Len(queue)
      /\ \A j \in 1 .. Len(queue') : j + 1 \in 1 .. Len(queue) /\ 1 < j + 1
  BY <1>3
<1>8. ASSUME NEW i \in 1 .. N + 1, NEW j \in 1 .. N + 1, i < j
      PROVE  ~ Outranks(results'[j], results'[i])
  <2>1. i \in 1 .. N /\ results'[i] = results[i]
    BY <1>3, <1>8
  <2>2. CASE j = N + 1
    BY <1>3, <1>6, <1>7, <2>1, <2>2 DEF ServedInOrder, N
  <2>3. CASE j \in 1 .. N
    BY <1>3, <1>8, <2>1, <2>3 DEF ServedInOrder, N
  <2> QED BY <1>3, <2>2, <2>3
<1>9. ASSUME NEW i \in 1 .. N + 1, NEW j \in 1 .. Len(queue')
      PROVE  ~ Outranks(queue'[j], results'[i])
  <2>1. queue'[j] = queue[j + 1]
    BY <1>3
  <2>2. CASE i = N + 1
    BY <1>3, <1>6, <1>7, <2>1, <2>2 DEF ServedInOrder
  <2>3. CASE i \in 1 .. N
    BY <1>3, <1>7, <2>1, <2>3 DEF ServedInOrder, N
  <2> QED BY <1>3, <2>2, <2>3
<1>10. ASSUME NEW i \in 1 .. Len(queue'), NEW j \in 1 .. Len(queue'), i < j
       PROVE  ~ Outranks(queue'[j], queue'[i])
  <2>1. i + 1 < j + 1
    BY <1>10, <1>3
  <2> QED BY <1>3, <1>7, <2>1 DEF ServedInOrder
<1>11. priority' = priority
  BY <1>1
<1> QED BY <1>3, <1>8, <1>9, <1>10, <1>11 DEF ServedInOrder, Outranks

\* One grant changes the sum of the holds by the difference it makes.
LEMMA GrantTotal ==
  ASSUME TypeOK, NEW a \in Agents, NEW n \in Needs,
         reservations' = [reservations EXCEPT ![a] = n]
  PROVE  /\ reserved \in Nat /\ reserved' \in Nat
         /\ reserved' = reserved - reservations[a] + n
<1>1. reservations \in [Agents -> Nat] /\ reserved \in Nat /\ n \in Nat
  BY ReservedNat
<1>2. reservations' \in [Agents -> Nat]
  BY <1>1
<1>3. reserved = Total(reservations, Agents \ {a}) + reservations[a]
  BY <1>1, TotalSplit DEF reserved
<1>4. reserved' = Total(reservations', Agents \ {a}) + reservations'[a]
  BY <1>2, TotalSplit DEF reserved
<1>5. Total(reservations', Agents \ {a}) = Total(reservations, Agents \ {a})
  <2>1. \A b \in Agents \ {a} : reservations'[b] = reservations[b]
    BY <1>1
  <2> QED BY <2>1, TotalSame
<1>6. /\ Total(reservations, Agents \ {a}) \in Nat
      /\ reservations[a] \in Nat /\ reservations'[a] = n
  BY <1>1, TotalNat, FS_RemoveElement
<1> DEFINE others == Total(reservations, Agents \ {a})
<1> HIDE DEF others, reserved
<1>7. /\ reserved = others + reservations[a] /\ reserved' = others + n
      /\ others \in Nat
  BY <1>3, <1>4, <1>5, <1>6 DEF others
<1> QED BY <1>1, <1>6, <1>7

\* The readings and needs of a round's decisions are natural numbers.
LEMMA ResultsType ==
  ASSUME TypeOK
  PROVE  \A i \in 1 .. Len(results) : /\ results[i].tokens \in Nat
                                      /\ results[i].needed \in Nat
                                      /\ results[i].requests \in Nat
<1> DEFINE Results == [agent : Agents, needed : Needs, granted : BOOLEAN,
                       waited : 0 .. MaxClock, own : Needs \cup {0},
                       tokens : 0 .. Limit, requests : 0 .. RequestLimit]
<1>1. results \in Seq(Results)
  BY DEF TypeOK
<1>2. \A x \in Results : /\ x.tokens \in Nat /\ x.needed \in Nat
                         /\ x.requests \in Nat
  <2> SUFFICES ASSUME NEW x \in Results
               PROVE  /\ x.tokens \in Nat /\ x.needed \in Nat
                      /\ x.requests \in Nat
    OBVIOUS
  <2>1. /\ x.tokens \in 0 .. Limit /\ x.needed \in Needs
        /\ x.requests \in 0 .. RequestLimit
    OBVIOUS
  <2>2. \A m \in 0 .. Limit : m \in Nat
    OBVIOUS
  <2>3. \A m \in 0 .. RequestLimit : m \in Nat
    OBVIOUS
  <2>4. \A m \in Needs : m \in Nat
    OBVIOUS
  <2>5. x.tokens \in Nat
    BY <2>1, <2>2, Zenon
  <2>6. x.needed \in Nat
    BY <2>1, <2>4, Zenon
  <2>7. x.requests \in Nat
    BY <2>1, <2>3, Zenon
  <2> QED BY <2>5, <2>6, <2>7
<1> HIDE DEF Results
<1>3. \A i \in 1 .. Len(results) : results[i] \in Results
  BY <1>1
<1> QED BY <1>2, <1>3

\* What was refused in a round is still refused after the next decision,
\* or that decision gave tokens back.
LEMMA RefusedStep ==
  ASSUME TypeOK, RefusedStill, arbitrate_next
  PROVE  RefusedStill'
<1>1. /\ queue # <<>> /\ queue' = Tail(queue)
      /\ \E r, a, n : results' = Append(results, r) /\ RoundDecision(r, a, n)
  BY NextDecides
<1>2. PICK r, a, n : results' = Append(results, r) /\ RoundDecision(r, a, n)
  BY <1>1
<1> DEFINE N == Len(results)
<1>3. /\ N \in Nat /\ Len(results') = N + 1
      /\ \A i \in 1 .. N : results'[i] = results[i]
      /\ results'[N + 1] = r
  BY <1>1, <1>2, RoundMoves
<1>4. /\ a \in Agents /\ n \in Needs /\ n \in Nat /\ reserved \in Nat
      /\ reservations[a] \in Nat
      /\ r.needed = n /\ r.own = reservations[a] /\ r.granted \in BOOLEAN
      /\ r.tokens \in Nat
  BY <1>2, ReservedNat DEF RoundDecision
<1>5. \A i \in 1 .. N : results[i].tokens \in Nat /\ results[i].needed \in Nat
  BY ResultsType
<1>6. ASSUME NEW i \in 1 .. N, GaveBack(i, N + 1)
      PROVE  GaveBack(i, N + 2)'
  <2>1. PICK k \in i + 1 .. N :
            results[k].granted /\ results[k].own > results[k].needed
    BY <1>3, <1>6 DEF GaveBack
  <2>2. k \in i + 1 .. (N + 2) - 1 /\ results'[k] = results[k]
    BY <1>3, <2>1
  <2> HIDE DEF N
  <2>3. \E m \in i + 1 .. (N + 2) - 1 :
            results'[m].granted /\ results'[m].own > results'[m].needed
    BY <2>1, <2>2
  <2> QED BY <1>3, <2>3 DEF GaveBack, N
<1> HIDE DEF N
<1> SUFFICES ASSUME NEW i \in 1 .. N + 1, ~ results'[i].granted
             PROVE  \/ results'[i].requests < 1
                    \/ results'[i].tokens - reserved' < results'[i].needed
                    \/ \E k \in i + 1 .. (N + 2) - 1 :
                          /\ results'[k].granted
                          /\ results'[k].own > results'[k].needed
  <2>1. Len(results') + 1 = N + 2
    BY <1>3
  <2> QED BY <1>3, <2>1 DEF RefusedStill, GaveBack
<1>7. CASE i = N + 1
  <2>1. results'[i] = r /\ ~ r.granted
    BY <1>3, <1>7
  <2>2. reserved' = reserved
    BY <1>2, <2>1 DEF RoundDecision, reserved
  <2>3. r.requests < 1 \/ r.tokens - reserved < n
    BY <1>2, <2>1 DEF RoundDecision
  <2> QED BY <1>4, <2>1, <2>2, <2>3
<1>8. CASE i \in 1 .. N
  <2>1. results'[i] = results[i] /\ ~ results[i].granted
    BY <1>3, <1>8
  <2>2. \/ results[i].requests < 1
        \/ results[i].tokens - reserved < results[i].needed
        \/ GaveBack(i, N + 1)
    BY <1>8, <2>1 DEF RefusedStill, N
  <2>3. CASE results[i].requests < 1
    BY <2>1, <2>3
  <2>4. CASE GaveBack(i, N + 1)
    BY <1>6, <1>8, <2>4, <1>3 DEF GaveBack, N
  <2>5. CASE results[i].tokens - reserved < results[i].needed
    <3>1. CASE ~ r.granted
      <4>1. reserved' = reserved
        BY <1>2, <3>1 DEF RoundDecision, reserved
      <4> QED BY <2>1, <2>5, <4>1
    <3>2. CASE r.granted /\ r.own > r.needed
      <4>1. N + 1 \in i + 1 .. (N + 2) - 1
        BY <1>3, <1>8
      <4> QED BY <1>3, <3>2, <4>1
    <3>3. CASE r.granted /\ r.own <= r.needed
      <4>1. reserved' = reserved - reservations[a] + n /\ reserved' \in Nat
        BY <1>2, <1>4, <3>3, GrantTotal DEF RoundDecision
      <4>2. reserved' >= reserved
        <5> HIDE DEF reserved
        <5> QED BY <1>4, <3>3, <4>1
      <4>3. results[i].tokens \in Nat /\ results[i].needed \in Nat
        BY <1>5, <1>8
      <4> HIDE DEF reserved
      <4>4. results[i].tokens - reserved' < results[i].needed
        BY <1>4, <2>5, <4>1, <4>2, <4>3
      <4> QED BY <2>1, <4>4
    <3>4. r.own > r.needed \/ r.own <= r.needed
      BY <1>4
    <3> QED BY <1>4, <3>1, <3>2, <3>3, <3>4
  <2> QED BY <2>2, <2>3, <2>4, <2>5
<1> QED BY <1>3, <1>7, <1>8

\* A grant inverts no order: what a refused agent was short of, the granted
\* one has been seen to get.
LEMMA PriorityStep ==
  ASSUME TypeOK, RankInv, arbitrate_next
  PROVE  NoPriorityInversion'
<1>1. /\ queue # <<>> /\ queue' = Tail(queue) /\ priority' = priority
      /\ \E r, a, n : results' = Append(results, r) /\ RoundDecision(r, a, n)
  BY NextDecides
<1>2. PICK r, a, n : results' = Append(results, r) /\ RoundDecision(r, a, n)
  BY <1>1
<1> DEFINE N == Len(results)
<1>3. /\ N \in Nat /\ Len(results') = N + 1
      /\ \A i \in 1 .. N : results'[i] = results[i]
      /\ results'[N + 1] = r
  BY <1>1, <1>2, RoundMoves
<1>4. /\ n \in Nat /\ reserved \in Nat
      /\ r.needed = n /\ r.tokens \in Nat /\ r.requests \in Nat
  BY <1>2, ReservedNat DEF RoundDecision
<1>5. \A i \in 1 .. N : /\ results[i].tokens \in Nat
                        /\ results[i].needed \in Nat
                        /\ results[i].requests \in Nat
  BY ResultsType
<1>6. ServedInOrder'
  BY ServedStep DEF RankInv
<1> HIDE DEF N
<1> DEFINE Back(i, j) == \E k \in i + 1 .. j - 1 :
                            /\ results'[k].granted
                            /\ results'[k].own > results'[k].needed
<1>7. ASSUME NEW i \in 1 .. N + 1, NEW j \in 1 .. N + 1,
             Outranks(results'[i], results'[j]),
             results'[i].needed <= results'[j].needed,
             results'[j].granted, ~ results'[i].granted
      PROVE  \/ results'[j].tokens > results'[i].tokens
             \/ results'[j].requests > results'[i].requests
             \/ Back(i, j)
  <2>1. CASE i \in 1 .. N /\ j \in 1 .. N
    <3>1. results'[i] = results[i] /\ results'[j] = results[j]
      BY <1>3, <2>1
    <3>2. Inverted(results[i], results[j])
      BY <1>7, <3>1 DEF Inverted
    <3>3. SeenToRefill(results[i], results[j]) \/ GaveBack(i, j)
      BY <2>1, <3>2 DEF RankInv, NoPriorityInversion, N
    <3>4. GaveBack(i, j) => Back(i, j)
      <4>1. \A k \in i + 1 .. j - 1 : results'[k] = results[k]
        BY <1>3, <2>1
      <4> QED BY <4>1 DEF GaveBack
    <3> QED BY <3>1, <3>3, <3>4 DEF SeenToRefill
  <2>2. CASE i \in 1 .. N /\ j = N + 1
    <3>1. results'[i] = results[i] /\ results'[j] = r
      BY <1>3, <2>2
    <3>2. r.requests >= 1 /\ n <= r.tokens - reserved
      BY <1>2, <1>7, <3>1 DEF RoundDecision
    <3>3. results[i].needed <= n
      BY <1>4, <1>7, <3>1
    <3>4. /\ results[i].tokens \in Nat /\ results[i].needed \in Nat
          /\ results[i].requests \in Nat
      BY <1>5, <2>2
    <3>5. \/ results[i].requests < 1
          \/ results[i].tokens - reserved < results[i].needed
          \/ GaveBack(i, N + 1)
      BY <1>7, <2>2, <3>1 DEF RankInv, RefusedStill, N
    <3>6. CASE results[i].requests < 1
      BY <1>4, <3>1, <3>2, <3>4, <3>6
    <3>7. CASE results[i].tokens - reserved < results[i].needed
      <4> HIDE DEF reserved
      <4>1. r.tokens > results[i].tokens
        BY <1>4, <3>2, <3>3, <3>4, <3>7
      <4> QED BY <3>1, <4>1
    <3>8. CASE GaveBack(i, N + 1)
      <4>1. \A k \in i + 1 .. j - 1 : results'[k] = results[k]
        BY <1>3, <2>2
      <4>2. Back(i, j)
        BY <2>2, <3>8, <4>1 DEF GaveBack
      <4> QED BY <4>2
    <3> QED BY <3>5, <3>6, <3>7, <3>8
  <2>3. CASE i = N + 1
    <3>1. j # i
      BY <1>7
    <3>2. j < i
      BY <1>3, <2>3, <3>1
    <3>3. ~ Outranks(results'[i], results'[j])
      <4>1. Len(results') = N + 1
        BY <1>3
      <4> QED BY <1>1, <1>6, <3>2, <4>1 DEF ServedInOrder, Outranks
    <3> QED BY <1>7, <3>3
  <2> QED BY <1>3, <2>1, <2>2, <2>3
<1>8. ASSUME NEW i \in 1 .. Len(results'), NEW j \in 1 .. Len(results'),
             Inverted(results[i], results[j])'
      PROVE  SeenToRefill(results[i], results[j])' \/ GaveBack(i, j)'
  <2>1. Outranks(results'[i], results'[j])
    BY <1>1, <1>8 DEF Inverted, Outranks
  <2>2. /\ results'[i].needed <= results'[j].needed
        /\ results'[j].granted /\ ~ results'[i].granted
    BY <1>8 DEF Inverted
  <2>3. i \in 1 .. N + 1 /\ j \in 1 .. N + 1
    BY <1>3
  <2>4. \/ results'[j].tokens > results'[i].tokens
        \/ results'[j].requests > results'[i].requests
        \/ Back(i, j)
    BY <1>7, <2>1, <2>2, <2>3
  <2> QED BY <2>4 DEF SeenToRefill, GaveBack
<1> QED BY <1>8 DEF NoPriorityInversion

\* Between two decisions nothing of the round moves.
LEMMA RankStep ==
  ASSUME TypeOK, TypeOK', RankInv, [Next]_vars
  PROVE  RankInv'
<1> USE DEF coordinator, round, provider
<1>1. CASE arbitrate_next
  BY <1>1, ServedStep, RefusedStep, PriorityStep DEF RankInv
<1>2. CASE UNCHANGED <<queue, results, priority, reservations>>
  <2>1. reserved' = reserved
    BY <1>2 DEF reserved
  <2>2. ServedInOrder'
    BY <1>2 DEF RankInv, ServedInOrder, Outranks
  <2>3. RefusedStill'
    BY <1>2, <2>1 DEF RankInv, RefusedStill, GaveBack
  <2>4. NoPriorityInversion'
    BY <1>2 DEF RankInv, NoPriorityInversion, Inverted, Outranks,
                SeenToRefill, GaveBack
  <2> QED BY <2>2, <2>3, <2>4 DEF RankInv
<1>3. CASE Len(results') = 0 /\ Len(queue') = 0
  BY <1>3 DEF RankInv, ServedInOrder, RefusedStill, NoPriorityInversion
<1>4. ASSUME NEW S \in SUBSET Agents, NEW needs \in [S -> Needs],
             arbitrate(S, needs)
      PROVE  RankInv'
  <2>1. Len(results') = 0
    BY <1>4 DEF arbitrate, Idle
  <2>2. \A i, j \in 1 .. Len(queue') :
            i < j => ~ Outranks(queue[j], queue[i])'
    BY <1>4, SortedRanks
  <2>3. ServedInOrder'
    BY <2>1, <2>2 DEF ServedInOrder
  <2>4. RefusedStill' /\ NoPriorityInversion'
    BY <2>1 DEF RefusedStill, NoPriorityInversion
  <2> QED BY <2>3, <2>4 DEF RankInv
<1>5. ASSUME NEW a \in Agents, NEW p \in Priorities, register(a, p)
      PROVE  Len(results') = 0 /\ Len(queue') = 0
  BY <1>5 DEF register, Idle
<1>6. ASSUME NEW a \in Agents, NEW n \in Needs, request(a, n)
      PROVE  Len(results') = 0 /\ Len(queue') = 0
  BY <1>6 DEF request, Idle
<1>7. ASSUME NEW a \in Agents, complete(a)
      PROVE  Len(results') = 0 /\ Len(queue') = 0
  BY <1>7 DEF complete, Idle
<1>8. ASSUME arbitrate_return
      PROVE  Len(results') = 0 /\ Len(queue') = 0
  BY <1>8 DEF arbitrate_return
<1>9. ASSUME NEW a \in Agents, Serve(a) \/ Fail(a) \/ Deliver(a)
      PROVE  UNCHANGED <<queue, results, priority, reservations>>
  BY <1>9 DEF Serve, Fail, Deliver
<1>10. ASSUME Refill \/ Tick \/ UNCHANGED vars
       PROVE  UNCHANGED <<queue, results, priority, reservations>>
  BY <1>10 DEF Refill, Tick, vars
<1> QED BY <1>1, <1>2, <1>3, <1>4, <1>5, <1>6, <1>7, <1>8, <1>9, <1>10
        DEF Next

-----------------------------------------------------------------------------
(* The theorems.                                                           *)

\* The parts of the invariant that need no order of delivery.
OrderInv == TypeOK /\ RoundIdle /\ GrantsHold /\ AnswersOrdered

\* They hold always.
LEMMA OrderInvariant == Spec => []OrderInv
<1>1. Init => OrderInv
  <2> SUFFICES ASSUME Init
               PROVE  OrderInv
    OBVIOUS
  <2>1. TypeOK
    BY InitType
  <2>2. Len(queue) = 0
    BY DEF Init
  <2>3. Undelivered = {} /\ Outstanding = {}
    BY DEF Init, Undelivered, Outstanding
  <2> QED BY <2>1, <2>2, <2>3
          DEF OrderInv, RoundIdle, GrantsHold, AnswersOrdered
<1>2. OrderInv /\ [Next]_vars => OrderInv'
  BY TypeStep, RoundStep, HoldStep, AnswersStep DEF OrderInv
<1> QED BY <1>1, <1>2, PTL DEF Spec

\* The coordinator's dictionaries keep their types, whatever order the
\* responses are absorbed in.
THEOREM TypeCorrect == Spec => []TypeOK
BY OrderInvariant, PTL DEF OrderInv

\* The inductive invariant, when responses are absorbed in order.
THEOREM PoolInvariant ==
  ASSUME InOrder
  PROVE  Spec => []PoolInv
<1>1. Init => PoolInv
  <2> SUFFICES ASSUME Init
               PROVE  PoolInv
    OBVIOUS
  <2>1. TypeOK
    BY InitType
  <2>2. Len(queue) = 0
    BY DEF Init
  <2>3. Undelivered = {} /\ Outstanding = {}
    BY DEF Init, Undelivered, Outstanding
  <2>4. reading = window /\ window.tokens \in Int
    BY <2>1 DEF Init, TypeOK, Windows
  <2>5. ReadingBounded
    BY <2>3, <2>4, TotalEmpty DEF ReadingBounded
  <2> QED BY <2>1, <2>2, <2>3, <2>5
          DEF PoolInv, RoundIdle, GrantsHold, AnswersOrdered, HeadersBounded
<1>2. PoolInv /\ [Next]_vars => PoolInv'
  BY TypeStep, RoundStep, HoldStep, AnswersStep, BoundsStep DEF PoolInv
<1> QED BY <1>1, <1>2, PTL DEF Spec

\* The holds of the calls not charged yet and those of the answers on their
\* way are parts of what all agents but an idle one hold.
LEMMA HoldsApart ==
  ASSUME TypeOK, NEW S \in SUBSET Agents,
         Outstanding \subseteq S, Undelivered \subseteq S
  PROVE  /\ Total(reservations, Outstanding) \in Nat
         /\ Total(reservations, Undelivered) \in Nat
         /\ Total(reservations, S) \in Nat
         /\ Total(reservations, Outstanding) + Total(reservations, Undelivered)
              <= Total(reservations, S)
<1>1. reservations \in [Agents -> Nat] /\ IsFiniteSet(S)
  BY ReservedNat, FS_Subset
<1>2. IsFiniteSet(Outstanding) /\ IsFiniteSet(Undelivered)
  BY <1>1, FS_Subset
<1>3. Outstanding \cap Undelivered = {}
  BY DEF Outstanding, Undelivered
<1>4. \A b \in S : reservations[b] \in Nat
  BY <1>1
<1>5. \A b \in Outstanding \cup Undelivered : reservations[b] \in Nat
  BY <1>4
<1>6. Total(reservations, Outstanding \cup Undelivered)
        = Total(reservations, Outstanding) + Total(reservations, Undelivered)
  BY <1>2, <1>3, <1>5, TotalDisjoint
<1>7. Total(reservations, Outstanding \cup Undelivered)
        <= Total(reservations, S)
  BY <1>1, <1>4, TotalMonotone
<1>8. /\ Total(reservations, Outstanding) \in Nat
      /\ Total(reservations, Undelivered) \in Nat
      /\ Total(reservations, S) \in Nat
  BY <1>1, <1>2, <1>4, <1>5, TotalNat
<1> QED BY <1>6, <1>7, <1>8

\* What the coordinator believes free never exceeds the window less the calls
\* still to be charged: request() and arbitrate() decide against real tokens.
THEOREM ReadingSafe ==
  ASSUME InOrder
  PROVE  Spec => []ReadingIsSafe
<1>1. PoolInv => ReadingIsSafe
  <2> SUFFICES ASSUME PoolInv
               PROVE  ReadingIsSafe
    OBVIOUS
  <2> DEFINE charged == Total(reservations, Undelivered)
             open == Total(reservations, Outstanding)
             all == Total(reservations, Agents)
  <2>1. Outstanding \subseteq Agents /\ Undelivered \subseteq Agents
    BY DEF Outstanding, Undelivered
  <2>2. /\ charged \in Nat /\ open \in Nat /\ all \in Nat
        /\ open + charged <= all
    BY <2>1, HoldsApart DEF PoolInv
  <2>3. reading.tokens <= window.tokens + charged
    BY DEF PoolInv, ReadingBounded
  <2>4. reading.tokens \in Int /\ window.tokens \in Int
    BY DEF PoolInv, TypeOK, Windows
  <2> HIDE DEF charged, open, all
  <2>5. reading.tokens - all <= window.tokens - open
    BY <2>2, <2>3, <2>4
  <2> QED BY <2>5 DEF ReadingIsSafe, reserved, all, open
<1> QED BY <1>1, PoolInvariant, PTL

\* The step that tells an agent to go.
LEMMA GrantIsClaim ==
  ASSUME InOrder, PoolInv, [Next]_vars,
         NEW a \in Agents, call[a] # "granted", call'[a] = "granted"
  PROVE  /\ \A b \in Agents \ {a} : /\ call'[b] = call[b]
                                    /\ reservations'[b] = reservations[b]
         /\ reservations'[a] \in Nat \ {0}
         /\ window'.tokens \in 0 .. window.tokens
         /\ Total(reservations', Outstanding') <= window'.tokens
<1> USE DEF coordinator, round, provider
<1> DEFINE Decided(n, t, held) ==
             /\ call[a] = "idle"
             /\ Grant(a, n) \/ Refuse(a)
             /\ window' = t.window /\ reading' = t.reading
             /\ Verdict(t.reading, held, n) = "continue"
             /\ held >= reserved - reservations[a]
<1>1. \E n \in Needs, t \in Telemetry, held \in Nat : Decided(n, t, held)
  <2>1. ASSUME NEW b \in Agents, NEW n \in Needs, request(b, n)
        PROVE  \E m \in Needs, t \in Telemetry, held \in Nat : Decided(m, t, held)
    <3>1. PICK t \in Telemetry :
            /\ window' = t.window /\ reading' = t.reading
            /\ IF Verdict(t.reading, reserved - reservations[b], n)
                    = "continue"
                 THEN Grant(b, n) ELSE Refuse(b)
      BY <2>1 DEF request
    <3>2. a = b
      BY <2>1, <3>1, DecisionLocal DEF request, PoolInv
    <3>3. /\ Grant(a, n) \/ Refuse(a)
          /\ Refuse(a) => call' = call
      BY <3>1, <3>2 DEF Refuse
    <3>4. Verdict(t.reading, reserved - reservations[a], n) = "continue"
      BY <3>1, <3>2, <3>3
    <3>5. reserved - reservations[a] \in Nat
      BY ReservedNat DEF PoolInv
    <3>6. call[a] = "idle"
      BY <2>1, <3>2 DEF request
    <3> DEFINE held == reserved - reservations[a]
    <3>7. held >= reserved - reservations[a]
      BY <3>5
    <3> HIDE DEF held
    <3>8. held \in Nat /\ Verdict(t.reading, held, n) = "continue"
      BY <3>4, <3>5 DEF held
    <3> QED BY <3>1, <3>3, <3>6, <3>7, <3>8
  <2>2. ASSUME arbitrate_next
        PROVE  \E m \in Needs, t \in Telemetry, held \in Nat : Decided(m, t, held)
    <3>1. PICK b \in Agents, n \in Needs :
            /\ call[b] = "idle"
            /\ Grant(b, n) \/ Refuse(b)
            /\ \E t \in Telemetry :
                 /\ window' = t.window /\ reading' = t.reading
                 /\ call'[b] = "granted" =>
                      Verdict(t.reading, reserved, n) = "continue"
      BY <2>2, NextInRound DEF PoolInv
    <3>2. a = b
      BY <3>1, DecisionLocal DEF PoolInv
    <3>3. /\ reserved \in Nat /\ reservations[a] \in Nat
          /\ reserved >= reserved - reservations[a]
      BY ReservedNat DEF PoolInv
    <3> HIDE DEF reserved
    <3> QED BY <3>1, <3>2, <3>3
  <2>3. ASSUME NEW b \in Agents,
               complete(b) \/ Serve(b) \/ Fail(b) \/ Deliver(b)
        PROVE  FALSE
    BY <2>3 DEF complete, Serve, Fail, Deliver, PoolInv, TypeOK
  <2>4. ASSUME \/ \E b \in Agents, p \in Priorities : register(b, p)
               \/ \E S \in SUBSET Agents :
                    \E needs \in [S -> Needs] : arbitrate(S, needs)
               \/ arbitrate_return \/ Refill \/ Tick \/ UNCHANGED vars
        PROVE  FALSE
    BY <2>4 DEF register, arbitrate, arbitrate_return, Refill, Tick, vars
  <2> QED BY <2>1, <2>2, <2>3, <2>4 DEF Next
<1>2. PICK n \in Needs, t \in Telemetry, held \in Nat : Decided(n, t, held)
  BY <1>1
<1>3. PoolInv'
  BY TypeStep, RoundStep, HoldStep, AnswersStep, BoundsStep DEF PoolInv
<1>4. /\ \A b \in Agents \ {a} : /\ call'[b] = call[b]
                                 /\ reservations'[b] = reservations[b]
      /\ reservations'[a] = n
      /\ Undelivered' = Undelivered /\ a \notin Undelivered
  BY <1>2, DecisionLocal DEF PoolInv
<1>5. /\ t.window \in Windows /\ t.reading \in Windows
      /\ t.window.tokens <= window.tokens
      /\ window.tokens \in Int /\ t.window.tokens \in Nat
      /\ t.reading.tokens \in Nat
  <2>1. TypeOK
    BY DEF PoolInv
  <2>2. /\ t.window \in Windows /\ t.reading \in Windows
        /\ t.window.tokens <= window.tokens
    BY <2>1, TelemetryType
  <2>3. window \in Windows
    BY <2>1 DEF TypeOK
  <2> QED BY <2>2, <2>3 DEF Windows
<1>6. n <= t.reading.tokens - held
  BY <1>2, <1>5, VerdictFits
<1>7. /\ Outstanding' = Outstanding \cup {a} /\ a \notin Outstanding
      /\ Outstanding \subseteq Agents
  BY <1>4 DEF Outstanding
<1>8. reservations \in [Agents -> Nat] /\ IsFiniteSet(Outstanding)
  BY <1>7, ReservedNat, FS_Subset DEF PoolInv
<1> DEFINE others == Total(reservations, Agents \ {a})
           open == Total(reservations, Outstanding)
           charged == Total(reservations, Undelivered)
<1>9. /\ open \in Nat /\ charged \in Nat /\ others \in Nat
      /\ open + charged <= others
  <2>1. Outstanding \subseteq Agents \ {a} /\ Undelivered \subseteq Agents \ {a}
    BY <1>4, <1>7 DEF Undelivered
  <2> QED BY <2>1, HoldsApart DEF PoolInv
<1>10. held >= others
  <2>1. reserved = others + reservations[a] /\ reservations[a] \in Nat
    BY <1>8, TotalSplit DEF reserved
  <2>2. held >= reserved - reservations[a]
    BY <1>2
  <2> HIDE DEF reserved, others
  <2> QED BY <1>9, <2>1, <2>2
<1>11. reading'.tokens <= window'.tokens + charged
  <2>1. reading'.tokens <= window'.tokens + Total(reservations', Undelivered')
    BY <1>3 DEF PoolInv, ReadingBounded
  <2>2. \A b \in Undelivered : reservations'[b] = reservations[b]
    BY <1>4 DEF Undelivered
  <2>3. Total(reservations', Undelivered') = charged
    BY <1>4, <2>2, TotalSame
  <2> QED BY <2>1, <2>3
<1>12. Total(reservations', Outstanding') = open + n
  <2>1. /\ IsFiniteSet(Outstanding') /\ a \in Outstanding'
        /\ Outstanding' \ {a} = Outstanding
    BY <1>7, <1>8, FS_AddElement
  <2>2. \A b \in Outstanding' : reservations'[b] \in Nat
    BY <1>4, <1>7, <1>8
  <2>3. Total(reservations', Outstanding')
          = Total(reservations', Outstanding) + n
    BY <1>4, <2>1, <2>2, TotalSplit
  <2>4. \A b \in Outstanding : reservations'[b] = reservations[b]
    BY <1>4, <1>7
  <2>5. Total(reservations', Outstanding) = open
    BY <2>4, TotalSame
  <2> QED BY <2>3, <2>5
<1>13. open + n <= window'.tokens
  <2> HIDE DEF open, charged, others
  <2>1. reading'.tokens = t.reading.tokens /\ window'.tokens = t.window.tokens
    BY <1>2
  <2> QED BY <1>5, <1>6, <1>9, <1>10, <1>11, <2>1
<1>14. window'.tokens \in 0 .. window.tokens
  <2>1. window'.tokens = t.window.tokens
    BY <1>2
  <2> QED BY <1>5, <2>1
<1> QED BY <1>4, <1>12, <1>13, <1>14

\* No two agents are told `go' into a window that only fits one.
THEOREM GrantsFit ==
  ASSUME InOrder
  PROVE  Spec => GrantFits
<1>1. PoolInv /\ [Next]_vars =>
        [\A a \in Agents : call[a] # "granted" /\ call'[a] = "granted" =>
            Total(reservations', Outstanding') <= window'.tokens]_vars
  BY GrantIsClaim
<1> QED BY <1>1, PoolInvariant, PTL DEF Spec, GrantFits

\* In one arbitrate(), for any number of agents and in whatever order responses
\* are absorbed, nobody is refused what an agent it outranks is granted, unless
\* the window was seen to refill or a grant in between gave tokens back.
THEOREM NobodyPassedOver == Spec => []NoPriorityInversion
<1>1. Init => RankInv
  <2> SUFFICES ASSUME Init
               PROVE  RankInv
    OBVIOUS
  <2>1. Len(results) = 0 /\ Len(queue) = 0
    BY DEF Init
  <2> QED BY <2>1
          DEF RankInv, ServedInOrder, RefusedStill, NoPriorityInversion
<1>2. TypeOK /\ TypeOK' /\ RankInv /\ [Next]_vars => RankInv'
  BY RankStep
<1>3. RankInv => NoPriorityInversion
  BY DEF RankInv
<1> QED BY <1>1, <1>2, <1>3, TypeCorrect, PTL DEF Spec

-----------------------------------------------------------------------------
(***************************************************************************)
(* The coordinator implements the shared window: telling an agent to go is *)
(* a claim the window covers, the provider's answer settles the claim, and *)
(* everything else leaves the claims alone.                                *)
(***************************************************************************)

\* The claims of the refinement mapping: the tokens of the granted calls.
Claims == [a \in Agents |-> IF call[a] = "granted" THEN reservations[a] ELSE 0]

\* The sum of the claims is the sum of the outstanding holds.
LEMMA ClaimsTotal ==
  ASSUME NEW holds \in [Agents -> Nat], NEW open \in SUBSET Agents,
         NEW claims, claims = [a \in Agents |-> IF a \in open THEN holds[a]
                                                            ELSE 0]
  PROVE  Total(claims, Agents) = Total(holds, open)
<1> DEFINE rest == Agents \ open
<1>1. open \cap rest = {} /\ open \cup rest = Agents
  OBVIOUS
<1>2. IsFiniteSet(open) /\ IsFiniteSet(rest)
  BY <1>1, FS_Subset
<1>3. \A a \in open \cup rest : claims[a] \in Nat
  OBVIOUS
<1>4. Total(claims, open \cup rest) = Total(claims, open) + Total(claims, rest)
  BY <1>1, <1>2, <1>3, TotalDisjoint
<1>5. Total(claims, open) = Total(holds, open)
  BY TotalSame
<1>6. Total(claims, rest) = 0
  BY TotalZero
<1>7. Total(claims, open) \in Nat
  BY <1>2, <1>3, TotalNat
<1>8. Total(claims, Agents) = Total(claims, open) + 0
  BY <1>1, <1>4, <1>6
<1> QED BY <1>5, <1>7, <1>8

\* The abstract sum is the same sum.
LEMMA SameTotal ==
  ASSUME NEW f, NEW S
  PROVE  SharedPool!Total(f, S) = Total(f, S)
BY DEF SharedPool!Total, SharedPool!TokensOf, Total, TokensOf,
       SharedPool!Cardinality, Cardinality, SharedPool!IsFiniteSet, IsFiniteSet

\* A step after which the claims are the same, or that grants or settles one.
LEMMA StepRefines ==
  ASSUME InOrder, PoolInv, [Next]_vars
  PROVE  [SharedPool!Next]_(SharedPool!vars)
<1> USE DEF coordinator, round, provider
<1>1. /\ PoolInv' /\ TypeOK /\ TypeOK'
      /\ reservations \in [Agents -> Nat]
  BY TypeStep, RoundStep, HoldStep, AnswersStep, BoundsStep, ReservedNat
     DEF PoolInv
<1>2. /\ window.tokens \in 0 .. Limit /\ window'.tokens \in 0 .. Limit
  BY <1>1 DEF TypeOK, Windows
<1>3. SUFFICES SharedPool!Next
  OBVIOUS
<1>4. ASSUME NEW a \in Agents, call[a] # "granted", call'[a] = "granted"
      PROVE  SharedPool!Claim(a)
  <2>1. /\ \A b \in Agents \ {a} : /\ call'[b] = call[b]
                                   /\ reservations'[b] = reservations[b]
        /\ reservations'[a] \in Nat \ {0}
        /\ window'.tokens \in 0 .. window.tokens
        /\ Total(reservations', Outstanding') <= window'.tokens
    BY <1>4, GrantIsClaim
  <2> DEFINE n == reservations'[a]
  <2>2. Claims[a] = 0
    BY <1>4 DEF Claims
  <2>3. Claims' = [Claims EXCEPT ![a] = n]
    BY <1>4, <2>1 DEF Claims
  <2>4. Total(Claims', Agents) = Total(reservations', Outstanding')
    <3>1. /\ reservations' \in [Agents -> Nat]
          /\ Outstanding' \in SUBSET Agents
      <4>1. reservations' \in [Agents -> Needs \cup {0}]
        BY <1>1 DEF TypeOK
      <4>2. Needs \cup {0} \subseteq Nat
        OBVIOUS
      <4> QED BY <4>1, <4>2 DEF Outstanding
    <3>2. Claims' = [b \in Agents |-> IF b \in Outstanding'
                                       THEN reservations'[b] ELSE 0]
      BY DEF Claims, Outstanding
    <3> QED BY <3>1, <3>2, ClaimsTotal
  <2>5. n <= Total(reservations', Outstanding')
    <3>1. a \in Outstanding' /\ Outstanding' \in SUBSET Agents
      BY <1>4 DEF Outstanding
    <3>2. IsFiniteSet(Outstanding')
      BY <3>1, FS_Subset
    <3>3. \A b \in Outstanding' : reservations'[b] \in Nat
      BY <1>1, <2>1, <3>1
    <3>4. Total(reservations', {a}) <= Total(reservations', Outstanding')
      BY <3>1, <3>2, <3>3, TotalMonotone
    <3>5. Total(reservations', {a}) = n
      BY <2>1, TotalSingleton
    <3> QED BY <3>4, <3>5
  <2>6. n \in 1 .. Limit
    <3>1. Total(reservations', Outstanding') \in Int
      <4>1. Outstanding' \in SUBSET Agents
        BY DEF Outstanding
      <4>2. IsFiniteSet(Outstanding')
        BY <4>1, FS_Subset
      <4>3. \A b \in Outstanding' : reservations'[b] \in Nat
        BY <1>1, <2>1, <4>1
      <4> QED BY <4>2, <4>3, TotalNat
    <3> QED BY <1>2, <2>1, <2>5, <3>1
  <2>7. SharedPool!Total(Claims', Agents) <= window'.tokens
    BY <2>1, <2>4, SameTotal
  <2> QED BY <2>1, <2>2, <2>3, <2>6, <2>7 DEF SharedPool!Claim, Claims
<1>5. ASSUME NEW a \in Agents, Serve(a) \/ Fail(a)
      PROVE  SharedPool!Charge(a)
  <2>1. /\ call[a] = "granted" /\ call'[a] # "granted"
        /\ reservations' = reservations
        /\ \A b \in Agents \ {a} : call'[b] = call[b]
    BY <1>1, <1>5 DEF Serve, Fail, TypeOK
  <2>2. reservations[a] > 0 /\ reservations[a] \in Nat
    BY <1>1, <2>1 DEF PoolInv, GrantsHold, Outstanding
  <2>3. \E used \in 0 .. reservations[a] :
            window'.tokens = window.tokens - used
    <3>1. CASE Serve(a)
      <4>1. PICK used \in 0 .. reservations[a] :
              window' = [tokens |-> window.tokens - used,
                         requests |-> window.requests - 1]
        BY <3>1 DEF Serve
      <4> QED BY <4>1
    <3>2. CASE Fail(a)
      <4>1. window' = window
        BY <3>2 DEF Fail
      <4>2. 0 \in 0 .. reservations[a] /\ window.tokens = window.tokens - 0
        BY <1>2, <2>2
      <4> QED BY <4>1, <4>2
    <3> QED BY <1>5, <3>1, <3>2
  <2>4. /\ window'.tokens \in 0 .. window.tokens
        /\ window.tokens - window'.tokens <= reservations[a]
    BY <1>2, <2>2, <2>3
  <2>5. Claims[a] = reservations[a] /\ Claims' = [Claims EXCEPT ![a] = 0]
    BY <2>1 DEF Claims
  <2> QED BY <2>2, <2>4, <2>5 DEF SharedPool!Charge, Claims
<1>6. ASSUME \A a \in Agents : call'[a] = "granted" => call[a] = "granted",
             \A a \in Agents : ~ Serve(a) /\ ~ Fail(a)
      PROVE  SharedPool!Change
  <2>1. \A a \in Agents : call[a] = "granted" =>
            call'[a] = "granted" /\ reservations'[a] = reservations[a]
    <3> DEFINE Kept == \A a \in Agents : call[a] = "granted" =>
                 call'[a] = "granted" /\ reservations'[a] = reservations[a]
    <3>1. ASSUME NEW b \in Agents, NEW n \in Needs, request(b, n)
          PROVE  Kept
      <4>1. /\ call[b] = "idle"
            /\ Grant(b, n) \/ Refuse(b)
        BY <3>1 DEF request
      <4>2. \A a \in Agents \ {b} : /\ call'[a] = call[a]
                                    /\ reservations'[a] = reservations[a]
        BY <1>1, <4>1, DecisionLocal
      <4> QED BY <4>1, <4>2
    <3>2. ASSUME arbitrate_next
          PROVE  Kept
      <4>1. PICK b \in Agents, n \in Needs :
                /\ call[b] = "idle"
                /\ Grant(b, n) \/ Refuse(b)
        BY <1>1, <3>2, NextInRound DEF PoolInv
      <4>2. \A a \in Agents \ {b} : /\ call'[a] = call[a]
                                    /\ reservations'[a] = reservations[a]
        BY <1>1, <4>1, DecisionLocal
      <4> QED BY <4>1, <4>2
    <3>3. ASSUME NEW b \in Agents, complete(b) \/ Deliver(b)
          PROVE  Kept
      BY <1>1, <3>3 DEF complete, Deliver, Undelivered, TypeOK
    <3>4. ASSUME \/ \E b \in Agents, p \in Priorities : register(b, p)
                 \/ \E S \in SUBSET Agents :
                      \E needs \in [S -> Needs] : arbitrate(S, needs)
                 \/ arbitrate_return \/ Refill \/ Tick \/ UNCHANGED vars
          PROVE  Kept
      BY <3>4 DEF register, arbitrate, arbitrate_return, Refill, Tick, vars
    <3>5. Kept
      BY <1>6, <3>1, <3>2, <3>3, <3>4 DEF Next
    <3> QED BY <3>5
  <2>2. Claims' = Claims
    BY <1>6, <2>1 DEF Claims
  <2> QED BY <1>2, <2>2 DEF SharedPool!Change, Claims
<1> QED BY <1>4, <1>5, <1>6 DEF SharedPool!Next

\* Every behaviour of the coordinator is one of the shared window.
THEOREM Implementation ==
  ASSUME InOrder
  PROVE  Spec => ImplementsSharedWindow
<1>1. Init => SharedPool!Init
  <2> SUFFICES ASSUME Init
               PROVE  SharedPool!Init
    OBVIOUS
  <2>1. window.tokens \in 0 .. Limit
    BY DEF Init
  <2>2. Claims = [a \in Agents |-> 0]
    BY DEF Init, Claims
  <2> QED BY <2>1, <2>2 DEF SharedPool!Init, Claims
<1>2. PoolInv /\ [Next]_vars => [SharedPool!Next]_(SharedPool!vars)
  BY StepRefines
<1> QED BY <1>1, <1>2, PoolInvariant, PTL
        DEF Spec, ImplementsSharedWindow, SharedPool!Spec

=============================================================================
