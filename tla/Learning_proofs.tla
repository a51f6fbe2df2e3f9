--------------------------- MODULE Learning_proofs ---------------------------
(***************************************************************************)
(* What is learnt.  What the estimator corrects itself by is of one        *)
(* history, for any number of sessions, overlapping or not, any lengths of *)
(* its windows and any errors; and a checkpoint carries what its session's *)
(* steps have taught, where sessions follow one another.  The adapter's    *)
(* verdict on the refill regime is right after a window of honest gaps,    *)
(* for any window, bucket, step and pause.                                 *)
(***************************************************************************)
EXTENDS Learning, Planner, SequenceTheorems, FiniteSetTheorems, TLAPS

-----------------------------------------------------------------------------
(* The refill regime.                                                      *)

USE NoneAssumption, ClockAssumption, RefillAssumption, GrainAssumption,
    PlannerAssumption

\* A ping, and what rounding to whole tokens hides, cost less than what any gap
\* that counts as one refills, by a tenth.
PingsSmall == 10 * ping_tokens + 11 * Grain <= 9 * Rate * min_gap_s

\* A reading as the decision needs it: numbers where there are numbers.
Typed(b) ==
    /\ b.remaining_tokens \in Int
    /\ b.limit_tokens \in Int \cup {None}
    /\ b.reset_seconds \in Nat \cup {None}
    /\ b.reset_requests_seconds \in Nat \cup {None}

\* In a gap in which it neither filled up nor was reset, the bucket gains what
\* its kind gives it.
Gained(d) == IF kind = "continuous" THEN Rate * d ELSE 0

\* What the headers of a bucket with t tokens say of it.
Sample(point, t) ==
    /\ point.remaining = Whole(t)
    /\ kind = "continuous" =>
         /\ point.missing = Limit - Whole(t)
         /\ point.reset = CeilDiv(Limit - t, Rate)

SampleHolds ==
    _prev_ping # None =>
       /\ _prev_ping.remaining \in Int
       /\ _prev_ping.missing \in Int /\ _prev_ping.reset \in Int
       /\ ~whole =>
            /\ Sample(_prev_ping, tokens - Gained(since))
            /\ since > 0 /\ kind = "continuous" => tokens < Limit

\* The votes of the last honest gaps are right.
VotesHonest ==
    /\ _votes \in Seq({"continuous", "fixed"}) /\ Len(_votes) <= window
    /\ honest \in 0 .. Len(_votes)
    /\ \A i \in 1 .. Len(_votes) :
          i > Len(_votes) - honest => _votes[i] = kind

\* The inductive invariant.
PlannerInv ==
    /\ kind \in {"continuous", "fixed"} /\ per_step \in Nat
    /\ tokens \in Int /\ tokens <= Limit
    /\ boundary \in Int /\ (kind = "fixed" => boundary \in 1 .. Period)
    /\ _budget # None => Typed(_budget)
    /\ doing = "waiting" => _budget # None
    /\ age \in Nat /\ since \in Nat /\ whole \in BOOLEAN
    /\ pause \in Nat
    /\ SampleHolds /\ VotesHonest

-----------------------------------------------------------------------------
\* Rounded up, a quotient is no less than the quotient, and by less than one.
LEMMA CeilDivBounds ==
  ASSUME NEW x \in Int, NEW y \in Nat \ {0}
  PROVE  /\ CeilDiv(x, y) \in Int
         /\ CeilDiv(x, y) * y >= x /\ (CeilDiv(x, y) - 1) * y < x
<1> DEFINE q == (-x) \div y
<1>1. q \in Int /\ q * y <= -x /\ (q + 1) * y > -x
  OBVIOUS
<1> HIDE DEF q
<1>2. (-q) * y = -(q * y) /\ (-q - 1) * y = -((q + 1) * y)
  BY <1>1
<1>3. (-q) \in Int /\ (-q) * y >= x /\ (-q - 1) * y < x
  BY <1>1, <1>2
<1> QED BY <1>3 DEF CeilDiv, q

\* What is left of nothing negative is nothing negative.
LEMMA CeilDivNat ==
  ASSUME NEW x \in Nat, NEW y \in Nat \ {0}
  PROVE  CeilDiv(x, y) \in Nat
<1> DEFINE q == CeilDiv(x, y)
<1>1. q \in Int /\ q * y >= x
  BY CeilDivBounds
<1> HIDE DEF q
<1>2. q < 0 => q * y < 0
  BY <1>1
<1>3. q \in Nat
  <2>1. q * y \in Int
    BY <1>1
  <2> QED BY <1>1, <1>2, <2>1
<1> QED BY <1>3 DEF q

\* Whole tokens fall short by less than a token, and never rise for less.
LEMMA WholeBounds ==
  ASSUME NEW t \in Int
  PROVE  Whole(t) \in Int /\ Whole(t) <= t /\ t < Whole(t) + Grain
<1> DEFINE q == t \div Grain
<1>1. q \in Int /\ Grain * q <= t /\ t < Grain * (q + 1)
  OBVIOUS
<1> HIDE DEF q
<1>2. Grain * q \in Int /\ Grain * (q + 1) = Grain * q + Grain
  BY <1>1
<1>3. Whole(t) = Grain * q
  BY DEF Whole, q
<1> QED BY <1>1, <1>2, <1>3

LEMMA WholeRises ==
  ASSUME NEW t \in Int, NEW u \in Int, u <= t
  PROVE  Whole(u) <= Whole(t)
<1> DEFINE q == t \div Grain
           r == u \div Grain
<1>1. /\ q \in Int /\ Grain * q <= t /\ t < Grain * (q + 1)
      /\ r \in Int /\ Grain * r <= u /\ u < Grain * (r + 1)
  OBVIOUS
<1> HIDE DEF q, r
<1>2. r <= q
  <2>1. ASSUME r > q PROVE FALSE
    <3>1. Grain * r >= Grain * (q + 1)
      BY <1>1, <2>1
    <3>2. Grain * r \in Int /\ Grain * (q + 1) \in Int
      BY <1>1
    <3> QED BY <1>1, <3>1, <3>2
  <2> QED BY <1>1, <2>1
<1>3. Grain * r <= Grain * q
  BY <1>1, <1>2
<1> QED BY <1>3 DEF Whole, q, r

\* A gap in which a continuous bucket neither fills up nor is spent from votes
\* for continuous refill or not at all.
LEMMA ContinuousVote ==
  ASSUME PingsSmall, NEW point, NEW t0 \in Int, NEW dt \in Nat,
         dt > 0 => t0 + Rate * dt < Limit,
         point.missing = Limit - Whole(t0),
         point.reset = CeilDiv(Limit - t0, Rate)
  PROVE  Vote(dt, Whole((t0 + Rate * dt) - ping_tokens) - Whole(t0), point)
            \in {"continuous", None}
<1> DEFINE m == Limit - Whole(t0)
           c == CeilDiv(Limit - t0, Rate)
           rise == Whole((t0 + Rate * dt) - ping_tokens) - Whole(t0)
<1>1. /\ Rate \in Nat \ {0} /\ ping_tokens \in Nat /\ min_gap_s \in Nat \ {0}
      /\ Grain \in Nat \ {0} /\ Limit \in Nat
      /\ Rate * dt \in Nat /\ Rate * min_gap_s \in Nat
  OBVIOUS
<1>2. c \in Int /\ c * Rate >= Limit - t0 /\ c * Rate \in Int
  <2> DEFINE left == Limit - t0
  <2>1. left \in Int
    BY <1>1
  <2> HIDE DEF left
  <2>2. CeilDiv(left, Rate) \in Int /\ CeilDiv(left, Rate) * Rate >= left
    BY ONLY <1>1, <2>1, CeilDivBounds
  <2> QED BY <1>1, <2>2 DEF left
<1>3. Whole(t0) \in Int /\ Whole(t0) <= t0 /\ t0 < Whole(t0) + Grain
  BY WholeBounds
<1>4. /\ rise \in Int
      /\ rise > Rate * dt - ping_tokens - Grain
  <2> DEFINE u == (t0 + Rate * dt) - ping_tokens
  <2>1. u \in Int
    BY <1>1
  <2> HIDE DEF u
  <2>2. Whole(u) \in Int /\ u < Whole(u) + Grain
    BY <2>1, WholeBounds
  <2>3. u = (t0 + Rate * dt) - ping_tokens
    BY DEF u
  <2> QED BY <1>1, <1>3, <2>1, <2>2, <2>3
<1>5. m \in Int /\ m < c * Rate + Grain
  BY <1>1, <1>2, <1>3
<1> HIDE DEF m, c, rise
<1>6. ASSUME dt >= min_gap_s, dt * m > 0, c > 0
      PROVE  ~(10 * (rise * c) <= dt * m)
  <2>1. 10 * rise > Rate * dt + Grain
    <3>1. Rate * dt >= Rate * min_gap_s
      BY <1>1, <1>6
    <3>2. 9 * Rate * min_gap_s = 9 * (Rate * min_gap_s)
      BY <1>1
    <3>3. 10 * ping_tokens + 11 * Grain <= 9 * (Rate * dt)
      BY <1>1, <3>1, <3>2 DEF PingsSmall
    <3> QED BY <1>1, <1>4, <3>3
  <2>2. dt < c
    <3>1. dt > 0 /\ Rate * dt < c * Rate
      BY <1>1, <1>2, <1>6
    <3>2. c <= dt => c * Rate <= Rate * dt
      BY <1>1, <1>2
    <3> QED BY <1>1, <1>2, <3>1, <3>2
  <2>3. dt * m <= dt * (c * Rate + Grain)
    BY <1>1, <1>2, <1>5
  <2>4. dt * (c * Rate + Grain) = (Rate * dt) * c + Grain * dt
    BY <1>1, <1>2
  <2>5. Grain * dt < Grain * c
    BY <1>1, <1>2, <2>2
  <2>6. (10 * rise) * c > (Rate * dt + Grain) * c
    <3> DEFINE low == Rate * dt + Grain
    <3>1. low \in Int
      BY <1>1
    <3> HIDE DEF low
    <3>2. 10 * rise > low
      BY <2>1 DEF low
    <3>3. (10 * rise) * c > low * c
      BY <1>2, <1>4, <1>6, <3>1, <3>2
    <3> QED BY <3>3 DEF low
  <2>7. (Rate * dt + Grain) * c = (Rate * dt) * c + Grain * c
    BY <1>1, <1>2
  <2>8. (10 * rise) * c = 10 * (rise * c)
    BY <1>2, <1>4
  <2>9. /\ dt * m \in Int /\ (Rate * dt) * c \in Int /\ Grain * dt \in Int
        /\ Grain * c \in Int /\ 10 * (rise * c) \in Int
    BY <1>1, <1>2, <1>4, <1>5
  <2> QED BY ONLY <2>3, <2>4, <2>5, <2>6, <2>7, <2>8, <2>9
<1>7. rise * c \in Int /\ dt * m \in Int
  BY <1>2, <1>4, <1>5
<1>8. point.missing = m /\ point.reset = c
  BY DEF m, c
<1>9. Vote(dt, rise, point) \in {"continuous", None}
  BY <1>2, <1>6, <1>7, <1>8 DEF Vote
<1> QED BY <1>9 DEF rise

\* A gap in which a fixed window is not reset votes for a fixed window or not
\* at all.
LEMMA FixedVote ==
  ASSUME NEW point, NEW dt \in Nat, NEW rise \in Int, rise <= 0,
         point.missing \in Int, point.reset \in Int
  PROVE  Vote(dt, rise, point) \in {"fixed", None}
<1> DEFINE seen == rise * point.reset
           implied == dt * point.missing
<1>1. seen \in Int /\ implied \in Int
  OBVIOUS
<1>2. point.reset > 0 => seen <= 0
  OBVIOUS
<1> HIDE DEF seen, implied
<1>3. point.reset > 0 /\ implied > 0 => ~(2 * seen >= implied) /\ 10 * seen <= implied
  BY <1>1, <1>2
<1> QED BY <1>1, <1>3 DEF Vote, seen, implied

\* A vote is remembered as the last one.
LEMMA Remembered ==
  ASSUME NEW votes \in Seq({"continuous", "fixed"}), Len(votes) <= window,
         NEW vote \in {"continuous", "fixed"}
  PROVE  LET new == Remember(votes, vote)
             gone == IF Len(votes) = window THEN 1 ELSE 0
         IN  /\ new \in Seq({"continuous", "fixed"})
             /\ Len(new) = Len(votes) + 1 - gone /\ Len(new) <= window
             /\ new[Len(new)] = vote
             /\ \A i \in 1 .. Len(new) - 1 : new[i] = votes[i + gone]
<1> DEFINE all == Append(votes, vote)
<1>1. /\ all \in Seq({"continuous", "fixed"}) /\ Len(all) = Len(votes) + 1
      /\ all[Len(votes) + 1] = vote
      /\ \A i \in 1 .. Len(votes) : all[i] = votes[i]
      /\ Len(votes) \in Nat
  OBVIOUS
<1> HIDE DEF all
<1>2. CASE Len(votes) = window
  <2>1. /\ Tail(all) \in Seq({"continuous", "fixed"}) /\ Len(Tail(all)) = Len(votes)
        /\ \A i \in 1 .. Len(votes) : Tail(all)[i] = all[i + 1]
    BY <1>1
  <2>2. Remember(votes, vote) = Tail(all)
    BY <1>1, <1>2 DEF Remember, all
  <2>3. Len(votes) \in 1 .. Len(votes)
    BY <1>1, <1>2
  <2> QED BY <1>1, <1>2, <2>1, <2>2, <2>3
<1>3. CASE Len(votes) < window
  <2>1. Remember(votes, vote) = all
    BY <1>1, <1>3 DEF Remember, all
  <2> QED BY <1>1, <1>3, <2>1
<1> QED BY <1>1, <1>2, <1>3

\* What the bucket holds and what is said of it, when d ticks have passed.
LEMMA Passed ==
  ASSUME PlannerInv, NEW t \in Int, t <= Limit, NEW d \in Int, Pass(t, d),
         kind' = kind
  PROVE  /\ tokens' \in Int /\ tokens' <= Limit
         /\ boundary' \in Int /\ (kind' = "fixed" => boundary' \in 1 .. Period)
<1>1. /\ kind \in {"continuous", "fixed"} /\ boundary \in Int
      /\ Limit \in Nat /\ Rate \in Nat /\ Period \in Nat \ {0}
  BY DEF PlannerInv
<1>2. tokens' \in Int /\ tokens' <= Limit
  <2>1. Rate * d \in Int
    BY <1>1
  <2> QED BY <1>1, <2>1 DEF Pass, After, Lesser
<1>3. boundary' \in Int /\ (kind' = "fixed" => boundary' \in 1 .. Period)
  <2>1. CASE kind = "fixed"
    <3>1. (boundary - d - 1) % Period \in 0 .. Period - 1
      BY <1>1
    <3> QED BY <1>1, <2>1, <3>1 DEF Pass, BoundaryAfter
  <2>2. CASE kind = "continuous"
    BY <1>1, <2>2 DEF Pass, BoundaryAfter
  <2> QED BY <1>1, <2>1, <2>2
<1> QED BY <1>2, <1>3

\* A reset is a number of ticks.
LEMMA ResetTyped ==
  ASSUME PlannerInv, NEW t \in Int, t <= Limit, NEW b \in Int,
         kind = "fixed" => b \in 1 .. Period
  PROVE  Reset(t, b) \in Nat
<1> DEFINE left == Limit - t
<1>1. left \in Nat
  OBVIOUS
<1> HIDE DEF left
<1>2. CeilDiv(left, Rate) \in Nat
  BY <1>1, CeilDivNat
<1> QED BY <1>2 DEF Reset, left

\* A response's headers are a reading, and a sample to start from.
LEMMA Absorbed ==
  ASSUME PlannerInv, NEW t \in Int, t <= Limit, NEW b \in Int, Absorb(t, b),
         kind = "fixed" => b \in 1 .. Period,
         tokens' = t, kind' = kind
  PROVE  /\ Typed(_budget') /\ age' = 0 /\ since' = 0 /\ whole' = FALSE
         /\ SampleHolds'
<1>1. /\ _budget' = Header(t, b) /\ age' = 0 /\ since' = 0 /\ whole' = FALSE
      /\ _prev_ping' = _sample_point(_budget')
  BY DEF Absorb
<1>2. Reset(t, b) \in Nat /\ Limit \in Int
  BY ResetTyped
<1>3. Whole(t) \in Int
  BY WholeBounds
<1>4. /\ _budget'.remaining_tokens = Whole(t) /\ _budget'.limit_tokens = Limit
      /\ _budget'.reset_seconds = Reset(t, b)
      /\ _budget'.reset_requests_seconds = None
  BY <1>1 DEF Header, TokenBudget
<1>5. Typed(_budget')
  BY <1>2, <1>3, <1>4 DEF Typed
<1>6. /\ _prev_ping'.remaining = Whole(t) /\ _prev_ping'.missing = Limit - Whole(t)
      /\ _prev_ping'.reset = Reset(t, b)
  BY <1>1, <1>2, <1>4 DEF _sample_point, Known
<1>7. _prev_ping'.missing \in Int /\ _prev_ping'.reset \in Int
  BY <1>2, <1>3, <1>6
<1>8. tokens' - Gained(since)' = t
  <2>1. Rate * 0 = 0
    OBVIOUS
  <2> QED BY <1>1, <2>1 DEF Gained
<1>9. Sample(_prev_ping, tokens - Gained(since))'
  <2>1. kind' = "continuous" => Reset(t, b) = CeilDiv(Limit - t, Rate)
    BY DEF Reset
  <2> QED BY <1>6, <1>8, <2>1 DEF Sample
<1> QED BY <1>1, <1>3, <1>5, <1>6, <1>7, <1>9 DEF SampleHolds

\* Time that passes between two samples.
LEMMA SampleAges ==
  ASSUME PlannerInv, NEW d \in Nat, Pass(tokens, d), kind' = kind,
         since' = since + d, _prev_ping' = _prev_ping,
         whole' = (whole \/ (d > 0 /\ After(tokens, d) = Limit))
  PROVE  SampleHolds'
<1>1. /\ kind \in {"continuous", "fixed"} /\ boundary \in Int
      /\ kind = "fixed" => boundary \in 1 .. Period
      /\ tokens \in Int /\ tokens <= Limit /\ since \in Nat
      /\ whole \in BOOLEAN
      /\ SampleHolds
  BY DEF PlannerInv
<1>2. Rate * d \in Nat /\ Rate * (since + d) = Rate * since + Rate * d
      /\ Rate * since \in Nat /\ Limit \in Nat /\ (d > 0 => Rate * d > 0)
  BY <1>1
<1>3. tokens' = After(tokens, d)
  BY DEF Pass
<1>4. ~whole' => /\ tokens' = tokens + Gained(d)
                 /\ d > 0 /\ kind = "continuous" => tokens' < Limit
  <2> SUFFICES ASSUME ~whole'
               PROVE  /\ tokens' = tokens + Gained(d)
                      /\ d > 0 /\ kind = "continuous" => tokens' < Limit
    OBVIOUS
  <2>1. d = 0 \/ After(tokens, d) # Limit
    <3>1. ~(d > 0 /\ After(tokens, d) = Limit)
      BY Zenon
    <3> QED BY <3>1
  <2>2. CASE kind = "continuous"
    <3>1. d = 0 => Rate * d = 0
      OBVIOUS
    <3>2. After(tokens, d) = Lesser(Limit, tokens + Rate * d)
      BY <2>2 DEF After
    <3>3. Gained(d) = Rate * d
      BY <2>2 DEF Gained
    <3> QED BY ONLY <1>1, <1>2, <1>3, <2>1, <3>1, <3>2, <3>3 DEF Lesser
  <2>3. CASE kind = "fixed"
    <3>1. After(tokens, d) = IF d >= boundary THEN Limit ELSE tokens
      BY <1>1, <2>3 DEF After
    <3>2. Gained(d) = 0
      BY <2>3 DEF Gained
    <3> QED BY <1>1, <1>3, <2>1, <2>3, <3>1, <3>2
  <2> QED BY <1>1, <2>2, <2>3
<1>5. Gained(since) + Gained(d) = Gained(since + d) /\ Gained(d) \in Int
      /\ Gained(since) \in Int
  BY <1>2 DEF Gained
<1>6. ASSUME _prev_ping # None, ~whole'
      PROVE  /\ Sample(_prev_ping, tokens' - Gained(since + d))
             /\ since + d > 0 /\ kind = "continuous" => tokens' < Limit
  <2>1. ~whole
    BY <1>6
  <2>2. /\ Sample(_prev_ping, tokens - Gained(since))
        /\ since > 0 /\ kind = "continuous" => tokens < Limit
    BY <1>1, <1>6, <2>1 DEF SampleHolds
  <2>3. tokens' - Gained(since + d) = tokens - Gained(since)
    BY <1>1, <1>4, <1>5, <1>6
  <2>4. d = 0 => tokens' = tokens
    <3>1. d = 0 => Gained(d) = 0
      BY <1>2 DEF Gained
    <3> QED BY <1>1, <1>4, <1>6, <3>1
  <2> QED BY <1>1, <1>4, <1>6, <2>2, <2>3, <2>4
<1>7. Gained(since)' = Gained(since + d)
  BY DEF Gained
<1>8. _prev_ping' # None /\ ~whole' =>
        /\ Sample(_prev_ping, tokens - Gained(since))'
        /\ since' > 0 /\ kind' = "continuous" => tokens' < Limit
  BY <1>6, <1>7 DEF Sample
<1> QED BY <1>1, <1>8 DEF SampleHolds

\* A sample taken keeps the votes of honest gaps right.
LEMMA SampledHonest ==
  ASSUME PlannerInv, PingsSmall, _prev_ping # None, Sampled, kind' = kind
  PROVE  VotesHonest'
<1> DEFINE rise == Whole(tokens - ping_tokens) - _prev_ping.remaining
           vote == Vote(since, rise, _prev_ping)
<1>1. /\ _votes' = feed(_votes, since, rise, _prev_ping)
      /\ honest' = IF ~Known(vote) THEN honest
                    ELSE IF whole THEN 0 ELSE Lesser(honest + 1, window)
  BY DEF Sampled, Known
<1>2. /\ _votes \in Seq({"continuous", "fixed"}) /\ Len(_votes) <= window
      /\ honest \in 0 .. Len(_votes) /\ Len(_votes) \in Nat
      /\ \A i \in 1 .. Len(_votes) : i > Len(_votes) - honest => _votes[i] = kind
  BY DEF PlannerInv, VotesHonest
<1>3. vote \in {"continuous", "fixed", None}
  <2>1. /\ _prev_ping.remaining \in Int /\ _prev_ping.missing \in Int
        /\ _prev_ping.reset \in Int /\ tokens \in Int /\ since \in Nat
    BY DEF PlannerInv, SampleHolds
  <2>2. rise \in Int
    <3>1. tokens - ping_tokens \in Int
      BY <2>1
    <3> QED BY <2>1, <3>1, WholeBounds
  <2> HIDE DEF rise
  <2>3. rise * _prev_ping.reset \in Int /\ since * _prev_ping.missing \in Int
    BY <2>1, <2>2
  <2> QED BY <2>1, <2>2, <2>3 DEF Vote
<1>4. CASE vote = None
  <2>1. _votes' = _votes /\ honest' = honest
    BY <1>1, <1>4 DEF feed, Known
  <2> QED BY <1>2, <2>1 DEF VotesHonest
<1>5. CASE vote # None
  <2>1. _votes' = Remember(_votes, vote)
    BY <1>1, <1>5 DEF feed, Known
  <2>2. ~whole => vote = kind
    <3> SUFFICES ASSUME ~whole PROVE vote = kind
      OBVIOUS
    <3> DEFINE t0 == tokens - Gained(since)
    <3>1. /\ Sample(_prev_ping, t0)
          /\ since > 0 /\ kind = "continuous" => tokens < Limit
          /\ _prev_ping.missing \in Int /\ _prev_ping.reset \in Int
          /\ tokens \in Int /\ since \in Nat /\ kind \in {"continuous", "fixed"}
      BY DEF PlannerInv, SampleHolds
    <3>2. CASE kind = "continuous"
      <4>1. Rate * since \in Nat /\ t0 = tokens - Rate * since
        BY <3>1, <3>2 DEF Gained
      <4>2. t0 \in Int /\ tokens = t0 + Rate * since
        BY <3>1, <4>1
      <4> HIDE DEF t0
      <4>3. /\ _prev_ping.remaining = Whole(t0)
            /\ _prev_ping.missing = Limit - Whole(t0)
            /\ _prev_ping.reset = CeilDiv(Limit - t0, Rate)
        BY <3>1, <3>2 DEF Sample
      <4>4. since > 0 => t0 + Rate * since < Limit
        BY <3>1, <3>2, <4>2
      <4>5. Vote(since, Whole((t0 + Rate * since) - ping_tokens) - Whole(t0),
                 _prev_ping) \in {"continuous", None}
        BY <3>1, <4>2, <4>3, <4>4, ContinuousVote
      <4>6. rise = Whole((t0 + Rate * since) - ping_tokens) - Whole(t0)
        <5> DEFINE now == t0 + Rate * since
        <5>1. tokens = now
          BY <4>2
        <5> HIDE DEF now
        <5>2. rise = Whole(now - ping_tokens) - Whole(t0)
          BY ONLY <4>3, <5>1
        <5> QED BY <5>2 DEF now
      <4> QED BY <1>5, <3>2, <4>5, <4>6
    <3>3. CASE kind = "fixed"
      <4>1. t0 = tokens
        BY <3>1, <3>3 DEF Gained
      <4>2. _prev_ping.remaining = Whole(tokens)
        BY <3>1, <4>1 DEF Sample
      <4>3. rise \in Int /\ rise <= 0
        <5> DEFINE u == tokens - ping_tokens
        <5>1. u \in Int /\ u <= tokens
          BY <3>1
        <5> HIDE DEF u
        <5>2. Whole(u) <= Whole(tokens) /\ Whole(u) \in Int /\ Whole(tokens) \in Int
          BY <3>1, <5>1, WholeBounds, WholeRises
        <5> QED BY <4>2, <5>2 DEF u
      <4> HIDE DEF rise
      <4>4. Vote(since, rise, _prev_ping) \in {"fixed", None}
        BY <3>1, <4>3, FixedVote
      <4> QED BY <1>5, <3>3, <4>4
    <3> QED BY <3>1, <3>2, <3>3
  <2>3. honest' = IF whole THEN 0 ELSE Lesser(honest + 1, window)
    BY <1>1, <1>5 DEF Known
  <2> DEFINE gone == IF Len(_votes) = window THEN 1 ELSE 0
  <2>4. vote \in {"continuous", "fixed"}
    BY <1>3, <1>5
  <2> HIDE DEF vote
  <2>5. /\ _votes' \in Seq({"continuous", "fixed"})
        /\ Len(_votes') = Len(_votes) + 1 - gone /\ Len(_votes') <= window
        /\ _votes'[Len(_votes')] = vote
        /\ \A i \in 1 .. Len(_votes') - 1 : _votes'[i] = _votes[i + gone]
    BY <1>2, <2>1, <2>4, Remembered
  <2>6. honest' \in 0 .. Len(_votes') /\ Len(_votes') \in Nat
    BY <1>2, <2>3, <2>5 DEF Lesser
  <2>7. ASSUME NEW i \in 1 .. Len(_votes'), i > Len(_votes') - honest'
        PROVE  _votes'[i] = kind
    <3>1. ~whole
      BY <2>3, <2>6, <2>7
    <3>2. CASE i = Len(_votes')
      BY <2>2, <2>5, <3>1, <3>2
    <3>3. CASE i # Len(_votes')
      <4>1. i \in 1 .. Len(_votes') - 1
        BY <2>6, <3>3
      <4>2. i + gone \in 1 .. Len(_votes) /\ i + gone > Len(_votes) - honest
        BY <1>2, <2>3, <2>5, <2>6, <2>7, <3>1, <4>1 DEF Lesser
      <4> QED BY <1>2, <2>5, <4>1, <4>2
    <3> QED BY <3>2, <3>3
  <2> QED BY <2>5, <2>6, <2>7 DEF VotesHonest
<1> QED BY <1>4, <1>5

\* What a reading is decided to is never a negative wait.
LEMMA WaitTyped ==
  ASSUME NEW b, Typed(b), NEW needed \in Int
  PROVE  wait_s(b, TokenStep(needed), 0) \in Nat \cup {None}
<1>1. refill_wait(b, needed) \in Nat \cup {None}
  <2>1. CASE b.reset_seconds = None
    BY <2>1 DEF refill_wait, Known
  <2>2. CASE b.reset_seconds # None /\ ~RateKnown(b)
    BY <2>2 DEF refill_wait, Known, Typed
  <2>3. CASE b.reset_seconds # None /\ RateKnown(b)
    <3>1. /\ b.reset_seconds \in Nat /\ b.remaining_tokens \in Int
          /\ b.limit_tokens \in Int /\ b.limit_tokens > b.remaining_tokens
      BY <2>3 DEF Typed, RateKnown, Known
    <3> DEFINE missing == (b.limit_tokens - b.remaining_tokens) * 100
               scaled == (needed - b.remaining_tokens) * b.reset_seconds * 115
    <3>2. missing \in Nat \ {0} /\ scaled \in Int
      BY <3>1
    <3>3. needed > b.remaining_tokens => scaled \in Nat
      <4> SUFFICES ASSUME needed > b.remaining_tokens PROVE scaled \in Nat
        OBVIOUS
      <4> DEFINE deficit == needed - b.remaining_tokens
      <4>1. deficit \in Nat
        BY <3>1
      <4> HIDE DEF deficit
      <4>2. deficit * b.reset_seconds * 115 \in Nat
        BY <3>1, <4>1
      <4> QED BY <4>2 DEF deficit
    <3> HIDE DEF missing, scaled
    <3>6. needed > b.remaining_tokens => CeilDiv(scaled, missing) \in Nat
      BY <3>2, <3>3, CeilDivNat
    <3>4. BufferedWait(b, needed - b.remaining_tokens) = CeilDiv(scaled, missing)
      BY DEF BufferedWait, missing, scaled
    <3>5. refill_wait(b, needed)
            = IF needed <= b.remaining_tokens THEN HalfSecond
              ELSE Lesser(b.reset_seconds,
                          BufferedWait(b, needed - b.remaining_tokens))
      BY <2>3 DEF refill_wait, Known
    <3> QED BY <3>1, <3>4, <3>5, <3>6 DEF Lesser
  <2> QED BY <2>1, <2>2, <2>3
<1>2. FalsyOr(b.reset_requests_seconds, b.reset_seconds) \in Nat \cup {None}
  BY DEF FalsyOr, Typed
<1>3. b.reset_seconds \in Nat \cup {None}
  BY DEF Typed
<1>4. wait_s(b, TokenStep(needed), 0)
        \in {FalsyOr(b.reset_requests_seconds, b.reset_seconds), b.reset_seconds,
             None, refill_wait(b, needed)}
  BY DEF wait_s, TokenStep
<1> QED BY <1>1, <1>2, <1>3, <1>4

\* A reading that has aged is one still.
LEMMA ReadingTyped ==
  ASSUME PlannerInv, _budget # None
  PROVE  Typed(reading)
<1>1. Typed(_budget) /\ age \in Nat
  BY DEF PlannerInv
<1> DEFINE aged == [_budget EXCEPT !.reset_seconds =
                      IF Known(@) THEN Greater(0, @ - age) ELSE None]
<1>2. Typed(aged)
  BY <1>1 DEF Typed, Known, Greater
<1>3. Typed([aged EXCEPT !.refill_regime = regime(_votes)])
  <2> HIDE DEF aged
  <2> QED BY <1>2 DEF Typed
<1>4. reading = IF regime(_votes) = "unknown" THEN aged
                ELSE [aged EXCEPT !.refill_regime = regime(_votes)]
  BY DEF reading
<1> HIDE DEF aged
<1> QED BY <1>2, <1>3, <1>4

\* The pause that a verdict begins is a number of ticks.
LEMMA PauseTyped ==
  ASSUME PlannerInv, next_action
  PROVE  pause' \in Nat
<1>1. _budget # None /\ Typed(_budget) /\ age \in Nat /\ per_step \in Int
  BY DEF PlannerInv, next_action, Is_fresh, Known
<1>2. Typed(reading)
  BY <1>1, ReadingTyped
<1> DEFINE w == wait_s(reading, TokenStep(per_step), 0)
<1>3. w \in Nat \cup {None}
  BY <1>1, <1>2, WaitTyped
<1> HIDE DEF w
<1>4. /\ verdict.action \in {"continue", "wait", "checkpoint"}
      /\ verdict.action = "wait" => verdict.wait_seconds \in Nat
  <2>1. verdict \in {Decision("checkpoint", None), Decision("continue", None)}
        \/ (verdict = Decision("wait", w) /\ Known(w))
    BY DEF verdict, decide, w
  <2> QED BY <1>3, <2>1 DEF Decision, Known
<1>5. FalsyOr(reading.reset_seconds, 1) \in Nat
  BY <1>2 DEF Typed, FalsyOr
<1> QED BY <1>4, <1>5 DEF next_action

\* The initial state.
LEMMA PlannerStart == PlannerInit => PlannerInv
<1> SUFFICES ASSUME PlannerInit PROVE PlannerInv
  OBVIOUS
<1>1. kind \in {"continuous", "fixed"} /\ per_step \in Nat
  BY DEF PlannerInit
<1>2. tokens \in Int /\ tokens <= Limit
  BY DEF PlannerInit
<1>3. boundary \in Int /\ (kind = "fixed" => boundary \in 1 .. Period)
  BY <1>1 DEF PlannerInit
<1>4. _votes = <<>> /\ honest = 0 /\ _prev_ping = None /\ _budget = None
      /\ age = 0 /\ since = 0 /\ whole = FALSE /\ pause = 0
  BY DEF PlannerInit
<1>5. VotesHonest
  BY <1>4 DEF VotesHonest
<1>6. SampleHolds
  BY <1>4 DEF SampleHolds
<1>7. age \in Nat /\ since \in Nat /\ whole \in BOOLEAN /\ pause \in Nat
  <2>1. whole \in BOOLEAN
    BY <1>4, Zenon
  <2> QED BY <1>4, <2>1
<1>8. (_budget # None => Typed(_budget)) /\ (doing = "waiting" => _budget # None)
  BY <1>4 DEF PlannerInit
<1> QED BY ONLY <1>1, <1>2, <1>3, <1>5, <1>6, <1>7, <1>8 DEF PlannerInv

\* Who waits has been told so by a reading.
LEMMA WaitHasReading ==
  ASSUME PlannerInv, [PlannerNext]_planner
  PROVE  doing' = "waiting" => _budget' # None
<1>1. CASE ping \/ PingRefused \/ call \/ Rest \/ Wait \/ ResumeRun \/ forecast
  BY <1>1 DEF ping, PingRefused, call, Rest, Wait, ResumeRun, forecast
<1>2. CASE next_action
  BY <1>2 DEF next_action, Is_fresh, Known, adapter
<1>3. CASE UNCHANGED planner
  BY <1>3 DEF planner, adapter, PlannerInv
<1> QED BY <1>1, <1>2, <1>3 DEF PlannerNext, Turn

\* Every step keeps the samples and the honest votes right.
LEMMA PlannerStep ==
  ASSUME PingsSmall, PlannerInv, [PlannerNext]_planner
  PROVE  PlannerInv'
<1>0. /\ kind \in {"continuous", "fixed"} /\ per_step \in Nat
      /\ tokens \in Int /\ tokens <= Limit
      /\ boundary \in Int /\ (kind = "fixed" => boundary \in 1 .. Period)
      /\ age \in Nat /\ since \in Nat /\ whole \in BOOLEAN /\ pause \in Nat
  BY DEF PlannerInv
<1>9. doing' = "waiting" => _budget' # None
  BY WaitHasReading
<1>1. CASE ping
  <2>1. /\ Sampled /\ tokens' = tokens - ping_tokens
        /\ Absorb(tokens', boundary)
        /\ UNCHANGED <<kind, boundary, per_step, done, pause>>
    BY <1>1 DEF ping, run
  <2>2. tokens' \in Int /\ tokens' <= Limit
    BY <1>0, <2>1
  <2>3. /\ Typed(_budget') /\ age' = 0 /\ since' = 0 /\ whole' = FALSE
        /\ SampleHolds'
    BY <1>0, <2>1, <2>2, Absorbed
  <2>4. VotesHonest'
    <3>1. CASE _prev_ping = None
      <4>1. UNCHANGED <<_votes, honest>>
        BY <2>1, <3>1 DEF Sampled, Known
      <4> QED BY <2>1, <4>1 DEF PlannerInv, VotesHonest
    <3>2. CASE _prev_ping # None
      BY <2>1, <3>2, SampledHonest
    <3> QED BY <3>1, <3>2
  <2> QED BY <1>0, <2>1, <2>2, <2>3, <2>4, <1>9 DEF PlannerInv
<1>2. CASE PingRefused
  <2>1. /\ UNCHANGED <<kind, tokens, boundary, per_step, _votes, honest, pause>>
        /\ age' = 0 /\ _prev_ping' = None /\ since' = 0 /\ whole' = FALSE
    BY <1>2 DEF PingRefused, provider, run
  <2>2. PICK retry_after \in {None, Reset(tokens, boundary)} :
          _budget' = [TokenBudget(0) EXCEPT
                        !.remaining_requests = 0,
                        !.reset_seconds =
                           FalsyOr(retry_after,
                                   IF Known(_budget) THEN _budget.reset_seconds
                                                     ELSE FiveSeconds),
                        !.reset_requests_seconds = retry_after]
    BY <1>2 DEF PingRefused
  <2>3. retry_after \in Nat \cup {None}
    BY <1>0, <2>2, ResetTyped
  <2>4. (IF Known(_budget) THEN _budget.reset_seconds ELSE FiveSeconds)
          \in Nat \cup {None}
    BY DEF PlannerInv, Typed, Known, FiveSeconds
  <2>5. Typed(_budget')
    BY <2>2, <2>3, <2>4 DEF Typed, TokenBudget, FalsyOr
  <2>6. VotesHonest' /\ SampleHolds'
    BY <2>1 DEF PlannerInv, VotesHonest, SampleHolds
  <2> QED BY <1>0, <2>1, <2>5, <2>6, <1>9 DEF PlannerInv
<1>3. CASE next_action
  <2>1. pause' \in Nat
    BY <1>3, PauseTyped
  <2>2. UNCHANGED <<kind, tokens, boundary, _budget, age, _prev_ping, since,
                    _votes, honest, whole, per_step>>
    BY <1>3 DEF next_action, provider, adapter, run
  <2>3. VotesHonest' /\ SampleHolds'
    BY ONLY PlannerInv, <2>2
       DEF PlannerInv, VotesHonest, SampleHolds, Sample, Gained
  <2>4. _budget' # None => Typed(_budget')
    BY <2>2 DEF PlannerInv
  <2> QED BY <1>0, <2>1, <2>2, <2>3, <2>4, <1>9 DEF PlannerInv
<1>4. CASE call
  <2>1. /\ Pass(tokens - per_step, latency) /\ Absorb(tokens', boundary')
        /\ UNCHANGED <<kind, per_step, _votes, honest, pause>>
    BY <1>4 DEF call
  <2>2. tokens - per_step \in Int /\ tokens - per_step <= Limit /\ latency \in Int
    BY <1>0
  <2>3. /\ tokens' \in Int /\ tokens' <= Limit
        /\ boundary' \in Int /\ (kind' = "fixed" => boundary' \in 1 .. Period)
    BY <2>1, <2>2, Passed
  <2>4. /\ Typed(_budget') /\ age' = 0 /\ since' = 0 /\ whole' = FALSE
        /\ SampleHolds'
    BY <2>1, <2>3, Absorbed
  <2>5. VotesHonest'
    BY <2>1 DEF PlannerInv, VotesHonest
  <2> QED BY <1>0, <2>1, <2>3, <2>4, <2>5, <1>9 DEF PlannerInv
<1>5. CASE Rest
  <2>1. PICK d \in Rests : Pass(tokens, d) /\ Older(d)
    BY <1>5 DEF Rest
  <2>2. UNCHANGED <<kind, per_step, _budget, _prev_ping, _votes, honest, pause>>
    BY <1>5 DEF Rest, run
  <2>3. d \in Nat /\ d \in Int
    OBVIOUS
  <2>4. /\ age' = Lesser(age + d, max_age_s + 1) /\ since' = since + d
        /\ whole' = (whole \/ (d > 0 /\ After(tokens, d) = Limit))
    BY <2>1 DEF Older
  <2>5. age' \in Nat /\ since' \in Nat /\ whole' \in BOOLEAN
    BY <1>0, <2>3, <2>4 DEF Lesser
  <2>6. /\ tokens' \in Int /\ tokens' <= Limit
        /\ boundary' \in Int /\ (kind' = "fixed" => boundary' \in 1 .. Period)
    BY <1>0, <2>1, <2>2, <2>3, Passed
  <2>7. SampleHolds'
    BY <2>1, <2>2, <2>3, <2>4, SampleAges
  <2>8. VotesHonest' /\ (_budget' # None => Typed(_budget'))
    BY <2>2 DEF PlannerInv, VotesHonest
  <2> QED BY <1>0, <2>2, <2>5, <2>6, <2>7, <2>8, <1>9 DEF PlannerInv
<1>6. CASE Wait
  <2> DEFINE advised == FalsyOr(FalsyOr(pause, reading.reset_seconds), FiveSeconds)
             d == Lesser(advised, FifteenSeconds) + HalfSecond
  <2>1. /\ Pass(tokens, d) /\ since' = since + d
        /\ whole' = (whole \/ After(tokens, d) = Limit)
        /\ age' \in {max_age_s + 1, Lesser(age + d, max_age_s + 1)}
        /\ UNCHANGED <<kind, per_step, _budget, _prev_ping, _votes, honest, pause>>
    BY <1>6 DEF Wait, run, invalidate
  <2>2. d \in Nat /\ d \in Int /\ d > 0
    <3>1. CASE pause # 0
      BY <1>0, <3>1 DEF FalsyOr, Lesser, FifteenSeconds
    <3>2. CASE pause = 0
      <4>1. _budget # None
        BY <1>6 DEF PlannerInv, Wait
      <4>2. reading.reset_seconds \in Nat \cup {None}
        BY <4>1, ReadingTyped DEF Typed
      <4>3. FiveSeconds \in Nat \ {0} /\ FifteenSeconds \in Nat
        BY DEF FiveSeconds, FifteenSeconds
      <4>4. advised \in Nat
        BY <3>2, <4>2, <4>3 DEF FalsyOr
      <4> HIDE DEF advised
      <4> QED BY <4>3, <4>4 DEF Lesser
    <3> QED BY <3>1, <3>2
  <2> HIDE DEF d
  <2>3. whole' = (whole \/ (d > 0 /\ After(tokens, d) = Limit))
    BY <2>1, <2>2
  <2>4. age' \in Nat /\ since' \in Nat /\ whole' \in BOOLEAN
    BY <1>0, <2>1, <2>2 DEF Lesser
  <2>5. /\ tokens' \in Int /\ tokens' <= Limit
        /\ boundary' \in Int /\ (kind' = "fixed" => boundary' \in 1 .. Period)
    BY <1>0, <2>1, <2>2, Passed
  <2>6. SampleHolds'
    BY <2>1, <2>2, <2>3, SampleAges
  <2>7. VotesHonest' /\ (_budget' # None => Typed(_budget'))
    BY <2>1 DEF PlannerInv, VotesHonest
  <2> QED BY <1>0, <2>1, <2>4, <2>5, <2>6, <2>7, <1>9 DEF PlannerInv
<1>7. CASE ResumeRun
  <2>1. /\ Pass(tokens, pause) /\ UNCHANGED <<kind, per_step, pause>>
        /\ _budget' = None /\ age' = 0 /\ _prev_ping' = None /\ since' = 0
        /\ _votes' = <<>> /\ honest' = 0 /\ whole' = FALSE
    BY <1>7 DEF ResumeRun, run
  <2>2. /\ tokens' \in Int /\ tokens' <= Limit
        /\ boundary' \in Int /\ (kind' = "fixed" => boundary' \in 1 .. Period)
    BY <1>0, <2>1, Passed
  <2>3. VotesHonest' /\ SampleHolds'
    BY <2>1 DEF VotesHonest, SampleHolds
  <2> QED BY <1>0, <2>1, <2>2, <2>3, <1>9 DEF PlannerInv
<1>8. CASE forecast \/ UNCHANGED planner
  <2>1. UNCHANGED <<kind, tokens, boundary, _budget, age, _prev_ping, since,
                    _votes, honest, whole, per_step, pause>>
    BY <1>8 DEF forecast, planner, provider, adapter, run
  <2>2. VotesHonest' /\ SampleHolds'
    BY ONLY PlannerInv, <2>1
       DEF PlannerInv, VotesHonest, SampleHolds, Sample, Gained
  <2>3. _budget' # None => Typed(_budget')
    BY <2>1 DEF PlannerInv
  <2> QED BY <1>0, <2>1, <2>2, <2>3, <1>9 DEF PlannerInv
<1> QED BY <1>1, <1>2, <1>3, <1>4, <1>5, <1>6, <1>7, <1>8 DEF PlannerNext, Turn

\* A window of right votes makes a right verdict.
LEMMA VerdictRight == PlannerInv => VerdictFades
<1> SUFFICES ASSUME PlannerInv, honest = window PROVE regime(_votes) = kind
  BY DEF VerdictFades
<1> DEFINE continuous == {i \in DOMAIN _votes : _votes[i] = "continuous"}
<1>1. /\ _votes \in Seq({"continuous", "fixed"}) /\ Len(_votes) = window
      /\ \A i \in 1 .. window : _votes[i] = kind
      /\ kind \in {"continuous", "fixed"}
  BY DEF PlannerInv, VotesHonest
<1>2. DOMAIN _votes = 1 .. window
  BY <1>1
<1>3. Cardinality(continuous) = IF kind = "continuous" THEN window ELSE 0
  <2>1. CASE kind = "continuous"
    <3>1. continuous = 1 .. window
      BY <1>1, <1>2, <2>1
    <3>2. Cardinality(1 .. window) = window
      BY FS_Interval
    <3> QED BY ONLY <2>1, <3>1, <3>2
  <2>2. CASE kind = "fixed"
    <3>1. continuous = {}
      BY <1>1, <1>2, <2>2
    <3> QED BY <2>2, <3>1, FS_EmptySet
  <2> QED BY <1>1, <2>1, <2>2
<1> HIDE DEF continuous
<1>4. regime(_votes)
        = LET cont == Cardinality(continuous)
              fixed == Len(_votes) - cont
          IN  CASE Len(_votes) < min_votes \/ cont = fixed  -> "unknown"
                [] Len(_votes) >= min_votes /\ cont > fixed -> "continuous"
                [] Len(_votes) >= min_votes /\ cont < fixed -> "fixed"
  BY DEF regime, continuous
<1>5. min_votes \in 1 .. window /\ window \in Nat
  OBVIOUS
<1> QED BY ONLY <1>1, <1>3, <1>4, <1>5

\* A wrong verdict on the refill regime lasts no longer than the detector
\* remembers votes: after a window of gaps in which the bucket neither filled
\* up nor was reset RegimeDetector names the provider's kind, for any window,
\* bucket, step and pause, where a ping costs little of what a gap refills.
THEOREM VerdictRecovers == ASSUME PingsSmall PROVE PlannerSpec => []VerdictFades
<1>1. PlannerInv /\ [PlannerNext]_planner => PlannerInv'
  BY PlannerStep
<1> QED BY <1>1, PlannerStart, VerdictRight, PTL DEF PlannerSpec

-----------------------------------------------------------------------------
(* What is learnt, and what a checkpoint carries of it.                    *)

USE EstimatorAssumption, LearningAssumption

-----------------------------------------------------------------------------
(* Ends of sequences.                                                      *)

\* The last n of a sequence, element by element.
IsLast(last, s, n, S) ==
    /\ last \in Seq(S) /\ Len(last) \in Nat
    /\ Len(last) = IF Len(s) <= n THEN Len(s) ELSE n
    /\ \A k \in 0 .. Len(last) - 1 :
          k < Len(s) /\ last[Len(last) - k] = s[Len(s) - k]

\* Last_n, like a Python slice, gives the last n.
LEMMA LastOf ==
  ASSUME NEW S, NEW s \in Seq(S), NEW n \in Nat
  PROVE  IsLast(Last_n(s, n), s, n, S)
<1> DEFINE m == Len(s) - n + 1
           last == SubSeq(s, m, Len(s))
<1>1. Len(s) \in Nat
  BY LenProperties
<1>2. CASE Len(s) <= n
  <2>1. Last_n(s, n) = s
    BY <1>2 DEF Last_n
  <2>2. IsLast(s, s, n, S)
    BY <1>1, <1>2 DEF IsLast
  <2> QED BY <2>1, <2>2
<1>3. CASE ~ (Len(s) <= n)
  <2>1. m \in 1 .. Len(s) + 1 /\ m \in Int /\ Len(s) \in Int
    BY <1>1, <1>3
  <2>2. \A i \in m .. Len(s) : s[i] \in S
    BY <2>1, ElementOfSeq
  <2>3. /\ last \in Seq(S)
        /\ Len(last) = IF m <= Len(s) THEN Len(s) - m + 1 ELSE 0
        /\ \A i \in 1 .. Len(s) - m + 1 : last[i] = s[m + i - 1]
    <3> HIDE DEF m
    <3> QED BY <2>1, <2>2, SubSeqProperties
  <2>4. Len(last) = n
    BY <1>1, <1>3, <2>3
  <2>5. \A k \in 0 .. n - 1 : last[n - k] = s[Len(s) - k]
    <3> TAKE k \in 0 .. n - 1
    <3>1. n - k \in 1 .. Len(s) - m + 1 /\ m + (n - k) - 1 = Len(s) - k
      BY <1>1
    <3> HIDE DEF last, m
    <3> QED BY <2>3, <3>1
  <2>6. Last_n(s, n) = last
    BY <1>3 DEF Last_n
  <2> HIDE DEF last, m
  <2>7. \A k \in 0 .. Len(last) - 1 :
          k < Len(s) /\ last[Len(last) - k] = s[Len(s) - k]
    <3>1. n < Len(s)
      BY <1>1, <1>3
    <3> QED BY <1>1, <2>4, <2>5, <3>1
  <2>8. IsLast(last, s, n, S)
    BY <1>3, <2>3, <2>4, <2>7 DEF IsLast
  <2> QED BY <2>6, <2>8
<1> QED BY <1>2, <1>3

\* They are a sequence of the same kind.
LEMMA LastType ==
  ASSUME NEW S, NEW s \in Seq(S), NEW n \in Nat
  PROVE  Last_n(s, n) \in Seq(S)
BY LastOf DEF IsLast

\* A sequence that is short enough is its own last n.
LEMMA LastOfShort ==
  ASSUME NEW s, NEW n, Len(s) <= n
  PROVE  Last_n(s, n) = s
BY DEF Last_n

\* The errors end as the samples do.
Ends(errs, samples) ==
    \A k \in 0 .. Len(errs) - 1 : k < Len(samples) =>
        errs[Len(errs) - k] = samples[Len(samples) - k].err

\* A step's error and its sample extend both.
LEMMA EndsAppend ==
  ASSUME NEW errs \in Seq(Errors), NEW samples \in Seq(Samples),
         NEW sample \in Samples, Ends(errs, samples)
  PROVE  Ends(Append(errs, sample.err), Append(samples, sample))
<1> DEFINE e == Append(errs, sample.err)
           s == Append(samples, sample)
<1>1. sample.err \in Errors
  BY DEF Samples
<1>2. /\ Len(errs) \in Nat /\ Len(e) = Len(errs) + 1
      /\ \A i \in 1 .. Len(errs) : e[i] = errs[i]
      /\ e[Len(errs) + 1] = sample.err
  BY <1>1, AppendProperties, LenProperties
<1>3. /\ Len(samples) \in Nat /\ Len(s) = Len(samples) + 1
      /\ \A i \in 1 .. Len(samples) : s[i] = samples[i]
      /\ s[Len(samples) + 1] = sample
  BY AppendProperties, LenProperties
<1> HIDE DEF e, s
<1>4. ASSUME NEW k \in 0 .. Len(e) - 1, k < Len(s)
      PROVE  e[Len(e) - k] = s[Len(s) - k].err
  <2>1. CASE k = 0
    BY <1>2, <1>3, <2>1
  <2>2. CASE k # 0
    <3>1. /\ k - 1 \in 0 .. Len(errs) - 1 /\ k - 1 < Len(samples)
          /\ Len(e) - k = Len(errs) - (k - 1)
          /\ Len(s) - k = Len(samples) - (k - 1)
          /\ Len(e) - k \in 1 .. Len(errs)
          /\ Len(s) - k \in 1 .. Len(samples)
      BY <1>2, <1>3, <1>4, <2>2
    <3>2. errs[Len(errs) - (k - 1)] = samples[Len(samples) - (k - 1)].err
      BY <3>1 DEF Ends
    <3> QED BY <1>2, <1>3, <3>1, <3>2
  <2> QED BY <2>1, <2>2
<1> QED BY <1>4 DEF Ends, e, s

\* What is cut off at the front of either changes nothing at the end.
LEMMA EndsLast ==
  ASSUME NEW errs \in Seq(Errors), NEW samples \in Seq(Samples),
         NEW n \in Nat, NEW m \in Nat, Ends(errs, samples)
  PROVE  Ends(Last_n(errs, n), Last_n(samples, m))
<1> DEFINE e == Last_n(errs, n)
           s == Last_n(samples, m)
<1>1. IsLast(e, errs, n, Errors)
  BY LastOf
<1>2. IsLast(s, samples, m, Samples)
  BY LastOf
<1> HIDE DEF e, s
<1>3. Len(errs) \in Nat
  BY LenProperties
<1>4. ASSUME NEW k \in 0 .. Len(e) - 1, k < Len(s)
      PROVE  e[Len(e) - k] = s[Len(s) - k].err
  <2>1. k < Len(errs) /\ e[Len(e) - k] = errs[Len(errs) - k]
    BY <1>1 DEF IsLast
  <2>2. k \in 0 .. Len(s) - 1
    BY <1>2, <1>4 DEF IsLast
  <2>3. k < Len(samples) /\ s[Len(s) - k] = samples[Len(samples) - k]
    BY <1>2, <2>2 DEF IsLast
  <2>4. k \in 0 .. Len(errs) - 1
    BY <1>1, <1>3, <2>1
  <2> QED BY <2>1, <2>3, <2>4 DEF Ends
<1> QED BY <1>4 DEF Ends, e, s

-----------------------------------------------------------------------------
(* One history.                                                            *)

\* What an estimator remembers, in memory or in a checkpoint.
Memory(errors, all, samples) ==
    /\ errors \in Seq(Errors) /\ all \in Seq(Errors)
    /\ samples \in Seq(Samples) /\ Len(samples) <= sample_cap
    /\ Len(errors) = IF Len(samples) <= error_window THEN Len(samples)
                                                     ELSE error_window
    /\ Ends(errors, samples) /\ Ends(all, samples)

Taught == Memory(est.errors, est.all, est.samples)

\* What is saved with a checkpoint.
Saved(state) == Memory(state.recent_errors, state.errors, state.samples)

AllSaved == \A s \in Sessions : store[s] # None => Saved(store[s].estimator)

\* A call in flight is one of the session's steps.
StepsLeft == \A s \in Sessions : pc[s] = "calling" => step[s] < MaxSteps

\* A fit leaves the rest of the estimator alone.
LEMMA RefitKeeps ==
  ASSUME NEW e \in Estimators
  PROVE  /\ _refit(e) \in Estimators
         /\ _refit(e).errors = e.errors /\ _refit(e).all = e.all
         /\ _refit(e).samples = e.samples
<1>1. _refit(e) = e \/ _refit(e) = [e EXCEPT !.fitted = fit(e.samples)]
  BY DEF _refit
<1>2. fit(e.samples) \in {e.samples, None}
  BY DEF fit
<1>3. fit(e.samples) \in Seq(Samples) \cup {None}
  BY <1>2 DEF Estimators
<1> QED BY <1>1, <1>3 DEF Estimators

\* An error is taken up by the window, the history and the samples alike.
LEMMA MemoryGrows ==
  ASSUME NEW errors, NEW all, NEW samples, Memory(errors, all, samples),
         NEW sample \in Samples, error_window <= sample_cap
  PROVE  Memory(Last_n(Append(errors, sample.err), error_window),
                AfterPhase(Append(all, sample.err)),
                Last_n(Append(samples, sample), sample_cap))
<1> USE DEF Memory
<1> DEFINE e == Append(errors, sample.err)
           a == Append(all, sample.err)
           s == Append(samples, sample)
<1>1. sample.err \in Errors
  BY DEF Samples
<1>2. /\ e \in Seq(Errors) /\ a \in Seq(Errors) /\ s \in Seq(Samples)
      /\ Len(e) = Len(errors) + 1 /\ Len(s) = Len(samples) + 1
      /\ Len(errors) \in Nat /\ Len(samples) \in Nat
  BY <1>1, AppendProperties, LenProperties
<1>3. Ends(e, s) /\ Ends(a, s)
  BY EndsAppend
<1> HIDE DEF e, a, s
<1>4. /\ error_window \in Nat \ {0} /\ sample_cap \in Nat \ {0}
      /\ phase_window \in Nat \ {0}
  OBVIOUS
<1>5. /\ Last_n(e, error_window) \in Seq(Errors)
      /\ Len(Last_n(e, error_window)) = IF Len(e) <= error_window
                                          THEN Len(e) ELSE error_window
  BY <1>2, <1>4, LastOf DEF IsLast
<1>6. /\ Last_n(s, sample_cap) \in Seq(Samples)
      /\ Len(Last_n(s, sample_cap)) = IF Len(s) <= sample_cap
                                        THEN Len(s) ELSE sample_cap
  BY <1>2, <1>4, LastOf DEF IsLast
<1>7. Ends(Last_n(e, error_window), Last_n(s, sample_cap))
  BY <1>2, <1>3, <1>4, EndsLast
<1>8. /\ AfterPhase(a) \in Seq(Errors)
      /\ Ends(AfterPhase(a), Last_n(s, sample_cap))
  <2>1. AfterPhase(a) = a \/ AfterPhase(a) = Last_n(a, phase_window)
    BY DEF AfterPhase
  <2>2. CASE AfterPhase(a) = a
    <3>1. Len(a) \in Nat /\ Last_n(a, Len(a)) = a
      BY <1>2, LenProperties, LastOfShort
    <3>2. Ends(Last_n(a, Len(a)), Last_n(s, sample_cap))
      BY <1>2, <1>3, <1>4, <3>1, EndsLast
    <3> QED BY <1>2, <2>2, <3>1, <3>2
  <2>3. CASE AfterPhase(a) = Last_n(a, phase_window)
    <3>1. Last_n(a, phase_window) \in Seq(Errors)
      BY <1>2, <1>4, LastType
    <3>2. Ends(Last_n(a, phase_window), Last_n(s, sample_cap))
      BY <1>2, <1>3, <1>4, EndsLast
    <3> QED BY <2>3, <3>1, <3>2
  <2> QED BY <2>1, <2>2, <2>3
<1>9. Len(Last_n(e, error_window))
        = IF Len(Last_n(s, sample_cap)) <= error_window
            THEN Len(Last_n(s, sample_cap)) ELSE error_window
  <2> DEFINE l == Len(Last_n(s, sample_cap))
  <2>1. l = IF Len(s) <= sample_cap THEN Len(s) ELSE sample_cap
    BY <1>6
  <2>2. Len(Last_n(e, error_window))
          = IF Len(e) <= error_window THEN Len(e) ELSE error_window
    BY <1>5
  <2> HIDE DEF l
  <2>3. (IF Len(e) <= error_window THEN Len(e) ELSE error_window)
          = IF l <= error_window THEN l ELSE error_window
    BY <1>2, <1>4, <2>1
  <2> QED BY <2>2, <2>3 DEF l
<1>10. Len(Last_n(s, sample_cap)) <= sample_cap
  BY <1>2, <1>4, <1>6
<1> QED BY <1>5, <1>6, <1>7, <1>8, <1>9, <1>10 DEF e, a, s

\* What is saved is a memory with the same end.
LEMMA MemorySaved ==
  ASSUME Taught
  PROVE  Saved(to_dict(est))
<1>1. history_cap \in Nat /\ sample_cap \in Nat
  OBVIOUS
<1>2. Last_n(est.samples, sample_cap) = est.samples
  BY LastOfShort DEF Taught, Memory
<1>3. /\ Last_n(est.all, history_cap) \in Seq(Errors)
      /\ Ends(Last_n(est.all, history_cap), Last_n(est.samples, sample_cap))
  BY <1>1, LastType, EndsLast DEF Taught, Memory
<1>4. Memory(est.errors, Last_n(est.all, history_cap), est.samples)
  BY <1>2, <1>3 DEF Taught, Memory
<1> QED BY <1>2, <1>4 DEF to_dict, Saved

\* What is loaded is what was saved.
LEMMA MemoryLoaded ==
  ASSUME est \in Estimators, NEW state, Saved(state)
  PROVE  /\ load(est, state) \in Estimators
         /\ load(est, state).errors = state.recent_errors
         /\ load(est, state).all = state.errors
         /\ load(est, state).samples = state.samples
<1>1. error_window \in Nat
  OBVIOUS
<1>2. Len(state.recent_errors) <= error_window
  <2>1. Len(state.samples) \in Nat
    BY LenProperties DEF Saved, Memory
  <2> QED BY <1>1, <2>1 DEF Saved, Memory
<1>3. Last_n(state.recent_errors, error_window) = state.recent_errors
  BY <1>2, LastOfShort
<1> DEFINE loaded == [est EXCEPT !.errors = state.recent_errors,
                                 !.all = state.errors,
                                 !.samples = state.samples]
<1>4. load(est, state) = _refit(loaded)
  BY <1>3 DEF load
<1>5. /\ loaded \in Estimators
      /\ loaded.errors = state.recent_errors /\ loaded.all = state.errors
      /\ loaded.samples = state.samples
  BY DEF Estimators, Saved, Memory
<1> HIDE DEF loaded
<1> QED BY <1>4, <1>5, RefitKeeps

\* What a step teaches.
LEMMA RecordTeaches ==
  ASSUME est \in Estimators, NEW sample \in Samples
  PROVE  /\ record(est, sample) \in Estimators
         /\ record(est, sample).errors =
              Last_n(Append(est.errors, sample.err), error_window)
         /\ record(est, sample).all = AfterPhase(Append(est.all, sample.err))
         /\ record(est, sample).samples =
              Last_n(Append(est.samples, sample), sample_cap)
<1> DEFINE errors == Last_n(Append(est.errors, sample.err), error_window)
           all == AfterPhase(Append(est.all, sample.err))
           samples == Last_n(Append(est.samples, sample), sample_cap)
           taught == [est EXCEPT !.errors = errors, !.all = all,
                                 !.samples = samples]
<1>1. /\ Append(est.errors, sample.err) \in Seq(Errors)
      /\ Append(est.all, sample.err) \in Seq(Errors)
      /\ Append(est.samples, sample) \in Seq(Samples)
  BY AppendProperties DEF Estimators, Samples
<1>2. /\ error_window \in Nat /\ sample_cap \in Nat /\ phase_window \in Nat
  OBVIOUS
<1>3. errors \in Seq(Errors) /\ samples \in Seq(Samples)
  BY <1>1, <1>2, LastType
<1>4. all \in Seq(Errors)
  <2>1. \/ all = Append(est.all, sample.err)
        \/ all = Last_n(Append(est.all, sample.err), phase_window)
    BY DEF AfterPhase
  <2>2. Last_n(Append(est.all, sample.err), phase_window) \in Seq(Errors)
    BY <1>1, <1>2, LastType
  <2> QED BY <1>1, <2>1, <2>2
<1>5. record(est, sample) = _refit(taught)
  BY DEF record
<1> HIDE DEF errors, all, samples
<1>6. /\ taught \in Estimators /\ taught.errors = errors /\ taught.all = all
      /\ taught.samples = samples
  BY <1>3, <1>4 DEF Estimators
<1> HIDE DEF taught
<1> QED BY <1>5, <1>6, RefitKeeps DEF errors, all, samples

-----------------------------------------------------------------------------
(* Types.                                                                  *)

TypeInv == TypeOK /\ StepsLeft

\* Nothing is learned, saved or begun at first.
LEMMA InitType == Init => TypeInv
<1> SUFFICES ASSUME Init PROVE TypeInv
  OBVIOUS
<1>1. est \in Estimators
  <2>1. <<>> \in Seq(Errors) /\ <<>> \in Seq(Samples)
    BY EmptySeq
  <2> QED BY <2>1 DEF Init, Untaught, Estimators
<1>2. 0 \in 0 .. MaxSteps /\ 0 \in 0 .. MaxFailures /\ 0 \in 0 .. MaxSaves
  OBVIOUS
<1> QED BY <1>1, <1>2 DEF Init, TypeInv, TypeOK, StepsLeft

\* What is saved has its type.
LEMMA SavedType ==
  ASSUME est \in Estimators
  PROVE  to_dict(est) \in [errors : Seq(Errors), recent_errors : Seq(Errors),
                           samples : Seq(Samples)]
<1>1. history_cap \in Nat /\ sample_cap \in Nat
  OBVIOUS
<1>2. /\ Last_n(est.all, history_cap) \in Seq(Errors)
      /\ Last_n(est.samples, sample_cap) \in Seq(Samples)
      /\ est.errors \in Seq(Errors)
  BY <1>1, LastType DEF Estimators
<1> QED BY <1>2 DEF to_dict

\* So has what is loaded.
LEMMA LoadedType ==
  ASSUME est \in Estimators,
         NEW state \in [errors : Seq(Errors), recent_errors : Seq(Errors),
                        samples : Seq(Samples)]
  PROVE  load(est, state) \in Estimators
<1> DEFINE errors == Last_n(state.recent_errors, error_window)
           loaded == [est EXCEPT !.errors = errors, !.all = state.errors,
                                 !.samples = state.samples]
<1>1. errors \in Seq(Errors)
  <2>1. error_window \in Nat /\ state.recent_errors \in Seq(Errors)
    OBVIOUS
  <2> QED BY <2>1, LastType
<1> HIDE DEF errors
<1>2. loaded \in Estimators
  BY <1>1 DEF Estimators
<1> HIDE DEF loaded
<1>3. load(est, state) = _refit(loaded)
  BY DEF load, loaded, errors
<1> QED BY <1>2, <1>3, RefitKeeps

\* The sample of a call that is answered.
SampleOf(s) ==
    [of |-> s, step |-> step[s] + 1, err |-> work[s][step[s] + 1],
     feat |-> _ambient]

\* It is of one of the session's steps.
LEMMA SampleType ==
  ASSUME TypeInv, NEW s \in Sessions, pc[s] = "calling"
  PROVE  SampleOf(s) \in Samples /\ step[s] + 1 \in 1 .. MaxSteps
<1>1. step[s] \in 0 .. MaxSteps /\ step[s] < MaxSteps
  BY DEF TypeInv, TypeOK, StepsLeft
<1>2. step[s] + 1 \in 1 .. MaxSteps /\ step[s] + 1 \in Nat
  BY <1>1
<1>3. work[s][step[s] + 1] \in Errors
  BY <1>2 DEF TypeInv, TypeOK
<1> QED BY <1>2, <1>3 DEF SampleOf, Samples, TypeInv, TypeOK

\* Every step keeps the types.
LEMMA TypeStep == TypeInv /\ [Next]_vars => TypeInv'
<1> SUFFICES ASSUME TypeInv, [Next]_vars
             PROVE  TypeInv'
  OBVIOUS
<1> USE DEF TypeInv, TypeOK, StepsLeft
<1>1. ASSUME NEW s \in Sessions, Enter(s)
      PROVE  TypeInv'
  <2>1. CASE store[s] = None
    <3>1. /\ pc' = [pc EXCEPT ![s] = "idle"] /\ step' = [step EXCEPT ![s] = 0]
          /\ UNCHANGED <<est, work, _ambient, store, failures, saves>>
      BY <1>1, <2>1 DEF Enter
    <3> QED BY <3>1
  <2>2. CASE store[s] # None
    <3>1. store[s] \in Checkpoints
      BY <2>2
    <3>2. load(est, store[s].estimator) \in Estimators
      BY <3>1, LoadedType DEF Checkpoints
    <3>3. store[s].step \in 0 .. MaxSteps
      BY <3>1 DEF Checkpoints
    <3>4. est' \in Estimators
      BY <1>1, <2>2, <3>2 DEF Enter
    <3> QED BY <1>1, <2>2, <3>3, <3>4 DEF Enter
  <2> QED BY <2>1, <2>2
<1>2. ASSUME NEW s \in Sessions, Call(s)
      PROVE  TypeInv'
  BY <1>2 DEF Call
<1>3. ASSUME NEW s \in Sessions, _record_success(s)
      PROVE  TypeInv'
  <2>1. SampleOf(s) \in Samples /\ step[s] + 1 \in 1 .. MaxSteps
    BY <1>3, SampleType DEF _record_success
  <2>2. est' = record(est, SampleOf(s))
    BY <1>3 DEF _record_success, SampleOf
  <2>3. est' \in Estimators
    BY <2>1, <2>2, RecordTeaches
  <2>4. step[s] + 1 \in 0 .. MaxSteps
    BY <2>1
  <2> QED BY <1>3, <2>3, <2>4 DEF _record_success
<1>4. ASSUME NEW s \in Sessions, Raise(s)
      PROVE  TypeInv'
  <2>1. failures' \in 0 .. MaxFailures
    BY <1>4 DEF Raise
  <2> QED BY <1>4, <2>1 DEF Raise
<1>5. ASSUME NEW s \in Sessions, checkpoint(s)
      PROVE  TypeInv'
  <2>1. [step |-> step[s], estimator |-> to_dict(est)] \in Checkpoints
    BY SavedType DEF Checkpoints
  <2> DEFINE saved == [step |-> step[s], estimator |-> to_dict(est)]
  <2> HIDE DEF saved
  <2>2. store' = [store EXCEPT ![s] = saved] /\ saved \in Checkpoints
    BY <1>5, <2>1 DEF checkpoint, saved
  <2>3. store' \in [Sessions -> Checkpoints \cup {None}]
    BY <2>2
  <2>4. saves' \in 0 .. MaxSaves
    BY <1>5 DEF checkpoint
  <2> QED BY <1>5, <2>3, <2>4 DEF checkpoint
<1>6. ASSUME NEW s \in Sessions, complete(s)
      PROVE  TypeInv'
  <2>1. /\ store' = [store EXCEPT ![s] = None]
        /\ pc' = [pc EXCEPT ![s] = "done"] /\ step' = [step EXCEPT ![s] = 0]
        /\ UNCHANGED <<work, est, _ambient, failures, saves>>
    BY <1>6 DEF complete
  <2>2. /\ store' \in [Sessions -> Checkpoints \cup {None}]
        /\ pc' \in [Sessions -> {"out", "idle", "calling", "done"}]
        /\ step' \in [Sessions -> 0 .. MaxSteps]
    BY <2>1
  <2>3. \A t \in Sessions : pc'[t] = "calling" =>
          pc[t] = "calling" /\ step'[t] = step[t]
    BY <2>1
  <2> QED BY <2>1, <2>2, <2>3
<1>7. ASSUME NEW s \in Sessions, Suspend(s)
      PROVE  TypeInv'
  BY <1>7 DEF Suspend
<1>8. CASE Restart
  <2>1. est' \in Estimators
    <3>1. <<>> \in Seq(Errors) /\ <<>> \in Seq(Samples)
      BY EmptySeq
    <3> QED BY <1>8, <3>1 DEF Restart, Untaught, Estimators
  <2>2. 0 \in 0 .. MaxSteps
    OBVIOUS
  <2> QED BY <1>8, <2>1, <2>2 DEF Restart
<1>9. CASE UNCHANGED vars
  BY <1>9 DEF vars
<1> QED BY <1>1, <1>2, <1>3, <1>4, <1>5, <1>6, <1>7, <1>8, <1>9 DEF Next

\* The estimator, the checkpoints and the sessions stay within their types.
THEOREM TypeCorrect == Spec => []TypeOK
<1>1. TypeInv => TypeOK
  BY DEF TypeInv
<1> QED BY <1>1, InitType, TypeStep, PTL DEF Spec

-----------------------------------------------------------------------------
(* One history.                                                            *)

\* The samples kept reach as far back as the recent errors do.
SamplesReach == error_window <= sample_cap

HistoryInv == Taught /\ AllSaved

\* An estimator nobody has taught is of the empty history.
LEMMA HistoryInit == Init => HistoryInv
<1> SUFFICES ASSUME Init PROVE HistoryInv
  OBVIOUS
<1>1. est.errors = <<>> /\ est.all = <<>> /\ est.samples = <<>>
  BY DEF Init, Untaught
<1>2. <<>> \in Seq(Errors) /\ <<>> \in Seq(Samples) /\ Len(<<>>) = 0
  BY EmptySeq
<1>3. 0 <= sample_cap /\ 0 <= error_window
  OBVIOUS
<1> QED BY <1>1, <1>2, <1>3
        DEF HistoryInv, Taught, AllSaved, Memory, Ends, Init

\* Steps, checkpoints, loads and restarts keep to one history.
LEMMA HistoryStep ==
  ASSUME SamplesReach
  PROVE  TypeInv /\ HistoryInv /\ [Next]_vars => HistoryInv'
<1> SUFFICES ASSUME TypeInv, HistoryInv, [Next]_vars
             PROVE  HistoryInv'
  OBVIOUS
<1> USE DEF HistoryInv
<1>0. /\ est \in Estimators /\ store \in [Sessions -> Checkpoints \cup {None}]
      /\ Taught /\ AllSaved
  BY DEF TypeInv, TypeOK
<1>1. ASSUME NEW s \in Sessions, Enter(s)
      PROVE  HistoryInv'
  <2>1. AllSaved'
    BY <1>0, <1>1 DEF Enter, AllSaved
  <2>2. CASE est' = est
    BY <1>0, <2>1, <2>2 DEF Taught
  <2>3. CASE store[s] # None /\ est' = load(est, store[s].estimator)
    <3>1. Saved(store[s].estimator)
      BY <1>0, <2>3 DEF AllSaved
    <3>2. /\ est'.errors = store[s].estimator.recent_errors
          /\ est'.all = store[s].estimator.errors
          /\ est'.samples = store[s].estimator.samples
      BY <1>0, <2>3, <3>1, MemoryLoaded
    <3>3. Memory(est'.errors, est'.all, est'.samples)
      BY <3>1, <3>2 DEF Saved
    <3> QED BY <2>1, <3>3 DEF Taught
  <2> QED BY <1>1, <2>2, <2>3 DEF Enter
<1>2. ASSUME NEW s \in Sessions, _record_success(s)
      PROVE  HistoryInv'
  <2>1. SampleOf(s) \in Samples
    BY <1>2, SampleType DEF _record_success
  <2>2. est' = record(est, SampleOf(s))
    BY <1>2 DEF _record_success, SampleOf
  <2>3. /\ est'.errors =
             Last_n(Append(est.errors, SampleOf(s).err), error_window)
        /\ est'.all = AfterPhase(Append(est.all, SampleOf(s).err))
        /\ est'.samples = Last_n(Append(est.samples, SampleOf(s)), sample_cap)
    BY <1>0, <2>1, <2>2, RecordTeaches
  <2>4. Memory(est'.errors, est'.all, est'.samples)
    BY <1>0, <2>1, <2>3, MemoryGrows DEF Taught, SamplesReach
  <2>5. AllSaved'
    BY <1>0, <1>2 DEF _record_success, AllSaved
  <2> QED BY <2>4, <2>5 DEF Taught
<1>3. ASSUME NEW s \in Sessions, checkpoint(s)
      PROVE  HistoryInv'
  <2>1. Saved(to_dict(est))
    BY <1>0, MemorySaved
  <2>2. store' = [store EXCEPT ![s] =
                    [step |-> step[s], estimator |-> to_dict(est)]]
    BY <1>3 DEF checkpoint
  <2>3. \A t \in Sessions :
          \/ store'[t] = store[t]
          \/ store'[t].estimator = to_dict(est)
    BY <1>0, <2>2
  <2>4. AllSaved'
    BY <1>0, <2>1, <2>3 DEF AllSaved
  <2> QED BY <1>0, <1>3, <2>4 DEF checkpoint, Taught
<1>4. ASSUME NEW s \in Sessions, complete(s)
      PROVE  HistoryInv'
  <2>1. \A t \in Sessions : store'[t] \in {store[t], None}
    BY <1>0, <1>4 DEF complete
  <2> QED BY <1>0, <1>4, <2>1 DEF complete, Taught, AllSaved
<1>5. CASE Restart
  <2>1. est'.errors = <<>> /\ est'.all = <<>> /\ est'.samples = <<>>
    BY <1>5 DEF Restart, Untaught
  <2>2. <<>> \in Seq(Errors) /\ <<>> \in Seq(Samples) /\ Len(<<>>) = 0
    BY EmptySeq
  <2>3. 0 <= sample_cap /\ 0 <= error_window
    OBVIOUS
  <2>4. Memory(est'.errors, est'.all, est'.samples)
    BY <2>1, <2>2, <2>3 DEF Memory, Ends
  <2> QED BY <1>0, <1>5, <2>4 DEF Restart, Taught, AllSaved
<1>6. CASE est' = est /\ store' = store
  BY <1>0, <1>6 DEF Taught, AllSaved
<1>7. (\E s \in Sessions : Call(s) \/ Raise(s) \/ Suspend(s))
        \/ UNCHANGED vars => est' = est /\ store' = store
  BY DEF Call, Raise, Suspend, vars
<1> QED BY <1>1, <1>2, <1>3, <1>4, <1>5, <1>6, <1>7 DEF Next

\* The recent errors are those of the last samples.
LEMMA HistoryIsOne == TypeInv /\ HistoryInv => OneHistory
<1> SUFFICES ASSUME TypeInv, HistoryInv PROVE OneHistory
  OBVIOUS
<1> DEFINE errs == ErrorsOf(est.samples)
<1>1. /\ est.samples \in Seq(Samples)
      /\ Memory(est.errors, est.all, est.samples)
  BY DEF TypeInv, TypeOK, Estimators, HistoryInv, Taught
<1>2. /\ Len(est.samples) \in Nat
      /\ DOMAIN est.samples = 1 .. Len(est.samples)
      /\ \A i \in 1 .. Len(est.samples) : est.samples[i].err \in Errors
  <2>1. \A i \in 1 .. Len(est.samples) : est.samples[i] \in Samples
    BY <1>1, ElementOfSeq
  <2>2. \A i \in 1 .. Len(est.samples) : est.samples[i].err \in Errors
    BY <2>1 DEF Samples
  <2> QED BY <1>1, <2>2, LenProperties
<1>3. /\ errs \in Seq(Errors) /\ Len(errs) = Len(est.samples)
      /\ \A i \in 1 .. Len(errs) : errs[i] = est.samples[i].err
  <2>1. errs = [i \in 1 .. Len(est.samples) |-> est.samples[i].err]
    BY <1>2 DEF ErrorsOf
  <2>2. errs \in [1 .. Len(est.samples) -> Errors]
    BY <1>2, <2>1
  <2>3. errs \in Seq(Errors)
    BY ONLY <1>2, <2>2
  <2>4. Len(errs) = Len(est.samples)
    BY <1>2, <2>3, <2>2, LenProperties
  <2> QED BY <2>1, <2>3, <2>4
<1> HIDE DEF errs
<1>4. error_window \in Nat
  OBVIOUS
<1> DEFINE last == Last_n(errs, error_window)
<1>10. IsLast(last, errs, error_window, Errors)
  BY <1>3, <1>4, LastOf
<1> HIDE DEF last
<1>5. /\ last \in Seq(Errors) /\ Len(last) \in Nat
      /\ Len(last) = IF Len(errs) <= error_window THEN Len(errs)
                                                  ELSE error_window
      /\ \A k \in 0 .. Len(last) - 1 :
            k < Len(errs) /\ last[Len(last) - k] = errs[Len(errs) - k]
  BY <1>10 DEF IsLast
<1>6. est.errors \in Seq(Errors) /\ Len(est.errors) = Len(last)
  BY <1>1, <1>3, <1>5 DEF Memory
<1>7. ASSUME NEW sofar, NEW k \in 0 .. Len(sofar) - 1, k < Len(errs),
             Ends(sofar, est.samples)
      PROVE  sofar[Len(sofar) - k] = errs[Len(errs) - k]
  <2>1. sofar[Len(sofar) - k] = est.samples[Len(est.samples) - k].err
    BY <1>3, <1>7 DEF Ends
  <2>2. Len(errs) - k \in 1 .. Len(errs)
    <3>1. Len(errs) \in Nat /\ k \in Nat
      BY <1>2, <1>3, <1>7
    <3> QED BY <1>7, <3>1
  <2> QED BY <1>3, <2>1, <2>2
<1>8. est.errors = last
  <2>1. Len(last) \in Nat
    BY <1>5
  <2>2. ASSUME NEW i \in 1 .. Len(est.errors)
        PROVE  est.errors[i] = last[i]
    <3> DEFINE k == Len(last) - i
    <3>1. k \in 0 .. Len(last) - 1 /\ Len(last) - k = i
      BY <1>6, <2>1
    <3>2. k < Len(errs) /\ last[Len(last) - k] = errs[Len(errs) - k]
      BY <1>5, <3>1
    <3>3. est.errors[Len(est.errors) - k] = errs[Len(errs) - k]
      BY <1>1, <1>6, <1>7, <3>1, <3>2 DEF Memory
    <3> QED BY <1>6, <3>1, <3>2, <3>3
  <2> QED BY <1>5, <1>6, <2>2, SeqEqual
<1>9. \A k \in 0 .. Len(est.all) - 1 : k < Len(errs) =>
        est.all[Len(est.all) - k] = errs[Len(errs) - k]
  BY <1>1, <1>7 DEF Memory
<1> QED BY <1>8, <1>9 DEF OneHistory, errs, last

\* However many histories are loaded, from however many sessions at once, the
\* recent errors and the margins are those of the history last loaded, as long
\* as the samples kept reach as far back as the recent errors.
THEOREM HistoriesStayApart ==
  ASSUME SamplesReach
  PROVE  Spec => []OneHistory
<1>1. TypeInv /\ HistoryInv /\ [Next]_vars => TypeInv' /\ HistoryInv'
  BY TypeStep, HistoryStep
<1> QED BY <1>1, InitType, HistoryInit, HistoryIsOne, PTL DEF Spec

-----------------------------------------------------------------------------
(* A checkpoint carries its steps.                                         *)

\* Sessions follow one another.
OneByOne == ~ Overlap

\* Nothing a run can teach falls out of the samples kept.
RoomForAll == MaxSamples <= sample_cap

Active(s) == pc[s] \in {"idle", "calling"}

\* The first n steps of session s are among the samples.
Carried(samples, s, n) ==
    \A k \in 1 .. n : \E i \in DOMAIN samples :
        samples[i].of = s /\ samples[i].step = k

Single == \A s, t \in Sessions : Active(s) /\ Active(t) => s = t

\* The session at work has taught the estimator all its steps.
StepsTaught ==
    \A s \in Sessions : Active(s) => Carried(est.samples, s, step[s])

\* A call in flight finds room for its sample.
SampleRoom ==
    \A s \in Sessions : pc[s] = "calling" => Len(est.samples) < MaxSamples

\* No more samples are held or saved than are kept.
Few ==
    /\ Len(est.samples) <= sample_cap
    /\ \A s \in Sessions : store[s] # None =>
          Len(store[s].estimator.samples) <= sample_cap

CarryInv ==
    Single /\ StepsTaught /\ SampleRoom /\ Few /\ CheckpointCarriesItsSteps

\* One more sample takes none of the steps away, and adds its own.
LEMMA CarriedAppend ==
  ASSUME NEW samples \in Seq(Samples), NEW sample \in Samples,
         NEW s \in Sessions, NEW n \in Nat, Carried(samples, s, n),
         sample.of = s, sample.step = n + 1
  PROVE  Carried(Append(samples, sample), s, n + 1)
<1> DEFINE more == Append(samples, sample)
<1>1. /\ Len(samples) \in Nat /\ Len(more) = Len(samples) + 1
      /\ more \in Seq(Samples)
      /\ \A i \in 1 .. Len(samples) : more[i] = samples[i]
      /\ more[Len(samples) + 1] = sample
  BY AppendProperties, LenProperties
<1>2. DOMAIN more = 1 .. Len(samples) + 1 /\ DOMAIN samples = 1 .. Len(samples)
  BY <1>1, LenProperties
<1> HIDE DEF more
<1>3. ASSUME NEW k \in 1 .. n + 1
      PROVE  \E i \in DOMAIN more : more[i].of = s /\ more[i].step = k
  <2>1. CASE k = n + 1
    <3>1. Len(samples) + 1 \in DOMAIN more
      BY <1>1, <1>2
    <3> QED BY <1>1, <2>1, <3>1
  <2>2. CASE k # n + 1
    <3>1. k \in 1 .. n
      BY <2>2
    <3>2. PICK i \in DOMAIN samples : samples[i].of = s /\ samples[i].step = k
      BY <3>1 DEF Carried
    <3>3. i \in DOMAIN more /\ more[i] = samples[i]
      BY <1>1, <1>2
    <3> QED BY <3>2, <3>3
  <2> QED BY <2>1, <2>2
<1> QED BY <1>3 DEF Carried, more

\* Nobody is at work and nothing is saved at first.
LEMMA CarryInit == Init => CarryInv
<1> SUFFICES ASSUME Init PROVE CarryInv
  OBVIOUS
<1>1. est.samples = <<>> /\ Len(<<>>) = 0 /\ 0 <= sample_cap
  BY DEF Init, Untaught
<1> QED BY <1>1 DEF Init, CarryInv, Single, Active, StepsTaught, SampleRoom, Few,
                    CheckpointCarriesItsSteps

\* The steps taught are those of the session at work: it loads its own, adds
\* its own, and saves its own.
LEMMA CarryStep ==
  ASSUME OneByOne, RoomForAll
  PROVE  TypeInv /\ CarryInv /\ [Next]_vars => CarryInv'
<1> SUFFICES ASSUME TypeInv, CarryInv, [Next]_vars
             PROVE  CarryInv'
  OBVIOUS
<1>0. /\ est \in Estimators /\ store \in [Sessions -> Checkpoints \cup {None}]
      /\ pc \in [Sessions -> {"out", "idle", "calling", "done"}]
      /\ step \in [Sessions -> 0 .. MaxSteps]
      /\ sample_cap \in Nat /\ MaxSamples \in Nat
      /\ Len(est.samples) \in Nat /\ est.samples \in Seq(Samples)
  <2>1. est \in Estimators /\ est.samples \in Seq(Samples)
    BY DEF TypeInv, TypeOK, Estimators
  <2>2. Len(est.samples) \in Nat
    BY <2>1, LenProperties
  <2> QED BY <2>1, <2>2 DEF TypeInv, TypeOK
<1> USE DEF CarryInv
<1>1. ASSUME NEW s \in Sessions, Enter(s)
      PROVE  CarryInv'
  <2>1. /\ \A t \in Sessions : ~ Active(t)
        /\ pc' = [pc EXCEPT ![s] = "idle"] /\ store' = store
    BY <1>1 DEF Enter, OneByOne, Active
  <2>2. \A t \in Sessions : Active(t)' => t = s /\ pc'[t] = "idle"
    BY <1>0, <2>1 DEF Active
  <2>3. /\ Carried(est'.samples, s, step'[s])
        /\ Len(est'.samples) <= sample_cap
    <3>1. CASE store[s] = None
      <4>1. step'[s] = 0 /\ est' = est
        BY <1>0, <1>1, <3>1 DEF Enter
      <4> QED BY <4>1 DEF Carried, Few
    <3>2. CASE store[s] # None /\ store[s].step > 0
      <4>1. /\ step'[s] = store[s].step
            /\ est' = load(est, store[s].estimator)
        BY <1>0, <1>1, <3>2 DEF Enter
      <4>2. est'.samples = store[s].estimator.samples
        <5> DEFINE state == store[s].estimator
                   errors == Last_n(state.recent_errors, error_window)
                   loaded == [est EXCEPT !.errors = errors, !.all = state.errors,
                                         !.samples = state.samples]
        <5>1. state \in [errors : Seq(Errors), recent_errors : Seq(Errors),
                         samples : Seq(Samples)]
          BY <1>0, <3>2 DEF Checkpoints
        <5> HIDE DEF state
        <5>2. errors \in Seq(Errors)
          <6>1. error_window \in Nat /\ state.recent_errors \in Seq(Errors)
            BY <5>1
          <6> QED BY <6>1, LastType
        <5>3. loaded \in Estimators /\ loaded.samples = state.samples
          <6> HIDE DEF errors
          <6> QED BY <1>0, <5>1, <5>2 DEF Estimators
        <5>4. est' = _refit(loaded)
          BY <4>1 DEF load, state
        <5> HIDE DEF loaded
        <5> QED BY <5>3, <5>4, RefitKeeps DEF state
      <4>3. Carried(store[s].estimator.samples, s, store[s].step)
        BY <3>2 DEF CheckpointCarriesItsSteps, Carried
      <4>4. Len(store[s].estimator.samples) <= sample_cap
        BY <3>2 DEF Few
      <4> QED BY <4>1, <4>2, <4>3, <4>4
    <3>3. CASE store[s] # None /\ ~ (store[s].step > 0)
      <4>1. step'[s] = store[s].step /\ est' = est
        BY <1>0, <1>1, <3>3 DEF Enter
      <4>2. store[s].step = 0
        BY <1>0, <3>3 DEF Checkpoints
      <4> QED BY <4>1, <4>2 DEF Carried, Few
    <3> QED BY <3>1, <3>2, <3>3
  <2>4. Single' /\ SampleRoom'
    BY <2>2 DEF Single, SampleRoom, Active
  <2>5. StepsTaught'
    BY <2>2, <2>3 DEF StepsTaught
  <2>6. Few' /\ CheckpointCarriesItsSteps'
    BY <2>1, <2>3 DEF Few, CheckpointCarriesItsSteps
  <2> QED BY <2>4, <2>5, <2>6
<1>2. ASSUME NEW s \in Sessions, Call(s)
      PROVE  CarryInv'
  <2>1. /\ pc[s] = "idle" /\ Len(est.samples) < MaxSamples
        /\ pc' = [pc EXCEPT ![s] = "calling"]
        /\ est' = est /\ step' = step /\ store' = store
    BY <1>2 DEF Call
  <2>2. \A t \in Sessions : Active(t)' => Active(t)
    BY <1>0, <2>1 DEF Active
  <2>3. Single' /\ StepsTaught' /\ SampleRoom'
    BY <2>1, <2>2 DEF Single, StepsTaught, SampleRoom
  <2> QED BY <2>1, <2>3 DEF Few, CheckpointCarriesItsSteps
<1>3. ASSUME NEW s \in Sessions, _record_success(s)
      PROVE  CarryInv'
  <2>1. SampleOf(s) \in Samples
    BY <1>3, SampleType DEF _record_success
  <2>2. est' = record(est, SampleOf(s))
    BY <1>3 DEF _record_success, SampleOf
  <2> DEFINE more == Append(est.samples, SampleOf(s))
  <2>3. Len(more) = Len(est.samples) + 1
    BY <1>0, <2>1, AppendProperties
  <2>4. Len(more) <= sample_cap
    <3>1. Len(est.samples) < MaxSamples
      BY <1>3 DEF _record_success, SampleRoom
    <3> HIDE DEF more
    <3> QED BY <1>0, <2>3, <3>1 DEF RoomForAll
  <2>5. est'.samples = more
    <3>1. est'.samples = Last_n(more, sample_cap)
      BY <1>0, <2>1, <2>2, RecordTeaches
    <3> HIDE DEF more
    <3> QED BY <2>4, <3>1, LastOfShort
  <2>6. /\ pc[s] = "calling" /\ pc' = [pc EXCEPT ![s] = "idle"]
        /\ step' = [step EXCEPT ![s] = @ + 1] /\ store' = store
    BY <1>3 DEF _record_success
  <2>7. \A t \in Sessions : Active(t)' => t = s /\ pc'[t] = "idle"
    BY <1>0, <2>6 DEF Active, Single
  <2>8. Carried(est'.samples, s, step'[s])
    <3>1. step[s] \in Nat /\ step'[s] = step[s] + 1
      BY <1>0, <2>6
    <3>2. Carried(est.samples, s, step[s])
      BY <2>6 DEF StepsTaught, Active
    <3>3. SampleOf(s).of = s /\ SampleOf(s).step = step[s] + 1
      BY DEF SampleOf
    <3> QED BY <1>0, <2>1, <2>5, <3>1, <3>2, <3>3, CarriedAppend
  <2> HIDE DEF more
  <2>9. Single' /\ SampleRoom' /\ StepsTaught'
    BY <2>7, <2>8 DEF Single, SampleRoom, StepsTaught, Active
  <2>10. Few' /\ CheckpointCarriesItsSteps'
    BY <2>4, <2>5, <2>6 DEF Few, CheckpointCarriesItsSteps
  <2> QED BY <2>9, <2>10
<1>4. ASSUME NEW s \in Sessions, Raise(s)
      PROVE  CarryInv'
  <2>1. /\ pc[s] = "calling" /\ pc' = [pc EXCEPT ![s] = "idle"]
        /\ est' = est /\ step' = step /\ store' = store
    BY <1>4 DEF Raise
  <2>2. \A t \in Sessions :
          /\ Active(t)' => Active(t)
          /\ pc'[t] = "calling" => pc[t] = "calling"
    BY <1>0, <2>1 DEF Active
  <2>3. Single' /\ StepsTaught' /\ SampleRoom'
    BY <2>1, <2>2 DEF Single, StepsTaught, SampleRoom
  <2>4. Few'
    BY <2>1 DEF Few
  <2>5. CheckpointCarriesItsSteps'
    BY <2>1 DEF CheckpointCarriesItsSteps
  <2> QED BY <2>3, <2>4, <2>5
<1>5. ASSUME NEW s \in Sessions, checkpoint(s)
      PROVE  CarryInv'
  <2> DEFINE saved == [step |-> step[s], estimator |-> to_dict(est)]
  <2>1. /\ pc[s] = "idle" /\ store' = [store EXCEPT ![s] = saved]
        /\ est' = est /\ step' = step /\ pc' = pc
    BY <1>5 DEF checkpoint
  <2>2. to_dict(est).samples = est.samples
    <3>1. Last_n(est.samples, sample_cap) = est.samples
      BY LastOfShort DEF Few
    <3> QED BY <3>1 DEF to_dict
  <2>3. /\ saved.step = step[s] /\ saved.estimator.samples = est.samples
    BY <2>2
  <2> HIDE DEF saved
  <2>4. store'[s] = saved /\ \A t \in Sessions \ {s} : store'[t] = store[t]
    BY <1>0, <2>1
  <2>5. Carried(est.samples, s, step[s])
    BY <2>1 DEF StepsTaught, Active
  <2>6. CheckpointCarriesItsSteps'
    <3>1. ASSUME NEW t \in Sessions, store'[t] # None
          PROVE  Carried(store'[t].estimator.samples, t, store'[t].step)
      <4>1. CASE t = s
        BY <2>3, <2>4, <2>5, <4>1
      <4>2. CASE t # s
        BY <2>4, <3>1, <4>2 DEF CheckpointCarriesItsSteps, Carried
      <4> QED BY <4>1, <4>2
    <3> QED BY <3>1 DEF CheckpointCarriesItsSteps, Carried
  <2>7. Few'
    BY <2>1, <2>3, <2>4 DEF Few
  <2>8. Single' /\ StepsTaught' /\ SampleRoom'
    BY <2>1 DEF Single, StepsTaught, SampleRoom, Active
  <2> QED BY <2>6, <2>7, <2>8
<1>6. ASSUME NEW s \in Sessions, complete(s) \/ Suspend(s)
      PROVE  CarryInv'
  <2>1. /\ pc'[s] \in {"out", "done"} /\ est' = est
        /\ \A t \in Sessions \ {s} : pc'[t] = pc[t] /\ step'[t] = step[t]
        /\ \A t \in Sessions : store'[t] \in {store[t], None}
    BY <1>0, <1>6 DEF complete, Suspend
  <2>2. \A t \in Sessions :
          /\ Active(t)' => Active(t) /\ step'[t] = step[t]
          /\ pc'[t] = "calling" => pc[t] = "calling"
    BY <2>1 DEF Active
  <2>3. Single' /\ StepsTaught' /\ SampleRoom'
    BY <2>1, <2>2 DEF Single, StepsTaught, SampleRoom
  <2>4. \A t \in Sessions : store'[t] # None => store[t] # None
                                               /\ store'[t] = store[t]
    BY <2>1
  <2>5. Few'
    BY <2>1, <2>4 DEF Few
  <2>6. CheckpointCarriesItsSteps'
    <3>1. ASSUME NEW t \in Sessions, store'[t] # None
          PROVE  Carried(store'[t].estimator.samples, t, store'[t].step)
      BY <2>4, <3>1 DEF CheckpointCarriesItsSteps, Carried
    <3> QED BY <3>1 DEF CheckpointCarriesItsSteps, Carried
  <2> QED BY <2>3, <2>5, <2>6
<1>7. CASE Restart
  <2>1. /\ \A t \in Sessions : pc'[t] \in {"out", "done"}
        /\ store' = store /\ est'.samples = <<>>
    BY <1>0, <1>7 DEF Restart, Untaught
  <2>2. Len(<<>>) = 0
    OBVIOUS
  <2>3. Single' /\ StepsTaught' /\ SampleRoom'
    BY <2>1 DEF Single, StepsTaught, SampleRoom, Active
  <2>4. Few' /\ CheckpointCarriesItsSteps'
    BY <1>0, <2>1, <2>2 DEF Few, CheckpointCarriesItsSteps
  <2> QED BY <2>3, <2>4
<1>8. CASE UNCHANGED vars
  BY <1>8 DEF vars, Single, StepsTaught, SampleRoom, Few, Active,
              CheckpointCarriesItsSteps
<1> QED BY <1>1, <1>2, <1>3, <1>4, <1>5, <1>6, <1>7, <1>8 DEF Next

\* F9.3: whatever is resumed, done again after a restart or checkpointed in
\* between, a checkpoint carries the samples of all the steps behind it, where
\* sessions follow one another and no sample falls out of the cap.
THEOREM ResumesCalibrated ==
  ASSUME OneByOne, RoomForAll
  PROVE  Spec => []CheckpointCarriesItsSteps
<1>1. TypeInv /\ CarryInv /\ [Next]_vars => TypeInv' /\ CarryInv'
  BY TypeStep, CarryStep
<1>2. CarryInv => CheckpointCarriesItsSteps
  BY DEF CarryInv
<1> QED BY <1>1, <1>2, InitType, CarryInit, PTL DEF Spec

=============================================================================
