--------------------------- MODULE Pacing_proofs ----------------------------
(***************************************************************************)
(* Agents that are told to wait.  Before a provider's window: the gate's   *)
(* cached reading is never richer than the window it describes, and the    *)
(* wait it advises is long enough, for every window, ping cost, cache age  *)
(* and step, as long as no reading is made up.  Before a human and a tool: *)
(* the sliding windows are kept and the waits they advise are exact, for   *)
(* any number of agents and any window.                                    *)
(***************************************************************************)
EXTENDS Guard, Attention, FiniteSetTheorems, TLAPS

-----------------------------------------------------------------------------
(* Arithmetic of the refill.                                               *)

\* Rounded up, a quotient is no less than the quotient.
LEMMA CeilDivCovers ==
  ASSUME NEW x \in Nat, NEW y \in Nat \ {0}
  PROVE  CeilDiv(x, y) \in Nat /\ CeilDiv(x, y) * y >= x
<1> DEFINE q == (-x) \div y
<1>1. q \in Int /\ q * y <= -x
  OBVIOUS
<1>2. q <= 0
  <2>1. CASE q >= 1
    <3>1. q * y >= y
      BY <1>1, <2>1
    <3> QED BY <1>1, <3>1
  <2> QED BY <1>1, <2>1
<1>3. (-q) * y = -(q * y)
  BY <1>1
<1> HIDE DEF q
<1>4. (-q) \in Nat /\ (-q) * y >= x
  BY <1>1, <1>2, <1>3
<1> QED BY <1>4 DEF CeilDiv, q

\* A reading of r tokens that is a ticks old leaves `missing - a' of them to
\* come.  The share of that wait a step asks for covers it, age included.
LEMMA ShareCovers ==
  ASSUME NEW missing \in Nat, NEW deficit \in Nat, deficit <= missing,
         NEW a \in Nat, a < missing, NEW w \in Nat,
         w * (missing * 100) >= deficit * (missing - a) * 115
  PROVE  a + w >= deficit
<1> DEFINE dm == deficit * missing
           da == deficit * a
           am == a * missing
           wm == w * missing
<1>1. dm \in Int /\ da \in Int /\ am \in Int /\ wm \in Int
  OBVIOUS
<1>2. w * (missing * 100) = wm * 100
  OBVIOUS
<1>3. deficit * (missing - a) * 115 = (dm - da) * 115
  OBVIOUS
<1>4. da <= am
  OBVIOUS
<1>5. deficit * (missing - a) \in Nat
  OBVIOUS
<1>6. dm - da >= 0
  <2>1. deficit * (missing - a) = dm - da
    OBVIOUS
  <2> QED BY <1>5, <2>1
<1>7. SUFFICES ASSUME a + w < deficit PROVE FALSE
  OBVIOUS
<1>8. wm <= dm - am - missing
  <2>1. w <= deficit - a - 1
    BY <1>7
  <2>2. w * missing <= (deficit - a - 1) * missing
    BY <2>1
  <2>3. (deficit - a - 1) * missing = dm - am - missing
    OBVIOUS
  <2> QED BY <2>2, <2>3
<1> HIDE DEF dm, da, am, wm
<1>9. wm * 100 >= (dm - da) * 115
  BY <1>2, <1>3
<1>10. wm >= dm - da
  BY <1>1, <1>6, <1>9
<1> QED BY <1>1, <1>4, <1>8, <1>10

-----------------------------------------------------------------------------
(* Readings.                                                               *)

\* A reading no richer than window w with what was spent unseen of it, u, a
\* ticks after it was taken; and one that leaves a request was parsed from
\* headers, and its reset clock is right.
Poorer(b, w, a, u) ==
    /\ b \in Readings
    /\ b.remaining_tokens <= Limit
    /\ b.remaining_tokens <= w.tokens + u.tokens
    /\ b.remaining_requests \in 0 .. RequestLimit
    /\ b.remaining_requests <= w.requests + u.requests
    /\ b.remaining_requests > 0 =>
          /\ b.limit_tokens = Limit
          /\ b.reset_seconds = Limit - b.remaining_tokens
          /\ Lesser(Limit, b.remaining_tokens + a) <= w.tokens + u.tokens

\* A reading that makes nothing up is no richer than the window.
Honest == ~Silent \/ Fallback = None

CacheOK(w, b, a, u) ==
    b # None => /\ a \in 0 .. AgeCap
                /\ Poorer(b, w, a, u)
                /\ Silent => b.remaining_tokens = 0 /\ b.remaining_requests = 0

\* Every reading kept is one older than AgeCap in every way that counts.
LEMMA AgeCapIsLate == AgeCap \in Nat /\ AgeCap >= Limit
BY GuardAssumption, ClockAssumption DEF AgeCap, Greater, FiveSeconds

\* A reading that knows its tokens, its requests and both clocks.
Parsed(r, q, s, c) ==
    [TokenBudget(r) EXCEPT !.remaining_requests     = q,
                           !.reset_seconds          = s,
                           !.reset_requests_seconds = c,
                           !.limit_tokens           = Limit]

\* It is a budget.
LEMMA ParsedOK ==
  ASSUME NEW r \in Nat, NEW q \in Nat, NEW s \in Nat, NEW c \in Nat
  PROVE  /\ Parsed(r, q, s, c) \in Readings
         /\ Parsed(r, q, s, c).remaining_tokens = r
         /\ Parsed(r, q, s, c).remaining_requests = q
         /\ Parsed(r, q, s, c).reset_seconds = s
         /\ Parsed(r, q, s, c).limit_tokens = Limit
BY DEF Parsed, TokenBudget, Readings, Clocks

\* What the headers say of a window is no more than what is in it.
LEMMA AbsorbOK ==
  ASSUME NEW w \in Windows
  PROVE  absorb(w) \in Readings /\ Poorer(absorb(w), w, 0, Nothing)
<1>1. /\ w.tokens \in 0 .. Limit /\ w.requests \in 0 .. RequestLimit
      /\ w.requests_reset \in Nat /\ Limit - w.tokens \in Nat
      /\ w.tokens \in Nat /\ w.requests \in Nat
      /\ Limit \in Nat /\ RequestLimit \in Nat
  BY GuardAssumption DEF Windows
<1>2. PICK t \in Nat, q \in Nat, s \in Nat, c \in Nat :
         t = w.tokens /\ q = w.requests /\ s = Limit - w.tokens
            /\ c = w.requests_reset
  BY <1>1
<1>3. absorb(w) = Parsed(t, q, s, c)
  BY <1>2 DEF absorb, Parsed
<1>4. /\ absorb(w) \in Readings
      /\ absorb(w).remaining_tokens = t
      /\ absorb(w).remaining_requests = q
      /\ absorb(w).reset_seconds = s
      /\ absorb(w).limit_tokens = Limit
  BY <1>3, ParsedOK
<1>5. Lesser(Limit, w.tokens + 0) <= w.tokens
  BY <1>1 DEF Lesser
<1>6. Nothing.tokens = 0 /\ Nothing.requests = 0
  BY DEF Nothing, Spent
<1> QED BY <1>1, <1>2, <1>4, <1>5, <1>6 DEF Poorer

\* A refused ping says that nothing is left.
Denied(reset, after) ==
    [TokenBudget(0) EXCEPT !.remaining_requests     = 0,
                           !.reset_seconds          = reset,
                           !.reset_requests_seconds = after]

\* It is a budget, and no richer than any window.
LEMMA DeniedOK ==
  ASSUME NEW w \in Windows, NEW reset \in Clocks, NEW after \in Clocks
  PROVE  /\ Denied(reset, after) \in Readings
         /\ Poorer(Denied(reset, after), w, 0, Nothing)
         /\ Denied(reset, after).remaining_tokens = 0
         /\ Denied(reset, after).remaining_requests = 0
<1>1. /\ Denied(reset, after).remaining_tokens = 0
      /\ Denied(reset, after).remaining_requests = 0
      /\ Denied(reset, after) \in Readings
  BY DEF Denied, TokenBudget, Readings
<1>2. w.tokens \in Nat /\ w.requests \in Nat
  BY GuardAssumption DEF Windows
<1>3. Nothing.tokens = 0 /\ Nothing.requests = 0
  BY DEF Nothing, Spent
<1> QED BY <1>1, <1>2, <1>3, GuardAssumption DEF Poorer

\* A reading stays one of the window as time passes.
LEMMA ElapseOK ==
  ASSUME NEW w \in Windows, NEW d \in Nat
  PROVE  /\ Elapse(w, d) \in Windows
         /\ Elapse(w, d).tokens = Lesser(Limit, w.tokens + d)
         /\ Elapse(w, d).requests >= w.requests
<1>1. /\ w.tokens \in 0 .. Limit /\ w.requests \in 0 .. RequestLimit
      /\ w.requests_reset \in 0 .. RequestPeriod
      /\ Limit \in Nat /\ RequestLimit \in Nat /\ RequestPeriod \in Nat
  BY GuardAssumption DEF Windows
<1>2. Elapse(w, d).tokens = Lesser(Limit, w.tokens + d)
  BY DEF Elapse
<1>3. Lesser(Limit, w.tokens + d) \in 0 .. Limit
  BY <1>1 DEF Lesser
<1>4. /\ Elapse(w, d).requests \in 0 .. RequestLimit
      /\ Elapse(w, d).requests >= w.requests
  BY <1>1 DEF Elapse
<1>5. Elapse(w, d).requests_reset \in 0 .. RequestPeriod
  BY <1>1 DEF Elapse
<1>6. Elapse(w, d) = [tokens |-> Elapse(w, d).tokens,
                      requests |-> Elapse(w, d).requests,
                      requests_reset |-> Elapse(w, d).requests_reset]
  BY DEF Elapse
<1> QED BY <1>2, <1>3, <1>4, <1>5, <1>6 DEF Windows

\* The refill and the reading's age keep in step, up to a full window.
LEMMA AgeInStep ==
  ASSUME NEW r \in Nat, NEW a \in Nat, NEW t \in Nat, NEW d \in Nat,
         NEW limit \in Nat, NEW cap \in Nat, cap >= limit, NEW u \in Nat,
         Lesser(limit, r + a) <= t + u
  PROVE  Lesser(limit, r + Lesser(a + d, cap)) <= Lesser(limit, t + d) + u
BY DEF Lesser

\* What is cached stays poorer than the window while the provider refills.
LEMMA CacheAges ==
  ASSUME NEW w \in Windows, NEW b, NEW a, NEW d \in Nat,
         NEW u \in Spendings, CacheOK(w, b, a, u)
  PROVE  CacheOK(Elapse(w, d), b,
                 IF a = None THEN None ELSE Lesser(a + d, AgeCap), u)
<1> DEFINE v == Elapse(w, d)
           e == Lesser(a + d, AgeCap)
<1> SUFFICES ASSUME b # None
             PROVE  CacheOK(v, b, IF a = None THEN None ELSE e, u)
  BY DEF CacheOK
<1>1. /\ a \in 0 .. AgeCap /\ Poorer(b, w, a, u)
      /\ Silent => b.remaining_tokens = 0 /\ b.remaining_requests = 0
  BY DEF CacheOK
<1>2. AgeCap \in Nat /\ AgeCap >= Limit /\ Limit \in Nat
  BY AgeCapIsLate, GuardAssumption
<1>3. a # None /\ a \in Nat /\ e \in 0 .. AgeCap
  BY <1>1, <1>2, NoneAssumption DEF Lesser
<1>4. /\ v \in Windows /\ v.tokens = Lesser(Limit, w.tokens + d)
      /\ v.requests >= w.requests
  BY ElapseOK
<1>5. /\ w.tokens \in 0 .. Limit /\ w.requests \in Nat
      /\ v.tokens \in Nat /\ v.requests \in Nat
      /\ u.tokens \in Nat /\ u.requests \in Nat
  BY <1>4, GuardAssumption DEF Windows, Spendings
<1>6. v.tokens >= w.tokens
  BY <1>2, <1>4, <1>5 DEF Lesser
<1> HIDE DEF v, e
<1>7. b.remaining_tokens \in Nat
  BY <1>1 DEF Poorer, Readings
<1>8. ASSUME Lesser(Limit, b.remaining_tokens + a) <= w.tokens + u.tokens
      PROVE  Lesser(Limit, b.remaining_tokens + e) <= v.tokens + u.tokens
  <2>1. PICK x \in Nat, r \in Nat, t \in Nat :
           x = u.tokens /\ r = b.remaining_tokens /\ t = w.tokens
    BY <1>5, <1>7, GuardAssumption
  <2>2. Lesser(Limit, r + Lesser(a + d, AgeCap)) <= Lesser(Limit, t + d) + x
    BY <1>2, <1>3, <1>8, <2>1, AgeInStep
  <2> QED BY <1>4, <2>1, <2>2 DEF e
<1>9. Poorer(b, v, e, u)
  <2>1. b.remaining_requests \in Nat
    BY <1>1, GuardAssumption DEF Poorer
  <2> QED BY <1>1, <1>4, <1>5, <1>6, <1>7, <1>8, <2>1 DEF Poorer
<1> QED BY <1>1, <1>3, <1>9 DEF CacheOK

\* The age a reading served from the cache has is taken off its clocks.
LEMMA AgedOK ==
  ASSUME NEW c \in Clocks, NEW a \in Nat
  PROVE  /\ Aged(c, a) \in Clocks
         /\ c \in Nat => Aged(c, a) = Greater(0, c - a)
<1>1. ASSUME c \in Nat PROVE Greater(0, c - a) \in Nat
  BY <1>1 DEF Greater
<1> QED BY <1>1, NoneAssumption DEF Aged, Known, Clocks

\* What is left of a budget is not changed by its age, only its clocks are.
LEMMA AdjustedOK ==
  ASSUME NEW b \in Readings, NEW a \in Nat
  PROVE  LET v == age_adjusted(b, a)
         IN  /\ v \in Readings
             /\ v.remaining_tokens = b.remaining_tokens
             /\ v.remaining_requests = b.remaining_requests
             /\ v.limit_tokens = b.limit_tokens
             /\ b.reset_seconds \in Nat =>
                   v.reset_seconds = Greater(0, b.reset_seconds - a)
<1> DEFINE s == Aged(b.reset_seconds, a)
           t == Aged(b.reset_requests_seconds, a)
<1>1. s \in Clocks /\ t \in Clocks
  BY AgedOK DEF Readings
<1>2. b.reset_seconds \in Nat => s = Greater(0, b.reset_seconds - a)
  BY AgedOK DEF Clocks
<1>3. a # None
  BY NoneAssumption
<1>4. age_adjusted(b, a) = [b EXCEPT !.reset_seconds = s,
                                     !.reset_requests_seconds = t]
  BY <1>3 DEF age_adjusted
<1> HIDE DEF s, t
<1> QED BY <1>1, <1>2, <1>4 DEF Readings

\* A decision's wait is a time the reading knows of, and short enough.
LEMMA WaitKnown ==
  ASSUME NEW b, NEW s, NEW t, NEW m, decide(b, s, t, m).action = "wait"
  PROVE  /\ decide(b, s, t, m).wait_seconds = wait_s(b, s, m)
         /\ Known(wait_s(b, s, m))
         /\ time_fit(b, s) /\ ~AllFit(b, s, m)
<1> DEFINE soon == Known(wait_s(b, s, m)) /\ wait_s(b, s, m) <= t
<1> HIDE DEF soon
<1>1. decide(b, s, t, m)
        = CASE ~time_fit(b, s) -> Decision("checkpoint", None)
            [] time_fit(b, s) /\ AllFit(b, s, m) -> Decision("continue", None)
            [] time_fit(b, s) /\ ~AllFit(b, s, m) ->
                  IF soon THEN Decision("wait", wait_s(b, s, m))
                          ELSE Decision("checkpoint", None)
  BY Zenon DEF decide, soon
<1>2. ~time_fit(b, s) => decide(b, s, t, m).action = "checkpoint"
  BY <1>1 DEF Decision
<1>3. time_fit(b, s) /\ AllFit(b, s, m)
        => decide(b, s, t, m).action = "continue"
  BY <1>1 DEF Decision
<1>4. time_fit(b, s) /\ ~AllFit(b, s, m)
  BY <1>2, <1>3
<1>5. soon
  BY <1>1, <1>4 DEF Decision
<1>6. decide(b, s, t, m) = Decision("wait", wait_s(b, s, m))
  BY <1>1, <1>4, <1>5
<1> QED BY <1>4, <1>5, <1>6 DEF Decision, soon

\* The gate opens only for a step every dimension of the reading covers.
LEMMA ContinueFits ==
  ASSUME NEW b, NEW s, NEW t, NEW m, decide(b, s, t, m).action = "continue"
  PROVE  tokens_fit(b, s) /\ requests_fit(b, m)
<1> DEFINE soon == Known(wait_s(b, s, m)) /\ wait_s(b, s, m) <= t
<1> HIDE DEF soon
<1>1. decide(b, s, t, m)
        = CASE ~time_fit(b, s) -> Decision("checkpoint", None)
            [] time_fit(b, s) /\ AllFit(b, s, m) -> Decision("continue", None)
            [] time_fit(b, s) /\ ~AllFit(b, s, m) ->
                  IF soon THEN Decision("wait", wait_s(b, s, m))
                          ELSE Decision("checkpoint", None)
  BY Zenon DEF decide, soon
<1>2. ~time_fit(b, s) => decide(b, s, t, m).action = "checkpoint"
  BY <1>1 DEF Decision
<1>3. time_fit(b, s) /\ ~AllFit(b, s, m)
        => decide(b, s, t, m).action \in {"wait", "checkpoint"}
  BY <1>1 DEF Decision
<1> QED BY <1>2, <1>3 DEF AllFit

\* What a wait for tokens is, on a reading parsed from headers.
LEMMA TokenWait ==
  ASSUME NEW b \in Readings, NEW n \in Nat \ {0}, NEW t,
         decide(b, TokenStep(n), t, 0).action = "wait",
         requests_fit(b, 0), b.limit_tokens = Limit,
         b.reset_seconds \in Nat
  PROVE  LET w == decide(b, TokenStep(n), t, 0).wait_seconds
         IN  /\ b.remaining_tokens < n /\ n <= Limit
             /\ \/ w = b.reset_seconds
                \/ /\ w = BufferedWait(b, n - b.remaining_tokens)
                   /\ b.reset_seconds > 0 /\ b.remaining_tokens < Limit
<1> DEFINE s == TokenStep(n)
           w == decide(b, s, t, 0).wait_seconds
<1>1. /\ w = wait_s(b, s, 0) /\ Known(wait_s(b, s, 0)) /\ ~AllFit(b, s, 0)
  BY WaitKnown
<1>2. s.needed = n /\ s.input = None /\ s.output = None
  BY DEF TokenStep
<1>3. split_fit(b, s)
  BY <1>2 DEF split_fit, Fits, Known
<1>4. ~tokens_fit(b, s)
  BY <1>1, <1>3 DEF AllFit
<1>5. b.remaining_tokens < n
  BY <1>2, <1>4 DEF tokens_fit, should_checkpoint
<1>6. ~NeedsWholeWindow(b, s) /\ w = refill_wait(b, n)
  BY <1>1, <1>2, <1>3 DEF wait_s, Known
<1>7. Limit \in Nat /\ b.remaining_tokens \in Nat
  BY GuardAssumption DEF Readings
<1>8. n <= Limit
  <2>1. ~(100 * n >= 98 * Limit)
    BY <1>2, <1>6, <1>7, NoneAssumption DEF NeedsWholeWindow, Known
  <2> QED BY <2>1, <1>7
<1> DEFINE r == b.reset_seconds
           e == BufferedWait(b, n - b.remaining_tokens)
<1>9. Known(r)
  BY NoneAssumption DEF Known
<1> HIDE DEF w, e
<1>10. CASE ~RateKnown(b)
  <2>1. w = r
    BY <1>6, <1>9, <1>10 DEF refill_wait
  <2> QED BY <1>5, <1>8, <2>1 DEF w
<1>11. CASE RateKnown(b)
  <2>1. ~(n <= b.remaining_tokens)
    BY <1>5, <1>7
  <2>2. w = Lesser(r, e)
    BY <1>6, <1>9, <1>11, <2>1 DEF refill_wait, e
  <2>3. w = r \/ w = e
    BY <2>2 DEF Lesser
  <2>4. r > 0 /\ b.remaining_tokens < Limit
    BY <1>7, <1>11 DEF RateKnown
  <2> QED BY <1>5, <1>8, <2>3, <2>4 DEF w, e
<1> QED BY <1>10, <1>11

\* After the advised wait the window covers the step: a reading a ticks old,
\* with its clocks advanced by as much, waits long enough.
LEMMA WaitCovers ==
  ASSUME NEW b \in Readings, NEW n \in Nat \ {0}, NEW t,
         NEW a \in Nat, NEW tokens \in Nat,
         b.limit_tokens = Limit, b.remaining_tokens <= Limit,
         b.reset_seconds = Greater(0, Limit - b.remaining_tokens - a),
         Lesser(Limit, b.remaining_tokens + a) <= tokens,
         requests_fit(b, 0),
         decide(b, TokenStep(n), t, 0).action = "wait"
  PROVE  /\ decide(b, TokenStep(n), t, 0).wait_seconds \in Nat
         /\ tokens + decide(b, TokenStep(n), t, 0).wait_seconds >= n
         /\ n <= Limit
<1> DEFINE w == decide(b, TokenStep(n), t, 0).wait_seconds
           r == b.remaining_tokens
           c == b.reset_seconds
           D == Limit - r
           d == n - r
<1>1. r \in Nat /\ Limit \in Nat /\ c \in Nat /\ D \in Nat
  BY GuardAssumption DEF Readings, Greater
<1>2. /\ r < n /\ n <= Limit
      /\ w = c \/ /\ w = BufferedWait(b, d)
                  /\ c > 0 /\ r < Limit
  BY <1>1, TokenWait
<1> HIDE DEF w
<1>3. CASE w = c
  <2>1. tokens + c >= Limit
    BY <1>1 DEF Lesser, Greater
  <2> QED BY <1>1, <1>2, <1>3, <2>1 DEF w
<1>4. CASE w = BufferedWait(b, d) /\ c > 0 /\ r < Limit
  <2>1. /\ c = D - a /\ a < D /\ d \in Nat /\ d <= D /\ D > 0
        /\ r + a <= tokens
    BY <1>1, <1>2, <1>4 DEF Greater, Lesser
  <2> DEFINE x == d * c * 115
             y == D * 100
  <2>2. w = CeilDiv(x, y)
    BY <1>4 DEF BufferedWait
  <2>3. x \in Nat /\ y \in Nat \ {0}
    BY <1>1, <2>1
  <2>4. w \in Nat /\ w * y >= x
    BY <2>2, <2>3, CeilDivCovers
  <2>5. w * (D * 100) >= d * (D - a) * 115
    BY <2>1, <2>4
  <2> HIDE DEF D, d
  <2>6. a + w >= d
    BY <1>1, <2>1, <2>4, <2>5, ShareCovers
  <2>7. d = n - r
    BY DEF d
  <2> QED BY <1>1, <1>2, <2>1, <2>4, <2>6, <2>7 DEF w
<1> QED BY <1>2, <1>3, <1>4

-----------------------------------------------------------------------------
(* The gate.                                                               *)

\* A call let through is one the provider takes, but for what was spent unseen.
Admitted ==
    pc = "proceed" => /\ window.tokens + unseen.tokens >= needed
                      /\ window.requests + unseen.requests >= 1

\* A sleep is a time, and leaves the step covered when tokens are short.
Advised ==
    pc = "sleeping" =>
       /\ reading \in Readings
       /\ decision.wait_seconds \in Nat
       /\ requests_fit(reading, 0) =>
             /\ needed <= Limit
             /\ window.tokens + unseen.tokens + decision.wait_seconds >= needed

\* TypeOK, and what is known of the cache wherever check() stands.
GateOK ==
    /\ TypeOK
    /\ CacheOK(window, cache, age, unseen)
    /\ age # None => cache # None
    /\ Admitted /\ Advised

\* What a reading of telemetry leaves behind, and what it serves.
OutcomeOK(o) ==
    /\ o.window \in Windows
    /\ o.cache \in Readings \cup {None}
    /\ o.age \in 0 .. AgeCap \cup {None}
    /\ o.unseen \in Spendings
    /\ CacheOK(o.window, o.cache, o.age, o.unseen)
    /\ o.age # None => o.cache # None
    /\ o.ok /\ o.cache = None => Silent

\* Nothing is an amount.
LEMMA NothingOK ==
  Nothing \in Spendings /\ Nothing.tokens = 0 /\ Nothing.requests = 0
BY GuardAssumption DEF Nothing, Spent, Spendings

\* What is unseen stays within a window.
LEMMA UnseenOK ==
  ASSUME unseen \in Spendings, NEW h \in BOOLEAN,
         NEW x, x.tokens \in Nat, x.requests \in Nat
  PROVE  /\ Unseen(h, x) \in Spendings
         /\ ~(h /\ ~Silent) =>
               /\ Unseen(h, x).tokens = Lesser(unseen.tokens + x.tokens, Limit)
               /\ Unseen(h, x).requests
                     = Lesser(unseen.requests + x.requests, RequestLimit)
<1> DEFINE tt == Lesser(unseen.tokens + x.tokens, Limit)
           qq == Lesser(unseen.requests + x.requests, RequestLimit)
<1>1. tt \in 0 .. Limit /\ qq \in 0 .. RequestLimit
  BY GuardAssumption DEF Spendings, Lesser
<1>2. Unseen(h, x) = IF h /\ ~Silent THEN Nothing ELSE Spent(tt, qq)
  BY DEF Unseen
<1> HIDE DEF tt, qq
<1>3. Spent(tt, qq) \in Spendings
      /\ Spent(tt, qq).tokens = tt /\ Spent(tt, qq).requests = qq
  BY <1>1 DEF Spent, Spendings
<1> QED BY <1>2, <1>3, NothingOK DEF tt, qq

\* What a call spends unseen is missing from the window and in the account.
LEMMA MissedOK ==
  ASSUME GateOK, NEW used \in Nat, used <= window.tokens,
         NEW n \in Nat, n <= window.requests,
         NEW w \in Windows, w.tokens = window.tokens - used,
         w.requests = window.requests - n,
         NEW u \in Spendings,
         u.tokens = Lesser(unseen.tokens + used, Limit),
         u.requests = Lesser(unseen.requests + n, RequestLimit)
  PROVE  CacheOK(w, cache, age, u)
<1> SUFFICES ASSUME cache # None PROVE CacheOK(w, cache, age, u)
  BY DEF CacheOK
<1>1. /\ age \in 0 .. AgeCap /\ Poorer(cache, window, age, unseen)
      /\ Silent => cache.remaining_tokens = 0 /\ cache.remaining_requests = 0
  BY DEF GateOK, CacheOK
<1>2. /\ window.tokens \in Nat /\ window.requests \in Nat
      /\ unseen.tokens \in Nat /\ unseen.requests \in Nat
      /\ Limit \in Nat /\ RequestLimit \in Nat
  BY GuardAssumption DEF GateOK, TypeOK, Windows, Spendings
<1> DEFINE m == Lesser(Limit, cache.remaining_tokens + age)
<1>3. cache.remaining_tokens \in Nat /\ cache.remaining_requests \in Nat
  BY <1>1, <1>2 DEF Poorer, Readings
<1>4. age \in Nat /\ m \in Nat /\ m <= Limit
  BY <1>1, <1>2, <1>3, AgeCapIsLate DEF Lesser
<1>5. ASSUME NEW x \in Nat, x <= Limit, x <= window.tokens + unseen.tokens
      PROVE  x <= w.tokens + u.tokens
  BY <1>2, <1>5 DEF Lesser
<1>6. cache.remaining_requests <= w.requests + u.requests
  BY <1>1, <1>2, <1>3 DEF Poorer, Lesser
<1>7. cache.remaining_tokens <= w.tokens + u.tokens
  BY <1>1, <1>3, <1>5 DEF Poorer
<1>8. m <= window.tokens + unseen.tokens => m <= w.tokens + u.tokens
  BY <1>4, <1>5
<1> HIDE DEF m
<1>9. Poorer(cache, w, age, u)
  BY <1>1, <1>6, <1>7, <1>8 DEF Poorer, m
<1> QED BY <1>1, <1>9 DEF CacheOK

\* A response that spent nothing leaves window and account as they were.
LEMMA NothingMissed ==
  ASSUME GateOK, NEW h \in BOOLEAN, ~(h /\ ~Silent)
  PROVE  CacheOK(window, cache, age, Unseen(h, Nothing))
<1>1. /\ window \in Windows /\ unseen \in Spendings
      /\ window.tokens \in Nat /\ window.requests \in Nat
  BY GuardAssumption DEF GateOK, TypeOK, Windows
<1>2. /\ Unseen(h, Nothing) \in Spendings
      /\ Unseen(h, Nothing).tokens = Lesser(unseen.tokens + 0, Limit)
      /\ Unseen(h, Nothing).requests = Lesser(unseen.requests + 0, RequestLimit)
  BY <1>1, NothingOK, UnseenOK
<1> QED BY <1>1, <1>2, MissedOK

\* Headers, where they come, replace what is cached.
LEMMA ReadOK ==
  ASSUME NEW w \in Windows, NEW h \in BOOLEAN, GateOK,
         NEW x, x.tokens \in Nat, x.requests \in Nat,
         ~(h /\ ~Silent) => CacheOK(w, cache, age, Unseen(h, x))
  PROVE  /\ Read(w, h) \in Readings \cup {None}
         /\ ReadAge(h) \in 0 .. AgeCap \cup {None}
         /\ Unseen(h, x) \in Spendings
         /\ CacheOK(w, Read(w, h), ReadAge(h), Unseen(h, x))
         /\ ReadAge(h) # None => Read(w, h) # None
         /\ h /\ ~Silent => Read(w, h) # None
<1>0. Unseen(h, x) \in Spendings
  BY UnseenOK DEF GateOK, TypeOK
<1>1. CASE h /\ ~Silent
  <2>1. /\ Read(w, h) = absorb(w) /\ ReadAge(h) = 0
        /\ Unseen(h, x) = Nothing
    BY <1>1 DEF Read, ReadAge, Unseen
  <2>2. 0 \in 0 .. AgeCap
    BY AgeCapIsLate
  <2> QED BY <1>0, <1>1, <2>1, <2>2, AbsorbOK, ReadingAssumption DEF CacheOK
<1>2. CASE ~(h /\ ~Silent)
  <2>1. Read(w, h) = cache /\ ReadAge(h) = age
    BY <1>2 DEF Read, ReadAge
  <2> QED BY <1>0, <1>2, <2>1 DEF GateOK, TypeOK
<1> QED BY <1>1, <1>2

\* A silent provider leaves nothing but a refusal in the cache.
LEMMA SpentOK ==
  ASSUME GateOK, NEW w \in Windows, NEW u \in Spendings, Silent
  PROVE  CacheOK(w, cache, age, u)
<1> SUFFICES ASSUME cache # None PROVE CacheOK(w, cache, age, u)
  BY DEF CacheOK
<1>1. /\ age \in 0 .. AgeCap /\ cache \in Readings
      /\ cache.remaining_tokens = 0 /\ cache.remaining_requests = 0
  BY DEF GateOK, CacheOK, Poorer
<1>2. /\ w.tokens \in Nat /\ w.requests \in Nat
      /\ u.tokens \in Nat /\ u.requests \in Nat
  BY GuardAssumption DEF Windows, Spendings
<1> QED BY <1>1, <1>2, GuardAssumption DEF CacheOK, Poorer

\* What a request leaves of the window.
LEMMA SpendOK ==
  ASSUME NEW w \in Windows, NEW used \in Nat, used <= w.tokens, w.requests > 0
  PROVE  [Spend(w) EXCEPT !.tokens = w.tokens - used] \in Windows
<1>1. /\ w.tokens \in 0 .. Limit /\ w.requests \in 0 .. RequestLimit
      /\ w.requests_reset \in 0 .. RequestPeriod
      /\ Limit \in Nat /\ RequestLimit \in Nat /\ RequestPeriod \in Nat
  BY GuardAssumption DEF Windows
<1> DEFINE c == IF w.requests_reset = 0 THEN RequestPeriod ELSE w.requests_reset
<1>2. c \in 0 .. RequestPeriod
  BY <1>1
<1>3. [Spend(w) EXCEPT !.tokens = w.tokens - used]
        = [tokens |-> w.tokens - used, requests |-> w.requests - 1,
           requests_reset |-> c]
  BY DEF Spend
<1>4. w.tokens - used \in 0 .. Limit /\ w.requests - 1 \in 0 .. RequestLimit
  BY <1>1
<1> QED BY <1>2, <1>3, <1>4 DEF Windows

\* Whatever the provider answers a ping, the reading is one of the window.
LEMMA PingOK == ASSUME GateOK, NEW o \in ping PROVE OutcomeOK(o)
<1>1. window \in Windows
  BY DEF GateOK, TypeOK
<1>2. /\ window.tokens \in Nat /\ window.requests \in Nat
      /\ window.requests_reset \in Nat /\ PingCost \in Nat
  BY <1>1, GuardAssumption DEF Windows
<1>3. CASE Accepts(window) /\ o \in PingAnswered
  <2> DEFINE w == Spend(window)
  <2>1. w \in Windows
    <3>1. Spend(window) = [Spend(window) EXCEPT !.tokens = window.tokens - PingCost]
      BY DEF Spend
    <3> QED BY <1>1, <1>2, <1>3, <3>1, SpendOK DEF Accepts
  <2> DEFINE x == Spent(PingCost, 1)
             u == Unseen(TRUE, x)
  <2>2. o = Outcome(w, Read(w, TRUE), ReadAge(TRUE), u, TRUE)
    BY <1>3 DEF PingAnswered
  <2>x. x.tokens \in Nat /\ x.requests \in Nat
    BY <1>2 DEF Spent
  <2> HIDE DEF w, x
  <2>3. Silent => CacheOK(w, cache, age, u)
    <3>1. u \in Spendings
      BY <2>x, UnseenOK DEF GateOK, TypeOK
    <3> QED BY <2>1, <3>1, SpentOK
  <2>4. /\ Read(w, TRUE) \in Readings \cup {None}
        /\ ReadAge(TRUE) \in 0 .. AgeCap \cup {None}
        /\ u \in Spendings
        /\ CacheOK(w, Read(w, TRUE), ReadAge(TRUE), u)
        /\ ReadAge(TRUE) # None => Read(w, TRUE) # None
        /\ ~Silent => Read(w, TRUE) # None
    BY <2>1, <2>x, <2>3, ReadOK
  <2> QED BY <2>1, <2>2, <2>4 DEF OutcomeOK, Outcome
<1>4. CASE o \in Ping429
  <2> DEFINE Reset(h) == IF Read(window, h) = None
                           THEN FiveSeconds ELSE Read(window, h).reset_seconds
             D(t, h) == Outcome(window, Denied(FalsyOr(t, Reset(h)), t), 0,
                               Nothing, TRUE)
  <2>0. Ping429 = {D(t, h) : t \in {None, RetryAfter(window)}, h \in BOOLEAN}
    BY DEF Ping429, Denied
  <2> HIDE DEF D
  <2>1. PICK after \in {None, RetryAfter(window)}, headers \in BOOLEAN :
           o = D(after, headers)
    BY <1>4, <2>0
  <2> DEFINE known == Read(window, headers)
             reset == IF known = None THEN FiveSeconds ELSE known.reset_seconds
  <2>2. reset \in Clocks
    <3>1. known \in Readings \cup {None}
      BY <1>1, NothingMissed, NothingOK, ReadOK
    <3> QED BY <3>1, ClockAssumption DEF Readings, Clocks, FiveSeconds
  <2>3. after \in Clocks
    BY <1>2 DEF RetryAfter, Greater, Clocks
  <2>4. FalsyOr(after, reset) \in Clocks
    BY <2>2, <2>3 DEF FalsyOr
  <2> DEFINE d == Denied(FalsyOr(after, reset), after)
  <2>5. o = Outcome(window, d, 0, Nothing, TRUE)
    BY <2>1 DEF D
  <2> HIDE DEF known, reset
  <2>6. /\ d \in Readings /\ Poorer(d, window, 0, Nothing)
        /\ d.remaining_tokens = 0 /\ d.remaining_requests = 0
    BY <1>1, <2>3, <2>4, DeniedOK
  <2> HIDE DEF d
  <2>7. d # None /\ 0 \in 0 .. AgeCap
    BY <2>6, ReadingAssumption, AgeCapIsLate
  <2>8. CacheOK(window, d, 0, Nothing)
    BY <2>6, <2>7 DEF CacheOK
  <2> QED BY <1>1, <2>5, <2>6, <2>7, <2>8, NothingOK DEF OutcomeOK, Outcome
<1>5. CASE o \in Ping5xx
  <2>1. PICK headers \in BOOLEAN :
           o = Outcome(window, Read(window, headers), ReadAge(headers),
                       Unseen(headers, Nothing), FALSE)
    BY <1>5 DEF Ping5xx
  <2>2. /\ Read(window, headers) \in Readings \cup {None}
        /\ ReadAge(headers) \in 0 .. AgeCap \cup {None}
        /\ Unseen(headers, Nothing) \in Spendings
        /\ CacheOK(window, Read(window, headers), ReadAge(headers),
                   Unseen(headers, Nothing))
        /\ ReadAge(headers) # None => Read(window, headers) # None
    BY <1>1, NothingMissed, NothingOK, ReadOK
  <2> QED BY <1>1, <2>1, <2>2 DEF OutcomeOK, Outcome
<1> QED BY <1>3, <1>4, <1>5 DEF ping

\* So is a reading served from the cache.
LEMMA BudgetOK == ASSUME GateOK, NEW o \in budget PROVE OutcomeOK(o)
<1>1. CASE is_fresh
  <2>1. o = Outcome(window, cache, age, unseen, TRUE) /\ age # None
    BY <1>1 DEF budget, is_fresh
  <2> QED BY <2>1 DEF GateOK, TypeOK, OutcomeOK, Outcome
<1>2. CASE ~is_fresh
  BY <1>2, PingOK DEF budget
<1> QED BY <1>1, <1>2

\* What is served without an error is a reading, as old as it says.
LEMMA ServedOK ==
  ASSUME Honest, NEW o, OutcomeOK(o), Served(o) # None
  PROVE  /\ o.cache # None /\ o.age \in Nat
         /\ Poorer(o.cache, o.window, o.age, o.unseen)
         /\ Served(o) = age_adjusted(o.cache, o.age)
         /\ Served(o) \in Readings
<1>1. o.ok
  BY DEF Served
<1>2. o.cache # None
  <2>1. CASE o.cache = None
    <3>1. Fallback = None
      BY <1>1, <2>1 DEF OutcomeOK, Honest
    <3>2. Served(o) = None
      BY <1>1, <2>1, <3>1 DEF Served, Known
    <3> QED BY <3>2
  <2> QED BY <2>1
<1>3. Served(o) = age_adjusted(o.cache, o.age)
  BY <1>1, <1>2 DEF Served
<1>4. o.age \in 0 .. AgeCap /\ Poorer(o.cache, o.window, o.age, o.unseen)
  BY <1>2 DEF OutcomeOK, CacheOK
<1>5. o.age \in Nat /\ o.cache \in Readings
  BY <1>4, AgeCapIsLate DEF Poorer
<1> QED BY <1>2, <1>3, <1>4, <1>5, AdjustedOK

\* Requests are known of every reading, so one that fits has one left.
LEMMA RequestsLeft ==
  ASSUME NEW b, b.remaining_requests \in Nat, requests_fit(b, 0)
  PROVE  b.remaining_requests > 0
BY NoneAssumption DEF requests_fit, Fits, Known

\* A wait is a time.
LEMMA WaitIsTime ==
  ASSUME NEW b \in Readings, NEW n \in Nat \ {0}, NEW t,
         decide(b, TokenStep(n), t, 0).action = "wait",
         ~requests_fit(b, 0)
  PROVE  decide(b, TokenStep(n), t, 0).wait_seconds \in Nat
<1> DEFINE s == TokenStep(n)
<1>1. /\ decide(b, s, t, 0).wait_seconds = wait_s(b, s, 0)
      /\ Known(wait_s(b, s, 0))
  BY WaitKnown
<1>2. wait_s(b, s, 0) = FalsyOr(b.reset_requests_seconds, b.reset_seconds)
  BY DEF wait_s
<1>3. wait_s(b, s, 0) \in Clocks
  BY <1>2 DEF FalsyOr, Readings
<1> QED BY <1>1, <1>3 DEF Known, Clocks

\* There are three decisions.
LEMMA DecideIsOne ==
  ASSUME NEW b, NEW s, NEW t, NEW m
  PROVE  decide(b, s, t, m).action \in {"continue", "wait", "checkpoint"}
<1> DEFINE soon == Known(wait_s(b, s, m)) /\ wait_s(b, s, m) <= t
<1> HIDE DEF soon
<1>1. decide(b, s, t, m)
        = CASE ~time_fit(b, s) -> Decision("checkpoint", None)
            [] time_fit(b, s) /\ AllFit(b, s, m) -> Decision("continue", None)
            [] time_fit(b, s) /\ ~AllFit(b, s, m) ->
                  IF soon THEN Decision("wait", wait_s(b, s, m))
                          ELSE Decision("checkpoint", None)
  BY Zenon DEF decide, soon
<1> QED BY <1>1 DEF Decision

\* What a decision on a reading served to the gate is worth.
LEMMA DecisionOK ==
  ASSUME NEW w \in Windows, NEW c, NEW a \in Nat, NEW u \in Spendings,
         Poorer(c, w, a, u),
         NEW n \in Nat \ {0}, NEW t
  PROVE  LET b == age_adjusted(c, a)
             d == decide(b, TokenStep(n), t, 0)
         IN  /\ d.action = "continue" =>
                   w.tokens + u.tokens >= n /\ w.requests + u.requests >= 1
             /\ d.action = "wait" =>
                   /\ d.wait_seconds \in Nat
                   /\ requests_fit(b, 0) =>
                         /\ n <= Limit
                         /\ w.tokens + u.tokens + d.wait_seconds >= n
<1> DEFINE b == age_adjusted(c, a)
           s == TokenStep(n)
           d == decide(b, s, t, 0)
<1>1. /\ c \in Readings /\ c.remaining_tokens <= w.tokens + u.tokens
      /\ c.remaining_requests \in Nat
      /\ c.remaining_requests <= w.requests + u.requests
      /\ w.tokens + u.tokens \in Nat /\ w.requests + u.requests \in Nat
      /\ c.remaining_tokens \in Nat
  BY GuardAssumption DEF Poorer, Windows, Spendings, Readings
<1>2. /\ b \in Readings
      /\ b.remaining_tokens = c.remaining_tokens
      /\ b.remaining_requests = c.remaining_requests
      /\ b.limit_tokens = c.limit_tokens
      /\ c.reset_seconds \in Nat =>
            b.reset_seconds = Greater(0, c.reset_seconds - a)
  BY <1>1, AdjustedOK
<1> HIDE DEF b
<1>3. requests_fit(b, 0) => b.remaining_requests > 0
  BY <1>1, <1>2, RequestsLeft
<1>4. ASSUME d.action = "continue"
      PROVE  w.tokens + u.tokens >= n /\ w.requests + u.requests >= 1
  <2>1. tokens_fit(b, s) /\ requests_fit(b, 0)
    BY <1>4, ContinueFits
  <2>2. s.needed = n
    BY DEF TokenStep
  <2>3. ~(b.remaining_tokens < n)
    BY <2>1, <2>2 DEF tokens_fit, should_checkpoint
  <2>4. b.remaining_requests > 0
    BY <1>3, <2>1
  <2> QED BY <1>1, <1>2, <2>3, <2>4
<1>5. ASSUME d.action = "wait", requests_fit(b, 0)
      PROVE  /\ d.wait_seconds \in Nat /\ n <= Limit
             /\ w.tokens + u.tokens + d.wait_seconds >= n
  <2>1. c.remaining_requests > 0
    BY <1>2, <1>3, <1>5
  <2>2. /\ c.limit_tokens = Limit /\ c.remaining_tokens <= Limit
        /\ c.reset_seconds = Limit - c.remaining_tokens
        /\ Lesser(Limit, c.remaining_tokens + a) <= w.tokens + u.tokens
    BY <2>1 DEF Poorer
  <2>3. c.reset_seconds \in Nat
    BY <1>1, <2>2, GuardAssumption
  <2>4. b.reset_seconds = Greater(0, Limit - b.remaining_tokens - a)
    BY <1>2, <2>2, <2>3
  <2> QED BY <1>1, <1>2, <1>5, <2>2, <2>4, WaitCovers
<1>6. ASSUME d.action = "wait", ~requests_fit(b, 0) PROVE d.wait_seconds \in Nat
  BY <1>2, <1>6, WaitIsTime
<1> QED BY <1>4, <1>5, <1>6 DEF b

\* What the gated call needs is a number of tokens.
LEMMA NeededIsSome == ASSUME GateOK PROVE needed \in Nat \ {0}
BY GuardAssumption DEF GateOK, TypeOK

\* A pass of the gate.
LEMMA PassOK == ASSUME Honest, GateOK, Pass PROVE GateOK'
<1>1. PICK o \in budget :
         /\ window' = o.window /\ cache' = o.cache /\ age' = o.age
         /\ unseen' = o.unseen
         /\ reading' = Served(o)
         /\ decision' = IF Served(o) = None
                          THEN None
                          ELSE decide(Served(o), TokenStep(needed),
                                      Threshold, 0)
         /\ pc' = CASE Served(o) = None -> "raised"
                    [] Served(o) # None /\ decision'.action = "continue" ->
                          "proceed"
                    [] Served(o) # None /\ decision'.action = "wait" ->
                          "sleeping"
                    [] Served(o) # None /\ decision'.action = "checkpoint" ->
                          "interrupting"
  BY DEF Pass
<1>2. OutcomeOK(o)
  BY BudgetOK
<1>3. /\ passes' = passes + 1 /\ passes < MaxResumes
      /\ UNCHANGED <<needed, answers, resumes>>
  BY DEF Pass, interrupts
<1>4. /\ window' \in Windows /\ cache' \in Readings \cup {None}
      /\ age' \in 0 .. AgeCap \cup {None} /\ unseen' \in Spendings
      /\ needed' \in Needs /\ passes' \in 0 .. MaxResumes
      /\ resumes' \in 0 .. MaxResumes /\ answers' \in 0 .. resumes'
  BY <1>1, <1>2, <1>3, GuardAssumption DEF OutcomeOK, GateOK, TypeOK
<1>5. CacheOK(window', cache', age', unseen') /\ (age' # None => cache' # None)
  BY <1>1, <1>2 DEF OutcomeOK
<1>6. CASE Served(o) = None
  <2>1. pc' = "raised" /\ decision' = None /\ reading' = None
    BY <1>1, <1>6
  <2> QED BY <1>4, <1>5, <2>1 DEF GateOK, TypeOK, Admitted, Advised
<1>7. CASE Served(o) # None
  <2> DEFINE d == decide(Served(o), TokenStep(needed), Threshold, 0)
  <2>1. /\ o.age \in Nat /\ Poorer(o.cache, o.window, o.age, o.unseen)
        /\ Served(o) = age_adjusted(o.cache, o.age) /\ Served(o) \in Readings
    BY <1>2, <1>7, ServedOK
  <2>2. decision' = d /\ reading' = Served(o)
    BY <1>1, <1>7
  <2>3. d.action \in {"continue", "wait", "checkpoint"}
    BY DecideIsOne
  <2>4. /\ d.action = "continue" =>
              /\ o.window.tokens + o.unseen.tokens >= needed
              /\ o.window.requests + o.unseen.requests >= 1
        /\ d.action = "wait" =>
              /\ d.wait_seconds \in Nat
              /\ requests_fit(Served(o), 0) =>
                    /\ needed <= Limit
                    /\ o.window.tokens + o.unseen.tokens + d.wait_seconds
                          >= needed
    BY <1>2, <2>1, NeededIsSome, DecisionOK DEF OutcomeOK
  <2> HIDE DEF d
  <2>5. /\ pc' \in {"proceed", "sleeping", "interrupting"}
        /\ pc' = "proceed" => d.action = "continue"
        /\ pc' = "sleeping" => d.action = "wait"
    BY <1>1, <1>7, <2>2, <2>3
  <2>6. TypeOK'
    BY <1>4, <2>1, <2>2, <2>3, <2>5 DEF TypeOK
  <2>7. Admitted'
    BY <1>1, <1>3, <2>4, <2>5 DEF Admitted
  <2>8. Advised'
    BY <1>1, <1>3, <2>1, <2>2, <2>4, <2>5 DEF Advised
  <2> QED BY <1>5, <2>6, <2>7, <2>8 DEF GateOK
<1> QED BY <1>6, <1>7

\* Time passes for the provider and the cache alike.
LEMMA TimePassesOK ==
  ASSUME GateOK, NEW d \in Nat, TimePasses(d),
         cache' = cache, unseen' = unseen
  PROVE  /\ window' \in Windows /\ unseen' \in Spendings
         /\ age' \in 0 .. AgeCap \cup {None}
         /\ CacheOK(window', cache', age', unseen')
         /\ age' # None => cache' # None
<1>1. /\ window \in Windows /\ age \in 0 .. AgeCap \cup {None}
      /\ unseen \in Spendings
  BY DEF GateOK, TypeOK
<1>2. window' \in Windows
  BY <1>1, ElapseOK DEF TimePasses
<1>3. age' \in 0 .. AgeCap \cup {None} /\ (age' # None => age # None)
  BY <1>1, AgeCapIsLate DEF TimePasses, Lesser
<1>4. CacheOK(window', cache', age', unseen')
  BY <1>1, CacheAges DEF GateOK, TimePasses
<1> QED BY <1>1, <1>2, <1>3, <1>4 DEF GateOK

\* Whatever is advised, a sleep takes some time.
LEMMA SleepOK == ASSUME GateOK, Sleep PROVE GateOK'
<1> DEFINE x == FalsyOr(FalsyOr(decision.wait_seconds, reading.reset_seconds),
                        OneSecond)
           d == Lesser(x, Chunk) + HalfSecond
<1>1. /\ pc = "sleeping" /\ pc' = "reading" /\ TimePasses(d)
      /\ UNCHANGED <<cache, unseen, needed, passes, answers, resumes,
                     reading, decision>>
  BY DEF Sleep, interrupts
<1>2. reading.reset_seconds \in Clocks /\ decision.wait_seconds \in Nat
  BY <1>1 DEF GateOK, Advised, Readings
<1>3. x \in Nat
  BY <1>2, ClockAssumption DEF FalsyOr, Clocks, OneSecond
<1> HIDE DEF x
<1>4. d \in Nat
  BY <1>3, GuardAssumption, ClockAssumption DEF Lesser
<1> HIDE DEF d
<1>5. /\ window' \in Windows /\ unseen' \in Spendings
      /\ age' \in 0 .. AgeCap \cup {None}
      /\ CacheOK(window', cache', age', unseen')
      /\ age' # None => cache' # None
  BY <1>1, <1>4, TimePassesOK
<1> QED BY <1>1, <1>5 DEF GateOK, TypeOK, Admitted, Advised

\* The graph stays suspended, or is invoked again, after a pause.
LEMMA PauseOK == ASSUME GateOK, Resume \/ Invoke PROVE GateOK'
<1>1. PICK d \in Pauses : TimePasses(d)
  BY DEF Resume, Invoke
<1>2. d \in Nat
  BY GuardAssumption
<1>3. /\ pc' = "reading" /\ passes' = 0
      /\ UNCHANGED <<cache, unseen, needed, reading, decision>>
      /\ \/ resumes' = Lesser(resumes + 1, MaxResumes) /\ answers' = resumes'
         \/ resumes' = resumes /\ answers' = resumes
  BY DEF Resume, Invoke
<1>4. /\ window' \in Windows /\ unseen' \in Spendings
      /\ age' \in 0 .. AgeCap \cup {None}
      /\ CacheOK(window', cache', age', unseen')
      /\ age' # None => cache' # None
  BY <1>1, <1>2, <1>3, TimePassesOK
<1>5. /\ resumes' \in 0 .. MaxResumes /\ answers' \in 0 .. resumes'
      /\ passes' \in 0 .. MaxResumes
  BY <1>3, GuardAssumption DEF GateOK, TypeOK, Lesser
<1> QED BY <1>3, <1>4, <1>5 DEF GateOK, TypeOK, Admitted, Advised

\* check() interrupts, goes on or runs out of passes.
LEMMA StandOK ==
  ASSUME GateOK, Interrupt \/ InterruptReturns \/ PassesExhausted PROVE GateOK'
<1>1. /\ pc' \in {"suspended", "reading", "exhausted"}
      /\ UNCHANGED <<window, cache, age, unseen, needed, passes, resumes,
                     reading, decision>>
      /\ answers' = answers \/ (answers > 0 /\ answers' = answers - 1)
  BY DEF Interrupt, InterruptReturns, PassesExhausted, interrupts
<1>2. answers' \in 0 .. resumes'
  BY <1>1, GuardAssumption DEF GateOK, TypeOK
<1>3. CacheOK(window', cache', age', unseen')
  BY <1>1 DEF GateOK
<1> QED BY <1>1, <1>2, <1>3 DEF GateOK, TypeOK, Admitted, Advised

\* Whether a call's headers are read depends on its wiring.
LEMMA HeardAs ==
  ASSUME NEW w, NEW wiring, NEW x, Heard(w, wiring, x)
  PROVE  \E h \in BOOLEAN : /\ cache' = Read(w, h) /\ age' = ReadAge(h)
                            /\ unseen' = Unseen(h, x)
<1>1. CASE wiring = "backend"
  <2>1. /\ cache' = Read(w, TRUE) /\ age' = ReadAge(TRUE)
        /\ unseen' = Unseen(TRUE, x)
    BY <1>1 DEF Heard, Read, ReadAge, Unseen
  <2> QED BY <2>1
<1>2. CASE wiring # "backend"
  <2>1. /\ cache' = Read(w, FALSE) /\ age' = ReadAge(FALSE)
        /\ unseen' = Unseen(FALSE, x)
    BY <1>2 DEF Heard, Read, ReadAge, Unseen
  <2> QED BY <2>1
<1> QED BY <1>1, <1>2

\* The gated call is made, through the adapter or past it.
LEMMA CallOK == ASSUME GateOK, Call PROVE GateOK'
<1>1. PICK used \in Costs, wiring \in Wirings :
         /\ used <= needed /\ window.tokens >= used /\ window.requests > 0
         /\ window' = [Spend(window) EXCEPT !.tokens = window.tokens - used]
         /\ Heard(window', wiring, Spent(used, 1))
  BY DEF Call
<1>2. /\ pc' = "reading" /\ passes' = 0 /\ answers' = 0 /\ resumes' = 0
      /\ needed' \in Needs
      /\ UNCHANGED <<reading, decision>>
  BY DEF Call
<1> DEFINE x == Spent(used, 1)
<1>3. /\ window \in Windows /\ unseen \in Spendings
      /\ window.tokens \in Nat /\ window.requests \in Nat
      /\ used \in Nat /\ used <= window.tokens
  BY <1>1, GuardAssumption DEF GateOK, TypeOK, Windows
<1>4. /\ window' \in Windows
      /\ window'.tokens = window.tokens - used
      /\ window'.requests = window.requests - 1
  <2>1. window' \in Windows
    BY <1>1, <1>3, SpendOK
  <2> QED BY <1>1, <2>1 DEF Spend
<1>5. PICK h \in BOOLEAN : /\ cache' = Read(window', h) /\ age' = ReadAge(h)
                           /\ unseen' = Unseen(h, x)
  BY <1>1, HeardAs
<1>6. x.tokens = used /\ x.requests = 1
  BY DEF Spent
<1> HIDE DEF x
<1>7. /\ Unseen(h, x) \in Spendings
      /\ ~(h /\ ~Silent) =>
            /\ Unseen(h, x).tokens = Lesser(unseen.tokens + used, Limit)
            /\ Unseen(h, x).requests = Lesser(unseen.requests + 1, RequestLimit)
  <2>1. x.tokens \in Nat /\ x.requests \in Nat
    BY <1>3, <1>6
  <2>2. /\ Unseen(h, x) \in Spendings
        /\ ~(h /\ ~Silent) =>
              /\ Unseen(h, x).tokens = Lesser(unseen.tokens + x.tokens, Limit)
              /\ Unseen(h, x).requests
                    = Lesser(unseen.requests + x.requests, RequestLimit)
    BY <1>3, <2>1, UnseenOK
  <2> QED BY <1>6, <2>2
<1>8. ~(h /\ ~Silent) => CacheOK(window', cache, age, Unseen(h, x))
  <2> SUFFICES ASSUME ~(h /\ ~Silent)
               PROVE  CacheOK(window', cache, age, Unseen(h, x))
    OBVIOUS
  <2>1. PICK n \in Nat : n = 1
    OBVIOUS
  <2>2. n <= window.requests
    BY <1>1, <1>3, <2>1
  <2>3. /\ window'.requests = window.requests - n
        /\ Unseen(h, x).requests = Lesser(unseen.requests + n, RequestLimit)
        /\ Unseen(h, x).tokens = Lesser(unseen.tokens + used, Limit)
    BY <1>4, <1>7, <2>1
  <2> QED BY <1>3, <1>4, <1>7, <2>2, <2>3, MissedOK
<1>9. /\ cache' \in Readings \cup {None}
      /\ age' \in 0 .. AgeCap \cup {None} /\ unseen' \in Spendings
      /\ CacheOK(window', cache', age', unseen')
      /\ age' # None => cache' # None
  BY <1>3, <1>4, <1>5, <1>6, <1>8, ReadOK
<1>10. /\ resumes' \in 0 .. MaxResumes /\ answers' \in 0 .. resumes'
       /\ passes' \in 0 .. MaxResumes
  BY <1>2, GuardAssumption
<1>11. TypeOK'
  BY <1>2, <1>4, <1>9, <1>10 DEF GateOK, TypeOK
<1> QED BY <1>2, <1>9, <1>11 DEF GateOK, Admitted, Advised

\* The gated call is turned away.
LEMMA CallRejectedOK == ASSUME GateOK, CallRejected PROVE GateOK'
<1>1. /\ pc' = "raised"
      /\ UNCHANGED <<window, needed, passes, answers, resumes, reading,
                     decision>>
  BY DEF CallRejected, interrupts
<1>2. PICK wiring \in Wirings : Heard(window, wiring, Nothing)
  BY DEF CallRejected
<1>3. PICK h \in BOOLEAN : /\ cache' = Read(window, h) /\ age' = ReadAge(h)
                           /\ unseen' = Unseen(h, Nothing)
  BY <1>2, HeardAs
<1>4. window \in Windows
  BY DEF GateOK, TypeOK
<1>5. /\ cache' \in Readings \cup {None}
      /\ age' \in 0 .. AgeCap \cup {None} /\ unseen' \in Spendings
      /\ CacheOK(window', cache', age', unseen')
      /\ age' # None => cache' # None
  BY <1>1, <1>3, <1>4, NothingMissed, NothingOK, ReadOK
<1>6. TypeOK'
  BY <1>1, <1>5 DEF GateOK, TypeOK
<1> QED BY <1>1, <1>5, <1>6 DEF GateOK, Admitted, Advised

\* Nothing is cached at first.
LEMMA InitOK == ASSUME Init PROVE GateOK
BY GuardAssumption, NothingOK
   DEF Init, GateOK, TypeOK, CacheOK, Admitted, Advised

\* The invariant of the gate.
LEMMA GateAlways == Honest /\ Spec => []GateOK
<1> DEFINE I == Honest /\ GateOK
<1>1. Honest /\ Init => I
  BY InitOK
<1>2. ASSUME I, [Next]_vars PROVE I'
  <2>1. Honest'
    BY <1>2 DEF Honest
  <2>2. CASE UNCHANGED vars
    <3>1. CacheOK(window, cache, age, unseen)' /\ TypeOK'
      BY <1>2, <2>2 DEF GateOK, CacheOK, Poorer, TypeOK, vars
    <3> QED BY <1>2, <2>1, <2>2, <3>1 DEF GateOK, Admitted, Advised, vars
  <2>3. CASE Next
    BY <1>2, <2>1, <2>3, PassOK, SleepOK, PauseOK, StandOK, CallOK,
       CallRejectedOK DEF Next
  <2> QED BY <1>2, <2>2, <2>3
<1>3. I => GateOK
  OBVIOUS
<1> HIDE DEF I
<1> QED BY <1>1, <1>2, <1>3, PTL DEF Spec

\* As long as no reading is made up, a call the gate lets through on a
\* `continue' is one the provider takes, but for what calls past the adapter
\* spent since the reading it was decided on, whatever the age of that reading
\* (AgentPauseGuard.check on OpenAICompatAdapter.budget).
THEOREM AdmittedIsAccepted == Honest /\ Spec => []AdmittedCallAccepted
<1>1. GateOK => AdmittedCallAccepted
  BY DEF GateOK, Admitted, AdmittedCallAccepted
<1> QED BY GateAlways, <1>1, PTL

\* When tokens are what is short, sleeping the advised time out leaves the step
\* covered, but for what was spent unseen: refill_wait()'s rate and its 15% on
\* top hold on every aged reading.
THEOREM AdviceSuffices == Honest /\ Spec => []AdvisedWaitSuffices
<1>1. ASSUME GateOK PROVE AdvisedWaitSuffices
  <2> SUFFICES ASSUME pc = "sleeping", requests_fit(reading, 0)
               PROVE  Elapse(window, decision.wait_seconds).tokens
                        + unseen.tokens >= needed
    BY DEF AdvisedWaitSuffices
  <2>1. /\ decision.wait_seconds \in Nat /\ needed <= Limit
        /\ window.tokens + unseen.tokens + decision.wait_seconds >= needed
    BY <1>1 DEF GateOK, Advised
  <2>2. /\ window \in Windows /\ window.tokens \in Nat
        /\ unseen.tokens \in Nat /\ Limit \in Nat /\ needed \in Nat
    BY <1>1, GuardAssumption DEF GateOK, TypeOK, Windows, Spendings
  <2>3. Elapse(window, decision.wait_seconds).tokens
          = Lesser(Limit, window.tokens + decision.wait_seconds)
    BY <2>1, <2>2, ElapseOK
  <2> QED BY <2>1, <2>2, <2>3 DEF Lesser
<1> QED BY GateAlways, <1>1, PTL

-----------------------------------------------------------------------------
(* The sliding windows of Attention.                                       *)

USE AttentionAssumption, NoneAssumption

\* The entries younger than m.
Younger(queue, m) == {i \in 1 .. Len(queue) : queue[i] < m}

\* Oldest first.
OldestFirst(queue) ==
    \A i, j \in 1 .. Len(queue) : i <= j => queue[j] <= queue[i]

\* A queue of ages, oldest first, against the counts of what was recorded.
Kept(queue, count, limit) ==
    /\ queue \in Seq(0 .. Window) /\ Len(queue) <= limit
    /\ OldestFirst(queue)
    /\ count \in [0 .. Window - 1 -> Nat]
    /\ \A m \in 0 .. Window :
          /\ IsFiniteSet(TokensOf(count, 0 .. m - 1))
          /\ Total(count, 0 .. m - 1) = Cardinality(Younger(queue, m))

\* What is closed upwards in 1 .. n is its last elements.
LEMMA LastOnes ==
  ASSUME NEW n \in Nat, NEW S \in SUBSET (1 .. n),
         \A i \in S : \A j \in i .. n : j \in S
  PROVE  /\ IsFiniteSet(S) /\ Cardinality(S) \in 0 .. n
         /\ S = (n - Cardinality(S) + 1) .. n
<1> DEFINE c == Cardinality(S)
<1>1. IsFiniteSet(S) /\ c \in 0 .. n
  <2>1. IsFiniteSet(1 .. n) /\ Cardinality(1 .. n) = n
    BY FS_Interval
  <2>2. IsFiniteSet(S) /\ Cardinality(S) <= n
    BY ONLY <2>1, S \in SUBSET (1 .. n), FS_Subset
  <2>3. Cardinality(S) \in Nat
    BY ONLY <2>2, FS_CardinalityType
  <2> QED BY ONLY <2>2, <2>3, n \in Nat
<1>2. ASSUME NEW i \in S PROVE i \in (n - c + 1) .. n
  <2>1. i .. n \in SUBSET S
    OBVIOUS
  <2>2. Cardinality(i .. n) = n - i + 1
    BY FS_Interval
  <2>3. Cardinality(i .. n) <= c
    BY <2>1, <1>1, FS_Subset
  <2> QED BY <2>2, <2>3, <1>1
<1>3. ASSUME NEW i \in (n - c + 1) .. n, i \notin S PROVE FALSE
  <2>1. i \in 1 .. n
    BY <1>1, <1>3
  <2>2. \A j \in S : j \in (i + 1) .. n
    BY <1>3, <2>1
  <2>3. IsFiniteSet((i + 1) .. n) /\ Cardinality((i + 1) .. n) = n - i
    BY <2>1, FS_Interval
  <2>4. c <= n - i
    BY <2>2, <2>3, FS_Subset
  <2> QED BY <1>1, <1>3, <2>1, <2>4
<1> QED BY <1>1, <1>2, <1>3

\* The younger entries are the last ones.
LEMMA YoungerLast ==
  ASSUME NEW queue, NEW count, NEW limit, Kept(queue, count, limit),
         NEW m \in 0 .. Window
  PROVE  /\ IsFiniteSet(Younger(queue, m))
         /\ Cardinality(Younger(queue, m)) \in 0 .. Len(queue)
         /\ Younger(queue, m) =
              (Len(queue) - Cardinality(Younger(queue, m)) + 1) .. Len(queue)
<1>1. Younger(queue, m) \in SUBSET (1 .. Len(queue)) /\ Len(queue) \in Nat
  BY DEF Younger, Kept
<1>2. \A i \in Younger(queue, m) : \A j \in i .. Len(queue) :
         j \in Younger(queue, m)
  <2> SUFFICES ASSUME NEW i \in Younger(queue, m), NEW j \in i .. Len(queue)
               PROVE  j \in Younger(queue, m)
    OBVIOUS
  <2>1. i \in 1 .. Len(queue) /\ queue[i] < m
    BY DEF Younger
  <2>2. j \in 1 .. Len(queue) /\ queue[j] <= queue[i]
    <3>1. OldestFirst(queue)
      BY DEF Kept
    <3> QED BY <1>1, <2>1, <3>1 DEF OldestFirst
  <2>3. queue[i] \in Int /\ queue[j] \in Int
    <3>1. queue \in Seq(0 .. Window)
      BY DEF Kept
    <3> QED BY <2>1, <2>2, <3>1
  <2> QED BY <2>1, <2>2, <2>3 DEF Younger
<1> DEFINE Y == Younger(queue, m)
           n == Len(queue)
<1>3. Y \in SUBSET (1 .. n) /\ n \in Nat /\ (\A i \in Y : \A j \in i .. n : j \in Y)
  BY ONLY <1>1, <1>2
<1> HIDE DEF Y, n
<1>4. /\ IsFiniteSet(Y) /\ Cardinality(Y) \in 0 .. n
      /\ Y = (n - Cardinality(Y) + 1) .. n
  BY ONLY <1>3, LastOnes
<1> QED BY ONLY <1>4 DEF Y, n

\* Pruning leaves the entries younger than the window.
LEMMA PrunedYounger ==
  ASSUME NEW queue, NEW count, NEW limit, Kept(queue, count, limit)
  PROVE  LET y == Cardinality(Younger(queue, Window))
         IN  /\ y \in 0 .. Len(queue)
             /\ Younger(queue, Window) = (Len(queue) - y + 1) .. Len(queue)
             /\ Pruned(queue) \in Seq(0 .. Window) /\ Len(Pruned(queue)) = y
             /\ \A i \in 1 .. y :
                  Pruned(queue)[i] = queue[Len(queue) - y + i]
<1> DEFINE y == Cardinality(Younger(queue, Window))
           n == Len(queue) - y
<1>1. y \in 0 .. Len(queue) /\ Younger(queue, Window) = (n + 1) .. Len(queue)
  <2>1. Window \in 0 .. Window
    OBVIOUS
  <2> QED BY ONLY <2>1, Kept(queue, count, limit), YoungerLast
<1>2. queue \in Seq(0 .. Window) /\ Len(queue) \in Nat /\ n \in 0 .. Len(queue)
  BY <1>1 DEF Kept
<1> HIDE DEF n, y
<1>3. Leaving(queue, Window) = 1 .. n
  <2>1. DOMAIN queue = 1 .. Len(queue)
    BY <1>2
  <2>2. \A j \in 1 .. Len(queue) : queue[j] >= Window <=> j \in 1 .. n
    <3>1. \A j \in 1 .. Len(queue) : queue[j] \in Int
      BY <1>2
    <3>2. \A j \in 1 .. Len(queue) : queue[j] < Window <=> j \in (n + 1) .. Len(queue)
      BY <1>1 DEF Younger
    <3> QED BY <3>1, <3>2, <1>2
  <2>3. ASSUME NEW i \in Leaving(queue, Window) PROVE i \in 1 .. n
    <3>1. i \in 1 .. Len(queue) /\ queue[i] >= Window
      BY <2>1, <1>2 DEF Leaving
    <3> QED BY <3>1, <2>2
  <2>4. ASSUME NEW i \in 1 .. n PROVE i \in Leaving(queue, Window)
    <3>1. \A j \in 1 .. i : queue[j] >= Window
      BY <2>2, <1>2
    <3> QED BY <3>1, <2>1, <1>2 DEF Leaving
  <2> QED BY <2>3, <2>4
<1>4. Cardinality(Leaving(queue, Window)) = n
  BY <1>2, <1>3, FS_Interval
<1>5. Pruned(queue) = SubSeq(queue, n + 1, Len(queue))
  BY <1>4 DEF Pruned
<1>6. Pruned(queue) \in Seq(0 .. Window) /\ Len(Pruned(queue)) = y
  BY <1>1, <1>2, <1>5 DEF n
<1>7. \A i \in 1 .. y : Pruned(queue)[i] = queue[n + i]
  BY <1>1, <1>2, <1>5 DEF n
<1> QED BY <1>1, <1>6, <1>7 DEF n, y

\* The wait until the oldest entry leaves is the least after which one more
\* entry fits.
LEMMA FreeExact ==
  ASSUME NEW queue, NEW count, NEW limit \in Nat \ {0},
         Kept(queue, count, limit)
  PROVE  Frees(count, limit, Free(queue, limit))
<1> DEFINE y(m) == Cardinality(Younger(queue, m))
           oldest == queue[1]
<1>1. queue \in Seq(0 .. Window) /\ Len(queue) \in Nat /\ Len(queue) <= limit
  BY DEF Kept
<1>2. ASSUME NEW d \in 0 .. Window PROVE YoungAfter(count, d) = y(Window - d)
  <2>1. Window - d \in 0 .. Window /\ Window - 1 - d = (Window - d) - 1
    OBVIOUS
  <2>2. Total(count, 0 .. (Window - d) - 1) = Cardinality(Younger(queue, Window - d))
    BY <2>1 DEF Kept
  <2> QED BY <2>1, <2>2 DEF YoungAfter
<1>3. /\ y(Window) \in 0 .. Len(queue) /\ Len(Pruned(queue)) = y(Window)
      /\ Younger(queue, Window) = (Len(queue) - y(Window) + 1) .. Len(queue)
      /\ \A i \in 1 .. y(Window) :
            Pruned(queue)[i] = queue[Len(queue) - y(Window) + i]
  BY PrunedYounger
<1>4. CASE Len(Pruned(queue)) < limit
  <2>1. Free(queue, limit) = 0
    BY <1>4 DEF Free
  <2>2. YoungAfter(count, 0) = y(Window)
    BY <1>2
  <2> QED BY <2>1, <2>2, <1>3, <1>4 DEF Frees
<1>5. CASE Len(Pruned(queue)) >= limit
  <2>1. y(Window) = Len(queue) /\ Len(queue) = limit
    BY <1>1, <1>3, <1>5
  <2>2. Pruned(queue)[1] = oldest /\ Pruned(queue) \in Seq(0 .. Window)
    <3>1. Pruned(queue) \in Seq(0 .. Window)
      BY PrunedYounger
    <3>2. 1 \in 1 .. y(Window) /\ Len(queue) - y(Window) + 1 = 1
      BY <2>1
    <3>3. Pruned(queue)[1] = queue[Len(queue) - y(Window) + 1]
      BY ONLY <1>3, <3>2
    <3> QED BY <3>1, <3>2, <3>3
  <2>3. Free(queue, limit) = Window - oldest
    BY <1>1, <1>3, <1>5, <2>1, <2>2 DEF Free
  <2>4. oldest \in 0 .. Window - 1
    <3>1. 1 \in Younger(queue, Window)
      BY <1>1, <1>3, <2>1
    <3>2. oldest < Window
      BY <3>1 DEF Younger
    <3> QED BY <1>1, <2>1, <3>2
  <2>5. y(oldest) < limit
    <3>1. Younger(queue, oldest) \in SUBSET (2 .. limit)
      BY <2>1, <2>4 DEF Younger
    <3>2. IsFiniteSet(2 .. limit) /\ Cardinality(2 .. limit) = limit - 1
      BY FS_Interval
    <3>3. y(oldest) <= limit - 1
      BY <3>1, <3>2, FS_Subset
    <3>4. y(oldest) \in 0 .. Len(queue)
      BY <2>4, YoungerLast
    <3> QED BY <3>3, <3>4
  <2>6. ASSUME NEW e \in 0 .. (Window - oldest) - 1
        PROVE  YoungAfter(count, e) >= limit
    <3>1. e \in 0 .. Window /\ Window - e > oldest
      BY <2>4
    <3>2. \A i \in 1 .. Len(queue) : queue[i] < Window - e
      <4> SUFFICES ASSUME NEW i \in 1 .. Len(queue)
                   PROVE  queue[i] < Window - e
        OBVIOUS
      <4>1. queue[i] <= oldest
        <5>1. OldestFirst(queue)
          BY DEF Kept
        <5> QED BY <1>1, <5>1 DEF OldestFirst
      <4>2. queue[i] \in Int
        BY <1>1
      <4> QED BY <3>1, <4>1, <4>2, <2>4
    <3>3. Younger(queue, Window - e) = 1 .. limit
      BY <3>2, <2>1 DEF Younger
    <3>4. Cardinality(1 .. limit) = limit
      BY FS_Interval
    <3> QED BY <1>2, <3>1, <3>3, <3>4
  <2>7. YoungAfter(count, Window - oldest) < limit
    <3>1. Window - oldest \in 0 .. Window /\ Window - (Window - oldest) = oldest
      BY <2>4
    <3> QED BY <1>2, <2>5, <3>1
  <2>8. Window - oldest \in 0 .. Window
    BY <2>4
  <2> QED BY <2>3, <2>6, <2>7, <2>8 DEF Frees
<1> QED BY <1>1, <1>3, <1>4, <1>5

\* An entry recorded while there is room.
LEMMA RecordedKept ==
  ASSUME NEW queue, NEW count, NEW limit \in Nat \ {0},
         Kept(queue, count, limit), Len(Pruned(queue)) < limit
  PROVE  Kept(Recorded(queue), [count EXCEPT ![0] = @ + 1], limit)
<1> DEFINE y == Cardinality(Younger(queue, Window))
           q == Recorded(queue)
           counted == [count EXCEPT ![0] = @ + 1]
<1>1. /\ queue \in Seq(0 .. Window) /\ Len(queue) \in Nat
      /\ OldestFirst(queue) /\ count \in [0 .. Window - 1 -> Nat]
  BY DEF Kept
<1>2. /\ y \in 0 .. Len(queue) /\ Len(Pruned(queue)) = y
      /\ Pruned(queue) \in Seq(0 .. Window)
      /\ Younger(queue, Window) = (Len(queue) - y + 1) .. Len(queue)
      /\ \A i \in 1 .. y : Pruned(queue)[i] = queue[Len(queue) - y + i]
  BY PrunedYounger
<1> DEFINE L == Len(queue)
<1>n. L \in Nat /\ y \in 0 .. L
  BY <1>1, <1>2
<1>3. /\ q \in Seq(0 .. Window) /\ Len(q) = y + 1
      /\ \A i \in 1 .. y : q[i] = queue[Len(queue) - y + i]
      /\ q[y + 1] = 0
  <2> HIDE DEF y
  <2> QED BY <1>2 DEF Recorded
<1>4. Len(q) <= limit
  BY <1>2, <1>3
<1>5. OldestFirst(q)
  <2> SUFFICES ASSUME NEW i \in 1 .. Len(q), NEW j \in 1 .. Len(q), i <= j
               PROVE  q[j] <= q[i]
    BY DEF OldestFirst
  <2> HIDE DEF q, y
  <2>1. CASE j = y + 1
    BY <1>3, <2>1
  <2>2. CASE j # y + 1
    <3>1. i \in 1 .. y /\ j \in 1 .. y
      BY <1>n, <1>3, <2>2
    <3>2. L - y + i \in 1 .. L /\ L - y + j \in 1 .. L /\ L - y + i <= L - y + j
      <4> HIDE DEF L
      <4> QED BY ONLY <1>n, <3>1, i <= j
    <3>3. queue[L - y + j] <= queue[L - y + i]
      BY <1>1, <3>2 DEF OldestFirst
    <3> QED BY <1>3, <3>1, <3>3
  <2> QED BY <2>1, <2>2
<1>6. 0 \in 0 .. Window - 1 /\ count[0] \in Nat
  BY <1>1
<1>7. counted \in [0 .. Window - 1 -> Nat] /\ counted[0] = count[0] + 1
  BY <1>1, <1>6
<1>8. ASSUME NEW m \in 0 .. Window
      PROVE  /\ IsFiniteSet(TokensOf(counted, 0 .. m - 1))
             /\ Total(counted, 0 .. m - 1) = Cardinality(Younger(q, m))
  <2>1. CASE m = 0
    <3>1. 0 .. m - 1 = {} /\ TokensOf(counted, {}) = {}
      BY <2>1 DEF TokensOf
    <3>2. Younger(q, m) = {}
      <4> HIDE DEF q
      <4>1. \A i \in 1 .. Len(q) : q[i] \in 0 .. Window
        BY <1>3
      <4> QED BY <4>1, <2>1 DEF Younger
    <3> QED BY <3>1, <3>2, FS_EmptySet DEF Total
  <2>2. CASE m > 0
    <3> DEFINE c == Cardinality(Younger(queue, m))
               tokens == TokensOf(count, 0 .. m - 1)
               added == <<0, count[0] + 1>>
    <3>1. IsFiniteSet(tokens) /\ Cardinality(tokens) = c
      BY DEF Kept, Total
    <3>2. TokensOf(counted, 0 .. m - 1) = tokens \cup {added}
      <4>1. \A a \in 0 .. m - 1 : a # 0 => counted[a] = count[a]
        BY <1>1
      <4>2. 0 \in 0 .. m - 1
        BY <2>2
      <4>3. 1 .. counted[0] = (1 .. count[0]) \cup {count[0] + 1}
        BY <1>6, <1>7
      <4> HIDE DEF counted
      <4>4. \A a \in 0 .. m - 1 :
               {a} \X (1 .. counted[a])
                 = IF a = 0 THEN ({a} \X (1 .. count[a])) \cup {added}
                            ELSE {a} \X (1 .. count[a])
        BY <4>1, <4>3
      <4>5. TokensOf(counted, 0 .. m - 1)
              = UNION {{a} \X (1 .. counted[a]) : a \in 0 .. m - 1}
        BY DEF TokensOf
      <4>6. tokens = UNION {{a} \X (1 .. count[a]) : a \in 0 .. m - 1}
        BY DEF TokensOf
      <4> HIDE DEF tokens, added
      <4> QED BY ONLY <4>2, <4>4, <4>5, <4>6
    <3>3. added \notin tokens
      BY <1>6 DEF TokensOf
    <3>4. /\ IsFiniteSet(tokens \cup {added})
          /\ Cardinality(tokens \cup {added}) = c + 1
      <4> HIDE DEF tokens, added, c
      <4> QED BY ONLY <3>1, <3>3, FS_AddElement
    <3>5. /\ c \in 0 .. Len(queue)
          /\ Younger(queue, m) = (Len(queue) - c + 1) .. Len(queue)
      BY YoungerLast
    <3>6. c <= y
      <4>1. \A i \in 1 .. Len(queue) : queue[i] \in Int
        BY <1>1
      <4>2. Younger(queue, m) \in SUBSET Younger(queue, Window)
        BY <4>1 DEF Younger
      <4>3. IsFiniteSet(Younger(queue, Window))
        BY <1>2, FS_Interval
      <4> QED BY <4>2, <4>3, FS_Subset
    <3>7. Younger(q, m) = (y - c + 1) .. (y + 1)
      <4> HIDE DEF q, c, y
      <4>1. ASSUME NEW i \in 1 .. y
            PROVE  q[i] < m <=> i \in (y - c + 1) .. (y + 1)
        <5>1. L - y + i \in 1 .. L
          <6> HIDE DEF L
          <6> QED BY ONLY <1>n, <4>1
        <5>2. q[i] = queue[L - y + i]
          BY <1>3
        <5>3. queue[L - y + i] < m <=> L - y + i \in (L - c + 1) .. L
          BY <3>5, <5>1 DEF Younger
        <5>4. c \in 0 .. L
          BY <3>5
        <5> HIDE DEF L
        <5>5. L - y + i \in (L - c + 1) .. L <=> i \in (y - c + 1) .. (y + 1)
          BY ONLY <1>n, <4>1, <5>4
        <5> QED BY ONLY <5>2, <5>3, <5>5
      <4>2. q[y + 1] < m
        BY <1>3, <2>2
      <4>3. c \in Nat
        BY <3>5
      <4>4. 1 .. (y + 1) = (1 .. y) \cup {y + 1} /\ y + 1 \in (y - c + 1) .. (y + 1)
        BY <1>n, <4>3
      <4>5. (y - c + 1) .. (y + 1) \in SUBSET (1 .. (y + 1))
        BY <1>n, <3>6, <4>3
      <4>6. Younger(q, m) = {i \in 1 .. (y + 1) : q[i] < m}
        BY <1>3 DEF Younger
      <4> QED BY ONLY <4>1, <4>2, <4>4, <4>5, <4>6
    <3>8. Cardinality((y - c + 1) .. (y + 1)) = c + 1
      <4>1. y \in Int /\ c \in Nat
        BY <1>2, <3>5
      <4> HIDE DEF c, y
      <4> QED BY <4>1, FS_Interval
    <3> QED BY <3>2, <3>4, <3>7, <3>8 DEF Total
  <2> QED BY <2>1, <2>2
<1> HIDE DEF q, counted
<1>9. Kept(q, counted, limit)
  BY <1>3, <1>4, <1>5, <1>7, <1>8 DEF Kept
<1> QED BY <1>9 DEF q, counted

\* What a token of a sum is.
LEMMA TokenIn ==
  ASSUME NEW f, NEW S, NEW a \in S, NEW k \in 1 .. f[a]
  PROVE  <<a, k>> \in TokensOf(f, S)
<1>1. <<a, k>> \in {a} \X (1 .. f[a])
  OBVIOUS
<1>2. {a} \X (1 .. f[a]) \in {{b} \X (1 .. f[b]) : b \in S}
  OBVIOUS
<1> QED BY <1>1, <1>2, Zenon DEF TokensOf

\* What was counted at each age, one tick later.
LEMMA ShiftedTokens ==
  ASSUME NEW count \in [0 .. Window - 1 -> Nat], NEW m \in 1 .. Window,
         IsFiniteSet(TokensOf(count, 0 .. (m - 1) - 1))
  PROVE  /\ IsFiniteSet(TokensOf(Shifted(count), 0 .. m - 1))
         /\ Total(Shifted(count), 0 .. m - 1) = Total(count, 0 .. (m - 1) - 1)
<1> DEFINE S == TokensOf(count, 0 .. (m - 1) - 1)
           T == TokensOf(Shifted(count), 0 .. m - 1)
           f == [token \in S |-> <<token[1] + 1, token[2]>>]
<1>1. \A a \in 0 .. m - 1 :
         Shifted(count)[a] = IF a = 0 THEN 0 ELSE count[a - 1]
  BY DEF Shifted
<1>2. \A token \in S :
         /\ token = <<token[1], token[2]>> /\ token[1] \in 0 .. (m - 1) - 1
         /\ token[2] \in 1 .. count[token[1]]
  BY DEF TokensOf
<1>3. \A a \in 0 .. (m - 1) - 1 : \A k \in 1 .. count[a] : <<a, k>> \in S
  BY TokenIn
<1>4. \A token \in T :
         /\ token = <<token[1], token[2]>> /\ token[1] \in 0 .. m - 1
         /\ token[2] \in 1 .. Shifted(count)[token[1]]
  BY DEF TokensOf
<1>5. \A a \in 0 .. m - 1 : \A k \in 1 .. Shifted(count)[a] : <<a, k>> \in T
  BY TokenIn
<1> HIDE DEF S, T
<1>6. \A token \in S : <<token[1] + 1, token[2]>> \in T
  <2> SUFFICES ASSUME NEW token \in S
               PROVE  <<token[1] + 1, token[2]>> \in T
    OBVIOUS
  <2>1. token[1] \in 0 .. (m - 1) - 1 /\ token[2] \in 1 .. count[token[1]]
    BY <1>2
  <2>2. token[1] + 1 \in 0 .. m - 1 /\ token[1] + 1 # 0
        /\ (token[1] + 1) - 1 = token[1]
    BY <2>1
  <2>3. token[2] \in 1 .. Shifted(count)[token[1] + 1]
    BY <1>1, <2>1, <2>2
  <2> QED BY <1>5, <2>2, <2>3
<1>7. f \in [S -> T]
  BY <1>6
<1>8. \A s, t \in S : f[s] = f[t] => s = t
  <2> SUFFICES ASSUME NEW s \in S, NEW t \in S, f[s] = f[t] PROVE s = t
    OBVIOUS
  <2>1. s[1] + 1 = t[1] + 1 /\ s[2] = t[2]
    OBVIOUS
  <2>2. s[1] \in Int /\ t[1] \in Int
    BY <1>2
  <2>3. s[1] = t[1]
    BY <2>1, <2>2
  <2> QED BY <1>2, <2>1, <2>3
<1>9. \A t \in T : \E s \in S : f[s] = t
  <2> SUFFICES ASSUME NEW t \in T PROVE \E s \in S : f[s] = t
    OBVIOUS
  <2>1. /\ t = <<t[1], t[2]>> /\ t[1] \in 0 .. m - 1
        /\ t[2] \in 1 .. Shifted(count)[t[1]]
    BY <1>4
  <2>2. t[1] # 0
    BY <1>1, <2>1
  <2>3. t[1] - 1 \in 0 .. (m - 1) - 1 /\ t[2] \in 1 .. count[t[1] - 1]
    BY <1>1, <2>1, <2>2
  <2>4. <<t[1] - 1, t[2]>> \in S
    BY <1>3, <2>3
  <2>5. f[<<t[1] - 1, t[2]>>] = <<(t[1] - 1) + 1, t[2]>>
    BY <2>4
  <2>6. (t[1] - 1) + 1 = t[1]
    BY <2>1
  <2> QED BY <2>1, <2>4, <2>5, <2>6
<1> HIDE DEF f
<1>10. ExistsBijection(S, T)
  <2>1. f \in Injection(S, T)
    BY <1>7, <1>8 DEF Injection, IsInjective
  <2>2. f \in Surjection(S, T)
    BY <1>7, <1>9 DEF Surjection
  <2>3. f \in Bijection(S, T)
    BY ONLY <2>1, <2>2, Zenon DEF Bijection
  <2> QED BY ONLY <2>3, Zenon DEF ExistsBijection
<1>11. IsFiniteSet(S)
  BY DEF S
<1>12. IsFiniteSet(T) /\ Cardinality(T) = Cardinality(S)
  BY ONLY <1>10, <1>11, FS_Bijection
<1> QED BY <1>12 DEF S, T, Total

\* What a tick makes of the younger entries.
LEMMA YoungerOlder ==
  ASSUME NEW queue \in Seq(0 .. Window), NEW m \in 1 .. Window
  PROVE  Younger(Older(queue), m) = Younger(queue, m - 1)
<1>1. /\ Len(Older(queue)) = Len(queue)
      /\ \A i \in 1 .. Len(queue) :
            Older(queue)[i] = Lesser(queue[i] + 1, Window)
  BY DEF Older
<1>2. \A i \in 1 .. Len(queue) : queue[i] \in 0 .. Window
  OBVIOUS
<1> QED BY <1>1, <1>2 DEF Younger, Lesser

\* A tick ages a queue and its counts alike.
LEMMA OlderKept ==
  ASSUME NEW queue, NEW count, NEW limit, Kept(queue, count, limit)
  PROVE  Kept(Older(queue), Shifted(count), limit)
<1> DEFINE q == Older(queue)
<1>1. /\ queue \in Seq(0 .. Window) /\ Len(queue) \in Nat
      /\ Len(queue) <= limit
      /\ OldestFirst(queue) /\ count \in [0 .. Window - 1 -> Nat]
  BY DEF Kept
<1>2. /\ q \in Seq(0 .. Window) /\ Len(q) = Len(queue)
      /\ \A i \in 1 .. Len(queue) : q[i] = Lesser(queue[i] + 1, Window)
  <2>1. DOMAIN queue = 1 .. Len(queue)
    BY <1>1
  <2>2. \A i \in 1 .. Len(queue) : Lesser(queue[i] + 1, Window) \in 0 .. Window
    BY <1>1 DEF Lesser
  <2> QED BY <1>1, <2>1, <2>2 DEF Older
<1> HIDE DEF q
<1>3. \A i \in 1 .. Len(queue) : queue[i] \in 0 .. Window
  BY <1>1
<1>4. OldestFirst(q)
  <2> SUFFICES ASSUME NEW i \in 1 .. Len(q), NEW j \in 1 .. Len(q), i <= j
               PROVE  q[j] <= q[i]
    BY DEF OldestFirst
  <2>1. i \in 1 .. Len(queue) /\ j \in 1 .. Len(queue)
    BY <1>2
  <2>2. queue[j] <= queue[i]
    BY <1>1, <2>1 DEF OldestFirst
  <2> QED BY <1>2, <1>3, <2>1, <2>2 DEF Lesser
<1>5. Shifted(count) \in [0 .. Window - 1 -> Nat]
  BY <1>1 DEF Shifted
<1>6. ASSUME NEW m \in 0 .. Window
      PROVE  /\ IsFiniteSet(TokensOf(Shifted(count), 0 .. m - 1))
             /\ Total(Shifted(count), 0 .. m - 1) = Cardinality(Younger(q, m))
  <2>1. CASE m = 0
    <3>1. 0 .. m - 1 = {} /\ TokensOf(Shifted(count), {}) = {}
      BY <2>1 DEF TokensOf
    <3>2. Younger(q, m) = {}
      BY <1>2, <1>3, <2>1 DEF Younger, Lesser
    <3> QED BY <3>1, <3>2, FS_EmptySet DEF Total
  <2>2. CASE m > 0
    <3>1. m - 1 \in 0 .. Window /\ m \in 1 .. Window
      BY <2>2
    <3>2. /\ IsFiniteSet(TokensOf(count, 0 .. (m - 1) - 1))
          /\ Total(count, 0 .. (m - 1) - 1) = Cardinality(Younger(queue, m - 1))
      BY <3>1 DEF Kept
    <3>3. Younger(q, m) = Younger(queue, m - 1)
      BY <1>1, <3>1, YoungerOlder DEF q
    <3> QED BY <1>1, <3>1, <3>2, <3>3, ShiftedTokens
  <2> QED BY <2>1, <2>2
<1>7. Kept(q, Shifted(count), limit)
  BY <1>1, <1>2, <1>4, <1>5, <1>6 DEF Kept
<1> QED BY <1>7 DEF q

\* Nothing recorded yet.
LEMMA EmptyKept ==
  ASSUME NEW limit \in Nat
  PROVE  Kept(<<>>, [a \in 0 .. Window - 1 |-> 0], limit)
<1> DEFINE count == [a \in 0 .. Window - 1 |-> 0]
<1>1. ASSUME NEW m \in 0 .. Window
      PROVE  TokensOf(count, 0 .. m - 1) = {} /\ Younger(<<>>, m) = {}
  <2>1. \A a \in 0 .. m - 1 : {a} \X (1 .. count[a]) = {}
    OBVIOUS
  <2>2. TokensOf(count, 0 .. m - 1) = {}
    BY <2>1 DEF TokensOf
  <2> QED BY <2>2 DEF Younger
<1>2. count \in [0 .. Window - 1 -> Nat]
  OBVIOUS
<1> HIDE DEF count
<1>3. Kept(<<>>, count, limit)
  <2>1. <<>> \in Seq(0 .. Window) /\ Len(<<>>) = 0
    OBVIOUS
  <2>2. OldestFirst(<<>>)
    BY <2>1 DEF OldestFirst
  <2>3. \A m \in 0 .. Window :
          /\ IsFiniteSet(TokensOf(count, 0 .. m - 1))
          /\ Total(count, 0 .. m - 1) = Cardinality(Younger(<<>>, m))
    BY <1>1, FS_EmptySet DEF Total
  <2>4. Len(<<>>) <= limit
    BY <2>1
  <2> QED BY <1>2, <2>1, <2>2, <2>3, <2>4 DEF Kept
<1> QED BY <1>3 DEF count

-----------------------------------------------------------------------------
(* The human and the tool.                                                 *)

\* Who sleeps in acquire() finds room when it wakes: nobody else calls.
RoomComes ==
    acquiring # None =>
       Cardinality(Younger(calls, Window - acquiring)) < calls_per_window

\* The inductive invariant.
AttentionInv ==
    /\ Kept(asks, asked, max_asks)
    /\ Kept(calls, called, calls_per_window)
    /\ away \in BOOLEAN /\ away_until \in Nat \cup {None}
    /\ nap \in [Agents -> 0 .. WaitThreshold]
    /\ acquiring \in 0 .. Window \cup {None}
    /\ RoomComes

\* What decide() makes of the human's budget.
LEMMA HumanDecision ==
  ASSUME AttentionInv
  PROVE  /\ Decided.action = "continue" => Len(Pruned(asks)) < max_asks
         /\ Decided.action = "wait" =>
              /\ Decided.wait_seconds \in 0 .. WaitThreshold
              /\ ~(away /\ away_until = None)
<1> DEFINE left == as_budget.remaining_requests
           reset == as_budget.reset_requests_seconds
           w == FalsyOr(reset, None)
<1>1. /\ left = IF is_away THEN 0
                 ELSE Greater(0, max_asks - Len(Pruned(asks)))
      /\ reset = IF is_away THEN away_until ELSE Free(asks, max_asks)
      /\ as_budget.remaining_tokens = 1 /\ as_budget.reset_seconds = None
      /\ as_budget.remaining_seconds = None
  BY DEF as_budget, TokenBudget, Sentinel
<1>2. Len(Pruned(asks)) \in Nat
  BY PrunedYounger DEF AttentionInv
<1>3. Free(asks, max_asks) \in 0 .. Window
  BY FreeExact DEF AttentionInv, Frees
<1>4. left \in Nat /\ reset \in Nat \cup {None}
  BY <1>1, <1>2, <1>3 DEF Greater, AttentionInv
<1> HIDE DEF left, reset
<1>5. Decided = IF 1 <= left THEN Decision("continue", None)
                ELSE IF Known(w) /\ w <= WaitThreshold
                       THEN Decision("wait", w) ELSE Decision("checkpoint", None)
  <2>1. time_fit(as_budget, TokenStep(Sentinel))
    BY DEF time_fit, Fits, Known, TokenStep
  <2>2. tokens_fit(as_budget, TokenStep(Sentinel))
    BY <1>1 DEF tokens_fit, should_checkpoint, TokenStep, Sentinel
  <2>3. split_fit(as_budget, TokenStep(Sentinel))
    BY DEF split_fit, Fits, Known, TokenStep
  <2>4. requests_fit(as_budget, 0) <=> 1 <= left
    BY <1>4 DEF requests_fit, Fits, Known, left
  <2>5. AllFit(as_budget, TokenStep(Sentinel), 0) <=> 1 <= left
    BY <2>2, <2>3, <2>4 DEF AllFit
  <2>6. ~(1 <= left) => wait_s(as_budget, TokenStep(Sentinel), 0) = w
    BY <1>1, <2>4 DEF wait_s, w, reset
  <2> HIDE DEF w
  <2> QED BY <2>1, <2>5, <2>6 DEF Decided, decide
<1>6. ASSUME Decided.action = "continue" PROVE Len(Pruned(asks)) < max_asks
  <2>1. 1 <= left
    BY <1>5, <1>6 DEF Decision
  <2> QED BY <1>1, <1>2, <2>1 DEF Greater
<1>7. ASSUME Decided.action = "wait"
      PROVE  /\ Decided.wait_seconds \in 0 .. WaitThreshold
             /\ ~(away /\ away_until = None)
  <2>1. Known(w) /\ w <= WaitThreshold /\ Decided.wait_seconds = w
    BY <1>5, <1>7 DEF Decision
  <2>2. w \in Nat /\ reset # None
    BY <1>4, <2>1 DEF FalsyOr, Known
  <2>3. ~(away /\ away_until = None)
    BY <1>1, <2>2 DEF is_away, Known
  <2> HIDE DEF w
  <2> QED BY <2>1, <2>2, <2>3
<1> QED BY <1>6, <1>7

\* Nothing is recorded, nobody sleeps and nobody is away.
LEMMA AttentionStart == AttentionInit => AttentionInv
<1> SUFFICES ASSUME AttentionInit PROVE AttentionInv
  OBVIOUS
<1>1. Kept(asks, asked, max_asks) /\ Kept(calls, called, calls_per_window)
  BY EmptyKept DEF AttentionInit
<1> QED BY <1>1 DEF AttentionInit, AttentionInv, RoomComes

\* Every step keeps the queues, and the room a sleeper waits for.
LEMMA AttentionStep == AttentionInv /\ [AttentionNext]_attention => AttentionInv'
<1> SUFFICES ASSUME AttentionInv, [AttentionNext]_attention PROVE AttentionInv'
  OBVIOUS
<1>1. ASSUME NEW a \in Agents, record_ask(a) PROVE AttentionInv'
  <2>1. Kept(Recorded(asks), [asked EXCEPT ![0] = @ + 1], max_asks)
    BY <1>1, HumanDecision, RecordedKept DEF record_ask, AttentionInv
  <2>2. Kept(asks, asked, max_asks)'
    BY <1>1, <2>1 DEF record_ask
  <2>3. UNCHANGED <<calls, called, acquiring, nap>>
    BY <1>1 DEF record_ask, tool
  <2>4. Kept(calls, called, calls_per_window)' /\ RoomComes'
    BY <2>3 DEF AttentionInv, RoomComes, Kept, OldestFirst, Younger
  <2>5. away' \in BOOLEAN /\ away_until' \in Nat \cup {None}
    BY <1>1 DEF record_ask, Synced, is_away, AttentionInv
  <2> QED BY <2>2, <2>3, <2>4, <2>5 DEF AttentionInv
<1>2. ASSUME NEW a \in Agents, Nap(a) PROVE AttentionInv'
  <2>1. nap' \in [Agents -> 0 .. WaitThreshold]
    BY <1>2, HumanDecision DEF Nap, AttentionInv
  <2>2. UNCHANGED <<asks, asked, calls, called, acquiring>>
    BY <1>2 DEF Nap, tool
  <2>3. /\ Kept(asks, asked, max_asks)'
        /\ Kept(calls, called, calls_per_window)' /\ RoomComes'
    BY <2>2 DEF AttentionInv, RoomComes, Kept, OldestFirst, Younger
  <2>4. away' \in BOOLEAN /\ away_until' \in Nat \cup {None}
    BY <1>2 DEF Nap, Synced, is_away, AttentionInv
  <2> QED BY <2>1, <2>2, <2>3, <2>4 DEF AttentionInv
<1>3. ASSUME (\E until \in Absences : StepAway(until)) \/ available
      PROVE  AttentionInv'
  <2>1. UNCHANGED <<asks, asked, nap, calls, called, acquiring>>
    BY <1>3 DEF StepAway, available, tool
  <2>2. /\ Kept(asks, asked, max_asks)'
        /\ Kept(calls, called, calls_per_window)' /\ RoomComes'
    BY <2>1 DEF AttentionInv, RoomComes, Kept, OldestFirst, Younger
  <2>3. away' \in BOOLEAN /\ away_until' \in Nat \cup {None}
    BY <1>3 DEF StepAway, available
  <2> QED BY <2>1, <2>2, <2>3 DEF AttentionInv
<1>4. ASSUME acquire PROVE AttentionInv'
  <2> DEFINE d == Free(calls, calls_per_window)
  <2>1. d \in 0 .. Window /\ YoungAfter(called, d) < calls_per_window
    BY FreeExact DEF AttentionInv, Frees
  <2>2. Cardinality(Younger(calls, Window - d)) < calls_per_window
    <3> HIDE DEF d
    <3>1. Window - d \in 0 .. Window /\ Window - 1 - d = (Window - d) - 1
      BY <2>1
    <3>2. Total(called, 0 .. (Window - d) - 1)
            = Cardinality(Younger(calls, Window - d))
      BY <3>1 DEF AttentionInv, Kept
    <3> QED BY <2>1, <3>1, <3>2 DEF YoungAfter
  <2>3. acquiring' = d
        /\ UNCHANGED <<asks, asked, nap, calls, called, away, away_until>>
    BY <1>4 DEF acquire, human
  <2> HIDE DEF d
  <2>4. /\ Kept(asks, asked, max_asks)'
        /\ Kept(calls, called, calls_per_window)'
    BY <2>3 DEF AttentionInv, Kept, OldestFirst, Younger
  <2>5. RoomComes'
    BY <2>2, <2>3 DEF RoomComes, Younger
  <2> QED BY <2>1, <2>3, <2>4, <2>5 DEF AttentionInv
<1>5. ASSUME record PROVE AttentionInv'
  <2>1. Cardinality(Younger(calls, Window)) < calls_per_window
    <3>1. acquiring = 0 /\ acquiring # None /\ Window - 0 = Window
      BY <1>5 DEF record
    <3> QED BY <3>1 DEF AttentionInv, RoomComes
  <2>2. Len(Pruned(calls)) < calls_per_window
    BY <2>1, PrunedYounger DEF AttentionInv
  <2>3. Kept(Recorded(calls), [called EXCEPT ![0] = @ + 1], calls_per_window)
    BY <2>2, RecordedKept DEF AttentionInv
  <2>4. Kept(calls, called, calls_per_window)'
    BY <1>5, <2>3 DEF record
  <2>5. acquiring' = None /\ UNCHANGED <<asks, asked, nap, away, away_until>>
    BY <1>5 DEF record, human
  <2>6. Kept(asks, asked, max_asks)'
    BY <2>5 DEF AttentionInv, Kept, OldestFirst, Younger
  <2> QED BY <2>4, <2>5, <2>6 DEF AttentionInv, RoomComes
<1>6. ASSUME Tick PROVE AttentionInv'
  <2>1. Kept(asks, asked, max_asks)' /\ Kept(calls, called, calls_per_window)'
    BY <1>6, OlderKept DEF Tick, AttentionInv
  <2>2. /\ acquiring' \in 0 .. Window \cup {None}
        /\ away' \in BOOLEAN /\ away_until' \in Nat \cup {None}
    BY <1>6 DEF Tick, Sooner, AttentionInv
  <2>3. nap' \in [Agents -> 0 .. WaitThreshold]
    BY <1>6 DEF Tick, Sooner, AttentionInv
  <2>4. RoomComes'
    <3> SUFFICES ASSUME acquiring' # None
                 PROVE  Cardinality(Younger(calls', Window - acquiring'))
                          < calls_per_window
      BY DEF RoomComes, Younger
    <3> DEFINE later == Window - acquiring'
               now == Window - acquiring
    <3>1. /\ acquiring \in 0 .. Window /\ acquiring # None
          /\ acquiring' = IF acquiring = 0 THEN 0 ELSE acquiring - 1
      BY <1>6 DEF Tick, Sooner, AttentionInv
    <3>2. later \in 1 .. Window /\ now \in 0 .. Window /\ later - 1 <= now
      BY <3>1
    <3>3. calls \in Seq(0 .. Window) /\ calls' = Older(calls)
      BY <1>6 DEF Tick, AttentionInv, Kept
    <3>4. Cardinality(Younger(calls, now)) < calls_per_window
      BY <3>1 DEF AttentionInv, RoomComes
    <3> HIDE DEF later, now
    <3>5. Younger(Older(calls), later) = Younger(calls, later - 1)
      BY <3>2, <3>3, YoungerOlder
    <3>6. Younger(calls, later - 1) \in SUBSET Younger(calls, now)
      <4>1. \A i \in 1 .. Len(calls) : calls[i] \in Int
        BY <3>3
      <4> QED BY <3>2, <4>1 DEF Younger
    <3>7. /\ IsFiniteSet(Younger(calls, now))
          /\ Cardinality(Younger(calls, now)) \in Nat
      BY <3>2, YoungerLast DEF AttentionInv
    <3>8. Cardinality(Younger(calls, later - 1)) <= Cardinality(Younger(calls, now))
      BY ONLY <3>6, <3>7, FS_Subset
    <3>9. Cardinality(Younger(calls, later - 1)) \in Nat
      BY ONLY <3>6, <3>7, FS_Subset, FS_CardinalityType
    <3>10. Cardinality(Younger(calls', later)) < calls_per_window
      BY <3>3, <3>4, <3>5, <3>7, <3>8, <3>9
    <3> QED BY <3>10 DEF later
  <2> QED BY <2>1, <2>2, <2>3, <2>4 DEF AttentionInv
<1>7. ASSUME UNCHANGED attention PROVE AttentionInv'
  BY <1>7 DEF attention, human, tool, AttentionInv, RoomComes, Kept,
              OldestFirst, Younger
<1> QED BY <1>1, <1>2, <1>3, <1>4, <1>5, <1>6, <1>7 DEF AttentionNext, AskOrNap

\* The invariant holds throughout.
LEMMA AttentionInvariant == AttentionSpec => []AttentionInv
<1> QED BY AttentionStart, AttentionStep, PTL DEF AttentionSpec

\* Whenever the windows begin, no more questions are asked of the human, and
\* no more calls made of the tool, than one window holds: for any number of
\* agents, any window, and a human who comes and goes (attention.py's and
\* tools.py's _prune() with record_ask() and acquire()).
THEOREM WindowsKept == AttentionSpec => []WindowKept
<1>1. AttentionInv => WindowKept
  <2> SUFFICES ASSUME AttentionInv PROVE WindowKept
    OBVIOUS
  <2>1. ASSUME NEW queue, NEW count, NEW limit \in Nat,
               Kept(queue, count, limit)
        PROVE  Total(count, 0 .. Window - 1) <= limit
    <3>1. Window \in 0 .. Window /\ Len(queue) \in Nat /\ Len(queue) <= limit
      BY <2>1 DEF Kept
    <3>2. Total(count, 0 .. Window - 1) = Cardinality(Younger(queue, Window))
      BY <2>1, <3>1 DEF Kept
    <3>3. Cardinality(Younger(queue, Window)) \in 0 .. Len(queue)
      BY <2>1, <3>1, YoungerLast
    <3> QED BY <3>1, <3>2, <3>3
  <2> QED BY <2>1 DEF AttentionInv, WindowKept
<1> QED BY <1>1, AttentionInvariant, PTL

\* The wait that wait_seconds() and as_budget() report is the least after which
\* one more question, or call, fits the window: never too short, and never a
\* tick too long.
THEOREM WaitsExact == AttentionSpec => []WaitIsExact
<1>1. AttentionInv => WaitIsExact
  BY FreeExact DEF AttentionInv, WaitIsExact
<1> QED BY <1>1, AttentionInvariant, PTL

\* Nobody begins to sleep while the human is away without a return time:
\* decide() makes a checkpoint of it.
THEOREM NoIndefiniteWaits == AttentionSpec => NoIndefiniteWait
<1> DEFINE Kind == \A a \in Agents :
                     nap'[a] > nap[a] => ~(away /\ away_until = None)
<1>1. AttentionInv /\ [AttentionNext]_attention => [Kind]_attention
  <2> SUFFICES ASSUME AttentionInv, AttentionNext PROVE Kind
    OBVIOUS
  <2> SUFFICES ASSUME NEW a \in Agents, nap'[a] > nap[a]
               PROVE  ~(away /\ away_until = None)
    OBVIOUS
  <2>1. nap \in [Agents -> 0 .. WaitThreshold]
    BY DEF AttentionInv
  <2>2. ~UNCHANGED nap
    BY <2>1
  <2>3. ~Tick
    <3>1. ASSUME Tick PROVE FALSE
      <4>1. nap'[a] = Sooner(nap[a])
        BY <3>1 DEF Tick
      <4> QED BY <2>1, <4>1 DEF Sooner
    <3> QED BY <3>1
  <2>4. PICK b \in Agents : Nap(b)
    BY <2>2, <2>3 DEF AttentionNext, AskOrNap, record_ask, StepAway, available,
                      acquire, record, human
  <2> QED BY <2>4, HumanDecision DEF Nap
<1> QED BY <1>1, AttentionInvariant, PTL DEF AttentionSpec, NoIndefiniteWait

=============================================================================
