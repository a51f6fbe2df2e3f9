--------------------------- MODULE Budgets_proofs ----------------------------
(***************************************************************************)
(* Budgets of many: the ceilings of one machine, of which the tightest     *)
(* counts, and the budgets of many providers, of which the best is used.   *)
(*                                                                         *)
(* An agent with local telemetry goes into a step only below every ceiling *)
(* its telemetry reads, and a run whose deadline is counted from its       *)
(* beginning has called and saved in time: for every context size, model,  *)
(* GPU and reserve.  A reading fails only where what it watches is not     *)
(* there.  The router keeps the times its providers ask for, and loses     *)
(* none of them, for any number of providers.                              *)
(***************************************************************************)
EXTENDS LocalResources, Router, TLAPS

-----------------------------------------------------------------------------
(* Arithmetic.                                                             *)

\* Tokens a number of bytes is good for do not need more bytes than that.
LEMMA QuotientFits ==
  ASSUME NEW a \in Nat, NEW b \in Nat \ {0}, NEW q \in Int, q <= a \div b
  PROVE  q * b <= a
<1> DEFINE d == a \div b
<1>1. d \in Int /\ d * b <= a
  OBVIOUS
<1>2. q * b <= d * b
  BY <1>1
<1> QED BY <1>1, <1>2

\* A ratio measured with a header in it asks for no less than the model does.
LEMMA RatioFits ==
  ASSUME NEW f \in Nat, NEW q \in Nat,
         NEW cells \in Nat \ {0}, NEW blob \in Nat \ {0},
         NEW bpt \in Nat, cells * bpt <= blob,
         q <= (f * cells) \div blob
  PROVE  q * bpt <= f
<1>1. f * cells \in Nat
  OBVIOUS
<1>2. q * blob <= f * cells
  BY <1>1, QuotientFits
<1>3. q * (cells * bpt) <= q * blob
  OBVIOUS
<1>4. (q * bpt) * cells <= f * cells
  BY <1>2, <1>3
<1> QED BY <1>4

\* What is no later leaves as much time.
LEMMA Spare ==
  ASSUME NEW x \in Nat, NEW y \in Nat, NEW r \in Nat, NEW t \in Nat,
         x <= y, y + r <= t
  PROVE  x + r <= t /\ x <= t
OBVIOUS

-----------------------------------------------------------------------------
(* Readings.                                                               *)

\* A step is gone into only if its tokens fit and the deadline leaves time.
LEMMA GoFits ==
  ASSUME NEW b, NEW s, NEW t, NEW m, decide(b, s, t, m).action = "continue"
  PROVE  tokens_fit(b, s) /\ time_fit(b, s)
<1> DEFINE soon == /\ Known(wait_s(b, s, m))
                    /\ wait_s(b, s, m) <= t
<1> HIDE DEF soon
<1>1. decide(b, s, t, m)
        = CASE ~time_fit(b, s) -> Decision("checkpoint", None)
            [] time_fit(b, s) /\ AllFit(b, s, m) -> Decision("continue", None)
            [] time_fit(b, s) /\ ~AllFit(b, s, m) ->
                  IF soon THEN Decision("wait", wait_s(b, s, m))
                          ELSE Decision("checkpoint", None)
  BY Zenon DEF decide, soon
<1>2. ~time_fit(b, s) => decide(b, s, t, m).action = "checkpoint"
  BY <1>1 DEF Decision
<1>3. time_fit(b, s) /\ ~AllFit(b, s, m)
        => decide(b, s, t, m).action \in {"wait", "checkpoint"}
  BY <1>1 DEF Decision
<1>4. time_fit(b, s) /\ AllFit(b, s, m)
  BY <1>2, <1>3
<1> QED BY <1>4 DEF AllFit

\* The least is one of the two, and no more than either.
LEMMA Tightest ==
  ASSUME NEW A, NEW B, A.remaining_tokens \in Int, B.remaining_tokens \in Int
  PROVE  LET w == CHOOSE b \in {A, B} : \A c \in {A, B} :
                     b.remaining_tokens <= c.remaining_tokens
         IN  /\ w \in {A, B}
             /\ w.remaining_tokens <= A.remaining_tokens
             /\ w.remaining_tokens <= B.remaining_tokens
<1>1. \E b \in {A, B} : \A c \in {A, B} :
          b.remaining_tokens <= c.remaining_tokens
  OBVIOUS
<1> QED BY <1>1

\* A composite that does not raise has no more tokens than any of its sources.
LEMMA CompositeTightest ==
  ASSUME NEW A, NEW B, Known(CompositeLocalBudget({A, B})),
         Known(A) => A \in Budgets, Known(B) => B \in Budgets
  PROVE  LET r == CompositeLocalBudget({A, B})
         IN  /\ Known(A) /\ Known(B)
             /\ r.remaining_tokens \in Int
             /\ r.remaining_tokens <= A.remaining_tokens
             /\ r.remaining_tokens <= B.remaining_tokens
             /\ \A v : LET k == [r EXCEPT !.remaining_seconds = v]
                       IN  /\ k.remaining_seconds = v
                           /\ k.remaining_tokens = r.remaining_tokens
<1> DEFINE w == CHOOSE b \in {A, B} : \A c \in {A, B} :
                   b.remaining_tokens <= c.remaining_tokens
           r == CompositeLocalBudget({A, B})
<1>1. Known(A) /\ Known(B)
  BY DEF CompositeLocalBudget, Known
<1>2. A \in Budgets /\ B \in Budgets
  BY <1>1
<1>3. A.remaining_tokens \in Int /\ B.remaining_tokens \in Int
  BY <1>2 DEF Budgets
<1>4. /\ w \in {A, B}
      /\ w.remaining_tokens <= A.remaining_tokens
      /\ w.remaining_tokens <= B.remaining_tokens
  BY <1>3, Tightest
<1>5. w \in Budgets
  BY <1>2, <1>4
<1> HIDE DEF w
<1>6. r = [w EXCEPT
             !.remaining_requests      = MinAcross({A, B}, "remaining_requests"),
             !.remaining_input_tokens  = MinAcross({A, B}, "remaining_input_tokens"),
             !.remaining_output_tokens = MinAcross({A, B}, "remaining_output_tokens"),
             !.limit_tokens            = MinAcross({A, B}, "limit_tokens"),
             !.remaining_seconds       = MinAcross({A, B}, "remaining_seconds")]
  BY <1>1 DEF CompositeLocalBudget, Known, w
<1>7. r.remaining_tokens = w.remaining_tokens
  BY <1>5, <1>6 DEF Budgets
<1> QED BY <1>1, <1>3, <1>4, <1>5, <1>6, <1>7 DEF Budgets

\* What is left of the context is at most what the margin leaves of all of it.
LEMMA ContextFits ==
  ASSUME TypeOK, Known(LlamaCppContextBudget)
  PROVE  /\ LlamaCppContextBudget \in Budgets
         /\ \A needed \in Nat \ {0} :
               needed <= LlamaCppContextBudget.remaining_tokens
                 => needed <= n_ctx - safety_margin_tokens
<1> DEFINE used == _default_used_field(slot)
           left == Greater(0, n_ctx - used - safety_margin_tokens)
<1>1. n_ctx \in Nat /\ safety_margin_tokens \in Nat
  BY LocalAssumption
<1>2. up /\ Known(used)
  BY DEF LlamaCppContextBudget, Known
<1>3. slot.n_prompt_tokens \in 0 .. n_ctx \cup {None} /\ slot.is_processing \in BOOLEAN
  BY DEF TypeOK
<1>4. used \in 0 .. n_ctx
  BY <1>1, <1>2, <1>3 DEF _default_used_field, Known
<1> HIDE DEF used
<1>5. left \in Nat /\ (left = 0 \/ left <= n_ctx - safety_margin_tokens)
  BY <1>1, <1>4 DEF Greater
<1> HIDE DEF left
<1>6. LlamaCppContextBudget = [TokenBudget(left) EXCEPT !.limit_tokens = n_ctx]
  BY <1>2 DEF LlamaCppContextBudget, used, left
<1>7. /\ LlamaCppContextBudget \in Budgets
      /\ LlamaCppContextBudget.remaining_tokens = left
  BY <1>1, <1>5, <1>6 DEF TokenBudget, Budgets, Seconds
<1> QED BY <1>1, <1>5, <1>7

\* A ratio that asks for no less than the model does.
Ratios ==
    {bpt \in Measured :
        bpt.cells * BytesPerToken <= bpt.blob}

\* What is left of the VRAM is no more than the model fits in.
LEMMA VRAMFits ==
  ASSUME TypeOK, NEW bpt \in Ratios, Known(GPUMemoryBudget(bpt))
  PROVE  /\ GPUMemoryBudget(bpt) \in Budgets
         /\ \A needed \in Nat \ {0} :
               needed <= GPUMemoryBudget(bpt).remaining_tokens
                 => needed * BytesPerToken <= free
<1> DEFINE left == (free * bpt.cells) \div bpt.blob
           limit == (total_bytes * bpt.cells) \div bpt.blob
<1>1. /\ free \in Nat /\ total_bytes \in Nat /\ BytesPerToken \in Nat
      /\ bpt.blob \in Nat \ {0} /\ bpt.cells \in Nat \ {0}
      /\ bpt.cells * BytesPerToken <= bpt.blob
  <2>1. total_bytes \in Nat /\ FreeLevels \subseteq 0 .. total_bytes /\ BytesPerToken \in Nat
    BY LocalAssumption
  <2>2. free \in FreeLevels
    BY DEF TypeOK
  <2>3. free \in Nat
    BY <2>1, <2>2
  <2>4. /\ bpt.blob \in Nat \ {0} /\ bpt.cells \in Nat \ {0}
        /\ bpt.cells * BytesPerToken <= bpt.blob
    BY DEF Ratios, Measured
  <2> QED BY <2>1, <2>3, <2>4
<1>2. free * bpt.cells \in Nat /\ total_bytes * bpt.cells \in Nat
  BY <1>1
<1>3. left \in Int /\ limit \in Int
  BY <1>1, <1>2
<1>4. \A needed \in Nat \ {0} : needed <= left => needed * BytesPerToken <= free
  <2> SUFFICES ASSUME NEW needed \in Nat \ {0}, needed <= left
               PROVE  needed * BytesPerToken <= free
    OBVIOUS
  <2> QED BY <1>1, RatioFits
<1>5. driver /\ Known(bpt)
  BY DEF GPUMemoryBudget, Known
<1> HIDE DEF left, limit
<1>6. GPUMemoryBudget(bpt) = [TokenBudget(left) EXCEPT !.limit_tokens = limit]
  BY <1>5 DEF GPUMemoryBudget, left, limit
<1>7. /\ GPUMemoryBudget(bpt) \in Budgets
      /\ GPUMemoryBudget(bpt).remaining_tokens = left
  BY <1>3, <1>6 DEF TokenBudget, Budgets, Seconds
<1> QED BY <1>4, <1>7

\* A reading that no more is asked of than the context and, if it is watched,
\* the VRAM have left; and a deadline set on it says what is set.
Sound(r, vram) ==
    /\ r.remaining_tokens \in Int
    /\ \A needed \in Nat \ {0} :
          needed <= r.remaining_tokens =>
             /\ needed <= n_ctx - safety_margin_tokens
             /\ vram => needed * BytesPerToken <= free
    /\ \A v : LET k == [r EXCEPT !.remaining_seconds = v]
              IN  /\ k.remaining_seconds = v
                  /\ k.remaining_tokens = r.remaining_tokens

\* What the facade and the pieces read of the context and the GPU is sound.
LEMMA SourcesSound ==
  ASSUME TypeOK
  PROVE  /\ Known(CompositeLocalBudget({LlamaCppContextBudget})) =>
               Sound(CompositeLocalBudget({LlamaCppContextBudget}), FALSE)
         /\ \A bpt \in Ratios :
               LET r == CompositeLocalBudget(
                           {LlamaCppContextBudget, GPUMemoryBudget(bpt)})
               IN  Known(r) => Sound(r, TRUE)
<1> DEFINE C == LlamaCppContextBudget
<1>1. Known(C) => /\ C \in Budgets
                  /\ \A needed \in Nat \ {0} :
                        needed <= C.remaining_tokens
                          => needed <= n_ctx - safety_margin_tokens
  BY ContextFits
<1>2. ASSUME NEW G, Known(G) => G \in Budgets, Known(CompositeLocalBudget({C, G})),
             NEW vram \in BOOLEAN,
             Known(G) /\ vram =>
                \A needed \in Nat \ {0} :
                   needed <= G.remaining_tokens
                     => needed * BytesPerToken <= free
      PROVE  Sound(CompositeLocalBudget({C, G}), vram)
  <2> DEFINE r == CompositeLocalBudget({C, G})
  <2> HIDE DEF C
  <2>1. /\ Known(C) /\ Known(G)
        /\ r.remaining_tokens \in Int
        /\ r.remaining_tokens <= C.remaining_tokens
        /\ r.remaining_tokens <= G.remaining_tokens
        /\ \A v : LET k == [r EXCEPT !.remaining_seconds = v]
                  IN  /\ k.remaining_seconds = v
                      /\ k.remaining_tokens = r.remaining_tokens
    BY <1>1, <1>2, CompositeTightest
  <2>2. C.remaining_tokens \in Int /\ G.remaining_tokens \in Int
    BY <1>1, <1>2, <2>1 DEF Budgets
  <2> HIDE DEF r
  <2>3. ASSUME NEW needed \in Nat \ {0}, needed <= r.remaining_tokens
        PROVE  /\ needed <= n_ctx - safety_margin_tokens
               /\ vram => needed * BytesPerToken <= free
    <3>1. needed <= C.remaining_tokens /\ needed <= G.remaining_tokens
      BY <2>1, <2>2, <2>3
    <3> QED BY <1>1, <1>2, <2>1, <3>1
  <2> QED BY <2>1, <2>3 DEF Sound, r
<1>3. {C} = {C, C}
  OBVIOUS
<1> HIDE DEF C
<1>4. Known(CompositeLocalBudget({C})) => Sound(CompositeLocalBudget({C}), FALSE)
  BY <1>1, <1>2, <1>3
<1>5. ASSUME NEW bpt \in Ratios,
             Known(CompositeLocalBudget({C, GPUMemoryBudget(bpt)}))
      PROVE  Sound(CompositeLocalBudget({C, GPUMemoryBudget(bpt)}), TRUE)
  BY <1>2, <1>5, VRAMFits
<1> QED BY <1>4, <1>5 DEF C

\* What a run reads, whichever telemetry it was given, is sound, and a
\* deadline by hand is the one its clock has left.
LEMMA ReadingSound ==
  ASSUME TypeOK, Known(Reading),
         Known(bytes_per_token) => bytes_per_token \in Ratios
  PROVE  /\ Reading.remaining_tokens \in Int
         /\ \A needed \in Nat \ {0} :
               needed <= Reading.remaining_tokens =>
                  /\ needed <= n_ctx - safety_margin_tokens
                  /\ Watched => needed * BytesPerToken <= free
         /\ wiring = "by_hand" =>
               Reading.remaining_seconds = time_budget_s - elapsed - reserve_s
<1>1. wiring \in {"facade", "timed_facade", "by_hand"}
  BY LocalAssumption DEF TypeOK, TimedWirings
<1>2. ASSUME NEW r, NEW since, NEW reserve,
             Known(KVAwareTimeBudget(r, since, reserve))
      PROVE  /\ Known(r)
             /\ KVAwareTimeBudget(r, since, reserve)
                   = [r EXCEPT !.remaining_seconds = time_budget_s - since - reserve]
  BY <1>2 DEF KVAwareTimeBudget, Known
<1>3. Known(FacadeReading) => Sound(FacadeReading, WatchesVRAM)
  <2>1. CASE WatchesVRAM
    <3>1. bytes_per_token \in Ratios
      BY <2>1 DEF WatchesVRAM
    <3>2. FacadeReading = CompositeLocalBudget(
             {LlamaCppContextBudget, GPUMemoryBudget(bytes_per_token)})
      <4>1. {LlamaCppContextBudget} \cup
               (IF WatchesVRAM THEN {GPUMemoryBudget(bytes_per_token)} ELSE {})
              = {LlamaCppContextBudget, GPUMemoryBudget(bytes_per_token)}
        BY <2>1, Zenon
      <4> QED BY <4>1, Zenon DEF FacadeReading
    <3>3. WatchesVRAM = TRUE
      BY <2>1 DEF WatchesVRAM, TypeOK
    <3> QED BY <3>1, <3>2, <3>3, SourcesSound, Zenon
  <2>2. CASE ~WatchesVRAM
    <3>1. {LlamaCppContextBudget} \cup
             (IF WatchesVRAM THEN {GPUMemoryBudget(bytes_per_token)} ELSE {})
            = {LlamaCppContextBudget}
      BY <2>2, Zenon
    <3>2. FacadeReading = CompositeLocalBudget({LlamaCppContextBudget})
      BY <3>1, Zenon DEF FacadeReading
    <3>3. WatchesVRAM = FALSE
      BY <2>2 DEF WatchesVRAM, TypeOK
    <3> QED BY <3>2, <3>3, SourcesSound, Zenon
  <2> QED BY <2>1, <2>2
<1>4. CASE wiring = "facade"
  <2>1. Reading = FacadeReading /\ (Watched => WatchesVRAM)
    BY <1>4 DEF Reading, Watched
  <2> QED BY <1>3, <1>4, <2>1 DEF Sound
<1>5. CASE wiring = "timed_facade"
  <2>1. Reading = TimedFacadeReading /\ (Watched => WatchesVRAM)
    BY <1>5 DEF Reading, Watched
  <2> DEFINE reserve == IF Known(measured_save_s) THEN measured_save_s
                                                ELSE ProvisionalReserve
  <2>2. /\ Known(FacadeReading)
        /\ Reading = [FacadeReading EXCEPT !.remaining_seconds =
                        time_budget_s - 0 - reserve]
    BY <1>2, <2>1 DEF TimedFacadeReading
  <2> HIDE DEF reserve
  <2> QED BY <1>3, <1>5, <2>1, <2>2 DEF Sound
<1>6. CASE wiring = "by_hand"
  <2> DEFINE bpt == [blob |-> BytesPerToken, cells |-> 1]
             r == CompositeLocalBudget(
                     {LlamaCppContextBudget, GPUMemoryBudget(bpt)})
  <2>1. bpt \in Ratios
    BY LocalAssumption DEF Ratios, Measured
  <2> HIDE DEF bpt
  <2>2. Known(r) => Sound(r, Watched)
    BY <1>6, <2>1, SourcesSound DEF Watched
  <2> HIDE DEF r
  <2>3. Reading = KVAwareTimeBudget(r, elapsed, reserve_s)
    BY <1>6 DEF Reading, ByHandReading, r, bpt
  <2>4. /\ Known(r)
        /\ Reading = [r EXCEPT !.remaining_seconds = time_budget_s - elapsed - reserve_s]
    BY <1>2, <2>3
  <2> QED BY <2>2, <2>4 DEF Sound
<1> QED BY <1>1, <1>4, <1>5, <1>6

-----------------------------------------------------------------------------
(* The invariant.                                                          *)

\* By hand there is always time left for the save, and before a call for the
\* call as well: first because there was time for the steps the estimator
\* learns from, then because the deadline was asked.
TimeInv ==
    wiring = "by_hand" =>
        /\ elapsed <= time_budget_s
        /\ pc \in {"deciding", "go", "stop"} =>
              elapsed + reserve_s <= time_budget_s
        /\ pc \in {"deciding", "go"} /\ samples < min_samples =>
              elapsed <= samples * MaxLatency
        /\ pc = "go" /\ samples >= min_samples =>
              elapsed + MaxLatency + reserve_s <= time_budget_s

LocalInv ==
    /\ TypeOK
    /\ FitsEveryCeiling
    /\ Known(bytes_per_token) => bytes_per_token \in Ratios
    /\ TimeInv

\* Going into a step that has been decided on.
LEMMA NextActionKeeps ==
  ASSUME LocalInv, next_action
  PROVE  FitsEveryCeiling' /\ TimeInv'
<1>1. /\ elapsed \in Nat /\ time_budget_s \in Nat /\ reserve_s \in Nat
      /\ MaxLatency \in Nat \ {0} /\ samples \in Nat /\ min_samples \in Nat
      /\ history \in Nat /\ MaxNew \in Nat \ {0}
  BY LocalAssumption DEF LocalInv, TypeOK
<1> DEFINE step == [TokenStep(history + MaxNew) EXCEPT !.latency = estimate_latency]
<1>2. /\ step.needed = history + MaxNew
      /\ step.latency = estimate_latency
  BY DEF TokenStep
<1>3. /\ pc = "deciding" /\ pc' \in {"lost", "go", "stop"}
      /\ pc' = "go" => /\ Known(Reading)
                       /\ decide(Reading, step, 15, 0).action = "continue"
      /\ seen' = free
      /\ UNCHANGED <<bytes_per_token, gpu_available, wiring, elapsed, history,
                     samples>>
  BY DEF next_action, calibration
<1> HIDE DEF step
<1>4. ASSUME pc' = "go"
      PROVE  /\ history + MaxNew <= n_ctx - safety_margin_tokens
             /\ Watched => (history + MaxNew) * BytesPerToken <= free
             /\ wiring = "by_hand" /\ samples >= min_samples =>
                   elapsed + MaxLatency + reserve_s <= time_budget_s
  <2>1. tokens_fit(Reading, step) /\ time_fit(Reading, step)
    BY <1>3, <1>4, GoFits
  <2>2. history + MaxNew \in Nat \ {0}
    BY <1>1
  <2>3. ~(Reading.remaining_tokens < history + MaxNew)
    BY <1>2, <2>1 DEF tokens_fit, should_checkpoint
  <2>4. Known(Reading)
    BY <1>3, <1>4
  <2> DEFINE R == Reading
  <2>5. /\ \A needed \in Nat \ {0} :
              needed <= R.remaining_tokens =>
                 /\ needed <= n_ctx - safety_margin_tokens
                 /\ Watched => needed * BytesPerToken <= free
        /\ R.remaining_tokens \in Int
        /\ wiring = "by_hand" =>
              R.remaining_seconds = time_budget_s - elapsed - reserve_s
    BY <2>4, ReadingSound DEF LocalInv
  <2> HIDE DEF R
  <2>6. history + MaxNew <= R.remaining_tokens
    BY <2>2, <2>3, <2>5 DEF R
  <2>7. ASSUME wiring = "by_hand", samples >= min_samples
        PROVE  elapsed + MaxLatency + reserve_s <= time_budget_s
    <3>1. step.latency = MaxLatency
      BY <1>1, <1>2, <2>7 DEF estimate_latency
    <3>2. R.remaining_seconds \in Int
      BY <1>1, <2>5, <2>7
    <3>3. MaxLatency <= R.remaining_seconds
      BY <1>1, <2>1, <3>1, <3>2, NoneAssumption DEF time_fit, Fits, Known, R
    <3> QED BY <1>1, <2>5, <2>7, <3>3
  <2> QED BY <2>2, <2>5, <2>6, <2>7
<1>5. FitsEveryCeiling'
  BY <1>3, <1>4 DEF FitsEveryCeiling, Watched, WatchesVRAM
<1>6. TimeInv'
  BY <1>1, <1>3, <1>4 DEF TimeInv, LocalInv
<1> QED BY <1>5, <1>6

\* A call that was gone into is answered with time left, and its conversation
\* is in the context.
LEMMA CallKeeps ==
  ASSUME LocalInv, call
  PROVE  LocalInv'
<1>1. /\ elapsed \in Nat /\ time_budget_s \in Nat /\ reserve_s \in Nat
      /\ MaxLatency \in Nat \ {0} /\ samples \in 0 .. min_samples
      /\ min_samples \in Nat /\ n_ctx \in Nat /\ safety_margin_tokens \in Nat
      /\ history \in Nat /\ MaxNew \in Nat \ {0}
  BY LocalAssumption DEF LocalInv, TypeOK
<1>2. PICK d \in 1 .. MaxLatency, n \in 1 .. MaxNew :
         /\ elapsed' = Later(d)
         /\ history' = history + n
         /\ slot' = Slot(history', FALSE)
  BY DEF call
<1>3. /\ pc = "go" /\ pc' = "deciding"
      /\ samples' = Lesser(samples + 1, min_samples)
      /\ UNCHANGED <<up, free, driver, gpu_available, bytes_per_token,
                     measured_save_s, min_free_bytes, wiring, seen>>
  BY DEF call, calibration
<1>4. history' \in 0 .. n_ctx
  BY <1>1, <1>2, <1>3 DEF LocalInv, FitsEveryCeiling
<1>5. /\ elapsed' \in 0 .. time_budget_s + 1
      /\ elapsed' <= elapsed + d
  BY <1>1, <1>2 DEF Later, Lesser
<1>6. samples' \in 0 .. min_samples
  BY <1>1, <1>3 DEF Lesser
<1>7. TypeOK'
  <2>1. slot' \in [n_prompt_tokens : 0 .. n_ctx \cup {None}, is_processing : BOOLEAN]
    BY <1>2, <1>4 DEF Slot
  <2> QED BY <1>3, <1>4, <1>5, <1>6, <2>1 DEF LocalInv, TypeOK
<1>8. FitsEveryCeiling'
  BY <1>3 DEF FitsEveryCeiling
<1>9. elapsed' \in Nat /\ elapsed' <= elapsed + MaxLatency
  BY <1>1, <1>5
<1>10. ASSUME wiring = "by_hand"
      PROVE  /\ elapsed' + reserve_s <= time_budget_s
             /\ elapsed' <= time_budget_s
             /\ samples' < min_samples => elapsed' <= samples' * MaxLatency
  <2>1. CASE samples < min_samples
    <3> DEFINE before == samples * MaxLatency
               after == (samples + 1) * MaxLatency
               all == min_samples * MaxLatency
    <3>1. elapsed <= before
      BY <1>3, <1>10, <2>1 DEF LocalInv, TimeInv
    <3>2. samples' = samples + 1
      BY <1>1, <1>3, <2>1 DEF Lesser
    <3>3. before \in Nat /\ after \in Nat /\ all \in Nat
      BY <1>1
    <3>4. after = before + MaxLatency /\ after <= all
      BY <1>1, <2>1
    <3>5. all + reserve_s <= time_budget_s
      BY <1>1, LocalAssumption
    <3>6. samples' * MaxLatency = after
      BY <3>2
    <3> HIDE DEF before, after, all
    <3>7. elapsed' <= after
      BY <1>1, <1>9, <3>1, <3>3, <3>4
    <3>8. elapsed' + reserve_s <= time_budget_s /\ elapsed' <= time_budget_s
      <4>1. all + reserve_s <= time_budget_s /\ elapsed' <= all
        BY <1>9, <3>3, <3>4, <3>5, <3>7
      <4> QED BY <1>1, <1>9, <3>3, <4>1, Spare
    <3> QED BY <3>6, <3>7, <3>8
  <2>2. CASE samples >= min_samples
    <3>1. elapsed + MaxLatency + reserve_s <= time_budget_s
      BY <1>3, <1>10, <2>2 DEF LocalInv, TimeInv
    <3>2. samples' = min_samples
      BY <1>1, <1>3, <2>2 DEF Lesser
    <3>3. elapsed' + reserve_s <= time_budget_s /\ elapsed' <= time_budget_s
      <4>1. elapsed + MaxLatency \in Nat
        BY <1>1
      <4> QED BY <1>1, <1>9, <3>1, <4>1, Spare
    <3> QED BY <1>1, <3>2, <3>3
  <2>3. samples < min_samples \/ samples >= min_samples
    BY <1>1
  <2> QED BY <2>1, <2>2, <2>3, Zenon
<1>11. TimeInv'
  BY <1>3, <1>10 DEF TimeInv
<1> QED BY <1>3, <1>7, <1>8, <1>11 DEF LocalInv

\* A save ends in the reserve, and measures a ratio with its header in it.
LEMMA SaveKeeps ==
  ASSUME LocalInv, save_with_kv
  PROVE  LocalInv'
<1>1. /\ elapsed \in Nat /\ time_budget_s \in Nat /\ reserve_s \in Nat
      /\ BytesPerToken \in Nat \ {0} /\ Header \in Nat /\ n_ctx \in Nat
      /\ SaveTimes \subseteq 0 .. reserve_s
  BY LocalAssumption DEF LocalInv, TypeOK
<1>2. /\ pc = "stop" /\ pc' = "out"
      /\ UNCHANGED <<up, slot, free, driver, gpu_available, wiring, history,
                     samples, seen>>
  BY DEF save_with_kv, world
<1>3. PICK d \in SaveTimes :
         /\ elapsed' = Later(d)
         /\ Calibrated(d) \/ UNCHANGED calibration
  BY DEF save_with_kv
<1>4. /\ elapsed' \in 0 .. time_budget_s + 1
      /\ elapsed' <= elapsed + d /\ d <= reserve_s /\ d \in Nat
  BY <1>1, <1>3 DEF Later, Lesser
<1>5. n_saved \in Nat /\ blob_bytes \in Nat
  <2>1. slot.n_prompt_tokens \in 0 .. n_ctx \cup {None}
    BY DEF LocalInv, TypeOK
  <2>2. n_saved \in Nat
    BY <1>1, <2>1 DEF n_saved, Known
  <2> QED BY <1>1, <2>2 DEF blob_bytes
<1>6. /\ bytes_per_token' \in Measured \cup {None}
      /\ Known(bytes_per_token)' => bytes_per_token' \in Ratios
      /\ measured_save_s' \in SaveTimes \cup {None}
      /\ min_free_bytes' \in Nat \cup {None}
  <2>1. CASE Calibrated(d)
    <3>1. CASE n_saved > 0
      <4>1. /\ blob_bytes \in Nat \ {0} /\ n_saved \in Nat \ {0}
            /\ n_saved * BytesPerToken <= blob_bytes
        BY <1>1, <1>5, <3>1 DEF blob_bytes
      <4> HIDE DEF blob_bytes, n_saved
      <4>2. bytes_per_token' = [blob |-> blob_bytes, cells |-> n_saved]
        BY <2>1, <3>1 DEF Calibrated
      <4>3. bytes_per_token' \in Ratios
        BY <4>1, <4>2 DEF Ratios, Measured
      <4> QED BY <1>5, <2>1, <4>3 DEF Ratios, Calibrated
    <3>2. CASE ~(n_saved > 0)
      <4>1. bytes_per_token' = bytes_per_token
        BY <2>1, <3>2 DEF Calibrated
      <4> QED BY <1>5, <2>1, <4>1 DEF Calibrated, LocalInv, TypeOK, Known
    <3> QED BY <3>1, <3>2
  <2>2. CASE UNCHANGED calibration
    BY <2>2 DEF calibration, LocalInv, TypeOK, Known
  <2> QED BY <1>3, <2>1, <2>2
<1>7. TypeOK'
  BY <1>2, <1>4, <1>6 DEF LocalInv, TypeOK
<1>8. FitsEveryCeiling'
  BY <1>2 DEF FitsEveryCeiling
<1>9. TimeInv'
  BY <1>1, <1>2, <1>4 DEF TimeInv, LocalInv
<1> QED BY <1>6, <1>7, <1>8, <1>9 DEF LocalInv

\* A run that begins has its time before it.
LEMMA BeginKeeps ==
  ASSUME LocalInv, Begin
  PROVE  LocalInv'
<1>1. /\ time_budget_s \in Nat /\ reserve_s \in Nat /\ MaxLatency \in Nat \ {0}
      /\ samples \in Nat /\ min_samples \in Nat /\ n_ctx \in Nat
      /\ Sizes \subseteq 0 .. n_ctx /\ history \in 0 .. n_ctx
      /\ time_budget_s >= min_samples * MaxLatency + reserve_s
  BY LocalAssumption DEF LocalInv, TypeOK
<1>2. /\ pc' = "deciding" /\ elapsed' = 0 /\ history' \in 0 .. n_ctx
      /\ UNCHANGED <<up, slot, free, driver, wiring, samples, seen>>
  BY <1>1 DEF Begin, world
<1>3. /\ gpu_available' \in BOOLEAN
      /\ bytes_per_token' \in {bytes_per_token, None}
      /\ measured_save_s' \in {measured_save_s, None}
      /\ min_free_bytes' \in {min_free_bytes, None}
  BY DEF Begin, calibration, LocalInv, TypeOK
<1>4. TypeOK'
  BY <1>1, <1>2, <1>3 DEF LocalInv, TypeOK
<1>5. FitsEveryCeiling'
  BY <1>2 DEF FitsEveryCeiling
<1>6. Known(bytes_per_token)' => bytes_per_token' \in Ratios
  BY <1>3 DEF LocalInv, Known
<1>7. TimeInv'
  <2>1. 0 <= samples * MaxLatency /\ 0 <= min_samples * MaxLatency
    BY <1>1
  <2>2. reserve_s <= time_budget_s
    BY <1>1, <2>1
  <2> QED BY <1>1, <1>2, <2>1, <2>2 DEF TimeInv
<1> QED BY <1>4, <1>5, <1>6, <1>7 DEF LocalInv

\* What happens to the server and the GPU between a reading and its step
\* changes nothing of what was decided on.
LEMMA WorldKeeps ==
  ASSUME LocalInv, World
  PROVE  LocalInv'
<1>1. UNCHANGED Others
  BY DEF World, Crash, Restart, ForeignTask, Allocation, DriverChange
<1>2. up' \in BOOLEAN /\ driver' \in BOOLEAN /\ free' \in FreeLevels
  BY DEF World, Crash, Restart, ForeignTask, Allocation, DriverChange,
         LocalInv, TypeOK
<1>3. slot' \in [n_prompt_tokens : 0 .. n_ctx \cup {None}, is_processing : BOOLEAN]
  <2>1. slot' = slot \/ \E n \in Sizes \cup {None}, p \in BOOLEAN : slot' = Slot(n, p)
    BY DEF World, Crash, Restart, ForeignTask, Allocation, DriverChange
  <2>2. Sizes \subseteq 0 .. n_ctx
    BY LocalAssumption
  <2> DEFINE S == [n_prompt_tokens : 0 .. n_ctx \cup {None}, is_processing : BOOLEAN]
  <2>3. slot \in S
    BY DEF LocalInv, TypeOK
  <2>4. ASSUME NEW n \in Sizes \cup {None}, NEW p \in BOOLEAN
        PROVE  Slot(n, p) \in S
    <3>1. n \in 0 .. n_ctx \cup {None}
      BY <2>2
    <3> QED BY <3>1 DEF Slot
  <2> HIDE DEF S
  <2>5. slot' \in S
    BY <2>1, <2>3, <2>4
  <2> QED BY <2>5 DEF S
<1>4. TypeOK'
  BY <1>1, <1>2, <1>3 DEF Others, calibration, LocalInv, TypeOK
<1> QED BY <1>1, <1>4 DEF Others, calibration, LocalInv, FitsEveryCeiling, Watched,
            WatchesVRAM, Known, TimeInv

\* Every reachable state keeps the invariant.
LEMMA Invariant ==
  Spec => []LocalInv
<1>1. Init => LocalInv
  <2> SUFFICES ASSUME Init PROVE LocalInv
    OBVIOUS
  <2>1. TypeOK
    BY LocalAssumption DEF Init, Slot, TypeOK
  <2>2. TimeInv
    BY LocalAssumption DEF Init, TimeInv
  <2> QED BY <2>1, <2>2 DEF Init, LocalInv, FitsEveryCeiling, Known
<1>2. LocalInv /\ [Next]_vars => LocalInv'
  <2> SUFFICES ASSUME LocalInv, [Next]_vars PROVE LocalInv'
    OBVIOUS
  <2>1. CASE Begin
    BY <2>1, BeginKeeps
  <2>2. CASE next_action
    <3>1. FitsEveryCeiling' /\ TimeInv'
      BY <2>2, NextActionKeeps
    <3>2. /\ seen' = free /\ pc' \in {"lost", "go", "stop"}
          /\ UNCHANGED <<world, gpu_available, calibration, wiring, elapsed,
                         history, samples>>
      BY <2>2 DEF next_action
    <3>3. TypeOK'
      BY <3>2 DEF world, calibration, LocalInv, TypeOK
    <3> QED BY <3>1, <3>2, <3>3 DEF calibration, LocalInv, Known
  <2>3. CASE call
    BY <2>3, CallKeeps
  <2>4. CASE CallRaises
    BY <2>4 DEF CallRaises, world, calibration, LocalInv, TypeOK,
                FitsEveryCeiling, TimeInv, Known
  <2>5. CASE save_with_kv
    BY <2>5, SaveKeeps
  <2>6. CASE World
    BY <2>6, WorldKeeps
  <2>7. CASE UNCHANGED vars
    BY <2>7 DEF vars, world, calibration, LocalInv, TypeOK, FitsEveryCeiling,
                Watched, WatchesVRAM, TimeInv, Known
  <2> QED BY <2>1, <2>2, <2>3, <2>4, <2>5, <2>6, <2>7 DEF Next
<1> QED BY <1>1, <1>2, PTL DEF Spec

-----------------------------------------------------------------------------
(* The results.                                                            *)

\* A step is gone into only below every ceiling that the telemetry reads, by
\* Session.next_action over CompositeLocalBudget, for every server and GPU.
THEOREM CeilingsFit ==
  Spec => []FitsEveryCeiling
<1>1. LocalInv => FitsEveryCeiling
  BY DEF LocalInv
<1> QED BY <1>1, Invariant, PTL

\* A deadline counted from the run's beginning (KVAwareTimeBudget made once,
\* with the run) is met with the save; the facade's, which is counted from
\* each reading, is excluded.
THEOREM RunsEndInTime ==
  ASSUME "timed_facade" \notin Wirings
  PROVE  Spec => []RunEndsInTime
<1>1. LocalInv => RunEndsInTime
  BY LocalAssumption DEF LocalInv, TypeOK, TimeInv, RunEndsInTime, TimedWirings
<1> QED BY <1>1, Invariant, PTL

-----------------------------------------------------------------------------
(* Readings that are there.                                                *)

\* The tightest of two values, if one is known, is a value.
LEMMA MinOfTwo ==
  ASSUME NEW A \in Budgets, NEW B \in Budgets, NEW field,
         A[field] \in Seconds, B[field] \in Seconds
  PROVE  MinAcross({A, B}, field) \in Seconds
<1> DEFINE values == {b[field] : b \in {A, B}} \ {None}
<1>1. values = {A[field], B[field]} \ {None}
  OBVIOUS
<1>2. MinAcross({A, B}, field) = IF values = {} THEN None ELSE Min(values)
  BY DEF MinAcross
<1>3. values \subseteq Int
  BY <1>1 DEF Seconds
<1>4. CASE values = {}
  BY <1>2, <1>4 DEF Seconds
<1>5. CASE values # {}
  <2>1. \E x \in values : \A y \in values : x <= y
    BY <1>1, <1>3, <1>5
  <2> HIDE DEF values
  <2>2. Min(values) \in values
    BY <2>1 DEF Min
  <2> QED BY <1>2, <1>3, <1>5, <2>2 DEF Seconds
<1> QED BY <1>4, <1>5

\* A composite of sources that do not raise does not raise.
LEMMA CompositeKnown ==
  ASSUME NEW A \in Budgets, NEW B \in Budgets
  PROVE  CompositeLocalBudget({A, B}) \in Budgets
<1> DEFINE w == CHOOSE b \in {A, B} : \A c \in {A, B} :
                   b.remaining_tokens <= c.remaining_tokens
           requests == MinAcross({A, B}, "remaining_requests")
           input == MinAcross({A, B}, "remaining_input_tokens")
           output == MinAcross({A, B}, "remaining_output_tokens")
           limit == MinAcross({A, B}, "limit_tokens")
           seconds == MinAcross({A, B}, "remaining_seconds")
<1>1. None \notin {A, B}
  BY ReadingAssumption
<1>2. w \in {A, B}
  BY Tightest DEF Budgets
<1>3. /\ requests \in Seconds /\ input \in Seconds /\ output \in Seconds
      /\ limit \in Seconds /\ seconds \in Seconds
  <2>1. \A b \in Budgets :
          /\ b["remaining_requests"] \in Seconds
          /\ b["remaining_input_tokens"] \in Seconds
          /\ b["remaining_output_tokens"] \in Seconds
          /\ b["limit_tokens"] \in Seconds
          /\ b["remaining_seconds"] \in Seconds
    BY DEF Budgets
  <2>2. requests \in Seconds
    BY <2>1, MinOfTwo
  <2>3. input \in Seconds
    BY <2>1, MinOfTwo
  <2>4. output \in Seconds
    BY <2>1, MinOfTwo
  <2>5. limit \in Seconds
    BY <2>1, MinOfTwo
  <2>6. seconds \in Seconds
    BY <2>1, MinOfTwo
  <2> QED BY <2>2, <2>3, <2>4, <2>5, <2>6
<1>4. CompositeLocalBudget({A, B}) =
        [w EXCEPT !.remaining_requests = requests,
                  !.remaining_input_tokens = input,
                  !.remaining_output_tokens = output,
                  !.limit_tokens = limit, !.remaining_seconds = seconds]
  BY <1>1 DEF CompositeLocalBudget
<1> HIDE DEF w, requests, input, output, limit, seconds
<1>5. w \in Budgets
  BY <1>2
<1>6. [w EXCEPT !.remaining_requests = requests,
                !.remaining_input_tokens = input,
                !.remaining_output_tokens = output] \in Budgets
  BY <1>3, <1>5 DEF Budgets
<1> DEFINE v == [w EXCEPT !.remaining_requests = requests,
                          !.remaining_input_tokens = input,
                          !.remaining_output_tokens = output]
<1>7. CompositeLocalBudget({A, B}) =
        [v EXCEPT !.limit_tokens = limit, !.remaining_seconds = seconds]
  BY <1>4, <1>5 DEF Budgets
<1> HIDE DEF v
<1>8. [v EXCEPT !.limit_tokens = limit, !.remaining_seconds = seconds] \in Budgets
  <2>1. v \in Budgets
    BY <1>6 DEF v
  <2> QED BY <1>3, <2>1 DEF Budgets
<1> QED BY <1>7, <1>8

\* A server that answers and is not processing has a reading.
LEMMA ContextRead ==
  ASSUME TypeOK, up, ~ slot.is_processing
  PROVE  LlamaCppContextBudget \in Budgets
<1>1. slot.n_prompt_tokens \in 0 .. n_ctx \cup {None} /\ n_ctx \in Nat
  BY LocalAssumption DEF TypeOK
<1>2. Known(_default_used_field(slot))
  BY <1>1, NoneAssumption DEF _default_used_field, Known
<1> DEFINE left == Greater(0, n_ctx - _default_used_field(slot)
                                 - safety_margin_tokens)
<1>3. LlamaCppContextBudget = [TokenBudget(left) EXCEPT !.limit_tokens = n_ctx]
  BY <1>2 DEF LlamaCppContextBudget
<1>4. _default_used_field(slot) \in Int
  BY <1>1, <1>2 DEF _default_used_field, Known
<1>5. left \in Int
  BY <1>4, LocalAssumption DEF Greater
<1> HIDE DEF left
<1> QED BY <1>1, <1>3, <1>5 DEF TokenBudget, Budgets, Seconds

\* A GPU whose driver answers has a reading, for any measured ratio.
LEMMA VRAMRead ==
  ASSUME TypeOK, driver, NEW bpt \in Measured
  PROVE  GPUMemoryBudget(bpt) \in Budgets
<1> DEFINE left == (free * bpt.cells) \div bpt.blob
           limit == (total_bytes * bpt.cells) \div bpt.blob
<1>1. Known(bpt)
  BY ReadingAssumption DEF Known
<1>2. /\ free \in Nat /\ total_bytes \in Nat
      /\ bpt.blob \in Nat \ {0} /\ bpt.cells \in Nat \ {0}
  <2>1. total_bytes \in Nat /\ FreeLevels \subseteq 0 .. total_bytes
    BY LocalAssumption
  <2>2. free \in FreeLevels
    BY DEF TypeOK
  <2>3. bpt.blob \in Nat \ {0} /\ bpt.cells \in Nat \ {0}
    BY DEF Measured
  <2> QED BY <2>1, <2>2, <2>3
<1>3. free * bpt.cells \in Nat /\ total_bytes * bpt.cells \in Nat
  BY <1>2
<1>4. left \in Int /\ limit \in Int
  BY <1>2, <1>3
<1>5. GPUMemoryBudget(bpt) = [TokenBudget(left) EXCEPT !.limit_tokens = limit]
  BY <1>1 DEF GPUMemoryBudget
<1> HIDE DEF left, limit
<1> QED BY <1>4, <1>5 DEF TokenBudget, Budgets, Seconds

\* What is watched and is there is read.
LEMMA ReadingThere ==
  ASSUME TypeOK, up, ~ slot.is_processing, Watched => driver
  PROVE  Known(Reading)
<1> DEFINE C == LlamaCppContextBudget
<1>1. C \in Budgets
  BY ContextRead
<1> HIDE DEF C
<1>2. ASSUME NEW bpt \in Measured, driver
      PROVE  CompositeLocalBudget({C, GPUMemoryBudget(bpt)}) \in Budgets
  <2>1. GPUMemoryBudget(bpt) \in Budgets
    BY <1>2, VRAMRead
  <2> QED BY <1>1, <2>1, CompositeKnown
<1>3. ASSUME NEW r \in Budgets, NEW since \in Int, NEW reserve \in Int
      PROVE  Known(KVAwareTimeBudget(r, since, reserve))
  <2>1. Known(r)
    BY ReadingAssumption DEF Known
  <2>2. time_budget_s - since - reserve \in Int
    BY LocalAssumption
  <2> DEFINE t == time_budget_s - since - reserve
  <2>3. KVAwareTimeBudget(r, since, reserve) = [r EXCEPT !.remaining_seconds = t]
    BY <2>1 DEF KVAwareTimeBudget
  <2> HIDE DEF t
  <2>4. [r EXCEPT !.remaining_seconds = t] \in Budgets
    BY <2>2 DEF Budgets, Seconds, t
  <2> QED BY <2>3, <2>4, ReadingAssumption DEF Known
<1>4. wiring # "by_hand" => FacadeReading \in Budgets
  <2> SUFFICES ASSUME wiring # "by_hand" PROVE FacadeReading \in Budgets
    OBVIOUS
  <2>1. CASE WatchesVRAM
    <3>1. driver /\ bytes_per_token \in Measured
      BY <2>1 DEF Watched, WatchesVRAM, Known, TypeOK
    <3>2. FacadeReading =
            CompositeLocalBudget({C, GPUMemoryBudget(bytes_per_token)})
      <4>1. {C} \cup {GPUMemoryBudget(bytes_per_token)}
              = {C, GPUMemoryBudget(bytes_per_token)}
        OBVIOUS
      <4> QED BY <2>1, <4>1 DEF FacadeReading, C
    <3> QED BY <1>2, <3>1, <3>2
  <2>2. CASE ~ WatchesVRAM
    <3>1. {C} \cup {} = {C, C}
      OBVIOUS
    <3>2. FacadeReading = CompositeLocalBudget({C, C})
      BY <2>2, <3>1 DEF FacadeReading, C
    <3> QED BY <1>1, <3>2, CompositeKnown
  <2> QED BY <2>1, <2>2
<1>5. wiring \in Wirings
  BY DEF TypeOK
<1>6. CASE wiring = "facade"
  BY <1>4, <1>6, ReadingAssumption DEF Reading, Known
<1>7. CASE wiring = "timed_facade"
  <2> DEFINE reserve == IF Known(measured_save_s) THEN measured_save_s
                                                 ELSE ProvisionalReserve
  <2>1. reserve \in Int
    <3>1. SaveTimes \subseteq Int /\ ProvisionalReserve \in Int
      BY LocalAssumption
    <3> QED BY <3>1 DEF TypeOK, Known
  <2>2. Reading = KVAwareTimeBudget(FacadeReading, 0, reserve)
    BY <1>7 DEF Reading, TimedFacadeReading
  <2> HIDE DEF reserve
  <2> QED BY <1>3, <1>4, <1>7, <2>1, <2>2
<1>8. CASE wiring = "by_hand"
  <2> DEFINE bpt == [blob |-> BytesPerToken, cells |-> 1]
             r == CompositeLocalBudget({C, GPUMemoryBudget(bpt)})
  <2>1. bpt \in Measured
    BY LocalAssumption DEF Measured
  <2>2. driver
    BY <1>8 DEF Watched
  <2>3. Reading = KVAwareTimeBudget(r, elapsed, reserve_s)
    BY <1>8 DEF Reading, ByHandReading, C
  <2> HIDE DEF bpt
  <2>4. r \in Budgets
    BY <1>2, <2>1, <2>2
  <2>5. elapsed \in Int /\ reserve_s \in Int
    BY LocalAssumption DEF TypeOK
  <2> HIDE DEF r
  <2> QED BY <1>3, <2>3, <2>4, <2>5
<1> QED BY <1>5, <1>6, <1>7, <1>8, LocalAssumption DEF TimedWirings

\* A reading fails only because the server does not answer or is processing
\* with nothing to show, or a GPU that is watched cannot be read: the facade
\* never asks its calibration for what it has not measured, for any server,
\* model, GPU and wiring.
THEOREM ReadingsFailWithTheWorld == Spec => FailsOnlyWithTheWorld
<1> DEFINE Excused == pc = "deciding" /\ pc' = "lost" =>
                        \/ ~up \/ slot.is_processing
                        \/ Watched /\ ~driver
<1>1. LocalInv /\ [Next]_vars => Excused
  <2> SUFFICES ASSUME LocalInv, [Next]_vars, pc = "deciding", pc' = "lost"
               PROVE  ~up \/ slot.is_processing \/ (Watched /\ ~driver)
    OBVIOUS
  <2>1. next_action
    <3>1. ~ Begin /\ ~ call /\ ~ CallRaises /\ ~ save_with_kv
      BY DEF Begin, call, CallRaises, save_with_kv
    <3>2. ~ World /\ ~ UNCHANGED vars
      BY DEF World, Crash, Restart, ForeignTask, Allocation, DriverChange,
             Others, vars
    <3> QED BY <3>1, <3>2 DEF Next
  <2>2. ~ Known(Reading)
    BY <2>1 DEF next_action
  <2>3. TypeOK
    BY DEF LocalInv
  <2> QED BY <2>2, <2>3, ReadingThere
<1> QED BY <1>1, Invariant, PTL DEF Spec, FailsOnlyWithTheWorld

-----------------------------------------------------------------------------
(* The router.                                                             *)

USE RouterAssumption

Rows == [route : Providers, score : Scores]

\* A provider that waits in the queue is not banned, and is in it once.
QueueFree ==
    /\ \A i \in DOMAIN queue :
          banned[queue[i].route] = 0 /\ queue[i].route # parking
    /\ \A i, j \in DOMAIN queue : i # j => queue[i].route # queue[j].route

\* A ban is covered by the cooldown, but for the provider about to be parked,
\* whose ban is what it has just asked for.
BansCovered ==
    /\ \A r \in Providers : r # parking => banned[r] <= cooldown[r]
    /\ parking # 0 =>
          banned[parking] <= (IF retry_after = None THEN 0 ELSE retry_after)

\* Where a call stands shows in its queue.
CallStands ==
    /\ at = "parking" <=> parking # 0
    /\ at = "calling" => queue # <<>>

\* During a call everybody has been asked, was passed over in the ranking, or
\* is still in the queue.
NobodyLost ==
    at \in {"calling", "parking"} =>
        \A r \in Providers :
            r \in asked \cup skipped \/ \E i \in DOMAIN queue : queue[i].route = r

\* The inductive invariant.
RouterInv ==
    /\ RouterTypeOK /\ queue \in Seq(Rows)
    /\ QueueFree /\ BansCovered /\ CallStands /\ NobodyLost

-----------------------------------------------------------------------------
\* What is in a queue is a provider with its score.
LEMMA RowsOfQueue ==
  ASSUME NEW q \in Seq(Rows), NEW i \in DOMAIN q
  PROVE  q[i] \in Rows
OBVIOUS

\* A ranking has every provider that can be seen, each in one place.
LEMMA RankingComplete ==
  ASSUME NEW ranking \in Rankings
  PROVE  /\ ranking \in Seq(Rows)
         /\ \A i \in DOMAIN ranking : Idle(ranking[i].route)
         /\ \A i, j \in DOMAIN ranking : i # j => ranking[i].route # ranking[j].route
         /\ \A r \in Providers : Idle(r) /\ r \notin blind =>
                \E i \in DOMAIN ranking : ranking[i].route = r
<1>1. PICK n \in 0 .. N : ranking \in [1 .. n -> [route : Visible, score : Scores]]
  BY DEF Rankings
<1>2. /\ \A r \in Visible : \E i \in DOMAIN ranking : ranking[i].route = r
      /\ \A i, j \in DOMAIN ranking : i < j =>
            ranking[i].route # ranking[j].route /\ Better(ranking[i], ranking[j])
  BY Zenon DEF Rankings
<1>3. DOMAIN ranking = 1 .. n /\ n \in Nat
  BY <1>1
<1>4. \A i, j \in 1 .. n : i # j => ranking[i].route # ranking[j].route
  BY <1>2, <1>3
<1>5. \A i \in 1 .. n : ranking[i].route \in Visible /\ ranking[i] \in Rows
  BY <1>1, <1>3 DEF Rows, Visible
<1>6. ranking \in Seq(Rows)
  BY <1>1, <1>3, <1>5
<1> QED BY <1>2, <1>3, <1>4, <1>5, <1>6 DEF Visible

\* The initial state.
LEMMA RouterStart ==
  ASSUME RouterInit
  PROVE  RouterInv
<1>1. RouterTypeOK
  BY DEF RouterAssumption, RouterInit, RouterTypeOK, Places
<1> QED BY <1>1 DEF RouterInit, RouterInv, QueueFree, BansCovered, CallStands,
                    NobodyLost

\* A call that ends leaves nothing behind it.
LEMMA EndsClean ==
  ASSUME RouterInv,
         NEW how \in {"answered", "rejected", "RateLimitHit", "retriable",
                      "TelemetryError", "BackendError", None},
         End(how),
         cooldown' = cooldown, banned' = banned,
         parking # 0 => retry_after = None,
         down' = down, blind' = blind,
         asked' \subseteq Providers, skipped' \subseteq Providers
  PROVE  RouterInv'
<1>1. /\ outcome' = how /\ at' = "idle" /\ queue' = <<>> /\ parking' = 0
      /\ retry_after' = None /\ last_exc' = None
  BY DEF End
<1>2. RouterTypeOK'
  BY <1>1 DEF RouterInv, RouterTypeOK, Places, RouterAssumption
<1>3. BansCovered'
  <2>1. ASSUME NEW r \in Providers
        PROVE  banned[r] <= cooldown[r]
    <3>1. cooldown[r] \in 0 .. MaxWait /\ banned[r] \in 0 .. MaxWait /\ r # 0
      BY DEF RouterInv, RouterTypeOK, Providers
    <3>2. MaxWait \in Nat
      BY DEF RouterAssumption
    <3> QED BY <3>1, <3>2 DEF RouterInv, BansCovered
  <2> QED BY <1>1, <2>1 DEF BansCovered
<1> QED BY <1>1, <1>2, <1>3 DEF RouterInv, QueueFree, CallStands, NobodyLost

\* Ranking the providers.
LEMMA RankKeeps ==
  ASSUME RouterInv, Rank
  PROVE  RouterInv'
<1>1. /\ at = "ranking" /\ parking = 0
      /\ skipped' = {r \in Providers : ~Idle(r) \/ r \in blind}
      /\ UNCHANGED <<cooldown, down, blind, asked, banned>>
  BY DEF Rank, RouterInv, CallStands
<1>2. ASSUME NEW how \in {"TelemetryError", "BackendError"}, End(how)
      PROVE  RouterInv'
  BY <1>1, <1>2, EndsClean DEF RouterInv, RouterTypeOK
<1>3. ASSUME NEW ranking \in Rankings, ranking # <<>>,
             queue' = ranking, at' = "calling",
             UNCHANGED <<parking, retry_after, last_exc, outcome, broken>>
      PROVE  RouterInv'
  <2>1. /\ queue' \in Seq(Rows)
        /\ \A i \in DOMAIN queue' : Idle(queue'[i].route)
        /\ \A i, j \in DOMAIN queue' : i # j => queue'[i].route # queue'[j].route
        /\ \A r \in Providers : Idle(r) /\ r \notin blind =>
                \E i \in DOMAIN queue' : queue'[i].route = r
    BY <1>3, RankingComplete
  <2>2. RouterTypeOK'
    <3>1. \A i \in DOMAIN queue' : queue'[i] \in Rows
      BY <2>1, RowsOfQueue
    <3> QED BY <1>1, <1>3, <3>1 DEF RouterInv, RouterTypeOK, Places, Rows
  <2>3. ASSUME NEW i \in DOMAIN queue'
        PROVE  banned'[queue'[i].route] = 0 /\ queue'[i].route # parking'
    <3>1. queue'[i].route \in Providers
      BY <2>1, RowsOfQueue DEF Rows
    <3>2. cooldown[queue'[i].route] = 0
      BY <2>1 DEF Idle
    <3> QED BY <1>1, <1>3, <3>1, <3>2
            DEF RouterInv, BansCovered, RouterTypeOK, Providers
  <2>4. QueueFree'
    BY <2>1, <2>3 DEF QueueFree
  <2>5. BansCovered' /\ CallStands'
    BY <1>1, <1>3 DEF RouterInv, BansCovered, CallStands
  <2>6. NobodyLost'
    BY <1>1, <1>3, <2>1 DEF NobodyLost
  <2> QED BY <2>1, <2>2, <2>4, <2>5, <2>6 DEF RouterInv
<1> QED BY <1>2, <1>3 DEF Rank

\* A provider that is called.
LEMMA RouteTyped ==
  ASSUME RouterInv, at = "calling"
  PROVE  /\ Route \in Providers
         /\ banned[Route] = 0
         /\ 1 \in DOMAIN queue /\ queue[1].route = Route
<1>1. queue \in Seq(Rows) /\ queue # <<>>
  BY DEF RouterInv, CallStands
<1>2. 1 \in DOMAIN queue /\ Head(queue) = queue[1] /\ queue[1] \in Rows
  BY <1>1
<1> QED BY <1>2 DEF Route, Rows, RouterInv, QueueFree

\* A failure.
LEMMA FailKeeps ==
  ASSUME RouterInv, Fail
  PROVE  RouterInv'
<1> DEFINE route == Route
<1>1. /\ at = "calling" /\ asked' = asked \cup {route}
      /\ parking' = route /\ queue' = Tail(queue) /\ at' = "parking"
      /\ UNCHANGED <<cooldown, outcome, down, blind, broken, skipped>>
  BY DEF Fail
<1>2. PICK exc \in {"RateLimitHit", "retriable"}, after \in RetryAfters :
         /\ last_exc' = exc /\ retry_after' = after
         /\ banned' = IF after = None THEN banned
                                      ELSE [banned EXCEPT ![route] = after]
  BY DEF Fail
<1>3. /\ route \in Providers /\ banned[route] = 0
      /\ 1 \in DOMAIN queue /\ queue[1].route = route
  BY <1>1, RouteTyped
<1>4. parking = 0 /\ banned \in [Providers -> 0 .. MaxWait]
  BY <1>1 DEF RouterInv, CallStands, RouterTypeOK
<1>5. /\ banned' \in [Providers -> 0 .. MaxWait]
      /\ \A r \in Providers : r # route => banned'[r] = banned[r]
      /\ banned'[route] <= (IF after = None THEN 0 ELSE after)
  <2>1. CASE after = None
    BY <1>2, <1>3, <1>4, <2>1
  <2>2. CASE after # None
    <3>1. after \in 0 .. MaxWait
      BY <2>2 DEF RouterAssumption
    <3> HIDE DEF route
    <3> QED BY <1>2, <1>3, <1>4, <2>2, <3>1
  <2> QED BY <2>1, <2>2
<1>6. /\ queue' \in Seq(Rows) /\ Len(queue) \in Nat \ {0}
      /\ DOMAIN queue' = 1 .. Len(queue) - 1
      /\ DOMAIN queue = 1 .. Len(queue)
      /\ \A i \in DOMAIN queue' : i + 1 \in DOMAIN queue /\ queue'[i] = queue[i + 1]
  BY <1>1, <1>3 DEF RouterInv
<1>7. RouterTypeOK'
  <2>1. \A i \in DOMAIN queue' : queue'[i] \in Rows
    BY <1>6
  <2> HIDE DEF route
  <2> QED BY <1>1, <1>2, <1>3, <1>5, <2>1
          DEF RouterInv, RouterTypeOK, Places, Rows, Providers
<1>8. QueueFree'
  <2>1. ASSUME NEW i \in DOMAIN queue'
        PROVE  banned'[queue'[i].route] = 0 /\ queue'[i].route # parking'
    <3>1. queue'[i].route # route /\ banned[queue'[i].route] = 0
      BY <1>3, <1>6 DEF RouterInv, QueueFree
    <3>2. queue'[i].route \in Providers
      BY <1>6, RowsOfQueue DEF Rows
    <3> QED BY <1>1, <1>5, <3>1, <3>2
  <2>2. ASSUME NEW i \in DOMAIN queue', NEW j \in DOMAIN queue', i # j
        PROVE  queue'[i].route # queue'[j].route
    BY <1>6, <2>2 DEF RouterInv, QueueFree
  <2> QED BY <2>1, <2>2 DEF QueueFree
<1>9. BansCovered'
  <2>1. \A r \in Providers : banned[r] <= cooldown[r]
    BY <1>4 DEF RouterInv, BansCovered, Providers
  <2> HIDE DEF route
  <2> QED BY <1>1, <1>2, <1>5, <2>1 DEF BansCovered
<1>10. CallStands'
  BY <1>1, <1>3 DEF CallStands, Providers
<1>11. NobodyLost'
  <2>1. ASSUME NEW r \in Providers, r \notin asked' \cup skipped'
        PROVE  \E i \in DOMAIN queue' : queue'[i].route = r
    <3>1. PICK i \in DOMAIN queue : queue[i].route = r
      BY <1>1, <2>1 DEF RouterInv, NobodyLost
    <3>2. i # 1
      BY <1>1, <1>3, <2>1, <3>1
    <3>3. i - 1 \in DOMAIN queue' /\ queue'[i - 1] = queue[i]
      BY <1>6, <3>2
    <3> QED BY <3>1, <3>3
  <2> QED BY <2>1 DEF NobodyLost
<1> QED BY <1>6, <1>7, <1>8, <1>9, <1>10, <1>11 DEF RouterInv

\* The wait of a parked provider covers what it asked for.
LEMMA WaitCovers ==
  ASSUME RouterInv, at = "parking",
         NEW reset \in Resets \cup {None}
  PROVE  /\ Wait(reset) \in 0 .. MaxWait
         /\ banned[parking] <= Wait(reset)
<1>1. /\ retry_after = None \/ retry_after \in 0 .. MaxWait
      /\ reset = None \/ reset \in 0 .. MaxWait
      /\ DefaultCooldown \in 1 .. MaxWait /\ MaxWait \in Nat
  BY DEF RouterInv, RouterTypeOK, RouterAssumption
<1>2. /\ parking \in Providers
      /\ banned[parking] \in 0 .. MaxWait
      /\ banned[parking] <= (IF retry_after = None THEN 0 ELSE retry_after)
  BY DEF RouterInv, CallStands, BansCovered, RouterTypeOK, Providers,
         RouterAssumption
<1> QED BY <1>1, <1>2 DEF Wait, FalsyOr

\* Parking a provider, and going on to the next.
LEMMA ParkKeeps ==
  ASSUME RouterInv, Park
  PROVE  RouterInv'
<1>1. at = "parking" /\ UNCHANGED <<down, blind, asked, skipped, banned>>
  BY DEF Park
<1>2. parking \in Providers /\ parking # 0
  BY <1>1 DEF RouterInv, CallStands, RouterTypeOK, Providers,
              RouterAssumption
<1>3. PICK reading \in (IF retry_after = None THEN Reads(parking)
                                              ELSE {"unread"}) :
         \/ /\ reading = "BackendError"
            /\ End("BackendError")
            /\ UNCHANGED cooldown
         \/ /\ reading # "BackendError"
            /\ \E reset \in (IF reading = "budget" THEN Resets ELSE {None}) :
                 cooldown' = [cooldown EXCEPT ![parking] = Wait(reset)]
            /\ Descend
  BY DEF Park
<1>4. CASE reading = "BackendError"
  <2>1. End("BackendError") /\ cooldown' = cooldown
    BY <1>3, <1>4
  <2>2. retry_after = None
    BY <1>3, <1>4
  <2> QED BY <1>1, <2>1, <2>2, EndsClean DEF RouterInv, RouterTypeOK
<1>5. CASE reading # "BackendError"
  <2>1. PICK reset \in Resets \cup {None} :
          cooldown' = [cooldown EXCEPT ![parking] = Wait(reset)]
    BY <1>3, <1>5
  <2>2. /\ Wait(reset) \in 0 .. MaxWait
        /\ banned[parking] <= Wait(reset)
    BY <1>1, WaitCovers
  <2>3. /\ cooldown' \in [Providers -> 0 .. MaxWait]
        /\ \A r \in Providers : banned'[r] <= cooldown'[r]
    <3> HIDE DEF Wait
    <3> QED BY <1>1, <1>2, <2>1, <2>2
            DEF RouterInv, RouterTypeOK, BansCovered
  <2>4. Descend
    BY <1>3, <1>5
  <2>5. CASE queue = <<>>
    <3>1. /\ outcome' = last_exc /\ at' = "idle" /\ queue' = <<>>
          /\ parking' = 0 /\ retry_after' = None /\ last_exc' = None
      BY <2>4, <2>5 DEF Descend, End
    <3>2. RouterTypeOK'
      BY <1>1, <2>3, <3>1 DEF RouterInv, RouterTypeOK, Places,
                              RouterAssumption
    <3> QED BY <1>1, <2>3, <3>1, <3>2
            DEF RouterInv, QueueFree, BansCovered, CallStands, NobodyLost
  <2>6. CASE queue # <<>>
    <3>1. /\ at' = "calling" /\ parking' = 0 /\ retry_after' = None
          /\ UNCHANGED <<queue, last_exc, outcome, broken>>
      BY <2>4, <2>6 DEF Descend
    <3>2. RouterTypeOK'
      BY <1>1, <2>3, <3>1 DEF RouterInv, RouterTypeOK, Places,
                              RouterAssumption
    <3>3. QueueFree'
      <4>1. \A i \in DOMAIN queue : queue[i].route # 0
        BY DEF RouterInv, RouterTypeOK, Providers
      <4> QED BY <1>1, <3>1, <4>1 DEF RouterInv, QueueFree
    <3> QED BY <1>1, <2>3, <2>6, <3>1, <3>2, <3>3
            DEF RouterInv, BansCovered, CallStands, NobodyLost
  <2> QED BY <2>5, <2>6
<1> QED BY <1>4, <1>5

\* Time passes for cooldowns and bans alike.
LEMMA RouterTickKeeps ==
  ASSUME RouterInv, Tick
  PROVE  RouterInv'
<1>1. /\ cooldown' = [r \in Providers |-> Sooner(cooldown[r])]
      /\ banned' = [r \in Providers |-> Sooner(banned[r])]
      /\ UNCHANGED <<queue, parking, retry_after, last_exc, at, outcome, down,
                     blind, broken, asked, skipped>>
  BY DEF Tick
<1>2. /\ cooldown \in [Providers -> 0 .. MaxWait]
      /\ banned \in [Providers -> 0 .. MaxWait]
      /\ MaxWait \in Nat
  BY DEF RouterInv, RouterTypeOK, RouterAssumption
<1>3. RouterTypeOK'
  <2>1. /\ cooldown' \in [Providers -> 0 .. MaxWait]
        /\ banned' \in [Providers -> 0 .. MaxWait]
    BY <1>1, <1>2 DEF Sooner
  <2> QED BY <1>1, <2>1 DEF RouterInv, RouterTypeOK
<1>4. QueueFree'
  <2>1. \A i \in DOMAIN queue : queue[i].route \in Providers
    BY DEF RouterInv, RouterTypeOK
  <2> QED BY <1>1, <1>2, <2>1 DEF RouterInv, QueueFree, Sooner
<1>5. BansCovered'
  <2>1. ASSUME NEW r \in Providers, r # parking
        PROVE  banned'[r] <= cooldown'[r]
    BY <1>1, <1>2, <2>1 DEF RouterInv, BansCovered, Sooner
  <2>2. ASSUME parking # 0
        PROVE  banned'[parking] <= (IF retry_after = None THEN 0 ELSE retry_after)
    <3>1. parking \in Providers
      BY <2>2 DEF RouterInv, RouterTypeOK, Providers,
                  RouterAssumption
    <3>2. retry_after = None \/ retry_after \in Nat
      BY DEF RouterInv, RouterTypeOK, RouterAssumption
    <3> QED BY <1>1, <1>2, <2>2, <3>1, <3>2 DEF RouterInv, BansCovered, Sooner
  <2> QED BY <1>1, <2>1, <2>2 DEF BansCovered
<1> QED BY <1>1, <1>3, <1>4, <1>5 DEF RouterInv, CallStands, NobodyLost

\* Every step keeps the invariant.
LEMMA RouterStep ==
  ASSUME RouterInv, [RouterNext]_routing
  PROVE  RouterInv'
<1>1. CASE budget
  BY <1>1 DEF budget, router, RouterInv, RouterTypeOK,
              Places, QueueFree, BansCovered, CallStands, NobodyLost
<1>2. ASSUME NEW malformed \in BOOLEAN, backend(malformed)
      PROVE  RouterInv'
  BY <1>2 DEF backend, router, RouterInv, RouterTypeOK,
              Places, QueueFree, BansCovered, CallStands, NobodyLost
<1>3. CASE Answer
  <2>1. parking = 0 /\ Route \in Providers
    BY <1>3, RouteTyped DEF Answer, RouterInv, CallStands
  <2> QED BY <1>3, <2>1, EndsClean DEF Answer, RouterInv, RouterTypeOK
<1>4. CASE Reject
  <2>1. parking = 0 /\ Route \in Providers
    BY <1>4, RouteTyped DEF Reject, RouterInv, CallStands
  <2> QED BY <1>4, <2>1, EndsClean DEF Reject, RouterInv, RouterTypeOK
<1>5. CASE Weather
  BY <1>5 DEF Weather, router, RouterInv, RouterTypeOK,
              QueueFree, BansCovered, CallStands, NobodyLost
<1>6. CASE UNCHANGED routing
  BY <1>6 DEF routing, router, RouterInv, RouterTypeOK,
              QueueFree, BansCovered, CallStands, NobodyLost
<1> QED BY <1>1, <1>2, <1>3, <1>4, <1>5, <1>6,
           RankKeeps, FailKeeps, ParkKeeps, RouterTickKeeps
        DEF RouterNext, Step

\* The invariant holds throughout.
LEMMA RouterInvariant == RouterSpec => []RouterInv
<1>1. RouterInit => RouterInv
  BY RouterStart
<1>2. RouterInv /\ [RouterNext]_routing => RouterInv'
  BY RouterStep
<1> QED BY <1>1, <1>2, PTL DEF RouterSpec

-----------------------------------------------------------------------------
\* Whatever fails in between, in this call or another, BudgetRouter does not
\* call a provider before the time its last 429 asked for is over.
THEOREM BansServed == RouterSpec => RetryAfterKept
<1>1. ASSUME RouterInv, [RouterNext]_routing, NEW r \in asked' \ asked
      PROVE  banned[r] = 0
  <2>1. at = "calling" /\ r = Route
    <3>1. CASE Rank
      BY <1>1, <3>1 DEF Rank
    <3>2. CASE Park
      BY <1>1, <3>2 DEF Park
    <3>3. CASE Answer \/ Reject \/ Fail
      BY <1>1, <3>3 DEF Answer, Reject, Fail
    <3>4. CASE budget \/ Weather \/ Tick
      BY <1>1, <3>4 DEF budget, Weather, Tick
    <3>5. ASSUME NEW malformed \in BOOLEAN, backend(malformed)
          PROVE  FALSE
      BY <1>1, <3>5 DEF backend
    <3>6. CASE UNCHANGED routing
      BY <1>1, <3>6 DEF routing
    <3> QED BY <1>1, <3>1, <3>2, <3>3, <3>4, <3>5, <3>6 DEF RouterNext, Step
  <2> QED BY <1>1, <2>1, RouteTyped
<1>2. RouterInv /\ [RouterNext]_routing
        => [\A r \in asked' \ asked : banned[r] = 0]_routing
  BY <1>1
<1>3. RouterSpec => []RouterInv
  BY RouterInvariant
<1> QED BY <1>2, <1>3, PTL DEF RouterSpec, RetryAfterKept

\* Where a ping does not raise BackendError, a sound call is given up only
\* after every provider was asked, but for those in cooldown or without
\* telemetry when BudgetRouter ranked them.
THEOREM NoProviderLost ==
  ASSUME ~PingsFail
  PROVE  RouterSpec => EveryProviderTried
<1>1. ASSUME RouterInv, [RouterNext]_routing, Asking, at' = "idle",
             outcome' # "answered", ~broken, NEW r \in Providers
      PROVE  r \in asked' \cup skipped'
  <2>1. ~PingRaises
    BY DEF PingRaises, Reads
  <2>2. CASE Rank
    <3>1. PICK ranking \in Rankings : ranking = <<>>
      BY <1>1, <2>1, <2>2 DEF Rank
    <3>2. ~Idle(r) \/ r \in blind
      BY <3>1, RankingComplete
    <3> QED BY <2>2, <3>2 DEF Rank
  <2>3. CASE Park
    <3>1. at = "parking" /\ UNCHANGED <<asked, skipped>>
      BY <2>3 DEF Park
    <3>2. Descend
      BY <2>3 DEF Park, Reads
    <3>3. queue = <<>>
      BY <1>1, <3>2 DEF Descend
    <3> QED BY <1>1, <3>1, <3>3 DEF RouterInv, NobodyLost
  <2>4. ~(Answer \/ Reject \/ Fail)
    BY <1>1 DEF Answer, Reject, Fail, End
  <2>5. ~(budget \/ Tick \/ Weather \/ UNCHANGED routing)
    BY <1>1 DEF budget, Tick, Weather, routing, Asking
  <2>6. \A malformed \in BOOLEAN : ~backend(malformed)
    BY <1>1 DEF backend
  <2> QED BY <1>1, <2>2, <2>3, <2>4, <2>5, <2>6 DEF RouterNext, Step
<1> DEFINE Tried == Asking /\ at' = "idle" /\ outcome' # "answered" /\ ~broken
                      => \A r \in Providers : r \in asked' \cup skipped'
<1>2. RouterInv /\ [RouterNext]_routing => [Tried]_routing
  BY <1>1
<1>3. RouterSpec => []RouterInv
  BY RouterInvariant
<1> QED BY <1>2, <1>3, PTL DEF RouterSpec, EveryProviderTried

=============================================================================
