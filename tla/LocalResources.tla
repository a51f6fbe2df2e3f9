--------------------------- MODULE LocalResources ---------------------------
(***************************************************************************)
(* The local-resource telemetry of src/src/agentpause/adapters/            *)
(* local_resources.py: an agent on one llama.cpp server reads its context  *)
(* window, the free VRAM and the time left as one Budget, and what the     *)
(* facade LocalResourceBudget learns from the KV saves it wraps.           *)
(*                                                                         *)
(* A run is built, decides before every call, and ends with a KV save.     *)
(* `wiring' says what it was given for telemetry: the facade (with or      *)
(* without a time budget), or the pieces wired by hand, as the docs of     *)
(* KVAwareTimeBudget recommend.  How a blob is saved is in KVStore.  The   *)
(* bytes per token are kept as the blob and the cells they are divided     *)
(* from, so that the code's int(bytes / ratio) is exact.                   *)
(***************************************************************************)
EXTENDS Risk, FiniteSetsExt

CONSTANTS
    Wirings,                \* subset of {"facade", "timed_facade", "by_hand"}
    n_ctx,                  \* the server's context size
    safety_margin_tokens,
    MaxNew,                 \* the most a step adds to the history
    Sizes,                  \* of a history that was compressed, or is foreign
    BytesPerToken,          \* of the model served
    Header,                 \* what a blob holds beside its cells
    total_bytes, FreeLevels,            \* of the GPU
    time_budget_s,
    estimated_kv_save_s,                \* what the reserve is computed
    save_throughput_bytes_per_s,        \* from, None for what was
    expected_blob_bytes,                \* not given
    ProvisionalReserve,
    MaxLatency,             \* what a call takes at most, and is predicted
    min_samples,            \* steps before the estimator predicts it
    SaveTimes               \* what a KV save may take

VARIABLES
    up,                     \* does the server answer?
    slot,                   \* the server's slot, as GET /slots shows it
    free,                   \* VRAM nobody has taken
    driver,                 \* can the GPU be read?
    gpu_available,          \* could it when the facade was built?
    bytes_per_token,        \* [blob, cells] measured, or None
    measured_save_s,
    min_free_bytes,         \* the disk guard of the wrapped store
    wiring,
    pc,
    elapsed,                \* since the run began
    history,                \* tokens of the conversation
    samples,                \* steps the estimator has learned from
    seen                    \* the VRAM the last reading found, for properties

world == <<up, slot, free, driver>>
calibration == <<bytes_per_token, measured_save_s, min_free_bytes>>
vars == <<world, gpu_available, calibration, wiring, pc, elapsed, history,
          samples, seen>>

TimedWirings == {"timed_facade", "by_hand"}

\* KVAwareTimeBudget.__init__: an explicit estimate, or blob over throughput.
reserve_s ==
    CASE Known(estimated_kv_save_s) -> estimated_kv_save_s
      [] /\ ~Known(estimated_kv_save_s)
         /\ Known(save_throughput_bytes_per_s) /\ Known(expected_blob_bytes) ->
            CeilDiv(expected_blob_bytes, save_throughput_bytes_per_s)
      [] OTHER -> 0

\* A reserve that is to be of use covers the save, and a run has time for
\* the steps that come before the estimator knows how long a step takes.
ASSUME LocalAssumption ==
    /\ Wirings \subseteq {"facade"} \cup TimedWirings
    /\ n_ctx \in Nat /\ MaxNew \in Nat \ {0} /\ MaxNew <= n_ctx
    /\ safety_margin_tokens \in Nat
    /\ Sizes \subseteq 0 .. n_ctx
    /\ BytesPerToken \in Nat \ {0} /\ Header \in Nat
    /\ total_bytes \in Nat /\ FreeLevels \subseteq 0 .. total_bytes
    /\ MaxLatency \in Nat \ {0} /\ min_samples \in Nat
    /\ reserve_s \in Nat /\ ProvisionalReserve \in Nat
    /\ SaveTimes \subseteq 0 .. reserve_s
    /\ time_budget_s \in Nat
    /\ time_budget_s >= min_samples * MaxLatency + reserve_s

-----------------------------------------------------------------------------
(* Readings.  A reading is a Budget, or None where TelemetryError is       *)
(* raised.                                                                 *)

Seconds == Int \cup {None}

Budgets ==
    [remaining_tokens : Int, remaining_requests : Seconds,
     reset_seconds : Seconds, reset_requests_seconds : Seconds,
     remaining_input_tokens : Seconds, remaining_output_tokens : Seconds,
     limit_tokens : Seconds, refill_regime : {None},
     remaining_seconds : Seconds]

\* Bytes per token, as measured.
Measured == [blob : Nat \ {0}, cells : Nat \ {0}]

\* An error is not a reading, nor is a ratio that was not measured a ratio.
ASSUME ReadingAssumption == None \notin Budgets /\ None \notin Measured

\* n_prompt_tokens stands for the fields that may give the number.
Slot(tokens, processing) ==
    [n_prompt_tokens |-> tokens, is_processing |-> processing]

\* An idle slot that has run no task holds nothing; any other slot without
\* the number is an error.
_default_used_field(sl) ==
    CASE Known(sl.n_prompt_tokens)                        -> sl.n_prompt_tokens
      [] ~Known(sl.n_prompt_tokens) /\ ~sl.is_processing -> 0
      [] ~Known(sl.n_prompt_tokens) /\ sl.is_processing  -> None

LlamaCppContextBudget ==
    LET used == _default_used_field(slot)
    IN  IF up /\ Known(used)
          THEN [TokenBudget(Greater(0, n_ctx - used - safety_margin_tokens))
                  EXCEPT !.limit_tokens = n_ctx]
          ELSE None

GPUMemoryBudget(bpt) ==
    IF driver /\ Known(bpt)
      THEN [TokenBudget((free * bpt.cells) \div bpt.blob)
              EXCEPT !.limit_tokens = (total_bytes * bpt.cells) \div bpt.blob]
      ELSE None

MinAcross(budgets, field) ==
    LET values == {b[field] : b \in budgets} \ {None}
    IN  IF values = {} THEN None ELSE Min(values)

\* Mutated form: a source that raises is left out.
CompositeLocalBudget_Swallows(readings) ==
    LET budgets == readings \ {None}
        winner  == CHOOSE b \in budgets : \A c \in budgets :
                      b.remaining_tokens <= c.remaining_tokens
    IN  IF budgets = {} THEN None ELSE winner

\* The tightest source wins, and every other dimension is as tight as the
\* tightest; a source that raises makes the whole raise.
CompositeLocalBudget(readings) ==
    LET winner == CHOOSE b \in readings : \A c \in readings :
                     b.remaining_tokens <= c.remaining_tokens
    IN  IF None \in readings
          THEN None
          ELSE [winner EXCEPT
                  !.remaining_requests      = MinAcross(readings, "remaining_requests"),
                  !.remaining_input_tokens  = MinAcross(readings, "remaining_input_tokens"),
                  !.remaining_output_tokens = MinAcross(readings, "remaining_output_tokens"),
                  !.limit_tokens            = MinAcross(readings, "limit_tokens"),
                  !.remaining_seconds       = MinAcross(readings, "remaining_seconds")]

\* It may be negative, and it replaces what the reading had.
KVAwareTimeBudget(reading, since, reserve) ==
    IF Known(reading)
      THEN [reading EXCEPT !.remaining_seconds = time_budget_s - since - reserve]
      ELSE None

\* Mutated form: a GPU is read before there is a ratio to read it with.
WatchesVRAM_Uncalibrated == gpu_available

\* The facade reads the GPU once it has a ratio, if it found one at first.
WatchesVRAM == gpu_available /\ Known(bytes_per_token)

FacadeReading ==
    CompositeLocalBudget(
        {LlamaCppContextBudget}
          \cup (IF WatchesVRAM THEN {GPUMemoryBudget(bytes_per_token)} ELSE {}))

\* LocalResourceBudget.__call__ makes a KVAwareTimeBudget every time it is
\* called, whose clock starts there.
TimedFacadeReading ==
    KVAwareTimeBudget(FacadeReading, 0,
        IF Known(measured_save_s) THEN measured_save_s ELSE ProvisionalReserve)

\* Mutated form: the clock of the deadline starts when it is read.
ByHandReading_Fresh ==
    KVAwareTimeBudget(
        CompositeLocalBudget(
            {LlamaCppContextBudget,
             GPUMemoryBudget([blob |-> BytesPerToken, cells |-> 1])}),
        0, reserve_s)

\* The pieces, the KVAwareTimeBudget made with the run.
ByHandReading ==
    KVAwareTimeBudget(
        CompositeLocalBudget(
            {LlamaCppContextBudget,
             GPUMemoryBudget([blob |-> BytesPerToken, cells |-> 1])}),
        elapsed, reserve_s)

Reading ==
    CASE wiring = "facade"       -> FacadeReading
      [] wiring = "timed_facade" -> TimedFacadeReading
      [] wiring = "by_hand"      -> ByHandReading

-----------------------------------------------------------------------------
(* The agent.                                                              *)

\* Past the deadline is past the deadline.
Later(d) == Lesser(elapsed + d, time_budget_s + 1)

\* A run begins, with the facade of the last one or a new one, which reads
\* the server and is not built when that fails.  The history is as it was, or
\* compressed.
Begin ==
    /\ pc \in {"out", "lost"}
    /\ \/ UNCHANGED <<gpu_available, calibration>>
       \/ /\ up
          /\ gpu_available' = driver
          /\ bytes_per_token' = None /\ measured_save_s' = None
          /\ min_free_bytes' = None
    /\ \E h \in {history} \cup Sizes : h <= history /\ history' = h
    /\ elapsed' = 0
    /\ pc' = "deciding"
    /\ UNCHANGED <<world, wiring, samples, seen>>

estimate_latency == IF samples < min_samples THEN None ELSE MaxLatency

\* Session.next_action with this telemetry.
next_action ==
    /\ pc = "deciding"
    /\ LET step == [TokenStep(history + MaxNew)
                      EXCEPT !.latency = estimate_latency]
       IN  pc' = IF ~Known(Reading)
                   THEN "lost"
                   ELSE IF decide(Reading, step, 15, 0).action = "continue"
                          THEN "go" ELSE "stop"
    /\ seen' = free
    /\ UNCHANGED <<world, gpu_available, calibration, wiring, elapsed, history,
                   samples>>

\* The call is answered, and its whole conversation is now in the slot.
call ==
    /\ pc = "go" /\ up
    /\ \E d \in 1 .. MaxLatency, n \in 1 .. MaxNew :
         /\ elapsed' = Later(d)
         /\ history' = history + n
         /\ slot' = Slot(history', FALSE)
    /\ samples' = Lesser(samples + 1, min_samples)
    /\ pc' = "deciding"
    /\ UNCHANGED <<up, free, driver, gpu_available, calibration, wiring, seen>>

\* The server does not answer, and the call raises.
CallRaises ==
    /\ pc = "go" /\ ~up
    /\ pc' = "lost"
    /\ UNCHANGED <<world, gpu_available, calibration, wiring, elapsed, history,
                   samples, seen>>

\* Cells the server writes, and the blob they make.
n_saved == IF Known(slot.n_prompt_tokens) THEN slot.n_prompt_tokens ELSE 0

blob_bytes == n_saved * BytesPerToken + Header

\* The wrapped save_with_kv, after the save.  The floor of the disk guard is
\* left out, as no smaller blob is of interest.
Calibrated(d) ==
    /\ measured_save_s' = d
    /\ bytes_per_token' = IF n_saved > 0
                            THEN [blob |-> blob_bytes, cells |-> n_saved]
                            ELSE bytes_per_token
    /\ min_free_bytes' = 5 * blob_bytes

\* The run ends with a save; one that raises teaches nothing.
save_with_kv ==
    /\ pc = "stop"
    /\ \E d \in SaveTimes :
         /\ elapsed' = Later(d)
         /\ \/ up /\ ~slot.is_processing /\ Calibrated(d)
            \/ UNCHANGED calibration
    /\ pc' = "out"
    /\ UNCHANGED <<world, gpu_available, wiring, history, samples, seen>>

-----------------------------------------------------------------------------
(* The world: a server that restarts, other users of the slot and of the   *)
(* GPU, and a driver that may fail.                                        *)

Others == <<gpu_available, calibration, wiring, pc, elapsed, history, samples,
            seen>>

Crash == up /\ up' = FALSE /\ UNCHANGED <<slot, free, driver, Others>>

Restart ==
    /\ ~up /\ up' = TRUE /\ slot' = Slot(None, FALSE)
    /\ UNCHANGED <<free, driver, Others>>

ForeignTask ==
    /\ up
    /\ \/ slot = Slot(None, FALSE) /\ slot' = Slot(None, TRUE)
       \/ slot # Slot(None, FALSE) /\ \E n \in Sizes : slot' = Slot(n, FALSE)
    /\ UNCHANGED <<up, free, driver, Others>>

Allocation ==
    /\ free' \in FreeLevels \ {free}
    /\ UNCHANGED <<up, slot, driver, Others>>

DriverChange == driver' = ~driver /\ UNCHANGED <<up, slot, free, Others>>

Init ==
    /\ up = TRUE /\ slot = Slot(None, FALSE) /\ free \in FreeLevels /\ driver \in BOOLEAN
    /\ gpu_available = driver
    /\ bytes_per_token = None /\ measured_save_s = None
    /\ min_free_bytes = None
    /\ wiring \in Wirings
    /\ pc = "out" /\ elapsed = 0 /\ history = 0 /\ samples = 0
    /\ seen = free

World == Crash \/ Restart \/ ForeignTask \/ Allocation \/ DriverChange

Next == Begin \/ next_action \/ call \/ CallRaises \/ save_with_kv \/ World

Spec == Init /\ [][Next]_vars

-----------------------------------------------------------------------------
(* Properties.                                                             *)

TypeOK ==
    /\ up \in BOOLEAN /\ driver \in BOOLEAN /\ gpu_available \in BOOLEAN
    /\ slot \in [n_prompt_tokens : 0 .. n_ctx \cup {None}, is_processing : BOOLEAN]
    /\ free \in FreeLevels /\ seen \in FreeLevels
    /\ bytes_per_token \in Measured \cup {None}
    /\ measured_save_s \in SaveTimes \cup {None}
    /\ min_free_bytes \in Nat \cup {None}
    /\ wiring \in Wirings
    /\ pc \in {"out", "deciding", "go", "stop", "lost"}
    /\ elapsed \in 0 .. time_budget_s + 1
    /\ history \in 0 .. n_ctx
    /\ samples \in 0 .. min_samples

\* Is the VRAM part of what this run's telemetry reads?
Watched == wiring = "by_hand" \/ WatchesVRAM

\* The agent is stopped by whichever resource runs out first: a step is gone
\* into only when the whole conversation with it fits the context and, where
\* the VRAM is watched, the memory that was free at the reading.
FitsEveryCeiling ==
    pc = "go" =>
        /\ history + MaxNew <= n_ctx - safety_margin_tokens
        /\ Watched => (history + MaxNew) * BytesPerToken <= seen

\* A run with a time budget has called its last and saved its cache by then.
RunEndsInTime == wiring \in TimedWirings => elapsed <= time_budget_s

\* A reading fails only because a signal it watches is not there: the facade
\* never asks for more than its calibration can answer.
FailsOnlyWithTheWorld ==
    [][pc = "deciding" /\ pc' = "lost" =>
          \/ ~up \/ slot.is_processing
          \/ Watched /\ ~driver]_vars

==============================================================================
