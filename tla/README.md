# A verification project for agentpause

agentpause decides *before* each model call whether a long-running agent should
continue, wait or checkpoint, and keeps the agent's progress through crashes,
rate limits and fallbacks. The modules here model that code, TLC checks them on
small instances, and TLAPS proves theorems about them for every value of their
constants. Paths below are relative to the root of the repository, and
`src/agentpause/` is abbreviated to `ap/`.

Reading order: [parts of the system](#1-the-system),
[modules](#2-modules-and-how-they-follow-the-code), [runs](#3-runs), [statements the code
does not keep](#4-statements-the-code-does-not-keep), [proofs](#5-proofs), [what is left
out](#6-not-modelled), [plan](#7-plan).

To repeat everything, inside this directory:

    tlc -workers 2 -config guard.cfg MCGuard       # one line per run of section 3
    tlapm Coordinator_proofs.tla      # and the other modules of section 5


## 1. The system

A caller's loop (`Session`) asks the scheduler what to do; the scheduler
compares the estimated cost of the next step, inflated by a safety margin
`k*sigma`, with a telemetry reading (`Budget`). Telemetry comes from a provider
adapter, a router over several of them, the human's attention, or the machine.
The call goes through a backend: an adapter, a breaker, a chain, a router, or a
fleet of agents sharing one window through the coordinator. Suspension writes a
checkpoint through a store.

| Component | State | Operations | Interacts with | What is hard | What makes it correct |
|---|---|---|---|---|---|
| Risk rule, `ap/risk.py` | none | `decide`, `should_checkpoint`, `should_wait_for_refill` | everything that decides | zero clocks, missing limits, two dimensions at once | the advised wait covers the need |
| Coordinator, `ap/coordinator.py` | priorities, registration order, holds, waiting-since | `register`, `request`, `complete`, `arbitrate` | the adapter's cached reading, the provider | readings are older than grants; the provider charges and refills at any moment | grants never promise more than the window holds; priorities are honoured |
| LangGraph guard, `ap/adapters/langgraph.py` | loop passes; the graph's resume values | `check`, `acheck` | the telemetry cache, the graph runtime | the node is re-executed from its start on every resume | an admitted call is accepted; waiting converges |
| OpenAI-compatible adapter, `ap/adapters/openai_compat.py` | last reading, its age | `budget`, `backend`, header absorption | the provider | stale readings, 429 pings, silent providers | a cached reading is never richer than the window |
| State store, `ap/state.py` | manifests and temporary files | `save`, `load`, `clear`, `fork`, `export_bundle`, `import_bundle` | the file system, other processes | a crash between any two system calls, two writers | manifests are whole, progress is kept, nothing is overwritten unasked |
| Checkpoint, `ap/state.py` | history, step, keys | `fork`, `new_idempotency_key`, `compact`, `summarize_with` | sessions | keys across branches, short histories | branches do not share keys; head and recent messages stay |
| Scheduler and sessions, `ap/scheduler.py` | step, history, safety factor, money, clocks | the loop of the module's docstring | telemetry, the store, the backend | failed retries, overlapping calls, process exits | history and step counter agree; calls end; caps hold |
| Retry policy, `ap/retry.py` | none | `delay` | `Session.call` | jitter after the cap | retries end |
| Circuit breaker, `ap/breaker.py` | failures, opening time | `state`, `__call__` | the chain | a probe may fail, or the request may be malformed | opens on consecutive infrastructure failures only |
| Fallback chain, `ap/fallback.py` | none kept | `__call__` | breakers, backends | errors of different kinds | every backend is tried before a call is given up |
| Budget router, `ap/router.py` | cooldowns | `budget`, `backend` | several adapters | a provider may fail while it is ranked | a 429's Retry-After is honoured; every provider is tried |
| Fleet, `ap/fleet.py` | per-agent estimators | `call` | coordinator, router | a backend that raises past `complete()` | as coordinator and router |
| Attention, `ap/attention.py` | ask times, an absence and its end | `record_ask`, `away`, `available`, `as_budget` | agents, `decide` | lazy expiry, entries exactly as old as the window | the window is kept; waits are exact; nobody waits for ever |
| Tool quota, `ap/tools.py` | call times | `acquire`, `guard` | one tool | the same | the same |
| llama.cpp KV store, `ap/llamacpp_kv.py` | blobs beside manifests, restored-but-kept blobs | `save_with_kv`, `load_with_kv`, `fork_with_kv`, `gc_*` | the store, a llama.cpp server | two files for one checkpoint; a server restarted with another model | no checkpoint without its blob, no branch with another's |
| Refill detector, `ap/refill.py` | the last votes | `feed`, `regime` | the adapter's pings | samples across calls, waits and resets | a wrong verdict does not last |
| Forecast, `ap/forecast.py` | none | `forecast_run`, `Session.forecast` | the adapter's reading, the same refill rule as `decide` | a simulation on one reading against a run on many | no more stalls than forecast; no forecast for a run that cannot end |
| Estimators, `ap/estimator.py`, `ap/regression.py` | errors, samples, the fit, ambient features | `record`, `estimate`, `upper_estimate`, `to_dict`, `load` | all sessions of a scheduler, their checkpoints | histories loaded over one another; phases | one history at a time; a settled phase is estimated by itself |
| Local resources, `ap/adapters/local_resources.py` | calibration, clocks | four readings, their composition, the facade and the saves it wraps | a llama.cpp server, a GPU, the KV store | sources that fail or run out independently; what is known only after a save | stopped by whichever runs out first; the run ends in its time |
| LiteLLM and Anthropic adapters | a cached reading | `budget`, `backend` | providers | as the OpenAI-compatible one | see section 6 |

The hazards this leaves, each with the line at which it bites and the properties
that would catch it, are the `hazards` of `PROJECT.json`.


## 2. Modules and how they follow the code

`PROJECT.json` maps every definition to the lines it stands for. Variables keep
the names of the attributes (`reservations`, `_failures` as `failures`, ...),
actions those of the methods. A definition named `X_Something`, preceded by
*Mutated form*, is a plausible bug in `X`: put in X's place it breaks a property
of the run, which shows that the property depends on that piece of code.

### Risk (`ap/risk.py`)
The three-valued decision as operators, extended by every module that decides.
Absent values are `None`; `FalsyOr` is Python's `or`, which takes a zero for
nothing. Tokens are whole numbers, time is counted in ticks, of which `HalfSecond` make
half a second. Waits are rounded up to a tick where the code's real-valued division is
not: in Guard by less than the time of one token, in Planner by less than a grain's.

### Guard, MCGuard (`ap/adapters/langgraph.py`, `ap/adapters/openai_compat.py`)
One agent, one provider. `Pass` is one turn of the loop up to its decision: the reading
(`budget`: fresh from the cache with `age_adjusted`, or a `ping` that is answered, refused
with 429, or fails with 5xx) and what follows from it. `Sleep`, `Interrupt`,
`InterruptReturns`, `Resume` and `PassesExhausted` are the rest of `check()`; LangGraph's
replay of earlier `interrupt()` values on a resume is `answers`/`resumes`.
`Call`/`CallRejected` are the gated call, made as `Wirings` says: through the adapter's
`backend`, which puts the response's headers into the cache, or by a client of its own, as
the guard's docs wire it (`llm.invoke`, `ap/adapters/langgraph.py:16`, `README.md:279`). A
call past the adapter spends from the window and leaves the cached reading as it was, for
up to `MaxAge`. `unseen` is no variable of the code: it adds up what such calls have spent
since the last reading, for the properties to take off. The provider is external: a token
bucket and a request window with a clock of its own. A tick is the time one token takes to
come back, so `HalfSecond` (the half second added to a sleep; one and five seconds are
multiples of it) sets the refill rate.

### Coordinator, MCCoordinator, TokenTotals (`ap/coordinator.py`, `ap/fleet.py`)
The four dictionaries are variables. `request` and each turn of `arbitrate`'s loop
(`arbitrate_next`) are one action, because the provider's `Serve`, `Fail` and `Refill`
really do come between them; the coordinator's own methods do not interleave with each
other (`Idle`). `results` keeps of every decision what it was made on, the agent's own old
hold (`own`) included, which a grant replaces. `Telemetry` is the adapter: the cached
reading, or a ping. `Serve` charges the window and puts a header on its way, `Deliver` is
its absorption into the cache, and `ahead` remembers which responses were processed
earlier, so that `InOrder` can say that they are absorbed in that order. `Deliver` of a
refused call leaves the hold in place: `AgentFleet.call` does not catch what the backend
raises. `TokenTotals` adds up holds, as the number of tokens held, which the prover's
library of finite sets can reason about.

### SharedWindow
What the coordinator promises, abstractly: a window with `free` tokens, `claims`
on it, and a claim that is only made when all claims fit. The mapping is
`free <- window.tokens`, `claims <- ` the holds of granted calls
(`Coordinator`'s `ImplementsSharedWindow`).

### StateStore, MCStateStore (`ap/state.py`)
A call is a sequence of system calls with a program counter (`task.at`): exists,
open, two writes, close, rename, unlink. A manifest is two chunks; each holds the
checkpoint it belongs to, so that a torn file is visible. What is in a temporary file
nobody writes any more is left out (`Abandon`): `open` truncates it before use. `fd`
follows an open file through renames. Any process may crash between any two system
calls, and any write may fail. Idempotency keys are pairs (minting session, step), as in the code.

### Compaction (`ap/state.py`)
`compact` and `summarize_with` as operators on histories, negative slice bounds
included.

### Session (`ap/scheduler.py`, `ap/retry.py`)
One program counter per session through the loop: `session`, `add_system`,
`add_user`, `next_action`, then `call` with `Reply`/`RateLimited`/`Failed`/`Slept`,
or `checkpoint`, and at the end `complete`. `Exit` is the end of the process at
any point. `Parallel` says whether sessions overlap (as `acall()` on one event
loop does). The store is atomic here; `StateStore` opens it. The estimator's
correction is any of `Corrections` at every decision: what it comes from is in
Learning. A summary takes the place of the messages it was made of, so a history is
consistent with its counter when what it lost was summarized.

### Estimator, Learning (`ap/estimator.py`, `ap/regression.py`, `ap/scheduler.py`)
Estimator is what an estimator remembers (`errors`, the deque; `all`, the history;
`samples` and the samples last `fitted`) and its operations on it, the phase shift
included; means and deviations are compared by sums, multiplied out. Learning has the
sessions of one scheduler around one estimator: `Enter` loads what came with the
checkpoint, `Call` and `_record_success` or `Raise` are a step, `checkpoint` takes
`to_dict()` along, `Suspend` lets a session go after its checkpoint, `Restart` is the
death of the process, after which the steps since the checkpoint are done again.
A sample remembers whose step it was and which: the code's do not, the properties need it.

### Refill, Forecast, Planner (`ap/refill.py`, `ap/forecast.py`, `ap/adapters/openai_compat.py`)
Refill is the detector on its deque of votes, Forecast the simulation as a fold over the
steps. Planner composes them with the adapter and `decide`: a run asks for a forecast at
some point, and is then decided step by step, with pings that cost tokens and are paired
into samples (`ping`, `PingRefused`, `_prev_ping`), calls that start a new pair, waits,
and suspensions that end in a process with an adapter of its own (`ResumeRun`). `Wait` is
the loop of `scripts/validate_provider.py`: it sleeps the advised time, fifteen seconds of
it at most, and half a second more, and calls `invalidate()`; so do the loops of the other
scripts, with defaults of their own. The provider is a continuous bucket or a fixed
window. It counts in grains, `Grain` to a token, while its headers, like the
`int()` of the forecast, have whole tokens (`Whole`). `honest` and `whole` are no
variables of the code and for the property on the verdict: they say which votes come from
gaps in which the bucket neither filled up nor was reset.

### LocalResources (`ap/adapters/local_resources.py`)
The readings are operators, with `None` for a `TelemetryError`: context from the
server's slot, VRAM over the measured bytes per token (kept as blob and cells, so that
the quotient is exact), the minimum of both, and the deadline less the reserve for the
save. `wiring` says what the scheduler was given: the facade `LocalResourceBudget`
without or with a time budget, or the pieces with a `KVAwareTimeBudget` built with the
run. `Begin` builds a facade or keeps the last one; `save_with_kv` ends a run and
calibrates. `Crash`, `Restart`, `ForeignTask`, `Allocation`, `DriverChange` are the
world, at any moment.

### Chain (`ap/fallback.py`, `ap/breaker.py`)
`FallbackBackend` over backends of which `Guarded` are behind a breaker. Clocks
are kept as ages (`opened`), so that there is no bound on time.

### Router (`ap/router.py`)
`Rank` sorts the providers by a score that may be any (what a score is computed
from is of no consequence to the properties), `Answer`/`Reject`/`Fail` call the
head of the queue, `Park` and `Descend` are the error path. `budget()` is an
action of its own, because callers decide on one ranking and call on another.

### Attention (`ap/attention.py`, `ap/tools.py`)
Both sliding windows as queues of ages, of which `Pruned` keeps those young enough, as
the code's expiry does when it is next asked. `asked` and `called` are no variables of
the code: they count what happened at each age, so that the properties do not
read the queue they are about; `Frees` says by these counts whether a wait suffices.
Its specification is `AttentionSpec`, Router's and Planner's are `RouterSpec` and
`PlannerSpec`: each shares a module of proofs with another component.

### KVStore, MCKVStore (`ap/llamacpp_kv.py`)
Save, load, fork and sweep request by request: slot save, fingerprint, commit,
deletion. The wrapped store is atomic. `server` and `slot` are the llama.cpp
server (external): which model it has loaded and whose cache the slot holds.
A blob's name may be made again once nothing mentions it (`New`): to the code such a
name is as good as the new one `uuid4` makes. `stepped` is the caller's knowledge that
a step has succeeded since the resumption, on which the doc has it call `gc_consumed`.


## 3. Runs

Every run checks its properties to the end of the state space, without
depth limits. Where a *bound* is named, the states beyond it repeat those before
it, for the reason given.

| Run | Module, configuration | What it shows |
|---|---|---|
| guard | MCGuard, `guard.cfg` | But for what calls past the adapter have spent since the reading, a call let through on `continue` is accepted, however old the reading, and the advised wait leaves the step covered; pings and sleeps alone never use the passes up. |
| coordinator | MCCoordinator, `coordinator.cfg` | Grants fit the window at the moment they are issued; what the coordinator believes free is free; in one `arbitrate` nobody outranked is preferred, unless the window was seen to refill or a grant in between gave tokens back; the coordinator implements SharedWindow. |
| store | MCStateStore, `store.cfg` | Manifests are whole through crashes and failed writes; stored progress is never replaced by less; a branch's keys are its own or inherited; nothing is overwritten unasked. |
| session | Session, `session.cfg` | Through compactions, retries, suspensions, exits and resumptions history and step counter agree; a failing call leaves the session as it was; every call ends; the spending cap holds for one session at a time; compaction and summaries keep the system message and the last `keep_last` messages, except of histories of more than half of `keep_last` messages and fewer than `keep_last`. |
| chain | Chain, `chain.cfg` | The circuit opens exactly on `Threshold` consecutive failures; a failing backend is left alone for the cooldown; every backend is tried before a call is given up; with a healthy backend calls are answered again. |
| router | Router, `router.cfg` | A provider is not called before its Retry-After is over; every visible provider is tried; with a healthy provider calls are answered again. |
| kv | MCKVStore, `kv.cfg` | A checkpoint's blob is there until it is deleted as consumed or as another model's; branches have their own blobs; what is restored is the session's own cache, for the model loaded. |
| attention | Attention, `attention.cfg` | No window holds more than its limit, wherever it begins; the advised wait is the least that suffices; nobody sleeps towards an absence without an end; questions are asked again once the human stays. |
| learning | Learning, `learning.cfg` | However many histories were loaded, the estimator corrects itself by the one it holds; a checkpoint carries the samples of all the steps behind it; once a phase has settled only its own steps count. |
| planner | Planner, `planner.cfg` | With a caller that serves waits as the scripts do, and pings of no more than half a second's refill: under continuous refill a run has no more stalls than forecast; a run for which no wall was forecast completes; after a window of honest votes the regime is right. |
| local | LocalResources, `local.cfg` | A step is gone into only below every ceiling read; a run wired by hand has called and saved within its time; a reading fails only when a signal it watches is away. |
| local_deadline | LocalResources, `local_deadline.cfg` | *Violated:* the facade's time budget (section 4). |

### Bounds
- **guard**: window 50 and pings of one token make a ping the 2 % of the window that
  the code's 98 % rule is about; the needs 1, 24, 48, 49, 50 lie on both sides of
  that rule and of the wait threshold (16). `RequestPeriod` 12 is within the
  threshold and longer than a chunk (6), so that waits for requests take several
  passes. Calls cost 1, 24 or 47, as far as they were estimated at that much, through the
  adapter or past it; what is unseen counts up to a whole window. `HalfSecond` 1 is a rate of
  one token per half second. `MaxResumes` 12 is more passes than any run of waits here takes. A
  suspended graph is resumed at once or a whole window later. (`WaitingConverges` does not
  live on a sleep's half second paying for a ping: it holds with pings of two tokens, too.) Ages are
  capped where every clock they could be subtracted from has run out (`AgeCap`).
- **coordinator**: two agents of two priorities, needs 1 and 2, a window of 3: two
  calls fit or do not, and a grant with one call in flight is the case the
  properties are about. The clock counts to 1: waits are only compared. The
  theorems of section 5 do away with these bounds.
- **store**: two processes, two ids, sessions of one step: a manifest can be replaced,
  forked, moved by a bundle and cleared while another process is between any two
  system calls. `Exclusive` says that one process at a time works on a session,
  which is what `fork` exists for; without it see section 4. Symmetric in processes
  and ids.
- **session**: two sessions of two questions, one retry, a window that fits the step
  or does not, with a reset near or far, steps that cost 4, which is within every
  estimate, against a cap of 11 that two of them leave too little of, a deadline of a tick, a
  safety factor at its maximum, and a
  context window of 8 of which 60 % is soon exceeded. `keep_last` is the code's default, 4, and
  histories have room for seven messages, so that compaction and summaries meet histories
  shorter and longer than that. A session suspended after its question asks it again on
  resumption; at the bound it cannot add another. Questions 2
  is the least with an answer both before and after a suspension.
- **chain**: three backends, the last one guarded, threshold and cooldown 2: several
  failures in and out of a row, probes that succeed, fail, or are malformed requests.
- **router**: two providers; Retry-After absent, 0 or 2; resets 0 or 1; both scores in
  any order, so that rankings change from call to call.
- **kv**: two sessions of two steps on a disk with room for two blobs, and names for
  four in use at a time, so that saves replace blobs, forks copy them, and sweeps run
  on a full disk; two models to find a blob foreign.
- **attention**: two agents, limits 2, a window of 3 ticks, absences of 0, 2, 4 ticks or
  without end, against a wait threshold of 2.

- **learning**: two sessions of up to three steps, six samples in all, errors 0 and
  100: a phase of two steps, its shift, and a second phase fit, in any mixture of steps
  of both sessions, resumed and done again. Windows of 3 (recent errors) and 2 (phases),
  of 3 errors saved: the history kept, the history saved and the recent errors all come to differ.
  Four checkpoints and one failing call. What each step of a session costs is fixed
  from the start, so that doing it again costs the same. Sessions are one after the
  other (`Overlap`); with overlapping ones see section 4.
- **planner**: 20 grains are a token and 80 ticks a second (`HalfSecond` 40), so the
  window of 2000 is 100 tokens, and the bucket's grain a tick is 4 tokens a second, or the
  window is reset at boundaries 25 seconds apart. Waits rounded up to ticks give away a
  grain at most, a fortieth of a ping. Pings of 2 tokens make a ping the 2 % that the 98 %
  rule is about, and are what half a second refills: the half second the loop adds to a
  wait pays for the ping after it. Section 4 has what larger pings do. Steps of 30, 55, 97
  and 99 tokens lie on both sides of that rule, and fit the window thrice, once, and
  hardly. First boundaries are at once, a little later than a step, in between, and a
  whole period off; a step takes a second, and the agent rests for none, two or twelve. A
  reading is fresh for ten seconds, waits of up to fifteen are served in place. Runs of 4
  steps meet every pause more than once. `MaxStalls` is above the stalls that can be
  forecast, and waiting is counted up to `MaxWaited`, which only `WaitingCovered` (section
  4) looks at. A refused ping carries no token headers.
- **local**: a context of 10 tokens, steps of up to 2, VRAM for none, some or all of it; a
  GPU that is there or not when a facade is built and when it is read; saves of 1 and 3
  ticks, of which the reserve of 21/8, rounded up, covers both, and a run of 7 ticks. Time
  past the deadline is one value.

`CHECK_DEADLOCK FALSE` is set for the session run, which stops when every session is done
or its history at the bound, and for the planner's, which stops when the run is done. All
other runs check for deadlock.

### Fairness
- **Session**: `WF(Backend(s))`: a backend answers or raises, as HTTP clients with
  time-outs do. `WF(Slept(s))`: a sleep ends. No fairness is assumed of the caller's
  loop, nor of what the backend answers, so `CallEnds` holds for any mixture of 429s
  and errors.
- **Chain**: `WF(Call)` and `WF(Step)`: the caller keeps calling and a backend that
  was called answers or raises; `WF(Tick)`: time passes. Which backends are up is not
  fair; `AnswersAgain` has it as its premise.
- **Router**: the same, without fairness of the caller: `AnswersAgain` has it as its
  premise that sound calls keep coming.
- **Attention**: agents look again when they wake (`WF(AskOrNap)`), time passes. What
  the human does is unfair, and restricted in the premise of `AskedAgain`.
- **Planner**: `WF(Turn)`: the agent goes on with its run, and time with it. That a
  forecast is asked for is not assumed; `RunCompletes` has it as its premise.
- Guard, Coordinator, StateStore, KVStore, Learning and LocalResources promise safety
  only and have no fairness.

A type invariant is stated in every module with variables that have one worth
stating; the coordinator's is a run's and a theorem's, the others' types are part of
what the proofs use or were checked while the module was written.


## 4. Statements the code does not keep

Found while modelling, and each found violated by TLC. The first is kept as
a run. The others are properties of the modules; to see one fail, take the named
configuration with the changes given, and make the property the only one checked.

| Property | The code | What it disagrees with | Configuration |
|---|---|---|---|
| `RunEndsInTime` | `ap/adapters/local_resources.py:1391`: every reading builds a new `KVAwareTimeBudget`, whose clock starts there | `ap/adapters/local_resources.py:1157-1158` (a deadline for the whole run) | run local_deadline |
| `HighestFirst` | `ap/coordinator.py:179`: a grant replaces a larger hold left by a call that failed, and the pool grows in the middle of a round | `ap/coordinator.py:159-160` ("against the shrinking pool") | coordinator.cfg with three agents, RequestLimit = 1, MaxClock = 0 |
| `GrantFitsRequests` | `ap/coordinator.py:108` copies the shared requests into every agent's budget | `ap/coordinator.py:122-124` (two agents are never told to go into a window that fits one) | coordinator.cfg with MaxClock = 0 |
| Chain's `EveryBackendTried` | `ap/breaker.py:73` raises `CircuitOpenError` while the circuit is open; `ap/fallback.py:65` passes over 429s and retriable errors only | `CHANGELOG.md:458` (the breaker "composes with" the chain), `README.md:594` | chain.cfg with N = 2, Guarded = {1, 2} |
| Router's `EveryProviderTried` | `ap/router.py:123` catches only `TelemetryError` while ranking | `ap/router.py:159-161` (falls through to the next best) | router.cfg with PingsFail = TRUE |
| `RequestClockRules` | `ap/risk.py:173`, `or` takes a clock at 0.0 for none | `ap/risk.py:170-172` | guard.cfg |
| `ProceedsOnlyOnFit` | `ap/adapters/langgraph.py:142`, the loop ends and the gate opens | `ap/adapters/langgraph.py:138-139` | guard.cfg |
| `NoCallFailsAdmitted` | `ap/adapters/openai_compat.py:262`: after a call past the adapter the reading from before it is served for up to `max_age_s` | `ap/adapters/langgraph.py:27-31` (every pass re-reads the budget, rather than letting the call fail with a 429) | guard.cfg |
| `FallbackProceeds` | `ap/adapters/openai_compat.py:236-243`, a 429 ping puts a zero reading in the cache that a silent provider never replaces | `ap/adapters/openai_compat.py:188-189` | guard.cfg with Silent = TRUE, Fallback = 50 |
| `HeldInFlightOnly` | `ap/fleet.py:211`: a backend that raises skips `complete()` | `ap/coordinator.py:92` | coordinator.cfg with MaxClock = 0 |
| Coordinator's `AdvisedWaitSuffices` | `ap/coordinator.py:107`: the refill rate is derived from a count lowered by holds | `ap/risk.py:93` | coordinator.cfg with Limit = 10, Needs <- MCLargeNeeds, WaitThreshold = 4, MaxClock = 0 |
| `GrantFits` | `ap/adapters/litellm.py:201`: responses are absorbed as they arrive | `ap/coordinator.py:122-124` | coordinator.cfg with InOrder = FALSE, PingCost = 0, MaxClock = 0 |
| `ManifestWhole` | `ap/state.py:163`: two writers of one session share a temporary file | `ap/state.py:8-9`, `156` | store.cfg without SYMMETRY, Exclusive = FALSE, Calls = {"resume", "checkpoint", "clear", "fork"} |
| `NeverOverwritten` | `ap/state.py:216`: the check and the rename are two steps | `ap/state.py:206-208` | the same |
| `MissingIsNone` | `ap/state.py:177-180`: the check and the open are two steps | `ap/state.py:175` | the same, with Exclusive = TRUE |
| `OwnCheckpoint` | `ap/state.py:152`: different ids make one file name | `ap/scheduler.py:446` | the same, with SafeName <- MCOneName |
| `MoneyCap` | `ap/scheduler.py:162`: with overlapping calls the cap is looked at before others have paid | `ap/scheduler.py:351-353` | session.cfg with Parallel = TRUE, MoneyBudget = 7 |
| `EndsAlwaysKept` | `ap/state.py:106`: a history shorter than `keep_last` makes the slice's end negative | `ap/state.py:97-98` | session.cfg |
| `CautionGrows` | `ap/scheduler.py:441`: a factor above `k_max` is lowered to it by a 429 | `README.md:261-262` | session.cfg with one session, InitialK = 20 |
| `DelayCeiling` | `ap/retry.py:50`: the jitter comes after the cap | `ap/retry.py:28` | session.cfg with one session, MaxRetries = 2, Jitter = 25 |
| `RunDeadline` | `ap/scheduler.py:56`: the start of the run is not in the checkpoint | `ap/scheduler.py:363-364` | session.cfg with one session, TimeBudget = 2, MaxClock = 3 |
| `OneQuestionEach` | `ap/scheduler.py:10`: a question is stored at suspension and added again on resumption | `README.md:146-147` | session.cfg with one session |
| `ConfirmedFirst` | `ap/llamacpp_kv.py:360`: a full disk releases the blobs of all restored sessions | `ap/llamacpp_kv.py:261-266` | kv.cfg |
| `OwnBlob` | `ap/llamacpp_kv.py:511`: the clone is saved with its parent's blob before the copy | `ap/llamacpp_kv.py:493-500` | kv.cfg with ForkWhole = FALSE |
| `NoDangling` | `ap/llamacpp_kv.py:578`: a sweep deletes what another process has written and not committed | `gc_orphans`' own doc | kv.cfg with two processes, PruneOldest = FALSE |
| `WarmStartIsOwn` | `ap/llamacpp_kv.py:409`: fingerprint and slot are read at different times | the gate documented with the fingerprint | kv.cfg with Steady = FALSE |
| `StallsCovered` | `ap/adapters/openai_compat.py:262`: without a caller's `invalidate()`, a reading from before a short wait decides again after it; nothing in `ap/` calls it, the loops in `scripts/` do | `ap/forecast.py:100` (the same math as the live decision's waits) | planner.cfg with Invalidates = FALSE |
| `StallsCovered` | `ap/forecast.py:143`: the simulation has no pings; one that costs more than the half second after a wait refills leaves a deficit to wait for again | the same | planner.cfg with ping_tokens = 50 |
| Planner's `RunCompletes` | `ap/risk.py:117`: a deficit `d` is waited for with `1.15 d`; a ping of `p` tokens after each wait, beyond what is slept on top, leaves it at or above `p / 1.15`, so that waits and pings go on without end | `ap/forecast.py:54` (only a step that can never fit is a wall) | planner.cfg with ping_tokens = 80 |
| `WaitingCovered` | `ap/forecast.py:146`: the reset stays as it was read, while a window emptied further takes longer | `ap/forecast.py:100` (the same math as the live decision's waits) | planner.cfg |
| `WallIsReal` | `ap/forecast.py:139`: after a 429 ping the limit is unknown, and the reading, zero, is taken for a whole window | `ap/forecast.py:54` (a single step can never fit a whole window) | planner.cfg |
| `CheckpointCarriesItsSteps` | `ap/scheduler.py:64`: resuming one session overwrites what others taught the estimator they share | `ap/scheduler.py:60-61` (a resumed session starts calibrated) | learning.cfg with Overlap = TRUE |
| `OwnFeatures` | `ap/regression.py:208`: features are cleared by `record()`, which a failing call does not reach | `ap/regression.py:198-199` (they never leak into the next step) | learning.cfg |
| `FitOfTheHistory` | `ap/regression.py:211`: with few samples `load` leaves the fit and its residuals, and `sigma` uses them | `ap/regression.py:120-121` (below `min_samples` the base estimator is used) | learning.cfg |


## 5. Proofs

All proofs are checked from nothing by `tlapm`.

**Coordinator_proofs** assumes `CoordinatorAssumption`: finitely many agents, any
window, any needs above 0, any priorities that contain the default.
- `TypeCorrect`: `Spec => []TypeOK`. The one case with content is registration: a
  rank is always left for a new agent (`RankLeft`, by counting).
- `PoolInvariant`: `InOrder` implies `Spec => []PoolInv`. `ReadingIsSafe` is not
  inductive: a response may bring a reading into the cache that was taken before
  calls that have been charged since. The strengthening says so: a reading, cached
  or on its way, is ahead of the window by at most the holds of the calls charged
  after it was taken, and those are still undelivered (`ReadingBounded`,
  `HeadersBounded`, over `Behind`), responses are totally ordered by `ahead`
  (`AnswersOrdered`), granted calls hold something (`GrantsHold`), and a round of
  `arbitrate` decides about idle, distinct agents (`RoundIdle`).
- `ReadingSafe` and `GrantsFit` follow: from `ReadingBounded`, since the holds of
  undelivered and of outstanding calls are disjoint parts of `reserved`; and since
  a grant compares its need with the reading less `reserved`.

The assumption `InOrder` is necessary: without it TLC refutes `GrantFits`
(section 4). It holds where one response at a time is outstanding to the adapter
between processing and absorption, as in the synchronous fleet.

- `NobodyPassedOver` needs no `InOrder`: `NoPriorityInversion` in one round of
  `arbitrate`, for any number of agents. Its invariant `RankInv` adds that decisions
  and what is left of the queue come in the order of rank (`ServedInOrder`, over the
  code's sort key) and that what was refused would be refused again on the same
  reading (`RefusedStill`): the holds have only grown since, unless a grant in between
  replaced a larger one. With three agents it may, which no run of two shows: the attempt
  to prove the property without that exception is what led to `HighestFirst` in section 4.
- `Implementation` is the refinement: with responses in order every behaviour of the
  coordinator is one of SharedWindow. `request` and `arbitrate_next` that grant are
  `Claim`, `Serve` and `Fail` are `Charge`, pings and refills `Change`, everything else
  stutters; `Claim`'s condition is `GrantsFit`.

The module opens with the lemmas on the sums of TokenTotals that its proofs cite: a
total over a finite set is a natural number, grows with the set and its values, and
changes by the difference when one value changes.

**Chain_proofs** assumes `ChainAssumption`: any number of backends, any of them
guarded, any threshold above 0 and any cooldown. `OpenedByCount` is inductive only
together with `EntryHolds` (what a breaker computed on entry, and looks at again
after the backend has returned, still describes its circuit) and
`CooldownSinceFailure` (an open circuit's age is the time since its backend last
failed); `BreakerInv` is their conjunction. `OpensByCount` and `BackendLeftAlone`
follow: a backend asked although its count stands at the threshold had its circuit
half-open, and that is so only once the cooldown has passed.
`NoBackendSkipped` is `EveryBackendTried` for a chain in which a breaker, if there is
one, guards the last backend (`BreakerLast`); anywhere else an open circuit ends the call
(section 4). Its invariant `AskedSoFar` says that the backends before the one the call has
come to have been asked.

**Budgets_proofs** is about two kinds of telemetry a run decides on: LocalResources', and
below the Router's. The first part assumes `LocalAssumption`: any context, margin, model size,
header, GPU and latency bound, a reserve that covers the save, and a time budget with
room for the steps the latency estimator learns from and the reserve. The reserve has
to cover the save for the docs' claim to be about anything; without room for the first
steps, for which no latency is predicted and `time_fit` is true, those may take the
reserve.
- `CeilingsFit`: a composite that does not raise has no more tokens than any source
  (`CompositeTightest`); each source's tokens are backed by cells or bytes
  (`ContextFits`, `VRAMFits`); a ratio measured from a blob with a header overstates a
  token's size, never understates it (`RatioFits`, the conjunct on `bytes_per_token` of
  `LocalInv`); and `decide` continues only on a fit (`GoFits`).
- `RunsEndInTime`, for the pieces wired by hand (with `"timed_facade" \notin Wirings`;
  for the facade it is false, section 4). `RunEndsInTime` says nothing before the end
  of a run, so `TimeInv` follows it: time for the save is left while deciding and while
  a step is under way; before a call its latency fits too, at first because at most
  `samples * MaxLatency` has gone by, later because `time_fit` was asked.
- `ReadingsFailWithTheWorld`: what is watched and is there is read (`ReadingThere`). A
  composite of readings is a reading, and the facade asks for VRAM only once it has a ratio.
  `ReadingAssumption` says that None is neither a Budget nor a ratio.

The second part assumes `RouterAssumption`, for any providers, scores, resets and
retry-afters. `RouterInv` says where every provider is in the course of a call: bans are
covered by cooldowns but for the provider about to be parked (`BansCovered`), nobody in
the queue is banned or there twice (`QueueFree`), and each provider has been asked, was
passed over when the ranking was made, or is still in the queue (`NobodyLost`).
- `BansServed`: `RetryAfterKept`, whatever fails in between, in this call or another.
- `NoProviderLost`: `EveryProviderTried` where pings do not raise `BackendError`
  (`~PingsFail`); where they do it is false (section 4).

**Pacing_proofs** is about agents that are told to wait. Its first part, on the gate,
assumes `GuardAssumption` and `ClockAssumption` (any window, ping cost, needs, costs,
wirings and thresholds, and any refill rate of a whole number of tokens per half second)
and, in both theorems, a provider that sends its headers or a caller that gives no
fallback count (`Honest`): the fallback is a guess, and section 4 has what it costs. The
properties speak of the moment a call is let through or a wait begins; the readings they
rest on were cached any number of ticks and calls before. `GateOK` says of the cache,
wherever `check()` stands, that its counts are no higher than the window's with what is
unseen, and that with its age added to them, as a tick refills one token, they are still
no higher, up to the limit (`Poorer`, `CacheOK`). Both are needed: the first for the call
let through, the second for the wait, whose refill rate is derived from clocks that were
advanced by the age. `TokenWait` and its lemmas do the arithmetic of the rounded wait.
- `AdmittedIsAccepted`: a call let through on `continue` is accepted, but for what calls
  past the adapter have spent since the reading (`unseen`). Where every call goes through
  the adapter and the provider sends headers, nothing is unseen.
- `AdviceSuffices`: after an advised wait for tokens the window holds what the step needs,
  under the same proviso. Without the proviso the first is `NoCallFailsAdmitted`, which is
  false (section 4).

The second part, on the human and the tool, assumes `AttentionAssumption`, for any number
of agents, limits, windows, thresholds and absences. The properties go by the counts
`asked` and `called`, the code by its queue. `Kept` connects them: the queue is in the
order of age, and for each age it has as many younger entries as the counts say, both as
cardinalities, so that no sum has to be computed; a tick shifts both (`ShiftedTokens`, by
a bijection, and `OlderKept`), and what expiry removes lies outside of the window
(`PrunedYounger`).
- `WindowsKept`: no window, wherever it begins, holds more than its limit.
- `WaitsExact`: the advised wait is the least that suffices (`FreeExact`: the code
  reads it off one entry of the queue, the one whose expiry makes room).
- `NoIndefiniteWaits`: nobody naps or sleeps towards an absence without an end. For the
  sleeper in `acquire()` `RoomComes` says that there will be room when it wakes.

**StateStore_proofs** assumes `StateStoreAssumption`, for any processes, ids and sessions.
- `TypeCorrect` and `BranchesStayApart` hold for any use of the store. Keys of branches
  are apart because a checkpoint's keys were minted by its session or come from before
  its fork, wherever a copy of it is: in a session, in a call, in a file, torn or whole.
- `ManifestsStayWhole`, `ProgressIsKept` and `NothingOverwritten` have two hypotheses,
  both necessary (section 4): one process at a time works on a session (`Exclusive`), and
  ids have different file names (`OwnNames`). The invariant says that a manifest is of the
  session whose file it is (`OwnFiles`), that a session's manifest is not ahead of it
  (`SessionOK`), and that the temporary file holds exactly what its call has written so
  far, while a fork or an import finds its place empty to the end (`SaveOK`).

**KVStore_proofs** assumes `KVStoreAssumption`, for any sessions, models, steps, and
room on disk. `StoreInv`, which holds for any number of processes whatever crashes, says
what each call knows (`CallsOK`: a save's session is loaded, a restoration's checkpoint is
the one that was read), that nobody else works on its session (`OneUser`), and that the
name of a blob being made is known to that call alone (`NewBlobs`).
- `OwnBlobs`, where forks run to their end (`ForkWhole`): two checkpoints share a blob
  only while one of them is being forked (`BranchInv`).
- `WarmStarts`, where the server is restarted between calls only (`Steady`): a referenced
  blob is the cache of its checkpoint's history and model, a live slot is of the loaded
  model, and every call carries that knowledge from one request to the next (`CacheInv`).
- `BlobsStay`, where one process uses the store (`Alone`) and forks run to their end: a
  sweep's list of files is up to date, what a save replaces is referenced by nobody else, what
  it commits is on disk, and a blob restored by a session is no other's (`AloneInv`).
The hypotheses are those under which the run checks the same properties, and each of
them is necessary (section 4).

**Session_proofs** assumes `SessionAssumption`: any sessions, questions, limits and retries,
sizes and uses that are natural numbers, corrections that are whole ones, negative
ones included.
- `HistoriesAgree`: `Spec => []NoPhantomSteps`, also with calls in parallel. To be
  inductive it needs `Awaited`: from the decision to the answer the last message is the
  question of the next step, so that the answer goes where it belongs. Compaction
  keeps every role and question (`CompactConsistent`); a summary moves the tail
  behind one system message, so what it cut off are the answers before the first one left
  (`Summarizes`, `SummaryConsistent`).
- `CleanFailures`: the steps of a call that ends in `raised` do not touch the history.
- `CapHolds`: `MoneyCap` where calls follow one another (`OneAtATime`; with overlapping
  ones it is false, section 4). `CapInv`: at most one session is in its turn (`OneTurn`), and
  a call let through is covered by what is left until it has been paid for (`Funded`).
- `HeadAndRecentKept`: `KeepsHeadAndRecent`, for every `keep_last`. Of a history with that many
  messages head and recent ones stay; one of no more than half as many has nothing old in it, as
  Python's slice, whose end is negative, counts from the end. In between old and recent
  overlap, and the property without its premise, `EndsAlwaysKept`, is false, also with the code's
  default of 4 (section 4).

**Learning_proofs** assumes `LearningAssumption` and `EstimatorAssumption`, for any
sessions, errors and bounds.
- `HistoriesStayApart`: `OneHistory`, whether or not sessions overlap, where the samples
  kept, by which the history is known, reach as far back as the recent errors
  (`SamplesReach`; the code's defaults are 500 and 6). `Taught` says of the estimator, and
  `AllSaved` of every checkpoint, that what is kept in three lengths ends alike.
- `ResumesCalibrated`: `CheckpointCarriesItsSteps`, where sessions follow one another
  (`OneByOne`) and no sample is dropped (`RoomForAll`). Both are needed: a checkpoint
  carries the estimator, which all sessions share and which forgets beyond its cap.

Its first part is about the adapter's verdict, and assumes `PlannerAssumption` and
`RefillAssumption`: any bucket, grain, rate, boundaries, steps, pauses and windows of votes.
- `VerdictRecovers`: `VerdictFades`, whatever votes were cast before. A gap is paired with
  the reading at its beginning, so the invariant says of that reading what it still tells of
  the bucket (`SampleHolds`: until the bucket fills up or is reset, it holds what it held
  plus what the gap has refilled), and that the votes since are the provider's kind
  (`VotesHonest`, by `ContinuousVote` and `FixedVote`). Its hypothesis `PingsSmall` says
  that a ping, and the token that rounding to whole ones may hide, cost less than nine tenths of
  what the shortest gap that counts refills.
  It is what the code's comment takes for granted (`ap/refill.py:14`, "nibbled slightly by
  the pings themselves"): the gap's gain is lowered by the ping that ends it, so if pings
  cost as much as a gap refills, a continuous bucket looks flat, and TLC refutes the
  property (planner.cfg with ping_tokens = 200). The run has pings of 40 grains, and gaps of 160.

*Model-checked only*:
- liveness: the prover has no fairness and no `ENABLED`;
- `WaitingConverges`, which counts the passes of a run of waits against `MaxResumes`. It
  depends on how limits, chunk, cache age, ping cost and the requests' clock compare; the
  simple bounds on that number that come to mind are above the code's default of 100 passes,
  so a theorem under one of them would not be about the defaults;
- `BoundOfThePhase` and `StallsCovered`, about what folds over a history (sums, sorted
  quantiles, the forecast's steps) compute for every history: that needs induction over data.


## 6. Not modelled

- **The arithmetic of the regression**: a fit is the samples it was made of, and what it
  predicts is in no model. In Session corrections are any of a set; that they may be
  wrong is in Guard's and Session's inputs only as far as a call uses at most its
  estimate. A call that uses more breaks the spending cap by as much, and no check
  before the call could prevent that.
- **Prices and money of a forecast**, the price helpers of the local resources: products
  no state depends on.
- **Anthropic adapter**: names of headers. **LiteLLM's cache**: of the shape Guard has;
  that it takes responses as they come is in the coordinator.
- **Waits shorter than a tick**: the rounding of section 2. In Guard refill rates are whole
  numbers of tokens per half second; Planner's grains can have any.
- **Callers of a decision other than the scripts' loop and the guard**: how long they sleep
  on top of an advised wait, and whether they call `invalidate()`, decides with the cost of
  a ping whether `StallsCovered` and `RunCompletes` hold (section 4).
- **Readings with a regime in Guard**: which wait a regime advises is in Planner, where
  the run is one agent's.
- **Callbacks** (`on_event`, `on_route`, `on_fallback`), logging, `RiskModel.score`.
- **Power loss**: `save` does not flush to the device before it renames; StateStore's
  disk keeps what was written, so that case is outside `ManifestWhole`.
- **Misuse**: `arbitrate` for an agent with a call in flight, `record()` beyond a
  tool's quota, limits of zero (which raise `IndexError`), sessions saved with a
  slot that holds another one's cache.
- **Agreement of `budget()` and `backend()`** of the router: the first-ranked provider
  may change in between. Router allows that, and promises nothing about it.


## 7. Plan

In order of importance:

1. A composition of the telemetry cache with Session (`next_action` writes the
   deadline into the object telemetry returned), and one of the fleet: router below
   coordinator, where a grant for one provider is spent at another.
2. Misuse of `arbitrate`; per-agent estimators of the fleet.
3. A bound on the passes a run of waits takes, sharp enough to prove `WaitingConverges`
   for the code's defaults.
