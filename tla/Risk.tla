-------------------------------- MODULE Risk --------------------------------
(***************************************************************************)
(* The suspension rule of src/src/agentpause/risk.py: the hard token rule, *)
(* the refill-aware wait and the three-valued decision, as operators.      *)
(*                                                                         *)
(* Tokens, requests and ticks of time are integers.  A step's k * sigma    *)
(* margin enters as the integer the code compares against (an integer      *)
(* reading is below estimated + k * sigma exactly when it is below         *)
(* estimated + ceil(k * sigma)), so a step carries `needed', its estimate  *)
(* with the margin on top.  A field Python leaves at None is None here.    *)
(***************************************************************************)
EXTENDS Integers

CONSTANTS
    None,               \* a reading the provider did not report
    HalfSecond          \* in ticks

ASSUME NoneAssumption == None \notin Int

ASSUME ClockAssumption == HalfSecond \in Nat \ {0}

Known(x) == x # None

\* Python's `x or y': a clock that has run down to 0.0 is as good as absent.
FalsyOr(x, y) == IF x \in {None, 0} THEN y ELSE x

CeilDiv(a, b) == -((-a) \div b)

Lesser(a, b) == IF a <= b THEN a ELSE b

Greater(a, b) == IF a <= b THEN b ELSE a

-----------------------------------------------------------------------------
\* A reading that knows its token count and nothing else.
TokenBudget(tokens) ==
    [remaining_tokens        |-> tokens,
     remaining_requests      |-> None,
     reset_seconds           |-> None,
     reset_requests_seconds  |-> None,
     remaining_input_tokens  |-> None,
     remaining_output_tokens |-> None,
     limit_tokens            |-> None,
     refill_regime           |-> None,
     remaining_seconds       |-> None]

\* What decide() is told about the next step.
TokenStep(needed) ==
    [needed |-> needed, input |-> None, output |-> None, latency |-> None]

\* Mutated form: one token short still counts as enough.
should_checkpoint_Loose(remaining, needed) == remaining + 1 < needed

should_checkpoint(remaining, needed) == remaining < needed

-----------------------------------------------------------------------------
(* The time until a bucket in state b holds `needed' tokens.  The refill   *)
(* rate is what the headers imply, 15% is added to the bare figure, and    *)
(* the full reset caps it.                                                 *)

RateKnown(b) ==
    /\ b.refill_regime # "fixed"
    /\ Known(b.limit_tokens)
    /\ b.reset_seconds > 0
    /\ b.limit_tokens > b.remaining_tokens

\* Mutated form: the refill rate taken from the whole window, not from the
\* part of it that is missing.
BufferedWait_WholeWindowRate(b, deficit) ==
    CeilDiv(deficit * b.reset_seconds * 115, b.limit_tokens * 100)

BufferedWait(b, deficit) ==
    CeilDiv(deficit * b.reset_seconds * 115,
            (b.limit_tokens - b.remaining_tokens) * 100)

refill_wait(b, needed) ==
    CASE ~Known(b.reset_seconds) -> None
      [] Known(b.reset_seconds) /\ ~RateKnown(b) -> b.reset_seconds
      [] Known(b.reset_seconds) /\ RateKnown(b) ->
            IF needed <= b.remaining_tokens
              THEN HalfSecond
              ELSE Lesser(b.reset_seconds,
                          BufferedWait(b, needed - b.remaining_tokens))

-----------------------------------------------------------------------------
\* A dimension nobody reported never blocks.
Fits(need, available) == Known(need) /\ Known(available) => need <= available

tokens_fit(b, s) == ~should_checkpoint(b.remaining_tokens, s.needed)

requests_fit(b, rpm_margin) == Fits(1 + rpm_margin, b.remaining_requests)

split_fit(b, s) ==
    /\ Fits(s.input, b.remaining_input_tokens)
    /\ Fits(s.output, b.remaining_output_tokens)

time_fit(b, s) == Fits(s.latency, b.remaining_seconds)

AllFit(b, s, rpm_margin) ==
    tokens_fit(b, s) /\ requests_fit(b, rpm_margin) /\ split_fit(b, s)

\* Mutated form: without the rule against waiting for a whole window.
NeedsWholeWindow_Never(b, s) == FALSE

\* The call needs 98% of the window or more: no partial refill ever covers it.
NeedsWholeWindow(b, s) ==
    Known(b.limit_tokens) /\ 100 * s.needed >= 98 * b.limit_tokens

\* How long the binding dimension takes to recover; None when it never will.
wait_s(b, s, rpm_margin) ==
    IF ~requests_fit(b, rpm_margin)
      THEN FalsyOr(b.reset_requests_seconds, b.reset_seconds)
      ELSE IF ~split_fit(b, s)
             THEN b.reset_seconds
             ELSE IF NeedsWholeWindow(b, s)
                    THEN None
                    ELSE refill_wait(b, s.needed)

Decision(action, seconds) == [action |-> action, wait_seconds |-> seconds]

decide(b, s, wait_threshold_s, rpm_margin) ==
    LET w == wait_s(b, s, rpm_margin)
        soon == Known(w) /\ w <= wait_threshold_s
    IN  CASE ~time_fit(b, s) -> Decision("checkpoint", None)
          [] time_fit(b, s) /\ AllFit(b, s, rpm_margin) ->
                Decision("continue", None)
          [] time_fit(b, s) /\ ~AllFit(b, s, rpm_margin) ->
                IF soon THEN Decision("wait", w)
                        ELSE Decision("checkpoint", None)

=============================================================================
