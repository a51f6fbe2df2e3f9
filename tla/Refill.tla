------------------------------- MODULE Refill -------------------------------
(***************************************************************************)
(* RegimeDetector of src/src/agentpause/refill.py, as operators on the     *)
(* deque of its votes, with the sampling of OpenAICompatAdapter            *)
(* (src/src/agentpause/adapters/openai_compat.py) that feeds it.           *)
(*                                                                         *)
(* The implied rate is kept as the tokens missing and the time they are    *)
(* said to take, and ratios are compared by multiplying out.               *)
(***************************************************************************)
EXTENDS Risk, Sequences, FiniteSets

CONSTANTS
    min_gap_s,              \* samples closer than this are noise
    window,                 \* votes remembered
    min_votes               \* votes needed for a verdict

ASSUME RefillAssumption ==
    /\ min_gap_s \in Nat \ {0}
    /\ window \in Nat \ {0}
    /\ min_votes \in 1 .. window

\* _sample_point: what the next ping is compared with.
_sample_point(b) ==
    [remaining |-> b.remaining_tokens,
     missing   |-> IF Known(b.limit_tokens) /\ Known(b.reset_seconds)
                     THEN b.limit_tokens - b.remaining_tokens ELSE 0,
     reset     |-> IF Known(b.reset_seconds) THEN b.reset_seconds ELSE 0]

Remember(votes, vote) ==
    LET all == Append(votes, vote)
    IN  IF Len(all) > window THEN Tail(all) ELSE all

\* A gap too short or a rate unknown says nothing, and neither does a rise
\* between a tenth and half of the implied one.
Vote(dt, dr, point) ==
    LET seen    == dr * point.reset
        implied == dt * point.missing
    IN  CASE dt < min_gap_s \/ implied <= 0 \/ point.reset <= 0 -> None
          [] dt >= min_gap_s /\ implied > 0 /\ point.reset > 0 ->
               CASE 2 * seen >= implied  -> "continuous"
                 [] 10 * seen <= implied -> "fixed"
                 [] OTHER                -> None

feed(votes, dt, dr, point) ==
    LET vote == Vote(dt, dr, point)
    IN  IF Known(vote) THEN Remember(votes, vote) ELSE votes

\* The majority of the recent votes.
regime(votes) ==
    LET cont  == Cardinality({i \in DOMAIN votes : votes[i] = "continuous"})
        fixed == Len(votes) - cont
    IN  CASE Len(votes) < min_votes \/ cont = fixed  -> "unknown"
          [] Len(votes) >= min_votes /\ cont > fixed -> "continuous"
          [] Len(votes) >= min_votes /\ cont < fixed -> "fixed"

=============================================================================
