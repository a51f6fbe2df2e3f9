----------------------------- MODULE Compaction -----------------------------
(***************************************************************************)
(* The overflow policy of src/src/agentpause/state.py: Checkpoint.compact  *)
(* truncates old messages, Checkpoint.summarize_with replaces them by one. *)
(*                                                                         *)
(* A message is its role, the question it belongs to (0 for none) and its  *)
(* size; sizes are counted in max_chars, so a message longer than 1 is     *)
(* long and a truncated one has size 1.                                    *)
(***************************************************************************)
EXTENDS Integers, SequencesExt

CONSTANT keep_last      \* the most recent messages, to be left intact

ASSUME CompactionAssumption == keep_last \in Nat

Messages == [role : {"system", "user", "assistant"}, about : Nat, size : Nat]

Message(role, about, size) == [role |-> role, about |-> about, size |-> size]

\* A leading system message is kept.
start(messages) ==
    IF messages # <<>> /\ messages[1].role = "system" THEN 1 ELSE 0

\* Python's slice end: a negative index counts from the end.
SliceEnd(n, i) == IF i < 0 THEN (IF n + i < 0 THEN 0 ELSE n + i) ELSE i

\* The positions of messages[start : len(messages) - keep_last].
old(messages) ==
    start(messages) + 1 .. SliceEnd(Len(messages), Len(messages) - keep_last)

\* Old messages are truncated, their order and number kept.
compact(messages) ==
    [i \in 1 .. Len(messages) |->
        IF i \in old(messages) /\ messages[i].size > 1
          THEN [messages[i] EXCEPT !.size = 1] ELSE messages[i]]

\* The first message of the tail messages[len(messages) - keep_last :].
TailStart(n) == SliceEnd(n, n - keep_last) + 1

\* Mutated form: the tail begins one message late.
summarize_with_LateTail(messages, size) ==
    IF old(messages) = {}
      THEN messages
      ELSE SubSeq(messages, 1, start(messages))
             \o <<Message("system", 0, size)>>
             \o SubSeq(messages, TailStart(Len(messages)) + 1, Len(messages))

\* Old history becomes one summary of the given size.
summarize_with(messages, size) ==
    IF old(messages) = {}
      THEN messages
      ELSE SubSeq(messages, 1, start(messages))
             \o <<Message("system", 0, size)>>
             \o SubSeq(messages, TailStart(Len(messages)), Len(messages))

=============================================================================
