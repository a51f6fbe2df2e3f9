--------------------------- MODULE Session_proofs ---------------------------
(***************************************************************************)
(* Histories and step counters agree for any number of sessions, questions *)
(* and retries, whatever fails, exits or is resumed; a failing call leaves *)
(* its session alone; shrinking a history keeps its ends unless it is      *)
(* short; and the spending cap holds for calls one after the other.        *)
(***************************************************************************)
EXTENDS Session, SequenceTheorems, FiniteSetTheorems, TLAPS

USE NoneAssumption, CompactionAssumption, SessionAssumption

-----------------------------------------------------------------------------
(* Histories.                                                              *)

\* Roles and questions decide whether a history is consistent.
LEMMA SameRoles ==
  ASSUME NEW m \in Seq(Messages), NEW r, NEW n, Consistent(m, n),
         DOMAIN r = DOMAIN m,
         \A i \in DOMAIN m : r[i].role = m[i].role /\ r[i].about = m[i].about
  PROVE  Consistent(r, n)
<1>1. Answers(r) = Answers(m)
  BY DEF Answers
<1>2. /\ \A i \in Answers(m) : i \in DOMAIN m
      /\ \A i \in DOMAIN m : i > 1 => i - 1 \in DOMAIN m
  <2>1. Len(m) \in Nat /\ DOMAIN m = 1 .. Len(m)
    BY LenProperties
  <2> QED BY <2>1 DEF Answers
<1>3. \A i \in Answers(m) :
        /\ r[i].about = m[i].about
        /\ i > 1 => /\ r[i - 1].role = m[i - 1].role
                    /\ r[i - 1].about = m[i - 1].about
  BY <1>2
<1> QED BY <1>1, <1>3 DEF Consistent

\* What is appended, element by element.
LEMMA Appended ==
  ASSUME NEW m \in Seq(Messages), NEW x \in Messages
  PROVE  /\ Len(m) \in Nat /\ DOMAIN m = 1 .. Len(m)
         /\ DOMAIN Append(m, x) = 1 .. Len(m) + 1
         /\ \A i \in 1 .. Len(m) : Append(m, x)[i] = m[i]
         /\ Append(m, x)[Len(m) + 1] = x
         /\ Append(m, x) \in Seq(Messages)
<1> DEFINE r == Append(m, x)
<1>1. /\ r \in Seq(Messages) /\ Len(r) = Len(m) + 1
      /\ \A i \in 1 .. Len(m) : r[i] = m[i]
      /\ r[Len(m) + 1] = x
  BY AppendProperties
<1> HIDE DEF r
<1>2. DOMAIN r = 1 .. Len(r)
  BY <1>1, LenProperties
<1>3. Len(m) \in Nat /\ DOMAIN m = 1 .. Len(m)
  BY LenProperties
<1> QED BY <1>1, <1>2, <1>3 DEF r

\* The empty history is one of no steps.
LEMMA EmptyConsistent == <<>> \in Seq(Messages) /\ Consistent(<<>>, 0)
<1>1. <<>> \in Seq(Messages) /\ DOMAIN <<>> = {}
  OBVIOUS
<1> QED BY <1>1 DEF Consistent, Answers

\* A question, or a system message, is no answer.
LEMMA QuestionAppended ==
  ASSUME NEW m \in Seq(Messages), NEW x \in Messages, x.role # "assistant",
         NEW n \in Nat, Consistent(m, n)
  PROVE  Consistent(Append(m, x), n)
<1> DEFINE r == Append(m, x)
<1>1. /\ Len(m) \in Nat /\ DOMAIN m = 1 .. Len(m)
      /\ DOMAIN r = 1 .. Len(m) + 1
      /\ \A i \in 1 .. Len(m) : r[i] = m[i]
      /\ r[Len(m) + 1] = x
  BY Appended
<1> HIDE DEF r
<1>2. Answers(r) = Answers(m) /\ Answers(m) \subseteq 1 .. Len(m)
  BY <1>1 DEF Answers
<1>3. \A i \in Answers(m) : i > 1 => r[i] = m[i] /\ r[i - 1] = m[i - 1]
  BY <1>1, <1>2
<1>4. \A i \in Answers(m) : r[i] = m[i] /\ i > 1
  BY <1>1, <1>2 DEF Consistent
<1>5. \A i \in Answers(r) :
        /\ r[i].about \in 1 .. n
        /\ \A j \in Answers(r) : i < j => r[i].about < r[j].about
        /\ i > 1
        /\ \/ r[i - 1].role = "user" /\ r[i - 1].about = r[i].about
           \/ Summaries /\ r[i - 1].role = "system"
  <2> SUFFICES ASSUME NEW i \in Answers(m)
               PROVE  /\ r[i].about \in 1 .. n
                      /\ \A j \in Answers(m) : i < j => r[i].about < r[j].about
                      /\ i > 1
                      /\ \/ /\ r[i - 1].role = "user"
                            /\ r[i - 1].about = r[i].about
                         \/ Summaries /\ r[i - 1].role = "system"
    BY <1>2
  <2>1. r[i] = m[i] /\ r[i - 1] = m[i - 1] /\ i > 1
    BY <1>3, <1>4
  <2>2. \A j \in Answers(m) : r[j] = m[j]
    BY <1>4
  <2> QED BY <2>1, <2>2 DEF Consistent
<1>6. \A k \in 1 .. n :
        \/ \E i \in Answers(r) : r[i].about = k
        \/ Summaries /\ \A i \in Answers(r) : k < r[i].about
  BY <1>2, <1>4 DEF Consistent
<1>7. Consistent(r, n)
  BY <1>5, <1>6 DEF Consistent
<1> QED BY <1>7 DEF r

\* The last message asks question n.
Asks(m, n) ==
    /\ Len(m) > 0
    /\ m[Len(m)].role = "user" /\ m[Len(m)].about = n

\* An answer after its question is one more step.
LEMMA AnswerAppended ==
  ASSUME NEW m \in Seq(Messages), NEW x \in Messages, x.role = "assistant",
         NEW n \in Nat, x.about = n + 1, Consistent(m, n), Asks(m, n + 1)
  PROVE  Consistent(Append(m, x), n + 1)
<1> DEFINE r == Append(m, x)
           l == Len(m) + 1
<1>1. /\ Len(m) \in Nat /\ DOMAIN m = 1 .. Len(m)
      /\ DOMAIN r = 1 .. l
      /\ \A i \in 1 .. Len(m) : r[i] = m[i]
      /\ r[l] = x
  BY Appended
<1> HIDE DEF r
<1>2. /\ Answers(r) = Answers(m) \cup {l}
      /\ \A i \in Answers(m) : i \in 1 .. Len(m) /\ r[i] = m[i]
  BY <1>1 DEF Answers
<1>3. /\ l > 1 /\ l - 1 = Len(m)
      /\ r[l - 1].role = "user" /\ r[l - 1].about = n + 1
  BY <1>1 DEF Asks
<1>4. ASSUME NEW i \in Answers(m)
      PROVE  /\ r[i].about \in 1 .. n
             /\ \A j \in Answers(m) : i < j => r[i].about < r[j].about
             /\ i > 1 /\ i < l
             /\ \/ r[i - 1].role = "user" /\ r[i - 1].about = r[i].about
                \/ Summaries /\ r[i - 1].role = "system"
  <2>1. i > 1 /\ i \in 1 .. Len(m)
    BY <1>2 DEF Consistent
  <2>2. r[i - 1] = m[i - 1] /\ i < l
    BY <1>1, <2>1
  <2> QED BY <1>2, <2>1, <2>2 DEF Consistent
<1>5. ASSUME NEW i \in Answers(r)
      PROVE  /\ r[i].about \in 1 .. n + 1
             /\ \A j \in Answers(r) : i < j => r[i].about < r[j].about
             /\ i > 1
             /\ \/ r[i - 1].role = "user" /\ r[i - 1].about = r[i].about
                \/ Summaries /\ r[i - 1].role = "system"
  <2>1. CASE i \in Answers(m)
    <3>1. r[i].about \in 1 .. n /\ r[l].about = n + 1
      BY <1>1, <1>4, <2>1
    <3>2. \A j \in Answers(r) : i < j => r[i].about < r[j].about
      BY <1>2, <1>4, <2>1, <3>1
    <3> QED BY <1>4, <2>1, <3>1, <3>2
  <2>2. CASE i = l
    <3>1. \A j \in Answers(r) : ~ (i < j)
      BY <1>1, <1>2, <1>4, <2>2
    <3> QED BY <1>1, <1>3, <2>2, <3>1
  <2> QED BY <1>2, <2>1, <2>2
<1>6. ASSUME NEW k \in 1 .. n + 1
      PROVE  \/ \E i \in Answers(r) : r[i].about = k
             \/ Summaries /\ \A i \in Answers(r) : k < r[i].about
  <2>1. CASE k = n + 1
    BY <1>1, <1>2, <2>1
  <2>2. CASE k # n + 1
    <3>1. k \in 1 .. n /\ k < r[l].about
      BY <1>1, <2>2
    <3> QED BY <1>2, <3>1 DEF Consistent
  <2> QED BY <2>1, <2>2
<1>7. Consistent(r, n + 1)
  BY <1>5, <1>6 DEF Consistent
<1> QED BY <1>7 DEF r

\* Truncation changes sizes only, and neither the system message in front nor
\* what is not old.
LEMMA Compacts ==
  ASSUME NEW m \in Seq(Messages)
  PROVE  /\ compact(m) \in Seq(Messages)
         /\ Len(compact(m)) = Len(m) /\ DOMAIN compact(m) = DOMAIN m
         /\ \A i \in DOMAIN m : /\ compact(m)[i].role = m[i].role
                                /\ compact(m)[i].about = m[i].about
                                /\ i \notin old(m) => compact(m)[i] = m[i]
<1> DEFINE r == compact(m)
<1>1. Len(m) \in Nat /\ DOMAIN m = 1 .. Len(m)
  BY LenProperties
<1>2. r = [i \in 1 .. Len(m) |->
             IF i \in old(m) /\ m[i].size > 1
               THEN [m[i] EXCEPT !.size = 1] ELSE m[i]]
  BY DEF compact
<1> HIDE DEF r
<1>3. \A i \in 1 .. Len(m) : m[i] \in Messages
  BY ElementOfSeq
<1>4. ASSUME NEW i \in 1 .. Len(m)
      PROVE  /\ r[i] \in Messages
             /\ r[i].role = m[i].role /\ r[i].about = m[i].about
             /\ i \notin old(m) => r[i] = m[i]
  <2>1. m[i] \in Messages
    BY <1>3
  <2>2. [m[i] EXCEPT !.size = 1] \in Messages
    BY <2>1 DEF Messages
  <2>3. r[i] = m[i] \/ (i \in old(m) /\ r[i] = [m[i] EXCEPT !.size = 1])
    BY <1>2
  <2> QED BY <2>1, <2>2, <2>3 DEF Messages
<1>5. r \in [1 .. Len(m) -> Messages]
  BY <1>2, <1>4
<1>6. r \in Seq(Messages)
  BY <1>1, <1>5
<1>7. DOMAIN r = 1 .. Len(m)
  BY <1>2
<1>8. Len(r) = Len(m)
  BY <1>1, <1>6, <1>7, LenProperties
<1> QED BY <1>1, <1>4, <1>6, <1>7, <1>8 DEF r

\* A truncated history has the same answers to the same questions.
LEMMA CompactConsistent ==
  ASSUME NEW m \in Seq(Messages), NEW n, Consistent(m, n)
  PROVE  Consistent(compact(m), n)
<1>1. /\ DOMAIN compact(m) = DOMAIN m
      /\ \A i \in DOMAIN m : /\ compact(m)[i].role = m[i].role
                             /\ compact(m)[i].about = m[i].about
  BY Compacts
<1> QED BY <1>1, SameRoles

\* Where the old messages end.
LEMMA OldEnds ==
  ASSUME NEW m \in Seq(Messages), old(m) # {}
  PROVE  /\ start(m) \in {0, 1}
         /\ start(m) = 1 => m[1].role = "system"
         /\ TailStart(Len(m)) \in start(m) + 2 .. Len(m) + 1
         /\ start(m) <= Len(m)
<1> DEFINE l == Len(m)
           e == SliceEnd(l, l - keep_last)
<1>1. l \in Nat /\ DOMAIN m = 1 .. l
  BY LenProperties
<1>2. e \in 0 .. l
  <2> HIDE DEF l
  <2> QED BY <1>1 DEF SliceEnd
<1>3. start(m) \in {0, 1} /\ (start(m) = 1 => m[1].role = "system")
  BY DEF start
<1>4. start(m) + 1 <= e
  <2>1. start(m) + 1 .. e # {}
    BY DEF old
  <2> HIDE DEF e
  <2> QED BY <1>2, <1>3, <2>1
<1>5. TailStart(l) = e + 1
  BY DEF TailStart
<1> HIDE DEF e, l
<1>6. TailStart(l) \in start(m) + 2 .. l + 1 /\ start(m) <= l
  BY <1>1, <1>2, <1>3, <1>4, <1>5
<1> QED BY <1>3, <1>6 DEF l

\* A summary takes the place of d + 1 messages, after a system message or none;
\* the rest is moved to the front.
LEMMA Summarizes ==
  ASSUME NEW m \in Seq(Messages), NEW size \in Nat, old(m) # {}
  PROVE  LET r == summarize_with(m, size)
             a == start(m)
             d == TailStart(Len(m)) - start(m) - 2
         IN  /\ r \in Seq(Messages) /\ d \in Nat /\ a \in {0, 1}
             /\ Len(m) \in Nat /\ Len(r) = Len(m) - d /\ Len(r) >= a + 1
             /\ a = 1 => r[1] = m[1] /\ m[1].role = "system"
             /\ r[a + 1].role = "system"
             /\ \A i \in a + 2 .. Len(r) : r[i] = m[i + d]
<1> DEFINE a == start(m)
           b == TailStart(Len(m))
           d == b - a - 2
           x == Message("system", 0, size)
           head == SubSeq(m, 1, a)
           tail == SubSeq(m, b, Len(m))
           front == head \o <<x>>
<1>1. Len(m) \in Nat /\ DOMAIN m = 1 .. Len(m)
  BY LenProperties
<1>2. /\ a \in {0, 1} /\ (a = 1 => m[1].role = "system")
      /\ b \in a + 2 .. Len(m) + 1 /\ a <= Len(m)
  BY OldEnds
<1>3. summarize_with(m, size) = front \o tail
  BY DEF summarize_with
<1>4. x \in Messages /\ x.role = "system"
  BY DEF Message, Messages
<1>5. \A i \in 1 .. Len(m) : m[i] \in Messages
  BY ElementOfSeq
<1> HIDE DEF a, b, x
<1>6. head \in Seq(Messages) /\ Len(head) = a /\ (a = 1 => head[1] = m[1])
  <2>1. a \in Int /\ 1 \in Int /\ \A i \in 1 .. a : m[i] \in Messages
    BY <1>1, <1>2, <1>5
  <2>2. /\ SubSeq(m, 1, a) \in Seq(Messages)
        /\ Len(SubSeq(m, 1, a)) = IF 1 <= a THEN a - 1 + 1 ELSE 0
        /\ \A i \in 1 .. a - 1 + 1 : SubSeq(m, 1, a)[i] = m[1 + i - 1]
    BY <2>1, SubSeqProperties
  <2> HIDE DEF head
  <2>3. head = SubSeq(m, 1, a)
    BY DEF head
  <2> QED BY <1>2, <2>2, <2>3
<1>7. /\ tail \in Seq(Messages) /\ Len(tail) = Len(m) - b + 1
      /\ \A i \in 1 .. Len(m) - b + 1 : tail[i] = m[b + i - 1]
  <2>1. b \in Int /\ Len(m) \in Int /\ \A i \in b .. Len(m) : m[i] \in Messages
    BY <1>1, <1>2, <1>5
  <2>2. /\ SubSeq(m, b, Len(m)) \in Seq(Messages)
        /\ Len(SubSeq(m, b, Len(m))) = IF b <= Len(m) THEN Len(m) - b + 1 ELSE 0
        /\ \A i \in 1 .. Len(m) - b + 1 : SubSeq(m, b, Len(m))[i] = m[b + i - 1]
    BY <2>1, SubSeqProperties
  <2> QED BY <1>1, <1>2, <2>2
<1> HIDE DEF head, tail
<1>8. /\ front \in Seq(Messages) /\ Len(front) = a + 1
      /\ (a = 1 => front[1] = m[1]) /\ front[a + 1] = x
  <2>1. <<x>> \in Seq(Messages) /\ Len(<<x>>) = 1 /\ <<x>>[1] = x
    BY <1>4
  <2> DEFINE y == <<x>>
  <2> HIDE DEF y
  <2>2. y \in Seq(Messages) /\ Len(y) = 1 /\ y[1] = x
    BY <2>1 DEF y
  <2>3. /\ head \o y \in Seq(Messages)
        /\ Len(head \o y) = Len(head) + Len(y)
        /\ \A i \in 1 .. Len(head) + Len(y) : (head \o y)[i] =
              IF i <= Len(head) THEN head[i] ELSE y[i - Len(head)]
    <3>1. head \in Seq(Messages) /\ y \in Seq(Messages)
      BY <1>6, <2>2
    <3>2. head \o y \in Seq(Messages) /\ Len(head \o y) = Len(head) + Len(y)
      BY <3>1, ConcatProperties
    <3>3. \A i \in 1 .. Len(head) + Len(y) : (head \o y)[i] =
            IF i <= Len(head) THEN head[i] ELSE y[i - Len(head)]
      BY <3>1, ConcatProperties
    <3> QED BY <3>2, <3>3
  <2>4. front = head \o y
    BY DEF y
  <2> HIDE DEF front
  <2> QED BY <1>2, <1>6, <2>2, <2>3, <2>4
<1> HIDE DEF front
<1> DEFINE r == front \o tail
<1>9. /\ r \in Seq(Messages) /\ Len(r) = Len(front) + Len(tail)
      /\ \A i \in 1 .. Len(front) + Len(tail) : r[i] =
            IF i <= Len(front) THEN front[i] ELSE tail[i - Len(front)]
  <2>1. front \in Seq(Messages) /\ tail \in Seq(Messages)
    BY <1>7, <1>8
  <2>2. r \in Seq(Messages) /\ Len(r) = Len(front) + Len(tail)
    BY <2>1, ConcatProperties
  <2>3. \A i \in 1 .. Len(front) + Len(tail) : r[i] =
          IF i <= Len(front) THEN front[i] ELSE tail[i - Len(front)]
    BY <2>1, ConcatProperties
  <2> QED BY <2>2, <2>3
<1> HIDE DEF r
<1>10. d \in Nat /\ Len(r) = Len(m) - d /\ Len(r) >= a + 1
  BY <1>1, <1>2, <1>7, <1>8, <1>9
<1>11. (a = 1 => r[1] = m[1]) /\ r[a + 1] = x
  BY <1>1, <1>2, <1>7, <1>8, <1>9
<1>12. ASSUME NEW i \in a + 2 .. Len(r)
       PROVE  r[i] = m[i + d]
  <2>1. /\ i \in 1 .. Len(front) + Len(tail) /\ ~ (i <= Len(front))
        /\ i - Len(front) \in 1 .. Len(m) - b + 1
        /\ b + (i - Len(front)) - 1 = i + d
    BY <1>1, <1>2, <1>7, <1>8, <1>9, <1>10
  <2> HIDE DEF d
  <2> QED BY <1>7, <1>9, <2>1
<1>13. r = summarize_with(m, size)
  BY <1>3 DEF r
<1>14. /\ r \in Seq(Messages) /\ d \in Nat /\ a \in {0, 1}
       /\ Len(m) \in Nat /\ Len(r) = Len(m) - d /\ Len(r) >= a + 1
       /\ a = 1 => (r[1] = m[1] /\ m[1].role = "system")
       /\ r[a + 1].role = "system"
       /\ \A i \in a + 2 .. Len(r) : r[i] = m[i + d]
  BY <1>1, <1>2, <1>4, <1>9, <1>10, <1>11, <1>12
<1> QED BY <1>13, <1>14 DEF a, b

\* A summary leaves the answers after those it stands for.
LEMMA SummaryConsistent ==
  ASSUME NEW m \in Seq(Messages), NEW n \in Nat, NEW size \in Nat,
         Summaries, Consistent(m, n)
  PROVE  /\ summarize_with(m, size) \in Seq(Messages)
         /\ Consistent(summarize_with(m, size), n)
<1> DEFINE r == summarize_with(m, size)
           a == start(m)
           d == TailStart(Len(m)) - start(m) - 2
<1>1. CASE old(m) = {}
  BY <1>1 DEF summarize_with
<1>2. CASE old(m) # {}
  <2>1. /\ r \in Seq(Messages) /\ d \in Nat /\ a \in {0, 1}
        /\ Len(m) \in Nat /\ Len(r) = Len(m) - d /\ Len(r) >= a + 1
        /\ a = 1 => (r[1] = m[1] /\ m[1].role = "system")
        /\ r[a + 1].role = "system"
        /\ \A i \in a + 2 .. Len(r) : r[i] = m[i + d]
    BY <1>2, Summarizes
  <2> HIDE DEF r, a, d
  <2>2. DOMAIN r = 1 .. Len(r) /\ DOMAIN m = 1 .. Len(m)
    BY <2>1, LenProperties
  <2>3. ASSUME NEW i \in Answers(r)
        PROVE  i \in a + 2 .. Len(r) /\ r[i] = m[i + d] /\ i + d \in Answers(m)
    <3>1. i \in 1 .. Len(r) /\ r[i].role = "assistant"
      BY <2>2, <2>3 DEF Answers
    <3>2. i # a + 1
      BY <2>1, <3>1
    <3>3. ~ (a = 1 /\ i = 1)
      BY <2>1, <3>1
    <3>4. i \in a + 2 .. Len(r)
      BY <2>1, <3>1, <3>2, <3>3
    <3>5. i + d \in 1 .. Len(m) /\ r[i] = m[i + d]
      BY <2>1, <3>4
    <3> QED BY <2>2, <3>1, <3>4, <3>5 DEF Answers
  <2>4. ASSUME NEW j \in Answers(m), j - d >= a + 2
        PROVE  j - d \in Answers(r) /\ r[j - d] = m[j]
    <3>1. j \in 1 .. Len(m) /\ m[j].role = "assistant"
      BY <2>2 DEF Answers
    <3>2. j - d \in a + 2 .. Len(r) /\ (j - d) + d = j
      BY <2>1, <2>4, <3>1
    <3>3. r[j - d] = m[j]
      BY <2>1, <3>2
    <3>4. j - d \in 1 .. Len(r)
      BY <2>1, <3>2
    <3> QED BY <2>2, <3>1, <3>3, <3>4 DEF Answers
  <2>5. ASSUME NEW i \in Answers(r)
        PROVE  /\ r[i].about \in 1 .. n
               /\ \A j \in Answers(r) : i < j => r[i].about < r[j].about
               /\ i > 1
               /\ \/ r[i - 1].role = "user" /\ r[i - 1].about = r[i].about
                  \/ Summaries /\ r[i - 1].role = "system"
    <3>1. i \in a + 2 .. Len(r) /\ r[i] = m[i + d] /\ i + d \in Answers(m)
      BY <2>3
    <3>2. r[i].about \in 1 .. n
      BY <3>1 DEF Consistent
    <3>3. \A j \in Answers(r) : i < j => r[i].about < r[j].about
      <4> SUFFICES ASSUME NEW j \in Answers(r), i < j
                   PROVE  r[i].about < r[j].about
        OBVIOUS
      <4>1. j \in a + 2 .. Len(r) /\ r[j] = m[j + d] /\ j + d \in Answers(m)
        BY <2>3
      <4>2. i + d < j + d
        BY <2>1, <3>1, <4>1
      <4> QED BY <3>1, <4>1, <4>2 DEF Consistent
    <3>4. i > 1
      BY <2>1, <3>1
    <3>5. CASE i = a + 2
      <4>1. i - 1 = a + 1
        BY <2>1, <3>5
      <4> QED BY <2>1, <3>2, <3>3, <3>4, <4>1
    <3>6. CASE i # a + 2
      <4>1. i - 1 \in a + 2 .. Len(r) /\ (i - 1) + d = (i + d) - 1
        <5>1. a \in Int /\ d \in Int /\ Len(r) \in Int /\ i \in Int
          BY <2>1, <3>1
        <5>2. i >= a + 2 /\ i <= Len(r)
          BY <3>1
        <5> QED BY <3>6, <5>1, <5>2
      <4>2. r[i - 1] = m[(i + d) - 1]
        BY <2>1, <4>1
      <4>3. \/ /\ m[(i + d) - 1].role = "user"
               /\ m[(i + d) - 1].about = m[i + d].about
            \/ Summaries /\ m[(i + d) - 1].role = "system"
        BY <3>1 DEF Consistent
      <4> QED BY <3>1, <3>2, <3>3, <3>4, <4>2, <4>3
    <3> QED BY <3>5, <3>6
  <2>6. ASSUME NEW k \in 1 .. n
        PROVE  \/ \E i \in Answers(r) : r[i].about = k
               \/ Summaries /\ \A i \in Answers(r) : k < r[i].about
    <3>1. CASE \E j \in Answers(m) : m[j].about = k
      <4>1. PICK j \in Answers(m) : m[j].about = k
        BY <3>1
      <4>2. j \in 1 .. Len(m)
        BY <2>2 DEF Answers
      <4>3. CASE j - d >= a + 2
        BY <2>4, <4>1, <4>3
      <4>4. CASE ~ (j - d >= a + 2)
        <5>1. ASSUME NEW i \in Answers(r)
              PROVE  k < r[i].about
          <6>1. /\ i \in a + 2 .. Len(r) /\ r[i] = m[i + d]
                /\ i + d \in Answers(m)
            BY <2>3
          <6>2. j < i + d
            BY <2>1, <4>2, <4>4, <6>1
          <6> QED BY <4>1, <6>1, <6>2 DEF Consistent
        <5> QED BY <5>1
      <4> QED BY <4>3, <4>4
    <3>2. CASE \A j \in Answers(m) : k < m[j].about
      BY <2>3, <3>2
    <3> QED BY <3>1, <3>2 DEF Consistent
  <2>7. Consistent(r, n)
    BY <2>5, <2>6 DEF Consistent
  <2> QED BY <2>1, <2>7 DEF r
<1> QED BY <1>1, <1>2

\* There are three decisions.
LEMMA DecideIsOne ==
  ASSUME NEW b, NEW s, NEW t, NEW m
  PROVE  decide(b, s, t, m).action \in {"continue", "wait", "checkpoint"}
<1> DEFINE w == wait_s(b, s, m)
           soon == Known(w) /\ w <= t
<1> HIDE DEF soon
<1>1. decide(b, s, t, m)
        = CASE ~time_fit(b, s) -> Decision("checkpoint", None)
            [] time_fit(b, s) /\ AllFit(b, s, m) -> Decision("continue", None)
            [] time_fit(b, s) /\ ~AllFit(b, s, m) ->
                  IF soon THEN Decision("wait", w)
                          ELSE Decision("checkpoint", None)
  BY Zenon DEF decide, soon
<1> QED BY <1>1 DEF Decision

\* So are a session's, and a call is let through only if it can be paid for.
LEMMA VerdictIsOne ==
  ASSUME NEW s, NEW tokens, NEW reset, NEW cost
  PROVE  /\ Verdict(s, tokens, reset, cost) \in {"continue", "wait", "checkpoint"}
         /\ Verdict(s, tokens, reset, cost) = "continue" => Affordable(cost)
<1> DEFINE b == [TokenBudget(tokens) EXCEPT !.reset_seconds = reset,
                                            !.remaining_seconds = TimeLeft(s)]
           n == [TokenStep(cost + CeilDiv(safety_k * Sigma, 4))
                   EXCEPT !.latency = Latency]
           d == decide(b, n, WaitThreshold, 0).action
<1>1. Verdict(s, tokens, reset, cost)
        = IF Affordable(cost) THEN d ELSE "checkpoint"
  BY DEF Verdict
<1>2. d \in {"continue", "wait", "checkpoint"}
  <2> HIDE DEF b, n
  <2> QED BY DecideIsOne
<1> HIDE DEF d
<1> QED BY <1>1, <1>2

-----------------------------------------------------------------------------
(* The histories of the sessions.                                          *)

Saved == [step : Nat, messages : Seq(Messages), total : Nat]

\* An agent that has asked has its question as the last message.
Pending == {"asked", "go", "waiting", "calling", "backoff"}

HistoryType ==
    /\ pc \in [Sessions -> Places]
    /\ messages \in [Sessions -> Seq(Messages)]
    /\ step \in [Sessions -> Nat] /\ total_tokens_used \in [Sessions -> Nat]
    /\ stored \in [Sessions -> Saved \cup {None}]

Awaited == \A s \in Sessions : pc[s] \in Pending => Asks(messages[s], step[s] + 1)

HistoryInv == HistoryType /\ NoPhantomSteps /\ Awaited

\* Nothing is asked or saved at first.
LEMMA HistoryInit == Init => HistoryInv
<1> SUFFICES ASSUME Init PROVE HistoryInv
  OBVIOUS
<1>1. HistoryType
  BY EmptyConsistent DEF Init, HistoryType, Places
<1>2. NoPhantomSteps
  BY EmptyConsistent DEF Init, NoPhantomSteps
<1>3. Awaited
  BY DEF Init, Awaited, Pending
<1> QED BY <1>1, <1>2, <1>3 DEF HistoryInv

\* One session's history changes, and stays consistent.
LEMMA OneHistory ==
  ASSUME HistoryInv, NEW s \in Sessions, NEW place \in Places,
         NEW m \in Seq(Messages), NEW n \in Nat, NEW total \in Nat,
         Consistent(m, n), place \in Pending => Asks(m, n + 1),
         pc' = [pc EXCEPT ![s] = place],
         messages' = [messages EXCEPT ![s] = m],
         step' = [step EXCEPT ![s] = n],
         total_tokens_used' = [total_tokens_used EXCEPT ![s] = total],
         stored' = stored
  PROVE  HistoryInv'
<1> USE DEF HistoryInv
<1>1. HistoryType'
  BY DEF HistoryType
<1>2. /\ pc'[s] = place /\ messages'[s] = m /\ step'[s] = n
      /\ \A t \in Sessions \ {s} : /\ pc'[t] = pc[t] /\ step'[t] = step[t]
                                   /\ messages'[t] = messages[t]
  BY DEF HistoryType
<1>3. NoPhantomSteps'
  BY <1>2 DEF NoPhantomSteps
<1>4. Awaited'
  BY <1>2 DEF Awaited
<1> QED BY <1>1, <1>3, <1>4

\* A step that touches no history and asks nothing new.
LEMMA SameHistory ==
  ASSUME HistoryInv, NEW s \in Sessions, NEW place \in Places,
         place \in Pending => pc[s] \in Pending,
         pc' = [pc EXCEPT ![s] = place], UNCHANGED <<logical, stored>>
  PROVE  HistoryInv'
<1>1. /\ messages' = [messages EXCEPT ![s] = messages[s]]
      /\ step' = [step EXCEPT ![s] = step[s]]
      /\ total_tokens_used' = [total_tokens_used EXCEPT ![s] = total_tokens_used[s]]
      /\ stored' = stored
  BY DEF logical, HistoryInv, HistoryType
<1>2. /\ messages[s] \in Seq(Messages) /\ step[s] \in Nat
      /\ total_tokens_used[s] \in Nat
  BY DEF HistoryInv, HistoryType
<1>3. /\ Consistent(messages[s], step[s])
      /\ place \in Pending => Asks(messages[s], step[s] + 1)
  BY DEF HistoryInv, NoPhantomSteps, Awaited
<1> QED BY <1>1, <1>2, <1>3, OneHistory

\* Sessions whose memory is gone have no history.
LEMMA Forgotten ==
  ASSUME HistoryInv, NEW S, Forget(S), \A s \in Sessions \cap S : pc'[s] \notin Pending,
         \A s \in Sessions \ S : pc'[s] = pc[s],
         pc' \in [Sessions -> Places],
         stored' \in [Sessions -> Saved \cup {None}],
         \A s \in Sessions : stored'[s] # None =>
             Consistent(stored'[s].messages, stored'[s].step)
  PROVE  HistoryInv'
<1> USE DEF HistoryInv
<1>1. \A s \in Sessions :
        /\ s \in S => /\ messages'[s] = <<>> /\ step'[s] = 0
                      /\ total_tokens_used'[s] = 0
        /\ s \notin S => /\ messages'[s] = messages[s] /\ step'[s] = step[s]
                         /\ total_tokens_used'[s] = total_tokens_used[s]
  BY DEF Forget
<1>2. HistoryType'
  <2>1. \A s \in Sessions : /\ messages'[s] \in Seq(Messages) /\ step'[s] \in Nat
                            /\ total_tokens_used'[s] \in Nat
    <3> SUFFICES ASSUME NEW s \in Sessions
                 PROVE  /\ messages'[s] \in Seq(Messages) /\ step'[s] \in Nat
                        /\ total_tokens_used'[s] \in Nat
      OBVIOUS
    <3>1. /\ messages[s] \in Seq(Messages) /\ step[s] \in Nat
          /\ total_tokens_used[s] \in Nat
      BY DEF HistoryType
    <3>2. CASE s \in S
      <4>1. messages'[s] = <<>> /\ step'[s] = 0 /\ total_tokens_used'[s] = 0
        BY <1>1, <3>2
      <4>2. <<>> \in Seq(Messages)
        BY EmptyConsistent
      <4> QED BY <4>1, <4>2
    <3>3. CASE s \notin S
      <4>1. /\ messages'[s] = messages[s] /\ step'[s] = step[s]
            /\ total_tokens_used'[s] = total_tokens_used[s]
        BY <1>1, <3>3
      <4> QED BY <3>1, <4>1
    <3> QED BY <3>2, <3>3
  <2>2. /\ messages' \in [Sessions -> Seq(Messages)]
        /\ step' \in [Sessions -> Nat] /\ total_tokens_used' \in [Sessions -> Nat]
    BY <2>1 DEF Forget
  <2> QED BY <2>2 DEF HistoryType
<1>3. NoPhantomSteps'
  BY <1>1, EmptyConsistent DEF NoPhantomSteps
<1>4. Awaited'
  BY <1>1 DEF Awaited
<1> QED BY <1>2, <1>3, <1>4

\* Every step of the loop keeps the histories.
LEMMA HistoryStep == HistoryInv /\ [Next]_vars => HistoryInv'
<1> SUFFICES ASSUME HistoryInv, [Next]_vars
             PROVE  HistoryInv'
  OBVIOUS
<1>0. /\ pc \in [Sessions -> Places]
      /\ messages \in [Sessions -> Seq(Messages)] /\ step \in [Sessions -> Nat]
      /\ total_tokens_used \in [Sessions -> Nat]
      /\ stored \in [Sessions -> Saved \cup {None}]
      /\ NoPhantomSteps /\ Awaited
  BY DEF HistoryInv, HistoryType
<1>1. ASSUME NEW s \in Sessions, session(s)
      PROVE  HistoryInv'
  <2> DEFINE m == Restored(s).messages
             n == Restored(s).step
             total == Restored(s).total
  <2>1. m \in Seq(Messages) /\ n \in Nat /\ total \in Nat /\ Consistent(m, n)
    <3>1. CASE stored[s] = None
      BY <3>1, EmptyConsistent DEF Restored, Blank
    <3>2. CASE stored[s] # None
      <4>1. stored[s] \in Saved
        BY <1>0, <3>2
      <4>2. Consistent(stored[s].messages, stored[s].step)
        BY <1>0, <3>2 DEF NoPhantomSteps
      <4> QED BY <3>2, <4>1, <4>2 DEF Restored, Saved
    <3> QED BY <3>1, <3>2
  <2> HIDE DEF m, n, total
  <2>2. /\ pc' = [pc EXCEPT ![s] = "ready"]
        /\ messages' = [messages EXCEPT ![s] = m]
        /\ step' = [step EXCEPT ![s] = n]
        /\ total_tokens_used' = [total_tokens_used EXCEPT ![s] = total]
        /\ stored' = stored
    BY <1>1 DEF session, Move, m, n, total
  <2>3. "ready" \in Places /\ "ready" \notin Pending
    BY DEF Places, Pending
  <2> QED BY <2>1, <2>2, <2>3, OneHistory
<1>2. ASSUME NEW s \in Sessions, NEW x \in Messages, x.role # "assistant",
             NEW place \in Places,
             place \in Pending => x.role = "user" /\ x.about = step[s] + 1,
             add_message(s, x), pc' = [pc EXCEPT ![s] = place],
             UNCHANGED <<step, total_tokens_used, stored>>
      PROVE  HistoryInv'
  <2> DEFINE m == Append(messages[s], x)
             n == step[s]
             total == total_tokens_used[s]
  <2>1. /\ messages[s] \in Seq(Messages) /\ n \in Nat /\ total \in Nat
        /\ Consistent(messages[s], n)
    BY <1>0 DEF NoPhantomSteps
  <2>2. m \in Seq(Messages) /\ Consistent(m, n)
    BY <1>2, <2>1, Appended, QuestionAppended
  <2>3. place \in Pending => Asks(m, n + 1)
    <3>1. /\ Len(messages[s]) \in Nat /\ Len(m) = Len(messages[s]) + 1
          /\ m[Len(messages[s]) + 1] = x
      BY <1>2, <2>1, AppendProperties, LenProperties
    <3> HIDE DEF m
    <3> QED BY <1>2, <3>1 DEF Asks
  <2>4. /\ messages' = [messages EXCEPT ![s] = m]
        /\ step' = [step EXCEPT ![s] = n]
        /\ total_tokens_used' = [total_tokens_used EXCEPT ![s] = total]
        /\ stored' = stored
    BY <1>0, <1>2 DEF add_message
  <2> HIDE DEF m, n, total
  <2> QED BY <1>2, <2>1, <2>2, <2>3, <2>4, OneHistory
<1>3. ASSUME NEW s \in Sessions, add_system(s)
      PROVE  HistoryInv'
  <2>1. PICK size \in Sizes : add_message(s, Message("system", 0, size))
    BY <1>3 DEF add_system
  <2> DEFINE x == Message("system", 0, size)
  <2>2. x \in Messages /\ x.role = "system" /\ x.role # "assistant"
    BY DEF Message, Messages
  <2>3. /\ pc[s] \in Places /\ pc[s] \notin Pending
        /\ pc' = [pc EXCEPT ![s] = pc[s]]
    BY <1>0, <1>3 DEF add_system, Pending
  <2> HIDE DEF x
  <2>4. add_message(s, x)
    BY <2>1 DEF x
  <2>5. UNCHANGED <<step, total_tokens_used, stored>>
    BY <1>3 DEF add_system
  <2> QED BY <1>2, <2>2, <2>3, <2>4, <2>5
<1>4. ASSUME NEW s \in Sessions, add_user(s)
      PROVE  HistoryInv'
  <2>1. PICK size \in Sizes : add_message(s, Message("user", step[s] + 1, size))
    BY <1>4 DEF add_user
  <2> DEFINE x == Message("user", step[s] + 1, size)
  <2>2. /\ x \in Messages /\ x.role = "user" /\ x.role # "assistant"
        /\ x.about = step[s] + 1
    BY <1>0 DEF Message, Messages
  <2> HIDE DEF x
  <2>3. add_message(s, x)
    BY <2>1 DEF x
  <2>4. "asked" \in Places /\ pc' = [pc EXCEPT ![s] = "asked"]
    BY <1>4 DEF add_user, Move, Places
  <2>5. UNCHANGED <<step, total_tokens_used, stored>>
    BY <1>4 DEF add_user
  <2> QED BY <1>2, <2>2, <2>3, <2>4, <2>5
<1>5. ASSUME NEW s \in Sessions, next_action(s)
      PROVE  HistoryInv'
  <2> DEFINE m == Compacted(messages[s])
             n == step[s]
             total == total_tokens_used[s]
  <2>1. PICK place \in {"go", "waiting", "stop"} : pc' = [pc EXCEPT ![s] = place]
    <3>1. PICK tokens \in Readings, reset \in Resets, epsilon \in Corrections :
            LET cost == _input_tokens(messages'[s]) + MaxTokens + epsilon
                verdict == Verdict(s, tokens, reset, cost)
            IN  Move(s, CASE verdict = "continue"   -> "go"
                          [] verdict = "wait"       -> "waiting"
                          [] verdict = "checkpoint" -> "stop")
      BY <1>5 DEF next_action
    <3> DEFINE verdict == Verdict(s, tokens, reset,
                            _input_tokens(messages'[s]) + MaxTokens + epsilon)
               place == CASE verdict = "continue"   -> "go"
                          [] verdict = "wait"       -> "waiting"
                          [] verdict = "checkpoint" -> "stop"
    <3>2. verdict \in {"continue", "wait", "checkpoint"}
      BY VerdictIsOne
    <3> HIDE DEF verdict
    <3>3. place \in {"go", "waiting", "stop"}
      BY <3>2
    <3>4. pc' = [pc EXCEPT ![s] = place]
      BY <3>1 DEF Move, verdict
    <3> HIDE DEF place
    <3> QED BY <3>3, <3>4
  <2>2. /\ messages[s] \in Seq(Messages) /\ n \in Nat /\ total \in Nat
        /\ Consistent(messages[s], n)
    BY <1>0 DEF NoPhantomSteps
  <2>3. m \in {messages[s], compact(messages[s])}
    BY DEF Compacted
  <2>4. Asks(messages[s], n + 1)
    BY <1>0, <1>5 DEF next_action, Awaited, Pending
  <2>5. m \in Seq(Messages) /\ Consistent(m, n) /\ Asks(m, n + 1)
    <3>1. CASE m = messages[s]
      BY <2>2, <2>4, <3>1
    <3>2. CASE m = compact(messages[s])
      <4> DEFINE c == compact(messages[s])
      <4>1. c \in Seq(Messages) /\ Consistent(c, n)
        BY <2>2, Compacts, CompactConsistent
      <4>2. /\ Len(c) = Len(messages[s])
            /\ \A i \in DOMAIN messages[s] : /\ c[i].role = messages[s][i].role
                                             /\ c[i].about = messages[s][i].about
        BY <2>2, Compacts
      <4> HIDE DEF c
      <4>3. Len(messages[s]) \in DOMAIN messages[s]
        <5>1. /\ Len(messages[s]) \in Nat
              /\ DOMAIN messages[s] = 1 .. Len(messages[s])
          BY <2>2, LenProperties
        <5> QED BY <2>4, <5>1 DEF Asks
      <4>4. Asks(c, n + 1)
        BY <2>4, <4>2, <4>3 DEF Asks
      <4> QED BY <3>2, <4>1, <4>4 DEF c
    <3> QED BY <2>3, <3>1, <3>2
  <2>6. /\ messages' = [messages EXCEPT ![s] = m]
        /\ step' = [step EXCEPT ![s] = n]
        /\ total_tokens_used' = [total_tokens_used EXCEPT ![s] = total]
        /\ stored' = stored
    BY <1>0, <1>5 DEF next_action
  <2> HIDE DEF m, n, total
  <2>7. place \in Places
    BY <2>1 DEF Places
  <2> QED BY <2>1, <2>2, <2>5, <2>6, <2>7, OneHistory
<1>6. ASSUME NEW s \in Sessions, summarize(s)
      PROVE  HistoryInv'
  <2>1. PICK size \in Sizes :
          messages' = [messages EXCEPT ![s] = summarize_with(messages[s], size)]
    BY <1>6 DEF summarize
  <2> DEFINE m == summarize_with(messages[s], size)
             n == step[s]
             total == total_tokens_used[s]
  <2>2. /\ messages[s] \in Seq(Messages) /\ n \in Nat /\ total \in Nat
        /\ Consistent(messages[s], n) /\ Summaries /\ size \in Nat
    BY <1>0, <1>6 DEF NoPhantomSteps, summarize
  <2>3. m \in Seq(Messages) /\ Consistent(m, n)
    BY <2>2, SummaryConsistent
  <2>4. /\ messages' = [messages EXCEPT ![s] = m]
        /\ step' = [step EXCEPT ![s] = n]
        /\ total_tokens_used' = [total_tokens_used EXCEPT ![s] = total]
        /\ stored' = stored
    BY <1>0, <1>6, <2>1 DEF summarize
  <2>5. /\ "stop" \in Places /\ "stop" \notin Pending
        /\ pc' = [pc EXCEPT ![s] = "stop"]
    BY <1>0, <1>6 DEF summarize, Places, Pending
  <2> HIDE DEF m, n, total
  <2> QED BY <2>2, <2>3, <2>4, <2>5, OneHistory
<1>7. ASSUME NEW s \in Sessions, Reply(s)
      PROVE  HistoryInv'
  <2>1. PICK used \in Used, size \in Sizes :
          /\ total_tokens_used' = [total_tokens_used EXCEPT ![s] = @ + used]
          /\ step' = [step EXCEPT ![s] = @ + 1]
          /\ add_message(s, Message("assistant", step'[s], size))
    BY <1>7 DEF Reply
  <2> DEFINE n == step[s] + 1
             x == Message("assistant", n, size)
             m == Append(messages[s], x)
             total == total_tokens_used[s] + used
  <2>2. /\ messages[s] \in Seq(Messages) /\ step[s] \in Nat /\ n \in Nat
        /\ total \in Nat /\ Consistent(messages[s], step[s])
    BY <1>0 DEF NoPhantomSteps
  <2>3. Asks(messages[s], step[s] + 1)
    BY <1>0, <1>7 DEF Reply, Awaited, Pending
  <2>4. x \in Messages /\ x.role = "assistant" /\ x.about = step[s] + 1
    BY <2>2 DEF Message, Messages
  <2> HIDE DEF x
  <2>5. m \in Seq(Messages) /\ Consistent(m, n)
    BY <2>2, <2>3, <2>4, Appended, AnswerAppended
  <2>6. step'[s] = n
    BY <1>0, <2>1
  <2>7. /\ messages' = [messages EXCEPT ![s] = m]
        /\ step' = [step EXCEPT ![s] = n]
        /\ total_tokens_used' = [total_tokens_used EXCEPT ![s] = total]
        /\ stored' = stored
    BY <1>7, <2>1, <2>6 DEF Reply, add_message, x
  <2>8. /\ "ready" \in Places /\ "ready" \notin Pending
        /\ pc' = [pc EXCEPT ![s] = "ready"]
    BY <1>7 DEF Reply, Move, Places, Pending
  <2> HIDE DEF m, n, total
  <2> QED BY <2>2, <2>5, <2>7, <2>8, OneHistory
<1>8. ASSUME NEW s \in Sessions,
             Waited(s) \/ call(s) \/ RateLimited(s) \/ Failed(s) \/ Slept(s)
      PROVE  HistoryInv'
  <2>1. PICK place \in {"asked", "calling", "backoff", "raised"} :
          pc[s] \in Pending /\ pc' = [pc EXCEPT ![s] = place]
    BY <1>8 DEF Waited, call, RateLimited, Failed, Slept, Retry, Move, Pending
  <2>2. UNCHANGED <<logical, stored>>
    BY <1>8 DEF Waited, call, RateLimited, Failed, Slept
  <2>3. place \in Places
    BY <2>1 DEF Places
  <2> QED BY <2>1, <2>2, <2>3, SameHistory
<1>9. ASSUME NEW s \in Sessions, checkpoint(s) \/ complete(s)
      PROVE  HistoryInv'
  <2> DEFINE saved == [step |-> step[s], messages |-> messages[s],
                       total |-> total_tokens_used[s]]
  <2>1. /\ saved \in Saved /\ saved.step = step[s] /\ saved.messages = messages[s]
    BY <1>0 DEF Saved
  <2>2. Consistent(messages[s], step[s])
    BY <1>0 DEF NoPhantomSteps
  <2>3. \/ stored' = [stored EXCEPT ![s] = saved]
        \/ stored' = [stored EXCEPT ![s] = None]
    BY <1>9 DEF checkpoint, complete
  <2> HIDE DEF saved
  <2>4. stored' \in [Sessions -> Saved \cup {None}]
    BY <1>0, <2>1, <2>3
  <2>5. \A t \in Sessions : stored'[t] # None =>
          Consistent(stored'[t].messages, stored'[t].step)
    <3> SUFFICES ASSUME NEW t \in Sessions, stored'[t] # None
                 PROVE  Consistent(stored'[t].messages, stored'[t].step)
      OBVIOUS
    <3>1. CASE t = s
      <4>1. stored'[t] = saved
        BY <1>0, <2>3, <3>1
      <4> QED BY <2>1, <2>2, <4>1
    <3>2. CASE t # s
      <4>1. stored'[t] = stored[t]
        BY <1>0, <2>3, <3>2
      <4> QED BY <1>0, <4>1 DEF NoPhantomSteps
    <3> QED BY <3>1, <3>2
  <2>6. PICK place \in {"out", "done"} : pc' = [pc EXCEPT ![s] = place]
    BY <1>9 DEF checkpoint, complete, Move
  <2>7. Forget({s})
    BY <1>9 DEF checkpoint, complete
  <2>8. /\ pc' \in [Sessions -> Places]
        /\ \A t \in Sessions \cap {s} : pc'[t] \notin Pending
        /\ \A t \in Sessions \ {s} : pc'[t] = pc[t]
    BY <1>0, <2>6 DEF Places, Pending
  <2> QED BY <2>4, <2>5, <2>7, <2>8, Forgotten
<1>10. CASE Exit
  <2>1. /\ Forget(Sessions) /\ stored' = stored
        /\ pc' = [s \in Sessions |-> IF pc[s] = "done" THEN "done" ELSE "out"]
    BY <1>10 DEF Exit
  <2>2. /\ pc' \in [Sessions -> Places]
        /\ \A t \in Sessions \cap Sessions : pc'[t] \notin Pending
        /\ \A t \in Sessions \ Sessions : pc'[t] = pc[t]
    BY <2>1 DEF Places, Pending
  <2>3. \A t \in Sessions : stored'[t] # None =>
          Consistent(stored'[t].messages, stored'[t].step)
    BY <1>0, <2>1 DEF NoPhantomSteps
  <2> QED BY <1>0, <2>1, <2>2, <2>3, Forgotten
<1>11. CASE UNCHANGED <<pc, logical, stored>>
  BY <1>0, <1>11 DEF logical, HistoryInv, HistoryType, NoPhantomSteps, Awaited
<1>12. Tick \/ UNCHANGED vars => UNCHANGED <<pc, logical, stored>>
  BY DEF Tick, vars
<1> QED BY <1>1, <1>3, <1>4, <1>5, <1>6, <1>7, <1>8, <1>9, <1>10, <1>11, <1>12
        DEF Next, Backend

\* No phantom steps, for any number of sessions, calls in parallel or not: in
\* memory and in the store, the history has one answer for each step counted.
THEOREM HistoriesAgree == Spec => []NoPhantomSteps
<1>1. HistoryInv => NoPhantomSteps
  BY DEF HistoryInv
<1> QED BY <1>1, HistoryInit, HistoryStep, PTL DEF Spec

-----------------------------------------------------------------------------
(* Failing calls.                                                          *)

\* A call that fails, now or after retries, and every sleep on the way leave
\* the session's history, step counter and total as they were.
THEOREM CleanFailures == Spec => CleanFailure
<1> DEFINE Kept(s) == /\ messages'[s] = messages[s] /\ step'[s] = step[s]
                      /\ total_tokens_used'[s] = total_tokens_used[s]
           Failing == \A s \in Sessions :
              /\ pc[s] \in {"calling", "backoff"}
              /\ pc'[s] \in {"calling", "backoff", "raised"}
              => Kept(s)
<1>1. HistoryInv /\ [Next]_vars => Failing
  <2> SUFFICES ASSUME HistoryInv, [Next]_vars, NEW s \in Sessions,
                      pc[s] \in {"calling", "backoff"},
                      pc'[s] \in {"calling", "backoff", "raised"}
               PROVE  Kept(s)
    OBVIOUS
  <2>0. /\ pc \in [Sessions -> Places]
        /\ messages \in [Sessions -> Seq(Messages)] /\ step \in [Sessions -> Nat]
        /\ total_tokens_used \in [Sessions -> Nat]
    BY DEF HistoryInv, HistoryType
  <2>1. ASSUME NEW t \in Sessions, session(t)
        PROVE  Kept(s)
    BY <2>0, <2>1 DEF session, Move
  <2>2. ASSUME NEW t \in Sessions, add_system(t) \/ add_user(t)
        PROVE  Kept(s)
    BY <2>0, <2>2 DEF add_system, add_user, add_message
  <2>3. ASSUME NEW t \in Sessions, next_action(t)
        PROVE  Kept(s)
    <3>1. /\ pc[t] = "asked" /\ UNCHANGED <<step, total_tokens_used>>
          /\ messages' = [messages EXCEPT ![t] = Compacted(@)]
      BY <2>3 DEF next_action
    <3> QED BY <2>0, <3>1
  <2>4. ASSUME NEW t \in Sessions, summarize(t)
        PROVE  Kept(s)
    BY <2>0, <2>4 DEF summarize
  <2>5. ASSUME NEW t \in Sessions, checkpoint(t) \/ complete(t)
        PROVE  Kept(s)
    BY <2>0, <2>5 DEF checkpoint, complete, Forget
  <2>6. ASSUME NEW t \in Sessions, Reply(t)
        PROVE  Kept(s)
    BY <2>0, <2>6 DEF Reply, add_message, Move
  <2>7. ASSUME UNCHANGED logical
        PROVE  Kept(s)
    BY <2>7 DEF logical
  <2>8. ASSUME NEW t \in Sessions,
               Waited(t) \/ call(t) \/ RateLimited(t) \/ Failed(t) \/ Slept(t)
        PROVE  Kept(s)
    BY <2>7, <2>8 DEF Waited, call, RateLimited, Failed, Slept
  <2>9. ~ Exit
    <3>1. ASSUME Exit PROVE pc'[s] \in {"out", "done"}
      BY <3>1 DEF Exit
    <3> QED BY <3>1
  <2>10. Tick \/ UNCHANGED vars => UNCHANGED logical
    BY DEF Tick, vars
  <2> QED BY <2>1, <2>2, <2>3, <2>4, <2>5, <2>6, <2>7, <2>8, <2>9, <2>10
          DEF Next, Backend
<1> HIDE DEF Failing
<1>2. Failing => \A s \in Sessions :
          /\ pc[s] \in {"calling", "backoff"}
          /\ pc'[s] \in {"calling", "backoff", "raised"}
          => /\ messages'[s] = messages[s] /\ step'[s] = step[s]
             /\ total_tokens_used'[s] = total_tokens_used[s]
  BY DEF Failing
<1> QED BY <1>1, <1>2, HistoryInit, HistoryStep, PTL DEF Spec, CleanFailure

-----------------------------------------------------------------------------
(* The spending cap.                                                       *)

\* The tokens of a history are a number.
LEMMA InputTokens ==
  ASSUME NEW m \in Seq(Messages)
  PROVE  _input_tokens(m) \in Nat
<1> DEFINE f == [i \in DOMAIN m |-> m[i].size]
           pile == [i \in DOMAIN m |-> {i} \X (1 .. f[i])]
           piles == {{i} \X (1 .. f[i]) : i \in DOMAIN m}
<1>1. Len(m) \in Nat /\ DOMAIN m = 1 .. Len(m)
  BY LenProperties
<1>2. \A i \in DOMAIN m : f[i] \in Nat
  <2>1. \A i \in DOMAIN m : m[i] \in Messages
    BY <1>1, ElementOfSeq
  <2> QED BY <2>1 DEF Messages
<1> HIDE DEF f
<1>3. IsFiniteSet(DOMAIN m)
  BY <1>1, FS_Interval
<1>4. IsFiniteSet(piles)
  <2>1. pile \in Surjection(DOMAIN m, piles)
    BY DEF Surjection
  <2> HIDE DEF pile, piles
  <2> QED BY <1>3, <2>1, FS_Surjection
<1>5. \A p \in piles : IsFiniteSet(p)
  <2> SUFFICES ASSUME NEW i \in DOMAIN m
               PROVE  IsFiniteSet({i} \X (1 .. f[i]))
    OBVIOUS
  <2>1. f[i] \in Nat
    BY <1>2
  <2>2. IsFiniteSet(1 .. f[i])
    BY <2>1, FS_Interval
  <2>3. IsFiniteSet({i})
    BY FS_Singleton
  <2> QED BY <2>2, <2>3, FS_Product
<1>6. IsFiniteSet(UNION piles)
  <2> HIDE DEF piles
  <2> QED BY <1>4, <1>5, FS_UNION
<1>7. Cardinality(UNION piles) \in Nat
  <2> HIDE DEF piles
  <2> QED BY <1>6, FS_CardinalityType
<1>8. _input_tokens(m) = Cardinality(UNION piles)
  BY DEF _input_tokens, Total, TokensOf, f
<1> QED BY <1>7, <1>8

\* Calls follow one another.
OneAtATime == ~ Parallel

InTurn == {"asked", "go", "stop", "waiting", "calling", "backoff"}

\* One agent's iteration ends before another's begins.
OneTurn ==
    \A s, t \in Sessions : pc[s] \in InTurn /\ pc[t] \in InTurn => s = t

\* A call let through is paid for by what is left.
Funded ==
    \A s \in Sessions :
        pc[s] \in {"go", "calling", "backoff"} /\ Known(MoneyBudget) =>
            money_spent + estimated[s] <= MoneyBudget

CapInv ==
    /\ money_spent \in Nat /\ estimated \in [Sessions -> Int]
    /\ OneTurn /\ Funded /\ MoneyCap

\* Nothing is spent at first.
LEMMA CapInit == Init => CapInv
<1> SUFFICES ASSUME Init PROVE CapInv
  OBVIOUS
<1>1. /\ money_spent = 0 /\ estimated = [s \in Sessions |-> 0]
      /\ pc = [s \in Sessions |-> "out"]
  BY DEF Init
<1>2. Known(MoneyBudget) => MoneyBudget \in Nat
  BY DEF Known
<1> QED BY <1>1, <1>2 DEF CapInv, OneTurn, InTurn, Funded, MoneyCap

\* A step that spends nothing and lets no other call through.
LEMMA CapKept ==
  ASSUME CapInv, money_spent' = money_spent,
         estimated' \in [Sessions -> Int],
         \A s \in Sessions : pc'[s] \in InTurn => pc[s] \in InTurn,
         \A s \in Sessions : pc'[s] \in {"go", "calling", "backoff"} =>
            /\ pc[s] \in {"go", "calling", "backoff"}
            /\ estimated'[s] = estimated[s]
  PROVE  CapInv'
<1>1. OneTurn'
  BY DEF CapInv, OneTurn
<1>2. Funded'
  BY DEF CapInv, Funded
<1>3. MoneyCap'
  BY DEF CapInv, MoneyCap
<1> QED BY <1>1, <1>2, <1>3 DEF CapInv

\* Every step of calls one after the other keeps the cap.
LEMMA CapStep ==
  ASSUME OneAtATime
  PROVE  HistoryInv /\ HistoryInv' /\ CapInv /\ [Next]_vars => CapInv'
<1> SUFFICES ASSUME HistoryInv, HistoryInv', CapInv, [Next]_vars
             PROVE  CapInv'
  OBVIOUS
<1>0. /\ pc \in [Sessions -> Places]
      /\ money_spent \in Nat /\ estimated \in [Sessions -> Int]
      /\ OneTurn /\ Funded /\ MoneyCap
  BY DEF HistoryInv, HistoryType, CapInv
<1>1. Known(MoneyBudget) => MoneyBudget \in Nat
  BY DEF Known
<1>2. ASSUME NEW s \in Sessions, Turn(s), NEW t \in Sessions, pc[t] \in InTurn
      PROVE  t = s
  BY <1>2 DEF OneAtATime, Turn, InTurn
<1>3. ASSUME NEW s \in Sessions, NEW place \in Places,
             pc' = [pc EXCEPT ![s] = place], money_spent' = money_spent,
             place \in InTurn => pc[s] \in InTurn,
             place \in {"go", "calling", "backoff"} =>
                /\ pc[s] \in {"go", "calling", "backoff"}
                /\ estimated'[s] = estimated[s],
             estimated' \in [Sessions -> Int],
             \A t \in Sessions \ {s} : estimated'[t] = estimated[t]
      PROVE  CapInv'
  <2>1. pc'[s] = place /\ \A t \in Sessions \ {s} : pc'[t] = pc[t]
    BY <1>0, <1>3
  <2>2. \A t \in Sessions : pc'[t] \in InTurn => pc[t] \in InTurn
    BY <1>3, <2>1
  <2>3. \A t \in Sessions : pc'[t] \in {"go", "calling", "backoff"} =>
            /\ pc[t] \in {"go", "calling", "backoff"}
            /\ estimated'[t] = estimated[t]
    BY <1>3, <2>1
  <2> QED BY <1>3, <2>2, <2>3, CapKept
<1>4. ASSUME NEW s \in Sessions, session(s)
      PROVE  CapInv'
  <2>1. /\ pc' = [pc EXCEPT ![s] = "ready"] /\ money_spent' = money_spent
        /\ estimated' = [estimated EXCEPT ![s] = 0]
    BY <1>4 DEF session, Move, scheduler
  <2>2. estimated' \in [Sessions -> Int]
        /\ \A t \in Sessions \ {s} : estimated'[t] = estimated[t]
    BY <1>0, <2>1
  <2> QED BY <2>1, <2>2, <1>3 DEF Places, InTurn
<1>5. ASSUME NEW s \in Sessions, add_system(s) \/ summarize(s)
      PROVE  CapInv'
  <2>1. UNCHANGED <<pc, estimated, money_spent>>
    BY <1>5 DEF add_system, summarize, scheduler
  <2> QED BY <1>0, <2>1, CapKept
<1>6. ASSUME NEW s \in Sessions, Turn(s), pc[s] \notin {"go", "calling", "backoff"},
             NEW place \in InTurn, pc' = [pc EXCEPT ![s] = place],
             money_spent' = money_spent, estimated' \in [Sessions -> Int],
             place \in {"go", "calling", "backoff"} /\ Known(MoneyBudget) =>
                money_spent + estimated'[s] <= MoneyBudget
      PROVE  CapInv'
  <2>1. pc'[s] = place /\ \A t \in Sessions \ {s} : pc'[t] = pc[t]
    BY <1>0, <1>6
  <2>2. \A t \in Sessions : pc'[t] \in InTurn => t = s
    BY <1>2, <1>6, <2>1
  <2>3. OneTurn'
    BY <2>2 DEF OneTurn
  <2>4. Funded'
    <3>1. \A t \in Sessions :
            pc'[t] \in {"go", "calling", "backoff"} => t = s
      BY <2>2 DEF InTurn
    <3> QED BY <1>6, <2>1, <3>1 DEF Funded
  <2>5. MoneyCap'
    BY <1>0, <1>6 DEF MoneyCap
  <2> QED BY <1>0, <1>6, <2>3, <2>4, <2>5 DEF CapInv
<1>7. ASSUME NEW s \in Sessions, add_user(s)
      PROVE  CapInv'
  <2>1. /\ pc[s] = "ready" /\ Turn(s) /\ pc' = [pc EXCEPT ![s] = "asked"]
        /\ money_spent' = money_spent /\ estimated' = estimated
    BY <1>7 DEF add_user, Move, scheduler
  <2> QED BY <1>0, <2>1, <1>6 DEF InTurn
<1>8. ASSUME NEW s \in Sessions, next_action(s)
      PROVE  CapInv'
  <2>1. PICK tokens \in Readings, reset \in Resets, epsilon \in Corrections :
          LET cost == _input_tokens(messages'[s]) + MaxTokens + epsilon
              verdict == Verdict(s, tokens, reset, cost)
          IN  /\ estimated' = [estimated EXCEPT ![s] =
                                 IF verdict = "continue" THEN cost ELSE 0]
              /\ Move(s, CASE verdict = "continue"   -> "go"
                           [] verdict = "wait"       -> "waiting"
                           [] verdict = "checkpoint" -> "stop")
    BY <1>8 DEF next_action
  <2> DEFINE cost == _input_tokens(messages'[s]) + MaxTokens + epsilon
             verdict == Verdict(s, tokens, reset, cost)
             place == CASE verdict = "continue"   -> "go"
                        [] verdict = "wait"       -> "waiting"
                        [] verdict = "checkpoint" -> "stop"
  <2>2. cost \in Int
    <3>1. messages'[s] \in Seq(Messages)
      BY DEF HistoryInv, HistoryType
    <3>2. _input_tokens(messages'[s]) \in Nat
      BY <3>1, InputTokens
    <3>3. MaxTokens \in Int /\ epsilon \in Int
      OBVIOUS
    <3> QED BY <3>2, <3>3
  <2>3. /\ estimated' = [estimated EXCEPT ![s] =
                           IF verdict = "continue" THEN cost ELSE 0]
        /\ pc' = [pc EXCEPT ![s] = place]
    BY <2>1 DEF Move
  <2> HIDE DEF cost
  <2>4. verdict = "continue" => Affordable(cost)
    <3> DEFINE b == [TokenBudget(tokens) EXCEPT !.reset_seconds = reset,
                                                !.remaining_seconds = TimeLeft(s)]
               n == [TokenStep(cost + CeilDiv(safety_k * Sigma, 4))
                       EXCEPT !.latency = Latency]
               action == decide(b, n, WaitThreshold, 0).action
    <3>1. verdict = IF Affordable(cost) THEN action ELSE "checkpoint"
      BY DEF Verdict
    <3> HIDE DEF action, verdict
    <3> QED BY <3>1
  <2>5. verdict \in {"continue", "wait", "checkpoint"}
    BY VerdictIsOne
  <2> HIDE DEF verdict
  <2>6. place \in {"go", "waiting", "stop"} /\ (place = "go" => verdict = "continue")
    BY <2>5
  <2> HIDE DEF place
  <2>7. estimated' \in [Sessions -> Int]
    BY <1>0, <2>2, <2>3
  <2>8. place = "go" /\ Known(MoneyBudget) =>
           money_spent + estimated'[s] <= MoneyBudget
    <3> SUFFICES ASSUME place = "go", Known(MoneyBudget)
                 PROVE  money_spent + estimated'[s] <= MoneyBudget
      OBVIOUS
    <3>1. estimated'[s] = cost
      BY <1>0, <2>3, <2>6
    <3>2. cost <= MoneyBudget - money_spent
      BY <2>4, <2>6 DEF Affordable, money_remaining
    <3> QED BY <1>0, <1>1, <2>2, <3>1, <3>2
  <2>9. pc[s] = "asked" /\ Turn(s) /\ money_spent' = money_spent
    BY <1>8 DEF next_action, scheduler
  <2> QED BY <2>3, <2>6, <2>7, <2>8, <2>9, <1>6 DEF InTurn
<1>9. ASSUME NEW s \in Sessions, Waited(s) \/ call(s) \/ Slept(s)
                                 \/ RateLimited(s) \/ Failed(s)
      PROVE  CapInv'
  <2>1. PICK place \in {"asked", "calling", "backoff", "raised"} :
          /\ pc' = [pc EXCEPT ![s] = place]
          /\ pc[s] \in InTurn
          /\ place \in {"calling", "backoff"} =>
               pc[s] \in {"go", "calling", "backoff"}
    BY <1>9 DEF Waited, call, Slept, RateLimited, Failed, Retry, Move, InTurn
  <2>2. money_spent' = money_spent /\ estimated' = estimated
    BY <1>9 DEF Waited, call, Slept, RateLimited, Failed, scheduler
  <2>3. place \in Places
    BY <2>1 DEF Places
  <2> QED BY <1>0, <2>1, <2>2, <2>3, <1>3
<1>10. ASSUME NEW s \in Sessions, checkpoint(s) \/ complete(s)
       PROVE  CapInv'
  <2>1. PICK place \in {"out", "done"} : pc' = [pc EXCEPT ![s] = place]
    BY <1>10 DEF checkpoint, complete, Move
  <2>2. /\ money_spent' = money_spent
        /\ estimated' = [t \in Sessions |->
                           IF t \in {s} THEN 0 ELSE estimated[t]]
    BY <1>10 DEF checkpoint, complete, Forget, scheduler
  <2>3. estimated' \in [Sessions -> Int]
        /\ \A t \in Sessions \ {s} : estimated'[t] = estimated[t]
    BY <1>0, <2>2
  <2>4. place \in Places /\ place \notin InTurn
    BY <2>1 DEF Places, InTurn
  <2> QED BY <2>1, <2>2, <2>3, <2>4, <1>3 DEF InTurn
<1>11. ASSUME NEW s \in Sessions, Reply(s)
       PROVE  CapInv'
  <2>1. PICK used \in Used :
          /\ used <= estimated[s]
          /\ money_spent' = IF Known(MoneyBudget) THEN money_spent + used
                                                  ELSE money_spent
    BY <1>11 DEF Reply
  <2>2. /\ pc[s] = "calling" /\ pc' = [pc EXCEPT ![s] = "ready"]
        /\ estimated' = [estimated EXCEPT ![s] = 0]
    BY <1>11 DEF Reply, Move
  <2>3. \A t \in Sessions : pc[t] \in InTurn => t = s
    BY <1>0, <2>2 DEF OneTurn, InTurn
  <2>4. \A t \in Sessions : pc'[t] \notin InTurn
    BY <1>0, <2>2, <2>3 DEF InTurn
  <2>5. OneTurn'
    BY <2>4 DEF OneTurn
  <2>6. Funded'
    BY <2>4 DEF Funded, InTurn
  <2>7. Known(MoneyBudget) => money_spent + estimated[s] <= MoneyBudget
    BY <1>0, <2>2 DEF Funded
  <2>8. MoneyCap'
    <3>1. used \in Nat /\ estimated[s] \in Int
      BY <1>0
    <3> QED BY <1>0, <1>1, <2>1, <2>7, <3>1 DEF MoneyCap
  <2>9. money_spent' \in Nat /\ estimated' \in [Sessions -> Int]
    BY <1>0, <2>1, <2>2
  <2> QED BY <2>5, <2>6, <2>8, <2>9 DEF CapInv
<1>12. CASE Exit
  <2>1. /\ money_spent' = 0
        /\ estimated' = [s \in Sessions |->
                           IF s \in Sessions THEN 0 ELSE estimated[s]]
        /\ pc' = [s \in Sessions |-> IF pc[s] = "done" THEN "done" ELSE "out"]
    BY <1>12 DEF Exit, Forget
  <2>2. \A s \in Sessions : pc'[s] \in {"out", "done"}
    BY <2>1
  <2>3. OneTurn' /\ Funded'
    BY <2>2 DEF OneTurn, Funded, InTurn
  <2>4. MoneyCap'
    BY <1>1, <2>1 DEF MoneyCap
  <2>5. money_spent' \in Nat /\ estimated' \in [Sessions -> Int]
    BY <2>1
  <2> QED BY <2>3, <2>4, <2>5 DEF CapInv
<1>13. CASE Tick \/ UNCHANGED vars
  <2>1. UNCHANGED <<pc, estimated, money_spent>>
    BY <1>13 DEF Tick, vars, scheduler
  <2> QED BY <1>0, <2>1, CapKept
<1> QED BY <1>4, <1>5, <1>7, <1>8, <1>9, <1>10, <1>11, <1>12, <1>13
        DEF Next, Backend

\* The spending cap holds for any number of agents that call one at a time,
\* through retries, crashes and resumptions: what a process spends stays
\* within its budget as long as no call uses more than was estimated.
THEOREM CapHolds == ASSUME OneAtATime PROVE Spec => []MoneyCap
<1>1. CapInv => MoneyCap
  BY DEF CapInv
<1> QED BY <1>1, HistoryInit, HistoryStep, CapInit, CapStep, PTL DEF Spec

-----------------------------------------------------------------------------
(* Shrinking a history.                                                    *)

\* What is recent is not old: the slice's end is not counted from the end, or is
\* cut off at the front.
LEMMA RecentIsNotOld ==
  ASSUME NEW m \in Seq(Messages), LongOrShort(m)
  PROVE  /\ \A i \in 0 .. Lesser(keep_last, Len(m)) - 1 : Len(m) - i \notin old(m)
         /\ old(m) # {} => TailStart(Len(m)) = Len(m) - keep_last + 1
<1> DEFINE l == Len(m)
           e == SliceEnd(l, l - keep_last)
<1>1. l \in Nat
  BY LenProperties
<1>2. start(m) \in {0, 1} /\ old(m) = start(m) + 1 .. e /\ TailStart(l) = e + 1
  BY DEF old, start, TailStart
<1>3. keep_last <= l \/ 2 * l <= keep_last
  BY DEF LongOrShort
<1> HIDE DEF l
<1>4. e = l - keep_last \/ e = 0
  BY <1>1, <1>3 DEF SliceEnd
<1> HIDE DEF e
<1>5. CASE e = 0
  <2>1. old(m) = {}
    BY <1>2, <1>5
  <2> QED BY <2>1
<1>6. CASE e = l - keep_last
  <2>1. \A i \in 0 .. Lesser(keep_last, l) - 1 : l - i > e /\ l - i \in Int
    BY <1>1, <1>6 DEF Lesser
  <2>2. \A i \in 0 .. Lesser(keep_last, l) - 1 : l - i \notin old(m)
    BY <1>1, <1>2, <1>6, <2>1
  <2>3. TailStart(l) = l - keep_last + 1
    BY <1>2, <1>6
  <2> QED BY <2>2, <2>3 DEF l
<1> QED BY <1>4, <1>5, <1>6

\* A history left as it is keeps its ends.
LEMMA SameEnds == ASSUME NEW m \in Seq(Messages) PROVE KeepsEnds(m, m)
<1>1. Len(m) \in Nat
  BY LenProperties
<1> QED BY <1>1 DEF KeepsEnds, Lesser

\* Truncation keeps the ends.
LEMMA CompactKeeps ==
  ASSUME NEW m \in Seq(Messages), LongOrShort(m)
  PROVE  KeepsEnds(m, compact(m))
<1> DEFINE r == compact(m)
<1>1. /\ Len(r) = Len(m)
      /\ \A i \in DOMAIN m : i \notin old(m) => r[i] = m[i]
  BY Compacts
<1> HIDE DEF r
<1>2. Len(m) \in Nat /\ DOMAIN m = 1 .. Len(m) /\ (m # <<>> => Len(m) > 0)
  <2>1. Len(m) \in Nat /\ DOMAIN m = 1 .. Len(m)
    BY LenProperties
  <2>2. m # <<>> => Len(m) # 0
    BY EmptySeq
  <2> QED BY <2>1, <2>2
<1>3. m # <<>> /\ m[1].role = "system" => r[1] = m[1]
  <2> SUFFICES ASSUME m # <<>>, m[1].role = "system"
               PROVE  r[1] = m[1]
    OBVIOUS
  <2>1. start(m) = 1
    BY DEF start
  <2>2. 1 \notin old(m)
    BY <2>1 DEF old
  <2> QED BY <1>1, <1>2, <2>2
<1>4. ASSUME NEW i \in 0 .. Lesser(keep_last, Len(m)) - 1
      PROVE  i < Len(r) /\ r[Len(r) - i] = m[Len(m) - i]
  <2>1. i < Len(m) /\ Len(m) - i \in DOMAIN m
    BY <1>2 DEF Lesser
  <2>2. Len(m) - i \notin old(m)
    BY RecentIsNotOld
  <2> QED BY <1>1, <2>1, <2>2
<1>5. KeepsEnds(m, r)
  BY <1>3, <1>4 DEF KeepsEnds
<1> QED BY <1>5 DEF r

\* A summary keeps the ends.
LEMMA SummaryKeeps ==
  ASSUME NEW m \in Seq(Messages), NEW size \in Nat, LongOrShort(m)
  PROVE  KeepsEnds(m, summarize_with(m, size))
<1> DEFINE r == summarize_with(m, size)
           a == start(m)
           d == TailStart(Len(m)) - start(m) - 2
<1>1. CASE old(m) = {}
  <2>1. r = m
    BY <1>1 DEF summarize_with
  <2> QED BY <2>1, SameEnds
<1>2. CASE old(m) # {}
  <2>1. /\ d \in Nat /\ a \in {0, 1}
        /\ Len(m) \in Nat /\ Len(r) = Len(m) - d
        /\ a = 1 => r[1] = m[1]
        /\ \A i \in a + 2 .. Len(r) : r[i] = m[i + d]
    BY <1>2, Summarizes
  <2>2. TailStart(Len(m)) = Len(m) - keep_last + 1
    BY <1>2, RecentIsNotOld
  <2>3. d = Len(m) - keep_last - a - 1
    BY <2>1, <2>2
  <2>4. m # <<>> /\ m[1].role = "system" => a = 1
    BY DEF start
  <2> HIDE DEF r, a, d
  <2>5. ASSUME NEW i \in 0 .. Lesser(keep_last, Len(m)) - 1
        PROVE  i < Len(r) /\ r[Len(r) - i] = m[Len(m) - i]
    <3>1. /\ i < keep_last /\ i \in Nat /\ Len(r) = keep_last + a + 1
      BY <2>1, <2>3 DEF Lesser
    <3>2. /\ i < Len(r) /\ Len(r) - i \in a + 2 .. Len(r)
          /\ Len(r) - i + d = Len(m) - i
      BY <2>1, <2>3, <3>1
    <3>3. r[Len(r) - i] = m[Len(r) - i + d]
      BY <2>1, <3>2
    <3> QED BY <3>2, <3>3
  <2>6. KeepsEnds(m, r)
    BY <2>1, <2>4, <2>5 DEF KeepsEnds
  <2> QED BY <2>6 DEF r
<1> QED BY <1>1, <1>2

\* The step from `asked' or `stop' shrinks the history or leaves it alone.
LEMMA ShrinksOnly ==
  ASSUME HistoryInv, [Next]_vars, NEW s \in Sessions,
         pc[s] \in {"asked", "stop"}, pc'[s] \in {"go", "stop", "waiting"}
  PROVE  \/ messages'[s] \in {messages[s], compact(messages[s])}
         \/ \E size \in Nat : messages'[s] = summarize_with(messages[s], size)
<1>0. /\ pc \in [Sessions -> Places]
      /\ messages \in [Sessions -> Seq(Messages)]
  BY DEF HistoryInv, HistoryType
<1> DEFINE Same == messages'[s] = messages[s]
<1>1. ASSUME NEW t \in Sessions, session(t)
      PROVE  Same
  BY <1>0, <1>1 DEF session
<1>2. ASSUME NEW t \in Sessions, add_system(t) \/ add_user(t)
      PROVE  Same
  BY <1>0, <1>2 DEF add_system, add_user, add_message
<1>3. ASSUME NEW t \in Sessions, next_action(t)
      PROVE  messages'[s] \in {messages[s], compact(messages[s])}
  <2>1. messages' = [messages EXCEPT ![t] = Compacted(@)]
    BY <1>3 DEF next_action
  <2>2. Compacted(messages[s]) \in {messages[s], compact(messages[s])}
    BY DEF Compacted
  <2> QED BY <1>0, <2>1, <2>2
<1>4. ASSUME NEW t \in Sessions, summarize(t)
      PROVE  \/ Same
             \/ \E size \in Nat : messages'[s] = summarize_with(messages[s], size)
  <2>1. PICK size \in Sizes :
          messages' = [messages EXCEPT ![t] = summarize_with(@, size)]
    BY <1>4 DEF summarize
  <2>2. size \in Nat
    OBVIOUS
  <2> QED BY <1>0, <2>1, <2>2
<1>5. ASSUME NEW t \in Sessions, checkpoint(t) \/ complete(t)
      PROVE  Same
  <2>1. /\ pc' = [pc EXCEPT ![t] = "out"] \/ pc' = [pc EXCEPT ![t] = "done"]
        /\ messages' = [u \in Sessions |->
                          IF u \in {t} THEN <<>> ELSE messages[u]]
    BY <1>5 DEF checkpoint, complete, Forget, Move
  <2>2. s # t
    BY <1>0, <2>1
  <2> QED BY <2>1, <2>2
<1>6. ASSUME NEW t \in Sessions, Reply(t)
      PROVE  Same
  BY <1>0, <1>6 DEF Reply, add_message
<1>7. ASSUME UNCHANGED logical
      PROVE  Same
  BY <1>7 DEF logical
<1>8. ASSUME NEW t \in Sessions,
             Waited(t) \/ call(t) \/ RateLimited(t) \/ Failed(t) \/ Slept(t)
      PROVE  Same
  BY <1>7, <1>8 DEF Waited, call, RateLimited, Failed, Slept
<1>9. ~ Exit
  <2>1. ASSUME Exit PROVE pc'[s] \in {"out", "done"}
    BY <2>1 DEF Exit
  <2> QED BY <2>1
<1>10. Tick \/ UNCHANGED vars => UNCHANGED logical
  BY DEF Tick, vars
<1> QED BY <1>1, <1>2, <1>3, <1>4, <1>5, <1>6, <1>7, <1>8, <1>9, <1>10
        DEF Next, Backend

\* Shrinking keeps a leading system message and the last keep_last messages of
\* every history that has as many (or at most half as many: none is old then).
LEMMA ShrinkKeeps ==
  ASSUME HistoryInv, [Next]_vars, NEW s \in Sessions, LongOrShort(messages[s]),
         pc[s] \in {"asked", "stop"}, pc'[s] \in {"go", "stop", "waiting"}
  PROVE  KeepsEnds(messages[s], messages'[s])
<1>1. messages[s] \in Seq(Messages)
  BY DEF HistoryInv, HistoryType
<1>2. CASE messages'[s] = messages[s]
  BY <1>1, <1>2, SameEnds
<1>3. CASE messages'[s] = compact(messages[s])
  BY <1>1, <1>3, CompactKeeps
<1>4. ASSUME NEW size \in Nat, messages'[s] = summarize_with(messages[s], size)
      PROVE  KeepsEnds(messages[s], messages'[s])
  BY <1>1, <1>4, SummaryKeeps
<1>5. \/ messages'[s] \in {messages[s], compact(messages[s])}
      \/ \E size \in Nat : messages'[s] = summarize_with(messages[s], size)
  BY ShrinksOnly
<1> QED BY <1>2, <1>3, <1>4, <1>5

\* For every keep_last, summaries and compactions keep a leading system message
\* and the last keep_last messages of a history that has as many, and the whole
\* of one that has no more than half as many.
THEOREM HeadAndRecentKept == Spec => KeepsHeadAndRecent
<1> DEFINE Kept == \A s \in Sessions :
                /\ pc[s] \in {"asked", "stop"}
                /\ pc'[s] \in {"go", "stop", "waiting"}
                /\ LongOrShort(messages[s])
                => KeepsEnds(messages[s], messages'[s])
<1>1. HistoryInv /\ [Next]_vars => Kept
  BY ShrinkKeeps
<1> QED BY <1>1, HistoryInit, HistoryStep, PTL DEF Spec, KeepsHeadAndRecent

=============================================================================
