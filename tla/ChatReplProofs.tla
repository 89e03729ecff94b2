--------------------------- MODULE ChatReplProofs ---------------------------
(***************************************************************************)
(* What a turn of the chat client gathers, shows, asks and leaves behind,  *)
(* for all texts, streams, cuts into reads, interrupts and failures.       *)
(***************************************************************************)
EXTENDS ChatRepl, FiniteSetTheorems, SequenceTheorems, WellFoundedInduction, TLAPS

Half   == [kind : Kinds, end : BOOLEAN]
Screen == [mode : {"none", "reasoning", "content"}, dim : BOOLEAN,
           shown : Seq({"thought", "word"} \X BOOLEAN)]

\* The history files and the history are lists of messages, the accumulators
\* lists of lines, the buffers lists of halves.
ChatTypes ==
  /\ pc \in {"start", "prompt", "line", "save", "turn", "open", "read", "end", "gone"}
  /\ history \in Seq(Message) /\ missed \in BOOLEAN
  /\ file \in [kind : {"absent", "foreign", "torn", "history"}, messages : Seq(Message)]
  /\ connected \in BOOLEAN
  /\ stream \in Seq(Kinds) /\ wire \in Seq(Half) /\ buf \in Seq(Half)
  /\ content \in Seq(Kinds) /\ reasoning \in Seq(Kinds)
  /\ screen \in Screen

-----------------------------------------------------------------------------
(* Sequences                                                                *)

\* SubSeq, Append and \o keep sequences over a set.
LEMMA Part ==
  ASSUME NEW S, NEW s \in Seq(S), NEW i \in 1 .. Len(s) + 1, NEW j \in 0 .. Len(s)
  PROVE  SubSeq(s, i, j) \in Seq(S)
  OBVIOUS

\* A smaller alphabet.
LEMMA Wider ==
  ASSUME NEW S, NEW T, S \subseteq T
  PROVE  Seq(S) \subseteq Seq(T)
  OBVIOUS

\* Halves of a stream are twice as many, two for each line.
LEMMA HalvesOf ==
  ASSUME NEW ls \in Seq(Kinds)
  PROVE  /\ Halves(ls) \in Seq(Half) /\ Len(Halves(ls)) = 2 * Len(ls)
         /\ \A i \in 1 .. 2 * Len(ls) : Halves(ls)[i].kind = ls[(i + 1) \div 2]
         /\ \A i \in 1 .. 2 * Len(ls) : Halves(ls)[i].end <=> i % 2 = 0
  <1>1. \A i \in 1 .. 2 * Len(ls) : (i + 1) \div 2 \in 1 .. Len(ls)
    OBVIOUS
  <1>2. \A i \in 1 .. 2 * Len(ls) : [kind |-> ls[(i + 1) \div 2], end |-> i % 2 = 0] \in Half
    BY <1>1 DEF Half
  <1> DEFINE H(i) == [kind |-> ls[(i + 1) \div 2], end |-> i % 2 = 0]
  <1>3. \A i \in 1 .. 2 * Len(ls) : H(i) \in Half
    BY <1>2
  <1>4. \A i : H(i).kind = ls[(i + 1) \div 2] /\ (H(i).end <=> i % 2 = 0)
    OBVIOUS
  <1> HIDE DEF H
  <1>5. Halves(ls) = [i \in 1 .. 2 * Len(ls) |-> H(i)]
    BY DEF Halves, H
  <1>6. 2 * Len(ls) \in Nat
    OBVIOUS
  <1>7. Halves(ls) \in Seq(Half) /\ Len(Halves(ls)) = 2 * Len(ls)
    BY <1>3, <1>5, <1>6
  <1>8. \A i \in 1 .. 2 * Len(ls) : Halves(ls)[i] = H(i)
    BY <1>5
  <1> QED
    BY <1>4, <1>7, <1>8

\* Without keeps the leading system message and drops k messages behind it.
LEMMA WithoutTyped ==
  ASSUME NEW h \in Seq(Message), NEW k \in 0 .. Len(h) - Leading(h)
  PROVE  /\ Leading(h) \in {0, 1} /\ Leading(h) <= Len(h)
         /\ Without(h, k) \in Seq(Message) /\ Len(Without(h, k)) = Len(h) - k
         /\ \A i \in 1 .. Len(h) - k :
              Without(h, k)[i] = IF i <= Leading(h) THEN h[i] ELSE h[i + k]
  <1>1. Leading(h) \in {0, 1} /\ Leading(h) <= Len(h)
    BY DEF Leading
  <1> DEFINE a == SubSeq(h, 1, Leading(h))
             b == SubSeq(h, Leading(h) + k + 1, Len(h))
  <1>2. /\ a \in Seq(Message) /\ Len(a) = Leading(h)
        /\ \A i \in 1 .. Leading(h) : a[i] = h[i]
    BY <1>1
  <1>3. /\ b \in Seq(Message) /\ Len(b) = Len(h) - Leading(h) - k
        /\ \A i \in 1 .. Len(h) - Leading(h) - k : b[i] = h[Leading(h) + k + i]
    BY <1>1
  <1>4. Without(h, k) = a \o b
    BY DEF Without
  <1> HIDE DEF a, b
  <1>5. /\ a \o b \in Seq(Message) /\ Len(a \o b) = Len(h) - k
        /\ \A i \in 1 .. Len(h) - k :
             (a \o b)[i] = IF i <= Leading(h) THEN a[i] ELSE b[i - Leading(h)]
    <2>1. /\ a \o b \in Seq(Message) /\ Len(a \o b) = Len(a) + Len(b)
          /\ \A i \in 1 .. Len(a) + Len(b) :
               (a \o b)[i] = IF i <= Len(a) THEN a[i] ELSE b[i - Len(a)]
      BY <1>2, <1>3, ConcatProperties
    <2>2. Len(a) + Len(b) = Len(h) - k
      BY <1>1, <1>2, <1>3
    <2> QED
      BY <1>2, <2>1, <2>2
  <1>6. ASSUME NEW i \in 1 .. Len(h) - k
        PROVE  (a \o b)[i] = IF i <= Leading(h) THEN h[i] ELSE h[i + k]
    <2>1. CASE i <= Leading(h)
      <3>1. i \in 1 .. Leading(h)
        BY <1>1, <2>1
      <3> QED
        BY <1>2, <1>5, <2>1, <3>1
    <2>2. CASE ~ (i <= Leading(h))
      <3>1. /\ i - Leading(h) \in 1 .. Len(h) - Leading(h) - k
            /\ Leading(h) + k + (i - Leading(h)) = i + k
        BY <1>1, <2>2
      <3>2. b[i - Leading(h)] = h[Leading(h) + k + (i - Leading(h))]
        BY <1>3, <3>1
      <3> QED
        BY <1>5, <2>2, <3>1, <3>2
    <2> QED
      BY <2>1, <2>2
  <1> QED
    BY <1>1, <1>4, <1>5, <1>6

\* A non-empty set of numbers has a least one, and Min is it.
LEMMA LeastOf ==
  ASSUME NEW S, S \subseteq Nat, S # {}
  PROVE  Min(S) \in S /\ \A k \in S : Min(S) <= k
  <1>1. \E m \in S : \A k \in S : ~ (<<k, m>> \in OpToRel(<, Nat))
    BY WFMin, NatLessThanWellFounded
  <1>2. PICK m \in S : \A k \in S : ~ (<<k, m>> \in OpToRel(<, Nat))
    BY <1>1
  <1>3. ASSUME NEW k \in S PROVE m <= k
    <2>1. ~ (<<k, m>> \in {p \in Nat \X Nat : p[1] < p[2]})
      BY <1>2 DEF OpToRel
    <2>2. k \in Nat /\ m \in Nat
      OBVIOUS
    <2>3. <<k, m>> \in Nat \X Nat /\ <<k, m>>[1] = k /\ <<k, m>>[2] = m
      BY <2>2
    <2>4. ~ (k < m)
      BY <2>1, <2>3
    <2> QED
      BY <2>2, <2>4
  <1>4. \E x \in S : \A y \in S : x <= y
    BY <1>3
  <1> QED
    BY <1>4 DEF Min

\* Pruning drops pairs behind the system message, so many that the rest fits or
\* less than a pair is left.
LEMMA PrunedSome ==
  ASSUME NEW h \in Seq(Message)
  PROVE  \E k \in 0 .. (Len(h) - Leading(h)) \div 2 :
           /\ Pruned(h) = Without(h, 2 * k)
           /\ Weight(Pruned(h)) <= Cap \/ k = (Len(h) - Leading(h)) \div 2
  <1> DEFINE Pairs == (Len(h) - Leading(h)) \div 2
             S == {k \in 0 .. Pairs : Weight(Without(h, 2 * k)) <= Cap \/ k = Pairs}
             m == Min(S)
  <1>1. Pairs \in Nat
    <2>1. Leading(h) \in {0, 1} /\ Leading(h) <= Len(h)
      BY DEF Leading
    <2>2. Len(h) - Leading(h) \in Nat
      BY <2>1
    <2> QED
      BY <2>2
  <1>2. S \subseteq Nat /\ Pairs \in S
    BY <1>1
  <1>3. m \in S
    <2> HIDE DEF S
    <2> QED
      BY <1>2, LeastOf
  <1>4. Pruned(h) = Without(h, 2 * m)
    BY DEF Pruned
  <1> QED
    BY <1>3, <1>4

-----------------------------------------------------------------------------
(* Questions and answers                                                    *)

\* The last message of a list and the ones before it.
LEMMA FrontAndLast ==
  ASSUME NEW h \in Seq(Message), h # <<>>
  PROVE  /\ Front(h) \in Seq(Message) /\ Len(Front(h)) = Len(h) - 1
         /\ \A i \in 1 .. Len(h) - 1 : Front(h)[i] = h[i]
         /\ Last(h) = h[Len(h)] /\ Len(h) >= 1
  <1>1. Len(h) \in Nat /\ Len(h) >= 1
    OBVIOUS
  <1> DEFINE m == Len(h) - 1
  <1>2. m \in Nat /\ m <= Len(h)
    BY <1>1
  <1> HIDE DEF m
  <1>3. /\ SubSeq(h, 1, m) \in Seq(Message) /\ Len(SubSeq(h, 1, m)) = m
        /\ \A i \in 1 .. m : SubSeq(h, 1, m)[i] = h[i]
    BY <1>1, <1>2
  <1> QED
    BY <1>1, <1>3 DEF Front, Last, m

\* What run_turn sends fits; and if the talk before was paired, it is paired up to
\* the question, which is sent.
LEMMA AskedPair ==
  ASSUME NEW h \in Seq(Message), NEW m \in Message, m.role = "user",
         NEW sent, sent = Pruned(Append(h, m))
  PROVE  /\ sent \in Seq(Message)
         /\ Weight(sent) <= Cap \/ Len(sent) <= Leading(sent) + 1
         /\ Paired(h) => sent # <<>> /\ Last(sent) = m /\ Paired(Front(sent))
  <1> DEFINE g == Append(h, m)
             L == Leading(h)
             n == Len(h)
  <1>1. /\ g \in Seq(Message) /\ Len(g) = n + 1 /\ n \in Nat
        /\ g[n + 1] = m /\ \A i \in 1 .. n : g[i] = h[i]
    OBVIOUS
  <1>2. L \in {0, 1} /\ L <= n
    BY DEF Leading
  <1>3. Leading(g) = L
    <2>1. CASE h = <<>>
      <3>1. g[1] = m /\ n = 0
        BY <1>1, <2>1
      <3> QED
        BY <2>1, <3>1 DEF Leading
    <2>2. CASE h # <<>>
      <3>1. g[1] = h[1] /\ g # <<>>
        BY <1>1, <2>2
      <3> QED
        BY <2>2, <3>1 DEF Leading
    <2> QED
      BY <2>1, <2>2
  <1>4. PICK k \in 0 .. (n + 1 - L) \div 2 :
          /\ sent = Without(g, 2 * k)
          /\ Weight(sent) <= Cap \/ k = (n + 1 - L) \div 2
    <2>1. sent = Pruned(g)
      OBVIOUS
    <2> HIDE DEF g, L, n
    <2>2. \E k \in 0 .. (Len(g) - Leading(g)) \div 2 :
            /\ Pruned(g) = Without(g, 2 * k)
            /\ Weight(Pruned(g)) <= Cap \/ k = (Len(g) - Leading(g)) \div 2
      BY <1>1, PrunedSome
    <2>3. Len(g) - Leading(g) = n + 1 - L
      <3>1. Len(g) = n + 1 /\ Leading(g) = L
        BY <1>1, <1>3
      <3>2. Len(g) - Leading(g) = (n + 1) - L
        BY <3>1, Zenon
      <3>3. (n + 1) - L = n + 1 - L
        BY <1>1, <1>2
      <3> QED
        BY <3>2, <3>3, Zenon
    <2> QED
      BY <2>1, <2>2, <2>3
  <1> HIDE DEF g, n, L
  <1>5. k \in Nat /\ 2 * k \in 0 .. n + 1 - L
    BY <1>1, <1>2, <1>4
  <1>6. /\ sent \in Seq(Message) /\ Len(sent) = n + 1 - 2 * k
        /\ \A i \in 1 .. n + 1 - 2 * k : sent[i] = IF i <= L THEN g[i] ELSE g[i + 2 * k]
    <2>1. Len(g) - Leading(g) = n + 1 - L /\ Len(g) - 2 * k = n + 1 - 2 * k
      <3>1. Len(g) = n + 1 /\ Leading(g) = L
        BY <1>1, <1>3
      <3>2. Len(g) - Leading(g) = (n + 1) - L /\ Len(g) - 2 * k = (n + 1) - 2 * k
        BY <3>1, Zenon
      <3>3. (n + 1) - L = n + 1 - L /\ (n + 1) - 2 * k = n + 1 - 2 * k
        BY <1>1, <1>2, <1>5
      <3> QED
        BY <3>2, <3>3, Zenon
    <2>2. 2 * k \in 0 .. Len(g) - Leading(g)
      BY <1>5, <2>1
    <2>3. /\ Without(g, 2 * k) \in Seq(Message) /\ Len(Without(g, 2 * k)) = Len(g) - 2 * k
          /\ \A i \in 1 .. Len(g) - 2 * k :
               Without(g, 2 * k)[i] = IF i <= Leading(g) THEN g[i] ELSE g[i + 2 * k]
      BY <1>1, <2>2, WithoutTyped
    <2> QED
      BY <1>3, <1>4, <2>1, <2>3
  <1>7. L = 1 => Leading(sent) = 1
    <2> SUFFICES ASSUME L = 1 PROVE Leading(sent) = 1
      OBVIOUS
    <2>1. 1 \in 1 .. n + 1 - 2 * k /\ n >= 1
      BY <1>1, <1>2, <1>5
    <2>2. sent[1] = g[1] /\ sent # <<>>
      BY <1>6, <2>1
    <2>3. g[1].role = "system"
      BY <1>1, <1>3, <2>1 DEF Leading
    <2> QED
      BY <2>2, <2>3 DEF Leading
  <1>8. Weight(sent) <= Cap \/ Len(sent) <= Leading(sent) + 1
    <2> SUFFICES ASSUME k = (n + 1 - L) \div 2 PROVE Len(sent) <= Leading(sent) + 1
      BY <1>4
    <2>1. n + 1 - 2 * k <= L + 1
      BY <1>1, <1>2
    <2>2. Leading(sent) >= L
      <3>1. Leading(sent) \in {0, 1}
        BY DEF Leading
      <3> QED
        BY <1>2, <1>7, <3>1
    <2>3. Leading(sent) \in {0, 1}
      BY DEF Leading
    <2> QED
      BY <1>1, <1>2, <1>5, <1>6, <2>1, <2>2, <2>3
  <1>9. ASSUME Paired(h)
        PROVE  sent # <<>> /\ Last(sent) = m /\ Paired(Front(sent))
    <2>1. /\ (n - L) % 2 = 0
          /\ \A i \in L + 1 .. n : h[i].role = IF (i - L) % 2 = 1 THEN "user" ELSE "assistant"
      BY <1>9 DEF Paired, n, L
    <2>2. 2 * k <= n - L
      BY <1>1, <1>2, <1>5, <2>1
    <2>3. n + 1 - 2 * k \in Nat \ {0} /\ n + 1 - 2 * k > L
      BY <1>1, <1>2, <1>5, <2>2
    <2>4. sent # <<>>
      BY <1>6, <2>3
    <2> DEFINE f == Front(sent)
    <2>5. /\ f \in Seq(Message) /\ Len(f) = n - 2 * k
          /\ \A i \in 1 .. n - 2 * k : f[i] = sent[i]
          /\ Last(sent) = sent[n + 1 - 2 * k]
      <3>1. Len(sent) - 1 = n - 2 * k
        BY <1>1, <1>5, <1>6
      <3> QED
        BY <1>6, <2>4, <3>1, FrontAndLast
    <2>6. Last(sent) = m
      <3>0. n + 1 - 2 * k + 2 * k = n + 1
        BY <1>1, <1>5
      <3>1. n + 1 - 2 * k \in 1 .. n + 1 - 2 * k /\ n + 1 - 2 * k + 2 * k = n + 1
        BY <2>3, <3>0
      <3>2. ~ (n + 1 - 2 * k <= L)
        BY <1>1, <1>2, <1>5, <2>3
      <3>3. sent[n + 1 - 2 * k] = g[n + 1 - 2 * k + 2 * k]
        BY <1>6, <3>1, <3>2
      <3> QED
        BY <1>1, <2>5, <3>1, <3>3
    <2> HIDE DEF f
    <2>7. ASSUME NEW i \in L + 1 .. n - 2 * k
          PROVE  f[i].role = IF (i - L) % 2 = 1 THEN "user" ELSE "assistant"
      <3>1. /\ i \in 1 .. n - 2 * k /\ i \in 1 .. n + 1 - 2 * k /\ ~ (i <= L)
            /\ i + 2 * k \in L + 1 .. n /\ i + 2 * k \in 1 .. n
        BY <1>1, <1>2, <1>5
      <3>2. f[i] = h[i + 2 * k]
        BY <1>1, <1>6, <2>5, <3>1
      <3>3. (i + 2 * k - L) % 2 = (i - L) % 2
        BY <1>1, <1>2, <1>5
      <3> DEFINE j == i + 2 * k
      <3>4. j \in L + 1 .. n
        BY <3>1
      <3>5. f[i] = h[j]
        BY <3>2
      <3>7. (j - L) % 2 = (i - L) % 2
        BY <1>1, <1>2, <1>5 DEF j
      <3>6. h[j].role = IF (j - L) % 2 = 1 THEN "user" ELSE "assistant"
        <4> HIDE DEF j
        <4> QED
          BY <2>1, <3>4
      <3> HIDE DEF j
      <3> QED
        BY <3>5, <3>6, <3>7, Zenon
    <2>8. Leading(f) = L
      <3>1. CASE L = 1
        <4>1. 1 \in 1 .. n - 2 * k /\ 1 \in 1 .. n + 1 - 2 * k /\ 1 \in 1 .. n
          BY <1>1, <1>5, <2>2, <3>1
        <4>2. f[1] = sent[1] /\ f # <<>>
          BY <2>5, <4>1
        <4>3. sent[1] = h[1]
          BY <1>1, <1>6, <3>1, <4>1
        <4> QED
          BY <3>1, <4>2, <4>3 DEF Leading, L
      <3>2. CASE L = 0 /\ f = <<>>
        BY <3>2 DEF Leading
      <3>3. CASE L = 0 /\ f # <<>>
        <4>1. 1 \in L + 1 .. n - 2 * k
          BY <1>1, <1>5, <2>5, <3>3
        <4>2. f[1].role = "user"
          BY <2>7, <3>3, <4>1
        <4> QED
          BY <3>3, <4>2 DEF Leading
      <3> QED
        BY <1>2, <3>1, <3>2, <3>3
    <2>9. (n - 2 * k - L) % 2 = 0
      BY <1>1, <1>2, <1>5, <2>1
    <2>10. Paired(f)
      BY <2>5, <2>7, <2>8, <2>9 DEF Paired
    <2> QED
      BY <2>4, <2>6, <2>10 DEF f
  <1> QED
    BY <1>6, <1>8, <1>9

\* An answer to the question completes the pair.
LEMMA AnswerPairs ==
  ASSUME NEW h \in Seq(Message), h # <<>>, Paired(Front(h)), Last(h).role = "user",
         NEW m \in Message, m.role = "assistant"
  PROVE  Paired(Append(h, m))
  <1> DEFINE f == Front(h)
             g == Append(h, m)
             n == Len(h)
             L == Leading(f)
  <1>1. /\ f \in Seq(Message) /\ Len(f) = n - 1 /\ n \in Nat /\ n >= 1
        /\ \A i \in 1 .. n - 1 : f[i] = h[i]
        /\ h[n].role = "user"
    BY FrontAndLast
  <1>2. /\ g \in Seq(Message) /\ Len(g) = n + 1 /\ g[n + 1] = m
        /\ \A i \in 1 .. n : g[i] = h[i]
    OBVIOUS
  <1>3. /\ (n - 1 - L) % 2 = 0
        /\ \A i \in L + 1 .. n - 1 : f[i].role = IF (i - L) % 2 = 1 THEN "user" ELSE "assistant"
    BY <1>1 DEF Paired
  <1> HIDE DEF f, g
  <1>4. L \in {0, 1} /\ L <= n - 1
    BY <1>1 DEF Leading
  <1>5. Leading(g) = L
    <2>1. CASE f = <<>>
      <3>1. n = 1
        BY <1>1, <2>1
      <3>2. g[1].role = "user"
        BY <1>1, <1>2, <3>1
      <3> QED
        BY <2>1, <3>2 DEF Leading
    <2>2. CASE f # <<>>
      <3>1. 1 \in 1 .. n - 1 /\ 1 \in 1 .. n
        BY <1>1, <2>2
      <3>2. g[1] = f[1] /\ g # <<>>
        BY <1>1, <1>2, <3>1
      <3> QED
        BY <2>2, <3>2 DEF Leading
    <2> QED
      BY <2>1, <2>2
  <1> HIDE DEF n, L
  <1>6. ASSUME NEW i \in L + 1 .. n + 1
        PROVE  g[i].role = IF (i - L) % 2 = 1 THEN "user" ELSE "assistant"
    <2>1. CASE i = n + 1
      <3>1. (i - L) % 2 = 0
        BY <1>1, <1>3, <1>4, <2>1
      <3> QED
        BY <1>2, <2>1, <3>1
    <2>2. CASE i = n
      <3>1. (i - L) % 2 = 1
        BY <1>1, <1>3, <1>4, <2>2
      <3>2. i \in 1 .. n
        BY <1>1, <2>2
      <3> QED
        BY <1>1, <1>2, <2>2, <3>1, <3>2
    <2>3. CASE i \in L + 1 .. n - 1
      <3>1. i \in 1 .. n - 1 /\ i \in 1 .. n
        BY <1>1, <1>4, <2>3
      <3>2. g[i] = f[i]
        BY <1>1, <1>2, <3>1
      <3> QED
        BY <1>3, <2>3, <3>2
    <2> QED
      BY <1>1, <1>4, <2>1, <2>2, <2>3
  <1>7. (n + 1 - L) % 2 = 0
    BY <1>1, <1>3, <1>4
  <1>8. Paired(g)
    <2>1. \A i \in L + 1 .. Len(g) : g[i].role = IF (i - L) % 2 = 1 THEN "user" ELSE "assistant"
      BY <1>2, <1>6
    <2>2. (Len(g) - L) % 2 = 0
      BY <1>1, <1>2, <1>3, <1>4
    <2> QED
      BY <1>5, <2>1, <2>2 DEF Paired
  <1> QED
    BY <1>8 DEF g

-----------------------------------------------------------------------------
(* What is gathered                                                         *)

\* A line more in the stream, and in what is gathered if it adds to it.
LEMMA GathersMore ==
  ASSUME NEW adds, NEW acc \in Seq(Kinds), NEW ls \in Seq(Kinds), NEW k \in Kinds,
         Gathers(acc, ls, adds)
  PROVE  Gathers(With(acc, k, adds), Append(ls, k), adds)
  <1> DEFINE n == Len(ls)
             ms == Append(ls, k)
             A == {i \in DOMAIN ls : ls[i] \in adds}
             B == {i \in DOMAIN ms : ms[i] \in adds}
             c == Cardinality(A)
  <1>1. /\ Len(acc) = c
        /\ \A i \in A : acc[Cardinality({j \in A : j <= i})] = ls[i]
    BY DEF Gathers
  <1>2. /\ n \in Nat /\ DOMAIN ls = 1 .. n /\ DOMAIN ms = 1 .. n + 1 /\ ms[n + 1] = k
        /\ \A i \in 1 .. n : ms[i] = ls[i]
    OBVIOUS
  <1>3. IsFiniteSet(A) /\ c \in Nat
    <2>1. A \subseteq 1 .. n /\ IsFiniteSet(1 .. n)
      BY <1>2, FS_Interval
    <2> QED
      BY <2>1, FS_Subset, FS_CardinalityType
  <1>4. \A i \in A : i \in 1 .. n /\ ms[i] = ls[i]
    BY <1>2
  <1>5. CASE k \notin adds
    <2>1. B = A
      BY <1>2, <1>5
    <2>2. With(acc, k, adds) = acc
      BY <1>5 DEF With
    <2>3. \A i \in B : acc[Cardinality({j \in B : j <= i})] = ms[i]
      <3> HIDE DEF A, B, ms
      <3> QED
        BY <1>1, <1>4, <2>1
    <2>4. Len(acc) = Cardinality(B)
      BY <1>1, <2>1
    <2> QED
      BY <2>2, <2>3, <2>4 DEF Gathers
  <1>6. CASE k \in adds
    <2>1. B = A \cup {n + 1} /\ n + 1 \notin A
      BY <1>2, <1>6
    <2>2. With(acc, k, adds) = Append(acc, k)
      BY <1>6 DEF With
    <2>3. /\ Len(Append(acc, k)) = c + 1
          /\ Append(acc, k)[c + 1] = k
          /\ \A i \in 1 .. c : Append(acc, k)[i] = acc[i]
      <3> HIDE DEF c
      <3> QED
        BY <1>1, <1>3
    <2>4. Cardinality(B) = c + 1
      <3> HIDE DEF A, B
      <3> QED
        BY <1>3, <2>1, FS_AddElement DEF c
    <2>5. ASSUME NEW i \in B
          PROVE  Append(acc, k)[Cardinality({j \in B : j <= i})] = ms[i]
      <3>1. CASE i = n + 1
        <4>1. {j \in B : j <= i} = B
          <5> SUFFICES \A j \in B : j <= n + 1
            BY <3>1
          <5> QED
            BY <1>2
        <4> HIDE DEF B, ms
        <4> QED
          BY <1>2, <2>3, <2>4, <3>1, <4>1
      <3>2. CASE i \in A
        <4> DEFINE U == {j \in A : j <= i}
        <4>1. {j \in B : j <= i} = U
          <5>1. i <= n
            BY <1>4, <3>2
          <5>2. ~ (n + 1 <= i)
            BY <1>2, <1>4, <3>2
          <5> HIDE DEF A, B
          <5> QED
            BY <2>1, <5>2
        <4>2. U \subseteq A /\ i \in U
          BY <1>4, <3>2
        <4> HIDE DEF A, B, U
        <4>3. IsFiniteSet(U) /\ Cardinality(U) \in Nat /\ Cardinality(U) <= c
          BY <1>3, <4>2, FS_Subset, FS_CardinalityType DEF c
        <4>4. Cardinality(U) # 0
          BY <4>2, <4>3, FS_EmptySet
        <4>5. Cardinality(U) \in 1 .. c
          BY <1>3, <4>3, <4>4
        <4>6. acc[Cardinality(U)] = ls[i]
          BY <1>1, <3>2 DEF U
        <4>7. Append(acc, k)[Cardinality(U)] = acc[Cardinality(U)]
          BY <2>3, <4>5
        <4> QED
          BY <1>4, <3>2, <4>1, <4>6, <4>7
      <3> QED
        BY <2>1, <3>1, <3>2
    <2>6. \A i \in B : Append(acc, k)[Cardinality({j \in B : j <= i})] = ms[i]
      BY <2>5
    <2>7. Len(Append(acc, k)) = Cardinality(B)
      BY <2>3, <2>4
    <2> QED
      BY <2>2, <2>6, <2>7 DEF Gathers
  <1> QED
    BY <1>5, <1>6

\* Nothing is gathered from no line.
LEMMA GathersNothing ==
  ASSUME NEW adds
  PROVE  Gathers(<<>>, <<>>, adds)
  <1>1. {i \in DOMAIN <<>> : <<>>[i] \in adds} = {}
    OBVIOUS
  <1>2. Cardinality({}) = 0
    BY FS_EmptySet
  <1> QED
    BY <1>1, <1>2 DEF Gathers

\* The first p lines, and one more.
LEMMA OneMore ==
  ASSUME NEW ls \in Seq(Kinds), NEW p \in Nat, p < Len(ls)
  PROVE  SubSeq(ls, 1, p + 1) = Append(SubSeq(ls, 1, p), ls[p + 1])
  <1> DEFINE a == SubSeq(ls, 1, p + 1)
             b == SubSeq(ls, 1, p)
  <1>1. a \in Seq(Kinds) /\ Len(a) = p + 1 /\ \A i \in 1 .. p + 1 : a[i] = ls[i]
    OBVIOUS
  <1>2. b \in Seq(Kinds) /\ Len(b) = p /\ \A i \in 1 .. p : b[i] = ls[i]
    OBVIOUS
  <1>3. ls[p + 1] \in Kinds
    OBVIOUS
  <1> HIDE DEF a, b
  <1>4. /\ Append(b, ls[p + 1]) \in Seq(Kinds) /\ Len(Append(b, ls[p + 1])) = p + 1
        /\ \A i \in 1 .. p + 1 : Append(b, ls[p + 1])[i] = ls[i]
    BY <1>2, <1>3
  <1>5. a = Append(b, ls[p + 1])
    BY <1>1, <1>4, SeqEqual
  <1> QED
    BY <1>5 DEF a, b

\* Where the first [DONE] of a stream is cut off.
LEMMA ToldUpTo ==
  ASSUME NEW ls \in Seq(Kinds), NEW m \in 0 .. Len(ls), NEW p \in 0 .. m,
         \A i \in 1 .. p : ls[i] # "[DONE]",
         p = m \/ ls[p + 1] = "[DONE]"
  PROVE  Told(SubSeq(ls, 1, m)) = SubSeq(ls, 1, p)
  <1> DEFINE ts == SubSeq(ls, 1, m)
             Done == {i \in DOMAIN ts : ts[i] = "[DONE]"}
  <1>1. /\ ts \in Seq(Kinds) /\ Len(ts) = m /\ DOMAIN ts = 1 .. m
        /\ \A i \in 1 .. m : ts[i] = ls[i]
    OBVIOUS
  <1>2. SubSeq(ts, 1, p) = SubSeq(ls, 1, p)
    <2> HIDE DEF ts
    <2>1. /\ SubSeq(ts, 1, p) \in Seq(Kinds) /\ Len(SubSeq(ts, 1, p)) = p
          /\ \A i \in 1 .. p : SubSeq(ts, 1, p)[i] = ls[i]
      BY <1>1
    <2>2. /\ SubSeq(ls, 1, p) \in Seq(Kinds) /\ Len(SubSeq(ls, 1, p)) = p
          /\ \A i \in 1 .. p : SubSeq(ls, 1, p)[i] = ls[i]
      OBVIOUS
    <2> QED
      BY <2>1, <2>2, SeqEqual
  <1>3. (IF Done = {} THEN Len(ts) ELSE Min(Done) - 1) = p
    <2>1. CASE p = m
      <3>1. Done = {}
        BY <1>1, <2>1
      <3> QED
        BY <1>1, <2>1, <3>1
    <2>2. CASE p # m
      <3>1. p + 1 \in Done /\ Done \subseteq Nat
        BY <1>1, <2>2
      <3>2. \A i \in Done : i >= p + 1
        BY <1>1
      <3> HIDE DEF Done
      <3>3. Min(Done) \in Done /\ Min(Done) <= p + 1
        BY <3>1, LeastOf
      <3>4. Min(Done) \in Nat /\ Min(Done) >= p + 1
        BY <3>1, <3>2, <3>3
      <3>5. Min(Done) - 1 = p
        BY <3>3, <3>4
      <3>6. Done # {}
        BY <3>1
      <3> QED
        BY <3>5, <3>6, Zenon
    <2> QED
      BY <2>1, <2>2
  <1> HIDE DEF ts, Done
  <1>4. Told(ts) = SubSeq(ts, 1, IF Done = {} THEN Len(ts) ELSE Min(Done) - 1)
    BY DEF Told, Done
  <1> QED
    BY <1>2, <1>3, <1>4 DEF ts

-----------------------------------------------------------------------------
(* The stream                                                               *)

\* What was received, and what of it must have been gathered.
Received == SubSeq(stream, 1, (2 * Len(stream) - Len(wire)) \div 2)
Whole ==
  /\ Gathers(content, Told(Received), Wordy)
  /\ Gathers(reasoning, Told(Received), Thinking)

\* p lines are parsed and buf begins with the next one; buf and wire hold the
\* rest of the stream.
Parsed(p) ==
  /\ p \in Nat /\ p <= Len(stream)
  /\ Len(buf) + Len(wire) = 2 * (Len(stream) - p)
  /\ \A i \in 1 .. Len(buf) : buf[i] = Halves(stream)[2 * p + i]
  /\ \A i \in 1 .. Len(wire) : wire[i] = Halves(stream)[2 * p + Len(buf) + i]
  /\ \A i \in 1 .. p : stream[i] # "[DONE]"
  /\ Gathers(content, SubSeq(stream, 1, p), Wordy)
  /\ Gathers(reasoning, SubSeq(stream, 1, p), Thinking)

StreamInv ==
  /\ pc = "read" => \E p \in Nat : Parsed(p)
  /\ pc = "end"  => Whole

\* Before the first read nothing is parsed or gathered.
LEMMA ParsedFirst ==
  stream \in Seq(Kinds) /\ wire = Halves(stream) /\ buf = <<>>
    /\ content = <<>> /\ reasoning = <<>> => Parsed(0)
  <1> SUFFICES ASSUME stream \in Seq(Kinds), wire = Halves(stream), buf = <<>>,
                      content = <<>>, reasoning = <<>>
               PROVE  Parsed(0)
    OBVIOUS
  <1>1. Len(Halves(stream)) = 2 * Len(stream)
    BY HalvesOf
  <1>2. SubSeq(stream, 1, 0) = <<>> /\ Len(buf) = 0
    OBVIOUS
  <1>3. \A i \in 1 .. Len(wire) : wire[i] = Halves(stream)[2 * 0 + Len(buf) + i]
    BY <1>2
  <1>4. Gathers(content, SubSeq(stream, 1, 0), Wordy) /\ Gathers(reasoning, SubSeq(stream, 1, 0), Thinking)
    BY <1>2, GathersNothing
  <1>5. \A i \in 1 .. Len(buf) : buf[i] = Halves(stream)[2 * 0 + i]
    BY <1>2
  <1>6. Len(buf) + Len(wire) = 2 * (Len(stream) - 0)
    BY <1>1, <1>2
  <1> QED
    BY <1>3, <1>4, <1>5, <1>6 DEF Parsed

\* What stands in buf, in terms of lines.
LEMMA Buffered ==
  ASSUME stream \in Seq(Kinds), wire \in Seq(Half), buf \in Seq(Half),
         NEW p \in Nat, Parsed(p)
  PROVE  /\ Len(buf) >= 1 => ~ buf[1].end
         /\ Len(buf) >= 2 => buf[2].end /\ buf[1].kind = stream[p + 1] /\ p + 1 <= Len(stream)
         /\ HasLine(buf) <=> Len(buf) >= 2
  <1>1. /\ p <= Len(stream) /\ Len(buf) + Len(wire) = 2 * (Len(stream) - p)
        /\ \A i \in 1 .. Len(buf) : buf[i] = Halves(stream)[2 * p + i]
    BY DEF Parsed
  <1>2. Len(buf) \in Nat /\ Len(wire) \in Nat /\ Len(stream) \in Nat /\ DOMAIN buf = 1 .. Len(buf)
    OBVIOUS
  <1>3. \A i \in 1 .. 2 * Len(stream) :
          /\ Halves(stream)[i].kind = stream[(i + 1) \div 2]
          /\ Halves(stream)[i].end <=> i % 2 = 0
    BY HalvesOf
  <1>4. Len(buf) >= 1 => ~ buf[1].end /\ buf[1].kind = stream[p + 1] /\ p + 1 <= Len(stream)
    <2> SUFFICES ASSUME Len(buf) >= 1
                 PROVE  ~ buf[1].end /\ buf[1].kind = stream[p + 1] /\ p + 1 <= Len(stream)
      OBVIOUS
    <2>1. 2 * p + 1 \in 1 .. 2 * Len(stream) /\ 1 \in 1 .. Len(buf)
      BY <1>1, <1>2
    <2>2. /\ buf[1] = Halves(stream)[2 * p + 1]
          /\ buf[1].kind = stream[(2 * p + 1 + 1) \div 2]
          /\ buf[1].end <=> (2 * p + 1) % 2 = 0
      BY <1>1, <1>3, <2>1
    <2>3. (2 * p + 1 + 1) \div 2 = p + 1 /\ ~ ((2 * p + 1) % 2 = 0) /\ p + 1 <= Len(stream)
      BY <1>1, <1>2, <2>1
    <2>6. ~ buf[1].end
      BY <2>2, <2>3
    <2>7. buf[1].kind = stream[p + 1]
      BY <2>2, <2>3
    <2> QED
      BY <2>3, <2>6, <2>7
  <1>5. Len(buf) >= 2 => buf[2].end
    <2> SUFFICES ASSUME Len(buf) >= 2 PROVE buf[2].end
      OBVIOUS
    <2>1. 2 * p + 2 \in 1 .. 2 * Len(stream) /\ 2 \in 1 .. Len(buf)
      BY <1>1, <1>2
    <2>2. buf[2].end <=> (2 * p + 2) % 2 = 0
      BY <1>1, <1>3, <2>1
    <2>3. (2 * p + 2) % 2 = 0
      OBVIOUS
    <2> QED
      BY <2>2, <2>3
  <1>6. HasLine(buf) => Len(buf) >= 2
    <2> SUFFICES ASSUME NEW i \in DOMAIN buf, buf[i].end PROVE Len(buf) >= 2
      BY DEF HasLine
    <2>1. i # 1
      BY <1>2, <1>4
    <2> QED
      BY <1>2, <2>1
  <1>7. Len(buf) >= 2 => HasLine(buf)
    <2> SUFFICES ASSUME Len(buf) >= 2 PROVE HasLine(buf)
      OBVIOUS
    <2>1. 2 \in DOMAIN buf /\ buf[2].end
      BY <1>2, <1>5
    <2> QED
      BY <2>1 DEF HasLine
  <1> QED
    BY <1>4, <1>5, <1>6, <1>7

\* Without a complete line in buf all that was received is parsed.
LEMMA WaitingWhole ==
  ASSUME stream \in Seq(Kinds), wire \in Seq(Half), buf \in Seq(Half),
         NEW p \in Nat, Parsed(p), ~ HasLine(buf)
  PROVE  Whole
  <1>1. Len(buf) = 0 \/ Len(buf) = 1
    <2> DEFINE n == Len(buf)
    <2>1. ~ (n >= 2) /\ n \in Nat
      BY Buffered
    <2> HIDE DEF n
    <2>2. n = 0 \/ n = 1
      BY <2>1
    <2> QED
      BY <2>2 DEF n
  <1>2. p <= Len(stream) /\ Len(buf) + Len(wire) = 2 * (Len(stream) - p)
    BY DEF Parsed
  <1>3. (2 * Len(stream) - Len(wire)) \div 2 = p
    <2>1. Len(stream) \in Nat /\ Len(wire) \in Nat
      OBVIOUS
    <2>2. 2 * Len(stream) - Len(wire) = 2 * p + Len(buf)
      BY <1>1, <1>2, <2>1
    <2>3. (2 * p + 0) \div 2 = p /\ (2 * p + 1) \div 2 = p
      OBVIOUS
    <2> QED
      BY <1>1, <2>2, <2>3
  <1>4. Told(SubSeq(stream, 1, p)) = SubSeq(stream, 1, p)
    <2>1. p \in 0 .. Len(stream) /\ p \in 0 .. p /\ \A i \in 1 .. p : stream[i] # "[DONE]"
      BY <1>2 DEF Parsed
    <2> QED
      BY <2>1, ToldUpTo
  <1>5. Received = SubSeq(stream, 1, p)
    BY <1>3 DEF Received
  <1> QED
    BY <1>4, <1>5 DEF Whole, Parsed

\* A read moves halves from wire to buf.
LEMMA ReceiveParsed ==
  ASSUME stream \in Seq(Kinds), wire \in Seq(Half), buf \in Seq(Half),
         NEW p \in Nat, Parsed(p), Receive
  PROVE  Parsed(p)'
  <1>1. PICK n \in 1 .. Len(wire) :
          buf' = buf \o SubSeq(wire, 1, n) /\ wire' = SubSeq(wire, n + 1, Len(wire))
    BY DEF Receive
  <1>2. stream' = stream /\ content' = content /\ reasoning' = reasoning
    BY DEF Receive
  <1> DEFINE a == SubSeq(wire, 1, n)
  <1>3. a \in Seq(Half) /\ Len(a) = n /\ \A i \in 1 .. n : a[i] = wire[i]
    OBVIOUS
  <1>4. Len(buf) \in Nat /\ Len(wire) \in Nat /\ n \in Nat /\ n <= Len(wire)
    OBVIOUS
  <1>5. Len(wire') = Len(wire) - n /\ \A i \in 1 .. Len(wire) - n : wire'[i] = wire[n + i]
    BY <1>1
  <1> HIDE DEF a
  <1>6. /\ Len(buf') = Len(buf) + n
        /\ \A i \in 1 .. Len(buf) + n :
             buf'[i] = IF i <= Len(buf) THEN buf[i] ELSE a[i - Len(buf)]
    <2>1. buf' = buf \o a
      BY <1>1 DEF a
    <2>2. /\ Len(buf \o a) = Len(buf) + Len(a)
          /\ \A i \in 1 .. Len(buf) + Len(a) :
               (buf \o a)[i] = IF i <= Len(buf) THEN buf[i] ELSE a[i - Len(buf)]
      BY <1>3, ConcatProperties
    <2> QED
      BY <1>3, <2>1, <2>2
  <1>7. /\ p <= Len(stream) /\ Len(buf) + Len(wire) = 2 * (Len(stream) - p)
        /\ \A i \in 1 .. Len(buf) : buf[i] = Halves(stream)[2 * p + i]
        /\ \A i \in 1 .. Len(wire) : wire[i] = Halves(stream)[2 * p + Len(buf) + i]
        /\ \A i \in 1 .. p : stream[i] # "[DONE]"
        /\ Gathers(content, SubSeq(stream, 1, p), Wordy)
        /\ Gathers(reasoning, SubSeq(stream, 1, p), Thinking)
    BY DEF Parsed
  <1> DEFINE H == Halves(stream)
             b == Len(buf)
             w == Len(wire)
  <1>8. ASSUME NEW i \in 1 .. b + n
        PROVE  buf'[i] = H[2 * p + i]
    <2>1. CASE i <= b
      <3>1. i \in 1 .. b
        BY <1>4, <2>1
      <3> QED
        BY <1>6, <1>7, <2>1, <3>1
    <2>2. CASE ~ (i <= b)
      <3>1. i - b \in 1 .. n /\ i - b \in 1 .. w /\ 2 * p + b + (i - b) = 2 * p + i
        BY <1>4, <2>2
      <3>2. buf'[i] = wire[i - b]
        BY <1>3, <1>6, <2>2, <3>1
      <3>3. wire[i - b] = H[2 * p + b + (i - b)]
        <4> HIDE DEF H
        <4>1. \A j \in 1 .. w : wire[j] = H[2 * p + b + j]
          BY <1>7 DEF H
        <4> QED
          BY <3>1, <4>1
      <3> QED
        BY <3>1, <3>2, <3>3
    <2> QED
      BY <2>1, <2>2
  <1>9. ASSUME NEW i \in 1 .. w - n
        PROVE  wire'[i] = H[2 * p + (b + n) + i]
    <2>1. n + i \in 1 .. w /\ 2 * p + b + (n + i) = 2 * p + (b + n) + i
      BY <1>4
    <2>2. wire'[i] = wire[n + i]
      BY <1>5
    <2>3. wire[n + i] = H[2 * p + b + (n + i)]
      <3> HIDE DEF H
      <3>1. \A j \in 1 .. w : wire[j] = H[2 * p + b + j]
        BY <1>7 DEF H
      <3> QED
        BY <2>1, <3>1
    <2> QED
      BY <2>1, <2>2, <2>3
  <1>10. Len(buf') + Len(wire') = 2 * (Len(stream) - p)
    <2>1. Len(buf') + Len(wire') = Len(buf) + Len(wire)
      BY <1>4, <1>5, <1>6
    <2> QED
      BY <1>7, <2>1
  <1> QED
    <2>1. \A i \in 1 .. Len(buf') : buf'[i] = Halves(stream')[2 * p + i]
      BY <1>2, <1>6, <1>8
    <2>2. \A i \in 1 .. Len(wire') : wire'[i] = Halves(stream')[2 * p + Len(buf') + i]
      BY <1>2, <1>5, <1>6, <1>9
    <2> QED
      BY <1>2, <1>7, <1>10, <2>1, <2>2 DEF Parsed

\* A turn of the parser's loop takes the next line of the stream.
LEMMA ParseParsed ==
  ASSUME stream \in Seq(Kinds), wire \in Seq(Half), buf \in Seq(Half),
         content \in Seq(Kinds), reasoning \in Seq(Kinds),
         NEW p \in Nat, Parsed(p), ParseLine
  PROVE  /\ pc' = "read" => Parsed(p + 1)'
         /\ pc' = "end" => Whole'
         /\ pc' \in {"read", "end"}
  <1> DEFINE k == stream[p + 1]
             H == Halves(stream)
  <1>1. /\ Len(buf) >= 2 /\ ~ buf[1].end /\ FirstLine(buf) = k /\ p + 1 <= Len(stream)
    <2>1. HasLine(buf)
      BY DEF ParseLine
    <2>2. Len(buf) >= 2
      BY <2>1, Buffered
    <2>3. ~ buf[1].end /\ buf[1].kind = k /\ p + 1 <= Len(stream)
      <3>1. Len(buf) >= 1
        BY <2>2
      <3> QED
        BY <2>2, <3>1, Buffered
    <2> QED
      BY <2>2, <2>3 DEF FirstLine
  <1>2. k \in Kinds
    BY <1>1
  <1>3. /\ buf' = SubSeq(buf, 3, Len(buf))
        /\ content' = With(content, k, Wordy) /\ reasoning' = With(reasoning, k, Thinking)
        /\ stream' = stream /\ wire' = wire
        /\ \/ k = "[DONE]" /\ pc' = "end"
           \/ k # "[DONE]" /\ pc' = "read"
    BY <1>1 DEF ParseLine, AfterLine
  <1>4. /\ p <= Len(stream) /\ Len(buf) + Len(wire) = 2 * (Len(stream) - p)
        /\ \A i \in 1 .. Len(buf) : buf[i] = H[2 * p + i]
        /\ \A i \in 1 .. Len(wire) : wire[i] = H[2 * p + Len(buf) + i]
        /\ \A i \in 1 .. p : stream[i] # "[DONE]"
        /\ Gathers(content, SubSeq(stream, 1, p), Wordy)
        /\ Gathers(reasoning, SubSeq(stream, 1, p), Thinking)
    BY DEF Parsed
  <1>5. Len(buf) \in Nat /\ Len(wire) \in Nat /\ Len(stream) \in Nat
    OBVIOUS
  <1>6. CASE k # "[DONE]"
    <2>1. SubSeq(stream, 1, p + 1) = Append(SubSeq(stream, 1, p), k)
      BY <1>1, OneMore
    <2>2. SubSeq(stream, 1, p) \in Seq(Kinds)
      BY <1>4
    <2>3. /\ Gathers(content', SubSeq(stream, 1, p + 1), Wordy)
          /\ Gathers(reasoning', SubSeq(stream, 1, p + 1), Thinking)
      <3> HIDE DEF k
      <3> QED
        BY <1>2, <1>3, <1>4, <2>1, <2>2, GathersMore
    <2>4. Len(buf') = Len(buf) - 2 /\ \A i \in 1 .. Len(buf) - 2 : buf'[i] = buf[i + 2]
      <3> DEFINE n == Len(buf)
      <3>1. n \in Nat /\ n >= 2 /\ n <= Len(buf)
        BY <1>1, <1>5
      <3> HIDE DEF n
      <3>2. /\ Len(SubSeq(buf, 3, n)) = n - 2
            /\ \A i \in 1 .. n - 2 : SubSeq(buf, 3, n)[i] = buf[i + 2]
        BY <3>1
      <3> QED
        BY <1>3, <3>2 DEF n
    <2> HIDE DEF H
    <2>5. ASSUME NEW i \in 1 .. Len(buf')
          PROVE  buf'[i] = H[2 * (p + 1) + i]
      <3>1. i + 2 \in 1 .. Len(buf) /\ 2 * p + (i + 2) = 2 * (p + 1) + i /\ i \in 1 .. Len(buf) - 2
        BY <1>5, <2>4
      <3>2. buf[i + 2] = H[2 * p + (i + 2)]
        BY <1>4, <3>1
      <3> QED
        BY <2>4, <3>1, <3>2
    <2>6. ASSUME NEW i \in 1 .. Len(wire)
          PROVE  wire[i] = H[2 * (p + 1) + Len(buf') + i]
      <3>1. 2 * p + Len(buf) + i = 2 * (p + 1) + Len(buf') + i
        BY <1>5, <2>4
      <3>2. wire[i] = H[2 * p + Len(buf) + i]
        BY <1>4
      <3> QED
        BY <3>1, <3>2
    <2>7. \A i \in 1 .. p + 1 : stream[i] # "[DONE]"
      <3>1. \A i \in 1 .. p + 1 : i \in 1 .. p \/ i = p + 1
        OBVIOUS
      <3> QED
        BY <1>4, <1>6, <3>1
    <2>8. Len(buf') + Len(wire) = 2 * (Len(stream) - (p + 1))
      BY <1>4, <1>5, <2>4
    <2>9. Parsed(p + 1)'
      <3>1. \A i \in 1 .. Len(buf') : buf'[i] = Halves(stream')[2 * (p + 1) + i]
        BY <1>3, <2>5 DEF H
      <3>2. \A i \in 1 .. Len(wire') : wire'[i] = Halves(stream')[2 * (p + 1) + Len(buf') + i]
        BY <1>3, <2>6 DEF H
      <3>3. p + 1 \in Nat
        OBVIOUS
      <3> QED
        BY <1>1, <1>3, <2>3, <2>7, <2>8, <3>1, <3>2, <3>3 DEF Parsed
    <2> QED
      BY <1>3, <1>6, <2>9
  <1>7. CASE k = "[DONE]"
    <2> DEFINE m == (2 * Len(stream) - Len(wire)) \div 2
    <2>1. m \in 0 .. Len(stream) /\ p + 1 <= m
      BY <1>1, <1>4, <1>5
    <2>2. content' = content /\ reasoning' = reasoning
      BY <1>3, <1>7 DEF With, Wordy, Thinking
    <2> HIDE DEF m
    <2>3. Told(SubSeq(stream, 1, m)) = SubSeq(stream, 1, p)
      BY <1>4, <1>7, <2>1, ToldUpTo
    <2>4. Received' = SubSeq(stream, 1, m)
      BY <1>3 DEF Received, m
    <2>5. Whole'
      BY <1>4, <2>2, <2>3, <2>4 DEF Whole
    <2> QED
      BY <1>3, <1>7, <2>5
  <1> QED
    BY <1>6, <1>7

-----------------------------------------------------------------------------
(* The terminal                                                             *)

\* What was shown dim is thinking, and the rest is the answer.
ShownRight(s) == \A i \in DOMAIN s.shown : s.shown[i][2] = (s.shown[i][1] = "thought")

\* A line keeps the terminal dim exactly while it thinks.
LEMMA RenderKeeps ==
  ASSUME NEW s \in Screen, NEW k \in Kinds, s.dim <=> s.mode = "reasoning", ShownRight(s)
  PROVE  /\ Render(s, k) \in Screen
         /\ Render(s, k).dim <=> Render(s, k).mode = "reasoning"
         /\ ShownRight(Render(s, k))
  <1> DEFINE Lit(t) == t \in Screen /\ (t.dim <=> t.mode = "reasoning") /\ ShownRight(t)
  <1>1. ASSUME NEW t \in Screen, Lit(t), NEW mode \in {"reasoning", "content"},
               NEW piece \in {"thought", "word"}, NEW dim \in BOOLEAN,
               dim <=> mode = "reasoning", dim <=> piece = "thought",
               NEW u, u = [mode |-> mode, dim |-> dim, shown |-> Append(t.shown, <<piece, dim>>)]
        PROVE  Lit(u)
    <2>1. t.shown \in Seq({"thought", "word"} \X BOOLEAN)
      BY DEF Screen
    <2> DEFINE sh == t.shown
               p == <<piece, dim>>
    <2>2. p \in {"thought", "word"} \X BOOLEAN /\ p[1] = piece /\ p[2] = dim
      OBVIOUS
    <2>3. \A i \in DOMAIN sh : sh[i][2] = (sh[i][1] = "thought")
      BY <1>1 DEF ShownRight
    <2> HIDE DEF sh, p
    <2>4. /\ Append(sh, p) \in Seq({"thought", "word"} \X BOOLEAN)
          /\ \A i \in DOMAIN Append(sh, p) : \/ i \in DOMAIN sh /\ Append(sh, p)[i] = sh[i]
                                             \/ Append(sh, p)[i] = p
      BY <2>1, <2>2 DEF sh
    <2>5. p[2] = (p[1] = "thought")
      BY <1>1, <2>2
    <2>6. u.shown = Append(sh, p) /\ u.mode = mode /\ u.dim = dim
      BY <1>1 DEF sh, p
    <2>7. ShownRight(u)
      BY <2>3, <2>4, <2>5, <2>6 DEF ShownRight
    <2>8. u \in Screen
      BY <1>1, <2>4 DEF Screen, sh, p
    <2> QED
      BY <1>1, <2>6, <2>7, <2>8
  <1>2. ASSUME NEW t \in Screen, Lit(t)
        PROVE  Lit(OnReasoning(t, k)) /\ OnReasoning(t, k) \in Screen
    <2> DEFINE dim == t.mode # "reasoning" \/ t.dim
    <2>1. dim = TRUE
      BY <1>2 DEF Screen
    <2>2. OnReasoning(t, k) = [mode |-> "reasoning", dim |-> dim, shown |-> Append(t.shown, <<"thought", dim>>)]
      BY DEF OnReasoning
    <2> HIDE DEF Lit, dim
    <2> QED
      <3>1. Lit(OnReasoning(t, k))
        BY <1>1, <1>2, <2>1, <2>2
      <3> QED
        BY <3>1 DEF Lit
  <1>3. ASSUME NEW t \in Screen, Lit(t)
        PROVE  Lit(OnContent(t, k))
    <2> DEFINE dim == t.mode # "reasoning" /\ t.dim
    <2>1. dim = FALSE
      BY <1>3 DEF Screen
    <2>2. OnContent(t, k) = [mode |-> "content", dim |-> dim, shown |-> Append(t.shown, <<"word", dim>>)]
      BY DEF OnContent
    <2> HIDE DEF Lit, dim
    <2> QED
      BY <1>1, <1>3, <2>1, <2>2
  <1>4. Lit(s)
    OBVIOUS
  <1> HIDE DEF Lit
  <1>5. Lit(Render(s, k))
    <2>1. CASE k = "thought"
      BY <1>2, <1>4, <2>1 DEF Render
    <2>2. CASE k = "word"
      BY <1>3, <1>4, <2>2 DEF Render
    <2>3. CASE k = "both"
      BY <1>2, <1>3, <1>4, <2>3 DEF Render
    <2>4. CASE k \notin {"thought", "word", "both"}
      BY <1>4, <2>4 DEF Render
    <2> QED
      BY <2>1, <2>2, <2>3, <2>4
  <1> QED
    BY <1>5 DEF Lit

-----------------------------------------------------------------------------
(* The invariants                                                           *)

\* Where the handler is set, the connection open and the terminal dim.
PromptInv ==
  /\ pc \in {"start", "prompt", "line", "save", "turn", "end"} => handler = "default" /\ ~ connected
  /\ pc \in {"start", "prompt", "line", "save", "turn", "open"} => ~ screen.dim
  /\ pc = "open" => screen = Blank /\ ~ connected
  /\ pc = "read" => (screen.dim <=> screen.mode = "reasoning")
  /\ pc = "end" => (screen.dim => screen.mode = "reasoning")
  /\ ShownRight(screen)

\* Between turns the talk is paired, during one up to its question; unless a turn
\* failed.  The request is what was left after pruning.
TalkInv ==
  /\ pc \in {"start", "prompt", "line", "save"} /\ ~ missed => Paired(history)
  /\ pc \in {"turn", "open", "read", "end"} /\ ~ missed =>
       history # <<>> /\ Paired(Front(history)) /\ Last(history).role = "user"
  /\ pc = "turn" =>
       /\ request.messages = history
       /\ Weight(history) <= Cap \/ Len(history) <= Leading(history) + 1
       /\ ~ missed => Last(history) = Said("user", <<line>>, <<>>)

ChatInv == ChatTypes /\ PromptInv /\ TalkInv /\ StreamInv

-----------------------------------------------------------------------------
(* The first state                                                          *)

\* A terminal with nothing shown.
LEMMA BlankTyped ==
  /\ Blank \in Screen /\ ShownRight(Blank) /\ Blank.dim = FALSE /\ Blank.mode = "none"
  /\ \A d \in BOOLEAN :
       /\ [Blank EXCEPT !.dim = d] \in Screen
       /\ ShownRight([Blank EXCEPT !.dim = d])
       /\ [Blank EXCEPT !.dim = d].dim = d
  <1>1. <<>> \in Seq({"thought", "word"} \X BOOLEAN) /\ DOMAIN <<>> = {}
    OBVIOUS
  <1>2. ASSUME NEW d \in BOOLEAN
        PROVE  [Blank EXCEPT !.dim = d] = [mode |-> "none", dim |-> d, shown |-> <<>>]
    BY DEF Blank
  <1>3. ASSUME NEW d \in BOOLEAN, NEW s, s = [mode |-> "none", dim |-> d, shown |-> <<>>]
        PROVE  s \in Screen /\ ShownRight(s) /\ s.dim = d /\ s.mode = "none"
    BY <1>1, <1>3 DEF Screen, ShownRight
  <1> QED
    BY <1>2, <1>3 DEF Blank

\* Nothing read and nothing gathered.
LEMMA NothingYet == <<>> \in Seq(Kinds) /\ <<>> \in Seq(Half) /\ <<>> \in Seq(Message)
  OBVIOUS

LEMMA ChatInitially == Init => ChatInv
  <1> SUFFICES ASSUME Init PROVE ChatInv
    OBVIOUS
  <1>1. SystemMessage \in Message
    <2>1. <<System>> \in Seq(Text \cup Kinds \cup {System}) /\ <<>> \in Seq(Kinds)
      OBVIOUS
    <2> QED
      BY <2>1 DEF SystemMessage, Said, Message
  <1>2. history \in Seq(Message)
    BY <1>1 DEF Init
  <1>3. Paired(history)
    <2>1. CASE HasSystem
      <3>1. history = <<SystemMessage>> /\ history[1].role = "system" /\ Len(history) = 1
        BY <2>1 DEF Init, SystemMessage, Said
      <3>2. Leading(history) = 1
        BY <3>1 DEF Leading
      <3> QED
        BY <3>1, <3>2 DEF Paired
    <2>2. CASE ~ HasSystem
      <3>1. history = <<>> /\ Len(history) = 0
        BY <2>2 DEF Init
      <3>2. Leading(history) = 0
        BY <3>1 DEF Leading
      <3> QED
        BY <3>1, <3>2 DEF Paired
    <2> QED
      BY <2>1, <2>2
  <1>4. Blank \in Screen /\ ShownRight(Blank) /\ ~ Blank.dim
    BY BlankTyped
  <1>5. ChatTypes
    BY <1>2, <1>4, StoredAssumption, NothingYet DEF Init, ChatTypes
  <1>6. PromptInv
    BY <1>4 DEF Init, PromptInv
  <1>7. TalkInv
    BY <1>3 DEF Init, TalkInv
  <1>8. StreamInv
    BY DEF Init, StreamInv
  <1> QED
    BY <1>5, <1>6, <1>7, <1>8 DEF ChatInv

-----------------------------------------------------------------------------
(* Every step                                                               *)

\* The line that is parsed is a line of the server's, or noise.
LEMMA LineTyped ==
  ASSUME ChatTypes, HasLine(buf), NEW p \in Nat, Parsed(p)
  PROVE  FirstLine(buf) \in Kinds /\ AfterLine(buf) \in Seq(Half)
  <1>1. Len(buf) >= 2 /\ ~ buf[1].end /\ buf \in Seq(Half)
    <2>1. stream \in Seq(Kinds) /\ wire \in Seq(Half) /\ buf \in Seq(Half)
      BY DEF ChatTypes
    <2>2. Len(buf) >= 2
      BY <2>1, Buffered
    <2>3. Len(buf) >= 1
      BY <2>2
    <2> QED
      BY <2>1, <2>2, <2>3, Buffered
  <1>2. FirstLine(buf) \in Kinds
    <2>1. buf[1] \in Half
      BY <1>1
    <2> QED
      BY <1>1, <2>1 DEF FirstLine, Half
  <1> DEFINE n == Len(buf)
  <1>3. n \in Nat /\ n >= 2 /\ n <= Len(buf)
    BY <1>1
  <1> HIDE DEF n
  <1>4. 3 \in 1 .. Len(buf) + 1 /\ n \in 0 .. Len(buf)
    BY <1>1, <1>3 DEF n
  <1>5. SubSeq(buf, 3, n) \in Seq(Half)
    BY <1>1, <1>4, Part
  <1> QED
    BY <1>1, <1>2, <1>5 DEF AfterLine, n

LEMMA TypesKept ==
  ASSUME ChatInv, Next
  PROVE  ChatTypes'
  <1> USE DEF ChatInv
  <1>1. Blank \in Screen /\ [Blank EXCEPT !.dim = FALSE] \in Screen
    BY BlankTyped
  <1>2. CASE HealthCheck \/ ReadLine \/ EndOfFile \/ Quit \/ Help \/ Think \/ LoadFails \/ LoadBreaks
    BY <1>2 DEF HealthCheck, ReadLine, EndOfFile, Quit, Help, Think, LoadFails, LoadBreaks,
                ChatTypes, turn, user, kept
  <1>3. CASE Reset
    <2>1. SubSeq(history, 1, Leading(history)) \in Seq(Message)
      <3>1. history \in Seq(Message)
        BY DEF ChatTypes
      <3>2. Leading(history) \in {0, 1} /\ Leading(history) <= Len(history)
        BY <3>1 DEF Leading
      <3>3. 1 \in 1 .. Len(history) + 1 /\ Leading(history) \in 0 .. Len(history)
        BY <3>1, <3>2
      <3> QED
        BY <3>1, <3>3, Part
    <2> QED
      BY <1>3, <2>1 DEF Reset, ChatTypes, turn, user
  <1>4. CASE SaveOpens
    <2> DEFINE f == [kind |-> "torn", messages |-> <<>>]
    <2>1. f \in [kind : {"absent", "foreign", "torn", "history"}, messages : Seq(Message)]
      BY NothingYet
    <2> HIDE DEF f
    <2>2. /\ file' = f \/ file' = file
          /\ pc' \in {"save", "prompt"}
      BY <1>4 DEF SaveOpens, f
    <2> QED
      BY <1>4, <2>1, <2>2 DEF SaveOpens, ChatTypes, turn, user, kept
  <1>5. CASE SaveWrites
    BY <1>5 DEF SaveWrites, ChatTypes, turn, user, kept
  <1>6. CASE Load
    BY <1>6 DEF Load, ChatTypes, turn, user, Paired
  <1>7. CASE StartTurn
    <2> DEFINE m == Said("user", <<line>>, <<>>)
    <2>1. m \in Message /\ m.role = "user"
      <3>1. <<line>> \in Seq(Text \cup Kinds \cup {System}) /\ <<>> \in Seq(Kinds)
        BY <1>7 DEF StartTurn
      <3> QED
        BY <3>1 DEF Said, Message
    <2>2. history \in Seq(Message)
      BY DEF ChatTypes
    <2> HIDE DEF m
    <2>3. Pruned(Append(history, m)) \in Seq(Message)
      BY <2>1, <2>2, AskedPair
    <2> QED
      BY <1>7, <2>3 DEF StartTurn, ChatTypes, m
  <1>8. CASE Arm
    BY <1>1, <1>8 DEF Arm, ChatTypes, user, kept
  <1>9. CASE Opened
    <2>1. PICK s \in Streams : stream' = s /\ wire' = Halves(s)
      BY <1>9 DEF Opened
    <2>2. s \in Seq(Kinds) /\ Halves(s) \in Seq(Half)
      BY StreamsAssumption, HalvesOf
    <2>3. <<>> \in Seq(Kinds) /\ <<>> \in Seq(Half)
      OBVIOUS
    <2> QED
      BY <1>9, <2>1, <2>2, <2>3 DEF Opened, ChatTypes, user, kept
  <1>10. CASE Refused
    BY <1>1, <1>10, NothingYet DEF Refused, CleanUp, Forget, Leave, ChatTypes, user
  <1>11. CASE NoHeader \/ Truncated \/ ReadNothing
    BY <1>11 DEF NoHeader, Truncated, ReadNothing, CleanUp, ChatTypes, user, kept
  <1>12. CASE Receive
    <2>1. PICK n \in 1 .. Len(wire) :
            buf' = buf \o SubSeq(wire, 1, n) /\ wire' = SubSeq(wire, n + 1, Len(wire))
      BY <1>12 DEF Receive
    <2>2. wire \in Seq(Half) /\ buf \in Seq(Half)
      BY DEF ChatTypes
    <2>3. SubSeq(wire, 1, n) \in Seq(Half) /\ SubSeq(wire, n + 1, Len(wire)) \in Seq(Half)
      <3>1. 1 \in 1 .. Len(wire) + 1 /\ n \in 0 .. Len(wire) /\ n + 1 \in 1 .. Len(wire) + 1
            /\ Len(wire) \in 0 .. Len(wire)
        BY <2>2
      <3> QED
        BY <2>2, <3>1, Part
    <2>4. buf \o SubSeq(wire, 1, n) \in Seq(Half)
      BY <2>2, <2>3, ConcatProperties
    <2> QED
      BY <1>12, <2>1, <2>3, <2>4 DEF Receive, ChatTypes, user, kept
  <1>13. CASE ParseLine
    <2>1. PICK p \in Nat : Parsed(p)
      BY <1>13 DEF ParseLine, StreamInv
    <2> DEFINE k == FirstLine(buf)
    <2>2. k \in Kinds /\ AfterLine(buf) \in Seq(Half)
      BY <1>13, <2>1, LineTyped DEF ParseLine
    <2> HIDE DEF k
    <2>3. \A adds : With(content, k, adds) \in Seq(Kinds) /\ With(reasoning, k, adds) \in Seq(Kinds)
      BY <2>2 DEF With, ChatTypes
    <2>4. Render(screen, k) \in Screen
      BY <1>13, <2>2, RenderKeeps DEF ParseLine, PromptInv, ChatTypes
    <2> QED
      BY <1>13, <2>2, <2>3, <2>4 DEF ParseLine, CleanUp, ChatTypes, user, kept, k
  <1>14. CASE Closed
    <2>1. [screen EXCEPT !.dim = FALSE] \in Screen
      BY DEF ChatTypes, Screen
    <2> QED
      BY <1>14, <2>1 DEF Closed, CleanUp, ChatTypes, user, kept
  <1>15. CASE FinishTurn
    <2>1. Said("assistant", content, reasoning) \in Message
      <3>1. content \in Seq(Kinds) /\ reasoning \in Seq(Kinds)
        BY DEF ChatTypes
      <3>2. content \in Seq(Text \cup Kinds \cup {System})
        <4>1. Kinds \subseteq Text \cup Kinds \cup {System}
          OBVIOUS
        <4> QED
          BY <3>1, <4>1, Wider
      <3> QED
        BY <3>1, <3>2 DEF Said, Message
    <2>2. Append(history, Said("assistant", content, reasoning)) \in Seq(Message)
      BY <2>1 DEF ChatTypes
    <2> DEFINE d == screen.dim /\ screen.mode # "reasoning"
    <2>3. d \in BOOLEAN
      BY DEF ChatTypes, Screen
    <2> HIDE DEF d
    <2>4. screen' = [Blank EXCEPT !.dim = d]
      BY <1>15 DEF FinishTurn, Leave, d
    <2>5. screen' \in Screen
      BY <2>3, <2>4, BlankTyped
    <2> QED
      BY <1>15, <2>2, <2>5, NothingYet DEF FinishTurn, Forget, ChatTypes, user
  <1>16. CASE InterruptCommand
    BY <1>16 DEF InterruptCommand, ChatTypes, turn, user, kept
  <1>17. CASE InterruptTurn
    BY <1>1, <1>17, NothingYet DEF InterruptTurn, Forget, Leave, ChatTypes, user
  <1>18. CASE InterruptStream
    BY <1>18 DEF InterruptStream, ChatTypes, user, kept
  <1> QED
    BY <1>2, <1>3, <1>4, <1>5, <1>6, <1>7, <1>8, <1>9, <1>10, <1>11, <1>12, <1>13, <1>14, <1>15,
       <1>16, <1>17, <1>18 DEF Next, Command, Turn

\* The handler, the connection and the colour.
LEMMA PromptKept ==
  ASSUME ChatInv, Next
  PROVE  PromptInv'
  <1> USE DEF ChatInv
  <1>1. Blank.dim = FALSE /\ Blank.mode = "none" /\ Blank \in Screen /\ ShownRight(Blank)
    BY BlankTyped
  <1>2. CASE HealthCheck \/ ReadLine \/ EndOfFile \/ Quit \/ Help \/ Think \/ LoadFails \/ LoadBreaks
             \/ InterruptCommand
    <2>1. /\ pc \in {"start", "prompt", "line", "save"} /\ pc' \in {"prompt", "line", "gone"}
          /\ handler' = handler /\ connected' = connected /\ screen' = screen
      BY <1>2 DEF HealthCheck, ReadLine, EndOfFile, Quit, Help, Think, LoadFails, LoadBreaks,
                  InterruptCommand, turn
    <2> QED
      BY <2>1 DEF PromptInv
  <1>3. CASE Reset \/ SaveOpens \/ SaveWrites \/ Load
    <2>1. /\ pc \in {"line", "save"} /\ pc' \in {"save", "prompt"}
          /\ handler' = handler /\ connected' = connected /\ screen' = screen
      BY <1>3 DEF Reset, SaveOpens, SaveWrites, Load, turn
    <2> QED
      BY <2>1 DEF PromptInv
  <1>4. CASE StartTurn
    BY <1>4 DEF StartTurn, PromptInv
  <1>5. CASE Arm
    BY <1>1, <1>5 DEF Arm, PromptInv, user, kept
  <1>6. CASE Opened
    BY <1>1, <1>6 DEF Opened, PromptInv, user, kept
  <1>7. CASE Refused \/ InterruptTurn
    <2> DEFINE s == [Blank EXCEPT !.dim = FALSE]
    <2>1. ~ s.dim /\ ShownRight(s)
      BY BlankTyped
    <2>2. screen' = s /\ pc' = "prompt" /\ handler' = "default" /\ ~ connected'
      BY <1>7 DEF Refused, InterruptTurn, CleanUp, Leave, PromptInv
    <2> HIDE DEF s
    <2> QED
      BY <2>1, <2>2 DEF PromptInv
  <1>8. CASE NoHeader \/ Truncated \/ ReadNothing
    BY <1>8 DEF NoHeader, Truncated, ReadNothing, CleanUp, PromptInv, user, kept
  <1>9. CASE Receive
    BY <1>9 DEF Receive, PromptInv, user, kept
  <1>10. CASE ParseLine
    <2>1. PICK p \in Nat : Parsed(p)
      BY <1>10 DEF ParseLine, StreamInv
    <2> DEFINE k == FirstLine(buf)
               s == Render(screen, k)
    <2>2. k \in Kinds
      BY <1>10, <2>1, LineTyped DEF ParseLine
    <2> HIDE DEF k
    <2>3. (s.dim <=> s.mode = "reasoning") /\ ShownRight(s)
      BY <1>10, <2>2, RenderKeeps DEF ParseLine, PromptInv, ChatTypes
    <2>4. /\ screen' = s
          /\ \/ pc' = "end" /\ handler' = "default" /\ ~ connected'
             \/ pc' = "read"
      BY <1>10 DEF ParseLine, CleanUp, k
    <2> HIDE DEF s
    <2> QED
      BY <2>3, <2>4 DEF PromptInv
  <1>11. CASE Closed
    <2> DEFINE s == [screen EXCEPT !.dim = FALSE]
    <2>1. /\ screen' = screen \/ screen' = s
          /\ pc' = "end" /\ handler' = "default" /\ ~ connected'
      BY <1>11 DEF Closed, CleanUp
    <2>2. ~ s.dim /\ ShownRight(s)
      BY DEF ShownRight, PromptInv, ChatTypes, Screen
    <2>3. (screen.dim => screen.mode = "reasoning") /\ ShownRight(screen)
      BY <1>11 DEF Closed, PromptInv
    <2> HIDE DEF s
    <2> QED
      BY <2>1, <2>2, <2>3 DEF PromptInv
  <1>12. CASE FinishTurn
    <2> DEFINE d == screen.dim /\ screen.mode # "reasoning"
               s == [Blank EXCEPT !.dim = d]
    <2>1. d = FALSE
      BY <1>12 DEF FinishTurn, PromptInv, ChatTypes, Screen
    <2>2. ~ s.dim /\ ShownRight(s)
      <3> HIDE DEF d
      <3> QED
        BY <2>1, BlankTyped
    <2>3. screen' = s /\ pc' = "prompt" /\ handler' = "default" /\ ~ connected'
      BY <1>12 DEF FinishTurn, Leave, PromptInv
    <2> HIDE DEF s
    <2> QED
      BY <2>2, <2>3 DEF PromptInv
  <1>13. CASE InterruptStream
    BY <1>13 DEF InterruptStream, PromptInv, user, kept
  <1> QED
    BY <1>2, <1>3, <1>4, <1>5, <1>6, <1>7, <1>8, <1>9, <1>10, <1>11, <1>12, <1>13
       DEF Next, Command, Turn

\* The talk.
LEMMA TalkKept ==
  ASSUME ChatInv, Next
  PROVE  TalkInv'
  <1> USE DEF ChatInv
  <1>0. history \in Seq(Message)
    BY DEF ChatTypes
  <1>1. CASE HealthCheck \/ ReadLine \/ EndOfFile \/ Quit \/ Help \/ Think \/ LoadFails \/ LoadBreaks
             \/ InterruptCommand
    BY <1>1 DEF HealthCheck, ReadLine, EndOfFile, Quit, Help, Think, LoadFails, LoadBreaks,
                InterruptCommand, TalkInv, turn, user, kept
  <1>2. CASE Reset
    <2> DEFINE h == SubSeq(history, 1, Leading(history))
    <2>1. Leading(history) \in {0, 1} /\ Leading(history) <= Len(history)
      BY <1>0 DEF Leading
    <2>2. Paired(h)
      <3>1. CASE Leading(history) = 0
        <4>1. h = <<>> /\ Len(h) = 0
          BY <1>0, <3>1
        <4> HIDE DEF h
        <4>2. Leading(h) = 0
          BY <4>1 DEF Leading
        <4> QED
          BY <4>1, <4>2 DEF Paired
      <3>2. CASE Leading(history) = 1
        <4>1. Len(h) = 1 /\ h # <<>> /\ h[1] = history[1] /\ history[1].role = "system"
          BY <1>0, <2>1, <3>2 DEF Leading
        <4> HIDE DEF h
        <4>2. Leading(h) = 1
          BY <4>1 DEF Leading
        <4> QED
          BY <4>1, <4>2 DEF Paired
      <3> QED
        BY <2>1, <3>1, <3>2
    <2> HIDE DEF h
    <2>3. history' = h /\ pc' = "prompt"
      BY <1>2 DEF Reset, h
    <2> QED
      BY <2>2, <2>3 DEF TalkInv
  <1>3. CASE SaveOpens \/ SaveWrites
    BY <1>3 DEF SaveOpens, SaveWrites, TalkInv, turn, user, kept
  <1>4. CASE Load
    <2>1. history' = file.messages /\ missed' = ~ Paired(file.messages) /\ pc' = "prompt"
      BY <1>4 DEF Load
    <2> QED
      BY <2>1 DEF TalkInv
  <1>5. CASE StartTurn
    <2> DEFINE m == Said("user", <<line>>, <<>>)
               h == Pruned(Append(history, m))
    <2>1. m \in Message /\ m.role = "user"
      <3>1. <<line>> \in Seq(Text \cup Kinds \cup {System}) /\ <<>> \in Seq(Kinds)
        BY <1>5 DEF StartTurn
      <3> QED
        BY <3>1 DEF Said, Message
    <2>2. /\ history' = h /\ request'.messages = h /\ pc' = "turn" /\ missed' = missed
          /\ line' = line
      BY <1>5 DEF StartTurn, user
    <2>3. ~ missed => Paired(history)
      BY <1>5 DEF StartTurn, TalkInv
    <2>4. /\ Weight(h) <= Cap \/ Len(h) <= Leading(h) + 1
          /\ Paired(history) => h # <<>> /\ Last(h) = m /\ Paired(Front(h))
      <3> HIDE DEF m
      <3> QED
        BY <1>0, <2>1, AskedPair
    <2>5. m = Said("user", <<line'>>, <<>>)
      BY <2>2
    <2> HIDE DEF m, h
    <2> QED
      BY <2>1, <2>2, <2>3, <2>4, <2>5 DEF TalkInv
  <1>6. CASE Arm \/ Opened \/ Receive \/ Closed \/ InterruptStream
    BY <1>6 DEF Arm, Opened, Receive, Closed, InterruptStream, TalkInv, user, kept
  <1>7. CASE ParseLine
    <2>1. history' = history /\ missed' = missed /\ pc' \in {"read", "end"} /\ pc = "read"
      BY <1>7 DEF ParseLine, kept
    <2> QED
      BY <2>1 DEF TalkInv
  <1>8. CASE Refused \/ InterruptTurn
    BY <1>8 DEF Refused, InterruptTurn, TalkInv, user
  <1>9. CASE NoHeader \/ Truncated \/ ReadNothing
    BY <1>9 DEF NoHeader, Truncated, ReadNothing, TalkInv, user, kept
  <1>10. CASE FinishTurn
    <2> DEFINE m == Said("assistant", content, reasoning)
    <2>1. history' = Append(history, m) /\ pc' = "prompt" /\ missed' = missed
      BY <1>10 DEF FinishTurn
    <2>2. m \in Message /\ m.role = "assistant"
      <3>1. content \in Seq(Kinds) /\ reasoning \in Seq(Kinds)
        BY DEF ChatTypes
      <3>2. content \in Seq(Text \cup Kinds \cup {System})
        <4>1. Kinds \subseteq Text \cup Kinds \cup {System}
          OBVIOUS
        <4> QED
          BY <3>1, <4>1, Wider
      <3> QED
        BY <3>1, <3>2 DEF Said, Message
    <2> HIDE DEF m
    <2>3. ~ missed => Paired(Append(history, m))
      BY <1>0, <1>10, <2>2, AnswerPairs DEF FinishTurn, TalkInv
    <2> QED
      BY <2>1, <2>3 DEF TalkInv
  <1> QED
    BY <1>1, <1>2, <1>3, <1>4, <1>5, <1>6, <1>7, <1>8, <1>9, <1>10 DEF Next, Command, Turn

\* The stream.
LEMMA StreamKept ==
  ASSUME ChatInv, Next
  PROVE  StreamInv'
  <1> USE DEF ChatInv
  <1>0. /\ stream \in Seq(Kinds) /\ wire \in Seq(Half) /\ buf \in Seq(Half)
        /\ content \in Seq(Kinds) /\ reasoning \in Seq(Kinds)
    BY DEF ChatTypes
  <1>1. CASE pc' \notin {"read", "end"}
    BY <1>1 DEF StreamInv
  <1>2. CASE Opened
    <2>1. PICK s \in Streams : stream' = s /\ wire' = Halves(s)
      BY <1>2 DEF Opened
    <2>2. /\ stream' \in Seq(Kinds) /\ wire' = Halves(stream') /\ buf' = <<>>
          /\ content' = <<>> /\ reasoning' = <<>> /\ pc' = "read"
      BY <1>2, <2>1, StreamsAssumption DEF Opened
    <2>3. (stream \in Seq(Kinds) /\ wire = Halves(stream) /\ buf = <<>>
           /\ content = <<>> /\ reasoning = <<>> => Parsed(0))'
      BY ParsedFirst, PTL
    <2>4. Parsed(0)'
      BY <2>2, <2>3
    <2> QED
      BY <2>2, <2>4 DEF StreamInv
  <1>3. CASE Receive
    <2>1. PICK p \in Nat : Parsed(p)
      BY <1>3 DEF Receive, StreamInv
    <2>2. Parsed(p)'
      BY <1>0, <1>3, <2>1, ReceiveParsed
    <2>3. pc' = "read"
      BY <1>3 DEF Receive
    <2> QED
      BY <2>2, <2>3 DEF StreamInv
  <1>4. CASE ParseLine
    <2>1. PICK p \in Nat : Parsed(p)
      BY <1>4 DEF ParseLine, StreamInv
    <2>2. (pc' = "read" => Parsed(p + 1)') /\ (pc' = "end" => Whole')
      BY <1>0, <1>4, <2>1, ParseParsed
    <2>3. p + 1 \in Nat
      OBVIOUS
    <2> QED
      BY <2>2, <2>3 DEF StreamInv
  <1>5. CASE Closed
    <2>1. PICK p \in Nat : Parsed(p)
      BY <1>5 DEF Closed, StreamInv
    <2>2. Whole
      BY <1>0, <1>5, <2>1, WaitingWhole DEF Closed
    <2>3. /\ pc' = "end" /\ stream' = stream /\ wire' = wire /\ content' = content
          /\ reasoning' = reasoning
      BY <1>5 DEF Closed
    <2>4. Whole'
      BY <2>2, <2>3 DEF Whole, Received
    <2> QED
      BY <2>3, <2>4 DEF StreamInv
  <1>6. CASE InterruptStream
    <2>1. PICK p \in Nat : Parsed(p)
      BY <1>6 DEF InterruptStream, StreamInv
    <2>2. /\ pc' = "read" /\ stream' = stream /\ wire' = wire /\ content' = content
          /\ reasoning' = reasoning /\ buf' = buf
      BY <1>6 DEF InterruptStream
    <2>3. Parsed(p)'
      BY <2>1, <2>2 DEF Parsed
    <2> QED
      BY <2>2, <2>3 DEF StreamInv
  <1>7. CASE \/ HealthCheck \/ ReadLine \/ EndOfFile \/ Quit \/ Help \/ Reset \/ Think \/ SaveOpens
             \/ SaveWrites \/ Load \/ LoadFails \/ LoadBreaks \/ StartTurn \/ Arm \/ Refused \/ NoHeader
             \/ Truncated \/ ReadNothing \/ FinishTurn \/ InterruptCommand \/ InterruptTurn
    <2>1. pc' \notin {"read", "end"}
      BY <1>7 DEF HealthCheck, ReadLine, EndOfFile, Quit, Help, Reset, Think, SaveOpens, SaveWrites,
                  Load, LoadFails, LoadBreaks, StartTurn, Arm, Refused, NoHeader, Truncated,
                  ReadNothing, FinishTurn, InterruptCommand, InterruptTurn
    <2> QED
      BY <1>1, <2>1
  <1> QED
    BY <1>2, <1>3, <1>4, <1>5, <1>6, <1>7 DEF Next, Command, Turn

\* The invariant holds always.
LEMMA ChatAlways == Spec => []ChatInv
  <1>1. Init => ChatInv
    BY ChatInitially
  <1>2. ChatInv /\ [Next]_vars => ChatInv'
    <2> SUFFICES ASSUME ChatInv, [Next]_vars PROVE ChatInv'
      OBVIOUS
    <2>1. CASE Next
      BY <2>1, TypesKept, PromptKept, TalkKept, StreamKept DEF ChatInv
    <2>2. CASE UNCHANGED vars
      <3>1. /\ pc' = pc /\ history' = history /\ missed' = missed /\ file' = file
            /\ request' = request /\ handler' = handler /\ connected' = connected
            /\ stream' = stream /\ wire' = wire /\ buf' = buf /\ content' = content
            /\ reasoning' = reasoning /\ screen' = screen /\ line' = line
        BY <2>2 DEF vars, turn, user, kept
      <3>2. ChatTypes' /\ PromptInv' /\ TalkInv'
        BY <3>1 DEF ChatInv, ChatTypes, PromptInv, TalkInv
      <3>3. StreamInv'
        BY <3>1 DEF ChatInv, StreamInv, Parsed, Whole, Received
      <3> QED
        BY <3>2, <3>3 DEF ChatInv
    <2> QED
      BY <2>1, <2>2
  <1> QED
    BY <1>1, <1>2, PTL DEF Spec

\* At the prompt the terminal is not dim, SIGINT has its usual meaning and no
\* connection is open, whatever ended the turn (run_turn's finally, Renderer).
THEOREM PromptStaysClean == Spec => []PromptIsClean
  <1>1. ChatInv => PromptIsClean
    BY DEF ChatInv, PromptInv, PromptIsClean
  <1> QED
    BY <1>1, ChatAlways, PTL

\* A request fits the cap, or is as short as it can be, and asks the line that was
\* typed after an unbroken talk (History.prune_to_chars, run_turn).
THEOREM RequestsAskTheLine == Spec => []RequestAsksTheLine
  <1>1. ChatInv => RequestAsksTheLine
    <2> SUFFICES ASSUME ChatInv, pc = "turn"
                 PROVE  /\ Weight(request.messages) <= Cap
                           \/ Len(request.messages) <= Leading(request.messages) + 1
                        /\ ~ missed => /\ request.messages # <<>>
                                       /\ Last(request.messages) = Said("user", <<line>>, <<>>)
                                       /\ Paired(Front(request.messages))
      BY DEF RequestAsksTheLine
    <2> QED
      BY DEF ChatInv, TalkInv
  <1> QED
    BY <1>1, ChatAlways, PTL

\* However a stream is cut into reads, what a turn gathers is what its complete
\* lines say, and only the thinking is shown dim (parse_sse_stream, Renderer).
THEOREM RepliesAreTheStream == Spec => []ReplyIsTheStream
  <1>1. ChatInv => ReplyIsTheStream
    <2> SUFFICES ASSUME ChatInv PROVE ReplyIsTheStream
      OBVIOUS
    <2>1. ASSUME pc = "end" \/ (pc = "read" /\ ~ HasLine(buf))
          PROVE  Whole
      <3>1. CASE pc = "end"
        BY <3>1 DEF ChatInv, StreamInv
      <3>2. CASE pc = "read" /\ ~ HasLine(buf)
        <4>1. PICK p \in Nat : Parsed(p)
          BY <3>2 DEF ChatInv, StreamInv
        <4> QED
          BY <3>2, <4>1, WaitingWhole DEF ChatInv, ChatTypes
      <3> QED
        BY <2>1, <3>1, <3>2
    <2>2. ShownRight(screen)
      BY DEF ChatInv, PromptInv
    <2> QED
      BY <2>1, <2>2 DEF ReplyIsTheStream, Whole, Received, ShownRight
  <1> QED
    BY <1>1, ChatAlways, PTL
=============================================================================
