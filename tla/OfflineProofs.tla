---------------------------- MODULE OfflineProofs ----------------------------
(***************************************************************************)
(* Proofs about the programs beside the servers: the watermark study for   *)
(* any log and any candidates, the loading of any benchmark suites, a      *)
(* needle session and its replay of any length, the files of the A/B       *)
(* harness for any matrix, and the lock of any number of runners.          *)
(***************************************************************************)
EXTENDS Telemetry, Replay, AbHarness, BenchSuite, BenchLock,
        FiniteSetTheorems, FunctionTheorems, SequenceTheorems, TLAPS

(***************************************************************************)
(* The watermark study.                                                    *)
(***************************************************************************)

(***************************************************************************)
(* RowsAgree relates the rows of sums over sessions; it is not inductive.  *)
(* What makes it so is how the scan of one session stands: a watermark has *)
(* triggered exactly when the peak so far reaches it, and not after the    *)
(* peak.                                                                   *)
(***************************************************************************)

Record == {r \in [time : Int, counts : Seq(Int)] : Len(r.counts) <= 4}
Known  == 1 .. Len(log)

\* The log, and that whatever is grouped is a record of it.
LogTyped ==
  /\ log \in Seq(Record) /\ clock \in Int /\ day \in Nat
GroupsTyped ==
  /\ unread \subseteq Known /\ cur \in Seq(Known) /\ sessions \in Seq(Seq(Known))
  /\ stage = "log" => unread = {} /\ cur = <<>> /\ sessions = <<>>
ScanTyped ==
  /\ n \in Nat /\ pos \in Nat \ {0} /\ n # 0
  /\ best \in Int /\ peak \in 0 .. pos - 1 /\ first \in [Watermark -> 0 .. pos - 1]
RowsTyped ==
  /\ filled \in Nat
  /\ table \in [Watermark -> [triggered : Nat, leads : Int, false : Int]]

\* A watermark has triggered when the peak reaches it, and then no later.
ScanTrue ==
  \A w \in Watermark :
    /\ first[w] # 0 <=> best >= w
    /\ first[w] # 0 => first[w] <= peak

TableInv == LogTyped /\ GroupsTyped /\ ScanTyped /\ RowsTyped /\ ScanTrue /\ RowsAgree

LEMMA CountsOf ==
  ASSUME NEW s \in Seq(Int)
  PROVE  /\ DOMAIN s = 1 .. Len(s) /\ Len(s) \in Nat
         /\ \A i \in DOMAIN s : s[i] \in Int
  OBVIOUS

LEMMA LongerSeq ==
  ASSUME NEW S, NEW s \in Seq(S), NEW x \in S
  PROVE  Append(s, x) \in Seq(S) /\ <<x>> \in Seq(S)
  OBVIOUS

\* pick_tokens finds a number wherever there is one, and -1 where there is none.
LEMMA PickTokensInt ==
  ASSUME NEW r \in Record
  PROVE  PickTokens(r) \in Int
  <1>1. CASE ~ \E i \in DOMAIN r.counts : r.counts[i] >= 0
    BY <1>1 DEF PickTokens, Unset
  <1>2. CASE \E i \in DOMAIN r.counts : r.counts[i] >= 0
    <2>1. DOMAIN r.counts = 1 .. Len(r.counts) /\ Len(r.counts) \in 0 .. 4
          /\ \A i \in DOMAIN r.counts : r.counts[i] \in Int
      <3>1. r.counts \in Seq(Int) /\ Len(r.counts) <= 4
        BY DEF Record
      <3>2. Len(r.counts) \in Nat
        BY <3>1, CountsOf
      <3>2a. Len(r.counts) <= 4
        BY <3>1
      <3> DEFINE k == Len(r.counts)
      <3>2b. k \in Nat /\ k <= 4
        BY <3>2, <3>2a
      <3> HIDE DEF k
      <3>2c. k \in 0 .. 4
        BY <3>2b
      <3>3. Len(r.counts) \in 0 .. 4
        BY <3>2c DEF k
      <3>4. QED
        BY <3>1, <3>3, CountsOf
    <2>2. PICK i \in 1 .. 4 : i \in DOMAIN r.counts /\ r.counts[i] >= 0
      BY <1>2, <2>1
    <2> DEFINE Found(c) == c \in DOMAIN r.counts /\ r.counts[c] >= 0
    <2>3. \/ Found(1)
          \/ ~ Found(1) /\ Found(2)
          \/ ~ Found(1) /\ ~ Found(2) /\ Found(3)
          \/ ~ Found(1) /\ ~ Found(2) /\ ~ Found(3) /\ Found(4)
      <3>1. i = 1 \/ i = 2 \/ i = 3 \/ i = 4
        OBVIOUS
      <3>2. QED
        BY <2>2, <3>1
    <2>4. \E c \in DOMAIN r.counts : r.counts[c] >= 0 /\ \A k \in 1 .. c - 1 : r.counts[k] < 0
      <3>1. \A c \in 1 .. 4 : ~ Found(c) /\ (\E b \in DOMAIN r.counts : b > c) => r.counts[c] < 0
        BY <2>1
      <3>2. CASE Found(1)
        BY <3>2
      <3>3. CASE ~ Found(1) /\ Found(2)
        <4>1. \A k \in 1 .. 2 - 1 : r.counts[k] < 0
          BY <3>1, <3>3
        <4>2. QED
          BY <3>3, <4>1
      <3>4. CASE ~ Found(1) /\ ~ Found(2) /\ Found(3)
        <4>1. \A k \in 1 .. 3 - 1 : r.counts[k] < 0
          BY <3>1, <3>4
        <4>2. QED
          BY <3>4, <4>1
      <3>5. CASE ~ Found(1) /\ ~ Found(2) /\ ~ Found(3) /\ Found(4)
        <4>1. \A k \in 1 .. 4 - 1 : r.counts[k] < 0
          BY <3>1, <3>5
        <4>2. QED
          BY <3>5, <4>1
      <3>6. QED
        BY <2>3, <3>2, <3>3, <3>4, <3>5
    <2>5. PickTokens(r) = r.counts[CHOOSE c \in DOMAIN r.counts :
                            r.counts[c] >= 0 /\ \A k \in 1 .. c - 1 : r.counts[k] < 0]
      BY <1>2 DEF PickTokens
    <2>6. QED
      BY <2>4, <2>5 DEF Record
  <1>3. QED
    BY <1>1, <1>2

\* A record added to the log leaves what was there.
LEMMA LogGrows ==
  ASSUME LogTyped, NEW r \in Record, log' = Append(log, r)
  PROVE  log' \in Seq(Record) /\ Known \subseteq Known'
  BY DEF LogTyped, Known

\* The steps that write the log find nothing grouped yet.
LEMMA WritingKeeps ==
  ASSUME TableInv, stage = "log", stage' = "log", LogTyped',
         UNCHANGED <<grouping, scan, report>>
  PROVE  TableInv'
  <1>1. GroupsTyped'
    BY DEF TableInv, GroupsTyped, grouping, Known
  <1>2. ScanTyped' /\ RowsTyped' /\ ScanTrue' /\ RowsAgree'
    BY DEF TableInv, ScanTyped, RowsTyped, ScanTrue, RowsAgree, scan, report
  <1>3. QED
    BY <1>1, <1>2 DEF TableInv

\* The steps that group the log leave it and the rows alone.
LEMMA GroupingKeeps ==
  ASSUME TableInv, UNCHANGED <<writing, scan, report>>, GroupsTyped'
  PROVE  TableInv'
  BY DEF TableInv, LogTyped, ScanTyped, RowsTyped, ScanTrue, RowsAgree, writing, scan, report

\* One request of a session: the new peak is where the new triggers are.
LEMMA ScanStep ==
  ASSUME TableInv, ScanRequest
  PROVE  TableInv'
  <1> DEFINE r == Ratio(sessions[n][pos])
  <1>1. r \in Int
    <2>1. sessions[n] \in Seq(Known) /\ pos \in 1 .. Len(sessions[n])
      BY DEF ScanRequest, TableInv, GroupsTyped, ScanTyped
    <2>2. sessions[n][pos] \in 1 .. Len(log)
      BY <2>1 DEF Known
    <2>3. log[sessions[n][pos]] \in Record
      BY <2>2 DEF TableInv, LogTyped
    <2>4. QED
      BY <2>3, PickTokensInt DEF Ratio
  <1>2. /\ best' = (IF r > best THEN r ELSE best) /\ peak' = (IF r > best THEN pos ELSE peak)
        /\ first' = [w \in Watermark |-> IF first[w] = 0 /\ r >= w THEN pos ELSE first[w]]
        /\ pos' = pos + 1 /\ n' = n
    BY DEF ScanRequest, Triggered
  <1>3. UNCHANGED <<stage, writing, grouping, report>>
    BY DEF ScanRequest
  <1> HIDE DEF r
  <1>4. ScanTyped'
    BY <1>1, <1>2 DEF TableInv, ScanTyped
  <1>5. ScanTrue'
    <2> SUFFICES ASSUME NEW w \in Watermark
                 PROVE  (first[w] # 0 <=> best >= w)' /\ (first[w] # 0 => first[w] <= peak)'
      BY DEF ScanTrue
    <2>1. w \in Int /\ first[w] \in 0 .. pos - 1 /\ pos \in Nat \ {0} /\ best \in Int /\ peak \in Nat
      BY WatermarkAssumption DEF TableInv, ScanTyped
    <2>2. (first[w] # 0 <=> best >= w) /\ (first[w] # 0 => first[w] <= peak)
      BY DEF TableInv, ScanTrue
    <2>3. first'[w] = IF first[w] = 0 /\ r >= w THEN pos ELSE first[w]
      BY <1>2
    <2>4. QED
      BY <1>1, <1>2, <2>1, <2>2, <2>3
  <1>6. LogTyped' /\ GroupsTyped' /\ RowsTyped' /\ RowsAgree'
    BY <1>3 DEF TableInv, LogTyped, GroupsTyped, RowsTyped, RowsAgree, Known, writing, grouping, report
  <1>7. QED
    BY <1>4, <1>5, <1>6 DEF TableInv

\* The end of a session: its part of every row, and of the filled sessions.
LEMMA CloseStep ==
  ASSUME TableInv, CloseSession
  PROVE  TableInv'
  <1>1. /\ filled' = filled + (IF best >= Fill THEN 1 ELSE 0)
        /\ table' = [w \in Watermark |-> Added(table[w], w)]
        /\ n' = n + 1 /\ pos' = 1 /\ best' = Unset /\ peak' = 0
        /\ first' = [w \in Watermark |-> 0]
        /\ UNCHANGED <<stage, writing, grouping>>
    BY DEF CloseSession
  <1>2. ScanTyped' /\ ScanTrue'
    BY <1>1, WatermarkAssumption DEF TableInv, ScanTyped, ScanTrue, Unset
  <1>3. LogTyped' /\ GroupsTyped'
    BY <1>1 DEF TableInv, LogTyped, GroupsTyped, Known, writing, grouping
  <1>4. ASSUME NEW w \in Watermark
        PROVE  /\ table[w] \in [triggered : Nat, leads : Int, false : Int]
               /\ w \in Int /\ first[w] \in Nat /\ peak \in Nat /\ best \in Int
               /\ (first[w] # 0 <=> best >= w) /\ (first[w] # 0 => first[w] <= peak)
               /\ table'[w] = Added(table[w], w)
    BY <1>1, WatermarkAssumption DEF TableInv, RowsTyped, ScanTyped, ScanTrue
  <1>5. filled \in Nat /\ Fill \in Int /\ \A w \in Watermark : w <= Fill
    BY WatermarkAssumption DEF TableInv, RowsTyped
  <1>6. ASSUME NEW w \in Watermark
        PROVE  table'[w] = IF best < w THEN table[w]
                           ELSE [triggered |-> table[w].triggered + 1,
                                 leads |-> table[w].leads + (peak - first[w]),
                                 false |-> table[w].false + (IF best < Fill THEN 1 ELSE 0)]
    BY <1>4 DEF Added
  <1>6a. ASSUME NEW w \in Watermark, best < w
         PROVE  table'[w] = table[w]
    BY <1>6, <1>6a
  <1>6b. ASSUME NEW w \in Watermark, ~ (best < w)
         PROVE  /\ table'[w] \in [triggered : Nat, leads : Int, false : Int]
                /\ table'[w].triggered = table[w].triggered + 1
                /\ table'[w].leads = table[w].leads + (peak - first[w])
                /\ table'[w].false = table[w].false + (IF best < Fill THEN 1 ELSE 0)
    <2>1. /\ table[w].triggered \in Nat /\ table[w].leads \in Int /\ table[w].false \in Int
          /\ peak \in Nat /\ first[w] \in Nat
      BY <1>4
    <2>2. /\ table[w].triggered + 1 \in Nat /\ table[w].leads + (peak - first[w]) \in Int
          /\ table[w].false + (IF best < Fill THEN 1 ELSE 0) \in Int
      BY <2>1
    <2>3. table'[w] = [triggered |-> table[w].triggered + 1,
                       leads |-> table[w].leads + (peak - first[w]),
                       false |-> table[w].false + (IF best < Fill THEN 1 ELSE 0)]
      BY <1>6, <1>6b
    <2>4. QED
      BY <2>2, <2>3
  <1>7. RowsTyped'
    <2>1. \A w \in Watermark : table'[w] \in [triggered : Nat, leads : Int, false : Int]
      <3> SUFFICES ASSUME NEW w \in Watermark
                   PROVE  table'[w] \in [triggered : Nat, leads : Int, false : Int]
        OBVIOUS
      <3>1. CASE best < w
        BY <1>4, <1>6a, <3>1
      <3>2. CASE ~ (best < w)
        BY <1>6b, <3>2
      <3>3. QED
        BY <3>1, <3>2
    <2>2. QED
      BY <1>1, <1>5, <2>1 DEF RowsTyped
  <1>8. RowsAgree'
    <2> SUFFICES ASSUME NEW w \in Watermark
                 PROVE  /\ table'[w].false = table'[w].triggered - filled'
                        /\ table'[w].leads >= 0 /\ table'[w].triggered >= filled'
                        /\ \A v \in Watermark : v < w => table'[v].triggered >= table'[w].triggered
      BY DEF RowsAgree
    <2>1. /\ table[w].false = table[w].triggered - filled
          /\ table[w].leads >= 0 /\ table[w].triggered >= filled
          /\ \A v \in Watermark : v < w => table[v].triggered >= table[w].triggered
      BY DEF TableInv, RowsAgree
    <2>2. /\ table'[w].false = table'[w].triggered - filled'
          /\ table'[w].leads >= 0 /\ table'[w].triggered >= filled'
      <3>1. /\ table[w].triggered \in Nat /\ table[w].leads \in Int /\ table[w].false \in Int
            /\ peak \in Nat /\ first[w] \in Nat /\ w \in Int /\ best \in Int
            /\ (first[w] # 0 <=> best >= w) /\ (first[w] # 0 => first[w] <= peak)
        BY <1>4
      <3>2. filled' = filled + (IF best >= Fill THEN 1 ELSE 0) /\ w <= Fill
        BY <1>1, <1>5
      <3>3. CASE best < w
        <4>1. table'[w] = table[w]
          BY <1>6a, <3>3
        <4>2. filled' = filled
          BY <3>1, <3>2, <3>3, <1>5
        <4>3. QED
          BY <2>1, <4>1, <4>2
      <3>4. CASE ~ (best < w)
        <4>1. /\ table'[w].triggered = table[w].triggered + 1
              /\ table'[w].leads = table[w].leads + (peak - first[w])
              /\ table'[w].false = table[w].false + (IF best < Fill THEN 1 ELSE 0)
          BY <1>6b, <3>4
        <4>2. first[w] <= peak
          BY <3>1, <3>4
        <4>3. QED
          BY <1>5, <2>1, <3>1, <3>2, <4>1, <4>2
      <3>5. QED
        BY <3>3, <3>4
    <2>3. ASSUME NEW v \in Watermark, v < w
          PROVE  table'[v].triggered >= table'[w].triggered
      <3>1. table[v].triggered >= table[w].triggered
        BY <2>1, <2>3
      <3>2. table[v].triggered \in Nat /\ table[w].triggered \in Nat /\ v \in Int /\ w \in Int /\ best \in Int
        BY <1>4
      <3>3. table'[v].triggered = table[v].triggered + (IF best < v THEN 0 ELSE 1)
        <4>1. CASE best < v
          BY <1>6a, <3>2, <4>1
        <4>2. CASE ~ (best < v)
          BY <1>6b, <3>2, <4>2
        <4>3. QED
          BY <4>1, <4>2
      <3>4. table'[w].triggered = table[w].triggered + (IF best < w THEN 0 ELSE 1)
        <4>1. CASE best < w
          BY <1>6a, <3>2, <4>1
        <4>2. CASE ~ (best < w)
          BY <1>6b, <3>2, <4>2
        <4>3. QED
          BY <4>1, <4>2
      <3>5. QED
        BY <2>3, <3>1, <3>2, <3>3, <3>4
    <2>4. QED
      BY <2>2, <2>3
  <1>9. QED
    BY <1>2, <1>3, <1>7, <1>8 DEF TableInv

LEMMA TableInit == TelemetryInit => TableInv
  BY WatermarkAssumption
  DEF TelemetryInit, TelemetryIn, TableInv, LogTyped, GroupsTyped, ScanTyped, RowsTyped, ScanTrue,
      RowsAgree, NoRow, Unset

\* Every step keeps the invariant.
LEMMA TableStep == TableInv /\ [TelemetryNext]_telemetry => TableInv'
  <1> SUFFICES ASSUME TableInv, [TelemetryNext]_telemetry PROVE TableInv'
    OBVIOUS
  <1>1. CASE LogRequest
    <2>1. PICK r \in Logged : log' = Append(log, r)
      BY <1>1 DEF LogRequest
    <2>2. r \in Record
      BY RecordAssumption DEF Record
    <2>3. LogTyped'
      BY <1>1, <2>1, <2>2, LogGrows DEF LogRequest, TableInv, LogTyped
    <2>4. QED
      BY <1>1, <2>3, WritingKeeps DEF LogRequest
  <1>2. CASE SynthesizeRequest
    <2>1. PICK s \in Size, p \in Pause : log' = Append(log, [time |-> clock, counts |-> <<s>>])
                                        /\ clock' = clock + p
      BY <1>2 DEF SynthesizeRequest
    <2>2. [time |-> clock, counts |-> <<s>>] \in Record
      <3>1. clock \in Int /\ <<s>> \in Seq(Int) /\ Len(<<s>>) = 1
        BY RecordAssumption DEF TableInv, LogTyped
      <3> DEFINE q == [time |-> clock, counts |-> <<s>>]
      <3>2. q.counts = <<s>>
        OBVIOUS
      <3>3. q \in [time : Int, counts : Seq(Int)]
        BY <3>1
      <3>4. Len(q.counts) <= 4
        BY <3>1, <3>2
      <3> HIDE DEF q
      <3>5. q \in Record
        BY <3>3, <3>4 DEF Record
      <3>6. QED
        BY <3>5 DEF q
    <2>3. LogTyped'
      BY <1>2, <2>1, <2>2, LogGrows, GapAssumption DEF SynthesizeRequest, TableInv, LogTyped
    <2>4. QED
      BY <1>2, <2>3, WritingKeeps DEF SynthesizeRequest
  <1>3. CASE NextSession
    <2>1. LogTyped'
      BY <1>3, GapAssumption DEF NextSession, TableInv, LogTyped
    <2>2. QED
      BY <1>3, <2>1, WritingKeeps DEF NextSession
  <1>4. CASE NextDay
    <2>1. LogTyped'
      BY <1>4, RecordAssumption DEF NextDay, TableInv, LogTyped
    <2>2. QED
      BY <1>4, <2>1, WritingKeeps DEF NextDay
  <1>5. CASE StartAnalysis
    <2>1. Usable \subseteq Known /\ Known' = Known
      BY <1>5 DEF Usable, Known, StartAnalysis, TableInv, LogTyped, writing
    <2>2. GroupsTyped'
      BY <1>5, <2>1 DEF StartAnalysis, TableInv, GroupsTyped
    <2>3. QED
      BY <1>5, <2>2, GroupingKeeps DEF StartAnalysis
  <1>6. CASE TakeRecord
    <2>1. PICK i \in unread :
            /\ unread' = unread \ {i} /\ stage' = "group" /\ UNCHANGED log
            /\ \/ sessions' = Append(sessions, cur) /\ cur' = <<i>>
               \/ sessions' = sessions /\ cur' = Append(cur, i)
      BY <1>6 DEF TakeRecord, writing
    <2>2. i \in Known /\ unread \subseteq Known /\ cur \in Seq(Known) /\ sessions \in Seq(Seq(Known))
      BY DEF TableInv, GroupsTyped
    <2>3. cur' \in Seq(Known) /\ sessions' \in Seq(Seq(Known)) /\ unread' \subseteq Known
      <3>1. CASE sessions' = Append(sessions, cur) /\ cur' = <<i>>
        BY <2>1, <2>2, <3>1, LongerSeq
      <3>2. CASE sessions' = sessions /\ cur' = Append(cur, i)
        BY <2>1, <2>2, <3>2, LongerSeq
      <3>3. QED
        BY <2>1, <3>1, <3>2
    <2>4. GroupsTyped'
      BY <2>1, <2>3 DEF GroupsTyped, Known
    <2>5. QED
      BY <1>6, <2>4, GroupingKeeps DEF TakeRecord
  <1>7. CASE LastSession
    <2>1. GroupsTyped'
      BY <1>7 DEF LastSession, TableInv, GroupsTyped, Known, writing
    <2>2. QED
      BY <1>7, <2>1, GroupingKeeps DEF LastSession
  <1>8. CASE ScanRequest
    BY <1>8, ScanStep
  <1>9. CASE CloseSession
    BY <1>9, CloseStep
  <1>10. CASE Suggest
    <2>1. GroupsTyped'
      BY <1>10 DEF Suggest, TableInv, GroupsTyped, Known, writing, grouping
    <2>2. QED
      BY <1>10, <2>1, GroupingKeeps DEF Suggest
  <1>11. CASE UNCHANGED telemetry
    BY <1>11
    DEF telemetry, writing, grouping, scan, report, TableInv, LogTyped, GroupsTyped, Known, ScanTyped,
        RowsTyped, ScanTrue, RowsAgree
  <1>12. QED
    BY <1>1, <1>2, <1>3, <1>4, <1>5, <1>6, <1>7, <1>8, <1>9, <1>10, <1>11 DEF TelemetryNext

\* Of any log, in any order of its records and for any candidates, the rows of
\* the report agree with one another (analyze-watermarks.py 119-177).
THEOREM RowsAlwaysAgree == TelemetrySpec => []RowsAgree
  <1>1. TableInv => RowsAgree
    BY DEF TableInv
  <1>2. QED
    BY TableInit, TableStep, <1>1, PTL DEF TelemetrySpec

(***************************************************************************)
(* The suggestion.  The rates are compared by their cross products; by the *)
(* rows' agreement the rate of v is at most that of w exactly when v       *)
(* triggers no more often, and equally often means an equal divisor.       *)
(***************************************************************************)

\* The comparison of two rates and of two averages, of rows that agree.
LEMMA Products ==
  ASSUME NEW f \in Nat, f > 0, NEW t \in Nat, NEW u \in Nat, NEW k \in Int, NEW m \in Int, t >= f,
         ~ ((t - f) * u < (u - f) * t),
         ~ ((t - f) * u = (u - f) * t /\ k * u > m * t)
  PROVE  t >= u /\ (t = u => k <= m)
  <1>1. (t - f) * u = t * u - f * u /\ (u - f) * t = u * t - f * t /\ t * u = u * t
    OBVIOUS
  <1>2. t * u \in Int /\ f * u \in Int /\ f * t \in Int
    OBVIOUS
  <1>3. f * u <= f * t
    BY <1>1, <1>2
  <1>4. t >= u
    <2> SUFFICES ASSUME t < u PROVE FALSE
      OBVIOUS
    <2>1. u = t + (u - t) /\ u - t \in Nat /\ u - t >= 1
      OBVIOUS
    <2>2. f * (u - t) >= 1
      BY <2>1
    <2>3. f * u = f * t + f * (u - t)
      OBVIOUS
    <2>4. f * (u - t) \in Int
      BY <2>1
    <2>5. QED
      BY <1>2, <1>3, <2>2, <2>3, <2>4
  <1>5. ASSUME t = u PROVE k <= m
    BY <1>5
  <1>6. QED
    BY <1>4, <1>5

\* What the choice of a candidate gives, from rows that agree.
LEMMA SuggestStep ==
  ASSUME TableInv, Suggest
  PROVE  SuggestionBest'
  <1> SUFFICES ASSUME filled > 0
               PROVE  /\ suggestion' \in Watermark
                      /\ table[suggestion'].triggered >= filled
                      /\ \A w \in Watermark :
                           /\ table[w].triggered >= table[suggestion'].triggered
                           /\ table[w].triggered = table[suggestion'].triggered =>
                                table[w].leads <= table[suggestion'].leads
    BY DEF SuggestionBest, Suggest, report
  <1>1. \A w \in Watermark :
          /\ table[w].triggered \in Nat /\ table[w].leads \in Int
          /\ table[w].false = table[w].triggered - filled /\ table[w].triggered >= filled
    BY DEF TableInv, RowsTyped, RowsAgree
  <1>2. filled \in Nat
    BY DEF TableInv, RowsTyped
  <1>3. Candidates = Watermark
    BY <1>1, <1>2 DEF Candidates
  <1>4. suggestion' \in Watermark /\ \A v \in Watermark : ~ Preferred(v, suggestion')
    <2>1. Watermark # {} /\ filled # 0
      BY <1>2, WatermarkAssumption
    <2>2. \E w \in Candidates :
            /\ \A v \in Candidates : ~ Preferred(v, w) /\ (v < w => Preferred(w, v))
            /\ suggestion' = w
      BY <1>3, <2>1 DEF Suggest
    <2>3. QED
      BY <1>3, <2>2
  <1>5. PICK s \in Watermark : s = suggestion'
    BY <1>4
  <1>6. ASSUME NEW w \in Watermark
        PROVE  table[w].triggered >= table[s].triggered
               /\ (table[w].triggered = table[s].triggered => table[w].leads <= table[s].leads)
    <2>1. ~ Preferred(w, s)
      BY <1>4, <1>5
    <2> DEFINE t == table[w].triggered
               u == table[s].triggered
               k == table[w].leads
               m == table[s].leads
    <2>2. ~ ((t - filled) * u < (u - filled) * t)
          /\ ~ ((t - filled) * u = (u - filled) * t /\ k * u > m * t)
      BY <1>1, <2>1 DEF Preferred
    <2>3. t \in Nat /\ u \in Nat /\ k \in Int /\ m \in Int /\ t >= filled
      BY <1>1
    <2> HIDE DEF t, u, k, m
    <2>4. t >= u /\ (t = u => k <= m)
      BY <1>2, <2>2, <2>3, Products
    <2>5. QED
      BY <2>4 DEF t, u, k, m
  <1>7. QED
    BY <1>1, <1>4, <1>5, <1>6

\* Of any log with a filled session the suggestion is a candidate with the fewest
\* false positives and, among those, with the longest lead: exact, for it compares
\* rates without dividing (analyze-watermarks.py 179-200).
THEOREM SuggestsTheBest == TelemetrySpec => []SuggestionBest
  <1>1. TelemetryInit => TableInv /\ SuggestionBest
    BY TableInit DEF TelemetryInit, TelemetryIn, SuggestionBest
  <1>2. TableInv /\ SuggestionBest /\ [TelemetryNext]_telemetry => SuggestionBest'
    <2> SUFFICES ASSUME TableInv, SuggestionBest, [TelemetryNext]_telemetry PROVE SuggestionBest'
      OBVIOUS
    <2>1. CASE Suggest
      BY <2>1, SuggestStep
    <2>2. CASE UNCHANGED telemetry
      BY <2>2 DEF telemetry, report, SuggestionBest
    <2>3. CASE LogRequest \/ SynthesizeRequest \/ NextSession \/ NextDay \/ StartAnalysis
               \/ TakeRecord \/ LastSession \/ ScanRequest \/ CloseSession
      <3>1. stage' # "done"
        BY <2>3 DEF LogRequest, SynthesizeRequest, NextSession, NextDay, StartAnalysis, TakeRecord,
                    LastSession, ScanRequest, CloseSession
      <3>2. QED
        BY <3>1 DEF SuggestionBest
    <2>4. QED
      BY <2>1, <2>2, <2>3 DEF TelemetryNext
  <1>3. QED
    BY TableStep, <1>1, <1>2, PTL DEF TelemetrySpec

(***************************************************************************)
(* The sessions.  While records are taken the session at hand counts as    *)
(* one of them.                                                            *)
(***************************************************************************)

Groups       == IF stage = "group" THEN Append(sessions, cur) ELSE sessions
PlacesOf(ss) == UNION {{s} \X DOMAIN ss[s] : s \in DOMAIN ss}
At(ss, a)    == ss[a[1]][a[2]]
\* Place b follows place a in its session, or begins the session after that of a.
Follows(a, b)    == a[1] = b[1] /\ b[2] = a[2] + 1
Begins(ss, a, b) == b[1] = a[1] + 1 /\ a[2] = Len(ss[a[1]]) /\ b[2] = 1
Silence(ss, a, b) == log[At(ss, b)].time - log[At(ss, a)].time

\* The places hold the records of T, each once, and silences part the sessions.
Holds(ss, T) ==
  /\ \A a \in PlacesOf(ss) : At(ss, a) \in T
  /\ \A i \in T : \E a \in PlacesOf(ss) : At(ss, a) = i
  /\ \A a, b \in PlacesOf(ss) : At(ss, a) = At(ss, b) => a = b
Parted(ss) ==
  \A a, b \in PlacesOf(ss) :
    /\ Follows(a, b) => Silence(ss, a, b) \in 0 .. Gap
    /\ Begins(ss, a, b) => Silence(ss, a, b) > Gap

Grouping == stage \in {"group", "analyze", "done"}
GroupInv ==
  /\ Grouping => unread \subseteq Usable /\ Holds(Groups, Usable \ unread) /\ Parted(Groups)
  /\ Grouping => \A s \in DOMAIN sessions : sessions[s] # <<>>
  /\ stage = "log" => last = Unset
  /\ stage = "group" =>
       /\ Usable # {} /\ (cur = <<>> => sessions = <<>>)
       /\ last = IF cur = <<>> THEN Unset ELSE log[cur[Len(cur)]].time
       /\ \A i \in unread : last <= log[i].time
  /\ stage \in {"analyze", "done"} => unread = {}

LEMMA APlace ==
  ASSUME NEW S, NEW ss \in Seq(Seq(S))
  PROVE  /\ \A s, j : <<s, j>> \in PlacesOf(ss) <=> s \in 1 .. Len(ss) /\ j \in 1 .. Len(ss[s])
         /\ \A a \in PlacesOf(ss) : /\ a = <<a[1], a[2]>> /\ a[1] \in 1 .. Len(ss)
                                    /\ a[2] \in 1 .. Len(ss[a[1]]) /\ At(ss, a) \in S
<1>1. DOMAIN ss = 1 .. Len(ss) /\ \A s \in 1 .. Len(ss) : DOMAIN ss[s] = 1 .. Len(ss[s]) /\ ss[s] \in Seq(S)
  OBVIOUS
<1>2. \A s, j : <<s, j>> \in PlacesOf(ss) <=> s \in 1 .. Len(ss) /\ j \in 1 .. Len(ss[s])
  BY <1>1 DEF PlacesOf
<1>3. \A a \in PlacesOf(ss) : a = <<a[1], a[2]>>
  BY DEF PlacesOf
<1>4. ASSUME NEW a \in PlacesOf(ss)
      PROVE  a[1] \in 1 .. Len(ss) /\ a[2] \in 1 .. Len(ss[a[1]])
  BY <1>2, <1>3
<1>5. ASSUME NEW a \in PlacesOf(ss)
      PROVE  At(ss, a) \in S
  BY <1>1, <1>4, ElementOfSeq DEF At
<1> QED  BY <1>2, <1>3, <1>4, <1>5

\* H is G and record i, in place q after all the others.
GrowsBy(G, H, q, i) ==
  /\ PlacesOf(H) = PlacesOf(G) \cup {q} /\ q \notin PlacesOf(G) /\ At(H, q) = i
  /\ \A a \in PlacesOf(G) : At(H, a) = At(G, a)
  /\ \A a, b \in PlacesOf(G) : Begins(H, a, b) => Begins(G, a, b)
  /\ \A b \in PlacesOf(H) : ~ Follows(q, b) /\ ~ Begins(H, q, b)

LEMMA HoldsOneMore ==
  ASSUME NEW G, NEW H, NEW T, NEW q, NEW i, i \notin T, Holds(G, T), GrowsBy(G, H, q, i)
  PROVE  Holds(H, T \cup {i})
<1> USE DEF GrowsBy
<1>1. \A a \in PlacesOf(H) : At(H, a) \in T \cup {i}
  BY DEF Holds
<1>2. \A k \in T \cup {i} : \E a \in PlacesOf(H) : At(H, a) = k
  BY DEF Holds
<1>3. ASSUME NEW a \in PlacesOf(H), NEW b \in PlacesOf(H), At(H, a) = At(H, b)
      PROVE  a = b
  <2>1. CASE a = q
    BY <1>3, <2>1 DEF Holds
  <2>2. CASE a # q /\ b = q
    BY <1>3, <2>2 DEF Holds
  <2>3. CASE a # q /\ b # q
    BY <1>3, <2>3 DEF Holds
  <2> QED  BY <2>1, <2>2, <2>3
<1> QED  BY <1>1, <1>2, <1>3 DEF Holds

LEMMA PartedOneMore ==
  ASSUME NEW G, NEW H, NEW q, NEW i, Parted(G), GrowsBy(G, H, q, i),
         \A a \in PlacesOf(G) : /\ Follows(a, q) => Silence(H, a, q) \in 0 .. Gap
                                /\ Begins(H, a, q) => Silence(H, a, q) > Gap
  PROVE  Parted(H)
<1> USE DEF GrowsBy
<1> SUFFICES ASSUME NEW a \in PlacesOf(H), NEW b \in PlacesOf(H)
             PROVE  /\ Follows(a, b) => Silence(H, a, b) \in 0 .. Gap
                    /\ Begins(H, a, b) => Silence(H, a, b) > Gap
  BY DEF Parted
<1>1. CASE a = q
  BY <1>1
<1>2. CASE a \in PlacesOf(G) /\ b = q
  BY <1>2
<1>3. CASE a \in PlacesOf(G) /\ b \in PlacesOf(G)
  <2>1. Silence(H, a, b) = Silence(G, a, b)
    BY <1>3 DEF Silence
  <2> QED  BY <1>3, <2>1 DEF Parted
<1> QED  BY <1>1, <1>2, <1>3
LEMMA AppendIs ==
  ASSUME NEW S, NEW s \in Seq(S), NEW x \in S
  PROVE  /\ Append(s, x) \in Seq(S) /\ Len(s) \in Nat /\ Len(Append(s, x)) = Len(s) + 1
         /\ Append(s, x)[Len(s) + 1] = x
         /\ \A j \in 1 .. Len(s) : Append(s, x)[j] = s[j]
  OBVIOUS

\* Record i continues the last session, c, of ss.
Continues(ss, c, i) ==
  LET G == Append(ss, c)
      H == Append(ss, Append(c, i))
      q == <<Len(ss) + 1, Len(c) + 1>>
  IN /\ GrowsBy(G, H, q, i)
     /\ \A a \in PlacesOf(G) : Follows(a, q) => Len(c) > 0 /\ At(H, a) = c[Len(c)]
     /\ \A a \in PlacesOf(G) : Begins(H, a, q) => c = <<>> /\ ss # <<>>

LEMMA Continued ==
  ASSUME NEW S, NEW ss \in Seq(Seq(S)), NEW c \in Seq(S), NEW i \in S
  PROVE  Continues(ss, c, i)
<1> DEFINE d == Append(c, i)
           G == Append(ss, c)
           H == Append(ss, d)
           q == <<Len(ss) + 1, Len(c) + 1>>
<1>1. /\ d \in Seq(S) /\ Len(d) = Len(c) + 1 /\ d[Len(c) + 1] = i /\ Len(c) \in Nat
      /\ \A j \in 1 .. Len(c) : d[j] = c[j]
  BY AppendIs
<1>2. /\ G \in Seq(Seq(S)) /\ H \in Seq(Seq(S)) /\ Len(ss) \in Nat
      /\ Len(G) = Len(ss) + 1 /\ Len(H) = Len(ss) + 1
      /\ G[Len(ss) + 1] = c /\ H[Len(ss) + 1] = d
      /\ \A s \in 1 .. Len(ss) : G[s] = ss[s] /\ H[s] = ss[s]
  BY <1>1, AppendIs
<1>3. \A s, j : <<s, j>> \in PlacesOf(G) <=> s \in 1 .. Len(ss) + 1 /\ j \in 1 .. Len(G[s])
  BY <1>2, APlace
<1>4. \A s, j : <<s, j>> \in PlacesOf(H) <=> s \in 1 .. Len(ss) + 1 /\ j \in 1 .. Len(H[s])
  BY <1>2, APlace
<1>5. /\ \A a \in PlacesOf(G) : /\ a = <<a[1], a[2]>> /\ a[1] \in 1 .. Len(ss) + 1
                                /\ a[2] \in 1 .. Len(G[a[1]])
      /\ \A a \in PlacesOf(H) : /\ a = <<a[1], a[2]>> /\ a[1] \in 1 .. Len(ss) + 1
                                /\ a[2] \in 1 .. Len(H[a[1]])
  BY <1>2, APlace
<1>6. q = <<Len(ss) + 1, Len(c) + 1>> /\ q[1] = Len(ss) + 1 /\ q[2] = Len(c) + 1
  OBVIOUS
<1>0. Continues(ss, c, i) <=>
        /\ GrowsBy(G, H, q, i)
        /\ \A a \in PlacesOf(G) : Follows(a, q) => Len(c) > 0 /\ At(H, a) = c[Len(c)]
        /\ \A a \in PlacesOf(G) : Begins(H, a, q) => c = <<>> /\ ss # <<>>
  BY DEF Continues
<1> HIDE DEF d, G, H, q
<1>7. PlacesOf(H) = PlacesOf(G) \cup {q} /\ q \notin PlacesOf(G)
  <2>1. ASSUME NEW a \in PlacesOf(G)
        PROVE  a \in PlacesOf(H) /\ a # q
    <3>1. CASE a[1] \in 1 .. Len(ss)
      <4>1. a[1] \in 1 .. Len(ss) + 1 /\ H[a[1]] = G[a[1]] /\ a[1] # Len(ss) + 1
        BY <1>2, <3>1
      <4>2. <<a[1], a[2]>> \in PlacesOf(H)
        BY <1>4, <1>5, <4>1
      <4> QED  BY <1>5, <1>6, <4>1, <4>2
    <3>2. CASE a[1] = Len(ss) + 1
      <4>1. a[2] \in 1 .. Len(c)
        BY <1>2, <1>5, <3>2
      <4>2. a[2] \in 1 .. Len(H[a[1]]) /\ a[2] # Len(c) + 1
        BY <1>1, <1>2, <3>2, <4>1
      <4> QED  BY <1>4, <1>5, <1>6, <4>2
    <3> QED  BY <1>2, <1>5, <3>1, <3>2
  <2>2. ASSUME NEW a \in PlacesOf(H), a # q
        PROVE  a \in PlacesOf(G)
    <3>1. CASE a[1] \in 1 .. Len(ss)
      BY <1>2, <1>3, <1>5, <3>1
    <3>2. CASE a[1] = Len(ss) + 1
      <4>1. a[2] \in 1 .. Len(c) + 1
        BY <1>1, <1>2, <1>5, <3>2
      <4>2. a[2] # Len(c) + 1
        BY <1>5, <1>6, <2>2, <3>2
      <4>3. a[2] \in 1 .. Len(G[a[1]])
        BY <1>1, <1>2, <3>2, <4>1, <4>2
      <4> QED  BY <1>3, <1>5, <4>3
    <3> QED  BY <1>2, <1>5, <3>1, <3>2
  <2>3. q \in PlacesOf(H)
    <3>1. Len(c) + 1 \in 1 .. Len(H[Len(ss) + 1]) /\ Len(ss) + 1 \in 1 .. Len(ss) + 1
      BY <1>1, <1>2
    <3> QED  BY <1>4, <1>6, <3>1
  <2> QED  BY <2>1, <2>2, <2>3
<1>8. At(H, q) = i
  BY <1>1, <1>2, <1>6 DEF At
<1>9. \A a \in PlacesOf(G) : At(H, a) = At(G, a)
  <2> SUFFICES ASSUME NEW a \in PlacesOf(G) PROVE H[a[1]][a[2]] = G[a[1]][a[2]]
    BY DEF At
  <2>1. CASE a[1] \in 1 .. Len(ss)
    <3>1. H[a[1]] = G[a[1]]
      BY <1>2, <2>1
    <3> QED  BY <3>1
  <2>2. CASE a[1] = Len(ss) + 1
    <3>1. a[2] \in 1 .. Len(c)
      BY <1>2, <1>5, <2>2
    <3> QED  BY <1>1, <1>2, <2>2, <3>1
  <2> QED  BY <1>2, <1>5, <2>1, <2>2
<1>10. \A a, b \in PlacesOf(G) : Begins(H, a, b) => Begins(G, a, b)
  <2> SUFFICES ASSUME NEW a \in PlacesOf(G), NEW b \in PlacesOf(G), Begins(H, a, b) PROVE Begins(G, a, b)
    OBVIOUS
  <2>1. a[1] \in 1 .. Len(ss)
    BY <1>2, <1>5 DEF Begins
  <2> QED  BY <1>2, <2>1 DEF Begins
<1>11. \A b \in PlacesOf(H) : ~ Follows(q, b) /\ ~ Begins(H, q, b)
  <2> SUFFICES ASSUME NEW b \in PlacesOf(H) PROVE ~ Follows(q, b) /\ ~ Begins(H, q, b)
    OBVIOUS
  <2>1. ~ Begins(H, q, b)
    BY <1>2, <1>5, <1>6 DEF Begins
  <2>2. ASSUME Follows(q, b) PROVE FALSE
    <3>1. b[1] = Len(ss) + 1 /\ b[2] = Len(c) + 2
      BY <1>1, <1>6, <2>2 DEF Follows
    <3>2. b[2] \in 1 .. Len(c) + 1
      BY <1>1, <1>2, <1>5, <3>1
    <3> QED  BY <1>1, <3>1, <3>2
  <2> QED  BY <2>1, <2>2
<1>12. \A a \in PlacesOf(G) : Follows(a, q) => Len(c) > 0 /\ At(H, a) = c[Len(c)]
  <2> SUFFICES ASSUME NEW a \in PlacesOf(G), Follows(a, q) PROVE Len(c) > 0 /\ At(H, a) = c[Len(c)]
    OBVIOUS
  <2>1. a[1] = Len(ss) + 1 /\ a[2] \in 1 .. Len(c) /\ a[2] + 1 = Len(c) + 1
    BY <1>2, <1>5, <1>6 DEF Follows
  <2>2. a[2] = Len(c) /\ Len(c) > 0
    BY <1>1, <2>1
  <2> QED  BY <1>9, <1>2, <2>1, <2>2 DEF At
<1>13. \A a \in PlacesOf(G) : Begins(H, a, q) => c = <<>> /\ ss # <<>>
  <2> SUFFICES ASSUME NEW a \in PlacesOf(G), Begins(H, a, q) PROVE c = <<>> /\ ss # <<>>
    OBVIOUS
  <2>1. Len(c) + 1 = 1 /\ a[1] \in 1 .. Len(ss)
    BY <1>2, <1>5, <1>6 DEF Begins
  <2>2. Len(c) = 0 /\ Len(ss) # 0
    BY <1>1, <1>2, <2>1
  <2> QED  BY <2>2
<1> QED  BY <1>0, <1>7, <1>8, <1>9, <1>10, <1>11, <1>12, <1>13 DEF GrowsBy

\* Record i begins a session after c, the last one.
StartsAnew(ss, c, i) ==
  LET G == Append(ss, c)
      H == Append(G, <<i>>)
      q == <<Len(G) + 1, 1>>
  IN /\ GrowsBy(G, H, q, i)
     /\ \A a \in PlacesOf(G) : ~ Follows(a, q) /\ (Begins(H, a, q) => At(H, a) = c[Len(c)])

LEMMA StartedAnew ==
  ASSUME NEW S, NEW ss \in Seq(Seq(S)), NEW c \in Seq(S), NEW i \in S
  PROVE  StartsAnew(ss, c, i)
<1> DEFINE G == Append(ss, c)
           H == Append(G, <<i>>)
           q == <<Len(G) + 1, 1>>
<1>1. <<i>> \in Seq(S) /\ Len(<<i>>) = 1 /\ <<i>>[1] = i
  OBVIOUS
<1>2. /\ G \in Seq(Seq(S)) /\ Len(ss) \in Nat /\ Len(G) = Len(ss) + 1 /\ G[Len(ss) + 1] = c
      /\ Len(G) \in Nat /\ Len(G) > 0 /\ G[Len(G)] = c
  BY AppendIs
<1>3. /\ H \in Seq(Seq(S)) /\ Len(H) = Len(G) + 1 /\ H[Len(G) + 1] = <<i>>
      /\ \A s \in 1 .. Len(G) : H[s] = G[s]
  BY <1>1, <1>2, AppendIs
<1>4. \A s, j : <<s, j>> \in PlacesOf(G) <=> s \in 1 .. Len(G) /\ j \in 1 .. Len(G[s])
  BY <1>2, APlace
<1>5. \A s, j : <<s, j>> \in PlacesOf(H) <=> s \in 1 .. Len(G) + 1 /\ j \in 1 .. Len(H[s])
  BY <1>3, APlace
<1>6. /\ \A a \in PlacesOf(G) : /\ a = <<a[1], a[2]>> /\ a[1] \in 1 .. Len(G)
                                /\ a[2] \in 1 .. Len(G[a[1]])
      /\ \A a \in PlacesOf(H) : /\ a = <<a[1], a[2]>> /\ a[1] \in 1 .. Len(G) + 1
                                /\ a[2] \in 1 .. Len(H[a[1]])
  BY <1>2, <1>3, APlace
<1>7. q = <<Len(G) + 1, 1>> /\ q[1] = Len(G) + 1 /\ q[2] = 1
  OBVIOUS
<1>0. StartsAnew(ss, c, i) <=>
        /\ GrowsBy(G, H, q, i)
        /\ \A a \in PlacesOf(G) : ~ Follows(a, q) /\ (Begins(H, a, q) => At(H, a) = c[Len(c)])
  BY DEF StartsAnew
<1> HIDE DEF G, H, q
<1>8. PlacesOf(H) = PlacesOf(G) \cup {q} /\ q \notin PlacesOf(G)
  <2>1. ASSUME NEW a \in PlacesOf(G)
        PROVE  a \in PlacesOf(H) /\ a # q
    <3>1. a[1] \in 1 .. Len(G) + 1 /\ H[a[1]] = G[a[1]] /\ a[1] # Len(G) + 1
      BY <1>2, <1>3, <1>6
    <3>2. <<a[1], a[2]>> \in PlacesOf(H)
      BY <1>5, <1>6, <3>1
    <3> QED  BY <1>6, <1>7, <3>1, <3>2
  <2>2. ASSUME NEW a \in PlacesOf(H), a # q
        PROVE  a \in PlacesOf(G)
    <3>1. CASE a[1] \in 1 .. Len(G)
      <4>1. H[a[1]] = G[a[1]]
        BY <1>3, <3>1
      <4> QED  BY <1>4, <1>6, <3>1, <4>1
    <3>2. CASE a[1] = Len(G) + 1
      <4>1. Len(H[a[1]]) = 1 /\ a[2] \in 1 .. Len(H[a[1]])
        BY <1>1, <1>3, <1>6, <3>2
      <4>2. a[2] = 1
        BY <4>1
      <4> QED  BY <1>6, <1>7, <2>2, <3>2, <4>2
    <3> QED  BY <1>2, <1>6, <3>1, <3>2
  <2>3. q \in PlacesOf(H)
    <3>1. 1 \in 1 .. Len(H[Len(G) + 1]) /\ Len(G) + 1 \in 1 .. Len(G) + 1
      BY <1>1, <1>2, <1>3
    <3> QED  BY <1>5, <1>7, <3>1
  <2> QED  BY <2>1, <2>2, <2>3
<1>9. At(H, q) = i
  BY <1>1, <1>3, <1>7 DEF At
<1>10. \A a \in PlacesOf(G) : At(H, a) = At(G, a)
  BY <1>3, <1>6 DEF At
<1>11. \A a, b \in PlacesOf(G) : Begins(H, a, b) => Begins(G, a, b)
  BY <1>3, <1>6 DEF Begins
<1>12. \A b \in PlacesOf(H) : ~ Follows(q, b) /\ ~ Begins(H, q, b)
  <2> SUFFICES ASSUME NEW b \in PlacesOf(H) PROVE ~ Follows(q, b) /\ ~ Begins(H, q, b)
    OBVIOUS
  <2>1. ~ Begins(H, q, b)
    BY <1>2, <1>6, <1>7 DEF Begins
  <2>2. ASSUME Follows(q, b) PROVE FALSE
    <3>1. b[1] = Len(G) + 1 /\ b[2] = 2
      BY <1>7, <2>2 DEF Follows
    <3>2. b[2] \in 1 .. 1
      BY <1>1, <1>3, <1>6, <3>1
    <3> QED  BY <3>1, <3>2
  <2> QED  BY <2>1, <2>2
<1>13. \A a \in PlacesOf(G) : ~ Follows(a, q) /\ (Begins(H, a, q) => At(H, a) = c[Len(c)])
  <2> SUFFICES ASSUME NEW a \in PlacesOf(G)
               PROVE  ~ Follows(a, q) /\ (Begins(H, a, q) => At(H, a) = c[Len(c)])
    OBVIOUS
  <2>1. ~ Follows(a, q)
    BY <1>2, <1>6, <1>7 DEF Follows
  <2>2. ASSUME Begins(H, a, q) PROVE At(H, a) = c[Len(c)]
    <3>1. a[1] = Len(G) /\ a[2] = Len(H[a[1]])
      BY <1>2, <1>6, <1>7, <2>2 DEF Begins
    <3>2. Len(G) \in 1 .. Len(G)
      BY <1>2
    <3>3. H[Len(G)] = G[Len(G)]
      BY <1>3, <3>2
    <3> QED  BY <1>2, <3>1, <3>3 DEF At
  <2> QED  BY <2>1, <2>2
<1> QED  BY <1>0, <1>8, <1>9, <1>10, <1>11, <1>12, <1>13 DEF GrowsBy

LEMMA NoPlaces == PlacesOf(<<>>) = {} /\ PlacesOf(Append(<<>>, <<>>)) = {}
<1>1. DOMAIN Append(<<>>, <<>>) = {1} /\ Append(<<>>, <<>>)[1] = <<>> /\ DOMAIN <<>> = {}
  OBVIOUS
<1> QED  BY <1>1 DEF PlacesOf

LEMMA GroupInit == TelemetryInit => GroupInv
  BY DEF TelemetryInit, TelemetryIn, GroupInv, Grouping

LEMMA UsableTimes ==
  ASSUME TableInv
  PROVE  Usable \subseteq Known /\ \A i \in Usable : log[i].time \in Nat
<1>1. DOMAIN log = Known /\ \A i \in Known : log[i] \in Record
  BY DEF TableInv, LogTyped, Known
<1> QED  BY <1>1 DEF Usable, Record

LEMMA StartGroups == TableInv /\ GroupInv /\ StartAnalysis => GroupInv'
<1> SUFFICES ASSUME TableInv, GroupInv, StartAnalysis PROVE GroupInv'
  OBVIOUS
<1> USE DEF StartAnalysis
<1>1. log' = log /\ Usable' = Usable /\ cur' = <<>> /\ sessions' = <<>> /\ unread' = Usable /\ last' = Unset
  BY DEF writing, TableInv, GroupsTyped, GroupInv, Usable, PickTokens
<1>2. stage' = IF Usable = {} THEN "nothing" ELSE "group"
  OBVIOUS
<1>3. CASE stage' = "nothing"
  BY <1>3 DEF GroupInv, Grouping
<1>4. CASE stage' = "group"
  <2>1. Groups' = Append(<<>>, <<>>)
    BY <1>1, <1>4 DEF Groups
  <2>2. Holds(Append(<<>>, <<>>), Usable \ Usable) /\ Parted(Append(<<>>, <<>>))'
    BY NoPlaces DEF Holds, Parted
  <2>3. \A i \in Usable : Unset <= log[i].time
    BY UsableTimes DEF Unset
  <2>4. (Usable \subseteq Usable /\ Holds(Groups, Usable \ unread) /\ Parted(Groups))'
    BY <1>1, <2>1, <2>2
  <2>5. \A s \in DOMAIN sessions' : sessions'[s] # <<>>
    BY <1>1
  <2> QED  BY <1>1, <1>2, <1>4, <2>3, <2>4, <2>5 DEF GroupInv, Grouping
<1> QED  BY <1>2, <1>3, <1>4

LEMMA TakeGroups == TableInv /\ GroupInv /\ TakeRecord => GroupInv'
<1> SUFFICES ASSUME TableInv, GroupInv, TakeRecord PROVE GroupInv'
  OBVIOUS
<1>1. PICK i \in unread :
        /\ \A k \in unread : Earlier(i, k)
        /\ IF last # Unset /\ log[i].time - last > Gap
           THEN sessions' = Append(sessions, cur) /\ cur' = <<i>>
           ELSE UNCHANGED sessions /\ cur' = Append(cur, i)
        /\ last' = log[i].time
        /\ unread' = unread \ {i}
  BY DEF TakeRecord
<1>2. stage = "group" /\ stage' = "group" /\ log' = log /\ Usable' = Usable
  BY DEF TakeRecord, writing, Usable, PickTokens
<1>3. /\ unread \subseteq Usable /\ Holds(Groups, Usable \ unread) /\ Parted(Groups)
      /\ \A s \in DOMAIN sessions : sessions[s] # <<>>
      /\ Usable # {} /\ (cur = <<>> => sessions = <<>>)
      /\ last = IF cur = <<>> THEN Unset ELSE log[cur[Len(cur)]].time
      /\ \A k \in unread : last <= log[k].time
      /\ Groups = Append(sessions, cur)
  BY <1>2 DEF GroupInv, Grouping, Groups
<1>4. cur \in Seq(Known) /\ sessions \in Seq(Seq(Known)) /\ i \in Known /\ i \in Usable /\ log[i].time \in Nat
  BY <1>3, UsableTimes DEF TableInv, GroupsTyped
<1>5. (Usable \ unread) \cup {i} = Usable \ (unread \ {i}) /\ i \notin Usable \ unread
  BY <1>4
<1>6. \A k \in unread \ {i} : log[i].time <= log[k].time
  BY <1>1, <1>3, <1>4, UsableTimes DEF Earlier
<1>7. \A a \in PlacesOf(Groups) : log[At(Groups, a)].time \in Nat
  BY <1>3, UsableTimes DEF Holds
<1>8. ASSUME NEW H, H = Groups', NEW q, GrowsBy(Groups, H, q, i),
             \A a \in PlacesOf(Groups) : /\ Follows(a, q) => Silence(H, a, q) \in 0 .. Gap
                                         /\ Begins(H, a, q) => Silence(H, a, q) > Gap,
             cur' # <<>>, cur'[Len(cur')] = i, \A s \in DOMAIN sessions' : sessions'[s] # <<>>
      PROVE  GroupInv'
  <2>1. Holds(H, Usable \ (unread \ {i}))
    <3>1. Holds(H, (Usable \ unread) \cup {i})
      BY <1>3, <1>5, <1>8, HoldsOneMore
    <3> QED  BY <1>5, <3>1
  <2>2. Parted(H)
    BY <1>3, <1>8, PartedOneMore
  <2>3. (Holds(Groups, Usable \ unread))'
    BY <1>1, <1>2, <1>8, <2>1
  <2>4. (Parted(Groups))'
    BY <1>2, <1>8, <2>2 DEF Parted, Silence
  <2>5. unread' \subseteq Usable'
    BY <1>1, <1>2, <1>3
  <2>6. \A k \in unread' : last' <= log'[k].time
    BY <1>1, <1>2, <1>6
  <2>7. last' = IF cur' = <<>> THEN Unset ELSE log'[cur'[Len(cur')]].time
    BY <1>1, <1>2, <1>8
  <2> QED  BY <1>2, <1>3, <1>8, <2>3, <2>4, <2>5, <2>6, <2>7 DEF GroupInv, Grouping
<1>9. CASE last # Unset /\ log[i].time - last > Gap
  <2> DEFINE q == <<Len(Groups) + 1, 1>>
  <2> DEFINE H == Append(Groups, <<i>>)
  <2>1. sessions' = Groups /\ cur' = <<i>> /\ H = Groups'
    BY <1>1, <1>2, <1>3, <1>9 DEF Groups
  <2>2. cur # <<>> /\ last = log[cur[Len(cur)]].time
    BY <1>3, <1>9
  <2>3. /\ GrowsBy(Groups, H, q, i)
        /\ \A a \in PlacesOf(Groups) : ~ Follows(a, q) /\ (Begins(H, a, q) => At(H, a) = cur[Len(cur)])
    <3>1. StartsAnew(sessions, cur, i)
      BY <1>4, StartedAnew
    <3> QED  BY <1>3, <3>1 DEF StartsAnew
  <2>4. cur' # <<>> /\ cur'[Len(cur')] = i
    BY <2>1
  <2>5. \A s \in DOMAIN sessions' : sessions'[s] # <<>>
    <3>1. /\ Len(Groups) = Len(sessions) + 1 /\ Len(sessions) \in Nat /\ DOMAIN sessions = 1 .. Len(sessions)
          /\ DOMAIN Groups = 1 .. Len(Groups) /\ Groups[Len(sessions) + 1] = cur
          /\ \A s \in 1 .. Len(sessions) : Groups[s] = sessions[s]
      BY <1>3, <1>4, AppendIs
    <3> QED  BY <1>3, <2>1, <2>2, <3>1
  <2> HIDE DEF q, H
  <2>6. \A a \in PlacesOf(Groups) : /\ Follows(a, q) => Silence(H, a, q) \in 0 .. Gap
                                    /\ Begins(H, a, q) => Silence(H, a, q) > Gap
    BY <1>9, <2>2, <2>3 DEF Silence, GrowsBy
  <2> QED  BY <1>8, <2>1, <2>3, <2>4, <2>5, <2>6
<1>10. CASE ~ (last # Unset /\ log[i].time - last > Gap)
  <2> DEFINE q == <<Len(sessions) + 1, Len(cur) + 1>>
  <2> DEFINE H == Append(sessions, Append(cur, i))
  <2>1. sessions' = sessions /\ cur' = Append(cur, i) /\ H = Groups'
    BY <1>1, <1>2, <1>10 DEF Groups
  <2>2. /\ GrowsBy(Groups, H, q, i)
        /\ \A a \in PlacesOf(Groups) : Follows(a, q) => Len(cur) > 0 /\ At(H, a) = cur[Len(cur)]
        /\ \A a \in PlacesOf(Groups) : Begins(H, a, q) => cur = <<>> /\ sessions # <<>>
    <3>1. Continues(sessions, cur, i)
      BY <1>4, Continued
    <3> QED  BY <1>3, <3>1 DEF Continues
  <2>3. cur' # <<>> /\ cur'[Len(cur')] = i
    BY <1>4, <2>1, AppendIs
  <2> HIDE DEF q, H
  <2>4. ASSUME NEW a \in PlacesOf(Groups), Follows(a, q) PROVE Silence(H, a, q) \in 0 .. Gap
    <3>1. cur # <<>> /\ At(H, a) = cur[Len(cur)]
      BY <1>4, <2>2, <2>4
    <3>2. last = log[At(H, a)].time /\ last \in Nat
      BY <1>3, <1>7, <2>2, <3>1 DEF GrowsBy
    <3>3. last <= log[i].time /\ log[i].time - last <= Gap
      BY <1>3, <1>4, <1>10, <3>2, GapAssumption DEF Unset
    <3> QED  BY <1>4, <2>2, <3>2, <3>3, GapAssumption DEF Silence, GrowsBy
  <2>5. \A a \in PlacesOf(Groups) : ~ Begins(H, a, q)
    BY <1>3, <2>2
  <2> QED  BY <1>3, <1>8, <2>1, <2>2, <2>3, <2>4, <2>5
<1> QED  BY <1>9, <1>10

LEMMA EndGroups == TableInv /\ GroupInv /\ LastSession => GroupInv'
<1> SUFFICES ASSUME TableInv, GroupInv, LastSession PROVE GroupInv'
  OBVIOUS
<1>1. /\ stage = "group" /\ unread = {} /\ stage' = "analyze" /\ log' = log /\ Usable' = Usable
      /\ unread' = {} /\ sessions' = Append(sessions, cur)
  BY DEF LastSession, writing, Usable, PickTokens
<1>2. /\ Holds(Groups, Usable \ unread) /\ Parted(Groups) /\ Groups = Append(sessions, cur)
      /\ \A s \in DOMAIN sessions : sessions[s] # <<>>
      /\ Usable # {} /\ (cur = <<>> => sessions = <<>>)
  BY <1>1 DEF GroupInv, Grouping, Groups
<1>3. Groups' = Groups
  BY <1>1, <1>2 DEF Groups
<1>4. cur # <<>>
  BY <1>1, <1>2, NoPlaces DEF Holds
<1>5. \A s \in DOMAIN sessions' : sessions'[s] # <<>>
  <2>1. sessions \in Seq(Seq(Known)) /\ cur \in Seq(Known)
    BY DEF TableInv, GroupsTyped
  <2>2. /\ Len(sessions') = Len(sessions) + 1 /\ Len(sessions) \in Nat /\ DOMAIN sessions = 1 .. Len(sessions)
        /\ DOMAIN sessions' = 1 .. Len(sessions') /\ sessions'[Len(sessions) + 1] = cur
        /\ \A s \in 1 .. Len(sessions) : sessions'[s] = sessions[s]
    BY <1>1, <2>1, AppendIs
  <2> QED  BY <1>2, <1>4, <2>2
<1>6. (Holds(Groups, Usable \ unread))' /\ (Parted(Groups))'
  BY <1>1, <1>2, <1>3 DEF Parted, Silence
<1> QED  BY <1>1, <1>5, <1>6 DEF GroupInv, Grouping

LEMMA GroupStep == TableInv /\ GroupInv /\ [TelemetryNext]_telemetry => GroupInv'
<1> SUFFICES ASSUME TableInv, GroupInv, [TelemetryNext]_telemetry PROVE GroupInv'
  OBVIOUS
<1>1. ASSUME stage = "log", stage' = "log", last' = last PROVE GroupInv'
  BY <1>1 DEF GroupInv, Grouping
<1>2. ASSUME log' = log, UNCHANGED grouping, stage' # "group", stage # "group",
             stage' = "log" => stage = "log", Grouping' => Grouping
      PROVE  GroupInv'
  <2>1. Usable' = Usable
    BY <1>2 DEF Usable, PickTokens
  <2>2. sessions' = sessions /\ unread' = unread /\ last' = last /\ cur' = cur /\ Groups' = Groups
    BY <1>2 DEF grouping, Groups
  <2>3. ASSUME Grouping PROVE (Holds(Groups, Usable \ unread))' /\ (Parted(Groups))'
    BY <1>2, <2>1, <2>2, <2>3 DEF GroupInv, Parted, Silence
  <2>4. Grouping' => unread' \subseteq Usable' /\ (Holds(Groups, Usable \ unread))' /\ (Parted(Groups))'
    BY <1>2, <2>1, <2>2, <2>3 DEF GroupInv
  <2> QED  BY <1>2, <2>2, <2>4 DEF GroupInv, Grouping
<1>3. CASE StartAnalysis
  BY <1>3, StartGroups
<1>4. CASE TakeRecord
  BY <1>4, TakeGroups
<1>5. CASE LastSession
  BY <1>5, EndGroups
<1>6. CASE LogRequest \/ SynthesizeRequest \/ NextSession \/ NextDay
  BY <1>1, <1>6 DEF LogRequest, SynthesizeRequest, NextSession, NextDay, grouping
<1>7. CASE ScanRequest \/ CloseSession \/ Suggest
  BY <1>2, <1>7 DEF ScanRequest, CloseSession, Suggest, writing, Grouping
<1>8. CASE UNCHANGED telemetry
  <2>1. stage' = stage /\ log' = log /\ UNCHANGED grouping
    BY <1>8 DEF telemetry, writing
  <2>2. CASE stage # "group"
    BY <1>2, <2>1, <2>2 DEF Grouping
  <2>3. CASE stage = "group"
    <3>1. Usable' = Usable /\ sessions' = sessions /\ unread' = unread /\ last' = last /\ cur' = cur /\ Groups' = Groups
      BY <2>1 DEF Usable, PickTokens, grouping, Groups
    <3>2. (Holds(Groups, Usable \ unread))' /\ (Parted(Groups))'
      BY <2>1, <2>3, <3>1 DEF GroupInv, Parted, Silence, Grouping
    <3> QED  BY <2>1, <2>3, <3>1, <3>2 DEF GroupInv, Grouping
  <2> QED  BY <2>2, <2>3
<1> QED  BY <1>3, <1>4, <1>5, <1>6, <1>7, <1>8 DEF TelemetryNext

LEMMA GroupsShow == TableInv /\ GroupInv => SessionsBySilence
<1> SUFFICES ASSUME TableInv, GroupInv, stage \in {"analyze", "done"} PROVE SessionsBySilence
  BY DEF SessionsBySilence
<1>1. unread = {} /\ Groups = sessions /\ Holds(sessions, Usable) /\ Parted(sessions)
  BY DEF GroupInv, Grouping, Groups
<1>2. {At(sessions, a) : a \in PlacesOf(sessions)} = Usable
  BY <1>1 DEF Holds
<1>3. Cardinality(PlacesOf(sessions)) = Cardinality(Usable)
  <2> DEFINE f == [a \in PlacesOf(sessions) |-> At(sessions, a)]
  <2>1. f \in Bijection(PlacesOf(sessions), Usable)
    BY <1>1 DEF Holds, Bijection, Injection, Surjection, IsInjective
  <2>2. ExistsBijection(Usable, PlacesOf(sessions))
    BY <2>1, Fun_ExistsBijSymmetric DEF ExistsBijection
  <2>3. IsFiniteSet(Usable)
    <3>1. Len(log) \in Int /\ Usable \in SUBSET (1 .. Len(log))
      BY UsableTimes DEF TableInv, LogTyped, Known
    <3>2. IsFiniteSet(1 .. Len(log))
      BY <3>1, FS_Interval
    <3> QED  BY <3>1, <3>2, FS_Subset
  <2> QED  BY <2>2, <2>3, FS_Bijection
<1>4. \A a, b \in PlacesOf(sessions) :
        /\ a[1] = b[1] /\ b[2] = a[2] + 1 =>
             log[At(sessions, b)].time - log[At(sessions, a)].time \in 0 .. Gap
        /\ b[1] = a[1] + 1 /\ a[2] = Len(sessions[a[1]]) /\ b[2] = 1 =>
             log[At(sessions, b)].time - log[At(sessions, a)].time > Gap
  BY <1>1 DEF Parted, Follows, Begins, Silence
<1>5. \A s \in DOMAIN sessions : sessions[s] # <<>>
  BY DEF GroupInv, Grouping
<1> QED  BY <1>2, <1>3, <1>4, <1>5 DEF SessionsBySilence, PlacesOf, At

\* Every usable record ends up in exactly one session, the sessions in the order
\* of time and parted exactly by silences of more than Gap, whatever log was read.
THEOREM SessionsFollowSilence == TelemetrySpec => []SessionsBySilence
<1>1. TelemetryInit => TableInv /\ GroupInv
  BY TableInit, GroupInit
<1>2. TableInv /\ GroupInv /\ [TelemetryNext]_telemetry => (TableInv /\ GroupInv)'
  BY TableStep, GroupStep
<1> QED  BY <1>1, <1>2, GroupsShow, PTL DEF TelemetrySpec


(***************************************************************************)
(* The synthesized sessions.  Two facts meet.  Of the log: records written *)
(* one after the other for one session are at most Gap apart, those on     *)
(* either side of a break more, and the records of one day are in the      *)
(* order of time.  Of the sessions found: the order of time holds between  *)
(* any two of their places, not only between neighbours.                   *)
(***************************************************************************)

Ordered(ss) ==
  \A a, b \in PlacesOf(ss) :
    /\ a[1] = b[1] /\ a[2] < b[2] => Silence(ss, a, b) >= 0
    /\ a[1] < b[1] => Silence(ss, a, b) > Gap
OrderInv ==
  Grouping =>
    /\ Ordered(Groups)
    /\ stage = "group" => \A a \in PlacesOf(Groups) : log[At(Groups, a)].time <= last

LEMMA OrderStart == TableInv /\ GroupInv /\ StartAnalysis => OrderInv'
<1> SUFFICES ASSUME TableInv, GroupInv, StartAnalysis, Grouping' PROVE OrderInv'
  BY DEF OrderInv
<1>1. stage' = "group" /\ cur' = <<>> /\ sessions' = <<>>
  BY DEF StartAnalysis, Grouping, TableInv, GroupsTyped
<1>2. Groups' = Append(<<>>, <<>>)
  BY <1>1 DEF Groups
<1>3. PlacesOf(Groups') = {}
  BY <1>2, NoPlaces
<1> QED  BY <1>3 DEF OrderInv, Ordered

LEMMA OrderTake == TableInv /\ GroupInv /\ OrderInv /\ TakeRecord => OrderInv'
<1> SUFFICES ASSUME TableInv, GroupInv, OrderInv, TakeRecord PROVE OrderInv'
  OBVIOUS
<1>1. PICK i \in unread :
        /\ IF last # Unset /\ log[i].time - last > Gap
           THEN sessions' = Append(sessions, cur) /\ cur' = <<i>>
           ELSE UNCHANGED sessions /\ cur' = Append(cur, i)
        /\ last' = log[i].time
  BY DEF TakeRecord
<1>2. stage = "group" /\ stage' = "group" /\ log' = log
  BY DEF TakeRecord, writing
<1>3. /\ unread \subseteq Usable /\ Holds(Groups, Usable \ unread) /\ Ordered(Groups)
      /\ cur = <<>> => sessions = <<>>
      /\ last = IF cur = <<>> THEN Unset ELSE log[cur[Len(cur)]].time
      /\ last <= log[i].time
      /\ Groups = Append(sessions, cur)
      /\ \A a \in PlacesOf(Groups) : log[At(Groups, a)].time <= last
  BY <1>1, <1>2 DEF GroupInv, OrderInv, Grouping, Groups
<1>4. /\ cur \in Seq(Known) /\ sessions \in Seq(Seq(Known)) /\ i \in Known /\ log[i].time \in Nat
      /\ Gap \in Nat
  BY <1>3, UsableTimes, GapAssumption DEF TableInv, GroupsTyped
<1>5. \A a \in PlacesOf(Groups) : log[At(Groups, a)].time \in Nat
  BY <1>3, UsableTimes DEF Holds
<1>6. last \in Int
  <2>1. cur # <<>> => cur[Len(cur)] \in Known
    BY <1>4
  <2>2. \A k \in Known : log[k].time \in Int
    <3>1. \A k \in Known : log[k] \in Record
      BY ElementOfSeq DEF TableInv, LogTyped, Known
    <3> QED  BY <3>1 DEF Record
  <2>3. Unset \in Int
    BY DEF Unset
  <2> QED  BY <1>3, <2>1, <2>2, <2>3
<1>7. ASSUME NEW H, H = Groups', NEW q, GrowsBy(Groups, H, q, i),
             \A a \in PlacesOf(Groups) :
               /\ ~ (a[1] = q[1] /\ q[2] < a[2]) /\ ~ (q[1] < a[1])
               /\ a[1] < q[1] => Silence(H, a, q) > Gap,
             ~ (q[2] < q[2]) /\ ~ (q[1] < q[1])
      PROVE  OrderInv'
  <2>1. ASSUME NEW a \in PlacesOf(Groups) PROVE Silence(H, a, q) >= 0 /\ log[At(H, a)].time <= log[i].time
    <3>1. At(H, a) = At(Groups, a) /\ At(H, q) = i
      BY <1>7 DEF GrowsBy
    <3>2. log[At(Groups, a)].time <= last /\ log[At(Groups, a)].time \in Nat
      BY <1>3, <1>5
    <3> QED  BY <1>3, <1>4, <1>6, <3>1, <3>2 DEF Silence
  <2>2. \A a, b \in PlacesOf(Groups) : Silence(H, a, b) = Silence(Groups, a, b)
    BY <1>7 DEF Silence, GrowsBy
  <2>3. ASSUME NEW a \in PlacesOf(H), NEW b \in PlacesOf(H)
        PROVE  /\ a[1] = b[1] /\ a[2] < b[2] => Silence(H, a, b) >= 0
               /\ a[1] < b[1] => Silence(H, a, b) > Gap
    <3>1. CASE a = q /\ b = q
      BY <1>7, <3>1
    <3>2. CASE a = q /\ b \in PlacesOf(Groups)
      BY <1>7, <3>2
    <3>3. CASE a \in PlacesOf(Groups) /\ b = q
      BY <1>7, <2>1, <3>3
    <3>4. CASE a \in PlacesOf(Groups) /\ b \in PlacesOf(Groups)
      BY <1>3, <2>2, <3>4 DEF Ordered
    <3> QED  BY <1>7, <3>1, <3>2, <3>3, <3>4 DEF GrowsBy
  <2>4. Ordered(H)
    BY <2>3 DEF Ordered
  <2>5. (Ordered(Groups))'
    BY <1>2, <1>7, <2>4 DEF Ordered, Silence
  <2>6. \A a \in PlacesOf(H) : log[At(H, a)].time <= log[i].time
    <3> SUFFICES ASSUME NEW a \in PlacesOf(H) PROVE log[At(H, a)].time <= log[i].time
      OBVIOUS
    <3>1. CASE a = q
      <4>1. At(H, a) = i
        BY <1>7, <3>1 DEF GrowsBy
      <4> QED  BY <1>4, <4>1
    <3> QED  BY <1>7, <2>1, <3>1 DEF GrowsBy
  <2> QED  BY <1>1, <1>2, <1>7, <2>5, <2>6 DEF OrderInv
<1>8. \A a \in PlacesOf(Groups) : a[1] \in 1 .. Len(sessions) + 1 /\ a[2] \in 1 .. Len(Groups[a[1]])
  <2>1. Groups \in Seq(Seq(Known)) /\ Len(Groups) = Len(sessions) + 1
    BY <1>3, <1>4, AppendIs
  <2> QED  BY <2>1, APlace
<1>9. /\ Len(sessions) \in Nat /\ Len(cur) \in Nat /\ Groups[Len(sessions) + 1] = cur
      /\ Len(Groups) = Len(sessions) + 1
  BY <1>3, <1>4, AppendIs
<1>10. CASE last # Unset /\ log[i].time - last > Gap
  <2> DEFINE q == <<Len(Groups) + 1, 1>>
             H == Append(Groups, <<i>>)
  <2>1. H = Groups'
    BY <1>1, <1>2, <1>3, <1>10 DEF Groups
  <2>2. GrowsBy(Groups, H, q, i)
    <3>1. StartsAnew(sessions, cur, i)
      BY <1>4, StartedAnew
    <3> QED  BY <1>3, <3>1 DEF StartsAnew
  <2>3. q[1] = Len(sessions) + 2 /\ q[2] = 1
    BY <1>9
  <2> HIDE DEF q, H
  <2>4. ASSUME NEW a \in PlacesOf(Groups) PROVE Silence(H, a, q) > Gap /\ a[1] < q[1] /\ a[1] # q[1]
    <3>1. At(H, a) = At(Groups, a) /\ At(H, q) = i /\ log[At(Groups, a)].time <= last
          /\ log[At(Groups, a)].time \in Nat
      BY <1>3, <1>5, <2>2 DEF GrowsBy
    <3>2. Silence(H, a, q) > Gap
      BY <1>4, <1>6, <1>10, <3>1 DEF Silence
    <3> QED  BY <1>8, <1>9, <2>3, <3>2
  <2>5. \A a \in PlacesOf(Groups) :
          /\ ~ (a[1] = q[1] /\ q[2] < a[2]) /\ ~ (q[1] < a[1])
          /\ a[1] < q[1] => Silence(H, a, q) > Gap
    BY <1>8, <1>9, <2>3, <2>4
  <2>6. ~ (q[2] < q[2]) /\ ~ (q[1] < q[1])
    BY <1>9, <2>3
  <2> QED  BY <1>7, <2>1, <2>2, <2>5, <2>6
<1>11. CASE ~ (last # Unset /\ log[i].time - last > Gap)
  <2> DEFINE q == <<Len(sessions) + 1, Len(cur) + 1>>
             H == Append(sessions, Append(cur, i))
             p == <<Len(sessions) + 1, Len(cur)>>
  <2>1. H = Groups'
    BY <1>1, <1>2, <1>11 DEF Groups
  <2>2. GrowsBy(Groups, H, q, i)
    <3>1. Continues(sessions, cur, i)
      BY <1>4, Continued
    <3> QED  BY <1>3, <3>1 DEF Continues
  <2>3. q[1] = Len(sessions) + 1 /\ q[2] = Len(cur) + 1 /\ p[1] = Len(sessions) + 1 /\ p[2] = Len(cur)
    OBVIOUS
  <2>4. cur # <<>> => p \in PlacesOf(Groups) /\ log[At(Groups, p)].time = last
    <3> SUFFICES ASSUME cur # <<>> PROVE p \in PlacesOf(Groups) /\ log[At(Groups, p)].time = last
      OBVIOUS
    <3>1. Len(cur) \in 1 .. Len(cur) /\ Len(sessions) + 1 \in 1 .. Len(sessions) + 1
      BY <1>4, <1>9
    <3>2. Groups \in Seq(Seq(Known))
      BY <1>3, <1>4, AppendIs
    <3>3. p \in PlacesOf(Groups)
      BY <1>9, <3>1, <3>2, APlace
    <3>4. At(Groups, p) = cur[Len(cur)]
      BY <1>9 DEF At
    <3> QED  BY <1>3, <3>3, <3>4
  <2> HIDE DEF q, H, p
  <2>5. ASSUME NEW a \in PlacesOf(Groups), a[1] < q[1] PROVE Silence(H, a, q) > Gap
    <3>1. cur # <<>>
      <4>1. ASSUME cur = <<>> PROVE FALSE
        <5>1. Len(sessions) = 0
          BY <1>3, <4>1
        <5> QED  BY <1>8, <2>3, <2>5, <5>1
      <4> QED  BY <4>1
    <3>2. Silence(Groups, a, p) > Gap
      BY <1>3, <2>3, <2>4, <2>5, <3>1 DEF Ordered
    <3>3. At(H, a) = At(Groups, a) /\ At(H, q) = i /\ log[At(Groups, a)].time \in Nat
      BY <1>5, <2>2 DEF GrowsBy
    <3> QED  BY <1>3, <1>4, <1>6, <2>4, <3>1, <3>2, <3>3 DEF Silence
  <2>6. ASSUME NEW a \in PlacesOf(Groups) PROVE ~ (a[1] = q[1] /\ q[2] < a[2]) /\ ~ (q[1] < a[1])
    <3>1. a[1] = q[1] => a[2] \in 1 .. Len(cur)
      BY <1>8, <1>9, <2>3
    <3> QED  BY <1>8, <1>9, <2>3, <3>1
  <2>7. ~ (q[2] < q[2]) /\ ~ (q[1] < q[1])
    BY <1>9, <2>3
  <2> QED  BY <1>7, <2>1, <2>2, <2>5, <2>6, <2>7
<1> QED  BY <1>10, <1>11

LEMMA OrderStep == TableInv /\ GroupInv /\ OrderInv /\ [TelemetryNext]_telemetry => OrderInv'
<1> SUFFICES ASSUME TableInv, GroupInv, OrderInv, [TelemetryNext]_telemetry PROVE OrderInv'
  OBVIOUS
<1>1. ASSUME stage' = "log" PROVE OrderInv'
  BY <1>1 DEF OrderInv, Grouping
<1>2. ASSUME log' = log, Groups' = Groups, Grouping' => Grouping, stage' = "group" => stage = "group" /\ last' = last
      PROVE  OrderInv'
  BY <1>2 DEF OrderInv, Ordered, Silence
<1>3. CASE LastSession
  <2>1. stage = "group" /\ stage' = "analyze" /\ log' = log /\ Groups' = Groups
    BY <1>3 DEF LastSession, writing, Groups
  <2> QED  BY <1>2, <2>1 DEF Grouping
<1>4. CASE LogRequest \/ SynthesizeRequest \/ NextSession \/ NextDay
  BY <1>1, <1>4 DEF LogRequest, SynthesizeRequest, NextSession, NextDay
<1>5. CASE ScanRequest \/ CloseSession \/ Suggest
  <2>1. stage = "analyze" /\ stage' \in {"analyze", "done"} /\ log' = log /\ UNCHANGED grouping
    BY <1>5 DEF ScanRequest, CloseSession, Suggest, writing
  <2>2. Groups' = Groups
    BY <2>1 DEF grouping, Groups
  <2> QED  BY <1>2, <2>1, <2>2 DEF Grouping
<1>6. CASE UNCHANGED telemetry
  <2>1. stage' = stage /\ log' = log /\ UNCHANGED grouping
    BY <1>6 DEF telemetry, writing
  <2>2. Groups' = Groups /\ last' = last
    BY <2>1 DEF grouping, Groups
  <2> QED  BY <1>2, <2>1, <2>2 DEF Grouping
<1> QED  BY <1>3, <1>4, <1>5, <1>6, OrderStart, OrderTake DEF TelemetryNext

\* What the generator wrote, and for which session.
Owner == [day : Nat, session : Nat]
Spaced(i) ==
  LET pause == log[i + 1].time - log[i].time IN
  /\ whose[i] = whose[i + 1] => pause \in 0 .. Gap
  /\ whose[i].day = whose[i + 1].day /\ whose[i] # whose[i + 1] => pause > Gap
Latest(i) ==
  /\ i \in Usable /\ whose[i].day <= day
  /\ whose[i].day = day => log[i].time < clock
  /\ whose[i].session <= IF written > 0 THEN made + 1 ELSE made
WrittenInv ==
  source = "synthesize" =>
    /\ clock \in Nat /\ made \in Nat /\ written \in Nat
    /\ whose \in Seq(Owner) /\ Len(whose) = Len(log)
    /\ \A i \in Known : Latest(i)
    /\ \A i \in 1 .. Len(log) - 1 : Spaced(i)
    /\ \A i, k \in Known : i < k /\ whose[i].day = whose[k].day => log[i].time < log[k].time
    /\ log # <<>> =>
         IF written > 0
         THEN whose[Len(log)] = [day |-> day, session |-> made + 1] /\ clock <= log[Len(log)].time + Gap
         ELSE whose[Len(log)].day = day => clock > log[Len(log)].time + Gap

LEMMA WrittenInit == TelemetryInit => WrittenInv
<1> SUFFICES ASSUME TelemetryInit PROVE WrittenInv
  OBVIOUS
<1>1. log = <<>> /\ clock = 0 /\ made = 0 /\ written = 0 /\ Len(log) = 0 /\ whose = <<>> /\ Known = {}
  BY DEF TelemetryInit, TelemetryIn, Known
<1> QED  BY <1>1 DEF WrittenInv

LEMMA RecordOf ==
  ASSUME NEW t \in Int, NEW c \in Seq(Int), Len(c) <= 4
  PROVE  [time |-> t, counts |-> c] \in Record
  BY DEF Record

\* A request joins the session at hand, at most Gap after the one before, or is the
\* first of its session, more than Gap after the last one of the same day.
LEMMA WrittenRequest == TableInv /\ WrittenInv /\ SynthesizeRequest => WrittenInv'
<1> SUFFICES ASSUME TableInv, WrittenInv, SynthesizeRequest PROVE WrittenInv'
  OBVIOUS
<1>1. PICK s \in Size, p \in Pause :
        log' = Append(log, [time |-> clock, counts |-> <<s>>]) /\ clock' = clock + p
  BY DEF SynthesizeRequest
<1>2. /\ source = "synthesize" /\ made' = made /\ written' = written + 1 /\ day' = day
      /\ whose' = Append(whose, [day |-> day, session |-> made + 1])
  BY DEF SynthesizeRequest
<1>3. /\ clock \in Nat /\ made \in Nat /\ written \in Nat /\ day \in Nat
      /\ whose \in Seq(Owner) /\ Len(whose) = Len(log)
      /\ \A i \in Known : Latest(i)
      /\ \A i \in 1 .. Len(log) - 1 : Spaced(i)
      /\ \A i, k \in Known : i < k /\ whose[i].day = whose[k].day => log[i].time < log[k].time
  BY <1>2 DEF WrittenInv, TableInv, LogTyped
<1>4. log # <<>> =>
         IF written > 0
         THEN whose[Len(log)] = [day |-> day, session |-> made + 1] /\ clock <= log[Len(log)].time + Gap
         ELSE whose[Len(log)].day = day => clock > log[Len(log)].time + Gap
  BY <1>2 DEF WrittenInv
<1>5. s \in Nat /\ p \in Nat /\ 1 <= p /\ p <= Gap /\ Gap \in Nat
  BY RecordAssumption, GapAssumption
<1> DEFINE r == [time |-> clock, counts |-> <<s>>]
           o == [day |-> day, session |-> made + 1]
<1>6. r \in Record /\ r.time = clock /\ PickTokens(r) = s
  <2>1. r.counts = <<s>> /\ <<s>> \in Seq(Int) /\ Len(<<s>>) = 1 /\ DOMAIN <<s>> = {1} /\ <<s>>[1] = s
    BY <1>5
  <2>2. r \in Record
    <3>1. clock \in Int /\ Len(<<s>>) <= 4
      BY <1>3
    <3> QED  BY <2>1, <3>1, RecordOf
  <2>3. PickTokens(r) = s
    <3> DEFINE P(j) == j \in DOMAIN r.counts /\ r.counts[j] >= 0 /\ \A k \in 1 .. j - 1 : r.counts[k] < 0
    <3>1. P(1)
      BY <1>5, <2>1
    <3>2. \E j \in DOMAIN r.counts : r.counts[j] >= 0
      BY <1>5, <2>1
    <3>3. \A j \in DOMAIN r.counts : j = 1
      BY <2>1
    <3> QED  BY <2>1, <3>1, <3>2, <3>3 DEF PickTokens
  <2> QED  BY <2>2, <2>3
<1>7. log \in Seq(Record) /\ Len(log) \in Nat /\ o \in Owner
      /\ o.day = day /\ o.session = made + 1
  BY <1>3 DEF TableInv, LogTyped, Owner
<1> HIDE DEF r, o
<1> DEFINE l == Len(log)
<1>8. /\ log' \in Seq(Record) /\ Len(log') = l + 1 /\ log'[l + 1] = r
      /\ \A i \in 1 .. l : log'[i] = log[i]
      /\ whose' \in Seq(Owner) /\ Len(whose') = l + 1 /\ whose'[l + 1] = o
      /\ \A i \in 1 .. l : whose'[i] = whose[i]
      /\ log' # <<>>
  BY <1>1, <1>2, <1>3, <1>6, <1>7, AppendIs DEF r, o
<1>9. Known' = 1 .. l + 1 /\ Known = 1 .. l /\ DOMAIN log' = 1 .. l + 1
  BY <1>8 DEF Known
<1>10. \A i \in Known : /\ log[i].time \in Nat /\ whose[i] \in Owner
                        /\ whose[i].day \in Nat /\ whose[i].session \in Nat
  <2>1. \A i \in Known : i \in Usable /\ whose[i] \in Owner
    BY <1>3, <1>9, ElementOfSeq DEF Latest
  <2> QED  BY <2>1, UsableTimes DEF Owner
<1>11. clock' \in Nat /\ clock' = clock + p /\ written' > 0
  BY <1>1, <1>2, <1>3, <1>5
<1> HIDE DEF l
<1>12. l \in Nat
  BY <1>7 DEF l
<1>13. ASSUME NEW i \in 1 .. l + 1 PROVE Latest(i)'
  <2>1. CASE i \in 1 .. l
    <3>1. /\ log'[i] = log[i] /\ whose'[i] = whose[i] /\ Latest(i) /\ i \in Known
          /\ log[i].time \in Nat /\ whose[i].day \in Nat /\ whose[i].session \in Nat
      BY <1>3, <1>8, <1>9, <1>10, <2>1
    <3>2. i \in Usable'
      BY <1>9, <3>1 DEF Usable, PickTokens, Latest
    <3>3. whose[i].session <= made + 1
      BY <1>3, <3>1 DEF Latest
    <3>4. whose[i].day = day => log[i].time < clock + p
      BY <1>3, <1>5, <3>1 DEF Latest
    <3> QED  BY <1>2, <1>3, <1>11, <3>1, <3>2, <3>3, <3>4 DEF Latest
  <2>2. CASE i = l + 1
    <3>1. log'[i] = r /\ whose'[i] = o
      BY <1>8, <2>2
    <3>2. i \in Usable'
      <4>1. PickTokens(log'[i]) >= 0 /\ log'[i].time >= 0
        BY <1>3, <1>5, <1>6, <3>1
      <4> QED  BY <1>9, <4>1 DEF Usable, PickTokens
    <3>3. whose'[i].day = day /\ whose'[i].session = made + 1 /\ log'[i].time = clock
      BY <1>6, <1>7, <3>1
    <3>4. clock < clock' /\ day <= day /\ made + 1 <= made + 1
      BY <1>3, <1>5, <1>11
    <3> QED  BY <1>2, <1>11, <3>2, <3>3, <3>4 DEF Latest
  <2> QED  BY <1>12, <2>1, <2>2
<1>14. ASSUME NEW i \in 1 .. l PROVE Spaced(i)'
  <2>1. CASE i < l
    <3>1. i \in 1 .. l - 1 /\ i + 1 \in 1 .. l
      BY <1>12, <2>1
    <3> QED  BY <1>3, <1>8, <3>1 DEF Spaced, l
  <2>2. CASE i = l
    <3>1. /\ log'[i] = log[i] /\ whose'[i] = whose[i] /\ log'[i + 1].time = clock /\ whose'[i + 1] = o
          /\ i \in Known /\ log # <<>>
      BY <1>6, <1>8, <1>9, <2>2 DEF l
    <3>2. /\ log[i].time \in Nat /\ Latest(i) /\ whose[i].day \in Nat /\ whose[i].session \in Nat
      BY <1>3, <1>10, <3>1
    <3>3. CASE written > 0
      <4>1. whose[i] = o /\ clock <= log[i].time + Gap
        BY <1>4, <2>2, <3>1, <3>3 DEF l, o
      <4>2. log[i].time < clock
        BY <1>7, <3>2, <4>1 DEF Latest
      <4>3. clock - log[i].time \in 0 .. Gap
        BY <1>3, <1>5, <3>2, <4>1, <4>2
      <4> QED  BY <3>1, <4>1, <4>3 DEF Spaced
    <3>4. CASE ~ (written > 0)
      <4>1. whose[i].session <= made
        BY <3>2, <3>4 DEF Latest
      <4>2. whose[i] # o
        BY <1>3, <1>7, <3>2, <4>1
      <4>3. whose[i].day = day => clock - log[i].time > Gap
        BY <1>3, <1>4, <1>5, <2>2, <3>1, <3>2, <3>4 DEF l
      <4> QED  BY <1>7, <3>1, <4>2, <4>3 DEF Spaced
    <3> QED  BY <3>3, <3>4
  <2> QED  BY <1>12, <2>1, <2>2
<1>15. ASSUME NEW i \in 1 .. l + 1, NEW k \in 1 .. l + 1, i < k, whose'[i].day = whose'[k].day
       PROVE  log'[i].time < log'[k].time
  <2>1. i \in 1 .. l /\ i \in Known /\ log'[i] = log[i] /\ whose'[i] = whose[i] /\ Latest(i)
    BY <1>3, <1>8, <1>9, <1>12, <1>15
  <2>2. CASE k \in 1 .. l
    BY <1>3, <1>8, <1>9, <1>15, <2>1, <2>2
  <2>3. CASE k = l + 1
    BY <1>6, <1>7, <1>8, <1>15, <2>1, <2>3 DEF Latest
  <2> QED  BY <1>12, <2>2, <2>3
<1>16. /\ made' \in Nat /\ written' \in Nat /\ Len(whose') = Len(log')
       /\ \A i \in Known' : Latest(i)'
       /\ \A i, k \in Known' : i < k /\ whose'[i].day = whose'[k].day => log'[i].time < log'[k].time
  BY <1>2, <1>3, <1>8, <1>9, <1>13, <1>15
<1>17. \A i \in 1 .. Len(log') - 1 : Spaced(i)'
  BY <1>8, <1>12, <1>14
<1>18. whose'[Len(log')] = [day |-> day', session |-> made' + 1] /\ clock' <= log'[Len(log')].time + Gap
  BY <1>2, <1>3, <1>5, <1>6, <1>8, <1>11 DEF o
<1> QED  BY <1>8, <1>11, <1>16, <1>17, <1>18 DEF WrittenInv

\* A session ends with a break of more than Gap.
LEMMA WrittenSession == TableInv /\ WrittenInv /\ NextSession => WrittenInv'
<1> SUFFICES ASSUME TableInv, WrittenInv, NextSession PROVE WrittenInv'
  OBVIOUS
<1>1. /\ source = "synthesize" /\ log' = log /\ whose' = whose /\ day' = day
      /\ made' = made + 1 /\ written' = 0 /\ written > 0
      /\ Usable' = Usable /\ Known' = Known
  BY DEF NextSession, Usable, PickTokens, Known
<1>2. PICK b \in Break : clock' = clock + b
  BY DEF NextSession
<1>3. b \in Nat /\ b > Gap /\ Gap \in Nat
  BY GapAssumption
<1>4. clock \in Nat /\ made \in Nat /\ written \in Nat /\ day \in Nat /\ Len(whose) = Len(log)
  BY <1>1 DEF WrittenInv, TableInv, LogTyped
<1>5. \A i \in Known : Latest(i) /\ log[i].time \in Nat
  BY <1>1, UsableTimes DEF WrittenInv, Latest
<1>6. \A i \in Known : Latest(i)'
  BY <1>1, <1>2, <1>3, <1>4, <1>5 DEF Latest
<1>7. \A i \in 1 .. Len(log) - 1 : Spaced(i)'
  BY <1>1 DEF WrittenInv, Spaced
<1>8. log # <<>> => (whose[Len(log)].day = day => clock' > log[Len(log)].time + Gap)
  <2>1. log # <<>> => Len(log) \in Known
    BY DEF TableInv, LogTyped, Known
  <2> QED  BY <1>2, <1>3, <1>4, <1>5, <2>1 DEF Latest
<1>9. clock' \in Nat /\ made' \in Nat /\ written' \in Nat
  BY <1>1, <1>2, <1>3, <1>4
<1> QED  BY <1>1, <1>6, <1>7, <1>8, <1>9 DEF WrittenInv

LEMMA ProductNat == \A a, b \in Nat : a * b \in Nat
  OBVIOUS

\* No record is of the new day yet, whatever its hour.
LEMMA WrittenDay == TableInv /\ WrittenInv /\ NextDay => WrittenInv'
<1> SUFFICES ASSUME TableInv, WrittenInv, NextDay PROVE WrittenInv'
  OBVIOUS
<1>1. /\ source = "synthesize" /\ log' = log /\ whose' = whose /\ day' = day + 1
      /\ made' = made /\ written' = written /\ written = 0
      /\ Usable' = Usable /\ Known' = Known /\ clock' = DayLength * day'
  BY DEF NextDay, Usable, PickTokens, Known
<1>2. clock' \in Nat /\ day \in Nat
  BY <1>1, RecordAssumption, ProductNat DEF TableInv, LogTyped
<1>3. /\ made \in Nat /\ whose \in Seq(Owner) /\ Len(whose) = Len(log) /\ \A i \in Known : Latest(i)
  BY <1>1 DEF WrittenInv
<1>4. \A i \in Known : whose[i].day \in Nat
  <2>1. \A i \in Known : whose[i] \in Owner
    BY <1>3, ElementOfSeq DEF Known
  <2> QED  BY <2>1 DEF Owner
<1>5. \A i \in Known : Latest(i)'
  BY <1>1, <1>2, <1>3, <1>4 DEF Latest
<1>6. \A i \in 1 .. Len(log) - 1 : Spaced(i)'
  BY <1>1 DEF WrittenInv, Spaced
<1>7. log # <<>> => ~ (whose[Len(log)].day = day + 1)
  <2>1. log # <<>> => Len(log) \in Known
    BY DEF TableInv, LogTyped, Known
  <2> QED  BY <1>2, <1>3, <1>4, <2>1 DEF Latest
<1> QED  BY <1>1, <1>2, <1>5, <1>6, <1>7 DEF WrittenInv

LEMMA WrittenStep == TableInv /\ WrittenInv /\ [TelemetryNext]_telemetry => WrittenInv'
<1> SUFFICES ASSUME TableInv, WrittenInv, [TelemetryNext]_telemetry PROVE WrittenInv'
  OBVIOUS
<1>1. ASSUME UNCHANGED writing PROVE WrittenInv'
  <2>1. Usable' = Usable /\ Known' = Known
    BY <1>1 DEF writing, Usable, PickTokens, Known
  <2> QED  BY <1>1, <2>1 DEF writing, WrittenInv, Latest, Spaced
<1>2. CASE LogRequest
  BY <1>2 DEF LogRequest, WrittenInv
<1>3. CASE StartAnalysis \/ TakeRecord \/ LastSession \/ ScanRequest \/ CloseSession \/ Suggest
  BY <1>1, <1>3 DEF StartAnalysis, TakeRecord, LastSession, ScanRequest, CloseSession, Suggest
<1>4. CASE UNCHANGED telemetry
  BY <1>1, <1>4 DEF telemetry
<1> QED  BY <1>2, <1>3, <1>4, WrittenRequest, WrittenSession, WrittenDay DEF TelemetryNext

\* In one session found, records more than Gap apart have one in between.
LEMMA SplitShows ==
  ASSUME TableInv, GroupInv, OrderInv, WrittenInv, stage \in {"analyze", "done"}, source = "synthesize",
         NEW i \in 1 .. Len(log) - 1
  PROVE  /\ whose[i] = whose[i + 1] => Together(i, i + 1)
         /\ Together(i, i + 1) /\ whose[i].day = whose[i + 1].day /\ whose[i] # whose[i + 1] =>
              \E k \in DOMAIN log : /\ whose[k].day # whose[i].day
                                    /\ log[k].time \in log[i].time .. log[i + 1].time
<1>1. unread = {} /\ Groups = sessions /\ Holds(sessions, Usable) /\ Parted(sessions) /\ Ordered(sessions)
  BY DEF GroupInv, OrderInv, Grouping, Groups
<1>2. /\ sessions \in Seq(Seq(Known)) /\ Len(log) \in Nat /\ DOMAIN log = Known /\ Gap \in Nat
      /\ i \in Known /\ i + 1 \in Known
  BY GapAssumption DEF TableInv, GroupsTyped, LogTyped, Known
<1>3. Usable = Known /\ \A k \in Known : log[k].time \in Nat
  BY UsableTimes DEF WrittenInv, Latest
<1>4. Spaced(i)
  BY DEF WrittenInv
<1>5. \A a \in PlacesOf(sessions) :
        /\ a = <<a[1], a[2]>> /\ a[1] \in 1 .. Len(sessions) /\ a[2] \in 1 .. Len(sessions[a[1]])
        /\ a[1] \in DOMAIN sessions /\ a[2] \in DOMAIN sessions[a[1]]
        /\ At(sessions, a) \in Known /\ sessions[a[1]][a[2]] = At(sessions, a)
  BY <1>2, APlace DEF At, PlacesOf
<1>6. ASSUME whose[i] = whose[i + 1] PROVE Together(i, i + 1)
  <2>1. log[i + 1].time - log[i].time \in 0 .. Gap
    BY <1>4, <1>6 DEF Spaced
  <2>2. PICK a \in PlacesOf(sessions) : At(sessions, a) = i
    BY <1>1, <1>2, <1>3 DEF Holds
  <2>3. PICK b \in PlacesOf(sessions) : At(sessions, b) = i + 1
    BY <1>1, <1>2, <1>3 DEF Holds
  <2>4. ~ (a[1] < b[1]) /\ ~ (b[1] < a[1])
    <3>1. Silence(sessions, a, b) = log[i + 1].time - log[i].time
          /\ Silence(sessions, b, a) = log[i].time - log[i + 1].time
      BY <2>2, <2>3 DEF Silence
    <3>2. a[1] < b[1] => Silence(sessions, a, b) > Gap
      BY <1>1, <2>2, <2>3 DEF Ordered
    <3>3. b[1] < a[1] => Silence(sessions, b, a) > Gap
      BY <1>1, <2>2, <2>3 DEF Ordered
    <3> QED  BY <1>2, <1>3, <2>1, <3>1, <3>2, <3>3
  <2>5. a[1] = b[1]
    BY <1>5, <2>2, <2>3, <2>4
  <2> QED  BY <1>5, <2>2, <2>3, <2>5 DEF Together
<1>7. ASSUME Together(i, i + 1), whose[i].day = whose[i + 1].day, whose[i] # whose[i + 1]
      PROVE  \E k \in DOMAIN log : /\ whose[k].day # whose[i].day
                                   /\ log[k].time \in log[i].time .. log[i + 1].time
  <2>0. log[i].time \in Nat /\ log[i + 1].time \in Nat
    BY <1>2, <1>3
  <2>1. log[i + 1].time - log[i].time > Gap
    BY <1>4, <1>7 DEF Spaced
  <2>2. PICK s \in DOMAIN sessions : \E x, y \in DOMAIN sessions[s] : sessions[s][x] = i /\ sessions[s][y] = i + 1
    BY <1>7 DEF Together
  <2>3. PICK x \in DOMAIN sessions[s], y \in DOMAIN sessions[s] : sessions[s][x] = i /\ sessions[s][y] = i + 1
    BY <2>2
  <2>4. /\ s \in 1 .. Len(sessions) /\ DOMAIN sessions[s] = 1 .. Len(sessions[s]) /\ Len(sessions[s]) \in Nat
        /\ x \in 1 .. Len(sessions[s]) /\ y \in 1 .. Len(sessions[s])
    <3>1. sessions[s] \in Seq(Known)
      BY <1>2, ElementOfSeq
    <3> QED  BY <1>2, <2>3, <3>1, LenProperties
  <2> DEFINE pl(j) == <<s, j>>
  <2>5. \A j \in 1 .. Len(sessions[s]) :
          pl(j) \in PlacesOf(sessions) /\ pl(j)[1] = s /\ pl(j)[2] = j /\ At(sessions, pl(j)) = sessions[s][j]
    BY <1>2, <2>4, APlace DEF At
  <2> HIDE DEF pl
  <2>6. \A j, k \in 1 .. Len(sessions[s]) :
          /\ Silence(sessions, pl(j), pl(k)) = log[sessions[s][k]].time - log[sessions[s][j]].time
          /\ sessions[s][j] \in Known
    BY <1>5, <2>5 DEF Silence
  <2>7. \A j, k \in 1 .. Len(sessions[s]) :
          j < k => log[sessions[s][k]].time - log[sessions[s][j]].time >= 0
    BY <1>1, <2>5, <2>6 DEF Ordered
  <2>8. x < y
    <3>1. y < x => log[i].time - log[i + 1].time >= 0
      BY <2>3, <2>4, <2>7
    <3>2. x # y
      BY <1>2, <2>3
    <3>3. Gap \in Nat
      BY GapAssumption
    <3>4. ~ (y < x)
      BY <2>0, <2>1, <3>1, <3>3
    <3>5. x \in Int /\ y \in Int
      BY <2>4
    <3> QED  BY <3>2, <3>4, <3>5
  <2>9. y # x + 1
    <3>1. y = x + 1 => Follows(pl(x), pl(y))
      BY <2>4, <2>5 DEF Follows
    <3>2. Follows(pl(x), pl(y)) => Silence(sessions, pl(x), pl(y)) \in 0 .. Gap
      BY <1>1, <2>4, <2>5 DEF Parted
    <3> QED  BY <1>2, <1>3, <2>1, <2>3, <2>4, <2>6, <3>1, <3>2
  <2>10. x + 1 \in 1 .. Len(sessions[s]) /\ x < x + 1 /\ x + 1 < y
    BY <2>4, <2>8, <2>9
  <2> DEFINE k == sessions[s][x + 1]
  <2>11. k \in Known /\ log[k].time - log[i].time >= 0 /\ log[i + 1].time - log[k].time >= 0
    BY <2>3, <2>4, <2>6, <2>7, <2>10
  <2>12. k # i /\ k # i + 1
    <3>1. pl(x) # pl(x + 1) /\ pl(x + 1) # pl(y)
      BY <2>4, <2>5, <2>10
    <3> QED  BY <1>1, <2>3, <2>4, <2>5, <2>10, <3>1 DEF Holds
  <2> HIDE DEF k
  <2>13. log[k].time \in Nat
    BY <1>3, <2>11
  <2>14. whose[k].day # whose[i].day
    <3> SUFFICES ASSUME whose[k].day = whose[i].day PROVE FALSE
      OBVIOUS
    <3>1. CASE k < i
      <4>1. log[k].time < log[i].time
        BY <1>2, <2>11, <3>1 DEF WrittenInv
      <4> QED  BY <2>0, <2>11, <2>13, <4>1
    <3>2. CASE k > i + 1
      <4>1. log[i + 1].time < log[k].time
        BY <1>2, <1>7, <2>11, <3>2 DEF WrittenInv
      <4> QED  BY <2>0, <2>11, <2>13, <4>1
    <3> QED  BY <1>2, <2>11, <2>12, <3>1, <3>2 DEF Known
  <2>15. log[k].time \in log[i].time .. log[i + 1].time
    BY <2>0, <2>11, <2>13
  <2> QED  BY <1>2, <2>11, <2>14, <2>15
<1> QED  BY <1>6, <1>7

\* The analyzer finds the synthesized sessions again but for those of a day between
\* which requests of another day fall, whatever the sizes, pauses, breaks and hours,
\* and however far the days run into one another.
THEOREM SyntheticSessionsFound == TelemetrySpec => []SyntheticSplit
<1>1. TelemetryInit => TableInv /\ GroupInv /\ OrderInv /\ WrittenInv
  BY TableInit, GroupInit, WrittenInit DEF OrderInv, Grouping, TelemetryInit, TelemetryIn
<1>2. TableInv /\ GroupInv /\ OrderInv /\ WrittenInv /\ [TelemetryNext]_telemetry
        => (TableInv /\ GroupInv /\ OrderInv /\ WrittenInv)'
  BY TableStep, GroupStep, OrderStep, WrittenStep
<1>3. TableInv /\ GroupInv /\ OrderInv /\ WrittenInv => SyntheticSplit
  BY SplitShows DEF SyntheticSplit
<1> QED  BY <1>1, <1>2, <1>3, PTL DEF TelemetrySpec

(***************************************************************************)
(* Benchmark suites.                                                       *)
(***************************************************************************)

\* What load_suites may append.
Entry ==
  UNION {{[job |-> doc.jobs[i], defaults |-> doc.defaults,
           merged |-> Merged(doc.jobs[i], doc.defaults)] : i \in DOMAIN doc.jobs} :
         doc \in {d \in Document : Valid(d)}}
PromptOf(job) == IF Has(job, "prompt") THEN job.prompt ELSE "none"
Asked         == {PromptOf(l.merged) : l \in Entry}

\* The jobs are run in their order, with the prompt of their merged form.
SuiteInv ==
  /\ loaded \in Seq(Entry) /\ sent \in Seq(Asked)
  /\ Len(sent) <= Len(loaded)
  /\ \A i \in DOMAIN sent : sent[i] = PromptOf(loaded[i].merged)
  /\ phaseOfSuite = "load" => sent = <<>>

\* Merging reads the job first, then the defaults it takes, then the built-in n.
LEMMA MergedReads ==
  ASSUME NEW job, NEW defaults, NEW k
  PROVE  LET m == Merged(job, defaults)
             taken == k \in DOMAIN defaults /\ (Prompts \cap DOMAIN job = {} \/ k \notin Prompts) IN
         /\ Has(m, k) <=> Has(job, k) \/ taken \/ k = "n"
         /\ Has(job, k) => m[k] = job[k]
         /\ ~ Has(job, k) /\ taken => m[k] = defaults[k]
         /\ ~ Has(job, k) /\ ~ taken /\ k = "n" => m[k] = 5
  BY DEF Merged, Has

\* The merged job is what its author wrote.
LEMMA MergedWritten ==
  ASSUME NEW job, NEW defaults, ValidJob(job), ValidCommon(defaults)
  PROVE  LET m == Merged(job, defaults) IN
         /\ PromptOf(m) = IF Has(job, "prompt") THEN job.prompt
                          ELSE IF Has(job, "prompt_file") \/ ~ Has(defaults, "prompt") THEN "none"
                          ELSE defaults.prompt
         /\ m.n >= 1 /\ m.a # m.b
  <1> DEFINE m == Merged(job, defaults)
             free == Prompts \cap DOMAIN job = {}
  <1>1. free <=> ~ Has(job, "prompt") /\ ~ Has(job, "prompt_file")
    BY DEF Prompts, Has
  <1>2. /\ Has(m, "prompt") <=> Has(job, "prompt") \/ ("prompt" \in DOMAIN defaults /\ free)
        /\ Has(job, "prompt") => m["prompt"] = job["prompt"]
        /\ ~ Has(job, "prompt") /\ "prompt" \in DOMAIN defaults /\ free => m["prompt"] = defaults["prompt"]
    BY MergedReads DEF Prompts
  <1>3. PromptOf(m) = IF Has(job, "prompt") THEN job.prompt
                      ELSE IF Has(job, "prompt_file") \/ ~ Has(defaults, "prompt") THEN "none"
                      ELSE defaults.prompt
    <2> HIDE DEF m, free
    <2>1. QED
      BY <1>1, <1>2 DEF PromptOf, Has
  <1>4. "n" \notin Prompts
    BY DEF Prompts
  <1>5. m.n = IF Has(job, "n") THEN job.n ELSE IF Has(defaults, "n") THEN defaults.n ELSE 5
    BY <1>4 DEF Merged, Has
  <1>6. /\ Has(job, "n") => job.n >= 1
        /\ Has(defaults, "n") => defaults.n >= 1
    BY DEF ValidJob, ValidCommon
  <1>7. m.n >= 1
    <2> HIDE DEF m
    <2>1. QED
      BY <1>5, <1>6
  <1>8. m.a # m.b
    <2>1. Has(job, "a") /\ Has(job, "b") /\ job.a # job.b
      BY DEF ValidJob
    <2>2. m.a = job.a /\ m.b = job.b
      BY <2>1 DEF Merged, Has
    <2> HIDE DEF m
    <2>3. QED
      BY <2>1, <2>2
  <1>9. QED
    BY <1>3, <1>7, <1>8

LEMMA EntryTrue ==
  ASSUME NEW l \in Entry
  PROVE  ValidJob(l.job) /\ ValidCommon(l.defaults) /\ l.merged = Merged(l.job, l.defaults)
  <1>1. PICK doc \in Document : Valid(doc) /\ \E i \in DOMAIN doc.jobs :
          l = [job |-> doc.jobs[i], defaults |-> doc.defaults,
               merged |-> Merged(doc.jobs[i], doc.defaults)]
    BY DEF Entry
  <1>2. PICK i \in DOMAIN doc.jobs :
          l = [job |-> doc.jobs[i], defaults |-> doc.defaults,
               merged |-> Merged(doc.jobs[i], doc.defaults)]
    BY <1>1
  <1>3. l.job = doc.jobs[i] /\ l.defaults = doc.defaults /\ l.merged = Merged(doc.jobs[i], doc.defaults)
    BY <1>2
  <1>4. ValidCommon(doc.defaults) /\ ValidJob(doc.jobs[i])
    BY <1>1 DEF Valid
  <1>5. QED
    BY <1>3, <1>4

\* Every step keeps the jobs as they were merged.
LEMMA SuiteStep == SuiteInv /\ [SuiteNext]_suite => SuiteInv'
  <1> SUFFICES ASSUME SuiteInv, [SuiteNext]_suite PROVE SuiteInv'
    OBVIOUS
  <1>1. CASE LoadSuite
    <2>1. PICK doc \in Document :
            /\ Valid(doc)
            /\ loaded' = loaded \o [i \in DOMAIN doc.jobs |->
                 [job |-> doc.jobs[i], defaults |-> doc.defaults,
                  merged |-> Merged(doc.jobs[i], doc.defaults)]]
      BY <1>1 DEF LoadSuite
    <2> DEFINE more == [i \in DOMAIN doc.jobs |->
                          [job |-> doc.jobs[i], defaults |-> doc.defaults,
                           merged |-> Merged(doc.jobs[i], doc.defaults)]]
    <2>2. more \in Seq(Entry)
      <3>1. \A i \in DOMAIN doc.jobs : more[i] \in Entry
        BY <2>1 DEF Entry
      <3>2. DOMAIN doc.jobs = 1 .. Len(doc.jobs) /\ Len(doc.jobs) \in Nat
        BY DocumentAssumption
      <3>3. more \in [1 .. Len(doc.jobs) -> Entry]
        BY <3>1, <3>2
      <3> HIDE DEF more
      <3>4. QED
        BY <3>2, <3>3, SeqDef
    <2> HIDE DEF more
    <2>3. loaded' = loaded \o more
      BY <2>1 DEF more
    <2>4. loaded' \in Seq(Entry) /\ Len(loaded') = Len(loaded) + Len(more) /\ Len(more) \in Nat
      BY <2>2, <2>3, ConcatProperties, LenProperties DEF SuiteInv
    <2>5. sent = <<>> /\ UNCHANGED <<phaseOfSuite, sent>>
      BY <1>1 DEF LoadSuite, SuiteInv
    <2>6. Len(sent) = 0 /\ DOMAIN sent = {} /\ Len(loaded) \in Nat
      BY <2>5, LenProperties DEF SuiteInv
    <2>7. QED
      BY <2>4, <2>5, <2>6 DEF SuiteInv
  <1>2. CASE RejectSuite
    BY <1>2 DEF RejectSuite, SuiteInv
  <1>3. CASE AllLoaded
    BY <1>3 DEF AllLoaded, SuiteInv
  <1>4. CASE RunJob
    <2> DEFINE i == Len(sent) + 1
               s == PromptOf(loaded[i].merged)
    <2>1. /\ phaseOfSuite = "run" /\ Len(sent) < Len(loaded) /\ sent' = Append(sent, s)
          /\ UNCHANGED <<phaseOfSuite, loaded>>
      BY <1>4 DEF RunJob, PromptOf
    <2>2. loaded[i] \in Entry
      BY <2>1, ElementOfSeq, LenProperties DEF SuiteInv
    <2>3. s \in Asked
      BY <2>2 DEF Asked
    <2> HIDE DEF s
    <2>4. /\ sent' \in Seq(Asked) /\ Len(sent') = Len(sent) + 1 /\ sent'[i] = s
          /\ \A j \in 1 .. Len(sent) : sent'[j] = sent[j]
      BY <2>1, <2>3, AppendProperties DEF SuiteInv
    <2>5. \A j \in DOMAIN sent' : sent'[j] = PromptOf(loaded[j].merged)
      BY <2>4, LenProperties DEF SuiteInv, s
    <2>6. Len(sent') <= Len(loaded)
      BY <2>1, <2>4, LenProperties DEF SuiteInv
    <2>7. QED
      BY <2>1, <2>4, <2>5, <2>6 DEF SuiteInv
  <1>5. CASE UNCHANGED suite
    BY <1>5 DEF suite, SuiteInv
  <1>6. QED
    BY <1>1, <1>2, <1>3, <1>4, <1>5 DEF SuiteNext

\* Of any suite files that validate, a job with a prompt text of its own or of its
\* defaults is measured with that text and no job with another, its repetition count
\* is at least one and its ports differ (bench_suite.py 108-118).
THEOREM JobsRunAsWritten == SuiteSpec => []JobsAsWritten
  <1>1. SuiteInit => SuiteInv
    BY DEF SuiteInit, SuiteIn, SuiteInv
  <1>2. SuiteInv => JobsAsWritten
    <2> SUFFICES ASSUME SuiteInv, NEW i \in DOMAIN sent
                 PROVE  LET texts == Texts(loaded[i].job, loaded[i].defaults)
                        IN /\ texts # {} \/ sent[i] # "none" => sent[i] \in texts
                           /\ loaded[i].merged.n >= 1 /\ loaded[i].merged.a # loaded[i].merged.b
      BY DEF JobsAsWritten
    <2> DEFINE own      == loaded[i].job
               defaults == loaded[i].defaults
    <2>1. loaded[i] \in Entry /\ sent[i] = PromptOf(loaded[i].merged)
      BY ElementOfSeq, LenProperties DEF SuiteInv
    <2>2. /\ ValidJob(own) /\ ValidCommon(defaults)
          /\ loaded[i].merged = Merged(own, defaults)
      BY <2>1, EntryTrue
    <2>3. /\ sent[i] = IF Has(own, "prompt") THEN own.prompt
                       ELSE IF Has(own, "prompt_file") \/ ~ Has(defaults, "prompt") THEN "none"
                       ELSE defaults.prompt
          /\ loaded[i].merged.n >= 1 /\ loaded[i].merged.a # loaded[i].merged.b
      BY <2>1, <2>2, MergedWritten
    <2> HIDE DEF own, defaults
    <2>4. Texts(own, defaults) # {} \/ sent[i] # "none" => sent[i] \in Texts(own, defaults)
      BY <2>3 DEF Texts
    <2>5. QED
      BY <2>3, <2>4 DEF own, defaults
  <1>3. QED
    BY <1>1, <1>2, SuiteStep, PTL DEF SuiteSpec

(***************************************************************************)
(* The needle session and its replay.                                      *)
(***************************************************************************)

Message == [role : {"system", "user", "assistant", "tool"}, turn : Nat, call : Nat]
Line    == [kind : {"body", "blank", "broken"}, size : Nat]
Phases  == {"build", "emit", "replay", "done"}

\* The talk so far: the system message first, a call before each of its results,
\* and a question last once it is complete.
TalkInv ==
  /\ phaseOfReplay \in Phases
  /\ messages \in Seq(Message) /\ turn \in Nat
  /\ messages = <<>> => phaseOfReplay = "build" /\ turn = 1
  /\ \A m \in DOMAIN messages :
       /\ messages[m].role = "user" => m >= 2
       /\ messages[m].role = "tool" =>
            m >= 2 /\ messages[m - 1].role = "assistant" /\ messages[m - 1].call = messages[m].call
  /\ phaseOfReplay # "build" => messages[Len(messages)].role = "user"

\* The lines so far are bodies of user turns, all of them once the replay starts.
LinesInv ==
  /\ session \in Seq(Line)
  /\ \A j \in DOMAIN session :
       IF session[j].kind = "body" THEN session[j].size \in UserTurns ELSE session[j].size = 0
  /\ phaseOfReplay = "build" => session = <<>>
  /\ phaseOfReplay \in {"replay", "done"} => UserTurns \subseteq Written

LEMMA SayTyped ==
  ASSUME NEW role \in {"system", "user", "assistant", "tool"}, NEW call \in Nat, TalkInv
  PROVE  Say(role, call) \in Message /\ Say(role, call).role = role /\ Say(role, call).call = call
  BY DEF Say, Message, TalkInv

\* What is appended to a talk keeps its shape when it has it: a question or an
\* answer anywhere but first, a result after its call.
LEMMA TalkGrows ==
  ASSUME TalkInv, messages # <<>>, NEW more \in Seq(Message), more # <<>>,
         \A m \in DOMAIN more :
           more[m].role = "tool" =>
             m >= 2 /\ more[m - 1].role = "assistant" /\ more[m - 1].call = more[m].call,
         messages' = messages \o more
  PROVE  /\ messages' \in Seq(Message) /\ messages' # <<>>
         /\ messages'[Len(messages')] = more[Len(more)]
         /\ \A m \in DOMAIN messages' :
              /\ messages'[m].role = "user" => m >= 2
              /\ messages'[m].role = "tool" =>
                   m >= 2 /\ messages'[m - 1].role = "assistant"
                   /\ messages'[m - 1].call = messages'[m].call
  <1> DEFINE l == Len(messages)
  <1>1. /\ messages \in Seq(Message) /\ l \in Nat \ {0} /\ DOMAIN messages = 1 .. l
        /\ Len(more) \in Nat \ {0} /\ DOMAIN more = 1 .. Len(more)
    BY EmptySeq, LenProperties DEF TalkInv
  <1>2. /\ messages' \in Seq(Message) /\ Len(messages') = l + Len(more)
        /\ DOMAIN messages' = 1 .. l + Len(more)
        /\ \A m \in 1 .. l + Len(more) :
             messages'[m] = IF m <= l THEN messages[m] ELSE more[m - l]
    BY <1>1, ConcatProperties, LenProperties
  <1> HIDE DEF l
  <1>3. ASSUME NEW m \in 1 .. l + Len(more)
        PROVE  /\ messages'[m].role = "user" => m >= 2
               /\ messages'[m].role = "tool" =>
                    m >= 2 /\ messages'[m - 1].role = "assistant"
                    /\ messages'[m - 1].call = messages'[m].call
    <2>1. CASE m <= l
      <3>1. messages'[m] = messages[m] /\ (m >= 2 => messages'[m - 1] = messages[m - 1])
        BY <1>1, <1>2, <2>1
      <3>2. m \in DOMAIN messages
        BY <1>1, <2>1
      <3>3. QED
        BY <3>1, <3>2, <1>1, <2>1 DEF TalkInv
    <2>2. CASE m > l
      <3>1. messages'[m] = more[m - l] /\ m - l \in DOMAIN more /\ m >= 2
        BY <1>1, <1>2, <2>2
      <3>2. m - l >= 2 => messages'[m - 1] = more[m - l - 1]
        BY <1>1, <1>2, <2>2
      <3>3. QED
        BY <3>1, <3>2
    <2>3. QED
      BY <2>1, <2>2, <1>1
  <1>4. messages'[Len(messages')] = more[Len(more)] /\ messages' # <<>>
    BY <1>1, <1>2, EmptySeq
  <1>5. QED
    BY <1>2, <1>3, <1>4

LEMMA TalkStep == TalkInv /\ [ReplayNext]_replay => TalkInv'
  <1> SUFFICES ASSUME TalkInv, [ReplayNext]_replay PROVE TalkInv'
    OBVIOUS
  <1>1. CASE Plant
    <2> DEFINE a == Say("system", 0)
               b == Say("user", 0)
               c == Say("assistant", 0)
    <2>1. a \in Message /\ b \in Message /\ c \in Message
          /\ a.role = "system" /\ b.role = "user" /\ c.role = "assistant"
      BY SayTyped
    <2>2. messages' = <<a, b, c>> /\ turn' = 2 /\ phaseOfReplay' = "build"
      BY <1>1 DEF Plant
    <2> HIDE DEF a, b, c
    <2>3. messages' \in Seq(Message) /\ DOMAIN messages' = 1 .. 3 /\ messages' # <<>>
          /\ messages'[1] = a /\ messages'[2] = b /\ messages'[3] = c
      BY <2>1, <2>2
    <2>4. QED
      BY <2>1, <2>2, <2>3 DEF TalkInv, Phases
  <1>2. CASE Busywork
    <2>1. turn \in Nat /\ turn >= 2 /\ phaseOfReplay' = "build" /\ turn' = turn + 1
          /\ messages # <<>>
      BY <1>2, TurnsAssumption DEF Busywork, TalkInv
    <2> DEFINE a == Say("user", 0)
               b == Say("assistant", turn)
               c == Say("tool", turn)
               d == Say("assistant", 0)
    <2>2. /\ a \in Message /\ b \in Message /\ c \in Message /\ d \in Message
          /\ a.role = "user" /\ b.role = "assistant" /\ c.role = "tool" /\ d.role = "assistant"
          /\ b.call = c.call
      BY <2>1, SayTyped
    <2>3. messages' = messages \o <<a, b, c>> \/ messages' = messages \o <<a, d>>
      BY <1>2 DEF Busywork
    <2> HIDE DEF a, b, c, d
    <2>4. PICK more : more \in Seq(Message) /\ more # <<>> /\ messages' = messages \o more
            /\ \A m \in DOMAIN more :
                 more[m].role = "tool" =>
                   m >= 2 /\ more[m - 1].role = "assistant" /\ more[m - 1].call = more[m].call
      <3>1. CASE messages' = messages \o <<a, b, c>>
        <4>1. <<a, b, c>> \in Seq(Message) /\ <<a, b, c>> # <<>>
          BY <2>2
        <4>2. \A m \in DOMAIN <<a, b, c>> :
                 <<a, b, c>>[m].role = "tool" =>
                   m >= 2 /\ <<a, b, c>>[m - 1].role = "assistant"
                   /\ <<a, b, c>>[m - 1].call = <<a, b, c>>[m].call
          BY <2>2
        <4>3. QED
          BY <4>1, <4>2, <3>1
      <3>2. CASE messages' = messages \o <<a, d>>
        <4>1. <<a, d>> \in Seq(Message) /\ <<a, d>> # <<>>
          BY <2>2
        <4>2. \A m \in DOMAIN <<a, d>> : <<a, d>>[m].role # "tool"
          BY <2>2
        <4>3. QED
          BY <4>1, <4>2, <3>2
      <3>3. QED
        BY <2>3, <3>1, <3>2
    <2>5. /\ messages' \in Seq(Message) /\ messages' # <<>>
          /\ \A m \in DOMAIN messages' :
              /\ messages'[m].role = "user" => m >= 2
              /\ messages'[m].role = "tool" =>
                   m >= 2 /\ messages'[m - 1].role = "assistant"
                   /\ messages'[m - 1].call = messages'[m].call
      BY <2>1, <2>4, TalkGrows
    <2>6. QED
      BY <2>1, <2>5 DEF TalkInv, Phases
  <1>3. CASE Ask
    <2>1. turn \in Nat /\ turn >= 2 /\ phaseOfReplay' = "emit" /\ turn' = turn /\ messages # <<>>
      BY <1>3, TurnsAssumption DEF Ask, TalkInv
    <2> DEFINE a == Say("user", 0)
    <2>2. a \in Message /\ a.role = "user"
      BY SayTyped
    <2>3. messages' = Append(messages, a) /\ messages \in Seq(Message)
      BY <1>3 DEF Ask, TalkInv
    <2> HIDE DEF a
    <2>4. /\ <<a>> \in Seq(Message) /\ <<a>> # <<>> /\ <<a>>[Len(<<a>>)] = a
          /\ \A m \in DOMAIN <<a>> : <<a>>[m].role # "tool"
      BY <2>2
    <2>5. messages' = messages \o <<a>>
      BY <2>2, <2>3, AppendIsConcat
    <2>6. /\ messages' \in Seq(Message) /\ messages' # <<>>
          /\ messages'[Len(messages')].role = "user"
          /\ \A m \in DOMAIN messages' :
              /\ messages'[m].role = "user" => m >= 2
              /\ messages'[m].role = "tool" =>
                   m >= 2 /\ messages'[m - 1].role = "assistant"
                   /\ messages'[m - 1].call = messages'[m].call
      BY <2>1, <2>2, <2>4, <2>5, TalkGrows
    <2>7. QED
      BY <2>1, <2>6 DEF TalkInv, Phases
  <1>4. CASE Emit \/ EmitOther \/ StartReplay \/ SkipBlank \/ RejectLine \/ Post \/ Finish
    BY <1>4 DEF Emit, EmitOther, StartReplay, SkipBlank, RejectLine, Post, Finish, More, TalkInv, Phases
  <1>5. CASE UNCHANGED replay
    BY <1>5 DEF replay, TalkInv
  <1>6. QED
    BY <1>1, <1>2, <1>3, <1>4, <1>5 DEF ReplayNext

\* Once the talk is complete its questions are where they were.
LEMMA LinesStep == TalkInv /\ LinesInv /\ [ReplayNext]_replay => LinesInv'
  <1> SUFFICES ASSUME TalkInv, LinesInv, [ReplayNext]_replay PROVE LinesInv'
    OBVIOUS
  <1> DEFINE LineTrue(l) == IF l.kind = "body" THEN l.size \in UserTurns ELSE l.size = 0
  <1>1. ASSUME NEW l \in Line, LineTrue(l), phaseOfReplay = "emit", phaseOfReplay' = "emit",
               messages' = messages, session' = Append(session, l)
        PROVE  LinesInv'
    <2>1. UserTurns' = UserTurns
      BY <1>1 DEF UserTurns
    <2>2. session \in Seq(Line) /\ \A j \in DOMAIN session : LineTrue(session[j])
      BY DEF LinesInv
    <2> HIDE DEF LineTrue
    <2>3. session' \in Seq(Line) /\ \A j \in DOMAIN session' : LineTrue(session'[j])
      BY <1>1, <2>2, AppendProperties, LenProperties
    <2>4. QED
      BY <2>1, <2>3, <1>1 DEF LinesInv, LineTrue
  <1>2. CASE Plant \/ Busywork \/ Ask
    <2>1. phaseOfReplay = "build" /\ phaseOfReplay' \in {"build", "emit"} /\ session' = session
      BY <1>2 DEF Plant, Busywork, Ask
    <2>2. session' = <<>>
      BY <2>1 DEF LinesInv
    <2>3. QED
      BY <2>1, <2>2 DEF LinesInv
  <1>3. CASE Emit
    <2>1. PICK i \in UserTurns : session' = Append(session, Body(i))
      BY <1>3 DEF Emit
    <2>2. Body(i) \in Line /\ LineTrue(Body(i))
      BY <2>1, LenProperties DEF Body, Line, UserTurns, TalkInv
    <2>3. QED
      BY <2>1, <2>2, <1>1, <1>3 DEF Emit
  <1>4. CASE EmitOther
    <2>1. PICK kind \in {"blank", "broken"} : session' = Append(session, Other(kind))
      BY <1>4 DEF EmitOther
    <2>2. Other(kind) \in Line /\ LineTrue(Other(kind))
      BY <2>1 DEF Other, Line
    <2>3. QED
      BY <2>1, <2>2, <1>1, <1>4 DEF EmitOther
  <1>5. CASE StartReplay
    BY <1>5 DEF StartReplay, LinesInv, UserTurns, Written
  <1>6. CASE SkipBlank \/ RejectLine \/ Post \/ Finish
    <2>1. /\ phaseOfReplay = "replay" /\ phaseOfReplay' \in {"replay", "done"}
          /\ session' = session /\ messages' = messages
      BY <1>6 DEF SkipBlank, RejectLine, Post, Finish, More
    <2>2. UserTurns' = UserTurns /\ Written' = Written
      BY <2>1 DEF UserTurns, Written
    <2>3. QED
      BY <2>1, <2>2 DEF LinesInv
  <1>7. CASE UNCHANGED replay
    <2>1. session' = session /\ messages' = messages /\ phaseOfReplay' = phaseOfReplay
      BY <1>7 DEF replay
    <2>2. UserTurns' = UserTurns /\ Written' = Written
      BY <2>1 DEF UserTurns, Written
    <2>3. QED
      BY <2>1, <2>2 DEF LinesInv
  <1>8. QED
    BY <1>2, <1>3, <1>4, <1>5, <1>6, <1>7 DEF ReplayNext

\* Of a talk of any number of turns, with any tool calls, every line that is replayed
\* ends with a question, after the planted fact and with each result after its call,
\* and one line is the whole talk (needle.py 186-212).
THEOREM SessionsAreRequests == ReplaySpec => []BodiesAreRequests
  <1>1. ReplayInit => TalkInv /\ LinesInv
    BY DEF ReplayInit, ReplayIn, TalkInv, LinesInv, Phases
  <1>2. TalkInv /\ LinesInv => BodiesAreRequests
    <2> SUFFICES ASSUME TalkInv, LinesInv, phaseOfReplay \in {"replay", "done"}
                 PROVE  BodiesAreRequests
      BY DEF BodiesAreRequests
    <2>1. messages # <<>> /\ messages \in Seq(Message) /\ messages[Len(messages)].role = "user"
      BY DEF TalkInv
    <2>2. Len(messages) \in UserTurns
      BY <2>1, EmptySeq, LenProperties DEF UserTurns
    <2>3. PICK j \in DOMAIN session : session[j].size = Len(messages)
      BY <2>2 DEF LinesInv, Written
    <2>4. session[j] \in Line /\ Len(messages) # 0
      BY <2>1, <2>3, ElementOfSeq, EmptySeq, LenProperties DEF LinesInv
    <2>5. session[j].kind = "body"
      BY <2>3, <2>4 DEF LinesInv
    <2>6. session[j] = Body(Len(messages))
      BY <2>3, <2>4, <2>5 DEF Body, Line
    <2>7. ASSUME NEW i \in DOMAIN session, session[i].kind = "body"
          PROVE  LET k == session[i].size IN
                 /\ k >= 2 /\ messages[k].role = "user"
                 /\ \A m \in 1 .. k : messages[m].role = "tool" =>
                      messages[m - 1].role = "assistant" /\ messages[m - 1].call = messages[m].call
      <3>1. session[i].size \in UserTurns
        BY <2>7 DEF LinesInv
      <3> DEFINE k == session[i].size
      <3>2. k \in 1 .. Len(messages) /\ messages[k].role = "user"
        BY <3>1, <2>1, LenProperties DEF UserTurns
      <3> HIDE DEF k
      <3>3. \A m \in 1 .. k : m \in DOMAIN messages
        BY <3>2, <2>1, LenProperties
      <3>4. k >= 2 /\ \A m \in 1 .. k : messages[m].role = "tool" =>
                      messages[m - 1].role = "assistant" /\ messages[m - 1].call = messages[m].call
        <4>1. k >= 2
          <5>1. k \in DOMAIN messages
            BY <3>2, <2>1, LenProperties
          <5>2. QED
            BY <5>1, <3>2 DEF TalkInv
        <4>2. ASSUME NEW m \in 1 .. k, messages[m].role = "tool"
              PROVE  messages[m - 1].role = "assistant" /\ messages[m - 1].call = messages[m].call
          BY <3>3, <4>2 DEF TalkInv
        <4>3. QED
          BY <4>1, <4>2
      <3>5. QED
        BY <3>2, <3>4 DEF k
    <2>8. QED
      BY <2>3, <2>6, <2>7 DEF BodiesAreRequests
  <1>3. QED
    BY <1>1, <1>2, TalkStep, LinesStep, PTL DEF ReplaySpec

(***************************************************************************)
(* The reports.  ReportIsTrue says nothing of a replay under way: that     *)
(* every line passed so far is blank or has its report is what is carried  *)
(* from line to line.                                                      *)
(***************************************************************************)

Answer   == [kind : {"transport", "http", "ok", "none"}, stubs : SUBSET Nat, stats : BOOLEAN, inline : BOOLEAN]
Reported == [line : Nat, orig : Int, rewritten : Int, elided : SUBSET Nat, delta : Int,
             failed : BOOLEAN, answer : Answer]

\* What a report says of the saving is what the proxy did.
SavingTrue(r) ==
  r.answer.stats \/ r.answer.inline =>
    /\ r.elided = r.answer.stubs
    /\ r.delta >= 0 /\ (r.delta = 0 <=> r.elided = {})
\* Line i was blank, or it was answered or has failed.
Seen(i, rs) ==
  session[i].kind = "blank"
  \/ \E q \in DOMAIN rs : rs[q].line = i /\ (rs[q].failed \/ rs[q].answer.kind = "ok")
ReportsInv ==
  /\ reports \in Seq(Reported) /\ at \in Nat \ {0}
  /\ phaseOfReplay \in {"build", "emit"} => at = 1
  /\ \A q \in DOMAIN reports : SavingTrue(reports[q])
  /\ \A i \in 1 .. at - 1 : i <= Len(session) => Seen(i, reports)
  /\ phaseOfReplay = "done" =>
       /\ at > Len(session) \/ at > MaxLine
       /\ exit = 0 => \A q \in DOMAIN reports : ~ reports[q].failed

LEMMA ImageFinite ==
  ASSUME NEW f, IsFiniteSet(DOMAIN f)
  PROVE  IsFiniteSet({f[x] : x \in DOMAIN f})
  <1> DEFINE T == {f[x] : x \in DOMAIN f}
             g == [x \in DOMAIN f |-> f[x]]
  <1>1. g \in Surjection(DOMAIN f, T)
    BY DEF Surjection
  <1>2. QED
    BY <1>1, FS_Surjection

\* The calls a body answers are finitely many.
LEMMA CallsFinite ==
  ASSUME TalkInv, NEW k \in UserTurns
  PROVE  IsFiniteSet(Calls(k)) /\ Calls(k) \subseteq Nat /\ k \in Nat
  <1> DEFINE results == {i \in 1 .. k : messages[i].role = "tool"}
  <1>1. k \in 1 .. Len(messages) /\ messages \in Seq(Message)
    BY LenProperties DEF TalkInv, UserTurns
  <1>2. IsFiniteSet(1 .. k)
    BY <1>1, FS_Interval, LenProperties
  <1>3. IsFiniteSet(results)
    BY <1>2, FS_Subset
  <1>4. IsFiniteSet({messages[i].call : i \in results})
    <2> HIDE DEF results
    <2> DEFINE f == [i \in results |-> messages[i].call]
    <2>1. DOMAIN f = results /\ \A i \in results : f[i] = messages[i].call
      OBVIOUS
    <2> HIDE DEF f
    <2>2. IsFiniteSet({f[i] : i \in DOMAIN f})
      BY <1>3, <2>1, ImageFinite
    <2>3. QED
      BY <2>1, <2>2
  <1>5. Calls(k) = {messages[i].call : i \in results}
    BY DEF Calls
  <1>6. \A i \in results : messages[i] \in Message
    BY <1>1, ElementOfSeq
  <1>7. \A i \in results : messages[i].call \in Nat
    BY <1>6 DEF Message
  <1>8. QED
    BY <1>1, <1>4, <1>5, <1>7

\* Every answer to a body makes a report that is true.
LEMMA ReportTrue ==
  ASSUME TalkInv, NEW k \in UserTurns, NEW a \in Answers(k), at \in Nat
  PROVE  LET r == Report(k, a) IN
         /\ r \in Reported /\ r.line = at /\ (r.failed \/ r.answer.kind = "ok")
         /\ SavingTrue(r)
  <1>1. IsFiniteSet(Calls(k)) /\ Calls(k) \subseteq Nat /\ k \in Nat
    BY CallsFinite
  <1>2. /\ a \in Answer /\ a.stubs \subseteq Calls(k) /\ a.kind # "none"
        /\ a.stats \/ a.inline => a.kind = "ok"
    <2> DEFINE C == Calls(k)
    <2> HIDE DEF C
    <2>1. \/ a \in {[kind |-> kind, stubs |-> {}, stats |-> FALSE, inline |-> FALSE] :
                   kind \in {"transport", "http", "ok"}}
          \/ a \in [kind : {"ok"}, stubs : SUBSET C, stats : {TRUE}, inline : BOOLEAN]
          \/ a \in [kind : {"ok"}, stubs : SUBSET C, stats : {FALSE}, inline : {TRUE}]
      BY Zenon DEF Answers, C
    <2>2. C \subseteq Nat
      BY <1>1 DEF C
    <2>3. CASE a \in {[kind |-> kind, stubs |-> {}, stats |-> FALSE, inline |-> FALSE] :
                     kind \in {"transport", "http", "ok"}}
      <3>1. PICK kind \in {"transport", "http", "ok"} :
              a = [kind |-> kind, stubs |-> {}, stats |-> FALSE, inline |-> FALSE]
        BY <2>3
      <3>2. a.kind = kind /\ a.stubs = {} /\ a.stats = FALSE /\ a.inline = FALSE
        BY <3>1
      <3>3. a \in Answer
        BY <3>1 DEF Answer
      <3>4. QED
        BY <3>2, <3>3 DEF C
    <2>4. CASE \/ a \in [kind : {"ok"}, stubs : SUBSET C, stats : {TRUE}, inline : BOOLEAN]
               \/ a \in [kind : {"ok"}, stubs : SUBSET C, stats : {FALSE}, inline : {TRUE}]
      <3>1. a.kind = "ok" /\ a.stubs \subseteq C
        BY <2>4
      <3>2. a \in [kind : {"ok"}, stubs : SUBSET C, stats : BOOLEAN, inline : BOOLEAN]
        BY <2>4
      <3>3. a \in Answer
        BY <3>2, <2>2 DEF Answer
      <3>4. QED
        BY <3>1, <3>3 DEF C
    <2>5. QED
      BY <2>1, <2>3, <2>4
  <1> DEFINE c == Cardinality(Calls(k))
             s == Cardinality(a.stubs)
             r == Report(k, a)
  <1>3. c \in Nat /\ s \in Nat /\ Cardinality({}) = 0 /\ (s = 0 <=> a.stubs = {})
    BY <1>1, <1>2, FS_Subset, FS_CardinalityType, FS_EmptySet
  <1>4. PICK x \in Nat :
          /\ Estimate(k, {}) = x /\ Estimate(k, a.stubs) = x - s
          /\ Exact * x \in Int /\ Exact * (x - s) \in Int
          /\ Exact * x - Exact * (x - s) >= 0
          /\ Exact * x - Exact * (x - s) = 0 <=> s = 0
    <2>1. Estimate(k, {}) = k + c /\ Estimate(k, a.stubs) = k + c - s /\ k + c \in Nat
      BY <1>1, <1>3 DEF Estimate
    <2>2. ASSUME NEW e \in Nat \ {0}, NEW x \in Nat, NEW y \in Nat
          PROVE  /\ e * x \in Int /\ e * (x - y) \in Int
                 /\ e * x - e * (x - y) >= 0 /\ (e * x - e * (x - y) = 0 <=> y = 0)
      <3>1. e * y >= 0 /\ (e * y = 0 <=> y = 0)
        OBVIOUS
      <3>2. e * x - e * (x - y) = e * y /\ e * x \in Int /\ e * (x - y) \in Int
        OBVIOUS
      <3>3. QED
        BY <3>1, <3>2
    <2> HIDE DEF c, s
    <2>3. PICK x \in Nat : x = k + c
      BY <2>1
    <2>4. Estimate(k, {}) = x /\ Estimate(k, a.stubs) = x - s
      BY <2>1, <2>3, <1>1, <1>3
    <2>5. /\ Exact * x \in Int /\ Exact * (x - s) \in Int
          /\ Exact * x - Exact * (x - s) >= 0
          /\ Exact * x - Exact * (x - s) = 0 <=> s = 0
      BY <2>2, <1>3, TurnsAssumption
    <2>6. QED
      BY <2>4, <2>5
  <1>5. Elided(k, a) \subseteq Nat /\ (a.stats \/ a.inline => Elided(k, a) = a.stubs)
    BY <1>1, <1>2 DEF Elided
  <1> HIDE DEF c, s
  <1>6. CASE a.kind = "transport"
    <2>1. r = [line |-> at, orig |-> Estimate(k, {}), rewritten |-> 0, elided |-> {}, delta |-> 0,
               failed |-> TRUE, answer |-> a]
      BY <1>6 DEF Report
    <2>2. r \in Reported
      BY <2>1, <1>1, <1>2, <1>3, <1>4 DEF Reported
    <2> HIDE DEF r
    <2>3. QED
      BY <2>1, <2>2, <1>2, <1>6 DEF SavingTrue, r
  <1>7. CASE a.kind # "transport"
    <2> DEFINE o == IF a.stats THEN Exact * Estimate(k, {}) ELSE Estimate(k, {})
               w == IF a.stats THEN Exact * Estimate(k, a.stubs)
                    ELSE IF a.inline THEN Estimate(k, a.stubs) ELSE 0
    <2>1. r = [line |-> at, orig |-> o, rewritten |-> w, elided |-> Elided(k, a),
               delta |-> o - w, failed |-> a.kind = "http", answer |-> a]
      BY <1>7 DEF Report
    <2>2. o \in Int /\ w \in Int
      BY <1>1, <1>3, <1>4
    <2>3. a.stats \/ a.inline => o - w >= 0 /\ (o - w = 0 <=> a.stubs = {})
      <3>1. CASE a.stats
        <4>1. o - w = Exact * x - Exact * (x - s)
          BY <3>1, <1>4
        <4> HIDE DEF o, w
        <4>2. QED
          BY <4>1, <1>3, <1>4, Zenon
      <3>2. CASE ~ a.stats /\ a.inline
        <4>1. o = x /\ w = x - s
          BY <3>2, <1>4
        <4> HIDE DEF o, w
        <4>2. QED
          BY <4>1, <1>3
      <3>3. QED
        BY <3>1, <3>2
    <2> HIDE DEF o, w, r
    <2>4. r \in Reported
      BY <2>1, <2>2, <1>2, <1>5 DEF Reported
    <2>5. /\ r.line = at /\ r.failed = (a.kind = "http") /\ r.answer = a
          /\ r.elided = Elided(k, a) /\ r.delta = o - w
      BY <2>1
    <2>6. r.failed \/ r.answer.kind = "ok"
      BY <2>5, <1>2, <1>7 DEF Answer
    <2>7. SavingTrue(r)
      BY <2>3, <2>5, <1>5 DEF SavingTrue
    <2>8. QED
      BY <2>4, <2>5, <2>6, <2>7 DEF r
  <1>8. QED
    BY <1>6, <1>7

\* A line that is passed gets the report it needs, and older reports stay.
LEMMA ReportsStep == TalkInv /\ LinesInv /\ ReportsInv /\ [ReplayNext]_replay => ReportsInv'
  <1> SUFFICES ASSUME TalkInv, LinesInv, ReportsInv, [ReplayNext]_replay PROVE ReportsInv'
    OBVIOUS
  <1>0. /\ reports \in Seq(Reported) /\ at \in Nat \ {0} /\ session \in Seq(Line)
        /\ Len(session) \in Nat /\ MaxLine \in Nat
    BY LenProperties, TurnsAssumption DEF ReportsInv, LinesInv
  <1>1. ASSUME NEW r \in Reported, r.line = at, r.failed \/ r.answer.kind = "ok", SavingTrue(r),
               phaseOfReplay = "replay", phaseOfReplay' = "replay", session' = session,
               reports' = Append(reports, r), at' = at + 1
        PROVE  ReportsInv'
    <2> DEFINE l == Len(reports)
    <2>1. /\ l \in Nat /\ DOMAIN reports = 1 .. l
          /\ reports' \in Seq(Reported) /\ DOMAIN reports' = 1 .. l + 1
          /\ reports'[l + 1] = r /\ \A q \in 1 .. l : reports'[q] = reports[q]
      BY <1>0, <1>1, AppendProperties, LenProperties
    <2> HIDE DEF l
    <2>2. \A q \in DOMAIN reports' : SavingTrue(reports'[q])
      <3> SUFFICES ASSUME NEW q \in 1 .. l + 1 PROVE SavingTrue(reports'[q])
        BY <2>1
      <3>1. CASE q = l + 1
        BY <3>1, <2>1, <1>1
      <3>2. CASE q \in 1 .. l
        BY <3>2, <2>1 DEF ReportsInv
      <3>3. QED
        BY <3>1, <3>2, <2>1
    <2>3. ASSUME NEW i \in 1 .. at' - 1, i <= Len(session)
          PROVE  Seen(i, reports')
      <3>1. CASE i = at
        BY <3>1, <2>1, <1>1 DEF Seen
      <3>2. CASE i # at
        <4>1. i \in 1 .. at - 1
          BY <3>2, <2>3, <1>0, <1>1
        <4>2. Seen(i, reports)
          BY <4>1, <2>3 DEF ReportsInv
        <4>3. QED
          BY <4>2, <2>1 DEF Seen
      <3>3. QED
        BY <3>1, <3>2
    <2>4. \A i \in 1 .. at' - 1 : i <= Len(session') => Seen(i, reports)'
      BY <2>3, <1>1 DEF Seen
    <2>5. at' \in Nat \ {0}
      BY <1>0, <1>1
    <2>6. QED
      BY <2>1, <2>2, <2>4, <2>5, <1>1 DEF ReportsInv, SavingTrue
  <1>2. CASE Plant \/ Busywork \/ Ask \/ Emit \/ EmitOther
    <2>1. /\ phaseOfReplay \in {"build", "emit"} /\ phaseOfReplay' \in {"build", "emit"}
          /\ at' = at /\ reports' = reports
      BY <1>2 DEF Plant, Busywork, Ask, Emit, EmitOther
    <2>2. at = 1 /\ \A i \in 1 .. at' - 1 : FALSE
      BY <2>1, <1>0 DEF ReportsInv
    <2>3. QED
      BY <1>0, <2>1, <2>2 DEF ReportsInv, SavingTrue
  <1>3. CASE StartReplay
    <2>1. /\ phaseOfReplay = "emit" /\ phaseOfReplay' = "replay"
          /\ at' = at /\ reports' = reports
      BY <1>3 DEF StartReplay
    <2>2. at = 1 /\ \A i \in 1 .. at' - 1 : FALSE
      BY <2>1, <1>0 DEF ReportsInv
    <2>3. QED
      BY <1>0, <2>1, <2>2 DEF ReportsInv, SavingTrue
  <1>4. CASE SkipBlank
    <2>1. /\ phaseOfReplay = "replay" /\ phaseOfReplay' = "replay" /\ session[at].kind = "blank"
          /\ session' = session /\ reports' = reports /\ at' = at + 1
      BY <1>4 DEF SkipBlank, More
    <2>2. \A i \in 1 .. at' - 1 : i <= Len(session') => Seen(i, reports)'
      <3> SUFFICES ASSUME NEW i \in 1 .. at' - 1, i <= Len(session) PROVE Seen(i, reports)'
        BY <2>1
      <3>1. CASE i = at
        BY <3>1, <2>1 DEF Seen
      <3>2. CASE i # at
        <4>1. i \in 1 .. at - 1
          BY <3>2, <1>0, <2>1
        <4>2. Seen(i, reports)
          BY <4>1 DEF ReportsInv
        <4>3. QED
          BY <4>2, <2>1 DEF Seen
      <3>3. QED
        BY <3>1, <3>2
    <2>3. at' \in Nat \ {0}
      BY <1>0, <2>1
    <2>4. QED
      BY <2>1, <2>2, <2>3 DEF ReportsInv, SavingTrue
  <1>5. CASE RejectLine
    <2>1. Broken \in Reported /\ Broken.line = at /\ Broken.failed /\ SavingTrue(Broken)
      BY <1>0 DEF Broken, Reported, Answer, SavingTrue
    <2>2. /\ phaseOfReplay = "replay" /\ phaseOfReplay' = "replay" /\ session' = session
          /\ reports' = Append(reports, Broken) /\ at' = at + 1
      BY <1>5 DEF RejectLine, More
    <2>3. QED
      BY <2>1, <2>2, <1>1
  <1>6. CASE Post
    <2> DEFINE k == session[at].size
    <2>1. /\ phaseOfReplay = "replay" /\ phaseOfReplay' = "replay" /\ session' = session
          /\ at \in DOMAIN session /\ session[at].kind = "body" /\ at' = at + 1
      BY <1>0, <1>6, LenProperties DEF Post, More
    <2>2. PICK a \in Answers(k) : reports' = Append(reports, Report(k, a))
      BY <1>6 DEF Post
    <2>3. k \in UserTurns /\ at \in Nat
      BY <2>1, <1>0 DEF LinesInv
    <2> HIDE DEF k
    <2>4. /\ Report(k, a) \in Reported /\ Report(k, a).line = at
          /\ Report(k, a).failed \/ Report(k, a).answer.kind = "ok"
          /\ SavingTrue(Report(k, a))
      BY <2>2, <2>3, ReportTrue
    <2>5. QED
      BY <2>1, <2>2, <2>4, <1>1
  <1>7. CASE Finish
    <2>1. /\ phaseOfReplay' = "done" /\ session' = session /\ reports' = reports /\ at' = at
          /\ at > Len(session) \/ at > MaxLine
          /\ exit' = IF \E i \in DOMAIN reports : reports[i].failed THEN 1 ELSE 0
      BY <1>7, <1>0 DEF Finish, More
    <2>2. exit' = 0 => \A q \in DOMAIN reports : ~ reports[q].failed
      BY <2>1
    <2>3. \A i \in 1 .. at' - 1 : i <= Len(session') => Seen(i, reports)'
      BY <2>1 DEF ReportsInv, Seen
    <2>4. QED
      BY <1>0, <2>1, <2>2, <2>3 DEF ReportsInv, SavingTrue
  <1>8. CASE UNCHANGED replay
    <2>1. /\ phaseOfReplay' = phaseOfReplay /\ session' = session /\ reports' = reports
          /\ at' = at /\ exit' = exit
      BY <1>8 DEF replay
    <2>2. \A i \in 1 .. at' - 1 : i <= Len(session') => Seen(i, reports)'
      BY <2>1 DEF ReportsInv, Seen
    <2>3. QED
      BY <2>1, <2>2 DEF ReportsInv, SavingTrue
  <1>9. QED
    BY <1>2, <1>3, <1>4, <1>5, <1>6, <1>7, <1>8 DEF ReplayNext

\* Of a session of any length and any answers of the proxy, with any number of
\* messages and calls and any ratio of the two estimates, a report tells the truth
\* of each answer, and the exit code of all of them (replay.py 185-239, 313).
THEOREM ReplaysTellTheTruth == ReplaySpec => []ReportIsTrue
  <1>1. ReplayInit => TalkInv /\ LinesInv /\ ReportsInv
    BY DEF ReplayInit, ReplayIn, TalkInv, LinesInv, ReportsInv, Phases
  <1>2. LinesInv /\ ReportsInv => ReportIsTrue
    <2> SUFFICES ASSUME LinesInv, ReportsInv PROVE ReportIsTrue
      OBVIOUS
    <2>1. ASSUME phaseOfReplay = "done", exit = 0, NEW i \in 1 .. Len(session), i <= MaxLine
          PROVE  \/ session[i].kind = "blank"
                 \/ \E r \in ToSet(reports) : r.line = i /\ r.answer.kind = "ok"
      <3>1. i \in 1 .. at - 1 /\ i <= Len(session)
        BY <2>1, LenProperties, TurnsAssumption DEF ReportsInv, LinesInv
      <3>2. Seen(i, reports)
        BY <3>1 DEF ReportsInv
      <3>3. \A q \in DOMAIN reports : ~ reports[q].failed
        BY <2>1 DEF ReportsInv
      <3>4. QED
        BY <3>2, <3>3 DEF Seen, ToSet
    <2>2. \A q \in DOMAIN reports : SavingTrue(reports[q])
      BY DEF ReportsInv
    <2>3. QED
      BY <2>1, <2>2 DEF ReportIsTrue, SavingTrue
  <1>3. QED
    BY <1>1, <1>2, TalkStep, LinesStep, ReportsStep, PTL DEF ReplaySpec

(***************************************************************************)
(* The files of the A/B harness.                                           *)
(***************************************************************************)

\* The rows of a run of a variant so far: the cells in the order of the matrix.
FixtureOf(i) == Fixture[(i - 1) \div Seeds + 1]
RowOf(v, k, f, o) ==
  [variant |-> v, run |-> k, fixture |-> f, error |-> o.error, needle |-> Graded(o).needle,
   orig |-> Graded(o).orig, rewritten |-> Graded(o).rewritten]
Row == {RowOf(v, k, f, o) : v \in Variant, k \in Nat, f \in ToSet(Fixture), o \in Outcome}
Cellwise(rs, v, k) ==
  /\ rs \in Seq(Row) /\ Len(rs) <= Cells
  /\ \A i \in DOMAIN rs : rs[i].variant = v /\ rs[i].run = k /\ rs[i].fixture = FixtureOf(i)

\* A run at work has measured a part of the matrix for one variant, all of it while
\* it writes; a file that is no torn one holds all of it, of one run.
FileInv ==
  /\ runs \in Nat
  /\ phaseOfHarness \in {"run", "write"} =>
       /\ todoVariants \in Seq(Variant) /\ todoVariants # <<>>
       /\ Cellwise(rows, Head(todoVariants), runs)
  /\ phaseOfHarness = "write" => Len(rows) = Cells
  /\ DOMAIN files = Variant
  /\ \A v \in Variant : Loaded(v) =>
       Len(files[v].rows) = Cells /\ \E k \in Nat : Cellwise(files[v].rows, v, k)

LEMMA FixturesTyped ==
  /\ Fixture \in Seq(ToSet(Fixture)) /\ Len(Fixture) \in Nat /\ DOMAIN Fixture = 1 .. Len(Fixture)
  /\ Cells \in Nat
  BY MatrixAssumption, LenProperties DEF Cells

\* Each cell of the matrix is a fixture with one of its seeds.
LEMMA CellOf ==
  ASSUME NEW i \in 1 .. Cells
  PROVE  /\ (i - 1) \div Seeds \in Int /\ (i - 1) \div Seeds + 1 \in 1 .. Len(Fixture)
         /\ (i - 1) % Seeds \in 0 .. Seeds - 1
         /\ i = ((i - 1) \div Seeds) * Seeds + ((i - 1) % Seeds) + 1
         /\ FixtureOf(i) \in ToSet(Fixture)
  <1>1. Seeds \in Nat \ {0} /\ Len(Fixture) \in Nat /\ Cells = Len(Fixture) * Seeds
    BY FixturesTyped, MatrixAssumption DEF Cells
  <1>2. ASSUME NEW d \in Nat \ {0}, NEW l \in Nat, NEW j \in 0 .. l * d - 1
        PROVE  j \div d \in 0 .. l - 1 /\ j % d \in 0 .. d - 1 /\ j = (j \div d) * d + (j % d)
    OBVIOUS
  <1>3. i - 1 \in 0 .. Len(Fixture) * Seeds - 1
    BY <1>1
  <1> DEFINE j == i - 1
  <1>4. j \div Seeds \in 0 .. Len(Fixture) - 1 /\ j % Seeds \in 0 .. Seeds - 1
        /\ j = (j \div Seeds) * Seeds + (j % Seeds)
    BY <1>1, <1>2, <1>3
  <1>5. (i - 1) \div Seeds + 1 \in 1 .. Len(Fixture)
    BY <1>1, <1>4
  <1>6. FixtureOf(i) \in ToSet(Fixture)
    BY <1>5, FixturesTyped DEF FixtureOf, ToSet
  <1>7. QED
    BY <1>1, <1>4, <1>5, <1>6

LEMMA CellAt ==
  ASSUME NEW k \in 1 .. Len(Fixture), NEW s \in 0 .. Seeds - 1
  PROVE  /\ (k - 1) * Seeds + s + 1 \in 1 .. Cells
         /\ ((k - 1) * Seeds + s) \div Seeds = k - 1
         /\ ((k - 1) * Seeds + s) % Seeds = s
  <1>1. Seeds \in Nat \ {0} /\ Len(Fixture) \in Nat /\ Cells = Len(Fixture) * Seeds
    BY FixturesTyped, MatrixAssumption DEF Cells
  <1>2. ASSUME NEW d \in Nat \ {0}, NEW l \in Nat, NEW q \in 0 .. l - 1, NEW r \in 0 .. d - 1
        PROVE  (q * d + r) + 1 \in 1 .. l * d /\ (q * d + r) \div d = q /\ (q * d + r) % d = r
    OBVIOUS
  <1>3. PICK q \in 0 .. Len(Fixture) - 1 : q = k - 1
    BY <1>1
  <1>4. (q * Seeds + s) + 1 \in 1 .. Cells /\ (q * Seeds + s) \div Seeds = q /\ (q * Seeds + s) % Seeds = s
    BY <1>1, <1>2
  <1>5. QED
    BY <1>3, <1>4, <1>1

\* The cells of a fixture are its seeds, once for each time it is named.
LEMMA CellsOfFixture ==
  ASSUME NEW f
  PROVE  Cardinality({i \in 1 .. Cells : FixtureOf(i) = f})
           = Seeds * Cardinality({k \in DOMAIN Fixture : Fixture[k] = f})
  <1> DEFINE I == {i \in 1 .. Cells : FixtureOf(i) = f}
             K == {k \in DOMAIN Fixture : Fixture[k] = f}
             R == 0 .. Seeds - 1
             g == [p \in K \X R |-> (p[1] - 1) * Seeds + p[2] + 1]
  <1>1. IsFiniteSet(K) /\ IsFiniteSet(R) /\ Cardinality(R) = Seeds /\ Cardinality(K) \in Nat
    <2>1. IsFiniteSet(1 .. Len(Fixture))
      BY FixturesTyped, FS_Interval
    <2>2. IsFiniteSet(K)
      BY <2>1, FixturesTyped, FS_Subset
    <2>3. Seeds \in Nat \ {0} /\ Seeds - 1 \in Int
      BY MatrixAssumption
    <2>4. IsFiniteSet(R) /\ Cardinality(R) = Seeds
      BY <2>3, FS_Interval
    <2> HIDE DEF K, R
    <2>5. QED
      BY <2>2, <2>4, FS_CardinalityType
  <1>2. IsFiniteSet(K \X R) /\ Cardinality(K \X R) = Cardinality(K) * Cardinality(R)
    <2> HIDE DEF K, R
    <2>1. QED
      BY <1>1, FS_Product
  <1>3. g \in Bijection(K \X R, I)
    <2>1. ASSUME NEW p \in K \X R
          PROVE  /\ g[p] \in I /\ (g[p] - 1) \div Seeds = p[1] - 1 /\ (g[p] - 1) % Seeds = p[2]
      <3>1. PICK k \in K, s \in R : p = <<k, s>>
        BY <2>1
      <3>2. k \in 1 .. Len(Fixture) /\ Fixture[k] = f /\ s \in 0 .. Seeds - 1
        BY <3>1, FixturesTyped
      <3>3. g[p] = (k - 1) * Seeds + s + 1
        BY <2>1, <3>1
      <3>4. /\ g[p] \in 1 .. Cells /\ g[p] - 1 = (k - 1) * Seeds + s
            /\ ((k - 1) * Seeds + s) \div Seeds = k - 1 /\ ((k - 1) * Seeds + s) % Seeds = s
        <4> DEFINE z == (k - 1) * Seeds + s
        <4>1. z + 1 \in 1 .. Cells /\ z \div Seeds = k - 1 /\ z % Seeds = s
          BY <3>2, CellAt
        <4>2. z \in Int
          BY <3>2, FixturesTyped, MatrixAssumption
        <4>3. g[p] = z + 1
          BY <3>3
        <4> HIDE DEF z, g
        <4>4. g[p] - 1 = z
          BY <4>2, <4>3
        <4>5. QED
          BY <4>1, <4>3, <4>4 DEF z
      <3>5. (g[p] - 1) \div Seeds = k - 1 /\ (g[p] - 1) % Seeds = s
        BY <3>4
      <3>6. FixtureOf(g[p]) = Fixture[k]
        BY <3>2, <3>5 DEF FixtureOf
      <3> HIDE DEF g
      <3>7. QED
        BY <3>1, <3>2, <3>4, <3>5, <3>6
    <2>2. ASSUME NEW i \in I
          PROVE  \E p \in K \X R : g[p] = i
      <3> DEFINE k == (i - 1) \div Seeds + 1
                 s == (i - 1) % Seeds
      <3>1. /\ k \in 1 .. Len(Fixture) /\ s \in 0 .. Seeds - 1
            /\ i = ((i - 1) \div Seeds) * Seeds + s + 1 /\ Fixture[k] = f
            /\ (i - 1) \div Seeds = k - 1 /\ k \in Int
        <4>1. i \in 1 .. Cells /\ FixtureOf(i) = f
          BY <2>2
        <4>2. (i - 1) \div Seeds \in Int /\ k \in 1 .. Len(Fixture) /\ s \in 0 .. Seeds - 1
              /\ i = ((i - 1) \div Seeds) * Seeds + s + 1
          BY <4>1, CellOf
        <4>3. Fixture[k] = f
          BY <4>1 DEF FixtureOf
        <4>4. (i - 1) \div Seeds = k - 1 /\ k \in Int
          BY <4>2
        <4>5. QED
          BY <4>2, <4>3, <4>4
      <3>2. i = (k - 1) * Seeds + s + 1
        BY <3>1
      <3> HIDE DEF k, s
      <3>3. <<k, s>> \in K \X R
        BY <3>1, FixturesTyped
      <3>4. g[<<k, s>>] = i
        BY <3>2, <3>3
      <3>5. QED
        BY <3>3, <3>4
    <2>3. \A p \in K \X R : p = <<p[1], p[2]>> /\ p[1] \in Int
      BY FixturesTyped
    <2>4. DOMAIN g = K \X R /\ g = [p \in DOMAIN g |-> g[p]]
      OBVIOUS
    <2> HIDE DEF g, K, R, I
    <2>5. g \in [K \X R -> I]
      BY <2>1, <2>4
    <2>6. \A p, q \in K \X R : g[p] = g[q] => p = q
      <3> SUFFICES ASSUME NEW p \in K \X R, NEW q \in K \X R, g[p] = g[q] PROVE p = q
        OBVIOUS
      <3>1. p[1] - 1 = q[1] - 1 /\ p[2] = q[2]
        BY <2>1
      <3>2. QED
        BY <3>1, <2>3
    <2>7. QED
      BY <2>2, <2>5, <2>6 DEF Bijection, Injection, Surjection, IsInjective
  <1>4. Cardinality(I) = Cardinality(K \X R)
    <2> HIDE DEF I, K, R, g
    <2>1. ExistsBijection(K \X R, I)
      BY <1>3 DEF ExistsBijection
    <2>2. QED
      BY <1>2, <2>1, FS_Bijection
  <1>5. Cardinality(I) = Seeds * Cardinality(K)
    <2> HIDE DEF I, K, R, g
    <2>1. QED
      BY <1>1, <1>2, <1>4, MatrixAssumption
  <1>6. QED
    BY <1>5

\* A cell that is measured is the next one of the matrix.
LEMMA CellMeasured ==
  ASSUME NEW v \in Variant, NEW k \in Nat, Cellwise(rows, v, k), Len(rows) < Cells,
         NEW o \in Outcome
  PROVE  Cellwise(Append(rows, [variant |-> v, run |-> k, fixture |-> Fixture[Len(rows) \div Seeds + 1],
                                error |-> o.error, needle |-> Graded(o).needle,
                                orig |-> Graded(o).orig, rewritten |-> Graded(o).rewritten]), v, k)
  <1> DEFINE r == [variant |-> v, run |-> k, fixture |-> Fixture[Len(rows) \div Seeds + 1],
                   error |-> o.error, needle |-> Graded(o).needle,
                   orig |-> Graded(o).orig, rewritten |-> Graded(o).rewritten]
             l == Len(rows)
  <1>1. rows \in Seq(Row) /\ l \in Nat /\ DOMAIN rows = 1 .. l /\ l + 1 \in 1 .. Cells
    BY FixturesTyped, LenProperties DEF Cellwise
  <1>2. (l + 1) - 1 = l
    BY <1>1
  <1>3. r.fixture = FixtureOf(l + 1) /\ FixtureOf(l + 1) \in ToSet(Fixture)
    BY <1>1, <1>2, CellOf DEF FixtureOf
  <1>4. r \in Row
    <2> DEFINE f == Fixture[Len(rows) \div Seeds + 1]
    <2>1. f \in ToSet(Fixture)
      BY <1>3
    <2> HIDE DEF f
    <2>2. RowOf(v, k, f, o) \in Row
      BY <2>1 DEF Row
    <2>3. QED
      BY <2>2 DEF f, RowOf
  <1>5. r.variant = v /\ r.run = k
    OBVIOUS
  <1> HIDE DEF r
  <1>6. /\ Append(rows, r) \in Seq(Row) /\ Len(Append(rows, r)) = l + 1
        /\ Append(rows, r)[l + 1] = r /\ \A i \in 1 .. l : Append(rows, r)[i] = rows[i]
    BY <1>1, <1>4, AppendProperties
  <1>7. DOMAIN Append(rows, r) = 1 .. l + 1
    BY <1>6, LenProperties
  <1> HIDE DEF l
  <1>8. ASSUME NEW i \in 1 .. l + 1
        PROVE  LET x == Append(rows, r)[i] IN x.variant = v /\ x.run = k /\ x.fixture = FixtureOf(i)
    <2>1. CASE i = l + 1
      BY <2>1, <1>3, <1>5, <1>6
    <2>2. CASE i \in 1 .. l
      BY <2>2, <1>1, <1>6 DEF Cellwise
    <2>3. QED
      BY <2>1, <2>2, <1>1
  <1>9. Cellwise(Append(rows, r), v, k)
    BY <1>1, <1>6, <1>7, <1>8 DEF Cellwise
  <1>10. QED
    BY <1>9 DEF r

LEMMA FileStep == FileInv /\ [HarnessNext]_harness => FileInv'
  <1> SUFFICES ASSUME FileInv, [HarnessNext]_harness PROVE FileInv'
    OBVIOUS
  <1>1. CASE StartRun
    <2>1. /\ todoVariants' \in Chosen /\ rows' = <<>> /\ runs' = runs + 1 /\ files' = files
          /\ phaseOfHarness' = "run"
      BY <1>1 DEF StartRun
    <2>2. /\ todoVariants' \in Seq(Variant) /\ todoVariants' # <<>> /\ runs' \in Nat
      BY <2>1, ChosenAssumption DEF FileInv
    <2>3. Cellwise(rows', Head(todoVariants'), runs')
      <3>1. <<>> \in Seq(Row) /\ Len(<<>>) = 0 /\ DOMAIN <<>> = {}
        BY EmptySeq
      <3>2. QED
        BY <2>1, <3>1, FixturesTyped DEF Cellwise
    <2>4. QED
      BY <2>1, <2>2, <2>3 DEF FileInv, Loaded, Cellwise
  <1>2. CASE RunCell
    <2>1. PICK o \in Outcome :
            rows' = Append(rows, [variant |-> Head(todoVariants), run |-> runs,
                                  fixture |-> Fixture[Len(rows) \div Seeds + 1],
                                  error |-> o.error, needle |-> Graded(o).needle,
                                  orig |-> Graded(o).orig, rewritten |-> Graded(o).rewritten])
      BY <1>2 DEF RunCell
    <2>2. /\ phaseOfHarness = "run" /\ phaseOfHarness' = "run" /\ Len(rows) < Cells
          /\ todoVariants' = todoVariants /\ runs' = runs /\ files' = files
      BY <1>2 DEF RunCell
    <2>3. Head(todoVariants) \in Variant /\ runs \in Nat /\ Cellwise(rows, Head(todoVariants), runs)
      BY <2>2, HeadTailProperties DEF FileInv
    <2>4. Cellwise(rows', Head(todoVariants'), runs')
      <3>1. Cellwise(rows', Head(todoVariants), runs)
        BY <2>1, <2>2, <2>3, CellMeasured
      <3>2. QED
        BY <3>1, <2>2
    <2>5. QED
      BY <2>2, <2>4 DEF FileInv, Loaded, Cellwise
  <1>3. CASE OpenFile
    <2>1. /\ phaseOfHarness = "run" /\ phaseOfHarness' = "write" /\ Len(rows) = Cells
          /\ todoVariants' = todoVariants /\ runs' = runs /\ rows' = rows
          /\ files' = [files EXCEPT ![Head(todoVariants)] = Torn]
      BY <1>3 DEF OpenFile
    <2>2. /\ DOMAIN files' = Variant
          /\ \A v \in Variant : files'[v] = files[v] \/ files'[v].kind = "torn"
      BY <2>1 DEF FileInv, Torn
    <2>3. \A v \in Variant : Loaded(v)' =>
            Len(files'[v].rows) = Cells /\ \E k \in Nat : Cellwise(files'[v].rows, v, k)
      BY <2>2 DEF FileInv, Loaded
    <2>4. Cellwise(rows', Head(todoVariants'), runs') /\ todoVariants' \in Seq(Variant)
          /\ todoVariants' # <<>> /\ runs' \in Nat /\ Len(rows') = Cells
      BY <2>1 DEF FileInv
    <2>5. QED
      BY <2>1, <2>2, <2>3, <2>4 DEF FileInv, Cellwise
  <1>4. CASE WriteFile
    <2>1. /\ phaseOfHarness = "write" /\ phaseOfHarness' \in {"idle", "run"}
          /\ todoVariants' = Tail(todoVariants) /\ runs' = runs /\ rows' = <<>>
          /\ phaseOfHarness' = "run" => todoVariants' # <<>>
          /\ files' = [files EXCEPT ![Head(todoVariants)] = [kind |-> "rows", rows |-> rows]]
      BY <1>4 DEF WriteFile
    <2>2. /\ Head(todoVariants) \in Variant /\ Tail(todoVariants) \in Seq(Variant) /\ runs \in Nat
          /\ Cellwise(rows, Head(todoVariants), runs) /\ Len(rows) = Cells
      BY <2>1, HeadTailProperties DEF FileInv
    <2>3. Cellwise(rows', Head(todoVariants'), runs')
      <3>1. <<>> \in Seq(Row) /\ Len(<<>>) = 0 /\ DOMAIN <<>> = {}
        BY EmptySeq
      <3>2. QED
        BY <2>1, <3>1, FixturesTyped DEF Cellwise
    <2>4. /\ DOMAIN files' = Variant
          /\ \A v \in Variant : files'[v] = IF v = Head(todoVariants) THEN [kind |-> "rows", rows |-> rows]
                                            ELSE files[v]
      BY <2>1 DEF FileInv
    <2>5. ASSUME NEW v \in Variant, Loaded(v)'
          PROVE  Len(files'[v].rows) = Cells /\ \E k \in Nat : Cellwise(files'[v].rows, v, k)
      <3>1. CASE v = Head(todoVariants)
        BY <3>1, <2>2, <2>4
      <3>2. CASE v # Head(todoVariants)
        BY <3>2, <2>4, <2>5 DEF FileInv, Loaded
      <3>3. QED
        BY <3>1, <3>2
    <2>6. /\ runs' \in Nat /\ DOMAIN files' = Variant
          /\ phaseOfHarness' = "run" => todoVariants' \in Seq(Variant) /\ todoVariants' # <<>>
          /\ phaseOfHarness' # "write"
      BY <2>1, <2>2, <2>4
    <2>7. (\A v \in Variant : Loaded(v) =>
             Len(files[v].rows) = Cells /\ \E k \in Nat : Cellwise(files[v].rows, v, k))'
      BY <2>5 DEF Cellwise
    <2>8. Cellwise(rows, Head(todoVariants), runs)'
      BY <2>3 DEF Cellwise
    <2>9. (phaseOfHarness \in {"run", "write"} =>
             /\ todoVariants \in Seq(Variant) /\ todoVariants # <<>>
             /\ Cellwise(rows, Head(todoVariants), runs))'
      BY <2>6, <2>8
    <2>10. QED
      BY <2>6, <2>7, <2>9 DEF FileInv
  <1>5. CASE Killed \/ Aggregate \/ AggregateFails
    <2>1. /\ phaseOfHarness' \in {"killed", "table", "no table"} /\ runs' = runs /\ files' = files
      BY <1>5 DEF Killed, Aggregate, AggregateFails
    <2>2. (\A v \in Variant : Loaded(v) =>
             Len(files[v].rows) = Cells /\ \E k \in Nat : Cellwise(files[v].rows, v, k))'
      BY <2>1 DEF FileInv, Loaded
    <2>3. QED
      BY <2>1, <2>2 DEF FileInv
  <1>6. CASE UNCHANGED harness
    BY <1>6 DEF harness, FileInv, Loaded, Cellwise
  <1>7. QED
    BY <1>1, <1>2, <1>3, <1>4, <1>5, <1>6 DEF HarnessNext

\* Of any matrix, and any runs of it, killed anywhere and started again, a file holds
\* all cells of its variant, each once, of one run, or nothing (runner.py 265-283).
THEOREM FilesAlwaysWhole == HarnessSpec => []FilesWhole
  <1>1. HarnessInit => FileInv
    BY DEF HarnessInit, HarnessIn, FileInv, Loaded, Absent
  <1>2. FileInv => FilesWhole
    <2> SUFFICES ASSUME FileInv, NEW v \in Variant, Loaded(v)
                 PROVE  /\ Len(files[v].rows) = Cells
                        /\ \A f \in ToSet(Fixture) :
                             Cardinality({i \in DOMAIN files[v].rows : files[v].rows[i].fixture = f})
                               = Seeds * Cardinality({k \in DOMAIN Fixture : Fixture[k] = f})
                        /\ \A r, s \in ToSet(files[v].rows) : r.variant = v /\ r.run = s.run
      BY DEF FilesWhole
    <2>1. PICK k \in Nat : Len(files[v].rows) = Cells /\ Cellwise(files[v].rows, v, k)
      BY DEF FileInv
    <2>2. DOMAIN files[v].rows = 1 .. Cells
      BY <2>1, LenProperties DEF Cellwise
    <2>3. ASSUME NEW f
          PROVE  Cardinality({i \in DOMAIN files[v].rows : files[v].rows[i].fixture = f})
                   = Seeds * Cardinality({j \in DOMAIN Fixture : Fixture[j] = f})
      <3>1. {i \in DOMAIN files[v].rows : files[v].rows[i].fixture = f} = {i \in 1 .. Cells : FixtureOf(i) = f}
        BY <2>1, <2>2 DEF Cellwise
      <3>2. QED
        BY <3>1, CellsOfFixture
    <2>4. \A r, s \in ToSet(files[v].rows) : r.variant = v /\ r.run = s.run
      BY <2>1 DEF Cellwise, ToSet
    <2>5. QED
      BY <2>1, <2>3, <2>4
  <1>3. QED
    BY <1>1, <1>2, FileStep, PTL DEF HarnessSpec

LEMMA OutcomeGraded ==
  ASSUME NEW o \in Outcome, Graded(o).needle = 1
  PROVE  o.error # "shim"
<1>1. o \in [error : {"none", "shim", "reported"}, needle : {0, 1}, orig : Nat, rewritten : Nat]
  BY OutcomeAssumption
<1>2. o.error = "shim" => Graded(o).needle = 0
  BY <1>1 DEF Graded
<1> QED  BY <1>2

\* A row that found its needle is of a shim that ran.
LEMMA FoundRan ==
  ASSUME NEW r \in Row, r.needle = 1
  PROVE  r.error # "shim"
<1>1. PICK o \in Outcome : r.error = o.error /\ r.needle = Graded(o).needle
  BY DEF Row, RowOf
<1> QED  BY <1>1, OutcomeGraded

LEMMA EnoughFound ==
  ASSUME NEW c \in Nat, NEW k \in Nat \ {0}, (100 * c) \div k >= 90
  PROVE  100 * c >= 90 * k
  OBVIOUS

LEMMA ShareInt ==
  ASSUME NEW c \in Nat, NEW k \in Nat \ {0}
  PROVE  (100 * c) \div k \in Int
  OBVIOUS

LEMMA NotBelow == \A x \in Int : ~ (x < 90) => x >= 90
  OBVIOUS

LEMMA CellsFinite == IsFiniteSet(1 .. Cells)
<1>1. Cells \in Nat
  BY FixturesTyped
<1>2. 1 \in Int /\ Cells \in Int
  BY <1>1
<1> QED  BY <1>2, FS_Interval

LEMMA TableTrue == FileInv /\ Aggregate => FailuresCost'
<1> SUFFICES ASSUME FileInv, Aggregate,
                    NEW v \in DOMAIN verdicts', NEW f \in DOMAIN verdicts'[v],
                    verdicts'[v][f] # "needs work"
             PROVE  100 * Cardinality({i \in Recalled(v, f)' : files'[v].rows[i].error # "shim"})
                      >= 90 * Cardinality(Of(v, f)')
  BY DEF FailuresCost
<1> DEFINE I == Of(v, f)
           N == Recalled(v, f)
<1>1. files' = files /\ Of(v, f)' = I /\ Recalled(v, f)' = N
  BY DEF Aggregate, Of, Recalled
<1>2. /\ v \in Variant /\ Loaded(v) /\ f \in Fixtures(v)
      /\ \E red, base : verdicts'[v][f] = Verdict(v, Recall(v, f), red, base)
  BY DEF Aggregate
<1>4. Len(files[v].rows) = Cells /\ files[v].rows \in Seq(Row)
  BY <1>2 DEF FileInv, Cellwise
<1>5. IsFiniteSet(I) /\ N \subseteq I /\ I # {}
  <2>1. DOMAIN files[v].rows = 1 .. Cells
    BY <1>4, LenProperties
  <2>2. IsFiniteSet(1 .. Cells)
    BY CellsFinite
  <2>3. I \in SUBSET (1 .. Cells)
    BY <2>1 DEF Of
  <2>4. I # {}
    BY <1>2, <1>4 DEF Fixtures, ToSet, Of
  <2> QED  BY <2>2, <2>3, <2>4, FS_Subset DEF Recalled
<1>6. Cardinality(I) \in Nat \ {0} /\ Cardinality(N) \in Nat
  BY <1>5, FS_Subset, FS_CardinalityType, FS_EmptySet
<1>3. Recall(v, f) >= 90
  <2>1. ~ (Recall(v, f) < 90)
    BY <1>2 DEF Verdict
  <2>2. Recall(v, f) \in Int
    BY <1>6, ShareInt DEF Recall
  <2> QED  BY <2>1, <2>2, NotBelow, Zenon
<1>7. {i \in N : files[v].rows[i].error # "shim"} = N
  <2> SUFFICES ASSUME NEW i \in N PROVE files[v].rows[i].error # "shim"
    OBVIOUS
  <2>1. files[v].rows[i] \in Row /\ files[v].rows[i].needle = 1
    BY <1>4, ElementOfSeq, LenProperties DEF Recalled, Of
  <2> QED  BY <2>1, FoundRan
<1>8. 100 * Cardinality(N) >= 90 * Cardinality(I)
  BY <1>3, <1>6, EnoughFound DEF Recall
<1> QED  BY <1>1, <1>7, <1>8

\* Whatever shims failed, and whatever the matrix, a variant that the table does not
\* call "needs work" found the needle in 90 of 100 cells with a shim that ran.
THEOREM FailuresAlwaysCost == HarnessSpec => []FailuresCost
<1>1. HarnessInit => FileInv /\ FailuresCost
  BY DEF HarnessInit, HarnessIn, FileInv, FailuresCost, Loaded, Absent
<1>2. FileInv /\ FailuresCost /\ [HarnessNext]_harness => FailuresCost'
  <2> SUFFICES ASSUME FileInv, FailuresCost, [HarnessNext]_harness PROVE FailuresCost'
    OBVIOUS
  <2>1. CASE Aggregate
    BY <2>1, TableTrue
  <2>2. CASE StartRun \/ RunCell \/ OpenFile \/ WriteFile \/ Killed \/ AggregateFails
    <3>1. phaseOfHarness' # "table"
      BY <2>2 DEF StartRun, RunCell, OpenFile, WriteFile, Killed, AggregateFails
    <3> QED  BY <3>1 DEF FailuresCost
  <2>3. CASE UNCHANGED harness
    <3>1. phaseOfHarness' = phaseOfHarness /\ verdicts' = verdicts /\ files' = files
      BY <2>3 DEF harness
    <3>2. \A v, f : Of(v, f)' = Of(v, f) /\ Recalled(v, f)' = Recalled(v, f)
      BY <3>1 DEF Of, Recalled
    <3> QED  BY <3>1, <3>2 DEF FailuresCost
  <2> QED  BY <2>1, <2>2, <2>3 DEF HarnessNext
<1> QED  BY <1>1, <1>2, FileStep, PTL DEF HarnessSpec

(***************************************************************************)
(* The lock of the benchmark runners, any number of them.                 *)
(*                                                                         *)
(* ActiveOwnsItsLock is not inductive: that a locked inode belongs to a    *)
(* runner that has it open, and to one only, is needed for the steps from  *)
(* "opened" to "active" and for a new file that takes a free inode.        *)
(***************************************************************************)

\* A flock is held through the descriptor of a runner that got it.
OwnersHold ==
  \A i \in Inode : owner[i] # None => fd[owner[i]] = i /\ pc[owner[i]] \in {"locked", "active"}
HoldersOwn ==
  \A r \in Runner : pc[r] \in {"locked", "active"} => owner[fd[r]] = r
PidWritten ==
  \A r \in Runner : pc[r] = "active" => pid[fd[r]] = r

LockInv == TypeOK /\ OwnersHold /\ HoldersOwn /\ PidWritten

\* Giving a lock up keeps everything the other runners hold.
LEMMA ReleaseKeeps ==
  ASSUME LockInv, NEW r \in Runner, Release(r), UNCHANGED <<path, pid>>,
         NEW to \in {"off", "closed"}, pc' = [pc EXCEPT ![r] = to]
  PROVE  LockInv'
  <1>1. fd' = [fd EXCEPT ![r] = None] /\ path' = path /\ pid' = pid
    BY DEF Release
  <1>2. \A i \in Inode : owner'[i] = IF owner[i] = r THEN None ELSE owner[i]
    BY DEF Release
  <1>3. TypeOK'
    BY <1>1, <1>2 DEF LockInv, TypeOK, PC, Release
  <1>4. OwnersHold'
    BY <1>1, <1>2, NoneAssumption DEF LockInv, OwnersHold, TypeOK
  <1>5. HoldersOwn' /\ PidWritten'
    <2> SUFFICES ASSUME NEW q \in Runner, pc'[q] \in {"locked", "active"}
                 PROVE  owner'[fd'[q]] = q /\ (pc'[q] = "active" => pid'[fd'[q]] = q)
      BY DEF HoldersOwn, PidWritten
    <2>1. q # r /\ pc'[q] = pc[q] /\ fd'[q] = fd[q]
      BY <1>1 DEF LockInv, TypeOK
    <2>2. fd[q] \in Inode /\ owner[fd[q]] = q
      BY <2>1 DEF LockInv, TypeOK, HoldersOwn
    <2>3. QED
      BY <1>1, <1>2, <2>1, <2>2 DEF LockInv, PidWritten
  <1>6. QED
    BY <1>3, <1>4, <1>5 DEF LockInv

\* Every step keeps the invariant.
LEMMA LockStep == LockInv /\ [Next]_vars => LockInv'
  <1> SUFFICES ASSUME LockInv, [Next]_vars PROVE LockInv'
    OBVIOUS
  <1>1. ASSUME NEW r \in Runner, Open(r) PROVE LockInv'
    <2>1. CASE path # None /\ fd' = [fd EXCEPT ![r] = path] /\ UNCHANGED <<path, pid>>
      BY <1>1, <2>1, NoneAssumption
      DEF Open, LockInv, TypeOK, PC, OwnersHold, HoldersOwn, PidWritten
    <2>2. ASSUME NEW i \in FreeInodes, path' = i, fd' = [fd EXCEPT ![r] = i],
                 pid' = [pid EXCEPT ![i] = None]
          PROVE  LockInv'
      <3>1. i \in Inode /\ \A q \in Runner : fd[q] # i
        BY <2>2 DEF FreeInodes
      <3>2. pc' = [pc EXCEPT ![r] = "opened"] /\ owner' = owner /\ pc[r] = "off"
        BY <1>1 DEF Open
      <3>3. TypeOK'
        BY <2>2, <3>1, <3>2, NoneAssumption DEF LockInv, TypeOK, PC
      <3>4. OwnersHold'
        BY <2>2, <3>1, <3>2, NoneAssumption DEF LockInv, TypeOK, OwnersHold
      <3>5. HoldersOwn'
        BY <2>2, <3>1, <3>2 DEF LockInv, TypeOK, HoldersOwn
      <3>6. PidWritten'
        BY <2>2, <3>1, <3>2, NoneAssumption DEF LockInv, TypeOK, PidWritten
      <3>7. QED
        BY <3>3, <3>4, <3>5, <3>6 DEF LockInv
    <2>3. QED
      BY <1>1, <2>1, <2>2 DEF Open
  <1>2. ASSUME NEW r \in Runner, Flock(r) PROVE LockInv'
    <2>1. fd[r] \in Inode /\ owner[fd[r]] = None /\ pc[r] = "opened"
      BY <1>2 DEF Flock, MayLock, LockInv, TypeOK
    <2>2. /\ owner' = [owner EXCEPT ![fd[r]] = r] /\ pc' = [pc EXCEPT ![r] = "locked"]
          /\ UNCHANGED <<fd, path, pid>>
      BY <1>2 DEF Flock
    <2>3. TypeOK'
      BY <2>1, <2>2 DEF LockInv, TypeOK, PC
    <2>4. OwnersHold'
      BY <2>1, <2>2, NoneAssumption DEF LockInv, TypeOK, OwnersHold
    <2>5. HoldersOwn'
      BY <2>1, <2>2, NoneAssumption DEF LockInv, TypeOK, HoldersOwn
    <2>6. PidWritten'
      BY <2>1, <2>2 DEF LockInv, TypeOK, PidWritten
    <2>7. QED
      BY <2>3, <2>4, <2>5, <2>6 DEF LockInv
  <1>3. ASSUME NEW r \in Runner, Refused(r) PROVE LockInv'
    BY <1>3, NoneAssumption
    DEF Refused, LockInv, TypeOK, PC, OwnersHold, HoldersOwn, PidWritten
  <1>4. ASSUME NEW r \in Runner, WritePid(r) PROVE LockInv'
    <2>1. fd[r] \in Inode /\ owner[fd[r]] = r /\ pc[r] = "locked"
      BY <1>4 DEF WritePid, LockInv, TypeOK, HoldersOwn
    <2>2. /\ pid' = [pid EXCEPT ![fd[r]] = r] /\ pc' = [pc EXCEPT ![r] = "active"]
          /\ UNCHANGED <<fd, path, owner>>
      BY <1>4 DEF WritePid
    <2>3. TypeOK'
      BY <2>1, <2>2 DEF LockInv, TypeOK, PC
    <2>4. OwnersHold' /\ HoldersOwn'
      BY <2>1, <2>2, NoneAssumption DEF LockInv, TypeOK, OwnersHold, HoldersOwn
    <2>5. PidWritten'
      <3> SUFFICES ASSUME NEW q \in Runner, pc'[q] = "active" PROVE pid'[fd'[q]] = q
        BY DEF PidWritten
      <3>1. CASE q = r
        BY <2>1, <2>2, <3>1 DEF LockInv, TypeOK
      <3>2. CASE q # r
        <4>1. pc[q] = "active" /\ fd'[q] = fd[q]
          BY <2>2, <3>2 DEF LockInv, TypeOK
        <4>2. owner[fd[q]] = q /\ pid[fd[q]] = q
          BY <4>1 DEF LockInv, HoldersOwn, PidWritten
        <4>3. fd[q] # fd[r]
          BY <2>1, <3>2, <4>2
        <4>4. QED
          BY <2>2, <4>1, <4>2, <4>3 DEF LockInv, TypeOK
      <3>3. QED
        BY <3>1, <3>2
    <2>6. QED
      BY <2>3, <2>4, <2>5 DEF LockInv
  <1>5. ASSUME NEW r \in Runner, Close(r) PROVE LockInv'
    BY <1>5, ReleaseKeeps DEF Close
  <1>6. ASSUME NEW r \in Runner, Unlink(r) PROVE LockInv'
    BY <1>6, NoneAssumption
    DEF Unlink, LockInv, TypeOK, PC, OwnersHold, HoldersOwn, PidWritten
  <1>7. ASSUME NEW r \in Runner, Leave(r) PROVE LockInv'
    BY <1>7, ReleaseKeeps DEF Leave
  <1>8. ASSUME NEW r \in Runner, Kill(r) PROVE LockInv'
    BY <1>8, ReleaseKeeps DEF Kill
  <1>9. CASE UNCHANGED vars
    BY <1>9 DEF vars, LockInv, TypeOK, OwnersHold, HoldersOwn, PidWritten
  <1>10. QED
    BY <1>1, <1>2, <1>3, <1>4, <1>5, <1>6, <1>7, <1>8, <1>9 DEF Next

\* No runner has anything open at first.
LEMMA LockInit == Init => LockInv
  BY NoneAssumption DEF Init, LockInv, TypeOK, PC, OwnersHold, HoldersOwn, PidWritten

\* The state of the lock is well typed whatever runners are started, refused
\* and killed (bench_runner.py acquire_lock, _release).
THEOREM LockTypeCorrect == Spec => []TypeOK
  <1>1. LockInv => TypeOK
    BY DEF LockInv
  <1>2. QED
    BY LockInit, LockStep, <1>1, PTL DEF Spec

\* A measuring runner holds the lock of the inode it has open, and its pid is
\* the one written there, for any number of runners, refusals and kills
\* (bench_runner.py acquire_lock).
THEOREM ActiveHoldsLock == Spec => []ActiveOwnsItsLock
  <1>1. LockInv => ActiveOwnsItsLock
    BY NoneAssumption DEF LockInv, TypeOK, HoldersOwn, PidWritten, ActiveOwnsItsLock
  <1>2. QED
    BY LockInit, LockStep, <1>1, PTL DEF Spec

\* When no runner is past the flock the next one gets it: no crash leaves the lock
\* held, whatever pid is still in the file (bench_runner.py acquire_lock).
THEOREM LockNeverWedged == Spec => []NeverWedged
  <1>1. LockInv => NeverWedged
    <2> SUFFICES ASSUME LockInv, \A q \in Runner : pc[q] \in {"off", "opened"},
                        NEW r \in Runner, pc[r] = "opened"
                 PROVE  owner[fd[r]] = None
      BY DEF NeverWedged, MayLock
    <2>1. fd[r] \in Inode /\ owner[fd[r]] \in Runner \cup {None}
      BY DEF LockInv, TypeOK
    <2>2. QED
      BY <2>1 DEF LockInv, OwnersHold
  <1>2. QED
    BY LockInit, LockStep, <1>1, PTL DEF Spec
=============================================================================
