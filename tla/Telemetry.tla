------------------------------ MODULE Telemetry ------------------------------
(***************************************************************************)
(* The watermark study: request records from the proxy's log, or from      *)
(* scripts/synthesize-telemetry.py, and scripts/analyze-watermarks.py, that*)
(* groups them into sessions, scans every session against the candidate    *)
(* watermarks and suggests one.                                            *)
(*                                                                         *)
(* Times are in units of minutes, sizes and watermarks in percent of n_ctx;*)
(* a negative number stands for a field that is absent or malformed.       *)
(***************************************************************************)
EXTENDS Integers, Sequences, FiniteSets

CONSTANTS
  Watermark,     \* the candidates
  Fill,          \* FILL_THRESHOLD
  Default,       \* the watermark kept when nothing is learnt
  Gap,           \* --session-gap-min
  Logged,        \* the records the proxy may log
  MaxLogged,     \* bound on them
  Size,          \* synthesized sizes of a request
  Pause,         \* synthesized pauses between two requests of a session
  Break,         \* ... and between two sessions
  DayLength, Days, PerDay,   \* a day, --days, --sessions-per-day
  MaxMessages    \* bound on the requests of a synthesized session

ASSUME WatermarkAssumption ==
  /\ IsFiniteSet(Watermark) /\ Watermark # {} /\ Watermark \subseteq 0 .. 100
  /\ Fill \in 0 .. 100 /\ \A w \in Watermark : w <= Fill
  /\ Default \in 0 .. 100
ASSUME GapAssumption ==
  /\ Gap \in Nat
  /\ \A p \in Pause : p \in 1 .. Gap
  /\ \A b \in Break : b \in Nat /\ b > Gap
\* A record has four fields with a count; a synthesized one has a size.
ASSUME RecordAssumption ==
  /\ Logged \subseteq {r \in [time : Int, counts : Seq(Int)] : Len(r.counts) <= 4}
  /\ Size \subseteq Nat /\ DayLength \in Nat

VARIABLES
  stage,
  source,     \* who writes the log
  log,        \* the records, in the order of the files
  clock, day, made, written,   \* synthesize: cur or t, d, sessions done, requests of this one
  whose,      \* auxiliary: the day and the session a synthesized record was written for
  unread, cur, last, sessions,   \* group_sessions
  n, pos, best, peak, first,     \* analyze: the session, the request, its peak and triggers so far
  filled, table,                 \* sessions_filled, and what the rows are made of
  suggestion

writing   == <<source, log, clock, day, made, written, whose>>
grouping  == <<unread, cur, last, sessions>>
scan      == <<n, pos, best, peak, first>>
report    == <<filled, table>>
telemetry == <<stage, writing, grouping, scan, report, suggestion>>

Unset == -1
NoRow == [triggered |-> 0, leads |-> 0, false |-> 0]

-----------------------------------------------------------------------------
(* The records                                                              *)

\* pick_tokens: prompt_tokens, rewritten_tokens, rewrite.orig_tokens,
\* rewrite.rewritten_tokens, whichever is there first.
PickTokens(r) ==
  IF \E i \in DOMAIN r.counts : r.counts[i] >= 0
  THEN r.counts[CHOOSE i \in DOMAIN r.counts :
                  r.counts[i] >= 0 /\ \A k \in 1 .. i - 1 : r.counts[k] < 0]
  ELSE Unset
Usable   == {i \in DOMAIN log : log[i].time >= 0 /\ PickTokens(log[i]) >= 0}
Ratio(i) == IF PickTokens(log[i]) > 100 THEN 100 ELSE PickTokens(log[i])

\* The proxy logs a request; the files are read in the order of their names.
LogRequest ==
  /\ stage = "log" /\ source = "proxy"
  /\ Len(log) < MaxLogged
  /\ \E r \in Logged : log' = Append(log, r)
  /\ UNCHANGED <<stage, source, clock, day, made, written, whose, grouping, scan, report, suggestion>>

SynthesizeRequest ==
  /\ stage = "log" /\ source = "synthesize"
  /\ made < PerDay * (day + 1) /\ written < MaxMessages
  /\ \E s \in Size, p \in Pause :
       /\ log' = Append(log, [time |-> clock, counts |-> <<s>>])
       /\ clock' = clock + p
  /\ whose' = Append(whose, [day |-> day, session |-> made + 1])
  /\ written' = written + 1
  /\ UNCHANGED <<stage, source, day, made, grouping, scan, report, suggestion>>
\* Mutant: the next session starts without a break.
NextSessionAtOnce ==
  /\ stage = "log" /\ source = "synthesize"
  /\ written > 0
  /\ made' = made + 1 /\ written' = 0
  /\ UNCHANGED <<stage, source, log, clock, day, whose, grouping, scan, report, suggestion>>
\* A session ends and a break of more than the analyzer's gap follows.
NextSession ==
  /\ stage = "log" /\ source = "synthesize"
  /\ written > 0
  /\ made' = made + 1 /\ written' = 0
  /\ \E b \in Break : clock' = clock + b
  /\ UNCHANGED <<stage, source, log, day, whose, grouping, scan, report, suggestion>>
\* The next day starts at its own hour, wherever the last one ended.
NextDay ==
  /\ stage = "log" /\ source = "synthesize"
  /\ written = 0 /\ made = PerDay * (day + 1) /\ day + 1 < Days
  /\ day' = day + 1
  /\ clock' = DayLength * day'
  /\ UNCHANGED <<stage, source, log, made, written, whose, grouping, scan, report, suggestion>>

\* main: all records are read; no file or no usable record ends the program.
StartAnalysis ==
  /\ stage = "log"
  /\ source = "synthesize" => written = 0
  /\ stage' = IF Usable = {} THEN "nothing" ELSE "group"
  /\ unread' = Usable
  /\ UNCHANGED <<writing, cur, last, sessions, scan, report, suggestion>>

-----------------------------------------------------------------------------
(* group_sessions                                                           *)

Earlier(i, k) == log[i].time < log[k].time \/ (log[i].time = log[k].time /\ i <= k)

\* The next record in the order of time (a stable sort) continues the session
\* or, after more than Gap, begins one.
TakeRecord ==
  /\ stage = "group"
  /\ \E i \in unread :
       /\ \A k \in unread : Earlier(i, k)
       /\ IF last # Unset /\ log[i].time - last > Gap
          THEN sessions' = Append(sessions, cur) /\ cur' = <<i>>
          ELSE UNCHANGED sessions /\ cur' = Append(cur, i)
       /\ last' = log[i].time
       /\ unread' = unread \ {i}
  /\ UNCHANGED <<stage, writing, scan, report, suggestion>>
\* Mutant: the session at hand is forgotten.
LastSessionLost ==
  /\ stage = "group" /\ unread = {}
  /\ sessions' = (IF sessions = <<>> THEN <<cur>> ELSE sessions) /\ cur' = <<>>
  /\ stage' = "analyze"
  /\ UNCHANGED <<writing, unread, last, scan, report, suggestion>>
LastSession ==
  /\ stage = "group" /\ unread = {}
  /\ sessions' = Append(sessions, cur) /\ cur' = <<>>
  /\ stage' = "analyze"
  /\ UNCHANGED <<writing, unread, last, scan, report, suggestion>>

-----------------------------------------------------------------------------
(* analyze and suggest                                                      *)

Triggered(r) == [w \in Watermark |-> IF first[w] = 0 /\ r >= w THEN pos ELSE first[w]]

\* One request of the session: the first one at the highest ratio is its peak,
\* the first one at or above a watermark triggers it.
ScanRequest ==
  /\ stage = "analyze" /\ n <= Len(sessions) /\ pos <= Len(sessions[n])
  /\ LET r == Ratio(sessions[n][pos]) IN
     /\ best' = IF r > best THEN r ELSE best
     /\ peak' = IF r > best THEN pos ELSE peak
     /\ first' = Triggered(r)
  /\ pos' = pos + 1
  /\ UNCHANGED <<stage, writing, grouping, n, report, suggestion>>

\* Mutant: a session that did not trigger is a false positive too.
AddedAlways(row, w) ==
  IF first[w] = 0 THEN [row EXCEPT !.false = row.false + 1]
  ELSE [triggered |-> row.triggered + 1,
        leads |-> row.leads + (peak - first[w]),
        false |-> row.false + (IF best < Fill THEN 1 ELSE 0)]
Added(row, w) ==
  IF first[w] = 0 THEN row
  ELSE [triggered |-> row.triggered + 1,
        leads |-> row.leads + (peak - first[w]),
        false |-> row.false + (IF best < Fill THEN 1 ELSE 0)]
\* The session's part of every row.
CloseSession ==
  /\ stage = "analyze" /\ n <= Len(sessions) /\ pos > Len(sessions[n])
  /\ filled' = filled + (IF best >= Fill THEN 1 ELSE 0)
  /\ table' = [w \in Watermark |-> Added(table[w], w)]
  /\ n' = n + 1 /\ pos' = 1 /\ best' = Unset /\ peak' = 0
  /\ first' = [w \in Watermark |-> 0]
  /\ UNCHANGED <<stage, writing, grouping, suggestion>>

\* Mutant: the tie goes to the smaller lead.
PreferredShort(v, w) ==
  LET a == table[v] b == table[w] IN
  \/ a.false * b.triggered < b.false * a.triggered
  \/ a.false * b.triggered = b.false * a.triggered /\ a.leads * b.triggered < b.leads * a.triggered
\* Lower false-positive rate first, then the longer average lead.
Preferred(v, w) ==
  LET a == table[v] b == table[w] IN
  \/ a.false * b.triggered < b.false * a.triggered
  \/ a.false * b.triggered = b.false * a.triggered /\ a.leads * b.triggered > b.leads * a.triggered
Candidates == {w \in Watermark : table[w].triggered > 0}
Suggest ==
  /\ stage = "analyze" /\ n > Len(sessions)
  /\ IF filled = 0 \/ Candidates = {}
     THEN suggestion' = Default
     ELSE \E w \in Candidates :
            /\ \A v \in Candidates : ~ Preferred(v, w) /\ (v < w => Preferred(w, v))
            /\ suggestion' = w
  /\ stage' = "done"
  /\ UNCHANGED <<writing, grouping, scan, report>>

-----------------------------------------------------------------------------
TelemetryIn(s) ==
  /\ stage = s /\ log = <<>>
  /\ source \in IF s = "off" THEN {"proxy"} ELSE {"proxy", "synthesize"}
  /\ clock = 0 /\ day = 0 /\ made = 0 /\ written = 0 /\ whose = <<>>
  /\ unread = {} /\ cur = <<>> /\ last = Unset /\ sessions = <<>>
  /\ n = 1 /\ pos = 1 /\ best = Unset /\ peak = 0 /\ first = [w \in Watermark |-> 0]
  /\ filled = 0 /\ table = [w \in Watermark |-> NoRow]
  /\ suggestion = Unset
TelemetryInit == TelemetryIn("log")

TelemetryNext ==
  \/ LogRequest \/ SynthesizeRequest \/ NextSession \/ NextDay \/ StartAnalysis
  \/ TakeRecord \/ LastSession
  \/ ScanRequest \/ CloseSession \/ Suggest

TelemetrySpec == TelemetryInit /\ [][TelemetryNext]_telemetry

-----------------------------------------------------------------------------
(* Properties                                                               *)

\* Every usable record is in exactly one session, the sessions are in the order
\* of time, and a session ends exactly where more than Gap passed in silence,
\* whatever the order of the files (analyze-watermarks.py 84-112).
SessionsBySilence ==
  stage \in {"analyze", "done"} =>
    LET Places == UNION {{s} \X DOMAIN sessions[s] : s \in DOMAIN sessions}
        At(a)  == sessions[a[1]][a[2]]
        Next(a, b) == a[1] = b[1] /\ b[2] = a[2] + 1
        Over(a, b) == b[1] = a[1] + 1 /\ a[2] = Len(sessions[a[1]]) /\ b[2] = 1
    IN /\ {At(a) : a \in Places} = Usable /\ Cardinality(Places) = Cardinality(Usable)
       /\ \A s \in DOMAIN sessions : sessions[s] # <<>>
       /\ \A a, b \in Places :
            LET silence == log[At(b)].time - log[At(a)].time IN
            /\ Next(a, b) => silence \in 0 .. Gap
            /\ Over(a, b) => silence > Gap

\* The rows agree with one another: a filled session triggers every watermark,
\* so the false positives are the triggered sessions that did not fill; a lower
\* watermark triggers no fewer sessions; no lead is negative.
RowsAgree ==
  \A w \in Watermark :
    /\ table[w].false = table[w].triggered - filled
    /\ table[w].leads >= 0 /\ table[w].triggered >= filled
    /\ \A v \in Watermark : v < w => table[v].triggered >= table[w].triggered

\* "among watermarks that triggered on >=50% of sessions that actually filled,
\* choose the lowest false-positive rate; tiebreak on largest avg lead"
\* (analyze-watermarks.py 181-183): the suggestion triggers in all of them, and a
\* watermark that is as quiet gives no longer lead.
SuggestionBest ==
  stage = "done" /\ filled > 0 =>
    /\ suggestion \in Watermark
    /\ table[suggestion].triggered >= filled
    /\ \A w \in Watermark :
         /\ table[w].triggered >= table[suggestion].triggered
         /\ table[w].triggered = table[suggestion].triggered =>
              table[w].leads <= table[suggestion].leads

\* Two records of the log that the analyzer puts in one session.
Together(i, k) ==
  \E s \in DOMAIN sessions : \E a, b \in DOMAIN sessions[s] : sessions[s][a] = i /\ sessions[s][b] = k

\* The sessions that were synthesized are found again as far as their days allow:
\* one session is never split, and two sessions of a day are run together only where
\* requests of another day fall into the break between them, as the days do when
\* their sessions last beyond 24 hours (synthesize-telemetry.py 144-160).
SyntheticSplit ==
  stage \in {"analyze", "done"} /\ source = "synthesize" =>
    \A i \in 1 .. Len(log) - 1 :
      /\ whose[i] = whose[i + 1] => Together(i, i + 1)
      /\ Together(i, i + 1) /\ whose[i].day = whose[i + 1].day /\ whose[i] # whose[i + 1] =>
           \E k \in DOMAIN log : /\ whose[k].day # whose[i].day
                                 /\ log[k].time \in log[i].time .. log[i + 1].time

\* "Ensure gap exceeds the analyzer session-gap so sessions split"
\* (synthesize-telemetry.py 158): the analyzer finds as many sessions as were
\* synthesized.  It does not where a day's sessions last into the next day.
SessionsSplit ==
  stage \in {"analyze", "done"} /\ source = "synthesize" => Len(sessions) = made
=============================================================================
