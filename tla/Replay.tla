------------------------------- MODULE Replay -------------------------------
(***************************************************************************)
(* The needle session and its replay: proxy/eval/needle.py builds a talk   *)
(* with planted facts and writes one request body per user turn;           *)
(* proxy/eval/replay.py sends every line to the proxy and reports what the *)
(* rewrite saved, from the headers of the answer.                          *)
(*                                                                         *)
(* A body is named by the number of messages it holds.  The weight of a    *)
(* message stands for its length, halved by a stub; the tokenizer of the   *)
(* proxy counts Exact times what replay.py estimates.                      *)
(***************************************************************************)
EXTENDS Integers, Sequences, FiniteSets, SequencesExt

CONSTANTS
  Turns,      \* the turn of the recall question
  MaxLine,    \* --max
  Exact       \* tokens per estimated token

ASSUME TurnsAssumption == Turns \in Nat /\ Turns >= 2 /\ MaxLine \in Nat /\ Exact \in Nat \ {0}

VARIABLES
  phaseOfReplay,
  messages, turn,   \* _build_messages
  session,          \* the lines of the session file
  at,               \* the line replayed next
  reports,          \* the RequestReports; answer, saved: auxiliary, what the proxy did
  exit              \* the exit code

replay == <<phaseOfReplay, messages, turn, session, at, reports, exit>>

Say(role, call) == [role |-> role, turn |-> turn, call |-> call]
Body(k) == [kind |-> "body", size |-> k]
Other(kind) == [kind |-> kind, size |-> 0]

-----------------------------------------------------------------------------
(* needle.py generate                                                       *)

Plant ==
  /\ phaseOfReplay = "build" /\ messages = <<>>
  /\ messages' = <<Say("system", 0), Say("user", 0), Say("assistant", 0)>>
  /\ turn' = 2
  /\ UNCHANGED <<phaseOfReplay, session, at, reports, exit>>
\* _busywork_pair: a question, and an answer with or without a tool call.
Busywork ==
  /\ phaseOfReplay = "build" /\ turn \in 2 .. Turns - 1
  /\ messages' \in
       {messages \o <<Say("user", 0), Say("assistant", turn), Say("tool", turn)>>,
        messages \o <<Say("user", 0), Say("assistant", 0)>>}
  /\ turn' = turn + 1
  /\ UNCHANGED <<phaseOfReplay, session, at, reports, exit>>
Ask ==
  /\ phaseOfReplay = "build" /\ turn = Turns
  /\ messages' = Append(messages, Say("user", 0))
  /\ phaseOfReplay' = "emit"
  /\ UNCHANGED <<turn, session, at, reports, exit>>

\* Mutant: a body ends at every message.
EveryMessage == DOMAIN messages
UserTurns == {i \in DOMAIN messages : messages[i].role = "user"}
Written   == {session[j].size : j \in DOMAIN session}
\* _emit_jsonl: one cumulative body per user turn, in their order.
Emit ==
  /\ phaseOfReplay = "emit"
  /\ \E i \in UserTurns \ Written :
       /\ \A k \in UserTurns \ Written : i <= k
       /\ session' = Append(session, Body(i))
  /\ UNCHANGED <<phaseOfReplay, messages, turn, at, reports, exit>>
\* A recorded session may have a blank or a broken line too.
EmitOther ==
  /\ phaseOfReplay = "emit"
  /\ \A j \in DOMAIN session : session[j].kind = "body"
  /\ \E kind \in {"blank", "broken"} : session' = Append(session, Other(kind))
  /\ UNCHANGED <<phaseOfReplay, messages, turn, at, reports, exit>>
StartReplay ==
  /\ phaseOfReplay = "emit" /\ UserTurns \subseteq Written
  /\ phaseOfReplay' = "replay"
  /\ UNCHANGED <<messages, turn, session, at, reports, exit>>

-----------------------------------------------------------------------------
(* replay.py                                                                *)

Calls(k) == {messages[i].call : i \in {i \in 1 .. k : messages[i].role = "tool"}}
\* _estimate_tokens of k messages of which the results of some calls are stubs.
Estimate(k, stubs) == k + Cardinality(Calls(k)) - Cardinality(stubs)

\* What the proxy may answer: nothing; the answer of the server or an error,
\* without a header, when it did not rewrite; or the rewritten messages and the
\* statistics, of which one may not get through (an unreadable sidecar).
Answers(k) ==
  {[kind |-> "transport", stubs |-> {}, stats |-> FALSE, inline |-> FALSE],
   [kind |-> "http", stubs |-> {}, stats |-> FALSE, inline |-> FALSE],
   [kind |-> "ok", stubs |-> {}, stats |-> FALSE, inline |-> FALSE]}
  \cup [kind : {"ok"}, stubs : SUBSET Calls(k), stats : {TRUE}, inline : BOOLEAN]
  \cup [kind : {"ok"}, stubs : SUBSET Calls(k), stats : {FALSE}, inline : {TRUE}]

\* Mutant: intersected with the stub markers, as the comment has it.
ElidedBoth(k, a) ==
  IF a.stats THEN a.stubs ELSE IF a.inline THEN {} \cap a.stubs ELSE Calls(k)
\* The proxy's list, or the calls whose results are not in the rewritten body,
\* together with its stubs.
Elided(k, a) ==
  LET resultsThere == IF a.inline THEN Calls(k) ELSE {}
      stubsThere   == IF a.inline THEN a.stubs ELSE {}
  IN IF a.stats THEN a.stubs ELSE (Calls(k) \ resultsThere) \cup stubsThere

Report(k, a) ==
  LET orig == IF a.stats THEN Exact * Estimate(k, {}) ELSE Estimate(k, {})
      rewritten == IF a.stats THEN Exact * Estimate(k, a.stubs)
                   ELSE IF a.inline THEN Estimate(k, a.stubs) ELSE 0
  IN IF a.kind = "transport"
     THEN [line |-> at, orig |-> Estimate(k, {}), rewritten |-> 0, elided |-> {}, delta |-> 0,
           failed |-> TRUE, answer |-> a]
     ELSE [line |-> at, orig |-> orig, rewritten |-> rewritten, elided |-> Elided(k, a),
           delta |-> orig - rewritten, failed |-> a.kind = "http", answer |-> a]

Broken == [line |-> at, orig |-> 0, rewritten |-> 0, elided |-> {}, delta |-> 0,
           failed |-> TRUE, answer |-> [kind |-> "none", stubs |-> {}, stats |-> FALSE, inline |-> FALSE]]

More == phaseOfReplay = "replay" /\ at <= Len(session) /\ at <= MaxLine
SkipBlank ==
  /\ More /\ session[at].kind = "blank"
  /\ at' = at + 1
  /\ UNCHANGED <<phaseOfReplay, messages, turn, session, reports, exit>>
RejectLine ==
  /\ More /\ session[at].kind = "broken"
  /\ reports' = Append(reports, Broken)
  /\ at' = at + 1
  /\ UNCHANGED <<phaseOfReplay, messages, turn, session, exit>>
Post ==
  /\ More /\ session[at].kind = "body"
  /\ \E a \in Answers(session[at].size) : reports' = Append(reports, Report(session[at].size, a))
  /\ at' = at + 1
  /\ UNCHANGED <<phaseOfReplay, messages, turn, session, exit>>
\* main: any report with an error makes the program fail.
Finish ==
  /\ phaseOfReplay = "replay" /\ ~ More
  /\ exit' = IF \E i \in DOMAIN reports : reports[i].failed THEN 1 ELSE 0
  /\ phaseOfReplay' = "done"
  /\ UNCHANGED <<messages, turn, session, at, reports>>

-----------------------------------------------------------------------------
ReplayIn(p) ==
  /\ phaseOfReplay = p
  /\ messages = <<>> /\ turn = 1 /\ session = <<>> /\ at = 1 /\ reports = <<>> /\ exit = 0
ReplayInit == ReplayIn("build")

ReplayNext == \/ Plant \/ Busywork \/ Ask \/ Emit \/ EmitOther \/ StartReplay
              \/ SkipBlank \/ RejectLine \/ Post \/ Finish

ReplaySpec == ReplayInit /\ [][ReplayNext]_replay

-----------------------------------------------------------------------------
(* Properties                                                               *)

\* Every body is a request a chat client could send: it holds the planted fact,
\* ends with a question, and every tool result follows the message with its
\* call; the last body is the whole talk (needle.py 186-212).
BodiesAreRequests ==
  phaseOfReplay \in {"replay", "done"} =>
    /\ \E i \in DOMAIN session : session[i] = Body(Len(messages))
    /\ \A i \in DOMAIN session : session[i].kind = "body" =>
         LET k == session[i].size IN
         /\ k >= 2 /\ messages[k].role = "user"
         /\ \A m \in 1 .. k : messages[m].role = "tool" =>
              messages[m - 1].role = "assistant" /\ messages[m - 1].call = messages[m].call

\* A replay tells the truth about what it was told.  Exit code 0 means that every
\* line up to --max that is not blank was a request the proxy answered with success,
\* whatever broken lines and failures came in between (replay.py 185-204, 313).
\* Where an answer carried the statistics or the rewritten messages, the report
\* names exactly the results replaced by stubs, and counts a saving exactly when
\* there are some, in one unit (221-239).  An answer with neither is reported as
\* wholly saved: DegradedSavesNothing below.
ReportIsTrue ==
  /\ phaseOfReplay = "done" /\ exit = 0 =>
       \A i \in 1 .. Len(session) : i <= MaxLine =>
         \/ session[i].kind = "blank"
         \/ \E r \in ToSet(reports) : r.line = i /\ r.answer.kind = "ok"
  /\ \A i \in DOMAIN reports :
       LET r == reports[i] IN
       r.answer.stats \/ r.answer.inline =>
         /\ r.elided = r.answer.stubs
         /\ r.delta >= 0 /\ (r.delta = 0 <=> r.elided = {})

\* "If neither `x-rewritten-messages` nor `x-rewritten-sidecar` is set, replay falls
\* back to a 4-chars-per-token estimate over the original body and reports zero
\* savings" (proxy/eval/README.md 47-49).  It does not: the estimate is taken over
\* the rewritten messages, of which there are none, and all calls count as elided;
\* and with statistics their saving is reported (replay.py 221-238).
DegradedSavesNothing ==
  \A i \in DOMAIN reports :
    reports[i].answer.kind \in {"ok", "http"} /\ ~ reports[i].answer.inline =>
      reports[i].delta = 0 /\ reports[i].elided = {}
=============================================================================
