------------------------------ MODULE MCOffline ------------------------------
(* The programs beside the servers for TLC: the watermark study, the replay of *)
(* a needle session, the A/B harness, the loading of benchmark suites, and the *)
(* lock of the benchmark runners, of which one is at work.                     *)
EXTENDS Telemetry, Replay, AbHarness, BenchSuite, BenchLock

\* The other programs have not been started.
IdleBut(program) ==
  /\ program # "telemetry" => TelemetryIn("off")
  /\ program # "replay" => ReplayIn("off")
  /\ program # "harness" => HarnessIn("off")
  /\ program # "suite" => SuiteIn("off")

OfflineInit ==
  \/ TelemetryInit /\ Init /\ IdleBut("telemetry")
  \/ ReplayInit /\ Init /\ IdleBut("replay")
  \/ HarnessInit /\ Init /\ IdleBut("harness")
  \/ SuiteInit /\ Init /\ IdleBut("suite")
  \/ Init /\ IdleBut("lock")

\* Only the replay runs, or only the loading of suites.
ReplayOnly == OfflineInit /\ IdleBut("replay")
SuiteOnly  == OfflineInit /\ IdleBut("suite")
SyntheticOnly == OfflineInit /\ IdleBut("telemetry") /\ source = "synthesize"

OfflineNext ==
  \/ TelemetryNext /\ UNCHANGED <<replay, harness, suite, vars>>
  \/ ReplayNext /\ UNCHANGED <<telemetry, harness, suite, vars>>
  \/ HarnessNext /\ UNCHANGED <<telemetry, replay, suite, vars>>
  \/ SuiteNext /\ UNCHANGED <<telemetry, replay, harness, vars>>
  \/ Next /\ IdleBut("lock") /\ UNCHANGED <<telemetry, replay, harness, suite>>

\* Records in and out of order, near and far in time, small, at a watermark and at
\* the fill threshold exactly, some without a time or a count, and one with its count
\* in a later field.
Records ==
  {[time |-> t, counts |-> <<c>>] : t \in {0, 2, 5}, c \in {40, 70, 90}}
  \cup {[time |-> -1, counts |-> <<95>>], [time |-> 3, counts |-> <<-1>>],
        [time |-> 3, counts |-> <<-1, 80, 120>>]}

\* A cell that failed, one that loses the needle, a passthrough, and a reduction
\* next to which the hooks reported an error.
Outcomes ==
  {[error |-> "shim", needle |-> 1, orig |-> 100, rewritten |-> 10],
   [error |-> "none", needle |-> 0, orig |-> 100, rewritten |-> 40],
   [error |-> "none", needle |-> 1, orig |-> 100, rewritten |-> 100],
   [error |-> "reported", needle |-> 1, orig |-> 100, rewritten |-> 40]}
OneFixture == <<"tool-heavy">>
Lists == {<<"tier0+tier1", "tier1+hooks">>, <<"tier1+hooks">>}

\* Suite files with and without defaults of each kind, with jobs that name a
\* prompt, a file or nothing; some of them no valid suite.
JobDocs(id) ==
  {[id |-> id, a |-> 1, b |-> p] : p \in {1, 2}}
  \cup {[id |-> id, a |-> 1, b |-> 2, prompt |-> "own"],
        [id |-> id, a |-> 1, b |-> 2, prompt_file |-> "there"],
        [id |-> id, a |-> 1, b |-> 2, prompt_file |-> "lost"],
        [id |-> id, a |-> 1, b |-> 2, n |-> 0]}
Documents ==
  [defaults : {<<>>, [prompt |-> "default"], [prompt_file |-> "there"], [prompt |-> "default", n |-> 2],
               [prompt |-> "default", prompt_file |-> "there"]},
   jobs : {<<>>} \cup {<<j>> : j \in JobDocs("j1")}
          \cup {<<j, k>> : j \in JobDocs("j1"), k \in JobDocs("j1") \cup JobDocs("j2")}]
=============================================================================
