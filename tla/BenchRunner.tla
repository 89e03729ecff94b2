----------------------------- MODULE BenchRunner -----------------------------
(***************************************************************************)
(* One A/B benchmark run (scripts/bench_runner.py): the runner's job queue,*)
(* the control file the terminal UI appends to while the runner works, the *)
(* event stream, the raw and summary files, and the two servers an         *)
(* operator starts and stops.                                              *)
(*                                                                         *)
(* The runner reads the control file only at three places (between jobs,   *)
(* before a job and before each measured request), each time taking every  *)
(* line since the stored offset.  Its process may be killed and started    *)
(* again with the same --run-id; the files outlive it.                     *)
(***************************************************************************)
EXTENDS Integers, Sequences, SequencesExt, FiniteSets

CONSTANTS
  Job,          \* the entries of the suite files
  NoJob,        \* no job taken up
  Id, IdOf,     \* job ids, and the id of each entry
  Suite,        \* the merged jobs of the suites, in order
  Side,         \* the two sides of a job
  First, Second,
  Runs,         \* measured requests per side (n)
  Torn,         \* what a write that was cut short leaves of a file
  MaxControl,   \* bound on the control lines a user writes
  MaxRestarts   \* bound on the restarts of the run

ASSUME SuiteAssumption ==
  /\ Suite \in Seq(Job) /\ IsInjective(Suite) /\ ToSet(Suite) = Job
  /\ NoJob \notin Job \cup Id
\* validate() looks for equal ids within one suite file: entries of two files may
\* share an id, and with it the events and the raw file.
ASSUME IdAssumption == IdOf \in [Job -> Id]
ASSUME SideAssumption == Side = {First, Second} /\ First # Second
ASSUME RunsAssumption == Runs \in Nat \ {0} /\ MaxControl \in Nat /\ MaxRestarts \in Nat
ASSUME TornAssumption == Torn \notin [Side -> 0 .. Runs]

VARIABLES
  pc,        \* where the runner is; "off" when its process is gone
  queue,     \* entries not taken up yet
  todo,      \* control lines drained between two jobs and not yet applied
  job,       \* the entry taken up
  side, run, \* the side being measured, and its completed requests
  raw,       \* raw[s]: measurements of side s held in raw_runs
  ending,    \* the phase run_job is about to report and to return
  results,   \* the results list of main, each with its entry
  phase,     \* phase[id]: the phase of the last event of id (events.jsonl)
  rawfile,   \* rawfile[id]: what <id>.json holds
  summary,   \* what summary.json holds
  control,   \* the lines of control.jsonl
  offset,    \* .control.offset, in lines
  listening, \* the sides whose port accepts connections (external)
  restarts   \* restarts so far

hand   == <<job, side, run, raw, ending>>
memory == <<queue, todo, hand, results>>
files  == <<phase, rawfile, summary, offset>>
world  == <<control, listening, restarts>>
vars   == <<pc, memory, files, world>>

Action    == {"start", "skip", "stop"}
Line      == [action : Action, job : Id]
Ended     == {"ok", "failed", "skipped", "stopped"}
Phase     == {"queued", "waiting_port", "warming", "running"} \cup Ended
Counts    == [Side -> 0 .. Runs]
NoCounts  == [s \in Side |-> 0]
Full      == [s \in Side |-> Runs]
Result    == [job : Job, phase : Ended]
PC        == {"off", "queue", "apply", "accept", "solo", "warm", "check", "chat",
              "save", "tell", "done"}

Other(s)  == IF s = First THEN Second ELSE First

-----------------------------------------------------------------------------
(* Control.drain                                                            *)

NewLines == SubSeq(control, offset + 1, Len(control))
Drained  == offset' = Len(control)
\* Mutant: the line's job is not compared.
AskedAnyJob(actions) == \E i \in DOMAIN NewLines : NewLines[i].action \in actions
Asked(actions) == \E i \in DOMAIN NewLines :
                    NewLines[i].job = IdOf[job] /\ NewLines[i].action \in actions

-----------------------------------------------------------------------------
(* main: the queue between two jobs                                         *)

Positions(id) == {i \in DOMAIN queue : IdOf[queue[i]] = id}
Least(S)      == CHOOSE i \in S : \A k \in S : i <= k

Drain ==
  /\ pc = "queue"
  /\ queue # <<>>
  /\ todo' = NewLines
  /\ Drained
  /\ pc' = "apply"
  /\ UNCHANGED <<queue, hand, results, phase, rawfile, summary, world>>

\* start: the first entry of the id moves to the front, unless it is there.
MoveToFront(id) ==
  LET later == Positions(id) \ {1} IN
  /\ queue' = IF later = {} THEN queue
              ELSE <<queue[Least(later)]>> \o RemoveAt(queue, Least(later))
  /\ UNCHANGED <<results, phase>>

Skipped(j) ==
  /\ results' = Append(results, [job |-> j, phase |-> "skipped"])
  /\ phase' = [phase EXCEPT ![IdOf[j]] = "skipped"]
\* Mutant: the job is reported whether or not it was still queued.
DropAlways(id) ==
  IF Positions(id) = {}
  THEN queue' = queue /\ Skipped(CHOOSE j \in Job : IdOf[j] = id)
  ELSE LET i == Least(Positions(id)) IN queue' = RemoveAt(queue, i) /\ Skipped(queue[i])
\* Mutant: the job is reported and stays in the queue.
DropKeeps(id) ==
  IF Positions(id) = {}
  THEN UNCHANGED <<queue, results, phase>>
  ELSE queue' = queue /\ Skipped(queue[Least(Positions(id))])
\* skip and stop: the first queued entry of the id leaves the run.
DropQueued(id) ==
  IF Positions(id) = {}
  THEN UNCHANGED <<queue, results, phase>>
  ELSE LET i == Least(Positions(id)) IN queue' = RemoveAt(queue, i) /\ Skipped(queue[i])

Apply ==
  /\ pc = "apply"
  /\ todo # <<>>
  /\ LET line == Head(todo) IN
     \/ line.action = "start" /\ MoveToFront(line.job)
     \/ line.action \in {"skip", "stop"} /\ DropQueued(line.job)
  /\ todo' = Tail(todo)
  /\ UNCHANGED <<pc, hand, rawfile, summary, offset, world>>

\* Mutant: the last job of the queue is taken up.
PopLast ==
  /\ pc = "apply" /\ todo = <<>> /\ queue # <<>>
  /\ job' = Last(queue) /\ queue' = Front(queue)
  /\ side' = First /\ run' = 0 /\ raw' = NoCounts
  /\ pc' = "accept"
  /\ UNCHANGED <<todo, ending, results, files, world>>
\* The next job is taken up with empty raw runs.
Pop ==
  /\ pc = "apply" /\ todo = <<>> /\ queue # <<>>
  /\ job' = Head(queue) /\ queue' = Tail(queue)
  /\ side' = First /\ run' = 0 /\ raw' = NoCounts
  /\ pc' = "accept"
  /\ UNCHANGED <<todo, ending, results, files, world>>

\* The queue is empty: summary.json is written and the runner ends.
Summarise ==
  /\ \/ pc = "queue"
     \/ pc = "apply" /\ todo = <<>>
  /\ queue = <<>>
  /\ summary' = results
  /\ pc' = "done"
  /\ UNCHANGED <<memory, phase, rawfile, offset, world>>

-----------------------------------------------------------------------------
(* run_job and bench_side                                                   *)

\* run_job is to end with phase p and goes on at station next.
Ending(p, next) ==
  /\ ending' = p
  /\ pc' = next
  /\ UNCHANGED <<queue, todo, job, side, run, raw, results, phase, rawfile, summary, world>>

\* A last look at the control file: a skip or a stop of this job ends it here,
\* every other line drained is dropped.
Accept ==
  /\ pc = "accept"
  /\ ~ Asked({"skip", "stop"})
  /\ Drained
  /\ pc' = "solo"
  /\ UNCHANGED <<memory, phase, rawfile, summary, world>>
Refuse ==
  /\ pc = "accept"
  /\ Asked({"skip", "stop"})
  /\ Drained
  /\ Ending("skipped", "tell")

\* wait_solo polls until its port listens and the other one does not.
WaitPort ==
  /\ pc = "solo"
  /\ listening # {side}
  /\ phase[IdOf[job]] # "waiting_port"
  /\ phase' = [phase EXCEPT ![IdOf[job]] = "waiting_port"]
  /\ UNCHANGED <<pc, memory, rawfile, summary, offset, world>>
\* Mutant: the two ports are swapped.
SoloSeenSwapped ==
  /\ pc = "solo"
  /\ listening = {Other(side)}
  /\ phase' = [phase EXCEPT ![IdOf[job]] = "warming"]
  /\ pc' = "warm"
  /\ UNCHANGED <<memory, rawfile, summary, offset, world>>
SoloSeen ==
  /\ pc = "solo"
  /\ listening = {side}
  /\ phase' = [phase EXCEPT ![IdOf[job]] = "warming"]
  /\ pc' = "warm"
  /\ UNCHANGED <<memory, rawfile, summary, offset, world>>

\* A request is answered only by a listening server; it may fail at any time.
Warm ==
  /\ pc = "warm"
  /\ side \in listening
  /\ pc' = "check"
  /\ UNCHANGED <<memory, files, world>>
ChatFails ==
  /\ pc \in {"warm", "chat"}
  /\ Ending("failed", "save")
  /\ UNCHANGED offset

\* Before each measured request only a stop of this job counts.
Stop ==
  /\ pc = "check" /\ run < Runs
  /\ Asked({"stop"})
  /\ Drained
  /\ Ending("stopped", "save")
\* Mutant: one request too many.
GoOnPast ==
  /\ pc = "check" /\ run <= Runs
  /\ ~ Asked({"stop"})
  /\ Drained
  /\ pc' = "chat"
  /\ UNCHANGED <<memory, phase, rawfile, summary, world>>
GoOn ==
  /\ pc = "check" /\ run < Runs
  /\ ~ Asked({"stop"})
  /\ Drained
  /\ pc' = "chat"
  /\ UNCHANGED <<memory, phase, rawfile, summary, world>>

Measure ==
  /\ pc = "chat"
  /\ side \in listening
  /\ raw' = [raw EXCEPT ![side] = @ + 1]
  /\ run' = run + 1
  /\ phase' = [phase EXCEPT ![IdOf[job]] = "running"]
  /\ pc' = "check"
  /\ UNCHANGED <<queue, todo, job, side, ending, results, rawfile, summary, offset, world>>

NextSide ==
  /\ pc = "check" /\ run = Runs /\ side = First
  /\ side' = Second /\ run' = 0
  /\ pc' = "solo"
  /\ UNCHANGED <<queue, todo, job, raw, ending, results, files, world>>

\* Mutant: only stopped and failed jobs write their raw file.
SucceedUnsaved ==
  /\ pc = "check" /\ run = Runs /\ side = Second
  /\ Ending("ok", "tell")
  /\ UNCHANGED offset
\* Mutant: the event goes out before the raw file is written.
SucceedAnnounced ==
  /\ pc = "check" /\ run = Runs /\ side = Second
  /\ ending' = "ok" /\ phase' = [phase EXCEPT ![IdOf[job]] = "ok"]
  /\ pc' = "save"
  /\ UNCHANGED <<queue, todo, job, side, run, raw, results, rawfile, summary, offset, world>>
Succeed ==
  /\ pc = "check" /\ run = Runs /\ side = Second
  /\ Ending("ok", "save")
  /\ UNCHANGED offset

\* The raw runs are written, over those of an earlier entry of the same id.
Save ==
  /\ pc = "save"
  /\ rawfile' = [rawfile EXCEPT ![IdOf[job]] = raw]
  /\ pc' = "tell"
  /\ UNCHANGED <<memory, phase, summary, offset, world>>
\* The write fails: the handler tries it once more, lets a second failure pass,
\* and the job has failed.
SaveFails ==
  /\ pc = "save"
  /\ \E left \in {rawfile[IdOf[job]], Torn, raw} : rawfile' = [rawfile EXCEPT ![IdOf[job]] = left]
  /\ ending' = "failed"
  /\ pc' = "tell"
  /\ UNCHANGED <<queue, todo, job, side, run, raw, results, phase, summary, offset, world>>

\* The event is emitted and main appends what run_job returns.
Tell ==
  /\ pc = "tell"
  /\ phase' = [phase EXCEPT ![IdOf[job]] = ending]
  /\ results' = Append(results, [job |-> job, phase |-> ending])
  /\ job' = NoJob /\ ending' = "none"
  /\ pc' = "queue"
  /\ UNCHANGED <<queue, todo, side, run, raw, rawfile, summary, offset, world>>

-----------------------------------------------------------------------------
(* The user, the operator and the process's end                             *)

\* The terminal UI appends a control line for the selected job.
WriteControl ==
  /\ Len(control) < MaxControl
  /\ \E line \in Line : control' = Append(control, line)
  /\ UNCHANGED <<pc, memory, files, listening, restarts>>

\* A server is started or stopped (external).
StartServer(s) ==
  /\ s \notin listening
  /\ listening' = listening \cup {s}
  /\ UNCHANGED <<pc, memory, files, control, restarts>>
StopServer(s) ==
  /\ s \in listening
  /\ listening' = listening \ {s}
  /\ UNCHANGED <<pc, memory, files, control, restarts>>
\* The operator switches to the configuration the runner waits for.
Switch ==
  /\ pc = "solo" /\ listening # {side}
  /\ listening' = {side}
  /\ UNCHANGED <<pc, memory, files, control, restarts>>

\* The process is killed, maybe between a drain and what follows from it, or in
\* the middle of writing a raw file.
Crash ==
  /\ pc \notin {"off", "done"}
  /\ restarts < MaxRestarts
  /\ pc' = "off"
  /\ \/ UNCHANGED <<offset, rawfile>>
     \/ pc \in {"accept", "check"} /\ Drained /\ UNCHANGED rawfile
     \/ pc = "save" /\ rawfile' = [rawfile EXCEPT ![IdOf[job]] = Torn] /\ UNCHANGED offset
  /\ job' = NoJob /\ ending' = "none"
  /\ UNCHANGED <<queue, todo, side, run, raw, results, phase, summary, world>>

\* run --run-id <the same>: the jobs are announced and queued again.
Restart ==
  /\ pc = "off"
  /\ restarts' = restarts + 1
  /\ queue' = Suite /\ todo' = <<>> /\ results' = <<>>
  /\ side' = First /\ run' = 0 /\ raw' = NoCounts
  /\ phase' = [id \in Id |-> "queued"]
  /\ pc' = "queue"
  /\ UNCHANGED <<job, ending, rawfile, summary, offset, control, listening>>

-----------------------------------------------------------------------------
Init ==
  /\ pc = "queue"
  /\ queue = Suite /\ todo = <<>> /\ job = NoJob /\ results = <<>>
  /\ side = First /\ run = 0 /\ raw = NoCounts /\ ending = "none"
  /\ phase = [id \in Id |-> "queued"]
  /\ rawfile = [id \in Id |-> NoCounts] /\ summary = <<>>
  /\ control = <<>> /\ offset = 0 /\ restarts = 0
  /\ listening \in SUBSET Side

Runner ==
  \/ Drain \/ Apply \/ Pop \/ Summarise
  \/ Accept \/ Refuse \/ WaitPort \/ SoloSeen \/ Warm \/ ChatFails
  \/ Stop \/ GoOn \/ Measure \/ NextSide \/ Succeed
  \/ Save \/ SaveFails \/ Tell

Next ==
  \/ Runner
  \/ WriteControl
  \/ \E s \in Side : StartServer(s) \/ StopServer(s)
  \/ Switch
  \/ Crash \/ Restart

\* The runner's own steps do not wait, except wait_solo, which polls every two
\* seconds while the operator follows the suite's switching instructions.
Fairness == WF_vars(Runner) /\ SF_vars(SoloSeen) /\ WF_vars(Switch)

Spec     == Init /\ [][Next]_vars
FairSpec == Spec /\ Fairness

-----------------------------------------------------------------------------
(* Properties                                                               *)

TypeOK ==
  /\ pc \in PC
  /\ queue \in Seq(Job) /\ todo \in Seq(Line) /\ job \in Job \cup {NoJob}
  /\ side \in Side /\ run \in 0 .. Runs /\ raw \in Counts /\ ending \in Ended \cup {"none"}
  /\ results \in Seq(Result)
  /\ phase \in [Id -> Phase] /\ rawfile \in [Id -> Counts \cup {Torn}] /\ summary \in Seq(Result)
  /\ control \in Seq(Line) /\ offset \in 0 .. Len(control)
  /\ listening \in SUBSET Side /\ restarts \in 0 .. MaxRestarts

Jobs(rs) == {rs[i].job : i \in DOMAIN rs}

\* While the runner lives every entry of the suites is in exactly one place: the
\* queue, the hands of run_job, or the results; no control line, failure or
\* restart loses or doubles one, not even of entries that share an id
\* (bench_runner.py 262-295).
EveryJobSomewhere ==
  pc # "off" =>
    /\ Len(queue) + Len(results) + Cardinality({job} \ {NoJob}) = Cardinality(Job)
    /\ ToSet(queue) \cup Jobs(results) \cup ({job} \ {NoJob}) = Job

\* Whoever reads events.jsonl and the raw files, at any moment and also after the
\* runner was killed, finds the measurements a job's last event speaks of: all of
\* them on both sides for ok, a readable file that lacks some for stopped
\* (the order of write_text and emit, bench_runner.py 167-184).
EventsBacked ==
  \A id \in Id :
    /\ phase[id] = "ok" => rawfile[id] = Full
    /\ phase[id] = "stopped" => rawfile[id] \in Counts /\ \E s \in Side : rawfile[id][s] < Runs

\* The i-th of the results is the last one of its id.
LastOfId(rs, i) == \A k \in DOMAIN rs : IdOf[rs[k].job] = IdOf[rs[i].job] => k <= i

\* summary.json reports every entry of the suites. What it reports last of an id is
\* what the last event of that id told whoever tailed events.jsonl. Of entries that
\* share an id only the last one's outcome can be held against the files.
SummaryTrue ==
  summary # <<>> =>
    /\ Jobs(summary) = Job
    /\ \A i \in DOMAIN summary : LastOfId(summary, i) =>
         LET id == IdOf[summary[i].job] IN
         /\ phase[id] = summary[i].phase
         /\ summary[i].phase = "ok" => rawfile[id] = Full

\* A job is skipped or stopped only because a control line that was read asked
\* for its id.
OnlyOnRequest ==
  \A i \in DOMAIN results :
    results[i].phase \in {"skipped", "stopped"} =>
      \E k \in 1 .. offset : /\ control[k].job = IdOf[results[i].job]
                             /\ control[k].action \in {"skip", "stop"}

\* Without a start line the jobs run in the order of the suites.
SuiteOrder ==
  (\A k \in DOMAIN control : control[k].action # "start") =>
    \A i, k \in DOMAIN results :
      (i < k /\ results[i].phase # "skipped" /\ results[k].phase # "skipped") =>
        \E m, n \in DOMAIN Suite : m < n /\ Suite[m] = results[i].job /\ Suite[n] = results[k].job

\* Whatever the user, the servers and failures do, the run implements the life
\* of jobs of BenchLife: each entry of the suites is one of its jobs, and ends with
\* the last result the runner holds of it.
ResultsOf(j) == {i \in DOMAIN results : results[i].job = j}
JobStatus == [j \in Job |->
  IF j = job THEN "active"
  ELSE IF ResultsOf(j) = {} THEN "queued"
  ELSE results[CHOOSE i \in ResultsOf(j) : \A k \in ResultsOf(j) : k <= i].phase]
Life == INSTANCE BenchLife WITH status <- JobStatus
ImplementsLife == Life!Spec

\* The run comes to an end once the operator serves each side the runner waits
\* for, unless the process is killed.
RunEnds == (pc = "queue") ~> (pc \in {"done", "off"})
=============================================================================
