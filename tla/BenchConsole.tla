---------------------------- MODULE BenchConsole ----------------------------
(***************************************************************************)
(* The benchmark's terminal UI (scripts/bench_tui.py) next to the runner of*)
(* BenchRunner: the runner appends every event to events.jsonl, the UI     *)
(* tails that file, shows what it read, and appends control lines for the  *)
(* job that is selected.                                                   *)
(*                                                                         *)
(* An event is one write of one line; the runner and the UI share nothing  *)
(* but the two files.                                                      *)
(***************************************************************************)
EXTENDS BenchRunner

CONSTANT MaxTailErrors   \* bound on the errors that make the UI reopen the file

VARIABLES
  events,     \* the lines of events.jsonl
  read,       \* how many of them tail_events has handled since it opened the file
  known,      \* the keys of self.jobs, ids
  shown,      \* shown[id]: js.phase
  progress,   \* progress[id][s]: runs_done of the side
  running,    \* running_job
  tailErrors

ui     == <<read, known, shown, progress, running, tailErrors>>
allVars == <<vars, events, ui>>

Event(p, id, s, k) == [phase |-> p, job |-> id, side |-> s, run |-> k]
NoSide == "none"
Busy   == {"warming", "running", "waiting_port"}
\* The id of the entry in hand.
HandId == IF job = NoJob THEN NoJob ELSE IdOf[job]

-----------------------------------------------------------------------------
(* The runner's events                                                      *)

Silent == UNCHANGED events
Queued == [i \in 1 .. Len(Suite) |-> Event("queued", IdOf[Suite[i]], NoSide, 0)]
\* A job that got its result is reported with it.
Report == events' = IF results' = results THEN events
                    ELSE Append(events, Event(Last(results').phase, IdOf[Last(results').job], NoSide,
                                              IF Last(results').phase = "ok" THEN Runs ELSE 0))
ReportSide == events' = Append(events, Event(phase'[IdOf[job]], IdOf[job], side, run'))

RunnerStep ==
  \/ (Drain \/ Pop \/ Summarise \/ Accept \/ Warm \/ GoOn \/ NextSide) /\ Silent
  \/ (Refuse \/ Stop \/ ChatFails \/ Succeed \/ Save) /\ Silent
  \/ (Apply \/ Tell) /\ Report
  \/ (WaitPort \/ SoloSeen \/ Measure) /\ ReportSide
\* The operator only switches servers here, every write of a raw file succeeds, and
\* a killed runner is not started again: what stray servers, a full disk and
\* restarts do is BenchRunner's.
WorldStep == (Switch \/ Crash) /\ Silent

-----------------------------------------------------------------------------
(* The UI                                                                   *)

Greater(a, b) == IF a > b THEN a ELSE b
\* runs_done never goes back; an ok job has all of its runs.
Progress(e) ==
  CASE e.phase = "running" -> [progress EXCEPT ![e.job][e.side] = Greater(@, e.run)]
    [] e.phase = "ok"      -> [progress EXCEPT ![e.job] = [s \in Side |-> Greater(@[s], e.run)]]
    [] OTHER               -> progress
\* Mutant: only success and failure end a job.
RunningStale(e) ==
  IF e.phase \in Busy THEN e.job
  ELSE IF e.phase \in {"ok", "failed"} /\ running = e.job THEN NoJob ELSE running
Running(e) ==
  IF e.phase \in Busy THEN e.job
  ELSE IF e.phase \in Ended /\ running = e.job THEN NoJob ELSE running

\* tail_events and handle_event; a job not seen before is added.
ReadEvent ==
  /\ read < Len(events)
  /\ LET e == events[read + 1] IN
     /\ known' = known \cup {e.job}
     /\ shown' = [shown EXCEPT ![e.job] = e.phase]
     /\ progress' = Progress(e)
     /\ running' = Running(e)
  /\ read' = read + 1
  /\ UNCHANGED <<vars, events, tailErrors>>
\* Mutant: the file is reopened at its end.
ReopenAtEnd ==
  /\ tailErrors < MaxTailErrors
  /\ tailErrors' = tailErrors + 1
  /\ read' = Len(events)
  /\ UNCHANGED <<vars, events, known, shown, progress, running>>
\* An exception while an event is handled: the file is opened again and read
\* from its beginning, over the state there is.
Reopen ==
  /\ tailErrors < MaxTailErrors
  /\ tailErrors' = tailErrors + 1
  /\ read' = 0
  /\ UNCHANGED <<vars, events, known, shown, progress, running>>

\* A job of the tree is selected and one of the keys s, r, k is pressed: write_control.
Press(id, a) ==
  /\ id \in known
  /\ Len(control) < MaxControl
  /\ control' = Append(control, [action |-> a, job |-> id])
  /\ UNCHANGED <<pc, memory, phase, rawfile, summary, offset, listening, restarts, events, ui>>

-----------------------------------------------------------------------------
ConsoleInit ==
  /\ Init
  /\ events = Queued /\ read = 0
  /\ known = {} /\ listening = {}
  /\ shown = [id \in Id |-> "queued"]
  /\ progress = [id \in Id |-> NoCounts]
  /\ running = NoJob /\ tailErrors = 0

ConsoleNext ==
  \/ (RunnerStep \/ WorldStep) /\ UNCHANGED ui
  \/ ReadEvent \/ Reopen
  \/ \E id \in Id, a \in Action : Press(id, a)

\* The UI's loop polls the file ten times a second for as long as it runs.
ConsoleSpec == ConsoleInit /\ [][ConsoleNext]_allVars /\ WF_allVars(ReadEvent)

-----------------------------------------------------------------------------
(* Properties                                                               *)

CaughtUp == read = Len(events)

\* The measured requests of an id: in the runner's memory, or on disk.
Have(id, s) == IF id = HandId THEN raw[s] ELSE rawfile[id][s]
\* Only one entry of the suites has the id.
Sole(id) == \A j, k \in Job : IdOf[j] = id /\ IdOf[k] = id => j = k
\* The ids of the suites.
Ids == {IdOf[j] : j \in Job}

\* Once it has read the whole file the UI shows the phase of every job, also
\* after the file was opened again in the middle of a run. While the runner lives
\* it then names as running the job the runner is at, from its first event on, and
\* counts each side's measured requests as the runner's memory and the raw files
\* do. Of an id that several entries share it never counts less than they do: its
\* counters do not go back when the next of those entries starts from zero
\* (bench_tui.py 238-343).
ShownIsTrue ==
  CaughtUp =>
    /\ \A id \in Ids : shown[id] = phase[id] /\ id \in known
    /\ pc # "off" =>
         /\ running = IF HandId # NoJob /\ phase[HandId] \in Busy THEN HandId ELSE NoJob
         /\ \A id \in Ids, s \in Side :
              /\ progress[id][s] >= Have(id, s)
              /\ Sole(id) => progress[id][s] = Have(id, s)

\* When the run is over the UI comes to show the end of every job.
EndIsShown == (pc = "done") ~> (\A id \in Ids : shown[id] \in Ended)
=============================================================================
