-------------------------- MODULE BenchRunnerProofs --------------------------
(* Proofs about BenchRunner for any suites, whether or not entries share an   *)
(* id, any number of measured requests, control lines and restarts: where     *)
(* jobs are, what is reported of them, in which order they run, that the run  *)
(* implements BenchLife, and, of the composition BenchConsole, what the       *)
(* terminal UI shows of it.                                                   *)
EXTENDS BenchConsole, FiniteSetTheorems, WellFoundedInduction, TLAPS

(***************************************************************************)
(* None of the properties is inductive.  Which of them a step may break    *)
(* depends on the queue, the job in hand and the results at once, and on   *)
(* the control lines that were drained and not yet applied.                *)
(***************************************************************************)

\* The runner has a job in its hands.
AtWork == {"accept", "solo", "warm", "check", "chat", "save", "tell"}
Idle == PC \ AtWork

InHand == job = NoJob <=> pc \in Idle

\* No job is twice in the queue, the hands of run_job and the results; while the
\* runner lives every job is in one of them.
JobsApart ==
  /\ IsInjective(queue)
  /\ \A i, k \in DOMAIN results : results[i].job = results[k].job => i = k
  /\ \A i \in DOMAIN queue : queue[i] # job /\ \A k \in DOMAIN results : queue[i] # results[k].job
  /\ \A k \in DOMAIN results : results[k].job # job
NoneLost ==
  pc # "off" => \A j \in Job : \/ j = job
                               \/ \E i \in DOMAIN queue : queue[i] = j
                               \/ \E k \in DOMAIN results : results[k].job = j

\* The raw runs of the job in hand are those of the sides it has been through.
MeasuredSoFar ==
  pc \in AtWork =>
    /\ raw[side] = run
    /\ side = First => raw[Second] = 0
    /\ side = Second => raw[First] = Runs
ChatLacksOne == pc = "chat" => run < Runs
RestartLeft  == pc = "off" => restarts < MaxRestarts

\* run_job knows how the job ends while it writes and reports that, and only then.
EndingKnown == ending = "none" <=> pc \notin {"save", "tell"}

\* What is about to be written or reported bears the job's end out; until the raw
\* file is written the last event of the job in hand is of its measuring.
PendingBacked ==
  /\ pc \in {"warm", "check", "chat", "save"} => phase[IdOf[job]] \notin Ended
  /\ pc = "save" /\ ending = "ok" => raw = Full
  /\ pc = "save" /\ ending = "stopped" => \E s \in Side : raw[s] < Runs
  /\ pc = "tell" /\ ending = "ok" => rawfile[IdOf[job]] = Full
  /\ pc = "tell" /\ ending = "stopped" =>
       rawfile[IdOf[job]] \in Counts /\ \E s \in Side : rawfile[IdOf[job]][s] < Runs

\* The last result of an id is its last event, unless an entry of that id is in hand.
LatestTold ==
  pc # "off" =>
    \A i \in DOMAIN results :
      (LastOfId(results, i) /\ IdOf[results[i].job] # HandId) =>
        phase[IdOf[results[i].job]] = results[i].phase
\* An entry that has its id to itself has not ended before it is through.
SoleUnended ==
  \A j \in Job : (Sole(IdOf[j]) /\ (j = job \/ \E i \in DOMAIN queue : queue[i] = j)) =>
    phase[IdOf[j]] \notin Ended
SummaryIsLatest ==
  /\ pc = "done" => queue = <<>>
  /\ summary # <<>> => pc = "done" /\ summary = results

\* What waits to be applied has been read.
TodoRead == \A i \in DOMAIN todo : \E k \in 1 .. offset : control[k] = todo[i]
\* Among the control lines read so far one asks for the id to be skipped or stopped.
AskedFor(id) == \E k \in 1 .. offset : control[k].job = id /\ control[k].action \in {"skip", "stop"}
EndingAsked == ending \in {"skipped", "stopped"} => job # NoJob /\ AskedFor(IdOf[job])

\* Job a comes before job b in the suite.
Before(a, b) == \E m, n \in DOMAIN Suite : m < n /\ Suite[m] = a /\ Suite[n] = b
NoStart   == \A k \in DOMAIN control : control[k].action # "start"
QueueInOrder ==
  NoStart =>
    /\ \A i, k \in DOMAIN queue : i < k => Before(queue[i], queue[k])
    /\ job # NoJob => \A k \in DOMAIN queue : Before(job, queue[k])
    /\ \A i \in DOMAIN results : results[i].phase # "skipped" =>
         /\ job # NoJob => Before(results[i].job, job)
         /\ \A k \in DOMAIN queue : Before(results[i].job, queue[k])

TypedInv   == TypeOK /\ InHand /\ EndingKnown /\ MeasuredSoFar /\ ChatLacksOne /\ RestartLeft
PlacesInv  == TypedInv /\ JobsApart /\ NoneLost
BackedInv  == TypedInv /\ PendingBacked /\ EventsBacked
OutcomeInv == PlacesInv /\ LatestTold /\ SoleUnended /\ SummaryIsLatest
RequestInv == PlacesInv /\ TodoRead /\ EndingAsked /\ OnlyOnRequest
OrderInv   == PlacesInv /\ TodoRead /\ QueueInOrder /\ SuiteOrder

-----------------------------------------------------------------------------
(* Sequences                                                                *)

LEMMA SeqShape ==
  ASSUME NEW S, NEW s \in Seq(S)
  PROVE  /\ DOMAIN s = 1 .. Len(s) /\ Len(s) \in Nat
         /\ \A i \in DOMAIN s : s[i] \in S
         /\ s = <<>> <=> Len(s) = 0
  OBVIOUS

LEMMA AppendShape ==
  ASSUME NEW S, NEW s \in Seq(S), NEW e \in S
  PROVE  /\ Append(s, e) \in Seq(S) /\ DOMAIN Append(s, e) = 1 .. Len(s) + 1
         /\ Len(Append(s, e)) = Len(s) + 1
         /\ \A i \in DOMAIN s : Append(s, e)[i] = s[i]
         /\ Append(s, e)[Len(s) + 1] = e
  OBVIOUS

LEMMA TailShape ==
  ASSUME NEW S, NEW s \in Seq(S), s # <<>>
  PROVE  /\ Head(s) = s[1] /\ Head(s) \in S /\ Tail(s) \in Seq(S)
         /\ DOMAIN Tail(s) = 1 .. Len(s) - 1
         /\ \A i \in DOMAIN Tail(s) : Tail(s)[i] = s[i + 1]
  OBVIOUS

InFront(e, s) == <<e>> \o s
LEMMA FrontAppend ==
  ASSUME NEW S, NEW e \in S, NEW s \in Seq(S)
  PROVE  /\ InFront(e, s) \in Seq(S) /\ DOMAIN InFront(e, s) = 1 .. Len(s) + 1
         /\ InFront(e, s)[1] = e /\ \A k \in 2 .. Len(s) + 1 : InFront(e, s)[k] = s[k - 1]
  BY DEF InFront

\* An element taken out of a sequence leaves the others in their order.
LEMMA RemoveShape ==
  ASSUME NEW S, NEW s \in Seq(S), NEW i \in DOMAIN s
  PROVE  /\ RemoveAt(s, i) \in Seq(S)
         /\ DOMAIN RemoveAt(s, i) = 1 .. Len(s) - 1
         /\ \A k \in 1 .. Len(s) - 1 : RemoveAt(s, i)[k] = s[IF k < i THEN k ELSE k + 1]
  <1> DEFINE front == SubSeq(s, 1, i - 1)
             back  == SubSeq(s, i + 1, Len(s))
  <1>1. i \in 1 .. Len(s) /\ Len(s) \in Nat
    OBVIOUS
  <1>2. /\ front \in Seq(S) /\ Len(front) = i - 1
        /\ \A k \in 1 .. i - 1 : front[k] = s[k]
    BY <1>1
  <1>3. /\ back \in Seq(S) /\ Len(back) = Len(s) - i
        /\ \A k \in 1 .. Len(s) - i : back[k] = s[i + k]
    BY <1>1
  <1>4. RemoveAt(s, i) = front \o back
    BY DEF RemoveAt
  <1> HIDE DEF front, back
  <1>5. /\ front \o back \in Seq(S) /\ Len(front \o back) = Len(s) - 1
        /\ \A k \in 1 .. Len(s) - 1 :
             (front \o back)[k] = IF k <= i - 1 THEN front[k] ELSE back[k - (i - 1)]
    BY <1>1, <1>2, <1>3
  <1>6. ASSUME NEW k \in 1 .. Len(s) - 1
        PROVE  (front \o back)[k] = s[IF k < i THEN k ELSE k + 1]
    BY <1>1, <1>2, <1>3, <1>5
  <1>7. QED
    BY <1>1, <1>4, <1>5, <1>6

\* The lines not read yet are the rest of the control file.
LEMMA NewLinesShape ==
  ASSUME control \in Seq(Line), offset \in 0 .. Len(control)
  PROVE  /\ NewLines \in Seq(Line) /\ DOMAIN NewLines = 1 .. Len(control) - offset
         /\ \A i \in DOMAIN NewLines : NewLines[i] = control[offset + i]
  BY DEF NewLines

\* A non-empty set of numbers has a least one.
LEMMA LeastOf ==
  ASSUME NEW S, S \subseteq Nat, S # {}
  PROVE  Least(S) \in S /\ \A k \in S : Least(S) <= k
  <1>1. PICK m \in S : \A k \in S : ~ (<<k, m>> \in OpToRel(<, Nat))
    BY WFMin, NatLessThanWellFounded
  <1>2. ASSUME NEW k \in S PROVE m <= k
    <2>1. ~ (<<k, m>> \in {p \in Nat \X Nat : p[1] < p[2]})
      BY <1>1 DEF OpToRel
    <2>2. k \in Nat /\ m \in Nat
      OBVIOUS
    <2>3. <<k, m>> \in Nat \X Nat /\ <<k, m>>[1] = k /\ <<k, m>>[2] = m
      BY <2>2
    <2>4. QED
      BY <2>1, <2>2, <2>3
  <1>3. \E i \in S : \A k \in S : i <= k
    BY <1>2
  <1>4. QED
    BY <1>3 DEF Least

\* The first place an id has in the queue holds an entry of that id.
LEMMA FirstPosition ==
  ASSUME queue \in Seq(Job), NEW id, NEW S \in SUBSET Positions(id), S # {}
  PROVE  Least(S) \in S /\ Least(S) \in DOMAIN queue /\ IdOf[queue[Least(S)]] = id
  <1>1. S \subseteq Nat
    BY SeqShape DEF Positions
  <1>2. Least(S) \in S
    BY <1>1, LeastOf
  <1>3. QED
    BY <1>2 DEF Positions

-----------------------------------------------------------------------------
(* Types, and the job in hand                                               *)

LEMMA NoCountsTyped ==
  NoCounts \in Counts /\ First \in Side /\ NoCounts[First] = 0 /\ NoCounts[Second] = 0 /\ 0 \in 0 .. Runs
  BY SideAssumption, RunsAssumption DEF NoCounts, Counts

LEMMA TypedInit == Init => TypedInv
  BY SuiteAssumption, IdAssumption, SideAssumption, RunsAssumption
  DEF Init, TypedInv, TypeOK, InHand, EndingKnown, MeasuredSoFar, ChatLacksOne, RestartLeft, PC, AtWork, Idle, Phase, Ended, Counts, NoCounts, Line, Result

\* The id of the entry in hand.
LEMMA HandTyped ==
  ASSUME TypedInv, pc \in AtWork
  PROVE  job \in Job /\ IdOf[job] \in Id /\ HandId = IdOf[job] /\ HandId # NoJob
  BY SuiteAssumption, IdAssumption DEF TypedInv, TypeOK, InHand, Idle, HandId

\* The job in hand is to end with one of the four phases.
LEMMA EndingTyped ==
  ASSUME TypedInv, pc \in AtWork, NEW p \in Ended, NEW next \in {"save", "tell"}, Ending(p, next),
         offset' \in 0 .. Len(control)
  PROVE  TypedInv'
  <1>1. job # NoJob /\ p # "none" /\ UNCHANGED control
    BY DEF TypedInv, InHand, Idle, Ended, Ending, world
  <1>2. TypeOK'
    BY DEF TypedInv, TypeOK, Ending, PC, world
  <1>3. InHand' /\ EndingKnown' /\ MeasuredSoFar' /\ ChatLacksOne' /\ RestartLeft'
    BY <1>1 DEF Ending, TypedInv, InHand, EndingKnown, MeasuredSoFar, ChatLacksOne, RestartLeft, PC, Idle, AtWork
  <1>4. QED
    BY <1>2, <1>3 DEF TypedInv

LEMMA DrainedTyped == TypedInv /\ Drained /\ UNCHANGED control => offset' \in 0 .. Len(control)
  BY DEF Drained, TypedInv, TypeOK

\* A control line that was drained changes the queue and the results.
LEMMA ApplyTyped ==
  ASSUME TypedInv, Apply
  PROVE  TypedInv'
  <1>1. /\ todo # <<>> /\ Head(todo) \in Line /\ todo' \in Seq(Line)
        /\ UNCHANGED <<pc, hand, rawfile, summary, offset, world>>
    BY TailShape DEF Apply, TypedInv, TypeOK
  <1>2. queue \in Seq(Job) /\ results \in Seq(Result) /\ phase \in [Id -> Phase]
    BY DEF TypedInv, TypeOK
  <1> DEFINE id == Head(todo).job
  <1>3. queue' \in Seq(Job) /\ results' \in Seq(Result) /\ phase' \in [Id -> Phase]
    <2>1. CASE MoveToFront(id)
      <3>1. ASSUME Positions(id) \ {1} # {} PROVE queue' \in Seq(Job)
        <4> DEFINE S == Positions(id) \ {1}
                   i == Least(S)
        <4>1. i \in DOMAIN queue
          <5>1. S \in SUBSET Positions(id) /\ S # {}
            BY <3>1
          <5> HIDE DEF S
          <5>2. QED
            BY <1>2, <5>1, FirstPosition
        <4>2. RemoveAt(queue, i) \in Seq(Job) /\ queue[i] \in Job
          BY <1>2, <4>1, RemoveShape
        <4>3. queue' = <<queue[i]>> \o RemoveAt(queue, i)
          BY <2>1, <3>1 DEF MoveToFront
        <4>4. QED
          BY <4>2, <4>3
      <3>2. QED
        BY <1>2, <2>1, <3>1 DEF MoveToFront
    <2>2. CASE DropQueued(id) /\ Positions(id) # {}
      <3> DEFINE i == Least(Positions(id))
      <3>1. i \in DOMAIN queue
        BY <1>2, <2>2, FirstPosition
      <3>2. queue' = RemoveAt(queue, i) /\ Skipped(queue[i])
        BY <2>2 DEF DropQueued
      <3> HIDE DEF i
      <3>3. queue[i] \in Job /\ [job |-> queue[i], phase |-> "skipped"] \in Result
        BY <1>2, <3>1, SeqShape DEF Result, Ended
      <3>4. /\ results' = Append(results, [job |-> queue[i], phase |-> "skipped"])
            /\ phase' = [phase EXCEPT ![IdOf[queue[i]]] = "skipped"]
        BY <3>2 DEF Skipped
      <3>5. QED
        BY <1>2, <3>1, <3>2, <3>3, <3>4, RemoveShape, AppendShape DEF Phase, Ended
    <2>3. CASE DropQueued(id) /\ Positions(id) = {}
      BY <1>2, <2>3 DEF DropQueued
    <2>4. QED
      BY <2>1, <2>2, <2>3 DEF Apply
  <1>4. QED
    BY <1>1, <1>3 DEF TypedInv, TypeOK, InHand, EndingKnown, MeasuredSoFar, ChatLacksOne, RestartLeft, hand, world

LEMMA TypedStep == TypedInv /\ [Next]_vars => TypedInv'
  <1> SUFFICES ASSUME TypedInv, [Next]_vars PROVE TypedInv'
    OBVIOUS
  <1> USE SideAssumption, RunsAssumption
  <1>1. CASE Drain
    BY <1>1, NewLinesShape, DrainedTyped
    DEF Drain, Drained, TypedInv, TypeOK, InHand, EndingKnown, MeasuredSoFar, ChatLacksOne, RestartLeft, PC, Idle, AtWork, hand, world
  <1>2. CASE Apply
    BY <1>2, ApplyTyped
  <1>3. CASE Pop
    <2>1. Head(queue) \in Job /\ Tail(queue) \in Seq(Job)
      BY <1>3, TailShape DEF Pop, TypedInv, TypeOK
    <2>2. /\ side' = First /\ run' = 0 /\ raw' = NoCounts /\ pc' = "accept" /\ job' \in Job
          /\ queue' \in Seq(Job) /\ UNCHANGED <<todo, ending, results, files, world>>
      BY <1>3, <2>1 DEF Pop
    <2>3. TypeOK'
      BY <2>2, NoCountsTyped DEF TypedInv, TypeOK, PC, files, world
    <2>4. MeasuredSoFar' /\ ChatLacksOne' /\ RestartLeft' /\ InHand' /\ EndingKnown'
      BY <1>3, <2>2, NoCountsTyped, SuiteAssumption DEF Pop, TypedInv, MeasuredSoFar, ChatLacksOne, RestartLeft, InHand, EndingKnown, Idle, PC, AtWork
    <2>5. QED
      BY <2>3, <2>4 DEF TypedInv
  <1>4. CASE Summarise
    BY <1>4 DEF Summarise, TypedInv, TypeOK, InHand, EndingKnown, MeasuredSoFar, ChatLacksOne, RestartLeft, PC, Idle, AtWork, memory, hand, world
  <1>5. CASE Accept
    BY <1>5, DrainedTyped DEF Accept, Drained, TypedInv, TypeOK, InHand, EndingKnown, MeasuredSoFar, ChatLacksOne, RestartLeft, PC, Idle, AtWork, memory, hand, world
  <1>6. CASE Refuse
    BY <1>6, DrainedTyped, EndingTyped DEF Refuse, AtWork, Ended, Ending, world
  <1>7. CASE WaitPort \/ SoloSeen
    <2>1. job \in Job /\ IdOf[job] \in Id
      BY <1>7, HandTyped DEF WaitPort, SoloSeen, AtWork
    <2>2. QED
      BY <1>7, <2>1
      DEF WaitPort, SoloSeen, TypedInv, TypeOK, InHand, EndingKnown, MeasuredSoFar, ChatLacksOne, RestartLeft, PC, Idle, AtWork, Phase, memory, hand, world
  <1>8. CASE Warm
    BY <1>8 DEF Warm, TypedInv, TypeOK, InHand, EndingKnown, MeasuredSoFar, ChatLacksOne, RestartLeft, PC, Idle, AtWork, memory, hand, files, world
  <1>9. CASE ChatFails
    BY <1>9, EndingTyped DEF ChatFails, AtWork, Ended, TypedInv, TypeOK
  <1>10. CASE Stop
    BY <1>10, DrainedTyped, EndingTyped DEF Stop, AtWork, Ended, Ending, world
  <1>11. CASE GoOn
    BY <1>11, DrainedTyped DEF GoOn, Drained, TypedInv, TypeOK, InHand, EndingKnown, MeasuredSoFar, ChatLacksOne, RestartLeft, PC, Idle, AtWork, memory, hand, world
  <1>12. CASE Measure
    <2>1. /\ pc = "chat" /\ pc' = "check" /\ run' = run + 1 /\ raw' = [raw EXCEPT ![side] = @ + 1]
          /\ phase' = [phase EXCEPT ![IdOf[job]] = "running"]
          /\ UNCHANGED <<queue, todo, job, side, ending, results, rawfile, summary, offset, world>>
      BY <1>12 DEF Measure
    <2>0. job \in Job /\ IdOf[job] \in Id
      BY <2>1, HandTyped DEF AtWork
    <2>2. /\ side \in Side /\ run < Runs /\ run \in 0 .. Runs /\ raw[side] = run
          /\ raw \in [Side -> 0 .. Runs] /\ InHand
          /\ side = First => raw[Second] = 0
          /\ side = Second => raw[First] = Runs
      BY <2>1 DEF TypedInv, TypeOK, InHand, EndingKnown, MeasuredSoFar, ChatLacksOne, RestartLeft, Idle, AtWork, Counts
    <2>3. run' \in 0 .. Runs /\ raw' \in [Side -> 0 .. Runs] /\ phase' \in [Id -> Phase]
      BY <2>0, <2>1, <2>2 DEF TypedInv, TypeOK, Phase
    <2>4. TypeOK'
      BY <2>1, <2>3 DEF TypedInv, TypeOK, PC, Counts, world
    <2>5. MeasuredSoFar' /\ ChatLacksOne' /\ RestartLeft' /\ InHand' /\ EndingKnown'
      BY <2>0, <2>1, <2>2 DEF TypedInv, MeasuredSoFar, ChatLacksOne, RestartLeft, InHand, EndingKnown, Idle, AtWork, PC
    <2>6. QED
      BY <2>4, <2>5 DEF TypedInv
  <1>13. CASE NextSide
    BY <1>13 DEF NextSide, TypedInv, TypeOK, InHand, EndingKnown, MeasuredSoFar, ChatLacksOne, RestartLeft, PC, Idle, AtWork, files, world
  <1>14. CASE Succeed
    BY <1>14, EndingTyped DEF Succeed, AtWork, Ended, TypedInv, TypeOK
  <1>15. CASE WriteControl
    <2>1. PICK line \in Line : control' = Append(control, line)
      BY <1>15 DEF WriteControl
    <2>2. control' \in Seq(Line) /\ Len(control') = Len(control) + 1
      BY <2>1, AppendShape DEF TypedInv, TypeOK
    <2>3. QED
      BY <1>15, <2>2 DEF WriteControl, TypedInv, TypeOK, InHand, EndingKnown, MeasuredSoFar, ChatLacksOne, RestartLeft, memory, hand, files
  <1>16. CASE Switch \/ \E s \in Side : StartServer(s) \/ StopServer(s)
    BY <1>16 DEF Switch, StartServer, StopServer, TypedInv, TypeOK, InHand, EndingKnown, MeasuredSoFar, ChatLacksOne, RestartLeft, memory, hand, files
  <1>17. CASE Crash
    <2>1. rawfile' \in [Id -> Counts \cup {Torn}]
      <3>1. CASE UNCHANGED rawfile
        BY <3>1 DEF TypedInv, TypeOK
      <3>2. CASE pc = "save" /\ rawfile' = [rawfile EXCEPT ![IdOf[job]] = Torn]
        BY <3>2 DEF TypedInv, TypeOK
      <3>3. QED
        BY <1>17, <3>1, <3>2 DEF Crash
    <2>2. /\ pc' = "off" /\ job' = NoJob /\ ending' = "none" /\ restarts < MaxRestarts
          /\ UNCHANGED <<queue, todo, side, run, raw, results, phase, summary, world>>
          /\ offset' = offset \/ offset' = Len(control)
      BY <1>17 DEF Crash, Drained
    <2>3. offset' \in 0 .. Len(control)
      BY <2>2, DrainedTyped DEF Drained, TypedInv, TypeOK, world
    <2>4. QED
      BY <2>1, <2>2, <2>3
      DEF TypedInv, TypeOK, InHand, EndingKnown, MeasuredSoFar, ChatLacksOne, RestartLeft, PC, Idle, AtWork, Ended, world
  <1>18. CASE Restart
    <2>1. /\ pc = "off" /\ pc' = "queue" /\ restarts' = restarts + 1 /\ queue' = Suite /\ todo' = <<>>
          /\ results' = <<>> /\ side' = First /\ run' = 0 /\ raw' = NoCounts
          /\ phase' = [id \in Id |-> "queued"]
          /\ UNCHANGED <<job, ending, rawfile, summary, offset, control, listening>>
      BY <1>18 DEF Restart
    <2>2. TypeOK'
      BY <2>1, NoCountsTyped, SuiteAssumption DEF TypedInv, TypeOK, RestartLeft, PC, Phase
    <2>3. MeasuredSoFar' /\ ChatLacksOne' /\ RestartLeft' /\ InHand' /\ EndingKnown'
      BY <2>1 DEF TypedInv, MeasuredSoFar, ChatLacksOne, RestartLeft, InHand, EndingKnown, Idle, PC, AtWork
    <2>4. QED
      BY <2>2, <2>3 DEF TypedInv
  <1>19. CASE UNCHANGED vars
    BY <1>19 DEF vars, TypedInv, TypeOK, InHand, EndingKnown, MeasuredSoFar, ChatLacksOne, RestartLeft, memory, hand, files, world
  <1>20. CASE Save \/ SaveFails
    <2>1. /\ job \in Job /\ IdOf[job] \in Id /\ raw \in Counts /\ rawfile \in [Id -> Counts \cup {Torn}]
      BY <1>20, HandTyped DEF Save, SaveFails, AtWork, TypedInv, TypeOK
    <2>2. rawfile' \in [Id -> Counts \cup {Torn}]
      BY <1>20, <2>1 DEF Save, SaveFails
    <2>3. /\ pc = "save" /\ pc' = "tell" /\ ending' \in {ending, "failed"}
          /\ UNCHANGED <<queue, todo, job, side, run, raw, results, phase, summary, offset, world>>
      BY <1>20 DEF Save, SaveFails, memory, hand
    <2>4. ending \in Ended
      BY <2>3 DEF TypedInv, TypeOK, EndingKnown
    <2>5. QED
      BY <2>1, <2>2, <2>3, <2>4
      DEF TypedInv, TypeOK, InHand, EndingKnown, MeasuredSoFar, ChatLacksOne, RestartLeft, PC, Idle, AtWork, Ended, world
  <1>21. CASE Tell
    <2>1. job \in Job /\ IdOf[job] \in Id /\ ending \in Ended
      BY <1>21, HandTyped DEF Tell, AtWork, TypedInv, TypeOK, EndingKnown
    <2>2. results' \in Seq(Result)
      <3>1. [job |-> job, phase |-> ending] \in Result
        BY <2>1 DEF Result
      <3>2. QED
        BY <1>21, <3>1, AppendShape DEF Tell, TypedInv, TypeOK
    <2>3. phase' \in [Id -> Phase]
      BY <1>21, <2>1 DEF Tell, TypedInv, TypeOK, Phase
    <2>4. /\ pc' = "queue" /\ job' = NoJob /\ ending' = "none"
          /\ UNCHANGED <<queue, todo, side, run, raw, rawfile, summary, offset, world>>
      BY <1>21 DEF Tell
    <2>5. QED
      BY <2>2, <2>3, <2>4
      DEF TypedInv, TypeOK, InHand, EndingKnown, MeasuredSoFar, ChatLacksOne, RestartLeft, PC, Idle, AtWork, world
  <1>22. QED
    BY <1>1, <1>2, <1>3, <1>4, <1>5, <1>6, <1>7, <1>8, <1>9, <1>10, <1>11, <1>12, <1>13, <1>14,
       <1>15, <1>16, <1>17, <1>18, <1>19, <1>20, <1>21 DEF Next, Runner


-----------------------------------------------------------------------------
(* What a step does to the jobs                                             *)

\* Every job stays where it is; the one in hand may report that it goes on.
Stays ==
  /\ UNCHANGED <<queue, job, results>>
  /\ \/ phase' = phase
     \/ job \in Job /\ \E p \in Phase \ Ended : phase' = [phase EXCEPT ![IdOf[job]] = p]
  /\ pc' = "off" <=> pc = "off"
\* A start line puts the i-th job of the queue in front of the others.
ToFront(i) ==
  /\ todo # <<>> /\ Head(todo).action = "start"
  /\ queue' = <<queue[i]>> \o RemoveAt(queue, i)
  /\ UNCHANGED <<pc, job, results, phase>>
\* A skip or stop line takes the i-th job out of the queue.
Dropped(i) ==
  /\ todo # <<>> /\ Head(todo).action \in {"skip", "stop"} /\ Head(todo).job = IdOf[queue[i]]
  /\ queue' = RemoveAt(queue, i)
  /\ Skipped(queue[i])
  /\ job = NoJob /\ pc # "off" /\ UNCHANGED <<pc, job>>
TakenUp ==
  /\ queue # <<>> /\ job = NoJob
  /\ job' = Head(queue) /\ queue' = Tail(queue)
  /\ pc # "off" /\ pc' # "off" /\ UNCHANGED <<results, phase>>
\* The job in hand ends with phase p.
EndsWith(p) ==
  /\ job \in Job /\ job' = NoJob /\ p = ending
  /\ results' = Append(results, [job |-> job, phase |-> p])
  /\ phase' = [phase EXCEPT ![IdOf[job]] = p]
  /\ pc # "off" /\ pc' # "off" /\ UNCHANGED queue
Killed ==
  /\ job' = NoJob /\ pc' = "off"
  /\ UNCHANGED <<queue, results, phase>>
Anew ==
  /\ job = NoJob /\ queue' = Suite /\ results' = <<>> /\ phase' = [id \in Id |-> "queued"]
  /\ UNCHANGED job

JobStep ==
  \/ Stays \/ TakenUp \/ Killed \/ Anew
  \/ \E i \in DOMAIN queue : ToFront(i) \/ Dropped(i)
  \/ \E p \in Ended : EndsWith(p)

\* A line that is applied moves a job to the front, drops one, or finds none.
LEMMA ApplyMoves ==
  ASSUME TypedInv, Apply
  PROVE  Stays \/ \E i \in DOMAIN queue : ToFront(i) \/ Dropped(i)
  <1> DEFINE id == Head(todo).job
  <1>1. todo # <<>> /\ pc = "apply" /\ job = NoJob /\ UNCHANGED <<pc, job>> /\ queue \in Seq(Job)
    BY DEF Apply, hand, TypedInv, TypeOK, InHand, Idle, PC, AtWork
  <1>2. CASE Head(todo).action = "start" /\ MoveToFront(id)
    <2>1. CASE Positions(id) \ {1} = {}
      BY <1>1, <1>2, <2>1 DEF MoveToFront, Stays
    <2>2. CASE Positions(id) \ {1} # {}
      <3> DEFINE S == Positions(id) \ {1}
                 i == Least(S)
      <3>1. i \in DOMAIN queue
        <4>1. S \in SUBSET Positions(id) /\ S # {}
          BY <2>2
        <4> HIDE DEF S
        <4>2. QED
          BY <1>1, <4>1, FirstPosition
      <3>2. queue' = <<queue[i]>> \o RemoveAt(queue, i) /\ UNCHANGED <<results, phase>>
        BY <1>2, <2>2 DEF MoveToFront
      <3> HIDE DEF i
      <3>3. ToFront(i)
        BY <1>1, <1>2, <3>2 DEF ToFront
      <3>4. QED
        BY <3>1, <3>3
    <2>3. QED
      BY <2>1, <2>2
  <1>3. CASE Head(todo).action \in {"skip", "stop"} /\ DropQueued(id)
    <2>1. CASE Positions(id) = {}
      BY <1>1, <1>3, <2>1 DEF DropQueued, Stays
    <2>2. CASE Positions(id) # {}
      <3> DEFINE i == Least(Positions(id))
      <3>1. i \in DOMAIN queue /\ IdOf[queue[i]] = id
        BY <1>1, <2>2, FirstPosition
      <3>2. queue' = RemoveAt(queue, i) /\ Skipped(queue[i])
        BY <1>3, <2>2 DEF DropQueued
      <3> HIDE DEF i
      <3>3. Dropped(i)
        BY <1>1, <1>3, <3>1, <3>2 DEF Dropped
      <3>4. QED
        BY <3>1, <3>3
    <2>3. QED
      BY <2>1, <2>2
  <1>4. QED
    BY <1>2, <1>3 DEF Apply

LEMMA JobSteps == TypedInv /\ [Next]_vars => JobStep
  <1> SUFFICES ASSUME TypedInv, [Next]_vars PROVE JobStep
    OBVIOUS
  <1>1. ASSUME UNCHANGED <<queue, job, results, phase>>, pc' = "off" <=> pc = "off"
        PROVE  JobStep
    BY <1>1 DEF JobStep, Stays
  <1>2. CASE \/ Drain \/ Summarise \/ Accept \/ Warm \/ GoOn \/ NextSide
             \/ WriteControl \/ Switch \/ (\E s \in Side : StartServer(s) \/ StopServer(s))
             \/ UNCHANGED vars
    BY <1>1, <1>2 DEF Drain, Summarise, Accept, Warm, GoOn, NextSide, WriteControl, Switch,
         StartServer, StopServer, vars, memory, hand, files
  <1>3. CASE Refuse \/ ChatFails \/ Stop \/ Succeed \/ Save \/ SaveFails
    BY <1>1, <1>3 DEF Refuse, ChatFails, Stop, Succeed, Ending, Save, SaveFails, memory, hand
  <1>4. CASE WaitPort \/ SoloSeen \/ Measure
    <2>1. /\ UNCHANGED <<queue, job, results>> /\ pc # "off" /\ pc' # "off"
          /\ \E p \in {"waiting_port", "warming", "running"} : phase' = [phase EXCEPT ![IdOf[job]] = p]
      BY <1>4 DEF WaitPort, SoloSeen, Measure, memory, hand
    <2>2. job \in Job
      BY <1>4, HandTyped DEF WaitPort, SoloSeen, Measure, AtWork
    <2>3. {"waiting_port", "warming", "running"} \subseteq Phase \ Ended
      BY DEF Phase, Ended
    <2>4. QED
      BY <2>1, <2>2, <2>3 DEF JobStep, Stays
  <1>5. CASE Apply
    BY <1>5, ApplyMoves DEF JobStep
  <1>6. CASE Pop
    BY <1>6 DEF Pop, JobStep, TakenUp, files, TypedInv, InHand, Idle, PC, AtWork
  <1>7. CASE Tell
    <2>1. job \in Job /\ ending \in Ended
      BY <1>7, HandTyped DEF Tell, AtWork, TypedInv, TypeOK, EndingKnown
    <2>2. EndsWith(ending)
      BY <1>7, <2>1 DEF Tell, EndsWith
    <2>3. QED
      BY <2>1, <2>2 DEF JobStep
  <1>8. CASE Crash
    BY <1>8 DEF Crash, JobStep, Killed
  <1>9. CASE Restart
    BY <1>9 DEF Restart, JobStep, Anew, TypedInv, InHand, Idle, PC, AtWork
  <1>10. QED
    BY <1>2, <1>3, <1>4, <1>5, <1>6, <1>7, <1>8, <1>9 DEF Next, Runner

-----------------------------------------------------------------------------
(* Every job in one place                                                   *)

\* Moving an element of an injective sequence to the front permutes it.
LEMMA FrontShape ==
  ASSUME NEW S, NEW s \in Seq(S), IsInjective(s), NEW i \in DOMAIN s
  PROVE  LET q == InFront(s[i], RemoveAt(s, i)) IN
         /\ q \in Seq(S) /\ DOMAIN q = DOMAIN s
         /\ \A k \in DOMAIN q : \E m \in DOMAIN s : q[k] = s[m]
         /\ \A m \in DOMAIN s : \E k \in DOMAIN q : q[k] = s[m]
         /\ IsInjective(q)
  <1> DEFINE r == RemoveAt(s, i)
             q == InFront(s[i], r)
             at(k) == IF k = 1 THEN i ELSE IF k - 1 < i THEN k - 1 ELSE k
  <1>1. i \in 1 .. Len(s) /\ Len(s) \in Nat /\ DOMAIN s = 1 .. Len(s) /\ s[i] \in S
    BY SeqShape
  <1>2. r \in Seq(S) /\ DOMAIN r = 1 .. Len(s) - 1 /\ Len(r) = Len(s) - 1
    <2>1. r \in Seq(S) /\ DOMAIN r = 1 .. Len(s) - 1
      BY RemoveShape
    <2>2. DOMAIN r = 1 .. Len(r) /\ Len(r) \in Nat
      BY <2>1, SeqShape
    <2>3. Len(s) - 1 \in Nat
      BY <1>1
    <2>4. QED
      BY <2>1, <2>2, <2>3
  <1>3. \A k \in 1 .. Len(s) - 1 : r[k] = s[IF k < i THEN k ELSE k + 1]
    BY RemoveShape
  <1> HIDE DEF r
  <1>4. /\ q \in Seq(S) /\ DOMAIN q = 1 .. Len(s)
        /\ q[1] = s[i] /\ \A k \in 2 .. Len(s) : q[k] = r[k - 1]
    <2>1. Len(s) = Len(r) + 1
      BY <1>1, <1>2
    <2>2. s[i] \in S /\ r \in Seq(S)
      BY <1>1, <1>2
    <2>3. QED
      BY <2>1, <2>2, FrontAppend
  <1> HIDE DEF q
  <1>5. ASSUME NEW k \in 1 .. Len(s)
        PROVE  at(k) \in 1 .. Len(s) /\ q[k] = s[at(k)]
    <2>1. CASE k = 1
      BY <1>1, <1>4, <2>1
    <2>2. CASE k # 1
      <3>1. k - 1 \in 1 .. Len(s) - 1 /\ k \in 2 .. Len(s) /\ (k - 1) + 1 = k
        BY <1>1, <2>2
      <3>2. q[k] = s[IF k - 1 < i THEN k - 1 ELSE (k - 1) + 1]
        BY <1>3, <1>4, <3>1
      <3>3. at(k) = (IF k - 1 < i THEN k - 1 ELSE (k - 1) + 1) /\ at(k) \in 1 .. Len(s)
        BY <1>1, <2>2, <3>1
      <3>4. QED
        BY <3>2, <3>3
    <2>3. QED
      BY <2>1, <2>2
  <1>6. ASSUME NEW m \in DOMAIN s PROVE \E k \in 1 .. Len(s) : at(k) = m
    <2>1. CASE m = i
      BY <1>1, <2>1
    <2>2. CASE m < i
      <3>1. m + 1 \in 1 .. Len(s) /\ at(m + 1) = m
        BY <1>1, <2>2
      <3>2. QED
        BY <3>1
    <2>3. CASE m > i
      <3>1. m \in 1 .. Len(s) /\ at(m) = m
        BY <1>1, <2>3
      <3>2. QED
        BY <3>1
    <2>4. QED
      BY <1>1, <2>1, <2>2, <2>3
  <1>7. ASSUME NEW k \in 1 .. Len(s), NEW l \in 1 .. Len(s), at(k) = at(l) PROVE k = l
    BY <1>1, <1>7
  <1> HIDE DEF at
  <1>8. IsInjective(q)
    <2>1. ASSUME NEW k \in 1 .. Len(s), NEW l \in 1 .. Len(s), q[k] = q[l] PROVE k = l
      <3>1. at(k) \in DOMAIN s /\ at(l) \in DOMAIN s /\ s[at(k)] = s[at(l)]
        BY <1>1, <1>5, <2>1
      <3>2. at(k) = at(l)
        BY <3>1 DEF IsInjective
      <3>3. QED
        BY <1>7, <3>2
    <2>2. QED
      BY <1>4, <2>1 DEF IsInjective
  <1>9. \A k \in DOMAIN q : \E m \in DOMAIN s : q[k] = s[m]
    BY <1>1, <1>4, <1>5
  <1>10. \A m \in DOMAIN s : \E k \in DOMAIN q : q[k] = s[m]
    <2>1. ASSUME NEW m \in DOMAIN s PROVE \E k \in DOMAIN q : q[k] = s[m]
      <3>1. PICK k \in 1 .. Len(s) : at(k) = m
        BY <1>6
      <3>2. q[k] = s[m]
        BY <1>5, <3>1
      <3>3. QED
        BY <1>4, <3>2
    <2>2. QED
      BY <2>1
  <1>11. QED
    BY <1>1, <1>4, <1>8, <1>9, <1>10 DEF q, r

\* Taking an element out of an injective sequence takes out nothing else.
LEMMA WithoutShape ==
  ASSUME NEW S, NEW s \in Seq(S), IsInjective(s), NEW i \in DOMAIN s
  PROVE  LET q == RemoveAt(s, i) IN
         /\ q \in Seq(S) /\ IsInjective(q)
         /\ \A k \in DOMAIN q : \E m \in DOMAIN s : m # i /\ q[k] = s[m]
         /\ \A m \in DOMAIN s : m # i => \E k \in DOMAIN q : q[k] = s[m]
         /\ \A k, l \in DOMAIN q : k < l => \E m, n \in DOMAIN s : m < n /\ q[k] = s[m] /\ q[l] = s[n]
  <1> DEFINE q     == RemoveAt(s, i)
             at(k) == IF k < i THEN k ELSE k + 1
  <1>1. i \in 1 .. Len(s) /\ Len(s) \in Nat /\ DOMAIN s = 1 .. Len(s)
    BY SeqShape
  <1>2. q \in Seq(S) /\ DOMAIN q = 1 .. Len(s) - 1 /\ \A k \in DOMAIN q : q[k] = s[at(k)]
    BY RemoveShape
  <1> HIDE DEF q
  <1>3. ASSUME NEW k \in DOMAIN q PROVE at(k) \in DOMAIN s /\ at(k) # i
    BY <1>1, <1>2
  <1>4. ASSUME NEW k \in DOMAIN q, NEW l \in DOMAIN q
        PROVE  (k < l => at(k) < at(l)) /\ (at(k) = at(l) => k = l)
    BY <1>1, <1>2
  <1>5. ASSUME NEW m \in DOMAIN s, m # i PROVE \E k \in DOMAIN q : at(k) = m
    <2>1. CASE m < i
      <3>1. m \in DOMAIN q /\ at(m) = m
        BY <1>1, <1>2, <2>1
      <3>2. QED
        BY <3>1
    <2>2. CASE m > i
      <3>1. m - 1 \in DOMAIN q /\ at(m - 1) = m
        BY <1>1, <1>2, <2>2
      <3>2. QED
        BY <3>1
    <2>3. QED
      BY <1>1, <1>5, <2>1, <2>2
  <1> HIDE DEF at
  <1>6. IsInjective(q)
    BY <1>2, <1>3, <1>4 DEF IsInjective
  <1>7. \A k \in DOMAIN q : \E m \in DOMAIN s : m # i /\ q[k] = s[m]
    BY <1>2, <1>3
  <1>8. \A m \in DOMAIN s : m # i => \E k \in DOMAIN q : q[k] = s[m]
    BY <1>2, <1>5
  <1>9. \A k, l \in DOMAIN q : k < l => \E m, n \in DOMAIN s : m < n /\ q[k] = s[m] /\ q[l] = s[n]
    BY <1>2, <1>3, <1>4
  <1>10. QED
    BY <1>2, <1>6, <1>7, <1>8, <1>9 DEF q

\* A job added to the results that was not among them keeps them apart.
LEMMA ResultAdded ==
  ASSUME results \in Seq(Result), NEW r \in Result, results' = Append(results, r),
         \A i, k \in DOMAIN results : results[i].job = results[k].job => i = k,
         \A k \in DOMAIN results : results[k].job # r.job
  PROVE  /\ \A i, k \in DOMAIN results' : results'[i].job = results'[k].job => i = k
         /\ \A k \in DOMAIN results' : \/ k \in DOMAIN results /\ results'[k] = results[k]
                                       \/ results'[k] = r
         /\ \A k \in DOMAIN results : k \in DOMAIN results' /\ results'[k] = results[k]
         /\ \E k \in DOMAIN results' : results'[k] = r
  <1> DEFINE n == Len(results)
  <1>1. n \in Nat /\ DOMAIN results = 1 .. n
    BY SeqShape
  <1>2. /\ DOMAIN results' = 1 .. n + 1 /\ results'[n + 1] = r
        /\ \A k \in DOMAIN results : results'[k] = results[k]
    BY AppendShape
  <1> HIDE DEF n
  <1>3. \A k \in DOMAIN results' : \/ k \in DOMAIN results /\ results'[k] = results[k]
                                   \/ k = n + 1 /\ results'[k] = r
    BY <1>1, <1>2
  <1>4. n + 1 \in DOMAIN results' /\ \A k \in DOMAIN results : k \in DOMAIN results'
    BY <1>1, <1>2
  <1>5. \A i, k \in DOMAIN results' : results'[i].job = results'[k].job => i = k
    BY <1>3
  <1>6. QED
    BY <1>2, <1>3, <1>4, <1>5

LEMMA PlacesInit == Init => PlacesInv
  <1> SUFFICES ASSUME Init PROVE PlacesInv
    OBVIOUS
  <1>1. /\ queue = Suite /\ results = <<>> /\ job = NoJob
        /\ DOMAIN results = {}
    BY DEF Init
  <1>2. /\ Suite \in Seq(Job) /\ IsInjective(Suite) /\ NoJob \notin Job
        /\ \A j \in Job : \E i \in DOMAIN Suite : Suite[i] = j
    BY SuiteAssumption DEF ToSet
  <1>3. \A i \in DOMAIN Suite : Suite[i] \in Job
    BY <1>2, SeqShape
  <1>4. JobsApart /\ NoneLost
    BY <1>1, <1>2, <1>3 DEF JobsApart, NoneLost
  <1>5. QED
    BY <1>4, TypedInit DEF PlacesInv

\* However a step moves the jobs, none is doubled and none is lost.
LEMMA PlacesStep == PlacesInv /\ [Next]_vars => PlacesInv'
  <1> SUFFICES ASSUME PlacesInv, [Next]_vars PROVE PlacesInv'
    OBVIOUS
  <1>1. TypedInv' /\ JobStep
    BY TypedStep, JobSteps DEF PlacesInv
  <1>2. /\ queue \in Seq(Job) /\ results \in Seq(Result) /\ job \in Job \cup {NoJob}
        /\ NoJob \notin Job /\ \A i \in DOMAIN queue : queue[i] \in Job
        /\ \A k \in DOMAIN results : results[k].job \in Job
    <2>1. queue \in Seq(Job) /\ results \in Seq(Result) /\ job \in Job \cup {NoJob}
      BY DEF PlacesInv, TypedInv, TypeOK
    <2>2. \A k \in DOMAIN results : results[k] \in Result
      BY <2>1, SeqShape
    <2>3. QED
      BY <2>1, <2>2, SeqShape, SuiteAssumption DEF Result
  <1>3. JobsApart /\ NoneLost /\ IsInjective(queue)
    BY DEF PlacesInv, JobsApart
  <1>4. CASE Stays
    BY <1>1, <1>3, <1>4 DEF Stays, PlacesInv, JobsApart, NoneLost
  <1>5. CASE Killed
    BY <1>1, <1>2, <1>3, <1>5 DEF Killed, PlacesInv, JobsApart, NoneLost
  <1>6. CASE Anew
    <2>1. /\ queue' = Suite /\ results' = <<>> /\ job' = NoJob /\ DOMAIN results' = {}
      BY <1>6 DEF Anew
    <2>2. /\ Suite \in Seq(Job) /\ IsInjective(Suite)
          /\ \A j \in Job : \E i \in DOMAIN Suite : Suite[i] = j
      BY SuiteAssumption DEF ToSet
    <2>3. \A i \in DOMAIN Suite : Suite[i] \in Job
      BY <2>2, SeqShape
    <2>4. QED
      BY <1>1, <1>2, <2>1, <2>2, <2>3 DEF PlacesInv, JobsApart, NoneLost
  <1>7. CASE TakenUp
    <2>1. /\ job = NoJob /\ job' = queue[1] /\ queue' = Tail(queue) /\ results' = results
          /\ 1 \in DOMAIN queue /\ DOMAIN queue = 1 .. Len(queue) /\ Len(queue) \in Nat
          /\ DOMAIN queue' = 1 .. Len(queue) - 1
          /\ \A i \in DOMAIN queue' : queue'[i] = queue[i + 1]
          /\ pc # "off"
      BY <1>2, <1>7, TailShape, SeqShape DEF TakenUp
    <2>2. \A i \in DOMAIN queue' : i + 1 \in DOMAIN queue /\ i + 1 # 1
      BY <2>1
    <2>3. \A m \in DOMAIN queue : m # 1 => m - 1 \in DOMAIN queue' /\ queue'[m - 1] = queue[m]
      BY <2>1
    <2>4. IsInjective(queue')
      <3>1. ASSUME NEW i \in DOMAIN queue', NEW k \in DOMAIN queue', queue'[i] = queue'[k] PROVE i = k
        <4>1. i + 1 = k + 1
          BY <1>3, <2>1, <2>2, <3>1 DEF IsInjective
        <4>2. QED
          BY <2>1, <4>1
      <3>2. QED
        BY <3>1 DEF IsInjective
    <2>5. JobsApart'
      BY <1>2, <1>3, <2>1, <2>2, <2>4 DEF JobsApart, IsInjective
    <2>6. NoneLost'
      <3> SUFFICES ASSUME pc' # "off", NEW j \in Job, j # job',
                          ~ \E k \in DOMAIN results' : results'[k].job = j
                   PROVE  \E k \in DOMAIN queue' : queue'[k] = j
        BY DEF NoneLost
      <3>1. j # job /\ ~ \E k \in DOMAIN results : results[k].job = j
        BY <1>2, <2>1
      <3>2. PICK m \in DOMAIN queue : queue[m] = j
        BY <1>3, <2>1, <3>1 DEF NoneLost
      <3>3. m # 1
        BY <2>1, <3>2
      <3>4. QED
        BY <2>3, <3>2, <3>3
    <2>7. QED
      BY <1>1, <2>5, <2>6 DEF PlacesInv
  <1>8. ASSUME NEW i \in DOMAIN queue, ToFront(i) PROVE PlacesInv'
    <2>1. /\ queue' = InFront(queue[i], RemoveAt(queue, i)) /\ UNCHANGED <<job, results, pc>>
      BY <1>8 DEF ToFront, InFront
    <2>2. /\ DOMAIN queue' = DOMAIN queue /\ IsInjective(queue')
          /\ \A k \in DOMAIN queue' : \E m \in DOMAIN queue : queue'[k] = queue[m]
          /\ \A m \in DOMAIN queue : \E k \in DOMAIN queue' : queue'[k] = queue[m]
      <3> DEFINE q == InFront(queue[i], RemoveAt(queue, i))
      <3>1. /\ DOMAIN q = DOMAIN queue /\ IsInjective(q)
            /\ \A k \in DOMAIN q : \E m \in DOMAIN queue : q[k] = queue[m]
            /\ \A m \in DOMAIN queue : \E k \in DOMAIN q : q[k] = queue[m]
        BY <1>2, <1>3, FrontShape
      <3>2. queue' = q
        BY <2>1
      <3> HIDE DEF q
      <3>3. QED
        BY <3>1, <3>2
    <2>3. JobsApart'
      BY <1>3, <2>1, <2>2 DEF JobsApart
    <2>4. NoneLost'
      <3> SUFFICES ASSUME pc' # "off", NEW j \in Job, j # job',
                          ~ \E k \in DOMAIN results' : results'[k].job = j
                   PROVE  \E k \in DOMAIN queue' : queue'[k] = j
        BY DEF NoneLost
      <3>1. PICK m \in DOMAIN queue : queue[m] = j
        BY <1>3, <2>1 DEF NoneLost
      <3>2. QED
        BY <2>2, <3>1
    <2>5. QED
      BY <1>1, <2>3, <2>4 DEF PlacesInv
  <1>9. ASSUME NEW i \in DOMAIN queue, Dropped(i) PROVE PlacesInv'
    <2> DEFINE r == [job |-> queue[i], phase |-> "skipped"]
    <2>1. /\ queue' = RemoveAt(queue, i) /\ results' = Append(results, r) /\ UNCHANGED <<job, pc>>
          /\ job = NoJob
      BY <1>9 DEF Dropped, Skipped
    <2>2. r \in Result /\ r.job = queue[i]
      BY <1>2 DEF Result, Ended
    <2> HIDE DEF r
    <2>3. /\ IsInjective(queue')
          /\ \A k \in DOMAIN queue' : \E m \in DOMAIN queue : m # i /\ queue'[k] = queue[m]
          /\ \A m \in DOMAIN queue : m # i => \E k \in DOMAIN queue' : queue'[k] = queue[m]
      BY <1>2, <1>3, <2>1, WithoutShape
    <2>4. /\ \A k, m \in DOMAIN results' : results'[k].job = results'[m].job => k = m
          /\ \A k \in DOMAIN results' : \/ k \in DOMAIN results /\ results'[k] = results[k]
                                        \/ results'[k] = r
          /\ \A k \in DOMAIN results : k \in DOMAIN results' /\ results'[k] = results[k]
          /\ \E k \in DOMAIN results' : results'[k] = r
      BY <1>2, <1>3, <2>1, <2>2, ResultAdded DEF JobsApart
    <2>5. JobsApart'
      BY <1>2, <1>3, <2>1, <2>2, <2>3, <2>4 DEF JobsApart, IsInjective
    <2>6. NoneLost'
      <3> SUFFICES ASSUME pc' # "off", NEW j \in Job, ~ \E k \in DOMAIN results' : results'[k].job = j
                   PROVE  \E k \in DOMAIN queue' : queue'[k] = j
        BY DEF NoneLost
      <3>1. j # job /\ ~ \E k \in DOMAIN results : results[k].job = j
        BY <1>2, <2>1, <2>4
      <3>2. PICK m \in DOMAIN queue : queue[m] = j
        BY <1>3, <2>1, <3>1 DEF NoneLost
      <3>3. m # i
        BY <2>2, <2>4, <3>2
      <3>4. QED
        BY <2>3, <3>2, <3>3
    <2>7. QED
      BY <1>1, <2>5, <2>6 DEF PlacesInv
  <1>10. ASSUME NEW p \in Ended, EndsWith(p) PROVE PlacesInv'
    <2> DEFINE r == [job |-> job, phase |-> p]
    <2>1. /\ job \in Job /\ job' = NoJob /\ queue' = queue /\ results' = Append(results, r) /\ pc # "off"
      BY <1>10 DEF EndsWith
    <2>2. r \in Result /\ r.job = job
      BY <2>1 DEF Result
    <2> HIDE DEF r
    <2>3. /\ \A k, m \in DOMAIN results' : results'[k].job = results'[m].job => k = m
          /\ \A k \in DOMAIN results' : \/ k \in DOMAIN results /\ results'[k] = results[k]
                                        \/ results'[k] = r
          /\ \A k \in DOMAIN results : k \in DOMAIN results' /\ results'[k] = results[k]
          /\ \E k \in DOMAIN results' : results'[k] = r
      BY <1>2, <1>3, <2>1, <2>2, ResultAdded DEF JobsApart
    <2>4. JobsApart'
      BY <1>2, <1>3, <2>1, <2>2, <2>3 DEF JobsApart
    <2>5. NoneLost'
      <3> SUFFICES ASSUME pc' # "off", NEW j \in Job, ~ \E k \in DOMAIN results' : results'[k].job = j
                   PROVE  \E k \in DOMAIN queue' : queue'[k] = j
        BY DEF NoneLost
      <3>1. j # job /\ ~ \E k \in DOMAIN results : results[k].job = j
        BY <2>2, <2>3
      <3>2. QED
        BY <1>3, <2>1, <3>1 DEF NoneLost
    <2>6. QED
      BY <1>1, <2>4, <2>5 DEF PlacesInv
  <1>11. QED
    BY <1>1, <1>4, <1>5, <1>6, <1>7, <1>8, <1>9, <1>10 DEF JobStep

\* The variables of a run keep their types whatever the user, the servers and
\* restarts do (main, run_job and bench_side of bench_runner.py).
THEOREM RunnerTypeCorrect == Spec => []TypeOK
  <1>1. TypedInv => TypeOK
    BY DEF TypedInv
  <1>2. QED
    BY <1>1, TypedInit, TypedStep, PTL DEF Spec

-----------------------------------------------------------------------------
(* Counting                                                                 *)

\* As many elements as places, when no element is in two places.
LEMMA PlacesCounted ==
  ASSUME NEW n \in Nat, NEW f, DOMAIN f = 1 .. n, IsInjective(f)
  PROVE  LET S == {f[i] : i \in 1 .. n} IN IsFiniteSet(S) /\ Cardinality(S) = n
  <1> DEFINE S == {f[i] : i \in 1 .. n}
             g == [i \in 1 .. n |-> f[i]]
  <1>1. g \in [1 .. n -> S] /\ \A a, b \in 1 .. n : g[a] = g[b] => a = b
    BY DEF IsInjective
  <1>2. \A t \in S : \E i \in 1 .. n : g[i] = t
    OBVIOUS
  <1>3. g \in Bijection(1 .. n, S)
    BY <1>1, <1>2 DEF Bijection, Injection, Surjection, IsInjective
  <1>4. IsFiniteSet(1 .. n) /\ Cardinality(1 .. n) = n
    BY FS_Interval
  <1>5. ExistsBijection(1 .. n, S)
    BY <1>3 DEF ExistsBijection
  <1>6. QED
    BY <1>4, <1>5, FS_Bijection

LEMMA ApartCounted ==
  ASSUME NEW S, NEW T, IsFiniteSet(S), IsFiniteSet(T), S \cap T = {}
  PROVE  IsFiniteSet(S \cup T) /\ Cardinality(S \cup T) = Cardinality(S) + Cardinality(T)
  <1>1. Cardinality(S) \in Nat /\ Cardinality(T) \in Nat
    BY FS_CardinalityType
  <1>2. Cardinality(S \cap T) = 0
    BY FS_EmptySet
  <1>3. /\ IsFiniteSet(S \cup T)
        /\ Cardinality(S \cup T) = Cardinality(S) + Cardinality(T) - Cardinality(S \cap T)
    BY FS_Union
  <1>4. QED
    BY <1>1, <1>2, <1>3

\* In every state in which the runner lives each job is in one place.
LEMMA OnePlaceEach == PlacesInv => EveryJobSomewhere
  <1> SUFFICES ASSUME PlacesInv, pc # "off"
               PROVE  /\ Len(queue) + Len(results) + Cardinality({job} \ {NoJob}) = Cardinality(Job)
                      /\ ToSet(queue) \cup Jobs(results) \cup ({job} \ {NoJob}) = Job
    BY DEF EveryJobSomewhere
  <1> DEFINE Q == ToSet(queue)
             R == Jobs(results)
             H == {job} \ {NoJob}
  <1>1. /\ queue \in Seq(Job) /\ results \in Seq(Result) /\ job \in Job \cup {NoJob}
        /\ NoJob \notin Job /\ JobsApart /\ NoneLost
    BY SuiteAssumption DEF PlacesInv, TypedInv, TypeOK
  <1>2. /\ DOMAIN queue = 1 .. Len(queue) /\ Len(queue) \in Nat
        /\ DOMAIN results = 1 .. Len(results) /\ Len(results) \in Nat
        /\ \A i \in DOMAIN queue : queue[i] \in Job
        /\ \A k \in DOMAIN results : results[k].job \in Job
    <2>1. \A k \in DOMAIN results : results[k] \in Result
      BY <1>1, SeqShape
    <2>2. QED
      BY <1>1, <2>1, SeqShape DEF Result
  <1>3. IsFiniteSet(Q) /\ Cardinality(Q) = Len(queue)
    <2>1. Q = {queue[i] : i \in 1 .. Len(queue)} /\ IsInjective(queue)
      BY <1>1, <1>2 DEF ToSet, JobsApart
    <2> HIDE DEF Q
    <2>2. QED
      BY <1>2, <2>1, PlacesCounted
  <1>4. IsFiniteSet(R) /\ Cardinality(R) = Len(results)
    <2> DEFINE f == [k \in 1 .. Len(results) |-> results[k].job]
    <2>1. DOMAIN f = 1 .. Len(results) /\ IsInjective(f)
      BY <1>1, <1>2 DEF JobsApart, IsInjective
    <2>2. R = {f[i] : i \in 1 .. Len(results)}
      BY <1>2 DEF Jobs
    <2> HIDE DEF f
    <2>3. QED
      BY <1>2, <2>1, <2>2, PlacesCounted
  <1>5. IsFiniteSet(H) /\ Cardinality(H) \in Nat
    <2>1. CASE H = {}
      BY <2>1, FS_EmptySet
    <2>2. CASE H = {job}
      <3>1. IsFiniteSet({job}) /\ Cardinality({job}) = 1
        BY FS_Singleton
      <3>2. QED
        BY <2>2, <3>1
    <2>3. QED
      BY <2>1, <2>2
  <1>6. Q \cap R = {} /\ (Q \cup R) \cap H = {}
    BY <1>1 DEF JobsApart, ToSet, Jobs
  <1>7. Q \cup R \cup H = Job
    BY <1>1, <1>2 DEF NoneLost, ToSet, Jobs
  <1> HIDE DEF Q, R, H
  <1>8. /\ IsFiniteSet(Q \cup R)
        /\ Cardinality(Q \cup R) = Len(queue) + Len(results)
    <2>1. Q \cap R = {}
      BY <1>6
    <2>2. IsFiniteSet(Q \cup R) /\ Cardinality(Q \cup R) = Cardinality(Q) + Cardinality(R)
      BY <1>3, <1>4, <2>1, ApartCounted
    <2>3. QED
      BY <1>3, <1>4, <2>2
  <1>9. Cardinality(Job) = Len(queue) + Len(results) + Cardinality(H)
    BY <1>5, <1>6, <1>7, <1>8, ApartCounted
  <1>10. QED
    BY <1>7, <1>9 DEF Q, R, H

\* While the runner lives every entry of the suites is in the queue, in the hands of
\* run_job or in the results, and in only one of them, whether or not it shares its
\* id with others (the loop of main and the results it appends, bench_runner.py).
THEOREM JobsSomewhere == Spec => []EveryJobSomewhere
  BY PlacesInit, PlacesStep, OnePlaceEach, PTL DEF Spec

-----------------------------------------------------------------------------
(* Events and raw files                                                     *)

LEMMA BackedInit == Init => BackedInv
  <1> SUFFICES ASSUME Init PROVE BackedInv
    OBVIOUS
  <1>1. pc = "queue" /\ phase = [id \in Id |-> "queued"]
    BY DEF Init
  <1>2. QED
    BY <1>1, TypedInit DEF BackedInv, PendingBacked, EventsBacked

\* An id whose last event is of a job under way says nothing of its raw file.
LEMMA UnendedBacked ==
  ASSUME EventsBacked, NEW id \in Id, phase'[id] \notin {"ok", "stopped"},
         \A i \in Id : i # id => phase'[i] = phase[i] /\ rawfile'[i] = rawfile[i]
  PROVE  EventsBacked'
  BY DEF EventsBacked

LEMMA BackedStep == BackedInv /\ [Next]_vars => BackedInv'
  <1> SUFFICES ASSUME BackedInv, [Next]_vars PROVE BackedInv'
    OBVIOUS
  <1>1. TypedInv /\ TypedInv' /\ PendingBacked /\ EventsBacked
    BY TypedStep DEF BackedInv
  <1>2. SUFFICES PendingBacked' /\ EventsBacked'
    BY <1>1 DEF BackedInv
  <1>3. /\ phase \in [Id -> Phase] /\ rawfile \in [Id -> Counts \cup {Torn}] /\ raw \in Counts
        /\ pc \in AtWork => job \in Job /\ IdOf[job] \in Id
    BY <1>1, HandTyped DEF TypedInv, TypeOK
  <1>4. CASE \/ Drain \/ Pop \/ Summarise \/ Accept \/ NextSide \/ Restart
    <2>1. pc' \notin {"warm", "check", "chat", "save", "tell"}
      BY <1>4 DEF Drain, Pop, Summarise, Accept, NextSide, Restart
    <2>2. rawfile' = rawfile /\ (phase' = phase \/ phase' = [id \in Id |-> "queued"])
      BY <1>4 DEF Drain, Pop, Summarise, Accept, NextSide, Restart, files
    <2>3. QED
      BY <1>1, <2>1, <2>2 DEF PendingBacked, EventsBacked
  <1>5. CASE WriteControl \/ Switch \/ (\E s \in Side : StartServer(s) \/ StopServer(s)) \/ UNCHANGED vars
    <2>1. UNCHANGED <<pc, job, raw, ending, phase, rawfile>>
      BY <1>5 DEF WriteControl, Switch, StartServer, StopServer, vars, memory, hand, files
    <2>2. QED
      BY <1>1, <2>1 DEF PendingBacked, EventsBacked
  <1>6. CASE Warm \/ GoOn
    <2>1. /\ pc \in {"warm", "check"} /\ pc' \in {"check", "chat"}
          /\ UNCHANGED <<job, raw, ending, phase, rawfile>>
      BY <1>6 DEF Warm, GoOn, memory, hand, files
    <2>2. QED
      BY <1>1, <2>1 DEF PendingBacked, EventsBacked
  <1>7. CASE WaitPort \/ SoloSeen \/ Measure
    <2>1. /\ pc \in AtWork /\ pc' \in {"solo", "warm", "check"} /\ UNCHANGED <<job, rawfile>>
          /\ \E p \in {"waiting_port", "warming", "running"} : phase' = [phase EXCEPT ![IdOf[job]] = p]
      BY <1>7 DEF WaitPort, SoloSeen, Measure, memory, hand, AtWork
    <2>2. phase'[IdOf[job]] \notin Ended /\ \A i \in Id : i # IdOf[job] => phase'[i] = phase[i]
      BY <1>3, <2>1 DEF Ended
    <2>3. PendingBacked'
      BY <2>1, <2>2 DEF PendingBacked
    <2>4. EventsBacked'
      BY <1>1, <1>3, <2>1, <2>2, UnendedBacked DEF Ended
    <2>5. QED
      BY <2>3, <2>4
  <1>8. CASE Apply
    <2>1. pc' = "apply" /\ rawfile' = rawfile
      BY <1>8 DEF Apply
    <2>2. CASE phase' = phase
      BY <1>1, <2>1, <2>2 DEF PendingBacked, EventsBacked
    <2>3. ASSUME NEW i \in DOMAIN queue, Dropped(i)
          PROVE  EventsBacked'
      <3>1. queue[i] \in Job /\ IdOf[queue[i]] \in Id
        BY <1>1, SeqShape, IdAssumption DEF TypedInv, TypeOK
      <3>2. phase' = [phase EXCEPT ![IdOf[queue[i]]] = "skipped"]
        BY <2>3 DEF Dropped, Skipped
      <3>3. phase'[IdOf[queue[i]]] = "skipped" /\ \A k \in Id : k # IdOf[queue[i]] => phase'[k] = phase[k]
        BY <1>3, <3>1, <3>2
      <3>4. QED
        BY <1>1, <2>1, <3>1, <3>3, UnendedBacked
    <2>4. phase' = phase \/ \E i \in DOMAIN queue : Dropped(i)
      <3>1. Stays => phase' = phase
        BY <1>1, <1>8, SuiteAssumption DEF Stays, Apply, TypedInv, InHand, Idle, PC, AtWork
      <3>2. QED
        BY <1>1, <1>8, <3>1, ApplyMoves DEF ToFront
    <2>5. QED
      BY <2>1, <2>2, <2>3, <2>4 DEF PendingBacked
  <1>9. CASE Refuse
    BY <1>1, <1>9 DEF Refuse, Ending, PendingBacked, EventsBacked
  <1>10. CASE ChatFails \/ Stop \/ Succeed
    <2>1. /\ pc \in {"warm", "check", "chat"} /\ pc' = "save" /\ UNCHANGED <<job, raw, phase, rawfile>>
      BY <1>10 DEF ChatFails, Stop, Succeed, Ending
    <2>2. CASE ChatFails
      BY <1>1, <2>1, <2>2 DEF ChatFails, Ending, PendingBacked, EventsBacked
    <2>3. CASE Stop
      <3>1. side \in Side /\ raw[side] < Runs
        BY <1>1, <2>3 DEF Stop, TypedInv, TypeOK, MeasuredSoFar, AtWork
      <3>2. QED
        BY <1>1, <2>1, <2>3, <3>1 DEF Stop, Ending, PendingBacked, EventsBacked
    <2>4. CASE Succeed
      <3>1. raw[First] = Runs /\ raw[Second] = Runs
        BY <1>1, <2>4 DEF Succeed, TypedInv, MeasuredSoFar, AtWork
      <3>2. raw = Full
        BY <1>3, <3>1, SideAssumption DEF Counts, Full
      <3>3. QED
        BY <1>1, <2>1, <2>4, <3>2 DEF Succeed, Ending, PendingBacked, EventsBacked, Full
    <2>5. QED
      BY <1>10, <2>2, <2>3, <2>4
  <1>11. CASE Save \/ SaveFails
    <2>1. /\ pc = "save" /\ pc' = "tell" /\ UNCHANGED <<job, raw, phase>> /\ job \in Job /\ IdOf[job] \in Id
      BY <1>3, <1>11 DEF Save, SaveFails, memory, hand, AtWork
    <2>2. phase'[IdOf[job]] \notin Ended
      BY <1>1, <2>1 DEF PendingBacked
    <2>3. \A i \in Id : i # IdOf[job] => rawfile'[i] = rawfile[i]
      BY <1>3, <1>11 DEF Save, SaveFails
    <2>4. EventsBacked'
      BY <1>1, <2>1, <2>2, <2>3, UnendedBacked DEF Ended
    <2>5. CASE Save
      <3>1. rawfile'[IdOf[job]] = raw /\ ending' = ending
        BY <1>3, <2>1, <2>5 DEF Save, memory, hand
      <3>2. PendingBacked'
        BY <1>1, <1>3, <2>1, <3>1 DEF PendingBacked
      <3>3. QED
        BY <2>4, <3>2
    <2>6. CASE SaveFails
      BY <2>1, <2>4, <2>6 DEF SaveFails, PendingBacked
    <2>7. QED
      BY <1>11, <2>5, <2>6
  <1>12. CASE Tell
    <2>1. /\ pc = "tell" /\ pc' = "queue" /\ rawfile' = rawfile /\ phase' = [phase EXCEPT ![IdOf[job]] = ending]
          /\ IdOf[job] \in Id
      BY <1>3, <1>12 DEF Tell, AtWork
    <2>2. phase'[IdOf[job]] = ending /\ \A i \in Id : i # IdOf[job] => phase'[i] = phase[i]
      BY <1>3, <2>1
    <2>3. EventsBacked'
      BY <1>1, <2>1, <2>2 DEF EventsBacked, PendingBacked
    <2>4. QED
      BY <2>1, <2>3 DEF PendingBacked
  <1>13. CASE Crash
    <2>1. pc' = "off" /\ phase' = phase
      BY <1>13 DEF Crash
    <2>2. CASE rawfile' = rawfile
      BY <1>1, <2>1, <2>2 DEF PendingBacked, EventsBacked
    <2>3. CASE pc = "save" /\ rawfile' = [rawfile EXCEPT ![IdOf[job]] = Torn]
      <3>1. IdOf[job] \in Id /\ phase'[IdOf[job]] \notin Ended
        BY <1>1, <1>3, <2>1, <2>3 DEF PendingBacked, AtWork
      <3>2. \A i \in Id : i # IdOf[job] => rawfile'[i] = rawfile[i]
        BY <1>3, <2>3
      <3>3. QED
        BY <1>1, <2>1, <3>1, <3>2, UnendedBacked DEF PendingBacked, Ended
    <2>4. QED
      BY <1>13, <2>2, <2>3 DEF Crash
  <1>14. QED
    BY <1>4, <1>5, <1>6, <1>7, <1>8, <1>9, <1>10, <1>11, <1>12, <1>13 DEF Next, Runner

\* Whenever the runner is killed and whatever becomes of a write, the measurements
\* that a job's last event speaks of are in its raw file: write_text comes before
\* emit, and a write that failed makes the job a failed one (run_job,
\* bench_runner.py).
THEOREM EventsAreBacked == Spec => []EventsBacked
  <1>1. BackedInv => EventsBacked
    BY DEF BackedInv
  <1>2. QED
    BY <1>1, BackedInit, BackedStep, PTL DEF Spec

-----------------------------------------------------------------------------
(* What is reported                                                         *)

LEMMA OutcomeInit == Init => OutcomeInv
  <1> SUFFICES ASSUME Init PROVE OutcomeInv
    OBVIOUS
  <1>1. /\ results = <<>> /\ summary = <<>> /\ job = NoJob /\ pc = "queue" /\ DOMAIN results = {}
        /\ phase = [id \in Id |-> "queued"] /\ \A j \in Job : IdOf[j] \in Id
    BY IdAssumption DEF Init
  <1>2. QED
    BY <1>1, PlacesInit DEF OutcomeInv, LatestTold, SoleUnended, SummaryIsLatest, Ended

\* The summary is written once, as the results are, and nothing follows it.
LEMMA SummaryStep == OutcomeInv /\ [Next]_vars => SummaryIsLatest'
  <1> SUFFICES ASSUME OutcomeInv, [Next]_vars PROVE SummaryIsLatest'
    OBVIOUS
  <1>1. SummaryIsLatest
    BY DEF OutcomeInv
  <1>2. CASE UNCHANGED <<summary, results, queue, pc>>
    BY <1>1, <1>2 DEF SummaryIsLatest
  <1>3. CASE UNCHANGED summary /\ pc # "done" /\ pc' # "done"
    BY <1>1, <1>3 DEF SummaryIsLatest
  <1>4. CASE Summarise
    BY <1>1, <1>4 DEF Summarise, SummaryIsLatest, memory
  <1>5. CASE \/ Drain \/ Apply \/ Pop \/ Accept \/ WaitPort \/ SoloSeen \/ Warm \/ GoOn \/ Measure
             \/ NextSide \/ Save \/ SaveFails \/ Tell \/ Crash \/ Restart
    BY <1>3, <1>5 DEF Drain, Apply, Pop, Accept, WaitPort, SoloSeen, Warm, GoOn, Measure, NextSide,
         Save, SaveFails, Tell, Crash, Restart, memory, hand, files
  <1>6. CASE Refuse \/ ChatFails \/ Stop \/ Succeed
    BY <1>3, <1>6 DEF Refuse, ChatFails, Stop, Succeed, Ending
  <1>7. CASE \/ WriteControl \/ Switch \/ (\E s \in Side : StartServer(s) \/ StopServer(s))
             \/ UNCHANGED vars
    BY <1>2, <1>7 DEF WriteControl, Switch, StartServer, StopServer, vars, memory, hand, files
  <1>8. QED
    BY <1>4, <1>5, <1>6, <1>7 DEF Next, Runner

\* A result that is reported as its id's last event.
LEMMA ResultTold ==
  ASSUME TypedInv, LatestTold, pc # "off", NEW r \in Result, HandId \in {NoJob, IdOf[r.job]},
         results' = Append(results, r), phase' = [phase EXCEPT ![IdOf[r.job]] = r.phase]
  PROVE  LatestTold'
  <1>1. /\ results \in Seq(Result) /\ phase \in [Id -> Phase]
        /\ \A i \in DOMAIN results : results[i].job \in Job
        /\ \A j \in Job : IdOf[j] \in Id /\ IdOf[j] # NoJob
    <2>1. results \in Seq(Result) /\ phase \in [Id -> Phase]
      BY DEF TypedInv, TypeOK
    <2>2. \A i \in DOMAIN results : results[i] \in Result
      BY <2>1, SeqShape
    <2>3. QED
      BY <2>1, <2>2, IdAssumption, SuiteAssumption DEF Result
  <1> DEFINE n == Len(results)
  <1>2. /\ n \in Nat /\ DOMAIN results = 1 .. n /\ DOMAIN results' = 1 .. n + 1 /\ results'[n + 1] = r
        /\ \A i \in DOMAIN results : results'[i] = results[i]
    BY <1>1, AppendShape, SeqShape
  <1> HIDE DEF n
  <1>3. r.job \in Job /\ IdOf[r.job] \in Id
    BY <1>1 DEF Result
  <1>4. phase'[IdOf[r.job]] = r.phase /\ \A k \in Id : k # IdOf[r.job] => phase'[k] = phase[k]
    BY <1>1, <1>3
  <1> SUFFICES ASSUME NEW i \in DOMAIN results', LastOfId(results', i)
               PROVE  phase'[IdOf[results'[i].job]] = results'[i].phase
    BY DEF LatestTold, LastOfId
  <1>5. CASE i = n + 1
    BY <1>2, <1>4, <1>5
  <1>6. CASE i # n + 1
    <2>1. i \in DOMAIN results /\ results'[i] = results[i] /\ n + 1 \in DOMAIN results' /\ ~ (n + 1 <= i)
      BY <1>2, <1>6
    <2>2. IdOf[results[i].job] # IdOf[r.job]
      BY <1>2, <2>1 DEF LastOfId
    <2>3. LastOfId(results, i)
      <3>1. \A k \in DOMAIN results : k \in DOMAIN results' /\ results'[k] = results[k]
        BY <1>2
      <3>2. QED
        BY <2>1, <3>1 DEF LastOfId
    <2>4. IdOf[results[i].job] # HandId
      BY <1>1, <2>1, <2>2
    <2>5. phase[IdOf[results[i].job]] = results[i].phase
      BY <2>1, <2>3, <2>4 DEF LatestTold
    <2>6. QED
      BY <1>1, <1>4, <2>1, <2>2, <2>5
  <1>7. QED
    BY <1>5, <1>6

LEMMA OutcomeStep == OutcomeInv /\ [Next]_vars => OutcomeInv'
  <1> SUFFICES ASSUME OutcomeInv, [Next]_vars PROVE OutcomeInv'
    OBVIOUS
  <1>1. PlacesInv' /\ SummaryIsLatest' /\ JobStep
    BY PlacesStep, SummaryStep, JobSteps DEF OutcomeInv, PlacesInv
  <1>2. /\ queue \in Seq(Job) /\ job \in Job \cup {NoJob} /\ phase \in [Id -> Phase]
        /\ NoJob \notin Job /\ NoJob \notin Id /\ IsInjective(queue)
        /\ \A i \in DOMAIN queue : queue[i] \in Job
        /\ \A j \in Job : IdOf[j] \in Id
        /\ TypedInv /\ JobsApart /\ LatestTold /\ SoleUnended
    BY SeqShape, SuiteAssumption, IdAssumption DEF OutcomeInv, PlacesInv, TypedInv, TypeOK, JobsApart
  <1>3. SUFFICES LatestTold' /\ SoleUnended'
    BY <1>1 DEF OutcomeInv
  <1>4. CASE Stays
    <2>1. UNCHANGED <<queue, job, results>> /\ HandId' = HandId /\ (pc' = "off" <=> pc = "off")
      BY <1>4 DEF Stays, HandId
    <2>2. CASE phase' = phase
      BY <1>2, <2>1, <2>2 DEF LatestTold, SoleUnended
    <2>3. ASSUME job \in Job, NEW p \in Phase \ Ended, phase' = [phase EXCEPT ![IdOf[job]] = p]
          PROVE  LatestTold' /\ SoleUnended'
      <3>1. phase'[IdOf[job]] \notin Ended /\ \A k \in Id : k # IdOf[job] => phase'[k] = phase[k]
        BY <1>2, <2>3
      <3>2. HandId = IdOf[job] /\ \A i \in DOMAIN results : results[i].job \in Job
        <4>1. \A i \in DOMAIN results : results[i] \in Result
          BY <1>2, SeqShape DEF TypedInv, TypeOK
        <4>2. QED
          BY <1>2, <2>3, <4>1 DEF HandId, Result
      <3>3. LatestTold'
        BY <1>2, <2>1, <3>1, <3>2 DEF LatestTold
      <3>4. SoleUnended'
        BY <1>2, <2>1, <3>1 DEF SoleUnended
      <3>5. QED
        BY <3>3, <3>4
    <2>4. QED
      BY <1>4, <2>2, <2>3 DEF Stays
  <1>5. CASE Killed
    BY <1>2, <1>5 DEF Killed, LatestTold, SoleUnended
  <1>6. CASE Anew
    <2>1. /\ results' = <<>> /\ DOMAIN results' = {} /\ phase' = [id \in Id |-> "queued"]
      BY <1>6 DEF Anew
    <2>2. QED
      BY <1>2, <2>1 DEF LatestTold, SoleUnended, Ended
  <1>7. CASE TakenUp
    <2>1. /\ job = NoJob /\ job' = queue[1] /\ UNCHANGED <<results, phase>> /\ pc # "off"
          /\ 1 \in DOMAIN queue /\ DOMAIN queue = 1 .. Len(queue) /\ Len(queue) \in Nat
          /\ DOMAIN queue' = 1 .. Len(queue) - 1
          /\ \A i \in DOMAIN queue' : queue'[i] = queue[i + 1]
      BY <1>2, <1>7, TailShape, SeqShape DEF TakenUp
    <2>2. \A i \in DOMAIN queue' : i + 1 \in DOMAIN queue
      BY <2>1
    <2>3. \A i \in DOMAIN results : IdOf[results[i].job] # HandId
      <3>1. \A i \in DOMAIN results : results[i] \in Result
        BY <1>2, SeqShape DEF TypedInv, TypeOK
      <3>2. QED
        BY <1>2, <2>1, <3>1 DEF HandId, Result
    <2>4. LatestTold'
      BY <1>2, <2>1, <2>3 DEF LatestTold
    <2>5. SoleUnended'
      BY <1>2, <2>1, <2>2 DEF SoleUnended
    <2>6. QED
      BY <2>4, <2>5
  <1>8. ASSUME NEW i \in DOMAIN queue, ToFront(i) PROVE LatestTold' /\ SoleUnended'
    <2>1. /\ queue' = InFront(queue[i], RemoveAt(queue, i)) /\ UNCHANGED <<pc, job, results, phase>>
      BY <1>8 DEF ToFront, InFront
    <2> DEFINE q == InFront(queue[i], RemoveAt(queue, i))
    <2>2. \A k \in DOMAIN q : \E m \in DOMAIN queue : q[k] = queue[m]
      BY <1>2, FrontShape
    <2> HIDE DEF q
    <2>3. queue' = q
      BY <2>1 DEF q
    <2>4. QED
      BY <1>2, <2>1, <2>2, <2>3 DEF LatestTold, SoleUnended, HandId
  <1>9. ASSUME NEW i \in DOMAIN queue, Dropped(i) PROVE LatestTold' /\ SoleUnended'
    <2> DEFINE r == [job |-> queue[i], phase |-> "skipped"]
    <2>1. /\ queue' = RemoveAt(queue, i) /\ results' = Append(results, r) /\ UNCHANGED job
          /\ phase' = [phase EXCEPT ![IdOf[queue[i]]] = "skipped"] /\ job = NoJob /\ pc # "off"
      BY <1>9 DEF Dropped, Skipped
    <2>2. r \in Result /\ r.job = queue[i] /\ r.phase = "skipped" /\ HandId = NoJob
      BY <1>2, <2>1 DEF Result, Ended, HandId
    <2> HIDE DEF r
    <2>3. LatestTold'
      BY <1>2, <2>1, <2>2, ResultTold
    <2>4. \A k \in DOMAIN queue' : \E m \in DOMAIN queue : m # i /\ queue'[k] = queue[m]
      BY <1>2, <2>1, WithoutShape
    <2>5. \A k \in Id : k # IdOf[queue[i]] => phase'[k] = phase[k]
      BY <1>2, <2>1
    <2>6. SoleUnended'
      <3> SUFFICES ASSUME NEW j \in Job, Sole(IdOf[j]), NEW k \in DOMAIN queue', queue'[k] = j
                   PROVE  phase'[IdOf[j]] \notin Ended
        BY <1>2, <2>1 DEF SoleUnended, Sole
      <3>1. PICK m \in DOMAIN queue : m # i /\ queue[m] = j
        BY <2>4
      <3>2. j # queue[i]
        BY <1>2, <3>1 DEF IsInjective
      <3>3. IdOf[j] # IdOf[queue[i]]
        BY <1>2, <3>2 DEF Sole
      <3>4. QED
        BY <1>2, <2>5, <3>1, <3>3 DEF SoleUnended
    <2>7. QED
      BY <2>3, <2>6
  <1>10. ASSUME NEW p \in Ended, EndsWith(p) PROVE LatestTold' /\ SoleUnended'
    <2> DEFINE r == [job |-> job, phase |-> p]
    <2>1. /\ job \in Job /\ job' = NoJob /\ queue' = queue /\ results' = Append(results, r)
          /\ phase' = [phase EXCEPT ![IdOf[job]] = p] /\ pc # "off"
      BY <1>10 DEF EndsWith
    <2>2. r \in Result /\ r.job = job /\ r.phase = p /\ HandId = IdOf[job]
      BY <1>2, <2>1 DEF Result, HandId
    <2> HIDE DEF r
    <2>3. LatestTold'
      BY <1>2, <2>1, <2>2, ResultTold
    <2>4. \A k \in Id : k # IdOf[job] => phase'[k] = phase[k]
      BY <1>2, <2>1
    <2>5. SoleUnended'
      <3> SUFFICES ASSUME NEW j \in Job, Sole(IdOf[j]), NEW k \in DOMAIN queue, queue[k] = j
                   PROVE  phase'[IdOf[j]] \notin Ended
        BY <1>2, <2>1 DEF SoleUnended, Sole
      <3>1. j # job
        BY <1>2 DEF JobsApart
      <3>2. IdOf[j] # IdOf[job]
        BY <2>1, <3>1 DEF Sole
      <3>3. QED
        BY <1>2, <2>4, <3>2 DEF SoleUnended
    <2>6. QED
      BY <2>3, <2>5
  <1>11. QED
    BY <1>1, <1>4, <1>5, <1>6, <1>7, <1>8, <1>9, <1>10 DEF JobStep

\* summary.json reports every entry of the suites, and of each id last what that
\* id's last event told; if that was ok the raw file holds all measurements, whatever
\* failed or was killed on the way (summary.json, events.jsonl and <id>.json,
\* bench_runner.py).
THEOREM SummaryIsTrue == Spec => []SummaryTrue
  <1>1. OutcomeInv /\ BackedInv => SummaryTrue
    <2> SUFFICES ASSUME OutcomeInv, BackedInv, summary # <<>> PROVE SummaryTrue
      BY DEF SummaryTrue
    <2>1. pc = "done" /\ queue = <<>> /\ summary = results
      BY DEF OutcomeInv, SummaryIsLatest
    <2>2. /\ LatestTold /\ EventsBacked /\ NoneLost /\ job = NoJob /\ HandId = NoJob
          /\ NoJob \notin Job /\ NoJob \notin Id
      BY <2>1, SuiteAssumption
      DEF OutcomeInv, BackedInv, PlacesInv, TypedInv, InHand, Idle, AtWork, PC, HandId
    <2>3. \A k \in DOMAIN results : results[k].job \in Job /\ IdOf[results[k].job] \in Id
      <3>1. results \in Seq(Result)
        BY DEF BackedInv, TypedInv, TypeOK
      <3>2. \A k \in DOMAIN results : results[k] \in Result
        BY <3>1, SeqShape
      <3>3. QED
        BY <3>2, IdAssumption DEF Result
    <2>4. DOMAIN queue = {}
      BY <2>1
    <2>5. Jobs(results) = Job
      BY <2>1, <2>2, <2>3, <2>4 DEF NoneLost, Jobs
    <2>6. ASSUME NEW i \in DOMAIN results, LastOfId(results, i)
          PROVE  /\ phase[IdOf[results[i].job]] = results[i].phase
                 /\ results[i].phase = "ok" => rawfile[IdOf[results[i].job]] = Full
      BY <2>1, <2>2, <2>3, <2>6 DEF LatestTold, EventsBacked
    <2>7. QED
      BY <2>1, <2>5, <2>6 DEF SummaryTrue
  <1>2. QED
    BY <1>1, OutcomeInit, OutcomeStep, BackedInit, BackedStep, PTL DEF Spec

-----------------------------------------------------------------------------
(* Control lines                                                            *)

\* Control lines are only added, and what was read stays read.
LEMMA ReadGrows ==
  ASSUME TypedInv, [Next]_vars
  PROVE  /\ offset \in Nat /\ offset' \in Nat /\ offset <= offset'
         /\ 1 .. offset \subseteq DOMAIN control /\ DOMAIN control \subseteq DOMAIN control'
         /\ \A k \in DOMAIN control : control'[k] = control[k]
  <1>1. /\ control \in Seq(Line) /\ offset \in 0 .. Len(control)
        /\ DOMAIN control = 1 .. Len(control) /\ Len(control) \in Nat
    BY SeqShape DEF TypedInv, TypeOK
  <1>2. CASE UNCHANGED control /\ (UNCHANGED offset \/ Drained)
    BY <1>1, <1>2 DEF Drained
  <1>3. CASE Drain \/ Accept \/ Refuse \/ Stop \/ GoOn \/ Crash
    BY <1>2, <1>3 DEF Drain, Accept, Refuse, Stop, GoOn, Crash, Ending, world
  <1>4. CASE Apply \/ Pop \/ Summarise \/ WaitPort \/ SoloSeen \/ Warm \/ ChatFails \/ Measure \/ NextSide
             \/ Succeed \/ Save \/ SaveFails \/ Tell \/ Restart \/ Switch \/ (\E s \in Side : StartServer(s) \/ StopServer(s))
             \/ UNCHANGED vars
    BY <1>2, <1>4 DEF Apply, Pop, Summarise, WaitPort, SoloSeen, Warm, ChatFails, Measure, NextSide,
         Succeed, Save, SaveFails, Tell, Restart, Switch, StartServer, StopServer, Ending, vars, files, world
  <1>5. CASE WriteControl
    <2>1. PICK line \in Line : control' = Append(control, line)
      BY <1>5 DEF WriteControl
    <2>2. /\ DOMAIN control' = 1 .. Len(control) + 1
          /\ \A k \in DOMAIN control : control'[k] = control[k]
      BY <1>1, <2>1, AppendShape
    <2>3. offset' = offset
      BY <1>5 DEF WriteControl, files
    <2>4. QED
      BY <1>1, <2>2, <2>3
  <1>6. QED
    BY <1>3, <1>4, <1>5 DEF Next, Runner

LEMMA AskedStays ==
  ASSUME TypedInv, [Next]_vars, NEW id, AskedFor(id)
  PROVE  AskedFor(id)'
  <1>1. PICK k \in 1 .. offset : control[k].job = id /\ control[k].action \in {"skip", "stop"}
    BY DEF AskedFor
  <1>2. k \in 1 .. offset' /\ control'[k] = control[k]
    BY ReadGrows
  <1>3. QED
    BY <1>1, <1>2 DEF AskedFor

\* A line found among those not read yet has been read once they are drained.
LEMMA AskedOnceDrained ==
  ASSUME TypedInv, Drained, UNCHANGED control, NEW A \in SUBSET {"skip", "stop"}, Asked(A),
         NEW id, id = IdOf[job]
  PROVE  AskedFor(id)'
  <1>1. /\ control \in Seq(Line) /\ offset \in 0 .. Len(control) /\ Len(control) \in Nat
    BY SeqShape DEF TypedInv, TypeOK
  <1>2. PICK i \in DOMAIN NewLines : NewLines[i].job = id /\ NewLines[i].action \in A
    BY DEF Asked
  <1>3. offset + i \in 1 .. Len(control) /\ NewLines[i] = control[offset + i]
    BY <1>1, NewLinesShape
  <1>4. \E k \in 1 .. Len(control) : control[k].job = id /\ control[k].action \in {"skip", "stop"}
    BY <1>2, <1>3
  <1>5. QED
    BY <1>4 DEF AskedFor, Drained

LEMMA TodoReadStep == PlacesInv /\ TodoRead /\ [Next]_vars => TodoRead'
  <1> SUFFICES ASSUME PlacesInv, TodoRead, [Next]_vars PROVE TodoRead'
    OBVIOUS
  <1>1. TypedInv /\ todo \in Seq(Line) /\ control \in Seq(Line) /\ offset \in 0 .. Len(control)
    BY DEF PlacesInv, TypedInv, TypeOK
  <1>2. \A k \in 1 .. offset : k \in 1 .. offset' /\ control'[k] = control[k]
    BY <1>1, ReadGrows
  <1>3. CASE UNCHANGED todo
    BY <1>2, <1>3 DEF TodoRead
  <1>4. CASE Drain
    <2>1. todo' = NewLines /\ offset' = Len(control) /\ control' = control
      BY <1>4 DEF Drain, Drained, world
    <2>2. \A i \in DOMAIN NewLines : offset + i \in 1 .. Len(control) /\ NewLines[i] = control[offset + i]
      BY <1>1, NewLinesShape, SeqShape
    <2>3. QED
      BY <2>1, <2>2 DEF TodoRead
  <1>5. CASE Apply
    <2>1. todo' = Tail(todo) /\ todo # <<>>
      BY <1>5 DEF Apply
    <2>2. \A i \in DOMAIN todo' : i + 1 \in DOMAIN todo /\ todo'[i] = todo[i + 1]
      BY <1>1, <2>1, TailShape, SeqShape
    <2>3. QED
      BY <1>2, <2>2 DEF TodoRead
  <1>6. CASE Restart
    <2>1. DOMAIN todo' = {}
      BY <1>6 DEF Restart
    <2>2. QED
      BY <2>1 DEF TodoRead
  <1>7. QED
    BY <1>3, <1>4, <1>5, <1>6
    DEF Next, Runner, Pop, Summarise, Accept, Refuse, WaitPort, SoloSeen, Warm, ChatFails, Stop, GoOn, Measure,
        NextSide, Succeed, Ending, Save, SaveFails, Tell, WriteControl, StartServer, StopServer, Switch, Crash, vars, memory

\* The end that run_job is about to report was asked for when it is a skip or a stop.
LEMMA EndingAskedStep == PlacesInv /\ EndingAsked /\ [Next]_vars => EndingAsked'
  <1> SUFFICES ASSUME PlacesInv, EndingAsked, [Next]_vars, ending' \in {"skipped", "stopped"}
               PROVE  job' # NoJob /\ AskedFor(IdOf[job])'
    BY DEF EndingAsked
  <1>1. TypedInv
    BY DEF PlacesInv
  <1>2. CASE UNCHANGED <<ending, job>>
    <2>1. PICK id : id = IdOf[job]
      OBVIOUS
    <2>2. job # NoJob /\ AskedFor(id)
      BY <1>2, <2>1 DEF EndingAsked
    <2>3. AskedFor(id)'
      BY <1>1, <2>2, AskedStays
    <2>4. QED
      BY <1>2, <2>1, <2>2, <2>3 DEF AskedFor
  <1>3. CASE Refuse \/ Stop
    <2>1. PICK id : id = IdOf[job]
      OBVIOUS
    <2>2. job # NoJob /\ job' = job
      BY <1>1, <1>3 DEF Refuse, Stop, Ending, TypedInv, InHand, Idle, AtWork
    <2>3. AskedFor(id)'
      <3>1. CASE Refuse
        BY <1>1, <2>1, <3>1, AskedOnceDrained DEF Refuse, Ending, world
      <3>2. CASE Stop
        BY <1>1, <2>1, <3>2, AskedOnceDrained DEF Stop, Ending, world
      <3>3. QED
        BY <1>3, <3>1, <3>2
    <2>4. QED
      BY <2>1, <2>2, <2>3 DEF AskedFor
  <1>4. CASE ChatFails \/ Succeed \/ SaveFails \/ Tell \/ Crash
    BY <1>4 DEF ChatFails, Succeed, Ending, SaveFails, Tell, Crash
  <1>5. CASE Pop
    BY <1>1, <1>5 DEF Pop, TypedInv, EndingKnown
  <1>6. CASE Drain \/ Apply \/ Summarise \/ Accept \/ WaitPort \/ SoloSeen \/ Warm \/ GoOn \/ Measure \/ NextSide
             \/ Save \/ WriteControl \/ Switch \/ Restart \/ (\E s \in Side : StartServer(s) \/ StopServer(s))
             \/ UNCHANGED vars
    BY <1>2, <1>6 DEF Drain, Apply, Summarise, Accept, WaitPort, SoloSeen, Warm, GoOn, Measure, NextSide,
         Save, WriteControl, Switch, Restart, StartServer, StopServer, vars, memory, hand
  <1>7. QED
    BY <1>2, <1>3, <1>4, <1>5, <1>6 DEF Next, Runner

\* A result a step adds was asked for when it says so.
LEMMA ResultAsked ==
  ASSUME PlacesInv, TodoRead, EndingAsked, [Next]_vars
  PROVE  \/ results' = results \/ results' = <<>>
         \/ \E r \in Result : /\ results' = Append(results, r)
                              /\ r.phase \in {"skipped", "stopped"} => AskedFor(IdOf[r.job])'
  <1>1. TypedInv /\ JobStep /\ todo \in Seq(Line) /\ queue \in Seq(Job)
    BY JobSteps DEF PlacesInv, TypedInv, TypeOK
  <1>2. CASE Stays \/ TakenUp \/ Killed \/ Anew \/ \E i \in DOMAIN queue : ToFront(i)
    BY <1>2 DEF Stays, TakenUp, Killed, Anew, ToFront
  <1>3. ASSUME NEW i \in DOMAIN queue, Dropped(i)
        PROVE  \E r \in Result : results' = Append(results, r) /\ AskedFor(IdOf[r.job])'
    <2>1. Head(todo) = todo[1] /\ 1 \in DOMAIN todo
      BY <1>1, <1>3, TailShape, SeqShape DEF Dropped
    <2>2. PICK r : r = [job |-> queue[i], phase |-> "skipped"]
      OBVIOUS
    <2>3. r \in Result /\ r.job = queue[i] /\ results' = Append(results, r)
      BY <1>1, <1>3, <2>2, SeqShape DEF Dropped, Skipped, Result, Ended
    <2>4. AskedFor(IdOf[r.job])
      BY <1>3, <2>1, <2>3 DEF Dropped, TodoRead, AskedFor
    <2>5. AskedFor(IdOf[r.job])'
      BY <1>1, <2>4, AskedStays
    <2>6. QED
      BY <2>3, <2>5
  <1>4. ASSUME NEW p \in Ended, EndsWith(p)
        PROVE  \E r \in Result : /\ results' = Append(results, r)
                                 /\ r.phase \in {"skipped", "stopped"} => AskedFor(IdOf[r.job])'
    <2>1. PICK r : r = [job |-> job, phase |-> p]
      OBVIOUS
    <2>2. r \in Result /\ r.job = job /\ r.phase = ending /\ results' = Append(results, r)
      BY <1>4, <2>1 DEF EndsWith, Result
    <2>3. r.phase \in {"skipped", "stopped"} => AskedFor(IdOf[r.job])
      BY <2>2 DEF EndingAsked
    <2>4. r.phase \in {"skipped", "stopped"} => AskedFor(IdOf[r.job])'
      BY <1>1, <2>3, AskedStays
    <2>5. QED
      BY <2>2, <2>4
  <1>5. QED
    BY <1>1, <1>2, <1>3, <1>4 DEF JobStep

LEMMA RequestInit == Init => RequestInv
  <1> SUFFICES ASSUME Init PROVE RequestInv
    OBVIOUS
  <1>1. DOMAIN todo = {} /\ DOMAIN results = {} /\ ending = "none"
    BY DEF Init
  <1>2. QED
    BY <1>1, PlacesInit DEF RequestInv, TodoRead, EndingAsked, OnlyOnRequest

LEMMA RequestStep == RequestInv /\ [Next]_vars => RequestInv'
  <1> SUFFICES ASSUME RequestInv, [Next]_vars PROVE RequestInv'
    OBVIOUS
  <1>1. /\ PlacesInv /\ TodoRead /\ EndingAsked /\ PlacesInv' /\ TodoRead' /\ EndingAsked'
        /\ TypedInv /\ results \in Seq(Result)
        /\ \A i \in DOMAIN results : results[i].phase \in {"skipped", "stopped"} => AskedFor(IdOf[results[i].job])
    BY PlacesStep, TodoReadStep, EndingAskedStep DEF RequestInv, OnlyOnRequest, AskedFor, PlacesInv, TypedInv, TypeOK
  <1>2. SUFFICES ASSUME NEW i \in DOMAIN results', results'[i].phase \in {"skipped", "stopped"}
                 PROVE  AskedFor(IdOf[results[i].job])'
    BY <1>1 DEF RequestInv, OnlyOnRequest, AskedFor
  <1>3. ASSUME i \in DOMAIN results, results'[i] = results[i] PROVE AskedFor(IdOf[results[i].job])'
    <2>1. PICK id : id = IdOf[results[i].job]
      OBVIOUS
    <2>2. AskedFor(id)'
      BY <1>1, <1>2, <1>3, <2>1, AskedStays
    <2>3. QED
      BY <1>3, <2>1, <2>2 DEF AskedFor
  <1>4. CASE results' = results
    BY <1>2, <1>3, <1>4
  <1>5. CASE results' = <<>>
    BY <1>2, <1>5
  <1>6. ASSUME NEW r \in Result, results' = Append(results, r),
               r.phase \in {"skipped", "stopped"} => AskedFor(IdOf[r.job])'
        PROVE  AskedFor(IdOf[results[i].job])'
    <2>1. \/ i \in DOMAIN results /\ results'[i] = results[i]
          \/ results'[i] = r
      BY <1>1, <1>6, AppendShape, SeqShape
    <2>2. QED
      BY <1>2, <1>3, <1>6, <2>1 DEF AskedFor
  <1>7. QED
    BY <1>1, <1>4, <1>5, <1>6, ResultAsked

\* A job is reported as skipped or stopped only when a control line that the runner
\* has read asked for its id (Control.drain and the queue's loop, bench_runner.py).
THEOREM EndedOnRequest == Spec => []OnlyOnRequest
  <1>1. RequestInv => OnlyOnRequest
    BY DEF RequestInv
  <1>2. QED
    BY <1>1, RequestInit, RequestStep, PTL DEF Spec

-----------------------------------------------------------------------------
(* The order of the suite                                                   *)

\* Of two results of jobs that were run the earlier comes first in the suite.
ResultsInOrder ==
  NoStart => \A i, k \in DOMAIN results :
    (i < k /\ results[i].phase # "skipped" /\ results[k].phase # "skipped")
      => Before(results[i].job, results[k].job)

LEMMA OrderRestated == SuiteOrder <=> ResultsInOrder
  BY DEF SuiteOrder, ResultsInOrder, NoStart, Before

LEMMA OrderInit == Init => OrderInv
  <1> SUFFICES ASSUME Init PROVE OrderInv
    OBVIOUS
  <1>1. /\ queue = Suite /\ job = NoJob /\ DOMAIN results = {} /\ DOMAIN todo = {}
    BY DEF Init
  <1>2. QueueInOrder
    BY <1>1 DEF QueueInOrder, Before
  <1>3. QED
    BY <1>1, <1>2, PlacesInit DEF OrderInv, TodoRead, SuiteOrder

LEMMA OrderStep == OrderInv /\ [Next]_vars => OrderInv'
  <1> SUFFICES ASSUME OrderInv, [Next]_vars PROVE OrderInv'
    OBVIOUS
  <1>1. PlacesInv /\ TodoRead /\ PlacesInv' /\ TodoRead' /\ JobStep /\ TypedInv
    BY PlacesStep, TodoReadStep, JobSteps DEF OrderInv, PlacesInv
  <1>2. SUFFICES ASSUME NoStart'
                 PROVE  QueueInOrder' /\ ResultsInOrder'
    <2>1. QueueInOrder' /\ ResultsInOrder'
      BY <1>2 DEF QueueInOrder, ResultsInOrder
    <2>2. SuiteOrder'
      BY <2>1 DEF SuiteOrder, ResultsInOrder, NoStart, Before
    <2>3. QED
      BY <1>1, <2>1, <2>2 DEF OrderInv
  <1>3. NoStart
    BY <1>1, <1>2, ReadGrows DEF NoStart
  <1>4. /\ \A i, k \in DOMAIN queue : i < k => Before(queue[i], queue[k])
        /\ job # NoJob => \A k \in DOMAIN queue : Before(job, queue[k])
        /\ \A i \in DOMAIN results : results[i].phase # "skipped" =>
             /\ job # NoJob => Before(results[i].job, job)
             /\ \A k \in DOMAIN queue : Before(results[i].job, queue[k])
        /\ \A i, k \in DOMAIN results :
             (i < k /\ results[i].phase # "skipped" /\ results[k].phase # "skipped")
               => Before(results[i].job, results[k].job)
    BY <1>3, OrderRestated DEF OrderInv, QueueInOrder, ResultsInOrder
  <1>5. /\ queue \in Seq(Job) /\ results \in Seq(Result) /\ todo \in Seq(Line) /\ NoJob \notin Job
        /\ IsInjective(queue)
    BY <1>1, SuiteAssumption DEF PlacesInv, TypedInv, TypeOK, JobsApart
  <1> USE DEF Before
  <1>6. CASE Stays
    BY <1>4, <1>6 DEF Stays, QueueInOrder, ResultsInOrder
  <1>7. CASE Killed
    BY <1>4, <1>7 DEF Killed, QueueInOrder, ResultsInOrder
  <1>8. CASE Anew
    <2>1. queue' = Suite /\ DOMAIN results' = {} /\ job' = NoJob
      BY <1>8 DEF Anew
    <2>2. QED
      BY <2>1 DEF QueueInOrder, ResultsInOrder
  <1>9. CASE TakenUp
    <2>1. /\ job' = queue[1] /\ queue' = Tail(queue) /\ UNCHANGED results
          /\ 1 \in DOMAIN queue /\ DOMAIN queue = 1 .. Len(queue) /\ Len(queue) \in Nat
          /\ DOMAIN queue' = 1 .. Len(queue) - 1
          /\ \A i \in DOMAIN queue' : queue'[i] = queue[i + 1]
      BY <1>5, <1>9, TailShape, SeqShape DEF TakenUp
    <2>2. \A i \in DOMAIN queue' : i + 1 \in DOMAIN queue /\ 1 < i + 1
      BY <2>1
    <2>3. \A i, k \in DOMAIN queue' : i < k => i + 1 < k + 1
      BY <2>1
    <2>4. ResultsInOrder'
      BY <1>4, <2>1 DEF ResultsInOrder
    <2> HIDE DEF Before
    <2>5. /\ \A i, k \in DOMAIN queue' : i < k => Before(queue[i + 1], queue[k + 1])
          /\ \A k \in DOMAIN queue' : Before(queue[1], queue[k + 1])
          /\ \A i \in DOMAIN results : results[i].phase # "skipped" =>
               /\ Before(results[i].job, queue[1])
               /\ \A k \in DOMAIN queue' : Before(results[i].job, queue[k + 1])
      BY <1>4, <2>1, <2>2, <2>3
    <2>6. QED
      BY <2>1, <2>4, <2>5 DEF QueueInOrder, Before
  <1>10. ASSUME NEW i \in DOMAIN queue, ToFront(i) PROVE FALSE
    <2>1. todo[1].action = "start" /\ 1 \in DOMAIN todo
      BY <1>5, <1>10, TailShape, SeqShape DEF ToFront
    <2>2. PICK k \in 1 .. offset : control[k] = todo[1]
      BY <1>1, <2>1 DEF TodoRead
    <2>3. QED
      BY <1>1, <1>3, <2>1, <2>2, ReadGrows DEF NoStart
  <1> HIDE DEF Before
  <1>11. ASSUME NEW i \in DOMAIN queue, Dropped(i) PROVE QueueInOrder' /\ ResultsInOrder'
    <2>0. PICK r : r = [job |-> queue[i], phase |-> "skipped"]
      OBVIOUS
    <2>1. queue' = RemoveAt(queue, i) /\ results' = Append(results, r) /\ job' = NoJob
      BY <1>11, <2>0 DEF Dropped, Skipped
    <2>2. r \in Result /\ r.phase = "skipped"
      BY <1>5, <2>0, SeqShape DEF Result, Ended
    <2>3. /\ \A k \in DOMAIN queue' : \E m \in DOMAIN queue : m # i /\ queue'[k] = queue[m]
          /\ \A k, l \in DOMAIN queue' : k < l =>
               \E m, n \in DOMAIN queue : m < n /\ queue'[k] = queue[m] /\ queue'[l] = queue[n]
      <3> DEFINE q == RemoveAt(queue, i)
      <3>1. /\ \A k \in DOMAIN q : \E m \in DOMAIN queue : m # i /\ q[k] = queue[m]
            /\ \A k, l \in DOMAIN q : k < l =>
                 \E m, n \in DOMAIN queue : m < n /\ q[k] = queue[m] /\ q[l] = queue[n]
        BY <1>5, WithoutShape
      <3> HIDE DEF q
      <3>2. QED
        BY <2>1, <3>1 DEF q
    <2>4. \A k \in DOMAIN results' : results'[k].phase # "skipped" =>
             k \in DOMAIN results /\ results'[k] = results[k]
      BY <1>5, <2>1, <2>2, AppendShape, SeqShape
    <2>5. ResultsInOrder'
      BY <1>4, <2>4 DEF ResultsInOrder, Before
    <2>6. /\ \A k, l \in DOMAIN queue' : k < l => Before(queue'[k], queue'[l])
          /\ \A k \in DOMAIN results', l \in DOMAIN queue' :
               results'[k].phase # "skipped" => Before(results'[k].job, queue'[l])
      BY <1>4, <2>3, <2>4
    <2>7. QED
      BY <2>1, <2>5, <2>6 DEF QueueInOrder, Before
  <1>12. ASSUME NEW p \in Ended, EndsWith(p) PROVE QueueInOrder' /\ ResultsInOrder'
    <2>0. PICK r : r = [job |-> job, phase |-> p]
      OBVIOUS
    <2>1. job \in Job /\ queue' = queue /\ results' = Append(results, r) /\ job' = NoJob
      BY <1>12, <2>0 DEF EndsWith
    <2>2. r \in Result /\ r.job = job
      BY <2>0, <2>1 DEF Result
    <2>3. /\ DOMAIN results' = 1 .. Len(results) + 1 /\ results'[Len(results) + 1] = r
          /\ DOMAIN results = 1 .. Len(results) /\ Len(results) \in Nat
          /\ \A k \in DOMAIN results : results'[k] = results[k]
      BY <1>5, <2>1, <2>2, AppendShape, SeqShape
    <2>4. \A k, l \in DOMAIN results' : k < l => k \in DOMAIN results
      BY <2>3
    <2>5. \A k \in DOMAIN results' : k \in DOMAIN results \/ results'[k] = r
      BY <2>3
    <2>6. /\ \A k, l \in DOMAIN results' :
               (k < l /\ results'[k].phase # "skipped" /\ results'[l].phase # "skipped")
                 => Before(results'[k].job, results'[l].job)
          /\ \A k \in DOMAIN results', l \in DOMAIN queue' :
               results'[k].phase # "skipped" => Before(results'[k].job, queue'[l])
      BY <1>4, <1>5, <2>1, <2>2, <2>3, <2>4, <2>5
    <2>7. QED
      BY <1>4, <2>1, <2>6 DEF QueueInOrder, ResultsInOrder, Before
  <1>13. QED
    BY <1>1, <1>6, <1>7, <1>8, <1>9, <1>10, <1>11, <1>12 DEF JobStep

\* Unless a start line says otherwise the jobs run in the order of the suite
\* (pending.pop(0) and pending.insert(0, ...) in main, bench_runner.py).
THEOREM RunsInSuiteOrder == Spec => []SuiteOrder
  <1>1. OrderInv => SuiteOrder
    BY DEF OrderInv
  <1>2. QED
    BY <1>1, OrderInit, OrderStep, PTL DEF Spec

-----------------------------------------------------------------------------
(* The life of jobs                                                         *)

\* Where job j is when h is in hand and rs are the results.
StatusIn(j, h, rs) ==
  LET its == {i \in DOMAIN rs : rs[i].job = j} IN
  IF j = h THEN "active"
  ELSE IF its = {} THEN "queued"
  ELSE rs[CHOOSE i \in its : \A k \in its : k <= i].phase
Alone(rs) == \A i, k \in DOMAIN rs : rs[i].job = rs[k].job => i = k

LEMMA StatusShape ==
  ASSUME NEW rs \in Seq(Result), Alone(rs), NEW h, NEW j, j # h
  PROVE  /\ (\A i \in DOMAIN rs : rs[i].job # j) => StatusIn(j, h, rs) = "queued"
         /\ \A i \in DOMAIN rs : rs[i].job = j => StatusIn(j, h, rs) = rs[i].phase
  <1>1. ASSUME \A i \in DOMAIN rs : rs[i].job # j PROVE StatusIn(j, h, rs) = "queued"
    BY <1>1 DEF StatusIn
  <1>2. ASSUME NEW i \in DOMAIN rs, rs[i].job = j PROVE StatusIn(j, h, rs) = rs[i].phase
    <2> DEFINE its == {k \in DOMAIN rs : rs[k].job = j}
    <2>1. its = {i} /\ i \in Nat
      BY <1>2, SeqShape DEF Alone
    <2>2. (CHOOSE k \in its : \A m \in its : m <= k) = i
      BY <2>1
    <2>3. StatusIn(j, h, rs) = IF its = {} THEN "queued" ELSE rs[CHOOSE k \in its : \A m \in its : m <= k].phase
      BY DEF StatusIn
    <2> HIDE DEF its
    <2>4. QED
      BY <2>1, <2>2, <2>3
  <1>3. QED
    BY <1>1, <1>2

\* A result more is the status of its job, and of no other.
LEMMA StatusAppended ==
  ASSUME NEW rs \in Seq(Result), Alone(rs), NEW r \in Result, NEW h, NEW j, j # h,
         \A i \in DOMAIN rs : rs[i].job # r.job
  PROVE  StatusIn(j, h, Append(rs, r)) = IF j = r.job THEN r.phase ELSE StatusIn(j, h, rs)
  <1> DEFINE n == Len(rs)
             q == Append(rs, r)
  <1>1. /\ n \in Nat /\ DOMAIN rs = 1 .. n /\ DOMAIN q = 1 .. n + 1 /\ q[n + 1] = r /\ q \in Seq(Result)
        /\ \A i \in DOMAIN rs : q[i] = rs[i]
    BY AppendShape, SeqShape
  <1> HIDE DEF n, q
  <1>2. \A i \in DOMAIN q : i \in DOMAIN rs \/ i = n + 1
    BY <1>1
  <1>3. Alone(q)
    BY <1>1, <1>2 DEF Alone
  <1>4. n + 1 \in DOMAIN q /\ \A i \in DOMAIN rs : i \in DOMAIN q
    BY <1>1
  <1>5. CASE j = r.job
    <2>1. StatusIn(j, h, q) = q[n + 1].phase
      BY <1>1, <1>3, <1>4, <1>5, StatusShape
    <2>2. QED
      BY <1>1, <1>5, <2>1 DEF q
  <1>6. CASE j # r.job /\ \E i \in DOMAIN rs : rs[i].job = j
    <2>1. PICK i \in DOMAIN rs : rs[i].job = j
      BY <1>6
    <2>2. StatusIn(j, h, rs) = rs[i].phase
      BY <2>1, StatusShape
    <2>3. i \in DOMAIN q /\ q[i] = rs[i]
      BY <1>1, <1>4
    <2>4. StatusIn(j, h, q) = q[i].phase
      BY <1>1, <1>3, <2>1, <2>3, StatusShape
    <2>5. QED
      BY <1>6, <2>2, <2>3, <2>4 DEF q
  <1>7. CASE j # r.job /\ ~ \E i \in DOMAIN rs : rs[i].job = j
    <2>1. StatusIn(j, h, rs) = "queued"
      BY <1>7, StatusShape
    <2>2. \A i \in DOMAIN q : q[i].job # j
      BY <1>1, <1>2, <1>7
    <2>3. StatusIn(j, h, q) = "queued"
      BY <1>1, <1>3, <2>2, StatusShape
    <2>4. QED
      BY <1>7, <2>1, <2>3 DEF q
  <1>8. QED
    BY <1>5, <1>6, <1>7

LEMMA LifeInit == Init => Life!Init
  <1> SUFFICES ASSUME Init PROVE JobStatus = [j \in Job |-> "queued"]
    BY DEF Life!Init
  <1>1. results = <<>> /\ DOMAIN results = {} /\ job = NoJob
    BY DEF Init
  <1>2. QED
    BY <1>1, SuiteAssumption DEF JobStatus, ResultsOf

\* Every step of the run is a step of the abstract life of its jobs, or none.
LEMMA LifeStep == PlacesInv /\ [Next]_vars => [Life!Next]_JobStatus
  <1> SUFFICES ASSUME PlacesInv, [Next]_vars PROVE [Life!Next]_JobStatus
    OBVIOUS
  <1>1. /\ JobStep /\ JobsApart /\ Alone(results)
    BY JobSteps DEF PlacesInv, JobsApart, Alone
  <1>2. /\ queue \in Seq(Job) /\ job \in Job \cup {NoJob} /\ results \in Seq(Result)
        /\ NoJob \notin Job /\ \A i \in DOMAIN queue : queue[i] \in Job
    BY SuiteAssumption, SeqShape DEF PlacesInv, TypedInv, TypeOK
  <1>3. /\ JobStatus = [j \in Job |-> StatusIn(j, job, results)]
        /\ JobStatus' = [j \in Job |-> StatusIn(j, job', results')]
    BY DEF JobStatus, ResultsOf, StatusIn
  <1>4. \A j \in Job : JobStatus[j] = "active" <=> j = job
    <2>1. ASSUME NEW j \in Job, j # job PROVE StatusIn(j, job, results) # "active"
      <3>1. \A i \in DOMAIN results : results[i].phase \in Ended
        <4>1. \A i \in DOMAIN results : results[i] \in Result
          BY <1>2, SeqShape
        <4>2. QED
          BY <4>1 DEF Result
      <3>2. StatusIn(j, job, results) \in Ended \cup {"queued"}
        BY <1>1, <1>2, <2>1, <3>1, StatusShape
      <3>3. QED
        BY <3>2 DEF Ended
    <2>2. job \in Job => StatusIn(job, job, results) = "active"
      BY DEF StatusIn
    <2>3. QED
      BY <1>3, <2>1, <2>2
  <1>5. Life!Ended = Ended
    BY DEF Life!Ended, Ended
  <1>6. CASE UNCHANGED <<job, results>>
    BY <1>3, <1>6
  <1>7. CASE Killed
    <2>1. job' = NoJob /\ results' = results
      BY <1>7 DEF Killed
    <2>2. CASE job = NoJob
      BY <1>6, <2>1, <2>2
    <2>3. CASE job # NoJob
      <3>1. job \in Job /\ \A i \in DOMAIN results : results[i].job # job
        BY <1>1, <1>2, <2>3 DEF JobsApart
      <3>2. StatusIn(job, NoJob, results) = "queued"
        BY <1>1, <1>2, <2>3, <3>1, StatusShape
      <3>3. \A j \in Job : j # job => StatusIn(j, NoJob, results) = StatusIn(j, job, results)
        BY <1>2 DEF StatusIn
      <3>4. JobStatus' = [JobStatus EXCEPT ![job] = "queued"]
        BY <1>3, <2>1, <3>1, <3>2, <3>3
      <3>5. Life!Abandon(job)
        BY <1>4, <3>1, <3>4 DEF Life!Abandon, Life!Active
      <3>6. QED
        BY <3>1, <3>5 DEF Life!Next
    <2>4. QED
      BY <2>2, <2>3
  <1>8. CASE Anew
    <2>1. job = NoJob /\ job' = job /\ results' = <<>> /\ DOMAIN results' = {}
      BY <1>8 DEF Anew
    <2>2. \A j \in Job : StatusIn(j, job', results') = "queued"
      BY <1>2, <2>1 DEF StatusIn
    <2>3. JobStatus' = [j \in Job |-> "queued"]
      BY <1>3, <2>2
    <2>4. Life!Rerun
      BY <1>2, <1>4, <2>1, <2>3 DEF Life!Rerun, Life!Active
    <2>5. QED
      BY <2>4 DEF Life!Next
  <1>9. CASE TakenUp
    <2>1. /\ job = NoJob /\ job' = queue[1] /\ 1 \in DOMAIN queue /\ results' = results
      BY <1>2, <1>9, TailShape, SeqShape DEF TakenUp
    <2>2. PICK j \in Job : j = job'
      BY <1>2, <2>1
    <2>3. \A i \in DOMAIN results : results[i].job # j
      BY <1>1, <2>1, <2>2 DEF JobsApart
    <2>4. StatusIn(j, job, results) = "queued"
      BY <1>1, <1>2, <2>1, <2>3, StatusShape
    <2>5. /\ StatusIn(j, job', results') = "active"
          /\ \A k \in Job : k # j => StatusIn(k, job', results') = StatusIn(k, job, results)
      BY <1>2, <2>1, <2>2 DEF StatusIn
    <2>6. JobStatus[j] = "queued" /\ JobStatus' = [JobStatus EXCEPT ![j] = "active"]
      BY <1>3, <2>4, <2>5
    <2>7. Life!Begin(j)
      BY <1>2, <1>4, <2>1, <2>6 DEF Life!Begin, Life!Queued, Life!Active
    <2>8. QED
      BY <2>7 DEF Life!Next
  <1>10. ASSUME NEW i \in DOMAIN queue, Dropped(i) PROVE [Life!Next]_JobStatus
    <2>1. PICK r : r = [job |-> queue[i], phase |-> "skipped"]
      OBVIOUS
    <2>2. /\ r \in Result /\ r.job = queue[i] /\ r.phase = "skipped" /\ results' = Append(results, r)
          /\ job = NoJob /\ job' = NoJob
      BY <1>2, <1>10, <2>1 DEF Dropped, Skipped, Result, Ended
    <2>3. PICK j \in Job : j = queue[i]
      BY <1>2
    <2>4. \A k \in DOMAIN results : results[k].job # j
      BY <1>1, <2>3 DEF JobsApart
    <2>5. \A k \in Job : StatusIn(k, job', results') = IF k = j THEN "skipped" ELSE StatusIn(k, job, results)
      BY <1>1, <1>2, <2>2, <2>3, <2>4, StatusAppended
    <2>6. StatusIn(j, job, results) = "queued"
      BY <1>1, <1>2, <2>2, <2>4, StatusShape
    <2>7. JobStatus[j] = "queued" /\ JobStatus' = [JobStatus EXCEPT ![j] = "skipped"]
      BY <1>3, <2>5, <2>6
    <2>8. Life!Drop(j)
      BY <2>7 DEF Life!Drop, Life!Queued
    <2>9. QED
      BY <2>8 DEF Life!Next
  <1>11. ASSUME NEW p \in Ended, EndsWith(p) PROVE [Life!Next]_JobStatus
    <2>1. PICK r : r = [job |-> job, phase |-> p]
      OBVIOUS
    <2>2. /\ r \in Result /\ r.job = job /\ r.phase = p /\ results' = Append(results, r)
          /\ job \in Job /\ job' = NoJob
      BY <1>11, <2>1 DEF EndsWith, Result
    <2>3. \A k \in DOMAIN results : results[k].job # job
      BY <1>1 DEF JobsApart
    <2>4. \A k \in Job : StatusIn(k, job', results') = IF k = job THEN p ELSE StatusIn(k, NoJob, results)
      BY <1>1, <1>2, <2>2, <2>3, StatusAppended
    <2>5. \A k \in Job : k # job => StatusIn(k, NoJob, results) = StatusIn(k, job, results)
      BY <1>2 DEF StatusIn
    <2>6. JobStatus' = [JobStatus EXCEPT ![job] = p]
      BY <1>3, <2>2, <2>4, <2>5
    <2>7. Life!End(job)
      BY <1>4, <1>5, <2>2, <2>6 DEF Life!End, Life!Active
    <2>8. QED
      BY <2>2, <2>7 DEF Life!Next
  <1>12. QED
    BY <1>1, <1>6, <1>7, <1>8, <1>9, <1>10, <1>11 DEF JobStep, Stays, ToFront

\* The run implements the life of jobs of BenchLife, whose jobs are the entries of
\* the suites: one is active at a time, and one that ended is not touched again
\* before a restart, also when another entry bears the same id (bench_runner.py).
THEOREM RunnerImplementsLife == Spec => ImplementsLife
  <1>1. Init /\ [][Next]_vars => []PlacesInv
    BY PlacesInit, PlacesStep, PTL
  <1>2. QED
    BY <1>1, LifeInit, LifeStep, PTL DEF Spec, ImplementsLife, Life!Spec

-----------------------------------------------------------------------------
(***************************************************************************)
(* The terminal UI.  What it shows is a function of the events it has read,*)
(* some of them twice; what the runner holds in memory and in its files is *)
(* a function of all the events it wrote.                                  *)
(***************************************************************************)

EventLine == [phase : Phase, job : Id, side : Side \cup {NoSide}, run : 0 .. Runs]
EventsTyped == events \in Seq(EventLine) /\ \A k \in DOMAIN events :
                 events[k].phase = "running" => events[k].side \in Side

\* Event k is the last one of the id, up to the m-th.
LastOf(id, k, m) == events[k].job = id /\ \A i \in k + 1 .. m : events[i].job # id
\* The job of event b has ended after it, up to the m-th.
EndedBy(b, m) == \E k \in b + 1 .. m : events[k].job = events[b].job /\ events[k].phase \in Ended
\* The requests of side s that event e counts for the id.
Counted(e, id, s) ==
  IF e.job = id /\ (e.phase = "ok" \/ (e.phase = "running" /\ e.side = s)) THEN e.run ELSE 0
\* Among the events one counts n requests of side s for the id.
ToldOf(n, id, s) == n = 0 \/ \E k \in DOMAIN events : Counted(events[k], id, s) = n
InBusy == HandId # NoJob /\ phase[HandId] \in Busy

\* What the runner wrote.
PhaseTold == \A id \in Ids : \E k \in DOMAIN events : LastOf(id, k, Len(events)) /\ events[k].phase = phase[id]
BusyTold ==
  pc # "off" =>
    /\ InBusy => events[Len(events)].job = HandId
    /\ \A b \in DOMAIN events : events[b].phase \in Busy =>
         EndedBy(b, Len(events)) \/ (InBusy /\ events[b].job = HandId)
    /\ \A id \in Id : phase[id] \in Busy => id = HandId
\* What is counted is on disk or in memory; of an id that is not shared, no less.
CountsTold ==
  pc # "off" =>
    /\ rawfile \in [Id -> Counts]
    /\ \A id \in Id, s \in Side :
         /\ ToldOf(rawfile[id][s], id, s)
         /\ id = HandId => ToldOf(raw[s], id, s)
         /\ Sole(id) => \A k \in DOMAIN events : Counted(events[k], id, s) <= Have(id, s)
\* The raw file of an id that is not shared is empty until its job's runs are saved.
SoleSaved ==
  pc # "off" =>
    /\ pc = "accept" => raw = NoCounts
    /\ \A id \in Id : Sole(id) =>
         IF pc = "tell" /\ id = HandId THEN rawfile[id] = raw
         ELSE phase[id] \notin Ended => rawfile[id] = NoCounts

\* What the UI read.
ScreenTyped ==
  /\ read \in 0 .. Len(events) /\ known \subseteq Id /\ running \in Id \cup {NoJob}
  /\ shown \in [Id -> Phase] /\ progress \in [Id -> Counts]
PhaseRead ==
  \A k \in 1 .. read :
    /\ events[k].job \in known
    /\ \A id \in Id : LastOf(id, k, read) => shown[id] = events[k].phase
BusyRead ==
  /\ running # NoJob => \E b \in DOMAIN events : events[b].phase \in Busy
  /\ (\E b \in 1 .. read : events[b].phase \in Busy) =>
       \E b \in 1 .. read :
         /\ events[b].phase \in Busy /\ \A i \in b + 1 .. read : events[i].phase \notin Busy
         /\ running = IF EndedBy(b, read) THEN NoJob ELSE events[b].job
CountsRead ==
  \A id \in Id, s \in Side :
    /\ \A k \in 1 .. read : Counted(events[k], id, s) <= progress[id][s]
    /\ progress[id][s] = 0 \/ \E k \in DOMAIN events : Counted(events[k], id, s) = progress[id][s]

RunnerInv  == OutcomeInv /\ BackedInv
RunnerTold == EventsTyped /\ PhaseTold /\ BusyTold /\ CountsTold /\ SoleSaved
UiRead     == ScreenTyped /\ PhaseRead /\ BusyRead /\ CountsRead
ConsoleInv == RunnerInv /\ RunnerTold /\ UiRead

-----------------------------------------------------------------------------
(* What a step of the runner tells                                          *)

\* Nothing is written: the runner goes on with its job, refuses it, saves its raw
\* runs or takes the next one up, or it is dead.
GoesOn  == UNCHANGED <<job, raw, rawfile>> /\ (pc' = "accept" => pc = "accept") /\ (pc' = "tell" <=> pc = "tell")
Refuses == UNCHANGED <<job, raw, rawfile>> /\ job \in Job /\ pc = "accept" /\ pc' = "tell"
Saves   ==
  /\ UNCHANGED <<job, raw>> /\ job \in Job /\ pc = "save" /\ pc' = "tell"
  /\ rawfile' = [rawfile EXCEPT ![IdOf[job]] = raw]
TakesUp ==
  /\ job = NoJob /\ job' \in Job /\ raw' = NoCounts /\ rawfile' = rawfile /\ pc' # "tell"
  /\ Sole(IdOf[job']) => phase[IdOf[job']] \notin Ended
TellsNothing ==
  /\ UNCHANGED <<events, phase>>
  /\ pc' # "off" => pc # "off"
  /\ pc' = "off" \/ GoesOn \/ Refuses \/ Saves \/ TakesUp
\* A queued job is dropped.
TellsDrop(e) ==
  /\ job = NoJob /\ job' = NoJob /\ e.phase = "skipped"
\* The job in hand ends, and its raw runs are on disk.
TellsEnd(e) ==
  /\ job \in Job /\ pc = "tell" /\ e.job = IdOf[job] /\ job' = NoJob /\ e.phase \in Ended
  /\ e.phase = "ok" => e.run = Runs /\ rawfile[e.job] = Full
\* The job in hand gets on.
TellsProgress(e) ==
  /\ job \in Job /\ pc # "tell" /\ e.job = IdOf[job] /\ job' = job /\ e.phase \in Busy
  /\ IF e.phase = "running"
     THEN e.side = side /\ raw' = [raw EXCEPT ![side] = e.run] /\ raw[side] <= e.run
     ELSE raw' = raw
Tells(e) ==
  /\ pc # "off" /\ pc' \notin {"off", "accept", "tell"}
  /\ events' = Append(events, e) /\ phase' = [phase EXCEPT ![e.job] = e.phase]
  /\ UNCHANGED rawfile
  /\ TellsDrop(e) \/ TellsEnd(e) \/ TellsProgress(e)
Tellable(e) == e \in EventLine /\ (e.phase = "running" => e.side \in Side)

\* The two shapes of an event.
LEMMA EventShape ==
  ASSUME NEW p \in Phase, NEW id \in Id, NEW s \in Side \cup {NoSide}, NEW k \in 0 .. Runs
  PROVE  /\ Event(p, id, s, k) \in EventLine
         /\ Event(p, id, s, k).phase = p /\ Event(p, id, s, k).job = id
         /\ Event(p, id, s, k).side = s /\ Event(p, id, s, k).run = k
  BY DEF Event, EventLine

\* The first event of a job.
LEMMA QueuedShape ==
  ASSUME NEW id \in Id, NEW e, e = Event("queued", id, NoSide, 0)
  PROVE  e \in EventLine /\ e.phase = "queued" /\ e.job = id /\ e.run = 0
  <1>1. "queued" \in Phase /\ 0 \in 0 .. Runs /\ NoSide \in Side \cup {NoSide}
    BY RunsAssumption DEF Phase
  <1>2. QED
    BY <1>1 DEF Event, EventLine

\* A job that got its result: what is reported of it.
LEMMA ReportShape ==
  ASSUME TypedInv, NEW j \in Job, NEW p \in Ended,
         results' = Append(results, [job |-> j, phase |-> p]), Report
  PROVE  \E e : /\ Tellable(e) /\ events' = Append(events, e) /\ e.job = IdOf[j] /\ e.phase = p
                /\ p = "ok" => e.run = Runs
  <1>0. PICK id \in Id : id = IdOf[j]
    BY IdAssumption
  <1> DEFINE r == [job |-> j, phase |-> p]
             k == IF p = "ok" THEN Runs ELSE 0
             e == Event(p, id, NoSide, k)
  <1>1. results \in Seq(Result) /\ r \in Result
    BY DEF TypedInv, TypeOK, Result
  <1>2. r.job = j /\ r.phase = p
    OBVIOUS
  <1> HIDE DEF r
  <1>3. results' = Append(results, r)
    BY DEF r
  <1>4. results' # results /\ Last(results') = r
    BY <1>1, <1>3, AppendShape DEF Last
  <1>5. events' = Append(events, e)
    BY <1>0, <1>2, <1>4 DEF Report
  <1>6. p \in Phase /\ k \in 0 .. Runs
    BY RunsAssumption DEF Ended, Phase
  <1>7. e \in EventLine /\ e.phase = p /\ e.job = id /\ e.run = k
    BY <1>6, EventShape
  <1>8. e.phase # "running"
    BY <1>7 DEF Ended
  <1> HIDE DEF e
  <1>9. QED
    BY <1>0, <1>5, <1>7, <1>8 DEF Tellable

\* Each step of the runner, and of the operator, tells nothing or one event.
LEMMA RunnerTells ==
  ASSUME RunnerInv, (RunnerStep \/ WorldStep)
  PROVE  TellsNothing \/ \E e : Tellable(e) /\ Tells(e)
  <1>1. TypedInv /\ SoleUnended /\ PendingBacked
    BY DEF RunnerInv, OutcomeInv, BackedInv
  <1>2. CASE (Drain \/ Summarise \/ Accept \/ Warm \/ GoOn \/ NextSide \/ Switch \/ Stop \/ ChatFails \/ Succeed) /\ Silent
    <2>1. /\ UNCHANGED <<events, phase, job, raw, rawfile>>
      BY <1>2 DEF Drain, Summarise, Accept, Warm, GoOn, NextSide, Switch, Stop, ChatFails, Succeed, Ending,
           Silent, memory, hand, files
    <2>2. /\ pc' = "accept" => pc = "accept"
          /\ pc' = "tell" <=> pc = "tell"
          /\ pc # "off" \/ pc' = pc
      BY <1>2 DEF Drain, Summarise, Accept, Warm, GoOn, NextSide, Switch, Stop, ChatFails, Succeed, Ending
    <2>3. QED
      BY <2>1, <2>2 DEF TellsNothing, GoesOn
  <1>3. CASE Crash /\ Silent
    BY <1>3 DEF Crash, Silent, TellsNothing
  <1>4. CASE (Refuse \/ Save) /\ Silent
    <2>1. job \in Job /\ pc' = "tell" /\ UNCHANGED <<events, phase, job, raw>>
      BY <1>1, <1>4, HandTyped DEF Refuse, Save, Ending, Silent, memory, hand, AtWork
    <2>2. CASE Refuse
      BY <2>1, <2>2 DEF Refuse, Ending, TellsNothing, Refuses
    <2>3. CASE Save
      BY <2>1, <2>3 DEF Save, TellsNothing, Saves
    <2>4. QED
      BY <1>4, <2>2, <2>3
  <1>5. CASE Pop /\ Silent
    <2>1. queue # <<>> /\ queue \in Seq(Job) /\ job = NoJob
      BY <1>1, <1>5 DEF Pop, TypedInv, TypeOK, InHand, Idle, PC, AtWork
    <2>2. Head(queue) = queue[1] /\ Head(queue) \in Job /\ 1 \in DOMAIN queue
      BY <2>1, TailShape
    <2>3. Sole(IdOf[Head(queue)]) => phase[IdOf[Head(queue)]] \notin Ended
      BY <1>1, <2>2 DEF SoleUnended
    <2>4. QED
      BY <1>5, <2>1, <2>2, <2>3 DEF Pop, Silent, TellsNothing, TakesUp, files
  <1>6. CASE Apply /\ Report
    <2>1. pc = "apply" /\ UNCHANGED <<pc, job, raw, rawfile>>
      BY <1>6 DEF Apply, hand
    <2>2. CASE UNCHANGED <<results, phase>>
      BY <1>6, <2>1, <2>2 DEF Report, TellsNothing, GoesOn
    <2>3. ASSUME NEW i \in DOMAIN queue, Dropped(i)
          PROVE  \E e : Tellable(e) /\ Tells(e)
      <3>1. queue[i] \in Job /\ "skipped" \in Ended
        BY <1>1, SeqShape DEF TypedInv, TypeOK, Ended
      <3>2. results' = Append(results, [job |-> queue[i], phase |-> "skipped"])
            /\ phase' = [phase EXCEPT ![IdOf[queue[i]]] = "skipped"] /\ job = NoJob
        BY <2>3 DEF Dropped, Skipped
      <3>3. PICK e : /\ Tellable(e) /\ events' = Append(events, e)
                     /\ e.job = IdOf[queue[i]] /\ e.phase = "skipped"
        BY <1>1, <1>6, <3>1, <3>2, ReportShape
      <3>4. Tells(e)
        BY <2>1, <3>2, <3>3 DEF Tells, TellsDrop
      <3>5. QED
        BY <3>3, <3>4
    <2>4. Stays => UNCHANGED <<results, phase>>
      BY <1>1, <2>1, SuiteAssumption DEF Stays, TypedInv, InHand, Idle, PC, AtWork
    <2>5. QED
      BY <1>1, <1>6, <2>2, <2>3, <2>4, ApplyMoves DEF ToFront
  <1>7. CASE Tell /\ Report
    <2>1. pc = "tell" /\ job \in Job /\ ending \in Ended
      BY <1>1, <1>7, HandTyped DEF Tell, AtWork, TypedInv, TypeOK, EndingKnown
    <2>2. /\ results' = Append(results, [job |-> job, phase |-> ending])
          /\ phase' = [phase EXCEPT ![IdOf[job]] = ending] /\ job' = NoJob /\ pc' = "queue"
          /\ UNCHANGED rawfile
      BY <1>7 DEF Tell
    <2>3. PICK e : /\ Tellable(e) /\ events' = Append(events, e) /\ e.job = IdOf[job] /\ e.phase = ending
                   /\ ending = "ok" => e.run = Runs
      BY <1>1, <1>7, <2>1, <2>2, ReportShape
    <2>4. TellsEnd(e)
      BY <1>1, <2>1, <2>2, <2>3 DEF TellsEnd, PendingBacked
    <2>5. Tells(e)
      BY <2>1, <2>2, <2>3, <2>4 DEF Tells
    <2>6. QED
      BY <2>3, <2>5
  <1>8. CASE (WaitPort \/ SoloSeen \/ Measure) /\ ReportSide
    <2>1. /\ job \in Job /\ IdOf[job] \in Id /\ side \in Side /\ run \in Nat /\ run <= Runs
          /\ phase \in [Id -> Phase] /\ raw[side] = run /\ raw \in Counts
      BY <1>1, <1>8, HandTyped, RunsAssumption
      DEF WaitPort, SoloSeen, Measure, TypedInv, TypeOK, MeasuredSoFar, AtWork
    <2>2. pc \notin {"off", "tell"} /\ pc' \notin {"off", "accept", "tell"} /\ job' = job /\ rawfile' = rawfile
      BY <1>8 DEF WaitPort, SoloSeen, Measure, memory, hand
    <2>3. \E p \in Busy : /\ phase' = [phase EXCEPT ![IdOf[job]] = p]
                          /\ IF p = "running" THEN run' = run + 1 /\ raw' = [raw EXCEPT ![side] = @ + 1] /\ run < Runs
                             ELSE run' = run /\ raw' = raw
      <3>1. CASE WaitPort
        BY <3>1 DEF WaitPort, Busy, memory, hand
      <3>2. CASE SoloSeen
        BY <3>2 DEF SoloSeen, Busy, memory, hand
      <3>3. CASE Measure
        BY <1>1, <3>3 DEF Measure, Busy, TypedInv, ChatLacksOne
      <3>4. QED
        BY <1>8, <3>1, <3>2, <3>3
    <2>4. PICK p \in Busy : /\ phase' = [phase EXCEPT ![IdOf[job]] = p]
                            /\ IF p = "running" THEN run' = run + 1 /\ raw' = [raw EXCEPT ![side] = @ + 1] /\ run < Runs
                               ELSE run' = run /\ raw' = raw
      BY <2>3
    <2> DEFINE e == Event(p, IdOf[job], side, run')
    <2>5. p \in Phase /\ phase'[IdOf[job]] = p /\ run' \in 0 .. Runs
      <3>1. run' \in Nat /\ run' <= Runs
        BY <2>1, <2>4, RunsAssumption
      <3>2. QED
        BY <2>1, <2>4, <3>1, RunsAssumption DEF Busy, Phase
    <2>6. e \in EventLine /\ e.phase = p /\ e.job = IdOf[job] /\ e.side = side /\ e.run = run'
      BY <2>1, <2>5, EventShape
    <2>7. events' = Append(events, e)
      BY <1>8, <2>5 DEF ReportSide
    <2>8. Tellable(e)
      BY <2>1, <2>6 DEF Tellable
    <2> HIDE DEF e
    <2>9. TellsProgress(e)
      <3>1. CASE p = "running"
        <4>1. raw' = [raw EXCEPT ![side] = run'] /\ raw[side] <= run'
          BY <2>1, <2>4, <3>1
        <4>2. QED
          BY <2>1, <2>2, <2>4, <2>6, <3>1, <4>1 DEF TellsProgress
      <3>2. CASE p # "running"
        BY <2>1, <2>2, <2>4, <2>6, <3>2 DEF TellsProgress
      <3>3. QED
        BY <3>1, <3>2
    <2>10. QED
      BY <2>2, <2>4, <2>6, <2>7, <2>8, <2>9 DEF Tells
  <1>9. QED
    BY <1>2, <1>3, <1>4, <1>5, <1>6, <1>7, <1>8 DEF RunnerStep, WorldStep

\* What was told stays told.
LEMMA ToldStays ==
  ASSUME EventsTyped, NEW n, NEW id, NEW s, ToldOf(n, id, s),
         events' = events \/ \E e : Tellable(e) /\ events' = Append(events, e)
  PROVE  ToldOf(n, id, s)'
  <1>1. CASE events' = events
    BY <1>1 DEF ToldOf, Counted
  <1>2. ASSUME NEW e, Tellable(e), events' = Append(events, e)
        PROVE  ToldOf(n, id, s)'
    <2>1. \A k \in DOMAIN events : k \in DOMAIN events' /\ events'[k] = events[k]
      BY <1>2, AppendShape DEF EventsTyped, Tellable
    <2>2. QED
      BY <2>1 DEF ToldOf, Counted
  <1>3. QED
    BY <1>1, <1>2

\* The id in hand.
LEMMA HandShape ==
  ASSUME TypedInv
  PROVE  /\ job \in Job => HandId = IdOf[job] /\ HandId \in Id
         /\ job = NoJob => HandId = NoJob
         /\ NoJob \notin Id /\ NoJob \notin Job /\ job \in Job \cup {NoJob}
         /\ HandId \in Id => job \in Job
  BY SuiteAssumption, IdAssumption DEF HandId, TypedInv, TypeOK

LEMMA ToldNothing ==
  ASSUME RunnerInv, RunnerTold, TellsNothing
  PROVE  RunnerTold'
  <1>0. TypedInv /\ SoleUnended /\ raw \in Counts
    BY DEF RunnerInv, OutcomeInv, BackedInv, TypedInv, TypeOK
  <1>1. /\ UNCHANGED <<events, phase>> /\ (pc' # "off" => pc # "off")
        /\ EventsTyped
    BY DEF TellsNothing, RunnerTold
  <1>2. EventsTyped' /\ PhaseTold'
    BY <1>1 DEF RunnerTold, EventsTyped, PhaseTold, LastOf
  <1>3. CASE pc' = "off"
    BY <1>2, <1>3 DEF RunnerTold, BusyTold, CountsTold, SoleSaved
  <1>4. SUFFICES ASSUME pc' # "off", pc # "off", GoesOn \/ Refuses \/ Saves \/ TakesUp
                 PROVE  BusyTold' /\ CountsTold' /\ SoleSaved'
    BY <1>1, <1>2, <1>3 DEF TellsNothing, RunnerTold
  <1>5. /\ InBusy => events[Len(events)].job = HandId
        /\ \A b \in DOMAIN events : events[b].phase \in Busy =>
             EndedBy(b, Len(events)) \/ (InBusy /\ events[b].job = HandId)
        /\ \A id \in Id : phase[id] \in Busy => id = HandId
    BY <1>4 DEF RunnerTold, BusyTold
  <1>6. /\ rawfile \in [Id -> Counts]
        /\ \A id \in Id, s \in Side :
             /\ ToldOf(rawfile[id][s], id, s)
             /\ id = HandId => ToldOf(raw[s], id, s)
             /\ Sole(id) => \A k \in DOMAIN events : Counted(events[k], id, s) <= Have(id, s)
        /\ pc = "accept" => raw = NoCounts
        /\ \A id \in Id : Sole(id) =>
             IF pc = "tell" /\ id = HandId THEN rawfile[id] = raw
             ELSE phase[id] \notin Ended => rawfile[id] = NoCounts
    BY <1>4 DEF RunnerTold, CountsTold, SoleSaved
  <1>7. \A n, id, s : ToldOf(n, id, s)' <=> ToldOf(n, id, s)
    BY <1>1 DEF ToldOf, Counted
  <1>8. CASE job' = job /\ raw' = raw
    <2>1. HandId' = HandId
      BY <1>8 DEF HandId
    <2>2. BusyTold'
      BY <1>1, <1>5, <2>1 DEF BusyTold, InBusy, EndedBy
    <2>3. CASE rawfile' = rawfile
      <3>1. CountsTold'
        BY <1>1, <1>6, <1>7, <1>8, <2>1, <2>3 DEF CountsTold, Have, Counted
      <3>2. CASE GoesOn
        BY <1>1, <1>6, <1>8, <2>1, <2>2, <2>3, <3>1, <3>2 DEF GoesOn, SoleSaved
      <3>3. CASE Refuses
        <4>1. job \in Job /\ pc = "accept" /\ pc' = "tell" /\ HandId = IdOf[job] /\ raw = NoCounts
          BY <1>0, <1>6, <3>3, HandShape DEF Refuses
        <4>2. Sole(HandId) => rawfile[HandId] = raw
          BY <1>0, <1>6, <4>1, HandShape DEF SoleUnended
        <4>3. SoleSaved'
          BY <1>1, <1>6, <1>8, <2>1, <2>3, <4>1, <4>2 DEF SoleSaved
        <4>4. QED
          BY <2>2, <3>1, <4>3
      <3>4. CASE Saves
        <4>1. job \in Job /\ pc = "save" /\ pc' = "tell" /\ HandId = IdOf[job] /\ HandId \in Id
              /\ rawfile' = [rawfile EXCEPT ![IdOf[job]] = raw]
          BY <1>0, <3>4, HandShape DEF Saves
        <4>2. rawfile[HandId] = raw
          BY <1>6, <2>3, <4>1
        <4>3. SoleSaved'
          BY <1>1, <1>6, <1>8, <2>1, <2>3, <4>1, <4>2 DEF SoleSaved
        <4>4. QED
          BY <2>2, <3>1, <4>3
      <3>5. CASE TakesUp
        BY <1>0, <1>8, <3>5, HandShape DEF TakesUp
      <3>6. QED
        BY <1>4, <3>2, <3>3, <3>4, <3>5
    <2>4. CASE rawfile' # rawfile
      <3>1. /\ job \in Job /\ pc' = "tell" /\ HandId = IdOf[job] /\ HandId \in Id /\ pc = "save"
            /\ rawfile' = [rawfile EXCEPT ![IdOf[job]] = raw]
        BY <1>0, <1>4, <2>4, HandShape DEF GoesOn, Refuses, Saves, TakesUp
      <3>2. /\ rawfile' \in [Id -> Counts] /\ rawfile'[HandId] = raw
            /\ \A id \in Id : id # HandId => rawfile'[id] = rawfile[id]
        BY <1>0, <1>6, <3>1
      <3>3. CountsTold'
        <4>1. ASSUME NEW id \in Id, NEW s \in Side
              PROVE  /\ ToldOf(rawfile'[id][s], id, s)
                     /\ id = HandId' => ToldOf(raw'[s], id, s)
                     /\ Sole(id) => \A k \in DOMAIN events : Counted(events[k], id, s) <= Have(id, s)'
          BY <1>6, <1>8, <2>1, <3>2 DEF Have
        <4>2. \A id \in Id, s \in Side : ToldOf(rawfile[id][s], id, s)' <=> ToldOf(rawfile'[id][s], id, s)
          BY <1>1 DEF ToldOf, Counted
        <4>3. \A id \in Id, s \in Side : ToldOf(raw[s], id, s)' <=> ToldOf(raw'[s], id, s)
          BY <1>1 DEF ToldOf, Counted
        <4>4. QED
          BY <1>1, <3>2, <4>1, <4>2, <4>3 DEF CountsTold, Counted
      <3>4. SoleSaved'
        BY <1>1, <1>6, <1>8, <2>1, <3>1, <3>2 DEF SoleSaved
      <3>5. QED
        BY <2>2, <3>3, <3>4
    <2>5. QED
      BY <2>3, <2>4
  <1>9. CASE TakesUp
    <2>1. /\ job = NoJob /\ job' \in Job /\ raw' = NoCounts /\ rawfile' = rawfile /\ pc' # "tell"
          /\ Sole(IdOf[job']) => phase[IdOf[job']] \notin Ended
      BY <1>9 DEF TakesUp
    <2>2. HandId = NoJob /\ HandId' = IdOf[job'] /\ HandId' \in Id /\ NoJob \notin Id
      BY <1>0, <2>1, HandShape, SuiteAssumption, IdAssumption DEF HandId
    <2>3. \A id \in Id : phase[id] \notin Busy
      BY <1>5, <2>2
    <2>4. BusyTold'
      BY <1>1, <1>5, <2>2, <2>3 DEF BusyTold, InBusy, EndedBy
    <2>5. \A s \in Side : raw'[s] = 0
      BY <2>1 DEF NoCounts
    <2>6. ASSUME NEW id \in Id, NEW s \in Side
          PROVE  /\ ToldOf(rawfile'[id][s], id, s)
                 /\ id = HandId' => ToldOf(raw'[s], id, s)
                 /\ Sole(id) => \A k \in DOMAIN events : Counted(events[k], id, s) <= Have(id, s)'
      <3>1. Have(id, s) = rawfile[id][s]
        BY <2>2 DEF Have
      <3>2. Sole(id) => Have(id, s)' = Have(id, s)
        <4>1. CASE id = HandId'
          BY <1>6, <2>1, <2>2, <3>1, <4>1 DEF Have
        <4>2. CASE id # HandId'
          BY <2>1, <3>1, <4>2 DEF Have
        <4>3. QED
          BY <4>1, <4>2
      <3>3. id = HandId' => ToldOf(raw'[s], id, s)
        BY <2>5 DEF ToldOf
      <3>4. QED
        BY <1>6, <2>1, <3>2, <3>3
    <2>7. CountsTold'
      <3>1. \A id \in Id, s \in Side : ToldOf(rawfile[id][s], id, s)' <=> ToldOf(rawfile'[id][s], id, s)
        BY <1>1 DEF ToldOf, Counted
      <3>2. \A id \in Id, s \in Side : ToldOf(raw[s], id, s)' <=> ToldOf(raw'[s], id, s)
        BY <1>1 DEF ToldOf, Counted
      <3>3. QED
        BY <1>1, <1>6, <2>1, <2>6, <3>1, <3>2 DEF CountsTold, Counted
    <2>8. SoleSaved'
      BY <1>1, <1>6, <2>1, <2>2 DEF SoleSaved
    <2>9. QED
      BY <2>4, <2>7, <2>8
  <1>10. QED
    BY <1>4, <1>8, <1>9 DEF GoesOn, Refuses, Saves

\* One event more.
LEMMA OneEventMore ==
  ASSUME EventsTyped, NEW e, Tellable(e), events' = Append(events, e)
  PROVE  /\ EventsTyped' /\ DOMAIN events = 1 .. Len(events) /\ Len(events) \in Nat
         /\ Len(events') = Len(events) + 1 /\ DOMAIN events' = 1 .. Len(events) + 1
         /\ \A k \in 1 .. Len(events) : events'[k] = events[k]
         /\ events'[Len(events) + 1] = e
  <1>1. events \in Seq(EventLine) /\ e \in EventLine
    BY DEF EventsTyped, Tellable
  <1>2. /\ DOMAIN events = 1 .. Len(events) /\ Len(events) \in Nat
        /\ events' \in Seq(EventLine)
        /\ Len(events') = Len(events) + 1 /\ DOMAIN events' = 1 .. Len(events) + 1
        /\ \A k \in 1 .. Len(events) : events'[k] = events[k]
        /\ events'[Len(events) + 1] = e
    BY <1>1, SeqShape, AppendShape
  <1> DEFINE l == Len(events)
  <1>3. l \in Nat /\ \A k \in 1 .. l + 1 : k \in 1 .. l \/ k = l + 1
    BY <1>2
  <1>4. ASSUME NEW k \in DOMAIN events', events'[k].phase = "running"
        PROVE  events'[k].side \in Side
    BY <1>2, <1>3, <1>4 DEF EventsTyped, Tellable
  <1>5. EventsTyped'
    BY <1>2, <1>4 DEF EventsTyped
  <1>6. QED
    BY <1>2, <1>5

LEMMA ToldEvent ==
  ASSUME RunnerInv, RunnerTold, NEW e, Tellable(e), Tells(e)
  PROVE  RunnerTold'
  <1> DEFINE l == Len(events)
             m == l + 1
  <1>1. /\ EventsTyped /\ events' = Append(events, e) /\ pc # "off" /\ pc' \notin {"off", "accept", "tell"}
        /\ phase' = [phase EXCEPT ![e.job] = e.phase] /\ rawfile' = rawfile
    BY DEF RunnerTold, Tells
  <1>2. /\ EventsTyped' /\ DOMAIN events = 1 .. l /\ l \in Nat
        /\ Len(events') = m /\ DOMAIN events' = 1 .. m
        /\ \A k \in 1 .. l : events'[k] = events[k]
        /\ events'[m] = e
    BY <1>1, OneEventMore
  <1>3. /\ phase \in [Id -> Phase] /\ e.job \in Id /\ e.phase \in Phase /\ e.run \in 0 .. Runs
        /\ raw \in Counts /\ side \in Side /\ NoJob \notin Job /\ NoJob \notin Id /\ Ids \subseteq Id
        /\ job \in Job \cup {NoJob}
        /\ job \in Job => HandId = IdOf[job]
        /\ job = NoJob => HandId = NoJob
        /\ job' = NoJob => HandId' = NoJob
        /\ job' = job => HandId' = HandId
        /\ SoleUnended
    BY SuiteAssumption, IdAssumption
    DEF RunnerInv, BackedInv, OutcomeInv, TypedInv, TypeOK, Tellable, EventLine, HandId, Ids
  <1>4. /\ m \in Nat /\ m = l + 1 /\ m \in 1 .. m /\ (\A k \in 1 .. m : k \in 1 .. l \/ k = m) /\ \A k \in 1 .. l : k \in 1 .. m /\ k # m
    BY <1>2
  <1> HIDE DEF l, m
  <1>5. \A id \in Id : phase'[id] = IF id = e.job THEN e.phase ELSE phase[id]
    BY <1>1, <1>3
  <1>6. PhaseTold'
    <2> SUFFICES ASSUME NEW id \in Ids
                 PROVE  \E k \in DOMAIN events' : /\ events'[k].job = id /\ events'[k].phase = phase'[id]
                                                  /\ \A i \in k + 1 .. m : events'[i].job # id
      BY <1>2 DEF PhaseTold, LastOf
    <2>1. CASE id = e.job
      <3>1. m + 1 .. m = {}
        BY <1>4
      <3>2. QED
        BY <1>2, <1>3, <1>4, <1>5, <2>1, <3>1
    <2>2. CASE id # e.job
      <3>1. PICK k \in DOMAIN events : /\ events[k].job = id /\ events[k].phase = phase[id]
                                       /\ \A i \in k + 1 .. l : events[i].job # id
        BY DEF RunnerTold, PhaseTold, LastOf, l
      <3>2. \A i \in k + 1 .. m : events'[i].job # id
        <4> SUFFICES ASSUME NEW i \in k + 1 .. m PROVE events'[i].job # id
          OBVIOUS
        <4>1. k \in 1 .. l /\ (i \in k + 1 .. l \/ i = m)
          BY <1>2, <1>4
        <4>2. CASE i \in k + 1 .. l
          <5>1. i \in 1 .. l
            BY <1>2, <4>1, <4>2
          <5>2. QED
            BY <1>2, <3>1, <4>2, <5>1
        <4>3. QED
          BY <1>2, <2>2, <4>1, <4>2
      <3>3. QED
        BY <1>2, <1>3, <1>4, <1>5, <2>2, <3>1, <3>2
    <2>3. QED
      BY <2>1, <2>2
  <1> DEFINE Ends(b) == \E k \in b + 1 .. m : events'[k].job = events'[b].job /\ events'[k].phase \in Ended
  <1>7. ASSUME NEW b \in 1 .. l, EndedBy(b, l)
        PROVE  Ends(b)
    <2>1. PICK k \in b + 1 .. l : events[k].job = events[b].job /\ events[k].phase \in Ended
      BY <1>7 DEF EndedBy
    <2>2. k \in b + 1 .. m /\ k \in 1 .. l
      BY <1>2, <1>4
    <2>3. QED
      BY <1>2, <2>1, <2>2
  <1>8. ASSUME NEW b \in 1 .. l, e.job = events[b].job, e.phase \in Ended
        PROVE  Ends(b)
    <2>1. m \in b + 1 .. m
      BY <1>2, <1>4
    <2>2. QED
      BY <1>2, <1>8, <2>1
  <1>9. /\ \A b \in 1 .. l : events[b].phase \in Busy => EndedBy(b, l) \/ (InBusy /\ events[b].job = HandId)
        /\ \A id \in Id : phase[id] \in Busy => id = HandId
    BY <1>1, <1>2 DEF RunnerTold, BusyTold, l
  <1> HIDE DEF Ends
  <1>10. /\ InBusy' => e.job = HandId'
         /\ \A b \in 1 .. m : events'[b].phase \in Busy => Ends(b) \/ (InBusy' /\ events'[b].job = HandId')
         /\ \A id \in Id : phase'[id] \in Busy => id = HandId'
    <2>1. CASE TellsDrop(e) \/ TellsEnd(e)
      <3>1. job' = NoJob /\ e.phase \notin Busy /\ ~ InBusy'
        BY <1>3, <2>1 DEF TellsDrop, TellsEnd, Busy, Ended, InBusy
      <3>2. \A id \in Id : phase'[id] \in Busy => id = HandId'
        BY <1>3, <1>5, <1>9, <2>1, <3>1 DEF TellsDrop, TellsEnd
      <3>3. ASSUME NEW b \in 1 .. m, events'[b].phase \in Busy
            PROVE  Ends(b)
        <4>1. b \in 1 .. l /\ events[b].phase \in Busy
          BY <1>2, <1>4, <3>1, <3>3
        <4>2. CASE EndedBy(b, l)
          BY <1>7, <4>1, <4>2
        <4>3. CASE InBusy /\ events[b].job = HandId
          <5>1. e.job = events[b].job /\ e.phase \in Ended
            BY <1>3, <2>1, <4>3 DEF TellsDrop, TellsEnd, InBusy
          <5>2. QED
            BY <1>8, <4>1, <5>1
        <4>4. QED
          BY <1>9, <4>1, <4>2, <4>3
      <3>4. QED
        BY <3>1, <3>2, <3>3
    <2>2. CASE TellsProgress(e)
      <3>1. e.job = HandId /\ HandId' = HandId /\ HandId # NoJob /\ e.phase \in Busy
        BY <1>3, <2>2 DEF TellsProgress
      <3>2. InBusy'
        BY <1>3, <1>5, <3>1 DEF InBusy
      <3>3. \A id \in Id : phase'[id] \in Busy => id = HandId'
        BY <1>3, <1>5, <1>9, <3>1
      <3>4. ASSUME NEW b \in 1 .. m, events'[b].phase \in Busy
            PROVE  Ends(b) \/ events'[b].job = HandId'
        <4>1. CASE b = m
          BY <1>2, <3>1, <4>1
        <4>2. CASE b \in 1 .. l
          <5>1. EndedBy(b, l) \/ events[b].job = HandId
            BY <1>2, <1>9, <3>4, <4>2
          <5>2. QED
            BY <1>2, <1>7, <3>1, <4>2, <5>1
        <4>3. QED
          BY <1>4, <4>1, <4>2
      <3>5. QED
        BY <3>1, <3>2, <3>3, <3>4
    <2>3. QED
      BY <2>1, <2>2 DEF Tells
  <1>11. BusyTold'
    BY <1>2, <1>10 DEF BusyTold, EndedBy, Ends
  <1>12. /\ rawfile \in [Id -> Counts]
         /\ \A id \in Id, s \in Side :
              /\ ToldOf(rawfile[id][s], id, s)
              /\ id = HandId => ToldOf(raw[s], id, s)
              /\ Sole(id) => \A k \in 1 .. l : Counted(events[k], id, s) <= Have(id, s)
         /\ \A id \in Id : Sole(id) =>
              IF pc = "tell" /\ id = HandId THEN rawfile[id] = raw
              ELSE phase[id] \notin Ended => rawfile[id] = NoCounts
    BY <1>1, <1>2 DEF RunnerTold, CountsTold, SoleSaved
  <1>13. SoleSaved'
    <2> SUFFICES ASSUME NEW id \in Id, Sole(id), phase'[id] \notin Ended
                 PROVE  rawfile[id] = NoCounts
      BY <1>1 DEF SoleSaved
    <2>1. CASE id = e.job
      <3>1. TellsProgress(e)
        BY <1>5, <2>1 DEF Tells, TellsDrop, TellsEnd, Ended
      <3>2. phase[id] \notin Ended /\ pc # "tell"
        BY <1>3, <2>1, <3>1 DEF TellsProgress, SoleUnended
      <3>3. QED
        BY <1>12, <3>2
    <2>2. CASE id # e.job
      <3>1. ~ (pc = "tell" /\ id = HandId)
        BY <1>3, <2>2 DEF Tells, TellsDrop, TellsEnd, TellsProgress
      <3>2. QED
        BY <1>5, <1>12, <2>2, <3>1
    <2>3. QED
      BY <2>1, <2>2
  <1>14. ASSUME NEW id \in Id, NEW s \in Side, Sole(id)
         PROVE  /\ Have(id, s) \in Nat /\ Have(id, s)' \in Nat
                /\ Have(id, s) <= Have(id, s)' /\ Counted(e, id, s) <= Have(id, s)'
    <2>1. \A c \in Counts : c[s] \in Nat
      BY RunsAssumption DEF Counts
    <2>2. Have(id, s) \in Nat
      BY <1>3, <1>12, <2>1 DEF Have
    <2>3. CASE TellsDrop(e)
      <3>1. HandId' = HandId /\ HandId = NoJob
        BY <1>3, <2>3 DEF TellsDrop
      <3>2. Have(id, s)' = Have(id, s) /\ Counted(e, id, s) = 0
        BY <1>1, <1>3, <2>3, <3>1 DEF TellsDrop, Have, Counted
      <3>3. QED
        BY <2>2, <3>2
    <2>4. CASE TellsEnd(e)
      <3>1. HandId = e.job /\ HandId' = NoJob /\ pc = "tell"
        BY <1>3, <2>4 DEF TellsEnd
      <3>2. Have(id, s)' = Have(id, s) /\ Have(id, s)' = rawfile[id][s]
        BY <1>1, <1>3, <1>12, <1>14, <3>1 DEF Have
      <3>3. Counted(e, id, s) = 0 \/ Counted(e, id, s) = rawfile[id][s]
        <4>1. CASE e.phase = "ok" /\ id = e.job
          BY <2>4, <4>1 DEF TellsEnd, Counted, Full
        <4>2. CASE e.phase # "ok" \/ id # e.job
          BY <2>4, <4>2 DEF TellsEnd, Counted, Ended
        <4>3. QED
          BY <4>1, <4>2
      <3>4. QED
        BY <2>2, <3>2, <3>3
    <2>5. CASE TellsProgress(e)
      <3>1. /\ e.job = HandId /\ HandId' = HandId /\ e.phase \in Busy /\ e.run \in Nat
        BY <1>3, <2>5, RunsAssumption DEF TellsProgress
      <3>2. CASE e.phase = "running" /\ id = HandId /\ s = side
        <4>1. raw'[s] = e.run /\ raw[s] <= e.run /\ e.side = s
          BY <1>3, <2>5, <3>2 DEF TellsProgress, Counts
        <4>2. QED
          BY <2>2, <3>1, <3>2, <4>1 DEF Have, Counted
      <3>3. CASE ~ (e.phase = "running" /\ id = HandId /\ s = side)
        <4>1. Have(id, s)' = Have(id, s)
          <5>1. id = HandId => raw'[s] = raw[s]
            BY <1>3, <2>5, <3>3 DEF TellsProgress, Counts
          <5>2. QED
            BY <1>1, <3>1, <5>1 DEF Have
        <4>2. Counted(e, id, s) = 0
          BY <2>5, <3>1, <3>3 DEF TellsProgress, Counted, Busy
        <4>3. QED
          BY <2>2, <4>1, <4>2
      <3>4. QED
        BY <3>2, <3>3
    <2>6. QED
      BY <2>3, <2>4, <2>5 DEF Tells
  <1>15. ASSUME NEW id \in Id, NEW s \in Side, Sole(id), NEW k \in 1 .. m
         PROVE  Counted(events'[k], id, s) <= Have(id, s)'
    <2>1. CASE k = m
      BY <1>2, <1>14, <1>15, <2>1
    <2>2. CASE k \in 1 .. l
      <3>1. Counted(events[k], id, s) <= Have(id, s) /\ events'[k] = events[k]
        BY <1>2, <1>12, <1>15, <2>2
      <3>2. Counted(events[k], id, s) \in Int
        <4>1. events[k] \in EventLine
          BY <1>1, <1>2, <2>2, SeqShape DEF EventsTyped
        <4>2. QED
          BY <4>1, RunsAssumption DEF EventLine, Counted
      <3>3. /\ Have(id, s) \in Nat /\ Have(id, s)' \in Nat /\ Have(id, s) <= Have(id, s)'
        BY <1>14, <1>15
      <3> DEFINE h == Have(id, s)
                 h1 == Have(id, s)'
                 c == Counted(events[k], id, s)
      <3>4. c <= h /\ h <= h1 /\ c \in Int /\ h \in Nat /\ h1 \in Nat
        BY <3>1, <3>2, <3>3
      <3> HIDE DEF h, h1, c
      <3>5. c <= h1
        BY <3>4
      <3>6. QED
        BY <3>1, <3>5 DEF c, h1
    <2>3. QED
      BY <1>4, <2>1, <2>2
  <1>16. ASSUME NEW id \in Id, NEW s \in Side, id = HandId'
         PROVE  ToldOf(raw[s], id, s)'
    <2>1. TellsProgress(e) /\ id = e.job /\ id = HandId
      BY <1>3, <1>16 DEF Tells, TellsDrop, TellsEnd, TellsProgress
    <2>2. CASE raw'[s] = raw[s]
      <3>1. PICK n : n = raw[s]
        OBVIOUS
      <3>2. ToldOf(n, id, s)'
        BY <1>1, <1>12, <2>1, <3>1, ToldStays
      <3>3. QED
        BY <2>2, <3>1, <3>2 DEF ToldOf
    <2>3. CASE raw'[s] # raw[s]
      <3>1. e.phase = "running" /\ e.side = s /\ raw'[s] = e.run
        BY <1>3, <2>1, <2>3 DEF TellsProgress, Counts
      <3>2. Counted(events'[m], id, s) = raw'[s] /\ m \in DOMAIN events'
        BY <1>2, <1>4, <2>1, <3>1 DEF Counted
      <3>3. QED
        BY <3>2 DEF ToldOf, Counted
    <2>4. QED
      BY <2>2, <2>3
  <1>17. ASSUME NEW id \in Id, NEW s \in Side
         PROVE  ToldOf(rawfile[id][s], id, s)'
    <2>1. PICK n : n = rawfile[id][s]
      OBVIOUS
    <2>2. ToldOf(n, id, s)'
      BY <1>1, <1>12, <2>1, ToldStays
    <2>3. QED
      BY <1>1, <2>1, <2>2 DEF ToldOf
  <1>18. CountsTold'
    BY <1>1, <1>2, <1>12, <1>15, <1>16, <1>17 DEF CountsTold, Counted
  <1>19. QED
    BY <1>2, <1>6, <1>11, <1>13, <1>18 DEF RunnerTold

-----------------------------------------------------------------------------
(* What the UI makes of it                                                  *)

\* The runner writes behind what was read.
LEMMA UiBehind ==
  ASSUME EventsTyped, UiRead, UNCHANGED ui,
         \/ events' = events
         \/ \E e : Tellable(e) /\ events' = Append(events, e)
  PROVE  UiRead'
  <1>1. /\ DOMAIN events = 1 .. Len(events) /\ Len(events) \in Nat /\ DOMAIN events \subseteq DOMAIN events'
        /\ Len(events') \in Nat /\ Len(events) <= Len(events')
        /\ \A k \in DOMAIN events : events'[k] = events[k]
    <2>1. CASE events' = events
      BY <2>1, SeqShape DEF EventsTyped
    <2>2. ASSUME NEW e, Tellable(e), events' = Append(events, e)
          PROVE  /\ DOMAIN events = 1 .. Len(events) /\ Len(events) \in Nat /\ DOMAIN events \subseteq DOMAIN events'
                 /\ Len(events') \in Nat /\ Len(events) <= Len(events')
                 /\ \A k \in DOMAIN events : events'[k] = events[k]
      BY <2>2, OneEventMore
    <2>3. QED
      BY <2>1, <2>2
  <1>2. /\ read \in 0 .. Len(events) /\ UNCHANGED <<read, known, shown, progress, running>>
        /\ read \in Nat /\ 1 .. read \subseteq DOMAIN events
        /\ \A k \in 1 .. read : events'[k] = events[k]
    BY <1>1 DEF UiRead, ScreenTyped, ui
  <1>3. ScreenTyped'
    BY <1>1, <1>2 DEF UiRead, ScreenTyped
  <1>4. \A k \in 1 .. read : \A i \in k + 1 .. read : i \in 1 .. read
    BY <1>2
  <1>5. PhaseRead'
    BY <1>2, <1>4 DEF UiRead, PhaseRead, LastOf
  <1>6. BusyRead'
    <2>1. running # NoJob => \E b \in DOMAIN events' : events'[b].phase \in Busy
      BY <1>1 DEF UiRead, BusyRead
    <2>2. \A b \in 1 .. read : EndedBy(b, read)' <=> EndedBy(b, read)
      BY <1>2, <1>4 DEF EndedBy
    <2>3. (\E b \in 1 .. read : events[b].phase \in Busy) =>
            \E b \in 1 .. read :
              /\ events[b].phase \in Busy /\ \A i \in b + 1 .. read : events[i].phase \notin Busy
              /\ running = IF EndedBy(b, read) THEN NoJob ELSE events[b].job
      BY DEF UiRead, BusyRead
    <2>4. (\E b \in 1 .. read : events'[b].phase \in Busy) =>
            \E b \in 1 .. read :
              /\ events'[b].phase \in Busy /\ \A i \in b + 1 .. read : events'[i].phase \notin Busy
              /\ running = IF EndedBy(b, read)' THEN NoJob ELSE events'[b].job
      BY <1>2, <1>4, <2>2, <2>3
    <2>5. QED
      BY <1>2, <2>1, <2>4 DEF BusyRead
  <1>7. CountsRead'
    <2>1. \A id \in Id, s \in Side :
            /\ \A k \in 1 .. read : Counted(events'[k], id, s) <= progress[id][s]
            /\ progress[id][s] = 0 \/ \E k \in DOMAIN events' : Counted(events'[k], id, s) = progress[id][s]
      <3> SUFFICES ASSUME NEW id \in Id, NEW s \in Side
                   PROVE  /\ \A k \in 1 .. read : Counted(events'[k], id, s) <= progress[id][s]
                          /\ progress[id][s] = 0 \/ \E k \in DOMAIN events' : Counted(events'[k], id, s) = progress[id][s]
        OBVIOUS
      <3>1. /\ \A k \in 1 .. read : Counted(events[k], id, s) <= progress[id][s]
            /\ progress[id][s] = 0 \/ \E k \in DOMAIN events : Counted(events[k], id, s) = progress[id][s]
        BY DEF UiRead, CountsRead
      <3>2. QED
        BY <1>1, <1>2, <3>1
    <2>2. \A e, id, s : Counted(e, id, s)' = Counted(e, id, s)
      BY DEF Counted
    <2>3. QED
      BY <1>2, <2>1, <2>2 DEF CountsRead, Counted
  <1>8. QED
    BY <1>3, <1>5, <1>6, <1>7 DEF UiRead

\* Another event is read.
LEMMA UiReads ==
  ASSUME EventsTyped, UiRead, ReadEvent
  PROVE  UiRead'
  <1> DEFINE m == read + 1
             e == events[m]
  <1>1. /\ DOMAIN events = 1 .. Len(events) /\ Len(events) \in Nat
        /\ read \in Nat /\ read < Len(events) /\ events' = events /\ read' = m
    BY SeqShape DEF EventsTyped, UiRead, ScreenTyped, ReadEvent
  <1>2. m \in DOMAIN events /\ e \in EventLine /\ (e.phase = "running" => e.side \in Side)
    <2>1. m \in DOMAIN events
      BY <1>1
    <2>2. events \in Seq(EventLine)
      BY DEF EventsTyped
    <2>3. QED
      BY <2>1, <2>2, SeqShape DEF EventsTyped
  <1>3. /\ known' = known \cup {e.job} /\ shown' = [shown EXCEPT ![e.job] = e.phase]
        /\ progress' = Progress(e) /\ running' = Running(e)
    BY DEF ReadEvent
  <1>4. /\ known \subseteq Id /\ running \in Id \cup {NoJob} /\ shown \in [Id -> Phase]
        /\ progress \in [Id -> Counts] /\ NoJob \notin Job
        /\ e.job \in Id /\ e.phase \in Phase /\ e.run \in 0 .. Runs
    BY <1>2, SuiteAssumption DEF UiRead, ScreenTyped, EventLine
  <1>5. /\ m \in Nat /\ m = read + 1 /\ m \in 1 .. m /\ m + 1 .. m = {}
        /\ \A k \in 1 .. m : k \in 1 .. read \/ k = m
        /\ \A k \in 1 .. read : k \in 1 .. m /\ k # m /\ m \in k + 1 .. m /\ k \in DOMAIN events
        /\ \A k \in 1 .. read : \A i \in k + 1 .. m : i \in k + 1 .. read \/ i = m
        /\ \A k \in 1 .. read : \A i \in k + 1 .. read : i \in k + 1 .. m
    BY <1>1
  <1> HIDE DEF m, e
  <1>6. e = events[m]
    BY DEF e
  <1>7. \A id \in Id, s \in Side :
          progress'[id][s] = IF Counted(e, id, s) > progress[id][s] THEN Counted(e, id, s) ELSE progress[id][s]
    <2> SUFFICES ASSUME NEW id \in Id, NEW s \in Side
                 PROVE  progress'[id][s] = IF Counted(e, id, s) > progress[id][s] THEN Counted(e, id, s) ELSE progress[id][s]
      OBVIOUS
    <2>1. progress[id] \in [Side -> 0 .. Runs] /\ progress[id][s] \in Nat /\ e.run \in Nat
      BY <1>4, RunsAssumption DEF Counts
    <2>2. CASE e.phase = "running"
      <3>1. progress' = [progress EXCEPT ![e.job] = [progress[e.job] EXCEPT ![e.side] = Greater(progress[e.job][e.side], e.run)]]
        BY <1>3, <2>2 DEF Progress
      <3>2. progress'[id][s] = IF id = e.job /\ s = e.side THEN Greater(progress[id][s], e.run) ELSE progress[id][s]
        BY <1>4, <2>1, <3>1
      <3>3. QED
        BY <2>1, <2>2, <3>2 DEF Counted, Greater
    <2>3. CASE e.phase = "ok"
      <3>1. progress' = [progress EXCEPT ![e.job] = [t \in Side |-> Greater(progress[e.job][t], e.run)]]
        BY <1>3, <2>3 DEF Progress
      <3>2. progress'[id][s] = IF id = e.job THEN Greater(progress[id][s], e.run) ELSE progress[id][s]
        BY <1>4, <3>1
      <3>3. QED
        BY <2>1, <2>3, <3>2 DEF Counted, Greater
    <2>4. CASE e.phase # "running" /\ e.phase # "ok"
      BY <1>3, <2>1, <2>4 DEF Progress, Counted
    <2>5. QED
      BY <2>2, <2>3, <2>4
  <1>8. progress' \in [Id -> Counts]
    <2>1. \A id \in Id, s \in Side : Greater(progress[id][s], e.run) \in 0 .. Runs
      BY <1>4, RunsAssumption DEF Greater, Counts
    <2>2. CASE e.phase = "running"
      <3>1. progress' = [progress EXCEPT ![e.job] = [progress[e.job] EXCEPT ![e.side] = Greater(progress[e.job][e.side], e.run)]]
        BY <1>3, <2>2 DEF Progress
      <3> DEFINE c == [progress[e.job] EXCEPT ![e.side] = Greater(progress[e.job][e.side], e.run)]
      <3>2. c \in Counts
        BY <1>2, <1>4, <2>1, <2>2 DEF Counts
      <3> HIDE DEF c
      <3>3. QED
        BY <1>4, <3>1, <3>2 DEF c
    <2>3. CASE e.phase = "ok"
      <3>1. progress' = [progress EXCEPT ![e.job] = [t \in Side |-> Greater(progress[e.job][t], e.run)]]
        BY <1>3, <2>3 DEF Progress
      <3> DEFINE c == [t \in Side |-> Greater(progress[e.job][t], e.run)]
      <3>2. c \in Counts
        BY <1>4, <2>1 DEF Counts
      <3> HIDE DEF c
      <3>3. QED
        BY <1>4, <3>1, <3>2 DEF c
    <2>4. CASE e.phase # "running" /\ e.phase # "ok"
      BY <1>3, <1>4, <2>4 DEF Progress
    <2>5. QED
      BY <2>2, <2>3, <2>4
  <1>9. ScreenTyped'
    <2>1. Running(e) \in Id \cup {NoJob}
      BY <1>4 DEF Running
    <2>2. m \in 0 .. Len(events)
      BY <1>1, <1>5
    <2>3. QED
      BY <1>1, <1>3, <1>4, <1>8, <2>1, <2>2 DEF ScreenTyped
  <1>10. PhaseRead'
    <2>1. ASSUME NEW k \in 1 .. m
          PROVE  events[k].job \in known'
      <3>1. CASE k = m
        BY <1>3, <1>6, <3>1
      <3>2. CASE k \in 1 .. read
        BY <1>3, <3>2 DEF UiRead, PhaseRead
      <3>3. QED
        BY <1>5, <3>1, <3>2
    <2>2. ASSUME NEW k \in 1 .. m, NEW id \in Id, events[k].job = id, \A i \in k + 1 .. m : events[i].job # id
          PROVE  shown'[id] = events[k].phase
      <3>1. CASE k = m
        BY <1>3, <1>4, <1>6, <2>2, <3>1
      <3>2. CASE k \in 1 .. read
        <4>1. e.job # id
          BY <1>5, <1>6, <2>2, <3>2
        <4>2. \A i \in k + 1 .. read : events[i].job # id
          BY <1>5, <2>2, <3>2
        <4>3. shown[id] = events[k].phase
          BY <2>2, <3>2, <4>2 DEF UiRead, PhaseRead, LastOf
        <4>4. QED
          BY <1>3, <1>4, <4>1, <4>3
      <3>3. QED
        BY <1>5, <3>1, <3>2
    <2>3. QED
      BY <1>1, <2>1, <2>2 DEF PhaseRead, LastOf
  <1>11. BusyRead'
    <2> DEFINE Told(b) == /\ events[b].phase \in Busy /\ \A i \in b + 1 .. m : events[i].phase \notin Busy
                          /\ running' = IF EndedBy(b, m) THEN NoJob ELSE events[b].job
    <2>1. running' # NoJob => \E b \in DOMAIN events : events[b].phase \in Busy
      <3>1. CASE e.phase \in Busy
        BY <1>2, <1>6, <3>1
      <3>2. CASE e.phase \notin Busy
        <4>1. running' # NoJob => running # NoJob
          BY <1>3, <3>2 DEF Running
        <4>2. QED
          BY <4>1 DEF UiRead, BusyRead
      <3>3. QED
        BY <3>1, <3>2
    <2>2. ASSUME NEW b \in 1 .. m, events[b].phase \in Busy
          PROVE  \E c \in 1 .. m : Told(c)
      <3>1. CASE e.phase \in Busy
        <4>1. running' = e.job
          BY <1>3, <3>1 DEF Running
        <4>2. ~ EndedBy(m, m)
          BY <1>5 DEF EndedBy
        <4>3. Told(m)
          BY <1>5, <1>6, <3>1, <4>1, <4>2
        <4>4. QED
          BY <1>5, <4>3
      <3>2. CASE e.phase \notin Busy
        <4>1. b \in 1 .. read
          BY <1>5, <1>6, <2>2, <3>2
        <4>2. PICK c \in 1 .. read :
                /\ events[c].phase \in Busy /\ \A i \in c + 1 .. read : events[i].phase \notin Busy
                /\ running = IF EndedBy(c, read) THEN NoJob ELSE events[c].job
          BY <2>2, <4>1 DEF UiRead, BusyRead
        <4>3. \A i \in c + 1 .. m : events[i].phase \notin Busy
          BY <1>5, <1>6, <3>2, <4>2
        <4>4. EndedBy(c, m) <=> EndedBy(c, read) \/ (e.job = events[c].job /\ e.phase \in Ended)
          BY <1>5, <1>6 DEF EndedBy
        <4>5. events[c].job \in Id
          <5>1. events \in Seq(EventLine) /\ c \in DOMAIN events
            BY <1>5 DEF EventsTyped
          <5>2. events[c] \in EventLine
            BY <5>1, SeqShape
          <5>3. QED
            BY <5>2 DEF EventLine
        <4>6. running' = IF e.phase \in Ended /\ running = e.job THEN NoJob ELSE running
          BY <1>3, <3>2 DEF Running
        <4>7. running' = IF EndedBy(c, m) THEN NoJob ELSE events[c].job
          BY <1>4, <4>2, <4>4, <4>5, <4>6
        <4>8. Told(c)
          BY <4>2, <4>3, <4>7
        <4>9. QED
          BY <1>5, <4>8
      <3>3. QED
        BY <3>1, <3>2
    <2>3. \A b : EndedBy(b, read)' <=> EndedBy(b, m)
      BY <1>1 DEF EndedBy
    <2>4. (\E b \in 1 .. m : events[b].phase \in Busy) =>
            \E b \in 1 .. m :
              /\ events[b].phase \in Busy /\ \A i \in b + 1 .. m : events[i].phase \notin Busy
              /\ running' = IF EndedBy(b, read)' THEN NoJob ELSE events[b].job
      BY <2>2, <2>3
    <2>5. QED
      BY <1>1, <2>1, <2>4 DEF BusyRead
  <1>12. CountsRead'
    <2>1. ASSUME NEW id \in Id, NEW s \in Side
          PROVE  /\ \A k \in 1 .. m : Counted(events[k], id, s) <= progress'[id][s]
                 /\ progress'[id][s] = 0 \/ \E k \in DOMAIN events : Counted(events[k], id, s) = progress'[id][s]
      <3> DEFINE p == progress[id][s]
                 q == progress'[id][s]
                 c == Counted(e, id, s)
      <3>1. /\ \A k \in 1 .. read : Counted(events[k], id, s) <= p
            /\ p = 0 \/ \E k \in DOMAIN events : Counted(events[k], id, s) = p
        BY DEF UiRead, CountsRead
      <3>2. q = IF c > p THEN c ELSE p
        BY <1>7
      <3>3. p \in Nat /\ c \in Nat
        BY <1>4, RunsAssumption DEF Counts, Counted
      <3>4. Counted(events[m], id, s) = c /\ m \in DOMAIN events
        BY <1>2, <1>6
      <3>5. \A k \in 1 .. read : Counted(events[k], id, s) \in Int
        <4>1. \A k \in 1 .. read : events[k] \in EventLine
          BY <1>5, SeqShape DEF EventsTyped
        <4>2. \A x \in EventLine : x.run \in Int
          BY RunsAssumption DEF EventLine
        <4>3. QED
          BY <4>1, <4>2 DEF Counted
      <3> HIDE DEF p, q, c
      <3>6. \A k \in 1 .. m : Counted(events[k], id, s) <= q
        BY <1>5, <3>1, <3>2, <3>3, <3>4, <3>5
      <3>7. q = 0 \/ \E k \in DOMAIN events : Counted(events[k], id, s) = q
        BY <3>1, <3>2, <3>4
      <3>8. QED
        BY <3>6, <3>7 DEF q
    <2>2. QED
      BY <1>1, <2>1 DEF CountsRead, Counted
  <1>13. QED
    BY <1>9, <1>10, <1>11, <1>12 DEF UiRead

\* The file is opened again: nothing is read of it, and what is shown stays.
LEMMA UiReopens ==
  ASSUME EventsTyped, UiRead, Reopen
  PROVE  UiRead'
  <1>1. /\ read' = 0 /\ UNCHANGED <<events, known, shown, progress, running>>
        /\ Len(events) \in Nat /\ 1 .. 0 = {} /\ 0 \in 0 .. Len(events)
    <2>1. Len(events) \in Nat
      BY SeqShape DEF EventsTyped
    <2>2. QED
      BY <2>1 DEF Reopen
  <1>2. ScreenTyped'
    BY <1>1 DEF UiRead, ScreenTyped
  <1>3. PhaseRead' /\ BusyRead' /\ CountsRead'
    BY <1>1 DEF UiRead, PhaseRead, BusyRead, CountsRead, Counted
  <1>4. QED
    BY <1>2, <1>3 DEF UiRead

-----------------------------------------------------------------------------
(* The console                                                              *)

\* Of the entries with one id there is a last one in the suites.
LEMMA LastEntry ==
  ASSUME NEW id \in Ids
  PROVE  \E i \in DOMAIN Suite : /\ IdOf[Suite[i]] = id
                                 /\ \A k \in i + 1 .. Len(Suite) : IdOf[Suite[k]] # id
  <1> DEFINE l == Len(Suite)
             S == {n \in Nat : \E i \in 1 .. l : n = l - i /\ IdOf[Suite[i]] = id}
  <1>1. l \in Nat /\ DOMAIN Suite = 1 .. l /\ \A j \in Job : \E i \in 1 .. l : Suite[i] = j
    BY SuiteAssumption, SeqShape DEF ToSet
  <1> HIDE DEF l
  <1>2. PICK j \in Job : IdOf[j] = id
    BY DEF Ids
  <1>3. PICK m \in 1 .. l : Suite[m] = j
    BY <1>1
  <1>4. l - m \in S
    BY <1>1, <1>2, <1>3
  <1>5. S \subseteq Nat /\ S # {}
    BY <1>4
  <1>6. Least(S) \in S /\ \A n \in S : Least(S) <= n
    BY <1>5, LeastOf
  <1>7. PICK i \in 1 .. l : Least(S) = l - i /\ IdOf[Suite[i]] = id
    BY <1>6
  <1>8. ASSUME NEW k \in i + 1 .. l, IdOf[Suite[k]] = id
        PROVE  FALSE
    <2>1. k \in 1 .. l /\ l - k \in S
      BY <1>1, <1>8
    <2>2. l - i <= l - k
      BY <1>6, <1>7, <2>1
    <2>3. QED
      BY <1>1, <2>1, <2>2
  <1>9. QED
    BY <1>1, <1>7, <1>8 DEF l

LEMMA ConsoleInitially == ConsoleInit => ConsoleInv
  <1> SUFFICES ASSUME ConsoleInit PROVE ConsoleInv
    OBVIOUS
  <1>1. RunnerInv
    BY OutcomeInit, BackedInit DEF ConsoleInit, RunnerInv
  <1> DEFINE l == Len(Suite)
  <1>2. /\ Suite \in Seq(Job) /\ l \in Nat /\ DOMAIN Suite = 1 .. l
        /\ NoJob \notin Id /\ \A i \in 1 .. l : IdOf[Suite[i]] \in Id
    BY SuiteAssumption, IdAssumption, SeqShape
  <1>3. /\ events = [i \in 1 .. l |-> Event("queued", IdOf[Suite[i]], NoSide, 0)]
        /\ phase = [id \in Id |-> "queued"] /\ job = NoJob /\ raw = NoCounts /\ HandId = NoJob
        /\ rawfile = [id \in Id |-> NoCounts] /\ pc = "queue" /\ NoCounts \in Counts
    BY NoCountsTyped DEF ConsoleInit, Init, Queued, HandId
  <1>4. ASSUME NEW i \in 1 .. l
        PROVE  /\ events[i] \in EventLine /\ events[i].phase = "queued" /\ events[i].job = IdOf[Suite[i]]
               /\ events[i].run = 0
    <2>1. IdOf[Suite[i]] \in Id
      BY <1>2
    <2>2. events[i] = Event("queued", IdOf[Suite[i]], NoSide, 0)
      BY <1>3
    <2>3. QED
      BY <2>1, <2>2, QueuedShape
  <1>5. events \in Seq(EventLine) /\ Len(events) = l /\ DOMAIN events = 1 .. l
    BY <1>2, <1>3, <1>4
  <1>6. EventsTyped
    BY <1>4, <1>5 DEF EventsTyped
  <1>7. PhaseTold
    <2> SUFFICES ASSUME NEW id \in Ids
                 PROVE  \E k \in DOMAIN events : LastOf(id, k, Len(events)) /\ events[k].phase = phase[id]
      BY DEF PhaseTold
    <2>1. PICK i \in 1 .. l : IdOf[Suite[i]] = id /\ \A k \in i + 1 .. l : IdOf[Suite[k]] # id
      BY <1>2, LastEntry
    <2>2. \A k \in i + 1 .. l : k \in 1 .. l
      BY <1>2
    <2>3. \A k \in i + 1 .. l : events[k].job # id
      BY <1>4, <2>1, <2>2
    <2>4. id \in Id
      BY <1>2, <2>1
    <2>5. QED
      BY <1>3, <1>4, <1>5, <2>1, <2>3, <2>4 DEF LastOf
  <1>8. BusyTold
    BY <1>2, <1>3, <1>4, <1>5 DEF BusyTold, InBusy, Busy
  <1>9. CountsTold
    <2>1. ASSUME NEW id \in Id, NEW s \in Side
          PROVE  rawfile[id][s] = 0 /\ Have(id, s) = 0 /\ id # HandId
      BY <1>2, <1>3 DEF Have, NoCounts
    <2>2. \A k \in DOMAIN events, id \in Id, s \in Side : Counted(events[k], id, s) = 0
      BY <1>4, <1>5 DEF Counted
    <2>3. QED
      BY <1>3, <2>1, <2>2 DEF CountsTold, ToldOf
  <1>10. SoleSaved
    BY <1>3 DEF SoleSaved
  <1>11. /\ read = 0 /\ known = {} /\ shown = [id \in Id |-> "queued"]
         /\ progress = [id \in Id |-> NoCounts] /\ running = NoJob /\ 1 .. 0 = {}
    BY DEF ConsoleInit
  <1>12. ScreenTyped
    <2>1. read \in 0 .. Len(events)
      BY <1>2, <1>5, <1>11
    <2>2. "queued" \in Phase /\ NoCounts \in Counts
      BY NoCountsTyped DEF Phase
    <2>3. QED
      BY <1>11, <2>1, <2>2 DEF ScreenTyped
  <1>13. PhaseRead /\ BusyRead
    BY <1>11 DEF PhaseRead, BusyRead
  <1>14. CountsRead
    <2>1. \A id \in Id, s \in Side : progress[id][s] = 0
      BY <1>11 DEF NoCounts
    <2>2. QED
      BY <1>11, <2>1 DEF CountsRead
  <1>15. QED
    BY <1>1, <1>6, <1>7, <1>8, <1>9, <1>10, <1>12, <1>13, <1>14 DEF ConsoleInv, RunnerTold, UiRead

\* Each step of the two is one of BenchRunner, or leaves the runner alone.
LEMMA ConsoleRuns == [ConsoleNext]_allVars => [Next]_vars
  <1>1. RunnerStep => Runner
    BY DEF RunnerStep, Runner
  <1>2. WorldStep => Switch \/ Crash
    BY DEF WorldStep
  <1>3. ASSUME NEW id \in Id, NEW a \in Action, Press(id, a)
        PROVE  WriteControl
    <2>1. [action |-> a, job |-> id] \in Line
      BY DEF Line
    <2>2. QED
      BY <1>3, <2>1 DEF Press, WriteControl, files
  <1>4. ReadEvent \/ Reopen => UNCHANGED vars
    BY DEF ReadEvent, Reopen
  <1>5. UNCHANGED allVars => UNCHANGED vars
    BY DEF allVars
  <1>6. QED
    BY <1>1, <1>2, <1>3, <1>4, <1>5 DEF ConsoleNext, Next

LEMMA ConsoleStep == ConsoleInv /\ [ConsoleNext]_allVars => ConsoleInv'
  <1> SUFFICES ASSUME ConsoleInv, [ConsoleNext]_allVars PROVE ConsoleInv'
    OBVIOUS
  <1>1. RunnerInv /\ RunnerTold /\ UiRead /\ EventsTyped /\ CountsTold
    BY DEF ConsoleInv, RunnerTold
  <1>2. RunnerInv'
    BY <1>1, ConsoleRuns, OutcomeStep, BackedStep DEF RunnerInv
  <1>3. ASSUME UNCHANGED <<pc, job, raw, phase, rawfile, events>>
        PROVE  RunnerTold'
    BY <1>1, <1>3
    DEF RunnerTold, EventsTyped, PhaseTold, BusyTold, CountsTold, SoleSaved, LastOf, InBusy, EndedBy,
        Counted, Have, HandId, ToldOf
  <1>4. CASE (RunnerStep \/ WorldStep) /\ UNCHANGED ui
    <2>1. TellsNothing \/ \E e : Tellable(e) /\ Tells(e)
      BY <1>1, <1>4, RunnerTells
    <2>2. CASE TellsNothing
      <3>1. events' = events
        BY <2>2 DEF TellsNothing
      <3>2. QED
        BY <1>1, <1>2, <1>4, <2>2, <3>1, ToldNothing, UiBehind DEF ConsoleInv
    <2>3. ASSUME NEW e, Tellable(e), Tells(e)
          PROVE  ConsoleInv'
      <3>1. events' = Append(events, e)
        BY <2>3 DEF Tells
      <3>2. RunnerTold'
        BY <1>1, <2>3, ToldEvent
      <3>3. UiRead'
        BY <1>1, <1>4, <2>3, <3>1, UiBehind
      <3>4. QED
        BY <1>2, <3>2, <3>3 DEF ConsoleInv
    <2>4. QED
      BY <2>1, <2>2, <2>3
  <1>5. CASE ReadEvent
    <2>1. UNCHANGED <<pc, job, raw, phase, rawfile, events>>
      BY <1>5 DEF ReadEvent, vars, memory, hand, files
    <2>2. QED
      BY <1>1, <1>2, <1>3, <1>5, <2>1, UiReads DEF ConsoleInv
  <1>6. CASE Reopen
    <2>1. UNCHANGED <<pc, job, raw, phase, rawfile, events>>
      BY <1>6 DEF Reopen, vars, memory, hand, files
    <2>2. QED
      BY <1>1, <1>2, <1>3, <1>6, <2>1, UiReopens DEF ConsoleInv
  <1>7. CASE (\E id \in Id, a \in Action : Press(id, a)) \/ UNCHANGED allVars
    <2>1. UNCHANGED <<pc, job, raw, phase, rawfile, events, ui>>
      BY <1>7 DEF Press, allVars, vars, memory, hand, files
    <2>2. QED
      BY <1>1, <1>2, <1>3, <2>1, UiBehind DEF ConsoleInv
  <1>8. QED
    BY <1>4, <1>5, <1>6, <1>7 DEF ConsoleNext

\* Having read everything, the UI has read what the runner wrote.
LEMMA ConsoleShows == ConsoleInv => ShownIsTrue
  <1> SUFFICES ASSUME ConsoleInv, CaughtUp PROVE ShownIsTrue
    BY DEF ShownIsTrue
  <1>1. /\ EventsTyped /\ PhaseTold /\ BusyTold /\ CountsTold /\ ScreenTyped /\ PhaseRead /\ BusyRead /\ CountsRead
        /\ read = Len(events) /\ DOMAIN events = 1 .. read /\ read \in Nat
        /\ HandId \in Ids \cup {NoJob} /\ NoJob \notin Id /\ Ids \subseteq Id /\ raw \in Counts
    BY SeqShape, SuiteAssumption, IdAssumption
    DEF ConsoleInv, RunnerTold, UiRead, CaughtUp, EventsTyped, RunnerInv, OutcomeInv, PlacesInv, TypedInv,
        TypeOK, HandId, Ids
  <1>2. ASSUME NEW id \in Ids
        PROVE  shown[id] = phase[id] /\ id \in known
    <2>1. PICK k \in 1 .. read : LastOf(id, k, read) /\ events[k].phase = phase[id]
      BY <1>1 DEF PhaseTold
    <2>2. QED
      BY <1>1, <2>1 DEF PhaseRead, LastOf
  <1>3. ASSUME pc # "off"
        PROVE  running = IF InBusy THEN HandId ELSE NoJob
    <2>1. CASE InBusy
      <3>1. HandId \in Ids /\ events[read].job = HandId
        BY <1>1, <1>3, <2>1 DEF BusyTold, InBusy
      <3>2. PICK k \in 1 .. read : LastOf(HandId, k, read) /\ events[k].phase = phase[HandId]
        BY <1>1, <3>1 DEF PhaseTold
      <3>3. k = read
        <4>1. k # read => read \in k + 1 .. read
          BY <1>1
        <4>2. QED
          BY <3>1, <3>2, <4>1 DEF LastOf
      <3>4. events[read].phase \in Busy /\ read \in 1 .. read
        BY <2>1, <3>2, <3>3 DEF InBusy
      <3>5. PICK b \in 1 .. read :
              /\ \A i \in b + 1 .. read : events[i].phase \notin Busy
              /\ running = IF EndedBy(b, read) THEN NoJob ELSE events[b].job
        BY <1>1, <3>4 DEF BusyRead
      <3>6. b = read
        <4>1. b # read => read \in b + 1 .. read
          BY <1>1
        <4>2. QED
          BY <3>4, <3>5, <4>1
      <3>7. ~ EndedBy(b, read)
        <4>1. b + 1 .. read = {}
          BY <1>1, <3>6
        <4>2. QED
          BY <4>1 DEF EndedBy
      <3>8. QED
        BY <2>1, <3>1, <3>5, <3>6, <3>7
    <2>2. CASE ~ InBusy
      <3>1. \A b \in 1 .. read : events[b].phase \in Busy => EndedBy(b, read)
        BY <1>1, <1>3, <2>2 DEF BusyTold
      <3>2. CASE \E b \in 1 .. read : events[b].phase \in Busy
        BY <1>1, <2>2, <3>1, <3>2 DEF BusyRead
      <3>3. CASE ~ \E b \in 1 .. read : events[b].phase \in Busy
        BY <1>1, <2>2, <3>3 DEF BusyRead
      <3>4. QED
        BY <3>2, <3>3
    <2>3. QED
      BY <2>1, <2>2
  <1>4. ASSUME pc # "off", NEW id \in Ids, NEW s \in Side
        PROVE  progress[id][s] >= Have(id, s) /\ (Sole(id) => progress[id][s] = Have(id, s))
    <2>1. progress[id][s] \in Nat /\ Have(id, s) \in Nat /\ id \in Id
      <3>1. \A c \in Counts : c[s] \in Nat
        BY RunsAssumption DEF Counts
      <3>2. progress[id] \in Counts /\ rawfile[id] \in Counts /\ id \in Id
        BY <1>1, <1>4 DEF ScreenTyped, CountsTold
      <3>3. QED
        BY <1>1, <3>1, <3>2 DEF Have
    <2>2. /\ \A k \in 1 .. read : Counted(events[k], id, s) <= progress[id][s]
          /\ progress[id][s] = 0 \/ \E k \in 1 .. read : Counted(events[k], id, s) = progress[id][s]
      BY <1>1, <2>1 DEF CountsRead
    <2>3. ToldOf(Have(id, s), id, s)
      BY <1>1, <1>4, <2>1 DEF CountsTold, Have
    <2>4. Have(id, s) = 0 \/ \E k \in 1 .. read : Counted(events[k], id, s) = Have(id, s)
      BY <1>1, <2>3 DEF ToldOf
    <2>5. Sole(id) => \A k \in 1 .. read : Counted(events[k], id, s) <= Have(id, s)
      BY <1>1, <1>4, <2>1 DEF CountsTold
    <2>6. Have(id, s) <= progress[id][s] /\ (Sole(id) => progress[id][s] <= Have(id, s))
      BY <2>1, <2>2, <2>4, <2>5
    <2>7. QED
      BY <2>1, <2>6
  <1>5. QED
    BY <1>2, <1>3, <1>4 DEF ShownIsTrue, InBusy

\* Of any suites, with any keys pressed and the file opened again any number of
\* times, the UI that has read the whole file shows the last event of each id and,
\* while the runner lives, the id the runner is at and, of an id that entries do
\* not share, the requests that its memory and the raw files count; of a shared id
\* it counts no less (bench_tui.py 238-343).
THEOREM ConsoleShowsTheRun == ConsoleSpec => []ShownIsTrue
  <1>1. QED
    BY ConsoleInitially, ConsoleStep, ConsoleShows, PTL DEF ConsoleSpec
=============================================================================
