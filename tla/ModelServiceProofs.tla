------------------------- MODULE ModelServiceProofs -------------------------
(* Proofs about ModelService for any number of terminals, processes, passes,  *)
(* commands and exits: what a stop and a start that report success have done. *)
EXTENDS ModelService, SequenceTheorems, TLAPS

(***************************************************************************)
(* The properties speak of a command that has ended.  The invariant says   *)
(* what it has achieved on its way, as a function of the stages left.      *)
(***************************************************************************)

Killing == {"kill", "stragglers", "survivors"}
Early   == Killing \cup {"bootout"}
Stage   == Early \cup {"unloaded", "remove", "render", "load", "await", "registered", "begin", "bootstrap",
                       "free", "probe", "spawn"}
Has(ss, s) == \E i \in DOMAIN ss : ss[i] = s

\* The commands that stop all servers first, and the stages they may have left.
Stops    == {"stop", "unregister"}
Restarts == {"restart", "again"}
Stoppers == Stops \cup Restarts \cup {"switch"}
Later(c) ==
  CASE c \in Stops     -> {"unloaded", "remove"}
    [] c = "switch"    -> {"unloaded", "spawn", "await"}
    [] c = "restart"   -> {"unloaded", "free", "render", "load", "bootstrap", "await"}
    [] c = "again"     -> {"unloaded", "registered", "begin", "free", "bootstrap", "await"}
    [] OTHER           -> Stage

\* Only stages from S, from the k-th on.
From(ss, k, S) == \A i \in DOMAIN ss : i >= k => ss[i] \in S
\* The kill stage and what belongs to it come before everything that starts a server.
Ordered(c, ss) ==
  \/ From(ss, 1, Later(c))
  \/ ss[1] \in {"kill", "survivors"} /\ From(ss, 2, Later(c))
  \/ ss[1] \in {"bootout", "stragglers"} /\ Len(ss) > 1 /\ ss[2] = "kill" /\ From(ss, 3, Later(c))
\* A start of the job is followed by the wait for it.
BeginLast(ss) ==
  /\ \A i \in DOMAIN ss : ss[i] = "begin" => i + 1 = Len(ss) /\ ss[i + 1] = "await"
  /\ Has(ss, "begin") => ~ Has(ss, "bootstrap")

\* No more killing ahead.
Past(ss) == From(ss, 1, Stage \ Early)
\* What the command c may have left.
ListOK(c, ss) ==
  /\ ss \in Seq(Stage)
  /\ c \in Stoppers => Ordered(c, ss)
  /\ c = "again" => BeginLast(ss)
  /\ c \in Restarts /\ ~ Past(ss) => Has(ss, "free") \/ Has(ss, "begin")

\* The command of t is past killing, and went well so far.
Cleared(t) == result[t] \in {"busy", "ok"} /\ Past(todo[t])
InKill(t)  == todo[t] # <<>> /\ todo[t][1] \in Killing
InOut(t)   == todo[t] # <<>> /\ todo[t][1] = "bootout"

TableOK ==
  /\ proc \in [Proc -> [at : {"free", "guard", "check", "exec", "starting", "loading", "up"},
                        by : {"nobody", "agent", "loose", "baseline"},
                        model : {"none", "qwen", "crow", "baseline"}]]
  /\ \A p \in Proc : proc[p].at = "free" => proc[p] = Free
  /\ listener \in [{"primary", "baseline"} -> {NoProc, Foreign} \cup Proc]
  /\ \A l \in DOMAIN listener : listener[l] \in Proc => proc[listener[l]].at \in {"loading", "up"}
\* launchd has a process only of a loaded job, and no starter that it does not know.
AgentOK ==
  /\ loaded \in BOOLEAN /\ plist \in BOOLEAN /\ agent \in Proc \cup {NoProc}
  /\ agent \in Proc => proc[agent] # Free
  /\ ~ loaded => agent = NoProc
  /\ \A p \in Starter : proc[p].by = "agent" => p = agent
ShellTypes ==
  /\ command \in [Terminal -> DOMAIN Script] /\ todo \in [Terminal -> Seq(Stage)]
  /\ result \in [Terminal -> {"none", "busy", "ok", "failed"}]
  /\ pass \in [Terminal -> Nat] /\ calm \in [Terminal -> BOOLEAN]
  /\ pids \in [Terminal -> SUBSET Proc] /\ old \in [Terminal -> SUBSET ({NoProc, Foreign} \cup Proc)]
Lists == \A t \in Terminal : ListOK(command[t], todo[t]) /\ (result[t] # "busy" => todo[t] = <<>>)
\* What a command found and did not end still runs.
OldRuns == \A t \in Terminal :
  /\ old[t] \cap Proc \subseteq Listed
  /\ command[t] \in Stoppers /\ Cleared(t) => old[t] \cap Proc = {}

\* While nothing interferes only the command itself changes something.
Alone(t) ==
  /\ \A u \in Terminal \ {t} : result[u] # "busy"
  /\ InOut(t) => \A p \in Starter : proc[p].by = "agent"
  /\ InKill(t) => ~ loaded /\ agent = NoProc /\ Starter = {}
\* What runs since all servers were stopped is the command's own.
Ours(t) ==
  /\ command[t] \in Stops \cup {"switch"} => ~ loaded /\ agent = NoProc
  /\ Has(todo[t], "begin") => ~ loaded
  /\ \A p \in Proc : proc[p] # Free =>
       /\ command[t] \notin Stops
       /\ proc[p].by = (IF command[t] = "switch" THEN "loose" ELSE "agent")
       /\ proc[p].model = Model[command[t]]
  /\ command[t] \in Restarts /\ listener["primary"] = Foreign => Has(todo[t], "free") \/ Has(todo[t], "begin")
ForeignSeen(t) == result[t] \in {"busy", "ok"} /\ listener["primary"] = Foreign => Foreign \in old[t]
Calm == \A t \in Terminal : calm[t] /\ command[t] \in Stoppers =>
          Alone(t) /\ (Cleared(t) => Ours(t)) /\ ForeignSeen(t)

ServiceInv == TableOK /\ AgentOK /\ ShellTypes /\ Lists /\ OldRuns /\ Calm

-----------------------------------------------------------------------------
(* Lists of stages.  The prover sees the two ways of prefixing a list only   *)
(* through what is said of them here.                                        *)
InFront(a, ss) == <<a>> \o ss
FreeBoot(ss)   == <<"free", "bootstrap">> \o ss

\* No process has the number that stands for none, or for a foreign server.
LEMMA Names == NoProc \notin Proc /\ Foreign \notin Proc /\ Foreign # NoProc
  BY LimitAssumption DEF NoProc, Foreign, Proc

\* A list without its first stage.
LEMMA Shorter ==
  ASSUME NEW T, NEW ss \in Seq(T), ss # <<>>
  PROVE  /\ Tail(ss) \in Seq(T) /\ Len(ss) \in Nat \ {0} /\ Len(Tail(ss)) = Len(ss) - 1
         /\ Head(ss) = ss[1] /\ ss[1] \in T
         /\ \A i \in DOMAIN Tail(ss) : i + 1 \in DOMAIN ss /\ Tail(ss)[i] = ss[i + 1]
         /\ DOMAIN ss = 1 .. Len(ss) /\ DOMAIN Tail(ss) = 1 .. Len(ss) - 1
  OBVIOUS

LEMMA InFrontIs ==
  ASSUME NEW T, NEW ss \in Seq(T), NEW a \in T
  PROVE  /\ InFront(a, ss) \in Seq(T) /\ Len(InFront(a, ss)) = Len(ss) + 1
         /\ InFront(a, ss)[1] = a
         /\ \A i \in DOMAIN ss : InFront(a, ss)[i + 1] = ss[i]
  BY DEF InFront

LEMMA FreeBootIs ==
  ASSUME NEW T, NEW ss \in Seq(T), "free" \in T, "bootstrap" \in T
  PROVE  /\ FreeBoot(ss) \in Seq(T) /\ Len(FreeBoot(ss)) = Len(ss) + 2
         /\ FreeBoot(ss)[1] = "free" /\ FreeBoot(ss)[2] = "bootstrap"
         /\ \A i \in DOMAIN ss : FreeBoot(ss)[i + 2] = ss[i]
  BY DEF FreeBoot

\* What a command that stops all servers has left after the kill is no killing.
LEMMA LaterStages ==
  ASSUME NEW c \in Stoppers
  PROVE  Later(c) \subseteq Stage \ Early
  BY DEF Later, Stoppers, Stops, Restarts, Stage, Early, Killing

\* From the k-th stage on, for the list without its first stage.
LEMMA FromTail ==
  ASSUME NEW T, NEW ss \in Seq(T), ss # <<>>, NEW S, NEW k \in Nat, From(ss, k + 1, S)
  PROVE  From(Tail(ss), k, S)
  BY Shorter DEF From

LEMMA FromLess ==
  ASSUME NEW T, NEW ss \in Seq(T), NEW S, NEW R, S \subseteq R, NEW k \in Nat, NEW m \in Nat, m >= k, From(ss, k, S)
  PROVE  From(ss, m, R)
  BY DEF From

\* How far a command that stops all servers is, by the first stage it has left.
LEMMA Heads ==
  ASSUME NEW c \in Stoppers, NEW ss, ListOK(c, ss), ss # <<>>
  PROVE  /\ ss[1] \in {"bootout", "stragglers"} =>
              ~ Past(ss) /\ Tail(ss) # <<>> /\ Tail(ss)[1] = "kill" /\ From(ss, 3, Later(c))
         /\ ss[1] \in {"kill", "survivors"} => ~ Past(ss) /\ From(ss, 2, Later(c))
         /\ ss[1] \notin Early => From(ss, 1, Later(c)) /\ ss[1] \in Later(c) /\ Past(ss)
<1>1. /\ ss \in Seq(Stage) /\ Len(ss) \in Nat \ {0} /\ DOMAIN ss = 1 .. Len(ss) /\ ss[1] \in Stage
      /\ Len(Tail(ss)) = Len(ss) - 1 /\ \A i \in DOMAIN Tail(ss) : Tail(ss)[i] = ss[i + 1]
      /\ DOMAIN Tail(ss) = 1 .. Len(ss) - 1
  BY Shorter DEF ListOK
<1>2. Ordered(c, ss)
  BY DEF ListOK
<1>3. Later(c) \subseteq Stage \ Early
  BY LaterStages
<1>4. From(ss, 1, Later(c)) => ss[1] \in Later(c) /\ Past(ss)
  BY <1>1, <1>3 DEF From, Past
<1>5. ss[1] \in Early => ~ Past(ss)
  BY <1>1 DEF From, Past
<1>6. ASSUME ss[1] \in {"bootout", "stragglers"}
      PROVE  ~ Past(ss) /\ Tail(ss) # <<>> /\ Tail(ss)[1] = "kill" /\ From(ss, 3, Later(c))
  <2>1. ss[1] \in Early \/ ss[1] = "stragglers"
    BY <1>6 DEF Early
  <2>2. ss[1] \in Early
    BY <2>1 DEF Early, Killing
  <2>3. ss[1] \notin Later(c)
    BY <2>2, <1>3
  <2>4. Len(ss) > 1 /\ ss[2] = "kill" /\ From(ss, 3, Later(c))
    BY <1>2, <1>4, <2>3, <1>6 DEF Ordered
  <2>5. 1 \in DOMAIN Tail(ss)
    BY <1>1, <2>4
  <2>6. Tail(ss)[1] = ss[2] /\ Len(Tail(ss)) # 0
    <3>1. \A i \in DOMAIN Tail(ss) : i = 1 => Tail(ss)[i] = ss[2]
      BY <1>1
    <3> QED  BY <1>1, <2>4, <2>5, <3>1
  <2>7. Tail(ss)[1] = "kill" /\ Tail(ss) # <<>>
    BY <2>4, <2>6
  <2> QED  BY <2>2, <2>4, <2>6, <2>7, <1>5
<1>7. ASSUME ss[1] \in {"kill", "survivors"}
      PROVE  ~ Past(ss) /\ From(ss, 2, Later(c))
  <2>1. ss[1] \in Early
    BY <1>7 DEF Early, Killing
  <2>2. ss[1] \notin Later(c)
    BY <2>1, <1>3
  <2>3. From(ss, 2, Later(c))
    BY <1>2, <1>4, <2>2, <1>7 DEF Ordered
  <2> QED  BY <2>1, <2>3, <1>5
<1>8. ASSUME ss[1] \notin Early
      PROVE  From(ss, 1, Later(c))
  BY <1>2, <1>8 DEF Ordered, Early, Killing
<1> QED  BY <1>4, <1>6, <1>7, <1>8

\* A command goes on to its next stage.
LEMMA PastTail ==
  ASSUME NEW c \in Stoppers, NEW ss, ListOK(c, ss), ss # <<>>, ss[1] \notin {"bootout", "stragglers"}
  PROVE  From(Tail(ss), 1, Later(c)) /\ Past(Tail(ss))
<1>1. ss \in Seq(Stage) /\ Tail(ss) \in Seq(Stage)
  BY Shorter DEF ListOK
<1>2. From(ss, 2, Later(c))
  <2>1. CASE ss[1] \in {"kill", "survivors"}
    BY <2>1, Heads
  <2>2. CASE ss[1] \notin {"kill", "survivors"}
    <3>1. ss[1] \notin Early
      BY <2>2 DEF Early, Killing
    <3> QED  BY <3>1, <1>1, Heads, FromLess
  <2> QED  BY <2>1, <2>2
<1>3. From(Tail(ss), 1, Later(c))
  BY <1>1, <1>2, FromTail
<1>4. From(Tail(ss), 1, Stage \ Early)
  BY <1>3, LaterStages DEF From
<1> QED  BY <1>3, <1>4 DEF Past

LEMMA PastHead ==
  ASSUME NEW ss \in Seq(Stage), ss # <<>>, Past(ss)
  PROVE  ss[1] \notin Early
<1>1. 1 \in DOMAIN ss
  OBVIOUS
<1> QED  BY <1>1 DEF Past, From

LEMMA HasTail ==
  ASSUME NEW ss \in Seq(Stage), ss # <<>>, NEW s
  PROVE  /\ Has(Tail(ss), s) => Has(ss, s)
         /\ Has(ss, s) /\ ss[1] # s => Has(Tail(ss), s)
<1>1. /\ DOMAIN ss = 1 .. Len(ss) /\ DOMAIN Tail(ss) = 1 .. Len(ss) - 1 /\ Len(ss) \in Nat
      /\ \A i \in DOMAIN Tail(ss) : i + 1 \in DOMAIN ss /\ Tail(ss)[i] = ss[i + 1]
  BY Shorter
<1>2. ASSUME NEW i \in DOMAIN ss, ss[i] = s, ss[1] # s
      PROVE  i - 1 \in DOMAIN Tail(ss) /\ Tail(ss)[i - 1] = s
  <2>1. i - 1 \in DOMAIN Tail(ss) /\ (i - 1) + 1 = i
    BY <1>1, <1>2
  <2> QED  BY <1>1, <1>2, <2>1
<1> QED  BY <1>1, <1>2 DEF Has

LEMMA ListTail ==
  ASSUME NEW c \in DOMAIN Script, NEW ss, ListOK(c, ss), ss # <<>>
  PROVE  ListOK(c, Tail(ss))
<1>1. /\ ss \in Seq(Stage) /\ Tail(ss) \in Seq(Stage)
      /\ DOMAIN ss = 1 .. Len(ss) /\ DOMAIN Tail(ss) = 1 .. Len(ss) - 1 /\ Len(ss) \in Nat \ {0}
      /\ \A i \in DOMAIN Tail(ss) : i + 1 \in DOMAIN ss /\ Tail(ss)[i] = ss[i + 1]
      /\ Len(Tail(ss)) = Len(ss) - 1 /\ Len(Tail(ss)) \in Nat
  BY Shorter DEF ListOK
<1>2. c \in Stoppers => Ordered(c, Tail(ss))
  <2>1. ASSUME c \in Stoppers, ss[1] \notin {"bootout", "stragglers"}
        PROVE  Ordered(c, Tail(ss))
    BY <2>1, PastTail DEF Ordered
  <2>2. ASSUME c \in Stoppers, ss[1] \in {"bootout", "stragglers"}
        PROVE  Ordered(c, Tail(ss))
    <3>1. Tail(ss)[1] = "kill" /\ From(ss, 3, Later(c))
      BY <2>2, Heads
    <3>2. From(Tail(ss), 2, Later(c))
      BY <3>1, <1>1, FromTail
    <3> QED  BY <3>1, <3>2 DEF Ordered
  <2> QED  BY <2>1, <2>2
<1>3. c = "again" => BeginLast(Tail(ss))
  <2> SUFFICES ASSUME c = "again"  PROVE BeginLast(Tail(ss))
    OBVIOUS
  <2>1. BeginLast(ss)
    BY DEF ListOK
  <2>2. ASSUME NEW i \in DOMAIN Tail(ss), Tail(ss)[i] = "begin"
        PROVE  i + 1 = Len(Tail(ss)) /\ Tail(ss)[i + 1] = "await"
    <3>1. i + 1 \in DOMAIN ss /\ ss[i + 1] = "begin"
      BY <2>2, <1>1
    <3>2. (i + 1) + 1 = Len(ss) /\ ss[(i + 1) + 1] = "await"
      BY <3>1, <2>1 DEF BeginLast
    <3>3. i + 1 = Len(Tail(ss)) /\ i + 1 \in DOMAIN Tail(ss)
      BY <3>2, <1>1
    <3> QED  BY <3>2, <3>3, <1>1
  <2>3. Has(Tail(ss), "begin") => ~ Has(Tail(ss), "bootstrap")
    BY <2>1, <1>1, HasTail DEF BeginLast
  <2> QED  BY <2>2, <2>3 DEF BeginLast
<1>4. ASSUME c \in Restarts, ~ Past(Tail(ss))
      PROVE  Has(Tail(ss), "free") \/ Has(Tail(ss), "begin")
  <2>1. c \in Stoppers
    BY <1>4 DEF Stoppers
  <2>2. ss[1] \in {"bootout", "stragglers"}
    BY <2>1, <1>4, PastTail
  <2>3. ~ Past(ss) /\ ss[1] # "free" /\ ss[1] # "begin"
    BY <2>1, <2>2, Heads
  <2>4. Has(ss, "free") \/ Has(ss, "begin")
    BY <2>3, <1>4 DEF ListOK
  <2> QED  BY <2>3, <2>4, <1>1, HasTail
<1> QED  BY <1>1, <1>2, <1>3, <1>4 DEF ListOK

\* A stage in front of a list.
LEMMA InFrontHas ==
  ASSUME NEW ss \in Seq(Stage), NEW a \in Stage
  PROVE  /\ \A s : Has(ss, s) => Has(InFront(a, ss), s)
         /\ \A S : \A k \in Nat \ {0} : From(ss, k, S) => From(InFront(a, ss), k + 1, S)
         /\ BeginLast(ss) /\ a \notin {"begin", "bootstrap"} => BeginLast(InFront(a, ss))
<1> DEFINE xs == InFront(a, ss)
<1>1. /\ xs \in Seq(Stage) /\ Len(xs) = Len(ss) + 1 /\ xs[1] = a
      /\ \A i \in DOMAIN ss : xs[i + 1] = ss[i]
  BY InFrontIs
<1>2. DOMAIN xs = 1 .. Len(xs) /\ DOMAIN ss = 1 .. Len(ss) /\ Len(ss) \in Nat
  BY <1>1
<1> HIDE DEF xs
<1>3. \A i \in DOMAIN xs : i = 1 \/ (i - 1 \in DOMAIN ss /\ xs[i] = ss[i - 1])
  <2> TAKE i \in DOMAIN xs
  <2>1. i # 1 => i - 1 \in DOMAIN ss /\ (i - 1) + 1 = i
    BY <1>1, <1>2
  <2> QED  BY <2>1, <1>1
<1>4. ASSUME NEW s, Has(ss, s)
      PROVE  Has(xs, s)
  <2>1. PICK i \in DOMAIN ss : ss[i] = s
    BY <1>4 DEF Has
  <2>2. i + 1 \in DOMAIN xs /\ xs[i + 1] = s
    BY <2>1, <1>1, <1>2
  <2> QED  BY <2>2 DEF Has
<1>5. ASSUME NEW S, NEW k \in Nat \ {0}, From(ss, k, S)
      PROVE  From(xs, k + 1, S)
  <2> SUFFICES ASSUME NEW i \in DOMAIN xs, i >= k + 1, i \in Nat  PROVE xs[i] \in S
    BY <1>2, <1>1 DEF From
  <2>1. i # 1 /\ i - 1 >= k
    OBVIOUS
  <2>2. i - 1 \in DOMAIN ss /\ xs[i] = ss[i - 1]
    BY <2>1, <1>3
  <2> QED  BY <2>1, <2>2, <1>5 DEF From
<1>6. ASSUME BeginLast(ss), a \notin {"begin", "bootstrap"}
      PROVE  BeginLast(xs)
  <2>1. ASSUME NEW i \in DOMAIN xs, xs[i] = "begin"
        PROVE  i + 1 = Len(xs) /\ xs[i + 1] = "await"
    <3>1. i - 1 \in DOMAIN ss /\ ss[i - 1] = "begin" /\ i \in Nat
      BY <2>1, <1>1, <1>2, <1>3, <1>6
    <3>2. (i - 1) + 1 = Len(ss) /\ ss[(i - 1) + 1] = "await"
      BY <3>1, <1>6 DEF BeginLast
    <3>3. (i - 1) + 1 = i /\ i \in DOMAIN ss
      BY <3>1, <3>2, <1>2
    <3> QED  BY <3>2, <3>3, <1>1
  <2>2. ASSUME NEW s, Has(xs, s), s # a
        PROVE  Has(ss, s)
    BY <2>2, <1>1, <1>3 DEF Has
  <2>3. Has(xs, "begin") => ~ Has(xs, "bootstrap")
    BY <2>2, <1>6 DEF BeginLast
  <2> QED  BY <2>1, <2>3 DEF BeginLast
<1> QED  BY <1>4, <1>5, <1>6 DEF xs

LEMMA ListKill ==
  ASSUME NEW c \in DOMAIN Script, NEW ss, ListOK(c, ss), ss # <<>>, ss[1] = "kill"
  PROVE  /\ ListOK(c, InFront("stragglers", ss))
         /\ InFront("stragglers", ss) # <<>> /\ InFront("stragglers", ss)[1] = "stragglers"
         /\ ListOK(c, InFront("survivors", Tail(ss)))
         /\ InFront("survivors", Tail(ss)) # <<>> /\ InFront("survivors", Tail(ss))[1] = "survivors"
<1> DEFINE rest == Tail(ss)
<1>1. ss \in Seq(Stage) /\ rest \in Seq(Stage) /\ Len(ss) \in Nat \ {0} /\ Len(rest) = Len(ss) - 1
  BY Shorter DEF ListOK
<1>2. ListOK(c, rest) /\ (c \in Stoppers => From(rest, 1, Later(c)))
  BY ListTail, PastTail
<1>2a. \A s : Has(ss, s) /\ ss[1] # s => Has(rest, s)
  BY <1>1, HasTail
<1> HIDE DEF rest
<1>3. "stragglers" \in Stage /\ "survivors" \in Stage
  BY DEF Stage, Early, Killing
<1>4. /\ InFront("stragglers", ss) \in Seq(Stage) /\ Len(InFront("stragglers", ss)) = Len(ss) + 1
      /\ InFront("stragglers", ss)[1] = "stragglers"
      /\ \A i \in DOMAIN ss : InFront("stragglers", ss)[i + 1] = ss[i]
  BY <1>1, <1>3, InFrontIs
<1>5. /\ InFront("survivors", rest) \in Seq(Stage) /\ Len(InFront("survivors", rest)) = Len(rest) + 1
      /\ InFront("survivors", rest)[1] = "survivors"
  BY <1>1, <1>3, InFrontIs
<1>6. InFront("stragglers", ss)[2] = "kill"
  <2>1. 1 \in DOMAIN ss /\ 1 + 1 = 2
    BY <1>1
  <2>2. \A i \in DOMAIN ss : i = 1 => InFront("stragglers", ss)[2] = ss[1]
    BY <1>4, <2>1
  <2> QED  BY <2>1, <2>2
<1>7. ASSUME c \in Stoppers
      PROVE  Ordered(c, InFront("stragglers", ss)) /\ Ordered(c, InFront("survivors", rest))
  <2>1. From(ss, 2, Later(c)) /\ From(rest, 1, Later(c))
    BY <1>7, <1>2, Heads
  <2>2. From(InFront("stragglers", ss), 2 + 1, Later(c)) /\ From(InFront("survivors", rest), 1 + 1, Later(c))
    <3>1. 1 \in Nat \ {0} /\ 2 \in Nat \ {0}
      OBVIOUS
    <3> QED  BY <2>1, <3>1, <1>1, <1>3, InFrontHas
  <2>3. Len(InFront("stragglers", ss)) > 1
    BY <1>1, <1>4
  <2> QED  BY <2>2, <2>3, <1>4, <1>5, <1>6 DEF Ordered
<1>8. ASSUME c = "again"
      PROVE  BeginLast(InFront("stragglers", ss)) /\ BeginLast(InFront("survivors", rest))
  BY <1>8, <1>1, <1>2, <1>3, InFrontHas DEF ListOK
<1>9. ASSUME c \in Restarts
      PROVE  /\ Has(InFront("stragglers", ss), "free") \/ Has(InFront("stragglers", ss), "begin")
             /\ Has(InFront("survivors", rest), "free") \/ Has(InFront("survivors", rest), "begin")
  <2>1. ~ Past(ss)
    BY <1>9, Heads DEF Stoppers
  <2>2. Has(ss, "free") \/ Has(ss, "begin")
    BY <2>1, <1>9 DEF ListOK
  <2>3. Has(rest, "free") \/ Has(rest, "begin")
    BY <2>2, <1>2a
  <2> QED  BY <2>2, <2>3, <1>1, <1>3, InFrontHas
<1> QED  BY <1>1, <1>4, <1>5, <1>7, <1>8, <1>9 DEF ListOK, rest

\* The job is loaded: its port is looked at and launchd told before the wait.
LEMMA ListLoad ==
  ASSUME NEW c \in DOMAIN Script, NEW ss, ListOK(c, ss), ss # <<>>, ss[1] \in {"load", "begin"}
  PROVE  /\ ListOK(c, FreeBoot(Tail(ss))) /\ FreeBoot(Tail(ss)) # <<>> /\ FreeBoot(Tail(ss))[1] = "free"
         /\ Has(FreeBoot(Tail(ss)), "free")
         /\ c \in Restarts => ~ Has(FreeBoot(Tail(ss)), "begin")
         /\ c \in Stoppers => Past(FreeBoot(Tail(ss))) /\ c \in Restarts
<1> DEFINE xs == FreeBoot(Tail(ss))
<1>1. /\ ss \in Seq(Stage) /\ Tail(ss) \in Seq(Stage) /\ Len(ss) \in Nat \ {0} /\ Len(Tail(ss)) = Len(ss) - 1
      /\ DOMAIN Tail(ss) = 1 .. Len(ss) - 1 /\ DOMAIN ss = 1 .. Len(ss)
      /\ \A i \in DOMAIN Tail(ss) : Tail(ss)[i] = ss[i + 1]
  BY Shorter DEF ListOK
<1>2. "free" \in Stage /\ "bootstrap" \in Stage /\ ss[1] \notin Early
  BY DEF Stage, Early, Killing
<1>3. /\ xs \in Seq(Stage) /\ Len(xs) = Len(Tail(ss)) + 2 /\ xs[1] = "free" /\ xs[2] = "bootstrap"
      /\ \A i \in DOMAIN Tail(ss) : xs[i + 2] = Tail(ss)[i]
  BY <1>1, <1>2, FreeBootIs
<1> HIDE DEF xs
<1>4. DOMAIN xs = 1 .. Len(ss) + 1
  BY <1>1, <1>3
<1>5. ASSUME NEW i \in DOMAIN xs, i # 1, i # 2
      PROVE  i - 2 \in DOMAIN Tail(ss) /\ xs[i] = Tail(ss)[i - 2]
  <2>1. i - 2 \in DOMAIN Tail(ss) /\ (i - 2) + 2 = i
    BY <1>1, <1>4, <1>5
  <2> QED  BY <2>1, <1>3
<1>6. Has(xs, "free")
  <2>1. 1 \in DOMAIN xs
    BY <1>1, <1>4
  <2> QED  BY <2>1, <1>3 DEF Has
<1>7. ASSUME c \in Stoppers
      PROVE  c \in Restarts /\ {"free", "bootstrap"} \subseteq Later(c) /\ From(Tail(ss), 1, Later(c))
  <2>1. ss[1] \in Later(c) /\ From(Tail(ss), 1, Later(c))
    BY <1>2, <1>7, Heads, PastTail, <1>1
  <2> QED  BY <2>1, <1>7 DEF Later, Stoppers, Stops, Restarts
<1>8. ASSUME c \in Stoppers
      PROVE  From(xs, 1, Later(c))
  <2> SUFFICES ASSUME NEW i \in DOMAIN xs  PROVE xs[i] \in Later(c)
    BY DEF From
  <2>1. CASE i = 1 \/ i = 2
    BY <2>1, <1>3, <1>7, <1>8
  <2>2. CASE ~ (i = 1 \/ i = 2)
    BY <2>2, <1>5, <1>7, <1>8, <1>1 DEF From
  <2> QED  BY <2>1, <2>2
<1>9. ASSUME c \in Stoppers
      PROVE  Past(xs) /\ Ordered(c, xs)
  BY <1>8, <1>9, LaterStages DEF Past, From, Ordered
<1>10. ASSUME c \in Restarts
       PROVE  ~ Has(xs, "begin")
  <2>1. c \in Stoppers
    BY <1>10 DEF Stoppers
  <2>2. CASE c = "restart"
    <3>1. "begin" \notin Later(c)
      BY <2>2 DEF Later, Stops, Restarts
    <3> QED  BY <3>1, <2>1, <1>8, <1>4 DEF Has, From
  <2>3. CASE c = "again"
    <3>1. BeginLast(ss) /\ ss[1] \in Later(c)
      BY <2>1, <2>3, <1>2, Heads DEF ListOK
    <3>2. ss[1] = "begin"
      BY <3>1, <2>3 DEF Later, Stops, Restarts
    <3>3. 1 \in DOMAIN ss
      BY <1>1
    <3>4. 1 + 1 = Len(ss) /\ ss[1 + 1] = "await"
      BY <3>1, <3>2, <3>3 DEF BeginLast
    <3>5. Len(ss) = 2 /\ ss[2] = "await"
      BY <3>4
    <3>6. ASSUME NEW i \in DOMAIN xs
          PROVE  xs[i] # "begin"
      <4>1. CASE i = 1 \/ i = 2
        BY <4>1, <1>3
      <4>2. CASE ~ (i = 1 \/ i = 2)
        <5>1. i - 2 = 1 /\ xs[i] = Tail(ss)[i - 2] /\ 1 \in DOMAIN Tail(ss)
          BY <4>2, <1>4, <1>5, <1>1, <3>5
        <5>2. xs[i] = ss[1 + 1]
          BY <5>1, <1>1
        <5> QED  BY <5>2, <3>4
      <4> QED  BY <4>1, <4>2
    <3> QED  BY <3>6 DEF Has
  <2> QED  BY <2>2, <2>3, <1>10 DEF Restarts
<1>11. c = "again" => BeginLast(xs)
  BY <1>10 DEF BeginLast, Has, Restarts
<1> QED  BY <1>1, <1>3, <1>6, <1>7, <1>9, <1>10, <1>11 DEF ListOK, xs

LEMMA ListEmpty ==
  ASSUME NEW c \in DOMAIN Script
  PROVE  ListOK(c, <<>>) /\ Past(<<>>) /\ \A s : ~ Has(<<>>, s)
BY DEF ListOK, Past, Has, From, Ordered, BeginLast

\* A command that stops all servers and goes on with xs.
LEMMA StopThen ==
  ASSUME NEW xs \in Seq(Stage)
  PROVE  /\ Stop \o xs \in Seq(Stage) /\ Len(Stop \o xs) = Len(xs) + 3
         /\ (Stop \o xs)[1] = "bootout" /\ (Stop \o xs)[2] = "kill" /\ (Stop \o xs)[3] = "unloaded"
         /\ \A i \in DOMAIN xs : (Stop \o xs)[i + 3] = xs[i]
<1>1. Stop \in Seq(Stage)
  BY DEF Stop, Stage, Early, Killing
<1>2. Len(Stop) = 3 /\ Stop[1] = "bootout" /\ Stop[2] = "kill" /\ Stop[3] = "unloaded"
  BY DEF Stop
<1> PICK r : r = Stop
  OBVIOUS
<1>3. /\ r \o xs \in Seq(Stage) /\ Len(r \o xs) = Len(xs) + 3
      /\ \A i \in 1 .. 3 : (r \o xs)[i] = r[i]
      /\ \A i \in DOMAIN xs : (r \o xs)[i + 3] = xs[i]
  <2> PICK q : q = r \o xs
    OBVIOUS
  <2>1. /\ q \in Seq(Stage) /\ Len(q) = Len(r) + Len(xs)
        /\ \A i \in 1 .. Len(r) + Len(xs) : q[i] = IF i <= Len(r) THEN r[i] ELSE xs[i - Len(r)]
    BY <1>1, ConcatProperties
  <2>2. Len(r) = 3 /\ Len(xs) \in Nat /\ DOMAIN xs = 1 .. Len(xs)
    BY <1>2
  <2>3. \A i \in 1 .. 3 : q[i] = r[i]
    BY <2>1, <2>2
  <2>4. ASSUME NEW i \in DOMAIN xs
        PROVE  q[i + 3] = xs[i]
    <3>1. i + 3 \in 1 .. Len(r) + Len(xs) /\ (i + 3) - Len(r) = i /\ ~ (i + 3 <= Len(r))
      BY <2>2
    <3> QED  BY <2>1, <3>1
  <2> QED  BY <2>1, <2>2, <2>3, <2>4
<1> QED  BY <1>2, <1>3

LEMMA StopListOK ==
  ASSUME NEW c \in Stoppers, NEW xs \in Seq(Stage), From(xs, 1, Later(c)), c = "again" => BeginLast(xs),
         c \in Restarts => Has(xs, "free") \/ Has(xs, "begin")
  PROVE  ListOK(c, Stop \o xs) /\ Stop \o xs # <<>> /\ (Stop \o xs)[1] = "bootout"
<1> PICK q : q = Stop \o xs
  OBVIOUS
<1>1. /\ q \in Seq(Stage) /\ Len(q) = Len(xs) + 3 /\ q[1] = "bootout" /\ q[2] = "kill" /\ q[3] = "unloaded"
      /\ \A i \in DOMAIN xs : q[i + 3] = xs[i]
  BY StopThen
<1>2. DOMAIN q = 1 .. Len(xs) + 3 /\ DOMAIN xs = 1 .. Len(xs) /\ Len(xs) \in Nat
  BY <1>1
<1>3. ASSUME NEW i \in DOMAIN q, i > 3
      PROVE  i - 3 \in DOMAIN xs /\ q[i] = xs[i - 3]
  <2>1. i - 3 \in DOMAIN xs /\ (i - 3) + 3 = i
    BY <1>2, <1>3
  <2> QED  BY <2>1, <1>1
<1>4. "unloaded" \in Later(c)
  BY DEF Later, Stoppers, Stops, Restarts
<1>5. From(q, 3, Later(c))
  <2> SUFFICES ASSUME NEW i \in DOMAIN q, i >= 3  PROVE q[i] \in Later(c)
    BY DEF From
  <2>1. CASE i = 3
    BY <2>1, <1>1, <1>4
  <2>2. CASE i > 3
    BY <2>2, <1>2, <1>3 DEF From
  <2> QED  BY <2>1, <2>2, <1>2
<1>6. Ordered(c, q)
  BY <1>1, <1>2, <1>5 DEF Ordered
<1>7. ASSUME NEW s, Has(xs, s)
      PROVE  Has(q, s)
  <2>1. PICK i \in DOMAIN xs : xs[i] = s
    BY <1>7 DEF Has
  <2>2. i + 3 \in DOMAIN q /\ q[i + 3] = s
    BY <2>1, <1>1, <1>2
  <2> QED  BY <2>2 DEF Has
<1>8. ASSUME NEW i \in DOMAIN q, i <= 3
      PROVE  q[i] \notin {"begin", "bootstrap"}
  BY <1>1, <1>2, <1>8
<1>9. ASSUME c = "again"
      PROVE  BeginLast(q)
  <2>1. ASSUME NEW i \in DOMAIN q, q[i] = "begin"
        PROVE  i + 1 = Len(q) /\ q[i + 1] = "await"
    <3>1. i - 3 \in DOMAIN xs /\ xs[i - 3] = "begin" /\ i \in Nat
      BY <2>1, <1>2, <1>3, <1>8
    <3>2. (i - 3) + 1 = Len(xs) /\ xs[(i - 3) + 1] = "await"
      BY <3>1, <1>9 DEF BeginLast
    <3>3. (i - 3) + 1 \in DOMAIN xs /\ ((i - 3) + 1) + 3 = i + 1 /\ i + 1 = Len(q)
      BY <3>1, <3>2, <1>1, <1>2
    <3> QED  BY <3>2, <3>3, <1>1
  <2>2. ASSUME NEW s \in {"begin", "bootstrap"}, Has(q, s)
        PROVE  Has(xs, s)
    <3>1. PICK i \in DOMAIN q : q[i] = s
      BY <2>2 DEF Has
    <3>2. i > 3
      BY <3>1, <1>2, <1>8
    <3> QED  BY <3>1, <3>2, <1>3 DEF Has
  <2>3. Has(q, "begin") => ~ Has(q, "bootstrap")
    BY <2>2, <1>9 DEF BeginLast
  <2> QED  BY <2>1, <2>3 DEF BeginLast
<1>10. ListOK(c, q)
  BY <1>1, <1>6, <1>7, <1>9 DEF ListOK
<1>11. q # <<>>
  BY <1>1, <1>2
<1> QED  BY <1>1, <1>10, <1>11

LEMMA ListScript ==
  ASSUME NEW c \in DOMAIN Script
  PROVE  ListOK(c, Script[c]) /\ Script[c] # <<>> /\ (c \in Stoppers => Script[c][1] = "bootout")
<1> DEFINE remove == <<"remove">>
           again == <<"registered", "begin", "await">>
           restart == <<"free", "render", "load", "await">>
           switch == <<"spawn", "await">>
           baseline == <<"free", "spawn", "await">>
<1>0. DOMAIN Script = {"stop", "unregister", "register", "install", "begin", "again", "start", "restart", "switch", "baseline"}
  BY DEF Script
<1>s. /\ Script["stop"] = Stop /\ Script["unregister"] = Stop \o remove
      /\ Script["again"] = Stop \o again /\ Script["restart"] = Stop \o restart
      /\ Script["switch"] = Stop \o switch /\ Script["baseline"] = Stop \o baseline
  BY DEF Script
<1>1. CASE c = "stop"
  <2>1. Stop \in Seq(Stage) /\ Stop # <<>> /\ Stop[1] = "bootout"
    BY DEF Stop, Stage, Early, Killing
  <2>2. Len(Stop) = 3 /\ Stop[2] = "kill" /\ Stop[3] = "unloaded" /\ DOMAIN Stop = 1 .. 3
    BY DEF Stop
  <2>3. From(Stop, 3, Later(c))
    BY <1>1, <2>2 DEF From, Later, Stops
  <2>4. Ordered(c, Stop)
    BY <2>1, <2>2, <2>3 DEF Ordered
  <2>5. c \notin Restarts /\ c # "again" /\ Script[c] = Stop
    BY <1>1, <1>s DEF Restarts
  <2>6. ListOK(c, Stop)
    BY <2>1, <2>4, <2>5 DEF ListOK
  <2> QED  BY <2>1, <2>5, <2>6
<1>2. CASE c = "unregister"
  <2>1. remove \in Seq(Stage) /\ From(remove, 1, Later(c)) /\ c \in Stoppers
    BY <1>2 DEF From, Later, Stage, Stops, Stoppers
  <2>2. c \notin Restarts /\ c # "again"
    BY <1>2 DEF Restarts
  <2> HIDE DEF remove
  <2> QED  BY <1>2, <1>s, <2>1, <2>2, StopListOK
<1>3. CASE c \in {"register", "install", "begin", "start"}
  <2>1. c \notin Stoppers /\ c # "again" /\ c \notin Restarts
    BY <1>3 DEF Stoppers, Stops, Restarts
  <2>2. /\ <<"render", "load">> \in Seq(Stage) /\ <<"render", "load", "await">> \in Seq(Stage)
        /\ <<"registered", "begin">> \in Seq(Stage) /\ <<"probe", "spawn", "await">> \in Seq(Stage)
    BY DEF Stage
  <2>3. /\ Script["register"] = <<"render", "load">> /\ Script["install"] = <<"render", "load", "await">>
        /\ Script["begin"] = <<"registered", "begin">> /\ Script["start"] = <<"probe", "spawn", "await">>
    BY DEF Script
  <2>4. \/ Script[c] = <<"render", "load">> \/ Script[c] = <<"render", "load", "await">>
        \/ Script[c] = <<"registered", "begin">> \/ Script[c] = <<"probe", "spawn", "await">>
    BY <1>3, <2>3
  <2>5. Script[c] \in Seq(Stage)
    BY <2>2, <2>4
  <2>6. Script[c] # <<>>
    BY <2>4
  <2> QED  BY <2>1, <2>5, <2>6 DEF ListOK
<1>4. CASE c = "again"
  <2>1. again \in Seq(Stage) /\ From(again, 1, Later(c)) /\ c \in Stoppers
    BY <1>4 DEF From, Later, Stage, Stops, Stoppers, Restarts
  <2>2. DOMAIN again = 1 .. 3 /\ Len(again) = 3 /\ again[1] = "registered" /\ again[2] = "begin" /\ again[3] = "await"
    OBVIOUS
  <2> HIDE DEF again
  <2>3. BeginLast(again) /\ Has(again, "begin")
    <3>1. \A i \in 1 .. 3 : i = 1 \/ i = 2 \/ i = 3
      OBVIOUS
    <3>2. \A i \in DOMAIN again : again[i] # "bootstrap"
      BY <2>2, <3>1
    <3>3. \A i \in DOMAIN again : again[i] = "begin" => i + 1 = Len(again) /\ again[i + 1] = "await"
      BY <2>2, <3>1
    <3> QED  BY <2>2, <3>2, <3>3 DEF BeginLast, Has
  <2> QED  BY <1>4, <1>s, <2>1, <2>3, StopListOK
<1>5. CASE c = "restart"
  <2>1. restart \in Seq(Stage) /\ From(restart, 1, Later(c)) /\ c \in Stoppers /\ Has(restart, "free")
    BY <1>5 DEF From, Later, Stage, Stops, Stoppers, Restarts, Has
  <2> HIDE DEF restart
  <2> QED  BY <1>5, <1>s, <2>1, StopListOK
<1>6. CASE c = "switch"
  <2>1. switch \in Seq(Stage) /\ From(switch, 1, Later(c)) /\ c \in Stoppers /\ c \notin Restarts
    BY <1>6 DEF From, Later, Stage, Stops, Stoppers, Restarts
  <2> HIDE DEF switch
  <2> QED  BY <1>6, <1>s, <2>1, StopListOK
<1>7. CASE c = "baseline"
  <2>1. c \notin Stoppers /\ c # "again" /\ c \notin Restarts
    BY <1>7 DEF Stoppers, Stops, Restarts
  <2>2. baseline \in Seq(Stage)
    BY DEF Stage
  <2> HIDE DEF baseline
  <2>3. Stop \o baseline \in Seq(Stage) /\ Len(Stop \o baseline) = Len(baseline) + 3 /\ Len(baseline) \in Nat
    BY <2>2, StopThen
  <2> PICK q : q = Stop \o baseline
    OBVIOUS
  <2>4. q # <<>>
    BY <2>3
  <2> QED  BY <1>7, <1>s, <2>1, <2>3, <2>4 DEF ListOK
<1> QED  BY <1>0, <1>1, <1>2, <1>3, <1>4, <1>5, <1>6, <1>7

-----------------------------------------------------------------------------
(* The host.  Most steps only let what runs get on, or end it.              *)

OldType == old \in [Terminal -> SUBSET ({NoProc, Foreign} \cup Proc)]
\* Nothing new appears: no process, no starter, no agent, no foreign listener; and what a
\* command found stays listed as long as it is remembered.
Settles ==
  /\ \A p \in Proc : proc'[p] # Free =>
       proc[p] # Free /\ proc'[p].by = proc[p].by /\ proc'[p].model = proc[p].model
  /\ Starter' \subseteq Starter
  /\ agent' \in {agent, NoProc}
  /\ agent \in Starter' => agent' = agent
  /\ agent' \in Proc => proc'[agent'] # Free
  /\ listener'["primary"] = Foreign => listener["primary"] = Foreign
  /\ \A t \in Terminal : /\ old'[t] \subseteq old[t] /\ (Foreign \in old[t] => Foreign \in old'[t])
                         /\ old'[t] \cap Listed \subseteq Listed'

LEMMA Nothing ==
  ASSUME AgentOK, TableOK, UNCHANGED <<proc, listener, agent, old>>
  PROVE  TableOK' /\ Settles
<1>1. TableOK'
  BY DEF TableOK
<1>2. Listed' = Listed /\ Starter' = Starter
  BY DEF Listed, Starter
<1> QED  BY <1>1, <1>2 DEF Settles, AgentOK

\* Processes end.
LEMMA GoneSettles ==
  ASSUME TableOK, AgentOK, OldType, NEW S \in SUBSET (Proc \cup {NoProc}), Gone(S)
  PROVE  /\ TableOK' /\ OldType' /\ Settles /\ Listed' = Listed \ S /\ Starter' = Starter \ S
         /\ agent \in S => agent' = NoProc
<1>1. /\ proc' = [p \in Proc |-> IF p \in S THEN Free ELSE proc[p]]
      /\ listener' = [l \in {"primary", "baseline"} |-> IF listener[l] \in S THEN NoProc ELSE listener[l]]
      /\ agent' = IF agent \in S THEN NoProc ELSE agent
      /\ old' = [t \in Terminal |-> old[t] \ S]
  BY DEF Gone, TableOK
<1>2. \A p \in Proc : proc'[p] = IF p \in S THEN Free ELSE proc[p]
  BY <1>1
<1>3. Free \in [at : {"free", "guard", "check", "exec", "starting", "loading", "up"},
                by : {"nobody", "agent", "loose", "baseline"},
                model : {"none", "qwen", "crow", "baseline"}]
  BY DEF Free
<1>4. proc' \in [Proc -> [at : {"free", "guard", "check", "exec", "starting", "loading", "up"},
                          by : {"nobody", "agent", "loose", "baseline"},
                          model : {"none", "qwen", "crow", "baseline"}]]
  BY <1>1, <1>3 DEF TableOK
<1>5. \A p \in Proc : proc'[p].at = "free" => proc'[p] = Free
  BY <1>2 DEF TableOK
<1>6. listener' \in [{"primary", "baseline"} -> {NoProc, Foreign} \cup Proc]
  BY <1>1 DEF TableOK
<1>7. \A l \in DOMAIN listener' : listener'[l] \in Proc => proc'[listener'[l]].at \in {"loading", "up"}
  <2> SUFFICES ASSUME NEW l \in {"primary", "baseline"}, listener'[l] \in Proc
               PROVE  proc'[listener'[l]].at \in {"loading", "up"}
    BY <1>1
  <2>1. listener[l] \notin S /\ listener'[l] = listener[l]
    BY <1>1, Names
  <2> QED  BY <2>1, <1>2 DEF TableOK
<1>8. TableOK'
  BY <1>4, <1>5, <1>6, <1>7 DEF TableOK
<1>9. Free.at = "free"
  BY DEF Free
<1>10. Listed' = Listed \ S /\ Starter' = Starter \ S
  BY <1>2, <1>9 DEF Listed, Starter
<1>11. OldType'
  BY <1>1 DEF OldType
<1>12. \A t \in Terminal : /\ old'[t] \subseteq old[t] /\ (Foreign \in old[t] => Foreign \in old'[t])
                           /\ old'[t] \cap Listed \subseteq Listed'
  BY <1>1, <1>10, Names
<1>13. /\ agent' \in {agent, NoProc} /\ (agent \in S => agent' = NoProc)
       /\ agent \in Starter' => agent' = agent
  BY <1>1, <1>10
<1>14. agent' \in Proc => proc'[agent'] # Free
  BY <1>1, <1>2, Names DEF AgentOK
<1>15. listener'["primary"] = Foreign => listener["primary"] = Foreign
  BY <1>1, Names
<1>16. \A p \in Proc : proc'[p] # Free => proc[p] # Free /\ proc'[p].by = proc[p].by /\ proc'[p].model = proc[p].model
  BY <1>2
<1>17. Starter' \subseteq Starter
  BY <1>10
<1>18. Settles
  BY <1>12, <1>13, <1>14, <1>15, <1>16, <1>17 DEF Settles
<1> QED  BY <1>8, <1>10, <1>11, <1>13, <1>18

\* A process gets on; a server that has nothing to bind yet binds its port.
LEMMA MovesSettles ==
  ASSUME TableOK, AgentOK, NEW p \in Proc, NEW at,
         <<proc[p].at, at>> \in {<<"guard", "check">>, <<"check", "exec">>, <<"exec", "starting">>,
                                 <<"starting", "loading">>, <<"loading", "up">>},
         Moves(p, at), UNCHANGED <<agent, old>>,
         \/ listener' = listener
         \/ at = "loading" /\ listener' = [listener EXCEPT ![PortOf(p)] = p]
  PROVE  TableOK' /\ Settles
<1>1. /\ proc[p].at \in {"guard", "check", "exec", "starting", "loading"}
      /\ at \in {"check", "exec", "starting", "loading", "up"}
      /\ proc[p].at \in {"loading", "up"} => at \in {"loading", "up"}
      /\ proc[p].at \in {"starting", "loading", "up"} => at \in {"starting", "loading", "up"}
      /\ at \in {"guard", "check", "exec"} => proc[p].at \in {"guard", "check", "exec"}
  OBVIOUS
<1>2. proc' = [proc EXCEPT ![p] = [proc[p] EXCEPT !.at = at]]
  BY DEF Moves
<1>3. proc[p] \in [at : {"free", "guard", "check", "exec", "starting", "loading", "up"},
                   by : {"nobody", "agent", "loose", "baseline"},
                   model : {"none", "qwen", "crow", "baseline"}]
  BY DEF TableOK
<1>4. PICK r : r = [proc[p] EXCEPT !.at = at]
  OBVIOUS
<1>5. /\ r \in [at : {"free", "guard", "check", "exec", "starting", "loading", "up"},
                by : {"nobody", "agent", "loose", "baseline"},
                model : {"none", "qwen", "crow", "baseline"}]
      /\ r.at = at /\ r.by = proc[p].by /\ r.model = proc[p].model
  BY <1>1, <1>3, <1>4
<1>6. proc' = [proc EXCEPT ![p] = r]
  BY <1>2, <1>4
<1>7. proc' \in [Proc -> [at : {"free", "guard", "check", "exec", "starting", "loading", "up"},
                          by : {"nobody", "agent", "loose", "baseline"},
                          model : {"none", "qwen", "crow", "baseline"}]]
  BY <1>5, <1>6 DEF TableOK
<1>8. proc'[p] = r /\ \A q \in Proc : q # p => proc'[q] = proc[q]
  BY <1>6 DEF TableOK
<1>9. PortOf(p) \in {"primary", "baseline"}
  BY DEF PortOf
<1>10. listener' \in [{"primary", "baseline"} -> {NoProc, Foreign} \cup Proc]
  BY <1>9 DEF TableOK
<1>11. \A l \in {"primary", "baseline"} :
         listener'[l] = listener[l] \/ (at = "loading" /\ listener'[l] = p)
  BY <1>9 DEF TableOK
<1>12. \A l \in DOMAIN listener' : listener'[l] \in Proc => proc'[listener'[l]].at \in {"loading", "up"}
  <2> SUFFICES ASSUME NEW l \in {"primary", "baseline"}, listener'[l] \in Proc
               PROVE  proc'[listener'[l]].at \in {"loading", "up"}
    BY <1>10
  <2>1. CASE listener'[l] = p
    <3>1. at \in {"loading", "up"}
      BY <2>1, <1>1, <1>11 DEF TableOK
    <3> QED  BY <2>1, <3>1, <1>5, <1>8
  <2>2. CASE listener'[l] # p
    <3>1. listener'[l] = listener[l] /\ listener[l] \in Proc
      BY <2>2, <1>11
    <3>2. proc[listener[l]].at \in {"loading", "up"}
      BY <3>1 DEF TableOK
    <3> QED  BY <2>2, <3>1, <3>2, <1>8
  <2> QED  BY <2>1, <2>2
<1>13. \A q \in Proc : proc'[q].at = "free" => proc'[q] = Free
  BY <1>1, <1>5, <1>8 DEF TableOK
<1>14. TableOK'
  BY <1>7, <1>10, <1>12, <1>13 DEF TableOK
<1>15. proc[p] # Free /\ proc'[p] # Free
  BY <1>1, <1>5, <1>8 DEF Free
<1>16. Listed \subseteq Listed' /\ Starter' \subseteq Starter
  BY <1>1, <1>5, <1>8 DEF Listed, Starter
<1>17. listener'["primary"] = Foreign => listener["primary"] = Foreign
  BY <1>11, Names
<1>18. \A q \in Proc : proc'[q] # Free => proc[q] # Free /\ proc'[q].by = proc[q].by /\ proc'[q].model = proc[q].model
  BY <1>5, <1>8, <1>15
<1>19. agent' \in Proc => proc'[agent'] # Free
  BY <1>8, <1>15 DEF AgentOK
<1> QED  BY <1>14, <1>16, <1>17, <1>18, <1>19 DEF Settles

\* A process appears.
LEMMA ForkAdds ==
  ASSUME TableOK, CanFork, NEW at \in {"guard", "check", "exec"}, NEW by \in {"agent", "loose", "baseline"},
         NEW model \in {"qwen", "crow", "baseline"}, Fork(at, by, model), listener' = listener
  PROVE  /\ TableOK' /\ Entry \in Proc /\ proc[Entry] = Free /\ Listed' = Listed /\ Starter' = Starter \cup {Entry}
         /\ proc'[Entry] # Free /\ proc'[Entry].by = by /\ proc'[Entry].model = model
         /\ \A p \in Proc : p # Entry => proc'[p] = proc[p]
<1>1. Entry \in Proc /\ proc[Entry] = Free
  BY DEF Entry, CanFork
<1>2. PICK e : e = Entry
  OBVIOUS
<1>3. PICK r : r = [at |-> at, by |-> by, model |-> model]
  OBVIOUS
<1>4. e \in Proc /\ proc[e] = Free /\ proc' = [proc EXCEPT ![e] = r]
  BY <1>1, <1>2, <1>3 DEF Fork
<1>5. /\ r \in [at : {"free", "guard", "check", "exec", "starting", "loading", "up"},
                by : {"nobody", "agent", "loose", "baseline"},
                model : {"none", "qwen", "crow", "baseline"}]
      /\ r.at = at /\ r.by = by /\ r.model = model
  BY <1>3
<1>6. proc' \in [Proc -> [at : {"free", "guard", "check", "exec", "starting", "loading", "up"},
                          by : {"nobody", "agent", "loose", "baseline"},
                          model : {"none", "qwen", "crow", "baseline"}]]
  BY <1>4, <1>5 DEF TableOK
<1>7. proc'[e] = r /\ \A q \in Proc : q # e => proc'[q] = proc[q]
  BY <1>4 DEF TableOK
<1>8. Free.at = "free" /\ r # Free
  BY <1>5 DEF Free
<1>9. \A p \in Proc : proc'[p].at = "free" => proc'[p] = Free
  BY <1>5, <1>7 DEF TableOK
<1>10. \A l \in DOMAIN listener : listener[l] \in Proc => listener[l] # e
  BY <1>4, <1>8 DEF TableOK
<1>11. \A l \in DOMAIN listener' : listener'[l] \in Proc => proc'[listener'[l]].at \in {"loading", "up"}
  BY <1>7, <1>10 DEF TableOK
<1>12. TableOK'
  BY <1>6, <1>9, <1>11 DEF TableOK
<1>13. Listed' = Listed
  BY <1>4, <1>5, <1>7, <1>8 DEF Listed
<1>14. Starter' = Starter \cup {e}
  BY <1>4, <1>5, <1>7, <1>8 DEF Starter
<1> QED  BY <1>2, <1>4, <1>5, <1>7, <1>8, <1>12, <1>13, <1>14

\* What launchd knows of its job survives such a step.
LEMMA AgentSettles ==
  ASSUME AgentOK, TableOK, Settles, loaded' = loaded, plist' \in BOOLEAN
  PROVE  AgentOK'
<1>1. Starter \subseteq Proc
  BY DEF Starter
<1>2. \A p \in Starter' : p \in Starter /\ proc'[p].by = proc[p].by
  <2> SUFFICES ASSUME NEW p \in Starter'  PROVE p \in Starter /\ proc'[p].by = proc[p].by
    OBVIOUS
  <2>1. p \in Starter /\ p \in Proc /\ proc'[p].at \in {"guard", "check", "exec"}
    BY <1>1 DEF Settles, Starter
  <2>2. proc'[p] # Free
    BY <2>1 DEF Free
  <2> QED  BY <2>1, <2>2 DEF Settles
<1>3. \A p \in Starter' : proc'[p].by = "agent" => p = agent'
  BY <1>2 DEF AgentOK, Settles
<1> QED  BY <1>3 DEF AgentOK, Settles

-----------------------------------------------------------------------------
(* The commands.                                                            *)

\* What the command of t has left becomes ss: it goes on, or fails.
ShellStep(t, ss) ==
  /\ todo[t] # <<>> /\ ListOK(command[t], ss) /\ calm' = calm
  /\ GoOn(t, ss) \/ (ss = <<>> /\ Fail(t))

LEMMA ShellKeeps ==
  ASSUME ShellTypes, Lists, NEW t \in Terminal, NEW ss, ShellStep(t, ss),
         pass' \in [Terminal -> Nat], pids' \in [Terminal -> SUBSET Proc], OldType'
  PROVE  /\ ShellTypes' /\ Lists' /\ command' = command
         /\ todo'[t] = ss /\ \A u \in Terminal \ {t} : todo'[u] = todo[u] /\ result'[u] = result[u]
         /\ result[t] = "busy" /\ result'[t] # "busy" => todo'[t] = <<>>
         /\ \A u \in Terminal : result'[u] = "busy" => result[u] = "busy"
         /\ \A u \in Terminal : result'[u] \in {"busy", "ok"} => result[u] \in {"busy", "ok"}
         /\ Fail(t) => result'[t] = "failed"
<1>1. result[t] = "busy" /\ command' = command /\ ss \in Seq(Stage) /\ todo' = [todo EXCEPT ![t] = ss]
  BY DEF ShellStep, Lists, GoOn, Fail, ListOK
<1>2. todo' \in [Terminal -> Seq(Stage)] /\ todo'[t] = ss /\ \A u \in Terminal \ {t} : todo'[u] = todo[u]
  BY <1>1 DEF ShellTypes
<1>3. /\ result' \in [Terminal -> {"none", "busy", "ok", "failed"}]
      /\ \A u \in Terminal \ {t} : result'[u] = result[u]
      /\ result'[t] # "busy" => ss = <<>>
      /\ Fail(t) => result'[t] = "failed"
  <2>1. CASE GoOn(t, ss)
    <3>1. CASE Fail(t)
      BY <2>1, <3>1, <1>1 DEF Fail, ShellTypes
    <3>2. CASE ~ Fail(t)
      BY <2>1, <3>2, <1>1 DEF GoOn, ShellTypes
    <3> QED  BY <3>1, <3>2
  <2>2. CASE ss = <<>> /\ Fail(t)
    BY <2>2 DEF Fail, ShellTypes
  <2> QED  BY <2>1, <2>2 DEF ShellStep
<1>4. calm' \in [Terminal -> BOOLEAN] /\ command' \in [Terminal -> DOMAIN Script]
  BY <1>1 DEF ShellTypes, ShellStep
<1>5. ShellTypes'
  BY <1>2, <1>3, <1>4 DEF ShellTypes, OldType
<1>6. Lists'
  BY <1>1, <1>2, <1>3 DEF Lists, ShellStep
<1> QED  BY <1>1, <1>2, <1>3, <1>5, <1>6

\* A command reaches the end of the killing only when nothing is listed.
LEMMA ShellOld ==
  ASSUME ShellTypes, Lists, OldRuns, NEW t \in Terminal, NEW ss, ShellStep(t, ss), OldType',
         pass' \in [Terminal -> Nat], pids' \in [Terminal -> SUBSET Proc],
         \A u \in Terminal : old'[u] \subseteq old[u] /\ old'[u] \cap Listed \subseteq Listed',
         command[t] \in Stoppers /\ Past(ss) /\ result'[t] # "failed" => Past(todo[t]) \/ Listed = {}
  PROVE  OldRuns'
<1> SUFFICES ASSUME NEW u \in Terminal
             PROVE  /\ old'[u] \cap Proc \subseteq Listed'
                    /\ command[u] \in Stoppers /\ Cleared(u)' => old'[u] \cap Proc = {}
  BY ShellKeeps DEF OldRuns
<1>1. old[u] \cap Proc \subseteq Listed /\ old'[u] \subseteq old[u] /\ old'[u] \cap Listed \subseteq Listed'
  BY DEF OldRuns
<1>2. command[u] \in Stoppers /\ Cleared(u) => old[u] \cap Proc = {}
  BY DEF OldRuns
<1>3. ASSUME command[u] \in Stoppers, Cleared(u)'
      PROVE  Cleared(u) \/ Listed = {}
  <2>1. result'[u] \in {"busy", "ok"} /\ Past(todo'[u])
    BY <1>3 DEF Cleared
  <2>2. result[u] \in {"busy", "ok"}
    BY <2>1, ShellKeeps
  <2>3. CASE u = t
    BY <2>1, <2>2, <2>3, <1>3, ShellKeeps DEF Cleared
  <2>4. CASE u # t
    BY <2>1, <2>2, <2>4, ShellKeeps DEF Cleared
  <2> QED  BY <2>3, <2>4
<1> QED  BY <1>1, <1>2, <1>3

\* Only the command that nothing interferes with has a say about what it relies on.
LEMMA ShellCalm ==
  ASSUME ShellTypes, Lists, Calm, NEW t \in Terminal, NEW ss, ShellStep(t, ss), OldType',
         pass' \in [Terminal -> Nat], pids' \in [Terminal -> SUBSET Proc],
         listener'["primary"] = Foreign => listener["primary"] = Foreign,
         \A u \in Terminal : Foreign \in old[u] => Foreign \in old'[u],
         calm[t] /\ command[t] \in Stoppers /\ Alone(t) /\ (Cleared(t) => Ours(t)) =>
           /\ ss # <<>> => ss[1] # "bootout" /\ (ss[1] \in Killing => ~ loaded' /\ agent' = NoProc /\ Starter' = {})
           /\ Past(ss) /\ result'[t] # "failed" => Ours(t)'
  PROVE  Calm'
<1> SUFFICES ASSUME NEW u \in Terminal, calm'[u], command'[u] \in Stoppers
             PROVE  Alone(u)' /\ (Cleared(u)' => Ours(u)') /\ ForeignSeen(u)'
  BY DEF Calm
<1>1. calm[u] /\ command[u] \in Stoppers /\ command' = command
  BY ShellKeeps DEF ShellStep
<1>2. Alone(u) /\ (Cleared(u) => Ours(u)) /\ ForeignSeen(u)
  BY <1>1 DEF Calm
<1>0. result[t] = "busy"
  BY DEF ShellStep, Lists
<1>3. u = t
  BY <1>0, <1>2 DEF Alone
<1>4. todo'[u] = ss /\ \A v \in Terminal \ {u} : result'[v] = result[v]
  BY <1>3, ShellKeeps
<1>5. Alone(u)'
  BY <1>1, <1>2, <1>3, <1>4 DEF Alone, InOut, InKill
<1>6. Cleared(u)' => Ours(u)'
  BY <1>1, <1>2, <1>3, <1>4 DEF Cleared
<1>7. ForeignSeen(u)'
  BY <1>2, ShellKeeps DEF ForeignSeen
<1> QED  BY <1>5, <1>6, <1>7

\* What runs since all servers were stopped stays the command's own while nothing new appears.
LEMMA OursKept ==
  ASSUME TableOK, NEW t \in Terminal, NEW ss, Ours(t), Settles, loaded' = loaded, command'[t] = command[t], todo'[t] = ss,
         Has(ss, "begin") => Has(todo[t], "begin"),
         command[t] \in Restarts /\ listener'["primary"] = Foreign /\ (Has(todo[t], "free") \/ Has(todo[t], "begin"))
            => Has(ss, "free") \/ Has(ss, "begin")
  PROVE  Ours(t)'
<1>1. command[t] \in Stops \cup {"switch"} => ~ loaded' /\ agent' = NoProc
  BY DEF Ours, Settles
<1>2. Has(todo'[t], "begin") => ~ loaded'
  BY DEF Ours
<1>3. \A p \in Proc : proc'[p] # Free =>
       /\ command[t] \notin Stops
       /\ proc'[p].by = (IF command[t] = "switch" THEN "loose" ELSE "agent")
       /\ proc'[p].model = Model[command[t]]
  BY DEF Ours, Settles
<1>4. command[t] \in Restarts /\ listener'["primary"] = Foreign => Has(todo'[t], "free") \/ Has(todo'[t], "begin")
  BY DEF Ours, Settles
<1>5. Model' = Model
  BY DEF Model
<1> QED  BY <1>1, <1>2, <1>3, <1>4, <1>5 DEF Ours

\* A step of the host, of which the commands take no notice.
LEMMA HostQuiet ==
  ASSUME ServiceInv, TableOK', OldType', Settles, UNCHANGED <<job, shell, calm>>
  PROVE  ServiceInv'
<1>1. UNCHANGED <<plist, loaded, command, todo, result, pass, pids, calm>>
  BY DEF job, shell
<1>2. AgentOK'
  BY <1>1, AgentSettles DEF ServiceInv, AgentOK
<1>3. ShellTypes'
  BY <1>1 DEF ServiceInv, ShellTypes, OldType
<1>4. Lists'
  BY <1>1 DEF ServiceInv, Lists
<1>5. \A t \in Terminal : Cleared(t)' = Cleared(t)
  BY <1>1 DEF Cleared
<1>6. OldRuns'
  BY <1>1, <1>5 DEF ServiceInv, OldRuns, Settles
<1>7. ASSUME NEW u \in Terminal, calm'[u], command'[u] \in Stoppers
      PROVE  Alone(u)' /\ (Cleared(u)' => Ours(u)') /\ ForeignSeen(u)'
  <2>1. Alone(u) /\ (Cleared(u) => Ours(u)) /\ ForeignSeen(u)
    BY <1>1, <1>7 DEF ServiceInv, Calm
  <2>2. \A p \in Starter' : p \in Starter /\ proc'[p].by = proc[p].by
    <3> SUFFICES ASSUME NEW p \in Starter'  PROVE p \in Starter /\ proc'[p].by = proc[p].by
      OBVIOUS
    <3>1. p \in Starter /\ p \in Proc /\ proc'[p].at \in {"guard", "check", "exec"}
      BY DEF Settles, Starter
    <3>2. proc'[p] # Free
      BY <3>1 DEF Free
    <3> QED  BY <3>1, <3>2 DEF Settles
  <2>3. Alone(u)'
    BY <2>1, <2>2, <1>1 DEF Alone, InOut, InKill, Settles
  <2>4. Cleared(u)' => Ours(u)'
    <3>1. TableOK /\ loaded' = loaded /\ command'[u] = command[u] /\ todo'[u] = todo[u]
      BY <1>1 DEF ServiceInv
    <3> QED  BY <3>1, <2>1, <1>5, OursKept
  <2>5. ForeignSeen(u)'
    BY <2>1, <1>1 DEF ForeignSeen, Settles
  <2> QED  BY <2>3, <2>4, <2>5
<1>8. Calm'
  BY <1>7 DEF Calm
<1> QED  BY <1>2, <1>3, <1>4, <1>6, <1>8 DEF ServiceInv

-----------------------------------------------------------------------------
(* The stages.                                                              *)

\* The first stage of a list.
LEMMA AtIs ==
  ASSUME ShellTypes, NEW t \in Terminal, NEW s, At(t, s)
  PROVE  todo[t] # <<>> /\ todo[t] \in Seq(Stage) /\ todo[t][1] = s /\ command[t] \in DOMAIN Script
  BY Shorter DEF At, ShellTypes

\* A stage that changes nothing on the host, past the killing or not part of it.
LEMMA StageQuiet ==
  ASSUME ServiceInv, NEW t \in Terminal, NEW ss, ShellStep(t, ss), UNCHANGED <<host, loaded, pass, pids, old>>, plist' \in BOOLEAN,
         command[t] \in Stoppers /\ Past(ss) /\ result'[t] # "failed" => Past(todo[t]) \/ Listed = {},
         calm[t] /\ command[t] \in Stoppers /\ Alone(t) /\ (Cleared(t) => Ours(t)) =>
           /\ ss # <<>> => ss[1] # "bootout" /\ (ss[1] \in Killing => ~ loaded /\ agent = NoProc /\ Starter = {})
           /\ Past(ss) /\ result'[t] # "failed" => Ours(t)'
  PROVE  ServiceInv'
<1>1. UNCHANGED <<proc, listener, agent, loaded, pass, pids, old>>
  BY DEF host
<1>2. /\ TableOK' /\ Settles /\ OldType'
      /\ pass' \in [Terminal -> Nat] /\ pids' \in [Terminal -> SUBSET Proc] /\ Starter' = Starter
  BY <1>1, Nothing DEF ServiceInv, ShellTypes, OldType, Starter
<1>3. AgentOK'
  BY <1>1, <1>2, AgentSettles DEF ServiceInv
<1>4. ShellTypes' /\ Lists'
  BY <1>2, ShellKeeps DEF ServiceInv
<1>5. OldRuns'
  <2>1. \A u \in Terminal : old'[u] \subseteq old[u] /\ old'[u] \cap Listed \subseteq Listed'
    BY <1>2 DEF Settles
  <2> QED  BY <1>2, <2>1, ShellOld DEF ServiceInv
<1>6. Calm'
  <2>1. /\ listener'["primary"] = Foreign => listener["primary"] = Foreign
        /\ \A u \in Terminal : Foreign \in old[u] => Foreign \in old'[u]
    BY <1>1
  <2> QED  BY <1>1, <1>2, <2>1, ShellCalm DEF ServiceInv
<1> QED  BY <1>2, <1>3, <1>4, <1>5, <1>6 DEF ServiceInv

\* A command fails.
LEMMA StageFails ==
  ASSUME ServiceInv, NEW t \in Terminal, todo[t] # <<>>, Fail(t), UNCHANGED <<host, loaded, pass, pids, old, calm>>, plist' \in BOOLEAN
  PROVE  ServiceInv'
<1>1. command[t] \in DOMAIN Script /\ result'[t] = "failed"
  BY DEF ServiceInv, ShellTypes, Fail
<1>2. ShellStep(t, <<>>)
  BY <1>1, ListEmpty DEF ShellStep
<1> QED  BY <1>1, <1>2, StageQuiet

\* A stage past the killing goes on to the next one.
LEMMA StagePasses ==
  ASSUME ServiceInv, NEW t \in Terminal, NEW s \in Stage \ Early, At(t, s), Then(t),
         UNCHANGED <<host, loaded, pass, pids, old, calm>>, plist' \in BOOLEAN,
         s \in {"free", "begin"} => ~ (command[t] \in Restarts /\ listener["primary"] = Foreign)
  PROVE  ServiceInv'
<1>1. todo[t] # <<>> /\ todo[t] \in Seq(Stage) /\ todo[t][1] = s /\ command[t] \in DOMAIN Script /\ ListOK(command[t], todo[t])
  BY AtIs DEF ServiceInv, Lists
<1>2. ListOK(command[t], Tail(todo[t]))
  BY <1>1, ListTail
<1>3. ShellStep(t, Tail(todo[t]))
  BY <1>1, <1>2 DEF ShellStep, Then
<1>4. ASSUME command[t] \in Stoppers
      PROVE  Past(todo[t]) /\ Past(Tail(todo[t]))
  <2>1. s \notin {"bootout", "stragglers"}
    BY DEF Early, Killing
  <2> QED  BY <1>1, <1>4, <2>1, Heads, PastTail
<1>5. result[t] = "busy"
  BY <1>1 DEF ServiceInv, Lists
<1>6. ASSUME command[t] \in Stoppers, Cleared(t) => Ours(t)
      PROVE  Ours(t)'
  <2>1. Ours(t)
    BY <1>4, <1>5, <1>6 DEF Cleared
  <2>2. TableOK /\ Settles /\ listener' = listener
    BY Nothing DEF ServiceInv, host
  <2>3. command'[t] = command[t] /\ todo'[t] = Tail(todo[t])
    BY DEF Then, GoOn, ServiceInv, ShellTypes
  <2>4. /\ Has(Tail(todo[t]), "begin") => Has(todo[t], "begin")
        /\ command[t] \in Restarts /\ listener'["primary"] = Foreign /\ (Has(todo[t], "free") \/ Has(todo[t], "begin"))
             => Has(Tail(todo[t]), "free") \/ Has(Tail(todo[t]), "begin")
    BY <1>1, <2>2, HasTail
  <2> QED  BY <2>1, <2>2, <2>3, <2>4, OursKept
<1>7. ASSUME command[t] \in Stoppers, Tail(todo[t]) # <<>>
      PROVE  Tail(todo[t])[1] \notin Early
  <2>1. 1 \in DOMAIN Tail(todo[t])
    BY <1>1, <1>7
  <2> QED  BY <1>4, <1>7, <2>1 DEF Past, From
<1> QED  BY <1>3, <1>4, <1>6, <1>7, StageQuiet DEF Early

LEMMA SimpleStages ==
  ASSUME ServiceInv, NEW t \in Terminal,
         Unloaded(t) \/ Remove(t) \/ Render(t) \/ Registered(t) \/ LoadedAlready(t) \/ Await(t) \/ PortFree(t)
  PROVE  ServiceInv'
<1>0. /\ {"unloaded", "remove", "render", "registered", "load", "await", "free"} \subseteq Stage \ Early
      /\ {"unloaded", "remove", "render", "registered", "load", "await"} \cap {"free", "begin"} = {}
  BY DEF Stage, Early, Killing
<1>t. loaded \in BOOLEAN /\ plist \in BOOLEAN /\ \A s : At(t, s) => todo[t] # <<>>
  BY DEF ServiceInv, AgentOK, At
<1>1. CASE Unloaded(t)
  <2>1. At(t, "unloaded") /\ (Fail(t) \/ Then(t)) /\ UNCHANGED <<host, job, pass, pids, old, calm>>
    BY <1>1 DEF Unloaded, Quiet
  <2> QED  BY <2>1, <1>0, <1>t, StagePasses, StageFails DEF job
<1>2. CASE Remove(t)
  <2>1. At(t, "remove") /\ Then(t) /\ UNCHANGED <<host, loaded, pass, pids, old, calm>> /\ plist' \in BOOLEAN
    BY <1>2 DEF Remove, Quiet
  <2> QED  BY <2>1, <1>0, StagePasses
<1>3. CASE Render(t)
  <2>1. At(t, "render") /\ Then(t) /\ UNCHANGED <<host, loaded, pass, pids, old, calm>> /\ plist' \in BOOLEAN
    BY <1>3 DEF Render, Quiet
  <2> QED  BY <2>1, <1>0, StagePasses
<1>4. CASE Registered(t)
  <2>1. At(t, "registered") /\ (Fail(t) \/ Then(t)) /\ UNCHANGED <<host, job, pass, pids, old, calm>>
    BY <1>4 DEF Registered, Quiet
  <2> QED  BY <2>1, <1>0, <1>t, StagePasses, StageFails DEF job
<1>5. CASE LoadedAlready(t)
  <2>1. At(t, "load") /\ Then(t) /\ UNCHANGED <<host, job, pass, pids, old, calm>>
    BY <1>5 DEF LoadedAlready, Quiet
  <2> QED  BY <2>1, <1>0, <1>t, StagePasses DEF job
<1>6. CASE Await(t)
  <2>1. At(t, "await") /\ Then(t) /\ UNCHANGED <<host, job, pass, pids, old, calm>>
    BY <1>6 DEF Await, Quiet
  <2> QED  BY <2>1, <1>0, <1>t, StagePasses DEF job
<1>7. CASE PortFree(t)
  <2>1. /\ At(t, "free") /\ (Fail(t) \/ (Then(t) /\ listener[PortAsked(t)] = NoProc))
        /\ UNCHANGED <<host, job, pass, pids, old, calm>>
    BY <1>7 DEF PortFree, Quiet
  <2>2. command[t] \in Restarts => PortAsked(t) = "primary"
    BY DEF PortAsked, Model, Restarts, Script
  <2>3. Then(t) /\ ~ Fail(t) => ~ (command[t] \in Restarts /\ listener["primary"] = Foreign)
    BY <2>1, <2>2, Names DEF Foreign, NoProc
  <2> QED  BY <2>1, <2>3, <1>0, <1>t, StagePasses, StageFails DEF job
<1> QED  BY <1>1, <1>2, <1>3, <1>4, <1>5, <1>6, <1>7

\* make start belongs to no command that stops servers first.
LEMMA ProbeStage ==
  ASSUME ServiceInv, NEW t \in Terminal, Probe(t)
  PROVE  ServiceInv'
<1>1. /\ At(t, "probe") /\ (Then(t) \/ GoOn(t, <<>>))
      /\ UNCHANGED <<host, job, pass, pids, old, calm>>
  BY DEF Probe, Quiet
<1>2. todo[t] # <<>> /\ todo[t] \in Seq(Stage) /\ todo[t][1] = "probe" /\ command[t] \in DOMAIN Script /\ ListOK(command[t], todo[t])
  BY <1>1, AtIs DEF ServiceInv, Lists
<1>3. command[t] \notin Stoppers
  <2>1. "probe" \notin Early
    BY DEF Early, Killing
  <2>2. command[t] \in Stoppers => "probe" \in Later(command[t])
    BY <1>2, <2>1, Heads
  <2> QED  BY <2>2 DEF Later, Stoppers, Stops, Restarts
<1>4. PICK ss \in {Tail(todo[t]), <<>>} : GoOn(t, ss)
  BY <1>1 DEF Then
<1>5. ListOK(command[t], ss)
  BY <1>2, ListTail, ListEmpty
<1>6. ShellStep(t, ss) /\ plist' \in BOOLEAN /\ UNCHANGED loaded
  BY <1>1, <1>2, <1>4, <1>5 DEF ShellStep, job, ServiceInv, AgentOK
<1> QED  BY <1>1, <1>3, <1>6, StageQuiet

\* The job is not loaded: its port is looked at, and launchd told.
LEMMA LoadStage ==
  ASSUME ServiceInv, NEW t \in Terminal, Load(t)
  PROVE  ServiceInv'
<1>1. PICK s \in {"load", "begin"} : At(t, s)
  BY DEF Load
<1>2. ~ loaded /\ GoOn(t, FreeBoot(Tail(todo[t]))) /\ UNCHANGED <<host, job, pass, pids, old, calm>>
  BY DEF Load, Quiet, FreeBoot
<1>3. todo[t] # <<>> /\ todo[t] \in Seq(Stage) /\ todo[t][1] = s /\ command[t] \in DOMAIN Script /\ ListOK(command[t], todo[t])
  BY <1>1, AtIs DEF ServiceInv, Lists
<1> PICK ss : ss = FreeBoot(Tail(todo[t]))
  OBVIOUS
<1>4. /\ ListOK(command[t], ss) /\ ss # <<>> /\ ss[1] = "free" /\ Has(ss, "free")
      /\ command[t] \in Restarts => ~ Has(ss, "begin")
      /\ command[t] \in Stoppers => Past(ss) /\ command[t] \in Restarts
  BY <1>3, ListLoad
<1>5. ShellStep(t, ss) /\ plist' \in BOOLEAN /\ UNCHANGED loaded
  BY <1>2, <1>3, <1>4 DEF ShellStep, job, ServiceInv, AgentOK
<1>6. s \notin Early /\ "free" \notin Early /\ Killing \subseteq Early /\ result[t] = "busy"
  BY <1>3 DEF Early, Killing, ServiceInv, Lists
<1>7. command[t] \in Stoppers => Past(todo[t])
  BY <1>3, <1>6, Heads
<1>8. ASSUME command[t] \in Stoppers, Cleared(t) => Ours(t)
      PROVE  Ours(t)'
  <2>1. Ours(t)
    BY <1>6, <1>7, <1>8 DEF Cleared
  <2>2. TableOK /\ Settles
    BY <1>2, Nothing DEF ServiceInv, host
  <2>3. command'[t] = command[t] /\ todo'[t] = ss
    BY <1>2 DEF GoOn, ServiceInv, ShellTypes
  <2> QED  BY <1>4, <1>5, <1>8, <2>1, <2>2, <2>3, OursKept
<1> QED  BY <1>2, <1>4, <1>5, <1>6, <1>7, <1>8, StageQuiet

\* launchctl bootstrap.
LEMMA BootstrapStage ==
  ASSUME ServiceInv, NEW t \in Terminal, Bootstrap(t)
  PROVE  ServiceInv'
<1>1. /\ At(t, "bootstrap") /\ (IF loaded \/ ~ plist THEN Fail(t) ELSE Then(t))
      /\ loaded' = (loaded \/ plist) /\ UNCHANGED <<host, plist, pass, pids, old, calm>>
  BY DEF Bootstrap, Quiet
<1>2. todo[t] # <<>> /\ todo[t] \in Seq(Stage) /\ todo[t][1] = "bootstrap" /\ command[t] \in DOMAIN Script /\ ListOK(command[t], todo[t])
  BY <1>1, AtIs DEF ServiceInv, Lists
<1>t. loaded \in BOOLEAN /\ plist \in BOOLEAN /\ result[t] = "busy"
  BY <1>2 DEF ServiceInv, AgentOK, Lists
<1>3. CASE loaded \/ ~ plist
  <2>1. Fail(t) /\ UNCHANGED loaded
    BY <1>1, <1>3, <1>t
  <2> QED  BY <1>1, <1>2, <1>t, <2>1, StageFails
<1>4. CASE ~ (loaded \/ ~ plist)
  <2>1. Then(t) /\ loaded' = TRUE /\ loaded = FALSE
    BY <1>1, <1>4, <1>t
  <2> PICK ss : ss = Tail(todo[t])
    OBVIOUS
  <2>2. ShellStep(t, ss)
    BY <1>1, <1>2, <2>1, ListTail DEF ShellStep, Then
  <2>3. UNCHANGED <<proc, listener, agent, pass, pids, old, plist>>
    BY <1>1 DEF host
  <2>4. /\ TableOK' /\ Settles /\ OldType' /\ Starter' = Starter
        /\ pass' \in [Terminal -> Nat] /\ pids' \in [Terminal -> SUBSET Proc]
    BY <2>3, Nothing DEF ServiceInv, ShellTypes, OldType, Starter
  <2>5. AgentOK'
    BY <2>1, <2>3, <2>4, <1>t DEF ServiceInv, AgentOK
  <2>6. ShellTypes' /\ Lists'
    BY <2>2, <2>4, ShellKeeps DEF ServiceInv
  <2>7. "bootstrap" \notin Early /\ Killing \subseteq Early /\ "bootstrap" \notin {"bootout", "stragglers"}
    BY DEF Early, Killing
  <2>8. command[t] \in Stoppers => Past(todo[t]) /\ Past(ss) /\ "bootstrap" \in Later(command[t])
    BY <1>2, <2>7, Heads, PastTail
  <2>9. OldRuns'
    <3>1. \A u \in Terminal : old'[u] \subseteq old[u] /\ old'[u] \cap Listed \subseteq Listed'
      BY <2>4 DEF Settles
    <3> QED  BY <2>2, <2>4, <2>8, <3>1, ShellOld DEF ServiceInv
  <2>10. ASSUME command[t] \in Stoppers, Cleared(t) => Ours(t)
         PROVE  Ours(t)'
    <3>1. Ours(t)
      BY <1>t, <2>8, <2>10 DEF Cleared
    <3>2. command[t] \in Restarts
      BY <2>8, <2>10 DEF Later, Stoppers, Stops, Restarts
    <3>3. ~ Has(todo[t], "begin")
      <4>1. Has(todo[t], "bootstrap")
        <5>1. 1 \in DOMAIN todo[t]
          BY <1>2
        <5> QED  BY <1>2, <5>1 DEF Has
      <4>2. CASE command[t] = "again"
        BY <1>2, <4>1, <4>2 DEF ListOK, BeginLast
      <4>3. CASE command[t] = "restart"
        <5>1. From(todo[t], 1, Later(command[t]))
          BY <1>2, <2>7, <2>10, Heads
        <5>2. "begin" \notin Later(command[t])
          BY <4>3 DEF Later, Stops, Restarts
        <5> QED  BY <1>2, <5>1, <5>2 DEF Has, From
      <4> QED  BY <3>2, <4>2, <4>3 DEF Restarts
    <3>4. ~ Has(ss, "begin")
      BY <1>2, <3>3, HasTail
    <3>5. Has(todo[t], "free") => Has(ss, "free")
      BY <1>2, HasTail
    <3>6. command'[t] = command[t] /\ todo'[t] = ss
      BY <2>1 DEF Then, GoOn, ServiceInv, ShellTypes
    <3>7. Model' = Model /\ command[t] \notin Stops \cup {"switch"}
      BY <3>2 DEF Model, Restarts, Stops
    <3> QED  BY <3>1, <3>3, <3>4, <3>5, <3>6, <3>7, <2>3 DEF Ours
  <2>11. command[t] \in Stoppers /\ ss # <<>> => ss[1] \notin Early
    <3>1. ss \in Seq(Stage)
      BY <2>2 DEF ShellStep, ListOK
    <3> QED  BY <3>1, <2>8, PastHead
  <2>12. /\ listener'["primary"] = Foreign => listener["primary"] = Foreign
         /\ \A u \in Terminal : Foreign \in old[u] => Foreign \in old'[u]
    BY <2>3
  <2>13. Calm'
    BY <2>2, <2>4, <2>7, <2>10, <2>11, <2>12, ShellCalm DEF ServiceInv, Early
  <2> QED  BY <2>4, <2>5, <2>6, <2>9, <2>13 DEF ServiceInv
<1> QED  BY <1>3, <1>4

LEMMA NoStarterListed == Listed \cap Starter = {} /\ Listed \subseteq Proc /\ Starter \subseteq Proc
  BY DEF Listed, Starter

\* After launchctl bootout there is neither an agent nor a starter of launchd's.
LEMMA BootoutStage ==
  ASSUME ServiceInv, NEW t \in Terminal, Bootout(t)
  PROVE  ServiceInv'
<1>1. /\ At(t, "bootout") /\ Then(t) /\ loaded' = FALSE /\ UNCHANGED <<plist, pids, calm>>
      /\ pass' = [pass EXCEPT ![t] = 0]
      /\ \/ loaded /\ Gone({agent})
         \/ /\ loaded => agent \in Listed \cup {NoProc}
            /\ agent' = NoProc /\ UNCHANGED <<proc, listener, old>>
  BY DEF Bootout, Quiet
<1>2. todo[t] # <<>> /\ todo[t] \in Seq(Stage) /\ todo[t][1] = "bootout" /\ command[t] \in DOMAIN Script /\ ListOK(command[t], todo[t])
  BY <1>1, AtIs DEF ServiceInv, Lists
<1>3. TableOK' /\ OldType' /\ Settles /\ agent' = NoProc
  <2>1. CASE loaded /\ Gone({agent})
    <3>1. {agent} \in SUBSET (Proc \cup {NoProc}) /\ OldType /\ TableOK /\ AgentOK
      BY DEF ServiceInv, AgentOK, ShellTypes, OldType
    <3> QED  BY <2>1, <3>1, GoneSettles
  <2>2. CASE /\ loaded => agent \in Listed \cup {NoProc}
             /\ agent' = NoProc /\ UNCHANGED <<proc, listener, old>>
    <3>1. agent \in Listed \cup {NoProc}
      BY <2>2 DEF ServiceInv, AgentOK
    <3>2. TableOK' /\ OldType' /\ Listed' = Listed /\ Starter' = Starter
      BY <2>2 DEF ServiceInv, TableOK, ShellTypes, OldType, Listed, Starter
    <3>3. agent \notin Starter
      BY <3>1, Names, NoStarterListed
    <3> QED  BY <2>2, <3>2, <3>3, Names DEF Settles
  <2> QED  BY <1>1, <2>1, <2>2
<1>5. \A p \in Starter' : p \in Starter /\ p # agent /\ proc'[p].by = proc[p].by
  <2> SUFFICES ASSUME NEW p \in Starter'  PROVE p \in Starter /\ p # agent /\ proc'[p].by = proc[p].by
    OBVIOUS
  <2>1. p \in Starter /\ p \in Proc /\ proc'[p].at \in {"guard", "check", "exec"}
    BY <1>3 DEF Settles, Starter
  <2>2. proc'[p] # Free
    BY <2>1 DEF Free
  <2>3. p # agent
    BY <1>3, <2>1, Names DEF Settles
  <2> QED  BY <1>3, <2>1, <2>2, <2>3 DEF Settles
<1>6. \A p \in Starter' : proc'[p].by # "agent"
  BY <1>5 DEF ServiceInv, AgentOK
<1>7. AgentOK'
  BY <1>1, <1>3, <1>6, Names DEF AgentOK, ServiceInv
<1> PICK ss : ss = Tail(todo[t])
  OBVIOUS
<1>8. ShellStep(t, ss)
  BY <1>1, <1>2, ListTail DEF ShellStep, Then
<1>9. pass' \in [Terminal -> Nat] /\ pids' \in [Terminal -> SUBSET Proc]
  BY <1>1 DEF ServiceInv, ShellTypes
<1>10. ShellTypes' /\ Lists'
  BY <1>3, <1>8, <1>9, ShellKeeps DEF ServiceInv
<1>11. command[t] \in Stoppers => ss # <<>> /\ ss[1] = "kill"
  BY <1>2, Heads
<1>12. ASSUME command[t] \in Stoppers
       PROVE  ~ Past(ss)
  <2>1. ss \in Seq(Stage) /\ ss # <<>> /\ ss[1] = "kill"
    BY <1>8, <1>11, <1>12 DEF ShellStep, ListOK
  <2> QED  BY <2>1, PastHead DEF Early, Killing
<1>13. OldRuns'
  <2>1. \A u \in Terminal : old'[u] \subseteq old[u] /\ old'[u] \cap Listed \subseteq Listed'
    BY <1>3 DEF Settles
  <2> QED  BY <1>3, <1>8, <1>9, <1>12, <2>1, ShellOld DEF ServiceInv
<1>14. ASSUME Alone(t)
       PROVE  Starter' = {}
  BY <1>2, <1>5, <1>6, <1>14 DEF Alone, InOut
<1>15. Calm'
  <2>1. /\ listener'["primary"] = Foreign => listener["primary"] = Foreign
        /\ \A u \in Terminal : Foreign \in old[u] => Foreign \in old'[u]
    BY <1>3 DEF Settles
  <2> QED  BY <1>1, <1>3, <1>8, <1>9, <1>11, <1>12, <1>14, <2>1, ShellCalm DEF ServiceInv
<1> QED  BY <1>3, <1>7, <1>10, <1>13, <1>15 DEF ServiceInv

\* A kill pass or its second half ends what it ends, and the killing is not over.
LEMMA KillStage ==
  ASSUME ServiceInv, NEW t \in Terminal, NEW ss, ShellStep(t, ss), UNCHANGED job,
         pass' \in [Terminal -> Nat], pids' \in [Terminal -> SUBSET Proc],
         InKill(t), NEW S \in SUBSET (Proc \cup {NoProc}), Gone(S),
         command[t] \in Stoppers => ss # <<>> /\ ss[1] \in {"kill", "stragglers"}
  PROVE  ServiceInv'
<1>1. TableOK' /\ OldType' /\ Settles
  BY GoneSettles DEF ServiceInv, ShellTypes, OldType
<1>2. AgentOK'
  BY <1>1, AgentSettles DEF ServiceInv, job, AgentOK
<1>3. ShellTypes' /\ Lists'
  BY <1>1, ShellKeeps DEF ServiceInv
<1>4. ASSUME command[t] \in Stoppers
      PROVE  ~ Past(ss)
  <2>1. ss \in Seq(Stage) /\ ss # <<>> /\ ss[1] \in {"kill", "stragglers"}
    BY <1>4 DEF ShellStep, ListOK
  <2> QED  BY <2>1, PastHead DEF Early, Killing
<1>5. OldRuns'
  <2>1. \A u \in Terminal : old'[u] \subseteq old[u] /\ old'[u] \cap Listed \subseteq Listed'
    BY <1>1 DEF Settles
  <2> QED  BY <1>1, <1>4, <2>1, ShellOld DEF ServiceInv
<1>6. ASSUME Alone(t)
      PROVE  ~ loaded' /\ agent' = NoProc /\ Starter' = {}
  BY <1>1, <1>6 DEF Alone, Settles, job
<1>7. Calm'
  <2>1. /\ listener'["primary"] = Foreign => listener["primary"] = Foreign
        /\ \A u \in Terminal : Foreign \in old[u] => Foreign \in old'[u]
    BY <1>1 DEF Settles
  <2> QED  BY <1>1, <1>4, <1>6, <2>1, ShellCalm DEF ServiceInv
<1> QED  BY <1>1, <1>2, <1>3, <1>5, <1>7 DEF ServiceInv

LEMMA TerminateStage ==
  ASSUME ServiceInv, NEW t \in Terminal, Terminate(t)
  PROVE  ServiceInv'
<1>1. /\ At(t, "kill") /\ GoOn(t, InFront("stragglers", todo[t])) /\ pass' = [pass EXCEPT ![t] = pass[t] + 1]
      /\ UNCHANGED <<job, calm>>
      /\ \E S \in SUBSET Listed : Gone(S) /\ pids' = [pids EXCEPT ![t] = Listed \ S]
  BY DEF Terminate, Quiet, InFront
<1>2. PICK S \in SUBSET Listed : Gone(S) /\ pids' = [pids EXCEPT ![t] = Listed \ S]
  BY <1>1
<1>3. todo[t] # <<>> /\ todo[t] \in Seq(Stage) /\ todo[t][1] = "kill" /\ command[t] \in DOMAIN Script /\ ListOK(command[t], todo[t])
  BY <1>1, AtIs DEF ServiceInv, Lists
<1> PICK ss : ss = InFront("stragglers", todo[t])
  OBVIOUS
<1>4. ListOK(command[t], ss) /\ ss # <<>> /\ ss[1] = "stragglers"
  BY <1>3, ListKill
<1>5. ShellStep(t, ss)
  BY <1>1, <1>3, <1>4 DEF ShellStep
<1>6. pass' \in [Terminal -> Nat]
  BY <1>1 DEF ServiceInv, ShellTypes
<1>7. pids' \in [Terminal -> SUBSET Proc] /\ S \in SUBSET (Proc \cup {NoProc})
  BY <1>2, NoStarterListed DEF ServiceInv, ShellTypes
<1>8. InKill(t)
  BY <1>3 DEF InKill, Killing
<1> QED  BY <1>1, <1>2, <1>4, <1>5, <1>6, <1>7, <1>8, KillStage

LEMMA StragglersStage ==
  ASSUME ServiceInv, NEW t \in Terminal, KillStragglers(t)
  PROVE  ServiceInv'
<1>1. /\ At(t, "stragglers") /\ Then(t) /\ Gone(pids[t] \cap Listed) /\ pids' = [pids EXCEPT ![t] = {}]
      /\ UNCHANGED <<job, pass, calm>>
  BY DEF KillStragglers, Quiet
<1>3. todo[t] # <<>> /\ todo[t] \in Seq(Stage) /\ todo[t][1] = "stragglers" /\ command[t] \in DOMAIN Script /\ ListOK(command[t], todo[t])
  BY <1>1, AtIs DEF ServiceInv, Lists
<1> PICK ss : ss = Tail(todo[t])
  OBVIOUS
<1>4. ListOK(command[t], ss) /\ (command[t] \in Stoppers => ss # <<>> /\ ss[1] = "kill")
  BY <1>3, ListTail, Heads
<1>5. ShellStep(t, ss)
  BY <1>1, <1>3, <1>4 DEF ShellStep, Then
<1>6. pass' \in [Terminal -> Nat]
  BY <1>1 DEF ServiceInv, ShellTypes
<1>7. pids' \in [Terminal -> SUBSET Proc] /\ pids[t] \cap Listed \in SUBSET (Proc \cup {NoProc})
  BY <1>1, NoStarterListed DEF ServiceInv, ShellTypes
<1>8. InKill(t)
  BY <1>3 DEF InKill, Killing
<1> QED  BY <1>1, <1>4, <1>5, <1>6, <1>7, <1>8, KillStage

\* Nothing is listed any more, there is no agent and no starter: nothing runs at all.
LEMMA EmptyHost ==
  ASSUME ServiceInv, NEW t \in Terminal, command[t] \in Stoppers, Alone(t), Listed = {},
         todo[t] # <<>>, todo[t][1] \in {"kill", "survivors"},
         UNCHANGED <<host, loaded>>, command'[t] = command[t], todo'[t] = Tail(todo[t])
  PROVE  Ours(t)'
<1>1. InKill(t)
  BY DEF InKill, Killing
<1>2. ~ loaded /\ agent = NoProc /\ Starter = {}
  BY <1>1 DEF Alone
<1>3. \A p \in Proc : proc[p] = Free
  <2> TAKE p \in Proc
  <2>1. proc[p].at \in {"free", "guard", "check", "exec", "starting", "loading", "up"}
    BY DEF ServiceInv, TableOK
  <2>2. proc[p].at \notin {"guard", "check", "exec"} /\ proc[p].at \notin {"starting", "loading", "up"}
    BY <1>2 DEF Starter, Listed
  <2> QED  BY <2>1, <2>2 DEF ServiceInv, TableOK
<1>4. ListOK(command[t], todo[t]) /\ todo[t] \in Seq(Stage)
  BY DEF ServiceInv, Lists, ShellTypes
<1>5. command[t] \in Restarts => Has(Tail(todo[t]), "free") \/ Has(Tail(todo[t]), "begin")
  <2>1. ~ Past(todo[t])
    BY <1>4, Heads
  <2> QED  BY <1>4, <2>1, HasTail DEF ListOK
<1>6. UNCHANGED <<proc, agent, listener, loaded>>
  BY DEF host
<1> QED  BY <1>2, <1>3, <1>5, <1>6 DEF Ours

LEMMA LastPassStage ==
  ASSUME ServiceInv, NEW t \in Terminal, LastPass(t) \/ Survivors(t)
  PROVE  ServiceInv'
<1>1. UNCHANGED <<host, job, pass, pids, old, calm>>
  BY DEF LastPass, Survivors, Quiet
<1>2. UNCHANGED loaded /\ plist' \in BOOLEAN
  BY <1>1 DEF job, ServiceInv, AgentOK
<1>3. PICK s \in {"kill", "survivors"} : At(t, s)
  BY DEF LastPass, Survivors
<1>4. todo[t] # <<>> /\ todo[t] \in Seq(Stage) /\ todo[t][1] = s /\ command[t] \in DOMAIN Script /\ ListOK(command[t], todo[t])
  BY <1>3, AtIs DEF ServiceInv, Lists
<1>5. CASE Fail(t)
  BY <1>1, <1>2, <1>4, <1>5, StageFails
<1>6. CASE Then(t) /\ Listed = {}
  <2>1. ShellStep(t, Tail(todo[t]))
    BY <1>1, <1>4, <1>6, ListTail DEF ShellStep, Then
  <2>2. command'[t] = command[t] /\ todo'[t] = Tail(todo[t])
    BY <1>6 DEF Then, GoOn, ServiceInv, ShellTypes
  <2>3. ASSUME command[t] \in Stoppers, Alone(t)
        PROVE  Ours(t)'
    BY <1>1, <1>2, <1>4, <1>6, <2>2, <2>3, EmptyHost
  <2>4. ASSUME command[t] \in Stoppers, Tail(todo[t]) # <<>>
        PROVE  Tail(todo[t])[1] \notin Early
    <3>1. Past(Tail(todo[t]))
      BY <1>4, <2>4, PastTail
    <3>2. Tail(todo[t]) \in Seq(Stage)
      BY <1>4, Shorter
    <3> QED  BY <2>4, <3>1, <3>2, PastHead
  <2> QED  BY <1>1, <1>2, <1>6, <2>1, <2>3, <2>4, StageQuiet DEF Early
<1>7. CASE s = "kill" /\ GoOn(t, InFront("survivors", Tail(todo[t])))
  <2> PICK ss : ss = InFront("survivors", Tail(todo[t]))
    OBVIOUS
  <2>1. ListOK(command[t], ss) /\ ss # <<>> /\ ss[1] = "survivors"
    BY <1>4, <1>7, ListKill
  <2>2. ShellStep(t, ss)
    BY <1>1, <1>4, <1>7, <2>1 DEF ShellStep
  <2>3. ~ Past(ss)
    <3>1. ss \in Seq(Stage)
      BY <2>1 DEF ListOK
    <3> QED  BY <2>1, <3>1, PastHead DEF Early, Killing
  <2>4. InKill(t)
    BY <1>4 DEF InKill, Killing
  <2>5. Alone(t) => ~ loaded /\ agent = NoProc /\ Starter = {}
    BY <2>4 DEF Alone
  <2> QED  BY <1>1, <1>2, <2>1, <2>2, <2>3, <2>5, StageQuiet
<1>8. CASE LastPass(t)
  <2>1. At(t, "kill") /\ (Listed = {} \/ pass[t] = Passes)
        /\ IF pass[t] = 0 THEN Then(t) ELSE GoOn(t, InFront("survivors", Tail(todo[t])))
    BY <1>8 DEF LastPass, InFront
  <2>2. todo[t][1] = "kill"
    BY <2>1, AtIs DEF ServiceInv
  <2>3. pass[t] = 0 => Listed = {}
    BY <2>1, LimitAssumption
  <2> QED  BY <1>4, <1>6, <1>7, <2>1, <2>2, <2>3
<1>9. CASE Survivors(t)
  <2>1. IF Listed = {} THEN Then(t) ELSE Fail(t)
    BY <1>9 DEF Survivors
  <2> QED  BY <1>5, <1>6, <2>1
<1> QED  BY <1>8, <1>9

\* A start of the job whose process launchd has lost.
LEMMA KickstartStage ==
  ASSUME ServiceInv, NEW t \in Terminal, Kickstart(t)
  PROVE  ServiceInv'
<1>1. /\ At(t, "begin") /\ loaded /\ Then(t) /\ UNCHANGED <<listener, job, pass, pids, old, calm>>
      /\ IF agent = NoProc /\ CanFork THEN Fork("check", "agent", "qwen") /\ agent' = Entry
                                      ELSE UNCHANGED <<proc, agent>>
  BY DEF Kickstart, Quiet
<1>2. todo[t] # <<>> /\ todo[t] \in Seq(Stage) /\ todo[t][1] = "begin" /\ command[t] \in DOMAIN Script /\ ListOK(command[t], todo[t])
  BY <1>1, AtIs DEF ServiceInv, Lists
<1> PICK ss : ss = Tail(todo[t])
  OBVIOUS
<1>3. ShellStep(t, ss) /\ result[t] = "busy"
  BY <1>1, <1>2, ListTail DEF ShellStep, Then, ServiceInv, Lists
<1>4. "begin" \notin Early
  BY DEF Early, Killing
<1>5. command[t] \in Stoppers => Past(todo[t])
  BY <1>2, <1>4, Heads
<1>6. Has(todo[t], "begin")
  <2>1. 1 \in DOMAIN todo[t]
    BY <1>2
  <2> QED  BY <1>2, <2>1 DEF Has
\* A command that nothing interferes with has unloaded the job before.
<1>7. command[t] \in Stoppers => ~ (Cleared(t) => Ours(t))
  BY <1>1, <1>3, <1>5, <1>6 DEF Cleared, Ours
<1>8. CASE UNCHANGED <<proc, agent>>
  <2>1. UNCHANGED <<host, loaded>> /\ plist' \in BOOLEAN
    BY <1>1, <1>8 DEF host, job, ServiceInv, AgentOK
  <2> QED  BY <1>1, <1>3, <1>5, <1>7, <2>1, StageQuiet
<1>9. CASE agent = NoProc /\ CanFork /\ Fork("check", "agent", "qwen") /\ agent' = Entry
  <2>1. /\ TableOK' /\ Entry \in Proc /\ proc[Entry] = Free /\ Listed' = Listed /\ Starter' = Starter \cup {Entry}
        /\ proc'[Entry] # Free
        /\ \A p \in Proc : p # Entry => proc'[p] = proc[p]
    BY <1>1, <1>9, ForkAdds DEF ServiceInv
  <2>2. \A p \in Starter : p \in Proc /\ proc[p].by # "agent"
    BY <1>9, Names, NoStarterListed DEF ServiceInv, AgentOK
  <2>3. \A p \in Starter' : proc'[p].by = "agent" => p = agent'
    BY <1>9, <2>1, <2>2
  <2>4. UNCHANGED <<loaded, plist>>
    BY <1>1 DEF job
  <2>5. AgentOK'
    BY <1>1, <1>9, <2>1, <2>3, <2>4 DEF AgentOK, ServiceInv
  <2>6. OldType' /\ pass' \in [Terminal -> Nat] /\ pids' \in [Terminal -> SUBSET Proc]
    BY <1>1 DEF ServiceInv, ShellTypes, OldType
  <2>7. ShellTypes' /\ Lists'
    BY <1>3, <2>6, ShellKeeps DEF ServiceInv
  <2>8. OldRuns'
    BY <1>1, <1>3, <1>5, <2>1, <2>6, ShellOld DEF ServiceInv
  <2>9. Calm'
    BY <1>1, <1>3, <1>7, <2>6, ShellCalm DEF ServiceInv
  <2> QED  BY <2>1, <2>5, <2>7, <2>8, <2>9 DEF ServiceInv
<1> QED  BY <1>1, <1>8, <1>9

\* A server of a command's own.
LEMMA SpawnStage ==
  ASSUME ServiceInv, NEW t \in Terminal, Spawn(t)
  PROVE  ServiceInv'
<1>1. /\ At(t, "spawn") /\ CanFork /\ Then(t) /\ UNCHANGED <<listener, agent, job, pass, pids, old, calm>>
      /\ IF Model[command[t]] = "baseline" THEN Fork("exec", "baseline", "baseline")
                                           ELSE Fork("guard", "loose", Model[command[t]])
  BY DEF Spawn, Quiet
<1>2. todo[t] # <<>> /\ todo[t] \in Seq(Stage) /\ todo[t][1] = "spawn" /\ command[t] \in DOMAIN Script /\ ListOK(command[t], todo[t])
  BY <1>1, AtIs DEF ServiceInv, Lists
<1> PICK ss : ss = Tail(todo[t])
  OBVIOUS
<1>3. ShellStep(t, ss) /\ result[t] = "busy"
  BY <1>1, <1>2, ListTail DEF ShellStep, Then, ServiceInv, Lists
<1>4. "spawn" \notin Early /\ Killing \subseteq Early /\ "bootout" \in Early /\ "spawn" \notin {"bootout", "stragglers"}
  BY DEF Early, Killing
<1>5. command[t] \in Stoppers => Past(todo[t]) /\ Past(ss) /\ "spawn" \in Later(command[t])
  BY <1>2, <1>4, Heads, PastTail
<1>6. command[t] \in Stoppers => command[t] = "switch"
  BY <1>5 DEF Later, Stoppers, Stops, Restarts
<1>7. Model[command[t]] \in {"qwen", "crow", "baseline"} /\ Model["switch"] = "crow"
  <2>1. "switch" \in DOMAIN Script
    BY DEF Script
  <2> QED  BY <1>2, <2>1 DEF Model
<1>8. PICK by \in {"loose", "baseline"}, model \in {"qwen", "crow", "baseline"}, at \in {"guard", "exec"} :
        Fork(at, by, model) /\ (command[t] = "switch" => by = "loose" /\ model = "crow")
  <2>1. CASE Model[command[t]] = "baseline"
    BY <1>1, <1>7, <2>1
  <2>2. CASE Model[command[t]] # "baseline"
    BY <1>1, <1>7, <2>2
  <2> QED  BY <2>1, <2>2
<1>9. /\ TableOK' /\ Entry \in Proc /\ proc[Entry] = Free /\ Listed' = Listed /\ Starter' = Starter \cup {Entry}
      /\ proc'[Entry] # Free /\ proc'[Entry].by = by /\ proc'[Entry].model = model
      /\ \A p \in Proc : p # Entry => proc'[p] = proc[p]
  BY <1>1, <1>8, ForkAdds DEF ServiceInv
<1>10. UNCHANGED <<loaded, plist>>
  BY <1>1 DEF job
<1>11. \A p \in Starter' : proc'[p].by = "agent" => p \in Starter /\ proc[p].by = "agent"
  BY <1>8, <1>9, NoStarterListed
<1>12. agent \in Proc => proc'[agent] # Free
  BY <1>9 DEF ServiceInv, AgentOK
<1>13. AgentOK'
  BY <1>1, <1>10, <1>11, <1>12 DEF AgentOK, ServiceInv
<1>14. OldType' /\ pass' \in [Terminal -> Nat] /\ pids' \in [Terminal -> SUBSET Proc]
  BY <1>1 DEF ServiceInv, ShellTypes, OldType
<1>15. ShellTypes' /\ Lists'
  BY <1>3, <1>14, ShellKeeps DEF ServiceInv
<1>16. OldRuns'
  BY <1>1, <1>3, <1>5, <1>9, <1>14, ShellOld DEF ServiceInv
<1>17. ASSUME command[t] \in Stoppers, Cleared(t) => Ours(t)
       PROVE  Ours(t)'
  <2>1. Ours(t) /\ command[t] = "switch" /\ command[t] \notin Stops /\ command[t] \notin Restarts
    BY <1>3, <1>5, <1>6, <1>17 DEF Cleared, Stops, Restarts
  <2>2. ~ loaded /\ agent = NoProc
    BY <2>1 DEF Ours
  <2>3. command'[t] = command[t] /\ Model' = Model
    BY <1>1 DEF Then, GoOn, Model
  <2>4. \A p \in Proc : proc'[p] # Free => proc'[p].by = "loose" /\ proc'[p].model = Model[command[t]]
    BY <1>7, <1>8, <1>9, <2>1 DEF Ours
  <2> QED  BY <1>1, <1>10, <2>1, <2>2, <2>3, <2>4 DEF Ours
<1>18. command[t] \in Stoppers /\ ss # <<>> => ss[1] \notin Early
  <2>1. ss \in Seq(Stage)
    BY <1>3 DEF ShellStep, ListOK
  <2> QED  BY <1>5, <2>1, PastHead
<1>19. Calm'
  BY <1>1, <1>3, <1>4, <1>14, <1>17, <1>18, ShellCalm DEF ServiceInv
<1> QED  BY <1>9, <1>13, <1>15, <1>16, <1>19 DEF ServiceInv

\* launchd starts a loaded job: that happens to no command that has unloaded it for good.
LEMMA KeepAliveStep ==
  ASSUME ServiceInv, KeepAlive
  PROVE  ServiceInv'
<1>1. /\ loaded /\ agent = NoProc /\ CanFork /\ Fork("check", "agent", "qwen") /\ agent' = Entry
      /\ UNCHANGED <<listener, loaded, plist, command, todo, result, pass, pids, old, calm>>
  BY DEF KeepAlive, job, shell, observed
<1>2. /\ TableOK' /\ Entry \in Proc /\ proc[Entry] = Free /\ Listed' = Listed /\ Starter' = Starter \cup {Entry}
      /\ proc'[Entry] # Free /\ proc'[Entry].by = "agent" /\ proc'[Entry].model = "qwen"
      /\ \A p \in Proc : p # Entry => proc'[p] = proc[p]
  BY <1>1, ForkAdds DEF ServiceInv
<1>3. \A p \in Starter : p \in Proc /\ proc[p].by # "agent"
  BY <1>1, Names, NoStarterListed DEF ServiceInv, AgentOK
<1>4. AgentOK'
  BY <1>1, <1>2, <1>3 DEF AgentOK, ServiceInv
<1>5. ShellTypes' /\ Lists'
  BY <1>1 DEF ServiceInv, ShellTypes, Lists
<1>6. \A t \in Terminal : Cleared(t)' = Cleared(t) /\ ForeignSeen(t)' = ForeignSeen(t)
  BY <1>1 DEF Cleared, ForeignSeen
<1>7. OldRuns'
  BY <1>1, <1>2, <1>6 DEF ServiceInv, OldRuns
<1>8. ASSUME NEW t \in Terminal, calm'[t], command'[t] \in Stoppers
      PROVE  Alone(t)' /\ (Cleared(t)' => Ours(t)') /\ ForeignSeen(t)'
  <2>1. Alone(t) /\ (Cleared(t) => Ours(t)) /\ ForeignSeen(t)
    BY <1>1, <1>8 DEF ServiceInv, Calm
  <2>2. ~ InKill(t)
    BY <1>1, <2>1 DEF Alone
  <2>3. InOut(t) => \A p \in Starter' : proc'[p].by = "agent"
    <3>1. \A p \in Starter : p # Entry
      BY <1>2 DEF Starter, Free
    <3> QED  BY <1>2, <1>3, <2>1, <3>1 DEF Alone
  <2>4. Alone(t)'
    BY <1>1, <2>1, <2>2, <2>3 DEF Alone, InOut, InKill
  <2>5. ASSUME Ours(t)
        PROVE  Ours(t)'
    <3>1. command[t] \notin Stops /\ command[t] # "switch" /\ ~ Has(todo[t], "begin")
      BY <1>1, <2>5 DEF Ours
    <3>2. command[t] \in Restarts /\ command'[t] = command[t] /\ Model' = Model
      BY <1>1, <1>8, <3>1 DEF Stoppers, Model
    <3>3. Model[command[t]] = "qwen"
      BY <3>2 DEF Model, Restarts, Script
    <3>4. \A p \in Proc : proc'[p] # Free => proc'[p].by = "agent" /\ proc'[p].model = Model[command[t]]
      BY <1>2, <2>5, <3>1, <3>3 DEF Ours
    <3> QED  BY <1>1, <2>5, <3>1, <3>2, <3>4 DEF Ours
  <2> QED  BY <1>6, <2>1, <2>4, <2>5
<1>9. Calm'
  BY <1>8 DEF Calm
<1> QED  BY <1>2, <1>4, <1>5, <1>7, <1>9 DEF ServiceInv

-----------------------------------------------------------------------------
(* What is not a stage.                                                     *)

LEMMA InterruptStep ==
  ASSUME ServiceInv, NEW t \in Terminal, Interrupt(t)
  PROVE  ServiceInv'
<1>1. todo[t] # <<>> /\ Fail(t) /\ UNCHANGED <<host, loaded, plist, pass, pids, old, calm>>
  BY DEF Interrupt, job, observed
<1> QED  BY <1>1, StageFails DEF ServiceInv, AgentOK

\* A new command: what is listed now is what it finds.
LEMMA GiveStep ==
  ASSUME ServiceInv, NEW t \in Terminal, NEW c \in Gives[t], Give(t, c)
  PROVE  ServiceInv'
<1>1. /\ result[t] # "busy" /\ command' = [command EXCEPT ![t] = c] /\ todo' = [todo EXCEPT ![t] = Script[c]]
      /\ result' = [result EXCEPT ![t] = "busy"] /\ old' = [old EXCEPT ![t] = Listed \cup {listener["primary"]}]
      /\ calm' = [u \in Terminal |-> /\ u = t
                                     /\ \A v \in Terminal \ {t} : result[v] # "busy"
                                     /\ \A p \in Starter : proc[p].by = "agent"]
      /\ UNCHANGED <<proc, listener, agent, loaded, plist, pass, pids>>
  BY DEF Give, host, job
<1>2. c \in DOMAIN Script
  BY CommandAssumption
<1>3. ListOK(c, Script[c]) /\ Script[c] # <<>> /\ (c \in Stoppers => Script[c][1] = "bootout")
  BY <1>2, ListScript
<1>4. Script[c] \in Seq(Stage)
  BY <1>3 DEF ListOK
<1>5. /\ command'[t] = c /\ todo'[t] = Script[c] /\ result'[t] = "busy" /\ old'[t] = Listed \cup {listener["primary"]}
      /\ \A u \in Terminal \ {t} : command'[u] = command[u] /\ todo'[u] = todo[u] /\ result'[u] = result[u] /\ old'[u] = old[u]
  BY <1>1 DEF ServiceInv, ShellTypes
<1>6. listener["primary"] \in {NoProc, Foreign} \cup Proc
  BY DEF ServiceInv, TableOK
<1>7. ShellTypes'
  <2>1. Listed \cup {listener["primary"]} \subseteq {NoProc, Foreign} \cup Proc
    BY <1>6, NoStarterListed
  <2>2. old' \in [Terminal -> SUBSET ({NoProc, Foreign} \cup Proc)]
    BY <1>1, <2>1 DEF ServiceInv, ShellTypes
  <2>3. calm' \in [Terminal -> BOOLEAN]
    BY <1>1
  <2>4. /\ command' \in [Terminal -> DOMAIN Script] /\ todo' \in [Terminal -> Seq(Stage)]
        /\ result' \in [Terminal -> {"none", "busy", "ok", "failed"}]
    BY <1>1, <1>2, <1>4 DEF ServiceInv, ShellTypes
  <2> QED  BY <1>1, <2>2, <2>3, <2>4 DEF ServiceInv, ShellTypes
<1>8. Lists'
  BY <1>3, <1>5 DEF ServiceInv, Lists
<1>9. TableOK' /\ AgentOK' /\ Listed' = Listed /\ Starter' = Starter
  BY <1>1 DEF ServiceInv, TableOK, AgentOK, Listed, Starter
<1>10. c \in Stoppers => ~ Past(Script[c])
  BY <1>3, <1>4, PastHead DEF Early
<1>11. OldRuns'
  <2> SUFFICES ASSUME NEW u \in Terminal
               PROVE  /\ old'[u] \cap Proc \subseteq Listed'
                      /\ command'[u] \in Stoppers /\ Cleared(u)' => old'[u] \cap Proc = {}
    BY DEF OldRuns
  <2>1. CASE u = t
    <3>1. listener["primary"] \in Proc => listener["primary"] \in Listed
      BY DEF ServiceInv, TableOK, Listed
    <3> QED  BY <2>1, <3>1, <1>5, <1>9, <1>10 DEF Cleared
  <2>2. CASE u # t
    BY <2>2, <1>5, <1>9 DEF ServiceInv, OldRuns, Cleared
  <2> QED  BY <2>1, <2>2
<1>12. ASSUME NEW u \in Terminal, calm'[u], command'[u] \in Stoppers
       PROVE  Alone(u)' /\ (Cleared(u)' => Ours(u)') /\ ForeignSeen(u)'
  <2>1. /\ u = t /\ \A v \in Terminal \ {t} : result[v] # "busy"
        /\ \A p \in Starter : proc[p].by = "agent"
    BY <1>1, <1>12
  <2>2. c \in Stoppers
    BY <1>5, <1>12, <2>1
  <2>3. todo'[u] # <<>> /\ todo'[u][1] = "bootout" /\ ~ Past(todo'[u])
    BY <1>3, <1>5, <1>10, <2>1, <2>2
  <2>4. Alone(u)'
    BY <1>1, <1>5, <1>9, <2>1, <2>3 DEF Alone, InOut, InKill, Killing
  <2>5. ForeignSeen(u)'
    BY <1>1, <1>5, <2>1 DEF ForeignSeen
  <2> QED  BY <2>3, <2>4, <2>5 DEF Cleared
<1>13. Calm'
  BY <1>12 DEF Calm
<1> QED  BY <1>7, <1>8, <1>9, <1>11, <1>13 DEF ServiceInv

\* Starters and servers get on, or end.
LEMMA ProcSteps ==
  ASSUME ServiceInv, NEW p \in Proc, ProcStep(p) \/ Exits(p)
  PROVE  ServiceInv'
<1>1. UNCHANGED <<job, shell, calm>>
  BY DEF ProcStep, Exits, Guard, GuardFails, Check, CheckFails, Exec, Bind, BindFails, Ready, observed
<1>2. CASE Gone({p})
  <2>1. {p} \in SUBSET (Proc \cup {NoProc}) /\ TableOK /\ AgentOK /\ OldType
    BY DEF ServiceInv, ShellTypes, OldType
  <2>2. TableOK' /\ OldType' /\ Settles
    BY <1>2, <2>1, GoneSettles
  <2> QED  BY <1>1, <2>2, HostQuiet
<1>3. ASSUME NEW at,
             <<proc[p].at, at>> \in {<<"guard", "check">>, <<"check", "exec">>, <<"exec", "starting">>,
                                     <<"starting", "loading">>, <<"loading", "up">>},
             Moves(p, at), UNCHANGED <<agent, old>>,
             \/ listener' = listener
             \/ at = "loading" /\ listener' = [listener EXCEPT ![PortOf(p)] = p]
      PROVE  ServiceInv'
  <2>1. TableOK /\ AgentOK /\ OldType'
    BY <1>3 DEF ServiceInv, ShellTypes, OldType
  <2>2. TableOK' /\ Settles
    BY <1>3, <2>1, MovesSettles
  <2> QED  BY <1>1, <2>1, <2>2, HostQuiet
<1>4. CASE Guard(p)
  BY <1>3, <1>4 DEF Guard, observed
<1>5. CASE Check(p)
  BY <1>3, <1>5 DEF Check, observed
<1>6. CASE Exec(p)
  BY <1>3, <1>6 DEF Exec, observed
<1>7. CASE Bind(p)
  BY <1>3, <1>7 DEF Bind, observed
<1>8. CASE Ready(p)
  BY <1>3, <1>8 DEF Ready, observed
<1>9. CASE GuardFails(p) \/ CheckFails(p) \/ BindFails(p) \/ Exits(p)
  BY <1>2, <1>9 DEF GuardFails, CheckFails, BindFails, Exits
<1> QED  BY <1>4, <1>5, <1>6, <1>7, <1>8, <1>9 DEF ProcStep

\* Somebody else's server.
LEMMA ForeignSteps ==
  ASSUME ServiceInv, ForeignBinds \/ ForeignLeaves
  PROVE  ServiceInv'
<1>1. "primary" \in {"primary", "baseline"} /\ listener \in [{"primary", "baseline"} -> {NoProc, Foreign} \cup Proc]
  BY DEF ServiceInv, TableOK
<1>2. CASE ForeignLeaves
  <2>1. /\ listener' = [listener EXCEPT !["primary"] = NoProc]
        /\ UNCHANGED <<proc, agent, job, shell, old, calm>>
    BY <1>2 DEF ForeignLeaves, observed
  <2>2. /\ listener' \in [{"primary", "baseline"} -> {NoProc, Foreign} \cup Proc] /\ listener'["primary"] = NoProc
        /\ \A l \in {"primary", "baseline"} : listener'[l] \in Proc => listener'[l] = listener[l]
    BY <1>1, <2>1, Names
  <2>3. TableOK' /\ OldType'
    BY <2>1, <2>2 DEF ServiceInv, TableOK, ShellTypes, OldType
  <2>4. Listed' = Listed /\ Starter' = Starter
    BY <2>1 DEF Listed, Starter
  <2>5. Settles
    BY <2>1, <2>2, <2>4, Names DEF Settles, ServiceInv, AgentOK
  <2> QED  BY <2>1, <2>3, <2>5, HostQuiet
<1>3. CASE ForeignBinds
  <2>1. /\ listener' = [listener EXCEPT !["primary"] = Foreign]
        /\ calm' = [t \in Terminal |-> FALSE]
        /\ UNCHANGED <<proc, agent, loaded, plist, command, todo, result, pass, pids, old>>
    BY <1>3 DEF ForeignBinds, job, shell
  <2>2. /\ listener' \in [{"primary", "baseline"} -> {NoProc, Foreign} \cup Proc]
        /\ \A l \in {"primary", "baseline"} : listener'[l] \in Proc => listener'[l] = listener[l]
    BY <1>1, <2>1, Names
  <2>3. TableOK'
    BY <2>1, <2>2 DEF ServiceInv, TableOK
  <2>4. Listed' = Listed /\ Starter' = Starter
    BY <2>1 DEF Listed, Starter
  <2>5. AgentOK' /\ Lists'
    BY <2>1, <2>4 DEF ServiceInv, AgentOK, Lists
  <2>6. ShellTypes'
    BY <2>1 DEF ServiceInv, ShellTypes
  <2>7. OldRuns'
    BY <2>1, <2>4 DEF ServiceInv, OldRuns, Cleared
  <2>8. Calm'
    BY <2>1 DEF Calm
  <2> QED  BY <2>3, <2>5, <2>6, <2>7, <2>8 DEF ServiceInv
<1> QED  BY <1>2, <1>3

\* A login: nothing runs, no command is under way.
LEMMA LoginStep ==
  ASSUME ServiceInv, Login
  PROVE  ServiceInv'
<1>1. /\ proc' = [p \in Proc |-> Free] /\ listener' = [l \in {"primary", "baseline"} |-> NoProc]
      /\ agent' = NoProc /\ loaded' = plist /\ todo' = [t \in Terminal |-> <<>>]
      /\ result' = [t \in Terminal |-> IF plist \/ result[t] = "busy" THEN "none" ELSE result[t]]
      /\ old' = [t \in Terminal |-> {}] /\ UNCHANGED <<plist, command, pass, pids, calm>>
  BY DEF Login, ServiceInv, TableOK
<1>2. Free \in [at : {"free", "guard", "check", "exec", "starting", "loading", "up"},
                by : {"nobody", "agent", "loose", "baseline"},
                model : {"none", "qwen", "crow", "baseline"}] /\ Free.at = "free"
  BY DEF Free
<1>3. TableOK' /\ Starter' = {} /\ Listed' = {}
  BY <1>1, <1>2, Names DEF TableOK, Starter, Listed
<1>4. AgentOK'
  BY <1>1, <1>3, Names DEF ServiceInv, AgentOK
<1>5. ShellTypes'
  <2>1. todo' \in [Terminal -> Seq(Stage)] /\ old' \in [Terminal -> SUBSET ({NoProc, Foreign} \cup Proc)]
    BY <1>1
  <2>2. result' \in [Terminal -> {"none", "busy", "ok", "failed"}]
    BY <1>1 DEF ServiceInv, ShellTypes
  <2> QED  BY <1>1, <2>1, <2>2 DEF ServiceInv, ShellTypes
<1>6. Lists'
  BY <1>1, ListEmpty DEF ServiceInv, Lists, ShellTypes
<1>7. OldRuns'
  BY <1>1 DEF OldRuns
<1>8. ASSUME NEW t \in Terminal
      PROVE  Alone(t)' /\ (Cleared(t)' => Ours(t)') /\ ForeignSeen(t)'
  <2>1. Alone(t)'
    BY <1>1 DEF Alone, InOut, InKill
  <2>2. ForeignSeen(t)'
    BY <1>1, Names DEF ForeignSeen
  <2>3. ASSUME Cleared(t)'
        PROVE  Ours(t)'
    <3>1. plist = FALSE /\ loaded' = FALSE
      BY <1>1, <2>3 DEF Cleared, ServiceInv, AgentOK
    <3> QED  BY <1>1, <3>1, Names DEF Ours
  <2> QED  BY <2>1, <2>2, <2>3
<1>9. Calm'
  BY <1>8 DEF Calm
<1> QED  BY <1>3, <1>4, <1>5, <1>6, <1>7, <1>9 DEF ServiceInv

LEMMA ServiceInvInit == ServiceInit => ServiceInv
<1> SUFFICES ASSUME ServiceInit  PROVE ServiceInv
  OBVIOUS
<1>1. PICK f \in {NoProc, Foreign} : listener = [primary |-> f, baseline |-> NoProc]
  BY DEF ServiceInit
<1>2. /\ proc = [p \in Proc |-> Free] /\ plist \in BOOLEAN /\ loaded = FALSE /\ agent = NoProc
      /\ command = [t \in Terminal |-> "stop"] /\ todo = [t \in Terminal |-> <<>>]
      /\ result = [t \in Terminal |-> "none"]
      /\ pass = [t \in Terminal |-> 0] /\ pids = [t \in Terminal |-> {}]
      /\ old = [t \in Terminal |-> {}] /\ calm = [t \in Terminal |-> FALSE]
  BY DEF ServiceInit
<1>3. Free \in [at : {"free", "guard", "check", "exec", "starting", "loading", "up"},
                by : {"nobody", "agent", "loose", "baseline"},
                model : {"none", "qwen", "crow", "baseline"}] /\ Free.at = "free"
  BY DEF Free
<1>4. DOMAIN listener = {"primary", "baseline"} /\ \A l \in {"primary", "baseline"} : listener[l] \in {NoProc, Foreign}
  BY <1>1
<1>5. listener \in [{"primary", "baseline"} -> {NoProc, Foreign} \cup Proc]
  BY <1>1
<1>6. TableOK
  BY <1>2, <1>3, <1>4, <1>5, Names DEF TableOK
<1>7. AgentOK
  BY <1>2, <1>3, Names DEF AgentOK, Starter
<1>8. "stop" \in DOMAIN Script
  BY DEF Script
<1>9. ShellTypes
  BY <1>2, <1>8 DEF ShellTypes
<1>10. Lists
  BY <1>2, <1>8, ListEmpty DEF Lists
<1> QED  BY <1>2, <1>6, <1>7, <1>9, <1>10 DEF ServiceInv, OldRuns, Calm

LEMMA ServiceInvStep == ServiceInv /\ [ServiceNext]_service => ServiceInv'
<1> SUFFICES ASSUME ServiceInv, [ServiceNext]_service  PROVE ServiceInv'
  OBVIOUS
<1>1. ASSUME NEW t \in Terminal, StopStep(t)
      PROVE  ServiceInv'
  BY <1>1, BootoutStage, TerminateStage, StragglersStage, LastPassStage, SimpleStages DEF StopStep
<1>2. ASSUME NEW t \in Terminal, StartStep(t)
      PROVE  ServiceInv'
  BY <1>2, SimpleStages, LoadStage, KickstartStage, BootstrapStage, ProbeStage, SpawnStage DEF StartStep
<1>3. CASE UNCHANGED service
  <2>1. UNCHANGED <<proc, listener, agent, plist, loaded, command, todo, result, pass, pids, old, calm>>
    BY <1>3 DEF service, host, job, shell, observed
  <2>2. UNCHANGED <<job, shell, calm>> /\ OldType'
    BY <2>1 DEF job, shell, ServiceInv, ShellTypes, OldType
  <2>3. TableOK' /\ Settles
    BY <2>1, Nothing DEF ServiceInv
  <2> QED  BY <2>2, <2>3, HostQuiet
<1> QED  BY <1>1, <1>2, <1>3, InterruptStep, GiveStep, ProcSteps, KeepAliveStep, ForeignSteps, LoginStep DEF ServiceNext

LEMMA ServiceInvAlways == ServiceSpec => []ServiceInv
  BY ServiceInvInit, ServiceInvStep, PTL DEF ServiceSpec

\* A command that has ended well is past the killing.
LEMMA EndedCleared ==
  ASSUME ServiceInv, NEW t \in Terminal, result[t] = "ok"
  PROVE  todo[t] = <<>> /\ Cleared(t) /\ \A s : ~ Has(todo[t], s)
<1>1. todo[t] = <<>> /\ command[t] \in DOMAIN Script
  BY DEF ServiceInv, Lists, ShellTypes
<1> QED  BY <1>1, ListEmpty DEF Cleared

\* For any number of terminals, processes and passes: a stop or unregister that reports
\* success has ended every server it found, whatever else went on, and if nothing
\* interfered no server, starter or loaded job of the repository is left (stop-all.sh,
\* service.sh stop and unregister).
THEOREM StopAlwaysHolds == ServiceSpec => []StopHolds
<1>1. ServiceInv => StopHolds
  <2> SUFFICES ASSUME ServiceInv, NEW t \in Terminal, result[t] = "ok", command[t] \in {"stop", "unregister"}
               PROVE  /\ old[t] \cap Listed = {}
                      /\ calm[t] => ~ loaded /\ agent = NoProc /\ Listed \cup Starter = {}
    BY DEF StopHolds, Did
  <2>1. command[t] \in Stoppers /\ command[t] \in Stops /\ Cleared(t)
    BY EndedCleared DEF Stoppers, Stops
  <2>2. old[t] \cap Listed = {}
    BY <2>1, NoStarterListed DEF ServiceInv, OldRuns
  <2>3. ASSUME calm[t]
        PROVE  ~ loaded /\ agent = NoProc /\ Listed \cup Starter = {}
    <3>1. Ours(t)
      BY <2>1, <2>3 DEF ServiceInv, Calm
    <3>2. \A p \in Proc : proc[p] = Free
      BY <2>1, <3>1 DEF Ours
    <3>3. Listed \cup Starter = {}
      BY <3>2 DEF Listed, Starter, Free
    <3> QED  BY <2>1, <3>1, <3>3 DEF Ours
  <2> QED  BY <2>2, <2>3
<1> QED  BY <1>1, ServiceInvAlways, PTL

\* For any number of terminals, processes and passes: a restart, a stop and start, or a
\* switch of the model that reports health, with nothing interfering, reports that of a
\* server which it started itself, with the model that was asked for, and never that of
\* one it found (restart-turboquant.sh, switch-model.sh, service.sh).
THEOREM UpIsAlwaysOurs == ServiceSpec => []UpIsOurs
<1>1. ServiceInv => UpIsOurs
  <2> SUFFICES ASSUME ServiceInv, NEW t \in Terminal, result[t] = "ok", command[t] \in {"restart", "again", "switch"}, calm[t],
                      command[t] = "switch" => Foreign \notin old[t],
                      NEW p, p = listener["primary"], p # NoProc
               PROVE  /\ p \in Proc \ old[t]
                      /\ proc[p].by = (IF command[t] = "switch" THEN "loose" ELSE "agent")
                      /\ proc[p].model = Model[command[t]]
    BY DEF UpIsOurs, Did
  <2>1. command[t] \in Stoppers /\ command[t] \in Restarts \cup {"switch"} /\ Cleared(t) /\ \A s : ~ Has(todo[t], s)
    BY EndedCleared DEF Stoppers, Restarts
  <2>2. Ours(t) /\ ForeignSeen(t)
    BY <2>1 DEF ServiceInv, Calm
  <2>3. p # Foreign
    BY <2>1, <2>2 DEF Ours, ForeignSeen
  <2>4. p \in Proc /\ proc[p].at \in {"loading", "up"}
    BY <2>3 DEF ServiceInv, TableOK
  <2>5. proc[p] # Free
    BY <2>4 DEF Free
  <2>6. p \notin old[t]
    BY <2>1, <2>4 DEF ServiceInv, OldRuns
  <2> QED  BY <2>2, <2>4, <2>5, <2>6 DEF Ours
<1> QED  BY <1>1, ServiceInvAlways, PTL
=============================================================================
