------------------------------ MODULE ChatRepl ------------------------------
(***************************************************************************)
(* The streaming chat client (scripts/demo-chat.py): its prompt, the slash *)
(* commands, the bounded history, one turn with its event stream, and the  *)
(* SIGINT that may arrive at any moment of it.                             *)
(*                                                                         *)
(* The stream is a sequence of lines; on the wire each line is two halves, *)
(* so that a read may end within a line.  A piece of text is named by the  *)
(* kind of the line that carried it.  A user's line has weight 1, a reply  *)
(* the number of its pieces.                                               *)
(*                                                                         *)
(* SIGINT at the prompt only redraws it, and SIGINT while the connection   *)
(* is being opened finds nothing to close; neither changes any state here. *)
(***************************************************************************)
EXTENDS Integers, Sequences, FiniteSets, SequencesExt, FiniteSetsExt

CONSTANTS
  Text,       \* lines a user may type that are no command
  System,     \* the system prompt of --system
  HasSystem,  \* whether it is given
  Cap,        \* --max-history-chars
  Streams,    \* the replies the server may stream
  Stored,     \* what the file of /save and /load may hold at the start
  MaxLines    \* bound on the lines typed

VARIABLES
  pc,
  typed,            \* lines typed so far
  line,             \* the line being handled
  history, think,   \* State
  missed,           \* auxiliary: some question in the history has no answer
  file,             \* the history file on disk
  request,          \* the body of the turn's request
  handler,          \* the SIGINT handler
  connected,        \* conn._resp is not None
  stream,           \* the reply the server sends (external)
  wire,             \* the halves of it that were not read yet
  buf,              \* the parser's buf
  content, reasoning,  \* content_acc, reasoning_acc
  screen,           \* the renderer's mode, whether the terminal is dim, and the pieces shown
  ended             \* why the process ended

turn == <<request, handler, connected, stream, wire, buf, content, reasoning, screen>>
user == <<typed, line>>
kept == <<history, think, missed>>
vars == <<pc, user, kept, file, turn, ended>>

Thinkings == {"/think on", "/think off", "/think auto", "/think toggle", "/think loud"}
Commands  == {"/help", "/reset", "/save", "/load", "/quit"} \cup Thinkings
Kinds    == {"thought", "word", "both", "control", "noise", "[DONE]"}
Message  == [role : {"system", "user", "assistant"}, text : Seq(Text \cup Kinds \cup {System}),
             reasoning : Seq(Kinds)]
Said(role, text, why) == [role |-> role, text |-> text, reasoning |-> why]
SystemMessage == Said("system", <<System>>, <<>>)

ASSUME StreamsAssumption == Streams \subseteq Seq(Kinds)
ASSUME StoredAssumption ==
  Stored \subseteq [kind : {"absent", "foreign", "torn", "history"}, messages : Seq(Message)]

-----------------------------------------------------------------------------
(* History                                                                  *)

Weight(h) == FoldLeft(LAMBDA n, m : n + Len(m.text) + Len(m.reasoning), 0, h)
Leading(h) == IF h # <<>> /\ h[1].role = "system" THEN 1 ELSE 0
\* h without its k oldest messages, the leading system message aside.
Without(h, k) == SubSeq(h, 1, Leading(h)) \o SubSeq(h, Leading(h) + k + 1, Len(h))
\* Mutant: single messages are dropped, not pairs.
PrunedSingly(h) ==
  Without(h, Min({k \in 0 .. Len(h) - Leading(h) :
                    Weight(Without(h, k)) <= Cap \/ k = Len(h) - Leading(h) - 1}))
\* prune_to_chars: oldest pairs go until the rest fits or fewer than two are left.
Pruned(h) ==
  LET Pairs == (Len(h) - Leading(h)) \div 2
  IN Without(h, 2 * Min({k \in 0 .. Pairs : Weight(Without(h, 2 * k)) <= Cap \/ k = Pairs}))

-----------------------------------------------------------------------------
(* The parser and the renderer                                              *)

Halves(ls) == [i \in 1 .. 2 * Len(ls) |-> [kind |-> ls[(i + 1) \div 2], end |-> i % 2 = 0]]
\* b"\n" in buf: buf holds the end of a line.
HasLine(halves) == \E i \in DOMAIN halves : halves[i].end
\* buf.split(b"\n", 1): its first line, and what follows it.  A line whose first
\* half was lost is no line of data.
FirstLine(halves) == IF halves[1].end THEN "noise" ELSE halves[1].kind
AfterLine(halves) == SubSeq(halves, IF halves[1].end THEN 2 ELSE 3, Len(halves))

\* The lines that add to the answer, and to the thinking.
Wordy    == {"word", "both", "control"}
Thinking == {"thought", "both"}
With(acc, k, adds) == IF k \in adds THEN Append(acc, k) ELSE acc

OnReasoning(s, k) ==
  [mode |-> "reasoning", dim |-> s.mode # "reasoning" \/ s.dim,
   shown |-> Append(s.shown, <<"thought", s.mode # "reasoning" \/ s.dim>>)]
OnContent(s, k) ==
  LET dim == s.mode # "reasoning" /\ s.dim
  IN [mode |-> "content", dim |-> dim, shown |-> Append(s.shown, <<"word", dim>>)]
\* What one line does to the terminal; sanitised away, control bytes do nothing.
Render(s, k) ==
  CASE k = "thought" -> OnReasoning(s, k)
    [] k = "word"    -> OnContent(s, k)
    [] k = "both"    -> OnContent(OnReasoning(s, k), k)
    [] OTHER         -> s
Blank == [mode |-> "none", dim |-> FALSE, shown |-> <<>>]

-----------------------------------------------------------------------------
(* The prompt and the slash commands                                        *)

HealthCheck ==
  /\ pc = "start"
  /\ \/ pc' = "prompt" /\ ended' = ended
     \/ pc' = "gone" /\ ended' = "no server"
  /\ UNCHANGED <<user, kept, file, turn>>

\* A line is read; blank ones are ignored, end of file leaves.
ReadLine ==
  /\ pc = "prompt"
  /\ typed < MaxLines
  /\ \E l \in Text \cup Commands : line' = l
  /\ typed' = typed + 1
  /\ pc' = "line"
  /\ UNCHANGED <<kept, file, turn, ended>>
EndOfFile ==
  /\ pc = "prompt"
  /\ pc' = "gone" /\ ended' = "quit"
  /\ UNCHANGED <<user, kept, file, turn>>

Quit ==
  /\ pc = "line" /\ line = "/quit"
  /\ pc' = "gone" /\ ended' = "quit"
  /\ UNCHANGED <<user, kept, file, turn>>
Help ==
  /\ pc = "line" /\ line = "/help"
  /\ pc' = "prompt"
  /\ UNCHANGED <<user, kept, file, turn, ended>>
Reset ==
  /\ pc = "line" /\ line = "/reset"
  /\ history' = SubSeq(history, 1, Leading(history))
  /\ missed' = FALSE
  /\ pc' = "prompt"
  /\ UNCHANGED <<user, think, file, turn, ended>>

\* toggle goes from "auto" to "on"; any other word is refused.
Think ==
  /\ pc = "line" /\ line \in Thinkings
  /\ think' = CASE line = "/think on" -> "on"
                [] line = "/think off" -> "off"
                [] line = "/think auto" -> "auto"
                [] line = "/think toggle" -> (IF think = "on" THEN "off" ELSE "on")
                [] OTHER -> think
  /\ pc' = "prompt"
  /\ UNCHANGED <<user, history, missed, file, turn, ended>>

\* open(path, "w") empties the file; json.dump then fills it.
SaveOpens ==
  /\ pc = "line" /\ line = "/save"
  /\ \/ file' = [kind |-> "torn", messages |-> <<>>] /\ pc' = "save"
     \/ file' = file /\ pc' = "prompt"
  /\ UNCHANGED <<user, kept, turn, ended>>
SaveWrites ==
  /\ pc = "save"
  /\ \/ file' = [kind |-> "history", messages |-> history]
     \/ file' = file
  /\ pc' = "prompt"
  /\ UNCHANGED <<user, kept, turn, ended>>

\* The questions and answers of h alternate.
Paired(h) ==
  LET from == Leading(h)
  IN /\ (Len(h) - from) % 2 = 0
     /\ \A i \in from + 1 .. Len(h) :
          h[i].role = IF (i - from) % 2 = 1 THEN "user" ELSE "assistant"

Load ==
  /\ pc = "line" /\ line = "/load"
  /\ file.kind = "history"
  /\ history' = file.messages
  /\ missed' = ~ Paired(file.messages)
  /\ pc' = "prompt"
  /\ UNCHANGED <<user, think, file, turn, ended>>
LoadFails ==
  /\ pc = "line" /\ line = "/load"
  /\ file.kind \in {"absent", "torn"}
  /\ pc' = "prompt"
  /\ UNCHANGED <<user, kept, file, turn, ended>>
\* JSON of another shape: neither OSError nor JSONDecodeError.
LoadBreaks ==
  /\ pc = "line" /\ line = "/load"
  /\ file.kind = "foreign"
  /\ pc' = "gone" /\ ended' = "traceback"
  /\ UNCHANGED <<user, kept, file, turn>>

-----------------------------------------------------------------------------
(* One turn                                                                 *)

\* run_turn up to the connection: append, prune, build_request_body.
StartTurn ==
  /\ pc = "line" /\ line \in Text
  /\ history' = Pruned(Append(history, Said("user", <<line>>, <<>>)))
  /\ request' = [messages |-> history', thinking |-> think]
  /\ pc' = "turn"
  /\ UNCHANGED <<user, think, missed, file, handler, connected, stream, wire, buf,
                 content, reasoning, screen, ended>>

\* The handler is set and the prefix of the reply printed.
Arm ==
  /\ pc = "turn"
  /\ handler' = "cancel" /\ screen' = Blank
  /\ pc' = "open"
  /\ UNCHANGED <<user, kept, file, request, connected, stream, wire, buf, content, reasoning, ended>>

\* finally: the handler restored, the connection closed.
CleanUp == handler' = "default" /\ connected' = FALSE
Forget == request' = <<>> /\ stream' = <<>> /\ wire' = <<>> /\ buf' = <<>>
          /\ content' = <<>> /\ reasoning' = <<>>
\* The terminal is left dim or not; every coloured message leaves it not dim.
Leave(dim) == screen' = [Blank EXCEPT !.dim = dim]

Opened ==
  /\ pc = "open"
  /\ connected' = TRUE
  /\ \E s \in Streams : stream' = s /\ wire' = Halves(s)
  /\ buf' = <<>> /\ content' = <<>> /\ reasoning' = <<>>
  /\ pc' = "read"
  /\ UNCHANGED <<user, kept, file, request, handler, screen, ended>>
\* Mutant: the turn is tried again for as long as the server is down.
RefusedAgain ==
  /\ pc = "open"
  /\ handler' = "default"
  /\ pc' = "turn"
  /\ UNCHANGED <<user, kept, file, request, connected, stream, wire, buf, content, reasoning,
                 screen, ended>>
\* Mutant: the early return skips the clean-up.
RefusedArmed ==
  /\ pc = "open"
  /\ pc' = "prompt"
  /\ missed' = TRUE
  /\ Forget /\ Leave(FALSE)
  /\ UNCHANGED <<user, history, think, file, handler, connected, ended>>
\* URLError: reported, and the question stays.
Refused ==
  /\ pc = "open"
  /\ pc' = "prompt"
  /\ missed' = TRUE
  /\ CleanUp /\ Forget /\ Leave(FALSE)
  /\ UNCHANGED <<user, history, think, file, ended>>
\* Closed or timed out before the response's header: not an URLError.
NoHeader ==
  /\ pc = "open"
  /\ pc' = "gone" /\ ended' = "traceback"
  /\ CleanUp
  /\ UNCHANGED <<user, kept, file, request, stream, wire, buf, content, reasoning, screen>>

\* Mutant: each chunk is parsed for itself.
ReceiveAlone ==
  /\ pc = "read" /\ connected /\ ~ HasLine(buf)
  /\ \E n \in 1 .. Len(wire) :
       /\ buf' = SubSeq(wire, 1, n)
       /\ wire' = SubSeq(wire, n + 1, Len(wire))
  /\ UNCHANGED <<pc, user, kept, file, request, handler, connected, stream, content,
                 reasoning, screen, ended>>
\* A read returns n halves, which join what the last one left.  When SIGINT finds
\* the read with its data, it comes after it; when it finds it waiting, see Closed.
Receive ==
  /\ pc = "read" /\ connected /\ ~ HasLine(buf)
  /\ \E n \in 1 .. Len(wire) :
       /\ buf' = buf \o SubSeq(wire, 1, n)
       /\ wire' = SubSeq(wire, n + 1, Len(wire))
  /\ UNCHANGED <<pc, user, kept, file, request, handler, connected, stream, content,
                 reasoning, screen, ended>>
\* One turn of the loop over complete lines, with what run_turn does with the
\* events of the line; [DONE] ends the generator.  It goes on after a SIGINT.
ParseLine ==
  /\ pc = "read" /\ HasLine(buf)
  /\ LET k == FirstLine(buf) IN
     /\ buf' = AfterLine(buf)
     /\ content' = With(content, k, Wordy)
     /\ reasoning' = With(reasoning, k, Thinking)
     /\ screen' = Render(screen, k)
     /\ \/ k = "[DONE]" /\ pc' = "end" /\ CleanUp
        \/ k # "[DONE]" /\ UNCHANGED <<pc, handler, connected>>
  /\ UNCHANGED <<user, kept, file, request, stream, wire, ended>>
\* The server closes the connection, at the end of the stream or before it; or
\* the read fails with an OSError or times out (StreamCancelled); or a read that
\* had begun when cancel_handler ran finds its response closed.
Closed ==
  /\ pc = "read" /\ ~ HasLine(buf)
  /\ \/ screen' = screen
     \/ screen' = [screen EXCEPT !.dim = FALSE]
  /\ CleanUp
  /\ pc' = "end"
  /\ UNCHANGED <<user, kept, file, request, stream, wire, buf, content, reasoning, ended>>
\* A chunked response ends within a chunk (IncompleteRead).
Truncated ==
  /\ pc = "read" /\ connected /\ wire # <<>> /\ ~ HasLine(buf)
  /\ pc' = "gone" /\ ended' = "traceback"
  /\ CleanUp
  /\ UNCHANGED <<user, kept, file, request, stream, wire, buf, content, reasoning, screen>>
\* After cancel_handler the next read finds no response at all: AttributeError.
ReadNothing ==
  /\ pc = "read" /\ ~ connected /\ ~ HasLine(buf)
  /\ pc' = "gone" /\ ended' = "sigint"
  /\ CleanUp
  /\ UNCHANGED <<user, kept, file, request, stream, wire, buf, content, reasoning, screen>>

\* end_turn resets the colour; the reply, complete or not, enters the history.
FinishTurn ==
  /\ pc = "end"
  /\ history' = Append(history, Said("assistant", content, reasoning))
  /\ Forget /\ Leave(screen.dim /\ screen.mode # "reasoning")
  /\ pc' = "prompt"
  /\ UNCHANGED <<user, think, missed, file, handler, connected, ended>>

\* SIGINT.  The default handler raises KeyboardInterrupt: repl catches it
\* around run_turn, but not around dispatch_slash.
InterruptCommand ==
  /\ pc \in {"line", "save"}
  /\ pc' = "gone" /\ ended' = "keyboard interrupt"
  /\ UNCHANGED <<user, kept, file, turn>>
InterruptTurn ==
  /\ pc \in {"turn", "end"}
  /\ missed' = TRUE
  /\ Forget /\ Leave(FALSE)
  /\ pc' = "prompt"
  /\ UNCHANGED <<user, history, think, file, handler, connected, ended>>
InterruptStream ==
  /\ pc = "read" /\ connected
  /\ connected' = FALSE
  /\ UNCHANGED <<pc, user, kept, file, request, handler, stream, wire, buf, content, reasoning,
                 screen, ended>>

-----------------------------------------------------------------------------
Init ==
  /\ pc = "start" /\ typed = 0 /\ line = "/help"
  /\ history = IF HasSystem THEN <<SystemMessage>> ELSE <<>>
  /\ think \in {"on", "off", "auto"}
  /\ missed = FALSE
  /\ file \in Stored
  /\ request = <<>> /\ handler = "default" /\ connected = FALSE
  /\ stream = <<>> /\ wire = <<>> /\ buf = <<>> /\ content = <<>> /\ reasoning = <<>>
  /\ screen = Blank /\ ended = "no"

Command == \/ Quit \/ Help \/ Reset \/ Think
           \/ SaveOpens \/ SaveWrites \/ Load \/ LoadFails \/ LoadBreaks
Turn    == \/ StartTurn \/ Arm \/ Opened \/ Refused \/ NoHeader
           \/ Receive \/ ParseLine \/ Closed \/ Truncated \/ ReadNothing \/ FinishTurn

Next ==
  \/ HealthCheck \/ ReadLine \/ EndOfFile
  \/ Command \/ Turn
  \/ InterruptCommand \/ InterruptTurn \/ InterruptStream

Spec == Init /\ [][Next]_vars
\* A connection and a read end within the 600 s timeout and a stream is finite;
\* the rest of a turn does not wait.
FairSpec == Spec /\ WF_vars(Turn)

-----------------------------------------------------------------------------
(* Properties                                                               *)

\* acc holds the lines of ls that add to it, in their order.
Gathers(acc, ls, adds) ==
  LET Adding == {i \in DOMAIN ls : ls[i] \in adds} IN
  /\ Len(acc) = Cardinality(Adding)
  /\ \A i \in Adding : acc[Cardinality({j \in Adding : j <= i})] = ls[i]
\* ls up to its [DONE].
Told(ls) ==
  LET Done == {i \in DOMAIN ls : ls[i] = "[DONE]"}
  IN SubSeq(ls, 1, IF Done = {} THEN Len(ls) ELSE Min(Done) - 1)

\* However the bytes of the stream are cut into reads, what a turn has gathered
\* whenever it waits for more or is over is what the complete lines received so
\* far say (demo-chat.py 133-135: "It tolerates byte boundaries falling mid-line
\* and mid-event").
\* And the thinking is shown dim, the answer never, whatever their order ("when
\* content arrives, ... the dim-color is closed", demo-chat.py 26-29).
ReplyIsTheStream ==
  /\ pc = "end" \/ (pc = "read" /\ ~ HasLine(buf)) =>
       LET received == Told(SubSeq(stream, 1, (2 * Len(stream) - Len(wire)) \div 2)) IN
       Gathers(content, received, Wordy) /\ Gathers(reasoning, received, Thinking)
  /\ \A i \in DOMAIN screen.shown : screen.shown[i][2] = (screen.shown[i][1] = "thought")

\* The request fits the cap, unless less than a pair is left besides the system
\* message; and unless a turn before failed or was interrupted it is an unbroken
\* talk that ends with the line just typed (demo-chat.py 220-229, 445-448).
RequestAsksTheLine ==
  pc = "turn" =>
    LET sent == request.messages IN
    /\ Weight(sent) <= Cap \/ Len(sent) <= Leading(sent) + 1
    /\ ~ missed => /\ sent # <<>> /\ Last(sent) = Said("user", <<line>>, <<>>)
                   /\ Paired(Front(sent))

\* "Drop the oldest user+assistant pair." (demo-chat.py:228): pruning never drops
\* the line just typed, which has no answer yet.  After a failed turn the pair
\* may be two questions, the line just typed among them.
TypedLineSent ==
  pc = "turn" => /\ request.messages # <<>>
                 /\ Last(request.messages) = Said("user", <<line>>, <<>>)

\* At the prompt the terminal is not dim, Ctrl-C has its usual meaning and no
\* connection is open, however the last turn ended.
PromptIsClean == pc \in {"prompt", "line"} => handler = "default" /\ ~ connected /\ ~ screen.dim

\* Every turn comes back to the prompt or ends the process.
TurnEnds == (pc \in {"turn", "open", "read", "end"}) ~> (pc \in {"prompt", "gone"})

\* "SIGINT during a stream cancels the in-flight reply, prints "(interrupted)",
\* saves the partial reply to history, and returns to the prompt - does not
\* exit." (demo-chat.py 49-51)
InterruptReturns == ended # "sigint"
=============================================================================
