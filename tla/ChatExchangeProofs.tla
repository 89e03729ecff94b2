------------------------- MODULE ChatExchangeProofs -------------------------
(* Proofs about ChatExchange for any hooks, in any number and registered for  *)
(* any phases, any requests, and responses of any length.                     *)
EXTENDS ChatExchange, TLAPS

(***************************************************************************)
(* Neither property is inductive: what the response and the log hold at    *)
(* the end depends on where the handler is when something else ends it.    *)
(***************************************************************************)

Waiting  == {"counting", "rewriting", "recounting"}
Unsent   == Phases \cup Waiting
Stations == Unsent \cup {"fetch", "stream", "over"}
Words    == Heads \cup {"chunk", "[DONE]", "end"}

\* What the client and the log have been written at each station.
StationInv ==
  /\ at \in Stations /\ response \in Seq(Words) /\ timer \in {"off", "armed", "fired"}
  /\ at \in Unsent => setup.kind = "chat" /\ ~ sent
  /\ at \in Unsent \cup {"fetch"} => response = <<>>
  /\ at = "stream" => /\ response # <<>> /\ response[1] = "head"
                      /\ \A i \in DOMAIN response : i # 1 => response[i] = "chunk"
  /\ at # "over" => records = 0
  /\ at = "over" => timer # "armed"
ResponseInv == StationInv /\ OneResponse

\* The context keeps its fields, so that nothing but an abort touches aborted.
ContextShape ==
  ctx = [messages |-> ctx.messages, out |-> ctx.out, buf |-> ctx.buf, aborted |-> ctx.aborted]
\* A refusal stands in the phase it was made in until the handler heeds it.
Standing ==
  refused =>
    /\ ~ sent
    /\ \/ at = "over" /\ response = <<"4xx", "end">>
       \/ at \in Phases /\ HooksAt(at) # <<>> /\ ctx.aborted
RefusalInv == ResponseInv /\ ContextShape /\ Standing

\* The response is over with one word, or with two.
LEMMA LastWord ==
  ASSUME NEW s \in Seq(Words), NEW w \in Words
  PROVE  /\ s \o <<w>> \in Seq(Words) /\ Len(s \o <<w>>) = Len(s) + 1
         /\ DOMAIN (s \o <<w>>) = 1 .. Len(s) + 1
         /\ \A i \in 1 .. Len(s) : (s \o <<w>>)[i] = s[i]
         /\ (s \o <<w>>)[Len(s) + 1] = w
  OBVIOUS

LEMMA LastTwoWords ==
  ASSUME NEW s \in Seq(Words), NEW v \in Words, NEW w \in Words
  PROVE  /\ s \o <<v, w>> \in Seq(Words) /\ Len(s \o <<v, w>>) = Len(s) + 2
         /\ DOMAIN (s \o <<v, w>>) = 1 .. Len(s) + 2
         /\ \A i \in 1 .. Len(s) : (s \o <<v, w>>)[i] = s[i]
         /\ (s \o <<v, w>>)[Len(s) + 1] = v /\ (s \o <<v, w>>)[Len(s) + 2] = w
  OBVIOUS

LEMMA LengthOfResponse ==
  ASSUME NEW s \in Seq(Words)
  PROVE  DOMAIN s = 1 .. Len(s) /\ Len(s) \in Nat /\ (s # <<>> => Len(s) >= 1)
  OBVIOUS

\* Nothing is written before the body is sent, nor while a hook acts.
LEMMA NothingWritten ==
  ASSUME ResponseInv, at \in Unsent, at' \in Unsent \cup {"fetch"},
         UNCHANGED <<setup, response, records>>, timer' \in {"off", "armed", "fired"},
         at' \in Unsent => sent' = sent
  PROVE  ResponseInv'
  <1>1. response = <<>> /\ records = 0 /\ setup.kind = "chat" /\ ~ sent /\ at' # "over" /\ at' # "stream"
    BY DEF ResponseInv, StationInv, Unsent, Phases, Waiting
  <1>2. StationInv'
    BY <1>1 DEF ResponseInv, StationInv, Unsent, Phases, Waiting, Stations
  <1>3. OneResponse'
    BY <1>1 DEF OneResponse
  <1>4. QED
    BY <1>2, <1>3 DEF ResponseInv

LEMMA OthersAct ==
  ASSUME ResponseInv, UNCHANGED <<at, setup, response, records, timer, sent>>
  PROVE  ResponseInv'
  BY DEF ResponseInv, StationInv, OneResponse

\* The handler answers itself: with an error, or with the rewrite.
LEMMA OwnAnswer ==
  ASSUME ResponseInv, at \in Unsent \cup {"fetch"}, NEW w \in Heads \ {"head"}, Over(<<w, "end">>),
         setup' = setup, w = "200" => at \in Unsent,
         records' = IF w = "200" THEN records + 1 ELSE records
  PROVE  ResponseInv'
  <1>1. response = <<>> /\ records = 0 /\ (w = "200" => setup.kind = "chat")
    BY DEF ResponseInv, StationInv, Unsent, Phases, Waiting
  <1>2. response' = <<w, "end">> /\ at' = "over" /\ timer' = (IF timer = "armed" THEN "off" ELSE timer)
    BY <1>1 DEF Over
  <1>3. w \in Words /\ "end" \in Words /\ "end" \notin Heads /\ w # "[DONE]" /\ w # "end"
    BY DEF Words, Heads
  <1>4. response' \in Seq(Words) /\ DOMAIN response' = 1 .. 2 /\ Len(response') = 2
        /\ response'[1] = w /\ response'[2] = "end" /\ response' # <<>>
    BY <1>2, <1>3
  <1>5. StationInv'
    BY <1>2, <1>4 DEF ResponseInv, StationInv, Unsent, Phases, Waiting, Stations
  <1>6. \A i \in DOMAIN response' : i = 1 \/ i = 2
    BY <1>4
  <1>7. OneResponse'
    BY <1>1, <1>2, <1>3, <1>4, <1>6 DEF OneResponse, Heads
  <1>8. QED
    BY <1>5, <1>7 DEF ResponseInv

LEMMA HeadComes ==
  ASSUME ResponseInv, Headers
  PROVE  ResponseInv'
  <1>1. response = <<>> /\ records = 0 /\ at' = "stream" /\ UNCHANGED <<setup, timer, records>>
    BY DEF ResponseInv, StationInv, Headers, request
  <1>2. response' = <<"head">>
    BY <1>1 DEF Headers
  <1>3. response' \in Seq(Words) /\ DOMAIN response' = 1 .. 1 /\ response'[1] = "head" /\ response' # <<>>
    BY <1>2 DEF Words, Heads
  <1>4. \A i \in DOMAIN response' : i = 1
    BY <1>3
  <1>5. StationInv'
    BY <1>1, <1>3, <1>4 DEF ResponseInv, StationInv, Unsent, Phases, Waiting, Stations
  <1>6. OneResponse'
    BY <1>1, <1>3, <1>4 DEF OneResponse, Heads
  <1>7. QED
    BY <1>5, <1>6 DEF ResponseInv

\* What is known of a response while its body comes.
LEMMA Streaming ==
  ASSUME ResponseInv, at = "stream"
  PROVE  /\ response \in Seq(Words) /\ Len(response) \in Nat /\ Len(response) >= 1 /\ response[1] = "head"
         /\ DOMAIN response = 1 .. Len(response) /\ records = 0
         /\ \A i \in 1 .. Len(response) : i # 1 => response[i] = "chunk"
  BY LengthOfResponse DEF ResponseInv, StationInv

LEMMA BodyComes ==
  ASSUME ResponseInv, Chunk
  PROVE  ResponseInv'
  <1>1. /\ at = "stream" /\ at' = "stream" /\ response' = Append(response, "chunk")
        /\ UNCHANGED <<setup, timer, records>>
    BY DEF Chunk, request
  <1>2. "chunk" \in Words /\ "chunk" \notin Heads /\ "head" \in Heads
    BY DEF Words, Heads
  <1>3. /\ response' \in Seq(Words) /\ DOMAIN response' = 1 .. Len(response) + 1 /\ response' # <<>>
        /\ \A i \in 1 .. Len(response) : response'[i] = response[i]
        /\ response'[Len(response) + 1] = "chunk"
    BY <1>1, <1>2, Streaming
  <1>4. response'[1] = "head" /\ \A i \in DOMAIN response' : i # 1 => response'[i] = "chunk"
    BY <1>1, <1>3, Streaming
  <1>5. 1 \in DOMAIN response'
    BY <1>1, <1>3, Streaming
  <1>6. StationInv'
    BY <1>1, <1>3, <1>4 DEF ResponseInv, StationInv, Unsent, Phases, Waiting, Stations
  <1>7. OneResponse'
    BY <1>1, <1>2, <1>4, Streaming DEF OneResponse
  <1>8. QED
    BY <1>6, <1>7 DEF ResponseInv

\* The body ends, with or without a [DONE] of the proxy's.
LEMMA BodyEnds ==
  ASSUME ResponseInv, at = "stream", Over(<<"end">>), records' = Logged, setup' = setup
  PROVE  ResponseInv'
  <1>1. /\ at' = "over" /\ response' = response \o <<"end">>
        /\ timer' = (IF timer = "armed" THEN "off" ELSE timer)
    BY DEF Over
  <1>2. "end" \in Words /\ "end" \notin Heads /\ "chunk" \notin Heads /\ "head" \in Heads
    BY DEF Words, Heads
  <1>3. /\ response' \in Seq(Words) /\ Len(response') = Len(response) + 1
        /\ DOMAIN response' = 1 .. Len(response) + 1
        /\ \A i \in 1 .. Len(response) : response'[i] = response[i]
        /\ response'[Len(response) + 1] = "end"
    BY <1>1, <1>2, LastWord, Streaming
  <1>4. /\ response'[1] = "head" /\ response' # <<>>
        /\ \A i \in DOMAIN response' : i = 1 \/ response'[i] = "chunk" \/ i = Len(response')
    BY <1>3, Streaming
  <1>4a. 1 \in DOMAIN response' /\ Len(response') # 1
    BY <1>3, Streaming
  <1>5. StationInv'
    BY <1>1, <1>3 DEF ResponseInv, StationInv, Unsent, Phases, Waiting, Stations
  <1>6. records' = IF setup'.kind = "chat" THEN 1 ELSE 0
    BY Streaming DEF Logged
  <1>7. ASSUME NEW i \in DOMAIN response'
        PROVE  /\ response'[i] \in Heads <=> i = 1
               /\ response'[i] = "end" => i = Len(response')
               /\ response'[i] # "[DONE]"
    BY <1>2, <1>3, <1>4, <1>4a, <1>7
  <1>8. OneResponse'
    BY <1>1, <1>3, <1>4, <1>6, <1>7 DEF OneResponse
  <1>9. QED
    BY <1>5, <1>8 DEF ResponseInv

LEMMA BodyCut ==
  ASSUME ResponseInv, at = "stream", timer = "fired", setup.stream, Over(<<"[DONE]", "end">>),
         records' = Logged, setup' = setup
  PROVE  ResponseInv'
  <1>1. at' = "over" /\ response' = response \o <<"[DONE]", "end">> /\ timer' = "fired"
    BY DEF Over
  <1>2. "end" \in Words /\ "end" \notin Heads /\ "[DONE]" \in Words /\ "[DONE]" \notin Heads
        /\ "chunk" \notin Heads /\ "head" \in Heads
    BY DEF Words, Heads
  <1>3. /\ response' \in Seq(Words) /\ Len(response') = Len(response) + 2
        /\ DOMAIN response' = 1 .. Len(response) + 2
        /\ \A i \in 1 .. Len(response) : response'[i] = response[i]
        /\ response'[Len(response) + 1] = "[DONE]" /\ response'[Len(response) + 2] = "end"
    BY <1>1, <1>2, LastTwoWords, Streaming
  <1>4. /\ response'[1] = "head" /\ response' # <<>>
        /\ \A i \in DOMAIN response' :
             i = 1 \/ response'[i] = "chunk" \/ i = Len(response') - 1 \/ i = Len(response')
        /\ response'[Len(response') - 1] = "[DONE]" /\ response'[Len(response')] = "end"
    BY <1>3, Streaming
  <1>4a. 1 \in DOMAIN response' /\ Len(response') # 1 /\ Len(response') - 1 # 1
         /\ Len(response') \in Nat
    BY <1>3, Streaming
  <1>5. StationInv'
    BY <1>1, <1>3 DEF ResponseInv, StationInv, Unsent, Phases, Waiting, Stations
  <1>6. records' = IF setup'.kind = "chat" THEN 1 ELSE 0
    BY Streaming DEF Logged
  <1>7. ASSUME NEW i \in DOMAIN response'
        PROVE  /\ response'[i] \in Heads <=> i = 1
               /\ response'[i] = "end" => i = Len(response')
               /\ response'[i] = "[DONE]" => i = Len(response') - 1
    BY <1>2, <1>4, <1>4a, <1>7
  <1>8. OneResponse'
    BY <1>1, <1>4, <1>6, <1>7 DEF OneResponse
  <1>9. QED
    BY <1>5, <1>8 DEF ResponseInv

LEMMA ResponseStep == ResponseInv /\ [Next]_vars => ResponseInv'
  <1> SUFFICES ASSUME ResponseInv, [Next]_vars PROVE ResponseInv'
    OBVIOUS
  <1> USE DEF request, outbound, answer, hooking, lists
  <1>1. CASE \E p \in Phases : HookRefuses(p)
    <2>1. PICK p \in Phases : HookRefuses(p)
      BY <1>1
    <2>2. at \in Unsent /\ "4xx" \in Heads \ {"head"}
      BY <2>1 DEF HookRefuses, Ended, Unsent, Heads
    <2>3. Over(<<"4xx", "end">>) /\ records' = records /\ setup' = setup
      BY <2>1 DEF HookRefuses
    <2>4. QED
      BY <2>2, <2>3, OwnAnswer
  <1>2. CASE ReceivedEnds \/ Counted \/ BeforeEnds \/ Elide \/ RewriteReturns \/ RewriteFails \/ AfterEnds \/ Send
    <2>1. /\ at \in Unsent /\ at' \in Unsent \cup {"fetch"} /\ UNCHANGED <<setup, response, records>>
          /\ (timer' = timer \/ timer' = "armed") /\ (at' \in Unsent => sent' = sent)
      BY <1>2 DEF ReceivedEnds, Counted, BeforeEnds, Elide, RewriteReturns, RewriteFails, AfterEnds, Send,
                  Continues, Ended, Unsent, Phases, Waiting
    <2>2. timer' \in {"off", "armed", "fired"}
      BY <2>1 DEF ResponseInv, StationInv
    <2>3. QED
      BY <2>1, <2>2, NothingWritten
  <1>3. CASE DebugReply
    <2>1. /\ at \in Unsent /\ "200" \in Heads \ {"head"} /\ Over(<<"200", "end">>)
          /\ records' = records + 1 /\ setup' = setup
      BY <1>3 DEF DebugReply, Continues, Ended, Unsent, Phases, Heads
    <2>2. QED
      BY <2>1, OwnAnswer
  <1>4. CASE DebugFails
    <2>1. /\ at \in Unsent /\ "500" \in Heads \ {"head"} /\ Over(<<"500", "end">>)
          /\ records' = records /\ setup' = setup
      BY <1>4 DEF DebugFails, Continues, Ended, Unsent, Phases, Heads
    <2>2. QED
      BY <2>1, OwnAnswer
  <1>5. CASE TimerFires
    <2>1. /\ timer = "armed" /\ timer' = "fired" /\ UNCHANGED <<at, setup, response, records, sent>>
      BY <1>5 DEF TimerFires
    <2>2. QED
      BY <2>1 DEF ResponseInv, StationInv, OneResponse
  <1>6. CASE FetchAborted
    <2>1. /\ at \in Unsent \cup {"fetch"} /\ "504" \in Heads \ {"head"} /\ Over(<<"504", "end">>)
          /\ records' = records /\ setup' = setup
      BY <1>6 DEF FetchAborted, Heads
    <2>2. QED
      BY <2>1, OwnAnswer
  <1>7. CASE FetchFails
    <2>1. /\ at \in Unsent \cup {"fetch"} /\ "502" \in Heads \ {"head"} /\ Over(<<"502", "end">>)
          /\ records' = records /\ setup' = setup
      BY <1>7 DEF FetchFails, Heads
    <2>2. QED
      BY <2>1, OwnAnswer
  <1>8. CASE StreamAborted
    <2>1. CASE setup.stream
      BY <1>8, <2>1, BodyCut DEF StreamAborted
    <2>2. CASE ~ setup.stream
      BY <1>8, <2>2, BodyEnds DEF StreamAborted
    <2>3. QED
      BY <2>1, <2>2
  <1>9. CASE Headers
    BY <1>9, HeadComes
  <1>10. CASE Chunk
    BY <1>10, BodyComes
  <1>11. CASE StreamEnds
    BY <1>11, BodyEnds DEF StreamEnds
  <1>12. CASE StreamBreaks
    BY <1>12, BodyEnds DEF StreamBreaks
  <1>13. CASE \E h \in Hook : HookStep(h) \/ LateHookActs(h)
    <2>1. PICK h \in Hook : HookStep(h) \/ LateHookActs(h)
      BY <1>13
    <2>2. CASE PredicateThrows(h)
      <3>1. /\ at \in Unsent /\ "500" \in Heads \ {"head"} /\ Over(<<"500", "end">>)
            /\ records' = records /\ setup' = setup
        BY <2>2 DEF PredicateThrows, Calling, Unsent, Heads
      <3>2. QED
        BY <3>1, OwnAnswer
    <2>3. CASE HookActs(h) \/ HookPasses(h) \/ HookTimesOut(h) \/ LateHookActs(h)
      <3>1. UNCHANGED <<at, setup, response, records, timer, sent>>
        BY <2>3 DEF HookActs, HookPasses, HookTimesOut, LateHookActs
      <3>2. QED
        BY <3>1, OthersAct
    <2>4. QED
      BY <2>1, <2>2, <2>3 DEF HookStep
  <1>14. CASE UNCHANGED vars
    BY <1>14, OthersAct DEF vars
  <1>15. QED
    BY <1>1, <1>2, <1>3, <1>4, <1>5, <1>6, <1>7, <1>8, <1>9, <1>10, <1>11, <1>12, <1>13, <1>14
    DEF Next, HandlerStep, TimedOut, UpstreamStep

LEMMA ResponseInit == Init => ResponseInv
  <1> SUFFICES ASSUME Init PROVE ResponseInv
    OBVIOUS
  <1>1. response = <<>> /\ timer = "off" /\ records = 0
    BY DEF Init
  <1>2. \/ at = "received" /\ setup.kind = "chat" /\ ~ sent
        \/ at = "fetch"
    BY DEF Init
  <1>3. StationInv
    BY <1>1, <1>2 DEF StationInv, Stations, Unsent, Phases, Waiting
  <1>4. OneResponse
    BY <1>1, <1>2 DEF OneResponse
  <1>5. QED
    BY <1>3, <1>4 DEF ResponseInv

\* Whatever hooks there are and do, and however upstream and timer race, a
\* response has one head and one end (server.js 364-379, 445-591).
THEOREM ResponseEndsOnce == Spec => []OneResponse
  <1>1. ResponseInv => OneResponse
    BY DEF ResponseInv
  <1>2. QED
    BY ResponseInit, ResponseStep, <1>1, PTL DEF Spec

-----------------------------------------------------------------------------

\* What a hook does leaves a refusal standing.
LEMMA ActKeeps ==
  ASSUME ContextShape, NEW h \in Hook, Act(h)
  PROVE  ContextShape' /\ (ctx.aborted => ctx'.aborted)
         /\ (setup.does[h] = "abort" => ctx'.aborted)
  <1>1. CASE setup.does[h] = "inject" /\ Inject(h)
    BY <1>1 DEF Inject, ContextShape
  <1>2. CASE \/ setup.does[h] = "edit" /\ Mutate(h, ctx.messages)
             \/ setup.does[h] = "edit out" /\ Mutate(h, ctx.out)
    BY <1>2 DEF Mutate, ContextShape
  <1>3. CASE setup.does[h] = "messages" /\ ReplaceMessages(h)
    BY <1>3 DEF ReplaceMessages, ContextShape
  <1>4. CASE setup.does[h] = "outbound" /\ ReplaceOutbound(h)
    BY <1>4 DEF ReplaceOutbound, ContextShape
  <1>5. CASE setup.does[h] = "buffer" /\ SwapBuffer(h)
    BY <1>5 DEF SwapBuffer, ContextShape
  <1>6. CASE setup.does[h] = "abort" /\ Abort
    BY <1>6 DEF Abort, ContextShape
  <1>7. QED
    BY <1>1, <1>2, <1>3, <1>4, <1>5, <1>6 DEF Act

\* Whoever reads the end of a phase as its success has not been refused.
LEMMA NotRefused ==
  ASSUME RefusalInv
  PROVE  /\ at \in Waiting \cup {"fetch", "stream"} => ~ refused
         /\ (\E p \in Phases : Continues(p)) => ~ refused
         /\ (\E h \in Hook : Calling(h)) => ~ refused
  <1>1. CASE at \in Waiting \cup {"fetch", "stream"}
    BY <1>1 DEF RefusalInv, Standing, Phases, Waiting
  <1>2. CASE \E p \in Phases : Continues(p)
    <2>1. PICK p \in Phases : Continues(p)
      BY <1>2
    <2>2. at = p /\ (~ ctx.aborted \/ HooksAt(p) = <<>>) /\ at # "over"
      BY <2>1 DEF Continues, Ended, Aborted, Phases
    <2>3. QED
      BY <2>2 DEF RefusalInv, Standing
  <1>3. CASE \E h \in Hook : Calling(h)
    <2>1. at \in Phases /\ ~ ctx.aborted /\ at # "over"
      BY <1>3 DEF Calling, Phases
    <2>2. QED
      BY <2>1 DEF RefusalInv, Standing
  <1>4. QED
    BY <1>1, <1>2, <1>3

LEMMA RefusalStep == RefusalInv /\ [Next]_vars => RefusalInv'
  <1> SUFFICES ASSUME RefusalInv, [Next]_vars PROVE RefusalInv'
    OBVIOUS
  <1> USE DEF request, outbound, answer, hooking, lists
  <1>0. ResponseInv'
    BY ResponseStep DEF RefusalInv
  <1>1. CASE \E p \in Phases : HookRefuses(p)
    <2>1. PICK p \in Phases : HookRefuses(p)
      BY <1>1
    <2>2. /\ at \in Unsent /\ at' = "over" /\ response' = response \o <<"4xx", "end">>
          /\ UNCHANGED <<sent, ctx>>
      BY <2>1 DEF HookRefuses, Ended, Over, Unsent
    <2>3. response = <<>> /\ ~ sent
      BY <2>2 DEF RefusalInv, ResponseInv, StationInv
    <2>4. response' = <<"4xx", "end">>
      BY <2>2, <2>3
    <2>5. QED
      BY <1>0, <2>2, <2>3, <2>4 DEF RefusalInv, ContextShape, Standing
  <1>2. CASE \/ ReceivedEnds \/ BeforeEnds \/ DebugReply \/ DebugFails \/ AfterEnds \/ Send
             \/ Counted \/ Elide \/ RewriteReturns \/ RewriteFails
             \/ FetchAborted \/ StreamAborted \/ Headers \/ Chunk \/ StreamEnds \/ FetchFails \/ StreamBreaks
    <2>1. refused' = refused
      BY <1>2 DEF ReceivedEnds, BeforeEnds, DebugReply, DebugFails, AfterEnds, Send, Counted, Elide,
                  RewriteReturns, RewriteFails, FetchAborted, StreamAborted, Headers, Chunk, StreamEnds,
                  FetchFails, StreamBreaks
    <2>2. ASSUME ReceivedEnds \/ BeforeEnds \/ DebugReply \/ DebugFails \/ AfterEnds \/ Send
          PROVE  ~ refused
      <3>1. \E p \in Phases : Continues(p)
        BY <2>2 DEF ReceivedEnds, BeforeEnds, DebugReply, DebugFails, AfterEnds, Send, Phases
      <3>2. QED
        BY <3>1, NotRefused
    <2>3. ASSUME \/ Counted \/ Elide \/ RewriteReturns \/ RewriteFails \/ FetchAborted \/ StreamAborted
                 \/ Headers \/ Chunk \/ StreamEnds \/ FetchFails \/ StreamBreaks
          PROVE  ~ refused
      <3>1. at \in Waiting \cup {"fetch", "stream"}
        BY <2>3 DEF Counted, Elide, RewriteReturns, RewriteFails, FetchAborted, StreamAborted, Headers,
                    Chunk, StreamEnds, FetchFails, StreamBreaks, Waiting
      <3>2. QED
        BY <3>1, NotRefused
    <2>4. ~ refused'
      BY <1>2, <2>1, <2>2, <2>3
    <2>5. \/ ctx' = ctx
          \/ \E x : ctx' = [ctx EXCEPT !.messages = x] \/ ctx' = [ctx EXCEPT !.out = x]
                                                     \/ ctx' = [ctx EXCEPT !.buf = x]
      <3>1. CASE Counted
        BY <3>1 DEF Counted, LiveMessages
      <3>2. CASE BeforeEnds
        BY <3>2 DEF BeforeEnds, OutboundMessages
      <3>3. CASE RewriteReturns
        BY <3>3 DEF RewriteReturns, OutboundMessages
      <3>4. CASE RewriteFails
        BY <3>4 DEF RewriteFails, OutboundMessages
      <3>5. CASE AfterEnds
        BY <3>5 DEF AfterEnds
      <3>6. CASE \/ ReceivedEnds \/ DebugReply \/ DebugFails \/ Send \/ Elide \/ FetchAborted
                 \/ StreamAborted \/ Headers \/ Chunk \/ StreamEnds \/ FetchFails \/ StreamBreaks
        BY <3>6 DEF ReceivedEnds, DebugReply, DebugFails, Send, Elide, FetchAborted, StreamAborted,
                    Headers, Chunk, StreamEnds, FetchFails, StreamBreaks
      <3>7. QED
        BY <1>2, <3>1, <3>2, <3>3, <3>4, <3>5, <3>6
    <2>6. ContextShape'
      BY <2>5 DEF RefusalInv, ContextShape
    <2>7. QED
      BY <1>0, <2>4, <2>6 DEF RefusalInv, Standing
  <1>3. CASE TimerFires \/ UNCHANGED vars
    <2>1. UNCHANGED <<at, setup, response, sent, ctx, refused>>
      BY <1>3 DEF TimerFires, vars
    <2>2. QED
      BY <1>0, <2>1 DEF RefusalInv, ContextShape, Standing, HooksAt
  <1>4. CASE \E h \in Hook : HookStep(h) \/ LateHookActs(h)
    <2>1. PICK h \in Hook : HookStep(h) \/ LateHookActs(h)
      BY <1>4
    <2>2. CASE HookActs(h)
      <3>1. /\ Calling(h) /\ Act(h) /\ UNCHANGED <<at, setup, sent>>
            /\ refused' = (refused \/ setup.does[h] = "abort")
        BY <2>2 DEF HookActs
      <3>2. ~ refused
        BY <3>1, NotRefused
      <3>3. ContextShape' /\ (setup.does[h] = "abort" => ctx'.aborted)
        BY <3>1, ActKeeps DEF RefusalInv
      <3>4. at \in Phases /\ HooksAt(at) # <<>>
        BY <3>1 DEF Calling
      <3>5. ~ sent
        BY <3>4 DEF RefusalInv, ResponseInv, StationInv, Unsent
      <3>6. QED
        BY <1>0, <3>1, <3>2, <3>3, <3>4, <3>5 DEF RefusalInv, Standing, HooksAt
    <2>3. CASE HookPasses(h) \/ HookTimesOut(h)
      <3>1. UNCHANGED <<at, setup, response, sent, ctx, refused>>
        BY <2>3 DEF HookPasses, HookTimesOut
      <3>2. QED
        BY <1>0, <3>1 DEF RefusalInv, ContextShape, Standing, HooksAt
    <2>4. CASE PredicateThrows(h)
      <3>1. Calling(h) /\ UNCHANGED <<ctx, refused>>
        BY <2>4 DEF PredicateThrows
      <3>2. ~ refused
        BY <3>1, NotRefused
      <3>3. QED
        BY <1>0, <3>1, <3>2 DEF RefusalInv, ContextShape, Standing
    <2>5. CASE LateHookActs(h)
      <3>1. Act(h) /\ UNCHANGED <<at, setup, response, sent, refused>>
        BY <2>5 DEF LateHookActs
      <3>2. ContextShape' /\ (ctx.aborted => ctx'.aborted)
        BY <3>1, ActKeeps DEF RefusalInv
      <3>3. QED
        BY <1>0, <3>1, <3>2 DEF RefusalInv, Standing, HooksAt
    <2>6. QED
      BY <2>1, <2>2, <2>3, <2>4, <2>5 DEF HookStep
  <1>5. QED
    BY <1>1, <1>2, <1>3, <1>4 DEF Next, HandlerStep, TimedOut, UpstreamStep

LEMMA RefusalInit == Init => RefusalInv
  BY ResponseInit DEF Init, RefusalInv, ContextShape, Standing

\* A refusal of any hook in any phase is the answer, and nothing is sent, among
\* any other hooks, in time or late (server.js 204-218).
THEOREM RefusedStaysUnsent == Spec => []RefusedNotSent
  <1>1. RefusalInv => RefusedNotSent
    BY DEF RefusalInv, Standing, RefusedNotSent, Phases
  <1>2. QED
    BY RefusalInit, RefusalStep, <1>1, PTL DEF Spec

-----------------------------------------------------------------------------

(***************************************************************************)
(* What hooks put into the messages has to be followed from list to list.  *)
(***************************************************************************)

Lists      == Hook \cup {"client", "answered", "rewritten"}
Names      == Lists \cup {NoList}
Rewritable == setup.json /\ ~ setup.off

\* The lists and their names, whatever late hooks do.
ListsTyped ==
  /\ ContextShape
  /\ list \in [Lists -> SUBSET (Hook \cup {"answer"})]
  /\ parsed \in Names /\ ctx.messages \in Names /\ ctx.out \in Names
  /\ setup.json => parsed # NoList /\ ctx.messages # NoList
  /\ ~ Rewritable => ~ answered /\ ~ rewritten
  /\ at = "rewriting" => rewriting \in Lists
  /\ at \in {"rewriting", "recounting"} => Rewritable
  /\ at \in {"received", "counting"} => ~ answered
  /\ at \in {"received", "counting", "before", "rewriting", "recounting"} => ~ rewritten

\* The body about to be sent: hooks of the last phase work on the context's.
Body == IF HooksAt("sending") = <<>> THEN wire ELSE ctx.buf
HasAnswer(s) == answered => "answer" \in s

\* Where the replies and the edits are at each station.
CarriedInv ==
  /\ at = "received" => ctx.messages = parsed /\ ctx.out = NoList /\ edits \subseteq list[parsed]
  /\ at = "counting" => ctx.out = NoList /\ edits \subseteq list[parsed]
  /\ at = "before" => /\ ctx.out = NoList /\ edits \subseteq list[parsed] /\ HasAnswer(list[parsed])
                      /\ HooksAt("before") # <<>> => ctx.messages = parsed
  /\ at = "rewriting" => rewriting = parsed /\ edits \subseteq list[parsed] /\ HasAnswer(list[parsed])
  /\ at = "recounting" => /\ edits \subseteq list["rewritten"]
                          /\ HasAnswer(list["rewritten"]) /\ HasAnswer(list[parsed])
  /\ at = "after" => /\ HasAnswer(list[parsed])
                     /\ rewritten => /\ edits \subseteq list["rewritten"] /\ HasAnswer(list["rewritten"])
                                     /\ HooksAt("after") # <<>> => ctx.out = "rewritten"
  /\ at = "sending" => HasAnswer(Body) /\ (setup.mode = "enforce" /\ rewritten => edits \subseteq Body)
  /\ sent => HasAnswer(wire) /\ (setup.mode = "enforce" /\ rewritten => edits \subseteq wire)

Carried == strayed = {} /\ Wholesome /\ Rewritable => CarriedInv
EditsInv == ResponseInv /\ ListsTyped /\ Carried

\* A mutation adds the hook's mark to the list it names, and to others perhaps.
LEMMA MutateAdds ==
  ASSUME ListsTyped, NEW h \in Hook, NEW of \in Names, Mutate(h, of)
  PROVE  /\ list' \in [Lists -> SUBSET (Hook \cup {"answer"})]
         /\ \A l \in Lists : list[l] \subseteq list'[l]
         /\ of # NoList => list'[of] = list[of] \cup {h}
         /\ of = NoList => list' = list
         /\ UNCHANGED <<parsed, ctx>>
  <1>1. PICK also \in SUBSET InUse :
          list' = IF of = NoList THEN list
                  ELSE [l \in DOMAIN list |-> IF l \in {of} \cup also THEN list[l] \cup {h} ELSE list[l]]
    BY DEF Mutate
  <1>2. list \in [Lists -> SUBSET (Hook \cup {"answer"})] /\ (of # NoList => of \in Lists)
    BY DEF ListsTyped, Names
  <1>3. UNCHANGED <<parsed, ctx>>
    BY DEF Mutate
  <1>4. QED
    BY <1>1, <1>2, <1>3

\* What a hook does to the lists keeps them lists, and takes nothing out.
LEMMA ActTyped ==
  ASSUME ListsTyped, NEW h \in Hook, Act(h), UNCHANGED <<setup, at, answered, rewritten, rewriting>>
  PROVE  ListsTyped'
  <1>1. ContextShape'
    BY ActKeeps DEF ListsTyped
  <1>2. /\ list \in [Lists -> SUBSET (Hook \cup {"answer"})] /\ h \in Lists
        /\ parsed \in Names /\ ctx.messages \in Names /\ ctx.out \in Names
        /\ ContextShape
    BY DEF ListsTyped, Lists
  <1>3. /\ list' \in [Lists -> SUBSET (Hook \cup {"answer"})]
        /\ parsed' \in Names /\ ctx'.messages \in Names /\ ctx'.out \in Names
        /\ (parsed # NoList => parsed' # NoList) /\ (ctx.messages # NoList => ctx'.messages # NoList)
    <2>0. h # NoList
      BY ListAssumption
    <2>1. CASE setup.does[h] = "inject" /\ Inject(h)
      BY <1>2, <2>1 DEF Inject, Names
    <2>2. CASE \/ setup.does[h] = "edit" /\ Mutate(h, ctx.messages)
               \/ setup.does[h] = "edit out" /\ Mutate(h, ctx.out)
      BY <1>2, <2>2, MutateAdds
    <2>3. CASE setup.does[h] = "messages" /\ ReplaceMessages(h)
      BY <1>2, <2>0, <2>3 DEF ReplaceMessages, Names, ContextShape
    <2>4. CASE setup.does[h] = "outbound" /\ ReplaceOutbound(h)
      BY <1>2, <2>0, <2>4 DEF ReplaceOutbound, Names, ContextShape
    <2>5. CASE setup.does[h] = "buffer" /\ SwapBuffer(h)
      BY <1>2, <2>5 DEF SwapBuffer, ContextShape
    <2>6. CASE setup.does[h] = "abort" /\ Abort
      BY <1>2, <2>6 DEF Abort, ContextShape
    <2>7. QED
      BY <2>1, <2>2, <2>3, <2>4, <2>5, <2>6 DEF Act
  <1>4. QED
    BY <1>1, <1>3 DEF ListsTyped, Rewritable

\* A hook called in time changes the list that is carried on.
LEMMA HookCarries ==
  ASSUME EditsInv, NEW h \in Hook, HookActs(h), strayed = {}, Wholesome, Rewritable
  PROVE  CarriedInv'
  <1> USE DEF request, outbound, answer, hooking, lists
  <1>1. /\ at \in Phases /\ HooksAt(at) # <<>> /\ Act(h) /\ ~ sent
        /\ UNCHANGED <<setup, at, answered, rewritten, wire, sent>>
        /\ edits' = (IF Heeded(h) THEN edits \cup {h} ELSE edits)
    BY DEF HookActs, Calling, EditsInv, ResponseInv, StationInv, Unsent
  <1>2. /\ setup.does[h] = "messages" => at \in {"received", "before"}
        /\ setup.does[h] # "outbound"
    <2>1. next \in DOMAIN HooksAt(at) /\ h = HooksAt(at)[next]
      BY DEF HookActs, Calling
    <2>2. HooksAt(at) = setup.hooks[at]
      BY <1>1 DEF HooksAt
    <2>3. QED
      BY <1>1, <2>1, <2>2 DEF Wholesome
  <1>3. CarriedInv
    BY DEF EditsInv, Carried
  <1>4. /\ list \in [Lists -> SUBSET (Hook \cup {"answer"})] /\ ContextShape /\ h \in Lists
        /\ parsed \in Lists /\ ctx.messages \in Lists /\ ctx.out \in Names /\ NoList \notin Lists
        /\ "rewritten" \in Lists
    BY ListAssumption DEF EditsInv, ListsTyped, Lists, Names, Rewritable
  <1>5. Heeded(h) => \/ setup.does[h] = "inject" /\ at \in {"received", "before", "after"}
                     \/ setup.does[h] \in {"edit", "messages"} /\ at \in {"received", "before"}
                     \/ setup.does[h] = "edit out" /\ at = "after"
                     \/ setup.does[h] = "buffer" /\ at = "sending"
    BY DEF Heeded
  <1>6. CASE setup.does[h] = "inject" /\ Inject(h)
    <2>1. \A l \in Lists : list[l] \subseteq list'[l]
      BY <1>4, <1>6 DEF Inject
    <2>2. UNCHANGED <<parsed, ctx>>
      BY <1>6 DEF Inject
    <2>3. CASE at \in {"received", "before"}
      <3>1. list' = [list EXCEPT ![parsed] = @ \cup {h}]
        BY <1>1, <1>3, <1>4, <1>6, <2>3 DEF Inject, CarriedInv
      <3>2. list'[parsed] = list[parsed] \cup {h}
        BY <3>1, <1>4
      <3>3. QED
        BY <1>1, <1>3, <2>2, <2>3, <3>2 DEF CarriedInv, HasAnswer, HooksAt
    <2>4. CASE at = "after"
      <3>1. rewritten => list' = [list EXCEPT !["rewritten"] = @ \cup {h}]
        BY <1>1, <1>3, <1>4, <1>6, <2>4 DEF Inject, CarriedInv
      <3>2. rewritten => list'["rewritten"] = list["rewritten"] \cup {h}
        BY <3>1, <1>4
      <3>3. QED
        BY <1>1, <1>3, <1>4, <2>1, <2>2, <2>4, <3>2 DEF CarriedInv, HasAnswer, HooksAt
    <2>5. CASE at = "sending"
      <3>1. edits' = edits
        BY <1>1, <1>5, <1>6, <2>5
      <3>2. QED
        BY <1>1, <1>3, <2>2, <2>5, <3>1 DEF CarriedInv, HasAnswer, HooksAt, Body
    <2>6. QED
      BY <1>1, <2>3, <2>4, <2>5 DEF Phases
  <1>7. CASE \/ setup.does[h] = "edit" /\ Mutate(h, ctx.messages)
             \/ setup.does[h] = "edit out" /\ Mutate(h, ctx.out)
    <2>1. /\ \A l \in Lists : list[l] \subseteq list'[l]
          /\ UNCHANGED <<parsed, ctx>>
          /\ setup.does[h] = "edit" => list'[ctx.messages] = list[ctx.messages] \cup {h}
          /\ setup.does[h] = "edit out" /\ ctx.out # NoList => list'[ctx.out] = list[ctx.out] \cup {h}
          /\ setup.does[h] = "edit out" /\ ctx.out = NoList => list' = list
      <3>1. ctx.messages \in Names /\ ctx.out \in Names /\ ctx.messages # NoList
        BY <1>4 DEF Names, Lists
      <3>2. ListsTyped
        BY DEF EditsInv
      <3>3. CASE setup.does[h] = "edit" /\ Mutate(h, ctx.messages)
        BY <3>1, <3>2, <3>3, MutateAdds
      <3>4. CASE setup.does[h] = "edit out" /\ Mutate(h, ctx.out)
        BY <3>1, <3>2, <3>4, MutateAdds
      <3>5. QED
        BY <1>7, <3>3, <3>4
    <2>2. CASE at \in {"received", "before"}
      <3>1. ctx.messages = parsed /\ ctx.out = NoList /\ edits \subseteq list[parsed]
            /\ (at = "before" => HasAnswer(list[parsed]))
        BY <1>1, <1>3, <2>2 DEF CarriedInv
      <3>2. edits' \subseteq list'[parsed]
        <4>1. CASE setup.does[h] = "edit"
          BY <1>1, <2>1, <3>1, <4>1
        <4>2. CASE setup.does[h] = "edit out"
          BY <1>1, <1>5, <2>1, <2>2, <3>1, <4>2
        <4>3. QED
          BY <1>7, <4>1, <4>2
      <3>3. list[parsed] \subseteq list'[parsed]
        BY <1>4, <2>1
      <3>4. QED
        BY <1>1, <2>1, <2>2, <3>1, <3>2, <3>3 DEF CarriedInv, HasAnswer, HooksAt
    <2>3. CASE at = "after"
      <3>1. rewritten => edits' \subseteq list'["rewritten"]
        <4>1. rewritten => ctx.out = "rewritten" /\ edits \subseteq list["rewritten"]
          BY <1>1, <1>3, <2>3 DEF CarriedInv
        <4>2. CASE setup.does[h] = "edit"
          BY <1>1, <1>4, <1>5, <2>1, <2>3, <4>1, <4>2
        <4>3. CASE setup.does[h] = "edit out"
          BY <1>1, <1>4, <2>1, <4>1, <4>3
        <4>4. QED
          BY <1>7, <4>2, <4>3
      <3>2. list[parsed] \subseteq list'[parsed] /\ list["rewritten"] \subseteq list'["rewritten"]
        BY <1>4, <2>1
      <3>3. QED
        BY <1>1, <1>3, <1>4, <2>1, <2>3, <3>1, <3>2 DEF CarriedInv, HasAnswer, HooksAt
    <2>4. CASE at = "sending"
      <3>1. edits' = edits
        BY <1>1, <1>5, <1>7, <2>4
      <3>2. QED
        BY <1>1, <1>3, <2>1, <2>4, <3>1 DEF CarriedInv, HasAnswer, HooksAt, Body
    <2>5. QED
      BY <1>1, <2>2, <2>3, <2>4 DEF Phases
  <1>8. CASE setup.does[h] = "messages" /\ ReplaceMessages(h)
    <2>1. at \in {"received", "before"} /\ ctx.messages = parsed
      BY <1>1, <1>2, <1>3, <1>8 DEF CarriedInv
    <2>2. list' = [list EXCEPT ![h] = list[parsed] \cup {h}] /\ parsed' = h
          /\ ctx' = [ctx EXCEPT !.messages = h]
      BY <1>8, <2>1 DEF ReplaceMessages
    <2>3. list'[parsed'] = list[parsed] \cup {h}
      BY <1>4, <2>2
    <2>4. ctx'.messages = parsed' /\ ctx'.out = ctx.out
      BY <1>4, <2>2 DEF ContextShape
    <2>5. edits \subseteq list[parsed] /\ (at = "before" => HasAnswer(list[parsed])) /\ ctx.out = NoList
      BY <1>3, <2>1 DEF CarriedInv
    <2>6. edits' \subseteq list'[parsed'] /\ (at = "before" /\ answered' => "answer" \in list'[parsed'])
      BY <1>1, <2>3, <2>5 DEF HasAnswer
    <2>7. at' = at /\ ~ sent' /\ ctx'.messages = parsed' /\ ctx'.out = NoList
      BY <1>1, <2>4, <2>5
    <2>8. CASE at' = "received"
      BY <2>6, <2>7, <2>8 DEF CarriedInv
    <2>9. CASE at' = "before"
      <3>1. HasAnswer(list[parsed])'
        BY <2>6, <2>7, <2>9 DEF HasAnswer
      <3>2. edits' \subseteq (list[parsed])' /\ (ctx.messages = parsed)' /\ (ctx.out = NoList)'
        BY <2>6, <2>7
      <3>3. QED
        BY <2>7, <2>9, <3>1, <3>2 DEF CarriedInv
    <2>10. QED
      BY <2>1, <2>7, <2>8, <2>9
  <1>9. CASE setup.does[h] = "buffer" /\ SwapBuffer(h)
    <2>1. /\ UNCHANGED <<list, parsed>> /\ ctx'.messages = ctx.messages /\ ctx'.out = ctx.out
          /\ ctx'.buf = ctx.buf \cup {h}
      BY <1>4, <1>9 DEF SwapBuffer, ContextShape
    <2>2. CASE at = "sending"
      BY <1>1, <1>3, <2>1, <2>2 DEF CarriedInv, HasAnswer, HooksAt, Body
    <2>3. CASE at # "sending"
      <3>1. edits' = edits
        BY <1>1, <1>5, <1>9, <2>3
      <3>2. QED
        BY <1>1, <1>3, <2>1, <2>3, <3>1 DEF CarriedInv, HasAnswer, HooksAt, Phases
    <2>4. QED
      BY <2>2, <2>3
  <1>10. CASE setup.does[h] = "abort" /\ Abort
    <2>1. /\ UNCHANGED <<list, parsed>> /\ ctx'.messages = ctx.messages /\ ctx'.out = ctx.out
          /\ ctx'.buf = ctx.buf
      BY <1>4, <1>10 DEF Abort, ContextShape
    <2>2. edits' = edits
      BY <1>1, <1>5, <1>10
    <2>3. CASE at = "sending"
      BY <1>1, <1>3, <2>1, <2>2, <2>3 DEF CarriedInv, HasAnswer, HooksAt, Body
    <2>4. CASE at \in {"received", "before", "after"}
      BY <1>1, <1>3, <2>1, <2>2, <2>4 DEF CarriedInv, HasAnswer, HooksAt
    <2>5. QED
      BY <1>1, <2>3, <2>4 DEF Phases
  <1>11. QED
    BY <1>1, <1>2, <1>6, <1>7, <1>8, <1>9, <1>10 DEF Act

LEMMA EditsStep == EditsInv /\ [Next]_vars => EditsInv'
  <1> SUFFICES ASSUME EditsInv, [Next]_vars PROVE EditsInv'
    OBVIOUS
  <1> USE DEF request, outbound, answer, hooking, lists
  <1>0. ResponseInv'
    BY ResponseStep DEF EditsInv
  <1>a. /\ ListsTyped /\ ContextShape /\ list \in [Lists -> SUBSET (Hook \cup {"answer"})]
        /\ parsed \in Names /\ ctx.messages \in Names /\ ctx.out \in Names
        /\ "answered" \in Lists /\ "rewritten" \in Lists /\ NoList \notin Lists
        /\ (Rewritable => parsed \in Lists /\ ctx.messages \in Lists)
    BY ListAssumption DEF EditsInv, ListsTyped, Lists, Names, Rewritable
  <1>b. at \in Unsent => ~ sent
    BY DEF EditsInv, ResponseInv, StationInv
  <1>1. CASE \E h \in Hook : HookStep(h) \/ LateHookActs(h)
    <2>1. PICK h \in Hook : HookStep(h) \/ LateHookActs(h)
      BY <1>1
    <2>2. CASE HookActs(h)
      <3>1. Act(h) /\ UNCHANGED <<setup, at, answered, rewritten, rewriting, strayed>>
        BY <2>2 DEF HookActs
      <3>2. ListsTyped'
        BY <3>1, <1>a, ActTyped
      <3>3. Carried'
        <4>1. Wholesome' <=> Wholesome
          BY <3>1 DEF Wholesome
        <4>2. Rewritable' <=> Rewritable
          BY <3>1 DEF Rewritable
        <4>3. QED
          BY <2>2, <3>1, <4>1, <4>2, HookCarries DEF Carried
      <3>4. QED
        BY <1>0, <3>2, <3>3 DEF EditsInv
    <2>3. CASE HookPasses(h) \/ HookTimesOut(h)
      <3>1. UNCHANGED <<setup, answered, rewriting, rewritten, at, list, parsed, ctx, wire, sent, edits, strayed>>
        BY <2>3 DEF HookPasses, HookTimesOut
      <3>2. QED
        BY <1>0, <3>1
        DEF EditsInv, ListsTyped, ContextShape, Rewritable, Carried, CarriedInv, HasAnswer, Body, HooksAt, Wholesome
    <2>4. CASE PredicateThrows(h)
      <3>1. /\ UNCHANGED <<setup, answered, rewriting, rewritten, list, parsed, ctx, wire, sent, edits, strayed>>
            /\ at' = "over" /\ ~ sent
        BY <2>4, <1>b DEF PredicateThrows, Over, Calling, Unsent
      <3>2. QED
        BY <1>0, <3>1
        DEF EditsInv, ListsTyped, ContextShape, Rewritable, Carried, CarriedInv
    <2>5. CASE LateHookActs(h)
      <3>1. Act(h) /\ UNCHANGED <<setup, at, answered, rewritten, rewriting>> /\ strayed' # {}
        BY <2>5 DEF LateHookActs
      <3>2. ListsTyped'
        BY <3>1, <1>a, ActTyped
      <3>3. QED
        BY <1>0, <3>1, <3>2 DEF EditsInv, Carried
    <2>6. QED
      BY <2>1, <2>2, <2>3, <2>4, <2>5 DEF HookStep
  <1>2. CASE \/ FetchAborted \/ StreamAborted \/ Headers \/ Chunk \/ StreamEnds \/ FetchFails
             \/ StreamBreaks \/ TimerFires \/ UNCHANGED vars
    <2>1. /\ UNCHANGED <<setup, answered, rewriting, rewritten, list, parsed, ctx, wire, sent, edits, strayed>>
          /\ at' = at \/ at' \in {"stream", "over"}
      BY <1>2 DEF FetchAborted, StreamAborted, Headers, Chunk, StreamEnds, FetchFails, StreamBreaks,
                  TimerFires, vars, Over
    <2>2. QED
      BY <1>0, <2>1
      DEF EditsInv, ListsTyped, ContextShape, Rewritable, Carried, CarriedInv, HasAnswer, Body, HooksAt, Wholesome
  <1>3. CASE (\E p \in Phases : HookRefuses(p)) \/ DebugReply \/ DebugFails
    <2>1. /\ UNCHANGED <<setup, answered, rewriting, rewritten, list, parsed, ctx, wire, sent, edits, strayed>>
          /\ at' = "over" /\ at \in Unsent
      BY <1>3 DEF HookRefuses, DebugReply, DebugFails, Continues, Ended, Over, Unsent, Phases
    <2>2. QED
      BY <1>0, <1>b, <2>1
      DEF EditsInv, ListsTyped, ContextShape, Rewritable, Carried, CarriedInv
  <1>4. ASSUME UNCHANGED <<setup, strayed, edits>>, ListsTyped', CarriedInv /\ Rewritable => CarriedInv'
        PROVE  EditsInv'
    BY <1>0, <1>4 DEF EditsInv, Carried, Wholesome, Rewritable
  <1>5. CASE ReceivedEnds
    <2>1. /\ at = "received" /\ at' = "counting"
          /\ UNCHANGED <<setup, answered, rewriting, rewritten, list, parsed, ctx, wire, sent, edits, strayed>>
      BY <1>5 DEF ReceivedEnds, Continues, Ended
    <2>2. ListsTyped'
      BY <1>a, <2>1 DEF ListsTyped, ContextShape, Rewritable
    <2>3. CarriedInv => CarriedInv'
      BY <2>1 DEF CarriedInv, HasAnswer
    <2>4. QED
      BY <1>4, <2>1, <2>2, <2>3
  <1>6. CASE Counted
    <2>1. /\ at = "counting" /\ at' = "before" /\ ~ sent /\ ~ rewritten
          /\ UNCHANGED <<setup, rewriting, rewritten, wire, sent, edits, strayed>>
          /\ answered' \in (IF Rewritable THEN BOOLEAN ELSE {FALSE})
          /\ ctx' = LiveMessages(parsed')
      BY <1>6, <1>b DEF Counted, Unsent, Waiting, EditsInv, ListsTyped, Rewritable
    <2>2. /\ list' \in [Lists -> SUBSET (Hook \cup {"answer"})] /\ parsed' \in Names
          /\ (setup.json => parsed' # NoList) /\ (answered' => list'[parsed'] = list[parsed] \cup {"answer"})
          /\ (~ answered' => list' = list /\ parsed' = parsed)
      <3>1. CASE answered'
        <4>1. Rewritable /\ list' = [list EXCEPT !["answered"] = list[parsed] \cup {"answer"}] /\ parsed' = "answered"
          BY <1>6, <2>1, <3>1 DEF Counted
        <4>2. QED
          BY <1>a, <4>1, <3>1 DEF Names
      <3>2. CASE ~ answered'
        BY <1>6, <1>a, <3>2 DEF Counted, ListsTyped
      <3>3. QED
        BY <3>1, <3>2
    <2>3. /\ ctx' = [messages |-> ctx'.messages, out |-> ctx'.out, buf |-> ctx'.buf, aborted |-> ctx'.aborted]
          /\ ctx'.out = ctx.out /\ ctx'.messages \in {ctx.messages, parsed'}
          /\ (HooksAt("before") # <<>> => ctx'.messages = parsed')
      <3>1. CASE HooksAt("before") = <<>>
        BY <1>a, <2>1, <3>1 DEF LiveMessages, ContextShape
      <3>2. CASE HooksAt("before") # <<>>
        BY <1>a, <2>1, <3>2 DEF LiveMessages, ContextShape
      <3>3. QED
        BY <3>1, <3>2
    <2>4. ListsTyped'
      <3>1. ~ Rewritable => ~ answered'
        BY <2>1
      <3>2. QED
        BY <1>a, <2>1, <2>2, <2>3, <3>1 DEF ListsTyped, ContextShape, Rewritable
    <2>5. CarriedInv => CarriedInv'
      <3>1. ASSUME CarriedInv
            PROVE  edits' \subseteq list'[parsed'] /\ (answered' => "answer" \in list'[parsed']) /\ ctx'.out = NoList
        BY <2>1, <2>2, <2>3, <3>1 DEF CarriedInv
      <3>2. HooksAt("before")' = HooksAt("before")
        BY <2>1 DEF HooksAt
      <3>3. QED
        BY <2>1, <2>3, <3>1, <3>2 DEF CarriedInv, HasAnswer
    <2>6. QED
      BY <1>4, <2>1, <2>4, <2>5
  <1>7. CASE BeforeEnds
    <2>1. /\ at = "before" /\ ~ sent /\ ~ rewritten
          /\ UNCHANGED <<setup, answered, rewritten, list, wire, sent, edits, strayed>>
          /\ parsed' = (IF HooksAt("before") = <<>> THEN parsed ELSE ctx.messages) /\ rewriting' = parsed'
          /\ IF Rewritable THEN at' = "rewriting" /\ ctx' = ctx
             ELSE at' = "after" /\ ctx' = OutboundMessages(parsed')
      BY <1>7, <1>b DEF BeforeEnds, Continues, Ended, Unsent, Phases, EditsInv, ListsTyped, Rewritable
    <2>2. parsed' \in Names /\ (setup.json => parsed' # NoList)
      BY <1>a, <2>1 DEF ListsTyped
    <2>3. /\ ctx' = [messages |-> ctx'.messages, out |-> ctx'.out, buf |-> ctx'.buf, aborted |-> ctx'.aborted]
          /\ ctx'.messages = ctx.messages /\ ctx'.out \in {ctx.out, parsed'}
      BY <1>a, <2>1 DEF OutboundMessages, ContextShape
    <2>4. ListsTyped'
      BY <1>a, <2>1, <2>2, <2>3 DEF ListsTyped, ContextShape, Rewritable
    <2>5. CarriedInv /\ Rewritable => CarriedInv'
      <3>1. ASSUME CarriedInv
            PROVE  parsed' = parsed /\ edits \subseteq list[parsed] /\ HasAnswer(list[parsed])
        BY <2>1, <3>1 DEF CarriedInv
      <3>2. QED
        BY <2>1, <3>1 DEF CarriedInv, HasAnswer
    <2>6. QED
      BY <1>4, <2>1, <2>4, <2>5
  <1>8. CASE Elide
    <2>1. /\ at = "rewriting" /\ at' = "recounting" /\ ~ sent /\ ~ rewritten
          /\ UNCHANGED <<setup, answered, rewriting, rewritten, parsed, ctx, wire, sent, edits, strayed>>
          /\ list' = [list EXCEPT !["rewritten"] = list[rewriting]]
          /\ rewriting \in Lists /\ parsed \in Names
      BY <1>8, <1>b DEF Elide, Unsent, Waiting, EditsInv, ListsTyped
    <2>2. /\ list' \in [Lists -> SUBSET (Hook \cup {"answer"})]
          /\ list'["rewritten"] = list[rewriting] /\ \A l \in Lists : l # "rewritten" => list'[l] = list[l]
      BY <1>a, <2>1
    <2>3. ListsTyped'
      BY <1>a, <2>1, <2>2 DEF ListsTyped, ContextShape, Rewritable
    <2>4. CarriedInv /\ Rewritable => CarriedInv'
      <3>1. ASSUME CarriedInv, Rewritable
            PROVE  /\ edits \subseteq list'["rewritten"] /\ HasAnswer(list'["rewritten"])
                   /\ HasAnswer(list'[parsed])
        <4>1. rewriting = parsed /\ parsed \in Lists /\ edits \subseteq list[parsed] /\ HasAnswer(list[parsed])
          BY <1>a, <2>1, <3>1 DEF CarriedInv
        <4>2. list'[parsed] = list[parsed]
          BY <2>2, <4>1
        <4>3. QED
          BY <2>2, <4>1, <4>2
      <3>2. QED
        BY <2>1, <3>1 DEF CarriedInv, HasAnswer
    <2>5. QED
      BY <1>4, <2>1, <2>3, <2>4
  <1>9. CASE RewriteReturns \/ RewriteFails
    <2>1. PICK l \in {"rewritten", parsed} :
            /\ ctx' = OutboundMessages(l)
            /\ IF l = "rewritten" THEN TRUE ELSE rewritten' = rewritten
            /\ rewritten' => at = "recounting" /\ l = "rewritten"
      BY <1>9 DEF RewriteReturns, RewriteFails, EditsInv, ListsTyped
    <2>2. /\ at \in {"rewriting", "recounting"} /\ at' = "after" /\ ~ sent /\ ~ rewritten
          /\ UNCHANGED <<setup, answered, rewriting, list, parsed, wire, sent, edits, strayed>>
      BY <1>9, <1>b DEF RewriteReturns, RewriteFails, Unsent, Waiting, EditsInv, ListsTyped
    <2>3. /\ ctx' = [messages |-> ctx'.messages, out |-> ctx'.out, buf |-> ctx'.buf, aborted |-> ctx'.aborted]
          /\ ctx'.messages = ctx.messages /\ ctx'.out \in {ctx.out, l}
          /\ (HooksAt("after") # <<>> => ctx'.out = l)
      <3>1. CASE HooksAt("after") = <<>>
        BY <1>a, <2>1, <3>1 DEF OutboundMessages, ContextShape
      <3>2. CASE HooksAt("after") # <<>>
        BY <1>a, <2>1, <3>2 DEF OutboundMessages, ContextShape
      <3>3. QED
        BY <3>1, <3>2
    <2>4. ~ Rewritable => ~ rewritten'
      BY <2>2 DEF EditsInv, ListsTyped
    <2>5. ListsTyped'
      BY <1>a, <2>1, <2>2, <2>3, <2>4 DEF ListsTyped, ContextShape, Rewritable, Names
    <2>6. CarriedInv => CarriedInv'
      <3>1. HooksAt("after")' = HooksAt("after")
        BY <2>2 DEF HooksAt
      <3>2. QED
        BY <2>1, <2>2, <2>3, <3>1 DEF CarriedInv, HasAnswer
    <2>7. QED
      BY <1>4, <2>2, <2>5, <2>6
  <1>10. CASE AfterEnds
    <2>1. /\ at = "after" /\ at' = "sending" /\ ~ sent /\ wire' = Outbound
          /\ UNCHANGED <<setup, answered, rewriting, rewritten, list, parsed, sent, edits, strayed>>
          /\ ctx' = (IF HooksAt("sending") = <<>> THEN ctx ELSE [ctx EXCEPT !.buf = wire'])
      BY <1>10, <1>b DEF AfterEnds, Continues, Ended, Unsent, Phases
    <2>2. /\ ctx' = [messages |-> ctx'.messages, out |-> ctx'.out, buf |-> ctx'.buf, aborted |-> ctx'.aborted]
          /\ ctx'.messages = ctx.messages /\ ctx'.out = ctx.out
          /\ (HooksAt("sending") # <<>> => ctx'.buf = wire')
      BY <1>a, <2>1 DEF ContextShape
    <2>3. ListsTyped'
      BY <1>a, <2>1, <2>2 DEF ListsTyped, ContextShape, Rewritable
    <2>4. CarriedInv /\ Rewritable => CarriedInv'
      <3>1. ASSUME CarriedInv, Rewritable
            PROVE  HasAnswer(Outbound) /\ (setup.mode = "enforce" /\ rewritten => edits \subseteq Outbound)
        <4>1. /\ HasAnswer(list[parsed])
              /\ rewritten => edits \subseteq list["rewritten"] /\ HasAnswer(list["rewritten"])
          BY <2>1, <3>1 DEF CarriedInv
        <4>2. CASE setup.mode = "enforce" /\ rewritten
          BY <3>1, <4>1, <4>2 DEF Outbound, Rewritable
        <4>3. CASE ~ (setup.mode = "enforce" /\ rewritten)
          BY <3>1, <4>1, <4>3 DEF Outbound, Rewritable, HasAnswer
        <4>4. QED
          BY <4>2, <4>3
      <3>2. Body' = wire'
        <4>1. HooksAt("sending")' = HooksAt("sending")
          BY <2>1 DEF HooksAt
        <4>2. QED
          BY <2>2, <4>1 DEF Body
      <3>3. QED
        BY <2>1, <3>1, <3>2 DEF CarriedInv, HasAnswer
    <2>5. QED
      BY <1>4, <2>1, <2>3, <2>4
  <1>11. CASE Send
    <2>1. /\ at = "sending" /\ at' = "fetch" /\ wire' = Body
          /\ UNCHANGED <<setup, answered, rewriting, rewritten, list, parsed, ctx, edits, strayed>>
      BY <1>11 DEF Send, Continues, Ended, Body
    <2>2. ListsTyped'
      BY <1>a, <2>1 DEF ListsTyped, ContextShape, Rewritable
    <2>3. CarriedInv => CarriedInv'
      BY <2>1 DEF CarriedInv, HasAnswer
    <2>4. QED
      BY <1>4, <2>1, <2>2, <2>3
  <1>12. QED
    BY <1>1, <1>2, <1>3, <1>5, <1>6, <1>7, <1>8, <1>9, <1>10, <1>11
    DEF Next, HandlerStep, TimedOut, UpstreamStep

LEMMA EditsInit == Init => EditsInv
  <1> SUFFICES ASSUME Init PROVE EditsInv
    OBVIOUS
  <1>1. /\ ctx = [messages |-> parsed, out |-> NoList, buf |-> {}, aborted |-> FALSE]
        /\ list = [l \in Lists |-> {}] /\ edits = {} /\ ~ answered /\ ~ rewritten
        /\ at \in {"received", "fetch"}
    BY DEF Init, Lists
  <1>2. (setup.json => parsed = "client") /\ (~ setup.json => parsed = NoList)
    BY DEF Init
  <1>3. ListsTyped
    <2>1. "client" # NoList
      BY ListAssumption
    <2>2. QED
      BY <1>1, <1>2, <2>1 DEF ListsTyped, ContextShape, Lists, Names
  <1>4. CarriedInv
    BY <1>1 DEF CarriedInv, HasAnswer
  <1>5. QED
    BY <1>3, <1>4, ResponseInit DEF EditsInv, Carried

\* Through all the lists that are made on the way, the replies to expand calls and
\* what hooks did in time reach the upstream (server.js 272-298, 339, 390-417).
THEOREM EditsAlwaysSent == Spec => []EditsAreSent
  <1>1. EditsInv => EditsAreSent
    BY DEF EditsInv, ListsTyped, Carried, CarriedInv, HasAnswer, EditsAreSent
  <1>2. QED
    BY EditsInit, EditsStep, <1>1, PTL DEF Spec
=============================================================================
