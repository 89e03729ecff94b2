---------------------------- MODULE ChatExchange ----------------------------
(***************************************************************************)
(* One request of a client to the compaction proxy, from its hooks to the  *)
(* end of its response (proxy/src/server.js handleChat and                 *)
(* handlePassthrough, hooks/engine.js).                                    *)
(*                                                                         *)
(* What the rewrite and the interception of expand calls do to messages is *)
(* CompactProxy's; here a message list or a body is the set of marks it    *)
(* carries: "answer" for the proxy's replies to expand calls, and the hook *)
(* for what a hook put there.  Lists are shared by reference, so they have *)
(* names: "client" is the list as parsed, "answered" the one with the      *)
(* replies, "rewritten" the rewrite's, and h the one hook h replaced it by.*)
(*                                                                         *)
(* A hook that times out is abandoned by the engine and runs on.           *)
(***************************************************************************)
EXTENDS Naturals, Sequences

CONSTANTS
  Hook,        \* the hooks
  NoList,      \* null
  Setups,      \* the requests and hook configurations considered
  MaxChunks    \* bound on the chunks of a response

\* The names of lists are distinct.
ASSUME ListAssumption ==
  /\ {"client", "answered", "rewritten"} \cap Hook = {}
  /\ NoList \notin Hook \cup {"client", "answered", "rewritten"}

VARIABLES
  setup,       \* the request: kind, stream, json, off, debug; mode; does[h] and hooks[phase]
  at, next,    \* where the handler is, and the next hook of the phase
  list,        \* list[l]: the marks of message list l
  parsed,      \* parsed.messages
  rewriting,   \* the list rewriteRequest works on
  answered,    \* phantomAnswered is not empty
  rewritten,   \* rewrite is not null
  ctx,         \* hookCtx: messages, outboundMessages, outboundBuf, _aborted
  wire, sent,  \* outboundBuf, and whether it was sent
  timer,       \* upstreamTimer
  response, records,   \* what the client and the log were written
  orphans,     \* hooks that timed out and run on
  edits, strayed, refused  \* auxiliary: hooks that acted in time, or late; an abort in time

request  == <<setup, answered, rewriting, rewritten>>
lists    == <<list, parsed, ctx>>
outbound == <<wire, sent>>
answer   == <<timer, response, records>>
hooking  == <<orphans, edits, strayed, refused>>
vars     == <<request, at, next, lists, outbound, answer, hooking>>

Phases  == {"received", "before", "after", "sending"}
\* request:before-rewrite is left out for x-compact: off and for no JSON.
HooksAt(p) == IF p = "before" /\ (setup.off \/ ~ setup.json) THEN <<>> ELSE setup.hooks[p]

\* The response ends; a timer that has not fired is cleared.
Over(r) ==
  /\ at' = "over" /\ response' = response \o r
  /\ timer' = IF timer = "armed" THEN "off" ELSE timer

-----------------------------------------------------------------------------
(* What a hook may do to its context                                        *)

Inject(h) ==
  LET to == IF ctx.out # NoList THEN ctx.out ELSE ctx.messages IN
  /\ list' = IF to = NoList THEN list ELSE [list EXCEPT ![to] = @ \cup {h}]
  /\ UNCHANGED <<parsed, ctx>>
\* The lists that are still read.
InUse ==
  CASE at \in {"received", "counting", "before"} -> {parsed, ctx.messages}
    [] at = "rewriting"                         -> {parsed, rewriting}
    [] at \in {"recounting", "after"}           -> {parsed, ctx.messages, ctx.out, "rewritten"}
    [] OTHER                                    -> {}
\* mutate("messages.N", m) replaces an entry of one list; mutate("messages.N.content", t)
\* changes an entry in place, and so in the lists that share it with this one: the
\* copies that the rewrite made ({...m}) they do not.
Mutate(h, of) ==
  /\ \E also \in SUBSET InUse :
       list' = IF of = NoList THEN list
               ELSE [l \in DOMAIN list |-> IF l \in {of} \cup also THEN list[l] \cup {h} ELSE list[l]]
  /\ UNCHANGED <<parsed, ctx>>
ReplaceMessages(h) ==
  /\ ctx.messages # NoList
  /\ list' = [list EXCEPT ![h] = list[ctx.messages] \cup {h}]
  /\ parsed' = h
  /\ ctx' = [ctx EXCEPT !.messages = h]
\* The context's field is replaced; the rewrite keeps its own list.
ReplaceOutbound(h) ==
  /\ list' = [list EXCEPT ![h] = IF ctx.out = NoList THEN {h} ELSE list[ctx.out] \cup {h}]
  /\ ctx' = [ctx EXCEPT !.out = h]
  /\ UNCHANGED parsed
SwapBuffer(h) == ctx' = [ctx EXCEPT !.buf = @ \cup {h}] /\ UNCHANGED <<list, parsed>>
Abort         == ctx' = [ctx EXCEPT !.aborted = TRUE] /\ UNCHANGED <<list, parsed>>

Act(h) ==
  \/ setup.does[h] = "inject" /\ Inject(h)
  \/ setup.does[h] = "edit" /\ Mutate(h, ctx.messages)
  \/ setup.does[h] = "edit out" /\ Mutate(h, ctx.out)
  \/ setup.does[h] = "messages" /\ ReplaceMessages(h)
  \/ setup.does[h] = "outbound" /\ ReplaceOutbound(h)
  \/ setup.does[h] = "buffer" /\ SwapBuffer(h)
  \/ setup.does[h] = "abort" /\ Abort

\* The phases in which the handler looks again at what the hook has changed.
Heeded(h) ==
  CASE setup.does[h] = "inject"   -> at \in {"received", "before", "after"}
    [] setup.does[h] \in {"edit", "messages"} -> at \in {"received", "before"}
    [] setup.does[h] = "edit out" -> at = "after"
    [] setup.does[h] = "buffer"   -> at = "sending"
    [] OTHER -> FALSE

-----------------------------------------------------------------------------
(* dispatch                                                                 *)

Calling(h) ==
  /\ at \in Phases /\ next \in DOMAIN HooksAt(at)
  /\ h = HooksAt(at)[next] /\ ~ ctx.aborted
  /\ next' = next + 1

\* A hook acts and returns, or throws afterwards.
HookActs(h) ==
  /\ Calling(h) /\ Act(h)
  /\ edits' = IF Heeded(h) THEN edits \cup {h} ELSE edits
  /\ refused' = (refused \/ setup.does[h] = "abort")
  /\ UNCHANGED <<request, at, outbound, answer, orphans, strayed>>
\* A filter or predicate says no, or the hook finds nothing to do, or fails.
HookPasses(h) ==
  /\ Calling(h)
  /\ UNCHANGED <<request, at, lists, outbound, answer, hooking>>
HookTimesOut(h) ==
  /\ Calling(h)
  /\ orphans' = orphans \cup {h}
  /\ UNCHANGED <<request, at, lists, outbound, answer, edits, strayed, refused>>
\* A predicate is called outside of the engine's try: the handler fails.
PredicateThrows(h) ==
  /\ Calling(h)
  /\ Over(<<"500", "end">>)
  /\ UNCHANGED <<request, lists, outbound, records, hooking>>
\* The abandoned hook does what it had begun to do; once the body is sent nobody
\* looks at the context again.
LateHookActs(h) ==
  /\ at # "over" /\ ~ sent /\ h \in orphans
  /\ Act(h)
  /\ orphans' = orphans \ {h} /\ strayed' = strayed \cup {h}
  /\ UNCHANGED <<request, at, next, outbound, answer, edits, refused>>

\* Mutant: only the first phase looks for an abort.
AbortedAtFirst(p) == ctx.aborted /\ p = "received" /\ HooksAt(p) # <<>>
Aborted(p)        == ctx.aborted /\ HooksAt(p) # <<>>
\* The loop over the phase's hooks is over.
Ended(p) == at = p /\ (next > Len(HooksAt(p)) \/ ctx.aborted)
\* maybeAbort
HookRefuses(p) ==
  /\ Ended(p) /\ Aborted(p)
  /\ Over(<<"4xx", "end">>)
  /\ UNCHANGED <<request, next, lists, outbound, records, hooking>>
Continues(p) == Ended(p) /\ ~ Aborted(p) /\ next' = 1

-----------------------------------------------------------------------------
(* From the receipt to the outbound body                                    *)

ReceivedEnds ==
  /\ Continues("received") /\ at' = "counting"
  /\ UNCHANGED <<request, lists, outbound, answer, hooking>>

\* Mutant: the hooks get the list there was before.
StaleMessages(l) == ctx
LiveMessages(l)  == IF HooksAt("before") = <<>> THEN ctx ELSE [ctx EXCEPT !.messages = l]
\* The prompt was counted, or could not be; expand calls are answered.
Counted ==
  /\ at = "counting" /\ at' = "before"
  /\ answered' \in IF setup.json /\ ~ setup.off THEN BOOLEAN ELSE {FALSE}
  /\ IF answered'
     THEN list' = [list EXCEPT !["answered"] = list[parsed] \cup {"answer"}] /\ parsed' = "answered"
     ELSE UNCHANGED <<list, parsed>>
  /\ ctx' = LiveMessages(parsed')
  /\ UNCHANGED <<setup, rewriting, rewritten, next, outbound, answer, hooking>>

\* request:after-rewrite starts with the list l for its hooks.
OutboundMessages(l) == IF HooksAt("after") = <<>> THEN ctx ELSE [ctx EXCEPT !.out = l]
BeforeEnds ==
  /\ Continues("before")
  /\ parsed' = IF HooksAt("before") = <<>> THEN parsed ELSE ctx.messages
  /\ rewriting' = parsed'
  /\ IF setup.json /\ ~ setup.off
     THEN at' = "rewriting" /\ UNCHANGED ctx
     ELSE at' = "after" /\ ctx' = OutboundMessages(parsed')
  /\ UNCHANGED <<setup, answered, rewritten, list, outbound, answer, hooking>>
\* Up to Tier 1, and the count of the rewritten messages after it.
Elide ==
  /\ at = "rewriting" /\ at' = "recounting"
  /\ list' = [list EXCEPT !["rewritten"] = list[rewriting]]
  /\ UNCHANGED <<request, next, parsed, ctx, outbound, answer, hooking>>
RewriteReturns ==
  /\ at = "recounting" /\ at' = "after"
  /\ rewritten' = TRUE
  /\ ctx' = OutboundMessages("rewritten")
  /\ UNCHANGED <<setup, answered, rewriting, next, list, parsed, outbound, answer, hooking>>
RewriteFails ==
  /\ at \in {"rewriting", "recounting"} /\ at' = "after"
  /\ ctx' = OutboundMessages(parsed)
  /\ UNCHANGED <<request, next, list, parsed, outbound, answer, hooking>>

\* x-debug-rewritten: the rewrite goes to the client and nothing upstream.
DebugReply ==
  /\ Continues("after") /\ setup.debug /\ rewritten
  /\ Over(<<"200", "end">>) /\ records' = records + 1
  /\ UNCHANGED <<request, lists, outbound, hooking>>
\* The sidecar cannot be written, or the header is no valid one.
DebugFails ==
  /\ Continues("after") /\ setup.debug /\ rewritten
  /\ Over(<<"500", "end">>)
  /\ UNCHANGED <<request, lists, outbound, records, hooking>>
\* The body that is forwarded: the client's bytes, unless ...
Outbound ==
  IF ~ setup.json THEN {}
  ELSE IF setup.mode = "enforce" /\ rewritten THEN list["rewritten"]
  ELSE IF answered THEN list[parsed]
  ELSE {}
AfterEnds ==
  /\ Continues("after") /\ ~ (setup.debug /\ rewritten)
  /\ at' = "sending"
  /\ wire' = Outbound
  /\ ctx' = IF HooksAt("sending") = <<>> THEN ctx ELSE [ctx EXCEPT !.buf = wire']
  /\ UNCHANGED <<request, list, parsed, sent, answer, hooking>>
Send ==
  /\ Continues("sending") /\ at' = "fetch"
  /\ wire' = IF HooksAt("sending") = <<>> THEN wire ELSE ctx.buf
  /\ sent' = TRUE /\ timer' = "armed"
  /\ UNCHANGED <<request, lists, response, records, hooking>>

-----------------------------------------------------------------------------
(* The upstream's answer                                                    *)

Logged == IF setup.kind = "chat" THEN records + 1 ELSE records

TimerFires ==
  /\ timer = "armed" /\ timer' = "fired"
  /\ UNCHANGED <<request, at, next, lists, outbound, response, records, hooking>>
FetchFails ==
  /\ at = "fetch" /\ timer # "fired"
  /\ Over(<<"502", "end">>)
  /\ UNCHANGED <<request, next, lists, outbound, records, hooking>>
FetchAborted ==
  /\ at = "fetch" /\ timer = "fired"
  /\ Over(<<"504", "end">>)
  /\ UNCHANGED <<request, next, lists, outbound, records, hooking>>
\* Mutant: the timer is for the headers only.
HeadersClear ==
  /\ at = "fetch" /\ timer # "fired"
  /\ at' = "stream" /\ response' = Append(response, "head") /\ timer' = "off"
  /\ UNCHANGED <<request, next, lists, outbound, records, hooking>>
Headers ==
  /\ at = "fetch" /\ timer # "fired"
  /\ at' = "stream" /\ response' = Append(response, "head")
  /\ UNCHANGED <<request, next, lists, outbound, timer, records, hooking>>
Chunk ==
  /\ at = "stream" /\ timer # "fired" /\ Len(response) <= MaxChunks
  /\ response' = Append(response, "chunk")
  /\ UNCHANGED <<request, at, next, lists, outbound, timer, records, hooking>>
StreamEnds ==
  /\ at = "stream" /\ timer # "fired"
  /\ Over(<<"end">>) /\ records' = Logged
  /\ UNCHANGED <<request, next, lists, outbound, hooking>>
\* Mutant: every stream that broke is terminated as if it were complete.
StreamBreaksDone ==
  /\ at = "stream" /\ timer # "fired"
  /\ Over(IF setup.stream THEN <<"[DONE]", "end">> ELSE <<"end">>)
  /\ records' = Logged
  /\ UNCHANGED <<request, next, lists, outbound, hooking>>
\* The connection breaks; a broken passthrough ends in the server's catch.
StreamBreaks ==
  /\ at = "stream" /\ timer # "fired"
  /\ Over(<<"end">>) /\ records' = Logged
  /\ UNCHANGED <<request, next, lists, outbound, hooking>>
StreamAborted ==
  /\ at = "stream" /\ timer = "fired"
  /\ Over(IF setup.stream THEN <<"[DONE]", "end">> ELSE <<"end">>)
  /\ records' = Logged
  /\ UNCHANGED <<request, next, lists, outbound, hooking>>

-----------------------------------------------------------------------------
\* Any other endpoint is passed through: it has no hooks and no timer.
Init ==
  /\ setup \in Setups
  /\ at = IF setup.kind = "chat" THEN "received" ELSE "fetch"
  /\ next = 1
  /\ list = [l \in Hook \cup {"client", "answered", "rewritten"} |-> {}]
  /\ parsed = IF setup.json THEN "client" ELSE NoList
  /\ ctx = [messages |-> parsed, out |-> NoList, buf |-> {}, aborted |-> FALSE]
  /\ rewriting = NoList /\ answered = FALSE /\ rewritten = FALSE
  /\ wire = {} /\ sent = (setup.kind # "chat")
  /\ timer = "off" /\ response = <<>> /\ records = 0
  /\ orphans = {} /\ edits = {} /\ strayed = {} /\ refused = FALSE

HookStep(h)   == HookActs(h) \/ HookPasses(h) \/ HookTimesOut(h) \/ PredicateThrows(h)
HandlerStep ==
  \/ \E p \in Phases : HookRefuses(p)
  \/ ReceivedEnds \/ Counted \/ BeforeEnds \/ Elide \/ RewriteReturns \/ RewriteFails
  \/ DebugReply \/ DebugFails \/ AfterEnds \/ Send
TimedOut      == TimerFires \/ FetchAborted \/ StreamAborted
UpstreamStep  == Headers \/ Chunk \/ StreamEnds \/ FetchFails \/ StreamBreaks

Next ==
  \/ HandlerStep \/ TimedOut \/ UpstreamStep
  \/ \E h \in Hook : HookStep(h) \/ LateHookActs(h)

Spec == Init /\ [][Next]_vars
\* The engine's and the request's timers fire, and the counts, the classifier and
\* the summarizer return; the upstream owes nothing.
FairSpec == Spec /\ WF_vars(HandlerStep \/ \E h \in Hook : HookStep(h)) /\ WF_vars(TimedOut)

-----------------------------------------------------------------------------
(* Properties                                                               *)

Heads == {"head", "200", "4xx", "500", "502", "504"}

\* However the upstream's answer, its failure and the timer fall out, the client
\* gets one head, first, and one end, last; [DONE] is added only where the timer
\* cut a stream; the log has one record exactly of the answers of the upstream
\* and of the debug replies (server.js 364-379, 445-591).
OneResponse ==
  /\ \A i \in DOMAIN response :
       /\ response[i] \in Heads <=> i = 1
       /\ response[i] = "end" => at = "over" /\ i = Len(response)
       /\ response[i] = "[DONE]" => timer = "fired" /\ setup.stream /\ i = Len(response) - 1
  /\ at = "over" => response # <<>> /\ response[Len(response)] = "end"
  /\ records = IF at = "over" /\ setup.kind = "chat" /\ response[1] \in {"head", "200"} THEN 1 ELSE 0

\* A request that a hook refused in time is never sent, whatever phase the hook
\* belongs to and whatever the abandoned ones do, and the client is told so
\* (server.js 204-218, 295, 342, 414).
RefusedNotSent ==
  refused => ~ sent /\ (at = "over" => response = <<"4xx", "end">>)

\* No hook replaces the messages after the rewrite began (its list may still lack
\* the replies), or the context's outboundMessages, which nobody reads.
Wholesome ==
  \A p \in Phases : \A i \in DOMAIN setup.hooks[p] :
    /\ setup.does[setup.hooks[p][i]] = "messages" => p \in {"received", "before"}
    /\ setup.does[setup.hooks[p][i]] # "outbound"

\* The body sent has the replies to expand calls and, when the rewrite is
\* enforced, everything hooks put into the messages in time, through all the
\* lists that are made on the way, if no abandoned hook interfered
\* (server.js 272-298, 339, 390-417).
EditsAreSent ==
  sent /\ strayed = {} /\ Wholesome =>
    /\ answered => "answer" \in wire
    /\ setup.mode = "enforce" /\ rewritten => edits \subseteq wire

\* A request for a completion is over at some time, although the upstream may
\* hang before the headers or at any chunk (server.js 429-436, 522-543).
ChatEnds == setup.kind = "chat" ~> at = "over"

\* docs/hooks-middleware.md 365: after its timeout any call of the hook "throws
\* HookPhaseClosedError ... The host request continues unaffected".
LateHookHarmless ==
  /\ sent => wire \cap strayed = {}
  /\ response # <<>> /\ response[1] = "4xx" => refused
=============================================================================
