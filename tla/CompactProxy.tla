---------------------------- MODULE CompactProxy ----------------------------
(***************************************************************************)
(* The elision and rehydration core of the compaction proxy                *)
(* (proxy/src/server.js handleChat, rewrite.js, tier1.js, verbatim.js).    *)
(*                                                                         *)
(* A harness keeps one conversation per session and resends it whole on    *)
(* every turn.  For each chat request the proxy answers the pending        *)
(* expand_tool_result calls from its store of persisted originals, picks   *)
(* the verbatim window, replaces heavy tool results outside the window by  *)
(* summaries or by stubs (persisting what each stub replaces), and chooses *)
(* the body it sends upstream.  Handlers of several requests interleave at *)
(* their awaits; the store on disk outlives a crash.                       *)
(*                                                                         *)
(* A message carries at most one tool result (its `id` then names the tool *)
(* call).  The replies the proxy splices in after an assistant message are *)
(* kept inside that message, one per expand call, in call order.           *)
(***************************************************************************)
EXTENDS Integers, Sequences, FiniteSets

CONSTANTS
  Session,        \* the harness's conversations
  Req,            \* concurrent handler invocations of the proxy
  CallId,         \* tool_call_id values
  NoCall,         \* absent or unknown tool_call_id
  NoReq,          \* no request outstanding
  Modes,          \* the values of config.mode a (re)start may read
  KeepTurns, KeepTokens,              \* watermarks.verbatim_keep_*
  JevTurnCap, JevTokenCap, JevMinCap, \* the caps a forced "compact" route imposes
  MinTokens,                          \* watermarks.tool_result_min_tokens
  ResultTokens,   \* token counts a tool result may have
  EstTokens,      \* EstTokens[n]: the length/4 estimate for a body of n tokens
  SummaryTokens,  \* sizes of the summarizer's, notes' and sumy's envelopes
  SummarizerMode, \* summarizer.mode (notes and sumy behave like "enforce")
  FilterMode,     \* tool_filter.mode
  Flags,          \* request kinds: "plain", "off" (x-compact), "debug" (x-debug-rewritten)
  ResultRoles,    \* role of a message with a tool result: "tool", or "user" for content blocks
  GlobalIds,      \* TRUE: call ids are unique over all sessions
  DiskFaults,     \* TRUE: a write of the store may fail
  MaxLen,         \* bound on the messages of a conversation
  MaxExpands      \* bound on the expand calls of one assistant message

ASSUME ConfigAssumption ==
  /\ Modes \subseteq {"passthrough", "shadow", "enforce"} /\ Modes # {}
  /\ {KeepTurns, KeepTokens, JevTurnCap, JevTokenCap} \subseteq Nat
  /\ MinTokens \in Nat /\ JevMinCap \in Nat
  /\ ResultTokens \subseteq Nat \ {0}
  /\ EstTokens \in [ResultTokens -> Nat]
  /\ SummaryTokens \subseteq Nat
  /\ SummarizerMode \in {"off", "shadow", "enforce"}
  /\ FilterMode \in {"off", "shadow", "enforce"}
  /\ Flags \subseteq {"plain", "off", "debug"} /\ Flags # {}
  /\ ResultRoles \subseteq {"tool", "user"}
  /\ {GlobalIds, DiskFaults} \subseteq BOOLEAN /\ MaxLen \in Nat /\ MaxExpands \in Nat

\* The sentinels are not values, and a stub or an error reply (one token
\* here) is never heavy enough to be elided itself.
ASSUME SentinelAssumption ==
  /\ NoCall \notin CallId /\ NoReq \notin Req
  /\ MinTokens > 1 /\ JevMinCap > 1

VARIABLES
  mode,     \* config.mode of the running process
  store,    \* <cache_dir>/tool-results: what reading <id>.json yields
  history,  \* history[s]: the messages the harness of s sends next (external)
  waiting,  \* waiting[s]: the request the harness of s waits for (external)
  req,      \* req[r]: the local state of handler r
  truth     \* truth[s][c]: the tool result that call id c stands for in s (history variable)

vars == <<mode, store, history, waiting, req, truth>>

Body   == Session \X CallId     \* one tool output per tool call of a session
NoBody == <<>>

Kind == {"none", "torn", "text", "orig", "stub", "summary", "error"}

Content == [kind : Kind, id : CallId \cup {NoCall}, body : Body \cup {NoBody}, tok : Nat]

Plain(k)      == [kind |-> k, id |-> NoCall, body |-> NoBody, tok |-> 1]
None          == Plain("none")      \* no file, or no reply
Torn          == Plain("torn")      \* a file whose write a crash cut short
Text          == Plain("text")      \* prose of any role
Error         == Plain("error")     \* {"error": ...} reply
Stub(c)       == [kind |-> "stub", id |-> c, body |-> NoBody, tok |-> 1]
Original(b,n) == [kind |-> "orig", id |-> NoCall, body |-> b, tok |-> n]
Summary(b,n)  == [kind |-> "summary", id |-> NoCall, body |-> b, tok |-> n]

Role    == {"user", "assistant", "tool", "system"}
Expand  == [id : CallId, target : CallId \cup {NoCall}, reply : Content]
Message == [role : Role, id : CallId \cup {NoCall}, content : Content,
            expands : Seq(Expand)]

\* A request body: its messages, whether tool_filter trimmed its tools, and
\* whether it offers the expand_tool_result tool.
Packet    == [msgs : Seq(Message), tools : {"all", "cut", "none"}, offer : BOOLEAN]
NoPacket  == [msgs |-> <<>>, tools |-> "none", offer |-> FALSE]
HandlerState ==
  [pc : {"idle", "received", "answered", "rewritten", "sent"},
   ses : Session \cup {NoReq}, flag : Flags \cup {"none"},
   raw : Seq(Message), parsed : Seq(Message), cut : BOOLEAN, rew : Packet, wire : Packet]
Handler   == {h \in HandlerState : h.pc # "idle" => h.ses \in Session /\ h.flag \in Flags}
Idle      == [pc |-> "idle", ses |-> NoReq, flag |-> "none", raw |-> <<>>,
              parsed |-> <<>>, cut |-> FALSE, rew |-> NoPacket, wire |-> NoPacket]

-----------------------------------------------------------------------------
(* Addressing.  The message at position i of a list is item <<i, 0>>; the   *)
(* reply spliced in for its k-th expand call is item <<i, k>>.              *)

Calls(msgs) == UNION {{<<i, k>> : k \in DOMAIN msgs[i].expands} : i \in DOMAIN msgs}

Items(msgs) ==
  {<<i, 0>> : i \in DOMAIN msgs} \cup
  {p \in Calls(msgs) : msgs[p[1]].expands[p[2]].reply.kind # "none"}

ContentAt(msgs, p) ==
  IF p[2] = 0 THEN msgs[p[1]].content ELSE msgs[p[1]].expands[p[2]].reply
RoleAt(msgs, p) == IF p[2] = 0 THEN msgs[p[1]].role ELSE "tool"
IdAt(msgs, p)   == IF p[2] = 0 THEN msgs[p[1]].id ELSE msgs[p[1]].expands[p[2]].id

Later(p, q) == p[1] < q[1] \/ (p[1] = q[1] /\ p[2] < q[2])

\* Put new[p] in the place of every item p of DOMAIN new.
ReplaceItems(msgs, new) ==
  [i \in DOMAIN msgs |->
     [role    |-> msgs[i].role,
      id      |-> msgs[i].id,
      content |-> IF <<i, 0>> \in DOMAIN new THEN new[<<i, 0>>] ELSE msgs[i].content,
      expands |-> [k \in DOMAIN msgs[i].expands |->
        [id     |-> msgs[i].expands[k].id,
         target |-> msgs[i].expands[k].target,
         reply  |-> IF <<i, k>> \in DOMAIN new THEN new[<<i, k>>]
                    ELSE msgs[i].expands[k].reply]]]]

-----------------------------------------------------------------------------
(* answerExpandCalls                                                        *)

\* The call ids a role:"tool" message of the request already answers.
AnsweredIds(msgs) == {msgs[i].id : i \in {j \in DOMAIN msgs : msgs[j].role = "tool"}}

\* Mutant: the reply is not unwrapped from the stored record.
ExpandReplyWrapped(e) ==
  IF e.target = NoCall \/ store[e.target].kind = "none"
  THEN Error ELSE [content |-> store[e.target], kind |-> store[e.target].kind]
ExpandReply(e) ==
  IF e.target = NoCall \/ store[e.target].kind = "none"
  THEN Error ELSE store[e.target]

\* The expand calls of a request that have no reply yet.
PendingExpands(msgs) ==
  {p \in Calls(msgs) : /\ msgs[p[1]].role = "assistant"
                       /\ msgs[p[1]].expands[p[2]].id \notin AnsweredIds(msgs)}

\* JSON.parse throws on a torn file; handleChat then keeps the messages.
AnswerExpandCalls(msgs) ==
  LET reply == [p \in PendingExpands(msgs) |-> ExpandReply(msgs[p[1]].expands[p[2]])]
  IN  IF \E p \in DOMAIN reply : reply[p].kind = "torn"
      THEN msgs ELSE ReplaceItems(msgs, reply)

-----------------------------------------------------------------------------
(* pickVerbatim                                                             *)

NonSystem(msgs) == {p \in Items(msgs) : RoleAt(msgs, p) # "system"}
After(msgs, p)  == {q \in NonSystem(msgs) : Later(p, q)}
\* The sum of their counts: the pairs of an item and one of its tokens.
Tokens(msgs, S) == Cardinality(UNION {{p} \X (1 .. ContentAt(msgs, p).tok) : p \in S})

\* The last message of role "user".
IsLastUser(msgs, p) ==
  /\ RoleAt(msgs, p) = "user"
  /\ \A q \in After(msgs, p) : RoleAt(msgs, q) # "user"

\* Mutant: the walk stops as soon as one of the two thresholds is met.
InTailEitherBound(msgs, p, turns, tokens) ==
  /\ RoleAt(msgs, p) # "system"
  /\ Cardinality(After(msgs, p)) < turns
  /\ Tokens(msgs, After(msgs, p)) < tokens
\* The walk from the tail keeps p: one of the two thresholds is not yet met
\* by the messages after it.
InTail(msgs, p, turns, tokens) ==
  /\ RoleAt(msgs, p) # "system"
  /\ \/ Cardinality(After(msgs, p)) < turns
     \/ Tokens(msgs, After(msgs, p)) < tokens

\* Mutant: the window is chosen before the replies are spliced in.
EvictableReplies(msgs, turns, tokens) ==
  {p \in Items(msgs) : /\ RoleAt(msgs, p) # "system"
                       /\ ~ IsLastUser(msgs, p)
                       /\ p[2] > 0 \/ ~ InTail(msgs, p, turns, tokens)}
Evictable(msgs, turns, tokens) ==
  {p \in Items(msgs) : /\ RoleAt(msgs, p) # "system"
                       /\ ~ IsLastUser(msgs, p)
                       /\ ~ InTail(msgs, p, turns, tokens)}

-----------------------------------------------------------------------------
(* rewriteRequest                                                           *)

Least(m, n) == IF m <= n THEN m ELSE n

\* The thresholds, tightened when the classifier forces compaction.
TurnsKept(jev)  == IF jev THEN Least(KeepTurns, JevTurnCap) ELSE KeepTurns
TokensKept(jev) == IF jev THEN Least(KeepTokens, JevTokenCap) ELSE KeepTokens
Heavy(jev)      == IF jev THEN Least(MinTokens, JevMinCap) ELSE MinTokens

\* syncTokenCount: the cached count, or the length/4 estimate for a body the
\* LRU cache dropped; an envelope built a moment ago was never counted.
SyncTokenCount(c, cached) ==
  IF cached \/ c.tok \notin ResultTokens \/ c.kind = "summary"
  THEN c.tok ELSE EstTokens[c.tok]

\* The evictable items whose tool result is heavy enough to compress or elide.
HeavyResults(msgs, evict, min, cold) ==
  {p \in evict : /\ IdAt(msgs, p) # NoCall
                 /\ SyncTokenCount(ContentAt(msgs, p), p \notin cold) >= min}

StubsFor(msgs, elide) == [p \in elide |-> Stub(IdAt(msgs, p))]

\* Mutant: what is persisted is the entry after its replacement.
PersistReplaced(msgs, elide) ==
  [c \in CallId |->
     IF \E p \in elide : IdAt(msgs, p) = c THEN Stub(c) ELSE store[c]]
\* Mutant: the writes run late and all see the last elided entry.
PersistLast(msgs, elide) ==
  [c \in CallId |->
     IF \E p \in elide : IdAt(msgs, p) = c
     THEN ContentAt(msgs, CHOOSE p \in elide : \A q \in elide : ~ Later(p, q))
     ELSE store[c]]
\* Mutant: an id that already has a file is not written again.
PersistIfAbsent(msgs, elide) ==
  [c \in CallId |->
     IF store[c].kind = "none" /\ \E p \in elide : IdAt(msgs, p) = c
     THEN ContentAt(msgs, CHOOSE p \in elide : IdAt(msgs, p) = c)
     ELSE store[c]]
\* Mutant: replies the proxy spliced in are not persisted when they are elided.
PersistNotReplies(msgs, elide) ==
  [c \in CallId |->
     IF \E p \in elide : IdAt(msgs, p) = c /\ p[2] = 0
     THEN ContentAt(msgs, CHOOSE p \in elide : IdAt(msgs, p) = c)
     ELSE store[c]]
\* applyTier1 writes the body it elides (ids do not repeat in a conversation).
Persist(msgs, elide) ==
  [c \in CallId |->
     IF \E p \in elide : IdAt(msgs, p) = c
     THEN ContentAt(msgs, CHOOSE p \in elide : IdAt(msgs, p) = c)
     ELSE store[c]]

\* EXPAND_TOOL_DEFINITION is appended when a stub landed.
OfferExpand(elide) == elide # {}

\* The summarizer, notes and sumy stages replace the bodies of S by envelopes
\* of n[p] tokens; their watermark gate and each failure only make S smaller.
Compress(msgs, S, n) ==
  ReplaceItems(msgs, [p \in S |-> Summary(ContentAt(msgs, p).body, n[p])])

\* What the rewrite of msgs may work on and elide: the classifier may force
\* compaction (jev), the token cache may have dropped bodies (cold), and the
\* summarizer compresses some of the heavy bodies (S, to n tokens).
Elision(msgs, evict, jev, cold, S, n) ==
  LET work == Compress(msgs, S, n)
  IN  [work |-> work, elide |-> HeavyResults(work, evict, Heavy(jev), cold)]

Compressible(msgs, evict, jev, cold) ==
  IF SummarizerMode = "enforce" THEN HeavyResults(msgs, evict, Heavy(jev), cold) ELSE {}

Elisions(msgs) ==
  UNION {LET evict == Evictable(msgs, TurnsKept(jev), TokensKept(jev)) IN
         UNION {UNION {{Elision(msgs, evict, jev, cold, S, n) : n \in [S -> SummaryTokens]} :
                       S \in SUBSET Compressible(msgs, evict, jev, cold)} :
                cold \in SUBSET {p \in evict : ContentAt(msgs, p).kind = "orig"}} :
         jev \in BOOLEAN}

-----------------------------------------------------------------------------
(* The harness: external, from what the proxy assumes of its requests.      *)

\* The ids a conversation has used, and the ids a new call may take.
IdsOf(msgs) ==
  ({msgs[i].id : i \in DOMAIN msgs} \cup
   UNION {{msgs[i].expands[k].id : k \in DOMAIN msgs[i].expands} : i \in DOMAIN msgs})
     \ {NoCall}
FreshIds(s) ==
  CallId \ (IF GlobalIds THEN UNION {IdsOf(history[t]) : t \in Session}
                         ELSE IdsOf(history[s]))

\* The stub ids the model saw in a forwarded body.
StubItems(msgs) == {p \in Items(msgs) : ContentAt(msgs, p).kind = "stub"}
StubIds(msgs)   == {ContentAt(msgs, p).id : p \in StubItems(msgs)}

Say(role)       == [role |-> role, id |-> NoCall, content |-> Text, expands |-> <<>>]
ResultOf(c, role, content) ==
  [role |-> role, id |-> c, content |-> content, expands |-> <<>>]
AskExpand(calls) ==
  [role |-> "assistant", id |-> NoCall, content |-> Text,
   expands |-> [k \in DOMAIN calls |->
                 [id |-> calls[k].id, target |-> calls[k].target, reply |-> None]]]

\* A send of the whole conversation; the harness waits for one answer at a time.
Receive(r, s) ==
  /\ req[r].pc = "idle"
  /\ waiting[s] = NoReq
  /\ \E flag \in Flags :
       req' = [req EXCEPT ![r] = [Idle EXCEPT !.pc = "received", !.ses = s, !.flag = flag,
                                   !.raw = history[s], !.parsed = history[s]]]
  /\ waiting' = [waiting EXCEPT ![s] = r]
  /\ UNCHANGED <<mode, store, history, truth>>

\* The client cancels; the handler only logs it and runs on.
GiveUp(s) ==
  /\ waiting[s] # NoReq
  /\ waiting' = [waiting EXCEPT ![s] = NoReq]
  /\ UNCHANGED <<mode, store, history, req, truth>>

\* Handler r ends; its client, if it still waits, is free again.
Finish(r) ==
  /\ req' = [req EXCEPT ![r] = Idle]
  /\ waiting' = [s \in Session |-> IF waiting[s] = r THEN NoReq ELSE waiting[s]]

-----------------------------------------------------------------------------
(* handleChat, from one await to the next                                   *)

Answer(r) ==
  /\ req[r].pc = "received"
  /\ req[r].flag # "off"
  /\ req' = [req EXCEPT ![r] = [@ EXCEPT !.pc = "answered",
                                         !.parsed = AnswerExpandCalls(req[r].parsed)]]
  /\ UNCHANGED <<mode, store, history, waiting, truth>>

\* jev: the classifier forced compaction.  pass: its toolset verdict passes.
Rewrite(r) ==
  /\ req[r].pc = "answered"
  /\ \E e \in Elisions(req[r].parsed), pass \in BOOLEAN :
       LET cut == FilterMode = "enforce" /\ pass
           rew == [msgs  |-> ReplaceItems(e.work, StubsFor(e.work, e.elide)),
                   tools |-> IF cut THEN "cut" ELSE "all",
                   offer |-> OfferExpand(e.elide)]
       IN  /\ store' = Persist(e.work, e.elide)
           /\ req' = [req EXCEPT ![r] = [@ EXCEPT !.pc = "rewritten", !.cut = cut, !.rew = rew]]
  /\ UNCHANGED <<mode, history, waiting, truth>>

\* Mutant: every mode but passthrough forwards the rewrite.
OutboundShadowToo(h, rew) ==
  IF mode # "passthrough" /\ rew # NoPacket THEN rew
  ELSE [msgs |-> h.parsed, tools |-> "all", offer |-> FALSE]
\* The body forwarded when the rewrite outcome is rew (NoPacket: it failed).
\* JSON.stringify(parsed) shows the tools list the filter trimmed in place;
\* phantomAnswered is non-empty exactly when parsed differs from the client's.
Outbound(h, rew) ==
  IF mode = "enforce" /\ rew # NoPacket THEN rew
  ELSE IF h.parsed # h.raw
       THEN [msgs |-> h.parsed, tools |-> IF h.cut THEN "cut" ELSE "all", offer |-> FALSE]
       ELSE [msgs |-> h.raw, tools |-> "all", offer |-> FALSE]

Send(r, rew) ==
  /\ req' = [req EXCEPT ![r] = [@ EXCEPT !.pc = "sent", !.rew = rew,
                                         !.wire = Outbound(req[r], rew)]]
  /\ UNCHANGED <<mode, store, history, waiting, truth>>

\* What a write of applyTier1 that stops at item p leaves: the files of the
\* items before p, and p's own file untouched or torn.
Interrupted(msgs, elide, p) ==
  LET before == Persist(msgs, {q \in elide : Later(q, p)})
  IN  {before, [before EXCEPT ![IdAt(msgs, p)] = Torn]}
InterruptedWrites(msgs) ==
  UNION {UNION {Interrupted(e.work, e.elide, p) : p \in e.elide} : e \in Elisions(msgs)}

\* A write fails (disk full): rewriteRequest throws and the request goes on
\* without a rewrite.
PersistFails(r) ==
  /\ DiskFaults
  /\ req[r].pc = "answered"
  /\ store' \in InterruptedWrites(req[r].parsed)
  /\ req' = [req EXCEPT ![r] = [@ EXCEPT !.pc = "sent", !.wire = Outbound(req[r], NoPacket)]]
  /\ UNCHANGED <<mode, history, waiting, truth>>

\* The recount succeeds and the request is not a debug one.
ForwardRewrite(r) ==
  /\ req[r].pc = "rewritten"
  /\ req[r].flag # "debug"
  /\ Send(r, req[r].rew)

\* x-debug-rewritten: an empty 200 before any upstream call.
DebugReply(r) ==
  /\ req[r].pc = "rewritten"
  /\ req[r].flag = "debug"
  /\ Finish(r)
  /\ UNCHANGED <<mode, store, history, truth>>

\* No rewrite: compaction is off for the request, or a token count failed
\* before the elision ("answered") or after it ("rewritten").
ForwardFallback(r) ==
  /\ \/ req[r].pc = "received" /\ req[r].flag = "off"
     \/ req[r].pc = "answered"
     \/ req[r].pc = "rewritten"
  /\ Send(r, NoPacket)

\* 502, 504 or an interrupted stream: the conversation does not advance.
Fail(r) ==
  /\ req[r].pc = "sent"
  /\ Finish(r)
  /\ UNCHANGED <<mode, store, history, truth>>

-----------------------------------------------------------------------------
(* The model's answer reaches the harness, which extends its conversation   *)
(* (external).  An answer to a client that gave up changes nothing.         *)

Extend(r, turns) ==
  LET s == req[r].ses IN
  /\ req[r].pc = "sent"
  /\ waiting[s] = r
  /\ Len(history[s]) + Len(turns) <= MaxLen
  /\ history' = [history EXCEPT ![s] = @ \o turns]
  /\ Finish(r)
  /\ UNCHANGED <<mode, store>>

FinalTurn(r) ==
  /\ Extend(r, <<Say("assistant"), Say("user")>>)
  /\ UNCHANGED truth

ToolTurn(r) ==
  /\ req[r].pc = "sent"
  /\ \E c \in FreshIds(req[r].ses), n \in ResultTokens, role \in ResultRoles :
       LET result == Original(<<req[r].ses, c>>, n) IN
       /\ Extend(r, <<Say("assistant"), ResultOf(c, role, result)>>)
       /\ truth' = [truth EXCEPT ![req[r].ses][c] = result]

\* The model, offered the tool, asks for originals back: by stub ids it saw or
\* by a made-up id.
\* The harness either leaves the calls to the proxy or answers each with an
\* error of its own, not knowing the tool.
ExpandTurn(r) ==
  LET s == req[r].ses IN
  /\ req[r].pc = "sent"
  /\ req[r].wire.offer
  /\ \E calls \in UNION {[1 .. m -> [id : FreshIds(s),
                                    target : StubIds(req[r].wire.msgs) \cup {NoCall}]] :
                         m \in 1 .. MaxExpands} :
       /\ \A j, k \in DOMAIN calls : calls[j].id = calls[k].id => j = k
       /\ \E own \in BOOLEAN :
            Extend(r, <<AskExpand(calls)>> \o
                      (IF own THEN [k \in DOMAIN calls |-> ResultOf(calls[k].id, "tool", Text)]
                              ELSE <<>>))
       /\ truth' = [truth EXCEPT ![s] = [c \in CallId |->
             IF \E k \in DOMAIN calls : calls[k].id = c /\ calls[k].target # NoCall
             THEN truth[s][calls[CHOOSE k \in DOMAIN calls : calls[k].id = c].target]
             ELSE truth[s][c]]]

-----------------------------------------------------------------------------
(* The proxy process dies and is started again, maybe with another mode.    *)

Restart ==
  /\ mode' \in Modes
  /\ req' = [r \in Req |-> Idle]
  /\ waiting' = [s \in Session |-> NoReq]
  /\ UNCHANGED <<history, truth>>

Crash ==
  /\ \E r \in Req : req[r].pc # "idle"
  /\ Restart
  /\ UNCHANGED store

\* The crash cuts applyTier1 short in one of its writes.
CrashInPersist(r) ==
  /\ req[r].pc = "answered"
  /\ store' \in InterruptedWrites(req[r].parsed)
  /\ Restart

-----------------------------------------------------------------------------
Init ==
  /\ mode \in Modes
  /\ store = [c \in CallId |-> None]
  /\ history = [s \in Session |-> <<Say("user")>>]
  /\ waiting = [s \in Session |-> NoReq]
  /\ req = [r \in Req |-> Idle]
  /\ truth = [s \in Session |-> [c \in CallId |-> None]]

Next ==
  \/ \E r \in Req, s \in Session : Receive(r, s)
  \/ \E s \in Session : GiveUp(s)
  \/ \E r \in Req : Answer(r)
  \/ \E r \in Req : Rewrite(r)
  \/ \E r \in Req : PersistFails(r)
  \/ \E r \in Req : ForwardRewrite(r)
  \/ \E r \in Req : DebugReply(r)
  \/ \E r \in Req : ForwardFallback(r)
  \/ \E r \in Req : Fail(r)
  \/ \E r \in Req : FinalTurn(r)
  \/ \E r \in Req : ToolTurn(r)
  \/ \E r \in Req : ExpandTurn(r)
  \/ Crash
  \/ \E r \in Req : CrashInPersist(r)

Spec == Init /\ [][Next]_vars

-----------------------------------------------------------------------------
(* Properties                                                               *)

TypeOK ==
  /\ mode \in Modes
  /\ store \in [CallId -> Content]
  /\ history \in [Session -> Seq(Message)]
  /\ waiting \in [Session -> Req \cup {NoReq}]
  /\ req \in [Req -> Handler]
  /\ truth \in [Session -> [CallId -> Content]]

Sent == {r \in Req : req[r].pc = "sent"}

\* Every stub the upstream model is shown can be expanded: the body offers
\* expand_tool_result, and the file of the stub's id holds the very result the
\* stub stands for in that conversation (unless a failed write tore it),
\* whatever other requests, retries and restarts did to the store
\* (tier1.js applyTier1, rewrite.js 373-382).
StubsRehydrate ==
  \A r \in Sent : \A c \in StubIds(req[r].wire.msgs) :
    /\ req[r].wire.offer
    /\ \/ store[c].kind = "orig" /\ store[c] = truth[req[r].ses][c]
       \/ DiskFaults /\ store[c].kind = "torn"

\* An expand call in a forwarded body has at most one reply, and the reply the
\* proxy gave is what its id stands for, also when the call expands the reply
\* to an earlier expand call; a stub the model saw is never answered by
\* "unknown id" (rewrite.js answerExpandCalls).
RepliesAreOriginals ==
  \A r \in Sent : \A p \in Calls(req[r].wire.msgs) :
    LET e == req[r].wire.msgs[p[1]].expands[p[2]] IN
    e.reply.kind # "none" =>
      /\ e.id \notin AnsweredIds(req[r].wire.msgs)
      /\ IF e.target = NoCall THEN e.reply.kind = "error"
         ELSE \/ e.reply = Stub(e.id)
              \/ e.reply.kind = "orig" /\ e.reply = truth[req[r].ses][e.id]
              \/ e.reply.kind = "summary" /\ e.reply.body = truth[req[r].ses][e.id].body

\* The rewrite only replaces tool results outside the verbatim window: the
\* newest turns, the last user message and everything that is no tool result
\* reach the upstream as the client sent them ("We never touch verbatim
\* messages", tier1.js:16; verbatim.js:5-9).
WindowUntouched ==
  \A r \in Sent :
    LET sentMsgs == req[r].wire.msgs
        full     == req[r].parsed IN
    /\ Len(sentMsgs) = Len(req[r].raw)
    /\ \A p \in Items(sentMsgs) :
         \/ ContentAt(sentMsgs, p) = ContentAt(full, p)
         \/ /\ IdAt(full, p) # NoCall
            /\ ~ IsLastUser(full, p)
            /\ Cardinality(After(full, p)) >= Least(KeepTurns, JevTurnCap)
            /\ Tokens(full, After(full, p)) >= Least(KeepTokens, JevTokenCap)

\* Outside enforce mode the upstream gets the client's own messages, with
\* nothing added but replies to expand calls, and with x-compact: off not even
\* those (server.js 382-395).
OnlyEnforceRewrites ==
  \A r \in Sent :
    LET h == req[r] IN
    /\ mode # "enforce" => /\ ~ h.wire.offer
                           /\ \A p \in Items(h.wire.msgs) :
                                /\ ContentAt(h.wire.msgs, p).kind \notin {"stub", "summary"}
                                /\ p[2] = 0 => ContentAt(h.wire.msgs, p) = ContentAt(h.raw, p)
    /\ h.flag = "off" => h.wire.msgs = h.raw /\ h.wire.tools = "all"

\* The expand calls of the last message of a request, and the replies to them
\* that were elided or summarized again.
LastCalls(msgs) == {p \in Calls(msgs) : p[1] = Len(msgs)}
LostReplies(msgs) == {p \in LastCalls(msgs) : ContentAt(msgs, p).kind \in {"stub", "summary"}}

\* The newest replies to the expand calls the model has just made reach it in
\* full, as many of them as the smallest window has turns, whatever they weigh
\* and however far the classifier shrinks the window (verbatim.js 39-56 keeps
\* by turns or tokens, rewrite.js:94-97).
FreshExpandDelivered ==
  \A r \in Sent :
    LET calls == req[r].parsed[Len(req[r].parsed)].expands IN
    \A p \in LostReplies(req[r].wire.msgs) :
      Len(calls) - p[2] >= Least(KeepTurns, JevTurnCap)

\* What rewrite.js:415-418 says of expand calls without a reply: "we splice the
\* verbatim reply in instead of forwarding the call to upstream".  Read of all
\* the calls of the last message it is not so: the window of a forced
\* compaction keeps two turns (rewrite.js:96), and the replies to parallel
\* calls before those are elided again in the very request that asks for them.
VerbatimRepliesSpliced == \A r \in Sent : LostReplies(req[r].wire.msgs) = {}

\* What server.js:386 and docs/proxy.md:57-58 say of shadow mode: it forwards
\* the original.  A filter in enforce mode trims the tools of the request in
\* place (rewrite.js:369), and where expand calls were answered it is that
\* request which is forwarded (server.js:391-393).
ShadowKeepsTools ==
  \A r \in Sent : mode = "shadow" => req[r].wire.tools = "all"

\* A file of the store holds an original tool output: "persist the original
\* verbatim" (tier1.js:4-5).
OriginalsOnDisk == \A c \in CallId : store[c].kind \in {"none", "torn", "orig"}

\* Once an original is on disk no later request, retry or restart replaces it
\* by another body; the worst a crash or a full disk does is to tear it
\* (tier1.js persist overwrites the file on every request).
OriginalsStay ==
  [][\A c \in CallId : store[c].kind = "orig" => store'[c] \in {store[c], Torn}]_store
=============================================================================
