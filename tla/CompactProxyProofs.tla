------------------------- MODULE CompactProxyProofs -------------------------
(* Proofs about CompactProxy for every value of its constants.              *)
EXTENDS CompactProxy, SequenceTheorems, FiniteSetTheorems, TLAPS

(***************************************************************************)
(* Lemmas about message lists.                                             *)
(***************************************************************************)

\* The constant contents are contents.
LEMMA ContentTypes ==
  /\ None \in Content /\ Torn \in Content /\ Text \in Content /\ Error \in Content
  /\ \A c \in CallId \cup {NoCall} : Stub(c) \in Content
  /\ \A b \in Body \cup {NoBody}, n \in Nat : Original(b, n) \in Content /\ Summary(b, n) \in Content
  BY DEF None, Torn, Text, Error, Plain, Stub, Original, Summary, Content, Kind

\* A function over 1..n with values in S is a sequence over S.
LEMMA FunctionIsSeq ==
  ASSUME NEW S, NEW n \in Nat, NEW f \in [1 .. n -> S]
  PROVE  f \in Seq(S)
  BY SeqDef

\* The message found at an item's position, and the expand call of a reply.
LEMMA MessageAt ==
  ASSUME NEW msgs \in Seq(Message), NEW i \in DOMAIN msgs
  PROVE  /\ msgs[i] \in Message
         /\ msgs[i].expands \in Seq(Expand)
         /\ msgs[i].content \in Content
         /\ msgs[i].id \in CallId \cup {NoCall}
         /\ \A k \in DOMAIN msgs[i].expands : msgs[i].expands[k] \in Expand
  <1>1. msgs[i] \in Message
    BY ElementOfSeq, LenProperties
  <1>2. msgs[i].expands \in Seq(Expand)
    BY <1>1 DEF Message
  <1>3. \A k \in DOMAIN msgs[i].expands : msgs[i].expands[k] \in Expand
    BY <1>2, ElementOfSeq, LenProperties
  <1>4. QED
    BY <1>1, <1>2, <1>3 DEF Message

\* Reading an item of a typed list gives a content and an id.
LEMMA ItemTypes ==
  ASSUME NEW msgs \in Seq(Message), NEW p \in Items(msgs)
  PROVE  /\ ContentAt(msgs, p) \in Content
         /\ IdAt(msgs, p) \in CallId \cup {NoCall}
  <1>1. CASE p \in {<<i, 0>> : i \in DOMAIN msgs}
    BY <1>1, MessageAt DEF ContentAt, IdAt
  <1>2. CASE p \in Calls(msgs)
    <2>1. PICK i \in DOMAIN msgs : \E k \in DOMAIN msgs[i].expands : p = <<i, k>>
      BY <1>2 DEF Calls
    <2>2. PICK k \in DOMAIN msgs[i].expands : p = <<i, k>>
      BY <2>1
    <2>3. k # 0 /\ msgs[i].expands[k] \in Expand
      BY MessageAt, LenProperties
    <2>4. QED
      BY <2>2, <2>3 DEF ContentAt, IdAt, Expand
  <1>3. QED
    BY <1>1, <1>2 DEF Items

\* Replacing items by contents keeps a list a list of messages.
LEMMA ReplaceTyped ==
  ASSUME NEW msgs \in Seq(Message), NEW new,
         \A p \in DOMAIN new : new[p] \in Content
  PROVE  ReplaceItems(msgs, new) \in Seq(Message)
  <1> DEFINE M(i) == ReplaceItems(msgs, new)[i]
  <1>1. ASSUME NEW i \in DOMAIN msgs
        PROVE  M(i) \in Message
    <2> DEFINE ex == ReplaceItems(msgs, new)[i].expands
               ct == IF <<i, 0>> \in DOMAIN new THEN new[<<i, 0>>] ELSE msgs[i].content
    <2>1. msgs[i] \in Message /\ msgs[i].expands \in Seq(Expand)
      BY MessageAt
    <2>2. \A k \in DOMAIN msgs[i].expands : ex[k] \in Expand
      BY MessageAt DEF Expand, ReplaceItems
    <2>3. DOMAIN msgs[i].expands = 1 .. Len(msgs[i].expands) /\ Len(msgs[i].expands) \in Nat
      BY <2>1, LenProperties
    <2>4. ex \in [1 .. Len(msgs[i].expands) -> Expand]
      BY <2>2, <2>3 DEF ReplaceItems
    <2>5. ex \in Seq(Expand)
      BY <2>3, <2>4, FunctionIsSeq
    <2>6. ct \in Content
      BY MessageAt
    <2>7. M(i) = [role |-> msgs[i].role, id |-> msgs[i].id, content |-> ct, expands |-> ex]
      BY DEF ReplaceItems
    <2>8. QED
      BY <2>1, <2>5, <2>6, <2>7 DEF Message
  <1>2. DOMAIN msgs = 1 .. Len(msgs) /\ Len(msgs) \in Nat
    BY LenProperties
  <1>3. ReplaceItems(msgs, new) \in [1 .. Len(msgs) -> Message]
    BY <1>1, <1>2 DEF ReplaceItems
  <1>4. QED
    BY <1>2, <1>3, FunctionIsSeq

\* The interception of expand calls keeps a request typed.
LEMMA AnswerTyped ==
  ASSUME NEW msgs \in Seq(Message), store \in [CallId -> Content]
  PROVE  AnswerExpandCalls(msgs) \in Seq(Message)
  <1> DEFINE reply == [p \in PendingExpands(msgs) |->
                         ExpandReply(msgs[p[1]].expands[p[2]])]
  <1>1. ASSUME NEW p \in PendingExpands(msgs)
        PROVE  reply[p] \in Content
    <2>1. PICK i \in DOMAIN msgs : \E k \in DOMAIN msgs[i].expands : p = <<i, k>>
      BY DEF PendingExpands, Calls
    <2>2. PICK k \in DOMAIN msgs[i].expands : p = <<i, k>>
      BY <2>1
    <2>3. msgs[p[1]].expands[p[2]] \in Expand
      BY <2>2, MessageAt
    <2>4. QED
      BY <2>3, ContentTypes DEF ExpandReply, Expand
  <1>2. ReplaceItems(msgs, reply) \in Seq(Message)
    BY <1>1, ReplaceTyped
  <1>3. QED
    BY <1>2 DEF AnswerExpandCalls

\* The rewrite stages only look at items of the request.
LEMMA HeavyAreItems ==
  ASSUME NEW msgs, NEW evict, NEW min, NEW cold
  PROVE  /\ HeavyResults(msgs, evict, min, cold) \subseteq evict
         /\ \A p \in HeavyResults(msgs, evict, min, cold) : IdAt(msgs, p) # NoCall
  BY DEF HeavyResults

LEMMA EvictableAreItems ==
  ASSUME NEW msgs, NEW turns, NEW tokens
  PROVE  Evictable(msgs, turns, tokens) \subseteq Items(msgs)
  BY DEF Evictable

\* Replacing items keeps the ids, and every other content, where they were.
LEMMA ReplaceReads ==
  ASSUME NEW msgs \in Seq(Message), NEW new,
         \A p \in DOMAIN new : new[p] \in Content, NEW p \in Items(msgs)
  PROVE  /\ IdAt(ReplaceItems(msgs, new), p) = IdAt(msgs, p)
         /\ ContentAt(ReplaceItems(msgs, new), p) =
              IF p \in DOMAIN new THEN new[p] ELSE ContentAt(msgs, p)
  <1> DEFINE out == ReplaceItems(msgs, new)
  <1>1. ASSUME NEW i \in DOMAIN msgs
        PROVE  /\ out[i].id = msgs[i].id
               /\ out[i].content =
                    IF <<i, 0>> \in DOMAIN new THEN new[<<i, 0>>] ELSE msgs[i].content
               /\ \A k \in DOMAIN msgs[i].expands :
                    /\ out[i].expands[k].id = msgs[i].expands[k].id
                    /\ out[i].expands[k].reply = IF <<i, k>> \in DOMAIN new
                         THEN new[<<i, k>>] ELSE msgs[i].expands[k].reply
    BY DEF ReplaceItems
  <1>2. CASE p \in {<<i, 0>> : i \in DOMAIN msgs}
    BY <1>1, <1>2 DEF ContentAt, IdAt
  <1>3. CASE p \in Calls(msgs)
    <2>1. PICK i \in DOMAIN msgs : \E k \in DOMAIN msgs[i].expands : p = <<i, k>>
      BY <1>3 DEF Calls
    <2>2. PICK k \in DOMAIN msgs[i].expands : p = <<i, k>>
      BY <2>1
    <2>3. k # 0 /\ msgs[i].expands[k] \in Expand
      BY MessageAt, LenProperties
    <2>4. QED
      BY <1>1, <2>2, <2>3 DEF ContentAt, IdAt
  <1>4. QED
    BY <1>2, <1>3 DEF Items

\* Compressing a set of items keeps the list typed and every item in place.
LEMMA CompressTyped ==
  ASSUME NEW msgs \in Seq(Message), NEW S \in SUBSET Items(msgs),
         NEW n \in [S -> SummaryTokens]
  PROVE  /\ Compress(msgs, S, n) \in Seq(Message)
         /\ \A p \in Items(msgs) :
              /\ IdAt(Compress(msgs, S, n), p) = IdAt(msgs, p)
              /\ ContentAt(Compress(msgs, S, n), p) \in Content
  <1> DEFINE new == [p \in S |-> Summary(ContentAt(msgs, p).body, n[p])]
  <1>1. \A p \in DOMAIN new : new[p] \in Content
    <2> SUFFICES ASSUME NEW p \in S PROVE new[p] \in Content
      OBVIOUS
    <2>1. ContentAt(msgs, p) \in Content
      BY ItemTypes
    <2>2. n[p] \in Nat
      BY ConfigAssumption
    <2>3. QED
      BY <2>1, <2>2, ContentTypes DEF Content
  <1>2. Compress(msgs, S, n) = ReplaceItems(msgs, new)
    BY DEF Compress
  <1>3. ReplaceItems(msgs, new) \in Seq(Message)
    BY <1>1, ReplaceTyped
  <1>4. ASSUME NEW p \in Items(msgs)
        PROVE  /\ IdAt(ReplaceItems(msgs, new), p) = IdAt(msgs, p)
               /\ ContentAt(ReplaceItems(msgs, new), p) \in Content
    <2>1. ContentAt(msgs, p) \in Content
      BY ItemTypes
    <2>2. QED
      BY <1>1, <2>1, ReplaceReads
  <1>5. QED
    BY <1>2, <1>3, <1>4

\* Persisting elided items keeps the store typed.
LEMMA PersistTyped ==
  ASSUME NEW msgs, NEW elide, store \in [CallId -> Content],
         \A p \in elide : ContentAt(msgs, p) \in Content
  PROVE  Persist(msgs, elide) \in [CallId -> Content]
  BY DEF Persist

\* The stubs of the elided items keep a rewritten list typed.
LEMMA StubsTyped ==
  ASSUME NEW msgs \in Seq(Message), NEW elide,
         \A p \in elide : IdAt(msgs, p) \in CallId
  PROVE  ReplaceItems(msgs, StubsFor(msgs, elide)) \in Seq(Message)
  <1>1. \A p \in DOMAIN StubsFor(msgs, elide) : StubsFor(msgs, elide)[p] \in Content
    BY ContentTypes DEF StubsFor
  <1>2. QED
    BY <1>1, ReplaceTyped

\* Every possible elision works on a typed copy of the request with every item
\* in place, and elides only items of the request that carry a call id.
LEMMA ElisionTyped ==
  ASSUME NEW msgs \in Seq(Message), NEW e \in Elisions(msgs)
  PROVE  /\ e.work \in Seq(Message)
         /\ \A p \in Items(msgs) : IdAt(e.work, p) = IdAt(msgs, p)
         /\ \A p \in e.elide : /\ p \in Items(msgs)
                              /\ IdAt(e.work, p) \in CallId
                              /\ ContentAt(e.work, p) \in Content
  <1>1. PICK jev \in BOOLEAN :
          \E cold : \E S \in SUBSET Compressible(msgs, Evictable(msgs, TurnsKept(jev), TokensKept(jev)), jev, cold) :
            \E n \in [S -> SummaryTokens] :
              e = Elision(msgs, Evictable(msgs, TurnsKept(jev), TokensKept(jev)), jev, cold, S, n)
    BY DEF Elisions
  <1> DEFINE evict == Evictable(msgs, TurnsKept(jev), TokensKept(jev))
  <1>2. PICK cold : \E S \in SUBSET Compressible(msgs, evict, jev, cold) :
                      \E n \in [S -> SummaryTokens] : e = Elision(msgs, evict, jev, cold, S, n)
    BY <1>1
  <1>3. PICK S \in SUBSET Compressible(msgs, evict, jev, cold) :
               \E n \in [S -> SummaryTokens] : e = Elision(msgs, evict, jev, cold, S, n)
    BY <1>2
  <1>4. PICK n \in [S -> SummaryTokens] : e = Elision(msgs, evict, jev, cold, S, n)
    BY <1>3
  <1>5. evict \subseteq Items(msgs)
    BY EvictableAreItems
  <1>6. S \in SUBSET Items(msgs)
    BY <1>3, <1>5, HeavyAreItems DEF Compressible
  <1> DEFINE work == Compress(msgs, S, n)
  <1>7. e.work = work /\ e.elide = HeavyResults(work, evict, Heavy(jev), cold)
    BY <1>4 DEF Elision
  <1>8. /\ work \in Seq(Message)
        /\ \A p \in Items(msgs) : /\ IdAt(work, p) = IdAt(msgs, p)
                                  /\ ContentAt(work, p) \in Content
    BY <1>4, <1>6, CompressTyped
  <1>9. \A p \in e.elide : p \in Items(msgs) /\ IdAt(work, p) # NoCall
    BY <1>5, <1>7, HeavyAreItems
  <1>10. \A p \in Items(msgs) : IdAt(msgs, p) \in CallId \cup {NoCall}
    BY ItemTypes
  <1>11. QED
    BY <1>7, <1>8, <1>9, <1>10

\* What an interrupted write leaves is still a store.
LEMMA InterruptedTyped ==
  ASSUME TypeOK, NEW msgs \in Seq(Message), NEW st \in InterruptedWrites(msgs)
  PROVE  st \in [CallId -> Content]
  <1>1. PICK e \in Elisions(msgs) : \E p \in e.elide : st \in Interrupted(e.work, e.elide, p)
    BY DEF InterruptedWrites
  <1>2. PICK p \in e.elide : st \in Interrupted(e.work, e.elide, p)
    BY <1>1
  <1> DEFINE before == Persist(e.work, {q \in e.elide : Later(q, p)})
  <1>3. before \in [CallId -> Content]
    BY ElisionTyped, PersistTyped DEF TypeOK
  <1>4. [before EXCEPT ![IdAt(e.work, p)] = Torn] \in [CallId -> Content]
    BY <1>3, ContentTypes
  <1>5. QED
    BY <1>2, <1>3, <1>4 DEF Interrupted

\* The body sent upstream is a packet.
LEMMA OutboundTyped ==
  ASSUME NEW h \in Handler, NEW rew \in Packet
  PROVE  Outbound(h, rew) \in Packet
  BY DEF Outbound, Handler, HandlerState, Packet

(***************************************************************************)
(* Every variable keeps its type.                                          *)
(***************************************************************************)

LEMMA EmptyLists == <<>> \in Seq(Message) /\ NoPacket \in Packet /\ Idle \in Handler
  BY DEF NoPacket, Packet, Idle, Handler, HandlerState

LEMMA InitTyped == Init => TypeOK
  <1> SUFFICES ASSUME Init PROVE TypeOK
    OBVIOUS
  <1>1. Say("user") \in Message
    BY ContentTypes DEF Say, Message, Role
  <1>2. <<Say("user")>> \in Seq(Message)
    BY <1>1
  <1>3. QED
    BY <1>2, ContentTypes, EmptyLists DEF Init, TypeOK

\* Finishing a handler keeps the requests and the clients typed.
LEMMA FinishTyped ==
  ASSUME TypeOK, NEW r \in Req, Finish(r)
  PROVE  req' \in [Req -> Handler] /\ waiting' \in [Session -> Req \cup {NoReq}]
  BY EmptyLists DEF TypeOK, Finish

\* Appending typed messages to a conversation keeps the conversations typed.
LEMMA ExtendTyped ==
  ASSUME TypeOK, NEW r \in Req, NEW turns \in Seq(Message), Extend(r, turns)
  PROVE  /\ history' \in [Session -> Seq(Message)]
         /\ req' \in [Req -> Handler]
         /\ waiting' \in [Session -> Req \cup {NoReq}]
         /\ mode' = mode /\ store' = store
  <1>1. history' \in [Session -> Seq(Message)]
    BY ConcatProperties DEF Extend, TypeOK
  <1>2. QED
    BY <1>1, FinishTyped DEF Extend

\* Sending keeps the requests typed.
LEMMA SendTyped ==
  ASSUME TypeOK, NEW r \in Req, NEW rew \in Packet, Send(r, rew), req[r].pc # "idle"
  PROVE  TypeOK'
  <1>1. Outbound(req[r], rew) \in Packet
    BY OutboundTyped DEF TypeOK
  <1>2. [req[r] EXCEPT !.pc = "sent", !.rew = rew, !.wire = Outbound(req[r], rew)] \in Handler
    BY <1>1 DEF TypeOK, Handler, HandlerState
  <1>3. QED
    BY <1>2 DEF Send, TypeOK

\* A handler that sent a body works for a session.
LEMMA ClientTyped ==
  ASSUME TypeOK, NEW r \in Req, req[r].pc = "sent"
  PROVE  req[r].ses \in Session
  BY DEF TypeOK, Handler

\* Recording a rewrite keeps a handler typed.
LEMMA RewrittenTyped ==
  ASSUME NEW h \in Handler, NEW cut \in BOOLEAN, NEW rew \in Packet, h.pc # "idle"
  PROVE  [h EXCEPT !.pc = "rewritten", !.cut = cut, !.rew = rew] \in Handler
  BY DEF Handler, HandlerState

\* What the harness appends is typed.
LEMMA ResultTyped ==
  ASSUME NEW c \in CallId, NEW role \in Role, NEW content \in Content
  PROVE  ResultOf(c, role, content) \in Message
  BY DEF ResultOf, Message

LEMMA AskTyped ==
  ASSUME NEW m \in Nat, NEW targets, targets \subseteq CallId \cup {NoCall},
         NEW calls \in [1 .. m -> [id : CallId, target : targets]]
  PROVE  AskExpand(calls) \in Message
  <1> DEFINE ex == [k \in DOMAIN calls |->
                      [id |-> calls[k].id, target |-> calls[k].target, reply |-> None]]
  <1>1. ex \in [1 .. m -> Expand]
    BY ContentTypes DEF Expand
  <1>2. ex \in Seq(Expand)
    BY <1>1, FunctionIsSeq
  <1>3. QED
    BY <1>2, ContentTypes DEF AskExpand, Message, Role

\* The ids of the stubs in a body are call ids, or absent.
LEMMA StubIdsTyped ==
  ASSUME NEW msgs \in Seq(Message)
  PROVE  StubIds(msgs) \subseteq CallId \cup {NoCall}
  <1>1. \A p \in StubItems(msgs) : ContentAt(msgs, p) \in Content
    BY ItemTypes DEF StubItems
  <1>2. QED
    BY <1>1 DEF StubIds, Content

LEMMA NextTyped == TypeOK /\ [Next]_vars => TypeOK'
  <1> SUFFICES ASSUME TypeOK, [Next]_vars PROVE TypeOK'
    OBVIOUS
  <1>1. ASSUME NEW r \in Req, NEW s \in Session, Receive(r, s) PROVE TypeOK'
    <2>1. PICK flag \in Flags : req' = [req EXCEPT ![r] =
             [Idle EXCEPT !.pc = "received", !.ses = s, !.flag = flag,
                          !.raw = history[s], !.parsed = history[s]]]
      BY <1>1 DEF Receive
    <2>2. [Idle EXCEPT !.pc = "received", !.ses = s, !.flag = flag,
                       !.raw = history[s], !.parsed = history[s]] \in Handler
      BY EmptyLists DEF Idle, Handler, HandlerState, TypeOK
    <2>3. QED
      BY <1>1, <2>1, <2>2 DEF Receive, TypeOK
  <1>2. ASSUME NEW s \in Session, GiveUp(s) PROVE TypeOK'
    BY <1>2 DEF GiveUp, TypeOK
  <1>3. ASSUME NEW r \in Req, Answer(r) PROVE TypeOK'
    <2>1. AnswerExpandCalls(req[r].parsed) \in Seq(Message)
      BY AnswerTyped DEF TypeOK, Handler, HandlerState
    <2>2. [req[r] EXCEPT !.pc = "answered", !.parsed = AnswerExpandCalls(req[r].parsed)]
            \in Handler
      BY <1>3, <2>1 DEF Answer, TypeOK, Handler, HandlerState
    <2>3. QED
      BY <1>3, <2>2 DEF Answer, TypeOK
  <1>4. ASSUME NEW r \in Req, Rewrite(r) PROVE TypeOK'
    <2> DEFINE msgs == req[r].parsed
               Cut(pass)  == FilterMode = "enforce" /\ pass
               Rew(e, pass) == [msgs  |-> ReplaceItems(e.work, StubsFor(e.work, e.elide)),
                                tools |-> IF Cut(pass) THEN "cut" ELSE "all",
                                offer |-> OfferExpand(e.elide)]
               Done(e, pass) == [req[r] EXCEPT !.pc = "rewritten", !.cut = Cut(pass),
                                               !.rew = Rew(e, pass)]
    <2>1. PICK e \in Elisions(msgs), pass \in BOOLEAN :
            /\ store' = Persist(e.work, e.elide)
            /\ req' = [req EXCEPT ![r] = Done(e, pass)]
      BY <1>4 DEF Rewrite
    <2>2. msgs \in Seq(Message) /\ store \in [CallId -> Content]
      BY DEF TypeOK, Handler, HandlerState
    <2>3. /\ e.work \in Seq(Message)
          /\ \A p \in e.elide : IdAt(e.work, p) \in CallId /\ ContentAt(e.work, p) \in Content
      BY <2>2, ElisionTyped
    <2>4. Persist(e.work, e.elide) \in [CallId -> Content]
      BY <2>2, <2>3, PersistTyped
    <2>5. Rew(e, pass) \in Packet
      <3>1. ReplaceItems(e.work, StubsFor(e.work, e.elide)) \in Seq(Message)
        BY <2>3, StubsTyped
      <3>2. QED
        BY <3>1 DEF Packet, OfferExpand
    <2>6. Done(e, pass) \in Handler
      <3>1. req[r] \in Handler /\ req[r].pc # "idle" /\ Cut(pass) \in BOOLEAN
        BY <1>4 DEF Rewrite, TypeOK
      <3> HIDE DEF Cut, Rew
      <3>2. QED
        BY <2>5, <3>1, RewrittenTyped
    <2> HIDE DEF Done
    <2>7. QED
      BY <1>4, <2>1, <2>4, <2>6 DEF Rewrite, TypeOK
  <1>5. ASSUME NEW r \in Req, PersistFails(r) PROVE TypeOK'
    <2>1. store' \in [CallId -> Content]
      BY <1>5, InterruptedTyped DEF PersistFails, TypeOK, Handler, HandlerState
    <2>2. Outbound(req[r], NoPacket) \in Packet
      BY OutboundTyped, EmptyLists DEF TypeOK
    <2>3. [req[r] EXCEPT !.pc = "sent", !.wire = Outbound(req[r], NoPacket)] \in Handler
      BY <1>5, <2>2 DEF PersistFails, TypeOK, Handler, HandlerState
    <2>4. QED
      BY <1>5, <2>1, <2>3 DEF PersistFails, TypeOK
  <1>6. ASSUME NEW r \in Req, ForwardRewrite(r) PROVE TypeOK'
    <2>1. req[r].rew \in Packet
      BY DEF TypeOK, Handler, HandlerState
    <2>2. QED
      BY <1>6, <2>1, SendTyped DEF ForwardRewrite
  <1>7. ASSUME NEW r \in Req, DebugReply(r) PROVE TypeOK'
    BY <1>7, FinishTyped DEF DebugReply, TypeOK
  <1>8. ASSUME NEW r \in Req, ForwardFallback(r) PROVE TypeOK'
    BY <1>8, SendTyped, EmptyLists DEF ForwardFallback
  <1>9. ASSUME NEW r \in Req, Fail(r) PROVE TypeOK'
    BY <1>9, FinishTyped DEF Fail, TypeOK
  <1>10. ASSUME NEW r \in Req, FinalTurn(r) PROVE TypeOK'
    <2>1. Say("assistant") \in Message /\ Say("user") \in Message
      BY ContentTypes DEF Say, Message, Role
    <2>2. <<Say("assistant"), Say("user")>> \in Seq(Message)
      BY <2>1
    <2>3. QED
      BY <1>10, <2>2, ExtendTyped DEF FinalTurn, TypeOK
  <1>11. ASSUME NEW r \in Req, ToolTurn(r) PROVE TypeOK'
    <2> DEFINE s == req[r].ses
    <2>1. PICK c \in FreshIds(s), n \in ResultTokens, role \in ResultRoles :
            /\ Extend(r, <<Say("assistant"), ResultOf(c, role, Original(<<s, c>>, n))>>)
            /\ truth' = [truth EXCEPT ![s][c] = Original(<<s, c>>, n)]
      BY <1>11 DEF ToolTurn
    <2> DEFINE result == ResultOf(c, role, Original(<<s, c>>, n))
    <2>2. s \in Session
      BY <2>1, ClientTyped DEF Extend
    <2>3. c \in CallId /\ n \in Nat /\ role \in Role
      BY <2>1, ConfigAssumption DEF FreshIds, Role
    <2>4. <<s, c>> \in Body
      BY <2>2, <2>3 DEF Body
    <2>5. result \in Message
      BY <2>3, <2>4, ContentTypes, ResultTyped
    <2>6. Say("assistant") \in Message
      BY ContentTypes DEF Say, Message, Role
    <2>7. <<Say("assistant"), result>> \in Seq(Message)
      BY <2>5, <2>6
    <2>8. truth' \in [Session -> [CallId -> Content]]
      <3>1. Original(<<s, c>>, n) \in Content
        BY <2>3, <2>4, ContentTypes
      <3>2. QED
        BY <2>1, <2>2, <2>3, <3>1 DEF TypeOK
    <2>9. QED
      BY <2>1, <2>7, <2>8, ExtendTyped DEF TypeOK
  <1>12. ASSUME NEW r \in Req, ExpandTurn(r) PROVE TypeOK'
    <2> DEFINE s       == req[r].ses
               targets == StubIds(req[r].wire.msgs) \cup {NoCall}
               Own(calls, own) ==
                 IF own THEN [k \in DOMAIN calls |-> ResultOf(calls[k].id, "tool", Text)]
                 ELSE <<>>
               Truth(calls) == [truth EXCEPT ![s] = [c \in CallId |->
                 IF \E k \in DOMAIN calls : calls[k].id = c /\ calls[k].target # NoCall
                 THEN truth[s][calls[CHOOSE k \in DOMAIN calls : calls[k].id = c].target]
                 ELSE truth[s][c]]]
    <2>1. PICK calls \in UNION {[1 .. m -> [id : FreshIds(s), target : targets]] :
                               m \in 1 .. MaxExpands} :
            /\ \A j, k \in DOMAIN calls : calls[j].id = calls[k].id => j = k
            /\ \E own \in BOOLEAN : Extend(r, <<AskExpand(calls)>> \o Own(calls, own))
            /\ truth' = Truth(calls)
      BY <1>12, Zenon DEF ExpandTurn
    <2>2. PICK m \in 1 .. MaxExpands :
            calls \in [1 .. m -> [id : FreshIds(s), target : targets]]
      OBVIOUS
    <2>3. PICK own \in BOOLEAN : Extend(r, <<AskExpand(calls)>> \o Own(calls, own))
      BY <2>1
    <2>4. s \in Session
      BY <2>3, ClientTyped DEF Extend
    <2>5. targets \subseteq CallId \cup {NoCall}
      <3>1. req[r].wire.msgs \in Seq(Message)
        BY DEF TypeOK, Handler, HandlerState, Packet
      <3>2. QED
        BY <3>1, StubIdsTyped
    <2>6. calls \in [1 .. m -> [id : CallId, target : targets]] /\ m \in Nat
      <3>1. FreshIds(s) \subseteq CallId
        BY DEF FreshIds
      <3>2. m \in Nat
        BY ConfigAssumption
      <3>3. QED
        BY <2>2, <3>1, <3>2
    <2> HIDE DEF targets
    <2>7. <<AskExpand(calls)>> \in Seq(Message)
      <3>1. AskExpand(calls) \in Message
        BY <2>5, <2>6, AskTyped
      <3>2. QED
        BY <3>1
    <2>8. Own(calls, own) \in Seq(Message)
      <3>1. \A k \in 1 .. m : ResultOf(calls[k].id, "tool", Text) \in Message
        BY <2>6, ContentTypes, ResultTyped DEF Role
      <3>2. [k \in DOMAIN calls |-> ResultOf(calls[k].id, "tool", Text)] \in [1 .. m -> Message]
        BY <2>6, <3>1
      <3>3. [k \in DOMAIN calls |-> ResultOf(calls[k].id, "tool", Text)] \in Seq(Message)
        BY <2>6, <3>2, FunctionIsSeq
      <3>4. QED
        BY <3>3, EmptyLists
    <2>9. <<AskExpand(calls)>> \o Own(calls, own) \in Seq(Message)
      BY <2>7, <2>8, ConcatProperties
    <2>10. Truth(calls) \in [Session -> [CallId -> Content]]
      <3>1. ASSUME NEW c \in CallId,
                   \E k \in DOMAIN calls : calls[k].id = c /\ calls[k].target # NoCall
            PROVE  calls[CHOOSE k \in DOMAIN calls : calls[k].id = c].target \in CallId
        <4>1. PICK k \in DOMAIN calls : calls[k].id = c /\ calls[k].target # NoCall
          BY <3>1
        <4>2. (CHOOSE j \in DOMAIN calls : calls[j].id = c) = k
          BY <4>1, <2>1
        <4>3. calls[k].target \in CallId
          BY <4>1, <2>5, <2>6
        <4>4. QED
          BY <4>2, <4>3
      <3>2. truth \in [Session -> [CallId -> Content]]
        BY DEF TypeOK
      <3>3. \A c \in CallId : truth[s][c] \in Content
        BY <2>4, <3>2
      <3>4. [c \in CallId |->
               IF \E k \in DOMAIN calls : calls[k].id = c /\ calls[k].target # NoCall
               THEN truth[s][calls[CHOOSE k \in DOMAIN calls : calls[k].id = c].target]
               ELSE truth[s][c]] \in [CallId -> Content]
        BY <3>1, <3>3
      <3>5. QED
        BY <2>4, <3>2, <3>4
    <2>11. truth' \in [Session -> [CallId -> Content]]
      BY <2>1, <2>10
    <2> HIDE DEF Own, Truth
    <2>12. QED
      BY <2>3, <2>9, <2>11, ExtendTyped DEF TypeOK
  <1>13. ASSUME Restart, store' \in [CallId -> Content] PROVE TypeOK'
    BY <1>13, EmptyLists DEF Restart, TypeOK
  <1>14. ASSUME Crash PROVE TypeOK'
    BY <1>13, <1>14 DEF Crash, TypeOK
  <1>15. ASSUME NEW r \in Req, CrashInPersist(r) PROVE TypeOK'
    <2>1. req[r].parsed \in Seq(Message)
      BY DEF TypeOK, Handler, HandlerState
    <2>2. store' \in [CallId -> Content]
      BY <1>15, <2>1, InterruptedTyped DEF CrashInPersist
    <2>3. QED
      BY <1>13, <1>15, <2>2 DEF CrashInPersist
  <1>16. CASE UNCHANGED vars
    BY <1>16 DEF vars, TypeOK
  <1>17. QED
    BY <1>1, <1>2, <1>3, <1>4, <1>5, <1>6, <1>7, <1>8, <1>9, <1>10, <1>11, <1>12,
       <1>14, <1>15, <1>16 DEF Next

\* Type correctness: every reachable state of the proxy is well typed, for
\* every configuration.
THEOREM TypeCorrect == Spec => []TypeOK
  BY InitTyped, NextTyped, PTL DEF Spec

(***************************************************************************)
(* The verbatim window.  What is counted is finite; the rewrite replaces   *)
(* nothing but results outside the window.                                 *)
(***************************************************************************)

\* The values of a function on a finite set are finitely many.
LEMMA ImageFinite ==
  ASSUME NEW f, IsFiniteSet(DOMAIN f)
  PROVE  IsFiniteSet({f[x] : x \in DOMAIN f})
  <1> DEFINE T == {f[x] : x \in DOMAIN f}
             g == [x \in DOMAIN f |-> f[x]]
  <1>1. g \in Surjection(DOMAIN f, T)
    BY DEF Surjection
  <1>2. QED
    BY <1>1, FS_Surjection

\* ... and so are the pairs of one thing with numbers of a range.
Column(x, a, b) == {x} \X (a .. b)
LEMMA ColumnFinite ==
  ASSUME NEW x, NEW a \in Int, NEW b \in Int
  PROVE  IsFiniteSet(Column(x, a, b))
  <1>1. IsFiniteSet({x})
    BY FS_Singleton
  <1>2. IsFiniteSet(a .. b)
    BY FS_Interval
  <1> DEFINE D == {x}
             R == a .. b
  <1>3. IsFiniteSet(D) /\ IsFiniteSet(R)
    BY <1>1, <1>2
  <1> HIDE DEF D, R
  <1>4. IsFiniteSet(D \X R)
    BY <1>3, FS_Product
  <1>5. QED
    BY <1>4 DEF D, R, Column

\* A list has finitely many items.
LEMMA ItemsFinite ==
  ASSUME NEW msgs \in Seq(Message)
  PROVE  IsFiniteSet(Items(msgs))
  <1> DEFINE row == [i \in DOMAIN msgs |-> Column(i, 0, Len(msgs[i].expands))]
             rows == {row[i] : i \in DOMAIN row}
  <1>1. DOMAIN msgs = 1 .. Len(msgs) /\ Len(msgs) \in Nat
    BY LenProperties
  <1>2. IsFiniteSet(DOMAIN row)
    BY <1>1, FS_Interval
  <1>3. IsFiniteSet(rows)
    BY <1>2, ImageFinite
  <1>4. \A R \in rows : IsFiniteSet(R)
    <2> SUFFICES ASSUME NEW i \in DOMAIN msgs PROVE IsFiniteSet(Column(i, 0, Len(msgs[i].expands)))
      OBVIOUS
    <2>1. Len(msgs[i].expands) \in Int
      BY MessageAt, LenProperties
    <2>2. QED
      BY <2>1, ColumnFinite
  <1>5. IsFiniteSet(UNION rows)
    BY <1>3, <1>4, FS_UNION
  <1>6. Items(msgs) \subseteq UNION rows
    <2> SUFFICES ASSUME NEW p \in Items(msgs)
                 PROVE  \E i \in DOMAIN msgs : p \in {i} \X (0 .. Len(msgs[i].expands))
      BY DEF Column
    <2>1. CASE p \in {<<i, 0>> : i \in DOMAIN msgs}
      <3>1. PICK i \in DOMAIN msgs : p = <<i, 0>>
        BY <2>1
      <3>2. Len(msgs[i].expands) \in Nat
        BY MessageAt, LenProperties
      <3>3. QED
        BY <3>1, <3>2
    <2>2. CASE p \in Calls(msgs)
      <3>1. PICK i \in DOMAIN msgs : p \in {<<i, k>> : k \in DOMAIN msgs[i].expands}
        BY <2>2 DEF Calls
      <3>2. PICK k \in DOMAIN msgs[i].expands : p = <<i, k>>
        BY <3>1
      <3>3. k \in 0 .. Len(msgs[i].expands)
        BY MessageAt, LenProperties
      <3>4. QED
        BY <3>2, <3>3
    <2>3. QED
      BY <2>1, <2>2 DEF Items
  <1>7. QED
    BY <1>5, <1>6, FS_Subset

\* The two measures of the window are natural numbers.
LEMMA CountsTyped ==
  ASSUME NEW msgs \in Seq(Message), NEW S \in SUBSET Items(msgs)
  PROVE  IsFiniteSet(S) /\ Cardinality(S) \in Nat /\ Tokens(msgs, S) \in Nat
  <1>1. IsFiniteSet(S)
    BY ItemsFinite, FS_Subset
  <1> DEFINE part == [p \in S |-> Column(p, 1, ContentAt(msgs, p).tok)]
             parts == {part[p] : p \in DOMAIN part}
  <1>2. IsFiniteSet(parts)
    BY <1>1, ImageFinite
  <1>3. \A P \in parts : IsFiniteSet(P)
    <2> SUFFICES ASSUME NEW p \in S PROVE IsFiniteSet(Column(p, 1, ContentAt(msgs, p).tok))
      OBVIOUS
    <2>1. ContentAt(msgs, p).tok \in Int
      BY ItemTypes DEF Content
    <2>2. QED
      BY <2>1, ColumnFinite
  <1>4. IsFiniteSet(UNION parts)
    BY <1>2, <1>3, FS_UNION
  <1>5. UNION parts = UNION {{p} \X (1 .. ContentAt(msgs, p).tok) : p \in S}
    BY DEF Column
  <1>6. QED
    BY <1>1, <1>4, <1>5, FS_CardinalityType DEF Tokens

\* Item p of a request is a result outside the window, whatever the classifier said.
Outside(full, p) ==
  /\ p \in Items(full) /\ IdAt(full, p) # NoCall
  /\ ~ IsLastUser(full, p)
  /\ Cardinality(After(full, p)) >= Least(KeepTurns, JevTurnCap)
  /\ Tokens(full, After(full, p)) >= Least(KeepTokens, JevTokenCap)

\* Body out shows what request full holds, but for results outside the window.
Spares(full, out) ==
  /\ Len(out) = Len(full)
  /\ \A p \in Items(out) :
       \/ p \in Items(full) /\ ContentAt(out, p) = ContentAt(full, p)
       \/ Outside(full, p)

\* What is evictable is outside the window.
LEMMA EvictableOutside ==
  ASSUME NEW msgs \in Seq(Message), NEW jev \in BOOLEAN,
         NEW p \in Evictable(msgs, TurnsKept(jev), TokensKept(jev)), IdAt(msgs, p) # NoCall
  PROVE  Outside(msgs, p)
  <1>1. /\ p \in Items(msgs) /\ ~ IsLastUser(msgs, p)
        /\ ~ (Cardinality(After(msgs, p)) < TurnsKept(jev))
        /\ ~ (Tokens(msgs, After(msgs, p)) < TokensKept(jev))
    BY DEF Evictable, InTail
  <1>2. After(msgs, p) \in SUBSET Items(msgs)
    BY DEF After, NonSystem
  <1>3. Cardinality(After(msgs, p)) \in Nat /\ Tokens(msgs, After(msgs, p)) \in Nat
    BY <1>2, CountsTyped
  <1>4. /\ TurnsKept(jev) \in Nat /\ Least(KeepTurns, JevTurnCap) <= TurnsKept(jev)
        /\ TokensKept(jev) \in Nat /\ Least(KeepTokens, JevTokenCap) <= TokensKept(jev)
        /\ Least(KeepTurns, JevTurnCap) \in Nat /\ Least(KeepTokens, JevTokenCap) \in Nat
    BY ConfigAssumption DEF TurnsKept, TokensKept, Least
  <1>5. QED
    BY <1>1, <1>3, <1>4 DEF Outside

LEMMA RangeEnds ==
  ASSUME NEW a \in Nat, NEW b \in Nat, 1 .. a = 1 .. b
  PROVE  a = b
  <1>1. \A i \in Nat : i \in 1 .. a <=> i \in 1 .. b
    OBVIOUS
  <1>2. (a # 0 => a \in 1 .. b) /\ (b # 0 => b \in 1 .. a)
    BY <1>1
  <1>3. QED
    BY <1>2

\* Replacing items by contents neither adds an item nor takes one away.
LEMMA ReplaceKeepsItems ==
  ASSUME NEW msgs \in Seq(Message), NEW new, DOMAIN new \subseteq Items(msgs),
         \A p \in DOMAIN new : new[p].kind # "none"
  PROVE  /\ Items(ReplaceItems(msgs, new)) = Items(msgs)
         /\ Len(ReplaceItems(msgs, new)) = Len(msgs)
  <1> DEFINE out == ReplaceItems(msgs, new)
  <1>1. /\ DOMAIN out = DOMAIN msgs
        /\ \A i \in DOMAIN msgs :
             /\ DOMAIN out[i].expands = DOMAIN msgs[i].expands
             /\ \A k \in DOMAIN msgs[i].expands :
                  out[i].expands[k].reply = IF <<i, k>> \in DOMAIN new THEN new[<<i, k>>]
                                            ELSE msgs[i].expands[k].reply
    BY DEF ReplaceItems
  <1>2. Len(out) = Len(msgs)
    <2>1. DOMAIN msgs = 1 .. Len(msgs) /\ Len(msgs) \in Nat
      BY LenProperties
    <2>3. out \in [1 .. Len(msgs) -> {out[i] : i \in DOMAIN out}]
      BY <2>1 DEF ReplaceItems
    <2>4. out \in Seq({out[i] : i \in DOMAIN out})
      BY <2>1, <2>3, FunctionIsSeq
    <2>5. DOMAIN out = 1 .. Len(out) /\ Len(out) \in Nat
      BY <2>4, LenProperties
    <2>6. QED
      BY <1>1, <2>1, <2>5, RangeEnds
  <1>3. ASSUME NEW i \in DOMAIN msgs, NEW k \in DOMAIN msgs[i].expands
        PROVE  /\ <<i, k>>[1] = i /\ <<i, k>>[2] = k
               /\ (out[i].expands[k].reply.kind # "none" <=> msgs[i].expands[k].reply.kind # "none")
    <2>1. CASE <<i, k>> \in DOMAIN new
      <3>1. <<i, k>> \in Items(msgs) /\ out[i].expands[k].reply.kind # "none"
        BY <1>1, <2>1
      <3>2. k # 0
        BY MessageAt, LenProperties
      <3>3. msgs[i].expands[k].reply.kind # "none"
        BY <3>1, <3>2 DEF Items
      <3>4. QED
        BY <3>1, <3>3
    <2>2. CASE <<i, k>> \notin DOMAIN new
      BY <1>1, <2>2
    <2>3. QED
      BY <2>1, <2>2
  <1>4. Calls(out) = Calls(msgs)
    BY <1>1 DEF Calls
  <1>5. \A p \in Calls(msgs) : out[p[1]].expands[p[2]].reply.kind # "none"
                                <=> msgs[p[1]].expands[p[2]].reply.kind # "none"
    <2> SUFFICES ASSUME NEW p \in Calls(msgs)
                 PROVE  out[p[1]].expands[p[2]].reply.kind # "none"
                         <=> msgs[p[1]].expands[p[2]].reply.kind # "none"
      OBVIOUS
    <2>1. PICK i \in DOMAIN msgs : p \in {<<i, k>> : k \in DOMAIN msgs[i].expands}
      BY DEF Calls
    <2>2. PICK k \in DOMAIN msgs[i].expands : p = <<i, k>>
      BY <2>1
    <2>3. QED
      BY <1>3, <2>2
  <1> HIDE DEF out
  <1>6. QED
    BY <1>1, <1>2, <1>4, <1>5 DEF Items, out

\* A rewrite spares the window.
LEMMA ElisionSpares ==
  ASSUME NEW msgs \in Seq(Message), NEW e \in Elisions(msgs)
  PROVE  Spares(msgs, ReplaceItems(e.work, StubsFor(e.work, e.elide)))
  <1>1. PICK jev \in BOOLEAN :
          \E cold : \E S \in SUBSET Compressible(msgs, Evictable(msgs, TurnsKept(jev), TokensKept(jev)), jev, cold) :
            \E n \in [S -> SummaryTokens] :
              e = Elision(msgs, Evictable(msgs, TurnsKept(jev), TokensKept(jev)), jev, cold, S, n)
    BY DEF Elisions
  <1> DEFINE evict == Evictable(msgs, TurnsKept(jev), TokensKept(jev))
  <1>2. PICK cold : \E S \in SUBSET Compressible(msgs, evict, jev, cold) :
                      \E n \in [S -> SummaryTokens] : e = Elision(msgs, evict, jev, cold, S, n)
    BY <1>1
  <1>3. PICK S \in SUBSET Compressible(msgs, evict, jev, cold) :
               \E n \in [S -> SummaryTokens] : e = Elision(msgs, evict, jev, cold, S, n)
    BY <1>2
  <1>4. PICK n \in [S -> SummaryTokens] : e = Elision(msgs, evict, jev, cold, S, n)
    BY <1>3
  <1> DEFINE work   == Compress(msgs, S, n)
             elide  == HeavyResults(work, evict, Heavy(jev), cold)
             short  == [p \in S |-> Summary(ContentAt(msgs, p).body, n[p])]
             stubs  == StubsFor(work, elide)
  <1>5. e.work = work /\ e.elide = elide
    BY <1>4 DEF Elision
  <1>6. evict \subseteq Items(msgs)
    BY EvictableAreItems
  <1>7. S \subseteq evict /\ \A p \in S : IdAt(msgs, p) # NoCall
    BY <1>3, HeavyAreItems DEF Compressible
  <1>8. /\ work = ReplaceItems(msgs, short) /\ DOMAIN short = S
        /\ \A p \in S : short[p].kind # "none"
    BY DEF Compress, Summary
  <1>9. \A p \in DOMAIN short : short[p] \in Content
    <2> SUFFICES ASSUME NEW p \in S PROVE short[p] \in Content
      OBVIOUS
    <2>1. ContentAt(msgs, p) \in Content
      BY <1>6, <1>7, ItemTypes
    <2>2. n[p] \in Nat
      BY ConfigAssumption
    <2>3. QED
      BY <2>1, <2>2, ContentTypes DEF Content
  <1>10. S \in SUBSET Items(msgs)
    BY <1>6, <1>7
  <1>11. work \in Seq(Message)
    BY <1>10, CompressTyped
  <1>12. elide \subseteq evict /\ \A p \in elide : IdAt(work, p) # NoCall
    BY HeavyAreItems
  <1>13. DOMAIN stubs = elide /\ \A p \in elide : stubs[p] = Stub(IdAt(work, p)) /\ stubs[p].kind # "none"
    BY DEF StubsFor, Stub
  <1> HIDE DEF short, stubs, elide, work, evict
  <1>14. Items(work) = Items(msgs) /\ Len(work) = Len(msgs)
    BY <1>8, <1>10, ReplaceKeepsItems
  <1>15. \A p \in Items(msgs) :
           /\ IdAt(work, p) = IdAt(msgs, p)
           /\ ContentAt(work, p) = IF p \in S THEN short[p] ELSE ContentAt(msgs, p)
    BY <1>8, <1>9, ReplaceReads
  <1>16. \A p \in DOMAIN stubs : stubs[p] \in Content
    <2> SUFFICES ASSUME NEW p \in elide PROVE Stub(IdAt(work, p)) \in Content
      BY <1>13
    <2>1. IdAt(work, p) \in CallId \cup {NoCall}
      BY <1>6, <1>11, <1>12, <1>14, ItemTypes
    <2>2. QED
      BY <2>1, ContentTypes
  <1> DEFINE out == ReplaceItems(work, stubs)
  <1>17. Items(out) = Items(msgs) /\ Len(out) = Len(msgs)
    <2>1. DOMAIN stubs \subseteq Items(work) /\ \A p \in DOMAIN stubs : stubs[p].kind # "none"
      BY <1>6, <1>12, <1>13, <1>14
    <2>2. QED
      BY <1>11, <1>14, <2>1, ReplaceKeepsItems
  <1>18. \A p \in Items(msgs) :
           ContentAt(out, p) = IF p \in elide THEN stubs[p] ELSE ContentAt(work, p)
    BY <1>11, <1>13, <1>14, <1>16, ReplaceReads
  <1>19. ASSUME NEW p \in Items(msgs), p \in elide \cup S
         PROVE  Outside(msgs, p)
    <2>1. p \in evict /\ IdAt(msgs, p) # NoCall
      BY <1>7, <1>12, <1>15, <1>19
    <2>2. QED
      BY <2>1, EvictableOutside DEF evict
  <1> HIDE DEF out
  <1>20. Spares(msgs, out)
    BY <1>15, <1>17, <1>18, <1>19 DEF Spares
  <1>21. QED
    BY <1>5, <1>20 DEF out, stubs

\* The window as a handler holds it, from the request to the body it sends.
HandlerSpares(h) ==
  h.pc # "idle" =>
    /\ Len(h.parsed) = Len(h.raw)
    /\ h.pc \in {"received", "answered"} => h.rew = NoPacket
    /\ h.rew # NoPacket => Spares(h.parsed, h.rew.msgs)
    /\ h.pc = "sent" => Spares(h.parsed, h.wire.msgs)
WindowInv == TypeOK /\ \A r \in Req : HandlerSpares(req[r])

LEMMA SparesItself ==
  ASSUME NEW msgs
  PROVE  Spares(msgs, msgs)
  BY DEF Spares

\* One handler moves.
LEMMA OneSpares ==
  ASSUME WindowInv, TypeOK', NEW r \in Req, NEW h, req' = [req EXCEPT ![r] = h], HandlerSpares(h)
  PROVE  WindowInv'
  <1>1. \A q \in Req : req'[q] = IF q = r THEN h ELSE req[q]
    BY DEF WindowInv, TypeOK
  <1>2. \A q \in Req : HandlerSpares(req'[q])
    BY <1>1 DEF WindowInv
  <1>3. QED
    BY <1>2 DEF WindowInv

LEMMA FinishSpares ==
  ASSUME WindowInv, TypeOK', NEW r \in Req, Finish(r)
  PROVE  WindowInv'
  BY OneSpares DEF Finish, HandlerSpares, Idle

\* The body that goes out is the rewrite or the request.
LEMMA SendSpares ==
  ASSUME WindowInv, TypeOK', NEW r \in Req, req[r].pc # "idle", NEW rew,
         rew # NoPacket => Spares(req[r].parsed, rew.msgs), NEW rew2 \in {rew, NoPacket},
         req' = [req EXCEPT ![r] = [@ EXCEPT !.pc = "sent", !.rew = rew2,
                                             !.wire = Outbound(req[r], rew)]]
  PROVE  WindowInv'
  <1> DEFINE h == [req[r] EXCEPT !.pc = "sent", !.rew = rew2, !.wire = Outbound(req[r], rew)]
  <1>1. req[r] \in HandlerState
    BY DEF WindowInv, TypeOK, Handler
  <1>2. /\ h.pc = "sent" /\ h.rew = rew2 /\ h.wire = Outbound(req[r], rew)
        /\ h.parsed = req[r].parsed /\ h.raw = req[r].raw
    BY <1>1 DEF HandlerState
  <1>3. Len(req[r].parsed) = Len(req[r].raw)
    BY DEF WindowInv, HandlerSpares
  <1>4. Spares(req[r].parsed, Outbound(req[r], rew).msgs)
    BY SparesItself DEF Outbound
  <1>5. req' = [req EXCEPT ![r] = h]
    OBVIOUS
  <1> HIDE DEF h
  <1>6. HandlerSpares(h)
    BY <1>2, <1>3, <1>4 DEF HandlerSpares
  <1>7. QED
    BY <1>5, <1>6, OneSpares

\* The replies spliced in change no message list's length.
LEMMA AnswerLength ==
  ASSUME NEW msgs \in Seq(Message), store \in [CallId -> Content]
  PROVE  Len(AnswerExpandCalls(msgs)) = Len(msgs)
  <1> DEFINE out == AnswerExpandCalls(msgs)
  <1>1. DOMAIN out = DOMAIN msgs
    BY DEF AnswerExpandCalls, ReplaceItems
  <1>2. out \in Seq(Message)
    BY AnswerTyped
  <1> HIDE DEF out
  <1>3. /\ DOMAIN out = 1 .. Len(out) /\ Len(out) \in Nat
        /\ DOMAIN msgs = 1 .. Len(msgs) /\ Len(msgs) \in Nat
    BY <1>2, LenProperties
  <1>4. Len(out) = Len(msgs)
    BY <1>1, <1>3, RangeEnds
  <1>5. QED
    BY <1>4 DEF out

\* Every step keeps the window.
LEMMA WindowStep == WindowInv /\ [Next]_vars => WindowInv'
  <1> SUFFICES ASSUME WindowInv, [Next]_vars PROVE WindowInv'
    OBVIOUS
  <1>0. TypeOK /\ TypeOK'
    BY NextTyped DEF WindowInv
  <1>1. ASSUME NEW r \in Req, NEW s \in Session, Receive(r, s) PROVE WindowInv'
    <2>1. PICK flag \in Flags : req' = [req EXCEPT ![r] =
             [Idle EXCEPT !.pc = "received", !.ses = s, !.flag = flag,
                          !.raw = history[s], !.parsed = history[s]]]
      BY <1>1 DEF Receive
    <2>2. HandlerSpares([Idle EXCEPT !.pc = "received", !.ses = s, !.flag = flag,
                                     !.raw = history[s], !.parsed = history[s]])
      BY DEF HandlerSpares, Idle
    <2>3. QED
      BY <1>0, <2>1, <2>2, OneSpares
  <1>2. ASSUME NEW s \in Session, GiveUp(s) PROVE WindowInv'
    BY <1>0, <1>2 DEF GiveUp, WindowInv
  <1>3. ASSUME NEW r \in Req, Answer(r) PROVE WindowInv'
    <2> DEFINE h == [req[r] EXCEPT !.pc = "answered", !.parsed = AnswerExpandCalls(req[r].parsed)]
    <2>1. req[r] \in HandlerState /\ req[r].parsed \in Seq(Message) /\ store \in [CallId -> Content]
      BY <1>0 DEF TypeOK, Handler, HandlerState
    <2>2. /\ h.pc = "answered" /\ h.parsed = AnswerExpandCalls(req[r].parsed)
          /\ h.raw = req[r].raw /\ h.rew = req[r].rew
      BY <2>1 DEF HandlerState
    <2>3. Len(req[r].parsed) = Len(req[r].raw) /\ req[r].rew = NoPacket
      BY <1>3 DEF Answer, WindowInv, HandlerSpares
    <2>4. req' = [req EXCEPT ![r] = h]
      BY <1>3 DEF Answer
    <2> HIDE DEF h
    <2>5. HandlerSpares(h)
      BY <2>1, <2>2, <2>3, AnswerLength DEF HandlerSpares
    <2>6. QED
      BY <1>0, <2>4, <2>5, OneSpares
  <1>4. ASSUME NEW r \in Req, Rewrite(r) PROVE WindowInv'
    <2> DEFINE msgs == req[r].parsed
               Cut(pass)  == FilterMode = "enforce" /\ pass
               Rew(e, pass) == [msgs  |-> ReplaceItems(e.work, StubsFor(e.work, e.elide)),
                                tools |-> IF Cut(pass) THEN "cut" ELSE "all",
                                offer |-> OfferExpand(e.elide)]
               Done(e, pass) == [req[r] EXCEPT !.pc = "rewritten", !.cut = Cut(pass),
                                               !.rew = Rew(e, pass)]
    <2>1. PICK e \in Elisions(msgs), pass \in BOOLEAN :
            /\ store' = Persist(e.work, e.elide)
            /\ req' = [req EXCEPT ![r] = Done(e, pass)]
      BY <1>4 DEF Rewrite
    <2>2. req[r] \in HandlerState /\ msgs \in Seq(Message)
      BY <1>0 DEF TypeOK, Handler, HandlerState
    <2>3. Spares(msgs, Rew(e, pass).msgs)
      BY <2>2, ElisionSpares
    <2>4. Len(msgs) = Len(req[r].raw)
      BY <1>4 DEF Rewrite, WindowInv, HandlerSpares
    <2> HIDE DEF Rew, Cut
    <2>5. /\ Done(e, pass).pc = "rewritten" /\ Done(e, pass).rew = Rew(e, pass)
          /\ Done(e, pass).parsed = msgs /\ Done(e, pass).raw = req[r].raw
      BY <2>2 DEF HandlerState
    <2> HIDE DEF Done, msgs
    <2>6. HandlerSpares(Done(e, pass))
      BY <2>3, <2>4, <2>5 DEF HandlerSpares
    <2>7. QED
      BY <1>0, <2>1, <2>6, OneSpares
  <1>5. ASSUME NEW r \in Req, PersistFails(r) PROVE WindowInv'
    <2>1. req[r].pc = "answered" /\ req[r].rew = NoPacket /\ req[r] \in HandlerState
      BY <1>0, <1>5 DEF PersistFails, WindowInv, HandlerSpares, TypeOK, Handler
    <2>2. [req[r] EXCEPT !.pc = "sent", !.wire = Outbound(req[r], NoPacket)]
            = [req[r] EXCEPT !.pc = "sent", !.rew = NoPacket, !.wire = Outbound(req[r], NoPacket)]
      BY <2>1 DEF HandlerState
    <2>3. req' = [req EXCEPT ![r] = [@ EXCEPT !.pc = "sent", !.rew = NoPacket,
                                              !.wire = Outbound(req[r], NoPacket)]]
      BY <1>5, <2>2 DEF PersistFails
    <2>4. QED
      BY <1>0, <2>1, <2>3, SendSpares
  <1>6. ASSUME NEW r \in Req, ForwardRewrite(r) PROVE WindowInv'
    <2>1. req[r].pc # "idle" /\ (req[r].rew # NoPacket => Spares(req[r].parsed, req[r].rew.msgs))
      BY <1>6 DEF ForwardRewrite, WindowInv, HandlerSpares
    <2>2. QED
      BY <1>0, <1>6, <2>1, SendSpares DEF ForwardRewrite, Send
  <1>7. ASSUME NEW r \in Req, DebugReply(r) PROVE WindowInv'
    BY <1>0, <1>7, FinishSpares DEF DebugReply
  <1>8. ASSUME NEW r \in Req, ForwardFallback(r) PROVE WindowInv'
    <2>1. req[r].pc # "idle"
      BY <1>8 DEF ForwardFallback
    <2>2. QED
      BY <1>0, <1>8, <2>1, SendSpares DEF ForwardFallback, Send
  <1>9. ASSUME NEW r \in Req, Fail(r) PROVE WindowInv'
    BY <1>0, <1>9, FinishSpares DEF Fail
  <1>10. ASSUME NEW r \in Req, NEW turns, Extend(r, turns) PROVE WindowInv'
    BY <1>0, <1>10, FinishSpares DEF Extend
  <1>11. ASSUME Restart PROVE WindowInv'
    BY <1>0, <1>11 DEF Restart, WindowInv, HandlerSpares, Idle
  <1>12. ASSUME NEW r \in Req, FinalTurn(r) PROVE WindowInv'
    BY <1>10, <1>12 DEF FinalTurn
  <1>13. ASSUME NEW r \in Req, ToolTurn(r) PROVE WindowInv'
    BY <1>10, <1>13 DEF ToolTurn
  <1>14. ASSUME NEW r \in Req, ExpandTurn(r) PROVE WindowInv'
    BY <1>10, <1>14 DEF ExpandTurn
  <1>15. CASE UNCHANGED vars
    BY <1>0, <1>15 DEF vars, WindowInv
  <1>16. QED
    BY <1>1, <1>2, <1>3, <1>4, <1>5, <1>6, <1>7, <1>8, <1>9, <1>11, <1>12, <1>13, <1>14, <1>15
    DEF Next, Crash, CrashInPersist

LEMMA WindowSpared == WindowInv => WindowUntouched
  <1> SUFFICES ASSUME WindowInv, NEW r \in Sent
               PROVE  LET sentMsgs == req[r].wire.msgs
                          full     == req[r].parsed IN
                      /\ Len(sentMsgs) = Len(req[r].raw)
                      /\ \A p \in Items(sentMsgs) :
                           \/ ContentAt(sentMsgs, p) = ContentAt(full, p)
                           \/ /\ IdAt(full, p) # NoCall
                              /\ ~ IsLastUser(full, p)
                              /\ Cardinality(After(full, p)) >= Least(KeepTurns, JevTurnCap)
                              /\ Tokens(full, After(full, p)) >= Least(KeepTokens, JevTokenCap)
    BY DEF WindowUntouched
  <1>1. r \in Req /\ req[r].pc = "sent"
    BY DEF Sent
  <1>2. Len(req[r].parsed) = Len(req[r].raw) /\ Spares(req[r].parsed, req[r].wire.msgs)
    BY <1>1 DEF WindowInv, HandlerSpares
  <1>3. QED
    BY <1>2 DEF Spares, Outside

\* The verbatim window reaches the upstream as the client sent it, for any sizes,
\* thresholds and caps, in every mode and whatever fails (tier1.js:16,
\* verbatim.js:5-9).
THEOREM WindowStaysUntouched == Spec => []WindowUntouched
  <1>1. Init => WindowInv
    BY InitTyped DEF Init, WindowInv, HandlerSpares, Idle
  <1>2. QED
    BY <1>1, WindowStep, WindowSpared, PTL DEF Spec
=============================================================================
