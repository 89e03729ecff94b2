------------------------- MODULE CompactProxyGenuine -------------------------
(***************************************************************************)
(* The inductive invariant of the compaction proxy, and what its           *)
(* operations do to genuine message lists and stores: the lemmas of        *)
(* CompactProxySafety.                                                     *)
(*                                                                         *)
(* The store has no key but the call id, and applyTier1 stores whatever is *)
(* heavy; hence the two hypotheses UniqueIds and LightSummaries.           *)
(***************************************************************************)
EXTENDS CompactProxyProofs

\* No two conversations use the same tool_call_id.
UniqueIds      == GlobalIds = TRUE
\* No envelope of the summarizer stages is long enough to be elided itself.
LightSummaries == \A n \in SummaryTokens : n < MinTokens /\ n < JevMinCap

(***************************************************************************)
(* The invariant.  Its parts take the state they speak of as arguments     *)
(* (H: history, T: truth, S: store), so that lemmas can compare two states.*)
(***************************************************************************)

Received == {"text", "orig", "error"}
Worked   == Received \cup {"summary"}
Shown    == Worked \cup {"stub"}

\* Content x may stand where call id c is answered: a result is the one c
\* stands for, and nothing else is heavy enough to be elided.
Stands(tr, c, x) ==
  /\ x.kind \in {"text", "error", "stub"} => x.tok = 1
  /\ x.kind = "orig" => c # NoCall /\ x = tr[c]
  /\ x.kind = "stub" => c # NoCall /\ x = Stub(c)
  /\ x.kind = "summary" => /\ c # NoCall /\ x.body = tr[c].body
                           /\ x.tok < MinTokens /\ x.tok < JevMinCap

\* An expand call asks for something stored, or for a made-up id, and its reply
\* is what its own id stands for.  ids: the ids of the conversation, tr: what
\* they stand for, live: the ids that have a file.
GoodCall(ids, tr, live, e, kinds) ==
  /\ e.id \in ids
  /\ e.target # NoCall => e.target \in ids /\ e.target \in live /\ tr[e.id] = tr[e.target]
  /\ e.reply.kind # "none" =>
       /\ e.reply.kind \in kinds \ {"text"}
       /\ e.reply.kind = "error" <=> e.target = NoCall
       /\ Stands(tr, e.id, e.reply)

GoodMessage(ids, tr, live, m, kinds) ==
  /\ m.id \in ids \cup {NoCall}
  /\ m.content.kind \in kinds \ {"error"}
  /\ Stands(tr, m.id, m.content)
  /\ \A k \in DOMAIN m.expands : GoodCall(ids, tr, live, m.expands[k], kinds)

GoodList(ids, tr, live, msgs, kinds) ==
  \A i \in DOMAIN msgs : GoodMessage(ids, tr, live, msgs[i], kinds)

\* No call has a reply yet; a call has no reply beside the harness's own.
Bare(msgs) ==
  \A i \in DOMAIN msgs : \A k \in DOMAIN msgs[i].expands : msgs[i].expands[k].reply.kind = "none"
OnceAnswered(msgs) ==
  \A i \in DOMAIN msgs : \A k \in DOMAIN msgs[i].expands :
    msgs[i].expands[k].reply.kind # "none" => msgs[i].expands[k].id \notin AnsweredIds(msgs)

SameContents(msgs, full) ==
  DOMAIN msgs = DOMAIN full /\ \A i \in DOMAIN msgs : msgs[i].content = full[i].content

Live(S)             == {c \in CallId : S[c].kind # "none"}
Rehydratable(S, c)  == S[c].kind = "orig" \/ (DiskFaults /\ S[c].kind = "torn")
GoodFor(H, T, S, s, msgs, kinds) == GoodList(IdsOf(H[s]), T[s], Live(S), msgs, kinds)

\* Every file is torn or holds what its id stands for, in every conversation
\* that has the id.
StoreGenuine(H, T, S) ==
  \A c \in CallId :
    /\ S[c].kind \in {"none", "torn", "orig"}
    /\ S[c].kind # "none" => \E s \in Session : c \in IdsOf(H[s])
    /\ \A s \in Session : c \in IdsOf(H[s]) /\ S[c].kind = "orig" => S[c] = T[s][c]

IdsDisjoint(H) == \A s, t \in Session : IdsOf(H[s]) \cap IdsOf(H[t]) # {} => s = t

HistoryGood(H, T, S) ==
  \A s \in Session : GoodFor(H, T, S, s, H[s], Received) /\ Bare(H[s])

\* A body that may be shown to the model in session s.
PacketGood(H, T, S, s, pk) ==
  /\ GoodFor(H, T, S, s, pk.msgs, Shown)
  /\ OnceAnswered(pk.msgs)
  /\ \A c \in StubIds(pk.msgs) : pk.offer /\ Rehydratable(S, c)

\* What a handler holds at each of its stations.
RequestGood(H, T, S, h) ==
  h.pc # "idle" =>
    /\ GoodFor(H, T, S, h.ses, h.raw, Received) /\ Bare(h.raw)
    /\ GoodFor(H, T, S, h.ses, h.parsed, Received) /\ OnceAnswered(h.parsed)
    /\ SameContents(h.parsed, h.raw)
    /\ h.pc = "received" => h.parsed = h.raw
    /\ h.flag = "off" => h.pc \in {"received", "sent"}
OutcomeGood(H, T, S, h) ==
  /\ h.pc = "rewritten" => PacketGood(H, T, S, h.ses, h.rew)
  /\ h.pc = "sent" => PacketGood(H, T, S, h.ses, h.wire)
ModeKept(m, h) ==
  h.pc = "sent" =>
    /\ m # "enforce" => h.wire.msgs \in {h.parsed, h.raw} /\ ~ h.wire.offer
    /\ h.flag = "off" => h.wire.msgs = h.raw /\ h.wire.tools = "all"
HandlerGood(H, T, S, m, h) ==
  RequestGood(H, T, S, h) /\ OutcomeGood(H, T, S, h) /\ ModeKept(m, h)

Genuine ==
  /\ TypeOK
  /\ StoreGenuine(history, truth, store)
  /\ IdsDisjoint(history)
  /\ HistoryGood(history, truth, store)
  /\ \A r \in Req : HandlerGood(history, truth, store, mode, req[r])

(***************************************************************************)
(* Lemmas about genuine lists.                                             *)
(***************************************************************************)

\* A list stays genuine when the conversation grows and files are added.
LEMMA GoodGrows ==
  ASSUME NEW ids, NEW tr, NEW live, NEW ids2, NEW tr2, NEW live2, NEW msgs, NEW kinds,
         GoodList(ids, tr, live, msgs, kinds),
         ids \subseteq ids2, live \subseteq live2, NoCall \notin ids,
         \A c \in ids : tr2[c] = tr[c]
  PROVE  GoodList(ids2, tr2, live2, msgs, kinds)
  <1>1. ASSUME NEW c \in ids \cup {NoCall}, NEW x, Stands(tr, c, x)
        PROVE  Stands(tr2, c, x)
    BY <1>1 DEF Stands
  <1>2. ASSUME NEW e, GoodCall(ids, tr, live, e, kinds)
        PROVE  GoodCall(ids2, tr2, live2, e, kinds)
    BY <1>1, <1>2 DEF GoodCall
  <1>3. ASSUME NEW m, GoodMessage(ids, tr, live, m, kinds)
        PROVE  GoodMessage(ids2, tr2, live2, m, kinds)
    BY <1>1, <1>2, <1>3 DEF GoodMessage
  <1>4. QED
    BY <1>3 DEF GoodList

\* A list stays genuine when more kinds of contents are allowed.
LEMMA GoodWidens ==
  ASSUME NEW ids, NEW tr, NEW live, NEW msgs, NEW kinds, NEW more,
         GoodList(ids, tr, live, msgs, kinds), kinds \subseteq more
  PROVE  GoodList(ids, tr, live, msgs, more)
  BY DEF GoodList, GoodMessage, GoodCall

\* A concatenation holds nothing but the messages of its parts.
LEMMA ConcatAt ==
  ASSUME NEW a \in Seq(Message), NEW b \in Seq(Message), NEW i \in DOMAIN (a \o b)
  PROVE  (a \o b)[i] \in {a[j] : j \in DOMAIN a} \cup {b[j] : j \in DOMAIN b}
  BY ConcatProperties, LenProperties

\* Genuine lists concatenate to a genuine list.
LEMMA GoodConcat ==
  ASSUME NEW ids, NEW tr, NEW live, NEW kinds, NEW a \in Seq(Message), NEW b \in Seq(Message),
         GoodList(ids, tr, live, a, kinds), GoodList(ids, tr, live, b, kinds)
  PROVE  GoodList(ids, tr, live, a \o b, kinds)
  BY ConcatAt DEF GoodList

\* Lists without replies concatenate to one without replies.
LEMMA BareConcat ==
  ASSUME NEW a \in Seq(Message), NEW b \in Seq(Message), Bare(a), Bare(b)
  PROVE  Bare(a \o b)
  BY ConcatAt DEF Bare

\* What is found at an item of a genuine list.
LEMMA ReadGood ==
  ASSUME NEW ids, NEW tr, NEW live, NEW kinds, NEW msgs \in Seq(Message),
         GoodList(ids, tr, live, msgs, kinds), NEW p \in Items(msgs)
  PROVE  /\ IdAt(msgs, p) \in ids \cup {NoCall}
         /\ ContentAt(msgs, p).kind \in kinds
         /\ Stands(tr, IdAt(msgs, p), ContentAt(msgs, p))
  <1>1. CASE p \in {<<i, 0>> : i \in DOMAIN msgs}
    BY <1>1 DEF GoodList, GoodMessage, ContentAt, IdAt
  <1>2. CASE p \in Calls(msgs) /\ msgs[p[1]].expands[p[2]].reply.kind # "none"
    <2>1. PICK i \in DOMAIN msgs : \E k \in DOMAIN msgs[i].expands : p = <<i, k>>
      BY <1>2 DEF Calls
    <2>2. PICK k \in DOMAIN msgs[i].expands : p = <<i, k>>
      BY <2>1
    <2>3. k # 0
      BY MessageAt, LenProperties
    <2>4. GoodCall(ids, tr, live, msgs[i].expands[k], kinds)
      BY DEF GoodList, GoodMessage
    <2>5. QED
      BY <1>2, <2>2, <2>3, <2>4 DEF GoodCall, ContentAt, IdAt
  <1>3. QED
    BY <1>1, <1>2 DEF Items

\* Replacing genuine results by stubs or summaries of them.
LEMMA ReplaceGood ==
  ASSUME NEW ids, NEW tr, NEW live, NEW kinds, NEW more, NEW msgs \in Seq(Message), NEW new,
         GoodList(ids, tr, live, msgs, kinds), kinds \subseteq more,
         \A p \in DOMAIN new : /\ ContentAt(msgs, p).kind = "orig"
                               /\ new[p].kind \in {"summary", "stub"} \cap more
                               /\ Stands(tr, IdAt(msgs, p), new[p])
  PROVE  GoodList(ids, tr, live, ReplaceItems(msgs, new), more)
  <1> DEFINE out == ReplaceItems(msgs, new)
  <1>1. ASSUME NEW i \in DOMAIN msgs
        PROVE  GoodMessage(ids, tr, live, out[i], more)
    <2>1. GoodMessage(ids, tr, live, msgs[i], kinds)
      BY DEF GoodList
    <2>2. /\ out[i].id = msgs[i].id /\ DOMAIN out[i].expands = DOMAIN msgs[i].expands
          /\ out[i].content =
               IF <<i, 0>> \in DOMAIN new THEN new[<<i, 0>>] ELSE msgs[i].content
      BY DEF ReplaceItems
    <2>3. ContentAt(msgs, <<i, 0>>) = msgs[i].content /\ IdAt(msgs, <<i, 0>>) = msgs[i].id
      BY DEF ContentAt, IdAt
    <2>4. out[i].content.kind \in more \ {"error"} /\ Stands(tr, out[i].id, out[i].content)
      BY <2>1, <2>2, <2>3 DEF GoodMessage
    <2>5. ASSUME NEW k \in DOMAIN msgs[i].expands
          PROVE  GoodCall(ids, tr, live, out[i].expands[k], more)
      <3> DEFINE e == msgs[i].expands[k]
      <3>1. /\ out[i].expands[k].id = e.id /\ out[i].expands[k].target = e.target
            /\ out[i].expands[k].reply =
                 IF <<i, k>> \in DOMAIN new THEN new[<<i, k>>] ELSE e.reply
        BY DEF ReplaceItems
      <3>2. k # 0
        BY MessageAt, LenProperties
      <3>3. ContentAt(msgs, <<i, k>>) = e.reply /\ IdAt(msgs, <<i, k>>) = e.id
        BY <3>2 DEF ContentAt, IdAt
      <3>4. GoodCall(ids, tr, live, e, kinds)
        BY <2>1 DEF GoodMessage
      <3>5. CASE <<i, k>> \in DOMAIN new
        BY <3>1, <3>3, <3>4, <3>5 DEF GoodCall
      <3>6. CASE <<i, k>> \notin DOMAIN new
        BY <3>1, <3>4, <3>6 DEF GoodCall
      <3>7. QED
        BY <3>5, <3>6
    <2>6. QED
      BY <2>1, <2>2, <2>4, <2>5 DEF GoodMessage
  <1>2. DOMAIN out = DOMAIN msgs
    BY DEF ReplaceItems
  <1>3. QED
    BY <1>1, <1>2 DEF GoodList

\* Replacing contents that are there adds no second reply, and no item.
LEMMA ReplaceOnce ==
  ASSUME NEW msgs \in Seq(Message), NEW new, OnceAnswered(msgs), DOMAIN new \subseteq Items(msgs),
         \A p \in DOMAIN new : new[p].kind # "none"
  PROVE  /\ OnceAnswered(ReplaceItems(msgs, new))
         /\ Items(ReplaceItems(msgs, new)) = Items(msgs)
  <1> DEFINE out == ReplaceItems(msgs, new)
  <1>1. /\ DOMAIN out = DOMAIN msgs
        /\ \A i \in DOMAIN msgs :
             /\ out[i].id = msgs[i].id /\ out[i].role = msgs[i].role
             /\ DOMAIN out[i].expands = DOMAIN msgs[i].expands
             /\ \A k \in DOMAIN msgs[i].expands :
                  /\ out[i].expands[k].id = msgs[i].expands[k].id
                  /\ out[i].expands[k].reply = IF <<i, k>> \in DOMAIN new
                       THEN new[<<i, k>>] ELSE msgs[i].expands[k].reply
    BY DEF ReplaceItems
  <1> HIDE DEF out
  <1>2. AnsweredIds(out) = AnsweredIds(msgs)
    BY <1>1 DEF AnsweredIds
  <1>3. ASSUME NEW i \in DOMAIN msgs, NEW k \in DOMAIN msgs[i].expands
        PROVE  out[i].expands[k].reply.kind # "none" <=> msgs[i].expands[k].reply.kind # "none"
    <2>1. CASE <<i, k>> \notin DOMAIN new
      BY <1>1, <2>1
    <2>2. CASE <<i, k>> \in DOMAIN new
      <3>1. k # 0
        BY MessageAt, LenProperties
      <3>2. <<i, k>> \in Items(msgs)
        BY <2>2
      <3>3. msgs[i].expands[k].reply.kind # "none"
        BY <3>1, <3>2 DEF Items
      <3>4. QED
        BY <1>1, <2>2, <3>3
    <2>3. QED
      BY <2>1, <2>2
  <1>4. OnceAnswered(out)
    <2> SUFFICES ASSUME NEW i \in DOMAIN out, NEW k \in DOMAIN out[i].expands,
                        out[i].expands[k].reply.kind # "none"
                 PROVE  out[i].expands[k].id \notin AnsweredIds(out)
      BY DEF OnceAnswered
    <2>1. i \in DOMAIN msgs /\ k \in DOMAIN msgs[i].expands
      BY <1>1
    <2>2. msgs[i].expands[k].reply.kind # "none"
      BY <1>3, <2>1
    <2>3. msgs[i].expands[k].id \notin AnsweredIds(msgs)
      BY <2>1, <2>2 DEF OnceAnswered
    <2>4. out[i].expands[k].id = msgs[i].expands[k].id
      BY <1>1, <2>1
    <2>5. QED
      BY <1>2, <2>3, <2>4
  <1>5. Calls(out) = Calls(msgs)
    BY <1>1 DEF Calls
  <1>6. ASSUME NEW p \in Calls(msgs)
        PROVE  out[p[1]].expands[p[2]].reply.kind # "none" <=>
                 msgs[p[1]].expands[p[2]].reply.kind # "none"
    <2>1. PICK i \in DOMAIN msgs : \E k \in DOMAIN msgs[i].expands : p = <<i, k>>
      BY DEF Calls
    <2>2. PICK k \in DOMAIN msgs[i].expands : p = <<i, k>>
      BY <2>1
    <2>3. QED
      BY <1>3, <2>2
  <1>7. Items(out) = Items(msgs)
    BY <1>1, <1>5, <1>6 DEF Items
  <1>8. QED
    BY <1>4, <1>7 DEF out

(***************************************************************************)
(* The interception of expand calls.                                       *)
(***************************************************************************)

\* Answering the pending calls of a bare list from a genuine store gives a
\* genuine list with the same contents, each call answered once.
LEMMA AnswerGood ==
  ASSUME NEW ids \in SUBSET CallId, NEW tr, NEW msgs \in Seq(Message),
         GoodList(ids, tr, Live(store), msgs, Received), Bare(msgs),
         \A c \in ids : /\ store[c].kind \in {"none", "torn", "orig"}
                        /\ store[c].kind = "orig" => store[c] = tr[c]
  PROVE  LET out == AnswerExpandCalls(msgs) IN
         /\ GoodList(ids, tr, Live(store), out, Received)
         /\ OnceAnswered(out)
         /\ SameContents(out, msgs)
  <1> DEFINE reply == [p \in PendingExpands(msgs) |->
                         ExpandReply(msgs[p[1]].expands[p[2]])]
             out == ReplaceItems(msgs, reply)
  <1>1. OnceAnswered(msgs) /\ SameContents(msgs, msgs)
    BY DEF Bare, OnceAnswered, SameContents
  <1>2. CASE \E p \in DOMAIN reply : reply[p].kind = "torn"
    <2>1. AnswerExpandCalls(msgs) = msgs
      BY <1>2 DEF AnswerExpandCalls
    <2>2. QED
      BY <1>1, <2>1
  <1>3. CASE \A p \in DOMAIN reply : reply[p].kind # "torn"
    <2>1. AnswerExpandCalls(msgs) = out
      BY <1>3 DEF AnswerExpandCalls
    <2>2. /\ DOMAIN out = DOMAIN msgs
          /\ \A i \in DOMAIN msgs :
               /\ out[i].id = msgs[i].id /\ out[i].role = msgs[i].role
               /\ DOMAIN out[i].expands = DOMAIN msgs[i].expands
               /\ out[i].content = IF <<i, 0>> \in DOMAIN reply
                                   THEN reply[<<i, 0>>] ELSE msgs[i].content
               /\ \A k \in DOMAIN msgs[i].expands :
                    /\ out[i].expands[k].id = msgs[i].expands[k].id
                    /\ out[i].expands[k].target = msgs[i].expands[k].target
                    /\ out[i].expands[k].reply = IF <<i, k>> \in DOMAIN reply
                         THEN reply[<<i, k>>] ELSE msgs[i].expands[k].reply
      BY DEF ReplaceItems
    <2>3. ASSUME NEW p \in PendingExpands(msgs)
          PROVE  \E i \in DOMAIN msgs : \E k \in DOMAIN msgs[i].expands :
                   p = <<i, k>> /\ k # 0
      <3>1. PICK i \in DOMAIN msgs : \E k \in DOMAIN msgs[i].expands : p = <<i, k>>
        BY DEF PendingExpands, Calls
      <3>2. PICK k \in DOMAIN msgs[i].expands : p = <<i, k>>
        BY <3>1
      <3>3. k # 0
        BY MessageAt, LenProperties
      <3>4. QED
        BY <3>2, <3>3
    <2>4. \A i \in DOMAIN msgs : out[i].content = msgs[i].content
      BY <2>2, <2>3
    <2>5. ASSUME NEW i \in DOMAIN msgs, NEW k \in DOMAIN msgs[i].expands
          PROVE  /\ GoodCall(ids, tr, Live(store), out[i].expands[k], Received)
                 /\ out[i].expands[k].reply.kind # "none" =>
                      out[i].expands[k].id \notin AnsweredIds(msgs)
      <3> DEFINE e == msgs[i].expands[k]
      <3>1. GoodCall(ids, tr, Live(store), e, Received) /\ e.reply.kind = "none"
        BY DEF GoodList, GoodMessage, Bare
      <3>2. CASE <<i, k>> \notin DOMAIN reply
        BY <2>2, <3>1, <3>2 DEF GoodCall
      <3>3. CASE <<i, k>> \in DOMAIN reply
        <4> DEFINE x == reply[<<i, k>>]
        <4>1. x = ExpandReply(e) /\ e.id \notin AnsweredIds(msgs) /\ x.kind # "torn"
          BY <1>3, <3>3 DEF PendingExpands
        <4>2. e.id # NoCall
          BY <3>1, SentinelAssumption DEF GoodCall
        <4>3. CASE e.target = NoCall
          <5>1. x = Error
            BY <4>1, <4>3 DEF ExpandReply
          <5>2. Stands(tr, e.id, Error) /\ Error.kind = "error"
            BY DEF Stands, Error, Plain
          <5>3. QED
            BY <2>2, <3>1, <3>3, <4>1, <4>3, <5>1, <5>2 DEF GoodCall, Received
        <4>4. CASE e.target # NoCall
          <5>1. /\ e.target \in ids /\ store[e.target].kind # "none"
                /\ tr[e.id] = tr[e.target]
            BY <3>1, <4>4 DEF GoodCall, Live
          <5>2. x = store[e.target]
            BY <4>1, <4>4, <5>1 DEF ExpandReply
          <5>3. x.kind = "orig" /\ x = tr[e.id]
            BY <4>1, <5>1, <5>2
          <5>4. Stands(tr, e.id, x)
            BY <4>2, <5>3 DEF Stands
          <5>5. QED
            BY <2>2, <3>1, <3>3, <4>1, <4>4, <5>3, <5>4 DEF GoodCall, Received
        <4>5. QED
          BY <4>3, <4>4
      <3>4. QED
        BY <3>2, <3>3
    <2> HIDE DEF out, reply
    <2>6. GoodList(ids, tr, Live(store), out, Received)
      <3>1. ASSUME NEW i \in DOMAIN msgs
            PROVE  GoodMessage(ids, tr, Live(store), out[i], Received)
        <4>1. GoodMessage(ids, tr, Live(store), msgs[i], Received)
          BY DEF GoodList
        <4>2. QED
          BY <2>2, <2>4, <2>5, <4>1 DEF GoodMessage
      <3>2. QED
        BY <2>2, <3>1 DEF GoodList
    <2>7. AnsweredIds(out) = AnsweredIds(msgs)
      <3>1. /\ DOMAIN out = DOMAIN msgs
            /\ \A i \in DOMAIN msgs : out[i].id = msgs[i].id /\ out[i].role = msgs[i].role
        BY <2>2
      <3>2. QED
        BY <3>1 DEF AnsweredIds
    <2>8. OnceAnswered(out)
      <3> SUFFICES ASSUME NEW i \in DOMAIN msgs, NEW k \in DOMAIN msgs[i].expands,
                          out[i].expands[k].reply.kind # "none"
                   PROVE  out[i].expands[k].id \notin AnsweredIds(out)
        BY <2>2 DEF OnceAnswered
      <3>1. QED
        BY <2>5, <2>7
    <2>9. SameContents(out, msgs)
      BY <2>2, <2>4 DEF SameContents
    <2>10. QED
      BY <2>1, <2>6, <2>8, <2>9
  <1>4. QED
    BY <1>2, <1>3

(***************************************************************************)
(* The rewrite.                                                            *)
(***************************************************************************)

\* The items of S hold the original results their ids stand for.
Originals(ids, tr, msgs, S) ==
  \A p \in S : /\ p \in Items(msgs)
              /\ IdAt(msgs, p) \in ids
              /\ ContentAt(msgs, p).kind = "orig"
              /\ ContentAt(msgs, p) = tr[IdAt(msgs, p)]

\* What is heavy is an original result.  cold: the bodies the token cache
\* dropped were originals when the request came in.
LEMMA HeavyOrig ==
  ASSUME NEW ids \in SUBSET CallId, NEW tr, NEW live, NEW msgs \in Seq(Message),
         GoodList(ids, tr, live, msgs, Worked),
         NEW evict \in SUBSET Items(msgs), NEW jev \in BOOLEAN,
         NEW cold, \A q \in cold : ContentAt(msgs, q).kind \in {"orig", "summary"},
         NEW p \in HeavyResults(msgs, evict, Heavy(jev), cold)
  PROVE  /\ ContentAt(msgs, p).kind = "orig"
         /\ IdAt(msgs, p) \in ids
         /\ ContentAt(msgs, p) = tr[IdAt(msgs, p)]
  <1> DEFINE x == ContentAt(msgs, p)
             c == IdAt(msgs, p)
  <1>1. /\ p \in Items(msgs) /\ c # NoCall
        /\ SyncTokenCount(x, p \notin cold) >= Heavy(jev)
    BY DEF HeavyResults
  <1>2. c \in ids \cup {NoCall} /\ x.kind \in Worked /\ Stands(tr, c, x)
    BY <1>1, ReadGood
  <1>3. x.tok \in Nat
    BY <1>1, ItemTypes DEF Content
  <1>4. Heavy(jev) > 1 /\ Heavy(jev) \in {MinTokens, JevMinCap}
    BY SentinelAssumption, ConfigAssumption DEF Heavy, Least
  <1>5. x.kind \notin {"text", "error"}
    <2> SUFFICES ASSUME x.kind \in {"text", "error"} PROVE FALSE
      OBVIOUS
    <2>1. p \notin cold /\ x.tok = 1
      BY <1>2 DEF Stands
    <2>2. SyncTokenCount(x, p \notin cold) = 1
      BY <2>1 DEF SyncTokenCount
    <2>3. QED
      BY <1>1, <1>4, <2>2, ConfigAssumption
  <1>6. x.kind # "summary"
    <2> SUFFICES ASSUME x.kind = "summary" PROVE FALSE
      OBVIOUS
    <2>1. x.tok < MinTokens /\ x.tok < JevMinCap
      BY <1>2 DEF Stands
    <2>2. SyncTokenCount(x, p \notin cold) = x.tok
      BY DEF SyncTokenCount
    <2>3. QED
      BY <1>1, <1>3, <1>4, <2>1, <2>2, ConfigAssumption
  <1>7. x.kind = "orig"
    BY <1>2, <1>5, <1>6 DEF Worked, Received
  <1>8. QED
    BY <1>1, <1>2, <1>7 DEF Stands

\* Compressing originals gives a genuine list with the same items.
LEMMA CompressGood ==
  ASSUME LightSummaries, NEW ids \in SUBSET CallId, NEW tr, NEW live,
         NEW msgs \in Seq(Message),
         GoodList(ids, tr, live, msgs, Received), OnceAnswered(msgs),
         NEW S, NEW n \in [S -> SummaryTokens], Originals(ids, tr, msgs, S)
  PROVE  /\ GoodList(ids, tr, live, Compress(msgs, S, n), Worked)
         /\ OnceAnswered(Compress(msgs, S, n))
         /\ Items(Compress(msgs, S, n)) = Items(msgs)
         /\ \A p \in Items(msgs) :
              \/ ContentAt(Compress(msgs, S, n), p) = ContentAt(msgs, p)
              \/ ContentAt(Compress(msgs, S, n), p).kind = "summary"
  <1> DEFINE new == [p \in S |-> Summary(ContentAt(msgs, p).body, n[p])]
  <1>1. Compress(msgs, S, n) = ReplaceItems(msgs, new)
    BY DEF Compress
  <1>2. ASSUME NEW p \in S
        PROVE  /\ new[p] \in Content /\ new[p].kind = "summary"
               /\ Stands(tr, IdAt(msgs, p), new[p])
    <2>1. ContentAt(msgs, p) \in Content
      BY ItemTypes DEF Originals
    <2>2. n[p] \in Nat /\ n[p] < MinTokens /\ n[p] < JevMinCap
      BY ConfigAssumption DEF LightSummaries
    <2>3. new[p] \in Content
      BY <2>1, <2>2, ContentTypes DEF Content
    <2>4. new[p] = [kind |-> "summary", id |-> NoCall, body |-> ContentAt(msgs, p).body,
                    tok |-> n[p]]
      BY DEF Summary
    <2>5. Stands(tr, IdAt(msgs, p), new[p])
      BY <2>2, <2>4, SentinelAssumption DEF Stands, Originals
    <2>6. QED
      BY <2>3, <2>4, <2>5
  <1>3. DOMAIN new = S
    OBVIOUS
  <1> HIDE DEF new
  <1>4. GoodList(ids, tr, live, ReplaceItems(msgs, new), Worked)
    BY <1>2, <1>3, ReplaceGood DEF Worked, Originals
  <1>5. /\ OnceAnswered(ReplaceItems(msgs, new))
        /\ Items(ReplaceItems(msgs, new)) = Items(msgs)
    BY <1>2, <1>3, ReplaceOnce DEF Originals
  <1>6. \A p \in Items(msgs) : ContentAt(ReplaceItems(msgs, new), p) =
          IF p \in DOMAIN new THEN new[p] ELSE ContentAt(msgs, p)
    BY <1>2, <1>3, ReplaceReads
  <1>7. QED
    BY <1>1, <1>2, <1>3, <1>4, <1>5, <1>6

\* Every possible elision of a genuine request elides original results only.
LEMMA ElisionGood ==
  ASSUME LightSummaries, NEW ids \in SUBSET CallId, NEW tr, NEW live,
         NEW msgs \in Seq(Message),
         GoodList(ids, tr, live, msgs, Received), OnceAnswered(msgs), NEW e \in Elisions(msgs)
  PROVE  /\ e.work \in Seq(Message)
         /\ GoodList(ids, tr, live, e.work, Worked) /\ OnceAnswered(e.work)
         /\ Originals(ids, tr, e.work, e.elide)
  <1>1. PICK jev \in BOOLEAN :
          \E cold \in SUBSET {p \in Evictable(msgs, TurnsKept(jev), TokensKept(jev)) :
                                ContentAt(msgs, p).kind = "orig"} :
          \E S \in SUBSET Compressible(msgs, Evictable(msgs, TurnsKept(jev), TokensKept(jev)), jev, cold) :
            \E n \in [S -> SummaryTokens] :
              e = Elision(msgs, Evictable(msgs, TurnsKept(jev), TokensKept(jev)), jev, cold, S, n)
    BY DEF Elisions
  <1> DEFINE evict == Evictable(msgs, TurnsKept(jev), TokensKept(jev))
  <1>2. PICK cold \in SUBSET {p \in evict : ContentAt(msgs, p).kind = "orig"} :
               \E S \in SUBSET Compressible(msgs, evict, jev, cold) :
                 \E n \in [S -> SummaryTokens] : e = Elision(msgs, evict, jev, cold, S, n)
    BY <1>1
  <1>3. PICK S \in SUBSET Compressible(msgs, evict, jev, cold) :
               \E n \in [S -> SummaryTokens] : e = Elision(msgs, evict, jev, cold, S, n)
    BY <1>2
  <1>4. PICK n \in [S -> SummaryTokens] : e = Elision(msgs, evict, jev, cold, S, n)
    BY <1>3
  <1>5. evict \subseteq Items(msgs)
    BY EvictableAreItems
  <1>6. GoodList(ids, tr, live, msgs, Worked)
    BY GoodWidens DEF Worked
  <1> HIDE DEF evict
  <1>7. Originals(ids, tr, msgs, S)
    <2> SUFFICES ASSUME NEW p \in S
                 PROVE  /\ p \in Items(msgs)
                        /\ ContentAt(msgs, p).kind = "orig" /\ IdAt(msgs, p) \in ids
                        /\ ContentAt(msgs, p) = tr[IdAt(msgs, p)]
      BY DEF Originals
    <2>1. p \in HeavyResults(msgs, evict, Heavy(jev), cold)
      BY <1>3 DEF Compressible
    <2>2. p \in Items(msgs)
      BY <1>5, <2>1, HeavyAreItems
    <2>3. \A q \in cold : ContentAt(msgs, q).kind \in {"orig", "summary"}
      BY <1>2
    <2>4. QED
      BY <1>5, <1>6, <2>1, <2>2, <2>3, HeavyOrig
  <1> DEFINE work == Compress(msgs, S, n)
  <1>8. e.work = work /\ e.elide = HeavyResults(work, evict, Heavy(jev), cold)
    BY <1>4 DEF Elision
  <1>9. work \in Seq(Message)
    BY <1>4, <1>7, CompressTyped DEF Originals
  <1>10. /\ GoodList(ids, tr, live, work, Worked) /\ OnceAnswered(work)
         /\ Items(work) = Items(msgs)
         /\ \A p \in Items(msgs) : \/ ContentAt(work, p) = ContentAt(msgs, p)
                                   \/ ContentAt(work, p).kind = "summary"
    BY <1>4, <1>7, CompressGood
  <1> HIDE DEF work
  <1>11. \A q \in cold : ContentAt(work, q).kind \in {"orig", "summary"}
    BY <1>2, <1>5, <1>10
  <1>12. \A p \in e.elide : p \in Items(work)
    BY <1>5, <1>8, <1>10, HeavyAreItems
  <1>13. \A p \in e.elide : /\ ContentAt(work, p).kind = "orig"
                            /\ IdAt(work, p) \in ids
                            /\ ContentAt(work, p) = tr[IdAt(work, p)]
    BY <1>5, <1>8, <1>9, <1>10, <1>11, HeavyOrig
  <1>14. QED
    BY <1>8, <1>9, <1>10, <1>12, <1>13 DEF Originals

\* Every elided item has its file.
AllWritten(work, elide, S2) ==
  \A p \in elide : IdAt(work, p) \in CallId => S2[IdAt(work, p)].kind = "orig"
\* The stubs of a body are those of the elided items.
StubsOf(out, work, elide) == \A c \in StubIds(out) : \E p \in elide : IdAt(work, p) = c

\* The rewritten body is genuine, and its stubs are those of the elided items.
LEMMA StubsGood ==
  ASSUME NEW ids \in SUBSET CallId, NEW tr, NEW live, NEW work \in Seq(Message),
         GoodList(ids, tr, live, work, Worked), OnceAnswered(work),
         NEW elide, Originals(ids, tr, work, elide)
  PROVE  LET out == ReplaceItems(work, StubsFor(work, elide)) IN
         /\ GoodList(ids, tr, live, out, Shown)
         /\ OnceAnswered(out)
         /\ StubsOf(out, work, elide)
  <1> DEFINE new == StubsFor(work, elide)
             out == ReplaceItems(work, new)
  <1>1. DOMAIN new = elide
    BY DEF StubsFor
  <1>2. ASSUME NEW p \in elide
        PROVE  /\ new[p] = Stub(IdAt(work, p)) /\ new[p] \in Content /\ new[p].kind = "stub"
               /\ new[p].id = IdAt(work, p)
               /\ Stands(tr, IdAt(work, p), new[p])
    <2>1. new[p] = Stub(IdAt(work, p)) /\ IdAt(work, p) # NoCall /\ IdAt(work, p) \in CallId
      BY SentinelAssumption DEF StubsFor, Originals
    <2>2. new[p] \in Content
      BY <2>1, ContentTypes
    <2>3. new[p].kind = "stub" /\ new[p].tok = 1 /\ new[p].id = IdAt(work, p)
      BY <2>1 DEF Stub
    <2>4. Stands(tr, IdAt(work, p), new[p])
      BY <2>1, <2>3 DEF Stands
    <2>5. QED
      BY <2>1, <2>2, <2>3, <2>4
  <1> HIDE DEF new
  <1>3. GoodList(ids, tr, live, out, Shown)
    BY <1>1, <1>2, ReplaceGood DEF Shown, Originals
  <1>4. OnceAnswered(out) /\ Items(out) = Items(work)
    BY <1>1, <1>2, ReplaceOnce DEF Originals
  <1>5. ASSUME NEW c \in StubIds(out)
        PROVE  \E p \in elide : IdAt(work, p) = c
    <2>1. PICK p \in Items(out) : ContentAt(out, p).kind = "stub" /\ ContentAt(out, p).id = c
      BY DEF StubIds, StubItems
    <2>2. ContentAt(out, p) = IF p \in elide THEN new[p] ELSE ContentAt(work, p)
      BY <1>1, <1>2, <1>4, ReplaceReads
    <2>3. ContentAt(work, p).kind \in Worked
      BY <1>4, ReadGood
    <2>4. p \in elide
      BY <2>1, <2>2, <2>3 DEF Worked, Received
    <2>5. QED
      BY <1>2, <2>1, <2>2, <2>4
  <1>6. QED
    BY <1>3, <1>4, <1>5 DEF new, StubsOf

(***************************************************************************)
(* Steps of the store.                                                     *)
(***************************************************************************)

\* S2 is S with files of session s written: each holds the genuine original,
\* or is torn if tears.
StoreStep(H, T, S, S2, s, tears) ==
  \A c \in CallId :
    \/ S2[c] = S[c]
    \/ c \in IdsOf(H[s]) /\ S2[c].kind = "orig" /\ S2[c] = T[s][c]
    \/ tears /\ c \in IdsOf(H[s]) /\ S2[c] = Torn

\* What the frame of a step keeps of a session, and of the files.
Grows(H, T, S, H2, T2, S2) ==
  /\ Live(S) \subseteq Live(S2)
  /\ \A s \in Session : /\ IdsOf(H[s]) \subseteq IdsOf(H2[s])
                        /\ \A c \in IdsOf(H[s]) : T2[s][c] = T[s][c]
KeepsFiles(S, S2) == \A c \in CallId : Rehydratable(S, c) => Rehydratable(S2, c)

\* The ids of a conversation are call ids.
LEMMA IdsAreCalls ==
  ASSUME NEW msgs \in Seq(Message)
  PROVE  IdsOf(msgs) \subseteq CallId
  <1>1. ASSUME NEW c \in IdsOf(msgs) PROVE c \in CallId
    <2>1. c # NoCall
      BY DEF IdsOf
    <2>2. CASE \E i \in DOMAIN msgs : c = msgs[i].id
      BY <2>1, <2>2, MessageAt
    <2>3. CASE \E i \in DOMAIN msgs : \E k \in DOMAIN msgs[i].expands :
                 c = msgs[i].expands[k].id
      <3>1. PICK i \in DOMAIN msgs : \E k \in DOMAIN msgs[i].expands :
                 c = msgs[i].expands[k].id
        BY <2>3
      <3>2. PICK k \in DOMAIN msgs[i].expands : c = msgs[i].expands[k].id
        BY <3>1
      <3>3. msgs[i].expands[k] \in Expand
        BY MessageAt
      <3>4. QED
        BY <2>1, <3>2, <3>3 DEF Expand
    <2>4. QED
      BY <2>2, <2>3 DEF IdsOf
  <1>2. QED
    BY <1>1

\* Writing some of the elided originals is such a step.
LEMMA PersistStep ==
  ASSUME NEW H, NEW T, NEW s, NEW work, NEW elide, NEW written \in SUBSET elide,
         Originals(IdsOf(H[s]), T[s], work, elide)
  PROVE  /\ StoreStep(H, T, store, Persist(work, written), s, FALSE)
         /\ AllWritten(work, written, Persist(work, written))
  <1> DEFINE st == Persist(work, written)
  <1>1. ASSUME NEW c \in CallId, \E p \in written : IdAt(work, p) = c
        PROVE  c \in IdsOf(H[s]) /\ st[c].kind = "orig" /\ st[c] = T[s][c]
    <2> DEFINE p == CHOOSE q \in written : IdAt(work, q) = c
    <2>1. p \in written /\ IdAt(work, p) = c
      BY <1>1
    <2>2. st[c] = ContentAt(work, p)
      BY <1>1 DEF Persist
    <2> HIDE DEF p, st
    <2>3. QED
      BY <2>1, <2>2 DEF Originals
  <1>2. ASSUME NEW c \in CallId, ~ \E p \in written : IdAt(work, p) = c
        PROVE  st[c] = store[c]
    BY <1>2 DEF Persist
  <1> HIDE DEF st
  <1>3. StoreStep(H, T, store, st, s, FALSE)
    BY <1>1, <1>2 DEF StoreStep
  <1>4. QED
    BY <1>1, <1>3 DEF st, AllWritten

\* An interrupted write is such a step too, that may tear a file.
LEMMA InterruptedStep ==
  ASSUME LightSummaries, TypeOK, NEW H, NEW T, NEW s, NEW live, NEW msgs \in Seq(Message),
         IdsOf(H[s]) \subseteq CallId,
         GoodList(IdsOf(H[s]), T[s], live, msgs, Received), OnceAnswered(msgs),
         NEW st \in InterruptedWrites(msgs)
  PROVE  StoreStep(H, T, store, st, s, TRUE)
  <1>1. PICK e \in Elisions(msgs) : \E p \in e.elide : st \in Interrupted(e.work, e.elide, p)
    BY DEF InterruptedWrites
  <1>2. PICK p \in e.elide : st \in Interrupted(e.work, e.elide, p)
    BY <1>1
  <1> DEFINE before == Persist(e.work, {q \in e.elide : Later(q, p)})
  <1>3. Originals(IdsOf(H[s]), T[s], e.work, e.elide)
    BY ElisionGood
  <1>4. StoreStep(H, T, store, before, s, FALSE)
    BY <1>3, PersistStep
  <1>5. before \in [CallId -> Content]
    BY ElisionTyped, PersistTyped DEF TypeOK
  <1>6. st = before \/ st = [before EXCEPT ![IdAt(e.work, p)] = Torn]
    BY <1>2 DEF Interrupted
  <1> HIDE DEF before
  <1>7. QED
    BY <1>3, <1>4, <1>5, <1>6 DEF StoreStep, Originals

\* Such a step keeps the store genuine, every file a file, and every original
\* expandable unless a file may be torn.
LEMMA StepGenuine ==
  ASSUME NEW H, NEW T, NEW S, NEW S2, NEW s \in Session, NEW tears \in BOOLEAN,
         StoreGenuine(H, T, S), IdsDisjoint(H), StoreStep(H, T, S, S2, s, tears)
  PROVE  /\ StoreGenuine(H, T, S2)
         /\ Grows(H, T, S, H, T, S2)
         /\ (tears => DiskFaults) => KeepsFiles(S, S2)
         /\ \A c \in CallId : S[c].kind = "orig" => S2[c] \in {S[c], Torn}
  <1>1. Torn.kind = "torn"
    BY DEF Torn, Plain
  <1>2. ASSUME NEW c \in CallId
        PROVE  /\ S2[c].kind \in {"none", "torn", "orig"}
               /\ S2[c].kind # "none" => \E t \in Session : c \in IdsOf(H[t])
               /\ \A t \in Session : c \in IdsOf(H[t]) /\ S2[c].kind = "orig" => S2[c] = T[t][c]
               /\ S[c].kind # "none" => S2[c].kind # "none"
               /\ (tears => DiskFaults) /\ Rehydratable(S, c) => Rehydratable(S2, c)
               /\ S[c].kind = "orig" => S2[c] \in {S[c], Torn}
    <2>1. CASE S2[c] = S[c]
      BY <2>1 DEF StoreGenuine, Rehydratable
    <2>2. CASE c \in IdsOf(H[s]) /\ S2[c].kind = "orig" /\ S2[c] = T[s][c]
      <3>1. \A t \in Session : c \in IdsOf(H[t]) => t = s
        BY <2>2 DEF IdsDisjoint
      <3>2. S[c].kind = "orig" => S[c] = T[s][c]
        BY <2>2 DEF StoreGenuine
      <3>3. QED
        BY <2>2, <3>1, <3>2 DEF Rehydratable
    <2>3. CASE tears /\ c \in IdsOf(H[s]) /\ S2[c] = Torn
      BY <1>1, <2>3 DEF Rehydratable
    <2>4. QED
      BY <2>1, <2>2, <2>3 DEF StoreStep
  <1>3. StoreGenuine(H, T, S2)
    BY <1>2 DEF StoreGenuine
  <1>4. Grows(H, T, S, H, T, S2)
    BY <1>2 DEF Grows, Live
  <1>5. (tears => DiskFaults) => KeepsFiles(S, S2)
    BY <1>2 DEF KeepsFiles
  <1>6. QED
    BY <1>2, <1>3, <1>4, <1>5

(***************************************************************************)
(* Frames: what a step leaves genuine in the sessions it does not touch.   *)
(***************************************************************************)

\* What is genuine in a session stays so when conversations and files grow.
LEMMA ForGrows ==
  ASSUME NEW H, NEW T, NEW S, NEW H2, NEW T2, NEW S2, Grows(H, T, S, H2, T2, S2),
         NEW s \in Session, NoCall \notin IdsOf(H[s]),
         NEW msgs, NEW kinds, GoodFor(H, T, S, s, msgs, kinds)
  PROVE  GoodFor(H2, T2, S2, s, msgs, kinds)
  <1>1. /\ IdsOf(H[s]) \subseteq IdsOf(H2[s]) /\ Live(S) \subseteq Live(S2)
        /\ \A c \in IdsOf(H[s]) : T2[s][c] = T[s][c]
    BY DEF Grows
  <1>2. QED
    BY <1>1, GoodGrows DEF GoodFor

\* Every handler keeps what it holds.
LEMMA HandlerGrows ==
  ASSUME NEW H, NEW T, NEW S, NEW H2, NEW T2, NEW S2,
         Grows(H, T, S, H2, T2, S2), KeepsFiles(S, S2),
         NEW m, NEW h, h \in Handler, h.pc # "idle" => NoCall \notin IdsOf(H[h.ses]),
         h.pc = "rewritten" => StubIds(h.rew.msgs) \subseteq CallId,
         h.pc = "sent" => StubIds(h.wire.msgs) \subseteq CallId,
         HandlerGood(H, T, S, m, h)
  PROVE  HandlerGood(H2, T2, S2, m, h)
  <1>1. h.pc # "idle" => h.ses \in Session
    BY DEF Handler
  <1>2. RequestGood(H2, T2, S2, h)
    BY <1>1, ForGrows DEF HandlerGood, RequestGood
  <1>3. ASSUME NEW pk, PacketGood(H, T, S, h.ses, pk), h.pc # "idle",
               StubIds(pk.msgs) \subseteq CallId
        PROVE  PacketGood(H2, T2, S2, h.ses, pk)
    <2>1. GoodFor(H2, T2, S2, h.ses, pk.msgs, Shown)
      BY <1>1, <1>3, ForGrows DEF PacketGood
    <2>2. QED
      BY <1>3, <2>1 DEF PacketGood, KeepsFiles
  <1>4. OutcomeGood(H2, T2, S2, h)
    BY <1>3 DEF HandlerGood, OutcomeGood
  <1>5. QED
    BY <1>2, <1>4 DEF HandlerGood

\* The ids of a genuine body's stubs are ids of the conversation.
LEMMA StubsAreIds ==
  ASSUME NEW ids, NEW tr, NEW live, NEW msgs \in Seq(Message), NEW kinds,
         GoodList(ids, tr, live, msgs, kinds)
  PROVE  StubIds(msgs) \subseteq ids
  <1> SUFFICES ASSUME NEW p \in Items(msgs), ContentAt(msgs, p).kind = "stub"
               PROVE  ContentAt(msgs, p).id \in ids
    BY DEF StubIds, StubItems
  <1>1. IdAt(msgs, p) \in ids \cup {NoCall} /\ Stands(tr, IdAt(msgs, p), ContentAt(msgs, p))
    BY ReadGood
  <1>2. IdAt(msgs, p) \in ids /\ ContentAt(msgs, p) = Stub(IdAt(msgs, p))
    BY <1>1 DEF Stands
  <1>3. Stub(IdAt(msgs, p)).id = IdAt(msgs, p)
    BY DEF Stub
  <1>4. QED
    BY <1>2, <1>3

\* What is typed about the sessions and the handlers of a well-typed state.
LEMMA StateTyped ==
  ASSUME TypeOK
  PROVE  /\ \A s \in Session : /\ history[s] \in Seq(Message)
                               /\ IdsOf(history[s]) \subseteq CallId
                               /\ NoCall \notin IdsOf(history[s])
         /\ \A r \in Req :
              /\ req[r] \in Handler
              /\ req[r].pc # "idle" => req[r].ses \in Session
              /\ req[r].raw \in Seq(Message) /\ req[r].parsed \in Seq(Message)
              /\ req[r].rew \in Packet /\ req[r].rew.msgs \in Seq(Message)
              /\ req[r].wire \in Packet /\ req[r].wire.msgs \in Seq(Message)
  <1>1. \A s \in Session : history[s] \in Seq(Message)
    BY DEF TypeOK
  <1>2. \A s \in Session : IdsOf(history[s]) \subseteq CallId
    BY <1>1, IdsAreCalls
  <1>3. \A s \in Session : NoCall \notin IdsOf(history[s])
    BY DEF IdsOf
  <1>4. \A r \in Req : req[r] \in Handler
    BY DEF TypeOK
  <1>5. \A r \in Req :
          /\ req[r].pc # "idle" => req[r].ses \in Session
          /\ req[r].raw \in Seq(Message) /\ req[r].parsed \in Seq(Message)
          /\ req[r].rew \in Packet /\ req[r].wire \in Packet
    BY <1>4 DEF Handler, HandlerState
  <1>6. \A pk \in Packet : pk.msgs \in Seq(Message)
    BY DEF Packet
  <1>7. QED
    BY <1>1, <1>2, <1>3, <1>4, <1>5, <1>6

\* The stubs a handler shows are those of call ids.
LEMMA ShownStubs ==
  ASSUME Genuine, NEW r \in Req
  PROVE  /\ req[r].pc = "rewritten" => StubIds(req[r].rew.msgs) \subseteq IdsOf(history[req[r].ses])
         /\ req[r].pc = "sent" => StubIds(req[r].wire.msgs) \subseteq IdsOf(history[req[r].ses])
  <1>1. OutcomeGood(history, truth, store, req[r])
    BY DEF Genuine, HandlerGood
  <1>2. req[r].rew.msgs \in Seq(Message) /\ req[r].wire.msgs \in Seq(Message)
    BY StateTyped DEF Genuine
  <1>3. QED
    BY <1>1, <1>2, StubsAreIds DEF OutcomeGood, PacketGood, GoodFor

\* A handler of a genuine state stays good over a step that only lets
\* conversations and files grow.
LEMMA HandlersStay ==
  ASSUME Genuine, NEW H2, NEW T2, NEW S2,
         Grows(history, truth, store, H2, T2, S2), KeepsFiles(store, S2), NEW r \in Req
  PROVE  HandlerGood(H2, T2, S2, mode, req[r])
  <1>1. HandlerGood(history, truth, store, mode, req[r]) /\ TypeOK
    BY DEF Genuine
  <1>2. /\ req[r] \in Handler
        /\ req[r].pc # "idle" =>
             /\ NoCall \notin IdsOf(history[req[r].ses])
             /\ IdsOf(history[req[r].ses]) \subseteq CallId
    BY <1>1, StateTyped
  <1>3. /\ req[r].pc = "rewritten" => StubIds(req[r].rew.msgs) \subseteq CallId
        /\ req[r].pc = "sent" => StubIds(req[r].wire.msgs) \subseteq CallId
    BY <1>2, ShownStubs
  <1>4. QED
    BY <1>1, <1>2, <1>3, HandlerGrows

\* The step of one handler, which may write files of the store.
LEMMA OneMoves ==
  ASSUME Genuine, TypeOK', UNCHANGED <<mode, history, truth>>,
         StoreGenuine(history, truth, store'), Grows(history, truth, store, history, truth, store'),
         KeepsFiles(store, store'),
         NEW r \in Req, NEW h, req' = [req EXCEPT ![r] = h],
         HandlerGood(history, truth, store', mode, h)
  PROVE  Genuine'
  <1>1. TypeOK
    BY DEF Genuine
  <1>2. HistoryGood(history, truth, store')
    <2> SUFFICES ASSUME NEW s \in Session
                 PROVE  GoodFor(history, truth, store', s, history[s], Received) /\ Bare(history[s])
      BY DEF HistoryGood
    <2>1. GoodFor(history, truth, store, s, history[s], Received) /\ Bare(history[s])
      BY DEF Genuine, HistoryGood
    <2>2. QED
      BY <1>1, <2>1, StateTyped, ForGrows
  <1>3. ASSUME NEW q \in Req
        PROVE  HandlerGood(history, truth, store', mode, req'[q])
    <2>1. CASE q = r
      BY <1>1, <2>1 DEF TypeOK
    <2>2. CASE q # r
      BY <1>1, <2>2, HandlersStay DEF TypeOK
    <2>3. QED
      BY <2>1, <2>2
  <1>4. IdsDisjoint(history)
    BY DEF Genuine
  <1>5. Genuine'
    BY <1>2, <1>3, <1>4 DEF Genuine
  <1>6. QED
    BY <1>5

\* A step that leaves the store alone.
LEMMA NothingWritten ==
  ASSUME Genuine
  PROVE  /\ StoreGenuine(history, truth, store)
         /\ Grows(history, truth, store, history, truth, store)
         /\ KeepsFiles(store, store)
  BY DEF Genuine, Grows, KeepsFiles

\* An idle handler holds nothing.
LEMMA IdleGood == ASSUME NEW H, NEW T, NEW S, NEW m PROVE HandlerGood(H, T, S, m, Idle)
  BY DEF HandlerGood, RequestGood, OutcomeGood, ModeKept, Idle
=============================================================================
