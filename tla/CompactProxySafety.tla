------------------------- MODULE CompactProxySafety -------------------------
(***************************************************************************)
(* Every step of the compaction proxy keeps the invariant Genuine; from it *)
(* follow StubsRehydrate, RepliesAreOriginals, OriginalsOnDisk,            *)
(* OriginalsStay and OnlyEnforceRewrites.                                  *)
(***************************************************************************)
EXTENDS CompactProxyGenuine

(***************************************************************************)
(* Every step keeps the invariant.                                         *)
(***************************************************************************)

\* A list without stubs may be shown whatever else it holds.
LEMMA PlainPacket ==
  ASSUME NEW H, NEW T, NEW S, NEW s, NEW pk, pk.msgs \in Seq(Message),
         GoodFor(H, T, S, s, pk.msgs, Received), OnceAnswered(pk.msgs)
  PROVE  PacketGood(H, T, S, s, pk)
  <1>1. GoodFor(H, T, S, s, pk.msgs, Shown)
    BY GoodWidens DEF GoodFor, Shown, Worked
  <1>2. \A p \in Items(pk.msgs) : ContentAt(pk.msgs, p).kind \in Received
    BY ReadGood DEF GoodFor
  <1>3. StubIds(pk.msgs) = {}
    BY <1>2 DEF StubIds, StubItems, Received
  <1>4. QED
    BY <1>1, <1>3 DEF PacketGood

\* What Outbound chooses may be shown, and is the client's body outside
\* enforce mode and with x-compact: off.
LEMMA OutboundGood ==
  ASSUME NEW H, NEW T, NEW S, NEW h, NEW rew, RequestGood(H, T, S, h), h.pc # "idle",
         h.raw \in Seq(Message), h.parsed \in Seq(Message),
         rew # NoPacket => PacketGood(H, T, S, h.ses, rew) /\ h.flag # "off",
         h.flag = "off" => h.pc = "received",
         NEW h2, h2.pc = "sent", h2.ses = h.ses, h2.flag = h.flag, h2.raw = h.raw,
         h2.parsed = h.parsed, h2.wire = Outbound(h, rew)
  PROVE  HandlerGood(H, T, S, mode, h2)
  <1>1. RequestGood(H, T, S, h2)
    BY DEF RequestGood
  <1>2. OnceAnswered(h.raw)
    BY DEF RequestGood, Bare, OnceAnswered
  <1>3. CASE mode = "enforce" /\ rew # NoPacket
    <2>1. h2.wire = rew
      BY <1>3 DEF Outbound
    <2>2. QED
      BY <1>1, <1>3, <2>1 DEF HandlerGood, OutcomeGood, ModeKept
  <1>4. CASE ~ (mode = "enforce" /\ rew # NoPacket)
    <2>1. /\ h2.wire.msgs \in {h.parsed, h.raw} /\ h2.wire.offer = FALSE
          /\ h.parsed = h.raw => h2.wire.msgs = h.raw /\ h2.wire.tools = "all"
      BY <1>4 DEF Outbound
    <2>2. /\ h2.wire.msgs \in Seq(Message) /\ OnceAnswered(h2.wire.msgs)
          /\ GoodFor(H, T, S, h2.ses, h2.wire.msgs, Received)
      BY <1>2, <2>1 DEF RequestGood
    <2>3. PacketGood(H, T, S, h2.ses, h2.wire)
      BY <2>2, PlainPacket
    <2>4. ModeKept(mode, h2)
      BY <2>1 DEF ModeKept, RequestGood
    <2>5. QED
      BY <1>1, <2>3, <2>4 DEF HandlerGood, OutcomeGood
  <1>5. QED
    BY <1>3, <1>4

\* The end of a handler.
LEMMA FinishGood ==
  ASSUME Genuine, TypeOK', UNCHANGED <<mode, store, history, truth>>, NEW r \in Req, Finish(r)
  PROVE  Genuine'
  <1>1. req' = [req EXCEPT ![r] = Idle] /\ store' = store
    BY DEF Finish
  <1>2. QED
    BY <1>1, IdleGood, NothingWritten, OneMoves

\* A new request is a copy of its conversation.
LEMMA ReceiveGood ==
  ASSUME Genuine, TypeOK', NEW r \in Req, NEW s \in Session, Receive(r, s)
  PROVE  Genuine'
  <1>1. PICK flag \in Flags : req' = [req EXCEPT ![r] =
           [Idle EXCEPT !.pc = "received", !.ses = s, !.flag = flag,
                        !.raw = history[s], !.parsed = history[s]]]
    BY DEF Receive
  <1> DEFINE h == [Idle EXCEPT !.pc = "received", !.ses = s, !.flag = flag,
                               !.raw = history[s], !.parsed = history[s]]
  <1>2. /\ h.pc = "received" /\ h.ses = s /\ h.raw = history[s] /\ h.parsed = history[s]
        /\ req' = [req EXCEPT ![r] = h]
    BY <1>1 DEF Idle
  <1> HIDE DEF h
  <1>3. GoodFor(history, truth, store, s, history[s], Received) /\ Bare(history[s])
    BY DEF Genuine, HistoryGood
  <1>4. OnceAnswered(history[s]) /\ SameContents(history[s], history[s])
    BY <1>3 DEF Bare, OnceAnswered, SameContents
  <1>5. HandlerGood(history, truth, store, mode, h)
    BY <1>2, <1>3, <1>4 DEF HandlerGood, RequestGood, OutcomeGood, ModeKept
  <1>6. UNCHANGED <<mode, store, history, truth>>
    BY DEF Receive
  <1>7. QED
    BY <1>2, <1>5, <1>6, NothingWritten, OneMoves

\* Answering the pending expand calls.
LEMMA AnswerStep ==
  ASSUME Genuine, TypeOK', NEW r \in Req, Answer(r)
  PROVE  Genuine'
  <1> DEFINE s   == req[r].ses
             out == AnswerExpandCalls(req[r].parsed)
             h   == [req[r] EXCEPT !.pc = "answered", !.parsed = out]
  <1>1. req[r].pc = "received" /\ req[r].flag # "off" /\ req' = [req EXCEPT ![r] = h]
    BY DEF Answer
  <1>2. TypeOK /\ RequestGood(history, truth, store, req[r])
    BY DEF Genuine, HandlerGood
  <1>3. /\ s \in Session /\ req[r].parsed \in Seq(Message) /\ req[r] \in Handler
        /\ IdsOf(history[s]) \subseteq CallId
    BY <1>1, <1>2, StateTyped
  <1>4. /\ GoodList(IdsOf(history[s]), truth[s], Live(store), req[r].parsed, Received)
        /\ Bare(req[r].parsed) /\ req[r].parsed = req[r].raw
    BY <1>1, <1>2 DEF RequestGood, GoodFor
  <1>5. \A c \in IdsOf(history[s]) :
          /\ store[c].kind \in {"none", "torn", "orig"}
          /\ store[c].kind = "orig" => store[c] = truth[s][c]
    BY <1>3 DEF Genuine, StoreGenuine
  <1>6. /\ GoodList(IdsOf(history[s]), truth[s], Live(store), out, Received)
        /\ OnceAnswered(out) /\ SameContents(out, req[r].parsed)
    BY <1>3, <1>4, <1>5, AnswerGood
  <1>7. /\ h.pc = "answered" /\ h.ses = s /\ h.flag = req[r].flag /\ h.raw = req[r].raw
        /\ h.parsed = out
    BY <1>3 DEF Handler, HandlerState
  <1> HIDE DEF h, out, s
  <1>8. RequestGood(history, truth, store, h)
    BY <1>1, <1>2, <1>4, <1>6, <1>7 DEF RequestGood, GoodFor, s
  <1>9. HandlerGood(history, truth, store, mode, h)
    BY <1>7, <1>8 DEF HandlerGood, OutcomeGood, ModeKept
  <1>10. UNCHANGED <<mode, store, history, truth>>
    BY DEF Answer
  <1>11. QED
    BY <1>1, <1>9, <1>10, NothingWritten, OneMoves

\* A handler that answered its request holds a genuine one.
LEMMA AnsweredHolds ==
  ASSUME Genuine, NEW r \in Req, req[r].pc # "idle"
  PROVE  LET s == req[r].ses IN
         /\ TypeOK /\ s \in Session /\ req[r].parsed \in Seq(Message)
         /\ IdsOf(history[s]) \subseteq CallId /\ req[r] \in Handler
         /\ req[r].raw \in Seq(Message)
         /\ RequestGood(history, truth, store, req[r])
         /\ GoodList(IdsOf(history[s]), truth[s], Live(store), req[r].parsed, Received)
         /\ OnceAnswered(req[r].parsed)
         /\ StoreGenuine(history, truth, store) /\ IdsDisjoint(history)
  <1>1. TypeOK /\ RequestGood(history, truth, store, req[r])
    BY DEF Genuine, HandlerGood
  <1>2. StoreGenuine(history, truth, store) /\ IdsDisjoint(history)
    BY DEF Genuine
  <1>3. /\ GoodList(IdsOf(history[req[r].ses]), truth[req[r].ses], Live(store), req[r].parsed, Received)
        /\ OnceAnswered(req[r].parsed)
    BY <1>1 DEF RequestGood, GoodFor
  <1>4. QED
    BY <1>1, <1>2, <1>3, StateTyped

\* What a handler that only moved on holds stays good when files were written.
LEMMA RequestStays ==
  ASSUME Genuine, NEW S2, Grows(history, truth, store, history, truth, S2),
         NEW r \in Req, req[r].pc # "idle"
  PROVE  RequestGood(history, truth, S2, req[r])
  <1>1. /\ TypeOK /\ RequestGood(history, truth, store, req[r]) /\ req[r].ses \in Session
    BY AnsweredHolds
  <1>2. NoCall \notin IdsOf(history[req[r].ses])
    BY <1>1, StateTyped
  <1>3. QED
    BY <1>1, <1>2, ForGrows DEF RequestGood

\* Rewriting a request and writing what its stubs replace.
LEMMA RewriteStep ==
  ASSUME LightSummaries, Genuine, TypeOK', NEW r \in Req, Rewrite(r)
  PROVE  Genuine'
  <1> DEFINE s == req[r].ses
             Rew(e, cut) == [msgs  |-> ReplaceItems(e.work, StubsFor(e.work, e.elide)),
                             tools |-> IF cut THEN "cut" ELSE "all",
                             offer |-> OfferExpand(e.elide)]
             Done(e, cut) == [req[r] EXCEPT !.pc = "rewritten", !.cut = cut, !.rew = Rew(e, cut)]
  <1>1. PICK e \in Elisions(req[r].parsed), cut \in BOOLEAN :
          /\ store' = Persist(e.work, e.elide)
          /\ req' = [req EXCEPT ![r] = Done(e, cut)]
    <2>1. PICK e \in Elisions(req[r].parsed), pass \in BOOLEAN :
            /\ store' = Persist(e.work, e.elide)
            /\ req' = [req EXCEPT ![r] = Done(e, FilterMode = "enforce" /\ pass)]
      BY DEF Rewrite
    <2> HIDE DEF Done
    <2>2. QED
      BY <2>1
  <1>2. req[r].pc = "answered" /\ UNCHANGED <<mode, history, truth>>
    BY DEF Rewrite
  <1>3. /\ TypeOK /\ s \in Session /\ req[r].parsed \in Seq(Message)
        /\ IdsOf(history[s]) \subseteq CallId /\ req[r] \in Handler
        /\ RequestGood(history, truth, store, req[r])
        /\ GoodList(IdsOf(history[s]), truth[s], Live(store), req[r].parsed, Received)
        /\ OnceAnswered(req[r].parsed)
        /\ StoreGenuine(history, truth, store) /\ IdsDisjoint(history)
    BY <1>2, AnsweredHolds
  <1>4. /\ e.work \in Seq(Message)
        /\ GoodList(IdsOf(history[s]), truth[s], Live(store), e.work, Worked)
        /\ OnceAnswered(e.work)
        /\ Originals(IdsOf(history[s]), truth[s], e.work, e.elide)
    BY <1>3, ElisionGood
  <1>5. /\ StoreStep(history, truth, store, store', s, FALSE)
        /\ AllWritten(e.work, e.elide, store')
    <2>1. e.elide \in SUBSET e.elide
      OBVIOUS
    <2>2. /\ StoreStep(history, truth, store, Persist(e.work, e.elide), s, FALSE)
          /\ AllWritten(e.work, e.elide, Persist(e.work, e.elide))
      BY <1>4, <2>1, PersistStep
    <2>3. QED
      BY <1>1, <2>2
  <1>6. /\ StoreGenuine(history, truth, store')
        /\ Grows(history, truth, store, history, truth, store') /\ KeepsFiles(store, store')
    BY <1>3, <1>5, StepGenuine
  <1> DEFINE pk == Rew(e, cut)
             h  == Done(e, cut)
  <1>7. /\ h.pc = "rewritten" /\ h.ses = s /\ h.flag = req[r].flag /\ h.raw = req[r].raw
        /\ h.parsed = req[r].parsed /\ h.rew = pk
    <2> HIDE DEF Rew
    <2>1. QED
      BY <1>3 DEF Handler, HandlerState
  <1>8. /\ pk.msgs = ReplaceItems(e.work, StubsFor(e.work, e.elide))
        /\ pk.offer <=> e.elide # {}
    BY DEF OfferExpand
  <1>9. req' = [req EXCEPT ![r] = h]
    BY <1>1
  <1> HIDE DEF Rew, Done, pk, h, s
  <1>10. /\ GoodList(IdsOf(history[s]), truth[s], Live(store), pk.msgs, Shown)
         /\ OnceAnswered(pk.msgs)
         /\ StubsOf(pk.msgs, e.work, e.elide)
    <2> DEFINE out == ReplaceItems(e.work, StubsFor(e.work, e.elide))
    <2>1. /\ GoodList(IdsOf(history[s]), truth[s], Live(store), out, Shown)
          /\ OnceAnswered(out)
          /\ StubsOf(out, e.work, e.elide)
      BY <1>3, <1>4, StubsGood
    <2>2. QED
      BY <1>8, <2>1
  <1>11. PacketGood(history, truth, store', s, pk)
    <2>1. GoodFor(history, truth, store', s, pk.msgs, Shown)
      <3>1. NoCall \notin IdsOf(history[s])
        BY DEF IdsOf
      <3>2. QED
        BY <1>3, <1>6, <1>10, <3>1, ForGrows DEF GoodFor
    <2>2. \A c \in StubIds(pk.msgs) : pk.offer /\ Rehydratable(store', c)
      BY <1>3, <1>4, <1>5, <1>8, <1>10 DEF Rehydratable, Originals, StubsOf, AllWritten
    <2>3. QED
      BY <1>10, <2>1, <2>2 DEF PacketGood
  <1>12. RequestGood(history, truth, store', h)
    <2>1. RequestGood(history, truth, store', req[r])
      BY <1>2, <1>6, RequestStays
    <2>2. req[r].flag # "off"
      BY <1>2, <1>3 DEF RequestGood
    <2>3. QED
      BY <1>2, <1>7, <2>1, <2>2 DEF RequestGood, s
  <1>13. HandlerGood(history, truth, store', mode, h)
    BY <1>7, <1>11, <1>12 DEF HandlerGood, OutcomeGood, ModeKept
  <1>14. QED
    BY <1>2, <1>6, <1>9, <1>13, OneMoves

\* A failed write, after which the request goes on without a rewrite.
LEMMA PersistFailsStep ==
  ASSUME LightSummaries, Genuine, TypeOK', NEW r \in Req, PersistFails(r)
  PROVE  Genuine'
  <1> DEFINE s == req[r].ses
             h == [req[r] EXCEPT !.pc = "sent", !.wire = Outbound(req[r], NoPacket)]
  <1>1. /\ DiskFaults = TRUE /\ req[r].pc = "answered" /\ UNCHANGED <<mode, history, truth>>
        /\ store' \in InterruptedWrites(req[r].parsed)
        /\ req' = [req EXCEPT ![r] = h]
    BY ConfigAssumption DEF PersistFails
  <1>2. /\ TypeOK /\ s \in Session /\ req[r].parsed \in Seq(Message)
        /\ IdsOf(history[s]) \subseteq CallId /\ req[r] \in Handler
        /\ req[r].raw \in Seq(Message)
        /\ RequestGood(history, truth, store, req[r])
        /\ GoodList(IdsOf(history[s]), truth[s], Live(store), req[r].parsed, Received)
        /\ OnceAnswered(req[r].parsed)
        /\ StoreGenuine(history, truth, store) /\ IdsDisjoint(history)
    BY <1>1, AnsweredHolds
  <1>3. StoreStep(history, truth, store, store', s, TRUE)
    BY <1>1, <1>2, InterruptedStep
  <1>4. /\ StoreGenuine(history, truth, store')
        /\ Grows(history, truth, store, history, truth, store') /\ KeepsFiles(store, store')
    BY <1>1, <1>2, <1>3, StepGenuine
  <1>5. RequestGood(history, truth, store', req[r])
    BY <1>1, <1>4, RequestStays
  <1>6. /\ h.pc = "sent" /\ h.ses = s /\ h.flag = req[r].flag /\ h.raw = req[r].raw
        /\ h.parsed = req[r].parsed /\ h.wire = Outbound(req[r], NoPacket)
    BY <1>2 DEF Handler, HandlerState
  <1>7. req[r].flag # "off"
    BY <1>1, <1>2 DEF RequestGood
  <1> HIDE DEF h, s
  <1>8. HandlerGood(history, truth, store', mode, h)
    BY <1>1, <1>2, <1>5, <1>6, <1>7, OutboundGood DEF s
  <1>9. QED
    BY <1>1, <1>4, <1>8, OneMoves

\* Sending a body upstream.
LEMMA SendStep ==
  ASSUME Genuine, TypeOK', NEW r \in Req, NEW rew, Send(r, rew), req[r].pc # "idle",
         rew # NoPacket => req[r].pc = "rewritten" /\ rew = req[r].rew,
         req[r].flag = "off" => req[r].pc = "received"
  PROVE  Genuine'
  <1> DEFINE h == [req[r] EXCEPT !.pc = "sent", !.rew = rew, !.wire = Outbound(req[r], rew)]
  <1>1. req' = [req EXCEPT ![r] = h] /\ UNCHANGED <<mode, store, history, truth>>
    BY DEF Send
  <1>2. /\ req[r] \in Handler /\ req[r].raw \in Seq(Message) /\ req[r].parsed \in Seq(Message)
        /\ RequestGood(history, truth, store, req[r])
    BY AnsweredHolds
  <1>3. rew # NoPacket =>
          PacketGood(history, truth, store, req[r].ses, rew) /\ req[r].flag # "off"
    BY DEF Genuine, HandlerGood, OutcomeGood
  <1>4. /\ h.pc = "sent" /\ h.ses = req[r].ses /\ h.flag = req[r].flag /\ h.raw = req[r].raw
        /\ h.parsed = req[r].parsed /\ h.wire = Outbound(req[r], rew)
    BY <1>2 DEF Handler, HandlerState
  <1> HIDE DEF h
  <1>5. HandlerGood(history, truth, store, mode, h)
    BY <1>2, <1>3, <1>4, OutboundGood
  <1>6. QED
    BY <1>1, <1>5, NothingWritten, OneMoves

\* The ids of a conversation are those of its parts.
LEMMA IdsConcat ==
  ASSUME NEW a \in Seq(Message), NEW b \in Seq(Message)
  PROVE  IdsOf(a \o b) = IdsOf(a) \cup IdsOf(b)
  <1> DEFINE ab == a \o b
             Held(m, c) == c # NoCall /\ (c = m.id \/ \E k \in DOMAIN m.expands : c = m.expands[k].id)
  <1>1. \A msgs \in Seq(Message) : \A c : c \in IdsOf(msgs) <=> \E i \in DOMAIN msgs : Held(msgs[i], c)
    BY DEF IdsOf
  <1>2. ab \in Seq(Message)
    BY ConcatProperties
  <1>3. \A i \in DOMAIN ab : (\E j \in DOMAIN a : ab[i] = a[j]) \/ (\E j \in DOMAIN b : ab[i] = b[j])
    BY ConcatAt
  <1>4. \A j \in DOMAIN a : j \in DOMAIN ab /\ ab[j] = a[j]
    BY ConcatProperties, LenProperties
  <1>5. ASSUME NEW j \in DOMAIN b
        PROVE  Len(a) + j \in DOMAIN ab /\ ab[Len(a) + j] = b[j]
    BY ConcatProperties, LenProperties
  <1> HIDE DEF ab, Held
  <1>6. \A c : c \in IdsOf(ab) <=> c \in IdsOf(a) \/ c \in IdsOf(b)
    <2> SUFFICES ASSUME NEW c PROVE c \in IdsOf(ab) <=> c \in IdsOf(a) \/ c \in IdsOf(b)
      OBVIOUS
    <2>1. c \in IdsOf(ab) => c \in IdsOf(a) \/ c \in IdsOf(b)
      BY <1>1, <1>2, <1>3
    <2>2. c \in IdsOf(a) => c \in IdsOf(ab)
      BY <1>1, <1>2, <1>4
    <2>3. c \in IdsOf(b) => c \in IdsOf(ab)
      BY <1>1, <1>2, <1>5
    <2>4. QED
      BY <2>1, <2>2, <2>3
  <1>7. QED
    BY <1>6 DEF ab

\* A conversation grows by genuine messages whose ids no conversation used.
LEMMA ExtendGood ==
  ASSUME UniqueIds, Genuine, TypeOK', NEW r \in Req, NEW turns \in Seq(Message),
         Extend(r, turns), IdsOf(turns) \subseteq FreshIds(req[r].ses),
         \A t \in Session : t # req[r].ses => truth'[t] = truth[t],
         \A c \in IdsOf(history[req[r].ses]) : truth'[req[r].ses][c] = truth[req[r].ses][c],
         GoodList(IdsOf(history[req[r].ses]) \cup IdsOf(turns), truth'[req[r].ses],
                  Live(store), turns, Received),
         Bare(turns)
  PROVE  Genuine'
  <1> DEFINE s == req[r].ses
  <1>1. /\ history' = [history EXCEPT ![s] = history[s] \o turns]
        /\ req' = [req EXCEPT ![r] = Idle] /\ UNCHANGED <<mode, store>>
        /\ req[r].pc = "sent"
    BY DEF Extend, Finish
  <1>2. TypeOK /\ s \in Session
    BY <1>1, ClientTyped DEF Genuine
  <1>3. /\ history'[s] = history[s] \o turns
        /\ \A t \in Session : t # s => history'[t] = history[t]
    BY <1>1, <1>2 DEF TypeOK
  <1>4. /\ \A t \in Session : history[t] \in Seq(Message) /\ NoCall \notin IdsOf(history[t])
        /\ IdsOf(history'[s]) = IdsOf(history[s]) \cup IdsOf(turns)
    BY <1>2, <1>3, StateTyped, IdsConcat
  <1>5. \A c \in IdsOf(turns) : \A t \in Session : c \notin IdsOf(history[t])
    BY DEF FreshIds, UniqueIds
  <1>6. StoreGenuine(history, truth, store) /\ IdsDisjoint(history)
    BY DEF Genuine
  <1> HIDE DEF s
  <1>7. Grows(history, truth, store, history', truth', store)
    <2> SUFFICES ASSUME NEW t \in Session
                 PROVE  /\ IdsOf(history[t]) \subseteq IdsOf(history'[t])
                        /\ \A c \in IdsOf(history[t]) : truth'[t][c] = truth[t][c]
      BY DEF Grows
    <2>1. CASE t = s
      BY <1>4, <2>1 DEF s
    <2>2. CASE t # s
      BY <1>3, <2>2 DEF s
    <2>3. QED
      BY <2>1, <2>2
  <1>8. StoreGenuine(history', truth', store)
    <2> SUFFICES ASSUME NEW c \in CallId
                 PROVE  /\ store[c].kind \in {"none", "torn", "orig"}
                        /\ store[c].kind # "none" => \E t \in Session : c \in IdsOf(history'[t])
                        /\ \A t \in Session : c \in IdsOf(history'[t]) /\ store[c].kind = "orig" =>
                             store[c] = truth'[t][c]
      BY DEF StoreGenuine
    <2>1. /\ store[c].kind \in {"none", "torn", "orig"}
          /\ store[c].kind # "none" => \E t \in Session : c \in IdsOf(history[t])
          /\ \A t \in Session : c \in IdsOf(history[t]) /\ store[c].kind = "orig" =>
               store[c] = truth[t][c]
      BY <1>6 DEF StoreGenuine
    <2>2. store[c].kind # "none" => \E t \in Session : c \in IdsOf(history'[t])
      BY <1>7, <2>1 DEF Grows
    <2>3. ASSUME NEW t \in Session, c \in IdsOf(history'[t]), store[c].kind = "orig"
          PROVE  store[c] = truth'[t][c]
      <3>1. c \notin IdsOf(turns)
        BY <1>5, <2>1, <2>3
      <3>2. c \in IdsOf(history[t])
        BY <1>3, <1>4, <2>3, <3>1
      <3>3. truth'[t][c] = truth[t][c]
        BY <1>7, <3>2 DEF Grows
      <3>4. QED
        BY <2>1, <2>3, <3>2, <3>3
    <2>4. QED
      BY <2>1, <2>2, <2>3
  <1>9. IdsDisjoint(history')
    <2> SUFFICES ASSUME NEW t \in Session, NEW u \in Session, NEW c,
                        c \in IdsOf(history'[t]), c \in IdsOf(history'[u])
                 PROVE  t = u
      BY DEF IdsDisjoint
    <2>1. \A v \in Session : c \in IdsOf(history'[v]) =>
            c \in IdsOf(history[v]) \/ (v = s /\ c \in IdsOf(turns))
      BY <1>3, <1>4
    <2>2. CASE c \in IdsOf(turns)
      BY <1>5, <2>1, <2>2
    <2>3. CASE c \notin IdsOf(turns)
      BY <1>6, <2>1, <2>3 DEF IdsDisjoint
    <2>4. QED
      BY <2>2, <2>3
  <1>10. HistoryGood(history', truth', store)
    <2> SUFFICES ASSUME NEW t \in Session
                 PROVE  /\ GoodFor(history', truth', store, t, history'[t], Received)
                        /\ Bare(history'[t])
      BY DEF HistoryGood
    <2>1. GoodFor(history, truth, store, t, history[t], Received) /\ Bare(history[t])
      BY DEF Genuine, HistoryGood
    <2>2. GoodFor(history', truth', store, t, history[t], Received)
      BY <1>4, <1>7, <2>1, ForGrows
    <2>3. CASE t # s
      BY <1>3, <2>1, <2>2, <2>3
    <2>4. CASE t = s
      <3>1. GoodList(IdsOf(history'[s]), truth'[s], Live(store), turns, Received)
        BY <1>4 DEF s
      <3>2. GoodList(IdsOf(history'[s]), truth'[s], Live(store), history[s], Received)
        BY <2>2, <2>4 DEF GoodFor
      <3>3. history[s] \in Seq(Message)
        BY <1>2, <1>4
      <3>4. GoodList(IdsOf(history'[s]), truth'[s], Live(store), history[s] \o turns, Received)
        BY <3>1, <3>2, <3>3, GoodConcat
      <3>5. Bare(history[s] \o turns)
        BY <2>1, <2>4, <3>3, BareConcat
      <3>6. QED
        BY <1>3, <2>4, <3>4, <3>5 DEF GoodFor
    <2>5. QED
      BY <2>3, <2>4
  <1>11. ASSUME NEW q \in Req
         PROVE  HandlerGood(history', truth', store, mode, req'[q])
    <2>1. CASE q = r
      BY <1>1, <1>2, <2>1, IdleGood DEF TypeOK
    <2>2. CASE q # r
      <3>1. KeepsFiles(store, store)
        BY DEF KeepsFiles
      <3>2. HandlerGood(history', truth', store, mode, req[q])
        BY <1>7, <3>1, HandlersStay
      <3>3. QED
        BY <1>1, <1>2, <2>2, <3>2 DEF TypeOK
    <2>3. QED
      BY <2>1, <2>2
  <1>12. QED
    BY <1>1, <1>8, <1>9, <1>10, <1>11 DEF Genuine

\* Two messages are the concatenation of each.
LEMMA PairConcat ==
  ASSUME NEW x \in Message, NEW y \in Message
  PROVE  <<x>> \o <<y>> = <<x, y>>
  <1>1. <<x>> \in Seq(Message) /\ <<y>> \in Seq(Message) /\ <<x, y>> \in Seq(Message)
    OBVIOUS
  <1>2. Len(<<x>>) = 1 /\ Len(<<y>>) = 1 /\ Len(<<x, y>>) = 2
    OBVIOUS
  <1>3. <<x>> \o <<y>> \in Seq(Message) /\ Len(<<x>> \o <<y>>) = 2
    BY <1>1, <1>2, ConcatProperties
  <1>4. (<<x>> \o <<y>>)[1] = x /\ (<<x>> \o <<y>>)[2] = y
    BY <1>1, <1>2, ConcatProperties
  <1>5. \A i \in 1 .. 2 : (<<x>> \o <<y>>)[i] = <<x, y>>[i]
    BY <1>4
  <1>6. QED
    BY <1>1, <1>2, <1>3, <1>5, SeqEqual

\* The messages the harness appends, and their ids.
LEMMA SayIds ==
  ASSUME NEW role
  PROVE  IdsOf(<<Say(role)>>) = {} /\ Bare(<<Say(role)>>)
  BY DEF IdsOf, Say, Bare

\* Prose is genuine.
LEMMA SayGood ==
  ASSUME NEW ids, NEW tr, NEW live, NEW role
  PROVE  GoodList(ids, tr, live, <<Say(role)>>, Received)
  <1>1. GoodMessage(ids, tr, live, Say(role), Received)
    BY DEF GoodMessage, Stands, Say, Text, Plain, Received
  <1>2. QED
    BY <1>1 DEF GoodList

\* A tool result has one id.
LEMMA ResultIds ==
  ASSUME NEW c \in CallId, NEW role, NEW x
  PROVE  IdsOf(<<ResultOf(c, role, x)>>) = {c} /\ Bare(<<ResultOf(c, role, x)>>)
  BY SentinelAssumption DEF IdsOf, ResultOf, Bare

\* A result is genuine when it is what its id stands for.
LEMMA ResultGood ==
  ASSUME NEW ids, NEW tr, NEW live, NEW c \in ids, NEW role, NEW x,
         x.kind \in {"text", "orig"}, Stands(tr, c, x)
  PROVE  GoodList(ids, tr, live, <<ResultOf(c, role, x)>>, Received)
  <1>1. GoodMessage(ids, tr, live, ResultOf(c, role, x), Received)
    BY DEF GoodMessage, ResultOf, Received
  <1>2. QED
    BY <1>1 DEF GoodList

\* The conversation goes on with a new prompt.
LEMMA FinalTurnStep ==
  ASSUME UniqueIds, Genuine, TypeOK', NEW r \in Req, FinalTurn(r)
  PROVE  Genuine'
  <1> DEFINE a == <<Say("assistant")>>
             b == <<Say("user")>>
  <1>1. /\ a \in Seq(Message) /\ b \in Seq(Message)
        /\ a \o b = <<Say("assistant"), Say("user")>>
    <2>1. Say("assistant") \in Message /\ Say("user") \in Message
      BY ContentTypes DEF Say, Message, Role
    <2>2. QED
      BY <2>1, PairConcat
  <1>3. Extend(r, a \o b) /\ truth' = truth
    BY <1>1, Zenon DEF FinalTurn
  <1>4. IdsOf(a) = {} /\ Bare(a) /\ IdsOf(b) = {} /\ Bare(b)
    BY SayIds
  <1>5. \A ids, tr, live : GoodList(ids, tr, live, a, Received) /\ GoodList(ids, tr, live, b, Received)
    BY SayGood
  <1> HIDE DEF a, b
  <1>6. a \o b \in Seq(Message) /\ IdsOf(a \o b) = {} /\ Bare(a \o b)
    BY <1>1, <1>4, IdsConcat, BareConcat, ConcatProperties
  <1>7. \A ids, tr, live : GoodList(ids, tr, live, a \o b, Received)
    BY <1>1, <1>5, GoodConcat
  <1>8. QED
    BY <1>3, <1>6, <1>7, ExtendGood

\* The conversation goes on with a new tool result.
LEMMA ToolTurnStep ==
  ASSUME UniqueIds, Genuine, TypeOK', NEW r \in Req, ToolTurn(r)
  PROVE  Genuine'
  <1> DEFINE s == req[r].ses
  <1>1. PICK c \in FreshIds(s), n \in ResultTokens, role \in ResultRoles :
          /\ Extend(r, <<Say("assistant"), ResultOf(c, role, Original(<<s, c>>, n))>>)
          /\ truth' = [truth EXCEPT ![s][c] = Original(<<s, c>>, n)]
    BY DEF ToolTurn
  <1> DEFINE x == Original(<<s, c>>, n)
             a == <<Say("assistant")>>
             b == <<ResultOf(c, role, x)>>
  <1>2. TypeOK /\ s \in Session
    BY <1>1, ClientTyped DEF Genuine, Extend
  <1>3. c \in CallId /\ n \in Nat /\ role \in Role
    BY ConfigAssumption DEF FreshIds, Role
  <1>4. /\ a \in Seq(Message) /\ b \in Seq(Message)
        /\ a \o b = <<Say("assistant"), ResultOf(c, role, x)>>
    <2>1. Say("assistant") \in Message
      BY ContentTypes DEF Say, Message, Role
    <2>2. <<s, c>> \in Body
      BY <1>2, <1>3 DEF Body
    <2>3. ResultOf(c, role, x) \in Message
      BY <1>3, <2>2, ContentTypes, ResultTyped
    <2>4. QED
      BY <2>1, <2>3, PairConcat
  <1>6. Extend(r, a \o b)
    BY <1>1, <1>4, Zenon
  <1>7. /\ truth'[s][c] = x
        /\ \A d \in CallId : d # c => truth'[s][d] = truth[s][d]
        /\ \A t \in Session : t # s => truth'[t] = truth[t]
    BY <1>1, <1>2, <1>3 DEF TypeOK
  <1>8. x.kind = "orig" /\ Stands(truth'[s], c, x)
    <2>1. x.kind = "orig"
      BY DEF Original
    <2>2. QED
      BY <1>3, <1>7, <2>1, SentinelAssumption DEF Stands
  <1>9. IdsOf(a) = {} /\ Bare(a) /\ IdsOf(b) = {c} /\ Bare(b)
    BY <1>3, SayIds, ResultIds
  <1>10. \A ids : c \in ids => /\ GoodList(ids, truth'[s], Live(store), a, Received)
                               /\ GoodList(ids, truth'[s], Live(store), b, Received)
    BY <1>8, SayGood, ResultGood
  <1>11. IdsOf(history[s]) \subseteq CallId /\ c \notin IdsOf(history[s])
    BY <1>2, StateTyped DEF FreshIds, UniqueIds
  <1> HIDE DEF a, b, x, s
  <1>12. a \o b \in Seq(Message) /\ IdsOf(a \o b) = {c} /\ Bare(a \o b)
    BY <1>4, <1>9, IdsConcat, BareConcat, ConcatProperties
  <1>13. GoodList(IdsOf(history[s]) \cup IdsOf(a \o b), truth'[s], Live(store), a \o b, Received)
    BY <1>4, <1>10, <1>12, GoodConcat
  <1>14. \A d \in IdsOf(history[s]) : truth'[s][d] = truth[s][d]
    BY <1>7, <1>11
  <1>15. QED
    BY <1>6, <1>7, <1>12, <1>13, <1>14, ExtendGood DEF s

\* The expand calls of a new message, and their ids.
LEMMA AskIds ==
  ASSUME NEW calls, \A k \in DOMAIN calls : calls[k].id # NoCall
  PROVE  /\ IdsOf(<<AskExpand(calls)>>) = {calls[k].id : k \in DOMAIN calls}
         /\ Bare(<<AskExpand(calls)>>)
  <1> DEFINE m == AskExpand(calls)
  <1>1. /\ m.id = NoCall /\ DOMAIN m.expands = DOMAIN calls
        /\ \A k \in DOMAIN calls : m.expands[k].id = calls[k].id /\ m.expands[k].reply = None
    BY DEF AskExpand
  <1>2. None.kind = "none"
    BY DEF None, Plain
  <1> HIDE DEF m
  <1>3. IdsOf(<<m>>) = {calls[k].id : k \in DOMAIN calls}
    BY <1>1 DEF IdsOf
  <1>4. Bare(<<m>>)
    BY <1>1, <1>2 DEF Bare
  <1>5. QED
    BY <1>3, <1>4 DEF m

\* Expand calls are genuine when they ask for what is stored.
LEMMA AskGood ==
  ASSUME NEW ids, NEW tr, NEW live, NEW calls,
         \A k \in DOMAIN calls :
           /\ calls[k].id \in ids
           /\ calls[k].target # NoCall => /\ calls[k].target \in ids \cap live
                                          /\ tr[calls[k].id] = tr[calls[k].target]
  PROVE  GoodList(ids, tr, live, <<AskExpand(calls)>>, Received)
  <1> DEFINE m == AskExpand(calls)
  <1>1. /\ m.id = NoCall /\ DOMAIN m.expands = DOMAIN calls /\ m.content = Text
        /\ \A k \in DOMAIN calls :
             /\ m.expands[k].id = calls[k].id /\ m.expands[k].target = calls[k].target
             /\ m.expands[k].reply = None
    BY DEF AskExpand
  <1>2. None.kind = "none" /\ Text.kind = "text" /\ Text.tok = 1
    BY DEF None, Text, Plain
  <1> HIDE DEF m
  <1>3. ASSUME NEW k \in DOMAIN m.expands
        PROVE  GoodCall(ids, tr, live, m.expands[k], Received)
    BY <1>1, <1>2 DEF GoodCall
  <1>4. GoodMessage(ids, tr, live, m, Received)
    BY <1>1, <1>2, <1>3 DEF GoodMessage, Stands, Received
  <1>5. QED
    BY <1>4 DEF GoodList, m

\* The harness's own error results for a set of expand calls.
OwnResults(calls) == [k \in DOMAIN calls |-> ResultOf(calls[k].id, "tool", Text)]
AskedIds(calls)   == {calls[k].id : k \in DOMAIN calls}

\* The harness's own results are genuine.
LEMMA OwnGood ==
  ASSUME NEW ids, NEW tr, NEW live, NEW calls, AskedIds(calls) \subseteq ids
  PROVE  /\ GoodList(ids, tr, live, OwnResults(calls), Received) /\ Bare(OwnResults(calls))
         /\ IdsOf(OwnResults(calls)) \subseteq AskedIds(calls)
  <1> DEFINE own == OwnResults(calls)
  <1>1. /\ DOMAIN own = DOMAIN calls
        /\ \A k \in DOMAIN calls :
             /\ own[k].id = calls[k].id /\ own[k].content = Text /\ own[k].expands = <<>>
    BY DEF ResultOf, OwnResults
  <1>2. Text.kind = "text" /\ Text.tok = 1
    BY DEF Text, Plain
  <1> HIDE DEF own
  <1>3. ASSUME NEW k \in DOMAIN calls PROVE GoodMessage(ids, tr, live, own[k], Received)
    BY <1>1, <1>2 DEF GoodMessage, Stands, Received, AskedIds
  <1>4. GoodList(ids, tr, live, own, Received)
    BY <1>1, <1>3 DEF GoodList
  <1>5. Bare(own)
    BY <1>1 DEF Bare
  <1>6. IdsOf(own) \subseteq AskedIds(calls)
    BY <1>1 DEF IdsOf, AskedIds
  <1>7. QED
    BY <1>4, <1>5, <1>6 DEF own

\* No message breaks no rule.
LEMMA NoneGood ==
  ASSUME NEW ids, NEW tr, NEW live
  PROVE  GoodList(ids, tr, live, <<>>, Received) /\ Bare(<<>>) /\ IdsOf(<<>>) = {}
  BY DEF GoodList, Bare, IdsOf

\* The conversation goes on with expand calls.
LEMMA ExpandTurnStep ==
  ASSUME UniqueIds, Genuine, TypeOK', NEW r \in Req, ExpandTurn(r)
  PROVE  Genuine'
  <1> DEFINE s       == req[r].ses
             targets == StubIds(req[r].wire.msgs) \cup {NoCall}
             Own(calls, own) ==
               IF own THEN [k \in DOMAIN calls |-> ResultOf(calls[k].id, "tool", Text)]
               ELSE <<>>
             Stood(calls) == [c \in CallId |->
               IF \E k \in DOMAIN calls : calls[k].id = c /\ calls[k].target # NoCall
               THEN truth[s][calls[CHOOSE k \in DOMAIN calls : calls[k].id = c].target]
               ELSE truth[s][c]]
  <1>1. PICK calls \in UNION {[1 .. m -> [id : FreshIds(s), target : targets]] :
                             m \in 1 .. MaxExpands} :
          /\ \A j, k \in DOMAIN calls : calls[j].id = calls[k].id => j = k
          /\ \E own \in BOOLEAN : Extend(r, <<AskExpand(calls)>> \o Own(calls, own))
          /\ truth' = [truth EXCEPT ![s] = Stood(calls)]
    BY Zenon DEF ExpandTurn
  <1>2. PICK m \in 1 .. MaxExpands :
          calls \in [1 .. m -> [id : FreshIds(s), target : targets]]
    OBVIOUS
  <1>3. PICK own \in BOOLEAN : Extend(r, <<AskExpand(calls)>> \o Own(calls, own))
    BY <1>1
  <1> DEFINE a   == <<AskExpand(calls)>>
             b   == Own(calls, own)
             D   == {calls[k].id : k \in DOMAIN calls}
             ids == IdsOf(history[s]) \cup D
             tr  == Stood(calls)
  <1>4. TypeOK /\ s \in Session /\ req[r].pc = "sent"
    BY <1>3, ClientTyped DEF Genuine, Extend
  <1>5. IdsOf(history[s]) \subseteq CallId /\ req[r].wire.msgs \in Seq(Message)
    BY <1>4, StateTyped
  <1>6. \A c \in targets \ {NoCall} : c \in IdsOf(history[s]) /\ c \in Live(store)
    <2>1. StubIds(req[r].wire.msgs) \subseteq IdsOf(history[s])
      BY <1>4, ShownStubs
    <2>2. \A c \in StubIds(req[r].wire.msgs) : Rehydratable(store, c)
      BY <1>4 DEF Genuine, HandlerGood, OutcomeGood, PacketGood
    <2>3. QED
      BY <1>5, <2>1, <2>2 DEF Rehydratable, Live
  <1>7. FreshIds(s) \subseteq CallId /\ \A c \in FreshIds(s) : c \notin IdsOf(history[s])
    BY <1>4 DEF FreshIds, UniqueIds
  <1> HIDE DEF targets
  <1>8. /\ \A k \in DOMAIN calls : /\ calls[k].id \in FreshIds(s)
                                   /\ calls[k].target \in targets
        /\ D \subseteq FreshIds(s) /\ ids \subseteq CallId
        /\ m \in Nat /\ targets \subseteq CallId \cup {NoCall}
        /\ calls \in [1 .. m -> [id : CallId, target : targets]]
    <2>1. \A k \in DOMAIN calls : calls[k].id \in FreshIds(s) /\ calls[k].target \in targets
      BY <1>2
    <2>2. m \in Nat
      BY ConfigAssumption
    <2>3. QED
      BY <1>2, <1>5, <1>6, <1>7, <2>1, <2>2
  <1>9. /\ truth'[s] = tr
        /\ \A t \in Session : t # s => truth'[t] = truth[t]
    BY <1>1, <1>4 DEF TypeOK
  <1>10. \A c \in IdsOf(history[s]) : tr[c] = truth[s][c]
    BY <1>5, <1>7, <1>8
  <1>11. ASSUME NEW k \in DOMAIN calls, calls[k].target # NoCall
         PROVE  tr[calls[k].id] = tr[calls[k].target]
    <2>1. calls[k].id \in CallId
      BY <1>7, <1>8
    <2>2. (CHOOSE j \in DOMAIN calls : calls[j].id = calls[k].id) = k
      BY <1>1
    <2>3. tr[calls[k].id] = truth[s][calls[k].target]
      BY <1>11, <2>1, <2>2
    <2>4. QED
      BY <1>6, <1>8, <1>10, <1>11, <2>3
  <1> HIDE DEF tr, Stood
  <1>12. GoodList(ids, tr, Live(store), a, Received)
    <2>1. \A k \in DOMAIN calls :
            /\ calls[k].id \in ids
            /\ calls[k].target # NoCall => /\ calls[k].target \in ids \cap Live(store)
                                           /\ tr[calls[k].id] = tr[calls[k].target]
      BY <1>6, <1>8, <1>11
    <2> HIDE DEF ids
    <2>2. QED
      BY <2>1, AskGood
  <1>13. IdsOf(a) = D /\ Bare(a)
    BY <1>7, <1>8, AskIds, SentinelAssumption
  <1>14. GoodList(ids, tr, Live(store), b, Received) /\ Bare(b) /\ IdsOf(b) \subseteq D
    <2>1. CASE own
      <3>1. b = OwnResults(calls) /\ D = AskedIds(calls)
        BY <2>1 DEF OwnResults, AskedIds
      <3>2. D \subseteq ids
        OBVIOUS
      <3> HIDE DEF b, ids, D
      <3>3. QED
        BY <3>1, <3>2, OwnGood
    <2>2. CASE ~ own
      <3>1. b = <<>>
        BY <2>2
      <3>2. QED
        BY <3>1, NoneGood
    <2>3. QED
      BY <2>1, <2>2
  <1>15. a \in Seq(Message) /\ b \in Seq(Message)
    <2>1. AskExpand(calls) \in Message
      BY <1>8, AskTyped
    <2>2. [k \in DOMAIN calls |-> ResultOf(calls[k].id, "tool", Text)] \in Seq(Message)
      <3>1. \A k \in 1 .. m : ResultOf(calls[k].id, "tool", Text) \in Message
        BY <1>8, ContentTypes, ResultTyped DEF Role
      <3>2. [k \in DOMAIN calls |-> ResultOf(calls[k].id, "tool", Text)] \in [1 .. m -> Message]
        BY <1>8, <3>1
      <3>3. QED
        BY <1>8, <3>2, FunctionIsSeq
    <2>3. QED
      BY <2>1, <2>2, EmptyLists
  <1>16. Extend(r, a \o b)
    BY <1>3
  <1> HIDE DEF a, b, ids, D, Own
  <1>17. a \o b \in Seq(Message) /\ IdsOf(a \o b) = D /\ Bare(a \o b)
    BY <1>13, <1>14, <1>15, IdsConcat, BareConcat, ConcatProperties
  <1>18. GoodList(ids, tr, Live(store), a \o b, Received)
    BY <1>12, <1>14, <1>15, GoodConcat
  <1>19. GoodList(IdsOf(history[s]) \cup IdsOf(a \o b), truth'[s], Live(store), a \o b, Received)
    BY <1>9, <1>17, <1>18 DEF ids
  <1> HIDE DEF s
  <1>20. QED
    BY <1>8, <1>9, <1>10, <1>16, <1>17, <1>19, ExtendGood DEF s

\* A restart loses the handlers and keeps a genuine store.
LEMMA RestartGood ==
  ASSUME Genuine, TypeOK', Restart, StoreGenuine(history, truth, store'),
         Grows(history, truth, store, history, truth, store')
  PROVE  Genuine'
  <1>1. req' = [r \in Req |-> Idle] /\ UNCHANGED <<history, truth>>
    BY DEF Restart
  <1>2. \A r \in Req : HandlerGood(history, truth, store', mode', req'[r])
    BY <1>1, IdleGood
  <1>3. HistoryGood(history, truth, store')
    <2> SUFFICES ASSUME NEW s \in Session
                 PROVE  GoodFor(history, truth, store', s, history[s], Received) /\ Bare(history[s])
      BY DEF HistoryGood
    <2>1. GoodFor(history, truth, store, s, history[s], Received) /\ Bare(history[s])
      BY DEF Genuine, HistoryGood
    <2>2. NoCall \notin IdsOf(history[s])
      BY DEF IdsOf
    <2>3. QED
      BY <2>1, <2>2, ForGrows
  <1>4. IdsDisjoint(history)
    BY DEF Genuine
  <1>5. QED
    BY <1>1, <1>2, <1>3, <1>4 DEF Genuine

\* What the store becomes when a handler's write is cut short.
LEMMA CutShort ==
  ASSUME LightSummaries, Genuine, NEW r \in Req, req[r].pc # "idle",
         NEW st \in InterruptedWrites(req[r].parsed)
  PROVE  /\ StoreGenuine(history, truth, st)
         /\ Grows(history, truth, store, history, truth, st)
         /\ \A c \in CallId : store[c].kind = "orig" => st[c] \in {store[c], Torn}
  <1> DEFINE s == req[r].ses
  <1>1. /\ TypeOK /\ s \in Session /\ req[r].parsed \in Seq(Message)
        /\ IdsOf(history[s]) \subseteq CallId
        /\ GoodList(IdsOf(history[s]), truth[s], Live(store), req[r].parsed, Received)
        /\ OnceAnswered(req[r].parsed)
        /\ StoreGenuine(history, truth, store) /\ IdsDisjoint(history)
    BY AnsweredHolds
  <1>2. StoreStep(history, truth, store, st, s, TRUE)
    BY <1>1, InterruptedStep
  <1> HIDE DEF s
  <1>3. QED
    BY <1>1, <1>2, StepGenuine

\* The invariant holds at first.
LEMMA InitGenuine == ASSUME Init PROVE Genuine
  <1>1. TypeOK
    BY InitTyped
  <1>2. /\ \A c \in CallId : store[c] = None
        /\ \A s \in Session : history[s] = <<Say("user")>>
        /\ \A r \in Req : req[r] = Idle
    BY DEF Init
  <1>3. None.kind = "none"
    BY DEF None, Plain
  <1>4. StoreGenuine(history, truth, store)
    BY <1>2, <1>3 DEF StoreGenuine
  <1>5. \A s \in Session : IdsOf(history[s]) = {}
    BY <1>2, SayIds
  <1>6. IdsDisjoint(history)
    BY <1>5 DEF IdsDisjoint
  <1>7. HistoryGood(history, truth, store)
    BY <1>2, SayIds, SayGood DEF HistoryGood, GoodFor
  <1>8. \A r \in Req : HandlerGood(history, truth, store, mode, req[r])
    BY <1>2, IdleGood
  <1>9. QED
    BY <1>1, <1>4, <1>6, <1>7, <1>8 DEF Genuine

\* Every step keeps the invariant.
LEMMA NextGenuine ==
  ASSUME UniqueIds, LightSummaries, Genuine, [Next]_vars
  PROVE  Genuine'
  <1>1. TypeOK'
    BY NextTyped DEF Genuine
  <1>2. ASSUME NEW r \in Req, NEW s \in Session, Receive(r, s) PROVE Genuine'
    BY <1>1, <1>2, ReceiveGood
  <1>3. ASSUME NEW s \in Session, GiveUp(s) PROVE Genuine'
    BY <1>1, <1>3 DEF GiveUp, Genuine
  <1>4. ASSUME NEW r \in Req, Answer(r) PROVE Genuine'
    BY <1>1, <1>4, AnswerStep
  <1>5. ASSUME NEW r \in Req, Rewrite(r) PROVE Genuine'
    BY <1>1, <1>5, RewriteStep
  <1>6. ASSUME NEW r \in Req, PersistFails(r) PROVE Genuine'
    BY <1>1, <1>6, PersistFailsStep
  <1>7. ASSUME NEW r \in Req, ForwardRewrite(r) PROVE Genuine'
    <2>1. req[r].flag # "off"
      <3>1. RequestGood(history, truth, store, req[r])
        BY DEF Genuine, HandlerGood
      <3>2. QED
        BY <1>7, <3>1 DEF ForwardRewrite, RequestGood
    <2>2. QED
      BY <1>1, <1>7, <2>1, SendStep DEF ForwardRewrite
  <1>8. ASSUME NEW r \in Req, DebugReply(r) PROVE Genuine'
    BY <1>1, <1>8, FinishGood DEF DebugReply
  <1>9. ASSUME NEW r \in Req, ForwardFallback(r) PROVE Genuine'
    <2>1. req[r].pc # "idle" /\ (req[r].flag = "off" => req[r].pc = "received")
      <3>1. RequestGood(history, truth, store, req[r])
        BY DEF Genuine, HandlerGood
      <3>2. QED
        BY <1>9, <3>1 DEF ForwardFallback, RequestGood
    <2>2. QED
      BY <1>1, <1>9, <2>1, SendStep DEF ForwardFallback
  <1>10. ASSUME NEW r \in Req, Fail(r) PROVE Genuine'
    BY <1>1, <1>10, FinishGood DEF Fail
  <1>11. ASSUME NEW r \in Req, FinalTurn(r) PROVE Genuine'
    BY <1>1, <1>11, FinalTurnStep
  <1>12. ASSUME NEW r \in Req, ToolTurn(r) PROVE Genuine'
    BY <1>1, <1>12, ToolTurnStep
  <1>13. ASSUME NEW r \in Req, ExpandTurn(r) PROVE Genuine'
    BY <1>1, <1>13, ExpandTurnStep
  <1>14. ASSUME Crash PROVE Genuine'
    BY <1>1, <1>14, RestartGood, NothingWritten DEF Crash
  <1>15. ASSUME NEW r \in Req, CrashInPersist(r) PROVE Genuine'
    <2>1. /\ Restart /\ StoreGenuine(history, truth, store')
          /\ Grows(history, truth, store, history, truth, store')
      BY <1>15, CutShort DEF CrashInPersist
    <2>2. QED
      BY <1>1, <2>1, RestartGood
  <1>16. CASE UNCHANGED vars
    BY <1>1, <1>16 DEF vars, Genuine
  <1>17. QED
    BY <1>2, <1>3, <1>4, <1>5, <1>6, <1>7, <1>8, <1>9, <1>10, <1>11, <1>12, <1>13,
       <1>14, <1>15, <1>16 DEF Next

\* Only Rewrite, PersistFails and CrashInPersist write the store, and none of
\* them replaces an original by another body.
LEMMA NextKeepsOriginals ==
  ASSUME LightSummaries, Genuine, [Next]_vars, NEW c \in CallId, store[c].kind = "orig"
  PROVE  store'[c] \in {store[c], Torn}
  <1>1. ASSUME NEW r \in Req, Rewrite(r) PROVE store'[c] \in {store[c], Torn}
    <2> DEFINE s == req[r].ses
    <2>1. PICK e \in Elisions(req[r].parsed) : store' = Persist(e.work, e.elide)
      BY <1>1 DEF Rewrite
    <2>2. /\ s \in Session /\ req[r].parsed \in Seq(Message)
          /\ IdsOf(history[s]) \subseteq CallId
          /\ GoodList(IdsOf(history[s]), truth[s], Live(store), req[r].parsed, Received)
          /\ OnceAnswered(req[r].parsed)
          /\ StoreGenuine(history, truth, store) /\ IdsDisjoint(history)
      BY <1>1, AnsweredHolds DEF Rewrite
    <2> HIDE DEF s
    <2>3. Originals(IdsOf(history[s]), truth[s], e.work, e.elide)
      BY <2>2, ElisionGood
    <2>4. e.elide \in SUBSET e.elide
      OBVIOUS
    <2>5. StoreStep(history, truth, store, store', s, FALSE)
      BY <2>1, <2>3, <2>4, PersistStep
    <2>6. QED
      BY <2>2, <2>5, StepGenuine
  <1>2. ASSUME NEW r \in Req, PersistFails(r) PROVE store'[c] \in {store[c], Torn}
    BY <1>2, CutShort DEF PersistFails
  <1>3. ASSUME NEW r \in Req, CrashInPersist(r) PROVE store'[c] \in {store[c], Torn}
    BY <1>3, CutShort DEF CrashInPersist
  <1>4. CASE UNCHANGED store
    BY <1>4
  <1>5. QED
    BY <1>1, <1>2, <1>3, <1>4
    DEF Next, vars, Receive, GiveUp, Answer, ForwardRewrite, DebugReply, ForwardFallback, Send,
        Fail, FinalTurn, ToolTurn, ExpandTurn, Extend, Crash

(***************************************************************************)
(* The invariant gives the properties.                                     *)
(***************************************************************************)

\* A genuine state keeps every stub expandable.
LEMMA GenuineRehydrates == ASSUME Genuine PROVE StubsRehydrate
  <1> SUFFICES ASSUME NEW r \in Sent, NEW c \in StubIds(req[r].wire.msgs)
               PROVE  /\ req[r].wire.offer
                      /\ \/ store[c].kind = "orig" /\ store[c] = truth[req[r].ses][c]
                         \/ DiskFaults /\ store[c].kind = "torn"
    BY DEF StubsRehydrate
  <1>1. r \in Req /\ req[r].pc = "sent"
    BY DEF Sent
  <1>2. PacketGood(history, truth, store, req[r].ses, req[r].wire)
    BY <1>1 DEF Genuine, HandlerGood, OutcomeGood
  <1>3. req[r].wire.offer /\ Rehydratable(store, c)
    BY <1>2 DEF PacketGood
  <1>4. c \in IdsOf(history[req[r].ses]) /\ c \in CallId /\ req[r].ses \in Session
    BY <1>1, ShownStubs, AnsweredHolds
  <1>5. store[c].kind = "orig" => store[c] = truth[req[r].ses][c]
    BY <1>4 DEF Genuine, StoreGenuine
  <1>6. QED
    BY <1>3, <1>5 DEF Rehydratable

\* A genuine state shows only genuine replies.
LEMMA GenuineReplies == ASSUME Genuine PROVE RepliesAreOriginals
  <1> SUFFICES ASSUME NEW r \in Sent, NEW p \in Calls(req[r].wire.msgs),
                      req[r].wire.msgs[p[1]].expands[p[2]].reply.kind # "none"
               PROVE  LET e == req[r].wire.msgs[p[1]].expands[p[2]] IN
                      /\ e.id \notin AnsweredIds(req[r].wire.msgs)
                      /\ IF e.target = NoCall THEN e.reply.kind = "error"
                         ELSE \/ e.reply = Stub(e.id)
                              \/ e.reply.kind = "orig" /\ e.reply = truth[req[r].ses][e.id]
                              \/ /\ e.reply.kind = "summary"
                                 /\ e.reply.body = truth[req[r].ses][e.id].body
    BY DEF RepliesAreOriginals
  <1> DEFINE msgs == req[r].wire.msgs
             ids  == IdsOf(history[req[r].ses])
             tr   == truth[req[r].ses]
  <1>1. r \in Req /\ req[r].pc = "sent"
    BY DEF Sent
  <1>2. GoodList(ids, tr, Live(store), msgs, Shown) /\ OnceAnswered(msgs)
    BY <1>1 DEF Genuine, HandlerGood, OutcomeGood, PacketGood, GoodFor
  <1>3. PICK i \in DOMAIN msgs : \E k \in DOMAIN msgs[i].expands : p = <<i, k>>
    BY DEF Calls
  <1>4. PICK k \in DOMAIN msgs[i].expands : p = <<i, k>>
    BY <1>3
  <1> DEFINE e == msgs[i].expands[k]
  <1>5. e = req[r].wire.msgs[p[1]].expands[p[2]] /\ e.reply.kind # "none"
    BY <1>4
  <1>6. GoodCall(ids, tr, Live(store), e, Shown) /\ e.id \notin AnsweredIds(msgs)
    BY <1>2, <1>5 DEF GoodList, GoodMessage, OnceAnswered
  <1> HIDE DEF e
  <1>7. /\ e.reply.kind \in {"orig", "stub", "summary", "error"}
        /\ e.reply.kind = "error" <=> e.target = NoCall
        /\ Stands(tr, e.id, e.reply)
    BY <1>5, <1>6 DEF GoodCall, Shown, Worked, Received
  <1>8. QED
    BY <1>5, <1>6, <1>7 DEF Stands

\* A genuine state forwards rewrites in enforce mode only.
LEMMA GenuineModes == ASSUME Genuine PROVE OnlyEnforceRewrites
  <1> SUFFICES ASSUME NEW r \in Sent
               PROVE  LET h == req[r] IN
                      /\ mode # "enforce" =>
                           /\ ~ h.wire.offer
                           /\ \A p \in Items(h.wire.msgs) :
                                /\ ContentAt(h.wire.msgs, p).kind \notin {"stub", "summary"}
                                /\ p[2] = 0 => ContentAt(h.wire.msgs, p) = ContentAt(h.raw, p)
                      /\ h.flag = "off" => h.wire.msgs = h.raw /\ h.wire.tools = "all"
    BY DEF OnlyEnforceRewrites
  <1> DEFINE h == req[r]
  <1>1. r \in Req /\ h.pc = "sent"
    BY DEF Sent
  <1>2. ModeKept(mode, h) /\ RequestGood(history, truth, store, h)
    BY <1>1 DEF Genuine, HandlerGood
  <1>3. h.raw \in Seq(Message) /\ h.parsed \in Seq(Message)
    BY <1>1, StateTyped DEF Genuine
  <1>4. ASSUME mode # "enforce", NEW p \in Items(h.wire.msgs)
        PROVE  /\ ContentAt(h.wire.msgs, p).kind \notin {"stub", "summary"}
               /\ p[2] = 0 => ContentAt(h.wire.msgs, p) = ContentAt(h.raw, p)
    <2>1. h.wire.msgs \in {h.parsed, h.raw}
      BY <1>1, <1>2, <1>4 DEF ModeKept
    <2>2. /\ GoodFor(history, truth, store, h.ses, h.wire.msgs, Received)
          /\ h.wire.msgs \in Seq(Message)
      BY <1>1, <1>2, <1>3, <2>1 DEF RequestGood
    <2>3. ContentAt(h.wire.msgs, p).kind \in Received
      BY <2>2, ReadGood DEF GoodFor
    <2>4. p[1] \in DOMAIN h.wire.msgs
      <3>1. CASE p \in {<<i, 0>> : i \in DOMAIN h.wire.msgs}
        BY <3>1
      <3>2. CASE p \in Calls(h.wire.msgs)
        <4>1. PICK i \in DOMAIN h.wire.msgs :
                \E k \in DOMAIN h.wire.msgs[i].expands : p = <<i, k>>
          BY <3>2 DEF Calls
        <4>2. QED
          BY <4>1
      <3>3. QED
        BY <1>4, <3>1, <3>2 DEF Items
    <2>5. DOMAIN h.parsed = DOMAIN h.raw /\ \A i \in DOMAIN h.raw : h.parsed[i].content = h.raw[i].content
      BY <1>1, <1>2 DEF RequestGood, SameContents
    <2>6. p[2] = 0 => ContentAt(h.wire.msgs, p) = ContentAt(h.raw, p)
      BY <2>1, <2>4, <2>5 DEF ContentAt
    <2>7. QED
      BY <2>3, <2>6 DEF Received
  <1>5. QED
    BY <1>1, <1>2, <1>4 DEF ModeKept

(***************************************************************************)
(* Theorems                                                                *)
(***************************************************************************)

\* The invariant: whatever the interleaving of the handlers, the retries, the
\* failed writes and the restarts, the store, the conversations and all bodies
\* in flight are genuine.
THEOREM StaysGenuine == ASSUME UniqueIds, LightSummaries PROVE Spec => []Genuine
  <1>1. Init => Genuine
    BY InitGenuine
  <1>2. Genuine /\ [Next]_vars => Genuine'
    BY NextGenuine
  <1>3. QED
    BY <1>1, <1>2, PTL DEF Spec

\* Every stub shown upstream comes with the expand tool and a file holding the
\* result it stands for (tier1.js applyTier1, rewrite.js 373-382).
THEOREM StubsStayRehydratable ==
  ASSUME UniqueIds, LightSummaries PROVE Spec => []StubsRehydrate
  <1>1. Genuine => StubsRehydrate
    BY GenuineRehydrates
  <1>2. QED
    BY <1>1, StaysGenuine, PTL

\* Every reply the proxy gives to an expand call is what the call stands for,
\* and no call is answered twice (rewrite.js answerExpandCalls).
THEOREM RepliesStayOriginal ==
  ASSUME UniqueIds, LightSummaries PROVE Spec => []RepliesAreOriginals
  <1>1. Genuine => RepliesAreOriginals
    BY GenuineReplies
  <1>2. QED
    BY <1>1, StaysGenuine, PTL

\* The store never holds a stub, a summary or an error reply in the place of an
\* original (tier1.js:4-5 "persist the original verbatim").
THEOREM StoreHoldsOriginals ==
  ASSUME UniqueIds, LightSummaries PROVE Spec => []OriginalsOnDisk
  <1>1. Genuine => OriginalsOnDisk
    BY DEF Genuine, StoreGenuine, OriginalsOnDisk
  <1>2. QED
    BY <1>1, StaysGenuine, PTL

\* No step replaces an original on disk by another body (tier1.js persist).
THEOREM OriginalsAreKept ==
  ASSUME UniqueIds, LightSummaries PROVE Spec => OriginalsStay
  <1>1. Genuine /\ [Next]_vars =>
          [\A c \in CallId : store[c].kind = "orig" => store'[c] \in {store[c], Torn}]_store
    BY NextKeepsOriginals
  <1>2. QED
    BY <1>1, StaysGenuine, PTL DEF Spec, OriginalsStay

\* Outside enforce mode and with x-compact: off the upstream gets the client's
\* own messages (server.js 382-395).
THEOREM OnlyEnforceEverRewrites ==
  ASSUME UniqueIds, LightSummaries PROVE Spec => []OnlyEnforceRewrites
  <1>1. Genuine => OnlyEnforceRewrites
    BY GenuineModes
  <1>2. QED
    BY <1>1, StaysGenuine, PTL

(***************************************************************************)
(* The replies to the newest expand calls.  They are the last items of a   *)
(* request: after one of them come at most the replies to the later calls  *)
(* of its message, so the window holds as many of them as it has turns.    *)
(***************************************************************************)

\* After a reply of the last message come only the replies to its later calls.
LEMMA LastReplies ==
  ASSUME NEW msgs \in Seq(Message), NEW last, last = Len(msgs), last > 0,
         NEW k \in Nat \ {0}, <<last, k>> \in Items(msgs)
  PROVE  Cardinality(After(msgs, <<last, k>>)) <= Len(msgs[last].expands) - k
  <1> DEFINE n == Len(msgs[last].expands)
  <1>1. /\ DOMAIN msgs = 1 .. Len(msgs) /\ Len(msgs) \in Nat /\ last \in DOMAIN msgs
    BY LenProperties
  <1>2. n \in Nat /\ DOMAIN msgs[last].expands = 1 .. n
    <2>1. msgs[last].expands \in Seq(Expand)
      BY <1>1, MessageAt
    <2>2. QED
      BY <2>1, LenProperties
  <1>3. \A q \in Items(msgs) : /\ q = <<q[1], q[2]>> /\ q[1] \in DOMAIN msgs
                               /\ q[2] = 0 \/ q[2] \in DOMAIN msgs[q[1]].expands
    <2> SUFFICES ASSUME NEW q \in Items(msgs)
                 PROVE  /\ q = <<q[1], q[2]>> /\ q[1] \in DOMAIN msgs
                        /\ q[2] = 0 \/ q[2] \in DOMAIN msgs[q[1]].expands
      OBVIOUS
    <2>1. CASE q \in {<<i, 0>> : i \in DOMAIN msgs}
      BY <2>1
    <2>2. CASE q \in Calls(msgs)
      <3>1. PICK i \in DOMAIN msgs : q \in {<<i, j>> : j \in DOMAIN msgs[i].expands}
        BY <2>2 DEF Calls
      <3>2. PICK j \in DOMAIN msgs[i].expands : q = <<i, j>>
        BY <3>1
      <3>3. QED
        BY <3>2
    <2>3. QED
      BY <2>1, <2>2 DEF Items
  <1>4. k \in 1 .. n
    <2>1. <<last, k>>[1] = last /\ <<last, k>>[2] = k
      OBVIOUS
    <2>2. QED
      BY <1>2, <1>3, <2>1
  <1> DEFINE later == Column(last, k + 1, n)
  <1>5. After(msgs, <<last, k>>) \subseteq later
    <2> SUFFICES ASSUME NEW q \in Items(msgs), Later(<<last, k>>, q) PROVE q \in later
      BY DEF After, NonSystem
    <2>1. /\ q = <<q[1], q[2]>> /\ q[1] \in 1 .. Len(msgs)
          /\ q[2] = 0 \/ q[2] \in DOMAIN msgs[q[1]].expands
      BY <1>1, <1>3
    <2>2. last < q[1] \/ (last = q[1] /\ k < q[2])
      BY DEF Later
    <2>3. last = q[1] /\ k < q[2]
      BY <1>1, <2>1, <2>2
    <2>4. q[2] \in k + 1 .. n
      BY <1>2, <1>4, <2>1, <2>3
    <2>5. QED
      BY <2>1, <2>3, <2>4 DEF Column
  <1>6. IsFiniteSet(later) /\ Cardinality(later) = n - k
    <2> DEFINE R == k + 1 .. n
               D == {last}
    <2>1. /\ IsFiniteSet(R) /\ Cardinality(R) = n - k
      <3> DEFINE a == k + 1
      <3>1. a \in Int /\ n \in Int /\ n - a + 1 = n - k /\ (a > n => n - k = 0)
        BY <1>2, <1>4
      <3> HIDE DEF a, n
      <3>2. /\ IsFiniteSet(a .. n)
            /\ Cardinality(a .. n) = IF a > n THEN 0 ELSE n - a + 1
        BY <3>1, FS_Interval
      <3>3. QED
        BY <3>1, <3>2 DEF a
    <2>2. IsFiniteSet(D) /\ Cardinality(D) = 1
      BY FS_Singleton
    <2>3. Cardinality(R) \in Nat /\ n - k \in Nat
      BY <1>2, <1>4, <2>1
    <2>4. later = D \X R
      BY DEF Column
    <2> HIDE DEF D, R, later, n
    <2>5. IsFiniteSet(D \X R) /\ Cardinality(D \X R) = Cardinality(D) * Cardinality(R)
      BY <2>1, <2>2, FS_Product
    <2>6. QED
      BY <2>1, <2>2, <2>3, <2>4, <2>5
  <1> HIDE DEF later
  <1>7. After(msgs, <<last, k>>) \in SUBSET later
    BY <1>5
  <1>8. Cardinality(After(msgs, <<last, k>>)) <= Cardinality(later)
    BY <1>6, <1>7, FS_Subset
  <1>9. QED
    BY <1>6, <1>8

LEMMA FreshDelivered ==
  ASSUME Genuine, WindowInv
  PROVE  FreshExpandDelivered
  <1> SUFFICES ASSUME NEW r \in Sent, NEW p \in LostReplies(req[r].wire.msgs)
               PROVE  Len(req[r].parsed[Len(req[r].parsed)].expands) - p[2]
                        >= Least(KeepTurns, JevTurnCap)
    BY DEF FreshExpandDelivered
  <1> DEFINE full == req[r].parsed
             out  == req[r].wire.msgs
             last == Len(full)
  <1>1. r \in Req /\ req[r].pc = "sent"
    BY DEF Sent
  <1>2. full \in Seq(Message) /\ out \in Seq(Message) /\ req[r].ses \in Session
    BY <1>1 DEF Genuine, TypeOK, Handler, HandlerState, Packet
  <1>3. Len(out) = last /\ Spares(full, out)
    BY <1>1 DEF WindowInv, HandlerSpares, Spares
  <1>4. p \in Calls(out) /\ p[1] = last /\ ContentAt(out, p).kind \in {"stub", "summary"}
    BY <1>3 DEF LostReplies, LastCalls
  <1>5. PICK i \in DOMAIN out : \E j \in DOMAIN out[i].expands : p = <<i, j>>
    BY <1>4 DEF Calls
  <1>6. PICK k \in DOMAIN out[i].expands : p = <<i, k>>
    BY <1>5
  <1>7. i = last /\ p = <<last, k>> /\ p[2] = k
    BY <1>4, <1>6
  <1>8. k \in Nat \ {0}
    <2>1. out[i].expands \in Seq(Expand)
      BY <1>2, MessageAt
    <2>2. DOMAIN out[i].expands = 1 .. Len(out[i].expands)
      BY <2>1, LenProperties
    <2>3. QED
      BY <1>6, <2>2
  <1>9. last > 0 /\ last \in Nat
    <2>1. DOMAIN out = 1 .. Len(out) /\ Len(out) \in Nat
      BY <1>2, LenProperties
    <2>2. QED
      BY <1>3, <1>7, <2>1
  <1>10. p \in Items(out)
    <2>1. out[p[1]].expands[p[2]].reply.kind \in {"stub", "summary"}
      BY <1>4, <1>7, <1>8 DEF ContentAt
    <2>2. QED
      BY <1>4, <2>1 DEF Items
  <1>11. ~ (p \in Items(full) /\ ContentAt(out, p) = ContentAt(full, p))
    <2>1. GoodFor(history, truth, store, req[r].ses, full, Received)
      BY <1>1 DEF Genuine, HandlerGood, RequestGood
    <2>2. \A q \in Items(full) : ContentAt(full, q).kind \in Received
      BY <1>2, <2>1, ReadGood DEF GoodFor
    <2> HIDE DEF full, out
    <2>3. QED
      BY <1>4, <2>2 DEF Received
  <1>12. Outside(full, p)
    BY <1>3, <1>10, <1>11 DEF Spares
  <1> HIDE DEF full, out
  <1>13. Cardinality(After(full, p)) <= Len(full[last].expands) - k
    <2>1. p \in Items(full)
      BY <1>12 DEF Outside
    <2>2. QED
      BY <1>2, <1>7, <1>8, <1>9, <2>1, LastReplies
  <1>14. Cardinality(After(full, p)) \in Nat
    <2>1. After(full, p) \in SUBSET Items(full)
      BY DEF After, NonSystem
    <2>2. QED
      BY <1>2, <2>1, CountsTyped
  <1>15. Len(full[last].expands) \in Nat
    <2>1. last \in DOMAIN full
      BY <1>2, <1>9, LenProperties
    <2>2. full[last].expands \in Seq(Expand)
      BY <1>2, <2>1, MessageAt
    <2>3. QED
      BY <2>2, LenProperties
  <1>16. Cardinality(After(full, p)) >= Least(KeepTurns, JevTurnCap)
    BY <1>12 DEF Outside
  <1>17. Least(KeepTurns, JevTurnCap) \in Nat
    BY ConfigAssumption DEF Least
  <1> HIDE DEF last
  <1>18. Len(full[last].expands) - p[2] >= Least(KeepTurns, JevTurnCap)
    BY <1>7, <1>8, <1>13, <1>14, <1>15, <1>16, <1>17
  <1>19. QED
    BY <1>18 DEF full, last

\* Of the replies to the calls the model has just made, however many those are,
\* the newest reach it in full: as many as the smallest window has turns
\* (rewrite.js:94-97, verbatim.js pickVerbatim).
THEOREM FreshExpandsAreDelivered ==
  ASSUME UniqueIds, LightSummaries PROVE Spec => []FreshExpandDelivered
  <1>1. Init => WindowInv
    BY InitTyped DEF Init, WindowInv, HandlerSpares, Idle
  <1>2. Genuine /\ WindowInv => FreshExpandDelivered
    BY FreshDelivered
  <1>3. QED
    BY <1>1, <1>2, WindowStep, StaysGenuine, PTL DEF Spec
=============================================================================
