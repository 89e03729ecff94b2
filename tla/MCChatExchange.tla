--------------------------- MODULE MCChatExchange ---------------------------
(* Instances of ChatExchange for TLC.                                         *)
EXTENDS ChatExchange

CONSTANTS h1, h2
BothHooks == {h1, h2}
Does      == {"inject", "edit", "edit out", "messages", "outbound", "buffer", "abort"}

\* Hook h does d[h] and is registered for the phase w[h], h1 before h2.
Registered(d, w, used) ==
  [does |-> d,
   hooks |-> [p \in Phases |-> SelectSeq(<<h1, h2>>, LAMBDA h : h \in used /\ w[h] = p)]]
Order     == [received |-> 1, before |-> 2, after |-> 3, sending |-> 4]
TwoHooks  == {Registered(d, w, BothHooks) : d \in [Hook -> Does],
              w \in {v \in [Hook -> Phases] : Order[v[h1]] <= Order[v[h2]]}}
OneHook  == {Registered([h \in Hook |-> d], [h \in Hook |-> p], u) :
               d \in Does, p \in Phases, u \in {{}, {h1}}}

Request(k, m, r, json, off, stream, debug) ==
  [kind |-> k, mode |-> m, does |-> r.does, hooks |-> r.hooks,
   json |-> json, off |-> off, stream |-> stream, debug |-> debug]

\* Two hooks on a plain request; at most one on a request of every kind.
AllSetups ==
  {Request("chat", m, r, TRUE, FALSE, TRUE, FALSE) : m \in {"enforce", "shadow"}, r \in TwoHooks}
  \cup {Request("chat", "enforce", r, j, o, s, g) : r \in OneHook, j, o, s, g \in BOOLEAN}
  \cup {Request("other", "enforce", r, FALSE, FALSE, FALSE, FALSE) : r \in OneHook}

\* The built-in prose-summarize, which waits for its summarizer far longer than a
\* hook's default timeout, on a plain request.
SlowSummarizer ==
  {Request("chat", "enforce", Registered([h \in Hook |-> "edit"], [h \in Hook |-> "before"], {h1}),
           TRUE, FALSE, TRUE, FALSE)}
=============================================================================
