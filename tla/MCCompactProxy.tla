--------------------------- MODULE MCCompactProxy ---------------------------
(* Instances of CompactProxy for TLC.  Sizes are scaled down: a heavy tool    *)
(* result has 3 tokens, a light one and every stub or prose message has 1,    *)
(* and an envelope below the threshold of 2 is never elided.                  *)
EXTENDS CompactProxy, TLC

OneOrThree == {1, 3}
JustThree  == {3}
Light      == {1}
\* Bodies whose length/4 estimate agrees with the count, and token-dense ones.
ExactEstimate == [n \in ResultTokens |-> n]
LowEstimate   == [n \in ResultTokens |-> 1]

AllModes   == {"passthrough", "shadow", "enforce"}
Enforce    == {"enforce"}
ShadowEnforce == {"shadow", "enforce"}
PlainOnly  == {"plain"}
AllFlags   == {"plain", "off", "debug"}
OpenAI     == {"tool"}
BothShapes == {"tool", "user"}

Symmetry == Permutations(CallId) \cup Permutations(Session) \cup Permutations(Req)
=============================================================================
