--------------------------- MODULE MCModelService ---------------------------
(* Instances of ModelService for TLC: one terminal gives any command, the     *)
(* other one those that get in its way.                                       *)
EXTENDS ModelService

CONSTANTS t1, t2
TwoTerminals == [t \in {t1, t2} |-> IF t = t1 THEN DOMAIN Script ELSE {"stop", "start", "register"}]
=============================================================================
