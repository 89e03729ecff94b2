--------------------------- MODULE MCBenchConsole ---------------------------
(* Instances of BenchConsole for TLC.                                        *)
EXTENDS BenchConsole

CONSTANTS j1, j2, x, y
TwoJobs   == <<j1, j2>>
BothSides == {First, Second}
OwnIds    == j1 :> x @@ j2 :> y
\* Two suite files, each with an entry x.
OneId     == j1 :> x @@ j2 :> x
=============================================================================
