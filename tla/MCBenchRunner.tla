---------------------------- MODULE MCBenchRunner ----------------------------
(* Instances of BenchRunner for TLC.                                          *)
EXTENDS BenchRunner

CONSTANTS j1, j2, j3, x, y
TwoJobs   == <<j1, j2>>
ThreeJobs == <<j1, j2, j3>>
BothSides == {First, Second}
OwnIds    == j1 :> x @@ j2 :> y
\* Two suite files, each with an entry x.
TwoFiles  == j1 :> x @@ j2 :> y @@ j3 :> x
=============================================================================
