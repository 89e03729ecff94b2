----------------------------- MODULE AbHarness -----------------------------
(***************************************************************************)
(* The A/B harness of the proxy: proxy/eval/ab-harness/runner.py fills a   *)
(* matrix of variants, fixtures and seeds and writes one file per variant; *)
(* aggregate.py folds the files of the directory into a table of verdicts. *)
(* The runner may be killed and started again in the same directory.       *)
(***************************************************************************)
EXTENDS Integers, Sequences, SequencesExt, FiniteSetsExt

CONSTANTS
  Variant,    \* the variants (variants.py)
  Baseline,   \* the one the others are compared with
  Fixture,    \* the fixtures, in order
  Seeds,      \* --seeds
  Chosen,     \* the lists of variants a run may be given
  Outcome,    \* what the shim may report of a cell
  MaxRuns     \* bound on the runs of the harness

ASSUME BaselineAssumption == Baseline \in Variant
ASSUME ChosenAssumption == \A c \in Chosen : c \in Seq(Variant) /\ c # <<>>
ASSUME OutcomeAssumption ==
  Outcome \subseteq [error : {"none", "shim", "reported"}, needle : {0, 1},
                     orig : Nat, rewritten : Nat]
\* main refuses fewer seeds than one; a fixture named twice is measured twice.
ASSUME MatrixAssumption == Seeds \in Nat \ {0} /\ Fixture \in Seq(ToSet(Fixture))

VARIABLES
  phaseOfHarness,
  runs,        \* runs started
  todoVariants, rows,    \* the variants left, the rows of the first of them
  files,       \* files[v]: what <variant>.json holds
  verdicts     \* verdicts[v][f]

harness == <<phaseOfHarness, runs, todoVariants, rows, files, verdicts>>

Absent == [kind |-> "absent", rows |-> <<>>]
Torn   == [kind |-> "torn", rows |-> <<>>]
Cells  == Len(Fixture) * Seeds

-----------------------------------------------------------------------------
(* runner.py                                                                *)

StartRun ==
  /\ phaseOfHarness \in {"idle", "killed"}
  /\ runs < MaxRuns
  /\ runs' = runs + 1
  /\ todoVariants' \in Chosen
  /\ rows' = <<>>
  /\ phaseOfHarness' = "run"
  /\ UNCHANGED <<files, verdicts>>

\* Mutant: what the shim printed before it failed is graded.
GradedAnyway(o) == o
\* A cell whose shim failed or timed out recovers nothing; one whose rewrite or
\* hooks reported an error is graded by what was rewritten.
Graded(o) == IF o.error = "shim" THEN [o EXCEPT !.needle = 0, !.orig = 0, !.rewritten = 0] ELSE o

RunCell ==
  /\ phaseOfHarness = "run" /\ Len(rows) < Cells
  /\ \E o \in Outcome :
       rows' = Append(rows, [variant |-> Head(todoVariants), run |-> runs,
                             fixture |-> Fixture[Len(rows) \div Seeds + 1],
                             error |-> o.error, needle |-> Graded(o).needle,
                             orig |-> Graded(o).orig, rewritten |-> Graded(o).rewritten])
  /\ UNCHANGED <<phaseOfHarness, runs, todoVariants, files, verdicts>>

\* open("w") empties the file, json.dump fills it.
OpenFile ==
  /\ phaseOfHarness = "run" /\ Len(rows) = Cells
  /\ files' = [files EXCEPT ![Head(todoVariants)] = Torn]
  /\ phaseOfHarness' = "write"
  /\ UNCHANGED <<runs, todoVariants, rows, verdicts>>
\* Mutant: the rows are not begun afresh for the next variant.
WriteKeepsRows ==
  /\ phaseOfHarness = "write"
  /\ files' = [files EXCEPT ![Head(todoVariants)] = [kind |-> "rows", rows |-> rows]]
  /\ todoVariants' = Tail(todoVariants) /\ rows' = rows
  /\ phaseOfHarness' = IF Tail(todoVariants) = <<>> THEN "idle" ELSE "run"
  /\ UNCHANGED <<runs, verdicts>>
WriteFile ==
  /\ phaseOfHarness = "write"
  /\ files' = [files EXCEPT ![Head(todoVariants)] = [kind |-> "rows", rows |-> rows]]
  /\ todoVariants' = Tail(todoVariants) /\ rows' = <<>>
  /\ phaseOfHarness' = IF Tail(todoVariants) = <<>> THEN "idle" ELSE "run"
  /\ UNCHANGED <<runs, verdicts>>

Killed ==
  /\ phaseOfHarness \in {"run", "write"}
  /\ phaseOfHarness' = "killed"
  /\ UNCHANGED <<runs, todoVariants, rows, files, verdicts>>

-----------------------------------------------------------------------------
(* aggregate.py                                                             *)

Loaded(v)  == files[v].kind = "rows"
\* by_fix: the rows of a fixture, by their positions.
Of(v, f)   == {i \in DOMAIN files[v].rows : files[v].rows[i].fixture = f}
Recalled(v, f) == {i \in Of(v, f) : files[v].rows[i].needle = 1}

\* The needle is graded 0 or 1.
Recall(v, f) == (100 * Cardinality(Recalled(v, f))) \div Cardinality(Of(v, f))
\* The token reduction in percent; nothing read is no reduction.
Reduction(v, f) ==
  LET orig == MapThenSumSet(LAMBDA i : files[v].rows[i].orig, Of(v, f))
      rewritten == MapThenSumSet(LAMBDA i : files[v].rows[i].rewritten, Of(v, f))
  IN IF orig = 0 THEN 0 ELSE 100 - (100 * rewritten) \div orig

\* _verdict_vs_baseline.
Verdict(v, rec, red, base) ==
  IF rec < 90 THEN "needs work"
  ELSE IF v = Baseline THEN "baseline"
  ELSE CASE red <= 0 /\ base <= 0 -> "no-op (both)"
         [] red <= 0 /\ base > 0 -> "loses to baseline"
         [] red > 0 /\ red > base + 1 -> "beats baseline"
         [] red > 0 /\ red \in base - 1 .. base + 1 -> "matches baseline"
         [] red > 0 /\ red < base - 1 -> "ok"

Fixtures(v) == {r.fixture : r \in ToSet(files[v].rows)}
\* to_markdown: every variant that has a file, per fixture of its rows.
Aggregate ==
  /\ phaseOfHarness \in {"idle", "killed"} /\ runs > 0
  /\ \A v \in Variant : files[v].kind # "torn"
  /\ \E v \in Variant : Loaded(v)
  /\ verdicts' = [v \in {v \in Variant : Loaded(v)} |->
       [f \in Fixtures(v) |->
          Verdict(v, Recall(v, f), Reduction(v, f),
                  IF Loaded(Baseline) THEN Reduction(Baseline, f) ELSE 0)]]
  /\ phaseOfHarness' = "table"
  /\ UNCHANGED <<runs, todoVariants, rows, files>>
\* A torn file ends the program, as does an empty directory.
AggregateFails ==
  /\ phaseOfHarness \in {"idle", "killed"} /\ runs > 0
  /\ \/ \E v \in Variant : files[v].kind = "torn"
     \/ \A v \in Variant : ~ Loaded(v)
  /\ phaseOfHarness' = "no table"
  /\ UNCHANGED <<runs, todoVariants, rows, files, verdicts>>

-----------------------------------------------------------------------------
HarnessIn(p) ==
  /\ phaseOfHarness = p /\ runs = 0 /\ todoVariants = <<>> /\ rows = <<>>
  /\ files = [v \in Variant |-> Absent] /\ verdicts = <<>>
HarnessInit == HarnessIn("idle")

HarnessNext == \/ StartRun \/ RunCell \/ OpenFile \/ WriteFile \/ Killed
               \/ Aggregate \/ AggregateFails

HarnessSpec == HarnessInit /\ [][HarnessNext]_harness

-----------------------------------------------------------------------------
(* Properties                                                               *)

\* A file holds the whole matrix of its variant or nothing, each cell once, all
\* of one run, whenever the runner was killed and started again; so a table is
\* never made of a part of a run of a variant (runner.py 265-283).
FilesWhole ==
  \A v \in Variant : Loaded(v) =>
    /\ Len(files[v].rows) = Cells
    /\ \A f \in ToSet(Fixture) :
         Cardinality({i \in DOMAIN files[v].rows : files[v].rows[i].fixture = f})
           = Seeds * Cardinality({k \in DOMAIN Fixture : Fixture[k] = f})
    /\ \A r, s \in ToSet(files[v].rows) : r.variant = v /\ r.run = s.run

\* Cells whose shim failed cost a variant its verdict, the baseline too: what is
\* not "needs work" found the needle in at least 90 of 100 cells with a shim that
\* ran (runner.py 166-185, aggregate.py 104-107).
FailuresCost ==
  phaseOfHarness = "table" =>
    \A v \in DOMAIN verdicts : \A f \in DOMAIN verdicts[v] :
      verdicts[v][f] # "needs work" =>
        100 * Cardinality({i \in Recalled(v, f) : files[v].rows[i].error # "shim"})
          >= 90 * Cardinality(Of(v, f))
=============================================================================
