------------------------------ MODULE BenchSuite ------------------------------
(***************************************************************************)
(* How the jobs of a benchmark run come about: scripts/bench_suite.py      *)
(* validates each suite file and merges its defaults into its jobs, and    *)
(* scripts/bench_runner.py concatenates the files and runs the jobs.       *)
(*                                                                         *)
(* A mapping of the YAML file is a function on the keys it has.  n stands  *)
(* for max_tokens too, which is checked and merged the same way; a port    *)
(* stands for its side.                                                    *)
(***************************************************************************)
EXTENDS Integers, Sequences

CONSTANTS
  Document,    \* suite files the user may name: [defaults, jobs]
  MaxJobs,     \* bound on the jobs before one more file is loaded
  Readable     \* the prompt files that exist

\* The jobs of a file are a list.
ASSUME DocumentAssumption ==
  \A doc \in Document : Len(doc.jobs) \in Nat /\ DOMAIN doc.jobs = 1 .. Len(doc.jobs)

VARIABLES
  phaseOfSuite,
  loaded,      \* load_suites: the merged jobs, each with the job and defaults it is of
  sent         \* sent[i]: the prompt job i is measured with, "none" when it fails

suite == <<phaseOfSuite, loaded, sent>>

Prompts == {"prompt", "prompt_file"}
Has(doc, k) == k \in DOMAIN doc
Port == 1 .. 65535

-----------------------------------------------------------------------------
\* What defaults and jobs share: n, one prompt source, a file that can be read.
ValidCommon(doc) ==
  /\ Has(doc, "n") => doc.n >= 1
  /\ ~ (Prompts \subseteq DOMAIN doc)
  /\ Has(doc, "prompt_file") => doc.prompt_file \in Readable
ValidJob(job) ==
  /\ Has(job, "a") /\ Has(job, "b")
  /\ job.a \in Port /\ job.b \in Port /\ job.a # job.b
  /\ ValidCommon(job)
\* validate.
Valid(doc) ==
  /\ ValidCommon(doc.defaults)
  /\ doc.jobs # <<>>
  /\ \A i \in DOMAIN doc.jobs : ValidJob(doc.jobs[i])
  /\ \A i, k \in DOMAIN doc.jobs : i # k => doc.jobs[i].id # doc.jobs[k].id

\* Mutant: a prompt source of the defaults stays next to the job's.
MergedPlain(job, defaults) ==
  [k \in DOMAIN job \cup DOMAIN defaults \cup {"n"} |->
     IF k \in DOMAIN job THEN job[k] ELSE IF k \in DOMAIN defaults THEN defaults[k] ELSE 5]
\* merge_defaults: a job with a prompt source of its own takes none of the defaults.
Merged(job, defaults) ==
  LET inherited == IF Prompts \cap DOMAIN job = {} THEN DOMAIN defaults ELSE DOMAIN defaults \ Prompts
  IN [k \in DOMAIN job \cup inherited \cup {"n"} |->
        IF k \in DOMAIN job THEN job[k] ELSE IF k \in inherited THEN defaults[k] ELSE 5]

\* load_suites: one file after the other.
LoadSuite ==
  /\ phaseOfSuite = "load" /\ Len(loaded) < MaxJobs
  /\ \E doc \in Document :
       /\ Valid(doc)
       /\ loaded' = loaded \o [i \in DOMAIN doc.jobs |->
            [job |-> doc.jobs[i], defaults |-> doc.defaults,
             merged |-> Merged(doc.jobs[i], doc.defaults)]]
  /\ UNCHANGED <<phaseOfSuite, sent>>
\* A SuiteError ends the runner before anything was run.
RejectSuite ==
  /\ phaseOfSuite = "load"
  /\ \E doc \in Document : ~ Valid(doc)
  /\ phaseOfSuite' = "rejected"
  /\ UNCHANGED <<loaded, sent>>
AllLoaded ==
  /\ phaseOfSuite = "load" /\ loaded # <<>>
  /\ phaseOfSuite' = "run"
  /\ UNCHANGED <<loaded, sent>>
\* bench_side takes job["prompt"]; without it the job fails.
RunJob ==
  /\ phaseOfSuite = "run" /\ Len(sent) < Len(loaded)
  /\ LET job == loaded[Len(sent) + 1].merged
     IN sent' = Append(sent, IF Has(job, "prompt") THEN job.prompt ELSE "none")
  /\ UNCHANGED <<phaseOfSuite, loaded>>

-----------------------------------------------------------------------------
SuiteIn(p) == phaseOfSuite = p /\ loaded = <<>> /\ sent = <<>>
SuiteInit  == SuiteIn("load")
SuiteNext  == LoadSuite \/ RejectSuite \/ AllLoaded \/ RunJob
SuiteSpec  == SuiteInit /\ [][SuiteNext]_suite

-----------------------------------------------------------------------------
(* Properties                                                               *)

\* The text a job is to be measured with, as its author wrote it: its own prompt,
\* or that of the defaults of its own file if it names no source itself.
Texts(own, defaults) ==
  IF Has(own, "prompt") THEN {own.prompt}
  ELSE IF Has(own, "prompt_file") \/ ~ Has(defaults, "prompt") THEN {} ELSE {defaults.prompt}

\* A job that has such a text is measured with it, whatever files were loaded
\* before and after its own, and no job with another text: one that names a prompt
\* file is never measured with the prompt of its defaults, or of another file.  Its
\* repetition count is at least one and its two ports differ (bench_suite.py
\* 108-118, bench_runner.py 226-231).
JobsAsWritten ==
  \A i \in DOMAIN sent :
    LET texts == Texts(loaded[i].job, loaded[i].defaults)
    IN /\ texts # {} \/ sent[i] # "none" => sent[i] \in texts
       /\ loaded[i].merged.n >= 1 /\ loaded[i].merged.a # loaded[i].merged.b

\* "set only one of prompt or prompt_file" (bench_suite.py 103) and "If job sets
\* either prompt source, drop both default prompt keys" (111): either is a source
\* of the prompt, so a job of a valid suite that names one, or whose defaults do, is
\* measured.  It is not: nothing reads the file, and job["prompt"] raises KeyError
\* (bench_runner.py 117).
PromptSourcesMeasured ==
  \A i \in DOMAIN sent :
    Prompts \cap (DOMAIN loaded[i].job \cup DOMAIN loaded[i].defaults) # {} => sent[i] # "none"
=============================================================================
