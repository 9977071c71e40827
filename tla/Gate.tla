--------------------------------- MODULE Gate ---------------------------------
(***************************************************************************)
(* From results to baseline: the nightly job of bench.yml.  A job restores  *)
(* the baseline of the bench-baselines branch, runs the suite in a fresh    *)
(* workspace (one line of results.jsonl per attempt), compares the results  *)
(* with the baseline by "meept-bench diff", and promotes them by            *)
(* update-baseline.sh.  Scheduled and dispatched jobs are in different      *)
(* concurrency groups, so two may overlap.  A person may also take the      *)
(* results of a job that ended red and run the suite again into the same    *)
(* file, the diff, or the script: each has to stand on its own.             *)
(*                                                                         *)
(* A row is its task and its verdict (Passed is set for "pass" only); wall  *)
(* times and costs only make warnings and are left out.  A job that is      *)
(* cancelled takes no further step; a person's run may be interrupted.     *)
(***************************************************************************)
EXTENDS Naturals, Sequences, FiniteSets

CONSTANTS
  Jobs,
  Tasks,      \* the suite has tasks 1..Tasks
  Attempts,   \* --attempts
  Verdicts,   \* what a row may say beside "pass"
  Tolerated,  \* VERDICT_TOLERATED
  MaxRuns,    \* bound: runs of the suite per job place
  MaxFaults,  \* bound: rows that cannot be written, runs interrupted
  NoFile

ASSUME GateAssumption ==
  /\ {Tasks, Attempts} \subseteq Nat \ {0} /\ {MaxRuns, MaxFaults} \subseteq Nat
  /\ "pass" \notin Verdicts /\ "junk" \notin Verdicts \cup {"pass"}
  /\ Tolerated \subseteq Verdicts

Rows == [task : 1..Tasks, verdict : Verdicts \cup {"pass"}]

(* Two rows run into one line, which is no JSON. *)
Junk == [task |-> 0, verdict |-> "junk"]

VARIABLES
  pc,      \* "off", a step of the job, or "red"
  lines,   \* the complete lines of results.jsonl
  torn,    \* and a last one cut short, without its newline
  made,    \* rows of this RunSuite
  failed,  \* was one of them not passed?
  base,    \* the restored baseline: [lines, torn], or NoFile
  seen,    \* the baseline update-baseline.sh fetched
  byHand,  \* somebody went on with a red job's results
  gated,   \* the diff let these results through
  runs, branch, faults

fileVars == <<lines, torn>>
runVars  == <<made, failed>>
jobVars  == <<base, seen, byHand, gated>>
vars == <<pc, fileVars, runVars, jobVars, runs, branch, faults>>

Init ==
  /\ pc = [j \in Jobs |-> "off"]
  /\ lines = [j \in Jobs |-> <<>>] /\ torn = [j \in Jobs |-> FALSE]
  /\ made = [j \in Jobs |-> 0] /\ failed = torn
  /\ base = [j \in Jobs |-> NoFile] /\ seen = base
  /\ byHand = torn /\ gated = torn
  /\ runs = made
  /\ branch = NoFile /\ faults = 0

GoTo(j, p) == pc' = [pc EXCEPT ![j] = p]

Results(j) == [lines |-> lines[j], torn |-> torn[j]]

-----------------------------------------------------------------------------
(* diff *)

(* LoadRows refuses a file with a line that is no JSON. *)
Loads(file) == ~file.torn /\ \A n \in DOMAIN file.lines : file.lines[n] # Junk

(* Mutant: a task has only its last row. *)
ByTaskLast(file, t) ==
  {n \in DOMAIN file.lines : /\ file.lines[n].task = t
                             /\ \A m \in DOMAIN file.lines :
                                  file.lines[m].task = t => m <= n}

(* byTask: the rows of one task, by their places in the file. *)
ByTask(file, t) == {n \in DOMAIN file.lines : file.lines[n].task = t}

(* best is "pass": one of the attempts passed.  (Else it is the last        *)
(* attempt's verdict, which only the printed diff tells apart.)            *)
Passed(file, t) == \E n \in ByTask(file, t) : file.lines[n].verdict = "pass"

(* Compare: the status of a task. *)
Status(b, c, t) ==
  CASE ByTask(b, t) = {} -> "new"
    [] ByTask(b, t) # {} /\ ByTask(c, t) = {} -> "removed"
    [] OTHER -> CASE Passed(b, t) /\ Passed(c, t) -> "unchanged-pass"
                  [] Passed(b, t) /\ ~Passed(c, t) -> "regressed"
                  [] ~Passed(b, t) /\ Passed(c, t) -> "fixed"
                  [] OTHER -> "unchanged-fail"

Regressed(b, c) == {t \in 1..Tasks : Status(b, c, t) = "regressed"}

-----------------------------------------------------------------------------
(* A new job: a fresh workspace. *)
Checkout(j) ==
  /\ pc[j] \in {"off", "red"} /\ runs[j] < MaxRuns
  /\ runs' = [runs EXCEPT ![j] = @ + 1]
  /\ lines' = [lines EXCEPT ![j] = <<>>] /\ torn' = [torn EXCEPT ![j] = FALSE]
  /\ made' = [made EXCEPT ![j] = 0] /\ failed' = [failed EXCEPT ![j] = FALSE]
  /\ byHand' = [byHand EXCEPT ![j] = FALSE] /\ gated' = [gated EXCEPT ![j] = FALSE]
  /\ GoTo(j, "restore")
  /\ UNCHANGED <<base, seen, branch, faults>>

Restore(j) ==
  /\ pc[j] = "restore"
  /\ base' = [base EXCEPT ![j] = branch]
  /\ GoTo(j, "run")
  /\ UNCHANGED <<fileVars, runVars, seen, byHand, gated, runs, branch, faults>>

(* Mutant: failed rows do not make "run" exit with 1. *)
ExitNoFailures(n, bad) == IF n = 0 THEN "red" ELSE "diff"

(* "run" ends: 1 if a row failed or there is none, whatever RunSuite's     *)
(* error is.                                                               *)
Exit(n, bad) == IF n = 0 \/ bad THEN "red" ELSE "diff"

(* Mutant: one attempt too many. *)
AttemptOneMore(j) ==
  /\ pc[j] = "run"
  /\ lines' = [lines EXCEPT ![j] = Append(@, [task |-> made[j] \div Attempts + 1,
                                             verdict |-> "pass"])]
  /\ torn' = [torn EXCEPT ![j] = FALSE]
  /\ made' = [made EXCEPT ![j] = @ + 1]
  /\ GoTo(j, IF made[j] = Tasks * Attempts THEN Exit(made'[j], failed[j]) ELSE "run")
  /\ UNCHANGED <<failed, jobVars, runs, branch, faults>>

(* Mutant: the suite stops at the first row that did not pass. *)
AttemptFailFast(j) ==
  /\ pc[j] = "run"
  /\ \E v \in Verdicts \cup {"pass"} :
       LET row == [task |-> made[j] \div Attempts + 1, verdict |-> v] IN
       /\ lines' = [lines EXCEPT ![j] = Append(@, IF torn[j] THEN Junk ELSE row)]
       /\ failed' = [failed EXCEPT ![j] = v # "pass"]
  /\ torn' = [torn EXCEPT ![j] = FALSE]
  /\ made' = [made EXCEPT ![j] = @ + 1]
  /\ GoTo(j, IF failed'[j] THEN "red"
             ELSE IF made'[j] = Tasks * Attempts THEN "diff" ELSE "run")
  /\ UNCHANGED <<jobVars, runs, branch, faults>>

(* The next attempt: tasks in order, appendRow after each. *)
Attempt(j) ==
  /\ pc[j] = "run"
  /\ \E v \in Verdicts \cup {"pass"} :
       LET row == [task |-> made[j] \div Attempts + 1, verdict |-> v] IN
       /\ lines' = [lines EXCEPT ![j] = Append(@, IF torn[j] THEN Junk ELSE row)]
       /\ failed' = [failed EXCEPT ![j] = @ \/ v # "pass"]
  /\ torn' = [torn EXCEPT ![j] = FALSE]
  /\ made' = [made EXCEPT ![j] = @ + 1]
  /\ GoTo(j, IF made'[j] = Tasks * Attempts THEN Exit(made'[j], failed'[j]) ELSE "run")
  /\ UNCHANGED <<jobVars, runs, branch, faults>>

(* appendRow fails, possibly half-way: RunSuite returns what it has. *)
AppendErr(j) ==
  /\ pc[j] = "run"
  /\ faults < MaxFaults /\ faults' = faults + 1
  /\ torn' \in {torn, [torn EXCEPT ![j] = TRUE]}
  /\ GoTo(j, Exit(made[j], failed[j]))
  /\ UNCHANGED <<lines, runVars, jobVars, runs, branch>>

(* Ctrl-C: RunSuite looks at its ctx after a row, and returns what it has. *)
Interrupted(j) ==
  /\ pc[j] = "run" /\ byHand[j] /\ made[j] > 0
  /\ faults < MaxFaults /\ faults' = faults + 1
  /\ GoTo(j, Exit(made[j], failed[j]))
  /\ UNCHANGED <<fileVars, runVars, jobVars, runs, branch>>

(* The gate: skipped without a baseline; else the diff must exit with 0.   *)
(* Results that are not there at all are refused by Green at the latest.   *)
LetsThrough(j) ==
  \/ base[j] = NoFile
  \/ /\ Loads(base[j]) /\ Loads(Results(j))
     /\ Regressed(base[j], Results(j)) = {}

Diff(j) ==
  /\ pc[j] = "diff"
  /\ gated' = [gated EXCEPT ![j] = LetsThrough(j)]
  /\ GoTo(j, IF LetsThrough(j) THEN "green" ELSE "red")
  /\ UNCHANGED <<fileVars, runVars, base, seen, byHand, runs, branch, faults>>

(* Mutant: the green check stops at the first row. *)
IsGreenFirst(file) ==
  file.lines # <<>> /\ Head(file.lines).verdict \in Tolerated \cup {"pass"}

(* update-baseline.sh's green check.  "while read" does not see a last     *)
(* line without newline; a file without a complete line has no suite name. *)
IsGreen(file) ==
  /\ file.lines # <<>>
  /\ \A n \in DOMAIN file.lines : file.lines[n].verdict \in Tolerated \cup {"pass"}

Green(j) ==
  /\ pc[j] = "green"
  /\ GoTo(j, IF IsGreen(Results(j)) THEN "fetch" ELSE "red")
  /\ UNCHANGED <<fileVars, runVars, jobVars, runs, branch, faults>>

Fetch(j) ==
  /\ pc[j] = "fetch"
  /\ seen' = [seen EXCEPT ![j] = branch]
  /\ GoTo(j, "push")
  /\ UNCHANGED <<fileVars, runVars, base, byHand, gated, runs, branch, faults>>

(* git push --force, unless the fetched baseline is this file already. *)
Push(j) ==
  /\ pc[j] = "push"
  /\ branch' = IF seen[j] = Results(j) THEN branch ELSE Results(j)
  /\ GoTo(j, "off")
  /\ UNCHANGED <<fileVars, runVars, jobVars, runs, faults>>

-----------------------------------------------------------------------------
(* By hand, with the results of a red job (external). *)
Rerun(j) ==
  /\ pc[j] = "red" /\ runs[j] < MaxRuns
  /\ runs' = [runs EXCEPT ![j] = @ + 1]
  /\ made' = [made EXCEPT ![j] = 0] /\ failed' = [failed EXCEPT ![j] = FALSE]
  /\ byHand' = [byHand EXCEPT ![j] = TRUE] /\ gated' = [gated EXCEPT ![j] = FALSE]
  /\ GoTo(j, "run")
  /\ UNCHANGED <<fileVars, base, seen, branch, faults>>

GoOn(j) ==
  /\ pc[j] = "red"
  /\ byHand' = [byHand EXCEPT ![j] = TRUE]
  /\ \E p \in {"diff", "green"} : GoTo(j, p)
  /\ UNCHANGED <<fileVars, runVars, base, seen, gated, runs, branch, faults>>

-----------------------------------------------------------------------------
JobStep(j) ==
  Checkout(j) \/ Restore(j) \/ Attempt(j) \/ AppendErr(j) \/ Interrupted(j)
  \/ Diff(j) \/ Green(j) \/ Fetch(j) \/ Push(j)

Finished ==
  /\ \A j \in Jobs : pc[j] \in {"off", "red"} /\ runs[j] = MaxRuns
  /\ UNCHANGED vars

Next == (\E j \in Jobs : JobStep(j) \/ Rerun(j) \/ GoOn(j)) \/ Finished

Spec == Init /\ [][Next]_vars

-----------------------------------------------------------------------------
Lines == Seq(Rows \cup {Junk})

Files == [lines : Lines, torn : BOOLEAN]

TypeOK ==
  /\ pc \in [Jobs -> {"off", "restore", "run", "diff", "green", "fetch", "push", "red"}]
  /\ lines \in [Jobs -> Lines]
  /\ {torn, failed, byHand, gated} \subseteq [Jobs -> BOOLEAN]
  /\ made \in [Jobs -> 0..(Tasks * Attempts)]
  /\ \A j \in Jobs : {base[j], seen[j]} \subseteq {NoFile} \cup Files
  /\ branch \in {NoFile} \cup Files
  /\ runs \in [Jobs -> 0..MaxRuns] /\ faults \in 0..MaxFaults

(* update-baseline.sh's header: a red run never updates the baseline.      *)
(* Whatever ran before it and whoever runs it, the rows of a published     *)
(* baseline all passed (or are tolerated), also where two runs of the      *)
(* suite wrote to one file.                                                *)
PublishedPasses ==
  branch # NoFile =>
    \A n \in DOMAIN branch.lines : branch.lines[n].verdict \in Tolerated \cup {"pass"}

(* A baseline covers the suite: as long as no row was lost on the way to   *)
(* results.jsonl and no run was interrupted, every attempt of every task   *)
(* is in what gets published, and the diff can read it.                    *)
PublishedWhole ==
  branch # NoFile /\ faults = 0 =>
    /\ Loads(branch)
    /\ \A t \in 1..Tasks : Cardinality(ByTask(branch, t)) >= Attempts

(* In the workflow the diff gate has nothing left to find: "run" exits     *)
(* with 1 for any row that failed, which ends the job before the diff.     *)
DiffSeesOnlyGreen ==
  \A j \in Jobs : pc[j] = "diff" /\ ~byHand[j] /\ base[j] # NoFile =>
    Regressed(base[j], Results(j)) = {}

(* The gate for what a person promotes: results that went through the diff *)
(* do not replace a pass of the baseline they were compared with by        *)
(* anything tolerated, however often the suite ran into the file.          *)
NoSilentRegression ==
  \A j \in Jobs : pc[j] \in {"fetch", "push"} /\ gated[j] /\ base[j] # NoFile =>
    \A t \in 1..Tasks :
      (\E n \in DOMAIN base[j].lines : base[j].lines[n] = [task |-> t, verdict |-> "pass"])
        => \/ \E n \in DOMAIN lines[j] : lines[j][n] = [task |-> t, verdict |-> "pass"]
           \/ \A n \in DOMAIN lines[j] : lines[j][n].task # t
=============================================================================
