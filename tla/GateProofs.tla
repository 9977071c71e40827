----------------------------- MODULE GateProofs -----------------------------
(***************************************************************************)
(* What is published passed, for any suite, any number of jobs, runs and    *)
(* faults.  IInv is the inductive invariant; beside the types it says       *)
(*   InSuite   a run that goes on has attempts left                         *)
(*   Checked   a job that fetches or pushes did the green check, and its    *)
(*             results have not changed since                               *)
(*   Gated     results the diff let through are those it compared           *)
(*   Workflow  a job nobody interferes with appends to a file of its own,   *)
(*             and gets to the diff only if every row in it passed          *)
(*   Appended  without faults, the last rows of a file are those this run   *)
(*             has made, in order, and a run that is over made them all     *)
(*   Covered   without faults, some stretch of the published baseline is a  *)
(*             whole run of the suite                                       *)
(***************************************************************************)
EXTENDS Gate, FiniteSetTheorems, TLAPS

InSuite == \A j \in Jobs : pc[j] \in {"restore", "run"} => made[j] < Tasks * Attempts

Checked == \A j \in Jobs : pc[j] \in {"fetch", "push"} => IsGreen(Results(j))

Gated ==
  \A j \in Jobs :
    /\ pc[j] \in {"restore", "run"} => ~gated[j]
    /\ gated[j] /\ base[j] # NoFile => Regressed(base[j], Results(j)) = {}

Workflow ==
  \A j \in Jobs : ~byHand[j] =>
    /\ pc[j] \in {"restore", "run"} => ~torn[j]
    /\ (pc[j] \in {"restore", "run"} /\ ~failed[j]) \/ pc[j] = "diff" =>
         \A n \in DOMAIN lines[j] : lines[j][n].verdict = "pass"

(* The task of a run's m-th attempt. *)
TaskOf(m) == (m - 1) \div Attempts + 1

(* The m rows after the first k are the first m of a run. *)
Stretch(file, k, m) ==
  \A i \in 1..m : k + i \in DOMAIN file /\ file[k + i].task = TaskOf(i)

Clean(file) == \A n \in DOMAIN file : file[n] # Junk

Appended ==
  faults = 0 => \A j \in Jobs :
    /\ ~torn[j] /\ Clean(lines[j])
    /\ \E k \in Nat : Len(lines[j]) = k + made[j] /\ Stretch(lines[j], k, made[j])
    /\ pc[j] \notin {"off", "restore", "run"} => made[j] = Tasks * Attempts

Covered ==
  branch # NoFile /\ faults = 0 =>
    Loads(branch) /\ \E k \in Nat : Stretch(branch.lines, k, Tasks * Attempts)

IInv == /\ TypeOK /\ InSuite /\ Checked /\ Gated /\ Workflow /\ PublishedPasses
        /\ Appended /\ Covered

-----------------------------------------------------------------------------
(* The number of attempts of a suite. *)
LEMMA SuiteSize == Tasks * Attempts \in Nat \ {0}
  BY GateAssumption

(* RunSuite goes through the tasks in order: the row of its m-th attempt   *)
(* belongs to a task of the suite.                                         *)
LEMMA TaskOfAttempt ==
  ASSUME NEW m \in Nat, m < Tasks * Attempts
  PROVE  m \div Attempts + 1 \in 1..Tasks
<1> DEFINE q == m \div Attempts
<1>1. /\ Tasks \in Nat /\ Attempts \in Nat /\ Attempts > 0
      /\ q \in Nat /\ q * Attempts <= m
  BY GateAssumption
<1>2. q < Tasks
  BY <1>1
<1> QED BY <1>1, <1>2

(* A row, or the line that holds two, is a line. *)
LEMMA RowIsLine ==
  ASSUME NEW m \in Nat, m < Tasks * Attempts, NEW v \in Verdicts \cup {"pass"}, NEW b \in BOOLEAN
  PROVE  (IF b THEN Junk ELSE [task |-> m \div Attempts + 1, verdict |-> v]) \in Rows \cup {Junk}
  BY TaskOfAttempt DEF Rows

LEMMA InitIInv == Init => IInv
<1>1. Init => /\ TypeOK /\ InSuite /\ Checked /\ Gated /\ Workflow /\ PublishedPasses
              /\ Covered
  BY GateAssumption, SuiteSize
     DEF Init, TypeOK, InSuite, Checked, Gated, Workflow, PublishedPasses, Covered, Lines, Files
<1>2. Init => Appended
  <2> SUFFICES ASSUME Init, NEW j \in Jobs
               PROVE  /\ Clean(lines[j])
                      /\ Len(lines[j]) = 0 + made[j] /\ Stretch(lines[j], 0, made[j])
    BY DEF Init, Appended
  <2> QED BY DEF Init, Clean, Stretch
<1> QED BY <1>1, <1>2 DEF IInv

-----------------------------------------------------------------------------
(* A step keeps the types. *)
LEMMA StepTypeOK == TypeOK /\ InSuite /\ [Next]_vars => TypeOK'
<1> SUFFICES ASSUME TypeOK, InSuite, [Next]_vars PROVE TypeOK'
  OBVIOUS
<1> USE GateAssumption, SuiteSize DEF TypeOK, InSuite, GoTo, fileVars, runVars, jobVars
<1>1. ASSUME NEW j \in Jobs, Checkout(j) PROVE TypeOK'
  BY <1>1 DEF Checkout, Lines
<1>2. ASSUME NEW j \in Jobs, Restore(j) PROVE TypeOK'
  BY <1>2 DEF Restore
<1>3. ASSUME NEW j \in Jobs, Attempt(j) PROVE TypeOK'
  <2>1. PICK v \in Verdicts \cup {"pass"} :
          /\ lines' = [lines EXCEPT ![j] = Append(@,
                 IF torn[j] THEN Junk ELSE [task |-> made[j] \div Attempts + 1, verdict |-> v])]
          /\ failed' = [failed EXCEPT ![j] = @ \/ v # "pass"]
    BY <1>3 DEF Attempt
  <2>2. made[j] \in Nat /\ made[j] < Tasks * Attempts /\ torn[j] \in BOOLEAN
    BY <1>3 DEF Attempt
  <2>3. lines' \in [Jobs -> Lines]
    BY <2>1, <2>2, RowIsLine DEF Lines
  <2>4. made' \in [Jobs -> 0..(Tasks * Attempts)]
    BY <1>3, <2>2 DEF Attempt
  <2>5. torn' \in [Jobs -> BOOLEAN] /\ failed' \in [Jobs -> BOOLEAN]
    BY <1>3, <2>1 DEF Attempt
  <2>6. pc' \in [Jobs -> {"off", "restore", "run", "diff", "green", "fetch", "push", "red"}]
    BY <1>3 DEF Attempt, Exit
  <2> QED BY <1>3, <2>3, <2>4, <2>5, <2>6 DEF Attempt
<1>4. ASSUME NEW j \in Jobs, AppendErr(j) \/ Interrupted(j) PROVE TypeOK'
  <2>1. Exit(made[j], failed[j]) \in {"red", "diff"}
    BY DEF Exit
  <2>2. MaxFaults \in Nat
    OBVIOUS
  <2>3. [torn EXCEPT ![j] = TRUE] \in [Jobs -> BOOLEAN]
    OBVIOUS
  <2>4. CASE AppendErr(j)
    <3>1. torn' \in [Jobs -> BOOLEAN]
      BY <2>3, <2>4 DEF AppendErr
    <3>2. faults' \in 0..MaxFaults
      BY <2>2, <2>4 DEF AppendErr
    <3>3. pc' \in [Jobs -> {"off", "restore", "run", "diff", "green", "fetch", "push", "red"}]
      BY <2>1, <2>4 DEF AppendErr
    <3> QED BY <2>4, <3>1, <3>2, <3>3 DEF AppendErr
  <2>5. CASE Interrupted(j)
    BY <2>1, <2>2, <2>5 DEF Interrupted
  <2> QED BY <1>4, <2>4, <2>5
<1>5. ASSUME NEW j \in Jobs, Diff(j) PROVE TypeOK'
  <2>1. LetsThrough(j) \in BOOLEAN
    BY DEF LetsThrough
  <2> QED BY <1>5, <2>1 DEF Diff
<1>6. ASSUME NEW j \in Jobs, Green(j) \/ Fetch(j) \/ Push(j) PROVE TypeOK'
  <2>1. Results(j) \in Files
    BY DEF Results, Files
  <2>2. CASE Green(j)
    BY <2>2 DEF Green
  <2>3. CASE Fetch(j)
    BY <2>3 DEF Fetch
  <2>4. CASE Push(j)
    BY <2>1, <2>4 DEF Push
  <2> QED BY <1>6, <2>2, <2>3, <2>4
<1>7. ASSUME NEW j \in Jobs, Rerun(j) \/ GoOn(j) PROVE TypeOK'
  <2>1. CASE Rerun(j)
    BY <2>1 DEF Rerun
  <2>2. CASE GoOn(j)
    BY <2>2 DEF GoOn
  <2> QED BY <1>7, <2>1, <2>2
<1>8. CASE UNCHANGED vars
  BY <1>8 DEF vars
<1> QED
  BY <1>1, <1>2, <1>3, <1>4, <1>5, <1>6, <1>7, <1>8 DEF Next, JobStep, Finished

(* A run that is not over goes on with an attempt of the suite. *)
LEMMA StepInSuite == TypeOK /\ InSuite /\ [Next]_vars => InSuite'
<1> SUFFICES ASSUME TypeOK, InSuite, [Next]_vars PROVE InSuite'
  OBVIOUS
<1> USE SuiteSize DEF TypeOK, InSuite, GoTo, fileVars, runVars, jobVars
<1>1. ASSUME NEW j \in Jobs, Checkout(j) \/ Restore(j) \/ Rerun(j) PROVE InSuite'
  <2>1. CASE Checkout(j)
    BY <2>1 DEF Checkout
  <2>2. CASE Restore(j)
    BY <2>2 DEF Restore
  <2>3. CASE Rerun(j)
    BY <2>3 DEF Rerun
  <2> QED BY <1>1, <2>1, <2>2, <2>3
<1>2. ASSUME NEW j \in Jobs, Attempt(j) PROVE InSuite'
  <2>1. made[j] + 1 # Tasks * Attempts => made[j] + 1 < Tasks * Attempts
    BY <1>2 DEF Attempt
  <2> QED BY <1>2, <2>1 DEF Attempt, Exit
<1>3. ASSUME NEW j \in Jobs, AppendErr(j) \/ Interrupted(j) PROVE InSuite'
  BY <1>3 DEF AppendErr, Interrupted, Exit
<1>4. ASSUME NEW j \in Jobs, Diff(j) \/ Green(j) \/ Fetch(j) \/ Push(j) \/ GoOn(j)
      PROVE InSuite'
  BY <1>4 DEF Diff, Green, Fetch, Push, GoOn
<1>5. CASE UNCHANGED vars
  BY <1>5 DEF vars
<1> QED
  BY <1>1, <1>2, <1>3, <1>4, <1>5 DEF Next, JobStep, Finished

(* After the green check nothing writes to the results until the push. *)
LEMMA StepChecked == TypeOK /\ Checked /\ [Next]_vars => Checked'
<1> SUFFICES ASSUME TypeOK, Checked, [Next]_vars PROVE Checked'
  OBVIOUS
<1> USE DEF TypeOK, Checked, GoTo, Results, fileVars, runVars, jobVars
<1>1. ASSUME NEW j \in Jobs, UNCHANGED fileVars, pc'[j] \notin {"fetch", "push"},
             \A k \in Jobs \ {j} : pc'[k] = pc[k]
      PROVE  Checked'
  BY <1>1
<1>2. ASSUME NEW j \in Jobs, Checkout(j) PROVE Checked'
  BY <1>2 DEF Checkout
<1>3. ASSUME NEW j \in Jobs, Restore(j) \/ Rerun(j) PROVE Checked'
  BY <1>1, <1>3 DEF Restore, Rerun
<1>4. ASSUME NEW j \in Jobs, Attempt(j) PROVE Checked'
  <2>1. /\ pc'[j] \in {"run", "red", "diff"}
        /\ \A k \in Jobs \ {j} : /\ pc'[k] = pc[k] /\ lines'[k] = lines[k]
                                 /\ torn'[k] = torn[k]
    BY <1>4 DEF Attempt, Exit
  <2> QED BY <2>1
<1>5. ASSUME NEW j \in Jobs, AppendErr(j) PROVE Checked'
  <2>1. /\ pc'[j] \in {"red", "diff"}
        /\ \A k \in Jobs \ {j} : /\ pc'[k] = pc[k] /\ lines'[k] = lines[k]
                                 /\ torn'[k] = torn[k]
    BY <1>5 DEF AppendErr, Exit
  <2> QED BY <2>1
<1>6. ASSUME NEW j \in Jobs, Interrupted(j) \/ Diff(j) \/ GoOn(j) PROVE Checked'
  BY <1>1, <1>6 DEF Interrupted, Diff, GoOn, Exit
<1>7. ASSUME NEW j \in Jobs, Green(j) PROVE Checked'
  BY <1>7 DEF Green
<1>8. ASSUME NEW j \in Jobs, Fetch(j) \/ Push(j) PROVE Checked'
  BY <1>8 DEF Fetch, Push
<1>9. CASE UNCHANGED vars
  BY <1>9 DEF vars
<1> QED
  BY <1>2, <1>3, <1>4, <1>5, <1>6, <1>7, <1>8, <1>9 DEF Next, JobStep, Finished

(* What the diff compared stays as it was as long as it counts. *)
LEMMA StepGated == TypeOK /\ Gated /\ [Next]_vars => Gated'
<1> SUFFICES ASSUME TypeOK, Gated, [Next]_vars PROVE Gated'
  OBVIOUS
<1> USE DEF TypeOK, Gated, GoTo, Results, fileVars, runVars, jobVars
<1>1. ASSUME NEW j \in Jobs, UNCHANGED <<fileVars, base, gated>>,
             \A k \in Jobs : pc'[k] \in {"restore", "run"} => pc[k] \in {"restore", "run"}
      PROVE  Gated'
  BY <1>1
<1>2. ASSUME NEW j \in Jobs, ~gated'[j],
             \A k \in Jobs \ {j} : /\ pc'[k] = pc[k] /\ gated'[k] = gated[k]
                                   /\ lines'[k] = lines[k] /\ torn'[k] = torn[k]
                                   /\ base'[k] = base[k]
      PROVE  Gated'
  BY <1>2
<1>3. ASSUME NEW j \in Jobs, Checkout(j) \/ Rerun(j) PROVE Gated'
  BY <1>2, <1>3 DEF Checkout, Rerun
<1>4. ASSUME NEW j \in Jobs, Restore(j) PROVE Gated'
  <2>1. ~gated'[j] /\ \A k \in Jobs \ {j} : pc'[k] = pc[k]
    BY <1>4 DEF Restore
  <2>2. UNCHANGED <<lines, torn, gated>> /\ base' = [base EXCEPT ![j] = branch]
    BY <1>4 DEF Restore
  <2> QED BY <2>1, <2>2
<1>5. ASSUME NEW j \in Jobs, Attempt(j) PROVE Gated'
  BY <1>2, <1>5 DEF Attempt
<1>6. ASSUME NEW j \in Jobs, AppendErr(j) PROVE Gated'
  BY <1>2, <1>6 DEF AppendErr
<1>7. ASSUME NEW j \in Jobs, Interrupted(j) \/ Green(j) \/ Fetch(j) \/ Push(j) \/ GoOn(j)
      PROVE  Gated'
  BY <1>1, <1>7 DEF Interrupted, Green, Fetch, Push, GoOn, Exit
<1>8. ASSUME NEW j \in Jobs, Diff(j) PROVE Gated'
  BY <1>8 DEF Diff, LetsThrough
<1>9. CASE UNCHANGED vars
  BY <1>9 DEF vars
<1> QED
  BY <1>3, <1>4, <1>5, <1>6, <1>7, <1>8, <1>9 DEF Next, JobStep, Finished

(* A job of the workflow starts with an empty file, and a row that did not *)
(* pass ends it before the diff.                                           *)
LEMMA StepWorkflow == TypeOK /\ Workflow /\ [Next]_vars => Workflow'
<1> SUFFICES ASSUME TypeOK, Workflow, [Next]_vars PROVE Workflow'
  OBVIOUS
<1> USE DEF TypeOK, Workflow, GoTo, fileVars, runVars, jobVars
<1>1. ASSUME NEW j \in Jobs, Checkout(j) PROVE Workflow'
  BY <1>1 DEF Checkout
<1>2. ASSUME NEW j \in Jobs, Restore(j) PROVE Workflow'
  BY <1>2 DEF Restore
<1>3. ASSUME NEW j \in Jobs, Attempt(j) PROVE Workflow'
  <2>1. PICK v \in Verdicts \cup {"pass"} :
          /\ lines' = [lines EXCEPT ![j] = Append(@,
                 IF torn[j] THEN Junk ELSE [task |-> made[j] \div Attempts + 1, verdict |-> v])]
          /\ failed' = [failed EXCEPT ![j] = @ \/ v # "pass"]
    BY <1>3 DEF Attempt
  <2>2. \A k \in Jobs \ {j} : /\ pc'[k] = pc[k] /\ lines'[k] = lines[k] /\ torn'[k] = torn[k]
                              /\ failed'[k] = failed[k] /\ byHand'[k] = byHand[k]
    BY <1>3, <2>1 DEF Attempt
  <2>3. CASE byHand[j] \/ failed'[j]
    <3>1. byHand'[j] = byHand[j] /\ ~torn'[j]
      BY <1>3 DEF Attempt
    <3>2. failed'[j] => pc'[j] \in {"run", "red"}
      BY <1>3 DEF Attempt, Exit
    <3> QED BY <2>2, <2>3, <3>1, <3>2
  <2>4. CASE ~byHand[j] /\ ~failed'[j]
    <3>1. /\ ~torn[j] /\ ~torn'[j] /\ ~failed[j] /\ v = "pass" /\ pc[j] = "run"
      BY <1>3, <2>1, <2>4 DEF Attempt
    <3>2. lines'[j] = Append(lines[j], [task |-> made[j] \div Attempts + 1, verdict |-> "pass"])
      BY <2>1, <3>1
    <3>3. lines[j] \in Seq(Rows \cup {Junk})
      BY DEF Lines
    <3>4. \A n \in DOMAIN lines'[j] : lines'[j][n].verdict = "pass"
      BY <2>4, <3>1, <3>2, <3>3
    <3> QED BY <2>2, <3>1, <3>4
  <2> QED BY <2>3, <2>4
<1>4. ASSUME NEW j \in Jobs, AppendErr(j) \/ Interrupted(j) PROVE Workflow'
  BY <1>4 DEF AppendErr, Interrupted, Exit
<1>5. ASSUME NEW j \in Jobs, Diff(j) \/ Green(j) \/ Fetch(j) \/ Push(j) PROVE Workflow'
  BY <1>5 DEF Diff, Green, Fetch, Push
<1>6. ASSUME NEW j \in Jobs, Rerun(j) \/ GoOn(j) PROVE Workflow'
  BY <1>6 DEF Rerun, GoOn
<1>7. CASE UNCHANGED vars
  BY <1>7 DEF vars
<1> QED
  BY <1>1, <1>2, <1>3, <1>4, <1>5, <1>6, <1>7 DEF Next, JobStep, Finished

(* Only a push changes the branch, to results that were checked. *)
LEMMA StepPublished == Checked /\ PublishedPasses /\ [Next]_vars => PublishedPasses'
<1> SUFFICES ASSUME Checked, PublishedPasses, [Next]_vars PROVE PublishedPasses'
  OBVIOUS
<1>1. ASSUME NEW j \in Jobs, Push(j) PROVE PublishedPasses'
  BY <1>1 DEF Push, Checked, PublishedPasses, IsGreen, Results
<1>2. CASE UNCHANGED branch
  BY <1>2 DEF PublishedPasses
<1>3. ASSUME NEW j \in Jobs, JobStep(j) \/ Rerun(j) \/ GoOn(j), ~Push(j)
      PROVE UNCHANGED branch
  BY <1>3 DEF JobStep, Checkout, Restore, Attempt, AppendErr, Interrupted, Diff, Green,
              Fetch, Rerun, GoOn
<1> QED BY <1>1, <1>2, <1>3 DEF Next, Finished, vars

(* One more row at the end of a run's rows is the next of the suite. *)
LEMMA OneMore ==
  ASSUME NEW file \in Lines, NEW m \in Nat, NEW k \in Nat, Len(file) = k + m,
         Stretch(file, k, m), Clean(file), m < Tasks * Attempts,
         NEW v \in Verdicts \cup {"pass"},
         NEW new, new = Append(file, [task |-> m \div Attempts + 1, verdict |-> v])
  PROVE  Len(new) = k + (m + 1) /\ Stretch(new, k, m + 1) /\ Clean(new)
<1> DEFINE row == [task |-> m \div Attempts + 1, verdict |-> v]
<1>1. /\ file \in Seq(Rows \cup {Junk}) /\ row \in Rows /\ new \in Seq(Rows \cup {Junk})
      /\ Len(new) = Len(file) + 1 /\ new[Len(new)] = row
      /\ \A n \in 1..Len(file) : new[n] = file[n]
  <2>1. row \in Rows
    BY TaskOfAttempt DEF Rows
  <2>2. file \in Seq(Rows \cup {Junk}) /\ row \in Rows \cup {Junk} /\ new = Append(file, row)
    BY <2>1 DEF Lines
  <2> HIDE DEF row
  <2> QED BY <2>1, <2>2
<1>2. row # Junk /\ TaskOf(m + 1) = row.task
  BY GateAssumption DEF Junk, TaskOf
<1>3. Clean(new)
  BY <1>1, <1>2 DEF Clean
<1>4. ASSUME NEW i \in 1..(m + 1)
      PROVE  k + i \in DOMAIN new /\ new[k + i].task = TaskOf(i)
  <2>1. CASE i = m + 1
    BY <1>1, <1>2, <2>1
  <2>2. CASE i # m + 1
    <3>1. i \in 1..m
      BY <2>2
    <3> QED BY <1>1, <3>1 DEF Stretch
  <2> QED BY <2>1, <2>2
<1>5. Stretch(new, k, m + 1)
  BY <1>4 DEF Stretch
<1>6. Len(new) = k + (m + 1)
  BY <1>1
<1> QED BY <1>3, <1>5, <1>6

(* Without faults, nothing but the rows of runs that go on to their end     *)
(* gets into a file.                                                       *)
LEMMA StepAppended == TypeOK /\ InSuite /\ Appended /\ [Next]_vars => Appended'
<1> SUFFICES ASSUME TypeOK, InSuite, Appended, [Next]_vars PROVE Appended'
  OBVIOUS
<1> USE SuiteSize DEF GoTo, fileVars, runVars, jobVars
<1> DEFINE Good(j) ==
      /\ ~torn[j] /\ Clean(lines[j])
      /\ \E k \in Nat : Len(lines[j]) = k + made[j] /\ Stretch(lines[j], k, made[j])
      /\ pc[j] \notin {"off", "restore", "run"} => made[j] = Tasks * Attempts
<1>1. ASSUME NEW j \in Jobs, UNCHANGED <<fileVars, made, faults>>,
             \A i \in Jobs : pc'[i] \notin {"off", "restore", "run"} =>
                                pc[i] \notin {"off", "restore", "run"}
      PROVE  Appended'
  BY <1>1 DEF Appended
<1>2. ASSUME NEW j \in Jobs, UNCHANGED faults, faults = 0 => Good(j)',
             \A i \in Jobs \ {j} : /\ pc'[i] = pc[i] /\ lines'[i] = lines[i]
                                   /\ torn'[i] = torn[i] /\ made'[i] = made[i]
      PROVE  Appended'
  BY <1>2 DEF Appended
<1>3. ASSUME NEW j \in Jobs, Checkout(j) PROVE Appended'
  <2>1. /\ lines'[j] = <<>> /\ made'[j] = 0 /\ ~torn'[j] /\ pc'[j] = "restore"
    BY <1>3 DEF Checkout, TypeOK
  <2>2. Len(lines'[j]) = 0 + made'[j] /\ Stretch(lines'[j], 0, made'[j]) /\ Clean(lines'[j])
    BY <2>1 DEF Stretch, Clean
  <2>3. Good(j)'
    BY <2>1, <2>2
  <2> QED BY <1>2, <1>3, <2>3 DEF Checkout, TypeOK
<1>4. ASSUME NEW j \in Jobs, Rerun(j) PROVE Appended'
  <2>1. lines'[j] = lines[j] /\ torn'[j] = torn[j] /\ made'[j] = 0 /\ pc'[j] = "run"
    BY <1>4 DEF Rerun, TypeOK
  <2>2. Len(lines[j]) \in Nat
    BY DEF TypeOK, Lines
  <2>3. Len(lines'[j]) = Len(lines[j]) + made'[j] /\ Stretch(lines'[j], Len(lines[j]), made'[j])
    BY <2>1, <2>2 DEF Stretch
  <2>4. faults = 0 => Good(j)'
    BY <2>1, <2>2, <2>3 DEF Appended
  <2> QED BY <1>2, <1>4, <2>4 DEF Rerun, TypeOK
<1>5. ASSUME NEW j \in Jobs, Attempt(j) PROVE Appended'
  <2>1. PICK v \in Verdicts \cup {"pass"} :
          lines' = [lines EXCEPT ![j] = Append(@,
             IF torn[j] THEN Junk ELSE [task |-> made[j] \div Attempts + 1, verdict |-> v])]
    BY <1>5 DEF Attempt
  <2>2. /\ lines[j] \in Lines /\ made[j] \in Nat /\ made[j] < Tasks * Attempts
        /\ ~torn'[j] /\ made'[j] = made[j] + 1
    BY <1>5 DEF Attempt, TypeOK, InSuite
  <2>3. pc'[j] \notin {"off", "restore", "run"} => made'[j] = Tasks * Attempts
    BY <1>5, <2>2 DEF Attempt, Exit, TypeOK
  <2>4. faults = 0 => Good(j)'
    <3> SUFFICES ASSUME faults = 0 PROVE Good(j)'
      OBVIOUS
    <3>1. PICK k \in Nat : Len(lines[j]) = k + made[j] /\ Stretch(lines[j], k, made[j])
      BY DEF Appended
    <3>2. ~torn[j] /\ Clean(lines[j])
      BY DEF Appended
    <3>3. lines'[j] = Append(lines[j], [task |-> made[j] \div Attempts + 1, verdict |-> v])
      BY <2>1, <3>2 DEF TypeOK
    <3>4. /\ Len(lines'[j]) = k + (made[j] + 1) /\ Stretch(lines'[j], k, made[j] + 1)
          /\ Clean(lines'[j])
      BY <2>2, <3>1, <3>2, <3>3, OneMore
    <3> QED BY <2>2, <2>3, <3>4
  <2> QED BY <1>2, <1>5, <2>1, <2>4 DEF Attempt, TypeOK
<1>6. ASSUME NEW j \in Jobs, AppendErr(j) \/ Interrupted(j) PROVE Appended'
  <2>1. faults' # 0
    BY <1>6, GateAssumption DEF AppendErr, Interrupted, TypeOK
  <2> QED BY <2>1 DEF Appended
<1>7. ASSUME NEW j \in Jobs, Restore(j) \/ Push(j) PROVE Appended'
  BY <1>1, <1>7 DEF Restore, Push, TypeOK
<1>8. ASSUME NEW j \in Jobs, Diff(j) \/ Green(j) \/ Fetch(j) \/ GoOn(j) PROVE Appended'
  BY <1>1, <1>8 DEF Diff, Green, Fetch, GoOn, TypeOK
<1>9. CASE UNCHANGED vars
  BY <1>9 DEF vars, Appended
<1> QED
  BY <1>3, <1>4, <1>5, <1>6, <1>7, <1>8, <1>9 DEF Next, JobStep, Finished

(* What is pushed without faults ends with a whole run. *)
LEMMA StepCovered == TypeOK /\ Appended /\ Covered /\ [Next]_vars => Covered'
<1> SUFFICES ASSUME TypeOK, Appended, Covered, [Next]_vars PROVE Covered'
  OBVIOUS
<1>1. ASSUME NEW j \in Jobs, Push(j) PROVE Covered'
  <2> SUFFICES ASSUME faults = 0, branch' = Results(j) PROVE Covered'
    BY <1>1 DEF Push, Covered
  <2>1. ~torn[j] /\ Clean(lines[j]) /\ made[j] = Tasks * Attempts
    BY <1>1 DEF Appended, Push
  <2>2. PICK k \in Nat : Stretch(lines[j], k, made[j])
    BY DEF Appended
  <2> QED BY <2>1, <2>2 DEF Covered, Loads, Clean, Results
<1>2. CASE UNCHANGED branch /\ (faults' = 0 => faults = 0)
  BY <1>2 DEF Covered
<1>3. ASSUME NEW j \in Jobs, JobStep(j) \/ Rerun(j) \/ GoOn(j), ~Push(j)
      PROVE UNCHANGED branch /\ (faults' = 0 => faults = 0)
  <2>1. CASE AppendErr(j) \/ Interrupted(j)
    BY <2>1, GateAssumption DEF AppendErr, Interrupted, TypeOK
  <2>2. CASE ~(AppendErr(j) \/ Interrupted(j))
    BY <1>3, <2>2 DEF JobStep, Checkout, Restore, Attempt, Diff, Green, Fetch, Rerun, GoOn
  <2> QED BY <2>1, <2>2
<1> QED BY <1>1, <1>2, <1>3 DEF Next, Finished, vars

LEMMA Inductive == Spec => []IInv
<1>1. IInv /\ [Next]_vars => IInv'
  BY StepTypeOK, StepInSuite, StepChecked, StepGated, StepWorkflow, StepPublished,
     StepAppended, StepCovered
     DEF IInv
<1> QED BY InitIInv, <1>1, PTL DEF Spec

(* Every state is well typed: whatever is appended, torn or run on top of   *)
(* it, results.jsonl consists of rows of the suite and of lines that hold   *)
(* two, and no run makes more rows than the suite has attempts.            *)
THEOREM TypeCorrect == Spec => []TypeOK
<1>1. IInv => TypeOK
  BY DEF IInv
<1> QED BY Inductive, <1>1, PTL

(* A red run never updates the baseline: every row of a published baseline *)
(* passed or is tolerated, for any suite, any number of overlapping jobs,   *)
(* runs into one file, faults, and of attempts to publish by hand.          *)
THEOREM OnlyPassesPublished == Spec => []PublishedPasses
<1>1. IInv => PublishedPasses
  BY DEF IInv
<1> QED BY Inductive, <1>1, PTL

(* The attempts of task t are the m-th ones with (t-1)A < m <= tA. *)
LEMMA AttemptsOfTask ==
  ASSUME NEW t \in 1..Tasks, NEW m \in Nat, (t - 1) * Attempts < m, m <= t * Attempts
  PROVE  m \in 1..(Tasks * Attempts) /\ TaskOf(m) = t
<1> DEFINE q == (m - 1) \div Attempts
<1>1. /\ Tasks \in Nat /\ Attempts \in Nat /\ Attempts > 0 /\ t \in Nat /\ t <= Tasks /\ t > 0
      /\ m - 1 \in Nat /\ q \in Nat
      /\ q * Attempts <= m - 1 /\ m - 1 < (q + 1) * Attempts
  BY GateAssumption
<1>2. t * Attempts <= Tasks * Attempts
  BY <1>1
<1>3. q < t
  BY <1>1
<1>4. t - 1 < q + 1
  BY <1>1
<1> QED BY <1>1, <1>2, <1>3, <1>4 DEF TaskOf

(* As long as no row is lost and no run interrupted, a published baseline   *)
(* can be read and has every attempt of every task, for any suite and any   *)
(* number of jobs, of runs into one file and of attempts to publish by hand. *)
THEOREM WholeIsPublished == Spec => []PublishedWhole
<1>1. IInv => PublishedWhole
  <2> SUFFICES ASSUME TypeOK, Covered, branch # NoFile, faults = 0, NEW t \in 1..Tasks
               PROVE  Cardinality(ByTask(branch, t)) >= Attempts
    BY DEF IInv, PublishedWhole, Covered
  <2>1. PICK k \in Nat : Stretch(branch.lines, k, Tasks * Attempts)
    BY DEF Covered
  <2> DEFINE a == k + (t - 1) * Attempts + 1
             b == k + t * Attempts
  <2>2. /\ Attempts \in Nat /\ t \in Nat /\ a \in Int /\ b \in Int /\ b - a + 1 = Attempts
    BY GateAssumption
  <2>3. a..b \subseteq ByTask(branch, t)
    <3> SUFFICES ASSUME NEW i \in a..b PROVE i \in ByTask(branch, t)
      OBVIOUS
    <3>1. i - k \in Nat /\ (t - 1) * Attempts < i - k /\ i - k <= t * Attempts
      BY <2>2, GateAssumption
    <3>2. i - k \in 1..(Tasks * Attempts) /\ TaskOf(i - k) = t
      BY <3>1, AttemptsOfTask
    <3>3. k + (i - k) = i
      BY <2>2
    <3> QED BY <2>1, <3>2, <3>3 DEF Stretch, ByTask
  <2>4. IsFiniteSet(ByTask(branch, t))
    <3>1. branch.lines \in Seq(Rows \cup {Junk})
      BY DEF TypeOK, Files, Lines
    <3>2. Len(branch.lines) \in Nat /\ DOMAIN branch.lines = 1..Len(branch.lines)
      BY <3>1
    <3>3. IsFiniteSet(1..Len(branch.lines))
      BY <3>2, FS_Interval
    <3> QED BY <3>2, <3>3, FS_Subset DEF ByTask
  <2>5. Cardinality(a..b) = Attempts
    BY <2>2, FS_Interval, GateAssumption
  <2>6. Cardinality(a..b) <= Cardinality(ByTask(branch, t))
    BY <2>3, <2>4, FS_Subset
  <2>7. Cardinality(ByTask(branch, t)) \in Nat
    BY <2>4, FS_CardinalityType
  <2> QED BY <2>2, <2>5, <2>6, <2>7
<1> QED BY Inductive, <1>1, PTL

(* In the workflow the diff gate never finds a regression: "run" ends the  *)
(* job before it, for any suite and whatever the baseline holds.           *)
THEOREM GateSeesOnlyGreen == Spec => []DiffSeesOnlyGreen
<1>1. IInv => DiffSeesOnlyGreen
  <2> SUFFICES ASSUME Workflow, NEW j \in Jobs, pc[j] = "diff", ~byHand[j]
               PROVE  Regressed(base[j], Results(j)) = {}
    BY DEF IInv, DiffSeesOnlyGreen
  <2>1. \A n \in DOMAIN lines[j] : lines[j][n].verdict = "pass"
    BY DEF Workflow
  <2>2. \A t \in 1..Tasks : ByTask(Results(j), t) = {} \/ Passed(Results(j), t)
    BY <2>1 DEF ByTask, Passed, Results
  <2> QED BY <2>2 DEF Regressed, Status
<1> QED BY Inductive, <1>1, PTL

(* Results that went through the diff replace no pass of their baseline by  *)
(* a tolerated failure, however often the suite ran into the file.         *)
THEOREM PassesAreKept == Spec => []NoSilentRegression
<1>1. IInv => NoSilentRegression
  <2> SUFFICES ASSUME IInv, NEW j \in Jobs, gated[j], base[j] # NoFile, NEW t \in 1..Tasks,
                      NEW n \in DOMAIN base[j].lines,
                      base[j].lines[n] = [task |-> t, verdict |-> "pass"],
                      NEW k \in DOMAIN lines[j], lines[j][k].task = t
               PROVE  \E m \in DOMAIN lines[j] :
                        lines[j][m] = [task |-> t, verdict |-> "pass"]
    BY DEF NoSilentRegression
  <2>1. Status(base[j], Results(j), t) # "regressed"
    BY DEF IInv, Gated, Regressed
  <2>2. Passed(base[j], t) /\ ByTask(base[j], t) # {} /\ ByTask(Results(j), t) # {}
    BY DEF Passed, ByTask, Results
  <2>3. Passed(Results(j), t)
    BY <2>1, <2>2 DEF Status
  <2>4. PICK m \in DOMAIN lines[j] : lines[j][m].task = t /\ lines[j][m].verdict = "pass"
    BY <2>3 DEF Passed, ByTask, Results
  <2>5. lines[j][m] \in Rows
    BY <2>4, GateAssumption DEF IInv, TypeOK, Lines, Junk
  <2> QED BY <2>4, <2>5 DEF Rows
<1> QED BY Inductive, <1>1, PTL
=============================================================================
