------------------------------ MODULE Worktrees ------------------------------
(***************************************************************************)
(* The scratch worktrees of one repository, shared by the bench processes   *)
(* that use one scratch root: isolate's Create and Teardown, command by     *)
(* command, inside RunSuite's loop over the attempts and its clean-up after *)
(* a signal.  A process may be killed between any two commands and started  *)
(* again, under any pid that is free.                                       *)
(*                                                                         *)
(* Git is external: a worktree is a directory, a registration in the        *)
(* repository and a branch, and each git command below fails in the cases   *)
(* git refuses.  "worktree add" is atomic (git removes its own litter when  *)
(* it is interrupted).  A suite goes through each sanitized name once.      *)
(***************************************************************************)
EXTENDS Naturals

CONSTANTS
  Benches,      \* the places a bench process runs in, one process at a time
  Names,        \* sanitized <suite>-<task>-a<attempt> names
  Pids,
  Nobody,       \* no directory; no owner file
  Overlap,      \* may two Creates of one name be under way together?
  Settings      \* what the benches are told, and the bounds

(* jobs: the names each bench's suite goes through; keepFailed: --keep;     *)
(* cancels: may a suite's ctx be cancelled?  sees: may a bench signal the   *)
(* others' processes, or are they another user's, or of another container? *)
(* Bounds: launches, processes per bench; faults, commands that fail for a  *)
(* reason of their own.                                                    *)
Setting == [jobs : [Benches -> SUBSET Names], keepFailed : BOOLEAN, cancels : BOOLEAN,
            sees : BOOLEAN, launches : Nat, faults : Nat]

ASSUME WorktreesAssumption ==
  /\ Settings \subseteq Setting
  /\ Nobody \notin Benches \cup Pids
  /\ Overlap \in BOOLEAN

VARIABLES
  dir,       \* the bench whose "worktree add" made the directory
  owner,     \* the pid in its .bench-owner
  reg,       \* names git has a worktree registered for
  branch,    \* names with a bench/<name> branch
  pc,        \* where RunSuite, RunTask or Create is
  pid,
  todo,      \* attempts to come, then worktrees to sweep
  name,      \* the attempt (or sweep) under way
  trees,     \* RunSuite's worktrees
  keep,      \* those with Keep set
  cancelled, \* the suite's ctx
  hit,       \* names with a Create, or else a Teardown, that had a command fail
  launches, faults,
  setting    \* chosen once

gitVars  == <<reg, branch>>
diskVars == <<dir, owner, reg, branch>>
suiteVars == <<pid, todo, name, trees, keep>>
vars == <<diskVars, pc, suiteVars, cancelled, hit, launches, faults, setting>>

Creating == {"clear", "prune", "drop", "add", "own"}
Stopped == {"off", "killed"}

Live == {pid[b] : b \in {c \in Benches : pc[c] \notin Stopped}}

Init ==
  /\ dir = [n \in Names |-> Nobody] /\ owner = [n \in Names |-> Nobody]
  /\ reg = {} /\ branch = {}
  /\ pc = [b \in Benches |-> "off"]
  /\ pid = [b \in Benches |-> Nobody] /\ name = [b \in Benches |-> Nobody]
  /\ todo = [b \in Benches |-> {}] /\ trees = todo /\ keep = todo /\ hit = todo
  /\ cancelled = [b \in Benches |-> FALSE]
  /\ launches = [b \in Benches |-> 0]
  /\ faults = 0
  /\ setting \in Settings

-----------------------------------------------------------------------------
GoTo(b, p) == pc' = [pc EXCEPT ![b] = p]

Count == faults < setting.faults /\ faults' = faults + 1

(* A command of b's Create or Teardown fails for a reason of its own. *)
Fault(b) == Count /\ hit' = [hit EXCEPT ![b] = @ \cup {name[b]}]

NoFault == UNCHANGED <<faults, hit>>

(* git branch -D: refused while a worktree is registered for the branch. *)
DeleteBranch(n) ==
  branch' = IF n \in reg THEN branch ELSE branch \ {n}

(* git worktree add -b: what it needs. *)
CanAdd(n) == dir[n] = Nobody /\ n \notin reg /\ n \notin branch

-----------------------------------------------------------------------------
(* RunSuite starts in a new process. *)
Launch(b) ==
  /\ pc[b] \in Stopped /\ launches[b] < setting.launches
  /\ launches' = [launches EXCEPT ![b] = @ + 1]
  /\ \E i \in Pids \ Live : pid' = [pid EXCEPT ![b] = i]
  /\ todo' = [todo EXCEPT ![b] = setting.jobs[b]]
  /\ trees' = [trees EXCEPT ![b] = {}] /\ keep' = [keep EXCEPT ![b] = {}]
  /\ cancelled' = [cancelled EXCEPT ![b] = FALSE]
  /\ hit' = [hit EXCEPT ![b] = {}]
  /\ GoTo(b, IF setting.jobs[b] = {} THEN "leave" ELSE "next")
  /\ UNCHANGED <<diskVars, name, faults>>

(* Mutant: the owner file is not looked at. *)
OwnedIgnored(b, n) == FALSE

(* The guard: the directory exists and its owner file names the pid of a    *)
(* process that b can signal; any error of kill counts as a dead owner.    *)
Owned(b, n) ==
  /\ dir[n] # Nobody
  /\ \E c \in Benches :
       pc[c] \notin Stopped /\ pid[c] = owner[n] /\ (c = b \/ setting.sees)

(* Create's collision guard for the next attempt. *)
Check(b) ==
  /\ pc[b] = "next"
  /\ \E n \in todo[b] :
       /\ Overlap \/ \A c \in Benches : name[c] = n => pc[c] \notin Creating
       /\ name' = [name EXCEPT ![b] = n]
       /\ todo' = [todo EXCEPT ![b] = @ \ {n}]
       /\ hit' = [hit EXCEPT ![b] = @ \ {n}]
       /\ GoTo(b, IF Owned(b, n) THEN "row" ELSE "clear")
  /\ UNCHANGED <<diskVars, pid, trees, keep, cancelled, launches, faults>>

(* os.RemoveAll(dir); one that fails half-way may have removed the owner   *)
(* file, and ends the attempt with an error row.                           *)
Clear(b) ==
  /\ pc[b] = "clear"
  /\ \/ /\ dir' = [dir EXCEPT ![name[b]] = Nobody]
        /\ owner' = [owner EXCEPT ![name[b]] = Nobody]
        /\ GoTo(b, "prune") /\ NoFault
     \/ /\ dir[name[b]] # Nobody /\ UNCHANGED dir
        /\ owner' = [owner EXCEPT ![name[b]] = Nobody] \/ UNCHANGED owner
        /\ GoTo(b, "row") /\ Fault(b)
  /\ UNCHANGED <<gitVars, suiteVars, cancelled, launches>>

(* Mutant: Create deletes the branch without pruning first. *)
PruneSkipped(b) ==
  /\ pc[b] = "prune"
  /\ GoTo(b, "drop")
  /\ UNCHANGED <<diskVars, suiteVars, cancelled, launches, hit, faults>>

(* git worktree prune, whatever it returns: every registration whose       *)
(* directory is gone.                                                      *)
Prune(b) ==
  /\ pc[b] = "prune"
  /\ \/ reg' = {n \in reg : dir[n] # Nobody} /\ NoFault
     \/ UNCHANGED reg /\ Fault(b)
  /\ GoTo(b, "drop")
  /\ UNCHANGED <<dir, owner, branch, suiteVars, cancelled, launches>>

(* git branch -D of a branch an earlier attempt left, whatever it returns. *)
Drop(b) ==
  /\ pc[b] = "drop"
  /\ \/ DeleteBranch(name[b]) /\ NoFault
     \/ UNCHANGED branch /\ Fault(b)
  /\ GoTo(b, "add")
  /\ UNCHANGED <<dir, owner, reg, suiteVars, cancelled, launches>>

Add(b) ==
  /\ pc[b] = "add"
  /\ CanAdd(name[b])
  /\ dir' = [dir EXCEPT ![name[b]] = b]
  /\ reg' = reg \cup {name[b]} /\ branch' = branch \cup {name[b]}
  /\ hit' = [hit EXCEPT ![b] = @ \ {name[b]}]
  /\ GoTo(b, "own")
  /\ UNCHANGED <<owner, suiteVars, cancelled, launches, faults>>

(* The attempt gets an error row and no worktree. *)
AddErr(b) ==
  /\ pc[b] = "add"
  /\ IF CanAdd(name[b]) THEN Fault(b) ELSE NoFault
  /\ GoTo(b, "row")
  /\ UNCHANGED <<diskVars, suiteVars, cancelled, launches>>

(* Mutant: the owner file gets the name of the attempt. *)
OwnName(b) ==
  /\ pc[b] = "own"
  /\ owner' = [owner EXCEPT ![name[b]] = name[b]]
  /\ trees' = [trees EXCEPT ![b] = @ \cup {name[b]}]
  /\ GoTo(b, "use")
  /\ UNCHANGED <<dir, gitVars, pid, todo, name, keep, cancelled, launches, hit, faults>>

(* The owner file is written, or not; Create returns the worktree. *)
Own(b) ==
  /\ pc[b] = "own"
  /\ \/ /\ owner' = [owner EXCEPT ![name[b]] = IF dir[name[b]] = Nobody THEN @ ELSE pid[b]]
        /\ UNCHANGED faults
     \/ UNCHANGED owner /\ Count
  /\ trees' = [trees EXCEPT ![b] = @ \cup {name[b]}]
  /\ GoTo(b, "use")
  /\ UNCHANGED <<dir, gitVars, pid, todo, name, keep, cancelled, launches, hit>>

-----------------------------------------------------------------------------
Verdicts == {"pass", "fail", "error", "timeout"}

(* finishErr and the end of RunTask: which worktrees stay. *)
Keeps(v) == v = "timeout" \/ (v # "pass" /\ setting.keepFailed)

(* The rest of RunTask, up to the verdict. *)
Use(b) ==
  /\ pc[b] = "use"
  /\ \E v \in Verdicts :
       IF Keeps(v)
         THEN keep' = [keep EXCEPT ![b] = @ \cup {name[b]}] /\ GoTo(b, "row")
         ELSE UNCHANGED keep /\ GoTo(b, "remove")
  /\ UNCHANGED <<diskVars, pid, todo, name, trees, cancelled, launches, hit, faults>>

(* Mutant: Teardown deletes the branch before it removes the worktree. *)
RemoveLate(b) ==
  /\ pc[b] \in {"remove", "sweepRemove"}
  /\ DeleteBranch(name[b])
  /\ reg' = reg \ {name[b]}
  /\ dir' = [dir EXCEPT ![name[b]] = IF name[b] \in reg THEN Nobody ELSE @]
  /\ owner' = [owner EXCEPT ![name[b]] = IF name[b] \in reg THEN Nobody ELSE @]
  /\ GoTo(b, IF pc[b] = "remove" THEN "row" ELSE "sweep")
  /\ UNCHANGED <<suiteVars, cancelled, launches, hit, faults>>

(* Teardown's git worktree remove --force, whatever it returns: refused if *)
(* the path is not a registered worktree.  One that fails may have removed *)
(* the registration, and not all of the directory, or the other way round. *)
Remove(b) ==
  /\ pc[b] \in {"remove", "sweepRemove"}
  /\ LET n == name[b] IN
       \/ /\ n \in reg
          /\ dir' = [dir EXCEPT ![n] = Nobody] /\ owner' = [owner EXCEPT ![n] = Nobody]
          /\ reg' = reg \ {n} /\ NoFault
       \/ n \notin reg /\ UNCHANGED <<dir, owner, reg>> /\ NoFault
       \/ UNCHANGED <<dir, owner, reg>> /\ Fault(b)
       \/ /\ n \in reg /\ reg' = reg \ {n} /\ UNCHANGED dir /\ Fault(b)
          /\ owner' = [owner EXCEPT ![n] = Nobody] \/ UNCHANGED owner
       \/ /\ n \in reg /\ UNCHANGED reg /\ Fault(b)
          /\ dir' = [dir EXCEPT ![n] = Nobody] /\ owner' = [owner EXCEPT ![n] = Nobody]
  /\ GoTo(b, IF pc[b] = "remove" THEN "delete" ELSE "sweepDelete")
  /\ UNCHANGED <<branch, suiteVars, cancelled, launches>>

(* Teardown's git branch -D; its error is logged. *)
Delete(b) ==
  /\ pc[b] \in {"delete", "sweepDelete"}
  /\ \/ DeleteBranch(name[b]) /\ NoFault
     \/ UNCHANGED branch /\ Fault(b)
  /\ GoTo(b, IF pc[b] = "delete" THEN "row" ELSE "sweep")
  /\ UNCHANGED <<dir, owner, reg, suiteVars, cancelled, launches>>

(* appendRow, the select on ctx.Done and the head of the loop. *)
Row(b) ==
  /\ pc[b] = "row"
  /\ \/ /\ GoTo(b, IF cancelled[b] \/ todo[b] = {} THEN "leave" ELSE "next")
        /\ UNCHANGED faults
     \/ GoTo(b, "leave") /\ Count
  /\ UNCHANGED <<diskVars, suiteVars, cancelled, launches, hit>>

(* Mutant: the clean-up does not look at Keep. *)
UnkeptAll(b) == trees[b]

(* teardownUnkeptWorktrees: those without Keep, torn down before or not. *)
Unkept(b) == trees[b] \ keep[b]

(* RunSuite's deferred clean-up. *)
Leave(b) ==
  /\ pc[b] = "leave"
  /\ IF cancelled[b]
       THEN todo' = [todo EXCEPT ![b] = Unkept(b)] /\ GoTo(b, "sweep")
       ELSE UNCHANGED todo /\ GoTo(b, "off")
  /\ UNCHANGED <<diskVars, pid, name, trees, keep, cancelled, launches, hit, faults>>

Sweep(b) ==
  /\ pc[b] = "sweep"
  /\ \/ \E n \in todo[b] :
          /\ name' = [name EXCEPT ![b] = n]
          /\ todo' = [todo EXCEPT ![b] = @ \ {n}]
          /\ GoTo(b, "sweepRemove")
     \/ todo[b] = {} /\ UNCHANGED <<name, todo>> /\ GoTo(b, "off")
  /\ UNCHANGED <<diskVars, pid, trees, keep, cancelled, launches, hit, faults>>

(* The signal handler cancels the suite's ctx. *)
Cancel(b) ==
  /\ setting.cancels /\ pc[b] \notin Stopped /\ ~cancelled[b]
  /\ cancelled' = [cancelled EXCEPT ![b] = TRUE]
  /\ UNCHANGED <<diskVars, pc, suiteVars, hit, launches, faults>>

(* The process dies. *)
Kill(b) ==
  /\ pc[b] \notin Stopped
  /\ GoTo(b, "killed")
  /\ UNCHANGED <<diskVars, suiteVars, cancelled, hit, launches, faults>>

Finished ==
  /\ \A b \in Benches : pc[b] \in Stopped /\ launches[b] = setting.launches
  /\ UNCHANGED vars

CreateStep(b) ==
  Check(b) \/ Clear(b) \/ Prune(b) \/ Drop(b) \/ Add(b) \/ AddErr(b) \/ Own(b)

SuiteStep(b) ==
  Launch(b) \/ Use(b) \/ Remove(b) \/ Delete(b) \/ Row(b) \/ Leave(b) \/ Sweep(b)

Next ==
  \/ /\ \E b \in Benches : CreateStep(b) \/ SuiteStep(b) \/ Cancel(b) \/ Kill(b)
     /\ UNCHANGED setting
  \/ Finished

Spec == Init /\ [][Next]_vars

-----------------------------------------------------------------------------
TypeOK ==
  /\ setting \in Settings
  /\ dir \in [Names -> Benches \cup {Nobody}]
  /\ owner \in [Names -> Pids \cup {Nobody}]
  /\ reg \subseteq Names /\ branch \subseteq Names
  /\ pc \in [Benches -> Creating \cup Stopped \cup
               {"next", "use", "remove", "delete", "row", "leave", "sweep",
                "sweepRemove", "sweepDelete"}]
  /\ pid \in [Benches -> Pids \cup {Nobody}]
  /\ name \in [Benches -> Names \cup {Nobody}]
  /\ {todo, trees, keep, hit} \subseteq [Benches -> SUBSET Names]
  /\ cancelled \in [Benches -> BOOLEAN]
  /\ launches \in [Benches -> 0..setting.launches]
  /\ faults \in 0..setting.faults

(* Create repairs whatever an earlier process left (a kept worktree, one   *)
(* cut short by a kill at any command, a Teardown that failed half-way):   *)
(* if its own commands work, "worktree add" is not refused.  This is what  *)
(* the order RemoveAll, prune, branch -D is for.                           *)
AddCannotFail ==
  \A b \in Benches : pc[b] = "add" /\ name[b] \notin hit[b] => CanAdd(name[b])

(* When the owner file alone protects a worktree: no two suites share an    *)
(* attempt, or there are no signals, every command works and the benches   *)
(* see each other's processes.  Otherwise a sweep, or a Create that takes  *)
(* its owner for dead, may come in between.                                *)
Disjoint(s) ==
  \A b \in Benches, c \in Benches : b # c => s.jobs[b] \cap s.jobs[c] = {}

Quiet(s) == ~s.cancels /\ s.faults = 0 /\ s.sees

Tame(s) == Disjoint(s) \/ Quiet(s)

(* In a tame setting an attempt's worktree is there, registered and on its  *)
(* branch, for as long as the attempt uses it: no other process takes it    *)
(* away, whoever is killed and started again, under whatever pid.          *)
LiveTreeStands ==
  Tame(setting) =>
    \A b \in Benches : pc[b] = "use" =>
      dir[name[b]] = b /\ name[b] \in reg /\ name[b] \in branch

(* A suite that ran to its end, broke off at a row it could not write, or   *)
(* was cancelled leaves neither directory, registration nor branch of the   *)
(* worktrees that only it makes and does not keep.  Excepted are those a    *)
(* command of whose own Teardown failed: a failure costs no other worktree, *)
(* and what it leaves has no registration without a branch.                *)
NothingLeft ==
  \A b \in Benches : pc[b] = "off" =>
    \A n \in Unkept(b) \ UNION {setting.jobs[c] : c \in Benches \ {b}} :
      IF n \in hit[b] THEN n \in reg => n \in branch
      ELSE dir[n] = Nobody /\ n \notin reg /\ n \notin branch

(* A suite's clean-up does not touch what the suite keeps.  Until its bench *)
(* starts again, a kept worktree goes only if a Create clears that name or, *)
(* in a setting that is not tame, if another run of the suite tears it      *)
(* down: Teardown does not look at whose worktree it is.                   *)
KeptStays ==
  [][\A b \in Benches : \A n \in keep[b] :
       dir[n] = b /\ dir'[n] # b =>
         \E c \in Benches :
           /\ name[c] = n
           /\ \/ pc[c] = "clear"
              \/ c # b /\ pc[c] \in {"remove", "sweepRemove"} /\ ~Tame(setting)]_vars
=============================================================================
