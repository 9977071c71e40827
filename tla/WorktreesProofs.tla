--------------------------- MODULE WorktreesProofs ---------------------------
(***************************************************************************)
(* The scratch worktrees, for any number of benches, names, restarts and    *)
(* kills.  The inductive invariant is TypeOK, and                          *)
(*   Named      the commands of a bench are about names of its suite        *)
(*   Exclusive  no two Creates of one name are under way                    *)
(*   Cleared    what the commands before "worktree add" have achieved       *)
(*   Unsignalled  without signals there is no sweep                         *)
(*   Alone      who makes or holds a worktree is alone with it              *)
(*   Held       a worktree that is held is there and owned                  *)
(*   KeptApart  what is kept is neither worked on nor to be worked on       *)
(*   Once       a suite gets to each of its names once                      *)
(*   Tidy       what became of the names no other suite has                 *)
(*   Branched   whatever is registered has its branch                       *)
(* Exclusive and Cleared need Overlap to be FALSE, Alone also, and Alone    *)
(* and Held speak of Tame settings only.                                   *)
(***************************************************************************)
EXTENDS Worktrees, TLAPS

Holding == Creating \cup {"use", "remove"}
Sweeping == {"sweep", "sweepRemove", "sweepDelete"}
Working == Holding \cup {"delete", "sweepRemove", "sweepDelete"}
Points == Creating \cup Stopped \cup Working \cup Sweeping \cup {"next", "row", "leave"}

Named ==
  \A b \in Benches : /\ todo[b] \subseteq setting.jobs[b] /\ trees[b] \subseteq setting.jobs[b]
                     /\ pc[b] \in Working => name[b] \in setting.jobs[b]

Exclusive ==
  \A b \in Benches, c \in Benches :
    b # c /\ pc[b] \in Creating /\ pc[c] \in Creating => name[b] # name[c]

Cleared ==
  \A b \in Benches :
    /\ pc[b] \in {"prune", "drop", "add"} => dir[name[b]] = Nobody
    /\ pc[b] \in {"drop", "add"} /\ name[b] \notin hit[b] => name[b] \notin reg
    /\ pc[b] = "add" /\ name[b] \notin hit[b] => name[b] \notin branch

Unsignalled ==
  ~setting.cancels => \A b \in Benches : ~cancelled[b] /\ pc[b] \notin Sweeping

Alone ==
  Tame(setting) =>
    \A b \in Benches, c \in Benches :
      b # c /\ pc[b] \in Holding /\ pc[c] \in Holding \cup {"sweepRemove"}
        => name[b] # name[c]

Held ==
  Tame(setting) =>
    \A b \in Benches :
      /\ pc[b] \in {"own", "use"} =>
           dir[name[b]] = b /\ name[b] \in reg /\ name[b] \in branch
      /\ pc[b] \in {"use", "remove"} /\ Quiet(setting) =>
           dir[name[b]] = b /\ owner[name[b]] = pid[b]

-----------------------------------------------------------------------------
LEMMA InitTyped == Init => TypeOK /\ Named
  BY WorktreesAssumption DEF Init, TypeOK, Named, Setting, Creating, Stopped, Working, Holding

(* A command that fails, or does not, keeps the counters in their bounds. *)
LEMMA CountTyped ==
  ASSUME TypeOK, Count \/ UNCHANGED faults, setting' = setting
  PROVE  faults' \in 0..setting'.faults
<1>1. setting.faults \in Nat
  BY WorktreesAssumption DEF TypeOK, Setting
<1> QED BY <1>1 DEF Count, TypeOK

LEMMA FaultTyped ==
  ASSUME TypeOK, Named, NEW b \in Benches, pc[b] \in Working, Fault(b) \/ NoFault,
         setting' = setting
  PROVE  faults' \in 0..setting'.faults /\ hit' \in [Benches -> SUBSET Names]
<1>1. faults' \in 0..setting'.faults
  BY CountTyped DEF Fault, NoFault
<1>2. hit \in [Benches -> SUBSET Names]
  BY DEF TypeOK
<1>3. name[b] \in Names
  BY WorktreesAssumption DEF TypeOK, Named, Setting
<1>4. CASE Fault(b)
  <2>1. hit[b] \cup {name[b]} \in SUBSET Names
    BY <1>2, <1>3
  <2> QED BY <1>1, <1>2, <1>4, <2>1 DEF Fault
<1> QED BY <1>1, <1>2, <1>4 DEF NoFault

(* A step keeps the types, and stays with the names of the suites. *)
LEMMA StepTyped == TypeOK /\ Named /\ [Next]_vars => TypeOK' /\ Named'
<1> SUFFICES ASSUME TypeOK, Named, [Next]_vars PROVE TypeOK' /\ Named'
  OBVIOUS
<1> USE WorktreesAssumption
    DEF TypeOK, Named, Setting, Creating, Stopped, Working, Holding, GoTo, Count, Fault,
        NoFault, DeleteBranch, gitVars, diskVars, suiteVars
<1>1. ASSUME NEW b \in Benches, Launch(b), UNCHANGED setting PROVE TypeOK' /\ Named'
  BY <1>1 DEF Launch
<1>2. ASSUME NEW b \in Benches, Check(b), UNCHANGED setting PROVE TypeOK' /\ Named'
  BY <1>2 DEF Check
<1>3. ASSUME NEW b \in Benches, Clear(b), UNCHANGED setting PROVE TypeOK' /\ Named'
  <2>1. faults' \in 0..setting'.faults /\ hit' \in [Benches -> SUBSET Names]
    BY <1>3, FaultTyped DEF Clear
  <2>2. pc' \in [Benches -> Points] /\ (\A c \in Benches : pc'[c] \in Working => pc[c] \in Working)
    BY <1>3 DEF Clear, Points, Sweeping
  <2>3. /\ dir' \in [Names -> Benches \cup {Nobody}] /\ owner' \in [Names -> Pids \cup {Nobody}]
        /\ reg' \subseteq Names /\ branch' \subseteq Names
    BY <1>3 DEF Clear
  <2> QED BY <1>3, <2>1, <2>2, <2>3 DEF Clear, Points, Sweeping
<1>4. ASSUME NEW b \in Benches, Prune(b), UNCHANGED setting PROVE TypeOK' /\ Named'
  <2>1. faults' \in 0..setting'.faults /\ hit' \in [Benches -> SUBSET Names]
    BY <1>4, FaultTyped DEF Prune
  <2>2. pc' \in [Benches -> Points] /\ (\A c \in Benches : pc'[c] \in Working => pc[c] \in Working)
    BY <1>4 DEF Prune, Points, Sweeping
  <2>3. /\ dir' \in [Names -> Benches \cup {Nobody}] /\ owner' \in [Names -> Pids \cup {Nobody}]
        /\ reg' \subseteq Names /\ branch' \subseteq Names
    BY <1>4 DEF Prune
  <2> QED BY <1>4, <2>1, <2>2, <2>3 DEF Prune, Points, Sweeping
<1>5. ASSUME NEW b \in Benches, Drop(b), UNCHANGED setting PROVE TypeOK' /\ Named'
  <2>1. faults' \in 0..setting'.faults /\ hit' \in [Benches -> SUBSET Names]
    BY <1>5, FaultTyped DEF Drop
  <2>2. pc' \in [Benches -> Points] /\ (\A c \in Benches : pc'[c] \in Working => pc[c] \in Working)
    BY <1>5 DEF Drop, Points, Sweeping
  <2>3. /\ dir' \in [Names -> Benches \cup {Nobody}] /\ owner' \in [Names -> Pids \cup {Nobody}]
        /\ reg' \subseteq Names /\ branch' \subseteq Names
    BY <1>5 DEF Drop
  <2> QED BY <1>5, <2>1, <2>2, <2>3 DEF Drop, Points, Sweeping
<1>6. ASSUME NEW b \in Benches, Add(b), UNCHANGED setting PROVE TypeOK' /\ Named'
  BY <1>6 DEF Add
<1>7. ASSUME NEW b \in Benches, AddErr(b), UNCHANGED setting PROVE TypeOK' /\ Named'
  <2>1. faults' \in 0..setting'.faults /\ hit' \in [Benches -> SUBSET Names]
    BY <1>7, FaultTyped DEF AddErr
  <2>2. pc' \in [Benches -> Points] /\ (\A c \in Benches : pc'[c] \in Working => pc[c] \in Working)
    BY <1>7 DEF AddErr, Points, Sweeping
  <2>3. /\ dir' \in [Names -> Benches \cup {Nobody}] /\ owner' \in [Names -> Pids \cup {Nobody}]
        /\ reg' \subseteq Names /\ branch' \subseteq Names
    BY <1>7 DEF AddErr
  <2> QED BY <1>7, <2>1, <2>2, <2>3 DEF AddErr, Points, Sweeping
<1>8. ASSUME NEW b \in Benches, Own(b), UNCHANGED setting PROVE TypeOK' /\ Named'
  <2>1. faults' \in 0..setting'.faults /\ hit' \in [Benches -> SUBSET Names]
    BY <1>8, CountTyped DEF Own
  <2>2. pc' \in [Benches -> Points] /\ (\A c \in Benches : pc'[c] \in Working => pc[c] \in Working)
    BY <1>8 DEF Own, Points, Sweeping
  <2>3. /\ dir' \in [Names -> Benches \cup {Nobody}] /\ owner' \in [Names -> Pids \cup {Nobody}]
        /\ reg' \subseteq Names /\ branch' \subseteq Names
    BY <1>8 DEF Own
  <2> QED BY <1>8, <2>1, <2>2, <2>3 DEF Own, Points, Sweeping
<1>9. ASSUME NEW b \in Benches, Use(b), UNCHANGED setting PROVE TypeOK' /\ Named'
  BY <1>9 DEF Use
<1>10. ASSUME NEW b \in Benches, Remove(b), UNCHANGED setting PROVE TypeOK' /\ Named'
  <2>1. faults' \in 0..setting'.faults /\ hit' \in [Benches -> SUBSET Names]
    BY <1>10, FaultTyped DEF Remove
  <2>2. pc' \in [Benches -> Points] /\ (\A c \in Benches : pc'[c] \in Working => pc[c] \in Working)
    BY <1>10 DEF Remove, Points, Sweeping
  <2>3. /\ dir' \in [Names -> Benches \cup {Nobody}] /\ owner' \in [Names -> Pids \cup {Nobody}]
        /\ reg' \subseteq Names /\ branch' \subseteq Names
    BY <1>10 DEF Remove
  <2> QED BY <1>10, <2>1, <2>2, <2>3 DEF Remove, Points, Sweeping
<1>11. ASSUME NEW b \in Benches, Delete(b), UNCHANGED setting PROVE TypeOK' /\ Named'
  <2>1. faults' \in 0..setting'.faults /\ hit' \in [Benches -> SUBSET Names]
    BY <1>11, FaultTyped DEF Delete
  <2>2. pc' \in [Benches -> Points] /\ (\A c \in Benches : pc'[c] \in Working => pc[c] \in Working)
    BY <1>11 DEF Delete, Points, Sweeping
  <2>3. /\ dir' \in [Names -> Benches \cup {Nobody}] /\ owner' \in [Names -> Pids \cup {Nobody}]
        /\ reg' \subseteq Names /\ branch' \subseteq Names
    BY <1>11 DEF Delete
  <2> QED BY <1>11, <2>1, <2>2, <2>3 DEF Delete, Points, Sweeping
<1>12. ASSUME NEW b \in Benches, Row(b), UNCHANGED setting PROVE TypeOK' /\ Named'
  <2>1. faults' \in 0..setting'.faults /\ hit' \in [Benches -> SUBSET Names]
    BY <1>12, CountTyped DEF Row
  <2>2. pc' \in [Benches -> Points] /\ (\A c \in Benches : pc'[c] \in Working => pc[c] \in Working)
    BY <1>12 DEF Row, Points, Sweeping
  <2>3. /\ dir' \in [Names -> Benches \cup {Nobody}] /\ owner' \in [Names -> Pids \cup {Nobody}]
        /\ reg' \subseteq Names /\ branch' \subseteq Names
    BY <1>12 DEF Row
  <2> QED BY <1>12, <2>1, <2>2, <2>3 DEF Row, Points, Sweeping
<1>13. ASSUME NEW b \in Benches, Leave(b), UNCHANGED setting PROVE TypeOK' /\ Named'
  BY <1>13 DEF Leave, Unkept
<1>14. ASSUME NEW b \in Benches, Sweep(b), UNCHANGED setting PROVE TypeOK' /\ Named'
  BY <1>14 DEF Sweep
<1>15. ASSUME NEW b \in Benches, Cancel(b) \/ Kill(b), UNCHANGED setting
       PROVE  TypeOK' /\ Named'
  <2>1. CASE Cancel(b)
    BY <1>15, <2>1 DEF Cancel
  <2>2. CASE Kill(b)
    BY <1>15, <2>2 DEF Kill
  <2> QED BY <1>15, <2>1, <2>2
<1>16. CASE UNCHANGED vars
  BY <1>16 DEF vars
<1> QED
  BY <1>1, <1>2, <1>3, <1>4, <1>5, <1>6, <1>7, <1>8, <1>9, <1>10, <1>11, <1>12, <1>13,
     <1>14, <1>15, <1>16 DEF Next, CreateStep, SuiteStep, Finished

-----------------------------------------------------------------------------
(* Only Check makes a bench create another name. *)
LEMMA StepExclusive ==
  ASSUME Overlap = FALSE
  PROVE  TypeOK /\ Exclusive /\ [Next]_vars => Exclusive'
<1> SUFFICES ASSUME TypeOK, Exclusive, [Next]_vars PROVE Exclusive'
  OBVIOUS
<1> USE DEF TypeOK, Exclusive, Creating, Stopped, GoTo, suiteVars
<1>1. ASSUME NEW b \in Benches, Check(b) PROVE Exclusive'
  BY <1>1 DEF Check
<1>2. ASSUME UNCHANGED name,
             \A c \in Benches : pc'[c] \in Creating => pc[c] \in Creating
      PROVE  Exclusive'
  BY <1>2
<1>3. ASSUME NEW b \in Benches, CreateStep(b), ~Check(b) PROVE Exclusive'
  BY <1>2, <1>3 DEF CreateStep, Clear, Prune, Drop, Add, AddErr, Own
<1>4. ASSUME NEW b \in Benches, Sweep(b) PROVE Exclusive'
  <2>1. CASE UNCHANGED name
    BY <1>2, <1>4, <2>1 DEF Sweep
  <2> QED BY <1>4, <2>1 DEF Sweep
<1>5. ASSUME NEW b \in Benches, SuiteStep(b), ~Sweep(b) PROVE Exclusive'
  BY <1>2, <1>5 DEF SuiteStep, Launch, Use, Remove, Delete, Row, Leave
<1>6. ASSUME NEW b \in Benches, Cancel(b) \/ Kill(b) PROVE Exclusive'
  BY <1>2, <1>6 DEF Cancel, Kill
<1>7. CASE UNCHANGED vars
  BY <1>2, <1>7 DEF vars
<1> QED
  BY <1>1, <1>3, <1>4, <1>5, <1>6, <1>7 DEF Next, Finished

(* The commands of a Create build on each other, and no other bench undoes  *)
(* what they did: it only removes, or it creates another name.             *)
LEMMA StepCleared == TypeOK /\ Named /\ Exclusive /\ Cleared /\ [Next]_vars => Cleared'
<1> SUFFICES ASSUME TypeOK, Named, Exclusive, Cleared, [Next]_vars PROVE Cleared'
  OBVIOUS
<1> USE WorktreesAssumption
    DEF TypeOK, Cleared, Creating, Stopped, GoTo, Fault, NoFault, suiteVars, gitVars, diskVars
(* Steps that add nothing, and take no bench on with a Create. *)
<1>1. ASSUME reg' \subseteq reg, branch' \subseteq branch,
             \A n \in Names : dir'[n] = dir[n] \/ dir'[n] = Nobody,
             \A c \in Benches : pc'[c] \in {"prune", "drop", "add"} =>
               pc'[c] = pc[c] /\ name'[c] = name[c] /\ hit[c] \subseteq hit'[c] /\ name[c] \in Names
      PROVE  Cleared'
  BY <1>1
<1>2. \A c \in Benches : pc[c] \in Creating => name[c] \in Names
  BY DEF Named, Working, Holding, Setting
<1>3. ASSUME NEW b \in Benches, Check(b) \/ Launch(b) \/ Leave(b) \/ Sweep(b) PROVE Cleared'
  BY <1>1, <1>2, <1>3 DEF Check, Launch, Leave, Sweep
<1>4. ASSUME NEW b \in Benches, Clear(b) PROVE Cleared'
  BY <1>2, <1>4 DEF Clear
<1>5. ASSUME NEW b \in Benches, Prune(b) PROVE Cleared'
  BY <1>2, <1>5 DEF Prune
<1>6. ASSUME NEW b \in Benches, Drop(b) PROVE Cleared'
  BY <1>2, <1>6 DEF Drop, DeleteBranch
<1>7. ASSUME NEW b \in Benches, Add(b) PROVE Cleared'
  <2>1. \A c \in Benches \ {b} : pc[c] \in {"prune", "drop", "add"} => name[c] # name[b]
    BY <1>7 DEF Add, Exclusive
  <2> QED BY <1>2, <1>7, <2>1 DEF Add
<1>8. ASSUME NEW b \in Benches, AddErr(b) \/ Own(b) \/ Use(b) \/ Row(b) PROVE Cleared'
  BY <1>1, <1>2, <1>8 DEF AddErr, Own, Use, Row
<1>9. ASSUME NEW b \in Benches, Remove(b) \/ Delete(b) PROVE Cleared'
  BY <1>1, <1>2, <1>9 DEF Remove, Delete, DeleteBranch
<1>10. ASSUME NEW b \in Benches, Cancel(b) \/ Kill(b) PROVE Cleared'
  BY <1>1, <1>2, <1>10 DEF Cancel, Kill
<1>11. CASE UNCHANGED vars
  BY <1>11 DEF vars
<1> QED
  BY <1>3, <1>4, <1>5, <1>6, <1>7, <1>8, <1>9, <1>10, <1>11
     DEF Next, CreateStep, SuiteStep, Finished

-----------------------------------------------------------------------------
(* No signal, no sweep. *)
LEMMA StepUnsignalled == TypeOK /\ Unsignalled /\ [Next]_vars => Unsignalled'
<1> SUFFICES ASSUME TypeOK, Unsignalled, [Next]_vars, ~setting.cancels PROVE Unsignalled'
  BY DEF Next, Finished, vars, Unsignalled
<1> USE DEF TypeOK, Unsignalled, Sweeping, GoTo, suiteVars
<1>1. ASSUME NEW b \in Benches, CreateStep(b) PROVE Unsignalled'
  BY <1>1 DEF CreateStep, Check, Clear, Prune, Drop, Add, AddErr, Own
<1>2. ASSUME NEW b \in Benches, SuiteStep(b) PROVE Unsignalled'
  BY <1>2 DEF SuiteStep, Launch, Use, Remove, Delete, Row, Leave, Sweep
<1>3. ASSUME NEW b \in Benches, Cancel(b) \/ Kill(b) PROVE Unsignalled'
  BY <1>3 DEF Cancel, Kill
<1>4. CASE UNCHANGED vars
  BY <1>4 DEF vars
<1> QED BY <1>1, <1>2, <1>3, <1>4 DEF Next, Finished

(* Nothing fails in a quiet setting. *)
LEMMA NoFaults ==
  ASSUME TypeOK, Quiet(setting), NEW b \in Benches
  PROVE  ~Fault(b) /\ ~Count
  BY WorktreesAssumption DEF TypeOK, Quiet, Fault, Count, Setting

(* Disjoint suites have no names in common.  In a quiet setting a bench     *)
(* starts to create a name only if nobody holds it: whoever uses the        *)
(* worktree is alive and has its pid in the owner file.                    *)
LEMMA StepAlone ==
  ASSUME Overlap = FALSE
  PROVE  /\ TypeOK /\ Named /\ Unsignalled /\ Alone /\ Held /\ [Next]_vars
         /\ Named' /\ Unsignalled'
         => Alone'
<1>0. ASSUME [Next]_vars PROVE setting' = setting
  BY <1>0 DEF Next, Finished, vars
<1> SUFFICES ASSUME TypeOK, Named, Unsignalled, Alone, Held, [Next]_vars, Named', Unsignalled',
                    Tame(setting)
             PROVE  Alone'
  BY <1>0 DEF Alone, Tame, Disjoint, Quiet
<1>1. setting' = setting /\ Tame(setting)
  BY <1>0
<1>2. CASE Disjoint(setting)
  <2> SUFFICES ASSUME NEW b \in Benches, NEW c \in Benches, b # c, pc'[b] \in Holding,
                      pc'[c] \in Holding \cup {"sweepRemove"}
               PROVE  name'[b] # name'[c]
    BY DEF Alone
  <2>1. name'[b] \in setting.jobs[b] /\ name'[c] \in setting.jobs[c]
    BY <1>1 DEF Named, Working
  <2> QED BY <1>2, <2>1 DEF Disjoint
<1>3. CASE Quiet(setting)
  <2> USE DEF TypeOK, Alone, Holding, Creating, Stopped, GoTo, suiteVars
  <2>1. \A c \in Benches : pc[c] \notin Sweeping /\ pc'[c] \notin Sweeping
    BY <1>1, <1>3 DEF Quiet, Unsignalled
  <2>2. ASSUME UNCHANGED name, \A c \in Benches : pc'[c] \in Holding => pc[c] \in Holding
        PROVE  Alone'
    BY <2>1, <2>2 DEF Sweeping
  <2>3. ASSUME NEW b \in Benches, Check(b) PROVE Alone'
    <3>1. PICK n \in todo[b] :
            /\ \A c \in Benches : name[c] = n => pc[c] \notin Creating
            /\ name' = [name EXCEPT ![b] = n]
            /\ GoTo(b, IF Owned(b, n) THEN "row" ELSE "clear")
      BY <2>3 DEF Check
    <3>2. ASSUME NEW c \in Benches, c # b, pc[c] \in Holding, name[c] = n
          PROVE  Owned(b, n)
      <4>1. pc[c] \in {"use", "remove"}
        BY <3>1, <3>2
      <4>2. dir[n] = c /\ owner[n] = pid[c]
        BY <1>3, <3>2, <4>1 DEF Held
      <4> QED BY <1>3, <4>1, <4>2, WorktreesAssumption DEF Owned, Quiet
    <3> QED BY <2>1, <3>1, <3>2 DEF Sweeping
  <2>4. ASSUME NEW b \in Benches, CreateStep(b), ~Check(b) PROVE Alone'
    BY <2>2, <2>4 DEF CreateStep, Clear, Prune, Drop, Add, AddErr, Own
  <2>5. ASSUME NEW b \in Benches, SuiteStep(b) PROVE Alone'
    BY <2>1, <2>2, <2>5 DEF SuiteStep, Launch, Use, Remove, Delete, Row, Leave, Sweep, Sweeping
  <2>6. ASSUME NEW b \in Benches, Cancel(b) \/ Kill(b) PROVE Alone'
    BY <2>2, <2>6 DEF Cancel, Kill
  <2>7. CASE UNCHANGED vars
    BY <2>2, <2>7 DEF vars
  <2> QED BY <2>3, <2>4, <2>5, <2>6, <2>7 DEF Next, Finished
<1> QED BY <1>1, <1>2, <1>3 DEF Tame

(* What a bench holds is touched by no other, and it is the bench's own     *)
(* step that gives it up.                                                  *)
LEMMA StepHeld == TypeOK /\ Named /\ Alone /\ Held /\ [Next]_vars => Held'
<1>0. ASSUME [Next]_vars PROVE setting' = setting
  BY <1>0 DEF Next, Finished, vars
<1> SUFFICES ASSUME TypeOK, Named, Alone, Held, [Next]_vars, Tame(setting) PROVE Held'
  BY <1>0 DEF Held, Tame, Disjoint, Quiet
<1> USE WorktreesAssumption
    DEF TypeOK, Held, Holding, Creating, Stopped, GoTo, NoFault, suiteVars, gitVars, diskVars
<1>1. setting' = setting /\ Tame(setting)'
  BY <1>0 DEF Tame, Disjoint, Quiet
<1>2. \A c \in Benches : pc[c] \in Holding => name[c] \in Names
  BY DEF Named, Working, Setting
<1>3. ASSUME NEW b \in Benches, CreateStep(b) PROVE Held'
  <2>1. \A c \in Benches \ {b} : pc[b] \in Creating /\ pc[c] \in Holding => name[c] # name[b]
    BY DEF Alone
  <2>2. CASE Check(b)
    BY <1>1, <2>2 DEF Check
  <2>3. CASE Clear(b)
    BY <1>1, <1>2, <2>1, <2>3 DEF Clear
  <2>4. CASE Prune(b)
    BY <1>1, <1>2, <2>1, <2>4 DEF Prune
  <2>5. CASE Drop(b)
    BY <1>1, <1>2, <2>1, <2>5 DEF Drop, DeleteBranch
  <2>6. CASE Add(b)
    BY <1>1, <1>2, <2>1, <2>6 DEF Add
  <2>7. CASE AddErr(b)
    BY <1>1, <2>7 DEF AddErr
  <2>8. CASE Own(b)
    BY <1>1, <1>2, <2>1, <2>8, NoFaults DEF Own
  <2> QED BY <1>3, <2>2, <2>3, <2>4, <2>5, <2>6, <2>7, <2>8 DEF CreateStep
<1>4. ASSUME NEW b \in Benches, Remove(b) PROVE Held'
  <2>1. \A c \in Benches \ {b} : pc[c] \in Holding => name[c] # name[b]
    BY <1>4 DEF Remove, Alone
  <2> QED BY <1>1, <1>2, <1>4, <2>1 DEF Remove
<1>5. ASSUME NEW b \in Benches, Delete(b) PROVE Held'
  BY <1>1, <1>2, <1>5 DEF Delete, DeleteBranch
<1>6. ASSUME NEW b \in Benches, Launch(b) PROVE Held'
  BY <1>1, <1>6 DEF Launch
<1>7. ASSUME NEW b \in Benches, Use(b) \/ Row(b) \/ Leave(b) PROVE Held'
  BY <1>1, <1>7 DEF Use, Row, Leave
<1>8. ASSUME NEW b \in Benches, Sweep(b) PROVE Held'
  BY <1>1, <1>8 DEF Sweep
<1>9. ASSUME NEW b \in Benches, Cancel(b) \/ Kill(b) PROVE Held'
  BY <1>1, <1>9 DEF Cancel, Kill
<1>10. CASE UNCHANGED vars
  BY <1>10 DEF vars
<1> QED
  BY <1>3, <1>4, <1>5, <1>6, <1>7, <1>8, <1>9, <1>10 DEF Next, SuiteStep, Finished

-----------------------------------------------------------------------------
(* Every state is well typed, for any settings. *)
THEOREM TypeCorrect == Spec => []TypeOK
<1>1. Spec => [](TypeOK /\ Named)
  BY InitTyped, StepTyped, PTL DEF Spec
<1> QED BY <1>1, PTL

(* Create repairs whatever earlier processes left: unless a command of its  *)
(* own fails, "worktree add" is never refused, for any number of benches,   *)
(* shared names, kills and failed Teardowns, as long as no two Creates of   *)
(* one name are under way together.                                        *)
THEOREM CreateRepairs ==
  ASSUME Overlap = FALSE
  PROVE  Spec => []AddCannotFail
<1> DEFINE IInv == TypeOK /\ Named /\ Exclusive /\ Cleared
<1>1. Init => IInv
  BY InitTyped DEF Init, Exclusive, Cleared, Creating
<1>2. IInv /\ [Next]_vars => IInv'
  BY StepTyped, StepExclusive, StepCleared
<1>3. IInv => AddCannotFail
  BY DEF Cleared, AddCannotFail, CanAdd
<1> QED BY <1>1, <1>2, <1>3, PTL DEF Spec

(* Nobody takes a worktree away that an attempt uses, if the suites have no *)
(* attempt in common, or if no command fails, no signal comes and the       *)
(* benches see each other's processes: then the owner file alone protects   *)
(* it, whoever is killed and started again.                                *)
THEOREM UsersAreSafe ==
  ASSUME Overlap = FALSE
  PROVE  Spec => []LiveTreeStands
<1> DEFINE IInv == TypeOK /\ Named /\ Unsignalled /\ Alone /\ Held
<1>1. Init => IInv
  BY InitTyped DEF Init, Unsignalled, Sweeping, Alone, Held, Holding, Creating
<1>2. IInv /\ [Next]_vars => IInv'
  BY StepTyped, StepUnsignalled, StepAlone, StepHeld
<1>3. IInv => LiveTreeStands
  BY DEF Held, LiveTreeStands
<1> QED BY <1>1, <1>2, <1>3, PTL DEF Spec

-----------------------------------------------------------------------------
KeptApart ==
  \A b \in Benches :
    /\ keep[b] \subseteq setting.jobs[b] /\ keep[b] \cap todo[b] = {}
    /\ pc[b] \in Working => name[b] \notin keep[b] /\ name[b] \notin todo[b]

(* An attempt that is kept is over, and the sweep leaves it out. *)
LEMMA StepKeptApart == TypeOK /\ Named /\ KeptApart /\ [Next]_vars => KeptApart'
<1> SUFFICES ASSUME TypeOK, Named, KeptApart, [Next]_vars PROVE KeptApart'
  OBVIOUS
<1>1. setting' = setting
  BY DEF Next, Finished, vars
<1> USE DEF TypeOK, KeptApart, Working, Holding, Creating, Stopped, GoTo, suiteVars
<1>2. ASSUME NEW b \in Benches, Launch(b) PROVE KeptApart'
  BY <1>1, <1>2 DEF Launch
<1>3. ASSUME NEW b \in Benches, Check(b) PROVE KeptApart'
  BY <1>1, <1>3 DEF Check
<1>4. ASSUME UNCHANGED <<todo, name, keep>>,
             \A c \in Benches : pc'[c] \in Working => pc[c] \in Working
      PROVE  KeptApart'
  BY <1>1, <1>4
<1>5. ASSUME NEW b \in Benches, CreateStep(b), ~Check(b) PROVE KeptApart'
  BY <1>4, <1>5 DEF CreateStep, Clear, Prune, Drop, Add, AddErr, Own
<1>6. ASSUME NEW b \in Benches, Use(b) PROVE KeptApart'
  <2>1. name[b] \in setting.jobs[b] /\ name[b] \notin todo[b]
    BY <1>6 DEF Use, Named
  <2> QED BY <1>1, <1>6, <2>1 DEF Use
<1>7. ASSUME NEW b \in Benches, Remove(b) \/ Delete(b) \/ Row(b) PROVE KeptApart'
  BY <1>4, <1>7 DEF Remove, Delete, Row
<1>8. ASSUME NEW b \in Benches, Leave(b) PROVE KeptApart'
  BY <1>1, <1>8 DEF Leave, Unkept
<1>9. ASSUME NEW b \in Benches, Sweep(b) PROVE KeptApart'
  BY <1>1, <1>9 DEF Sweep
<1>10. ASSUME NEW b \in Benches, Cancel(b) \/ Kill(b) PROVE KeptApart'
  BY <1>4, <1>10 DEF Cancel, Kill
<1>11. CASE UNCHANGED vars
  BY <1>4, <1>11 DEF vars
<1> QED
  BY <1>2, <1>3, <1>5, <1>6, <1>7, <1>8, <1>9, <1>10, <1>11 DEF Next, SuiteStep, Finished

(* What a suite keeps outlives its own clean-up, in any setting; and in a   *)
(* tame one the clean-up of every other, so that only a Create of the same  *)
(* name clears it away.                                                    *)
THEOREM KeptTreesStand ==
  ASSUME Overlap = FALSE
  PROVE  Spec => KeptStays
<1> DEFINE IInv == TypeOK /\ Named /\ Unsignalled /\ Alone /\ Held /\ KeptApart
           Takes(c, b, n) ==
             /\ name[c] = n
             /\ \/ pc[c] = "clear"
                \/ c # b /\ pc[c] \in {"remove", "sweepRemove"} /\ ~Tame(setting)
           Step == \A b \in Benches : \A n \in keep[b] :
             dir[n] = b /\ dir'[n] # b => \E c \in Benches : Takes(c, b, n)
<1>1. Init => IInv
  BY InitTyped DEF Init, Unsignalled, Sweeping, Alone, Held, Holding, Creating, KeptApart, Working
<1>2. IInv /\ [Next]_vars => IInv'
  BY StepTyped, StepUnsignalled, StepAlone, StepHeld, StepKeptApart
<1>3. IInv /\ [Next]_vars => Step
  <2> SUFFICES ASSUME IInv, [Next]_vars, NEW b \in Benches, NEW n \in keep[b],
                      dir[n] = b, dir'[n] # b
               PROVE  \E c \in Benches : Takes(c, b, n)
    OBVIOUS
  <2>1. n \in setting.jobs[b] /\ n \in Names
    BY WorktreesAssumption DEF TypeOK, KeptApart, Setting
  <2>2. ASSUME NEW c \in Benches, Clear(c) PROVE Takes(c, b, n)
    BY <2>1, <2>2 DEF Clear, TypeOK
  <2>3. ASSUME NEW c \in Benches, Add(c) PROVE FALSE
    BY <2>1, <2>3, WorktreesAssumption DEF Add, CanAdd, TypeOK
  <2>4. ASSUME NEW c \in Benches, Remove(c) PROVE Takes(c, b, n)
    <3>1. name[c] = n /\ pc[c] \in {"remove", "sweepRemove"}
      BY <2>1, <2>4 DEF Remove, TypeOK
    <3>2. c # b
      BY <3>1 DEF KeptApart, Working, Holding
    <3>3. ~Disjoint(setting)
      BY <2>1, <3>1, <3>2 DEF Disjoint, Named, Working, Holding
    <3>4. ~Quiet(setting)
      BY <3>1, <3>2 DEF Quiet, Unsignalled, Sweeping, Held, Tame
    <3> QED BY <3>1, <3>2, <3>3, <3>4 DEF Tame
  <2>5. CASE UNCHANGED dir
    BY <2>5
  <2> QED
    BY <2>2, <2>3, <2>4, <2>5
       DEF Next, CreateStep, SuiteStep, Launch, Check, Prune, Drop, AddErr, Own, Use, Delete, Row,
           Leave, Sweep, Cancel, Kill, Finished, gitVars, diskVars, vars
<1> QED BY <1>1, <1>2, <1>3, PTL DEF Spec, KeptStays

-----------------------------------------------------------------------------
Once ==
  \A b \in Benches : pc[b] \notin Sweeping \cup Stopped =>
    /\ trees[b] \cap todo[b] = {}
    /\ pc[b] \in Creating => name[b] \notin trees[b] /\ name[b] \notin todo[b]

LEMMA StepOnce == TypeOK /\ Once /\ [Next]_vars => Once'
<1> SUFFICES ASSUME TypeOK, Once, [Next]_vars PROVE Once'
  OBVIOUS
<1> USE DEF TypeOK, Once, Sweeping, Creating, Stopped, GoTo, suiteVars
<1>1. ASSUME NEW b \in Benches, Launch(b) PROVE Once'
  BY <1>1 DEF Launch
<1>2. ASSUME NEW b \in Benches, Check(b) PROVE Once'
  BY <1>2 DEF Check
<1>3. ASSUME NEW b \in Benches, Clear(b) \/ Prune(b) \/ Drop(b) \/ Add(b) \/ AddErr(b)
      PROVE  Once'
  BY <1>3 DEF Clear, Prune, Drop, Add, AddErr
<1>4. ASSUME NEW b \in Benches, Own(b) PROVE Once'
  BY <1>4 DEF Own
<1>5. ASSUME NEW b \in Benches, Use(b) \/ Remove(b) \/ Delete(b) \/ Row(b) PROVE Once'
  BY <1>5 DEF Use, Remove, Delete, Row
<1>6. ASSUME NEW b \in Benches, Leave(b) \/ Sweep(b) PROVE Once'
  BY <1>6 DEF Leave, Sweep
<1>7. ASSUME NEW b \in Benches, Cancel(b) \/ Kill(b) PROVE Once'
  BY <1>7 DEF Cancel, Kill
<1>8. CASE UNCHANGED vars
  BY <1>8 DEF vars
<1> QED
  BY <1>1, <1>2, <1>3, <1>4, <1>5, <1>6, <1>7, <1>8 DEF Next, CreateStep, SuiteStep, Finished

Clean(n) == dir[n] = Nobody /\ n \notin reg /\ n \notin branch

Made(b, n) == dir[n] = b /\ n \in reg /\ n \in branch

(* A name of b's suite and of no other. *)
Sole(b, n) == n \in setting.jobs[b] /\ \A c \in Benches \ {b} : n \notin setting.jobs[c]

AtWork == {"use", "remove", "delete"}

(* What of b's is between its Create and its Teardown, or past that. *)
TidyAt(b, n) ==
  /\ pc[b] \in {"own", "use", "remove"} /\ name[b] = n => Made(b, n)
  /\ pc[b] = "delete" /\ name[b] = n /\ n \notin hit[b] => dir[n] = Nobody /\ n \notin reg
  /\ n \in Unkept(b) \ hit[b] /\ pc[b] # "killed" /\ ~(pc[b] \in AtWork /\ name[b] = n)
       => Clean(n)

Tidy == \A b \in Benches : \A n \in Names : Sole(b, n) => TidyAt(b, n)

LEMMA StepTidy ==
  TypeOK /\ Named /\ KeptApart /\ Once /\ Tidy /\ [Next]_vars => Tidy'
<1> SUFFICES ASSUME TypeOK, Named, KeptApart, Once, Tidy, [Next]_vars,
                    NEW b \in Benches, NEW n \in Names, Sole(b, n)'
             PROVE  TidyAt(b, n)'
  BY DEF Tidy
<1>1. setting' = setting
  BY DEF Next, Finished, vars
<1>2. Sole(b, n) /\ \A c \in Benches \ {b} : pc[c] \in Working => name[c] # n
  BY <1>1 DEF Sole, Named
<1>3. TidyAt(b, n)
  BY <1>2 DEF Tidy
<1> USE WorktreesAssumption
    DEF TypeOK, TidyAt, Made, Clean, Unkept, AtWork, Working, Holding, Sweeping, Creating, Stopped,
        GoTo, Fault, NoFault, DeleteBranch, suiteVars, gitVars, diskVars
(* Other benches have nothing to do with n. *)
<1>4. ASSUME NEW c \in Benches \ {b}, CreateStep(c) \/ SuiteStep(c) \/ Cancel(c) \/ Kill(c)
      PROVE  TidyAt(b, n)'
  <2>1. /\ pc'[b] = pc[b] /\ name'[b] = name[b] /\ trees'[b] = trees[b] /\ keep'[b] = keep[b]
        /\ hit'[b] = hit[b]
    BY <1>4 DEF CreateStep, SuiteStep, Launch, Check, Clear, Prune, Drop, Add, AddErr, Own, Use,
                Remove, Delete, Row, Leave, Sweep, Cancel, Kill
  <2>2. CASE Clear(c) \/ Add(c) \/ Own(c)
    BY <1>2, <1>3, <2>1, <2>2 DEF Clear, Add, Own
  <2>3. CASE Prune(c)
    BY <1>2, <1>3, <2>1, <2>3 DEF Prune
  <2>4. CASE Drop(c) \/ Delete(c)
    BY <1>2, <1>3, <2>1, <2>4 DEF Drop, Delete
  <2>5. CASE Remove(c)
    <3>1. dir'[n] = dir[n] /\ (n \in reg' <=> n \in reg) /\ branch' = branch
      BY <1>2, <2>5 DEF Remove
    <3> QED BY <1>3, <2>1, <3>1
  <2>6. CASE UNCHANGED <<dir, reg, branch>>
    BY <1>3, <2>1, <2>6
  <2> QED
    BY <1>4, <2>2, <2>3, <2>4, <2>5, <2>6
       DEF CreateStep, SuiteStep, Launch, Check, AddErr, Use, Row, Leave, Sweep, Cancel, Kill
(* Its own bench: a name whose turn is over is not touched any more, or     *)
(* torn down again.                                                        *)
<1>5. CASE Launch(b) \/ Check(b)
  BY <1>3, <1>5 DEF Launch, Check, Once
<1>6. CASE Clear(b) \/ Prune(b) \/ Drop(b)
  <2>1. pc[b] \in Creating /\ pc'[b] \notin {"own", "use", "remove", "delete", "killed"}
    BY <1>6 DEF Clear, Prune, Drop
  <2>2. n \in Unkept(b) \ hit[b] => Clean(n)
    BY <1>3, <2>1
  <2>3. Clean(n) => Clean(n)'
    BY <1>6 DEF Clear, Prune, Drop
  <2>4. Unkept(b)' = Unkept(b) /\ hit[b] \subseteq hit'[b]
    BY <1>6 DEF Clear, Prune, Drop
  <2> QED BY <2>1, <2>2, <2>3, <2>4
<1>7. CASE Add(b)
  BY <1>3, <1>7 DEF Add, Once
<1>8. CASE AddErr(b) \/ Own(b)
  BY <1>3, <1>8 DEF AddErr, Own, Once
<1>9. CASE Use(b)
  BY <1>3, <1>9 DEF Use
<1>10. CASE Remove(b)
  <2>1. CASE NoFault
    BY <1>3, <1>10, <2>1 DEF Remove
  <2>2. CASE Fault(b)
    BY <1>3, <1>10, <2>2 DEF Remove
  <2> QED BY <1>10, <2>1, <2>2 DEF Remove
<1>11. CASE Delete(b)
  <2>1. CASE NoFault
    BY <1>3, <1>11, <2>1 DEF Delete
  <2>2. CASE Fault(b)
    BY <1>3, <1>11, <2>2 DEF Delete
  <2> QED BY <1>11, <2>1, <2>2 DEF Delete
<1>12. CASE Row(b) \/ Leave(b) \/ Sweep(b)
  BY <1>3, <1>12 DEF Row, Leave, Sweep
<1>13. CASE Cancel(b) \/ Kill(b)
  BY <1>3, <1>13 DEF Cancel, Kill
<1>14. CASE UNCHANGED vars
  BY <1>3, <1>14 DEF vars
<1> QED
  BY <1>4, <1>5, <1>6, <1>7, <1>8, <1>9, <1>10, <1>11, <1>12, <1>13, <1>14
     DEF Next, CreateStep, SuiteStep, Finished

Branched == reg \subseteq branch

(* No command takes a branch away whose worktree is still registered. *)
LEMMA StepBranched == Branched /\ [Next]_vars => Branched'
<1> SUFFICES ASSUME Branched, [Next]_vars PROVE Branched'
  OBVIOUS
<1> USE DEF Branched
<1>1. ASSUME NEW b \in Benches, Prune(b) \/ Add(b) PROVE Branched'
  BY <1>1 DEF Prune, Add
<1>2. ASSUME NEW b \in Benches, Drop(b) \/ Delete(b) PROVE Branched'
  BY <1>2 DEF Drop, Delete, DeleteBranch
<1>3. ASSUME NEW b \in Benches, Remove(b) PROVE Branched'
  BY <1>3 DEF Remove
<1>4. CASE UNCHANGED gitVars
  BY <1>4 DEF gitVars
<1> QED
  BY <1>1, <1>2, <1>3, <1>4
     DEF Next, CreateStep, SuiteStep, Launch, Check, Clear, AddErr, Own, Use, Row, Leave, Sweep,
         Cancel, Kill, Finished, gitVars, diskVars, vars

(* Of the worktrees that no other suite makes, a suite that is over has     *)
(* left none that it does not keep, in any setting, unless a command of     *)
(* that worktree's Teardown failed; and then what is registered still has   *)
(* its branch, so that the next Create gets rid of both.                   *)
THEOREM NothingIsLeft == Spec => []NothingLeft
<1> DEFINE IInv == TypeOK /\ Named /\ KeptApart /\ Once /\ Tidy /\ Branched
<1>1. Init => IInv
  BY InitTyped
     DEF Init, KeptApart, Once, Tidy, TidyAt, Unkept, AtWork, Working, Holding, Creating, Sweeping,
         Stopped, Branched
<1>2. IInv /\ [Next]_vars => IInv'
  BY StepTyped, StepKeptApart, StepOnce, StepTidy, StepBranched
<1>3. IInv => NothingLeft
  <2> SUFFICES ASSUME IInv, NEW b \in Benches, pc[b] = "off",
                      NEW n \in Unkept(b) \ UNION {setting.jobs[c] : c \in Benches \ {b}}
               PROVE  /\ n \in reg => n \in branch
                      /\ n \notin hit[b] => Clean(n)
    BY DEF NothingLeft, Clean
  <2>1. Sole(b, n) /\ n \in Names
    BY WorktreesAssumption DEF Unkept, Named, TypeOK, Setting, Sole
  <2> QED BY <2>1 DEF Tidy, TidyAt, AtWork, Branched
<1> QED BY <1>1, <1>2, <1>3, PTL DEF Spec
=============================================================================
