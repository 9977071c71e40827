------------------------------- MODULE Attempt --------------------------------
(***************************************************************************)
(* What RunTask makes of an attempt: from the worktree over the turn (one   *)
(* step here, ChatTurn and Steering take it apart) to the routing evidence, *)
(* the transcript, the checkers, the pending writes, the cost and the row;  *)
(* the suite's loop around it, several runs into one output directory, and  *)
(* the scorecard of the rows.                                               *)
(*                                                                         *)
(* The daemon is external: it routes the prompt, logs the dispatch or fails *)
(* to, writes files or stages them, and keeps a counter of what it spent,   *)
(* which other clients advance too and a rollover resets.  The cost stands  *)
(* for both counters, of tokens and of dollars.                             *)
(***************************************************************************)
EXTENDS Verdict, PendingWrites, Scorecard

CONSTANTS
  Suite,         \* a sequence of tasks
  Selections,    \* bound: for each run into the directory, the tasks --task and
                 \* the tags select, in the suite's order
  Attempts,      \* --attempts
  Works,         \* file writes of a turn: sequences of CallKinds
  Scores,        \* what the judge may say when asked twice
  MaxTraffic,    \* bound: what other clients spend
  MaxRollovers,  \* bound
  MaxFaults,     \* bound: calls that fail, lost entries, rows not written
  NoStatus       \* a status call failed

ASSUME AttemptAssumption ==
  /\ Suite \in Seq(Task) /\ Attempts \in Nat \ {0}
  /\ \A i, j \in DOMAIN Suite : Suite[i].id = Suite[j].id => Suite[i].slug = Suite[j].slug
  /\ Selections \in Seq(Seq(DOMAIN Suite)) /\ \A r \in DOMAIN Selections : Selections[r] # <<>>
  /\ Works \subseteq Seq(CallKinds)
  /\ Scores \subseteq [1..2 -> Nat \cup {JudgeErr}]
  /\ {MaxTraffic, MaxRollovers, MaxFaults, MaxPendingWriteDetails} \subseteq Nat
  /\ Blank \notin Agents \cup Methods /\ JudgeErr \notin Nat /\ NoStatus \notin Nat
  /\ DoubleJudge \in BOOLEAN

VARIABLES
  pc,
  runs,         \* runs of the suite so far
  made,         \* attempts of this run that are over
  cancelled,    \* the suite's ctx
  fresh,        \* session.create gave both ids
  before,       \* the status before the turn
  routed,       \* how the daemon routed the prompt
  log,          \* the session's dispatch log
  work,         \* the file writes of the turn
  seen,         \* what the checkers found
  row,          \* the row in the making
  transcripts,  \* by file: the run and its attempt that wrote it last
  rows,         \* results.jsonl
  used, spent,  \* the daemon's counter; what it spent in all
  own, rolled,  \* since "before": what this turn spent; was there a rollover?
  traffic, rollovers, faults

turnVars   == <<routed, log, work>>
daemonVars == <<used, spent, own, rolled, traffic, rollovers>>
suiteVars  == <<runs, made, cancelled>>
fileVars   == <<transcripts, rows>>
vars == <<pc, suiteVars, fresh, before, turnVars, seen, row, fileVars, daemonVars, faults>>

MaxRuns == Len(Selections)

(* The attempts of a run in their order: a task and a number each.         *)
selected == Selections[runs]
Nth(n) == <<selected[(n \div Attempts) + 1], (n % Attempts) + 1>>

(* The attempt that is under way, or next. *)
Name == Nth(made)
task == Suite[Name[1]]

(* The file of an attempt's transcript.  No two suffixes -aN are alike, but *)
(* nothing keeps the ids of two tasks, or what sanitize makes of them, from *)
(* being the same.                                                         *)
File(a) == <<Suite[a[1]].slug, a[2]>>
Files   == {File(a) : a \in (DOMAIN Suite) \X (1..Attempts)}

NoRoute == [agent |-> Blank, method |-> Blank, ok |-> FALSE]
NotSeen == [file |-> FALSE, exit |-> FALSE, scores |-> <<JudgeErr, JudgeErr>>]
NoRow == [verdict |-> Blank, kind |-> "", passed |-> FALSE, pending |-> {}, cost |-> 0,
          snapshot |-> FALSE, judged |-> FALSE, wrote |-> FALSE]

Init ==
  /\ pc = "off" /\ runs = 0 /\ made = 0 /\ cancelled = FALSE
  /\ fresh = FALSE /\ before = NoStatus
  /\ routed = NoRoute /\ log = <<>> /\ work = <<>> /\ seen = NotSeen /\ row = NoRow
  /\ transcripts = [f \in Files |-> <<0, 0>>] /\ rows = <<>>
  /\ used = 0 /\ spent = 0 /\ own = 0 /\ rolled = FALSE
  /\ traffic = 0 /\ rollovers = 0 /\ faults = 0

-----------------------------------------------------------------------------
GoTo(p) == pc' = p

(* The step takes place only if all of these hold, or for a fault each. *)
Unless(causes) ==
  LET new == Quantify(DOMAIN causes, LAMBDA k : ~causes[k]) IN
  faults + new <= MaxFaults /\ faults' = faults + new

(* Mutant: a transcript that is there already is left alone. *)
WriteTranscriptOnce(ok) ==
  transcripts' = IF ok /\ transcripts[File(Name)] = <<0, 0>>
                 THEN [transcripts EXCEPT ![File(Name)] = <<runs, made>>]
                 ELSE transcripts

(* writeTranscript; its errors are dropped. *)
WriteTranscript(ok) ==
  transcripts' = IF ok THEN [transcripts EXCEPT ![File(Name)] = <<runs, made>>]
                 ELSE transcripts

ErrRow(kind, ok) == [NoRow EXCEPT !.verdict = kind, !.kind = kind, !.wrote = ok]

(* finishErr: an error row and its transcript. *)
FinishErr(kind, ok) == row' = ErrRow(kind, ok) /\ WriteTranscript(ok) /\ GoTo("row")

-----------------------------------------------------------------------------
(* RunSuite *)
Launch ==
  /\ pc = "off" /\ runs < MaxRuns
  /\ runs' = runs + 1 /\ made' = 0
  /\ GoTo("create")
  /\ UNCHANGED <<cancelled, fresh, before, turnVars, seen, row, fileVars, daemonVars, faults>>

(* Create fails: an error row, no worktree and no transcript. *)
CreateErr ==
  /\ pc = "create" /\ Unless(<<FALSE>>)
  /\ row' = ErrRow("error", FALSE) /\ GoTo("row")
  /\ UNCHANGED <<suiteVars, fresh, before, turnVars, seen, fileVars, daemonVars>>

(* The set-up, the ping, the deterministic gate or the subscription fails. *)
OpenErr ==
  /\ pc = "create"
  /\ \E ok \in BOOLEAN : Unless(<<cancelled, ok>>) /\ FinishErr("error", ok)
  /\ UNCHANGED <<suiteVars, fresh, before, turnVars, seen, rows, daemonVars>>

(* session.create may fail, or leave an id out. *)
Open ==
  /\ pc = "create" /\ ~cancelled
  /\ fresh' \in BOOLEAN /\ Unless(<<fresh'>>)
  /\ GoTo("snapshot")
  /\ UNCHANGED <<suiteVars, before, turnVars, seen, row, fileVars, daemonVars>>

(* Mutant: the status is taken when the turn has spent already. *)
SnapshotLate ==
  /\ pc = "snapshot"
  /\ before' = used + 1 /\ UNCHANGED faults
  /\ own' = 0 /\ rolled' = FALSE
  /\ GoTo("turn")
  /\ UNCHANGED <<suiteVars, fresh, turnVars, seen, row, fileVars, used, spent, traffic,
                 rollovers>>

(* The status before the turn; without it the cost will be the totals. *)
Snapshot ==
  /\ pc = "snapshot"
  /\ \/ ~cancelled /\ before' = used /\ UNCHANGED faults
     \/ before' = NoStatus /\ Unless(<<cancelled>>)
  /\ own' = 0 /\ rolled' = FALSE
  /\ GoTo("turn")
  /\ UNCHANGED <<suiteVars, fresh, turnVars, seen, row, fileVars, used, spent, traffic,
                 rollovers>>

Spend(k) == used' = used + k /\ spent' = spent + k /\ own' = own + k

(* The dispatches the daemon may have logged in the session by the end of  *)
(* the turn: those of the prompt e and of the scheduled turns.             *)
Logs(e) ==
  {<<e>>} \cup (IF task.turns = 0 THEN {}
                ELSE {<<e, f>> : f \in {[e EXCEPT !.agent = a] : a \in Agents}})

(* ... and if a dispatch failed and was repeated, or an entry got lost. *)
BadLogs(e) ==
  LET bad == [e EXCEPT !.ok = FALSE]
  IN {<<>>, <<bad>>, <<bad, e>>, <<[e EXCEPT !.method = Blank]>>}

(* The turn completes (see Route for its writes). *)
Turn ==
  /\ pc = "turn" /\ ~cancelled
  /\ routed' \in [agent : Agents, method : Methods, ok : {TRUE}]
  /\ \/ log' \in Logs(routed') /\ UNCHANGED faults
     \/ log' \in BadLogs(routed') /\ Unless(<<FALSE>>)
  /\ Spend(1)
  /\ GoTo("route")
  /\ UNCHANGED <<suiteVars, fresh, before, work, seen, row, fileVars, rolled, traffic,
                 rollovers>>

(* The turn times out, stalls, fails, or is cancelled. *)
TurnErr ==
  /\ pc = "turn"
  /\ \E kind \in {"timeout", "error"}, k \in 0..1, ok \in BOOLEAN :
       Unless(<<ok>>) /\ FinishErr(kind, ok) /\ Spend(k)
  /\ fresh' = FALSE /\ before' = NoStatus
  /\ UNCHANGED <<suiteVars, turnVars, seen, rows, rolled, traffic, rollovers>>

(* The routing evidence and its checks; the transcript.  What the agent did *)
(* to files in the turn is chosen here: nobody looks at it before Check.    *)
Route ==
  /\ pc = "route"
  /\ \E answered, ok \in BOOLEAN :
       LET o == Observation(log, answered, fresh /\ task.turns = 0)
           v == RouteVerdict(RoutingChecks(task, o))
       IN /\ answered => ~cancelled
          /\ Unless(<<answered \/ cancelled, ok>>)
          /\ row' = [NoRow EXCEPT !.verdict = v, !.kind = RouteKind(v), !.wrote = ok,
                                  !.passed = v = "pass", !.judged = v = "pass"]
          /\ WriteTranscript(ok)
  /\ log' = <<>> /\ fresh' = FALSE
  /\ work' \in Works
  /\ GoTo("check")
  /\ UNCHANGED <<suiteVars, before, routed, seen, rows, daemonVars>>

Uses(type) == \E k \in DOMAIN task.checks : task.checks[k].type = type

(* What the checkers of the task may find.  A file is there if the agent   *)
(* wrote it directly, and into the right directory; a cancelled ctx kills  *)
(* the commands and the judge.                                             *)
Findings ==
  [file : {FALSE, Uses("exact_file") /\ \E k \in DOMAIN work : work[k].direct},
   exit : {FALSE, Uses("exit_zero") /\ ~cancelled},
   scores : IF Uses("llm_judge") /\ ~cancelled THEN Scores ELSE {NotSeen.scores}]

(* What detectPendingWrites says of a turn's writes, whatever the order in  *)
(* which their events come.                                                *)
Pending == [w \in Works |-> {DetectPendingWrites(trace) : trace \in Traces(w)}]

(* The checkers, the verdict, and the pending writes of a failing row. *)
Check ==
  /\ pc = "check"
  /\ \E pending \in Pending[work] :
       /\ seen' \in Findings
       /\ LET passed == row.passed
                         /\ \A k \in DOMAIN task.checks : Passes(task.checks[k], seen')
          IN row' = [row EXCEPT !.passed = passed,
                       !.verdict = IF row.verdict = "error" THEN "error"
                                   ELSE IF passed THEN "pass" ELSE "fail",
                       !.pending = IF passed THEN {} ELSE pending]
  /\ GoTo("cost")
  /\ UNCHANGED <<suiteVars, fresh, before, turnVars, fileVars, daemonVars, faults>>

(* Mutant: a reset of the counter is not noticed. *)
DeltaUnclamped(old, new) == new - old

(* Mutant: the totals, as if there were no snapshot. *)
DeltaTotals(old, new) == new

(* What the counter advanced by; it may have been reset. *)
Delta(old, new) == IF new < old THEN 0 ELSE new - old

(* The status after the turn.  What the attempt does not need any more is   *)
(* forgotten, here and in TurnErr, Route and Row.                           *)
Cost ==
  /\ pc = "cost"
  /\ \/ /\ ~cancelled /\ UNCHANGED faults
        /\ row' = [row EXCEPT !.pending = {}, !.snapshot = before # NoStatus,
                              !.cost = IF before = NoStatus THEN used
                                       ELSE Delta(before, used)]
     \/ Unless(<<cancelled>>) /\ row' = [row EXCEPT !.pending = {}]
  /\ before' = NoStatus /\ routed' = NoRoute /\ work' = <<>> /\ seen' = NotSeen
  /\ GoTo("row")
  /\ UNCHANGED <<suiteVars, fresh, log, fileVars, daemonVars>>

(* appendRow, and the head of the loop; without the row the suite ends.    *)
Row ==
  /\ pc = "row"
  /\ \E ok \in BOOLEAN :
       /\ Unless(<<ok>>)
       /\ rows' = IF ~ok THEN rows
                  ELSE Append(rows, [task |-> task.id, attempt |-> Name[2], run |-> runs,
                                     nth |-> made, passed |-> row.passed,
                                     kind |-> row.kind, cost |-> row.cost,
                                     snapshot |-> row.snapshot,
                                     judged |-> row.judged, wrote |-> row.wrote])
       /\ made' = made + 1
       /\ IF ok /\ ~cancelled /\ made' < Len(selected) * Attempts
          THEN GoTo("create") /\ UNCHANGED cancelled
          ELSE GoTo("off") /\ cancelled' = FALSE
  /\ fresh' = FALSE /\ before' = NoStatus /\ row' = NoRow
  /\ own' = 0 /\ rolled' = FALSE
  /\ UNCHANGED <<runs, turnVars, seen, transcripts, used, spent, traffic,
                 rollovers>>

-----------------------------------------------------------------------------
(* The signal handler.  After the turn has begun a signal ends it as TurnErr *)
(* does, or finds it completed.                                            *)
Cancel ==
  /\ pc \notin {"off", "turn"} /\ ~cancelled
  /\ cancelled' = TRUE
  /\ UNCHANGED <<pc, runs, made, fresh, before, turnVars, seen, row, fileVars, daemonVars,
                 faults>>

(* The counter is read by Snapshot and Cost alone: what others do to it is  *)
(* looked at just before these and before the turn.                        *)
CounterMatters == pc \in {"snapshot", "turn", "cost"}

(* Another client's turn, or one of this suite that is over for the bench. *)
Traffic ==
  /\ CounterMatters /\ traffic < MaxTraffic
  /\ traffic' = traffic + 1 /\ used' = used + 1 /\ spent' = spent + 1
  /\ UNCHANGED <<pc, suiteVars, fresh, before, turnVars, seen, row, fileVars, own, rolled,
                 rollovers, faults>>

(* The hour or the day is over. *)
Rollover ==
  /\ CounterMatters /\ rollovers < MaxRollovers /\ used > 0
  /\ rollovers' = rollovers + 1 /\ used' = 0 /\ rolled' = TRUE
  /\ UNCHANGED <<pc, suiteVars, fresh, before, turnVars, seen, row, fileVars, spent, own,
                 traffic, faults>>

Finished == pc = "off" /\ runs = MaxRuns /\ UNCHANGED vars

Next ==
  \/ Launch \/ CreateErr \/ OpenErr \/ Open \/ Snapshot \/ Turn \/ TurnErr \/ Route
  \/ Check \/ Cost \/ Row \/ Cancel \/ Traffic \/ Rollover \/ Finished

Spec == Init /\ [][Next]_vars

-----------------------------------------------------------------------------
Verdicts == {"pass", "fail", "error", "timeout"}
ErrorKinds == {"", "error", "timeout", "routing_mismatch", "routing_evidence"}

TypeOK ==
  /\ pc \in {"off", "create", "snapshot", "turn", "route", "check", "cost", "row"}
  /\ runs \in 0..MaxRuns /\ made \in Nat
  /\ {cancelled, fresh, rolled} \subseteq BOOLEAN
  /\ before \in Nat \cup {NoStatus}
  /\ routed \in Entry /\ log \in Seq(Entry) /\ work \in Works \cup {<<>>}
  /\ seen \in [file : BOOLEAN, exit : BOOLEAN, scores : [1..2 -> Nat \cup {JudgeErr}]]
  /\ row \in [verdict : Verdicts \cup {Blank}, kind : ErrorKinds, passed : BOOLEAN,
              pending : SUBSET Nat, cost : Nat, snapshot : BOOLEAN, judged : BOOLEAN,
              wrote : BOOLEAN]
  /\ transcripts \in [Files -> (0..MaxRuns) \X Nat]
  /\ rows \in Seq([task : Nat, attempt : 1..Attempts, run : 1..MaxRuns, nth : Nat,
                   passed : BOOLEAN, kind : ErrorKinds, cost : Nat, snapshot : BOOLEAN,
                   judged : BOOLEAN, wrote : BOOLEAN])
  /\ {used, spent, own} \subseteq Nat
  /\ traffic \in 0..MaxTraffic /\ rollovers \in 0..MaxRollovers /\ faults \in 0..MaxFaults

(* A pass is earned: the prompt itself went to the expected agent and by   *)
(* no forbidden method, whatever else the session's log says or lacks; the *)
(* file was written, the script succeeded, the judge answered when asked.  *)
PassIsEarned ==
  pc = "cost" /\ row.passed =>
    /\ task.expectAgent \in {Blank, routed.agent} /\ routed.method \notin task.forbidden
    /\ Uses("exact_file") => \E w \in DOMAIN work : work[w].direct
    /\ Uses("exit_zero") => seen.exit
    /\ Uses("llm_judge") => JudgeErr \notin Asked(seen.scores)

(* What the agent staged and a trace may show: a staged write although     *)
(* nothing in its events says so (unless its path is misread), an edit if  *)
(* its result says so.                                                     *)
StagedWrites(w) ==
  {id \in DOMAIN w :
     ~w[id].direct /\ (w[id].tells \/ (w[id].tool = "file_write" /\ ~w[id].misread))}

(* A failing row reports what the agent staged, in whatever order the       *)
(* events of its parallel calls came, and nothing that reached the disk;   *)
(* the list is cut at MaxPendingWriteDetails calls, and no earlier.         *)
StagedReported ==
  pc = "cost" /\ ~row.passed =>
    /\ row.pending \subseteq StagedWrites(work)
    /\ Cardinality(row.pending) =
         Min({Cardinality(StagedWrites(work)), MaxPendingWriteDetails})

(* The directory keeps the transcripts of earlier runs, and the row names   *)
(* none.  The file that a row of this run points to by its task and number  *)
(* is of this run, also if the attempt failed before the turn: it is the   *)
(* attempt's own, or that of a later one with a file of the same name.      *)
(* (A file that cannot be written is the exception nobody is told of.)      *)
TranscriptsMatchRows ==
  pc = "off" => \A k \in DOMAIN rows :
    LET r == rows[k] IN
    r.run = runs /\ r.wrote =>
      \E n \in r.nth..(made - 1) : /\ File(Nth(n)) = File(Nth(r.nth))
                                  /\ transcripts[File(Nth(n))] = <<runs, n>>

(* The rows never charge more than the daemon has spent, whatever other    *)
(* clients and resets do to its counter, if each had its snapshot.         *)
CostBounded ==
  SumFunction([k \in {k \in DOMAIN rows : rows[k].snapshot} |-> rows[k].cost]) <= spent

(* A row charges at least what its own turn spent, unless the counter was  *)
(* reset meanwhile.                                                        *)
CostWhole == pc = "row" /\ row.snapshot /\ ~rolled => row.cost >= own

(* The card is the same in whatever order the rows come, to the last bit   *)
(* of its sums: also when the file holds several rows of one attempt.      *)
CardOrderFree ==
  pc = "off" => \A p \in Bijection(DOMAIN rows, DOMAIN rows) :
    Build([k \in DOMAIN rows |-> rows[p[k]]]) = Build(rows)

(* The card loses no failed row and counts none twice: a row that did not   *)
(* pass is in the failure taxonomy under its one kind, or it is one that    *)
(* the checkers failed, which gets no kind and shows only as an attempt     *)
(* that is not among the passes.                                           *)
TaxonomyComplete ==
  pc = "off" =>
    LET card == Build(rows) IN
    card.attempts = card.passes
      + SumFunction(card.failures)
      + Quantify(DOMAIN rows, LAMBDA k : rows[k].judged /\ ~rows[k].passed)
=============================================================================
