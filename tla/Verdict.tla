------------------------------- MODULE Verdict --------------------------------
(***************************************************************************)
(* What RunTask judges an attempt by: the routing evidence of the daemon's  *)
(* dispatch log, and the checkers.  Scores of the judge are in tenths.  An  *)
(* expected agent stands for an expected intent too.  A task's slug is what *)
(* sanitize makes of its id: other ids may be mapped to the same one.       *)
(***************************************************************************)
EXTENDS Naturals, Sequences

CONSTANTS
  Agents, Methods,
  Blank,        \* an empty field; no expectation
  JudgeErr,     \* the judge command failed, or there is none
  DoubleJudge   \* MEEPT_BENCH_DOUBLE_JUDGE

Task == [id : Nat, slug : Nat,
         checks : Seq([type : {"exact_file", "exit_zero", "llm_judge"}, min : 0..10]),
         expectAgent : Agents \cup {Blank}, forbidden : SUBSET Methods,
         turns : Nat]

Entry == [agent : Agents \cup {Blank}, method : Methods \cup {Blank}, ok : BOOLEAN]

-----------------------------------------------------------------------------
Unavailable == [status |-> "unavailable", agent |-> Blank, method |-> Blank]

(* RoutingObservation: the dispatch log of a fresh session that got one    *)
(* turn must hold one entry, without an error; two are asked for.          *)
Observation(log, answered, freshSingleTurn) ==
  IF ~(freshSingleTurn /\ answered /\ Len(log) = 1 /\ log[1].ok) THEN Unavailable
  ELSE [status |-> IF Blank \in {log[1].agent, log[1].method} THEN "partial"
                   ELSE "available",
        agent |-> log[1].agent, method |-> log[1].method]

(* Mutant: an assertion without evidence is skipped. *)
AssertionSkipped(o, actual, holds) ==
  IF o.status = "unavailable" \/ actual = Blank \/ holds THEN "pass" ELSE "fail"

(* One declared expectation: an absent field never makes it succeed. *)
Assertion(o, actual, holds) ==
  IF o.status = "unavailable" \/ actual = Blank THEN "error"
  ELSE IF holds THEN "pass" ELSE "fail"

RoutingChecks(t, o) ==
  {Assertion(o, o.agent, o.agent = a) : a \in {t.expectAgent} \ {Blank}}
    \cup {Assertion(o, o.method, o.method # m) : m \in t.forbidden}

RouteVerdict(statuses) ==
  IF "error" \in statuses THEN "error"
  ELSE IF "fail" \in statuses THEN "fail" ELSE "pass"

(* Mutant: a mismatch is a plain failure. *)
RouteKindEvidence(verdict) == IF verdict = "error" THEN "routing_evidence" ELSE ""

(* The row's ErrorKind. *)
RouteKind(verdict) ==
  CASE verdict = "pass" -> ""
    [] verdict = "fail" -> "routing_mismatch"
    [] verdict = "error" -> "routing_evidence"

-----------------------------------------------------------------------------
(* minScore: 0 means the default. *)
MinScore(min) == IF min = 0 THEN 7 ELSE min

(* The judge is asked once, or twice.                                      *)
Asked(scores) == IF DoubleJudge THEN {scores[1], scores[2]} ELSE {scores[1]}

(* llmJudge: one score, or the mean of two; any error fails the check.     *)
JudgePasses(min, scores) ==
  /\ JudgeErr \notin Asked(scores)
  /\ IF DoubleJudge THEN scores[1] + scores[2] >= 2 * MinScore(min)
                    ELSE scores[1] >= MinScore(min)

(* Run: a checker on the worktree, the transcripts or the answer.          *)
Passes(check, seen) ==
  CASE check.type = "exact_file" -> seen.file
    [] check.type = "exit_zero" -> seen.exit
    [] check.type = "llm_judge" -> JudgePasses(check.min, seen.scores)
=============================================================================
