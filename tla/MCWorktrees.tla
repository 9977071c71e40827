----------------------------- MODULE MCWorktrees -----------------------------
(* Two bench processes on one scratch root: suites with attempts of their   *)
(* own, and two runs of the same suite, by one user or by two.              *)
EXTENDS Worktrees, TLC

CONSTANTS p1, p2, n1, n2

(* Cancelled, restarted, with a command that fails. *)
OwnAttempts ==
  [jobs |-> (p1 :> {n1}) @@ (p2 :> {n2}), keepFailed |-> TRUE, cancels |-> TRUE,
   sees |-> FALSE, launches |-> 2, faults |-> 1]

(* Restarted more often. *)
SameAttempt ==
  [jobs |-> (p1 :> {n1}) @@ (p2 :> {n1}), keepFailed |-> FALSE, cancels |-> FALSE,
   sees |-> TRUE, launches |-> 3, faults |-> 0]

(* Cancelled in the middle of the other's attempt, or not seen by it. *)
SharedAttempt(s) ==
  [SameAttempt EXCEPT !.keepFailed = TRUE, !.cancels = TRUE, !.sees = s, !.launches = 2]

MCSettings == {OwnAttempts, SameAttempt, SharedAttempt(TRUE), SharedAttempt(FALSE)}

SameOnce == {[SameAttempt EXCEPT !.launches = 1]}
=============================================================================
