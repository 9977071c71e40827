------------------------------- MODULE Scorecard -------------------------------
(***************************************************************************)
(* scorecard.Build.  A sum of floats depends on the order of its summands,  *)
(* so a sum is its summands by their places in the order: two cards are the *)
(* same only if every sum was taken in the same order.  The seed, which     *)
(* follows from the attempt, and the wall time, the last criterion of the   *)
(* order, are left out.                                                     *)
(***************************************************************************)
EXTENDS Naturals, FiniteSetsExt

(* Mutant: rows of one attempt are left in the order of the file. *)
LessAttempt(a, b) ==
  a.task < b.task \/ (a.task = b.task /\ a.attempt < b.attempt)

(* lessAccum: by task, attempt, then the summands. *)
LessAccum(a, b) ==
  \/ a.task < b.task
  \/ a.task = b.task /\ a.attempt < b.attempt
  \/ a.task = b.task /\ a.attempt = b.attempt /\ a.cost < b.cost

(* The sort is stable: of rows that are alike the earlier one comes first. *)
Before(rows, k, m) ==
  \/ LessAccum(rows[k], rows[m])
  \/ ~LessAccum(rows[m], rows[k]) /\ k < m

(* The places of the rows, and the rows by their places. *)
Place(rows) ==
  [m \in DOMAIN rows |-> 1 + Quantify(DOMAIN rows, LAMBDA k : Before(rows, k, m))]

(* sort.SliceStable *)
SumOrder(rows) ==
  LET place == Place(rows) IN
  [i \in DOMAIN rows |-> rows[CHOOSE m \in DOMAIN rows : place[m] = i]]

Kinds(rows) == {rows[k].kind : k \in {k \in DOMAIN rows : ~rows[k].passed}} \ {""}

(* The loop over the rows in that order. *)
Tally(sorted) ==
  LET places == DOMAIN sorted
      Of(t) == {i \in places : sorted[i].task = t}
  IN [attempts |-> Cardinality(places),
      passes   |-> Quantify(places, LAMBDA i : sorted[i].passed),
      failures |-> [k \in Kinds(sorted) |->
                      Quantify(places, LAMBDA i : ~sorted[i].passed /\ sorted[i].kind = k)],
      costs    |-> [i \in places |-> sorted[i].cost],
      rates    |-> [t \in {sorted[i].task : i \in places} |->
                      [n |-> Cardinality(Of(t)),
                       pass |-> Quantify(Of(t), LAMBDA i : sorted[i].passed),
                       costs |-> [i \in Of(t) |-> sorted[i].cost]]]]

Build(rows) == Tally(SumOrder(rows))
=============================================================================
