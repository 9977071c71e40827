----------------------------- MODULE PendingWrites -----------------------------
(***************************************************************************)
(* detectPendingWrites: which file writes of an attempt the agent staged    *)
(* for review instead of writing them to disk, told from the tool trace.    *)
(* Only what the function looks at is kept of an event: the call's id, the  *)
(* tool, whether it says the call is complete, and whether it shows that    *)
(* the write was staged (the sentinel text, or arguments without            *)
(* direct:true).                                                            *)
(***************************************************************************)
EXTENDS Naturals, Sequences, Functions, FiniteSetsExt

CONSTANT MaxPendingWriteDetails

Tools == {"file_write", "file_edit"}

Event == [id : Nat, tool : Tools, complete : BOOLEAN, evidence : BOOLEAN]

CallEvents(trace, id) == {k \in DOMAIN trace : trace[k].id = id}

(* Signal 2: evidence in an event that is not one of completion. *)
Staged(trace, id) ==
  \E k \in CallEvents(trace, id) : trace[k].evidence /\ ~trace[k].complete

(* Mutant: edits are inferred too, although they report no progress. *)
NeverCompletedAny(trace, id) ==
  /\ ~Staged(trace, id)
  /\ ~\E k \in CallEvents(trace, id) : trace[k].complete

(* Signal 1: a write, not an edit, that started and never completed. *)
NeverCompleted(trace, id) ==
  /\ ~Staged(trace, id)
  /\ ~\E k \in CallEvents(trace, id) : trace[k].complete
  /\ trace[Max(CallEvents(trace, id))].tool # "file_edit"

(* The calls that are pending writes, those with evidence first, each kind  *)
(* in the order in which it was first seen; of a long list the first only.  *)
DetectPendingWrites(trace) ==
  LET First(id) == Min(CallEvents(trace, id))
      pending == {id \in {trace[k].id : k \in DOMAIN trace} :
                    Staged(trace, id) \/ NeverCompleted(trace, id)}
      Ahead(a, b) == \/ Staged(trace, a) /\ ~Staged(trace, b)
                     \/ (Staged(trace, a) <=> Staged(trace, b)) /\ First(a) < First(b)
  IN {id \in pending : Quantify(pending, LAMBDA a : Ahead(a, id)) < MaxPendingWriteDetails}

-----------------------------------------------------------------------------
(* The daemon (external): what it reports of one call.  Every write begins  *)
(* with "writing"; only the direct path reports completion; an edit reports *)
(* no progress; the end of a call is an event that shows nothing, or the    *)
(* result of staging (tells).  "writing" names the file: if the word        *)
(* "complete" is in its path, that reads as a completion (misread).         *)
CallKinds == [tool : Tools, direct : BOOLEAN, tells : BOOLEAN, misread : BOOLEAN]

Events(id, call) ==
  LET E(complete, evidence) ==
        [id |-> id, tool |-> call.tool, complete |-> complete, evidence |-> evidence]
      begin == E(call.misread, FALSE)
      done  == E(TRUE, FALSE)
      end   == E(FALSE, ~call.direct /\ call.tells)
  IN IF call.tool = "file_edit" THEN <<end>>
     ELSE IF call.direct THEN <<begin, done, end>> ELSE <<begin, end>>

(* The agent runs its tools in parallel: whose event comes when (o) is open, *)
(* but those of one call keep their order.                                 *)
Traces(calls) ==
  LET events == [id \in DOMAIN calls |-> Events(id, calls[id])]
      places == 1..SumFunction([id \in DOMAIN calls |-> Len(events[id])])
      Merges == {o \in [places -> DOMAIN calls] : \A id \in DOMAIN calls :
                   Quantify(places, LAMBDA i : o[i] = id) = Len(events[id])}
  IN {[i \in places |->
         events[o[i]][1 + Quantify(1..(i - 1), LAMBDA m : o[m] = o[i])]] : o \in Merges}
=============================================================================
