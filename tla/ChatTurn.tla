------------------------------- MODULE ChatTurn -------------------------------
(***************************************************************************)
(* One turn of an attempt on the client's side: RunTask's call of           *)
(* ChatAsync ("turn"), the seal driver ChatAsync starts ("seal") and the    *)
(* trace collector RunTask started before it ("collect").  All three send   *)
(* their RPCs through one Client, whose mutex one of them holds from the    *)
(* write to the reply; mu.Lock listens to no ctx.  RpcClient has the        *)
(* transport below this: here an RPC is taken (Lock), then answered, failed *)
(* or cancelled by its own ctx.                                            *)
(*                                                                         *)
(* The daemon is external: it runs the submitted turn, publishes events on  *)
(* the two subscriptions, parks plan-mode tasks in "planning" until         *)
(* plan.seal accepts their draft, and may stop answering for ever.          *)
(***************************************************************************)
EXTENDS Naturals, Sequences

CONSTANTS
  SealPolls,   \* bound of RefineAndSeal's loop (300 in the code)
  MaxEvents,   \* bound: events beside the terminal one on ChatAsync's subscription
  MaxTools,    \* bound: tool events on the collector's subscription
  MaxFaults,   \* bound: RPCs whose retries were all in vain
  MayWedge,    \* may the daemon stop answering?
  Free         \* nobody holds the mutex

ASSUME TurnAssumption ==
  /\ SealPolls \in Nat /\ MaxEvents \in Nat /\ MaxTools \in Nat /\ MaxFaults \in Nat
  /\ MayWedge \in BOOLEAN

Actors == {"turn", "seal", "collect"}
Statuses == {"completed", "failed", "timeout"}

(* The RPCs the actors send; elsewhere in its code an actor runs alone. *)
Rpcs == {"subscribe", "submit", "poll", "unsubscribe", "release",
         "list", "draft", "save", "seal", "fetch", "drain"}

VARIABLES
  pc,           \* where each actor is: one of Rpcs, or a local point
  mu,           \* Client.mu: the actor whose RPC is under way
  deadline,     \* chatCtx's timeout has passed
  interrupted,  \* the suite's ctx was cancelled (signal)
  quiet,        \* time.Since(waitStart) >= liveness()
  outcome,      \* of ChatAsync: "none", "result", "stalled", "ctx", "error"
  answer,       \* the status in the TurnResult
  polls,        \* RefineAndSeal's loop counter
  task,         \* the daemon's task: "none", "planning", "running", "over"
  ended,        \* status of the terminal event, once published
  draft,        \* the daemon's brainstorm draft: "scaffold", "concrete"
  problems,     \* plan.seal was asked to compile a scaffold
  bus,          \* ChatAsync's subscription
  subscribed,
  tools,        \* tool events published on the collector's subscription
  traced,       \* those in the transcript
  atDone,       \* how many there were when RunTask closed done
  gaveUp,       \* Collect returned on a poll error
  wedged, events, faults

ctxVars    == <<deadline, interrupted>>
turnVars   == <<quiet, outcome, answer>>
daemonVars == <<task, ended, draft, problems, bus, subscribed, wedged, events>>
traceVars  == <<tools, traced, atDone, gaveUp>>
vars == <<pc, mu, ctxVars, turnVars, polls, daemonVars, traceVars, faults>>

Init ==
  /\ pc = [a \in Actors |-> IF a = "turn" THEN "subscribe" ELSE "tick"]
  /\ mu = Free
  /\ deadline = FALSE /\ interrupted = FALSE
  /\ quiet = FALSE /\ outcome = "none" /\ answer = "none"
  /\ polls = 0
  /\ draft \in {"scaffold", "concrete"}
  /\ task = "none" /\ ended = "none" /\ problems = FALSE
  /\ bus = <<>> /\ subscribed = FALSE
  /\ tools = 0 /\ traced = 0 /\ atDone = 0 /\ gaveUp = FALSE
  /\ wedged = FALSE /\ events = 0 /\ faults = 0

-----------------------------------------------------------------------------
(* Control *)
GoTo(a, p) == pc' = [pc EXCEPT ![a] = p]

(* An RPC returns: the deferred mu.Unlock, then what follows the call. *)
Resume(a, p) == GoTo(a, p) /\ mu' = Free

(* mu.Lock, then the write. *)
Lock(a) ==
  /\ pc[a] \in Rpcs /\ mu = Free
  /\ mu' = a
  /\ UNCHANGED <<pc, ctxVars, turnVars, polls, daemonVars, traceVars, faults>>

(* Mutant: RunTask closes done only after it has waited for collected. *)
ReturnedJoinFirst == pc["turn"] \in {"release", "end"}

(* ChatAsync has returned: cancelSeal ran, RunTask closed done. *)
Returned == pc["turn"] \in {"join", "release", "end"}

TurnDone == deadline \/ interrupted
SealDone == TurnDone \/ Returned

(* The ctx each call was given.  subCtx has its own ten seconds, so it can *)
(* always end; list, unsubscribe and release use context.Background(), the *)
(* final drain context.WithoutCancel.                                      *)
CtxEnded(p) ==
  CASE p = "subscribe" -> TRUE
    [] p \in {"submit", "poll"} -> TurnDone
    [] p \in {"draft", "save", "seal"} -> SealDone
    [] p = "fetch" -> interrupted
    [] OTHER -> FALSE

Calling(a, p) == mu = a /\ pc[a] = p

Answers(a, p) == Calling(a, p) /\ ~wedged

(* The call returns an error: its ctx ended, or the transport gave up. *)
Errs(a, p) ==
  /\ Calling(a, p)
  /\ \/ CtxEnded(p) /\ UNCHANGED faults
     \/ ~wedged /\ faults < MaxFaults /\ faults' = faults + 1

-----------------------------------------------------------------------------
(* ChatAsync *)

(* Every return path runs the deferred Unsubscribe once subscribed, and    *)
(* cancelSeal after it.                                                    *)
Leave(o, p) == outcome' = o /\ Resume("turn", p)

Subscribe ==
  /\ Answers("turn", "subscribe")
  /\ subscribed' = TRUE
  /\ Resume("turn", "submit")
  /\ UNCHANGED <<ctxVars, turnVars, polls, traceVars, faults, task, ended, draft,
                 problems, bus, wedged, events>>

SubscribeErr ==
  /\ Errs("turn", "subscribe")
  /\ Leave("error", "returning")
  /\ UNCHANGED <<ctxVars, quiet, answer, polls, daemonVars, traceVars>>

(* chat.submit is accepted: the daemon has the turn. *)
StartTask == task' \in {"planning", "running"}

Submit ==
  /\ Answers("turn", "submit")
  /\ StartTask
  /\ quiet' = FALSE
  /\ Resume("turn", "wait")
  /\ UNCHANGED <<ctxVars, outcome, answer, polls, traceVars, faults, ended, draft,
                 problems, bus, subscribed, wedged, events>>

(* Rejected, or accepted without a turn id. *)
SubmitRejected ==
  /\ Answers("turn", "submit")
  /\ Leave("error", "unsubscribe")
  /\ UNCHANGED <<ctxVars, quiet, answer, polls, daemonVars, traceVars, faults>>

(* The daemon may have accepted the turn all the same. *)
SubmitErr ==
  /\ Errs("turn", "submit")
  /\ StartTask \/ UNCHANGED task
  /\ Leave("error", "unsubscribe")
  /\ UNCHANGED <<ctxVars, quiet, answer, polls, traceVars, ended, draft, problems,
                 bus, subscribed, wedged, events>>

(* The select of the wait loop. *)
Tick ==
  /\ pc["turn"] = "wait"
  /\ GoTo("turn", "poll")
  /\ UNCHANGED <<mu, ctxVars, turnVars, polls, daemonVars, traceVars, faults>>

WaitCtxDone ==
  /\ pc["turn"] = "wait" /\ TurnDone
  /\ outcome' = "ctx"
  /\ GoTo("turn", "unsubscribe")
  /\ UNCHANGED <<mu, ctxVars, quiet, answer, polls, daemonVars, traceVars, faults>>

(* Mutant: the turn id and the parked status are not looked at. *)
EndsAnyTurn(e) == e # "progress"

(* An event that ends this turn: its turn id, and neither an empty nor a   *)
(* "parked" status.                                                        *)
EndsTurn(e) == e \in Statuses

(* One polled batch: the first terminal event returns; any event reopens   *)
(* the liveness window; an empty batch in an expired window is a stall.    *)
Poll ==
  /\ Answers("turn", "poll")
  /\ bus' = <<>>
  /\ \/ \E n \in 1..Len(bus) :
            /\ EndsTurn(bus[n]) /\ \A m \in 1..(n - 1) : ~EndsTurn(bus[m])
            /\ answer' = bus[n]
            /\ Leave("result", "unsubscribe")
            /\ UNCHANGED quiet
     \/ /\ bus # <<>> /\ \A n \in 1..Len(bus) : ~EndsTurn(bus[n])
        /\ quiet' = FALSE
        /\ Resume("turn", "wait")
        /\ UNCHANGED <<outcome, answer>>
     \/ /\ bus = <<>> /\ ~quiet
        /\ Resume("turn", "wait")
        /\ UNCHANGED <<quiet, outcome, answer>>
     \/ /\ bus = <<>> /\ quiet
        /\ Leave("stalled", "unsubscribe")
        /\ UNCHANGED <<quiet, answer>>
  /\ UNCHANGED <<ctxVars, polls, traceVars, faults, task, ended, draft, problems,
                 subscribed, wedged, events>>

(* A failed poll ends the turn only if the ctx did; else the loop goes on  *)
(* without looking at the liveness window.                                 *)
PollErr ==
  /\ Errs("turn", "poll")
  /\ IF TurnDone THEN Leave("ctx", "unsubscribe")
                 ELSE Resume("turn", "wait") /\ UNCHANGED outcome
  /\ UNCHANGED <<ctxVars, quiet, answer, polls, daemonVars, traceVars>>

(* The deferred Unsubscribe, its error ignored. *)
Unsubscribe ==
  /\ \/ Answers("turn", "unsubscribe") /\ subscribed' = FALSE /\ UNCHANGED faults
     \/ Errs("turn", "unsubscribe") /\ UNCHANGED subscribed
  /\ Resume("turn", "returning")
  /\ UNCHANGED <<ctxVars, turnVars, polls, traceVars, task, ended, draft, problems,
                 bus, wedged, events>>

(* cancelSeal; back in RunTask: close(done), then <-collected. *)
ReturnToRunTask ==
  /\ pc["turn"] = "returning"
  /\ atDone' = tools
  /\ GoTo("turn", "join")
  /\ UNCHANGED <<mu, ctxVars, turnVars, polls, daemonVars, tools, traced,
                 gaveUp, faults>>

(* Mutant: RunTask does not wait for <-collected. *)
JoinNobody ==
  /\ pc["turn"] = "join"
  /\ GoTo("turn", "release")
  /\ UNCHANGED <<mu, ctxVars, turnVars, polls, daemonVars, traceVars, faults>>

JoinCollector ==
  /\ pc["turn"] = "join" /\ pc["collect"] = "end"
  /\ GoTo("turn", "release")
  /\ UNCHANGED <<mu, ctxVars, turnVars, polls, daemonVars, traceVars, faults>>

(* RunTask unsubscribes the collector's subscription. *)
Release ==
  /\ \/ Answers("turn", "release") /\ UNCHANGED faults
     \/ Errs("turn", "release")
  /\ Resume("turn", "end")
  /\ UNCHANGED <<ctxVars, turnVars, polls, daemonVars, traceVars>>

-----------------------------------------------------------------------------
(* RefineAndSeal *)

(* Mutant: the loop makes one turn too many. *)
SealTickOffByOne ==
  /\ pc["seal"] = "tick"
  /\ IF polls <= SealPolls THEN polls' = polls + 1 /\ GoTo("seal", "list")
                           ELSE UNCHANGED polls /\ GoTo("seal", "end")
  /\ UNCHANGED <<mu, ctxVars, turnVars, daemonVars, traceVars, faults>>

SealTick ==
  /\ pc["seal"] = "tick"
  /\ IF polls < SealPolls THEN polls' = polls + 1 /\ GoTo("seal", "list")
                          ELSE UNCHANGED polls /\ GoTo("seal", "end")
  /\ UNCHANGED <<mu, ctxVars, turnVars, daemonVars, traceVars, faults>>

SealCtxDone ==
  /\ pc["seal"] = "tick" /\ SealDone
  /\ GoTo("seal", "end")
  /\ UNCHANGED <<mu, ctxVars, turnVars, polls, daemonVars, traceVars, faults>>

(* Mutant: a task the daemon has not created yet ends the driver. *)
ListOnce ==
  /\ Answers("seal", "list")
  /\ Resume("seal", IF task = "planning" THEN "draft" ELSE "end")
  /\ UNCHANGED <<ctxVars, turnVars, polls, daemonVars, traceVars, faults>>

(* findTaskBySession: only a task in "planning" needs the driver. *)
List ==
  /\ Answers("seal", "list")
  /\ Resume("seal", CASE task = "none" -> "tick" [] task = "planning" -> "draft"
                      [] OTHER -> "end")
  /\ UNCHANGED <<ctxVars, turnVars, polls, daemonVars, traceVars, faults>>

ListErr ==
  /\ Errs("seal", "list")
  /\ Resume("seal", "tick")
  /\ UNCHANGED <<ctxVars, turnVars, polls, daemonVars, traceVars>>

(* GetDraft and refineDraft: a draft without placeholders is left alone. *)
GetDraft ==
  /\ Answers("seal", "draft")
  /\ Resume("seal", IF draft = "concrete" THEN "seal" ELSE "save")
  /\ UNCHANGED <<ctxVars, turnVars, polls, daemonVars, traceVars, faults>>

SaveDraft ==
  /\ Answers("seal", "save")
  /\ draft' = "concrete"
  /\ Resume("seal", "seal")
  /\ UNCHANGED <<ctxVars, turnVars, polls, traceVars, faults, task, ended, problems,
                 bus, subscribed, wedged, events>>

(* plan.seal compiles the draft; a scaffold only yields problems. *)
Compile ==
  IF draft = "concrete"
    THEN task' = (IF task = "planning" THEN "running" ELSE task) /\ UNCHANGED problems
    ELSE problems' = TRUE /\ UNCHANGED task

SealPlan ==
  /\ Answers("seal", "seal")
  /\ Compile
  /\ Resume("seal", "end")
  /\ UNCHANGED <<ctxVars, turnVars, polls, traceVars, faults, ended, draft, bus,
                 subscribed, wedged, events>>

(* Mutant: an error of plan.draft save is not looked at. *)
DriverErrIgnored ==
  /\ \/ Errs("seal", "draft") /\ Resume("seal", "end")
     \/ Errs("seal", "save") /\ Resume("seal", "seal")
     \/ Errs("seal", "seal") /\ Resume("seal", "end")
  /\ UNCHANGED <<ctxVars, turnVars, polls, daemonVars, traceVars>>

(* Any error of plan.draft or plan.seal ends the driver; the daemon may    *)
(* have served the request all the same.                                   *)
DriverErr ==
  /\ \E p \in {"draft", "save", "seal"} :
       /\ Errs("seal", p)
       /\ (p = "save" /\ draft' = "concrete") \/ UNCHANGED draft
       /\ (p = "seal" /\ Compile) \/ UNCHANGED <<task, problems>>
  /\ Resume("seal", "end")
  /\ UNCHANGED <<ctxVars, turnVars, polls, traceVars, ended, bus, subscribed,
                 wedged, events>>

-----------------------------------------------------------------------------
(* Collect *)
CollectTick ==
  /\ pc["collect"] = "tick"
  /\ GoTo("collect", "fetch")
  /\ UNCHANGED <<mu, ctxVars, turnVars, polls, daemonVars, traceVars, faults>>

CollectCtxDone ==
  /\ pc["collect"] = "tick" /\ interrupted
  /\ GoTo("collect", "end")
  /\ UNCHANGED <<mu, ctxVars, turnVars, polls, daemonVars, traceVars, faults>>

(* Mutant: done ends the collector at once. *)
CollectDoneNoDrain ==
  /\ pc["collect"] = "tick" /\ Returned
  /\ GoTo("collect", "end")
  /\ UNCHANGED <<mu, ctxVars, turnVars, polls, daemonVars, traceVars, faults>>

(* case <-done: one last poll. *)
CollectDone ==
  /\ pc["collect"] = "tick" /\ Returned
  /\ GoTo("collect", "drain")
  /\ UNCHANGED <<mu, ctxVars, turnVars, polls, daemonVars, traceVars, faults>>

Fetch ==
  /\ \/ Answers("collect", "fetch") /\ Resume("collect", "tick")
     \/ Answers("collect", "drain") /\ Resume("collect", "end")
  /\ traced' = tools
  /\ UNCHANGED <<ctxVars, turnVars, polls, daemonVars, tools, atDone, gaveUp, faults>>

(* Any poll error ends the collector. *)
FetchErr ==
  /\ Errs("collect", "fetch") \/ Errs("collect", "drain")
  /\ Resume("collect", "end")
  /\ gaveUp' = TRUE
  /\ UNCHANGED <<ctxVars, turnVars, polls, daemonVars, tools, traced, atDone>>

-----------------------------------------------------------------------------
(* Time, signals and the daemon (external) *)
DeadlinePasses ==
  /\ ~deadline /\ deadline' = TRUE
  /\ UNCHANGED <<pc, mu, interrupted, turnVars, polls, daemonVars,
                 traceVars, faults>>

Interrupt ==
  /\ ~interrupted /\ interrupted' = TRUE
  /\ UNCHANGED <<pc, mu, deadline, turnVars, polls, daemonVars,
                 traceVars, faults>>

WindowPasses ==
  /\ pc["turn"] \in {"wait", "poll"} /\ ~quiet
  /\ quiet' = TRUE
  /\ UNCHANGED <<pc, mu, ctxVars, outcome, answer, polls, daemonVars, traceVars,
                 faults>>

Publish(e) == bus' = IF subscribed THEN Append(bus, e) ELSE bus

Finish ==
  /\ task = "running" /\ ~wedged
  /\ \E s \in Statuses : ended' = s /\ Publish(s)
  /\ task' = "over"
  /\ UNCHANGED <<pc, mu, ctxVars, turnVars, polls, traceVars, faults, draft,
                 problems, subscribed, wedged, events>>

(* Progress and parked acknowledgements of this turn, terminal events of   *)
(* other turns.                                                            *)
OtherEvent ==
  /\ events < MaxEvents /\ ~wedged
  /\ \/ task # "none" /\ (Publish("progress") \/ Publish("parked"))
     \/ Publish("foreign")
  /\ events' = events + 1
  /\ UNCHANGED <<pc, mu, ctxVars, turnVars, polls, traceVars, faults, task,
                 ended, draft, problems, subscribed, wedged>>

ToolEvent ==
  /\ task = "running" /\ tools < MaxTools /\ ~wedged
  /\ tools' = tools + 1
  /\ UNCHANGED <<pc, mu, ctxVars, turnVars, polls, daemonVars, traced, atDone,
                 gaveUp, faults>>

Wedge ==
  /\ MayWedge /\ ~wedged /\ wedged' = TRUE
  /\ UNCHANGED <<pc, mu, ctxVars, turnVars, polls, traceVars, faults, task,
                 ended, draft, problems, bus, subscribed, events>>

-----------------------------------------------------------------------------
TurnStep ==
  \/ Subscribe \/ SubscribeErr \/ Submit \/ SubmitRejected \/ SubmitErr
  \/ Tick \/ WaitCtxDone \/ Poll \/ PollErr \/ Unsubscribe
  \/ ReturnToRunTask \/ JoinCollector \/ Release

SealStep ==
  \/ SealTick \/ SealCtxDone \/ List \/ ListErr \/ GetDraft \/ SaveDraft \/ DriverErr
  \/ SealPlan

CollectStep ==
  \/ CollectTick \/ CollectCtxDone \/ CollectDone \/ Fetch \/ FetchErr

Daemon == Finish \/ OtherEvent \/ ToolEvent \/ Wedge

Finished == /\ \A a \in Actors : pc[a] = "end"
            /\ UNCHANGED vars

Next ==
  \/ TurnStep \/ SealStep \/ CollectStep
  \/ \E a \in Actors : Lock(a)
  \/ DeadlinePasses \/ Interrupt \/ WindowPasses
  \/ Daemon
  \/ Finished

Spec == Init /\ [][Next]_vars

(* Goroutines run (WF); the mutex is handed over in turn (SF); a select    *)
(* with several ready cases picks each of them time and again (SF).  An    *)
(* RPC the daemon does not answer is not a step: nothing is assumed of a   *)
(* wedged daemon, nor that a turn finishes or its deadline passes.         *)
Fairness ==
  /\ WF_vars(TurnStep) /\ WF_vars(SealStep) /\ WF_vars(CollectStep)
  /\ \A a \in Actors : SF_vars(Lock(a))
  /\ SF_vars(WaitCtxDone) /\ SF_vars(CollectDone)

FairSpec == Spec /\ Fairness

-----------------------------------------------------------------------------
TypeOK ==
  /\ pc \in [Actors -> Rpcs \cup {"tick", "wait", "returning", "join", "end"}]
  /\ mu \in Actors \cup {Free}
  /\ {deadline, interrupted, quiet, problems, subscribed, gaveUp,
      wedged} \subseteq BOOLEAN
  /\ outcome \in {"none", "result", "stalled", "ctx", "error"}
  /\ answer \in Statuses \cup {"none"} /\ ended \in Statuses \cup {"none"}
  /\ polls \in 0..SealPolls
  /\ task \in {"none", "planning", "running", "over"}
  /\ draft \in {"scaffold", "concrete"}
  /\ bus \in Seq(Statuses \cup {"progress", "parked", "foreign"})
  /\ tools \in 0..MaxTools /\ traced \in 0..MaxTools /\ atDone \in 0..MaxTools
  /\ events \in 0..MaxEvents /\ faults \in 0..MaxFaults

(* ChatAsync subscribes before it submits and filters what it polls: a     *)
(* result is the terminal event the daemon published for this turn, never  *)
(* the parked acknowledgement or another turn's event; and as long as the  *)
(* turn is neither answered nor given up, a published terminal event is    *)
(* still in front of it.                                                   *)
ResultIsTerminalEvent ==
  /\ outcome = "result" => answer = ended /\ ended # "none"
  /\ pc["turn"] \in {"wait", "poll"} /\ ended # "none" =>
       \E n \in 1..Len(bus) : bus[n] = ended

(* RefineAndSeal refines before it seals: plan.seal is never asked to      *)
(* compile the scaffold, whichever of its calls failed before.             *)
NoCompileProblems == ~problems

(* Collect's final drain: a collector that ended because done was closed   *)
(* has every tool event published before that in the transcript.           *)
TraceComplete ==
  pc["collect"] = "end" /\ ~gaveUp /\ ~interrupted => traced >= atDone

(* The turn as RunTask sees it: the daemon's end of it, the answer once     *)
(* ChatAsync has returned, the transcript once the collector has ended.    *)
TurnOf == CASE task = "none" -> "absent"
            [] task = "over" -> ended
            [] OTHER -> "begun"

Told == CASE ~Returned -> "nothing"
          [] Returned /\ outcome = "result" -> answer
          [] OTHER -> "error"

HasTrace == pc["turn"] \in {"release", "end"}

Promise == INSTANCE TurnPromise
             WITH turn <- TurnOf, told <- Told,
                  due <- atDone,
                  broken <- gaveUp \/ interrupted,
                  read <- HasTrace,
                  trace <- IF HasTrace THEN traced ELSE 0

(* A turn keeps the promise of TurnPromise: whatever its three goroutines  *)
(* do to each other, RunTask gets one answer, a status only if it is the   *)
(* one the daemon ended the turn with, and after <-collected a transcript  *)
(* that nobody writes to any more and that nothing is missing from.        *)
KeepsTurnPromise == Promise!Spec

(* With a daemon that answers, the attempt gets past the turn once its     *)
(* deadline has passed and leaves neither goroutine behind: nobody waits   *)
(* for ever on the shared mutex, on done or on collected.                  *)
AttemptMovesOn == deadline ~> \A a \in Actors : pc[a] = "end"

(* A plan-mode turn is not left parked: its draft gets refined and sealed, *)
(* unless the turn is over first, a call failed or the poll window closed. *)
PlanGetsSealed ==
  task = "planning" /\ polls < SealPolls ~> task # "planning" \/ SealDone \/ faults > 0

(* ChatAsync's comment: ctx bounds the whole turn, the submit, the ack     *)
(* wait and the terminal wait.                                             *)
CtxBoundsTurn == deadline ~> outcome # "none"
=============================================================================
