--------------------------- MODULE ChatTurnProofs ---------------------------
(***************************************************************************)
(* One turn over the shared mutex, for any number of polls, events, tool    *)
(* events and faults, whether or not the daemon stops answering.  The       *)
(* inductive invariant is TypeOK, and                                      *)
(*   Placed     which of the control points each actor visits               *)
(*   Refined    plan.seal is only called for a draft without placeholders   *)
(*   Drained    a collector that ended in time polled after done was closed *)
(*              and RunTask waits for it before it has the transcript       *)
(*   Watched    the terminal event is the one the daemon recorded, and it   *)
(*              is on the subscription as long as ChatAsync waits for it    *)
(***************************************************************************)
EXTENDS ChatTurn, TLAPS

Points == Rpcs \cup {"tick", "wait", "returning", "join", "end"}
Events == Statuses \cup {"progress", "parked", "foreign"}

Entering == {"subscribe", "submit"}
Waiting  == {"wait", "poll"}
Leaving  == {"unsubscribe", "returning", "join", "release", "end"}

Placed ==
  /\ pc \in [Actors -> Points]
  /\ pc["turn"] \in Entering \cup Waiting \cup Leaving
  /\ pc["seal"] \in {"tick", "list", "draft", "save", "seal", "end"}
  /\ pc["collect"] \in {"tick", "fetch", "drain", "end"}

(* The rest of TypeOK. *)
TurnTyped ==
  /\ mu \in Actors \cup {Free}
  /\ deadline \in BOOLEAN /\ interrupted \in BOOLEAN /\ quiet \in BOOLEAN
  /\ outcome \in {"none", "result", "stalled", "ctx", "error"}
  /\ answer \in Statuses \cup {"none"}
  /\ polls \in 0..SealPolls

DaemonTyped ==
  /\ problems \in BOOLEAN /\ subscribed \in BOOLEAN /\ wedged \in BOOLEAN
  /\ ended \in Statuses \cup {"none"}
  /\ task \in {"none", "planning", "running", "over"}
  /\ draft \in {"scaffold", "concrete"}
  /\ bus \in Seq(Events)
  /\ events \in 0..MaxEvents /\ faults \in 0..MaxFaults

TraceTyped ==
  /\ gaveUp \in BOOLEAN
  /\ tools \in 0..MaxTools /\ traced \in 0..MaxTools /\ atDone \in 0..MaxTools

Refined == ~problems /\ (pc["seal"] = "seal" => draft = "concrete")

Drained ==
  /\ atDone <= tools /\ traced <= tools
  /\ HasTrace => pc["collect"] = "end"
  /\ pc["collect"] = "drain" => Returned
  /\ pc["collect"] = "end" /\ ~gaveUp /\ ~interrupted => Returned /\ traced >= atDone

Watched ==
  /\ pc["turn"] \in Entering => task = "none"
  /\ pc["turn"] \in {"submit"} \cup Waiting => subscribed
  /\ pc["turn"] \in Entering \cup Waiting => outcome # "result"
  /\ task = "over" <=> ended # "none"
  /\ \A n \in 1..Len(bus) : bus[n] \in Statuses => bus[n] = ended

-----------------------------------------------------------------------------
LEMMA InitTyped ==
  Init => /\ Placed /\ TurnTyped /\ DaemonTyped /\ TraceTyped
          /\ Refined /\ Drained /\ Watched /\ ResultIsTerminalEvent
<1> SUFFICES ASSUME Init
             PROVE  /\ Placed /\ TurnTyped /\ DaemonTyped /\ TraceTyped
                    /\ Refined /\ Drained /\ Watched /\ ResultIsTerminalEvent
  OBVIOUS
<1>1. pc["turn"] = "subscribe" /\ pc["seal"] = "tick" /\ pc["collect"] = "tick"
  BY DEF Init, Actors
<1>2. Placed
  BY <1>1 DEF Init, Placed, Actors, Rpcs, Points, Entering
<1>3. TurnTyped
  <2>1. mu \in Actors \cup {Free} /\ outcome \in {"none", "result", "stalled", "ctx", "error"}
    BY DEF Init
  <2>2. answer \in Statuses \cup {"none"}
    BY DEF Init
  <2>3. deadline \in BOOLEAN /\ interrupted \in BOOLEAN /\ quiet \in BOOLEAN
    BY DEF Init
  <2>4. polls \in 0..SealPolls
    BY TurnAssumption DEF Init
  <2> QED BY <2>1, <2>2, <2>3, <2>4 DEF TurnTyped
<1>4. DaemonTyped
  <2>1. problems \in BOOLEAN /\ subscribed \in BOOLEAN /\ wedged \in BOOLEAN
    BY DEF Init
  <2>2. ended \in Statuses \cup {"none"} /\ task \in {"none", "planning", "running", "over"}
    BY DEF Init
  <2>3. draft \in {"scaffold", "concrete"} /\ bus \in Seq(Events)
    BY DEF Init
  <2>4. events \in 0..MaxEvents /\ faults \in 0..MaxFaults
    BY TurnAssumption DEF Init
  <2> QED BY <2>1, <2>2, <2>3, <2>4 DEF DaemonTyped
<1>5. TraceTyped
  <2>1. gaveUp \in BOOLEAN
    BY DEF Init
  <2>2. tools \in 0..MaxTools /\ traced \in 0..MaxTools /\ atDone \in 0..MaxTools
    BY TurnAssumption DEF Init
  <2> QED BY <2>1, <2>2 DEF TraceTyped
<1>6. Refined /\ Drained
  BY <1>1 DEF Init, Refined, Drained, HasTrace
<1>7. Watched /\ ResultIsTerminalEvent
  BY <1>1 DEF Init, Watched, Entering, Waiting, ResultIsTerminalEvent
<1> QED BY <1>2, <1>3, <1>4, <1>5, <1>6, <1>7

(* Where a step takes the control. *)
LEMMA StepPlaced == Placed /\ [Next]_vars => Placed'
<1> SUFFICES ASSUME Placed, [Next]_vars PROVE Placed'
  OBVIOUS
<1> USE DEF Placed, Actors, Rpcs, Points, Entering, Waiting, Leaving, Resume, GoTo, Leave
<1>1. CASE TurnStep
  BY <1>1 DEF TurnStep, Subscribe, SubscribeErr, Submit, SubmitRejected, SubmitErr, Tick,
              WaitCtxDone, Poll, PollErr, Unsubscribe, ReturnToRunTask, JoinCollector, Release
<1>2. CASE SealStep
  <2>1. CASE List
    <3>1. \E p \in {"tick", "draft", "end"} : pc' = [pc EXCEPT !["seal"] = p]
      BY <2>1 DEF List
    <3> QED BY <3>1
  <2>2. CASE SealTick \/ SealCtxDone \/ ListErr \/ GetDraft \/ SaveDraft \/ DriverErr \/ SealPlan
    BY <2>2 DEF SealTick, SealCtxDone, ListErr, GetDraft, SaveDraft, DriverErr, SealPlan
  <2> QED BY <1>2, <2>1, <2>2 DEF SealStep
<1>3. CASE CollectStep
  BY <1>3 DEF CollectStep, CollectTick, CollectCtxDone, CollectDone, Fetch, FetchErr
<1>4. CASE UNCHANGED pc
  BY <1>4
<1> QED
  BY <1>1, <1>2, <1>3, <1>4
     DEF Next, Lock, DeadlinePasses, Interrupt, WindowPasses, Daemon, Finish, OtherEvent,
         ToolEvent, Wedge, Finished, vars

(* The only part of it that a faulty count would break. *)
LEMMA FaultsTyped ==
  ASSUME faults \in 0..MaxFaults, NEW a, NEW p, Errs(a, p)
  PROVE  faults' \in 0..MaxFaults
  BY TurnAssumption DEF Errs

LEMMA StepTurnTyped == TurnTyped /\ DaemonTyped /\ [Next]_vars => TurnTyped'
<1> SUFFICES ASSUME TurnTyped, DaemonTyped, [Next]_vars PROVE TurnTyped'
  OBVIOUS
<1> USE TurnAssumption DEF TurnTyped, Actors, Resume, ctxVars, turnVars, daemonVars, traceVars
<1>1. CASE TurnStep
  <2>1. CASE Poll
    <3>1. \A n \in 1..Len(bus) : EndsTurn(bus[n]) => bus[n] \in Statuses
      BY DEF EndsTurn
    <3> QED BY <2>1, <3>1 DEF Poll, Leave
  <2>2. CASE Subscribe \/ SubscribeErr \/ Submit \/ SubmitRejected \/ SubmitErr \/ Tick
             \/ WaitCtxDone
    BY <2>2 DEF Subscribe, SubscribeErr, Submit, SubmitRejected, SubmitErr, Tick,
                WaitCtxDone, Leave
  <2>3. CASE PollErr \/ Unsubscribe \/ ReturnToRunTask \/ JoinCollector \/ Release
    BY <2>3 DEF PollErr, Unsubscribe, ReturnToRunTask, JoinCollector, Release, Leave
  <2> QED BY <1>1, <2>1, <2>2, <2>3 DEF TurnStep
<1>2. CASE SealStep
  BY <1>2 DEF SealStep, SealTick, SealCtxDone, List, ListErr, GetDraft, SaveDraft, DriverErr, SealPlan
<1>3. CASE CollectStep
  BY <1>3 DEF CollectStep, CollectTick, CollectCtxDone, CollectDone, Fetch, FetchErr
<1>4. CASE \E a \in Actors : Lock(a)
  BY <1>4 DEF Lock
<1>5. CASE DeadlinePasses \/ Interrupt \/ WindowPasses \/ Daemon
  BY <1>5 DEF DeadlinePasses, Interrupt, WindowPasses, Daemon, Finish, OtherEvent, ToolEvent, Wedge
<1>6. CASE UNCHANGED vars
  BY <1>6 DEF vars
<1> QED BY <1>1, <1>2, <1>3, <1>4, <1>5, <1>6 DEF Next, Finished

LEMMA StepTraceTyped == TraceTyped /\ [Next]_vars => TraceTyped'
<1> SUFFICES ASSUME TraceTyped, [Next]_vars PROVE TraceTyped'
  OBVIOUS
<1> USE TurnAssumption DEF TraceTyped, traceVars
<1>1. CASE ReturnToRunTask \/ Fetch \/ FetchErr
  BY <1>1 DEF ReturnToRunTask, Fetch, FetchErr
<1>3. CASE ToolEvent
  BY <1>3 DEF ToolEvent
<1>2. CASE UNCHANGED traceVars
  BY <1>2
<1> QED
  BY <1>1, <1>2, <1>3
     DEF Next, vars, TurnStep, Subscribe, SubscribeErr, Submit, SubmitRejected, SubmitErr, Tick,
         WaitCtxDone, Poll, PollErr, Unsubscribe, JoinCollector, Release, SealStep, SealTick,
         SealCtxDone, List, ListErr, GetDraft, SaveDraft, DriverErr, SealPlan, CollectStep,
         CollectTick, CollectCtxDone, CollectDone, Lock, DeadlinePasses, Interrupt, WindowPasses,
         Daemon, Finish, OtherEvent, Wedge, Finished

LEMMA StepDaemonTyped == DaemonTyped /\ [Next]_vars => DaemonTyped'
<1> SUFFICES ASSUME DaemonTyped, [Next]_vars PROVE DaemonTyped'
  OBVIOUS
<1> USE TurnAssumption DEF DaemonTyped, daemonVars, StartTask
<1>1. CASE TurnStep
  <2>1. CASE SubscribeErr \/ SubmitErr \/ PollErr \/ Unsubscribe \/ Release
    BY <2>1, FaultsTyped DEF SubscribeErr, SubmitErr, PollErr, Unsubscribe, Release
  <2>2. CASE Submit \/ SubmitRejected \/ Tick \/ WaitCtxDone \/ ReturnToRunTask \/ JoinCollector
    BY <2>2 DEF Submit, SubmitRejected, Tick, WaitCtxDone, ReturnToRunTask, JoinCollector
  <2>3. CASE Subscribe
    BY <2>3 DEF Subscribe
  <2>4. CASE Poll
    BY <2>4 DEF Poll
  <2> QED BY <1>1, <2>1, <2>2, <2>3, <2>4 DEF TurnStep
<1>2. CASE SealStep
  <2>1. CASE DriverErr \/ ListErr
    BY <2>1, FaultsTyped DEF DriverErr, ListErr, Compile
  <2>2. CASE SealTick \/ SealCtxDone \/ List \/ GetDraft \/ SaveDraft \/ SealPlan
    BY <2>2 DEF SealTick, SealCtxDone, List, GetDraft, SaveDraft, SealPlan, Compile
  <2> QED BY <1>2, <2>1, <2>2 DEF SealStep
<1>3. CASE CollectStep
  BY <1>3, FaultsTyped DEF CollectStep, CollectTick, CollectCtxDone, CollectDone, Fetch, FetchErr
<1>4. CASE Finish \/ OtherEvent
  <2>1. \A e \in Events : Append(bus, e) \in Seq(Events)
    OBVIOUS
  <2>2. CASE Finish
    BY <2>1, <2>2 DEF Finish, Publish, Events
  <2>3. CASE OtherEvent
    BY <2>1, <2>3 DEF OtherEvent, Publish, Events
  <2> QED BY <1>4, <2>2, <2>3
<1>5. CASE ToolEvent \/ Wedge \/ DeadlinePasses \/ Interrupt \/ WindowPasses
  BY <1>5 DEF ToolEvent, Wedge, DeadlinePasses, Interrupt, WindowPasses
<1>6. CASE (\E a \in Actors : Lock(a)) \/ UNCHANGED vars
  BY <1>6 DEF Lock, vars
<1> QED BY <1>1, <1>2, <1>3, <1>4, <1>5, <1>6 DEF Next, Daemon, Finished

-----------------------------------------------------------------------------
(* The driver gets to plan.seal with a draft it found or made concrete, and *)
(* nobody makes a draft a scaffold again.                                  *)
LEMMA StepRefined == Placed /\ Refined /\ [Next]_vars => Refined'
<1> SUFFICES ASSUME Placed, Refined, [Next]_vars PROVE Refined'
  OBVIOUS
<1> USE DEF Placed, Refined, Actors, Resume, GoTo
<1>1. CASE SealStep
  <2>1. CASE List
    <3>1. \E p \in {"tick", "draft", "end"} : pc' = [pc EXCEPT !["seal"] = p]
      BY <2>1 DEF List
    <3>2. pc'["seal"] # "seal"
      BY <3>1
    <3> QED BY <2>1, <3>2 DEF List, daemonVars
  <2>2. CASE SealTick \/ SealCtxDone \/ ListErr \/ GetDraft \/ SaveDraft
    BY <2>2 DEF SealTick, SealCtxDone, ListErr, GetDraft, SaveDraft, daemonVars
  <2>3. CASE SealPlan \/ DriverErr
    BY <2>3 DEF SealPlan, DriverErr, Errs, Answers, Calling, Compile
  <2> QED BY <1>1, <2>1, <2>2, <2>3 DEF SealStep
<1>2. CASE pc'["seal"] = pc["seal"] /\ UNCHANGED <<draft, problems>>
  BY <1>2
<1>3. CASE TurnStep
  BY <1>2, <1>3
     DEF TurnStep, Subscribe, SubscribeErr, Submit, SubmitRejected, SubmitErr, Tick, WaitCtxDone,
         Poll, PollErr, Unsubscribe, ReturnToRunTask, JoinCollector, Release, Leave, daemonVars
<1>4. CASE CollectStep
  BY <1>2, <1>4
     DEF CollectStep, CollectTick, CollectCtxDone, CollectDone, Fetch, FetchErr, daemonVars
<1> QED
  BY <1>1, <1>2, <1>3, <1>4
     DEF Next, Lock, DeadlinePasses, Interrupt, WindowPasses, Daemon, Finish, OtherEvent,
         ToolEvent, Wedge, Finished, daemonVars, vars

(* What is published before done is closed is there when the final drain   *)
(* asks for it.                                                            *)
LEMMA StepDrained == Placed /\ TraceTyped /\ Drained /\ [Next]_vars => Drained'
<1> SUFFICES ASSUME Placed, TraceTyped, Drained, [Next]_vars PROVE Drained'
  OBVIOUS
<1> USE TurnAssumption DEF Placed, TraceTyped, Drained, HasTrace, Returned, Actors, Resume, GoTo
<1>1. CASE CollectStep
  <2>1. CASE CollectTick \/ CollectCtxDone \/ CollectDone
    BY <2>1 DEF CollectTick, CollectCtxDone, CollectDone, traceVars, ctxVars
  <2>2. CASE Fetch
    BY <2>2 DEF Fetch, Answers, Calling, ctxVars
  <2>3. CASE FetchErr
    BY <2>3 DEF FetchErr, Errs, Calling, ctxVars
  <2> QED BY <1>1, <2>1, <2>2, <2>3 DEF CollectStep
<1>2. CASE ReturnToRunTask
  BY <1>2 DEF ReturnToRunTask, ctxVars
<1>3. CASE /\ UNCHANGED <<atDone, traced, gaveUp, interrupted>>
           /\ tools' \in Nat /\ tools <= tools'
           /\ pc'["collect"] = pc["collect"] /\ (Returned => Returned')
           /\ HasTrace' => HasTrace \/ pc["collect"] = "end"
  BY <1>3
<1>4. CASE TurnStep
  <2>1. CASE Subscribe \/ SubscribeErr \/ Submit \/ SubmitRejected \/ SubmitErr \/ Tick
             \/ WaitCtxDone \/ Poll \/ PollErr \/ Unsubscribe
    BY <1>3, <2>1
       DEF Subscribe, SubscribeErr, Submit, SubmitRejected, SubmitErr, Tick, WaitCtxDone, Poll,
           PollErr, Unsubscribe, Leave, Answers, Errs, Calling, traceVars, ctxVars
  <2>2. CASE JoinCollector \/ Release
    BY <1>3, <2>2 DEF JoinCollector, Release, Answers, Errs, Calling, traceVars, ctxVars
  <2> QED BY <1>2, <1>4, <2>1, <2>2 DEF TurnStep
<1>5. CASE SealStep
  BY <1>3, <1>5
     DEF SealStep, SealTick, SealCtxDone, List, ListErr, GetDraft, SaveDraft, DriverErr, SealPlan,
         traceVars, ctxVars
<1>6. CASE Interrupt
  BY <1>6 DEF Interrupt, traceVars
<1>7. CASE ToolEvent
  BY <1>3, <1>7 DEF ToolEvent, ctxVars
<1> QED
  BY <1>1, <1>3, <1>4, <1>5, <1>6, <1>7
     DEF Next, Lock, DeadlinePasses, WindowPasses, Daemon, Finish, OtherEvent, Wedge, Finished,
         traceVars, ctxVars, vars

-----------------------------------------------------------------------------
(* The events on the subscription, after one more. *)
LEMMA Published ==
  ASSUME bus \in Seq(Events), NEW e \in Events, Publish(e)
  PROVE  /\ bus' = bus \/ Len(bus') = Len(bus) + 1
         /\ \A n \in 1..Len(bus) : n \in 1..Len(bus') /\ bus'[n] = bus[n]
         /\ \A n \in 1..Len(bus') : n \in 1..Len(bus) \/ bus'[n] = e
         /\ subscribed => Len(bus') \in 1..Len(bus') /\ bus'[Len(bus')] = e
<1>1. CASE bus' = Append(bus, e)
  BY <1>1
<1>2. CASE bus' = bus /\ ~subscribed
  BY <1>2
<1> QED BY <1>1, <1>2 DEF Publish

LEMMA StepWatched ==
  Placed /\ DaemonTyped /\ Watched /\ ResultIsTerminalEvent /\ [Next]_vars
    => Watched' /\ ResultIsTerminalEvent'
<1> SUFFICES ASSUME Placed, DaemonTyped, Watched, ResultIsTerminalEvent, [Next]_vars
             PROVE  Watched' /\ ResultIsTerminalEvent'
  OBVIOUS
<1> USE DEF Placed, Watched, ResultIsTerminalEvent, Actors, Resume, GoTo, Leave, Entering, Waiting,
            Leaving
<1>1. CASE TurnStep
  <2>1. CASE Subscribe \/ SubscribeErr
    BY <2>1 DEF Subscribe, SubscribeErr, Answers, Errs, Calling, turnVars, daemonVars
  <2>2. CASE Submit \/ SubmitRejected \/ SubmitErr
    BY <2>2 DEF Submit, SubmitRejected, SubmitErr, StartTask, Answers, Errs, Calling, daemonVars
  <2>3. CASE Tick \/ WaitCtxDone
    BY <2>3 DEF Tick, WaitCtxDone, turnVars, daemonVars
  <2>4. CASE PollErr
    BY <2>4 DEF PollErr, Errs, Calling, daemonVars
  <2>5. CASE Unsubscribe \/ ReturnToRunTask \/ JoinCollector \/ Release
    BY <2>5 DEF Unsubscribe, ReturnToRunTask, JoinCollector, Release, Answers, Errs, Calling,
                turnVars, daemonVars
  <2>6. CASE Poll
    <3>1. /\ pc["turn"] = "poll" /\ subscribed /\ outcome # "result" /\ bus' = <<>>
          /\ UNCHANGED <<task, ended, subscribed>>
      BY <2>6 DEF Poll, Answers, Calling
    <3>2. CASE \E n \in 1..Len(bus) :
                 EndsTurn(bus[n]) /\ answer' = bus[n] /\ Leave("result", "unsubscribe")
      <4>1. PICK n \in 1..Len(bus) :
              EndsTurn(bus[n]) /\ answer' = bus[n] /\ Leave("result", "unsubscribe")
        BY <3>2
      <4>2. answer' = ended /\ ended # "none" /\ pc'["turn"] = "unsubscribe"
        BY <4>1 DEF EndsTurn, Statuses
      <4> QED BY <3>1, <4>2
    <3>3. CASE /\ \A n \in 1..Len(bus) : ~EndsTurn(bus[n])
               /\ outcome' \in {outcome, "stalled"}
               /\ pc'["turn"] \in {"wait", "unsubscribe"}
      <4>1. ended = "none"
        <5>1. ASSUME ended # "none" PROVE FALSE
          <6>1. ended \in Statuses
            BY <5>1 DEF DaemonTyped
          <6>2. PICK n \in 1..Len(bus) : bus[n] = ended
            BY <3>1, <5>1
          <6> QED BY <3>3, <6>1, <6>2 DEF EndsTurn
        <5> QED BY <5>1
      <4> QED BY <3>1, <3>3, <4>1
    <3>4. bus = <<>> => \A n \in 1..Len(bus) : ~EndsTurn(bus[n])
      OBVIOUS
    <3> QED BY <2>6, <3>2, <3>3, <3>4 DEF Poll
  <2> QED BY <1>1, <2>1, <2>2, <2>3, <2>4, <2>5, <2>6 DEF TurnStep
<1>2. CASE /\ UNCHANGED <<subscribed, bus, ended, turnVars>> /\ pc'["turn"] = pc["turn"]
           /\ task' = task \/ (task = "planning" /\ task' = "running")
  BY <1>2 DEF turnVars
<1>3. CASE SealStep
  BY <1>2, <1>3
     DEF SealStep, SealTick, SealCtxDone, List, ListErr, GetDraft, SaveDraft, DriverErr, SealPlan,
         Compile, turnVars, daemonVars
<1>4. CASE CollectStep
  BY <1>2, <1>4
     DEF CollectStep, CollectTick, CollectCtxDone, CollectDone, Fetch, FetchErr, daemonVars
<1>5. CASE Finish
  <2>1. PICK s \in Statuses : ended' = s /\ Publish(s)
    BY <1>5 DEF Finish
  <2>2. /\ task = "running" /\ task' = "over" /\ ended = "none" /\ s # "none"
        /\ UNCHANGED <<pc, turnVars, subscribed>>
    BY <1>5 DEF Finish, Statuses
  <2>3. bus \in Seq(Events) /\ s \in Events
    BY DEF DaemonTyped, Events
  <2>4. \A n \in 1..Len(bus') : n \in 1..Len(bus) \/ bus'[n] = s
    BY <2>1, <2>3, Published
  <2>5. \A n \in 1..Len(bus) : bus'[n] = bus[n] /\ bus[n] \notin Statuses
    BY <2>1, <2>2, <2>3, Published DEF Statuses
  <2>6. subscribed => Len(bus') \in 1..Len(bus') /\ bus'[Len(bus')] = s
    BY <2>1, <2>3, Published
  <2> QED BY <2>1, <2>2, <2>4, <2>5, <2>6 DEF turnVars
<1>6. CASE OtherEvent
  <2>1. PICK e \in {"progress", "parked", "foreign"} : Publish(e)
    BY <1>6 DEF OtherEvent
  <2>2. UNCHANGED <<pc, turnVars, subscribed, task, ended>>
    BY <1>6 DEF OtherEvent
  <2>3. bus \in Seq(Events) /\ e \in Events /\ e \notin Statuses
    BY DEF DaemonTyped, Events, Statuses
  <2>4. /\ \A n \in 1..Len(bus) : n \in 1..Len(bus') /\ bus'[n] = bus[n]
        /\ \A n \in 1..Len(bus') : n \in 1..Len(bus) \/ bus'[n] = e
    BY <2>1, <2>3, Published
  <2> QED BY <2>2, <2>3, <2>4 DEF turnVars
<1>7. CASE DeadlinePasses \/ Interrupt \/ ToolEvent \/ Wedge \/ \E a \in Actors : Lock(a)
  BY <1>2, <1>7 DEF DeadlinePasses, Interrupt, ToolEvent, Wedge, Lock, daemonVars
<1>8. CASE WindowPasses
  BY <1>8 DEF WindowPasses, daemonVars
<1>9. CASE UNCHANGED vars
  BY <1>2, <1>9 DEF vars, daemonVars
<1> QED
  BY <1>1, <1>3, <1>4, <1>5, <1>6, <1>7, <1>8, <1>9 DEF Next, Daemon, Finished

-----------------------------------------------------------------------------
Inductive ==
  /\ Placed /\ TurnTyped /\ DaemonTyped /\ TraceTyped
  /\ Refined /\ Drained /\ Watched /\ ResultIsTerminalEvent

LEMMA Invariance == Spec => []Inductive
<1>1. Init => Inductive
  BY InitTyped DEF Inductive
<1>2. Inductive /\ [Next]_vars => Inductive'
  BY StepPlaced, StepTurnTyped, StepDaemonTyped, StepTraceTyped, StepRefined, StepDrained,
     StepWatched DEF Inductive
<1> QED BY <1>1, <1>2, PTL DEF Spec

-----------------------------------------------------------------------------
(* What RunTask does not see. *)
LEMMA Hidden ==
  ASSUME UNCHANGED <<task, ended, tools, atDone, gaveUp, interrupted>>,
         Told' = Told, HasTrace' = HasTrace, HasTrace => traced' = traced
  PROVE  UNCHANGED Promise!promiseVars
  BY DEF Promise!promiseVars, TurnOf

LEMMA InitPromise == Init => Promise!Init
  BY DEF Init, Promise!Init, TurnOf, Told, HasTrace, Returned, Actors

(* Each step of the three goroutines, of the daemon and of time is a step  *)
(* of the promise or hidden from RunTask.                                  *)
LEMMA StepPromise == Inductive /\ [Next]_vars => [Promise!Next]_(Promise!promiseVars)
<1> SUFFICES ASSUME Inductive, [Next]_vars PROVE [Promise!Next]_(Promise!promiseVars)
  OBVIOUS
<1>1. Placed /\ TurnTyped /\ DaemonTyped /\ TraceTyped /\ Drained /\ Watched
      /\ ResultIsTerminalEvent
  BY DEF Inductive
<1> USE DEF Resume, GoTo, Leave, Returned, HasTrace, Told
<1>2. CASE Submit \/ SubmitErr
  <2>1. /\ pc["turn"] = "submit" /\ pc'["turn"] \in {"wait", "unsubscribe"}
        /\ task = "none" /\ task' \in {"none", "planning", "running"}
        /\ UNCHANGED <<ended, tools, atDone, gaveUp, interrupted, traced>>
    BY <1>1, <1>2 DEF Submit, SubmitErr, StartTask, Answers, Errs, Calling, Placed, Watched,
                      Entering, Actors, traceVars, ctxVars
  <2>2. CASE task' = task
    BY <2>1, <2>2, Hidden
  <2>3. CASE task' # task
    <3>1. Promise!Begin
      BY <2>1, <2>3 DEF Promise!Begin, TurnOf
    <3> QED BY <3>1 DEF Promise!Next
  <2> QED BY <2>2, <2>3
<1>3. CASE ReturnToRunTask
  <2>1. /\ ~Returned /\ Returned' /\ ~HasTrace /\ ~HasTrace' /\ atDone' = tools
        /\ UNCHANGED <<task, ended, outcome, answer, tools, gaveUp, interrupted>>
    BY <1>1, <1>3 DEF ReturnToRunTask, Placed, Actors, turnVars, daemonVars, ctxVars
  <2>2. CASE outcome = "result"
    <3>1. answer = ended /\ task = "over" /\ ended \in Statuses
      BY <1>1, <2>2 DEF ResultIsTerminalEvent, Watched, DaemonTyped
    <3>2. Promise!ReturnResult
      BY <2>1, <2>2, <3>1 DEF Promise!ReturnResult, Promise!Answer, TurnOf
    <3> QED BY <3>2 DEF Promise!Next
  <2>3. CASE outcome # "result"
    <3>1. Promise!ReturnError
      BY <2>1, <2>3 DEF Promise!ReturnError, Promise!Answer, TurnOf
    <3> QED BY <3>1 DEF Promise!Next
  <2> QED BY <2>2, <2>3
<1>4. CASE JoinCollector
  <2>1. /\ Returned /\ Returned' /\ ~HasTrace /\ HasTrace' /\ pc["collect"] = "end"
        /\ UNCHANGED <<task, ended, outcome, answer, traceVars, interrupted>>
    BY <1>1, <1>4 DEF JoinCollector, Placed, Actors, turnVars, daemonVars, ctxVars
  <2>2. traced \in Nat /\ traced <= tools /\ (traced >= atDone \/ gaveUp \/ interrupted)
    BY <1>1, <2>1 DEF TraceTyped, Drained
  <2>3. Told # "nothing" /\ Told' = Told
    BY <1>1, <2>1 DEF TurnTyped, DaemonTyped, Statuses
  <2>4. Promise!ReadTrace
    BY <2>1, <2>2, <2>3 DEF Promise!ReadTrace, TurnOf, traceVars
  <2> QED BY <2>4 DEF Promise!Next
<1>5. CASE \/ Subscribe \/ SubscribeErr \/ SubmitRejected \/ Tick \/ WaitCtxDone \/ Poll
           \/ PollErr \/ Unsubscribe \/ Release
  <2>1. UNCHANGED <<task, ended, tools, atDone, gaveUp, interrupted, traced>>
    BY <1>5 DEF Subscribe, SubscribeErr, SubmitRejected, Tick, WaitCtxDone, Poll, PollErr,
                Unsubscribe, Release, daemonVars, traceVars, ctxVars
  <2>2. CASE Release
    <3>1. /\ Returned /\ Returned' /\ HasTrace /\ HasTrace'
          /\ UNCHANGED <<outcome, answer>>
      BY <1>1, <2>2 DEF Release, Answers, Errs, Calling, Placed, Actors, turnVars
    <3> QED BY <2>1, <3>1, Hidden
  <2>3. CASE ~Release
    <3>1. ~Returned /\ ~Returned' /\ ~HasTrace /\ ~HasTrace'
      BY <1>1, <1>5, <2>3
         DEF Subscribe, SubscribeErr, SubmitRejected, Tick, WaitCtxDone, Poll, PollErr,
             Unsubscribe, Answers, Errs, Calling, Placed, Actors
    <3> QED BY <2>1, <3>1, Hidden
  <2> QED BY <2>2, <2>3
<1>6. CASE SealStep
  <2>1. /\ pc'["turn"] = pc["turn"]
        /\ task' = task \/ (task = "planning" /\ task' = "running")
        /\ UNCHANGED <<ended, outcome, answer, tools, atDone, gaveUp, interrupted, traced>>
    BY <1>1, <1>6
       DEF SealStep, SealTick, SealCtxDone, List, ListErr, GetDraft, SaveDraft, DriverErr, SealPlan,
           Compile, Placed, Actors, turnVars, daemonVars, traceVars, ctxVars
  <2>2. TurnOf' = TurnOf
    BY <2>1 DEF TurnOf
  <2> QED BY <2>1, <2>2 DEF Promise!promiseVars
<1>7. CASE CollectStep
  <2>1. /\ pc'["turn"] = pc["turn"] /\ pc["collect"] # "end"
        /\ UNCHANGED <<task, ended, outcome, answer, tools, atDone, interrupted>>
    BY <1>1, <1>7
       DEF CollectStep, CollectTick, CollectCtxDone, CollectDone, Fetch, FetchErr, Answers, Errs,
           Calling, Placed, Actors, turnVars, daemonVars, traceVars, ctxVars
  <2>2. ~HasTrace /\ ~HasTrace' /\ Told' = Told
    BY <1>1, <2>1 DEF Drained
  <2>3. CASE gaveUp' = gaveUp
    BY <2>1, <2>2, <2>3, Hidden
  <2>4. CASE gaveUp' = TRUE
    <3>1. Promise!BreakOff
      BY <2>1, <2>2, <2>4 DEF Promise!BreakOff, TurnOf
    <3> QED BY <3>1 DEF Promise!Next
  <2> QED
    BY <1>7, <2>3, <2>4
       DEF CollectStep, CollectTick, CollectCtxDone, CollectDone, Fetch, FetchErr, traceVars
<1>8. CASE Finish
  <2>1. /\ task = "running" /\ task' = "over" /\ ended' \in Statuses
        /\ UNCHANGED <<pc, outcome, answer, traceVars, interrupted>>
    BY <1>8 DEF Finish, turnVars, ctxVars
  <2>2. Promise!End
    BY <2>1 DEF Promise!End, TurnOf, traceVars
  <2> QED BY <2>2 DEF Promise!Next
<1>9. CASE ToolEvent
  <2>1. /\ task = "running" /\ tools' = tools + 1
        /\ UNCHANGED <<pc, task, ended, outcome, answer, traced, atDone, gaveUp, interrupted>>
    BY <1>9 DEF ToolEvent, turnVars, ctxVars, daemonVars
  <2>2. Promise!UseTool
    BY <2>1 DEF Promise!UseTool, TurnOf
  <2> QED BY <2>2 DEF Promise!Next
<1>10. CASE Interrupt
  <2>1. interrupted' = TRUE /\ UNCHANGED <<pc, task, ended, outcome, answer, traceVars>>
    BY <1>10 DEF Interrupt, turnVars, daemonVars
  <2>2. Promise!BreakOff
    BY <2>1 DEF Promise!BreakOff, TurnOf, traceVars
  <2> QED BY <2>2 DEF Promise!Next
<1>11. CASE OtherEvent \/ Wedge \/ DeadlinePasses \/ WindowPasses \/ (\E a \in Actors : Lock(a))
            \/ UNCHANGED vars
  <2>1. UNCHANGED <<pc, task, ended, outcome, answer, traceVars, interrupted>>
    BY <1>11 DEF OtherEvent, Wedge, DeadlinePasses, WindowPasses, Lock, vars, turnVars, ctxVars,
                 daemonVars
  <2> QED BY <2>1, Hidden DEF traceVars
<1> QED
  BY <1>2, <1>3, <1>4, <1>5, <1>6, <1>7, <1>8, <1>9, <1>10, <1>11
     DEF Next, TurnStep, Daemon, Finished

(* The state of a turn has its type: the control points of the three        *)
(* goroutines, the driver's poll counter within the loop's bound.          *)
THEOREM TypeCorrect == Spec => []TypeOK
<1>1. Inductive => TypeOK
  BY DEF Inductive, Placed, TurnTyped, DaemonTyped, TraceTyped, TypeOK, Points, Events
<1> QED BY <1>1, Invariance, PTL

(* What ChatAsync returns is the terminal event of its own turn, and that  *)
(* event is never lost before it is polled.                                *)
THEOREM OwnEvent == Spec => []ResultIsTerminalEvent
<1>1. Inductive => ResultIsTerminalEvent
  BY DEF Inductive
<1> QED BY <1>1, Invariance, PTL

(* RefineAndSeal never asks plan.seal to compile a scaffold. *)
THEOREM NeverAScaffold == Spec => []NoCompileProblems
<1>1. Inductive => NoCompileProblems
  BY DEF Inductive, Refined, NoCompileProblems
<1> QED BY <1>1, Invariance, PTL

(* The transcript of a turn whose collector was not broken off has every   *)
(* tool event published before the turn was over.                          *)
THEOREM NothingMissed == Spec => []TraceComplete
<1>1. Inductive => TraceComplete
  BY DEF Inductive, Drained, TraceComplete
<1> QED BY <1>1, Invariance, PTL

(* ChatAsync, the seal driver and the collector together implement         *)
(* TurnPromise: RunTask gets one answer and a transcript nobody still      *)
(* writes to.                                                              *)
THEOREM TurnKeepsPromise == Spec => KeepsTurnPromise
  BY InitPromise, StepPromise, Invariance, PTL DEF Spec, KeepsTurnPromise, Promise!Spec
=============================================================================
