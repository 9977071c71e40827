--------------------------- MODULE SteeringProofs ---------------------------
(***************************************************************************)
(* Scheduled turns, for any number of them, any quiet period and any number *)
(* of faults.  The inductive invariant is TypeOK, and                      *)
(*   EventSet   a turn that leaves its chat or is done has its TurnEvent    *)
(*   AllJoined  RunTask is past the join only when every turn is done       *)
(*   Offering   while a queue is tried there is a candidate left            *)
(*   NotQuiet   while RunTask waits the quiet period is not over            *)
(*   TakenLast  a turn the daemon took is not offered to it again, as long  *)
(*              as there is no fault                                        *)
(***************************************************************************)
EXTENDS Steering, TLAPS

EventSet ==
  \A t \in Turns : pc[t] \in {"unsubscribe", "done"} => accepted[t] \/ failed[t]

AllJoined == main \in {"wait", "check"} => AllDone

TakenLast ==
  faults = 0 => \A t \in Turns :
    taken[t] = 0 \/ (taken[t] = 1 /\ pc[t] \in {"replies", "unsubscribe", "done"})

Points == Rpcs \cup {"delay", "replies", "done"}

(* The conjuncts of TypeOK that a step of a turn may disturb, and the rest. *)
PcTyped == pc \in [Turns -> Points]
IdsTyped == /\ ids \in [Turns -> Seq(Conversations)] /\ tried \in [Turns -> Nat]
            /\ \A t \in Turns : tried[t] <= Len(ids[t])
EventsTyped == accepted \in [Turns -> BOOLEAN] /\ failed \in [Turns -> BOOLEAN]
WatchTyped == subs \subseteq Turns /\ watching \subseteq Turns /\ heard \subseteq Turns
MuTyped == mu \in {Free} \cup (Turns \X {"call", "watch"})
CountsTyped == taken \in [Turns -> Nat] /\ faults \in 0..MaxFaults
MainTyped ==
  /\ main \in {"chat", "grace", "join", "wait", "check"}
  /\ sctx \in {"live", "deadline", "cancelled"}
  /\ subscribed \in BOOLEAN /\ quiet \in 0..QuietPolls
  /\ once \in {"unset", "none"} \cup Conversations
DaemonTyped ==
  /\ announced \in {"none"} \cup Conversations /\ reported \in BOOLEAN
  /\ agent \in {"queued", "running", "over"}
  /\ loop \in OwnConversations
  /\ run \in [Turns -> {"none", "running", "over"}]

Typed == /\ PcTyped /\ IdsTyped /\ EventsTyped /\ WatchTyped /\ MuTyped /\ CountsTyped
         /\ MainTyped /\ DaemonTyped

Offering ==
  \A t \in Turns : /\ pc[t] = "delay" => tried[t] = 0
                   /\ pc[t] \in {"steer", "followup"} => tried[t] < Len(ids[t])

NotQuiet == main # "check" => quiet < QuietPolls

IInv == Typed /\ EventSet /\ AllJoined /\ Offering /\ NotQuiet /\ TakenLast

LEMMA TypedIsTypeOK == Typed <=> TypeOK
  BY DEF Typed, TypeOK, PcTyped, IdsTyped, EventsTyped, WatchTyped, MuTyped, CountsTyped,
         MainTyped, DaemonTyped, Points

-----------------------------------------------------------------------------
LEMMA InitIInv == Init => IInv
<1> SUFFICES ASSUME Init PROVE IInv
  OBVIOUS
<1> USE SteeringAssumption DEF Init
<1>1. PcTyped /\ MuTyped /\ WatchTyped
  BY DEF PcTyped, Points, Rpcs, MuTyped, WatchTyped
<1>2. IdsTyped /\ EventsTyped
  BY DEF IdsTyped, EventsTyped
<1>3. CountsTyped /\ MainTyped
  BY DEF CountsTyped, MainTyped
<1>4. DaemonTyped
  BY DEF DaemonTyped
<1>5. Typed
  BY <1>1, <1>2, <1>3, <1>4 DEF Typed
<1> QED
  BY <1>5 DEF IInv, EventSet, AllJoined, Offering, NotQuiet, TakenLast

(* The conversations a turn is offered to: the cached one, if there is one, *)
(* and the two defaults.                                                   *)
LEMMA CandidatesTyped ==
  ASSUME Typed, Resolve
  PROVE  Candidates \in Seq(Conversations) /\ Len(Candidates) >= 2
<1>1. once' \in {"none"} \cup Conversations /\ "none" \notin Conversations
  BY DEF Typed, MainTyped, DaemonTyped, Resolve, Conversations, OwnConversations
<1>2. <<"general", "raw">> \in Seq(Conversations)
  BY DEF Conversations, OwnConversations
<1>3. CASE once' # "none"
  <2>1. Candidates = <<once'>> \o <<"general", "raw">>
    BY <1>3 DEF Candidates
  <2> QED BY <1>1, <1>2, <1>3, <2>1
<1>4. CASE once' = "none"
  <2>1. Candidates = <<>> \o <<"general", "raw">>
    BY <1>4 DEF Candidates
  <2> QED BY <1>2, <2>1
<1> QED BY <1>3, <1>4

(* A call that fails may have been taken, and may have been a fault. *)
LEMMA CountsStep ==
  ASSUME CountsTyped, NEW t \in Turns,
         taken' = taken \/ taken' = [taken EXCEPT ![t] = @ + 1],
         faults' = faults \/ (faults < MaxFaults /\ faults' = faults + 1)
  PROVE  CountsTyped'
<1>1. taken' \in [Turns -> Nat]
  BY DEF CountsTyped
<1>2. faults' \in 0..MaxFaults
  BY SteeringAssumption DEF CountsTyped
<1> QED BY <1>1, <1>2 DEF CountsTyped

(* A step keeps the types. *)
LEMMA StepTyped == Typed /\ Offering /\ NotQuiet /\ [Next]_vars => Typed'
<1> SUFFICES ASSUME Typed, Offering, NotQuiet, [Next]_vars PROVE Typed'
  OBVIOUS
<1> USE SteeringAssumption
    DEF Typed, PcTyped, IdsTyped, EventsTyped, WatchTyped, MuTyped, CountsTyped, MainTyped,
        DaemonTyped, Points, Rpcs, Offering, GoTo, Resume, Calling, Fault, CallFails, Takes,
        Accept, Reject, Answered, Pending, Dispatch, LeaveChat, StartPath, NextPath,
        mainVars, eventVars, watchVars, daemonVars
<1>1. ASSUME NEW t \in Turns, Deliver(t) PROVE Typed'
  <2>1. Candidates \in Seq(Conversations) /\ Len(Candidates) >= 2
    BY <1>1, CandidatesTyped DEF Deliver
  <2>2. MainTyped'
    BY <1>1 DEF Deliver, Resolve
  <2>3. IdsTyped'
    BY <1>1, <2>1 DEF Deliver
  <2> QED BY <1>1, <2>2, <2>3 DEF Deliver
<1>2. ASSUME NEW t \in Turns, Lock(t) PROVE Typed'
  BY <1>2 DEF Lock
<1>3. ASSUME NEW t \in Turns, DelayCancelled(t) PROVE Typed'
  BY <1>3 DEF DelayCancelled
<1>4. ASSUME NEW t \in Turns, NEW p \in {"steer", "followup"}, Queue(t, p) PROVE Typed'
  <2>1. PcTyped'
    <3>1. \E q \in Points : pc' = [pc EXCEPT ![t] = q]
      BY <1>4 DEF Queue
    <3> QED BY <3>1
  <2>2. IdsTyped'
    <3>1. tried[t] + 1 \in 0..Len(ids[t]) /\ 0 \in 0..Len(ids[t])
      BY <1>4 DEF Queue
    <3>2. ids' = ids /\ \E n \in 0..Len(ids[t]) : tried' = [tried EXCEPT ![t] = n]
      BY <1>4, <3>1 DEF Queue
    <3>3. \A u \in Turns : tried'[u] \in 0..Len(ids[u])
      BY <3>2
    <3> QED BY <3>2, <3>3
  <2>3. EventsTyped'
    BY <1>4 DEF Queue
  <2>4. WatchTyped'
    BY <1>4 DEF Queue
  <2>5. MuTyped'
    BY <1>4 DEF Queue
  <2>6. CountsTyped'
    <3>1. taken' = taken \/ taken' = [taken EXCEPT ![t] = @ + 1]
      BY <1>4 DEF Queue
    <3>2. faults' = faults
      BY <1>4 DEF Queue
    <3>3. taken \in [Turns -> Nat] /\ [taken EXCEPT ![t] = @ + 1] \in [Turns -> Nat]
      OBVIOUS
    <3>4. taken' \in [Turns -> Nat]
      BY <3>1, <3>3
    <3> QED BY <3>2, <3>4
  <2>7. MainTyped'
    BY <1>4 DEF Queue
  <2>8. DaemonTyped'
    BY <1>4 DEF Queue
  <2> QED BY <2>1, <2>2, <2>3, <2>4, <2>5, <2>6, <2>7, <2>8
<1>5. ASSUME NEW t \in Turns, NEW p \in {"steer", "followup"}, QueueErr(t, p) PROVE Typed'
  <2>1. PcTyped'
    <3>1. \E q \in Points : pc' = [pc EXCEPT ![t] = q]
      BY <1>5 DEF QueueErr
    <3> QED BY <3>1
  <2>2. IdsTyped'
    BY <1>5 DEF QueueErr
  <2>3. EventsTyped' /\ WatchTyped'
    BY <1>5 DEF QueueErr
  <2>4. MuTyped'
    BY <1>5 DEF QueueErr
  <2>5. CountsTyped'
    <3>1. taken' = taken \/ taken' = [taken EXCEPT ![t] = @ + 1]
      BY <1>5 DEF QueueErr
    <3>2. faults' = faults \/ (faults < MaxFaults /\ faults' = faults + 1)
      BY <1>5 DEF QueueErr
    <3>3. CountsTyped
      OBVIOUS
    <3> QED BY ONLY <3>1, <3>2, <3>3, CountsStep
  <2>6. MainTyped' /\ DaemonTyped'
    BY <1>5 DEF QueueErr
  <2> QED BY <2>1, <2>2, <2>3, <2>4, <2>5, <2>6
<1>6. ASSUME NEW t \in Turns, ChatSubscribe(t) PROVE Typed'
  BY <1>6 DEF ChatSubscribe
<1>7. ASSUME NEW t \in Turns, ChatReply(t) PROVE Typed'
  <2>1. PcTyped'
    BY <1>7 DEF ChatReply
  <2>2. IdsTyped'
    BY <1>7 DEF ChatReply
  <2>3. EventsTyped'
    BY <1>7 DEF ChatReply
  <2>4. WatchTyped'
    BY <1>7 DEF ChatReply
  <2>5. MuTyped'
    BY <1>7 DEF ChatReply
  <2>6. CountsTyped'
    BY <1>7 DEF ChatReply
  <2>7. MainTyped'
    BY <1>7 DEF ChatReply
  <2>8. DaemonTyped'
    BY <1>7 DEF ChatReply
  <2> QED BY <2>1, <2>2, <2>3, <2>4, <2>5, <2>6, <2>7, <2>8
<1>8. ASSUME NEW t \in Turns, ChatProxyTimeout(t) PROVE Typed'
  <2>1. PcTyped'
    <3>1. \E q \in Points : pc' = [pc EXCEPT ![t] = q]
      BY <1>8 DEF ChatProxyTimeout
    <3> QED BY <3>1
  <2>2. IdsTyped'
    BY <1>8 DEF ChatProxyTimeout
  <2>3. EventsTyped'
    BY <1>8 DEF ChatProxyTimeout
  <2>4. WatchTyped'
    BY <1>8 DEF ChatProxyTimeout
  <2>5. MuTyped'
    BY <1>8 DEF ChatProxyTimeout
  <2>6. CountsTyped'
    BY <1>8 DEF ChatProxyTimeout
  <2>7. MainTyped'
    BY <1>8 DEF ChatProxyTimeout
  <2>8. DaemonTyped'
    BY <1>8 DEF ChatProxyTimeout
  <2> QED BY <2>1, <2>2, <2>3, <2>4, <2>5, <2>6, <2>7, <2>8
<1>9. ASSUME NEW t \in Turns, ChatErr(t) PROVE Typed'
  <2>1. PcTyped'
    <3>1. \E q \in Points : pc' = [pc EXCEPT ![t] = q]
      BY <1>9 DEF ChatErr
    <3> QED BY <3>1
  <2>2. IdsTyped'
    BY <1>9 DEF ChatErr
  <2>3. EventsTyped'
    BY <1>9 DEF ChatErr
  <2>4. WatchTyped'
    BY <1>9 DEF ChatErr
  <2>5. MuTyped'
    BY <1>9 DEF ChatErr
  <2>6. CountsTyped'
    <3>1. taken' = taken \/ taken' = [taken EXCEPT ![t] = @ + 1]
      BY <1>9 DEF ChatErr
    <3>2. faults' = faults \/ (faults < MaxFaults /\ faults' = faults + 1)
      BY <1>9 DEF ChatErr
    <3>3. CountsTyped
      OBVIOUS
    <3> QED BY ONLY <3>1, <3>2, <3>3, CountsStep
  <2>7. MainTyped'
    BY <1>9 DEF ChatErr
  <2>8. DaemonTyped'
    BY <1>9 DEF ChatErr
  <2> QED BY <2>1, <2>2, <2>3, <2>4, <2>5, <2>6, <2>7, <2>8
<1>10. ASSUME NEW t \in Turns, ChatHears(t) \/ ChatWindowEnds(t) PROVE Typed'
  <2>1. CASE ChatHears(t)
    <3>1. EventsTyped'
      BY <2>1 DEF ChatHears
    <3>2. PcTyped' /\ WatchTyped'
      BY <2>1 DEF ChatHears
    <3> QED BY <2>1, <3>1, <3>2 DEF ChatHears
  <2>2. CASE ChatWindowEnds(t)
    <3>1. EventsTyped'
      BY <2>2 DEF ChatWindowEnds
    <3> QED BY <2>2, <3>1 DEF ChatWindowEnds
  <2> QED BY <1>10, <2>1, <2>2
<1>11. ASSUME NEW t \in Turns, ChatUnsubscribe(t) PROVE Typed'
  BY <1>11 DEF ChatUnsubscribe
<1>12. ASSUME NEW t \in Turns, WatchLock(t) \/ WatchPoll(t) PROVE Typed'
  BY <1>12 DEF WatchLock, WatchPoll
<1>13. ASSUME MainStep PROVE Typed'
  <2>1. CASE PrimaryReturns
    <3>1. MainTyped'
      BY <2>1 DEF PrimaryReturns
    <3>2. CountsTyped'
      BY <2>1 DEF PrimaryReturns
    <3> QED BY <2>1, <3>1, <3>2 DEF PrimaryReturns
  <2>2. CASE GraceDone \/ Join
    BY <2>2 DEF GraceDone, Join, Assemble
  <2>3. CASE GraceExpires \/ CtxEnds \/ WaitEnds
    BY <2>3 DEF GraceExpires, CtxEnds, WaitEnds
  <2>4. CASE WaitTick
    <3>1. quiet' \in 0..QuietPolls
      BY <2>4 DEF WaitTick, NotQuiet, QuietFor
    <3>2. MainTyped'
      BY <2>4, <3>1 DEF WaitTick
    <3>3. CountsTyped'
      BY <2>4 DEF WaitTick
    <3> QED BY <2>4, <3>2, <3>3 DEF WaitTick
  <2> QED BY <1>13, <2>1, <2>2, <2>3, <2>4 DEF MainStep
<1>14. ASSUME Daemon PROVE Typed'
  <2>1. DaemonTyped'
    <3>1. CASE Announce
      BY <3>1 DEF Announce, Conversations
    <3>2. CASE AgentStarts \/ AgentEnds
      BY <3>2 DEF AgentStarts, AgentEnds
    <3>3. ASSUME NEW t \in Turns, RunEnds(t) PROVE DaemonTyped'
      BY <3>3 DEF RunEnds
    <3> QED BY <1>14, <3>1, <3>2, <3>3 DEF Daemon
  <2>2. UNCHANGED <<mainVars, once, pc, ids, tried, eventVars, watchVars, mu, taken, faults>>
    BY <1>14 DEF Daemon, AgentStarts, Announce, AgentEnds, RunEnds
  <2> QED BY <2>1, <2>2
<1>15. CASE UNCHANGED vars
  BY <1>15 DEF vars
<1> QED
  BY <1>1, <1>2, <1>3, <1>4, <1>5, <1>6, <1>7, <1>8, <1>9, <1>10, <1>11, <1>12, <1>13,
     <1>14, <1>15 DEF Next, TurnStep, Finished

-----------------------------------------------------------------------------
(* The last path of a delivery, and the end of a chat, set the TurnEvent. *)
LEMMA StepEventSet == Typed /\ EventSet /\ [Next]_vars => EventSet'
<1> SUFFICES ASSUME Typed, EventSet, [Next]_vars PROVE EventSet'
  OBVIOUS
<1> USE DEF Typed, PcTyped, EventsTyped, EventSet, GoTo, Resume, Calling, Accept, Reject,
            Answered, Pending, LeaveChat, StartPath, NextPath,
            mainVars, eventVars, watchVars, daemonVars
<1>1. ASSUME NEW t \in Turns, NEW p \in {"steer", "followup"},
             DelayCancelled(t) \/ Queue(t, p) \/ QueueErr(t, p)
      PROVE  EventSet'
  <2>1. CASE DelayCancelled(t)
    BY <2>1 DEF DelayCancelled
  <2>2. CASE Queue(t, p)
    BY <2>2 DEF Queue
  <2>3. CASE QueueErr(t, p)
    BY <2>3 DEF QueueErr
  <2> QED BY <1>1, <2>1, <2>2, <2>3
<1>2. ASSUME NEW t \in Turns, ChatReply(t) \/ ChatProxyTimeout(t) \/ ChatErr(t)
      PROVE  EventSet'
  <2>1. CASE ChatReply(t)
    BY <2>1 DEF ChatReply
  <2>2. CASE ChatProxyTimeout(t)
    BY <2>2 DEF ChatProxyTimeout
  <2>3. CASE ChatErr(t)
    BY <2>3 DEF ChatErr
  <2> QED BY <1>2, <2>1, <2>2, <2>3
<1>3. ASSUME NEW t \in Turns, ChatHears(t) \/ ChatWindowEnds(t) PROVE EventSet'
  <2>1. CASE ChatHears(t)
    BY <2>1 DEF ChatHears
  <2>2. CASE ChatWindowEnds(t)
    BY <2>2 DEF ChatWindowEnds
  <2> QED BY <1>3, <2>1, <2>2
<1>4. ASSUME NEW t \in Turns, ChatSubscribe(t) \/ ChatUnsubscribe(t) \/ Deliver(t)
      PROVE  EventSet'
  BY <1>4 DEF ChatSubscribe, ChatUnsubscribe, Deliver
<1>5. ASSUME UNCHANGED <<pc, eventVars>> PROVE EventSet'
  BY <1>5
<1>6. ASSUME NEW t \in Turns, Lock(t) \/ WatchLock(t) \/ WatchPoll(t) PROVE EventSet'
  BY <1>5, <1>6 DEF Lock, WatchLock, WatchPoll
<1>7. CASE MainStep \/ Daemon \/ UNCHANGED vars
  BY <1>5, <1>7 DEF MainStep, PrimaryReturns, GraceDone, GraceExpires, Join, CtxEnds,
                    WaitTick, WaitEnds, Daemon, AgentStarts, Announce, AgentEnds, RunEnds, vars
<1> QED
  BY <1>1, <1>2, <1>3, <1>4, <1>6, <1>7 DEF Next, TurnStep, Finished

(* RunTask gets past the join when every turn is done, and stays there. *)
LEMMA StepAllJoined == Typed /\ AllJoined /\ [Next]_vars => AllJoined'
<1> SUFFICES ASSUME Typed, AllJoined, [Next]_vars PROVE AllJoined'
  OBVIOUS
<1> USE DEF Typed, PcTyped, AllJoined, AllDone, GoTo, Resume, Calling, mainVars, watchVars,
            eventVars, daemonVars
<1>1. ASSUME NEW t \in Turns, Deliver(t) \/ TurnStep(t) PROVE AllJoined'
  <2>1. pc[t] # "done" /\ main' = main
    BY <1>1 DEF Deliver, TurnStep, DelayCancelled, Queue, QueueErr, ChatSubscribe, ChatReply,
                ChatProxyTimeout, ChatErr, ChatHears, ChatWindowEnds, ChatUnsubscribe
  <2> QED BY <2>1
<1>2. ASSUME NEW t \in Turns, Lock(t) \/ WatchLock(t) \/ WatchPoll(t) PROVE AllJoined'
  BY <1>2 DEF Lock, WatchLock, WatchPoll
<1>3. CASE MainStep
  BY <1>3 DEF MainStep, PrimaryReturns, GraceDone, GraceExpires, Join, Joined, CtxEnds,
              WaitTick, WaitEnds, Assemble
<1>4. CASE Daemon \/ UNCHANGED vars
  BY <1>4 DEF Daemon, AgentStarts, Announce, AgentEnds, RunEnds, vars
<1> QED BY <1>1, <1>2, <1>3, <1>4 DEF Next, Finished

(* A path over the candidates starts at the first, and is left at the last. *)
LEMMA StepOffering == Typed /\ Offering /\ [Next]_vars => Offering'
<1> SUFFICES ASSUME Typed, Offering, [Next]_vars PROVE Offering'
  OBVIOUS
<1> USE DEF Typed, PcTyped, IdsTyped, Offering, GoTo, Resume, Calling, StartPath, NextPath,
            mainVars, watchVars, eventVars, daemonVars
<1>1. ASSUME NEW t \in Turns, Deliver(t) PROVE Offering'
  <2>1. Candidates \in Seq(Conversations) /\ Len(Candidates) >= 2
    BY <1>1, CandidatesTyped DEF Deliver
  <2>2. ids'[t] = Candidates
    BY <1>1 DEF Deliver
  <2>4. tried'[t] = 0 /\ pc'[t] = "steer"
    BY <1>1 DEF Deliver
  <2>3. \A u \in Turns \ {t} : ids'[u] = ids[u] /\ tried'[u] = tried[u] /\ pc'[u] = pc[u]
    BY <1>1 DEF Deliver
  <2>5. 0 < Len(ids'[t])
    BY <2>1, <2>2
  <2>6. ASSUME NEW u \in Turns
        PROVE  /\ pc'[u] = "delay" => tried'[u] = 0
               /\ pc'[u] \in {"steer", "followup"} => tried'[u] < Len(ids'[u])
    BY <2>3, <2>4, <2>5
  <2> QED BY <2>6
<1>2. ASSUME NEW t \in Turns, NEW p \in {"steer", "followup"}, Queue(t, p) PROVE Offering'
  <2>1. tried[t] + 1 \in 1..Len(ids[t]) /\ 0 < Len(ids[t])
    BY <1>2 DEF Queue
  <2>2. ids' = ids
    BY <1>2 DEF Queue
  <2>5. \E q \in {p, "followup", "subscribe", "done"} : pc' = [pc EXCEPT ![t] = q]
    BY <1>2 DEF Queue
  <2>6. pc'[t] # "delay"
    BY <2>5
  <2>3. \A u \in Turns \ {t} : pc'[u] = pc[u] /\ tried'[u] = tried[u]
    BY <1>2 DEF Queue
  <2>4. pc'[t] \in {"steer", "followup"} => tried'[t] < Len(ids[t])
    <3>1. tried' = [tried EXCEPT ![t] = 0]
            \/ (tried' = [tried EXCEPT ![t] = tried[t] + 1] /\ tried[t] + 1 # Len(ids[t]))
            \/ pc' = [pc EXCEPT ![t] = "subscribe"] \/ pc' = [pc EXCEPT ![t] = "done"]
      BY <1>2 DEF Queue
    <3> QED BY <2>1, <3>1
  <2> QED BY <2>2, <2>3, <2>4, <2>6
<1>3. ASSUME NEW t \in Turns, NEW p \in {"steer", "followup"}, QueueErr(t, p) PROVE Offering'
  BY <1>3 DEF QueueErr
<1>4. ASSUME NEW t \in Turns, UNCHANGED <<ids, tried>>,
             pc'[t] \notin {"delay", "steer", "followup"},
             \A u \in Turns \ {t} : pc'[u] = pc[u]
      PROVE  Offering'
  BY <1>4
<1>5. ASSUME NEW t \in Turns,
             \/ DelayCancelled(t) \/ ChatSubscribe(t) \/ ChatReply(t) \/ ChatProxyTimeout(t)
             \/ ChatErr(t) \/ ChatHears(t) \/ ChatWindowEnds(t) \/ ChatUnsubscribe(t)
      PROVE  Offering'
  BY <1>4, <1>5 DEF DelayCancelled, ChatSubscribe, ChatReply, ChatProxyTimeout, ChatErr,
                    ChatHears, ChatWindowEnds, ChatUnsubscribe, LeaveChat
<1>6. ASSUME UNCHANGED <<pc, ids, tried>> PROVE Offering'
  BY <1>6
<1>7. ASSUME NEW t \in Turns, Lock(t) \/ WatchLock(t) \/ WatchPoll(t) PROVE Offering'
  BY <1>6, <1>7 DEF Lock, WatchLock, WatchPoll
<1>8. CASE MainStep \/ Daemon \/ UNCHANGED vars
  BY <1>6, <1>8 DEF MainStep, PrimaryReturns, GraceDone, GraceExpires, Join, CtxEnds,
                    WaitTick, WaitEnds, Daemon, AgentStarts, Announce, AgentEnds, RunEnds, vars
<1> QED
  BY <1>1, <1>2, <1>3, <1>5, <1>7, <1>8 DEF Next, TurnStep, Finished

(* waitForTurnRuns returns with the last poll of the quiet period. *)
LEMMA StepNotQuiet == Typed /\ NotQuiet /\ [Next]_vars => NotQuiet'
<1> SUFFICES ASSUME Typed, NotQuiet, [Next]_vars PROVE NotQuiet'
  OBVIOUS
<1> USE SteeringAssumption DEF Typed, MainTyped, NotQuiet, mainVars
<1>1. CASE WaitTick
  BY <1>1 DEF WaitTick, QuietFor
<1>2. CASE MainStep /\ ~WaitTick
  BY <1>2 DEF MainStep, PrimaryReturns, GraceDone, GraceExpires, Join, CtxEnds, WaitEnds,
              Assemble
<1>3. ASSUME UNCHANGED <<main, quiet>> PROVE NotQuiet'
  BY <1>3
<1>4. ASSUME NEW t \in Turns,
             Deliver(t) \/ Lock(t) \/ TurnStep(t) \/ WatchLock(t) \/ WatchPoll(t)
      PROVE  NotQuiet'
  BY <1>3, <1>4 DEF Deliver, Lock, TurnStep, DelayCancelled, Queue, QueueErr, ChatSubscribe,
       ChatReply, ChatProxyTimeout, ChatErr, ChatHears, ChatWindowEnds, ChatUnsubscribe,
       WatchLock, WatchPoll
<1>5. CASE Daemon \/ UNCHANGED vars
  BY <1>3, <1>5 DEF Daemon, AgentStarts, Announce, AgentEnds, RunEnds, vars
<1> QED BY <1>1, <1>2, <1>4, <1>5 DEF Next, Finished

(* Without a fault a call fails only when the ctx has ended, which ends the *)
(* delivery: what the daemon took is not offered again.                    *)
LEMMA StepTakenLast == Typed /\ TakenLast /\ [Next]_vars => TakenLast'
<1> SUFFICES ASSUME Typed, TakenLast, [Next]_vars, faults' = 0 PROVE TakenLast'
  BY DEF TakenLast
<1> USE DEF Typed, PcTyped, CountsTyped, GoTo, Resume, Calling, Fault, Takes, StartPath,
            LeaveChat, mainVars, watchVars, eventVars, daemonVars
<1> DEFINE Done(t) == \/ taken[t] = 0
                      \/ taken[t] = 1 /\ pc[t] \in {"replies", "unsubscribe", "done"}
<1>1. faults = 0 /\ \A t \in Turns : Done(t)
  <2>1. faults' = faults \/ faults' = faults + 1
    <3>1. ASSUME NEW t \in Turns, TurnStep(t) PROVE faults' = faults \/ faults' = faults + 1
      BY <3>1 DEF TurnStep, DelayCancelled, Queue, QueueErr, ChatSubscribe, ChatReply,
           ChatProxyTimeout, ChatErr, ChatHears, ChatWindowEnds, ChatUnsubscribe, CallFails
    <3>2. ASSUME NEW t \in Turns, Deliver(t) \/ Lock(t) \/ WatchLock(t) \/ WatchPoll(t)
          PROVE  faults' = faults \/ faults' = faults + 1
      BY <3>2 DEF Deliver, Lock, WatchLock, WatchPoll
    <3>3. CASE MainStep
      BY <3>3 DEF MainStep, PrimaryReturns, GraceDone, GraceExpires, Join, CtxEnds,
                  WaitTick, WaitEnds
    <3>4. CASE Daemon \/ UNCHANGED vars
      BY <3>4 DEF Daemon, AgentStarts, Announce, AgentEnds, RunEnds, vars
    <3> QED BY <3>1, <3>2, <3>3, <3>4 DEF Next, Finished
  <2> QED BY <2>1 DEF TakenLast
<1>2. ASSUME NEW t \in Turns, Done(t)', \A u \in Turns \ {t} : taken'[u] = taken[u] /\ pc'[u] = pc[u]
      PROVE  TakenLast'
  BY <1>1, <1>2 DEF TakenLast
<1>3. ASSUME NEW t \in Turns, CallFails(t) PROVE sctx # "live"
  BY <1>1, <1>3 DEF CallFails
<1>4. ASSUME NEW t \in Turns, Deliver(t) PROVE TakenLast'
  BY <1>1, <1>2, <1>4 DEF Deliver
<1>5. ASSUME NEW t \in Turns, DelayCancelled(t) PROVE TakenLast'
  BY <1>1, <1>2, <1>5 DEF DelayCancelled
<1>6. ASSUME NEW t \in Turns, NEW p \in {"steer", "followup"}, Queue(t, p) PROVE TakenLast'
  BY <1>1, <1>2, <1>6 DEF Queue
<1>7. ASSUME NEW t \in Turns, NEW p \in {"steer", "followup"}, QueueErr(t, p) PROVE TakenLast'
  BY <1>1, <1>2, <1>3, <1>7 DEF QueueErr, CallFails
<1>8. ASSUME NEW t \in Turns, ChatSubscribe(t) \/ ChatUnsubscribe(t) PROVE TakenLast'
  BY <1>1, <1>2, <1>8 DEF ChatSubscribe, ChatUnsubscribe
<1>9. ASSUME NEW t \in Turns, ChatReply(t) \/ ChatProxyTimeout(t) PROVE TakenLast'
  BY <1>1, <1>2, <1>9 DEF ChatReply, ChatProxyTimeout, Dispatch
<1>10. ASSUME NEW t \in Turns, ChatErr(t) PROVE TakenLast'
  BY <1>1, <1>2, <1>10 DEF ChatErr, CallFails
<1>11. ASSUME NEW t \in Turns, ChatHears(t) \/ ChatWindowEnds(t) PROVE TakenLast'
  BY <1>1, <1>2, <1>11 DEF ChatHears, ChatWindowEnds
<1>12. ASSUME UNCHANGED <<pc, taken>> PROVE TakenLast'
  BY <1>1, <1>12 DEF TakenLast
<1>13. ASSUME NEW t \in Turns, Lock(t) \/ WatchLock(t) \/ WatchPoll(t) PROVE TakenLast'
  BY <1>12, <1>13 DEF Lock, WatchLock, WatchPoll
<1>14. CASE MainStep \/ Daemon \/ UNCHANGED vars
  BY <1>12, <1>14 DEF MainStep, PrimaryReturns, GraceDone, GraceExpires, Join, CtxEnds,
                    WaitTick, WaitEnds, Daemon, AgentStarts, Announce, AgentEnds, RunEnds, vars
<1> QED
  BY <1>4, <1>5, <1>6, <1>7, <1>8, <1>9, <1>10, <1>11, <1>13, <1>14
     DEF Next, TurnStep, Finished

LEMMA Inductive == Spec => []IInv
<1>1. IInv /\ [Next]_vars => IInv'
  BY StepTyped, StepEventSet, StepAllJoined, StepOffering, StepNotQuiet, StepTakenLast
     DEF IInv
<1> QED BY InitIInv, <1>1, PTL DEF Spec

(* Every state of the scheduled turns is well typed: no path runs past its *)
(* last candidate, and the wait ends with the quiet period.                *)
THEOREM TypeCorrect == Spec => []TypeOK
<1>1. IInv => TypeOK
  BY TypedIsTypeOK DEF IInv
<1> QED BY Inductive, <1>1, PTL

(* When RunTask counts the accepted turns and reads their TurnEvents, no   *)
(* goroutine writes to them any more, and each of them tells its outcome.  *)
THEOREM EventsAreFinal == Spec => []TurnsRecorded
<1>1. IInv => TurnsRecorded
  BY DEF IInv, EventSet, AllJoined, AllDone, TurnsRecorded
<1> QED BY Inductive, <1>1, PTL

(* As long as no call fails or outlasts its window, the three paths deliver *)
(* a turn's message once at most, whenever the ctx ends.                   *)
THEOREM AtMostOnce == Spec => []DeliveredOnce
<1>1. IInv => DeliveredOnce
  <2> SUFFICES ASSUME TakenLast, faults = 0, NEW t \in Turns PROVE taken[t] <= 1
    BY DEF IInv, DeliveredOnce
  <2>1. taken[t] = 0 \/ taken[t] = 1
    BY DEF TakenLast
  <2> QED BY <2>1
<1> QED BY Inductive, <1>1, PTL
=============================================================================
