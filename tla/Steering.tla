------------------------------- MODULE Steering -------------------------------
(***************************************************************************)
(* The scheduled turns of a task (scheduleTurns): one goroutine per turn    *)
(* waits out its delay and delivers its message by chat.steer, then         *)
(* chat.followup, then a plain chat, all over one forked Client, whose      *)
(* mutex each RPC holds.  Around them RunTask's primary chat, the grace     *)
(* window after it, and waitForTurnRuns.                                    *)
(*                                                                         *)
(* The daemon is external: its loop registers a steering queue under one    *)
(* conversation id, announces that id, ends some time, runs what a chat     *)
(* submits, and reports the end of such a run with a chat_message.  Loops   *)
(* of other clients' sessions announce theirs to the same subscribers.      *)
(***************************************************************************)
EXTENDS Naturals, Sequences

CONSTANTS
  Turns,
  QuietPolls,  \* const quietPolls
  MaxFaults,   \* bound: calls that fail or outlast their window
  Free         \* nobody holds the forked client's mutex

ASSUME SteeringAssumption ==
  QuietPolls \in Nat \ {0} /\ MaxFaults \in Nat

(* Conversation ids: the thread of a topic, which only the announcement    *)
(* tells; the derived default thread; the session's own; one of another     *)
(* client's session.                                                       *)
OwnConversations == {"topic", "general", "raw"}
Conversations == OwnConversations \cup {"foreign"}

Rpcs == {"steer", "followup", "subscribe", "chat", "unsubscribe"}

VARIABLES
  main,        \* RunTask: "chat", "grace", "join", "wait", "check"
  sctx,        \* turnCtx: "live", "deadline", "cancelled"
  subscribed,  \* RunTask's bus subscription
  quiet,       \* waitForTurnRuns' counter
  once,        \* steerTarget: "unset", "none", or the id it resolved to
  pc,          \* each turn: "delay", one of Rpcs, "replies", "done"
  ids, tried,  \* its candidate conversations; how many its path has tried
  accepted, failed, \* its TurnEvent: Accepted, and whether Error was set
  subs,        \* turns whose chat has a subscription
  watching,    \* turns whose chat has a watcher goroutine
  heard,       \* turns whose watcher saw an assistant message
  mu,          \* the holder: <<turn, "call">> or <<turn, "watch">>
  agent,       \* the primary loop: "queued", "running", "over"
  loop,        \* the conversation loops register under
  announced,   \* the id that is first in resolvedConv, or "none"
  run,         \* the run a chat dispatched: "none", "running", "over"
  reported,    \* a run's end was pushed as a chat_message
  taken,       \* how often the daemon took each turn's message
  faults

mainVars   == <<main, sctx, subscribed, quiet>>
eventVars  == <<accepted, failed>>
watchVars  == <<subs, watching, heard>>
daemonVars == <<agent, loop, announced, run, reported>>
vars == <<mainVars, once, pc, ids, tried, eventVars, watchVars, mu, daemonVars,
          taken, faults>>

Init ==
  /\ main = "chat" /\ sctx = "live" /\ subscribed = TRUE /\ quiet = 0
  /\ once = "unset"
  /\ pc = [t \in Turns |-> "delay"]
  /\ ids = [t \in Turns |-> <<>>] /\ tried = [t \in Turns |-> 0]
  /\ accepted = [t \in Turns |-> FALSE] /\ failed = accepted
  /\ subs = {} /\ watching = {} /\ heard = {}
  /\ mu = Free
  /\ agent = "queued" /\ loop \in OwnConversations /\ announced = "none"
  /\ run = [t \in Turns |-> "none"] /\ reported = FALSE
  /\ taken = [t \in Turns |-> 0]
  /\ faults = 0

-----------------------------------------------------------------------------
GoTo(t, p) == pc' = [pc EXCEPT ![t] = p]

(* The call returns: the deferred mu.Unlock. *)
Resume(t, p) == GoTo(t, p) /\ mu' = Free

Calling(t, p) == pc[t] = p /\ mu = <<t, "call">>

Fault == faults < MaxFaults /\ faults' = faults + 1

(* A call fails when its ctx ends with sctx, or for a fault of its own     *)
(* (its own window included); its request may have reached the daemon.     *)
CallFails(t) ==
  /\ (sctx # "live" /\ UNCHANGED faults) \/ Fault
  /\ (taken' = [taken EXCEPT ![t] = @ + 1]) \/ UNCHANGED taken

Takes(t) == taken' = [taken EXCEPT ![t] = @ + 1]

(* The TurnEvent: Accepted set; Error set; a chat that was answered clears *)
(* the Error an earlier path left, one whose reply is pending sets it.     *)
Accept(t) == accepted' = [accepted EXCEPT ![t] = TRUE] /\ UNCHANGED failed
Reject(t) == failed' = [failed EXCEPT ![t] = TRUE] /\ UNCHANGED accepted
Answered(t) == /\ accepted' = [accepted EXCEPT ![t] = TRUE]
               /\ failed' = [failed EXCEPT ![t] = FALSE]
Pending(t) == /\ accepted' = [accepted EXCEPT ![t] = TRUE]
              /\ failed' = [failed EXCEPT ![t] = TRUE]

Lock(t) ==
  /\ pc[t] \in Rpcs /\ mu = Free
  /\ mu' = <<t, "call">>
  /\ UNCHANGED <<mainVars, once, pc, ids, tried, eventVars, watchVars, daemonVars,
                 taken, faults>>

(* A loop of the session has an active steering queue under id. *)
Active(id) ==
  id = loop /\ (agent = "running" \/ \E t \in Turns : run[t] = "running")

(* What the daemon may find under id: other clients' loops come and go.    *)
Queues(id) == IF id = "foreign" THEN BOOLEAN ELSE {Active(id)}

-----------------------------------------------------------------------------
(* steerTarget.ids: once caches what resolvedConv holds at the first call. *)
Resolve ==
  once' = IF once # "unset" THEN once ELSE announced

Candidates == (IF once' = "none" THEN <<>> ELSE <<once'>>) \o <<"general", "raw">>

(* The delay is over (a turn without delay looks at no ctx). *)
Deliver(t) ==
  /\ pc[t] = "delay"
  /\ Resolve
  /\ ids' = [ids EXCEPT ![t] = Candidates]
  /\ GoTo(t, "steer")
  /\ UNCHANGED <<mainVars, tried, eventVars, watchVars, mu, daemonVars, taken, faults>>

DelayCancelled(t) ==
  /\ pc[t] = "delay" /\ sctx # "live"
  /\ Reject(t)
  /\ GoTo(t, "done")
  /\ UNCHANGED <<mainVars, once, ids, tried, watchVars, mu, daemonVars, taken, faults>>

NextPath(p) == IF p = "steer" THEN "followup" ELSE "subscribe"

(* On to the next path, or done: the loop over the candidates is left. *)
StartPath(t, p) == tried' = [tried EXCEPT ![t] = 0] /\ Resume(t, p)

(* chat.steer or chat.followup on the next candidate: queued, or the       *)
(* daemon knows no queue there, which is no reason to go on once the ctx   *)
(* has ended.                                                              *)
Queue(t, p) ==
  /\ Calling(t, p)
  /\ \E active \in Queues(ids[t][tried[t] + 1]) : LET next == tried[t] + 1 IN
       IF active
         THEN Takes(t) /\ Accept(t) /\ StartPath(t, "done")
         ELSE /\ Reject(t) /\ UNCHANGED taken
              /\ IF sctx # "live" THEN StartPath(t, "done")
                 ELSE IF next = Len(ids[t]) THEN StartPath(t, NextPath(p))
                 ELSE tried' = [tried EXCEPT ![t] = next] /\ Resume(t, p)
  /\ UNCHANGED <<mainVars, once, ids, watchVars, daemonVars, faults>>

(* Mutant: the ended ctx is not looked at before the next path is tried. *)
QueueErrNoAbort(t, p) ==
  /\ Calling(t, p)
  /\ CallFails(t)
  /\ Reject(t)
  /\ StartPath(t, NextPath(p))
  /\ UNCHANGED <<mainVars, once, ids, watchVars, daemonVars>>

(* Another error: an ended ctx aborts the delivery, else the next path. *)
QueueErr(t, p) ==
  /\ Calling(t, p)
  /\ CallFails(t)
  /\ Reject(t)
  /\ StartPath(t, IF sctx # "live" THEN "done" ELSE NextPath(p))
  /\ UNCHANGED <<mainVars, once, ids, watchVars, daemonVars>>

-----------------------------------------------------------------------------
(* Chat.  Without a subscription it goes on all the same. *)
ChatSubscribe(t) ==
  /\ Calling(t, "subscribe")
  /\ \/ subs' = subs \cup {t} /\ watching' = watching \cup {t} /\ UNCHANGED faults
     \/ Fault /\ UNCHANGED <<subs, watching>>
  /\ Resume(t, "chat")
  /\ UNCHANGED <<mainVars, once, ids, tried, eventVars, heard, daemonVars, taken>>

(* Chat returns: its channel is gone; the deferred Unsubscribe, if any. *)
LeaveChat(t) ==
  heard' = heard \ {t} /\ GoTo(t, IF t \in subs THEN "unsubscribe" ELSE "done")

Dispatch(t) ==
  Takes(t) /\ run' = [run EXCEPT ![t] = "running"]

(* The chat RPC is answered with a reply, or with an error of the agent. *)
ChatReply(t) ==
  /\ Calling(t, "chat")
  /\ Dispatch(t)
  /\ Answered(t) \/ Reject(t)
  /\ LeaveChat(t) /\ mu' = Free
  /\ UNCHANGED <<mainVars, once, ids, tried, subs, watching, agent, loop, announced,
                 reported, faults>>

(* It is answered with the proxy's timeout: the run goes on. *)
ChatProxyTimeout(t) ==
  /\ Calling(t, "chat")
  /\ Dispatch(t)
  /\ IF t \in subs THEN Resume(t, "replies") /\ UNCHANGED eventVars
                   ELSE Resume(t, "done") /\ Answered(t)
  /\ UNCHANGED <<mainVars, once, ids, tried, watchVars, agent, loop, announced,
                 reported, faults>>

(* It fails, or the daemon rejects it: a chat with a subscription waits    *)
(* for a reply on the bus whatever the error was.                          *)
ChatErr(t) ==
  /\ Calling(t, "chat")
  /\ \/ CallFails(t)
     \/ UNCHANGED <<taken, faults>>
  /\ run' = IF taken' = taken THEN run ELSE [run EXCEPT ![t] = "running"]
  /\ IF t \in subs THEN Resume(t, "replies") /\ UNCHANGED eventVars
                   ELSE Resume(t, "done") /\ Reject(t)
  /\ UNCHANGED <<mainVars, once, ids, tried, watchVars, agent, loop, announced, reported>>

(* The first assistant message on the conversation, whoever it answers. *)
ChatHears(t) ==
  /\ pc[t] = "replies" /\ t \in heard
  /\ Answered(t) \/ Reject(t)
  /\ LeaveChat(t)
  /\ UNCHANGED <<mainVars, once, ids, tried, subs, watching, mu, daemonVars, taken, faults>>

(* ctx ends: by its window or sctx's deadline, which isChatDispatchTimeout *)
(* takes for a dispatched message, or by a cancel, which it does not.      *)
ChatWindowEnds(t) ==
  /\ pc[t] = "replies"
  /\ Pending(t) \/ (sctx = "cancelled" /\ Reject(t))
  /\ LeaveChat(t)
  /\ UNCHANGED <<mainVars, once, ids, tried, subs, watching, mu, daemonVars, taken, faults>>

ChatUnsubscribe(t) ==
  /\ Calling(t, "unsubscribe")
  /\ (subs' = subs \ {t} /\ UNCHANGED faults) \/ (Fault /\ UNCHANGED subs)
  /\ Resume(t, "done")
  /\ UNCHANGED <<mainVars, once, ids, tried, eventVars, watching, heard, daemonVars, taken>>

(* The watcher goroutine polls without a pause and with no ctx, until a    *)
(* poll fails; so it outlives its Chat, which then reads no reply of it.    *)
(* RunTask closes the forked client in the end: the model stops before.    *)
WatchLock(t) ==
  /\ t \in watching /\ mu = Free /\ main # "check"
  /\ mu' = <<t, "watch">>
  /\ UNCHANGED <<mainVars, once, pc, ids, tried, eventVars, watchVars, daemonVars,
                 taken, faults>>

WatchPoll(t) ==
  /\ mu = <<t, "watch">> /\ mu' = Free /\ main # "check"
  /\ \/ /\ t \in subs /\ UNCHANGED <<watching, faults>>
        /\ (pc[t] \in {"chat", "replies"} /\ heard' = heard \cup {t}) \/ UNCHANGED heard
     \/ /\ watching' = watching \ {t} /\ UNCHANGED heard
        /\ IF t \in subs THEN Fault ELSE UNCHANGED faults
  /\ UNCHANGED <<mainVars, once, pc, ids, tried, eventVars, subs, daemonVars, taken>>

-----------------------------------------------------------------------------
(* RunTask *)
AllDone == \A t \in Turns : pc[t] = "done"

(* Mutant: after the grace window RunTask does not wait for the turns. *)
JoinedNotAwaited == TRUE

(* <-wgDone *)
Joined == AllDone

(* ChatAsync returned and the collector has ended; Unsubscribe. *)
PrimaryReturns ==
  /\ main = "chat"
  /\ main' = "grace"
  /\ (subscribed' = FALSE /\ UNCHANGED faults) \/ (Fault /\ UNCHANGED subscribed)
  /\ UNCHANGED <<sctx, quiet, once, pc, ids, tried, eventVars, watchVars, mu,
                 daemonVars, taken>>

Assemble == main' = IF \E t \in Turns : accepted[t] THEN "wait" ELSE "check"

GraceDone ==
  /\ main = "grace" /\ AllDone
  /\ Assemble
  /\ UNCHANGED <<sctx, subscribed, quiet, once, pc, ids, tried, eventVars, watchVars,
                 mu, daemonVars, taken, faults>>

(* Mutant: the stragglers are not cancelled. *)
GraceExpiresNoCancel ==
  /\ main = "grace"
  /\ main' = "join"
  /\ UNCHANGED <<sctx, subscribed, quiet, once, pc, ids, tried, eventVars, watchVars,
                 mu, daemonVars, taken, faults>>

GraceExpires ==
  /\ main = "grace"
  /\ main' = "join"
  /\ sctx' = IF sctx = "live" THEN "cancelled" ELSE sctx
  /\ UNCHANGED <<subscribed, quiet, once, pc, ids, tried, eventVars, watchVars,
                 mu, daemonVars, taken, faults>>

Join ==
  /\ main = "join" /\ Joined
  /\ Assemble
  /\ UNCHANGED <<sctx, subscribed, quiet, once, pc, ids, tried, eventVars, watchVars,
                 mu, daemonVars, taken, faults>>

(* chatCtx's timeout passes, or the suite's ctx is cancelled. *)
CtxEnds ==
  /\ sctx = "live" /\ main \in {"chat", "grace"}
  /\ sctx' \in {"deadline", "cancelled"}
  /\ UNCHANGED <<main, subscribed, quiet, once, pc, ids, tried, eventVars, watchVars,
                 mu, daemonVars, taken, faults>>

(* Mutant: the quiet period is one poll too long. *)
QuietForLonger(polls) == polls > QuietPolls

(* The queue was inactive for so many polls in a row. *)
QuietFor(polls) == polls >= QuietPolls

(* A tick of waitForTurnRuns: the chat_message first (a poll that fails, as *)
(* one of a subscription that is gone, is passed over), then the queue of   *)
(* the derived thread, which counts as active if it cannot be asked.        *)
WaitTick ==
  /\ main = "wait"
  /\ \/ /\ subscribed /\ reported
        /\ main' = "check" /\ UNCHANGED <<quiet, faults>>
     \/ \E asked \in BOOLEAN :
          /\ faults' = faults + (IF subscribed /\ reported THEN 1 ELSE 0)
                             + (IF asked THEN 0 ELSE 1)
          /\ faults' <= MaxFaults
          /\ IF asked /\ ~Active("general")
               THEN /\ quiet' = quiet + 1
                    /\ main' = IF QuietFor(quiet') THEN "check" ELSE "wait"
               ELSE quiet' = 0 /\ UNCHANGED main
  /\ UNCHANGED <<sctx, subscribed, once, pc, ids, tried, eventVars, watchVars, mu,
                 daemonVars, taken>>

(* Its window passes, or the suite's ctx is cancelled. *)
WaitEnds ==
  /\ main = "wait"
  /\ main' = "check"
  /\ UNCHANGED <<sctx, subscribed, quiet, once, pc, ids, tried, eventVars, watchVars,
                 mu, daemonVars, taken, faults>>

-----------------------------------------------------------------------------
(* The daemon (external) *)
AgentStarts ==
  /\ agent = "queued" /\ agent' = "running"
  /\ UNCHANGED <<mainVars, once, pc, ids, tried, eventVars, watchVars, mu, loop,
                 announced, run, reported, taken, faults>>

(* The collector forwards an id that differs from the session's, whosever   *)
(* loop it is; only the first matters, and only until the first delivery.   *)
Announce ==
  /\ main = "chat" /\ announced = "none" /\ once = "unset"
  /\ \/ agent # "queued" /\ loop # "raw" /\ announced' = loop
     \/ announced' = "foreign"
  /\ UNCHANGED <<mainVars, once, pc, ids, tried, eventVars, watchVars, mu, agent,
                 loop, run, reported, taken, faults>>

(* The end of the primary loop is pushed too; RunTask's collector may have *)
(* polled it before waitForTurnRuns looks.                                 *)
AgentEnds ==
  /\ agent = "running" /\ agent' = "over"
  /\ reported' \in {reported, TRUE}
  /\ UNCHANGED <<mainVars, once, pc, ids, tried, eventVars, watchVars, mu, loop,
                 announced, run, taken, faults>>

RunEnds(t) ==
  /\ run[t] = "running"
  /\ run' = [run EXCEPT ![t] = "over"] /\ reported' = TRUE
  /\ UNCHANGED <<mainVars, once, pc, ids, tried, eventVars, watchVars, mu, agent,
                 loop, announced, taken, faults>>

-----------------------------------------------------------------------------
TurnStep(t) ==
  \/ DelayCancelled(t)
  \/ \E p \in {"steer", "followup"} : Queue(t, p) \/ QueueErr(t, p)
  \/ ChatSubscribe(t) \/ ChatReply(t) \/ ChatProxyTimeout(t) \/ ChatErr(t)
  \/ ChatHears(t) \/ ChatWindowEnds(t) \/ ChatUnsubscribe(t)

MainStep ==
  PrimaryReturns \/ GraceDone \/ GraceExpires \/ Join \/ CtxEnds \/ WaitTick \/ WaitEnds

Daemon ==
  /\ main # "check"
  /\ AgentStarts \/ Announce \/ AgentEnds \/ \E t \in Turns : RunEnds(t)

Finished == main = "check" /\ UNCHANGED vars

Next ==
  \/ \E t \in Turns : Deliver(t) \/ Lock(t) \/ TurnStep(t) \/ WatchLock(t) \/ WatchPoll(t)
  \/ MainStep \/ Daemon \/ Finished

Spec == Init /\ [][Next]_vars

(* Goroutines run, the grace and wait windows pass, the mutex is handed    *)
(* over in turn; the daemon answers (an answer is part of a turn's step),  *)
(* nothing else is assumed of it.  A turn's delay may be as long as it     *)
(* likes: Deliver is not fair.                                             *)
Fairness ==
  /\ \A t \in Turns : WF_vars(TurnStep(t)) /\ SF_vars(Lock(t)) /\ WF_vars(WatchPoll(t))
  /\ WF_vars(GraceExpires) /\ WF_vars(Join) /\ WF_vars(WaitEnds)

FairSpec == Spec /\ Fairness

-----------------------------------------------------------------------------
TypeOK ==
  /\ main \in {"chat", "grace", "join", "wait", "check"}
  /\ sctx \in {"live", "deadline", "cancelled"}
  /\ {subscribed, reported} \subseteq BOOLEAN
  /\ quiet \in 0..QuietPolls
  /\ once \in {"unset", "none"} \cup Conversations
  /\ announced \in {"none"} \cup Conversations
  /\ pc \in [Turns -> Rpcs \cup {"delay", "replies", "done"}]
  /\ ids \in [Turns -> Seq(Conversations)] /\ tried \in [Turns -> Nat]
  /\ \A t \in Turns : tried[t] <= Len(ids[t])
  /\ {accepted, failed} \subseteq [Turns -> BOOLEAN]
  /\ {subs, watching, heard} \subseteq SUBSET Turns
  /\ mu \in {Free} \cup (Turns \X {"call", "watch"})
  /\ agent \in {"queued", "running", "over"}
  /\ loop \in OwnConversations
  /\ run \in [Turns -> {"none", "running", "over"}]
  /\ taken \in [Turns -> Nat]
  /\ faults \in 0..MaxFaults

(* RunTask reads the TurnEvents (and counts the accepted ones) only when   *)
(* no goroutine writes to them any more, and each tells what became of its *)
(* turn.                                                                   *)
TurnsRecorded ==
  main \in {"wait", "check"} =>
    \A t \in Turns : pc[t] = "done" /\ (accepted[t] \/ failed[t])

(* As long as no call fails or times out, the three paths deliver a turn   *)
(* once at most, also when the ctx ends in the middle of a call.           *)
DeliveredOnce ==
  faults = 0 => \A t \in Turns : taken[t] <= 1

(* With a daemon that answers, RunTask gets to its checkers: neither a     *)
(* chat that waits for a reply nor a watcher that polls for ever keeps the *)
(* turns from ending once they are cancelled.                              *)
RunTaskMovesOn == main = "grace" ~> main = "check"

(* TurnEvent's comment: Accepted is true when the daemon reported the      *)
(* message queued.                                                         *)
AcceptedWasTaken ==
  \A t \in Turns : pc[t] = "done" /\ accepted[t] => taken[t] > 0
=============================================================================
