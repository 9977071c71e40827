--------------------------- MODULE RpcClientProofs ---------------------------
(***************************************************************************)
(* The transport is correct for any number of calls, retries, frames and   *)
(* faults.  IInv is the inductive invariant; its conjuncts say why the     *)
(* stream stays aligned:                                                   *)
(*   MutexHeld   a call is inside callLocked iff it holds the mutex        *)
(*   ConnCurrent the live connection is the newest one, and c.reader is    *)
(*               its reader                                                *)
(*   FramesKnown frames exist up to nextID, on connections already dialled *)
(*   Waiting     a waiting call's frame is on the live connection          *)
(*   TakenFrames a goroutine that got a frame took it off the stream       *)
(*   OwnFrame    the goroutine of a waiting call got that call's frame     *)
(***************************************************************************)
EXTENDS RpcClient, TLAPS

MutexHeld == \A c \in Calls : pc[c] \in {"attempt", "await"} <=> mu = c

ConnCurrent == /\ conn # 0 => conn = dialled /\ reader = conn
               /\ hungup \subseteq 1..dialled

FramesKnown ==
  \A i \in Ids : /\ nextID < i => frame[i] = "none" /\ rd[i] = "none"
                 /\ frame[i] = "none" => via[i] = 0 /\ owner[i] = NoCall
                 /\ frame[i] # "none" => via[i] \in 1..dialled /\ owner[i] \in Calls

CurKnown == \A c \in Calls : cur[c] <= nextID

Waiting ==
  \A c \in Calls : pc[c] = "await" =>
    cur[c] \in Ids /\ owner[cur[c]] = c /\ via[cur[c]] = conn /\ conn # 0

TakenFrames ==
  \A i \in Ids : rd[i] = "got" => got[i] \in Ids /\ frame[got[i]] = "taken"

OwnFrame ==
  \A c \in Calls : pc[c] = "await" /\ rd[cur[c]] = "got" => got[cur[c]] = cur[c]

Outcomes ==
  \A c \in Calls :
    /\ outcome[c] # "none" => pc[c] = "done"
    /\ outcome[c] = "ok" => cur[c] \in Ids
    /\ pc[c] = "idle" => cur[c] = 0

IInv == /\ TypeOK /\ MutexHeld /\ ConnCurrent /\ FramesKnown /\ CurKnown
        /\ Waiting /\ TakenFrames /\ OwnFrame /\ Outcomes
        /\ StreamAligned /\ OwnReply

-----------------------------------------------------------------------------
(* A step keeps the types. *)
LEMMA StepTypeOK == TypeOK /\ [Next]_vars => TypeOK'
<1> SUFFICES ASSUME TypeOK, [Next]_vars PROVE TypeOK'
  OBVIOUS
<1> USE RpcAssumption DEF Ids, TypeOK, clientVars, callVars, wireVars, readVars
<1>1. ASSUME NEW c \in Calls, Invoke(c) PROVE TypeOK'
  <2>1. CallsTyped'
    BY <1>1 DEF CallsTyped, Invoke
  <2>2. ClientTyped'
    BY <1>1 DEF ClientTyped, Invoke
  <2>3. WireTyped'
    BY <1>1 DEF WireTyped, Invoke
  <2>4. ReadersTyped'
    BY <1>1 DEF ReadersTyped, Invoke
  <2> QED BY <2>1, <2>2, <2>3, <2>4
<1>2. ASSUME NEW c \in Calls, Expire(c) PROVE TypeOK'
  <2>1. CallsTyped'
    BY <1>2 DEF CallsTyped, Expire
  <2>2. ClientTyped'
    BY <1>2 DEF ClientTyped, Expire
  <2>3. WireTyped'
    BY <1>2 DEF WireTyped, Expire
  <2>4. ReadersTyped'
    BY <1>2 DEF ReadersTyped, Expire
  <2> QED BY <2>1, <2>2, <2>3, <2>4
<1>3. ASSUME NEW c \in Calls, Lock(c) PROVE TypeOK'
  <2>1. CallsTyped'
    BY <1>3 DEF CallsTyped, Lock
  <2>2. ClientTyped'
    BY <1>3 DEF ClientTyped, Lock
  <2>3. WireTyped'
    BY <1>3 DEF WireTyped, Lock
  <2>4. ReadersTyped'
    BY <1>3 DEF ReadersTyped, Lock
  <2> QED BY <2>1, <2>2, <2>3, <2>4
<1>4. ASSUME NEW c \in Calls, DialOk(c) PROVE TypeOK'
  <2>1. CallsTyped'
    BY <1>4 DEF CallsTyped, DialOk
  <2>2. ClientTyped'
    BY <1>4 DEF ClientTyped, DialOk
  <2>3. WireTyped'
    BY <1>4 DEF WireTyped, DialOk
  <2>4. ReadersTyped'
    BY <1>4 DEF ReadersTyped, DialOk
  <2> QED BY <2>1, <2>2, <2>3, <2>4
<1>5. ASSUME NEW c \in Calls, DialFail(c) PROVE TypeOK'
  <2>1. CallsTyped'
    BY <1>5 DEF CallsTyped, DialFail, NextAttempt, Return
  <2>2. ClientTyped'
    BY <1>5 DEF ClientTyped, DialFail, NextAttempt, Return
  <2>3. WireTyped'
    BY <1>5 DEF WireTyped, DialFail, NextAttempt, Return
  <2>4. ReadersTyped'
    BY <1>5 DEF ReadersTyped, DialFail, NextAttempt, Return
  <2> QED BY <2>1, <2>2, <2>3, <2>4
<1>6. ASSUME NEW c \in Calls, Write(c) PROVE TypeOK'
  <2>0. nextID + 1 \in Ids /\ nextID + 1 \in 0..MaxFrames /\ conn \in 0..MaxFrames
    BY <1>6 DEF ClientTyped, Write
  <2>1. CallsTyped'
    BY <1>6, <2>0 DEF CallsTyped, Write
  <2>2. ClientTyped'
    BY <1>6, <2>0 DEF ClientTyped, Write
  <2>3. WireTyped'
    BY <1>6, <2>0 DEF WireTyped, Write
  <2>4. ReadersTyped'
    BY <1>6, <2>0 DEF ReadersTyped, Write
  <2> QED BY <2>1, <2>2, <2>3, <2>4
<1>7. ASSUME NEW c \in Calls, WriteFail(c) PROVE TypeOK'
  <2>1. CallsTyped'
    BY <1>7 DEF CallsTyped, WriteFail, Drop, NextAttempt, Return
  <2>2. ClientTyped'
    BY <1>7 DEF ClientTyped, WriteFail, Drop, NextAttempt, Return
  <2>3. WireTyped'
    BY <1>7 DEF WireTyped, WriteFail, Drop, NextAttempt, Return
  <2>4. ReadersTyped'
    BY <1>7 DEF ReadersTyped, WriteFail, Drop, NextAttempt, Return
  <2> QED BY <2>1, <2>2, <2>3, <2>4
<1>8. ASSUME NEW c \in Calls, Receive(c) PROVE TypeOK'
  <2>1. CallsTyped'
    BY <1>8 DEF CallsTyped, Receive, Return
  <2>2. ClientTyped'
    BY <1>8 DEF ClientTyped, Receive, Return
  <2>3. WireTyped'
    BY <1>8 DEF WireTyped, Receive, Return
  <2>4. ReadersTyped'
    BY <1>8 DEF ReadersTyped, Receive, Return
  <2> QED BY <2>1, <2>2, <2>3, <2>4
<1>9. ASSUME NEW c \in Calls, ReceiveErr(c) PROVE TypeOK'
  <2>1. CallsTyped'
    BY <1>9 DEF CallsTyped, ReceiveErr, Drop, NextAttempt, Return
  <2>2. ClientTyped'
    BY <1>9 DEF ClientTyped, ReceiveErr, Drop, NextAttempt, Return
  <2>3. WireTyped'
    BY <1>9 DEF WireTyped, ReceiveErr, Drop, NextAttempt, Return
  <2>4. ReadersTyped'
    BY <1>9 DEF ReadersTyped, ReceiveErr, Drop, NextAttempt, Return
  <2> QED BY <2>1, <2>2, <2>3, <2>4
<1>10. ASSUME NEW c \in Calls, Cancel(c) PROVE TypeOK'
  <2>1. CallsTyped'
    BY <1>10 DEF CallsTyped, Cancel, Drop, Return
  <2>2. ClientTyped'
    BY <1>10 DEF ClientTyped, Cancel, Drop, Return
  <2>3. WireTyped'
    BY <1>10 DEF WireTyped, Cancel, Drop, Return
  <2>4. ReadersTyped'
    BY <1>10 DEF ReadersTyped, Cancel, Drop, Return
  <2> QED BY <2>1, <2>2, <2>3, <2>4
<1>11. ASSUME NEW i \in Ids, Bind(i) PROVE TypeOK'
  <2>1. CallsTyped'
    BY <1>11 DEF CallsTyped, Bind
  <2>2. ClientTyped'
    BY <1>11 DEF ClientTyped, Bind
  <2>3. WireTyped'
    BY <1>11 DEF WireTyped, Bind
  <2>4. ReadersTyped'
    BY <1>11 DEF ReadersTyped, ClientTyped, Bind
  <2> QED BY <2>1, <2>2, <2>3, <2>4
<1>12. ASSUME NEW i \in Ids, Take(i) PROVE TypeOK'
  <2>1. CallsTyped'
    BY <1>12 DEF CallsTyped, Take, Oldest, Stream
  <2>2. ClientTyped'
    BY <1>12 DEF ClientTyped, Take, Oldest, Stream
  <2>3. WireTyped'
    BY <1>12 DEF WireTyped, Take, Oldest, Stream
  <2>4. ReadersTyped'
    BY <1>12 DEF ReadersTyped, Take, Oldest, Stream
  <2> QED BY <2>1, <2>2, <2>3, <2>4
<1>13. ASSUME NEW i \in Ids, Torn(i) PROVE TypeOK'
  <2>1. CallsTyped'
    BY <1>13 DEF CallsTyped, Torn, Oldest, Stream
  <2>2. ClientTyped'
    BY <1>13 DEF ClientTyped, Torn, Oldest, Stream
  <2>3. WireTyped'
    BY <1>13 DEF WireTyped, Torn, Oldest, Stream
  <2>4. ReadersTyped'
    BY <1>13 DEF ReadersTyped, Torn, Oldest, Stream
  <2> QED BY <2>1, <2>2, <2>3, <2>4
<1>14. ASSUME NEW i \in Ids, ReadFail(i) PROVE TypeOK'
  <2>1. CallsTyped'
    BY <1>14 DEF CallsTyped, ReadFail
  <2>2. ClientTyped'
    BY <1>14 DEF ClientTyped, ReadFail
  <2>3. WireTyped'
    BY <1>14 DEF WireTyped, ReadFail
  <2>4. ReadersTyped'
    BY <1>14 DEF ReadersTyped, ReadFail
  <2> QED BY <2>1, <2>2, <2>3, <2>4
<1>15. ASSUME NEW i \in Ids, Run(i) PROVE TypeOK'
  <2>1. CallsTyped'
    BY <1>15 DEF CallsTyped, Run
  <2>2. ClientTyped'
    BY <1>15 DEF ClientTyped, Run
  <2>3. WireTyped'
    BY <1>15 DEF WireTyped, Run
  <2>4. ReadersTyped'
    BY <1>15 DEF ReadersTyped, Run
  <2> QED BY <2>1, <2>2, <2>3, <2>4
<1>16. ASSUME NEW i \in Ids, Respond(i) PROVE TypeOK'
  <2>1. CallsTyped'
    BY <1>16 DEF CallsTyped, Respond
  <2>2. ClientTyped'
    BY <1>16 DEF ClientTyped, Respond
  <2>3. WireTyped'
    BY <1>16 DEF WireTyped, Respond
  <2>4. ReadersTyped'
    BY <1>16 DEF ReadersTyped, Respond
  <2> QED BY <2>1, <2>2, <2>3, <2>4
<1>17. ASSUME NEW k \in Ids, HangUp(k) PROVE TypeOK'
  <2>1. CallsTyped'
    BY <1>17 DEF CallsTyped, HangUp
  <2>2. ClientTyped'
    BY <1>17 DEF ClientTyped, HangUp
  <2>3. WireTyped'
    BY <1>17 DEF WireTyped, HangUp
  <2>4. ReadersTyped'
    BY <1>17 DEF ReadersTyped, HangUp
  <2> QED BY <2>1, <2>2, <2>3, <2>4
<1>18. CASE Close
  <2>1. ClientTyped'
    BY <1>18 DEF Close, ClientTyped
  <2>2. CallsTyped' /\ WireTyped' /\ ReadersTyped'
    BY <1>18 DEF Close, CallsTyped, WireTyped, ReadersTyped
  <2> QED BY <2>1, <2>2
<1>19. CASE UNCHANGED vars
  BY <1>19 DEF vars, CallsTyped, ClientTyped, WireTyped, ReadersTyped
<1> QED
  BY <1>1, <1>2, <1>3, <1>4, <1>5, <1>6, <1>7, <1>8, <1>9,
     <1>10, <1>11, <1>12, <1>13, <1>14, <1>15, <1>16, <1>17, <1>18, <1>19
     DEF Next, Step, Goroutine, Daemon, Finished

(* The transport's variables keep their types. *)
THEOREM TypeCorrect == Spec => []TypeOK
<1>1. Init => TypeOK
  BY RpcAssumption DEF Init, TypeOK, CallsTyped, ClientTyped, WireTyped, ReadersTyped, Ids
<1> QED
  BY <1>1, StepTypeOK, PTL DEF Spec

-----------------------------------------------------------------------------
(* IInv is inductive. *)
LEMMA InitIInv == Init => IInv
  BY RpcAssumption DEF Init, IInv, TypeOK, CallsTyped, ClientTyped, WireTyped, ReadersTyped,
     MutexHeld, ConnCurrent, FramesKnown, CurKnown, Waiting, TakenFrames, OwnFrame,
     Outcomes, StreamAligned, OwnReply, Ids

LEMMA StepIInv == IInv /\ TypeOK' /\ [Next]_vars => IInv'
<1> SUFFICES ASSUME IInv, TypeOK', [Next]_vars PROVE IInv'
  OBVIOUS
<1> USE RpcAssumption DEF IInv, TypeOK, CallsTyped, ClientTyped, WireTyped, ReadersTyped,
        Ids, clientVars, callVars, wireVars, readVars
<1>1. ASSUME NEW c \in Calls, Invoke(c) PROVE IInv'
  <2>1. ConnCurrent' /\ FramesKnown' /\ CurKnown' /\ TakenFrames' /\ OwnReply'
    BY <1>1 DEF Invoke, ConnCurrent, FramesKnown, CurKnown, TakenFrames, OwnReply
  <2>2. MutexHeld'
    BY <1>1 DEF Invoke, MutexHeld
  <2>3. Waiting'
    BY <1>1 DEF Invoke, Waiting, MutexHeld, CurKnown, FramesKnown, ConnCurrent
  <2>4. OwnFrame'
    BY <1>1 DEF Invoke, OwnFrame, Waiting, TakenFrames, MutexHeld, CurKnown
  <2>5. Outcomes'
    BY <1>1 DEF Invoke, Outcomes, Waiting, CurKnown
  <2>6. StreamAligned'
    BY <1>1 DEF Invoke, StreamAligned, Stream, MutexHeld, Waiting, FramesKnown, ConnCurrent
  <2> QED BY <2>1, <2>2, <2>3, <2>4, <2>5, <2>6
<1>2. ASSUME NEW c \in Calls, Expire(c) PROVE IInv'
  <2>1. MutexHeld' /\ ConnCurrent' /\ FramesKnown' /\ CurKnown' /\ Waiting'
        /\ TakenFrames' /\ OwnFrame' /\ Outcomes' /\ StreamAligned' /\ OwnReply'
    BY <1>2 DEF Expire, MutexHeld, ConnCurrent, FramesKnown, CurKnown, Waiting,
       TakenFrames, OwnFrame, Outcomes, StreamAligned, OwnReply, Stream
  <2> QED BY <2>1
<1>3. ASSUME NEW c \in Calls, Lock(c) PROVE IInv'
  <2>1. ConnCurrent' /\ FramesKnown' /\ CurKnown' /\ TakenFrames' /\ OwnReply'
    BY <1>3 DEF Lock, ConnCurrent, FramesKnown, CurKnown, TakenFrames, OwnReply
  <2>2. MutexHeld'
    BY <1>3 DEF Lock, MutexHeld
  <2>3. Waiting'
    BY <1>3 DEF Lock, Waiting, MutexHeld, CurKnown, FramesKnown, ConnCurrent
  <2>4. OwnFrame'
    BY <1>3 DEF Lock, OwnFrame, Waiting, TakenFrames, MutexHeld, CurKnown
  <2>5. Outcomes'
    BY <1>3 DEF Lock, Outcomes, Waiting, CurKnown
  <2>6. StreamAligned'
    BY <1>3 DEF Lock, StreamAligned, Stream, MutexHeld, Waiting, FramesKnown, ConnCurrent
  <2> QED BY <2>1, <2>2, <2>3, <2>4, <2>5, <2>6
<1>4. ASSUME NEW c \in Calls, DialOk(c) PROVE IInv'
  <2>1. MutexHeld' /\ CurKnown' /\ TakenFrames' /\ OwnFrame' /\ Outcomes' /\ OwnReply'
    BY <1>4 DEF DialOk, MutexHeld, CurKnown, TakenFrames, OwnFrame, Outcomes, OwnReply
  <2>2. ConnCurrent'
    BY <1>4 DEF DialOk, ConnCurrent, MutexHeld
  <2>3. FramesKnown'
    BY <1>4 DEF DialOk, FramesKnown, ConnCurrent
  <2>4. Waiting'
    BY <1>4 DEF DialOk, Waiting, MutexHeld, CurKnown, FramesKnown, ConnCurrent
  <2>5. StreamAligned'
    <3>1. \A i \in Ids : via[i] <= dialled
      BY DEF FramesKnown
    <3> QED BY <1>4, <3>1 DEF DialOk, StreamAligned, Stream
  <2> QED BY <2>1, <2>2, <2>3, <2>4, <2>5
<1>5. ASSUME NEW c \in Calls, DialFail(c) PROVE IInv'
  <2>1. ConnCurrent' /\ FramesKnown' /\ CurKnown' /\ TakenFrames'
    BY <1>5 DEF DialFail, NextAttempt, Return, ConnCurrent, FramesKnown, CurKnown,
       TakenFrames
  <2>2. MutexHeld'
    BY <1>5 DEF DialFail, NextAttempt, Return, MutexHeld
  <2>3. Waiting'
    BY <1>5 DEF DialFail, NextAttempt, Return, Waiting, MutexHeld, CurKnown,
       FramesKnown, ConnCurrent
  <2>4. OwnFrame'
    BY <1>5 DEF DialFail, NextAttempt, Return, OwnFrame, Waiting, TakenFrames,
       MutexHeld, CurKnown
  <2>5. Outcomes'
    BY <1>5 DEF DialFail, NextAttempt, Return, Outcomes, Waiting, CurKnown
  <2>6. StreamAligned'
    BY <1>5 DEF DialFail, NextAttempt, Return, StreamAligned, Stream, MutexHeld,
       Waiting, FramesKnown, ConnCurrent
  <2>7. OwnReply'
    BY <1>5 DEF DialFail, NextAttempt, Return, OwnReply, Outcomes, CurKnown, Waiting,
       TakenFrames, OwnFrame, FramesKnown
  <2> QED BY <2>1, <2>2, <2>3, <2>4, <2>5, <2>6, <2>7
<1>6. ASSUME NEW c \in Calls, Write(c) PROVE IInv'
  <2> DEFINE id == nextID + 1
  <2>1. nextID \in Nat /\ id \in Ids /\ frame[id] = "none" /\ id # 0
    BY <1>6 DEF Write, FramesKnown
  <2>2. \A d \in Calls : cur[d] \in Nat /\ cur[d] <= nextID /\ cur[d] # id
    BY <2>1 DEF CurKnown
  <2>3. /\ pc'[c] = "await" /\ cur'[c] = id /\ mu = c /\ mu' = mu
        /\ \A d \in Calls \ {c} : /\ pc'[d] = pc[d] /\ cur'[d] = cur[d]
                                  /\ pc[d] \notin {"attempt", "await"}
        /\ outcome' = outcome /\ nextID' = id
        /\ conn # 0 /\ conn' = conn /\ dialled' = dialled /\ pc[c] = "attempt"
    BY <1>6 DEF Write, MutexHeld
  <2>4. /\ frame'[id] = "request" /\ via'[id] = conn /\ owner'[id] = c
        /\ rd'[id] = "spawned"
        /\ \A i \in Ids \ {id} : /\ frame'[i] = frame[i] /\ via'[i] = via[i]
                                /\ owner'[i] = owner[i] /\ rd'[i] = rd[i]
        /\ got' = got
    BY <1>6, <2>1 DEF Write
  <2> HIDE DEF id, TypeOK
  <2>5. ConnCurrent' /\ MutexHeld'
    BY <1>6 DEF Write, ConnCurrent, MutexHeld
  <2>6. FramesKnown'
    <3>1. conn \in 1..dialled
      BY <2>3 DEF ConnCurrent, TypeOK
    <3> QED BY <2>1, <2>3, <2>4, <3>1 DEF FramesKnown, id
  <2>7. CurKnown'
    BY <2>1, <2>2, <2>3 DEF CurKnown, id
  <2>8. Waiting'
    BY <2>1, <2>2, <2>3, <2>4 DEF Waiting
  <2>9. TakenFrames'
    BY <2>1, <2>4 DEF TakenFrames
  <2>10. OwnFrame'
    BY <2>1, <2>3, <2>4 DEF OwnFrame
  <2>11. Outcomes'
    BY <2>1, <2>3 DEF Outcomes
  <2>12. StreamAligned'
    BY <2>1, <2>3, <2>4 DEF StreamAligned, Stream
  <2>13. OwnReply'
    BY <2>1, <2>2, <2>3, <2>4 DEF OwnReply, Outcomes
  <2> QED BY <2>5, <2>6, <2>7, <2>8, <2>9, <2>10, <2>11, <2>12, <2>13
<1>7. ASSUME NEW c \in Calls, WriteFail(c) PROVE IInv'
  <2>1. /\ mu = c /\ conn' = 0 /\ cur' = cur /\ frame' = frame /\ via' = via
        /\ owner' = owner /\ rd' = rd /\ got' = got
        /\ \A d \in Calls \ {c} : /\ pc'[d] = pc[d] /\ outcome'[d] = outcome[d]
                                  /\ pc[d] \notin {"attempt", "await"}
        /\ pc[c] \in {"attempt", "await"}
    BY <1>7 DEF WriteFail, Drop, NextAttempt, Return, MutexHeld
  <2>2. \/ pc'[c] = "attempt" /\ mu' = c /\ outcome' = outcome
        \/ pc'[c] = "done" /\ mu' = NoCall /\ outcome'[c] \in {"lost", "ctx"}
    <3>1. CASE attempt[c] < MaxRetries
      BY <1>7, <2>1, <3>1 DEF WriteFail, NextAttempt
    <3>2. CASE ~(attempt[c] < MaxRetries)
      BY <1>7, <3>2 DEF WriteFail, NextAttempt, Return
    <3> QED BY <3>1, <3>2
  <2>3. nextID \in Nat /\ nextID' \in Nat /\ nextID' >= nextID /\ dialled' = dialled
        /\ hungup' = hungup
    BY <1>7 DEF WriteFail
  <2> HIDE DEF TypeOK
  <2>4. MutexHeld' /\ ConnCurrent' /\ TakenFrames'
    BY <2>1, <2>2, <2>3 DEF MutexHeld, ConnCurrent, TakenFrames
  <2>5. FramesKnown' /\ CurKnown'
    <3>1. \A i \in Ids : nextID' < i => nextID < i
      BY <2>3
    <3>2. \A d \in Calls : cur[d] <= nextID => cur[d] <= nextID'
      BY <2>3 DEF TypeOK
    <3> QED BY <2>1, <2>3, <3>1, <3>2 DEF FramesKnown, CurKnown
  <2>6. Waiting' /\ OwnFrame' /\ StreamAligned'
    BY <2>1, <2>2 DEF Waiting, OwnFrame, StreamAligned
  <2>7. Outcomes'
    BY <2>1, <2>2 DEF Outcomes
  <2>8. OwnReply'
    BY <2>1, <2>2 DEF OwnReply, Outcomes
  <2> QED BY <2>4, <2>5, <2>6, <2>7, <2>8
<1>8. ASSUME NEW c \in Calls, Receive(c) PROVE IInv'
  <2>1. ConnCurrent' /\ FramesKnown' /\ CurKnown' /\ TakenFrames'
    BY <1>8 DEF Receive, Return, ConnCurrent, FramesKnown, CurKnown, TakenFrames
  <2>2. MutexHeld'
    BY <1>8 DEF Receive, Return, MutexHeld
  <2>3. Waiting'
    BY <1>8 DEF Receive, Return, Waiting, MutexHeld, CurKnown, FramesKnown, ConnCurrent
  <2>4. OwnFrame'
    BY <1>8 DEF Receive, Return, OwnFrame, Waiting, TakenFrames, MutexHeld, CurKnown
  <2>5. Outcomes'
    BY <1>8 DEF Receive, Return, Outcomes, Waiting, CurKnown
  <2>6. StreamAligned'
    <3>1. mu = c /\ pc[c] = "await" /\ cur[c] \in Ids /\ frame[cur[c]] = "taken"
      BY <1>8 DEF Receive, MutexHeld, Waiting, OwnFrame, TakenFrames
    <3>2. conn # 0 => Stream(conn) = {}
      <4> SUFFICES ASSUME conn # 0, NEW i \in Stream(conn) PROVE FALSE
        OBVIOUS
      <4>1. PICK d \in Calls : mu = d /\ cur[d] = i
        BY DEF StreamAligned
      <4>2. i = cur[c] /\ frame[i] # "taken"
        BY <3>1, <4>1 DEF Stream
      <4> QED BY <3>1, <4>2
    <3> QED BY <1>8, <3>2 DEF Receive, StreamAligned, Stream
  <2>7. OwnReply'
    <3>1. pc[c] = "await" /\ owner[cur[c]] = c /\ frame[cur[c]] = "taken"
          /\ got[cur[c]] = cur[c]
      BY <1>8 DEF Receive, Waiting, OwnFrame, TakenFrames
    <3>2. /\ outcome' = [outcome EXCEPT ![c] = "ok"]
          /\ cur' = cur /\ owner' = owner /\ frame' = frame
      BY <1>8, <3>1 DEF Receive, Return
    <3> QED BY <3>1, <3>2 DEF OwnReply
  <2> QED BY <2>1, <2>2, <2>3, <2>4, <2>5, <2>6, <2>7
<1>9. ASSUME NEW c \in Calls, ReceiveErr(c) PROVE IInv'
  <2>1. /\ mu = c /\ conn' = 0 /\ cur' = cur /\ frame' = frame /\ via' = via
        /\ owner' = owner /\ rd' = rd /\ got' = got
        /\ \A d \in Calls \ {c} : /\ pc'[d] = pc[d] /\ outcome'[d] = outcome[d]
                                  /\ pc[d] \notin {"attempt", "await"}
        /\ pc[c] \in {"attempt", "await"}
    BY <1>9 DEF ReceiveErr, Drop, NextAttempt, Return, MutexHeld
  <2>2. \/ pc'[c] = "attempt" /\ mu' = c /\ outcome' = outcome
        \/ pc'[c] = "done" /\ mu' = NoCall /\ outcome'[c] \in {"lost", "ctx"}
    <3>1. CASE attempt[c] < MaxRetries
      BY <1>9, <2>1, <3>1 DEF ReceiveErr, NextAttempt
    <3>2. CASE ~(attempt[c] < MaxRetries)
      BY <1>9, <3>2 DEF ReceiveErr, NextAttempt, Return
    <3> QED BY <3>1, <3>2
  <2>3. nextID \in Nat /\ nextID' \in Nat /\ nextID' >= nextID /\ dialled' = dialled
        /\ hungup' = hungup
    BY <1>9 DEF ReceiveErr
  <2> HIDE DEF TypeOK
  <2>4. MutexHeld' /\ ConnCurrent' /\ TakenFrames'
    BY <2>1, <2>2, <2>3 DEF MutexHeld, ConnCurrent, TakenFrames
  <2>5. FramesKnown' /\ CurKnown'
    <3>1. \A i \in Ids : nextID' < i => nextID < i
      BY <2>3
    <3>2. \A d \in Calls : cur[d] <= nextID => cur[d] <= nextID'
      BY <2>3 DEF TypeOK
    <3> QED BY <2>1, <2>3, <3>1, <3>2 DEF FramesKnown, CurKnown
  <2>6. Waiting' /\ OwnFrame' /\ StreamAligned'
    BY <2>1, <2>2 DEF Waiting, OwnFrame, StreamAligned
  <2>7. Outcomes'
    BY <2>1, <2>2 DEF Outcomes
  <2>8. OwnReply'
    BY <2>1, <2>2 DEF OwnReply, Outcomes
  <2> QED BY <2>4, <2>5, <2>6, <2>7, <2>8
<1>10. ASSUME NEW c \in Calls, Cancel(c) PROVE IInv'
  <2>1. /\ mu = c /\ conn' = 0 /\ cur' = cur /\ frame' = frame /\ via' = via
        /\ owner' = owner /\ rd' = rd /\ got' = got
        /\ \A d \in Calls \ {c} : /\ pc'[d] = pc[d] /\ outcome'[d] = outcome[d]
                                  /\ pc[d] \notin {"attempt", "await"}
        /\ pc[c] \in {"attempt", "await"}
    BY <1>10 DEF Cancel, Drop, Return, MutexHeld
  <2>2. \/ pc'[c] = "attempt" /\ mu' = c /\ outcome' = outcome
        \/ pc'[c] = "done" /\ mu' = NoCall /\ outcome'[c] \in {"lost", "ctx"}
    BY <1>10 DEF Cancel, Drop, Return
  <2>3. nextID \in Nat /\ nextID' \in Nat /\ nextID' >= nextID /\ dialled' = dialled
        /\ hungup' = hungup
    BY <1>10 DEF Cancel
  <2> HIDE DEF TypeOK
  <2>4. MutexHeld' /\ ConnCurrent' /\ TakenFrames'
    BY <2>1, <2>2, <2>3 DEF MutexHeld, ConnCurrent, TakenFrames
  <2>5. FramesKnown' /\ CurKnown'
    <3>1. \A i \in Ids : nextID' < i => nextID < i
      BY <2>3
    <3>2. \A d \in Calls : cur[d] <= nextID => cur[d] <= nextID'
      BY <2>3 DEF TypeOK
    <3> QED BY <2>1, <2>3, <3>1, <3>2 DEF FramesKnown, CurKnown
  <2>6. Waiting' /\ OwnFrame' /\ StreamAligned'
    BY <2>1, <2>2 DEF Waiting, OwnFrame, StreamAligned
  <2>7. Outcomes'
    BY <2>1, <2>2 DEF Outcomes
  <2>8. OwnReply'
    BY <2>1, <2>2 DEF OwnReply, Outcomes
  <2> QED BY <2>4, <2>5, <2>6, <2>7, <2>8
<1>11. ASSUME NEW i \in Ids, Bind(i) PROVE IInv'
  <2>1. MutexHeld' /\ ConnCurrent' /\ CurKnown' /\ Waiting' /\ Outcomes' /\ StreamAligned'
        /\ OwnReply'
    BY <1>11 DEF Bind, MutexHeld, ConnCurrent, CurKnown, Waiting, Outcomes,
       StreamAligned, OwnReply, Stream
  <2>2. FramesKnown'
    BY <1>11 DEF Bind, FramesKnown, ConnCurrent
  <2>3. TakenFrames'
    BY <1>11 DEF Bind, TakenFrames, FramesKnown
  <2>4. OwnFrame'
    BY <1>11 DEF Bind, OwnFrame, Waiting, TakenFrames, MutexHeld, CurKnown
  <2> QED BY <2>1, <2>2, <2>3, <2>4
<1>12. ASSUME NEW i \in Ids, Take(i) PROVE IInv'
  <2>0. PICK j \in Stream(conn) : /\ frame[j] = "reply" /\ j \in Ids
                                  /\ frame' = [frame EXCEPT ![j] = "taken"]
                                  /\ got' = [got EXCEPT ![i] = j]
                                  /\ \E d \in Calls : mu = d /\ cur[d] = j
                                     /\ pc[d] = "await"
    <3>1. PICK j \in Oldest(Stream(conn)) : /\ frame[j] = "reply"
                                            /\ frame' = [frame EXCEPT ![j] = "taken"]
                                            /\ got' = [got EXCEPT ![i] = j]
      BY <1>12 DEF Take
    <3>2. j \in Stream(conn) /\ j \in Ids
      BY DEF Oldest, Stream
    <3>3. \E d \in Calls : mu = d /\ cur[d] = j /\ pc[d] = "await"
      BY <1>12, <3>2 DEF Take, StreamAligned
    <3> QED BY <3>1, <3>2, <3>3
  <2>1. MutexHeld' /\ ConnCurrent' /\ CurKnown' /\ Waiting' /\ Outcomes'
    BY <1>12 DEF Take, MutexHeld, ConnCurrent, CurKnown, Waiting, Outcomes
  <2>2. FramesKnown'
    <3>1. /\ rd[i] = "blocked" /\ rd' = [rd EXCEPT ![i] = "got"] /\ nextID' = nextID
          /\ via' = via /\ owner' = owner /\ dialled' = dialled
      BY <1>12 DEF Take
    <3> HIDE DEF TypeOK
    <3>2. WireTyped /\ ReadersTyped
      BY DEF TypeOK
    <3> QED BY <2>0, <3>1, <3>2 DEF FramesKnown
  <2>3. TakenFrames'
    BY <1>12 DEF Take, TakenFrames, FramesKnown, Oldest, Stream
  <2>4. OwnFrame'
    <3>1. \A d \in Calls : pc[d] = "await" /\ cur[d] = i => j = i
      BY <2>0 DEF MutexHeld, Waiting
    <3>2. /\ rd' = [rd EXCEPT ![i] = "got"] /\ pc' = pc /\ cur' = cur
      BY <1>12 DEF Take
    <3>3. \A d \in Calls : pc[d] = "await" => cur[d] \in Ids
      BY DEF Waiting
    <3>4. ReadersTyped
      OBVIOUS
    <3> HIDE DEF TypeOK
    <3> QED BY <2>0, <3>1, <3>2, <3>3, <3>4 DEF OwnFrame
  <2>5. StreamAligned'
    BY <1>12 DEF Take, StreamAligned, Stream, MutexHeld, Waiting, FramesKnown,
       ConnCurrent, Oldest
  <2>6. OwnReply'
    BY <1>12 DEF Take, OwnReply, Outcomes, CurKnown, Waiting, TakenFrames, OwnFrame,
       FramesKnown, Oldest, Stream
  <2> QED BY <2>1, <2>2, <2>3, <2>4, <2>5, <2>6
<1>13. ASSUME NEW i \in Ids, Torn(i) PROVE IInv'
  <2>1. MutexHeld' /\ ConnCurrent' /\ CurKnown' /\ Waiting' /\ Outcomes'
    BY <1>13 DEF Torn, MutexHeld, ConnCurrent, CurKnown, Waiting, Outcomes
  <2>2. FramesKnown'
    <3>1. PICK j \in Ids : frame[j] = "reply" /\ frame' = [frame EXCEPT ![j] = "taken"]
      BY <1>13 DEF Torn, Oldest, Stream
    <3>2. \A r \in Ids : rd'[r] = rd[r] \/ rd[r] = "blocked"
      BY <1>13 DEF Torn, Readers
    <3>3. nextID' = nextID /\ via' = via /\ owner' = owner /\ dialled' = dialled
      BY <1>13 DEF Torn
    <3>4. WireTyped
      OBVIOUS
    <3> HIDE DEF TypeOK
    <3> QED BY <3>1, <3>2, <3>3, <3>4 DEF FramesKnown
  <2>3. TakenFrames'
    BY <1>13 DEF Torn, TakenFrames, FramesKnown, Oldest, Stream
  <2>4. OwnFrame'
    BY <1>13 DEF Torn, OwnFrame, Waiting, TakenFrames, MutexHeld, CurKnown, Oldest, Stream
  <2>5. StreamAligned'
    BY <1>13 DEF Torn, StreamAligned, Stream, MutexHeld, Waiting, FramesKnown,
       ConnCurrent, Oldest
  <2>6. OwnReply'
    BY <1>13 DEF Torn, OwnReply, Outcomes, CurKnown, Waiting, TakenFrames, OwnFrame,
       FramesKnown, Oldest, Stream
  <2> QED BY <2>1, <2>2, <2>3, <2>4, <2>5, <2>6
<1>14. ASSUME NEW i \in Ids, ReadFail(i) PROVE IInv'
  <2>1. MutexHeld' /\ ConnCurrent' /\ CurKnown' /\ Waiting' /\ Outcomes' /\ StreamAligned'
        /\ OwnReply'
    BY <1>14 DEF ReadFail, MutexHeld, ConnCurrent, CurKnown, Waiting, Outcomes,
       StreamAligned, OwnReply, Stream
  <2>2. FramesKnown'
    BY <1>14 DEF ReadFail, FramesKnown, ConnCurrent
  <2>3. TakenFrames'
    BY <1>14 DEF ReadFail, TakenFrames, FramesKnown
  <2>4. OwnFrame'
    BY <1>14 DEF ReadFail, OwnFrame, Waiting, TakenFrames, MutexHeld, CurKnown
  <2> QED BY <2>1, <2>2, <2>3, <2>4
<1>15. ASSUME NEW i \in Ids, Run(i) PROVE IInv'
  <2>1. MutexHeld' /\ ConnCurrent' /\ CurKnown' /\ Waiting' /\ OwnFrame' /\ Outcomes'
    BY <1>15 DEF Run, MutexHeld, ConnCurrent, CurKnown, Waiting, OwnFrame, Outcomes
  <2>2. FramesKnown'
    BY <1>15 DEF Run, FramesKnown, ConnCurrent, Oldest, Stream
  <2>3. TakenFrames'
    BY <1>15 DEF Run, TakenFrames, FramesKnown, Oldest, Stream
  <2>4. StreamAligned'
    BY <1>15 DEF Run, StreamAligned, Stream, MutexHeld, Waiting, FramesKnown,
       ConnCurrent, Oldest
  <2>5. OwnReply'
    BY <1>15 DEF Run, OwnReply, Outcomes, CurKnown, Waiting, TakenFrames, OwnFrame,
       FramesKnown, Oldest, Stream
  <2> QED BY <2>1, <2>2, <2>3, <2>4, <2>5
<1>16. ASSUME NEW i \in Ids, Respond(i) PROVE IInv'
  <2>1. MutexHeld' /\ ConnCurrent' /\ CurKnown' /\ Waiting' /\ OwnFrame' /\ Outcomes'
    BY <1>16 DEF Respond, MutexHeld, ConnCurrent, CurKnown, Waiting, OwnFrame, Outcomes
  <2>2. FramesKnown'
    BY <1>16 DEF Respond, FramesKnown, ConnCurrent
  <2>3. TakenFrames'
    BY <1>16 DEF Respond, TakenFrames, FramesKnown
  <2>4. StreamAligned'
    BY <1>16 DEF Respond, StreamAligned, Stream, MutexHeld, Waiting, FramesKnown,
       ConnCurrent
  <2>5. OwnReply'
    BY <1>16 DEF Respond, OwnReply, Outcomes, CurKnown, Waiting, TakenFrames,
       OwnFrame, FramesKnown
  <2> QED BY <2>1, <2>2, <2>3, <2>4, <2>5
<1>17. ASSUME NEW k \in Ids, HangUp(k) PROVE IInv'
  <2>1. MutexHeld' /\ FramesKnown' /\ CurKnown' /\ Waiting' /\ TakenFrames' /\ OwnFrame'
        /\ Outcomes' /\ StreamAligned' /\ OwnReply'
    BY <1>17 DEF HangUp, MutexHeld, FramesKnown, CurKnown, Waiting, TakenFrames,
       OwnFrame, Outcomes, StreamAligned, OwnReply, Stream
  <2>2. ConnCurrent'
    BY <1>17 DEF HangUp, ConnCurrent, MutexHeld
  <2> QED BY <2>1, <2>2
<1>18. CASE Close
  <2>1. MutexHeld' /\ FramesKnown' /\ CurKnown' /\ TakenFrames' /\ OwnFrame' /\ Outcomes'
        /\ OwnReply'
    BY <1>18 DEF Close, MutexHeld, FramesKnown, CurKnown, TakenFrames, OwnFrame,
       Outcomes, OwnReply
  <2>2. ConnCurrent'
    BY <1>18 DEF Close, ConnCurrent, MutexHeld
  <2>3. Waiting'
    BY <1>18 DEF Close, Waiting, MutexHeld, CurKnown, FramesKnown, ConnCurrent
  <2>4. StreamAligned'
    BY <1>18 DEF Close, StreamAligned, Stream, MutexHeld, Waiting, FramesKnown, ConnCurrent
  <2> QED BY <2>1, <2>2, <2>3, <2>4
<1>19. CASE UNCHANGED vars
  BY <1>19 DEF vars, MutexHeld, ConnCurrent, FramesKnown, CurKnown, Waiting,
     TakenFrames, OwnFrame, Outcomes, StreamAligned, OwnReply, Stream
<1> QED
  BY <1>1, <1>2, <1>3, <1>4, <1>5, <1>6, <1>7, <1>8, <1>9,
     <1>10, <1>11, <1>12, <1>13, <1>14, <1>15, <1>16, <1>17, <1>18, <1>19
     DEF Next, Step, Goroutine, Daemon, Finished

(* IInv holds of every behaviour. *)
LEMMA Inductive == Spec => []IInv
<1>1. TypeOK /\ [Next]_vars => TypeOK'
  BY StepTypeOK
<1>2. IInv => TypeOK
  BY DEF IInv
<1> QED
  BY <1>1, <1>2, InitIInv, StepIInv, PTL DEF Spec

(* Client.Call: drop on cancel and on error keeps the stream aligned: no   *)
(* call finds another call's reply in front of its own.                    *)
THEOREM StreamStaysAligned == Spec => []StreamAligned
<1>1. IInv => StreamAligned
  BY DEF IInv
<1> QED
  BY <1>1, Inductive, PTL

(* Client.Call: a result is the daemon's answer to a frame of this very    *)
(* call, and the id-mismatch error is never returned.                      *)
THEOREM ResultIsOwnReply == Spec => []OwnReply
<1>1. IInv => OwnReply
  BY DEF IInv
<1> QED
  BY <1>1, Inductive, PTL

-----------------------------------------------------------------------------
(* A frame's writer has been called. *)
OwnersInvoked == \A i \in Ids : owner[i] \in Calls => pc[owner[i]] # "idle"

LEMMA StepOwnersInvoked == TypeOK /\ OwnersInvoked /\ [Next]_vars => OwnersInvoked'
<1> SUFFICES ASSUME TypeOK, OwnersInvoked, [Next]_vars PROVE OwnersInvoked'
  OBVIOUS
<1> USE RpcAssumption DEF OwnersInvoked
<1>1. WireTyped /\ CallsTyped
  BY DEF TypeOK
<1>2. (\A d \in Calls : pc[d] # "idle" => pc'[d] # "idle") /\ owner' = owner => OwnersInvoked'
  BY <1>1 DEF WireTyped
<1>3. ASSUME NEW c \in Calls, Invoke(c) \/ Expire(c) \/ Lock(c) PROVE OwnersInvoked'
  BY <1>1, <1>2, <1>3 DEF Invoke, Expire, Lock, CallsTyped, callVars, wireVars
<1>4. ASSUME NEW c \in Calls, Step(c) PROVE OwnersInvoked'
  <2>1. CASE Write(c)
    BY <2>1, <1>1 DEF Write, CallsTyped, WireTyped
  <2>2. CASE DialOk(c) \/ DialFail(c)
    BY <2>2, <1>1, <1>2
       DEF DialOk, DialFail, NextAttempt, Return, CallsTyped, callVars, wireVars
  <2>3. CASE WriteFail(c) \/ Receive(c)
    BY <2>3, <1>1, <1>2
       DEF WriteFail, Receive, NextAttempt, Return, CallsTyped, wireVars
  <2>4. CASE ReceiveErr(c) \/ Cancel(c)
    BY <2>4, <1>1, <1>2
       DEF ReceiveErr, Cancel, NextAttempt, Return, CallsTyped, wireVars
  <2> QED BY <1>4, <2>1, <2>2, <2>3, <2>4 DEF Step
<1>5. CASE \E i \in Ids : Goroutine(i) \/ Daemon(i)
  BY <1>5, <1>2
     DEF Goroutine, Bind, Take, Torn, ReadFail, Daemon, Run, Respond, callVars, wireVars
<1>6. CASE (\E k \in Ids : HangUp(k)) \/ Close \/ UNCHANGED vars
  BY <1>6, <1>2 DEF HangUp, Close, vars, callVars, wireVars
<1> QED
  BY <1>3, <1>4, <1>5, <1>6 DEF Next, Finished

LEMMA InitPromise == Init => Promise!Init
  BY DEF Init, Promise!Init, PhaseOf, RanFrames

LEMMA StepPromise ==
  IInv /\ OwnersInvoked /\ [Next]_vars => [Promise!Next]_(Promise!promiseVars)
<1> SUFFICES ASSUME IInv, OwnersInvoked, [Next]_vars
             PROVE  [Promise!Next]_(Promise!promiseVars)
  OBVIOUS
<1> DEFINE phase == [c \in Calls |-> PhaseOf(c)]
           ran == {owner[i] : i \in RanFrames}
<1> USE RpcAssumption DEF clientVars, callVars, wireVars, readVars
<1>1. CallsTyped /\ WireTyped
  BY DEF IInv, TypeOK
<1>2. phase' = phase /\ ran' = ran => UNCHANGED Promise!promiseVars
  BY DEF Promise!promiseVars
<1>3. frame' = frame /\ owner' = owner => ran' = ran
  BY DEF RanFrames
<1>4. pc' = pc /\ outcome' = outcome => phase' = phase
  BY DEF PhaseOf
<1>5. ASSUME NEW c \in Calls, PhaseOf(c) = "pending", ran' = ran, PhaseOf(c)' = "error",
             \A d \in Calls \ {c} : PhaseOf(d)' = PhaseOf(d)
      PROVE  Promise!ReturnError(c)
  BY <1>5 DEF Promise!ReturnError
<1>6. ASSUME NEW c \in Calls, NEW o \in {"dial", "lost", "ctx"}, ran' = ran,
             pc[c] \in {"attempt", "await"}, NextAttempt(c, o) \/ Return(c, o)
      PROVE  [Promise!Next]_(Promise!promiseVars)
  <2>1. CASE Return(c, o)
    <3>1. /\ PhaseOf(c) = "pending" /\ PhaseOf(c)' = "error"
          /\ \A d \in Calls \ {c} : PhaseOf(d)' = PhaseOf(d)
      BY <2>1, <1>1, <1>6 DEF Return, PhaseOf, CallsTyped
    <3> QED BY <3>1, <1>5, <1>6 DEF Promise!Next
  <2>2. CASE attempt[c] < MaxRetries /\ NextAttempt(c, o)
    <3>1. \A d \in Calls : PhaseOf(d)' = PhaseOf(d)
      BY <2>2, <1>1, <1>6 DEF NextAttempt, PhaseOf, CallsTyped
    <3> QED BY <3>1, <1>2, <1>6
  <2> QED BY <2>1, <2>2, <1>6 DEF NextAttempt
<1>7. ASSUME NEW c \in Calls, Invoke(c) PROVE [Promise!Next]_(Promise!promiseVars)
  <2>1. /\ PhaseOf(c) = "idle" /\ PhaseOf(c)' = "pending" /\ ran' = ran
        /\ \A d \in Calls \ {c} : PhaseOf(d)' = PhaseOf(d)
    BY <1>7, <1>1, <1>3 DEF Invoke, PhaseOf, CallsTyped
  <2> QED BY <2>1 DEF Promise!Next, Promise!Invoke
<1>8. ASSUME NEW c \in Calls, Expire(c) \/ Lock(c) \/ DialOk(c)
      PROVE [Promise!Next]_(Promise!promiseVars)
  <2>1. ran' = ran /\ \A d \in Calls : PhaseOf(d)' = PhaseOf(d)
    BY <1>8, <1>1, <1>3 DEF Expire, Lock, DialOk, PhaseOf, CallsTyped
  <2> QED BY <2>1, <1>2
<1>9. ASSUME NEW c \in Calls, Write(c) PROVE [Promise!Next]_(Promise!promiseVars)
  <2>1. \A d \in Calls : PhaseOf(d)' = PhaseOf(d)
    BY <1>9, <1>1 DEF Write, PhaseOf, CallsTyped
  <2>2. frame[nextID + 1] = "none" /\ nextID + 1 \in Ids
    BY <1>9 DEF Write, IInv, FramesKnown, TypeOK, ClientTyped, Ids
  <2>3. RanFrames' = RanFrames /\ \A i \in RanFrames : owner'[i] = owner[i]
    BY <1>9, <1>1, <2>2 DEF Write, RanFrames, WireTyped
  <2>4. ran' = ran
    BY <2>3
  <2> QED BY <2>1, <2>4, <1>2
<1>10. ASSUME NEW c \in Calls, Receive(c) PROVE [Promise!Next]_(Promise!promiseVars)
  <2>1. /\ pc[c] = "await" /\ owner[cur[c]] = c /\ cur[c] \in RanFrames
        /\ Return(c, "ok")
    BY <1>10 DEF Receive, IInv, Waiting, OwnFrame, TakenFrames, RanFrames
  <2>2. /\ PhaseOf(c) = "pending" /\ PhaseOf(c)' = "ok" /\ c \in ran
        /\ \A d \in Calls \ {c} : PhaseOf(d)' = PhaseOf(d)
    BY <2>1, <1>1, <1>10 DEF Receive, Return, PhaseOf, CallsTyped
  <2>3. ran' = ran
    BY <1>10, <1>3 DEF Receive
  <2> QED BY <2>2, <2>3 DEF Promise!Next, Promise!ReturnResult
<1>11. ASSUME NEW c \in Calls, DialFail(c) \/ WriteFail(c) \/ ReceiveErr(c) \/ Cancel(c)
       PROVE [Promise!Next]_(Promise!promiseVars)
  <2>1. ran' = ran /\ pc[c] \in {"attempt", "await"}
    BY <1>11, <1>3 DEF DialFail, WriteFail, ReceiveErr, Cancel
  <2>2. \E o \in {"dial", "lost", "ctx"} : NextAttempt(c, o) \/ Return(c, o)
    BY <1>11 DEF DialFail, WriteFail, ReceiveErr, Cancel
  <2> QED BY <2>1, <2>2, <1>6
<1>12. ASSUME NEW i \in Ids, Run(i) PROVE [Promise!Next]_(Promise!promiseVars)
  <2>1. owner[i] \in Calls /\ frame[i] = "request"
    BY <1>12 DEF Run, IInv, FramesKnown
  <2>2. RanFrames' = RanFrames \cup {i} /\ owner' = owner
    BY <1>12, <1>1 DEF Run, RanFrames, WireTyped
  <2>3. ran' = ran \cup {owner[i]}
    BY <2>2
  <2>4. PhaseOf(owner[i]) # "idle" /\ phase' = phase
    BY <1>4, <1>12, <2>1 DEF OwnersInvoked, PhaseOf, Run
  <2> QED BY <2>1, <2>3, <2>4 DEF Promise!Next, Promise!RunRequest
<1>13. ASSUME NEW i \in Ids, Goroutine(i) \/ Respond(i)
       PROVE [Promise!Next]_(Promise!promiseVars)
  <2>1. RanFrames' = RanFrames /\ owner' = owner
    <3>1. CASE Bind(i) \/ ReadFail(i)
      BY <3>1 DEF Bind, ReadFail, RanFrames
    <3>2. CASE Take(i) \/ Torn(i)
      BY <3>2, <1>1 DEF Take, Torn, RanFrames, Oldest, Stream, WireTyped
    <3>3. CASE Respond(i)
      BY <3>3, <1>1 DEF Respond, RanFrames, WireTyped
    <3> QED BY <1>13, <3>1, <3>2, <3>3 DEF Goroutine
  <2>2. pc' = pc /\ outcome' = outcome
    BY <1>13 DEF Goroutine, Bind, Take, Torn, ReadFail, Respond
  <2> QED BY <2>1, <2>2, <1>2, <1>4
<1>14. CASE (\E k \in Ids : HangUp(k)) \/ Close \/ UNCHANGED vars
  BY <1>14, <1>2, <1>3, <1>4 DEF HangUp, Close, vars
<1> QED
  BY <1>7, <1>8, <1>9, <1>10, <1>11, <1>12, <1>13, <1>14 DEF Next, Step, Daemon, Finished

(* Client.Call implements RpcPromise: to its callers the transport is an   *)
(* at-least-once RPC that returns a result only when the daemon ran it.    *)
THEOREM ClientKeepsPromise == Spec => KeepsPromise
<1>1. Init => OwnersInvoked
  BY RpcAssumption DEF Init, OwnersInvoked
<1>2. IInv => TypeOK
  BY DEF IInv
<1> QED
  BY <1>1, <1>2, InitPromise, StepOwnersInvoked, StepPromise, Inductive, PTL
     DEF Spec, KeepsPromise, Promise!Spec
=============================================================================
