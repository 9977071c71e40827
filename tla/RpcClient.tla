------------------------------ MODULE RpcClient ------------------------------
(***************************************************************************)
(* The transport of internal/daemonclient: one Client, one mutex, one unix *)
(* socket connection at a time, and for every frame written a goroutine    *)
(* that reads one frame back.  Each element of Calls is one invocation of  *)
(* Client.Call from a goroutine of its own (ChatAsync, the seal driver, the *)
(* Collect poller and the scheduled turns all share a Client).             *)
(*                                                                         *)
(* The daemon and the kernel's socket are external: the daemon reads the   *)
(* frames of a connection in order, runs each one, answers it, and may     *)
(* hang up or crash between any two of those steps.                        *)
(*                                                                         *)
(* A frame is identified by its JSON-RPC id.  Ids grow with every frame the *)
(* client writes, so the order of the ids on a connection is the order of  *)
(* the stream; Oldest picks its head.                                      *)
(***************************************************************************)
EXTENDS Naturals, FiniteSets

CONSTANTS
  Calls,        \* invocations of Client.Call
  Cancellable,  \* those whose ctx can end (a deadline or a cancel)
  MaxRetries,   \* const maxRetries
  MaxFrames,    \* bound: JSON-RPC ids (and connections) in one behaviour
  MaxFaults,    \* bound: refused dials and hang-ups in one behaviour
  NoCall        \* the mutex is free

ASSUME RpcAssumption ==
  /\ NoCall \notin Calls
  /\ Cancellable \subseteq Calls
  /\ MaxRetries \in Nat
  /\ MaxFrames \in Nat
  /\ MaxFaults \in Nat

Ids == 1..MaxFrames

VARIABLES
  pc,       \* where each call is: "idle", "locking", "attempt", "await", "done"
  attempt,  \* the loop counter of callLocked
  expired,  \* ctx.Done() has fired
  cur,      \* the id of the frame the call wrote last, 0 before the first
  outcome,  \* what Call returned: "ok", "ctx", "dial", "lost", "mismatch"
  mu,       \* Client.mu: the call holding it
  nextID,   \* Client.nextID
  conn,     \* Client.conn: a connection number, 0 when nil
  reader,   \* Client.reader: the connection its bufio.Reader wraps
  dialled,  \* connections opened so far
  hungup,   \* connections the daemon closed
  frame,    \* each id's frame: "none", "request", "ran", "reply", "taken"
  via,      \* the connection a frame was written to
  owner,    \* the call that wrote it
  rd,       \* each id's reader goroutine: "none", "spawned", "blocked", "got", "failed"
  bound,    \* the connection the goroutine reads, once it evaluated c.reader
  got,      \* the id of the frame it read
  faults

clientVars == <<mu, nextID, conn, reader, dialled>>
callVars   == <<pc, attempt, expired, cur, outcome>>
wireVars   == <<hungup, frame, via, owner>>
readVars   == <<rd, bound, got>>
vars == <<clientVars, callVars, wireVars, readVars, faults>>

Init ==
  /\ pc = [c \in Calls |-> "idle"]
  /\ attempt = [c \in Calls |-> 0]
  /\ expired = [c \in Calls |-> FALSE]
  /\ cur = [c \in Calls |-> 0]
  /\ outcome = [c \in Calls |-> "none"]
  /\ mu = NoCall
  /\ nextID = 0 /\ conn = 0 /\ reader = 0 /\ dialled = 0
  /\ hungup = {}
  /\ frame = [i \in Ids |-> "none"]
  /\ via = [i \in Ids |-> 0]
  /\ owner = [i \in Ids |-> NoCall]
  /\ rd = [i \in Ids |-> "none"]
  /\ bound = [i \in Ids |-> 0]
  /\ got = [i \in Ids |-> 0]
  /\ faults = 0

-----------------------------------------------------------------------------
(* What the daemon still has to do, or the client still has to read, on k. *)
Stream(k) == {i \in Ids : via[i] = k /\ frame[i] \in {"request", "ran", "reply"}}

Oldest(S) == {i \in S : \A j \in S : i <= j}

(* The callee returns to its caller: the deferred mu.Unlock runs. *)
Return(c, o) ==
  /\ pc' = [pc EXCEPT ![c] = "done"]
  /\ outcome' = [outcome EXCEPT ![c] = o]
  /\ mu' = NoCall
  /\ UNCHANGED attempt

(* Mutants: the loop runs once too often; the loop's end returns no error. *)
NextAttemptOffByOne(c, o) ==
  IF attempt[c] <= MaxRetries
    THEN /\ attempt' = [attempt EXCEPT ![c] = @ + 1]
         /\ pc' = [pc EXCEPT ![c] = "attempt"]
         /\ UNCHANGED <<outcome, mu>>
    ELSE Return(c, o)

NextAttemptNoError(c, o) ==
  IF attempt[c] < MaxRetries
    THEN /\ attempt' = [attempt EXCEPT ![c] = @ + 1]
         /\ pc' = [pc EXCEPT ![c] = "attempt"]
         /\ UNCHANGED <<outcome, mu>>
    ELSE Return(c, "ok")

(* `continue` in callLocked: the next attempt, or the end of the loop. *)
NextAttempt(c, o) ==
  IF attempt[c] < MaxRetries
    THEN /\ attempt' = [attempt EXCEPT ![c] = @ + 1]
         /\ pc' = [pc EXCEPT ![c] = "attempt"]
         /\ UNCHANGED <<outcome, mu>>
    ELSE Return(c, o)

(* drop: close the connection and forget it; c.reader keeps its value. *)
Drop == conn' = 0

Invoke(c) ==
  /\ pc[c] = "idle"
  /\ pc' = [pc EXCEPT ![c] = "locking"]
  /\ UNCHANGED <<clientVars, attempt, expired, cur, outcome, wireVars, readVars, faults>>

(* A deadline passes or a cancel func is called, at any time. *)
Expire(c) ==
  /\ c \in Cancellable /\ ~expired[c]
  /\ pc[c] \notin {"idle", "done"}
  /\ expired' = [expired EXCEPT ![c] = TRUE]
  /\ UNCHANGED <<clientVars, pc, attempt, cur, outcome, wireVars, readVars, faults>>

(* Mutant: the call does not take the mutex its callers share. *)
LockUnshared(c) ==
  /\ pc[c] = "locking"
  /\ mu' = c
  /\ pc' = [pc EXCEPT ![c] = "attempt"]
  /\ UNCHANGED <<nextID, conn, reader, dialled, attempt, expired, cur, outcome,
                 wireVars, readVars, faults>>

(* mu.Lock ignores ctx. *)
Lock(c) ==
  /\ pc[c] = "locking" /\ mu = NoCall
  /\ mu' = c
  /\ pc' = [pc EXCEPT ![c] = "attempt"]
  /\ UNCHANGED <<nextID, conn, reader, dialled, attempt, expired, cur, outcome,
                 wireVars, readVars, faults>>

DialOk(c) ==
  /\ pc[c] = "attempt" /\ conn = 0 /\ ~expired[c]
  /\ dialled < MaxFrames
  /\ dialled' = dialled + 1
  /\ conn' = dialled + 1
  /\ reader' = dialled + 1
  /\ UNCHANGED <<mu, nextID, callVars, wireVars, readVars, faults>>

(* DialContext fails at once on an ended ctx; otherwise the daemon is down. *)
DialFail(c) ==
  /\ pc[c] = "attempt" /\ conn = 0
  /\ \/ expired[c] /\ UNCHANGED faults
     \/ ~expired[c] /\ faults < MaxFaults /\ faults' = faults + 1
  /\ NextAttempt(c, "dial")
  /\ UNCHANGED <<nextID, conn, reader, dialled, expired, cur, wireVars, readVars>>

(* writeFrame succeeds and the reader goroutine is started.  ctx is not    *)
(* consulted before the write.                                             *)
Write(c) ==
  /\ pc[c] = "attempt" /\ conn # 0 /\ conn \notin hungup
  /\ nextID < MaxFrames
  /\ LET id == nextID + 1 IN
       /\ nextID' = id
       /\ cur' = [cur EXCEPT ![c] = id]
       /\ frame' = [frame EXCEPT ![id] = "request"]
       /\ via' = [via EXCEPT ![id] = conn]
       /\ owner' = [owner EXCEPT ![id] = c]
       /\ rd' = [rd EXCEPT ![id] = "spawned"]
  /\ pc' = [pc EXCEPT ![c] = "await"]
  /\ UNCHANGED <<mu, conn, reader, dialled, attempt, expired, outcome, hungup,
                 bound, got, faults>>

WriteFail(c) ==
  /\ pc[c] = "attempt" /\ conn # 0 /\ conn \in hungup
  /\ nextID < MaxFrames
  /\ nextID' = nextID + 1
  /\ Drop
  /\ NextAttempt(c, "lost")
  /\ UNCHANGED <<reader, dialled, expired, cur, wireVars, readVars, faults>>

-----------------------------------------------------------------------------
(* The goroutine started for frame i.  It evaluates c.reader when it first *)
(* runs, without the mutex.                                                *)
Bind(i) ==
  /\ rd[i] = "spawned"
  /\ rd' = [rd EXCEPT ![i] = "blocked"]
  /\ bound' = [bound EXCEPT ![i] = reader]
  /\ UNCHANGED <<clientVars, callVars, wireVars, got, faults>>

Readers(k) == {i \in Ids : rd[i] = "blocked" /\ bound[i] = k}

(* The reply at the head of the live connection, read by a goroutine       *)
(* blocked on it.                                                          *)
Take(i) ==
  /\ rd[i] = "blocked" /\ bound[i] = conn /\ conn # 0
  /\ \E j \in Oldest(Stream(conn)) :
       /\ frame[j] = "reply"
       /\ frame' = [frame EXCEPT ![j] = "taken"]
       /\ got' = [got EXCEPT ![i] = j]
  /\ rd' = [rd EXCEPT ![i] = "got"]
  /\ UNCHANGED <<clientVars, callVars, hungup, via, owner, bound, faults>>

(* Two goroutines in one bufio.Reader, which is not safe for concurrent    *)
(* use: each gets part of the frame and some of them fail to parse theirs. *)
Torn(i) ==
  /\ rd[i] = "blocked" /\ bound[i] = conn /\ conn # 0
  /\ Cardinality(Readers(conn)) > 1
  /\ \E j \in Oldest(Stream(conn)) :
       /\ frame[j] = "reply"
       /\ frame' = [frame EXCEPT ![j] = "taken"]
  /\ \E others \in SUBSET (Readers(conn) \ {i}) :
       rd' = [r \in Ids |-> IF r = i \/ r \in others THEN "failed" ELSE rd[r]]
  /\ UNCHANGED <<clientVars, callVars, hungup, via, owner, bound, got, faults>>

(* The connection was closed at this end, or at the daemon's end with      *)
(* nothing left to read.                                                   *)
ReadFail(i) ==
  /\ rd[i] = "blocked"
  /\ \/ bound[i] # conn
     \/ bound[i] \in hungup /\ \A j \in Stream(bound[i]) : frame[j] # "reply"
  /\ rd' = [rd EXCEPT ![i] = "failed"]
  /\ UNCHANGED <<clientVars, callVars, wireVars, bound, got, faults>>

(* case r := <-done with a frame: the id must be the one just written. *)
Receive(c) ==
  /\ pc[c] = "await" /\ rd[cur[c]] = "got"
  /\ Return(c, IF got[cur[c]] = cur[c] THEN "ok" ELSE "mismatch")
  /\ UNCHANGED <<nextID, conn, reader, dialled, expired, cur, wireVars, readVars, faults>>

(* case r := <-done with an error: drop and go round the loop again. *)
ReceiveErr(c) ==
  /\ pc[c] = "await" /\ rd[cur[c]] = "failed"
  /\ Drop
  /\ NextAttempt(c, "lost")
  /\ UNCHANGED <<nextID, reader, dialled, expired, cur, wireVars, readVars, faults>>

(* Mutants: a cancelled call leaves the connection open; ctx is looked at  *)
(* before the write only.                                                  *)
CancelKeepsConn(c) ==
  /\ pc[c] = "await" /\ expired[c]
  /\ Return(c, "ctx")
  /\ UNCHANGED <<nextID, conn, reader, dialled, expired, cur, wireVars, readVars, faults>>

CancelBeforeWrite(c) ==
  /\ pc[c] = "attempt" /\ expired[c]
  /\ Drop
  /\ Return(c, "ctx")
  /\ UNCHANGED <<nextID, reader, dialled, expired, cur, wireVars, readVars, faults>>

(* case <-ctx.Done(): select picks it even when done is ready too. *)
Cancel(c) ==
  /\ pc[c] = "await" /\ expired[c]
  /\ Drop
  /\ Return(c, "ctx")
  /\ UNCHANGED <<nextID, reader, dialled, expired, cur, wireVars, readVars, faults>>

(* Client.Close, from any goroutine that gets the mutex. *)
Close ==
  /\ mu = NoCall /\ conn # 0
  /\ conn' = 0
  /\ UNCHANGED <<mu, nextID, reader, dialled, callVars, wireVars, readVars, faults>>

-----------------------------------------------------------------------------
(* The daemon (external).  It still sees what was written before the       *)
(* client closed its end.                                                  *)
Run(i) ==
  /\ i \in Oldest(Stream(via[i])) /\ frame[i] = "request" /\ via[i] \notin hungup
  /\ frame' = [frame EXCEPT ![i] = "ran"]
  /\ UNCHANGED <<clientVars, callVars, hungup, via, owner, readVars, faults>>

Respond(i) ==
  /\ frame[i] = "ran" /\ via[i] \notin hungup
  /\ frame' = [frame EXCEPT ![i] = "reply"]
  /\ UNCHANGED <<clientVars, callVars, hungup, via, owner, readVars, faults>>

HangUp(k) ==
  /\ k \in 1..dialled /\ k \notin hungup /\ faults < MaxFaults
  /\ hungup' = hungup \cup {k}
  /\ faults' = faults + 1
  /\ UNCHANGED <<clientVars, callVars, frame, via, owner, readVars>>

-----------------------------------------------------------------------------
Step(c) ==
  \/ DialOk(c) \/ DialFail(c) \/ Write(c) \/ WriteFail(c)
  \/ Receive(c) \/ ReceiveErr(c) \/ Cancel(c)

Goroutine(i) == Bind(i) \/ Take(i) \/ Torn(i) \/ ReadFail(i)

Daemon(i) == Run(i) \/ Respond(i)

Finished == /\ \A c \in Calls : pc[c] = "done"
            /\ UNCHANGED vars

Next ==
  \/ \E c \in Calls : Invoke(c) \/ Expire(c) \/ Lock(c) \/ Step(c)
  \/ \E i \in Ids : Goroutine(i) \/ Daemon(i)
  \/ \E k \in Ids : HangUp(k)
  \/ Close
  \/ Finished

Spec == Init /\ [][Next]_vars

(* The Go scheduler runs every runnable goroutine, the mutex is handed     *)
(* over in FIFO order once a waiter starves (hence SF on Lock), deadlines  *)
(* pass.  The daemon promises nothing.                                     *)
ClientFairness ==
  /\ \A c \in Calls : WF_vars(Step(c)) /\ SF_vars(Lock(c)) /\ WF_vars(Expire(c))
  /\ \A i \in Ids : WF_vars(Goroutine(i))

FairSpec == Spec /\ ClientFairness

-----------------------------------------------------------------------------
CallsTyped ==
  /\ pc \in [Calls -> {"idle", "locking", "attempt", "await", "done"}]
  /\ attempt \in [Calls -> 0..MaxRetries]
  /\ expired \in [Calls -> BOOLEAN]
  /\ cur \in [Calls -> 0..MaxFrames]
  /\ outcome \in [Calls -> {"none", "ok", "ctx", "dial", "lost", "mismatch"}]

ClientTyped ==
  /\ mu \in Calls \cup {NoCall}
  /\ nextID \in 0..MaxFrames /\ dialled \in 0..MaxFrames
  /\ conn \in 0..MaxFrames /\ reader \in 0..MaxFrames
  /\ faults \in 0..MaxFaults

WireTyped ==
  /\ hungup \subseteq Ids
  /\ frame \in [Ids -> {"none", "request", "ran", "reply", "taken"}]
  /\ via \in [Ids -> 0..MaxFrames]
  /\ owner \in [Ids -> Calls \cup {NoCall}]

ReadersTyped ==
  /\ rd \in [Ids -> {"none", "spawned", "blocked", "got", "failed"}]
  /\ bound \in [Ids -> 0..MaxFrames]
  /\ got \in [Ids -> 0..MaxFrames]

TypeOK == CallsTyped /\ ClientTyped /\ WireTyped /\ ReadersTyped

(* The stream never shifts: whatever is still unread on the live           *)
(* connection was written by the call that is waiting for it now, so a     *)
(* call that starts never finds an earlier call's reply in front of its    *)
(* own.  It rests on drop() in every exit that leaves a reply behind, in   *)
(* all interleavings with late reader goroutines and a slow daemon.        *)
StreamAligned ==
  conn # 0 => \A i \in Stream(conn) :
                \E c \in Calls : mu = c /\ pc[c] = "await" /\ cur[c] = i

(* A call that returns a result returns the daemon's answer to a frame it  *)
(* wrote itself, after the daemon ran it, and the "response id mismatch"   *)
(* error is dead code: no schedule of cancels, retries and late readers    *)
(* reaches it.                                                             *)
OwnReply ==
  \A c \in Calls :
    /\ outcome[c] = "ok" => owner[cur[c]] = c /\ frame[cur[c]] = "taken"
    /\ outcome[c] # "mismatch"

(* A reader of a call's outcome sees an at-least-once RPC: see RpcPromise. *)
PhaseOf(c) == CASE pc[c] = "idle" -> "idle"
                [] pc[c] = "done" -> IF outcome[c] = "ok" THEN "ok" ELSE "error"
                [] OTHER -> "pending"

RanFrames == {i \in Ids : frame[i] \in {"ran", "reply", "taken"}}

Promise == INSTANCE RpcPromise
             WITH phase <- [c \in Calls |-> PhaseOf(c)],
                  ran <- {owner[i] : i \in RanFrames}

(* callLocked keeps the promise of RpcPromise: nothing but the mutexed     *)
(* retry loop is visible to a caller, and no result is made up when the    *)
(* connection is lost, the dial fails or the ctx ends.                     *)
KeepsPromise == Promise!Spec

(* When every ctx ends, every call returns, however the daemon behaves:    *)
(* no call waits for ever on the mutex behind one that waits for ever on   *)
(* the socket.                                                             *)
EveryCallReturns ==
  \A c \in Calls : pc[c] = "locking" ~> pc[c] = "done"
=============================================================================
