----------------------------- MODULE RpcPromise -----------------------------
(***************************************************************************)
(* What Client.Call promises its callers, without mutex, connections,      *)
(* retries or reader goroutines: a call is pending until it returns; the   *)
(* daemon may run its request any number of times, also after the caller   *)
(* has been told it failed; a call returns a result only if the daemon did *)
(* run it.                                                                 *)
(***************************************************************************)
CONSTANT Calls

VARIABLES
  phase,  \* "idle", "pending", "ok", "error"
  ran     \* the calls the daemon ran at least once

promiseVars == <<phase, ran>>

Init == /\ phase = [c \in Calls |-> "idle"]
        /\ ran = {}

Invoke(c) == /\ phase[c] = "idle"
             /\ phase' = [phase EXCEPT ![c] = "pending"]
             /\ UNCHANGED ran

RunRequest(c) == /\ phase[c] # "idle"
                 /\ ran' = ran \cup {c}
                 /\ UNCHANGED phase

ReturnResult(c) == /\ phase[c] = "pending" /\ c \in ran
                   /\ phase' = [phase EXCEPT ![c] = "ok"]
                   /\ UNCHANGED ran

ReturnError(c) == /\ phase[c] = "pending"
                  /\ phase' = [phase EXCEPT ![c] = "error"]
                  /\ UNCHANGED ran

Next == \E c \in Calls :
          Invoke(c) \/ RunRequest(c) \/ ReturnResult(c) \/ ReturnError(c)

Spec == Init /\ [][Next]_promiseVars
=============================================================================
