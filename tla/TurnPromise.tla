----------------------------- MODULE TurnPromise -----------------------------
(***************************************************************************)
(* What RunTask relies on once it has called ChatAsync and waited for its  *)
(* collector, without mutex, subscriptions, polls or the seal driver: one  *)
(* answer, which is an error or the one status the daemon ended the turn   *)
(* with; and a transcript that is read once, has every tool event from     *)
(* before the answer unless the collector was broken off, and grows no     *)
(* more.  After an error the daemon may go on with the turn, or have never *)
(* begun it.                                                               *)
(***************************************************************************)
EXTENDS Naturals

CONSTANT Statuses

VARIABLES
  turn,    \* of the daemon: "absent", "begun", or the status it ended with
  tools,   \* tool events published
  told,    \* RunTask's answer: "nothing", "error", or a status
  due,     \* tool events published before the answer
  broken,  \* the collector gave up, or the suite was interrupted
  read,    \* RunTask has the transcript
  trace    \* the tool events in it

promiseVars == <<turn, tools, told, due, broken, read, trace>>

Init == /\ turn = "absent" /\ tools = 0
        /\ told = "nothing" /\ due = 0
        /\ broken = FALSE /\ read = FALSE /\ trace = 0

Begin == /\ turn = "absent" /\ turn' = "begun"
         /\ UNCHANGED <<tools, told, due, broken, read, trace>>

UseTool == /\ turn = "begun" /\ tools' = tools + 1
           /\ UNCHANGED <<turn, told, due, broken, read, trace>>

End == /\ turn = "begun" /\ turn' \in Statuses
       /\ UNCHANGED <<tools, told, due, broken, read, trace>>

BreakOff == /\ broken' = TRUE
            /\ UNCHANGED <<turn, tools, told, due, read, trace>>

Answer(a) == /\ told = "nothing" /\ told' = a
             /\ due' = tools
             /\ UNCHANGED <<turn, tools, broken, read, trace>>

ReturnResult == turn \in Statuses /\ Answer(turn)

ReturnError == Answer("error")

ReadTrace == /\ told # "nothing" /\ ~read
             /\ read' = TRUE
             /\ trace' \in Nat /\ trace' <= tools /\ (trace' >= due \/ broken)
             /\ UNCHANGED <<turn, tools, told, due, broken>>

Next == \/ Begin \/ UseTool \/ End \/ BreakOff
        \/ ReturnResult \/ ReturnError \/ ReadTrace

Spec == Init /\ [][Next]_promiseVars
=============================================================================
