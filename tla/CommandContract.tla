-------------------------- MODULE CommandContract --------------------------
(***************************************************************************)
(* What the SQL command queue promises to the clients of CommandBus.Send:  *)
(* each submission of a command is executed at most once and ends either   *)
(* in "success", with the writes of its handler committed, or in "failed", *)
(* with none of them.  Several workers promise less: "failed" may be said  *)
(* late and wrongly.  No workers, transactions, locks or wake-ups here.    *)
(***************************************************************************)
EXTENDS Naturals

CONSTANTS Commands,   \* command identifiers (CommandID)
          MaxSends    \* how often the same identifier may be submitted

VARIABLES status,     \* the status a client reads with GetExecution
          sub,        \* which submission of the identifier the row is about
          effects     \* how often a submission's handler writes were committed

vars == <<status, sub, effects>>

Init ==
    /\ status = [c \in Commands |-> "none"]
    /\ sub = [c \in Commands |-> 0]
    /\ effects = [c \in Commands |-> [s \in 0..MaxSends |-> 0]]

\* A client submits the command, perhaps again under an identifier in use.
Submit(c) ==
    /\ sub[c] < MaxSends
    /\ status' = [status EXCEPT ![c] = "pending"]
    /\ sub' = [sub EXCEPT ![c] = @ + 1]
    /\ UNCHANGED effects

\* The handler's writes and the success status appear in one step.
Succeed(c) ==
    /\ status[c] = "pending"
    /\ status' = [status EXCEPT ![c] = "success"]
    /\ effects' = [effects EXCEPT ![c][sub[c]] = @ + 1]
    /\ UNCHANGED sub

\* The command ends with an error and leaves nothing behind.
Fail(c) ==
    /\ status[c] = "pending"
    /\ status' = [status EXCEPT ![c] = "failed"]
    /\ UNCHANGED <<sub, effects>>

Next == \E c \in Commands : Submit(c) \/ Succeed(c) \/ Fail(c)

Spec == Init /\ [][Next]_vars

-----------------------------------------------------------------------------
(* The promise where several workers share the queue.                      *)

\* The failure of one execution is reported after another worker has finished
\* the command, or a client has submitted it again.
FailLate(c) ==
    /\ status[c] # "none"
    /\ status' = [status EXCEPT ![c] = "failed"]
    /\ UNCHANGED <<sub, effects>>

SharedNext == \E c \in Commands : Submit(c) \/ Succeed(c) \/ FailLate(c)

SharedSpec == Init /\ [][SharedNext]_vars
=============================================================================
