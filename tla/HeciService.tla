------------------------------ MODULE HeciService ------------------------------
(***************************************************************************)
(* What HeciSendwAck and HeciSendwAckWithRetry promise their callers       *)
(* (HeciCore.c, the comments above them): a command is sent to the ME, and *)
(* either its own answer comes back or an error, in the end. The ME may    *)
(* have performed a command that failed. HeciExchange implements this.     *)
(*                                                                         *)
(* Without an identifier in the messages the promise of the right answer   *)
(* can only be kept while no earlier attempt has left something behind:    *)
(* reliable says so.                                                       *)
(***************************************************************************)
EXTENDS Naturals

CONSTANT MaxCalls      \* bound: number of commands

VARIABLES
  issued,     \* number of commands issued; the last is the one in progress
  busy,       \* a caller waits
  performed,  \* the ME has performed the command in progress
  reliable,   \* nothing of an earlier attempt is left
  result      \* what the last call returned: its status and whose answer

vars == <<issued, busy, performed, reliable, result>>

Answered == {"success", "tooSmall"}
Failures == {"timeout", "deviceError", "noResponse"}
NoResult == [status |-> "none", answer |-> {}]

Init ==
  /\ issued = 0
  /\ busy = FALSE
  /\ performed = FALSE
  /\ reliable = TRUE
  /\ result = NoResult

\* A caller hands in a command.
Issue ==
  /\ ~busy
  /\ issued < MaxCalls
  /\ issued' = issued + 1
  /\ busy' = TRUE
  /\ performed' = FALSE
  /\ reliable' \in BOOLEAN
  /\ UNCHANGED result

\* The ME performs the command, perhaps again, perhaps when the caller has
\* been told of an error already.
Perform ==
  /\ issued > 0
  /\ performed' = TRUE
  /\ UNCHANGED <<issued, busy, reliable, result>>

\* An attempt leaves something behind, or a reset clears it away.
Change ==
  /\ reliable' = ~reliable
  /\ UNCHANGED <<issued, busy, performed, result>>

\* The caller gets the answer: while reliable, that of its own command, which
\* has been performed.
Succeed ==
  /\ busy
  /\ busy' = FALSE
  /\ reliable => performed
  /\ result'.status \in Answered
  /\ reliable => result'.answer \subseteq {issued}
  /\ UNCHANGED <<issued, performed, reliable>>

\* The caller is told of an error.
Fail ==
  /\ busy
  /\ busy' = FALSE
  /\ result'.status \in Failures
  /\ reliable' \in BOOLEAN
  /\ UNCHANGED <<issued, performed>>

Next == Issue \/ Perform \/ Change \/ Succeed \/ Fail

\* Every call returns.
Returns == busy ~> ~busy

Spec == Init /\ [][Next]_vars /\ Returns
===============================================================================
