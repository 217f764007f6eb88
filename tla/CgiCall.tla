------------------------------- MODULE CgiCall -------------------------------
(***************************************************************************)
(* What EndPoint::ProcessCGI (Protocol.hpp:220-334) promises the response  *)
(* that is built from it, with no pipe, no descriptor and no loop in       *)
(* sight: either no program is started, or one is, once; the call returns  *)
(* after it has ended, with the status its end stands for and with all of  *)
(* its output.                                                             *)
(***************************************************************************)
EXTENDS Naturals

CONSTANT Calls

VARIABLES state,    \* state[c]: "starting", "running", "ended" or "returned"
          outcome,  \* outcome[c]: how the program ended, or "none"
          output,   \* output[c]: how much it had written when it ended
          result,   \* result[c]: the status the call has returned, or "none"
          res_body  \* res_body[c]: how much output it has returned

vars == <<state, outcome, output, result, res_body>>

Outcomes == {"exit0", "exit1", "killed"}
NotStarted == {"NOT_FOUND", "SERVER_ERROR"}

StatusOf(how) == CASE how = "exit0"  -> "OK"
                   [] how = "exit1"  -> "BAD_REQUEST"
                   [] how = "killed" -> "SERVER_ERROR"

Init == /\ state = [c \in Calls |-> "starting"]
        /\ outcome = [c \in Calls |-> "none"]
        /\ output = [c \in Calls |-> 0]
        /\ result = [c \in Calls |-> "none"]
        /\ res_body = [c \in Calls |-> 0]

Goes(c, from, to) == state[c] = from /\ state' = [state EXCEPT ![c] = to]

Start(c) == /\ Goes(c, "starting", "running")
            /\ UNCHANGED <<outcome, output, result, res_body>>

StartFails(c) == /\ Goes(c, "starting", "returned")
                 /\ \E code \in NotStarted : result' = [result EXCEPT ![c] = code]
                 /\ UNCHANGED <<outcome, output, res_body>>

ProgramEnds(c) == /\ Goes(c, "running", "ended")
                  /\ \E how \in Outcomes : outcome' = [outcome EXCEPT ![c] = how]
                  /\ output' \in [Calls -> Nat]
                  /\ \A d \in Calls \ {c} : output'[d] = output[d]
                  /\ UNCHANGED <<result, res_body>>

Return(c) == /\ Goes(c, "ended", "returned")
             /\ result' = [result EXCEPT ![c] = StatusOf(outcome[c])]
             /\ res_body' = [res_body EXCEPT ![c] = output[c]]
             /\ UNCHANGED <<outcome, output>>

Next == \E c \in Calls : Start(c) \/ StartFails(c) \/ ProgramEnds(c) \/ Return(c)

Spec == Init /\ [][Next]_vars

(* A call whose program has ended returns once no other program runs:      *)
(* whether programs end is theirs to decide, and one that runs on may hold *)
(* what the other calls wait for.                                          *)
NoProgramRuns == \A c \in Calls : state[c] # "running"
FairSpec == Spec /\ \A c \in Calls : WF_vars(Return(c) /\ NoProgramRuns)
=============================================================================
