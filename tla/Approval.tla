------------------------------ MODULE Approval ------------------------------
(***************************************************************************)
(* What ClientApprover::submit promises                                    *)
(* (src/src/server/client_approver.rs): it "resolves when the client is    *)
(* approved or rejected".  A request is decided at most once, while the    *)
(* operator is there; when the operator leaves, every pending request is   *)
(* dropped at once and a later one is refused.                             *)
(***************************************************************************)
CONSTANT Clients

VARIABLES
  status,   \* what became of each client's request
  open      \* the operator still takes requests

vars == <<status, open>>

Init == status = [c \in Clients |-> "none"] /\ open = TRUE

Submit(c) ==
  /\ status[c] = "none"
  /\ status' = [status EXCEPT ![c] = IF open THEN "pending" ELSE "dropped"]
  /\ UNCHANGED open

Decide(c) ==
  /\ open /\ status[c] = "pending"
  /\ \E d \in {"approved", "denied"} : status' = [status EXCEPT ![c] = d]
  /\ UNCHANGED open

Close ==
  /\ open /\ open' = FALSE
  /\ status' = [c \in Clients |->
                  IF status[c] = "pending" THEN "dropped" ELSE status[c]]

Next == Close \/ \E c \in Clients : Submit(c) \/ Decide(c)

Spec == Init /\ [][Next]_vars
=============================================================================
