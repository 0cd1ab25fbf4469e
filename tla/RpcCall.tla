------------------------------ MODULE RpcCall ------------------------------
(***************************************************************************)
(* What a call on an RPC session promises (internal/jetkvm/rpc_session.go   *)
(* with the outcomes of errors.go): it is handed to the data channel at     *)
(* most once, it answers once, and its answer is true of the request:       *)
(* not_sent only if it was never handed over, ok and failed only if that is *)
(* what the device decided, unknown only if it was handed over.             *)
(***************************************************************************)
CONSTANT Requests

VARIABLES handed,   \* requests given to the data channel
          verdict,  \* what the device decided: "none", "ok" or "rejected"
          answer    \* what the call returned, or "none"

vars == << handed, verdict, answer >>

Init ==
  /\ handed = {}
  /\ verdict = [r \in Requests |-> "none"]
  /\ answer = [r \in Requests |-> "none"]

HandOver(r) ==
  /\ answer[r] = "none" /\ r \notin handed
  /\ handed' = handed \cup {r}
  /\ UNCHANGED << verdict, answer >>

(* The device may decide late: after the call has answered. *)
Decide(r) ==
  /\ r \in handed /\ verdict[r] = "none"
  /\ \E v \in {"ok", "rejected"} : verdict' = [verdict EXCEPT ![r] = v]
  /\ UNCHANGED << handed, answer >>

True(r, a) ==
  \/ a = "not_sent" /\ r \notin handed
  \/ a = "unknown" /\ r \in handed
  \/ a = "ok" /\ verdict[r] = "ok"
  \/ a = "failed" /\ verdict[r] = "rejected"

Return(r) ==
  /\ answer[r] = "none"
  /\ \E a \in {"not_sent", "unknown", "ok", "failed"} :
        True(r, a) /\ answer' = [answer EXCEPT ![r] = a]
  /\ UNCHANGED << handed, verdict >>

Next == \E r \in Requests : HandOver(r) \/ Decide(r) \/ Return(r)

Spec == Init /\ [][Next]_vars
=============================================================================
