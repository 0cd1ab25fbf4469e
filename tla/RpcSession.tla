----------------------------- MODULE RpcSession -----------------------------
(***************************************************************************)
(* The JSON-RPC session over a data channel: internal/jetkvm/rpc_session.go.*)
(*                                                                         *)
(* Callers register in a bounded table, pass a send gate one at a time,     *)
(* hand their request to the data channel and wait; the channel's read      *)
(* goroutine takes a response's entry out of the table under the lock and   *)
(* fills the caller's one-place channel after it; Close swaps the table for *)
(* an empty one and fills what it held; the session's context may end by    *)
(* itself, with the connection or on a recognized takeover.                 *)
(*                                                                         *)
(* A request stands for its number (nextID is never reused).  A response is *)
(* what decodeRPCResponse makes of it: a result, an error of the device, or *)
(* invalid; one without a usable number changes nothing and is left out.    *)
(* The removal of an entry and the return that follows it are one step.     *)
(***************************************************************************)
EXTENDS Naturals, FiniteSets

CONSTANTS Requests,    \* the calls made on the session
          NoRequest,
          MaxPending   \* maxPendingRPCRequests

ASSUME RequestsAssumption ==
  /\ NoRequest \notin Requests
  /\ MaxPending \in Nat \ {0}

VARIABLES
  pc,        \* where each call is
  answer,    \* what it returned: how far the request got
  expired,   \* calls whose context has ended
  pending,   \* the table: registered requests
  waiter,    \* each call's channel: "none" while empty
  handling,  \* what the read goroutine took from the table and has to deliver
  ended,     \* the session's context has ended
  closing,   \* how far Close is: "no", "canceled", "swapped"
  drained,   \* what Close took from the table and has to fill
  handed,    \* requests given to the data channel
  verdict    \* what the device decided

closeVars == << ended, closing, drained >>
deviceVars == << handed, verdict >>
vars == << pc, answer, expired, pending, waiter, handling, closeVars, deviceVars >>

Locations == {"new", "marshal", "queue", "holding", "sending", "handed", "await", "returned"}

Answers == {"none", "not_sent", "unknown", "ok", "failed"}

Responses == {"ok", "rejected", "invalid"}

Nothing == [request |-> NoRequest, response |-> "invalid"]

TypeOK ==
  /\ pc \in [Requests -> Locations]
  /\ answer \in [Requests -> Answers]
  /\ expired \subseteq Requests
  /\ pending \subseteq Requests
  /\ waiter \in [Requests -> {"none", "closed"} \cup Responses]
  /\ handling \in [request : Requests \cup {NoRequest}, response : Responses]
  /\ ended \in BOOLEAN
  /\ closing \in {"no", "canceled", "swapped"}
  /\ drained \subseteq Requests
  /\ handed \subseteq Requests
  /\ verdict \in [Requests -> {"none", "ok", "rejected"}]

Init ==
  /\ pc = [r \in Requests |-> "new"]
  /\ answer = [r \in Requests |-> "none"]
  /\ expired = {}
  /\ pending = {}
  /\ waiter = [r \in Requests |-> "none"]
  /\ handling = Nothing
  /\ ended = FALSE /\ closing = "no" /\ drained = {}
  /\ handed = {}
  /\ verdict = [r \in Requests |-> "none"]

-----------------------------------------------------------------------------
(* Mistaken forms of some of the definitions below, for the mutation checks. *)

AdmittedWhenEnded == Cardinality(pending) < MaxPending
PendingKept(r) == pending
AnswerUnclassified(response) == {response}
InvalidIsFailure(response) ==
  IF response = "ok" THEN {"ok", "unknown"}
  ELSE IF response = "closed" THEN {"unknown"} ELSE {"failed"}
WokenByExpiry(r) == r \in expired

-----------------------------------------------------------------------------
(* Call. *)

Admitted == ~ended /\ Cardinality(pending) < MaxPending

Return(r, answers) ==
  /\ pc' = [pc EXCEPT ![r] = "returned"]
  /\ \E a \in answers : answer' = [answer EXCEPT ![r] = a]

Goto(r, location) ==
  /\ pc' = [pc EXCEPT ![r] = location]
  /\ UNCHANGED answer

Without(r) == pending \ {r}

(* A blank method is refused; addPending refuses when the session has ended  *)
(* or the table is full.                                                   *)
Register(r) ==
  /\ pc[r] = "new"
  /\ \/ Admitted /\ Goto(r, "marshal") /\ pending' = pending \cup {r}
     \/ Return(r, {"not_sent"}) /\ UNCHANGED pending
  /\ UNCHANGED << expired, waiter, handling, closeVars, deviceVars >>

(* The request may not encode, or be too large. *)
Marshal(r) ==
  /\ pc[r] = "marshal"
  /\ \/ Goto(r, "queue") /\ UNCHANGED pending
     \/ Return(r, {"not_sent"}) /\ pending' = Without(r)
  /\ UNCHANGED << expired, waiter, handling, closeVars, deviceVars >>

GateFree == \A r \in Requests : pc[r] \notin {"holding", "sending", "handed"}

Woken(r) == r \in expired \/ ended

(* The select before the gate. *)
TakeGate(r) ==
  /\ pc[r] = "queue" /\ GateFree
  /\ Goto(r, "holding")
  /\ UNCHANGED << expired, pending, waiter, handling, closeVars, deviceVars >>

LeaveQueue(r) ==
  /\ pc[r] = "queue" /\ Woken(r)
  /\ Return(r, {"not_sent"})
  /\ pending' = Without(r)
  /\ UNCHANGED << expired, waiter, handling, closeVars, deviceVars >>

(* The contexts are read again once the gate is held. *)
CheckAgain(r) ==
  /\ pc[r] = "holding"
  /\ IF Woken(r) THEN Return(r, {"not_sent"}) /\ pending' = Without(r)
     ELSE Goto(r, "sending") /\ UNCHANGED pending
  /\ UNCHANGED << expired, waiter, handling, closeVars, deviceVars >>

(* SendText: from here on the device may have the request, also when          *)
(* SendText returns an error.                                              *)
HandOver(r) ==
  /\ pc[r] = "sending"
  /\ Goto(r, "handed")
  /\ handed' = handed \cup {r}
  /\ UNCHANGED << expired, pending, waiter, handling, closeVars, verdict >>

SendReturns(r) ==
  /\ pc[r] = "handed"
  /\ \/ Goto(r, "await") /\ UNCHANGED pending
     \/ Return(r, {"unknown"}) /\ pending' = Without(r)
  /\ UNCHANGED << expired, waiter, handling, closeVars, deviceVars >>

(* What a filled channel answers: a result may still not be the one expected. *)
AnswerTo(response) ==
  IF response = "ok" THEN {"ok", "unknown"}
  ELSE IF response = "rejected" THEN {"failed"} ELSE {"unknown"}

(* The select after the send; a call whose channel is full may still take    *)
(* the end of its context.                                                 *)
Receive(r) ==
  /\ pc[r] = "await" /\ waiter[r] # "none"
  /\ Return(r, AnswerTo(waiter[r]))
  /\ UNCHANGED << expired, pending, waiter, handling, closeVars, deviceVars >>

StopWaiting(r) ==
  /\ pc[r] = "await" /\ Woken(r)
  /\ Return(r, {"unknown"})
  /\ pending' = Without(r)
  /\ UNCHANGED << expired, waiter, handling, closeVars, deviceVars >>

-----------------------------------------------------------------------------
(* HandleMessage, on the data channel's one read goroutine. *)

(* The table once a response for r was taken. *)
Unregistered(r) == pending \ {r}

(* A response arrives, the first one, a late one or one more. *)
TakeMessage(r) ==
  /\ handling = Nothing
  /\ verdict[r] # "none"
  /\ IF r \in pending
     THEN \E response \in {verdict[r], "invalid"} :
             handling' = [request |-> r, response |-> response]
     ELSE UNCHANGED handling
  /\ pending' = Unregistered(r)
  /\ UNCHANGED << pc, answer, expired, waiter, closeVars, deviceVars >>

Filled(r, response) == [waiter EXCEPT ![r] = IF @ = "none" THEN response ELSE @]

Deliver ==
  /\ handling # Nothing
  /\ waiter' = Filled(handling.request, handling.response)
  /\ handling' = Nothing
  /\ UNCHANGED << pc, answer, expired, pending, closeVars, deviceVars >>

-----------------------------------------------------------------------------
(* Close, and the end of the session's context. *)

BeginClose ==
  /\ closing = "no"
  /\ closing' = "canceled" /\ ended' = TRUE
  /\ UNCHANGED << pc, answer, expired, pending, waiter, handling, drained, deviceVars >>

Swap ==
  /\ closing = "canceled"
  /\ closing' = "swapped"
  /\ drained' = pending /\ pending' = {}
  /\ UNCHANGED << pc, answer, expired, waiter, handling, ended, deviceVars >>

Drain(r) ==
  /\ r \in drained
  /\ drained' = drained \ {r}
  /\ waiter' = Filled(r, "closed")
  /\ UNCHANGED << pc, answer, expired, pending, handling, ended, closing, deviceVars >>

(* The connection is lost, or the device announces another operator. *)
EndSession ==
  /\ ~ended
  /\ ended' = TRUE
  /\ UNCHANGED << pc, answer, expired, pending, waiter, handling, closing, drained, deviceVars >>

(* The caller's context or the request's deadline. *)
Expire(r) ==
  /\ pc[r] # "returned" /\ r \notin expired
  /\ expired' = expired \cup {r}
  /\ UNCHANGED << pc, answer, pending, waiter, handling, closeVars, deviceVars >>

(* The device reads a request it was sent, and decides. *)
Decide(r) ==
  /\ r \in handed /\ verdict[r] = "none"
  /\ \E v \in {"ok", "rejected"} : verdict' = [verdict EXCEPT ![r] = v]
  /\ UNCHANGED << pc, answer, expired, pending, waiter, handling, closeVars, handed >>

-----------------------------------------------------------------------------
CallStep(r) ==
  \/ Register(r) \/ Marshal(r) \/ TakeGate(r) \/ LeaveQueue(r) \/ CheckAgain(r)
  \/ HandOver(r) \/ SendReturns(r) \/ Receive(r) \/ StopWaiting(r)

Next ==
  \/ \E r \in Requests : CallStep(r) \/ TakeMessage(r) \/ Drain(r) \/ Expire(r) \/ Decide(r)
  \/ Deliver \/ BeginClose \/ Swap \/ EndSession

Spec == Init /\ [][Next]_vars

(* A caller that can step does; nothing makes the device answer, a context   *)
(* end or the session close.                                               *)
FairSpec == Spec /\ \A r \in Requests : WF_vars(CallStep(r))

-----------------------------------------------------------------------------
Active(r) == pc[r] \notin {"new", "returned"}

Holds(b) == IF b THEN 1 ELSE 0

(* Each call that has not returned is in exactly one hand: the table, the     *)
(* read goroutine's, Close's, or its own full channel.  So nobody waits for  *)
(* an answer that was dropped, and nobody is answered twice, whatever order  *)
(* responses, duplicates, deadlines and Close come in.                      *)
OneHand ==
  \A r \in Requests : Active(r) =>
     Holds(r \in pending) + Holds(handling.request = r) + Holds(r \in drained)
       + Holds(waiter[r] # "none") = 1

(* The table holds only calls under way, never more than its limit, and        *)
(* nothing any more once Close has swapped it: no entry leaks on any of the   *)
(* ways out of Call.                                                        *)
TableIsLive ==
  /\ \A r \in pending : Active(r)
  /\ Cardinality(pending) <= MaxPending
  /\ closing = "swapped" => pending = {}

(* A call whose context has ended, or whose session has, returns, wherever it  *)
(* waits and whoever holds the gate; the device need not answer for it.      *)
ContextsWake == \A r \in Requests : (r \in expired \/ ended) /\ pc[r] # "new" ~> pc[r] = "returned"

(* Every call keeps the promise of RpcCall: handed over at most once, one     *)
(* answer, and a true one (Call's classifyOperationError outcomes).         *)
Promise == INSTANCE RpcCall
ImplementsRpcCall == Promise!Spec
=============================================================================
