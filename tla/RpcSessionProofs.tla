-------------------------- MODULE RpcSessionProofs --------------------------
(***************************************************************************)
(* Proofs about RpcSession, for every set of calls and every limit of the   *)
(* table.  The inductive invariant has four parts beside the types: where   *)
(* a call is and what was sent and answered (CallState), that responses on  *)
(* their way are the device's (ResponsesTrue), in whose hand each call is   *)
(* (HandState), and what the table holds (TableState).                      *)
(***************************************************************************)
EXTENDS RpcSession, FiniteSetTheorems, TLAPS

CallState ==
  \A r \in Requests :
    /\ r \in handed => pc[r] \in {"handed", "await", "returned"}
    /\ pc[r] \in {"handed", "await"} => r \in handed
    /\ answer[r] = "none" <=> pc[r] # "returned"
    /\ verdict[r] # "none" => r \in handed

ResponsesTrue ==
  /\ handling.request = NoRequest => handling = Nothing
  /\ handling.response \in {"ok", "rejected"} =>
       handling.response = verdict[handling.request]
  /\ \A r \in Requests : waiter[r] \in {"ok", "rejected"} => waiter[r] = verdict[r]

InNoHand(r) ==
  r \notin pending /\ handling.request # r /\ r \notin drained /\ waiter[r] = "none"

InOneHand(r) ==
  /\ r \in pending \/ handling.request = r \/ r \in drained \/ waiter[r] # "none"
  /\ r \in pending => handling.request # r /\ r \notin drained /\ waiter[r] = "none"
  /\ handling.request = r => r \notin drained /\ waiter[r] = "none"
  /\ r \in drained => waiter[r] = "none"

HandState ==
  \A r \in Requests :
    /\ pc[r] = "new" => InNoHand(r)
    /\ Active(r) => InOneHand(r)
    /\ pc[r] = "returned" => r \notin pending

TableState ==
  /\ IsFiniteSet(pending) /\ Cardinality(pending) <= MaxPending
  /\ closing # "no" => ended
  /\ closing = "swapped" => pending = {}
  /\ drained # {} => closing = "swapped"

Inv == TypeOK /\ CallState /\ ResponsesTrue /\ HandState /\ TableState

(* Every step keeps the types. *)
LEMMA TypesPreserved ==
  ASSUME TypeOK, [Next]_vars
  PROVE  TypeOK'
<1> USE RequestsAssumption DEF TypeOK, Locations, Answers, Responses, Nothing, closeVars, deviceVars, Return, Goto
<1>1. ASSUME NEW r \in Requests, Register(r) PROVE TypeOK'
  BY <1>1 DEF Register
<1>2. ASSUME NEW r \in Requests, Marshal(r) PROVE TypeOK'
  BY <1>2 DEF Marshal, Without
<1>3. ASSUME NEW r \in Requests, TakeGate(r) PROVE TypeOK'
  BY <1>3 DEF TakeGate
<1>4. ASSUME NEW r \in Requests, LeaveQueue(r) PROVE TypeOK'
  BY <1>4 DEF LeaveQueue, Without
<1>5. ASSUME NEW r \in Requests, CheckAgain(r) PROVE TypeOK'
  BY <1>5 DEF CheckAgain, Without
<1>6. ASSUME NEW r \in Requests, HandOver(r) PROVE TypeOK'
  BY <1>6 DEF HandOver
<1>7. ASSUME NEW r \in Requests, SendReturns(r) PROVE TypeOK'
  BY <1>7 DEF SendReturns, Without
<1>8. ASSUME NEW r \in Requests, Receive(r) PROVE TypeOK'
  BY <1>8 DEF Receive, AnswerTo
<1>9. ASSUME NEW r \in Requests, StopWaiting(r) PROVE TypeOK'
  BY <1>9 DEF StopWaiting, Without
<1>10. ASSUME NEW r \in Requests, TakeMessage(r) PROVE TypeOK'
  BY <1>10 DEF TakeMessage, Unregistered
<1>11. ASSUME NEW r \in Requests, Drain(r) PROVE TypeOK'
  BY <1>11 DEF Drain, Filled
<1>12. ASSUME NEW r \in Requests, Expire(r) PROVE TypeOK'
  BY <1>12 DEF Expire
<1>13. ASSUME NEW r \in Requests, Decide(r) PROVE TypeOK'
  BY <1>13 DEF Decide
<1>14. ASSUME Deliver PROVE TypeOK'
  BY <1>14 DEF Deliver, Filled
<1>15. ASSUME BeginClose PROVE TypeOK'
  BY <1>15 DEF BeginClose
<1>16. ASSUME Swap PROVE TypeOK'
  BY <1>16 DEF Swap
<1>17. ASSUME EndSession PROVE TypeOK'
  BY <1>17 DEF EndSession
<1>18. ASSUME UNCHANGED vars PROVE TypeOK'
  BY <1>18 DEF vars, closeVars, deviceVars
<1>19. QED
  BY <1>1, <1>2, <1>3, <1>4, <1>5, <1>6, <1>7, <1>8, <1>9, <1>10, <1>11, <1>12, <1>13, <1>14, <1>15, <1>16, <1>17, <1>18 DEF Next, CallStep

(* A call is handed over once, while it holds the gate, and answers last. *)
LEMMA CallStatePreserved ==
  ASSUME TypeOK, CallState, [Next]_vars
  PROVE  CallState'
<1> USE RequestsAssumption DEF TypeOK, CallState, Locations, Answers, Responses, Nothing, closeVars, deviceVars, Return, Goto
<1>1. ASSUME NEW r \in Requests, Register(r) PROVE CallState'
  BY <1>1 DEF Register
<1>2. ASSUME NEW r \in Requests, Marshal(r) PROVE CallState'
  BY <1>2 DEF Marshal
<1>3. ASSUME NEW r \in Requests, TakeGate(r) PROVE CallState'
  BY <1>3 DEF TakeGate
<1>4. ASSUME NEW r \in Requests, LeaveQueue(r) PROVE CallState'
  BY <1>4 DEF LeaveQueue
<1>5. ASSUME NEW r \in Requests, CheckAgain(r) PROVE CallState'
  BY <1>5 DEF CheckAgain
<1>6. ASSUME NEW r \in Requests, HandOver(r) PROVE CallState'
  BY <1>6 DEF HandOver
<1>7. ASSUME NEW r \in Requests, SendReturns(r) PROVE CallState'
  BY <1>7 DEF SendReturns
<1>8. ASSUME NEW r \in Requests, Receive(r) PROVE CallState'
  BY <1>8 DEF Receive, AnswerTo
<1>9. ASSUME NEW r \in Requests, StopWaiting(r) PROVE CallState'
  BY <1>9 DEF StopWaiting
<1>10. ASSUME NEW r \in Requests, TakeMessage(r) PROVE CallState'
  BY <1>10 DEF TakeMessage
<1>11. ASSUME NEW r \in Requests, Drain(r) PROVE CallState'
  BY <1>11 DEF Drain
<1>12. ASSUME NEW r \in Requests, Expire(r) PROVE CallState'
  BY <1>12 DEF Expire
<1>13. ASSUME NEW r \in Requests, Decide(r) PROVE CallState'
  BY <1>13 DEF Decide
<1>14. ASSUME Deliver PROVE CallState'
  BY <1>14 DEF Deliver
<1>15. ASSUME BeginClose PROVE CallState'
  BY <1>15 DEF BeginClose
<1>16. ASSUME Swap PROVE CallState'
  BY <1>16 DEF Swap
<1>17. ASSUME EndSession PROVE CallState'
  BY <1>17 DEF EndSession
<1>18. ASSUME UNCHANGED vars PROVE CallState'
  BY <1>18 DEF vars, closeVars, deviceVars
<1>19. QED
  BY <1>1, <1>2, <1>3, <1>4, <1>5, <1>6, <1>7, <1>8, <1>9, <1>10, <1>11, <1>12, <1>13, <1>14, <1>15, <1>16, <1>17, <1>18 DEF Next, CallStep

(* A verdict is decided once, and only the device's reaches a waiter. *)
LEMMA ResponsesStayTrue ==
  ASSUME TypeOK, CallState, ResponsesTrue, [Next]_vars
  PROVE  ResponsesTrue'
<1> USE RequestsAssumption DEF TypeOK, CallState, ResponsesTrue, Locations, Answers, Responses, Nothing, closeVars, deviceVars
<1>1. ASSUME NEW r \in Requests, Register(r) PROVE ResponsesTrue'
  BY <1>1 DEF Register
<1>2. ASSUME NEW r \in Requests, Marshal(r) PROVE ResponsesTrue'
  BY <1>2 DEF Marshal
<1>3. ASSUME NEW r \in Requests, TakeGate(r) PROVE ResponsesTrue'
  BY <1>3 DEF TakeGate
<1>4. ASSUME NEW r \in Requests, LeaveQueue(r) PROVE ResponsesTrue'
  BY <1>4 DEF LeaveQueue
<1>5. ASSUME NEW r \in Requests, CheckAgain(r) PROVE ResponsesTrue'
  BY <1>5 DEF CheckAgain
<1>6. ASSUME NEW r \in Requests, HandOver(r) PROVE ResponsesTrue'
  BY <1>6 DEF HandOver
<1>7. ASSUME NEW r \in Requests, SendReturns(r) PROVE ResponsesTrue'
  BY <1>7 DEF SendReturns
<1>8. ASSUME NEW r \in Requests, Receive(r) PROVE ResponsesTrue'
  BY <1>8 DEF Receive
<1>9. ASSUME NEW r \in Requests, StopWaiting(r) PROVE ResponsesTrue'
  BY <1>9 DEF StopWaiting
<1>10. ASSUME NEW r \in Requests, TakeMessage(r) PROVE ResponsesTrue'
  BY <1>10 DEF TakeMessage
<1>11. ASSUME NEW r \in Requests, Drain(r) PROVE ResponsesTrue'
  BY <1>11 DEF Drain, Filled
<1>12. ASSUME NEW r \in Requests, Expire(r) PROVE ResponsesTrue'
  BY <1>12 DEF Expire
<1>13. ASSUME NEW r \in Requests, Decide(r) PROVE ResponsesTrue'
  BY <1>13 DEF Decide
<1>14. ASSUME Deliver PROVE ResponsesTrue'
  BY <1>14 DEF Deliver, Filled
<1>15. ASSUME BeginClose PROVE ResponsesTrue'
  BY <1>15 DEF BeginClose
<1>16. ASSUME Swap PROVE ResponsesTrue'
  BY <1>16 DEF Swap
<1>17. ASSUME EndSession PROVE ResponsesTrue'
  BY <1>17 DEF EndSession
<1>18. ASSUME UNCHANGED vars PROVE ResponsesTrue'
  BY <1>18 DEF vars, closeVars, deviceVars
<1>19. QED
  BY <1>1, <1>2, <1>3, <1>4, <1>5, <1>6, <1>7, <1>8, <1>9, <1>10, <1>11, <1>12, <1>13, <1>14, <1>15, <1>16, <1>17, <1>18 DEF Next, CallStep

(* Entries move from hand to hand and are never dropped or doubled. *)
LEMMA HandsPreserved ==
  ASSUME TypeOK, CallState, ResponsesTrue, HandState, TableState, [Next]_vars
  PROVE  HandState'
<1> USE RequestsAssumption DEF TypeOK, CallState, ResponsesTrue, HandState, TableState, InNoHand, InOneHand, Active, Locations, Answers, Responses, Nothing, closeVars, deviceVars, Return, Goto
<1>1. ASSUME NEW r \in Requests, Register(r) PROVE HandState'
  BY <1>1 DEF Register
<1>2. ASSUME NEW r \in Requests, Marshal(r) PROVE HandState'
  BY <1>2 DEF Marshal, Without
<1>3. ASSUME NEW r \in Requests, TakeGate(r) PROVE HandState'
  BY <1>3 DEF TakeGate
<1>4. ASSUME NEW r \in Requests, LeaveQueue(r) PROVE HandState'
  BY <1>4 DEF LeaveQueue, Without
<1>5. ASSUME NEW r \in Requests, CheckAgain(r) PROVE HandState'
  BY <1>5 DEF CheckAgain, Without
<1>6. ASSUME NEW r \in Requests, HandOver(r) PROVE HandState'
  BY <1>6 DEF HandOver
<1>7. ASSUME NEW r \in Requests, SendReturns(r) PROVE HandState'
  BY <1>7 DEF SendReturns, Without
<1>8. ASSUME NEW r \in Requests, Receive(r) PROVE HandState'
  BY <1>8 DEF Receive, AnswerTo
<1>9. ASSUME NEW r \in Requests, StopWaiting(r) PROVE HandState'
  BY <1>9 DEF StopWaiting, Without
<1>10. ASSUME NEW r \in Requests, TakeMessage(r) PROVE HandState'
  BY <1>10 DEF TakeMessage, Unregistered
<1>11. ASSUME NEW r \in Requests, Drain(r) PROVE HandState'
  BY <1>11 DEF Drain, Filled
<1>12. ASSUME NEW r \in Requests, Expire(r) PROVE HandState'
  BY <1>12 DEF Expire
<1>13. ASSUME NEW r \in Requests, Decide(r) PROVE HandState'
  BY <1>13 DEF Decide
<1>14. ASSUME Deliver PROVE HandState'
  BY <1>14 DEF Deliver, Filled
<1>15. ASSUME BeginClose PROVE HandState'
  BY <1>15 DEF BeginClose
<1>16. ASSUME Swap PROVE HandState'
  BY <1>16 DEF Swap
<1>17. ASSUME EndSession PROVE HandState'
  BY <1>17 DEF EndSession
<1>18. ASSUME UNCHANGED vars PROVE HandState'
  BY <1>18 DEF vars, closeVars, deviceVars
<1>19. QED
  BY <1>1, <1>2, <1>3, <1>4, <1>5, <1>6, <1>7, <1>8, <1>9, <1>10, <1>11, <1>12, <1>13, <1>14, <1>15, <1>16, <1>17, <1>18 DEF Next, CallStep

(* Taking a call out of the table, or leaving it alone, keeps its bound.     *)
LEMMA SmallerTable ==
  ASSUME TableState, NEW S \in SUBSET pending
  PROVE  IsFiniteSet(S) /\ Cardinality(S) <= MaxPending
<1>1. IsFiniteSet(S) /\ Cardinality(S) <= Cardinality(pending)
  BY FS_Subset DEF TableState
<1>2. Cardinality(S) \in Nat /\ Cardinality(pending) \in Nat
  BY <1>1, FS_CardinalityType DEF TableState
<1>3. MaxPending \in Nat
  BY RequestsAssumption
<1>4. QED
  BY <1>1, <1>2, <1>3 DEF TableState

(* addPending keeps the table within its limit. *)
LEMMA LargerTable ==
  ASSUME TableState, Admitted, NEW r
  PROVE  /\ IsFiniteSet(pending \cup {r})
         /\ Cardinality(pending \cup {r}) <= MaxPending
<1>1. /\ IsFiniteSet(pending \cup {r})
      /\ Cardinality(pending \cup {r}) = Cardinality(pending)
           \/ Cardinality(pending \cup {r}) = Cardinality(pending) + 1
  BY FS_AddElement DEF TableState
<1>2. Cardinality(pending) \in Nat
  BY FS_CardinalityType DEF TableState
<1>3. MaxPending \in Nat
  BY RequestsAssumption
<1>4. QED
  BY <1>1, <1>2, <1>3 DEF TableState, Admitted

(* The table's parts that are not its size. *)
TableClosed ==
  /\ closing # "no" => ended
  /\ closing = "swapped" => pending = {}
  /\ drained # {} => closing = "swapped"

(* The table stays within its limit, and empty once Close has swapped it.    *)
LEMMA TablePreserved ==
  ASSUME TypeOK, TableState, [Next]_vars
  PROVE  TableState'
<1> USE DEF closeVars, deviceVars, Return, Goto
<1>1. ASSUME NEW r \in Requests, Register(r) PROVE TableState'
  <2>1. CASE Admitted /\ pending' = pending \cup {r}
    <3>1. IsFiniteSet(pending') /\ Cardinality(pending') <= MaxPending
      BY <2>1, LargerTable
    <3>2. QED
      BY <1>1, <2>1, <3>1 DEF TableState, Register, Admitted
  <2>2. CASE UNCHANGED pending
    BY <1>1, <2>2 DEF TableState, Register
  <2>3. QED
    BY <1>1, <2>1, <2>2 DEF Register
<1>2. ASSUME pending' \in SUBSET pending, TableClosed' PROVE TableState'
  <2>1. IsFiniteSet(pending') /\ Cardinality(pending') <= MaxPending
    BY <1>2, SmallerTable
  <2>2. QED
    BY <1>2, <2>1 DEF TableState, TableClosed
<1>3. ASSUME NEW r \in Requests, CallStep(r), ~Register(r) PROVE TableState'
  <2>1. pending' \in SUBSET pending
    BY <1>3 DEF CallStep, Marshal, TakeGate, LeaveQueue, CheckAgain, HandOver, SendReturns,
                Receive, StopWaiting, Without
  <2>2. UNCHANGED closeVars
    BY <1>3 DEF CallStep, Marshal, TakeGate, LeaveQueue, CheckAgain, HandOver, SendReturns,
                Receive, StopWaiting
  <2>3. QED
    BY <1>2, <2>1, <2>2 DEF TableState, TableClosed
<1>4. ASSUME NEW r \in Requests, TakeMessage(r) \/ Drain(r) \/ Expire(r) \/ Decide(r)
      PROVE  TableState'
  BY <1>2, <1>4 DEF TableState, TableClosed, TakeMessage, Drain, Expire, Decide, Unregistered
<1>5. ASSUME Deliver \/ BeginClose \/ Swap \/ EndSession PROVE TableState'
  BY <1>2, <1>5 DEF TypeOK, TableState, TableClosed, Deliver, BeginClose, Swap, EndSession
<1>6. ASSUME UNCHANGED vars PROVE TableState'
  BY <1>6 DEF TableState, vars
<1>7. QED
  BY <1>1, <1>3, <1>4, <1>5, <1>6 DEF Next

(* The invariant holds at the start and is kept by every step. *)
THEOREM Invariant == Spec => []Inv
<1>1. Init => Inv
  <2> SUFFICES ASSUME Init PROVE Inv
    OBVIOUS
  <2>1. TypeOK
    BY DEF Init, TypeOK, Locations, Answers, Responses, Nothing
  <2>2. CallState /\ ResponsesTrue
    BY DEF Init, CallState, ResponsesTrue, Nothing
  <2>3. HandState
    BY RequestsAssumption DEF Init, HandState, InNoHand, Active, Nothing
  <2>4. TableState
    BY FS_EmptySet, RequestsAssumption DEF Init, TableState
  <2>5. QED
    BY <2>1, <2>2, <2>3, <2>4 DEF Inv
<1>2. Inv /\ [Next]_vars => Inv'
  BY TypesPreserved, CallStatePreserved, ResponsesStayTrue, HandsPreserved, TablePreserved
     DEF Inv
<1>3. QED
  BY <1>1, <1>2, PTL DEF Spec

(* The session's state stays in its type. *)
THEOREM TypeCorrect == Spec => []TypeOK
<1>1. Inv => TypeOK
  BY DEF Inv
<1>2. QED
  BY <1>1, Invariant, PTL

(* Each call that has not returned is in exactly one hand. *)
THEOREM EachCallInOneHand == Spec => []OneHand
<1>1. Inv => OneHand
  <2> SUFFICES ASSUME Inv, NEW r \in Requests, Active(r)
               PROVE  Holds(r \in pending) + Holds(handling.request = r)
                        + Holds(r \in drained) + Holds(waiter[r] # "none") = 1
    BY DEF OneHand
  <2>1. InOneHand(r)
    BY DEF Inv, HandState
  <2>2. QED
    BY <2>1 DEF InOneHand, Holds
<1>2. QED
  BY <1>1, Invariant, PTL

(* The table holds calls under way only, at most MaxPending, none once closed. *)
THEOREM TableHoldsLiveCalls == Spec => []TableIsLive
<1>1. Inv => TableIsLive
  BY DEF Inv, TypeOK, HandState, TableState, TableIsLive, Active, InNoHand
<1>2. QED
  BY <1>1, Invariant, PTL

-----------------------------------------------------------------------------
(* The session implements RpcCall: a step hands a request over, decides one,  *)
(* returns a true answer, or changes nothing the caller can see.            *)

(* A call that returns without having been handed over says so. *)
LEMMA ReturnsNotSent ==
  ASSUME Inv, NEW r \in Requests, r \notin handed, pc[r] # "returned",
         Return(r, {"not_sent"}), UNCHANGED deviceVars
  PROVE  Promise!Return(r)
BY DEF Inv, CallState, Return, deviceVars, Promise!Return, Promise!True

(* One that was handed over may say it does not know. *)
LEMMA ReturnsUnknown ==
  ASSUME Inv, NEW r \in Requests, r \in handed, pc[r] # "returned",
         Return(r, {"unknown"}), UNCHANGED deviceVars
  PROVE  Promise!Return(r)
BY DEF Inv, CallState, Return, deviceVars, Promise!Return, Promise!True

(* What it received is the device's verdict, or it does not know. *)
LEMMA ReturnsVerdict ==
  ASSUME Inv, NEW r \in Requests, Receive(r)
  PROVE  Promise!Return(r)
<1>1. r \in handed /\ answer[r] = "none"
  BY DEF Inv, CallState, Receive
<1>2. UNCHANGED deviceVars
  BY DEF Receive
<1>3. PICK a \in AnswerTo(waiter[r]) : answer' = [answer EXCEPT ![r] = a]
  BY DEF Receive, Return
<1>4. waiter[r] \in {"ok", "rejected"} => waiter[r] = verdict[r]
  BY DEF Inv, ResponsesTrue
<1>5. Promise!True(r, a) /\ a \in {"not_sent", "unknown", "ok", "failed"}
  BY <1>1, <1>3, <1>4 DEF AnswerTo, Promise!True
<1>6. QED
  BY <1>1, <1>2, <1>3, <1>5 DEF deviceVars, Promise!Return

(* Every step of the session is a step of the promise, or a stutter.         *)
LEMMA StepKeepsPromise ==
  ASSUME Inv, [Next]_vars
  PROVE  [Promise!Next]_Promise!vars
<1> USE DEF Promise!vars, deviceVars
<1>1. ASSUME NEW r \in Requests, HandOver(r) PROVE Promise!HandOver(r)
  BY <1>1 DEF Inv, CallState, HandOver, Goto, Promise!HandOver
<1>2. ASSUME NEW r \in Requests, Decide(r) PROVE Promise!Decide(r)
  BY <1>2 DEF Decide, Promise!Decide
<1>3. ASSUME NEW r \in Requests, Register(r) \/ Marshal(r) \/ LeaveQueue(r) \/ CheckAgain(r)
      PROVE  Promise!Return(r) \/ UNCHANGED Promise!vars
  <2>1. r \notin handed /\ pc[r] # "returned"
    BY <1>3 DEF Inv, CallState, Register, Marshal, LeaveQueue, CheckAgain
  <2>2. UNCHANGED deviceVars
    BY <1>3 DEF Register, Marshal, LeaveQueue, CheckAgain
  <2>3. Return(r, {"not_sent"}) \/ UNCHANGED answer
    BY <1>3 DEF Register, Marshal, LeaveQueue, CheckAgain, Goto
  <2>4. QED
    BY <2>1, <2>2, <2>3, ReturnsNotSent
<1>4. ASSUME NEW r \in Requests, SendReturns(r) \/ StopWaiting(r)
      PROVE  Promise!Return(r) \/ UNCHANGED Promise!vars
  <2>1. r \in handed /\ pc[r] # "returned"
    BY <1>4 DEF Inv, CallState, SendReturns, StopWaiting
  <2>2. UNCHANGED deviceVars
    BY <1>4 DEF SendReturns, StopWaiting
  <2>3. Return(r, {"unknown"}) \/ UNCHANGED answer
    BY <1>4 DEF SendReturns, StopWaiting, Goto
  <2>4. QED
    BY <2>1, <2>2, <2>3, ReturnsUnknown
<1>5. ASSUME NEW r \in Requests, TakeGate(r) \/ TakeMessage(r) \/ Drain(r) \/ Expire(r)
      PROVE  UNCHANGED Promise!vars
  BY <1>5 DEF TakeGate, Goto, TakeMessage, Drain, Expire
<1>6. ASSUME Deliver \/ BeginClose \/ Swap \/ EndSession PROVE UNCHANGED Promise!vars
  BY <1>6 DEF Deliver, BeginClose, Swap, EndSession
<1>7. ASSUME UNCHANGED vars PROVE UNCHANGED Promise!vars
  BY <1>7 DEF vars
<1>8. QED
  BY <1>1, <1>2, <1>3, <1>4, <1>5, <1>6, <1>7, ReturnsVerdict
     DEF Next, CallStep, Promise!Next

(* The session keeps the promise of a call, for any number of calls.         *)
THEOREM SessionKeepsPromise == Spec => ImplementsRpcCall
<1>1. Init => Promise!Init
  BY DEF Init, Promise!Init
<1>2. Inv /\ [Next]_vars => [Promise!Next]_Promise!vars
  BY StepKeepsPromise
<1>3. QED
  BY <1>1, <1>2, Invariant, PTL DEF Spec, ImplementsRpcCall, Promise!Spec
=============================================================================
