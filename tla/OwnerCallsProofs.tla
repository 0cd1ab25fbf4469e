-------------------------- MODULE OwnerCallsProofs --------------------------
(***************************************************************************)
(* Proofs about the callers and the workers of DeviceOwner, for any number   *)
(* of calls, lifecycle calls and Close calls: a caller that waits has a      *)
(* worker or an answer, a queued worker has somebody to start or fail it,    *)
(* what a completion says of its dispatch is true, an unused connection has  *)
(* its idle timer, and a Close that answers nil has joined everything.      *)
(***************************************************************************)
EXTENDS OwnershipProofs, SequenceTheorems

USE CallsAssumption DEF CallsAssumption

-----------------------------------------------------------------------------
(* After the loop ended.                                                    *)

Done == loopDone => Finished

\* Nothing is done at first.
LEMMA InitDone == Init => Done
BY DEF Init, Done

(* What a goroutine of the attempt or of an operation needs is gone. *)
LEMMA NothingRuns ==
  ASSUME TypeOK, Slots, Done, loopDone
  PROVE  attempt.phase = "none" /\ \A c \in Calls : worker[c] \in {"none", "replied"}
BY DEF TypeOK, Slots, Done, Finished, Registered, WorkerStages

(* Nothing of the loop's state changes any more. *)
LEMMA AfterDone ==
  ASSUME TypeOK, Slots, Done, loopDone, [Next]_vars
  PROVE  UNCHANGED << loopVars, loopDone, worker, bound >>
<1> USE DEF loopVars, timerVars, callVars, sessionVars, watchVars
<1> DEFINE Still == UNCHANGED << loopVars, loopDone, worker, bound >>
<1>1. attempt.phase = "none" /\ \A c \in Calls : worker[c] \in {"none", "replied"}
  BY NothingRuns
<1>2. CASE Environment
  BY <1>2 DEF Environment, Admit, RefuseBusy, CancelContext, BeginLifecycle, StopOwner,
              StopAfterDone, StopExpired, LoseSession, RecognizeTakeover
<1>3. ASSUME NEW c \in Calls, CallerStep(c) PROVE Still
  BY <1>3 DEF CallerStep, PassGate, GiveUpRegistration, ReceiveReply, NoticeCancel,
              CancelAfterDone, Leave, NotifyDemand, RefuseWorker, RegisterAndConnect,
              RegisterAndQueue, RegisterAndStart, CancelWorker
<1>4. ASSUME NEW c \in Calls, OperationStep(c) PROVE Still
  BY <1>1, <1>4 DEF OperationStep, PassSendCheck, SendRPC, EndOperation, CompleteWorker
<1>5. ~AttemptStep
  <2>1. ~FailConnect /\ ~FinishConnect /\ ~FailSetup /\ ~CloseFailedSetup
    BY <1>1, Zenon DEF FailConnect, FinishConnect, FailSetup, CloseFailedSetup
  <2>2. ~FailAttempt /\ ~ActivateAttempt /\ ~OrphanAttempt
    BY DEF FailAttempt, ActivateAttempt, OrphanAttempt
  <2> QED  BY <2>1, <2>2 DEF AttemptStep
<1>6. ASSUME NEW g \in watching \cup late, WatchStep(g) PROVE Still
  BY <1>6 DEF WatchStep, EndGeneration, IgnoreGenerationEnd, LateTakeover, EndWatch
<1>7. CASE TimerStep \/ StrayExpired
  BY <1>7 DEF TimerStep, FireTimer, IdleExpired, DropExpiry, StrayExpired
<1>8. ~CleanupStep
  BY DEF CleanupStep, FailCleanup, FinishCleanup
<1>9. ASSUME NEW l \in Lifecycles, LifecycleStep(l) PROVE Still
  BY <1>9 DEF LifecycleStep, LifecycleAfterDone, ReleaseSession, TakeOverSession
<1>10. ASSUME NEW g \in validators PROVE ~FinishValidation(g)
  BY DEF FinishValidation
<1>11. CASE UNCHANGED vars
  BY <1>11 DEF vars
<1> QED  BY <1>2, <1>3, <1>4, <1>5, <1>6, <1>7, <1>8, <1>9, <1>10, <1>11 DEF Next

(* The loop ends only when finishIfStopped finds nothing left. *)
LEMMA LoopEnds ==
  ASSUME [Next]_vars, ~loopDone, loopDone'
  PROVE  Finished'
<1> USE DEF loopVars, timerVars, callVars, sessionVars, watchVars
<1>1. CASE Environment
  BY <1>1 DEF Environment, Admit, RefuseBusy, CancelContext, BeginLifecycle, StopOwner,
              StopAfterDone, StopExpired, LoseSession, RecognizeTakeover, Settle
<1>2. ASSUME NEW c \in Calls, CallerStep(c) PROVE Finished'
  BY <1>2 DEF CallerStep, PassGate, GiveUpRegistration, ReceiveReply, NoticeCancel,
              CancelAfterDone, Leave, NotifyDemand, RefuseWorker, RegisterAndConnect,
              RegisterAndQueue, RegisterAndStart, CancelWorker, Settle
<1>3. ASSUME NEW c \in Calls, OperationStep(c) PROVE Finished'
  BY <1>3 DEF OperationStep, PassSendCheck, SendRPC, EndOperation, CompleteWorker, Settle
<1>4. CASE AttemptStep
  <2>1. CASE FailConnect \/ FinishConnect \/ FailSetup \/ CloseFailedSetup
    BY <2>1, Zenon DEF FailConnect, FinishConnect, FailSetup, CloseFailedSetup
  <2>2. CASE FailAttempt
    BY <2>2 DEF FailAttempt, Settle
  <2>3. CASE ActivateAttempt
    BY <2>3 DEF ActivateAttempt, Settle
  <2>4. CASE OrphanAttempt
    BY <2>4 DEF OrphanAttempt, Settle
  <2> QED  BY <1>4, <2>1, <2>2, <2>3, <2>4 DEF AttemptStep
<1>5. ASSUME NEW g \in watching \cup late, WatchStep(g) PROVE Finished'
  BY <1>5 DEF WatchStep, EndGeneration, IgnoreGenerationEnd, LateTakeover, EndWatch, Settle
<1>6. CASE TimerStep \/ StrayExpired
  BY <1>6 DEF TimerStep, FireTimer, IdleExpired, DropExpiry, StrayExpired, Settle
<1>7. CASE CleanupStep
  BY <1>7 DEF CleanupStep, FailCleanup, FinishCleanup, Settle
<1>8. ASSUME NEW l \in Lifecycles, LifecycleStep(l) PROVE Finished'
  BY <1>8 DEF LifecycleStep, LifecycleAfterDone, ReleaseSession, TakeOverSession, Settle
<1>9. ASSUME NEW g \in validators, FinishValidation(g) PROVE Finished'
  BY <1>9 DEF FinishValidation, Settle
<1>10. CASE UNCHANGED vars
  BY <1>10 DEF vars
<1> QED  BY <1>1, <1>2, <1>3, <1>4, <1>5, <1>6, <1>7, <1>8, <1>9, <1>10 DEF Next

\* Every step keeps a loop that is done done, and what it leaves behind joined.
LEMMA StepDone == TypeOK /\ Slots /\ Done /\ [Next]_vars => Done'
<1> SUFFICES ASSUME TypeOK, Slots, Done, [Next]_vars PROVE Done'
  OBVIOUS
<1>1. CASE loopDone
  BY <1>1, AfterDone DEF Done, Finished, Pending, Registered, loopVars
<1>2. CASE ~loopDone
  BY <1>2, LoopEnds DEF Done
<1> QED  BY <1>1, <1>2

-----------------------------------------------------------------------------
(* What the handlers do to the workers.                                     *)

(* Every queued worker is answered. *)
LEMMA QueueFailed ==
  ASSUME TypeOK, NEW a, FailQueued(a)
  PROVE  \A c \in Calls :
           /\ worker'[c] = IF worker[c] = "queued" THEN "replied" ELSE worker[c]
           /\ worker[c] # "queued" => result'[c] = result[c]
BY DEF TypeOK, FailQueued, Queue

(* Every queued worker starts or is answered, unless dispatch is fenced. *)
LEMMA QueueStarted ==
  ASSUME NEW w \in [Calls -> WorkerStages], NEW r \in [Calls -> Results], NEW g, StartNext(w, r, g)
  PROVE  \A c \in Calls :
           /\ worker'[c] = IF Dispatching(g) /\ w[c] = "queued"
                           THEN IF c \in ctxDone THEN "replied" ELSE "running" ELSE w[c]
           /\ w[c] # "queued" => result'[c] = r[c]
BY DEF StartNext, Starting

(* A handler that serves workers answers, cancels or starts waiting ones. *)
Served ==
  \A c \in Calls :
    \/ worker'[c] = worker[c] /\ result'[c] = result[c]
    \/ /\ worker[c] \in {"queued", "canceled"}
       /\ worker'[c] \in {"canceled", "running", "replied"}

\* The report of an attempt serves every worker that waits for it.
LEMMA AttemptServes ==
  ASSUME TypeOK, FailAttempt \/ ActivateAttempt \/ OrphanAttempt
  PROVE  Served /\ \A c \in Calls : worker'[c] # "canceled"
<1> USE DEF loopVars
<1>1. worker \in [Calls -> WorkerStages] /\ result \in [Calls -> Results]
  BY DEF TypeOK
<1>2. CASE FailAttempt
  BY <1>1, <1>2 DEF FailAttempt, Served, LiveQueue, SweptWorkers, SweptResults, Swept
<1>3. CASE OrphanAttempt
  BY <1>1, <1>3 DEF OrphanAttempt, Served, SweptWorkers, SweptResults, Swept
<1>4. CASE ActivateAttempt
  <2>1. SweptWorkers \in [Calls -> WorkerStages] /\ SweptResults \in [Calls -> Results]
    BY <1>1, ResultTypes DEF SweptWorkers, SweptResults, WorkerStages, Codes
  <2>2. StartNext(SweptWorkers, SweptResults, attempt.gen)
    BY <1>4 DEF ActivateAttempt
  <2>3. \A c \in Calls :
           /\ worker'[c] = IF Dispatching(attempt.gen) /\ SweptWorkers[c] = "queued"
                           THEN IF c \in ctxDone THEN "replied" ELSE "running"
                           ELSE SweptWorkers[c]
           /\ SweptWorkers[c] # "queued" => result'[c] = SweptResults[c]
           /\ SweptWorkers[c] = "queued" /\ ~Dispatching(attempt.gen) =>
                result'[c] = SweptResults[c]
    BY <2>1, <2>2, QueueStarted DEF StartNext
  <2> QED  BY <1>1, <2>3 DEF Served, SweptWorkers, SweptResults, Swept
<1> QED  BY <1>2, <1>3, <1>4

(* The other handlers that serve workers. *)
LEMMA HandlersServe ==
  ASSUME TypeOK,
         \/ \E s \in Stops : StopOwner(s)
         \/ \E g \in watching \cup late : WatchStep(g)
         \/ CleanupStep
  PROVE  Served
<1> USE DEF loopVars, callVars
<1>1. worker \in [Calls -> WorkerStages] /\ result \in [Calls -> Results]
  BY DEF TypeOK
<1>2. ASSUME NEW a, FailQueued(a) PROVE Served
  BY <1>2, QueueFailed DEF Served
<1>3. ASSUME UNCHANGED << worker, result >> PROVE Served
  BY <1>3 DEF Served
<1>4. ASSUME NEW s \in Stops, StopOwner(s) PROVE Served
  <2>1. CASE UNCHANGED result /\ worker' = [c \in Calls |-> IF c \in Queue THEN "canceled" ELSE worker[c]]
    BY <1>1, <2>1 DEF Served, Queue
  <2> QED  BY <1>2, <1>3, <1>4, <2>1 DEF StopOwner
<1>5. ASSUME NEW g \in watching \cup late, WatchStep(g) PROVE Served
  BY <1>2, <1>3, <1>5 DEF WatchStep, EndGeneration, IgnoreGenerationEnd, LateTakeover, EndWatch
<1>6. ASSUME CleanupStep PROVE Served
  BY <1>2, <1>3, <1>6 DEF CleanupStep, FailCleanup, FinishCleanup, ResumeTakeover, ResumeQueue
<1> QED  BY <1>4, <1>5, <1>6

(* No other step but a call's own touches workers. *)
LEMMA ServedOrOwn ==
  ASSUME TypeOK, [Next]_vars
  PROVE  \/ Served /\ UNCHANGED << pc, sent >>
         \/ \E c \in Calls : Admit(c) \/ RefuseBusy(c) \/ CallerStep(c) \/ OperationStep(c)
<1> USE DEF loopVars, timerVars, callVars, sessionVars, watchVars
<1> DEFINE Quiet == Served /\ UNCHANGED << pc, sent >>
<1>1. ASSUME UNCHANGED << worker, result, pc, sent >> PROVE Quiet
  BY <1>1 DEF Served
<1>2. CASE Environment
  <2>1. CASE \/ \E c \in Calls : CancelContext(c)
             \/ \E l \in Lifecycles : BeginLifecycle(l)
             \/ \E s \in Stops : StopAfterDone(s) \/ StopExpired(s)
             \/ \E g \in open : LoseSession(g)
             \/ \E g \in open \cup late : RecognizeTakeover(g)
    BY <1>1, <2>1 DEF CancelContext, BeginLifecycle, StopAfterDone, StopExpired, LoseSession,
                      RecognizeTakeover
  <2>2. ASSUME NEW s \in Stops, StopOwner(s) PROVE Quiet
    BY <2>2, HandlersServe DEF StopOwner
  <2> QED  BY <1>2, <2>1, <2>2 DEF Environment
<1>3. CASE AttemptStep
  <2>1. CASE FailConnect \/ FinishConnect \/ FailSetup \/ CloseFailedSetup
    <3>1. UNCHANGED << worker, result, pc, sent >>
      BY <2>1, Zenon DEF FailConnect, FinishConnect, FailSetup, CloseFailedSetup
    <3> QED  BY <1>1, <3>1
  <2>2. CASE FailAttempt \/ ActivateAttempt \/ OrphanAttempt
    <3>1. UNCHANGED << pc, sent >>
      BY <2>2, Zenon DEF FailAttempt, ActivateAttempt, OrphanAttempt
    <3> QED  BY <2>2, <3>1, AttemptServes
  <2> QED  BY <1>3, <2>1, <2>2 DEF AttemptStep
<1>4. ASSUME NEW g \in watching \cup late, WatchStep(g) PROVE Quiet
  <2>1. UNCHANGED << pc, sent >>
    BY <1>4 DEF WatchStep, EndGeneration, IgnoreGenerationEnd, LateTakeover, EndWatch
  <2> QED  BY <1>4, <2>1, HandlersServe
<1>5. CASE TimerStep \/ StrayExpired
  BY <1>1, <1>5 DEF TimerStep, FireTimer, IdleExpired, DropExpiry, StrayExpired
<1>6. CASE CleanupStep
  <2>1. UNCHANGED << pc, sent >>
    BY <1>6 DEF CleanupStep, FailCleanup, FinishCleanup
  <2> QED  BY <1>6, <2>1, HandlersServe
<1>7. ASSUME NEW l \in Lifecycles, LifecycleStep(l) PROVE Quiet
  BY <1>1, <1>7 DEF LifecycleStep, LifecycleAfterDone, ReleaseSession, TakeOverSession
<1>8. ASSUME NEW g \in validators, FinishValidation(g) PROVE Quiet
  BY <1>1, <1>8 DEF FinishValidation
<1>9. CASE UNCHANGED vars
  BY <1>1, <1>9 DEF vars
<1> QED  BY <1>2, <1>3, <1>4, <1>5, <1>6, <1>7, <1>8, <1>9 DEF Next, Environment

-----------------------------------------------------------------------------
(* A Close that answers nil has joined everything.                          *)

(* nil is answered at the end of the loop only, and not for a cleanup that    *)
(* failed.                                                                 *)
Joined == (\E s \in Stops : stop[s] = "ok") => loopDone /\ ~cleanup.failed

(* Initially nobody has called Close. *)
LEMMA InitJoined == Init => Joined
BY DEF Init, Joined

(* What finishIfStopped answers. *)
LEMMA Settled ==
  ASSUME NEW stops \in [Stops -> StopStates], Settle(stops), NEW s \in Stops, stop'[s] = "ok"
  PROVE  stops[s] = "ok" \/ (loopDone' /\ ~cleanup'.failed)
BY DEF Settle, StopStates

(* A step that answers nil ends the loop with nothing left to close. *)
LEMMA StopAnswers ==
  ASSUME TypeOK, [Next]_vars, NEW s \in Stops, stop'[s] = "ok"
  PROVE  stop[s] = "ok" \/ (loopDone' /\ ~cleanup'.failed)
<1> DEFINE Answers == stop[s] = "ok" \/ (loopDone' /\ ~cleanup'.failed)
<1>1. stop \in [Stops -> StopStates]
  BY DEF TypeOK, StopStates
<1>2. ASSUME Settle(stop) PROVE Answers
  BY <1>1, <1>2, Settled
<1>3. ASSUME UNCHANGED stop PROVE Answers
  BY <1>3
<1>4. CASE Environment
  <2>1. ASSUME NEW r \in Stops, StopOwner(r) PROVE Answers
    <3>1. Settle([stop EXCEPT ![r] = "waiting"])
      BY <2>1 DEF StopOwner
    <3>2. [stop EXCEPT ![r] = "waiting"] \in [Stops -> StopStates]
      BY <1>1 DEF StopStates
    <3>3. [stop EXCEPT ![r] = "waiting"][s] \in {stop[s], "waiting"}
      BY <1>1
    <3> QED  BY <3>1, <3>2, <3>3, Settled
  <2>2. ASSUME NEW r \in Stops, StopAfterDone(r) \/ StopExpired(r) PROVE Answers
    BY <1>1, <2>2 DEF StopAfterDone, StopExpired
  <2> QED  BY <1>3, <1>4, <2>1, <2>2
           DEF Environment, Admit, RefuseBusy, CancelContext, BeginLifecycle, LoseSession,
               RecognizeTakeover
<1>5. ASSUME NEW c \in Calls, CallerStep(c) PROVE Answers
  BY <1>2, <1>3, <1>5 DEF CallerStep, PassGate, GiveUpRegistration, ReceiveReply, NoticeCancel,
              CancelAfterDone, Leave, NotifyDemand, RefuseWorker, RegisterAndConnect,
              RegisterAndQueue, RegisterAndStart, CancelWorker
<1>6. ASSUME NEW c \in Calls, OperationStep(c) PROVE Answers
  BY <1>2, <1>3, <1>6 DEF OperationStep, PassSendCheck, SendRPC, EndOperation, CompleteWorker
<1>7. CASE AttemptStep
  <2>1. CASE FailConnect \/ FinishConnect \/ FailSetup \/ CloseFailedSetup
    <3>1. UNCHANGED stop
      BY <2>1, Zenon DEF FailConnect, FinishConnect, FailSetup, CloseFailedSetup
    <3> QED  BY <1>3, <3>1
  <2>2. CASE FailAttempt \/ ActivateAttempt \/ OrphanAttempt
    <3>1. Settle(stop)
      BY <2>2, Zenon DEF FailAttempt, ActivateAttempt, OrphanAttempt
    <3> QED  BY <1>2, <3>1
  <2> QED  BY <1>7, <2>1, <2>2 DEF AttemptStep
<1>8. ASSUME NEW g \in watching \cup late, WatchStep(g) PROVE Answers
  BY <1>2, <1>3, <1>8 DEF WatchStep, EndGeneration, IgnoreGenerationEnd, LateTakeover, EndWatch
<1>9. CASE TimerStep \/ StrayExpired
  BY <1>2, <1>3, <1>9 DEF TimerStep, FireTimer, IdleExpired, DropExpiry, StrayExpired
<1>10. CASE CleanupStep
  BY <1>2, <1>10 DEF CleanupStep, FailCleanup, FinishCleanup
<1>11. ASSUME NEW l \in Lifecycles, LifecycleStep(l) PROVE Answers
  BY <1>2, <1>3, <1>11 DEF LifecycleStep, LifecycleAfterDone, ReleaseSession, TakeOverSession
<1>12. ASSUME NEW g \in validators, FinishValidation(g) PROVE Answers
  BY <1>2, <1>12 DEF FinishValidation
<1>13. CASE UNCHANGED vars
  BY <1>3, <1>13 DEF vars
<1> QED  BY <1>4, <1>5, <1>6, <1>7, <1>8, <1>9, <1>10, <1>11, <1>12, <1>13 DEF Next

(* Once the loop ended, the cleanup stays as it is. *)
LEMMA StepJoined == TypeOK /\ Slots /\ Done /\ Joined /\ [Next]_vars => Joined'
<1> SUFFICES ASSUME TypeOK, Slots, Done, Joined, [Next]_vars, NEW s \in Stops, stop'[s] = "ok"
             PROVE  loopDone' /\ ~cleanup'.failed
  BY DEF Joined
<1>1. CASE stop[s] = "ok"
  BY <1>1, AfterDone DEF Joined, loopVars
<1> QED  BY <1>1, StopAnswers

(* When Close answers nil, no session holds resources and no worker, attempt  *)
(* or validation is left, in every execution without panics: the recovery     *)
(* of a panic in the connector loses a session that would not close.        *)
THEOREM StopJoinsEverything == ASSUME ~MayPanic PROVE Spec => []StopJoins
<1>1. Spec => []TypeOK
  BY TypeCorrect
<1>2. TypeOK /\ Slots /\ Sessions /\ [Next]_vars => Sessions'
  BY StepSessions
<1>3. Done /\ Joined /\ Sessions => StopJoins
  BY DEF Done, Joined, Sessions, SessionsAccountedFor, StopJoins, Finished, Pending
<1> QED  BY <1>1, <1>2, <1>3, InitSlots, StepSlots, InitSessions, InitDone, StepDone,
            InitJoined, StepJoined, PTL DEF Spec

-----------------------------------------------------------------------------
(* What a step of a call does to it.                                        *)

Before == {"start", "gate", "register"}
Waiting == {"wait", "cancel", "await"}
After == {"leave", "notify", "returned"}

(* The workers of the other calls: queued ones may start or be answered. *)
OthersServed(c) ==
  \A d \in Calls \ {c} :
    /\ pc'[d] = pc[d] /\ (d \in sent' <=> d \in sent)
    /\ \/ worker'[d] = worker[d] /\ result'[d] = result[d]
       \/ worker[d] = "queued" /\ worker'[d] \in {"running", "replied"}

(* The call has not registered, or its worker is over; it may return.        *)
Passes(c) ==
  /\ worker'[c] = worker[c]
  /\ \/ pc[c] \in Before /\ pc'[c] \in Before \cup After
     \/ pc[c] \in Waiting /\ (worker[c] = "replied" \/ loopDone) /\ pc'[c] \in After
     \/ pc[c] \in After /\ pc'[c] \in After

(* It registers, and waits. *)
Registers(c) ==
  /\ pc[c] = "register" /\ pc'[c] \in Waiting
  /\ worker'[c] \in {"queued", "running", "replied"}

(* It still waits. *)
Turns(c) ==
  /\ pc[c] \in Waiting /\ pc'[c] \in Waiting
  /\ worker'[c] = worker[c] /\ result'[c] = result[c]

(* Its worker, which has not started, is canceled or answered. *)
Cancels(c) ==
  /\ pc[c] \in Waiting /\ worker[c] \in {"queued", "canceled"}
  /\ \/ pc'[c] \in Waiting /\ worker'[c] = "canceled"
     \/ pc'[c] \in After /\ worker'[c] = "replied"

(* Every step of a caller is one of these. *)
LEMMA CallerMoves ==
  ASSUME TypeOK, NEW c \in Calls, Admit(c) \/ RefuseBusy(c) \/ CallerStep(c)
  PROVE  /\ OthersServed(c) /\ UNCHANGED sent
         /\ Passes(c) \/ Registers(c) \/ Turns(c) \/ Cancels(c)
<1> USE DEF sessionVars, callVars
<1>1. /\ pc \in [Calls -> CallLocations] /\ worker \in [Calls -> WorkerStages]
      /\ result \in [Calls -> Results]
  BY DEF TypeOK
<1> DEFINE Goal == /\ OthersServed(c) /\ UNCHANGED sent
                   /\ Passes(c) \/ Registers(c) \/ Turns(c) \/ Cancels(c)
<1>2. CASE Admit(c) \/ RefuseBusy(c) \/ PassGate(c) \/ GiveUpRegistration(c) \/ RefuseWorker(c)
  <2>1. /\ UNCHANGED << worker, sent >> /\ pc[c] \in Before
        /\ pc' \in {[pc EXCEPT ![c] = p] : p \in Before \cup After}
        /\ \E a : result' = [result EXCEPT ![c] = a]
    BY <1>1, <1>2 DEF Admit, RefuseBusy, PassGate, GiveUpRegistration, RefuseWorker, Goto, Return,
                      Before, After
  <2> QED  BY <1>1, <2>1 DEF OthersServed, Passes
<1>3. CASE ReceiveReply(c) \/ CancelAfterDone(c) \/ Leave(c) \/ NotifyDemand(c)
  <2>1. /\ UNCHANGED << worker, sent >>
        /\ pc' \in {[pc EXCEPT ![c] = p] : p \in After}
        /\ \E a : result' = [result EXCEPT ![c] = a]
        /\ pc[c] \in After \/ (pc[c] \in Waiting /\ (worker[c] = "replied" \/ loopDone))
    BY <1>1, <1>3 DEF ReceiveReply, CancelAfterDone, Leave, NotifyDemand, Goto, Return,
                      Waiting, After
  <2> QED  BY <1>1, <2>1 DEF OthersServed, Passes
<1>4. CASE NoticeCancel(c)
  BY <1>1, <1>4 DEF NoticeCancel, Goto, OthersServed, Turns, Waiting
<1>5. CASE RegisterAndConnect(c)
  <2>1. CASE Goto(c, "wait") /\ UNCHANGED << result, sent >>
             /\ worker' = [worker EXCEPT ![c] = "queued"] /\ pc[c] = "register"
    BY <1>1, <2>1 DEF Goto, OthersServed, Registers, Waiting
  <2>2. CASE Return(c, "leave", NotSent("busy")) /\ UNCHANGED << worker, sent >> /\ pc[c] = "register"
    BY <1>1, <2>2 DEF Return, Goto, OthersServed, Passes, Before, After
  <2> QED  BY <1>5, <2>1, <2>2 DEF RegisterAndConnect
<1>6. CASE RegisterAndQueue(c)
  BY <1>1, <1>6 DEF RegisterAndQueue, Goto, OthersServed, Registers, Waiting
<1>7. CASE RegisterAndStart(c)
  <2> DEFINE w == [worker EXCEPT ![c] = "queued"]
  <2>1. w \in [Calls -> WorkerStages] /\ w[c] = "queued" /\ \A d \in Calls \ {c} : w[d] = worker[d]
    BY <1>1 DEF WorkerStages
  <2>2. StartNext(w, result, generation) /\ Goto(c, "wait") /\ pc[c] = "register" /\ UNCHANGED sent
    BY <1>7 DEF RegisterAndStart
  <2> HIDE DEF w
  <2>3. \A d \in Calls :
           /\ worker'[d] = IF Dispatching(generation) /\ w[d] = "queued"
                           THEN IF d \in ctxDone THEN "replied" ELSE "running" ELSE w[d]
           /\ ~(Dispatching(generation) /\ w[d] = "queued") => result'[d] = result[d]
    BY <1>1, <2>1, <2>2, QueueStarted DEF StartNext
  <2>4. pc' = [pc EXCEPT ![c] = "wait"]
    BY <2>2 DEF Goto
  <2>5. OthersServed(c)
    BY <1>1, <2>1, <2>2, <2>3, <2>4 DEF OthersServed
  <2>6. Registers(c)
    BY <1>1, <2>1, <2>2, <2>3, <2>4 DEF Registers, Waiting
  <2> QED  BY <2>2, <2>5, <2>6
<1>8. CASE CancelWorker(c)
  <2>1. pc[c] = "cancel" /\ UNCHANGED sent
    BY <1>8 DEF CancelWorker
  <2>2. CASE /\ worker[c] \in {"queued", "canceled"} /\ worker' = [worker EXCEPT ![c] = "canceled"]
             /\ Goto(c, "await") /\ UNCHANGED result
    BY <1>1, <2>1, <2>2 DEF Goto, OthersServed, Cancels, Waiting
  <2>3. CASE /\ worker[c] \in {"queued", "canceled"} /\ worker' = [worker EXCEPT ![c] = "replied"]
             /\ Return(c, "leave", NotSent("canceled"))
    BY <1>1, <2>1, <2>3 DEF Return, Goto, OthersServed, Cancels, Waiting, After
  <2>4. CASE Goto(c, "await") /\ UNCHANGED << worker, result >>
    BY <1>1, <2>1, <2>4 DEF Goto, OthersServed, Turns, Waiting
  <2> QED  BY <1>8, <2>2, <2>3, <2>4 DEF CancelWorker
<1> QED  BY <1>2, <1>3, <1>4, <1>5, <1>6, <1>7, <1>8 DEF CallerStep

(* The operation of a call looks, sends, ends and completes. *)
LEMMA OperationMoves ==
  ASSUME TypeOK, NEW c \in Calls, OperationStep(c)
  PROVE  /\ OthersServed(c) /\ UNCHANGED pc
         /\ \/ worker[c] = "running" /\ worker'[c] = "sending" /\ UNCHANGED sent
            \/ /\ worker[c] = "sending" /\ worker'[c] = "sent"
               /\ sent' = sent \cup {c}
            \/ /\ worker[c] \in {"running", "sending", "sent"} /\ worker'[c] = "ended"
               /\ UNCHANGED sent
               /\ \E raw \in RawResults(c) : result'[c] = Classified(c, raw)
            \/ /\ worker[c] = "ended" /\ worker'[c] = "replied" /\ UNCHANGED sent
               /\ result'[c] = result[c]
<1> USE DEF sessionVars, callVars
<1>1. /\ pc \in [Calls -> CallLocations] /\ worker \in [Calls -> WorkerStages]
      /\ result \in [Calls -> Results] /\ sent \in SUBSET Calls
  BY DEF TypeOK
<1>2. CASE SendRPC(c)
  BY <1>1, <1>2 DEF SendRPC, OthersServed
<1>5. CASE PassSendCheck(c)
  BY <1>1, <1>5 DEF PassSendCheck, OthersServed
<1>3. CASE EndOperation(c)
  <2>1. PICK raw \in RawResults(c) : result' = [result EXCEPT ![c] = Classified(c, raw)]
    BY <1>3 DEF EndOperation
  <2>2. /\ worker[c] \in {"running", "sending", "sent"}
        /\ worker' = [worker EXCEPT ![c] = "ended"]
        /\ UNCHANGED << pc, sent >>
    BY <1>3 DEF EndOperation
  <2>3. result'[c] = Classified(c, raw) /\ \A d \in Calls \ {c} : result'[d] = result[d]
    BY <1>1, <2>1
  <2> QED  BY <1>1, <2>2, <2>3 DEF OthersServed
<1>4. CASE CompleteWorker(c)
  <2> DEFINE w == [worker EXCEPT ![c] = "replied"]
  <2>1. w \in [Calls -> WorkerStages] /\ w[c] = "replied" /\ \A d \in Calls \ {c} : w[d] = worker[d]
    BY <1>1 DEF WorkerStages
  <2>2. StartNext(w, result, generation) /\ worker[c] = "ended" /\ UNCHANGED << pc, sent >>
    BY <1>4 DEF CompleteWorker
  <2> HIDE DEF w
  <2>3. \A d \in Calls :
           /\ worker'[d] = IF Dispatching(generation) /\ w[d] = "queued"
                           THEN IF d \in ctxDone THEN "replied" ELSE "running" ELSE w[d]
           /\ ~(Dispatching(generation) /\ w[d] = "queued") => result'[d] = result[d]
    BY <1>1, <2>1, <2>2, QueueStarted DEF StartNext
  <2> QED  BY <1>1, <2>1, <2>2, <2>3 DEF OthersServed
<1> QED  BY <1>2, <1>3, <1>4, <1>5 DEF OperationStep

-----------------------------------------------------------------------------
(* Callers and workers.                                                     *)

(* A caller that waits has registered, one that has not come so far has no    *)
(* worker, and a registered worker has a caller that waits.                 *)
Paired ==
  \A c \in Calls :
    /\ pc[c] \in Waiting => worker[c] # "none"
    /\ pc[c] \in Before => worker[c] = "none"
    /\ c \in Registered => pc[c] \in Waiting

(* Initially nobody has called. *)
LEMMA InitPaired == Init => Paired
BY DEF Init, Paired, Registered, Waiting, Before

(* A worker is registered, answered, or was never there. *)
LEMMA RegisteredStages ==
  ASSUME TypeOK, NEW c \in Calls
  PROVE  c \in Registered <=> worker[c] \notin {"none", "replied"}
BY DEF TypeOK, Registered, WorkerStages

\* What the run checks follows from the pairing.
LEMMA PairedImplies == ASSUME TypeOK, Paired PROVE CallersAndWorkersPair
BY RegisteredStages DEF Paired, CallersAndWorkersPair, Waiting

(* A caller leaves only with its answer, or after the loop ended.            *)
LEMMA StepPaired == TypeOK /\ Slots /\ Done /\ Paired /\ [Next]_vars => Paired'
<1> SUFFICES ASSUME TypeOK, Slots, Done, Paired, [Next]_vars PROVE Paired'
  OBVIOUS
<1>1. TypeOK'
  BY StepTypes
<1>2. pc \in [Calls -> CallLocations] /\ pc' \in [Calls -> CallLocations]
  BY <1>1 DEF TypeOK
<1>3. \A c \in Calls : c \in Registered' <=> worker'[c] \notin {"none", "replied"}
  BY <1>1 DEF TypeOK, Registered, WorkerStages
<1>4. CASE Served /\ UNCHANGED pc
  BY <1>3, <1>4, RegisteredStages DEF Served, Paired
<1>5. ASSUME NEW c \in Calls, Admit(c) \/ RefuseBusy(c) \/ CallerStep(c) PROVE Paired'
  <2>1. OthersServed(c)
    BY <1>5, CallerMoves
  <2>2. ASSUME NEW d \in Calls \ {c}
        PROVE  /\ pc'[d] \in Waiting => worker'[d] # "none"
               /\ pc'[d] \in Before => worker'[d] = "none"
               /\ d \in Registered' => pc'[d] \in Waiting
    BY <1>3, <2>1, RegisteredStages DEF OthersServed, Paired
  <2>3. loopDone => \A d \in Calls : worker[d] \in {"none", "replied"}
    BY NothingRuns
  <2>4. /\ pc'[c] \in Waiting => worker'[c] # "none"
        /\ pc'[c] \in Before => worker'[c] = "none"
        /\ c \in Registered' => pc'[c] \in Waiting
    BY <1>3, <1>5, <2>3, CallerMoves, RegisteredStages
       DEF Passes, Registers, Turns, Cancels, Paired, Waiting, Before, After
  <2> QED  BY <2>2, <2>4 DEF Paired
<1>6. ASSUME NEW c \in Calls, OperationStep(c) PROVE Paired'
  BY <1>3, <1>6, OperationMoves, RegisteredStages DEF OthersServed, Paired
<1> QED  BY <1>4, <1>5, <1>6, ServedOrOwn

(* Nobody waits for a worker that is not there, and no worker runs for a call *)
(* that has returned, in every execution.                                   *)
THEOREM CallersHaveWorkers == Spec => []CallersAndWorkersPair
<1>1. Spec => []TypeOK
  BY TypeCorrect
<1>2. TypeOK /\ Paired => CallersAndWorkersPair
  BY PairedImplies
<1> QED  BY <1>1, <1>2, InitSlots, StepSlots, InitDone, StepDone, InitPaired, StepPaired,
            PTL DEF Spec

-----------------------------------------------------------------------------
(* What a completion says of its dispatch.                                  *)

(* A worker whose RPC was sent has started and was answered by its own        *)
(* operation only: no handler answers or cancels it.                        *)
Honest ==
  /\ CompletionHonest
  /\ \A c \in sent : worker[c] \in {"sent", "ended", "replied"}

(* Initially nothing is sent. *)
LEMMA InitHonest == Init => Honest
BY DEF Init, Honest, CompletionHonest

(* What the operation reports is honest. *)
LEMMA ClassifiedHonest ==
  ASSUME TypeOK, NEW c \in Calls, worker[c] \in {"running", "sending", "sent"},
         worker[c] = "sent" <=> c \in sent, NEW raw \in RawResults(c)
  PROVE  /\ Classified(c, raw).outcome = "not_sent" => c \notin sent
         /\ c \in Mutations \cap sent =>
              Classified(c, raw) \in {Ok, Panic, Failed("rejected")}
                \/ Classified(c, raw).outcome = "unknown"
<1>1. CASE worker[c] = "running"
  BY <1>1
<1>2. CASE worker[c] = "sent"
  <2>1. raw \in {Ok, Failed("rejected"), Panic} \/ raw.outcome = "unknown"
    BY <1>2 DEF RawResults, Unknown
  <2>2. raw.outcome # "not_sent"
    BY <2>1 DEF Ok, Failed, Panic
  <2> QED  BY <2>1, <2>2 DEF Classified
<1>3. CASE worker[c] = "sending"
  BY <1>3
<1> QED  BY <1>1, <1>2, <1>3

\* Every step keeps what a worker will say in line with what it sent.
LEMMA StepHonest == TypeOK /\ Slots /\ Done /\ Paired /\ Honest /\ [Next]_vars => Honest'
<1> SUFFICES ASSUME TypeOK, Slots, Done, Paired, Honest, [Next]_vars,
                    NEW d \in Calls
             PROVE  /\ d \in sent' => worker'[d] \in {"sent", "ended", "replied"}
                    /\ worker'[d] \in {"ended", "replied"} /\ pc'[d] \in Waiting => OutcomeHonest(d)'
  BY StepTypes DEF Honest, CompletionHonest, TypeOK, Waiting
<1> DEFINE Goal == /\ d \in sent' => worker'[d] \in {"sent", "ended", "replied"}
                   /\ worker'[d] \in {"ended", "replied"} /\ pc'[d] \in Waiting => OutcomeHonest(d)'
<1>1. /\ d \in sent => worker[d] \in {"sent", "ended", "replied"}
      /\ worker[d] \in {"ended", "replied"} /\ pc[d] \in Waiting => OutcomeHonest(d)
  BY DEF Honest, CompletionHonest, Waiting
<1>2. ASSUME worker[d] \notin {"sent", "ended", "replied"}, d \in sent' <=> d \in sent PROVE Goal
  BY <1>1, <1>2 DEF OutcomeHonest
<1>3. ASSUME worker'[d] = worker[d], result'[d] = result[d], pc'[d] \in Waiting => pc[d] \in Waiting,
             d \in sent' <=> d \in sent
      PROVE  Goal
  BY <1>1, <1>3 DEF OutcomeHonest
<1>4. CASE Served /\ UNCHANGED << pc, sent >>
  BY <1>2, <1>3, <1>4 DEF Served
<1>5. ASSUME NEW c \in Calls, c # d, OthersServed(c) PROVE Goal
  BY <1>2, <1>3, <1>5 DEF OthersServed
<1>6. ASSUME Admit(d) \/ RefuseBusy(d) \/ CallerStep(d) PROVE Goal
  <2>1. UNCHANGED sent
    BY <1>6, CallerMoves
  <2>2. CASE Passes(d)
    BY <1>1, <2>1, <2>2 DEF Passes, Before, After, Waiting
  <2>3. CASE Registers(d) \/ Cancels(d)
    BY <1>2, <2>1, <2>3 DEF Registers, Cancels, Paired, Before
  <2>4. CASE Turns(d)
    BY <1>3, <2>1, <2>4 DEF Turns
  <2> QED  BY <1>6, <2>2, <2>3, <2>4, CallerMoves
<1>7. ASSUME OperationStep(d) PROVE Goal
  <2>1. UNCHANGED pc
    BY <1>7, OperationMoves
  <2>2. CASE worker'[d] = "sent"
    BY <2>2
  <2>5. CASE worker[d] = "running" /\ worker'[d] = "sending" /\ UNCHANGED sent
    BY <1>1, <2>5
  <2>3. CASE /\ worker[d] \in {"running", "sending", "sent"} /\ worker'[d] = "ended"
             /\ UNCHANGED sent
             /\ \E raw \in RawResults(d) : result'[d] = Classified(d, raw)
    BY <1>1, <2>3, ClassifiedHonest DEF OutcomeHonest
  <2>4. CASE /\ worker[d] = "ended" /\ worker'[d] = "replied" /\ UNCHANGED sent
             /\ result'[d] = result[d]
    BY <1>1, <2>1, <2>4 DEF OutcomeHonest
  <2> QED  BY <1>7, <2>2, <2>3, <2>4, <2>5, OperationMoves
<1> QED  BY <1>4, <1>5, <1>6, <1>7, ServedOrOwn, CallerMoves, OperationMoves

(* Completions are honest: not_sent is said only of a call that was not handed *)
(* to the data channel, and an interrupted mutation that was is unknown, in  *)
(* every execution.                                                        *)
THEOREM CompletionsAreHonest == Spec => []CompletionHonest
<1>1. Spec => []TypeOK
  BY TypeCorrect
<1>2. Honest => CompletionHonest
  BY DEF Honest
<1> QED  BY <1>1, <1>2, InitSlots, StepSlots, InitDone, StepDone, InitPaired, StepPaired,
            InitHonest, StepHonest, PTL DEF Spec

-----------------------------------------------------------------------------
(* The Manager's latch.                                                     *)

(* A lifecycle call that is latched or waits has the device to itself.       *)
Latched == LifecycleLatched => ~OrdinaryAdmitted

(* The lifecycle calls that hold the latch. *)
Holding == { l \in Lifecycles : life[l].phase \in {"latched", "waiting"} }

(* Initially nobody is admitted. *)
LEMMA InitLatched == Init => Latched
BY DEF Init, Latched, OrdinaryAdmitted

(* Only BeginLifecycle takes the latch, and not from ordinary work. *)
LEMMA LatchSteps ==
  ASSUME TypeOK, [Next]_vars
  PROVE  Holding' \subseteq Holding \/ (UNCHANGED pc /\ ~OrdinaryAdmitted)
<1> USE DEF loopVars, timerVars, callVars, sessionVars, watchVars
<1> DEFINE Goal == Holding' \subseteq Holding \/ (UNCHANGED pc /\ ~OrdinaryAdmitted)
<1>1. ASSUME UNCHANGED life PROVE Goal
  BY <1>1 DEF Holding
<1>2. ASSUME NEW l \in Replies, \E a : Answer(l, a) PROVE Goal
  BY <1>2, AnswerPhases DEF Holding
<1>3. ASSUME NEW l \in Replies, \E a : life' = Answered(l, a) PROVE Goal
  BY <1>3, AnsweredPhases DEF Holding
<1>4. ASSUME NEW l \in Lifecycles, life[l].phase = "latched",
             \E p \in {"waiting", "returned"} : \E a : SetLife(l, p, a)
      PROVE  Goal
  BY <1>4, SetLifePhases DEF Holding
<1>5. CASE Environment
  <2>1. ASSUME NEW l \in Lifecycles, BeginLifecycle(l) PROVE Goal
    <3>1. CASE LifecycleLatched \/ OrdinaryAdmitted
      <4>1. SetLife(l, "returned", NotSent("busy"))
        BY <2>1, <3>1 DEF BeginLifecycle
      <4> QED  BY <4>1, SetLifePhases DEF Holding
    <3>2. CASE ~(LifecycleLatched \/ OrdinaryAdmitted)
      BY <2>1, <3>2 DEF BeginLifecycle
    <3> QED  BY <3>1, <3>2
  <2> QED  BY <1>1, <1>5, <2>1
           DEF Environment, Admit, RefuseBusy, CancelContext, StopOwner,
               StopAfterDone, StopExpired, LoseSession, RecognizeTakeover
<1>6. ASSUME NEW c \in Calls, CallerStep(c) PROVE Goal
  BY <1>1, <1>6 DEF CallerStep, PassGate, GiveUpRegistration, ReceiveReply, NoticeCancel,
              CancelAfterDone, Leave, NotifyDemand, RefuseWorker, RegisterAndConnect,
              RegisterAndQueue, RegisterAndStart, CancelWorker
<1>7. ASSUME NEW c \in Calls, OperationStep(c) PROVE Goal
  BY <1>1, <1>7 DEF OperationStep, PassSendCheck, SendRPC, EndOperation, CompleteWorker
<1>8. CASE AttemptStep
  <2>1. CASE FailConnect \/ FinishConnect \/ FailSetup \/ CloseFailedSetup
    <3>1. UNCHANGED life
      BY <2>1, Zenon DEF FailConnect, FinishConnect, FailSetup, CloseFailedSetup
    <3> QED  BY <1>1, <3>1
  <2>2. CASE FailAttempt \/ ActivateAttempt \/ OrphanAttempt
    <3>1. \E a : Answer(attempt.takeover, a)
      BY <2>2 DEF FailAttempt, ActivateAttempt, OrphanAttempt
    <3>2. attempt.takeover \in Replies
      BY DEF TypeOK, Attempts, Replies
    <3> QED  BY <1>2, <3>1, <3>2
  <2> QED  BY <1>8, <2>1, <2>2 DEF AttemptStep
<1>9. ASSUME NEW g \in watching \cup late, WatchStep(g) PROVE Goal
  <2>1. validation.reply \in Replies
    BY DEF TypeOK, Validations, Replies
  <2>2. CASE EndGeneration(g)
    <3>1. UNCHANGED life \/ \E a : Answer(validation.reply, a)
      BY <2>2 DEF EndGeneration
    <3> QED  BY <1>1, <1>2, <2>1, <3>1
  <2> QED  BY <1>1, <1>9, <2>2 DEF WatchStep, IgnoreGenerationEnd, LateTakeover, EndWatch
<1>10. CASE TimerStep \/ StrayExpired
  BY <1>1, <1>10 DEF TimerStep, FireTimer, IdleExpired, DropExpiry, StrayExpired
<1>11. CASE CleanupStep
  <2>1. CASE FailCleanup
    BY <2>1 DEF FailCleanup, TypeOK, Holding
  <2>2. CASE FinishCleanup
    <3>1. cleanup.reply \in Replies /\ cleanup.takeover \in Replies
      BY DEF TypeOK, Cleanups, Replies
    <3> QED  BY <1>1, <1>3, <2>2, <3>1 DEF FinishCleanup, ResumeTakeover, ResumeQueue
  <2> QED  BY <1>11, <2>1, <2>2 DEF CleanupStep
<1>12. ASSUME NEW l \in Lifecycles, LifecycleStep(l) PROVE Goal
  BY <1>4, <1>12 DEF LifecycleStep, LifecycleAfterDone, ReleaseSession, TakeOverSession, RetryCleanup
<1>13. ASSUME NEW g \in validators, FinishValidation(g) PROVE Goal
  <2>1. validation.reply \in Replies
    BY DEF TypeOK, Validations, Replies
  <2>2. UNCHANGED life \/ \E a : Answer(validation.reply, a)
    BY <1>13 DEF FinishValidation
  <2> QED  BY <1>1, <1>2, <2>1, <2>2
<1>14. CASE UNCHANGED vars
  BY <1>1, <1>14 DEF vars
<1> QED  BY <1>5, <1>6, <1>7, <1>8, <1>9, <1>10, <1>11, <1>12, <1>13, <1>14 DEF Next

(* Only Admit brings ordinary work, and not against the latch. *)
LEMMA AdmitSteps ==
  ASSUME TypeOK, [Next]_vars, OrdinaryAdmitted'
  PROVE  OrdinaryAdmitted \/ (~LifecycleLatched /\ UNCHANGED life)
<1>1. PICK d \in Calls : pc'[d] \notin {"start", "returned"}
  BY DEF OrdinaryAdmitted
<1>2. CASE pc[d] \notin {"start", "returned"}
  BY <1>2 DEF OrdinaryAdmitted
<1>3. CASE pc[d] \in {"start", "returned"}
  <2>1. CASE UNCHANGED pc
    BY <1>1, <1>3, <2>1
  <2>2. ASSUME NEW c \in Calls, OthersServed(c), c # d PROVE FALSE
    BY <1>1, <1>3, <2>2 DEF OthersServed
  <2>3. CASE Admit(d)
    BY <2>3 DEF Admit
  <2>4. pc \in [Calls -> CallLocations]
    BY DEF TypeOK
  <2>5. ~RefuseBusy(d)
    BY <1>1, <2>4 DEF RefuseBusy, Return, Goto
  <2>6. ~CallerStep(d)
    BY <1>3 DEF CallerStep, PassGate, GiveUpRegistration, ReceiveReply, NoticeCancel,
              CancelAfterDone, Leave, NotifyDemand, RefuseWorker, RegisterAndConnect,
              RegisterAndQueue, RegisterAndStart, CancelWorker
  <2> QED  BY <2>1, <2>2, <2>3, <2>5, <2>6, ServedOrOwn, CallerMoves, OperationMoves
<1> QED  BY <1>2, <1>3

\* Every step admits no ordinary call while a lifecycle call has the latch.
LEMMA StepLatched == TypeOK /\ Latched /\ [Next]_vars => Latched'
<1> SUFFICES ASSUME TypeOK, Latched, [Next]_vars PROVE Latched'
  OBVIOUS
<1>1. LifecycleLatched <=> Holding # {}
  BY DEF LifecycleLatched, Holding
<1>2. LifecycleLatched' <=> Holding' # {}
  BY DEF LifecycleLatched, Holding
<1>3. UNCHANGED life => Holding' = Holding
  BY DEF Holding
<1>4. UNCHANGED pc => (OrdinaryAdmitted' <=> OrdinaryAdmitted)
  BY DEF OrdinaryAdmitted
<1> QED  BY <1>1, <1>2, <1>3, <1>4, LatchSteps, AdmitSteps DEF Latched

(* While a lifecycle call is served, no ordinary call is inside. *)
LEMMA LatchedAlone ==
  ASSUME TypeOK, Owed, Paired, Latched,
         LifecycleLatched \/ validation.gen # 0 \/ Attached # {} \/ attempt.takeover # NoCall
  PROVE  ~OrdinaryAdmitted /\ Registered = {}
<1>1. LifecycleLatched
  BY DEF LifecycleLatched, Owed, Holders, Attached, TypeOK, Attempts, Validations, Cleanups
<1>2. ~OrdinaryAdmitted
  BY <1>1 DEF Latched
<1> QED  BY <1>2 DEF Paired, OrdinaryAdmitted, Registered, Waiting

-----------------------------------------------------------------------------
(* The watcher of the active generation.                                    *)

(* Every active generation has its watcher, which waits for the end; watchers  *)
(* are of generations that were numbered, and never of the attempt's.        *)
Watched ==
  /\ \A g \in watching \cup late : g <= lastGen /\ g # attempt.gen /\ g # 0
  /\ generation # 0 => generation \in watching /\ generation \notin late

(* Initially there is no generation. *)
LEMMA InitWatched == Init => Watched
BY DEF Init, Watched

(* A watcher comes with the activation, and stays while its generation is     *)
(* active.                                                                 *)
LEMMA WatchSteps ==
  ASSUME Slots, Done, Watched, [Next]_vars
  PROVE  \/ ActivateAttempt
         \/ /\ watching' \cup late' \subseteq watching \cup late
            /\ generation' # 0 /\ generation' = generation =>
                 generation \in watching' /\ generation \notin late'
<1> USE DEF loopVars, timerVars, callVars, sessionVars, watchVars
<1> DEFINE Goal == /\ watching' \cup late' \subseteq watching \cup late
                   /\ generation' # 0 /\ generation' = generation =>
                        generation \in watching' /\ generation \notin late'
<1>1. ASSUME UNCHANGED << watching, late >> PROVE Goal
  BY <1>1 DEF Watched
<1>2. CASE Environment
  BY <1>1, <1>2 DEF Environment, Admit, RefuseBusy, CancelContext, BeginLifecycle, StopOwner,
              StopAfterDone, StopExpired, LoseSession, RecognizeTakeover
<1>3. ASSUME NEW c \in Calls, CallerStep(c) PROVE Goal
  BY <1>1, <1>3 DEF CallerStep, PassGate, GiveUpRegistration, ReceiveReply, NoticeCancel,
              CancelAfterDone, Leave, NotifyDemand, RefuseWorker, RegisterAndConnect,
              RegisterAndQueue, RegisterAndStart, CancelWorker
<1>4. ASSUME NEW c \in Calls, OperationStep(c) PROVE Goal
  BY <1>1, <1>4 DEF OperationStep, PassSendCheck, SendRPC, EndOperation, CompleteWorker
<1>5. CASE AttemptStep /\ ~ActivateAttempt
  <2>1. UNCHANGED << watching, late >>
    BY <1>5, Zenon DEF AttemptStep, FailConnect, FinishConnect, FailSetup, CloseFailedSetup,
                       FailAttempt, OrphanAttempt
  <2> QED  BY <1>1, <2>1
<1>6. ASSUME NEW g \in watching \cup late, WatchStep(g) PROVE Goal
  <2>1. CASE EndGeneration(g)
    BY <2>1 DEF EndGeneration, StartCleanup
  <2>2. CASE IgnoreGenerationEnd(g)
    BY <2>2 DEF IgnoreGenerationEnd, Watched
  <2>3. CASE LateTakeover(g)
    BY <2>3 DEF LateTakeover, Watched
  <2>4. CASE EndWatch(g)
    BY <2>4 DEF EndWatch, Watched, Done, Finished
  <2> QED  BY <1>6, <2>1, <2>2, <2>3, <2>4 DEF WatchStep
<1>7. CASE TimerStep \/ StrayExpired
  BY <1>1, <1>7 DEF TimerStep, FireTimer, IdleExpired, DropExpiry, StrayExpired
<1>8. CASE CleanupStep
  BY <1>1, <1>8 DEF CleanupStep, FailCleanup, FinishCleanup
<1>9. ASSUME NEW l \in Lifecycles, LifecycleStep(l) PROVE Goal
  BY <1>1, <1>9 DEF LifecycleStep, LifecycleAfterDone, ReleaseSession, TakeOverSession
<1>10. ASSUME NEW g \in validators, FinishValidation(g) PROVE Goal
  BY <1>1, <1>10 DEF FinishValidation
<1>11. CASE UNCHANGED vars
  BY <1>1, <1>11 DEF vars
<1> QED  BY <1>2, <1>3, <1>4, <1>5, <1>6, <1>7, <1>8, <1>9, <1>10, <1>11 DEF Next

\* Every step keeps the watchers to generations that were, and the present one watched.
LEMMA StepWatched == TypeOK /\ Slots /\ Done /\ Watched /\ [Next]_vars => Watched'
<1> SUFFICES ASSUME TypeOK, Slots, Done, Watched, [Next]_vars PROVE Watched'
  OBVIOUS
<1>1. lastGen \in Nat /\ attempt.gen \in Nat /\ watching \cup late \subseteq Nat
  BY DEF TypeOK, Attempts
<1>2. CASE ActivateAttempt
  <2>1. /\ generation' = attempt.gen /\ attempt'.gen = 0 /\ lastGen' = lastGen
        /\ watching' = watching \cup {attempt.gen} /\ late' = late
    BY <1>2 DEF ActivateAttempt, NoAttempt
  <2>2. attempt.gen # 0 /\ attempt.gen <= lastGen
    BY <1>2 DEF ActivateAttempt, Slots
  <2> QED  BY <2>1, <2>2 DEF Watched
<1>3. CASE ~ActivateAttempt
  <2>1. /\ watching' \cup late' \subseteq watching \cup late
        /\ generation' # 0 /\ generation' = generation =>
             generation \in watching' /\ generation \notin late'
    BY <1>3, WatchSteps
  <2>2. ASSUME SameAttempt \/ KeepsAttempt, UNCHANGED lastGen, generation' \in {0, generation}
        PROVE  Watched'
    BY <2>1, <2>2 DEF Watched, SameAttempt, KeepsAttempt
  <2>3. ASSUME FreshAttempt, generation' = 0 PROVE Watched'
    BY <1>1, <2>1, <2>3 DEF Watched, FreshAttempt
  <2>4. CASE FailConnect \/ FinishConnect \/ FailSetup \/ CloseFailedSetup
    <3>1. UNCHANGED << lastGen, generation >>
      BY <2>4, Zenon DEF FailConnect, FinishConnect, FailSetup, CloseFailedSetup
    <3> QED  BY <2>2, <2>4, <3>1, AttemptRuns
  <2>5. CASE FailAttempt \/ OrphanAttempt
    <3>1. attempt'.gen = 0 /\ UNCHANGED << lastGen, generation >>
      BY <2>5 DEF FailAttempt, OrphanAttempt, NoAttempt
    <3> QED  BY <2>1, <3>1 DEF Watched
  <2>6. CASE Stays \/ Closes \/ Connects \/ Joins
    BY <2>2, <2>3, <2>6 DEF Stays, Closes, Connects, Joins
  <2>7. Moves
    BY StepMoves DEF Slots
  <2> QED  BY <1>3, <2>4, <2>5, <2>6, <2>7 DEF Moves, AttemptStep
<1> QED  BY <1>2, <1>3

-----------------------------------------------------------------------------
(* Nobody waits for nothing.                                                *)

(* Ordinary work is queued only on a device that is idle or active and not     *)
(* stopping, and what it waits for is there: the attempt, a cleanup under way *)
(* (one that ends in "idle", or finds the queue failed), or the end of a      *)
(* taken-over generation.                                                  *)
Driven ==
  /\ Queue # {} => \/ attempt.gen # 0 \/ Pending
                   \/ generation # 0 /\ generation \in taken
  /\ \A c \in Calls : worker[c] = "canceled" => attempt.gen # 0
Accepted == Queue # {} => ownership \in {"idle", "active"} /\ ~stopping
Stopped == stopping => generation = 0
Resumable ==
  Pending => \/ cleanup.target = "idle" \/ stopping \/ ownership \in Sticky
             \/ cleanup.reply # NoCall
Queued == Driven /\ Accepted /\ Stopped /\ Resumable

(* Initially nothing is queued. *)
LEMMA InitQueued == Init => Queued
BY DEF Init, Queued, Driven, Accepted, Stopped, Resumable, Queue, Pending, NoCleanup

(* A step that queues nothing and leaves the loop's places alone. *)
LEMMA QueuedQuiet ==
  ASSUME Queued, Queue' \subseteq Queue, taken \subseteq taken',
         \A c \in Calls : worker'[c] = "canceled" => worker[c] = "canceled" \/ attempt.gen # 0,
         attempt'.gen = attempt.gen, UNCHANGED << ownership, stopping, generation, cleanup >>
  PROVE  Queued'
BY DEF Queued, Driven, Accepted, Stopped, Resumable, Pending

(* A step that leaves no worker waiting. *)
LEMMA QueuedNobody ==
  ASSUME \A c \in Calls : worker'[c] \notin {"queued", "canceled"}, Stopped', Resumable'
  PROVE  Queued'
BY DEF Queued, Driven, Accepted, Queue

(* Closing a generation: nobody is queued afterwards. *)
LEMMA QueuedClose ==
  ASSUME TypeOK, Slots, Queued, generation # 0, UNCHANGED attempt,
         NEW target, NEW reply, StartCleanup(target, reply),
         Queue' = {}, \A c \in Calls : worker'[c] = "canceled" => worker[c] = "canceled",
         target = "idle" \/ stopping' \/ ownership' \in Sticky \/ reply # NoCall
  PROVE  Queued'
BY CleanupStarted DEF Queued, Driven, Accepted, Stopped, Resumable, Slots, OneSlot, Pending

(* Queued workers are answered. *)
LEMMA QueueEmptied ==
  ASSUME TypeOK, NEW a, FailQueued(a)
  PROVE  Queue' = {} /\ \A c \in Calls : worker'[c] = "canceled" => worker[c] = "canceled"
BY QueueFailed DEF Queue

(* A worker that registers finds an attempt, a cleanup or a generation, or     *)
(* starts an attempt.                                                      *)
LEMMA QueuedRegister ==
  ASSUME TypeOK, Slots, Owned, Owed, Paired, Latched, Queued,
         NEW c \in Calls,
         RegisterAndConnect(c) \/ RegisterAndQueue(c) \/ RegisterAndStart(c)
  PROVE  Queued'
<1> USE DEF loopVars, callVars, sessionVars
<1>1. worker \in [Calls -> WorkerStages] /\ result \in [Calls -> Results]
  BY DEF TypeOK
<1>2. pc[c] = "register" /\ Refusal = None /\ UNCHANGED << ownership, stopping, generation, cleanup, taken >>
  BY DEF RegisterAndConnect, RegisterAndQueue, RegisterAndStart
<1>3. /\ ~stopping /\ ownership \in {"idle", "active"} /\ ~Broken
  BY <1>2 DEF Refusal, None, NotSent, TypeOK, Ownerships
<1>4. OrdinaryAdmitted
  BY <1>2 DEF OrdinaryAdmitted
<1>5. validation.gen = 0
  BY <1>4, LatchedAlone
<1>6. ASSUME worker' = [worker EXCEPT ![c] = "queued"],
             attempt'.gen # 0 \/ (Pending /\ UNCHANGED attempt)
      PROVE  Queued'
  <2>1. \A d \in Calls : worker'[d] = "canceled" => worker[d] = "canceled"
    BY <1>1, <1>6
  <2> QED  BY <1>2, <1>3, <1>6, <2>1 DEF Queued, Driven, Accepted, Stopped, Resumable, Pending
<1>7. CASE RegisterAndConnect(c)
  <2>1. generation = 0 /\ attempt.gen = 0 /\ cleanup.gen = 0
    BY <1>7 DEF RegisterAndConnect
  <2>2. MayConnect(FALSE)
    BY <1>3, <1>5, <2>1 DEF MayConnect, Owned, Pending
  <2>3. CASE Connect(NoCall) /\ worker' = [worker EXCEPT ![c] = "queued"]
    <3>1. attempt'.gen = lastGen + 1 /\ lastGen \in Nat
      BY <2>3, Connected DEF TypeOK
    <3>2. attempt'.gen # 0
      BY <3>1
    <3> QED  BY <1>6, <2>3, <3>2
  <2>4. CASE UNCHANGED << attempt, worker >>
    BY <1>2, <2>4, QueuedQuiet DEF Queue
  <2> QED  BY <1>7, <2>2, <2>3, <2>4 DEF RegisterAndConnect
<1>8. CASE RegisterAndQueue(c)
  <2>1. attempt.gen # 0 \/ Pending
    BY <1>3, <1>8 DEF RegisterAndQueue, Broken, Pending
  <2> QED  BY <1>6, <1>8, <2>1 DEF RegisterAndQueue
<1>9. CASE RegisterAndStart(c)
  <2> DEFINE w == [worker EXCEPT ![c] = "queued"]
  <2>1. /\ w \in [Calls -> WorkerStages] /\ StartNext(w, result, generation)
        /\ generation # 0 /\ UNCHANGED attempt
    BY <1>1, <1>9 DEF RegisterAndStart, WorkerStages
  <2>2. \A d \in Calls : w[d] = "canceled" => worker[d] = "canceled"
    BY <1>1
  <2> HIDE DEF w
  <2>3. \A d \in Calls :
           worker'[d] = IF Dispatching(generation) /\ w[d] = "queued"
                        THEN IF d \in ctxDone THEN "replied" ELSE "running" ELSE w[d]
    BY <1>1, <2>1, QueueStarted
  <2>4. \A d \in Calls : worker'[d] = "canceled" => worker[d] = "canceled"
    BY <2>2, <2>3
  <2>5. Queue' # {} => generation \in taken
    BY <1>3, <2>1, <2>3 DEF Queue, Dispatching
  <2> QED  BY <1>2, <1>3, <2>1, <2>4, <2>5
           DEF Queued, Driven, Accepted, Stopped, Resumable, Pending
<1> QED  BY <1>7, <1>8, <1>9

(* The last waiter of an attempt is canceled with it. *)
LEMMA QueuedCancel ==
  ASSUME TypeOK, Queued, NEW c \in Calls, CancelWorker(c)
  PROVE  Queued'
<1>1. worker \in [Calls -> WorkerStages]
  BY DEF TypeOK
<1>2. UNCHANGED << ownership, stopping, generation, cleanup, taken >> /\ KeepsAttempt
  BY AttemptCanceled DEF CancelWorker, sessionVars
<1>3. /\ \A d \in Calls : worker'[d] = "canceled" => worker[d] = "canceled" \/ attempt.gen # 0
      /\ Queue' \subseteq Queue
  BY <1>1 DEF CancelWorker, Queue
<1> QED  BY <1>2, <1>3, QueuedQuiet DEF KeepsAttempt

(* A completion starts what is queued. *)
LEMMA QueuedOperation ==
  ASSUME TypeOK, Queued, NEW c \in Calls, OperationStep(c)
  PROVE  Queued'
<1>1. UNCHANGED << ownership, stopping, generation, cleanup, taken, attempt >>
  BY DEF OperationStep, PassSendCheck, SendRPC, EndOperation, CompleteWorker, loopVars, sessionVars
<1>2. \A d \in Calls : worker'[d] \in {"queued", "canceled"} => worker'[d] = worker[d]
  BY OperationMoves DEF OthersServed
<1> QED  BY <1>1, <1>2, QueuedQuiet DEF Queue

(* The attempt leaves nobody canceled, and queued workers only to a cleanup   *)
(* or to a generation that is taken over already.                          *)
LEMMA QueuedReports ==
  ASSUME TypeOK, Slots, Owned, Queued, FailAttempt \/ ActivateAttempt \/ OrphanAttempt
  PROVE  Queued'
<1> USE DEF loopVars, sessionVars
<1>1. /\ attempt.gen # 0 /\ generation = 0 /\ cleanup.gen = 0
      /\ worker \in [Calls -> WorkerStages] /\ result \in [Calls -> Results]
  BY DEF FailAttempt, ActivateAttempt, OrphanAttempt, Slots, OneSlot, TypeOK
<1>2. \A c \in Calls : worker'[c] # "canceled"
  BY AttemptServes
<1>3. UNCHANGED << stopping, taken >>
  BY DEF FailAttempt, ActivateAttempt, OrphanAttempt
<1>4. CASE FailAttempt
  <2>1. \A c \in Calls : worker'[c] # "queued"
    BY <1>1, <1>4 DEF FailAttempt, LiveQueue, SweptWorkers, Swept
  <2>2. ~Pending' /\ generation' = 0
    BY <1>1, <1>4 DEF FailAttempt, Pending, NoCleanup
  <2> QED  BY <1>2, <2>1, <2>2, QueuedNobody DEF Stopped, Resumable
<1>5. CASE ActivateAttempt
  <2>1. /\ generation' = attempt.gen /\ ownership' = "active" /\ ~stopping
        /\ StartNext(SweptWorkers, SweptResults, attempt.gen) /\ UNCHANGED cleanup
    BY <1>5 DEF ActivateAttempt, Wanted
  <2>2. SweptWorkers \in [Calls -> WorkerStages] /\ SweptResults \in [Calls -> Results]
    BY <1>1, ResultTypes DEF SweptWorkers, SweptResults, WorkerStages, Codes
  <2>3. Queue' # {} => attempt.gen \in taken
    BY <1>1, <2>1, <2>2, QueueStarted DEF Queue, Dispatching
  <2> QED  BY <1>1, <1>2, <1>3, <2>1, <2>3
           DEF Queued, Driven, Accepted, Stopped, Resumable, Pending
<1>6. CASE OrphanAttempt
  <2>1. /\ cleanup'.gen = attempt.gen /\ ~cleanup'.failed
        /\ cleanup'.target = IF stopping THEN "stopped" ELSE "idle"
        /\ UNCHANGED << ownership, generation >> /\ worker' = SweptWorkers
    BY <1>6 DEF OrphanAttempt, NoCleanup
  <2>2. Queue' \subseteq Queue
    BY <1>1, <2>1 DEF Queue, SweptWorkers, Swept
  <2> QED  BY <1>1, <1>2, <1>3, <2>1, <2>2
           DEF Queued, Driven, Accepted, Stopped, Resumable, Pending
<1> QED  BY <1>4, <1>5, <1>6

(* Close cancels the queued workers with the attempt, or answers them. *)
LEMMA QueuedStop ==
  ASSUME TypeOK, Slots, Queued, NEW s \in Stops, StopOwner(s)
  PROVE  Queued'
<1> USE DEF sessionVars
<1>1. UNCHANGED << ownership, taken >> /\ stopping' /\ KeepsAttempt
  BY AttemptCanceled DEF StopOwner
<1>2. worker \in [Calls -> WorkerStages]
  BY DEF TypeOK
<1>3. CASE stopping
  BY <1>1, <1>3, QueuedQuiet DEF StopOwner, Queue, KeepsAttempt
<1>4. CASE ~stopping
  <2>1. /\ Queue' = {}
        /\ \A c \in Calls : worker'[c] = "canceled" => worker[c] = "canceled" \/ attempt.gen # 0
    <3>1. CASE attempt.gen # 0
      BY <1>2, <1>4, <3>1 DEF StopOwner, Queue
    <3>2. CASE attempt.gen = 0
      BY <1>4, <3>2, QueueEmptied DEF StopOwner
    <3> QED  BY <3>1, <3>2
  <2>2. generation' = 0
    BY <1>4, CleanupStarted DEF StopOwner
  <2> QED  BY <1>1, <2>1, <2>2 DEF KeepsAttempt, Queued, Driven, Accepted, Stopped, Resumable
<1> QED  BY <1>3, <1>4

(* A loss or a takeover answers the queued workers. *)
LEMMA QueuedWatch ==
  ASSUME TypeOK, Slots, Queued, NEW g \in watching \cup late, WatchStep(g)
  PROVE  Queued'
<1> USE DEF loopVars, callVars, sessionVars
<1>1. UNCHANGED << attempt, stopping, taken >>
  BY DEF WatchStep, EndGeneration, IgnoreGenerationEnd, LateTakeover, EndWatch
<1>2. CASE EndGeneration(g)
  <2>1. PICK cause \in {"taken_over", "uncertain"} :
          /\ ownership' = cause /\ FailQueued(NotSent(cause)) /\ StartCleanup(cause, NoCall)
    BY <1>2, Zenon DEF EndGeneration
  <2>2. generation # 0
    BY <1>2 DEF EndGeneration, Slots, Numbered
  <2>3. Queue' = {} /\ \A c \in Calls : worker'[c] = "canceled" => worker[c] = "canceled"
    BY <2>1, QueueEmptied
  <2>4. ownership' \in Sticky
    BY <2>1 DEF Sticky
  <2> QED  BY <1>1, <2>1, <2>2, <2>3, <2>4, QueuedClose
<1>3. CASE LateTakeover(g)
  <2>1. CASE LateTakeoverCounts(g)
    <3>1. FailQueued(NotSent("taken_over")) /\ ownership' = "taken_over" /\ UNCHANGED generation
      BY <1>3, <2>1 DEF LateTakeover
    <3>2. Queue' = {} /\ \A c \in Calls : worker'[c] = "canceled" => worker[c] = "canceled"
      BY <3>1, QueueEmptied
    <3> QED  BY <1>1, <3>1, <3>2 DEF Queued, Driven, Accepted, Stopped, Resumable, Sticky
  <2>2. CASE ~LateTakeoverCounts(g)
    BY <1>1, <1>3, <2>2, QueuedQuiet DEF LateTakeover, Queue
  <2> QED  BY <2>1, <2>2
<1>4. CASE IgnoreGenerationEnd(g) \/ EndWatch(g)
  BY <1>1, <1>4, QueuedQuiet DEF IgnoreGenerationEnd, EndWatch, Queue
<1> QED  BY <1>2, <1>3, <1>4 DEF WatchStep

(* The idle lease closes a generation nobody is queued for. *)
LEMMA QueuedIdle ==
  ASSUME TypeOK, Slots, Queued, NEW g, CloseIdle(g),
         UNCHANGED << ownership, stopping, attempt, worker, taken >>
  PROVE  Queued'
<1>1. CASE generation = g /\ generation # 0 /\ NoDeviceWork
  <2>1. Queue = {} /\ Queue' = Queue
    BY <1>1 DEF NoDeviceWork, Registered, Queue
  <2> QED  BY <1>1, <2>1, QueuedClose DEF CloseIdle
<1>2. CASE ~(generation = g /\ generation # 0 /\ NoDeviceWork)
  BY <1>2, QueuedQuiet DEF CloseIdle, Queue
<1> QED  BY <1>1, <1>2

(* A cleanup that fails answers the queue; one that ends with work queued     *)
(* ends in "idle" and connects, or answers it.                             *)
LEMMA QueuedCleanup ==
  ASSUME TypeOK, Slots, Owed, Paired, Latched, Queued, FailCleanup \/ FinishCleanup
  PROVE  Queued'
<1> USE DEF loopVars, sessionVars
<1>1. /\ Pending /\ attempt.gen = 0 /\ generation = 0 /\ generation' = 0
      /\ UNCHANGED << stopping, taken >>
  BY DEF FailCleanup, FinishCleanup, Pending, Slots, OneSlot
<1>2. \A c \in Calls : worker[c] # "canceled"
  BY <1>1 DEF Queued, Driven
<1>3. CASE FailCleanup
  <2>1. FailQueued(NotSent("busy")) /\ cleanup'.failed
    BY <1>3 DEF FailCleanup, TypeOK, Cleanups
  <2>2. Queue' = {} /\ \A c \in Calls : worker'[c] = "canceled" => worker[c] = "canceled"
    BY <2>1, QueueEmptied
  <2> QED  BY <1>1, <1>2, <2>1, <2>2 DEF Queued, Driven, Accepted, Stopped, Resumable, Pending
<1>4. CASE FinishCleanup
  <2>1. cleanup'.gen = 0 /\ ownership' = CleanupTarget
    BY <1>4 DEF FinishCleanup, NoCleanup
  <2>2. Stopped' /\ Resumable'
    BY <1>1, <2>1 DEF Stopped, Resumable, Pending
  <2>3. ASSUME UNCHANGED worker, Queue = {} PROVE Queued'
    <3>1. \A c \in Calls : worker'[c] \notin {"queued", "canceled"}
      BY <1>2, <2>3 DEF Queue
    <3> QED  BY <2>2, <3>1, QueuedNobody
  <2>4. CASE ResumeTakeover
    <3>1. Attached # {}
      BY <2>4 DEF ResumeTakeover, Attached
    <3>2. Queue = {}
      BY <3>1, LatchedAlone DEF Queue, Registered
    <3> QED  BY <2>3, <2>4, <3>2 DEF ResumeTakeover
  <2>5. CASE ResumeQueue
    <3>1. CASE MayResume /\ Connect(NoCall) /\ UNCHANGED << worker, result >>
      <4>1. attempt'.gen = lastGen + 1 /\ lastGen \in Nat
        BY <3>1, Connected DEF TypeOK
      <4>2. attempt'.gen # 0
        BY <4>1
      <4>3. Accepted'
        BY <1>1, <2>1, <3>1 DEF MayResume, ClearToConnect, Accepted
      <4> QED  BY <2>2, <3>1, <4>2, <4>3 DEF Queued, Driven
    <3>2. CASE FailQueued(NotSent("busy"))
      <4>1. Queue' = {} /\ \A c \in Calls : worker'[c] = "canceled" => worker[c] = "canceled"
        BY <3>2, QueueEmptied
      <4>2. \A c \in Calls : worker'[c] \notin {"queued", "canceled"}
        BY <1>2, <4>1 DEF Queue
      <4> QED  BY <2>2, <4>2, QueuedNobody
    <3>3. CASE ~MayResume /\ UNCHANGED worker
      <4>1. Queue = {}
        <5> SUFFICES ASSUME Queue # {} PROVE FALSE
          OBVIOUS
        <5>1. ~stopping /\ ownership \in {"idle", "active"}
          BY DEF Queued, Accepted
        <5>2. Attached = {} /\ validation.gen = 0
          BY LatchedAlone DEF Queue, Registered
        <5>3. cleanup.target = "idle"
          BY <1>1, <5>1, <5>2 DEF Queued, Resumable, Sticky, Attached
        <5> QED  BY <1>1, <3>3, <5>1, <5>2, <5>3 DEF MayResume, ClearToConnect, CleanupTarget
      <4> QED  BY <2>3, <3>3, <4>1
    <3> QED  BY <2>5, <3>1, <3>2, <3>3 DEF ResumeQueue
  <2> QED  BY <1>4, <2>4, <2>5 DEF FinishCleanup
<1> QED  BY <1>3, <1>4

(* A lifecycle call finds nothing queued. *)
LEMMA QueuedLifecycle ==
  ASSUME TypeOK, Slots, Owned, Owed, Paired, Latched, Queued,
         NEW l \in Lifecycles, LifecycleStep(l)
  PROVE  Queued'
<1> USE DEF loopVars, callVars, sessionVars
<1>1. l # NoCall /\ UNCHANGED << stopping, worker, taken >>
  BY DEF LifecycleStep, LifecycleAfterDone, ReleaseSession, TakeOverSession
<1>2. \A c \in Calls : worker'[c] \notin {"queued", "canceled"}
  <2>1. LifecycleLatched
    BY DEF LifecycleStep, LifecycleAfterDone, ReleaseSession, TakeOverSession, LifecycleLatched
  <2> QED  BY <1>1, <2>1, LatchedAlone DEF Registered
<1>3. Stopped' /\ Resumable'
  <2>1. ASSUME UNCHANGED << ownership, generation, cleanup >> PROVE Stopped' /\ Resumable'
    BY <1>1, <2>1 DEF Queued, Stopped, Resumable, Pending
  <2>2. CASE ReleaseSession(l)
    <3>1. CASE StartCleanup("released", l)
      BY <1>1, <3>1, CleanupStarted DEF Stopped, Resumable
    <3>2. CASE RetryCleanup(l, "released", l, cleanup.takeover) /\ UNCHANGED generation
      BY <1>1, <3>2, CleanupRetried DEF Queued, Stopped, Resumable
    <3>3. CASE ownership' = "released" /\ cleanup.gen = 0 /\ UNCHANGED << generation, cleanup >>
      BY <1>1, <3>3 DEF Queued, Stopped, Resumable, Pending
    <3> QED  BY <2>1, <2>2, <3>1, <3>2, <3>3 DEF ReleaseSession
  <2>3. CASE TakeOverSession(l)
    <3>1. UNCHANGED << ownership, generation >>
      BY <2>3 DEF TakeOverSession
    <3>2. CASE cleanup' = [cleanup EXCEPT !.takeover = l]
      <4>1. cleanup'.gen = cleanup.gen /\ cleanup'.failed = cleanup.failed
            /\ cleanup'.target = cleanup.target /\ cleanup'.reply = cleanup.reply
        BY <3>2 DEF TypeOK, Cleanups
      <4> QED  BY <1>1, <3>1, <4>1 DEF Queued, Stopped, Resumable, Pending
    <3>3. CASE RetryCleanup(l, cleanup.target, NoCall, l) /\ Broken
      BY <1>1, <3>1, <3>3 DEF Queued, Stopped, Resumable, Owned, SlotsMatch, Sticky
    <3> QED  BY <2>1, <2>3, <3>1, <3>2, <3>3 DEF TakeOverSession
  <2>4. CASE LifecycleAfterDone(l)
    BY <2>1, <2>4 DEF LifecycleAfterDone
  <2> QED  BY <2>2, <2>3, <2>4 DEF LifecycleStep
<1> QED  BY <1>2, <1>3, QueuedNobody

(* So does a validation. *)
LEMMA QueuedValidation ==
  ASSUME TypeOK, Slots, Owed, Paired, Latched, Queued, NEW g \in validators, FinishValidation(g)
  PROVE  Queued'
<1> USE DEF loopVars, callVars, sessionVars
<1>1. UNCHANGED << attempt, stopping, worker, taken >>
  BY DEF FinishValidation
<1>2. CASE UNCHANGED << ownership, generation, cleanup >>
  BY <1>1, <1>2, QueuedQuiet DEF Queue
<1>3. CASE /\ validation.gen = g /\ ownership' = "uncertain" /\ generation = g
           /\ StartCleanup("uncertain", NoCall)
  <2>1. g # 0
    BY DEF Slots, Numbered
  <2>2. Registered = {}
    BY <1>3, <2>1, LatchedAlone
  <2>3. Queue' = {}
    BY <1>1, <2>2 DEF Queue, Registered
  <2> QED  BY <1>1, <1>3, <2>1, <2>3, QueuedClose DEF Sticky
<1> QED  BY <1>2, <1>3 DEF FinishValidation

\* Every step keeps the queue with something that will drive it.
LEMMA StepQueued ==
  TypeOK /\ Slots /\ Owned /\ Owed /\ Paired /\ Latched /\ Queued /\ [Next]_vars => Queued'
<1> SUFFICES ASSUME TypeOK, Slots, Owned, Owed, Paired, Latched, Queued, [Next]_vars
             PROVE  Queued'
  OBVIOUS
<1> USE DEF loopVars, timerVars, callVars, sessionVars, watchVars
<1> DEFINE Quiet == UNCHANGED << ownership, stopping, attempt, generation, cleanup, worker >>
<1>1. ASSUME Quiet, taken \subseteq taken' PROVE Queued'
  BY <1>1, QueuedQuiet DEF Queue
<1>2. CASE Environment
  <2>1. CASE \/ \E c \in Calls : Admit(c) \/ RefuseBusy(c) \/ CancelContext(c)
             \/ \E l \in Lifecycles : BeginLifecycle(l)
             \/ \E s \in Stops : StopAfterDone(s) \/ StopExpired(s)
             \/ \E g \in open : LoseSession(g)
             \/ \E g \in open \cup late : RecognizeTakeover(g)
    <3>1. Quiet /\ taken \subseteq taken'
      BY <2>1 DEF Admit, RefuseBusy, CancelContext, BeginLifecycle, StopAfterDone, StopExpired,
                  LoseSession, RecognizeTakeover
    <3> QED  BY <1>1, <3>1
  <2> QED  BY <1>2, <2>1, QueuedStop DEF Environment
<1>3. ASSUME NEW c \in Calls, CallerStep(c) PROVE Queued'
  <2>1. CASE \/ PassGate(c) \/ GiveUpRegistration(c) \/ ReceiveReply(c) \/ NoticeCancel(c)
             \/ CancelAfterDone(c) \/ Leave(c) \/ NotifyDemand(c) \/ RefuseWorker(c)
    <3>1. Quiet /\ UNCHANGED taken
      BY <2>1 DEF PassGate, GiveUpRegistration, ReceiveReply, NoticeCancel, CancelAfterDone,
                  Leave, NotifyDemand, RefuseWorker
    <3> QED  BY <1>1, <3>1
  <2> QED  BY <1>3, <2>1, QueuedRegister, QueuedCancel DEF CallerStep
<1>4. ASSUME NEW c \in Calls, OperationStep(c) PROVE Queued'
  BY <1>4, QueuedOperation
<1>5. CASE AttemptStep
  <2>1. CASE FailConnect \/ FinishConnect \/ FailSetup \/ CloseFailedSetup
    <3>1. KeepsAttempt
      BY <2>1, AttemptRuns
    <3>2. UNCHANGED << ownership, stopping, generation, cleanup, worker, taken >>
      BY <2>1, Zenon DEF FailConnect, FinishConnect, FailSetup, CloseFailedSetup
    <3> QED  BY <3>1, <3>2, QueuedQuiet DEF KeepsAttempt, Queue
  <2> QED  BY <1>5, <2>1, QueuedReports DEF AttemptStep
<1>6. ASSUME NEW g \in watching \cup late, WatchStep(g) PROVE Queued'
  BY <1>6, QueuedWatch
<1>7. CASE TimerStep \/ StrayExpired
  <2>1. UNCHANGED << ownership, stopping, attempt, worker, taken >>
    BY <1>7 DEF TimerStep, FireTimer, IdleExpired, DropExpiry, StrayExpired
  <2>2. CASE IdleExpired
    BY <2>1, <2>2, QueuedIdle DEF IdleExpired
  <2>3. CASE StrayExpired
    BY <2>1, <2>3, QueuedIdle DEF StrayExpired
  <2>4. CASE FireTimer \/ DropExpiry
    BY <1>1, <2>4 DEF FireTimer, DropExpiry
  <2> QED  BY <1>7, <2>2, <2>3, <2>4 DEF TimerStep
<1>8. CASE CleanupStep
  BY <1>8, QueuedCleanup DEF CleanupStep
<1>9. ASSUME NEW l \in Lifecycles, LifecycleStep(l) PROVE Queued'
  BY <1>9, QueuedLifecycle
<1>10. ASSUME NEW g \in validators, FinishValidation(g) PROVE Queued'
  BY <1>10, QueuedValidation
<1>11. CASE UNCHANGED vars
  BY <1>1, <1>11 DEF vars
<1> QED  BY <1>2, <1>3, <1>4, <1>5, <1>6, <1>7, <1>8, <1>9, <1>10, <1>11 DEF Next

(* A queued worker always has somebody who will start it or answer it, in      *)
(* every execution: its attempt, a cleanup under way, or the watcher of the   *)
(* taken-over generation.                                                  *)
THEOREM QueueIsDriven == Spec => []QueueHasDriver
<1>1. Spec => []TypeOK
  BY TypeCorrect
<1>2. Queued /\ Watched => QueueHasDriver
  BY DEF Queued, Driven, Watched, QueueHasDriver
<1> QED  BY <1>1, <1>2, InitSlots, StepSlots, InitOwned, StepOwned, InitOwed, StepOwed,
            InitDone, StepDone, InitPaired, StepPaired, InitLatched, StepLatched,
            InitWatched, StepWatched, InitQueued, StepQueued, PTL DEF Spec

-----------------------------------------------------------------------------
(* The idle lease, on a device that no TakeOverContext is called for: a        *)
(* validation that fails its ping leaves the lease stopped.                  *)

NotValidated == validation.gen = 0 /\ validators = {}

(* Without takeovers nothing is ever validated. *)
LEMMA InitNotValidated == Init => NotValidated
BY DEF Init, NotValidated, NoValidation

\* Without a takeover nothing is ever validated.
LEMMA StepNotValidated == ASSUME Takeovers = {} PROVE NotValidated /\ [Next]_vars => NotValidated'
<1> SUFFICES ASSUME NotValidated, [Next]_vars PROVE NotValidated'
  OBVIOUS
<1> USE DEF loopVars, timerVars, callVars, sessionVars, watchVars
<1>1. ASSUME UNCHANGED << validation, validators >> PROVE NotValidated'
  BY <1>1 DEF NotValidated
<1>2. CASE Environment
  BY <1>1, <1>2 DEF Environment, Admit, RefuseBusy, CancelContext, BeginLifecycle, StopOwner,
              StopAfterDone, StopExpired, LoseSession, RecognizeTakeover
<1>3. ASSUME NEW c \in Calls, CallerStep(c) PROVE NotValidated'
  BY <1>1, <1>3 DEF CallerStep, PassGate, GiveUpRegistration, ReceiveReply, NoticeCancel,
              CancelAfterDone, Leave, NotifyDemand, RefuseWorker, RegisterAndConnect,
              RegisterAndQueue, RegisterAndStart, CancelWorker
<1>4. ASSUME NEW c \in Calls, OperationStep(c) PROVE NotValidated'
  BY <1>1, <1>4 DEF OperationStep, PassSendCheck, SendRPC, EndOperation, CompleteWorker
<1>5. CASE AttemptStep
  <2>1. UNCHANGED << validation, validators >>
    BY <1>5, Zenon DEF AttemptStep, FailConnect, FinishConnect, FailSetup, CloseFailedSetup,
                       FailAttempt, ActivateAttempt, OrphanAttempt
  <2> QED  BY <1>1, <2>1
<1>6. ASSUME NEW g \in watching \cup late, WatchStep(g) PROVE NotValidated'
  BY <1>1, <1>6 DEF WatchStep, EndGeneration, IgnoreGenerationEnd, LateTakeover, EndWatch,
                    NotValidated, NoValidation
<1>7. CASE TimerStep \/ StrayExpired
  BY <1>1, <1>7 DEF TimerStep, FireTimer, IdleExpired, DropExpiry, StrayExpired
<1>8. CASE CleanupStep
  BY <1>1, <1>8 DEF CleanupStep, FailCleanup, FinishCleanup
<1>9. ASSUME NEW l \in Lifecycles, LifecycleStep(l) PROVE NotValidated'
  BY <1>1, <1>9 DEF LifecycleStep, LifecycleAfterDone, ReleaseSession, TakeOverSession
<1>10. ASSUME NEW g \in validators, FinishValidation(g) PROVE NotValidated'
  BY DEF NotValidated
<1>11. CASE UNCHANGED vars
  BY <1>1, <1>11 DEF vars
<1> QED  BY <1>2, <1>3, <1>4, <1>5, <1>6, <1>7, <1>8, <1>9, <1>10, <1>11 DEF Next

(* Nothing uses the device, and nobody is about to say so. *)
Unused == NoDeviceWork /\ \A c \in Calls : pc[c] # "notify"

(* The lease of generation g runs, or its expiry is on its way. *)
LeaseRuns(g) == timer # "none" \/ g \in ToSet(stray)

(* Removing an element of a sequence keeps the others. *)
LEMMA RemoveAtKeeps ==
  ASSUME NEW q \in Seq(Nat), NEW i \in 1 .. Len(q), NEW g \in ToSet(q), g # q[i]
  PROVE  g \in ToSet(RemoveAt(q, i))
<1> DEFINE front == SubSeq(q, 1, i - 1)
           back == SubSeq(q, i + 1, Len(q))
<1>1. PICK j \in 1 .. Len(q) : q[j] = g
  BY DEF ToSet
<1>2. /\ front \in Seq(Nat) /\ Len(front) = i - 1
      /\ \A k \in 1 .. (i - 1) : front[k] = q[k]
  OBVIOUS
<1>3. /\ back \in Seq(Nat) /\ Len(back) = Len(q) - i
      /\ \A k \in 1 .. (Len(q) - i) : back[k] = q[i + k]
  OBVIOUS
<1>4. RemoveAt(q, i) = front \o back
  BY DEF RemoveAt
<1> HIDE DEF front, back
<1>5. /\ front \o back \in Seq(Nat) /\ Len(front \o back) = Len(q) - 1
      /\ \A k \in 1 .. (i - 1) : (front \o back)[k] = front[k]
      /\ \A k \in i .. (Len(q) - 1) : (front \o back)[k] = back[k - (i - 1)]
  <2>1. /\ front \o back \in Seq(Nat)
        /\ Len(front \o back) = Len(front) + Len(back)
        /\ \A k \in 1 .. (Len(front) + Len(back)) :
             (front \o back)[k] = IF k <= Len(front) THEN front[k] ELSE back[k - Len(front)]
    BY <1>2, <1>3, ConcatProperties
  <2> DEFINE c == front \o back
  <2>2. /\ c \in Seq(Nat) /\ Len(c) = (i - 1) + (Len(q) - i)
        /\ \A k \in 1 .. ((i - 1) + (Len(q) - i)) :
             c[k] = IF k <= i - 1 THEN front[k] ELSE back[k - (i - 1)]
    BY <1>2, <1>3, <2>1
  <2> HIDE DEF c
  <2>3. (i - 1) + (Len(q) - i) = Len(q) - 1
    OBVIOUS
  <2>4. Len(q) \in Nat /\ i \in Nat /\ 1 <= i /\ i <= Len(q)
    OBVIOUS
  <2>5. ASSUME NEW k \in 1 .. (i - 1) PROVE c[k] = front[k]
    <3>1. k \in 1 .. (Len(q) - 1) /\ k <= i - 1
      BY <2>4, <2>5
    <3> QED  BY <2>2, <2>3, <3>1
  <2>6. ASSUME NEW k \in i .. (Len(q) - 1) PROVE c[k] = back[k - (i - 1)]
    <3>1. k \in 1 .. (Len(q) - 1) /\ ~(k <= i - 1)
      BY <2>4, <2>6
    <3> QED  BY <2>2, <2>3, <3>1
  <2> QED  BY <2>2, <2>3, <2>5, <2>6 DEF c
<1>6. \E k \in 1 .. Len(front \o back) : (front \o back)[k] = g
  <2>1. CASE j < i
    <3>1. j \in 1 .. (i - 1) /\ j \in 1 .. (Len(q) - 1)
      BY <2>1
    <3> QED  BY <1>1, <1>2, <1>5, <3>1
  <2>2. CASE j > i
    <3>1. /\ j - i \in 1 .. (Len(q) - i) /\ i + (j - i) = j
          /\ j - 1 \in i .. (Len(q) - 1) /\ (j - 1) - (i - 1) = j - i
          /\ j - 1 \in 1 .. (Len(q) - 1)
      BY <2>2
    <3>2. back[j - i] = q[j]
      BY <1>3, <3>1
    <3>3. (front \o back)[j - 1] = back[j - i]
      BY <1>5, <3>1
    <3> QED  BY <1>1, <1>5, <3>1, <3>2, <3>3
  <2> QED  BY <1>1, <2>1, <2>2
<1> DEFINE r == front \o back
<1>7. r \in Seq(Nat) /\ \E k \in 1 .. Len(r) : r[k] = g
  BY <1>5, <1>6
<1> HIDE DEF r
<1>8. g \in ToSet(r)
  BY <1>7 DEF ToSet
<1> QED  BY <1>4, <1>8 DEF r

(* A step of a call that leaves the device unused found it so, but for the     *)
(* notification of the last caller.                                        *)
LEMMA UnusedSteps ==
  ASSUME TypeOK, Paired, NEW c \in Calls,
         Admit(c) \/ RefuseBusy(c) \/ CallerStep(c) \/ OperationStep(c), Unused'
  PROVE  \/ Unused /\ UNCHANGED << generation, timerVars >>
         \/ NotifyDemand(c) /\ NoDeviceWork'
<1> USE DEF loopVars, timerVars, callVars, sessionVars, watchVars
<1>1. pc \in [Calls -> CallLocations]
  BY DEF TypeOK
<1>2. /\ \A d \in Calls : pc'[d] \in {"start", "returned"}
      /\ NoDeviceWork'
  <2>1. pc' \in [Calls -> CallLocations]
    BY <1>1, CallerMoves, OperationMoves, StepTypes DEF Next, Environment, TypeOK
  <2> QED  BY <2>1 DEF Unused, NoDeviceWork, Demand, CallLocations
<1>3. ASSUME \A d \in Calls : pc[d] \in {"start", "returned"} PROVE Unused
  BY <1>3 DEF Unused, NoDeviceWork, Demand, Registered, Paired, Waiting
<1>4. ASSUME OthersServed(c), pc[c] \in {"start", "returned"} PROVE Unused
  BY <1>2, <1>3, <1>4 DEF OthersServed
<1>5. OthersServed(c)
  BY CallerMoves, OperationMoves
<1>6. CASE Admit(c) \/ RefuseBusy(c)
  BY <1>4, <1>5, <1>6 DEF Admit, RefuseBusy
<1>7. CASE NotifyDemand(c)
  BY <1>2, <1>7
<1>8. CASE OperationStep(c)
  <2>1. UNCHANGED pc /\ c \in Registered
    BY <1>8, OperationMoves DEF OperationStep, PassSendCheck, SendRPC, EndOperation, CompleteWorker, Registered
  <2>2. pc[c] \in Waiting
    BY <2>1 DEF Paired
  <2> QED  BY <1>2, <2>1, <2>2 DEF Waiting
<1>9. CASE Leave(c)
  <2>1. LastCaller(c) => pc'[c] = "notify"
    BY <1>1, <1>9 DEF Leave, Goto
  <2>2. PICK d \in Calls : d # c /\ pc[d] \notin {"start", "notify", "returned"}
    <3>1. Demand # {c} /\ c \in Demand
      BY <1>2, <1>9, <2>1 DEF LastCaller, Leave, Demand
    <3> QED  BY <3>1 DEF Demand
  <2> QED  BY <1>2, <1>5, <2>2 DEF OthersServed
<1>10. CASE \/ PassGate(c) \/ GiveUpRegistration(c) \/ ReceiveReply(c) \/ NoticeCancel(c)
            \/ CancelAfterDone(c) \/ RefuseWorker(c) \/ RegisterAndConnect(c)
            \/ RegisterAndQueue(c) \/ RegisterAndStart(c) \/ CancelWorker(c)
  <2>1. pc'[c] \in {"register", "wait", "cancel", "await", "leave"}
    BY <1>1, <1>10 DEF PassGate, GiveUpRegistration, ReceiveReply, NoticeCancel, CancelAfterDone,
              RefuseWorker, RegisterAndConnect, RegisterAndQueue, RegisterAndStart,
              CancelWorker, Goto, Return
  <2> QED  BY <1>2, <2>1
<1> QED  BY <1>6, <1>7, <1>8, <1>9, <1>10 DEF CallerStep

(* The lease of an unused generation that is neither lost nor taken over. *)
Leased ==
  generation # 0 /\ generation \notin lost \cup taken /\ ~loopDone /\ Unused
    => LeaseRuns(generation)

(* Initially there is no generation. *)
LEMMA InitLeased == Init => Leased
BY DEF Init, Leased

(* The end of a lease closes an unused generation; a lease that ended late and *)
(* names another generation leaves this one's expiry on its way.             *)
LEMMA TimerLeased ==
  ASSUME TypeOK, Leased, TimerStep \/ StrayExpired
  PROVE  Leased'
<1> USE DEF loopVars, timerVars, callVars, sessionVars
<1> SUFFICES ASSUME generation' # 0, generation' \notin lost' \cup taken', ~loopDone', Unused'
             PROVE  LeaseRuns(generation)'
  BY DEF Leased
<1>1. /\ UNCHANGED << pc, worker, lost, taken >>
      /\ Unused
  <2>1. UNCHANGED << pc, worker, lost, taken >>
    BY DEF TimerStep, FireTimer, IdleExpired, DropExpiry, StrayExpired
  <2> QED  BY <2>1 DEF Unused, NoDeviceWork, Registered, Demand
<1>2. stray \in Seq(Nat) /\ generation \in Nat
  BY DEF TypeOK
<1>3. CASE FireTimer
  BY <1>3 DEF FireTimer, LeaseRuns
<1>4. CASE DropExpiry
  BY <1>4 DEF DropExpiry
<1>5. CASE IdleExpired
  BY <1>1, <1>5 DEF IdleExpired, CloseIdle, StartCleanup, Unused
<1>6. CASE StrayExpired
  <2>1. PICK i \in 1 .. Len(stray) :
          /\ stray' = IF timer = "none" THEN RemoveAt(stray, i)
                      ELSE Append(RemoveAt(stray, i), generation)
          /\ CloseIdle(stray[i])
    BY <1>6, Zenon DEF StrayExpired
  <2>2. generation' = generation /\ stray[i] # generation
    BY <1>1, <2>1 DEF CloseIdle, StartCleanup, Unused
  <2>3. RemoveAt(stray, i) \in Seq(Nat)
    BY <1>2, RemoveAtType
  <2>4. CASE timer = "none"
    <3>1. generation \in ToSet(stray)
      BY <1>1, <1>6, <2>2, <2>4 DEF Leased, LeaseRuns, StrayExpired
    <3> QED  BY <1>2, <2>1, <2>2, <2>4, <3>1, RemoveAtKeeps DEF LeaseRuns
  <2>5. CASE timer # "none"
    <3> DEFINE r == RemoveAt(stray, i)
    <3>1. r \in Seq(Nat) /\ stray' = Append(r, generation)
      BY <2>1, <2>3, <2>5
    <3> HIDE DEF r
    <3>2. Len(r) + 1 \in DOMAIN stray' /\ stray'[Len(r) + 1] = generation
      BY <1>2, <3>1
    <3> QED  BY <2>2, <3>2 DEF LeaseRuns, ToSet
  <2> QED  BY <2>4, <2>5
<1> QED  BY <1>3, <1>4, <1>5, <1>6 DEF TimerStep

(* A step that touches neither the generation nor its lease keeps it. *)
LEMMA LeasedQuiet ==
  ASSUME Leased, UNCHANGED << generation, timerVars, pc >>, lost \subseteq lost',
         taken \subseteq taken', loopDone => loopDone', Unused' => Unused
  PROVE  Leased'
BY DEF Leased, LeaseRuns, timerVars

(* So does one that closes the generation, or finds none. *)
LEMMA LeasedNone == ASSUME generation' = 0 PROVE Leased'
BY DEF Leased

(* The last user of a generation starts its lease (scheduleIdle), and so does   *)
(* an activation nobody waits for any more.                                *)
LEMMA StepLeased ==
  ASSUME Takeovers = {}
  PROVE  TypeOK /\ Slots /\ Done /\ Paired /\ Stopped /\ NotValidated /\ Leased /\ [Next]_vars
           => Leased'
<1> SUFFICES ASSUME TypeOK, Slots, Done, Paired, Stopped, NotValidated, Leased, [Next]_vars
             PROVE  Leased'
  OBVIOUS
<1> USE DEF loopVars, timerVars, callVars, sessionVars, watchVars
<1>1. loopDone => loopDone'
  BY AfterDone
<1>2. UNCHANGED << pc >> /\ UNCHANGED worker => (Unused' => Unused)
  BY DEF Unused, NoDeviceWork, Registered, Demand
<1>3. UNCHANGED pc => (Unused' => Unused)
  <2>1. Unused' /\ UNCHANGED pc => \A c \in Calls : pc[c] \in {"start", "returned"}
    BY DEF Unused, NoDeviceWork, Demand, TypeOK, CallLocations
  <2> QED  BY <2>1 DEF Unused, NoDeviceWork, Demand, Registered, Paired, Waiting
<1>4. ASSUME UNCHANGED << generation, timerVars, pc >>, lost \subseteq lost', taken \subseteq taken'
      PROVE  Leased'
  BY <1>1, <1>3, <1>4, LeasedQuiet
<1>5. CASE Environment
  <2>1. CASE \/ \E c \in Calls : CancelContext(c)
             \/ \E l \in Lifecycles : BeginLifecycle(l)
             \/ \E s \in Stops : StopAfterDone(s) \/ StopExpired(s)
             \/ \E g \in open : LoseSession(g)
             \/ \E g \in open \cup late : RecognizeTakeover(g)
    <3>1. UNCHANGED << generation, timerVars, pc >> /\ lost \subseteq lost' /\ taken \subseteq taken'
      BY <2>1 DEF CancelContext, BeginLifecycle, StopAfterDone, StopExpired,
                  LoseSession, RecognizeTakeover
    <3> QED  BY <1>4, <3>1
  <2>2. ASSUME NEW s \in Stops, StopOwner(s) PROVE Leased'
    BY <2>2, LeasedNone, CleanupStarted DEF StopOwner, Stopped
  <2>3. ASSUME NEW c \in Calls, Admit(c) \/ RefuseBusy(c) PROVE Leased'
    <3>1. UNCHANGED << lost, taken >>
      BY <2>3 DEF Admit, RefuseBusy
    <3> QED  BY <1>1, <2>3, <3>1, UnusedSteps DEF Leased, LeaseRuns, Admit, RefuseBusy, NotifyDemand
  <2> QED  BY <1>5, <2>1, <2>2, <2>3 DEF Environment
<1>6. ASSUME NEW c \in Calls, CallerStep(c) \/ OperationStep(c) PROVE Leased'
  <2>1. UNCHANGED << lost, taken >>
    BY <1>6 DEF OperationStep, PassSendCheck, SendRPC, EndOperation, CompleteWorker, CallerStep, PassGate,
              GiveUpRegistration, ReceiveReply, NoticeCancel, CancelAfterDone, Leave,
              NotifyDemand, RefuseWorker, RegisterAndConnect, RegisterAndQueue,
              RegisterAndStart, CancelWorker
  <2>2. CASE Unused' /\ NotifyDemand(c) /\ NoDeviceWork'
    <3>1. ASSUME generation # 0, ~loopDone PROVE timer' # "none"
      <4>1. MayScheduleIdle'
        BY <2>2, <3>1 DEF NotifyDemand, MayScheduleIdle, Stopped, Slots, OneSlot
      <4> QED  BY <2>2, <3>1, <4>1 DEF NotifyDemand
    <3> QED  BY <1>1, <2>2, <3>1 DEF Leased, LeaseRuns, NotifyDemand
  <2>3. CASE Unused /\ UNCHANGED << generation, timerVars >>
    BY <1>1, <2>1, <2>3 DEF Leased, LeaseRuns
  <2>4. CASE ~Unused'
    BY <2>4 DEF Leased
  <2> QED  BY <1>6, <2>2, <2>3, <2>4, UnusedSteps
<1>7. CASE AttemptStep
  <2>1. CASE FailConnect \/ FinishConnect \/ FailSetup \/ CloseFailedSetup \/ FailAttempt
             \/ OrphanAttempt
    <3>1. /\ UNCHANGED << generation, timerVars, pc, taken >>
          /\ UNCHANGED lost \/ lost' = lost \cup {attempt.gen}
      BY <2>1, Zenon DEF FailConnect, FinishConnect, FailSetup, CloseFailedSetup, FailAttempt,
                         OrphanAttempt
    <3> QED  BY <1>4, <3>1
  <2>2. CASE ActivateAttempt
    <3>1. /\ ~stopping' /\ attempt'.gen = 0 /\ generation' # 0 /\ cleanup'.gen = 0
      BY <2>2 DEF ActivateAttempt, Wanted, NoAttempt, Slots, OneSlot
    <3>2. Unused' => timer' # "none"
      BY <2>2, <3>1 DEF ActivateAttempt, MayScheduleIdle, Unused
    <3> QED  BY <3>2 DEF Leased, LeaseRuns
  <2> QED  BY <1>7, <2>1, <2>2 DEF AttemptStep
<1>8. ASSUME NEW g \in watching \cup late, WatchStep(g) PROVE Leased'
  <2>1. CASE EndGeneration(g)
    BY <2>1, LeasedNone DEF EndGeneration, StartCleanup
  <2>2. CASE IgnoreGenerationEnd(g) \/ LateTakeover(g) \/ EndWatch(g)
    <3>1. UNCHANGED << generation, timerVars, pc, lost, taken >>
      BY <2>2 DEF IgnoreGenerationEnd, LateTakeover, EndWatch
    <3> QED  BY <1>4, <3>1
  <2> QED  BY <1>8, <2>1, <2>2 DEF WatchStep
<1>9. CASE TimerStep \/ StrayExpired
  BY <1>9, TimerLeased
<1>10. CASE CleanupStep
  <2>1. generation' = 0
    BY <1>10 DEF CleanupStep, FailCleanup, FinishCleanup, Pending, Slots, OneSlot
  <2> QED  BY <2>1, LeasedNone
<1>11. ASSUME NEW l \in Lifecycles, LifecycleStep(l) PROVE Leased'
  <2>1. UNCHANGED << pc, lost, taken >>
    BY <1>11 DEF LifecycleStep, LifecycleAfterDone, ReleaseSession, TakeOverSession
  <2>2. UNCHANGED << generation, timerVars >> \/ generation' = 0
    BY <1>11, CleanupStarted DEF LifecycleStep, LifecycleAfterDone, ReleaseSession, TakeOverSession
  <2> QED  BY <1>4, <2>1, <2>2, LeasedNone
<1>12. ASSUME NEW g \in validators, FinishValidation(g) PROVE Leased'
  BY DEF NotValidated
<1>13. CASE UNCHANGED vars
  BY <1>4, <1>13 DEF vars
<1> QED  BY <1>5, <1>6, <1>7, <1>8, <1>9, <1>10, <1>11, <1>12, <1>13 DEF Next

(* A resident generation that nothing uses has its idle lease running, or an    *)
(* expiry on its way, in every execution without takeovers.                 *)
THEOREM LeaseIsRunning == ASSUME Takeovers = {} PROVE Spec => []IdleLeaseRuns
<1>1. Spec => []TypeOK
  BY TypeCorrect
<1>2. NotValidated /\ [Next]_vars => NotValidated'
  BY StepNotValidated
<1>3. TypeOK /\ Slots /\ Done /\ Paired /\ Stopped /\ NotValidated /\ Leased /\ [Next]_vars
        => Leased'
  BY StepLeased
<1>4. Queued => Stopped
  BY DEF Queued
<1>5. Leased => IdleLeaseRuns
  BY DEF Leased, LeaseRuns, Unused, IdleLeaseRuns
<1> QED  BY <1>1, <1>2, <1>3, <1>4, <1>5, InitSlots, StepSlots, InitOwned, StepOwned,
            InitOwed, StepOwed, InitDone, StepDone, InitPaired, StepPaired, InitLatched,
            StepLatched, InitQueued, StepQueued, InitNotValidated, InitLeased, PTL DEF Spec

=============================================================================
