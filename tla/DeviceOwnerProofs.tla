------------------------- MODULE DeviceOwnerProofs -------------------------
(***************************************************************************)
(* Proofs about DeviceOwner for any number of calls, lifecycle calls and    *)
(* Close calls: the type invariant, the exclusion of attempt, generation     *)
(* and cleanup, and, when neither the connector nor the ping panics, that    *)
(* every session which may still hold resources is one of the three.        *)
(***************************************************************************)
EXTENDS DeviceOwner, TLAPS

USE CallsAssumption DEF CallsAssumption

LifeStates == [phase : {"start", "latched", "waiting", "returned"}, answer : Results]
StopStates == {"start", "waiting", "ok", "failed", "expired", "ended"}
Replies == Lifecycles \cup {NoCall}

-----------------------------------------------------------------------------
(* Every answer the owner gives is a result. *)
LEMMA ResultTypes ==
  /\ None \in Results /\ Ok \in Results /\ Panic \in Results
  /\ \A code \in Codes : NotSent(code) \in Results /\ Failed(code) \in Results
                           /\ Unknown(code) \in Results
<1>1. \A code \in Codes : \A o \in {"not_sent", "failed", "unknown"} :
         [code |-> code, outcome |-> o] \in Results
  BY DEF Results
<1>2. None \in Results /\ Ok \in Results /\ Panic \in Results
  BY DEF Results
<1> QED  BY <1>1, <1>2 DEF NotSent, Failed, Unknown

(* The shared steps keep the types of what they assign. *)
LEMMA GotoType ==
  ASSUME TypeOK, NEW c \in Calls, NEW p \in CallLocations, Goto(c, p)
  PROVE  pc' \in [Calls -> CallLocations]
BY DEF TypeOK, Goto

\* The types of a call that returns.
LEMMA ReturnType ==
  ASSUME TypeOK, NEW c \in Calls, NEW p \in CallLocations, NEW a \in Results, Return(c, p, a)
  PROVE  pc' \in [Calls -> CallLocations] /\ result' \in [Calls -> Results]
BY GotoType DEF TypeOK, Return

\* The types of a lifecycle call that is answered.
LEMMA AnsweredType ==
  ASSUME TypeOK, NEW l \in Replies, NEW a \in Results
  PROVE  Answered(l, a) \in [Lifecycles -> LifeStates]
BY DEF TypeOK, Answered, LifeStates, Replies

\* The same, as a step.
LEMMA AnswerType ==
  ASSUME TypeOK, NEW l \in Replies, NEW a \in Results, Answer(l, a)
  PROVE  life' \in [Lifecycles -> LifeStates]
BY DEF TypeOK, Answer, LifeStates, Replies

\* The types of a lifecycle call that moves on.
LEMMA SetLifeType ==
  ASSUME TypeOK, NEW l \in Lifecycles, NEW a \in Results,
         NEW p \in {"start", "latched", "waiting", "returned"}, SetLife(l, p, a)
  PROVE  life' \in [Lifecycles -> LifeStates]
BY DEF TypeOK, SetLife, LifeStates

\* The types of a timer that is stopped.
LEMMA StopTimerType ==
  ASSUME TypeOK, StopTimer
  PROVE  timer' \in {"none", "armed", "fired"} /\ stray' \in Seq(Nat)
BY DEF TypeOK, StopTimer

\* The types of workers whose queue fails.
LEMMA FailQueuedType ==
  ASSUME TypeOK, NEW a \in Results, FailQueued(a)
  PROVE  worker' \in [Calls -> WorkerStages] /\ result' \in [Calls -> Results]
BY DEF TypeOK, FailQueued, WorkerStages

\* The types of an attempt that starts.
LEMMA ConnectType ==
  ASSUME TypeOK, NEW l \in Replies, Connect(l)
  PROVE  lastGen' \in Nat /\ attempt' \in Attempts
<1>1. lastGen' \in Nat
  BY DEF TypeOK, Connect
<1>2. attempt' = [ gen |-> lastGen', takeover |-> l, canceled |-> FALSE, phase |-> "connecting",
                   session |-> FALSE, err |-> "none", cleanupErr |-> FALSE ]
  BY DEF Connect, NoAttempt
<1> QED  BY <1>1, <1>2 DEF Attempts, Replies

\* The types of a worker that starts.
LEMMA StartNextType ==
  ASSUME TypeOK, NEW w \in [Calls -> WorkerStages], NEW r \in [Calls -> Results],
         NEW g \in Nat, StartNext(w, r, g)
  PROVE  /\ worker' \in [Calls -> WorkerStages] /\ result' \in [Calls -> Results]
         /\ bound' \in [Calls -> Nat]
<1>1. NotSent("canceled") \in Results
  BY ResultTypes DEF Codes
<1> QED  BY <1>1 DEF TypeOK, StartNext, WorkerStages

\* The types of a cleanup that starts.
LEMMA StartCleanupType ==
  ASSUME TypeOK, NEW target \in Ownerships, NEW l \in Replies, StartCleanup(target, l)
  PROVE  cleanup' \in Cleanups /\ generation' \in Nat
BY DEF TypeOK, StartCleanup, Cleanups, NoCleanup, Replies

\* The types of a loop that may end.
LEMMA SettleType ==
  ASSUME NEW stops \in [Stops -> StopStates], Settle(stops)
  PROVE  loopDone' \in BOOLEAN /\ stop' \in [Stops -> StopStates]
<1>1. Finished' \in BOOLEAN
  BY DEF Finished
<1> QED  BY <1>1 DEF Settle, StopStates

\* The values for none have the types of what they stand for.
LEMMA ConstantTypes ==
  /\ NoAttempt \in Attempts /\ NoCleanup \in Cleanups /\ NoValidation \in Validations
BY DEF NoAttempt, Attempts, NoCleanup, Cleanups, Ownerships, NoValidation, Validations
(* Every step keeps the types. *)
LEMMA RemoveAtType ==
  ASSUME NEW s \in Seq(Nat), NEW i \in 1 .. Len(s)
  PROVE  RemoveAt(s, i) \in Seq(Nat)
<1>1. SubSeq(s, 1, i - 1) \in Seq(Nat) /\ SubSeq(s, i + 1, Len(s)) \in Seq(Nat)
  OBVIOUS
<1> QED  BY <1>1 DEF RemoveAt

\* The types of a cleanup that is tried again.
LEMMA RetryCleanupType ==
  ASSUME TypeOK, NEW l \in Lifecycles, NEW target \in Ownerships,
         NEW reply \in Replies, NEW takeover \in Replies, RetryCleanup(l, target, reply, takeover)
  PROVE  cleanup' \in Cleanups
BY DEF TypeOK, RetryCleanup, Cleanups, Replies

\* Every step keeps the types.
LEMMA StepTypes == TypeOK /\ [Next]_vars => TypeOK'
<1> SUFFICES ASSUME TypeOK, [Next]_vars PROVE TypeOK'
  OBVIOUS
<1> USE DEF loopVars, timerVars, callVars, sessionVars, watchVars
<1>1. ASSUME NEW c \in Calls, Admit(c) PROVE TypeOK'
  <2>1. pc' \in [Calls -> CallLocations] /\ result' \in [Calls -> Results]
    BY <1>1, ReturnType, GotoType, ResultTypes DEF Admit, CallLocations, Codes, TypeOK
  <2> QED  BY <1>1, <2>1 DEF Admit, TypeOK, LifeStates, StopStates
<1>2. ASSUME NEW c \in Calls, RefuseBusy(c) PROVE TypeOK'
  <2>1. pc' \in [Calls -> CallLocations] /\ result' \in [Calls -> Results]
    BY <1>2, ReturnType, GotoType, ResultTypes DEF RefuseBusy, CallLocations, Codes
  <2> QED  BY <1>2, <2>1 DEF RefuseBusy, TypeOK, LifeStates, StopStates
<1>3. ASSUME NEW c \in Calls, CancelContext(c) PROVE TypeOK'
  BY <1>3 DEF CancelContext, TypeOK
<1>4. ASSUME NEW c \in Calls, PassGate(c) PROVE TypeOK'
  <2>1. pc' \in [Calls -> CallLocations] /\ result' \in [Calls -> Results]
    BY <1>4, ReturnType, GotoType, ResultTypes DEF PassGate, CallLocations, Codes, TypeOK
  <2> QED  BY <1>4, <2>1 DEF PassGate, TypeOK, LifeStates, StopStates
<1>5. ASSUME NEW c \in Calls, GiveUpRegistration(c) PROVE TypeOK'
  <2>1. pc' \in [Calls -> CallLocations] /\ result' \in [Calls -> Results]
    BY <1>5, ReturnType, GotoType, ResultTypes DEF GiveUpRegistration, CallLocations, Codes
  <2> QED  BY <1>5, <2>1 DEF GiveUpRegistration, TypeOK, LifeStates, StopStates
<1>6. ASSUME NEW c \in Calls, ReceiveReply(c) PROVE TypeOK'
  <2>1. pc' \in [Calls -> CallLocations]
    BY <1>6, GotoType DEF ReceiveReply, CallLocations
  <2> QED  BY <1>6, <2>1 DEF ReceiveReply, TypeOK, LifeStates, StopStates
<1>7. ASSUME NEW c \in Calls, NoticeCancel(c) PROVE TypeOK'
  <2>1. pc' \in [Calls -> CallLocations]
    BY <1>7, GotoType DEF NoticeCancel, CallLocations
  <2> QED  BY <1>7, <2>1 DEF NoticeCancel, TypeOK, LifeStates, StopStates
<1>8. ASSUME NEW c \in Calls, CancelAfterDone(c) PROVE TypeOK'
  <2>1. pc' \in [Calls -> CallLocations] /\ result' \in [Calls -> Results]
    BY <1>8, ReturnType, GotoType, ResultTypes DEF CancelAfterDone, CallLocations, Codes
  <2> QED  BY <1>8, <2>1 DEF CancelAfterDone, TypeOK, LifeStates, StopStates
<1>9. ASSUME NEW c \in Calls, Leave(c) PROVE TypeOK'
  <2>1. pc' \in [Calls -> CallLocations]
    BY <1>9, GotoType DEF Leave, CallLocations
  <2> QED  BY <1>9, <2>1 DEF Leave, TypeOK, LifeStates, StopStates
<1>10. ASSUME NEW c \in Calls, NotifyDemand(c) PROVE TypeOK'
  <2>1. pc' \in [Calls -> CallLocations]
    BY <1>10, GotoType DEF NotifyDemand, CallLocations
  <2> QED  BY <1>10, <2>1 DEF NotifyDemand, TypeOK, LifeStates, StopStates
<1>11. ASSUME NEW c \in Calls, RefuseWorker(c) PROVE TypeOK'
  <2>1. Refusal \in Results
    BY <1>11, ResultTypes DEF Refusal, Codes
  <2>2. pc' \in [Calls -> CallLocations] /\ result' \in [Calls -> Results]
    BY <1>11, <2>1, ReturnType DEF RefuseWorker, CallLocations
  <2> QED  BY <1>11, <2>1, <2>2 DEF RefuseWorker, TypeOK, LifeStates, StopStates
<1>12. ASSUME NEW c \in Calls, RegisterAndConnect(c) PROVE TypeOK'
  <2>1. NoCall \in Replies
    BY <1>12 DEF Replies
  <2>2. pc' \in [Calls -> CallLocations] /\ result' \in [Calls -> Results]
    BY <1>12, ReturnType, GotoType, ResultTypes DEF RegisterAndConnect, CallLocations, Codes, TypeOK
  <2>3. worker' \in [Calls -> WorkerStages]
    BY <1>12 DEF RegisterAndConnect, WorkerStages, TypeOK
  <2>4. lastGen' \in Nat /\ attempt' \in Attempts
    BY <1>12, <2>1, ConnectType DEF RegisterAndConnect, TypeOK
  <2> QED  BY <1>12, <2>1, <2>2, <2>3, <2>4 DEF RegisterAndConnect, TypeOK, LifeStates, StopStates
<1>13. ASSUME NEW c \in Calls, RegisterAndQueue(c) PROVE TypeOK'
  <2>1. pc' \in [Calls -> CallLocations]
    BY <1>13, GotoType DEF RegisterAndQueue, CallLocations
  <2>2. worker' \in [Calls -> WorkerStages]
    BY <1>13 DEF RegisterAndQueue, WorkerStages, TypeOK
  <2> QED  BY <1>13, <2>1, <2>2 DEF RegisterAndQueue, TypeOK, LifeStates, StopStates
<1>14. ASSUME NEW c \in Calls, RegisterAndStart(c) PROVE TypeOK'
  <2>1. pc' \in [Calls -> CallLocations]
    BY <1>14, GotoType DEF RegisterAndStart, CallLocations
  <2>2. [worker EXCEPT ![c] = "queued"] \in [Calls -> WorkerStages]
    BY <1>14 DEF WorkerStages, TypeOK
  <2>3. worker' \in [Calls -> WorkerStages] /\ result' \in [Calls -> Results] /\ bound' \in [Calls -> Nat]
    BY <1>14, <2>2, StartNextType DEF RegisterAndStart, TypeOK
  <2>4. timer' \in {"none", "armed", "fired"} /\ stray' \in Seq(Nat)
    BY <1>14, StopTimerType DEF RegisterAndStart, timerVars, TypeOK
  <2> QED  BY <1>14, <2>1, <2>2, <2>3, <2>4 DEF RegisterAndStart, TypeOK, LifeStates, StopStates
<1>15. ASSUME NEW c \in Calls, CancelWorker(c) PROVE TypeOK'
  <2>1. pc' \in [Calls -> CallLocations] /\ result' \in [Calls -> Results]
    BY <1>15, ReturnType, GotoType, ResultTypes DEF CancelWorker, CallLocations, Codes, TypeOK
  <2>2. worker' \in [Calls -> WorkerStages]
    BY <1>15 DEF CancelWorker, WorkerStages, TypeOK
  <2>3. attempt' \in Attempts
    BY <1>15 DEF CancelWorker, Attempts, TypeOK
  <2>4. loopDone' \in BOOLEAN /\ stop' \in [Stops -> StopStates]
    BY <1>15, SettleType DEF CancelWorker, TypeOK, StopStates
  <2> QED  BY <1>15, <2>1, <2>2, <2>3, <2>4 DEF CancelWorker, TypeOK, LifeStates, StopStates
<1>47. ASSUME NEW c \in Calls, PassSendCheck(c) PROVE TypeOK'
  <2>1. worker' \in [Calls -> WorkerStages]
    BY <1>47 DEF PassSendCheck, WorkerStages, TypeOK
  <2> QED  BY <1>47, <2>1 DEF PassSendCheck, TypeOK, LifeStates, StopStates
<1>16. ASSUME NEW c \in Calls, SendRPC(c) PROVE TypeOK'
  <2>1. worker' \in [Calls -> WorkerStages]
    BY <1>16 DEF SendRPC, WorkerStages, TypeOK
  <2> QED  BY <1>16, <2>1 DEF SendRPC, TypeOK, LifeStates, StopStates
<1>17. ASSUME NEW c \in Calls, EndOperation(c) PROVE TypeOK'
  <2>1. \A raw \in RawResults(c) : Classified(c, raw) \in Results
    <3>1. RawResults(c) \subseteq Results
      BY ResultTypes DEF RawResults, Codes
    <3>2. \A raw \in Results : Classified(c, raw) \in Results
      BY DEF Classified, Results, Codes, None, Ok, Panic, NotSent, Failed
    <3> QED  BY <3>1, <3>2
  <2>2. worker' \in [Calls -> WorkerStages] /\ result' \in [Calls -> Results]
    BY <1>17, <2>1 DEF EndOperation, WorkerStages, TypeOK
  <2> QED  BY <1>17, <2>1, <2>2 DEF EndOperation, TypeOK, LifeStates, StopStates
<1>18. ASSUME NEW c \in Calls, CompleteWorker(c) PROVE TypeOK'
  <2>1. [worker EXCEPT ![c] = "replied"] \in [Calls -> WorkerStages]
    BY <1>18 DEF WorkerStages, TypeOK
  <2>2. worker' \in [Calls -> WorkerStages] /\ result' \in [Calls -> Results] /\ bound' \in [Calls -> Nat]
    BY <1>18, <2>1, StartNextType DEF CompleteWorker, TypeOK
  <2>3. timer' \in {"none", "armed", "fired"} /\ stray' \in Seq(Nat)
    BY <1>18, StopTimerType DEF CompleteWorker, TypeOK
  <2>4. loopDone' \in BOOLEAN /\ stop' \in [Stops -> StopStates]
    BY <1>18, SettleType DEF CompleteWorker, TypeOK, StopStates
  <2> QED  BY <1>18, <2>1, <2>2, <2>3, <2>4 DEF CompleteWorker, TypeOK, LifeStates, StopStates
<1>19. ASSUME NEW l \in Lifecycles, BeginLifecycle(l) PROVE TypeOK'
  <2>1. life' \in [Lifecycles -> LifeStates]
    BY <1>19, SetLifeType, ResultTypes DEF BeginLifecycle, Codes
  <2> QED  BY <1>19, <2>1 DEF BeginLifecycle, TypeOK, LifeStates, StopStates
<1>20. ASSUME NEW l \in Lifecycles, LifecycleAfterDone(l) PROVE TypeOK'
  <2>1. life' \in [Lifecycles -> LifeStates]
    BY <1>20, SetLifeType, ResultTypes DEF LifecycleAfterDone, Codes
  <2> QED  BY <1>20, <2>1 DEF LifecycleAfterDone, TypeOK, LifeStates, StopStates
<1>21. ASSUME NEW l \in Lifecycles, ReleaseSession(l) PROVE TypeOK'
  <2>1. l \in Replies
    BY <1>21 DEF Replies
  <2>2. life' \in [Lifecycles -> LifeStates]
    BY <1>21, SetLifeType, ResultTypes DEF ReleaseSession, RetryCleanup, Codes
  <2>3. ownership' \in Ownerships
    BY <1>21 DEF ReleaseSession, Ownerships, TypeOK
  <2>4. cleanup' \in Cleanups /\ generation' \in Nat
    BY <1>21, <2>1, StartCleanupType, RetryCleanupType DEF ReleaseSession, Cleanups, Ownerships, Replies, TypeOK
  <2>5. timer' \in {"none", "armed", "fired"} /\ stray' \in Seq(Nat)
    BY <1>21, StopTimerType DEF ReleaseSession, timerVars, TypeOK
  <2>6. loopDone' \in BOOLEAN /\ stop' \in [Stops -> StopStates]
    BY <1>21, SettleType DEF ReleaseSession, TypeOK, StopStates
  <2> QED  BY <1>21, <2>1, <2>2, <2>3, <2>4, <2>5, <2>6 DEF ReleaseSession, TypeOK, LifeStates, StopStates
<1>22. ASSUME NEW l \in Lifecycles, TakeOverSession(l) PROVE TypeOK'
  <2>1. l \in Replies /\ NoCall \in Replies
    BY <1>22 DEF Replies
  <2>2. life' \in [Lifecycles -> LifeStates]
    BY <1>22, SetLifeType, ResultTypes DEF TakeOverSession, RetryCleanup, Codes
  <2>3. lastGen' \in Nat /\ attempt' \in Attempts
    BY <1>22, <2>1, ConnectType DEF TakeOverSession, TypeOK
  <2>4. /\ cleanup.target \in Ownerships /\ [cleanup EXCEPT !.takeover = l] \in Cleanups
         /\ [gen |-> generation, reply |-> l] \in Validations
    BY <1>22, <2>1 DEF Cleanups, Validations, Replies, TypeOK
  <2>5. cleanup' \in Cleanups
    BY <1>22, <2>1, <2>4, RetryCleanupType DEF TakeOverSession, TypeOK
  <2>6. validation' \in Validations
    BY <1>22, <2>4 DEF TakeOverSession, TypeOK
  <2>7. validators' \in SUBSET Nat
    BY <1>22 DEF TakeOverSession, TypeOK
  <2>8. timer' \in {"none", "armed", "fired"} /\ stray' \in Seq(Nat)
    BY <1>22, StopTimerType DEF TakeOverSession, timerVars, TypeOK
  <2>9. loopDone' \in BOOLEAN /\ stop' \in [Stops -> StopStates]
    BY <1>22, SettleType DEF TakeOverSession, TypeOK, StopStates
  <2> QED  BY <1>22, <2>1, <2>2, <2>3, <2>4, <2>5, <2>6, <2>7, <2>8, <2>9 DEF TakeOverSession, TypeOK, LifeStates, StopStates
<1>23. ASSUME NEW s \in Stops, StopOwner(s) PROVE TypeOK'
  <2>1. NoCall \in Replies
    BY <1>23 DEF Replies
  <2>2. attempt' \in Attempts
    BY <1>23 DEF StopOwner, Attempts, TypeOK
  <2>3. worker' \in [Calls -> WorkerStages] /\ result' \in [Calls -> Results]
    BY <1>23, FailQueuedType, ResultTypes DEF StopOwner, WorkerStages, Codes, TypeOK
  <2>4. cleanup' \in Cleanups /\ generation' \in Nat
    BY <1>23, <2>1, StartCleanupType DEF StopOwner, Ownerships, TypeOK
  <2>5. timer' \in {"none", "armed", "fired"} /\ stray' \in Seq(Nat)
    BY <1>23, StopTimerType DEF StopOwner, timerVars, TypeOK
  <2>6. [stop EXCEPT ![s] = "waiting"] \in [Stops -> StopStates]
    BY <1>23 DEF TypeOK, StopStates
  <2>7. loopDone' \in BOOLEAN /\ stop' \in [Stops -> StopStates]
    BY <1>23, <2>6, SettleType DEF StopOwner
  <2> QED  BY <1>23, <2>1, <2>2, <2>3, <2>4, <2>5, <2>6, <2>7 DEF StopOwner, TypeOK, LifeStates, StopStates
<1>24. ASSUME NEW s \in Stops, StopAfterDone(s) PROVE TypeOK'
  BY <1>24 DEF StopAfterDone, TypeOK
<1>25. ASSUME NEW s \in Stops, StopExpired(s) PROVE TypeOK'
  BY <1>25 DEF StopExpired, TypeOK
<1>26. ASSUME NEW g \in open, LoseSession(g) PROVE TypeOK'
  BY <1>26 DEF LoseSession, TypeOK
<1>27. ASSUME NEW g \in open \cup late, RecognizeTakeover(g) PROVE TypeOK'
  BY <1>27 DEF RecognizeTakeover, TypeOK
<1>28. ASSUME FailConnect PROVE TypeOK'
  <2>1. \E e \in {"failed", "canceled", "panic"} : attempt' = [attempt EXCEPT !.phase = "ended", !.err = e]
    BY <1>28 DEF FailConnect
  <2>2. attempt' \in Attempts
    BY <1>28, <2>1 DEF Attempts, TypeOK
  <2> QED  BY <1>28, <2>1, <2>2 DEF FailConnect, TypeOK, LifeStates, StopStates
<1>29. ASSUME FinishConnect PROVE TypeOK'
  <2>1. attempt' \in Attempts
    BY <1>29 DEF FinishConnect, Attempts, TypeOK
  <2>2. open' \in SUBSET Nat
    BY <1>29 DEF FinishConnect, Attempts, TypeOK
  <2> QED  BY <1>29, <2>1, <2>2 DEF FinishConnect, TypeOK, LifeStates, StopStates
<1>30. ASSUME FailSetup PROVE TypeOK'
  <2>1. \E e \in {"failed", "canceled", "panic"} : attempt' = [attempt EXCEPT !.phase = "closing", !.err = e]
    BY <1>30 DEF FailSetup
  <2>2. attempt' \in Attempts
    BY <1>30, <2>1 DEF Attempts, TypeOK
  <2>3. open' \in SUBSET Nat
    BY <1>30 DEF FailSetup, Attempts, TypeOK
  <2> QED  BY <1>30, <2>1, <2>2, <2>3 DEF FailSetup, TypeOK, LifeStates, StopStates
<1>31. ASSUME CloseFailedSetup PROVE TypeOK'
  <2>1. attempt' \in Attempts
    BY <1>31 DEF CloseFailedSetup, KeepsSession, Attempts, TypeOK
  <2>2. open' \in SUBSET Nat /\ lost' \in SUBSET Nat
    BY <1>31 DEF CloseFailedSetup, Attempts, TypeOK
  <2> QED  BY <1>31, <2>1, <2>2 DEF CloseFailedSetup, TypeOK, LifeStates, StopStates
<1>32. ASSUME FailAttempt PROVE TypeOK'
  <2>1. attempt.takeover \in Replies /\ attempt.gen \in Nat
    BY <1>32 DEF Attempts, Replies, TypeOK
  <2>2. WaiterError \in Results /\ TakeoverError \in Results
    BY <1>32, ResultTypes DEF WaiterError, TakeoverError, Codes
  <2>3. SweptWorkers \in [Calls -> WorkerStages] /\ SweptResults \in [Calls -> Results]
    BY <1>32, ResultTypes DEF SweptWorkers, SweptResults, WorkerStages, Codes, TypeOK
  <2>4. worker' \in [Calls -> WorkerStages] /\ result' \in [Calls -> Results]
    BY <1>32, <2>2, <2>3 DEF FailAttempt, WorkerStages
  <2>5. life' \in [Lifecycles -> LifeStates]
    BY <1>32, <2>1, <2>2, AnswerType DEF FailAttempt
  <2>6. cleanup' \in Cleanups
    BY <1>32, <2>1, ConstantTypes DEF FailAttempt, Cleanups, NoCleanup, Replies, Ownerships, TypeOK
  <2>7. ownership' \in Ownerships
    BY <1>32 DEF FailAttempt, OwnershipAfterFailure, Ownerships, TypeOK
  <2>8. attempt' \in Attempts
    BY <1>32, ConstantTypes DEF FailAttempt
  <2>9. loopDone' \in BOOLEAN /\ stop' \in [Stops -> StopStates]
    BY <1>32, SettleType DEF FailAttempt, TypeOK, StopStates
  <2> QED  BY <1>32, <2>1, <2>2, <2>3, <2>4, <2>5, <2>6, <2>7, <2>8, <2>9 DEF FailAttempt, TypeOK, LifeStates, StopStates
<1>33. ASSUME ActivateAttempt PROVE TypeOK'
  <2>1. attempt.takeover \in Replies /\ attempt.gen \in Nat
    BY <1>33 DEF Attempts, Replies, TypeOK
  <2>2. SweptWorkers \in [Calls -> WorkerStages] /\ SweptResults \in [Calls -> Results]
    BY <1>33, ResultTypes DEF SweptWorkers, SweptResults, WorkerStages, Codes, TypeOK
  <2>3. worker' \in [Calls -> WorkerStages] /\ result' \in [Calls -> Results] /\ bound' \in [Calls -> Nat]
    BY <1>33, <2>1, <2>2, StartNextType DEF ActivateAttempt
  <2>4. life' \in [Lifecycles -> LifeStates]
    BY <1>33, <2>1, ResultTypes, AnswerType DEF ActivateAttempt
  <2>5. attempt' \in Attempts /\ ownership' \in Ownerships /\ generation' \in Nat /\ watching' \in SUBSET Nat
    BY <1>33, <2>1, ConstantTypes DEF ActivateAttempt, Ownerships, TypeOK
  <2>6. timer' \in {"none", "armed", "fired"}
    BY <1>33 DEF ActivateAttempt
  <2>7. loopDone' \in BOOLEAN /\ stop' \in [Stops -> StopStates]
    BY <1>33, SettleType DEF ActivateAttempt, TypeOK, StopStates
  <2> QED  BY <1>33, <2>1, <2>2, <2>3, <2>4, <2>5, <2>6, <2>7 DEF ActivateAttempt, TypeOK, LifeStates, StopStates
<1>34. ASSUME OrphanAttempt PROVE TypeOK'
  <2>1. attempt.takeover \in Replies /\ attempt.gen \in Nat
    BY <1>34 DEF Attempts, Replies, TypeOK
  <2>2. worker' \in [Calls -> WorkerStages] /\ result' \in [Calls -> Results]
    BY <1>34, ResultTypes DEF OrphanAttempt, SweptWorkers, SweptResults, WorkerStages, Codes, TypeOK
  <2>3. life' \in [Lifecycles -> LifeStates]
    BY <1>34, <2>1, ResultTypes, AnswerType DEF OrphanAttempt, Codes
  <2>4. cleanup' \in Cleanups
    BY <1>34, <2>1 DEF OrphanAttempt, Cleanups, NoCleanup, Replies, Ownerships
  <2>5. attempt' \in Attempts
    BY <1>34, ConstantTypes DEF OrphanAttempt
  <2>6. loopDone' \in BOOLEAN /\ stop' \in [Stops -> StopStates]
    BY <1>34, SettleType DEF OrphanAttempt, TypeOK, StopStates
  <2> QED  BY <1>34, <2>1, <2>2, <2>3, <2>4, <2>5, <2>6 DEF OrphanAttempt, TypeOK, LifeStates, StopStates
<1>35. ASSUME FireTimer PROVE TypeOK'
  BY <1>35 DEF FireTimer, TypeOK
<1>36. ASSUME IdleExpired PROVE TypeOK'
  <2>1. NoCall \in Replies
    BY <1>36 DEF Replies
  <2>2. cleanup' \in Cleanups /\ generation' \in Nat
    BY <1>36, <2>1, StartCleanupType DEF IdleExpired, CloseIdle, Ownerships, TypeOK
  <2>3. loopDone' \in BOOLEAN /\ stop' \in [Stops -> StopStates]
    BY <1>36, SettleType DEF IdleExpired, TypeOK, StopStates
  <2> QED  BY <1>36, <2>1, <2>2, <2>3 DEF IdleExpired, TypeOK, LifeStates, StopStates
<1>37. ASSUME DropExpiry PROVE TypeOK'
  BY <1>37 DEF DropExpiry, TypeOK
<1>38. ASSUME StrayExpired PROVE TypeOK'
  <2>1. NoCall \in Replies
    BY <1>38 DEF Replies
  <2>2. cleanup' \in Cleanups /\ generation' \in Nat
    BY <1>38, <2>1, StartCleanupType DEF StrayExpired, CloseIdle, Ownerships, TypeOK
  <2>3. \A i \in 1 .. Len(stray) : RemoveAt(stray, i) \in Seq(Nat)
    BY <1>38, RemoveAtType DEF TypeOK
  <2>4. stray' \in Seq(Nat)
    BY <1>38, <2>3 DEF StrayExpired, TypeOK
  <2>5. loopDone' \in BOOLEAN /\ stop' \in [Stops -> StopStates]
    BY <1>38, SettleType DEF StrayExpired, TypeOK, StopStates
  <2> QED  BY <1>38, <2>1, <2>2, <2>3, <2>4, <2>5 DEF StrayExpired, TypeOK, LifeStates, StopStates
<1>39. ASSUME FailCleanup PROVE TypeOK'
  <2>1. worker' \in [Calls -> WorkerStages] /\ result' \in [Calls -> Results]
    BY <1>39, FailQueuedType, ResultTypes DEF FailCleanup, Codes
  <2>2. life' \in [Lifecycles -> LifeStates]
    BY <1>39, ResultTypes DEF FailCleanup, LifeStates, Codes, TypeOK
  <2>3. cleanup' \in Cleanups
    BY <1>39 DEF FailCleanup, Cleanups, TypeOK
  <2>4. ownership' \in Ownerships /\ lost' \in SUBSET Nat
    BY <1>39 DEF FailCleanup, Ownerships, Cleanups, TypeOK
  <2>5. loopDone' \in BOOLEAN /\ stop' \in [Stops -> StopStates]
    BY <1>39, SettleType DEF FailCleanup, TypeOK, StopStates
  <2> QED  BY <1>39, <2>1, <2>2, <2>3, <2>4, <2>5 DEF FailCleanup, TypeOK, LifeStates, StopStates
<1>40. ASSUME FinishCleanup PROVE TypeOK'
  <2>1. cleanup.takeover \in Replies /\ cleanup.reply \in Replies /\ NoCall \in Replies
    BY <1>40 DEF Cleanups, Replies, TypeOK
  <2>2. worker' \in [Calls -> WorkerStages] /\ result' \in [Calls -> Results]
    BY <1>40, FailQueuedType, ResultTypes DEF FinishCleanup, ResumeTakeover, ResumeQueue, Codes, TypeOK
  <2>3. lastGen' \in Nat /\ attempt' \in Attempts
    BY <1>40, <2>1, ConnectType DEF FinishCleanup, ResumeTakeover, ResumeQueue, TypeOK
  <2>4. NotSent(IF stopping THEN "closed" ELSE "busy") \in Results
    BY <1>40, ResultTypes DEF Codes
  <2>5. ResumeTakeover => life' \in [Lifecycles -> LifeStates]
    BY <1>40, <2>1, <2>4, AnsweredType DEF ResumeTakeover, LifeStates, TypeOK
  <2>6. ResumeQueue => life' \in [Lifecycles -> LifeStates]
    BY <1>40, <2>1, AnsweredType, ResultTypes DEF ResumeQueue, Codes
  <2>7. life' \in [Lifecycles -> LifeStates]
    BY <1>40, <2>5, <2>6 DEF FinishCleanup
  <2>8. cleanup' \in Cleanups /\ ownership' \in Ownerships
    BY <1>40, ConstantTypes DEF FinishCleanup, CleanupTarget, Cleanups, Ownerships, TypeOK
  <2>9. open' \in SUBSET Nat /\ lost' \in SUBSET Nat /\ watchDone' \in SUBSET Nat
    BY <1>40 DEF FinishCleanup, Cleanups, TypeOK
  <2>10. loopDone' \in BOOLEAN /\ stop' \in [Stops -> StopStates]
    BY <1>40, SettleType DEF FinishCleanup, TypeOK, StopStates
  <2> QED  BY <1>40, <2>1, <2>2, <2>3, <2>4, <2>5, <2>6, <2>7, <2>8, <2>9, <2>10 DEF FinishCleanup, TypeOK, LifeStates, StopStates
<1>41. ASSUME NEW g \in watching \cup late, EndGeneration(g) PROVE TypeOK'
  <2>1. validation.reply \in Replies /\ NoCall \in Replies
    BY <1>41 DEF Validations, Replies, TypeOK
  <2>2. worker' \in [Calls -> WorkerStages] /\ result' \in [Calls -> Results]
    BY <1>41, FailQueuedType, ResultTypes DEF EndGeneration, Codes
  <2>3. cleanup' \in Cleanups /\ generation' \in Nat
    BY <1>41, <2>1, StartCleanupType DEF EndGeneration, Ownerships
  <2>4. life' \in [Lifecycles -> LifeStates]
    BY <1>41, <2>1, AnswerType, ResultTypes DEF EndGeneration, Codes, LifeStates, TypeOK
  <2>5. validation' \in Validations /\ ownership' \in Ownerships
    BY <1>41, ConstantTypes DEF EndGeneration, Ownerships, TypeOK
  <2>6. timer' \in {"none", "armed", "fired"} /\ stray' \in Seq(Nat)
    BY <1>41, StopTimerType DEF EndGeneration
  <2>7. watching' \in SUBSET Nat /\ late' \in SUBSET Nat
    BY <1>41 DEF EndGeneration, TypeOK
  <2>8. loopDone' \in BOOLEAN /\ stop' \in [Stops -> StopStates]
    BY <1>41, SettleType DEF EndGeneration, TypeOK, StopStates
  <2> QED  BY <1>41, <2>1, <2>2, <2>3, <2>4, <2>5, <2>6, <2>7, <2>8 DEF EndGeneration, TypeOK, LifeStates, StopStates
<1>42. ASSUME NEW g \in watching \cup late, IgnoreGenerationEnd(g) PROVE TypeOK'
  <2>1. watching' \in SUBSET Nat /\ late' \in SUBSET Nat
    BY <1>42 DEF IgnoreGenerationEnd, TypeOK
  <2> QED  BY <1>42, <2>1 DEF IgnoreGenerationEnd, TypeOK, LifeStates, StopStates
<1>43. ASSUME NEW g \in watching \cup late, LateTakeover(g) PROVE TypeOK'
  <2>1. worker' \in [Calls -> WorkerStages] /\ result' \in [Calls -> Results]
    BY <1>43, FailQueuedType, ResultTypes DEF LateTakeover, Codes, TypeOK
  <2>2. [cleanup EXCEPT !.target = "taken_over"] \in Cleanups
    BY <1>43 DEF Cleanups, Ownerships, TypeOK
  <2>3. cleanup' \in Cleanups
    BY <1>43, <2>2 DEF LateTakeover, TypeOK
  <2>4. ownership' \in Ownerships
    BY <1>43 DEF LateTakeover, Ownerships, TypeOK
  <2>5. loopDone' \in BOOLEAN /\ stop' \in [Stops -> StopStates]
    BY <1>43, SettleType DEF LateTakeover, TypeOK, StopStates
  <2> QED  BY <1>43, <2>1, <2>2, <2>3, <2>4, <2>5 DEF LateTakeover, TypeOK, LifeStates, StopStates
<1>44. ASSUME NEW g \in watching \cup late, EndWatch(g) PROVE TypeOK'
  BY <1>44 DEF EndWatch, TypeOK
<1>45. ASSUME NEW g \in validators, FinishValidation(g) PROVE TypeOK'
  <2>1. validation.reply \in Replies /\ NoCall \in Replies
    BY <1>45 DEF Validations, Replies, TypeOK
  <2>2. life' \in [Lifecycles -> LifeStates]
    BY <1>45, <2>1, AnswerType, ResultTypes DEF FinishValidation, Codes, LifeStates, TypeOK
  <2>3. cleanup' \in Cleanups /\ generation' \in Nat
    BY <1>45, <2>1, StartCleanupType DEF FinishValidation, Ownerships, TypeOK
  <2>4. validation' \in Validations /\ ownership' \in Ownerships
    BY <1>45, ConstantTypes DEF FinishValidation, Ownerships, TypeOK
  <2>5. timer' \in {"none", "armed", "fired"} /\ stray' \in Seq(Nat)
    BY <1>45, StopTimerType DEF FinishValidation, timerVars, TypeOK
  <2>6. loopDone' \in BOOLEAN /\ stop' \in [Stops -> StopStates]
    BY <1>45, SettleType DEF FinishValidation, TypeOK, StopStates
  <2> QED  BY <1>45, <2>1, <2>2, <2>3, <2>4, <2>5, <2>6 DEF FinishValidation, TypeOK, LifeStates, StopStates
<1>46. CASE UNCHANGED vars
  BY <1>46 DEF vars, TypeOK
<1> QED  BY <1>1, <1>2, <1>3, <1>4, <1>5, <1>6, <1>7, <1>8, <1>9, <1>10, <1>11, <1>12,
           <1>13, <1>14, <1>15, <1>16, <1>17, <1>18, <1>19, <1>20, <1>21, <1>22, <1>23,
           <1>24, <1>25, <1>26, <1>27, <1>28, <1>29, <1>30, <1>31, <1>32, <1>33, <1>34,
           <1>35, <1>36, <1>37, <1>38, <1>39, <1>40, <1>41, <1>42, <1>43, <1>44, <1>45,
           <1>46, <1>47
  DEF Next, Environment, CallerStep, OperationStep, AttemptStep, WatchStep, TimerStep,
      CleanupStep, LifecycleStep

(* The initial state is well typed. *)
LEMMA InitTypes == Init => TypeOK
<1> SUFFICES ASSUME Init PROVE TypeOK
  OBVIOUS
<1>1. [l \in Lifecycles |-> Idle] \in [Lifecycles -> LifeStates]
  BY ResultTypes DEF Idle, LifeStates
<1>2. stray \in Seq(Nat)
  BY DEF Init
<1> QED  BY <1>1, <1>2, ResultTypes, ConstantTypes
         DEF Init, TypeOK, Ownerships, CallLocations, WorkerStages, LifeStates

(* The loop, its callers and its goroutines keep their types. *)
THEOREM TypeCorrect == Spec => []TypeOK
<1> QED  BY InitTypes, StepTypes, PTL DEF Spec

-----------------------------------------------------------------------------
(* The three places of a session.  Whatever a step does, it moves the        *)
(* session in one of a few ways: the steps below are sorted by them once,    *)
(* and both invariants of this section follow from the sorting.             *)

slotVars == << attempt, generation, cleanup, lastGen, open >>

(* The attempt stands where it stood; it may have been canceled. *)
SameAttempt ==
  /\ attempt'.gen = attempt.gen /\ attempt'.phase = attempt.phase
  /\ attempt'.err = attempt.err /\ attempt'.session = attempt.session
  /\ attempt'.cleanupErr = attempt.cleanupErr

FreshAttempt ==
  /\ attempt.gen = 0
  /\ attempt'.gen = lastGen + 1 /\ lastGen' = lastGen + 1
  /\ attempt'.phase = "connecting" /\ attempt'.err = "none" /\ ~attempt'.session

Stays ==
  /\ SameAttempt /\ UNCHANGED << generation, lastGen, open >>
  /\ cleanup'.gen = cleanup.gen

Connects ==
  /\ FreshAttempt /\ UNCHANGED << generation, open >>
  /\ generation = 0 /\ cleanup.gen = 0 /\ cleanup'.gen = 0 /\ ~stopping

Closes ==
  /\ SameAttempt /\ UNCHANGED << lastGen, open >>
  /\ generation # 0 /\ generation' = 0 /\ cleanup'.gen = generation

Joins ==
  /\ cleanup.gen # 0 /\ cleanup'.gen = 0
  /\ open' = open \ {cleanup.gen} /\ UNCHANGED generation
  /\ \/ SameAttempt /\ UNCHANGED lastGen
     \/ FreshAttempt /\ generation = 0

Moves == Stays \/ Connects \/ Closes \/ Joins \/ AttemptStep

(* Goroutines serve numbered generations only: 0 is no generation. *)
Numbered == 0 \notin watching /\ 0 \notin validators

(* Starting a cleanup moves the active generation there. *)
LEMMA StartCleanupMoves ==
  ASSUME NEW target, NEW reply, StartCleanup(target, reply)
  PROVE  cleanup'.gen = generation /\ generation' = 0
BY DEF StartCleanup, NoCleanup

(* A retry keeps the generation of the cleanup it retries. *)
LEMMA RetryCleanupMoves ==
  ASSUME TypeOK, NEW l, NEW target, NEW reply, NEW takeover,
         RetryCleanup(l, target, reply, takeover)
  PROVE  cleanup'.gen = cleanup.gen
BY DEF RetryCleanup, TypeOK, Cleanups

(* Starting an attempt gives it the next number. *)
LEMMA ConnectMoves ==
  ASSUME NEW takeover, Connect(takeover)
  PROVE  /\ attempt'.gen = lastGen + 1 /\ lastGen' = lastGen + 1
         /\ attempt'.phase = "connecting" /\ attempt'.err = "none" /\ ~attempt'.session
BY DEF Connect, NoAttempt

(* Canceling the attempt changes nothing else of it. *)
LEMMA CancelMoves ==
  ASSUME TypeOK, attempt' = [attempt EXCEPT !.canceled = TRUE]
  PROVE  SameAttempt
BY DEF TypeOK, Attempts, SameAttempt

(* A step that leaves the three places alone moves nothing. *)
LEMMA QuietMoves == ASSUME UNCHANGED slotVars PROVE Stays
BY DEF slotVars, Stays, SameAttempt

(* The expiry of the lease of g closes g, or nothing. *)
LEMMA CloseIdleMoves ==
  ASSUME NEW g, CloseIdle(g), UNCHANGED << attempt, lastGen, open >>
  PROVE  Moves
<1>1. CASE generation = g /\ generation # 0 /\ NoDeviceWork
  <2>1. StartCleanup("idle", NoCall)
    BY <1>1 DEF CloseIdle
  <2> QED  BY <1>1, <2>1, StartCleanupMoves DEF Moves, Closes, SameAttempt
<1>2. CASE ~(generation = g /\ generation # 0 /\ NoDeviceWork)
  BY <1>2 DEF CloseIdle, Moves, Stays, SameAttempt
<1> QED  BY <1>1, <1>2

(* The end of a cleanup joins its session; it may start the attempt that      *)
(* waited for it.                                                          *)
LEMMA FinishCleanupMoves == ASSUME FinishCleanup PROVE Joins
<1> USE DEF loopVars, callVars, sessionVars, watchVars
<1>1. cleanup.gen # 0 /\ cleanup'.gen = 0 /\ open' = open \ {cleanup.gen} /\ UNCHANGED generation
  BY DEF FinishCleanup, Pending, NoCleanup
<1>2. CASE ResumeTakeover
  <2>1. CASE ClearToConnect /\ Connect(cleanup.takeover)
    BY <1>1, <2>1, ConnectMoves DEF ClearToConnect, Joins, FreshAttempt
  <2>2. CASE UNCHANGED << lastGen, attempt >>
    BY <1>1, <2>2 DEF Joins, SameAttempt
  <2> QED  BY <1>2, <2>1, <2>2 DEF ResumeTakeover
<1>3. CASE ResumeQueue
  <2>1. CASE MayResume /\ Connect(NoCall)
    BY <1>1, <2>1, ConnectMoves DEF MayResume, ClearToConnect, Joins, FreshAttempt
  <2>2. CASE UNCHANGED << lastGen, attempt >>
    BY <1>1, <2>2 DEF Joins, SameAttempt
  <2> QED  BY <1>3, <2>1, <2>2 DEF ResumeQueue
<1> QED  BY <1>2, <1>3 DEF FinishCleanup

(* ReleaseContext closes the generation, retries its cleanup, or answers. *)
LEMMA ReleaseMoves == ASSUME TypeOK, NEW l \in Lifecycles, ReleaseSession(l) PROVE Moves
<1> USE DEF loopVars, callVars, sessionVars, watchVars
<1>1. UNCHANGED << attempt, lastGen, open >>
  BY DEF ReleaseSession
<1>2. CASE UNCHANGED << generation, cleanup >>
  BY <1>1, <1>2, QuietMoves DEF slotVars, Moves
<1>3. CASE generation # 0 /\ StartCleanup("released", l)
  BY <1>1, <1>3, StartCleanupMoves DEF Moves, Closes, SameAttempt
<1>4. CASE RetryCleanup(l, "released", l, cleanup.takeover) /\ UNCHANGED generation
  BY <1>1, <1>4, RetryCleanupMoves DEF Moves, Stays, SameAttempt
<1> QED  BY <1>2, <1>3, <1>4 DEF ReleaseSession

(* TakeOverContext connects, retries or joins a cleanup, or validates. *)
LEMMA TakeOverMoves == ASSUME TypeOK, NEW l \in Lifecycles, TakeOverSession(l) PROVE Moves
<1> USE DEF loopVars, callVars, sessionVars, watchVars
<1>1. UNCHANGED << generation, open >>
  BY DEF TakeOverSession
<1>2. CASE UNCHANGED << attempt, cleanup, lastGen >>
  BY <1>1, <1>2, QuietMoves DEF slotVars, Moves
<1>3. CASE cleanup' = [cleanup EXCEPT !.takeover = l] /\ UNCHANGED << attempt, lastGen >>
  BY <1>1, <1>3 DEF Moves, Stays, SameAttempt, TypeOK, Cleanups
<1>4. CASE RetryCleanup(l, cleanup.target, NoCall, l) /\ UNCHANGED << attempt, lastGen >>
  BY <1>1, <1>4, RetryCleanupMoves DEF Moves, Stays, SameAttempt
<1>5. CASE MayConnect(TRUE) /\ Connect(l) /\ UNCHANGED cleanup
  BY <1>1, <1>5, ConnectMoves DEF MayConnect, Moves, Connects, FreshAttempt
<1> QED  BY <1>2, <1>3, <1>4, <1>5 DEF TakeOverSession

(* Close cancels the attempt or closes the generation. *)
LEMMA StopMoves == ASSUME TypeOK, NEW s \in Stops, StopOwner(s) PROVE Moves
<1> USE DEF loopVars, callVars, sessionVars, watchVars
<1>1. UNCHANGED << lastGen, open >> /\ SameAttempt
  BY CancelMoves DEF StopOwner, SameAttempt
<1>2. CASE UNCHANGED << generation, cleanup >>
  BY <1>1, <1>2 DEF Moves, Stays
<1>3. CASE generation # 0 /\ StartCleanup("stopped", NoCall)
  BY <1>1, <1>3, StartCleanupMoves DEF Moves, Closes
<1> QED  BY <1>2, <1>3 DEF StopOwner

(* Every step moves the session in one of these ways. *)
LEMMA StepMoves == TypeOK /\ Numbered /\ [Next]_vars => Moves
<1> SUFFICES ASSUME TypeOK, Numbered, [Next]_vars PROVE Moves
  OBVIOUS
<1> USE DEF loopVars, timerVars, callVars, sessionVars, watchVars
<1>1. ASSUME Environment PROVE Moves
  <2>1. ASSUME NEW s \in Stops, StopOwner(s) PROVE Moves
    BY <2>1, StopMoves
  <2>2. CASE \/ \E c \in Calls : Admit(c) \/ RefuseBusy(c) \/ CancelContext(c)
             \/ \E l \in Lifecycles : BeginLifecycle(l)
             \/ \E s \in Stops : StopAfterDone(s) \/ StopExpired(s)
             \/ \E g \in open : LoseSession(g)
             \/ \E g \in open \cup late : RecognizeTakeover(g)
    <3>1. UNCHANGED slotVars
      BY <2>2 DEF Admit, RefuseBusy, CancelContext, BeginLifecycle, StopAfterDone,
                  StopExpired, LoseSession, RecognizeTakeover, slotVars
    <3> QED  BY <3>1, QuietMoves DEF Moves
  <2> QED  BY <1>1, <2>1, <2>2 DEF Environment
<1>2. ASSUME NEW c \in Calls, CallerStep(c) PROVE Moves
  <2>1. CASE RegisterAndConnect(c)
    <3>1. CASE MayConnect(FALSE) /\ Connect(NoCall)
      BY <2>1, <3>1, ConnectMoves
      DEF RegisterAndConnect, MayConnect, Moves, Connects, FreshAttempt
    <3>2. CASE UNCHANGED << lastGen, attempt >>
      <4>1. UNCHANGED slotVars
        BY <2>1, <3>2 DEF RegisterAndConnect, slotVars
      <4> QED  BY <4>1, QuietMoves DEF Moves
    <3> QED  BY <2>1, <3>1, <3>2 DEF RegisterAndConnect
  <2>2. CASE CancelWorker(c)
    <3>1. SameAttempt
      BY <2>2, CancelMoves DEF CancelWorker, SameAttempt
    <3> QED  BY <2>2, <3>1 DEF CancelWorker, Moves, Stays
  <2>3. CASE \/ PassGate(c) \/ GiveUpRegistration(c) \/ ReceiveReply(c) \/ NoticeCancel(c)
             \/ CancelAfterDone(c) \/ Leave(c) \/ NotifyDemand(c)
             \/ RefuseWorker(c) \/ RegisterAndQueue(c) \/ RegisterAndStart(c)
    <3>1. UNCHANGED slotVars
      BY <2>3 DEF PassGate, GiveUpRegistration, ReceiveReply, NoticeCancel, CancelAfterDone,
                  Leave, NotifyDemand, RefuseWorker, RegisterAndQueue, RegisterAndStart, slotVars
    <3> QED  BY <3>1, QuietMoves DEF Moves
  <2> QED  BY <1>2, <2>1, <2>2, <2>3 DEF CallerStep
<1>3. ASSUME NEW c \in Calls, OperationStep(c) PROVE Moves
  <2>1. UNCHANGED slotVars
    BY <1>3 DEF OperationStep, PassSendCheck, SendRPC, EndOperation, CompleteWorker, slotVars
  <2> QED  BY <2>1, QuietMoves DEF Moves
<1>4. ASSUME AttemptStep PROVE Moves
  BY <1>4 DEF Moves
<1>5. ASSUME NEW g \in watching \cup late, WatchStep(g) PROVE Moves
  <2>1. CASE EndGeneration(g)
    <3>1. g = generation /\ StartCleanup(IF g \in taken THEN "taken_over" ELSE "uncertain", NoCall)
      BY <2>1 DEF EndGeneration
    <3>2. UNCHANGED << attempt, lastGen, open >>
      BY <2>1 DEF EndGeneration
    <3>3. generation # 0
      BY <2>1, <3>1 DEF EndGeneration, Numbered
    <3> QED  BY <3>1, <3>2, <3>3, StartCleanupMoves DEF Moves, Closes, SameAttempt
  <2>2. CASE LateTakeover(g)
    <3>1. cleanup'.gen = cleanup.gen
      BY <2>2 DEF LateTakeover, TypeOK, Cleanups
    <3> QED  BY <2>2, <3>1 DEF LateTakeover, Moves, Stays, SameAttempt
  <2>3. CASE IgnoreGenerationEnd(g) \/ EndWatch(g)
    <3>1. UNCHANGED slotVars
      BY <2>3 DEF IgnoreGenerationEnd, EndWatch, slotVars
    <3> QED  BY <3>1, QuietMoves DEF Moves
  <2> QED  BY <1>5, <2>1, <2>2, <2>3 DEF WatchStep
<1>6. ASSUME TimerStep \/ StrayExpired PROVE Moves
  <2>1. CASE IdleExpired
    BY <2>1, CloseIdleMoves DEF IdleExpired
  <2>2. CASE StrayExpired
    BY <2>2, CloseIdleMoves DEF StrayExpired
  <2>3. CASE FireTimer \/ DropExpiry
    <3>1. UNCHANGED slotVars
      BY <2>3 DEF FireTimer, DropExpiry, slotVars
    <3> QED  BY <3>1, QuietMoves DEF Moves
  <2> QED  BY <1>6, <2>1, <2>2, <2>3 DEF TimerStep
<1>7. ASSUME CleanupStep PROVE Moves
  <2>1. CASE FailCleanup
    <3>1. cleanup'.gen = cleanup.gen
      BY <2>1 DEF FailCleanup, TypeOK, Cleanups
    <3> QED  BY <2>1, <3>1 DEF FailCleanup, Moves, Stays, SameAttempt
  <2> QED  BY <1>7, <2>1, FinishCleanupMoves DEF CleanupStep, Moves
<1>8. ASSUME NEW l \in Lifecycles, LifecycleStep(l) PROVE Moves
  <2>1. CASE LifecycleAfterDone(l)
    <3>1. UNCHANGED slotVars
      BY <2>1 DEF LifecycleAfterDone, slotVars
    <3> QED  BY <3>1, QuietMoves DEF Moves
  <2> QED  BY <1>8, <2>1, ReleaseMoves, TakeOverMoves DEF LifecycleStep
<1>9. ASSUME NEW g \in validators, FinishValidation(g) PROVE Moves
  <2>1. UNCHANGED << attempt, lastGen, open >>
    BY <1>9 DEF FinishValidation
  <2>2. CASE UNCHANGED << generation, cleanup >>
    BY <2>1, <2>2 DEF Moves, Stays, SameAttempt
  <2>3. CASE generation = g /\ StartCleanup("uncertain", NoCall)
    <3>1. generation # 0
      BY <1>9, <2>3 DEF Numbered
    <3> QED  BY <2>1, <2>3, <3>1, StartCleanupMoves DEF Moves, Closes, SameAttempt
  <2> QED  BY <1>9, <2>2, <2>3 DEF FinishValidation
<1>10. CASE UNCHANGED vars
  <2>1. UNCHANGED slotVars
    BY <1>10 DEF vars, slotVars
  <2> QED  BY <2>1, QuietMoves DEF Moves
<1> QED  BY <1>1, <1>2, <1>3, <1>4, <1>5, <1>6, <1>7, <1>8, <1>9, <1>10 DEF Next

-----------------------------------------------------------------------------
(* Attempt, generation and cleanup exclude one another.                     *)

(* The attempt has a number while its goroutine exists, and numbers grow.   *)
Slots ==
  /\ OneSlot
  /\ attempt.phase = "none" <=> attempt.gen = 0
  /\ attempt.gen <= lastGen /\ generation <= lastGen /\ cleanup.gen <= lastGen
  /\ Numbered

(* Initially nothing is there. *)
LEMMA InitSlots == Init => Slots
BY DEF Init, Slots, OneSlot, Numbered, NoAttempt, NoCleanup

(* A watcher starts with its generation, a validation on the active one. *)
LEMMA StepNumbered == Slots /\ [Next]_vars => Numbered'
<1> SUFFICES ASSUME Slots, [Next]_vars PROVE Numbered'
  OBVIOUS
<1> USE DEF loopVars, timerVars, callVars, sessionVars, watchVars, Slots, Numbered
<1>1. CASE Environment
  BY <1>1 DEF Environment, Admit, RefuseBusy, CancelContext, BeginLifecycle, StopOwner,
              StopAfterDone, StopExpired, LoseSession, RecognizeTakeover
<1>2. ASSUME NEW c \in Calls, CallerStep(c) PROVE Numbered'
  BY <1>2 DEF CallerStep, PassGate, GiveUpRegistration, ReceiveReply, NoticeCancel,
              CancelAfterDone, Leave, NotifyDemand, RefuseWorker, RegisterAndConnect,
              RegisterAndQueue, RegisterAndStart, CancelWorker
<1>3. ASSUME NEW c \in Calls, OperationStep(c) PROVE Numbered'
  BY <1>3 DEF OperationStep, PassSendCheck, SendRPC, EndOperation, CompleteWorker
<1>4. CASE AttemptStep
  <2>1. CASE ActivateAttempt
    BY <2>1 DEF ActivateAttempt
  <2>2. CASE FailConnect \/ FinishConnect \/ FailSetup \/ CloseFailedSetup
    <3>1. UNCHANGED << watching, validators >>
      BY <2>2, Zenon DEF FailConnect, FinishConnect, FailSetup, CloseFailedSetup
    <3> QED  BY <3>1
  <2>3. CASE FailAttempt
    BY <2>3 DEF FailAttempt
  <2>4. CASE OrphanAttempt
    BY <2>4 DEF OrphanAttempt
  <2> QED  BY <1>4, <2>1, <2>2, <2>3, <2>4 DEF AttemptStep
<1>5. ASSUME NEW g \in watching \cup late, WatchStep(g) PROVE Numbered'
  BY <1>5 DEF WatchStep, EndGeneration, IgnoreGenerationEnd, LateTakeover, EndWatch
<1>6. CASE TimerStep \/ StrayExpired \/ CleanupStep
  BY <1>6 DEF TimerStep, FireTimer, IdleExpired, DropExpiry, StrayExpired, CleanupStep,
              FailCleanup, FinishCleanup
<1>7. ASSUME NEW l \in Lifecycles, LifecycleStep(l) PROVE Numbered'
  BY <1>7 DEF LifecycleStep, LifecycleAfterDone, ReleaseSession, TakeOverSession
<1>8. ASSUME NEW g \in validators, FinishValidation(g) PROVE Numbered'
  BY <1>8 DEF FinishValidation
<1>9. CASE UNCHANGED vars
  BY <1>9 DEF vars
<1> QED  BY <1>1, <1>2, <1>3, <1>4, <1>5, <1>6, <1>7, <1>8, <1>9 DEF Next

(* Every step keeps the exclusion. *)
LEMMA StepSlots == TypeOK /\ Slots /\ [Next]_vars => Slots'
<1> SUFFICES ASSUME TypeOK, Slots, [Next]_vars PROVE Slots'
  OBVIOUS
<1>1. Moves /\ Numbered'
  BY StepMoves, StepNumbered DEF Slots
<1>2. /\ attempt.gen \in Nat /\ generation \in Nat /\ cleanup.gen \in Nat /\ lastGen \in Nat
  BY DEF TypeOK, Attempts, Cleanups
<1> USE DEF Slots, OneSlot
<1>3. CASE Stays
  BY <1>1, <1>3 DEF Stays, SameAttempt
<1>4. CASE Connects
  BY <1>1, <1>2, <1>4 DEF Connects, FreshAttempt
<1>5. CASE Closes
  BY <1>1, <1>2, <1>5 DEF Closes, SameAttempt
<1>6. CASE Joins
  BY <1>1, <1>2, <1>6 DEF Joins, SameAttempt, FreshAttempt
<1>7. CASE AttemptStep
  <2> USE DEF loopVars, NoAttempt, NoCleanup, TypeOK, Attempts
  <2>1. CASE FailConnect \/ FinishConnect \/ FailSetup \/ CloseFailedSetup
    <3>1. UNCHANGED << lastGen, generation, cleanup >>
      BY <2>1, Zenon DEF FailConnect, FinishConnect, FailSetup, CloseFailedSetup
    <3>2. attempt.phase # "none" /\ attempt'.gen = attempt.gen /\ attempt'.phase # "none"
      <4>1. CASE FailConnect
        BY <4>1 DEF FailConnect
      <4>2. CASE FinishConnect
        BY <4>2 DEF FinishConnect
      <4>3. CASE FailSetup
        BY <4>3 DEF FailSetup
      <4>4. CASE CloseFailedSetup
        BY <4>4 DEF CloseFailedSetup
      <4> QED  BY <2>1, <4>1, <4>2, <4>3, <4>4
    <3> QED  BY <1>1, <1>2, <3>1, <3>2
  <2>2. CASE FailAttempt
    <3>1. attempt.gen # 0 /\ generation = 0 /\ cleanup.gen = 0
      BY <2>2 DEF FailAttempt
    <3>2. attempt'.gen = 0 /\ attempt'.phase = "none" /\ UNCHANGED << lastGen, generation >>
      BY <2>2 DEF FailAttempt
    <3>3. cleanup'.gen = attempt.gen \/ cleanup' = cleanup
      BY <2>2 DEF FailAttempt
    <3> QED  BY <1>1, <1>2, <3>1, <3>2, <3>3
  <2>3. CASE ActivateAttempt
    BY <1>1, <1>2, <2>3 DEF ActivateAttempt
  <2>4. CASE OrphanAttempt
    BY <1>1, <1>2, <2>4 DEF OrphanAttempt
  <2> QED  BY <1>7, <2>1, <2>2, <2>3, <2>4 DEF AttemptStep
<1> QED  BY <1>1, <1>3, <1>4, <1>5, <1>6, <1>7 DEF Moves

(* Connecting, active and closing exclude one another in every execution. *)
THEOREM SlotsExclusive == Spec => []OneSlot
<1>1. Spec => []TypeOK
  BY TypeCorrect
<1>2. Slots => OneSlot
  BY DEF Slots
<1> QED  BY <1>1, <1>2, InitSlots, StepSlots, PTL DEF Spec

-----------------------------------------------------------------------------
(* No session is lost sight of.  A panic in the connector may lose one (its   *)
(* recovery does not report a session that would not close), so this is      *)
(* stated without panics.                                                  *)

(* A session that connects does not exist yet; one of a failed setup that     *)
(* would not close is handed back to the loop.                             *)
Sessions ==
  /\ SessionsAccountedFor
  /\ 0 \notin open
  /\ attempt.err # "panic"
  /\ attempt.phase = "connecting" => attempt.gen \notin open /\ attempt.err = "none"
  /\ attempt.phase = "ended" /\ attempt.err # "none" /\ attempt.gen \in open =>
       attempt.session /\ attempt.cleanupErr

(* Initially there is no session. *)
LEMMA InitSessions == Init => Sessions
BY DEF Init, Sessions, SessionsAccountedFor, NoAttempt

(* What the goroutine of the attempt may do with the session it opens. *)
AttemptOpens ==
  /\ UNCHANGED << generation, cleanup >>
  /\ attempt'.gen = attempt.gen /\ attempt'.err # "panic"
  /\ open' \subseteq open \cup {attempt.gen}
  /\ attempt'.phase # "connecting"
  /\ attempt'.phase = "ended" /\ attempt'.err # "none" /\ attempt.gen \in open' =>
       attempt'.session /\ attempt'.cleanupErr

(* A failed connection opens none. *)
LEMMA FailConnectOpens ==
  ASSUME ~MayPanic, TypeOK, Sessions, FailConnect PROVE AttemptOpens
<1> USE DEF loopVars, sessionVars
<1>1. attempt \in Attempts
  BY DEF TypeOK
<1>2. \E e \in {"failed", "canceled"} : attempt' = [attempt EXCEPT !.phase = "ended", !.err = e]
  BY DEF FailConnect
<1>3. /\ attempt'.gen = attempt.gen /\ attempt'.phase = "ended"
      /\ attempt'.err \in {"failed", "canceled"}
  BY <1>1, <1>2 DEF Attempts
<1>4. attempt.gen \notin open /\ UNCHANGED << generation, cleanup, open >>
  BY DEF FailConnect, Sessions
<1> QED  BY <1>3, <1>4 DEF AttemptOpens

(* A successful one opens one. *)
LEMMA FinishConnectOpens == ASSUME TypeOK, Sessions, FinishConnect PROVE AttemptOpens
<1> USE DEF loopVars, sessionVars
<1>1. attempt \in Attempts
  BY DEF TypeOK
<1>2. /\ attempt'.gen = attempt.gen /\ attempt'.phase = "ended" /\ attempt'.err = attempt.err
      /\ attempt.phase = "connecting"
  BY <1>1 DEF FinishConnect, Attempts
<1>3. open' = open \cup {attempt.gen} /\ UNCHANGED << generation, cleanup >>
  BY DEF FinishConnect
<1> QED  BY <1>2, <1>3 DEF AttemptOpens, Sessions

(* A failed setup opens one that the goroutine closes next. *)
LEMMA FailSetupOpens == ASSUME ~MayPanic, TypeOK, Sessions, FailSetup PROVE AttemptOpens
<1> USE DEF loopVars, sessionVars
<1>1. attempt \in Attempts
  BY DEF TypeOK
<1>2. attempt' = [attempt EXCEPT !.phase = "closing", !.err = "failed"]
  BY DEF FailSetup
<1>3. open' = open \cup {attempt.gen} /\ UNCHANGED << generation, cleanup >>
  BY DEF FailSetup
<1>4. attempt'.gen = attempt.gen /\ attempt'.phase = "closing" /\ attempt'.err = "failed"
  BY <1>1, <1>2 DEF Attempts
<1> QED  BY <1>3, <1>4 DEF AttemptOpens

(* The session that would not close is reported. *)
LEMMA CloseFailedSetupOpens ==
  ASSUME ~MayPanic, TypeOK, Sessions, CloseFailedSetup PROVE AttemptOpens
<1> USE DEF loopVars, sessionVars
<1>1. attempt \in Attempts
  BY DEF TypeOK
<1>2. attempt.err # "panic"
  BY DEF Sessions
<1>3. UNCHANGED << generation, cleanup >>
  BY DEF CloseFailedSetup
<1>4. PICK closed \in BOOLEAN :
        /\ attempt' = [attempt EXCEPT
                         !.phase = "ended",
                         !.session = KeepsSession(closed),
                         !.cleanupErr = ~closed,
                         !.err = IF attempt.canceled /\ attempt.err # "panic"
                                 THEN "canceled" ELSE attempt.err]
        /\ open' = IF closed THEN open \ {attempt.gen} ELSE open
  BY Zenon DEF CloseFailedSetup
<1>5. /\ attempt'.gen = attempt.gen /\ attempt'.phase = "ended"
      /\ attempt'.session = KeepsSession(closed) /\ attempt'.cleanupErr = ~closed
      /\ attempt'.err \in {"canceled", attempt.err}
  BY <1>1, <1>4 DEF Attempts
<1>6. attempt.gen \in open' => ~closed /\ KeepsSession(closed)
  BY <1>2, <1>4 DEF KeepsSession
<1>7. open' \subseteq open
  BY <1>4
<1> QED  BY <1>2, <1>3, <1>5, <1>6, <1>7 DEF AttemptOpens

(* Whatever it does, the session stays the attempt's. *)
LEMMA AttemptKeepsAccount ==
  ASSUME Slots, Sessions, attempt.phase # "none", AttemptOpens
  PROVE  Sessions'
<1>1. attempt.gen # 0
  BY DEF Slots
<1> QED  BY <1>1 DEF AttemptOpens, Sessions, SessionsAccountedFor

(* What the loop does with the session the attempt reports. *)
LEMMA AttemptReports ==
  ASSUME TypeOK, Slots, Sessions, FailAttempt \/ ActivateAttempt \/ OrphanAttempt
  PROVE  Sessions'
<1> USE DEF loopVars, sessionVars
<1>1. attempt.gen # 0 /\ generation = 0 /\ cleanup.gen = 0
  BY DEF FailAttempt, ActivateAttempt, OrphanAttempt, Slots, OneSlot
<1>2. attempt' = NoAttempt /\ UNCHANGED open
  BY SMT DEF FailAttempt, ActivateAttempt, OrphanAttempt
<1>3. open \subseteq {generation', cleanup'.gen}
  <2>1. CASE FailAttempt
    <3>1. CASE attempt.cleanupErr /\ attempt.session
      BY <1>1, <2>1, <3>1 DEF FailAttempt, NoCleanup, Sessions, SessionsAccountedFor
    <3>2. CASE ~(attempt.cleanupErr /\ attempt.session)
      BY <1>1, <2>1, <3>2 DEF FailAttempt, Sessions, SessionsAccountedFor
    <3> QED  BY <3>1, <3>2
  <2>2. CASE ActivateAttempt
    BY <1>1, <2>2 DEF ActivateAttempt, Sessions, SessionsAccountedFor
  <2>3. CASE OrphanAttempt
    BY <1>1, <2>3 DEF OrphanAttempt, NoCleanup, Sessions, SessionsAccountedFor
  <2> QED  BY <2>1, <2>2, <2>3
<1> QED  BY <1>2, <1>3 DEF NoAttempt, Sessions, SessionsAccountedFor

(* Without panics every step keeps the account. *)
LEMMA StepSessions == ~MayPanic /\ TypeOK /\ Slots /\ Sessions /\ [Next]_vars => Sessions'
<1> SUFFICES ASSUME ~MayPanic, TypeOK, Slots, Sessions, [Next]_vars PROVE Sessions'
  OBVIOUS
<1>1. Moves
  BY StepMoves DEF Slots
<1> USE DEF Sessions, SessionsAccountedFor
<1>2. CASE Stays
  BY <1>2 DEF Stays, SameAttempt
<1>3. CASE Connects
  BY <1>3 DEF Connects, FreshAttempt
<1>4. CASE Closes
  BY <1>4 DEF Closes, SameAttempt, Slots, OneSlot
<1>5. CASE Joins
  BY <1>5 DEF Joins, SameAttempt, FreshAttempt, Slots, OneSlot
<1>6. CASE AttemptStep
  <2>1. CASE FailConnect
    <3>1. attempt.phase # "none"
      BY <2>1, Zenon DEF FailConnect
    <3> QED  BY <2>1, <3>1, FailConnectOpens, AttemptKeepsAccount
  <2>2. CASE FinishConnect
    BY <2>2, FinishConnectOpens, AttemptKeepsAccount DEF FinishConnect
  <2>3. CASE FailSetup
    <3>1. attempt.phase # "none"
      BY <2>3, Zenon DEF FailSetup
    <3> QED  BY <2>3, <3>1, FailSetupOpens, AttemptKeepsAccount
  <2>4. CASE CloseFailedSetup
    <3>1. attempt.phase # "none"
      BY <2>4, Zenon DEF CloseFailedSetup
    <3> QED  BY <2>4, <3>1, CloseFailedSetupOpens, AttemptKeepsAccount
  <2> QED  BY <1>6, <2>1, <2>2, <2>3, <2>4, AttemptReports DEF AttemptStep
<1> QED  BY <1>1, <1>2, <1>3, <1>4, <1>5, <1>6 DEF Moves

(* Every session that may hold resources is the attempt's, the active         *)
(* generation's or the cleanup's, in every execution without a panic.       *)
THEOREM SessionsAreAccountedFor == ASSUME ~MayPanic PROVE Spec => []SessionsAccountedFor
<1>1. Spec => []TypeOK
  BY TypeCorrect
<1>2. TypeOK /\ Slots /\ Sessions /\ [Next]_vars => Sessions'
  BY StepSessions
<1>3. Sessions => SessionsAccountedFor
  BY DEF Sessions
<1> QED  BY <1>1, <1>2, <1>3, InitSlots, StepSlots, InitSessions, PTL DEF Spec
=============================================================================
