--------------------------- MODULE OwnershipProofs ---------------------------
(***************************************************************************)
(* Proofs about what DeviceOwner publishes and whom it answers, for any     *)
(* number of calls, lifecycle calls and Close calls, with panics: ownership  *)
(* says what the loop holds, a sticky state is left by a TakeOver only, each *)
(* lifecycle call that waits is owed its reply by exactly one holder, and    *)
(* every step of the owner is one that Ownership allows.                    *)
(***************************************************************************)
EXTENDS DeviceOwnerProofs

USE CallsAssumption DEF CallsAssumption

Sticky == {"taken_over", "uncertain", "released"}

-----------------------------------------------------------------------------
(* What the steps write, field by field.                                    *)

(* startCleanup takes the generation over, and nobody is attached yet. *)
LEMMA CleanupStarted ==
  ASSUME NEW target, NEW reply, StartCleanup(target, reply)
  PROVE  /\ generation' = 0 /\ cleanup'.gen = generation /\ cleanup'.target = target
         /\ cleanup'.failed = FALSE /\ cleanup'.reply = reply /\ cleanup'.takeover = NoCall
BY DEF StartCleanup, NoCleanup

(* A retried cleanup keeps its generation. *)
LEMMA CleanupRetried ==
  ASSUME TypeOK, NEW l, NEW target, NEW reply, NEW takeover,
         RetryCleanup(l, target, reply, takeover)
  PROVE  /\ cleanup'.gen = cleanup.gen /\ cleanup'.target = target
         /\ cleanup'.failed = FALSE /\ cleanup'.reply = reply /\ cleanup'.takeover = takeover
BY DEF RetryCleanup, TypeOK, Cleanups

(* A new attempt is numbered, and is the takeover's that asked for it. *)
LEMMA Connected ==
  ASSUME NEW takeover, Connect(takeover)
  PROVE  attempt'.gen = lastGen + 1 /\ attempt'.takeover = takeover /\ lastGen' = lastGen + 1
BY DEF Connect, NoAttempt

(* The goroutine of the attempt, and a cancellation, leave its number and     *)
(* its takeover alone.                                                     *)
KeepsAttempt == attempt'.gen = attempt.gen /\ attempt'.takeover = attempt.takeover

\* An attempt that is canceled, or left alone, keeps its number and its reply.
LEMMA AttemptCanceled ==
  ASSUME TypeOK, attempt' = [attempt EXCEPT !.canceled = TRUE] \/ UNCHANGED attempt
  PROVE  KeepsAttempt
BY DEF TypeOK, Attempts, KeepsAttempt

\* The attempt's own goroutine keeps its number and its reply.
LEMMA AttemptRuns ==
  ASSUME TypeOK
  PROVE  FailConnect \/ FinishConnect \/ FailSetup \/ CloseFailedSetup => KeepsAttempt
<1> USE DEF loopVars, timerVars, callVars, sessionVars, watchVars
<1>1. attempt \in Attempts
  BY DEF TypeOK
<1>2. ASSUME FailConnect PROVE KeepsAttempt
  <2>1. \E e \in {"failed", "canceled", "panic"} :
          attempt' = [attempt EXCEPT !.phase = "ended", !.err = e]
    BY <1>2 DEF FailConnect
  <2> QED  BY <1>1, <2>1 DEF Attempts, KeepsAttempt
<1>3. ASSUME FinishConnect PROVE KeepsAttempt
  BY <1>1, <1>3 DEF FinishConnect, Attempts, KeepsAttempt
<1>4. ASSUME FailSetup PROVE KeepsAttempt
  <2>1. \E e \in {"failed", "panic"} :
          attempt' = [attempt EXCEPT !.phase = "closing", !.err = e]
    BY <1>4 DEF FailSetup
  <2> QED  BY <1>1, <2>1 DEF Attempts, KeepsAttempt
<1>5. ASSUME CloseFailedSetup PROVE KeepsAttempt
  BY <1>1, <1>5 DEF CloseFailedSetup, KeepsSession, Attempts, KeepsAttempt
<1> QED  BY <1>2, <1>3, <1>4, <1>5

-----------------------------------------------------------------------------
(* Ownership says what the loop holds.                                      *)

(* SlotsMatch is preserved together with what it leaves out: "active"        *)
(* means a generation or its cleanup, no cleanup ends in "active", and one    *)
(* that ends in "idle" with no takeover waiting began in "idle" or "active". *)
Owned ==
  /\ SlotsMatch
  /\ ownership = "active" => generation # 0 \/ Pending
  /\ cleanup.target # "active"
  /\ Pending /\ cleanup.takeover = NoCall /\ cleanup.target = "idle" => ownership \notin Sticky

ownedVars == << ownership, stopping, attempt, generation, cleanup >>

\* The invariant of ownership holds at first.
LEMMA InitOwned == Init => Owned
BY DEF Init, Owned, SlotsMatch, Broken, Pending, NoAttempt, NoCleanup, Sticky

\* It looks only at these variables.
LEMMA OwnedQuiet == ASSUME Owned, UNCHANGED ownedVars PROVE Owned'
BY DEF Owned, SlotsMatch, Broken, Pending, ownedVars

(* A generation is closed: ownership stays "active", or is sticky, or the loop is stopping. *)
LEMMA OwnedClose ==
  ASSUME Slots, Owned, KeepsAttempt, generation # 0,
         NEW target \in {"idle", "taken_over", "uncertain", "released", "stopped"}, NEW reply,
         StartCleanup(target, reply),
         ownership' = ownership \/ (ownership' \in {"taken_over", "uncertain"} /\ target # "idle")
  PROVE  Owned'
<1>1. /\ generation' = 0 /\ cleanup'.gen = generation /\ cleanup'.target = target
      /\ cleanup'.failed = FALSE
  BY CleanupStarted
<1>2. ownership = "active" /\ attempt.gen = 0
  BY DEF Owned, SlotsMatch, Slots, OneSlot
<1> QED  BY <1>1, <1>2
         DEF Owned, SlotsMatch, Broken, Pending, KeepsAttempt, Sticky

\* A generation closed to become idle keeps it.
LEMMA OwnedIdle ==
  ASSUME Slots, Owned, NEW g, CloseIdle(g), UNCHANGED << ownership, stopping, attempt >>
  PROVE  Owned'
<1>1. CASE generation = g /\ generation # 0 /\ NoDeviceWork
  BY <1>1, OwnedClose DEF CloseIdle, KeepsAttempt
<1>2. CASE ~(generation = g /\ generation # 0 /\ NoDeviceWork)
  BY <1>2, OwnedQuiet DEF CloseIdle, ownedVars
<1> QED  BY <1>1, <1>2

\* The three reports of an attempt keep it.
LEMMA OwnedReports ==
  ASSUME TypeOK, Slots, Owned, FailAttempt \/ ActivateAttempt \/ OrphanAttempt
  PROVE  Owned'
<1> USE DEF loopVars
<1>1. attempt.gen # 0 /\ generation = 0 /\ cleanup.gen = 0
  BY DEF FailAttempt, ActivateAttempt, OrphanAttempt, Slots, OneSlot
<1>2. attempt'.gen = 0
  BY DEF FailAttempt, ActivateAttempt, OrphanAttempt, NoAttempt
<1>3. CASE FailAttempt
  <2>1. generation' = 0 /\ UNCHANGED stopping
    BY <1>1, <1>3 DEF FailAttempt
  <2>2. CASE attempt.cleanupErr /\ attempt.session
    <3>1. ownership' = "uncertain" /\ cleanup'.gen = attempt.gen /\ cleanup'.failed
          /\ cleanup'.target = "idle"
      BY <1>3, <2>2 DEF FailAttempt, OwnershipAfterFailure, NoCleanup
    <3> QED  BY <1>1, <1>2, <2>1, <3>1 DEF Owned, SlotsMatch, Broken, Pending
  <2>3. CASE ~(attempt.cleanupErr /\ attempt.session)
    <3>1. UNCHANGED cleanup /\ ownership' \in {"uncertain", ownership}
      BY <1>3, <2>3 DEF FailAttempt, OwnershipAfterFailure
    <3> QED  BY <1>1, <1>2, <2>1, <3>1 DEF Owned, SlotsMatch, Broken, Pending
  <2> QED  BY <2>2, <2>3
<1>4. CASE ActivateAttempt
  BY <1>1, <1>2, <1>4 DEF ActivateAttempt, Owned, SlotsMatch, Broken, Pending
<1>5. CASE OrphanAttempt
  <2>1. /\ cleanup'.gen = attempt.gen /\ ~cleanup'.failed
        /\ cleanup'.target = IF stopping THEN "stopped" ELSE "idle"
    BY <1>5 DEF OrphanAttempt, NoCleanup
  <2>2. UNCHANGED << ownership, stopping, generation >>
    BY <1>5 DEF OrphanAttempt
  <2>3. stopping \/ ownership = "idle"
    BY <1>1, <1>5 DEF OrphanAttempt, Wanted, Owned, SlotsMatch
  <2>4. ownership # "active"
    BY <1>1 DEF Owned, Pending
  <2> QED  BY <1>1, <1>2, <2>1, <2>2, <2>3, <2>4
           DEF Owned, SlotsMatch, Broken, Pending, Sticky
<1> QED  BY <1>3, <1>4, <1>5

\* The two reports of a cleanup keep it.
LEMMA OwnedCleanup ==
  ASSUME TypeOK, Slots, Owned, FailCleanup \/ FinishCleanup
  PROVE  Owned'
<1> USE DEF loopVars
<1>1. cleanup.gen # 0 /\ attempt.gen = 0 /\ generation = 0 /\ generation' = 0 /\ stopping' = stopping
  BY DEF FailCleanup, FinishCleanup, Pending, Slots, OneSlot
<1>2. CASE FailCleanup
  <2>1. /\ ownership' = "uncertain" /\ UNCHANGED attempt
        /\ cleanup'.failed /\ cleanup'.target = cleanup.target
    BY <1>2 DEF FailCleanup, TypeOK, Cleanups
  <2> QED  BY <1>1, <2>1 DEF Owned, SlotsMatch, Broken, Pending
<1>3. CASE FinishCleanup
  <2>1. /\ cleanup'.gen = 0 /\ cleanup'.target = "idle" /\ ownership' = CleanupTarget
    BY <1>3 DEF FinishCleanup, NoCleanup
  <2>2. CleanupTarget # "active"
    BY DEF CleanupTarget, Owned
  <2>3. CASE UNCHANGED attempt
    BY <1>1, <2>1, <2>2, <2>3 DEF Owned, SlotsMatch, Broken, Pending
  <2>4. CASE cleanup.takeover # NoCall /\ Connect(cleanup.takeover)
    BY <1>1, <2>1, <2>2, <2>4, Connected DEF Owned, SlotsMatch, Broken, Pending
  <2>5. CASE MayResume /\ Connect(NoCall)
    BY <1>1, <2>1, <2>2, <2>5, Connected DEF MayResume, Owned, SlotsMatch, Broken, Pending
  <2> QED  BY <1>3, <2>3, <2>4, <2>5 DEF FinishCleanup, ResumeTakeover, ResumeQueue
<1> QED  BY <1>2, <1>3

\* ReleaseSession keeps it.
LEMMA OwnedRelease ==
  ASSUME TypeOK, Slots, Owned, NEW l \in Lifecycles, ReleaseSession(l)
  PROVE  Owned'
<1> USE DEF loopVars
<1>1. UNCHANGED << attempt, stopping >> /\ KeepsAttempt
  BY DEF ReleaseSession, KeepsAttempt
<1>2. CASE UNCHANGED << ownership, generation, cleanup >>
  BY <1>1, <1>2, OwnedQuiet DEF ownedVars
<1>3. CASE generation # 0 /\ StartCleanup("released", l) /\ UNCHANGED ownership
  BY <1>1, <1>3, OwnedClose
<1>4. CASE RetryCleanup(l, "released", l, cleanup.takeover) /\ Broken
           /\ UNCHANGED << ownership, generation >>
  <2>1. cleanup'.gen = cleanup.gen /\ cleanup'.target = "released" /\ ~cleanup'.failed
    BY <1>4, CleanupRetried
  <2> QED  BY <1>1, <1>4, <2>1 DEF Owned, SlotsMatch, Broken, Pending
<1>5. CASE /\ ~Busy /\ generation = 0 /\ cleanup.gen = 0 /\ ownership' = "released"
           /\ UNCHANGED << generation, cleanup >>
  BY <1>1, <1>5 DEF Busy, Owned, SlotsMatch, Broken, Pending
<1> QED  BY <1>2, <1>3, <1>4, <1>5 DEF ReleaseSession

\* TakeOverSession keeps it.
LEMMA OwnedTakeOver ==
  ASSUME TypeOK, Slots, Owned, NEW l \in Lifecycles, TakeOverSession(l)
  PROVE  Owned'
<1> USE DEF loopVars
<1>1. UNCHANGED << ownership, stopping, generation >> /\ l # NoCall
  BY DEF TakeOverSession
<1>2. CASE UNCHANGED << attempt, cleanup >>
  BY <1>1, <1>2, OwnedQuiet DEF ownedVars
<1>3. CASE cleanup' = [cleanup EXCEPT !.takeover = l] /\ UNCHANGED attempt
  <2>1. /\ cleanup'.gen = cleanup.gen /\ cleanup'.target = cleanup.target
        /\ cleanup'.failed = cleanup.failed /\ cleanup'.takeover = l
    BY <1>3 DEF TypeOK, Cleanups
  <2> QED  BY <1>1, <1>3, <2>1 DEF Owned, SlotsMatch, Broken, Pending
<1>4. CASE RetryCleanup(l, cleanup.target, NoCall, l) /\ Broken /\ UNCHANGED attempt
  BY <1>1, <1>4, CleanupRetried DEF Owned, SlotsMatch, Broken, Pending
<1>5. CASE MayConnect(TRUE) /\ Connect(l) /\ UNCHANGED cleanup
  BY <1>1, <1>5, Connected DEF MayConnect, Owned, SlotsMatch, Broken, Pending
<1> QED  BY <1>2, <1>3, <1>4, <1>5 DEF TakeOverSession

\* The stop of the owner keeps it.
LEMMA OwnedStop ==
  ASSUME TypeOK, Slots, Owned, NEW s \in Stops, StopOwner(s)
  PROVE  Owned'
<1> USE DEF loopVars
<1>1. UNCHANGED ownership /\ stopping' /\ KeepsAttempt
  BY AttemptCanceled DEF StopOwner
<1>2. CASE UNCHANGED << generation, cleanup >>
  BY <1>1, <1>2 DEF KeepsAttempt, Owned, SlotsMatch, Broken, Pending
<1>3. CASE generation # 0 /\ StartCleanup("stopped", NoCall)
  BY <1>1, <1>3, OwnedClose
<1> QED  BY <1>2, <1>3 DEF StopOwner

\* The commands of a watcher keep it.
LEMMA OwnedWatch ==
  ASSUME TypeOK, Slots, Owned, NEW g \in watching \cup late, WatchStep(g)
  PROVE  Owned'
<1> USE DEF loopVars
<1>1. CASE EndGeneration(g)
  <2>1. PICK cause \in {"taken_over", "uncertain"} :
          ownership' = cause /\ StartCleanup(cause, NoCall)
    BY <1>1, Zenon DEF EndGeneration
  <2>2. generation # 0 /\ UNCHANGED attempt
    BY <1>1 DEF EndGeneration, Slots, Numbered
  <2> QED  BY <2>1, <2>2, OwnedClose DEF KeepsAttempt
<1>2. CASE LateTakeover(g)
  <2>1. UNCHANGED << stopping, attempt, generation >>
    BY <1>2 DEF LateTakeover
  <2>2. CASE UNCHANGED << ownership, cleanup >>
    BY <2>1, <2>2, OwnedQuiet DEF ownedVars
  <2>3. CASE LateTakeoverCounts(g)
    <3>1. attempt.gen = 0 /\ generation = 0 /\ ownership' = "taken_over" /\ ~Broken
      BY <1>2, <2>3 DEF LateTakeover, LateTakeoverCounts, Pending, Broken, Slots, OneSlot
    <3>2. /\ cleanup'.gen = cleanup.gen /\ cleanup'.failed = cleanup.failed
          /\ cleanup'.target \in {cleanup.target, "taken_over"}
      BY <1>2, <2>3 DEF LateTakeover, TypeOK, Cleanups
    <3>3. cleanup'.target = "idle" => cleanup'.gen = 0
      <4>1. CASE cleanup.gen = g
        BY <1>2, <2>3, <4>1 DEF LateTakeover, TypeOK, Cleanups
      <4>2. CASE cleanup.gen # g
        BY <2>3, <3>2, <4>2 DEF LateTakeoverCounts
      <4> QED  BY <4>1, <4>2
    <3> QED  BY <2>1, <3>1, <3>2, <3>3 DEF Owned, SlotsMatch, Broken, Pending
  <2> QED  BY <1>2, <2>2, <2>3 DEF LateTakeover
<1>3. CASE IgnoreGenerationEnd(g) \/ EndWatch(g)
  <2>1. UNCHANGED ownedVars
    BY <1>3 DEF IgnoreGenerationEnd, EndWatch, ownedVars
  <2> QED  BY <2>1, OwnedQuiet
<1> QED  BY <1>1, <1>2, <1>3 DEF WatchStep

\* Every step keeps it.
LEMMA StepOwned == TypeOK /\ Slots /\ Owned /\ [Next]_vars => Owned'
<1> SUFFICES ASSUME TypeOK, Slots, Owned, [Next]_vars PROVE Owned'
  OBVIOUS
<1> USE DEF loopVars, timerVars, callVars, sessionVars, watchVars
<1>1. CASE Environment
  <2>1. CASE \/ \E c \in Calls : Admit(c) \/ RefuseBusy(c) \/ CancelContext(c)
             \/ \E l \in Lifecycles : BeginLifecycle(l)
             \/ \E s \in Stops : StopAfterDone(s) \/ StopExpired(s)
             \/ \E g \in open : LoseSession(g)
             \/ \E g \in open \cup late : RecognizeTakeover(g)
    <3>1. UNCHANGED ownedVars
      BY <2>1 DEF Admit, RefuseBusy, CancelContext, BeginLifecycle, StopAfterDone,
                  StopExpired, LoseSession, RecognizeTakeover, ownedVars
    <3> QED  BY <3>1, OwnedQuiet
  <2> QED  BY <1>1, <2>1, OwnedStop DEF Environment
<1>2. ASSUME NEW c \in Calls, CallerStep(c) PROVE Owned'
  <2>1. CASE RegisterAndConnect(c)
    <3>1. UNCHANGED << ownership, stopping, generation, cleanup >>
      BY <2>1 DEF RegisterAndConnect
    <3>2. CASE MayConnect(FALSE) /\ Connect(NoCall)
      BY <3>1, <3>2, Connected DEF MayConnect, Owned, SlotsMatch, Broken, Pending
    <3>3. CASE UNCHANGED attempt
      BY <3>1, <3>3, OwnedQuiet DEF ownedVars
    <3> QED  BY <2>1, <3>2, <3>3 DEF RegisterAndConnect
  <2>2. CASE CancelWorker(c)
    <3>1. KeepsAttempt /\ UNCHANGED << ownership, stopping, generation, cleanup >>
      BY <2>2, AttemptCanceled DEF CancelWorker
    <3> QED  BY <3>1 DEF KeepsAttempt, Owned, SlotsMatch, Broken, Pending
  <2>3. CASE \/ PassGate(c) \/ GiveUpRegistration(c) \/ ReceiveReply(c) \/ NoticeCancel(c)
             \/ CancelAfterDone(c) \/ Leave(c) \/ NotifyDemand(c)
             \/ RefuseWorker(c) \/ RegisterAndQueue(c) \/ RegisterAndStart(c)
    <3>1. UNCHANGED ownedVars
      BY <2>3 DEF PassGate, GiveUpRegistration, ReceiveReply, NoticeCancel, CancelAfterDone,
                  Leave, NotifyDemand, RefuseWorker, RegisterAndQueue, RegisterAndStart, ownedVars
    <3> QED  BY <3>1, OwnedQuiet
  <2> QED  BY <1>2, <2>1, <2>2, <2>3 DEF CallerStep
<1>3. ASSUME NEW c \in Calls, OperationStep(c) PROVE Owned'
  <2>1. UNCHANGED ownedVars
    BY <1>3 DEF OperationStep, PassSendCheck, SendRPC, EndOperation, CompleteWorker, ownedVars
  <2> QED  BY <2>1, OwnedQuiet
<1>4. CASE AttemptStep
  <2>1. CASE FailConnect \/ FinishConnect \/ FailSetup \/ CloseFailedSetup
    <3>1. KeepsAttempt
      BY <2>1, AttemptRuns
    <3>2. UNCHANGED << ownership, stopping, generation, cleanup >>
      BY <2>1, Zenon DEF FailConnect, FinishConnect, FailSetup, CloseFailedSetup
    <3> QED  BY <3>1, <3>2 DEF KeepsAttempt, Owned, SlotsMatch, Broken, Pending
  <2> QED  BY <1>4, <2>1, OwnedReports DEF AttemptStep
<1>5. ASSUME NEW g \in watching \cup late, WatchStep(g) PROVE Owned'
  BY <1>5, OwnedWatch
<1>6. CASE TimerStep \/ StrayExpired
  <2>1. CASE IdleExpired
    BY <2>1, OwnedIdle DEF IdleExpired
  <2>2. CASE StrayExpired
    <3>1. PICK i \in 1 .. Len(stray) : CloseIdle(stray[i])
      BY <2>2 DEF StrayExpired
    <3>2. UNCHANGED << ownership, stopping, attempt >>
      BY <2>2 DEF StrayExpired
    <3> QED  BY <3>1, <3>2, OwnedIdle
  <2>3. CASE FireTimer \/ DropExpiry
    <3>1. UNCHANGED ownedVars
      BY <2>3 DEF FireTimer, DropExpiry, ownedVars
    <3> QED  BY <3>1, OwnedQuiet
  <2> QED  BY <1>6, <2>1, <2>2, <2>3 DEF TimerStep
<1>7. CASE CleanupStep
  BY <1>7, OwnedCleanup DEF CleanupStep
<1>8. ASSUME NEW l \in Lifecycles, LifecycleStep(l) PROVE Owned'
  <2>1. CASE LifecycleAfterDone(l)
    <3>1. UNCHANGED ownedVars
      BY <2>1 DEF LifecycleAfterDone, ownedVars
    <3> QED  BY <3>1, OwnedQuiet
  <2> QED  BY <1>8, <2>1, OwnedRelease, OwnedTakeOver DEF LifecycleStep
<1>9. ASSUME NEW g \in validators, FinishValidation(g) PROVE Owned'
  <2>1. UNCHANGED << attempt, stopping >>
    BY <1>9 DEF FinishValidation
  <2>2. CASE UNCHANGED << ownership, generation, cleanup >>
    BY <2>1, <2>2, OwnedQuiet DEF ownedVars
  <2>3. CASE generation = g /\ ownership' = "uncertain" /\ StartCleanup("uncertain", NoCall)
    <3>1. generation # 0
      BY <1>9, <2>3 DEF Slots, Numbered
    <3> QED  BY <2>1, <2>3, <3>1, OwnedClose DEF KeepsAttempt
  <2> QED  BY <1>9, <2>2, <2>3 DEF FinishValidation
<1>10. CASE UNCHANGED vars
  <2>1. UNCHANGED ownedVars
    BY <1>10 DEF vars, ownedVars
  <2> QED  BY <2>1, OwnedQuiet
<1> QED  BY <1>1, <1>2, <1>3, <1>4, <1>5, <1>6, <1>7, <1>8, <1>9, <1>10 DEF Next

-----------------------------------------------------------------------------
(* Sticky states.                                                           *)

(* Only an attempt that becomes the active generation, or a cleanup that       *)
(* ends, publishes "idle", "active" or "stopped".                           *)
LEMMA OwnershipSteps ==
  ASSUME [Next]_vars
  PROVE  ActivateAttempt \/ FinishCleanup \/ ownership' \in Sticky \cup {ownership}
<1> USE DEF loopVars, timerVars, callVars, sessionVars, watchVars
<1> DEFINE Other == ownership' \in Sticky \cup {ownership}
<1>1. CASE Environment
  BY <1>1 DEF Environment, Admit, RefuseBusy, CancelContext, BeginLifecycle, StopOwner,
              StopAfterDone, StopExpired, LoseSession, RecognizeTakeover
<1>2. ASSUME NEW c \in Calls, CallerStep(c) PROVE Other
  BY <1>2 DEF CallerStep, PassGate, GiveUpRegistration, ReceiveReply, NoticeCancel,
              CancelAfterDone, Leave, NotifyDemand, RefuseWorker, RegisterAndConnect,
              RegisterAndQueue, RegisterAndStart, CancelWorker
<1>3. ASSUME NEW c \in Calls, OperationStep(c) PROVE Other
  BY <1>3 DEF OperationStep, PassSendCheck, SendRPC, EndOperation, CompleteWorker
<1>4. CASE AttemptStep
  <2>1. CASE FailConnect \/ FinishConnect \/ FailSetup \/ CloseFailedSetup
    BY <2>1, Zenon DEF FailConnect, FinishConnect, FailSetup, CloseFailedSetup
  <2>2. CASE FailAttempt
    BY <2>2 DEF FailAttempt, OwnershipAfterFailure, Sticky
  <2>3. CASE OrphanAttempt
    BY <2>3 DEF OrphanAttempt
  <2> QED  BY <1>4, <2>1, <2>2, <2>3 DEF AttemptStep
<1>5. ASSUME NEW g \in watching \cup late, WatchStep(g) PROVE Other
  BY <1>5 DEF WatchStep, EndGeneration, IgnoreGenerationEnd, LateTakeover, EndWatch, Sticky
<1>6. CASE TimerStep \/ StrayExpired
  BY <1>6 DEF TimerStep, FireTimer, IdleExpired, DropExpiry, StrayExpired
<1>7. CASE FailCleanup
  BY <1>7 DEF FailCleanup, Sticky
<1>8. ASSUME NEW l \in Lifecycles, LifecycleStep(l) PROVE Other
  BY <1>8 DEF LifecycleStep, LifecycleAfterDone, ReleaseSession, TakeOverSession, Sticky
<1>9. ASSUME NEW g \in validators, FinishValidation(g) PROVE Other
  BY <1>9 DEF FinishValidation, Sticky
<1>10. CASE UNCHANGED vars
  BY <1>10 DEF vars
<1> QED  BY <1>1, <1>2, <1>3, <1>4, <1>5, <1>6, <1>7, <1>8, <1>9, <1>10 DEF Next, CleanupStep

(* A sticky state is left only for a takeover that connects, or is waiting.   *)
LEMMA StepSticky ==
  ASSUME TypeOK, Slots, Owned, [Next]_vars, ownership \in Sticky, ownership' \in {"idle", "active"}
  PROVE  attempt.takeover # NoCall \/ cleanup.takeover # NoCall
<1>1. CASE ActivateAttempt
  BY <1>1 DEF ActivateAttempt, Slots, Owned, SlotsMatch, Sticky
<1>2. CASE FinishCleanup
  <2>1. Pending /\ CleanupTarget \in {"idle", "active"}
    BY <1>2 DEF FinishCleanup
  <2>2. cleanup.target = "idle"
    BY <2>1 DEF CleanupTarget, Owned
  <2> QED  BY <2>1, <2>2 DEF Owned
<1>3. CASE ownership' \in Sticky \cup {ownership}
  BY <1>3 DEF Sticky
<1> QED  BY <1>1, <1>2, <1>3, OwnershipSteps

(* No loss, expiry, completion or ReleaseContext brings a device back to      *)
(* "idle" or "active" from a sticky state: only a TakeOver does.             *)
THEOREM StickinessHolds == Spec => StickyOwnership
<1>1. Spec => []TypeOK
  BY TypeCorrect
<1>2. TypeOK /\ Slots /\ Owned /\ [Next]_vars =>
        ( /\ ownership \in {"taken_over", "uncertain", "released"}
          /\ ownership' \in {"idle", "active"}
          => attempt.takeover # NoCall \/ cleanup.takeover # NoCall )
  BY StepSticky DEF Sticky
<1> QED  BY <1>1, <1>2, InitSlots, StepSlots, InitOwned, StepOwned, PTL DEF Spec, StickyOwnership

-----------------------------------------------------------------------------
(* Replies to lifecycle calls.                                              *)

(* The fields that hold a reply channel. *)
Holders == {attempt.takeover, validation.reply, cleanup.reply, cleanup.takeover}

(* A lifecycle call waits exactly as long as a field holds its channel; no    *)
(* two fields hold the same, and a cleanup holds one channel at most: the end *)
(* of a cleanup that resumes a takeover answers nobody else.                 *)
Owed ==
  /\ \A l \in Lifecycles : life[l].phase = "waiting" <=> l \in Holders
  /\ attempt.takeover = NoCall \/ attempt.takeover \notin {validation.reply, cleanup.reply,
                                                           cleanup.takeover}
  /\ validation.reply = NoCall \/ validation.reply \notin {cleanup.reply, cleanup.takeover}
  /\ cleanup.reply = NoCall \/ cleanup.takeover = NoCall
  /\ attempt.gen = 0 => attempt.takeover = NoCall
  /\ validation.gen = 0 <=> validation.reply = NoCall
  /\ validation.gen # 0 => validation.gen \in validators
  /\ Attached # {} => Pending

owedVars == << life, attempt, validation, validators, cleanup >>

\* The invariant of replies holds at first.
LEMMA InitOwed == Init => Owed
BY DEF Init, Owed, Holders, Attached, Idle, NoAttempt, NoCleanup, NoValidation

\* It looks only at these variables.
LEMMA OwedQuiet == ASSUME Owed, UNCHANGED owedVars PROVE Owed'
BY DEF Owed, Holders, Attached, Pending, owedVars

(* One field is enough to tell the count of the property. *)
LEMMA OwedCounts == ASSUME TypeOK, Owed PROVE LifecycleReplyOwed
<1>1. ASSUME NEW l \in Lifecycles
      PROVE  (IF attempt.takeover = l THEN 1 ELSE 0) + (IF validation.reply = l THEN 1 ELSE 0)
               + (IF cleanup.reply = l THEN 1 ELSE 0) + (IF cleanup.takeover = l THEN 1 ELSE 0)
             = IF life[l].phase = "waiting" THEN 1 ELSE 0
  BY <1>1 DEF Owed, Holders
<1> QED  BY <1>1 DEF LifecycleReplyOwed, Owed

(* Phases after an answer, and after a step of the call itself. *)
LEMMA AnswerPhases ==
  ASSUME TypeOK, NEW l \in Replies, NEW a, Answer(l, a)
  PROVE  \A m \in Lifecycles : life'[m].phase = IF m = l THEN "returned" ELSE life[m].phase
BY DEF TypeOK, Answer, Replies

\* An answer returns the one lifecycle call it is for.
LEMMA AnsweredPhases ==
  ASSUME TypeOK, NEW l \in Replies, NEW a, life' = Answered(l, a)
  PROVE  \A m \in Lifecycles : life'[m].phase = IF m = l THEN "returned" ELSE life[m].phase
BY DEF TypeOK, Answered, Replies

\* A lifecycle call's own step changes its own phase only.
LEMMA SetLifePhases ==
  ASSUME TypeOK, NEW l \in Lifecycles, NEW p, NEW a, SetLife(l, p, a)
  PROVE  \A m \in Lifecycles : life'[m].phase = IF m = l THEN p ELSE life[m].phase
BY DEF TypeOK, SetLife

(* While nothing is closed the cleanup holds no channel. *)
LEMMA NobodyAttached ==
  ASSUME Owed, ~Pending
  PROVE  cleanup.reply = NoCall /\ cleanup.takeover = NoCall
BY DEF Owed, Attached

(* A generation is closed for nobody; the validation may be answered. *)
LEMMA OwedClose ==
  ASSUME TypeOK, Slots, Owed, generation # 0, KeepsAttempt,
         UNCHANGED << life, validation, validators >>,
         NEW target, StartCleanup(target, NoCall)
  PROVE  Owed'
<1>1. cleanup.reply = NoCall /\ cleanup.takeover = NoCall
  BY NobodyAttached DEF Slots, OneSlot, Pending
<1>2. cleanup'.reply = NoCall /\ cleanup'.takeover = NoCall
  BY CleanupStarted
<1> QED  BY <1>1, <1>2 DEF Owed, Holders, Attached, KeepsAttempt

\* A generation closed to become idle owes no reply.
LEMMA OwedIdle ==
  ASSUME TypeOK, Slots, Owed, NEW g, CloseIdle(g),
         UNCHANGED << life, attempt, validation, validators >>
  PROVE  Owed'
<1>1. CASE generation = g /\ generation # 0 /\ NoDeviceWork
  BY <1>1, OwedClose DEF CloseIdle, KeepsAttempt
<1>2. CASE ~(generation = g /\ generation # 0 /\ NoDeviceWork)
  BY <1>2, OwedQuiet DEF CloseIdle, owedVars
<1> QED  BY <1>1, <1>2

(* The attempt reports, and answers the takeover that asked for it. *)
LEMMA OwedReports ==
  ASSUME TypeOK, Slots, Owed, FailAttempt \/ ActivateAttempt \/ OrphanAttempt
  PROVE  Owed'
<1> USE DEF loopVars
<1>1. attempt.gen # 0 /\ generation = 0 /\ cleanup.gen = 0
  BY DEF FailAttempt, ActivateAttempt, OrphanAttempt, Slots, OneSlot
<1>2. cleanup.reply = NoCall /\ cleanup.takeover = NoCall
  BY <1>1, NobodyAttached DEF Pending
<1>3. attempt.takeover \in Replies
  BY DEF TypeOK, Attempts, Replies
<1>4. /\ attempt'.takeover = NoCall /\ attempt'.gen = 0
      /\ UNCHANGED << validation, validators >>
      /\ \E a : Answer(attempt.takeover, a)
      /\ cleanup'.reply = NoCall /\ cleanup'.takeover = NoCall
  <2>1. CASE FailAttempt
    BY <1>2, <2>1 DEF FailAttempt, NoAttempt, NoCleanup
  <2>2. CASE ActivateAttempt
    BY <1>2, <2>2 DEF ActivateAttempt, NoAttempt
  <2>3. CASE OrphanAttempt
    BY <2>3 DEF OrphanAttempt, NoAttempt, NoCleanup
  <2> QED  BY <2>1, <2>2, <2>3
<1>5. \A m \in Lifecycles : life'[m].phase = IF m = attempt.takeover THEN "returned"
                                             ELSE life[m].phase
  BY <1>3, <1>4, AnswerPhases
<1> QED  BY <1>2, <1>4, <1>5 DEF Owed, Holders, Attached

(* A cleanup that fails answers whoever is attached; one that ends hands the   *)
(* takeover to the attempt, or answers.                                     *)
LEMMA OwedCleanup ==
  ASSUME TypeOK, Slots, Owed, FailCleanup \/ FinishCleanup
  PROVE  Owed'
<1> USE DEF loopVars
<1>1. /\ cleanup.gen # 0 /\ attempt.gen = 0 /\ attempt.takeover = NoCall
      /\ UNCHANGED << validation, validators >>
  BY DEF FailCleanup, FinishCleanup, Pending, Slots, OneSlot, Owed
<1>2. CASE FailCleanup
  <2>1. UNCHANGED attempt /\ cleanup'.reply = NoCall /\ cleanup'.takeover = NoCall
    BY <1>2 DEF FailCleanup, TypeOK, Cleanups
  <2>2. \A m \in Lifecycles : life'[m].phase = IF m \in Attached THEN "returned"
                                               ELSE life[m].phase
    BY <1>2 DEF FailCleanup, TypeOK
  <2> QED  BY <1>1, <2>1, <2>2 DEF Owed, Holders, Attached
<1>3. CASE FinishCleanup
  <2>1. cleanup'.reply = NoCall /\ cleanup'.takeover = NoCall
    BY <1>3 DEF FinishCleanup, NoCleanup
  <2>2. cleanup.takeover \in Replies /\ cleanup.reply \in Replies
    BY DEF TypeOK, Cleanups, Replies
  <2>3. CASE ResumeTakeover
    <3>1. cleanup.takeover # NoCall /\ cleanup.reply = NoCall
      BY <2>3 DEF ResumeTakeover, Owed
    <3>2. CASE Connect(cleanup.takeover) /\ UNCHANGED life
      BY <1>1, <2>1, <3>1, <3>2, Connected DEF TypeOK, Slots, Owed, Holders, Attached
    <3>3. CASE /\ life' = Answered(cleanup.takeover, NotSent(IF stopping THEN "closed" ELSE "busy"))
               /\ UNCHANGED attempt
      <4>1. \A m \in Lifecycles : life'[m].phase = IF m = cleanup.takeover THEN "returned"
                                                   ELSE life[m].phase
        BY <2>2, <3>3, AnsweredPhases
      <4> QED  BY <1>1, <2>1, <3>1, <3>3, <4>1 DEF Owed, Holders, Attached
    <3> QED  BY <2>3, <3>2, <3>3 DEF ResumeTakeover
  <2>4. CASE ResumeQueue
    <3>1. \A m \in Lifecycles : life'[m].phase = IF m = cleanup.reply THEN "returned"
                                                 ELSE life[m].phase
      BY <2>2, <2>4, AnsweredPhases DEF ResumeQueue
    <3>2. attempt'.takeover = NoCall /\ cleanup.takeover = NoCall
      BY <1>1, <2>4, Connected DEF ResumeQueue
    <3> QED  BY <1>1, <2>1, <3>1, <3>2 DEF Owed, Holders, Attached
  <2> QED  BY <1>3, <2>3, <2>4 DEF FinishCleanup
<1> QED  BY <1>2, <1>3

(* A call that is answered at once was not waiting. *)
LEMMA OwedAnswer ==
  ASSUME TypeOK, Owed, NEW l \in Lifecycles, life[l].phase # "waiting",
         NEW p \in {"returned", "latched"}, NEW a, SetLife(l, p, a),
         UNCHANGED << attempt, validation, validators, cleanup >>
  PROVE  Owed'
BY SetLifePhases DEF Owed, Holders, Attached, Pending

\* ReleaseSession answers, or leaves its reply with what will answer it.
LEMMA OwedRelease ==
  ASSUME TypeOK, Slots, Owed, NEW l \in Lifecycles, ReleaseSession(l)
  PROVE  Owed'
<1> USE DEF loopVars
<1>1. UNCHANGED << attempt, validation, validators >> /\ life[l].phase = "latched" /\ l # NoCall
  BY DEF ReleaseSession
<1>2. CASE (\E a : SetLife(l, "returned", a)) /\ UNCHANGED cleanup
  BY <1>1, <1>2, OwedAnswer
<1>3. CASE generation # 0 /\ StartCleanup("released", l) /\ SetLife(l, "waiting", None)
  <2>1. cleanup.reply = NoCall /\ cleanup.takeover = NoCall
    BY <1>3, NobodyAttached DEF Slots, OneSlot, Pending
  <2>2. /\ cleanup'.gen # 0 /\ ~cleanup'.failed
        /\ cleanup'.reply = l /\ cleanup'.takeover = NoCall
    BY <1>3, CleanupStarted
  <2> QED  BY <1>1, <1>3, <2>1, <2>2, SetLifePhases DEF Owed, Holders, Attached, Pending
<1>4. CASE RetryCleanup(l, "released", l, cleanup.takeover) /\ Broken
  <2>1. cleanup.reply = NoCall /\ cleanup.takeover = NoCall
    BY <1>4, NobodyAttached DEF Broken, Pending
  <2>2. /\ cleanup'.gen = cleanup.gen /\ ~cleanup'.failed
        /\ cleanup'.reply = l /\ cleanup'.takeover = NoCall
    BY <1>4, <2>1, CleanupRetried
  <2>3. SetLife(l, "waiting", None) /\ cleanup.gen # 0
    BY <1>4 DEF RetryCleanup, Broken
  <2> QED  BY <1>1, <2>1, <2>2, <2>3, SetLifePhases DEF Owed, Holders, Attached, Pending
<1> QED  BY <1>2, <1>3, <1>4 DEF ReleaseSession

\* TakeOverSession answers, or leaves its reply with what will answer it.
LEMMA OwedTakeOver ==
  ASSUME TypeOK, Slots, Owed, NEW l \in Lifecycles, TakeOverSession(l)
  PROVE  Owed'
<1> USE DEF loopVars
<1>1. life[l].phase = "latched" /\ l # NoCall
  BY DEF TakeOverSession
<1>2. CASE (\E a : SetLife(l, "returned", a)) /\ UNCHANGED << attempt, validation, validators, cleanup >>
  BY <1>1, <1>2, OwedAnswer
<1>3. CASE /\ Pending /\ Unattended /\ cleanup' = [cleanup EXCEPT !.takeover = l]
           /\ SetLife(l, "waiting", None) /\ UNCHANGED << attempt, validation, validators >>
  <2>1. /\ cleanup'.gen = cleanup.gen /\ cleanup'.failed = cleanup.failed
        /\ cleanup'.reply = cleanup.reply /\ cleanup'.takeover = l
    BY <1>3 DEF TypeOK, Cleanups
  <2>2. cleanup.reply = NoCall /\ cleanup.takeover = NoCall
    BY <1>3 DEF Unattended, Attached
  <2> QED  BY <1>1, <1>3, <2>1, <2>2, SetLifePhases DEF Owed, Holders, Attached, Pending
<1>4. CASE /\ validation.gen = 0 /\ generation # 0
           /\ validation' = [gen |-> generation, reply |-> l]
           /\ validators' = validators \cup {generation}
           /\ SetLife(l, "waiting", None) /\ UNCHANGED << attempt, cleanup >>
  <2>1. validation'.gen = generation /\ validation'.reply = l
    BY <1>4
  <2> QED  BY <1>1, <1>4, <2>1, SetLifePhases DEF Owed, Holders, Attached, Pending
<1>5. CASE /\ RetryCleanup(l, cleanup.target, NoCall, l) /\ Broken
           /\ UNCHANGED << attempt, validation, validators >>
  <2>1. cleanup.reply = NoCall /\ cleanup.takeover = NoCall
    BY <1>5, NobodyAttached DEF Broken, Pending
  <2>2. /\ cleanup'.gen = cleanup.gen /\ ~cleanup'.failed
        /\ cleanup'.reply = NoCall /\ cleanup'.takeover = l
    BY <1>5, CleanupRetried
  <2>3. SetLife(l, "waiting", None) /\ cleanup.gen # 0
    BY <1>5 DEF RetryCleanup, Broken
  <2> QED  BY <1>1, <1>5, <2>1, <2>2, <2>3, SetLifePhases DEF Owed, Holders, Attached, Pending
<1>6. CASE /\ MayConnect(TRUE) /\ Connect(l) /\ SetLife(l, "waiting", None)
           /\ UNCHANGED << cleanup, validation, validators >>
  <2>1. attempt.takeover = NoCall /\ cleanup.reply = NoCall /\ cleanup.takeover = NoCall
    BY <1>6, NobodyAttached DEF MayConnect, Pending, Owed
  <2>2. attempt'.gen # 0 /\ attempt'.takeover = l
    BY <1>6, Connected DEF TypeOK
  <2>3. validation.reply = NoCall
    BY <1>6 DEF MayConnect, Owed
  <2> QED  BY <1>1, <1>6, <2>1, <2>2, <2>3, SetLifePhases DEF Owed, Holders, Attached, Pending
<1> QED  BY <1>2, <1>3, <1>4, <1>5, <1>6 DEF TakeOverSession

\* The commands of a watcher hand on a reply that validation owed.
LEMMA OwedWatch ==
  ASSUME TypeOK, Slots, Owed, NEW g \in watching \cup late, WatchStep(g)
  PROVE  Owed'
<1> USE DEF loopVars
<1>1. CASE EndGeneration(g)
  <2>1. UNCHANGED << attempt, validators >> /\ generation # 0 /\ g = generation
    BY <1>1 DEF EndGeneration, Slots, Numbered
  <2>2. \E cause \in {"taken_over", "uncertain"} : StartCleanup(cause, NoCall)
    BY <1>1, Zenon DEF EndGeneration
  <2>3. CASE validation.gen = g
    <3>1. (\E a : Answer(validation.reply, a)) /\ validation' = NoValidation
      BY <1>1, <2>3 DEF EndGeneration
    <3>2. validation.reply \in Replies
      BY DEF TypeOK, Validations, Replies
    <3>3. \A m \in Lifecycles : life'[m].phase = IF m = validation.reply THEN "returned"
                                                 ELSE life[m].phase
      BY <3>1, <3>2, AnswerPhases
    <3>4. cleanup.reply = NoCall /\ cleanup.takeover = NoCall
      BY <2>1, NobodyAttached DEF Slots, OneSlot, Pending
    <3>5. cleanup'.reply = NoCall /\ cleanup'.takeover = NoCall
      BY <2>2, CleanupStarted
    <3>6. validation'.gen = 0 /\ validation'.reply = NoCall
      BY <3>1 DEF NoValidation
    <3> QED  BY <2>1, <3>3, <3>4, <3>5, <3>6 DEF Owed, Holders, Attached
  <2>4. CASE validation.gen # g
    BY <1>1, <2>1, <2>2, <2>4, OwedClose DEF EndGeneration, KeepsAttempt
  <2> QED  BY <2>3, <2>4
<1>2. CASE LateTakeover(g)
  <2>1. UNCHANGED << attempt, life, validation, validators >>
    BY <1>2 DEF LateTakeover
  <2>2. /\ cleanup'.gen = cleanup.gen /\ cleanup'.failed = cleanup.failed
        /\ cleanup'.reply = cleanup.reply /\ cleanup'.takeover = cleanup.takeover
    BY <1>2 DEF LateTakeover, TypeOK, Cleanups
  <2> QED  BY <2>1, <2>2 DEF Owed, Holders, Attached, Pending
<1>3. CASE IgnoreGenerationEnd(g) \/ EndWatch(g)
  <2>1. UNCHANGED owedVars
    BY <1>3 DEF IgnoreGenerationEnd, EndWatch, owedVars
  <2> QED  BY <2>1, OwedQuiet
<1> QED  BY <1>1, <1>2, <1>3 DEF WatchStep

\* A validation answers, or leaves its reply with the cleanup it starts.
LEMMA OwedValidation ==
  ASSUME TypeOK, Slots, Owed, NEW g \in validators, FinishValidation(g)
  PROVE  Owed'
<1> USE DEF loopVars
<1>1. UNCHANGED attempt /\ validators' = validators \ {g}
  BY DEF FinishValidation
<1>2. CASE validation.gen # g /\ UNCHANGED << life, validation, cleanup >>
  BY <1>1, <1>2 DEF Owed, Holders, Attached, Pending
<1>3. CASE /\ validation.gen = g /\ validation' = NoValidation
           /\ \E a : Answer(validation.reply, a)
           /\ UNCHANGED cleanup \/ (generation = g /\ StartCleanup("uncertain", NoCall))
  <2>1. validation.reply \in Replies
    BY DEF TypeOK, Validations, Replies
  <2>2. \A m \in Lifecycles : life'[m].phase = IF m = validation.reply THEN "returned"
                                               ELSE life[m].phase
    BY <1>3, <2>1, AnswerPhases
  <2>3. validation'.gen = 0 /\ validation'.reply = NoCall
    BY <1>3 DEF NoValidation
  <2>4. CASE UNCHANGED cleanup
    BY <1>1, <2>2, <2>3, <2>4 DEF Owed, Holders, Attached, Pending
  <2>5. CASE generation = g /\ StartCleanup("uncertain", NoCall)
    <3>1. generation # 0
      BY <2>5 DEF Slots, Numbered
    <3>2. cleanup.reply = NoCall /\ cleanup.takeover = NoCall
      BY <3>1, NobodyAttached DEF Slots, OneSlot, Pending
    <3>3. cleanup'.reply = NoCall /\ cleanup'.takeover = NoCall
      BY <2>5, CleanupStarted
    <3> QED  BY <1>1, <2>2, <2>3, <3>2, <3>3 DEF Owed, Holders, Attached
  <2> QED  BY <1>3, <2>4, <2>5
<1> QED  BY <1>2, <1>3 DEF FinishValidation

\* Every step keeps the invariant of replies.
LEMMA StepOwed == TypeOK /\ Slots /\ Owed /\ [Next]_vars => Owed'
<1> SUFFICES ASSUME TypeOK, Slots, Owed, [Next]_vars PROVE Owed'
  OBVIOUS
<1> USE DEF loopVars, timerVars, callVars, sessionVars, watchVars
<1>1. CASE Environment
  <2>1. CASE \/ \E c \in Calls : Admit(c) \/ RefuseBusy(c) \/ CancelContext(c)
             \/ \E s \in Stops : StopAfterDone(s) \/ StopExpired(s)
             \/ \E g \in open : LoseSession(g)
             \/ \E g \in open \cup late : RecognizeTakeover(g)
    <3>1. UNCHANGED owedVars
      BY <2>1 DEF Admit, RefuseBusy, CancelContext, StopAfterDone,
                  StopExpired, LoseSession, RecognizeTakeover, owedVars
    <3> QED  BY <3>1, OwedQuiet
  <2>2. ASSUME NEW l \in Lifecycles, BeginLifecycle(l) PROVE Owed'
    <3>1. /\ life[l].phase = "start" /\ UNCHANGED << attempt, validation, validators, cleanup >>
          /\ \E a : SetLife(l, "returned", a) \/ SetLife(l, "latched", a)
      BY <2>2 DEF BeginLifecycle
    <3> QED  BY <3>1, OwedAnswer
  <2>3. ASSUME NEW s \in Stops, StopOwner(s) PROVE Owed'
    <3>1. UNCHANGED << life, validation, validators >> /\ KeepsAttempt
      BY <2>3, AttemptCanceled DEF StopOwner
    <3>2. CASE UNCHANGED cleanup
      BY <3>1, <3>2 DEF KeepsAttempt, Owed, Holders, Attached, Pending
    <3>3. CASE generation # 0 /\ StartCleanup("stopped", NoCall)
      BY <3>1, <3>3, OwedClose
    <3> QED  BY <2>3, <3>2, <3>3 DEF StopOwner
  <2> QED  BY <1>1, <2>1, <2>2, <2>3 DEF Environment
<1>2. ASSUME NEW c \in Calls, CallerStep(c) PROVE Owed'
  <2>1. CASE RegisterAndConnect(c)
    <3>1. UNCHANGED << life, validation, validators, cleanup >>
      BY <2>1 DEF RegisterAndConnect
    <3>2. CASE MayConnect(FALSE) /\ Connect(NoCall)
      BY <3>1, <3>2, Connected DEF MayConnect, Owed, Holders, Attached, Pending
    <3>3. CASE UNCHANGED attempt
      BY <3>1, <3>3, OwedQuiet DEF owedVars
    <3> QED  BY <2>1, <3>2, <3>3 DEF RegisterAndConnect
  <2>2. CASE CancelWorker(c)
    <3>1. KeepsAttempt /\ UNCHANGED << life, validation, validators, cleanup >>
      BY <2>2, AttemptCanceled DEF CancelWorker
    <3> QED  BY <3>1 DEF KeepsAttempt, Owed, Holders, Attached, Pending
  <2>3. CASE \/ PassGate(c) \/ GiveUpRegistration(c) \/ ReceiveReply(c) \/ NoticeCancel(c)
             \/ CancelAfterDone(c) \/ Leave(c) \/ NotifyDemand(c)
             \/ RefuseWorker(c) \/ RegisterAndQueue(c) \/ RegisterAndStart(c)
    <3>1. UNCHANGED owedVars
      BY <2>3 DEF PassGate, GiveUpRegistration, ReceiveReply, NoticeCancel, CancelAfterDone,
                  Leave, NotifyDemand, RefuseWorker, RegisterAndQueue, RegisterAndStart, owedVars
    <3> QED  BY <3>1, OwedQuiet
  <2> QED  BY <1>2, <2>1, <2>2, <2>3 DEF CallerStep
<1>3. ASSUME NEW c \in Calls, OperationStep(c) PROVE Owed'
  <2>1. UNCHANGED owedVars
    BY <1>3 DEF OperationStep, PassSendCheck, SendRPC, EndOperation, CompleteWorker, owedVars
  <2> QED  BY <2>1, OwedQuiet
<1>4. CASE AttemptStep
  <2>1. CASE FailConnect \/ FinishConnect \/ FailSetup \/ CloseFailedSetup
    <3>1. KeepsAttempt
      BY <2>1, AttemptRuns
    <3>2. UNCHANGED << life, validation, validators, cleanup >>
      BY <2>1, Zenon DEF FailConnect, FinishConnect, FailSetup, CloseFailedSetup
    <3> QED  BY <3>1, <3>2 DEF KeepsAttempt, Owed, Holders, Attached, Pending
  <2> QED  BY <1>4, <2>1, OwedReports DEF AttemptStep
<1>5. ASSUME NEW g \in watching \cup late, WatchStep(g) PROVE Owed'
  BY <1>5, OwedWatch
<1>6. CASE TimerStep \/ StrayExpired
  <2>1. CASE IdleExpired
    BY <2>1, OwedIdle DEF IdleExpired
  <2>2. CASE StrayExpired
    <3>1. PICK i \in 1 .. Len(stray) : CloseIdle(stray[i])
      BY <2>2 DEF StrayExpired
    <3>2. UNCHANGED << life, attempt, validation, validators >>
      BY <2>2 DEF StrayExpired
    <3> QED  BY <3>1, <3>2, OwedIdle
  <2>3. CASE FireTimer \/ DropExpiry
    <3>1. UNCHANGED owedVars
      BY <2>3 DEF FireTimer, DropExpiry, owedVars
    <3> QED  BY <3>1, OwedQuiet
  <2> QED  BY <1>6, <2>1, <2>2, <2>3 DEF TimerStep
<1>7. CASE CleanupStep
  BY <1>7, OwedCleanup DEF CleanupStep
<1>8. ASSUME NEW l \in Lifecycles, LifecycleStep(l) PROVE Owed'
  <2>1. CASE LifecycleAfterDone(l)
    <3>1. /\ life[l].phase = "latched" /\ UNCHANGED << attempt, validation, validators, cleanup >>
          /\ \E a : SetLife(l, "returned", a)
      BY <2>1 DEF LifecycleAfterDone
    <3> QED  BY <3>1, OwedAnswer
  <2> QED  BY <1>8, <2>1, OwedRelease, OwedTakeOver DEF LifecycleStep
<1>9. ASSUME NEW g \in validators, FinishValidation(g) PROVE Owed'
  BY <1>9, OwedValidation
<1>10. CASE UNCHANGED vars
  <2>1. UNCHANGED owedVars
    BY <1>10 DEF vars, owedVars
  <2> QED  BY <2>1, OwedQuiet
<1> QED  BY <1>1, <1>2, <1>3, <1>4, <1>5, <1>6, <1>7, <1>8, <1>9, <1>10 DEF Next

(* Each lifecycle call that waits is owed its reply by exactly one holder that *)
(* will speak, in every execution.                                          *)
THEOREM RepliesAreOwed == Spec => []LifecycleReplyOwed
<1>1. Spec => []TypeOK
  BY TypeCorrect
<1>2. TypeOK /\ Owed => LifecycleReplyOwed
  BY OwedCounts
<1> QED  BY <1>1, <1>2, InitSlots, StepSlots, InitOwed, StepOwed, PTL DEF Spec

-----------------------------------------------------------------------------
(* The promise of Ownership.  Two facts about goroutines are needed first:    *)
(* the session an attempt reports was opened, and the generation an operation *)
(* runs on is the active one or was it before.                             *)

(* What the attempt's goroutine knows of the session it opened. *)
Opened ==
  /\ attempt.phase = "connecting" => attempt.err = "none" /\ ~attempt.session
  /\ attempt.phase = "closing" => attempt.err # "none" /\ attempt.gen \in open
  /\ attempt.phase = "ended" /\ (attempt.err = "none" \/ attempt.session) =>
       attempt.gen \in open

\* The invariant of the attempt's session holds at first.
LEMMA InitOpened == Init => Opened
BY DEF Init, Opened, NoAttempt

(* The goroutine connects, or fails, with a session or without. *)
LEMMA OpenedAttempt ==
  ASSUME TypeOK, Opened, FailConnect \/ FinishConnect \/ FailSetup \/ CloseFailedSetup
  PROVE  Opened'
<1> USE DEF loopVars, sessionVars
<1>1. attempt \in Attempts
  BY DEF TypeOK
<1>2. CASE FailConnect
  <2>1. /\ \E e \in {"failed", "canceled", "panic"} :
             attempt' = [attempt EXCEPT !.phase = "ended", !.err = e]
        /\ attempt.phase = "connecting"
    BY <1>2 DEF FailConnect
  <2> QED  BY <1>1, <2>1 DEF Attempts, Opened
<1>3. CASE FinishConnect
  <2>1. attempt'.phase = "ended" /\ attempt'.gen = attempt.gen /\ open' = open \cup {attempt.gen}
    BY <1>1, <1>3 DEF FinishConnect, Attempts
  <2> QED  BY <2>1 DEF Opened
<1>4. CASE FailSetup
  <2>1. \E e \in {"failed", "panic"} :
          attempt' = [attempt EXCEPT !.phase = "closing", !.err = e]
    BY <1>4 DEF FailSetup
  <2>2. open' = open \cup {attempt.gen}
    BY <1>4 DEF FailSetup
  <2> QED  BY <1>1, <2>1, <2>2 DEF Attempts, Opened
<1>5. CASE CloseFailedSetup
  <2>1. PICK closed \in BOOLEAN :
          /\ attempt' = [attempt EXCEPT
                           !.phase = "ended",
                           !.session = KeepsSession(closed),
                           !.cleanupErr = ~closed,
                           !.err = IF attempt.canceled /\ attempt.err # "panic"
                                   THEN "canceled" ELSE attempt.err]
          /\ open' = IF closed THEN open \ {attempt.gen} ELSE open
    BY <1>5, Zenon DEF CloseFailedSetup
  <2>2. attempt.phase = "closing"
    BY <1>5, Zenon DEF CloseFailedSetup
  <2>3. /\ attempt'.gen = attempt.gen /\ attempt'.phase = "ended"
        /\ attempt'.session = KeepsSession(closed)
        /\ attempt'.err \in {"canceled", attempt.err}
    BY <1>1, <2>1 DEF Attempts
  <2>4. attempt'.err # "none" /\ attempt.gen \in open
    BY <2>2, <2>3 DEF Opened
  <2>5. attempt'.session => ~closed
    BY <2>3 DEF KeepsSession
  <2>6. attempt'.session => attempt'.gen \in open'
    BY <2>1, <2>3, <2>4, <2>5
  <2> QED  BY <2>3, <2>4, <2>6 DEF Opened
<1> QED  BY <1>2, <1>3, <1>4, <1>5

\* Every step keeps it.
LEMMA StepOpened == TypeOK /\ Slots /\ Opened /\ [Next]_vars => Opened'
<1> SUFFICES ASSUME TypeOK, Slots, Opened, [Next]_vars PROVE Opened'
  OBVIOUS
<1>1. Moves
  BY StepMoves DEF Slots
<1>2. CASE Stays \/ Closes
  BY <1>2 DEF Stays, Closes, SameAttempt, Opened
<1>3. CASE Connects
  BY <1>3 DEF Connects, FreshAttempt, Opened
<1>4. CASE Joins
  BY <1>4 DEF Joins, SameAttempt, FreshAttempt, Opened, Slots, OneSlot
<1>5. CASE FailAttempt \/ ActivateAttempt \/ OrphanAttempt
  <2>1. attempt'.phase = "none"
    BY <1>5 DEF FailAttempt, ActivateAttempt, OrphanAttempt, NoAttempt
  <2> QED  BY <2>1 DEF Opened
<1> QED  BY <1>1, <1>2, <1>3, <1>4, <1>5, OpenedAttempt DEF Moves, AttemptStep

-----------------------------------------------------------------------------
(* Operations and the generations they run on.                              *)

AtWork == {"running", "sending", "sent"}

(* A call that has not registered has no worker. *)
Unstarted == \A c \in Calls : pc[c] \in {"start", "gate", "register"} => worker[c] = "none"

\* No call has a worker at first.
LEMMA InitUnstarted == Init => Unstarted
BY DEF Init, Unstarted

\* A call comes to its registration from before it only.
LEMMA CallersAdvance ==
  ASSUME TypeOK, [Next]_vars, NEW d \in Calls, pc'[d] \in {"start", "gate", "register"}
  PROVE  pc[d] \in {"start", "gate", "register"}
<1> USE DEF loopVars, timerVars, callVars, sessionVars, watchVars
<1>1. pc \in [Calls -> CallLocations]
  BY DEF TypeOK
<1>2. CASE \E c \in Calls : Admit(c) \/ RefuseBusy(c)
  BY <1>1, <1>2 DEF Admit, RefuseBusy, Return, Goto
<1>3. CASE \/ \E c \in Calls : CancelContext(c)
           \/ \E l \in Lifecycles : BeginLifecycle(l) \/ LifecycleStep(l)
           \/ \E s \in Stops : StopOwner(s) \/ StopAfterDone(s) \/ StopExpired(s)
           \/ \E g \in open : LoseSession(g)
           \/ \E g \in open \cup late : RecognizeTakeover(g)
           \/ \E g \in watching \cup late : WatchStep(g)
           \/ TimerStep \/ StrayExpired \/ CleanupStep
           \/ \E g \in validators : FinishValidation(g)
           \/ \E c \in Calls : OperationStep(c)
           \/ UNCHANGED vars
  <2>1. UNCHANGED pc
    BY <1>3, Zenon
       DEF CancelContext, BeginLifecycle, LifecycleStep, LifecycleAfterDone, ReleaseSession,
           TakeOverSession, StopOwner, StopAfterDone, StopExpired, LoseSession,
           RecognizeTakeover, WatchStep, EndGeneration, IgnoreGenerationEnd, LateTakeover,
           EndWatch, TimerStep, FireTimer, IdleExpired, DropExpiry, StrayExpired, CleanupStep,
           FailCleanup, FinishCleanup, FinishValidation, OperationStep, PassSendCheck, SendRPC,
           EndOperation, CompleteWorker, vars
  <2> QED  BY <2>1
<1>4. CASE AttemptStep
  <2>1. UNCHANGED pc
    BY <1>4, Zenon DEF AttemptStep, FailConnect, FinishConnect, FailSetup, CloseFailedSetup,
                       FailAttempt, ActivateAttempt, OrphanAttempt
  <2> QED  BY <2>1
<1>5. ASSUME NEW c \in Calls, CallerStep(c) PROVE pc[d] \in {"start", "gate", "register"}
  <2>1. CASE PassGate(c) \/ GiveUpRegistration(c) \/ RefuseWorker(c) \/ RegisterAndConnect(c)
             \/ RegisterAndQueue(c) \/ RegisterAndStart(c)
    BY <1>1, <2>1 DEF PassGate, GiveUpRegistration, RefuseWorker, RegisterAndConnect,
                      RegisterAndQueue, RegisterAndStart, Return, Goto
  <2>2. CASE ReceiveReply(c) \/ NoticeCancel(c) \/ CancelAfterDone(c) \/ Leave(c)
             \/ NotifyDemand(c) \/ CancelWorker(c)
    BY <1>1, <2>2 DEF ReceiveReply, NoticeCancel, CancelAfterDone, Leave, NotifyDemand,
                      CancelWorker, Return, Goto
  <2> QED  BY <1>5, <2>1, <2>2 DEF CallerStep
<1> QED  BY <1>2, <1>3, <1>4, <1>5 DEF Next, Environment

(* What startNext makes of a worker. *)
LEMMA NextStarted ==
  ASSUME NEW w, NEW r, NEW g, StartNext(w, r, g)
  PROVE  \A c \in Calls :
           /\ w[c] # "queued" => worker'[c] = w[c] /\ bound'[c] = bound[c]
           /\ w[c] = "queued" /\ worker'[c] # "running" =>
                worker'[c] \in {"queued", "replied"} /\ bound'[c] = bound[c]
           /\ w[c] = "queued" /\ worker'[c] = "running" => bound'[c] = g /\ g # 0
BY DEF StartNext, Starting, Dispatching

(* Failing the queue touches no other worker. *)
LEMMA QueueAnswered ==
  ASSUME NEW a, FailQueued(a)
  PROVE  \A c \in Calls : worker'[c] = worker[c]
                          \/ (worker[c] = "queued" /\ worker'[c] = "replied")
BY DEF FailQueued, Queue

(* A step that starts, moves and ends no operation. *)
SameWork ==
  \A c \in Calls :
    worker[c] \in AtWork \/ worker'[c] \in AtWork =>
      worker'[c] = worker[c] /\ bound'[c] = bound[c]

(* A step that starts operations on generation g, and touches no other. *)
StartsWork(g) ==
  \A c \in Calls :
    /\ worker[c] \in AtWork => worker'[c] = worker[c] /\ bound'[c] = bound[c]
    /\ worker'[c] \in AtWork /\ worker[c] \notin AtWork => bound'[c] = g /\ g # 0

(* A step that brings no worker to a call that does not register. *)
NoneStays == \A c \in Calls : worker[c] = "none" => worker'[c] = "none" \/ pc'[c] = "wait"

\* A step that leaves the workers alone.
LEMMA WorkQuiet == ASSUME UNCHANGED << worker, bound >> PROVE SameWork /\ NoneStays
BY DEF SameWork, NoneStays

\* startNext binds what it starts, and leaves alone what runs.
LEMMA StartNextWork ==
  ASSUME TypeOK, NEW c \in Calls, NEW stage \in {"queued", "replied"}, worker[c] \notin AtWork,
         NEW r, NEW g, StartNext([worker EXCEPT ![c] = stage], r, g)
  PROVE  /\ StartsWork(g)
         /\ \A d \in Calls \ {c} : worker[d] = "none" => worker'[d] = "none"
<1>1. worker \in [Calls -> WorkerStages]
  BY DEF TypeOK
<1>2. \A d \in Calls : [worker EXCEPT ![c] = stage][d] = IF d = c THEN stage ELSE worker[d]
  BY <1>1
<1> DEFINE w == [worker EXCEPT ![c] = stage]
<1>3. \A d \in Calls : w[d] = IF d = c THEN stage ELSE worker[d]
  BY <1>2
<1>4. StartNext(w, r, g)
  OBVIOUS
<1> HIDE DEF w
<1>5. \A d \in Calls :
        /\ w[d] # "queued" => worker'[d] = w[d] /\ bound'[d] = bound[d]
        /\ w[d] = "queued" /\ worker'[d] # "running" =>
             worker'[d] \in {"queued", "replied"} /\ bound'[d] = bound[d]
        /\ w[d] = "queued" /\ worker'[d] = "running" => bound'[d] = g /\ g # 0
  BY <1>4, NextStarted
<1> QED  BY <1>3, <1>5 DEF StartsWork, AtWork

\* An attempt that becomes the generation starts what waited for it.
LEMMA ActivateWork == ASSUME ActivateAttempt PROVE StartsWork(attempt.gen) /\ NoneStays
<1>1. StartNext(SweptWorkers, SweptResults, attempt.gen)
  BY DEF ActivateAttempt
<1>2. \A d \in Calls : SweptWorkers[d] = IF d \in Swept THEN "replied" ELSE worker[d]
  BY DEF SweptWorkers
<1>3. \A d \in Swept : worker[d] \in {"canceled", "queued"}
  BY DEF Swept
<1> QED  BY <1>1, <1>2, <1>3, NextStarted DEF StartsWork, NoneStays, AtWork

\* The other steps of an attempt start nothing.
LEMMA AttemptWork ==
  ASSUME \/ FailConnect \/ FinishConnect \/ FailSetup \/ CloseFailedSetup
         \/ FailAttempt \/ OrphanAttempt
  PROVE  SameWork /\ NoneStays
<1> USE DEF callVars
<1>1. CASE FailConnect \/ FinishConnect \/ FailSetup \/ CloseFailedSetup
  <2>1. UNCHANGED << worker, bound >>
    BY <1>1, Zenon DEF FailConnect, FinishConnect, FailSetup, CloseFailedSetup
  <2> QED  BY <2>1, WorkQuiet
<1>2. CASE FailAttempt \/ OrphanAttempt
  <2>1. UNCHANGED bound
    BY <1>2 DEF FailAttempt, OrphanAttempt
  <2>2. \A c \in Calls : worker'[c] = worker[c]
                         \/ (worker[c] \in {"queued", "canceled"} /\ worker'[c] = "replied")
    BY <1>2 DEF FailAttempt, OrphanAttempt, SweptWorkers, Swept, LiveQueue
  <2> QED  BY <2>1, <2>2 DEF SameWork, NoneStays, AtWork
<1> QED  BY <1>1, <1>2

\* A caller starts an operation when it registers with a generation.
LEMMA CallerWork ==
  ASSUME TypeOK, Unstarted, NEW c \in Calls, CallerStep(c)
  PROVE  (SameWork \/ (RegisterAndStart(c) /\ StartsWork(generation))) /\ NoneStays
<1> USE DEF callVars
<1>1. worker \in [Calls -> WorkerStages] /\ pc \in [Calls -> CallLocations]
  BY DEF TypeOK
<1>2. CASE RegisterAndConnect(c) \/ RegisterAndQueue(c)
  <2>1. worker[c] = "none" /\ UNCHANGED bound
    BY <1>2 DEF Unstarted, RegisterAndConnect, RegisterAndQueue
  <2>2. UNCHANGED worker \/ (worker' = [worker EXCEPT ![c] = "queued"] /\ pc'[c] = "wait")
    BY <1>1, <1>2 DEF RegisterAndConnect, RegisterAndQueue, Goto
  <2>3. CASE worker' = [worker EXCEPT ![c] = "queued"] /\ pc'[c] = "wait"
    BY <1>1, <2>1, <2>3 DEF SameWork, NoneStays, AtWork
  <2> QED  BY <2>1, <2>2, <2>3, WorkQuiet
<1>3. CASE RegisterAndStart(c)
  <2>1. worker[c] = "none" /\ pc'[c] = "wait"
    BY <1>1, <1>3 DEF Unstarted, RegisterAndStart, Goto
  <2>2. StartNext([worker EXCEPT ![c] = "queued"], result, generation)
    BY <1>3 DEF RegisterAndStart
  <2>3. /\ StartsWork(generation)
        /\ \A d \in Calls \ {c} : worker[d] = "none" => worker'[d] = "none"
    BY <2>1, <2>2, StartNextWork DEF AtWork
  <2> QED  BY <1>3, <2>1, <2>3 DEF NoneStays
<1>4. CASE CancelWorker(c)
  <2>1. UNCHANGED bound
    BY <1>4 DEF CancelWorker
  <2>2. CASE UNCHANGED worker
    BY <2>1, <2>2, WorkQuiet
  <2>3. CASE /\ worker[c] \in {"queued", "canceled"}
             /\ \E stage \in {"canceled", "replied"} : worker' = [worker EXCEPT ![c] = stage]
    BY <1>1, <2>1, <2>3 DEF SameWork, NoneStays, AtWork
  <2> QED  BY <1>4, <2>2, <2>3 DEF CancelWorker
<1>5. CASE \/ PassGate(c) \/ GiveUpRegistration(c) \/ ReceiveReply(c) \/ NoticeCancel(c)
           \/ CancelAfterDone(c) \/ Leave(c) \/ NotifyDemand(c) \/ RefuseWorker(c)
  <2>1. UNCHANGED << worker, bound >>
    BY <1>5 DEF PassGate, GiveUpRegistration, ReceiveReply, NoticeCancel, CancelAfterDone,
                Leave, NotifyDemand, RefuseWorker
  <2> QED  BY <2>1, WorkQuiet
<1> QED  BY <1>2, <1>3, <1>4, <1>5 DEF CallerStep

\* An operation moves by itself; when it completes, what is queued starts.
LEMMA OperationWork ==
  ASSUME TypeOK, NEW c \in Calls, OperationStep(c)
  PROVE  /\ \/ CompleteWorker(c) /\ StartsWork(generation)
            \/ /\ PassSendCheck(c) \/ SendRPC(c) \/ EndOperation(c)
               /\ worker[c] \in AtWork /\ worker'[c] \in {"sending", "sent", "ended"}
               /\ UNCHANGED bound
               /\ \A d \in Calls \ {c} : worker'[d] = worker[d]
         /\ NoneStays
<1> USE DEF callVars
<1>1. worker \in [Calls -> WorkerStages]
  BY DEF TypeOK
<1>2. CASE CompleteWorker(c)
  <2>1. worker[c] = "ended" /\ StartNext([worker EXCEPT ![c] = "replied"], result, generation)
    BY <1>2 DEF CompleteWorker
  <2>2. /\ StartsWork(generation)
        /\ \A d \in Calls \ {c} : worker[d] = "none" => worker'[d] = "none"
    BY <2>1, StartNextWork DEF AtWork
  <2> QED  BY <1>2, <2>1, <2>2 DEF NoneStays
<1>3. CASE PassSendCheck(c) \/ SendRPC(c) \/ EndOperation(c)
  <2>1. /\ worker[c] \in AtWork /\ UNCHANGED bound
        /\ \E stage \in {"sending", "sent", "ended"} : worker' = [worker EXCEPT ![c] = stage]
    BY <1>3 DEF PassSendCheck, SendRPC, EndOperation, AtWork
  <2> QED  BY <1>1, <1>3, <2>1 DEF NoneStays, AtWork
<1> QED  BY <1>2, <1>3 DEF OperationStep

\* Watchers, cleanups and Close answer or cancel what is queued only.
LEMMA HandlerWork ==
  ASSUME \/ \E g \in watching \cup late : WatchStep(g)
         \/ CleanupStep
         \/ \E s \in Stops : StopOwner(s)
  PROVE  SameWork /\ NoneStays
<1> USE DEF loopVars, timerVars, callVars, sessionVars, watchVars
<1>1. UNCHANGED bound
  BY DEF WatchStep, EndGeneration, IgnoreGenerationEnd, LateTakeover, EndWatch,
         CleanupStep, FailCleanup, FinishCleanup, StopOwner
<1>2. UNCHANGED worker \/ (\E a : FailQueued(a))
      \/ worker' = [c \in Calls |-> IF c \in Queue THEN "canceled" ELSE worker[c]]
  <2>1. ASSUME NEW g \in watching \cup late, WatchStep(g)
        PROVE  UNCHANGED worker \/ \E a : FailQueued(a)
    BY <2>1, Zenon DEF WatchStep, EndGeneration, IgnoreGenerationEnd, LateTakeover, EndWatch
  <2>2. ASSUME CleanupStep PROVE UNCHANGED worker \/ \E a : FailQueued(a)
    BY <2>2, Zenon DEF CleanupStep, FailCleanup, FinishCleanup, ResumeTakeover, ResumeQueue
  <2>3. ASSUME NEW s \in Stops, StopOwner(s)
        PROVE  \/ UNCHANGED worker \/ \E a : FailQueued(a)
               \/ worker' = [c \in Calls |-> IF c \in Queue THEN "canceled" ELSE worker[c]]
    BY <2>3, Zenon DEF StopOwner
  <2> QED  BY <2>1, <2>2, <2>3
<1>3. \A c \in Calls : worker'[c] = worker[c]
                       \/ (worker[c] = "queued" /\ worker'[c] \in {"replied", "canceled"})
  BY <1>2, QueueAnswered DEF Queue
<1> QED  BY <1>1, <1>3 DEF SameWork, NoneStays, AtWork

\* All else leaves the workers alone.
LEMMA OtherWork ==
  ASSUME \/ \E c \in Calls : Admit(c) \/ RefuseBusy(c) \/ CancelContext(c)
         \/ \E l \in Lifecycles : BeginLifecycle(l) \/ LifecycleStep(l)
         \/ \E s \in Stops : StopAfterDone(s) \/ StopExpired(s)
         \/ \E g \in open : LoseSession(g)
         \/ \E g \in open \cup late : RecognizeTakeover(g)
         \/ TimerStep \/ StrayExpired
         \/ \E g \in validators : FinishValidation(g)
         \/ UNCHANGED vars
  PROVE  SameWork /\ NoneStays
<1> USE DEF loopVars, timerVars, callVars, sessionVars, watchVars
<1>1. UNCHANGED << worker, bound >>
  BY DEF Admit, RefuseBusy, CancelContext, BeginLifecycle, LifecycleStep,
         LifecycleAfterDone, ReleaseSession, TakeOverSession, StopAfterDone, StopExpired,
         LoseSession, RecognizeTakeover, TimerStep, FireTimer, IdleExpired, DropExpiry,
         StrayExpired, FinishValidation, vars
<1> QED  BY <1>1, WorkQuiet

(* What is at work after a step was so before, or starts on the generation. *)
Grows ==
  \A c \in Calls :
    worker'[c] \in AtWork =>
      \/ worker[c] \in AtWork /\ bound'[c] = bound[c]
      \/ bound'[c] = generation' /\ generation' # 0

\* Every step is such, and brings a worker to a call that registers only.
LEMMA StepWork == ASSUME TypeOK, Unstarted, [Next]_vars PROVE Grows /\ NoneStays
<1> USE DEF loopVars
<1>1. ASSUME SameWork PROVE Grows
  BY <1>1 DEF SameWork, Grows
<1>2. ASSUME StartsWork(generation) /\ UNCHANGED generation PROVE Grows
  BY <1>2 DEF StartsWork, Grows
<1>3. ASSUME NEW c \in Calls, CallerStep(c) PROVE Grows /\ NoneStays
  <2>1. RegisterAndStart(c) => UNCHANGED generation
    BY DEF RegisterAndStart
  <2> QED  BY <1>1, <1>2, <1>3, <2>1, CallerWork
<1>4. ASSUME NEW c \in Calls, OperationStep(c) PROVE Grows /\ NoneStays
  <2>1. CompleteWorker(c) => UNCHANGED generation
    BY DEF CompleteWorker
  <2>2. CASE CompleteWorker(c) /\ StartsWork(generation)
    BY <1>2, <1>4, <2>1, <2>2, OperationWork
  <2>3. CASE /\ worker[c] \in AtWork /\ worker'[c] \in {"sending", "sent", "ended"}
             /\ UNCHANGED bound /\ \A d \in Calls \ {c} : worker'[d] = worker[d]
    <3>1. Grows
      BY <2>3 DEF Grows
    <3> QED  BY <1>4, <3>1, OperationWork
  <2> QED  BY <1>4, <2>2, <2>3, OperationWork
<1>5. CASE AttemptStep
  <2>1. CASE ActivateAttempt
    <3>1. generation' = attempt.gen
      BY <2>1 DEF ActivateAttempt
    <3> QED  BY <2>1, <3>1, ActivateWork DEF StartsWork, Grows
  <2> QED  BY <1>1, <1>5, <2>1, AttemptWork DEF AttemptStep
<1> QED  BY <1>1, <1>3, <1>4, <1>5, HandlerWork, OtherWork DEF Next, Environment

\* A call gets its worker when it registers, and stays registered.
LEMMA StepUnstarted == TypeOK /\ Unstarted /\ [Next]_vars => Unstarted'
<1> SUFFICES ASSUME TypeOK, Unstarted, [Next]_vars,
                    NEW c \in Calls, pc'[c] \in {"start", "gate", "register"}
             PROVE  worker'[c] = "none"
  BY DEF Unstarted
<1>1. worker[c] = "none"
  BY CallersAdvance DEF Unstarted
<1> QED  BY <1>1, StepWork DEF NoneStays

(* A generation with an operation is numbered, is no attempt any more, and if  *)
(* its session may hold resources it is the active one or being closed.      *)
Used(g) ==
  /\ g # 0 /\ g <= lastGen /\ g # attempt.gen
  /\ g \in open => g \in {generation, cleanup.gen}

Bound == \A c \in Calls : worker[c] \in AtWork => Used(bound[c])

\* Nothing is at work at first.
LEMMA InitBound == Init => Bound
BY DEF Init, Bound, AtWork

\* However the session moves, this stays so.
LEMMA StaysUsed ==
  ASSUME TypeOK, Slots, Moves, NEW g \in Nat, Used(g)
  PROVE  Used(g)'
<1>1. /\ attempt.gen \in Nat /\ lastGen \in Nat
      /\ attempt.gen # 0 => generation = 0 /\ cleanup.gen = 0
      /\ generation # 0 => cleanup.gen = 0
      /\ attempt.gen <= lastGen
  BY DEF TypeOK, Attempts, Slots, OneSlot
<1>2. CASE Stays
  BY <1>2 DEF Stays, SameAttempt, Used
<1>3. CASE Connects
  BY <1>1, <1>3 DEF Connects, FreshAttempt, Used
<1>4. CASE Closes
  BY <1>1, <1>4 DEF Closes, SameAttempt, Used
<1>5. CASE Joins
  BY <1>1, <1>5 DEF Joins, SameAttempt, FreshAttempt, Used
<1>6. CASE AttemptStep
  <2> USE DEF loopVars, sessionVars
  <2>1. attempt.gen # 0
    <3>1. attempt.phase # "none"
      BY <1>6, Zenon DEF AttemptStep, FailConnect, FinishConnect, FailSetup, CloseFailedSetup,
                         FailAttempt, ActivateAttempt, OrphanAttempt
    <3> QED  BY <3>1 DEF Slots
  <2>2. g \notin open
    BY <1>1, <2>1 DEF Used
  <2>3. attempt'.gen \in {0, attempt.gen} /\ UNCHANGED lastGen
    <3>1. CASE FailConnect \/ FinishConnect \/ FailSetup \/ CloseFailedSetup
      <4>1. UNCHANGED lastGen
        BY <3>1, Zenon DEF FailConnect, FinishConnect, FailSetup, CloseFailedSetup
      <4> QED  BY <3>1, <4>1, AttemptRuns DEF KeepsAttempt
    <3>2. CASE FailAttempt \/ ActivateAttempt \/ OrphanAttempt
      BY <3>2 DEF FailAttempt, ActivateAttempt, OrphanAttempt, NoAttempt
    <3> QED  BY <1>6, <3>1, <3>2 DEF AttemptStep
  <2>4. open' \in {open, open \cup {attempt.gen}, open \ {attempt.gen}}
    BY <1>6, Zenon DEF AttemptStep, FailConnect, FinishConnect, FailSetup, CloseFailedSetup,
                       FailAttempt, ActivateAttempt, OrphanAttempt
  <2> QED  BY <2>2, <2>3, <2>4 DEF Used
<1> QED  BY <1>2, <1>3, <1>4, <1>5, <1>6 DEF Moves

\* Every step keeps it.
LEMMA StepBound == TypeOK /\ Slots /\ Slots' /\ Unstarted /\ Bound /\ [Next]_vars => Bound'
<1> SUFFICES ASSUME TypeOK, Slots, Slots', Unstarted, Bound, [Next]_vars,
                    NEW c \in Calls, worker'[c] \in AtWork
             PROVE  Used(bound[c])'
  BY DEF Bound
<1>1. CASE worker[c] \in AtWork /\ bound'[c] = bound[c]
  <2>1. Moves /\ bound[c] \in Nat /\ Used(bound[c])
    BY <1>1, StepMoves DEF Slots, Bound, TypeOK
  <2>2. Used(bound[c])' = (/\ bound'[c] # 0 /\ bound'[c] <= lastGen' /\ bound'[c] # attempt'.gen
                           /\ bound'[c] \in open' => bound'[c] \in {generation', cleanup'.gen})
    BY DEF Used
  <2>3. PICK g \in Nat : g = bound[c]
    BY <2>1
  <2>4. Used(g)'
    BY <2>1, <2>3, StaysUsed
  <2> QED  BY <1>1, <2>2, <2>3, <2>4 DEF Used
<1>2. CASE bound'[c] = generation' /\ generation' # 0
  BY <1>2 DEF Slots, OneSlot, Used
<1> QED  BY <1>1, <1>2, StepWork DEF Grows

-----------------------------------------------------------------------------
(* What is closed to become idle.                                           *)

\* A cleanup that ends in "idle" was one before, is that of an attempt, or
\* closes what nobody uses.
LEMMA IdleCleanups ==
  ASSUME TypeOK, [Next]_vars, cleanup'.gen # 0, cleanup'.target = "idle"
  PROVE  \/ cleanup.gen = cleanup'.gen /\ cleanup.target = "idle"
         \/ cleanup'.gen = attempt.gen
         \/ NoDeviceWork
<1> USE DEF loopVars, timerVars, callVars, sessionVars, watchVars
<1> DEFINE Good == \/ cleanup.gen = cleanup'.gen /\ cleanup.target = "idle"
                   \/ cleanup'.gen = attempt.gen
                   \/ NoDeviceWork
<1>1. ASSUME \/ UNCHANGED cleanup \/ cleanup'.target # "idle" \/ cleanup'.gen = 0
             \/ cleanup'.gen = cleanup.gen /\ cleanup'.target = cleanup.target
      PROVE  Good
  BY <1>1
<1>2. CASE Environment
  <2>1. CASE \/ \E c \in Calls : Admit(c) \/ RefuseBusy(c) \/ CancelContext(c)
             \/ \E l \in Lifecycles : BeginLifecycle(l)
             \/ \E s \in Stops : StopAfterDone(s) \/ StopExpired(s)
             \/ \E g \in open : LoseSession(g)
             \/ \E g \in open \cup late : RecognizeTakeover(g)
    <3>1. UNCHANGED cleanup
      BY <2>1 DEF Admit, RefuseBusy, CancelContext, BeginLifecycle, StopAfterDone,
                  StopExpired, LoseSession, RecognizeTakeover
    <3> QED  BY <1>1, <3>1
  <2>2. ASSUME NEW s \in Stops, StopOwner(s) PROVE Good
    <3>1. UNCHANGED cleanup \/ StartCleanup("stopped", NoCall)
      BY <2>2 DEF StopOwner
    <3>2. UNCHANGED cleanup \/ cleanup'.target = "stopped"
      BY <3>1, CleanupStarted
    <3> QED  BY <1>1, <3>2
  <2> QED  BY <1>2, <2>1, <2>2 DEF Environment
<1>3. ASSUME NEW c \in Calls, CallerStep(c) PROVE UNCHANGED cleanup
  BY <1>3 DEF CallerStep, PassGate, GiveUpRegistration, ReceiveReply, NoticeCancel,
              CancelAfterDone, Leave, NotifyDemand, RefuseWorker, RegisterAndConnect,
              RegisterAndQueue, RegisterAndStart, CancelWorker
<1>4. ASSUME NEW c \in Calls, OperationStep(c) PROVE UNCHANGED cleanup
  BY <1>4 DEF OperationStep, PassSendCheck, SendRPC, EndOperation, CompleteWorker
<1>5. CASE AttemptStep
  <2>1. CASE FailConnect \/ FinishConnect \/ FailSetup \/ CloseFailedSetup
    <3>1. UNCHANGED cleanup
      BY <2>1, Zenon DEF FailConnect, FinishConnect, FailSetup, CloseFailedSetup
    <3> QED  BY <1>1, <3>1
  <2>2. CASE FailAttempt \/ ActivateAttempt \/ OrphanAttempt
    <3>1. UNCHANGED cleanup \/ cleanup'.gen = attempt.gen
      BY <2>2 DEF FailAttempt, ActivateAttempt, OrphanAttempt, NoCleanup
    <3> QED  BY <1>1, <3>1
  <2> QED  BY <1>5, <2>1, <2>2 DEF AttemptStep
<1>6. ASSUME NEW g \in watching \cup late, WatchStep(g) PROVE Good
  <2>1. CASE EndGeneration(g)
    <3>1. \E cause \in {"taken_over", "uncertain"} : StartCleanup(cause, NoCall)
      BY <2>1, Zenon DEF EndGeneration
    <3>2. cleanup'.target \in {"taken_over", "uncertain"}
      BY <3>1, CleanupStarted
    <3> QED  BY <1>1, <3>2
  <2>2. CASE LateTakeover(g)
    <3>1. \/ UNCHANGED cleanup
          \/ cleanup'.target = "taken_over"
      BY <2>2 DEF LateTakeover, TypeOK, Cleanups
    <3> QED  BY <1>1, <3>1
  <2>3. CASE IgnoreGenerationEnd(g) \/ EndWatch(g)
    BY <1>1, <2>3 DEF IgnoreGenerationEnd, EndWatch
  <2> QED  BY <1>6, <2>1, <2>2, <2>3 DEF WatchStep
<1>7. CASE TimerStep \/ StrayExpired
  <2>1. UNCHANGED cleanup \/ NoDeviceWork
    BY <1>7 DEF TimerStep, FireTimer, IdleExpired, DropExpiry, StrayExpired, CloseIdle
  <2> QED  BY <1>1, <2>1
<1>8. CASE FailCleanup \/ FinishCleanup
  <2>1. CASE FailCleanup
    BY <1>1, <2>1 DEF FailCleanup, TypeOK, Cleanups
  <2>2. CASE FinishCleanup
    BY <1>1, <2>2 DEF FinishCleanup, NoCleanup
  <2> QED  BY <1>8, <2>1, <2>2
<1>9. ASSUME NEW l \in Lifecycles, LifecycleStep(l) PROVE Good
  <2>1. CASE UNCHANGED cleanup
    BY <1>1, <2>1
  <2>2. CASE cleanup' = [cleanup EXCEPT !.takeover = l]
    BY <1>1, <2>2 DEF TypeOK, Cleanups
  <2>3. CASE StartCleanup("released", l)
    <3>1. cleanup'.target = "released"
      BY <2>3, CleanupStarted
    <3> QED  BY <1>1, <3>1
  <2>4. CASE RetryCleanup(l, "released", l, cleanup.takeover)
    <3>1. cleanup'.target = "released"
      BY <2>4, CleanupRetried
    <3> QED  BY <1>1, <3>1
  <2>5. CASE RetryCleanup(l, cleanup.target, NoCall, l)
    <3>1. cleanup'.gen = cleanup.gen /\ cleanup'.target = cleanup.target
      BY <2>5, CleanupRetried
    <3> QED  BY <1>1, <3>1
  <2> QED  BY <1>9, <2>1, <2>2, <2>3, <2>4, <2>5
           DEF LifecycleStep, LifecycleAfterDone, ReleaseSession, TakeOverSession
<1>10. ASSUME NEW g \in validators, FinishValidation(g) PROVE Good
  <2>1. UNCHANGED cleanup \/ StartCleanup("uncertain", NoCall)
    BY <1>10 DEF FinishValidation
  <2>2. UNCHANGED cleanup \/ cleanup'.target = "uncertain"
    BY <2>1, CleanupStarted
  <2> QED  BY <1>1, <2>2
<1>11. CASE UNCHANGED vars
  BY <1>1, <1>11 DEF vars
<1>12. Good
  BY ONLY [Next]_vars, <1>1, <1>2, <1>3, <1>4, <1>5, <1>6, <1>7, <1>8, <1>9, <1>10, <1>11
     DEF Next, CleanupStep
<1> QED  BY <1>12

\* Nothing is closed at first.
LEMMA InitUnused == Init => IdleIsUnused
BY DEF Init, IdleIsUnused

\* Every step keeps what is closed to become idle unused.
LEMMA StepUnused ==
  TypeOK /\ Slots /\ Slots' /\ Unstarted /\ Bound /\ IdleIsUnused /\ [Next]_vars => IdleIsUnused'
<1> SUFFICES ASSUME TypeOK, Slots, Slots', Unstarted, Bound, IdleIsUnused, [Next]_vars,
                    cleanup'.gen # 0, cleanup'.target = "idle",
                    NEW c \in Calls, worker'[c] \in AtWork, bound'[c] = cleanup'.gen
             PROVE  FALSE
  BY DEF IdleIsUnused, AtWork
<1>1. generation' = 0
  BY DEF Slots, OneSlot
<1>2. worker[c] \in AtWork /\ bound[c] = cleanup'.gen
  BY <1>1, StepWork DEF Grows
<1>3. cleanup'.gen # attempt.gen
  BY <1>2 DEF Bound, Used
<1>4. ~NoDeviceWork
  BY <1>2 DEF NoDeviceWork, Registered, AtWork
<1> QED  BY <1>2, <1>3, <1>4, IdleCleanups DEF IdleIsUnused, AtWork

(* Ownership says what the loop holds and whom it serves, in every execution. *)
THEOREM OwnershipIsTruthful == Spec => []OwnershipMatches
<1>1. Spec => []TypeOK
  BY TypeCorrect
<1>2. Owned /\ IdleIsUnused => OwnershipMatches
  BY DEF Owned, OwnershipMatches
<1> QED  BY <1>1, <1>2, InitSlots, StepSlots, InitOwned, StepOwned, InitUnstarted, StepUnstarted,
            InitBound, StepBound, InitUnused, StepUnused, PTL DEF Spec

-----------------------------------------------------------------------------
(* How the loop's variables read as those of the promise.                   *)

(* One of the three places is taken, or none. *)
Reading ==
  /\ attempt.gen # 0 =>
       /\ Phase = "connecting" /\ Held = attempt.gen /\ Asked = (attempt.takeover # NoCall)
       /\ Serving = {}
  /\ generation # 0 => Phase = "active" /\ Held = generation /\ Asked = FALSE
  /\ Pending =>
       Phase = "closing" /\ Held = cleanup.gen /\ Asked = (cleanup.takeover # NoCall)
  /\ Broken => Phase = "unjoined" /\ Held = cleanup.gen /\ Asked = FALSE
  /\ attempt.gen = 0 /\ generation = 0 /\ cleanup.gen = 0 =>
       Phase = "idle" /\ Held = 0 /\ Asked = FALSE /\ Serving = {}

\* With one place taken and replies where they belong, this is how they read.
LEMMA Reads == ASSUME Slots, Owed, Bound PROVE Reading
<1>1. OneSlot
  BY DEF Slots
<1>2. attempt.gen = 0 => attempt.takeover = NoCall
  BY DEF Owed
<1>3. ~Pending => cleanup.takeover = NoCall
  BY NobodyAttached
<1>4. Held = 0 \/ Held = attempt.gen => Serving = {}
  BY DEF Serving, Bound, Used, AtWork
<1> QED  BY <1>1, <1>2, <1>3, <1>4 DEF Reading, Phase, Held, Asked, OneSlot, Pending, Broken

\* The same after the step.
LEMMA ReadsNext == ASSUME Slots', Owed', Bound' PROVE Reading'
<1>1. OneSlot'
  BY DEF Slots
<1>2. attempt'.gen = 0 => attempt'.takeover = NoCall
  BY DEF Owed
<1>3. ~Pending' => cleanup'.takeover = NoCall
  BY DEF Owed, Attached
<1>4. Held' = 0 \/ Held' = attempt'.gen => Serving' = {}
  BY DEF Serving, Bound, Used, AtWork
<1> QED  BY <1>1, <1>2, <1>3, <1>4 DEF Reading, Phase, Held, Asked, OneSlot, Pending, Broken

(* Who may still send stays the same on the same session. *)
LEMMA ServesOn == ASSUME SameWork, Held' = Held PROVE Serving' = Serving
BY DEF SameWork, Serving, AtWork

(* What the promise speaks of, besides the attempt and the operations. *)
promised == << ownership, generation, cleanup, lastGen, open, sent >>

\* A step that leaves these alone, the operations, and the attempt's number and reply,
\* is a stutter.
LEMMA PromiseQuiet ==
  ASSUME KeepsAttempt, UNCHANGED promised, SameWork
  PROVE  UNCHANGED Own!vars
<1>1. Phase' = Phase /\ Held' = Held /\ Asked' = Asked
  BY DEF KeepsAttempt, promised, Phase, Held, Asked, Pending, Broken
<1> QED  BY <1>1, ServesOn DEF promised, Own!vars

\* A new attempt is a connection of the promise.
LEMMA PromiseConnect ==
  ASSUME TypeOK, Reading, Reading', attempt.gen = 0, generation = 0, cleanup.gen = 0,
         NEW takeover, Connect(takeover), takeover # NoCall \/ ownership = "idle",
         UNCHANGED << ownership, open, sent >>
  PROVE  \E b \in BOOLEAN : Own!Connect(b)
<1>1. attempt'.gen = lastGen + 1 /\ attempt'.takeover = takeover /\ lastGen' = lastGen + 1
  BY Connected
<1>2. lastGen \in Nat
  BY DEF TypeOK
<1>3. Phase = "idle" /\ Serving = {}
  BY DEF Reading
<1>4. /\ Phase' = "connecting" /\ Held' = lastGen + 1 /\ Asked' = (takeover # NoCall)
      /\ Serving' = {}
  BY <1>1, <1>2 DEF Reading
<1>5. Own!Begin(takeover # NoCall)
  BY <1>1, <1>4 DEF Own!Begin
<1>6. Own!Connect(takeover # NoCall)
  BY <1>3, <1>4, <1>5 DEF Own!Connect
<1> QED  BY <1>6

\* The start of a cleanup of the active generation is its end in the promise.
LEMMA PromiseEnd ==
  ASSUME TypeOK, Reading, Reading', SameWork, generation # 0, NEW target, NEW reply,
         StartCleanup(target, reply), UNCHANGED << lastGen, open, sent >>,
         ownership' \in {ownership, "uncertain", "taken_over"}
  PROVE  Own!End
<1>1. /\ generation' = 0 /\ cleanup'.gen = generation /\ cleanup'.failed = FALSE
      /\ cleanup'.takeover = NoCall
  BY CleanupStarted
<1>2. Phase = "active" /\ Held = generation
  BY DEF Reading
<1>3. Phase' = "closing" /\ Held' = generation /\ Asked' = FALSE
  BY <1>1 DEF Reading, Pending
<1>4. Own!Hold("closing") /\ Serving' = Serving
  BY <1>2, <1>3, ServesOn DEF Own!Hold
<1> QED  BY <1>2, <1>4 DEF Own!End

\* A retried cleanup is a retry of the promise.
LEMMA PromiseRetry ==
  ASSUME TypeOK, Reading, Reading', SameWork, Broken, NEW l, NEW target, NEW reply, NEW takeover,
         RetryCleanup(l, target, reply, takeover),
         UNCHANGED << ownership, lastGen, open, sent >>
  PROVE  \E b \in BOOLEAN : Own!Retry(b)
<1>1. cleanup'.gen = cleanup.gen /\ cleanup'.failed = FALSE /\ cleanup'.takeover = takeover
  BY CleanupRetried
<1>2. Phase = "unjoined" /\ Held = cleanup.gen
  BY DEF Reading
<1>3. Phase' = "closing" /\ Held' = cleanup.gen /\ Asked' = (takeover # NoCall)
  BY <1>1 DEF Reading, Pending, Broken
<1>4. Own!Retry(takeover # NoCall)
  BY <1>2, <1>3, ServesOn DEF Own!Retry
<1> QED  BY <1>4

-----------------------------------------------------------------------------
(* The end of the loop's service.                                           *)

(* "stopped" is published only while stopping, and then nothing is held or     *)
(* under way any more.                                                     *)
Halted ==
  /\ cleanup.target = "stopped" => stopping
  /\ ownership = "stopped" => stopping /\ attempt.gen = 0 /\ cleanup.gen = 0

\* Nothing is stopped at first.
LEMMA InitHalted == Init => Halted
BY DEF Init, Halted, NoCleanup

\* Nobody revokes a Close, and only one that came makes "stopped" a target.
LEMMA StopStays ==
  ASSUME TypeOK, [Next]_vars
  PROVE  /\ stopping => stopping'
         /\ cleanup'.target = "stopped" => cleanup.target = "stopped" \/ stopping'
<1> USE DEF loopVars, timerVars, callVars, sessionVars, watchVars
<1> DEFINE Good == /\ stopping => stopping'
                   /\ cleanup'.target = "stopped" => cleanup.target = "stopped" \/ stopping'
<1>1. ASSUME UNCHANGED stopping,
             \/ UNCHANGED cleanup \/ cleanup'.target # "stopped"
             \/ cleanup'.target = cleanup.target
      PROVE  Good
  BY <1>1
<1>2. CASE Environment
  <2>1. CASE \/ \E c \in Calls : Admit(c) \/ RefuseBusy(c) \/ CancelContext(c)
             \/ \E l \in Lifecycles : BeginLifecycle(l)
             \/ \E s \in Stops : StopAfterDone(s) \/ StopExpired(s)
             \/ \E g \in open : LoseSession(g)
             \/ \E g \in open \cup late : RecognizeTakeover(g)
    <3>1. UNCHANGED << stopping, cleanup >>
      BY <2>1 DEF Admit, RefuseBusy, CancelContext, BeginLifecycle, StopAfterDone,
                  StopExpired, LoseSession, RecognizeTakeover
    <3> QED  BY <3>1
  <2>2. CASE \E s \in Stops : StopOwner(s)
    <3>1. stopping'
      BY <2>2 DEF StopOwner
    <3> QED  BY <3>1
  <2> QED  BY <1>2, <2>1, <2>2 DEF Environment
<1>3. ASSUME NEW c \in Calls, CallerStep(c) PROVE UNCHANGED << stopping, cleanup >>
  BY <1>3 DEF CallerStep, PassGate, GiveUpRegistration, ReceiveReply, NoticeCancel,
              CancelAfterDone, Leave, NotifyDemand, RefuseWorker, RegisterAndConnect,
              RegisterAndQueue, RegisterAndStart, CancelWorker
<1>4. ASSUME NEW c \in Calls, OperationStep(c) PROVE Good
  BY <1>4 DEF OperationStep, PassSendCheck, SendRPC, EndOperation, CompleteWorker
<1>5. CASE AttemptStep
  <2>1. CASE FailConnect \/ FinishConnect \/ FailSetup \/ CloseFailedSetup
    <3>1. UNCHANGED << stopping, cleanup >>
      BY <2>1, Zenon DEF FailConnect, FinishConnect, FailSetup, CloseFailedSetup
    <3> QED  BY <3>1
  <2>2. CASE FailAttempt
    <3>1. UNCHANGED stopping
      BY <2>2 DEF FailAttempt
    <3>2. UNCHANGED cleanup \/ cleanup'.target = "idle"
      BY <2>2 DEF FailAttempt, NoCleanup
    <3> QED  BY <3>1, <3>2
  <2>3. CASE ActivateAttempt
    BY <2>3 DEF ActivateAttempt
  <2>4. CASE OrphanAttempt
    BY <2>4 DEF OrphanAttempt, NoCleanup
  <2> QED  BY <1>5, <2>1, <2>2, <2>3, <2>4 DEF AttemptStep
<1>6. ASSUME NEW g \in watching \cup late, WatchStep(g) PROVE Good
  <2>1. UNCHANGED stopping
    BY <1>6 DEF WatchStep, EndGeneration, IgnoreGenerationEnd, LateTakeover, EndWatch
  <2>2. CASE EndGeneration(g)
    <3>1. \E cause \in {"taken_over", "uncertain"} : StartCleanup(cause, NoCall)
      BY <2>2, Zenon DEF EndGeneration
    <3>2. cleanup'.target \in {"taken_over", "uncertain"}
      BY <3>1, CleanupStarted
    <3> QED  BY <2>1, <3>2
  <2>3. CASE LateTakeover(g)
    BY <2>1, <2>3 DEF LateTakeover, TypeOK, Cleanups
  <2>4. CASE IgnoreGenerationEnd(g) \/ EndWatch(g)
    BY <2>1, <2>4 DEF IgnoreGenerationEnd, EndWatch
  <2> QED  BY <1>6, <2>2, <2>3, <2>4 DEF WatchStep
<1>7. CASE TimerStep \/ StrayExpired
  <2>1. UNCHANGED stopping
    BY <1>7 DEF TimerStep, FireTimer, IdleExpired, DropExpiry, StrayExpired
  <2>2. UNCHANGED cleanup \/ StartCleanup("idle", NoCall)
    BY <1>7 DEF TimerStep, FireTimer, IdleExpired, DropExpiry, StrayExpired, CloseIdle
  <2>3. UNCHANGED cleanup \/ cleanup'.target = "idle"
    BY <2>2, CleanupStarted
  <2> QED  BY <2>1, <2>3
<1>8. CASE FailCleanup \/ FinishCleanup
  <2>1. UNCHANGED stopping
    BY <1>8 DEF FailCleanup, FinishCleanup
  <2>2. cleanup'.target \in {cleanup.target, "idle"}
    <3>1. CASE FailCleanup
      BY <3>1 DEF FailCleanup, TypeOK, Cleanups
    <3>2. CASE FinishCleanup
      BY <3>2 DEF FinishCleanup, NoCleanup
    <3> QED  BY <1>8, <3>1, <3>2
  <2> QED  BY <2>1, <2>2
<1>9. ASSUME NEW l \in Lifecycles, ReleaseSession(l) PROVE Good
  <2>1. UNCHANGED stopping
    BY <1>9 DEF ReleaseSession
  <2>2. CASE UNCHANGED cleanup
    BY <2>1, <2>2
  <2>3. CASE StartCleanup("released", l)
    <3>1. cleanup'.target = "released"
      BY <2>3, CleanupStarted
    <3> QED  BY <2>1, <3>1
  <2>4. CASE RetryCleanup(l, "released", l, cleanup.takeover)
    BY <2>1, <2>4, CleanupRetried
  <2> QED  BY <1>9, <2>2, <2>3, <2>4 DEF ReleaseSession
<1>10. ASSUME NEW l \in Lifecycles, TakeOverSession(l) PROVE Good
  <2>1. UNCHANGED stopping
    BY <1>10 DEF TakeOverSession
  <2>2. CASE UNCHANGED cleanup
    BY <2>1, <2>2
  <2>3. CASE cleanup' = [cleanup EXCEPT !.takeover = l]
    BY <2>1, <2>3 DEF TypeOK, Cleanups
  <2>4. CASE RetryCleanup(l, cleanup.target, NoCall, l)
    BY <2>1, <2>4, CleanupRetried
  <2> QED  BY <1>10, <2>2, <2>3, <2>4 DEF TakeOverSession
<1>11. ASSUME NEW l \in Lifecycles, LifecycleAfterDone(l) PROVE Good
  BY <1>11 DEF LifecycleAfterDone
<1>12. ASSUME NEW g \in validators, FinishValidation(g) PROVE Good
  BY <1>12, CleanupStarted DEF FinishValidation
<1>13. CASE UNCHANGED vars
  BY <1>13 DEF vars
<1>14. Good
  BY ONLY [Next]_vars, <1>1, <1>2, <1>3, <1>4, <1>5, <1>6, <1>7, <1>8, <1>9, <1>10, <1>11, <1>12, <1>13
     DEF Next, CleanupStep, LifecycleStep
<1> QED  BY <1>14

\* Every step keeps it.
LEMMA StepHalted == TypeOK /\ Slots /\ Owned /\ Halted /\ [Next]_vars => Halted'
<1> SUFFICES ASSUME TypeOK, Slots, Owned, Halted, [Next]_vars PROVE Halted'
  OBVIOUS
<1>1. cleanup'.target = "stopped" => stopping'
  BY StopStays DEF Halted
<1>2. CASE ActivateAttempt
  BY <1>1, <1>2 DEF ActivateAttempt, Halted
<1>3. CASE FinishCleanup
  <2>1. cleanup'.gen = 0 /\ ownership' = CleanupTarget /\ attempt.gen = 0
    BY <1>3 DEF FinishCleanup, NoCleanup, Pending, Slots, OneSlot
  <2>2. ASSUME CleanupTarget = "stopped" PROVE stopping /\ attempt'.gen = 0
    <3>1. stopping
      BY <2>2 DEF CleanupTarget, Halted
    <3>2. UNCHANGED attempt
      BY <1>3, <3>1 DEF FinishCleanup, ResumeTakeover, ResumeQueue, MayResume, ClearToConnect
    <3> QED  BY <2>1, <3>1, <3>2
  <2> QED  BY <1>1, <2>1, <2>2, StopStays DEF Halted
<1>4. CASE ownership' \in Sticky
  BY <1>1, <1>4 DEF Halted, Sticky
<1>5. CASE ownership' = "stopped" /\ ownership = "stopped"
  <2>1. stopping /\ attempt.gen = 0 /\ cleanup.gen = 0 /\ generation = 0
    BY <1>5 DEF Halted, Owned, SlotsMatch
  <2>2. ~AttemptStep
    <3>1. attempt.phase = "none"
      BY <2>1 DEF Slots
    <3>2. ~FailConnect /\ ~FinishConnect /\ ~FailSetup /\ ~CloseFailedSetup
      BY <3>1, Zenon DEF FailConnect, FinishConnect, FailSetup, CloseFailedSetup
    <3>3. ~FailAttempt /\ ~ActivateAttempt /\ ~OrphanAttempt
      BY <3>1 DEF FailAttempt, ActivateAttempt, OrphanAttempt
    <3> QED  BY <3>2, <3>3 DEF AttemptStep
  <2>3. attempt'.gen = 0 /\ cleanup'.gen = 0
    BY <2>1, <2>2, StepMoves
       DEF Slots, Moves, Stays, Connects, Closes, Joins, SameAttempt, FreshAttempt
  <2> QED  BY <1>1, <2>1, <2>3, StopStays DEF Halted
<1>6. CASE ownership' # "stopped"
  BY <1>1, <1>6 DEF Halted
<1> QED  BY <1>2, <1>3, <1>4, <1>5, <1>6, OwnershipSteps

-----------------------------------------------------------------------------
(* Every step is a step of the promise, or none.                            *)

\* The goroutine of the attempt opens its session, or closes it again.
LEMMA PromiseAttempt ==
  ASSUME TypeOK, Slots, Reading, Reading',
         FailConnect \/ FinishConnect \/ FailSetup \/ CloseFailedSetup
  PROVE  [Own!Next]_(Own!vars)
<1> USE DEF loopVars, sessionVars
<1>1. KeepsAttempt
  BY AttemptRuns
<1>2. UNCHANGED << ownership, generation, cleanup, lastGen, sent >>
  BY Zenon DEF FailConnect, FinishConnect, FailSetup, CloseFailedSetup
<1>3. attempt.gen # 0
  <2>1. attempt.phase # "none"
    BY Zenon DEF FailConnect, FinishConnect, FailSetup, CloseFailedSetup
  <2> QED  BY <2>1 DEF Slots
<1>4. UNCHANGED open \/ open' = open \cup {attempt.gen} \/ open' = open \ {attempt.gen}
  BY Zenon DEF FailConnect, FinishConnect, FailSetup, CloseFailedSetup
<1>5. CASE UNCHANGED open
  BY <1>1, <1>2, <1>5, AttemptWork, PromiseQuiet DEF promised
<1>6. /\ Phase = "connecting" /\ Held = attempt.gen
      /\ Phase' = Phase /\ Held' = Held /\ Asked' = Asked /\ Serving' = Serving
  BY <1>1, <1>3 DEF Reading, KeepsAttempt
<1>7. CASE open' = open \cup {attempt.gen}
  BY <1>2, <1>6, <1>7 DEF Own!Open, Own!Next
<1>8. CASE open' = open \ {attempt.gen}
  BY <1>2, <1>6, <1>8 DEF Own!Undo, Own!Next
<1> QED  BY <1>4, <1>5, <1>7, <1>8

\* A failed attempt fails in the promise; without panics it forgets no session.
LEMMA PromiseFail ==
  ASSUME TypeOK, Slots, Opened, ~MayPanic => Sessions, Reading, Reading', FailAttempt
  PROVE  Own!Fail
<1> USE DEF loopVars, sessionVars
<1>1. attempt.gen # 0 /\ generation = 0 /\ cleanup.gen = 0 /\ attempt.phase = "ended"
  BY DEF FailAttempt, Slots, OneSlot
<1>2. attempt'.gen = 0 /\ UNCHANGED << lastGen, generation, open, sent >>
  BY DEF FailAttempt, NoAttempt
<1>3. /\ Phase = "connecting" /\ Held = attempt.gen /\ Asked = (attempt.takeover # NoCall)
      /\ Serving = {}
  BY <1>1 DEF Reading
<1>4. CASE attempt.cleanupErr /\ attempt.session
  <2>1. cleanup'.gen = attempt.gen /\ cleanup'.failed /\ ownership' = "uncertain"
    BY <1>4 DEF FailAttempt, NoCleanup, OwnershipAfterFailure
  <2>2. Phase' = "unjoined" /\ Held' = attempt.gen /\ Asked' = FALSE
    BY <1>1, <2>1 DEF Reading, Broken
  <2>3. attempt.gen \in open
    BY <1>1, <1>4 DEF Opened
  <2>4. Own!Hold("unjoined") /\ Serving' = Serving
    BY <1>2, <1>3, <2>2, AttemptWork, ServesOn DEF Own!Hold
  <2> QED  BY <1>2, <1>3, <2>1, <2>3, <2>4 DEF Own!Fail
<1>5. CASE ~(attempt.cleanupErr /\ attempt.session)
  <2>1. UNCHANGED cleanup
    BY <1>5 DEF FailAttempt
  <2>2. ownership' = IF attempt.takeover # NoCall THEN "uncertain" ELSE ownership
    BY <1>5 DEF FailAttempt, OwnershipAfterFailure
  <2>3. Phase' = "idle" /\ Held' = 0 /\ Asked' = FALSE /\ Serving' = {}
    BY <1>1, <1>2, <2>1 DEF Reading
  <2>4. attempt.gen \in open => MayPanic
    BY <1>1, <1>5 DEF FailAttempt, Sessions
  <2>5. Own!Rest
    BY <1>2, <2>3 DEF Own!Rest
  <2>6. ownership' = IF Asked THEN "uncertain" ELSE ownership
    BY <1>3, <2>2
  <2> QED  BY <1>2, <1>3, <2>3, <2>4, <2>5, <2>6 DEF Own!Fail
<1> QED  BY <1>4, <1>5

\* A successful attempt activates, or is withdrawn.
LEMMA PromiseReport ==
  ASSUME TypeOK, Slots, Opened, Reading, Reading', ActivateAttempt \/ OrphanAttempt
  PROVE  Own!Activate \/ Own!Withdraw
<1> USE DEF loopVars, sessionVars
<1>1. attempt.gen # 0 /\ generation = 0 /\ cleanup.gen = 0 /\ attempt.gen \in open
  BY DEF ActivateAttempt, OrphanAttempt, Slots, OneSlot, Opened
<1>2. attempt'.gen = 0 /\ UNCHANGED << lastGen, open, sent >>
  BY DEF ActivateAttempt, OrphanAttempt, NoAttempt
<1>3. Phase = "connecting" /\ Held = attempt.gen
  BY <1>1 DEF Reading
<1>4. CASE ActivateAttempt
  <2>1. generation' = attempt.gen /\ ownership' = "active"
    BY <1>4 DEF ActivateAttempt
  <2>2. Phase' = "active" /\ Held' = attempt.gen /\ Asked' = FALSE
    BY <1>1, <2>1 DEF Reading
  <2>3. Own!Hold("active") /\ Serving' \subseteq Calls
    BY <1>2, <1>3, <2>2 DEF Own!Hold, Serving
  <2> QED  BY <1>1, <1>2, <1>3, <2>1, <2>3 DEF Own!Activate
<1>5. CASE OrphanAttempt
  <2>1. /\ cleanup'.gen = attempt.gen /\ cleanup'.failed = FALSE /\ cleanup'.takeover = NoCall
        /\ UNCHANGED << ownership, generation >>
    BY <1>5 DEF OrphanAttempt, NoCleanup
  <2>2. Phase' = "closing" /\ Held' = attempt.gen /\ Asked' = FALSE
    BY <1>1, <2>1 DEF Reading, Pending
  <2>3. Own!Hold("closing") /\ Serving' = Serving
    BY <1>2, <1>3, <1>5, <2>2, AttemptWork, ServesOn DEF Own!Hold
  <2> QED  BY <1>1, <1>2, <1>3, <2>1, <2>3 DEF Own!Withdraw
<1> QED  BY <1>4, <1>5

\* A failed close leaves its session unjoined.
LEMMA PromiseCloseFails ==
  ASSUME TypeOK, Slots, Reading, Reading', FailCleanup
  PROVE  Own!CloseFails
<1> USE DEF loopVars
<1>1. Pending /\ ownership' = "uncertain" /\ UNCHANGED << lastGen, open, sent >>
  BY DEF FailCleanup
<1>2. cleanup'.gen = cleanup.gen /\ cleanup'.failed /\ cleanup.gen # 0
  BY DEF FailCleanup, TypeOK, Cleanups, Pending
<1>3. Phase = "closing" /\ Held = cleanup.gen
  BY <1>1 DEF Reading
<1>4. Phase' = "unjoined" /\ Held' = cleanup.gen /\ Asked' = FALSE
  BY <1>2 DEF Reading, Broken
<1>5. Own!Hold("unjoined") /\ Serving' = Serving
  BY <1>1, <1>3, <1>4, HandlerWork, ServesOn DEF Own!Hold, CleanupStep
<1> QED  BY <1>1, <1>3, <1>5 DEF Own!CloseFails

\* A close that succeeds joins, and what waited for it may connect.
LEMMA PromiseJoin ==
  ASSUME TypeOK, Slots, Owned, Halted, Reading, Reading', FinishCleanup
  PROVE  Own!Join
<1> USE DEF loopVars
<1>1. /\ Pending /\ cleanup.gen # 0 /\ attempt.gen = 0 /\ generation = 0 /\ generation' = 0
      /\ cleanup'.gen = 0 /\ cleanup'.takeover = NoCall
      /\ open' = open \ {cleanup.gen} /\ ownership' = CleanupTarget /\ UNCHANGED sent
  BY DEF FinishCleanup, NoCleanup, Pending, Slots, OneSlot
<1>2. Phase = "closing" /\ Held = cleanup.gen /\ Asked = (cleanup.takeover # NoCall)
  BY <1>1 DEF Reading
<1>3. ownership' \in {"idle", "taken_over", "uncertain", "released", "stopped"}
  BY <1>1 DEF CleanupTarget, Owned, TypeOK, Cleanups, Ownerships
<1>4. ownership' = "idle" => Asked \/ ownership \in {"idle", "active"}
  <2>1. ownership \in Ownerships /\ ownership # "stopped"
    BY <1>1 DEF TypeOK, Halted
  <2>2. CleanupTarget = "idle" => cleanup.target = "idle"
    BY DEF CleanupTarget
  <2> QED  BY <1>1, <1>2, <2>1, <2>2 DEF Owned, Sticky, Ownerships
<1>5. Own!Rest \/ ((Asked \/ ownership' = "idle") /\ Own!Begin(Asked))
  <2>1. CASE UNCHANGED << lastGen, attempt >>
    <3>1. Phase' = "idle" /\ Held' = 0 /\ Asked' = FALSE
      BY <1>1, <2>1 DEF Reading
    <3> QED  BY <2>1, <3>1 DEF Own!Rest
  <2>2. ASSUME NEW takeover, Connect(takeover), Asked = (takeover # NoCall)
        PROVE  Own!Begin(Asked)
    <3>1. attempt'.gen = lastGen + 1 /\ attempt'.takeover = takeover /\ lastGen' = lastGen + 1
      BY <2>2, Connected
    <3>2. lastGen \in Nat
      BY DEF TypeOK
    <3>3. Phase' = "connecting" /\ Held' = lastGen + 1 /\ Asked' = (takeover # NoCall)
      BY <3>1, <3>2 DEF Reading
    <3> QED  BY <2>2, <3>1, <3>3 DEF Own!Begin
  <2>3. CASE cleanup.takeover # NoCall /\ Connect(cleanup.takeover)
    BY <1>2, <2>2, <2>3
  <2>4. CASE cleanup.takeover = NoCall /\ CleanupTarget = "idle" /\ Connect(NoCall)
    BY <1>1, <1>2, <2>2, <2>4
  <2> QED  BY <2>1, <2>3, <2>4 DEF FinishCleanup, ResumeTakeover, ResumeQueue, MayResume
<1>6. Serving' = {}
  BY <1>1 DEF Reading
<1> QED  BY <1>1, <1>2, <1>3, <1>4, <1>5, <1>6 DEF Own!Join

\* The lease that expires ends an unused generation, or nothing.
LEMMA PromiseIdle ==
  ASSUME TypeOK, Slots, Reading, Reading', SameWork, NEW g, CloseIdle(g), UNCHANGED attempt,
         UNCHANGED << ownership, lastGen, open, sent >>
  PROVE  [Own!Next]_(Own!vars)
<1>1. CASE generation = g /\ generation # 0 /\ NoDeviceWork
  <2>1. StartCleanup("idle", NoCall)
    BY <1>1 DEF CloseIdle
  <2> QED  BY <1>1, <2>1, PromiseEnd DEF Own!Next
<1>2. CASE ~(generation = g /\ generation # 0 /\ NoDeviceWork)
  BY <1>2, PromiseQuiet DEF CloseIdle, KeepsAttempt, promised
<1> QED  BY <1>1, <1>2

\* ReleaseSession ends the generation, retries a close, releases, or answers.
LEMMA PromiseRelease ==
  ASSUME TypeOK, Slots, Reading, Reading', SameWork, NEW l \in Lifecycles, ReleaseSession(l)
  PROVE  [Own!Next]_(Own!vars)
<1> USE DEF loopVars, sessionVars
<1>1. UNCHANGED << attempt, lastGen, open, sent >> /\ KeepsAttempt
  BY DEF ReleaseSession, KeepsAttempt
<1>2. CASE UNCHANGED << ownership, generation, cleanup >>
  BY <1>1, <1>2, PromiseQuiet DEF promised
<1>3. CASE generation # 0 /\ StartCleanup("released", l) /\ UNCHANGED ownership
  BY <1>1, <1>3, PromiseEnd DEF Own!Next
<1>4. CASE /\ Broken /\ RetryCleanup(l, "released", l, cleanup.takeover)
           /\ UNCHANGED ownership
  BY <1>1, <1>4, PromiseRetry DEF Own!Next
<1>5. CASE /\ attempt.gen = 0 /\ generation = 0 /\ cleanup.gen = 0
           /\ ownership \in {"idle", "taken_over", "uncertain"} /\ ownership' = "released"
           /\ UNCHANGED << generation, cleanup >>
  <2>1. Phase = "idle" /\ Held = 0 /\ Asked = FALSE
    BY <1>5 DEF Reading
  <2>2. Phase' = "idle" /\ Held' = 0 /\ Asked' = FALSE
    BY <1>1, <1>5 DEF Reading
  <2> QED  BY <1>1, <1>5, <2>1, <2>2, ServesOn DEF Own!Release, Own!Next
<1> QED  BY <1>2, <1>3, <1>4, <1>5 DEF ReleaseSession, Busy

\* TakeOverSession waits for a close or retries it, connects, validates or answers.
LEMMA PromiseTakeOver ==
  ASSUME TypeOK, Slots, Owed, Reading, Reading', SameWork, NEW l \in Lifecycles,
         TakeOverSession(l)
  PROVE  [Own!Next]_(Own!vars)
<1> USE DEF loopVars, sessionVars
<1>1. UNCHANGED << ownership, generation, open, sent >> /\ l # NoCall
  BY DEF TakeOverSession
<1>2. CASE UNCHANGED << lastGen, attempt, cleanup >>
  BY <1>1, <1>2, PromiseQuiet DEF promised, KeepsAttempt
<1>3. CASE /\ Pending /\ Unattended /\ cleanup' = [cleanup EXCEPT !.takeover = l]
           /\ UNCHANGED << lastGen, attempt >>
  <2>1. cleanup'.gen = cleanup.gen /\ cleanup'.failed = cleanup.failed /\ cleanup'.takeover = l
    BY <1>3 DEF TypeOK, Cleanups
  <2>2. cleanup.takeover = NoCall
    BY <1>3 DEF Unattended, Attached
  <2>3. Phase = "closing" /\ Held = cleanup.gen /\ Asked = FALSE
    BY <1>3, <2>2 DEF Reading
  <2>4. Phase' = "closing" /\ Held' = cleanup.gen /\ Asked' = TRUE
    BY <1>1, <1>3, <2>1 DEF Reading, Pending
  <2>5. Own!Retry(TRUE)
    BY <1>1, <1>3, <2>3, <2>4, ServesOn DEF Own!Retry
  <2> QED  BY <2>5 DEF Own!Next
<1>4. CASE Broken /\ RetryCleanup(l, cleanup.target, NoCall, l) /\ UNCHANGED << lastGen, attempt >>
  BY <1>1, <1>4, PromiseRetry DEF Own!Next
<1>5. CASE MayConnect(TRUE) /\ Connect(l) /\ UNCHANGED cleanup
  BY <1>1, <1>5, PromiseConnect DEF MayConnect, Own!Next
<1> QED  BY <1>2, <1>3, <1>4, <1>5 DEF TakeOverSession

\* Close ends the generation, or leaves what is under way to end.
LEMMA PromiseStop ==
  ASSUME TypeOK, Slots, Reading, Reading', SameWork, NEW s \in Stops, StopOwner(s)
  PROVE  [Own!Next]_(Own!vars)
<1> USE DEF loopVars, sessionVars
<1>1. UNCHANGED << ownership, lastGen, open, sent >> /\ KeepsAttempt
  BY AttemptCanceled DEF StopOwner
<1>2. CASE UNCHANGED << generation, cleanup >>
  BY <1>1, <1>2, PromiseQuiet DEF promised
<1>3. CASE generation # 0 /\ StartCleanup("stopped", NoCall)
  BY <1>1, <1>3, PromiseEnd DEF Own!Next
<1> QED  BY <1>2, <1>3 DEF StopOwner

\* A watcher ends its generation, or tells that it was taken over.
LEMMA PromiseWatch ==
  ASSUME TypeOK, Slots, Reading, Reading', SameWork, NEW g \in watching \cup late, WatchStep(g)
  PROVE  [Own!Next]_(Own!vars)
<1> USE DEF loopVars, sessionVars
<1>1. UNCHANGED << attempt, lastGen, open, sent >> /\ KeepsAttempt
  BY DEF WatchStep, EndGeneration, IgnoreGenerationEnd, LateTakeover, EndWatch, KeepsAttempt
<1>2. CASE EndGeneration(g)
  <2>1. generation # 0
    BY <1>2 DEF EndGeneration, Slots, Numbered
  <2>2. PICK cause \in {"taken_over", "uncertain"} :
          ownership' = cause /\ StartCleanup(cause, NoCall)
    BY <1>2, Zenon DEF EndGeneration
  <2> QED  BY <1>1, <2>1, <2>2, PromiseEnd DEF Own!Next
<1>3. CASE LateTakeover(g) /\ LateTakeoverCounts(g)
  <2>1. ownership' = "taken_over" /\ UNCHANGED generation
    BY <1>3 DEF LateTakeover
  <2>2. /\ cleanup'.gen = cleanup.gen /\ cleanup'.failed = cleanup.failed
        /\ cleanup'.takeover = cleanup.takeover
    BY <1>3 DEF LateTakeover, TypeOK, Cleanups
  <2>3. CASE Pending /\ Attached = {}
    <3>1. Phase = "closing" /\ Held = cleanup.gen /\ Asked = FALSE
      BY <2>3 DEF Reading, Attached
    <3>2. Phase' = "closing" /\ Held' = cleanup.gen /\ Asked' = FALSE
      BY <2>2, <2>3 DEF Reading, Pending, Attached
    <3> QED  BY <1>1, <2>1, <3>1, <3>2, ServesOn DEF Own!Recognize, Own!Next
  <2>4. CASE cleanup.gen = 0 /\ generation = 0 /\ attempt.gen = 0 /\ ownership = "uncertain"
    <3>1. Phase = "idle" /\ Held = 0 /\ Asked = FALSE
      BY <2>4 DEF Reading
    <3>2. Phase' = "idle" /\ Held' = 0 /\ Asked' = FALSE
      BY <1>1, <2>1, <2>2, <2>4 DEF Reading
    <3> QED  BY <1>1, <2>1, <2>4, <3>1, <3>2, ServesOn DEF Own!Recognize, Own!Next
  <2> QED  BY <1>3, <2>3, <2>4 DEF LateTakeoverCounts
<1>4. CASE (LateTakeover(g) /\ ~LateTakeoverCounts(g)) \/ IgnoreGenerationEnd(g) \/ EndWatch(g)
  <2>1. UNCHANGED << ownership, generation, cleanup >>
    BY <1>4 DEF LateTakeover, IgnoreGenerationEnd, EndWatch
  <2> QED  BY <1>1, <2>1, PromiseQuiet DEF promised
<1> QED  BY <1>2, <1>3, <1>4 DEF WatchStep

\* A validation ends the generation, or answers.
LEMMA PromiseValidation ==
  ASSUME TypeOK, Slots, Reading, Reading', SameWork, NEW g \in validators, FinishValidation(g)
  PROVE  [Own!Next]_(Own!vars)
<1> USE DEF loopVars, sessionVars
<1>1. UNCHANGED << attempt, lastGen, open, sent >> /\ KeepsAttempt
  BY DEF FinishValidation, KeepsAttempt
<1>2. CASE UNCHANGED << ownership, generation, cleanup >>
  BY <1>1, <1>2, PromiseQuiet DEF promised
<1>3. CASE generation = g /\ ownership' = "uncertain" /\ StartCleanup("uncertain", NoCall)
  <2>1. generation # 0
    BY <1>3 DEF Slots, Numbered
  <2> QED  BY <1>1, <1>3, <2>1, PromiseEnd DEF Own!Next
<1> QED  BY <1>2, <1>3 DEF FinishValidation

\* Operations that start on the active generation start in the promise.
LEMMA PromiseStart ==
  ASSUME Reading, StartsWork(generation), UNCHANGED promised, UNCHANGED attempt
  PROVE  [Own!Next]_(Own!vars)
<1>1. Phase' = Phase /\ Held' = Held /\ Asked' = Asked
  BY DEF promised, Phase, Held, Asked, Pending, Broken
<1>2. CASE generation = 0
  <2>1. SameWork
    BY <1>2 DEF StartsWork, SameWork
  <2> QED  BY <2>1, PromiseQuiet DEF KeepsAttempt
<1>3. CASE generation # 0
  <2>1. Phase = "active"
    BY <1>3 DEF Reading
  <2>2. Serving \subseteq Serving' /\ Serving' \subseteq Calls
    BY <1>1 DEF StartsWork, Serving, AtWork
  <2> QED  BY <1>1, <2>1, <2>2 DEF promised, Own!Start, Own!Next
<1> QED  BY <1>2, <1>3

\* An operation sends on the session held, or ends; its last look changes nothing.
LEMMA PromiseOperation ==
  ASSUME TypeOK, Bound, Reading, NEW c \in Calls, PassSendCheck(c) \/ SendRPC(c) \/ EndOperation(c)
  PROVE  [Own!Next]_(Own!vars)
<1> USE DEF loopVars
<1>1. UNCHANGED << attempt, ownership, generation, cleanup, lastGen, open, bound >>
  BY DEF PassSendCheck, SendRPC, EndOperation, sessionVars
<1>2. Phase' = Phase /\ Held' = Held /\ Asked' = Asked
  BY <1>1 DEF Phase, Held, Asked, Pending, Broken
<1>3. worker \in [Calls -> WorkerStages]
  BY DEF TypeOK
<1>4. CASE PassSendCheck(c)
  <2>1. worker[c] = "running" /\ worker' = [worker EXCEPT ![c] = "sending"] /\ UNCHANGED sent
    BY <1>4 DEF PassSendCheck, sessionVars
  <2>2. Serving' = Serving
    BY <1>1, <1>2, <1>3, <2>1 DEF Serving
  <2> QED  BY <1>1, <1>2, <2>1, <2>2 DEF Own!vars
<1>5. CASE SendRPC(c)
  <2>1. /\ worker[c] = "sending" /\ bound[c] \in open /\ sent' = sent \cup {c}
        /\ worker' = [worker EXCEPT ![c] = "sent"]
    BY <1>5 DEF SendRPC
  <2>2. bound[c] # 0 /\ bound[c] # attempt.gen /\ bound[c] \in {generation, cleanup.gen}
    BY <2>1 DEF Bound, Used, AtWork
  <2>3. bound[c] = Held
    BY <2>2 DEF Reading, Pending, Broken
  <2>4. c \in Serving /\ Serving' = Serving \ {c}
    BY <1>1, <1>2, <1>3, <2>1, <2>3 DEF Serving
  <2>5. Own!Send(c)
    BY <1>1, <1>2, <2>1, <2>3, <2>4 DEF Own!Send
  <2> QED  BY <2>5 DEF Own!Next
<1>6. CASE EndOperation(c)
  <2>1. worker' = [worker EXCEPT ![c] = "ended"] /\ UNCHANGED sent
    BY <1>6 DEF EndOperation, sessionVars
  <2>2. Serving' = Serving \ {c}
    BY <1>1, <1>2, <1>3, <2>1 DEF Serving
  <2>3. CASE c \in Serving
    <3>1. Own!Finish(c)
      BY <1>1, <1>2, <2>1, <2>2, <2>3 DEF Own!Finish
    <3> QED  BY <3>1 DEF Own!Next
  <2>4. CASE c \notin Serving
    BY <1>1, <1>2, <2>1, <2>2, <2>4 DEF Own!vars
  <2> QED  BY <2>3, <2>4
<1> QED  BY <1>4, <1>5, <1>6

\* The invariants the steps of the promise rest on.
Promising ==
  /\ TypeOK /\ Slots /\ Owned /\ Owed /\ Opened /\ Unstarted /\ Bound /\ Halted
  /\ ~MayPanic => Sessions

\* They hold at first.
LEMMA InitPromising == Init => Promising
BY InitTypes, InitSlots, InitOwned, InitOwed, InitOpened, InitUnstarted, InitBound, InitHalted,
   InitSessions
   DEF Promising

\* Every step keeps them.
LEMMA StepPromising == Promising /\ [Next]_vars => Promising'
BY StepTypes, StepSlots, StepOwned, StepOwed, StepOpened, StepUnstarted, StepBound, StepHalted,
   StepSessions
   DEF Promising

\* What the owner does, and all that goes on around it, is within the promise.
LEMMA StepPromise == Promising /\ Promising' /\ [Next]_vars => [Own!Next]_(Own!vars)
<1> SUFFICES ASSUME Promising, Promising', [Next]_vars PROVE [Own!Next]_(Own!vars)
  OBVIOUS
<1> USE DEF loopVars, timerVars, callVars, sessionVars, watchVars
<1>1. /\ TypeOK /\ Slots /\ Owned /\ Owed /\ Opened /\ Unstarted /\ Bound /\ Halted
      /\ ~MayPanic => Sessions
      /\ Slots' /\ Owed' /\ Bound'
  BY DEF Promising
<1>2. Reading /\ Reading'
  BY <1>1, Reads, ReadsNext
<1>3. CASE Environment
  <2>1. CASE \/ \E c \in Calls : Admit(c) \/ RefuseBusy(c) \/ CancelContext(c)
             \/ \E l \in Lifecycles : BeginLifecycle(l)
             \/ \E s \in Stops : StopAfterDone(s) \/ StopExpired(s)
             \/ \E g \in open : LoseSession(g)
             \/ \E g \in open \cup late : RecognizeTakeover(g)
    <3>1. KeepsAttempt /\ UNCHANGED promised
      BY <2>1 DEF Admit, RefuseBusy, CancelContext, BeginLifecycle, StopAfterDone,
                  StopExpired, LoseSession, RecognizeTakeover, KeepsAttempt, promised
    <3>2. SameWork
      BY <2>1, OtherWork
    <3> QED  BY <3>1, <3>2, PromiseQuiet
  <2>2. ASSUME NEW s \in Stops, StopOwner(s) PROVE [Own!Next]_(Own!vars)
    BY <1>1, <1>2, <2>2, HandlerWork, PromiseStop
  <2> QED  BY <1>3, <2>1, <2>2 DEF Environment
<1>4. ASSUME NEW c \in Calls, CallerStep(c) PROVE [Own!Next]_(Own!vars)
  <2>1. CASE RegisterAndStart(c) /\ StartsWork(generation)
    <3>1. UNCHANGED promised /\ UNCHANGED attempt
      BY <2>1 DEF RegisterAndStart, promised
    <3> QED  BY <1>2, <2>1, <3>1, PromiseStart
  <2>2. ASSUME SameWork PROVE [Own!Next]_(Own!vars)
    <3>1. CASE RegisterAndConnect(c)
      <4>1. UNCHANGED << ownership, generation, cleanup, open, sent >>
        BY <3>1 DEF RegisterAndConnect
      <4>2. CASE MayConnect(FALSE) /\ Connect(NoCall)
        BY <1>1, <1>2, <4>1, <4>2, PromiseConnect DEF MayConnect, Own!Next
      <4>3. CASE UNCHANGED << lastGen, attempt >>
        BY <2>2, <4>1, <4>3, PromiseQuiet DEF promised, KeepsAttempt
      <4> QED  BY <3>1, <4>2, <4>3 DEF RegisterAndConnect
    <3>2. CASE CancelWorker(c)
      <4>1. KeepsAttempt
        BY <1>1, <3>2, AttemptCanceled DEF CancelWorker
      <4>2. UNCHANGED promised
        BY <3>2 DEF CancelWorker, promised
      <4> QED  BY <2>2, <4>1, <4>2, PromiseQuiet
    <3>3. CASE \/ PassGate(c) \/ GiveUpRegistration(c) \/ ReceiveReply(c) \/ NoticeCancel(c)
               \/ CancelAfterDone(c) \/ Leave(c) \/ NotifyDemand(c)
               \/ RefuseWorker(c) \/ RegisterAndQueue(c) \/ RegisterAndStart(c)
      <4>1. KeepsAttempt /\ UNCHANGED promised
        BY <3>3 DEF PassGate, GiveUpRegistration, ReceiveReply, NoticeCancel, CancelAfterDone,
                    Leave, NotifyDemand, RefuseWorker, RegisterAndQueue, RegisterAndStart,
                    KeepsAttempt, promised
      <4> QED  BY <2>2, <4>1, PromiseQuiet
    <3> QED  BY <1>4, <3>1, <3>2, <3>3 DEF CallerStep
  <2> QED  BY <1>1, <1>4, <2>1, <2>2, CallerWork
<1>5. ASSUME NEW c \in Calls, OperationStep(c) PROVE [Own!Next]_(Own!vars)
  <2>1. CASE CompleteWorker(c) /\ StartsWork(generation)
    <3>1. UNCHANGED promised /\ UNCHANGED attempt
      BY <2>1 DEF CompleteWorker, promised
    <3> QED  BY <1>2, <2>1, <3>1, PromiseStart
  <2>2. CASE PassSendCheck(c) \/ SendRPC(c) \/ EndOperation(c)
    BY <1>1, <1>2, <2>2, PromiseOperation
  <2> QED  BY <1>1, <1>5, <2>1, <2>2, OperationWork
<1>6. CASE AttemptStep
  <2>1. CASE FailAttempt
    <3>1. Own!Fail
      BY <1>1, <1>2, <2>1, PromiseFail
    <3> QED  BY <3>1 DEF Own!Next
  <2>2. CASE ActivateAttempt \/ OrphanAttempt
    <3>1. Own!Activate \/ Own!Withdraw
      BY <1>1, <1>2, <2>2, PromiseReport
    <3> QED  BY <3>1 DEF Own!Next
  <2> QED  BY <1>1, <1>2, <1>6, <2>1, <2>2, PromiseAttempt DEF AttemptStep
<1>7. ASSUME NEW g \in watching \cup late, WatchStep(g) PROVE [Own!Next]_(Own!vars)
  BY <1>1, <1>2, <1>7, HandlerWork, PromiseWatch
<1>8. CASE TimerStep \/ StrayExpired
  <2>0. SameWork
    BY <1>8, OtherWork
  <2>1. CASE IdleExpired
    BY <1>1, <1>2, <2>0, <2>1, PromiseIdle DEF IdleExpired
  <2>2. CASE StrayExpired
    <3>1. PICK i \in 1 .. Len(stray) : CloseIdle(stray[i])
      BY <2>2 DEF StrayExpired
    <3>2. UNCHANGED << ownership, lastGen, open, sent, attempt >>
      BY <2>2 DEF StrayExpired
    <3> QED  BY <1>1, <1>2, <2>0, <3>1, <3>2, PromiseIdle
  <2>3. CASE FireTimer \/ DropExpiry
    <3>1. KeepsAttempt /\ UNCHANGED promised
      BY <2>3 DEF FireTimer, DropExpiry, KeepsAttempt, promised
    <3> QED  BY <2>0, <3>1, PromiseQuiet
  <2> QED  BY <1>8, <2>1, <2>2, <2>3 DEF TimerStep
<1>9. CASE CleanupStep
  <2>1. Own!CloseFails \/ Own!Join
    BY <1>1, <1>2, <1>9, PromiseCloseFails, PromiseJoin DEF CleanupStep
  <2> QED  BY <2>1 DEF Own!Next
<1>10. ASSUME NEW l \in Lifecycles, LifecycleStep(l) PROVE [Own!Next]_(Own!vars)
  <2>0. SameWork
    BY <1>10, OtherWork
  <2>1. CASE LifecycleAfterDone(l)
    <3>1. KeepsAttempt /\ UNCHANGED promised
      BY <2>1 DEF LifecycleAfterDone, KeepsAttempt, promised
    <3> QED  BY <2>0, <3>1, PromiseQuiet
  <2> QED  BY <1>1, <1>2, <1>10, <2>0, <2>1, PromiseRelease, PromiseTakeOver DEF LifecycleStep
<1>11. ASSUME NEW g \in validators, FinishValidation(g) PROVE [Own!Next]_(Own!vars)
  BY <1>1, <1>2, <1>11, OtherWork, PromiseValidation
<1>12. CASE UNCHANGED vars
  <2>1. KeepsAttempt /\ UNCHANGED promised
    BY <1>12 DEF vars, KeepsAttempt, promised
  <2> QED  BY <1>12, <2>1, OtherWork, PromiseQuiet
<1> QED  BY <1>3, <1>4, <1>5, <1>6, <1>7, <1>8, <1>9, <1>10, <1>11, <1>12 DEF Next

\* The owner begins as the promise does.
LEMMA InitPromise == Init => Own!Init
BY DEF Init, Own!Init, Phase, Held, Asked, Serving, Pending, Broken, NoAttempt, NoCleanup

(* The owner keeps its promise, for any number of calls and with panics; with *)
(* MayPanic FALSE no session is forgotten.                                  *)
THEOREM OwnerKeepsPromise == Spec => ImplementsOwnership
<1>1. Spec => []Promising
  BY InitPromising, StepPromising, PTL DEF Spec
<1> QED  BY <1>1, InitPromise, StepPromise, PTL DEF Spec, ImplementsOwnership, Own!Spec
=============================================================================
