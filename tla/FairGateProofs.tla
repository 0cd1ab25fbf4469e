--------------------------- MODULE FairGateProofs ---------------------------
(***************************************************************************)
(* Proofs about FairGate for any set of callers: the type invariant, mutual *)
(* exclusion, the conservation of the token and the certainty of a wake-up. *)
(*                                                                         *)
(* None of them is inductive alone.  The strengthening IInv says where the  *)
(* token is: queued waiters are distinct, wait and have not been handed      *)
(* anything; a hand-off is to a caller that still listens, is under way      *)
(* once, and is carried by a caller between its unlock and its close.       *)
(***************************************************************************)
EXTENDS FairGate, SequenceTheorems, TLAPS

USE CallersAssumption

Distinct == \A i, j \in 1 .. Len(waiters) : waiters[i] = waiters[j] => i = j

QueuedWait ==
  \A i \in 1 .. Len(waiters) : pc[waiters[i]] = "waiting" /\ ~HandedTo(waiters[i])

HandedListens == \A c \in Callers : HandedTo(c) => pc[c] \in {"waiting", "draining"}

PoppedByCloser == \A c \in Callers : popped[c] # NoCaller <=> pc[c] = "closing"

OneHandOff ==
  /\ \A c, d \in Callers : popped[c] = popped[d] /\ popped[c] # NoCaller => c = d
  /\ \A c \in Callers : popped[c] \notin ready

IInv ==
  /\ TypeOK
  /\ Distinct /\ QueuedWait
  /\ HandedListens /\ PoppedByCloser /\ OneHandOff
  /\ TokenConserved /\ NoLostWakeup

-----------------------------------------------------------------------------
(* What RemoveAt, from SequencesExt, does to a sequence: every later element *)
(* moves one place up.                                                     *)
LEMMA RemoveAtElements ==
  ASSUME NEW S, NEW s \in Seq(S), NEW i \in 1 .. Len(s)
  PROVE  /\ RemoveAt(s, i) \in Seq(S)
         /\ Len(RemoveAt(s, i)) = Len(s) - 1
         /\ \A j \in 1 .. Len(s) - 1 : RemoveAt(s, i)[j] = IF j < i THEN s[j] ELSE s[j + 1]
<1> DEFINE a == SubSeq(s, 1, i - 1)
           b == SubSeq(s, i + 1, Len(s))
<1>1. /\ a \in Seq(S) /\ Len(a) = i - 1
      /\ \A j \in 1 .. i - 1 : a[j] = s[j]
  BY SubSeqProperties
<1>2. /\ b \in Seq(S) /\ Len(b) = Len(s) - i
      /\ \A j \in 1 .. Len(s) - i : b[j] = s[i + j]
  BY SubSeqProperties
<1> HIDE DEF a, b
<1>3. /\ a \o b \in Seq(S) /\ Len(a \o b) = Len(a) + Len(b)
      /\ \A j \in 1 .. Len(a) + Len(b) : (a \o b)[j] = IF j <= Len(a) THEN a[j] ELSE b[j - Len(a)]
  BY <1>1, <1>2, ConcatProperties
<1>4. Len(s) \in Nat /\ Len(a \o b) = Len(s) - 1
  BY <1>1, <1>2, <1>3
<1>5. ASSUME NEW j \in 1 .. Len(s) - 1
      PROVE  (a \o b)[j] = IF j < i THEN s[j] ELSE s[j + 1]
  <2>1. CASE j < i
    BY <1>1, <1>2, <1>3, <2>1
  <2>2. CASE ~(j < i)
    <3>1. (a \o b)[j] = b[j - (i - 1)] /\ j - (i - 1) \in 1 .. Len(s) - i
      BY <1>1, <1>2, <1>3, <1>4, <2>2
    <3>2. b[j - (i - 1)] = s[i + (j - (i - 1))] /\ i + (j - (i - 1)) = j + 1
      BY <1>2, <3>1
    <3> QED  BY <2>2, <3>1, <3>2
  <2> QED  BY <2>1, <2>2
<1> QED  BY <1>3, <1>4, <1>5 DEF RemoveAt, a, b

(* Queueing x keeps the others and adds x. *)
LEMMA AppendSet ==
  ASSUME NEW S, NEW s \in Seq(S), NEW x \in S
  PROVE  ToSet(Append(s, x)) = ToSet(s) \cup {x}
<1>1. /\ Append(s, x) \in Seq(S) /\ Len(Append(s, x)) = Len(s) + 1
      /\ \A i \in 1 .. Len(s) : Append(s, x)[i] = s[i]
      /\ Append(s, x)[Len(s) + 1] = x
  BY AppendProperties
<1>2. Len(s) \in Nat /\ DOMAIN s = 1 .. Len(s) /\ DOMAIN Append(s, x) = 1 .. Len(s) + 1
  BY <1>1, LenProperties
<1>3. ASSUME NEW y \in ToSet(Append(s, x)) PROVE y \in ToSet(s) \cup {x}
  <2>1. PICK i \in 1 .. Len(s) + 1 : Append(s, x)[i] = y
    BY <1>2 DEF ToSet
  <2> QED  BY <1>1, <1>2, <2>1 DEF ToSet
<1>4. ToSet(s) \subseteq ToSet(Append(s, x))
  BY <1>1, <1>2 DEF ToSet
<1>5. x \in ToSet(Append(s, x))
  BY <1>1, <1>2 DEF ToSet
<1> QED  BY <1>3, <1>4, <1>5

(* Removing the element at i keeps all the others. *)
LEMMA RemoveAtSet ==
  ASSUME NEW S, NEW s \in Seq(S), NEW i \in 1 .. Len(s), NEW x \in ToSet(s), x # s[i]
  PROVE  x \in ToSet(RemoveAt(s, i))
<1>1. PICK j \in 1 .. Len(s) : s[j] = x
  BY DEF ToSet
<1> DEFINE r == RemoveAt(s, i)
           k == IF j < i THEN j ELSE j - 1
<1>2. /\ Len(s) \in Nat /\ r \in Seq(S) /\ Len(r) = Len(s) - 1
      /\ \A m \in 1 .. Len(s) - 1 : r[m] = IF m < i THEN s[m] ELSE s[m + 1]
  BY RemoveAtElements
<1>3. j # i /\ k \in 1 .. Len(s) - 1
  BY <1>1, <1>2
<1> HIDE DEF r
<1>4. r[k] = x
  BY <1>1, <1>2, <1>3
<1>5. DOMAIN r = 1 .. Len(s) - 1
  BY <1>2
<1> HIDE DEF k
<1> QED  BY <1>3, <1>4, <1>5 DEF ToSet, r

(* The initial state: an empty queue and a gate nobody holds. *)
LEMMA InitIInv == Init => IInv
<1> SUFFICES ASSUME Init PROVE IInv
  OBVIOUS
<1>1. TypeOK
  <2>1. waiters \in Seq(Callers)
    BY DEF Init
  <2>2. popped \in [Callers -> Callers \cup {NoCaller}] /\ pc \in [Callers -> Locations]
    BY DEF Init, Locations
  <2> QED  BY <2>1, <2>2 DEF Init, TypeOK
<1> USE DEF Init, HasToken, HandedTo
<1>2. \A c \in Callers : ~HasToken(c)
  OBVIOUS
<1>3. Distinct /\ QueuedWait
  BY DEF Distinct, QueuedWait
<1>4. HandedListens /\ PoppedByCloser /\ OneHandOff
  BY DEF HandedListens, PoppedByCloser, OneHandOff
<1>5. TokenConserved /\ NoLostWakeup
  BY <1>2 DEF TokenConserved, NoLostWakeup
<1> QED  BY <1>1, <1>3, <1>4, <1>5 DEF IInv

(* Every step keeps IInv. *)
LEMMA StepIInv == IInv /\ [Next]_vars => IInv'
<1> SUFFICES ASSUME IInv, [Next]_vars PROVE IInv'
  OBVIOUS
<1> USE DEF IInv
<1>1. ASSUME NEW c \in Callers, Arrive(c) PROVE IInv'
  <2> USE <1>1 DEF Arrive, Goto
  <2>1. TypeOK'
    BY DEF TypeOK, Locations
  <2>2. Distinct'
    BY DEF Distinct
  <2>3. QueuedWait'
    BY DEF QueuedWait, HandedTo, TypeOK
  <2>4. HandedListens'
    BY DEF HandedListens, HandedTo, TypeOK
  <2>5. PoppedByCloser'
    BY DEF PoppedByCloser, TypeOK
  <2>6. OneHandOff'
    BY DEF OneHandOff, TypeOK
  <2>7. TokenConserved'
    BY DEF TokenConserved, HasToken, HandedTo, TypeOK
  <2>8. NoLostWakeup'
    BY DEF NoLostWakeup, HandedTo, TypeOK
  <2> QED  BY <2>1, <2>2, <2>3, <2>4, <2>5, <2>6, <2>7, <2>8
<1>2. ASSUME NEW c \in Callers, Cancel(c) PROVE IInv'
  <2> USE <1>2 DEF Cancel, Goto
  <2>1. TypeOK'
    BY DEF TypeOK, Locations
  <2>2. Distinct'
    BY DEF Distinct
  <2>3. QueuedWait'
    BY DEF QueuedWait, HandedTo, TypeOK
  <2>4. HandedListens'
    BY DEF HandedListens, HandedTo, TypeOK
  <2>5. PoppedByCloser'
    BY DEF PoppedByCloser, TypeOK
  <2>6. OneHandOff'
    BY DEF OneHandOff, TypeOK
  <2>7. TokenConserved'
    BY DEF TokenConserved, HasToken, HandedTo, TypeOK
  <2>8. NoLostWakeup'
    BY DEF NoLostWakeup, HandedTo, TypeOK
  <2> QED  BY <2>1, <2>2, <2>3, <2>4, <2>5, <2>6, <2>7, <2>8
<1>3. ASSUME NEW c \in Callers, CheckContext(c) PROVE IInv'
  <2> USE <1>3 DEF CheckContext, Goto
  <2>1. TypeOK'
    BY DEF TypeOK, Locations
  <2>2. Distinct'
    BY DEF Distinct
  <2>3. QueuedWait'
    BY DEF QueuedWait, HandedTo, TypeOK
  <2>4. HandedListens'
    BY DEF HandedListens, HandedTo, TypeOK
  <2>5. PoppedByCloser'
    BY DEF PoppedByCloser, TypeOK
  <2>6. OneHandOff'
    BY DEF OneHandOff, TypeOK
  <2>7. TokenConserved'
    BY DEF TokenConserved, HasToken, HandedTo, TypeOK
  <2>8. NoLostWakeup'
    BY DEF NoLostWakeup, HandedTo, TypeOK
  <2> QED  BY <2>1, <2>2, <2>3, <2>4, <2>5, <2>6, <2>7, <2>8
<1>4. ASSUME NEW c \in Callers, TakeFree(c) PROVE IInv'
  <2> USE <1>4 DEF TakeFree, Goto, Free
  <2>1. TypeOK'
    BY DEF TypeOK, Locations
  <2>2. Distinct'
    BY DEF Distinct
  <2>3. QueuedWait'
    BY DEF QueuedWait, HandedTo, TypeOK
  <2>4. HandedListens'
    BY DEF HandedListens, HandedTo, TypeOK
  <2>5. PoppedByCloser'
    BY DEF PoppedByCloser, TypeOK
  <2>6. OneHandOff'
    BY DEF OneHandOff, TypeOK
  <2>7. TokenConserved'
    BY DEF TokenConserved, HasToken, HandedTo, TypeOK
  <2>8. NoLostWakeup'
    BY DEF NoLostWakeup, HandedTo, TypeOK
  <2> QED  BY <2>1, <2>2, <2>3, <2>4, <2>5, <2>6, <2>7, <2>8
<1>5. ASSUME NEW c \in Callers, Enqueue(c) PROVE IInv'
  <2> USE <1>5 DEF Enqueue, Goto, Free
  <2>1. TypeOK'
    BY DEF TypeOK, Locations
  <2>2. Distinct'
    BY DEF Distinct, QueuedWait, TypeOK
  <2>3. QueuedWait'
    BY DEF QueuedWait, HandedListens, HandedTo, TypeOK
  <2>4. HandedListens'
    BY DEF HandedListens, HandedTo, TypeOK
  <2>5. PoppedByCloser'
    BY DEF PoppedByCloser, TypeOK
  <2>6. OneHandOff'
    BY DEF OneHandOff, TypeOK
  <2>7. TokenConserved'
    BY DEF TokenConserved, HasToken, HandedTo, TypeOK
  <2>8. NoLostWakeup'
    BY AppendSet DEF NoLostWakeup, HandedTo, TypeOK
  <2> QED  BY <2>1, <2>2, <2>3, <2>4, <2>5, <2>6, <2>7, <2>8
<1>6. ASSUME NEW c \in Callers, Wake(c) PROVE IInv'
  <2> USE <1>6 DEF Wake, Goto, Woken
  <2>1. TypeOK'
    BY DEF TypeOK, Locations
  <2>2. Distinct'
    BY DEF Distinct
  <2>3. QueuedWait'
    BY DEF QueuedWait, HandedTo, TypeOK
  <2>4. HandedListens'
    BY DEF HandedListens, TokenConserved, OneHandOff, HasToken, HandedTo, TypeOK
  <2>5. PoppedByCloser'
    BY DEF PoppedByCloser, TypeOK
  <2>6. OneHandOff'
    BY DEF OneHandOff, TypeOK
  <2>7. TokenConserved'
    BY DEF TokenConserved, HasToken, HandedTo, TypeOK
  <2>8. NoLostWakeup'
    BY DEF NoLostWakeup, HandedTo, TypeOK
  <2> QED  BY <2>1, <2>2, <2>3, <2>4, <2>5, <2>6, <2>7, <2>8
<1>7. ASSUME NEW c \in Callers, Withdraw(c) PROVE IInv'
  <2> USE <1>7 DEF Withdraw, Goto
  <2>1. PICK i \in 1 .. Len(waiters) : waiters[i] = c /\ waiters' = RemoveAt(waiters, i)
    OBVIOUS
  <2>2. waiters \in Seq(Callers)
    BY DEF TypeOK
  <2>3. /\ Len(waiters) \in Nat /\ waiters' \in Seq(Callers) /\ Len(waiters') = Len(waiters) - 1
        /\ \A j \in 1 .. Len(waiters) - 1 :
              waiters'[j] = IF j < i THEN waiters[j] ELSE waiters[j + 1]
    <3>1. /\ RemoveAt(waiters, i) \in Seq(Callers)
          /\ Len(RemoveAt(waiters, i)) = Len(waiters) - 1
          /\ \A j \in 1 .. Len(waiters) - 1 :
                RemoveAt(waiters, i)[j] = IF j < i THEN waiters[j] ELSE waiters[j + 1]
      BY ONLY <2>2, RemoveAtElements
    <3> QED  BY <2>1, <2>2, <3>1, LenProperties
  <2>4. TypeOK'
    BY <2>3 DEF TypeOK, Locations
  <2>5. \A j \in 1 .. Len(waiters') : \E k \in 1 .. Len(waiters) :
           k # i /\ waiters'[j] = waiters[k] /\ k = IF j < i THEN j ELSE j + 1
    BY <2>3
  <2>6. Distinct'
    BY <2>5 DEF Distinct
  <2>7. QueuedWait'
    BY <2>1, <2>5 DEF Distinct, QueuedWait, HandedTo, TypeOK
  <2>8. ~HandedTo(c)
    BY <2>1 DEF QueuedWait
  <2>9. HandedListens' /\ PoppedByCloser' /\ OneHandOff'
    BY <2>8 DEF HandedListens, PoppedByCloser, OneHandOff, HandedTo, TypeOK
  <2>10. TokenConserved'
    BY DEF TokenConserved, HasToken, HandedTo, TypeOK
  <2>11. \A d \in Callers : d # c /\ d \in ToSet(waiters) => d \in ToSet(waiters')
    BY <2>1, <2>2, RemoveAtSet
  <2>12. waiters # << >>
    BY <2>1, <2>2
  <2>13. NoLostWakeup'
    BY <2>11, <2>12 DEF NoLostWakeup, HandedTo, TypeOK
  <2> QED  BY <2>4, <2>6, <2>7, <2>9, <2>10, <2>13
<1>8. ASSUME NEW c \in Callers, MissWithdraw(c) PROVE IInv'
  <2> USE <1>8 DEF MissWithdraw, Goto
  <2>1. TypeOK'
    BY DEF TypeOK, Locations
  <2>2. Distinct'
    BY DEF Distinct
  <2>3. QueuedWait'
    BY DEF QueuedWait, HandedTo, TypeOK, ToSet
  <2>4. HandedListens'
    BY DEF HandedListens, HandedTo, TypeOK
  <2>5. PoppedByCloser'
    BY DEF PoppedByCloser, TypeOK
  <2>6. OneHandOff'
    BY DEF OneHandOff, TypeOK
  <2>7. TokenConserved'
    BY DEF TokenConserved, HasToken, HandedTo, TypeOK
  <2>8. NoLostWakeup'
    BY DEF NoLostWakeup, HandedTo, TypeOK
  <2> QED  BY <2>1, <2>2, <2>3, <2>4, <2>5, <2>6, <2>7, <2>8
<1>9. ASSUME NEW c \in Callers, Drain(c) PROVE IInv'
  <2> USE <1>9 DEF Drain, Goto
  <2>1. TypeOK'
    BY DEF TypeOK, Locations
  <2>2. Distinct'
    BY DEF Distinct
  <2>3. QueuedWait'
    BY DEF QueuedWait, HandedTo, TypeOK
  <2>4. HandedListens'
    BY DEF HandedListens, TokenConserved, OneHandOff, HasToken, HandedTo, TypeOK
  <2>5. PoppedByCloser'
    BY DEF PoppedByCloser, TypeOK
  <2>6. OneHandOff'
    BY DEF OneHandOff, TypeOK
  <2>7. TokenConserved'
    BY DEF TokenConserved, HasToken, HandedTo, TypeOK
  <2>8. NoLostWakeup'
    BY DEF NoLostWakeup, HandedTo, TypeOK
  <2> QED  BY <2>1, <2>2, <2>3, <2>4, <2>5, <2>6, <2>7, <2>8
<1>10. ASSUME NEW c \in Callers, Finish(c) PROVE IInv'
  <2> USE <1>10 DEF Finish, Goto
  <2>1. TypeOK'
    BY DEF TypeOK, Locations
  <2>2. Distinct'
    BY DEF Distinct
  <2>3. QueuedWait'
    BY DEF QueuedWait, HandedTo, TypeOK
  <2>4. HandedListens'
    BY DEF HandedListens, HandedTo, TypeOK
  <2>5. PoppedByCloser'
    BY DEF PoppedByCloser, TypeOK
  <2>6. OneHandOff'
    BY DEF OneHandOff, TypeOK
  <2>7. TokenConserved'
    BY DEF TokenConserved, HasToken, HandedTo, TypeOK
  <2>8. NoLostWakeup'
    BY DEF NoLostWakeup, HandedTo, TypeOK
  <2> QED  BY <2>1, <2>2, <2>3, <2>4, <2>5, <2>6, <2>7, <2>8
<1>11. ASSUME NEW c \in Callers, ReleaseFree(c) PROVE IInv'
  <2> USE <1>11 DEF ReleaseFree, Goto
  <2>1. TypeOK'
    BY DEF TypeOK, Locations
  <2>2. Distinct'
    BY DEF Distinct
  <2>3. QueuedWait'
    BY DEF QueuedWait, HandedTo, TypeOK
  <2>4. HandedListens'
    BY DEF HandedListens, HandedTo, TypeOK
  <2>5. PoppedByCloser'
    BY DEF PoppedByCloser, TypeOK
  <2>6. OneHandOff'
    BY DEF OneHandOff, TypeOK
  <2>7. TokenConserved'
    BY DEF TokenConserved, HandedListens, HasToken, HandedTo, TypeOK
  <2>8. NoLostWakeup'
    BY DEF NoLostWakeup, HandedTo, TypeOK
  <2> QED  BY <2>1, <2>2, <2>3, <2>4, <2>5, <2>6, <2>7, <2>8
<1>12. ASSUME NEW c \in Callers, ReleaseToNext(c) PROVE IInv'
  <2> USE <1>12 DEF ReleaseToNext, Goto, NextWaiter
  <2> DEFINE n == waiters[1]
  <2>1. waiters \in Seq(Callers) /\ 1 \in 1 .. Len(waiters) /\ n \in Callers
    BY DEF TypeOK
  <2>2. /\ Len(waiters) \in Nat /\ waiters' \in Seq(Callers) /\ Len(waiters') = Len(waiters) - 1
        /\ \A j \in 1 .. Len(waiters) - 1 : waiters'[j] = waiters[j + 1]
    <3>1. waiters' = RemoveAt(waiters, 1)
      OBVIOUS
    <3>2. /\ RemoveAt(waiters, 1) \in Seq(Callers)
          /\ Len(RemoveAt(waiters, 1)) = Len(waiters) - 1
          /\ \A j \in 1 .. Len(waiters) - 1 :
                RemoveAt(waiters, 1)[j] = IF j < 1 THEN waiters[j] ELSE waiters[j + 1]
      BY ONLY <2>1, RemoveAtElements
    <3> QED  BY <2>1, <3>1, <3>2, LenProperties
  <2>3. TypeOK'
    BY <2>1, <2>2 DEF TypeOK, Locations
  <2>4. Distinct' /\ \A j \in 1 .. Len(waiters') : waiters'[j] # n
    BY <2>1, <2>2 DEF Distinct
  <2>5. pc[n] = "waiting" /\ n # c /\ ~HandedTo(n) /\ n # NoCaller
    BY <2>1 DEF QueuedWait
  <2>6. \A d \in Callers : HandedTo(d)' <=> HandedTo(d) \/ d = n
    BY <2>1 DEF HandedTo, PoppedByCloser, TypeOK
  <2>7. QueuedWait'
    BY <2>2, <2>4, <2>6 DEF QueuedWait, TypeOK
  <2>8. HandedListens'
    BY <2>5, <2>6 DEF HandedListens, TypeOK
  <2>9. PoppedByCloser' /\ OneHandOff'
    BY <2>1, <2>5 DEF PoppedByCloser, OneHandOff, HandedTo, TypeOK
  <2>10. \A d \in Callers : HasToken(d) => d = c
    BY DEF TokenConserved, HasToken
  <2>11. ASSUME NEW d \in Callers PROVE HasToken(d)' <=> d = n
    <3>1. HandedTo(d) => d = c /\ pc[d] \in {"waiting", "draining"}
      BY <2>10 DEF HasToken, HandedListens
    <3>2. HandedTo(d)' <=> d = n
      BY <2>6, <3>1
    <3>3. pc'[d] \notin {"holding", "releasing"}
      BY <2>10 DEF HasToken, TypeOK
    <3> QED  BY <3>2, <3>3 DEF HasToken
  <2>12. TokenConserved'
    <3>1. held'
      BY <2>10 DEF TokenConserved, HasToken
    <3> QED  BY <2>1, <2>11, <3>1 DEF TokenConserved
  <2>13. \A d \in Callers : d # n /\ d \in ToSet(waiters) => d \in ToSet(waiters')
    BY <2>1, RemoveAtSet
  <2>14. NoLostWakeup'
    BY <2>5, <2>6, <2>13 DEF NoLostWakeup, TypeOK
  <2> QED  BY <2>3, <2>4, <2>7, <2>8, <2>9, <2>12, <2>14
<1>13. ASSUME NEW c \in Callers, CloseReady(c) PROVE IInv'
  <2> USE <1>13 DEF CloseReady, Goto
  <2>1. TypeOK'
    BY DEF TypeOK, PoppedByCloser, Locations
  <2>2. Distinct'
    BY DEF Distinct
  <2>3. QueuedWait'
    BY DEF QueuedWait, HandedTo, TypeOK
  <2>4. HandedListens'
    BY DEF HandedListens, HandedTo, TypeOK
  <2>5. PoppedByCloser'
    BY DEF PoppedByCloser, TypeOK
  <2>6. OneHandOff'
    BY DEF OneHandOff, HandedListens, PoppedByCloser, HandedTo, TypeOK
  <2>7. TokenConserved'
    BY DEF TokenConserved, HasToken, HandedTo, TypeOK
  <2>8. NoLostWakeup'
    BY DEF NoLostWakeup, HandedTo, TypeOK
  <2> QED  BY <2>1, <2>2, <2>3, <2>4, <2>5, <2>6, <2>7, <2>8
<1>14. CASE UNCHANGED vars
  BY <1>14 DEF vars, TypeOK, Distinct, QueuedWait, HandedListens, PoppedByCloser, OneHandOff, TokenConserved, NoLostWakeup, HandedTo, HasToken, Locations, ToSet
<1> QED  BY <1>1, <1>2, <1>3, <1>4, <1>5, <1>6, <1>7, <1>8, <1>9, <1>10, <1>11, <1>12, <1>13, <1>14 DEF Next, Progress

-----------------------------------------------------------------------------
(* IInv holds in every reachable state. *)
LEMMA IInvHolds == Spec => []IInv
<1> QED  BY InitIInv, StepIInv, PTL DEF Spec

(* The variables keep their types. *)
THEOREM TypeCorrect == Spec => []TypeOK
<1>1. IInv => TypeOK
  BY DEF IInv
<1> QED  BY <1>1, IInvHolds, PTL

(* fairGate's token is neither lost nor doubled, whatever cancellations race  *)
(* the hand-offs between the unlock and the close of release.               *)
THEOREM TokenIsConserved == Spec => []TokenConserved
<1>1. IInv => TokenConserved
  BY DEF IInv
<1> QED  BY <1>1, IInvHolds, PTL

(* Hence at most one caller is between acquire and release. *)
THEOREM GateIsExclusive == Spec => []MutualExclusion
<1>1. IInv => MutualExclusion
  BY DEF IInv, TokenConserved, MutualExclusion, HasToken
<1> QED  BY <1>1, IInvHolds, PTL

(* A caller blocked in <-waiter.ready has a hand-off on its way. *)
THEOREM WakeupIsCertain == Spec => []NoLostWakeup
<1>1. IInv => NoLostWakeup
  BY DEF IInv
<1> QED  BY <1>1, IInvHolds, PTL

-----------------------------------------------------------------------------
(* The refinement of FifoGate.  With the gate held, the line starts with the *)
(* one caller that has the token.                                          *)
LEMMA LineOfHolder ==
  ASSUME IInv, NEW c \in Callers, HasToken(c)
  PROVE  held /\ Line = << c >> \o waiters
<1>1. held /\ \A d \in Callers : HasToken(d) => d = c
  BY DEF IInv, TokenConserved
<1>2. (CHOOSE d \in Callers : HasToken(d)) = c
  BY <1>1
<1> QED  BY <1>1, <1>2 DEF Line

(* The same after a step. *)
LEMMA NextLineOfHolder ==
  ASSUME IInv', NEW c \in Callers, HasToken(c)'
  PROVE  held' /\ Line' = << c >> \o waiters'
<1>1. held' /\ \A d \in Callers : HasToken(d)' => d = c
  BY DEF IInv, TokenConserved
<1>2. (CHOOSE d \in Callers : HasToken(d)') = c
  BY <1>1
<1> QED  BY <1>1, <1>2 DEF Line

(* A step that moves neither the token nor the queue leaves the line alone. *)
LEMMA SameLine ==
  ASSUME IInv, IInv', waiters' = waiters, \A c \in Callers : HasToken(c)' <=> HasToken(c)
  PROVE  Line' = Line
<1>1. CASE held
  <2>1. PICK c \in Callers : HasToken(c)
    BY <1>1 DEF IInv, TokenConserved
  <2>2. HasToken(c)'
    BY <2>1
  <2>3. Line' = << c >> \o waiters'
    BY <2>2, NextLineOfHolder
  <2> QED  BY <2>1, <2>3, LineOfHolder
<1>2. CASE ~held
  BY <1>2 DEF IInv, TokenConserved, Line
<1> QED  BY <1>1, <1>2

(* Facts about sequences that begin with the holder. *)
LEMMA OneThen ==
  ASSUME NEW S, NEW x \in S, NEW s \in Seq(S)
  PROVE  /\ << x >> \o s \in Seq(S)
         /\ Len(<< x >> \o s) = Len(s) + 1
         /\ (<< x >> \o s)[1] = x
         /\ \A i \in 1 .. Len(s) : (<< x >> \o s)[i + 1] = s[i]
<1>1. << x >> \in Seq(S) /\ Len(<< x >>) = 1 /\ << x >>[1] = x
  OBVIOUS
<1>2. /\ << x >> \o s \in Seq(S) /\ Len(<< x >> \o s) = 1 + Len(s)
      /\ \A i \in 1 .. 1 + Len(s) : (<< x >> \o s)[i] = IF i <= 1 THEN << x >>[i] ELSE s[i - 1]
  BY <1>1, ConcatProperties
<1>3. Len(s) \in Nat
  BY LenProperties
<1> QED  BY <1>1, <1>2, <1>3

\* What is in a sequence with one more in front.
LEMMA OneThenSet ==
  ASSUME NEW S, NEW x \in S, NEW s \in Seq(S), NEW y \in ToSet(<< x >> \o s)
  PROVE  y = x \/ y \in ToSet(s)
<1> DEFINE l == << x >> \o s
<1>1. /\ l \in Seq(S) /\ Len(l) = Len(s) + 1 /\ l[1] = x
      /\ \A i \in 1 .. Len(s) : l[i + 1] = s[i]
  BY OneThen
<1>2. Len(s) \in Nat
  BY LenProperties
<1> HIDE DEF l
<1>3. PICK j \in 1 .. Len(s) + 1 : l[j] = y
  <2>1. DOMAIN l = 1 .. Len(s) + 1
    BY <1>1
  <2> QED  BY <2>1 DEF ToSet, l
<1>4. CASE j = 1
  BY <1>1, <1>3, <1>4
<1>5. CASE j # 1
  <2> DEFINE k == j - 1
  <2>1. k \in 1 .. Len(s) /\ j = k + 1
    BY <1>2, <1>5
  <2> HIDE DEF k
  <2>2. y = s[k] /\ k \in DOMAIN s
    BY <1>1, <1>3, <2>1
  <2> QED  BY <2>2 DEF ToSet
<1> QED  BY <1>4, <1>5

(* Queueing behind the holder, and leaving the queue, seen from the line. *)
LEMMA OneThenAppend ==
  ASSUME NEW S, NEW x \in S, NEW s \in Seq(S), NEW y \in S
  PROVE  << x >> \o Append(s, y) = Append(<< x >> \o s, y)
BY << x >> \in Seq(S), << y >> \in Seq(S), ConcatAssociative, AppendIsConcat, OneThen

\* Removing from a sequence with one more in front.
LEMMA OneThenRemove ==
  ASSUME NEW S, NEW x \in S, NEW s \in Seq(S), NEW i \in 1 .. Len(s)
  PROVE  << x >> \o RemoveAt(s, i) = RemoveAt(<< x >> \o s, i + 1)
<1> DEFINE r == RemoveAt(s, i)
           l == << x >> \o s
<1>1. /\ r \in Seq(S) /\ Len(r) = Len(s) - 1
      /\ \A j \in 1 .. Len(s) - 1 : r[j] = IF j < i THEN s[j] ELSE s[j + 1]
  BY RemoveAtElements
<1>2. /\ l \in Seq(S) /\ Len(l) = Len(s) + 1 /\ l[1] = x
      /\ \A j \in 1 .. Len(s) : l[j + 1] = s[j]
  BY OneThen
<1>3. Len(s) \in Nat /\ i + 1 \in 1 .. Len(l)
  BY <1>2, LenProperties
<1> HIDE DEF l, r
<1>4. /\ RemoveAt(l, i + 1) \in Seq(S) /\ Len(RemoveAt(l, i + 1)) = Len(l) - 1
      /\ \A j \in 1 .. Len(l) - 1 :
            RemoveAt(l, i + 1)[j] = IF j < i + 1 THEN l[j] ELSE l[j + 1]
  BY <1>2, <1>3, RemoveAtElements
<1>5. /\ << x >> \o r \in Seq(S) /\ Len(<< x >> \o r) = Len(r) + 1 /\ (<< x >> \o r)[1] = x
      /\ \A j \in 1 .. Len(r) : (<< x >> \o r)[j + 1] = r[j]
  BY <1>1, OneThen
<1>6. ASSUME NEW j \in 1 .. Len(s) PROVE (<< x >> \o r)[j] = RemoveAt(l, i + 1)[j]
  <2>1. CASE j = 1
    BY <1>2, <1>3, <1>4, <1>5, <2>1
  <2>2. CASE j # 1
    <3> DEFINE k == j - 1
    <3>1. k \in 1 .. Len(s) - 1 /\ j = k + 1 /\ k + 1 \in 1 .. Len(s)
      BY <1>3, <2>2
    <3> HIDE DEF k
    <3>2. (<< x >> \o r)[j] = r[k]
      BY <1>1, <1>5, <3>1
    <3>3. l[k + 1] = s[k] /\ l[k + 1 + 1] = s[k + 1]
      BY <1>2, <1>3, <3>1
    <3>4. RemoveAt(l, i + 1)[k + 1] = IF k < i THEN s[k] ELSE s[k + 1]
      BY <1>2, <1>3, <1>4, <3>1, <3>3
    <3> QED  BY <1>1, <3>1, <3>2, <3>4
  <2> QED  BY <2>1, <2>2
<1>7. Len(<< x >> \o r) = Len(s) /\ Len(RemoveAt(l, i + 1)) = Len(s)
  BY <1>1, <1>2, <1>3, <1>4, <1>5
<1>8. << x >> \o r = RemoveAt(l, i + 1)
  BY <1>4, <1>5, <1>6, <1>7, SeqEqual
<1> QED  BY <1>8 DEF l, r

(* Each step of the gate is a step of the line, or leaves it alone. *)
LEMMA StepLine == IInv /\ IInv' /\ [Next]_vars => [Fifo!Next]_Line
<1> SUFFICES ASSUME IInv, IInv', [Next]_vars PROVE [Fifo!Next]_Line
  OBVIOUS
<1>a. TypeOK /\ waiters \in Seq(Callers)
  BY DEF IInv, TypeOK
<1>1. ASSUME NEW c \in Callers, Arrive(c) PROVE Line' = Line
  <2>1. waiters' = waiters /\ \A d \in Callers : HasToken(d)' <=> HasToken(d)
    BY <1>a, <1>1 DEF Arrive, Goto, HasToken, HandedTo, TypeOK, IInv, HandedListens, PoppedByCloser
  <2> QED  BY <2>1, SameLine
<1>2. ASSUME NEW c \in Callers, Cancel(c) PROVE Line' = Line
  <2>1. waiters' = waiters /\ \A d \in Callers : HasToken(d)' <=> HasToken(d)
    BY <1>a, <1>2 DEF Cancel, Goto, HasToken, HandedTo, TypeOK, IInv, HandedListens, PoppedByCloser
  <2> QED  BY <2>1, SameLine
<1>3. ASSUME NEW c \in Callers, CheckContext(c) PROVE Line' = Line
  <2>1. waiters' = waiters /\ \A d \in Callers : HasToken(d)' <=> HasToken(d)
    BY <1>a, <1>3 DEF CheckContext, Goto, HasToken, HandedTo, TypeOK, IInv, HandedListens, PoppedByCloser
  <2> QED  BY <2>1, SameLine
<1>4. ASSUME NEW c \in Callers, Wake(c) PROVE Line' = Line
  <2>1. waiters' = waiters /\ \A d \in Callers : HasToken(d)' <=> HasToken(d)
    BY <1>a, <1>4 DEF Wake, Goto, Woken, HasToken, HandedTo, TypeOK, IInv, HandedListens, PoppedByCloser
  <2> QED  BY <2>1, SameLine
<1>5. ASSUME NEW c \in Callers, MissWithdraw(c) PROVE Line' = Line
  <2>1. waiters' = waiters /\ \A d \in Callers : HasToken(d)' <=> HasToken(d)
    BY <1>a, <1>5 DEF MissWithdraw, Goto, HasToken, HandedTo, TypeOK, IInv, HandedListens, PoppedByCloser
  <2> QED  BY <2>1, SameLine
<1>6. ASSUME NEW c \in Callers, Drain(c) PROVE Line' = Line
  <2>1. waiters' = waiters /\ \A d \in Callers : HasToken(d)' <=> HasToken(d)
    BY <1>a, <1>6 DEF Drain, Goto, HasToken, HandedTo, TypeOK, IInv, HandedListens, PoppedByCloser
  <2> QED  BY <2>1, SameLine
<1>7. ASSUME NEW c \in Callers, Finish(c) PROVE Line' = Line
  <2>1. waiters' = waiters /\ \A d \in Callers : HasToken(d)' <=> HasToken(d)
    BY <1>a, <1>7 DEF Finish, Goto, HasToken, HandedTo, TypeOK, IInv, HandedListens, PoppedByCloser
  <2> QED  BY <2>1, SameLine
<1>8. ASSUME NEW c \in Callers, CloseReady(c) PROVE Line' = Line
  <2>1. waiters' = waiters /\ \A d \in Callers : HasToken(d)' <=> HasToken(d)
    BY <1>a, <1>8 DEF CloseReady, Goto, HasToken, HandedTo, TypeOK, IInv, HandedListens, PoppedByCloser
  <2> QED  BY <2>1, SameLine
<1>9. ASSUME NEW c \in Callers, TakeFree(c) PROVE Fifo!Join(c)
  <2>1. Line = << >> /\ waiters' = << >>
    BY <1>9 DEF TakeFree, Free, Line
  <2>2. HasToken(c)'
    BY <1>a, <1>9 DEF TakeFree, Goto, HasToken, TypeOK
  <2>3. Line' = << c >> \o << >>
    BY <2>1, <2>2, NextLineOfHolder
  <2>4. Line' = << c >>
    BY <2>3, ConcatEmptySeq, << c >> \in Seq(Callers)
  <2>5. c \notin ToSet(Line) /\ Append(Line, c) = << c >>
    BY <2>1 DEF ToSet
  <2> QED  BY <2>4, <2>5 DEF Fifo!Join, Fifo!ToSet, ToSet
<1>10. ASSUME NEW c \in Callers, Enqueue(c) PROVE Fifo!Join(c)
  <2>1. PICK t \in Callers : HasToken(t)
    BY <1>10 DEF IInv, TokenConserved, NoLostWakeup, Enqueue, Free
  <2>2. pc[c] = "locking" /\ c # t
    BY <1>10, <2>1 DEF Enqueue, HasToken, IInv, HandedListens
  <2>3. HasToken(t)'
    BY <1>a, <1>10, <2>1, <2>2 DEF Enqueue, Goto, HasToken, HandedTo, TypeOK
  <2>4. Line = << t >> \o waiters /\ Line' = << t >> \o Append(waiters, c)
    BY <1>10, <2>1, <2>3, LineOfHolder, NextLineOfHolder DEF Enqueue
  <2>5. Line' = Append(Line, c)
    BY <1>a, <2>4, OneThenAppend
  <2>6. c \notin ToSet(waiters)
    BY <1>a, <2>2 DEF IInv, QueuedWait, ToSet
  <2>7. c \notin ToSet(Line)
    BY <1>a, <2>2, <2>4, <2>6, OneThenSet
  <2> QED  BY <2>5, <2>7 DEF Fifo!Join, Fifo!ToSet, ToSet
<1>11. ASSUME NEW c \in Callers, Withdraw(c)
       PROVE  \E i \in 2 .. Len(Line) : Fifo!Abandon(i)
  <2>1. PICK i \in 1 .. Len(waiters) : waiters[i] = c /\ waiters' = RemoveAt(waiters, i)
    BY <1>11 DEF Withdraw
  <2>2. PICK t \in Callers : HasToken(t)
    BY <1>a, <2>1 DEF IInv, TokenConserved, NoLostWakeup
  <2>3. t # c
    BY <1>11, <2>1, <2>2 DEF Withdraw, IInv, QueuedWait, HasToken
  <2>4. HasToken(t)'
    BY <1>a, <1>11, <2>2, <2>3 DEF Withdraw, Goto, HasToken, HandedTo, TypeOK
  <2>5. Line = << t >> \o waiters /\ Line' = << t >> \o RemoveAt(waiters, i)
    BY <2>1, <2>2, <2>4, LineOfHolder, NextLineOfHolder
  <2>6. Line' = RemoveAt(Line, i + 1)
    BY <1>a, <2>5, OneThenRemove
  <2>7. i + 1 \in 2 .. Len(Line)
    <3>1. Len(waiters) \in Nat /\ Len(Line) = Len(waiters) + 1
      BY <1>a, <2>2, <2>5, OneThen, LenProperties
    <3> QED  BY <3>1
  <2> QED  BY <2>6, <2>7 DEF Fifo!Abandon, Fifo!RemoveAt, RemoveAt
<1>12. ASSUME NEW c \in Callers, ReleaseFree(c) PROVE Fifo!Leave
  <2>1. HasToken(c)
    BY <1>12 DEF ReleaseFree, HasToken
  <2>2. Line = << c >> \o << >>
    BY <1>12, <2>1, LineOfHolder DEF ReleaseFree
  <2>3. Line = << c >> /\ Line' = << >>
    BY <1>12, <2>2, ConcatEmptySeq, << c >> \in Seq(Callers) DEF ReleaseFree, Line
  <2> QED  BY <2>3 DEF Fifo!Leave
<1>13. ASSUME NEW c \in Callers, ReleaseToNext(c) PROVE Fifo!Leave
  <2>1. HasToken(c) /\ 1 \in 1 .. Len(waiters) /\ waiters[1] \in Callers
    BY <1>a, <1>13 DEF ReleaseToNext, HasToken
  <2> PICK n \in Callers : n = waiters[1]
    BY <2>1
  <2>2. HasToken(n)'
    BY <1>a, <1>13, <2>1 DEF ReleaseToNext, NextWaiter, HasToken, HandedTo, TypeOK
  <2>3. Line = << c >> \o waiters /\ Line' = << n >> \o RemoveAt(waiters, 1)
    BY <1>13, <2>1, <2>2, LineOfHolder, NextLineOfHolder DEF ReleaseToNext, NextWaiter
  <2>4. Tail(<< c >> \o waiters) = waiters
    BY <1>a, <2>1
  <2>5. << n >> \o RemoveAt(waiters, 1) = waiters
    <3> DEFINE r == RemoveAt(waiters, 1)
    <3>1. /\ r \in Seq(Callers) /\ Len(r) = Len(waiters) - 1
          /\ \A j \in 1 .. Len(waiters) - 1 : r[j] = IF j < 1 THEN waiters[j] ELSE waiters[j + 1]
      BY <1>a, <2>1, RemoveAtElements
    <3> HIDE DEF r
    <3>2. /\ << n >> \o r \in Seq(Callers) /\ Len(<< n >> \o r) = Len(r) + 1
          /\ (<< n >> \o r)[1] = n
          /\ \A j \in 1 .. Len(r) : (<< n >> \o r)[j + 1] = r[j]
      BY <2>1, <3>1, OneThen
    <3>3. Len(waiters) \in Nat
      BY <1>a, LenProperties
    <3>4. ASSUME NEW j \in 1 .. Len(waiters) PROVE (<< n >> \o r)[j] = waiters[j]
      <4>1. CASE j = 1
        BY <3>2, <4>1
      <4>2. CASE j # 1
        <5> DEFINE k == j - 1
        <5>1. k \in 1 .. Len(waiters) - 1 /\ j = k + 1 /\ ~(k < 1)
          BY <3>3, <4>2
        <5> HIDE DEF k
        <5> QED  BY <3>1, <3>2, <5>1
      <4> QED  BY <4>1, <4>2
    <3>5. Len(<< n >> \o r) = Len(waiters)
      BY <3>1, <3>2, <3>3
    <3>6. << n >> \o r = waiters
      BY <1>a, <3>2, <3>4, <3>5, SeqEqual
    <3> QED  BY <3>6 DEF r
  <2>6. Line # << >>
    BY <1>a, <2>1, <2>3, OneThen, LenProperties
  <2> QED  BY <2>3, <2>4, <2>5, <2>6 DEF Fifo!Leave
<1>14. CASE UNCHANGED vars
  BY <1>14 DEF vars, Line, HasToken, HandedTo
<1> QED  BY <1>1, <1>2, <1>3, <1>4, <1>5, <1>6, <1>7, <1>8, <1>9, <1>10, <1>11, <1>12, <1>13,
            <1>14 DEF Next, Progress, Fifo!Next

(* The gate serves its callers first come, first served: a cancellation only *)
(* takes its own caller out of the line.                                    *)
THEOREM FairGateIsFifo == Spec => ImplementsFifoGate
<1>1. Init => Fifo!Init
  BY DEF Init, Line, Fifo!Init
<1> QED  BY <1>1, StepLine, IInvHolds, PTL DEF Spec, ImplementsFifoGate, Fifo!Spec
=============================================================================
