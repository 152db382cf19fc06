--------------------------- MODULE WebhooksProofs ---------------------------
(***************************************************************************)
(* The verified flag, the manual and the automatic disable of a webhook,   *)
(* for any number of deliveries, handshakes and updates, any threshold and *)
(* any history capacity that holds as many outcomes as the threshold.      *)
(***************************************************************************)
EXTENDS Webhooks, SequenceTheorems, TLAPS

(* What the proofs need of the types. *)
Types ==
    /\ version \in Nat /\ target \in Nat
    /\ vpc \in [Checks -> {"idle", "request", "passed", "failed"}]
    /\ held \in [Checks -> Nat]
    /\ aim \in [Checks -> Nat]

(* A handshake holds a copy of the record no newer than the stored one;    *)
(* if it is the stored one, the url has not changed since it began.        *)
HeldIsOld ==
    \A v \in Checks : vpc[v] # "idle" =>
        /\ held[v] <= version
        /\ held[v] = version => aim[v] = target

VInv == Types /\ HeldIsOld /\ VerifiedIsEarned

LEMMA InitVInv == Init => VInv
<1> SUFFICES ASSUME Init PROVE VInv
  OBVIOUS
<1>1. Types
  BY DEF Init, Types
<1>2. HeldIsOld
  BY DEF Init, HeldIsOld
<1>3. VerifiedIsEarned
  BY Zenon DEF Init, VerifiedIsEarned
<1> QED
  BY <1>1, <1>2, <1>3 DEF VInv

(* Steps that leave the record and the handshakes alone. *)
LEMMA OtherSteps ==
  ASSUME VInv, UNCHANGED <<verified, version, target, vpc, held, aim>>
  PROVE  VInv'
  BY DEF VInv, Types, HeldIsOld, VerifiedIsEarned

LEMMA StepVInv == VInv /\ [Next]_vars => VInv'
<1> SUFFICES ASSUME VInv, [Next]_vars PROVE VInv'
  OBVIOUS
<1> USE DEF VInv
<1>1. ASSUME NEW u \in Urls, UpdateUrl(u) PROVE VInv'
  <2>1. Types'
    BY <1>1 DEF UpdateUrl, Types, checkVars
  <2>2. HeldIsOld'
    BY <1>1 DEF UpdateUrl, Types, HeldIsOld, checkVars
  <2>3. VerifiedIsEarned'
    BY <1>1 DEF UpdateUrl, VerifiedIsEarned
  <2> QED
    BY <2>1, <2>2, <2>3
<1>2. ASSUME UpdateOther PROVE VInv'
  <2>1. Types'
    BY <1>2 DEF UpdateOther, Types, checkVars
  <2>2. HeldIsOld'
    BY <1>2 DEF UpdateOther, Types, HeldIsOld, checkVars
  <2>3. VerifiedIsEarned'
    BY <1>2 DEF UpdateOther, VerifiedIsEarned, checkVars
  <2> QED
    BY <2>1, <2>2, <2>3
<1>3. ASSUME NEW v \in Checks, VerifyWebhook(v) PROVE VInv'
  <2>1. Types'
    BY <1>3 DEF VerifyWebhook, Types, recVars
  <2>2. HeldIsOld'
    BY <1>3 DEF VerifyWebhook, Types, HeldIsOld, recVars
  <2>3. VerifiedIsEarned'
    BY <1>3 DEF VerifyWebhook, VerifiedIsEarned, Types, recVars
  <2> QED
    BY <2>1, <2>2, <2>3
<1>4. ASSUME NEW v \in Checks, NEW ok \in BOOLEAN, HandshakeEnds(v, ok)
      PROVE  VInv'
  <2>1. Types'
    BY <1>4 DEF HandshakeEnds, SetVerified, Types
  <2>2. HeldIsOld'
    BY <1>4 DEF HandshakeEnds, Types, HeldIsOld
  <2>3. VerifiedIsEarned'
    <3>1. CASE held[v] = version
      <4>1. verified' = ok /\ aim[v] = target /\ UNCHANGED <<aim, target>>
        BY <1>4, <3>1 DEF HandshakeEnds, SetVerified, HeldIsOld
      <4>2. ok => vpc'[v] = "passed"
        BY <1>4 DEF HandshakeEnds, Types
      <4> QED
        BY <4>1, <4>2 DEF VerifiedIsEarned
    <3>2. CASE held[v] # version
      <4>1. verified' = verified /\ UNCHANGED <<aim, target>>
        BY <1>4, <3>2 DEF HandshakeEnds, SetVerified
      <4>2. \A w \in Checks : vpc[w] = "passed" => vpc'[w] = "passed"
        BY <1>4 DEF HandshakeEnds, Types
      <4> QED
        BY <4>1, <4>2 DEF VerifiedIsEarned
    <3> QED
      BY <3>1, <3>2
  <2> QED
    BY <2>1, <2>2, <2>3
<1>5. CASE \E u \in Urls : RegisterWebhook(u)
  BY <1>5, OtherSteps DEF RegisterWebhook, checkVars
<1>6. CASE DisableWebhook \/ EnableWebhook \/ DeleteWebhook
  BY <1>6, OtherSteps
  DEF DisableWebhook, EnableWebhook, DeleteWebhook, recVars, checkVars
<1>7. CASE \E s \in Sends : SendWebhook(s) \/ SendStep(s)
  BY <1>7, OtherSteps
  DEF SendWebhook, SendStep, Delivered, NextAttempt, AttemptFails, BackOff,
      SendEnds, recVars, checkVars
<1>8. CASE UNCHANGED vars
  BY <1>8, OtherSteps DEF vars, recVars, checkVars
<1> QED
  BY <1>1, <1>2, <1>3, <1>4, <1>5, <1>6, <1>7, <1>8 DEF Next

(* A webhook is shown as verified only if a handshake begun after its last *)
(* url change passed (webhooks.ts:276-325, 519-593), however many          *)
(* handshakes and updates overlap.                                         *)
THEOREM VerifiedEarned == Spec => []VerifiedIsEarned
<1>1. VInv => VerifiedIsEarned
  BY DEF VInv
<1> QED
  BY InitVInv, StepVInv, <1>1, PTL DEF Spec

(* A manual disable outlasts url changes and the deliveries still under    *)
(* way (webhooks.ts:1091-1103, 1112-1140): only enableWebhook ends it.     *)
THEOREM ManualDisableHolds == Spec => ManualHolds
<1>1. [Next]_vars =>
        [disabled = "manual" => disabled' = "manual" \/ EnableWebhook]_vars
  <2> SUFFICES ASSUME Next, disabled = "manual", ~EnableWebhook
               PROVE  disabled' = "manual"
    OBVIOUS
  <2>1. CASE \E u \in Urls : RegisterWebhook(u) \/ UpdateUrl(u)
    BY <2>1 DEF RegisterWebhook, UpdateUrl, ResetFailureState, stateVars
  <2>2. CASE UpdateOther \/ DisableWebhook \/ DeleteWebhook
    BY <2>2 DEF UpdateOther, DisableWebhook, DeleteWebhook, stateVars
  <2>3. CASE \E s \in Sends : SendWebhook(s) \/ SendStep(s)
    BY <2>3
    DEF SendWebhook, SendStep, Delivered, NextAttempt, AttemptFails, BackOff,
        SendEnds, RecordOutcome, stateVars
  <2>4. CASE \E v \in Checks : VerifyWebhook(v)
                               \/ \E ok \in BOOLEAN : HandshakeEnds(v, ok)
    BY <2>4 DEF VerifyWebhook, HandshakeEnds, stateVars
  <2> QED
    BY <2>1, <2>2, <2>3, <2>4 DEF Next
<1> QED
  BY <1>1, PTL DEF Spec, ManualHolds

-----------------------------------------------------------------------------
Outcomes == {"success", "client"} \cup Counted

(* The failure counter counts the counted failures at the end of the       *)
(* history, or as many of them as the history has room for.                *)
RunOfFailures ==
    /\ history \in Seq(Outcomes)
    /\ failures \in Nat
    /\ Len(history) <= HistoryCapacity
    /\ Len(history) >= failures \/ Len(history) = HistoryCapacity
    /\ \A i \in Nat : i < failures /\ i < Len(history) =>
          history[Len(history) - i] \in Counted

LEMMA InitRun == Init => RunOfFailures
  BY WebhookConstants DEF Init, RunOfFailures

(* recordTerminal appends the outcome and forgets at most the oldest one. *)
LEMMA RecordedShape ==
  ASSUME RunOfFailures, NEW o \in Outcomes
  PROVE  /\ Recorded(o) \in Seq(Outcomes)
         /\ Len(Recorded(o)) <= HistoryCapacity
         /\ Len(Recorded(o)) >= 1
         /\ \/ Len(Recorded(o)) = Len(history) + 1
            \/ Len(Recorded(o)) = HistoryCapacity
         /\ Recorded(o)[Len(Recorded(o))] = o
         /\ \A i \in Nat : 1 <= i /\ i < Len(Recorded(o)) =>
               /\ i - 1 < Len(history)
               /\ Recorded(o)[Len(Recorded(o)) - i]
                    = history[Len(history) - (i - 1)]
<1>1. history \in Seq(Outcomes) /\ Len(history) \in Nat
      /\ HistoryCapacity \in Nat \ {0}
  BY WebhookConstants DEF RunOfFailures
<1>2. CASE Len(history) < HistoryCapacity
  <2>1. Recorded(o) = Append(history, o)
    BY <1>2 DEF Recorded
  <2> QED
    BY <1>1, <1>2, <2>1
<1>3. CASE ~(Len(history) < HistoryCapacity)
  <2>1. Len(history) = HistoryCapacity /\ history # <<>>
    BY <1>1, <1>3 DEF RunOfFailures
  <2>2. Recorded(o) = Append(Tail(history), o)
    BY <1>3 DEF Recorded
  <2>3. /\ Tail(history) \in Seq(Outcomes)
        /\ Len(Tail(history)) = Len(history) - 1
        /\ \A i \in 1..Len(Tail(history)) : Tail(history)[i] = history[i + 1]
    BY <1>1, <2>1
  <2> QED
    BY <1>1, <2>1, <2>2, <2>3
<1> QED
  BY <1>2, <1>3

LEMMA RecordOutcomeRun ==
  ASSUME RunOfFailures, NEW o \in Outcomes, RecordOutcome(o)
  PROVE  RunOfFailures'
<1>1. history' = Recorded(o)
      /\ failures' = IF o \in Counted THEN failures + 1 ELSE 0
  BY DEF RecordOutcome
<1>2. CASE o \in Counted
  <2>1. /\ history' \in Seq(Outcomes) /\ Len(history') <= HistoryCapacity
        /\ failures' = failures + 1 /\ failures \in Nat
    BY <1>1, <1>2, RecordedShape DEF RunOfFailures
  <2>2. Len(history') >= failures' \/ Len(history') = HistoryCapacity
    BY <1>1, <2>1, RecordedShape, WebhookConstants DEF RunOfFailures
  <2>3. ASSUME NEW i \in Nat, i < failures', i < Len(history')
        PROVE  history'[Len(history') - i] \in Counted
    <3>1. CASE i = 0
      BY <1>1, <1>2, <2>1, <3>1, RecordedShape
    <3>2. CASE i # 0
      <4>1. i - 1 \in Nat /\ 1 <= i /\ i - 1 < failures
        BY <2>1, <2>3, <3>2
      <4>2. i - 1 < Len(history)
            /\ history'[Len(history') - i] = history[Len(history) - (i - 1)]
        BY <1>1, <2>3, <4>1, RecordedShape
      <4> QED
        BY <4>1, <4>2 DEF RunOfFailures
    <3> QED
      BY <3>1, <3>2
  <2> QED
    BY <2>1, <2>2, <2>3 DEF RunOfFailures
<1>3. CASE o \notin Counted
  BY <1>1, <1>3, RecordedShape DEF RunOfFailures
<1> QED
  BY <1>2, <1>3

(* What a step does to the counter and the history: it leaves them alone,  *)
(* resets the counter, or records the outcome of a delivery.               *)
LEMMA StepOutcome ==
  ASSUME Next
  PROVE  \/ UNCHANGED <<failures, history>> /\ disabled' # "auto"
         \/ UNCHANGED <<failures, history, disabled>>
         \/ failures' = 0 /\ UNCHANGED history /\ disabled' # "auto"
         \/ \E o \in Outcomes : RecordOutcome(o)
<1>1. CASE \E u \in Urls : RegisterWebhook(u) \/ UpdateUrl(u)
  BY <1>1 DEF RegisterWebhook, UpdateUrl, ResetFailureState, stateVars
<1>2. CASE UpdateOther \/ DisableWebhook \/ EnableWebhook \/ DeleteWebhook
  BY <1>2
  DEF UpdateOther, DisableWebhook, EnableWebhook, DeleteWebhook, stateVars
<1>3. CASE \E s \in Sends : SendWebhook(s) \/ SendStep(s)
  <2> PICK s \in Sends : SendWebhook(s) \/ SendStep(s)
    BY <1>3
  <2>1. ASSUME NEW o \in Outcomes, SendEnds(s, o)
        PROVE  \E q \in Outcomes : RecordOutcome(q)
    BY <2>1 DEF SendEnds
  <2>2. "success" \in Outcomes /\ \A o \in Failure : Classify(o) \in Outcomes
    BY DEF Outcomes, Counted, Failure, Classify
  <2> QED
    BY <2>1, <2>2
    DEF SendWebhook, SendStep, Delivered, NextAttempt, AttemptFails, BackOff,
        stateVars
<1>4. CASE \E v \in Checks : VerifyWebhook(v)
                             \/ \E ok \in BOOLEAN : HandshakeEnds(v, ok)
  BY <1>4 DEF VerifyWebhook, HandshakeEnds, stateVars
<1> QED
  BY <1>1, <1>2, <1>3, <1>4 DEF Next

LEMMA StepRun == RunOfFailures /\ [Next]_vars => RunOfFailures'
<1> SUFFICES ASSUME RunOfFailures, [Next]_vars PROVE RunOfFailures'
  OBVIOUS
<1>1. CASE UNCHANGED <<failures, history>>
  BY <1>1 DEF RunOfFailures
<1>2. CASE failures' = 0 /\ UNCHANGED history
  BY <1>2 DEF RunOfFailures
<1>3. CASE \E o \in Outcomes : RecordOutcome(o)
  BY <1>3, RecordOutcomeRun
<1>4. CASE UNCHANGED vars
  BY <1>1, <1>4 DEF vars, stateVars
<1> QED
  BY <1>1, <1>2, <1>3, <1>4, StepOutcome

(* A webhook is disabled automatically only when the last Threshold        *)
(* outcomes recorded are all counted failures (webhooks.ts:1105-1140), for *)
(* any number of overlapping deliveries, updates and re-enablings.         *)
THEOREM AutoDisableIsEarned == Spec => AutoDisableEarned
<1>1. RunOfFailures /\ RunOfFailures' /\ [Next]_vars =>
        [(disabled = "no" /\ disabled' = "auto") =>
            /\ Len(history') >= Threshold
            /\ \A i \in 0..(Threshold - 1) :
                  history'[Len(history') - i] \in Counted]_vars
  <2> SUFFICES ASSUME RunOfFailures', Next, disabled = "no", disabled' = "auto"
               PROVE  /\ Len(history') >= Threshold
                      /\ \A i \in 0..(Threshold - 1) :
                            history'[Len(history') - i] \in Counted
    OBVIOUS
  <2>1. PICK o \in Outcomes : RecordOutcome(o)
    BY StepOutcome
  <2>2. failures' >= Threshold
    BY <2>1 DEF RecordOutcome
  <2>3. Len(history') >= Threshold
    BY <2>2, WebhookConstants DEF RunOfFailures
  <2>4. \A i \in 0..(Threshold - 1) : i \in Nat /\ i < failures'
                                        /\ i < Len(history')
    BY <2>2, <2>3, WebhookConstants DEF RunOfFailures
  <2> QED
    BY <2>3, <2>4 DEF RunOfFailures
<1> QED
  BY InitRun, StepRun, <1>1, PTL DEF Spec, AutoDisableEarned
=============================================================================
