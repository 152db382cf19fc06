------------------------ MODULE WebhookDeliveryProofs ------------------------
(***************************************************************************)
(* What overlapping deliver and retryDelivery calls may not do, for any    *)
(* number of deliveries and calls and any limit on retries.                *)
(***************************************************************************)
EXTENDS WebhookDelivery, FiniteSetTheorems, TLAPS

(* What the proofs need of the types. *)
Types ==
    /\ status \in [Deliveries ->
           {"none", "delivering", "failed", "success", "exhausted"}]
    /\ pc \in [Calls -> {"idle", "fetch", "sleep", "done"}]
    /\ target \in [Calls -> Deliveries]
    /\ \A d \in Deliveries : target[d] = d
    /\ requests \in [Calls -> Nat]

(* A delivery has a record, a body or a running call only once its deliver *)
(* call has begun.                                                         *)
Begun ==
    /\ \A d \in Deliveries :
          status[d] # "none" \/ d \in payloads \/ d \in acked => pc[d] # "idle"
    /\ \A c \in Calls :
          pc[c] \in {"fetch", "sleep"} => pc[target[c]] # "idle"

(* The body goes when the receiver acknowledges the delivery. *)
AckedHasNoBody == acked \cap payloads = {}

DInv == Types /\ Begun /\ AckedHasNoBody /\ DeletedStaysDeleted

LEMMA CallsOf == \A d \in Deliveries : d \in Calls
  BY DEF Calls

LEMMA InitDInv == Init => DInv
  BY CallsOf
  DEF Init, DInv, Types, Begun, AckedHasNoBody, DeletedStaysDeleted

(* sendHttpRequest up to its fetch, for a delivery that may be sent. *)
LEMMA SendDInv ==
  ASSUME DInv, NEW c \in Calls, SendHttpRequest(c), endpoint' = endpoint,
         target' = target, acked' = acked,
         target[c] = c \/ pc[target[c]] # "idle",
         endpoint # "deleted",
         payloads' \subseteq payloads \cup {target[c]},
         target[c] \notin acked
  PROVE  DInv'
<1> USE DEF DInv
<1>1. Types'
  BY DEF SendHttpRequest, Types
<1>2. Begun'
  <2>1. pc' = [pc EXCEPT ![c] = "fetch"] /\ pc'[target[c]] # "idle"
    BY DEF SendHttpRequest, Types
  <2>2. ASSUME NEW d \in Deliveries,
               status'[d] # "none" \/ d \in payloads' \/ d \in acked'
        PROVE  pc'[d] # "idle"
    BY <2>1, <2>2, CallsOf DEF SendHttpRequest, Begun, Types
  <2>3. ASSUME NEW k \in Calls, pc'[k] \in {"fetch", "sleep"}
        PROVE  pc'[target'[k]] # "idle"
    BY <2>1, <2>3, CallsOf DEF Begun, Types
  <2> QED
    BY <2>2, <2>3 DEF Begun
<1>3. AckedHasNoBody'
  BY DEF AckedHasNoBody
<1>4. DeletedStaysDeleted'
  BY DEF DeletedStaysDeleted
<1> QED
  BY <1>1, <1>2, <1>3, <1>4

(* The outcome of a request or of a refused retry of call c is stored. *)
LEMMA EndDInv ==
  ASSUME DInv, NEW c \in Calls, NEW p \in {"sleep", "done"},
         pc[c] \in {"fetch", "sleep"}, pc' = [pc EXCEPT ![c] = p],
         UNCHANGED <<endpoint, target, requests>>,
         NEW s \in {"failed", "success", "exhausted"},
         \/ status' = status
         \/ status[target[c]] # "none"
            /\ status' = [status EXCEPT ![target[c]] = s],
         payloads' \subseteq payloads,
         \/ acked' = acked
         \/ acked' = acked \cup {target[c]} /\ target[c] \notin payloads'
  PROVE  DInv'
<1> USE DEF DInv
<1>0. pc[target[c]] # "idle" /\ target[c] \in Deliveries
  BY DEF Begun, Types
<1>1. Types'
  BY <1>0 DEF Types
<1>2. Begun'
  <2>1. \A k \in Calls : pc[k] # "idle" => pc'[k] # "idle"
    BY DEF Types
  <2>2. ASSUME NEW d \in Deliveries,
               status'[d] # "none" \/ d \in payloads' \/ d \in acked'
        PROVE  pc'[d] # "idle"
    BY <1>0, <2>1, <2>2, CallsOf DEF Begun, Types
  <2>3. ASSUME NEW k \in Calls, pc'[k] \in {"fetch", "sleep"}
        PROVE  pc'[target'[k]] # "idle"
    <3>1. pc[k] \in {"fetch", "sleep"}
      BY <2>3 DEF Types
    <3> QED
      BY <3>1, <2>1, CallsOf DEF Begun, Types
  <2> QED
    BY <2>2, <2>3 DEF Begun
<1>3. AckedHasNoBody'
  BY DEF AckedHasNoBody
<1>4. DeletedStaysDeleted'
  BY <1>0 DEF DeletedStaysDeleted, Types
<1> QED
  BY <1>1, <1>2, <1>3, <1>4

LEMMA StepDInv == DInv /\ [Next]_vars => DInv'
<1> SUFFICES ASSUME DInv, [Next]_vars PROVE DInv'
  OBVIOUS
<1> USE DEF DInv
<1>1. CASE \E e \in {"enabled", "disabled"} :
              RegisterEndpoint(e) \/ UpdateEndpoint(e)
  BY <1>1
  DEF RegisterEndpoint, UpdateEndpoint, records, history, Types, Begun,
      AckedHasNoBody, DeletedStaysDeleted
<1>2. CASE DeleteEndpoint
  BY <1>2
  DEF DeleteEndpoint, history, Types, Begun, AckedHasNoBody,
      DeletedStaysDeleted
<1>3. CASE Clear
  BY <1>3
  DEF Clear, records, Types, Begun, AckedHasNoBody, DeletedStaysDeleted
<1>4. ASSUME NEW d \in Deliveries, Deliver(d) PROVE DInv'
  <2>1. d \in Calls /\ target[d] = d /\ d \notin acked
    BY <1>4, CallsOf DEF Deliver, Types, Begun
  <2> QED
    BY <1>4, <2>1, SendDInv DEF Deliver, history
<1>5. ASSUME NEW r \in Retries, RetryDelivery(r) PROVE DInv'
  <2>1. r \in Calls /\ target[r] \in Deliveries
    BY DEF Calls, Types
  <2>2. /\ endpoint # "deleted" /\ target[r] \notin acked
        /\ pc[target[r]] # "idle"
    BY <1>5, <2>1
    DEF RetryDelivery, Refused, DeletedStaysDeleted, AckedHasNoBody, Begun
  <2> QED
    BY <1>5, <2>1, <2>2, SendDInv DEF RetryDelivery
<1>6. ASSUME NEW c \in Calls, Progress(c) PROVE DInv'
  <2>1. CASE Delivered(c)
    BY <2>1, EndDInv DEF Delivered, UpdateDeliveryStatus
  <2>2. ASSUME NEW stack, pc[c] \in {"fetch", "sleep"},
               ScheduleRetry(c, stack)
        PROVE  DInv'
    BY <2>2, EndDInv DEF ScheduleRetry, UpdateDeliveryStatus, history
  <2>3. ASSUME NEW stack, pc[c] \in {"fetch", "sleep"}, Exhaust(c, stack)
        PROVE  DInv'
    BY <2>3, EndDInv DEF Exhaust, UpdateDeliveryStatus, history
  <2>4. CASE \E where \in {"try", "catch"} : RequestFails(c, where)
    BY <2>4, <2>2, <2>3 DEF RequestFails
  <2>5. CASE WakeGone(c) \/ WakeThrows(c)
    BY <2>5, EndDInv DEF WakeGone, WakeThrows, records, history
  <2>6. CASE WakeRetry(c)
    <3>1. /\ endpoint # "deleted" /\ target[c] \notin acked
          /\ pc[target[c]] # "idle"
      BY <2>6
      DEF WakeRetry, Refused, DeletedStaysDeleted, AckedHasNoBody, Begun, Types
    <3> QED
      BY <2>6, <3>1, SendDInv DEF WakeRetry, history
  <2>7. CASE WakeCaught(c)
    BY <2>7, <2>2 DEF WakeCaught
  <2> QED
    BY <1>6, <2>1, <2>4, <2>5, <2>6, <2>7 DEF Progress
<1>7. CASE UNCHANGED vars
  BY <1>7
  DEF vars, records, history, Types, Begun, AckedHasNoBody,
      DeletedStaysDeleted
<1> QED
  BY <1>1, <1>2, <1>3, <1>4, <1>5, <1>6, <1>7 DEF Next

(* Calls under way when an endpoint is deleted bring none of its records   *)
(* back (webhooks.ts:102-107, 1008-1009), for any number of them.          *)
THEOREM DeletionIsFinal == Spec => []DeletedStaysDeleted
<1>1. DInv => DeletedStaysDeleted
  BY DEF DInv
<1> QED
  BY InitDInv, StepDInv, <1>1, PTL DEF Spec

(* Only these steps send a request. *)
LEMMA Senders ==
  ASSUME DInv, Next, NEW c \in Calls, requests'[c] > requests[c]
  PROVE  target[c] \notin acked
<1> USE DEF DInv
<1>0. requests[c] \in Nat
  BY DEF Types
<1>1. ASSUME NEW k \in Calls, SendHttpRequest(k), target[k] \notin acked
      PROVE  target[c] \notin acked
  <2>1. requests' = [requests EXCEPT ![k] = requests[k] + 1]
    BY <1>1 DEF SendHttpRequest
  <2>2. c = k
    BY <1>0, <2>1 DEF Types
  <2> QED
    BY <1>1, <2>2
<1>2. ASSUME UNCHANGED requests PROVE FALSE
  BY <1>0, <1>2
<1>3. CASE \/ \E e \in {"enabled", "disabled"} :
                 RegisterEndpoint(e) \/ UpdateEndpoint(e)
           \/ DeleteEndpoint \/ Clear
  BY <1>2, <1>3
  DEF RegisterEndpoint, UpdateEndpoint, DeleteEndpoint, Clear
<1>4. ASSUME NEW d \in Deliveries, Deliver(d) PROVE target[c] \notin acked
  <2>1. d \in Calls /\ target[d] = d /\ d \notin acked
    BY <1>4, CallsOf DEF Deliver, Types, Begun
  <2> QED
    BY <1>1, <1>4, <2>1 DEF Deliver
<1>5. ASSUME NEW r \in Retries, RetryDelivery(r) PROVE target[c] \notin acked
  <2>1. r \in Calls /\ target[r] \notin acked
    BY <1>5 DEF RetryDelivery, Refused, AckedHasNoBody, Calls
  <2> QED
    BY <1>1, <1>5, <2>1 DEF RetryDelivery
<1>6. ASSUME NEW k \in Calls, Progress(k) PROVE target[c] \notin acked
  <2>1. CASE WakeRetry(k)
    <3>1. target[k] \notin acked
      BY <2>1 DEF WakeRetry, Refused, AckedHasNoBody
    <3> QED
      BY <1>1, <2>1, <3>1 DEF WakeRetry
  <2>2. CASE ~WakeRetry(k)
    <3>1. UNCHANGED requests
      BY <1>6, <2>2
      DEF Progress, Delivered, RequestFails, ScheduleRetry, Exhaust, WakeGone,
          WakeCaught, WakeThrows
    <3> QED
      BY <1>2, <3>1
  <2> QED
    BY <2>1, <2>2
<1> QED
  BY <1>3, <1>4, <1>5, <1>6 DEF Next

(* Once the receiver has acknowledged a delivery no call sends it again    *)
(* (webhooks.ts:132-141, 957-960), whatever calls overlap.                 *)
THEOREM AckedIsNotResent == Spec => NotSentOnceAcked
<1>1. DInv /\ [Next]_vars =>
        [\A c \in Calls : requests'[c] > requests[c]
                             => target[c] \notin acked]_vars
  BY Senders
<1> QED
  BY InitDInv, StepDInv, <1>1, PTL DEF Spec, NotSentOnceAcked

-----------------------------------------------------------------------------
(* What is shown of an endpoint and of its deliveries. *)

(* A retry by hand marks its delivery. *)
ByHand == \A r \in Retries : pc[r] # "idle" => target[r] \in disturbed

(* The course of a delivery whose only call is its deliver call. *)
Undisturbed(d) ==
    /\ pc[d] = "fetch" => status[d] = "delivering" /\ d \in payloads /\ d \notin acked
    /\ pc[d] = "sleep" => status[d] = "failed" /\ d \in payloads /\ d \notin acked
    /\ pc[d] = "done" => /\ status[d] \in {"success", "exhausted"}
                         /\ status[d] = "success" <=> d \in acked

Course == \A d \in Deliveries \ disturbed : status[d] # "none" => Undisturbed(d)

OInv == DInv /\ HealthAccurate /\ ByHand /\ Course

LEMMA InitOInv == Init => OInv
<1> SUFFICES ASSUME Init PROVE OInv
  OBVIOUS
<1>1. Health(status) = [total |-> 0, successful |-> 0]
  <2>1. {d \in Deliveries : status[d] # "none"} = {}
        /\ {d \in Deliveries : status[d] = "success"} = {}
    BY DEF Init
  <2> QED
    BY <2>1, FS_EmptySet DEF Health
<1>2. HealthAccurate
  BY <1>1 DEF Init, HealthAccurate
<1>3. ByHand /\ Course
  BY DEF Init, ByHand, Course, Calls
<1> QED
  BY <1>2, <1>3, InitDInv DEF OInv

(* A delivery sent again was counted, and not as a success. *)
LEMMA SendKeepsHealth ==
    ASSUME DInv, HealthAccurate, NEW c \in Calls, SendHttpRequest(c),
           status[target[c]] # "none", ~Refused(target[c]), UNCHANGED <<endpoint, health>>
    PROVE  HealthAccurate'
<1>1. target[c] \in Deliveries /\ status' = [status EXCEPT ![target[c]] = "delivering"]
  BY DEF DInv, Types, SendHttpRequest
<1>2. status[target[c]] # "success"
  BY DEF Refused
<1>3. {d \in Deliveries : status'[d] # "none"} = {d \in Deliveries : status[d] # "none"}
      /\ {d \in Deliveries : status'[d] = "success"} = {d \in Deliveries : status[d] = "success"}
  BY <1>1, <1>2 DEF DInv, Types
<1>4. Health(status') = Health(status)
  BY <1>3 DEF Health
<1> QED
  BY <1>4 DEF HealthAccurate

LEMMA HealthStep ==
    ASSUME DInv, HealthAccurate, [Next]_vars
    PROVE  HealthAccurate'
<1>1. ASSUME RecordDeliveryAttempt, UNCHANGED endpoint PROVE HealthAccurate'
  BY <1>1 DEF RecordDeliveryAttempt, HealthAccurate
<1>2. CASE \E e \in {"enabled", "disabled"} : RegisterEndpoint(e) \/ UpdateEndpoint(e)
  BY <1>2 DEF RegisterEndpoint, UpdateEndpoint, records, HealthAccurate
<1>3. CASE DeleteEndpoint
  BY <1>3 DEF DeleteEndpoint, HealthAccurate
<1>4. CASE Clear \/ UNCHANGED vars
  BY <1>4 DEF Clear, vars, records, HealthAccurate
<1>5. ASSUME NEW d \in Deliveries, Deliver(d) PROVE HealthAccurate'
  BY <1>1, <1>5 DEF Deliver
<1>6. ASSUME NEW r \in Retries, RetryDelivery(r) PROVE HealthAccurate'
  BY <1>6, SendKeepsHealth DEF RetryDelivery, Calls
<1>7. ASSUME NEW c \in Calls, Progress(c) PROVE HealthAccurate'
  <2>1. CASE Delivered(c)
    BY <1>1, <2>1 DEF Delivered
  <2>2. CASE \E where \in {"try", "catch"} : RequestFails(c, where)
    BY <1>1, <2>2 DEF RequestFails, ScheduleRetry, Exhaust
  <2>3. CASE WakeCaught(c)
    BY <1>1, <2>3 DEF WakeCaught, ScheduleRetry
  <2>4. CASE WakeGone(c) \/ WakeThrows(c)
    BY <2>4 DEF WakeGone, WakeThrows, records, HealthAccurate
  <2>5. CASE WakeRetry(c)
    BY <2>5, SendKeepsHealth DEF WakeRetry
  <2> QED
    BY <1>7, <2>1, <2>2, <2>3, <2>4, <2>5 DEF Progress
<1> QED
  BY <1>2, <1>3, <1>4, <1>5, <1>6, <1>7 DEF Next

(* A call about one delivery leaves the others alone, and a retry by hand   *)
(* is about one that counts as disturbed.                                   *)
LEMMA CourseOfOne ==
    ASSUME DInv, ByHand, Course, NEW c \in Calls, NEW p \in {"fetch", "sleep", "done"},
           pc' = [pc EXCEPT ![c] = p], target' = target,
           disturbed \subseteq disturbed',
           c \in Retries => target[c] \in disturbed',
           \A d \in Deliveries \ {target[c]} :
              /\ status'[d] = status[d] /\ (d \in acked' <=> d \in acked)
              /\ d \in payloads => d \in payloads',
           c \in Deliveries /\ c \notin disturbed' /\ status'[c] # "none" => Undisturbed(c)'
    PROVE  ByHand' /\ Course'
<1>1. ByHand'
  BY DEF ByHand, DInv, Types, Calls
<1>2. ASSUME NEW d \in Deliveries \ disturbed', status'[d] # "none" PROVE Undisturbed(d)'
  <2>1. CASE d = c
    BY <1>2, <2>1
  <2>2. CASE d # c
    <3>1. d # target[c]
      <4>1. CASE c \in Retries
        BY <1>2, <4>1
      <4>2. CASE c \in Deliveries
        BY <2>2, <4>2 DEF DInv, Types
      <4> QED
        BY <4>1, <4>2 DEF Calls
    <3>2. d \in Calls /\ pc'[d] = pc[d]
      BY <2>2, CallsOf DEF DInv, Types
    <3>3. status'[d] = status[d] /\ (d \in acked' <=> d \in acked)
          /\ (d \in payloads => d \in payloads')
      BY <3>1
    <3>4. Undisturbed(d)
      BY <1>2, <3>3 DEF Course
    <3> QED
      BY <3>2, <3>3, <3>4 DEF Undisturbed
  <2> QED
    BY <2>1, <2>2
<1> QED
  BY <1>1, <1>2 DEF Course

LEMMA CourseProgress ==
    ASSUME OInv, NEW c \in Calls, Progress(c)
    PROVE  ByHand' /\ Course'
<1> DEFINE t == target[c]
<1>0. DInv /\ ByHand /\ Course /\ t \in Deliveries
      /\ (c \in Retries /\ pc[c] # "idle" => t \in disturbed)
      /\ (c \in Deliveries => t = c)
      /\ status \in [Deliveries -> {"none", "delivering", "failed", "success", "exhausted"}]
      /\ pc \in [Calls -> {"idle", "fetch", "sleep", "done"}]
  BY DEF OInv, DInv, Types, ByHand
<1> HIDE DEF t
<1>1. CASE Delivered(c)
  <2>1. /\ pc[c] = "fetch" /\ pc' = [pc EXCEPT ![c] = "done"] /\ target' = target
        /\ disturbed' = disturbed /\ acked' = acked \cup {t} /\ payloads' = payloads \ {t}
        /\ status' = IF status[t] = "none" THEN status ELSE [status EXCEPT ![t] = "success"]
    BY <1>1 DEF Delivered, UpdateDeliveryStatus, t
  <2>2. c \in Deliveries /\ status'[c] # "none" => Undisturbed(c)'
    BY <1>0, <2>1 DEF Undisturbed
  <2> QED
    BY <1>0, <2>1, <2>2, CourseOfOne DEF t
<1>2. ASSUME NEW stack, pc[c] = "fetch", ScheduleRetry(c, stack) PROVE ByHand' /\ Course'
  <2>1. /\ pc' = [pc EXCEPT ![c] = "sleep"] /\ UNCHANGED <<target, payloads, acked, disturbed>>
        /\ status' = IF status[t] = "none" THEN status ELSE [status EXCEPT ![t] = "failed"]
    BY <1>2 DEF ScheduleRetry, UpdateDeliveryStatus, history, t
  <2>2. c \in Deliveries /\ c \notin disturbed /\ status'[c] # "none" => Undisturbed(c)'
    BY <1>0, <1>2, <2>1 DEF Undisturbed, Course
  <2> QED
    BY <1>0, <1>2, <2>1, <2>2, CourseOfOne DEF t
<1>3. ASSUME NEW stack, pc[c] = "fetch", Exhaust(c, stack) PROVE ByHand' /\ Course'
  <2>1. /\ pc' = [pc EXCEPT ![c] = "done"] /\ UNCHANGED <<target, acked, disturbed>>
        /\ payloads' = payloads \ {t}
        /\ status' = IF status[t] = "none" THEN status ELSE [status EXCEPT ![t] = "exhausted"]
    BY <1>3 DEF Exhaust, UpdateDeliveryStatus, history, t
  <2>2. c \in Deliveries /\ c \notin disturbed /\ status'[c] # "none" => Undisturbed(c)'
    BY <1>0, <1>3, <2>1 DEF Undisturbed, Course
  <2> QED
    BY <1>0, <1>3, <2>1, <2>2, CourseOfOne DEF t
<1>4. CASE \E where \in {"try", "catch"} : RequestFails(c, where)
  BY <1>2, <1>3, <1>4 DEF RequestFails
<1>5. CASE WakeGone(c)
  <2>1. /\ pc[c] = "sleep" /\ pc' = [pc EXCEPT ![c] = "done"]
        /\ UNCHANGED <<target, acked, disturbed, payloads, status>> /\ status[t] = "none"
    BY <1>5 DEF WakeGone, records, history, t
  <2> QED
    BY <1>0, <2>1, CourseOfOne DEF t
<1>6. CASE WakeRetry(c)
  <2>1. /\ pc[c] = "sleep" /\ pc' = [pc EXCEPT ![c] = "fetch"]
        /\ UNCHANGED <<target, acked, disturbed, payloads>> /\ status[t] # "none"
        /\ status' = [status EXCEPT ![t] = "delivering"]
    BY <1>6 DEF WakeRetry, SendHttpRequest, history, t
  <2>2. c \in Deliveries /\ c \notin disturbed => Undisturbed(c)'
    BY <1>0, <2>1 DEF Undisturbed, Course
  <2> QED
    BY <1>0, <2>1, <2>2, CourseOfOne DEF t
(* Its record says failed and its body is kept, so no retry is refused. *)
<1>7. CASE pc[c] = "sleep" /\ status[t] # "none" /\ Refused(t)
  <2>1. ~(c \in Deliveries /\ c \notin disturbed)
    BY <1>0, <1>7 DEF Course, Undisturbed, Refused
  <2>2. CASE WakeCaught(c)
    <3>1. /\ pc' = [pc EXCEPT ![c] = "sleep"] /\ UNCHANGED <<target, payloads, acked, disturbed>>
          /\ status' = IF status[t] = "none" THEN status ELSE [status EXCEPT ![t] = "failed"]
      BY <2>2 DEF WakeCaught, ScheduleRetry, UpdateDeliveryStatus, history, t
    <3> QED
      BY <1>0, <1>7, <2>1, <3>1, CourseOfOne DEF t
  <2>3. CASE WakeThrows(c)
    <3>1. /\ pc' = [pc EXCEPT ![c] = "done"]
          /\ UNCHANGED <<target, payloads, acked, disturbed, status>>
      BY <2>3 DEF WakeThrows, records, history
    <3> QED
      BY <1>0, <1>7, <2>1, <3>1, CourseOfOne DEF t
  <2>4. CASE ~WakeCaught(c) /\ ~WakeThrows(c)
    BY <1>1, <1>4, <1>5, <1>6, <2>4 DEF Progress
  <2> QED
    BY <2>2, <2>3, <2>4
<1>8. WakeCaught(c) \/ WakeThrows(c) => pc[c] = "sleep" /\ status[t] # "none" /\ Refused(t)
  BY DEF WakeCaught, WakeThrows, t
<1> QED
  BY <1>1, <1>4, <1>5, <1>6, <1>7, <1>8 DEF Progress

LEMMA CourseStep ==
    ASSUME OInv, [Next]_vars
    PROVE  ByHand' /\ Course'
<1>0. DInv /\ ByHand /\ Course /\ Types
  BY DEF OInv, DInv
<1>1. CASE \E e \in {"enabled", "disabled"} : RegisterEndpoint(e) \/ UpdateEndpoint(e)
  BY <1>0, <1>1
  DEF RegisterEndpoint, UpdateEndpoint, records, history, ByHand, Course, Undisturbed
<1>2. CASE DeleteEndpoint
  BY <1>0, <1>2 DEF DeleteEndpoint, history, ByHand, Course
<1>3. CASE Clear
  BY <1>0, <1>3 DEF Clear, records, ByHand, Course, Undisturbed
<1>4. ASSUME NEW d \in Deliveries, Deliver(d) PROVE ByHand' /\ Course'
  <2>1. /\ d \in Calls /\ d \notin Retries /\ target[d] = d /\ d \notin acked
        /\ pc' = [pc EXCEPT ![d] = "fetch"] /\ status' = [status EXCEPT ![d] = "delivering"]
        /\ UNCHANGED <<target, acked, disturbed>> /\ payloads' = payloads \cup {d}
    BY <1>0, <1>4, CallsOf, DeliveryConstants
    DEF Deliver, SendHttpRequest, history, Types, DInv, Begun
  <2>2. Undisturbed(d)'
    BY <1>0, <2>1 DEF Undisturbed, Types
  <2> QED
    BY <1>0, <2>1, <2>2, CourseOfOne DEF Types
<1>5. ASSUME NEW r \in Retries, RetryDelivery(r) PROVE ByHand' /\ Course'
  <2>1. /\ r \in Calls /\ r \notin Deliveries /\ target[r] \in Deliveries
        /\ pc' = [pc EXCEPT ![r] = "fetch"]
        /\ status' = [status EXCEPT ![target[r]] = "delivering"]
        /\ UNCHANGED <<target, acked, payloads>> /\ disturbed' = disturbed \cup {target[r]}
    BY <1>0, <1>5, DeliveryConstants DEF RetryDelivery, SendHttpRequest, Types, Calls
  <2> QED
    BY <1>0, <2>1, CourseOfOne DEF Types
<1>6. CASE UNCHANGED vars
  BY <1>0, <1>6 DEF vars, records, history, ByHand, Course, Undisturbed
<1> QED
  BY <1>1, <1>2, <1>3, <1>4, <1>5, <1>6, CourseProgress DEF Next

LEMMA StepOInv == OInv /\ [Next]_vars => OInv'
BY StepDInv, HealthStep, CourseStep DEF OInv

(* The counts kept for an endpoint are those of the deliveries it has       *)
(* (webhooks.ts:1021-1043), however deliver and retryDelivery calls overlap *)
(* and whichever of their outcomes is stored last.                          *)
THEOREM HealthIsAccurate == Spec => []HealthAccurate
<1>1. OInv => HealthAccurate
  BY DEF OInv
<1> QED
  BY InitOInv, StepOInv, <1>1, PTL DEF Spec

(* A delivery left to its deliver call is shown as a success exactly if the *)
(* receiver acknowledged it, and ends as success or exhausted, for any      *)
(* limit on retries and whatever happens to other deliveries.               *)
THEOREM OutcomesAreTrue == Spec => []OutcomeIsTrue
<1>1. OInv => OutcomeIsTrue
  <2> SUFFICES ASSUME OInv, NEW d \in Deliveries \ disturbed, status[d] # "none"
               PROVE  /\ status[d] = "success" <=> d \in acked
                      /\ pc[d] = "done" => status[d] \in {"success", "exhausted"}
    BY DEF OutcomeIsTrue
  <2>1. Undisturbed(d)
    BY DEF OInv, Course
  <2>2. pc[d] \in {"fetch", "sleep", "done"}
    BY CallsOf DEF OInv, DInv, Types, Begun
  <2> QED
    BY <2>1, <2>2 DEF Undisturbed
<1> QED
  BY InitOInv, StepOInv, <1>1, PTL DEF Spec
==============================================================================
