--------------------------- MODULE WebhookDelivery ---------------------------
(***************************************************************************)
(* The endpoint half of src/src/modules/webhooks.ts: registerEndpoint,     *)
(* deliver, retryDelivery and the retries of sendHttpRequest.  Deliveries  *)
(* of different endpoints share nothing, so there is one endpoint.         *)
(*                                                                         *)
(* A retry is a nested call: sendHttpRequest awaits scheduleRetry, which   *)
(* awaits retryDelivery, which awaits sendHttpRequest.  A call therefore   *)
(* has a stack of frames.  A frame awaits its retry inside its try block   *)
(* (after an answer that is not 2xx) or inside its catch block; an error   *)
(* thrown by the retry is caught by the innermost frame still in its try.  *)
(* A frame keeps the retryCount its delivery object had when it began:     *)
(* updateDeliveryStatus replaces the object in the map.                    *)
(***************************************************************************)
EXTENDS Naturals, Sequences, FiniteSets, FiniteSetsExt

CONSTANTS
    Deliveries,  \* deliveries, each named like the deliver call making it
    Retries,     \* retryDelivery calls of the application
    MaxRetry     \* the 3 of "delivery.retryCount < 3"

ASSUME DeliveryConstants ==
    /\ MaxRetry \in Nat
    /\ IsFiniteSet(Deliveries)
    /\ Deliveries \cap Retries = {}

Calls == Deliveries \cup Retries

VARIABLES
    endpoint,    \* "none", "enabled", "disabled" or "deleted"
    health,      \* totalDeliveries and successfulDeliveries in healthCache
    status,      \* status of each record in deliveries; "none" is no record
    retryCount,  \* retryCount of each record
    payloads,    \* deliveries whose body is kept
    pc,          \* where each call is
    target,      \* the delivery it is about
    frames,      \* its active sendHttpRequest frames, outermost first
    acked,       \* deliveries answered with a 2xx (history)
    requests,    \* requests each call has sent (history)
    disturbed    \* deliveries retried by hand or cleared (history)

records == <<health, status, retryCount>>
history == <<acked, disturbed>>
vars    == <<endpoint, records, payloads, pc, target, frames, requests, history>>

Init ==
    /\ endpoint = "none"
    /\ health = [total |-> 0, successful |-> 0]
    /\ status = [d \in Deliveries |-> "none"]
    /\ retryCount = [d \in Deliveries |-> 0]
    /\ payloads = {}
    /\ pc = [c \in Calls |-> "idle"]
    /\ target \in [Calls -> Deliveries]
    /\ \A d \in Deliveries : target[d] = d
    /\ frames = [c \in Calls |-> <<>>]
    /\ acked = {}
    /\ requests = [c \in Calls |-> 0]
    /\ disturbed = {}

-----------------------------------------------------------------------------
RegisterEndpoint(e) ==
    /\ endpoint = "none"
    /\ endpoint' = e
    /\ UNCHANGED <<records, payloads, pc, target, frames, requests, history>>

(* updateEndpoint: requests under way are not affected. *)
UpdateEndpoint(e) ==
    /\ endpoint \in {"enabled", "disabled"}
    /\ endpoint' = e
    /\ UNCHANGED <<records, payloads, pc, target, frames, requests, history>>

(* deleteEndpoint: records and health go, the bodies stay. *)
DeleteEndpoint ==
    /\ endpoint \in {"enabled", "disabled"}
    /\ endpoint' = "deleted"
    /\ status' = [d \in Deliveries |-> "none"]
    /\ UNCHANGED <<health, retryCount, payloads, pc, target, frames, requests,
                   history>>

(* clear: every body goes, the records stay. *)
Clear ==
    /\ payloads # {}
    /\ payloads' = {}
    /\ disturbed' = disturbed \cup payloads
    /\ UNCHANGED <<endpoint, records, pc, target, frames, requests, acked>>

-----------------------------------------------------------------------------
(* recordDeliveryAttempt: the counts of an endpoint that still exists. *)
Health(st) ==
    [total      |-> Cardinality({d \in Deliveries : st[d] # "none"}),
     successful |-> Cardinality({d \in Deliveries : st[d] = "success"})]

(* Mutant: the counts are taken before the new status is stored. *)
RecordDeliveryAttempt_Before ==
    health' = IF endpoint = "deleted" THEN health ELSE Health(status)

RecordDeliveryAttempt ==
    health' = IF endpoint = "deleted" THEN health ELSE Health(status')

(* Mutant: the record is written whether or not it still exists. *)
UpdateDeliveryStatus_Recreates(d, s, failures) ==
    /\ status' = [status EXCEPT ![d] = s]
    /\ retryCount' = [retryCount EXCEPT ![d] = @ + failures]

(* updateDeliveryStatus: failed and exhausted each count one failure more. *)
UpdateDeliveryStatus(d, s, failures) ==
    IF status[d] = "none" THEN UNCHANGED <<status, retryCount>>
    ELSE /\ status' = [status EXCEPT ![d] = s]
         /\ retryCount' = [retryCount EXCEPT ![d] = @ + failures]

(* retryDelivery takes the delivery from the map. *)
CountRead(c) == retryCount[target[c]]

(* sendHttpRequest up to its fetch. *)
SendHttpRequest(c) ==
    /\ pc' = [pc EXCEPT ![c] = "fetch"]
    /\ frames' = [frames EXCEPT ![c] =
                     Append(@, [rc |-> CountRead(c), in |-> "try"])]
    /\ requests' = [requests EXCEPT ![c] = @ + 1]
    /\ status' = [status EXCEPT ![target[c]] = "delivering"]

(* deliver: the record is new, with retryCount 0. *)
Deliver(d) ==
    /\ pc[d] = "idle"
    /\ endpoint = "enabled"
    /\ SendHttpRequest(d)
    /\ payloads' = payloads \cup {d}
    /\ RecordDeliveryAttempt
    /\ UNCHANGED <<endpoint, retryCount, target, history>>

(* What retryDelivery refuses with a ValidationError. *)
Refused(d) == status[d] \in {"success", "exhausted"} \/ d \notin payloads

(* retryDelivery called by the application; a refused one changes nothing. *)
RetryDelivery(r) ==
    /\ pc[r] = "idle"
    /\ status[target[r]] # "none" /\ ~Refused(target[r])
    /\ SendHttpRequest(r)
    /\ disturbed' = disturbed \cup {target[r]}
    /\ UNCHANGED <<endpoint, health, retryCount, payloads, target, acked>>

-----------------------------------------------------------------------------
(* Mutant: an acknowledged delivery keeps its body. *)
Delivered_KeepsPayload(c) ==
    /\ pc[c] = "fetch"
    /\ UpdateDeliveryStatus(target[c], "success", 0)
    /\ RecordDeliveryAttempt
    /\ pc' = [pc EXCEPT ![c] = "done"]
    /\ frames' = [frames EXCEPT ![c] = <<>>]
    /\ acked' = acked \cup {target[c]}
    /\ UNCHANGED <<endpoint, payloads, target, requests, disturbed>>

(* The endpoint answers 2xx: every frame returns. *)
Delivered(c) ==
    /\ pc[c] = "fetch"
    /\ UpdateDeliveryStatus(target[c], "success", 0)
    /\ RecordDeliveryAttempt
    /\ payloads' = payloads \ {target[c]}
    /\ pc' = [pc EXCEPT ![c] = "done"]
    /\ frames' = [frames EXCEPT ![c] = <<>>]
    /\ acked' = acked \cup {target[c]}
    /\ UNCHANGED <<endpoint, target, requests, disturbed>>

WillRetry(frame) == frame.rc < MaxRetry

(* The frame on top of the stack has failed and sleeps before its retry. *)
ScheduleRetry(c, stack) ==
    /\ WillRetry(stack[Len(stack)])
    /\ UpdateDeliveryStatus(target[c], "failed", 1)
    /\ RecordDeliveryAttempt
    /\ pc' = [pc EXCEPT ![c] = "sleep"]
    /\ frames' = [frames EXCEPT ![c] = stack]
    /\ UNCHANGED <<endpoint, payloads, target, requests, history>>

(* Mutant: the last failure leaves the delivery failed. *)
Exhaust_StaysFailed(c, stack) ==
    /\ ~WillRetry(stack[Len(stack)])
    /\ UpdateDeliveryStatus(target[c], "failed", 1)
    /\ RecordDeliveryAttempt
    /\ payloads' = payloads \ {target[c]}
    /\ pc' = [pc EXCEPT ![c] = "done"]
    /\ frames' = [frames EXCEPT ![c] = <<>>]
    /\ UNCHANGED <<endpoint, target, requests, history>>

(* It has failed too often: failed, then exhausted; every frame returns. *)
Exhaust(c, stack) ==
    /\ ~WillRetry(stack[Len(stack)])
    /\ UpdateDeliveryStatus(target[c], "exhausted", 2)
    /\ RecordDeliveryAttempt
    /\ payloads' = payloads \ {target[c]}
    /\ pc' = [pc EXCEPT ![c] = "done"]
    /\ frames' = [frames EXCEPT ![c] = <<>>]
    /\ UNCHANGED <<endpoint, target, requests, history>>

(* Another answer leaves the frame in its try; an error or a timeout moves *)
(* it to its catch.                                                        *)
Waiting(c, where) == [frames[c] EXCEPT ![Len(frames[c])].in = where]

RequestFails(c, where) ==
    /\ pc[c] = "fetch"
    /\ ScheduleRetry(c, Waiting(c, where)) \/ Exhaust(c, Waiting(c, where))

-----------------------------------------------------------------------------
(* Mutant: a retry whose record is gone is scheduled again. *)
WakeGone_Waits(c) ==
    /\ pc[c] = "sleep"
    /\ status[target[c]] = "none"
    /\ UNCHANGED vars

(* The backoff ends and the record is gone: every frame returns. *)
WakeGone(c) ==
    /\ pc[c] = "sleep"
    /\ status[target[c]] = "none"
    /\ pc' = [pc EXCEPT ![c] = "done"]
    /\ frames' = [frames EXCEPT ![c] = <<>>]
    /\ UNCHANGED <<endpoint, records, payloads, target, requests, history>>

WakeRetry(c) ==
    /\ pc[c] = "sleep"
    /\ status[target[c]] # "none" /\ ~Refused(target[c])
    /\ SendHttpRequest(c)
    /\ UNCHANGED <<endpoint, health, retryCount, payloads, target, history>>

TryFrames(c) == {i \in DOMAIN frames[c] : frames[c][i].in = "try"}

(* The stack once the innermost frame in its try has caught the error. *)
Unwound(c) ==
    LET i == Max(TryFrames(c))
    IN  [SubSeq(frames[c], 1, i) EXCEPT ![i].in = "catch"]

(* retryDelivery throws and a frame catches it: one more failed attempt.   *)
(* That frame scheduled a retry before, so its count still allows one.     *)
WakeCaught(c) ==
    /\ pc[c] = "sleep"
    /\ status[target[c]] # "none" /\ Refused(target[c])
    /\ TryFrames(c) # {}
    /\ ScheduleRetry(c, Unwound(c))

(* No frame is left in its try: the call rejects. *)
WakeThrows(c) ==
    /\ pc[c] = "sleep"
    /\ status[target[c]] # "none" /\ Refused(target[c])
    /\ TryFrames(c) = {}
    /\ pc' = [pc EXCEPT ![c] = "done"]
    /\ frames' = [frames EXCEPT ![c] = <<>>]
    /\ UNCHANGED <<endpoint, records, payloads, target, requests, history>>

Progress(c) ==
    \/ Delivered(c) \/ \E where \in {"try", "catch"} : RequestFails(c, where)
    \/ WakeGone(c) \/ WakeRetry(c) \/ WakeCaught(c) \/ WakeThrows(c)

Next ==
    \/ \E e \in {"enabled", "disabled"} : RegisterEndpoint(e) \/ UpdateEndpoint(e)
    \/ DeleteEndpoint \/ Clear
    \/ \E d \in Deliveries : Deliver(d)
    \/ \E r \in Retries : RetryDelivery(r)
    \/ \E c \in Calls : Progress(c)

Spec == Init /\ [][Next]_vars

(* A fetch ends, by AbortSignal.timeout at the latest, and so does a sleep. *)
FairSpec == Spec /\ \A c \in Calls : WF_vars(Progress(c))

-----------------------------------------------------------------------------
TypeOK ==
    /\ endpoint \in {"none", "enabled", "disabled", "deleted"}
    /\ health \in [total : Nat, successful : Nat]
    /\ status \in [Deliveries ->
           {"none", "delivering", "failed", "success", "exhausted"}]
    /\ retryCount \in [Deliveries -> Nat]
    /\ payloads \subseteq Deliveries
    /\ pc \in [Calls -> {"idle", "fetch", "sleep", "done"}]
    /\ target \in [Calls -> Deliveries]
    /\ frames \in [Calls -> Seq([rc : Nat, in : {"try", "catch"}])]
    /\ \A c \in Calls : Len(frames[c]) <= MaxRetry + 1
    /\ requests \in [Calls -> Nat]
    /\ acked \subseteq Deliveries /\ disturbed \subseteq Deliveries

(* webhooks.ts:132-141, 957-960: once the receiver has acknowledged a      *)
(* delivery no call sends it again, although an overlapping call may since *)
(* have marked it failed and catches the refusal of its own retry.         *)
NotSentOnceAcked ==
    [][\A c \in Calls : requests'[c] > requests[c] => target[c] \notin acked]_vars

(* webhooks.ts:1021-1043: the health shown of an endpoint counts exactly   *)
(* the deliveries it has now, even when a late failure overwrites success. *)
HealthAccurate == endpoint # "deleted" => health = Health(status)

(* webhooks.ts:102-107, 1008-1009: calls still under way when an endpoint  *)
(* is deleted bring none of its delivery records back.                     *)
DeletedStaysDeleted ==
    endpoint = "deleted" => \A d \in Deliveries : status[d] = "none"

(* A delivery that nobody retried by hand or cleared is shown as a success *)
(* exactly if it was acknowledged, and ends as success or exhausted.       *)
OutcomeIsTrue ==
    \A d \in Deliveries \ disturbed :
        status[d] # "none" =>
            /\ status[d] = "success" <=> d \in acked
            /\ pc[d] = "done" => status[d] \in {"success", "exhausted"}

(* deliver and retryDelivery settle, caught errors included. *)
EveryCallEnds == \A c \in Calls : pc[c] # "idle" ~> pc[c] = "done"
==============================================================================
