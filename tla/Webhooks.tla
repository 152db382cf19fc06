------------------------------ MODULE Webhooks ------------------------------
(***************************************************************************)
(* The webhook registry of src/src/modules/webhooks.ts: registerWebhook,   *)
(* updateWebhook, sendWebhook with its retries, verifyWebhook, and the     *)
(* manual and automatic disabling.  Ids are never reused and webhooks      *)
(* share nothing, so the module follows one webhook through its life.      *)
(*                                                                         *)
(* sendWebhook and verifyWebhook keep, across their awaits, references to  *)
(* the stored record and its state.  updateWebhook replaces the record by  *)
(* a copy: version names the copy the map holds, and a handshake that      *)
(* began with an older one writes to an object nobody reads any more.      *)
(***************************************************************************)
EXTENDS Naturals, Sequences

CONSTANTS
    Sends,            \* sendWebhook calls
    Checks,           \* verifyWebhook calls
    Urls,             \* endpoints the webhook may point to
    MaxRetries,       \* options.maxRetries (3 by default)
    Threshold,        \* WEBHOOK_DISABLE_FAILURE_THRESHOLD (5)
    HistoryCapacity,  \* WEBHOOK_HISTORY_CAPACITY (500)
    MaxUpdates        \* bound: updateWebhook calls

ASSUME WebhookConstants ==
    /\ MaxRetries \in Nat /\ MaxUpdates \in Nat
    /\ Threshold \in Nat \ {0} /\ HistoryCapacity \in Nat
    /\ Threshold <= HistoryCapacity

VARIABLES
    life,      \* "none", "live" or "deleted"
    url,       \* stored.url
    verified,  \* stored.verified of the record in the map
    version,   \* which copy of the record is in the map
    target,    \* number of url changes so far (history)
    failures,  \* state.consecutiveFailures
    disabled,  \* "no", or disabledReason: "manual", "auto"
    history,   \* outcomes recorded, oldest first
    spc,       \* where each sendWebhook call is
    attempt,   \* its attempt counter
    vpc,       \* where each verifyWebhook call is, then how it ended
    held,      \* version of the record a handshake holds
    aim        \* target when the handshake began (history)

recVars   == <<life, url, verified, version, target>>
stateVars == <<failures, disabled, history>>
sendVars  == <<spc, attempt>>
checkVars == <<vpc, held, aim>>
vars      == <<recVars, stateVars, sendVars, checkVars>>

Init ==
    /\ life = "none"
    /\ url \in Urls
    /\ verified = FALSE /\ version = 0 /\ target = 0
    /\ failures = 0 /\ disabled = "no" /\ history = <<>>
    /\ spc = [s \in Sends |-> "idle"]
    /\ attempt = [s \in Sends |-> 0]
    /\ vpc = [v \in Checks |-> "idle"]
    /\ held = [v \in Checks |-> 0]
    /\ aim = [v \in Checks |-> 0]

-----------------------------------------------------------------------------
(* registerWebhook: local, so nothing is verified yet. *)
RegisterWebhook(u) ==
    /\ life = "none"
    /\ life' = "live"
    /\ url' = u
    /\ UNCHANGED <<verified, version, target, stateVars, sendVars, checkVars>>

(* Mutant: a manual disable is reversed like an automatic one. *)
ResetFailureState_Any ==
    /\ failures' = 0
    /\ disabled' = "no"

(* resetFailureState: only automatic disables are reversed. *)
ResetFailureState ==
    /\ failures' = 0
    /\ disabled' = IF disabled = "auto" THEN "no" ELSE disabled

(* updateWebhook with another url: the copy starts unverified. *)
UpdateUrl(u) ==
    /\ life = "live" /\ version < MaxUpdates
    /\ u # url
    /\ url' = u
    /\ verified' = FALSE
    /\ version' = version + 1
    /\ target' = target + 1
    /\ ResetFailureState
    /\ UNCHANGED <<life, history, sendVars, checkVars>>

(* updateWebhook with other events or another secret: a copy all the same. *)
UpdateOther ==
    /\ life = "live" /\ version < MaxUpdates
    /\ version' = version + 1
    /\ UNCHANGED <<life, url, verified, target, stateVars, sendVars, checkVars>>

-----------------------------------------------------------------------------
(* sendWebhook: refused while disabled; a call for an event that is not    *)
(* subscribed returns without a trace.                                     *)
SendWebhook(s) ==
    /\ spc[s] = "idle"
    /\ life = "live" /\ disabled = "no"
    /\ spc' = [spc EXCEPT ![s] = "request"]
    /\ UNCHANGED <<recVars, stateVars, attempt, checkVars>>

(* What an attempt can end with: throttled is a 408 or 429. *)
Failure == {"network", "server", "throttled", "client"}

ShouldRetry(s, o) ==
    o \in {"network", "server", "throttled"} /\ attempt[s] < MaxRetries

(* classifyOutcome *)
Classify(o) == IF o = "throttled" THEN "client" ELSE o

Counted == {"network", "server"}

(* recordTerminal: the newest HistoryCapacity outcomes. *)
Recorded(o) == Append(IF Len(history) < HistoryCapacity THEN history
                                                        ELSE Tail(history), o)

(* Mutant: a success does not end the run of failures. *)
RecordOutcome_NoReset(o) ==
    /\ history' = Recorded(o)
    /\ failures' = IF o \in Counted THEN failures + 1 ELSE failures
    /\ disabled' = IF failures' >= Threshold /\ disabled = "no"
                   THEN "auto" ELSE disabled

(* recordOutcome, on the state the call has held since it began. *)
RecordOutcome(o) ==
    /\ history' = Recorded(o)
    /\ failures' = IF o \in Counted THEN failures + 1 ELSE 0
    /\ disabled' = IF failures' >= Threshold /\ disabled = "no"
                   THEN "auto" ELSE disabled

(* The last attempt of call s ended with o. *)
SendEnds(s, o) ==
    /\ spc' = [spc EXCEPT ![s] = "done"]
    /\ RecordOutcome(o)
    /\ UNCHANGED <<recVars, attempt, checkVars>>

Delivered(s) ==
    /\ spc[s] = "request"
    /\ SendEnds(s, "success")

AttemptFails(s, o) ==
    /\ spc[s] = "request"
    /\ ~ShouldRetry(s, o)
    /\ SendEnds(s, Classify(o))

BackOff(s, o) ==
    /\ spc[s] = "request"
    /\ ShouldRetry(s, o)
    /\ spc' = [spc EXCEPT ![s] = "sleep"]
    /\ UNCHANGED <<recVars, stateVars, attempt, checkVars>>

(* The retry is sent whether or not the webhook has been disabled, moved   *)
(* or deleted meanwhile.                                                   *)
NextAttempt(s) ==
    /\ spc[s] = "sleep"
    /\ spc' = [spc EXCEPT ![s] = "request"]
    /\ attempt' = [attempt EXCEPT ![s] = @ + 1]
    /\ UNCHANGED <<recVars, stateVars, checkVars>>

-----------------------------------------------------------------------------
(* verifyWebhook *)
VerifyWebhook(v) ==
    /\ vpc[v] = "idle"
    /\ life = "live"
    /\ vpc' = [vpc EXCEPT ![v] = "request"]
    /\ held' = [held EXCEPT ![v] = version]
    /\ aim' = [aim EXCEPT ![v] = target]
    /\ UNCHANGED <<recVars, stateVars, sendVars>>

(* Mutant: the flag is set on whatever record the map holds by now. *)
SetVerified_Reread(v, ok) == verified' = ok

(* setVerified, on the record the handshake holds. *)
SetVerified(v, ok) == verified' = IF held[v] = version THEN ok ELSE verified

(* The endpoint answers with or without a 2xx, or the request fails. *)
HandshakeEnds(v, ok) ==
    /\ vpc[v] = "request"
    /\ vpc' = [vpc EXCEPT ![v] = IF ok THEN "passed" ELSE "failed"]
    /\ SetVerified(v, ok)
    /\ UNCHANGED <<life, url, version, target, stateVars, sendVars, held, aim>>

-----------------------------------------------------------------------------
(* disableWebhook; on a webhook that is disabled already it does nothing. *)
DisableWebhook ==
    /\ life = "live" /\ disabled = "no"
    /\ disabled' = "manual"
    /\ UNCHANGED <<recVars, failures, history, sendVars, checkVars>>

EnableWebhook ==
    /\ life = "live"
    /\ disabled' = "no"
    /\ failures' = 0
    /\ UNCHANGED <<recVars, history, sendVars, checkVars>>

(* deleteWebhook, or clear. *)
DeleteWebhook ==
    /\ life = "live"
    /\ life' = "deleted"
    /\ UNCHANGED <<url, verified, version, target, stateVars, sendVars,
                   checkVars>>

SendStep(s) ==
    \/ Delivered(s) \/ NextAttempt(s)
    \/ \E o \in Failure : AttemptFails(s, o) \/ BackOff(s, o)

Next ==
    \/ \E u \in Urls : RegisterWebhook(u) \/ UpdateUrl(u)
    \/ UpdateOther \/ DisableWebhook \/ EnableWebhook \/ DeleteWebhook
    \/ \E s \in Sends : SendWebhook(s) \/ SendStep(s)
    \/ \E v \in Checks : VerifyWebhook(v)
                         \/ \E ok \in BOOLEAN : HandshakeEnds(v, ok)

Spec == Init /\ [][Next]_vars

-----------------------------------------------------------------------------
TypeOK ==
    /\ life \in {"none", "live", "deleted"}
    /\ url \in Urls
    /\ verified \in BOOLEAN
    /\ version \in 0..MaxUpdates /\ target \in 0..version
    /\ failures \in Nat
    /\ disabled \in {"no", "manual", "auto"}
    /\ history \in Seq({"success", "client"} \cup Counted)
    /\ Len(history) <= HistoryCapacity
    /\ spc \in [Sends -> {"idle", "request", "sleep", "done"}]
    /\ attempt \in [Sends -> 0..MaxRetries]
    /\ vpc \in [Checks -> {"idle", "request", "passed", "failed"}]
    /\ held \in [Checks -> 0..MaxUpdates]
    /\ aim \in [Checks -> 0..MaxUpdates]

(* webhooks.ts:251-253: "the previous handshake proves nothing about the   *)
(* new target".  A webhook is shown as verified only if a handshake that   *)
(* began after its last url change passed, however handshakes and updates  *)
(* overlap.                                                                *)
VerifiedIsEarned ==
    verified => \E v \in Checks : vpc[v] = "passed" /\ aim[v] = target

(* README.md:389: "Webhooks that fail 5 consecutive deliveries are         *)
(* auto-disabled".  At the moment a webhook is disabled automatically the  *)
(* last Threshold outcomes recorded are all counted failures, whatever     *)
(* deliveries, url changes and re-enabling overlapped.                     *)
AutoDisableEarned ==
    [][(disabled = "no" /\ disabled' = "auto") =>
          /\ Len(history') >= Threshold
          /\ \A i \in 0..(Threshold - 1) :
                history'[Len(history') - i] \in Counted]_vars

(* webhooks.ts:640-645: a manual disable is undone by enableWebhook and by *)
(* nothing else, neither a url change nor the deliveries still under way.  *)
ManualHolds ==
    [][disabled = "manual" => disabled' = "manual" \/ EnableWebhook]_vars

=============================================================================
