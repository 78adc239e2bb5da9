--------------------------- MODULE SubscriberAccess ---------------------------
(***************************************************************************)
(* How the network follows the status of a subscription: the outbox        *)
(* (core/services.py, core/tasks.py), the reconciliation of the RADIUS     *)
(* credential and the disconnect jobs (network/services.py), the access    *)
(* form and the authorization endpoint (network/views.py), the file of     *)
(* confirmed entitlements that the agent writes and the RADIUS daemon      *)
(* loads (deploy/network).                                                 *)
(*                                                                         *)
(* Billing and compliance change the status and publish an event in the    *)
(* same transaction.  Delivery reads the status of the moment, not of the  *)
(* event.  Subscriptions share none of this state, so one stands for each. *)
(*                                                                         *)
(* One step is one transaction, one remote effect, or one read whose value *)
(* is used in a later step.  The node has one executor (NodeExecutor).  A  *)
(* login is one step: it takes less than the seconds that lie between a    *)
(* status change and the look at the router.                               *)
(***************************************************************************)
EXTENDS Integers, FiniteSets

CONSTANTS
  Demo,         \* whether activation asks for no evidence (demo_mode)
  Forms,        \* forms the staff submits: "plain", "commissioning"
  Fallback,     \* whether the application may be out of the daemon's reach
  MaxAttempts,  \* attempts to deliver an event
  MaxEvents,    \* bound: events published, and with them status changes
  MaxSaves      \* bound: forms submitted

ASSUME AccessAssumption ==
  /\ Demo \in BOOLEAN /\ Fallback \in BOOLEAN
  /\ Forms \subseteq {"plain", "commissioning"}
  /\ MaxAttempts \in Nat \ {0} /\ MaxEvents \in Nat /\ MaxSaves \in Nat

VARIABLES
  sub,        \* Subscription.status
  flag,       \* network_disconnect_pending of its cancellation
  cred,       \* the RadiusCredential
  form,       \* a submitted form and the status it has read
  saves,
  event,      \* the OutboxEvent table
  job,        \* disconnect jobs by their key
  ex,         \* the local state of the executor
  straggler,  \* an entitlement file sent and not yet written by the agent
  file,       \* whether the written entitlements admit the subscriber
  loaded,     \* the same for those the daemon has loaded
  web,        \* whether the daemon reaches the application
  session,    \* how the subscriber's session was admitted, or "none"
  seen,       \* whether accounting has a recent session that it takes for open
  overtaken   \* the credential was saved after a status change it had not seen (history)

staffVars == <<form, saves, overtaken>>
executorVars == <<job, ex, straggler, file>>
nasVars == <<loaded, web, session, seen>>
vars == <<sub, flag, cred, event, staffVars, executorVars, nasVars>>

-----------------------------------------------------------------------------
Statuses == {"pending", "active", "suspended", "cancelled"}
Events == 1..MaxEvents

\* A disconnect job is unique for the status and revision it was queued at.
Keys == {"suspended", "cancelled"} \X (0..MaxEvents)
NoKey == <<"none", 0>>

Idle == [pc |-> "idle", key |-> NoKey, read |-> "none", snap |-> FALSE,
         verdict |-> "none"]
NoForm == [kind |-> "none", read |-> "none"]

\* Every row and process holds values of its type.
TypeOK ==
  /\ sub \in Statuses /\ flag \in {"none", "pending", "cleared"}
  /\ cred \in [configured : BOOLEAN, enabled : BOOLEAN, revision : 0..MaxEvents,
               commissioning : BOOLEAN, expiry : {"none", "ahead", "past"}]
  /\ form \in [kind : Forms \cup {"none", "granting"}, read : Statuses \cup {"none"}]
  /\ saves \in 0..MaxSaves
  /\ event \in [Events -> [status : {"absent", "waiting", "delivered"},
                           attempts : 0..MaxAttempts]]
  /\ job \in [Keys -> {"absent", "pending", "running", "succeeded", "failed"}]
  /\ ex \in [pc : {"idle", "look", "read", "write", "disconnect", "verify", "finish"},
             key : Keys \cup {NoKey}, read : Statuses \cup {"none"}, snap : BOOLEAN,
             verdict : {"none", "succeeded", "failed"}]
  /\ straggler \in SUBSET BOOLEAN /\ file \in BOOLEAN /\ loaded \in BOOLEAN
  /\ web \in BOOLEAN /\ session \in {"none", "web", "file"} /\ seen \in BOOLEAN
  /\ overtaken \in BOOLEAN

Init ==
  /\ sub = "pending" /\ flag = "none"
  /\ cred = [configured |-> FALSE, enabled |-> FALSE, revision |-> 0,
             commissioning |-> FALSE, expiry |-> "none"]
  /\ form = NoForm /\ saves = 0 /\ overtaken = FALSE
  /\ event = [e \in Events |-> [status |-> "absent", attempts |-> 0]]
  /\ job = [k \in Keys |-> "absent"]
  /\ ex = Idle /\ straggler = {} /\ file = FALSE
  /\ loaded = FALSE /\ web = TRUE /\ session = "none" /\ seen = FALSE

-----------------------------------------------------------------------------
(* Status changes, with the event each publishes.                          *)

\* The conditions radius_authorize and the entitlement snapshot share.
Admitted ==
  /\ cred.configured /\ cred.enabled /\ cred.expiry # "past"
  /\ \/ sub = "active"
     \/ sub = "pending" /\ cred.commissioning /\ cred.expiry = "ahead"

Published ==
  \E e \in Events :
    /\ event[e].status = "absent" /\ \A f \in Events : f < e => event[f].status # "absent"
    /\ event' = [event EXCEPT ![e].status = "waiting"]

\* activate_subscription, with require_installation_readiness: an enabled
\* credential and an open session in accounting.
Activate ==
  /\ sub = "pending" /\ Published
  /\ Demo \/ (cred.enabled /\ cred.expiry # "past" /\ seen)
  /\ sub' = "active"
  /\ UNCHANGED <<flag, cred, staffVars, executorVars, nasVars>>

\* apply_suspension, when nothing blocks it.
Suspend ==
  /\ sub = "active" /\ Published
  /\ sub' = "suspended"
  /\ UNCHANGED <<flag, cred, staffVars, executorVars, nasVars>>

\* _resume_nonpayment, called by every payment.
Resume ==
  /\ sub = "suspended" /\ Published
  /\ sub' = "active"
  /\ UNCHANGED <<flag, cred, staffVars, executorVars, nasVars>>

\* cancel_subscription.
Cancel ==
  /\ sub # "cancelled" /\ Published
  /\ sub' = "cancelled" /\ flag' = "pending"
  /\ UNCHANGED <<cred, staffVars, executorVars, nasVars>>

-----------------------------------------------------------------------------
(* The access form: the subscription is read with the form, the credential *)
(* is written afterwards and without the subscription's lock.              *)

FormRead(kind) ==
  /\ form = NoForm /\ saves < MaxSaves
  /\ kind = "commissioning" => sub = "pending"
  /\ form' = [kind |-> kind, read |-> sub]
  /\ saves' = saves + 1
  /\ UNCHANGED <<sub, flag, cred, overtaken, event, executorVars, nasVars>>

Unseen == form.read # sub

\* configure_subscription.
FormWrite ==
  /\ form.kind \in Forms
  /\ cred' = [configured |-> TRUE, enabled |-> form.read = "active",
              revision |-> cred.revision, commissioning |-> FALSE, expiry |-> "none"]
  /\ form' = IF form.kind = "commissioning" THEN [form EXCEPT !.kind = "granting"] ELSE NoForm
  /\ overtaken' = Unseen
  /\ UNCHANGED <<sub, flag, saves, event, executorVars, nasVars>>

\* For a commissioning the view saves the credential again.
Grant ==
  /\ form.kind = "granting"
  /\ cred' = [cred EXCEPT !.enabled = TRUE, !.commissioning = TRUE, !.expiry = "ahead"]
  /\ form' = NoForm
  /\ overtaken' = (overtaken \/ Unseen)
  /\ UNCHANGED <<sub, flag, saves, event, executorVars, nasVars>>

\* The two hours of a commissioning are over.
Expire ==
  /\ cred.expiry = "ahead"
  /\ cred' = [cred EXCEPT !.expiry = "past"]
  /\ UNCHANGED <<sub, flag, staffVars, event, executorVars, nasVars>>

-----------------------------------------------------------------------------
(* deliver_outbox, one event: one transaction with a savepoint.            *)

Deliverable(e) == event[e].status = "waiting" /\ event[e].attempts < MaxAttempts

Reconciled ==
  IF cred.enabled = (sub = "active") THEN cred
  ELSE [cred EXCEPT !.enabled = (sub = "active"), !.revision = @ + 1]

\* Faulty: the status is not part of the key.
KeyByRevision(revision) == <<"suspended", revision>>

Key(revision) == <<sub, revision>>

\* Faulty: only ever switches access off.
ReconcileOff ==
  /\ cred' = IF sub = "active" THEN cred ELSE Reconciled
  /\ job' = IF sub = "active" \/ job[Key(Reconciled.revision)] # "absent" THEN job
            ELSE [job EXCEPT ![Key(Reconciled.revision)] = "pending"]
  /\ overtaken' = FALSE

\* queue_subscription_sync.  A job whose key exists is left as it is.  It answers a
\* cancellation with "disconnect pending" in either case, so that deliver_outbox
\* never clears the flag itself.
Reconcile ==
  IF ~cred.configured THEN UNCHANGED <<cred, job, overtaken>> ELSE
  LET key == Key(Reconciled.revision) IN
  /\ cred' = Reconciled
  /\ job' = IF sub = "active" \/ job[key] # "absent" THEN job
            ELSE [job EXCEPT ![key] = "pending"]
  /\ overtaken' = FALSE

Deliver(e) ==
  /\ Deliverable(e)
  /\ event' = [event EXCEPT ![e] = [status |-> "delivered", attempts |-> @.attempts + 1]]
  /\ Reconcile
  /\ UNCHANGED <<sub, flag, form, saves, ex, straggler, file, nasVars>>

\* Faulty: marks the event before the handler, outside its savepoint.
DeliverFailsMarked(e) ==
  /\ Deliverable(e)
  /\ event' = [event EXCEPT ![e] = [status |-> "delivered", attempts |-> @.attempts + 1]]
  /\ UNCHANGED <<sub, flag, cred, staffVars, executorVars, nasVars>>

\* The handler fails and its savepoint is rolled back; only the attempt stays.
DeliverFails(e) ==
  /\ Deliverable(e)
  /\ event' = [event EXCEPT ![e].attempts = @ + 1]
  /\ UNCHANGED <<sub, flag, cred, staffVars, executorVars, nasVars>>

-----------------------------------------------------------------------------
(* The executor: the periodic snapshot and disconnect_job.                 *)

\* A session ends; accounting learns of it at once, late or never.
Ended == session' = "none" /\ seen' \in {seen, FALSE}

Goto(step) == ex' = [ex EXCEPT !.pc = step]

\* Faulty: a file written once is taken for up to date.
StartSyncOnce ==
  /\ ex.pc = "idle" /\ ~file
  /\ Goto("read")
  /\ UNCHANGED <<sub, flag, cred, staffVars, event, job, straggler, file, nasVars>>

StartSync ==
  /\ ex.pc = "idle"
  /\ Goto("read")
  /\ UNCHANGED <<sub, flag, cred, staffVars, event, job, straggler, file, nasVars>>

StartJob(k) ==
  /\ ex.pc = "idle" /\ job[k] = "pending"
  /\ job' = [job EXCEPT ![k] = "running"]
  /\ ex' = [Idle EXCEPT !.pc = "look", !.key = k]
  /\ UNCHANGED <<sub, flag, cred, staffVars, event, straggler, file, nasVars>>

\* Reads the credential with its subscription; a job for a status that is
\* gone ends at once.
Look ==
  /\ ex.pc = "look"
  /\ ex' = IF ex.key[1] = sub
           THEN [ex EXCEPT !.pc = "read", !.read = sub]
           ELSE [ex EXCEPT !.pc = "finish", !.verdict = "succeeded"]
  /\ UNCHANGED <<sub, flag, cred, staffVars, event, job, straggler, file, nasVars>>

\* _sync_confirmed_entitlements: one query ...
ReadEntitlements ==
  /\ ex.pc = "read"
  /\ ex' = [ex EXCEPT !.pc = "write", !.snap = Admitted]
  /\ UNCHANGED <<sub, flag, cred, staffVars, event, job, straggler, file, nasVars>>

\* ... and one request to the agent, which replaces the file.
WriteEntitlements ==
  /\ ex.pc = "write"
  /\ file' = ex.snap
  /\ ex' = IF ex.key = NoKey THEN Idle ELSE [ex EXCEPT !.pc = "disconnect"]
  /\ UNCHANGED <<sub, flag, cred, staffVars, event, job, straggler, nasVars>>

\* Every session the router shows is asked to end; an acknowledged one may
\* still be there two seconds later.
Disconnect ==
  /\ ex.pc = "disconnect"
  /\ Ended \/ UNCHANGED <<session, seen>>
  /\ Goto("verify")
  /\ UNCHANGED <<sub, flag, cred, staffVars, event, job, straggler, file, loaded, web>>

\* Faulty: takes the acknowledgement for the effect.
VerifyTrusting ==
  /\ ex.pc = "verify"
  /\ flag' = IF ex.read = "cancelled" THEN "cleared" ELSE flag
  /\ ex' = [ex EXCEPT !.pc = "finish", !.verdict = "succeeded"]
  /\ UNCHANGED <<sub, cred, staffVars, event, job, straggler, file, nasVars>>

\* The second look at the router, and the cancellation it completes.
Verify ==
  /\ ex.pc = "verify"
  /\ flag' = IF session = "none" /\ ex.read = "cancelled" THEN "cleared" ELSE flag
  /\ ex' = [ex EXCEPT !.pc = "finish",
                      !.verdict = IF session = "none" THEN "succeeded" ELSE "failed"]
  /\ UNCHANGED <<sub, cred, staffVars, event, job, straggler, file, nasVars>>

\* Any step may fail, or its process die and be recovered as failed; a file
\* already sent to the agent may be written all the same.
Fail ==
  /\ ex.pc \in {"look", "read", "write", "disconnect", "verify"}
  /\ straggler' \in IF ex.pc = "write" THEN {straggler, {ex.snap}} ELSE {straggler}
  /\ ex' = IF ex.key = NoKey THEN Idle ELSE [ex EXCEPT !.pc = "finish", !.verdict = "failed"]
  /\ UNCHANGED <<sub, flag, cred, staffVars, event, job, file, nasVars>>

StragglerWritten ==
  /\ straggler # {}
  /\ file' \in straggler /\ straggler' = {}
  /\ UNCHANGED <<sub, flag, cred, staffVars, event, job, ex, nasVars>>

Finish ==
  /\ ex.pc = "finish"
  /\ job' = [job EXCEPT ![ex.key] = ex.verdict]
  /\ ex' = Idle
  /\ UNCHANGED <<sub, flag, cred, staffVars, event, straggler, file, nasVars>>

\* retry_reviewed_job.
Retry(k) ==
  /\ job[k] = "failed" /\ ex.pc = "idle"
  /\ job' = [job EXCEPT ![k] = "pending"]
  /\ UNCHANGED <<sub, flag, cred, staffVars, event, ex, straggler, file, nasVars>>

-----------------------------------------------------------------------------
(* The daemon and the router.                                              *)

\* The daemon restarts with the new file.
Load ==
  /\ loaded # file
  /\ loaded' = file
  /\ UNCHANGED <<sub, flag, cred, staffVars, event, executorVars, web, session, seen>>

\* The application decides; only when it cannot be asked does the loaded file,
\* up to the expiry it carries (one that a later form replaced may be ahead).
Login ==
  /\ session = "none"
  /\ \/ web /\ Admitted /\ session' = "web"
     \/ ~web /\ loaded /\ cred.expiry # "past" /\ session' = "file"
  /\ seen' = TRUE
  /\ UNCHANGED <<sub, flag, cred, staffVars, event, executorVars, loaded, web>>

Hangup ==
  /\ session # "none" /\ Ended
  /\ UNCHANGED <<sub, flag, cred, staffVars, event, executorVars, loaded, web>>

Outage ==
  /\ Fallback
  /\ web' = ~web
  /\ UNCHANGED <<sub, flag, cred, staffVars, event, executorVars, loaded, session, seen>>

-----------------------------------------------------------------------------
Staff == \/ Activate \/ Suspend \/ Resume \/ Cancel
         \/ \E kind \in Forms : FormRead(kind)
         \/ FormWrite \/ Grant
         \/ \E k \in Keys : Retry(k)

\* The executor inside one snapshot or job.
Working == Look \/ ReadEntitlements \/ Disconnect \/ Verify \/ Finish

Next ==
  \/ Staff \/ Expire
  \/ \E e \in Events : Deliver(e) \/ DeliverFails(e)
  \/ StartSync \/ (\E k \in Keys : StartJob(k)) \/ Working \/ WriteEntitlements
  \/ Fail \/ StragglerWritten
  \/ Load \/ Login \/ Hangup \/ Outage

Spec == Init /\ [][Next]_vars

\* The outbox is delivered every 15 seconds.  Each turn of the loop takes a
\* snapshot when the last is ten seconds old; the agent may fail, not for ever.
\* Nothing is assumed of the disconnect jobs.  A submitted form is written, the
\* daemon polls its file.
Fairness ==
  /\ \A e \in Events : WF_vars(Deliver(e) \/ DeliverFails(e))
  /\ SF_vars(StartSync)
  /\ WF_vars(Working) /\ SF_vars(ReadEntitlements) /\ SF_vars(WriteEntitlements)
  /\ WF_vars(FormWrite \/ Grant) /\ WF_vars(StragglerWritten) /\ WF_vars(Load)

FairSpec == Spec /\ Fairness

-----------------------------------------------------------------------------
(* Safety.                                                                 *)

\* Nothing is on its way to the credential.
Delivered == form = NoForm /\ \A e \in Events : event[e].status # "waiting"

\* Nor to the router.
Quiet == Delivered /\ ex.pc = "idle" /\ \A k \in Keys : job[k] \notin {"pending", "running"}

\* When every event is delivered, in whatever order and after whatever failures,
\* the credential is enabled exactly for an active subscription, unless a form
\* was saved over a status change it had not seen.
EnabledFollows ==
  Delivered /\ cred.configured /\ sub # "pending" /\ ~overtaken
    => (cred.enabled <=> sub = "active")

\* The receipt of a cancellation says that the network was disconnected only
\* after the session that the application had admitted is gone for good.
CancelledIsTold == flag = "cleared" => sub = "cancelled" /\ session # "web"

\* When nothing is left to do, a cancelled subscriber is offline or a failed job
\* shows that it may not be: earlier suspensions do not swallow the cancellation.
CancellationTakesEffect ==
  Quiet /\ sub = "cancelled" /\ session = "web" => \E k \in Keys : job[k] = "failed"

\* The same of a suspension (docs/network.md: to suspend after a reactivation
\* creates a new job).
\* The code does not keep it (README, Disagreements).
SuspensionTakesEffect ==
  Quiet /\ sub = "suspended" /\ session = "web" => \E k \in Keys : job[k] = "failed"

\* An active subscription whose credential is in force is admitted: authorization
\* follows the confirmed status, without a second cutoff (network/views.py).
ActiveIsAuthorized ==
  Delivered /\ cred.configured /\ sub = "active" => Admitted

-----------------------------------------------------------------------------
(* Liveness.                                                               *)

GivenUp == \E e \in Events : event[e].status = "waiting" /\ event[e].attempts = MaxAttempts

\* Whoever becomes active is enabled in the end, whatever fails on the way, as
\* long as the outbox has not given an event up and no form has overtaken it.
ActiveIsEnabled ==
  sub = "active" /\ cred.configured
    ~> sub # "active" \/ cred.enabled \/ overtaken \/ form # NoForm \/ GivenUp

\* The entitlements of a cancelled subscriber disappear from the daemon and do not
\* come back, even when a file sent before is written late.
CacheForgets == sub = "cancelled" ~> []~loaded
=============================================================================
