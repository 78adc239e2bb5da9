------------------------ MODULE SubscriberAccessProofs ------------------------
(***************************************************************************)
(* Proofs about SubscriberAccess for every number of events, attempts and  *)
(* forms.                                                                  *)
(*                                                                         *)
(* Types first: that an access revision never exceeds the number of        *)
(* delivered events is what bounds the keys of the disconnect jobs.  Then  *)
(* the credential: whatever disagrees with the status is still on its way. *)
(* Last the cancellation: a job for it is only ever created once the       *)
(* status is final, and ends well only when the session is gone.           *)
(***************************************************************************)
EXTENDS SubscriberAccess, FiniteSetTheorems, TLAPS

Credential == [configured : BOOLEAN, enabled : BOOLEAN, revision : 0..MaxEvents,
               commissioning : BOOLEAN, expiry : {"none", "ahead", "past"}]

Form == [kind : Forms \cup {"none", "granting"}, read : Statuses \cup {"none"}]

OutboxRow == [status : {"absent", "waiting", "delivered"}, attempts : 0..MaxAttempts]

Executor == [pc : {"idle", "look", "read", "write", "disconnect", "verify", "finish"},
             key : Keys \cup {NoKey}, read : Statuses \cup {"none"}, snap : BOOLEAN,
             verdict : {"none", "succeeded", "failed"}]

DeliveredEvents == {e \in Events : event[e].status = "delivered"}

\* A revision moves only with a delivery.
RevisionInv == cred.revision <= Cardinality(DeliveredEvents)

\* What the executor and a submitted form know by the step they are at.
PlaceInv ==
  /\ ex.pc \in {"look", "finish"} => ex.key \in Keys
  /\ ex.pc = "idle" => ex.key = NoKey
  /\ ex.pc \in {"disconnect", "verify"} => ex.key \in Keys
  /\ ex.pc = "finish" => ex.verdict # "none"
  /\ form.kind = "none" => form = NoForm
  /\ form.kind \in {"commissioning", "granting"} => form.read = "pending"
  /\ sub = "pending" => \A e \in Events : event[e].status = "absent"

\* A credential that disagrees with its status has an event or a form to come, or
\* was saved by a form that the status had overtaken.
CredentialInv ==
  /\ cred.configured /\ sub # "pending" /\ ~overtaken /\ form = NoForm
  /\ ~(cred.enabled <=> sub = "active")
  => \E e \in Events : event[e].status = "waiting"

\* Jobs for a cancellation exist only after it, and what they have read or
\* concluded is so.
CancellationInv ==
  /\ \A k \in Keys : k[1] = "cancelled" /\ job[k] # "absent" => sub = "cancelled"
  /\ ex.read = "cancelled" => sub = "cancelled"
  /\ ex.key # NoKey => job[ex.key] = "running"
  /\ ex.pc \notin {"idle", "look", "finish"} /\ ex.key # NoKey => ex.read = ex.key[1]
  /\ flag # "none" => sub = "cancelled"
  /\ flag = "cleared" => session # "web"
  /\ \A k \in Keys : k[1] = "cancelled" /\ job[k] = "succeeded" => session # "web"
  /\ ex.pc = "finish" /\ ex.key[1] = "cancelled" /\ ex.verdict = "succeeded" => session # "web"
  /\ session = "web" => cred.configured
  /\ sub = "cancelled" /\ session = "web" =>
       \/ \E e \in Events : event[e].status = "waiting"
       \/ \E k \in Keys : k[1] = "cancelled" /\ job[k] \in {"pending", "running", "failed"}

Inv == TypeOK /\ RevisionInv /\ PlaceInv /\ CredentialInv /\ CancellationInv
-----------------------------------------------------------------------------
(* Types.                                                                  *)

\* The type invariant in the terms of this module.
LEMMA TypeParts ==
  TypeOK <=> /\ sub \in Statuses /\ flag \in {"none", "pending", "cleared"}
             /\ cred \in Credential /\ form \in Form /\ saves \in 0..MaxSaves
             /\ event \in [Events -> OutboxRow]
             /\ job \in [Keys -> {"absent", "pending", "running", "succeeded", "failed"}]
             /\ ex \in Executor
             /\ straggler \in SUBSET BOOLEAN /\ file \in BOOLEAN /\ loaded \in BOOLEAN
             /\ web \in BOOLEAN /\ session \in {"none", "web", "file"} /\ seen \in BOOLEAN
             /\ overtaken \in BOOLEAN
BY DEF TypeOK, Credential, Form, OutboxRow, Executor

\* And in the next state.
LEMMA TypePartsNext ==
  TypeOK' <=> /\ sub' \in Statuses /\ flag' \in {"none", "pending", "cleared"}
              /\ cred' \in Credential /\ form' \in Form /\ saves' \in 0..MaxSaves
              /\ event' \in [Events -> OutboxRow]
              /\ job' \in [Keys -> {"absent", "pending", "running", "succeeded", "failed"}]
              /\ ex' \in Executor
              /\ straggler' \in SUBSET BOOLEAN /\ file' \in BOOLEAN /\ loaded' \in BOOLEAN
              /\ web' \in BOOLEAN /\ session' \in {"none", "web", "file"} /\ seen' \in BOOLEAN
              /\ overtaken' \in BOOLEAN
BY DEF TypeOK, Credential, Form, OutboxRow, Executor

\* The number of delivered events is bounded by that of events.
LEMMA DeliveredBound ==
  /\ IsFiniteSet(DeliveredEvents) /\ Cardinality(DeliveredEvents) \in Nat
  /\ Cardinality(DeliveredEvents) <= MaxEvents
<1>1. IsFiniteSet(Events) /\ Cardinality(Events) = MaxEvents
  BY AccessAssumption, FS_Interval DEF Events
<1>2. DeliveredEvents \in SUBSET Events
  BY DEF DeliveredEvents
<1> QED
  BY <1>1, <1>2, FS_Subset, FS_CardinalityType

\* A delivery counts one more.
LEMMA DeliveredGrows ==
  ASSUME TypeOK, NEW e \in Events, event[e].status = "waiting",
         event' = [event EXCEPT ![e] = [status |-> "delivered", attempts |-> @.attempts + 1]]
  PROVE  Cardinality(DeliveredEvents') = Cardinality(DeliveredEvents) + 1
<1>1. event \in [Events -> OutboxRow]
  BY TypeParts
<1>2. DeliveredEvents' = DeliveredEvents \cup {e} /\ e \notin DeliveredEvents
  BY <1>1 DEF DeliveredEvents
<1> QED
  BY <1>2, DeliveredBound, FS_AddElement

\* The bound holds in the next state as well.
LEMMA DeliveredBoundNext ==
  Cardinality(DeliveredEvents') \in Nat /\ Cardinality(DeliveredEvents') <= MaxEvents
<1>1. IsFiniteSet(Events) /\ Cardinality(Events) = MaxEvents
  BY AccessAssumption, FS_Interval DEF Events
<1>2. DeliveredEvents' \in SUBSET Events
  BY DEF DeliveredEvents
<1> QED
  BY <1>1, <1>2, FS_Subset, FS_CardinalityType

\* The initial state.
LEMMA InvInit == Init => Inv
<1> SUFFICES ASSUME Init PROVE Inv
  OBVIOUS
<1>1. Idle \in Executor /\ NoForm \in Form
  BY DEF Idle, NoForm, Executor, Form, Keys
<1>2. TypeOK
  <2>1. cred \in Credential
    BY AccessAssumption DEF Init, Credential
  <2>2. event \in [Events -> OutboxRow]
    BY AccessAssumption DEF Init, OutboxRow
  <2>3. job \in [Keys -> {"absent", "pending", "running", "succeeded", "failed"}]
    BY DEF Init
  <2>4. saves \in 0..MaxSaves /\ straggler \in SUBSET BOOLEAN
    BY AccessAssumption DEF Init
  <2> QED
    BY <1>1, <2>1, <2>2, <2>3, <2>4, TypeParts DEF Init, Statuses
<1>3. RevisionInv
  BY DeliveredBound DEF RevisionInv, Init
<1>4. PlaceInv
  BY DEF Init, PlaceInv, Idle, NoForm
<1>5. CredentialInv /\ CancellationInv
  BY DEF Init, CredentialInv, CancellationInv, Idle
<1> QED
  BY <1>2, <1>3, <1>4, <1>5 DEF Inv

\* A status change: its event is new.
LEMMA PublishedEvent ==
  ASSUME Inv, Published
  PROVE  /\ event' \in [Events -> OutboxRow]
         /\ DeliveredEvents' = DeliveredEvents
         /\ \E e \in Events : event'[e].status = "waiting"
<1>1. event \in [Events -> OutboxRow]
  BY TypeParts DEF Inv
<1>2. PICK e \in Events : event[e].status = "absent" /\ event' = [event EXCEPT ![e].status = "waiting"]
  BY DEF Published
<1>3. event' \in [Events -> OutboxRow]
  BY <1>1, <1>2 DEF OutboxRow
<1> QED
  BY <1>1, <1>2, <1>3 DEF DeliveredEvents, OutboxRow

StatusChange == Activate \/ Suspend \/ Resume \/ Cancel

\* Each of them publishes an event, and only a cancellation makes the status final.
LEMMA StatusStep ==
  ASSUME Inv, StatusChange
  PROVE  Inv'
<1> USE TypeParts, TypePartsNext DEF Inv
<1>1. Published
  BY DEF StatusChange, Activate, Suspend, Resume, Cancel
<1>2. /\ UNCHANGED <<cred, staffVars, executorVars, nasVars>>
      /\ sub' \in Statuses \ {"pending"} /\ sub # "cancelled" /\ flag' \in {flag, "pending"}
      /\ flag' # flag => sub' = "cancelled"
  BY DEF StatusChange, Activate, Suspend, Resume, Cancel, Statuses
<1>3. TypeOK'
  BY <1>1, <1>2, PublishedEvent DEF staffVars, executorVars, nasVars
<1>4. RevisionInv'
  BY <1>1, <1>2, PublishedEvent DEF RevisionInv
<1>5. PlaceInv'
  BY <1>2 DEF PlaceInv, staffVars, executorVars
<1>6. CredentialInv'
  BY <1>1, PublishedEvent DEF CredentialInv
<1>7. CancellationInv'
  BY <1>1, <1>2, PublishedEvent DEF CancellationInv, executorVars, nasVars
<1> QED
  BY <1>3, <1>4, <1>5, <1>6, <1>7
FormStep ==
  (\E kind \in Forms : FormRead(kind)) \/ FormWrite \/ Grant \/ Expire

\* The access form and the end of a commissioning.
LEMMA FormSteps ==
  ASSUME Inv, FormStep
  PROVE  Inv'
<1> USE TypeParts, TypePartsNext DEF Inv
<1>1. UNCHANGED <<sub, flag, event, executorVars, nasVars>>
  BY DEF FormStep, FormRead, FormWrite, Grant, Expire
<1>2. cred' \in Credential /\ cred'.revision = cred.revision /\ (cred.configured => cred'.configured)
  <2>1. CASE \E kind \in Forms : FormRead(kind)
    BY <2>1 DEF FormRead
  <2>2. CASE FormWrite
    BY <2>2 DEF FormWrite, Credential
  <2>3. CASE Grant \/ Expire
    BY <2>3 DEF Grant, Expire, Credential
  <2> QED
    BY <2>1, <2>2, <2>3 DEF FormStep
<1>3. /\ form' \in Form /\ saves' \in 0..MaxSaves /\ overtaken' \in BOOLEAN
      /\ form'.kind = "none" => form' = NoForm
      /\ form'.kind \in {"commissioning", "granting"} => form'.read = "pending"
  <2>1. CASE \E kind \in Forms : FormRead(kind)
    BY <2>1, AccessAssumption DEF FormRead, Form, NoForm
  <2>2. CASE FormWrite
    BY <2>2, AccessAssumption DEF FormWrite, Form, NoForm, Unseen, PlaceInv
  <2>3. CASE Grant
    BY <2>3 DEF Grant, Form, NoForm, Unseen
  <2>4. CASE Expire
    BY <2>4 DEF Expire, Form, NoForm, PlaceInv, staffVars
  <2> QED
    BY <2>1, <2>2, <2>3, <2>4 DEF FormStep
<1>4. TypeOK'
  BY <1>1, <1>2, <1>3 DEF executorVars, nasVars
<1>5. RevisionInv'
  BY <1>1, <1>2 DEF RevisionInv, DeliveredEvents
<1>6. PlaceInv'
  BY <1>1, <1>3 DEF PlaceInv, executorVars
<1>7. CredentialInv'
  <2>1. CASE \E kind \in Forms : FormRead(kind)
    BY <2>1, AccessAssumption DEF FormRead, NoForm, CredentialInv
  <2>2. CASE FormWrite
    BY <1>1, <2>2 DEF FormWrite, Form, NoForm, Unseen, CredentialInv
  <2>3. CASE Grant
    BY <1>1, <2>3 DEF Grant, PlaceInv, Unseen, CredentialInv
  <2>4. CASE Expire
    BY <1>1, <2>4 DEF Expire, CredentialInv, Credential, staffVars
  <2> QED
    BY <2>1, <2>2, <2>3, <2>4 DEF FormStep
<1>8. CancellationInv'
  BY <1>1, <1>2 DEF CancellationInv, executorVars, nasVars
<1> QED
  BY <1>4, <1>5, <1>6, <1>7, <1>8

\* The reconciliation: what the credential and the jobs become.
LEMMA Reconciliation ==
  ASSUME Inv, Reconcile, sub # "pending", cred.revision < MaxEvents
  PROVE  /\ cred' \in Credential /\ overtaken' \in BOOLEAN
         /\ cred'.configured = cred.configured /\ cred'.revision <= cred.revision + 1
         /\ cred.configured => ~overtaken' /\ (cred'.enabled <=> sub = "active")
         /\ \/ job' = job
            \/ \E k \in Keys : /\ k[1] = sub /\ job[k] = "absent"
                               /\ job' = [job EXCEPT ![k] = "pending"]
         /\ cred.configured /\ sub # "active" =>
              \E k \in Keys : k[1] = sub /\ job'[k] # "absent"
<1> USE TypeParts DEF Inv
<1>0. cred.revision \in Nat /\ cred.revision + 1 \in 0..MaxEvents
  BY AccessAssumption DEF Credential
<1>1. CASE ~cred.configured
  <2>1. UNCHANGED <<cred, job, overtaken>>
    BY <1>1 DEF Reconcile
  <2> QED
    BY <1>0, <1>1, <2>1
<1>2. CASE cred.configured
  <2>1. /\ Reconciled \in Credential /\ Reconciled.configured = cred.configured
        /\ Reconciled.revision <= cred.revision + 1 /\ (Reconciled.enabled <=> sub = "active")
    <3>1. CASE cred.enabled = (sub = "active")
      BY <1>0, <3>1 DEF Reconciled, Credential
    <3>2. CASE cred.enabled # (sub = "active")
      <4> DEFINE active == sub = "active"
                 next == [cred EXCEPT !.enabled = active, !.revision = @ + 1]
      <4>1. Reconciled = next
        BY <3>2 DEF Reconciled
      <4>2. active \in BOOLEAN /\ (active <=> sub = "active")
        OBVIOUS
      <4> HIDE DEF active
      <4>3. next \in Credential
        BY <1>0, <4>2 DEF Credential
      <4>4. next.configured = cred.configured /\ next.revision = cred.revision + 1
        BY DEF Credential
      <4>5. next.enabled = active
        BY DEF Credential
      <4> HIDE DEF next
      <4> QED
        BY <1>0, <4>1, <4>2, <4>3, <4>4, <4>5
    <3> QED
      BY <3>1, <3>2
  <2> DEFINE key == Key(Reconciled.revision)
  <2>2. /\ cred' = Reconciled /\ overtaken' = FALSE
        /\ job' = IF sub = "active" \/ job[key] # "absent" THEN job
                  ELSE [job EXCEPT ![key] = "pending"]
    BY <1>2 DEF Reconcile
  <2>3. sub # "active" => key \in Keys /\ key[1] = sub
    BY <2>1 DEF Key, Keys, Statuses, Credential
  <2> HIDE DEF key
  <2> QED
    BY <1>2, <2>1, <2>2, <2>3
<1> QED
  BY <1>1, <1>2

\* A delivery.
LEMMA DeliverStep ==
  ASSUME Inv, NEW e \in Events, Deliver(e)
  PROVE  Inv'
<1> USE TypeParts, TypePartsNext DEF Inv
<1>1. /\ event[e].status = "waiting" /\ event[e].attempts < MaxAttempts
      /\ event' = [event EXCEPT ![e] = [status |-> "delivered", attempts |-> @.attempts + 1]]
      /\ Reconcile
      /\ UNCHANGED <<sub, flag, form, saves, ex, straggler, file, nasVars>>
  BY DEF Deliver, Deliverable
<1>2. Cardinality(DeliveredEvents') = Cardinality(DeliveredEvents) + 1
  BY <1>1, DeliveredGrows
<1>3. sub # "pending"
  BY <1>1 DEF PlaceInv
<1>4. cred.revision \in Nat /\ cred.revision < MaxEvents
  BY <1>2, DeliveredBound, DeliveredBoundNext, AccessAssumption DEF RevisionInv, Credential
<1>5. event' \in [Events -> OutboxRow]
  <2>1. [status |-> "delivered", attempts |-> event[e].attempts + 1] \in OutboxRow
    BY <1>1, AccessAssumption DEF OutboxRow
  <2> QED
    BY <1>1, <2>1
<1>6. TypeOK'
  BY <1>1, <1>3, <1>4, <1>5, Reconciliation DEF nasVars
<1>7. RevisionInv'
  BY <1>1, <1>2, <1>3, <1>4, <1>6, DeliveredBound, Reconciliation DEF RevisionInv, Credential
<1>8. PlaceInv'
  BY <1>1, <1>3 DEF PlaceInv
<1>9. CredentialInv'
  BY <1>1, <1>3, <1>4, Reconciliation DEF CredentialInv
<1>10. CancellationInv'
  <2>1. \A k \in Keys : job'[k] = job[k] \/ (k[1] = sub /\ job[k] = "absent" /\ job'[k] = "pending")
    BY <1>1, <1>3, <1>4, Reconciliation
  <2>2. sub = "cancelled" /\ session = "web" =>
          \E k \in Keys : k[1] = "cancelled" /\ job'[k] \in {"pending", "running", "failed"}
    <3> SUFFICES ASSUME sub = "cancelled", session = "web"
                 PROVE  \E k \in Keys : k[1] = "cancelled" /\ job'[k] \in {"pending", "running", "failed"}
      OBVIOUS
    <3>1. PICK k \in Keys : k[1] = "cancelled" /\ job'[k] # "absent"
      BY <1>1, <1>3, <1>4, Reconciliation DEF CancellationInv
    <3> QED
      BY <2>1, <3>1, <1>6 DEF CancellationInv
  <2>3. ex.key # NoKey => job'[ex.key] = "running"
    BY <2>1 DEF CancellationInv, Executor
  <2> QED
    BY <1>1, <1>3, <1>4, <2>1, <2>2, <2>3, Reconciliation DEF CancellationInv, nasVars
<1> QED
  BY <1>6, <1>7, <1>8, <1>9, <1>10

\* A failed delivery leaves its event waiting.
LEMMA DeliverFailsStep ==
  ASSUME Inv, NEW e \in Events, DeliverFails(e)
  PROVE  Inv'
<1> USE TypeParts, TypePartsNext DEF Inv
<1>1. /\ event' = [event EXCEPT ![e].attempts = @ + 1] /\ event[e].attempts < MaxAttempts
      /\ UNCHANGED <<sub, flag, cred, staffVars, executorVars, nasVars>>
  BY DEF DeliverFails, Deliverable
<1>2. event' \in [Events -> OutboxRow]
  <2>1. [event[e] EXCEPT !.attempts = @ + 1] \in OutboxRow
    BY <1>1, AccessAssumption DEF OutboxRow
  <2> QED
    BY <1>1, <2>1
<1>3. \A f \in Events : event'[f].status = event[f].status
  BY <1>1 DEF OutboxRow
<1>4. TypeOK'
  BY <1>1, <1>2 DEF staffVars, executorVars, nasVars
<1>5. RevisionInv'
  <2>1. DeliveredEvents' = DeliveredEvents
    BY <1>3 DEF DeliveredEvents
  <2> QED
    BY <1>1, <2>1 DEF RevisionInv
<1>6. PlaceInv' /\ CredentialInv' /\ CancellationInv'
  BY <1>1, <1>3 DEF PlaceInv, CredentialInv, CancellationInv, staffVars, executorVars, nasVars
<1> QED
  BY <1>4, <1>5, <1>6
\* The steps that touch neither the status, nor the credential, nor the outbox keep
\* what is said of these.
LEMMA AsideStep ==
  ASSUME Inv, UNCHANGED <<sub, cred, staffVars, event>>
  PROVE  RevisionInv' /\ CredentialInv'
BY DEF Inv, RevisionInv, CredentialInv, DeliveredEvents, staffVars

\* Steps of the executor up to its verdict: its job stays as it is.
Progress ==
  \/ Look \/ ReadEntitlements \/ WriteEntitlements \/ Disconnect \/ Verify \/ Fail \/ StartSync

\* What such a step has read or concluded is so in the state it leaves.
LEMMA ProgressStep ==
  ASSUME Inv, Progress
  PROVE  Inv'
<1> USE TypeParts, TypePartsNext DEF Inv
<1>1. UNCHANGED <<sub, cred, staffVars, event, job, loaded, web>>
  BY DEF Progress, Look, ReadEntitlements, WriteEntitlements, Disconnect, Verify, Fail, StartSync,
         nasVars
<1>2. /\ ex' \in Executor
      /\ straggler' \in SUBSET BOOLEAN /\ file' \in BOOLEAN
      /\ session' \in {session, "none"} /\ seen' \in BOOLEAN /\ flag' \in {flag, "cleared"}
      /\ flag' # flag => session' = "none" /\ ex.pc = "verify" /\ ex.read = "cancelled"
  <2>1. CASE StartSync
    BY <2>1 DEF StartSync, Goto, Executor, nasVars
  <2>2. CASE ReadEntitlements
    <3>1. Admitted \in BOOLEAN
      BY DEF Admitted
    <3> QED
      BY <2>2, <3>1 DEF ReadEntitlements, Executor, nasVars
  <2>3. CASE WriteEntitlements
    BY <2>3 DEF WriteEntitlements, Executor, Idle, nasVars
  <2>4. CASE Disconnect
    BY <2>4 DEF Disconnect, Goto, Executor, Ended
  <2>5. CASE Verify
    BY <2>5 DEF Verify, Executor, nasVars
  <2>6. CASE Fail
    BY <2>6 DEF Fail, Executor, Idle, nasVars
  <2>7. CASE Look
    <3>1. ex' \in Executor
      <4>1. CASE ex.key[1] = sub
        BY <2>7, <4>1 DEF Look, Executor
      <4>2. CASE ex.key[1] # sub
        BY <2>7, <4>2 DEF Look, Executor
      <4> QED
        BY <4>1, <4>2
    <3> QED
      BY <2>7, <3>1 DEF Look, nasVars
  <2> QED
    BY <2>1, <2>2, <2>3, <2>4, <2>5, <2>6, <2>7 DEF Progress
<1>3. TypeOK'
  BY <1>1, <1>2 DEF staffVars
<1>4. PlaceInv' /\ (ex'.key # NoKey => ex'.key = ex.key)
  <2>1. CASE Look
    BY <1>1, <2>1 DEF Look, PlaceInv, Executor, staffVars
  <2>2. CASE StartSync
    BY <1>1, <2>2 DEF StartSync, PlaceInv, Goto, Executor, staffVars
  <2>3. CASE ReadEntitlements
    BY <1>1, <2>3 DEF ReadEntitlements, PlaceInv, Executor, staffVars
  <2>4. CASE WriteEntitlements
    BY <1>1, <2>4 DEF WriteEntitlements, PlaceInv, Executor, Idle, staffVars
  <2>5. CASE Disconnect
    BY <1>1, <2>5 DEF Disconnect, Goto, PlaceInv, Executor, staffVars
  <2>6. CASE Verify
    BY <1>1, <2>6 DEF Verify, PlaceInv, Executor, staffVars
  <2>7. CASE Fail
    BY <1>1, <2>7 DEF Fail, PlaceInv, Executor, Idle, staffVars
  <2> QED
    BY <2>1, <2>2, <2>3, <2>4, <2>5, <2>6, <2>7 DEF Progress
<1>5. /\ ex'.read \in {ex.read, "none", sub}
      /\ ex'.pc \notin {"idle", "look", "finish"} /\ ex'.key # NoKey => ex'.read = ex'.key[1]
  <2>1. CASE Look
    BY <2>1 DEF Look, PlaceInv, Executor
  <2>2. CASE StartSync
    BY <2>2 DEF StartSync, PlaceInv, Goto, Executor
  <2>3. CASE ReadEntitlements
    BY <2>3 DEF ReadEntitlements, Executor, CancellationInv
  <2>4. CASE WriteEntitlements
    BY <2>4 DEF WriteEntitlements, Executor, Idle, CancellationInv
  <2>5. CASE Disconnect
    BY <2>5 DEF Disconnect, Goto, Executor, CancellationInv
  <2>6. CASE Verify
    BY <2>6 DEF Verify, Executor
  <2>7. CASE Fail
    BY <2>7 DEF Fail, Executor, Idle
  <2> QED
    BY <2>1, <2>2, <2>3, <2>4, <2>5, <2>6, <2>7 DEF Progress
<1>6. ex'.pc = "finish" /\ ex'.key[1] = "cancelled" /\ ex'.verdict = "succeeded" => session' # "web"
  <2>1. CASE Look
    <3>1. ex.key \in Keys /\ ex.key # NoKey
      BY <2>1 DEF Look, PlaceInv, Keys, NoKey
    <3>2. ex.key[1] = "cancelled" => sub = "cancelled"
      BY <3>1 DEF CancellationInv
    <3>3. ex.key[1] = "cancelled" => ex'.pc = "read"
      BY <2>1, <3>2 DEF Look, Executor
    <3>4. ex'.key = ex.key
      BY <2>1 DEF Look, Executor
    <3> QED
      BY <3>3, <3>4
  <2>2. CASE Verify
    BY <2>2 DEF Verify, Executor, nasVars
  <2>3. CASE Fail
    BY <2>3 DEF Fail, Executor, Idle
  <2>4. CASE StartSync \/ ReadEntitlements \/ WriteEntitlements \/ Disconnect
    <3>1. ex'.pc # "finish"
      <4>1. CASE StartSync \/ Disconnect
        BY <4>1 DEF StartSync, Disconnect, Goto, Executor
      <4>2. CASE ReadEntitlements
        BY <4>2 DEF ReadEntitlements, Executor
      <4>3. CASE WriteEntitlements
        BY <4>3 DEF WriteEntitlements, Executor, Idle
      <4> QED
        BY <2>4, <4>1, <4>2, <4>3
    <3> QED
      BY <3>1
  <2> QED
    BY <2>1, <2>2, <2>3, <2>4 DEF Progress
<1>7. CancellationInv'
  BY <1>1, <1>2, <1>4, <1>5, <1>6 DEF CancellationInv
<1> QED
  BY <1>1, <1>3, <1>4, <1>7, AsideStep

\* Steps that move a job from one status to another.
LEMMA JobStep ==
  ASSUME Inv, Finish \/ \E k \in Keys : StartJob(k) \/ Retry(k)
  PROVE  Inv'
<1> USE TypeParts, TypePartsNext DEF Inv
<1>1. /\ UNCHANGED <<sub, flag, cred, staffVars, event, straggler, file, nasVars>>
  BY DEF Finish, StartJob, Retry
<1>2. CASE Finish
  <2>1. /\ ex.key \in Keys /\ ex.verdict \in {"succeeded", "failed"}
        /\ job' = [job EXCEPT ![ex.key] = ex.verdict] /\ ex' = Idle
    BY <1>2 DEF Finish, PlaceInv, Executor
  <2>2. Idle \in Executor
    BY DEF Idle, Executor
  <2>3. TypeOK'
    BY <1>1, <2>1, <2>2 DEF staffVars, nasVars
  <2>4. PlaceInv'
    BY <1>1, <2>1 DEF PlaceInv, Idle, staffVars
  <2>5. CancellationInv'
    <3>1. ex.key[1] = "cancelled" /\ ex.verdict = "succeeded" => session # "web"
      BY <1>2 DEF Finish, CancellationInv
    <3>2. \A k \in Keys : job'[k] = IF k = ex.key THEN ex.verdict ELSE job[k]
      BY <2>1
    <3>3. job[ex.key] = "running"
      BY <2>1 DEF CancellationInv, Keys, NoKey
    <3>4. \A k \in Keys : k[1] = "cancelled" /\ job'[k] = "succeeded" => session # "web"
      BY <3>1, <3>2 DEF CancellationInv
    <3>5. \A k \in Keys : k[1] = "cancelled" /\ job'[k] # "absent" => sub = "cancelled"
      BY <3>2, <3>3 DEF CancellationInv
    <3>6. \A k \in Keys : k[1] = "cancelled" /\ job[k] \in {"pending", "running", "failed"} =>
            job'[k] \in {"pending", "running", "failed"} \/ session # "web"
      BY <2>1, <3>1, <3>2
    <3> QED
      BY <1>1, <2>1, <3>4, <3>5, <3>6 DEF CancellationInv, Idle, nasVars
  <2> QED
    BY <1>1, <2>3, <2>4, <2>5, AsideStep
<1>3. ASSUME NEW k \in Keys, StartJob(k) PROVE Inv'
  <2>1. /\ job[k] = "pending" /\ job' = [job EXCEPT ![k] = "running"]
        /\ ex' = [Idle EXCEPT !.pc = "look", !.key = k]
    BY <1>3 DEF StartJob
  <2>2. /\ ex' \in Executor /\ ex'.pc = "look" /\ ex'.key = k /\ ex'.read = "none"
        /\ ex'.verdict = "none"
    BY <2>1 DEF Idle, Executor
  <2>3. TypeOK'
    BY <1>1, <2>1, <2>2 DEF staffVars, nasVars
  <2>4. PlaceInv'
    BY <1>1, <2>2 DEF PlaceInv, staffVars
  <2>5. CancellationInv'
    BY <1>1, <2>1, <2>2 DEF CancellationInv, nasVars
  <2> QED
    BY <1>1, <2>3, <2>4, <2>5, AsideStep
<1>4. ASSUME NEW k \in Keys, Retry(k) PROVE Inv'
  <2>1. job[k] = "failed" /\ job' = [job EXCEPT ![k] = "pending"] /\ ex' = ex
    BY <1>4 DEF Retry
  <2>2. TypeOK' /\ PlaceInv'
    BY <1>1, <2>1 DEF PlaceInv, staffVars, nasVars
  <2>3. CancellationInv'
    BY <1>1, <2>1 DEF CancellationInv, nasVars
  <2> QED
    BY <1>1, <2>2, <2>3, AsideStep
<1> QED
  BY <1>2, <1>3, <1>4

\* The agent, the daemon and the router.
LEMMA NetworkStep ==
  ASSUME Inv, StragglerWritten \/ Load \/ Login \/ Hangup \/ Outage
  PROVE  Inv'
<1> USE TypeParts, TypePartsNext DEF Inv
<1>1. UNCHANGED <<sub, flag, cred, staffVars, event, job, ex>>
  BY DEF StragglerWritten, Load, Login, Hangup, Outage, executorVars
<1>2. /\ straggler' \in SUBSET BOOLEAN /\ file' \in BOOLEAN /\ loaded' \in BOOLEAN
      /\ web' \in BOOLEAN /\ session' \in {"none", "web", "file"} /\ seen' \in BOOLEAN
  BY DEF StragglerWritten, Load, Login, Hangup, Outage, executorVars, nasVars, Ended
<1>3. session' = "web" => session = "web" \/ (sub # "cancelled" /\ cred.configured)
  BY DEF StragglerWritten, Load, Login, Hangup, Outage, executorVars, nasVars, Ended, Admitted
<1>4. TypeOK' /\ PlaceInv'
  BY <1>1, <1>2 DEF PlaceInv, staffVars
<1>5. CancellationInv'
  <2>1. CASE sub = "cancelled"
    <3>1. session' = "web" => session = "web"
      BY <1>3, <2>1
    <3> QED
      BY <1>1, <2>1, <3>1 DEF CancellationInv
  <2>2. CASE sub # "cancelled"
    <3>1. \A k \in Keys : k[1] = "cancelled" => job[k] = "absent"
      BY <2>2 DEF CancellationInv
    <3>2. ex.pc = "finish" => ex.key[1] # "cancelled"
      <4>1. ex.pc = "finish" => ex.key \in Keys /\ ex.key # NoKey
        BY DEF PlaceInv, Keys, NoKey
      <4> QED
        BY <3>1, <4>1 DEF CancellationInv
    <3>3. flag = "none" /\ ex.read # "cancelled"
      BY <2>2 DEF CancellationInv
    <3>4. session' = "web" => cred.configured
      BY <1>3 DEF CancellationInv
    <3> QED
      BY <1>1, <2>2, <3>1, <3>2, <3>3, <3>4 DEF CancellationInv
  <2> QED
    BY <2>1, <2>2
<1> QED
  BY <1>1, <1>4, <1>5, AsideStep

-----------------------------------------------------------------------------
(* Theorems.                                                               *)

\* The conjunction of the above is an invariant.
THEOREM Invariance == Spec => []Inv
<1>1. Inv /\ [Next]_vars => Inv'
  <2> SUFFICES ASSUME Inv, [Next]_vars PROVE Inv'
    OBVIOUS
  <2>1. CASE UNCHANGED vars
    BY <2>1 DEF vars, staffVars, executorVars, nasVars, Inv, TypeOK, RevisionInv, PlaceInv,
                CredentialInv, CancellationInv, DeliveredEvents
  <2>2. CASE Next
    BY <2>2, StatusStep, FormSteps, DeliverStep, DeliverFailsStep, ProgressStep, JobStep, NetworkStep
    DEF Next, Staff, Working, StatusChange, FormStep, Progress
  <2> QED
    BY <2>1, <2>2
<1> QED
  BY <1>1, InvInit, PTL DEF Spec

\* Every row and process always holds values of its type; in particular the access
\* revision never exceeds the number of status changes.
THEOREM TypeCorrect == Spec => []TypeOK
<1>1. Inv => TypeOK
  BY DEF Inv
<1> QED
  BY <1>1, Invariance, PTL

\* When every event is delivered the credential is enabled exactly for an active
\* subscription, unless a form was saved over a status change it had not seen
\* (queue_subscription_sync).
THEOREM CredentialFollows == Spec => []EnabledFollows
<1>1. Inv => EnabledFollows
  BY DEF Inv, CredentialInv, EnabledFollows, Delivered
<1> QED
  BY <1>1, Invariance, PTL

\* The customer is told that the network was disconnected only after the session
\* is gone for good (disconnect_job).
THEOREM CancellationIsTold == Spec => []CancelledIsTold
<1>1. Inv => CancelledIsTold
  BY DEF Inv, CancellationInv, CancelledIsTold
<1> QED
  BY <1>1, Invariance, PTL

\* When nothing is left to do, a cancelled subscriber's session is gone or a failed
\* job shows that it may not be (queue_subscription_sync, disconnect_job).
THEOREM CancellationIsDone == Spec => []CancellationTakesEffect
<1>1. Inv => CancellationTakesEffect
  BY DEF Inv, CancellationInv, CancellationTakesEffect, Quiet, Delivered
<1> QED
  BY <1>1, Invariance, PTL
=============================================================================
