----------------------------- MODULE RouterPlan -----------------------------
(* The plan of one router: discovery, review, application over a journal of   *)
(* intents, verification and rollback.  The executor works on one job at a    *)
(* time; how it comes to own the node is NodeExecutor's subject.              *)
EXTENDS Naturals, Sequences, FiniteSets, FiniteSetsExt

CONSTANTS MaxJobs, MaxFaults

PlanAssumption == MaxJobs \in Nat \ {0} /\ MaxFaults \in Nat
ASSUME PlanAssumption

VARIABLES
  jobs,         \* the apply and rollback jobs of the router, oldest first
  disc,         \* Router.snapshot of the last discovery
  provisioned,  \* Router.provisioned_at is set
  router,       \* what is on the router: resources with their keys, the global
  host,         \* the node's end of the tunnel, as the network agent keeps it:
                \* the key and the peer of its state file and whether the file
                \* says configured, the interface, the client of RADIUS
  ex,           \* the executor: job, next step, place in a rollback
  meddled,      \* history: resources removed by hand and not made again
  faults

vars == <<jobs, disc, provisioned, router, host, ex, meddled, faults>>

\* The fifteen resources in three roles: the interface, whose key the host is
\* told; its peer, which holds the host's key; and all the others.
Resources == {"wg", "peer", "service"}
\* What a journal lists, in the order in which apply_plan goes through it.
Intents == <<"host", "wg", "peer", "service", "global">>
Position(x) == CHOOSE n \in 1 .. Len(Intents) : Intents[n] = x
Absent == 0
Keys == 1 .. 6 + 2 * MaxJobs
Idle == [pc |-> "idle", job |-> 0, at |-> 0]
NoHost == [key |-> Absent, peer |-> Absent, configured |-> FALSE, link |-> "none",
           client |-> FALSE]
\* A router that was never touched, and the discovery of none.
Bare == [wg |-> Absent, peer |-> Absent, service |-> Absent, global |-> "no"]
Unknown == [Bare EXCEPT !.global = "unknown"]

Present == {r \in Resources : router[r] # Absent}
Applies == {i \in 1 .. Len(jobs) : jobs[i].kind = "apply"}
Journaled(i, x) == Position(x) <= jobs[i].journal
\* A key that nothing holds and no discovery has seen.
FreshKey ==
  LET seen == {jobs[i].snap : i \in 1 .. Len(jobs)} \union {disc, router}
  IN Min(Keys \ ({host.key, host.peer} \union UNION {{s.wg, s.peer} : s \in seen}))

Init ==
  /\ jobs = <<>> /\ disc = Unknown /\ provisioned = FALSE
  /\ router = Bare
  /\ host = NoHost /\ ex = Idle
  /\ meddled = {} /\ faults = 0

-----------------------------------------------------------------------------
(* The operator.                                                              *)

\* review: the key of the job is the hash of the discovery, so that a plan for
\* the same configuration finds the row that is there and adds none.
Review ==
  /\ disc # Unknown /\ ~provisioned
  /\ \A i \in Applies : jobs[i].snap # disc
  /\ Len(jobs) < MaxJobs
  /\ jobs' = Append(jobs, [kind |-> "apply", of |-> 0, status |-> "pending",
                           journal |-> 0, snap |-> disc])
  /\ UNCHANGED <<disc, provisioned, router, host, ex, meddled, faults>>

\* One rollback of a job for good: a second request finds the first one's row.
RequestRollback(i) ==
  /\ jobs[i].kind = "apply" /\ jobs[i].status # "running"
  /\ \A j \in 1 .. Len(jobs) : jobs[j].of # i
  /\ Len(jobs) < MaxJobs
  /\ jobs' = Append(jobs, [kind |-> "rollback", of |-> i, status |-> "pending",
                           journal |-> 0, snap |-> Unknown])
  /\ UNCHANGED <<disc, provisioned, router, host, ex, meddled, faults>>

Retry(i) ==
  /\ jobs[i].status = "failed" /\ ex = Idle
  /\ jobs' = [jobs EXCEPT ![i].status = "pending"]
  /\ UNCHANGED <<disc, provisioned, router, host, ex, meddled, faults>>

-----------------------------------------------------------------------------
(* The executor.                                                              *)

\* Faulty: the newest entry of the journal is passed over.
ClaimShort ==
  /\ ex = Idle
  /\ LET waiting == {i \in 1 .. Len(jobs) : jobs[i].status = "pending"} IN
     /\ waiting # {}
     /\ LET i == Min(waiting) IN
        /\ jobs' = [jobs EXCEPT ![i].status = "running"]
        /\ ex' = IF jobs[i].kind = "apply" THEN [pc |-> "check", job |-> i, at |-> 0]
                 ELSE [pc |-> "undo", job |-> i, at |-> Max({0, jobs[jobs[i].of].journal - 1})]
  /\ UNCHANGED <<disc, provisioned, router, host, meddled, faults>>

Claim ==
  /\ ex = Idle
  /\ LET waiting == {i \in 1 .. Len(jobs) : jobs[i].status = "pending"} IN
     /\ waiting # {}
     /\ LET i == Min(waiting) IN
        /\ jobs' = [jobs EXCEPT ![i].status = "running"]
        /\ ex' = IF jobs[i].kind = "apply" THEN [pc |-> "check", job |-> i, at |-> 0]
                 ELSE [pc |-> "undo", job |-> i, at |-> jobs[jobs[i].of].journal]
  /\ UNCHANGED <<disc, provisioned, router, host, meddled, faults>>

\* An exception, or the death of the process: the job has failed, at once or
\* when its recovery finds it.  What was done before stays.
Fail ==
  /\ ex # Idle /\ faults < MaxFaults
  /\ faults' = faults + 1
  /\ jobs' = [jobs EXCEPT ![ex.job].status = "failed"]
  /\ ex' = Idle
  /\ UNCHANGED <<disc, provisioned, router, host, meddled>>

\* Only a job that has done nothing yet is held to the configuration reviewed.
Check ==
  /\ ex.pc = "check"
  /\ IF jobs[ex.job].journal > 0 \/ router = jobs[ex.job].snap
     THEN ex' = [ex EXCEPT !.pc = "prepare"] /\ UNCHANGED jobs
     ELSE /\ jobs' = [jobs EXCEPT ![ex.job].status = "failed"]
          /\ ex' = Idle
  /\ UNCHANGED <<disc, provisioned, router, host, meddled, faults>>

\* The agent makes the node's key, before the journal says so.
Prepare ==
  /\ ex.pc = "prepare"
  /\ host' = IF host.key = Absent THEN [host EXCEPT !.key = FreshKey] ELSE host
  /\ ex' = [ex EXCEPT !.pc = "host"]
  /\ UNCHANGED <<jobs, disc, provisioned, router, meddled, faults>>

\* The global setting is part of the plan only where the discovery had it off.
Changes(i) == jobs[i].snap.global # "yes"
After == [host |-> "wg", wg |-> "configure", peer |-> "service", service |-> "global",
          global |-> "finish"]
Skipped(x) == x = "global" /\ ~Changes(ex.job)

\* Intent is durable before the remote mutation.
Intend(x) ==
  /\ ex.pc = x /\ ~Journaled(ex.job, x) /\ ~Skipped(x)
  /\ jobs' = [jobs EXCEPT ![ex.job].journal = Position(x)]
  /\ UNCHANGED <<disc, provisioned, router, host, ex, meddled, faults>>

\* What is there under its marker is adopted as it is.
Created(x) ==
  CASE x = "host" -> router
    [] x = "wg" -> [router EXCEPT !.wg = IF @ = Absent THEN FreshKey ELSE @]
    [] x = "peer" -> [router EXCEPT !.peer = IF @ = Absent THEN host.key ELSE @]
    [] x = "service" -> [router EXCEPT !.service = 1]
    [] x = "global" -> [router EXCEPT !.global = "yes"]

\* Faulty: the router is changed first, and the journal follows at once or never.
MutateUnjournaled(x) ==
  /\ ex.pc = x
  /\ router' = IF Skipped(x) THEN router ELSE Created(x)
  /\ ex' = [ex EXCEPT !.pc = After[x]]
  /\ meddled' = meddled \ {x}
  /\ UNCHANGED <<jobs, disc, provisioned, host, faults>>

Mutate(x) ==
  /\ ex.pc = x
  /\ \/ Skipped(x) /\ UNCHANGED router
     \/ Journaled(ex.job, x) /\ router' = Created(x)
  /\ ex' = [ex EXCEPT !.pc = After[x]]
  /\ meddled' = meddled \ {x}
  /\ UNCHANGED <<jobs, disc, provisioned, host, faults>>

\* owned_link: an interface that does not carry the router's mark is not touched.
Refused == host.link = "bare"

\* Faulty: the key of the router's interface is told to a new peer only.
ConfiguredOnce(n) ==
  [host EXCEPT !.peer = IF @ = Absent /\ n >= 1 THEN router.wg ELSE @,
               !.link = IF @ # "none" \/ n < 2 THEN @ ELSE IF n = 2 THEN "bare" ELSE "owned",
               !.configured = @ \/ n >= 4,
               !.client = @ \/ n >= 5]
\* The first n steps of configure: the peer is written to the state file, the
\* interface is added, then marked, the file says configured once the interface
\* and its filter are set, and the clients of RADIUS are written anew.
Configured(n) ==
  [host EXCEPT !.peer = IF n >= 1 THEN router.wg ELSE @,
               !.link = IF @ # "none" \/ n < 2 THEN @ ELSE IF n = 2 THEN "bare" ELSE "owned",
               !.configured = @ \/ n >= 4,
               !.client = IF n >= 5 THEN TRUE ELSE @]

\* The first n steps of remove: the interface goes, then the files of the router,
\* then its client.
Removed(n) ==
  [host EXCEPT !.link = IF n >= 1 THEN "none" ELSE @,
               !.key = IF n >= 2 THEN Absent ELSE @,
               !.peer = IF n >= 2 THEN Absent ELSE @,
               !.configured = @ /\ n < 2,
               !.client = @ /\ n < 3]

Configure ==
  /\ ex.pc = "configure"
  /\ IF router.wg # Absent /\ ~Refused
     THEN /\ host' = Configured(5)
          /\ ex' = [ex EXCEPT !.pc = "peer"] /\ UNCHANGED jobs
     ELSE /\ jobs' = [jobs EXCEPT ![ex.job].status = "failed"]
          /\ ex' = Idle
          /\ host' = IF router.wg # Absent THEN Configured(1) ELSE host
  /\ UNCHANGED <<disc, provisioned, router, meddled, faults>>

\* The next entry of the source's journal, the last one first.
NextUndone == IF ex.pc = "undo" /\ ex.at > 0 THEN Intents[ex.at] ELSE "none"

\* The agent dies within a call, or ends it after the executor has died.
CallBreaksOff ==
  /\ faults < MaxFaults /\ ~Refused
  /\ \/ ex.pc = "configure" /\ router.wg # Absent /\ \E n \in 1 .. 5 : host' = Configured(n)
     \/ NextUndone = "host" /\ \E n \in 1 .. 3 : host' = Removed(n)
  /\ faults' = faults + 1
  /\ jobs' = [jobs EXCEPT ![ex.job].status = "failed"]
  /\ ex' = Idle
  /\ UNCHANGED <<disc, provisioned, router, meddled>>

\* The agent starts again, after a reboot without its interfaces: it configures
\* what its files call configured and writes the clients.  It may die once more
\* between adding an interface and marking it; it does not start while an
\* interface that it has to configure is not marked.
AgentStarts(reboot) ==
  /\ reboot => faults < MaxFaults
  /\ faults' = IF reboot THEN faults + 1 ELSE faults
  /\ LET h == IF reboot THEN [host EXCEPT !.link = "none"] ELSE host IN
     IF h.configured
     THEN /\ h.link # "bare"
          /\ \/ host' = [h EXCEPT !.link = "owned", !.client = TRUE]
             \/ reboot /\ host' = [h EXCEPT !.link = "bare"]
     ELSE host' = [h EXCEPT !.client = FALSE]
  /\ host' # host
  /\ UNCHANGED <<jobs, disc, provisioned, router, ex, meddled>>

FinishApply ==
  /\ ex.pc = "finish"
  /\ provisioned' = TRUE
  /\ ex' = [ex EXCEPT !.pc = "commit"]
  /\ UNCHANGED <<jobs, disc, router, host, meddled, faults>>

\* A global setting that is no longer what the plan made it is left alone.
Undo ==
  /\ NextUndone \notin {"none", "host"}
  /\ router' = IF NextUndone # "global" THEN [router EXCEPT ![NextUndone] = Absent]
               ELSE IF router.global = "yes"
               THEN [router EXCEPT !.global = jobs[jobs[ex.job].of].snap.global]
               ELSE router
  /\ ex' = [ex EXCEPT !.at = @ - 1]
  /\ UNCHANGED <<jobs, disc, provisioned, host, meddled, faults>>

UndoHost ==
  /\ NextUndone = "host"
  /\ IF Refused
     THEN /\ jobs' = [jobs EXCEPT ![ex.job].status = "failed"]
          /\ ex' = Idle /\ UNCHANGED host
     ELSE /\ host' = Removed(3)
          /\ ex' = [ex EXCEPT !.at = @ - 1] /\ UNCHANGED jobs
  /\ UNCHANGED <<disc, provisioned, router, meddled, faults>>

FinishRollback ==
  /\ ex.pc = "undo" /\ ex.at = 0
  /\ provisioned' = FALSE
  /\ ex' = [ex EXCEPT !.pc = "commit"]
  /\ UNCHANGED <<jobs, disc, router, host, meddled, faults>>

Commit ==
  /\ ex.pc = "commit"
  /\ jobs' = [jobs EXCEPT ![ex.job].status = "succeeded"]
  /\ ex' = Idle
  /\ UNCHANGED <<disc, provisioned, router, host, meddled, faults>>

Discover ==
  /\ ex = Idle
  /\ disc' = router
  /\ UNCHANGED <<jobs, provisioned, router, host, ex, meddled, faults>>

\* The agent's status first, then the resources that the newest plan has journaled are looked up; where one is
\* missing the plan becomes a failed one, to be retried.
Verify ==
  /\ ex = Idle /\ Applies # {} /\ ~Refused
  /\ LET i == Max(Applies)
         missing == {r \in Resources : Journaled(i, r)} \ Present
     IN /\ missing # {}
        /\ jobs' = [jobs EXCEPT ![i].status = "failed"]
  /\ provisioned' = FALSE
  /\ UNCHANGED <<disc, router, host, ex, meddled, faults>>

-----------------------------------------------------------------------------
(* The router's own administrator.                                            *)

RemovedByHand(r) ==
  /\ router[r] # Absent /\ faults < MaxFaults
  /\ faults' = faults + 1
  /\ router' = [router EXCEPT ![r] = Absent]
  /\ meddled' = meddled \union {r}
  /\ UNCHANGED <<jobs, disc, provisioned, host, ex>>

SetByHand ==
  /\ faults < MaxFaults
  /\ faults' = faults + 1
  /\ router' = [router EXCEPT !.global = IF @ = "yes" THEN "no" ELSE "yes"]
  /\ UNCHANGED <<jobs, disc, provisioned, host, ex, meddled>>

Execute ==
  \/ Claim \/ Check \/ Prepare \/ Configure \/ FinishApply
  \/ \E x \in {"host", "wg", "peer", "service", "global"} : Intend(x) \/ Mutate(x)
  \/ Undo \/ UndoHost \/ FinishRollback \/ Commit

Next ==
  \/ Review \/ Discover \/ Verify \/ Execute \/ Fail \/ CallBreaksOff \/ SetByHand
  \/ \E reboot \in BOOLEAN : AgentStarts(reboot)
  \/ \E i \in 1 .. Len(jobs) : RequestRollback(i) \/ Retry(i)
  \/ \E r \in Resources : RemovedByHand(r)

Spec == Init /\ [][Next]_vars

-----------------------------------------------------------------------------
(* Properties.                                                                *)

Contents == [wg : Keys \union {Absent}, peer : Keys \union {Absent}, service : {Absent, 1},
             global : {"yes", "no", "unknown"}]
Hosts == [key : Keys \union {Absent}, peer : Keys \union {Absent}, configured : BOOLEAN,
          link : {"none", "bare", "owned"}, client : BOOLEAN]
Jobs == [kind : {"apply", "rollback"}, of : 0 .. MaxJobs, journal : 0 .. Len(Intents),
         status : {"pending", "running", "succeeded", "failed"}, snap : Contents]
Steps == {"idle", "check", "prepare", "configure", "finish", "undo", "commit"}
           \union {Intents[n] : n \in 1 .. Len(Intents)}
TypeOK ==
  /\ jobs \in Seq(Jobs) /\ Len(jobs) <= MaxJobs
  /\ disc \in Contents /\ router \in Contents /\ router.global # "unknown"
  /\ provisioned \in BOOLEAN /\ host \in Hosts
  /\ ex \in [pc : Steps, job : 0 .. MaxJobs, at : 0 .. Len(Intents)]
  /\ meddled \subseteq Resources /\ faults \in 0 .. MaxFaults

\* Whatever of FireISP is on the router or on the node is in the journal of a
\* plan, wherever the executor died: a rollback of that plan knows of it
\* (journal in services.py is written before each mutation).
OwnedIsJournaled ==
  /\ \A r \in Present : \E i \in Applies : Journaled(i, r)
  /\ host.peer # Absent \/ host.link # "none" \/ host.client =>
       \E i \in Applies : Journaled(i, "host")

\* A plan that was rolled back, and the jobs that have begun and are not done.
RolledBack(i) == \E j \in 1 .. Len(jobs) : jobs[j].of = i /\ jobs[j].status = "succeeded"
Unfinished ==
  {i \in 1 .. Len(jobs) :
     \/ jobs[i].status = "running"
     \/ jobs[i].status \in {"pending", "failed"}
        /\ (jobs[i].kind = "rollback" \/ jobs[i].journal > 0) /\ ~RolledBack(i)}

\* With no job half done, a router marked as provisioned lacks no resource but
\* those removed by hand since, and the two ends of the tunnel hold each other's
\* keys, through crashes, retries and verifications (apply_plan adopts what is
\* there; configure is called again for whatever key the interface has), and the
\* router is a client of RADIUS, unless the agent has left an interface unmarked,
\* which it never touches again.  The tunnel is promised only while no plan of the router was rolled back: the
\* rollback of a second plan that only got as far as "host" takes the node's key
\* away, and a retry of the first one adopts the peer that holds the old key.
ProvisionedIsComplete ==
  provisioned /\ Unfinished = {} =>
    /\ Resources \ Present \subseteq meddled
    /\ meddled = {} /\ (\A i \in Applies : ~RolledBack(i)) =>
         /\ host.peer = router.wg /\ host.key = router.peer
         /\ ~Refused => host.link = "owned" /\ host.client

\* When a rollback succeeds, after any number of interruptions, nothing that its
\* plan journaled is left on the router or on the node (services.py, rollback).
RollbackCleans ==
  [][\A j \in 1 .. Len(jobs) :
       jobs[j].kind = "rollback" /\ jobs[j].status = "running" /\ jobs'[j].status = "succeeded" =>
         /\ \A r \in Present : ~Journaled(jobs[j].of, r)
         /\ Journaled(jobs[j].of, "host") => host = NoHost]_vars

\* docs/network.md:91-92: "Tras una reversion, haga un nuevo descubrimiento y
\* revise un plan actualizado."  With the discovery up to date and nothing under
\* way, a review gives a job to run: no finished plan has its key already.
\* The code does not keep it (README, Disagreements).
ReplanAfterRollback ==
  disc = router /\ ~provisioned /\ Unfinished = {} =>
    \A i \in Applies : jobs[i].snap = disc => jobs[i].status # "succeeded"
=============================================================================
