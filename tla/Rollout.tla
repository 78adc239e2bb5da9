------------------------------ MODULE Rollout -------------------------------
(* A release reaches the processes that execute it.  The installer of the     *)
(* main server checks that the remote executors are drained, drains the local *)
(* ones, migrates, names the new release and starts them again; every process *)
(* compares its image with that name before it starts its child and at each   *)
(* heartbeat, and one scheduler at a time holds the lock of its database      *)
(* session.  A tick is the period of the heartbeat.                           *)
EXTENDS Naturals, FiniteSets, FiniteSetsExt

CONSTANTS
  Workers, Schedulers,
  Local,       \* those the main server's compose file runs
  Fresh,       \* ticks during which the installer believes a row
  Drain,       \* ticks a worker may take to finish its tasks
  MaxFaults,
  NONE

Executors == Workers \union Schedulers
Releases == 1 .. 2
DrainOf(e) == IF e \in Workers THEN Drain ELSE 0

RolloutAssumption ==
  /\ Workers \intersect Schedulers = {} /\ Local \subseteq Executors
  /\ Fresh \in Nat \ {0} /\ Drain \in Nat /\ Fresh < Drain
  /\ MaxFaults \in Nat /\ NONE \notin Executors
ASSUME RolloutAssumption

VARIABLES
  release, schema,  \* DeploymentState; the release whose migrations are applied
  envRelease,       \* FIREISP_RELEASE in the main server's .env
  installer,        \* its next step
  proc,             \* the containers: image, what they do, how long
  registry,         \* RuntimeNode: status and age in ticks
  lock,             \* the scheduler whose session holds the advisory lock
  faults

vars == <<release, schema, envRelease, installer, proc, registry, lock, faults>>
cluster == <<release, schema>>

\* A container is stopped for good, about to start (docker starts it again and
\* again), a scheduler in reserve, at work, or draining towards one of the first.
Modes == {"stopped", "starting", "standby", "ready", "draining"}
Stopped == [image |-> 1, mode |-> "stopped", next |-> "starting", beaten |-> FALSE, drained |-> 0, astray |-> 0]
Alive(e) == proc[e].mode \in {"ready", "draining"}
Current(e) == proc[e].image = release
Put(e, mode) ==
  proc' = [proc EXCEPT ![e].mode = mode, ![e].beaten = TRUE, ![e].drained = 0,
                       ![e].astray = IF mode = "ready" THEN @ ELSE 0]
Slip == faults < MaxFaults /\ faults' = faults + 1

Init ==
  /\ release = 1 /\ schema = 1 /\ envRelease = 1
  /\ installer = "idle"
  /\ proc = [e \in Executors |-> [Stopped EXCEPT !.mode = IF e \in Local THEN "starting" ELSE "stopped"]]
  /\ registry = [e \in Executors |-> [status |-> "stopped", age |-> Fresh + 1]]
  /\ lock = NONE /\ faults = 0

-----------------------------------------------------------------------------
(* A process.                                                                 *)

\* Faulty: the row is written whatever the release.
HeartbeatBlind(e, status) ==
  registry' = [registry EXCEPT ![e] = [status |-> status, age |-> 0]]

\* validate_release, then the row.
Heartbeat(e, status) ==
  /\ Current(e)
  /\ registry' = [registry EXCEPT ![e] = [status |-> status, age |-> 0]]

\* supervise of a worker: a heartbeat, then the child.
StartWorker(e) ==
  /\ e \in Workers /\ proc[e].mode = "starting"
  /\ Heartbeat(e, "ready") /\ Put(e, "ready")
  /\ UNCHANGED <<cluster, envRelease, installer, lock, faults>>

\* Faulty: a scheduler in reserve does not ask for the lock again.
LeadOnce(e) ==
  /\ e \in Schedulers /\ proc[e].mode = "starting" /\ lock = NONE
  /\ lock' = e
  /\ Heartbeat(e, "ready") /\ Put(e, "ready")
  /\ UNCHANGED <<cluster, envRelease, installer, faults>>

\* run_scheduler: a session of its own takes the lock or is closed.
Lead(e) ==
  /\ e \in Schedulers /\ proc[e].mode \in {"starting", "standby"} /\ lock = NONE
  /\ lock' = e
  /\ Heartbeat(e, "ready") /\ Put(e, "ready")
  /\ UNCHANGED <<cluster, envRelease, installer, faults>>

StandBy(e) ==
  /\ e \in Schedulers /\ proc[e].mode \in {"starting", "standby"} /\ lock # NONE
  /\ ~proc[e].beaten
  /\ Heartbeat(e, "standby") /\ Put(e, "standby")
  /\ UNCHANGED <<cluster, envRelease, installer, lock, faults>>

\* The heartbeat of a scheduler in reserve is refused: it ends and is started again.
StandByRefused(e) ==
  /\ proc[e].mode = "standby" /\ ~Current(e)
  /\ Put(e, "starting")
  /\ UNCHANGED <<cluster, envRelease, installer, registry, lock, faults>>

\* One turn of the loop: the lock is still this session's, the release is ours.
Beat(e) ==
  /\ proc[e].mode = "ready" /\ ~proc[e].beaten
  /\ e \in Schedulers => lock = e
  /\ Heartbeat(e, "ready") /\ Put(e, "ready")
  /\ UNCHANGED <<cluster, envRelease, installer, lock, faults>>

\* Otherwise the child is told to finish, and the process will end as failed.
LoopEnds(e) ==
  /\ proc[e].mode = "ready"
  /\ \/ e \in Schedulers /\ lock # e
     \/ ~proc[e].beaten /\ ~Current(e)
  /\ proc' = [proc EXCEPT ![e].mode = "draining", ![e].next = "starting"]
  /\ UNCHANGED <<cluster, envRelease, installer, registry, lock, faults>>

\* The child has ended or is killed; a last heartbeat, if it is let through; the
\* session is closed with its lock.
EndDrain(e) ==
  /\ proc[e].mode = "draining"
  /\ Put(e, proc[e].next)
  /\ \/ Heartbeat(e, IF proc[e].next = "stopped" THEN "stopped" ELSE "failed")
     \/ ~Current(e) /\ UNCHANGED registry
  /\ lock' = IF lock = e THEN NONE ELSE lock
  /\ UNCHANGED <<cluster, envRelease, installer, faults>>

\* docker stop: a signal to a process at work, the end of any other.
Stop(e) ==
  /\ proc' = IF Alive(e) THEN [proc EXCEPT ![e].mode = "draining", ![e].next = "stopped"]
             ELSE [proc EXCEPT ![e].mode = "stopped"]
  /\ UNCHANGED <<registry, lock>>

\* The process or its host dies; the container comes back.
Die(e) ==
  /\ proc[e].mode \in {"standby", "ready", "draining"} /\ Slip
  /\ Put(e, IF proc[e].mode = "draining" THEN proc[e].next ELSE "starting")
  /\ lock' = IF lock = e THEN NONE ELSE lock
  /\ UNCHANGED <<cluster, envRelease, installer, registry>>

\* The database fails one heartbeat of a process at work.
BeatFails(e) ==
  /\ proc[e].mode = "ready" /\ ~proc[e].beaten /\ Slip
  /\ proc' = [proc EXCEPT ![e].mode = "draining", ![e].next = "starting"]
  /\ UNCHANGED <<cluster, envRelease, installer, registry, lock>>

\* The database drops the session of the scheduler; the process does not know.
SessionLost ==
  /\ lock # NONE /\ Slip
  /\ lock' = NONE
  /\ UNCHANGED <<cluster, envRelease, installer, proc, registry>>

-----------------------------------------------------------------------------
(* The nodes' own installer, and their operator.                              *)

StopRemote(e) ==
  /\ e \notin Local /\ proc[e].mode \notin {"stopped", "draining"}
  /\ Slip
  /\ Stop(e)
  /\ UNCHANGED <<cluster, envRelease, installer>>

\* PREFLIGHT: nothing pending for the image, and the release is its own.
InstallRemote(e, r) ==
  /\ e \notin Local /\ proc[e].mode \in {"stopped", "starting"}
  /\ schema >= r /\ release = r
  /\ proc[e].mode = "starting" => proc[e].image # r
  /\ proc' = [proc EXCEPT ![e].image = r, ![e].mode = "starting"]
  /\ UNCHANGED <<cluster, envRelease, installer, registry, lock, faults>>

-----------------------------------------------------------------------------
(* The installer of the main server.                                          *)

Step(from, to) == installer = from /\ installer' = to

\* .env names the release before anything is drained; an older checkout than
\* the database's is not installed.
Begin(r) ==
  /\ r >= schema /\ r >= release
  /\ Step("idle", "check") /\ Slip
  /\ envRelease' = r
  /\ UNCHANGED <<cluster, proc, registry, lock>>

ActiveRemote == {e \in Executors \ Local : registry[e].status \in {"ready", "standby"} /\ registry[e].age <= Fresh}
\* Placement-only reruns keep compatible remote workers.
RemoteDrained == (release = envRelease /\ schema >= envRelease) \/ ActiveRemote = {}

Check(from, to) ==
  /\ installer = from
  /\ installer' = IF RemoteDrained THEN to ELSE "idle"
  /\ UNCHANGED <<cluster, envRelease, proc, registry, lock, faults>>

\* Faulty: only containers that are up are listed.
PresentUp == {e \in Local : proc[e].mode \in {"standby", "ready", "draining"}}

\* drain_local_executors: ps --all lists a restarting container too.
Present == {e \in Local : proc[e].mode # "stopped"}

\* One service after the other, each until it has stopped.
DrainLocal ==
  /\ installer = "drain"
  /\ UNCHANGED <<cluster, envRelease, faults>>
  /\ \/ /\ Present = {}
        /\ installer' = "recheck" /\ UNCHANGED <<proc, registry, lock>>
     \/ /\ \A e \in Local : proc[e].next = "stopped" => proc[e].mode # "draining"
        /\ \E e \in Present : Stop(e)
        /\ UNCHANGED installer

Migrate ==
  /\ Step("migrate", "name")
  /\ schema' = envRelease
  /\ UNCHANGED <<release, envRelease, proc, registry, lock, faults>>

SetRelease ==
  /\ Step("name", "up")
  /\ release' = envRelease
  /\ UNCHANGED <<schema, envRelease, proc, registry, lock, faults>>

\* compose up -d of what the main server runs, with the release of .env.
ComposeUp ==
  /\ proc' = [e \in Executors |->
                IF e \in Local /\ proc[e].mode \in {"stopped", "starting"}
                THEN [proc[e] EXCEPT !.image = envRelease, !.mode = "starting"] ELSE proc[e]]
  /\ UNCHANGED <<registry, lock>>

Up ==
  /\ Step("up", "idle")
  /\ ComposeUp
  /\ UNCHANGED <<cluster, envRelease, faults>>

\* A command of the installer fails.
Abort ==
  /\ installer # "idle" /\ Slip
  /\ installer' = "idle"
  /\ UNCHANGED <<cluster, envRelease, proc, registry, lock>>

\* Somebody starts the services by hand, perhaps after an installer gave up.
UpByHand ==
  /\ Slip
  /\ ComposeUp
  /\ UNCHANGED <<cluster, envRelease, installer>>

-----------------------------------------------------------------------------
\* Work without a right to it: of another release, or without the lock.
Astray(e) == Alive(e) /\ (~Current(e) \/ (e \in Schedulers /\ lock # e))

\* Every loop has had its turn, and no drain takes longer than it may.
Tick ==
  /\ \A e \in Executors :
       /\ proc[e].mode \in {"standby", "ready"} => proc[e].beaten
       /\ proc[e].mode = "draining" => proc[e].drained < DrainOf(e)
  /\ proc' = [e \in Executors |->
                [proc[e] EXCEPT !.beaten = FALSE,
                                !.drained = IF proc[e].mode = "draining" THEN @ + 1 ELSE 0,
                                !.astray = IF Astray(e) THEN Min({@ + 1, Drain + 2}) ELSE 0]]
  /\ registry' = [e \in Executors |-> [registry[e] EXCEPT !.age = Min({@ + 1, Fresh + 1})]]
  /\ UNCHANGED <<cluster, envRelease, installer, lock, faults>>

Process(e) == StartWorker(e) \/ Lead(e) \/ StandBy(e) \/ StandByRefused(e) \/ Beat(e) \/ LoopEnds(e)

Next ==
  \/ \E e \in Executors : Process(e) \/ EndDrain(e) \/ Die(e) \/ BeatFails(e) \/ StopRemote(e)
  \/ \E e \in Executors, r \in Releases : InstallRemote(e, r)
  \/ SessionLost
  \/ \E r \in Releases : Begin(r)
  \/ Check("check", "drain") \/ DrainLocal \/ Check("recheck", "migrate")
  \/ Migrate \/ SetRelease \/ Up \/ Abort \/ UpByHand
  \/ Tick

Spec == Init /\ [][Next]_vars

\* Processes run, docker starts them again, a drain ends, time passes: the turns
\* of all of them go on, and the free lock is taken by one of those that ask.
FairSpec ==
  /\ Spec
  /\ WF_vars(\E e \in Executors : Process(e) \/ EndDrain(e))
  /\ WF_vars(\E e \in Schedulers : Lead(e))
  /\ WF_vars(Tick)

-----------------------------------------------------------------------------
TypeOK ==
  /\ release \in Releases /\ schema \in Releases /\ envRelease \in Releases
  /\ installer \in {"idle", "check", "drain", "recheck", "migrate", "name", "up"}
  /\ proc \in [Executors -> [image : Releases, mode : Modes, next : {"starting", "stopped"},
                             beaten : BOOLEAN, drained : 0 .. Drain, astray : 0 .. Drain + 2]]
  /\ registry \in [Executors -> [status : {"ready", "standby", "failed", "stopped"}, age : 0 .. Fresh + 1]]
  /\ lock \in Schedulers \union {NONE} /\ faults \in 0 .. MaxFaults

\* No process of the main server works on a schema that is not its release's:
\* not one that was being restarted while the others were drained, nor one
\* started by hand while the installer is half way, or after it has given up.
\* install.py drain_local_executors, main; runtime.py validate_release.
LocalNeverMixed == \A e \in Local : Alive(e) => proc[e].image = schema

\* A process whose release was replaced under it, or whose session lost the
\* lock, is noticed by its next turn and is gone when its drain is over: two
\* schedulers overlap, and two releases work, for no longer than that.
\* runtime.py supervise.
AstrayIsShort == \A e \in Executors : proc[e].astray <= 1 + DrainOf(e)

\* While a scheduler of the right release is kept running, there is again and
\* again one that leads, whatever became of the sessions before.
\* run_scheduler.py.
LeaderReturns ==
  <>[](\E e \in Schedulers : Current(e) /\ proc[e].mode \in {"starting", "standby", "ready"})
    => []<>(\E e \in Schedulers : lock = e /\ proc[e].mode = "ready")
=============================================================================
