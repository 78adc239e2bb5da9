----------------------------- MODULE NodeExecutor -----------------------------
(***************************************************************************)
(* The executors of one network node: network/execution.py, the claim,     *)
(* execution and review of provisioning jobs in network/services.py, and   *)
(* the loop of run_network_jobs.py.  Nodes share nothing of this state, so *)
(* one node stands for each.                                               *)
(*                                                                         *)
(* Two mechanisms keep a node to one executor.  A PostgreSQL session lock  *)
(* lives as long as the database session that took it; a durable lease in  *)
(* the node's row lives 300 seconds and is renewed by every check.  A      *)
(* command already on its way to the router cannot be recalled, so a       *)
(* process that dies or loses its session leaves a job whose effects are   *)
(* unknown: the next owner fails that job and quarantines its router.      *)
(*                                                                         *)
(* One step is one database statement or transaction, one check, or one    *)
(* command reaching the router.  A claim's UUID and the node's generation  *)
(* change together and are compared only for equality: they are one token, *)
(* fresh among those still held.                                           *)
(***************************************************************************)
EXTENDS Integers, FiniteSets

CONSTANTS
  Executors,     \* processes of this node that run run_network_jobs or network_lab_onboard
  Jobs,          \* ProvisioningJob rows
  Routers,
  RouterOf,      \* the router of each job
  VerifyOf,      \* the apply job that a verify job inspects, or NoJob
  NoJob, Nobody, Ghost,
  DirectEntry,   \* whether network_lab_onboard is used
  MaxCommands,   \* bound: commands of one execution
  MaxFaults      \* bound: deaths, lost sessions and stalls of one behaviour

ASSUME ExecutorAssumption ==
  /\ IsFiniteSet(Executors) /\ IsFiniteSet(Jobs) /\ NoJob \notin Jobs
  /\ Nobody \notin Executors /\ Ghost \notin Executors /\ Nobody # Ghost
  /\ RouterOf \in [Jobs -> Routers]
  /\ VerifyOf \in [Jobs -> Jobs \cup {NoJob}]
  /\ \A j \in Jobs : VerifyOf[j] # NoJob => VerifyOf[j] # j /\ RouterOf[VerifyOf[j]] = RouterOf[j]
  /\ DirectEntry \in BOOLEAN
  /\ MaxCommands \in Nat /\ MaxFaults \in Nat

VARIABLES
  lock,       \* session lock: its holder, Nobody, or Ghost for a session the
              \* server has not yet found dead
  node,       \* the NetworkNode row: token and state of the lease
  job,        \* the ProvisioningJob table
  blocked,    \* routers with execution_blocked
  ex,         \* the local state of each executor
  faults,     \* deaths, lost sessions and stalls so far
  uncertain,  \* jobs failed by recovery and not retried since (history)
  reviewed    \* routers an operator has released after an interruption (history)

history == <<uncertain, reviewed>>
vars == <<lock, node, job, blocked, ex, faults, history>>

-----------------------------------------------------------------------------
Steps == {"idle", "locked", "owner", "recover", "ready", "claim", "start", "work",
          "command", "answered", "done", "final", "commit", "release", "unlock"}

\* Steps inside the try block of _execute_job that begin with a check.
GuardedSteps == {"start", "work", "answered", "done"}

\* Steps that are one statement or transaction of the session.
SessionSteps == {"locked", "recover", "claim", "commit", "unlock"}

\* Enough that an acquisition always finds a fresh one: the node, every
\* executor and every running job hold one at most.
Tokens == 1..(Cardinality(Executors) + Cardinality(Jobs) + 2)

Idle == [pc |-> "idle", session |-> TRUE, token |-> 0, job |-> NoJob,
         sent |-> 0, late |-> 0, verdict |-> "none"]

\* Every row and process holds values of its type.
TypeOK ==
  /\ lock \in Executors \cup {Nobody, Ghost}
  /\ node \in [token : Tokens \cup {0}, live : BOOLEAN]
  /\ job \in [Jobs -> [status : {"absent", "pending", "running", "succeeded", "failed"},
                       token : Tokens \cup {0}]]
  /\ blocked \subseteq Routers
  /\ ex \in [Executors -> [pc : Steps, session : BOOLEAN, token : Tokens \cup {0},
                           job : Jobs \cup {NoJob}, sent : 0..MaxCommands, late : 0..MaxCommands,
                           verdict : {"none", "succeeded", "failed"}]]
  /\ faults \in 0..MaxFaults
  /\ uncertain \subseteq Jobs /\ reviewed \subseteq Routers

Init ==
  /\ lock = Nobody
  /\ node = [token |-> 0, live |-> FALSE]
  /\ job = [j \in Jobs |-> [status |-> "absent", token |-> 0]]
  /\ blocked = {}
  /\ ex = [w \in Executors |-> Idle]
  /\ faults = 0 /\ uncertain = {} /\ reviewed = {}

Goto(w, step) == ex' = [ex EXCEPT ![w].pc = step]

\* The router the executor works on.
Target(w) == RouterOf[ex[w].job]

RunningOn(r) == {j \in Jobs : RouterOf[j] = r /\ job[j].status = "running"}

-----------------------------------------------------------------------------
(* Staff: the network views and network_lab_onboard.                       *)

Enqueue(j) ==
  /\ job[j].status = "absent"
  /\ job' = [job EXCEPT ![j].status = "pending"]
  /\ UNCHANGED <<lock, node, blocked, ex, faults, history>>

\* retry_reviewed_job: any failed job, while nobody executes on the node.
Retry(j) ==
  /\ job[j].status = "failed"
  /\ ~(node.token # 0 /\ node.live)
  /\ RunningOn(RouterOf[j]) = {}
  /\ job' = [job EXCEPT ![j] = [status |-> "pending", token |-> 0]]
  /\ blocked' = blocked \ {RouterOf[j]}
  /\ uncertain' = uncertain \ {j}
  /\ reviewed' = reviewed \cup {RouterOf[j]}
  /\ UNCHANGED <<lock, node, ex, faults>>

-----------------------------------------------------------------------------
(* node_execution: lock, lease, release.                                   *)

\* Faulty: relies on the lease alone, as on a database without session locks.
TryLockByLease(w) ==
  /\ ex[w].pc = "idle"
  /\ ex' = [ex EXCEPT ![w].pc = "locked"]
  /\ lock' = w
  /\ UNCHANGED <<node, job, blocked, faults, history>>

\* pg_try_advisory_lock.  The loop enters without a job, the onboarding
\* command with the one it has just queued or retried.
TryLock(w) ==
  /\ ex[w].pc = "idle" /\ lock = Nobody
  /\ \E j \in Jobs \cup {NoJob} :
       /\ j # NoJob => DirectEntry /\ job[j].status = "pending"
       /\ ex' = [ex EXCEPT ![w].pc = "locked", ![w].job = j]
  /\ lock' = w
  /\ UNCHANGED <<node, job, blocked, faults, history>>

\* Tokens that some row or process could still compare with the node's.
Held == {node.token} \cup {ex[w].token : w \in Executors}
          \cup {job[j].token : j \in {k \in Jobs : job[k].status = "running"}}
Fresh == CHOOSE t \in Tokens : t \notin Held

\* The transaction on the node's row, refused while its lease is live.
Acquire(w) ==
  /\ ex[w].pc = "locked" /\ ex[w].session
  /\ IF node.token # 0 /\ node.live
     THEN Goto(w, "unlock") /\ UNCHANGED node
     ELSE /\ node' = [token |-> Fresh, live |-> TRUE]
          /\ ex' = [ex EXCEPT ![w].token = Fresh,
                              ![w].pc = IF ex[w].job = NoJob THEN "owner" ELSE "claim"]
  /\ UNCHANGED <<lock, job, blocked, faults, history>>

\* A process that can renew the lease.
Alive(w) == ex[w].session /\ ex[w].token = node.token

\* 300 seconds pass without a check: nobody is left to make one ...
LeaseExpires ==
  /\ node.token # 0 /\ node.live /\ ~\E w \in Executors : Alive(w)
  /\ node' = [node EXCEPT !.live = FALSE]
  /\ UNCHANGED <<lock, job, blocked, ex, faults, history>>

\* ... or the process is that slow, at any of its steps.
Stall(w) ==
  /\ node.token # 0 /\ node.live /\ Alive(w) /\ faults < MaxFaults
  /\ node' = [node EXCEPT !.live = FALSE]
  /\ faults' = faults + 1
  /\ UNCHANGED <<lock, job, blocked, ex, history>>

\* Faulty: asks whether the node is reserved, not by whom.
CheckedReserved(w) == node.token # 0 /\ node.live

\* NodeLease.check, which also renews the lease it has found live.
Checked(w) == ex[w].session /\ node.token = ex[w].token /\ node.live

\* A failed check.  _execute_job catches it inside its try block and checks
\* once more before it writes; everywhere else it ends the process's turn.
LeaseLost(w) ==
  /\ ~Checked(w)
  /\ \/ ex[w].pc \in GuardedSteps
        /\ ex' = [ex EXCEPT ![w].pc = "final", ![w].verdict = "failed"]
     \/ ex[w].pc \in {"owner", "ready", "final"} /\ Goto(w, "release")
  /\ UNCHANGED <<lock, node, job, blocked, faults, history>>

\* A statement on a session that is gone fails.
SessionGone(w) ==
  /\ ex[w].pc \in SessionSteps /\ ~ex[w].session
  /\ IF ex[w].pc \in {"locked", "unlock"}
     THEN ex' = [ex EXCEPT ![w] = Idle]
     ELSE Goto(w, "release")
  /\ UNCHANGED <<lock, node, job, blocked, faults, history>>

\* The finally block gives up its own lease.  Without its session the process
\* may have reconnected or not, and has no lock to return.
Release(w) ==
  LET given == IF node.token = ex[w].token THEN [token |-> 0, live |-> FALSE] ELSE node IN
  /\ ex[w].pc = "release"
  /\ IF ex[w].session
     THEN node' = given /\ Goto(w, "unlock")
     ELSE node' \in {given, node} /\ ex' = [ex EXCEPT ![w] = Idle]
  /\ UNCHANGED <<lock, job, blocked, faults, history>>

Unlock(w) ==
  /\ ex[w].pc = "unlock" /\ ex[w].session
  /\ lock' = Nobody
  /\ ex' = [ex EXCEPT ![w] = Idle]
  /\ UNCHANGED <<node, job, blocked, faults, history>>

-----------------------------------------------------------------------------
(* The loop: recovery, selection, claim.                                   *)

RecoverCheck(w) ==
  /\ ex[w].pc = "owner" /\ Checked(w)
  /\ Goto(w, "recover")
  /\ UNCHANGED <<lock, node, job, blocked, faults, history>>

\* Faulty: only jobs that nobody has claimed.
InterruptedUnclaimed(w) == {j \in Jobs : job[j].status = "running" /\ job[j].token = 0}

\* Jobs another token left running.
Interrupted(w) == {j \in Jobs : job[j].status = "running" /\ job[j].token # ex[w].token}

Failed(js) == [j \in Jobs |-> IF j \in js THEN [status |-> "failed", token |-> 0] ELSE job[j]]

\* Faulty: fails the jobs and leaves their routers open.
RecoverOpen(w) ==
  /\ ex[w].pc = "recover" /\ ex[w].session
  /\ job' = Failed(Interrupted(w))
  /\ uncertain' = uncertain \cup Interrupted(w)
  /\ Goto(w, "ready")
  /\ UNCHANGED <<lock, node, blocked, faults, reviewed>>

\* recover_interrupted_jobs, after its check.
Recover(w) ==
  /\ ex[w].pc = "recover" /\ ex[w].session
  /\ job' = Failed(Interrupted(w))
  /\ blocked' = blocked \cup {RouterOf[j] : j \in Interrupted(w)}
  /\ uncertain' = uncertain \cup Interrupted(w)
  /\ Goto(w, "ready")
  /\ UNCHANGED <<lock, node, faults, reviewed>>

Eligible == {j \in Jobs : /\ job[j].status = "pending"
                          /\ RouterOf[j] \notin blocked /\ RunningOn(RouterOf[j]) = {}}

\* The loop's query, and the check of the nested node_execution.
Select(w) ==
  /\ ex[w].pc = "ready"
  /\ \/ \E j \in Eligible : Checked(w) /\ ex' = [ex EXCEPT ![w].pc = "claim", ![w].job = j]
     \/ Eligible = {} /\ Goto(w, "release")
  /\ UNCHANGED <<lock, node, job, blocked, faults, history>>

\* The claim of process_job, which does not look at other jobs of the router.
Claim(w) ==
  LET j == ex[w].job IN
  /\ ex[w].pc = "claim" /\ ex[w].session
  /\ IF job[j].status = "pending" /\ RouterOf[j] \notin blocked
     THEN /\ job' = [job EXCEPT ![j] = [status |-> "running", token |-> ex[w].token]]
          /\ Goto(w, "start")
     ELSE UNCHANGED job /\ Goto(w, "release")
  /\ UNCHANGED <<lock, node, blocked, faults, history>>

-----------------------------------------------------------------------------
(* _execute_job.                                                           *)

Start(w) ==
  /\ ex[w].pc = "start" /\ Checked(w)
  /\ Goto(w, "work")
  /\ UNCHANGED <<lock, node, job, blocked, faults, history>>

\* The check before a command of RouterOS.run or call_agent.
Issue(w) ==
  /\ ex[w].pc = "work" /\ Checked(w) /\ ex[w].sent < MaxCommands
  /\ Goto(w, "command")
  /\ UNCHANGED <<lock, node, job, blocked, faults, history>>

\* The command takes effect on the router or its agent, and its answer is
\* good, or an error that ends the job; a command may also fail to leave.
Command(w) ==
  /\ ex[w].pc = "command"
  /\ \E good \in BOOLEAN, left \in {0, 1} :
       /\ good => left = 1
       /\ ex' = [ex EXCEPT ![w].sent = @ + left,
                           ![w].late = IF node.token # ex[w].token THEN @ + left ELSE @,
                           ![w].pc = IF good THEN "answered" ELSE "final",
                           ![w].verdict = IF good THEN @ ELSE "failed"]
  /\ UNCHANGED <<lock, node, job, blocked, faults, history>>

\* The check after the command.
Answered(w) ==
  /\ ex[w].pc = "answered" /\ Checked(w)
  /\ Goto(w, "work")
  /\ UNCHANGED <<lock, node, job, blocked, faults, history>>

\* verify finds resources missing: the latest apply job of the router is to be retried.
FindMissing(w) ==
  LET source == VerifyOf[ex[w].job] IN
  /\ ex[w].pc = "work" /\ ex[w].session
  /\ source # NoJob /\ job[source].status # "absent"
  /\ job' = Failed({source})
  /\ Goto(w, "done")
  /\ UNCHANGED <<lock, node, blocked, faults, history>>

\* The job has no more commands.
Complete(w) ==
  /\ ex[w].pc = "work"
  /\ Goto(w, "done")
  /\ UNCHANGED <<lock, node, job, blocked, faults, history>>

\* The check before the result is taken as a success.
Succeed(w) ==
  /\ ex[w].pc = "done" /\ Checked(w)
  /\ ex' = [ex EXCEPT ![w].pc = "final", ![w].verdict = "succeeded"]
  /\ UNCHANGED <<lock, node, job, blocked, faults, history>>

\* The check before the result is written.
FinalCheck(w) ==
  /\ ex[w].pc = "final" /\ Checked(w)
  /\ Goto(w, "commit")
  /\ UNCHANGED <<lock, node, job, blocked, faults, history>>

\* The conditional update.
Commit(w) ==
  LET j == ex[w].job IN
  /\ ex[w].pc = "commit" /\ ex[w].session
  /\ job' = IF job[j] = [status |-> "running", token |-> ex[w].token]
            THEN [job EXCEPT ![j] = [status |-> ex[w].verdict, token |-> 0]] ELSE job
  /\ Goto(w, "release")
  /\ UNCHANGED <<lock, node, blocked, faults, history>>

-----------------------------------------------------------------------------
(* Faults.  The server frees the lock of a dead session at once, or after  *)
(* the network tells it.                                                   *)

Abandoned(w) == lock' \in IF lock = w THEN {Nobody, Ghost} ELSE {lock}

Crash(w) ==
  /\ ex[w].pc # "idle" /\ faults < MaxFaults
  /\ faults' = faults + 1
  /\ ex' = [ex EXCEPT ![w] = Idle]
  /\ Abandoned(w)
  /\ UNCHANGED <<node, job, blocked, history>>

LoseSession(w) ==
  /\ ex[w].pc # "idle" /\ ex[w].session /\ faults < MaxFaults
  /\ faults' = faults + 1
  /\ ex' = [ex EXCEPT ![w].session = FALSE]
  /\ Abandoned(w)
  /\ UNCHANGED <<node, job, blocked, history>>

ServerNotices ==
  /\ lock = Ghost
  /\ lock' = Nobody
  /\ UNCHANGED <<node, job, blocked, ex, faults, history>>

-----------------------------------------------------------------------------
\* The steps of an executor that has entered node_execution.
Turn(w) ==
  \/ Acquire(w) \/ LeaseLost(w) \/ SessionGone(w) \/ Release(w) \/ Unlock(w)
  \/ RecoverCheck(w) \/ Recover(w) \/ Select(w) \/ Claim(w) \/ Start(w) \/ Issue(w)
  \/ Command(w) \/ Answered(w) \/ FindMissing(w) \/ Complete(w) \/ Succeed(w)
  \/ FinalCheck(w) \/ Commit(w)

Next ==
  \/ \E j \in Jobs : Enqueue(j) \/ Retry(j)
  \/ \E w \in Executors : TryLock(w) \/ Turn(w) \/ Stall(w) \/ Crash(w) \/ LoseSession(w)
  \/ LeaseExpires \/ ServerNotices

Spec == Init /\ [][Next]_vars

\* The supervisor restarts the loop, which tries every two seconds; a lease
\* that nobody renews expires; TCP keepalives end dead sessions.
Fairness ==
  /\ \A w \in Executors : WF_vars(Turn(w))
  /\ WF_vars(\E w \in Executors : TryLock(w))
  /\ WF_vars(LeaseExpires) /\ WF_vars(ServerNotices)

FairSpec == Spec /\ Fairness

-----------------------------------------------------------------------------
(* Safety.                                                                 *)

\* From its claim to its commit, with the session it took the lock in.
Executing(w) == /\ ex[w].session
                /\ ex[w].pc \in {"start", "work", "command", "answered", "done", "final",
                                 "commit"}

\* Two processes never both execute jobs of the node while both have their
\* sessions, even when one is so slow that its lease expires under it.
OneExecutor == \A v, w \in Executors : Executing(v) /\ Executing(w) => v = w

\* A process whose place was taken sends the router one more command at most:
\* the one it had been cleared for.
OneLateCommand == \A w \in Executors : ex[w].late <= 1

\* Commands of two processes mix on a router only where an operator released it, or
\* where the onboarding command, which does not recover, came before the recovery. Once
\* the job of a late command was recovered, no process in its session works beside it.
RouterIsLeftAlone ==
  \A v, w \in Executors :
    /\ v # w /\ ex[v].pc = "command" /\ ex[w].pc = "command" /\ Target(v) = Target(w)
    => \/ Target(v) \in reviewed
       \/ DirectEntry /\ (ex[v].session => ex[w].job \notin uncertain)

\* A router with a job that recovery failed stays quarantined until that job is
\* retried (docs/network-nodes.md, "Ownership, concurrency and interrupted effects").
\* The code does not keep it (README, Disagreements).
QuarantineHolds == \A j \in uncertain : RouterOf[j] \in blocked

-----------------------------------------------------------------------------
(* Action and liveness properties.                                         *)

\* Recovery fails a job only if no process can still finish it: the one that
\* claimed it is dead, or has lost the session without which it writes nothing.
RecoversOnlyTheDead ==
  [][\A v, w \in Executors, j \in Jobs :
       /\ ex[w].pc = "recover" /\ job[j].status = "running" /\ job'[j].status = "failed"
       /\ ex[w].pc # ex'[w].pc
       /\ ex[v].job = j /\ ex[v].token = job[j].token
       => ~ex[v].session]_vars

\* No job stays running for ever, whatever dies under it.
RunningEnds == \A j \in Jobs : job[j].status = "running" ~> job[j].status # "running"
=============================================================================
