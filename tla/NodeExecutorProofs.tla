-------------------------- MODULE NodeExecutorProofs --------------------------
(***************************************************************************)
(* Proofs about NodeExecutor for every finite set of processes and jobs.   *)
(*                                                                         *)
(* First types, with what a process knows at each of its steps.  Then the  *)
(* lock: who has a session and is not idle holds it, so one process at     *)
(* most executes, and recovery fails no job that its process can still     *)
(* finish.  Last the lease: a process that has sent a late command has     *)
(* lost its token for good, since a fresh token is never one still held,   *)
(* and no check will clear it for another.  Then the router: who works in  *)
(* its session works where nothing is quarantined, and where only the loop *)
(* is used, work on one router that nobody has released is of one process. *)
(***************************************************************************)
EXTENDS NodeExecutor, FiniteSetTheorems, TLAPS

JobRow == [status : {"absent", "pending", "running", "succeeded", "failed"},
           token : Tokens \cup {0}]

Process == [pc : Steps, session : BOOLEAN, token : Tokens \cup {0},
            job : Jobs \cup {NoJob}, sent : 0..MaxCommands, late : 0..MaxCommands,
            verdict : {"none", "succeeded", "failed"}]

Entered == {"owner", "recover", "ready", "claim", "start", "work", "command", "answered",
            "done", "final", "commit", "release"}

Assigned == {"claim", "start", "work", "command", "answered", "done", "final", "commit"}

\* The steps of a process whose place may have been taken after it was cleared
\* for a command.
Overdue == {"answered", "final", "release", "unlock"}

\* What a process knows by the step it is at.
WellPlaced(p) ==
  /\ p.pc = "idle" => p = Idle
  /\ p.pc \in Entered => p.token # 0
  /\ p.pc \in Assigned => p.job \in Jobs
  /\ p.pc \in {"final", "commit"} => p.verdict # "none"
  /\ p.pc = "command" => p.sent < MaxCommands
  /\ p.late > 0 => p.pc \in Overdue

ProcessInv == \A w \in Executors : WellPlaced(ex[w])

\* The session lock belongs to whoever works in the session that took it.
LockInv == \A w \in Executors : ex[w].session /\ ex[w].pc # "idle" => lock = w

\* A late command was the only one and its process has lost its token.
LateInv == \A w \in Executors : ex[w].late > 0 =>
  ex[w].late = 1 /\ ex[w].token # 0 /\ ex[w].token # node.token

-----------------------------------------------------------------------------
(* Tokens.                                                                 *)

\* The tokens in use are fewer than the tokens there are.
LEMMA HeldIsSmall ==
  ASSUME TypeOK
  PROVE  IsFiniteSet(Held) /\ Cardinality(Held) <= Cardinality(Executors) + Cardinality(Jobs) + 1
<1> DEFINE Running == {k \in Jobs : job[k].status = "running"}
           E == {ex[w].token : w \in Executors}
           J == {job[j].token : j \in Running}
           f == [w \in Executors |-> ex[w].token]
           g == [j \in Running |-> job[j].token]
<1>1. IsFiniteSet(E) /\ Cardinality(E) <= Cardinality(Executors)
  <2>1. f \in Surjection(Executors, E)
    BY DEF Surjection
  <2> QED
    BY <2>1, FS_Surjection, ExecutorAssumption
<1>2. IsFiniteSet(Running) /\ Cardinality(Running) <= Cardinality(Jobs)
  BY FS_Subset, ExecutorAssumption
<1>3. IsFiniteSet(J) /\ Cardinality(J) <= Cardinality(Running)
  <2>1. g \in Surjection(Running, J)
    BY DEF Surjection
  <2> QED
    BY <2>1, <1>2, FS_Surjection
<1>4. IsFiniteSet({node.token}) /\ Cardinality({node.token}) = 1
  BY FS_Singleton
<1> HIDE DEF E, J, Running
<1>5. IsFiniteSet({node.token} \cup E) /\ Cardinality({node.token} \cup E) <= 1 + Cardinality(E)
  <2>1. Cardinality({node.token} \cap E) \in Nat /\ Cardinality(E) \in Nat
    BY <1>1, FS_Intersection, FS_CardinalityType
  <2>2. /\ IsFiniteSet({node.token} \cup E)
        /\ Cardinality({node.token} \cup E)
             = Cardinality({node.token}) + Cardinality(E) - Cardinality({node.token} \cap E)
    BY <1>1, <1>4, FS_Union
  <2> QED
    BY <1>4, <2>1, <2>2
<1>6. /\ IsFiniteSet(({node.token} \cup E) \cup J)
      /\ Cardinality(({node.token} \cup E) \cup J) <= 1 + Cardinality(E) + Cardinality(J)
  <2>1. Cardinality(({node.token} \cup E) \cap J) \in Nat
    BY <1>3, <1>5, FS_Intersection, FS_CardinalityType
  <2>2. Cardinality(E) \in Nat /\ Cardinality(J) \in Nat
        /\ Cardinality({node.token} \cup E) \in Nat
    BY <1>1, <1>3, <1>5, FS_CardinalityType
  <2>3. /\ IsFiniteSet(({node.token} \cup E) \cup J)
        /\ Cardinality(({node.token} \cup E) \cup J)
             = Cardinality({node.token} \cup E) + Cardinality(J)
               - Cardinality(({node.token} \cup E) \cap J)
    BY <1>3, <1>5, FS_Union
  <2> QED
    BY <1>5, <2>1, <2>2, <2>3
<1>7. Held = ({node.token} \cup E) \cup J
  BY DEF Held, E, J, Running
<1>8. /\ Cardinality(E) \in Nat /\ Cardinality(J) \in Nat /\ Cardinality(Running) \in Nat
      /\ Cardinality(Executors) \in Nat /\ Cardinality(Jobs) \in Nat
      /\ Cardinality(({node.token} \cup E) \cup J) \in Nat
  BY <1>1, <1>2, <1>3, <1>6, FS_CardinalityType, ExecutorAssumption
<1> QED
  BY <1>1, <1>2, <1>3, <1>6, <1>7, <1>8

\* An acquisition finds a token that nobody holds.
LEMMA FreshIsFree ==
  ASSUME TypeOK
  PROVE  Fresh \in Tokens /\ Fresh # 0 /\ Fresh \notin Held
<1>1. Cardinality(Executors) \in Nat /\ Cardinality(Jobs) \in Nat
  BY FS_CardinalityType, ExecutorAssumption
<1>2. IsFiniteSet(Tokens) /\ Cardinality(Tokens) = Cardinality(Executors) + Cardinality(Jobs) + 2
  <2> DEFINE n == Cardinality(Executors) + Cardinality(Jobs) + 2
  <2>1. n \in Nat /\ n > 1
    BY <1>1
  <2> HIDE DEF n
  <2>2. IsFiniteSet(1..n) /\ Cardinality(1..n) = n
    BY <2>1, FS_Interval
  <2> QED
    BY <2>2 DEF Tokens, n
<1>3. \E t \in Tokens : t \notin Held
  <2> SUFFICES ASSUME Tokens \subseteq Held PROVE FALSE
    OBVIOUS
  <2>1. Cardinality(Tokens) <= Cardinality(Held)
    BY HeldIsSmall, FS_Subset
  <2>2. Cardinality(Held) \in Nat
    BY HeldIsSmall, FS_CardinalityType
  <2> QED
    BY <1>1, <1>2, <2>1, <2>2, HeldIsSmall
<1>4. 0 \notin Tokens
  BY <1>1 DEF Tokens
<1> QED
  BY <1>3, <1>4 DEF Fresh

-----------------------------------------------------------------------------
(* Types, and what a process knows.                                        *)

\* The initial state is typed; no process works.
LEMMA TypeInit == Init => TypeOK /\ ProcessInv /\ LockInv /\ LateInv
<1> SUFFICES ASSUME Init PROVE TypeOK /\ ProcessInv /\ LockInv /\ LateInv
  OBVIOUS
<1>1. Idle \in Process
  BY ExecutorAssumption DEF Idle, Process, Steps
<1>2. ex \in [Executors -> Process]
  BY <1>1 DEF Init
<1>3. TypeOK
  BY <1>2, ExecutorAssumption DEF Init, TypeOK, Process
<1>4. WellPlaced(Idle)
  BY DEF WellPlaced, Idle, Assigned, Entered
<1> QED
  BY <1>3, <1>4, ExecutorAssumption DEF Init, ProcessInv, LockInv, LateInv, Idle

\* A process whose new state is typed and well placed leaves the others alone.
LEMMA OwnStep ==
  ASSUME ex \in [Executors -> Process], ProcessInv, NEW w \in Executors, NEW p \in Process,
         WellPlaced(p), ex' = [ex EXCEPT ![w] = p]
  PROVE  ex' \in [Executors -> Process] /\ ProcessInv'
BY DEF ProcessInv

\* A row whose new state is typed leaves the others alone.
LEMMA RowStep ==
  ASSUME job \in [Jobs -> JobRow], NEW j \in Jobs, NEW r \in JobRow,
         job' = [job EXCEPT ![j] = r]
  PROVE  job' \in [Jobs -> JobRow]
OBVIOUS

\* Failing some rows leaves the table typed.
LEMMA FailedType ==
  ASSUME job \in [Jobs -> JobRow], NEW S, job' = Failed(S)
  PROVE  job' \in [Jobs -> JobRow]
BY DEF Failed, JobRow

\* The type invariant in the terms of this module.
LEMMA TypeParts ==
  TypeOK <=> /\ lock \in Executors \cup {Nobody, Ghost}
             /\ node \in [token : Tokens \cup {0}, live : BOOLEAN]
             /\ job \in [Jobs -> JobRow]
             /\ blocked \subseteq Routers
             /\ ex \in [Executors -> Process]
             /\ faults \in 0..MaxFaults
             /\ uncertain \subseteq Jobs /\ reviewed \subseteq Routers
BY DEF TypeOK, JobRow, Process

\* And in the next state.
LEMMA TypePartsNext ==
  TypeOK' <=> /\ lock' \in Executors \cup {Nobody, Ghost}
              /\ node' \in [token : Tokens \cup {0}, live : BOOLEAN]
              /\ job' \in [Jobs -> JobRow]
              /\ blocked' \subseteq Routers
              /\ ex' \in [Executors -> Process]
              /\ faults' \in 0..MaxFaults
              /\ uncertain' \subseteq Jobs /\ reviewed' \subseteq Routers
BY DEF TypeOK, JobRow, Process

\* The steps that only move their process to another step.
LEMMA MoveStep ==
  ASSUME ex \in [Executors -> Process], ProcessInv, NEW w \in Executors, NEW s \in Steps,
         Goto(w, s), s # "idle",
         s \in Entered => ex[w].token # 0,
         s \in Assigned => ex[w].job \in Jobs,
         s \in {"final", "commit"} => ex[w].verdict # "none",
         s = "command" => ex[w].sent < MaxCommands,
         ex[w].late > 0 => s \in Overdue
  PROVE  ex' \in [Executors -> Process] /\ ProcessInv'
<1> DEFINE p == [ex[w] EXCEPT !.pc = s]
<1>1. p \in Process /\ ex' = [ex EXCEPT ![w] = p]
  BY DEF Process, Goto
<1>2. WellPlaced(p)
  BY DEF WellPlaced, Process
<1> QED
  BY <1>1, <1>2, OwnStep

Inv == TypeOK /\ ProcessInv /\ LockInv /\ LateInv

\* Steps of the lock and the lease.
LEMMA LockTypes ==
  ASSUME Inv, NEW w \in Executors,
         TryLock(w) \/ Acquire(w) \/ LeaseLost(w) \/ SessionGone(w) \/ Release(w) \/ Unlock(w)
  PROVE  TypeOK' /\ ProcessInv'
<1> USE TypeParts, TypePartsNext DEF Inv
<1>1. Idle \in Process /\ WellPlaced(Idle)
  BY ExecutorAssumption DEF Idle, Process, Steps, WellPlaced, Assigned, Entered
<1>2. ex[w] \in Process /\ WellPlaced(ex[w])
  BY DEF ProcessInv
<1>3. /\ ex' \in [Executors -> Process] /\ ProcessInv'
      /\ node' \in [token : Tokens \cup {0}, live : BOOLEAN]
      /\ lock' \in Executors \cup {Nobody, Ghost}
      /\ UNCHANGED <<job, blocked, faults, history>>
  <2>1. CASE TryLock(w)
    <3>1. PICK j \in Jobs \cup {NoJob} : ex' = [ex EXCEPT ![w].pc = "locked", ![w].job = j]
      BY <2>1 DEF TryLock
    <3> DEFINE p == [ex[w] EXCEPT !.pc = "locked", !.job = j]
    <3>2. p \in Process /\ ex' = [ex EXCEPT ![w] = p]
      BY <1>2, <3>1 DEF Process, Steps
    <3>3. WellPlaced(p)
      BY <1>2, <2>1 DEF TryLock, WellPlaced, Process, Idle, Assigned, Entered, Overdue
    <3>4. ex' \in [Executors -> Process] /\ ProcessInv'
      BY <3>2, <3>3, OwnStep
    <3> QED
      BY <2>1, <3>4 DEF TryLock
  <2>2. CASE Acquire(w)
    <3>1. CASE Goto(w, "unlock") /\ UNCHANGED node
      <4>1. ex' \in [Executors -> Process] /\ ProcessInv'
        BY <1>2, <3>1, MoveStep DEF Steps, Assigned, Entered, Overdue
      <4> QED
        BY <2>2, <3>1, <4>1 DEF Acquire
    <3>2. CASE /\ node' = [token |-> Fresh, live |-> TRUE]
               /\ ex' = [ex EXCEPT ![w].token = Fresh,
                                   ![w].pc = IF ex[w].job = NoJob THEN "owner" ELSE "claim"]
      <4> DEFINE p == [ex[w] EXCEPT !.token = Fresh,
                                    !.pc = IF ex[w].job = NoJob THEN "owner" ELSE "claim"]
      <4>1. Fresh \in Tokens /\ Fresh # 0
        BY FreshIsFree
      <4>2. p \in Process /\ ex' = [ex EXCEPT ![w] = p]
        BY <1>2, <3>2, <4>1 DEF Process, Steps
      <4>3. WellPlaced(p)
        BY <1>2, <2>2, <4>1 DEF Acquire, WellPlaced, Process, Idle, Assigned, Entered, Overdue
      <4>4. ex' \in [Executors -> Process] /\ ProcessInv'
        BY <4>2, <4>3, OwnStep
      <4> QED
        BY <2>2, <3>2, <4>1, <4>4 DEF Acquire
    <3> QED
      BY <2>2, <3>1, <3>2 DEF Acquire
  <2>3. CASE LeaseLost(w)
    <3>1. CASE /\ ex[w].pc \in GuardedSteps
               /\ ex' = [ex EXCEPT ![w].pc = "final", ![w].verdict = "failed"]
      <4> DEFINE p == [ex[w] EXCEPT !.pc = "final", !.verdict = "failed"]
      <4>1. p \in Process /\ ex' = [ex EXCEPT ![w] = p]
        BY <1>2, <3>1 DEF Process, Steps
      <4>2. WellPlaced(p)
        BY <1>2, <3>1 DEF WellPlaced, Process, Assigned, Entered, Overdue, GuardedSteps
      <4>3. ex' \in [Executors -> Process] /\ ProcessInv'
        BY <4>1, <4>2, OwnStep
      <4> QED
        BY <2>3, <4>3 DEF LeaseLost
    <3>2. CASE Goto(w, "release")
      <4>1. ex' \in [Executors -> Process] /\ ProcessInv'
        BY <1>2, <2>3, <3>2, MoveStep
        DEF LeaseLost, GuardedSteps, WellPlaced, Steps, Assigned, Entered, Overdue
      <4> QED
        BY <2>3, <4>1 DEF LeaseLost
    <3> QED
      BY <2>3, <3>1, <3>2 DEF LeaseLost
  <2>4. CASE SessionGone(w)
    <3>1. CASE ex' = [ex EXCEPT ![w] = Idle]
      <4>1. ex' \in [Executors -> Process] /\ ProcessInv'
        BY <1>1, <3>1, OwnStep
      <4> QED
        BY <2>4, <4>1 DEF SessionGone
    <3>2. CASE Goto(w, "release")
      <4>1. ex' \in [Executors -> Process] /\ ProcessInv'
        <5>1. CASE ex[w].pc \in {"locked", "unlock"}
          BY <1>1, <2>4, <5>1, OwnStep DEF SessionGone
        <5>2. CASE ex[w].pc \notin {"locked", "unlock"}
          <6>1. ex[w].token # 0
            BY <1>2, <2>4, <5>2 DEF SessionGone, SessionSteps, WellPlaced, Entered
          <6> QED
            BY <3>2, <6>1, MoveStep DEF Steps, Assigned, Overdue
        <5> QED
          BY <5>1, <5>2
      <4> QED
        BY <2>4, <4>1 DEF SessionGone
    <3> QED
      BY <2>4, <3>1, <3>2 DEF SessionGone
  <2>5. CASE Release(w)
    <3>1. node' \in [token : Tokens \cup {0}, live : BOOLEAN]
      <4>1. node' = [token |-> 0, live |-> FALSE] \/ node' = node
        BY <2>5 DEF Release
      <4>2. node \in [token : Tokens \cup {0}, live : BOOLEAN]
        OBVIOUS
      <4>3. [token |-> 0, live |-> FALSE] \in [token : Tokens \cup {0}, live : BOOLEAN]
        OBVIOUS
      <4> QED
        BY <4>1, <4>2, <4>3
    <3>2. ex' \in [Executors -> Process] /\ ProcessInv'
      <4>1. CASE Goto(w, "unlock")
        BY <1>2, <4>1, MoveStep DEF Steps, Assigned, Entered, Overdue
      <4>2. CASE ex' = [ex EXCEPT ![w] = Idle]
        BY <1>1, <4>2, OwnStep
      <4> QED
        BY <2>5, <4>1, <4>2 DEF Release
    <3> QED
      BY <2>5, <3>1, <3>2 DEF Release
  <2>6. CASE Unlock(w)
    <3>1. ex' \in [Executors -> Process] /\ ProcessInv'
      BY <1>1, <2>6, OwnStep DEF Unlock
    <3> QED
      BY <2>6, <3>1 DEF Unlock
  <2> QED
    BY <2>1, <2>2, <2>3, <2>4, <2>5, <2>6
<1> QED
  BY <1>3 DEF history
\* Steps of the loop: recovery, selection, claim.
LEMMA LoopTypes ==
  ASSUME Inv, NEW w \in Executors,
         RecoverCheck(w) \/ Recover(w) \/ Select(w) \/ Claim(w)
  PROVE  TypeOK' /\ ProcessInv'
<1> USE TypeParts, TypePartsNext DEF Inv
<1>1. ex[w] \in Process /\ WellPlaced(ex[w])
  BY DEF ProcessInv
<1>2. CASE RecoverCheck(w)
  <2>1. ex' \in [Executors -> Process] /\ ProcessInv'
    BY <1>1, <1>2, MoveStep DEF RecoverCheck, WellPlaced, Steps, Assigned, Entered, Overdue
  <2> QED
    BY <1>2, <2>1 DEF RecoverCheck, history
<1>3. CASE Recover(w)
  <2>1. ex' \in [Executors -> Process] /\ ProcessInv'
    BY <1>1, <1>3, MoveStep DEF Recover, WellPlaced, Steps, Assigned, Entered, Overdue
  <2>2. job' \in [Jobs -> JobRow]
    BY <1>3, FailedType DEF Recover
  <2>3. blocked' \subseteq Routers /\ uncertain' \subseteq Jobs
    BY <1>3, ExecutorAssumption DEF Recover, Interrupted
  <2> QED
    BY <1>3, <2>1, <2>2, <2>3 DEF Recover
<1>4. CASE Select(w)
  <2>1. ex' \in [Executors -> Process] /\ ProcessInv'
    <3>1. CASE Goto(w, "release")
      BY <1>1, <1>4, <3>1, MoveStep DEF Select, WellPlaced, Steps, Assigned, Entered, Overdue
    <3>2. ASSUME NEW j \in Jobs, ex' = [ex EXCEPT ![w].pc = "claim", ![w].job = j]
          PROVE  ex' \in [Executors -> Process] /\ ProcessInv'
      <4> DEFINE p == [ex[w] EXCEPT !.pc = "claim", !.job = j]
      <4>1. p \in Process /\ ex' = [ex EXCEPT ![w] = p]
        BY <1>1, <3>2 DEF Process, Steps
      <4>2. WellPlaced(p)
        BY <1>1, <1>4 DEF Select, WellPlaced, Process, Assigned, Entered, Overdue
      <4> QED
        BY <4>1, <4>2, OwnStep
    <3> QED
      BY <1>4, <3>1, <3>2 DEF Select, Eligible
  <2> QED
    BY <1>4, <2>1 DEF Select, history
<1>5. CASE Claim(w)
  <2>1. ex[w].job \in Jobs /\ ex[w].late = 0 /\ ex[w].token # 0
    BY <1>1, <1>5 DEF Claim, WellPlaced, Assigned, Entered, Overdue, Process
  <2>2. ex' \in [Executors -> Process] /\ ProcessInv'
    <3>1. CASE Goto(w, "start")
      BY <2>1, <3>1, MoveStep DEF Steps
    <3>2. CASE Goto(w, "release")
      BY <2>1, <3>2, MoveStep DEF Steps, Assigned, Entered
    <3> QED
      BY <1>5, <3>1, <3>2 DEF Claim
  <2>3. job' \in [Jobs -> JobRow]
    <3>1. [status |-> "running", token |-> ex[w].token] \in JobRow
      BY <1>1 DEF Process, JobRow
    <3> QED
      BY <1>5, <2>1, <3>1, RowStep DEF Claim
  <2> QED
    BY <1>5, <2>2, <2>3 DEF Claim, history
<1> QED
  BY <1>2, <1>3, <1>4, <1>5

\* Steps of the execution of a job.
LEMMA ExecutionTypes ==
  ASSUME Inv, NEW w \in Executors,
         \/ Start(w) \/ Issue(w) \/ Command(w) \/ Answered(w) \/ FindMissing(w)
         \/ Complete(w) \/ Succeed(w) \/ FinalCheck(w) \/ Commit(w)
  PROVE  TypeOK' /\ ProcessInv'
<1> USE TypeParts, TypePartsNext DEF Inv
<1>1. ex[w] \in Process /\ WellPlaced(ex[w])
  BY DEF ProcessInv
<1>2. ex[w].pc \in Assigned => ex[w].job \in Jobs /\ ex[w].token # 0
  BY <1>1 DEF WellPlaced, Assigned, Entered
<1>3. Checked(w) => ex[w].late = 0
  BY <1>1 DEF Checked, LateInv, Process
<1>4. ex[w].pc \notin Overdue => ex[w].late = 0
  BY <1>1 DEF WellPlaced, Process
<1>5. CASE Start(w) \/ Issue(w) \/ Answered(w) \/ Complete(w) \/ FinalCheck(w)
  <2>1. PICK s \in {"work", "command", "done", "commit"} :
          /\ Goto(w, s)
          /\ s = "command" => ex[w].sent < MaxCommands
          /\ s = "commit" => ex[w].pc = "final"
    BY <1>5 DEF Start, Issue, Answered, Complete, FinalCheck
  <2>2. ex[w].pc \in Assigned /\ ex[w].late = 0
    BY <1>3, <1>4, <1>5 DEF Start, Issue, Answered, Complete, FinalCheck, Assigned, Entered, Overdue
  <2>3. ex' \in [Executors -> Process] /\ ProcessInv'
    BY <1>1, <1>2, <2>1, <2>2, MoveStep DEF Steps, WellPlaced
  <2> QED
    BY <1>5, <2>3 DEF Start, Issue, Answered, Complete, FinalCheck, history
<1>6. CASE Command(w)
  <2>1. PICK good \in BOOLEAN, left \in {0, 1} :
          ex' = [ex EXCEPT ![w].sent = @ + left,
                           ![w].late = IF node.token # ex[w].token THEN @ + left ELSE @,
                           ![w].pc = IF good THEN "answered" ELSE "final",
                           ![w].verdict = IF good THEN @ ELSE "failed"]
    BY <1>6 DEF Command
  <2> DEFINE p == [ex[w] EXCEPT !.sent = @ + left,
                                !.late = IF node.token # ex[w].token THEN @ + left ELSE @,
                                !.pc = IF good THEN "answered" ELSE "final",
                                !.verdict = IF good THEN @ ELSE "failed"]
  <2>2. ex' = [ex EXCEPT ![w] = p]
    BY <2>1
  <2>3. ex[w].sent < MaxCommands /\ ex[w].late = 0 /\ ex[w].job \in Jobs /\ ex[w].token # 0
    BY <1>1, <1>2, <1>4, <1>6 DEF Command, WellPlaced, Assigned, Entered, Overdue
  <2>4. p \in Process
    <3>1. /\ ex[w].sent + left \in 0..MaxCommands /\ ex[w].late + left \in 0..MaxCommands
          /\ ex[w].late \in 0..MaxCommands
      BY <1>1, <2>3, ExecutorAssumption DEF Process
    <3> QED
      BY <1>1, <3>1 DEF Process, Steps
  <2>5. WellPlaced(p)
    BY <1>1, <2>3 DEF WellPlaced, Process, Assigned, Entered, Overdue
  <2>6. ex' \in [Executors -> Process] /\ ProcessInv'
    BY <2>2, <2>4, <2>5, OwnStep
  <2> QED
    BY <1>6, <2>6 DEF Command, history
<1>7. CASE FindMissing(w)
  <2>1. ex' \in [Executors -> Process] /\ ProcessInv'
    BY <1>2, <1>4, <1>7, MoveStep DEF FindMissing, Steps, Assigned, Entered, Overdue
  <2>2. job' \in [Jobs -> JobRow]
    BY <1>7, FailedType DEF FindMissing
  <2> QED
    BY <1>7, <2>1, <2>2 DEF FindMissing, history
<1>8. CASE Succeed(w)
  <2> DEFINE p == [ex[w] EXCEPT !.pc = "final", !.verdict = "succeeded"]
  <2>1. p \in Process /\ ex' = [ex EXCEPT ![w] = p]
    BY <1>1, <1>8 DEF Succeed, Process, Steps
  <2>2. WellPlaced(p)
    BY <1>1, <1>2, <1>8 DEF Succeed, WellPlaced, Process, Assigned, Entered, Overdue
  <2>3. ex' \in [Executors -> Process] /\ ProcessInv'
    BY <2>1, <2>2, OwnStep
  <2> QED
    BY <1>8, <2>3 DEF Succeed, history
<1>9. CASE Commit(w)
  <2>1. /\ ex[w].job \in Jobs /\ ex[w].late = 0 /\ ex[w].token # 0
        /\ ex[w].verdict \in {"succeeded", "failed"}
    BY <1>1, <1>2, <1>4, <1>9 DEF Commit, WellPlaced, Process, Assigned, Entered, Overdue
  <2>2. ex' \in [Executors -> Process] /\ ProcessInv'
    BY <1>9, <2>1, MoveStep DEF Commit, Steps, Assigned, Entered
  <2>3. job' \in [Jobs -> JobRow]
    <3>1. [status |-> ex[w].verdict, token |-> 0] \in JobRow
      BY <2>1 DEF JobRow
    <3> QED
      BY <1>9, <2>1, <3>1, RowStep DEF Commit
  <2> QED
    BY <1>9, <2>2, <2>3 DEF Commit, history
<1> QED
  BY <1>5, <1>6, <1>7, <1>8, <1>9

\* Faults and the staff.
LEMMA OutsideTypes ==
  ASSUME Inv,
         \/ \E j \in Jobs : Enqueue(j) \/ Retry(j)
         \/ \E w \in Executors : Stall(w) \/ Crash(w) \/ LoseSession(w)
         \/ LeaseExpires \/ ServerNotices
  PROVE  TypeOK' /\ ProcessInv'
<1> USE TypeParts, TypePartsNext DEF Inv
<1>1. ASSUME NEW j \in Jobs, Enqueue(j) \/ Retry(j)
      PROVE  TypeOK' /\ ProcessInv'
  <2>1. [job[j] EXCEPT !.status = "pending"] \in JobRow
        /\ [status |-> "pending", token |-> 0] \in JobRow
    BY DEF JobRow
  <2>2. job' \in [Jobs -> JobRow]
    <3>1. CASE Enqueue(j)
      BY <2>1, <3>1 DEF Enqueue
    <3>2. CASE Retry(j)
      BY <2>1, <3>2 DEF Retry
    <3> QED
      BY <1>1, <3>1, <3>2
  <2>3. blocked' \subseteq Routers /\ uncertain' \subseteq Jobs /\ reviewed' \subseteq Routers
    BY <1>1, ExecutorAssumption DEF Enqueue, Retry, history
  <2> QED
    BY <1>1, <2>2, <2>3 DEF Enqueue, Retry, ProcessInv
<1>2. ASSUME NEW w \in Executors, Crash(w) \/ LoseSession(w)
      PROVE  TypeOK' /\ ProcessInv'
  <2>1. Idle \in Process /\ WellPlaced(Idle)
    BY ExecutorAssumption DEF Idle, Process, Steps, WellPlaced, Assigned, Entered
  <2>2. ex[w] \in Process /\ WellPlaced(ex[w])
    BY DEF ProcessInv
  <2>3. ex' \in [Executors -> Process] /\ ProcessInv'
    <3>1. CASE Crash(w)
      BY <2>1, <3>1, OwnStep DEF Crash
    <3>2. CASE LoseSession(w)
      <4> DEFINE p == [ex[w] EXCEPT !.session = FALSE]
      <4>1. p \in Process /\ WellPlaced(p) /\ ex' = [ex EXCEPT ![w] = p]
        BY <2>2, <3>2 DEF LoseSession, Process, WellPlaced
      <4> QED
        BY <4>1, OwnStep
    <3> QED
      BY <1>2, <3>1, <3>2
  <2>4. lock' \in Executors \cup {Nobody, Ghost} /\ faults' \in 0..MaxFaults
    BY <1>2, ExecutorAssumption DEF Crash, LoseSession, Abandoned
  <2> QED
    BY <1>2, <2>3, <2>4 DEF Crash, LoseSession, history
<1>3. CASE LeaseExpires \/ ServerNotices \/ \E w \in Executors : Stall(w)
  <2>1. /\ lock' \in Executors \cup {Nobody, Ghost} /\ faults' \in 0..MaxFaults
        /\ UNCHANGED <<job, blocked, ex, history>>
    BY <1>3, ExecutorAssumption DEF LeaseExpires, ServerNotices, Stall
  <2>2. node' = [node EXCEPT !.live = FALSE] \/ node' = node
    BY <1>3 DEF LeaseExpires, ServerNotices, Stall
  <2>3. node' \in [token : Tokens \cup {0}, live : BOOLEAN]
    BY <2>2
  <2> QED
    BY <2>1, <2>3 DEF ProcessInv, history
<1> QED
  BY <1>1, <1>2, <1>3
\* Every step keeps the types and what the processes know.
LEMMA TypeStep == Inv /\ [Next]_vars => TypeOK' /\ ProcessInv'
<1> SUFFICES ASSUME Inv, [Next]_vars PROVE TypeOK' /\ ProcessInv'
  OBVIOUS
<1>1. CASE UNCHANGED vars
  BY <1>1 DEF Inv, vars, history, TypeOK, ProcessInv
<1>2. CASE Next
  BY <1>2, LockTypes, LoopTypes, ExecutionTypes, OutsideTypes DEF Next, Turn
<1> QED
  BY <1>1, <1>2

-----------------------------------------------------------------------------
(* The lock and the lease.                                                 *)

\* The steps that neither take nor give back the lock or the lease.
Steady(w) ==
  \/ LeaseLost(w) \/ RecoverCheck(w) \/ Recover(w) \/ Select(w) \/ Claim(w) \/ Start(w)
  \/ Issue(w) \/ Answered(w) \/ FindMissing(w) \/ Complete(w) \/ Succeed(w)
  \/ FinalCheck(w) \/ Commit(w)

\* They leave every process its session, its token and its count, and wake nobody.
LEMMA SteadyStep ==
  ASSUME Inv, NEW w \in Executors, Steady(w), NEW v \in Executors
  PROVE  /\ lock' = lock /\ node' = node
         /\ ex'[v].session = ex[v].session /\ ex'[v].token = ex[v].token
         /\ ex'[v].late = ex[v].late
         /\ ex'[v].pc # "idle" => ex[v].pc # "idle"
<1>1. ex \in [Executors -> Process]
  BY TypeParts DEF Inv
<1> DEFINE Becomes(s, j, r) == ex' = [ex EXCEPT ![w].pc = s, ![w].job = j, ![w].verdict = r]
<1>2. ex[w].pc # "idle" /\ \E s, j, r : Becomes(s, j, r)
  <2>1. ASSUME NEW s \in Steps, Goto(w, s)
        PROVE  Becomes(s, ex[w].job, ex[w].verdict)
    BY <1>1, <2>1 DEF Goto, Process
  <2>2. ASSUME NEW r, ex' = [ex EXCEPT ![w].pc = "final", ![w].verdict = r]
        PROVE  Becomes("final", ex[w].job, r)
    BY <1>1, <2>2 DEF Process
  <2>3. ASSUME NEW j, ex' = [ex EXCEPT ![w].pc = "claim", ![w].job = j]
        PROVE  Becomes("claim", j, ex[w].verdict)
    BY <1>1, <2>3 DEF Process
  <2>4. ex[w].pc # "idle"
    BY DEF Steady, LeaseLost, RecoverCheck, Recover, Select, Claim, Start, Issue, Answered,
           FindMissing, Complete, Succeed, FinalCheck, Commit, GuardedSteps
  <2>5. \/ \E s \in Steps : Goto(w, s)
        \/ \E r : ex' = [ex EXCEPT ![w].pc = "final", ![w].verdict = r]
        \/ \E j : ex' = [ex EXCEPT ![w].pc = "claim", ![w].job = j]
    BY DEF Steady, LeaseLost, RecoverCheck, Recover, Select, Claim, Start, Issue, Answered,
           FindMissing, Complete, Succeed, FinalCheck, Commit, Steps
  <2> HIDE DEF Becomes
  <2> QED
    BY <2>1, <2>2, <2>3, <2>4, <2>5 DEF Steps
<1>3. lock' = lock /\ node' = node
  BY DEF Steady, LeaseLost, RecoverCheck, Recover, Select, Claim, Start, Issue, Answered,
         FindMissing, Complete, Succeed, FinalCheck, Commit
<1> QED
  BY <1>1, <1>2, <1>3 DEF Process

\* Only a process that has its session holds the lock, before and after a step.
LEMMA LockStep == Inv /\ [Next]_vars => LockInv'
<1> SUFFICES ASSUME Inv, [Next]_vars, NEW v \in Executors,
                    ex'[v].session, ex'[v].pc # "idle"
             PROVE  lock' = v
  BY DEF LockInv
<1>1. ex \in [Executors -> Process] /\ lock \in Executors \cup {Nobody, Ghost}
  BY TypeParts DEF Inv
<1>2. \A u \in Executors : ex[u].session /\ ex[u].pc # "idle" => lock = u
  BY DEF Inv, LockInv
<1>3. CASE lock' = lock /\ ex[v].session /\ ex[v].pc # "idle"
  BY <1>2, <1>3
<1>4. CASE ex' = ex /\ lock' = lock
  BY <1>2, <1>4
<1>5. CASE ServerNotices
  BY <1>2, <1>5, ExecutorAssumption DEF ServerNotices
<1>6. ASSUME NEW w \in Executors, TryLock(w) PROVE lock' = v
  BY <1>1, <1>2, <1>6, ExecutorAssumption DEF TryLock, Process
<1>7. ASSUME NEW w \in Executors, Steady(w) PROVE lock' = v
  BY <1>3, <1>7, SteadyStep
<1>8. ASSUME NEW w \in Executors, Acquire(w) \/ SessionGone(w) \/ Release(w) \/ Command(w)
      PROVE  lock' = v
  <2>1. lock' = lock
    BY <1>8 DEF Acquire, SessionGone, Release, Command
  <2>2. ex[v].session /\ ex[v].pc # "idle"
    <3>1. CASE v # w
      BY <1>1, <1>8, <3>1 DEF Acquire, SessionGone, Release, Command, Goto
    <3>2. CASE v = w /\ (Acquire(w) \/ SessionGone(w))
      BY <1>1, <3>2 DEF Acquire, SessionGone, Goto, Process, Idle
    <3>3. CASE v = w /\ Release(w)
      BY <1>1, <3>3 DEF Release, Goto, Process, Idle
    <3>4. CASE v = w /\ Command(w)
      BY <1>1, <3>4 DEF Command, Process
    <3> QED
      BY <1>8, <3>1, <3>2, <3>3, <3>4
  <2> QED
    BY <1>3, <2>1, <2>2
<1>9. ASSUME NEW w \in Executors, Unlock(w) \/ Crash(w) \/ LoseSession(w) PROVE lock' = v
  <2>1. v # w
    BY <1>1, <1>9 DEF Unlock, Crash, LoseSession, Idle, Process
  <2>2. ex'[v] = ex[v]
    BY <1>1, <1>9, <2>1 DEF Unlock, Crash, LoseSession
  <2>3. lock = v
    BY <1>2, <2>2
  <2> QED
    BY <1>2, <1>9, <2>1, <2>3 DEF Unlock, Crash, LoseSession, Abandoned
<1>10. CASE UNCHANGED vars
  BY <1>4, <1>10 DEF vars
<1>11. CASE \/ LeaseExpires
            \/ \E j \in Jobs : Enqueue(j) \/ Retry(j)
            \/ \E w \in Executors : Stall(w)
  BY <1>4, <1>11 DEF LeaseExpires, Enqueue, Retry, Stall
<1> QED
  BY <1>5, <1>6, <1>7, <1>8, <1>9, <1>10, <1>11 DEF Next, Turn, Steady

\* A process whose late command is out never gets its token back.
LEMMA LateStep == Inv /\ [Next]_vars => LateInv'
<1> SUFFICES ASSUME Inv, [Next]_vars, NEW v \in Executors, ex'[v].late > 0
             PROVE  ex'[v].late = 1 /\ ex'[v].token # 0 /\ ex'[v].token # node'.token
  BY DEF LateInv
<1> DEFINE Goal == ex'[v].late = 1 /\ ex'[v].token # 0 /\ ex'[v].token # node'.token
<1>1. /\ ex \in [Executors -> Process] /\ ProcessInv
      /\ node \in [token : Tokens \cup {0}, live : BOOLEAN]
  BY TypeParts DEF Inv
<1>2. ex[v].late > 0 => ex[v].late = 1 /\ ex[v].token # 0 /\ ex[v].token # node.token
  BY DEF Inv, LateInv
<1>3. CASE ex'[v].late = ex[v].late /\ ex'[v].token = ex[v].token /\ node'.token = node.token
  BY <1>2, <1>3
<1>4. ASSUME NEW w \in Executors, Steady(w) PROVE Goal
  BY <1>3, <1>4, SteadyStep
<1>5. ASSUME NEW w \in Executors, TryLock(w) \/ SessionGone(w) \/ Unlock(w) \/ Crash(w)
                                  \/ LoseSession(w)
      PROVE  Goal
  <2>1. node' = node
    BY <1>5 DEF TryLock, SessionGone, Unlock, Crash, LoseSession
  <2>2. ex'[v] # Idle
    BY DEF Idle
  <2>3. ex'[v].late = ex[v].late /\ ex'[v].token = ex[v].token
    BY <1>1, <1>5, <2>2 DEF TryLock, SessionGone, Unlock, Crash, LoseSession, Goto, Process
  <2> QED
    BY <1>3, <2>1, <2>3
<1>6. ASSUME NEW w \in Executors, Acquire(w) PROVE Goal
  <2>1. CASE UNCHANGED node /\ Goto(w, "unlock")
    BY <1>1, <1>3, <2>1 DEF Goto, Process
  <2>2. CASE /\ node' = [token |-> Fresh, live |-> TRUE]
             /\ ex' = [ex EXCEPT ![w].token = Fresh,
                                 ![w].pc = IF ex[w].job = NoJob THEN "owner" ELSE "claim"]
    <3>1. ex[w].late = 0
      BY <1>1, <1>6 DEF Acquire, ProcessInv, WellPlaced, Overdue, Process
    <3>2. v # w /\ ex'[v] = ex[v]
      BY <1>1, <2>2, <3>1 DEF Process
    <3>3. Fresh # ex[v].token
      BY FreshIsFree DEF Held, Inv
    <3> QED
      BY <1>2, <2>2, <3>2, <3>3
  <2> QED
    BY <1>6, <2>1, <2>2 DEF Acquire
<1>7. ASSUME NEW w \in Executors, Release(w) PROVE Goal
  <2>1. node'.token = 0 \/ node' = node
    BY <1>7 DEF Release
  <2>2. ex'[v] # Idle
    BY DEF Idle
  <2>3. ex'[v].late = ex[v].late /\ ex'[v].token = ex[v].token
    BY <1>1, <1>7, <2>2 DEF Release, Goto, Process
  <2> QED
    BY <1>2, <2>1, <2>3
<1>8. ASSUME NEW w \in Executors, Command(w) PROVE Goal
  <2>1. node' = node /\ ex'[v].token = ex[v].token
    BY <1>1, <1>8 DEF Command, Process
  <2>2. CASE v = w
    <3>1. ex[w].late = 0
      BY <1>1, <1>8 DEF Command, ProcessInv, WellPlaced, Overdue, Process
    <3>2. ex[w].token # 0 => Goal
      BY <1>1, <1>8, <2>1, <2>2, <3>1 DEF Command, Process
    <3> QED
      BY <1>1, <1>8, <3>2 DEF Command, ProcessInv, WellPlaced, Entered
  <2>3. CASE v # w
    BY <1>1, <1>3, <1>8, <2>1, <2>3 DEF Command
  <2> QED
    BY <2>2, <2>3
<1>9. CASE \/ UNCHANGED vars \/ LeaseExpires \/ ServerNotices
           \/ \E j \in Jobs : Enqueue(j) \/ Retry(j)
           \/ \E w \in Executors : Stall(w)
  BY <1>1, <1>3, <1>9 DEF vars, LeaseExpires, ServerNotices, Enqueue, Retry, Stall
<1> QED
  BY <1>4, <1>5, <1>6, <1>7, <1>8, <1>9 DEF Next, Turn, Steady
-----------------------------------------------------------------------------
(* The routers.                                                            *)

\* The steps between a job's claim and its result.
Working == {"start", "work", "command", "answered", "done"}

\* No two processes hold one token.
TokensDiffer == \A v, w \in Executors : v # w /\ ex[v].token # 0 => ex[v].token # ex[w].token

\* Who works in its session works on a router that is not quarantined.
WorksOpen == \A w \in Executors :
  ex[w].session /\ ex[w].pc \in Working /\ Target(w) \notin reviewed => Target(w) \notin blocked

\* The routers of the jobs that recovery failed.
FailedClosed == \A j \in uncertain : RouterOf[j] \in blocked \cup reviewed

\* Where only the loop is used, a process owns its job's row, or recovery has failed
\* that job and quarantined the router;
OwnsRow == \A w \in Executors : ex[w].pc \in Working /\ Target(w) \notin reviewed =>
  \/ job[ex[w].job] = [status |-> "running", token |-> ex[w].token]
  \/ Target(w) \in blocked

\* it works alone on the router;
WorksAlone == \A v, w \in Executors :
  v # w /\ ex[v].pc \in Working /\ ex[w].pc \in Working /\ Target(v) = Target(w)
  => Target(v) \in reviewed

\* and it claims a job only where nothing runs, since it has come without one.
ClaimsFree == \A w \in Executors :
  ex[w].pc = "claim" /\ ex[w].session => RunningOn(Target(w)) = {}

EntersFree == \A w \in Executors : ex[w].pc = "locked" => ex[w].job = NoJob

LoopInv == ~DirectEntry => OwnsRow /\ WorksAlone /\ ClaimsFree /\ EntersFree

RouterInv == TokensDiffer /\ WorksOpen /\ FailedClosed /\ LoopInv

\* A claim that succeeds.
Claims(w) == Claim(w) /\ job[ex[w].job].status = "pending" /\ RouterOf[ex[w].job] \notin blocked

\* Initially no process works and no router is quarantined.
LEMMA RouterInit == Init => RouterInv
BY DEF Init, RouterInv, TokensDiffer, WorksOpen, FailedClosed, LoopInv, OwnsRow, WorksAlone,
       ClaimsFree, EntersFree, Idle, Working, RunningOn

\* A process that works after a step has its job and token from before it, and worked
\* before it or has just claimed the job.
LEMMA WorkStep ==
  ASSUME Inv, [Next]_vars, NEW v \in Executors, ex'[v].pc \in Working
  PROVE  /\ ex'[v].job = ex[v].job /\ ex'[v].token = ex[v].token
         /\ ex'[v].session => ex[v].session
         /\ ex[v].pc \in Working \/ Claims(v)
<1> DEFINE Goal == /\ ex'[v].job = ex[v].job /\ ex'[v].token = ex[v].token
                   /\ ex'[v].session => ex[v].session
                   /\ ex[v].pc \in Working \/ Claims(v)
<1>1. ex \in [Executors -> Process]
  BY TypeParts DEF Inv
<1>2. CASE ex'[v] = ex[v]
  BY <1>2
<1>3. ASSUME NEW w \in Executors, TryLock(w) \/ Acquire(w) \/ LeaseLost(w) \/ SessionGone(w)
                                  \/ Release(w) \/ Unlock(w)
      PROVE  Goal
  <2>1. v # w
    BY <1>1, <1>3 DEF TryLock, Acquire, LeaseLost, SessionGone, Release, Unlock, Goto, Process,
                      Idle, Working
  <2> QED
    BY <1>1, <1>2, <1>3, <2>1 DEF TryLock, Acquire, LeaseLost, SessionGone, Release, Unlock, Goto
<1>4. ASSUME NEW w \in Executors, RecoverCheck(w) \/ Recover(w) \/ Select(w) \/ Complete(w)
                                  \/ Succeed(w) \/ FinalCheck(w) \/ Commit(w)
      PROVE  Goal
  <2>1. CASE v # w
    BY <1>1, <1>2, <1>4, <2>1 DEF RecoverCheck, Recover, Select, Complete, Succeed, FinalCheck,
                                  Commit, Goto
  <2>2. CASE v = w /\ Complete(w)
    BY <1>1, <2>2 DEF Complete, Goto, Process, Working
  <2>3. CASE v = w /\ ~Complete(w)
    BY <1>1, <1>4, <2>3 DEF RecoverCheck, Recover, Select, Succeed, FinalCheck, Commit, Goto,
                            Process, Working
  <2> QED
    BY <2>1, <2>2, <2>3
<1>5. ASSUME NEW w \in Executors, Claim(w)
      PROVE  Goal
  <2>1. CASE v # w
    BY <1>1, <1>2, <1>5, <2>1 DEF Claim, Goto
  <2>2. CASE v = w
    BY <1>1, <1>5, <2>2 DEF Claim, Claims, Goto, Process, Working
  <2> QED
    BY <2>1, <2>2
<1>6. ASSUME NEW w \in Executors, Start(w) \/ Issue(w) \/ Command(w) \/ Answered(w)
                                  \/ FindMissing(w)
      PROVE  Goal
  <2>1. CASE v # w
    BY <1>1, <1>2, <1>6, <2>1 DEF Start, Issue, Command, Answered, FindMissing, Goto
  <2>2. CASE v = w
    <3>1. ex[w].pc \in Working
      BY <1>6 DEF Start, Issue, Command, Answered, FindMissing, Working
    <3>2. ex'[w].job = ex[w].job /\ ex'[w].token = ex[w].token /\ ex'[w].session = ex[w].session
      <4>1. CASE Command(w)
        BY <1>1, <4>1 DEF Command, Process
      <4>2. CASE Start(w) \/ Issue(w) \/ Answered(w) \/ FindMissing(w)
        BY <1>1, <4>2 DEF Start, Issue, Answered, FindMissing, Goto, Process
      <4> QED
        BY <1>6, <4>1, <4>2
    <3> QED
      BY <2>2, <3>1, <3>2
  <2> QED
    BY <2>1, <2>2
<1>7. ASSUME NEW w \in Executors, Crash(w) \/ LoseSession(w)
      PROVE  Goal
  BY <1>1, <1>2, <1>7 DEF Crash, LoseSession, Process, Idle, Working
<1>8. CASE \/ UNCHANGED vars \/ LeaseExpires \/ ServerNotices
           \/ \E j \in Jobs : Enqueue(j) \/ Retry(j)
           \/ \E w \in Executors : Stall(w)
  BY <1>2, <1>8 DEF vars, LeaseExpires, ServerNotices, Enqueue, Retry, Stall
<1> QED
  BY <1>3, <1>4, <1>5, <1>6, <1>7, <1>8 DEF Next, Turn

\* What can change a job's row.
LEMMA RowChange ==
  ASSUME Inv, [Next]_vars, NEW j \in Jobs, job'[j] # job[j]
  PROVE  \/ Enqueue(j) \/ Retry(j)
         \/ \E u \in Executors :
              \/ ex[u].job = j /\ (Claims(u) \/ Commit(u))
              \/ Recover(u) /\ j \in Interrupted(u)
              \/ FindMissing(u) /\ VerifyOf[ex[u].job] = j
<1>1. job \in [Jobs -> JobRow]
  BY TypeParts DEF Inv
<1>2. CASE \E i \in Jobs : Enqueue(i) \/ Retry(i)
  BY <1>1, <1>2 DEF Enqueue, Retry
<1>3. CASE \E u \in Executors : Claim(u) \/ Recover(u) \/ FindMissing(u) \/ Commit(u)
  BY <1>1, <1>3 DEF Claim, Claims, Recover, FindMissing, Commit, Failed
<1>4. CASE \/ UNCHANGED vars \/ LeaseExpires \/ ServerNotices
           \/ \E u \in Executors :
                \/ TryLock(u) \/ Acquire(u) \/ LeaseLost(u) \/ SessionGone(u) \/ Release(u)
                \/ Unlock(u) \/ RecoverCheck(u) \/ Select(u) \/ Start(u) \/ Issue(u)
                \/ Command(u) \/ Answered(u) \/ Complete(u) \/ Succeed(u) \/ FinalCheck(u)
                \/ Stall(u) \/ Crash(u) \/ LoseSession(u)
  BY <1>4 DEF vars, LeaseExpires, ServerNotices, TryLock, Acquire, LeaseLost, SessionGone,
              Release, Unlock, RecoverCheck, Select, Start, Issue, Command, Answered, Complete,
              Succeed, FinalCheck, Stall, Crash, LoseSession
<1> QED
  BY <1>2, <1>3, <1>4 DEF Next, Turn

\* What can change the quarantine: recovery adds to it, a retry releases one router.
LEMMA QuarantineChange ==
  ASSUME [Next]_vars
  PROVE  \/ UNCHANGED <<blocked, uncertain, reviewed>>
         \/ \E u \in Executors : Recover(u)
         \/ \E j \in Jobs : Retry(j)
<1>1. CASE \/ UNCHANGED vars \/ LeaseExpires \/ ServerNotices \/ \E j \in Jobs : Enqueue(j)
           \/ \E u \in Executors :
                \/ TryLock(u) \/ Acquire(u) \/ LeaseLost(u) \/ SessionGone(u) \/ Release(u)
                \/ Unlock(u) \/ RecoverCheck(u) \/ Select(u) \/ Stall(u) \/ Crash(u)
                \/ LoseSession(u)
  BY <1>1 DEF vars, history, LeaseExpires, ServerNotices, Enqueue, TryLock, Acquire, LeaseLost,
              SessionGone, Release, Unlock, RecoverCheck, Select, Stall, Crash, LoseSession
<1>2. CASE \E u \in Executors :
             \/ Claim(u) \/ Start(u) \/ Issue(u) \/ Command(u) \/ Answered(u) \/ FindMissing(u)
             \/ Complete(u) \/ Succeed(u) \/ FinalCheck(u) \/ Commit(u)
  BY <1>2 DEF history, Claim, Start, Issue, Command, Answered, FindMissing, Complete, Succeed,
              FinalCheck, Commit
<1> QED
  BY <1>1, <1>2 DEF Next, Turn

\* Where a process's token comes from.
LEMMA TokenChange ==
  ASSUME Inv, [Next]_vars, NEW v \in Executors
  PROVE  \/ ex'[v].token \in {0, ex[v].token}
         \/ /\ ex'[v].token = Fresh
            /\ \A w \in Executors : w # v => ex'[w].token = ex[w].token
<1> DEFINE Kept(u) == ex'[u].token \in {0, ex[u].token}
<1>1. ex \in [Executors -> Process]
  BY TypeParts DEF Inv
<1>2. ASSUME NEW w \in Executors, Steady(w) PROVE Kept(v)
  BY <1>2, SteadyStep
<1>3. ASSUME NEW w \in Executors, TryLock(w) \/ SessionGone(w) \/ Release(w) \/ Unlock(w)
                                  \/ Crash(w) \/ LoseSession(w)
      PROVE  Kept(v)
  BY <1>1, <1>3 DEF TryLock, SessionGone, Release, Unlock, Crash, LoseSession, Goto, Process, Idle
<1>4. ASSUME NEW w \in Executors, Command(w) PROVE Kept(v)
  BY <1>1, <1>4 DEF Command, Process
<1>5. ASSUME NEW w \in Executors, Acquire(w)
      PROVE  Kept(v) \/ (v = w /\ ex'[v].token = Fresh
                         /\ \A u \in Executors : u # v => ex'[u].token = ex[u].token)
  BY <1>1, <1>5 DEF Acquire, Goto, Process
<1>6. CASE \/ UNCHANGED vars \/ LeaseExpires \/ ServerNotices
           \/ \E j \in Jobs : Enqueue(j) \/ Retry(j)
           \/ \E w \in Executors : Stall(w)
  BY <1>6 DEF vars, LeaseExpires, ServerNotices, Enqueue, Retry, Stall
<1> QED
  BY <1>2, <1>3, <1>4, <1>5, <1>6 DEF Next, Turn, Steady

\* A fresh token is nobody's.
LEMMA TokensDifferStep == Inv /\ RouterInv /\ [Next]_vars => TokensDiffer'
<1> SUFFICES ASSUME Inv, RouterInv, [Next]_vars, NEW v \in Executors, NEW w \in Executors,
                    v # w, ex'[v].token # 0, ex'[v].token = ex'[w].token
             PROVE  FALSE
  BY DEF TokensDiffer
<1>1. Fresh # ex[v].token /\ Fresh # ex[w].token
  BY FreshIsFree DEF Inv, Held
<1> QED
  BY <1>1, TokenChange DEF RouterInv, TokensDiffer

\* Recovery quarantines the routers of the jobs it fails; only a retry releases one.
LEMMA FailedClosedStep == Inv /\ RouterInv /\ [Next]_vars => FailedClosed'
<1> SUFFICES ASSUME Inv, RouterInv, [Next]_vars, NEW j \in uncertain'
             PROVE  RouterOf[j] \in blocked' \cup reviewed'
  BY DEF FailedClosed
<1>1. \A i \in uncertain : RouterOf[i] \in blocked \cup reviewed
  BY DEF RouterInv, FailedClosed
<1>2. CASE UNCHANGED <<blocked, uncertain, reviewed>>
  BY <1>1, <1>2
<1>3. CASE \E u \in Executors : Recover(u)
  BY <1>1, <1>3 DEF Recover
<1>4. CASE \E i \in Jobs : Retry(i)
  BY <1>1, <1>4 DEF Retry
<1> QED
  BY <1>2, <1>3, <1>4, QuarantineChange

\* While a process works in its session nobody else recovers.
LEMMA WorksOpenStep == Inv /\ RouterInv /\ [Next]_vars => WorksOpen'
<1> SUFFICES ASSUME Inv, RouterInv, [Next]_vars, NEW v \in Executors,
                    ex'[v].session, ex'[v].pc \in Working, RouterOf[ex'[v].job] \notin reviewed'
             PROVE  RouterOf[ex'[v].job] \notin blocked'
  BY DEF WorksOpen, Target
<1>1. /\ ex'[v].job = ex[v].job /\ ex[v].session
      /\ ex[v].pc \in Working \/ Claims(v)
  BY WorkStep
<1>2. ex[v].pc # "idle" /\ ex[v].pc # "recover"
  BY <1>1 DEF Claims, Claim, Working
<1>3. ~\E u \in Executors : Recover(u)
  <2> SUFFICES ASSUME NEW u \in Executors, Recover(u) PROVE FALSE
    OBVIOUS
  <2>1. lock = u /\ lock = v
    BY <1>1, <1>2 DEF Recover, Inv, LockInv
  <2> QED
    BY <1>2, <2>1 DEF Recover
<1>4. reviewed \subseteq reviewed' /\ blocked' \subseteq blocked
  BY <1>3, QuarantineChange DEF Retry
<1>5. ex[v].pc \in Working => Target(v) \notin blocked
  BY <1>1, <1>4 DEF RouterInv, WorksOpen, Target
<1> QED
  BY <1>1, <1>4, <1>5 DEF Claims, Target

\* A command's answer.
LEMMA CommandStep ==
  ASSUME Inv, NEW w \in Executors, Command(w)
  PROVE  ex'[w].pc \in {"answered", "final"}
<1>1. ex[w] \in Process /\ ex \in [Executors -> Process]
  BY TypeParts DEF Inv
<1>2. PICK good \in BOOLEAN, left \in {0, 1} :
        ex' = [ex EXCEPT ![w].sent = @ + left,
                         ![w].late = IF node.token # ex[w].token THEN @ + left ELSE @,
                         ![w].pc = IF good THEN "answered" ELSE "final",
                         ![w].verdict = IF good THEN @ ELSE "failed"]
  BY DEF Command
<1> DEFINE late == IF node.token # ex[w].token THEN ex[w].late + left ELSE ex[w].late
           verdict == IF good THEN ex[w].verdict ELSE "failed"
<1>3. ex'[w].pc = IF good THEN "answered" ELSE "final"
  <2>1. ex' = [ex EXCEPT ![w] = [ex[w] EXCEPT !.sent = ex[w].sent + left, !.late = late,
                                   !.pc = IF good THEN "answered" ELSE "final",
                                   !.verdict = verdict]]
    BY <1>1, <1>2
  <2> QED
    BY <1>1, <2>1 DEF Process
<1> QED
  BY <1>3

\* A turn is of one process.
LEMMA OthersStay ==
  ASSUME Inv, NEW w \in Executors, Turn(w), NEW v \in Executors, v # w
  PROVE  ex'[v] = ex[v]
<1>1. ex \in [Executors -> Process]
  BY TypeParts DEF Inv
<1>2. CASE Command(w)
  BY <1>1, <1>2 DEF Command
<1>3. CASE \/ Acquire(w) \/ LeaseLost(w) \/ SessionGone(w) \/ Release(w) \/ Unlock(w)
           \/ RecoverCheck(w) \/ Recover(w) \/ Select(w) \/ Claim(w)
  BY <1>1, <1>3 DEF Acquire, LeaseLost, SessionGone, Release, Unlock, RecoverCheck, Recover,
                    Select, Claim, Goto
<1>4. CASE \/ Start(w) \/ Issue(w) \/ Answered(w) \/ FindMissing(w) \/ Complete(w) \/ Succeed(w)
           \/ FinalCheck(w) \/ Commit(w)
  BY <1>1, <1>4 DEF Start, Issue, Answered, FindMissing, Complete, Succeed, FinalCheck, Commit,
                    Goto
<1> QED
  BY <1>2, <1>3, <1>4 DEF Turn

\* A process enters the node without a job unless it is the onboarding command.
LEMMA EntersFreeStep == Inv /\ RouterInv /\ ~DirectEntry /\ [Next]_vars => EntersFree'
<1> SUFFICES ASSUME Inv, RouterInv, ~DirectEntry, [Next]_vars,
                    NEW v \in Executors, ex'[v].pc = "locked"
             PROVE  ex'[v].job = NoJob
  BY DEF EntersFree
<1>1. ex \in [Executors -> Process]
  BY TypeParts DEF Inv
<1>2. ex[v].pc = "locked" => ex[v].job = NoJob
  BY DEF RouterInv, LoopInv, EntersFree
<1>3. CASE ex'[v].pc = ex[v].pc /\ ex'[v].job = ex[v].job
  BY <1>2, <1>3
<1>4. ASSUME NEW w \in Executors, TryLock(w) PROVE ex'[v].job = NoJob
  BY <1>1, <1>2, <1>4 DEF TryLock, Process
<1>5. ASSUME NEW w \in Executors, Turn(w) PROVE ex'[v].job = NoJob
  <2>1. CASE v # w
    BY <1>3, <1>5, <2>1, OthersStay
  <2>2. CASE v = w
    <3>1. ~(LeaseLost(w) \/ RecoverCheck(w) \/ Recover(w) \/ Select(w) \/ Claim(w) \/ Acquire(w)
            \/ SessionGone(w) \/ Release(w) \/ Unlock(w))
      BY <1>1, <2>2 DEF LeaseLost, RecoverCheck, Recover, Select, Claim, Acquire, SessionGone,
                        Release, Unlock, Goto, Process, Idle
    <3>2. ~(Start(w) \/ Issue(w) \/ Answered(w) \/ FindMissing(w) \/ Complete(w) \/ Succeed(w)
            \/ FinalCheck(w) \/ Commit(w))
      BY <1>1, <2>2 DEF Start, Issue, Answered, FindMissing, Complete, Succeed, FinalCheck,
                        Commit, Goto, Process
    <3>3. ~Command(w)
      BY <2>2, CommandStep
    <3> QED
      BY <1>5, <3>1, <3>2, <3>3 DEF Turn
  <2> QED
    BY <2>1, <2>2
<1>6. CASE \E w \in Executors : Crash(w) \/ LoseSession(w)
  BY <1>1, <1>2, <1>6 DEF Crash, LoseSession, Process, Idle
<1>7. CASE \/ UNCHANGED vars \/ LeaseExpires \/ ServerNotices
           \/ \E j \in Jobs : Enqueue(j) \/ Retry(j)
           \/ \E w \in Executors : Stall(w)
  BY <1>3, <1>7 DEF vars, LeaseExpires, ServerNotices, Enqueue, Retry, Stall
<1> QED
  BY <1>4, <1>5, <1>6, <1>7 DEF Next

\* A process that works after a step had the row before it, or gets it in the step.
LEMMA OwnsRowStep == Inv /\ RouterInv /\ ~DirectEntry /\ [Next]_vars => OwnsRow'
<1> SUFFICES ASSUME Inv, RouterInv, ~DirectEntry, [Next]_vars, NEW v \in Executors,
                    ex'[v].pc \in Working, RouterOf[ex'[v].job] \notin reviewed',
                    RouterOf[ex'[v].job] \notin blocked'
             PROVE  job'[ex'[v].job] = [status |-> "running", token |-> ex'[v].token]
  BY DEF OwnsRow, Target
<1> DEFINE j == ex[v].job
<1>1. /\ ex'[v].job = j /\ ex'[v].token = ex[v].token
      /\ ex[v].pc \in Working \/ Claims(v)
  BY WorkStep
<1>2. /\ ex \in [Executors -> Process] /\ job \in [Jobs -> JobRow]
      /\ j \in Jobs /\ ex[v].token # 0
  BY <1>1, TypeParts
  DEF Inv, ProcessInv, WellPlaced, Working, Claims, Claim, Assigned, Entered
<1> HIDE DEF j
<1>3. CASE Claims(v)
  BY <1>1, <1>2, <1>3 DEF Claims, Claim, j
<1>4. CASE ex[v].pc \in Working
  <2>1. RouterOf[j] \notin blocked /\ RouterOf[j] \notin reviewed
    BY <1>1, QuarantineChange DEF Recover, Retry
  <2>2. job[j] = [status |-> "running", token |-> ex[v].token]
    BY <1>4, <2>1 DEF RouterInv, LoopInv, OwnsRow, Target, j
  <2>3. ~(Enqueue(j) \/ Retry(j))
    BY <2>2 DEF Enqueue, Retry
  <2>4. ASSUME NEW u \in Executors, Recover(u), j \in Interrupted(u) PROVE FALSE
    BY <1>1, <1>2, <2>4 DEF Recover
  <2>5. ASSUME NEW u \in Executors, ex[u].job = j, Claims(u) PROVE FALSE
    BY <2>2, <2>5 DEF Claims
  <2>6. ASSUME NEW u \in Executors, ex[u].job = j, Commit(u), job'[j] # job[j] PROVE FALSE
    <3>1. u # v
      BY <1>4, <2>6 DEF Commit, Working
    <3>2. ex[u].token = ex[v].token
      BY <2>2, <2>6 DEF Commit
    <3> QED
      BY <1>2, <3>1, <3>2 DEF RouterInv, TokensDiffer
  <2>7. ASSUME NEW u \in Executors, FindMissing(u), VerifyOf[ex[u].job] = j PROVE FALSE
    <3>1. ex[u].pc \in Working /\ ex[u].job \in Jobs
      BY <1>2, <2>7 DEF FindMissing, Working, Inv, ProcessInv, WellPlaced, Assigned
    <3>2. u # v /\ Target(u) = Target(v)
      BY <1>2, <2>7, <3>1, ExecutorAssumption DEF Target, j
    <3>3. Target(v) \in reviewed
      BY <1>4, <3>1, <3>2 DEF RouterInv, LoopInv, WorksAlone
    <3> QED
      BY <2>1, <3>3 DEF Target, j
  <2> QED
    BY <1>1, <1>2, <2>2, <2>3, <2>4, <2>5, <2>6, <2>7, RowChange
<1> QED
  BY <1>1, <1>3, <1>4

\* A claim follows a selection that found nothing running, and nobody else claims meanwhile.
LEMMA ClaimsFreeStep == Inv /\ RouterInv /\ ~DirectEntry /\ [Next]_vars => ClaimsFree'
<1> SUFFICES ASSUME Inv, RouterInv, ~DirectEntry, [Next]_vars, NEW v \in Executors,
                    ex'[v].pc = "claim", ex'[v].session,
                    NEW i \in Jobs, RouterOf[i] = RouterOf[ex'[v].job], job'[i].status = "running"
             PROVE  FALSE
  BY DEF ClaimsFree, RunningOn, Target
<1>1. ex \in [Executors -> Process] /\ job \in [Jobs -> JobRow]
  BY TypeParts DEF Inv
<1>2. CASE ex'[v].pc = ex[v].pc /\ ex'[v].job = ex[v].job /\ (ex'[v].session => ex[v].session)
  <2>1. RunningOn(Target(v)) = {} /\ lock = v
    BY <1>2 DEF RouterInv, LoopInv, ClaimsFree, Inv, LockInv
  <2>2. job[i].status # "running" /\ job'[i] # job[i]
    BY <1>2, <2>1 DEF RunningOn, Target
  <2>3. PICK u \in Executors : ex[u].job = i /\ Claims(u)
    <3>1. ~(Enqueue(i) \/ Retry(i))
      BY <1>1 DEF Enqueue, Retry, JobRow
    <3>2. ASSUME NEW u \in Executors, Recover(u) /\ i \in Interrupted(u) PROVE FALSE
      BY <2>2, <3>2 DEF Interrupted
    <3>3. ASSUME NEW u \in Executors, FindMissing(u), VerifyOf[ex[u].job] = i PROVE FALSE
      BY <1>1, <3>3 DEF FindMissing, Failed
    <3>4. ASSUME NEW u \in Executors, Commit(u) PROVE FALSE
      BY <1>1, <2>2, <3>4 DEF Commit
    <3> QED
      BY <2>2, <3>1, <3>2, <3>3, <3>4, RowChange
  <2>4. lock = u
    BY <2>3 DEF Claims, Claim, Inv, LockInv
  <2>5. ex'[v].pc # "claim"
    BY <1>1, <2>1, <2>3, <2>4 DEF Claims, Claim, Goto, Process
  <2> QED
    BY <2>5
<1>3. ASSUME NEW w \in Executors, Turn(w), v # w PROVE FALSE
  BY <1>2, <1>3, OthersStay
<1>4. ASSUME Turn(v) PROVE FALSE
  <2>1. CASE Select(v)
    <3>1. ex'[v].job \in Eligible /\ job' = job
      BY <1>1, <2>1 DEF Select, Goto, Process
    <3> QED
      BY <3>1 DEF Eligible, RunningOn
  <2>2. CASE Acquire(v)
    <3>1. ex[v].job = NoJob
      BY <2>2 DEF Acquire, RouterInv, LoopInv, EntersFree
    <3> QED
      BY <1>1, <2>2, <3>1 DEF Acquire, Goto, Process
  <2>3. ~(LeaseLost(v) \/ RecoverCheck(v) \/ Recover(v) \/ Claim(v) \/ SessionGone(v)
          \/ Release(v) \/ Unlock(v))
    BY <1>1 DEF LeaseLost, RecoverCheck, Recover, Claim, SessionGone, Release, Unlock, Goto,
                Process, Idle
  <2>4. ~(Start(v) \/ Issue(v) \/ Answered(v) \/ FindMissing(v) \/ Complete(v) \/ Succeed(v)
          \/ FinalCheck(v) \/ Commit(v))
    BY <1>1 DEF Start, Issue, Answered, FindMissing, Complete, Succeed, FinalCheck, Commit,
                Goto, Process
  <2>5. ~Command(v)
    BY CommandStep
  <2> QED
    BY <1>4, <2>1, <2>2, <2>3, <2>4, <2>5 DEF Turn
<1>5. CASE \E w \in Executors : TryLock(w) \/ Crash(w) \/ LoseSession(w)
  BY <1>1, <1>2, <1>5 DEF TryLock, Crash, LoseSession, Process, Idle
<1>6. CASE \/ UNCHANGED vars \/ LeaseExpires \/ ServerNotices
           \/ \E j \in Jobs : Enqueue(j) \/ Retry(j)
           \/ \E w \in Executors : Stall(w)
  BY <1>2, <1>6 DEF vars, LeaseExpires, ServerNotices, Enqueue, Retry, Stall
<1> QED
  BY <1>3, <1>4, <1>5, <1>6 DEF Next

\* Who claims finds nothing running, so nobody at work who still owns a row.
LEMMA WorksAloneStep == Inv /\ RouterInv /\ ~DirectEntry /\ [Next]_vars => WorksAlone'
<1> SUFFICES ASSUME Inv, RouterInv, ~DirectEntry, [Next]_vars,
                    NEW v \in Executors, NEW w \in Executors, v # w,
                    ex'[v].pc \in Working, ex'[w].pc \in Working,
                    RouterOf[ex'[v].job] = RouterOf[ex'[w].job]
             PROVE  RouterOf[ex'[v].job] \in reviewed'
  BY DEF WorksAlone, Target
<1>1. /\ ex'[v].job = ex[v].job /\ ex'[w].job = ex[w].job
      /\ ex[v].pc \in Working \/ Claims(v)
      /\ ex[w].pc \in Working \/ Claims(w)
  BY WorkStep
<1>2. reviewed \subseteq reviewed'
  BY QuarantineChange DEF Recover, Retry
<1>3. ASSUME NEW a \in Executors, NEW b \in Executors, ex[a].pc \in Working, Claims(b),
             Target(a) = Target(b)
      PROVE  Target(a) \in reviewed
  <2>1. RunningOn(Target(b)) = {} /\ Target(b) \notin blocked
    BY <1>3 DEF Claims, Claim, RouterInv, LoopInv, ClaimsFree, Target
  <2>2. ex[a].job \in Jobs
    BY <1>3 DEF Inv, ProcessInv, WellPlaced, Working, Assigned
  <2>3. job[ex[a].job].status # "running"
    BY <1>3, <2>1, <2>2 DEF RunningOn, Target
  <2>4. ex[a].pc \in Working /\ Target(a) \notin reviewed =>
          \/ job[ex[a].job] = [status |-> "running", token |-> ex[a].token]
          \/ Target(a) \in blocked
    BY DEF RouterInv, LoopInv, OwnsRow
  <2>5. job[ex[a].job] # [status |-> "running", token |-> ex[a].token]
    BY <2>3
  <2> QED
    BY <1>3, <2>1, <2>4, <2>5
<1>4. ~(Claims(v) /\ Claims(w))
  <2>1. ASSUME NEW u \in Executors, Claims(u) PROVE lock = u
    BY <2>1 DEF Claims, Claim, Inv, LockInv
  <2> QED
    BY <2>1
<1>5. CASE ex[v].pc \in Working /\ ex[w].pc \in Working
  BY <1>1, <1>2, <1>5 DEF RouterInv, LoopInv, WorksAlone, Target
<1> QED
  BY <1>1, <1>2, <1>3, <1>4, <1>5 DEF Target

-----------------------------------------------------------------------------
(* Theorems.                                                               *)

\* The conjunction of the above is an invariant.
THEOREM Invariance == Spec => []Inv
<1>1. Init => Inv
  BY TypeInit DEF Inv
<1>2. Inv /\ [Next]_vars => Inv'
  BY TypeStep, LockStep, LateStep DEF Inv
<1> QED
  BY <1>1, <1>2, PTL DEF Spec

\* Every row and process always holds values of its type; in particular an
\* acquisition always finds a fresh token.
THEOREM TypeCorrect == Spec => []TypeOK
<1>1. Inv => TypeOK
  BY DEF Inv
<1> QED
  BY <1>1, Invariance, PTL

\* One process at most executes jobs of the node in its session, whatever dies,
\* stalls or loses its session (node_execution).
THEOREM SingleExecutor == Spec => []OneExecutor
<1>1. Inv => OneExecutor
  <2> SUFFICES ASSUME Inv, NEW v \in Executors, NEW w \in Executors, Executing(v), Executing(w)
               PROVE  v = w
    BY DEF OneExecutor
  <2>1. lock = v /\ lock = w
    BY DEF Inv, LockInv, Executing
  <2> QED
    BY <2>1
<1> QED
  BY <1>1, Invariance, PTL

\* A process whose place was taken sends one more command at most
\* (NodeLease.check around RouterOS.run and call_agent).
THEOREM SingleLateCommand == Spec => []OneLateCommand
<1>1. Inv => OneLateCommand
  <2> SUFFICES ASSUME Inv, NEW w \in Executors PROVE ex[w].late <= 1
    BY DEF OneLateCommand
  <2>1. ex[w].late \in Nat
    BY TypeParts, ExecutorAssumption DEF Inv, Process
  <2>2. ex[w].late > 0 => ex[w].late = 1
    BY DEF Inv, LateInv
  <2> QED
    BY <2>1, <2>2
<1> QED
  BY <1>1, Invariance, PTL

\* Commands of two processes mix on a router only where an operator released it, or
\* where the onboarding command came before the recovery (run_network_jobs,
\* network_lab_onboard).
THEOREM RouterLeftAlone == Spec => []RouterIsLeftAlone
<1>1. Init => Inv /\ RouterInv
  BY TypeInit, RouterInit DEF Inv
<1>2. Inv /\ RouterInv /\ [Next]_vars => Inv' /\ RouterInv'
  <2>1. RouterInv' <=> TokensDiffer' /\ WorksOpen' /\ FailedClosed'
                       /\ (~DirectEntry => OwnsRow' /\ WorksAlone' /\ ClaimsFree' /\ EntersFree')
    BY DEF RouterInv, LoopInv
  <2> QED
    BY <2>1, TypeStep, LockStep, LateStep, TokensDifferStep, WorksOpenStep, FailedClosedStep,
       OwnsRowStep, WorksAloneStep, ClaimsFreeStep, EntersFreeStep DEF Inv
<1>3. Inv /\ RouterInv => RouterIsLeftAlone
  <2> SUFFICES ASSUME Inv, RouterInv, NEW v \in Executors, NEW w \in Executors, v # w,
                      ex[v].pc = "command", ex[w].pc = "command", Target(v) = Target(w),
                      Target(v) \notin reviewed
               PROVE  DirectEntry /\ (ex[v].session => ex[w].job \notin uncertain)
    BY DEF RouterIsLeftAlone
  <2>1. DirectEntry
    BY ExecutorAssumption DEF RouterInv, LoopInv, WorksAlone, Working
  <2>2. ex[v].session => Target(v) \notin blocked
    BY DEF RouterInv, WorksOpen, Working
  <2>3. ex[w].job \in uncertain => Target(w) \in blocked \cup reviewed
    BY DEF RouterInv, FailedClosed, Target
  <2> QED
    BY <2>1, <2>2, <2>3
<1> QED
  BY <1>1, <1>2, <1>3, PTL DEF Spec

\* Recovery fails a job only when the process that claimed it is dead or has lost
\* its session (recover_interrupted_jobs).
THEOREM RecoveryIsSafe == Spec => RecoversOnlyTheDead
<1> DEFINE Safe == \A v, w \in Executors, j \in Jobs :
                     /\ ex[w].pc = "recover" /\ job[j].status = "running" /\ job'[j].status = "failed"
                     /\ ex[w].pc # ex'[w].pc
                     /\ ex[v].job = j /\ ex[v].token = job[j].token
                     => ~ex[v].session
<1>1. Inv /\ [Next]_vars => Safe
  <2> SUFFICES ASSUME Inv, [Next]_vars, NEW v \in Executors, NEW w \in Executors, NEW j \in Jobs,
                      ex[w].pc = "recover", job[j].status = "running",
                      job'[j].status = "failed", ex[w].pc # ex'[w].pc,
                      ex[v].job = j, ex[v].token = job[j].token, ex[v].session
               PROVE  FALSE
    OBVIOUS
  <2>1. ex \in [Executors -> Process] /\ job \in [Jobs -> JobRow]
    BY TypeParts DEF Inv
  <2>2. Recover(w)
    <3>1. job' # job /\ ex' # ex
      OBVIOUS
    <3>2. ASSUME NEW u \in Executors, u # w, Claim(u) \/ Recover(u) \/ FindMissing(u) \/ Commit(u)
          PROVE  FALSE
      BY <2>1, <3>2 DEF Claim, Recover, FindMissing, Commit, Goto
    <3>3. ~(Claim(w) \/ FindMissing(w) \/ Commit(w))
      BY DEF Claim, FindMissing, Commit
    <3>4. \E u \in Executors : Claim(u) \/ Recover(u) \/ FindMissing(u) \/ Commit(u)
      <4>1. ASSUME NEW u \in Executors, job' # job, ex' # ex,
                   TryLock(u) \/ Turn(u) \/ Stall(u) \/ Crash(u) \/ LoseSession(u)
            PROVE  Claim(u) \/ Recover(u) \/ FindMissing(u) \/ Commit(u)
        BY <4>1 DEF Turn, TryLock, Stall, Crash, LoseSession, Acquire, LeaseLost, SessionGone,
                    Release, Unlock, RecoverCheck, Select, Start, Issue, Command, Answered,
                    Complete, Succeed, FinalCheck
      <4>2. ~UNCHANGED vars /\ ~LeaseExpires /\ ~ServerNotices /\ ~\E i \in Jobs : Enqueue(i) \/ Retry(i)
        BY <3>1 DEF vars, LeaseExpires, ServerNotices, Enqueue, Retry
      <4> QED
        BY <3>1, <4>1, <4>2 DEF Next
    <3> QED
      BY <3>2, <3>3, <3>4
  <2>3. lock = w
    BY <2>2 DEF Recover, Inv, LockInv
  <2>4. ex[v].pc # "idle"
    <3>1. ex[v].pc = "idle" => ex[v].job = NoJob
      BY DEF Inv, ProcessInv, WellPlaced, Idle
    <3> QED
      BY <3>1, ExecutorAssumption
  <2>5. v = w
    BY <2>3, <2>4 DEF Inv, LockInv
  <2>6. j \notin Interrupted(w)
    BY <2>5 DEF Interrupted
  <2>7. job'[j] = job[j]
    BY <2>2, <2>6 DEF Recover, Failed
  <2> QED
    BY <2>7
<1> QED
  BY <1>1, Invariance, PTL DEF Spec, RecoversOnlyTheDead
=============================================================================
