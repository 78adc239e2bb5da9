--------------------------- MODULE RouterPlanProofs ---------------------------
(***************************************************************************)
(* Proofs about RouterPlan, for any number of jobs and faults: what is on  *)
(* the router and the node is journaled, a rollback that succeeds leaves   *)
(* nothing of its plan, and a provisioned router with nothing half done is *)
(* complete.                                                               *)
(***************************************************************************)
EXTENDS RouterPlan, FiniteSetTheorems, NaturalsInduction, TLAPS

JobIds == 1 .. Len(jobs)
Applying == {"check", "prepare", "host", "wg", "configure", "peer", "service", "global", "finish"}

\* The executor works on the one job that is running; a plan is journaled before
\* the steps after an intent, and a rollback undoes entries its plan has.
ExecutorInv ==
  /\ ex.pc = "idle" => ex = Idle
  /\ ex.pc # "idle" => ex.job \in JobIds /\ jobs[ex.job].status = "running"
  /\ \A i \in JobIds : jobs[i].status = "running" => ex.pc # "idle" /\ i = ex.job
  /\ ex.pc \in Applying => jobs[ex.job].kind = "apply"
  /\ ex.pc \in {"configure", "peer", "service", "global", "finish"} => jobs[ex.job].journal >= 2
  /\ ex.pc = "undo" => /\ jobs[ex.job].kind = "rollback"
                       /\ ex.at <= jobs[jobs[ex.job].of].journal
  /\ \A i \in JobIds : IF jobs[i].kind = "rollback" THEN jobs[i].of \in Applies
                       ELSE jobs[i].of = 0

\* A plan is of a router that was discovered.
ReviewedInv ==
  /\ disc # Unknown => disc.global # "unknown"
  /\ \A i \in Applies : jobs[i].snap.global # "unknown"

\* The agent configures after a start only what a plan has journaled.
OwnedInv ==
  /\ OwnedIsJournaled
  /\ host.configured => \E i \in Applies : Journaled(i, "host")

Undoing == ex.pc = "undo" \/ (ex.pc = "commit" /\ jobs[ex.job].kind = "rollback")

\* What a rollback has passed is gone, and does not come back while it is at work.
CleanInv ==
  Undoing =>
    /\ ex.pc = "commit" => ex.at = 0 /\ ~provisioned
    /\ \A r \in Present : Journaled(jobs[ex.job].of, r) => Position(r) <= ex.at
    /\ ex.at = 0 /\ Journaled(jobs[ex.job].of, "host") => host = NoHost

Made(r) == router[r] # Absent \/ r \in meddled

\* A plan has made what lies behind it, or it was removed by hand since; and until
\* a rollback is asked for, that stays so.
CompleteInv ==
  /\ ex.pc \in {"host", "wg", "configure", "peer"} => host.key # Absent
  /\ ex.pc \in {"configure", "peer", "service", "global", "finish"} => Made("wg")
  /\ ex.pc \in {"service", "global", "finish"} => Made("peer")
  /\ ex.pc \in {"global", "finish"} => Made("service")
  /\ provisioned /\ (\A j \in JobIds : jobs[j].kind = "rollback" => jobs[j].status = "succeeded")
       => \A r \in Resources : Made(r)

\* A plan that is begun and has not been past configure, or has to go there again.
WillConfigure(i) ==
  /\ jobs[i].journal > 0
  /\ \/ jobs[i].status \in {"pending", "failed"}
     \/ /\ jobs[i].status = "running"
        /\ ex.pc \in {"check", "prepare", "host", "wg", "configure"}

\* While no rollback was ever asked for: the peer holds the node's key, and whatever
\* the node lacks of its own end some plan is still to bring it.
TunnelInv ==
  (\A j \in JobIds : jobs[j].kind = "apply") =>
    /\ router.peer # Absent => router.peer = host.key
    /\ provisioned \/ ex.pc \in {"peer", "service", "global", "finish"} => host.configured
    /\ host.configured => host.link # "none"
    /\ (router.wg # Absent /\ host.peer # router.wg) \/ (host.configured /\ ~host.client) =>
         \E i \in JobIds : WillConfigure(i)

PlanInv ==
  TypeOK /\ ExecutorInv /\ ReviewedInv /\ OwnedInv /\ CleanInv /\ CompleteInv /\ TunnelInv

-----------------------------------------------------------------------------
(* Positions, keys and rows.                                               *)

\* The places of the intents in a journal.
LEMMA Positions ==
  /\ Len(Intents) = 5
  /\ Intents[1] = "host" /\ Intents[2] = "wg" /\ Intents[3] = "peer"
  /\ Intents[4] = "service" /\ Intents[5] = "global"
  /\ Position("host") = 1 /\ Position("wg") = 2 /\ Position("peer") = 3
  /\ Position("service") = 4 /\ Position("global") = 5
<1>1. /\ Len(Intents) = 5
      /\ Intents[1] = "host" /\ Intents[2] = "wg" /\ Intents[3] = "peer"
      /\ Intents[4] = "service" /\ Intents[5] = "global"
  BY DEF Intents
<1>2. ASSUME NEW x, NEW n \in 1 .. 5, Intents[n] = x
      PROVE  Position(x) = n
  <2>1. \E m \in 1 .. Len(Intents) : Intents[m] = x
    BY <1>1, <1>2
  <2>2. Position(x) \in 1 .. Len(Intents) /\ Intents[Position(x)] = x
    BY <2>1, Zenon DEF Position
  <2> DEFINE m == Position(x)
  <2> HIDE DEF m
  <2>3. m \in 1 .. 5 /\ Intents[m] = x
    BY <1>1, <2>2 DEF m
  <2>4. m = n
    BY <1>1, <1>2, <2>3
  <2> QED
    BY <2>4 DEF m
<1> QED
  BY <1>1, <1>2

\* A set of naturals has a least element.
LEMMA LeastNatural ==
  ASSUME NEW S \in SUBSET Nat, S # {}
  PROVE  Min(S) \in S /\ \A y \in S : Min(S) <= y
<1> DEFINE R == OpToRel(<, Nat)
<1>1. \E x \in S : \A y \in S : <<y, x>> \notin R
  BY NatLessThanWellFounded, WFMin, Zenon
<1>2. \A x, y \in S : <<y, x>> \notin R => ~(y < x)
  BY Zenon DEF OpToRel
<1>3. \E x \in S : \A y \in S : ~(y < x)
  BY <1>1, <1>2, Zenon
<1>4. \E x \in S : \A y \in S : x <= y
  BY <1>3
<1> QED
  BY <1>4, Zenon DEF Min

\* A set of naturals with an upper bound has a greatest element.
LEMMA GreatestNatural ==
  ASSUME NEW n \in Nat, NEW S \in SUBSET (0 .. n), S # {}
  PROVE  Max(S) \in S
<1> DEFINE T == {n - x : x \in S}
<1>1. \A x \in S : x \in 0 .. n /\ n - x \in Nat
  OBVIOUS
<1>2. T \in SUBSET Nat /\ T # {}
  BY <1>1
<1>3. Min(T) \in T /\ \A t \in T : Min(T) <= t
  BY <1>2, LeastNatural
<1>4. \E z \in S : \A y \in S : z >= y
  <2>1. PICK z \in S : Min(T) = n - z
    BY <1>3
  <2>2. \A y \in S : n - z <= n - y
    BY <1>3, <2>1
  <2>3. \A y \in S : z >= y
    BY <1>1, <2>2
  <2> QED
    BY <2>3
<1> QED
  BY <1>4, Zenon DEF Max

\* The keys are more than the places they are held in, so there is a fresh one
\* whenever the node or the interface has none.
LEMMA FreshKeyIsAKey ==
  ASSUME TypeOK, host.key = Absent \/ router.wg = Absent
  PROVE  FreshKey \in Keys
<1> DEFINE n == Len(jobs)
           seen == {jobs[i].snap : i \in 1 .. n} \union {disc, router}
           used == {host.key, host.peer} \union UNION {{s.wg, s.peer} : s \in seen}
           last == IF host.key = Absent THEN router.wg ELSE host.key
           Held(k) == IF k = 1 THEN host.peer ELSE IF k = 2 THEN disc.wg
                      ELSE IF k = 3 THEN disc.peer ELSE IF k = 4 THEN router.peer
                      ELSE IF k = 5 THEN last ELSE IF k <= 5 + n THEN jobs[k - 5].snap.wg
                      ELSE jobs[k - 5 - n].snap.peer
           h == [k \in 1 .. 5 + 2 * n |-> IF Held(k) \in Keys THEN Held(k) ELSE 1]
<1>1. n \in Nat /\ MaxJobs \in Nat /\ n <= MaxJobs /\ Absent \notin Keys
  BY PlanAssumption DEF PlanAssumption, TypeOK, Keys, Absent
<1>2. SUFFICES Keys \ used # {}
  <2>1. Keys \ used \in SUBSET Nat
    BY DEF Keys
  <2> QED
    BY <1>2, <2>1, LeastNatural DEF FreshKey
<1>3. SUFFICES ASSUME Keys \subseteq used
               PROVE  FALSE
  OBVIOUS
<1>4. ASSUME NEW t \in Keys
      PROVE  \E k \in 1 .. 5 + 2 * n : Held(k) = t
  <2>1. t \in used /\ t # Absent
    BY <1>1, <1>3
  <2>2. CASE t \in {host.key, host.peer, router.wg, router.peer, disc.wg, disc.peer}
    <3>1. t \in {Held(1), Held(2), Held(3), Held(4), Held(5)}
      BY <2>1, <2>2
    <3>2. {1, 2, 3, 4, 5} \subseteq 1 .. 5 + 2 * n
      BY <1>1
    <3> HIDE DEF Held
    <3> QED
      BY <3>1, <3>2
  <2>3. CASE \E i \in 1 .. n : t = jobs[i].snap.wg \/ t = jobs[i].snap.peer
    <3>1. PICK i \in 1 .. n : t = jobs[i].snap.wg \/ t = jobs[i].snap.peer
      BY <2>3
    <3>2. 5 + i \in 1 .. 5 + 2 * n /\ 5 + n + i \in 1 .. 5 + 2 * n
      BY <1>1, <3>1
    <3>3. Held(5 + i) = jobs[i].snap.wg
      <4> HIDE DEF n, last
      <4>1. (5 + i) - 5 = i /\ 5 + i > 5 /\ 5 + i <= 5 + n
        BY <1>1, <3>1
      <4> QED
        BY <1>1, <3>1, <4>1
    <3>4. Held(5 + n + i) = jobs[i].snap.peer
      <4> HIDE DEF n, last
      <4>1. (5 + n + i) - 5 - n = i /\ 5 + n + i > 5 + n
        BY <1>1, <3>1
      <4> QED
        BY <1>1, <3>1, <4>1
    <3> HIDE DEF Held, n
    <3> QED
      BY <3>1, <3>2, <3>3, <3>4
  <2> QED
    BY <2>1, <2>2, <2>3
<1> HIDE DEF Held, used
<1>5. h \in Surjection(1 .. 5 + 2 * n, Keys)
  <2>1. 1 \in Keys
    BY <1>1 DEF Keys
  <2>2. h \in [1 .. 5 + 2 * n -> Keys]
    BY <2>1
  <2>3. \A t \in Keys : \E k \in 1 .. 5 + 2 * n : h[k] = t
    BY <1>4
  <2> QED
    BY <2>2, <2>3 DEF Surjection
<1>6. Cardinality(Keys) <= 5 + 2 * n
  <2>1. 5 + 2 * n \in Nat /\ ExistsSurjection(1 .. 5 + 2 * n, Keys)
    BY <1>1, <1>5 DEF ExistsSurjection
  <2> QED
    BY <2>1, FS_SurjCardinalityBound
<1>7. Cardinality(Keys) = 6 + 2 * MaxJobs
  BY <1>1, FS_Interval DEF Keys
<1> QED
  BY <1>1, <1>6, <1>7

\* Writing the status of a row writes nothing else.
LEMMA StatusWritten ==
  ASSUME jobs \in Seq(Jobs), NEW i \in JobIds,
         NEW status \in {"pending", "running", "succeeded", "failed"},
         jobs' = [jobs EXCEPT ![i].status = status]
  PROVE  /\ jobs' \in Seq(Jobs) /\ Len(jobs') = Len(jobs)
         /\ \A j \in JobIds : /\ jobs'[j].kind = jobs[j].kind /\ jobs'[j].of = jobs[j].of
                              /\ jobs'[j].journal = jobs[j].journal
                              /\ jobs'[j].snap = jobs[j].snap
                              /\ jobs'[j].status = IF j = i THEN status ELSE jobs[j].status
<1> DEFINE new == [jobs[i] EXCEPT !.status = status]
<1>1. jobs[i] \in Jobs
  BY DEF JobIds
<1>2. /\ new \in Jobs /\ new.status = status /\ new.kind = jobs[i].kind
      /\ new.of = jobs[i].of /\ new.journal = jobs[i].journal /\ new.snap = jobs[i].snap
  BY <1>1 DEF Jobs
<1>3. jobs' = [jobs EXCEPT ![i] = new]
  OBVIOUS
<1> HIDE DEF new
<1> QED
  BY <1>2, <1>3 DEF JobIds

\* Journaling an intent writes nothing else.
LEMMA JournalWritten ==
  ASSUME jobs \in Seq(Jobs), NEW i \in JobIds, NEW n \in 0 .. Len(Intents),
         jobs' = [jobs EXCEPT ![i].journal = n]
  PROVE  /\ jobs' \in Seq(Jobs) /\ Len(jobs') = Len(jobs)
         /\ \A j \in JobIds : /\ jobs'[j].kind = jobs[j].kind /\ jobs'[j].of = jobs[j].of
                              /\ jobs'[j].journal = IF j = i THEN n ELSE jobs[j].journal
                              /\ jobs'[j].snap = jobs[j].snap
                              /\ jobs'[j].status = jobs[j].status
<1> DEFINE new == [jobs[i] EXCEPT !.journal = n]
<1>1. jobs[i] \in Jobs
  BY DEF JobIds
<1>2. /\ new \in Jobs /\ new.status = jobs[i].status /\ new.kind = jobs[i].kind
      /\ new.of = jobs[i].of /\ new.journal = n /\ new.snap = jobs[i].snap
  BY <1>1 DEF Jobs
<1>3. jobs' = [jobs EXCEPT ![i] = new]
  OBVIOUS
<1> HIDE DEF new
<1> QED
  BY <1>2, <1>3 DEF JobIds

\* A new row comes after the ones there are.
LEMMA JobAppended ==
  ASSUME jobs \in Seq(Jobs), NEW new \in Jobs, jobs' = Append(jobs, new)
  PROVE  /\ jobs' \in Seq(Jobs) /\ Len(jobs') = Len(jobs) + 1 /\ Len(jobs) \in Nat
         /\ \A j \in JobIds : jobs'[j] = jobs[j]
         /\ jobs'[Len(jobs) + 1] = new
BY DEF JobIds

-----------------------------------------------------------------------------
(* Types.                                                                  *)

\* The steps of the executor.
LEMMA TheSteps ==
  Steps = {"idle", "check", "prepare", "configure", "finish", "undo", "commit",
           "host", "wg", "peer", "service", "global"}
<1>1. {Intents[n] : n \in 1 .. Len(Intents)} = {"host", "wg", "peer", "service", "global"}
  BY Positions
<1> QED
  BY <1>1 DEF Steps

\* The parts of what is on the router and on the node.
LEMMA StateParts ==
  ASSUME TypeOK
  PROVE  /\ host.key \in Keys \union {Absent} /\ host.peer \in Keys \union {Absent}
         /\ host.configured \in BOOLEAN /\ host.link \in {"none", "bare", "owned"}
         /\ host.client \in BOOLEAN
         /\ router.wg \in Keys \union {Absent} /\ router.peer \in Keys \union {Absent}
         /\ router.service \in {Absent, 1} /\ router.global \in {"yes", "no"}
         /\ ex.pc \in Steps /\ ex.job \in 0 .. MaxJobs /\ ex.at \in 0 .. 5
         /\ Len(jobs) \in Nat /\ Absent \notin Keys /\ Absent = 0
         /\ \A i \in JobIds : jobs[i] \in Jobs /\ jobs[i].snap \in Contents
                              /\ jobs[i].journal \in 0 .. 5
<1>1. /\ host.key \in Keys \union {Absent} /\ host.peer \in Keys \union {Absent}
      /\ host.configured \in BOOLEAN /\ host.link \in {"none", "bare", "owned"}
      /\ host.client \in BOOLEAN
  BY DEF TypeOK, Hosts
<1>2. /\ router.wg \in Keys \union {Absent} /\ router.peer \in Keys \union {Absent}
      /\ router.service \in {Absent, 1} /\ router.global \in {"yes", "no"}
  BY DEF TypeOK, Contents
<1>3. ex.pc \in Steps /\ ex.job \in 0 .. MaxJobs /\ ex.at \in 0 .. 5
  BY Positions DEF TypeOK
<1>4. Len(jobs) \in Nat /\ Absent \notin Keys /\ Absent = 0
  BY DEF TypeOK, Keys, Absent
<1>5. ASSUME NEW i \in JobIds
      PROVE  jobs[i] \in Jobs /\ jobs[i].snap \in Contents /\ jobs[i].journal \in 0 .. 5
  <2>1. jobs[i] \in Jobs
    BY DEF TypeOK, JobIds
  <2> QED
    BY <2>1, Positions DEF Jobs
<1> QED
  BY <1>1, <1>2, <1>3, <1>4, <1>5

\* What configure writes of the node's end, in the order of its steps.
LEMMA ConfiguredParts ==
  ASSUME TypeOK, NEW n \in 1 .. 5
  PROVE  /\ Configured(n) \in Hosts /\ Configured(n).key = host.key
         /\ Configured(n).peer = router.wg
         /\ Configured(n).link = IF host.link # "none" \/ n < 2 THEN host.link
                                 ELSE IF n = 2 THEN "bare" ELSE "owned"
         /\ Configured(n).configured = (host.configured \/ n >= 4)
         /\ Configured(n).client = IF n >= 5 THEN TRUE ELSE host.client
<1> DEFINE link == IF host.link # "none" \/ n < 2 THEN host.link
                   ELSE IF n = 2 THEN "bare" ELSE "owned"
           configured == host.configured \/ n >= 4
           client == IF n >= 5 THEN TRUE ELSE host.client
<1>1. Configured(n) = [host EXCEPT !.peer = router.wg, !.link = link,
                                   !.configured = configured, !.client = client]
  <2>1. n >= 1
    OBVIOUS
  <2> QED
    BY <2>1, Zenon DEF Configured
<1>2. /\ router.wg \in Keys \union {Absent} /\ link \in {"none", "bare", "owned"}
      /\ configured \in BOOLEAN /\ client \in BOOLEAN
  BY StateParts
<1> HIDE DEF link, configured, client
<1>3. /\ Configured(n) \in Hosts /\ Configured(n).key = host.key
      /\ Configured(n).peer = router.wg /\ Configured(n).link = link
      /\ Configured(n).configured = configured /\ Configured(n).client = client
  BY <1>1, <1>2 DEF TypeOK, Hosts
<1> QED
  BY <1>3 DEF link, configured, client

\* What remove leaves of the node's end.
LEMMA RemovedParts ==
  ASSUME TypeOK, NEW n \in 1 .. 3
  PROVE  /\ Removed(n) \in Hosts
         /\ Removed(n).peer = (IF n >= 2 THEN Absent ELSE host.peer) /\ Removed(n).link = "none"
         /\ Removed(n).configured = (host.configured /\ n < 2)
         /\ Removed(n).client = (host.client /\ n < 3)
         /\ n = 3 => Removed(n) = NoHost
<1> DEFINE key == IF n >= 2 THEN Absent ELSE host.key
           peer == IF n >= 2 THEN Absent ELSE host.peer
           configured == host.configured /\ n < 2
           client == host.client /\ n < 3
<1>1. Removed(n) = [host EXCEPT !.link = "none", !.key = key, !.peer = peer,
                                !.configured = configured, !.client = client]
  <2>1. n >= 1
    OBVIOUS
  <2> QED
    BY <2>1, Zenon DEF Removed
<1>2. /\ key \in Keys \union {Absent} /\ peer \in Keys \union {Absent}
      /\ configured \in BOOLEAN /\ client \in BOOLEAN
  BY StateParts
<1>3. n = 3 => key = Absent /\ peer = Absent /\ configured = FALSE /\ client = FALSE
  OBVIOUS
<1> HIDE DEF key, peer, configured, client
<1>4. /\ Removed(n) \in Hosts /\ Removed(n).peer = peer /\ Removed(n).link = "none"
      /\ Removed(n).configured = configured /\ Removed(n).client = client
      /\ Removed(n).key = key
  BY <1>1, <1>2 DEF TypeOK, Hosts
<1>5. n = 3 => Removed(n) = NoHost
  BY <1>1, <1>3 DEF TypeOK, Hosts, NoHost
<1> QED
  BY <1>4, <1>5 DEF key, peer, configured, client

\* What a step of a plan makes, and what it leaves.
LEMMA CreatedParts ==
  ASSUME TypeOK, NEW x \in {"host", "wg", "peer", "service", "global"}
  PROVE  /\ x = "wg" => FreshKey \in Keys \/ router.wg # Absent
         /\ Created(x) \in Contents /\ Created(x).global # "unknown"
         /\ Created(x).wg = IF x = "wg" /\ router.wg = Absent THEN FreshKey ELSE router.wg
         /\ Created(x).peer = IF x = "peer" /\ router.peer = Absent THEN host.key
                              ELSE router.peer
         /\ Created(x).service = IF x = "service" THEN 1 ELSE router.service
<1>1. /\ host.key \in Keys \union {Absent} /\ router \in Contents /\ router.global # "unknown"
      /\ Absent \notin Keys
      /\ router.wg = Absent => FreshKey \in Keys
  BY StateParts, FreshKeyIsAKey DEF TypeOK
<1>2. CASE x = "host"
  BY <1>1, <1>2 DEF Created
<1>3. CASE x = "wg"
  <2> DEFINE key == IF router.wg = Absent THEN FreshKey ELSE router.wg
  <2>1. Created(x) = [router EXCEPT !.wg = key]
    BY <1>3 DEF Created
  <2>2. key \in Keys \union {Absent}
    BY <1>1, StateParts
  <2>3. key = IF x = "wg" /\ router.wg = Absent THEN FreshKey ELSE router.wg
    BY <1>3
  <2> HIDE DEF key
  <2>4. /\ Created(x) \in Contents /\ Created(x).global # "unknown" /\ Created(x).wg = key
        /\ Created(x).peer = router.peer /\ Created(x).service = router.service
    BY <1>1, <2>1, <2>2 DEF Contents
  <2> QED
    BY <1>1, <1>3, <2>3, <2>4
<1>4. CASE x = "peer"
  <2>1. Created(x) = [router EXCEPT !.peer = IF router.peer = Absent THEN host.key ELSE router.peer]
    BY <1>4 DEF Created
  <2> QED
    BY <1>1, <1>4, <2>1 DEF Contents
<1>5. CASE x = "service"
  <2>1. Created(x) = [router EXCEPT !.service = 1]
    BY <1>5 DEF Created
  <2> QED
    BY <1>1, <1>5, <2>1 DEF Contents
<1>6. CASE x = "global"
  <2>1. Created(x) = [router EXCEPT !.global = "yes"]
    BY <1>6 DEF Created
  <2> QED
    BY <1>1, <1>6, <2>1 DEF Contents
<1> QED
  BY <1>2, <1>3, <1>4, <1>5, <1>6

-----------------------------------------------------------------------------
(* The executor and its rows.                                              *)

\* The rows of the table keep their kind, their plan and their discovery, and
\* what they have journaled.
Kept ==
  /\ jobs' \in Seq(Jobs) /\ Len(jobs) <= Len(jobs')
  /\ \A j \in JobIds : /\ jobs'[j].kind = jobs[j].kind /\ jobs'[j].of = jobs[j].of
                       /\ jobs'[j].snap = jobs[j].snap
                       /\ jobs[j].journal <= jobs'[j].journal

\* Rows that are kept refer to the same plans.
LEMMA KeptRows ==
  ASSUME TypeOK, ExecutorInv, Kept
  PROVE  /\ JobIds \subseteq JobIds' /\ Applies \subseteq Applies'
         /\ \A i \in JobIds : \A x \in {"host", "wg", "peer", "service", "global"} :
              Journaled(i, x) => Journaled(i, x)'
         /\ Len(jobs') = Len(jobs) => Applies' = Applies /\ JobIds' = JobIds
<1>1. Len(jobs) \in Nat /\ Len(jobs') \in Nat /\ Len(jobs) <= Len(jobs')
  BY DEF TypeOK, Kept
<1>2. JobIds \subseteq JobIds'
  BY <1>1 DEF JobIds
<1>3. Applies \subseteq Applies'
  BY <1>2 DEF Applies, JobIds, Kept
<1>4. Len(jobs') = Len(jobs) => Applies' = Applies /\ JobIds' = JobIds
  BY DEF Applies, JobIds, Kept
<1>5. \A i \in JobIds : \A x \in {"host", "wg", "peer", "service", "global"} :
        Journaled(i, x) => Journaled(i, x)'
  <2> SUFFICES ASSUME NEW i \in JobIds, NEW x \in {"host", "wg", "peer", "service", "global"},
                      Journaled(i, x)
               PROVE  Position(x) <= jobs'[i].journal
    BY DEF Journaled
  <2>1. jobs[i].journal \in Nat /\ jobs'[i].journal \in Nat
    <3>1. i \in 1 .. Len(jobs')
      BY <1>2 DEF JobIds
    <3>2. jobs'[i] \in Jobs
      BY <3>1 DEF Kept
    <3> QED
      BY <3>2, StateParts, Positions DEF Jobs
  <2>2. Position(x) <= jobs[i].journal /\ jobs[i].journal <= jobs'[i].journal
    BY DEF Journaled, Kept
  <2>3. Position(x) \in Nat
    BY Positions
  <2> QED
    BY <2>1, <2>2, <2>3
<1> QED
  BY <1>2, <1>3, <1>4, <1>5

\* The row at work ends, and the executor rests.
LEMMA JobEnds ==
  ASSUME TypeOK, ExecutorInv, ex.pc # "idle", NEW status \in {"succeeded", "failed"},
         jobs' = [jobs EXCEPT ![ex.job].status = status], ex' = Idle
  PROVE  /\ Kept /\ Len(jobs') = Len(jobs) /\ ExecutorInv'
         /\ \A j \in JobIds :
              /\ jobs'[j].journal = jobs[j].journal
              /\ jobs'[j].status = IF j = ex.job THEN status ELSE jobs[j].status
<1>1. ex.job \in JobIds
  BY DEF ExecutorInv
<1>2. /\ jobs' \in Seq(Jobs) /\ Len(jobs') = Len(jobs)
      /\ \A j \in JobIds : /\ jobs'[j].kind = jobs[j].kind /\ jobs'[j].of = jobs[j].of
                           /\ jobs'[j].journal = jobs[j].journal
                           /\ jobs'[j].snap = jobs[j].snap
                           /\ jobs'[j].status = IF j = ex.job THEN status ELSE jobs[j].status
  <2> DEFINE i == ex.job
  <2>1. /\ jobs \in Seq(Jobs) /\ i \in JobIds /\ jobs' = [jobs EXCEPT ![i].status = status]
        /\ status \in {"pending", "running", "succeeded", "failed"}
    BY <1>1 DEF TypeOK
  <2> HIDE DEF i
  <2>2. /\ jobs' \in Seq(Jobs) /\ Len(jobs') = Len(jobs)
        /\ \A j \in JobIds : /\ jobs'[j].kind = jobs[j].kind /\ jobs'[j].of = jobs[j].of
                             /\ jobs'[j].journal = jobs[j].journal
                             /\ jobs'[j].snap = jobs[j].snap
                             /\ jobs'[j].status = IF j = i THEN status ELSE jobs[j].status
    BY <2>1, StatusWritten, Zenon
  <2> QED
    BY <2>2 DEF i
<1>3. Kept
  BY <1>2, StateParts DEF Kept
<1>4. Applies' = Applies /\ JobIds' = JobIds
  BY <1>2, <1>3, KeptRows
<1>5. \A i \in JobIds : jobs'[i].status # "running"
  BY <1>2 DEF ExecutorInv
<1>6. \A i \in JobIds : IF jobs'[i].kind = "rollback" THEN jobs'[i].of \in Applies
                        ELSE jobs'[i].of = 0
  BY <1>2 DEF ExecutorInv
<1>7. ex'.pc = "idle" /\ "idle" \notin Applying
  BY DEF Idle, Applying
<1>8. ExecutorInv'
  BY <1>4, <1>5, <1>6, <1>7 DEF ExecutorInv
<1> QED
  BY <1>2, <1>3, <1>8

\* The executor goes on with its row.
LEMMA JobGoesOn ==
  ASSUME TypeOK, ExecutorInv, ex.pc # "idle", UNCHANGED jobs,
         NEW pc \in Steps \ {"idle", "undo"}, ex' = [ex EXCEPT !.pc = pc],
         pc \in Applying => jobs[ex.job].kind = "apply",
         pc \in {"configure", "peer", "service", "global", "finish"} => jobs[ex.job].journal >= 2
  PROVE  /\ ex' \in [pc : Steps, job : 0 .. MaxJobs, at : 0 .. Len(Intents)] /\ ExecutorInv'
         /\ ex'.pc = pc /\ ex'.job = ex.job /\ ex'.at = ex.at
<1>1. /\ ex' \in [pc : Steps, job : 0 .. MaxJobs, at : 0 .. Len(Intents)]
      /\ ex'.pc = pc /\ ex'.job = ex.job /\ ex'.at = ex.at
  BY DEF TypeOK
<1>2. JobIds' = JobIds /\ Applies' = Applies
  BY DEF JobIds, Applies
<1>3. pc # "undo" /\ pc # "idle"
  OBVIOUS
<1>4. ExecutorInv'
  BY <1>1, <1>2, <1>3 DEF ExecutorInv
<1> QED
  BY <1>1, <1>4

\* Rows and executor rest.
LEMMA ExecutorRests ==
  ASSUME ExecutorInv, UNCHANGED <<jobs, ex>>
  PROVE  ExecutorInv' /\ Applies' = Applies /\ JobIds' = JobIds
BY DEF ExecutorInv, JobIds, Applies

\* The executor takes the first pending row and begins it.
LEMMA ClaimParts ==
  ASSUME TypeOK, ExecutorInv, Claim
  PROVE  \E i \in JobIds :
           /\ ex = Idle /\ jobs[i].status = "pending"
           /\ jobs' = [jobs EXCEPT ![i].status = "running"]
           /\ ex' = IF jobs[i].kind = "apply" THEN [pc |-> "check", job |-> i, at |-> 0]
                    ELSE [pc |-> "undo", job |-> i, at |-> jobs[jobs[i].of].journal]
<1> DEFINE waiting == {i \in 1 .. Len(jobs) : jobs[i].status = "pending"}
           i == Min(waiting)
<1>1. waiting # {} /\ waiting \in SUBSET Nat
  BY DEF Claim
<1>2. i \in waiting
  BY <1>1, LeastNatural
<1>3. /\ ex = Idle /\ jobs' = [jobs EXCEPT ![i].status = "running"]
      /\ ex' = IF jobs[i].kind = "apply" THEN [pc |-> "check", job |-> i, at |-> 0]
               ELSE [pc |-> "undo", job |-> i, at |-> jobs[jobs[i].of].journal]
  BY DEF Claim
<1> HIDE DEF i
<1> QED
  BY <1>2, <1>3 DEF JobIds

\* The rows and the executor after a claim.
LEMMA ClaimKeeps ==
  ASSUME TypeOK, ExecutorInv, Claim
  PROVE  /\ Kept /\ Len(jobs') = Len(jobs) /\ ExecutorInv'
         /\ ex' \in [pc : Steps, job : 0 .. MaxJobs, at : 0 .. Len(Intents)]
<1>1. PICK i \in JobIds :
           /\ ex = Idle /\ jobs[i].status = "pending"
           /\ jobs' = [jobs EXCEPT ![i].status = "running"]
           /\ ex' = IF jobs[i].kind = "apply" THEN [pc |-> "check", job |-> i, at |-> 0]
                    ELSE [pc |-> "undo", job |-> i, at |-> jobs[jobs[i].of].journal]
  BY ClaimParts
<1>2. /\ jobs' \in Seq(Jobs) /\ Len(jobs') = Len(jobs)
      /\ \A j \in JobIds : /\ jobs'[j].kind = jobs[j].kind /\ jobs'[j].of = jobs[j].of
                           /\ jobs'[j].journal = jobs[j].journal
                           /\ jobs'[j].snap = jobs[j].snap
                           /\ jobs'[j].status = IF j = i THEN "running" ELSE jobs[j].status
  BY <1>1, StatusWritten DEF TypeOK
<1>3. Kept
  BY <1>2, StateParts DEF Kept
<1>4. Applies' = Applies /\ JobIds' = JobIds
  BY <1>2, <1>3, KeptRows
<1>5. \A j \in JobIds : jobs[j].status # "running"
  BY <1>1 DEF ExecutorInv, Idle
<1>6. jobs[i].kind # "apply" => jobs[i].kind = "rollback" /\ jobs[i].of \in JobIds
  BY StateParts DEF ExecutorInv, Jobs, Applies, JobIds
<1>7. /\ ex'.job = i /\ ex'.pc = (IF jobs[i].kind = "apply" THEN "check" ELSE "undo")
      /\ ex'.at = IF jobs[i].kind = "apply" THEN 0 ELSE jobs[jobs[i].of].journal
  BY <1>1
<1>8. ex' \in [pc : Steps, job : 0 .. MaxJobs, at : 0 .. Len(Intents)]
  <2>1. i \in 0 .. MaxJobs
    BY PlanAssumption DEF PlanAssumption, TypeOK, JobIds
  <2>2. jobs[i].kind # "apply" => jobs[jobs[i].of].journal \in 0 .. Len(Intents)
    BY <1>6, StateParts, Positions
  <2> QED
    BY <1>1, <2>1, <2>2, TheSteps, Positions
<1>9. \A j \in JobIds : IF jobs'[j].kind = "rollback" THEN jobs'[j].of \in Applies
                        ELSE jobs'[j].of = 0
  BY <1>2 DEF ExecutorInv
<1>10. ex'.pc = "undo" => /\ jobs'[i].kind = "rollback"
                          /\ ex'.at <= jobs'[jobs'[i].of].journal
  BY <1>2, <1>6, <1>7, StateParts
<1>11. ExecutorInv'
  <2>1. ex'.pc # "idle" /\ (ex'.pc \in Applying => jobs'[i].kind = "apply")
        /\ ex'.pc \notin {"configure", "peer", "service", "global", "finish"}
    BY <1>2, <1>7 DEF Applying
  <2>2. \A j \in JobIds : jobs'[j].status = "running" => j = i
    BY <1>2, <1>5
  <2> QED
    BY <1>2, <1>4, <1>7, <1>9, <1>10, <2>1, <2>2 DEF ExecutorInv
<1> QED
  BY <1>2, <1>3, <1>8, <1>11

\* A row is added for a job that waits.
LEMMA AppendKeeps ==
  ASSUME TypeOK, ExecutorInv, UNCHANGED ex, NEW new \in Jobs, new.status = "pending",
         jobs' = Append(jobs, new), Len(jobs) < MaxJobs,
         IF new.kind = "rollback" THEN new.of \in Applies ELSE new.of = 0
  PROVE  /\ Kept /\ Len(jobs') <= MaxJobs /\ ExecutorInv'
         /\ Applies' \subseteq Applies \union {Len(jobs) + 1}
         /\ \A j \in JobIds : jobs'[j] = jobs[j]
         /\ Len(jobs') = Len(jobs) + 1 /\ jobs'[Len(jobs) + 1] = new
<1>1. /\ jobs' \in Seq(Jobs) /\ Len(jobs') = Len(jobs) + 1 /\ Len(jobs) \in Nat
      /\ \A j \in JobIds : jobs'[j] = jobs[j]
      /\ jobs'[Len(jobs) + 1] = new
  BY JobAppended DEF TypeOK
<1>2. Kept
  <2>1. \A j \in JobIds : jobs[j].journal \in Nat
    BY StateParts
  <2>2. \A j \in JobIds : jobs[j].journal <= jobs[j].journal
    BY <2>1
  <2>3. Len(jobs) <= Len(jobs')
    BY <1>1
  <2> QED
    BY <1>1, <2>2, <2>3, Zenon DEF Kept
<1>3. JobIds' = JobIds \union {Len(jobs) + 1}
  BY <1>1 DEF JobIds
<1>4. Applies \subseteq Applies' /\ Applies' \subseteq Applies \union {Len(jobs) + 1}
  BY <1>1, <1>3 DEF Applies, JobIds
<1>5. Len(jobs) + 1 \notin JobIds /\ Applies \subseteq JobIds
  BY <1>1 DEF JobIds, Applies
<1>6. \A i \in JobIds' : jobs'[i].status = "running" => ex.pc # "idle" /\ i = ex.job
  BY <1>1, <1>3 DEF ExecutorInv
<1>7. \A i \in JobIds' : IF jobs'[i].kind = "rollback" THEN jobs'[i].of \in Applies'
                         ELSE jobs'[i].of = 0
  BY <1>1, <1>3, <1>4 DEF ExecutorInv
<1>8. ex.pc = "undo" => /\ jobs'[ex.job].kind = "rollback"
                        /\ ex.at <= jobs'[jobs'[ex.job].of].journal
  BY <1>1, <1>5 DEF ExecutorInv
<1>9. /\ ex.pc \in Applying => jobs'[ex.job].kind = "apply"
      /\ ex.pc \in {"configure", "peer", "service", "global", "finish"} =>
           jobs'[ex.job].journal >= 2
      /\ ex.pc # "idle" => ex.job \in JobIds' /\ jobs'[ex.job].status = "running"
  <2>1. ex.pc \in Applying => ex.pc # "idle"
    BY DEF Applying
  <2> QED
    BY <1>1, <1>3, <2>1 DEF ExecutorInv
<1>10. ExecutorInv'
  BY <1>6, <1>7, <1>8, <1>9 DEF ExecutorInv
<1>11. Len(jobs') <= MaxJobs
  BY <1>1, PlanAssumption DEF PlanAssumption
<1> QED
  BY <1>1, <1>2, <1>4, <1>10, <1>11

\* While the executor rests a row is made to wait, or to have failed.
LEMMA RestWritten ==
  ASSUME TypeOK, ExecutorInv, ex = Idle, UNCHANGED ex, NEW i \in JobIds,
         NEW status \in {"pending", "failed"}, jobs' = [jobs EXCEPT ![i].status = status]
  PROVE  /\ Kept /\ Len(jobs') = Len(jobs) /\ ExecutorInv'
         /\ \A j \in JobIds :
              /\ jobs'[j].journal = jobs[j].journal
              /\ jobs'[j].status = IF j = i THEN status ELSE jobs[j].status
<1>1. /\ jobs' \in Seq(Jobs) /\ Len(jobs') = Len(jobs)
      /\ \A j \in JobIds : /\ jobs'[j].kind = jobs[j].kind /\ jobs'[j].of = jobs[j].of
                           /\ jobs'[j].journal = jobs[j].journal
                           /\ jobs'[j].snap = jobs[j].snap
                           /\ jobs'[j].status = IF j = i THEN status ELSE jobs[j].status
  <2>1. jobs \in Seq(Jobs) /\ status \in {"pending", "running", "succeeded", "failed"}
    BY DEF TypeOK
  <2> QED
    BY <2>1, StatusWritten, Zenon
<1>2. Kept
  BY <1>1, StateParts DEF Kept
<1>3. Applies' = Applies /\ JobIds' = JobIds
  BY <1>1, <1>2, KeptRows
<1>4. ex.pc = "idle" /\ "idle" \notin Applying
  BY DEF Idle, Applying
<1>5. \A j \in JobIds : jobs'[j].status # "running"
  BY <1>1, <1>4 DEF ExecutorInv
<1>6. \A j \in JobIds : IF jobs'[j].kind = "rollback" THEN jobs'[j].of \in Applies
                        ELSE jobs'[j].of = 0
  BY <1>1 DEF ExecutorInv
<1>7. ExecutorInv'
  BY <1>3, <1>4, <1>5, <1>6 DEF ExecutorInv
<1> QED
  BY <1>1, <1>2, <1>7

\* The plan at work journals the next intent.
LEMMA IntendKeeps ==
  ASSUME TypeOK, ExecutorInv, NEW x \in {"host", "wg", "peer", "service", "global"}, Intend(x)
  PROVE  /\ Kept /\ Len(jobs') = Len(jobs) /\ ExecutorInv' /\ ex.job \in JobIds
         /\ \A j \in JobIds :
              /\ jobs'[j].journal = IF j = ex.job THEN Position(x) ELSE jobs[j].journal
              /\ jobs'[j].status = jobs[j].status
<1>1. x \in Applying /\ ex.pc = x /\ ex.job \in JobIds /\ jobs[ex.job].kind = "apply"
  BY DEF Intend, ExecutorInv, Applying
<1>2. Position(x) \in 0 .. Len(Intents)
  BY Positions
<1> DEFINE i == ex.job
           n == Position(x)
<1>3. jobs \in Seq(Jobs) /\ i \in JobIds /\ n \in 0 .. Len(Intents)
      /\ jobs' = [jobs EXCEPT ![i].journal = n]
  BY <1>1, <1>2 DEF Intend, TypeOK
<1>4. /\ jobs' \in Seq(Jobs) /\ Len(jobs') = Len(jobs)
      /\ \A j \in JobIds : /\ jobs'[j].kind = jobs[j].kind /\ jobs'[j].of = jobs[j].of
                           /\ jobs'[j].journal = IF j = i THEN n ELSE jobs[j].journal
                           /\ jobs'[j].snap = jobs[j].snap
                           /\ jobs'[j].status = jobs[j].status
  <2> HIDE DEF i, n
  <2> QED
    BY <1>3, JournalWritten, Zenon
<1>5. jobs[i].journal <= n
  <2>1. jobs[i].journal \in Nat
    BY <1>1, StateParts
  <2>2. n \in Nat /\ ~(n <= jobs[i].journal)
    BY <1>2 DEF Intend, Journaled
  <2> QED
    BY <2>1, <2>2
<1>6. Kept
  BY <1>4, <1>5, StateParts DEF Kept
<1>7. Applies' = Applies /\ JobIds' = JobIds
  BY <1>4, <1>6, KeptRows
<1>8. \A j \in JobIds : IF jobs'[j].kind = "rollback" THEN jobs'[j].of \in Applies
                        ELSE jobs'[j].of = 0
  BY <1>4 DEF ExecutorInv
<1>9. ex.pc \in {"configure", "peer", "service", "global", "finish"} => n >= 2
  BY <1>1, Positions
<1>10. ExecutorInv'
  <2>1. UNCHANGED ex /\ ex.pc # "undo" /\ ex.pc # "idle"
    BY <1>1 DEF Intend
  <2> QED
    BY <1>1, <1>4, <1>7, <1>8, <1>9, <2>1 DEF ExecutorInv
<1> QED
  BY <1>1, <1>4, <1>6, <1>10

\* A rollback passes one entry.
LEMMA EntryPassed ==
  ASSUME TypeOK, ExecutorInv, NextUndone # "none", UNCHANGED jobs,
         ex' = [ex EXCEPT !.at = @ - 1]
  PROVE  /\ ex' \in [pc : Steps, job : 0 .. MaxJobs, at : 0 .. Len(Intents)] /\ ExecutorInv'
         /\ ex.pc = "undo" /\ ex.at \in 1 .. 5 /\ NextUndone = Intents[ex.at]
         /\ ex'.pc = "undo" /\ ex'.job = ex.job /\ ex'.at = ex.at - 1
         /\ jobs[ex.job].of \in Applies /\ jobs[ex.job].kind = "rollback"
         /\ ex.job \in JobIds
<1>1. ex.pc = "undo" /\ ex.at > 0 /\ NextUndone = Intents[ex.at]
  BY DEF NextUndone
<1>2. ex.at \in 1 .. 5
  BY <1>1, StateParts
<1>3. /\ ex' \in [pc : Steps, job : 0 .. MaxJobs, at : 0 .. Len(Intents)]
      /\ ex'.pc = "undo" /\ ex'.job = ex.job /\ ex'.at = ex.at - 1
  BY <1>1, <1>2, Positions DEF TypeOK
<1>4. JobIds' = JobIds /\ Applies' = Applies
  BY DEF JobIds, Applies
<1>5. ex.job \in JobIds /\ jobs[ex.job].kind = "rollback" /\ jobs[ex.job].of \in Applies
  BY <1>1 DEF ExecutorInv
<1>6. jobs[jobs[ex.job].of].journal \in Nat /\ ex.at <= jobs[jobs[ex.job].of].journal
  BY <1>1, <1>5, StateParts DEF ExecutorInv, Applies, JobIds
<1>7. ex'.at <= jobs[jobs[ex.job].of].journal
  BY <1>2, <1>3, <1>6
<1>8. ExecutorInv'
  BY <1>1, <1>3, <1>4, <1>5, <1>7 DEF ExecutorInv, Applying
<1> QED
  BY <1>1, <1>2, <1>3, <1>5, <1>8

CoreInv == TypeOK /\ ExecutorInv /\ ReviewedInv

ExStates == [pc : Steps, job : 0 .. MaxJobs, at : 0 .. Len(Intents)]

\* The rows as they are.
LEMMA RowsStay ==
  ASSUME CoreInv, UNCHANGED jobs
  PROVE  Kept /\ Len(jobs') = Len(jobs)
<1>1. \A j \in JobIds : jobs[j].journal \in Nat
  BY StateParts DEF CoreInv
<1>2. \A j \in JobIds : jobs[j].journal <= jobs[j].journal
  BY <1>1
<1>3. Len(jobs) \in Nat
  BY DEF CoreInv, TypeOK
<1> QED
  BY <1>2, <1>3 DEF Kept, CoreInv, TypeOK

\* The core of the state after a step that adds no row.
LEMMA CoreKept ==
  ASSUME CoreInv, Kept, Len(jobs') = Len(jobs), ExecutorInv', ex' \in ExStates,
         disc' = disc \/ disc' = router, router' \in Contents, router'.global # "unknown",
         host' \in Hosts, provisioned' \in BOOLEAN, meddled' \subseteq Resources,
         faults' \in 0 .. MaxFaults
  PROVE  CoreInv'
<1>1. Applies' = Applies /\ JobIds' = JobIds
  BY KeptRows DEF CoreInv
<1>2. TypeOK'
  BY DEF CoreInv, TypeOK, Kept, ExStates
<1>3. ReviewedInv'
  <2>1. disc' # Unknown => disc'.global # "unknown"
    BY DEF CoreInv, ReviewedInv, TypeOK
  <2>2. \A i \in Applies : jobs'[i].snap.global # "unknown"
    BY DEF CoreInv, ReviewedInv, Kept, Applies, JobIds
  <2> QED
    BY <1>1, <2>1, <2>2 DEF ReviewedInv
<1> QED
  BY <1>2, <1>3 DEF CoreInv

\* The executor at rest is an executor.
LEMMA IdleIsTyped == Idle \in ExStates /\ "idle" \in Steps
BY TheSteps, Positions, PlanAssumption DEF PlanAssumption, Idle, ExStates

\* One fault more, where there may be one.
LEMMA FaultCounted ==
  ASSUME CoreInv, faults < MaxFaults
  PROVE  faults + 1 \in 0 .. MaxFaults
BY PlanAssumption DEF PlanAssumption, CoreInv, TypeOK

\* A new row is the row of a reviewed discovery, or of the rollback of a plan.
LEMMA RowAdded ==
  ASSUME CoreInv, \/ Review
                  \/ \E i \in JobIds : RequestRollback(i)
  PROVE  /\ CoreInv' /\ Kept
         /\ \A j \in JobIds : jobs'[j] = jobs[j]
         /\ Len(jobs') = Len(jobs) + 1 /\ jobs'[Len(jobs) + 1].status = "pending"
         /\ jobs'[Len(jobs) + 1].journal = 0
<1> DEFINE Row(kind, of, snap) ==
             [kind |-> kind, of |-> of, status |-> "pending", journal |-> 0, snap |-> snap]
<1>1. Unknown \in Contents
  BY DEF Unknown, Bare, Contents
<1>2. \A kind \in {"apply", "rollback"}, of \in 0 .. MaxJobs, snap \in Contents :
        Row(kind, of, snap) \in Jobs
  BY Positions DEF Jobs
<1>3. \E kind \in {"apply", "rollback"}, of \in 0 .. MaxJobs, snap \in Contents :
        /\ jobs' = Append(jobs, Row(kind, of, snap)) /\ Len(jobs) < MaxJobs
        /\ kind = "rollback" => of \in Applies
        /\ kind = "apply" => of = 0 /\ snap.global # "unknown"
        /\ UNCHANGED <<disc, provisioned, router, host, ex, meddled, faults>>
  <2>1. CASE Review
    <3>1. disc \in Contents /\ disc.global # "unknown" /\ 0 \in 0 .. MaxJobs
      BY <2>1, PlanAssumption DEF PlanAssumption, CoreInv, TypeOK, ReviewedInv, Review
    <3> QED
      BY <2>1, <3>1 DEF Review
  <2>2. CASE \E i \in JobIds : RequestRollback(i)
    <3>1. PICK i \in JobIds : RequestRollback(i)
      BY <2>2
    <3>2. i \in Applies /\ i \in 0 .. MaxJobs
      BY <3>1, PlanAssumption DEF PlanAssumption, CoreInv, TypeOK, RequestRollback, Applies, JobIds
    <3> QED
      BY <1>1, <3>1, <3>2 DEF RequestRollback
  <2> QED
    BY <2>1, <2>2
<1>4. PICK kind \in {"apply", "rollback"}, of \in 0 .. MaxJobs, snap \in Contents :
        /\ jobs' = Append(jobs, Row(kind, of, snap)) /\ Len(jobs) < MaxJobs
        /\ kind = "rollback" => of \in Applies
        /\ kind = "apply" => of = 0 /\ snap.global # "unknown"
        /\ UNCHANGED <<disc, provisioned, router, host, ex, meddled, faults>>
  BY <1>3
<1> DEFINE new == Row(kind, of, snap)
<1>5. /\ new \in Jobs /\ new.status = "pending" /\ new.journal = 0 /\ new.kind = kind
      /\ new.of = of /\ new.snap = snap
  BY <1>2
<1>6. jobs' = Append(jobs, new)
  BY <1>4
<1> HIDE DEF new
<1>7. /\ Kept /\ Len(jobs') <= MaxJobs /\ ExecutorInv'
      /\ Applies' \subseteq Applies \union {Len(jobs) + 1}
      /\ \A j \in JobIds : jobs'[j] = jobs[j]
      /\ Len(jobs') = Len(jobs) + 1 /\ jobs'[Len(jobs) + 1] = new
  <2>1. IF new.kind = "rollback" THEN new.of \in Applies ELSE new.of = 0
    BY <1>4, <1>5
  <2> QED
    BY <1>4, <1>5, <1>6, <2>1, AppendKeeps DEF CoreInv
<1>8. TypeOK'
  BY <1>4, <1>7 DEF CoreInv, TypeOK, Kept
<1>9. ReviewedInv'
  <2>1. ASSUME NEW i \in Applies'
        PROVE  jobs'[i].snap.global # "unknown"
    <3>1. CASE i \in Applies
      BY <1>7, <3>1 DEF CoreInv, ReviewedInv, Applies, JobIds
    <3>2. CASE i = Len(jobs) + 1
      BY <1>4, <1>5, <1>7, <3>2 DEF Applies
    <3> QED
      BY <1>7, <3>1, <3>2
  <2> QED
    BY <1>4, <2>1 DEF CoreInv, ReviewedInv
<1> QED
  BY <1>5, <1>7, <1>8, <1>9 DEF CoreInv

\* The parts of the core after a step in which the row at work ends.
LEMMA CoreEnds ==
  ASSUME CoreInv, ex.pc # "idle", NEW status \in {"succeeded", "failed"},
         jobs' = [jobs EXCEPT ![ex.job].status = status], ex' = Idle,
         UNCHANGED <<disc, provisioned, router, meddled>>,
         host' \in Hosts, faults' \in 0 .. MaxFaults
  PROVE  CoreInv' /\ Kept
<1>1. Kept /\ Len(jobs') = Len(jobs) /\ ExecutorInv'
  BY JobEnds, Zenon DEF CoreInv
<1>2. /\ ex' \in ExStates /\ router' \in Contents /\ router'.global # "unknown"
      /\ provisioned' \in BOOLEAN /\ meddled' \subseteq Resources
  BY IdleIsTyped DEF CoreInv, TypeOK
<1> QED
  BY <1>1, <1>2, CoreKept

\* The core of the state after a step of a plan that goes on.
LEMMA CoreGoesOn ==
  ASSUME CoreInv, ex.pc # "idle",
         NEW pc \in Steps \ {"idle", "undo"}, ex' = [ex EXCEPT !.pc = pc],
         pc \in Applying => jobs[ex.job].kind = "apply",
         pc \in {"configure", "peer", "service", "global", "finish"} => jobs[ex.job].journal >= 2,
         UNCHANGED <<jobs, disc, faults>>, meddled' \subseteq Resources,
         router' \in Contents, router'.global # "unknown", host' \in Hosts,
         provisioned' \in BOOLEAN
  PROVE  CoreInv' /\ Kept /\ ex'.pc = pc /\ ex'.job = ex.job /\ ex'.at = ex.at
<1>1. ex' \in ExStates /\ ExecutorInv' /\ ex'.pc = pc /\ ex'.job = ex.job /\ ex'.at = ex.at
  BY JobGoesOn, Zenon DEF CoreInv, ExStates
<1>2. Kept /\ Len(jobs') = Len(jobs)
  BY RowsStay
<1>3. faults' \in 0 .. MaxFaults /\ disc' = disc
  BY DEF CoreInv, TypeOK
<1> QED
  BY <1>1, <1>2, <1>3, CoreKept

\* The core of the state after a step that moves neither rows nor executor.
LEMMA CoreRests ==
  ASSUME CoreInv, UNCHANGED <<jobs, ex>>, disc' = disc \/ disc' = router,
         router' \in Contents, router'.global # "unknown", host' \in Hosts,
         provisioned' \in BOOLEAN, meddled' \subseteq Resources, faults' \in 0 .. MaxFaults
  PROVE  CoreInv' /\ Kept
<1>1. ex' \in ExStates /\ ExecutorInv'
  BY ExecutorRests DEF CoreInv, TypeOK, ExStates
<1> QED
  BY <1>1, RowsStay, CoreKept

\* The next step of a plan after the one at which an intent is met.
LEMMA TheNextStep ==
  ASSUME NEW x \in {"host", "wg", "peer", "service", "global"}
  PROVE  /\ After[x] \in Applying \ {"check", "prepare", "host"}
         /\ After[x] \in Steps \ {"idle", "undo"} /\ x \in Applying
         /\ After["host"] = "wg" /\ After["wg"] = "configure" /\ After["peer"] = "service"
         /\ After["service"] = "global" /\ After["global"] = "finish"
BY TheSteps DEF After, Applying

\* A step of a plan leaves the router typed and goes on.
LEMMA MutateKeeps ==
  ASSUME CoreInv, NEW x \in {"host", "wg", "peer", "service", "global"}, Mutate(x)
  PROVE  /\ CoreInv' /\ Kept /\ ex.pc = x /\ ex.job \in Applies
         /\ ex'.pc = After[x] /\ ex'.job = ex.job /\ ex'.at = ex.at
         /\ x # "global" => Journaled(ex.job, x) /\ router' = Created(x)
<1>1. ex.pc = x /\ ex.pc # "idle" /\ ex.pc \in Applying /\ ex' = [ex EXCEPT !.pc = After[x]]
  BY DEF Mutate, Applying
<1>2. ex.job \in Applies /\ jobs[ex.job].kind = "apply" /\ jobs[ex.job].journal \in Nat
  BY <1>1, StateParts DEF CoreInv, ExecutorInv, Applies, JobIds
<1>3. x # "global" => Journaled(ex.job, x) /\ router' = Created(x)
  BY DEF Mutate, Skipped
<1>4. router' \in Contents /\ router'.global # "unknown"
  BY CreatedParts DEF Mutate, CoreInv, TypeOK
<1>5. After[x] \in {"configure", "peer", "service", "global", "finish"} => jobs[ex.job].journal >= 2
  <2>1. CASE x \in {"wg"}
    BY <1>2, <1>3, <2>1, Positions DEF Journaled
  <2>2. CASE x = "host"
    BY <2>2, TheNextStep
  <2>3. CASE x \in {"peer", "service", "global"}
    BY <1>1, <2>3 DEF CoreInv, ExecutorInv
  <2> QED
    BY <2>1, <2>2, <2>3
<1>6. /\ UNCHANGED <<jobs, disc, faults>> /\ meddled' \subseteq Resources
      /\ host' \in Hosts /\ provisioned' \in BOOLEAN
  BY DEF Mutate, CoreInv, TypeOK
<1> DEFINE pc == After[x]
<1>7. pc \in Steps \ {"idle", "undo"}
  BY TheNextStep
<1>8. /\ ex' = [ex EXCEPT !.pc = pc]
      /\ pc \in Applying => jobs[ex.job].kind = "apply"
      /\ pc \in {"configure", "peer", "service", "global", "finish"} => jobs[ex.job].journal >= 2
  BY <1>1, <1>2, <1>5
<1> HIDE DEF pc
<1>9. CoreInv' /\ Kept /\ ex'.pc = pc /\ ex'.job = ex.job /\ ex'.at = ex.at
  BY <1>1, <1>4, <1>6, <1>7, <1>8, CoreGoesOn, Zenon
<1> QED
  BY <1>1, <1>2, <1>3, <1>9 DEF pc

\* What the agent's start leaves of the node's end.
LEMMA StartParts ==
  ASSUME TypeOK, NEW reboot \in BOOLEAN, AgentStarts(reboot)
  PROVE  /\ host' \in Hosts /\ host'.key = host.key /\ host'.peer = host.peer
         /\ host'.configured = host.configured /\ host # NoHost
         /\ host.configured => /\ host'.link \in {"owned", "bare"}
                               /\ host'.client \in {host.client, TRUE}
         /\ ~host.configured => host'.link \in {host.link, "none"} /\ host'.client = FALSE
<1> DEFINE h == IF reboot THEN [host EXCEPT !.link = "none"] ELSE host
<1>1. /\ h \in Hosts /\ h.key = host.key /\ h.peer = host.peer
      /\ h.configured = host.configured /\ h.client = host.client
      /\ h.link = IF reboot THEN "none" ELSE host.link
  BY DEF TypeOK, Hosts
<1>2. /\ h.configured => \/ host' = [h EXCEPT !.link = "owned", !.client = TRUE]
                         \/ host' = [h EXCEPT !.link = "bare"]
      /\ ~h.configured => host' = [h EXCEPT !.client = FALSE]
      /\ host' # host
  BY DEF AgentStarts
<1> HIDE DEF h
<1>3. CASE h.configured
  <2>1. host # NoHost
    <3>1. SUFFICES ASSUME host = NoHost
                   PROVE  FALSE
      OBVIOUS
    <3>2. host.configured = FALSE
      BY <3>1, Zenon DEF NoHost
    <3> QED
      BY <1>1, <1>3, <3>2
  <2>2. CASE host' = [h EXCEPT !.link = "owned", !.client = TRUE]
    BY <1>1, <1>3, <2>1, <2>2 DEF Hosts
  <2>3. CASE host' = [h EXCEPT !.link = "bare"]
    BY <1>1, <1>3, <2>1, <2>3 DEF Hosts
  <2> QED
    BY <1>2, <1>3, <2>2, <2>3
<1>4. CASE ~h.configured
  <2>1. host' = [h EXCEPT !.client = FALSE]
    BY <1>2, <1>4
  <2>2. /\ host' \in Hosts /\ host'.key = host.key /\ host'.peer = host.peer
        /\ host'.configured = h.configured /\ host'.link = h.link /\ host'.client = FALSE
    BY <1>1, <2>1 DEF Hosts
  <2>3. host # NoHost
    <3>1. SUFFICES ASSUME host = NoHost
                   PROVE  host' = host
      BY <1>2
    <3>2. /\ host.key = Absent /\ host.peer = Absent /\ host.configured = FALSE
          /\ host.link = "none" /\ host.client = FALSE
      BY <3>1, Zenon DEF NoHost
    <3> QED
      BY <1>1, <2>2, <3>2 DEF TypeOK, Hosts
  <2> QED
    BY <1>1, <1>4, <2>2, <2>3
<1> QED
  BY <1>3, <1>4

\* No step breaks the core of the state, and none takes a row or its journal back.
LEMMA CoreStep ==
  ASSUME CoreInv, [Next]_vars
  PROVE  CoreInv' /\ Kept
<1> DEFINE Names == {"host", "wg", "peer", "service", "global"}
<1>0. /\ router \in Contents /\ router.global # "unknown" /\ host \in Hosts
      /\ provisioned \in BOOLEAN /\ meddled \subseteq Resources /\ faults \in 0 .. MaxFaults
      /\ ex \in ExStates /\ TypeOK /\ ExecutorInv /\ JobIds = 1 .. Len(jobs)
  BY DEF CoreInv, TypeOK, ExStates, JobIds
<1>1. CASE Review \/ \E i \in 1 .. Len(jobs) : RequestRollback(i)
  BY <1>0, <1>1, RowAdded
<1>2. CASE Discover
  BY <1>0, <1>2, CoreRests, Zenon DEF Discover
<1>3. ASSUME Verify \/ \E i \in 1 .. Len(jobs) : Retry(i)
      PROVE  CoreInv' /\ Kept
  <2>1. ex = Idle /\ UNCHANGED <<disc, router, host, ex, meddled, faults>>
        /\ provisioned' \in BOOLEAN
    BY <1>0, <1>3 DEF Verify, Retry
  <2>2. \E i \in JobIds, status \in {"pending", "failed"} :
          jobs' = [jobs EXCEPT ![i].status = status]
    <3>1. CASE Verify
      <4>1. Len(jobs) \in Nat /\ Applies \in SUBSET (0 .. Len(jobs)) /\ Applies # {}
        BY <1>0, <3>1 DEF TypeOK, Verify, Applies
      <4>2. Max(Applies) \in Applies
        BY <4>1, GreatestNatural
      <4>3. jobs' = [jobs EXCEPT ![Max(Applies)].status = "failed"]
        BY <3>1 DEF Verify
      <4> QED
        BY <4>2, <4>3 DEF Applies, JobIds
    <3>2. CASE \E i \in 1 .. Len(jobs) : Retry(i)
      BY <3>2 DEF Retry, JobIds
    <3> QED
      BY <1>3, <3>1, <3>2
  <2>3. PICK i \in JobIds, status \in {"pending", "failed"} :
          jobs' = [jobs EXCEPT ![i].status = status]
    BY <2>2
  <2>4. Kept /\ Len(jobs') = Len(jobs) /\ ExecutorInv'
    BY <1>0, <2>1, <2>3, RestWritten, Zenon
  <2> QED
    BY <1>0, <2>1, <2>4, CoreKept
<1>4. CASE Claim
  <2>1. Kept /\ Len(jobs') = Len(jobs) /\ ExecutorInv' /\ ex' \in ExStates
    BY <1>0, <1>4, ClaimKeeps DEF ExStates
  <2> QED
    BY <1>0, <1>4, <2>1, CoreKept DEF Claim
<1>5. CASE Check
  <2>1. ex.pc = "check" /\ ex.pc # "idle" /\ jobs[ex.job].kind = "apply"
    BY <1>0, <1>5 DEF Check, ExecutorInv, Applying
  <2>2. UNCHANGED <<disc, provisioned, router, host, meddled, faults>>
    BY <1>5 DEF Check
  <2>3. CASE ex' = [ex EXCEPT !.pc = "prepare"] /\ UNCHANGED jobs
    <3>1. "prepare" \in Steps \ {"idle", "undo"}
      BY TheSteps
    <3> QED
      BY <1>0, <2>1, <2>2, <2>3, <3>1, CoreGoesOn
  <2>4. CASE jobs' = [jobs EXCEPT ![ex.job].status = "failed"] /\ ex' = Idle
    BY <1>0, <2>1, <2>2, <2>4, CoreEnds
  <2> QED
    BY <1>5, <2>3, <2>4 DEF Check
<1>6. CASE Prepare
  <2>1. ex.pc = "prepare" /\ ex.pc # "idle" /\ jobs[ex.job].kind = "apply"
    BY <1>0, <1>6 DEF Prepare, ExecutorInv, Applying
  <2>2. /\ UNCHANGED <<jobs, disc, provisioned, router, meddled, faults>>
        /\ ex' = [ex EXCEPT !.pc = "host"]
    BY <1>6 DEF Prepare
  <2>3. host' \in Hosts
    <3>1. host.key = Absent => FreshKey \in Keys
      BY <1>0, FreshKeyIsAKey
    <3>2. host' = IF host.key = Absent THEN [host EXCEPT !.key = FreshKey] ELSE host
      BY <1>6 DEF Prepare
    <3> QED
      BY <1>0, <3>1, <3>2 DEF Hosts
  <2>4. "host" \in Steps \ {"idle", "undo"}
    BY TheSteps
  <2> QED
    BY <1>0, <2>1, <2>2, <2>3, <2>4, CoreGoesOn
<1>7. CASE Configure
  <2>1. /\ ex.pc = "configure" /\ ex.pc # "idle" /\ jobs[ex.job].kind = "apply"
        /\ jobs[ex.job].journal >= 2
    BY <1>0, <1>7 DEF Configure, ExecutorInv, Applying
  <2>2. UNCHANGED <<disc, provisioned, router, meddled, faults>>
    BY <1>7 DEF Configure
  <2>3. Configured(1) \in Hosts /\ Configured(5) \in Hosts
    BY <1>0, ConfiguredParts
  <2>4. CASE host' = Configured(5) /\ ex' = [ex EXCEPT !.pc = "peer"] /\ UNCHANGED jobs
    <3>1. "peer" \in Steps \ {"idle", "undo"}
      BY TheSteps
    <3> QED
      BY <1>0, <2>1, <2>2, <2>3, <2>4, <3>1, CoreGoesOn
  <2>5. CASE /\ jobs' = [jobs EXCEPT ![ex.job].status = "failed"] /\ ex' = Idle
             /\ host' = IF router.wg # Absent THEN Configured(1) ELSE host
    <3>1. host' \in Hosts
      BY <1>0, <2>3, <2>5
    <3> QED
      BY <1>0, <2>1, <2>2, <2>5, <3>1, CoreEnds
  <2> QED
    BY <1>7, <2>4, <2>5 DEF Configure
<1>8. CASE FinishApply
  <2>1. /\ ex.pc = "finish" /\ ex.pc # "idle" /\ "commit" \in Steps \ {"idle", "undo"}
        /\ "commit" \notin Applying
    BY <1>8, TheSteps DEF FinishApply, Applying
  <2> QED
    BY <1>0, <1>8, <2>1, CoreGoesOn DEF FinishApply
<1>9. ASSUME NEW x \in Names, Intend(x)
      PROVE  CoreInv' /\ Kept
  <2>1. Kept /\ Len(jobs') = Len(jobs) /\ ExecutorInv'
    BY <1>0, <1>9, IntendKeeps
  <2> QED
    BY <1>0, <1>9, <2>1, CoreKept DEF Intend
<1>10. ASSUME NEW x \in Names, Mutate(x)
       PROVE  CoreInv' /\ Kept
  BY <1>10, MutateKeeps
<1>11. CASE Undo
  <2>1. /\ NextUndone # "none" /\ UNCHANGED <<jobs, disc, provisioned, host, meddled, faults>>
        /\ ex' = [ex EXCEPT !.at = @ - 1]
    BY <1>11 DEF Undo
  <2>2. /\ ExecutorInv' /\ ex' \in ExStates /\ ex.pc = "undo" /\ ex.at \in 1 .. 5
        /\ NextUndone = Intents[ex.at] /\ jobs[ex.job].of \in Applies
    BY <1>0, <2>1, EntryPassed DEF ExStates
  <2>3. NextUndone \in {"wg", "peer", "service", "global"}
    BY <1>11, <2>2, Positions DEF Undo
  <2>4. router' \in Contents /\ router'.global # "unknown"
    <3> DEFINE x == NextUndone
               global == jobs[jobs[ex.job].of].snap.global
    <3>1. global \in {"yes", "no"}
      BY <2>2, StateParts DEF CoreInv, ReviewedInv, Contents, Applies, JobIds
    <3>2. router' = IF x # "global" THEN [router EXCEPT ![x] = Absent]
                    ELSE IF router.global = "yes" THEN [router EXCEPT !.global = global]
                    ELSE router
      BY <1>11 DEF Undo
    <3> HIDE DEF x, global
    <3>3. x \in {"wg", "peer", "service", "global"}
      BY <2>3 DEF x
    <3> QED
      BY <1>0, <3>1, <3>2, <3>3 DEF Contents
  <2> QED
    BY <1>0, <2>1, <2>2, <2>4, RowsStay, CoreKept
<1>12. CASE UndoHost
  <2>1. NextUndone = "host" /\ UNCHANGED <<disc, provisioned, router, meddled, faults>>
    BY <1>12 DEF UndoHost
  <2>2. ex.pc # "idle"
    BY <2>1 DEF NextUndone
  <2>3. CASE jobs' = [jobs EXCEPT ![ex.job].status = "failed"] /\ ex' = Idle /\ UNCHANGED host
    BY <1>0, <2>1, <2>2, <2>3, CoreEnds
  <2>4. CASE host' = Removed(3) /\ ex' = [ex EXCEPT !.at = @ - 1] /\ UNCHANGED jobs
    <3>1. ExecutorInv' /\ ex' \in ExStates
      BY <1>0, <2>1, <2>4, EntryPassed DEF ExStates
    <3>2. host' \in Hosts
      BY <1>0, <2>4, RemovedParts
    <3> QED
      BY <1>0, <2>1, <2>4, <3>1, <3>2, RowsStay, CoreKept
  <2> QED
    BY <1>12, <2>3, <2>4 DEF UndoHost
<1>13. CASE FinishRollback
  <2>1. /\ ex.pc = "undo" /\ ex.pc # "idle" /\ "commit" \in Steps \ {"idle", "undo"}
        /\ "commit" \notin Applying
    BY <1>13, TheSteps DEF FinishRollback, Applying
  <2> QED
    BY <1>0, <1>13, <2>1, CoreGoesOn DEF FinishRollback
<1>14. CASE Commit
  <2>1. ex.pc # "idle"
    BY <1>14 DEF Commit
  <2> QED
    BY <1>0, <1>14, <2>1, CoreEnds DEF Commit
<1>15. CASE Fail
  <2>1. ex.pc # "idle"
    BY <1>0, <1>15 DEF Fail, ExecutorInv
  <2> QED
    BY <1>0, <1>15, <2>1, CoreEnds, FaultCounted DEF Fail
<1>16. CASE CallBreaksOff
  <2>1. ex.pc # "idle" /\ host' \in Hosts
    <3>1. CASE ex.pc = "configure" /\ \E n \in 1 .. 5 : host' = Configured(n)
      BY <1>0, <3>1, ConfiguredParts
    <3>2. CASE NextUndone = "host" /\ \E n \in 1 .. 3 : host' = Removed(n)
      <4>1. ex.pc = "undo"
        BY <3>2 DEF NextUndone
      <4> QED
        BY <1>0, <3>2, <4>1, RemovedParts
    <3> QED
      BY <1>16, <3>1, <3>2 DEF CallBreaksOff
  <2> QED
    BY <1>0, <1>16, <2>1, CoreEnds, FaultCounted DEF CallBreaksOff
<1>17. CASE SetByHand
  <2>1. router' \in Contents /\ router'.global # "unknown"
    BY <1>0, <1>17 DEF SetByHand, Contents
  <2> QED
    BY <1>0, <1>17, <2>1, CoreRests, FaultCounted DEF SetByHand
<1>18. ASSUME NEW reboot \in BOOLEAN, AgentStarts(reboot)
       PROVE  CoreInv' /\ Kept
  <2>1. host' \in Hosts
    BY <1>0, <1>18, StartParts
  <2>2. faults' \in 0 .. MaxFaults
    BY <1>0, <1>18, FaultCounted DEF AgentStarts
  <2> QED
    BY <1>0, <1>18, <2>1, <2>2, CoreRests DEF AgentStarts
<1>19. ASSUME NEW r \in Resources, RemovedByHand(r)
       PROVE  CoreInv' /\ Kept
  <2>1. router' \in Contents /\ router'.global # "unknown"
    BY <1>0, <1>19 DEF RemovedByHand, Contents, Resources
  <2>2. meddled' \subseteq Resources /\ faults' \in 0 .. MaxFaults
    BY <1>0, <1>19, FaultCounted DEF RemovedByHand
  <2> QED
    BY <1>0, <1>19, <2>1, <2>2, CoreRests DEF RemovedByHand
<1>20. CASE UNCHANGED vars
  BY <1>0, <1>20, CoreRests DEF vars
<1> QED
  BY <1>1, <1>2, <1>3, <1>4, <1>5, <1>6, <1>7, <1>8, <1>9, <1>10, <1>11, <1>12, <1>13,
     <1>14, <1>15, <1>16, <1>17, <1>18, <1>19, <1>20 DEF Next, Execute

-----------------------------------------------------------------------------
(* What is on the router and the node is journaled.                        *)

\* The node's end of the tunnel, or part of it, is there.
Linked == host.peer # Absent \/ host.link # "none" \/ host.client \/ host.configured

\* What was journaled stays so; only what is new has to be.
LEMMA OwnedKept ==
  ASSUME CoreInv, Kept, OwnedInv,
         \A r \in Present' : r \in Present \/ \E i \in Applies : Journaled(i, r),
         Linked' => Linked \/ \E i \in Applies : Journaled(i, "host")
  PROVE  OwnedInv'
<1>1. /\ Applies \subseteq Applies' /\ Applies \subseteq JobIds
      /\ \A i \in JobIds : \A x \in {"host", "wg", "peer", "service", "global"} :
           Journaled(i, x) => Journaled(i, x)'
  BY KeptRows DEF CoreInv, Applies, JobIds
<1>2. ASSUME NEW x \in {"host", "wg", "peer", "service", "global"},
             \E i \in Applies : Journaled(i, x)
      PROVE  \E i \in Applies' : Journaled(i, x)'
  BY <1>1, <1>2
<1>3. \A r \in Present' : \E i \in Applies' : Journaled(i, r)'
  <2> SUFFICES ASSUME NEW r \in Present'
               PROVE  \E i \in Applies' : Journaled(i, r)'
    OBVIOUS
  <2>1. \E i \in Applies : Journaled(i, r)
    BY DEF OwnedInv, OwnedIsJournaled
  <2>2. r \in {"host", "wg", "peer", "service", "global"}
    BY DEF Present, Resources
  <2> QED
    BY <1>2, <2>1, <2>2
<1>4. Linked' => \E i \in Applies' : Journaled(i, "host")'
  <2>1. Linked' => \E i \in Applies : Journaled(i, "host")
    BY DEF OwnedInv, OwnedIsJournaled, Linked
  <2> QED
    BY <1>2, <2>1
<1> QED
  BY <1>3, <1>4, Zenon DEF OwnedInv, OwnedIsJournaled, Linked

\* Nothing comes to the router or the node without a journal that says so.
LEMMA OwnedStep ==
  ASSUME CoreInv, Kept, OwnedInv, [Next]_vars
  PROVE  OwnedInv'
<1>0. TypeOK /\ ExecutorInv
  BY DEF CoreInv
<1>1. CASE UNCHANGED <<router, host>>
  <2>1. Present' = Present /\ (Linked' <=> Linked)
    BY <1>1 DEF Present, Linked
  <2> QED
    BY <2>1, OwnedKept
<1>2. CASE Prepare
  <2>1. Present' = Present /\ (Linked' <=> Linked)
    BY <1>0, <1>2 DEF Prepare, Present, Linked, TypeOK, Hosts
  <2> QED
    BY <2>1, OwnedKept
<1>3. ASSUME NEW x \in {"host", "wg", "peer", "service", "global"}, Mutate(x)
      PROVE  OwnedInv'
  <2>1. /\ ex.job \in Applies
        /\ x # "global" => Journaled(ex.job, x) /\ router' = Created(x)
        /\ UNCHANGED host
    BY <1>3, MutateKeeps DEF Mutate
  <2>2. x = "global" => \A r \in Resources : router'[r] = router[r]
    BY <1>0, <1>3 DEF Mutate, Created, Resources, TypeOK, Contents
  <2>3. \A r \in Resources : router'[r] = router[r] \/ r = x
    BY <1>0, <2>1, <2>2, CreatedParts DEF Resources
  <2>4. \A r \in Present' : r \in Present \/ Journaled(ex.job, r)
    BY <2>1, <2>3 DEF Present, Resources
  <2>5. Linked' <=> Linked
    BY <2>1 DEF Linked
  <2> QED
    BY <2>1, <2>4, <2>5, OwnedKept
<1>4. ASSUME \/ Configure
             \/ CallBreaksOff
             \/ UndoHost
      PROVE  OwnedInv'
  <2>1. UNCHANGED router
    BY <1>4 DEF Configure, CallBreaksOff, UndoHost
  <2>2. ex.pc = "configure" => ex.job \in Applies /\ Journaled(ex.job, "host")
    BY <1>0, StateParts, Positions DEF ExecutorInv, Applying, Applies, JobIds, Journaled
  <2>3. host' = host \/ ex.pc = "configure" \/ \E n \in 1 .. 3 : host' = Removed(n)
    BY <1>4 DEF Configure, CallBreaksOff, UndoHost
  <2>4. CASE host' = host
    BY <1>1, <2>1, <2>4
  <2>5. CASE ex.pc = "configure"
    <3>1. Present' = Present
      BY <2>1 DEF Present
    <3> QED
      BY <2>2, <2>5, <3>1, OwnedKept
  <2>6. CASE \E n \in 1 .. 3 : host' = Removed(n)
    <3>1. PICK n \in 1 .. 3 : host' = Removed(n)
      BY <2>6
    <3>2. /\ host'.peer = (IF n >= 2 THEN Absent ELSE host.peer) /\ host'.link = "none"
          /\ host'.configured = (host.configured /\ n < 2)
          /\ host'.client = (host.client /\ n < 3)
      BY <1>0, <3>1, RemovedParts
    <3>3. Linked' => Linked
      <4>1. host'.peer # Absent => host.peer # Absent
        BY <3>2
      <4> QED
        BY <3>2, <4>1, Zenon DEF Linked
    <3>4. Present' = Present
      BY <2>1 DEF Present
    <3> QED
      BY <3>3, <3>4, OwnedKept
  <2> QED
    BY <2>3, <2>4, <2>5, <2>6
<1>5. ASSUME NEW reboot \in BOOLEAN, AgentStarts(reboot)
      PROVE  OwnedInv'
  <2>1. Present' = Present
    BY <1>5 DEF AgentStarts, Present
  <2>2. Linked' => Linked
    BY <1>0, <1>5, StartParts DEF Linked
  <2> QED
    BY <2>1, <2>2, OwnedKept
<1>6. ASSUME Undo \/ SetByHand \/ \E r \in Resources : RemovedByHand(r)
      PROVE  OwnedInv'
  <2>1. UNCHANGED host
    BY <1>6 DEF Undo, SetByHand, RemovedByHand
  <2>2. \A r \in Resources : router'[r] = router[r] \/ router'[r] = Absent
    <3>1. CASE Undo
      <4>1. NextUndone \in {"wg", "peer", "service", "global"}
        BY <1>0, <3>1, EntryPassed, Positions DEF Undo
      <4>2. CASE NextUndone = "global"
        BY <1>0, <3>1, <4>2 DEF Undo, TypeOK, Contents, Resources
      <4>3. CASE NextUndone # "global"
        BY <1>0, <3>1, <4>1, <4>3 DEF Undo, TypeOK, Contents, Resources
      <4> QED
        BY <4>2, <4>3
    <3>2. CASE SetByHand
      BY <1>0, <3>2 DEF SetByHand, TypeOK, Contents, Resources
    <3>3. CASE \E r \in Resources : RemovedByHand(r)
      BY <1>0, <3>3 DEF RemovedByHand, TypeOK, Contents, Resources
    <3> QED
      BY <1>6, <3>1, <3>2, <3>3
  <2>3. Present' \subseteq Present
    BY <2>2 DEF Present
  <2>4. Linked' <=> Linked
    BY <2>1 DEF Linked
  <2> QED
    BY <2>3, <2>4, OwnedKept
<1>7. CASE \/ Review \/ Discover \/ Verify \/ Claim \/ Check \/ FinishApply \/ FinishRollback
           \/ Commit \/ Fail \/ UNCHANGED vars
           \/ \E x \in {"host", "wg", "peer", "service", "global"} : Intend(x)
           \/ \E i \in 1 .. Len(jobs) : RequestRollback(i) \/ Retry(i)
  <2>1. UNCHANGED <<router, host>>
    BY <1>7 DEF Review, Discover, Verify, Claim, Check, FinishApply, FinishRollback, Commit,
       Fail, vars, Intend, RequestRollback, Retry
  <2> QED
    BY <1>1, <2>1
<1> QED
  BY <1>2, <1>3, <1>4, <1>5, <1>6, <1>7 DEF Next, Execute

-----------------------------------------------------------------------------
(* What a rollback has passed is gone.                                     *)

\* The rollback at work, and its plan, are rows.
LEMMA UndoingRows ==
  ASSUME CoreInv, Undoing
  PROVE  /\ ex.pc # "idle" /\ ex.pc \notin Applying
         /\ ex.job \in JobIds /\ jobs[ex.job].kind = "rollback"
         /\ jobs[ex.job].status = "running"
         /\ jobs[ex.job].of \in JobIds /\ jobs[ex.job].of \in Applies
BY DEF CoreInv, ExecutorInv, Undoing, Applying, Applies, JobIds

\* Nothing comes while the executor stands at its entry of a rollback.
LEMMA CleanKept ==
  ASSUME CoreInv, CleanInv, Undoing, UNCHANGED ex, \A j \in JobIds : jobs'[j] = jobs[j],
         Present' \subseteq Present, host = NoHost => host' = NoHost, provisioned' => provisioned
  PROVE  CleanInv'
<1>1. ex.job \in JobIds /\ jobs[ex.job].of \in JobIds
  BY UndoingRows
<1>2. jobs'[ex.job].of = jobs[ex.job].of
  BY <1>1
<1>3. \A x : Journaled(jobs[ex.job].of, x)' => Journaled(jobs[ex.job].of, x)
  BY <1>1, <1>2 DEF Journaled
<1> QED
  BY <1>2, <1>3 DEF CleanInv, Undoing

\* The invariant of a rollback is kept by every step.
LEMMA CleanStep ==
  ASSUME CoreInv, CoreInv', CleanInv, [Next]_vars
  PROVE  CleanInv'
<1>0. TypeOK /\ ExecutorInv
  BY DEF CoreInv
<1>1. CASE ex' = Idle
  BY <1>1 DEF CleanInv, Undoing, Idle
<1>2. ASSUME ex'.pc \in Applying
      PROVE  CleanInv'
  BY <1>2 DEF CleanInv, Undoing, Applying
<1>3. ASSUME Undoing, UNCHANGED ex, \A j \in JobIds : jobs'[j] = jobs[j],
             UNCHANGED provisioned, UNCHANGED host, Present' \subseteq Present
      PROVE  CleanInv'
  BY <1>3, CleanKept
<1>4. ASSUME ~Undoing, UNCHANGED ex, \A j \in JobIds : jobs'[j] = jobs[j]
      PROVE  CleanInv'
  <2>1. ex.pc # "idle" => jobs'[ex.job] = jobs[ex.job]
    BY <1>0, <1>4 DEF ExecutorInv
  <2>2. ~Undoing'
    BY <1>4, <2>1 DEF Undoing
  <2> QED
    BY <2>2 DEF CleanInv
<1>5. CASE Review \/ \E i \in 1 .. Len(jobs) : RequestRollback(i)
  <2>1. UNCHANGED <<ex, provisioned, host, router>> /\ \A j \in JobIds : jobs'[j] = jobs[j]
    <3>1. \A j \in JobIds : jobs'[j] = jobs[j]
      BY <1>5, RowAdded DEF JobIds
    <3> QED
      BY <1>5, <3>1 DEF Review, RequestRollback
  <2>2. Present' = Present
    BY <2>1 DEF Present
  <2> QED
    BY <1>3, <1>4, <2>1, <2>2
<1>6. ASSUME Discover \/ Verify \/ \E i \in 1 .. Len(jobs) : Retry(i)
      PROVE  CleanInv'
  <2>1. ex' = Idle
    BY <1>6 DEF Discover, Verify, Retry
  <2> QED
    BY <1>1, <2>1
<1>7. CASE Claim
  <2>1. PICK i \in JobIds :
           /\ ex = Idle /\ jobs[i].status = "pending"
           /\ jobs' = [jobs EXCEPT ![i].status = "running"]
           /\ ex' = IF jobs[i].kind = "apply" THEN [pc |-> "check", job |-> i, at |-> 0]
                    ELSE [pc |-> "undo", job |-> i, at |-> jobs[jobs[i].of].journal]
    BY <1>0, <1>7, ClaimParts
  <2>2. /\ \A j \in JobIds : /\ jobs'[j].of = jobs[j].of /\ jobs'[j].journal = jobs[j].journal
    BY <1>0, <2>1, StatusWritten DEF TypeOK
  <2>3. CASE jobs[i].kind = "apply"
    BY <1>2, <2>1, <2>3 DEF Applying
  <2>4. CASE jobs[i].kind # "apply"
    <3>1. jobs[i].of \in JobIds
      <4>1. jobs[i].kind = "rollback"
        BY <1>0, <2>4, StateParts DEF Jobs
      <4> QED
        BY <1>0, <4>1 DEF ExecutorInv, Applies, JobIds
    <3>2. PICK p \in JobIds : p = jobs[i].of
      BY <3>1
    <3>3. /\ ex'.pc = "undo" /\ ex'.job = i /\ ex'.at = jobs'[p].journal
          /\ jobs'[i].of = p
      BY <2>1, <2>2, <2>4, <3>2
    <3>4. jobs'[p].journal \in 0 .. 5
      BY <1>0, <2>2, <3>2, StateParts
    <3>5. \A r : Journaled(p, r)' => Position(r) <= ex'.at
      BY <3>3 DEF Journaled
    <3>6. ex'.at = 0 => ~Journaled(p, "host")'
      BY <3>3, Positions DEF Journaled
    <3> QED
      BY <3>3, <3>5, <3>6 DEF CleanInv
  <2> QED
    BY <2>3, <2>4
<1>8. ASSUME Check \/ Prepare \/ Configure \/ Fail \/ CallBreaksOff \/ Commit
             \/ \E x \in {"host", "wg", "peer", "service", "global"} : Intend(x) \/ Mutate(x)
      PROVE  CleanInv'
  <2>1. CASE ex' = Idle
    BY <1>1, <2>1
  <2>2. CASE ex' = [ex EXCEPT !.pc = "prepare"] \/ ex' = [ex EXCEPT !.pc = "host"]
             \/ ex' = [ex EXCEPT !.pc = "peer"]
    <3>1. ex'.pc \in {"prepare", "host", "peer"}
      BY <1>0, <2>2 DEF TypeOK
    <3> QED
      BY <1>2, <3>1 DEF Applying
  <2>3. CASE \E x \in {"host", "wg", "peer", "service", "global"} : Intend(x)
    <3>1. ex'.pc \in Applying
      BY <2>3 DEF Intend, Applying
    <3> QED
      BY <1>2, <3>1
  <2>4. CASE \E x \in {"host", "wg", "peer", "service", "global"} : Mutate(x)
    <3>1. ex'.pc \in Applying
      BY <2>4, MutateKeeps, TheNextStep
    <3> QED
      BY <1>2, <3>1
  <2> QED
    BY <1>8, <2>1, <2>2, <2>3, <2>4 DEF Check, Prepare, Configure, Fail, CallBreaksOff, Commit
<1>9. CASE FinishApply
  <2>1. jobs[ex.job].kind = "apply" /\ ex' = [ex EXCEPT !.pc = "commit"] /\ UNCHANGED jobs
    BY <1>0, <1>9 DEF FinishApply, ExecutorInv, Applying
  <2>2. ex'.pc = "commit" /\ ex'.job = ex.job
    BY <1>0, <2>1 DEF TypeOK
  <2>3. ~Undoing'
    BY <2>1, <2>2 DEF Undoing
  <2> QED
    BY <2>3 DEF CleanInv
<1>10. ASSUME Undo \/ (UndoHost /\ ex' = [ex EXCEPT !.at = @ - 1])
       PROVE  CleanInv'
  <2>1. /\ NextUndone # "none" /\ UNCHANGED jobs /\ ex' = [ex EXCEPT !.at = @ - 1]
    BY <1>10 DEF Undo, UndoHost, Idle, NextUndone
  <2>2. /\ ex.pc = "undo" /\ ex.at \in 1 .. 5 /\ NextUndone = Intents[ex.at]
        /\ ex'.pc = "undo" /\ ex'.job = ex.job /\ ex'.at = ex.at - 1
    BY <1>0, <2>1, EntryPassed
  <2>p. PICK p \in JobIds : p = jobs[ex.job].of
    BY <1>0, <2>1, EntryPassed DEF Applies, JobIds
  <2>3. Undoing /\ p = jobs'[ex'.job].of /\ \A x : Journaled(p, x)' <=> Journaled(p, x)
    BY <2>1, <2>2, <2>p DEF Undoing, Journaled
  <2>4. \A r \in Present : Journaled(p, r) => Position(r) <= ex.at
    BY <2>3, <2>p DEF CleanInv
  <2>5. CASE Undo
    <3>1. NextUndone \in {"wg", "peer", "service", "global"}
      BY <2>2, <2>5, Positions DEF Undo
    <3>2. ex.at # 1
      BY <2>2, <3>1, Positions
    <3>3. \A r \in Present' : r \in Present /\ r # NextUndone
      <4>1. CASE NextUndone = "global"
        BY <1>0, <2>5, <4>1 DEF Undo, TypeOK, Contents, Resources, Present
      <4>2. CASE NextUndone # "global"
        BY <1>0, <2>5, <3>1, <4>2 DEF Undo, TypeOK, Contents, Resources, Present
      <4> QED
        BY <4>1, <4>2
    <3>4. \A r \in Resources : r # NextUndone => Position(r) # ex.at
      BY <2>2, Positions DEF Resources
    <3>5. \A r \in Present' : Journaled(p, r) => Position(r) <= ex.at - 1
      <4> SUFFICES ASSUME NEW r \in Present', Journaled(p, r)
                   PROVE  Position(r) <= ex.at - 1
        OBVIOUS
      <4>1. r \in Resources /\ Position(r) <= ex.at /\ Position(r) # ex.at
        BY <2>4, <3>3, <3>4 DEF Present
      <4>2. Position(r) \in Nat
        BY <4>1, Positions DEF Resources
      <4> QED
        BY <2>2, <4>1, <4>2
    <3> QED
      BY <2>2, <2>3, <3>2, <3>5 DEF CleanInv
  <2>6. CASE UndoHost
    <3>1. NextUndone = "host" /\ UNCHANGED router
      BY <2>6 DEF UndoHost
    <3>2. ex.at = 1
      <4>1. ex.at \in {1, 2, 3, 4, 5} /\ Intents[ex.at] = "host"
        BY <2>2, <3>1
      <4> QED
        BY <4>1, Positions
    <3>3. \A r \in Present' : ~Journaled(p, r)
      <4> SUFFICES ASSUME NEW r \in Present', Journaled(p, r)
                   PROVE  FALSE
        OBVIOUS
      <4>1. r \in Present /\ r \in Resources
        BY <3>1 DEF Present
      <4>2. Position(r) <= 1
        BY <2>4, <3>2, <4>1
      <4> QED
        BY <4>1, <4>2, Positions DEF Resources
    <3>4. host' = NoHost
      <4>1. ex' # Idle
        BY <2>2 DEF Idle
      <4>2. host' = Removed(3)
        BY <2>6, <4>1 DEF UndoHost
      <4> QED
        BY <1>0, <4>2, RemovedParts
    <3> QED
      BY <2>2, <2>3, <3>3, <3>4 DEF CleanInv
  <2> QED
    BY <1>10, <2>5, <2>6
<1>11. CASE UndoHost /\ ex' = Idle
  BY <1>1, <1>11
<1>12. CASE FinishRollback
  <2>1. /\ ex.pc = "undo" /\ ex.at = 0 /\ ex' = [ex EXCEPT !.pc = "commit"]
        /\ UNCHANGED <<jobs, router, host>> /\ provisioned' = FALSE
    BY <1>12 DEF FinishRollback
  <2>2. ex'.pc = "commit" /\ ex'.job = ex.job /\ ex'.at = 0
    BY <1>0, <2>1 DEF TypeOK
  <2>3. Present' = Present /\ \A i, x : Journaled(i, x)' <=> Journaled(i, x)
    BY <2>1 DEF Present, Journaled
  <2> QED
    BY <2>1, <2>2, <2>3 DEF CleanInv, Undoing
<1>13. ASSUME NEW reboot \in BOOLEAN, AgentStarts(reboot)
       PROVE  CleanInv'
  <2>1. UNCHANGED <<jobs, ex, provisioned, router>> /\ host # NoHost
    BY <1>0, <1>13, StartParts DEF AgentStarts
  <2>2. Present' = Present
    BY <2>1 DEF Present
  <2> QED
    BY <1>4, <2>1, <2>2, CleanKept
<1>14. ASSUME SetByHand \/ \E r \in Resources : RemovedByHand(r)
       PROVE  CleanInv'
  <2>1. UNCHANGED <<jobs, ex, provisioned, host>>
    BY <1>14 DEF SetByHand, RemovedByHand
  <2>2. Present' \subseteq Present
    <3>1. \A r \in Resources : router'[r] = router[r] \/ router'[r] = Absent
      BY <1>0, <1>14 DEF SetByHand, RemovedByHand, TypeOK, Contents, Resources
    <3> QED
      BY <3>1 DEF Present
  <2> QED
    BY <1>3, <1>4, <2>1, <2>2
<1>15. CASE UNCHANGED vars
  <2>1. Present' = Present
    BY <1>15 DEF Present, vars
  <2> QED
    BY <1>3, <1>4, <1>15, <2>1 DEF vars
<1>16. UndoHost => ex' = Idle \/ ex' = [ex EXCEPT !.at = @ - 1]
  BY DEF UndoHost
<1> QED
  BY <1>5, <1>6, <1>7, <1>8, <1>9, <1>10, <1>11, <1>12, <1>13, <1>14, <1>15, <1>16
  DEF Next, Execute

-----------------------------------------------------------------------------
(* What a plan has made stays until a rollback is asked for.               *)

\* A job succeeds by the commit of the executor that works on it.
LEMMA OnlyCommitSucceeds ==
  ASSUME CoreInv, [Next]_vars, NEW j \in JobIds, jobs'[j].status = "succeeded"
  PROVE  jobs[j].status = "succeeded" \/ (Commit /\ j = ex.job)
<1>0. TypeOK /\ ExecutorInv /\ jobs \in Seq(Jobs)
  BY DEF CoreInv, TypeOK
<1>1. ASSUME NEW i \in JobIds, NEW status \in {"pending", "running", "failed"},
             jobs' = [jobs EXCEPT ![i].status = status]
      PROVE  jobs[j].status = "succeeded"
  <2>1. status \in {"pending", "running", "succeeded", "failed"}
    OBVIOUS
  <2>2. jobs'[j].status = IF j = i THEN status ELSE jobs[j].status
    BY <1>0, <1>1, <2>1, StatusWritten, Zenon
  <2> QED
    BY <2>2
<1>2. CASE Review \/ \E i \in 1 .. Len(jobs) : RequestRollback(i)
  <2>1. jobs'[j] = jobs[j]
    BY <1>2, RowAdded DEF JobIds
  <2> QED
    BY <2>1
<1>3. CASE UNCHANGED jobs
  BY <1>3
<1>4. CASE Claim
  <2>1. \E i \in JobIds : jobs' = [jobs EXCEPT ![i].status = "running"]
    BY <1>0, <1>4, ClaimParts
  <2> QED
    BY <1>1, <2>1
<1>5. ASSUME jobs' = [jobs EXCEPT ![ex.job].status = "failed"], ex.pc # "idle"
      PROVE  jobs[j].status = "succeeded"
  <2>1. ex.job \in JobIds
    BY <1>0, <1>5 DEF ExecutorInv
  <2> QED
    BY <1>1, <1>5, <2>1
<1>6. CASE Check \/ Configure \/ UndoHost \/ CallBreaksOff \/ Fail
  <2>1. ex.pc # "idle"
    BY <1>0, <1>6 DEF Check, Configure, UndoHost, CallBreaksOff, Fail, NextUndone, ExecutorInv
  <2> QED
    BY <1>3, <1>5, <1>6, <2>1 DEF Check, Configure, UndoHost, CallBreaksOff, Fail
<1>7. CASE \E x \in {"host", "wg", "peer", "service", "global"} : Intend(x)
  <2>1. jobs'[j].status = jobs[j].status
    BY <1>0, <1>7, IntendKeeps
  <2> QED
    BY <2>1
<1>8. CASE Commit
  <2>1. ex.job \in JobIds
    BY <1>0, <1>8 DEF Commit, ExecutorInv
  <2>2. j # ex.job => jobs'[j].status = jobs[j].status
    BY <1>0, <1>8, <2>1 DEF Commit, JobIds
  <2> QED
    BY <1>8, <2>2
<1>9. CASE Verify
  <2>1. Len(jobs) \in Nat /\ Applies \in SUBSET (0 .. Len(jobs)) /\ Applies # {}
    BY <1>0, <1>9 DEF Verify, Applies
  <2>2. Max(Applies) \in JobIds
    BY <2>1, GreatestNatural DEF Applies, JobIds
  <2>3. jobs' = [jobs EXCEPT ![Max(Applies)].status = "failed"]
    BY <1>9 DEF Verify
  <2> QED
    BY <1>1, <2>2, <2>3
<1>10. CASE \E i \in 1 .. Len(jobs) : Retry(i)
  BY <1>1, <1>10 DEF Retry, JobIds
<1>11. CASE \/ Discover \/ Prepare \/ FinishApply \/ Undo \/ FinishRollback \/ SetByHand
            \/ UNCHANGED vars
            \/ \E x \in {"host", "wg", "peer", "service", "global"} : Mutate(x)
            \/ \E reboot \in BOOLEAN : AgentStarts(reboot)
            \/ \E r \in Resources : RemovedByHand(r)
  BY <1>3, <1>11 DEF Discover, Prepare, FinishApply, Undo, FinishRollback, SetByHand, vars,
     Mutate, AgentStarts, RemovedByHand
<1> QED
  BY <1>2, <1>4, <1>6, <1>7, <1>8, <1>9, <1>10, <1>11 DEF Next, Execute

\* Every rollback that was asked for has succeeded.
Settled == \A j \in JobIds : jobs[j].kind = "rollback" => jobs[j].status = "succeeded"

\* No rollback settles on a router that stays provisioned.
LEMMA SettledBefore ==
  ASSUME CoreInv, CoreInv', Kept, CleanInv, [Next]_vars, provisioned, Settled'
  PROVE  Settled
<1> SUFFICES ASSUME NEW j \in JobIds, jobs[j].kind = "rollback", jobs[j].status # "succeeded"
             PROVE  FALSE
  BY DEF Settled
<1>1. j \in JobIds' /\ jobs'[j].kind = "rollback"
  BY KeptRows DEF CoreInv, Kept
<1>2. jobs'[j].status = "succeeded"
  BY <1>1 DEF Settled
<1>3. Commit /\ j = ex.job
  BY <1>2, OnlyCommitSucceeds
<1>4. ex.pc = "commit" /\ Undoing
  BY <1>3 DEF Commit, Undoing
<1> QED
  BY <1>4 DEF CleanInv

\* Only a rollback takes back what was made.
LEMMA MadeStays ==
  ASSUME CoreInv, CompleteInv, [Next]_vars, ~Undo, NEW r \in Resources, Made(r)
  PROVE  Made(r)'
<1>0. TypeOK
  BY DEF CoreInv
<1>1. ASSUME NEW x \in {"host", "wg", "peer", "service", "global"}, Mutate(x)
      PROVE  Made(r)'
  <2>1. ex.pc = x /\ meddled' = meddled \ {x}
    BY <1>1 DEF Mutate
  <2>2. x = "global" => router'[r] = router[r]
    BY <1>0, <1>1 DEF Mutate, Created, Resources, TypeOK, Contents
  <2>3. r # x => router'[r] = router[r]
    <3>1. x # "global" => router' = Created(x)
      BY <1>1, MutateKeeps
    <3> QED
      BY <1>0, <2>2, <3>1, CreatedParts DEF Resources
  <2>4. CASE r # x
    BY <2>1, <2>3, <2>4 DEF Made
  <2>5. CASE r = x
    <3>1. x \in {"wg", "peer", "service"} /\ router' = Created(x)
      BY <1>1, <2>5, MutateKeeps DEF Resources
    <3>2. x = "peer" => host.key # Absent
      BY <2>1 DEF CompleteInv
    <3>3. Created(x)[x] # Absent
      <4>1. CASE x = "wg"
        BY <1>0, <4>1, CreatedParts, StateParts, FreshKeyIsAKey
      <4>2. CASE x = "peer"
        BY <1>0, <3>2, <4>2, CreatedParts
      <4>3. CASE x = "service"
        BY <1>0, <4>3, CreatedParts DEF Absent
      <4> QED
        BY <3>1, <4>1, <4>2, <4>3
    <3> QED
      BY <2>5, <3>1, <3>3 DEF Made
  <2> QED
    BY <2>4, <2>5
<1>2. CASE SetByHand
  BY <1>0, <1>2 DEF SetByHand, Made, TypeOK, Contents, Resources
<1>3. CASE \E q \in Resources : RemovedByHand(q)
  <2>1. PICK q \in Resources : RemovedByHand(q)
    BY <1>3
  <2>2. meddled' = meddled \union {q} /\ (r # q => router'[r] = router[r])
    BY <1>0, <2>1 DEF RemovedByHand, TypeOK, Contents, Resources
  <2> QED
    BY <2>2 DEF Made
<1>4. CASE UNCHANGED <<router, meddled>>
  BY <1>4 DEF Made
<1>5. CASE \/ Review \/ Discover \/ Verify \/ Claim \/ Check \/ Prepare \/ Configure
           \/ FinishApply \/ UndoHost \/ FinishRollback \/ Commit \/ Fail \/ CallBreaksOff
           \/ UNCHANGED vars
           \/ \E x \in {"host", "wg", "peer", "service", "global"} : Intend(x)
           \/ \E i \in 1 .. Len(jobs) : RequestRollback(i) \/ Retry(i)
           \/ \E reboot \in BOOLEAN : AgentStarts(reboot)
  BY <1>4, <1>5 DEF Review, Discover, Verify, Claim, Check, Prepare, Configure, FinishApply,
     UndoHost, FinishRollback, Commit, Fail, CallBreaksOff, vars, Intend, RequestRollback,
     Retry, AgentStarts
<1> QED
  BY <1>1, <1>2, <1>3, <1>5 DEF Next, Execute

\* The part of CompleteInv about a plan at work.
MakingInv ==
  /\ ex.pc \in {"host", "wg", "configure", "peer"} => host.key # Absent
  /\ ex.pc \in {"configure", "peer", "service", "global", "finish"} => Made("wg")
  /\ ex.pc \in {"service", "global", "finish"} => Made("peer")
  /\ ex.pc \in {"global", "finish"} => Made("service")

\* What lies behind a plan at work is made.
LEMMA MakingStep ==
  ASSUME CoreInv, CompleteInv, [Next]_vars
  PROVE  MakingInv'
<1>0. TypeOK /\ ExecutorInv
  BY DEF CoreInv
<1>1. \A r \in Resources : Made(r) /\ ~Undo => Made(r)'
  BY MadeStays
<1>2. CASE ex'.pc \in {"idle", "check", "prepare", "undo", "commit"}
  BY <1>2 DEF MakingInv
<1>3. CASE Undo \/ UndoHost \/ ex' = Idle
  <2>1. CASE ex' = Idle
    BY <1>2, <2>1 DEF Idle
  <2>2. CASE ex' = [ex EXCEPT !.at = @ - 1] /\ ex.pc = "undo"
    <3>1. ex'.pc = "undo"
      BY <1>0, <2>2 DEF TypeOK
    <3> QED
      BY <1>2, <3>1
  <2> QED
    BY <1>3, <2>1, <2>2 DEF Undo, UndoHost, NextUndone
<1>4. ASSUME ~Undo, ex'.pc = ex.pc, host'.key = host.key
      PROVE  MakingInv'
  BY <1>1, <1>4 DEF MakingInv, CompleteInv, Resources
<1>5. CASE \/ Review \/ Discover \/ Verify \/ Fail \/ Commit \/ CallBreaksOff \/ SetByHand
           \/ UNCHANGED vars
           \/ \E x \in {"host", "wg", "peer", "service", "global"} : Intend(x)
           \/ \E i \in 1 .. Len(jobs) : RequestRollback(i) \/ Retry(i)
           \/ \E r \in Resources : RemovedByHand(r)
  <2>1. ex' = Idle \/ UNCHANGED <<ex, host>>
    BY <1>5 DEF Review, Discover, Verify, Fail, Commit, CallBreaksOff, SetByHand, vars, Intend,
       RequestRollback, Retry, RemovedByHand
  <2> QED
    BY <1>3, <1>4, <2>1
<1>6. ASSUME NEW reboot \in BOOLEAN, AgentStarts(reboot)
      PROVE  MakingInv'
  <2>1. UNCHANGED ex /\ host'.key = host.key
    BY <1>0, <1>6, StartParts DEF AgentStarts
  <2> QED
    BY <1>3, <1>4, <2>1
<1>7. CASE Claim
  <2>1. ex'.pc \in {"check", "undo"}
    <3>1. \E i \in JobIds :
           ex' = IF jobs[i].kind = "apply" THEN [pc |-> "check", job |-> i, at |-> 0]
                 ELSE [pc |-> "undo", job |-> i, at |-> jobs[jobs[i].of].journal]
      BY <1>0, <1>7, ClaimParts
    <3> QED
      BY <3>1
  <2> QED
    BY <1>2, <2>1
<1>8. CASE Check \/ FinishApply \/ FinishRollback
  <2>1. CASE ex' = [ex EXCEPT !.pc = "prepare"] \/ ex' = [ex EXCEPT !.pc = "commit"]
    <3>1. ex'.pc \in {"prepare", "commit"}
      BY <1>0, <2>1 DEF TypeOK
    <3> QED
      BY <1>2, <3>1
  <2> QED
    BY <1>3, <1>8, <2>1 DEF Check, FinishApply, FinishRollback
<1>9. CASE Prepare
  <2>1. ex'.pc = "host"
    BY <1>0, <1>9 DEF Prepare, TypeOK
  <2>2. host'.key # Absent
    BY <1>0, <1>9, StateParts, FreshKeyIsAKey DEF Prepare, TypeOK, Hosts
  <2> QED
    BY <2>1, <2>2 DEF MakingInv
<1>10. CASE Configure
  <2>1. CASE ex' = [ex EXCEPT !.pc = "peer"] /\ host' = Configured(5)
    <3>1. ex.pc = "configure" /\ ex'.pc = "peer" /\ ~Undo
      BY <1>0, <1>10, <2>1 DEF Configure, TypeOK, Undo, NextUndone
    <3>2. host'.key = host.key
      BY <1>0, <2>1, ConfiguredParts
    <3> QED
      BY <1>1, <3>1, <3>2 DEF MakingInv, CompleteInv, Resources
  <2> QED
    BY <1>3, <1>10, <2>1 DEF Configure
<1>11. ASSUME NEW x \in {"host", "wg", "peer", "service", "global"}, Mutate(x)
       PROVE  MakingInv'
  <2>1. ex.pc = x /\ ex'.pc = After[x] /\ UNCHANGED host /\ ~Undo
    BY <1>11, MutateKeeps DEF Mutate, Undo, NextUndone
  <2>2. x \in Resources => Made(x)'
    <3> SUFFICES ASSUME x \in Resources
                 PROVE  Made(x)'
      OBVIOUS
    <3>1. router' = Created(x)
      BY <1>11, MutateKeeps DEF Resources
    <3>2. x = "peer" => host.key # Absent
      BY <2>1 DEF CompleteInv
    <3>3. CASE x = "wg"
      BY <1>0, <3>1, <3>3, CreatedParts, StateParts, FreshKeyIsAKey DEF Made
    <3>4. CASE x = "peer"
      BY <1>0, <3>1, <3>2, <3>4, CreatedParts DEF Made
    <3>5. CASE x = "service"
      BY <1>0, <3>1, <3>5, CreatedParts DEF Made, Absent
    <3> QED
      BY <3>3, <3>4, <3>5 DEF Resources
  <2>3. CASE x = "host"
    BY <2>1, <2>3, TheNextStep DEF MakingInv, CompleteInv
  <2>4. CASE x = "wg"
    BY <2>1, <2>2, <2>4, TheNextStep DEF MakingInv, CompleteInv, Resources
  <2>5. CASE x = "peer"
    BY <1>1, <2>1, <2>2, <2>5, TheNextStep DEF MakingInv, CompleteInv, Resources
  <2>6. CASE x = "service"
    BY <1>1, <2>1, <2>2, <2>6, TheNextStep DEF MakingInv, CompleteInv, Resources
  <2>7. CASE x = "global"
    BY <1>1, <2>1, <2>7, TheNextStep DEF MakingInv, CompleteInv, Resources
  <2> QED
    BY <2>3, <2>4, <2>5, <2>6, <2>7
<1> QED
  BY <1>3, <1>5, <1>6, <1>7, <1>8, <1>9, <1>10, <1>11 DEF Next, Execute

\* A router becomes provisioned at the end of a plan that made everything, and stays
\* so until a rollback ends or a verification finds something missing.
LEMMA CompleteStep ==
  ASSUME CoreInv, CoreInv', Kept, CleanInv, CompleteInv, [Next]_vars
  PROVE  CompleteInv'
<1>0. TypeOK /\ ExecutorInv
  BY DEF CoreInv
<1>1. MakingInv'
  BY MakingStep
<1>2. ASSUME provisioned', Settled'
      PROVE  \A r \in Resources : Made(r)'
  <2>1. CASE FinishApply
    <3>1. ex.pc = "finish" /\ UNCHANGED <<router, meddled>>
      BY <2>1 DEF FinishApply
    <3>2. \A r \in Resources : Made(r)
      BY <3>1 DEF CompleteInv, Resources
    <3> QED
      BY <3>1, <3>2 DEF Made
  <2>2. CASE ~FinishApply
    <3>1. provisioned
      BY <1>2, <2>2 DEF Next, Execute, Review, Discover, Verify, Claim, Check, Prepare,
         Configure, Intend, Mutate, Undo, UndoHost, FinishRollback, Commit, Fail, CallBreaksOff,
         SetByHand, AgentStarts, RequestRollback, Retry, RemovedByHand, vars
    <3>2. Settled
      BY <1>2, <3>1, SettledBefore
    <3>3. ~Undo
      <4>1. ex.pc = "undo" => jobs[ex.job].kind = "rollback" /\ ex.job \in JobIds
                              /\ jobs[ex.job].status = "running"
        BY <1>0 DEF ExecutorInv
      <4> QED
        BY <3>2, <4>1 DEF Undo, NextUndone, Settled
    <3>4. \A r \in Resources : Made(r)
      BY <3>1, <3>2 DEF CompleteInv, Settled
    <3> QED
      BY <3>3, <3>4, MadeStays
  <2> QED
    BY <2>1, <2>2
<1>3. Settled' <=> (\A j \in JobIds : jobs[j].kind = "rollback" => jobs[j].status = "succeeded")'
  BY DEF Settled
<1> QED
  BY <1>1, <1>2, <1>3, Zenon DEF CompleteInv, MakingInv

-----------------------------------------------------------------------------
(* The two ends of the tunnel.                                             *)

NoRollback == \A j \in JobIds : jobs[j].kind = "apply"
ToConfigure == {"check", "prepare", "host", "wg", "configure"}
PastConfigure == {"peer", "service", "global", "finish"}

\* No rollback is there, and none was before.
LEMMA NoRollbackBefore ==
  ASSUME CoreInv, Kept, NoRollback'
  PROVE  NoRollback /\ ex.pc # "undo" /\ NextUndone = "none"
<1>1. NoRollback
  BY KeptRows DEF CoreInv, Kept, NoRollback
<1>2. ex.pc # "undo"
  BY <1>1 DEF CoreInv, ExecutorInv, NoRollback
<1> QED
  BY <1>1, <1>2 DEF NextUndone

\* A begun plan that is still to configure the node's end stays one until it does.
LEMMA StillToConfigure ==
  ASSUME CoreInv, CoreInv', Kept, [Next]_vars, NoRollback, ex.pc # "undo",
         NEW i \in JobIds, WillConfigure(i), ex.pc = "configure" => ex'.pc # "peer"
  PROVE  WillConfigure(i)'
<1>0. TypeOK /\ ExecutorInv /\ jobs \in Seq(Jobs)
  BY DEF CoreInv, TypeOK
<1>1. jobs'[i].journal > 0
  <2>1. jobs[i].journal \in Nat /\ jobs[i].journal > 0
    BY <1>0, StateParts DEF WillConfigure
  <2>2. jobs'[i].journal \in Nat
    <3>1. i \in 1 .. Len(jobs') /\ jobs' \in Seq(Jobs)
      BY <1>0, KeptRows DEF Kept, JobIds
    <3>2. jobs'[i] \in Jobs
      BY <3>1
    <3> QED
      BY <3>2, Positions DEF Jobs
  <2> QED
    BY <2>1, <2>2 DEF Kept
<1>2. \/ jobs[i].status \in {"pending", "failed"}
      \/ jobs[i].status = "running" /\ ex.pc \in ToConfigure /\ i = ex.job
  BY <1>0 DEF WillConfigure, ToConfigure, ExecutorInv
<1>3. SUFFICES \/ jobs'[i].status \in {"pending", "failed"}
               \/ jobs'[i].status = "running" /\ ex'.pc \in ToConfigure
  BY <1>1 DEF WillConfigure, ToConfigure
<1>4. ASSUME NEW k \in JobIds, NEW status \in {"pending", "failed"},
             jobs' = [jobs EXCEPT ![k].status = status], i = ex.job => k = i \/ UNCHANGED ex
      PROVE  \/ jobs'[i].status \in {"pending", "failed"}
             \/ jobs'[i].status = "running" /\ ex'.pc \in ToConfigure
  <2>1. status \in {"pending", "running", "succeeded", "failed"}
    OBVIOUS
  <2>2. jobs'[i].status = IF i = k THEN status ELSE jobs[i].status
    BY <1>0, <1>4, <2>1, StatusWritten, Zenon
  <2> QED
    BY <1>2, <1>4, <2>2
<1>5. CASE jobs'[i].status = jobs[i].status /\ UNCHANGED ex
  BY <1>2, <1>5
<1>6. CASE Review \/ \E k \in 1 .. Len(jobs) : RequestRollback(k)
  <2>1. jobs'[i] = jobs[i] /\ UNCHANGED ex
    BY <1>6, RowAdded DEF JobIds, Review, RequestRollback
  <2> QED
    BY <1>5, <2>1
<1>7. CASE Verify
  <2>1. Len(jobs) \in Nat /\ Applies \in SUBSET (0 .. Len(jobs)) /\ Applies # {}
    BY <1>0, <1>7 DEF Verify, Applies
  <2>2. Max(Applies) \in JobIds
    BY <2>1, GreatestNatural DEF Applies, JobIds
  <2>3. jobs' = [jobs EXCEPT ![Max(Applies)].status = "failed"] /\ UNCHANGED ex
    BY <1>7 DEF Verify
  <2> QED
    BY <1>4, <2>2, <2>3
<1>8. CASE \E k \in 1 .. Len(jobs) : Retry(k)
  BY <1>4, <1>8 DEF Retry, JobIds
<1>9. CASE Claim
  <2>1. PICK k \in JobIds :
           /\ ex = Idle /\ jobs[k].status = "pending"
           /\ jobs' = [jobs EXCEPT ![k].status = "running"]
           /\ ex' = IF jobs[k].kind = "apply" THEN [pc |-> "check", job |-> k, at |-> 0]
                    ELSE [pc |-> "undo", job |-> k, at |-> jobs[jobs[k].of].journal]
    BY <1>0, <1>9, ClaimParts
  <2>2. jobs'[i].status = IF i = k THEN "running" ELSE jobs[i].status
    BY <1>0, <2>1, StatusWritten
  <2>3. ex'.pc = "check" /\ ex.pc = "idle"
    BY <2>1 DEF NoRollback, Idle
  <2> QED
    BY <1>2, <2>2, <2>3 DEF ToConfigure
<1>10. ASSUME jobs' = [jobs EXCEPT ![ex.job].status = "failed"], ex.pc # "idle"
       PROVE  \/ jobs'[i].status \in {"pending", "failed"}
              \/ jobs'[i].status = "running" /\ ex'.pc \in ToConfigure
  <2>1. ex.job \in JobIds
    BY <1>0, <1>10 DEF ExecutorInv
  <2> QED
    BY <1>4, <1>10, <2>1
<1>11. CASE Fail \/ CallBreaksOff
  <2>1. ex.pc # "idle"
    BY <1>0, <1>11 DEF CallBreaksOff, Fail, NextUndone, ExecutorInv
  <2> QED
    BY <1>10, <1>11, <2>1 DEF CallBreaksOff, Fail
<1>12. ASSUME UNCHANGED jobs, NEW pc \in ToConfigure, ex' = [ex EXCEPT !.pc = pc]
       PROVE  \/ jobs'[i].status \in {"pending", "failed"}
              \/ jobs'[i].status = "running" /\ ex'.pc \in ToConfigure
  <2>1. ex'.pc = pc
    BY <1>0, <1>12 DEF TypeOK
  <2> QED
    BY <1>2, <1>12, <2>1
<1>13. CASE Check
  <2>1. ex.pc # "idle" /\ "prepare" \in ToConfigure
    BY <1>13 DEF Check, ToConfigure
  <2> QED
    BY <1>10, <1>12, <1>13, <2>1 DEF Check
<1>14. CASE Prepare
  <2>1. "host" \in ToConfigure
    BY DEF ToConfigure
  <2> QED
    BY <1>12, <1>14, <2>1 DEF Prepare
<1>15. CASE Configure
  <2>1. ex.pc = "configure" /\ ex.pc # "idle"
    BY <1>15 DEF Configure
  <2>2. ex' # [ex EXCEPT !.pc = "peer"]
    BY <1>0, <2>1 DEF TypeOK
  <2> QED
    BY <1>10, <1>15, <2>1, <2>2 DEF Configure
<1>16. CASE \E x \in {"host", "wg", "peer", "service", "global"} : Intend(x)
  <2>1. jobs'[i].status = jobs[i].status /\ UNCHANGED ex
    BY <1>0, <1>16, IntendKeeps DEF Intend
  <2> QED
    BY <1>5, <2>1
<1>17. ASSUME NEW x \in {"host", "wg", "peer", "service", "global"}, Mutate(x)
       PROVE  \/ jobs'[i].status \in {"pending", "failed"}
              \/ jobs'[i].status = "running" /\ ex'.pc \in ToConfigure
  <2>1. ex.pc = x /\ ex'.pc = After[x] /\ UNCHANGED jobs
    BY <1>17, MutateKeeps DEF Mutate
  <2>2. x \in ToConfigure => After[x] \in ToConfigure
    BY TheNextStep DEF ToConfigure
  <2> QED
    BY <1>2, <2>1, <2>2
<1>18. CASE FinishApply
  <2>1. ex.pc \notin ToConfigure /\ UNCHANGED jobs
    BY <1>18 DEF FinishApply, ToConfigure
  <2> QED
    BY <1>2, <2>1
<1>19. CASE Commit
  <2>1. ex.pc = "commit" /\ ex.job \in JobIds
        /\ jobs' = [jobs EXCEPT ![ex.job].status = "succeeded"]
    BY <1>0, <1>19 DEF Commit, ExecutorInv
  <2>2. jobs[i].status \in {"pending", "failed"}
    BY <1>2, <2>1 DEF ToConfigure
  <2>3. i # ex.job
    BY <1>0, <2>1, <2>2 DEF ExecutorInv
  <2>4. jobs'[i].status = jobs[i].status
    BY <1>0, <2>1, <2>3 DEF JobIds
  <2> QED
    BY <2>2, <2>4
<1>20. CASE \/ Discover \/ SetByHand \/ UNCHANGED vars
            \/ \E reboot \in BOOLEAN : AgentStarts(reboot)
            \/ \E r \in Resources : RemovedByHand(r)
  <2>1. UNCHANGED <<jobs, ex>>
    BY <1>20 DEF Discover, SetByHand, vars, AgentStarts, RemovedByHand
  <2> QED
    BY <1>5, <2>1
<1>21. ~Undo /\ ~UndoHost /\ ~FinishRollback
  BY DEF Undo, UndoHost, FinishRollback, NextUndone
<1> QED
  BY <1>6, <1>7, <1>8, <1>9, <1>11, <1>13, <1>14, <1>15, <1>16, <1>17, <1>18, <1>19, <1>20,
     <1>21 DEF Next, Execute

\* What TunnelInv says of the two ends, and of who is to make them meet.
Ends ==
  /\ router.peer # Absent => router.peer = host.key
  /\ provisioned \/ ex.pc \in PastConfigure => host.configured
  /\ host.configured => host.link # "none"
Apart == (router.wg # Absent /\ host.peer # router.wg) \/ (host.configured /\ ~host.client)

\* The tunnel, in the words of its parts.
LEMMA TunnelParts ==
  /\ TunnelInv <=> (NoRollback => Ends /\ (Apart => \E i \in JobIds : WillConfigure(i)))
  /\ TunnelInv' <=> (NoRollback' => Ends' /\ (Apart' => \E i \in JobIds' : WillConfigure(i)'))
BY Zenon DEF TunnelInv, NoRollback, Ends, Apart, PastConfigure

\* While there is no rollback, the ends of the tunnel meet or a plan is to make them.
LEMMA TunnelStep ==
  ASSUME CoreInv, CoreInv', Kept, TunnelInv, [Next]_vars
  PROVE  TunnelInv'
<1>0. TypeOK /\ ExecutorInv
  BY DEF CoreInv
<1>1. SUFFICES ASSUME NoRollback'
               PROVE  Ends' /\ (Apart' => \E i \in JobIds' : WillConfigure(i)')
  BY TunnelParts
<1>2. NoRollback /\ ex.pc # "undo" /\ NextUndone = "none"
  BY <1>1, NoRollbackBefore
<1>3. Ends /\ (Apart => \E i \in JobIds : WillConfigure(i))
  BY <1>2, TunnelParts
<1>4. ASSUME Apart, ex.pc = "configure" => ex'.pc # "peer"
      PROVE  \E i \in JobIds' : WillConfigure(i)'
  <2>1. PICK i \in JobIds : WillConfigure(i)
    BY <1>3, <1>4
  <2>2. WillConfigure(i)' /\ i \in JobIds'
    BY <1>0, <1>2, <1>4, <2>1, StillToConfigure, KeptRows
  <2> QED
    BY <2>2
<1>5. ASSUME UNCHANGED host, router'.peer = router.peer \/ router'.peer = Absent,
             router'.wg = router.wg \/ router'.wg = Absent,
             provisioned' \/ ex'.pc \in PastConfigure =>
               provisioned \/ ex.pc \in PastConfigure,
             ex.pc = "configure" => ex'.pc # "peer"
      PROVE  Ends' /\ (Apart' => \E i \in JobIds' : WillConfigure(i)')
  <2>1. Ends'
    BY <1>3, <1>5 DEF Ends
  <2>2. Apart' => Apart
    BY <1>5 DEF Apart
  <2> QED
    BY <1>4, <1>5, <2>1, <2>2
<1>6. CASE \/ Review \/ Discover \/ Verify \/ Fail \/ Commit \/ UNCHANGED vars
           \/ \E x \in {"host", "wg", "peer", "service", "global"} : Intend(x)
           \/ \E i \in 1 .. Len(jobs) : RequestRollback(i) \/ Retry(i)
  <2>1. UNCHANGED <<host, router>> /\ (provisioned' = provisioned \/ provisioned' = FALSE)
    BY <1>6 DEF Review, Discover, Verify, Fail, Commit, vars, Intend, RequestRollback, Retry
  <2>2. ex' = Idle \/ ex' = ex
    BY <1>6 DEF Review, Discover, Verify, Fail, Commit, vars, Intend, RequestRollback, Retry
  <2> QED
    BY <1>5, <2>1, <2>2 DEF Idle, PastConfigure
<1>7. CASE Claim
  <2>1. ex'.pc \in {"check", "undo"}
    <3>1. \E i \in JobIds :
           ex' = IF jobs[i].kind = "apply" THEN [pc |-> "check", job |-> i, at |-> 0]
                 ELSE [pc |-> "undo", job |-> i, at |-> jobs[jobs[i].of].journal]
      BY <1>0, <1>7, ClaimParts
    <3> QED
      BY <3>1
  <2> QED
    BY <1>5, <1>7, <2>1 DEF Claim, PastConfigure
<1>8. CASE Check
  <2>1. ex'.pc \in {"idle", "prepare"}
    BY <1>0, <1>8 DEF Check, Idle, TypeOK
  <2> QED
    BY <1>5, <1>8, <2>1 DEF Check, PastConfigure
<1>9. CASE FinishApply
  <2>1. ex.pc = "finish" /\ ex'.pc = "commit" /\ UNCHANGED <<host, router>>
    BY <1>0, <1>9 DEF FinishApply, TypeOK
  <2> QED
    BY <1>5, <2>1 DEF PastConfigure
<1>10. CASE Prepare
  <2>1. /\ ex.pc = "prepare" /\ ex'.pc = "host" /\ UNCHANGED <<router, provisioned>>
        /\ host' = IF host.key = Absent THEN [host EXCEPT !.key = FreshKey] ELSE host
    BY <1>0, <1>10 DEF Prepare, TypeOK
  <2>2. CASE host.key # Absent
    BY <1>5, <2>1, <2>2 DEF PastConfigure
  <2>3. CASE host.key = Absent
    <3>1. /\ host'.peer = host.peer /\ host'.link = host.link
          /\ host'.configured = host.configured /\ host'.client = host.client
      BY <1>0, <2>1, <2>3 DEF TypeOK, Hosts
    <3>2. router.peer = Absent
      BY <1>3, <2>3 DEF Ends
    <3>3. Ends'
      BY <1>3, <2>1, <3>1, <3>2 DEF Ends, PastConfigure
    <3>4. Apart' => Apart
      BY <2>1, <3>1 DEF Apart
    <3> QED
      BY <1>4, <2>1, <3>3, <3>4
  <2> QED
    BY <2>2, <2>3
<1>11. ASSUME NEW n \in 1 .. 5, host' = Configured(n), ex.pc = "configure", UNCHANGED router,
              UNCHANGED provisioned
       PROVE  /\ router'.peer # Absent => router'.peer = host'.key
              /\ provisioned' => host'.configured
              /\ host'.configured => host'.link # "none"
              /\ n = 5 => host'.configured /\ ~Apart'
  <2>1. /\ host'.key = host.key /\ host'.peer = router.wg
        /\ host'.link = IF host.link # "none" \/ n < 2 THEN host.link
                        ELSE IF n = 2 THEN "bare" ELSE "owned"
        /\ host'.configured = (host.configured \/ n >= 4)
        /\ host'.client = IF n >= 5 THEN TRUE ELSE host.client
    BY <1>0, <1>11, ConfiguredParts
  <2>2. host'.link # "none" \/ (host.link = "none" /\ n < 2)
    BY <2>1
  <2>3. host'.configured => host.configured \/ n >= 4
    BY <2>1
  <2>4. host'.configured => host'.link # "none"
    BY <1>3, <2>2, <2>3 DEF Ends
  <2>5. provisioned => host.configured
    BY <1>3 DEF Ends
  <2>6. host.configured => host'.configured
    BY <2>1
  <2>7. n = 5 => host'.configured /\ host'.client
    <3>1. n = 5 => n >= 4 /\ n >= 5
      OBVIOUS
    <3> QED
      BY <2>1, <3>1, Zenon
  <2> QED
    BY <1>3, <1>11, <2>1, <2>4, <2>5, <2>6, <2>7 DEF Ends, Apart
<1>11a. ASSUME jobs' = [jobs EXCEPT ![ex.job].status = "failed"], ex.pc = "configure", ex' = Idle
       PROVE  \E i \in JobIds' : WillConfigure(i)'
  <2>1. /\ ex.job \in JobIds /\ jobs[ex.job].journal \in Nat /\ jobs[ex.job].journal >= 2
        /\ ex.pc # "idle"
    BY <1>0, <1>11a, StateParts DEF ExecutorInv
  <2>2. PICK i \in JobIds : i = ex.job
    BY <2>1
  <2>3. jobs'[i].status = "failed" /\ jobs'[i].journal = jobs[i].journal
    BY <1>0, <1>11a, <2>1, <2>2, JobEnds
  <2>4. WillConfigure(i)' /\ i \in JobIds'
    BY <1>0, <2>1, <2>2, <2>3, KeptRows DEF WillConfigure
  <2> QED
    BY <2>4
<1>12. CASE Configure
  <2>1. ex.pc = "configure" /\ UNCHANGED <<router, provisioned>>
    BY <1>12 DEF Configure
  <2>2. CASE host' = Configured(5) /\ ex' = [ex EXCEPT !.pc = "peer"]
    <3>1. /\ router'.peer # Absent => router'.peer = host'.key
          /\ host'.configured => host'.link # "none"
          /\ host'.configured /\ ~Apart'
      BY <1>11, <2>1, <2>2
    <3> QED
      BY <3>1 DEF Ends
  <2>3. CASE jobs' = [jobs EXCEPT ![ex.job].status = "failed"] /\ ex' = Idle
             /\ host' = IF router.wg # Absent THEN Configured(1) ELSE host
    <3>1. CASE host' = host
      BY <1>5, <2>1, <2>3, <3>1 DEF Idle, PastConfigure
    <3>2. CASE host' = Configured(1)
      <4>1. Ends'
        BY <1>11, <2>1, <2>3, <3>2 DEF Ends, Idle, PastConfigure
      <4> QED
        BY <1>11a, <2>1, <2>3, <4>1
    <3> QED
      BY <2>3, <3>1, <3>2
  <2> QED
    BY <1>12, <2>2, <2>3 DEF Configure
<1>13. CASE CallBreaksOff
  <2>1. /\ ex.pc = "configure" /\ UNCHANGED <<router, provisioned>> /\ ex' = Idle
        /\ jobs' = [jobs EXCEPT ![ex.job].status = "failed"]
    BY <1>2, <1>13 DEF CallBreaksOff
  <2>2. PICK n \in 1 .. 5 : host' = Configured(n)
    BY <1>2, <1>13 DEF CallBreaksOff
  <2>3. Ends'
    BY <1>11, <2>1, <2>2 DEF Ends, Idle, PastConfigure
  <2> QED
    BY <1>11a, <2>1, <2>3
<1>14. ASSUME NEW reboot \in BOOLEAN, AgentStarts(reboot)
       PROVE  Ends' /\ (Apart' => \E i \in JobIds' : WillConfigure(i)')
  <2>1. UNCHANGED <<jobs, router, ex, provisioned>>
    BY <1>14 DEF AgentStarts
  <2>2. /\ host'.key = host.key /\ host'.peer = host.peer /\ host'.configured = host.configured
        /\ host.configured => /\ host'.link \in {"owned", "bare"}
                              /\ host'.client \in {host.client, TRUE}
    BY <1>0, <1>14, StartParts
  <2>3. Ends'
    BY <1>3, <2>1, <2>2 DEF Ends
  <2>4. Apart' => Apart
    BY <2>1, <2>2 DEF Apart
  <2> QED
    BY <1>4, <2>1, <2>3, <2>4
<1>15. ASSUME SetByHand \/ \E r \in Resources : RemovedByHand(r)
       PROVE  Ends' /\ (Apart' => \E i \in JobIds' : WillConfigure(i)')
  <2>1. UNCHANGED <<host, ex, provisioned>>
    BY <1>15 DEF SetByHand, RemovedByHand
  <2>2. \A r \in Resources : router'[r] = router[r] \/ router'[r] = Absent
    BY <1>0, <1>15 DEF SetByHand, RemovedByHand, TypeOK, Contents, Resources
  <2> QED
    BY <1>5, <2>1, <2>2 DEF Resources
<1>16. ASSUME NEW x \in {"host", "wg", "peer", "service", "global"}, Mutate(x)
       PROVE  Ends' /\ (Apart' => \E i \in JobIds' : WillConfigure(i)')
  <2>1. ex.pc = x /\ ex'.pc = After[x] /\ UNCHANGED <<jobs, host, provisioned>>
        /\ ex'.job = ex.job
    BY <1>16, MutateKeeps DEF Mutate
  <2>2. \A r \in Resources : r # x => router'[r] = router[r]
    <3>1. x # "global" => router' = Created(x)
      BY <1>16, MutateKeeps
    <3>2. x = "global" => \A r \in Resources : router'[r] = router[r]
      BY <1>0, <1>16 DEF Mutate, Created, Resources, TypeOK, Contents
    <3> QED
      BY <1>0, <3>1, <3>2, CreatedParts DEF Resources
  <2>3. CASE x \in {"host", "service", "global"}
    BY <1>5, <2>1, <2>2, <2>3, TheNextStep DEF Resources, PastConfigure
  <2>4. CASE x = "peer"
    <3>1. router'.peer = IF router.peer = Absent THEN host.key ELSE router.peer
      BY <1>0, <1>16, <2>4, MutateKeeps, CreatedParts
    <3>2. router'.wg = router.wg
      BY <2>2, <2>4 DEF Resources
    <3>3. Ends'
      BY <1>3, <2>1, <2>4, <3>1, <3>2 DEF Ends, PastConfigure
    <3>4. Apart' => Apart
      BY <2>1, <3>2 DEF Apart
    <3> QED
      BY <1>4, <2>1, <2>4, <3>3, <3>4
  <2>5. CASE x = "wg"
    <3>1. router'.peer = router.peer
      BY <2>2, <2>5 DEF Resources
    <3>2. ex'.pc = "configure"
      BY <2>1, <2>5, TheNextStep
    <3>3. Ends'
      BY <1>3, <2>1, <3>1, <3>2 DEF Ends, PastConfigure
    <3>4. ex.job \in JobIds /\ jobs[ex.job].status = "running" /\ jobs[ex.job].journal > 0
      <4>1. Journaled(ex.job, "wg") /\ ex.pc # "idle"
        BY <1>16, <2>1, <2>5, MutateKeeps
      <4>2. ex.job \in JobIds /\ jobs[ex.job].status = "running"
        BY <1>0, <4>1 DEF ExecutorInv
      <4> QED
        BY <1>0, <4>1, <4>2, StateParts, Positions DEF Journaled
    <3>5. PICK i \in JobIds : i = ex.job
      BY <3>4
    <3>6. WillConfigure(i)' /\ i \in JobIds'
      BY <2>1, <3>2, <3>4, <3>5 DEF WillConfigure, JobIds
    <3> QED
      BY <3>3, <3>6
  <2> QED
    BY <2>3, <2>4, <2>5
<1>17. ~Undo /\ ~UndoHost /\ ~FinishRollback
  BY <1>2 DEF Undo, UndoHost, FinishRollback
<1> QED
  BY <1>6, <1>7, <1>8, <1>9, <1>10, <1>12, <1>13, <1>14, <1>15, <1>16, <1>17 DEF Next, Execute

-----------------------------------------------------------------------------
(* The theorems.                                                           *)

\* A router that no job has touched.
LEMMA PlanInit == Init => PlanInv
<1> SUFFICES ASSUME Init
             PROVE  PlanInv
  OBVIOUS
<1>1. /\ jobs = <<>> /\ Len(jobs) = 0 /\ disc = Unknown /\ provisioned = FALSE
      /\ router = Bare /\ host = NoHost /\ ex = Idle /\ meddled = {} /\ faults = 0
  BY DEF Init
<1>2. JobIds = {} /\ Applies = {}
  BY <1>1 DEF JobIds, Applies
<1>3. Present = {}
  BY <1>1 DEF Present, Bare, Resources
<1>4. TypeOK
  <2>1. Unknown \in Contents /\ Bare \in Contents /\ Bare.global # "unknown"
    BY DEF Unknown, Bare, Contents
  <2>2. NoHost \in Hosts
    BY DEF NoHost, Hosts
  <2>3. jobs \in Seq(Jobs) /\ Len(jobs) <= MaxJobs /\ faults \in 0 .. MaxFaults
    BY <1>1, PlanAssumption DEF PlanAssumption
  <2> QED
    BY <1>1, <2>1, <2>2, <2>3, IdleIsTyped DEF TypeOK, ExStates
<1>5. ex.pc = "idle"
  BY <1>1 DEF Idle
<1>6. host.configured = FALSE /\ host.client = FALSE
  BY <1>1, Zenon DEF NoHost
<1>7. host.peer = Absent /\ host.link = "none"
  BY <1>1 DEF NoHost
<1>8. ExecutorInv /\ ReviewedInv
  BY <1>1, <1>2, <1>5 DEF ExecutorInv, ReviewedInv, Applying
<1>9. OwnedInv
  BY <1>3, <1>6, <1>7 DEF OwnedInv, OwnedIsJournaled
<1>10. CleanInv
  BY <1>5 DEF CleanInv, Undoing
<1>11. CompleteInv
  BY <1>1, <1>5 DEF CompleteInv
<1>12. TunnelInv
  <2>1. router.peer = Absent /\ router.wg = Absent
    BY <1>1 DEF Bare
  <2>2. Ends
    BY <1>1, <1>5, <1>6, <2>1 DEF Ends, PastConfigure
  <2>3. ~Apart
    BY <1>6, <2>1 DEF Apart
  <2> QED
    BY <2>2, <2>3, TunnelParts
<1> QED
  BY <1>4, <1>8, <1>9, <1>10, <1>11, <1>12 DEF PlanInv

\* The invariant is inductive.
LEMMA PlanStep == PlanInv /\ [Next]_vars => PlanInv'
<1> SUFFICES ASSUME PlanInv, [Next]_vars
             PROVE  PlanInv'
  OBVIOUS
<1>1. CoreInv
  BY DEF PlanInv, CoreInv
<1>2. CoreInv' /\ Kept
  BY <1>1, CoreStep
<1>3. OwnedInv' /\ CleanInv' /\ CompleteInv' /\ TunnelInv'
  BY <1>1, <1>2, OwnedStep, CleanStep, CompleteStep, TunnelStep DEF PlanInv
<1> QED
  BY <1>2, <1>3 DEF PlanInv, CoreInv

\* The invariant holds throughout.
LEMMA PlanInvariant == Spec => []PlanInv
<1>1. Init => PlanInv
  BY PlanInit
<1>2. PlanInv /\ [Next]_vars => PlanInv'
  BY PlanStep
<1> QED
  BY <1>1, <1>2, PTL DEF Spec

\* Rows, router, node and executor stay in their types: there is a fresh key whenever
\* one is made, and a rollback puts back only a setting that a discovery has seen.
THEOREM RouterPlanTypeCorrect == Spec => []TypeOK
<1>1. PlanInv => TypeOK
  BY DEF PlanInv
<1> QED
  BY <1>1, PlanInvariant, PTL

\* Whatever of FireISP is on the router or on the node is in the journal of a plan,
\* for any number of plans, rollbacks and faults.
THEOREM OwnershipIsJournaled == Spec => []OwnedIsJournaled
<1>1. PlanInv => OwnedIsJournaled
  BY DEF PlanInv, OwnedInv
<1> QED
  BY <1>1, PlanInvariant, PTL

\* A rollback that succeeds leaves nothing that its plan journaled, however often it
\* was interrupted and however the agent and the administrator interfered.
THEOREM RollbacksClean == Spec => RollbackCleans
<1> DEFINE Cleaned ==
      \A j \in 1 .. Len(jobs) :
        jobs[j].kind = "rollback" /\ jobs[j].status = "running" /\ jobs'[j].status = "succeeded" =>
          /\ \A r \in Present : ~Journaled(jobs[j].of, r)
          /\ Journaled(jobs[j].of, "host") => host = NoHost
<1>1. PlanInv /\ [Next]_vars => [Cleaned]_vars
  <2> SUFFICES ASSUME PlanInv, [Next]_vars,
                      NEW j \in JobIds, jobs[j].kind = "rollback", jobs[j].status = "running",
                      jobs'[j].status = "succeeded"
               PROVE  /\ \A r \in Present : ~Journaled(jobs[j].of, r)
                      /\ Journaled(jobs[j].of, "host") => host = NoHost
    BY DEF JobIds
  <2>1. CoreInv /\ CleanInv
    BY DEF PlanInv, CoreInv
  <2>2. Commit /\ j = ex.job
    BY <2>1, OnlyCommitSucceeds
  <2>3. ex.pc = "commit" /\ Undoing
    BY <2>2 DEF Commit, Undoing
  <2>4. ex.at = 0
    BY <2>1, <2>3 DEF CleanInv
  <2>5. \A r \in Present : ~Journaled(jobs[j].of, r)
    <3> SUFFICES ASSUME NEW r \in Present, Journaled(jobs[j].of, r)
                 PROVE  FALSE
      OBVIOUS
    <3>1. Position(r) <= 0
      BY <2>1, <2>2, <2>3, <2>4 DEF CleanInv
    <3> QED
      BY <3>1, Positions DEF Present, Resources
  <2> QED
    BY <2>1, <2>2, <2>3, <2>4, <2>5 DEF CleanInv
<1> QED
  BY <1>1, PlanInvariant, PTL DEF Spec, RollbackCleans

\* With nothing half done, no rollback waits, runs or has failed.
LEMMA NothingHalfDone ==
  ASSUME PlanInv, Unfinished = {}
  PROVE  Settled
<1> SUFFICES ASSUME NEW j \in JobIds, jobs[j].kind = "rollback", jobs[j].status # "succeeded"
             PROVE  FALSE
  BY DEF Settled
<1>1. TypeOK /\ ExecutorInv
  BY DEF PlanInv
<1>2. jobs[j].status \in {"pending", "running", "failed"}
  BY <1>1, StateParts DEF Jobs
<1>3. ~RolledBack(j)
  <2>1. \A k \in JobIds : jobs[k].of = 0 \/ jobs[jobs[k].of].kind = "apply"
    BY <1>1 DEF ExecutorInv, Applies
  <2>2. j # 0
    BY DEF JobIds
  <2> QED
    BY <2>1, <2>2 DEF RolledBack, JobIds
<1>4. j \in Unfinished
  BY <1>2, <1>3 DEF Unfinished, JobIds
<1> QED
  BY <1>4

\* A provisioned router with nothing half done has everything that was not removed by
\* hand, and a tunnel whose ends hold each other's keys.
THEOREM ProvisionedRouterIsComplete == Spec => []ProvisionedIsComplete
<1>1. PlanInv => ProvisionedIsComplete
  <2> SUFFICES ASSUME PlanInv, provisioned, Unfinished = {}
               PROVE  /\ Resources \ Present \subseteq meddled
                      /\ meddled = {} /\ (\A i \in Applies : ~RolledBack(i)) =>
                           /\ host.peer = router.wg /\ host.key = router.peer
                           /\ ~Refused => host.link = "owned" /\ host.client
    BY DEF ProvisionedIsComplete
  <2>0. TypeOK /\ ExecutorInv
    BY DEF PlanInv
  <2>1. Settled
    BY NothingHalfDone
  <2>2. \A r \in Resources : Made(r)
    BY <2>1 DEF PlanInv, CompleteInv, Settled
  <2>3. Resources \ Present \subseteq meddled
    BY <2>2 DEF Made, Present
  <2>4. ASSUME meddled = {}, \A i \in Applies : ~RolledBack(i)
        PROVE  /\ host.peer = router.wg /\ host.key = router.peer
               /\ ~Refused => host.link = "owned" /\ host.client
    <3>1. \A j \in JobIds : jobs[j].kind = "apply"
      <4> SUFFICES ASSUME NEW j \in JobIds, jobs[j].kind # "apply"
                   PROVE  FALSE
        OBVIOUS
      <4>1. jobs[j].kind = "rollback"
        BY <2>0, StateParts DEF Jobs
      <4>2. jobs[j].status = "succeeded" /\ jobs[j].of \in Applies
        BY <2>0, <2>1, <4>1 DEF Settled, ExecutorInv
      <4> QED
        BY <2>4, <4>2 DEF RolledBack, JobIds
    <3>2. \A i \in JobIds : ~WillConfigure(i)
      <4> SUFFICES ASSUME NEW i \in JobIds, WillConfigure(i)
                   PROVE  FALSE
        OBVIOUS
      <4>1. ~RolledBack(i)
        BY <2>4, <3>1 DEF Applies, JobIds
      <4>2. i \in Unfinished
        BY <4>1 DEF Unfinished, WillConfigure, JobIds
      <4> QED
        BY <4>2
    <3>3. Ends /\ ~Apart
      BY <3>1, <3>2, TunnelParts DEF PlanInv, NoRollback
    <3>4. router.wg # Absent /\ router.peer # Absent
      BY <2>2, <2>4 DEF Made, Resources
    <3>5. host.configured
      BY <3>3 DEF Ends
    <3>6. host.peer = router.wg /\ host.key = router.peer
      BY <3>3, <3>4 DEF Ends, Apart
    <3>7. ~Refused => host.link = "owned"
      BY <2>0, <3>3, <3>5, StateParts DEF Ends, Refused
    <3>8. host.client
      BY <3>3, <3>5, Zenon DEF Apart
    <3> QED
      BY <3>6, <3>7, <3>8
  <2> QED
    BY <2>3, <2>4
<1> QED
  BY <1>1, PlanInvariant, PTL
=============================================================================
