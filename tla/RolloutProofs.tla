--------------------------- MODULE RolloutProofs ---------------------------
(***************************************************************************)
(* Theorems about Rollout, for any workers and schedulers, wherever they   *)
(* run, any drain and any number of faults.                                *)
(***************************************************************************)
EXTENDS Rollout, TLAPS

Container ==
  [image : Releases, mode : Modes, next : {"starting", "stopped"}, beaten : BOOLEAN,
   drained : Nat, astray : Nat]

\* The steps of the installer after the local processes were drained.
Committed == {"recheck", "migrate", "name", "up"}

\* What is not stopped was started for the release that is being installed.
Renewed(e) == proc[e].mode = "stopped" \/ proc[e].image = envRelease

\* The schema is never behind the release that is named, nor ahead of the one in
\* .env; from the drain on, and for as long as the named release is an old one, no
\* local container is left that was started for another release.
MixInv ==
  /\ proc \in [Executors -> Container]
  /\ release \in Releases /\ schema \in Releases /\ envRelease \in Releases
  /\ release <= schema /\ schema <= envRelease
  /\ installer \in {"name", "up"} => schema = envRelease
  /\ installer \in Committed \/ release < schema => \A e \in Local : Renewed(e)
  /\ \A e \in Local : Alive(e) => proc[e].image = schema

LEMMA LocalExecutes == Local \subseteq Executors /\ Drain \in Nat
  BY RolloutAssumption DEF RolloutAssumption

LEMMA MixInit == Init => MixInv
  <1>. SUFFICES ASSUME Init PROVE MixInv
    OBVIOUS
  <1>1. \A e \in Executors : proc[e] \in Container
    <2>. TAKE e \in Executors
    <2>1. PICK mode \in {"starting", "stopped"} :
            proc[e] = [image |-> 1, mode |-> mode, next |-> "starting",
                       beaten |-> FALSE, drained |-> 0, astray |-> 0]
      BY DEF Init, Stopped
    <2>. QED
      BY <2>1 DEF Container, Releases, Modes
  <1>2. proc \in [Executors -> Container]
    BY <1>1 DEF Init
  <1>3. \A e \in Local : ~Alive(e)
    BY LocalExecutes DEF Init, Stopped, Alive
  <1>. QED
    BY <1>2, <1>3 DEF Init, MixInv, Releases, Committed

\* What a step of the processes may do to the local containers.
Kept(e) ==
  /\ proc'[e].image = proc[e].image
  /\ proc[e].mode = "stopped" => proc'[e].mode = "stopped"
  /\ Alive(e)' => Alive(e) \/ proc'[e].image = release

\* The installer stands still, goes back, or has not drained yet.
NoCommitment ==
  /\ installer' \in Committed => installer \in Committed
  /\ installer' \in {"name", "up"} => installer \in {"name", "up"}

LEMMA KeptStep ==
  ASSUME MixInv, proc' \in [Executors -> Container], \A e \in Local : Kept(e),
         UNCHANGED <<release, schema, envRelease>>, NoCommitment
  PROVE  MixInv'
  <1>1. ASSUME NEW e \in Local, Alive(e)' PROVE proc'[e].image = schema
    <2>1. CASE Alive(e)
      BY <2>1 DEF Kept, MixInv
    <2>2. CASE proc'[e].image = release /\ release = schema
      BY <2>2
    <2>3. CASE proc'[e].image = release /\ release # schema
      <3>1. release < schema /\ envRelease # release
        BY <2>3 DEF MixInv, Releases
      <3>2. Renewed(e) /\ proc[e].image = release
        BY <2>3, <3>1 DEF Kept, MixInv
      <3>3. proc[e].mode = "stopped"
        BY <3>1, <3>2 DEF Renewed
      <3>. QED
        BY <1>1, <3>3 DEF Kept, Alive
    <2>. QED
      BY <1>1, <2>1, <2>2, <2>3 DEF Kept
  <1>2. ASSUME installer' \in Committed \/ release < schema, NEW e \in Local PROVE Renewed(e)'
    BY <1>2 DEF NoCommitment, MixInv, Renewed, Kept
  <1>. QED
    BY <1>1, <1>2 DEF MixInv, NoCommitment, Alive

\* A container that is put to another mode.
LEMMA PutStep ==
  ASSUME MixInv, NEW e \in Executors, NEW mode \in Modes, Put(e, mode),
         proc[e].mode = "stopped" => mode = "stopped",
         mode \in {"ready", "draining"} => Alive(e) \/ Current(e)
  PROVE  proc' \in [Executors -> Container] /\ \A d \in Local : Kept(d)
  <1>1. /\ proc[e] \in Container
        /\ \A d \in Executors : d # e => proc'[d] = proc[d]
        /\ proc' = [proc EXCEPT ![e] = proc'[e]]
        /\ proc'[e] = [proc[e] EXCEPT !.mode = mode, !.beaten = TRUE, !.drained = 0,
                                     !.astray = IF mode = "ready" THEN @ ELSE 0]
    BY DEF MixInv, Put
  <1>2. /\ proc'[e] \in Container /\ proc'[e].image = proc[e].image /\ proc'[e].mode = mode
    <2>. DEFINE c == proc[e]
    <2>1. c \in Container
      BY <1>1
    <2>2. proc'[e] = [c EXCEPT !.mode = mode, !.beaten = TRUE, !.drained = 0,
                              !.astray = IF mode = "ready" THEN @ ELSE 0]
      BY <1>1
    <2>. HIDE DEF c
    <2>3. PICK astray \in Nat : astray = IF mode = "ready" THEN c.astray ELSE 0
      BY <2>1 DEF Container
    <2>4. proc'[e] = [c EXCEPT !.mode = mode, !.beaten = TRUE, !.drained = 0, !.astray = astray]
      BY <2>2, <2>3
    <2>5. proc'[e] = [image |-> c.image, mode |-> mode, next |-> c.next, beaten |-> TRUE,
                      drained |-> 0, astray |-> astray]
      BY <2>1, <2>4 DEF Container
    <2>6. c.image \in Releases /\ c.next \in {"starting", "stopped"}
      BY <2>1 DEF Container
    <2>7. proc'[e] \in Container
      BY <2>5, <2>6 DEF Container
    <2>8. /\ proc'[e] \in Container /\ proc'[e].image = c.image /\ proc'[e].mode = mode
      BY <2>5, <2>7
    <2>. QED
      BY <2>8 DEF c
  <1>3. proc' \in [Executors -> Container]
    BY <1>1, <1>2 DEF MixInv
  <1>. QED
    BY <1>1, <1>2, <1>3, LocalExecutes DEF Kept, Alive, Current

\* A container that begins to drain, or is stopped.
LEMMA WindStep ==
  ASSUME MixInv, NEW e \in Executors, NEW mode \in {"draining", "stopped"},
         NEW next \in {"starting", "stopped"}, mode = "draining" => Alive(e),
         \/ proc' = [proc EXCEPT ![e].mode = mode, ![e].next = next]
         \/ proc' = [proc EXCEPT ![e].mode = mode]
  PROVE  proc' \in [Executors -> Container] /\ \A d \in Local : Kept(d)
  <1>. DEFINE c == proc[e]
  <1>1. /\ c \in Container
        /\ \A d \in Executors : d # e => proc'[d] = proc[d]
        /\ proc' = [proc EXCEPT ![e] = proc'[e]]
        /\ \/ proc'[e] = [c EXCEPT !.mode = mode, !.next = next]
           \/ proc'[e] = [c EXCEPT !.mode = mode]
    BY DEF MixInv
  <1>. HIDE DEF c
  <1>2. /\ proc'[e] \in Container /\ proc'[e].image = c.image /\ proc'[e].mode = mode
    BY <1>1 DEF Container, Modes
  <1>3. proc' \in [Executors -> Container]
    BY <1>1, <1>2 DEF MixInv
  <1>. QED
    BY <1>1, <1>2, <1>3, LocalExecutes DEF Kept, Alive, c

\* compose up starts what is not at work, for the release in .env.
LEMMA ComposeStep ==
  ASSUME MixInv, ComposeUp, UNCHANGED <<release, schema, envRelease>>, NoCommitment
  PROVE  MixInv'
  <1>1. ASSUME NEW e \in Executors PROVE proc'[e] \in Container
    <2>. DEFINE c == proc[e]
    <2>1. c \in Container /\ envRelease \in Releases
      BY DEF MixInv
    <2>2. proc'[e] = c \/ proc'[e] = [c EXCEPT !.image = envRelease, !.mode = "starting"]
      BY DEF ComposeUp
    <2>. HIDE DEF c
    <2>. QED
      BY <2>1, <2>2 DEF Container, Modes
  <1>2. proc' \in [Executors -> Container]
    BY <1>1 DEF ComposeUp
  <1>3. ASSUME NEW e \in Local
        PROVE  \/ proc'[e] = proc[e] /\ proc[e].mode \notin {"stopped", "starting"}
               \/ proc'[e].image = envRelease /\ proc'[e].mode = "starting"
    <2>1. e \in Executors /\ proc[e] \in Container
      BY LocalExecutes DEF MixInv
    <2>. QED
      BY <2>1 DEF ComposeUp, Container
  <1>4. ASSUME NEW e \in Local, Alive(e)' PROVE proc'[e].image = schema
    BY <1>3, <1>4 DEF MixInv, Alive
  <1>5. ASSUME installer' \in Committed \/ release < schema, NEW e \in Local PROVE Renewed(e)'
    BY <1>3, <1>5 DEF NoCommitment, MixInv, Renewed
  <1>. QED
    BY <1>2, <1>4, <1>5 DEF MixInv, NoCommitment, Alive

LEMMA MixNext == MixInv /\ [Next]_vars => MixInv'
  <1>. SUFFICES ASSUME MixInv, [Next]_vars PROVE MixInv'
    OBVIOUS
  <1>. USE DEF cluster
  <1>1. ASSUME UNCHANGED <<proc, release, schema, envRelease>>, NoCommitment PROVE MixInv'
    BY <1>1, KeptStep DEF MixInv, Kept, Alive
  <1>2. ASSUME NEW e \in Executors, StartWorker(e) \/ Lead(e) \/ Beat(e) PROVE MixInv'
    <2>1. Put(e, "ready") /\ Current(e) /\ proc[e].mode # "stopped"
      BY <1>2 DEF StartWorker, Lead, Beat, Heartbeat
    <2>. QED
      BY <1>2, <2>1, PutStep, KeptStep DEF StartWorker, Lead, Beat, NoCommitment, Modes
  <1>3. ASSUME NEW e \in Executors, StandBy(e) PROVE MixInv'
    BY <1>3, PutStep, KeptStep DEF StandBy, NoCommitment, Modes
  <1>4. ASSUME NEW e \in Executors, StandByRefused(e) PROVE MixInv'
    BY <1>4, PutStep, KeptStep DEF StandByRefused, NoCommitment, Modes
  <1>5. ASSUME NEW e \in Executors, LoopEnds(e) \/ BeatFails(e) PROVE MixInv'
    <2>1. Alive(e) /\ proc' = [proc EXCEPT ![e].mode = "draining", ![e].next = "starting"]
      BY <1>5 DEF LoopEnds, BeatFails, Alive
    <2>. QED
      BY <1>5, <2>1, WindStep, KeptStep DEF LoopEnds, BeatFails, NoCommitment
  <1>6. ASSUME NEW e \in Executors, EndDrain(e) \/ Die(e) PROVE MixInv'
    <2>1. PICK mode \in {"starting", "stopped"} : Put(e, mode)
      BY <1>6 DEF EndDrain, Die, MixInv, Container
    <2>2. proc[e].mode # "stopped"
      BY <1>6 DEF EndDrain, Die
    <2>. QED
      BY <1>6, <2>1, <2>2, PutStep, KeptStep DEF EndDrain, Die, NoCommitment, Modes
  <1>7. ASSUME NEW e \in Executors, Stop(e)
        PROVE  proc' \in [Executors -> Container] /\ \A d \in Local : Kept(d)
    BY <1>7, WindStep DEF Stop
  <1>8. ASSUME NEW e \in Executors, StopRemote(e) PROVE MixInv'
    BY <1>7, <1>8, KeptStep DEF StopRemote, NoCommitment
  <1>9. ASSUME NEW e \in Executors, NEW r \in Releases, InstallRemote(e, r) PROVE MixInv'
    <2>. DEFINE c == proc[e]
    <2>1. /\ c \in Container /\ e \notin Local
          /\ \A d \in Executors : d # e => proc'[d] = proc[d]
          /\ proc' = [proc EXCEPT ![e] = proc'[e]]
          /\ proc'[e] = [c EXCEPT !.image = r, !.mode = "starting"]
      BY <1>9 DEF InstallRemote, MixInv
    <2>. HIDE DEF c
    <2>2. proc'[e] \in Container
      BY <2>1 DEF Container, Modes
    <2>3. proc' \in [Executors -> Container]
      BY <2>1, <2>2 DEF MixInv
    <2>4. \A d \in Local : Kept(d)
      BY <2>1, LocalExecutes DEF Kept, Alive
    <2>. QED
      BY <1>9, <2>3, <2>4, KeptStep DEF InstallRemote, NoCommitment
  <1>10. CASE SessionLost \/ UNCHANGED vars
    BY <1>1, <1>10 DEF SessionLost, vars, NoCommitment
  <1>11. ASSUME NEW r \in Releases, Begin(r) PROVE MixInv'
    <2>1. /\ installer' = "check" /\ UNCHANGED <<release, schema, proc>>
          /\ envRelease' = r /\ r >= schema
      BY <1>11 DEF Begin, Step
    <2>2. release < schema => envRelease' = envRelease
      BY <2>1 DEF MixInv, Releases
    <2>. QED
      BY <2>1, <2>2 DEF MixInv, Releases, Committed, Renewed, Alive
  <1>12. CASE Check("check", "drain") \/ Check("recheck", "migrate") \/ Abort
    BY <1>1, <1>12 DEF Check, Abort, NoCommitment, Committed
  <1>13. CASE DrainLocal
    <2>1. CASE Present = {} /\ installer' = "recheck" /\ UNCHANGED proc
      <3>1. \A e \in Local : proc[e].mode = "stopped"
        BY <2>1 DEF Present
      <3>. QED
        BY <1>13, <2>1, <3>1 DEF DrainLocal, MixInv, Renewed, Alive
    <2>2. CASE \E e \in Present : Stop(e) /\ UNCHANGED installer
      BY <1>7, <1>13, <2>2, KeptStep, LocalExecutes DEF DrainLocal, Present, NoCommitment
    <2>. QED
      BY <1>13, <2>1, <2>2 DEF DrainLocal
  <1>14. CASE Migrate
    <2>1. /\ installer = "migrate" /\ installer' = "name" /\ schema' = envRelease
          /\ UNCHANGED <<release, envRelease, proc>>
      BY <1>14 DEF Migrate, Step
    <2>2. \A e \in Local : Renewed(e)
      BY <2>1 DEF MixInv, Committed
    <2>3. \A e \in Local : Alive(e) => proc[e].image = envRelease
      BY <2>2 DEF Renewed, Alive
    <2>. QED
      BY <2>1, <2>2, <2>3 DEF MixInv, Releases, Renewed, Alive
  <1>15. CASE SetRelease
    <2>1. /\ installer = "name" /\ installer' = "up" /\ release' = envRelease
          /\ UNCHANGED <<schema, envRelease, proc>>
      BY <1>15 DEF SetRelease, Step
    <2>. QED
      BY <2>1 DEF MixInv, Releases, Committed, Renewed, Alive
  <1>16. CASE Up \/ UpByHand
    BY <1>16, ComposeStep DEF Up, UpByHand, Step, NoCommitment, Committed
  <1>17. CASE Tick
    <2>1. ASSUME NEW e \in Executors
          PROVE  /\ proc'[e] \in Container
                 /\ proc'[e].image = proc[e].image /\ proc'[e].mode = proc[e].mode
      <3>. DEFINE c == proc[e]
                  drained == IF c.mode = "draining" THEN c.drained + 1 ELSE 0
                  astray == IF Astray(e) THEN Min({c.astray + 1, Drain + 2}) ELSE 0
      <3>1. c \in Container
        BY DEF MixInv
      <3>2. drained \in Nat
        BY <3>1 DEF Container
      <3>3. \A a, b \in Nat : Min({a, b}) \in Nat
        BY DEF Min
      <3>4. astray \in Nat
        BY <3>1, <3>3, LocalExecutes DEF Container
      <3>5. proc'[e] = [c EXCEPT !.beaten = FALSE, !.drained = drained, !.astray = astray]
        BY <1>17 DEF Tick
      <3>. HIDE DEF c, drained, astray
      <3>6. /\ proc'[e] \in Container
            /\ proc'[e].image = c.image /\ proc'[e].mode = c.mode
        BY <3>1, <3>2, <3>4, <3>5 DEF Container
      <3>. QED
        BY <3>6 DEF c
    <2>2. proc' \in [Executors -> Container]
      BY <1>17, <2>1 DEF Tick
    <2>3. \A e \in Local : Kept(e)
      BY <2>1, LocalExecutes DEF Kept, Alive
    <2>. QED
      BY <1>17, <2>2, <2>3, KeptStep DEF Tick, NoCommitment
  <1>. QED
    BY <1>2, <1>3, <1>4, <1>5, <1>6, <1>8, <1>9, <1>10, <1>11, <1>12, <1>13, <1>14, <1>15,
       <1>16, <1>17 DEF Next, Process

\* Whatever is restarted, started by hand or given up half way, no process of the
\* main server works on a schema of another release (drain_local_executors,
\* validate_release).
THEOREM LocalIsNeverMixed == Spec => []LocalNeverMixed
  <1>1. MixInv => LocalNeverMixed
    BY DEF MixInv, LocalNeverMixed
  <1>. QED
    BY <1>1, MixInit, MixNext, PTL DEF Spec

-----------------------------------------------------------------------------
(* How long a process works without a right to it.                         *)

\* A process at work was let through by the release that was named, and no older
\* one is named after it; one turn after it went astray it has not beaten, and
\* beats no more; a drain counts from nothing, up to what it may take.
Timely(e) ==
  /\ ~Alive(e) => proc[e].astray = 0
  /\ proc[e].mode # "draining" => proc[e].drained = 0
  /\ Alive(e) => proc[e].image <= release
  /\ proc[e].mode = "ready" => /\ proc[e].beaten => proc[e].astray = 0
                               /\ proc[e].astray <= 1
                               /\ proc[e].astray > 0 => Astray(e)
  /\ proc[e].mode = "draining" => /\ proc[e].drained <= DrainOf(e)
                                  /\ proc[e].astray <= 1 + proc[e].drained

AstrayInv == MixInv /\ \A e \in Executors : Timely(e)

\* The least of two numbers.
LEMMA LeastOfTwo ==
  ASSUME NEW a \in Nat, NEW b \in Nat
  PROVE  Min({a, b}) \in Nat /\ Min({a, b}) <= a /\ Min({a, b}) <= b
  <1>1. \E x \in {a, b} : \A y \in {a, b} : x <= y
    OBVIOUS
  <1>2. Min({a, b}) \in {a, b} /\ \A y \in {a, b} : Min({a, b}) <= y
    BY <1>1, Zenon DEF Min
  <1>. QED
    BY <1>2

\* A drain takes a number of ticks.
LEMMA DrainIsNatural == ASSUME NEW e \in Executors PROVE DrainOf(e) \in Nat
  BY RolloutAssumption DEF RolloutAssumption, DrainOf

\* A container that nothing happens to, while another takes the lock or a release
\* is named.
LEMMA UntouchedTimely ==
  ASSUME MixInv, NEW e \in Executors, Timely(e), proc'[e] = proc[e],
         release' \in Releases, release <= release', lock' # e \/ lock = e
  PROVE  Timely(e)'
  <1>1. proc[e] \in Container /\ proc[e].image \in Releases
    BY DEF MixInv, Container
  <1>2. Alive(e)' <=> Alive(e)
    BY DEF Alive
  <1>3. Alive(e) => proc[e].image <= release'
    BY <1>1 DEF Timely, Releases, MixInv
  <1>4. proc[e].mode = "ready" /\ Astray(e) => Astray(e)'
    <2>. SUFFICES ASSUME proc[e].mode = "ready", Astray(e) PROVE Astray(e)'
      OBVIOUS
    <2>1. Alive(e)
      BY DEF Alive
    <2>2. CASE proc[e].image # release
      BY <1>1, <1>2, <2>1, <2>2 DEF Timely, Releases, MixInv, Astray, Current
    <2>3. CASE e \in Schedulers /\ lock # e
      BY <1>2, <2>1, <2>3 DEF Astray
    <2>. QED
      BY <2>2, <2>3 DEF Astray, Current
  <1>. QED
    BY <1>2, <1>3, <1>4 DEF Timely

\* What is put to a mode.
LEMMA PutParts ==
  ASSUME MixInv, NEW e \in Executors, NEW mode \in Modes, Put(e, mode)
  PROVE  /\ \A d \in Executors : d # e => proc'[d] = proc[d]
         /\ proc'[e].mode = mode /\ proc'[e].image = proc[e].image /\ proc'[e].drained = 0
         /\ proc'[e].astray = IF mode = "ready" THEN proc[e].astray ELSE 0
  <1>. DEFINE c == proc[e]
              astray == IF mode = "ready" THEN c.astray ELSE 0
  <1>1. /\ c \in Container
        /\ \A d \in Executors : d # e => proc'[d] = proc[d]
        /\ proc'[e] = [c EXCEPT !.mode = mode, !.beaten = TRUE, !.drained = 0, !.astray = astray]
    BY DEF MixInv, Put
  <1>. HIDE DEF c, astray
  <1>2. /\ proc'[e].mode = mode /\ proc'[e].image = c.image /\ proc'[e].drained = 0
        /\ proc'[e].astray = astray
    BY <1>1 DEF Container
  <1>. QED
    BY <1>1, <1>2 DEF c, astray

\* What is put to rest counts from nothing, and so does what starts to work.
LEMMA PutTimely ==
  ASSUME AstrayInv, NEW e \in Executors, NEW mode \in Modes \ {"draining"}, Put(e, mode),
         UNCHANGED release, \A d \in Executors : lock' # d \/ lock = d \/ d = e,
         mode = "ready" => /\ Current(e)
                           /\ ~Alive(e) \/ (proc[e].mode = "ready" /\ ~Astray(e))
  PROVE  \A d \in Executors : Timely(d)'
  <1>1. /\ \A d \in Executors : d # e => proc'[d] = proc[d]
        /\ proc'[e].mode = mode /\ proc'[e].image = proc[e].image /\ proc'[e].drained = 0
        /\ proc'[e].astray = IF mode = "ready" THEN proc[e].astray ELSE 0
    BY PutParts DEF AstrayInv
  <1>2. proc[e].astray \in Nat /\ proc[e].image \in Releases /\ release \in Releases
    BY DEF AstrayInv, MixInv, Container
  <1>3. mode = "ready" => proc[e].astray = 0 /\ proc[e].image <= release
    <2>1. mode = "ready" => proc[e].astray = 0
      BY <1>2 DEF AstrayInv, Timely
    <2>2. Current(e) => proc[e].image <= release
      BY <1>2 DEF Current, Releases
    <2>. QED
      BY <2>1, <2>2
  <1>4. proc'[e].astray = 0
    BY <1>1, <1>3
  <1>5. Alive(e)' => mode = "ready"
    BY <1>1 DEF Alive
  <1>6. Timely(e)'
    BY <1>1, <1>3, <1>4, <1>5 DEF Timely
  <1>7. ASSUME NEW d \in Executors, d # e PROVE Timely(d)'
    <2>1. proc'[d] = proc[d] /\ (lock' # d \/ lock = d) /\ MixInv /\ Timely(d)
          /\ release' \in Releases /\ release <= release'
      BY <1>1, <1>2, <1>7 DEF AstrayInv, Releases
    <2>. QED
      BY <2>1, UntouchedTimely
  <1>. QED
    BY <1>6, <1>7

\* A process at work begins to drain; any other is stopped as it is.
LEMMA WindTimely ==
  ASSUME AstrayInv, NEW e \in Executors, NEW mode \in {"draining", "stopped"},
         NEW next \in {"starting", "stopped"}, UNCHANGED <<release, lock>>,
         mode = "draining" <=> Alive(e),
         \/ proc' = [proc EXCEPT ![e].mode = mode, ![e].next = next]
         \/ proc' = [proc EXCEPT ![e].mode = mode]
  PROVE  \A d \in Executors : Timely(d)'
  <1>. DEFINE c == proc[e]
  <1>1. /\ c \in Container
        /\ \A d \in Executors : d # e => proc'[d] = proc[d]
        /\ \/ proc'[e] = [c EXCEPT !.mode = mode, !.next = next]
           \/ proc'[e] = [c EXCEPT !.mode = mode]
    BY DEF AstrayInv, MixInv
  <1>. HIDE DEF c
  <1>2. /\ proc'[e].mode = mode /\ proc'[e].image = c.image /\ proc'[e].drained = c.drained
        /\ proc'[e].astray = c.astray /\ c.astray \in Nat /\ c.drained \in Nat
        /\ c.mode \in Modes
    BY <1>1 DEF Container
  <1>3. Timely(e)'
    <2>0. Timely(e) /\ DrainOf(e) \in Nat
      BY DrainIsNatural DEF AstrayInv
    <2>1. CASE mode = "draining"
      <3>1. c.mode \in {"ready", "draining"} /\ proc[e].image <= release
        BY <2>0, <2>1 DEF Alive, Timely, c
      <3>2. c.mode = "ready" => c.drained = 0 /\ c.astray <= 1
        BY <2>0 DEF Timely, c
      <3>3. c.mode = "draining" => c.drained <= DrainOf(e) /\ c.astray <= 1 + c.drained
        BY <2>0 DEF Timely, c
      <3>4. c.drained <= DrainOf(e) /\ c.astray <= 1 + c.drained
        BY <1>2, <2>0, <3>1, <3>2, <3>3
      <3>5. proc'[e].image <= release'
        BY <1>2, <3>1 DEF c
      <3>6. proc'[e].drained <= DrainOf(e) /\ proc'[e].astray <= 1 + proc'[e].drained
        BY <1>2, <3>4
      <3>. QED
        BY <1>2, <2>1, <3>5, <3>6 DEF Timely, Alive
    <2>2. CASE mode = "stopped"
      <3>1. c.mode # "draining" /\ c.astray = 0 /\ c.drained = 0
        BY <2>0, <2>2 DEF Alive, Timely, c
      <3>. QED
        BY <1>2, <2>2, <3>1 DEF Timely, Alive
    <2>. QED
      BY <2>1, <2>2
  <1>4. ASSUME NEW d \in Executors, d # e PROVE Timely(d)'
    <2>1. proc'[d] = proc[d] /\ MixInv /\ Timely(d) /\ release' \in Releases
          /\ release <= release' /\ lock' = lock
      BY <1>1, <1>4 DEF AstrayInv, MixInv, Releases
    <2>. QED
      BY <2>1, UntouchedTimely
  <1>. QED
    BY <1>3, <1>4

\* What is not at work starts with another image, and counts nothing.
LEMMA RestartTimely ==
  ASSUME AstrayInv, NEW e \in Executors, Timely(e), proc[e].mode \in {"stopped", "starting"},
         NEW r \in Releases, proc'[e] = [proc[e] EXCEPT !.image = r, !.mode = "starting"]
  PROVE  Timely(e)'
  <1>. DEFINE c == proc[e]
  <1>1. c \in Container /\ proc'[e] = [c EXCEPT !.image = r, !.mode = "starting"]
    BY DEF AstrayInv, MixInv
  <1>2. c.astray = 0 /\ c.drained = 0
    BY DEF Timely, Alive
  <1>. HIDE DEF c
  <1>3. proc'[e].mode = "starting" /\ proc'[e].astray = 0 /\ proc'[e].drained = 0
    BY <1>1, <1>2 DEF Container
  <1>. QED
    BY <1>3 DEF Timely, Alive

LEMMA AstrayInit == Init => AstrayInv
  <1>. SUFFICES ASSUME Init PROVE AstrayInv
    OBVIOUS
  <1>1. ASSUME NEW e \in Executors PROVE Timely(e)
    <2>1. PICK mode \in {"starting", "stopped"} :
            proc[e] = [image |-> 1, mode |-> mode, next |-> "starting",
                       beaten |-> FALSE, drained |-> 0, astray |-> 0]
      BY DEF Init, Stopped
    <2>. QED
      BY <2>1 DEF Timely, Alive
  <1>. QED
    BY <1>1, MixInit DEF AstrayInv

\* Time passes: a process at work has had its turn, one that drains has time left.
LEMMA TickTimely ==
  ASSUME AstrayInv, Tick, NEW e \in Executors
  PROVE  Timely(e)'
  <1>. DEFINE c == proc[e]
              drained == IF c.mode = "draining" THEN c.drained + 1 ELSE 0
              astray == IF Astray(e) THEN Min({c.astray + 1, Drain + 2}) ELSE 0
  <1>1. c \in Container /\ c.astray \in Nat /\ c.drained \in Nat /\ Drain \in Nat
    BY LocalExecutes DEF AstrayInv, MixInv, Container
  <1>2. astray \in Nat /\ astray <= c.astray + 1
    <2>1. c.astray + 1 \in Nat /\ Drain + 2 \in Nat
      BY <1>1
    <2>. HIDE DEF c
    <2>. QED
      BY <1>1, <2>1, LeastOfTwo
  <1>3. proc'[e] = [c EXCEPT !.beaten = FALSE, !.drained = drained, !.astray = astray]
    BY DEF Tick
  <1>4. UNCHANGED <<release, lock>>
    BY DEF Tick, cluster
  <1>5. /\ c.mode = "ready" => c.beaten /\ c.astray = 0
        /\ c.mode = "draining" => c.drained < DrainOf(e) /\ c.astray <= 1 + c.drained
        /\ Alive(e) => c.image <= release
        /\ DrainOf(e) \in Nat
    BY DrainIsNatural DEF Tick, AstrayInv, Timely
  <1>6. drained \in Nat /\ (c.mode # "draining" => drained = 0)
        /\ (c.mode = "draining" => drained = c.drained + 1)
    BY <1>1
  <1>7. astray > 0 => Astray(e)
    OBVIOUS
  <1>8. ~Alive(e) => astray = 0
    BY DEF Astray
  <1>. HIDE DEF c, drained, astray
  <1>9. /\ proc'[e].mode = c.mode /\ proc'[e].image = c.image /\ proc'[e].beaten = FALSE
        /\ proc'[e].drained = drained /\ proc'[e].astray = astray
    BY <1>1, <1>3, <1>6, <1>2 DEF Container
  <1>10. (Alive(e)' <=> Alive(e)) /\ (Astray(e)' <=> Astray(e))
    <2>1. proc[e].mode = c.mode /\ proc[e].image = c.image
      BY DEF c
    <2>. QED
      BY <1>4, <1>9, <2>1 DEF Alive, Astray, Current
  <1>11. c.mode = "ready" => astray <= 1
    BY <1>2, <1>5, <1>1
  <1>12. c.mode = "draining" => drained <= DrainOf(e) /\ astray <= 1 + drained
    BY <1>1, <1>2, <1>5, <1>6
  <1>. QED
    BY <1>4, <1>5, <1>6, <1>7, <1>8, <1>9, <1>10, <1>11, <1>12 DEF Timely

LEMMA AstrayNext == AstrayInv /\ [Next]_vars => AstrayInv'
  <1>. SUFFICES ASSUME AstrayInv, [Next]_vars PROVE AstrayInv'
    OBVIOUS
  <1>. USE DEF cluster
  <1>0. MixInv /\ MixInv' /\ \A e \in Executors : Timely(e)
    BY MixNext DEF AstrayInv
  <1>. SUFFICES \A e \in Executors : Timely(e)'
    BY <1>0 DEF AstrayInv
  <1>1. ASSUME UNCHANGED proc, release <= release',
               \A e \in Executors : lock' # e \/ lock = e
        PROVE  \A e \in Executors : Timely(e)'
    BY <1>0, <1>1, UntouchedTimely DEF MixInv
  <1>2. release <= release
    BY <1>0 DEF MixInv, Releases
  <1>3. NONE \notin Executors /\ Workers \intersect Schedulers = {}
    BY RolloutAssumption DEF RolloutAssumption
  <1>4. ASSUME NEW e \in Executors, StartWorker(e) PROVE \A d \in Executors : Timely(d)'
    BY <1>4, PutTimely DEF StartWorker, Heartbeat, Modes, Alive
  <1>5. ASSUME NEW e \in Executors, Lead(e) PROVE \A d \in Executors : Timely(d)'
    BY <1>5, PutTimely DEF Lead, Heartbeat, Modes, Alive
  <1>6. ASSUME NEW e \in Executors, Beat(e) PROVE \A d \in Executors : Timely(d)'
    <2>1. proc[e].mode = "ready" /\ Current(e) /\ ~Astray(e)
      BY <1>6 DEF Beat, Heartbeat, Astray
    <2>. QED
      BY <1>6, <2>1, PutTimely DEF Beat, Modes
  <1>7. ASSUME NEW e \in Executors, StandBy(e) \/ StandByRefused(e)
        PROVE  \A d \in Executors : Timely(d)'
    BY <1>7, PutTimely DEF StandBy, StandByRefused, Modes
  <1>8. ASSUME NEW e \in Executors, LoopEnds(e) \/ BeatFails(e)
        PROVE  \A d \in Executors : Timely(d)'
    <2>1. Alive(e) /\ proc' = [proc EXCEPT ![e].mode = "draining", ![e].next = "starting"]
      BY <1>8 DEF LoopEnds, BeatFails, Alive
    <2>. QED
      BY <1>8, <2>1, WindTimely DEF LoopEnds, BeatFails
  <1>9. ASSUME NEW e \in Executors, EndDrain(e) \/ Die(e) PROVE \A d \in Executors : Timely(d)'
    <2>1. PICK mode \in {"starting", "stopped"} : Put(e, mode)
      BY <1>0, <1>9 DEF EndDrain, Die, MixInv, Container
    <2>2. \A d \in Executors : lock' # d \/ lock = d \/ d = e
      BY <1>3, <1>9 DEF EndDrain, Die
    <2>. QED
      BY <1>9, <2>1, <2>2, PutTimely DEF EndDrain, Die, Modes
  <1>10. ASSUME NEW e \in Executors, Stop(e), UNCHANGED release
         PROVE  \A d \in Executors : Timely(d)'
    BY <1>10, WindTimely DEF Stop
  <1>11. ASSUME NEW e \in Executors, StopRemote(e) PROVE \A d \in Executors : Timely(d)'
    BY <1>10, <1>11 DEF StopRemote
  <1>12. ASSUME NEW e \in Executors, NEW r \in Releases, InstallRemote(e, r)
         PROVE  \A d \in Executors : Timely(d)'
    <2>1. /\ proc[e].mode \in {"stopped", "starting"} /\ UNCHANGED <<release, lock>>
          /\ proc'[e] = [proc[e] EXCEPT !.image = r, !.mode = "starting"]
          /\ \A d \in Executors : d # e => proc'[d] = proc[d]
      BY <1>0, <1>12 DEF InstallRemote, MixInv
    <2>2. Timely(e)'
      BY <1>0, <2>1, RestartTimely
    <2>3. \A d \in Executors : d # e => Timely(d)'
      BY <1>0, <1>2, <2>1, UntouchedTimely DEF MixInv
    <2>. QED
      BY <2>2, <2>3
  <1>13. CASE SessionLost
    BY <1>1, <1>2, <1>3, <1>13 DEF SessionLost
  <1>14. CASE \/ UNCHANGED vars \/ \E r \in Releases : Begin(r)
              \/ Check("check", "drain") \/ Check("recheck", "migrate") \/ Migrate \/ Abort
    BY <1>1, <1>2, <1>14 DEF vars, Begin, Check, Migrate, Abort
  <1>15. CASE DrainLocal
    <2>1. CASE UNCHANGED <<proc, lock>>
      BY <1>1, <1>2, <1>15, <2>1 DEF DrainLocal
    <2>2. CASE \E e \in Present : Stop(e)
      BY <1>10, <1>15, <2>2, LocalExecutes DEF DrainLocal, Present
    <2>. QED
      BY <1>15, <2>1, <2>2 DEF DrainLocal
  <1>16. CASE SetRelease
    <2>1. release' = envRelease /\ UNCHANGED <<proc, lock>>
      BY <1>16 DEF SetRelease
    <2>2. release <= envRelease
      BY <1>0 DEF MixInv, Releases
    <2>. QED
      BY <1>1, <2>1, <2>2
  <1>17. CASE Up \/ UpByHand
    <2>1. ComposeUp /\ UNCHANGED <<release, lock>>
      BY <1>17 DEF Up, UpByHand, ComposeUp
    <2>2. ASSUME NEW e \in Executors PROVE Timely(e)'
      <3>1. CASE proc'[e] = proc[e]
        BY <1>0, <1>2, <2>1, <3>1, UntouchedTimely DEF MixInv
      <3>2. CASE /\ proc[e].mode \in {"stopped", "starting"}
                 /\ proc'[e] = [proc[e] EXCEPT !.image = envRelease, !.mode = "starting"]
        BY <1>0, <3>2, RestartTimely DEF MixInv
      <3>. QED
        BY <2>1, <3>1, <3>2 DEF ComposeUp
    <2>. QED
      BY <2>2
  <1>18. CASE Tick
    BY <1>18, TickTimely
  <1>. QED
    BY <1>4, <1>5, <1>6, <1>7, <1>8, <1>9, <1>11, <1>12, <1>13, <1>14, <1>15, <1>16, <1>17,
       <1>18 DEF Next, Process

\* Two schedulers overlap, and two releases work, for no longer than one turn and
\* a drain, whichever heartbeats fail, sessions are lost and processes die
\* (runtime.py supervise).
THEOREM AstrayIsNoticed == Spec => []AstrayIsShort
  <1>1. AstrayInv => AstrayIsShort
    <2>. SUFFICES ASSUME AstrayInv, NEW e \in Executors
                  PROVE  proc[e].astray <= 1 + DrainOf(e)
      BY DEF AstrayIsShort
    <2>1. Timely(e) /\ proc[e].astray \in Nat /\ proc[e].drained \in Nat /\ DrainOf(e) \in Nat
      BY DrainIsNatural DEF AstrayInv, MixInv, Container
    <2>. QED
      BY <2>1 DEF Timely, Alive
  <1>. QED
    BY <1>1, AstrayInit, AstrayNext, PTL DEF Spec

-----------------------------------------------------------------------------
(* Types.                                                                  *)

Row == [status : {"ready", "standby", "failed", "stopped"}, age : 0 .. Fresh + 1]

\* What MixInv does not type.
RestInv ==
  /\ installer \in {"idle", "check", "drain", "recheck", "migrate", "name", "up"}
  /\ registry \in [Executors -> Row]
  /\ lock \in Schedulers \union {NONE} /\ faults \in 0 .. MaxFaults

\* The bounds of the model.
LEMMA BoundsAreNatural == Fresh \in Nat /\ MaxFaults \in Nat
  BY RolloutAssumption DEF RolloutAssumption

\* At first nothing runs.
LEMMA RestInit == Init => RestInv
  <1>1. [status |-> "stopped", age |-> Fresh + 1] \in Row
    BY BoundsAreNatural DEF Row
  <1>. QED
    BY <1>1, BoundsAreNatural DEF Init, RestInv

\* A row that is written, and rows that grow older.
LEMMA RowsTyped ==
  ASSUME registry \in [Executors -> Row]
  PROVE  /\ \A e \in Executors, status \in {"ready", "standby", "failed", "stopped"} :
              Heartbeat(e, status) => registry' \in [Executors -> Row]
         /\ [e \in Executors |-> [registry[e] EXCEPT !.age = Min({@ + 1, Fresh + 1})]]
              \in [Executors -> Row]
  <1>1. \A status \in {"ready", "standby", "failed", "stopped"} :
          [status |-> status, age |-> 0] \in Row
    BY BoundsAreNatural DEF Row
  <1>2. \A e \in Executors, status \in {"ready", "standby", "failed", "stopped"} :
          Heartbeat(e, status) => registry' \in [Executors -> Row]
    BY <1>1 DEF Heartbeat
  <1>3. ASSUME NEW e \in Executors
        PROVE  [registry[e] EXCEPT !.age = Min({@ + 1, Fresh + 1})] \in Row
    <2>1. registry[e] \in Row
      OBVIOUS
    <2>2. registry[e].age \in Nat
      BY <2>1, BoundsAreNatural DEF Row
    <2>3. /\ Min({registry[e].age + 1, Fresh + 1}) \in Nat
          /\ Min({registry[e].age + 1, Fresh + 1}) <= Fresh + 1
      BY <2>2, BoundsAreNatural, LeastOfTwo
    <2>4. Min({registry[e].age + 1, Fresh + 1}) \in 0 .. Fresh + 1
      BY <2>3, BoundsAreNatural
    <2>. HIDE DEF Row
    <2>5. PICK age \in 0 .. Fresh + 1 : age = Min({registry[e].age + 1, Fresh + 1})
      BY <2>4
    <2>. QED
      BY <2>1, <2>5 DEF Row
  <1>. QED
    BY <1>2, <1>3

\* Every step keeps them.
LEMMA RestNext == RestInv /\ [Next]_vars => RestInv'
  <1>. SUFFICES ASSUME RestInv, [Next]_vars PROVE RestInv'
    OBVIOUS
  <1>1. registry \in [Executors -> Row]
    BY DEF RestInv
  <1>2. Slip => faults' \in 0 .. MaxFaults
    BY BoundsAreNatural DEF Slip, RestInv
  <1>3. Schedulers \subseteq Executors
    BY DEF Executors
  <1>4. ASSUME NEW e \in Executors, Process(e) \/ EndDrain(e)
        PROVE  RestInv'
    <2>1. registry' \in [Executors -> Row]
      <3>1. UNCHANGED registry \/ \E status \in {"ready", "standby", "failed", "stopped"} : Heartbeat(e, status)
        BY <1>4 DEF Process, StartWorker, Lead, StandBy, StandByRefused, Beat, LoopEnds, EndDrain
      <3>. QED
        BY <1>1, <3>1, RowsTyped
    <2>2. lock' \in Schedulers \union {NONE} /\ UNCHANGED <<installer, faults>>
      BY <1>4 DEF RestInv, Process, StartWorker, Lead, StandBy, StandByRefused, Beat, LoopEnds,
                  EndDrain
    <2>. QED
      BY <2>1, <2>2 DEF RestInv
  <1>5. ASSUME NEW e \in Executors, Die(e) \/ BeatFails(e) \/ StopRemote(e)
        PROVE  RestInv'
    BY <1>2, <1>5 DEF RestInv, Die, BeatFails, StopRemote, Stop
  <1>6. ASSUME NEW e \in Executors, NEW r \in Releases, InstallRemote(e, r)
        PROVE  RestInv'
    BY <1>6 DEF RestInv, InstallRemote
  <1>7. CASE SessionLost \/ UpByHand \/ Abort \/ \E r \in Releases : Begin(r)
    BY <1>2, <1>7 DEF RestInv, SessionLost, UpByHand, ComposeUp, Abort, Begin, Step
  <1>8. CASE Check("check", "drain") \/ Check("recheck", "migrate") \/ Migrate \/ SetRelease \/ Up
    BY <1>8 DEF RestInv, Check, Migrate, SetRelease, Up, ComposeUp, Step
  <1>9. CASE DrainLocal
    BY <1>9 DEF RestInv, DrainLocal, Stop
  <1>10. CASE Tick
    BY <1>1, <1>10, RowsTyped DEF RestInv, Tick
  <1>11. CASE UNCHANGED vars
    BY <1>11 DEF RestInv, vars
  <1>. QED
    BY <1>4, <1>5, <1>6, <1>7, <1>8, <1>9, <1>10, <1>11 DEF Next

\* The rows, the containers and the installer's steps are of their types, a drain takes
\* no longer than it may and no process is astray for longer than a drain and two turns
\* (core/models.py RuntimeNode, runtime.py supervise).
THEOREM RolloutTypeCorrect == Spec => []TypeOK
  <1>1. ASSUME AstrayInv, RestInv
        PROVE  TypeOK
    <2>1. ASSUME NEW e \in Executors
          PROVE  proc[e].drained \in 0 .. Drain /\ proc[e].astray \in 0 .. Drain + 2
      <3>1. /\ Timely(e) /\ proc[e].astray \in Nat /\ proc[e].drained \in Nat
            /\ DrainOf(e) \in Nat /\ DrainOf(e) <= Drain /\ Drain \in Nat
            /\ proc[e].mode \in Modes
        BY <1>1, DrainIsNatural, LocalExecutes DEF AstrayInv, MixInv, Container, DrainOf
      <3>. QED
        BY <3>1 DEF Timely, Alive, Modes
    <2>2. proc \in [Executors -> [image : Releases, mode : Modes, next : {"starting", "stopped"},
                                  beaten : BOOLEAN, drained : 0 .. Drain, astray : 0 .. Drain + 2]]
      BY <1>1, <2>1 DEF AstrayInv, MixInv, Container
    <2>3. release \in Releases /\ schema \in Releases /\ envRelease \in Releases
      BY <1>1 DEF AstrayInv, MixInv
    <2>. QED
      BY <1>1, <2>2, <2>3 DEF RestInv, Row, TypeOK
  <1>. QED
    BY <1>1, AstrayInit, AstrayNext, RestInit, RestNext, PTL DEF Spec
=============================================================================
