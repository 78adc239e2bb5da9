-------------------------- MODULE EnrollmentProofs --------------------------
(***************************************************************************)
(* Theorems about Enrollment, for any servers, names and addresses, any    *)
(* selections and any number of slips.                                     *)
(***************************************************************************)
EXTENDS Enrollment, TLAPS

\* A key opens only the tunnel of its profile's name, and a row of a network node
\* was made from a profile with a token.
NamesInv ==
  \A n \in Names :
    /\ auth[n] # {} => profile[n] # NONE /\ auth[n] = {profile[n].key}
    /\ node[n] # NONE => /\ profile[n] # NONE /\ profile[n].token # NONE
                         /\ node[n] = NodeOf(profile[n])

\* What the session that holds the lock has read is still so, and what it has
\* written stands.
SessionInv ==
  serving # NONE =>
    /\ serving.step = "write" => serving.known = profile[serving.req.is.name]
    /\ serving.step # "write" =>
         /\ profile[serving.req.is.name] # NONE
         /\ profile[serving.req.is.name].key = serving.req.key
         /\ Network(serving.req.is) => profile[serving.req.is.name].token # NONE
    /\ serving.step \in {"authorize", "respond"} /\ Network(serving.req.is) =>
         node[serving.req.is.name] # NONE

\* A run waits for the one session that somebody listens to.
Waits(runs, r) == r.live => runs[r.from].pc = "asking" /\ runs[r.from].is = r.is
AskInv ==
  /\ \A r \in asked : Waits(run, r)
  /\ \A r, q \in asked : r.live /\ q.live /\ r.from = q.from => r = q
  /\ serving # NONE =>
       /\ Waits(run, serving.req)
       /\ \A r \in asked : r.live /\ serving.req.live => r.from # serving.req.from

\* What a run was given, and has written, is what the main server's row says.
Opened == {"tunnel", "reach", "install", "wait"}
RunInv ==
  \A s \in Servers :
    /\ run[s].pc = "answered" /\ Network(run[s].is) =>
         run[s].got # NONE /\ run[s].got = node[run[s].is.name]
    /\ run[s].pc \in Opened /\ Network(run[s].is) =>
         env[s][run[s].is.name] # NONE /\ env[s][run[s].is.name] = node[run[s].is.name]

ContainerInv ==
  \A s \in Servers : \A c \in containers[s] :
    c.role = "network" => c.node # NONE /\ c.node = node[c.name]

\* The roles a run has dealt with have reported since they were started.
Healthy(s, role) == Of(s, role) # {} /\ Of(s, role) \subseteq reported[s]
RolesInv ==
  \A s \in Servers :
    /\ run[s].pc \in {"connect", "asking", "answered", "tunnel", "reach"} =>
         run[s].todo = run[s].is.roles
    /\ run[s].pc \in {"install", "wait"} =>
         /\ run[s].todo \subseteq run[s].is.roles
         /\ \A role \in run[s].is.roles \ run[s].todo : Healthy(s, role)
    /\ run[s].pc = "wait" => run[s].todo # {} /\ Of(s, NextRole(s)) # {}

EnrollmentInv ==
  TypeOK /\ NamesInv /\ SessionInv /\ AskInv /\ RunInv /\ ContainerInv /\ RolesInv

-----------------------------------------------------------------------------
(* Answers, runs and sessions.                                              *)

LEMMA AnswerParts ==
  ASSUME NEW a \in Answers
  PROVE  /\ a.name \in Names /\ a.endpoint \in Endpoints \union {NONE}
         /\ a.roles \in SUBSET Roles /\ a.roles # {}
BY DEF Answers

LEMMA WantedIsAnAnswer == ASSUME NEW s \in Servers PROVE Wanted[s] \in Answers
BY EnrollmentAssumption DEF EnrollmentAssumption

LEMMA NoneIsDistinct == NONE \notin Nat /\ NONE \notin Profile /\ NONE \notin Node
BY NoneIsNothing

\* The next role of a selection is one of it.
LEMMA NextRoleIsLeft ==
  ASSUME NEW s \in Servers, run[s].todo \in SUBSET Roles, run[s].todo # {}
  PROVE  NextRole(s) \in run[s].todo
<1> DEFINE Left(i) == /\ MODULES[i] \in run[s].todo
                      /\ \A j \in 1 .. i - 1 : MODULES[j] \notin run[s].todo
<1>1. DOMAIN MODULES = {1, 2} /\ MODULES[1] = "billing" /\ MODULES[2] = "network"
  BY DEF MODULES
<1>2. \E i \in DOMAIN MODULES : Left(i)
  <2>1. CASE "billing" \in run[s].todo
    <3>1. Left(1)
      BY <1>1, <2>1
    <3> QED
      BY <1>1, <3>1
  <2>2. CASE "billing" \notin run[s].todo
    <3>1. "network" \in run[s].todo
      BY <2>2 DEF Roles
    <3>2. \A j \in 1 .. 2 - 1 : j = 1
      OBVIOUS
    <3>3. Left(2)
      BY <1>1, <2>2, <3>1, <3>2
    <3> QED
      BY <1>1, <3>3
  <2> QED
    BY <2>1, <2>2
<1>3. MODULES[CHOOSE i \in DOMAIN MODULES : Left(i)] \in run[s].todo
  BY <1>2, Zenon
<1> QED
  BY <1>3, Zenon DEF NextRole

\* A run is replaced by another.
LEMMA RunWrite ==
  ASSUME TypeOK, NEW s \in Servers, NEW r \in Run \union {Idle},
         run' = [run EXCEPT ![s] = r]
  PROVE  /\ run' \in [Servers -> Run \union {Idle}]
         /\ run'[s] = r
         /\ \A t \in Servers : t # s => run'[t] = run[t]
BY DEF TypeOK

\* A run that is not idle has an answer.
LEMMA RunParts ==
  ASSUME TypeOK, NEW s \in Servers, run[s].pc # "idle"
  PROVE  /\ run[s] \in Run
         /\ run[s].is \in Answers /\ run[s].is.name \in Names
         /\ run[s].todo \in SUBSET Roles /\ run[s].got \in Node \union {NONE}
<1>1. run[s] \in Run
  BY DEF TypeOK, Idle
<1> QED
  BY <1>1, AnswerParts DEF Run

\* A run goes on to another step.
LEMMA RunMove ==
  ASSUME TypeOK, NEW s \in Servers, run[s].pc # "idle",
         NEW p \in {"connect", "asking", "answered", "tunnel", "reach", "install", "wait"},
         run' = [run EXCEPT ![s].pc = p]
  PROVE  /\ run' \in [Servers -> Run \union {Idle}]
         /\ run'[s].pc = p /\ run'[s].is = run[s].is
         /\ run'[s].todo = run[s].todo /\ run'[s].got = run[s].got
         /\ \A t \in Servers : t # s => run'[t] = run[t]
<1>1. PICK r : r = [run[s] EXCEPT !.pc = p]
  OBVIOUS
<1>2. run[s] \in Run
  BY RunParts
<1>3. /\ r \in Run /\ r.pc = p /\ r.is = run[s].is
      /\ r.todo = run[s].todo /\ r.got = run[s].got
  BY <1>1, <1>2 DEF Run
<1>4. run' = [run EXCEPT ![s] = r]
  BY <1>1
<1> QED
  BY <1>3, <1>4, RunWrite

\* The session that holds the lock.
LEMMA ServingParts ==
  ASSUME TypeOK, serving # NONE
  PROVE  /\ serving \in Session /\ serving.req \in Request
         /\ serving.known \in Profile \union {NONE}
         /\ serving.req.from \in Servers /\ serving.req.key \in Keys
         /\ serving.req.is \in Answers /\ serving.req.is.name \in Names
<1>1. serving \in Session
  BY DEF TypeOK
<1>2. serving.req \in Request /\ serving.known \in Profile \union {NONE}
  BY <1>1 DEF Session
<1>3. serving.req.from \in Servers /\ serving.req.key \in Keys /\ serving.req.is \in Answers
  BY <1>2 DEF Request
<1> QED
  BY <1>1, <1>2, <1>3, AnswerParts

LEMMA ServingMove ==
  ASSUME TypeOK, serving # NONE,
         NEW p \in {"write", "register", "authorize", "respond"},
         serving' = [serving EXCEPT !.step = p]
  PROVE  /\ serving' \in Session
         /\ serving'.req = serving.req /\ serving'.known = serving.known /\ serving'.step = p
BY ServingParts DEF Session

\* The profile of an enrollment, as it was or completed.
LEMMA ProfileForParts ==
  ASSUME TypeOK, serving # NONE, NEW a \in Answers, NEW key \in Keys
  PROVE  /\ ProfileFor(a, key) \in Profile /\ ProfileFor(a, key).key = key
         /\ Known # NONE /\ Known.token # NONE =>
              ProfileFor(a, key).endpoint = Known.endpoint /\ ProfileFor(a, key).token = Known.token
         /\ Network(a) => ProfileFor(a, key).token # NONE
<1>1. Known \in Profile \union {NONE}
  BY ServingParts DEF Known
<1>2. a.endpoint \in Endpoints \union {NONE} /\ minted + 1 \in Nat
  BY AnswerParts DEF TypeOK
<1>3. Known # NONE => Known.endpoint \in Endpoints \union {NONE} /\ Known.token \in Nat \union {NONE}
  BY <1>1 DEF Profile
<1>4. ProfileFor(a, key) \in Profile
  BY <1>2, <1>3 DEF ProfileFor, Profile
<1> QED
  BY <1>2, <1>4, NoneIsDistinct DEF ProfileFor

LEMMA NodeOfParts ==
  ASSUME NEW p \in Profile
  PROVE  NodeOf(p) \in Node /\ NodeOf(p) # NONE
<1>1. NodeOf(p) \in Node
  BY DEF NodeOf, Profile, Node
<1> QED
  BY <1>1, NoneIsDistinct

\* A session whose run is over.
Dead(s, r) == IF r.from = s THEN [r EXCEPT !.live = FALSE] ELSE r

LEMMA DeadParts ==
  ASSUME NEW s \in Servers, NEW r \in Request
  PROVE  /\ Dead(s, r) \in Request
         /\ Dead(s, r).from = r.from /\ Dead(s, r).key = r.key /\ Dead(s, r).is = r.is
         /\ Dead(s, r).live => Dead(s, r) = r /\ r.live /\ r.from # s
<1>1. CASE r.from = s
  <2>1. PICK q : q = [r EXCEPT !.live = FALSE]
    OBVIOUS
  <2>2. Dead(s, r) = q
    BY <1>1, <2>1 DEF Dead
  <2>3. q \in Request /\ q.from = r.from /\ q.key = r.key /\ q.is = r.is /\ q.live = FALSE
    BY <2>1 DEF Request
  <2> QED
    BY <2>2, <2>3
<1>2. CASE r.from # s
  <2>1. Dead(s, r) = r
    BY <1>2 DEF Dead
  <2> QED
    BY <1>2, <2>1
<1> QED
  BY <1>1, <1>2

LEMMA HangUpParts ==
  ASSUME TypeOK, NEW s \in Servers, HangUp(s)
  PROVE  /\ asked' \subseteq Request /\ serving' \in Session \union {NONE}
         /\ \A q \in asked' : \E r \in asked : q = Dead(s, r)
         /\ serving' # NONE => /\ serving # NONE
                               /\ serving'.req = Dead(s, serving.req)
                               /\ serving'.known = serving.known /\ serving'.step = serving.step
<1>1. asked' = {Dead(s, r) : r \in asked}
  BY DEF HangUp, Dead
<1>2. asked' \subseteq Request /\ \A q \in asked' : \E r \in asked : q = Dead(s, r)
  BY <1>1, DeadParts DEF TypeOK
<1>3. CASE serving = NONE
  BY <1>2, <1>3 DEF HangUp
<1>4. CASE serving # NONE
  <2>1. serving' = [serving EXCEPT !.req = Dead(s, @)]
    BY <1>4 DEF HangUp, Dead
  <2>2. PICK q \in Request : q = Dead(s, serving.req)
    BY <1>4, ServingParts, DeadParts
  <2>3. serving' = [serving EXCEPT !.req = q]
    BY <2>1, <2>2
  <2>4. /\ serving' \in Session /\ serving'.req = q
        /\ serving'.known = serving.known /\ serving'.step = serving.step
    BY <1>4, <2>3, ServingParts DEF Session
  <2> QED
    BY <1>2, <1>4, <2>2, <2>4
<1> QED
  BY <1>3, <1>4

\* The end of a session tells the run that listens.
LEMMA BackParts ==
  ASSUME TypeOK, NEW r \in Request, NEW next \in Run \union {Idle}, run' = Back(r, next)
  PROVE  /\ run' \in [Servers -> Run \union {Idle}]
         /\ r.live => run'[r.from] = next
         /\ \A t \in Servers : ~r.live \/ t # r.from => run'[t] = run[t]
<1>1. r.from \in Servers
  BY DEF Request
<1>2. CASE r.live
  BY <1>1, <1>2, RunWrite DEF Back
<1>3. CASE ~r.live
  BY <1>3 DEF Back, TypeOK
<1> QED
  BY <1>2, <1>3

LEMMA RefusedParts ==
  ASSUME TypeOK, serving # NONE, Refused
  PROVE  /\ serving' = NONE /\ run' \in [Servers -> Run \union {Idle}]
         /\ serving.req.live => run'[serving.req.from] = Idle
         /\ \A t \in Servers : ~serving.req.live \/ t # serving.req.from => run'[t] = run[t]
<1>1. serving.req \in Request
  BY ServingParts
<1> QED
  BY <1>1, BackParts DEF Refused

-----------------------------------------------------------------------------
(* Types.                                                                   *)

LEMMA TypeInit == Init => TypeOK
<1> SUFFICES ASSUME Init PROVE TypeOK
  OBVIOUS
<1>1. run \in [Servers -> Run \union {Idle}] /\ faults \in 0 .. MaxFaults
  BY EnrollmentAssumption DEF Init, EnrollmentAssumption
<1> QED
  BY <1>1 DEF Init, TypeOK

\* The answer of prepare.
LEMMA RespondParts ==
  ASSUME TypeOK, serving # NONE, serving.step = "respond", Respond,
         profile[serving.req.is.name] # NONE,
         serving.req.live => run[serving.req.from].pc = "asking" /\ run[serving.req.from].is = serving.req.is
  PROVE  /\ run' \in [Servers -> Run \union {Idle}]
         /\ \A t \in Servers : ~serving.req.live \/ t # serving.req.from => run'[t] = run[t]
         /\ serving.req.live =>
              /\ run'[serving.req.from].pc = "answered"
              /\ run'[serving.req.from].is = run[serving.req.from].is
              /\ run'[serving.req.from].todo = run[serving.req.from].todo
              /\ Network(serving.req.is) =>
                   run'[serving.req.from].got = NodeOf(profile[serving.req.is.name])
<1> DEFINE r == serving.req
           p == profile[r.is.name]
           given == IF Network(r.is) THEN NodeOf(p) ELSE [endpoint |-> NONE, token |-> NONE]
<1>1. r \in Request /\ r.from \in Servers /\ p \in Profile
  BY ServingParts DEF TypeOK
<1>2. given \in Node
  BY <1>1, NodeOfParts DEF Node
<1>3. run' = Back(r, [run[r.from] EXCEPT !.pc = "answered", !.got = given])
  BY DEF Respond
<1>4. CASE r.live
  <2>1. run[r.from] \in Run /\ run[r.from].pc = "asking"
    BY <1>1, <1>4, RunParts
  <2>2. PICK g \in Node : g = given
    BY <1>2
  <2>3. PICK next : next = [run[r.from] EXCEPT !.pc = "answered", !.got = g]
    OBVIOUS
  <2>4. /\ next \in Run /\ next.pc = "answered" /\ next.is = run[r.from].is
        /\ next.todo = run[r.from].todo /\ next.got = g
    BY <2>1, <2>2, <2>3 DEF Run
  <2>5. run' = Back(r, next)
    BY <1>3, <2>2, <2>3
  <2>6. /\ run' \in [Servers -> Run \union {Idle}] /\ run'[r.from] = next
        /\ \A t \in Servers : t # r.from => run'[t] = run[t]
    BY <1>1, <1>4, <2>4, <2>5, BackParts
  <2> QED
    BY <1>4, <2>2, <2>4, <2>6
<1>5. CASE ~r.live
  BY <1>3, <1>5 DEF Back, TypeOK
<1> QED
  BY <1>4, <1>5

\* The containers of the roles a run installs.
LEMMA ConfiguredParts ==
  ASSUME TypeOK, NEW s \in Servers, run[s].pc # "idle", NEW role \in Roles
  PROVE  /\ Configured(s, role) \in Container /\ Of(s, role) \subseteq containers[s]
         /\ Configured(s, role).name = run[s].is.name /\ Configured(s, role).role = role
         /\ role = "network" => Configured(s, role).node = env[s][run[s].is.name]
<1>1. run[s].is.name \in Names
  BY RunParts
<1>2. env[s][run[s].is.name] \in Node \union {NONE}
  BY <1>1 DEF TypeOK
<1> QED
  BY <1>1, <1>2 DEF Configured, Container, Of

LEMMA RunType ==
  ASSUME TypeOK, SessionInv, AskInv, [Next]_vars
  PROVE  run' \in [Servers -> Run \union {Idle}]
<1>0. run \in [Servers -> Run \union {Idle}] /\ Idle \in Run \union {Idle}
  BY DEF TypeOK
<1>1. CASE UNCHANGED run
  BY <1>0, <1>1
<1>2. ASSUME NEW s \in Servers, NEW a \in Answers, Begin(s, a)
      PROVE  run' \in [Servers -> Run \union {Idle}]
  <2>1. PICK r : r = [pc |-> "connect", is |-> a, todo |-> a.roles, got |-> NONE]
    OBVIOUS
  <2>2. r \in Run
    BY <2>1, AnswerParts DEF Run
  <2>3. run' = [run EXCEPT ![s] = r]
    BY <1>2, <2>1 DEF Begin
  <2> QED
    BY <2>2, <2>3, RunWrite
<1>3. ASSUME NEW s \in Servers, Ask(s) \/ OpenTunnel(s) \/ WaitForTunnel(s) \/ Install(s)
      PROVE  run' \in [Servers -> Run \union {Idle}]
  BY <1>3, RunMove DEF Ask, OpenTunnel, WaitForTunnel, Install
<1>4. ASSUME NEW s \in Servers, Configure(s)
      PROVE  run' \in [Servers -> Run \union {Idle}]
  BY <1>0, <1>4, RunMove, RunWrite DEF Configure
<1>5. ASSUME NEW s \in Servers, WaitForRole(s)
      PROVE  run' \in [Servers -> Run \union {Idle}]
  <2>1. run[s] \in Run
    BY <1>5, RunParts DEF WaitForRole
  <2>2. PICK left : left = run[s].todo \ {NextRole(s)}
    OBVIOUS
  <2>3. PICK r : r = [run[s] EXCEPT !.pc = "install", !.todo = left]
    OBVIOUS
  <2>4. r \in Run
    BY <2>1, <2>2, <2>3 DEF Run
  <2>5. run' = [run EXCEPT ![s] = r]
    BY <1>5, <2>2, <2>3 DEF WaitForRole
  <2> QED
    BY <2>4, <2>5, RunWrite
<1>6. ASSUME NEW s \in Servers, Save(s) \/ Interrupt(s) \/ Reinstall(s)
      PROVE  run' \in [Servers -> Run \union {Idle}]
  BY <1>0, <1>6, RunWrite DEF Save, Interrupt, Reinstall
<1>7. CASE serving # NONE /\ Refused
  BY <1>7, RefusedParts
<1>8. CASE Respond
  <2>1. serving # NONE /\ serving.step = "respond"
    BY <1>8 DEF Respond
  <2>2. profile[serving.req.is.name] # NONE
    BY <2>1 DEF SessionInv
  <2>3. serving.req.live => run[serving.req.from].pc = "asking" /\ run[serving.req.from].is = serving.req.is
    BY <2>1 DEF AskInv, Waits
  <2> QED
    BY <1>8, <2>1, <2>2, <2>3, RespondParts
<1>9. ASSUME NEW r \in asked, TakeLock(r)
      PROVE  UNCHANGED run
  BY <1>9 DEF TakeLock
<1>10. ASSUME NEW s \in Servers, NEW c \in containers[s], Report(s, c) \/ StopRemoved(s, c)
       PROVE  UNCHANGED run
  BY <1>10 DEF Report, StopRemoved
<1>11. WriteProfile \/ Register \/ Authorize \/ PrepareFails => UNCHANGED run \/ (serving # NONE /\ Refused)
  BY DEF WriteProfile, Register, Authorize, PrepareFails
<1> QED
  BY <1>1, <1>2, <1>3, <1>4, <1>5, <1>6, <1>7, <1>8, <1>9, <1>10, <1>11, WantedIsAnAnswer
     DEF Next, Wizard, Prepare, Start, StartOtherwise, vars

\* What each step does to the sessions of prepare.
LEMMA SessionSteps ==
  ASSUME TypeOK, [Next]_vars
  PROVE  \/ UNCHANGED <<asked, serving>>
         \/ asked' = asked /\ serving # NONE /\ serving' = NONE
         \/ \E s \in Servers : Ask(s) \/ HangUp(s)
         \/ \E r \in asked : TakeLock(r)
         \/ /\ asked' = asked /\ serving # NONE /\ serving' # NONE
            /\ WriteProfile \/ Register \/ Authorize
<1>1. \A s \in Servers, a \in Answers : Begin(s, a) => UNCHANGED <<asked, serving>>
  BY DEF Begin, sessions
<1>2. \A s \in Servers : Configure(s) \/ OpenTunnel(s) \/ WaitForTunnel(s) \/ Install(s)
                         \/ WaitForRole(s) \/ Save(s) => UNCHANGED <<asked, serving>>
  BY DEF Configure, OpenTunnel, WaitForTunnel, Install, WaitForRole, Save, sessions
<1>3. \A s \in Servers : \A c : Report(s, c) \/ StopRemoved(s, c) => UNCHANGED <<asked, serving>>
  BY DEF Report, StopRemoved, sessions
<1>4. \A s \in Servers : Interrupt(s) \/ Reinstall(s) => HangUp(s)
  BY DEF Interrupt, Reinstall
<1>5. WriteProfile \/ Register \/ Authorize => asked' = asked /\ serving # NONE
  BY DEF WriteProfile, Register, Authorize
<1>6. Respond \/ PrepareFails => asked' = asked /\ serving # NONE /\ serving' = NONE
  BY DEF Respond, PrepareFails, Refused
<1>7. UNCHANGED vars => UNCHANGED <<asked, serving>>
  BY DEF vars, sessions
<1> QED
  BY <1>1, <1>2, <1>3, <1>4, <1>5, <1>6, <1>7, WantedIsAnAnswer
     DEF Next, Wizard, Prepare, Start, StartOtherwise

\* A session under the lock goes on to its next step.
LEMMA ServingSteps ==
  ASSUME TypeOK, serving' # NONE, WriteProfile \/ Register \/ Authorize
  PROVE  /\ serving # NONE /\ serving' \in Session
         /\ serving'.req = serving.req /\ serving'.known = serving.known
         /\ UNCHANGED run
         /\ \/ WriteProfile /\ serving.step = "write" /\ serving'.step = "register"
            \/ Register /\ serving.step = "register" /\ serving'.step = "authorize"
            \/ Authorize /\ serving.step = "authorize" /\ serving'.step = "respond"
<1>1. ~Refused
  BY DEF Refused
<1>2. CASE WriteProfile
  <2>1. /\ serving # NONE /\ serving.step = "write"
        /\ serving' = [serving EXCEPT !.step = "register"] /\ UNCHANGED run
    BY <1>1, <1>2 DEF WriteProfile
  <2> QED
    BY <1>2, <2>1, ServingMove
<1>3. CASE Register
  <2>1. /\ serving # NONE /\ serving.step = "register"
        /\ serving' = [serving EXCEPT !.step = "authorize"] /\ UNCHANGED run
    BY <1>1, <1>3 DEF Register
  <2> QED
    BY <1>3, <2>1, ServingMove
<1>4. CASE Authorize
  <2>1. /\ serving # NONE /\ serving.step = "authorize"
        /\ serving' = [serving EXCEPT !.step = "respond"] /\ UNCHANGED run
    BY <1>1, <1>4 DEF Authorize
  <2> QED
    BY <1>4, <2>1, ServingMove
<1> QED
  BY <1>2, <1>3, <1>4

LEMMA SessionType ==
  ASSUME TypeOK, [Next]_vars
  PROVE  asked' \subseteq Request /\ serving' \in Session \union {NONE}
<1>0. asked \subseteq Request /\ serving \in Session \union {NONE}
  BY DEF TypeOK
<1>1. ASSUME NEW s \in Servers, Ask(s)
      PROVE  asked' \subseteq Request /\ serving' = serving
  <2>1. Key(s) \in Keys /\ run[s].is \in Answers
    BY <1>1, RunParts DEF Ask, Key, Keys, TypeOK
  <2>2. [from |-> s, key |-> Key(s), is |-> run[s].is, live |-> TRUE] \in Request
    BY <2>1 DEF Request
  <2> QED
    BY <1>0, <1>1, <2>2 DEF Ask
<1>2. ASSUME NEW r \in asked, TakeLock(r)
      PROVE  asked' \subseteq Request /\ serving' \in Session
  <2>1. r \in Request /\ r.is \in Answers
    BY <1>0 DEF Request
  <2>2. profile[r.is.name] \in Profile \union {NONE}
    BY <2>1, AnswerParts DEF TypeOK
  <2>3. [req |-> r, known |-> profile[r.is.name], step |-> "write"] \in Session
    BY <2>1, <2>2 DEF Session
  <2> QED
    BY <1>0, <1>2, <2>3 DEF TakeLock
<1> QED
  BY <1>0, <1>1, <1>2, SessionSteps, HangUpParts, ServingSteps

\* Only prepare writes the main server's files and rows.
LEMMA MainSteps ==
  ASSUME [Next]_vars
  PROVE  UNCHANGED mainVars \/ WriteProfile \/ Register \/ Authorize
<1>1. \A s \in Servers, a \in Answers : Begin(s, a) => UNCHANGED mainVars
  BY DEF Begin
<1>2. \A s \in Servers : Ask(s) \/ Configure(s) \/ OpenTunnel(s) \/ WaitForTunnel(s) \/ Install(s)
           \/ WaitForRole(s) \/ Save(s) \/ Interrupt(s) \/ Reinstall(s) => UNCHANGED mainVars
  BY DEF Ask, Configure, OpenTunnel, WaitForTunnel, Install, WaitForRole, Save, Interrupt, Reinstall
<1>3. \A s \in Servers : \A c : Report(s, c) \/ StopRemoved(s, c) => UNCHANGED mainVars
  BY DEF Report, StopRemoved
<1>4. \A r : TakeLock(r) => UNCHANGED mainVars
  BY DEF TakeLock
<1>5. Respond \/ PrepareFails => UNCHANGED mainVars
  BY DEF Respond, PrepareFails
<1>6. UNCHANGED vars => UNCHANGED mainVars
  BY DEF vars
<1> QED
  BY <1>1, <1>2, <1>3, <1>4, <1>5, <1>6, WantedIsAnAnswer
     DEF Next, Wizard, Prepare, Start, StartOtherwise

\* A profile is written for a name that has none, or completed.
LEMMA WriteParts ==
  ASSUME TypeOK, WriteProfile, SessionInv
  PROVE  \/ UNCHANGED <<profile, minted>> /\ Refused
         \/ \E p \in Profile :
              /\ profile' = [profile EXCEPT ![serving.req.is.name] = p]
              /\ minted' \in Nat
              /\ p.key = serving.req.key
              /\ Network(serving.req.is) => p.token # NONE
              /\ LET old == profile[serving.req.is.name] IN
                 old # NONE => /\ p.key = old.key
                               /\ old.token # NONE => p.endpoint = old.endpoint /\ p.token = old.token
<1>1. CASE UNCHANGED <<profile, minted>> /\ Refused
  BY <1>1
<1>2. CASE ~(UNCHANGED <<profile, minted>> /\ Refused)
  <2>1. ~Conflict /\ serving # NONE /\ serving.step = "write"
    BY <1>2 DEF WriteProfile
  <2>2. Known = profile[serving.req.is.name]
    BY <2>1 DEF SessionInv, Known
  <2>3. Known # NONE => Known.key = serving.req.key
    BY <2>1 DEF Conflict
  <2>4. PICK p : p = ProfileFor(serving.req.is, serving.req.key)
    OBVIOUS
  <2>5. /\ profile' = [profile EXCEPT ![serving.req.is.name] = p]
        /\ minted' = IF p.token = minted + 1 THEN p.token ELSE minted
    BY <1>2, <2>4 DEF WriteProfile
  <2>6. /\ p \in Profile /\ p.key = serving.req.key
        /\ Known # NONE /\ Known.token # NONE => p.endpoint = Known.endpoint /\ p.token = Known.token
        /\ Network(serving.req.is) => p.token # NONE
    BY <2>1, <2>4, ServingParts, ProfileForParts
  <2>7. minted' \in Nat
    BY <2>5 DEF TypeOK
  <2>8. profile[serving.req.is.name] # NONE =>
           /\ p.key = profile[serving.req.is.name].key
           /\ profile[serving.req.is.name].token # NONE =>
                /\ p.endpoint = profile[serving.req.is.name].endpoint
                /\ p.token = profile[serving.req.is.name].token
    BY <2>2, <2>3, <2>6
  <2> QED
    BY <2>5, <2>6, <2>7, <2>8
<1> QED
  BY <1>1, <1>2

\* A row is made from the profile of its name, or there was one.
LEMMA RegisterParts ==
  ASSUME TypeOK, SessionInv, Register
  PROVE  /\ UNCHANGED <<profile, auth, minted>>
         /\ \/ UNCHANGED node
            \/ /\ Network(serving.req.is) /\ node[serving.req.is.name] = NONE
               /\ node' = [node EXCEPT ![serving.req.is.name] = NodeOf(profile[serving.req.is.name])]
         /\ serving' # NONE /\ Network(serving.req.is) =>
              node'[serving.req.is.name] = NodeOf(profile[serving.req.is.name])
         /\ profile[serving.req.is.name] \in Profile /\ serving.req.is.name \in Names
<1> DEFINE n == serving.req.is.name
<1>1. serving # NONE /\ serving.step = "register" /\ UNCHANGED <<profile, auth, minted>>
  BY DEF Register
<1>2. n \in Names /\ profile[n] # NONE
  BY <1>1, ServingParts DEF SessionInv
<1>3. profile[n] \in Profile /\ node \in [Names -> Node \union {NONE}]
  BY <1>2 DEF TypeOK
<1>4. CASE ~Network(serving.req.is)
  BY <1>1, <1>2, <1>3, <1>4 DEF Register
<1>5. CASE Network(serving.req.is) /\ node[n] = NONE /\ node' = [node EXCEPT ![n] = NodeOf(profile[n])]
  BY <1>1, <1>2, <1>3, <1>5
<1>6. CASE Network(serving.req.is) /\ node[n] = NodeOf(profile[n]) /\ UNCHANGED node
  BY <1>1, <1>2, <1>3, <1>6
<1>7. CASE Network(serving.req.is) /\ Refused /\ UNCHANGED node
  BY <1>1, <1>2, <1>3, <1>7 DEF Refused
<1> QED
  BY <1>4, <1>5, <1>6, <1>7 DEF Register

LEMMA AuthorizeParts ==
  ASSUME TypeOK, Authorize
  PROVE  /\ UNCHANGED <<profile, node, minted>>
         /\ serving # NONE /\ serving.step = "authorize"
         /\ UNCHANGED auth \/ auth' = [auth EXCEPT ![serving.req.is.name] = {serving.req.key}]
BY DEF Authorize

LEMMA MainType ==
  ASSUME TypeOK, SessionInv, [Next]_vars
  PROVE  /\ profile' \in [Names -> Profile \union {NONE}] /\ node' \in [Names -> Node \union {NONE}]
         /\ auth' \in [Names -> SUBSET Keys] /\ minted' \in Nat
<1>0. /\ profile \in [Names -> Profile \union {NONE}] /\ node \in [Names -> Node \union {NONE}]
      /\ auth \in [Names -> SUBSET Keys] /\ minted \in Nat
  BY DEF TypeOK
<1>1. CASE UNCHANGED mainVars
  BY <1>0, <1>1 DEF mainVars
<1>2. CASE WriteProfile
  BY <1>0, <1>2, WriteParts DEF WriteProfile
<1>3. CASE Register
  BY <1>0, <1>3, RegisterParts, NodeOfParts
<1>4. CASE Authorize
  BY <1>0, <1>4, AuthorizeParts, ServingParts
<1> QED
  BY <1>1, <1>2, <1>3, <1>4, MainSteps

\* The files and roles of the servers.
LEMMA ServerType ==
  ASSUME TypeOK, [Next]_vars
  PROVE  /\ gen' \in [Servers -> Nat]
         /\ env' \in [Servers -> [Names -> Node \union {NONE}]] /\ units' \in [Servers -> SUBSET Names]
         /\ containers' \in [Servers -> SUBSET Container] /\ reported' \in [Servers -> SUBSET Container]
         /\ saved' \in [Servers -> [name : Names, roles : SUBSET Roles] \union {NONE}]
<1>0. /\ gen \in [Servers -> Nat]
      /\ env \in [Servers -> [Names -> Node \union {NONE}]] /\ units \in [Servers -> SUBSET Names]
      /\ containers \in [Servers -> SUBSET Container] /\ reported \in [Servers -> SUBSET Container]
      /\ saved \in [Servers -> [name : Names, roles : SUBSET Roles] \union {NONE}]
  BY DEF TypeOK
<1>1. \A s \in Servers, a \in Answers : Begin(s, a) => UNCHANGED <<gen, env, units, containers, reported, saved>>
  BY DEF Begin, files, roleVars
<1>2. \A s \in Servers : Ask(s) \/ WaitForTunnel(s) \/ WaitForRole(s) \/ Interrupt(s) =>
           UNCHANGED <<gen, env, units, containers, reported, saved>>
  BY DEF Ask, WaitForTunnel, WaitForRole, Interrupt, files, roleVars
<1>3. Prepare \/ PrepareFails => UNCHANGED <<gen, env, units, containers, reported, saved>>
  BY DEF Prepare, WriteProfile, Register, Authorize, Respond, PrepareFails, files, roleVars
<1>4. \A r : TakeLock(r) => UNCHANGED <<gen, env, units, containers, reported, saved>>
  BY DEF TakeLock, files, roleVars
<1>5. ASSUME NEW s \in Servers, Configure(s)
      PROVE  /\ UNCHANGED <<gen, units, containers, reported, saved>>
             /\ env' \in [Servers -> [Names -> Node \union {NONE}]]
  <2>1. PICK n \in Names, g \in Node \union {NONE} : n = run[s].is.name /\ g = run[s].got
    BY <1>5, RunParts DEF Configure
  <2>2. UNCHANGED env \/ env' = [env EXCEPT ![s][n] = g]
    BY <1>5, <2>1 DEF Configure
  <2>3. env' \in [Servers -> [Names -> Node \union {NONE}]]
    BY <1>0, <2>2
  <2> QED
    BY <1>0, <1>5, <2>3 DEF Configure, roleVars
<1>6. ASSUME NEW s \in Servers, OpenTunnel(s)
      PROVE  UNCHANGED <<gen, env, containers, reported, saved>> /\ units' \in [Servers -> SUBSET Names]
  <2>1. run[s].is.name \in Names
    BY <1>6, RunParts DEF OpenTunnel
  <2> QED
    BY <1>0, <1>6, <2>1 DEF OpenTunnel, roleVars
<1>7. ASSUME NEW s \in Servers, Install(s)
      PROVE  /\ UNCHANGED <<gen, env, units, saved>>
             /\ containers' \in [Servers -> SUBSET Container] /\ reported' \in [Servers -> SUBSET Container]
  <2>1. run[s].pc # "idle" /\ run[s].todo \in SUBSET Roles /\ run[s].todo # {}
    BY <1>7, RunParts DEF Install
  <2>2. NextRole(s) \in Roles
    BY <2>1, NextRoleIsLeft
  <2>3. Configured(s, NextRole(s)) \in Container
    BY <2>1, <2>2, ConfiguredParts
  <2> QED
    BY <1>0, <1>7, <2>3 DEF Install, files
<1>8. ASSUME NEW s \in Servers, NEW c \in containers[s], Report(s, c) \/ StopRemoved(s, c)
      PROVE  /\ UNCHANGED <<gen, env, units, saved>>
             /\ containers' \in [Servers -> SUBSET Container] /\ reported' \in [Servers -> SUBSET Container]
  BY <1>0, <1>8 DEF Report, StopRemoved, files
<1>9. ASSUME NEW s \in Servers, Save(s)
      PROVE  /\ UNCHANGED <<gen, env, units, containers, reported>>
             /\ saved' \in [Servers -> [name : Names, roles : SUBSET Roles] \union {NONE}]
  <2>1. run[s].is \in Answers
    BY <1>9, RunParts DEF Save
  <2>2. Selection(run[s].is) \in [name : Names, roles : SUBSET Roles]
    BY <2>1, AnswerParts DEF Selection
  <2> QED
    BY <1>0, <1>9, <2>2 DEF Save, files, roleVars
<1>10. ASSUME NEW s \in Servers, Reinstall(s)
       PROVE  /\ gen' \in [Servers -> Nat]
              /\ env' \in [Servers -> [Names -> Node \union {NONE}]] /\ units' \in [Servers -> SUBSET Names]
              /\ containers' \in [Servers -> SUBSET Container]
              /\ reported' \in [Servers -> SUBSET Container]
              /\ saved' \in [Servers -> [name : Names, roles : SUBSET Roles] \union {NONE}]
  BY <1>0, <1>10 DEF Reinstall
<1>11. UNCHANGED vars => UNCHANGED <<gen, env, units, containers, reported, saved>>
  BY DEF vars, files, roleVars
<1> QED
  BY <1>0, <1>1, <1>2, <1>3, <1>4, <1>5, <1>6, <1>7, <1>8, <1>9, <1>10, <1>11, WantedIsAnAnswer
     DEF Next, Wizard, Start, StartOtherwise

LEMMA FaultsType == ASSUME TypeOK, [Next]_vars PROVE faults' \in 0 .. MaxFaults
<1>0. faults \in 0 .. MaxFaults /\ MaxFaults \in Nat
  BY EnrollmentAssumption DEF TypeOK, EnrollmentAssumption
<1>1. UNCHANGED faults \/ Slip
  BY DEF Next, Start, StartOtherwise, Wizard, Prepare, Ask, Configure, OpenTunnel, WaitForTunnel, Install,
         WaitForRole, Save, StopRemoved, Interrupt, Reinstall, Report, TakeLock, WriteProfile, Register,
         Authorize, Respond, PrepareFails, vars
<1> QED
  BY <1>0, <1>1 DEF Slip

LEMMA TypeStep ==
  ASSUME TypeOK, SessionInv, AskInv, [Next]_vars
  PROVE  TypeOK'
BY RunType, SessionType, MainType, ServerType, FaultsType DEF TypeOK

-----------------------------------------------------------------------------
(* The main server.                                                         *)

\* A row of a network node is made once and stays.
LEMMA NodesStay ==
  ASSUME TypeOK, SessionInv, [Next]_vars, NEW n \in Names, node[n] # NONE
  PROVE  node'[n] = node[n]
<1>1. CASE UNCHANGED mainVars
  BY <1>1 DEF mainVars
<1>2. WriteProfile \/ Authorize => UNCHANGED node
  BY DEF WriteProfile, Authorize
<1>3. CASE Register
  <2>1. CASE UNCHANGED node
    BY <2>1
  <2>2. CASE /\ node[serving.req.is.name] = NONE
             /\ node' = [node EXCEPT ![serving.req.is.name] = NodeOf(profile[serving.req.is.name])]
    BY <2>2 DEF TypeOK
  <2> QED
    BY <1>3, <2>1, <2>2, RegisterParts
<1> QED
  BY <1>1, <1>2, <1>3, MainSteps

LEMMA NamesStep ==
  ASSUME TypeOK, NamesInv, SessionInv, [Next]_vars
  PROVE  NamesInv'
<1>0. /\ profile \in [Names -> Profile \union {NONE}] /\ node \in [Names -> Node \union {NONE}]
      /\ auth \in [Names -> SUBSET Keys] /\ NONE \notin Profile
  BY NoneIsDistinct DEF TypeOK
<1>1. CASE UNCHANGED mainVars
  BY <1>1 DEF mainVars, NamesInv
<1>2. CASE WriteProfile
  <2>0. UNCHANGED <<node, auth>>
    BY <1>2 DEF WriteProfile
  <2>1. CASE UNCHANGED profile
    BY <2>0, <2>1 DEF NamesInv
  <2>2. CASE ~UNCHANGED profile
    <3>1. PICK p \in Profile :
            /\ profile' = [profile EXCEPT ![serving.req.is.name] = p]
            /\ LET old == profile[serving.req.is.name] IN
               old # NONE => /\ p.key = old.key
                             /\ old.token # NONE => p.endpoint = old.endpoint /\ p.token = old.token
      BY <1>2, <2>2, WriteParts
    <3> SUFFICES ASSUME NEW n \in Names
                 PROVE  /\ auth[n] # {} => profile'[n] # NONE /\ auth[n] = {profile'[n].key}
                        /\ node[n] # NONE => /\ profile'[n] # NONE /\ profile'[n].token # NONE
                                             /\ node[n] = NodeOf(profile'[n])
      BY <2>0 DEF NamesInv, NodeOf
    <3>2. CASE n # serving.req.is.name
      <4>1. profile'[n] = profile[n]
        BY <1>0, <3>1, <3>2
      <4> QED
        BY <4>1 DEF NamesInv
    <3>3. CASE n = serving.req.is.name
      <4>1. profile'[n] = p /\ p # NONE
        BY <1>0, <3>1, <3>3
      <4>2. auth[n] # {} => auth[n] = {p.key}
        BY <3>1, <3>3 DEF NamesInv
      <4>3. node[n] # NONE => p.token # NONE /\ node[n] = NodeOf(p)
        BY <3>1, <3>3 DEF NamesInv, NodeOf
      <4> QED
        BY <4>1, <4>2, <4>3
    <3> QED
      BY <3>2, <3>3
  <2> QED
    BY <2>1, <2>2
<1>3. CASE Register
  <2>1. UNCHANGED <<profile, auth>>
    BY <1>3, RegisterParts
  <2>2. CASE UNCHANGED node
    BY <2>1, <2>2 DEF NamesInv, NodeOf
  <2>3. CASE ~UNCHANGED node
    <3>1. /\ serving # NONE /\ serving.step = "register" /\ Network(serving.req.is)
          /\ node' = [node EXCEPT ![serving.req.is.name] = NodeOf(profile[serving.req.is.name])]
      BY <1>3, <2>3, RegisterParts DEF Register
    <3>2. profile[serving.req.is.name] # NONE /\ profile[serving.req.is.name].token # NONE
      BY <3>1 DEF SessionInv
    <3> QED
      BY <1>0, <2>1, <3>1, <3>2 DEF NamesInv, NodeOf
  <2> QED
    BY <2>2, <2>3
<1>4. CASE Authorize
  <2>1. /\ UNCHANGED <<profile, node>> /\ serving # NONE /\ serving.step = "authorize"
        /\ UNCHANGED auth \/ auth' = [auth EXCEPT ![serving.req.is.name] = {serving.req.key}]
    BY <1>4, AuthorizeParts
  <2>2. profile[serving.req.is.name] # NONE /\ profile[serving.req.is.name].key = serving.req.key
    BY <2>1 DEF SessionInv
  <2> QED
    BY <1>0, <2>1, <2>2 DEF NamesInv, NodeOf
<1> QED
  BY <1>1, <1>2, <1>3, <1>4, MainSteps

\* What SessionInv says of a session.
Kept(known, step, r) ==
  /\ step = "write" => known = profile[r.is.name]
  /\ step # "write" => /\ profile[r.is.name] # NONE /\ profile[r.is.name].key = r.key
                       /\ Network(r.is) => profile[r.is.name].token # NONE
  /\ step \in {"authorize", "respond"} /\ Network(r.is) => node[r.is.name] # NONE

LEMMA SessionStep ==
  ASSUME TypeOK, NamesInv, SessionInv, [Next]_vars
  PROVE  SessionInv'
<1>0. SUFFICES ASSUME serving' # NONE PROVE Kept(serving.known, serving.step, serving.req)'
  BY DEF SessionInv, Kept
<1>1. serving # NONE => Kept(serving.known, serving.step, serving.req)
  BY DEF SessionInv, Kept
<1>2. CASE UNCHANGED mainVars /\ serving # NONE /\ serving'.known = serving.known
           /\ serving'.step = serving.step /\ serving'.req.is = serving.req.is
           /\ serving'.req.key = serving.req.key
  BY <1>1, <1>2 DEF Kept, mainVars, Network
<1>3. CASE WriteProfile \/ Register \/ Authorize
  <2>1. /\ serving # NONE /\ serving'.req = serving.req /\ serving'.known = serving.known
        /\ \/ WriteProfile /\ serving.step = "write" /\ serving'.step = "register"
           \/ Register /\ serving.step = "register" /\ serving'.step = "authorize"
           \/ Authorize /\ serving.step = "authorize" /\ serving'.step = "respond"
    BY <1>0, <1>3, ServingSteps
  <2>2. serving.req.is.name \in Names /\ profile \in [Names -> Profile \union {NONE}]
    BY <2>1, ServingParts DEF TypeOK
  <2>3. CASE WriteProfile /\ serving'.step = "register"
    <3>1. PICK p \in Profile :
            /\ profile' = [profile EXCEPT ![serving.req.is.name] = p]
            /\ p.key = serving.req.key
            /\ Network(serving.req.is) => p.token # NONE
      BY <1>0, <2>3, WriteParts DEF Refused
    <3> QED
      BY <2>1, <2>2, <2>3, <3>1, NoneIsDistinct DEF Kept, Network
  <2>4. CASE Register /\ serving.step = "register" /\ serving'.step = "authorize"
    <3>1. /\ UNCHANGED profile
          /\ Network(serving.req.is) => node'[serving.req.is.name] = NodeOf(profile[serving.req.is.name])
          /\ profile[serving.req.is.name] \in Profile
      BY <1>0, <2>4, RegisterParts
    <3> QED
      BY <1>1, <2>1, <2>4, <3>1, NodeOfParts DEF Kept, Network
  <2>5. CASE Authorize /\ serving.step = "authorize" /\ serving'.step = "respond"
    BY <1>1, <2>1, <2>5, AuthorizeParts DEF Kept, Network
  <2> QED
    BY <2>1, <2>3, <2>4, <2>5
<1>4. CASE ~(WriteProfile \/ Register \/ Authorize)
  <2>1. UNCHANGED mainVars
    BY <1>4, MainSteps
  <2>2. CASE UNCHANGED serving
    BY <1>0, <1>2, <2>1, <2>2
  <2>3. CASE \E s \in Servers : Ask(s)
    BY <1>0, <1>2, <2>1, <2>3 DEF Ask
  <2>4. ASSUME NEW s \in Servers, HangUp(s)
        PROVE  Kept(serving.known, serving.step, serving.req)'
    <3>1. /\ serving # NONE /\ serving'.req = Dead(s, serving.req)
          /\ serving'.known = serving.known /\ serving'.step = serving.step
      BY <1>0, <2>4, HangUpParts
    <3>2. serving'.req.is = serving.req.is /\ serving'.req.key = serving.req.key
      BY <3>1, ServingParts, DeadParts
    <3> QED
      BY <1>2, <2>1, <3>1, <3>2
  <2>5. ASSUME NEW r \in asked, TakeLock(r)
        PROVE  Kept(serving.known, serving.step, serving.req)'
    <3>1. serving' = [req |-> r, known |-> profile[r.is.name], step |-> "write"] /\ UNCHANGED profile
      BY <2>5 DEF TakeLock, mainVars
    <3>2. serving'.req = r /\ serving'.known = profile[r.is.name] /\ serving'.step = "write"
      BY <3>1
    <3> QED
      BY <3>1, <3>2 DEF Kept
  <2> QED
    BY <1>0, <1>4, <2>2, <2>3, <2>4, <2>5, SessionSteps
<1> QED
  BY <1>3, <1>4

-----------------------------------------------------------------------------
(* Sessions and the runs that wait for them.                                *)

\* A step of one server's run that was not waiting leaves the sessions their runs.
LEMMA AskFrame ==
  ASSUME TypeOK, AskInv, UNCHANGED <<asked, serving>>,
         NEW s \in Servers, run[s].pc # "asking",
         \A t \in Servers : t # s => run'[t] = run[t]
  PROVE  AskInv'
<1>1. \A r \in Request : Waits(run, r) => Waits(run', r)
  BY DEF Waits, Request
<1>2. \A r \in asked : r \in Request
  BY DEF TypeOK
<1>3. serving # NONE => serving.req \in Request
  BY ServingParts
<1> QED
  BY <1>1, <1>2, <1>3 DEF AskInv, Waits

\* The run that is told of the end of its session waits for no other.
LEMMA AskAfterBack ==
  ASSUME TypeOK, AskInv, asked' = asked, serving # NONE, serving' = NONE,
         \A t \in Servers : ~serving.req.live \/ t # serving.req.from => run'[t] = run[t]
  PROVE  AskInv'
<1>1. \A r \in asked : Waits(run', r)
  <2> SUFFICES ASSUME NEW r \in asked, r.live
               PROVE  run'[r.from].pc = "asking" /\ run'[r.from].is = r.is
    BY DEF Waits
  <2>1. r.from \in Servers /\ run[r.from].pc = "asking" /\ run[r.from].is = r.is
    BY DEF AskInv, Waits, TypeOK, Request
  <2>2. ~serving.req.live \/ r.from # serving.req.from
    BY DEF AskInv
  <2> QED
    BY <2>1, <2>2
<1> QED
  BY <1>1 DEF AskInv

LEMMA AskStep ==
  ASSUME TypeOK, SessionInv, AskInv, [Next]_vars
  PROVE  AskInv'
<1>0. \A r \in asked : r \in Request /\ r.from \in Servers
  BY DEF TypeOK, Request
<1>1. CASE UNCHANGED <<asked, serving, run>>
  BY <1>1 DEF AskInv, Waits
<1>2. ASSUME NEW s \in Servers, NEW a \in Answers, Begin(s, a)
      PROVE  AskInv'
  <2>1. run[s].pc # "asking" /\ UNCHANGED <<asked, serving>>
    BY <1>2 DEF Begin, Idle, sessions
  <2>2. \A t \in Servers : t # s => run'[t] = run[t]
    BY <1>2 DEF Begin, TypeOK
  <2> QED
    BY <2>1, <2>2, AskFrame
<1>3. ASSUME NEW s \in Servers, Ask(s)
      PROVE  AskInv'
  <2>1. PICK q : q = [from |-> s, key |-> Key(s), is |-> run[s].is, live |-> TRUE]
    OBVIOUS
  <2>2. /\ run[s].pc = "connect" /\ run' = [run EXCEPT ![s].pc = "asking"]
        /\ asked' = asked \union {q} /\ serving' = serving
    BY <1>3, <2>1 DEF Ask
  <2>3. /\ run'[s].pc = "asking" /\ run'[s].is = run[s].is
        /\ \A t \in Servers : t # s => run'[t] = run[t]
    BY <2>2, RunMove
  <2>4. \A r \in asked : r.live => r.from # s
    BY <2>2 DEF AskInv, Waits
  <2>5. serving # NONE /\ serving.req.live => serving.req.from # s
    BY <2>2 DEF AskInv, Waits
  <2>6. \A r \in asked : Waits(run', r)
    BY <1>0, <2>3, <2>4 DEF AskInv, Waits
  <2>7. q.from = s /\ q.is = run[s].is /\ q.live
    BY <2>1
  <2>8. Waits(run', q)
    BY <2>3, <2>7 DEF Waits
  <2>9. serving # NONE => Waits(run', serving.req)
    BY <2>3, <2>5, ServingParts DEF AskInv, Waits
  <2>10. \A r, p \in asked' : r.live /\ p.live /\ r.from = p.from => r = p
    BY <2>2, <2>4, <2>7 DEF AskInv
  <2>11. serving # NONE => \A r \in asked' : r.live /\ serving.req.live => r.from # serving.req.from
    BY <2>2, <2>5, <2>7 DEF AskInv
  <2>12. serving # NONE => Waits(run', serving'.req)
    BY <2>2, <2>9 DEF Waits
  <2>13. \A r \in asked' : Waits(run', r)
    BY <2>2, <2>6, <2>8
  <2> QED
    BY <2>2, <2>10, <2>11, <2>12, <2>13 DEF AskInv
<1>4. ASSUME NEW r \in asked, TakeLock(r)
      PROVE  AskInv'
  <2>1. PICK new : new = [req |-> r, known |-> profile[r.is.name], step |-> "write"]
    OBVIOUS
  <2>2. asked' = asked \ {r} /\ serving' = new /\ new.req = r /\ UNCHANGED run
    BY <1>4, <2>1 DEF TakeLock
  <2> QED
    BY <2>2 DEF AskInv, Waits
<1>5. CASE WriteProfile \/ Register \/ Authorize
  <2>1. CASE serving' # NONE
    <3>1. asked' = asked /\ serving # NONE /\ serving'.req = serving.req /\ UNCHANGED run
      BY <1>5, <2>1, ServingSteps DEF WriteProfile, Register, Authorize
    <3> QED
      BY <3>1 DEF AskInv, Waits
  <2>2. CASE serving' = NONE
    <3>1. asked' = asked /\ serving # NONE
      BY <1>5 DEF WriteProfile, Register, Authorize
    <3>2. Refused \/ serving' \in Session
      BY <1>5, <3>1, ServingMove DEF WriteProfile, Register, Authorize
    <3>3. CASE Refused
      BY <2>2, <3>1, <3>3, RefusedParts, AskAfterBack
    <3>4. CASE ~Refused
      <4>1. UNCHANGED run
        BY <1>5, <3>4 DEF WriteProfile, Register, Authorize
      <4> QED
        BY <2>2, <3>1, <4>1, AskAfterBack
    <3> QED
      BY <3>3, <3>4
  <2> QED
    BY <2>1, <2>2
<1>6. CASE Respond
  <2>1. serving # NONE /\ serving.step = "respond" /\ asked' = asked /\ serving' = NONE
    BY <1>6 DEF Respond
  <2>2. profile[serving.req.is.name] # NONE
    BY <2>1 DEF SessionInv
  <2>3. serving.req.live => run[serving.req.from].pc = "asking" /\ run[serving.req.from].is = serving.req.is
    BY <2>1 DEF AskInv, Waits
  <2>4. \A t \in Servers : ~serving.req.live \/ t # serving.req.from => run'[t] = run[t]
    BY <1>6, <2>1, <2>2, <2>3, RespondParts
  <2> QED
    BY <2>1, <2>4, AskAfterBack
<1>7. CASE PrepareFails
  <2>1. serving # NONE /\ Refused /\ asked' = asked
    BY <1>7 DEF PrepareFails
  <2> QED
    BY <2>1, RefusedParts, AskAfterBack
<1>8. ASSUME NEW s \in Servers,
             Configure(s) \/ OpenTunnel(s) \/ WaitForTunnel(s) \/ Install(s) \/ WaitForRole(s) \/ Save(s)
      PROVE  AskInv'
  <2>1. run[s].pc # "asking" /\ UNCHANGED <<asked, serving>>
    BY <1>8 DEF Configure, OpenTunnel, WaitForTunnel, Install, WaitForRole, Save, sessions
  <2>2. \A t \in Servers : t # s => run'[t] = run[t]
    BY <1>8 DEF Configure, OpenTunnel, WaitForTunnel, Install, WaitForRole, Save, TypeOK
  <2> QED
    BY <2>1, <2>2, AskFrame
<1>9. \A s \in Servers : \A c : Report(s, c) \/ StopRemoved(s, c) => UNCHANGED <<asked, serving, run>>
  BY DEF Report, StopRemoved, sessions
<1>10. ASSUME NEW s \in Servers, Interrupt(s) \/ Reinstall(s)
       PROVE  AskInv'
  <2>1. HangUp(s) /\ \A t \in Servers : t # s => run'[t] = run[t]
    BY <1>10 DEF Interrupt, Reinstall, TypeOK
  <2>2. \A r \in Request : Waits(run, r) => Waits(run', Dead(s, r))
    <3> TAKE r \in Request
    <3>1. r.from \in Servers
      BY DEF Request
    <3> QED
      BY <2>1, <3>1, DeadParts DEF Waits
  <2>3. \A q \in asked' : \E r \in asked : q = Dead(s, r)
    BY <2>1, HangUpParts
  <2>4. serving' # NONE => serving # NONE /\ serving'.req = Dead(s, serving.req)
    BY <2>1, HangUpParts
  <2>5. \A q \in asked' : Waits(run', q)
    <3> TAKE q \in asked'
    <3>1. PICK r \in asked : q = Dead(s, r)
      BY <2>3
    <3>2. Waits(run', Dead(s, r))
      BY <1>0, <2>2 DEF AskInv
    <3> QED
      BY <3>1, <3>2 DEF Waits
  <2>6. \A q, p \in asked' : q.live /\ p.live /\ q.from = p.from => q = p
    BY <1>0, <2>3, DeadParts DEF AskInv
  <2>7. serving' # NONE => Waits(run', serving'.req)
    <3> SUFFICES ASSUME serving' # NONE PROVE Waits(run', serving'.req)
      OBVIOUS
    <3>1. Waits(run', Dead(s, serving.req))
      BY <2>2, <2>4, ServingParts DEF AskInv
    <3> QED
      BY <2>4, <3>1
  <2>8. serving' # NONE => \A q \in asked' : q.live /\ serving'.req.live => q.from # serving'.req.from
    BY <1>0, <2>3, <2>4, DeadParts, ServingParts DEF AskInv
  <2> QED
    BY <2>5, <2>6, <2>7, <2>8 DEF AskInv
<1>11. UNCHANGED vars => UNCHANGED <<asked, serving, run>>
  BY DEF vars, sessions
<1> QED
  BY <1>1, <1>2, <1>3, <1>4, <1>5, <1>6, <1>7, <1>8, <1>9, <1>10, <1>11, WantedIsAnAnswer
     DEF Next, Wizard, Prepare, Start, StartOtherwise

-----------------------------------------------------------------------------
(* What a run was given, and the containers it started.                     *)

\* What a step does to one server's run and to what it has written.
LEMMA RunSteps ==
  ASSUME TypeOK, SessionInv, AskInv, [Next]_vars, NEW t \in Servers
  PROVE  \/ run'[t] = run[t] /\ env'[t] = env[t]
         \/ run'[t].pc \in {"idle", "connect", "asking"}
         \/ /\ run[t].pc \in Opened /\ run'[t].is = run[t].is /\ env'[t] = env[t]
            /\ run'[t].pc # "answered"
         \/ Configure(t)
         \/ Respond /\ serving.req.live /\ serving.req.from = t
<1> DEFINE Goal == \/ run'[t] = run[t] /\ env'[t] = env[t]
                   \/ run'[t].pc \in {"idle", "connect", "asking"}
                   \/ /\ run[t].pc \in Opened /\ run'[t].is = run[t].is /\ env'[t] = env[t]
                      /\ run'[t].pc # "answered"
                   \/ Configure(t)
                   \/ Respond /\ serving.req.live /\ serving.req.from = t
<1> SUFFICES Goal
  OBVIOUS
<1>0. Idle.pc = "idle" /\ run \in [Servers -> Run \union {Idle}]
  BY DEF Idle, TypeOK
<1>1. ASSUME NEW s \in Servers, NEW a \in Answers, Begin(s, a)
      PROVE  Goal
  <2>1. PICK r : r = [pc |-> "connect", is |-> a, todo |-> a.roles, got |-> NONE]
    OBVIOUS
  <2>2. run' = [run EXCEPT ![s] = r] /\ r.pc = "connect" /\ UNCHANGED env
    BY <1>1, <2>1 DEF Begin, files
  <2> QED
    BY <1>0, <2>2
<1>2. ASSUME NEW s \in Servers, Ask(s) \/ OpenTunnel(s) \/ WaitForTunnel(s) \/ Install(s)
      PROVE  Goal
  <2>1. PICK p \in {"asking", "reach", "install", "wait"} :
          run' = [run EXCEPT ![s].pc = p] /\ UNCHANGED env /\ (p = "asking" \/ run[s].pc \in Opened)
    BY <1>2 DEF Ask, OpenTunnel, WaitForTunnel, Install, files, Opened
  <2>2. run[s].pc # "idle"
    BY <1>2 DEF Ask, OpenTunnel, WaitForTunnel, Install
  <2>3. run'[s].pc = p /\ run'[s].is = run[s].is /\ \A u \in Servers : u # s => run'[u] = run[u]
    BY <2>1, <2>2, RunMove
  <2> QED
    BY <2>1, <2>3
<1>3. ASSUME NEW s \in Servers, Configure(s)
      PROVE  Goal
  <2>1. s # t => run'[t] = run[t] /\ env'[t] = env[t]
    BY <1>0, <1>3 DEF Configure, TypeOK
  <2> QED
    BY <1>3, <2>1
<1>4. ASSUME NEW s \in Servers, WaitForRole(s)
      PROVE  Goal
  <2>1. PICK left : left = run[s].todo \ {NextRole(s)}
    OBVIOUS
  <2>2. PICK r : r = [run[s] EXCEPT !.pc = "install", !.todo = left]
    OBVIOUS
  <2>3. run' = [run EXCEPT ![s] = r] /\ UNCHANGED env /\ run[s].pc \in Opened
    BY <1>4, <2>1, <2>2 DEF WaitForRole, files, Opened
  <2>4. run[s] \in Run
    BY <1>4, RunParts DEF WaitForRole
  <2>5. r.is = run[s].is /\ r.pc = "install"
    BY <2>2, <2>4 DEF Run
  <2> QED
    BY <1>0, <2>3, <2>5
<1>5. ASSUME NEW s \in Servers, Save(s) \/ Interrupt(s) \/ Reinstall(s)
      PROVE  Goal
  <2>1. run'[s] = Idle /\ (s # t => run'[t] = run[t] /\ env'[t] = env[t])
    BY <1>0, <1>5 DEF Save, Interrupt, Reinstall, files, TypeOK
  <2> QED
    BY <1>0, <2>1
<1>6. CASE serving # NONE /\ Refused /\ UNCHANGED env
  BY <1>0, <1>6, RefusedParts
<1>7. CASE Respond
  <2>1. serving # NONE /\ serving.step = "respond" /\ UNCHANGED env
    BY <1>7 DEF Respond, files
  <2>2. profile[serving.req.is.name] # NONE
    BY <2>1 DEF SessionInv
  <2>3. serving.req.live => run[serving.req.from].pc = "asking" /\ run[serving.req.from].is = serving.req.is
    BY <2>1 DEF AskInv, Waits
  <2>4. ~serving.req.live \/ t # serving.req.from => run'[t] = run[t]
    BY <1>7, <2>1, <2>2, <2>3, RespondParts
  <2> QED
    BY <1>7, <2>1, <2>4
<1>8. \A s \in Servers : \A c : Report(s, c) \/ StopRemoved(s, c) => UNCHANGED <<run, env>>
  BY DEF Report, StopRemoved, files
<1>9. \A r : TakeLock(r) => UNCHANGED <<run, env>>
  BY DEF TakeLock, files
<1>10. WriteProfile \/ Register \/ Authorize \/ PrepareFails =>
         UNCHANGED env /\ (UNCHANGED run \/ (serving # NONE /\ Refused))
  BY DEF WriteProfile, Register, Authorize, PrepareFails, files
<1>11. UNCHANGED vars => UNCHANGED <<run, env>>
  BY DEF vars, files
<1> HIDE DEF Goal
<1>12. UNCHANGED <<run, env>> => Goal
  BY DEF Goal
<1>13. CASE \E s \in Servers : Start(s) \/ \E a \in Answers : StartOtherwise(s, a)
  BY <1>1, <1>13, WantedIsAnAnswer DEF Start, StartOtherwise
<1>14. CASE \E s \in Servers : Wizard(s) \/ Interrupt(s) \/ Reinstall(s)
  BY <1>2, <1>3, <1>4, <1>5, <1>8, <1>12, <1>14 DEF Wizard
<1>15. CASE Prepare \/ PrepareFails
  BY <1>6, <1>7, <1>10, <1>12, <1>15 DEF Prepare
<1>16. CASE (\E s \in Servers : \E c \in containers[s] : Report(s, c)) \/ (\E r \in asked : TakeLock(r))
  BY <1>8, <1>9, <1>12, <1>16
<1>17. Goal
  BY <1>11, <1>12, <1>13, <1>14, <1>15, <1>16 DEF Next
<1> QED
  BY <1>17

\* The row a run was told of, or has written down.
Told(s) == run[s].got # NONE /\ run[s].got = node[run[s].is.name]
Noted(s) == env[s][run[s].is.name] # NONE /\ env[s][run[s].is.name] = node[run[s].is.name]

LEMMA RunInvStep ==
  ASSUME TypeOK, NamesInv, SessionInv, AskInv, RunInv, [Next]_vars
  PROVE  RunInv'
<1> SUFFICES ASSUME NEW t \in Servers
             PROVE  /\ run'[t].pc = "answered" /\ Network(run'[t].is) => Told(t)'
                    /\ run'[t].pc \in Opened /\ Network(run'[t].is) => Noted(t)'
  BY DEF RunInv, Told, Noted
<1>0. /\ run[t].pc = "answered" /\ Network(run[t].is) => Told(t)
      /\ run[t].pc \in Opened /\ Network(run[t].is) => Noted(t)
  BY DEF RunInv, Told, Noted
<1>1. \A n \in Names : node[n] # NONE => node'[n] = node[n]
  BY NodesStay
<1>2. CASE run'[t] = run[t] /\ env'[t] = env[t]
  <2>1. run[t].pc \in Opened \union {"answered"} => run[t].is.name \in Names
    BY RunParts DEF Opened
  <2> QED
    BY <1>0, <1>1, <1>2, <2>1 DEF Told, Noted
<1>3. CASE run'[t].pc \in {"idle", "connect", "asking"}
  BY <1>3 DEF Opened
<1>4. CASE /\ run[t].pc \in Opened /\ run'[t].is = run[t].is /\ env'[t] = env[t]
           /\ run'[t].pc # "answered"
  <2>1. run[t].is.name \in Names
    BY <1>4, RunParts DEF Opened
  <2>2. Network(run[t].is) => Noted(t)'
    BY <1>0, <1>1, <1>4, <2>1 DEF Noted
  <2> QED
    BY <1>4, <2>2
<1>5. CASE Configure(t)
  <2>1. run[t].pc = "answered" /\ run[t].is.name \in Names /\ UNCHANGED node
    BY <1>5, RunParts DEF Configure, mainVars
  <2>2. CASE run' = [run EXCEPT ![t] = Idle]
    BY <2>2 DEF Idle, Opened, TypeOK
  <2>3. CASE /\ env' = [env EXCEPT ![t][run[t].is.name] = run[t].got]
             /\ run' = [run EXCEPT ![t].pc = "tunnel"]
    <3>1. run'[t].pc = "tunnel" /\ run'[t].is = run[t].is
      BY <2>1, <2>3, RunMove
    <3>2. env[t] \in [Names -> Node \union {NONE}]
      BY DEF TypeOK
    <3>3. env'[t][run[t].is.name] = run[t].got
      BY <2>1, <2>3, <3>2 DEF TypeOK
    <3> QED
      BY <1>0, <2>1, <3>1, <3>3 DEF Told, Noted, Opened
  <2> QED
    BY <1>5, <2>2, <2>3 DEF Configure
<1>6. CASE Respond /\ serving.req.live /\ serving.req.from = t
  <2>1. serving # NONE /\ serving.step = "respond" /\ UNCHANGED node
    BY <1>6 DEF Respond, mainVars
  <2>2. profile[serving.req.is.name] # NONE
    BY <2>1 DEF SessionInv
  <2>3. run[t].pc = "asking" /\ run[t].is = serving.req.is
    BY <1>6, <2>1 DEF AskInv, Waits
  <2>4. /\ run'[t].pc = "answered" /\ run'[t].is = run[t].is
        /\ Network(serving.req.is) => run'[t].got = NodeOf(profile[serving.req.is.name])
    BY <1>6, <2>1, <2>2, <2>3, RespondParts
  <2>5. serving.req.is.name \in Names
    BY <2>1, ServingParts
  <2>6. Network(serving.req.is) =>
          /\ node[serving.req.is.name] # NONE
          /\ node[serving.req.is.name] = NodeOf(profile[serving.req.is.name])
    BY <2>1, <2>5 DEF SessionInv, NamesInv
  <2> QED
    BY <2>1, <2>3, <2>4, <2>6 DEF Told, Opened
<1> QED
  BY <1>2, <1>3, <1>4, <1>5, <1>6, RunSteps

\* What a step does to the roles of one server.
LEMMA RoleSteps ==
  ASSUME TypeOK, [Next]_vars, NEW t \in Servers
  PROVE  \/ containers'[t] = containers[t] /\ reported[t] \subseteq reported'[t]
         \/ Install(t)
         \/ \E c \in containers[t] : StopRemoved(t, c)
         \/ Reinstall(t)
<1> DEFINE Goal == \/ containers'[t] = containers[t] /\ reported[t] \subseteq reported'[t]
                   \/ Install(t)
                   \/ \E c \in containers[t] : StopRemoved(t, c)
                   \/ Reinstall(t)
<1> SUFFICES Goal
  OBVIOUS
<1>0. containers \in [Servers -> SUBSET Container] /\ reported \in [Servers -> SUBSET Container]
  BY DEF TypeOK
<1>1. UNCHANGED roleVars => Goal
  BY DEF roleVars
<1>2. ASSUME NEW s \in Servers, Install(s) PROVE Goal
  BY <1>0, <1>2 DEF Install
<1>3. ASSUME NEW s \in Servers, NEW c \in containers[s], StopRemoved(s, c) PROVE Goal
  <2>1. s # t => containers'[t] = containers[t] /\ reported'[t] = reported[t]
    BY <1>0, <1>3 DEF StopRemoved
  <2> QED
    BY <1>3, <2>1
<1>4. ASSUME NEW s \in Servers, Reinstall(s) PROVE Goal
  <2>1. s # t => containers'[t] = containers[t] /\ reported'[t] = reported[t]
    BY <1>0, <1>4 DEF Reinstall
  <2> QED
    BY <1>4, <2>1
<1>5. ASSUME NEW s \in Servers, NEW c \in containers[s], Report(s, c) PROVE Goal
  BY <1>0, <1>5 DEF Report
<1>6. \A s \in Servers, a \in Answers : Begin(s, a) => UNCHANGED roleVars
  BY DEF Begin
<1>7. \A s \in Servers : Ask(s) \/ Configure(s) \/ OpenTunnel(s) \/ WaitForTunnel(s) \/ WaitForRole(s)
                         \/ Save(s) \/ Interrupt(s) => UNCHANGED roleVars
  BY DEF Ask, Configure, OpenTunnel, WaitForTunnel, WaitForRole, Save, Interrupt
<1>8. Prepare \/ PrepareFails => UNCHANGED roleVars
  BY DEF Prepare, WriteProfile, Register, Authorize, Respond, PrepareFails
<1>9. \A r : TakeLock(r) => UNCHANGED roleVars
  BY DEF TakeLock
<1>10. UNCHANGED vars => UNCHANGED roleVars
  BY DEF vars
<1> HIDE DEF Goal
<1>11. CASE \E s \in Servers : Start(s) \/ \E a \in Answers : StartOtherwise(s, a)
  BY <1>1, <1>6, <1>11, WantedIsAnAnswer DEF Start, StartOtherwise
<1>12. CASE \E s \in Servers : Wizard(s) \/ Interrupt(s) \/ Reinstall(s)
  BY <1>1, <1>2, <1>3, <1>4, <1>7, <1>12 DEF Wizard
<1>13. CASE \/ Prepare \/ PrepareFails \/ UNCHANGED vars
            \/ \E s \in Servers : \E c \in containers[s] : Report(s, c)
            \/ \E r \in asked : TakeLock(r)
  BY <1>1, <1>5, <1>8, <1>9, <1>10, <1>13
<1> QED
  BY <1>11, <1>12, <1>13 DEF Next

LEMMA ContainerStep ==
  ASSUME TypeOK, SessionInv, RunInv, RolesInv, ContainerInv, [Next]_vars
  PROVE  ContainerInv'
<1> SUFFICES ASSUME NEW t \in Servers, NEW c \in containers'[t], c.role = "network"
             PROVE  c.node # NONE /\ c.node = node'[c.name]
  BY DEF ContainerInv
<1>0. \A d \in containers[t] : d \in Container /\ d.name \in Names
  BY DEF TypeOK, Container
<1>1. \A n \in Names : node[n] # NONE => node'[n] = node[n]
  BY NodesStay
<1>2. CASE c \in containers[t]
  BY <1>0, <1>1, <1>2 DEF ContainerInv
<1>3. CASE c \notin containers[t]
  <2>1. Install(t)
    <3>1. \A d \in containers[t] : StopRemoved(t, d) => containers'[t] \subseteq containers[t]
      BY DEF StopRemoved, TypeOK
    <3>2. Reinstall(t) => containers'[t] = {}
      BY DEF Reinstall, TypeOK
    <3> QED
      BY <1>3, <3>1, <3>2, RoleSteps
  <2>2. run[t].pc = "install" /\ run[t].todo # {} /\ run[t].todo \in SUBSET Roles /\ UNCHANGED node
    BY <2>1, RunParts DEF Install, mainVars
  <2>3. NextRole(t) \in run[t].todo
    BY <2>2, NextRoleIsLeft
  <2>4. c = Configured(t, NextRole(t))
    BY <1>3, <2>1 DEF Install, TypeOK
  <2>5. c.name = run[t].is.name /\ c.role = NextRole(t) /\ c.node = env[t][run[t].is.name]
    BY <2>2, <2>3, <2>4, ConfiguredParts
  <2>6. Network(run[t].is)
    <3>1. run[t].todo \subseteq run[t].is.roles
      BY <2>2 DEF RolesInv
    <3> QED
      BY <2>3, <2>5, <3>1 DEF Network
  <2> QED
    BY <2>2, <2>5, <2>6 DEF RunInv, Opened
<1> QED
  BY <1>2, <1>3

-----------------------------------------------------------------------------
(* The roles of a selection.                                                *)

\* The steps of a run before it installs roles.
Early == {"connect", "asking", "answered", "tunnel", "reach"}

\* What a step does to the selection of one run.
LEMMA SelectionSteps ==
  ASSUME TypeOK, SessionInv, AskInv, [Next]_vars, NEW t \in Servers
  PROVE  \/ run'[t] = run[t] \/ run'[t].pc = "idle"
         \/ run'[t].pc \in Early /\ run'[t].todo = run'[t].is.roles
         \/ /\ run[t].pc \in Early /\ run'[t].pc \in Early
            /\ run'[t].is = run[t].is /\ run'[t].todo = run[t].todo
         \/ WaitForTunnel(t) \/ Install(t) \/ WaitForRole(t)
<1> DEFINE Goal == \/ run'[t] = run[t] \/ run'[t].pc = "idle"
                   \/ run'[t].pc \in Early /\ run'[t].todo = run'[t].is.roles
                   \/ /\ run[t].pc \in Early /\ run'[t].pc \in Early
                      /\ run'[t].is = run[t].is /\ run'[t].todo = run[t].todo
                   \/ WaitForTunnel(t) \/ Install(t) \/ WaitForRole(t)
<1> SUFFICES Goal
  OBVIOUS
<1>0. Idle.pc = "idle" /\ run \in [Servers -> Run \union {Idle}]
  BY DEF Idle, TypeOK
<1>1. ASSUME NEW s \in Servers, NEW a \in Answers, Begin(s, a) PROVE Goal
  <2>1. PICK r : r = [pc |-> "connect", is |-> a, todo |-> a.roles, got |-> NONE]
    OBVIOUS
  <2>2. run' = [run EXCEPT ![s] = r] /\ r.pc = "connect" /\ r.todo = r.is.roles
    BY <1>1, <2>1 DEF Begin
  <2> QED
    BY <1>0, <2>2 DEF Early
<1>2. ASSUME NEW s \in Servers, Ask(s) \/ OpenTunnel(s) PROVE Goal
  <2>1. PICK p \in {"asking", "reach"} : run' = [run EXCEPT ![s].pc = p]
    BY <1>2 DEF Ask, OpenTunnel
  <2>2. run[s].pc \in Early /\ run[s].pc # "idle"
    BY <1>2 DEF Ask, OpenTunnel, Early
  <2>3. /\ run'[s].pc = p /\ run'[s].is = run[s].is /\ run'[s].todo = run[s].todo
        /\ \A u \in Servers : u # s => run'[u] = run[u]
    BY <2>1, <2>2, RunMove
  <2> QED
    BY <2>2, <2>3 DEF Early
<1>3. ASSUME NEW s \in Servers, Configure(s) PROVE Goal
  <2>1. run[s].pc = "answered" /\ (run' = [run EXCEPT ![s] = Idle] \/ run' = [run EXCEPT ![s].pc = "tunnel"])
    BY <1>3 DEF Configure
  <2>2. CASE run' = [run EXCEPT ![s] = Idle]
    BY <1>0, <2>2
  <2>3. CASE run' = [run EXCEPT ![s].pc = "tunnel"]
    <3>1. /\ run'[s].pc = "tunnel" /\ run'[s].is = run[s].is /\ run'[s].todo = run[s].todo
          /\ \A u \in Servers : u # s => run'[u] = run[u]
      BY <2>1, <2>3, RunMove
    <3> QED
      BY <2>1, <3>1 DEF Early
  <2> QED
    BY <2>1, <2>2, <2>3
<1>4. ASSUME NEW s \in Servers, WaitForTunnel(s) \/ Install(s) \/ WaitForRole(s) PROVE Goal
  <2>1. s # t => run'[t] = run[t]
    BY <1>0, <1>4 DEF WaitForTunnel, Install, WaitForRole
  <2> QED
    BY <1>4, <2>1
<1>5. ASSUME NEW s \in Servers, Save(s) \/ Interrupt(s) \/ Reinstall(s) PROVE Goal
  <2>1. run' = [run EXCEPT ![s] = Idle]
    BY <1>5 DEF Save, Interrupt, Reinstall
  <2> QED
    BY <1>0, <2>1
<1>6. CASE serving # NONE /\ Refused
  BY <1>0, <1>6, RefusedParts
<1>7. CASE Respond
  <2>1. serving # NONE /\ serving.step = "respond"
    BY <1>7 DEF Respond
  <2>2. profile[serving.req.is.name] # NONE
    BY <2>1 DEF SessionInv
  <2>3. serving.req.live => run[serving.req.from].pc = "asking" /\ run[serving.req.from].is = serving.req.is
    BY <2>1 DEF AskInv, Waits
  <2>4. \/ run'[t] = run[t]
        \/ /\ run[t].pc = "asking" /\ run'[t].pc = "answered"
           /\ run'[t].is = run[t].is /\ run'[t].todo = run[t].todo
    BY <1>7, <2>1, <2>2, <2>3, RespondParts
  <2> QED
    BY <2>4 DEF Early
<1>8. \A s \in Servers : \A c : Report(s, c) \/ StopRemoved(s, c) => UNCHANGED run
  BY DEF Report, StopRemoved
<1>9. \A r : TakeLock(r) => UNCHANGED run
  BY DEF TakeLock
<1>10. WriteProfile \/ Register \/ Authorize \/ PrepareFails => UNCHANGED run \/ (serving # NONE /\ Refused)
  BY DEF WriteProfile, Register, Authorize, PrepareFails
<1>11. UNCHANGED vars => UNCHANGED run
  BY DEF vars
<1>12. UNCHANGED run => Goal
  OBVIOUS
<1> HIDE DEF Goal
<1>13. CASE \E s \in Servers : Start(s) \/ \E a \in Answers : StartOtherwise(s, a)
  BY <1>1, <1>13, WantedIsAnAnswer DEF Start, StartOtherwise
<1>14. CASE \E s \in Servers : Wizard(s) \/ Interrupt(s) \/ Reinstall(s)
  BY <1>2, <1>3, <1>4, <1>5, <1>8, <1>12, <1>14 DEF Wizard
<1>15. CASE Prepare \/ PrepareFails
  BY <1>6, <1>7, <1>10, <1>12, <1>15 DEF Prepare
<1>16. CASE \/ UNCHANGED vars \/ \E r \in asked : TakeLock(r)
            \/ \E s \in Servers : \E c \in containers[s] : Report(s, c)
  BY <1>8, <1>9, <1>11, <1>12, <1>16
<1> QED
  BY <1>13, <1>14, <1>15, <1>16 DEF Next

\* What RolesInv says of one server.
Dealt(t) ==
  /\ run[t].pc \in Early => run[t].todo = run[t].is.roles
  /\ run[t].pc \in {"install", "wait"} =>
       /\ run[t].todo \subseteq run[t].is.roles
       /\ \A role \in run[t].is.roles \ run[t].todo : Healthy(t, role)
  /\ run[t].pc = "wait" => run[t].todo # {} /\ Of(t, NextRole(t)) # {}

\* A run that is as it was has its roles, if none of their containers was changed.
LEMMA DealtStays ==
  ASSUME NEW t \in Servers, Dealt(t), run'[t] = run[t], containers'[t] = containers[t],
         reported[t] \subseteq reported'[t]
  PROVE  Dealt(t)'
<1>1. NextRole(t)' = NextRole(t)
  BY DEF NextRole
<1>2. \A role : Of(t, role)' = Of(t, role)
  BY DEF Of
<1>3. \A role : Healthy(t, role) => Healthy(t, role)'
  BY <1>2 DEF Healthy
<1> QED
  BY <1>1, <1>2, <1>3 DEF Dealt

\* The next role is started, and the others are left alone.
LEMMA DealtInstall ==
  ASSUME TypeOK, NEW t \in Servers, Dealt(t), Install(t)
  PROVE  Dealt(t)'
<1>1. /\ run[t].pc = "install" /\ run[t].todo # {} /\ run[t].todo \in SUBSET Roles
      /\ run' = [run EXCEPT ![t].pc = "wait"]
  BY RunParts DEF Install
<1>2. /\ run'[t].pc = "wait" /\ run'[t].is = run[t].is /\ run'[t].todo = run[t].todo
  BY <1>1, RunMove
<1>3. NextRole(t) \in run[t].todo /\ NextRole(t) \in Roles /\ NextRole(t)' = NextRole(t)
  BY <1>1, <1>2, NextRoleIsLeft DEF NextRole
<1>4. PICK c \in Container :
        /\ c.name = run[t].is.name /\ c.role = NextRole(t)
        /\ containers'[t] = (containers[t] \ Of(t, NextRole(t))) \union {c}
        /\ reported'[t] = reported[t] \ (Of(t, NextRole(t)) \ {c})
  <2>1. PICK c : c = Configured(t, NextRole(t))
    OBVIOUS
  <2>2. c \in Container /\ c.name = run[t].is.name /\ c.role = NextRole(t)
    BY <1>1, <1>3, <2>1, ConfiguredParts
  <2>3. /\ containers'[t] = (containers[t] \ Of(t, NextRole(t))) \union {c}
        /\ reported'[t] = reported[t] \ (Of(t, NextRole(t)) \ {c})
    BY <2>1 DEF Install, TypeOK
  <2> QED
    BY <2>2, <2>3
<1>5. c \in Of(t, NextRole(t))'
  BY <1>2, <1>3, <1>4 DEF Of
<1>6. ASSUME NEW role, role # NextRole(t), Healthy(t, role)
      PROVE  Healthy(t, role)'
  <2>1. Of(t, role)' = Of(t, role)
    BY <1>2, <1>4, <1>6 DEF Of
  <2>2. \A d \in Of(t, role) : d \notin Of(t, NextRole(t))
    BY <1>6 DEF Of
  <2> QED
    BY <1>4, <1>6, <2>1, <2>2 DEF Healthy
<1>7. \A role \in run[t].is.roles \ run[t].todo : Healthy(t, role)'
  BY <1>1, <1>3, <1>6 DEF Dealt
<1>8. run[t].todo \subseteq run[t].is.roles
  BY <1>1 DEF Dealt
<1>9. Of(t, NextRole(t))' # {}
  BY <1>5
<1> QED
  BY <1>1, <1>2, <1>7, <1>8, <1>9 DEF Dealt, Early

\* The role that was started has reported.
LEMMA DealtWait ==
  ASSUME TypeOK, NEW t \in Servers, Dealt(t), WaitForRole(t)
  PROVE  Dealt(t)'
<1>1. run[t].pc = "wait" /\ run[t] \in Run /\ UNCHANGED <<containers, reported>>
  BY RunParts DEF WaitForRole, roleVars
<1>2. PICK left : left = run[t].todo \ {NextRole(t)}
  OBVIOUS
<1>3. PICK r : r = [run[t] EXCEPT !.pc = "install", !.todo = left]
  OBVIOUS
<1>4. run' = [run EXCEPT ![t] = r]
  BY <1>2, <1>3 DEF WaitForRole
<1>5. run'[t] = r /\ r.pc = "install" /\ r.todo = left /\ r.is = run[t].is
  BY <1>1, <1>3, <1>4 DEF Run, TypeOK
<1>6. \A role : Healthy(t, role) => Healthy(t, role)'
  BY <1>1, <1>5 DEF Healthy, Of
<1>7. Healthy(t, NextRole(t))
  BY <1>1 DEF WaitForRole, Dealt, Healthy
<1>8. run[t].todo \subseteq run[t].is.roles /\ \A role \in run[t].is.roles \ run[t].todo : Healthy(t, role)
  BY <1>1 DEF Dealt
<1>9. \A role \in run[t].is.roles \ left : Healthy(t, role)
  BY <1>2, <1>7, <1>8
<1>10. \A role \in run[t].is.roles \ left : Healthy(t, role)'
  BY <1>6, <1>9
<1> QED
  BY <1>2, <1>5, <1>8, <1>10 DEF Dealt, Early

\* Only roles that are not of the selection are stopped.
LEMMA DealtStop ==
  ASSUME TypeOK, NEW t \in Servers, Dealt(t), NEW c \in containers[t], StopRemoved(t, c)
  PROVE  Dealt(t)'
<1>1. /\ run[t].pc = "install" /\ run[t].todo = {} /\ UNCHANGED run
      /\ c.role \notin run[t].is.roles
      /\ containers'[t] = containers[t] \ {c} /\ reported'[t] = reported[t] \ {c}
  BY DEF StopRemoved, Removed, TypeOK
<1>2. ASSUME NEW role \in run[t].is.roles, Healthy(t, role)
      PROVE  Healthy(t, role)'
  <2>1. c \notin Of(t, role)
    BY <1>1 DEF Of
  <2>2. Of(t, role)' = Of(t, role)
    BY <1>1, <2>1 DEF Of
  <2> QED
    BY <1>1, <1>2, <2>1, <2>2 DEF Healthy
<1> QED
  BY <1>1, <1>2 DEF Dealt, Early

LEMMA RolesStep ==
  ASSUME TypeOK, SessionInv, AskInv, RolesInv, [Next]_vars
  PROVE  RolesInv'
<1> SUFFICES ASSUME NEW t \in Servers
             PROVE  Dealt(t)'
  BY DEF RolesInv, Dealt, Early
<1>1. Dealt(t)
  BY DEF RolesInv, Dealt, Early
<1>2. CASE Install(t) \/ WaitForRole(t) \/ \E c \in containers[t] : StopRemoved(t, c)
  BY <1>1, <1>2, DealtInstall, DealtWait, DealtStop
<1>3. CASE run'[t].pc = "idle"
  BY <1>3 DEF Dealt, Early
<1>4. CASE run'[t].pc \in Early /\ run'[t].todo = run'[t].is.roles
  BY <1>4 DEF Dealt, Early
<1>5. CASE /\ run[t].pc \in Early /\ run'[t].pc \in Early
           /\ run'[t].is = run[t].is /\ run'[t].todo = run[t].todo
  BY <1>1, <1>5 DEF Dealt, Early
<1>6. CASE WaitForTunnel(t)
  <2>1. run[t].pc = "reach" /\ run' = [run EXCEPT ![t].pc = "install"]
    BY <1>6 DEF WaitForTunnel
  <2>2. run'[t].pc = "install" /\ run'[t].is = run[t].is /\ run'[t].todo = run[t].todo
    BY <2>1, RunMove
  <2> QED
    BY <1>1, <2>1, <2>2 DEF Dealt, Early
<1>7. CASE run'[t] = run[t] /\ containers'[t] = containers[t] /\ reported[t] \subseteq reported'[t]
  BY <1>1, <1>7, DealtStays
<1>8. Reinstall(t) => run'[t].pc = "idle"
  BY DEF Reinstall, Idle, TypeOK
<1> QED
  BY <1>2, <1>3, <1>4, <1>5, <1>6, <1>7, <1>8, RoleSteps, SelectionSteps

-----------------------------------------------------------------------------
(* Theorems.                                                                *)

LEMMA EnrollmentInit == Init => EnrollmentInv
<1> SUFFICES ASSUME Init PROVE EnrollmentInv
  OBVIOUS
<1>1. NamesInv /\ SessionInv /\ ContainerInv
  BY DEF Init, NamesInv, SessionInv, ContainerInv
<1>2. \A s \in Servers : run[s].pc = "idle"
  BY DEF Init, Idle
<1>3. AskInv /\ RunInv /\ RolesInv
  BY <1>2 DEF Init, AskInv, RunInv, RolesInv, Opened
<1> QED
  BY <1>1, <1>3, TypeInit DEF EnrollmentInv

LEMMA EnrollmentStep == EnrollmentInv /\ [Next]_vars => EnrollmentInv'
<1> SUFFICES ASSUME EnrollmentInv, [Next]_vars PROVE EnrollmentInv'
  OBVIOUS
<1>1. TypeOK /\ NamesInv /\ SessionInv /\ AskInv /\ RunInv /\ ContainerInv /\ RolesInv
  BY DEF EnrollmentInv
<1> QED
  BY <1>1, TypeStep, NamesStep, SessionStep, AskStep, RunInvStep, ContainerStep, RolesStep DEF EnrollmentInv

\* The invariant above holds whatever is interrupted, refused or installed anew.
THEOREM EnrollmentInvariant == Spec => []EnrollmentInv
BY EnrollmentInit, EnrollmentStep, PTL DEF Spec

\* Files, rows, sessions and runs keep their types: a profile has a key, and a run
\* the answer it was given.
THEOREM EnrollmentTypeCorrect == Spec => []TypeOK
<1>1. EnrollmentInv => TypeOK
  BY DEF EnrollmentInv
<1> QED
  BY <1>1, EnrollmentInvariant, PTL

\* A name is one server's: its key, its row and its network worker are those of
\* its profile, whoever asks for it and wherever an enrollment breaks off
\* (profile_for, REGISTER_NODE, authorize_link).
THEOREM IdentityIsOne == Spec => []OneIdentity
<1>1. EnrollmentInv => OneIdentity
  BY DEF EnrollmentInv, NamesInv, ContainerInv, OneIdentity
<1> QED
  BY <1>1, EnrollmentInvariant, PTL

\* What a step puts out of service, when the server is not installed anew.
LEMMA OnlyStopRemovedDrops ==
  ASSUME TypeOK, [Next]_vars, NEW s \in Servers, gen'[s] = gen[s], Dropped(s) # {}
  PROVE  run[s].pc = "install" /\ run[s].todo = {}
<1>1. CASE containers'[s] = containers[s]
  BY <1>1 DEF Dropped
<1>2. CASE Install(s)
  <2>1. run[s].pc # "idle" /\ run[s].todo # {} /\ run[s].todo \in SUBSET Roles
    BY <1>2, RunParts DEF Install
  <2>2. NextRole(s) \in Roles
    BY <2>1, NextRoleIsLeft
  <2>3. PICK c : c = Configured(s, NextRole(s))
    OBVIOUS
  <2>4. c.name = run[s].is.name /\ c.role = NextRole(s)
    BY <2>1, <2>2, <2>3, ConfiguredParts
  <2>5. containers'[s] = (containers[s] \ Of(s, NextRole(s))) \union {c}
    BY <1>2, <2>3 DEF Install, TypeOK
  <2>6. \A d \in containers[s] : \E e \in containers'[s] : <<e.name, e.role>> = <<d.name, d.role>>
    <3> TAKE d \in containers[s]
    <3>1. CASE d \in Of(s, NextRole(s))
      BY <2>4, <2>5, <3>1 DEF Of
    <3>2. CASE d \notin Of(s, NextRole(s))
      BY <2>5, <3>2
    <3> QED
      BY <3>1, <3>2
  <2> QED
    BY <2>6 DEF Dropped
<1>3. CASE \E c \in containers[s] : StopRemoved(s, c)
  BY <1>3 DEF StopRemoved
<1>4. CASE Reinstall(s)
  BY <1>4 DEF Reinstall, TypeOK
<1> QED
  BY <1>1, <1>2, <1>3, <1>4, RoleSteps

\* A role is stopped only when each role of the new selection runs and has reported
\* since it was started, however often the wizard broke off before
\* (install_additional, wait_for_role).
THEOREM StopsAfterHealthy == Spec => StopsOnlyAfterHealthy
<1>1. ASSUME EnrollmentInv, [Next]_vars
      PROVE  \A s \in Servers :
               gen'[s] = gen[s] /\ Dropped(s) # {} =>
                 \A role \in run[s].is.roles : Of(s, role) # {} /\ Of(s, role) \subseteq reported[s]
  <2> SUFFICES ASSUME NEW s \in Servers, gen'[s] = gen[s], Dropped(s) # {}
               PROVE  \A role \in run[s].is.roles : Healthy(s, role)
    BY DEF Healthy
  <2>1. TypeOK /\ RolesInv
    BY <1>1 DEF EnrollmentInv
  <2>2. run[s].pc = "install" /\ run[s].todo = {}
    BY <1>1, <2>1, OnlyStopRemovedDrops
  <2> QED
    BY <2>1, <2>2 DEF RolesInv
<1> QED
  BY <1>1, EnrollmentInvariant, PTL DEF Spec, StopsOnlyAfterHealthy
=============================================================================
