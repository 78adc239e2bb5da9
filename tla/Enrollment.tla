----------------------------- MODULE Enrollment -----------------------------
(* Additional servers join the main one.  The wizard of each server asks the  *)
(* main server for its identity over the operator's SSH session, writes what  *)
(* it is given, opens the tunnel, installs the roles one by one, stops those  *)
(* that were deselected and saves the selection.  Any step may be the last    *)
(* one of a run; the operator runs the wizard again.                          *)
EXTENDS Naturals, Sequences, FiniteSets

CONSTANTS
  Servers, Names,
  Endpoints,   \* the public addresses an operator may type
  Wanted,      \* what the operator of a server means to answer
  MaxFaults,   \* slips of an operator, failures and reinstallations together
  NONE

\* What a run of the wizard asks for; the roles are installed in MODULES' order,
\* and only a network node is asked for its address.
MODULES == <<"billing", "network">>
Roles == {"billing", "network"}
Network(a) == "network" \in a.roles
Answers ==
  {a \in [name : Names, roles : (SUBSET Roles) \ {{}}, endpoint : Endpoints \union {NONE}] :
     Network(a) <=> a.endpoint # NONE}

EnrollmentAssumption ==
  /\ NONE \notin Endpoints
  /\ Wanted \in [Servers -> Answers]
  /\ MaxFaults \in Nat
ASSUME EnrollmentAssumption

\* What the two sides keep of an enrollment.
Keys == Servers \X Nat
Profile == [key : Keys, endpoint : Endpoints \union {NONE}, token : Nat \union {NONE}]
Node == [endpoint : Endpoints \union {NONE}, token : Nat \union {NONE}]
Container == [name : Names, role : Roles, node : Node \union {NONE}]
ASSUME NoneIsNothing == NONE \notin Nat \union Profile \union Node

VARIABLES
  profile,    \* main: /etc/fireisp/pairings
  node,       \* main: the rows of NetworkNode
  auth,       \* main: the keys in authorized_keys, by the name they are tagged with
  minted,     \* main: tokens generated so far
  asked,      \* main: prepare sessions that wait for the lock
  serving,    \* main: the session that holds it
  gen,        \* server: how often it was installed anew; its keys go with it
  env, units, \* server: node.env and the tunnel services
  containers, reported,  \* server: its roles; those that have sent a heartbeat
  saved,      \* server: wizard.json
  run,        \* server: the run of the wizard
  faults

mainVars == <<profile, node, auth, minted>>
sessions == <<asked, serving>>
files == <<env, units>>
roleVars == <<containers, reported>>
vars == <<mainVars, sessions, gen, files, roleVars, saved, run, faults>>

Key(s) == <<s, gen[s]>>
Idle == [pc |-> "idle"]
TunnelUp(s, n) == n \in units[s] /\ Key(s) \in auth[n]

Init ==
  /\ profile = [n \in Names |-> NONE] /\ node = [n \in Names |-> NONE]
  /\ auth = [n \in Names |-> {}] /\ minted = 0
  /\ asked = {} /\ serving = NONE
  /\ gen = [s \in Servers |-> 0]
  /\ env = [s \in Servers |-> [n \in Names |-> NONE]] /\ units = [s \in Servers |-> {}]
  /\ containers = [s \in Servers |-> {}] /\ reported = [s \in Servers |-> {}]
  /\ saved = [s \in Servers |-> NONE] /\ run = [s \in Servers |-> Idle]
  /\ faults = 0

\* Bounded: what is not the course of things counts against MaxFaults.
Slip == faults < MaxFaults /\ faults' = faults + 1

-----------------------------------------------------------------------------
(* The wizard, up to the request.                                             *)

\* A saved selection keeps its name; the first run may be given any.
Begin(s, a) ==
  /\ run[s] = Idle
  /\ saved[s] # NONE => saved[s].name = a.name
  /\ run' = [run EXCEPT ![s] = [pc |-> "connect", is |-> a, todo |-> a.roles, got |-> NONE]]
  /\ UNCHANGED <<mainVars, sessions, gen, files, roleVars, saved>>

Selection(a) == [name |-> a.name, roles |-> a.roles]

\* The operator, until the selection is the one that was meant.
Start(s) == saved[s] # Selection(Wanted[s]) /\ Begin(s, Wanted[s]) /\ UNCHANGED faults
StartOtherwise(s, a) == Begin(s, a) /\ Slip

\* The key of the server is made once; the session waits for the main's lock.
Ask(s) ==
  /\ run[s].pc = "connect"
  /\ run' = [run EXCEPT ![s].pc = "asking"]
  /\ asked' = asked \union {[from |-> s, key |-> Key(s), is |-> run[s].is, live |-> TRUE]}
  /\ UNCHANGED <<mainVars, serving, gen, files, roleVars, saved, faults>>

-----------------------------------------------------------------------------
(* prepare, on the main server.                                               *)

\* What the answer to a session, or its end, does to the run that waits for it.
Back(r, next) == IF r.live THEN [run EXCEPT ![r.from] = next] ELSE run

Refused ==
  /\ serving' = NONE
  /\ run' = Back(serving.req, Idle)

Known == serving.known
Conflict ==
  /\ Known # NONE
  /\ \/ Known.key # serving.req.key
     \/ Network(serving.req.is) /\ Known.endpoint # NONE /\ Known.endpoint # serving.req.is.endpoint

TakeLock(r) ==
  /\ r \in asked /\ serving = NONE
  /\ asked' = asked \ {r}
  /\ serving' = [req |-> r, known |-> profile[r.is.name], step |-> "write"]
  /\ UNCHANGED <<mainVars, gen, files, roleVars, saved, run, faults>>

\* Faulty: every enrollment of a network node generates its token.
ProfileMinting(a, key) ==
  [key |-> key, endpoint |-> a.endpoint,
   token |-> IF Network(a) THEN minted + 1 ELSE NONE]

\* profile_for: the token and the endpoint of an earlier enrollment stay.
ProfileFor(a, key) ==
  [key |-> key,
   endpoint |-> IF Known # NONE /\ Known.token # NONE THEN Known.endpoint
                ELSE a.endpoint,
   token |-> IF Known # NONE /\ Known.token # NONE THEN Known.token
             ELSE IF Network(a) THEN minted + 1 ELSE NONE]

WriteProfile ==
  /\ serving # NONE /\ serving.step = "write"
  /\ UNCHANGED <<node, auth, asked, gen, files, roleVars, saved, faults>>
  /\ \/ /\ Conflict
        /\ Refused /\ UNCHANGED <<profile, minted>>
     \/ /\ ~Conflict
        /\ LET p == ProfileFor(serving.req.is, serving.req.key) IN
           /\ profile' = [profile EXCEPT ![serving.req.is.name] = p]
           /\ minted' = IF p.token = minted + 1 THEN p.token ELSE minted
        /\ serving' = [serving EXCEPT !.step = "register"]
        /\ UNCHANGED run

\* register_network_node, of a node that has no row yet.
NodeOf(p) == [endpoint |-> p.endpoint, token |-> p.token]

\* Faulty: a name that has a row is taken for another server's.
RegisterFresh ==
  /\ serving # NONE /\ serving.step = "register"
  /\ UNCHANGED <<profile, auth, minted, asked, gen, files, roleVars, saved, faults>>
  /\ LET n == serving.req.is.name
         wants == NodeOf(profile[n])
         goOn == serving' = [serving EXCEPT !.step = "authorize"] /\ UNCHANGED run IN
     IF ~Network(serving.req.is) THEN goOn /\ UNCHANGED node
     ELSE \/ node[n] = NONE /\ node' = [node EXCEPT ![n] = wants] /\ goOn
          \/ node[n] # NONE /\ Refused /\ UNCHANGED node

\* REGISTER_NODE: an existing row must be the same one.
Register ==
  /\ serving # NONE /\ serving.step = "register"
  /\ UNCHANGED <<profile, auth, minted, asked, gen, files, roleVars, saved, faults>>
  /\ LET n == serving.req.is.name
         wants == NodeOf(profile[n])
         goOn == serving' = [serving EXCEPT !.step = "authorize"] /\ UNCHANGED run IN
     IF ~Network(serving.req.is) THEN goOn /\ UNCHANGED node
     ELSE \/ node[n] = NONE /\ node' = [node EXCEPT ![n] = wants] /\ goOn
          \/ node[n] = wants /\ goOn /\ UNCHANGED node
          \/ node[n] \notin {NONE, wants} /\ Refused /\ UNCHANGED node

\* authorize_link: the name's line is this key's, or there is none.
Authorize ==
  /\ serving # NONE /\ serving.step = "authorize"
  /\ UNCHANGED <<profile, node, minted, asked, gen, files, roleVars, saved, faults>>
  /\ LET n == serving.req.is.name IN
     \/ /\ auth[n] \subseteq {serving.req.key}
        /\ auth' = [auth EXCEPT ![n] = {serving.req.key}]
        /\ serving' = [serving EXCEPT !.step = "respond"] /\ UNCHANGED run
     \/ /\ ~(auth[n] \subseteq {serving.req.key})
        /\ Refused /\ UNCHANGED auth

\* The answer, to whoever still listens.
Respond ==
  /\ serving # NONE /\ serving.step = "respond"
  /\ LET r == serving.req
         p == profile[r.is.name]
         given == IF Network(r.is) THEN NodeOf(p) ELSE [endpoint |-> NONE, token |-> NONE] IN
     run' = Back(r, [run[r.from] EXCEPT !.pc = "answered", !.got = given])
  /\ serving' = NONE
  /\ UNCHANGED <<mainVars, asked, gen, files, roleVars, saved, faults>>

\* A command fails, the main is being upgraded, or its process dies.
PrepareFails ==
  /\ serving # NONE /\ Slip
  /\ Refused
  /\ UNCHANGED <<mainVars, asked, gen, files, roleVars, saved>>

-----------------------------------------------------------------------------
(* The wizard, with the answer.                                               *)

\* validate_manifest, then node.env.
Configure(s) ==
  /\ run[s].pc = "answered"
  /\ UNCHANGED <<mainVars, sessions, gen, units, roleVars, saved, faults>>
  /\ IF Network(run[s].is) /\ run[s].got.endpoint # run[s].is.endpoint
     THEN run' = [run EXCEPT ![s] = Idle] /\ UNCHANGED env
     ELSE /\ env' = [env EXCEPT ![s][run[s].is.name] = run[s].got]
          /\ run' = [run EXCEPT ![s].pc = "tunnel"]

\* The unit is written once for its name, enabled and started.
OpenTunnel(s) ==
  /\ run[s].pc = "tunnel"
  /\ units' = [units EXCEPT ![s] = @ \union {run[s].is.name}]
  /\ run' = [run EXCEPT ![s].pc = "reach"]
  /\ UNCHANGED <<mainVars, sessions, gen, env, roleVars, saved, faults>>

WaitForTunnel(s) ==
  /\ run[s].pc = "reach" /\ TunnelUp(s, run[s].is.name)
  /\ run' = [run EXCEPT ![s].pc = "install"]
  /\ UNCHANGED <<mainVars, sessions, gen, files, roleVars, saved, faults>>

NextRole(s) ==
  MODULES[CHOOSE i \in DOMAIN MODULES :
            /\ MODULES[i] \in run[s].todo
            /\ \A j \in 1 .. i - 1 : MODULES[j] \notin run[s].todo]
Of(s, role) == {c \in containers[s] : c.name = run[s].is.name /\ c.role = role}
Configured(s, role) ==
  [name |-> run[s].is.name, role |-> role,
   node |-> IF role = "network" THEN env[s][run[s].is.name] ELSE NONE]

\* compose up leaves a role alone that it would start with the same settings.
Install(s) ==
  /\ run[s].pc = "install" /\ run[s].todo # {}
  /\ LET role == NextRole(s)
         c == Configured(s, role) IN
     /\ containers' = [containers EXCEPT ![s] = (@ \ Of(s, role)) \union {c}]
     /\ reported' = [reported EXCEPT ![s] = @ \ (Of(s, role) \ {c})]
  /\ run' = [run EXCEPT ![s].pc = "wait"]
  /\ UNCHANGED <<mainVars, sessions, gen, files, saved, faults>>

\* A role's heartbeat reaches the registry, through the tunnel.
Report(s, c) ==
  /\ c \in containers[s] \ reported[s] /\ TunnelUp(s, c.name)
  /\ reported' = [reported EXCEPT ![s] = @ \union {c}]
  /\ UNCHANGED <<mainVars, sessions, gen, files, containers, saved, run, faults>>

\* Faulty: the role that was just started is taken for healthy.
WaitForNothing(s) ==
  /\ run[s].pc = "wait"
  /\ run' = [run EXCEPT ![s].pc = "install", ![s].todo = @ \ {NextRole(s)}]
  /\ UNCHANGED <<mainVars, sessions, gen, files, roleVars, saved, faults>>

WaitForRole(s) ==
  /\ run[s].pc = "wait" /\ Of(s, NextRole(s)) \subseteq reported[s]
  /\ run' = [run EXCEPT ![s].pc = "install", ![s].todo = @ \ {NextRole(s)}]
  /\ UNCHANGED <<mainVars, sessions, gen, files, roleVars, saved, faults>>

\* Roles of the saved selection that this one has not.
Removed(s) ==
  IF saved[s] = NONE THEN {}
  ELSE {c \in containers[s] : c.name = run[s].is.name /\ c.role \in saved[s].roles \ run[s].is.roles}

StopRemoved(s, c) ==
  /\ run[s].pc = "install" /\ run[s].todo = {} /\ c \in Removed(s)
  /\ containers' = [containers EXCEPT ![s] = @ \ {c}]
  /\ reported' = [reported EXCEPT ![s] = @ \ {c}]
  /\ UNCHANGED <<mainVars, sessions, gen, files, saved, run, faults>>

Save(s) ==
  /\ run[s].pc = "install" /\ run[s].todo = {} /\ Removed(s) = {}
  /\ saved' = [saved EXCEPT ![s] = Selection(run[s].is)]
  /\ run' = [run EXCEPT ![s] = Idle]
  /\ UNCHANGED <<mainVars, sessions, gen, files, roleVars, faults>>

\* The sessions of a run that is over: prepare goes on, nobody listens.
HangUp(s) ==
  LET dead(r) == IF r.from = s THEN [r EXCEPT !.live = FALSE] ELSE r IN
  /\ asked' = {dead(r) : r \in asked}
  /\ serving' = IF serving = NONE THEN NONE ELSE [serving EXCEPT !.req = dead(@)]

\* Control-C, a lost connection, a timeout or any command that fails.
Interrupt(s) ==
  /\ run[s] # Idle /\ Slip
  /\ run' = [run EXCEPT ![s] = Idle]
  /\ HangUp(s)
  /\ UNCHANGED <<mainVars, gen, files, roleVars, saved>>

\* The server is installed anew: nothing of it is left.
Reinstall(s) ==
  /\ Slip
  /\ gen' = [gen EXCEPT ![s] = @ + 1]
  /\ env' = [env EXCEPT ![s] = [n \in Names |-> NONE]] /\ units' = [units EXCEPT ![s] = {}]
  /\ containers' = [containers EXCEPT ![s] = {}] /\ reported' = [reported EXCEPT ![s] = {}]
  /\ saved' = [saved EXCEPT ![s] = NONE] /\ run' = [run EXCEPT ![s] = Idle]
  /\ HangUp(s)
  /\ UNCHANGED mainVars

-----------------------------------------------------------------------------
Wizard(s) ==
  \/ Ask(s) \/ Configure(s) \/ OpenTunnel(s) \/ WaitForTunnel(s)
  \/ Install(s) \/ WaitForRole(s) \/ Save(s)
  \/ \E c \in containers[s] : StopRemoved(s, c)

Prepare == WriteProfile \/ Register \/ Authorize \/ Respond

Next ==
  \/ \E s \in Servers, a \in Answers : StartOtherwise(s, a)
  \/ \E s \in Servers : Start(s) \/ Wizard(s) \/ Interrupt(s) \/ Reinstall(s)
  \/ \E s \in Servers : \E c \in containers[s] : Report(s, c)
  \/ \E r \in asked : TakeLock(r)
  \/ Prepare \/ PrepareFails

Spec == Init /\ [][Next]_vars

\* A run goes on by itself; a heartbeat is sent again until it arrives; the
\* lock of prepare is given to each session in the end; and the operator runs
\* the wizard again, with the right answers.
FairSpec ==
  /\ Spec
  /\ WF_vars(Prepare)
  /\ \A s \in Servers :
       /\ WF_vars(Wizard(s)) /\ WF_vars(\E c \in containers[s] : Report(s, c))
       /\ WF_vars(Start(s))
       /\ SF_vars(\E r \in asked : r.from = s /\ TakeLock(r))

-----------------------------------------------------------------------------
(* Properties.                                                                *)

Request == [from : Servers, key : Keys, is : Answers, live : BOOLEAN]
Session == [req : Request, known : Profile \union {NONE},
            step : {"write", "register", "authorize", "respond"}]
Run == [pc : {"connect", "asking", "answered", "tunnel", "reach", "install", "wait"},
        is : Answers, todo : SUBSET Roles, got : Node \union {NONE}]

TypeOK ==
  /\ profile \in [Names -> Profile \union {NONE}] /\ node \in [Names -> Node \union {NONE}]
  /\ auth \in [Names -> SUBSET Keys] /\ minted \in Nat
  /\ asked \subseteq Request /\ serving \in Session \union {NONE}
  /\ gen \in [Servers -> Nat]
  /\ env \in [Servers -> [Names -> Node \union {NONE}]] /\ units \in [Servers -> SUBSET Names]
  /\ containers \in [Servers -> SUBSET Container] /\ reported \in [Servers -> SUBSET Container]
  /\ saved \in [Servers -> [name : Names, roles : SUBSET Roles] \union {NONE}]
  /\ run \in [Servers -> Run \union {Idle}]
  /\ faults \in 0 .. MaxFaults

\* Whatever was interrupted, and whoever asks for a name that is taken: a name
\* is one server's.  The only key it opens the tunnel to is the one its profile
\* holds, its row in the application has the profile's token and endpoint, and
\* a network worker runs with what that row says.
\* pairing.py profile_for, REGISTER_NODE, authorize_link.
OneIdentity ==
  /\ \A n \in Names :
       /\ auth[n] # {} => profile[n] # NONE /\ auth[n] = {profile[n].key}
       /\ node[n] # NONE => profile[n] # NONE /\ node[n] = NodeOf(profile[n])
  /\ \A s \in Servers : \A c \in containers[s] : c.role = "network" => c.node = node[c.name]

\* Roles that a step takes out of service.
Dropped(s) ==
  {c \in containers[s] : \A d \in containers'[s] : <<d.name, d.role>> # <<c.name, c.role>>}

\* A role is taken out of service only when every role of the new selection has
\* reported to the main server since it was started.
\* wizard.py install_additional, wait_for_role.
StopsOnlyAfterHealthy ==
  [][\A s \in Servers :
       gen'[s] = gen[s] /\ Dropped(s) # {} =>
         \A role \in run[s].is.roles : Of(s, role) # {} /\ Of(s, role) \subseteq reported[s]]_vars

\* A name that is not another key's, nor kept with another endpoint.
Open(s) ==
  LET w == Wanted[s] p == profile[w.name] IN
  /\ saved[s] # NONE => saved[s].name = w.name
  /\ p # NONE => p.key = Key(s) /\ (Network(w) => p.endpoint \in {NONE, w.endpoint})

\* However often an enrollment is cut short, on either side, running the wizard
\* again completes it: no leftover of an attempt bars the next one, except a
\* name or an endpoint that was given away by mistake.
EnrollmentConverges ==
  \A s \in Servers :
    <>[]Open(s) => <>(saved[s] = Selection(Wanted[s]))

\* A run of the wizard that completes leaves the selected roles of this
\* installation running, and no others.
\* docs/distributed-deployment.md:66-68.
\* The code does not keep it (README, Disagreements).
OnlySelectedRun ==
  [][\A s \in Servers :
       saved'[s] \notin {saved[s], NONE} =>
         {c.role : c \in {d \in containers[s] : d.name = run[s].is.name}} \subseteq run[s].is.roles]_vars
=============================================================================
