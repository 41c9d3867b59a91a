------------------------------- MODULE Setup -------------------------------
(***************************************************************************)
(* Docker is installed or started: `locastack setup` (or the offer of the  *)
(* bare command and of doctor) in a terminal, and Start Docker in the      *)
(* dashboard, on one machine that its user and the other process change    *)
(* while they run.  The plan is built from what was seen some time before  *)
(* it runs, and the dashboard plans twice.                                 *)
(***************************************************************************)
EXTENDS SetupPlan, FiniteSets

CONSTANTS
    Machines,   \* the machines setup may find
    Shared,     \* those on which the dashboard runs and the user interferes too
    Requests,   \* what --runtime, --start-at-login and a click may ask for
    MaxRuns,    \* bound: setup commands
    MaxClicks,  \* bound: clicks on Start Docker
    MaxOutside  \* bound: changes by the user

MachineType ==
    [os : STRING, root : BOOLEAN, systemd : BOOLEAN, brews : SUBSET Builds, path : Seq(Builds),
     kegs : SUBSET (Builds \cup {"other"}), apps : SUBSET Runtimes,
     cli : SUBSET (Builds \cup {"app"}), formula : SUBSET Builds,
     plugin : {"missing", "old", "ok"}, bundled : {"old", "ok"}, up : SUBSET Runtimes,
     booting : SUBSET Runtimes, stale : SUBSET Runtimes, context : Runtimes \cup {"none"},
     host : Runtimes \cup {"none", "foreign"}, oldApi : BOOLEAN, session : BOOLEAN]

ASSUME MachinesAssumption == Machines \subseteq MachineType
ASSUME ClicksAssumption == MaxClicks \in Nat

Cli == 0
Ops == 1..MaxClicks
Procs == {Cli} \cup Ops

VARIABLES
    machine, \* the machine
    run,     \* what each process is doing
    ask,     \* the plan printed last, the plan agreed to, and --yes
    paths,   \* the Homebrew the command and the server put on their PATH
    server,  \* the click being planned and the last operation
    left     \* what may still happen

vars == <<machine, run, ask, paths, server, left>>

AnyRuntime == [runtime |-> "any", login |-> FALSE]
Idle == [pc |-> "idle", plan |-> NoPlan("none"), i |-> 1, bad |-> {}, opt |-> AnyRuntime,
         calm |-> TRUE]
Ended == {"idle", "ready", "relogin", "unhealed"}
Add(p) == IF p = Cli THEN paths.cli ELSE paths.server
Now(p) == run[p].plan.steps[run[p].i]
Active(p) == run[p].pc \notin Ended

(* Nothing to do, refused, declined, killed, failed or timed out: all alike from outside. *)
Stops(p) == run' = [run EXCEPT ![p] = Idle]

Init ==
    /\ machine \in Machines
    /\ run = [p \in Procs |-> Idle]
    /\ ask = [shown |-> NoPlan("none"), agreed |-> NoPlan("none"), yes |-> FALSE]
    /\ paths = [cli |-> "none", server |-> "none"]
    /\ server = [starting |-> FALSE, opt |-> AnyRuntime, last |-> 0]
    /\ left = IF machine \in Shared
              THEN [runs |-> MaxRuns, clicks |-> MaxClicks, outside |-> MaxOutside]
              ELSE [runs |-> 1, clicks |-> 0, outside |-> 0]

Goto(p, pc) == run' = [run EXCEPT ![p].pc = pc]

(* The machine changes under whoever else is at work. *)
Changes(p, m, r) ==
    /\ machine' = m
    /\ run' = [q \in Procs |->
                 IF q = p THEN r
                 ELSE [run[q] EXCEPT !.calm = @ /\ (m = machine \/ ~Active(q))]]

-----------------------------------------------------------------------------
(* The command: doctor, then the plan, then consent *)

SetupCommand(opt, yes) ==
    /\ ~Active(Cli)
    /\ left.runs > 0
    /\ run' = [run EXCEPT ![Cli] = [Idle EXCEPT !.pc = "planning", !.opt = opt,
                                                  !.bad = Doctor(machine, "none")]]
    /\ ask' = [ask EXCEPT !.yes = yes]
    /\ paths' = [paths EXCEPT !.cli = "none"]
    /\ left' = [left EXCEPT !.runs = @ - 1]
    /\ UNCHANGED <<machine, server>>

PlanFor(p, opt) == BuildSetupPlan(Facts(machine, Add(p)), run[p].bad, opt)

PlanCommand ==
    LET plan == PlanFor(Cli, run[Cli].opt)
        runs == plan.kind \in {"start", "install"}
    IN  /\ run[Cli].pc = "planning"
        /\ IF runs THEN run' = [run EXCEPT ![Cli].plan = plan,
                                           ![Cli].pc = IF ask.yes THEN "next" ELSE "asking"]
           ELSE Stops(Cli)
        /\ ask' = [ask EXCEPT !.shown = plan, !.agreed = IF runs /\ ask.yes THEN plan ELSE @]
        /\ UNCHANGED <<machine, paths, server, left>>

(* The other options of the select: another runtime, or Colima at login. *)
PlanChoices(plan, opt) ==
    IF plan.provider = "none" THEN {}
    ELSE LET runtimes == {plan.provider} \cup (IF opt.runtime = "any" THEN plan.alternatives ELSE {})
         IN  {[runtime |-> r, login |-> opt.login] : r \in runtimes \ {plan.provider}}
               \cup {[runtime |-> r, login |-> TRUE] :
                       r \in {q \in runtimes \cap {"colima"} : plan.kind = "install" /\ ~opt.login}}

(* Faulty: the choice of another runtime counts as the consent. *)
PickRuns(opt) ==
    LET other == PlanFor(Cli, opt)
    IN  /\ run[Cli].pc = "asking"
        /\ opt \in PlanChoices(run[Cli].plan, run[Cli].opt)
        /\ other.kind \in {"start", "install"}
        /\ run' = [run EXCEPT ![Cli].plan = other, ![Cli].opt = opt, ![Cli].pc = "next"]
        /\ UNCHANGED <<machine, ask, paths, server, left>>

(* Planned again from the same report, printed, and asked about on its own. *)
Pick(opt) ==
    LET other == PlanFor(Cli, opt)
    IN  /\ run[Cli].pc = "asking"
        /\ opt \in PlanChoices(run[Cli].plan, run[Cli].opt)
        /\ IF other.kind \in {"start", "install"}
           THEN run' = [run EXCEPT ![Cli].plan = other, ![Cli].opt = opt, ![Cli].pc = "confirming"]
           ELSE Stops(Cli)
        /\ ask' = [ask EXCEPT !.shown = other]
        /\ UNCHANGED <<machine, paths, server, left>>

Agree ==
    /\ run[Cli].pc \in {"asking", "confirming"}
    /\ Goto(Cli, "next")
    /\ ask' = [ask EXCEPT !.agreed = ask.shown]
    /\ UNCHANGED <<machine, paths, server, left>>

(* "Not now", a cancelled prompt, or "Cancel setup" before the downloaded script. *)
Decline ==
    /\ run[Cli].pc \in {"asking", "confirming", "script"}
    /\ Stops(Cli)
    /\ UNCHANGED <<machine, ask, paths, server, left>>

(* Ctrl-C: the command under way may have come to its end. *)
Kill ==
    /\ Active(Cli)
    /\ \E m \in {machine} \cup (IF run[Cli].pc = "command" /\ Able(machine, Add(Cli), Now(Cli))
                                THEN {Does(machine, Now(Cli))} ELSE {}) :
         Changes(Cli, m, Idle)
    /\ UNCHANGED <<ask, paths, server, left>>

-----------------------------------------------------------------------------
(* Running a plan, in the command and in an operation of the server *)

BeginStep(p) ==
    LET plan == run[p].plan
        i == run[p].i
    IN  /\ run[p].pc = "next"
        /\ i <= Len(plan.steps)
        /\ Goto(p, IF p = Cli /\ ~ask.yes /\ i > 1 /\ Downloads(plan.steps[i - 1])
                   THEN "script" ELSE "command")
        /\ UNCHANGED <<machine, ask, paths, server, left>>

RunScript ==
    /\ run[Cli].pc = "script"
    /\ Goto(Cli, "command")
    /\ UNCHANGED <<machine, ask, paths, server, left>>

CommandDone(p) ==
    /\ run[p].pc = "command"
    /\ Able(machine, Add(p), Now(p))
    /\ Changes(p, Does(machine, Now(p)), [run[p] EXCEPT !.pc = "next", !.i = @ + 1])
    /\ UNCHANGED <<ask, paths, server, left>>

(* A status other than 0, a binary that is missing, or the time limit of a captured step. *)
CommandFailed(p) ==
    /\ run[p].pc = "command"
    /\ Stops(p)
    /\ UNCHANGED <<machine, ask, paths, server, left>>

StepsDone(p) ==
    /\ run[p].pc = "next"
    /\ run[p].i > Len(run[p].plan.steps)
    /\ paths' = IF run[p].plan.add = "none" THEN paths
                ELSE IF p = Cli THEN [paths EXCEPT !.cli = run[p].plan.add]
                ELSE [paths EXCEPT !.server = run[p].plan.add]
    /\ Goto(p, IF run[p].plan.relogin THEN "checking" ELSE "waiting")
    /\ UNCHANGED <<machine, ask, server, left>>

(* The waiter asks at least once, and until its deadline. *)
Waited(p) ==
    /\ run[p].pc = "waiting"
    /\ IF Reachable(machine, Add(p)) THEN Goto(p, "checking") ELSE Stops(p)
    /\ UNCHANGED <<machine, ask, paths, server, left>>

Check(p) ==
    /\ run[p].pc = "checking"
    /\ \E bad \in {Doctor(machine, Add(p))} :
         run' = [run EXCEPT ![p].bad = bad,
                            ![p].pc = IF bad # {} /\ ~run[p].plan.relogin THEN "unhealed"
                                      ELSE IF p = Cli THEN "summing"
                                      ELSE IF bad = {} THEN "ready" ELSE "relogin"]
    /\ UNCHANGED <<machine, ask, paths, server, left>>

(* The command takes one more report for its summary. *)
SumUp ==
    /\ run[Cli].pc = "summing"
    /\ IF Doctor(machine, Add(Cli)) = {} THEN Goto(Cli, "ready")
       ELSE IF run[Cli].plan.relogin THEN Goto(Cli, "relogin") ELSE Stops(Cli)
    /\ UNCHANGED <<machine, ask, paths, server, left>>

-----------------------------------------------------------------------------
(* Start Docker: a click joins the start that runs or is being planned *)

Joins == server.starting \/ (server.last > 0 /\ Active(server.last))

Click(opt) ==
    /\ left.clicks > 0
    /\ left' = [left EXCEPT !.clicks = @ - 1]
    /\ server' = IF Joins THEN server ELSE [server EXCEPT !.starting = TRUE, !.opt = opt]
    /\ UNCHANGED <<machine, run, ask, paths>>

FreshPlans(opt) ==
    UNION {{BuildSetupPlan(f, bad, opt) : bad \in {Doctor(machine, paths.server)}} :
             f \in {Facts(machine, paths.server)}}

(* Plans the dashboard cannot run are refused here; the operation plans for itself. *)
LaunchStart ==
    /\ server.starting
    /\ \E plan \in FreshPlans(server.opt) :
         IF plan.kind = "none" \/ (plan.kind = "start" /\ ~plan.terminal)
         THEN /\ server' = [server EXCEPT !.starting = FALSE, !.last = @ + 1]
              /\ run' = [run EXCEPT ![server.last + 1] =
                                       [Idle EXCEPT !.pc = "planning", !.opt = server.opt]]
         ELSE /\ server' = [server EXCEPT !.starting = FALSE]
              /\ UNCHANGED run
    /\ UNCHANGED <<machine, ask, paths, left>>

StartDockerRuntime(n) ==
    /\ run[n].pc = "planning"
    /\ \E plan \in FreshPlans(run[n].opt) :
         IF plan.kind = "start" /\ ~plan.terminal
         THEN run' = [run EXCEPT ![n].plan = plan, ![n].pc = "next", ![n].calm = TRUE]
         ELSE Stops(n)
    /\ UNCHANGED <<machine, ask, paths, server, left>>

-----------------------------------------------------------------------------
(* Outside: apps come up, and the user quits, starts and removes runtimes *)

Outside(m) ==
    /\ machine' = m
    /\ run' = [p \in Procs |-> [run[p] EXCEPT !.calm = @ /\ ~Active(p)]]
    /\ UNCHANGED <<ask, paths, server>>

Boot ==
    /\ \E r \in machine.booting, context \in {"docker-desktop", "orbstack"} :
         /\ context \in {r, machine.context}
         /\ machine' = Booted(machine, r, context)
    /\ UNCHANGED <<run, ask, paths, server, left>>

Interfere ==
    /\ left.outside > 0
    /\ left' = [left EXCEPT !.outside = @ - 1]
    /\ \E r \in Runtimes :
         \/ /\ r \in machine.up
            /\ Outside([machine EXCEPT !.up = @ \ {r}])
         \/ /\ r \in Facts(machine, "none").installed \ machine.up
            /\ r \in machine.apps \/ machine.kegs # {"intel"}
            /\ Outside([machine EXCEPT !.up = @ \cup {r}])
         \/ /\ r \in Facts(machine, "none").installed
            /\ Outside([machine EXCEPT !.up = @ \ {r}, !.apps = @ \ {r},
                                       !.kegs = IF r = "colima" THEN {} ELSE @])

RunStep(p) == BeginStep(p) \/ CommandDone(p) \/ StepsDone(p) \/ Waited(p) \/ Check(p)

CommandNext ==
    \/ \E opt \in Requests, yes \in BOOLEAN : SetupCommand(opt, yes)
    \/ \E opt \in [runtime : Runtimes, login : BOOLEAN] : Pick(opt)
    \/ PlanCommand \/ Agree \/ Decline \/ RunScript \/ SumUp \/ Kill

ServerNext ==
    \/ \E opt \in Requests : ~opt.login /\ Click(opt)
    \/ LaunchStart
    \/ \E n \in Ops : StartDockerRuntime(n)

Next ==
    \/ CommandNext
    \/ ServerNext
    \/ \E p \in Procs : RunStep(p) \/ CommandFailed(p)
    \/ Boot
    \/ Interfere

Spec == Init /\ [][Next]_vars

-----------------------------------------------------------------------------
(* Properties *)

(* What runs in the terminal is the plan whose commands were printed last, and the user
   agreed to that very plan: picking another runtime in the select is no consent to the
   commands it needs, and the plan is not built again after the answer. *)
RunsWhatWasShown ==
    run[Cli].pc \in {"next", "script", "command"} =>
        run[Cli].plan = ask.shown /\ ask.agreed = ask.shown

(* Start Docker never runs what installs, asks for a password or needs a terminal, though
   between the plan that accepted the click and the operation's own plan a runtime may be
   removed or its docker command taken away. *)
Starts == {"colima.start", "colima.start-at-login", "docker-desktop.start", "orbstack.start",
           "docker-engine.start"}
UnattendedSafe ==
    \A n \in Ops : run[n].pc = "command" =>
        /\ Now(n).id \in Starts
        /\ Now(n).id = "docker-engine.start" => machine.root

(* One start at a time: clicks while a start is planned or runs join it. *)
OneStart == Cardinality({n \in Ops : Active(n)}) <= 1

(* Whatever is clicked and whatever the machine becomes, Start Docker starts a runtime once
   at a time and does nothing else (startDocker, startDockerRuntime). *)
StartsDockerOnly == UnattendedSafe /\ OneStart

(* Nothing runs that nobody agreed to, however the machine changes between what was shown
   and what runs: in the terminal the plan that was printed and answered, from the dashboard
   one start (consentAndRunSetup, startDocker). *)
OnlyAsAgreed == RunsWhatWasShown /\ StartsDockerOnly

(* On a machine nobody else touches, every command of a plan can be carried out, and what
   the commands were for passes doctor afterwards in the same process: the docker command
   found on its PATH, the Compose plugin linked to a Compose that is there. *)
Cures(s) ==
    CASE s.id \in {"docker-cli.install", "colima.install"} ->
           IF "docker" \in s.formulae THEN {"docker.cli"} ELSE {}
      [] s.id = "compose.plugin-link" -> {"compose.plugin", "compose.version"}
      [] s.id \in Starts -> {"docker.socket", "docker.daemon"}
      [] OTHER -> {}
Heals ==
    \A p \in Procs : run[p].calm =>
        /\ run[p].pc = "command" => Able(machine, Add(p), Now(p))
        /\ run[p].pc = "unhealed" =>
             run[p].bad \cap UNION {Cures(s) : s \in Elements(run[p].plan.steps)} = {}

(* While DOCKER_HOST names a daemon, setup starts and installs no other runtime. *)
RuntimeOf(s) ==
    CASE s.id \in {"colima.start", "colima.start-at-login", "colima.install"} -> "colima"
      [] s.id \in {"docker-desktop.start", "docker-desktop.install"} -> "docker-desktop"
      [] s.id \in {"orbstack.start", "orbstack.install"} -> "orbstack"
      [] s.id \in {"docker-engine.start", "docker-engine.enable", "docker-engine.run-script"} ->
           "docker-engine"
      [] OTHER -> "none"
HostObeyed ==
    \A p \in Procs : run[p].pc = "command" /\ machine.host # "none" =>
        RuntimeOf(Now(p)) \in {"none", machine.host}
=============================================================================
