----------------------------- MODULE SetupPlan -----------------------------
(***************************************************************************)
(* What setup knows and decides, as functions of a machine: the facts the  *)
(* inspector reads with the PATH of this process, the checks doctor fails, *)
(* and the plan built from both.  Also what each planned command does to a *)
(* machine when it succeeds, which is the part of the outside world setup  *)
(* counts on.                                                              *)
(*                                                                         *)
(* A machine is a record:                                                  *)
(*   os, root, systemd   the system                                        *)
(*   brews, path         the Homebrews installed, those on the user's PATH *)
(*   kegs                the builds of Colima ("other": not Homebrew's)    *)
(*   apps                the other runtimes installed                      *)
(*   cli, formula        where `docker` and docker-compose are installed   *)
(*   plugin, bundled     the Compose plugin linked, and the apps' own      *)
(*   up, booting, stale  daemons that answer, that come up, dead sockets   *)
(*   context, host       the docker context and DOCKER_HOST                *)
(*   oldApi, session     the engine is too old; the login is in the group  *)
(***************************************************************************)
EXTENDS Naturals, Sequences

Runtimes == {"colima", "docker-desktop", "orbstack", "docker-engine"}
Builds == {"native", "intel"}
Elements(s) == {s[i] : i \in DOMAIN s}
If(cond, s) == IF cond THEN s ELSE <<>>

MacRuntimes == {"colima", "docker-desktop", "orbstack"}
Rank(os) ==
    IF os = "darwin" THEN <<"docker-desktop", "orbstack", "colima">>
                     ELSE <<"docker-engine", "docker-desktop">>
SocketOrder(os) ==
    IF os = "darwin" THEN <<"docker-desktop", "colima", "orbstack">>
                     ELSE <<"docker-engine", "docker-desktop">>
FirstIn(order, S) ==
    LET found == {i \in DOMAIN order : order[i] \in S}
    IN  IF found = {} THEN "none" ELSE order[CHOOSE i \in found : \A j \in found : i <= j]

-----------------------------------------------------------------------------
(* What a process sees of a machine; add is the Homebrew it put on its PATH *)

PathOf(m, add) == IF add \in {"none"} \cup Elements(m.path) THEN m.path ELSE <<add>> \o m.path

BrewOf(m, add) ==
    LET path == PathOf(m, add)
    IN  IF path # <<>> THEN Head(path) ELSE FirstIn(<<"native", "intel">>, m.brews)

CliFound(m, add) == m.cli \cap (Elements(PathOf(m, add)) \cup {"app"}) # {}
ColimaFound(m, add) == m.kegs \cap (Elements(PathOf(m, add)) \cup {BrewOf(m, add), "other"}) # {}

(* DOCKER_HOST decides alone; then the context whose socket exists; then the first default socket. *)
Located(m, add) ==
    LET sockets == m.up \cup m.stale
        context == IF CliFound(m, add) THEN m.context ELSE "none"
    IN  IF m.host # "none" THEN IF m.host \in sockets THEN m.host ELSE "none"
        ELSE IF context \in sockets THEN context
        ELSE FirstIn(SocketOrder(m.os), sockets)

Denied(m, socket) == socket = "docker-engine" /\ m.os = "linux" /\ ~m.root /\ ~m.session

(* A socket that refuses this user counts as running. *)
Running(m, add) ==
    LET socket == Located(m, add) IN IF socket \in m.up THEN socket ELSE "none"

Reachable(m, add) == Running(m, add) # "none" /\ ~Denied(m, Running(m, add))

Facts(m, add) ==
    [os |-> m.os, root |-> m.root, systemd |-> m.systemd, host |-> m.host,
     brew |-> BrewOf(m, add), brewOnPath |-> PathOf(m, add) # <<>>,
     nativeBrew |-> "native" \in m.brews, intelColima |-> "intel" \in m.kegs,
     intelFormulae |-> "intel" \in m.kegs \cup m.cli \cup m.formula,
     cli |-> CliFound(m, add), running |-> Running(m, add),
     context |-> IF CliFound(m, add) /\ m.host = "none" THEN m.context ELSE "none",
     installed |-> m.apps \cup (IF ColimaFound(m, add) THEN {"colima"} ELSE {}),
     group |-> m.root \/ m.session]

(* Doctor: the checks that fail.  Homebrew, unknown versions and unknown groups only warn. *)
CliFails(m, add) == IF CliFound(m, add) THEN {} ELSE {"docker.cli"}
SocketFails(m, add) == IF Located(m, add) = "none" THEN {"docker.socket"} ELSE {}
DaemonFails(m, add) ==
    IF ~Reachable(m, add) THEN {"docker.daemon"}
    ELSE IF m.oldApi THEN {"docker.api"} ELSE {}
ComposeFails(m, add) ==
    IF ~CliFound(m, add) \/ m.plugin = "missing" THEN {"compose.plugin"}
    ELSE IF m.plugin = "old" THEN {"compose.version"} ELSE {}
GroupFails(m, add) ==
    IF m.os # "linux" \/ m.root \/ m.session \/ Reachable(m, add)
         \/ ("docker-desktop" \in m.apps /\ "docker-engine" \notin m.apps)
    THEN {} ELSE {"docker.group"}
Doctor(m, add) ==
    CliFails(m, add) \cup SocketFails(m, add) \cup DaemonFails(m, add)
      \cup ComposeFails(m, add) \cup GroupFails(m, add)

-----------------------------------------------------------------------------
(* Steps: what runs, under which Homebrew prefix ("path": none), and the formulae it names *)

Step(id, on, formulae) == [id |-> id, on |-> on, formulae |-> formulae]
Plain(id) == Step(id, "path", {})

Sudo(f, s) == ~f.root /\ s.id \in {"docker-engine.run-script", "docker-engine.enable",
                                   "docker-engine.start", "docker-group.add-user"}
Attached(s) == s.id \in {"homebrew.run-installer", "docker-desktop.install", "orbstack.install"}
Downloads(s) == s.id \in {"homebrew.download-installer", "docker-engine.download-script"}

Brew(f) == IF f.brew = "none" THEN "native" ELSE f.brew
BrewOffPath(f) == f.brew = "none" \/ ~f.brewOnPath
RosettaBrew(f) == f.os = "darwin" /\ f.brew = "intel"
HomebrewSteps == <<Plain("homebrew.download-installer"), Plain("homebrew.run-installer")>>
EnsureBrew(f) == If(f.brew = "none", HomebrewSteps)
ComposeLinkSteps(on) == <<Plain("compose.plugin-dir"), Step("compose.plugin-link", on, {})>>

ColimaStart(f, on, login, fresh) ==
    IF login /\ (f.brew # "none" \/ fresh) THEN Step("colima.start-at-login", on, {})
    ELSE Step("colima.start", IF fresh THEN on ELSE "path", {})

StartStep(r) == Plain(CASE r = "docker-desktop" -> "docker-desktop.start"
                        [] r = "orbstack" -> "orbstack.start"
                        [] OTHER -> "docker-engine.start")
GroupStep == Plain("docker-group.add-user")

NoPlan(kind) == [kind |-> kind, provider |-> "none", alternatives |-> {}, steps |-> <<>>,
                 add |-> "none", relogin |-> FALSE, terminal |-> FALSE]
Unsupported == NoPlan("unsupported")

PlanOf(f, kind, provider, alternatives, steps) ==
    [NoPlan(kind) EXCEPT !.provider = provider, !.alternatives = alternatives, !.steps = steps,
                         !.terminal = \E s \in Elements(steps) : Sudo(f, s) \/ Attached(s)]

(* Steps that call a Homebrew off PATH: the process must find what they install. *)
MacPlan(f, kind, provider, alternatives, steps) ==
    LET uses == \E s \in Elements(steps) : s.on = Brew(f) /\ s.id # "compose.plugin-link"
    IN  [PlanOf(f, kind, provider, alternatives, steps) EXCEPT
            !.add = IF uses /\ BrewOffPath(f) THEN Brew(f) ELSE "none"]

-----------------------------------------------------------------------------
(* Building the plan from the facts, the failing checks and the request *)

CliMissing(bad) == "docker.cli" \in bad
DaemonDown(bad) == {"docker.daemon", "docker.socket"} \cap bad # {}
ComposeMissing(bad) == "compose.plugin" \in bad
ComposeOld(bad) == "compose.version" \in bad
Repair(bad) == CliMissing(bad) \/ ComposeMissing(bad) \/ ComposeOld(bad)

Fits(os) == IF os = "darwin" THEN MacRuntimes ELSE {"docker-engine", "docker-desktop"}
Startable(f) == f.installed \cap Fits(f.os)
Preferred(f) == IF f.context \in Startable(f) THEN f.context ELSE FirstIn(Rank(f.os), Startable(f))

CliComposeSteps(f, bad) ==
    LET upgrade == ComposeOld(bad) /\ ~CliMissing(bad) /\ ~ComposeMissing(bad)
                     /\ "colima" \in f.installed
        formulae == (IF CliMissing(bad) THEN {"docker"} ELSE {})
                      \cup (IF Repair(bad) /\ ~upgrade THEN {"docker-compose"} ELSE {})
    IN  If(formulae # {}, <<Step("docker-cli.install", Brew(f), formulae)>>)
          \o If(upgrade, <<Step("compose.upgrade", Brew(f), {"docker-compose"})>>)
          \o If(Repair(bad), ComposeLinkSteps(Brew(f)))

ColimaInstallSteps(f, bad) ==
    LET compose == ~f.cli \/ ComposeMissing(bad) \/ ComposeOld(bad)
    IN  <<Step("colima.install", Brew(f), {"colima"} \cup (IF f.cli THEN {} ELSE {"docker"})
                                            \cup (IF compose THEN {"docker-compose"} ELSE {}))>>
          \o If(compose, ComposeLinkSteps(Brew(f)))

(* The Intel Homebrew's Colima cannot run on Apple silicon: all of it again, natively. *)
RosettaColimaPlan(f, opt) ==
    [PlanOf(f, "install", "colima", MacRuntimes \ {"colima"},
        If(f.intelFormulae, <<Step("homebrew.uninstall-intel-formulae", "intel", {})>>)
          \o If(~f.nativeBrew, HomebrewSteps)
          \o <<Step("colima.install", "native", {"colima", "docker", "docker-compose"})>>
          \o ComposeLinkSteps("native")
          \o <<ColimaStart(f, "native", opt.login, TRUE)>>)
      EXCEPT !.add = "native"]

MacInstallPlan(f, bad, provider, opt) ==
    IF provider = "colima" /\ RosettaBrew(f) THEN RosettaColimaPlan(f, opt)
    ELSE MacPlan(f, "install", provider, MacRuntimes \ {provider},
           EnsureBrew(f) \o
           CASE provider = "colima" ->
                  ColimaInstallSteps(f, bad)
                    \o <<ColimaStart(f, Brew(f), opt.login, BrewOffPath(f))>>
             [] provider = "docker-desktop" ->
                  <<Step("docker-desktop.install", Brew(f), {}), StartStep(provider)>>
             [] OTHER -> <<Step("orbstack.install", Brew(f), {}), StartStep(provider)>>)

MacStartPlan(f, bad, provider, opt, alternatives) ==
    LET offPath == f.brew # "none" /\ ~f.brewOnPath
        start == <<ColimaStart(f, Brew(f), opt.login, offPath)>>
    IN  IF provider # "colima"
        THEN PlanOf(f, "start", provider, alternatives, <<StartStep(provider)>>)
        ELSE IF RosettaBrew(f) /\ f.intelColima THEN RosettaColimaPlan(f, opt)
        ELSE IF ~Repair(bad) THEN MacPlan(f, "start", provider, alternatives, start)
        ELSE MacPlan(f, "install", provider, {},
                     EnsureBrew(f) \o CliComposeSteps(f, bad) \o start)

(* DOCKER_HOST is set and does not answer: only the installed runtime it names may be started. *)
HostRefuses(f, opt) ==
    /\ f.host # "none"
    /\ ~(f.host \in f.installed /\ opt.runtime \in {"any", f.host})
(* Faulty: the runtime the request or the context names, whatever DOCKER_HOST says. *)
StoppedAnywhere(f, opt) ==
    IF opt.runtime = "any" THEN Preferred(f)
    ELSE IF opt.runtime \in Startable(f) THEN opt.runtime ELSE "none"
Stopped(f, opt) ==
    IF f.host # "none" THEN f.host
    ELSE IF opt.runtime = "any" THEN Preferred(f)
    ELSE IF opt.runtime \in Startable(f) THEN opt.runtime ELSE "none"
Others(f, opt) == IF f.host # "none" THEN {} ELSE Startable(f) \ {Stopped(f, opt)}
OutOfReach(f, opt) == f.running # "none" /\ opt.runtime \in {"any", f.running}

PlanMac(f, bad, opt) ==
    IF ~DaemonDown(bad)
    THEN IF \/ "docker.api" \in bad
            \/ ComposeOld(bad) /\ f.running \in {"docker-desktop", "orbstack"}
            \/ ~Repair(bad)
         THEN Unsupported
         ELSE MacPlan(f, "install", "none", {}, EnsureBrew(f) \o CliComposeSteps(f, bad))
    ELSE IF OutOfReach(f, opt) \/ HostRefuses(f, opt) THEN Unsupported
    ELSE IF Stopped(f, opt) # "none"
         THEN MacStartPlan(f, bad, Stopped(f, opt), opt, Others(f, opt))
         ELSE MacInstallPlan(f, bad, IF opt.runtime = "any" THEN "colima" ELSE opt.runtime, opt)

EngineInstallSteps(f) ==
    <<Plain("docker-engine.download-script"), Plain("docker-engine.run-script"),
      IF f.systemd THEN Plain("docker-engine.enable") ELSE StartStep("docker-engine")>>

Relogin(plan) == [plan EXCEPT !.relogin = TRUE]

PlanLinux(f, bad, opt) ==
    LET stopped == Stopped(f, opt)
        needsGroup == ~f.group
        start == <<StartStep(stopped)>>
    IN  IF ~DaemonDown(bad) THEN Unsupported
        ELSE IF OutOfReach(f, opt)
        THEN IF f.running = "docker-engine" /\ needsGroup
             THEN Relogin(PlanOf(f, "install", "none", {}, <<GroupStep>>))
             ELSE Unsupported
        ELSE IF HostRefuses(f, opt) THEN Unsupported
        ELSE IF stopped = "docker-desktop" \/ (stopped = "docker-engine" /\ ~needsGroup)
        THEN PlanOf(f, "start", stopped, Others(f, opt), start)
        ELSE IF stopped = "docker-engine"
        THEN Relogin(PlanOf(f, "install", stopped, {}, start \o <<GroupStep>>))
        ELSE IF opt.runtime \notin {"any", "docker-engine"} THEN Unsupported
        ELSE IF needsGroup
        THEN Relogin(PlanOf(f, "install", "docker-engine", {},
                            EngineInstallSteps(f) \o <<GroupStep>>))
        ELSE PlanOf(f, "install", "docker-engine", {}, EngineInstallSteps(f))

BuildSetupPlan(f, bad, opt) ==
    IF bad = {} THEN NoPlan("none")
    ELSE IF f.os \notin {"darwin", "linux"} \/ opt.runtime \notin {"any"} \cup Fits(f.os)
    THEN Unsupported
    ELSE IF f.os = "darwin" THEN PlanMac(f, bad, opt) ELSE PlanLinux(f, bad, opt)

-----------------------------------------------------------------------------
(* What the commands do *)

(* The Colima that `colima` or the prefix names; the Intel build refuses to start. *)
ColimaRuns(m, add, s) ==
    IF s.on # "path" THEN s.on = "native" /\ "native" \in m.kegs
    ELSE LET order == PathOf(m, add) \o <<"other">>
         IN  FirstIn(order, m.kegs) \in {"native", "other"}

Able(m, add, s) ==
    CASE s.id \in {"colima.start", "colima.start-at-login"} -> ColimaRuns(m, add, s)
      [] s.id = "compose.upgrade" -> s.on \in m.formula
      [] s.id = "docker-desktop.start" -> "docker-desktop" \in m.apps
      [] s.id = "orbstack.start" -> "orbstack" \in m.apps
      [] s.id \in {"docker-engine.start", "docker-engine.enable"} -> "docker-engine" \in m.apps
      [] s.id \in {"colima.install", "docker-cli.install", "docker-desktop.install",
                   "orbstack.install"} -> s.on \in m.brews
      [] OTHER -> TRUE

Formulae(m, s) ==
    [m EXCEPT !.kegs = IF "colima" \in s.formulae THEN @ \cup {s.on} ELSE @,
              !.cli = IF "docker" \in s.formulae THEN @ \cup {s.on} ELSE @,
              !.formula = IF "docker-compose" \in s.formulae THEN @ \cup {s.on} ELSE @]

Does(m, s) ==
    CASE s.id = "homebrew.run-installer" -> [m EXCEPT !.brews = @ \cup {"native"}]
      [] s.id = "homebrew.uninstall-intel-formulae" ->
           [m EXCEPT !.kegs = @ \ {"intel"}, !.cli = @ \ {"intel"}, !.formula = @ \ {"intel"},
                     !.plugin = IF @ # "missing" /\ "intel" \in m.formula THEN "missing" ELSE @]
      [] s.id \in {"colima.install", "docker-cli.install", "compose.upgrade"} -> Formulae(m, s)
      [] s.id = "compose.plugin-link" ->
           [m EXCEPT !.plugin = IF s.on \in m.formula THEN "ok" ELSE "missing"]
      [] s.id \in {"colima.start", "colima.start-at-login"} ->
           [m EXCEPT !.up = @ \cup {"colima"}, !.context = "colima"]
      [] s.id = "docker-desktop.install" -> [m EXCEPT !.apps = @ \cup {"docker-desktop"}]
      [] s.id = "orbstack.install" -> [m EXCEPT !.apps = @ \cup {"orbstack"}]
      [] s.id = "docker-desktop.start" -> [m EXCEPT !.booting = @ \cup {"docker-desktop"}]
      [] s.id = "orbstack.start" -> [m EXCEPT !.booting = @ \cup {"orbstack"}]
      [] s.id = "docker-engine.run-script" ->
           [m EXCEPT !.apps = @ \cup {"docker-engine"}, !.cli = @ \cup {"app"}, !.plugin = "ok"]
      [] s.id \in {"docker-engine.start", "docker-engine.enable"} ->
           [m EXCEPT !.up = @ \cup {"docker-engine"}]
      [] OTHER -> m

(* A desktop app comes up: it links its own commands, and may switch the context. *)
Booted(m, r, context) ==
    [m EXCEPT !.booting = @ \ {r}, !.up = @ \cup {r}, !.context = context,
              !.cli = @ \cup {"app"}, !.plugin = m.bundled]
=============================================================================
