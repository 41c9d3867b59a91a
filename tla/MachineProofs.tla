---------------------------- MODULE MachineProofs ----------------------------
(***************************************************************************)
(* One machine, for any number of processes, binaries, stacks, ports,      *)
(* requests, tabs and snapshots: consent and unattended starts (Setup),    *)
(* host ports, the opening of the state file, and dashboard.json           *)
(* (StateDatabase, Startup), and the index of the snapshots                *)
(* (SnapshotRequests).                                                     *)
(***************************************************************************)
EXTENDS Setup, Startup, SnapshotRequests, FiniteSetTheorems, TLAPS

-----------------------------------------------------------------------------
(* Setup: consent, and starts nobody asked for *)

(* The records have their fields and nothing else. *)
Shaped ==
    /\ run = [p \in Procs |-> run[p]]
    /\ \A p \in Procs :
         run[p] = [pc |-> run[p].pc, plan |-> run[p].plan, i |-> run[p].i, bad |-> run[p].bad,
                   opt |-> run[p].opt, calm |-> run[p].calm]
    /\ ask = [shown |-> ask.shown, agreed |-> ask.agreed, yes |-> ask.yes]
    /\ server = [starting |-> server.starting, opt |-> server.opt, last |-> server.last]

(* The question on the screen is about the plan printed last; the answer was to it. *)
Consent ==
    /\ run[Cli].pc \in {"asking", "confirming"} => run[Cli].plan = ask.shown
    /\ run[Cli].pc \in {"next", "script", "command"} =>
         run[Cli].plan = ask.shown /\ ask.agreed = ask.shown

ConsentInv == Shaped /\ Consent

(* The only active operation is the last one, and none is active while a click is planned. *)
LastOnly ==
    /\ \A n \in Ops : Active(n) => n = server.last
    /\ server.starting => \A n \in Ops : ~Active(n)

StartInv == Shaped /\ LastOnly

(* A plan the dashboard may run: one command, which starts a runtime and asks for nothing. *)
Unattended(plan, root) ==
    /\ Len(plan.steps) = 1
    /\ plan.steps[1].id \in Starts
    /\ plan.steps[1].id = "docker-engine.start" => root

UnattendedInv ==
    /\ Shaped
    /\ "root" \in DOMAIN machine
    /\ \A n \in Ops :
         /\ run[n].i \in Nat \ {0}
         /\ run[n].pc \in {"next", "command"} => Unattended(run[n].plan, machine.root)
         /\ run[n].pc = "command" => run[n].i = 1
         /\ run[n].pc # "script"

(* A list of commands none of which starts or installs a runtime other than DOCKER_HOST's. *)
Obeys(steps, host) ==
    \E S : steps \in Seq(S) /\ \A s \in S : RuntimeOf(s) \in {"none", host}

(* On Linux setup knows no Colima and no OrbStack, so it cannot start them for a DOCKER_HOST. *)
HostFits ==
    \A m \in Machines : m.os = "linux" => m.host \notin {"colima", "orbstack"}

(* A process at a command is within a plan that leaves the other runtimes alone. *)
Commanded(r, host) ==
    /\ Obeys(r.plan.steps, host)
    /\ r.i \in Nat \ {0}
    /\ r.pc \in {"script", "command"} => r.i \in DOMAIN r.plan.steps

HostInv ==
    /\ Shaped
    /\ {"os", "host", "apps"} \subseteq DOMAIN machine
    /\ machine.apps \subseteq Runtimes
    /\ machine.os = "linux" => machine.host \notin {"colima", "orbstack"}
    /\ machine.host # "none" => \A p \in Procs : Commanded(run[p], machine.host)

-----------------------------------------------------------------------------
(* What a step leaves of the processes it does not run *)

LEMMA ProcsFacts == Cli \in Procs /\ Cli \notin Ops /\ Ops \subseteq Procs /\ Ops \subseteq Nat
  BY ClicksAssumption DEF Cli, Ops, Procs

LEMMA ShapedInit == Init => Shaped
  <1> SUFFICES ASSUME Init PROVE Shaped
    OBVIOUS
  <1>1. \A p \in Procs : run[p] = Idle
    BY DEF Init
  <1>2. run = [p \in Procs |-> run[p]]
    BY DEF Init
  <1>3. Idle = [pc |-> Idle.pc, plan |-> Idle.plan, i |-> Idle.i, bad |-> Idle.bad,
                opt |-> Idle.opt, calm |-> Idle.calm]
    BY DEF Idle
  <1>4. ask = [shown |-> ask.shown, agreed |-> ask.agreed, yes |-> ask.yes]
    BY DEF Init
  <1>5. server = [starting |-> server.starting, opt |-> server.opt, last |-> server.last]
    BY DEF Init
  <1> QED
    BY <1>1, <1>2, <1>3, <1>4, <1>5 DEF Shaped

LEMMA ShapedStep == Shaped /\ [Next]_vars => Shaped'
  <1> SUFFICES ASSUME Shaped, [Next]_vars PROVE Shaped'
    OBVIOUS
  <1> USE ProcsFacts
  <1>1. ASSUME NEW opt \in Requests, NEW yes \in BOOLEAN, SetupCommand(opt, yes) PROVE Shaped'
    BY <1>1 DEF SetupCommand, Shaped, Idle
  <1>2. ASSUME NEW opt, Pick(opt) PROVE Shaped'
    BY <1>2 DEF Pick, Shaped, Idle, Stops
  <1>3. CASE PlanCommand
    <2>1. \/ run' = [run EXCEPT ![Cli].plan = ask'.shown,
                               ![Cli].pc = IF ask.yes THEN "next" ELSE "asking"]
          \/ run' = [run EXCEPT ![Cli] = Idle]
      BY <1>3 DEF PlanCommand, Stops, Shaped
    <2>2. /\ ask' = [ask EXCEPT !.shown = ask'.shown, !.agreed = ask'.agreed]
          /\ server' = server
      BY <1>3 DEF PlanCommand, Shaped
    <2>3. ask' = [shown |-> ask'.shown, agreed |-> ask'.agreed, yes |-> ask'.yes]
      BY <2>2 DEF Shaped
    <2>4. \A p \in Procs :
            run'[p] = [pc |-> run'[p].pc, plan |-> run'[p].plan, i |-> run'[p].i,
                       bad |-> run'[p].bad, opt |-> run'[p].opt, calm |-> run'[p].calm]
      BY <2>1 DEF Shaped, Idle
    <2> QED
      BY <2>1, <2>2, <2>3, <2>4 DEF Shaped
  <1>4. CASE Agree \/ Decline \/ RunScript \/ SumUp
    BY <1>4 DEF Agree, Decline, RunScript, SumUp, Goto, Stops, Idle, Shaped
  <1>5. CASE Kill
    <2>1. PICK m : Changes(Cli, m, Idle)
      BY <1>5 DEF Kill
    <2>2. UNCHANGED <<ask, server>>
      BY <1>5 DEF Kill
    <2> QED
      BY <2>1, <2>2 DEF Changes, Idle, Shaped
  <1>6. ASSUME NEW opt, Click(opt) PROVE Shaped'
    BY <1>6 DEF Click, Shaped
  <1>7. CASE LaunchStart
    <2> DEFINE r == [Idle EXCEPT !.pc = "planning", !.opt = server.opt]
    <2>1. run' = [run EXCEPT ![server.last + 1] = r] \/ run' = run
      BY <1>7 DEF LaunchStart
    <2>2. /\ ask' = ask
          /\ \/ server' = [server EXCEPT !.starting = FALSE, !.last = @ + 1]
             \/ server' = [server EXCEPT !.starting = FALSE]
      BY <1>7 DEF LaunchStart
    <2> QED
      BY <2>1, <2>2 DEF Shaped, Idle
  <1>8. ASSUME NEW n \in Ops, StartDockerRuntime(n) PROVE Shaped'
    BY <1>8 DEF StartDockerRuntime, Shaped, Idle, Stops
  <1>9. ASSUME NEW p \in Procs, BeginStep(p) \/ StepsDone(p) \/ Waited(p) PROVE Shaped'
    BY <1>9 DEF BeginStep, StepsDone, Waited, Goto, Stops, Idle, Shaped
  <1>10. ASSUME NEW p \in Procs, CommandDone(p) PROVE Shaped'
    BY <1>10 DEF CommandDone, Changes, Shaped
  <1>11. ASSUME NEW p \in Procs, Check(p) \/ CommandFailed(p) PROVE Shaped'
    BY <1>11 DEF Check, CommandFailed, Stops, Idle, Shaped
  <1>12. CASE Boot \/ UNCHANGED vars
    BY <1>12 DEF Boot, vars, Shaped
  <1>13. CASE Interfere
    BY <1>13 DEF Interfere, Outside, Shaped
  <1> QED
    BY <1>1, <1>2, <1>3, <1>4, <1>5, <1>6, <1>7, <1>8, <1>9, <1>10, <1>11, <1>12, <1>13
    DEF Next, CommandNext, ServerNext, RunStep

-----------------------------------------------------------------------------
(* Consent *)

LEMMA ConsentInit == Init => ConsentInv
  BY ShapedInit, ProcsFacts DEF Init, ConsentInv, Consent, Idle

LEMMA ConsentStep == ConsentInv /\ [Next]_vars => ConsentInv'
  <1> SUFFICES ASSUME Shaped, Consent, [Next]_vars PROVE Consent'
    BY ShapedStep DEF ConsentInv
  <1> USE ProcsFacts
  <1>1. ASSUME NEW opt \in Requests, NEW yes \in BOOLEAN, SetupCommand(opt, yes) PROVE Consent'
    BY <1>1 DEF SetupCommand, Shaped, Idle, Consent
  <1>2. ASSUME NEW opt, Pick(opt) PROVE Consent'
    BY <1>2 DEF Pick, Shaped, Idle, Stops, Consent
  <1>3. CASE PlanCommand
    BY <1>3 DEF PlanCommand, Shaped, Idle, Stops, Consent
  <1>4. CASE Agree \/ Decline \/ RunScript \/ SumUp
    BY <1>4 DEF Agree, Decline, RunScript, SumUp, Goto, Stops, Idle, Shaped, Consent
  <1>5. CASE Kill
    BY <1>5 DEF Kill, Changes, Idle, Shaped, Consent
  <1>6. ASSUME NEW opt, Click(opt) PROVE Consent'
    BY <1>6 DEF Click, Consent
  <1>7. CASE LaunchStart
    <2> DEFINE r == [Idle EXCEPT !.pc = "planning", !.opt = server.opt]
    <2>1. \/ (\E n : run' = [run EXCEPT ![n] = r]) /\ ask' = ask
          \/ UNCHANGED <<run, ask>>
      BY <1>7 DEF LaunchStart
    <2> QED
      BY <2>1 DEF Shaped, Consent, Idle
  <1>8. ASSUME NEW n \in Ops, StartDockerRuntime(n) PROVE Consent'
    BY <1>8 DEF StartDockerRuntime, Shaped, Idle, Stops, Consent
  <1>9. ASSUME NEW p \in Procs, BeginStep(p) \/ StepsDone(p) \/ Waited(p) PROVE Consent'
    BY <1>9 DEF BeginStep, StepsDone, Waited, Goto, Stops, Idle, Shaped, Consent
  <1>10. ASSUME NEW p \in Procs, CommandDone(p) PROVE Consent'
    BY <1>10 DEF CommandDone, Changes, Shaped, Consent
  <1>11. ASSUME NEW p \in Procs, Check(p) \/ CommandFailed(p) PROVE Consent'
    BY <1>11 DEF Check, CommandFailed, Stops, Idle, Shaped, Consent
  <1>12. CASE Boot \/ UNCHANGED vars
    BY <1>12 DEF Boot, vars, Consent
  <1>13. CASE Interfere
    BY <1>13 DEF Interfere, Outside, Shaped, Consent
  <1> QED
    BY <1>1, <1>2, <1>3, <1>4, <1>5, <1>6, <1>7, <1>8, <1>9, <1>10, <1>11, <1>12, <1>13
    DEF Next, CommandNext, ServerNext, RunStep

(* consentAndRunSetup: whatever the machine does between the report, the question and the
   commands, what runs in the terminal is the plan that was printed and agreed to. *)
THEOREM RunsWhatWasShownHolds == Spec => []RunsWhatWasShown
  <1>1. ConsentInv => RunsWhatWasShown
    BY DEF ConsentInv, Consent, RunsWhatWasShown
  <1> QED
    BY <1>1, ConsentInit, ConsentStep, PTL DEF Spec

-----------------------------------------------------------------------------
(* One start at a time *)

LEMMA StartInit == Init => StartInv
  BY ShapedInit, ProcsFacts DEF Init, StartInv, LastOnly, Idle, Active, Ended

(* A process other than a new operation is active afterwards only if it was before. *)
LEMMA NoneWakes ==
    ASSUME Shaped, [Next]_vars, ~LaunchStart
    PROVE  \A n \in Ops : Active(n)' => Active(n)
  <1> USE ProcsFacts DEF Active, Ended
  <1> SUFFICES ASSUME NEW n \in Ops PROVE Active(n)' => Active(n)
    OBVIOUS
  <1>1. ASSUME NEW opt \in Requests, NEW yes \in BOOLEAN, SetupCommand(opt, yes)
        PROVE  Active(n)' => Active(n)
    BY <1>1 DEF SetupCommand, Shaped
  <1>2. ASSUME NEW opt, Pick(opt) PROVE Active(n)' => Active(n)
    BY <1>2 DEF Pick, Shaped, Stops
  <1>3. CASE PlanCommand \/ Agree \/ Decline \/ RunScript \/ SumUp
    BY <1>3 DEF PlanCommand, Agree, Decline, RunScript, SumUp, Goto, Stops, Shaped
  <1>5. CASE Kill
    BY <1>5 DEF Kill, Changes, Shaped
  <1>6. ASSUME NEW opt, Click(opt) PROVE Active(n)' => Active(n)
    BY <1>6 DEF Click
  <1>8. ASSUME NEW q \in Ops, StartDockerRuntime(q) PROVE Active(n)' => Active(n)
    BY <1>8 DEF StartDockerRuntime, Shaped, Idle, Stops
  <1>9. ASSUME NEW p \in Procs, BeginStep(p) \/ StepsDone(p) \/ Waited(p)
        PROVE  Active(n)' => Active(n)
    BY <1>9 DEF BeginStep, StepsDone, Waited, Goto, Stops, Idle, Shaped
  <1>10. ASSUME NEW p \in Procs, CommandDone(p) PROVE Active(n)' => Active(n)
    BY <1>10 DEF CommandDone, Changes, Shaped
  <1>11. ASSUME NEW p \in Procs, Check(p) \/ CommandFailed(p) PROVE Active(n)' => Active(n)
    BY <1>11 DEF Check, CommandFailed, Stops, Idle, Shaped
  <1>12. CASE Boot \/ UNCHANGED vars
    BY <1>12 DEF Boot, vars
  <1>13. CASE Interfere
    BY <1>13 DEF Interfere, Outside, Shaped
  <1> QED
    BY <1>1, <1>2, <1>3, <1>5, <1>6, <1>8, <1>9, <1>10, <1>11, <1>12, <1>13
    DEF Next, CommandNext, ServerNext, RunStep

LEMMA ServerSteps ==
    ASSUME [Next]_vars, ~LaunchStart
    PROVE  (\E opt : Click(opt)) \/ UNCHANGED server
  BY DEF Next, CommandNext, ServerNext, RunStep, SetupCommand, Pick, PlanCommand, Agree, Decline,
         RunScript, SumUp, Kill, StartDockerRuntime, BeginStep, StepsDone, Waited, CommandDone,
         Check, CommandFailed, Boot, Interfere, Outside, vars

LEMMA StartStepInv == StartInv /\ [Next]_vars => StartInv'
  <1> SUFFICES ASSUME Shaped, LastOnly, [Next]_vars PROVE LastOnly'
    BY ShapedStep DEF StartInv
  <1> USE ProcsFacts
  <1>1. CASE LaunchStart
    <2> DEFINE r == [Idle EXCEPT !.pc = "planning", !.opt = server.opt]
    <2>1. /\ server.starting
          /\ \/ /\ server' = [server EXCEPT !.starting = FALSE, !.last = @ + 1]
                /\ run' = [run EXCEPT ![server.last + 1] = r]
             \/ server' = [server EXCEPT !.starting = FALSE] /\ run' = run
      BY <1>1 DEF LaunchStart
    <2>2. \A n \in Ops : ~Active(n)
      BY <2>1 DEF LastOnly
    <2>3. \A n \in Ops : n # server.last + 1 => ~Active(n)'
      BY <2>1, <2>2 DEF Active, Shaped
    <2>4. ~server'.starting
      BY <2>1 DEF Shaped
    <2>5. CASE run' = run
      BY <2>2, <2>4, <2>5 DEF LastOnly, Active
    <2>6. CASE server' = [server EXCEPT !.starting = FALSE, !.last = @ + 1]
      <3>1. server'.last = server.last + 1
        BY <2>6 DEF Shaped
      <3> QED
        BY <2>3, <2>4, <3>1 DEF LastOnly
    <2> QED
      BY <2>1, <2>5, <2>6
  <1>2. CASE ~LaunchStart
    <2>1. \A n \in Ops : Active(n)' => Active(n)
      BY <1>2, NoneWakes
    <2>2. ASSUME NEW opt, Click(opt) PROVE LastOnly'
      <3>1. UNCHANGED run
        BY <2>2 DEF Click
      <3>2. CASE Joins
        BY <2>2, <3>1, <3>2 DEF Click, LastOnly, Active
      <3>3. CASE ~Joins
        <4>1. \A n \in Ops : ~Active(n)
          <5> SUFFICES ASSUME NEW n \in Ops, Active(n) PROVE FALSE
            OBVIOUS
          <5>1. n = server.last /\ n > 0
            BY ClicksAssumption DEF LastOnly, Ops
          <5> QED
            BY <3>3, <5>1 DEF Joins
        <4> QED
          BY <4>1, <3>1 DEF LastOnly, Active
      <3> QED
        BY <3>2, <3>3
    <2>3. CASE UNCHANGED server
      BY <2>1, <2>3 DEF LastOnly
    <2> QED
      BY <1>2, <2>2, <2>3, ServerSteps
  <1> QED
    BY <1>1, <1>2

(* SystemService.startDocker: however many clicks arrive, while a start is planned or runs,
   at most one operation is starting Docker. *)
THEOREM OneStartHolds == Spec => []OneStart
  <1>1. StartInv => OneStart
    <2> SUFFICES ASSUME LastOnly PROVE OneStart
      BY DEF StartInv
    <2> DEFINE A == {n \in Ops : Active(n)}
    <2>1. A \subseteq {server.last}
      BY DEF LastOnly
    <2>2. IsFiniteSet({server.last}) /\ Cardinality({server.last}) = 1
      BY FS_Singleton
    <2>3. Cardinality(A) <= 1
      BY <2>1, <2>2, FS_Subset
    <2> QED
      BY <2>3 DEF OneStart
  <1> QED
    BY <1>1, StartInit, StartStepInv, PTL DEF Spec

-----------------------------------------------------------------------------
(* Unattended starts *)

(* A plan of kind "start" that needs no terminal is one command that starts a runtime. *)
LEMMA StartPlanUnattended ==
    ASSUME NEW f, NEW bad, NEW opt, NEW plan, plan = BuildSetupPlan(f, bad, opt),
           plan.kind = "start", ~plan.terminal
    PROVE  Unattended(plan, f.root)
  <1>0. "install" # "start" /\ "none" # "start" /\ "unsupported" # "start"
    OBVIOUS
  <1>1. \A kind : NoPlan(kind).kind = kind
    BY DEF NoPlan
  <1>2. \A kind, provider, alternatives, steps :
          /\ PlanOf(f, kind, provider, alternatives, steps).kind = kind
          /\ PlanOf(f, kind, provider, alternatives, steps).steps = steps
          /\ \A s \in Elements(steps) :
               Sudo(f, s) => PlanOf(f, kind, provider, alternatives, steps).terminal
    BY DEF PlanOf, NoPlan
  <1>3. \A kind, provider, alternatives, steps :
          /\ MacPlan(f, kind, provider, alternatives, steps).kind = kind
          /\ MacPlan(f, kind, provider, alternatives, steps).steps = steps
    BY DEF MacPlan, PlanOf, NoPlan
  <1>4. \A r : ColimaStart(f, Brew(f), opt.login, r).id \in {"colima.start", "colima.start-at-login"}
    BY DEF ColimaStart, Step
  <1>5. \A r : StartStep(r).id \in Starts
    BY DEF StartStep, Plain, Step, Starts
  <1>6. RosettaColimaPlan(f, opt).kind = "install"
    BY DEF RosettaColimaPlan, PlanOf, NoPlan
  <1>7. \A provider : MacInstallPlan(f, bad, provider, opt).kind = "install"
    BY <1>3, <1>6 DEF MacInstallPlan
  <1>8. \A kind, provider, alternatives, steps :
          Relogin(PlanOf(f, kind, provider, alternatives, steps)).kind = kind
    BY DEF Relogin, PlanOf, NoPlan
  <1>9. ASSUME NEW provider, NEW alternatives,
               plan = PlanOf(f, "start", provider, alternatives, <<StartStep(provider)>>)
        PROVE  Unattended(plan, f.root)
    <2>1. plan.steps = <<StartStep(provider)>>
      BY <1>2, <1>9
    <2>2. StartStep(provider) \in Elements(plan.steps)
      BY <2>1 DEF Elements
    <2>3. \A s \in Elements(plan.steps) : Sudo(f, s) => plan.terminal
      BY <1>2, <1>9
    <2>6. ~Sudo(f, StartStep(provider))
      BY <2>2, <2>3, Zenon
    <2>4. StartStep(provider).id = "docker-engine.start" => f.root
      BY <2>6 DEF Sudo
    <2>5. Len(plan.steps) = 1 /\ plan.steps[1] = StartStep(provider)
      BY <2>1
    <2> QED
      BY <2>4, <2>5, <1>5 DEF Unattended
  <1>10. ASSUME NEW provider, NEW alternatives,
                plan = MacStartPlan(f, bad, provider, opt, alternatives)
         PROVE  Unattended(plan, f.root)
    <2> DEFINE step == ColimaStart(f, Brew(f), opt.login, f.brew # "none" /\ ~f.brewOnPath)
    <2>1. CASE provider # "colima"
      BY <1>9, <1>10, <2>1 DEF MacStartPlan
    <2>2. CASE plan = MacPlan(f, "start", provider, alternatives, <<step>>)
      <3>1. plan.steps = <<step>>
        BY <1>3, <2>2
      <3>2. step.id \in {"colima.start", "colima.start-at-login"}
        BY <1>4
      <3> HIDE DEF step
      <3> QED
        BY <3>1, <3>2 DEF Unattended, Starts
    <2>3. plan # RosettaColimaPlan(f, opt)
      BY <1>0, <1>6
    <2>4. \A steps : plan # MacPlan(f, "install", provider, {}, steps)
      BY <1>0, <1>3
    <2> QED
      BY <1>10, <2>1, <2>2, <2>3, <2>4 DEF MacStartPlan
  <1>11. CASE plan = PlanMac(f, bad, opt)
    <2>1. plan # Unsupported
      BY <1>0, <1>1 DEF Unsupported
    <2>2. \A steps : plan # MacPlan(f, "install", "none", {}, steps)
      BY <1>0, <1>3
    <2>3. \A provider : plan # MacInstallPlan(f, bad, provider, opt)
      BY <1>0, <1>7
    <2> QED
      BY <1>10, <1>11, <2>1, <2>2, <2>3 DEF PlanMac
  <1>12. CASE plan = PlanLinux(f, bad, opt)
    <2>1. plan # Unsupported
      BY <1>0, <1>1 DEF Unsupported
    <2>2. \A provider, steps :
            /\ plan # PlanOf(f, "install", provider, {}, steps)
            /\ plan # Relogin(PlanOf(f, "install", provider, {}, steps))
      BY <1>0, <1>2, <1>8
    <2> QED
      BY <1>9, <1>12, <2>1, <2>2 DEF PlanLinux
  <1> QED
    BY <1>0, <1>1, <1>11, <1>12 DEF BuildSetupPlan, Unsupported

LEMMA RootStays ==
    ASSUME "root" \in DOMAIN machine, [Next]_vars
    PROVE  "root" \in DOMAIN machine' /\ machine'.root = machine.root
  <1>1. ASSUME NEW m, "root" \in DOMAIN m, NEW s
        PROVE  "root" \in DOMAIN Does(m, s) /\ Does(m, s).root = m.root
    BY <1>1 DEF Does, Formulae
  <1>2. ASSUME NEW p, CommandDone(p)
        PROVE  "root" \in DOMAIN machine' /\ machine'.root = machine.root
    BY <1>1, <1>2 DEF CommandDone, Changes
  <1>3. CASE Kill
    BY <1>1, <1>3 DEF Kill, Changes
  <1>4. CASE Boot
    BY <1>4 DEF Boot, Booted
  <1>5. CASE Interfere
    BY <1>5 DEF Interfere, Outside
  <1>6. CASE ~Boot /\ ~Interfere /\ ~Kill /\ \A p \in Procs : ~CommandDone(p)
    <2>1. UNCHANGED machine
      BY <1>6 DEF Next, CommandNext, ServerNext, RunStep, SetupCommand, Pick, PlanCommand, Agree,
            Decline, RunScript, SumUp, Click, LaunchStart, StartDockerRuntime, BeginStep,
            StepsDone, Waited, Check, CommandFailed, vars
    <2> QED
      BY <2>1
  <1> QED
    BY <1>2, <1>3, <1>4, <1>5, <1>6

(* The plan an operation runs was built from the machine as it was then. *)
LEMMA FreshFacts ==
    ASSUME NEW opt, NEW plan \in FreshPlans(opt), plan.kind = "start", ~plan.terminal
    PROVE  Unattended(plan, machine.root)
  <1>1. PICK bad : plan = BuildSetupPlan(Facts(machine, paths.server), bad, opt)
    BY DEF FreshPlans
  <1>2. Facts(machine, paths.server).root = machine.root
    BY DEF Facts
  <1> QED
    BY <1>1, <1>2, StartPlanUnattended

LEMMA UnattendedInit == Init => UnattendedInv
  <1> SUFFICES ASSUME Init PROVE UnattendedInv
    OBVIOUS
  <1>1. \A n \in Ops : run[n] = Idle
    BY ProcsFacts DEF Init
  <1>2. "root" \in DOMAIN machine
    BY MachinesAssumption DEF Init, MachineType
  <1>3. Idle.i = 1 /\ Idle.pc = "idle"
    BY DEF Idle
  <1> QED
    BY <1>1, <1>2, <1>3, ShapedInit DEF UnattendedInv

LEMMA UnattendedStep == UnattendedInv /\ [Next]_vars => UnattendedInv'
  <1> SUFFICES ASSUME UnattendedInv, [Next]_vars, NEW n \in Ops
               PROVE  /\ run'[n].i \in Nat \ {0}
                      /\ run'[n].pc \in {"next", "command"} =>
                           Unattended(run'[n].plan, machine.root)
                      /\ run'[n].pc = "command" => run'[n].i = 1
                      /\ run'[n].pc # "script"
    BY ShapedStep, RootStays DEF UnattendedInv, Unattended
  <1> DEFINE OK(r) == /\ r.i \in Nat \ {0}
                      /\ r.pc \in {"next", "command"} => Unattended(r.plan, machine.root)
                      /\ r.pc = "command" => r.i = 1
                      /\ r.pc # "script"
  <1> USE ProcsFacts
  <1>0. Shaped /\ OK(run[n]) /\ OK(Idle)
    BY DEF UnattendedInv, Idle
  <1> SUFFICES OK(run'[n])
    OBVIOUS
  <1>1. ASSUME NEW opt \in Requests, NEW yes \in BOOLEAN, SetupCommand(opt, yes)
        PROVE  OK(run'[n])
    BY <1>0, <1>1 DEF SetupCommand, Shaped
  <1>2. ASSUME NEW opt, Pick(opt) PROVE OK(run'[n])
    BY <1>0, <1>2 DEF Pick, Shaped, Stops
  <1>3. CASE PlanCommand \/ Agree \/ Decline \/ RunScript \/ SumUp
    BY <1>0, <1>3 DEF PlanCommand, Agree, Decline, RunScript, SumUp, Goto, Stops, Shaped
  <1>4. CASE Boot \/ UNCHANGED vars
    BY <1>0, <1>4 DEF Boot, vars
  <1>5. CASE Kill
    BY <1>0, <1>5 DEF Kill, Changes, Shaped
  <1>6. ASSUME NEW opt, Click(opt) PROVE OK(run'[n])
    BY <1>0, <1>6 DEF Click
  <1>7. CASE LaunchStart
    <2> DEFINE r == [Idle EXCEPT !.pc = "planning", !.opt = server.opt]
    <2>1. run' = [run EXCEPT ![server.last + 1] = r] \/ run' = run
      BY <1>7 DEF LaunchStart
    <2>2. OK(r)
      BY DEF Idle
    <2> QED
      BY <1>0, <2>1, <2>2 DEF Shaped
  <1>8. ASSUME NEW q \in Ops, StartDockerRuntime(q) PROVE OK(run'[n])
    <2>1. CASE q = n /\ Stops(q)
      BY <1>0, <2>1 DEF Stops, Shaped
    <2>2. CASE q = n /\ ~Stops(q)
      <3>1. PICK plan \in FreshPlans(run[n].opt) :
              /\ plan.kind = "start" /\ ~plan.terminal
              /\ run' = [run EXCEPT ![n].plan = plan, ![n].pc = "next", ![n].calm = TRUE]
        BY <1>8, <2>2 DEF StartDockerRuntime
      <3>2. Unattended(plan, machine.root)
        BY <3>1, FreshFacts
      <3>3. run'[n].plan = plan /\ run'[n].pc = "next" /\ run'[n].i = run[n].i
        BY <3>1 DEF UnattendedInv, Shaped
      <3> QED
        BY <1>0, <3>2, <3>3
    <2>3. CASE q # n
      BY <1>0, <1>8, <2>3 DEF StartDockerRuntime, Stops, Shaped
    <2> QED
      BY <2>1, <2>2, <2>3
  <1>9. ASSUME NEW p \in Procs, BeginStep(p) PROVE OK(run'[n])
    <2>1. CASE p = n
      <3>1. run[n].pc = "next" /\ run[n].i <= Len(run[n].plan.steps)
        BY <1>9, <2>1 DEF BeginStep
      <3>0. run[n].i \in Nat \ {0} /\ Len(run[n].plan.steps) = 1
        BY <1>0, <3>1 DEF Unattended
      <3>2. run[n].i = 1
        BY <3>0, <3>1
      <3>3. run'[n].pc = "command" /\ run'[n].plan = run[n].plan /\ run'[n].i = run[n].i
        BY <1>9, <2>1 DEF BeginStep, Goto, UnattendedInv, Shaped
      <3> QED
        BY <1>0, <3>1, <3>2, <3>3
    <2>2. CASE p # n
      BY <1>0, <1>9, <2>2 DEF BeginStep, Goto, Shaped
    <2> QED
      BY <2>1, <2>2
  <1>10. ASSUME NEW p \in Procs, CommandDone(p) PROVE OK(run'[n])
    <2>1. CASE p = n
      <3>1. run[n].pc = "command"
        BY <1>10, <2>1 DEF CommandDone
      <3>2. run'[n] = [run[n] EXCEPT !.pc = "next", !.i = @ + 1]
        BY <1>10, <2>1 DEF CommandDone, Changes
      <3>3. run'[n].pc = "next" /\ run'[n].plan = run[n].plan /\ run'[n].i = run[n].i + 1
        BY <3>2 DEF UnattendedInv, Shaped
      <3> QED
        BY <1>0, <3>1, <3>3
    <2>2. CASE p # n
      <3>1. /\ run'[n].pc = run[n].pc
            /\ run'[n].plan = run[n].plan
            /\ run'[n].i = run[n].i
        BY <1>10, <2>2 DEF CommandDone, Changes, UnattendedInv, Shaped
      <3> QED
        BY <1>0, <3>1
    <2> QED
      BY <2>1, <2>2
  <1>11. ASSUME NEW p \in Procs, StepsDone(p) \/ Waited(p) PROVE OK(run'[n])
    BY <1>0, <1>11 DEF StepsDone, Waited, Goto, Stops, Shaped
  <1>12. ASSUME NEW p \in Procs, Check(p) \/ CommandFailed(p) PROVE OK(run'[n])
    BY <1>0, <1>12 DEF Check, CommandFailed, Stops, Shaped
  <1>13. CASE Interfere
    <2>1. /\ run'[n].pc = run[n].pc
          /\ run'[n].plan = run[n].plan
          /\ run'[n].i = run[n].i
      BY <1>13 DEF Interfere, Outside, UnattendedInv, Shaped
    <2> QED
      BY <1>0, <2>1
  <1> HIDE DEF OK
  <1> QED
    BY <1>1, <1>2, <1>3, <1>4, <1>5, <1>6, <1>7, <1>8, <1>9, <1>10, <1>11, <1>12, <1>13
    DEF Next, CommandNext, ServerNext, RunStep

(* startDockerRuntime and assertStartable: what Start Docker runs is one command that starts a
   runtime, and never one that needs a password, whatever changed since the click. *)
THEOREM UnattendedSafeHolds == Spec => []UnattendedSafe
  <1>1. UnattendedInv => UnattendedSafe
    BY DEF UnattendedInv, Unattended, UnattendedSafe, Now
  <1> QED
    BY <1>1, UnattendedInit, UnattendedStep, PTL DEF Spec

(* Start Docker starts a runtime, one at a time, and runs nothing else, for any number of
   clicks and any machine. *)
THEOREM StartsDockerOnlyHolds == Spec => []StartsDockerOnly
  <1>1. UnattendedSafe /\ OneStart => StartsDockerOnly
    BY DEF StartsDockerOnly
  <1> QED
    BY <1>1, UnattendedSafeHolds, OneStartHolds, PTL

(* Nothing runs that nobody agreed to, in the terminal or by a click, for any number of
   clicks, any machine and whatever becomes of it. *)
THEOREM OnlyAsAgreedHolds == Spec => []OnlyAsAgreed
  <1>1. RunsWhatWasShown /\ StartsDockerOnly => OnlyAsAgreed
    BY DEF OnlyAsAgreed
  <1> QED
    BY <1>1, RunsWhatWasShownHolds, StartsDockerOnlyHolds, PTL

-----------------------------------------------------------------------------
(* DOCKER_HOST *)

LEMMA ObeysJoin ==
    ASSUME NEW a, NEW b, NEW host, Obeys(a, host), Obeys(b, host)
    PROVE  Obeys(a \o b, host)
  <1>1. PICK A : a \in Seq(A) /\ \A s \in A : RuntimeOf(s) \in {"none", host}
    BY DEF Obeys
  <1>2. PICK B : b \in Seq(B) /\ \A s \in B : RuntimeOf(s) \in {"none", host}
    BY DEF Obeys
  <1>3. a \in Seq(A \cup B) /\ b \in Seq(A \cup B)
    BY <1>1, <1>2
  <1>4. a \o b \in Seq(A \cup B)
    BY <1>3
  <1>5. \A s \in A \cup B : RuntimeOf(s) \in {"none", host}
    BY <1>1, <1>2
  <1> QED
    BY <1>4, <1>5 DEF Obeys

LEMMA ObeysNothing == ASSUME NEW host PROVE Obeys(<<>>, host)
  <1> DEFINE T == {}
  <1>1. <<>> \in Seq(T) /\ \A s \in T : RuntimeOf(s) \in {"none", host}
    OBVIOUS
  <1> HIDE DEF T
  <1> QED
    BY <1>1, Zenon DEF Obeys

LEMMA ObeysOne ==
    ASSUME NEW host, NEW s, RuntimeOf(s) \in {"none", host} PROVE Obeys(<<s>>, host)
  <1> DEFINE T == {s}
  <1>1. <<s>> \in Seq(T) /\ \A t \in T : RuntimeOf(t) \in {"none", host}
    OBVIOUS
  <1> HIDE DEF T
  <1> QED
    BY <1>1, Zenon DEF Obeys

(* Nothing but the start or the installation of a runtime is of a runtime. *)
LEMMA RuntimeOfSteps ==
    /\ \A on, formulae :
         /\ RuntimeOf(Step("docker-cli.install", on, formulae)) = "none"
         /\ RuntimeOf(Step("compose.upgrade", on, formulae)) = "none"
         /\ RuntimeOf(Step("compose.plugin-link", on, formulae)) = "none"
         /\ RuntimeOf(Step("homebrew.uninstall-intel-formulae", on, formulae)) = "none"
         /\ RuntimeOf(Step("colima.install", on, formulae)) = "colima"
         /\ RuntimeOf(Step("colima.start", on, formulae)) = "colima"
         /\ RuntimeOf(Step("colima.start-at-login", on, formulae)) = "colima"
    /\ \A id \in {"homebrew.download-installer", "homebrew.run-installer", "compose.plugin-dir",
                   "docker-group.add-user"} : RuntimeOf(Plain(id)) = "none"
    /\ RuntimeOf(StartStep("docker-desktop")) = "docker-desktop"
    /\ RuntimeOf(StartStep("orbstack")) = "orbstack"
    /\ RuntimeOf(StartStep("docker-engine")) = "docker-engine"
  BY DEF RuntimeOf, Step, Plain, StartStep

(* The commands that repair the docker command and Compose are of no runtime. *)
LEMMA RepairObeys ==
    ASSUME NEW f, NEW bad, NEW host
    PROVE  /\ Obeys(HomebrewSteps, host)
           /\ Obeys(EnsureBrew(f), host)
           /\ \A on : Obeys(ComposeLinkSteps(on), host)
           /\ Obeys(CliComposeSteps(f, bad), host)
  <1>1. Obeys(HomebrewSteps, host)
    <2>1. HomebrewSteps = <<Plain("homebrew.download-installer")>> \o <<Plain("homebrew.run-installer")>>
      BY DEF HomebrewSteps
    <2>2. Obeys(<<Plain("homebrew.download-installer")>>, host)
      BY ObeysOne, RuntimeOfSteps
    <2>3. Obeys(<<Plain("homebrew.run-installer")>>, host)
      BY ObeysOne, RuntimeOfSteps
    <2> QED
      BY <2>1, <2>2, <2>3, ObeysJoin, Zenon
  <1>2. Obeys(EnsureBrew(f), host)
    BY <1>1, ObeysNothing DEF EnsureBrew, If
  <1>3. ASSUME NEW on PROVE Obeys(ComposeLinkSteps(on), host)
    <2>1. ComposeLinkSteps(on) = <<Plain("compose.plugin-dir")>> \o <<Step("compose.plugin-link", on, {})>>
      BY DEF ComposeLinkSteps
    <2>2. Obeys(<<Plain("compose.plugin-dir")>>, host)
      BY ObeysOne, RuntimeOfSteps
    <2>3. Obeys(<<Step("compose.plugin-link", on, {})>>, host)
      BY ObeysOne, RuntimeOfSteps
    <2> QED
      BY <2>1, <2>2, <2>3, ObeysJoin, Zenon
  <1>4. Obeys(CliComposeSteps(f, bad), host)
    <2> DEFINE upgrade == ComposeOld(bad) /\ ~CliMissing(bad) /\ ~ComposeMissing(bad)
                            /\ "colima" \in f.installed
               formulae == (IF CliMissing(bad) THEN {"docker"} ELSE {})
                             \cup (IF Repair(bad) /\ ~upgrade THEN {"docker-compose"} ELSE {})
               first == If(formulae # {}, <<Step("docker-cli.install", Brew(f), formulae)>>)
               second == If(upgrade, <<Step("compose.upgrade", Brew(f), {"docker-compose"})>>)
               third == If(Repair(bad), ComposeLinkSteps(Brew(f)))
    <2>1. CliComposeSteps(f, bad) = (first \o second) \o third
      BY DEF CliComposeSteps
    <2>2. Obeys(first, host)
      <3>1. Obeys(<<Step("docker-cli.install", Brew(f), formulae)>>, host)
        BY ObeysOne, RuntimeOfSteps
      <3> QED
        BY <3>1, ObeysNothing DEF If
    <2>3. Obeys(second, host)
      <3>1. Obeys(<<Step("compose.upgrade", Brew(f), {"docker-compose"})>>, host)
        BY ObeysOne, RuntimeOfSteps
      <3> QED
        BY <3>1, ObeysNothing DEF If
    <2>4. Obeys(third, host)
      BY <1>3, ObeysNothing DEF If
    <2> HIDE DEF first, second, third
    <2>5. Obeys(first \o second, host)
      BY <2>2, <2>3, ObeysJoin
    <2> QED
      BY <2>1, <2>4, <2>5, ObeysJoin
  <1> QED
    BY <1>1, <1>2, <1>3, <1>4

(* With DOCKER_HOST set to what the system may run, a plan starts and installs nothing else. *)
LEMMA PlanObeys ==
    ASSUME NEW f, NEW bad, NEW opt, f.host # "none",
           f.os = "linux" => f.host \notin {"colima", "orbstack"}, f.installed \subseteq Runtimes
    PROVE  Obeys(BuildSetupPlan(f, bad, opt).steps, f.host)
  <1> DEFINE host == f.host
  <1>1. \A kind : NoPlan(kind).steps = <<>>
    BY DEF NoPlan
  <1>2. \A kind, provider, alternatives, steps :
          /\ PlanOf(f, kind, provider, alternatives, steps).steps = steps
          /\ MacPlan(f, kind, provider, alternatives, steps).steps = steps
          /\ Relogin(PlanOf(f, kind, provider, alternatives, steps)).steps = steps
    BY DEF MacPlan, PlanOf, NoPlan, Relogin
  <1>3. Obeys(Unsupported.steps, host) /\ Obeys(NoPlan("none").steps, host)
    BY <1>1, ObeysNothing DEF Unsupported
  <1>4. \A on, login, fresh : RuntimeOf(ColimaStart(f, on, login, fresh)) = "colima"
    BY RuntimeOfSteps DEF ColimaStart
  <1>5. CASE host = "colima"
    <2>2. ASSUME NEW on, NEW fresh PROVE Obeys(<<ColimaStart(f, on, opt.login, fresh)>>, host)
      <3>1. RuntimeOf(ColimaStart(f, on, opt.login, fresh)) \in {"none", host}
        BY <1>4, <1>5
      <3> QED
        BY <3>1, ObeysOne
    <2>1. Obeys(RosettaColimaPlan(f, opt).steps, host)
      <3> DEFINE a == If(f.intelFormulae, <<Step("homebrew.uninstall-intel-formulae", "intel", {})>>)
                 b == If(~f.nativeBrew, HomebrewSteps)
                 c == <<Step("colima.install", "native", {"colima", "docker", "docker-compose"})>>
                 d == ComposeLinkSteps("native")
                 e == <<ColimaStart(f, "native", opt.login, TRUE)>>
      <3>1. RosettaColimaPlan(f, opt).steps = (((a \o b) \o c) \o d) \o e
        BY <1>2 DEF RosettaColimaPlan, PlanOf, NoPlan
      <3>2. Obeys(a, host)
        <4>1. Obeys(<<Step("homebrew.uninstall-intel-formulae", "intel", {})>>, host)
          BY ObeysOne, RuntimeOfSteps
        <4> QED
          BY <4>1, ObeysNothing DEF If
      <3>3. Obeys(b, host) /\ Obeys(d, host)
        BY ObeysNothing, RepairObeys DEF If
      <3>4. Obeys(c, host)
        BY <1>5, ObeysOne, RuntimeOfSteps
      <3>5. Obeys(e, host)
        BY <2>2
      <3> HIDE DEF a, b, c, d, e
      <3>6. Obeys((a \o b) \o c, host)
        BY <3>2, <3>3, <3>4, ObeysJoin
      <3> QED
        BY <3>1, <3>3, <3>5, <3>6, ObeysJoin
    <2>3. ASSUME NEW fresh
          PROVE  Obeys((EnsureBrew(f) \o CliComposeSteps(f, bad))
                         \o <<ColimaStart(f, Brew(f), opt.login, fresh)>>, host)
      BY <2>2, RepairObeys, ObeysJoin
    <2>4. ASSUME NEW alternatives
          PROVE  Obeys(MacStartPlan(f, bad, host, opt, alternatives).steps, host)
      BY <1>2, <1>5, <2>1, <2>2, <2>3 DEF MacStartPlan
    <2>5. Obeys(PlanMac(f, bad, opt).steps, host)
      BY <1>2, <1>3, <2>4, RepairObeys, ObeysJoin DEF PlanMac, Stopped
    <2>6. f.os # "linux"
      BY <1>5
    <2> QED
      BY <1>1, <1>3, <2>5, <2>6 DEF BuildSetupPlan
  <1>6. CASE host # "colima"
    <2>1. CASE f.os = "darwin"
      <3>1. CASE HostRefuses(f, opt) \/ ~DaemonDown(bad) \/ OutOfReach(f, opt)
        <4>1. Obeys(PlanMac(f, bad, opt).steps, host)
          BY <1>2, <1>3, <3>1, RepairObeys, ObeysJoin DEF PlanMac
        <4> QED
          BY <1>3, <2>1, <4>1 DEF BuildSetupPlan
      <3>2. CASE host \in {"docker-desktop", "orbstack", "docker-engine"}
        <4>1. Obeys(<<StartStep(host)>>, host)
          BY <3>2, ObeysOne, RuntimeOfSteps
        <4>2. ASSUME NEW alternatives
              PROVE  Obeys(MacStartPlan(f, bad, host, opt, alternatives).steps, host)
          BY <1>2, <1>6, <4>1 DEF MacStartPlan
        <4>3. Obeys(PlanMac(f, bad, opt).steps, host)
          BY <1>2, <1>3, <4>2, RepairObeys, ObeysJoin DEF PlanMac, Stopped
        <4> QED
          BY <1>3, <2>1, <4>3 DEF BuildSetupPlan
      <3> QED
        BY <1>6, <2>1, <3>1, <3>2 DEF HostRefuses, Runtimes
    <2>2. CASE f.os = "linux"
      <3>1. Obeys(<<GroupStep>>, host)
        BY ObeysOne, RuntimeOfSteps DEF GroupStep
      <3>2. host = "docker-desktop" => Obeys(<<StartStep(host)>>, host)
        BY ObeysOne, RuntimeOfSteps
      <3>3. host = "docker-engine" => Obeys(<<StartStep(host)>>, host)
        BY ObeysOne, RuntimeOfSteps
      <3>4. HostRefuses(f, opt) \/ host \in {"docker-desktop", "docker-engine"}
        BY <1>6, <2>2 DEF HostRefuses, Runtimes
      <3>5. Obeys(PlanLinux(f, bad, opt).steps, host)
        BY <1>2, <1>3, <3>1, <3>2, <3>3, <3>4, ObeysJoin DEF PlanLinux, Stopped
      <3> QED
        BY <1>1, <1>3, <2>2, <3>5 DEF BuildSetupPlan
    <2>3. CASE f.os \notin {"darwin", "linux"}
      BY <1>1, <1>3, <2>3 DEF BuildSetupPlan
    <2> QED
      BY <2>1, <2>2, <2>3
  <1> QED
    BY <1>5, <1>6

(* What setup looks at and never changes, and the runtimes a machine may have. *)
LEMMA HostStays ==
    ASSUME {"os", "host", "apps"} \subseteq DOMAIN machine, machine.apps \subseteq Runtimes, [Next]_vars
    PROVE  /\ {"os", "host", "apps"} \subseteq DOMAIN machine' /\ machine'.apps \subseteq Runtimes
           /\ machine'.host = machine.host /\ machine'.os = machine.os
  <1> DEFINE Same(m, n) == /\ {"os", "host", "apps"} \subseteq DOMAIN n
                           /\ n.apps \subseteq Runtimes
                           /\ n.host = m.host /\ n.os = m.os
  <1>1. ASSUME NEW m, {"os", "host", "apps"} \subseteq DOMAIN m, m.apps \subseteq Runtimes, NEW s
        PROVE  Same(m, Does(m, s))
    <2>1. {"docker-desktop", "orbstack", "docker-engine"} \subseteq Runtimes
      BY DEF Runtimes
    <2> QED
      BY <1>1, <2>1 DEF Does, Formulae
  <1>2. ASSUME NEW p, CommandDone(p) PROVE Same(machine, machine')
    BY <1>1, <1>2 DEF CommandDone, Changes
  <1>3. CASE Kill
    BY <1>1, <1>3 DEF Kill, Changes
  <1>4. CASE Boot
    BY <1>4 DEF Boot, Booted
  <1>5. CASE Interfere
    BY <1>5 DEF Interfere, Outside
  <1>6. CASE ~Boot /\ ~Interfere /\ ~Kill /\ \A p \in Procs : ~CommandDone(p)
    <2>1. machine' = machine
      BY <1>6 DEF Next, CommandNext, ServerNext, RunStep, SetupCommand, Pick, PlanCommand, Agree,
            Decline, RunScript, SumUp, Click, LaunchStart, StartDockerRuntime, BeginStep,
            StepsDone, Waited, Check, CommandFailed, vars
    <2> QED
      BY <2>1
  <1> QED
    BY <1>2, <1>3, <1>4, <1>5, <1>6

(* Whichever process plans, with whatever report, it reads DOCKER_HOST off the machine. *)
LEMMA PlannedObeys ==
    ASSUME HostInv, machine.host # "none", NEW add, NEW bad, NEW opt
    PROVE  Obeys(BuildSetupPlan(Facts(machine, add), bad, opt).steps, machine.host)
  <1> DEFINE f == Facts(machine, add)
  <1>1. f.host = machine.host /\ f.os = machine.os /\ f.installed \subseteq Runtimes
    BY DEF Facts, HostInv, Runtimes
  <1> HIDE DEF f
  <1>2. f.os = "linux" => f.host \notin {"colima", "orbstack"}
    BY <1>1 DEF HostInv
  <1>3. f.host # "none"
    BY <1>1
  <1>4. Obeys(BuildSetupPlan(f, bad, opt).steps, f.host)
    BY <1>1, <1>2, <1>3, PlanObeys
  <1> QED
    BY <1>1, <1>4 DEF f

LEMMA IdleCommanded == \A host : Commanded(Idle, host)
  <1>1. Idle.plan.steps = <<>> /\ Idle.i = 1 /\ Idle.pc = "idle"
    BY DEF Idle, NoPlan
  <1> QED
    BY <1>1, ObeysNothing DEF Commanded

LEMMA HostInit == HostFits /\ Init => HostInv
  <1> SUFFICES ASSUME HostFits, Init PROVE HostInv
    OBVIOUS
  <1>1. {"os", "host", "apps"} \subseteq DOMAIN machine /\ machine.apps \subseteq Runtimes
    BY MachinesAssumption DEF Init, MachineType
  <1>2. machine.os = "linux" => machine.host \notin {"colima", "orbstack"}
    BY DEF Init, HostFits
  <1>3. \A p \in Procs : Commanded(run[p], machine.host)
    BY IdleCommanded DEF Init
  <1> QED
    BY <1>1, <1>2, <1>3, ShapedInit DEF HostInv

LEMMA HostStep == HostInv /\ [Next]_vars => HostInv'
  <1> SUFFICES ASSUME HostInv, [Next]_vars, machine.host # "none", NEW q \in Procs
               PROVE  Commanded(run'[q], machine.host)
    BY ShapedStep, HostStays DEF HostInv
  <1> DEFINE host == machine.host
             OK(r) == Commanded(r, host)
  <1> USE ProcsFacts
  <1>0. Shaped /\ OK(run[q]) /\ OK(Idle)
    BY IdleCommanded DEF HostInv
  <1>a. ASSUME NEW r, NEW s, OK(s), r.plan = s.plan, r.i = s.i,
               r.pc \in {"script", "command"} => s.pc \in {"script", "command"}
        PROVE  OK(r)
    BY <1>a DEF Commanded
  <1>b. ASSUME NEW r, NEW add, NEW bad, NEW opt, r.i \in Nat \ {0}, r.pc \notin {"script", "command"},
               r.plan = BuildSetupPlan(Facts(machine, add), bad, opt)
        PROVE  OK(r)
    BY <1>b, PlannedObeys DEF Commanded
  <1>c. run[q].i \in Nat \ {0}
    BY <1>0 DEF Commanded
  <1> HIDE DEF OK, host
  <1> SUFFICES OK(run'[q])
    BY DEF OK, host
  <1>1. ASSUME NEW opt \in Requests, NEW yes \in BOOLEAN, SetupCommand(opt, yes) PROVE OK(run'[q])
    <2>1. CASE q = Cli
      <3>1. run'[q] = [Idle EXCEPT !.pc = "planning", !.opt = opt, !.bad = Doctor(machine, "none")]
        BY <1>0, <1>1, <2>1 DEF SetupCommand, Shaped
      <3>2. run'[q].plan = Idle.plan /\ run'[q].i = Idle.i /\ run'[q].pc = "planning"
        BY <3>1 DEF Idle
      <3> QED
        BY <1>0, <1>a, <3>2
    <2> QED
      BY <1>0, <1>1, <2>1 DEF SetupCommand, Shaped
  <1>2. ASSUME NEW opt, Pick(opt) PROVE OK(run'[q])
    <2> DEFINE plan == PlanFor(Cli, opt)
    <2>1. CASE q = Cli /\ ~Stops(Cli)
      <3>1. run' = [run EXCEPT ![Cli].plan = plan, ![Cli].opt = opt, ![Cli].pc = "confirming"]
        BY <1>2, <2>1 DEF Pick
      <3>2. run'[q].plan = plan /\ run'[q].i = run[q].i /\ run'[q].pc = "confirming"
        BY <2>1, <3>1, <1>0 DEF Shaped
      <3> QED
        BY <1>b, <1>c, <3>2 DEF PlanFor
    <2> QED
      BY <1>0, <1>2, <2>1 DEF Pick, Shaped, Stops
  <1>3. CASE PlanCommand
    <2> DEFINE plan == PlanFor(Cli, run[Cli].opt)
               pc == IF ask.yes THEN "next" ELSE "asking"
    <2>1. CASE q = Cli /\ ~Stops(Cli)
      <3>1. run' = [run EXCEPT ![Cli].plan = plan, ![Cli].pc = pc]
        BY <1>3, <2>1 DEF PlanCommand
      <3>2. pc \notin {"script", "command"} /\ plan = BuildSetupPlan(Facts(machine, Add(Cli)), run[Cli].bad, run[Cli].opt)
        BY DEF PlanFor
      <3> HIDE DEF plan, pc
      <3>3. Cli \in DOMAIN run /\ {"plan", "pc", "i"} \subseteq DOMAIN run[Cli]
        BY <1>0 DEF Shaped
      <3>4. run'[Cli] = [run[Cli] EXCEPT !.plan = plan, !.pc = pc]
        BY <3>1, <3>3
      <3>5. run'[q].plan = plan /\ run'[q].i = run[q].i /\ run'[q].pc = pc
        BY <2>1, <3>3, <3>4
      <3> QED
        BY <1>b, <1>c, <3>2, <3>5
    <2> QED
      BY <1>0, <1>3, <2>1 DEF PlanCommand, Shaped, Stops
  <1>4. CASE Agree \/ Decline \/ SumUp
    <2>1. \/ run'[q] = Idle \/ run'[q] = run[q]
          \/ /\ run'[q].plan = run[q].plan /\ run'[q].i = run[q].i
             /\ run'[q].pc \in {"next", "ready", "relogin"}
      BY <1>0, <1>4 DEF Agree, Decline, SumUp, Goto, Stops, Shaped
    <2> QED
      BY <1>0, <1>a, <2>1
  <1>5. CASE RunScript
    <2>1. \/ run'[q] = run[q]
          \/ run'[q].plan = run[q].plan /\ run'[q].i = run[q].i /\ run[q].pc = "script"
      BY <1>0, <1>5 DEF RunScript, Goto, Shaped
    <2> QED
      BY <1>0, <1>a, <2>1
  <1>6. CASE Boot \/ UNCHANGED vars \/ \E opt \in Requests : Click(opt)
    BY <1>0, <1>6 DEF Boot, vars, Click
  <1>7. CASE Kill
    <2>1. \/ run'[q] = Idle
          \/ run'[q].plan = run[q].plan /\ run'[q].i = run[q].i /\ run'[q].pc = run[q].pc
      BY <1>0, <1>7 DEF Kill, Changes, Shaped
    <2> QED
      BY <1>0, <1>a, <2>1
  <1>8. CASE LaunchStart
    <2> DEFINE r == [Idle EXCEPT !.pc = "planning", !.opt = server.opt]
    <2>1. run' = [run EXCEPT ![server.last + 1] = r] \/ run' = run
      BY <1>8 DEF LaunchStart
    <2>2. OK(r)
      <3>1. r.plan = Idle.plan /\ r.i = Idle.i /\ r.pc = "planning"
        BY DEF Idle
      <3> HIDE DEF r
      <3> QED
        BY <1>0, <1>a, <3>1
    <2> HIDE DEF r
    <2> QED
      BY <1>0, <2>1, <2>2 DEF Shaped
  <1>9. ASSUME NEW n \in Ops, StartDockerRuntime(n) PROVE OK(run'[q])
    <2>1. CASE n = q /\ ~Stops(n)
      <3>1. PICK plan \in FreshPlans(run[n].opt) :
              run' = [run EXCEPT ![n].plan = plan, ![n].pc = "next", ![n].calm = TRUE]
        BY <1>9, <2>1 DEF StartDockerRuntime
      <3>2. PICK bad : plan = BuildSetupPlan(Facts(machine, paths.server), bad, run[n].opt)
        BY DEF FreshPlans
      <3>3. run'[q].plan = plan /\ run'[q].pc = "next" /\ run'[q].i = run[q].i
        BY <1>0, <2>1, <3>1 DEF Shaped
      <3> QED
        BY <1>b, <1>c, <3>2, <3>3
    <2> QED
      BY <1>0, <1>9, <2>1 DEF StartDockerRuntime, Stops, Shaped
  <1>10. ASSUME NEW p \in Procs, BeginStep(p) PROVE OK(run'[q])
    <2>1. CASE p = q
      <3>1. run[q].i <= Len(run[q].plan.steps)
        BY <1>10, <2>1 DEF BeginStep
      <3>2. run'[q].plan = run[q].plan /\ run'[q].i = run[q].i
        BY <1>0, <1>10, <2>1 DEF BeginStep, Goto, Shaped
      <3>3. Obeys(run[q].plan.steps, host)
        BY <1>0 DEF OK, Commanded
      <3>4. PICK S : run[q].plan.steps \in Seq(S)
        BY <3>3 DEF Obeys
      <3>5. run[q].i \in DOMAIN run[q].plan.steps
        BY <1>c, <3>1, <3>4
      <3> QED
        BY <1>c, <3>2, <3>3, <3>5 DEF OK, Commanded
    <2>2. CASE p # q
      BY <1>0, <1>10, <2>2 DEF BeginStep, Goto, Shaped
    <2> QED
      BY <2>1, <2>2
  <1>11. ASSUME NEW p \in Procs, CommandDone(p) PROVE OK(run'[q])
    <2>1. CASE p = q
      <3>1. run'[q] = [run[q] EXCEPT !.pc = "next", !.i = @ + 1]
        BY <1>11, <2>1 DEF CommandDone, Changes
      <3>2. run'[q].pc = "next" /\ run'[q].plan = run[q].plan /\ run'[q].i = run[q].i + 1
        BY <1>0, <3>1 DEF Shaped
      <3> QED
        BY <1>0, <1>c, <3>2 DEF OK, Commanded
    <2>2. CASE p # q
      <3>1. run'[q].pc = run[q].pc /\ run'[q].plan = run[q].plan /\ run'[q].i = run[q].i
        BY <1>0, <1>11, <2>2 DEF CommandDone, Changes, Shaped
      <3> QED
        BY <1>0, <1>a, <3>1
    <2> QED
      BY <2>1, <2>2
  <1>12. ASSUME NEW p \in Procs, StepsDone(p) \/ Waited(p) \/ Check(p) \/ CommandFailed(p)
         PROVE  OK(run'[q])
    <2>1. \/ run'[q] = Idle \/ run'[q] = run[q]
          \/ /\ run'[q].plan = run[q].plan /\ run'[q].i = run[q].i
             /\ run'[q].pc \notin {"script", "command"}
      BY <1>0, <1>12 DEF StepsDone, Waited, Check, CommandFailed, Goto, Stops, Shaped
    <2> QED
      BY <1>0, <1>a, <2>1
  <1>13. CASE Interfere
    <2>1. run'[q].pc = run[q].pc /\ run'[q].plan = run[q].plan /\ run'[q].i = run[q].i
      BY <1>0, <1>13 DEF Interfere, Outside, Shaped
    <2> QED
      BY <1>0, <1>a, <2>1
  <1> QED
    BY <1>1, <1>2, <1>3, <1>4, <1>5, <1>6, <1>7, <1>8, <1>9, <1>10, <1>11, <1>12, <1>13
    DEF Next, CommandNext, ServerNext, RunStep

(* runSteps with the plans of buildSetupPlan: while DOCKER_HOST names a daemon that the system
   may run, neither the command nor Start Docker starts or installs another runtime, for any
   machine and any interference. *)
THEOREM HostIsObeyed == HostFits /\ Spec => []HostObeyed
  <1>1. HostInv => HostObeyed
    <2> SUFFICES ASSUME HostInv, NEW p \in Procs, run[p].pc = "command", machine.host # "none"
                 PROVE  RuntimeOf(Now(p)) \in {"none", machine.host}
      BY DEF HostObeyed
    <2>1. Obeys(run[p].plan.steps, machine.host) /\ run[p].i \in DOMAIN run[p].plan.steps
      BY DEF HostInv, Commanded
    <2>2. PICK S : /\ run[p].plan.steps \in Seq(S)
                   /\ \A s \in S : RuntimeOf(s) \in {"none", machine.host}
      BY <2>1 DEF Obeys
    <2>3. Now(p) \in S
      BY <2>1, <2>2 DEF Now
    <2> QED
      BY <2>2, <2>3
  <1> QED
    BY <1>1, HostInit, HostStep, PTL DEF Spec

-----------------------------------------------------------------------------
(* StateDatabase: no host port is ever pinned twice, for what the writers of rows check pin by pin
   amounts to the uniqueness of the ports in the whole table *)

(* Looking at the pins of the changed stacks only is enough as long as no  *)
(* port is pinned twice before: writeStacks refuses exactly the writes     *)
(* after which a port would be.                                            *)
LEMMA WritesWhole ==
  ASSUME NEW next, PinnedOnce(pins)
  PROVE  Conflict(next) <=> ~PinnedOnce(next)
<1>1. ASSUME PinnedOnce(next) PROVE Insertable(next)
  BY <1>1 DEF PinnedOnce, Insertable, KeptStacks
<1>2. ASSUME Insertable(next) PROVE PinnedOnce(next)
  <2> SUFFICES ASSUME NEW s \in DOMAIN next, NEW t \in DOMAIN next,
                      NEW v \in DOMAIN next[s], NEW w \in DOMAIN next[t],
                      <<s, v>> # <<t, w>>
               PROVE  next[s][v] # next[t][w]
    BY DEF PinnedOnce
  <2>1. CASE s \notin KeptStacks(next)
    BY <1>2, <2>1 DEF Insertable, KeptStacks
  <2>2. CASE s \in KeptStacks(next) /\ t \notin KeptStacks(next)
    BY <1>2, <2>2 DEF Insertable, KeptStacks
  <2>3. CASE s \in KeptStacks(next) /\ t \in KeptStacks(next)
    BY <2>3 DEF PinnedOnce, KeptStacks
  <2> QED BY <2>1, <2>2, <2>3
<1> QED BY <1>1, <1>2 DEF Conflict

(* The pins that are kept of a hand-edited state.json have a port each.    *)
LEMMA LegacyOnce == PinnedOnce([s \in LegacyStacks |-> LegacyPort(s)])
<1> DEFINE entry(s, v) == CHOOSE i \in LegacyRow(s, v) : TRUE
<1> SUFFICES ASSUME NEW s \in LegacyStacks, NEW t \in LegacyStacks,
                    NEW v \in DOMAIN LegacyPort(s), NEW w \in DOMAIN LegacyPort(t),
                    <<s, v>> # <<t, w>>, LegacyPort(s)[v] = LegacyPort(t)[w]
             PROVE  FALSE
  BY DEF PinnedOnce
<1>1. entry(s, v) \in LegacyRow(s, v) /\ LegacyPort(s)[v] = LegacyPins[entry(s, v)].port
  BY DEF LegacyPort
<1>2. entry(t, w) \in LegacyRow(t, w) /\ LegacyPort(t)[w] = LegacyPins[entry(t, w)].port
  BY DEF LegacyPort
<1> HIDE DEF entry
<1>3. entry(s, v) \in Nat \ {0} /\ entry(t, w) \in Nat \ {0}
  BY <1>1, <1>2, DatabaseAssumption DEF LegacyRow, LegacyKept
<1>4. entry(s, v) # entry(t, w)
  BY <1>1, <1>2 DEF LegacyRow
<1>5. CASE entry(s, v) < entry(t, w)
  <2>1. entry(s, v) \in 1 .. entry(t, w) - 1
    BY <1>3, <1>5
  <2>2. \A j \in 1 .. entry(t, w) - 1 : LegacyPins[j].port # LegacyPins[entry(t, w)].port
    BY <1>2 DEF LegacyRow, LegacyKept
  <2>3. LegacyPins[entry(s, v)].port # LegacyPins[entry(t, w)].port
    BY <2>1, <2>2
  <2> QED BY <1>1, <1>2, <2>3
<1>6. CASE entry(t, w) < entry(s, v)
  <2>1. entry(t, w) \in 1 .. entry(s, v) - 1
    BY <1>3, <1>6
  <2>2. \A j \in 1 .. entry(s, v) - 1 : LegacyPins[j].port # LegacyPins[entry(s, v)].port
    BY <1>1 DEF LegacyRow, LegacyKept
  <2>3. LegacyPins[entry(t, w)].port # LegacyPins[entry(s, v)].port
    BY <2>1, <2>2
  <2> QED BY <1>1, <1>2, <2>3
<1> QED BY <1>3, <1>4, <1>5, <1>6

LEMMA OpeningKeepsPins ==
  ASSUME NEW p, PinnedOnce(pins), OpenStep(p)
  PROVE  PinnedOnce(pins)'
<1>1. CASE ImportLegacy(p)
  <2>1. CASE IsStateEmpty
    BY <1>1, <2>1, LegacyOnce DEF ImportLegacy, PinnedOnce
  <2>2. CASE ~IsStateEmpty
    BY <1>1, <2>2 DEF ImportLegacy, PinnedOnce
  <2> QED BY <2>1, <2>2
<1>2. CASE pins' = pins
  BY <1>2 DEF PinnedOnce
<1>3. ImportLegacy(p) \/ pins' = pins
  BY DEF OpenStep, Open, ReadVersion, RemoveBackup, WriteBackup, MigratorRead,
         Migrate, ReadMarker, WriteMarker, ReadLegacy, ImportLegacy, RenameLegacy
<1> QED BY <1>1, <1>2, <1>3

LEMMA WritingKeepsPins ==
  ASSUME NEW p, PinnedOnce(pins), WriteRows(p)
  PROVE  PinnedOnce(pins)'
<1>1. PICK next : Update(p, next)
  BY DEF WriteRows
<1>2. CASE Conflict(next.pins)
  BY <1>1, <1>2 DEF Update, PinnedOnce
<1>3. CASE ~Conflict(next.pins)
  <2>1. PinnedOnce(next.pins)
    BY <1>3, WritesWhole
  <2> QED BY <1>1, <1>3, <2>1 DEF Update, PinnedOnce
<1> QED BY <1>2, <1>3

LEMMA StepKeepsPins ==
  ASSUME PinnedOnce(pins), [StartupNext]_startupVars
  PROVE  PinnedOnce(pins)'
<1>1. CASE UNCHANGED startupVars
  BY <1>1 DEF startupVars, databaseVars, PinnedOnce
<1>2. ASSUME NEW p \in Process, StartupStep(p) PROVE PinnedOnce(pins)'
  <2>1. CASE OpenDatabase(p)
    BY <2>1, OpeningKeepsPins DEF OpenDatabase
  <2>2. CASE WriteRows(p)
    BY <2>2, WritingKeepsPins
  <2>3. CASE pins' = pins
    BY <2>3 DEF PinnedOnce
  <2>4. OpenDatabase(p) \/ WriteRows(p) \/ pins' = pins
    BY <1>2 DEF StartupStep, BeginStart, OpeningFailed, FindRunning, Health, FindFreePort, PortGiven,
                Listen, WriteFile, StopServer, ReadOwnFile, RemoveFile, databaseVars
  <2> QED BY <2>1, <2>2, <2>3, <2>4
<1>3. ASSUME NEW p \in Process, KillProcess(p) PROVE PinnedOnce(pins)'
  BY <1>3 DEF KillProcess, PinnedOnce
<1> QED BY <1>1, <1>2, <1>3 DEF StartupNext

(* What updates write, whole, and no port pinned twice: in every state of  *)
(* any number of commands that start, write and are killed.                *)
THEOREM PinsAreWrittenWhole == StartupSpec => []PinsWrittenWhole
<1>1. InitStartup => PinnedOnce(pins)
  BY DEF InitStartup, InitDatabase, PinnedOnce
<1>2. PinnedOnce(pins) /\ [StartupNext]_startupVars => PinnedOnce(pins)'
  BY StepKeepsPins
<1>3. PinnedOnce(pins) => PinsWrittenWhole
  BY WritesWhole DEF PinsWrittenWhole
<1> QED BY <1>1, <1>2, <1>3, PTL DEF StartupSpec

-----------------------------------------------------------------------------
(* StateDatabase: what an opening may do *)

Openings == {"closed", "version", "copy", "vacuum", "migrate", "commit", "marker", "mark", "legacy", "import",
             "rename", "open", "failed", "refused"}
Opening == [at : Openings, attempt : Nat \ {0}, last : Nat, copied : BOOLEAN]

Shipped == {ships[p] : p \in Process}
UpTo(n) == {k \in Shipped : k <= n}

(* The binaries that open the database at the same time ship fewer          *)
(* different sets of migrations than an opening makes attempts.             *)
FewBinaries == IsFiniteSet(Shipped) /\ Cardinality(Shipped) < LockAttempts

OpeningTyped ==
  /\ conn \in [Process -> Opening]
  /\ ships \in [Process -> Nat \ {0}]
  /\ schema \in Shipped \cup {0}

(* Each attempt that was lost met migrations applied since its version was  *)
(* read.                                                                    *)
AttemptsPaid ==
  \A p \in Process :
    /\ conn[p].at \in {"closed", "version", "copy", "vacuum", "migrate"} =>
         conn[p].attempt <= Cardinality(UpTo(schema)) + 1
    /\ conn[p].at = "commit" =>
         conn[p].last <= schema /\ conn[p].attempt <= Cardinality(UpTo(conn[p].last)) + 1

(* Whoever comes to rename state.json has seen rows, or it holds none.      *)
LegacyHeld ==
  \A p \in Process : conn[p].at = "rename" => held \/ (LegacyProjects = {} /\ LegacyPins = <<>>)

OpeningInv == FewBinaries /\ OpeningTyped /\ AttemptsPaid /\ LegacyHeld

LEMMA UpToGrows ==
  ASSUME IsFiniteSet(Shipped), ships \in [Process -> Nat \ {0}], NEW a \in Nat, NEW b \in Nat, a <= b
  PROVE  /\ Cardinality(UpTo(a)) \in Nat
         /\ Cardinality(UpTo(a)) <= Cardinality(UpTo(b))
         /\ Cardinality(UpTo(b)) <= Cardinality(Shipped)
         /\ b \in Shipped /\ a < b => Cardinality(UpTo(a)) + 1 <= Cardinality(UpTo(b))
<1>0. Shipped \subseteq Nat
  BY DEF Shipped
<1>1. UpTo(a) \subseteq UpTo(b) /\ UpTo(b) \subseteq Shipped
  <2>1. \A k \in Nat : k <= a => k <= b
    OBVIOUS
  <2> QED BY <1>0, <2>1 DEF UpTo
<1>2. IsFiniteSet(UpTo(b)) /\ IsFiniteSet(UpTo(a)) /\ Cardinality(UpTo(b)) <= Cardinality(Shipped)
  BY <1>1, FS_Subset
<1>3. Cardinality(UpTo(a)) <= Cardinality(UpTo(b)) /\ Cardinality(UpTo(a)) \in Nat /\ Cardinality(UpTo(b)) \in Nat
  BY <1>1, <1>2, FS_Subset, FS_CardinalityType
<1>4. ASSUME b \in Shipped, a < b
      PROVE  Cardinality(UpTo(a)) + 1 <= Cardinality(UpTo(b))
  <2>1. b \notin UpTo(a) /\ UpTo(a) \cup {b} \subseteq UpTo(b)
    BY <1>1, <1>4 DEF UpTo
  <2>2. Cardinality(UpTo(a) \cup {b}) = Cardinality(UpTo(a)) + 1
    BY <1>2, <2>1, FS_AddElement
  <2>3. Cardinality(UpTo(a) \cup {b}) <= Cardinality(UpTo(b))
    BY <1>2, <2>1, FS_Subset
  <2> QED BY <2>2, <2>3
<1> QED BY <1>2, <1>3, <1>4

LEMMA OpeningBegins == FewBinaries /\ InitStartup => OpeningInv
<1> SUFFICES ASSUME FewBinaries, InitStartup PROVE OpeningInv
  OBVIOUS
<1>1. conn = [p \in Process |-> Unopened] /\ schema = 0 /\ ships \in [Process -> Nat \ {0}]
  BY DEF InitStartup, InitDatabase
<1>2. Unopened \in Opening
  BY DEF Unopened, Opening, Openings
<1>3. OpeningTyped
  BY <1>1, <1>2 DEF OpeningTyped
<1>4. Cardinality(UpTo(0)) \in Nat
  BY <1>1, UpToGrows DEF FewBinaries
<1> QED BY <1>1, <1>3, <1>4 DEF OpeningInv, AttemptsPaid, LegacyHeld, Unopened

(* A connection that may be the next one of an opening. *)
Fitting(c) ==
  /\ c \in Opening
  /\ c.at \in {"closed", "version", "copy", "vacuum", "migrate"} => c.attempt <= Cardinality(UpTo(schema')) + 1
  /\ c.at = "commit" => c.last <= schema' /\ c.attempt <= Cardinality(UpTo(c.last)) + 1
  /\ c.at = "rename" => held' \/ (LegacyProjects = {} /\ LegacyPins = <<>>)

(* A step of an opening moves its own connection, and raises the schema at  *)
(* most.                                                                    *)
LEMMA OthersApart ==
  ASSUME OpeningInv, NEW p \in Process, ships' = ships, held => held', schema' \in Shipped \cup {0},
         schema <= schema', NEW c, Fitting(c), conn' = [conn EXCEPT ![p] = c]
  PROVE  OpeningInv'
<1> USE DEF OpeningInv, Fitting
<1>1. Shipped' = Shipped /\ \A n : UpTo(n)' = UpTo(n)
  BY DEF Shipped, UpTo
<1>2. schema \in Nat /\ schema' \in Nat
  BY DEF OpeningTyped, Shipped
<1>3. Cardinality(UpTo(schema)) \in Nat /\ Cardinality(UpTo(schema')) \in Nat
      /\ Cardinality(UpTo(schema)) <= Cardinality(UpTo(schema'))
  BY <1>2, UpToGrows DEF FewBinaries, OpeningTyped
<1>4. FewBinaries'
  BY <1>1 DEF FewBinaries
<1>5. OpeningTyped'
  BY <1>1 DEF OpeningTyped
<1>6. conn'[p] = c /\ \A q \in Process : q # p => conn'[q] = conn[q]
  BY DEF OpeningTyped
<1>7. LegacyHeld'
  BY <1>6 DEF LegacyHeld
<1>8. AttemptsPaid'
  <2> SUFFICES ASSUME NEW q \in Process
               PROVE  /\ conn'[q].at \in {"closed", "version", "copy", "vacuum", "migrate"} =>
                            conn'[q].attempt <= Cardinality(UpTo(schema')) + 1
                      /\ conn'[q].at = "commit" =>
                            conn'[q].last <= schema' /\ conn'[q].attempt <= Cardinality(UpTo(conn'[q].last)) + 1
    BY <1>1 DEF AttemptsPaid
  <2>1. CASE q = p
    BY <1>6, <2>1
  <2>2. CASE q # p
    <3>1. conn'[q] = conn[q] /\ conn[q].attempt \in Nat /\ conn[q].last \in Nat
      BY <1>6, <2>2 DEF OpeningTyped, Opening
    <3> QED BY <1>2, <1>3, <3>1 DEF AttemptsPaid
  <2> QED BY <2>1, <2>2
<1> QED BY <1>4, <1>5, <1>7, <1>8

(* The attempts of a lost race are never exhausted. *)
LEMMA RacePaid ==
  ASSUME OpeningInv, NEW p \in Process, conn[p].at = "commit", schema # conn[p].last
  PROVE  conn[p].attempt <= Cardinality(UpTo(schema)) /\ conn[p].attempt < LockAttempts
<1> USE DEF OpeningInv
<1>1. conn[p].last \in Nat /\ conn[p].attempt \in Nat /\ conn[p].last < schema /\ schema \in Shipped
      /\ schema \in Nat /\ conn[p].attempt <= Cardinality(UpTo(conn[p].last)) + 1
  <2>1. conn[p].last \in Nat /\ conn[p].attempt \in Nat /\ schema \in Nat
    BY DEF OpeningTyped, Opening, Shipped
  <2>2. conn[p].last <= schema /\ conn[p].attempt <= Cardinality(UpTo(conn[p].last)) + 1
    BY DEF AttemptsPaid
  <2> QED BY <2>1, <2>2 DEF OpeningTyped
<1>2. /\ Cardinality(UpTo(conn[p].last)) + 1 <= Cardinality(UpTo(schema))
      /\ Cardinality(UpTo(schema)) <= Cardinality(Shipped)
      /\ Cardinality(UpTo(conn[p].last)) \in Nat /\ Cardinality(UpTo(schema)) \in Nat
  BY <1>1, UpToGrows DEF FewBinaries, OpeningTyped
<1>3. Cardinality(Shipped) \in Nat /\ Cardinality(Shipped) < LockAttempts
  BY FS_CardinalityType DEF FewBinaries
<1> QED BY <1>1, <1>2, <1>3, DatabaseAssumption

LEMMA OpenStepKeeps ==
  ASSUME OpeningInv, NEW p \in Process, OpenStep(p), held' = (held \/ ~IsStateEmpty')
  PROVE  OpeningInv'
<1> USE DEF OpeningInv
<1> DEFINE d == conn[p]
<1>0. /\ d \in Opening /\ schema \in Nat /\ ships[p] \in Nat \ {0} /\ ships[p] \in Shipped
      /\ conn \in [Process -> Opening] /\ schema \in Shipped \cup {0}
      /\ d.attempt \in Nat \ {0} /\ d.last \in Nat /\ Cardinality(UpTo(schema)) \in Nat
  <2>1. /\ d \in Opening /\ schema \in Nat /\ ships[p] \in Nat \ {0} /\ ships[p] \in Shipped
        /\ conn \in [Process -> Opening] /\ schema \in Shipped \cup {0}
    BY DEF OpeningTyped, Shipped
  <2>2. Cardinality(UpTo(schema)) \in Nat
    BY <2>1, UpToGrows DEF FewBinaries, OpeningTyped
  <2> QED BY <2>1, <2>2 DEF Opening
<1>p. d.at \in {"closed", "version", "copy", "vacuum", "migrate"} => d.attempt <= Cardinality(UpTo(schema)) + 1
  BY DEF AttemptsPaid
<1>h. held => held'
  OBVIOUS
<1>s. schema <= schema
  BY <1>0
<1> HIDE DEF OpeningInv
<1>1. CASE Open(p)
  <2> DEFINE c == [d EXCEPT !.at = "version"]
  <2>1. conn' = [conn EXCEPT ![p] = c] /\ schema' = schema /\ ships' = ships /\ d.at = "closed"
    BY <1>0, <1>1 DEF Open, MoveTo
  <2>2. c \in Opening /\ c.at = "version" /\ c.attempt = d.attempt
    BY <1>0 DEF Opening, Openings
  <2> HIDE DEF c, d
  <2>3. Fitting(c)
    BY <1>0, <1>p, <2>1, <2>2 DEF Fitting
  <2> QED BY <1>0, <1>h, <1>s, <2>1, <2>3, OthersApart
<1>2. CASE ReadVersion(p)
  <2> DEFINE c == [d EXCEPT !.last = schema, !.at = conn'[p].at]
  <2>1. schema' = schema /\ ships' = ships /\ d.at = "version"
    BY <1>2 DEF ReadVersion
  <2>2. conn'[p].at \in {"refused", "marker", "migrate", "copy"} /\ conn' = [conn EXCEPT ![p] = c]
    BY <1>0, <1>2 DEF ReadVersion, Opening
  <2>3. c \in Opening /\ c.at = conn'[p].at /\ c.attempt = d.attempt
    BY <1>0, <2>2 DEF Opening, Openings
  <2> HIDE DEF c, d
  <2>4. Fitting(c)
    BY <1>0, <1>p, <2>1, <2>2, <2>3 DEF Fitting
  <2> QED BY <1>0, <1>h, <1>s, <2>1, <2>2, <2>4, OthersApart
<1>3. CASE RemoveBackup(p)
  <2> DEFINE c == [d EXCEPT !.at = "vacuum"]
  <2>1. conn' = [conn EXCEPT ![p] = c] /\ schema' = schema /\ ships' = ships /\ d.at = "copy"
    BY <1>0, <1>3 DEF RemoveBackup, MoveTo
  <2>2. c \in Opening /\ c.at = "vacuum" /\ c.attempt = d.attempt
    BY <1>0 DEF Opening, Openings
  <2> HIDE DEF c, d
  <2>3. Fitting(c)
    BY <1>0, <1>p, <2>1, <2>2 DEF Fitting
  <2> QED BY <1>0, <1>h, <1>s, <2>1, <2>3, OthersApart
<1>4. CASE WriteBackup(p)
  <2> DEFINE c == [d EXCEPT !.copied = TRUE, !.at = "migrate"]
  <2>1. conn' = [conn EXCEPT ![p] = c] /\ schema' = schema /\ ships' = ships /\ d.at = "vacuum"
    BY <1>0, <1>4 DEF WriteBackup
  <2>2. c \in Opening /\ c.at = "migrate" /\ c.attempt = d.attempt
    BY <1>0 DEF Opening, Openings
  <2> HIDE DEF c, d
  <2>3. Fitting(c)
    BY <1>0, <1>p, <2>1, <2>2 DEF Fitting
  <2> QED BY <1>0, <1>h, <1>s, <2>1, <2>3, OthersApart
<1>5. CASE MigratorRead(p)
  <2> DEFINE c == [d EXCEPT !.last = schema, !.at = "commit"]
  <2>1. conn' = [conn EXCEPT ![p] = c] /\ schema' = schema /\ ships' = ships /\ d.at = "migrate"
    BY <1>0, <1>5 DEF MigratorRead
  <2>2. c \in Opening /\ c.at = "commit" /\ c.attempt = d.attempt /\ c.last = schema
    BY <1>0 DEF Opening, Openings
  <2> HIDE DEF c, d
  <2>3. Fitting(c)
    BY <1>0, <1>p, <2>1, <2>2 DEF Fitting
  <2> QED BY <1>0, <1>h, <1>s, <2>1, <2>3, OthersApart
<1>6. CASE Migrate(p)
  <2>0. ships' = ships /\ d.at = "commit" /\ d.last <= schema
    BY <1>6 DEF Migrate, OpeningInv, AttemptsPaid
  <2>1. CASE conn' = [conn EXCEPT ![p].at = "marker"] /\ schema' \in Shipped \cup {0} /\ schema <= schema'
    <3> DEFINE c == [d EXCEPT !.at = "marker"]
    <3>1. conn' = [conn EXCEPT ![p] = c]
      BY <1>0, <2>1
    <3>2. c \in Opening /\ c.at = "marker"
      BY <1>0 DEF Opening, Openings
    <3> HIDE DEF c, d
    <3>3. Fitting(c)
      BY <3>2 DEF Fitting
    <3> QED BY <1>0, <1>h, <2>0, <2>1, <3>1, <3>3, OthersApart
  <2>2. CASE schema # d.last /\ Retry(p) /\ schema' = schema
    <3> DEFINE c == [d EXCEPT !.attempt = d.attempt + 1, !.at = "version"]
    <3>1. d.attempt <= Cardinality(UpTo(schema)) /\ d.attempt < LockAttempts
      BY <2>0, <2>2, RacePaid
    <3>2. conn' = [conn EXCEPT ![p] = c]
      BY <1>0, <2>2, <3>1 DEF Retry
    <3>3. c \in Opening /\ c.at = "version" /\ c.attempt = d.attempt + 1
      <4>1. d.attempt + 1 \in Nat \ {0}
        BY <1>0
      <4> HIDE DEF d
      <4> QED BY <1>0, <4>1 DEF Opening, Openings
    <3> HIDE DEF c, d
    <3>4. Fitting(c)
      BY <1>0, <2>2, <3>1, <3>3 DEF Fitting
    <3> QED BY <1>0, <1>h, <1>s, <2>0, <2>2, <3>2, <3>4, OthersApart
  <2>3. \/ conn' = [conn EXCEPT ![p].at = "marker"] /\ schema' \in Shipped \cup {0} /\ schema <= schema'
        \/ schema # d.last /\ Retry(p) /\ schema' = schema
    BY <1>0, <1>6 DEF Migrate, MoveTo
  <2> QED BY <2>1, <2>2, <2>3
<1>7. CASE ReadMarker(p) \/ WriteMarker(p)
  <2> DEFINE c == [d EXCEPT !.at = conn'[p].at]
  <2>1. schema' = schema /\ ships' = ships
    BY <1>7 DEF ReadMarker, WriteMarker
  <2>2. conn'[p].at \in {"legacy", "mark"} /\ conn' = [conn EXCEPT ![p] = c]
    BY <1>0, <1>7 DEF ReadMarker, WriteMarker, MoveTo, Opening
  <2>3. c \in Opening /\ c.at = conn'[p].at
    BY <1>0, <2>2 DEF Opening, Openings
  <2> HIDE DEF c, d
  <2>4. Fitting(c)
    BY <2>2, <2>3 DEF Fitting
  <2> QED BY <1>0, <1>h, <1>s, <2>1, <2>2, <2>4, OthersApart
<1>8. CASE ReadLegacy(p) \/ RenameLegacy(p)
  <2> DEFINE c == [d EXCEPT !.at = conn'[p].at]
  <2>1. schema' = schema /\ ships' = ships
    BY <1>8 DEF ReadLegacy, RenameLegacy
  <2>2. conn'[p].at \in {"import", "failed", "open"} /\ conn' = [conn EXCEPT ![p] = c]
    BY <1>0, <1>8 DEF ReadLegacy, RenameLegacy, MoveTo, Opening
  <2>3. c \in Opening /\ c.at = conn'[p].at
    BY <1>0, <2>2 DEF Opening, Openings
  <2> HIDE DEF c, d
  <2>4. Fitting(c)
    BY <2>2, <2>3 DEF Fitting
  <2> QED BY <1>0, <1>h, <1>s, <2>1, <2>2, <2>4, OthersApart
<1>9. CASE ImportLegacy(p)
  <2> DEFINE c == [d EXCEPT !.at = "rename"]
  <2>1. conn' = [conn EXCEPT ![p] = c] /\ schema' = schema /\ ships' = ships
    BY <1>0, <1>9 DEF ImportLegacy, MoveTo
  <2>2. c \in Opening /\ c.at = "rename"
    BY <1>0 DEF Opening, Openings
  <2>3. IsStateEmpty' => LegacyProjects = {} /\ LegacyPins = <<>>
    <3>1. CASE IsStateEmpty
      <4>1. IsStateEmpty' => LegacyProjects = {} /\ LegacyStacks = {}
        BY <1>9, <3>1 DEF ImportLegacy, IsStateEmpty
      <4>2. LegacyStacks = {} => LegacyPins = <<>>
        <5>1. LegacyPins # <<>> => 1 \in DOMAIN LegacyPins
          BY DatabaseAssumption
        <5> QED BY <5>1 DEF LegacyStacks
      <4> QED BY <4>1, <4>2
    <3>2. CASE ~IsStateEmpty
      BY <1>9, <3>2 DEF ImportLegacy, IsStateEmpty
    <3> QED BY <3>1, <3>2
  <2> HIDE DEF c, d
  <2>4. Fitting(c)
    <3>1. held' \/ (LegacyProjects = {} /\ LegacyPins = <<>>)
      BY <2>3, Zenon
    <3> QED BY <2>2, <3>1 DEF Fitting
  <2> QED BY <1>0, <1>h, <1>s, <2>1, <2>4, OthersApart
<1> QED BY <1>1, <1>2, <1>3, <1>4, <1>5, <1>6, <1>7, <1>8, <1>9 DEF OpenStep

LEMMA OpeningKept == OpeningInv /\ [StartupNext]_startupVars => OpeningInv'
<1> SUFFICES ASSUME OpeningInv, [StartupNext]_startupVars PROVE OpeningInv'
  OBVIOUS
<1>1. CASE UNCHANGED startupVars
  BY <1>1 DEF startupVars, databaseVars, OpeningInv, FewBinaries, OpeningTyped, AttemptsPaid, LegacyHeld, Shipped, UpTo
<1>2. CASE StartupNext
  <2>0. held' = (held \/ ~IsStateEmpty')
    BY <1>2 DEF StartupNext, Watch
  <2>1. ASSUME NEW p \in Process, OpenDatabase(p) PROVE OpeningInv'
    BY <2>0, <2>1, OpenStepKeeps DEF OpenDatabase
  <2>2. ASSUME NEW p \in Process, conn' = [conn EXCEPT ![p] = Unopened], schema' = schema, ships' = ships
        PROVE  OpeningInv'
    <3>1. schema \in Nat /\ schema \in Shipped \cup {0}
      BY DEF OpeningInv, OpeningTyped, Shipped
    <3>2. Cardinality(UpTo(schema)) \in Nat
      BY <3>1, UpToGrows DEF OpeningInv, FewBinaries, OpeningTyped
    <3>3. Unopened \in Opening /\ Unopened.at = "closed" /\ Unopened.attempt = 1
      BY DEF Unopened, Opening, Openings
    <3>4. held => held'
      BY <2>0, Zenon
    <3>5. Fitting(Unopened) /\ schema <= schema
      BY <2>2, <3>1, <3>2, <3>3 DEF Fitting
    <3> QED BY <2>2, <3>1, <3>4, <3>5, OthersApart
  <2>3. CASE conn' = conn /\ schema' = schema /\ ships' = ships
    BY <2>0, <2>3 DEF OpeningInv, FewBinaries, OpeningTyped, AttemptsPaid, LegacyHeld, Shipped, UpTo
  <2>4. \/ \E p \in Process : OpenDatabase(p)
        \/ \E p \in Process : conn' = [conn EXCEPT ![p] = Unopened] /\ schema' = schema /\ ships' = ships
        \/ conn' = conn /\ schema' = schema /\ ships' = ships
    BY <1>2, Zenon DEF StartupNext, StartupStep, BeginStart, OpeningFailed, WriteRows, FindRunning, Health,
         FindFreePort, PortGiven, Listen, WriteFile, StopServer, ReadOwnFile, RemoveFile, KillProcess, Leave, databaseVars
  <2> QED BY <2>1, <2>2, <2>3, <2>4
<1> QED BY <1>1, <1>2

(* What one step may do to an opening and to state.json. *)
Careful(p) ==
  /\ conn[p].at # "failed" /\ conn'[p].at = "failed" => legacy = "broken"
  /\ conn[p].at = "import" /\ conn'[p].at = "rename" /\ Rows' # Rows => projects = {} /\ DOMAIN pins = {}
  /\ legacy = "present" /\ legacy' = "migrated" => held \/ (LegacyProjects = {} /\ LegacyPins = <<>>)

LEMMA OpeningCareful ==
  ASSUME OpeningInv, StartupNext, NEW p \in Process
  PROVE  Careful(p)
<1> USE DEF OpeningInv
<1>1. ASSUME NEW m \in Process, OpenDatabase(m) PROVE Careful(p)
  <2>0. OpenStep(m)
    BY <1>1 DEF OpenDatabase
  <2>1. CASE Migrate(m)
    <3>1. legacy' = legacy
      BY <2>1 DEF Migrate
    <3>2. conn'[p].at = "failed" => conn[p].at = "failed"
      <4>1. CASE conn[m].last < ships[m] /\ schema # conn[m].last /\ Retry(m)
        <5>1. conn[m].attempt < LockAttempts
          BY <2>1, <4>1, RacePaid DEF Migrate
        <5> QED BY <4>1, <5>1 DEF Retry, OpeningTyped, Opening
      <4>2. CASE MoveTo(m, "marker")
        BY <4>2 DEF MoveTo, OpeningTyped, Opening
      <4> QED BY <2>1, <4>1, <4>2 DEF Migrate
    <3>3. conn[p].at = "import" => conn'[p].at # "rename"
      <4>1. conn[m].at = "commit"
        BY <2>1 DEF Migrate
      <4>2. p # m => conn'[p] = conn[p]
        BY <2>1 DEF Migrate, MoveTo, Retry, OpeningTyped
      <4> QED BY <4>1, <4>2
    <3> QED BY <3>1, <3>2, <3>3 DEF Careful
  <2>2. CASE ReadLegacy(m)
    BY <2>2 DEF ReadLegacy, MoveTo, Careful, OpeningTyped, Opening
  <2>3. CASE ImportLegacy(m)
    BY <2>3 DEF ImportLegacy, MoveTo, Careful, IsStateEmpty, Rows, OpeningTyped, Opening
  <2>4. CASE RenameLegacy(m)
    BY <2>4 DEF RenameLegacy, MoveTo, Careful, LegacyHeld, OpeningTyped, Opening
  <2>5. CASE Open(m) \/ RemoveBackup(m) \/ WriteBackup(m) \/ MigratorRead(m)
    BY <2>5 DEF Open, RemoveBackup, WriteBackup, MigratorRead, MoveTo, Careful, OpeningTyped, Opening
  <2>6. CASE ReadVersion(m)
    <3>0. schema \in Nat /\ ships[m] \in Nat
      BY DEF OpeningTyped, Shipped
    <3>1. conn'[m].at \in {"refused", "marker", "migrate", "copy"} /\ legacy' = legacy
      <4>1. conn[m] \in Opening /\ conn \in [Process -> Opening]
        BY DEF OpeningTyped
      <4> QED BY <2>6, <3>0, <4>1 DEF ReadVersion, Opening
    <3>2. p # m => conn'[p] = conn[p]
      BY <2>6 DEF ReadVersion, OpeningTyped
    <3>3. conn[m].at = "version"
      BY <2>6 DEF ReadVersion
    <3> QED BY <3>1, <3>2, <3>3 DEF Careful
  <2>7. CASE ReadMarker(m) \/ WriteMarker(m)
    BY <2>7 DEF ReadMarker, WriteMarker, MoveTo, Careful, OpeningTyped, Opening
  <2> QED BY <2>0, <2>1, <2>2, <2>3, <2>4, <2>5, <2>6, <2>7 DEF OpenStep
<1>2. ASSUME NEW m \in Process, conn' = [conn EXCEPT ![m] = Unopened] \/ conn' = conn, legacy' = legacy
      PROVE  Careful(p)
  <2>1. conn'[p] = conn[p] \/ conn'[p] = Unopened
    BY <1>2 DEF OpeningTyped
  <2>2. Unopened.at = "closed"
    BY DEF Unopened
  <2> QED BY <1>2, <2>1, <2>2 DEF Careful
<1>3. \/ \E m \in Process : OpenDatabase(m)
      \/ \E m \in Process : (conn' = [conn EXCEPT ![m] = Unopened] \/ conn' = conn) /\ legacy' = legacy
  BY Zenon DEF StartupNext, StartupStep, BeginStart, OpeningFailed, WriteRows, FindRunning, Health,
       FindFreePort, PortGiven, Listen, WriteFile, StopServer, ReadOwnFile, RemoveFile, KillProcess, Leave, databaseVars
<1> QED BY <1>1, <1>2, <1>3

(* However the openings of any number of commands overlap and wherever one  *)
(* is killed, as long as they ship fewer sets of migrations than an opening *)
(* makes attempts: no lost race fails one, state.json is imported into an   *)
(* empty database only, and renamed only once rows were committed           *)
(* (applyMigrations, importLegacyState).                                    *)
THEOREM OpeningIsSafe == FewBinaries /\ StartupSpec => OpeningSafe
<1>1. OpeningInv /\ [StartupNext]_startupVars =>
       [\A p \in Process :
       /\ conn[p].at # "failed" /\ conn[p].at' = "failed" => legacy = "broken"
       /\ conn[p].at = "import" /\ conn[p].at' = "rename" /\ Rows' # Rows => projects = {} /\ DOMAIN pins = {}
       /\ legacy = "present" /\ legacy' = "migrated" =>
            held \/ (LegacyProjects = {} /\ LegacyPins = <<>>)]_startupVars
  BY OpeningCareful DEF Careful
<1> QED BY OpeningBegins, OpeningKept, <1>1, PTL DEF StartupSpec, OpeningSafe

-----------------------------------------------------------------------------
(* Startup: who serves, who is named by dashboard.json *)

Stages == {"new", "database", "search", "health", "port", "listen", "write", "serving", "stopped", "remove",
           "exited", "killed"}
Files == [pid : Process, port : 1 .. Ports] \cup {NoFile}
Course == [at : Stages, index : 1 .. Ports, seen : Files]

DashTyped ==
  /\ dash \in [Process -> Course]
  /\ file \in Files
  /\ listener \in [1 .. Ports -> Process \cup {Nobody, Foreign}]
  /\ killed \in Nat

Launched == \A p \in Process : dash[p].at # "new" => command[p] # "none"

(* The file names a process that has served, on its port, and as long as    *)
(* nobody was killed one that has yet to look at the file.                  *)
FileOwned ==
  file # NoFile =>
    /\ file.pid \in Process /\ file.port = dash[file.pid].index
    /\ dash[file.pid].at \in {"serving", "stopped", "remove", "exited", "killed"}
    /\ killed = 0 => dash[file.pid].at \in {"serving", "stopped", "remove"}

Serves == \A p \in Process : dash[p].at \in {"write", "serving"} => listener[dash[p].index] = p

(* A search that is under way knows the port of every dashboard that was up *)
(* since it began.                                                          *)
SearchTrue ==
  \A p \in Process :
    /\ Searching(p) => settled[p] \subseteq Findable
    /\ dash[p].at = "health" => \A q \in settled[p] : dash[p].seen.port = dash[q].index

DashInv == DashTyped /\ Launched /\ FileOwned /\ Serves /\ SearchTrue

LEMMA DashBegins == InitStartup => DashInv
<1> SUFFICES ASSUME InitStartup PROVE DashInv
  OBVIOUS
<1>1. /\ dash = [p \in Process |-> NotLaunched] /\ file = NoFile /\ killed = 0
      /\ listener \in [1 .. Ports -> {Nobody, Foreign}]
  BY DEF InitStartup, InitDashboard
<1>2. 1 \in 1 .. Ports
  BY StartupAssumption
<1>3. NotLaunched \in Course
  BY <1>2 DEF NotLaunched, Course, Stages, Files
<1>4. DashTyped
  BY <1>1, <1>3 DEF DashTyped, Files
<1>5. \A p \in Process : dash[p].at = "new"
  BY <1>1 DEF NotLaunched
<1> QED BY <1>1, <1>4, <1>5 DEF DashInv, Launched, FileOwned, Serves, SearchTrue, Searching

(* A step of a process that does not serve yet. *)
Early(p) ==
  \/ BeginStart(p) \/ OpenDatabase(p) \/ OpeningFailed(p) \/ WriteRows(p)
  \/ FindRunning(p) \/ Health(p) \/ FindFreePort(p) \/ PortGiven(p)

LEMMA EarlyMoves ==
  ASSUME DashInv, NEW p \in Process, Early(p)
  PROVE  /\ dash' \in [Process -> Course]
         /\ \A q \in Process : q # p => dash'[q] = dash[q]
         /\ file' = file /\ listener' = listener
         /\ dash[p].at \in {"new", "database", "search", "health", "port"}
         /\ dash'[p].at \in {"database", "search", "health", "port", "listen", "exited"}
         /\ dash[p].at = "new" => command[p] # "none"
         /\ dash'[p].at = "health" => dash[p].at = "search" /\ dash'[p].seen = file
         /\ dash'[p].at \in {"search", "health"} /\ Searching(p) => dash'[p].at = "health"
<1> USE DEF DashInv, DashTyped
<1>1. CASE BeginStart(p)
  BY <1>1 DEF BeginStart, To, Course, Stages, Searching
<1>2. CASE OpenDatabase(p)
  BY <1>2 DEF OpenDatabase, dashVars, Course, Stages, Searching
<1>3. CASE OpeningFailed(p)
  BY <1>3 DEF OpeningFailed, Leave, To, Course, Stages, Searching
<1>4. CASE WriteRows(p)
  BY <1>4 DEF WriteRows, Leave, To, Course, Stages, Searching
<1>5. CASE FindRunning(p)
  BY <1>5 DEF FindRunning, Course, Stages, Searching
<1>6. CASE Health(p)
  BY <1>6 DEF Health, To, Course, Stages, Searching
<1>7. CASE FindFreePort(p)
  <2>1. dash[p].at = "port" /\ file' = file /\ listener' = listener
    BY <1>7 DEF FindFreePort
  <2>2. CASE listener[dash[p].index] = Nobody
    BY <1>7, <2>1, <2>2 DEF FindFreePort, Course, Stages, Searching
  <2>3. CASE listener[dash[p].index] # Nobody /\ dash[p].index < Ports
    <3>1. dash' = [dash EXCEPT ![p].index = @ + 1]
      BY <1>7, <2>3 DEF FindFreePort
    <3>2. dash[p].index + 1 \in 1 .. Ports
      BY <2>3, StartupAssumption DEF Course
    <3> QED BY <2>1, <3>1, <3>2 DEF Course, Stages, Searching
  <2>4. CASE listener[dash[p].index] # Nobody /\ ~(dash[p].index < Ports)
    BY <1>7, <2>1, <2>4 DEF FindFreePort, Course, Stages, Searching
  <2> QED BY <2>2, <2>3, <2>4
<1>8. CASE PortGiven(p)
  BY <1>8 DEF PortGiven, Course, Stages, Searching
<1> QED BY <1>1, <1>2, <1>3, <1>4, <1>5, <1>6, <1>7, <1>8 DEF Early

(* What holds of the dashboards themselves, whatever the ghosts say. *)
Settled == DashTyped /\ Launched /\ FileOwned /\ Serves

LEMMA EarlyKeeps ==
  ASSUME DashInv, NEW p \in Process, Early(p), UNCHANGED <<killed, command>>
  PROVE  Settled'
<1> USE DEF DashInv
<1>1. DashTyped'
  BY EarlyMoves DEF DashTyped
<1>2. Launched'
  BY EarlyMoves DEF Launched
<1>3. FileOwned'
  BY EarlyMoves DEF FileOwned
<1>4. Serves'
  BY EarlyMoves DEF Serves
<1> QED BY <1>1, <1>2, <1>3, <1>4 DEF Settled

LEMMA ServingKeeps ==
  ASSUME DashInv, NEW p \in Process, UNCHANGED <<killed, command>>,
         Listen(p) \/ WriteFile(p) \/ StopServer(p) \/ ReadOwnFile(p) \/ RemoveFile(p)
  PROVE  Settled'
<1> USE DEF DashInv
<1>0. /\ dash[p] \in Course /\ dash[p].index \in 1 .. Ports
  BY DEF DashTyped, Course
<1>1. CASE Listen(p)
  <2>1. CASE listener[dash[p].index] = Nobody
    <3>1. /\ listener' = [listener EXCEPT ![dash[p].index] = p] /\ dash' = [dash EXCEPT ![p].at = "write"]
          /\ file' = file /\ dash[p].at = "listen"
      BY <1>1, <2>1 DEF Listen, To
    <3>2. DashTyped'
      BY <1>0, <3>1 DEF DashTyped, Course, Stages
    <3>3. Launched' /\ FileOwned'
      BY <3>1 DEF DashTyped, Launched, FileOwned
    <3>4. Serves'
      <4> SUFFICES ASSUME NEW q \in Process, dash'[q].at \in {"write", "serving"}
                   PROVE  listener'[dash'[q].index] = q
        BY DEF Serves
      <4>1. CASE q = p
        BY <1>0, <3>1, <4>1 DEF DashTyped
      <4>2. CASE q # p
        <5>1. dash'[q] = dash[q] /\ listener[dash[q].index] = q /\ dash[q].index \in 1 .. Ports
          BY <3>1, <4>2 DEF DashTyped, Serves, Course
        <5>2. dash[q].index # dash[p].index
          BY <2>1, <5>1, StartupAssumption
        <5> QED BY <1>0, <3>1, <5>1, <5>2 DEF DashTyped
      <4> QED BY <4>1, <4>2
    <3> QED BY <3>2, <3>3, <3>4 DEF Settled
  <2>2. CASE listener[dash[p].index] # Nobody
    <3>1. /\ listener' = listener /\ dash' = [dash EXCEPT ![p].at = "exited"]
          /\ file' = file /\ dash[p].at = "listen"
      BY <1>1, <2>2 DEF Listen, To
    <3>2. DashTyped'
      BY <1>0, <3>1 DEF DashTyped, Course, Stages
    <3> QED BY <3>1, <3>2 DEF Settled, DashTyped, Launched, FileOwned, Serves
  <2> QED BY <2>1, <2>2
<1>2. CASE WriteFile(p)
  <2>1. /\ file' = [pid |-> p, port |-> dash[p].index] /\ dash' = [dash EXCEPT ![p].at = "serving"]
        /\ listener' = listener /\ dash[p].at = "write"
    BY <1>2 DEF WriteFile, To
  <2>2. DashTyped'
    BY <1>0, <2>1 DEF DashTyped, Course, Stages, Files
  <2>3. /\ dash'[p].at = "serving" /\ dash'[p].index = dash[p].index
        /\ \A q \in Process : q # p => dash'[q] = dash[q]
    BY <2>1 DEF DashTyped, Course
  <2>4. Launched' /\ Serves'
    BY <2>1, <2>3 DEF Launched, Serves
  <2>5. FileOwned'
    BY <2>1, <2>3 DEF FileOwned
  <2> QED BY <2>2, <2>4, <2>5 DEF Settled
<1>3. CASE StopServer(p)
  <2>1. /\ listener' = [listener EXCEPT ![dash[p].index] = Nobody] /\ dash' = [dash EXCEPT ![p].at = "stopped"]
        /\ file' = file /\ dash[p].at = "serving"
    BY <1>3 DEF StopServer, To
  <2>2. DashTyped'
    BY <1>0, <2>1 DEF DashTyped, Course, Stages
  <2>3. /\ dash'[p].at = "stopped" /\ dash'[p].index = dash[p].index
        /\ \A q \in Process : q # p => dash'[q] = dash[q]
    BY <2>1 DEF DashTyped, Course
  <2>4. Launched' /\ FileOwned'
    BY <2>1, <2>3 DEF Launched, FileOwned
  <2>5. Serves'
    <3> SUFFICES ASSUME NEW q \in Process, dash'[q].at \in {"write", "serving"}
                 PROVE  listener'[dash'[q].index] = q
      BY DEF Serves
    <3>1. q # p /\ dash'[q] = dash[q] /\ listener[dash[q].index] = q
      BY <2>3 DEF Serves
    <3>2. listener[dash[p].index] = p
      BY <2>1 DEF Serves
    <3>3. dash[q].index # dash[p].index /\ dash[q].index \in 1 .. Ports
      BY <3>1, <3>2 DEF DashTyped, Course
    <3> QED BY <1>0, <2>1, <3>1, <3>3 DEF DashTyped
  <2> QED BY <2>2, <2>4, <2>5 DEF Settled
<1>4. CASE ReadOwnFile(p)
  <2>1. /\ listener' = listener /\ file' = file /\ dash[p].at = "stopped"
        /\ dash' = [dash EXCEPT ![p].at = IF file # NoFile /\ file.pid # p THEN "exited" ELSE "remove"]
    BY <1>4 DEF ReadOwnFile, To
  <2>2. DashTyped'
    BY <1>0, <2>1 DEF DashTyped, Course, Stages
  <2>3. /\ dash'[p].at = IF file # NoFile /\ file.pid # p THEN "exited" ELSE "remove"
        /\ dash'[p].index = dash[p].index
        /\ \A q \in Process : q # p => dash'[q] = dash[q]
    BY <2>1 DEF DashTyped, Course
  <2>4. Launched' /\ FileOwned' /\ Serves'
    BY <2>1, <2>3 DEF Launched, FileOwned, Serves
  <2> QED BY <2>2, <2>4 DEF Settled
<1>5. CASE RemoveFile(p)
  <2>1. /\ listener' = listener /\ file' = NoFile /\ dash[p].at = "remove"
        /\ dash' = [dash EXCEPT ![p].at = "exited"]
    BY <1>5 DEF RemoveFile, To
  <2>2. DashTyped'
    BY <1>0, <2>1 DEF DashTyped, Course, Stages, Files
  <2>3. /\ dash'[p].at = "exited"
        /\ \A q \in Process : q # p => dash'[q] = dash[q]
    BY <2>1 DEF DashTyped, Course
  <2>4. Launched' /\ FileOwned' /\ Serves'
    BY <2>1, <2>3 DEF Launched, FileOwned, Serves
  <2> QED BY <2>2, <2>4 DEF Settled
<1> QED BY <1>1, <1>2, <1>3, <1>4, <1>5

LEMMA KillKeeps ==
  ASSUME DashInv, NEW p \in Process, KillProcess(p), UNCHANGED command
  PROVE  Settled'
<1> USE DEF DashInv
<1>1. /\ file' = file /\ killed' = killed + 1 /\ Alive(p)
      /\ dash' = [dash EXCEPT ![p].at = "killed"]
      /\ listener' = [i \in DOMAIN listener |-> IF listener[i] = p THEN Nobody ELSE listener[i]]
  BY DEF KillProcess, Leave, To
<1>2. DashTyped'
  BY <1>1 DEF DashTyped, Course, Stages
<1>3. /\ dash'[p].at = "killed" /\ dash'[p].index = dash[p].index
      /\ \A q \in Process : q # p => dash'[q] = dash[q]
  BY <1>1 DEF DashTyped, Course
<1>4. Launched'
  BY <1>1, <1>3 DEF Launched, Alive
<1>5. FileOwned'
  BY <1>1, <1>3 DEF FileOwned, DashTyped
<1>6. Serves'
  <2> SUFFICES ASSUME NEW q \in Process, dash'[q].at \in {"write", "serving"}
               PROVE  listener'[dash'[q].index] = q
    BY DEF Serves
  <2>1. q # p /\ dash'[q] = dash[q] /\ listener[dash[q].index] = q /\ dash[q].index \in 1 .. Ports
    BY <1>3 DEF Serves, DashTyped, Course
  <2> QED BY <1>1, <2>1 DEF DashTyped
<1> QED BY <1>2, <1>4, <1>5, <1>6 DEF Settled

(* The ghosts follow: what a search must find, it can. *)
LEMMA SearchKeeps ==
  ASSUME DashInv, Settled', Watch,
         \/ \E p \in Process : StartupStep(p) /\ UNCHANGED killed
         \/ \E p \in Process : KillProcess(p)
  PROVE  SearchTrue'
<1> USE DEF DashInv
<1>1. \A p \in Process : settled'[p] = CASE ~Searching(p)' -> {}
         [] Searching(p)' /\ ~Searching(p) -> Findable'
         [] Searching(p)' /\ Searching(p) -> settled[p] \cap Findable'
  BY DEF Watch
<1>2. \A p \in Process : Searching(p)' => settled'[p] \subseteq Findable'
  BY <1>1
<1>3. PICK m \in Process :
        /\ \A q \in Process : q # m => dash'[q] = dash[q]
        /\ dash'[m].at = "health" => dash[m].at = "search" /\ dash'[m].seen = file /\ file' = file
        /\ dash[m].at = "serving" => dash'[m].at # "serving"
    <2>1. ASSUME NEW m \in Process, StartupStep(m)
          PROVE  /\ \A q \in Process : q # m => dash'[q] = dash[q]
                 /\ dash'[m].at = "health" => dash[m].at = "search" /\ dash'[m].seen = file /\ file' = file
                 /\ dash[m].at = "serving" => dash'[m].at # "serving"
      <3>1. CASE Early(m)
        BY <3>1, EarlyMoves
      <3>2. CASE Listen(m) \/ WriteFile(m) \/ StopServer(m) \/ ReadOwnFile(m) \/ RemoveFile(m)
        BY <3>2 DEF Listen, WriteFile, StopServer, ReadOwnFile, RemoveFile, To, DashTyped, Course
      <3> QED BY <2>1, <3>1, <3>2 DEF StartupStep, Early
    <2>2. ASSUME NEW m \in Process, KillProcess(m)
          PROVE  /\ \A q \in Process : q # m => dash'[q] = dash[q]
                 /\ dash'[m].at = "health" => dash[m].at = "search" /\ dash'[m].seen = file /\ file' = file
                 /\ dash[m].at = "serving" => dash'[m].at # "serving"
      BY <2>2 DEF KillProcess, Leave, To, DashTyped, Course
    <2> QED BY <2>1, <2>2
<1>4. ASSUME NEW p \in Process, dash'[p].at = "health", NEW q \in settled'[p]
      PROVE  dash'[p].seen.port = dash'[q].index
  <2>1. Searching(p)'
    BY <1>4 DEF Searching
  <2>2. q \in Findable'
    BY <1>2, <2>1
  <2>3. q \in Process /\ dash'[q].at = "serving" /\ file' # NoFile /\ file'.pid = q
    BY <2>2 DEF Findable
  <2>4. file'.port = dash'[q].index
    BY <2>3 DEF Settled, FileOwned
  <2>5. CASE p = m
    BY <1>3, <1>4, <2>4, <2>5
  <2>6. CASE p # m
    <3>1. dash'[p] = dash[p] /\ Searching(p) /\ dash[p].at = "health"
      BY <1>3, <1>4, <2>6 DEF Searching
    <3>2. q \in settled[p] /\ q \in Findable
      BY <1>1, <2>1, <3>1 DEF SearchTrue
    <3>3. dash[q].index = dash'[q].index
      <4>1. CASE q # m
        BY <1>3, <2>3, <4>1
      <4>2. CASE q = m
        <5>1. dash[q].at = "serving"
          BY <3>2 DEF Findable
        <5> QED BY <1>3, <2>3, <4>2, <5>1
      <4> QED BY <4>1, <4>2
    <3> QED BY <3>1, <3>2, <3>3 DEF SearchTrue
  <2> QED BY <2>5, <2>6
<1> QED BY <1>2, <1>4 DEF SearchTrue

LEMMA DashKept == DashInv /\ [StartupNext]_startupVars => DashInv'
<1> SUFFICES ASSUME DashInv, [StartupNext]_startupVars PROVE DashInv'
  OBVIOUS
<1>1. CASE UNCHANGED startupVars
  BY <1>1 DEF startupVars, dashVars, DashInv, DashTyped, Launched, FileOwned, Serves, SearchTrue,
              Searching, Findable
<1>2. CASE StartupNext
  <2>1. Settled'
    BY <1>2, EarlyKeeps, ServingKeeps, KillKeeps DEF StartupNext, StartupStep, Early
  <2>2. SearchTrue'
    BY <1>2, <2>1, SearchKeeps DEF StartupNext
  <2> QED BY <2>1, <2>2 DEF Settled, DashInv
<1> QED BY <1>1, <1>2

(* When every command has ended by itself no dashboard.json is left behind, *)
(* for any number of commands and in whatever order they start, fail to     *)
(* listen, replace each other's file and stop (startServer, its stop).      *)
THEOREM FileIsCleaned == StartupSpec => []CleanAfterStop
<1>1. DashInv => CleanAfterStop
  BY DEF DashInv, Launched, FileOwned, DashTyped, Files, CleanAfterStop
<1> QED BY DashBegins, DashKept, <1>1, PTL DEF StartupSpec

(* A search that ends without a dashboard met none that served, and was     *)
(* named by the file, all the while (probeDashboard).                       *)
LEMMA SearchEnds ==
  ASSUME DashInv, StartupNext, NEW p \in Process, Searching(p), dash'[p].at = "port"
  PROVE  settled[p] \cap Findable = {}
<1> USE DEF DashInv
<1>1. FindRunning(p) \/ Health(p)
  <2>1. ASSUME NEW m \in Process, KillProcess(m) PROVE FALSE
    BY <2>1 DEF KillProcess, Leave, To, DashTyped, Course, Searching
  <2>2. PICK m \in Process : StartupStep(m)
    BY <2>1 DEF StartupNext
  <2>3. m = p
    <3>1. CASE Early(m)
      BY <3>1, EarlyMoves DEF Searching
    <3>2. CASE Listen(m) \/ WriteFile(m) \/ StopServer(m) \/ ReadOwnFile(m) \/ RemoveFile(m)
      BY <3>2 DEF Listen, WriteFile, StopServer, ReadOwnFile, RemoveFile, To, DashTyped, Course, Searching
    <3> QED BY <2>2, <3>1, <3>2 DEF StartupStep, Early
  <2> QED BY <2>2, <2>3 DEF StartupStep, BeginStart, OpenDatabase, OpeningFailed, WriteRows, FindFreePort,
            PortGiven, Listen, WriteFile, StopServer, ReadOwnFile, RemoveFile, Searching
<1>2. CASE FindRunning(p)
  <2>1. ~(file # NoFile /\ Alive(file.pid))
    BY <1>2 DEF FindRunning, DashTyped, Course
  <2> QED BY <2>1 DEF Findable, Alive
<1>3. CASE Health(p)
  <2>1. dash[p].at = "health" /\ listener[dash[p].seen.port] \notin Process
    BY <1>3 DEF Health, To, DashTyped, Course
  <2>2. \A q \in settled[p] \cap Findable : q \in Process /\ listener[dash[p].seen.port] = q
    BY <2>1 DEF SearchTrue, Findable, Serves
  <2> QED BY <2>1, <2>2
<1> QED BY <1>1, <1>2, <1>3

THEOREM RunningIsFound == StartupSpec => FindsRunning
<1>1. DashInv /\ [StartupNext]_startupVars =>
        [\A p \in Process : Searching(p) /\ dash[p].at' = "port" => settled[p] \cap Findable = {}]_startupVars
  BY SearchEnds
<1> QED BY DashBegins, DashKept, <1>1, PTL DEF StartupSpec, FindsRunning

-----------------------------------------------------------------------------
(* SnapshotRequests: whose turn it is *)

Working == {"stop", "write", "insert", "replace", "start", "archive", "sidecar", "row"}
InLane == Working \cup {"waits"}
Apart == {"none", "lookup", "check", "queue", "answered"}

(* The records have their fields and nothing else. *)
RequestsShaped ==
  /\ DOMAIN sent = Tabs /\ \A t \in Tabs : DOMAIN sent[t] = {"kind", "id", "at", "read", "row", "answer", "ok", "again"}
  /\ DOMAIN tabs = Tabs
  /\ \A t \in Tabs :
       /\ DOMAIN tabs[t] = {"list", "dialog", "busy"}
       /\ tabs[t].dialog.kind # "none" => tabs[t].dialog.kind \in {"restore", "delete"} /\ tabs[t].dialog.id \in Ids
       /\ ~tabs[t].busy => sent[t].at = "none"
  /\ listed \in Entries \cup {Absent}
  /\ DOMAIN rows = Ids
  /\ \A i \in Ids : rows[i].hasSecrets \in BOOLEAN
  /\ files \in [Ids -> [archive : BOOLEAN, sidecar : BOOLEAN]]

(* A request is somewhere its kind leads to. *)
Placed(t) ==
  /\ sent[t].at \in Apart \cup InLane
  /\ sent[t].at \in {"write", "insert"} => sent[t].kind = "create"
  /\ sent[t].at \in {"stop", "start"} => sent[t].kind \in {"create", "restore"}
  /\ sent[t].at = "replace" => sent[t].kind = "restore"
  /\ sent[t].at \in {"archive", "sidecar", "row"} => sent[t].kind = "delete"
  /\ sent[t].kind \in {"restore", "delete"} => sent[t].id \in Ids
  /\ sent[t].kind = "create" /\ sent[t].at \in Working => sent[t].id \in Ids /\ sent[t].read \in Entries

(* The lane holds whoever waits or works, once, and only its first works. *)
LaneOK ==
  /\ lane \in Seq(Tabs)
  /\ \A i, j \in DOMAIN lane : lane[i] = lane[j] => i = j
  /\ \A i \in DOMAIN lane : sent[lane[i]].at \in InLane
  /\ \A t \in Tabs : sent[t].at \in InLane => \E i \in DOMAIN lane : lane[i] = t
  /\ \A t \in Tabs : sent[t].at \in Working => lane # <<>> /\ lane[1] = t

(* What whoever works has found, and nobody else has changed since. *)
Undisturbed(t) ==
  /\ sent[t].kind = "restore" /\ sent[t].at \in {"stop", "replace"} =>
       /\ sent[t].row.type = sent[t].read.type /\ sent[t].row.major = sent[t].read.major
       /\ rows[sent[t].id] = sent[t].row /\ files[sent[t].id].archive
       /\ sent[t].row.hasSecrets => files[sent[t].id].sidecar
  /\ sent[t].kind = "create" /\ sent[t].at \in {"stop", "write", "insert"} =>
       rows[sent[t].id] = NoRow /\ (sent[t].at = "insert" => files[sent[t].id].archive)
  /\ sent[t].at \in {"archive", "sidecar", "row"} => rows[sent[t].id] # NoRow
  /\ sent[t].at \in {"sidecar", "row"} => ~files[sent[t].id].archive
  /\ sent[t].at = "row" => ~files[sent[t].id].sidecar

Half(i, places) == \E t \in Tabs : sent[t].at \in places /\ sent[t].id = i
Backed ==
  \A i \in Ids \ harmed :
    /\ rows[i] # NoRow => Half(i, {"sidecar", "row"}) \/ (files[i].archive /\ files[i].sidecar = rows[i].hasSecrets)
    /\ rows[i] = NoRow => Half(i, {"insert"}) \/ files[i] = NoFiles

SnapshotInv ==
  RequestsShaped /\ LaneOK /\ Backed /\ \A t \in Tabs : Placed(t) /\ Undisturbed(t)

LEMMA OneWorks ==
  ASSUME LaneOK, NEW t \in Tabs, NEW u \in Tabs, sent[t].at \in Working, sent[u].at \in Working
  PROVE  t = u
BY DEF LaneOK

LEMMA SnapshotsBegin == InitSnapshots => SnapshotInv
<1> SUFFICES ASSUME InitSnapshots PROVE SnapshotInv
  OBVIOUS
<1>1. /\ sent = [t \in Tabs |-> NoSent] /\ tabs = [t \in Tabs |-> NoTab] /\ lane = <<>>
      /\ rows = [i \in Ids |-> NoRow] /\ files = [i \in Ids |-> NoFiles]
  BY DEF InitSnapshots
<1>2. \A t \in Tabs : sent[t].at = "none" /\ sent[t].kind = "none"
  BY <1>1 DEF NoSent
<1>3. RequestsShaped
  <2>1. \A i \in Ids : rows[i].hasSecrets \in BOOLEAN
    BY <1>1 DEF NoRow
  <2>2. files \in [Ids -> [archive : BOOLEAN, sidecar : BOOLEAN]]
    BY <1>1 DEF NoFiles
  <2>3. listed \in Entries
    BY DEF InitSnapshots
  <2> QED BY <1>1, <2>1, <2>2, <2>3 DEF RequestsShaped, NoSent, NoTab
<1>4. LaneOK
  BY <1>1, <1>2 DEF LaneOK, InLane, Working
<1>5. Backed
  BY <1>1 DEF Backed
<1>6. \A t \in Tabs : Placed(t) /\ Undisturbed(t)
  BY <1>2 DEF Placed, Undisturbed, Apart, Working
<1> QED BY <1>3, <1>4, <1>5, <1>6 DEF SnapshotInv

-----------------------------------------------------------------------------
(* The lane *)

(* Whoever is answered had the turn or was not in the lane. *)
LEMMA AnswerLane ==
  ASSUME RequestsShaped, LaneOK, NEW t \in Tabs, NEW answer, Answers_(t, answer),
         sent[t].at \in InLane => Head(lane) = t
  PROVE  LaneOK'
<1>1. /\ sent'[t].at = "answered" /\ \A u \in Tabs : u # t => sent'[u] = sent[u]
      /\ lane' = IF lane # <<>> /\ Head(lane) = t THEN Tail(lane) ELSE lane
  BY DEF Answers_, RequestsShaped
<1>2. "answered" \notin InLane /\ "answered" \notin Working
  BY DEF InLane, Working
<1>3. CASE lane # <<>> /\ Head(lane) = t
  <2>1. /\ Len(lane) \in Nat \ {0} /\ DOMAIN lane = 1 .. Len(lane) /\ lane[1] = t
        /\ lane' \in Seq(Tabs) /\ DOMAIN lane' = 1 .. Len(lane) - 1
        /\ \A i \in DOMAIN lane' : lane'[i] = lane[i + 1] /\ i + 1 \in DOMAIN lane /\ lane[i + 1] \in Tabs
    BY <1>1, <1>3 DEF LaneOK
  <2>2. \A i, j \in DOMAIN lane' : lane'[i] = lane'[j] => i = j
    <3> TAKE i, j \in DOMAIN lane'
    <3> HAVE lane'[i] = lane'[j]
    <3>1. i + 1 = j + 1
      BY <2>1 DEF LaneOK
    <3> QED BY <2>1, <3>1
  <2>3. \A i \in DOMAIN lane' : sent'[lane'[i]].at \in InLane
    <3> TAKE i \in DOMAIN lane'
    <3>1. lane[i + 1] # lane[1]
      <4>1. i + 1 # 1 /\ 1 \in DOMAIN lane
        BY <2>1
      <4> QED BY <2>1, <4>1 DEF LaneOK
    <3> QED BY <1>1, <2>1, <3>1 DEF LaneOK
  <2>4. \A u \in Tabs : sent'[u].at \in InLane => \E i \in DOMAIN lane' : lane'[i] = u
    <3> SUFFICES ASSUME NEW u \in Tabs, sent'[u].at \in InLane PROVE \E i \in DOMAIN lane' : lane'[i] = u
      OBVIOUS
    <3>1. u # t /\ sent[u].at \in InLane
      BY <1>1, <1>2
    <3>2. PICK i \in DOMAIN lane : lane[i] = u
      BY <3>1 DEF LaneOK
    <3>3. i - 1 \in DOMAIN lane' /\ (i - 1) + 1 = i
      BY <2>1, <3>1, <3>2
    <3> QED BY <2>1, <3>2, <3>3
  <2>5. \A u \in Tabs : sent'[u].at \notin Working
    BY <1>1, <1>2, <2>1 DEF LaneOK
  <2> QED BY <2>1, <2>2, <2>3, <2>4, <2>5 DEF LaneOK
<1>4. CASE ~(lane # <<>> /\ Head(lane) = t)
  <2>1. lane' = lane
    BY <1>1, <1>4
  <2>2. sent[t].at \notin InLane
    <3>1. sent[t].at \in InLane => lane # <<>>
      BY DEF LaneOK
    <3> QED BY <1>4, <3>1
  <2>3. \A i \in DOMAIN lane : lane[i] # t /\ lane[i] \in Tabs
    BY <2>2 DEF LaneOK
  <2>4. \A i \in DOMAIN lane' : sent'[lane'[i]].at \in InLane
    BY <1>1, <2>1, <2>3 DEF LaneOK
  <2>5. \A u \in Tabs : /\ sent'[u].at \in InLane => sent[u].at \in InLane
                        /\ sent'[u].at \in Working => sent[u].at \in Working
    BY <1>1, <1>2
  <2> QED BY <2>1, <2>4, <2>5 DEF LaneOK
<1> QED BY <1>3, <1>4

(* Whoever goes on keeps its place. *)
LEMMA StepLane ==
  ASSUME LaneOK, NEW t \in Tabs, \A u \in Tabs : u # t => sent'[u] = sent[u], lane' = lane,
         sent'[t].at \in InLane <=> sent[t].at \in InLane,
         sent'[t].at \in Working => lane # <<>> /\ lane[1] = t
  PROVE  LaneOK'
<1>1. \A u \in Tabs : sent'[u].at \in InLane <=> sent[u].at \in InLane
  OBVIOUS
<1>2. \A u \in Tabs : sent'[u].at \in Working => lane # <<>> /\ lane[1] = u
  BY DEF LaneOK
<1>3. \A i \in DOMAIN lane : lane[i] \in Tabs
  BY DEF LaneOK
<1> QED BY <1>1, <1>2, <1>3 DEF LaneOK

LEMMA JoinedLane ==
  ASSUME LaneOK, NEW t \in Tabs, \A u \in Tabs : u # t => sent'[u] = sent[u], lane' = Append(lane, t),
         sent'[t].at = "waits", sent[t].at \notin InLane
  PROVE  LaneOK'
<1>1. /\ Len(lane) \in Nat /\ DOMAIN lane = 1 .. Len(lane) /\ lane' \in Seq(Tabs)
      /\ DOMAIN lane' = 1 .. Len(lane) + 1 /\ lane'[Len(lane) + 1] = t
      /\ \A i \in DOMAIN lane : lane'[i] = lane[i] /\ lane[i] \in Tabs
  BY DEF LaneOK
<1>2. \A i \in DOMAIN lane : lane[i] # t
  BY DEF LaneOK
<1>3. "waits" \in InLane /\ "waits" \notin Working
  BY DEF InLane, Working
<1>4. \A i, j \in DOMAIN lane' : lane'[i] = lane'[j] => i = j
  <2> TAKE i, j \in DOMAIN lane'
  <2>1. (i \in DOMAIN lane \/ i = Len(lane) + 1) /\ (j \in DOMAIN lane \/ j = Len(lane) + 1)
    BY <1>1
  <2> QED BY <1>1, <1>2, <2>1 DEF LaneOK
<1>5. \A i \in DOMAIN lane' : sent'[lane'[i]].at \in InLane
  <2> TAKE i \in DOMAIN lane'
  <2>1. i \in DOMAIN lane \/ i = Len(lane) + 1
    BY <1>1
  <2> QED BY <1>1, <1>2, <1>3, <2>1 DEF LaneOK
<1>6. \A u \in Tabs : sent'[u].at \in InLane => \E i \in DOMAIN lane' : lane'[i] = u
  <2> SUFFICES ASSUME NEW u \in Tabs, sent'[u].at \in InLane PROVE \E i \in DOMAIN lane' : lane'[i] = u
    OBVIOUS
  <2>1. CASE u = t
    <3>1. Len(lane) + 1 \in DOMAIN lane'
      BY <1>1
    <3> QED BY <1>1, <2>1, <3>1
  <2>2. CASE u # t
    <3>1. PICK i \in DOMAIN lane : lane[i] = u
      BY <2>2 DEF LaneOK
    <3>2. i \in DOMAIN lane'
      BY <1>1
    <3> QED BY <1>1, <3>1, <3>2
  <2> QED BY <2>1, <2>2
<1>7. \A u \in Tabs : sent'[u].at \in Working => lane' # <<>> /\ lane'[1] = u
  <2> SUFFICES ASSUME NEW u \in Tabs, sent'[u].at \in Working PROVE lane' # <<>> /\ lane'[1] = u
    OBVIOUS
  <2>1. u # t /\ lane # <<>> /\ lane[1] = u
    BY <1>3 DEF LaneOK
  <2>2. 1 \in DOMAIN lane
    BY <1>1, <2>1
  <2> QED BY <1>1, <2>1, <2>2
<1> QED BY <1>1, <1>4, <1>5, <1>6, <1>7 DEF LaneOK

-----------------------------------------------------------------------------
(* Steps that leave the index and the files alone *)

LEMMA BackedKept ==
  ASSUME RequestsShaped, Backed, UNCHANGED Storage, NEW t \in Tabs,
         \A u \in Tabs : u # t => sent'[u] = sent[u],
         sent[t].at \notin {"sidecar", "row", "insert"}
  PROVE  Backed'
<1>1. \A i \in Ids : /\ Half(i, {"sidecar", "row"}) => Half(i, {"sidecar", "row"})'
                     /\ Half(i, {"insert"}) => Half(i, {"insert"})'
  BY DEF Half
<1> QED BY <1>1 DEF Backed, Storage

(* A tab or a request that is not in the lane. *)
LEMMA QuietKeeps ==
  ASSUME SnapshotInv, NEW t \in Tabs, TabActs(t) \/ LookUp(t) \/ Precheck(t) \/ JoinLane(t)
  PROVE  SnapshotInv'
<1> USE DEF SnapshotInv
<1>0. UNCHANGED Storage /\ UNCHANGED Machine_
  BY DEF TabActs, FetchList, CloseDialog, Confirm, PressCreate, Sends, Settle, OpenDialog, LookUp, Precheck, JoinLane
<1>1. CASE \/ FetchList(t) \/ CloseDialog(t)
           \/ \E kind \in {"restore", "delete"}, id \in Ids : OpenDialog(t, kind, id)
  <2>1. sent' = sent /\ lane' = lane
    BY <1>1 DEF FetchList, CloseDialog, OpenDialog
  <2>2. RequestsShaped'
    <3>1. CASE FetchList(t)
      BY <1>0, <2>1, <3>1 DEF FetchList, RequestsShaped, Storage, Machine_
    <3>2. CASE CloseDialog(t)
      BY <1>0, <2>1, <3>2 DEF CloseDialog, RequestsShaped, Storage, Machine_, NoTab
    <3>3. ASSUME NEW kind \in {"restore", "delete"}, NEW id \in Ids, OpenDialog(t, kind, id)
          PROVE  RequestsShaped'
      BY <1>0, <2>1, <3>3 DEF OpenDialog, RequestsShaped, Storage, Machine_
    <3> QED BY <1>1, <3>1, <3>2, <3>3
  <2> QED BY <1>0, <2>1, <2>2 DEF LaneOK, Backed, Half, Placed, Undisturbed, Storage
<1>2. CASE Confirm(t) \/ PressCreate(t)
  <2>1. PICK kind, id :
          /\ Sends(t, kind, id)
          /\ \/ kind \in {"restore", "delete"} /\ id \in Ids
             \/ kind = "create"
    BY <1>2 DEF Confirm, PressCreate, RequestsShaped
  <2>2. /\ ~tabs[t].busy /\ sent[t].at = "none" /\ lane' = lane
        /\ sent' = [sent EXCEPT ![t] = [NoSent EXCEPT !.kind = kind, !.id = id,
                                          !.at = IF kind = "delete" THEN "queue" ELSE "lookup"]]
        /\ tabs' = [tabs EXCEPT ![t].busy = TRUE, ![t].dialog = NoTab.dialog]
    BY <2>1 DEF Sends, RequestsShaped
  <2>3. /\ sent'[t].kind = kind /\ sent'[t].id = id /\ sent'[t].at \in {"queue", "lookup"}
        /\ \A u \in Tabs : u # t => sent'[u] = sent[u]
    BY <2>2 DEF RequestsShaped, NoSent
  <2>4. RequestsShaped'
    BY <1>0, <2>2 DEF RequestsShaped, NoSent, NoTab, Storage, Machine_
  <2>5. LaneOK'
    BY <2>2, <2>3, StepLane DEF InLane, Working
  <2>6. Backed'
    BY <1>0, <2>2, <2>3, BackedKept
  <2>7. \A u \in Tabs : Placed(u)' /\ Undisturbed(u)'
    <3> TAKE u \in Tabs
    <3>1. CASE u = t
      BY <2>1, <2>3, <3>1 DEF Placed, Undisturbed, Apart, InLane, Working
    <3>2. CASE u # t
      BY <1>0, <2>3, <3>2 DEF Placed, Undisturbed, Storage
    <3> QED BY <3>1, <3>2
  <2> QED BY <2>4, <2>5, <2>6, <2>7
<1>3. CASE Settle(t)
  <2>1. /\ sent[t].at = "answered" /\ lane' = lane /\ sent' = [sent EXCEPT ![t] = NoSent]
        /\ tabs' = [tabs EXCEPT ![t].busy = FALSE, ![t].list = IF listed = Absent THEN @ ELSE Indexed]
    BY <1>3 DEF Settle
  <2>2. sent'[t].at = "none" /\ sent'[t].kind = "none" /\ \A u \in Tabs : u # t => sent'[u] = sent[u]
    BY <2>1 DEF RequestsShaped, NoSent
  <2>3. RequestsShaped'
    BY <1>0, <2>1 DEF RequestsShaped, NoSent, Storage, Machine_
  <2>4. LaneOK'
    BY <2>1, <2>2, StepLane DEF InLane, Working
  <2>5. Backed'
    BY <1>0, <2>1, <2>2, BackedKept
  <2>6. \A u \in Tabs : Placed(u)' /\ Undisturbed(u)'
    <3> TAKE u \in Tabs
    <3>1. CASE u = t
      BY <2>2, <3>1 DEF Placed, Undisturbed, Apart, Working
    <3>2. CASE u # t
      BY <1>0, <2>2, <3>2 DEF Placed, Undisturbed, Storage
    <3> QED BY <3>1, <3>2
  <2> QED BY <2>3, <2>4, <2>5, <2>6
<1>4. CASE LookUp(t) \/ Precheck(t) \/ JoinLane(t)
  <2>1. /\ sent[t].at \in {"lookup", "check", "queue"} /\ tabs' = tabs
        /\ \/ \E answer : Answers_(t, answer)
           \/ sent[t].at = "lookup" /\ sent' = [sent EXCEPT ![t].at = "check", ![t].read = listed] /\ lane' = lane
           \/ sent[t].at = "check" /\ sent' = [sent EXCEPT ![t].at = "queue"] /\ lane' = lane
           \/ sent' = [sent EXCEPT ![t].at = "waits"] /\ lane' = Append(lane, t)
    BY <1>4 DEF LookUp, Precheck, JoinLane
  <2>2. /\ \A u \in Tabs : u # t => sent'[u] = sent[u]
        /\ sent'[t].kind = sent[t].kind /\ sent'[t].id = sent[t].id
        /\ sent'[t].at \in {"answered", "check", "queue", "waits"}
    BY <2>1 DEF RequestsShaped, Answers_
  <2>3. RequestsShaped'
    <3>1. \A u \in Tabs : DOMAIN sent'[u] = {"kind", "id", "at", "read", "row", "answer", "ok", "again"}
      BY <2>1 DEF RequestsShaped, Answers_
    <3>2. DOMAIN sent' = Tabs
      BY <2>1 DEF RequestsShaped, Answers_
    <3>3. \A u \in Tabs : ~tabs[u].busy => sent'[u].at = "none"
      BY <2>1, <2>2 DEF RequestsShaped
    <3> QED BY <1>0, <2>1, <3>1, <3>2, <3>3 DEF RequestsShaped, Storage, Machine_
  <2>4. LaneOK'
    <3>1. sent[t].at \notin InLane
      BY <2>1 DEF InLane, Working
    <3>2. ASSUME NEW answer, Answers_(t, answer) PROVE LaneOK'
      BY <3>1, <3>2, AnswerLane
    <3>3. CASE /\ lane' = lane
               /\ \/ sent' = [sent EXCEPT ![t].at = "check", ![t].read = listed]
                  \/ sent' = [sent EXCEPT ![t].at = "queue"]
      <4>1. sent'[t].at \in {"check", "queue"}
        BY <3>3 DEF RequestsShaped
      <4>2. sent'[t].at \notin InLane /\ sent'[t].at \notin Working
        BY <4>1 DEF InLane, Working
      <4> QED BY <2>2, <3>1, <3>3, <4>2, StepLane
    <3>4. CASE sent' = [sent EXCEPT ![t].at = "waits"] /\ lane' = Append(lane, t)
      <4>1. sent'[t].at = "waits"
        BY <3>4 DEF RequestsShaped
      <4> QED BY <2>2, <3>1, <3>4, <4>1, JoinedLane
    <3> QED BY <2>1, <3>2, <3>3, <3>4
  <2>5. Backed'
    BY <1>0, <2>1, <2>2, BackedKept
  <2>6. \A u \in Tabs : Placed(u)' /\ Undisturbed(u)'
    <3> TAKE u \in Tabs
    <3>1. CASE u = t
      BY <2>2, <3>1 DEF Placed, Undisturbed, Apart, InLane, Working
    <3>2. CASE u # t
      BY <1>0, <2>2, <3>2 DEF Placed, Undisturbed, Storage
    <3> QED BY <3>1, <3>2
  <2> QED BY <2>3, <2>4, <2>5, <2>6
<1> QED BY <1>1, <1>2, <1>3, <1>4 DEF TabActs
-----------------------------------------------------------------------------
(* Steps of the operation *)

(* Only the first of the lane works. *)
LEMMA HeadActs ==
  ASSUME LaneOK, NEW t \in Tabs, sent[t].at \in Working \/ Turn(t)
  PROVE  /\ lane # <<>> /\ lane[1] = t /\ Head(lane) = t /\ sent[t].at \in InLane
         /\ \A u \in Tabs : u # t => sent[u].at \notin Working
BY DEF LaneOK, Turn, InLane

(* A step of the operation of t: the other requests stay, t goes on or is answered. *)
Moves(t) ==
  /\ \A u \in Tabs : u # t => sent'[u] = sent[u] /\ sent[u].at \notin Working
  /\ DOMAIN sent' = Tabs /\ DOMAIN sent'[t] = DOMAIN sent[t] /\ sent[t].at # "none" /\ tabs' = tabs

LEMMA MovesKept ==
  ASSUME SnapshotInv, NEW t \in Tabs, Moves(t), Placed(t)', Undisturbed(t)', Backed', LaneOK',
         DOMAIN rows' = Ids, \A i \in Ids : rows'[i].hasSecrets \in BOOLEAN,
         files' \in [Ids -> [archive : BOOLEAN, sidecar : BOOLEAN]], listed' = listed
  PROVE  SnapshotInv'
<1>1. RequestsShaped'
  <2>1. \A u \in Tabs : DOMAIN sent'[u] = {"kind", "id", "at", "read", "row", "answer", "ok", "again"}
    BY DEF Moves, SnapshotInv, RequestsShaped
  <2>2. \A u \in Tabs : ~tabs[u].busy => sent'[u].at = "none"
    BY DEF Moves, SnapshotInv, RequestsShaped
  <2> QED BY <2>1, <2>2 DEF Moves, SnapshotInv, RequestsShaped
<1>2. \A u \in Tabs : Placed(u)' /\ Undisturbed(u)'
  <2> TAKE u \in Tabs
  <2>1. CASE u # t
    <3>1. sent'[u] = sent[u] /\ sent[u].at \notin Working /\ Placed(u)
      BY <2>1 DEF Moves, SnapshotInv
    <3>2. Placed(u)'
      BY <3>1 DEF Placed
    <3>3. Undisturbed(u)'
      BY <3>1 DEF Undisturbed, Working
    <3> QED BY <3>2, <3>3
  <2> QED BY <2>1
<1> QED BY <1>1, <1>2 DEF SnapshotInv

(* It goes on to another place of its own. *)
LEMMA GoesOn ==
  ASSUME SnapshotInv, NEW t \in Tabs, sent[t].at \in Working \/ Turn(t), UNCHANGED <<lane, tabs>>,
         DOMAIN sent' = Tabs, DOMAIN sent'[t] = DOMAIN sent[t],
         \A u \in Tabs : u # t => sent'[u] = sent[u], sent'[t].at \in Working
  PROVE  Moves(t) /\ LaneOK'
<1>1. LaneOK
  BY DEF SnapshotInv
<1>2. /\ lane # <<>> /\ lane[1] = t /\ sent[t].at \in InLane
      /\ \A u \in Tabs : u # t => sent[u].at \notin Working
  BY <1>1, HeadActs
<1>3. sent'[t].at \in InLane
  BY DEF InLane
<1>4. LaneOK'
  BY <1>1, <1>2, <1>3, StepLane
<1>5. sent[t].at # "none"
  BY <1>2 DEF InLane, Working
<1> QED BY <1>2, <1>4, <1>5 DEF Moves

(* It is answered, and the turn is over. *)
LEMMA IsAnswered ==
  ASSUME SnapshotInv, NEW t \in Tabs, sent[t].at \in Working \/ Turn(t), UNCHANGED tabs,
         NEW answer, Answers_(t, answer)
  PROVE  Moves(t) /\ LaneOK' /\ Placed(t)' /\ Undisturbed(t)' /\ sent'[t].at = "answered"
<1>1. LaneOK /\ RequestsShaped /\ Placed(t)
  BY DEF SnapshotInv
<1>2. /\ Head(lane) = t /\ sent[t].at \in InLane
      /\ \A u \in Tabs : u # t => sent[u].at \notin Working
  BY <1>1, HeadActs
<1>3. LaneOK'
  BY <1>1, <1>2, AnswerLane
<1>4. /\ \A u \in Tabs : u # t => sent'[u] = sent[u]
      /\ sent'[t].at = "answered" /\ sent'[t].kind = sent[t].kind /\ sent'[t].id = sent[t].id
      /\ DOMAIN sent' = Tabs /\ DOMAIN sent'[t] = DOMAIN sent[t]
  BY <1>1 DEF Answers_, RequestsShaped
<1>5. sent[t].at # "none"
  BY <1>2 DEF InLane, Working
<1>6. Placed(t)'
  BY <1>1, <1>4 DEF Placed, Apart, Working
<1>7. Undisturbed(t)'
  BY <1>4 DEF Undisturbed
<1> QED BY <1>2, <1>3, <1>4, <1>5, <1>6, <1>7 DEF Moves

(* The index and the files stay, and the step ends no half-done work. *)
LEMMA StorageKept ==
  ASSUME SnapshotInv, NEW t \in Tabs, UNCHANGED Storage,
         \A u \in Tabs : u # t => sent'[u] = sent[u],
         sent[t].at \notin {"sidecar", "row", "insert"}
  PROVE  /\ Backed' /\ DOMAIN rows' = Ids /\ \A i \in Ids : rows'[i].hasSecrets \in BOOLEAN
         /\ files' \in [Ids -> [archive : BOOLEAN, sidecar : BOOLEAN]]
BY BackedKept DEF SnapshotInv, RequestsShaped, Storage, Machine_

LEMMA BeginsKeep ==
  ASSUME SnapshotInv, NEW t \in Tabs, BeginRestore(t) \/ BeginCreate(t) \/ BeginDelete(t)
  PROVE  SnapshotInv'
<1>1. /\ Turn(t) /\ sent[t].at = "waits" /\ UNCHANGED Storage /\ tabs' = tabs /\ listed' = listed
      /\ RequestsShaped /\ Placed(t) /\ "waits" \notin Working
  BY DEF BeginRestore, BeginCreate, BeginDelete, Turn, SnapshotInv, Working, Machine_
<1>2. ASSUME NEW answer, Answers_(t, answer) PROVE SnapshotInv'
  <2>1. Moves(t) /\ LaneOK' /\ Placed(t)' /\ Undisturbed(t)'
    BY <1>1, <1>2, IsAnswered
  <2>2. \A u \in Tabs : u # t => sent'[u] = sent[u]
    BY <2>1 DEF Moves
  <2> QED BY <1>1, <2>1, <2>2, StorageKept, MovesKept
<1>3. ASSUME lane' = lane, DOMAIN sent' = Tabs, DOMAIN sent'[t] = DOMAIN sent[t],
             \A u \in Tabs : u # t => sent'[u] = sent[u], sent'[t].at \in Working,
             Placed(t)', Undisturbed(t)'
      PROVE  SnapshotInv'
  <2>1. Moves(t) /\ LaneOK'
    BY <1>1, <1>3, GoesOn
  <2> QED BY <1>1, <1>3, <2>1, StorageKept, MovesKept
<1>4. CASE BeginRestore(t)
  <2>1. CASE \E answer : Answers_(t, answer)
    BY <1>2, <2>1
  <2>2. CASE ~\E answer : Answers_(t, answer)
    <3>1. /\ sent[t].kind = "restore" /\ lane' = lane /\ TargetOf(listed) = "none"
          /\ RestoreRefused(sent[t].id, listed) = "none"
          /\ sent' = [sent EXCEPT ![t].at = "stop", ![t].read = listed, ![t].row = rows[sent[t].id]]
      BY <1>4, <2>2 DEF BeginRestore
    <3>2. /\ sent'[t].kind = "restore" /\ sent'[t].id = sent[t].id /\ sent'[t].at = "stop"
          /\ sent'[t].read = listed /\ sent'[t].row = rows[sent[t].id]
          /\ DOMAIN sent' = Tabs /\ DOMAIN sent'[t] = DOMAIN sent[t]
          /\ \A u \in Tabs : u # t => sent'[u] = sent[u]
      BY <1>1, <3>1 DEF RequestsShaped
    <3>3. /\ rows[sent[t].id].type = listed.type /\ rows[sent[t].id].major = listed.major
          /\ files[sent[t].id].archive
          /\ rows[sent[t].id].hasSecrets => files[sent[t].id].sidecar
      BY <3>1 DEF RestoreRefused, Mismatch
    <3>4. Undisturbed(t)'
      BY <1>1, <3>2, <3>3 DEF Undisturbed, Storage
    <3>5. Placed(t)'
      BY <1>1, <3>1, <3>2 DEF Placed, Apart, InLane, Working
    <3>6. sent'[t].at \in Working
      BY <3>2 DEF Working
    <3> QED BY <1>3, <3>1, <3>2, <3>4, <3>5, <3>6
  <2> QED BY <2>1, <2>2
<1>5. CASE BeginCreate(t)
  <2>1. CASE \E answer : Answers_(t, answer)
    BY <1>2, <2>1
  <2>2. CASE ~\E answer : Answers_(t, answer)
    <3>1. /\ sent[t].kind = "create" /\ lane' = lane /\ TargetOf(listed) = "none"
      BY <1>5, <2>2 DEF BeginCreate
    <3>2. PICK id \in Ids \ Indexed :
            sent' = [sent EXCEPT ![t].id = id, ![t].read = listed, ![t].again = box.running,
                                 ![t].at = IF box.running THEN "stop" ELSE "write"]
      BY <1>5, <2>2 DEF BeginCreate
    <3>3. /\ sent'[t].kind = "create" /\ sent'[t].id = id /\ sent'[t].at \in {"stop", "write"}
          /\ sent'[t].read = listed
          /\ DOMAIN sent' = Tabs /\ DOMAIN sent'[t] = DOMAIN sent[t]
          /\ \A u \in Tabs : u # t => sent'[u] = sent[u]
      BY <1>1, <3>1, <3>2 DEF RequestsShaped
    <3>4. rows[id] = NoRow /\ listed # Absent
      BY <3>1, <3>2 DEF Indexed, TargetOf
    <3>5. Undisturbed(t)'
      BY <1>1, <3>3, <3>4 DEF Undisturbed, Storage
    <3>6. listed \in Entries
      BY <3>4 DEF SnapshotInv, RequestsShaped
    <3>7. Placed(t)'
      BY <3>2, <3>3, <3>6 DEF Placed, Apart, InLane, Working
    <3>8. sent'[t].at \in Working
      BY <3>3 DEF Working
    <3> QED BY <1>3, <3>1, <3>3, <3>5, <3>7, <3>8
  <2> QED BY <2>1, <2>2
<1>6. CASE BeginDelete(t)
  <2>1. CASE rows[sent[t].id] = NoRow
    BY <1>2, <1>6, <2>1 DEF BeginDelete
  <2>2. CASE rows[sent[t].id] # NoRow
    <3>1. /\ sent[t].kind = "delete" /\ lane' = lane /\ sent' = [sent EXCEPT ![t].at = "archive"]
      BY <1>6, <2>2 DEF BeginDelete, Steps_
    <3>2. /\ sent'[t].kind = "delete" /\ sent'[t].id = sent[t].id /\ sent'[t].at = "archive"
          /\ DOMAIN sent' = Tabs /\ DOMAIN sent'[t] = DOMAIN sent[t]
          /\ \A u \in Tabs : u # t => sent'[u] = sent[u]
      BY <1>1, <3>1 DEF RequestsShaped
    <3>3. Undisturbed(t)'
      BY <1>1, <2>2, <3>2 DEF Undisturbed, Storage
    <3>4. Placed(t)'
      BY <1>1, <3>1, <3>2 DEF Placed, Apart, InLane, Working
    <3>5. sent'[t].at \in Working
      BY <3>2 DEF Working
    <3> QED BY <1>3, <3>1, <3>2, <3>3, <3>4, <3>5
  <2> QED BY <2>1, <2>2
<1> QED BY <1>4, <1>5, <1>6

(* Nothing on disk or in the index changes: a stop, the data, the start, a failed deletion. *)
LEMMA RunsKeep ==
  ASSUME SnapshotInv, NEW t \in Tabs, StopForSnapshot(t) \/ StopRefused(t) \/ ReplaceData(t) \/ StartAgain(t)
  PROVE  SnapshotInv'
<1>1. /\ sent[t].at \in {"stop", "replace", "start"} /\ sent[t].at \in Working
      /\ UNCHANGED Storage /\ tabs' = tabs /\ listed' = listed
      /\ RequestsShaped /\ Placed(t) /\ Undisturbed(t)
  BY DEF StopForSnapshot, StopRefused, ReplaceData, StartAgain, Runs_, SnapshotInv, Working, Machine_
<1>2. ASSUME NEW answer, Answers_(t, answer) PROVE SnapshotInv'
  <2>1. Moves(t) /\ LaneOK' /\ Placed(t)' /\ Undisturbed(t)'
    BY <1>1, <1>2, IsAnswered
  <2>2. \A u \in Tabs : u # t => sent'[u] = sent[u]
    BY <2>1 DEF Moves
  <2> QED BY <1>1, <2>1, <2>2, StorageKept, MovesKept
<1>3. ASSUME lane' = lane, DOMAIN sent' = Tabs, DOMAIN sent'[t] = DOMAIN sent[t],
             \A u \in Tabs : u # t => sent'[u] = sent[u], sent'[t].at \in Working,
             Placed(t)', Undisturbed(t)'
      PROVE  SnapshotInv'
  <2>1. Moves(t) /\ LaneOK'
    BY <1>1, <1>3, GoesOn
  <2> QED BY <1>1, <1>3, <2>1, StorageKept, MovesKept
<1>4. CASE StopForSnapshot(t)
  <2>1. /\ sent[t].at = "stop" /\ lane' = lane
        /\ sent' = [sent EXCEPT ![t].at = IF sent[t].kind = "create" THEN "write" ELSE "replace"]
    BY <1>4 DEF StopForSnapshot, Runs_, Steps_
  <2>2. /\ sent'[t].kind = sent[t].kind /\ sent'[t].id = sent[t].id /\ sent'[t].read = sent[t].read
        /\ sent'[t].row = sent[t].row /\ sent'[t].at = IF sent[t].kind = "create" THEN "write" ELSE "replace"
        /\ DOMAIN sent' = Tabs /\ DOMAIN sent'[t] = DOMAIN sent[t]
        /\ \A u \in Tabs : u # t => sent'[u] = sent[u]
    BY <1>1, <2>1 DEF RequestsShaped
  <2>3. Placed(t)'
    BY <1>1, <2>1, <2>2 DEF Placed, Apart, InLane, Working
  <2>4. Undisturbed(t)'
    BY <1>1, <2>1, <2>2 DEF Undisturbed, Storage
  <2>5. sent'[t].at \in Working
    BY <2>2 DEF Working
  <2> QED BY <1>3, <2>1, <2>2, <2>3, <2>4, <2>5
<1>5. CASE StopRefused(t)
  BY <1>2, <1>5 DEF StopRefused
<1>6. CASE ReplaceData(t)
  <2>1. /\ sent[t].at = "replace" /\ lane' = lane
        /\ \/ sent' = [sent EXCEPT ![t].at = "start"]
           \/ sent' = [sent EXCEPT ![t].at = "start", ![t].ok = FALSE]
    BY <1>6 DEF ReplaceData, Runs_, Steps_
  <2>2. /\ sent'[t].kind = sent[t].kind /\ sent'[t].id = sent[t].id /\ sent'[t].read = sent[t].read
        /\ sent'[t].at = "start"
        /\ DOMAIN sent' = Tabs /\ DOMAIN sent'[t] = DOMAIN sent[t]
        /\ \A u \in Tabs : u # t => sent'[u] = sent[u]
    BY <1>1, <2>1 DEF RequestsShaped
  <2>3. Placed(t)'
    BY <1>1, <2>1, <2>2 DEF Placed, Apart, InLane, Working
  <2>4. Undisturbed(t)'
    BY <2>2 DEF Undisturbed
  <2>5. sent'[t].at \in Working
    BY <2>2 DEF Working
  <2> QED BY <1>3, <2>1, <2>2, <2>3, <2>4, <2>5
<1>7. CASE StartAgain(t)
  BY <1>2, <1>7 DEF StartAgain
<1> QED BY <1>4, <1>5, <1>6, <1>7

(* The archive and the sidecar are written, then the row; or both are discarded. *)
LEMMA CreationKeeps ==
  ASSUME SnapshotInv, NEW t \in Tabs, WriteArchive(t) \/ InsertRow(t) \/ DiscardArchive(t)
  PROVE  SnapshotInv'
<1> DEFINE id == sent[t].id
<1>1. /\ sent[t].at \in {"write", "insert"} /\ sent[t].at \in Working /\ sent[t].kind = "create"
      /\ lane' = lane /\ tabs' = tabs /\ listed' = listed /\ harmed' = harmed
      /\ RequestsShaped /\ Placed(t) /\ Undisturbed(t) /\ Backed
  BY DEF WriteArchive, InsertRow, DiscardArchive, Runs_, Steps_, SnapshotInv, Working, Machine_, Placed
<1>2. /\ id \in Ids /\ sent[t].read \in Entries
      /\ rows[id] = NoRow /\ (sent[t].at = "insert" => files[id].archive)
  BY <1>1 DEF Placed, Undisturbed
<1>3. ASSUME NEW at \in {"insert", "start"}, sent'[t].at = at, sent'[t].kind = "create", sent'[t].id = id,
             sent'[t].read = sent[t].read, DOMAIN sent' = Tabs, DOMAIN sent'[t] = DOMAIN sent[t],
             \A u \in Tabs : u # t => sent'[u] = sent[u],
             at = "insert" => rows'[id] = NoRow /\ files'[id].archive,
             \A i \in Ids \ {id} : rows'[i] = rows[i] /\ files'[i] = files[i],
             at = "start" => /\ rows'[id] # NoRow => files'[id].archive /\ files'[id].sidecar = rows'[id].hasSecrets
                             /\ rows'[id] = NoRow => files'[id] = NoFiles,
             DOMAIN rows' = Ids, rows'[id].hasSecrets \in BOOLEAN,
             files' \in [Ids -> [archive : BOOLEAN, sidecar : BOOLEAN]]
      PROVE  SnapshotInv'
  <2>1. sent'[t].at \in Working
    BY <1>3 DEF Working
  <2>2. Moves(t) /\ LaneOK'
    BY <1>1, <1>3, <2>1, GoesOn
  <2>3. Placed(t)'
    BY <1>2, <1>3 DEF Placed, Apart, InLane, Working
  <2>4. Undisturbed(t)'
    BY <1>3 DEF Undisturbed
  <2>5. \A i \in Ids : rows'[i].hasSecrets \in BOOLEAN
    BY <1>1, <1>3 DEF RequestsShaped
  <2>6. Backed'
    <3> SUFFICES ASSUME NEW i \in Ids, i \notin harmed
                 PROVE  /\ rows'[i] # NoRow => \/ Half(i, {"sidecar", "row"})'
                                               \/ files'[i].archive /\ files'[i].sidecar = rows'[i].hasSecrets
                        /\ rows'[i] = NoRow => Half(i, {"insert"})' \/ files'[i] = NoFiles
      BY <1>1 DEF Backed
    <3>1. CASE i = id /\ at = "insert"
      BY <1>3, <3>1 DEF Half
    <3>2. CASE i = id /\ at = "start"
      BY <1>3, <3>2
    <3>3. CASE i # id
      <4>1. \A u \in Tabs : sent[u].id = i => u # t
        BY <3>3
      <4>2. /\ Half(i, {"sidecar", "row"}) => Half(i, {"sidecar", "row"})'
            /\ Half(i, {"insert"}) => Half(i, {"insert"})'
        BY <1>3, <4>1 DEF Half
      <4> QED BY <1>1, <1>3, <3>3, <4>2 DEF Backed
    <3> QED BY <3>1, <3>2, <3>3
  <2> HIDE DEF id
  <2> QED BY <1>1, <1>3, <2>2, <2>3, <2>4, <2>5, <2>6, MovesKept
<1>4. CASE WriteArchive(t)
  <2>1. /\ rows' = rows /\ sent' = [sent EXCEPT ![t].at = "insert"]
        /\ files' = [files EXCEPT ![id] = [archive |-> TRUE, sidecar |-> Catalog_[sent[t].read.type].baked]]
    BY <1>4 DEF WriteArchive, Steps_
  <2>2. Catalog_[sent[t].read.type].baked \in BOOLEAN
    BY <1>2, EntriesAssumption
  <2>3. /\ sent'[t].at = "insert" /\ sent'[t].kind = "create" /\ sent'[t].id = id
        /\ sent'[t].read = sent[t].read /\ DOMAIN sent' = Tabs /\ DOMAIN sent'[t] = DOMAIN sent[t]
        /\ \A u \in Tabs : u # t => sent'[u] = sent[u]
    BY <1>1, <2>1 DEF RequestsShaped
  <2>4. /\ files' \in [Ids -> [archive : BOOLEAN, sidecar : BOOLEAN]]
        /\ files'[id].archive /\ \A i \in Ids \ {id} : files'[i] = files[i]
    BY <1>1, <1>2, <2>1, <2>2 DEF RequestsShaped
  <2>5. DOMAIN rows' = Ids /\ rows'[id].hasSecrets \in BOOLEAN
    BY <1>1, <1>2, <2>1 DEF RequestsShaped
  <2> HIDE DEF id
  <2> QED BY <1>2, <1>3, <2>1, <2>3, <2>4, <2>5
<1>5. CASE InsertRow(t)
  <2>1. /\ files' = files /\ sent' = [sent EXCEPT ![t].at = "start"] /\ sent[t].at = "insert"
        /\ rows' = [rows EXCEPT ![id] = [type |-> sent[t].read.type, major |-> sent[t].read.major,
                                          hasSecrets |-> files[id].sidecar, data |-> data]]
    BY <1>5 DEF InsertRow, Steps_, Runs_
  <2>2. sent[t].read.type # "none"
    BY <1>2, EntriesAssumption
  <2>3. /\ sent'[t].at = "start" /\ sent'[t].kind = "create" /\ sent'[t].id = id
        /\ sent'[t].read = sent[t].read /\ DOMAIN sent' = Tabs /\ DOMAIN sent'[t] = DOMAIN sent[t]
        /\ \A u \in Tabs : u # t => sent'[u] = sent[u]
    BY <1>1, <2>1 DEF RequestsShaped
  <2>4. /\ DOMAIN rows' = Ids /\ rows'[id].hasSecrets = files[id].sidecar /\ rows'[id].type # "none"
        /\ \A i \in Ids \ {id} : rows'[i] = rows[i]
    BY <1>1, <1>2, <2>1, <2>2 DEF RequestsShaped
  <2>5. rows'[id] # NoRow
    BY <2>4 DEF NoRow
  <2>6. /\ files' \in [Ids -> [archive : BOOLEAN, sidecar : BOOLEAN]]
        /\ files'[id].archive /\ files'[id].sidecar = rows'[id].hasSecrets /\ rows'[id].hasSecrets \in BOOLEAN
    BY <1>1, <1>2, <2>1, <2>4 DEF RequestsShaped
  <2> HIDE DEF id
  <2> QED BY <1>2, <1>3, <2>1, <2>3, <2>4, <2>5, <2>6
<1>6. CASE DiscardArchive(t)
  <2>1. /\ rows' = rows /\ sent' = [sent EXCEPT ![t].at = "start", ![t].ok = FALSE]
        /\ files' = [files EXCEPT ![id] = NoFiles]
    BY <1>6 DEF DiscardArchive
  <2>2. /\ sent'[t].at = "start" /\ sent'[t].kind = "create" /\ sent'[t].id = id
        /\ sent'[t].read = sent[t].read /\ DOMAIN sent' = Tabs /\ DOMAIN sent'[t] = DOMAIN sent[t]
        /\ \A u \in Tabs : u # t => sent'[u] = sent[u]
    BY <1>1, <2>1 DEF RequestsShaped
  <2>3. /\ files' \in [Ids -> [archive : BOOLEAN, sidecar : BOOLEAN]]
        /\ files'[id] = NoFiles /\ \A i \in Ids \ {id} : files'[i] = files[i]
    BY <1>1, <1>2, <2>1 DEF RequestsShaped, NoFiles
  <2>4. DOMAIN rows' = Ids /\ rows'[id].hasSecrets \in BOOLEAN
    BY <1>1, <1>2, <2>1 DEF RequestsShaped
  <2> HIDE DEF id
  <2> QED BY <1>2, <1>3, <2>1, <2>2, <2>3, <2>4
<1> QED BY <1>4, <1>5, <1>6

(* The archive, the sidecar, the row; a deletion cut short leaves its id to the next one. *)
LEMMA DeletionKeeps ==
  ASSUME SnapshotInv, NEW t \in Tabs,
         RemoveArchive(t) \/ RemoveSidecar(t) \/ DeleteRow(t) \/ DeleteFails(t)
  PROVE  SnapshotInv'
<1> DEFINE id == sent[t].id
<1>1. /\ sent[t].at \in {"archive", "sidecar", "row"} /\ sent[t].at \in Working /\ sent[t].kind = "delete"
      /\ tabs' = tabs /\ listed' = listed
      /\ RequestsShaped /\ Placed(t) /\ Undisturbed(t) /\ Backed
  BY DEF RemoveArchive, RemoveSidecar, DeleteRow, DeleteFails, Runs_, SnapshotInv, Working, Machine_, Placed
<1>2. id \in Ids /\ rows[id] # NoRow
  BY <1>1 DEF Placed, Undisturbed
<1>3. ASSUME NEW at \in {"sidecar", "row"}, sent' = [sent EXCEPT ![t].at = at], lane' = lane,
             rows' = rows, harmed' = harmed, NEW f, files' = [files EXCEPT ![id] = f],
             f \in [archive : BOOLEAN, sidecar : BOOLEAN], ~f.archive, at = "row" => ~f.sidecar
      PROVE  SnapshotInv'
  <2>1. /\ sent'[t].at = at /\ sent'[t].kind = "delete" /\ sent'[t].id = id
        /\ DOMAIN sent' = Tabs /\ DOMAIN sent'[t] = DOMAIN sent[t]
        /\ \A u \in Tabs : u # t => sent'[u] = sent[u]
    BY <1>1, <1>3 DEF RequestsShaped
  <2>2. sent'[t].at \in Working
    BY <2>1 DEF Working
  <2>3. Moves(t) /\ LaneOK'
    BY <1>1, <1>3, <2>1, <2>2, GoesOn
  <2>4. Placed(t)'
    BY <1>2, <2>1 DEF Placed, Apart, InLane, Working
  <2>5. /\ files' \in [Ids -> [archive : BOOLEAN, sidecar : BOOLEAN]]
        /\ files'[id] = f /\ \A i \in Ids \ {id} : files'[i] = files[i]
    BY <1>1, <1>2, <1>3 DEF RequestsShaped
  <2>6. Undisturbed(t)'
    BY <1>2, <1>3, <2>1, <2>5 DEF Undisturbed
  <2>7. Backed'
    <3> SUFFICES ASSUME NEW i \in Ids, i \notin harmed
                 PROVE  /\ rows[i] # NoRow => \/ Half(i, {"sidecar", "row"})'
                                              \/ files'[i].archive /\ files'[i].sidecar = rows[i].hasSecrets
                        /\ rows[i] = NoRow => Half(i, {"insert"})' \/ files'[i] = NoFiles
      BY <1>3 DEF Backed
    <3>1. CASE i = id
      BY <1>2, <2>1, <3>1 DEF Half
    <3>2. CASE i # id
      <4>1. /\ Half(i, {"sidecar", "row"}) => Half(i, {"sidecar", "row"})'
            /\ Half(i, {"insert"}) => Half(i, {"insert"})'
        BY <2>1, <3>2 DEF Half
      <4> QED BY <1>1, <2>5, <3>2, <4>1 DEF Backed
    <3> QED BY <3>1, <3>2
  <2>8. DOMAIN rows' = Ids /\ \A i \in Ids : rows'[i].hasSecrets \in BOOLEAN
    BY <1>1, <1>3 DEF RequestsShaped
  <2> HIDE DEF id
  <2> QED BY <1>1, <2>3, <2>4, <2>5, <2>6, <2>7, <2>8, MovesKept
<1>4. CASE RemoveArchive(t)
  <2>1. /\ sent' = [sent EXCEPT ![t].at = "sidecar"] /\ lane' = lane /\ rows' = rows /\ harmed' = harmed
        /\ files' = [files EXCEPT ![id] = [files[id] EXCEPT !.archive = FALSE]]
    BY <1>4 DEF RemoveArchive, Steps_
  <2>0. files[id] \in [archive : BOOLEAN, sidecar : BOOLEAN]
    BY <1>1, <1>2 DEF RequestsShaped
  <2>2. /\ [files[id] EXCEPT !.archive = FALSE] \in [archive : BOOLEAN, sidecar : BOOLEAN]
        /\ ~[files[id] EXCEPT !.archive = FALSE].archive
    <3> HIDE DEF id
    <3> QED BY <2>0
  <2> HIDE DEF id
  <2> QED BY <1>3, <2>1, <2>2
<1>5. CASE RemoveSidecar(t)
  <2>1. /\ sent' = [sent EXCEPT ![t].at = "row"] /\ lane' = lane /\ rows' = rows /\ harmed' = harmed
        /\ files' = [files EXCEPT ![id] = [files[id] EXCEPT !.sidecar = FALSE]]
    BY <1>5 DEF RemoveSidecar, Steps_
  <2>2. ~files[id].archive
    BY <1>1, <1>5 DEF Undisturbed, RemoveSidecar, Runs_
  <2>0. files[id] \in [archive : BOOLEAN, sidecar : BOOLEAN]
    BY <1>1, <1>2 DEF RequestsShaped
  <2>3. /\ [files[id] EXCEPT !.sidecar = FALSE] \in [archive : BOOLEAN, sidecar : BOOLEAN]
        /\ ~[files[id] EXCEPT !.sidecar = FALSE].archive /\ ~[files[id] EXCEPT !.sidecar = FALSE].sidecar
    <3> HIDE DEF id
    <3> QED BY <2>0, <2>2
  <2> HIDE DEF id
  <2> QED BY <1>3, <2>1, <2>3
<1>6. CASE DeleteRow(t)
  <2>1. /\ Answers_(t, "deleted") /\ files' = files /\ harmed' = harmed \ {id}
        /\ rows' = [rows EXCEPT ![id] = NoRow] /\ sent[t].at = "row"
    BY <1>6 DEF DeleteRow, Runs_
  <2>2. Moves(t) /\ LaneOK' /\ Placed(t)' /\ Undisturbed(t)'
    BY <1>1, <2>1, IsAnswered
  <2>3. files[id] = NoFiles
    <3>1. ~files[id].archive /\ ~files[id].sidecar
      BY <1>1, <2>1 DEF Undisturbed
    <3> QED BY <1>1, <1>2, <3>1 DEF RequestsShaped, NoFiles
  <2>4. /\ DOMAIN rows' = Ids /\ rows'[id] = NoRow /\ \A i \in Ids \ {id} : rows'[i] = rows[i]
        /\ \A i \in Ids : rows'[i].hasSecrets \in BOOLEAN
    BY <1>1, <1>2, <2>1 DEF RequestsShaped, NoRow
  <2>5. Backed'
    <3> SUFFICES ASSUME NEW i \in Ids, i \notin harmed'
                 PROVE  /\ rows'[i] # NoRow => \/ Half(i, {"sidecar", "row"})'
                                               \/ files[i].archive /\ files[i].sidecar = rows'[i].hasSecrets
                        /\ rows'[i] = NoRow => Half(i, {"insert"})' \/ files[i] = NoFiles
      BY <2>1 DEF Backed
    <3>1. CASE i = id
      BY <2>3, <2>4, <3>1
    <3>2. CASE i # id
      <4>1. /\ Half(i, {"sidecar", "row"}) => Half(i, {"sidecar", "row"})'
            /\ Half(i, {"insert"}) => Half(i, {"insert"})'
        BY <2>2, <3>2 DEF Half, Moves
      <4>2. i \notin harmed
        BY <2>1, <3>2
      <4> QED BY <1>1, <2>4, <3>2, <4>1, <4>2 DEF Backed
    <3> QED BY <3>1, <3>2
  <2>6. files' \in [Ids -> [archive : BOOLEAN, sidecar : BOOLEAN]]
    BY <1>1, <2>1 DEF RequestsShaped
  <2> HIDE DEF id
  <2> QED BY <1>1, <2>2, <2>4, <2>5, <2>6, MovesKept
<1>7. CASE DeleteFails(t)
  <2>1. Answers_(t, "IO") /\ files' = files /\ rows' = rows /\ harmed' = harmed \cup {id}
    BY <1>7 DEF DeleteFails
  <2>2. Moves(t) /\ LaneOK' /\ Placed(t)' /\ Undisturbed(t)'
    BY <1>1, <2>1, IsAnswered
  <2>3. Backed'
    <3> SUFFICES ASSUME NEW i \in Ids, i \notin harmed, i # id
                 PROVE  /\ rows[i] # NoRow => \/ Half(i, {"sidecar", "row"})'
                                              \/ files[i].archive /\ files[i].sidecar = rows[i].hasSecrets
                        /\ rows[i] = NoRow => Half(i, {"insert"})' \/ files[i] = NoFiles
      BY <2>1 DEF Backed
    <3>1. /\ Half(i, {"sidecar", "row"}) => Half(i, {"sidecar", "row"})'
          /\ Half(i, {"insert"}) => Half(i, {"insert"})'
      BY <2>2 DEF Half, Moves
    <3> QED BY <1>1, <3>1 DEF Backed
  <2>4. /\ files' \in [Ids -> [archive : BOOLEAN, sidecar : BOOLEAN]]
        /\ DOMAIN rows' = Ids /\ \A i \in Ids : rows'[i].hasSecrets \in BOOLEAN
    BY <1>1, <2>1 DEF RequestsShaped
  <2> HIDE DEF id
  <2> QED BY <1>1, <2>2, <2>3, <2>4, MovesKept
<1> QED BY <1>4, <1>5, <1>6, <1>7

-----------------------------------------------------------------------------
(* What comes from outside *)

LEMMA EditKeeps == SnapshotInv /\ EditEntry => SnapshotInv'
<1> SUFFICES ASSUME SnapshotInv, EditEntry PROVE SnapshotInv'
  OBVIOUS
<1>1. UNCHANGED <<Storage, tabs, sent, lane>> /\ listed' \in Entries \cup {Absent}
  BY DEF EditEntry
<1>2. RequestsShaped'
  BY <1>1 DEF SnapshotInv, RequestsShaped, Storage
<1>3. LaneOK' /\ Backed' /\ \A t \in Tabs : Placed(t)' /\ Undisturbed(t)'
  BY <1>1 DEF SnapshotInv, LaneOK, Backed, Half, Placed, Undisturbed, Storage
<1> QED BY <1>2, <1>3 DEF SnapshotInv

LEMMA DeathKeeps == SnapshotInv /\ ServerGone => SnapshotInv'
<1> SUFFICES ASSUME SnapshotInv, ServerGone PROVE SnapshotInv'
  OBVIOUS
<1>1. /\ UNCHANGED <<listed, rows, files, tabs>> /\ lane' = <<>>
      /\ harmed' = harmed \cup {sent[u].id : u \in {v \in Tabs : sent[v].at \in {"write", "insert", "archive", "sidecar", "row"}}}
      /\ sent' = [t \in Tabs |-> IF sent[t].at = "none" THEN sent[t]
                                 ELSE [sent[t] EXCEPT !.at = "answered", !.answer = "lost"]]
  BY DEF ServerGone, Machine_
<1>2. /\ DOMAIN sent' = Tabs
      /\ \A t \in Tabs : /\ sent'[t].at \in {"none", "answered"} /\ DOMAIN sent'[t] = DOMAIN sent[t]
                         /\ sent'[t].kind = sent[t].kind /\ sent'[t].id = sent[t].id
                         /\ sent[t].at = "none" => sent'[t].at = "none"
  BY <1>1 DEF SnapshotInv, RequestsShaped
<1>3. RequestsShaped'
  BY <1>1, <1>2 DEF SnapshotInv, RequestsShaped
<1>4. LaneOK'
  <2>0. lane' = <<>>
    BY <1>1
  <2>1. lane' \in Seq(Tabs) /\ Len(lane') = 0
    BY <2>0
  <2>3. \A i \in DOMAIN lane' : FALSE
    BY <2>1
  <2>2. \A t \in Tabs : sent'[t].at \notin InLane /\ sent'[t].at \notin Working
    BY <1>2 DEF InLane, Working
  <2> QED BY <2>1, <2>2, <2>3 DEF LaneOK
<1>5. Backed'
  <2> SUFFICES ASSUME NEW i \in Ids, i \notin harmed'
               PROVE  /\ rows[i] # NoRow => files[i].archive /\ files[i].sidecar = rows[i].hasSecrets
                      /\ rows[i] = NoRow => files[i] = NoFiles
    BY <1>1 DEF Backed
  <2>1. ~Half(i, {"sidecar", "row"}) /\ ~Half(i, {"insert"}) /\ i \notin harmed
    BY <1>1 DEF Half
  <2> QED BY <2>1 DEF Backed, SnapshotInv
<1>6. \A t \in Tabs : Placed(t)' /\ Undisturbed(t)'
  <2> TAKE t \in Tabs
  <2>1. Placed(t)'
    BY <1>2 DEF SnapshotInv, Placed, Apart, Working
  <2>2. Undisturbed(t)'
    BY <1>2 DEF Undisturbed
  <2> QED BY <2>1, <2>2
<1> QED BY <1>3, <1>4, <1>5, <1>6 DEF SnapshotInv

LEMMA SnapshotsKeep == SnapshotInv /\ [SnapshotsNext]_snapshotVars => SnapshotInv'
<1> SUFFICES ASSUME SnapshotInv, [SnapshotsNext]_snapshotVars PROVE SnapshotInv'
  OBVIOUS
<1>1. ASSUME NEW t \in Tabs, TabActs(t) \/ OpActs(t) PROVE SnapshotInv'
  BY <1>1, QuietKeeps, BeginsKeep, RunsKeep, CreationKeeps, DeletionKeeps DEF OpActs
<1>2. CASE EditEntry \/ ServerGone
  BY <1>2, EditKeeps, DeathKeeps
<1>3. CASE UNCHANGED snapshotVars
  <2>1. UNCHANGED <<listed, rows, files, harmed, tabs, sent, lane>>
    BY <1>3 DEF snapshotVars
  <2>2. RequestsShaped' /\ LaneOK'
    BY <2>1 DEF SnapshotInv, RequestsShaped, LaneOK
  <2>3. Backed' /\ \A t \in Tabs : Placed(t)' /\ Undisturbed(t)'
    BY <2>1 DEF SnapshotInv, Backed, Half, Placed, Undisturbed
  <2> QED BY <2>2, <2>3 DEF SnapshotInv
<1> QED BY <1>1, <1>2, <1>3 DEF SnapshotsNext

LEMMA InvHolds == SnapshotInv => SnapshotsHold
<1> SUFFICES ASSUME SnapshotInv PROVE SnapshotsHold
  OBVIOUS
<1>1. RestoresFit
  BY DEF SnapshotInv, RestoresFit, Undisturbed
<1>2. RowsBacked
  <2> SUFFICES ASSUME NEW i \in Ids \ harmed
               PROVE  LET by(kind) == \E t \in Tabs : sent[t].id = i /\ sent[t].kind = kind
                                                      /\ sent[t].at \notin {"none", "answered"}
                      IN  /\ rows[i] # NoRow => by("delete") \/ (files[i].archive /\ files[i].sidecar = rows[i].hasSecrets)
                          /\ rows[i] = NoRow => by("create") \/ files[i] = NoFiles
    BY DEF RowsBacked
  <2>1. \A t \in Tabs : /\ sent[t].at \in {"sidecar", "row"} => sent[t].kind = "delete"
                        /\ sent[t].at = "insert" => sent[t].kind = "create"
    BY DEF SnapshotInv, Placed
  <2> QED BY <2>1 DEF SnapshotInv, Backed, Half
<1> QED BY <1>1, <1>2 DEF SnapshotsHold

(* support/snapshots.ts and the lane: whatever the tabs confirm on lists that are out of date, and
   whenever the stack file is edited or the server dies, a restore fits the service and is not
   disturbed, and rows and files agree. *)
THEOREM SnapshotsAlwaysHold == SnapshotsSpec => []SnapshotsHold
<1>1. SnapshotsSpec => []SnapshotInv
  BY SnapshotsBegin, SnapshotsKeep, PTL DEF SnapshotsSpec
<1> QED BY <1>1, InvHolds, PTL
=============================================================================
