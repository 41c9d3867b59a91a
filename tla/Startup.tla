-------------------------------- MODULE Startup --------------------------------
(***************************************************************************)
(* Commands that start at the same time: `up`, which pins ports, and bare  *)
(* `locastack`, which registers the project it is given, reuses the        *)
(* dashboard that dashboard.json names or starts one.  Every command opens *)
(* the state database by the steps of StateDatabase first when it needs    *)
(* it.  A process may be killed between any two steps.                     *)
(*                                                                         *)
(* A process is one run of the program: its pid is its name (a pid is not  *)
(* given again within a run of the model) and so is its session token.     *)
(* Doctor and the setup offer come before and are in Setup.                *)
(***************************************************************************)
EXTENDS StateDatabase

CONSTANTS
  Ports,          \* how many ports are tried, DEFAULT_DASHBOARD_PORT first
  Nobody,         \* nobody listens on a port
  NoFile,         \* no dashboard.json
  Foreign,        \* another program listens on a port
  Kills           \* how many processes may be killed

ASSUME StartupAssumption ==
  /\ Ports \in Nat \ {0}
  /\ Kills \in Nat
  /\ Nobody \notin Process

VARIABLES
  command,   \* [Process -> "up", "dashboard", "dashboard --project" or "none"]
  dash,      \* [Process -> how far the command came, a port, the file it read]
  listener,  \* [port -> the process that serves there, Foreign or Nobody]
  file,      \* dashboard.json: NoFile or [pid, port]
  held,      \* ghost: the database has held rows
  settled,   \* ghost: [Process -> instances up throughout its search]
  killed     \* how many processes were killed

dashVars == <<dash, listener, file>>
startupVars == <<databaseVars, command, dashVars, held, settled, killed>>

NotLaunched == [at |-> "new", index |-> 1, seen |-> NoFile]

InitDashboard ==
  /\ dash = [p \in Process |-> NotLaunched]
  /\ listener \in [1 .. Ports -> {Nobody, Foreign}]
  /\ file = NoFile
  /\ held = FALSE
  /\ settled = [p \in Process |-> {}]
  /\ killed = 0

InitStartup ==
  /\ InitDatabase
  /\ ships \in [Process -> Nat \ {0}]
  /\ legacy \in {"absent", "present", "broken"}
  /\ command \in [Process -> {"up", "dashboard", "dashboard --project", "none"}]
  /\ InitDashboard

Alive(p) == dash[p].at \notin {"new", "exited", "killed"}
Searching(p) == dash[p].at \in {"search", "health"}

(* Instances a search must find: they serve, and the file names them.      *)
Findable == {p \in Process : dash[p].at = "serving" /\ file # NoFile /\ file.pid = p}

To(p, at) == dash' = [dash EXCEPT ![p].at = at]
Leave(p, at) == To(p, at) /\ conn' = [conn EXCEPT ![p] = Unopened]

-----------------------------------------------------------------------------
(* The command opens the database first when it needs it; an opening that  *)
(* fails or is refused is reported and ends the command.                   *)
BeginStart(p) ==
  /\ dash[p].at = "new" /\ command[p] # "none"
  /\ To(p, IF command[p] = "dashboard" THEN "search" ELSE "database")
  /\ UNCHANGED <<databaseVars, listener, file>>

OpenDatabase(p) ==
  dash[p].at = "database" /\ OpenStep(p) /\ UNCHANGED dashVars

OpeningFailed(p) ==
  /\ dash[p].at = "database" /\ conn[p].at \in {"failed", "refused"}
  /\ Leave(p, "exited")
  /\ UNCHANGED <<schema, marker, backup, projects, pins, legacy, ships, listener, file>>

(* What it writes: the project `locastack --project` registers; the pins   *)
(* of one stack that `up` allocates, whatever the state holds by then; and *)
(* the registry entry that unregistering removes.                          *)
Row(nextProjects, nextPins) == [projects |-> nextProjects, pins |-> nextPins]
Registered == {Row(projects \cup {s}, pins) : s \in Stack}
Unregistered == {Row(projects \ {s}, pins) : s \in projects}
Repinned(s, ports) == [t \in DOMAIN pins \cup {s} |-> IF t = s THEN ports ELSE pins[t]]
Pinned == {Row(projects, Repinned(s, ports)) : s \in Stack, ports \in [Service -> PinnedPort]}

WriteRows(p) ==
  /\ dash[p].at = "database"
  /\ \E next \in IF command[p] = "up" THEN Pinned \cup Unregistered ELSE Registered :
       Update(p, next)
  /\ Leave(p, IF command[p] = "up" THEN "exited" ELSE "search")
  /\ UNCHANGED <<schema, marker, backup, legacy, ships, listener, file>>

-----------------------------------------------------------------------------
(* probeDashboard: the file is read and its pid looked up at once; the     *)
(* answer to the health request comes from whoever serves on that port     *)
(* by then.  The request is answered within its second.                    *)
FindRunning(p) ==
  /\ dash[p].at = "search"
  /\ dash' = [dash EXCEPT ![p].seen = file,
       ![p].at = IF file # NoFile /\ Alive(file.pid) THEN "health" ELSE "port"]
  /\ UNCHANGED <<databaseVars, listener, file>>

(* Faulty: the health request goes to the default port.                    *)
HealthAtDefaultPort(p) ==
  /\ dash[p].at = "health"
  /\ To(p, IF listener[1] \in Process THEN "exited" ELSE "port")
  /\ UNCHANGED <<databaseVars, listener, file>>

Health(p) ==
  /\ dash[p].at = "health"
  /\ To(p, IF listener[dash[p].seen.port] \in Process THEN "exited" ELSE "port")
  /\ UNCHANGED <<databaseVars, listener, file>>

(* findFreePort tries the ports in order; --port names one and skips it.   *)
FindFreePort(p) ==
  /\ dash[p].at = "port"
  /\ dash' = IF listener[dash[p].index] = Nobody THEN [dash EXCEPT ![p].at = "listen"]
             ELSE IF dash[p].index < Ports THEN [dash EXCEPT ![p].index = @ + 1]
             ELSE [dash EXCEPT ![p].at = "exited"]
  /\ UNCHANGED <<databaseVars, listener, file>>

PortGiven(p) ==
  /\ dash[p].at = "port" /\ dash[p].index = 1
  /\ \E i \in 1 .. Ports : dash' = [dash EXCEPT ![p].index = i, ![p].at = "listen"]
  /\ UNCHANGED <<databaseVars, listener, file>>

(* startServer: listen, which fails when the port was taken meanwhile,     *)
(* then the file.                                                          *)
(* Faulty: the file is written before the server listens.                  *)
ListenAfterFile(p) ==
  /\ dash[p].at = "listen"
  /\ file' = [pid |-> p, port |-> dash[p].index]
  /\ IF listener[dash[p].index] = Nobody
     THEN listener' = [listener EXCEPT ![dash[p].index] = p] /\ To(p, "write")
     ELSE UNCHANGED listener /\ To(p, "exited")
  /\ UNCHANGED databaseVars

Listen(p) ==
  /\ dash[p].at = "listen"
  /\ IF listener[dash[p].index] = Nobody
     THEN listener' = [listener EXCEPT ![dash[p].index] = p] /\ To(p, "write")
     ELSE UNCHANGED listener /\ To(p, "exited")
  /\ UNCHANGED <<databaseVars, file>>

WriteFile(p) ==
  /\ dash[p].at = "write"
  /\ file' = [pid |-> p, port |-> dash[p].index]
  /\ To(p, "serving")
  /\ UNCHANGED <<databaseVars, listener>>

(* stop: the server closes, then the file is read, and removed when it is  *)
(* this process's or there is none.                                        *)
StopServer(p) ==
  /\ dash[p].at = "serving"
  /\ listener' = [listener EXCEPT ![dash[p].index] = Nobody]
  /\ To(p, "stopped")
  /\ UNCHANGED <<databaseVars, file>>

ReadOwnFile(p) ==
  /\ dash[p].at = "stopped"
  /\ To(p, IF file # NoFile /\ file.pid # p THEN "exited" ELSE "remove")
  /\ UNCHANGED <<databaseVars, listener, file>>

RemoveFile(p) ==
  /\ dash[p].at = "remove"
  /\ file' = NoFile
  /\ To(p, "exited")
  /\ UNCHANGED <<databaseVars, listener>>

KillProcess(p) ==
  /\ Alive(p) /\ killed < Kills
  /\ killed' = killed + 1
  /\ listener' = [i \in DOMAIN listener |-> IF listener[i] = p THEN Nobody ELSE listener[i]]
  /\ Leave(p, "killed")
  /\ UNCHANGED <<schema, marker, backup, projects, pins, legacy, ships, file>>

StartupStep(p) ==
  \/ BeginStart(p) \/ OpenDatabase(p) \/ OpeningFailed(p) \/ WriteRows(p)
  \/ FindRunning(p) \/ Health(p) \/ FindFreePort(p) \/ PortGiven(p)
  \/ Listen(p) \/ WriteFile(p) \/ StopServer(p) \/ ReadOwnFile(p) \/ RemoveFile(p)

(* The two ghosts follow every step.                                       *)
Watch ==
  /\ held' = (held \/ ~IsStateEmpty')
  /\ settled' = [p \in Process |->
       CASE ~Searching(p)' -> {}
         [] Searching(p)' /\ ~Searching(p) -> Findable'
         [] Searching(p)' /\ Searching(p) -> settled[p] \cap Findable']

StartupNext ==
  /\ \/ \E p \in Process : StartupStep(p) /\ UNCHANGED killed
     \/ \E p \in Process : KillProcess(p)
  /\ Watch
  /\ UNCHANGED command

StartupSpec == InitStartup /\ [][StartupNext]_startupVars

-----------------------------------------------------------------------------
StartupTypeOK ==
  /\ schema \in Nat /\ marker \in Nat
  /\ legacy \in {"present", "broken", "absent", "migrated"}
  /\ projects \subseteq Stack
  /\ DOMAIN pins \subseteq Stack
  /\ \A s \in DOMAIN pins : \A v \in DOMAIN pins[s] : pins[s][v] \in PinnedPort
  /\ \A p \in Process : conn[p].attempt \in 1 .. LockAttempts

(* A write is refused as PORT_CONFLICT exactly when what it asks for pins  *)
(* a port twice, although only the pins of changed stacks are rewritten:   *)
(* two services may exchange their ports.  And no file, the               *)
(* hand-edited legacy one included, ever leaves a port pinned twice.       *)
PinsWrittenWhole ==
  /\ PinnedOnce(pins)
  /\ \A next \in Pinned : Conflict(next.pins) <=> ~PinnedOnce(next.pins)

(* However openings overlap and wherever one is killed: losing the race of *)
(* two migrations fails no command; state.json is imported only into a     *)
(* database without rows, so it replaces nothing; and it is renamed only   *)
(* once its rows, if it has any, or others, have been committed, so it is  *)
(* never lost.                                                             *)
OpeningSafe ==
  [][\A p \in Process :
       /\ conn[p].at # "failed" /\ conn[p].at' = "failed" => legacy = "broken"
       /\ conn[p].at = "import" /\ conn[p].at' = "rename" /\ Rows' # Rows => projects = {} /\ DOMAIN pins = {}
       /\ legacy = "present" /\ legacy' = "migrated" =>
            held \/ (LegacyProjects = {} /\ LegacyPins = <<>>)]_startupVars

(* `locastack` starts a dashboard only when it found none: one that served *)
(* and was named by the file during the whole search is reused.            *)
FindsRunning ==
  [][\A p \in Process :
       Searching(p) /\ dash[p].at' = "port" => settled[p] \cap Findable = {}]_startupVars

(* When every command has ended by itself, no dashboard.json is left to    *)
(* name a dashboard that is gone, in whatever order several of them        *)
(* started, failed to listen, replaced each other's file and stopped.      *)
CleanAfterStop ==
  (killed = 0 /\ \A p \in Process : command[p] = "none" \/ dash[p].at = "exited") => file = NoFile
=============================================================================
