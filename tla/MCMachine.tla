------------------------------ MODULE MCMachine ------------------------------
(***************************************************************************)
(* What happens around the operations: Docker is set up and started        *)
(* (Setup), a command opens the database and a dashboard starts (Startup), *)
(* the command line of Docker and the helper containers run for an         *)
(* operation (DockerCommands), and two tabs ask for snapshots and restores *)
(* (SnapshotRequests).  They share nothing, so a behaviour is of one of    *)
(* them.                                                                   *)
(*                                                                         *)
(* Startup: two commands that use the database, one of which may go on to  *)
(* start a dashboard, or three that only start dashboards.  Binaries ship  *)
(* two or three migrations, so an older one may meet a database that a     *)
(* newer one made, a newer one upgrade it, and two race to do so.          *)
(***************************************************************************)
EXTENDS Setup, Startup, DockerCommands, SnapshotRequests

VARIABLE scenario

-----------------------------------------------------------------------------
(* Machines on which Docker is set up *)

Mac == [os |-> "darwin", root |-> FALSE, systemd |-> FALSE, brews |-> {"native"},
        path |-> <<"native">>, kegs |-> {}, apps |-> {}, cli |-> {}, formula |-> {},
        plugin |-> "missing", bundled |-> "ok", up |-> {}, booting |-> {}, stale |-> {},
        context |-> "none", host |-> "none", oldApi |-> FALSE, session |-> FALSE]
Linux == [Mac EXCEPT !.os = "linux", !.brews = {}, !.path = <<>>, !.systemd = TRUE]

Brews == {[Mac EXCEPT !.brews = b, !.path = p] :
            b \in SUBSET Builds, p \in {<<>>, <<"native">>, <<"intel">>, <<"intel", "native">>}}
BrewMacs == {m \in Brews : Elements(m.path) \subseteq m.brews}

(* Homebrew's Colima, docker and docker-compose, in one of the Homebrews, whole or in part. *)
WithFormulae(m) ==
    {[m EXCEPT !.kegs = k, !.cli = c, !.formula = f, !.plugin = pl, !.up = u] :
        k \in {{}} \cup {{b} : b \in m.brews}, c \in {{}} \cup {{b} : b \in m.brews},
        f \in {{}} \cup {{b} : b \in m.brews}, pl \in {"missing", "old", "ok"},
        u \in {{}, {"colima"}}}
Sound(m) ==
    /\ m.plugin # "missing" => m.formula # {}
    /\ m.plugin = "old" /\ ColimaFound(m, "none") => BrewOf(m, "none") \in m.formula
    /\ "colima" \in m.up => m.kegs = {"native"}
    /\ ColimaFound(m, "none") => BrewOf(m, "none") \in m.kegs
Formulas == {m \in UNION {WithFormulae(n) : n \in BrewMacs} : Sound(m)}

Apps == {[Mac EXCEPT !.apps = a, !.kegs = k, !.cli = c, !.plugin = pl, !.bundled = b,
                     !.context = x, !.host = h, !.stale = s] :
           a \in {{"docker-desktop"}, {"docker-desktop", "orbstack"}}, k \in {{}, {"native"}},
           c \in {{}, {"app"}}, pl \in {"missing", "ok"}, b \in {"old", "ok"},
           x \in {"none", "colima", "orbstack"}, h \in {"none", "colima", "foreign"},
           s \in {{}, {"colima"}}}

Linuxes == {[Linux EXCEPT !.root = r, !.systemd = d, !.session = g, !.apps = a, !.cli = c,
                          !.plugin = pl, !.up = u, !.host = h] :
              r \in BOOLEAN, d \in BOOLEAN, g \in BOOLEAN,
              a \in SUBSET {"docker-desktop", "docker-engine"}, c \in {{}, {"app"}},
              pl \in {"missing", "ok"}, u \in {{}, {"docker-engine"}},
              h \in {"none", "docker-engine", "foreign"}}

MCShared ==
    {[Mac EXCEPT !.kegs = {"native"}, !.cli = {"native"}, !.formula = {"native"}, !.plugin = "ok"]}
Mixed == [Mac EXCEPT !.brews = {"native", "intel"}, !.path = <<"intel">>, !.kegs = {"intel"},
                     !.cli = {"intel"}, !.apps = {"docker-desktop"}, !.context = "docker-desktop"]
Serving == {[Mac EXCEPT !.apps = {"docker-desktop"}, !.up = {"docker-desktop"}, !.cli = c,
                        !.plugin = pl, !.oldApi = o] :
              c \in {{}, {"app"}}, pl \in {"missing", "old", "ok"}, o \in BOOLEAN}
Windows == [Linux EXCEPT !.os = "win32", !.systemd = FALSE, !.apps = {"docker-desktop"}]
MCMachines == {Windows, Mixed} \cup MCShared \cup Formulas \cup Apps \cup Serving \cup {m \in Linuxes : m.up \subseteq m.apps}
MCRequests == [runtime : {"any", "docker-desktop"}, login : {FALSE}]
                \cup {[runtime |-> "any", login |-> TRUE]}

-----------------------------------------------------------------------------
(* Commands that open the database *)

MCLegacyPins ==
  <<[stack |-> "a", service |-> "db", port |-> 1], [stack |-> "b", service |-> "db", port |-> 1],
    [stack |-> "b", service |-> "web", port |-> 2]>>

Casts ==
  {<<"up", "up", "none">>, <<"up", "dashboard --project", "none">>,
   <<"dashboard", "dashboard", "dashboard">>}

-----------------------------------------------------------------------------
(* Services with snapshots: two engines, one with a password in its volume, and a type
   without volumes. *)
MCCatalog == [sql |-> [volumes |-> 1, baked |-> TRUE], doc |-> [volumes |-> 1, baked |-> FALSE],
              mem |-> [volumes |-> 0, baked |-> FALSE]]
Kind(type, major, persist) == [type |-> type, major |-> major, persist |-> persist]
MCEntries == {Kind("sql", 1, "volume"), Kind("sql", 2, "volume"), Kind("doc", 1, "ephemeral"),
              Kind("mem", 1, "volume")}

-----------------------------------------------------------------------------
MCInit ==
  /\ scenario \in {"setup", "startup", "commands", "snapshots"}
  /\ Init
  /\ scenario # "setup" => machine = Windows
  /\ command \in Casts
  /\ ships \in [Process -> {2, 3}]
  /\ legacy \in {"absent", "present", "broken"}
  /\ command[3] = "none" => ships[3] = 2 /\ 3 \in {ships[1], ships[2]}
  /\ legacy = "broken" => ships[1] = ships[2]
  /\ command[3] = "dashboard" => ships = [p \in Process |-> 3] /\ legacy = "absent"
  /\ scenario # "startup" => command[3] = "dashboard"
  /\ InitDatabase /\ InitDashboard
  /\ scenario # "startup" => listener = [port \in 1 .. Ports |-> Nobody]
  (* Without a guest on its network the project is left to itself. *)
  /\ InitCommands /\ project.box
  /\ world.faults = IF project.guest THEN MaxFaults ELSE 0
  /\ scenario # "commands" => world.cli /\ world.image /\ project.guest
  /\ InitSnapshots
  /\ listed = Kind("sql", 1, "volume")

MCNext ==
  /\ \/ scenario = "setup" /\ Next /\ UNCHANGED <<startupVars, commandVars, snapshotVars>>
     \/ scenario = "startup" /\ StartupNext /\ UNCHANGED <<vars, commandVars, snapshotVars>>
     \/ scenario = "commands" /\ CommandsNext /\ UNCHANGED <<vars, startupVars, snapshotVars>>
          (* The archiver and the compose runner share nothing: both calls are of one of them. *)
          /\ (call.k = 0 \/ ArchiverCall' = ArchiverCall)
     \/ scenario = "snapshots" /\ SnapshotsNext /\ UNCHANGED <<vars, startupVars, commandVars>>
  /\ UNCHANGED scenario

allVars == <<vars, startupVars, commandVars, snapshotVars, scenario>>
MCSpec == MCInit /\ [][MCNext]_allVars

(* MCSetupHost.cfg: on Linux, with Colima installed and DOCKER_HOST naming its socket, which
   does not answer. *)
HostMachines ==
    {[Linux EXCEPT !.root = r, !.systemd = TRUE, !.kegs = {"other"}, !.apps = a, !.cli = c, !.host = "colima"] :
        r \in BOOLEAN, a \in SUBSET {"docker-engine", "docker-desktop"}, c \in {{}, {"app"}}}
HostRequests == {AnyRuntime}
HostSpec == (MCInit /\ scenario = "setup") /\ [][MCNext]_allVars
=============================================================================
