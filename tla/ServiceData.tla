---------------------------- MODULE ServiceData ----------------------------
(***************************************************************************)
(* One service whose password is baked into its data volume when the       *)
(* volume is first started (`bakedIntoVolume` in the catalog, such as      *)
(* postgres), and every operation that touches the service's entry, its    *)
(* stored secret, the rendered compose project, the container, the volume  *)
(* and its snapshots.  The server runs one of them at a time in the lane   *)
(* of the project; a command (`locastack up`, `down`) in a terminal is     *)
(* another process and waits for nobody.                                   *)
(*                                                                         *)
(* An action is one call of the store, of compose or of the archiver.  It  *)
(* may fail, and the process may die, between any two.                     *)
(***************************************************************************)
EXTENDS Naturals, FiniteSets

CONSTANTS
    Values,    \* secret values
    MaxSnaps   \* bound: snapshots of different contents

NoValue == "none"
Modes == {"volume", "ephemeral"}
Actors == {"server", "command"}

ASSUME ValuesAssumption == NoValue \notin Values

VARIABLES
    registered, \* the project is in the registry
    entry,      \* persist of the service in locastack.yaml, or "absent"
    stored,     \* the secret in the secrets file
    env,        \* the compose project: what its file says of the service, and its .env
    volume,     \* the data volume: the secret it was initialised with
    container,  \* the container: what it stores its data in, or "absent"
    running,    \* whether it runs
    snaps,      \* archives with the secret of their sidecar
    op          \* what each actor is doing

disk == <<registered, entry, stored, env, volume, snaps>>
vars == <<disk, container, running, op>>

SomeValue == Values \cup {NoValue}
Snapshots == [data : SomeValue, saved : SomeValue]
NoSnap == [data |-> NoValue, saved |-> NoValue]
Idle == [kind |-> "none", pc |-> "idle", mode |-> "absent", value |-> NoValue,
         asked |-> FALSE, starts |-> FALSE, snap |-> NoSnap, ok |-> TRUE, alone |-> TRUE]

Rendered == env.mode # "unrendered"

(* Random values are new: none of those that anything still holds. *)
InUse == {stored, env.secret, volume} \cup {s.data : s \in snaps} \cup {s.saved : s \in snaps}
           \cup UNION {{op[a].value, op[a].snap.data, op[a].snap.saved} : a \in Actors}
Fresh == Values \ InUse

Init ==
    /\ registered = TRUE
    /\ entry = "absent"
    /\ stored = NoValue
    /\ env = [mode |-> "unrendered", secret |-> NoValue]
    /\ volume = NoValue
    /\ container = "absent"
    /\ running = FALSE
    /\ snaps = {}
    /\ op = [a \in Actors |-> Idle]

-----------------------------------------------------------------------------
(* How operations begin, go on and end *)

(* An operation that meets another one is no longer alone. *)
Begins(a, kind, to, o) ==
    /\ op[a] = Idle
    /\ op' = [b \in Actors |->
                IF b = a THEN [o EXCEPT !.kind = kind, !.pc = to,
                                        !.alone = \A c \in Actors : op[c] = Idle]
                ELSE IF op[b] = Idle THEN Idle ELSE [op[b] EXCEPT !.alone = FALSE]]

At(a, pc) == op[a].pc = pc
Goto(a, to) == op' = [op EXCEPT ![a].pc = to]
Uses(a, to) == op' = [op EXCEPT ![a].pc = to, ![a].value = NoValue]
Ends(a) == op' = [op EXCEPT ![a] = Idle]
Loaded == registered /\ entry # "absent"

(* The step fails, or the process dies: the operation ends where it stands. *)
Abort(a) == op[a] # Idle /\ Ends(a) /\ UNCHANGED <<disk, container, running>>

(* A restore goes on to start the service when one of its steps failed. *)
RestoreFails ==
    /\ op["server"].kind = "restore"
    /\ op["server"].pc \in {"restore", "putback", "provision", "render", "dotenv"}
    /\ op' = [op EXCEPT !["server"].pc = "start", !["server"].value = NoValue,
                        !["server"].ok = FALSE]
    /\ UNCHANGED <<disk, container, running>>

-----------------------------------------------------------------------------
(* provisionAndRender, compose up, compose rm *)

(* ensureSecrets, for the stack the operation loaded. *)
Provision(a) ==
    /\ At(a, "provision")
    /\ \/ /\ op[a].mode = "absent" \/ stored # NoValue
          /\ op' = [op EXCEPT ![a].pc = "render",
                              ![a].value = IF op[a].mode = "absent" THEN NoValue ELSE stored]
          /\ UNCHANGED stored
       \/ /\ op[a].mode # "absent" /\ stored = NoValue
          /\ \E v \in Fresh : /\ stored' = v
                              /\ op' = [op EXCEPT ![a].pc = "render", ![a].value = v]
    /\ UNCHANGED <<registered, entry, env, volume, snaps, container, running>>

(* writeComposeProject: the compose file, then the .env that it refers to. *)
WriteCompose(a) ==
    /\ At(a, "render")
    /\ env' = [env EXCEPT !.mode = op[a].mode]
    /\ Goto(a, "dotenv")
    /\ UNCHANGED <<registered, entry, stored, volume, snaps, container, running>>

WriteEnv(a) ==
    /\ At(a, "dotenv")
    /\ env' = [env EXCEPT !.secret = op[a].value]
    /\ IF op[a].kind = "remove" THEN Ends(a) ELSE Uses(a, "start")
    /\ UNCHANGED <<registered, entry, stored, volume, snaps, container, running>>

(* compose up with what is rendered by now: a missing volume is created, and a
   container that is no longer in the file is an orphan. *)
Start(a) ==
    /\ At(a, "start")
    /\ IF env.mode \in Modes
       THEN /\ container' = env.mode
            /\ running' = TRUE
            /\ volume' = IF env.mode = "volume" /\ volume = NoValue THEN env.secret ELSE volume
       ELSE container' = "absent" /\ running' = FALSE /\ UNCHANGED volume
    /\ Ends(a)
    /\ UNCHANGED <<registered, entry, stored, env, snaps>>

(* lifecycle.remove: first the container, then its volumes when asked to.
   Nothing is removed when the project was never rendered. *)
AfterRemoval(a) == IF op[a].kind = "remove" THEN "forget" ELSE "rotate"
RemoveContainer(a) ==
    /\ At(a, "rm")
    /\ IF Rendered
       THEN container' = "absent" /\ running' = FALSE
            /\ Goto(a, IF op[a].asked THEN "rmvolume" ELSE AfterRemoval(a))
       ELSE UNCHANGED <<container, running>> /\ Goto(a, AfterRemoval(a))
    /\ UNCHANGED disk

(* A volume that a container mounts cannot be removed. *)
RemoveVolume(a) ==
    /\ At(a, "rmvolume")
    /\ container # "volume"
    /\ volume' = NoValue
    /\ Goto(a, AfterRemoval(a))
    /\ UNCHANGED <<registered, entry, stored, env, snaps, container, running>>

-----------------------------------------------------------------------------
(* Adding and updating *)

AddService(mode, chosen) ==
    /\ registered /\ entry = "absent"
    /\ entry' = mode
    /\ Begins("server", "add", IF chosen = NoValue THEN "provision" ELSE "choose",
              [Idle EXCEPT !.mode = mode, !.value = chosen])
    /\ UNCHANGED <<registered, stored, env, volume, snaps, container, running>>

(* Faulty: the chosen value replaces the one the volume was initialised with. *)
ChooseSecretAlways ==
    /\ At("server", "choose")
    /\ stored' = op["server"].value
    /\ Uses("server", "provision")
    /\ UNCHANGED <<registered, entry, env, volume, snaps, container, running>>

(* storeChosenSecrets: a baked secret that is stored already is kept. *)
ChooseSecret ==
    /\ At("server", "choose")
    /\ stored' = IF op["server"].mode = "volume" /\ stored # NoValue THEN stored
                 ELSE op["server"].value
    /\ Uses("server", "provision")
    /\ UNCHANGED <<registered, entry, env, volume, snaps, container, running>>

(* updateService; `persist` is what may matter here. *)
UpdateService(mode) ==
    /\ Loaded
    /\ entry' = mode
    /\ Begins("server", "update", "provision", [Idle EXCEPT !.mode = mode])
    /\ UNCHANGED <<registered, stored, env, volume, snaps, container, running>>

(* startService, upProject and the command `up`, which registers the project. *)
Up(a) ==
    /\ a = "command" \/ registered
    /\ registered' = TRUE
    /\ Begins(a, "up", "provision", [Idle EXCEPT !.mode = entry])
    /\ UNCHANGED <<entry, stored, env, volume, snaps, container, running>>

(* down; with volumes, those the compose project knows. *)
Down(a, volumes) ==
    /\ a = "command" \/ registered
    /\ Rendered
    /\ Begins(a, "down", "down", [Idle EXCEPT !.asked = volumes])
    /\ UNCHANGED <<disk, container, running>>

TakeDown(a) ==
    /\ At(a, "down")
    /\ container' = "absent"
    /\ running' = FALSE
    /\ volume' = IF op[a].asked /\ env.mode = "volume" THEN NoValue ELSE volume
    /\ Ends(a)
    /\ UNCHANGED <<registered, entry, stored, env, snaps>>

StopService ==
    /\ Loaded /\ Rendered
    /\ op["server"] = Idle
    /\ running' = FALSE
    /\ UNCHANGED <<disk, container, op>>

-----------------------------------------------------------------------------
(* Removing and rotating *)

(* removeService; what is rendered afterwards knows the service no more. *)
RemoveService(volumes) ==
    /\ Loaded
    /\ Begins("server", "remove", "rm", [Idle EXCEPT !.asked = volumes])
    /\ UNCHANGED <<disk, container, running>>

(* Faulty: the secret of a deleted volume stays. *)
ForgetEntry ==
    /\ At("server", "forget")
    /\ entry' = "absent"
    /\ Goto("server", "provision")
    /\ UNCHANGED <<registered, stored, env, volume, snaps, container, running>>

(* forget: the entry goes, and with the volumes the secret and the snapshots. *)
Forget ==
    /\ At("server", "forget")
    /\ entry' = "absent"
    /\ Goto("server", IF op["server"].asked THEN "dropsecret" ELSE "provision")
    /\ UNCHANGED <<registered, stored, env, volume, snaps, container, running>>

DropSecret ==
    /\ At("server", "dropsecret")
    /\ stored' = NoValue
    /\ Goto("server", "dropsnaps")
    /\ UNCHANGED <<registered, entry, env, volume, snaps, container, running>>

(* dropSnapshots: one that cannot be deleted is only logged. *)
DropSnapshots ==
    /\ At("server", "dropsnaps")
    /\ snaps' \in SUBSET snaps
    /\ Goto("server", "provision")
    /\ UNCHANGED <<registered, entry, stored, env, volume, container, running>>

(* rotateSecret: a secret that is baked into the volume of the service needs
   it wiped, and wiping needs force. *)
RotateSecret(wipe, force) ==
    /\ Loaded
    /\ entry = "volume" => wipe /\ force
    /\ wipe => force
    /\ Begins("server", "rotate", IF wipe /\ entry = "volume" THEN "rm" ELSE "rotate",
              [Idle EXCEPT !.mode = entry, !.asked = wipe])
    /\ UNCHANGED <<disk, container, running>>

StoreRotated ==
    /\ At("server", "rotate")
    /\ stored' \in Fresh
    /\ Goto("server", "provision")
    /\ UNCHANGED <<registered, entry, env, volume, snaps, container, running>>

-----------------------------------------------------------------------------
(* Snapshots *)

(* loadSnapshotTarget *)
SnapshotTarget == registered /\ entry = "volume" /\ Rendered

(* createSnapshot: a running service is stopped and started again. *)
CreateSnapshot ==
    /\ SnapshotTarget
    /\ Begins("server", "snapshot", IF running THEN "stop" ELSE "archive",
              [Idle EXCEPT !.mode = "volume", !.starts = running])
    /\ UNCHANGED <<disk, container, running>>

(* lifecycle.stop, of a snapshot or a restore *)
StopFirst ==
    /\ At("server", "stop")
    /\ running' = FALSE
    /\ Goto("server", IF op["server"].kind = "snapshot" THEN "archive" ELSE "restore")
    /\ UNCHANGED <<disk, container>>

(* A volume that does not exist cannot be archived; what failed is discarded. *)
Archive ==
    /\ At("server", "archive")
    /\ volume # NoValue
    /\ op' = [op EXCEPT !["server"].pc = "record", !["server"].snap.data = volume]
    /\ UNCHANGED <<disk, container, running>>

AfterSnapshot == IF op["server"].starts THEN Goto("server", "start") ELSE Ends("server")

(* The sidecar holds the secret that is stored by then; the row is inserted
   last, and a failure discards the archive. *)
Record ==
    /\ At("server", "record")
    /\ Cardinality(snaps) < MaxSnaps
    /\ snaps' = snaps \cup {[data |-> op["server"].snap.data, saved |-> stored]}
    /\ AfterSnapshot
    /\ UNCHANGED <<registered, entry, stored, env, volume, container, running>>

SnapshotFails ==
    /\ op["server"].kind = "snapshot"
    /\ op["server"].pc \in {"archive", "record"}
    /\ AfterSnapshot
    /\ UNCHANGED <<disk, container, running>>

DeleteSnapshot ==
    /\ Loaded
    /\ op["server"] = Idle
    /\ \E s \in snaps : snaps' = snaps \ {s}
    /\ UNCHANGED <<registered, entry, stored, env, volume, container, running, op>>

(* restoreSnapshot: the saved secret is put back when it differs from the one
   stored at the start. *)
RestoreSnapshot(s) ==
    /\ SnapshotTarget
    /\ Begins("server", "restore", "stop",
              [Idle EXCEPT !.mode = "volume", !.snap = s,
                           !.value = IF s.saved # stored THEN s.saved ELSE NoValue])
    /\ UNCHANGED <<disk, container, running>>

(* The old data stay until the archive is extracted. *)
RestoreVolume ==
    /\ At("server", "restore")
    /\ volume' = op["server"].snap.data
    /\ Goto("server", IF op["server"].value = NoValue THEN "start" ELSE "putback")
    /\ UNCHANGED <<registered, entry, stored, env, snaps, container, running>>

(* Faulty: the rendered project gets the saved secret, the store does not. *)
RenderSavedOnly ==
    /\ At("server", "putback")
    /\ Goto("server", "render")
    /\ UNCHANGED <<disk, container, running>>

PutBackSecrets ==
    /\ At("server", "putback")
    /\ stored' = op["server"].value
    /\ Uses("server", "provision")
    /\ UNCHANGED <<registered, entry, env, volume, snaps, container, running>>

-----------------------------------------------------------------------------
(* The project: imported, deleted, registered again, edited by hand *)

(* importProject: into a folder without a file, under a name that is free. *)
ImportProject(chosen, start) ==
    /\ ~registered
    /\ registered' = TRUE
    /\ entry' = "absent"
    /\ Begins("server", "import", IF chosen = NoValue THEN "write" ELSE "import",
              [Idle EXCEPT !.mode = "volume", !.value = chosen, !.starts = start])
    /\ UNCHANGED <<stored, env, volume, snaps, container, running>>

StoreImported ==
    /\ At("server", "import")
    /\ stored' = op["server"].value
    /\ Uses("server", "write")
    /\ UNCHANGED <<registered, entry, env, volume, snaps, container, running>>

WriteImported ==
    /\ At("server", "write")
    /\ entry' = "volume"
    /\ IF op["server"].starts THEN Goto("server", "provision") ELSE Ends("server")
    /\ UNCHANGED <<registered, stored, env, volume, snaps, container, running>>

(* A failed import leaves no registration. *)
ImportFails ==
    /\ op["server"].pc \in {"import", "write"}
    /\ registered' = FALSE
    /\ Ends("server")
    /\ UNCHANGED <<entry, stored, env, volume, snaps, container, running>>

(* unregisterProject runs outside the lane and touches no data. *)
Unregister ==
    /\ registered
    /\ registered' = FALSE
    /\ UNCHANGED <<entry, stored, env, volume, snaps, container, running, op>>

(* The file is the user's: it may be edited, and its folder registered.  An
   operation reads it once, so it is edited between operations. *)
EditFile ==
    /\ \A a \in Actors : op[a] = Idle
    /\ entry' \in Modes \cup {"absent"}
    /\ registered' \in {registered, TRUE}
    /\ UNCHANGED <<stored, env, volume, snaps, container, running, op>>

-----------------------------------------------------------------------------
Adding == \E m \in Modes, v \in SomeValue : AddService(m, v)
Updating == \E m \in Modes : UpdateService(m)
Removing == \E asked \in BOOLEAN : RemoveService(asked)
Rotating == \E wipe, force \in BOOLEAN : RotateSecret(wipe, force)
Restoring == \E s \in snaps : RestoreSnapshot(s)
Importing == \E v \in SomeValue, start \in BOOLEAN : ImportProject(v, start)
Downing(a) == \E asked \in BOOLEAN : Down(a, asked)

(* The steps of the server's operations. *)
ServerStep ==
    \/ Adding \/ ChooseSecret \/ Updating \/ StopService
    \/ Removing \/ Forget \/ DropSecret \/ DropSnapshots
    \/ Rotating \/ StoreRotated
    \/ CreateSnapshot \/ StopFirst \/ Archive \/ Record \/ SnapshotFails \/ DeleteSnapshot
    \/ Restoring \/ RestoreVolume \/ PutBackSecrets \/ RestoreFails
    \/ Importing \/ StoreImported \/ WriteImported \/ ImportFails

(* The steps a command has in common with the server. *)
ActorStep(a) ==
    \/ Up(a) \/ Downing(a) \/ TakeDown(a)
    \/ Provision(a) \/ WriteCompose(a) \/ WriteEnv(a) \/ Start(a)
    \/ RemoveContainer(a) \/ RemoveVolume(a) \/ Abort(a)

Next == ServerStep \/ (\E a \in Actors : ActorStep(a)) \/ Unregister \/ EditFile

Spec == Init /\ [][Next]_vars

-----------------------------------------------------------------------------
(* Properties *)

Kinds == {"none", "add", "update", "up", "down", "remove", "rotate", "snapshot", "restore",
          "import"}
Steps == {"idle", "choose", "provision", "render", "dotenv", "start", "down", "rm", "rmvolume",
          "forget", "dropsecret", "dropsnaps", "rotate", "stop", "archive", "record", "restore",
          "putback", "import", "write"}
Ops == [kind : Kinds, pc : Steps, mode : Modes \cup {"absent"}, value : SomeValue,
        asked : BOOLEAN, starts : BOOLEAN, snap : Snapshots, ok : BOOLEAN, alone : BOOLEAN]

TypeOK ==
    /\ registered \in BOOLEAN
    /\ entry \in Modes \cup {"absent"}
    /\ stored \in SomeValue
    /\ env \in [mode : Modes \cup {"absent", "unrendered"}, secret : SomeValue]
    /\ volume \in SomeValue
    /\ container \in Modes \cup {"absent"}
    /\ running \in BOOLEAN
    /\ snaps \subseteq Snapshots
    /\ op \in [Actors -> Ops]

(* The password that is stored opens the data that is there. *)
Fits == volume = NoValue \/ stored = volume

(* Data and password are parted only by an operation that another process came
   between, by a restore (whose next step mends it), by an import, by operations
   on a service that its file calls ephemeral, and by a snapshot that starts the
   service again from a project rendered with another secret.  Adding, updating,
   rotating, removing and starting a service never do, whichever step fails. *)
PasswordKept ==
    [][Fits /\ ~Fits' =>
         \E a \in Actors : /\ op'[a] # op[a]
                           /\ \/ ~op[a].alone
                              \/ op[a].kind \in {"restore", "import"}
                              \/ op[a].kind = "snapshot" /\ env.secret # stored
                              \/ op[a].mode = "ephemeral"]_vars

Good(s) == s.data # NoValue /\ s.saved = s.data

(* A snapshot of data that the stored password opens keeps that password with
   the data. *)
SnapshotsPaired ==
    [][op["server"].alone /\ Fits => \A s \in snaps' \ snaps : Good(s)]_vars

(* A restore that nobody disturbs and that succeeds leaves the data of the
   snapshot with the password that opens them, whatever was rotated, removed
   or added again since. *)
RestoreAgrees ==
    [][op["server"].kind = "restore" /\ op["server"].alone /\ op["server"].ok
         /\ Good(op["server"].snap) /\ Start("server") =>
           volume' = op["server"].snap.data /\ Fits']_vars

(* A removal with volumes that nobody disturbs and that succeeds leaves
   neither data nor a password: a service of that name starts anew. *)
RemovalComplete ==
    [][op["server"].kind = "remove" /\ op["server"].alone /\ op["server"].asked
         /\ WriteEnv("server") =>
           volume' = NoValue /\ stored' = NoValue /\ container' = "absent"]_vars

(* The password of a service opens its data whenever nothing is going on. *)
PasswordFits == (\A a \in Actors : op[a] = Idle) /\ entry = "volume" => Fits

(* Snapshots hold data with the password that opens them, and give both back
   (create-snapshot.op.ts, restore-snapshot.op.ts). *)
SnapshotsTrue == SnapshotsPaired /\ RestoreAgrees
=============================================================================
