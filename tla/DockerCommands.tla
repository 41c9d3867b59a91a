--------------------------- MODULE DockerCommands ---------------------------
(***************************************************************************)
(* What the program asks of Docker through its command line: the compose   *)
(* runner (compose-runner.ts) and the volume archiver (volume-archiver.ts),*)
(* each a stream of progress events over one `docker` child at a time      *)
(* (command-runner.ts).  The process may die while the child and the       *)
(* helper container it started go on; Docker may stop; another terminal    *)
(* may start the project.                                                  *)
(*                                                                         *)
(* A volume is a set of files, an archive such a set and whether it holds  *)
(* a staging folder as well.  A line of output is its kind.                *)
(***************************************************************************)
EXTENDS Naturals, Sequences, FiniteSets

CONSTANTS
  RunnerLines,   \* lines the compose runner keeps to name a failure (50)
  HelperLines,   \* lines the archiver keeps (20)
  MaxStreams,    \* bound: calls
  MaxPrinted,    \* bound: lines a command prints before its last words
  MaxFaults      \* bound: deaths, outages, kills and acts of others, in all

ASSUME StreamsAssumption == MaxStreams \in Nat

VARIABLES
  call,      \* the call whose events are read
  child,     \* its docker child
  told,      \* the events of the call, its last one being how it ended
  helpers,   \* the helper container of each call
  vol,       \* the volume: its files, the staging folder of restores, the last helper begun
  archives,  \* finished archives by the call that wrote them; 0 was there before
  parts,     \* temporary archives, by call
  project,   \* a compose project of one service: container, data volume, network
  world      \* the daemon, the CLI on PATH, the helper image and the faults left

commandVars == <<call, child, told, helpers, vol, archives, parts, project, world>>

NoArchive == [there |-> FALSE, files |-> {}, nested |-> FALSE, whole |-> FALSE]
NoStage == [there |-> FALSE, files |-> {}]
NoChild == [cmd |-> "none", at |-> "none", ok |-> FALSE, printed |-> 0,
            pipe |-> [s \in {"out", "err"} |-> <<>>], kept |-> <<>>]
NoHelper == [at |-> "none", op |-> "none", from |-> 0, old |-> {}, stuck |-> {}, src |-> NoArchive, ok |-> FALSE,
             alone |-> TRUE]
NoRequest == [op |-> "none", valid |-> TRUE, services |-> TRUE, volumes |-> FALSE, networks |-> FALSE,
              from |-> 0]
NoCall == [k |-> 0, req |-> NoRequest, cmd |-> "none",
           aborted |-> FALSE, calm |-> TRUE]

Requests_ ==
  {[NoRequest EXCEPT !.op = "archive", !.valid = v] : v \in BOOLEAN}
    \cup {[NoRequest EXCEPT !.op = "restore", !.from = j] : j \in 0 .. MaxStreams}
    \cup {[NoRequest EXCEPT !.op = "up"], [NoRequest EXCEPT !.op = "down", !.volumes = TRUE]}
    \cup [op : {"remove"}, valid : {TRUE}, services : BOOLEAN, volumes : BOOLEAN, networks : BOOLEAN, from : {0}]

InitCommands ==
  /\ call = NoCall /\ child = NoChild /\ told = <<>>
  /\ helpers = [k \in 1 .. MaxStreams |-> NoHelper]
  /\ vol = [there |-> TRUE, root |-> {"old1", "old2"}, stage |-> NoStage, by |-> 0]
  /\ archives = [k \in 0 .. MaxStreams |->
                   IF k = 0 THEN [there |-> TRUE, files |-> {"new1", "new2"}, nested |-> FALSE, whole |-> TRUE]
                   ELSE NoArchive]
  /\ parts = [k \in 1 .. MaxStreams |-> NoArchive]
  /\ \E b, g \in BOOLEAN : project = [box |-> b, data |-> b, net |-> b, guest |-> g]
  /\ world \in [daemon : {TRUE}, cli : BOOLEAN, image : BOOLEAN, faults : 0 .. MaxFaults]

Kept(s, n) == IF Len(s) > n THEN Tail(s) ELSE s
Line_(kind) == [kind |-> "line", code |-> kind]
Done_ == [kind |-> "done", code |-> "done"]
Error_(code) == [kind |-> "error", code |-> code]
Busy == call.cmd \notin {"none", "ended"}
ArchiverCall == call.req.op \in {"archive", "restore"}

(* classifyComposeFailure and classifyHelperFailure: what a failed command is called.        *)
Among(kind, lines) == \E i \in DOMAIN lines : lines[i] = kind
ComposeFailure(lines) ==
  CASE Among("port", lines) -> "PORT_CONFLICT"
    [] ~Among("port", lines) /\ Among("down", lines) -> "DOCKER_UNREACHABLE"
    [] OTHER -> "UNKNOWN"
HelperFailure(lines) == IF Among("down", lines) THEN "DOCKER_UNREACHABLE" ELSE "UNKNOWN"

-----------------------------------------------------------------------------
(* A call.  Its commands come one after the other; `cmd` is the next one.  *)

EndsWith(event) ==
  /\ told' = Append(told, event)
  /\ call' = [call EXCEPT !.cmd = "ended"]

Opens(req) ==
  CASE req.op = "archive" -> "volume inspect"
    [] req.op = "restore" -> "image inspect"
    [] req.op = "remove" -> "rm"
    [] OTHER -> req.op

Refusal(req) ==
  CASE ~req.valid \/ ~req.services -> "INVALID_INPUT"
    [] req.valid /\ req.op = "restore" /\ ~archives[req.from].there -> "SNAPSHOT_NOT_FOUND"
    [] OTHER -> "none"

Ask_(req) ==
  /\ call.cmd \in {"none", "ended"} /\ call.k < MaxStreams
  /\ call' = [NoCall EXCEPT !.k = call.k + 1, !.req = req,
                !.cmd = IF Refusal(req) = "none" THEN Opens(req) ELSE "ended"]
  /\ told' = IF Refusal(req) = "none" THEN <<>> ELSE <<Error_(Refusal(req))>>
  /\ child' = NoChild
  /\ UNCHANGED <<helpers, vol, archives, parts, project, world>>

(* No CLI: that is the end, or of no account when all that is left is to remove a helper.    *)
NoCliOnPath ==
  /\ Busy /\ child.at = "none" /\ ~world.cli
  /\ call.cmd \notin {"run", "rm -f", "rename", "discard"}
  /\ EndsWith(Error_("COMPOSE_MISSING"))
  /\ UNCHANGED <<child, helpers, vol, archives, parts, project, world>>

SpawnDocker ==
  /\ Busy /\ child.at = "none" /\ world.cli
  /\ call.cmd \notin {"rename", "discard"}
  /\ ~(call.cmd \in {"pull", "run"} /\ call.aborted)
  /\ child' = [NoChild EXCEPT !.cmd = call.cmd, !.at = "running"]
  /\ helpers' = IF call.cmd = "run"
                 THEN [helpers EXCEPT ![call.k] = [NoHelper EXCEPT !.at = "asked", !.op = call.req.op, !.from = call.req.from]]
                 ELSE helpers
  /\ UNCHANGED <<call, told, vol, archives, parts, project, world>>

(* #stream of the archiver looks at the signal before it spawns.           *)
AbortedBefore ==
  /\ child.at = "none" /\ call.cmd \in {"pull", "run"} /\ call.aborted
  /\ told' = Append(told, Error_("CANCELLED"))
  /\ call' = [call EXCEPT !.cmd = IF call.cmd = "run" THEN "rm -f" ELSE "discard"]
  /\ UNCHANGED <<child, helpers, vol, archives, parts, project, world>>

Streamed == child.cmd \notin {"volume inspect", "image inspect", "rm -f"}

Prints(s) ==
  /\ child.at = "running" /\ Streamed /\ child.printed < MaxPrinted
  /\ child' = [child EXCEPT !.printed = @ + 1, !.pipe[s] = Append(@, "noise")]
  /\ UNCHANGED <<call, told, helpers, vol, archives, parts, project, world>>

(* mergeAsync: whichever pipe has a line; the newest lines are kept.       *)
ReadLine(s) ==
  /\ Busy /\ child.at # "none" /\ Streamed /\ child.pipe[s] # <<>>
  /\ LET line == Head(child.pipe[s])
         most == IF ArchiverCall THEN HelperLines ELSE RunnerLines
     IN  /\ child' = [child EXCEPT !.pipe[s] = Tail(@), !.kept = Kept(Append(@, line), most)]
         /\ told' = Append(told, Line_(line))
  /\ UNCHANGED <<call, helpers, vol, archives, parts, project, world>>

-----------------------------------------------------------------------------
(* What the commands do (external).                                        *)

Exit(ok, words) == child' = [child EXCEPT !.at = "exited", !.ok = ok, !.pipe["err"] = @ \o words]
Active_(k) == helpers[k].at \notin {"none", "asked", "exited", "gone"}

DaemonGone ==
  /\ child.at = "running" /\ ~world.daemon
  /\ Exit(FALSE, <<"down">>)
  /\ helpers' = IF child.cmd = "run" THEN [helpers EXCEPT ![call.k].at = "gone"] ELSE helpers
  /\ UNCHANGED <<call, told, vol, archives, parts, project, world>>

Inspects ==
  /\ child.at = "running" /\ world.daemon
  /\ \/ child.cmd = "volume inspect" /\ Exit(vol.there, <<>>) /\ UNCHANGED <<helpers, world>>
     \/ child.cmd = "image inspect" /\ Exit(world.image, <<>>) /\ UNCHANGED <<helpers, world>>
     \/ child.cmd = "pull" /\ Exit(TRUE, <<>>) /\ world' = [world EXCEPT !.image = TRUE] /\ UNCHANGED helpers
     \/ child.cmd = "pull" /\ Exit(FALSE, <<"other">>) /\ UNCHANGED <<helpers, world>>
     \/ child.cmd = "rm -f" /\ Exit(TRUE, <<>>) /\ helpers' = [helpers EXCEPT ![call.k].at = "gone"] /\ UNCHANGED world
     \/ child.cmd = "run" /\ helpers[call.k].at = "exited" /\ Exit(helpers[call.k].ok, <<>>)
        /\ helpers' = [helpers EXCEPT ![call.k].at = "gone"] /\ UNCHANGED world
  /\ UNCHANGED <<call, told, vol, archives, parts, project>>

Has(box, data, net) == [project EXCEPT !.box = box, !.data = data, !.net = net]

Composes ==
  /\ child.at = "running" /\ world.daemon
  /\ \/ child.cmd = "up" /\ ~project.box /\ project' = Has(FALSE, TRUE, TRUE) /\ UNCHANGED child
     \/ child.cmd = "up" /\ project' = Has(TRUE, TRUE, TRUE) /\ Exit(TRUE, <<>>)
     \/ child.cmd = "up" /\ Exit(FALSE, <<"port">>) /\ UNCHANGED project
     \/ child.cmd \in {"up", "down", "rm", "volume rm"} /\ Exit(FALSE, <<"other">>) /\ UNCHANGED project
     \/ child.cmd = "down" /\ project' = Has(FALSE, FALSE, project.guest) /\ Exit(~project.guest, <<>>)
     \/ child.cmd = "rm" /\ project' = Has(FALSE, project.data, project.net) /\ Exit(TRUE, <<>>)
     \/ child.cmd = "volume rm" /\ project' = Has(project.box, project.box, project.net) /\ Exit(~project.box, <<>>)
     \/ child.cmd = "network rm" /\ LET busy_ == project.box \/ project.guest
                                    IN  project' = Has(project.box, project.data, busy_) /\ Exit(~busy_, <<>>)
  /\ UNCHANGED <<call, told, helpers, vol, archives, parts, world>>

-----------------------------------------------------------------------------
(* The helper's scripts, one file at a time.                               *)

Set_(k, at) == helpers' = [helpers EXCEPT ![k].at = at]
Exits_(k, ok) == helpers' = [helpers EXCEPT ![k].at = "exited", ![k].ok = ok]
AtStep(k, at) == world.daemon /\ helpers[k].at = at

(* `docker run`: two helpers may share the volume, the older one being of a process that died. *)
HelperBegins(k) ==
  /\ helpers[k].at = "asked" /\ world.daemon
  /\ k = call.k => child.at = "running"
  /\ LET others == {i \in DOMAIN helpers : Active_(i)}
         op == helpers[k].op
     IN  helpers' = [i \in DOMAIN helpers |->
           IF i = k THEN [helpers[k] EXCEPT !.at = IF op = "archive" THEN "tar" ELSE "clear",
                            !.old = vol.root, !.alone = others = {}]
           ELSE IF i \in others THEN [helpers[i] EXCEPT !.alone = FALSE] ELSE helpers[i]]
  /\ vol' = [vol EXCEPT !.there = TRUE, !.by = k]
  /\ parts' = IF helpers[k].op = "archive" THEN [parts EXCEPT ![k] = [NoArchive EXCEPT !.there = TRUE]] ELSE parts
  /\ UNCHANGED archives

Tars(k) ==
  /\ AtStep(k, "tar")
  /\ \/ \E f \in vol.root \ parts[k].files :
          parts' = [parts EXCEPT ![k].files = @ \cup {f}] /\ UNCHANGED helpers
     \/ /\ vol.root \subseteq parts[k].files
        /\ parts' = [parts EXCEPT ![k].whole = TRUE, ![k].nested = vol.stage.there]
        /\ Exits_(k, TRUE)
     \/ Exits_(k, FALSE) /\ UNCHANGED parts
  /\ UNCHANGED <<vol, archives>>

(* Exit 4 when the old staging folder cannot be removed or the new one not made. *)
ClearStage(k) ==
  /\ AtStep(k, "clear")
  /\ \/ vol' = [vol EXCEPT !.stage = [NoStage EXCEPT !.there = TRUE]] /\ Set_(k, "open")
     \/ \E left \in {vol.stage, NoStage} : vol' = [vol EXCEPT !.stage = left] /\ Exits_(k, FALSE)
  /\ UNCHANGED <<archives, parts>>

(* Faulty: a tar that fails leaves what it extracted, and the script goes on. *)
ExtractFailsOn(k) ==
  /\ AtStep(k, "open") \/ AtStep(k, "extract")
  /\ Set_(k, "wipe")
  /\ UNCHANGED <<vol, archives, parts>>

(* Exit 3: a corrupt archive, one that was deleted, a full disk.  The rm that follows may fail. *)
ExtractFails(k) ==
  /\ AtStep(k, "open") \/ AtStep(k, "extract")
  /\ \E left \in {vol.stage, NoStage} : vol' = [vol EXCEPT !.stage = left]
  /\ Exits_(k, FALSE)
  /\ UNCHANGED <<archives, parts>>

OpensArchive(k) ==
  /\ AtStep(k, "open") /\ archives[helpers[k].from].there
  /\ helpers' = [helpers EXCEPT ![k].at = "extract", ![k].src = archives[helpers[k].from]]
  /\ UNCHANGED <<vol, archives, parts>>

(* The staging folder that was archived along is dropped at the end.       *)
Extracts(k) ==
  /\ AtStep(k, "extract") /\ vol.stage.there
  /\ LET due == helpers[k].src.files \ vol.stage.files
     IN  \/ \E f \in due : vol' = [vol EXCEPT !.stage.files = @ \cup {f}] /\ UNCHANGED helpers
         \/ due = {} /\ Set_(k, "wipe") /\ UNCHANGED vol
  /\ UNCHANGED <<archives, parts>>

(* `find -exec rm -rf {} \;` runs an rm per file and is content when one fails: that file
   (a folder: what is left of it) is stuck, and the script goes on.  Exit 5 is for find itself, which may fail at any point. *)
Wipes(k) ==
  /\ AtStep(k, "wipe")
  /\ \/ \E f \in vol.root \ helpers[k].stuck :
          \/ vol' = [vol EXCEPT !.root = @ \ {f}] /\ UNCHANGED helpers
          \/ helpers' = [helpers EXCEPT ![k].stuck = @ \cup {f}] /\ UNCHANGED vol
     \/ vol.root \subseteq helpers[k].stuck /\ Set_(k, "move") /\ UNCHANGED vol
     \/ Exits_(k, FALSE) /\ UNCHANGED vol
  /\ UNCHANGED <<archives, parts>>

(* So does an mv: what it failed on stays in the staging folder, and the script goes on.  (What
   an rm could not remove, an mv cannot replace.)  find fails when the folder is gone. *)
Moves(k) ==
  /\ AtStep(k, "move")
  /\ \/ \E f \in vol.stage.files :
          vol' = [vol EXCEPT !.root = @ \cup {f}, !.stage.files = @ \ {f}] /\ UNCHANGED helpers
     \/ vol.stage.there /\ Set_(k, "finish") /\ UNCHANGED vol
     \/ Exits_(k, FALSE) /\ UNCHANGED vol
  /\ UNCHANGED <<archives, parts>>

(* Owner and mode of the root, and rmdir, which fails when the folder is gone or not empty.  *)
Finishes(k) ==
  /\ AtStep(k, "finish")
  /\ LET empty == vol.stage.there /\ vol.stage.files = {}
     IN  \/ empty /\ vol' = [vol EXCEPT !.stage = NoStage] /\ Exits_(k, TRUE)
         \/ Exits_(k, FALSE) /\ UNCHANGED vol
  /\ UNCHANGED <<archives, parts>>

HelperSteps(k) ==
  /\ \/ HelperBegins(k) \/ Tars(k) \/ ClearStage(k) \/ OpensArchive(k) \/ ExtractFails(k)
     \/ Extracts(k) \/ Wipes(k) \/ Moves(k) \/ Finishes(k)
  /\ UNCHANGED <<call, child, told, project, world>>

-----------------------------------------------------------------------------
(* The exit code is read when both pipes have ended.                       *)

Read_(cmd) == Busy /\ child.at = "exited" /\ child.cmd = cmd /\ call.cmd = cmd
ReadAll(cmd) == Read_(cmd) /\ \A s \in {"out", "err"} : child.pipe[s] = <<>>
Rest == UNCHANGED <<helpers, vol, archives, parts, project, world>>
Goes(cmd) == call' = [call EXCEPT !.cmd = cmd] /\ UNCHANGED told
Failure_ == IF call.aborted THEN "CANCELLED" ELSE HelperFailure(child.kept)

(* archive looks for the volume first, and makes the folder of the archive. *)
VolumeLooked ==
  /\ Read_("volume inspect") /\ child' = NoChild
  /\ \/ child.ok /\ Goes("image inspect")
     \/ child.ok /\ EndsWith(Error_("IO"))
     \/ ~child.ok /\ EndsWith(Error_(IF Among("down", child.pipe["err"]) THEN "DOCKER_UNREACHABLE"
                                      ELSE "SERVICE_NOT_FOUND"))
  /\ Rest

ImageLooked ==
  /\ Read_("image inspect") /\ child' = NoChild
  /\ Goes(IF child.ok THEN "run" ELSE "pull")
  /\ Rest

Pulled ==
  /\ ReadAll("pull") /\ child' = NoChild
  /\ \/ child.ok /\ ~call.aborted /\ Goes("run")
     \/ /\ ~child.ok \/ call.aborted
        /\ told' = Append(told, Error_(Failure_)) /\ call' = [call EXCEPT !.cmd = "discard"]
  /\ Rest

(* A run that is not clean is followed by `docker rm -f`.                  *)
Ran ==
  /\ ReadAll("run") /\ child' = NoChild
  /\ IF child.ok /\ ~call.aborted
     THEN IF call.req.op = "archive" THEN Goes("rename") ELSE EndsWith(Done_)
     ELSE told' = Append(told, Error_(Failure_)) /\ call' = [call EXCEPT !.cmd = "rm -f"]
  /\ Rest

HelperRemoved ==
  /\ Read_("rm -f") /\ child' = NoChild
  /\ Goes("discard")
  /\ Rest

Renames ==
  /\ call.cmd = "rename"
  /\ \/ /\ archives' = [archives EXCEPT ![call.k] = parts[call.k]]
        /\ parts' = [parts EXCEPT ![call.k] = NoArchive]
        /\ EndsWith(Done_)
     \/ /\ told' = Append(told, Error_("IO")) /\ call' = [call EXCEPT !.cmd = "discard"]
        /\ UNCHANGED <<archives, parts>>
  /\ UNCHANGED <<child, helpers, vol, project, world>>

(* The finally of archive. *)
Discards ==
  /\ call.cmd = "discard"
  /\ Goes("ended")
  /\ parts' = [parts EXCEPT ![call.k] = NoArchive]
  /\ UNCHANGED <<child, helpers, vol, archives, project, world>>

(* Faulty: a phase of a removal is over when its command is. *)
PhaseEndsAnyhow(ok, cmd) ==
  CASE cmd = "rm" /\ call.req.volumes -> "volume rm"
    [] cmd \in {"rm", "volume rm"} /\ ~(cmd = "rm" /\ call.req.volumes) /\ call.req.networks -> "network rm"
    [] OTHER -> IF ok THEN "done" ELSE "failed"

(* What follows a phase of a removal: the networks are best effort.        *)
AfterPhase(ok, cmd) ==
  CASE cmd = "network rm" -> "done"
    [] cmd # "network rm" /\ ~ok -> "failed"
    [] cmd = "rm" /\ ok /\ call.req.volumes -> "volume rm"
    [] cmd \in {"rm", "volume rm"} /\ ok /\ ~(cmd = "rm" /\ call.req.volumes) /\ call.req.networks -> "network rm"
    [] OTHER -> "done"

Composed ==
  /\ \E cmd \in {"up", "down", "rm", "volume rm", "network rm"} :
       /\ ReadAll(cmd)
       /\ LET next == AfterPhase(child.ok, cmd)
          IN  CASE next = "done" -> EndsWith(Done_)
                [] next = "failed" -> EndsWith(Error_(ComposeFailure(child.kept)))
                [] OTHER -> Goes(next)
  /\ child' = NoChild
  /\ Rest

-----------------------------------------------------------------------------
(* What goes wrong.                                                        *)

Fault_ == world.faults > 0 /\ world' = [world EXCEPT !.faults = @ - 1]
ChildDies == child' = [child EXCEPT !.at = "exited", !.ok = FALSE, !.pipe = NoChild.pipe]
Unasked == helpers' = IF child.cmd = "run" /\ helpers[call.k].at = "asked"
                      THEN [helpers EXCEPT ![call.k].at = "gone"] ELSE helpers

(* The caller's signal kills the client of a pull or of a helper.          *)
Aborts ==
  /\ Busy /\ ArchiverCall /\ ~call.aborted /\ Fault_
  /\ call' = [call EXCEPT !.aborted = TRUE]
  /\ IF child.at = "running" /\ child.cmd \in {"pull", "run"} THEN ChildDies /\ Unasked
     ELSE UNCHANGED <<child, helpers>>
  /\ UNCHANGED <<told, vol, archives, parts, project>>

SomebodyKillsChild ==
  /\ child.at = "running" /\ Streamed /\ Fault_
  /\ ChildDies /\ Unasked
  /\ UNCHANGED <<call, told, vol, archives, parts, project>>

(* The process dies; its child and the helper go on.                       *)
ProgramDies ==
  /\ Busy /\ Fault_
  /\ call' = [NoCall EXCEPT !.k = call.k] /\ child' = NoChild /\ told' = <<>>
  /\ UNCHANGED <<helpers, vol, archives, parts, project>>

DockerStops ==
  /\ world.daemon /\ world.faults > 0
  /\ world' = [world EXCEPT !.daemon = FALSE, !.faults = @ - 1]
  /\ helpers' = [k \in DOMAIN helpers |->
       IF helpers[k].at \in {"none", "gone"} THEN helpers[k] ELSE [helpers[k] EXCEPT !.at = "gone"]]
  /\ UNCHANGED <<call, child, told, vol, archives, parts, project>>

DockerReturns ==
  /\ ~world.daemon /\ child.at # "running"
  /\ world' = [world EXCEPT !.daemon = TRUE]
  /\ UNCHANGED <<call, child, told, helpers, vol, archives, parts, project>>

(* Another terminal starts the project, or a snapshot is deleted.          *)
OtherUp ==
  /\ world.daemon /\ Fault_
  /\ project' = Has(TRUE, TRUE, TRUE)
  /\ call' = [call EXCEPT !.calm = FALSE]
  /\ UNCHANGED <<child, told, helpers, vol, archives, parts>>

ArchiveDeleted(j) ==
  /\ archives[j].there /\ Fault_
  /\ archives' = [archives EXCEPT ![j] = NoArchive]
  /\ UNCHANGED <<call, child, told, helpers, vol, parts, project>>

CommandsNext ==
  \/ \E req \in Requests_ : Ask_(req)
  \/ NoCliOnPath \/ SpawnDocker \/ AbortedBefore
  \/ \E s \in {"out", "err"} : Prints(s) \/ ReadLine(s)
  \/ DaemonGone \/ Inspects \/ Composes
  \/ \E k \in DOMAIN helpers : HelperSteps(k)
  \/ VolumeLooked \/ ImageLooked \/ Pulled \/ Ran \/ HelperRemoved \/ Renames \/ Discards \/ Composed
  \/ Aborts \/ SomebodyKillsChild \/ ProgramDies \/ DockerStops \/ DockerReturns \/ OtherUp
  \/ \E j \in DOMAIN archives : ArchiveDeleted(j)

CommandsSpec == InitCommands /\ [][CommandsNext]_commandVars

-----------------------------------------------------------------------------
(* Properties *)

Ended_ == call.cmd = "ended"
ToldEnd == told[Len(told)]

(* An archive that can be restored holds the whole volume as it was.       *)
ArchivesWhole ==
  \A k \in DOMAIN helpers :
    archives[k].there => archives[k].whole /\ (helpers[k].alone => archives[k].files = helpers[k].old)

(* The last restore to begin, when no other helper was at work beside it, never leaves less
   than the files it found or the archived ones, in place or in the staging folder; one that is
   reported as done leaves the archived files, in place, and of the others only those it found
   and rm could not delete: it does not say that there are such files. *)
RestoresWhole ==
  LET k == vol.by
      h == helpers[k]
  IN  k # 0 /\ h.op = "restore" /\ h.alone =>
        /\ h.old \subseteq vol.root \/ h.src.files \subseteq vol.root \cup vol.stage.files
        /\ k = call.k /\ Ended_ /\ ToldEnd = Done_
             => /\ h.src.files \subseteq vol.root /\ ~vol.stage.there
                /\ vol.root \subseteq h.src.files \cup (h.old \cap h.stuck)

(* Neither the helper nor its partial archive outlives the stream.         *)
NothingOutlives ==
  Ended_ /\ call.k > 0 => helpers[call.k].at \in {"none", "gone"} /\ ~parts[call.k].there

(* volume-archiver.ts: whatever dies, is aborted or goes away, and at whatever point, a volume
   or its archive is whole (ArchivesWhole, RestoresWhole), and a stream that is over leaves
   nothing behind (NothingOutlives). *)
VolumesSafe == ArchivesWhole /\ RestoresWhole /\ NothingOutlives

(* compose-runner.ts: a call ends with exactly one event that says so, its last; a removal that
   is reported as done removed the container, and the volume when that was asked, unless
   another terminal started the project meanwhile. *)
RemovalTold ==
  /\ \A i \in DOMAIN told : i < Len(told) => told[i].kind = "line"
  /\ Ended_ => told # <<>> /\ ToldEnd.kind # "line"
  /\ Ended_ /\ call.req.op = "remove" /\ ToldEnd = Done_ /\ call.calm
       => ~project.box /\ (call.req.volumes => ~project.data)
=============================================================================
