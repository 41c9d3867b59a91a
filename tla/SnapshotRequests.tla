-------------------------- MODULE SnapshotRequests --------------------------
(***************************************************************************)
(* Snapshots of one service from the tabs of the dashboard to the index:   *)
(* a tab shows a list that may be old (snapshots-tab.tsx), the server      *)
(* checks a request before it queues it (snapshots.service.ts), and the    *)
(* operation checks again when its turn in the project's lane comes        *)
(* (create-, restore- and delete-snapshot.op.ts over support/snapshots.ts).*)
(* Meanwhile the stack file is edited, and the process may die.            *)
(*                                                                         *)
(* A version stands for its major part; the passwords saved beside an      *)
(* archive are in ServiceData.                                             *)
(***************************************************************************)
EXTENDS Naturals, Sequences, FiniteSets

CONSTANTS
  Tabs,         \* open Snapshots tabs
  Ids,          \* snapshot ids that may be drawn
  Catalog_,     \* type -> [volumes, baked]: its volumes, and whether one holds a password
  Entries,      \* what the stack file may say of the service: [type, major, persist]
  Absent,       \* the service is not in the stack file
  MaxRequests,  \* bound: requests
  MaxSurprises  \* bound: edits and deaths

ASSUME EntriesAssumption ==
  /\ Absent \notin Entries
  /\ \A e \in Entries : e.type # "none" /\ Catalog_[e.type].baked \in BOOLEAN

VARIABLES
  listed,   \* the service in the stack file, or Absent
  box,      \* the container: rendered at least once, running
  data,     \* what the volume holds: the type and the version that wrote it
  rows,     \* the snapshot index
  files,    \* archives and sidecars on disk
  tabs,     \* what each tab shows
  sent,     \* the request of each tab
  lane,     \* requests of the project in order; the first one runs
  harmed,   \* ids whose creation or deletion was cut short
  budget    \* requests and surprises left

snapshotVars == <<listed, box, data, rows, files, tabs, sent, lane, harmed, budget>>

NoRow == [type |-> "none", major |-> 0, hasSecrets |-> FALSE, data |-> [type |-> "none", major |-> 0]]
NoFiles == [archive |-> FALSE, sidecar |-> FALSE]
NoSent == [kind |-> "none", id |-> "none", at |-> "none", read |-> Absent, row |-> NoRow,
           answer |-> "none", ok |-> TRUE, again |-> FALSE]
NoTab == [list |-> {}, dialog |-> [kind |-> "none", id |-> "none"], busy |-> FALSE]
Indexed == {i \in Ids : rows[i] # NoRow}

InitSnapshots ==
  /\ listed \in Entries /\ data = [type |-> listed.type, major |-> listed.major]
  /\ box = [rendered |-> TRUE, running |-> TRUE]
  /\ rows = [i \in Ids |-> NoRow] /\ files = [i \in Ids |-> NoFiles]
  /\ tabs = [t \in Tabs |-> NoTab] /\ sent = [t \in Tabs |-> NoSent]
  /\ lane = <<>> /\ harmed = {}
  /\ budget = [requests |-> MaxRequests, surprises |-> MaxSurprises]

Storage == <<rows, files, harmed>>
Machine_ == <<listed, box, data>>

-----------------------------------------------------------------------------
(* The tab.  Its list is fetched once and after each of its actions.       *)

VolumeOf(e) ==
  CASE e.persist # "volume" -> "ephemeral"
    [] e.persist = "volume" /\ Catalog_[e.type].volumes = 1 -> "ok"
    [] OTHER -> "unfit"

(* listSnapshots needs the service to be in the stack file.                *)
FetchList(t) ==
  /\ ~tabs[t].busy /\ listed # Absent /\ tabs[t].list # Indexed
  /\ tabs' = [tabs EXCEPT ![t].list = Indexed]
  /\ UNCHANGED <<Machine_, Storage, sent, lane, budget>>

(* Restore and Delete are confirmed first, while the world goes on.        *)
OpenDialog(t, kind, id) ==
  /\ ~tabs[t].busy /\ id \in tabs[t].list /\ tabs[t].dialog.kind = "none" /\ budget.requests > 0
  /\ tabs' = [tabs EXCEPT ![t].dialog = [kind |-> kind, id |-> id]]
  /\ UNCHANGED <<Machine_, Storage, sent, lane, budget>>

CloseDialog(t) ==
  /\ tabs[t].dialog.kind # "none"
  /\ tabs' = [tabs EXCEPT ![t].dialog = NoTab.dialog]
  /\ UNCHANGED <<Machine_, Storage, sent, lane, budget>>

(* A tab sends one request at a time.                                      *)
Sends(t, kind, id) ==
  /\ ~tabs[t].busy /\ budget.requests > 0
  /\ sent' = [sent EXCEPT ![t] = [NoSent EXCEPT !.kind = kind, !.id = id,
                                    !.at = IF kind = "delete" THEN "queue" ELSE "lookup"]]
  /\ tabs' = [tabs EXCEPT ![t].busy = TRUE, ![t].dialog = NoTab.dialog]
  /\ budget' = [budget EXCEPT !.requests = @ - 1]
  /\ UNCHANGED <<Machine_, Storage, lane>>

Confirm(t) == tabs[t].dialog.kind # "none" /\ Sends(t, tabs[t].dialog.kind, tabs[t].dialog.id)
PressCreate(t) == tabs[t].dialog.kind = "none" /\ Sends(t, "create", "none")

(* The toast ends, the list is fetched again.                              *)
Settle(t) ==
  /\ sent[t].at = "answered"
  /\ tabs' = [tabs EXCEPT ![t].busy = FALSE, ![t].list = IF listed = Absent THEN @ ELSE Indexed]
  /\ sent' = [sent EXCEPT ![t] = NoSent]
  /\ UNCHANGED <<Machine_, Storage, lane, budget>>

-----------------------------------------------------------------------------
(* The request: what is wrong with it, as far as can be seen at once.      *)

Answers_(t, answer) ==
  /\ sent' = [sent EXCEPT ![t].at = "answered", ![t].answer = answer]
  /\ lane' = IF lane # <<>> /\ Head(lane) = t THEN Tail(lane) ELSE lane

(* ServiceLookup.service                                                   *)
LookUp(t) ==
  /\ sent[t].at = "lookup"
  /\ IF listed = Absent THEN Answers_(t, "SERVICE_NOT_FOUND")
     ELSE sent' = [sent EXCEPT ![t].at = "check", ![t].read = listed] /\ UNCHANGED lane
  /\ UNCHANGED <<Machine_, Storage, tabs, budget>>

(* snapshotMismatch *)
Mismatch(row, e) == row.type # e.type \/ row.major # e.major

Unfit(t, e) ==
  CASE sent[t].kind = "create" /\ (e.persist = "ephemeral" \/ Catalog_[e.type].volumes = 0) -> "INVALID_INPUT"
    [] sent[t].kind = "restore" /\ rows[sent[t].id] = NoRow -> "SNAPSHOT_NOT_FOUND"
    [] sent[t].kind = "restore" /\ rows[sent[t].id] # NoRow /\ Mismatch(rows[sent[t].id], e) -> "INVALID_INPUT"
    [] OTHER -> "none"

Precheck(t) ==
  /\ sent[t].at = "check"
  /\ LET wrong == Unfit(t, sent[t].read)
     IN  IF wrong # "none" THEN Answers_(t, wrong)
         ELSE sent' = [sent EXCEPT ![t].at = "queue"] /\ UNCHANGED lane
  /\ UNCHANGED <<Machine_, Storage, tabs, budget>>

(* Faulty: a deletion has no containers to wait for.                       *)
JoinLaneUnlessDelete(t) ==
  /\ sent[t].at = "queue"
  /\ IF sent[t].kind = "delete"
     THEN sent' = [sent EXCEPT ![t].at = "archive", ![t].row = rows[sent[t].id]] /\ UNCHANGED lane
     ELSE lane' = Append(lane, t) /\ sent' = [sent EXCEPT ![t].at = "waits"]
  /\ UNCHANGED <<Machine_, Storage, tabs, budget>>

(* OpLauncher.start and ProjectLane.exclusive: both join the lane.         *)
JoinLane(t) ==
  /\ sent[t].at = "queue"
  /\ lane' = Append(lane, t)
  /\ sent' = [sent EXCEPT ![t].at = "waits"]
  /\ UNCHANGED <<Machine_, Storage, tabs, budget>>

-----------------------------------------------------------------------------
(* The operation *)

Runs_(t, at) == sent[t].at = at
Steps_(t, at) == sent' = [sent EXCEPT ![t].at = at] /\ UNCHANGED lane
Turn(t) == sent[t].at = "waits" /\ Head(lane) = t

(* loadSnapshotTarget *)
TargetOf(e) ==
  CASE e = Absent -> "SERVICE_NOT_FOUND"
    [] e # Absent /\ (VolumeOf(e) # "ok" \/ ~box.rendered) -> "INVALID_INPUT"
    [] OTHER -> "none"

(* findSnapshot, snapshotMismatch, sizeOf and readSnapshotSecrets          *)
RestoreRefused(id, e) ==
  CASE rows[id] = NoRow -> "SNAPSHOT_NOT_FOUND"
    [] rows[id] # NoRow /\ Mismatch(rows[id], e) -> "INVALID_INPUT"
    [] rows[id] # NoRow /\ ~Mismatch(rows[id], e) /\ ~files[id].archive -> "SNAPSHOT_NOT_FOUND"
    [] rows[id] # NoRow /\ files[id].archive /\ rows[id].hasSecrets /\ ~files[id].sidecar -> "SNAPSHOT_NOT_FOUND"
    [] OTHER -> "none"

BeginRestore(t) ==
  /\ Turn(t) /\ sent[t].kind = "restore"
  /\ LET wrong == IF TargetOf(listed) # "none" THEN TargetOf(listed) ELSE RestoreRefused(sent[t].id, listed)
     IN  IF wrong # "none" THEN Answers_(t, wrong)
         ELSE /\ sent' = [sent EXCEPT ![t].at = "stop", ![t].read = listed, ![t].row = rows[sent[t].id]]
              /\ UNCHANGED lane
  /\ UNCHANGED <<Machine_, Storage, tabs, budget>>

(* newSnapshotId: drawn again when the index has it, five times at most.   *)
BeginCreate(t) ==
  /\ Turn(t) /\ sent[t].kind = "create"
  /\ IF TargetOf(listed) # "none" THEN Answers_(t, TargetOf(listed))
     ELSE \/ \E id \in Ids \ Indexed :
               /\ \A u \in Tabs \ {t} : sent[u].id # id \/ sent[u].kind # "create"
               /\ sent' = [sent EXCEPT ![t].id = id, ![t].read = listed, ![t].again = box.running,
                                       ![t].at = IF box.running THEN "stop" ELSE "write"]
               /\ UNCHANGED lane
          \/ Ids = Indexed /\ Answers_(t, "IO")
  /\ UNCHANGED <<Machine_, Storage, tabs, budget>>

BeginDelete(t) ==
  /\ Turn(t) /\ sent[t].kind = "delete"
  /\ IF rows[sent[t].id] = NoRow THEN Answers_(t, "SNAPSHOT_NOT_FOUND")
     ELSE Steps_(t, "archive")
  /\ UNCHANGED <<Machine_, Storage, tabs, budget>>

StopForSnapshot(t) ==
  /\ Runs_(t, "stop")
  /\ box' = [box EXCEPT !.running = FALSE]
  /\ Steps_(t, IF sent[t].kind = "create" THEN "write" ELSE "replace")
  /\ UNCHANGED <<listed, data, Storage, tabs, budget>>

(* A stop that fails ends the operation.                                   *)
StopRefused(t) ==
  /\ Runs_(t, "stop")
  /\ Answers_(t, "UNKNOWN")
  /\ UNCHANGED <<Machine_, Storage, tabs, budget>>

WriteArchive(t) ==
  /\ Runs_(t, "write")
  /\ files' = [files EXCEPT ![sent[t].id] = [archive |-> TRUE, sidecar |-> Catalog_[sent[t].read.type].baked]]
  /\ Steps_(t, "insert")
  /\ UNCHANGED <<Machine_, rows, harmed, tabs, budget>>

InsertRow(t) ==
  /\ Runs_(t, "insert")
  /\ rows' = [rows EXCEPT ![sent[t].id] =
       [type |-> sent[t].read.type, major |-> sent[t].read.major,
        hasSecrets |-> files[sent[t].id].sidecar, data |-> data]]
  /\ Steps_(t, "start")
  /\ UNCHANGED <<Machine_, files, harmed, tabs, budget>>

(* Whatever fails on the way, archive and sidecar are discarded.           *)
DiscardArchive(t) ==
  /\ Runs_(t, "write") \/ Runs_(t, "insert")
  /\ files' = [files EXCEPT ![sent[t].id] = NoFiles]
  /\ sent' = [sent EXCEPT ![t].at = "start", ![t].ok = FALSE] /\ UNCHANGED lane
  /\ UNCHANGED <<Machine_, rows, harmed, tabs, budget>>

(* VolumeArchiver.restore, and the passwords; or it fails.                 *)
ReplaceData(t) ==
  /\ Runs_(t, "replace")
  /\ \/ data' = sent[t].row.data /\ Steps_(t, "start")
     \/ UNCHANGED <<data, lane>> /\ sent' = [sent EXCEPT ![t].at = "start", ![t].ok = FALSE]
  /\ UNCHANGED <<listed, box, Storage, tabs, budget>>

(* Always after a restore; after a creation when it ran before.            *)
StartAgain(t) ==
  /\ Runs_(t, "start")
  /\ LET starts == sent[t].kind = "restore" \/ sent[t].again
     IN  \/ /\ box' = [box EXCEPT !.running = @ \/ starts]
            /\ Answers_(t, IF sent[t].ok THEN "done" ELSE "IO")
         \/ starts /\ Answers_(t, "UNKNOWN") /\ UNCHANGED box
  /\ UNCHANGED <<listed, data, Storage, tabs, budget>>

(* deleteSnapshotFiles: the archive, the sidecar, the row.                 *)
RemoveArchive(t) ==
  /\ Runs_(t, "archive")
  /\ files' = [files EXCEPT ![sent[t].id].archive = FALSE]
  /\ Steps_(t, "sidecar")
  /\ UNCHANGED <<Machine_, rows, harmed, tabs, budget>>

RemoveSidecar(t) ==
  /\ Runs_(t, "sidecar")
  /\ files' = [files EXCEPT ![sent[t].id].sidecar = FALSE]
  /\ Steps_(t, "row")
  /\ UNCHANGED <<Machine_, rows, harmed, tabs, budget>>

DeleteRow(t) ==
  /\ Runs_(t, "row")
  /\ rows' = [rows EXCEPT ![sent[t].id] = NoRow]
  /\ harmed' = harmed \ {sent[t].id}
  /\ Answers_(t, "deleted")
  /\ UNCHANGED <<Machine_, files, tabs, budget>>

DeleteFails(t) ==
  /\ sent[t].at \in {"archive", "sidecar", "row"}
  /\ harmed' = harmed \cup {sent[t].id}
  /\ Answers_(t, "IO")
  /\ UNCHANGED <<Machine_, rows, files, tabs, budget>>

-----------------------------------------------------------------------------
Surprise == budget.surprises > 0 /\ budget' = [budget EXCEPT !.surprises = @ - 1]

(* The user edits the stack file; the container is not touched.            *)
EditEntry ==
  /\ Surprise
  /\ \E e \in (Entries \cup {Absent}) \ {listed} : listed' = e
  /\ UNCHANGED <<box, data, Storage, tabs, sent, lane>>

(* The server dies: what ran stops where it was, what waited is gone, and
   the tabs are told that the request failed. *)
ServerGone ==
  /\ Surprise
  /\ harmed' = harmed \cup {sent[u].id : u \in {v \in Tabs : sent[v].at \in {"write", "insert", "archive", "sidecar", "row"}}}
  /\ lane' = <<>>
  /\ sent' = [t \in Tabs |-> IF sent[t].at = "none" THEN sent[t]
                             ELSE [sent[t] EXCEPT !.at = "answered", !.answer = "lost"]]
  /\ UNCHANGED <<Machine_, rows, files, tabs>>

TabActs(t) ==
  \/ FetchList(t) \/ CloseDialog(t) \/ Confirm(t) \/ PressCreate(t) \/ Settle(t)
  \/ \E kind \in {"restore", "delete"}, id \in Ids : OpenDialog(t, kind, id)
OpActs(t) ==
  \/ LookUp(t) \/ Precheck(t) \/ JoinLane(t) \/ BeginRestore(t) \/ BeginCreate(t) \/ BeginDelete(t)
  \/ StopForSnapshot(t) \/ StopRefused(t) \/ WriteArchive(t) \/ InsertRow(t) \/ DiscardArchive(t)
  \/ ReplaceData(t) \/ StartAgain(t) \/ RemoveArchive(t) \/ RemoveSidecar(t) \/ DeleteRow(t) \/ DeleteFails(t)

SnapshotsNext == (\E t \in Tabs : TabActs(t) \/ OpActs(t)) \/ EditEntry \/ ServerGone
SnapshotsSpec == InitSnapshots /\ [][SnapshotsNext]_snapshotVars

-----------------------------------------------------------------------------
(* Properties *)

(* A restore only ever puts back what fits the service as its operation read it, and nobody
   deletes the snapshot under it. *)
RestoresFit ==
  \A t \in Tabs :
    sent[t].kind = "restore" /\ sent[t].at \in {"stop", "replace"}
      => /\ sent[t].row.type = sent[t].read.type /\ sent[t].row.major = sent[t].read.major
         /\ rows[sent[t].id] = sent[t].row /\ files[sent[t].id].archive
         /\ sent[t].row.hasSecrets => files[sent[t].id].sidecar

(* A row has its archive and sidecar unless it is being deleted or a deletion was cut short, and
   files without a row belong to a creation that is under way or was cut short. *)
RowsBacked ==
  \A i \in Ids \ harmed :
    LET by(kind) == \E t \in Tabs : sent[t].id = i /\ sent[t].kind = kind /\ sent[t].at \notin {"none", "answered"}
    IN  /\ rows[i] # NoRow => by("delete") \/ (files[i].archive /\ files[i].sidecar = rows[i].hasSecrets)
        /\ rows[i] = NoRow => by("create") \/ files[i] = NoFiles

(* support/snapshots.ts and the lane: whatever the tabs confirm on lists that are out of date,
   a restore fits the service and is not disturbed, and rows and files agree. *)
SnapshotsHold == RestoresFit /\ RowsBacked
=============================================================================
