------------------------------ MODULE StateDatabase ------------------------------
(***************************************************************************)
(* The state database <stateDir>/locastack.db: how several processes open  *)
(* it at once, which migrations they apply, the copy made before an        *)
(* upgrade, the import of a legacy state.json, and the transactions that   *)
(* write projects and port pins.                                           *)
(*                                                                         *)
(* One process runs its statements without awaiting, but the statements of *)
(* two processes interleave: every statement that commits on its own, and  *)
(* every read another process can overtake, is a step.  The transactions   *)
(* (BEGIN IMMEDIATE) and the migrator's are atomic.  The migrator and      *)
(* SQLite are external.  A schema is the number of migrations applied,     *)
(* 0 for a file without the migrations table.                              *)
(***************************************************************************)
EXTENDS Naturals, Sequences, FiniteSets, SequencesExt

CONSTANTS
  Process,        \* processes: a command runs in one of them once
  Stack,          \* names of stacks and projects
  PinnedPort,     \* host ports that may be pinned
  Service,        \* names of services inside a stack
  NoBackup,       \* no file <db>.backup
  LockAttempts,       \* MIGRATION_ATTEMPTS
  LegacyProjects, \* the projects of the legacy file
  LegacyPins      \* its pins [stack, service, port], in the order of the file

ASSUME DatabaseAssumption ==
  /\ LockAttempts \in Nat \ {0}
  /\ LegacyProjects \subseteq Stack
  /\ LegacyPins \in Seq([stack : Stack, service : Service, port : PinnedPort])
  /\ \A i, j \in DOMAIN LegacyPins :
       LegacyPins[i].stack = LegacyPins[j].stack /\ LegacyPins[i].service = LegacyPins[j].service => i = j

VARIABLES
  schema,    \* migrations applied to the file
  marker,    \* meta.schema_version
  backup,    \* <db>.backup: what it holds
  projects,  \* table projects
  pins,      \* tables stacks and port_pins: stack -> [its services -> port]
  legacy,    \* state.json: "present", "broken", "absent" or "migrated"
  ships,     \* [Process -> migrations its binary ships]
  conn       \* [Process -> the connection and how far its opening came]

databaseVars == <<schema, marker, backup, projects, pins, legacy, ships, conn>>

Unopened == [at |-> "closed", attempt |-> 1, last |-> 0, copied |-> FALSE]

(* The rows the other operations read: readState.                          *)
Rows == [projects |-> projects, pins |-> pins]

(* isStateEmpty *)
IsStateEmpty == projects = {} /\ DOMAIN pins = {}

(* Each port is pinned once: UNIQUE(port).                                 *)
PinnedOnce(next) ==
  \A s, t \in DOMAIN next : \A v \in DOMAIN next[s], w \in DOMAIN next[t] :
    <<s, v>> # <<t, w>> => next[s][v] # next[t][w]

(* The stacks a write leaves as they are (samePorts).                      *)
KeptStacks(next) ==
  {s \in DOMAIN pins \cap DOMAIN next : pins[s] = next[s]}

(* Faulty: the new pins are inserted while the old ones are still there.   *)
InsertableBeforeDelete(next) ==
  \A s \in DOMAIN next \ KeptStacks(next) : \A v \in DOMAIN next[s] :
    /\ \A t \in DOMAIN pins : \A w \in DOMAIN pins[t] :
         <<s, v>> # <<t, w>> => pins[t][w] # next[s][v]
    /\ \A t \in DOMAIN next \ KeptStacks(next) : \A w \in DOMAIN next[t] :
         <<s, v>> # <<t, w>> => next[t][w] # next[s][v]

(* writeStacks: stacks that are gone and the pins of those that changed    *)
(* are deleted before any pin is inserted, so a pin meets only the pins of *)
(* stacks left as they are and the other inserted ones.                    *)
Insertable(next) ==
  \A s \in DOMAIN next \ KeptStacks(next) : \A v \in DOMAIN next[s] :
    /\ \A t \in KeptStacks(next) : \A w \in DOMAIN pins[t] : pins[t][w] # next[s][v]
    /\ \A t \in DOMAIN next \ KeptStacks(next) : \A w \in DOMAIN next[t] :
         <<s, v>> # <<t, w>> => next[t][w] # next[s][v]

(* The pins of the legacy file in its order, without those whose port an   *)
(* earlier one has (skipConflictingPins).                                  *)
LegacyKept ==
  {i \in DOMAIN LegacyPins :
     \A j \in 1 .. i - 1 : LegacyPins[j].port # LegacyPins[i].port}
LegacyStacks == {LegacyPins[i].stack : i \in DOMAIN LegacyPins}
LegacyRow(s, v) == {i \in LegacyKept : LegacyPins[i].stack = s /\ LegacyPins[i].service = v}
LegacyPort(s) ==
  [v \in {u \in Service : LegacyRow(s, u) # {}} |->
     LegacyPins[CHOOSE i \in LegacyRow(s, v) : TRUE].port]

InitDatabase ==
  /\ schema = 0 /\ marker = 0
  /\ backup = NoBackup
  /\ projects = {} /\ pins = [s \in {} |-> <<>>]
  /\ conn = [p \in Process |-> Unopened]

-----------------------------------------------------------------------------
MoveTo(p, at) == conn' = [conn EXCEPT ![p].at = at]

(* #database: the folder, the file, WAL.  The retries that wait out        *)
(* SQLITE_BUSY are part of the step.                                       *)
Open(p) ==
  /\ conn[p].at = "closed"
  /\ MoveTo(p, "version")
  /\ UNCHANGED <<schema, marker, backup, projects, pins, legacy, ships>>

(* applyMigrations, up to the migrator: the version applied is read        *)
(* outside any transaction.                                                *)
ReadVersion(p) ==
  /\ conn[p].at = "version"
  /\ conn' = [conn EXCEPT ![p].last = schema, ![p].at =
       CASE schema > ships[p] -> "refused"
         [] schema = ships[p] -> "marker"
         [] schema < ships[p] /\ (schema = 0 \/ conn[p].copied) -> "migrate"
         [] schema < ships[p] /\ schema # 0 /\ ~conn[p].copied -> "copy"]
  /\ UNCHANGED <<schema, marker, backup, projects, pins, legacy, ships>>

(* backupBeforeUpgrade: the old copy is removed, then VACUUM INTO.         *)
RemoveBackup(p) ==
  /\ conn[p].at = "copy"
  /\ backup' = NoBackup
  /\ MoveTo(p, "vacuum")
  /\ UNCHANGED <<schema, marker, projects, pins, legacy, ships>>

WriteBackup(p) ==
  /\ conn[p].at = "vacuum"
  /\ backup' = [schema |-> schema, rows |-> Rows]
  /\ conn' = [conn EXCEPT ![p].copied = TRUE, ![p].at = "migrate"]
  /\ UNCHANGED <<schema, marker, projects, pins, legacy, ships>>

(* The migrator (external) reads the version again, outside its own        *)
(* transaction too.                                                        *)
MigratorRead(p) ==
  /\ conn[p].at = "migrate"
  /\ conn' = [conn EXCEPT ![p].last = schema, ![p].at = "commit"]
  /\ UNCHANGED <<schema, marker, backup, projects, pins, legacy, ships>>

(* Its transaction: what another process applied since cannot be applied   *)
(* again, so it is rolled back and the whole attempt repeated.             *)
Retry(p) ==
  IF conn[p].attempt < LockAttempts
  THEN conn' = [conn EXCEPT ![p].attempt = @ + 1, ![p].at = "version"]
  ELSE MoveTo(p, "failed")

Migrate(p) ==
  /\ conn[p].at = "commit"
  /\ \/ /\ conn[p].last >= ships[p]
        /\ MoveTo(p, "marker")
        /\ UNCHANGED schema
     \/ /\ conn[p].last < ships[p] /\ schema = conn[p].last
        /\ schema' = ships[p]
        /\ MoveTo(p, "marker")
     \/ /\ conn[p].last < ships[p] /\ schema # conn[p].last
        /\ Retry(p)
        /\ UNCHANGED schema
  /\ UNCHANGED <<marker, backup, projects, pins, legacy, ships>>

(* #recordSchemaVersion: read, and write in a statement of its own.        *)
ReadMarker(p) ==
  /\ conn[p].at = "marker"
  /\ MoveTo(p, IF marker >= ships[p] THEN "legacy" ELSE "mark")
  /\ UNCHANGED <<schema, marker, backup, projects, pins, legacy, ships>>

WriteMarker(p) ==
  /\ conn[p].at = "mark"
  /\ marker' = ships[p]
  /\ MoveTo(p, "legacy")
  /\ UNCHANGED <<schema, backup, projects, pins, legacy, ships>>

(* Faulty: state.json is renamed as soon as it has been read.              *)
ReadLegacyRenaming(p) ==
  /\ conn[p].at = "legacy"
  /\ MoveTo(p, CASE legacy = "present" -> "import"
               [] legacy = "broken" -> "failed"
               [] OTHER -> "open")
  /\ legacy' = IF legacy = "present" THEN "migrated" ELSE legacy
  /\ UNCHANGED <<schema, marker, backup, projects, pins, ships>>

(* #importLegacyState: the text is read and parsed; a file that is gone is *)
(* skipped, one that cannot be parsed fails the opening.                   *)
ReadLegacy(p) ==
  /\ conn[p].at = "legacy"
  /\ MoveTo(p, CASE legacy = "present" -> "import"
               [] legacy = "broken" -> "failed"
               [] OTHER -> "open")
  /\ UNCHANGED <<schema, marker, backup, projects, pins, legacy, ships>>

ImportLegacy(p) ==
  /\ conn[p].at = "import"
  /\ IF IsStateEmpty
     THEN /\ projects' = LegacyProjects
          /\ pins' = [s \in LegacyStacks |-> LegacyPort(s)]
     ELSE UNCHANGED <<projects, pins>>
  /\ MoveTo(p, "rename")
  /\ UNCHANGED <<schema, marker, backup, legacy, ships>>

RenameLegacy(p) ==
  /\ conn[p].at = "rename"
  /\ legacy' = IF legacy = "present" THEN "migrated" ELSE legacy
  /\ MoveTo(p, "open")
  /\ UNCHANGED <<schema, marker, backup, projects, pins, ships>>

(* update: read, mutate, validate and write in one immediate transaction.  *)
(* A pin that meets another one rolls it back: PORT_CONFLICT.              *)
Conflict(next) == ~Insertable(next)

Update(p, next) ==
  /\ conn[p].at = "open"
  /\ IF Conflict(next.pins)
     THEN UNCHANGED <<projects, pins>>
     ELSE projects' = next.projects /\ pins' = next.pins

OpenStep(p) ==
  \/ Open(p) \/ ReadVersion(p) \/ RemoveBackup(p) \/ WriteBackup(p)
  \/ MigratorRead(p) \/ Migrate(p) \/ ReadMarker(p) \/ WriteMarker(p)
  \/ ReadLegacy(p) \/ ImportLegacy(p) \/ RenameLegacy(p)
=============================================================================
