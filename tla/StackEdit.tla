------------------------------ MODULE StackEdit ------------------------------
(***************************************************************************)
(* One project whose stack file is edited: by the operations that add,     *)
(* change and remove a service, by an import, and by its user, who may     *)
(* save the file, the names of variables or the catalog overrides at any   *)
(* moment.  An operation reads file and catalog, checks its input against  *)
(* them, reads the text again, edits it, and then writes it; linking reads *)
(* the env file and then writes it.  What the user saves between such a    *)
(* read and its write is overwritten, and the properties say so.           *)
(***************************************************************************)
EXTENDS ComposeImport

CONSTANTS
    Bundled,         \* the catalog of the program
    OverrideDirs,    \* what the override directory may hold
    HandWritten,     \* stack files the user may save
    Renamings,       \* link.names the user may save
    LinkedFiles,     \* what the linked env file may hold when it is not linked
    ComposeFiles,
    OtherPorts,      \* ports pinned by other projects
    BusySets,        \* ports in use on the machine
    Requests,        \* what a client may ask to add: [name, type, version, config]
    Patches,         \* what a client may change: [version, config]
    MaxOps,          \* bound on operations
    MaxEdits         \* bound on what the user changes

VARIABLES
    exists,      \* the stack file is there
    file, renames, overrides, busy,
    pins,        \* instances with a pinned port
    stored,      \* <<instance, secret>> of the secret store
    linked,      \* lines of the linked env file
    preview,     \* what the import dialog shows
    op,          \* the operation that runs in the project's lane
    linking,     \* the env file as it is about to be written
    ops, edits   \* how many there were

vars == <<exists, file, renames, overrides, busy, pins, stored, linked, preview, op, linking, ops, edits>>

(* createCatalogSource: the user's overrides over the bundled definitions. *)
Catalogs == [dir \in OverrideDirs |-> MergeDefinitions(<<Bundled, ReadDirectory(dir)>>)]
Definitions == Catalogs[overrides]

NoPreview == [items |-> <<>>, dir |-> <<>>, busy |-> {}]
NoOp == [pc |-> "idle"]
IsName(n) == n # <<>> /\ n[1] \notin NonLetters

Init ==
    /\ exists \in BOOLEAN
    /\ file \in IF exists THEN HandWritten ELSE {<<>>}
    /\ renames = <<>> /\ overrides = <<>>
    /\ busy \in IF exists THEN {{}} ELSE BusySets
    /\ pins = Names(file) /\ stored = {}
    /\ linked \in IF exists THEN LinkedFiles ELSE {<<>>}
    /\ preview = NoPreview /\ op = NoOp /\ linking = NoOp /\ ops = 0 /\ edits = 0

-----------------------------------------------------------------------------
(* Edits of the stack file                                                 *)

Added(stack, e) == Append(stack, e)
Changed(stack, e) ==
    IF e.name \in Names(stack)
    THEN [i \in DOMAIN stack |-> IF stack[i].name = e.name THEN e ELSE stack[i]]
    ELSE Append(stack, e)
Removed(stack, n) == SelectSeq(stack, LAMBDA e : e.name # n)

(* dependentsOf *)
DependentsOf(stack, defs, n) ==
    {i \in DOMAIN stack :
       /\ stack[i].name # n /\ Known(defs, stack[i].type)
       /\ Entry(stack, n).type \in ToSet(Find(defs, stack[i].type).dependsOn)
       /\ LET dep == Entry(stack, n).type
          IN  IF dep \in DOMAIN stack[i].uses THEN stack[i].uses[dep] = n
              ELSE stack[First(Candidates(stack, stack[i].name, dep))].name = n}

(* Whether an edit applies to the text it is given, and what it makes of it. *)
Applies(kind, stack, n) ==
    CASE kind = "add" -> n \notin Names(stack)
      [] kind = "remove" -> n \in Names(stack)
      [] OTHER -> TRUE

(* Faulty: what was loaded is written back. *)
EditedLoaded(now) ==
    CASE op.kind = "add" -> Added(op.stack, op.entry)
      [] op.kind = "update" -> Changed(op.stack, op.entry)
      [] OTHER -> Removed(op.stack, op.entry.name)

Edited(now) ==
    CASE op.kind = "add" -> Added(now, op.entry)
      [] op.kind = "update" -> Changed(now, op.entry)
      [] OTHER -> Removed(now, op.entry.name)

-----------------------------------------------------------------------------
(* Add, change and remove a service                                        *)

Starts == op = NoOp /\ ops < MaxOps /\ exists

Accept(kind, entry) ==
    /\ op' = [pc |-> "read", kind |-> kind, entry |-> entry, stack |-> file, dir |-> overrides,
              read |-> <<>>, text |-> <<>>, names |-> <<>>]
    /\ ops' = ops + 1
    /\ UNCHANGED <<exists, file, renames, overrides, busy, pins, stored, linked, preview, linking, edits>>

BeginAdd(r) ==
    LET entry == [name |-> r.name, type |-> r.type, uses |-> <<>>, version |-> r.version, config |-> r.config]
    IN  /\ Starts
        /\ IsName(r.name) /\ r.name \notin Names(file)
        /\ Known(Definitions, r.type)
        /\ FieldsAccepted(Find(Definitions, r.type), r.version, r.config)
        /\ Plans(Added(file, entry), Definitions)
        /\ Accept("add", entry)

(* applyServicePatch: the config of a patch replaces the whole map. *)
Patched(e, p) ==
    [e EXCEPT !.version = IF p.version = "default" THEN @ ELSE p.version, !.config = p.config]

BeginUpdate(n, p) ==
    LET entry == Entry(file, n)
    IN  /\ Starts /\ n \in Names(file)
        /\ Known(Definitions, entry.type)
        /\ FieldsAccepted(Find(Definitions, entry.type), p.version, p.config)
        /\ Accept("update", Patched(entry, p))

(* The container is removed before the file is read again. *)
BeginRemove(n) ==
    /\ Starts /\ n \in Names(file)
    /\ DependentsOf(file, Definitions, n) = {}
    /\ Accept("remove", Entry(file, n))

(* updateStackFile: the read, with the edit of what it gave; and the write, which may
   fail and does not look whether the file, link.names included, is still what was read. *)
ReadFile ==
    /\ op.pc = "read"
    /\ op' = IF exists /\ Applies(op.kind, file, op.entry.name)
             THEN [op EXCEPT !.pc = "write", !.read = file, !.text = Edited(file), !.names = renames] ELSE NoOp
    /\ UNCHANGED <<exists, file, renames, overrides, busy, pins, stored, linked, preview, linking, ops, edits>>

WriteFile ==
    /\ op.pc = "write"
    /\ \/ /\ file' = op.text /\ renames' = op.names
          /\ op' = [op EXCEPT !.pc = "provision", !.stack = op.text]
       \/ op' = NoOp /\ UNCHANGED <<file, renames>>
    /\ UNCHANGED <<exists, overrides, busy, pins, stored, linked, preview, linking, ops, edits>>

(* The secrets a stack needs, and what provisionStack leaves behind: nothing when
   the stack does not plan or a port conflicts, else pins and generated secrets. *)
SecretsOf(stack, defs) ==
    UNION {{stack[i].name} \X Find(defs, stack[i].type).secrets : i \in DOMAIN stack}
Provisioned(stack, defs) ==
    \/ /\ Plans(stack, defs)
       /\ pins' = pins \cup Names(stack)
       /\ stored' = stored \cup SecretsOf(stack, defs)
    \/ UNCHANGED <<pins, stored>>

(* Remove drops the pin, with the volumes also the secrets, and renders what is
   left with the catalog as it is then. *)
Provision ==
    /\ op.pc = "provision"
    /\ IF op.kind # "remove" THEN Provisioned(op.stack, Catalogs[op.dir])
       ELSE \E volumes \in BOOLEAN :
              /\ pins' = (IF Plans(op.stack, Definitions) THEN pins \cup Names(op.stack) ELSE pins)
                           \ {op.entry.name}
              /\ stored' = (IF volumes THEN {s \in stored : s[1] # op.entry.name} ELSE stored)
                             \cup IF Plans(op.stack, Definitions) THEN SecretsOf(op.stack, Definitions) ELSE {}
    /\ op' = NoOp
    /\ UNCHANGED <<exists, file, renames, overrides, busy, linked, preview, linking, ops, edits>>

-----------------------------------------------------------------------------
(* Import                                                                  *)

Preview(compose) ==
    /\ ~exists /\ ops < MaxOps /\ Parses(compose)
    /\ preview' = [items |-> MapCompose(compose, Definitions, OtherPorts, busy),
                   dir |-> overrides, busy |-> busy]
    /\ ops' = ops + 1
    /\ UNCHANGED <<exists, file, renames, overrides, busy, pins, stored, linked, op, linking, edits>>

Toggle(i) ==
    /\ preview.items[i].supported
    /\ preview' = [preview EXCEPT !.items[i].include = ~@]
    /\ UNCHANGED <<exists, file, renames, overrides, busy, pins, stored, linked, op, linking, ops, edits>>

Import ==
    LET items == Included(preview.items)
    IN  /\ ~exists /\ preview.items # <<>>
        /\ ItemsAccepted(items, Definitions) /\ PortsAccepted(items, OtherPorts, busy)
        /\ Plans(StackOf(items), Definitions)
        /\ exists' = TRUE /\ file' = StackOf(items)
        /\ stored' = stored \cup UNION {{items[i].name} \X items[i].secrets : i \in DOMAIN items}
        /\ preview' = NoPreview
        /\ UNCHANGED <<renames, overrides, busy, pins, linked, op, linking, ops, edits>>

-----------------------------------------------------------------------------
(* The linked env file                                                     *)

At(lines, kind) == {i \in DOMAIN lines : lines[i].kind = kind}
Balanced(lines) ==
    /\ Cardinality(At(lines, "start")) = 1 /\ Cardinality(At(lines, "end")) = 1
    /\ First(At(lines, "start")) < First(At(lines, "end"))

(* writeMarkerBlock: a block in the place of the old one, or at the end. *)
WriteBlock(lines, block) ==
    IF At(lines, "start") = {} THEN lines \o block
    ELSE SubSeq(lines, 1, First(At(lines, "start")) - 1) \o block
           \o SubSeq(lines, First(At(lines, "end")) + 1, Len(lines))

Variables(stack, env) == FlattenSeq([i \in DOMAIN stack |-> env.of[stack[i].name]])
Block(names) ==
    <<[kind |-> "start", name |-> <<>>]>> \o [i \in DOMAIN names |-> [kind |-> "variable", name |-> names[i]]]
      \o <<[kind |-> "end", name |-> <<>>]>>

(* linkEnv: refused before the first start, when names clash, on odd markers.  The block goes
   into the text read here; the write may fail. *)
Link ==
    LET env == DeriveEnv(file, Definitions, renames)
    IN  /\ linking = NoOp /\ exists /\ Resolves(file, Definitions, pins, stored)
        /\ env.ok
        /\ Balanced(linked) \/ At(linked, "start") \cup At(linked, "end") = {}
        /\ linking' = [pc |-> "write", read |-> linked, owned |-> env.owned,
                       lines |-> WriteBlock(linked, Block(Variables(file, env)))]
        /\ UNCHANGED <<exists, file, renames, overrides, busy, pins, stored, linked, preview, op, ops, edits>>

WriteLinked ==
    /\ linking.pc = "write" /\ linking' = NoOp
    /\ linked' \in {linking.lines, linked}
    /\ UNCHANGED <<exists, file, renames, overrides, busy, pins, stored, preview, op, ops, edits>>

-----------------------------------------------------------------------------
(* The user                                                                *)

EditFile(stack) ==
    /\ exists /\ edits < MaxEdits /\ file' = stack /\ edits' = edits + 1
    /\ UNCHANGED <<exists, renames, overrides, busy, pins, stored, linked, preview, op, linking, ops>>

EditLinked(lines) ==
    /\ exists /\ edits < MaxEdits /\ linked' = lines /\ edits' = edits + 1
    /\ UNCHANGED <<exists, file, renames, overrides, busy, pins, stored, preview, op, linking, ops>>

EditNames(names) ==
    /\ exists /\ edits < MaxEdits /\ renames' = names /\ edits' = edits + 1
    /\ UNCHANGED <<exists, file, overrides, busy, pins, stored, linked, preview, op, linking, ops>>

EditOverrides(dir) ==
    /\ edits < MaxEdits /\ overrides' = dir /\ edits' = edits + 1
    /\ UNCHANGED <<exists, file, renames, busy, pins, stored, linked, preview, op, linking, ops>>

PortsMove(ports) ==
    /\ ~exists /\ edits < MaxEdits /\ busy' = ports /\ edits' = edits + 1
    /\ UNCHANGED <<exists, file, renames, overrides, pins, stored, linked, preview, op, linking, ops>>

Next ==
    \/ \E r \in Requests : BeginAdd(r)
    \/ \E n \in Names(file), p \in Patches : BeginUpdate(n, p)
    \/ \E n \in Names(file) : BeginRemove(n)
    \/ ReadFile \/ WriteFile \/ Provision
    \/ \E c \in ComposeFiles : Preview(c)
    \/ \E i \in DOMAIN preview.items : Toggle(i)
    \/ Import \/ Link \/ WriteLinked
    \/ \E stack \in HandWritten : EditFile(stack)
    \/ \E lines \in LinkedFiles : EditLinked(lines)
    \/ \E names \in Renamings : EditNames(names)
    \/ \E dir \in OverrideDirs : EditOverrides(dir)
    \/ \E ports \in BusySets : PortsMove(ports)

Spec == Init /\ [][Next]_vars

-----------------------------------------------------------------------------
(* Properties                                                              *)

(* Services that wait for each other: each needs one of the others. *)
Circle(stack, needs, S) ==
    S # {} /\ \A i \in DOMAIN stack : stack[i].name \in S => needs[i] \cap S # {}

(* A stack plans exactly when its types are known, its dependencies bound and
   no services wait for each other.  The order then holds every service
   once, after what it needs, and leaves the order of the file only where a
   service had to wait (planStack). *)
OrderSound ==
    Bindable(file, Definitions) =>
      \E needs \in {Needs(file, Definitions)} :
      LET order == PlanOrder(file, Definitions)
          place == [n \in ToSet(order) |-> First({k \in DOMAIN order : order[k] = n})]
          plans == Plans(file, Definitions)
      IN  /\ plans <=> \A S \in SUBSET Names(file) : ~Circle(file, needs, S)
          /\ plans =>
               /\ ToSet(order) = Names(file)
               /\ \A i \in DOMAIN file : \A n \in needs[i] : place[n] < place[file[i].name]
               /\ \A i, j \in DOMAIN file :
                    i < j /\ place[file[j].name] < place[file[i].name] =>
                      \E n \in needs[i] : place[n] >= place[file[j].name]

(* What the validator accepts renders: with definitions that passed it, and
   whose references to other definitions hold, no template of a service in a
   stack that plans lacks a value, neither in what resolving renders nor in
   the commands rendered later from what a resolved service kept. *)
RenderSound ==
    ReferencesKnown(Definitions) /\ Plans(file, Definitions) =>
      \A i \in DOMAIN file :
        /\ "template" \notin Faults(file, Definitions, file[i], pins, stored)
        /\ RendersLater(file, Definitions, file[i])

(* The order is sound, and what is planned from accepted definitions renders
   (planStack, checkDefinitionConsistency, resolveStack). *)
PlansSound == OrderSound /\ RenderSound

Written == op.pc = "write" /\ op'.pc = "provision"
SameEntry(stack, next, n) ==
    (n \in Names(stack) <=> n \in Names(next)) /\ (n \in Names(stack) => Entry(stack, n) = Entry(next, n))

(* An operation writes the file it read last with its own entry changed and nothing else: what was
   saved since it checked its input survives, unless it was saved between that read and the write.
   On a file that did not change, what planned still plans, every dependency that was bound stays
   bound to the same instance, and the entry's config is one the resolver takes. *)
EntriesKept ==
    [][Written =>
         /\ \A n \in Names(op.read) \cup Names(file') : n = op.entry.name \/ SameEntry(op.read, file', n)
         /\ op.read = op.stack =>
              /\ Plans(op.read, Catalogs[op.dir]) => Plans(file', Catalogs[op.dir])
              /\ \A i \in DOMAIN op.read :
                   op.read[i].name \in Names(file') /\ Known(Catalogs[op.dir], op.read[i].type) =>
                     \A dep \in ToSet(Find(Catalogs[op.dir], op.read[i].type).dependsOn) :
                       Bound(op.read, op.read[i], dep) \in {NoInstance, Bound(file', op.read[i], dep)}
              /\ op.kind = "add" =>
                   "config" \notin Faults(file', Catalogs[op.dir], op.entry, pins, stored)]_vars

(* Adding a service never renames a variable an application already reads; and linking leaves
   every line of the user outside the block as it read it and one block with the variables of the
   stack; only a line saved between its read and its write is lost. *)
NamesKept ==
    [][/\ Written /\ op.kind = "add" /\ op.read = op.stack /\ Plans(op.read, Catalogs[op.dir]) =>
            \A n \in Names(op.read) :
              DeriveEnv(file', Catalogs[op.dir], renames').of[n] = DeriveEnv(op.read, Catalogs[op.dir], op.names).of[n]
       /\ linking.pc = "write" /\ linking' = NoOp /\ linked' # linked =>
            /\ SelectSeq(linked', LAMBDA l : l.kind = "user") = SelectSeq(linking.read, LAMBDA l : l.kind = "user")
            /\ Balanced(linked')
            /\ {linked'[i].name : i \in At(linked', "variable")} = linking.owned]_vars

(* An edit reaches its own entry and its own variables only, and overwrites no save but one made
   between its last read and its write (addService, updateService, linkEnv). *)
EditsHarmless == EntriesKept /\ NamesKept

(* Whatever the user leaves checked of a preview, the import accepts it while
   catalog and machine stay as they were: names and ports are distinct and free, versions and
   settings known. *)
PreviewImportable ==
    /\ preview.dir = overrides /\ preview.busy = busy
    /\ Included(preview.items) # <<>>
    => ItemsAccepted(Included(preview.items), Definitions)
         /\ PortsAccepted(Included(preview.items), OtherPorts, busy)
=============================================================================
