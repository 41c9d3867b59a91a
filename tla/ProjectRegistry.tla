-------------------------- MODULE ProjectRegistry --------------------------
(***************************************************************************)
(* Who owns a project name.  The registry (the `projects` table) binds a   *)
(* name to a folder; the name keys the compose project, its volumes, its   *)
(* secrets and its pinned ports, so two folders must not use one name.     *)
(* Callers are operations in flight, in the dashboard server or in CLI     *)
(* processes: up, down, register, create, unregister                       *)
(* (project-registry.ts, load-project.op.ts, up-stack.op.ts,               *)
(* down-stack.op.ts, create-, register- and unregister-project.op.ts).     *)
(*                                                                         *)
(* An action is the code between two awaits: one read of the database or   *)
(* of a file, or one transaction of SqliteStateStore.update.  Users edit   *)
(* the stack files at any time.                                            *)
(***************************************************************************)
EXTENDS Integers, Sequences, FiniteSets

CONSTANTS
    Callers,
    Roots,      \* project folders
    NoRoot,
    Names,      \* project names, as sequences of words
    Services,   \* service names, as sequences of words
    Texts,      \* contents a stack file may be given by its user
    MaxCalls,   \* bound: operations started
    MaxEdits    \* bound: edits of stack files

(* What loadStack makes of a stack file: not found, INVALID_STACK, or a stack. *)
Stack(n, S) == [kind |-> "stack", name |-> n, services |-> S]
Missing == [kind |-> "missing", name |-> << >>, services |-> {}]
Invalid == [kind |-> "invalid", name |-> << >>, services |-> {}]
Stacks == {Stack(n, S) : n \in Names, S \in SUBSET Services}
Contents == Stacks \cup {Missing, Invalid}

ASSUME RegistryAssumption ==
    /\ NoRoot \notin Roots
    /\ Texts \subseteq Contents
    /\ << >> \notin Names
    /\ MaxCalls \in Nat
    /\ MaxEdits \in Nat

VARIABLES
    file,       \* the stack file of each folder
    projects,   \* StateFile.projects
    data,       \* the folder whose `up` created a project's volumes
    call,       \* the operation each caller is in
    keeping,    \* history: folders that kept a claim on the call's name since it began
    holding,    \* history: those of them that were registered under it as well
    calls,
    edits

history == <<keeping, holding>>
vars == <<file, projects, data, call, keeping, holding, calls, edits>>

(* isStaleClaim: the folder has no stack file, or one with another name. *)
StaleClaim(r, n) == file[r] = Missing \/ (file[r].kind = "stack" /\ file[r].name # n)

Registered(r, n) == [name |-> n, root |-> r] \in projects
Owner(n) == IF \E r \in Roots : Registered(r, n)
            THEN CHOOSE r \in Roots : Registered(r, n)
            ELSE NoRoot

(* ls-<project>-<service>: the words of both, whoever they belong to. *)
ContainerName(n, s) == n \o s
Clash(name, services, n, S) ==
    \E s \in services, t \in S : ContainerName(name, s) = ContainerName(n, t)

Ops == {"up", "down", "register", "create", "unregister"}
Idle == [op |-> "none", pc |-> "idle", root |-> NoRoot, name |-> << >>,
         services |-> {}, stale |-> NoRoot, todo |-> {}]
Entries == [name : Names, root : Roots]
Calls == [op : Ops \cup {"none"},
          pc : {"idle", "find", "load", "free", "vacant", "owner", "stale", "others",
                "files", "write", "save", "rollback", "compose"},
          root : Roots \cup {NoRoot}, name : Names \cup {<< >>},
          services : SUBSET Services, stale : Roots \cup {NoRoot},
          todo : SUBSET Entries]

Init ==
    /\ file \in [Roots -> Texts]
    /\ projects = {}
    /\ data = [n \in Names |-> NoRoot]
    /\ call = [c \in Callers |-> Idle]
    /\ keeping = [c \in Callers |-> {}]
    /\ holding = [c \in Callers |-> {}]
    /\ calls = 0
    /\ edits = 0

-----------------------------------------------------------------------------
(* Steps of a call *)

Goto(c, pc) == call' = [call EXCEPT ![c].pc = pc]
Return(c) == call' = [call EXCEPT ![c] = Idle]
Stays == UNCHANGED <<file, projects, data, calls, edits>>

(* The CLI names a folder, the dashboard a registered project. *)
Begin(c) ==
    /\ call[c].pc = "idle"
    /\ calls < MaxCalls
    /\ calls' = calls + 1
    /\ \E o \in Ops, n \in Names :
         \/ /\ o \in {"up", "down"}
            /\ \E r \in Roots : call' = [call EXCEPT ![c] =
                 [Idle EXCEPT !.op = o, !.pc = "load", !.root = r]]
         \/ /\ o \in {"up", "down"}
            /\ call' = [call EXCEPT ![c] = [Idle EXCEPT !.op = o, !.pc = "find", !.name = n]]
         \/ /\ o \in {"register", "create"}
            /\ \E r \in Roots : call' = [call EXCEPT ![c] =
                 [Idle EXCEPT !.op = o, !.root = r, !.name = n,
                              !.pc = IF o = "create" THEN "free" ELSE "load"]]
         \/ /\ o = "unregister"
            /\ call' = [call EXCEPT ![c] = [Idle EXCEPT !.op = o, !.pc = "write", !.name = n]]
    /\ UNCHANGED <<file, projects, data, edits>>

(* loadProject: the registered folder of the name. *)
FindProject(c) ==
    /\ call[c].pc = "find"
    /\ IF Owner(call[c].name) = NoRoot
       THEN Return(c)
       ELSE call' = [call EXCEPT ![c].pc = "load", ![c].root = Owner(call[c].name)]
    /\ Stays

(* loadStack; a dashboard call and a registration expect a name. *)
LoadStack(c) ==
    LET f == file[call[c].root] IN
    /\ call[c].pc = "load"
    /\ IF f.kind = "stack" /\ call[c].name \in {<< >>, f.name}
       THEN call' = [call EXCEPT ![c] =
              [@ EXCEPT !.pc = "owner", !.name = f.name, !.services = f.services]]
       ELSE Return(c)
    /\ Stays

(* createProject: the name must be free, then the folder must hold no file. *)
NameFree(c) ==
    /\ call[c].pc = "free"
    /\ IF Owner(call[c].name) = NoRoot
       THEN Goto(c, "vacant")
       ELSE Return(c)
    /\ Stays

FolderVacant(c) ==
    /\ call[c].pc = "vacant"
    /\ IF file[call[c].root] = Missing
       THEN Goto(c, "owner")
       ELSE Return(c)
    /\ Stays

(* Where an operation goes once its folder may use the name. *)
Granted(c) ==
    IF call[c].op = "register" THEN Return(c)
    ELSE Goto(c, IF call[c].op = "create" THEN "save" ELSE "compose")

(* findContainerNameClash does not look further without services. *)
CheckOthers(c, stale) ==
    call' = [call EXCEPT ![c].stale = stale,
                         ![c].pc = IF call[c].services = {} THEN "write" ELSE "others"]

(* Faulty: `down` is not refused for the sake of another owner. *)
ReadOwnerForUp(c) ==
    LET owner == Owner(call[c].name) IN
    /\ call[c].pc = "owner"
    /\ \/ (owner = call[c].root \/ call[c].op = "down") /\ Granted(c)
       \/ owner = NoRoot /\ call[c].op # "down" /\ CheckOthers(c, NoRoot)
       \/ /\ owner \notin {NoRoot, call[c].root} /\ call[c].op # "down"
          /\ call' = [call EXCEPT ![c].pc = "stale", ![c].stale = owner]
    /\ Stays

(* claimProjectName and checkProjectOwner read the registry. *)
ReadOwner(c) ==
    LET owner == Owner(call[c].name) IN
    /\ call[c].pc = "owner"
    /\ \/ owner = call[c].root /\ Granted(c)
       \/ owner = NoRoot /\ call[c].op = "down" /\ Granted(c)
       \/ owner = NoRoot /\ call[c].op # "down" /\ CheckOthers(c, NoRoot)
       \/ /\ owner \notin {NoRoot, call[c].root}
          /\ call' = [call EXCEPT ![c].pc = "stale", ![c].stale = owner]
    /\ Stays

CheckStale(c) ==
    /\ call[c].pc = "stale"
    /\ IF StaleClaim(call[c].stale, call[c].name)
       THEN IF call[c].op = "down" THEN Granted(c) ELSE CheckOthers(c, call[c].stale)
       ELSE Return(c)
    /\ Stays

(* findContainerNameClash: the other projects, then their files one by one. *)
ReadOthers(c) ==
    /\ call[c].pc = "others"
    /\ call' = [call EXCEPT ![c].todo = {e \in projects : /\ e.name # call[c].name
                                                          /\ e.root # call[c].root},
                            ![c].pc = "files"]
    /\ Stays

ReadOther(c) ==
    /\ call[c].pc = "files"
    /\ \E e \in call[c].todo :
         LET f == file[e.root] IN
         IF f.kind = "stack" /\ Clash(call[c].name, call[c].services, e.name, f.services)
         THEN Return(c)
         ELSE call' = [call EXCEPT ![c].todo = @ \ {e}]
    /\ Stays

NoClash(c) ==
    /\ call[c].pc = "files"
    /\ call[c].todo = {}
    /\ Goto(c, "write")
    /\ Stays

(* Faulty: the update trusts the owner read before it. *)
WriteUnchecked(c) ==
    LET name == call[c].name
        root == call[c].root
    IN
    /\ call[c].pc = "write"
    /\ call[c].op # "unregister"
    /\ projects' = {e \in projects : e.name # name /\ e.root # root}
                     \cup {[name |-> name, root |-> root]}
    /\ Granted(c)
    /\ UNCHANGED <<file, data, calls, edits>>

(* The update of claimProjectName looks at the name's owner again. *)
WriteClaim(c) ==
    LET name == call[c].name
        root == call[c].root
        current == Owner(name)
    IN
    /\ call[c].pc = "write"
    /\ call[c].op # "unregister"
    /\ \/ current = root /\ Granted(c) /\ UNCHANGED projects
       \/ current \notin {NoRoot, root, call[c].stale} /\ Return(c) /\ UNCHANGED projects
       \/ /\ current # root
          /\ current \in {NoRoot, call[c].stale}
          /\ projects' = {e \in projects : e.name # name /\ e.root # root}
                           \cup {[name |-> name, root |-> root]}
          /\ Granted(c)
    /\ UNCHANGED <<file, data, calls, edits>>

DropName(n) == projects' = {e \in projects : e.name # n}

Unregister(c) ==
    /\ call[c].pc = "write"
    /\ call[c].op = "unregister"
    /\ DropName(call[c].name)
    /\ Return(c)
    /\ UNCHANGED <<file, data, calls, edits>>

(* createProject writes the new file, over whatever is there by now. *)
SaveFile(c) ==
    /\ call[c].pc = "save"
    /\ \/ /\ file' = [file EXCEPT ![call[c].root] = Stack(call[c].name, {})]
          /\ Return(c)
       \/ Goto(c, "rollback") /\ UNCHANGED file
    /\ UNCHANGED <<projects, data, calls, edits>>

(* A failed write drops the name from the registry; that may fail as well. *)
Rollback(c) ==
    /\ call[c].pc = "rollback"
    /\ DropName(call[c].name) \/ UNCHANGED projects
    /\ Return(c)
    /\ UNCHANGED <<file, data, calls, edits>>

(* compose up creates the volumes of the project unless they exist. *)
ComposeUp(c) ==
    /\ call[c].pc = "compose"
    /\ call[c].op = "up"
    /\ data' = [data EXCEPT ![call[c].name] = IF @ = NoRoot THEN call[c].root ELSE @]
    /\ Return(c)
    /\ UNCHANGED <<file, projects, calls, edits>>

(* compose down, with or without --volumes. *)
ComposeDown(c) ==
    /\ call[c].pc = "compose"
    /\ call[c].op = "down"
    /\ data' = [data EXCEPT ![call[c].name] = NoRoot] \/ UNCHANGED data
    /\ Return(c)
    /\ UNCHANGED <<file, projects, calls, edits>>

(* A read, a write or an earlier step of the operation fails: IO and the like. *)
Fail(c) ==
    /\ call[c].pc \notin {"idle", "rollback", "save"}
    /\ Return(c)
    /\ Stays

EditFile ==
    /\ edits < MaxEdits
    /\ edits' = edits + 1
    /\ \E r \in Roots, t \in Texts : t # file[r] /\ file' = [file EXCEPT ![r] = t]
    /\ UNCHANGED <<projects, data, call, calls>>

-----------------------------------------------------------------------------
(* History: what has been so at every moment since the call knew its name.  A
   file that cannot be read keeps its folder's claim. *)

Declaring(c) == {r \in Roots : \/ file[r].kind = "invalid"
                               \/ file[r].kind = "stack" /\ file[r].name = call[c].name}
Owning(c) == {r \in Roots : Registered(r, call[c].name)}

Track(c, past) == IF call'[c].name = call[c].name THEN past[c] ELSE Roots
Remember ==
    /\ keeping' = [c \in Callers |-> Track(c, keeping) \cap Declaring(c)']
    /\ holding' = [c \in Callers |-> Track(c, holding) \cap Declaring(c)' \cap Owning(c)']

Claim(c) == ReadOwner(c) \/ CheckStale(c) \/ ReadOthers(c) \/ ReadOther(c)
            \/ NoClash(c) \/ WriteClaim(c)
Step(c) ==
    \/ Begin(c) \/ FindProject(c) \/ LoadStack(c) \/ NameFree(c) \/ FolderVacant(c)
    \/ Claim(c) \/ Unregister(c) \/ SaveFile(c) \/ Rollback(c)
    \/ ComposeUp(c) \/ ComposeDown(c) \/ Fail(c)

Next == ((\E c \in Callers : Step(c)) \/ EditFile) /\ Remember

Spec == Init /\ [][Next]_vars

-----------------------------------------------------------------------------
(* Properties *)

(* A call knows its folder and its name from a step on. *)
Placed(rec) ==
    /\ \/ rec.pc \in {"idle", "find"}
       \/ rec.pc = "write" /\ rec.op = "unregister"
       \/ rec.root \in Roots
    /\ rec.pc \in {"idle", "load"} \/ rec.name \in Names

TypeOK ==
    /\ file \in [Roots -> Contents]
    /\ projects \subseteq Entries
    /\ data \in [Names -> Roots \cup {NoRoot}]
    /\ call \in [Callers -> Calls]
    /\ \A c \in Callers : Placed(call[c])
    /\ keeping \in [Callers -> SUBSET Roots]
    /\ holding \in [Callers -> SUBSET Roots]
    /\ calls \in 0..MaxCalls
    /\ edits \in 0..MaxEdits

(* The registry binds a name to one folder and a folder to one name, whatever
   claims, takeovers, renames, removals and rollbacks interleave. *)
OneFolderPerName ==
    \A e, f \in projects : (e.name = f.name) <=> (e.root = f.root)

(* No operation touches the compose project of a name that another folder has
   been holding, registered and declared in its file, ever since the operation
   knew the name: neither compose up nor `compose down --volumes` is reached. *)
HolderUntouched ==
    \A c \in Callers : call[c].pc = "compose" => holding[c] \subseteq {call[c].root}

(* A name has one folder, and only that folder's operations reach what runs
   under the name while it holds it (claimProjectName, checkProjectOwner). *)
NamesHeld == OneFolderPerName /\ HolderUntouched

(* A claim takes a name from its owner only if the owner's file stopped
   declaring the name at some moment of the claim: an owner that appears between
   the claim's checks and its write keeps the name. *)
TakeoverJustified ==
    [][\A c \in Callers : \A r \in keeping[c] :
         call[c].pc = "write" /\ call[c].op # "unregister" /\ Registered(r, call[c].name)
             /\ call'[c] # call[c]
           => [name |-> call[c].name, root |-> r] \in projects']_vars

(* down-stack.op.ts:13-14 says that `down --volumes` can never delete another
   project's data: the volumes of a name are deleted by the folder that created
   them, or after that folder stopped declaring the name. *)
DownSparesData ==
    [][\A n \in Names : data[n] # NoRoot /\ data'[n] = NoRoot =>
         \A c \in Callers : call[c].pc = "compose" /\ call[c].name = n /\ call'[c] # call[c]
           => call[c].root = data[n] \/ data[n] \notin keeping[c]]_vars
=============================================================================
