---------------------------- MODULE ImportDialog ----------------------------
(***************************************************************************)
(* The other form that brings services in: the two steps of "Import        *)
(* docker-compose.yml" (import-dialog.tsx).  A file is read and sent for a *)
(* preview; its review is edited and sent as the import, which the server  *)
(* checks (import.service.ts) and runs as an operation; the dialog closes  *)
(* and the new project opens once its file is written (import.api.ts).     *)
(* Neither request is cancelled when the dialog is closed, steps back or   *)
(* shows another file.  What a compose file maps to is in ComposeImport.   *)
(***************************************************************************)
EXTENDS ConfigForm

CONSTANTS
  Composes,       \* texts: [size, valid, key, name, items]; key is file name and suggested name
  NoCompose,
  GoodProjects,   \* names the pattern accepts
  TypedProjects, TypedRoots,   \* what the user may type; "" lets the dialog suggest a folder
  AbsoluteRoots,  \* the form takes them
  RefusedRoots,   \* the server does not: hidden folders, the home folder, a file
  MaxOpens,       \* bound: times a step of the dialog is shown
  MaxChanges,     \* bound: edits of a review
  MaxReads,       \* bound: files picked
  MaxImports      \* bound: imports sent

VARIABLES
  dialog,     \* the dialog and the step it shows; shows numbers the steps shown so far
  review,     \* the form of the second step
  reads,      \* previews on their way
  choosing,   \* the steps that wait for the folder picker
  imports,    \* imports sent
  registry,   \* registered projects and their folders
  stacks,     \* the stack files: folder -> [name, services]
  known,      \* project names the page knows
  at,         \* the page shown
  changes, picks

importVars == <<dialog, review, reads, choosing, imports, registry, stacks, known, at, changes, picks>>

NoReview == [key |-> NoCompose.key, compose |-> NoCompose, name |-> "", root |-> "", kept |-> {},
             faults |-> {}, server |-> FALSE, failed |-> FALSE, sending |-> FALSE]
Supported(c) == {i \in DOMAIN c.items : c.items[i].supported}
Registered == DOMAIN registry

(* validateImportName, validateProjectRoot                                 *)
NameFaults(n) == IF n \in GoodProjects \ known THEN {} ELSE {"name"}
RootFaults(r) == IF r = "" \/ r \in AbsoluteRoots THEN {} ELSE {"root"}

Fresh(c) ==
  [NoReview EXCEPT !.key = c.key, !.compose = c, !.name = c.name, !.kept = Supported(c), !.faults = NameFaults(c.name)]

InitImport ==
  /\ dialog = [open |-> FALSE, parsed |-> NoCompose, shows |-> 0, reading |-> FALSE, failed |-> FALSE]
  /\ review = NoReview /\ reads = {} /\ choosing = {} /\ imports = <<>>
  /\ \E n \in {{}, {"shop"}} : registry = [x \in n |-> x] /\ stacks = [x \in n |-> [name |-> x, services |-> {}]]
  /\ known = Registered /\ at = "projects" /\ changes = 0 /\ picks = 0

Reviewing == dialog.open /\ dialog.parsed # NoCompose
Picking == dialog.open /\ dialog.parsed = NoCompose
Step(d) == [d EXCEPT !.shows = @ + 1, !.reading = FALSE, !.failed = FALSE]
Server_ == <<imports, registry, stacks, known, at>>

-----------------------------------------------------------------------------
(* The dialog                                                              *)

(* What was parsed while the dialog was closed is shown when it opens.     *)
OpenImport ==
  /\ ~dialog.open /\ at = "projects" /\ dialog.shows < MaxOpens
  /\ dialog' = Step([dialog EXCEPT !.open = TRUE])
  /\ review' = IF dialog.parsed = NoCompose THEN NoReview ELSE Fresh(dialog.parsed)
  /\ UNCHANGED <<reads, choosing, Server_, changes, picks>>

Closed == [dialog EXCEPT !.open = FALSE, !.parsed = NoCompose, !.reading = FALSE, !.failed = FALSE]
CancelImport ==
  /\ dialog.open /\ dialog' = Closed /\ review' = NoReview
  /\ UNCHANGED <<reads, choosing, Server_, changes, picks>>

StepBack ==
  /\ Reviewing /\ dialog.shows < MaxOpens
  /\ dialog' = Step([dialog EXCEPT !.parsed = NoCompose]) /\ review' = NoReview
  /\ UNCHANGED <<reads, choosing, Server_, changes, picks>>

(* A file is dropped, also while another one is read, chosen or pasted.    *)
PickCompose(c) ==
  /\ Picking /\ picks < MaxReads /\ picks' = picks + 1
  /\ IF c.size # "fits"
     THEN dialog' = [dialog EXCEPT !.failed = TRUE] /\ UNCHANGED reads
     ELSE /\ dialog' = [dialog EXCEPT !.reading = TRUE, !.failed = FALSE]
          /\ reads' = reads \cup {[compose |-> c, step |-> dialog.shows]}
  /\ UNCHANGED <<review, choosing, Server_, changes>>

(* A preview is shown wherever the dialog is by then.  The form of another *)
(* key starts afresh; in one of the same key the form library takes the    *)
(* new items or keeps the ones there are.                                  *)
Shown_(c) ==
  CASE ~dialog.open -> {NoReview}
    [] dialog.open /\ review.key = c.key ->
           {[Fresh(c) EXCEPT !.sending = review.sending, !.server = review.server, !.failed = review.failed], review}
    [] OTHER -> {Fresh(c)}

PreviewArrives(r) ==
  /\ r \in reads /\ reads' = reads \ {r} /\ r.compose.valid
  /\ dialog' = IF dialog.open /\ review.key # r.compose.key THEN Step([dialog EXCEPT !.parsed = r.compose])
               ELSE [dialog EXCEPT !.parsed = r.compose]
  /\ review' \in Shown_(r.compose)
  /\ UNCHANGED <<choosing, Server_, changes, picks>>

(* A refusal, or no answer, reaches only the step that asked.              *)
PreviewFails(r) ==
  /\ r \in reads /\ reads' = reads \ {r}
  /\ dialog' = IF Picking /\ dialog.shows = r.step THEN [dialog EXCEPT !.reading = FALSE, !.failed = TRUE] ELSE dialog
  /\ UNCHANGED <<review, choosing, Server_, changes, picks>>

-----------------------------------------------------------------------------
(* The review                                                              *)

MayChange == changes < MaxChanges /\ changes' = changes + 1
Changes_(new) ==
  /\ Reviewing /\ MayChange
  /\ review' = new
  /\ UNCHANGED <<dialog, reads, choosing, Server_, picks>>

TypeProject(n) ==
  Changes_([review EXCEPT !.name = n, !.faults = (@ \ {"name"}) \cup NameFaults(n), !.server = FALSE])
TypeRoot(r) == Changes_([review EXCEPT !.root = r, !.faults = (@ \ {"root"}) \cup RootFaults(r)])
ToggleItem(i) ==
  /\ i \in Supported(review.compose)
  /\ Changes_([review EXCEPT !.kept = IF i \in @ THEN @ \ {i} ELSE @ \cup {i}])

(* The system's folder picker answers when it likes, to the step that asked. *)
ChooseFolder ==
  /\ Reviewing /\ dialog.shows \notin choosing /\ MayChange
  /\ choosing' = choosing \cup {dialog.shows}
  /\ UNCHANGED <<dialog, review, reads, Server_, picks>>
FolderChosen(s, r) ==
  /\ s \in choosing /\ choosing' = choosing \ {s}
  /\ review' = IF Reviewing /\ dialog.shows = s
               THEN [review EXCEPT !.root = r, !.faults = (@ \ {"root"}) \cup RootFaults(r)] ELSE review
  /\ UNCHANGED <<dialog, reads, Server_, changes, picks>>

(* suggestedRoot: a folder named like the project.                         *)
RootOf(name, typed) == IF typed = "" THEN name ELSE typed

PressImport ==
  /\ Reviewing /\ ~review.sending /\ Len(imports) < MaxImports
  /\ review.faults = {} /\ ~review.server
  /\ LET now == NameFaults(review.name) \cup RootFaults(review.root)
     IN  IF now # {} THEN review' = [review EXCEPT !.faults = now] /\ UNCHANGED imports
         ELSE IF review.kept = {} THEN review' = [review EXCEPT !.failed = FALSE] /\ UNCHANGED imports
         ELSE /\ review' = [review EXCEPT !.failed = FALSE, !.sending = TRUE]
              /\ imports' = Append(imports, [name |-> review.name, root |-> RootOf(review.name, review.root),
                                             services |-> {review.compose.items[i].name : i \in review.kept},
                                             step |-> dialog.shows, state |-> "sent", page |-> "waits"])
  /\ UNCHANGED <<dialog, reads, choosing, registry, stacks, known, at, changes, picks>>

-----------------------------------------------------------------------------
(* The server                                                              *)

Claimed(name, root) == Assign([n \in {m \in Registered : registry[m] # root} |-> registry[n]], name, root)
Exists(i) == imports[i].name \in Registered \/ imports[i].root \in DOMAIN stacks

(* ImportService.import: the folder, the name, the file in the folder.     *)
CheckImport(i) ==
  /\ imports[i].state = "sent"
  /\ imports' = [imports EXCEPT ![i].state =
                   IF imports[i].root \in RefusedRoots THEN "invalid" ELSE IF Exists(i) THEN "exists" ELSE "queued"]
  /\ UNCHANGED <<dialog, review, reads, choosing, registry, stacks, known, at, changes, picks>>

(* importProject, in the lane of its name; a project is created outside it. *)
(* It checks again, claims the name and the folder, where an older claim   *)
(* of the folder goes and a claim of both is its own, and writes the file; *)
(* any step may fail, and then the claim is taken back.                    *)
PlanImport(i) ==
  /\ imports[i].state = "queued"
  /\ \A j \in DOMAIN imports : j # i /\ imports[j].name = imports[i].name =>
        imports[j].state \notin {"planned", "writing"} /\ (j < i => imports[j].state # "queued")
  /\ imports' = [imports EXCEPT ![i].state = IF Exists(i) THEN "over" ELSE "planned"]
  /\ UNCHANGED <<dialog, review, reads, choosing, registry, stacks, known, at, changes, picks>>
RegisterImport(i) ==
  /\ imports[i].state = "planned"
  /\ \/ imports' = [imports EXCEPT ![i].state = "over"] /\ UNCHANGED registry
     \/ /\ imports[i].name \in Registered => registry[imports[i].name] = imports[i].root
        /\ imports' = [imports EXCEPT ![i].state = "writing"]
        /\ registry' = Claimed(imports[i].name, imports[i].root)
  /\ UNCHANGED <<dialog, review, reads, choosing, stacks, known, at, changes, picks>>
WriteImport(i) ==
  /\ imports[i].state = "writing"
  /\ \/ /\ imports' = [imports EXCEPT ![i].state = "written"]
        /\ stacks' = Assign(stacks, imports[i].root, [name |-> imports[i].name, services |-> imports[i].services])
        /\ UNCHANGED registry
     \/ /\ imports' = [imports EXCEPT ![i].state = "over"]
        /\ registry' = [n \in Registered \ {imports[i].name} |-> registry[n]]
        /\ UNCHANGED stacks
  /\ UNCHANGED <<dialog, review, reads, choosing, known, at, changes, picks>>

-----------------------------------------------------------------------------
(* The answers                                                             *)

Asks(i) == Reviewing /\ dialog.shows = imports[i].step

(* Accepted: the dialog closes, whatever it shows by now.                  *)
ImportAccepted(i) ==
  /\ imports[i].page = "waits" /\ imports[i].state \notin {"sent", "exists", "invalid"}
  /\ imports' = [imports EXCEPT ![i].page = "follows"]
  /\ dialog' = Closed /\ review' = NoReview
  /\ UNCHANGED <<reads, choosing, registry, stacks, known, at, changes, picks>>

(* PROJECT_EXISTS, of the name or of the folder, is put on the name; other *)
(* refusals are shown below the form.                                      *)
ImportRefused(i) ==
  /\ imports[i].page = "waits" /\ imports[i].state \in {"exists", "invalid"}
  /\ imports' = [imports EXCEPT ![i].page = "done"]
  /\ review' = CASE ~Asks(i) -> review
                 [] Asks(i) /\ imports[i].state = "exists" -> [review EXCEPT !.server = TRUE, !.sending = FALSE]
                 [] OTHER -> [review EXCEPT !.failed = TRUE, !.sending = FALSE]
  /\ UNCHANGED <<dialog, reads, choosing, registry, stacks, known, at, changes, picks>>

(* No answer, whatever became of the request.                              *)
ImportUnanswered(i) ==
  /\ imports[i].page = "waits" /\ MayChange
  /\ imports' = [imports EXCEPT ![i].page = "done"]
  /\ review' = IF Asks(i) THEN [review EXCEPT !.failed = TRUE, !.sending = FALSE] ELSE review
  /\ UNCHANGED <<dialog, reads, choosing, registry, stacks, known, at, picks>>

(* writtenOrSettled: an event after "Writing", or the end of the operation; *)
(* trackOp gives up after five minutes.                                    *)
Heard(i) == imports[i].state \in {"written", "over"}

(* waitForProject: then one GET, which loads the project and its status.   *)
(* Only a 404 says that there is none; whatever else it fails with is told *)
(* in a toast, and the page stays.                                         *)
FollowImport(i) ==
  /\ imports[i].page = "follows"
  /\ \/ Heard(i) /\ UNCHANGED changes
     \/ ~Heard(i) /\ MayChange
  /\ LET there == imports[i].name \in Registered /\ registry[imports[i].name] \in DOMAIN stacks
     IN  \E next \in {IF there THEN "found" ELSE "missed", "failed"} : imports' = [imports EXCEPT ![i].page = next]
  /\ UNCHANGED <<dialog, review, reads, choosing, registry, stacks, known, at, picks>>

(* The list of projects is asked for again (ProjectsArrive, when it can be *)
(* had), and the project opens, wherever the user is.                      *)
OpenProject(i) ==
  /\ imports[i].page = "found"
  /\ imports' = [imports EXCEPT ![i].page = "opened"]
  /\ at' = imports[i].name /\ dialog' = Closed /\ review' = NoReview
  /\ UNCHANGED <<reads, choosing, registry, stacks, known, changes, picks>>

OtherCreates(n) ==
  /\ MayChange /\ n \notin Registered
  /\ n \notin DOMAIN stacks
  /\ registry' = Claimed(n, n)
  /\ stacks' = Assign(stacks, n, [name |-> n, services |-> {}])
  /\ UNCHANGED <<dialog, review, reads, choosing, imports, known, at, picks>>

ProjectsArrive ==
  /\ known # Registered /\ known' = Registered
  /\ UNCHANGED <<dialog, review, reads, choosing, imports, registry, stacks, at, changes, picks>>

ImportNext ==
  \/ OpenImport \/ CancelImport \/ StepBack
  \/ \E c \in Composes : PickCompose(c)
  \/ \E r \in reads : PreviewArrives(r) \/ PreviewFails(r)
  \/ \E n \in TypedProjects : TypeProject(n)
  \/ \E r \in TypedRoots : TypeRoot(r)
  \/ \E i \in DOMAIN review.compose.items : ToggleItem(i)
  \/ ChooseFolder \/ \E s \in choosing, r \in TypedRoots : FolderChosen(s, r)
  \/ PressImport
  \/ \E i \in DOMAIN imports :
       \/ CheckImport(i) \/ PlanImport(i) \/ RegisterImport(i) \/ WriteImport(i)
       \/ ImportAccepted(i) \/ ImportRefused(i) \/ ImportUnanswered(i)
       \/ FollowImport(i) \/ OpenProject(i)
  \/ \E n \in TypedProjects : OtherCreates(n)
  \/ ProjectsArrive

ImportSpec == InitImport /\ [][ImportNext]_importVars

-----------------------------------------------------------------------------
(* Properties                                                              *)

(* What is reviewed is what the file named above it maps to: its services, *)
(* none that is not supported, whichever preview arrived last.             *)
ReviewTrue ==
  Reviewing => /\ review.key = dialog.parsed.key
               /\ review.kept \subseteq Supported(review.compose)

Becomes(i, next) == imports'[i].page = next /\ imports[i].page # next

(* The page opens a project only after it was found registered and with    *)
(* its file; and once the file of an import is written it is not taken for *)
(* missing, but when another project took the name or the folder meanwhile *)
(* (waitForProject).  It may stay behind when the GET failed, and says so. *)
ImportOpens ==
  [][\A i \in DOMAIN imports :
       /\ Becomes(i, "found") => imports[i].name \in Registered /\ registry[imports[i].name] \in DOMAIN stacks
       /\ Becomes(i, "opened") => imports[i].page = "found" /\ at' = imports[i].name
       /\ Becomes(i, "missed") /\ imports[i].state = "written" =>
            imports[i].name \notin Registered \/ registry[imports[i].name] # imports[i].root]_importVars

(* Both forms: what was shown when the button was pressed is what is       *)
(* written, each shows what would be sent, and an import that was accepted *)
(* and written ends on the page of its project, or the user is told that   *)
(* it could not be confirmed.                                              *)
FormsTrue == AddsAsShown /\ []EditorInStep /\ []ReviewTrue /\ ImportOpens
=============================================================================
