----------------------------- MODULE ConfigForm -----------------------------
(***************************************************************************)
(* The page that configures a new service (config-page.tsx, config-form.ts,*)
(* entry-yaml.ts): a form and a YAML editor that show the same entry, and  *)
(* Add & start, which the server checks (services.service.ts) before an    *)
(* operation checks it again and writes the stack file (add-service.op.ts).*)
(* Meanwhile other tabs add and remove services, ports are taken, and the  *)
(* user types on while the request is on its way.                          *)
(*                                                                         *)
(* A typed port is a number, AnyPort, or Odd for a text that is none; a    *)
(* seed path is the sequence of its segments; an optional field of a YAML  *)
(* text is a set with at most one element.                                 *)
(***************************************************************************)
EXTENDS Naturals, Sequences, FiniteSets, TLC

CONSTANTS
  Shape,         \* the definition: [config, fits, versions, first, volumes, seed, secrets, low, high, port]
  ProjectName,
  DefaultNames,  \* names the page proposes, in order
  GoodNames,     \* names the pattern of the form accepts
  TypedNames, TypedPorts, TypedValues, TypedSeeds, TypedTexts,   \* what the user may type
  MinHostPort, MaxHostPort,
  SeedFiles,     \* files of the project folder
  Others,        \* services other tabs may add: [name, port]
  MaxKeys,       \* bound: edits of the form
  MaxMoves,      \* bound: edits and requests together
  MaxNews        \* bound: what other tabs and programs do, answers lost, the page left

ASSUME FormAssumption == MinHostPort \in Nat /\ MaxHostPort \in Nat

VARIABLES
  entries,  \* the services of the stack file
  taken,    \* ports pinned by other projects or in use on the machine
  rows,     \* the services the page knows, with their host ports
  page,     \* values, errors and drafts of the form
  adding,   \* the request of the page
  jobs,     \* the add operations in the project's lane
  opened,   \* the service whose page was opened
  keys, news \* edits and surprises so far

formVars == <<entries, taken, rows, page, adding, jobs, opened, keys, news>>

AnyPort == 0
Odd == MaxHostPort + 1
NoPort == MaxHostPort + 2
NoDraft == "none"
NoAdding == [phase |-> "none", id |-> 0, field |-> "none", suggested |-> NoPort]
Assign(f, n, x) == [m \in DOMAIN f \cup {n} |-> IF m = n THEN x ELSE f[m]]
RowsOf(stack) == [n \in DOMAIN stack |-> stack[n].port]
Ports(r) == {r[n] : n \in DOMAIN r}
FirstOf(S) == IF S = {} THEN NoPort ELSE CHOOSE p \in S : \A q \in S : p <= q
Given(option, otherwise) == IF option = {} THEN otherwise ELSE CHOOSE x \in option : TRUE

-----------------------------------------------------------------------------
(* Values and their checks                                                 *)

Leading(s) == {i \in 0 .. Len(s) : \A j \in 1 .. i : s[j] = "."}
NormalizeSeedPath(s) ==
  SubSeq(s, 1 + (CHOOSE i \in Leading(s) : \A j \in Leading(s) : j <= i), Len(s))
ValidateSeedPath(s) ==
  LET path == NormalizeSeedPath(s)
  IN  path # <<>> => path[1] \notin {"/", "~"} /\ \A i \in DOMAIN path : path[i] # ".."

ResolveDefault(key, name) ==
  CASE Shape.config[key] = "{{stack.name}}" -> ProjectName
    [] Shape.config[key] = "{{name}}" -> name
    [] OTHER -> Shape.config[key]
NextFreePort(from) ==
  FirstOf({p \in (IF from < MinHostPort THEN MinHostPort ELSE from) .. MaxHostPort : p \notin Ports(rows)})

BuildDefaults(suggested) ==
  LET free == {i \in DOMAIN DefaultNames : DefaultNames[i] \notin DOMAIN rows}
      name == DefaultNames[CHOOSE i \in free : \A j \in free : i <= j]
      next == NextFreePort(Shape.low)
  IN  [name |-> name, version |-> Shape.first,
       port |-> IF suggested # NoPort /\ suggested \notin Ports(rows) THEN suggested
                ELSE IF Shape.port \in Ports(rows) /\ next # NoPort THEN next ELSE Shape.port,
       persist |-> IF Shape.volumes THEN "volume" ELSE "ephemeral",
       config |-> [k \in DOMAIN Shape.config |-> ResolveDefault(k, name)],
       secrets |-> {}, seed |-> <<>>]

(* The fields whose value the form refuses, against the rows it knows.     *)
Faulty(v) ==
  {f \in {"name", "port", "config", "seed"} :
     CASE f = "name" -> v.name \notin GoodNames \/ v.name \in DOMAIN rows
       [] f = "port" -> v.port # AnyPort /\ (v.port \notin MinHostPort .. MaxHostPort \/ v.port \in Ports(rows))
       [] f = "config" -> \E k \in DOMAIN Shape.config : v.config[k] = "" \/ v.config[k] \notin Shape.fits[k]
       [] OTHER -> ~ValidateSeedPath(v.seed)}

(* Settings that equal their defaults are left out of the entry.           *)
ToStackEntry(v) ==
  LET kept == {k \in DOMAIN Shape.config : v.config[k] # ResolveDefault(k, v.name)}
  IN  [version |-> v.version, port |-> IF v.port = Odd THEN AnyPort ELSE v.port, persist |-> v.persist,
       config |-> [k \in kept |-> v.config[k]], seed |-> IF Shape.seed THEN NormalizeSeedPath(v.seed) ELSE <<>>]

(* Faulty: a default is the one of the name the page first proposed. *)
AddBodyOfFirstName(v) ==
  LET kept == {k \in DOMAIN Shape.config : v.config[k] # ResolveDefault(k, DefaultNames[1])}
  IN  [name |-> v.name, entry |-> [ToStackEntry(v) EXCEPT !.config = [k \in kept |-> v.config[k]]],
       secrets |-> v.secrets \cap Shape.secrets]

ToAddBody(v) == [name |-> v.name, entry |-> ToStackEntry(v), secrets |-> v.secrets \cap Shape.secrets]

EntryToYaml(v) ==
  LET e == ToStackEntry(v)
  IN  [fault |-> "none", name |-> IF v.name = "" THEN "unnamed" ELSE v.name, version |-> {e.version},
       port |-> {e.port}, persist |-> {e.persist}, config |-> e.config,
       seed |-> IF e.seed = <<>> THEN {} ELSE {e.seed}]

(* What a text changes.  A setting it does not name falls back to its      *)
(* default, a setting the definition lacks is dropped; version, port and   *)
(* persist stay when the text leaves them out.                             *)
FromYaml(text, v) ==
  LET name == IF text.name = "unnamed" THEN "" ELSE text.name
  IN  [v EXCEPT !.name = name, !.version = Given(text.version, @), !.port = Given(text.port, @),
                !.persist = Given(text.persist, @),
                !.config = [k \in DOMAIN Shape.config |->
                              IF k \in DOMAIN text.config THEN text.config[k] ELSE ResolveDefault(k, name)],
                !.seed = IF Shape.seed THEN Given(text.seed, <<>>) ELSE @]

-----------------------------------------------------------------------------
(* The form.  A field is checked when it changes; the server's error on it *)
(* goes with the change, and so does the draft of the editor.              *)

InitForm ==
  /\ entries \in {<<>>, DefaultNames[1] :> [version |-> Shape.first, port |-> Shape.port, persist |-> "volume",
                                            config |-> <<>>, seed |-> <<>>]}
  /\ taken \in {{}, {Shape.low}} /\ rows = RowsOf(entries)
  /\ \E suggested \in {NoPort, FirstOf(Shape.low .. Shape.high \ taken)} :
       page = [open |-> TRUE, values |-> BuildDefaults(suggested), faults |-> Faulty(BuildDefaults(suggested)),
               server |-> {}, offered |-> NoPort, draft |-> NoDraft, complains |-> FALSE]
  /\ adding = NoAdding /\ jobs = <<>> /\ opened = "none" /\ keys = 0 /\ news = 0

Elsewhere == <<entries, taken, rows, adding, jobs, opened, news>>

Edited_(v, fields) ==
  [page EXCEPT !.values = v, !.faults = (@ \ fields) \cup (Faulty(v) \cap fields), !.server = @ \ fields,
               !.offered = IF "port" \in fields THEN NoPort ELSE @, !.draft = NoDraft, !.complains = FALSE]
MayEdit == keys < MaxKeys /\ keys + Len(jobs) < MaxMoves
Types(v, fields) ==
  /\ page.open /\ MayEdit /\ keys' = keys + 1
  /\ page' = Edited_(v, fields)
  /\ UNCHANGED Elsewhere

TypeName(n) == Types([page.values EXCEPT !.name = n], {"name"})
TypePort(p) == Types([page.values EXCEPT !.port = p], {"port"})
TypeConfig(k, x) == Types([page.values EXCEPT !.config[k] = x], {"config"})
TypeSeed(s) == Shape.seed /\ Types([page.values EXCEPT !.seed = s], {"seed"})
PickVersion(v) == Types([page.values EXCEPT !.version = v], {})
PickPersist(m) == Types([page.values EXCEPT !.persist = m], {})

(* The secrets are no field of their own: a draft stays.                   *)
Regenerate(s) ==
  /\ page.open /\ MayEdit /\ keys' = keys + 1
  /\ page' = [page EXCEPT !.values.secrets = @ \cup {s}]
  /\ UNCHANGED Elsewhere

(* "Use N": the server's proposal, else the next port free in the project. *)
PortSuggestion ==
  LET typed == page.values.port
  IN  IF page.offered # NoPort THEN page.offered
      ELSE NextFreePort(IF typed \in MinHostPort .. MaxHostPort THEN typed ELSE Shape.low)
UseSuggestion ==
  /\ "port" \in page.faults \cup page.server /\ PortSuggestion # NoPort
  /\ TypePort(PortSuggestion)

(* A text that does not parse stays in the editor, the form as it was.     *)
EditYaml(text) ==
  \/ /\ text.fault = "none"
     /\ Types(FromYaml(text, page.values),
              {"name", "config"} \cup (IF text.port = {} THEN {} ELSE {"port"})
                                 \cup (IF Shape.seed THEN {"seed"} ELSE {}))
  \/ /\ text.fault # "none" /\ page.open /\ MayEdit /\ keys' = keys + 1
     /\ page' = [page EXCEPT !.draft = text.fault, !.complains = TRUE]
     /\ UNCHANGED Elsewhere

(* Add & start: blocked by any error and while a request runs; every field *)
(* is checked once more, against the rows of this moment.                  *)
PressAdd ==
  /\ page.open /\ adding.phase = "none" /\ page.faults \cup page.server = {} /\ keys + Len(jobs) < MaxMoves
  /\ IF Faulty(page.values) # {}
     THEN page' = [page EXCEPT !.faults = Faulty(page.values)] /\ UNCHANGED <<adding, jobs>>
     ELSE /\ jobs' = Append(jobs, [body |-> ToAddBody(page.values), shown |-> page.values, state |-> "sent"])
          /\ adding' = [NoAdding EXCEPT !.phase = "sent", !.id = Len(jobs) + 1]
          /\ UNCHANGED page
  /\ UNCHANGED <<entries, taken, rows, opened, keys, news>>

(* Cancel: the request goes on without its form.                           *)
LeaveForm ==
  /\ page.open /\ page' = [page EXCEPT !.open = FALSE] /\ news < MaxNews /\ news' = news + 1
  /\ UNCHANGED <<entries, taken, rows, adding, jobs, opened, keys>>

-----------------------------------------------------------------------------
(* The server                                                              *)

Current == jobs[adding.id]
FileMissing(seed) == seed # <<>> /\ (~Shape.seed \/ seed \notin SeedFiles)
PortBusy(p) == p # AnyPort /\ p \in taken \cup Ports(RowsOf(entries))

(* suggestFreePort: the first port of the range nobody pins or uses; the   *)
(* ports of the entries count as pinned.                                   *)
FreePort(p) ==
  FirstOf({q \in Shape.low .. Shape.high : q # p /\ q \notin taken \cup Ports(RowsOf(entries))})

Refuse(field, suggested) ==
  /\ adding' = [adding EXCEPT !.phase = "refused", !.field = field, !.suggested = suggested]
  /\ jobs' = [jobs EXCEPT ![adding.id].state = "refused"]

(* ServicesService.add: name, version, settings, seed, port, in this order. *)
CheckAdd ==
  LET body == Current.body
  IN  /\ adding.phase = "sent" /\ Current.state = "sent"
      /\ IF body.name \in DOMAIN entries THEN Refuse("name", NoPort)
         ELSE IF body.entry.version \notin Shape.versions THEN Refuse("toast", NoPort)
         ELSE IF FileMissing(body.entry.seed) THEN Refuse("toast", NoPort)
         ELSE IF PortBusy(body.entry.port) THEN Refuse("port", FreePort(body.entry.port))
         ELSE /\ jobs' = [jobs EXCEPT ![adding.id].state = "queued"]
              /\ adding' = [adding EXCEPT !.phase = "accepted"]
      /\ UNCHANGED <<entries, taken, rows, page, opened, keys, news>>

(* addService in its turn: all is checked again before the file is         *)
(* written, and the operation may fail for reasons of its own.             *)
AddAccepted(body) ==
  /\ body.name \notin DOMAIN entries
  /\ body.entry.version \in Shape.versions
  /\ \A k \in DOMAIN body.entry.config : body.entry.config[k] \in Shape.fits[k]
RunAdd(i) ==
  /\ jobs[i].state = "queued" /\ \A j \in 1 .. i - 1 : jobs[j].state # "queued"
  /\ \/ /\ AddAccepted(jobs[i].body)
        /\ entries' = Assign(entries, jobs[i].body.name, jobs[i].body.entry)
        /\ jobs' = [jobs EXCEPT ![i].state = "written"]
     \/ UNCHANGED entries /\ jobs' = [jobs EXCEPT ![i].state = "failed"]
  /\ UNCHANGED <<taken, rows, page, adding, opened, keys, news>>

-----------------------------------------------------------------------------
(* The answer                                                              *)

(* The error is put on the field as it is by now.                          *)
ShowRefusal ==
  /\ adding.phase = "refused" /\ adding' = NoAdding
  /\ page' = CASE adding.field = "name" -> [page EXCEPT !.server = @ \cup {"name"}]
               [] adding.field = "port" -> [page EXCEPT !.server = @ \cup {"port"}, !.offered = adding.suggested]
               [] OTHER -> page
  /\ UNCHANGED <<entries, taken, rows, jobs, opened, keys, news>>

(* No answer comes: the page says so and the form is free again, whatever  *)
(* became of the request.                                                  *)
LoseAnswer ==
  /\ adding.phase \in {"sent", "accepted", "refused"} /\ news < MaxNews /\ news' = news + 1
  /\ adding' = NoAdding
  /\ jobs' = IF Current.state = "sent" THEN [jobs EXCEPT ![adding.id].state = "failed"] ELSE jobs
  /\ UNCHANGED <<entries, taken, rows, page, opened, keys>>

(* waitForService: once the entry is written, the operation over, or the   *)
(* wait too long, one GET tells whether the service is there.              *)
LookForService ==
  /\ adding.phase = "accepted"
  /\ adding' = IF Current.body.name \in DOMAIN entries THEN [adding EXCEPT !.phase = "found"] ELSE NoAdding
  /\ UNCHANGED <<entries, taken, rows, page, jobs, opened, keys, news>>

(* Its queries are fetched again, then its page opens, also for a user who *)
(* went elsewhere.                                                         *)
OpenService ==
  /\ adding.phase = "found" /\ adding' = NoAdding
  /\ rows' = RowsOf(entries) /\ opened' = Current.body.name
  /\ page' = [page EXCEPT !.open = FALSE]
  /\ UNCHANGED <<entries, taken, jobs, keys, news>>

-----------------------------------------------------------------------------
(* Everybody else                                                          *)

RowsArrive ==
  /\ rows # RowsOf(entries) /\ rows' = RowsOf(entries)
  /\ UNCHANGED <<entries, taken, page, adding, jobs, opened, keys, news>>

OtherAdds(o) ==
  /\ news < MaxNews /\ news' = news + 1 /\ o.name \notin DOMAIN entries
  /\ entries' = Assign(entries, o.name, [version |-> Shape.first, port |-> o.port, persist |-> "volume",
                                       config |-> <<>>, seed |-> <<>>])
  /\ UNCHANGED <<taken, rows, page, adding, jobs, opened, keys>>

OtherRemoves(n) ==
  /\ news < MaxNews /\ news' = news + 1
  /\ entries' = [m \in DOMAIN entries \ {n} |-> entries[m]]
  /\ UNCHANGED <<taken, rows, page, adding, jobs, opened, keys>>

PortTaken(p) ==
  /\ news < MaxNews /\ news' = news + 1 /\ taken' = taken \cup {p} /\ p \notin taken
  /\ UNCHANGED <<entries, rows, page, adding, jobs, opened, keys>>

FormUser ==
  \/ \E n \in TypedNames : TypeName(n)
  \/ \E p \in TypedPorts : TypePort(p)
  \/ \E k \in DOMAIN Shape.config, x \in TypedValues : TypeConfig(k, x)
  \/ \E s \in TypedSeeds : TypeSeed(s)
  \/ \E v \in Shape.versions : PickVersion(v)
  \/ \E m \in {"volume", "ephemeral"} : PickPersist(m)
  \/ \E s \in Shape.secrets : Regenerate(s)
  \/ \E t \in TypedTexts : EditYaml(t)
  \/ UseSuggestion \/ PressAdd \/ LeaveForm

FormNext ==
  \/ FormUser
  \/ CheckAdd \/ \E i \in DOMAIN jobs : RunAdd(i)
  \/ ShowRefusal \/ LoseAnswer \/ LookForService \/ OpenService
  \/ RowsArrive \/ \E o \in Others : OtherAdds(o) \/ \E n \in DOMAIN entries : OtherRemoves(n)
  \/ \E p \in Shape.low .. Shape.high : PortTaken(p)

FormSpec == InitForm /\ [][FormNext]_formVars

-----------------------------------------------------------------------------
(* Properties                                                              *)

(* The entry as the server completes it, and as the form showed it.        *)
Completed(name, e) ==
  [e EXCEPT !.config = [k \in DOMAIN Shape.config |-> IF k \in DOMAIN e.config THEN e.config[k]
                                                      ELSE ResolveDefault(k, name)]]
AsShown(v) ==
  [version |-> v.version, port |-> v.port, persist |-> v.persist, config |-> v.config,
   seed |-> NormalizeSeedPath(v.seed)]

(* What an Add writes is what its form showed when the button was pressed, *)
(* whatever was typed, renamed or refused before and since, and no other   *)
(* service's entry changes with it (toStackEntry, toAddBody, addService).  *)
AddsAsShown ==
  [][\A i \in DOMAIN jobs : jobs[i].state # "written" /\ jobs'[i].state = "written" =>
       LET v == jobs[i].shown
       IN  /\ v.name \notin DOMAIN entries
           /\ Completed(v.name, entries'[v.name]) = AsShown(v)
           /\ \A n \in DOMAIN entries : entries'[n] = entries[n]]_formVars

(* The editor shows a draft exactly while the draft is in error.  Else it  *)
(* shows the form, and retyping what it shows changes nothing, but for a   *)
(* port that is no number and a service named unnamed (entry-yaml.ts).     *)
EditorInStep ==
  /\ page.draft # NoDraft <=> page.complains
  /\ page.values.port # Odd /\ page.values.name # "unnamed" =>
       FromYaml(EntryToYaml(page.values), page.values)
         = [page.values EXCEPT !.seed = IF Shape.seed THEN NormalizeSeedPath(@) ELSE @]
=============================================================================
