---------------------------- MODULE ComposeImport ----------------------------
(***************************************************************************)
(* A foreign compose file becomes a project (parse-, map- and preview-     *)
(* import, import-project.op.ts): the preview proposes an item per compose *)
(* service, the user unchecks some, and the import checks what is left     *)
(* against catalog, machine and plan again.                                *)
(*                                                                         *)
(* A compose service has a name (words), repo and tag of its image, build, *)
(* published ports and an environment (variable -> class of value).        *)
(***************************************************************************)
EXTENDS StackPlan

CONSTANTS
    NonLetters,    \* words that cannot start a name
    MaxProbes,     \* MAX_SUGGESTION_PROBES
    MaxServices    \* IMPORT_MAX_SERVICES

AutoPort == 0
Digits == <<"1", "2", "3", "4", "5", "6", "7", "8", "9">>
Lowest(S) == CHOOSE x \in S : \A y \in S : x <= y

(* parseComposeForImport: the published TCP ports; host 0 is none. *)
Parsed(compose) ==
    [i \in DOMAIN compose |-> [compose[i] EXCEPT !.ports = SelectSeq(@, LAMBDA p : p.tcp)]]
Parses(compose) == compose # <<>> /\ Len(compose) <= MaxServices

SlugName(words) ==
    IF words = <<>> THEN <<"svc">> ELSE IF words[1] \in NonLetters THEN <<"svc">> \o words ELSE words
UniqueName(base, taken) ==
    IF base \notin taken THEN base
    ELSE Append(base, Digits[Lowest({n \in 2..9 : Append(base, Digits[n]) \notin taken})])

(* The first definition, in catalog order, that lists the repository. *)
Matching(defs, repo) ==
    LET found == {i \in DOMAIN defs : repo \in defs[i].images}
    IN  IF found = {} THEN [id |-> "none"] ELSE defs[First(found)]

VersionFromTag(tag, versions) ==
    LET fits == {i \in DOMAIN tag : tag[i] \in versions}
    IN  IF fits = {} THEN "default" ELSE tag[First(fits)]

WantedPort(service, d) ==
    LET published == {i \in DOMAIN service.ports : service.ports[i].host # AutoPort}
        matching  == {i \in published : service.ports[i].container = d.container}
        used      == IF matching # {} THEN matching ELSE published
    IN  IF used = {} THEN d.port ELSE service.ports[First(used)].host

(* Ports of the range above the wanted one first, then the ones below. *)
SearchOrder(d, wanted) ==
    LET above == SetToSortSeq({p \in d.low..d.high : p > wanted}, <)
        below == SetToSortSeq({p \in d.low..d.high : p < wanted}, <)
    IN  above \o below

(* Faulty: the services of the file itself are forgotten. *)
PickPortAlone(d, wanted, claimed, reserved, busy) ==
    IF wanted \notin reserved \cup busy THEN wanted
    ELSE LET tried == SelectSeq(SearchOrder(d, wanted), LAMBDA p : p # d.port /\ p \notin reserved)
             free  == {i \in DOMAIN tried : i <= MaxProbes /\ tried[i] \notin busy}
         IN  IF free = {} THEN AutoPort ELSE tried[First(free)]

(* pickPort *)
PickPort(d, wanted, claimed, reserved, busy) ==
    IF wanted \notin claimed \cup reserved \cup busy THEN wanted
    ELSE LET tried == SelectSeq(SearchOrder(d, wanted),
                                LAMBDA p : p # d.port /\ p \notin claimed \cup reserved)
             free  == {i \in DOMAIN tried : i <= MaxProbes /\ tried[i] \notin busy}
         IN  IF free = {} THEN AutoPort ELSE tried[First(free)]

(* What a variable of the compose file becomes: a rename, else the same name. *)
Target(d, v) ==
    IF \E t \in d.importEnv : t.env = v
    THEN CHOOSE t \in [root : {"config", "secrets"}, name : {t.name : t \in d.importEnv}] :
           \E u \in d.importEnv : u.env = v /\ u.root = t.root /\ u.name = t.name
    ELSE IF v \in DOMAIN d.config THEN [root |-> "config", name |-> v]
    ELSE IF v \in d.secrets THEN [root |-> "secrets", name |-> v] ELSE [root |-> "none", name |-> v]

ImportedConfig(d, env) ==
    LET fits(v) == /\ Target(d, v).root = "config"
                   /\ d.config[Target(d, v).name].pattern = "none" \/ env[v] = "plain"
        from(k) == {v \in DOMAIN env : fits(v) /\ Target(d, v).name = k}
    IN  [k \in {k \in DOMAIN d.config : from(k) # {}} |-> env[CHOOSE v \in from(k) : TRUE]]
ImportedSecrets(d, env) ==
    {Target(d, v).name : v \in {v \in DOMAIN env : Target(d, v).root = "secrets" /\ env[v] = "plain"}}

Skipped(name) ==
    [name |-> name, type |-> "none", supported |-> FALSE, include |-> FALSE, version |-> "default",
     port |-> AutoPort, config |-> <<>>, secrets |-> {}]

(* mapComposeToCatalog *)
MapCompose(compose, defs, reserved, busy) ==
    FoldLeft(LAMBDA made, service :
               LET name   == UniqueName(SlugName(service.name), made.taken)
                   d      == Matching(defs, service.repo)
                   wanted == WantedPort(service, d)
                   port   == PickPort(d, wanted, made.claimed, reserved, busy)
                   item   == IF service.build \/ d.id = "none" THEN Skipped(name)
                             ELSE [name |-> name, type |-> d.id, supported |-> TRUE, include |-> TRUE,
                                   version |-> VersionFromTag(service.tag, d.versions), port |-> port,
                                   config |-> ImportedConfig(d, service.env),
                                   secrets |-> ImportedSecrets(d, service.env)]
               IN  [items |-> Append(made.items, item), taken |-> made.taken \cup {name},
                    claimed |-> made.claimed \cup ({item.port} \ {AutoPort})],
             [items |-> <<>>, taken |-> {}, claimed |-> {}], Parsed(compose)).items

Included(items) == SelectSeq(items, LAMBDA i : i.supported /\ i.include)

(* checkItem and checkPorts, for the items that are left. *)
ItemsAccepted(items, defs) ==
    /\ items # <<>>
    /\ \A i, j \in DOMAIN items : items[i].name = items[j].name => i = j
    /\ \A i \in DOMAIN items :
         /\ items[i].name # <<>> /\ items[i].name[1] \notin NonLetters
         /\ Known(defs, items[i].type)
         /\ FieldsAccepted(Find(defs, items[i].type), items[i].version, items[i].config)
         /\ items[i].secrets \subseteq Find(defs, items[i].type).secrets
PortsAccepted(items, reserved, busy) ==
    LET fixed == {i \in DOMAIN items : items[i].port # AutoPort}
    IN  /\ \A i, j \in fixed : items[i].port = items[j].port => i = j
        /\ \A i \in fixed : items[i].port \notin reserved \cup busy

(* The stack file of an import. *)
StackOf(items) ==
    [i \in DOMAIN items |->
       [name |-> items[i].name, type |-> items[i].type, uses |-> <<>>,
        version |-> items[i].version, config |-> items[i].config]]
=============================================================================
