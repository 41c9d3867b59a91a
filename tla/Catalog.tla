------------------------------- MODULE Catalog -------------------------------
(***************************************************************************)
(* The service catalog (core/src/catalog): what a definition says, which   *)
(* definitions are accepted from an untrusted file, and how the layers are *)
(* merged.  A definition keeps what planning, rendering and naming depend  *)
(* on.  A template is the set of {{paths}} in it; a path is a sequence of  *)
(* segments, a variable name a sequence of words.                          *)
(***************************************************************************)
EXTENDS Naturals, Sequences, SequencesExt

CONSTANTS
    AllowedRegistries,
    ReservedWords,     \* RESERVED_ENV_NAMES, as variable names
    ReservedPrefixes   \* RESERVED_ENV_PREFIXES, as first words

DataFields == {"label", "listObjects", "objects", "runQuery", "defaultQuery"}
RenderedFields == {"image", "env", "exports", "test", "command"}
LaterFields == {"connect", "studio", "listObjects", "runQuery", "defaultQuery", "seed"}

(* The schema of a definition. *)
IsDefinition(d) ==
    /\ d.dependsOn \in Seq(STRING)
    /\ d.secrets \subseteq STRING
    /\ DOMAIN d.config \subseteq STRING
    /\ \A k \in DOMAIN d.config : d.config[k].default \subseteq Seq(STRING)
    /\ \A t \in d.templates : t.at \in RenderedFields \cup LaterFields /\ t.path \in Seq(STRING)

-----------------------------------------------------------------------------
(* Safety of a raw definition                                              *)

HostAccessKeys ==
    {"cap_add", "devices", "security_opt", "network_mode", "pid", "ipc",
     "userns_mode", "ports", "build", "mounts"}
UserMaps == {"env", "exports", "config"}

(* A value that publishes on every interface, or an address key that binds to all. *)
SafeBind(b) ==
    /\ b.value # "publish"
    /\ b.value = "all" => b.section \in UserMaps \/ ~b.bindKey

SafeImage(image) == ~image.templated /\ image.registry \in AllowedRegistries

Safe(raw) ==
    /\ ~raw.privileged
    /\ raw.keys \cap HostAccessKeys = {}
    /\ \A b \in raw.binds : SafeBind(b)
    /\ "escaping" \notin raw.sources
    /\ SafeImage(raw.image)

-----------------------------------------------------------------------------
(* Consistency of a definition                                             *)

(* checkPath *)
KnownPath(d, p) ==
    \/ p \in {<<"version">>, <<"port">>, <<"name">>, <<"stack", "name">>}
    \/ Len(p) = 2 /\ p[1] = "config" /\ p[2] \in DOMAIN d.config
    \/ Len(p) = 2 /\ p[1] = "secrets" /\ p[2] \in d.secrets
    \/ /\ Len(p) \in {3, 4}
       /\ p[1] \in {"services", "byType"} /\ p[2] \in ToSet(d.dependsOn)
       /\ IF Len(p) = 3 THEN p[3] \in {"host", "port"} ELSE p[3] \in {"secrets", "config"}

DataComplete(data) ==
    IF data.kind = "none" THEN data.has = {}
    ELSE /\ {"label", "runQuery", "defaultQuery"} \subseteq data.has
         /\ ("listObjects" \in data.has) # ("objects" \in data.has)
         /\ data.slots = 1

ImportTargetsKnown(d) ==
    \A t \in d.importEnv :
      IF t.root = "config" THEN t.name \in DOMAIN d.config ELSE t.name \in d.secrets

TemplatesKnown(d) ==
    /\ \A t \in d.templates : KnownPath(d, t.path)
    /\ \A k \in DOMAIN d.config : \A p \in d.config[k].default :
         KnownPath(d, p) /\ p[1] # "config"

Consistent(d) ==
    /\ d.version \in d.versions
    /\ d.low <= d.port /\ d.port <= d.high
    /\ d.primary \in ToSet(d.exports)
    /\ d.id \notin ToSet(d.dependsOn)
    /\ \A i, j \in DOMAIN d.dependsOn : d.dependsOn[i] = d.dependsOn[j] => i = j
    /\ \A k \in DOMAIN d.config : d.config[k].pattern # "broken"
    /\ DataComplete(d.data)
    /\ d.baked \subseteq d.secrets
    /\ ImportTargetsKnown(d)
    /\ TemplatesKnown(d)

(* parseServiceDefinition of a file called <id>.yaml. *)
Accepted(raw, id) == raw.schema /\ Safe(raw) /\ Consistent(raw.def) /\ raw.def.id = id

-----------------------------------------------------------------------------
(* Layers                                                                  *)

Find(defs, id) ==
    IF \E i \in DOMAIN defs : defs[i].id = id
    THEN defs[CHOOSE i \in DOMAIN defs : defs[i].id = id] ELSE [id |-> "none"]
Known(defs, id) == \E i \in DOMAIN defs : defs[i].id = id

Put(defs, d) ==
    IF Known(defs, d.id)
    THEN [i \in DOMAIN defs |-> IF defs[i].id = d.id THEN d ELSE defs[i]]
    ELSE Append(defs, d)
MergeDefinitions(layers) == FoldLeft(LAMBDA defs, layer : FoldLeft(Put, defs, layer), <<>>, layers)

(* An override directory: files in name order, the invalid ones left out. *)
ReadDirectory(files) ==
    LET valid == SelectSeq(files, LAMBDA f : Accepted(f.raw, f.id))
    IN  [i \in DOMAIN valid |-> valid[i].raw.def]

(* checkCatalogReferences: what a template says of a dependency is declared there. *)
DeclaredBy(defs, p) ==
    Len(p) = 4 /\ p[1] \in {"services", "byType"} /\ Known(defs, p[2]) =>
      IF p[3] = "secrets" THEN p[4] \in Find(defs, p[2]).secrets
      ELSE p[3] = "config" => p[4] \in DOMAIN Find(defs, p[2]).config
PathsOf(d) == {t.path : t \in d.templates} \cup UNION {d.config[k].default : k \in DOMAIN d.config}
ReferencesKnown(defs) ==
    \A i \in DOMAIN defs :
      /\ \A j \in DOMAIN defs[i].dependsOn : Known(defs, defs[i].dependsOn[j])
      /\ \A p \in PathsOf(defs[i]) : DeclaredBy(defs, p)

(* isReservedEnvName *)
Reserved(name) == name \in ReservedWords \/ name[1] \in ReservedPrefixes
=============================================================================
