------------------------------ MODULE StackPlan ------------------------------
(***************************************************************************)
(* From a stack file to services that can run (core/src/resolve, env): the *)
(* binding of dependencies, the order, what each template may name, what   *)
(* makes a service impossible to resolve, and the environment variables.   *)
(*                                                                         *)
(* A stack is the sequence of its entries in file order; an entry has      *)
(* name, type, uses (dependency type -> instance), version and config (key *)
(* -> class of value).  An instance name is a sequence of words, as the    *)
(* prefix of a variable is (envKeyPrefix).                                 *)
(***************************************************************************)
EXTENDS Catalog, Functions

NoInstance == <<>>
Names(stack) == {stack[i].name : i \in DOMAIN stack}
Entry(stack, n) == stack[CHOOSE i \in DOMAIN stack : stack[i].name = n]
First(S) == CHOOSE i \in S : \A j \in S : i <= j

-----------------------------------------------------------------------------
(* Planning                                                                *)

Candidates(stack, n, dep) == {i \in DOMAIN stack : stack[i].name # n /\ stack[i].type = dep}
Bound(stack, e, dep) ==
    LET found == Candidates(stack, e.name, dep)
    IN  IF dep \in DOMAIN e.uses
        THEN IF \E i \in found : stack[i].name = e.uses[dep] THEN e.uses[dep] ELSE NoInstance
        ELSE IF found = {} THEN NoInstance ELSE stack[First(found)].name

Dependencies(stack, defs, e) ==
    [dep \in ToSet(Find(defs, e.type).dependsOn) |-> Bound(stack, e, dep)]

Bindable(stack, defs) ==
    \A i \in DOMAIN stack :
      /\ Known(defs, stack[i].type)
      /\ \A dep \in DOMAIN Dependencies(stack, defs, stack[i]) :
           Dependencies(stack, defs, stack[i])[dep] # NoInstance

(* The first pending service whose dependencies are ready goes next. *)
Pick(ready) == First(ready)

(* topologicalOrder: as far as it gets; shorter than the stack on a cycle. *)
TopologicalOrder(stack, needs) ==
    LET order[k \in 0..Len(stack)] ==
          IF k = 0 THEN <<>>
          ELSE LET sofar == order[k - 1]
                   done  == ToSet(sofar)
                   ready == {i \in DOMAIN stack : stack[i].name \notin done /\ needs[i] \subseteq done}
               IN  IF ready = {} THEN sofar ELSE Append(sofar, stack[Pick(ready)].name)
    IN  order[Len(stack)]

Needs(stack, defs) == [i \in DOMAIN stack |-> Range(Dependencies(stack, defs, stack[i]))]
PlanOrder(stack, defs) == TopologicalOrder(stack, Needs(stack, defs))
Plans(stack, defs) == Bindable(stack, defs) /\ Len(PlanOrder(stack, defs)) = Len(stack)

-----------------------------------------------------------------------------
(* What the templates of a service may name                                *)

(* Faulty: a service called like the type of another one hides it. *)
InstanceWins(byType, byInstance) ==
    [k \in DOMAIN byType \cup DOMAIN byInstance |->
       IF k \in DOMAIN byInstance THEN byInstance[k] ELSE byType[k]]

(* Catalog-id keys win. *)
TypeWins(byType, byInstance) ==
    [k \in DOMAIN byType \cup DOMAIN byInstance |->
       IF k \in DOMAIN byType THEN byType[k] ELSE byInstance[k]]

(* What the resolver renders with; a key of `services` is a type or an instance. *)
ContextOf(stack, defs, e) ==
    LET needs  == Dependencies(stack, defs, e)
        byType == [k \in {<<dep>> : dep \in DOMAIN needs} |-> needs[k[1]]]
    IN  [config |-> DOMAIN Find(defs, e.type).config, secrets |-> Find(defs, e.type).secrets,
         byType |-> byType, services |-> TypeWins(byType, [n \in Range(needs) |-> n])]

(* serviceTemplateContext: built again from a resolved service, which kept only
   the instances it depends on. *)
ContextRebuilt(stack, defs, e) ==
    LET used   == Range(Dependencies(stack, defs, e))
        byType == [k \in {<<Entry(stack, n).type>> : n \in used} |->
                     CHOOSE n \in used : <<Entry(stack, n).type>> = k]
    IN  [config |-> DOMAIN Find(defs, e.type).config, secrets |-> Find(defs, e.type).secrets,
         byType |-> byType, services |-> TypeWins(byType, [n \in used |-> n])]

(* lookup: a path that ends at a scalar. *)
HasValue(stack, defs, context, p) ==
    \/ p \in {<<"version">>, <<"port">>, <<"name">>, <<"stack", "name">>}
    \/ Len(p) = 2 /\ p[1] = "config" /\ p[2] \in context.config
    \/ Len(p) = 2 /\ p[1] = "secrets" /\ p[2] \in context.secrets
    \/ /\ Len(p) > 2 /\ p[1] \in {"services", "byType"}
       /\ LET known == IF p[1] = "services" THEN context.services ELSE context.byType
          IN  /\ <<p[2]>> \in DOMAIN known
              /\ LET target == Find(defs, Entry(stack, known[<<p[2]>>]).type)
                 IN  \/ Len(p) = 3 /\ p[3] \in {"host", "port"}
                     \/ Len(p) = 4 /\ p[3] = "secrets" /\ p[4] \in target.secrets
                     \/ Len(p) = 4 /\ p[3] = "config" /\ p[4] \in DOMAIN target.config

-----------------------------------------------------------------------------
(* Resolving                                                               *)

(* checkServiceFields.  A value is "plain" (every pattern matches it) or "odd". *)
FieldsAccepted(d, version, config) ==
    /\ version = "default" \/ version \in d.versions
    /\ DOMAIN config \subseteq DOMAIN d.config
    /\ \A k \in DOMAIN config : d.config[k].pattern = "none" \/ config[k] = "plain"

Version(d, e) == IF e.version = "default" THEN d.version ELSE e.version
ConfigFits(d, e, k) ==
    \/ d.config[k].pattern = "none"
    \/ IF k \in DOMAIN e.config THEN e.config[k] = "plain" ELSE d.config[k].pattern = "fits"

(* A config default sees the context without config. *)
DefaultsRender(stack, defs, e) ==
    LET d == Find(defs, e.type)
        context == [ContextOf(stack, defs, e) EXCEPT !.config = {}]
    IN  \A k \in DOMAIN d.config \ DOMAIN e.config : \A p \in d.config[k].default :
          HasValue(stack, defs, context, p)
FieldsRender(stack, defs, e) ==
    \A t \in Find(defs, e.type).templates :
      t.at \in RenderedFields => HasValue(stack, defs, ContextOf(stack, defs, e), t.path)
RendersLater(stack, defs, e) ==
    \A t \in Find(defs, e.type).templates :
      t.at \in LaterFields => HasValue(stack, defs, ContextRebuilt(stack, defs, e), t.path)

(* resolveService: all that is wrong with an entry, given the pinned instances
   and the stored secrets; which of it is reported first is left out. *)
Faults(stack, defs, e, pins, stored) ==
    LET d == Find(defs, e.type)
        unless(holds, fault) == IF holds THEN {} ELSE {fault}
    IN  UNION {unless(Version(d, e) \notin d.badTags, "version"),
               unless(e.name \in pins /\ {e.name} \X d.secrets \subseteq stored, "unprovisioned"),
               unless(DOMAIN e.config \subseteq DOMAIN d.config, "config"),
               unless(\A k \in DOMAIN d.config : ConfigFits(d, e, k), "pattern"),
               unless(DefaultsRender(stack, defs, e) /\ FieldsRender(stack, defs, e), "template")}

Resolves(stack, defs, pins, stored) ==
    /\ Plans(stack, defs)
    /\ \A i \in DOMAIN stack : Faults(stack, defs, stack[i], pins, stored) = {}

-----------------------------------------------------------------------------
(* Environment variables                                                   *)

(* link.names renames the primary export of a service. *)
Renamed(e, d, renames, v) == v = d.primary /\ e.name \in DOMAIN renames

(* Any other variable that an earlier service has taken prefixes them all. *)
EnvNamesOf(e, d, renames, owned) ==
    LET base(v)  == IF Renamed(e, d, renames, v) THEN renames[e.name] ELSE v
        collides == \E v \in ToSet(d.exports) : ~Renamed(e, d, renames, v) /\ v \in owned
    IN  [i \in DOMAIN d.exports |->
           IF collides /\ ~Renamed(e, d, renames, d.exports[i])
           THEN e.name \o d.exports[i] ELSE base(d.exports[i])]

EnvRefused(e, d, renames, owned) ==
    LET names == EnvNamesOf(e, d, renames, owned)
    IN  \/ \E v \in ToSet(d.exports) : ~Renamed(e, d, renames, v) /\ Reserved(v)
        \/ \E i \in DOMAIN names : Reserved(names[i]) \/ names[i] \in owned
        \/ \E i, j \in DOMAIN names : i # j /\ names[i] = names[j]

(* deriveEnvLines, over the services in the given order. *)
DeriveEnv(stack, defs, renames) ==
    FoldLeft(LAMBDA env, e :
               LET d == Find(defs, e.type)
                   names == EnvNamesOf(e, d, renames, env.owned)
               IN  [ok |-> env.ok /\ ~EnvRefused(e, d, renames, env.owned),
                    owned |-> env.owned \cup ToSet(names),
                    of |-> (e.name :> names) @@ env.of],
             [ok |-> TRUE, owned |-> {}, of |-> <<>>], stack)
=============================================================================
