----------------------------- MODULE StackProofs -----------------------------
(***************************************************************************)
(* What the validator accepts renders, for every catalog and every stack;  *)
(* what the two forms of the dashboard show is what is written, for every  *)
(* definition, text, file and number of steps (the run of MCStack shows    *)
(* both for the stacks and the texts it reaches).  And the secrets of a    *)
(* stack between two processes (FileLock, SecretStore).                    *)
(***************************************************************************)
EXTENDS StackPlan, ImportDialog, SecretStore, SequenceTheorems, WellFoundedInduction, TLAPS

(* A merged catalog whose definitions passed the validator. *)
Validated(defs) ==
    /\ \A i \in DOMAIN defs : IsDefinition(defs[i]) /\ Consistent(defs[i])
    /\ ReferencesKnown(defs)

(* Entries of a file have names of their own. *)
Named(stack) ==
    /\ DOMAIN stack \subseteq Nat
    /\ \A i, j \in DOMAIN stack : stack[i].name = stack[j].name => i = j

(* Under the type of a dependency, a context holds an instance of that type. *)
Holds(stack, defs, e, context) ==
    \A dep \in ToSet(Find(defs, e.type).dependsOn) :
      /\ <<dep>> \in DOMAIN context.services /\ <<dep>> \in DOMAIN context.byType
      /\ Entry(stack, context.services[<<dep>>]).type = dep
      /\ Entry(stack, context.byType[<<dep>>]).type = dep

(* A nonempty set of positions has a first one. *)
LEMMA FirstExists ==
    ASSUME NEW S, S \subseteq Nat, S # {}
    PROVE  First(S) \in S
<1> DEFINE R == {ss \in Nat \X Nat : ss[1] < ss[2]}
<1>1. IsWellFoundedOn(R, Nat)
  BY NatLessThanWellFounded, Zenon DEF OpToRel
<1>2. \E i \in S : \A j \in S : ~(<<j, i>> \in R)
  <2> HIDE DEF R
  <2> QED
    BY <1>1, WFMin
<1>3. PICK i \in S : \A j \in S : ~(<<j, i>> \in R)
  BY <1>2
<1>4. \A j \in Nat : j < i => <<j, i>> \in R
  OBVIOUS
<1>5. \A j \in S : ~(j < i)
  <2> HIDE DEF R
  <2> QED
    BY <1>3, <1>4, Zenon
<1>6. \A j \in S : i <= j
  BY <1>5
<1> QED
  BY <1>6 DEF First

(* planStack binds a dependency to an instance of its type. *)
LEMMA BoundHasType ==
    ASSUME NEW stack, NEW e, NEW dep, Named(stack), Bound(stack, e, dep) # NoInstance
    PROVE  \E j \in DOMAIN stack : stack[j].name = Bound(stack, e, dep) /\ stack[j].type = dep
<1> DEFINE found == Candidates(stack, e.name, dep)
<1>1. found \subseteq DOMAIN stack /\ \A j \in found : stack[j].type = dep
  BY DEF Candidates
<1>2. CASE dep \in DOMAIN e.uses
  <2>1. \E j \in found : stack[j].name = e.uses[dep] /\ Bound(stack, e, dep) = e.uses[dep]
    BY <1>2 DEF Bound
  <2> QED
    BY <2>1, <1>1
<1>3. CASE dep \notin DOMAIN e.uses
  <2>1. found # {} /\ Bound(stack, e, dep) = stack[First(found)].name
    BY <1>3 DEF Bound
  <2>2. First(found) \in found
    BY <2>1, <1>1, FirstExists DEF Named
  <2> QED
    BY <2>1, <2>2, <1>1
<1> QED
  BY <1>2, <1>3

(* The entry of a name is the one that has it. *)
LEMMA EntryOfName ==
    ASSUME NEW stack, Named(stack), NEW j \in DOMAIN stack
    PROVE  Entry(stack, stack[j].name) = stack[j]
BY DEF Named, Entry

(* A known type is found, under its id. *)
LEMMA FindKnown ==
    ASSUME NEW defs, NEW id, Known(defs, id)
    PROVE  \E i \in DOMAIN defs : Find(defs, id) = defs[i] /\ defs[i].id = id
BY DEF Known, Find

(* What a service of a stack that plans is known to have. *)
LEMMA Binding ==
    ASSUME NEW stack, NEW defs, Named(stack), Validated(defs), Bindable(stack, defs),
           NEW i \in DOMAIN stack, NEW dep \in ToSet(Find(defs, stack[i].type).dependsOn)
    PROVE  /\ dep \in DOMAIN Dependencies(stack, defs, stack[i])
           /\ Dependencies(stack, defs, stack[i])[dep] = Bound(stack, stack[i], dep)
           /\ Entry(stack, Bound(stack, stack[i], dep)).type = dep
           /\ Known(defs, dep)
<1>1. /\ dep \in DOMAIN Dependencies(stack, defs, stack[i])
      /\ Dependencies(stack, defs, stack[i])[dep] = Bound(stack, stack[i], dep)
  BY DEF Dependencies
<1>2. Bound(stack, stack[i], dep) # NoInstance
  BY <1>1 DEF Bindable
<1>3. PICK j \in DOMAIN stack : stack[j].name = Bound(stack, stack[i], dep) /\ stack[j].type = dep
  BY <1>2, BoundHasType
<1>4. Entry(stack, Bound(stack, stack[i], dep)).type = dep
  BY <1>3, EntryOfName
<1>5. Known(defs, dep)
  BY <1>3 DEF Bindable
<1> QED
  BY <1>1, <1>4, <1>5

(* The names a template may use are the ones both contexts hold. *)
LEMMA PathHasValue ==
    ASSUME NEW stack, NEW defs, Named(stack), Validated(defs), Bindable(stack, defs),
           NEW i \in DOMAIN stack, NEW p,
           KnownPath(Find(defs, stack[i].type), p),
           p \in PathsOf(Find(defs, stack[i].type)),
           NEW context,
           \/ context.config = DOMAIN Find(defs, stack[i].type).config
           \/ Len(p) = 2 => p[1] # "config",
           context.secrets = Find(defs, stack[i].type).secrets,
           Holds(stack, defs, stack[i], context)
    PROVE  HasValue(stack, defs, context, p)
<1> DEFINE d == Find(defs, stack[i].type)
<1>1. CASE p \in {<<"version">>, <<"port">>, <<"name">>, <<"stack", "name">>}
  BY <1>1 DEF HasValue
<1>2. CASE Len(p) = 2 /\ p[1] = "config" /\ p[2] \in DOMAIN d.config
  BY <1>2 DEF HasValue
<1>3. CASE Len(p) = 2 /\ p[1] = "secrets" /\ p[2] \in d.secrets
  BY <1>3 DEF HasValue
<1>4. CASE /\ Len(p) \in {3, 4}
           /\ p[1] \in {"services", "byType"} /\ p[2] \in ToSet(d.dependsOn)
           /\ IF Len(p) = 3 THEN p[3] \in {"host", "port"} ELSE p[3] \in {"secrets", "config"}
  <2>1. Known(defs, p[2])
    BY <1>4, Binding
  <2>2. PICK k \in DOMAIN defs : d = defs[k]
    <3>1. Known(defs, stack[i].type)
      BY DEF Bindable
    <3> QED
      BY <3>1, FindKnown
  <2>3. DeclaredBy(defs, p)
    BY <2>2 DEF Validated, ReferencesKnown
  <2>4. Len(p) = 4 =>
          \/ p[3] = "secrets" /\ p[4] \in Find(defs, p[2]).secrets
          \/ p[3] = "config" /\ p[4] \in DOMAIN Find(defs, p[2]).config
    BY <2>1, <2>3, <1>4 DEF DeclaredBy
  <2>5. Len(p) > 2
    BY <1>4
  <2> DEFINE bound == IF p[1] = "services" THEN context.services ELSE context.byType
  <2>6. <<p[2]>> \in DOMAIN bound /\ Entry(stack, bound[<<p[2]>>]).type = p[2]
    BY <1>4 DEF Holds
  <2>7. \/ Len(p) = 3 /\ p[3] \in {"host", "port"}
        \/ Len(p) = 4 /\ p[3] = "secrets" /\ p[4] \in Find(defs, p[2]).secrets
        \/ Len(p) = 4 /\ p[3] = "config" /\ p[4] \in DOMAIN Find(defs, p[2]).config
    BY <2>4, <1>4
  <2> QED
    BY <2>5, <2>6, <2>7, <1>4 DEF HasValue
<1> QED
  BY <1>1, <1>2, <1>3, <1>4 DEF KnownPath

(* Catalog-id keys win: under a type both contexts hold an instance of that type. *)
LEMMA ContextsHold ==
    ASSUME NEW stack, NEW defs, Named(stack), Validated(defs), Bindable(stack, defs),
           NEW i \in DOMAIN stack
    PROVE  /\ Holds(stack, defs, stack[i], ContextOf(stack, defs, stack[i]))
           /\ Holds(stack, defs, stack[i], ContextRebuilt(stack, defs, stack[i]))
<1> SUFFICES ASSUME NEW dep \in ToSet(Find(defs, stack[i].type).dependsOn),
                    NEW context,
                    \/ context = ContextOf(stack, defs, stack[i])
                    \/ context = ContextRebuilt(stack, defs, stack[i])
             PROVE  /\ <<dep>> \in DOMAIN context.services /\ <<dep>> \in DOMAIN context.byType
                    /\ Entry(stack, context.services[<<dep>>]).type = dep
                    /\ Entry(stack, context.byType[<<dep>>]).type = dep
  BY DEF Holds
<1> DEFINE e == stack[i]
           needs == Dependencies(stack, defs, e)
           n == Bound(stack, e, dep)
<1>1. dep \in DOMAIN needs /\ needs[dep] = n /\ Entry(stack, n).type = dep
  BY Binding
<1>2. n \in Range(needs)
  BY <1>1 DEF Range
<1>3. CASE context = ContextOf(stack, defs, e)
  <2> DEFINE byType == [k \in {<<t>> : t \in DOMAIN needs} |-> needs[k[1]]]
  <2>1. context.byType = byType /\ context.services = TypeWins(byType, [m \in Range(needs) |-> m])
    BY <1>3 DEF ContextOf
  <2>2. <<dep>> \in DOMAIN byType /\ byType[<<dep>>] = n
    BY <1>1
  <2>3. <<dep>> \in DOMAIN context.services /\ context.services[<<dep>>] = n
    BY <2>1, <2>2 DEF TypeWins
  <2> QED
    BY <2>1, <2>2, <2>3, <1>1
<1>4. CASE context = ContextRebuilt(stack, defs, e)
  <2> DEFINE used == Range(needs)
             byType == [k \in {<<Entry(stack, m).type>> : m \in used} |->
                          CHOOSE m \in used : <<Entry(stack, m).type>> = k]
  <2>1. context.byType = byType /\ context.services = TypeWins(byType, [m \in used |-> m])
    BY <1>4 DEF ContextRebuilt
  <2>2. <<dep>> \in DOMAIN byType
    BY <1>1, <1>2
  <2>3. <<Entry(stack, byType[<<dep>>]).type>> = <<dep>>
    BY <1>1, <1>2, <2>2
  <2>4. Entry(stack, byType[<<dep>>]).type = dep
    BY <2>3
  <2>5. <<dep>> \in DOMAIN context.services /\ context.services[<<dep>>] = byType[<<dep>>]
    BY <2>1, <2>2 DEF TypeWins
  <2> QED
    BY <2>1, <2>2, <2>4, <2>5
<1> QED
  BY <1>3, <1>4

(* A definition that passed the validator, whose references to other
   definitions hold, renders in every stack whose dependencies are bound: its
   config defaults, the fields rendered when it is resolved, and the commands
   rendered later from the resolved service (checkDefinitionConsistency,
   checkCatalogReferences, resolveService, serviceTemplateContext). *)
THEOREM ValidatedRenders ==
    ASSUME NEW stack, NEW defs, Named(stack), Validated(defs), Bindable(stack, defs),
           NEW i \in DOMAIN stack
    PROVE  /\ DefaultsRender(stack, defs, stack[i])
           /\ FieldsRender(stack, defs, stack[i])
           /\ RendersLater(stack, defs, stack[i])
<1> DEFINE e == stack[i]
           d == Find(defs, e.type)
<1>1. TemplatesKnown(d)
  <2>1. \E k \in DOMAIN defs : d = defs[k]
    BY FindKnown DEF Bindable
  <2> QED
    BY <2>1 DEF Validated, Consistent
<1>2. FieldsRender(stack, defs, e)
  <2> SUFFICES ASSUME NEW t \in d.templates
               PROVE  HasValue(stack, defs, ContextOf(stack, defs, e), t.path)
    BY DEF FieldsRender
  <2> DEFINE context == ContextOf(stack, defs, e)
  <2>1. KnownPath(d, t.path) /\ t.path \in PathsOf(d)
    BY <1>1 DEF TemplatesKnown, PathsOf
  <2>2. context.config = DOMAIN d.config /\ context.secrets = d.secrets
    BY DEF ContextOf
  <2>3. Holds(stack, defs, e, context)
    BY ContextsHold
  <2> HIDE DEF context
  <2> QED
    BY <2>1, <2>2, <2>3, PathHasValue DEF context
<1>3. RendersLater(stack, defs, e)
  <2> SUFFICES ASSUME NEW t \in d.templates
               PROVE  HasValue(stack, defs, ContextRebuilt(stack, defs, e), t.path)
    BY DEF RendersLater
  <2>1. KnownPath(d, t.path) /\ t.path \in PathsOf(d)
    BY <1>1 DEF TemplatesKnown, PathsOf
  <2> DEFINE context == ContextRebuilt(stack, defs, e)
  <2>2. context.config = DOMAIN d.config /\ context.secrets = d.secrets
    BY DEF ContextRebuilt
  <2>3. Holds(stack, defs, e, context)
    BY ContextsHold
  <2> HIDE DEF context
  <2> QED
    BY <2>1, <2>2, <2>3, PathHasValue DEF context
<1>4. DefaultsRender(stack, defs, e)
  <2> DEFINE full == ContextOf(stack, defs, e)
             context == [full EXCEPT !.config = {}]
  <2>1. /\ context.secrets = d.secrets /\ context.services = full.services
        /\ context.byType = full.byType
    BY DEF ContextOf
  <2> SUFFICES ASSUME NEW k \in DOMAIN d.config, NEW p \in d.config[k].default
               PROVE  HasValue(stack, defs, context, p)
    BY DEF DefaultsRender
  <2>2. KnownPath(d, p) /\ p[1] # "config"
    BY <1>1 DEF TemplatesKnown
  <2>3. p \in PathsOf(d)
    BY DEF PathsOf
  <2>4. Holds(stack, defs, e, context)
    <3>1. Holds(stack, defs, e, full)
      BY ContextsHold
    <3> HIDE DEF full, context
    <3> QED
      BY <2>1, <3>1 DEF Holds
  <2> HIDE DEF context
  <2> QED
    BY <2>1, <2>2, <2>3, <2>4, PathHasValue
<1> QED
  BY <1>2, <1>3, <1>4

-----------------------------------------------------------------------------
(* The page of a new service *)


(* The records of the page have their fields and nothing else. *)
IsValues(v) ==
    /\ v = [name |-> v.name, version |-> v.version, port |-> v.port, persist |-> v.persist,
            config |-> [k \in DOMAIN Shape.config |-> v.config[k]], secrets |-> v.secrets, seed |-> v.seed]
    /\ ~Shape.seed => v.seed = <<>>

IsPage(p) ==
    /\ p = [open |-> p.open, values |-> p.values, faults |-> p.faults, server |-> p.server,
            offered |-> p.offered, draft |-> p.draft, complains |-> p.complains]
    /\ IsValues(p.values)
    /\ p.draft # NoDraft <=> p.complains = TRUE
    /\ p.complains \in BOOLEAN

(* An operation carries what its form showed, and its port was a number. *)
IsAdd(j) ==
    /\ j = [body |-> ToAddBody(j.shown), shown |-> j.shown, state |-> j.state]
    /\ IsValues(j.shown) /\ j.shown.port # Odd

FormInv ==
    /\ IsPage(page)
    /\ \E S : jobs \in Seq(S) /\ \A j \in S : IsAdd(j)

LEMMA GivenOne == \A x, d : Given({x}, d) = x
BY DEF Given

LEMMA GivenNone == \A d : Given({}, d) = d
BY DEF Given

LEMMA NoSeed == NormalizeSeedPath(<<>>) = <<>>
<1>1. Leading(<<>>) = {0}
  BY DEF Leading
<1>2. (CHOOSE i \in {0} : \A j \in {0} : j <= i) = 0
  OBVIOUS
<1>3. SubSeq(<<>>, 1 + 0, Len(<<>>)) = <<>>
  OBVIOUS
<1> QED
  BY <1>1, <1>2, <1>3 DEF NormalizeSeedPath

LEMMA MadeValues ==
    ASSUME NEW name, NEW version, NEW port, NEW persist, NEW config, NEW secrets, NEW seed,
           config = [k \in DOMAIN Shape.config |-> config[k]], ~Shape.seed => seed = <<>>
    PROVE  IsValues([name |-> name, version |-> version, port |-> port, persist |-> persist,
                     config |-> config, secrets |-> secrets, seed |-> seed])
<1> DEFINE v == [name |-> name, version |-> version, port |-> port, persist |-> persist,
                 config |-> config, secrets |-> secrets, seed |-> seed]
<1>1. /\ v.name = name /\ v.version = version /\ v.port = port /\ v.persist = persist
      /\ v.config = config /\ v.secrets = secrets /\ v.seed = seed
  OBVIOUS
<1>2. v = [name |-> v.name, version |-> v.version, port |-> v.port, persist |-> v.persist,
           config |-> v.config, secrets |-> v.secrets, seed |-> v.seed]
  OBVIOUS
<1>3. v.config = [k \in DOMAIN Shape.config |-> v.config[k]]
  BY <1>1
<1> HIDE DEF v
<1>4. IsValues(v)
  BY <1>1, <1>2, <1>3 DEF IsValues
<1> QED
  BY <1>4 DEF v

LEMMA FormInvInit == InitForm => FormInv
<1> SUFFICES ASSUME InitForm PROVE FormInv
  OBVIOUS
<1>1. PICK suggested \in {NoPort, FirstOf(Shape.low .. Shape.high \ taken)} :
        page = [open |-> TRUE, values |-> BuildDefaults(suggested), faults |-> Faulty(BuildDefaults(suggested)),
                server |-> {}, offered |-> NoPort, draft |-> NoDraft, complains |-> FALSE]
  BY DEF InitForm
<1>2. IsValues(BuildDefaults(suggested))
  <2>1. \E name, port, persist, config :
           /\ BuildDefaults(suggested) = [name |-> name, version |-> Shape.first, port |-> port, persist |-> persist,
                                          config |-> config, secrets |-> {}, seed |-> <<>>]
           /\ config = [k \in DOMAIN Shape.config |-> config[k]]
    <3> DEFINE free == {i \in DOMAIN DefaultNames : DefaultNames[i] \notin DOMAIN rows}
               name == DefaultNames[CHOOSE i \in free : \A j \in free : i <= j]
               next == NextFreePort(Shape.low)
               port == IF suggested # NoPort /\ suggested \notin Ports(rows) THEN suggested
                       ELSE IF Shape.port \in Ports(rows) /\ next # NoPort THEN next ELSE Shape.port
               persist == IF Shape.volumes THEN "volume" ELSE "ephemeral"
               config == [k \in DOMAIN Shape.config |-> ResolveDefault(k, name)]
    <3>1. BuildDefaults(suggested) = [name |-> name, version |-> Shape.first, port |-> port, persist |-> persist,
                                      config |-> config, secrets |-> {}, seed |-> <<>>]
      BY Zenon DEF BuildDefaults
    <3>2. config = [k \in DOMAIN Shape.config |-> config[k]]
      OBVIOUS
    <3> HIDE DEF name, port, persist, config
    <3> QED
      BY <3>1, <3>2
  <2> QED
    BY <2>1, MadeValues
<1>3. jobs = <<>> /\ <<>> \in Seq({}) /\ \A j \in {} : IsAdd(j)
  BY DEF InitForm
<1> QED
  <2> DEFINE v == BuildDefaults(suggested)
  <2> HIDE DEF v
  <2>1. page = [open |-> TRUE, values |-> v, faults |-> Faulty(v),
                server |-> {}, offered |-> NoPort, draft |-> NoDraft, complains |-> FALSE]
    BY <1>1 DEF v
  <2>2. IsPage(page)
    BY <2>1, <1>2 DEF IsPage, v
  <2> QED
    BY <2>2, <1>3 DEF FormInv

(* Typing into the form, and what the YAML says. *)
LEMMA TypesKeeps ==
    ASSUME FormInv, NEW v, NEW fields, IsValues(v), Types(v, fields)
    PROVE  FormInv' /\ jobs' = jobs
<1>1. page' = [open |-> page.open, values |-> v, faults |-> (page.faults \ fields) \cup (Faulty(v) \cap fields),
               server |-> page.server \ fields, offered |-> IF "port" \in fields THEN NoPort ELSE page.offered,
               draft |-> NoDraft, complains |-> FALSE]
  BY DEF Types, Edited_, FormInv, IsPage
<1>2. IsPage(page')
  BY <1>1 DEF IsPage
<1>3. jobs' = jobs
  BY DEF Types, Elsewhere
<1> QED
  BY <1>2, <1>3 DEF FormInv

LEMMA YamlValues ==
    ASSUME NEW t, NEW v, IsValues(v)
    PROVE  IsValues(FromYaml(t, v))
<1> DEFINE name == IF t.name = "unnamed" THEN "" ELSE t.name
           config == [k \in DOMAIN Shape.config |->
                        IF k \in DOMAIN t.config THEN t.config[k] ELSE ResolveDefault(k, name)]
           seed == IF Shape.seed THEN Given(t.seed, <<>>) ELSE v.seed
<1>1. FromYaml(t, v) =
        [name |-> name, version |-> Given(t.version, v.version), port |-> Given(t.port, v.port),
         persist |-> Given(t.persist, v.persist), config |-> config, secrets |-> v.secrets, seed |-> seed]
  <2> DEFINE version == Given(t.version, v.version)
             port == Given(t.port, v.port)
             persist == Given(t.persist, v.persist)
  <2>1. FromYaml(t, v) = [v EXCEPT !.name = name, !.version = version, !.port = port, !.persist = persist,
                                   !.config = config, !.seed = seed]
    BY DEF FromYaml
  <2> HIDE DEF name, version, port, persist, config, seed
  <2>2. [v EXCEPT !.name = name, !.version = version, !.port = port, !.persist = persist,
                  !.config = config, !.seed = seed]
          = [name |-> name, version |-> version, port |-> port, persist |-> persist,
             config |-> config, secrets |-> v.secrets, seed |-> seed]
    <3>1. v = [name |-> v.name, version |-> v.version, port |-> v.port, persist |-> v.persist,
               config |-> v.config, secrets |-> v.secrets, seed |-> v.seed]
      BY DEF IsValues
    <3> DEFINE w == [v EXCEPT !.name = name, !.version = version, !.port = port, !.persist = persist,
                              !.config = config, !.seed = seed]
    <3>2. DOMAIN w = {"name", "version", "port", "persist", "config", "secrets", "seed"}
      BY <3>1
    <3>3. /\ w.name = name /\ w.version = version /\ w.port = port /\ w.persist = persist
          /\ w.config = config /\ w.seed = seed /\ w.secrets = v.secrets
      BY <3>1
    <3>4. w = [f \in {"name", "version", "port", "persist", "config", "secrets", "seed"} |-> w[f]]
      BY <3>2
    <3> HIDE DEF w
    <3>5. w = [name |-> name, version |-> version, port |-> port, persist |-> persist,
               config |-> config, secrets |-> v.secrets, seed |-> seed]
      BY <3>2, <3>3, <3>4
    <3> QED
      BY <3>5 DEF w
  <2> QED
    BY <2>1, <2>2 DEF version, port, persist
<1>2. config = [k \in DOMAIN Shape.config |-> config[k]]
  OBVIOUS
<1>3. ~Shape.seed => seed = <<>>
  BY DEF IsValues
<1> HIDE DEF name, config, seed
<1> QED
  BY <1>1, <1>2, <1>3, MadeValues

LEMMA UserKeeps ==
    ASSUME FormInv, FormUser
    PROVE  FormInv' /\ (jobs' = jobs \/ PressAdd)
<1> DEFINE v == page.values
<1>0. IsPage(page) /\ IsValues(v)
  BY DEF FormInv, IsPage
<1>1. CASE \E n \in TypedNames : TypeName(n)
  <2>1. PICK n \in TypedNames : TypeName(n)
    BY <1>1
  <2>2. IsValues([v EXCEPT !.name = n])
    BY <1>0 DEF IsValues
  <2> QED
    BY <2>1, <2>2, TypesKeeps DEF TypeName
<1>2. ASSUME NEW p, TypePort(p)
      PROVE  FormInv' /\ jobs' = jobs
  <2>1. IsValues([v EXCEPT !.port = p])
    BY <1>0 DEF IsValues
  <2> QED
    BY <1>2, <2>1, TypesKeeps DEF TypePort
<1>3. CASE \E k \in DOMAIN Shape.config, x \in TypedValues : TypeConfig(k, x)
  <2>1. PICK k \in DOMAIN Shape.config, x \in TypedValues : TypeConfig(k, x)
    BY <1>3
  <2>2. IsValues([v EXCEPT !.config[k] = x])
    BY <1>0 DEF IsValues
  <2> QED
    BY <2>1, <2>2, TypesKeeps DEF TypeConfig
<1>4. CASE \E s \in TypedSeeds : TypeSeed(s)
  <2>1. PICK s \in TypedSeeds : TypeSeed(s)
    BY <1>4
  <2>2. IsValues([v EXCEPT !.seed = s])
    BY <1>0, <2>1 DEF IsValues, TypeSeed
  <2> QED
    BY <2>1, <2>2, TypesKeeps DEF TypeSeed
<1>5. CASE \E x \in Shape.versions : PickVersion(x)
  <2>1. PICK x \in Shape.versions : PickVersion(x)
    BY <1>5
  <2>2. IsValues([v EXCEPT !.version = x])
    BY <1>0 DEF IsValues
  <2> QED
    BY <2>1, <2>2, TypesKeeps DEF PickVersion
<1>6. CASE \E m \in {"volume", "ephemeral"} : PickPersist(m)
  <2>1. PICK m \in {"volume", "ephemeral"} : PickPersist(m)
    BY <1>6
  <2>2. IsValues([v EXCEPT !.persist = m])
    BY <1>0 DEF IsValues
  <2> QED
    BY <2>1, <2>2, TypesKeeps DEF PickPersist
<1>7. CASE \E s \in Shape.secrets : Regenerate(s)
  <2>1. PICK s \in Shape.secrets : Regenerate(s)
    BY <1>7
  <2>2. page' = [page EXCEPT !.values = [v EXCEPT !.secrets = @ \cup {s}]] /\ jobs' = jobs
    BY <2>1, <1>0 DEF Regenerate, Elsewhere, IsPage
  <2> DEFINE secrets == v.secrets \cup {s}
  <2>3. IsValues([v EXCEPT !.secrets = secrets])
    <3> HIDE DEF secrets
    <3> QED
      BY <1>0 DEF IsValues
  <2>4. IsPage(page')
    <3> HIDE DEF v
    <3> QED
      BY <2>2, <2>3, <1>0 DEF IsPage
  <2> QED
    BY <2>2, <2>4 DEF FormInv
<1>8. CASE \E t \in TypedTexts : EditYaml(t)
  <2>1. PICK t \in TypedTexts : EditYaml(t)
    BY <1>8
  <2>2. CASE t.fault = "none"
    <3>1. \E fields : Types(FromYaml(t, v), fields)
      BY <2>1, <2>2 DEF EditYaml
    <3>2. IsValues(FromYaml(t, v))
      BY <1>0, YamlValues
    <3> QED
      BY <3>1, <3>2, TypesKeeps
  <2>3. CASE t.fault # "none"
    <3>1. page' = [page EXCEPT !.draft = t.fault, !.complains = TRUE] /\ jobs' = jobs
      BY <2>1, <2>3 DEF EditYaml, Elsewhere
    <3>2. IsPage(page')
      BY <3>1, <2>3, <1>0 DEF IsPage, NoDraft
    <3> QED
      BY <3>1, <3>2 DEF FormInv
  <2> QED
    BY <2>2, <2>3
<1>9. CASE UseSuggestion
  BY <1>9, <1>2 DEF UseSuggestion
<1>10. CASE PressAdd
  <2>1. CASE Faulty(v) # {}
    <3>1. page' = [page EXCEPT !.faults = Faulty(v)] /\ jobs' = jobs
      BY <1>10, <2>1 DEF PressAdd
    <3>2. IsPage(page')
      BY <3>1, <1>0 DEF IsPage
    <3> QED
      BY <3>1, <3>2 DEF FormInv
  <2>2. CASE Faulty(v) = {}
    <3> DEFINE j == [body |-> ToAddBody(v), shown |-> v, state |-> "sent"]
    <3>1. page' = page /\ jobs' = Append(jobs, j)
      BY <1>10, <2>2 DEF PressAdd
    <3>2. "port" \notin Faulty(v)
      BY <2>2
    <3>3. v.port = AnyPort \/ v.port \in MinHostPort .. MaxHostPort
      BY <3>2 DEF Faulty
    <3>4. v.port # Odd
      BY <3>3, FormAssumption DEF Odd, AnyPort
    <3> HIDE DEF v
    <3>5. IsAdd(j)
      BY <3>4, <1>0 DEF IsAdd
    <3>6. PICK S : jobs \in Seq(S) /\ \A x \in S : IsAdd(x)
      BY DEF FormInv
    <3> HIDE DEF j
    <3>7. jobs' \in Seq(S \cup {j}) /\ \A x \in S \cup {j} : IsAdd(x)
      <4>1. jobs \in Seq(S \cup {j})
        BY <3>6
      <4> QED
        BY <3>1, <3>5, <3>6, <4>1
    <3> QED
      BY <1>0, <1>10, <3>1, <3>7 DEF FormInv
  <2> QED
    BY <2>1, <2>2
<1>11. CASE LeaveForm
  <2>1. page' = [page EXCEPT !.open = FALSE] /\ jobs' = jobs
    BY <1>11 DEF LeaveForm
  <2>2. IsPage(page')
    BY <2>1, <1>0 DEF IsPage
  <2> QED
    BY <2>1, <2>2 DEF FormInv
<1>12. CASE \E p \in TypedPorts : TypePort(p)
  BY <1>12, <1>2
<1> QED
  BY <1>1, <1>3, <1>4, <1>5, <1>6, <1>7, <1>8, <1>9, <1>10, <1>11, <1>12 DEF FormUser

LEMMA Typed ==
    ASSUME NEW T, NEW q, NEW n \in Nat, q = [k \in 1 .. n |-> q[k]], \A k \in 1 .. n : q[k] \in T
    PROVE  q \in Seq(T)
BY SeqDef

(* The state of an operation moves on, what it carries does not. *)
LEMMA JobMoves ==
    ASSUME FormInv, NEW i, NEW s, jobs' = [jobs EXCEPT ![i].state = s]
    PROVE  /\ \E S : jobs' \in Seq(S) /\ \A j \in S : IsAdd(j)
           /\ \A k \in DOMAIN jobs : IsAdd(jobs[k]) /\ jobs'[k].state \in {jobs[k].state, s}
           /\ \A k \in DOMAIN jobs : k # i => jobs'[k] = jobs[k]
<1>1. PICK S : jobs \in Seq(S) /\ \A x \in S : IsAdd(x)
  BY DEF FormInv
<1>2. \A k \in DOMAIN jobs : IsAdd(jobs[k])
  BY <1>1
<1> DEFINE T == S \cup {[x EXCEPT !.state = s] : x \in S}
<1>3. \A x \in S : IsAdd([x EXCEPT !.state = s]) /\ [x EXCEPT !.state = s].state = s
  BY <1>1 DEF IsAdd
<1>4. jobs' \in Seq(T) /\ DOMAIN jobs' = DOMAIN jobs
  <2>1. DOMAIN jobs = 1 .. Len(jobs) /\ Len(jobs) \in Nat
    BY <1>1
  <2>2. DOMAIN jobs' = DOMAIN jobs /\ \A k \in DOMAIN jobs : jobs'[k] \in T
    BY <1>1
  <2>3. jobs' = [k \in 1 .. Len(jobs) |-> jobs'[k]]
    BY <2>1
  <2> HIDE DEF T
  <2> QED
    BY <2>1, <2>2, <2>3, Typed
<1>5. \A x \in T : IsAdd(x)
  BY <1>1, <1>3
<1>6. \A k \in DOMAIN jobs : k # i => jobs'[k] = jobs[k]
  BY <1>1
<1>7. \A k \in DOMAIN jobs : jobs'[k].state \in {jobs[k].state, s}
  BY <1>1, <1>3
<1> QED
  BY <1>2, <1>4, <1>5, <1>6, <1>7

(* Every other step leaves the values of the form alone. *)
LEMMA OtherStepsKeep ==
    ASSUME FormInv, FormNext, ~FormUser
    PROVE  FormInv' /\ (jobs' = jobs \/ \E i, s : jobs' = [jobs EXCEPT ![i].state = s])
<1>0. IsPage(page)
  BY DEF FormInv
<1>1. ASSUME page' = page, \E i, s : jobs' = [jobs EXCEPT ![i].state = s]
      PROVE  FormInv'
  BY <1>0, <1>1, JobMoves DEF FormInv
<1>2. ASSUME page' = page, jobs' = jobs PROVE FormInv'
  BY <1>2 DEF FormInv
<1>3. CASE CheckAdd
  <2>1. page' = page
    BY <1>3 DEF CheckAdd
  <2>2. \E s : jobs' = [jobs EXCEPT ![adding.id].state = s]
    <3> DEFINE body == Current.body
    <3>1. \/ Refuse("name", NoPort) \/ Refuse("toast", NoPort) \/ Refuse("port", FreePort(body.entry.port))
          \/ jobs' = [jobs EXCEPT ![adding.id].state = "queued"]
      BY <1>3 DEF CheckAdd
    <3> QED
      BY <3>1 DEF Refuse
  <2> QED
    BY <1>1, <2>1, <2>2
<1>4. CASE \E i \in DOMAIN jobs : RunAdd(i)
  BY <1>1, <1>4 DEF RunAdd
<1>5. CASE ShowRefusal
  <2>1. jobs' = jobs
    BY <1>5 DEF ShowRefusal
  <2>2. \/ \E fields : page' = [page EXCEPT !.server = fields]
        \/ \E fields, n : page' = [page EXCEPT !.server = fields, !.offered = n]
        \/ page' = page
    BY <1>5 DEF ShowRefusal
  <2>3. ASSUME NEW fields, page' = [page EXCEPT !.server = fields]
        PROVE  IsPage(page')
    BY <1>0, <2>3 DEF IsPage
  <2>4. ASSUME NEW fields, NEW n, page' = [page EXCEPT !.server = fields, !.offered = n]
        PROVE  IsPage(page')
    BY <1>0, <2>4 DEF IsPage
  <2>5. IsPage(page')
    BY <1>0, <2>2, <2>3, <2>4
  <2> QED
    BY <2>1, <2>5 DEF FormInv
<1>6. CASE LoseAnswer
  BY <1>1, <1>2, <1>6 DEF LoseAnswer
<1>7. CASE LookForService
  BY <1>2, <1>7 DEF LookForService
<1>8. CASE OpenService
  <2>1. page' = [page EXCEPT !.open = FALSE] /\ jobs' = jobs
    BY <1>8 DEF OpenService
  <2>2. IsPage(page')
    BY <1>0, <2>1 DEF IsPage
  <2> QED
    BY <2>1, <2>2 DEF FormInv
<1>9. CASE RowsArrive \/ (\E o \in Others : OtherAdds(o)) \/ (\E n \in DOMAIN entries : OtherRemoves(n))
             \/ \E p \in Shape.low .. Shape.high : PortTaken(p)
  BY <1>2, <1>9 DEF RowsArrive, OtherAdds, OtherRemoves, PortTaken
<1> QED
  BY <1>3, <1>4, <1>5, <1>6, <1>7, <1>8, <1>9 DEF FormNext, CheckAdd, RunAdd, Refuse, ShowRefusal, LoseAnswer,
     LookForService, OpenService

LEMMA FormInvStep == FormInv /\ [FormNext]_formVars => FormInv'
<1>1. FormInv /\ FormNext => FormInv'
  BY UserKeeps, OtherStepsKeep
<1>2. FormInv /\ UNCHANGED formVars => FormInv'
  BY DEF FormInv, formVars
<1> QED
  BY <1>1, <1>2

(* What the editor shows, parsed again. *)
LEMMA EditorHolds == FormInv => EditorInStep
<1> SUFFICES ASSUME FormInv PROVE EditorInStep
  OBVIOUS
<1> DEFINE v == page.values
           e == ToStackEntry(v)
           t == EntryToYaml(v)
           kept == {k \in DOMAIN Shape.config : v.config[k] # ResolveDefault(k, v.name)}
           seed == IF Shape.seed THEN NormalizeSeedPath(v.seed) ELSE <<>>
<1>1. IsValues(v) /\ (page.draft # NoDraft <=> page.complains)
  BY DEF FormInv, IsPage
<1>2. ASSUME v.port # Odd, v.name # "unnamed"
      PROVE  FromYaml(t, v) = [v EXCEPT !.seed = IF Shape.seed THEN NormalizeSeedPath(@) ELSE @]
  <2> HIDE DEF v
  <2>1. /\ e.version = v.version /\ e.port = v.port /\ e.persist = v.persist
        /\ e.config = [k \in kept |-> v.config[k]] /\ e.seed = seed
    BY <1>2 DEF ToStackEntry
  <2> HIDE DEF e, seed
  <2>2. /\ t.name = (IF v.name = "" THEN "unnamed" ELSE v.name) /\ t.version = {v.version} /\ t.port = {v.port}
        /\ t.persist = {v.persist} /\ t.config = [k \in kept |-> v.config[k]]
        /\ t.seed = IF seed = <<>> THEN {} ELSE {seed}
    BY <2>1 DEF EntryToYaml, e
  <2> HIDE DEF t
  <2> DEFINE name == IF t.name = "unnamed" THEN "" ELSE t.name
             config == [k \in DOMAIN Shape.config |->
                          IF k \in DOMAIN t.config THEN t.config[k] ELSE ResolveDefault(k, name)]
  <2>3. name = v.name
    BY <1>2, <2>2
  <2>4. config = v.config
    <3>1. \A k \in DOMAIN Shape.config :
            (IF k \in DOMAIN t.config THEN t.config[k] ELSE ResolveDefault(k, name)) = v.config[k]
      BY <2>2, <2>3
    <3>2. v.config = [k \in DOMAIN Shape.config |-> v.config[k]]
      BY <1>1 DEF IsValues
    <3> HIDE DEF name
    <3> QED
      BY <3>1, <3>2
  <2>5. Given(t.version, v.version) = v.version /\ Given(t.port, v.port) = v.port
        /\ Given(t.persist, v.persist) = v.persist
    BY <2>2, GivenOne
  <2>6. Given(t.seed, <<>>) = seed
    BY <2>2, GivenOne, GivenNone
  <2>7. FromYaml(t, v) = [v EXCEPT !.name = name, !.version = v.version, !.port = v.port, !.persist = v.persist,
                                   !.config = config, !.seed = IF Shape.seed THEN Given(t.seed, <<>>) ELSE @]
    BY <2>5 DEF FromYaml
  <2> HIDE DEF name, config
  <2> DEFINE s == IF Shape.seed THEN seed ELSE v.seed
  <2>8. FromYaml(t, v) = [v EXCEPT !.name = v.name, !.version = v.version, !.port = v.port, !.persist = v.persist,
                                   !.config = v.config, !.seed = s]
    BY <2>3, <2>4, <2>6, <2>7
  <2>9. s = IF Shape.seed THEN NormalizeSeedPath(v.seed) ELSE v.seed
    BY DEF seed
  <2> HIDE DEF s
  <2>10. FromYaml(t, v) = [v EXCEPT !.seed = s]
    BY <1>1, <2>8 DEF IsValues
  <2> QED
    BY <2>9, <2>10
<1> QED
  BY <1>1, <1>2 DEF EditorInStep

(* What an operation that carries what its form showed writes. *)
LEMMA WritesAsShown ==
    ASSUME NEW j, IsAdd(j)
    PROVE  Completed(j.shown.name, j.body.entry) = AsShown(j.shown) /\ j.body.name = j.shown.name
<1> DEFINE v == j.shown
           e == j.body.entry
           kept == {k \in DOMAIN Shape.config : v.config[k] # ResolveDefault(k, v.name)}
           config == [k \in DOMAIN Shape.config |-> IF k \in DOMAIN e.config THEN e.config[k]
                                                    ELSE ResolveDefault(k, v.name)]
<1>1. j.body = ToAddBody(v) /\ IsValues(v) /\ v.port # Odd
  BY DEF IsAdd
<1> HIDE DEF v
<1>2. j.body.name = v.name /\ e = ToStackEntry(v)
  BY <1>1 DEF ToAddBody
<1>3. e = [version |-> v.version, port |-> v.port, persist |-> v.persist,
           config |-> [k \in kept |-> v.config[k]], seed |-> NormalizeSeedPath(v.seed)]
  <2>1. (IF Shape.seed THEN NormalizeSeedPath(v.seed) ELSE <<>>) = NormalizeSeedPath(v.seed)
    BY <1>1, NoSeed DEF IsValues
  <2> QED
    BY <1>1, <1>2, <2>1 DEF ToStackEntry
<1> HIDE DEF e
<1>4. config = v.config
  <2>1. \A k \in DOMAIN Shape.config :
          (IF k \in DOMAIN e.config THEN e.config[k] ELSE ResolveDefault(k, v.name)) = v.config[k]
    BY <1>3
  <2>2. v.config = [k \in DOMAIN Shape.config |-> v.config[k]]
    BY <1>1 DEF IsValues
  <2> QED
    BY <2>1, <2>2
<1>5. Completed(v.name, e) = [e EXCEPT !.config = config]
  BY DEF Completed
<1> HIDE DEF config
<1>6. Completed(v.name, e) = [e EXCEPT !.config = v.config]
  BY <1>4, <1>5
<1> DEFINE none == [k \in kept |-> v.config[k]]
           seed == NormalizeSeedPath(v.seed)
<1>7. e = [version |-> v.version, port |-> v.port, persist |-> v.persist, config |-> none, seed |-> seed]
  BY <1>3
<1> HIDE DEF none, seed
<1>8. [e EXCEPT !.config = v.config] =
        [version |-> v.version, port |-> v.port, persist |-> v.persist, config |-> v.config, seed |-> seed]
  BY <1>7
<1>9. Completed(v.name, e) = AsShown(v)
  BY <1>6, <1>8 DEF AsShown, seed
<1> QED
  BY <1>2, <1>9 DEF v, e

(* The step that writes an entry. *)
LEMMA WritesOnce ==
    ASSUME FormInv, [FormNext]_formVars, NEW i \in DOMAIN jobs,
           jobs[i].state # "written", jobs'[i].state = "written"
    PROVE  AddAccepted(jobs[i].body) /\ entries' = Assign(entries, jobs[i].body.name, jobs[i].body.entry)
<1>0. PICK S : jobs \in Seq(S) /\ \A j \in S : IsAdd(j)
  BY DEF FormInv
<1>1. jobs' # jobs
  OBVIOUS
<1>2. FormNext
  BY <1>1 DEF formVars
<1>3. ~FormUser
  <2>1. SUFFICES ASSUME PressAdd PROVE FALSE
    BY <1>1, UserKeeps
  <2>2. \E x : jobs' = Append(jobs, x)
    BY <1>1, <2>1 DEF PressAdd
  <2>3. jobs'[i] = jobs[i]
    BY <1>0, <2>2
  <2> QED
    BY <2>3
<1>4. ASSUME NEW k, NEW s, s # "written", jobs' = [jobs EXCEPT ![k].state = s]
      PROVE  FALSE
  <2>1. jobs'[i].state \in {jobs[i].state, s}
    BY <1>4, JobMoves
  <2> QED
    BY <1>4, <2>1
<1>5. CASE CheckAdd
  <2> DEFINE body == Current.body
  <2>1. \/ Refuse("name", NoPort) \/ Refuse("toast", NoPort) \/ Refuse("port", FreePort(body.entry.port))
        \/ jobs' = [jobs EXCEPT ![adding.id].state = "queued"]
    BY <1>5 DEF CheckAdd
  <2> QED
    BY <1>4, <2>1 DEF Refuse
<1>6. CASE LoseAnswer
  BY <1>1, <1>4, <1>6 DEF LoseAnswer
<1>7. CASE \E k \in DOMAIN jobs : RunAdd(k)
  <2>1. PICK k \in DOMAIN jobs : RunAdd(k)
    BY <1>7
  <2>2. jobs' # [jobs EXCEPT ![k].state = "failed"]
    BY <1>4
  <2>3. /\ AddAccepted(jobs[k].body)
        /\ entries' = Assign(entries, jobs[k].body.name, jobs[k].body.entry)
        /\ jobs' = [jobs EXCEPT ![k].state = "written"]
    BY <2>1, <2>2 DEF RunAdd
  <2>4. i = k
    BY <2>3, JobMoves
  <2> QED
    BY <2>3, <2>4
<1> QED
  BY <1>1, <1>2, <1>3, <1>5, <1>6, <1>7 DEF FormNext, ShowRefusal, LookForService, OpenService, RowsArrive,
     OtherAdds, OtherRemoves, PortTaken

LEMMA AddShows ==
    ASSUME FormInv, [FormNext]_formVars, NEW i \in DOMAIN jobs,
           jobs[i].state # "written", jobs'[i].state = "written"
    PROVE  LET v == jobs[i].shown
           IN  /\ v.name \notin DOMAIN entries
               /\ Completed(v.name, entries'[v.name]) = AsShown(v)
               /\ \A n \in DOMAIN entries : entries'[n] = entries[n]
<1>1. PICK S : jobs \in Seq(S) /\ \A j \in S : IsAdd(j)
  BY DEF FormInv
<1>2. IsAdd(jobs[i])
  BY <1>1
<1> DEFINE j == jobs[i]
<1> HIDE DEF j
<1>3. Completed(j.shown.name, j.body.entry) = AsShown(j.shown) /\ j.body.name = j.shown.name
  BY <1>2, WritesAsShown DEF j
<1>4. AddAccepted(j.body) /\ entries' = Assign(entries, j.body.name, j.body.entry)
  BY WritesOnce DEF j
<1>5. j.body.name \notin DOMAIN entries
  BY <1>4 DEF AddAccepted
<1>6. entries'[j.body.name] = j.body.entry /\ \A n \in DOMAIN entries : entries'[n] = entries[n]
  BY <1>4, <1>5 DEF Assign
<1> QED
  BY <1>3, <1>5, <1>6 DEF j

-----------------------------------------------------------------------------
(* The import dialog *)

IsImport(m) ==
    m = [f \in {"name", "root", "services", "step", "state", "page"} |-> m[f]]

(* Only supported items are kept.                                          *)
IsReview(r) ==
    /\ r = [f \in {"key", "compose", "name", "root", "kept", "faults", "server", "failed", "sending"} |-> r[f]]
    /\ r.kept \subseteq Supported(r.compose)
IsDialog(d) ==
    /\ d = [f \in {"open", "parsed", "shows", "reading", "failed"} |-> d[f]]
    /\ d.open \in BOOLEAN

(* An open dialog shows the review of what it parsed last. *)
ReviewInv == IsDialog(dialog) /\ IsReview(review) /\ (dialog.open => review.key = dialog.parsed.key)

(* The file of a written import is there. *)
SentInv ==
    /\ \E S : imports \in Seq(S) /\ \A m \in S : IsImport(m)
    /\ \A i \in DOMAIN imports : imports[i].state = "written" => imports[i].root \in DOMAIN stacks

LEMMA FreshReview == \A c : IsReview(Fresh(c)) /\ Fresh(c).key = c.key
<1> TAKE c
<1> DEFINE kept == Supported(c)
           faults == NameFaults(c.name)
           key == c.key
           name == c.name
<1>1. Fresh(c) = [NoReview EXCEPT !.key = key, !.compose = c, !.name = name, !.kept = kept, !.faults = faults]
  BY DEF Fresh
<1> HIDE DEF kept, faults, key, name
<1>2. /\ Fresh(c) = [f \in {"key", "compose", "name", "root", "kept", "faults", "server", "failed", "sending"} |->
                        Fresh(c)[f]]
      /\ Fresh(c).kept = kept /\ Fresh(c).key = key /\ Fresh(c).compose = c
  BY <1>1 DEF NoReview
<1> QED
  BY <1>2 DEF IsReview, kept, key

LEMMA EmptyReview == IsReview(NoReview) /\ NoReview.key = NoCompose.key
BY DEF IsReview, NoReview

LEMMA ClosedDialog == IsDialog(dialog) => IsDialog(Closed) /\ Closed.open = FALSE
BY DEF IsDialog, Closed

LEMMA SteppedDialog ==
    ASSUME NEW d, IsDialog(d)
    PROVE  IsDialog(Step(d)) /\ Step(d).open = d.open /\ Step(d).parsed = d.parsed
BY DEF IsDialog, Step

LEMMA ReviewInvInit == InitImport => ReviewInv
<1> SUFFICES ASSUME InitImport PROVE ReviewInv
  OBVIOUS
<1>1. /\ dialog = [open |-> FALSE, parsed |-> NoCompose, shows |-> 0, reading |-> FALSE, failed |-> FALSE]
      /\ review = NoReview
  BY DEF InitImport
<1>2. IsDialog(dialog)
  BY <1>1 DEF IsDialog
<1> QED
  BY <1>1, <1>2, EmptyReview DEF ReviewInv

(* A changed review keeps its key and its compose file. *)
LEMMA ReviewChanges ==
    ASSUME ReviewInv, dialog' = dialog, IsReview(review'), review'.key = review.key
    PROVE  ReviewInv'
BY DEF ReviewInv

LEMMA FieldTyped ==
    ASSUME ReviewInv, NEW n, NEW faults, NEW server
    PROVE  /\ IsReview([review EXCEPT !.name = n, !.faults = faults, !.server = server])
           /\ [review EXCEPT !.name = n, !.faults = faults, !.server = server].key = review.key
           /\ IsReview([review EXCEPT !.root = n, !.faults = faults])
           /\ [review EXCEPT !.root = n, !.faults = faults].key = review.key
           /\ IsReview([review EXCEPT !.faults = faults]) /\ [review EXCEPT !.faults = faults].key = review.key
BY DEF ReviewInv, IsReview

LEMMA AnswerShown ==
    ASSUME ReviewInv, NEW server, NEW failed, NEW sending
    PROVE  /\ IsReview([review EXCEPT !.server = server, !.sending = sending])
           /\ [review EXCEPT !.server = server, !.sending = sending].key = review.key
           /\ IsReview([review EXCEPT !.failed = failed, !.sending = sending])
           /\ [review EXCEPT !.failed = failed, !.sending = sending].key = review.key
           /\ IsReview([review EXCEPT !.failed = failed]) /\ [review EXCEPT !.failed = failed].key = review.key
BY DEF ReviewInv, IsReview

LEMMA ReviewStep == ReviewInv /\ ImportNext => ReviewInv'
<1> SUFFICES ASSUME ReviewInv, ImportNext PROVE ReviewInv'
  OBVIOUS
<1>0. IsDialog(dialog) /\ IsReview(review) /\ (dialog.open => review.key = dialog.parsed.key)
  BY DEF ReviewInv
<1>1. ASSUME dialog' = Closed, review' = NoReview PROVE ReviewInv'
  BY <1>0, <1>1, ClosedDialog, EmptyReview DEF ReviewInv
<1>2. CASE OpenImport
  <2> DEFINE d == [dialog EXCEPT !.open = TRUE]
  <2>1. IsDialog(d) /\ d.parsed = dialog.parsed
    BY <1>0 DEF IsDialog
  <2>2. dialog' = Step(d)
    BY <1>2 DEF OpenImport
  <2> HIDE DEF d
  <2>3. IsDialog(dialog') /\ dialog'.parsed = dialog.parsed
    BY <2>1, <2>2, SteppedDialog
  <2>4. review' = IF dialog.parsed = NoCompose THEN NoReview ELSE Fresh(dialog.parsed)
    BY <1>2 DEF OpenImport
  <2> QED
    BY <2>3, <2>4, EmptyReview, FreshReview DEF ReviewInv
<1>3. CASE StepBack
  <2> DEFINE d == [dialog EXCEPT !.parsed = NoCompose]
  <2>1. IsDialog(d) /\ d.parsed = NoCompose
    BY <1>0 DEF IsDialog
  <2>2. dialog' = Step(d) /\ review' = NoReview
    BY <1>3 DEF StepBack
  <2> HIDE DEF d
  <2> QED
    BY <2>1, <2>2, SteppedDialog, EmptyReview DEF ReviewInv
<1>4. CASE \E c \in Composes : PickCompose(c)
  <2>1. \/ dialog' = [dialog EXCEPT !.failed = TRUE]
        \/ dialog' = [dialog EXCEPT !.reading = TRUE, !.failed = FALSE]
    BY <1>4 DEF PickCompose
  <2>2. IsDialog(dialog') /\ dialog'.parsed = dialog.parsed /\ dialog'.open = dialog.open
    BY <1>0, <2>1 DEF IsDialog
  <2> QED
    BY <1>0, <1>4, <2>2 DEF PickCompose, ReviewInv
<1>5. CASE \E r \in reads : PreviewArrives(r)
  <2>1. PICK r \in reads : PreviewArrives(r)
    BY <1>5
  <2> DEFINE c == r.compose
             d == [dialog EXCEPT !.parsed = c]
  <2>2. IsDialog(d) /\ d.parsed = c /\ d.open = dialog.open
    BY <1>0 DEF IsDialog
  <2>3. dialog' = Step(d) \/ dialog' = d
    BY <2>1 DEF PreviewArrives
  <2>4. review' \in Shown_(c)
    BY <2>1 DEF PreviewArrives
  <2> HIDE DEF d, c
  <2>5. IsDialog(dialog') /\ dialog'.parsed = c /\ dialog'.open = dialog.open
    BY <2>2, <2>3, SteppedDialog
  <2> DEFINE sending == review.sending
             server == review.server
             failed == review.failed
             f == [Fresh(c) EXCEPT !.sending = sending, !.server = server, !.failed = failed]
  <2>6. IsReview(f) /\ f.key = c.key
    <3> HIDE DEF sending, server, failed
    <3> QED
      BY FreshReview DEF IsReview
  <2>7. CASE ~dialog.open
    <3>1. review' = NoReview
      BY <2>4, <2>7 DEF Shown_
    <3> QED
      BY <2>5, <2>7, <3>1, EmptyReview DEF ReviewInv
  <2>8. CASE dialog.open /\ review.key = c.key
    <3>1. review' \in {f, review}
      BY <2>4, <2>8 DEF Shown_
    <3> HIDE DEF f
    <3> QED
      BY <1>0, <2>5, <2>6, <2>8, <3>1 DEF ReviewInv
  <2>9. CASE dialog.open /\ review.key # c.key
    <3>1. review' = Fresh(c)
      BY <2>4, <2>9 DEF Shown_
    <3> QED
      BY <2>5, <3>1, FreshReview DEF ReviewInv
  <2> QED
    BY <1>0, <2>7, <2>8, <2>9 DEF IsDialog
<1>6. CASE \E r \in reads : PreviewFails(r)
  <2>1. dialog' = [dialog EXCEPT !.reading = FALSE, !.failed = TRUE] \/ dialog' = dialog
    BY <1>6 DEF PreviewFails
  <2>2. IsDialog(dialog') /\ dialog'.parsed = dialog.parsed /\ dialog'.open = dialog.open
    BY <1>0, <2>1 DEF IsDialog
  <2> QED
    BY <1>0, <1>6, <2>2 DEF PreviewFails, ReviewInv
<1>7. CASE \E n \in TypedProjects : TypeProject(n)
  <2>1. PICK n \in TypedProjects : TypeProject(n)
    BY <1>7
  <2>2. \E faults : review' = [review EXCEPT !.name = n, !.faults = faults, !.server = FALSE]
    BY <2>1 DEF TypeProject, Changes_
  <2>3. dialog' = dialog
    BY <2>1 DEF TypeProject, Changes_
  <2>4. PICK faults : review' = [review EXCEPT !.name = n, !.faults = faults, !.server = FALSE]
    BY <2>2
  <2>5. IsReview(review') /\ review'.key = review.key
    BY <1>0, <2>4 DEF IsReview
  <2> QED
    BY <2>3, <2>5, ReviewChanges
<1>8. ASSUME dialog' = dialog,
             review' = review \/ \E r, faults : review' = [review EXCEPT !.root = r, !.faults = faults]
      PROVE  ReviewInv'
  <2>1. CASE review' = review
    BY <1>0, <1>8, <2>1, ReviewChanges
  <2>2. CASE \E r, faults : review' = [review EXCEPT !.root = r, !.faults = faults]
    <3>1. PICK r, faults : review' = [review EXCEPT !.root = r, !.faults = faults]
      BY <2>2
    <3>2. IsReview(review') /\ review'.key = review.key
      BY <3>1, FieldTyped
    <3> QED
      BY <1>8, <3>2, ReviewChanges
  <2> QED
    BY <1>8, <2>1, <2>2
<1>9. CASE \E r \in TypedRoots : TypeRoot(r)
  BY <1>8, <1>9 DEF TypeRoot, Changes_
<1>10. CASE \E i \in DOMAIN review.compose.items : ToggleItem(i)
  <2>1. PICK i \in DOMAIN review.compose.items : ToggleItem(i)
    BY <1>10
  <2> DEFINE kept == IF i \in review.kept THEN review.kept \ {i} ELSE review.kept \cup {i}
  <2>2. review' = [review EXCEPT !.kept = kept] /\ dialog' = dialog
    BY <2>1 DEF ToggleItem, Changes_
  <2>3. kept \subseteq Supported(review.compose)
    BY <1>0, <2>1 DEF ToggleItem, IsReview
  <2> HIDE DEF kept
  <2>4. IsReview(review') /\ review'.key = review.key
    BY <1>0, <2>2, <2>3 DEF IsReview
  <2> QED
    BY <2>2, <2>4, ReviewChanges
<1>11. CASE ChooseFolder
  BY <1>8, <1>11 DEF ChooseFolder
<1>12. CASE \E s \in choosing, r \in TypedRoots : FolderChosen(s, r)
  BY <1>8, <1>12 DEF FolderChosen
<1>13. CASE PressImport
  <2>1. dialog' = dialog
    BY <1>13 DEF PressImport
  <2>2. \/ \E faults : review' = [review EXCEPT !.faults = faults]
        \/ review' = [review EXCEPT !.failed = FALSE]
        \/ review' = [review EXCEPT !.failed = FALSE, !.sending = TRUE]
    BY <1>13 DEF PressImport
  <2>3. ASSUME NEW faults, review' = [review EXCEPT !.faults = faults]
        PROVE  IsReview(review') /\ review'.key = review.key
    BY <2>3, FieldTyped
  <2>4. CASE review' = [review EXCEPT !.failed = FALSE]
    <3>1. IsReview(review') /\ review'.key = review.key
      BY <2>4, AnswerShown
    <3> QED
      BY <2>1, <3>1, ReviewChanges
  <2>5. CASE review' = [review EXCEPT !.failed = FALSE, !.sending = TRUE]
    <3>1. IsReview(review') /\ review'.key = review.key
      BY <2>5, AnswerShown
    <3> QED
      BY <2>1, <3>1, ReviewChanges
  <2> QED
    BY <2>1, <2>2, <2>3, <2>4, <2>5, ReviewChanges
<1>14. CASE \E i \in DOMAIN imports : CheckImport(i) \/ PlanImport(i) \/ RegisterImport(i) \/ WriteImport(i)
  BY <1>8, <1>14 DEF CheckImport, PlanImport, RegisterImport, WriteImport
<1>15. CASE \E i \in DOMAIN imports : ImportAccepted(i)
  BY <1>1, <1>15 DEF ImportAccepted
<1>16. CASE \E i \in DOMAIN imports : ImportRefused(i) \/ ImportUnanswered(i)
  <2>1. dialog' = dialog
    BY <1>16 DEF ImportRefused, ImportUnanswered
  <2>2. \/ review' = review
        \/ review' = [review EXCEPT !.server = TRUE, !.sending = FALSE]
        \/ review' = [review EXCEPT !.failed = TRUE, !.sending = FALSE]
    BY <1>16 DEF ImportRefused, ImportUnanswered
  <2>3. CASE review' = [review EXCEPT !.server = TRUE, !.sending = FALSE]
    <3>1. IsReview(review') /\ review'.key = review.key
      BY <2>3, AnswerShown
    <3> QED
      BY <2>1, <3>1, ReviewChanges
  <2>4. CASE review' = [review EXCEPT !.failed = TRUE, !.sending = FALSE]
    <3>1. IsReview(review') /\ review'.key = review.key
      BY <2>4, AnswerShown
    <3> QED
      BY <2>1, <3>1, ReviewChanges
  <2> QED
    BY <1>0, <2>1, <2>2, <2>3, <2>4, ReviewChanges
<1>17. CASE \E i \in DOMAIN imports : FollowImport(i) \/ OpenProject(i)
  BY <1>1, <1>8, <1>17 DEF FollowImport, OpenProject
<1>18. CASE CancelImport
  BY <1>1, <1>18 DEF CancelImport
<1>19. CASE (\E n \in TypedProjects : OtherCreates(n)) \/ ProjectsArrive
  BY <1>8, <1>19 DEF OtherCreates, ProjectsArrive
<1> QED
  BY <1>2, <1>3, <1>4, <1>5, <1>6, <1>7, <1>9, <1>10, <1>11, <1>12, <1>13, <1>14, <1>15, <1>16, <1>17, <1>18, <1>19
     DEF ImportNext

LEMMA ReviewInvStep == ReviewInv /\ [ImportNext]_importVars => ReviewInv'
<1>1. ReviewInv /\ UNCHANGED importVars => ReviewInv'
  BY DEF ReviewInv, importVars
<1> QED
  BY <1>1, ReviewStep

LEMMA ReviewHolds == ReviewInv => ReviewTrue
BY DEF ReviewInv, ReviewTrue, Reviewing, IsReview

-----------------------------------------------------------------------------
(* The imports on their way *)

(* A step of the server or of the page moves one import. *)
LEMMA ImportMoves ==
    ASSUME SentInv, NEW i, NEW s,
           imports' = [imports EXCEPT ![i].state = s] \/ imports' = [imports EXCEPT ![i].page = s]
    PROVE  /\ \E S : imports' \in Seq(S) /\ \A m \in S : IsImport(m)
           /\ DOMAIN imports' = DOMAIN imports
           /\ \A k \in DOMAIN imports :
                /\ imports'[k].name = imports[k].name /\ imports'[k].root = imports[k].root
                /\ k # i => imports'[k] = imports[k]
           /\ i \in DOMAIN imports /\ imports' = [imports EXCEPT ![i].state = s] =>
                imports'[i].state = s /\ imports'[i].page = imports[i].page
           /\ i \in DOMAIN imports /\ imports' = [imports EXCEPT ![i].page = s] =>
                imports'[i].page = s /\ imports'[i].state = imports[i].state
<1>1. PICK S : imports \in Seq(S) /\ \A m \in S : IsImport(m)
  BY DEF SentInv
<1>2. ASSUME NEW m, IsImport(m)
      PROVE  /\ IsImport([m EXCEPT !.state = s]) /\ IsImport([m EXCEPT !.page = s])
             /\ [m EXCEPT !.state = s].name = m.name /\ [m EXCEPT !.state = s].root = m.root
             /\ [m EXCEPT !.page = s].name = m.name /\ [m EXCEPT !.page = s].root = m.root
             /\ [m EXCEPT !.state = s].state = s /\ [m EXCEPT !.state = s].page = m.page
             /\ [m EXCEPT !.page = s].page = s /\ [m EXCEPT !.page = s].state = m.state
  BY <1>2 DEF IsImport
<1> DEFINE T == S \cup {[m EXCEPT !.state = s] : m \in S} \cup {[m EXCEPT !.page = s] : m \in S}
<1>3. \A m \in T : IsImport(m)
  BY <1>1, <1>2
<1>4. DOMAIN imports = 1 .. Len(imports) /\ Len(imports) \in Nat /\ \A k \in DOMAIN imports : imports[k] \in S
  BY <1>1
<1>5. DOMAIN imports' = DOMAIN imports
  OBVIOUS
<1>6. \A k \in DOMAIN imports : k # i => imports'[k] = imports[k]
  BY <1>4
<1>7. i \in DOMAIN imports =>
        \/ imports' = [imports EXCEPT ![i].state = s] /\ imports'[i] = [imports[i] EXCEPT !.state = s]
        \/ imports' = [imports EXCEPT ![i].page = s] /\ imports'[i] = [imports[i] EXCEPT !.page = s]
  BY <1>4
<1>8. imports' \in Seq(T)
  <2>1. imports' = [k \in 1 .. Len(imports) |-> imports'[k]]
    BY <1>4
  <2>2. \A k \in 1 .. Len(imports) : imports'[k] \in T
    BY <1>4, <1>6, <1>7
  <2> HIDE DEF T
  <2> QED
    BY <1>4, <2>1, <2>2, Typed
<1>9. \A k \in DOMAIN imports : imports'[k].name = imports[k].name /\ imports'[k].root = imports[k].root
  <2>1. ASSUME NEW k \in DOMAIN imports PROVE imports'[k].name = imports[k].name /\ imports'[k].root = imports[k].root
    <3>1. CASE k # i
      BY <1>6, <2>1, <3>1
    <3>2. CASE k = i
      <4>1. IsImport(imports[i])
        BY <1>1, <1>4, <2>1, <3>2
      <4> QED
        BY ZenonT(40), <1>2, <1>7, <2>1, <3>2, <4>1
    <3> QED
      BY <3>1, <3>2
  <2> QED
    BY <2>1
<1>10. i \in DOMAIN imports /\ imports' = [imports EXCEPT ![i].state = s] =>
         imports'[i].state = s /\ imports'[i].page = imports[i].page
  BY <1>1, <1>2, <1>4
<1>11. i \in DOMAIN imports /\ imports' = [imports EXCEPT ![i].page = s] =>
         imports'[i].page = s /\ imports'[i].state = imports[i].state
  BY <1>1, <1>2, <1>4
<1> QED
  BY <1>3, <1>5, <1>6, <1>8, <1>9, <1>10, <1>11

LEMMA SentInvInit == InitImport => SentInv
<1> SUFFICES ASSUME InitImport PROVE SentInv
  OBVIOUS
<1>1. imports = <<>> /\ <<>> \in Seq({}) /\ \A m \in {} : IsImport(m)
  BY DEF InitImport
<1>2. DOMAIN imports = {}
  BY <1>1
<1> QED
  BY <1>1, <1>2 DEF SentInv

(* Stack files are never taken away. *)
LEMMA FilesStay == ImportNext => DOMAIN stacks \subseteq DOMAIN stacks'
<1> SUFFICES ASSUME ImportNext PROVE DOMAIN stacks \subseteq DOMAIN stacks'
  OBVIOUS
<1>1. \A f, n, x : DOMAIN f \subseteq DOMAIN Assign(f, n, x)
  BY DEF Assign
<1>2. stacks' = stacks \/ \E n, x : stacks' = Assign(stacks, n, x)
  BY Zenon DEF ImportNext, OpenImport, CancelImport, StepBack, PickCompose, PreviewArrives, PreviewFails, TypeProject,
     TypeRoot, ToggleItem, Changes_, ChooseFolder, FolderChosen, PressImport, CheckImport, PlanImport, RegisterImport,
     WriteImport, ImportAccepted, ImportRefused, ImportUnanswered, FollowImport, OpenProject,
     OtherCreates, ProjectsArrive, Server_
<1> QED
  BY <1>1, <1>2

(* A new import has not been written, and no import is forgotten. *)
LEMMA Pressed ==
    ASSUME SentInv, PressImport
    PROVE  /\ \E S : imports' \in Seq(S) /\ \A m \in S : IsImport(m)
           /\ DOMAIN imports \subseteq DOMAIN imports'
           /\ \A k \in DOMAIN imports : imports'[k] = imports[k]
           /\ \A k \in DOMAIN imports' \ DOMAIN imports : imports'[k].state = "sent"
<1>1. PICK S : imports \in Seq(S) /\ \A m \in S : IsImport(m)
  BY DEF SentInv
<1> DEFINE m == [name |-> review.name, root |-> RootOf(review.name, review.root),
                 services |-> {review.compose.items[i].name : i \in review.kept},
                 step |-> dialog.shows, state |-> "sent", page |-> "waits"]
<1>2. imports' = imports \/ imports' = Append(imports, m)
  BY Zenon DEF PressImport
<1>3. IsImport(m) /\ m.state = "sent"
  BY DEF IsImport
<1> HIDE DEF m
<1>4. CASE imports' = imports
  BY <1>1, <1>4
<1>5. CASE imports' = Append(imports, m)
  <2>1. imports \in Seq(S \cup {m})
    BY <1>1
  <2>2. imports' \in Seq(S \cup {m}) /\ \A x \in S \cup {m} : IsImport(x)
    BY <1>1, <1>3, <1>5, <2>1
  <2>3. /\ DOMAIN imports' = 1 .. Len(imports) + 1 /\ DOMAIN imports = 1 .. Len(imports) /\ Len(imports) \in Nat
        /\ imports'[Len(imports) + 1] = m /\ \A k \in 1 .. Len(imports) : imports'[k] = imports[k]
    BY <1>5, <2>1
  <2> QED
    BY <1>3, <2>2, <2>3
<1> QED
  BY <1>2, <1>4, <1>5

(* Which steps move an import, and where its file is written. *)
LEMMA SentStep ==
    ASSUME SentInv, ImportNext
    PROVE  \/ imports' = imports
           \/ PressImport
           \/ \E i \in DOMAIN imports : \E s :
                /\ imports' = [imports EXCEPT ![i].state = s]
                /\ s = "written" => stacks' = Assign(stacks, imports[i].root,
                                                     [name |-> imports[i].name, services |-> imports[i].services])
           \/ \E i \in DOMAIN imports : \E s :
                /\ imports' = [imports EXCEPT ![i].page = s]
                /\ s \in {"found", "missed"} => FollowImport(i)
                /\ s = "opened" => OpenProject(i)
<1> DEFINE Moved(i, s) ==
             /\ imports' = [imports EXCEPT ![i].state = s]
             /\ s = "written" => stacks' = Assign(stacks, imports[i].root,
                                                  [name |-> imports[i].name, services |-> imports[i].services])
           Answered(i, s) ==
             /\ imports' = [imports EXCEPT ![i].page = s]
             /\ s \in {"found", "missed"} => FollowImport(i)
             /\ s = "opened" => OpenProject(i)
<1>0. \A i, s : imports' = [imports EXCEPT ![i].state = s] /\ s # "written" => Moved(i, s)
  OBVIOUS
<1>1. CASE \E i \in DOMAIN imports : CheckImport(i) \/ PlanImport(i) \/ RegisterImport(i) \/ WriteImport(i)
  <2>1. PICK i \in DOMAIN imports : CheckImport(i) \/ PlanImport(i) \/ RegisterImport(i) \/ WriteImport(i)
    BY <1>1
  <2>2. CASE WriteImport(i)
    <3>1. \/ imports' = [imports EXCEPT ![i].state = "over"]
          \/ /\ imports' = [imports EXCEPT ![i].state = "written"]
             /\ stacks' = Assign(stacks, imports[i].root, [name |-> imports[i].name, services |-> imports[i].services])
      BY <2>2 DEF WriteImport
    <3> QED
      BY <1>0, <3>1
  <2>3. CASE RegisterImport(i)
    <3>1. imports' = [imports EXCEPT ![i].state = "over"] \/ imports' = [imports EXCEPT ![i].state = "writing"]
      BY <2>3 DEF RegisterImport
    <3> QED
      BY <1>0, <3>1
  <2>4. CASE PlanImport(i)
    <3> DEFINE s == IF Exists(i) THEN "over" ELSE "planned"
    <3>1. imports' = [imports EXCEPT ![i].state = s] /\ s # "written"
      BY <2>4 DEF PlanImport
    <3> HIDE DEF s
    <3> QED
      BY <1>0, <3>1
  <2>5. CASE CheckImport(i)
    <3> DEFINE s == IF imports[i].root \in RefusedRoots THEN "invalid" ELSE IF Exists(i) THEN "exists" ELSE "queued"
    <3>1. imports' = [imports EXCEPT ![i].state = s] /\ s # "written"
      BY <2>5 DEF CheckImport
    <3> HIDE DEF s
    <3> QED
      BY <1>0, <3>1
  <2> QED
    BY <2>1, <2>2, <2>3, <2>4, <2>5
<1>2. CASE \E i \in DOMAIN imports :
             ImportAccepted(i) \/ ImportRefused(i) \/ ImportUnanswered(i) \/ FollowImport(i) \/ OpenProject(i)
  <2>1. PICK i \in DOMAIN imports :
          ImportAccepted(i) \/ ImportRefused(i) \/ ImportUnanswered(i) \/ FollowImport(i) \/ OpenProject(i)
    BY <1>2
  <2>2. CASE FollowImport(i)
    <3>1. PICK s \in {"found", "missed", "failed"} : imports' = [imports EXCEPT ![i].page = s]
      BY <2>2 DEF FollowImport
    <3>2. Answered(i, s)
      BY <2>2, <3>1
    <3> QED
      BY <3>2
  <2>5. CASE OpenProject(i)
    <3>1. Answered(i, "opened")
      BY <2>5 DEF OpenProject
    <3> QED
      BY <3>1
  <2>3. CASE ImportAccepted(i)
    <3>1. Answered(i, "follows")
      BY <2>3 DEF ImportAccepted
    <3> QED
      BY <3>1
  <2>4. CASE ImportRefused(i) \/ ImportUnanswered(i)
    <3>1. imports' = [imports EXCEPT ![i].page = "done"]
      BY <2>4 DEF ImportRefused, ImportUnanswered
    <3>2. Answered(i, "done")
      BY <3>1
    <3> QED
      BY <3>2
  <2> QED
    BY <2>1, <2>2, <2>3, <2>4, <2>5
<1> QED
  BY <1>1, <1>2 DEF ImportNext, OpenImport, CancelImport, StepBack, PickCompose, PreviewArrives, PreviewFails,
     TypeProject, TypeRoot, ToggleItem, Changes_, ChooseFolder, FolderChosen, OtherCreates, ProjectsArrive, Server_

LEMMA SentInvStep == SentInv /\ [ImportNext]_importVars => SentInv'
<1> SUFFICES ASSUME SentInv, [ImportNext]_importVars PROVE SentInv'
  OBVIOUS
<1>0. \A k \in DOMAIN imports : imports[k].state = "written" => imports[k].root \in DOMAIN stacks
  BY DEF SentInv
<1>1. CASE UNCHANGED importVars
  BY <1>1 DEF SentInv, importVars
<1>2. CASE ImportNext
  <2>1. DOMAIN stacks \subseteq DOMAIN stacks'
    BY <1>2, FilesStay
  <2>2. CASE imports' = imports
    BY <2>1, <2>2 DEF SentInv
  <2>3. CASE PressImport
    BY <1>0, <2>1, <2>3, Pressed DEF SentInv
  <2>4. ASSUME NEW i \in DOMAIN imports, NEW s, imports' = [imports EXCEPT ![i].page = s]
        PROVE  SentInv'
    <3>1. /\ DOMAIN imports' = DOMAIN imports /\ imports'[i].state = imports[i].state
          /\ \A k \in DOMAIN imports : /\ imports'[k].root = imports[k].root
                                       /\ k # i => imports'[k] = imports[k]
      BY <2>4, ImportMoves
    <3>2. \A k \in DOMAIN imports' : imports'[k].state = "written" => imports'[k].root \in DOMAIN stacks'
      BY <1>0, <2>1, <3>1
    <3> QED
      BY <2>4, <3>2, ImportMoves DEF SentInv
  <2>5. ASSUME NEW i \in DOMAIN imports, NEW s, imports' = [imports EXCEPT ![i].state = s],
               s = "written" => stacks' = Assign(stacks, imports[i].root,
                                                 [name |-> imports[i].name, services |-> imports[i].services])
        PROVE  SentInv'
    <3>1. /\ DOMAIN imports' = DOMAIN imports /\ imports'[i].state = s
          /\ \A k \in DOMAIN imports : /\ imports'[k].root = imports[k].root
                                       /\ k # i => imports'[k] = imports[k]
      BY <2>5, ImportMoves
    <3>2. s = "written" => imports[i].root \in DOMAIN stacks'
      BY <2>5 DEF Assign
    <3>3. \A k \in DOMAIN imports' : imports'[k].state = "written" => imports'[k].root \in DOMAIN stacks'
      BY <1>0, <2>1, <3>1, <3>2
    <3> QED
      BY <2>5, <3>3, ImportMoves DEF SentInv
  <2> QED
    BY <1>2, <2>2, <2>3, <2>4, <2>5, SentStep
<1> QED
  BY <1>1, <1>2

(* What the page does once an accepted import was followed. *)
Followed(i) ==
  /\ Becomes(i, "found") => imports[i].name \in Registered /\ registry[imports[i].name] \in DOMAIN stacks
  /\ Becomes(i, "opened") => imports[i].page = "found" /\ at' = imports[i].name
  /\ Becomes(i, "missed") /\ imports[i].state = "written" =>
       imports[i].name \notin Registered \/ registry[imports[i].name] # imports[i].root

LEMMA Follows ==
    ASSUME SentInv, [ImportNext]_importVars, NEW i \in DOMAIN imports
    PROVE  Followed(i)
<1>1. SUFFICES ASSUME NEW next \in {"found", "opened", "missed"}, Becomes(i, next)
               PROVE  Followed(i)
  BY DEF Followed
<1>1a. imports'[i].page = next /\ imports[i].page # next
  BY <1>1 DEF Becomes
<1>2. ImportNext
  BY <1>1a DEF importVars
<1>3. ~PressImport
  BY <1>1a, Pressed
<1>4. ASSUME NEW k \in DOMAIN imports, NEW s, imports' = [imports EXCEPT ![k].state = s]
      PROVE  FALSE
  BY <1>1a, <1>4, ImportMoves
<1>5. PICK k \in DOMAIN imports : \E s :
        /\ imports' = [imports EXCEPT ![k].page = s]
        /\ s \in {"found", "missed"} => FollowImport(k)
        /\ s = "opened" => OpenProject(k)
  BY <1>1a, <1>2, <1>3, <1>4, SentStep
<1>5a. PICK s : /\ imports' = [imports EXCEPT ![k].page = s]
                /\ s \in {"found", "missed"} => FollowImport(k)
                /\ s = "opened" => OpenProject(k)
  BY <1>5
<1>6. k = i /\ imports'[i].page = s
  BY <1>1a, <1>5a, ImportMoves
<1>7. CASE s = "opened"
  <2>1. imports[i].page = "found" /\ at' = imports[i].name
    BY <1>5a, <1>6, <1>7 DEF OpenProject
  <2> QED
    BY <1>6, <1>7, <2>1 DEF Followed, Becomes
<1>8. CASE s \in {"found", "missed"}
  <2> DEFINE there == imports[i].name \in Registered /\ registry[imports[i].name] \in DOMAIN stacks
  <2>1. FollowImport(i)
    BY <1>5a, <1>6, <1>8
  <2>2. PICK p \in {IF there THEN "found" ELSE "missed", "failed"} : imports' = [imports EXCEPT ![i].page = p]
    BY <2>1 DEF FollowImport
  <2>3. imports'[i].page = p
    BY <2>2, ImportMoves
  <2>4. p = s
    BY <1>6, <2>3
  <2>5. (s = "found" => there) /\ (s = "missed" => ~there)
    BY <1>8, <2>2, <2>4
  <2>6. imports[i].state = "written" => imports[i].root \in DOMAIN stacks
    BY DEF SentInv
  <2> QED
    BY <1>6, <1>8, <2>5, <2>6 DEF Followed, Becomes
<1> QED
  BY <1>1a, <1>6, <1>7, <1>8

(* Both forms, for every definition, every text and any number of edits,   *)
(* requests, other tabs and lost answers.                                  *)
THEOREM FormsAreTrue == FormSpec /\ ImportSpec => FormsTrue
<1>1. FormSpec => []FormInv
  BY FormInvInit, FormInvStep, PTL DEF FormSpec
<1>2. ImportSpec => []ReviewInv
  BY ReviewInvInit, ReviewInvStep, PTL DEF ImportSpec
<1>3. ImportSpec => []SentInv
  BY SentInvInit, SentInvStep, PTL DEF ImportSpec
<1>4. FormSpec => AddsAsShown
  <2>1. FormInv /\ [FormNext]_formVars =>
          [\A i \in DOMAIN jobs : jobs[i].state # "written" /\ jobs'[i].state = "written" =>
             LET v == jobs[i].shown
             IN  /\ v.name \notin DOMAIN entries
                 /\ Completed(v.name, entries'[v.name]) = AsShown(v)
                 /\ \A n \in DOMAIN entries : entries'[n] = entries[n]]_formVars
    BY AddShows
  <2> QED
    BY <1>1, <2>1, PTL DEF FormSpec, AddsAsShown
<1>5. ImportSpec => ImportOpens
  <2>1. SentInv /\ [ImportNext]_importVars =>
          [\A i \in DOMAIN imports :
             /\ Becomes(i, "found") => imports[i].name \in Registered /\ registry[imports[i].name] \in DOMAIN stacks
             /\ Becomes(i, "opened") => imports[i].page = "found" /\ at' = imports[i].name
             /\ Becomes(i, "missed") /\ imports[i].state = "written" =>
                  imports[i].name \notin Registered \/ registry[imports[i].name] # imports[i].root]_importVars
    BY Follows DEF Followed
  <2> QED
    BY <1>3, <2>1, PTL DEF ImportSpec, ImportOpens
<1>6. FormSpec => []EditorInStep
  BY <1>1, EditorHolds, PTL
<1>7. ImportSpec => []ReviewTrue
  BY <1>2, ReviewHolds, PTL
<1> QED
  BY <1>4, <1>5, <1>6, <1>7 DEF FormsTrue

-----------------------------------------------------------------------------
(* The secrets of a stack.  Two processes at a time, each with any number  *)
(* of calls, any of them dying, and any lock left behind: the lock is      *)
(* exclusive and no secret is lost.  With three processes neither holds    *)
(* (MCSecretRace).                                                         *)

TwoProcesses == \E p, q : Procs = {p, q}

Active(c) == pc[c] \in {"create", "check", "rename", "judge", "restore", "discard",
                        "held", "update", "leaving", "remove"}

(* A call that has joined is in its process's queue, and one that has entered
   waited for those before it. *)
Queued == \A c \in Calls : pc[c] # "idle" => \E i \in DOMAIN queue[Home[c]] : queue[Home[c]][i] = c
InTurn == \A c \in Calls : Active(c) => Ready(c)

(* The file says who holds the lock, except while a call of the other process
   has it in hand to look at it again. *)
InHand(c) == \E d \in Calls : /\ Home[d] # Home[c]
                              /\ pc[d] \in {"judge", "restore"}
                              /\ moved[d] = c
Owned == \A c \in Calls : HoldsLock(c) => lock = c \/ (lock = NoLock /\ InHand(c))

(* What a call read is what it is about to replace. *)
FreshRead == \A c \in Calls : pc[c] = "update" /\ Home[c] \in alive => seen[c] = stored

Inv == TypeOK /\ Queued /\ InTurn /\ Owned /\ FreshRead

-----------------------------------------------------------------------------
(* The secrets of a stack: one call of a process at a time *)

LEMMA HomeType == \A c \in Calls : Home[c] \in Procs /\ c # NoLock /\ c # Dead
  BY LockAssumption

LEMMA OneActive ==
    ASSUME LockTypeOK, Queued, InTurn, NEW c \in Calls, NEW d \in Calls,
           Active(c), Active(d), Home[c] = Home[d]
    PROVE  c = d
  <1> DEFINE q == queue[Home[c]]
  <1>1. PICK i \in DOMAIN q : q[i] = c
    BY DEF Queued, Active
  <1>2. PICK k \in DOMAIN q : q[k] = d
    BY DEF Queued, Active
  <1>3. i \in Nat /\ k \in Nat
    <2>1. q \in Seq(Calls)
      BY HomeType DEF LockTypeOK
    <2> QED BY <2>1
  <1>4. CASE i < k
    <2>1. c \in Before(d)
      BY <1>1, <1>2, <1>4 DEF Before
    <2> QED BY <2>1 DEF InTurn, Ready, Left, Active
  <1>5. CASE k < i
    <2>1. d \in Before(c)
      BY <1>1, <1>2, <1>5 DEF Before
    <2> QED BY <2>1 DEF InTurn, Ready, Left, Active
  <1>6. CASE i = k
    BY <1>1, <1>2, <1>6
  <1> QED BY <1>3, <1>4, <1>5, <1>6

LEMMA HoldsActive == \A c : HoldsLock(c) => Active(c) /\ Home[c] \in alive
  BY DEF HoldsLock, Active

(* The other process has one call at work at most, so the call that has c's
   lock in hand is the only one besides c. *)
LEMMA InHandAlone ==
    ASSUME TwoProcesses, LockTypeOK, Queued, InTurn, NEW c \in Calls, HoldsLock(c), InHand(c),
           NEW x \in Calls, Active(x), x # c
    PROVE  pc[x] \in {"judge", "restore"} /\ moved[x] = c
  <1>1. PICK d \in Calls : Home[d] # Home[c] /\ pc[d] \in {"judge", "restore"} /\ moved[d] = c
    BY DEF InHand
  <1>2. Home[x] # Home[c]
    BY OneActive, HoldsActive
  <1>3. Home[x] = Home[d]
    BY <1>1, <1>2, HomeType DEF TwoProcesses
  <1>4. x = d
    BY <1>1, <1>3, OneActive DEF Active
  <1> QED BY <1>1, <1>4

LEMMA OwnedExclusive ==
    ASSUME TwoProcesses, LockTypeOK, Queued, InTurn, Owned
    PROVE  Exclusive
  <1> SUFFICES ASSUME NEW c \in Calls, NEW d \in Calls, HoldsLock(c), HoldsLock(d), c # d
               PROVE  FALSE
    BY DEF Exclusive
  <1>1. lock = NoLock
    BY HomeType DEF Owned
  <1>2. InHand(c)
    BY <1>1, HomeType DEF Owned
  <1>3. pc[d] \in {"judge", "restore"}
    BY <1>2, InHandAlone, HoldsActive
  <1> QED BY <1>3 DEF HoldsLock

-----------------------------------------------------------------------------
(* Steps that keep the queue *)

LEMMA QueueKept ==
    ASSUME LockTypeOK, Queued, InTurn, NEW x \in Calls, NEW to, Goto(x, to), UNCHANGED queue,
           pc[x] # "idle", ~Left(x),
           to \in {"held", "create", "check", "rename", "judge", "restore", "discard",
                   "update", "leaving", "remove"} => Ready(x)
    PROVE  Queued' /\ InTurn'
  <1>1. pc'[x] = to /\ \A c \in Calls \ {x} : pc'[c] = pc[c]
    BY DEF Goto, LockTypeOK
  <1>2. Queued'
    BY <1>1 DEF Queued
  <1>3. \A c : Before(c)' = Before(c)
    BY DEF Before
  <1>4. ASSUME NEW c \in Calls, Active(c)' PROVE Ready(c)'
    <2>1. Ready(c)
      BY <1>1, <1>4 DEF InTurn, Active
    <2>2. ASSUME NEW d \in Before(c) PROVE Left(d)'
      <3>1. Left(d) /\ d # x
        BY <2>1, <2>2 DEF Ready
      <3> QED BY <3>1 DEF Left, Goto, LockTypeOK
    <2> QED BY <1>3, <2>2 DEF Ready
  <1> QED BY <1>2, <1>4 DEF InTurn

LEMMA JoinQueue ==
    ASSUME LockTypeOK, Queued, InTurn, NEW x \in Calls, Join(x)
    PROVE  Queued' /\ InTurn' /\ queue' \in [Procs -> Seq(Calls)]
  <1> DEFINE p == Home[x]
             q == queue[p]
             r == Append(q, x)
  <1>1. p \in Procs /\ q \in Seq(Calls) /\ Len(q) \in Nat
    BY HomeType DEF LockTypeOK
  <1>2. /\ r \in Seq(Calls)
        /\ DOMAIN r = 1..(Len(q) + 1) /\ DOMAIN q = 1..Len(q)
        /\ r[Len(q) + 1] = x
        /\ \A i \in DOMAIN q : r[i] = q[i]
    BY <1>1
  <1>3. /\ queue' = [queue EXCEPT ![p] = r]
        /\ pc' = [pc EXCEPT ![x] = "wait"]
        /\ pc[x] = "idle"
    BY DEF Join, Goto, Runs
  <1> HIDE DEF r
  <1>4. queue' \in [Procs -> Seq(Calls)] /\ queue'[p] = r
        /\ \A t \in Procs \ {p} : queue'[t] = queue[t]
    BY <1>1, <1>2, <1>3 DEF LockTypeOK
  <1>5. pc'[x] = "wait" /\ \A c \in Calls \ {x} : pc'[c] = pc[c]
    BY <1>3 DEF LockTypeOK
  <1>6. Queued'
    <2> SUFFICES ASSUME NEW c \in Calls, pc'[c] # "idle"
                 PROVE  \E i \in DOMAIN queue'[Home[c]] : queue'[Home[c]][i] = c
      BY DEF Queued
    <2>1. CASE c = x
      <3>1. Len(q) + 1 \in DOMAIN r
        BY <1>1, <1>2
      <3> QED BY <2>1, <3>1, <1>2, <1>4
    <2>2. CASE c # x
      <3>1. PICK i \in DOMAIN queue[Home[c]] : queue[Home[c]][i] = c
        BY <2>2, <1>5 DEF Queued
      <3>2. CASE Home[c] = p
        <4>1. i \in DOMAIN r /\ r[i] = c
          BY <3>1, <3>2, <1>1, <1>2
        <4> QED BY <4>1, <3>2, <1>4
      <3>3. CASE Home[c] # p
        BY <3>1, <3>3, <1>4, HomeType
      <3> QED BY <3>2, <3>3
    <2> QED BY <2>1, <2>2
  <1>7. ASSUME NEW c \in Calls, Active(c)' PROVE Ready(c)'
    <2>1. c # x /\ Active(c) /\ Ready(c)
      BY <1>5, <1>7 DEF Active, InTurn
    <2>2. ASSUME NEW d \in Before(c)' PROVE d \in Before(c)
      <3>1. CASE Home[c] = p
        <4>1. PICK i \in DOMAIN r : d = r[i] /\ \E k \in DOMAIN r : i < k /\ r[k] = c
          BY <2>2, <3>1, <1>4 DEF Before
        <4>2. PICK k \in DOMAIN r : i < k /\ r[k] = c
          BY <4>1
        <4>3. k # Len(q) + 1
          BY <1>2, <2>1, <4>2
        <4>4. k \in DOMAIN q /\ i \in DOMAIN q
          BY <1>1, <1>2, <4>2, <4>3
        <4> QED BY <3>1, <1>2, <4>1, <4>2, <4>4 DEF Before
      <3>2. CASE Home[c] # p
        <4>1. queue'[Home[c]] = queue[Home[c]]
          BY <3>2, <1>4, HomeType
        <4> QED BY <2>2, <4>1 DEF Before
      <3> QED BY <3>1, <3>2
    <2>3. ASSUME NEW d \in Before(c)' PROVE Left(d)'
      <3>1. Left(d)
        BY <2>1, <2>2, <2>3 DEF Ready
      <3> QED BY <3>1, <1>3 DEF Left, LockTypeOK
    <2> QED BY <2>3 DEF Ready
  <1> QED BY <1>4, <1>6, <1>7 DEF InTurn

LEMMA QueueSame ==
    ASSUME UNCHANGED <<pc, queue>>, Queued, InTurn
    PROVE  Queued' /\ InTurn'
  BY DEF Queued, InTurn, Active, Ready, Before, Left

-----------------------------------------------------------------------------
(* Who owns the file, step by step *)

(* A step that moves neither the file nor a call into or out of the section. *)
LEMMA OwnedKept ==
    ASSUME LockTypeOK, Owned, NEW x \in Calls, NEW to, Goto(x, to),
           UNCHANGED <<lock, moved, alive>>,
           to \in {"held", "update", "leaving", "remove"} => HoldsLock(x),
           pc[x] \in {"judge", "restore"} =>
             \/ to \in {"judge", "restore"}
             \/ \A c \in Calls : HoldsLock(c) => moved[x] # c
    PROVE  Owned'
  <1>1. pc'[x] = to /\ \A c \in Calls \ {x} : pc'[c] = pc[c]
    BY DEF Goto, LockTypeOK
  <1> SUFFICES ASSUME NEW c \in Calls, HoldsLock(c)' PROVE lock = c \/ (lock = NoLock /\ InHand(c)')
    BY DEF Owned
  <1>2. HoldsLock(c)
    BY <1>1 DEF HoldsLock
  <1>3. CASE lock = c
    BY <1>3
  <1>4. CASE lock = NoLock /\ InHand(c)
    <2>1. PICK d \in Calls : Home[d] # Home[c] /\ pc[d] \in {"judge", "restore"} /\ moved[d] = c
      BY <1>4 DEF InHand
    <2>2. pc'[d] \in {"judge", "restore"}
      BY <1>1, <1>2, <2>1
    <2> QED BY <1>4, <2>1, <2>2 DEF InHand
  <1> QED BY <1>2, <1>3, <1>4 DEF Owned

LEMMA CreateOwned ==
    ASSUME TwoProcesses, LockTypeOK, Queued, InTurn, Owned, NEW x \in Calls, Create(x)
    PROVE  Owned'
  <1>1. CASE lock = NoLock
    <2>1. lock' = x /\ pc' = [pc EXCEPT ![x] = "held"] /\ UNCHANGED <<moved, alive>>
      BY <1>1 DEF Create, Goto
    <2>2. ASSUME NEW c \in Calls, c # x, HoldsLock(c) PROVE FALSE
      <3>1. InHand(c)
        BY <1>1, <2>2, HomeType DEF Owned
      <3>2. Active(x) /\ pc[x] = "create"
        BY DEF Create, Runs, Active
      <3> QED BY <2>2, <3>1, <3>2, InHandAlone
    <2> SUFFICES ASSUME NEW c \in Calls, HoldsLock(c)' PROVE c = x
      BY <2>1 DEF Owned
    <2>3. c # x => HoldsLock(c)
      BY <2>1 DEF HoldsLock, LockTypeOK
    <2> QED BY <2>2, <2>3
  <1>2. CASE lock # NoLock
    <2>1. Goto(x, "check") /\ UNCHANGED <<lock, moved, alive>> /\ pc[x] = "create"
      BY <1>2 DEF Create, Runs
    <2> QED BY <2>1, OwnedKept
  <1> QED BY <1>1, <1>2

LEMMA RenameOwned ==
    ASSUME LockTypeOK, Queued, InTurn, Owned, NEW x \in Calls, Rename(x)
    PROVE  Owned'
  <1>1. /\ lock' = NoLock /\ moved' = [moved EXCEPT ![x] = lock] /\ alive' = alive
        /\ pc' = [pc EXCEPT ![x] = IF lock = NoLock THEN "create" ELSE "judge"]
        /\ pc[x] = "rename"
    BY DEF Rename, Goto, Runs
  <1>2. /\ pc'[x] = IF lock = NoLock THEN "create" ELSE "judge"
        /\ moved'[x] = lock
        /\ \A c \in Calls \ {x} : pc'[c] = pc[c] /\ moved'[c] = moved[c]
    BY <1>1 DEF LockTypeOK
  <1> SUFFICES ASSUME NEW c \in Calls, HoldsLock(c)' PROVE InHand(c)'
    BY <1>1 DEF Owned
  <1>3. c # x /\ HoldsLock(c)
    BY <1>1, <1>2 DEF HoldsLock
  <1>4. CASE lock = c
    <2>1. Home[x] # Home[c]
      BY <1>1, <1>3, OneActive, HoldsActive DEF Active
    <2>2. pc'[x] = "judge" /\ moved'[x] = c
      BY <1>2, <1>4, HomeType
    <2> QED BY <2>1, <2>2 DEF InHand
  <1>5. CASE lock = NoLock /\ InHand(c)
    <2>1. PICK d \in Calls : Home[d] # Home[c] /\ pc[d] \in {"judge", "restore"} /\ moved[d] = c
      BY <1>5 DEF InHand
    <2>2. d # x
      BY <1>1, <2>1
    <2> QED BY <1>2, <2>1, <2>2 DEF InHand
  <1> QED BY <1>3, <1>4, <1>5 DEF Owned

LEMMA RestoreOwned ==
    ASSUME TwoProcesses, LockTypeOK, Queued, InTurn, Owned, NEW x \in Calls, Restore(x)
    PROVE  Owned'
  <1>1. /\ lock' = IF lock = NoLock THEN moved[x] ELSE lock
        /\ pc' = [pc EXCEPT ![x] = "discard"] /\ UNCHANGED <<moved, alive>>
        /\ pc[x] = "restore"
    BY DEF Restore, Goto, Runs
  <1> SUFFICES ASSUME NEW c \in Calls, HoldsLock(c)' PROVE lock' = c
    BY DEF Owned
  <1>2. c # x /\ HoldsLock(c)
    BY <1>1 DEF HoldsLock, LockTypeOK
  <1>3. CASE lock = c
    BY <1>1, <1>3, HomeType
  <1>4. CASE lock = NoLock /\ InHand(c)
    <2>1. moved[x] = c
      BY <1>1, <1>2, <1>4, InHandAlone DEF Active
    <2> QED BY <1>1, <1>4, <2>1
  <1> QED BY <1>2, <1>3, <1>4 DEF Owned

LEMMA DiscardOwned ==
    ASSUME LockTypeOK, Owned, NEW x \in Calls, Discard(x)
    PROVE  Owned'
  <1>1. /\ pc' = [pc EXCEPT ![x] = "create"] /\ UNCHANGED <<lock, alive>>
        /\ moved' = [moved EXCEPT ![x] = NoLock]
        /\ pc[x] = "discard"
    BY DEF Discard, Goto, Runs
  <1> SUFFICES ASSUME NEW c \in Calls, HoldsLock(c)' PROVE lock = c \/ (lock = NoLock /\ InHand(c)')
    BY <1>1 DEF Owned
  <1>2. HoldsLock(c)
    BY <1>1 DEF HoldsLock, LockTypeOK
  <1>3. CASE lock = NoLock /\ InHand(c)
    <2>1. PICK d \in Calls : Home[d] # Home[c] /\ pc[d] \in {"judge", "restore"} /\ moved[d] = c
      BY <1>3 DEF InHand
    <2>2. d # x
      BY <1>1, <2>1
    <2>3. pc'[d] = pc[d] /\ moved'[d] = moved[d]
      BY <1>1, <2>2 DEF LockTypeOK
    <2> QED BY <1>3, <2>1, <2>3 DEF InHand
  <1> QED BY <1>2, <1>3 DEF Owned

LEMMA RemoveOwned ==
    ASSUME TwoProcesses, LockTypeOK, Queued, InTurn, Owned, NEW x \in Calls, RemoveOwn(x)
    PROVE  Owned'
  <1>1. /\ pc' = [pc EXCEPT ![x] = "done"] /\ alive' = alive
        /\ pc[x] = "remove" /\ Home[x] \in alive
    BY DEF RemoveOwn, Goto, Runs
  <1>2. HoldsLock(x) /\ Exclusive
    BY <1>1, OwnedExclusive DEF HoldsLock
  <1> SUFFICES ASSUME NEW c \in Calls, HoldsLock(c)' PROVE FALSE
    BY DEF Owned
  <1>3. c # x /\ HoldsLock(c)
    BY <1>1 DEF HoldsLock, LockTypeOK
  <1> QED BY <1>2, <1>3 DEF Exclusive

LEMMA CrashOwned ==
    ASSUME LockTypeOK, Owned, NEW p \in Procs, Crash(p)
    PROVE  Owned'
  <1>1. alive' \subseteq alive /\ UNCHANGED <<lock, pc, moved>>
    BY DEF Crash
  <1> QED BY <1>1 DEF Owned, HoldsLock, InHand

-----------------------------------------------------------------------------
(* The lock *)

LockInv == LockTypeOK /\ Queued /\ InTurn /\ Owned

LEMMA LockStepType == ASSUME LockTypeOK, NEW x \in Calls, LockStep(x) PROVE LockTypeOK'
  <1>1. CASE Join(x)
    <2>1. Home[x] \in Procs /\ queue[Home[x]] \in Seq(Calls)
      BY HomeType DEF LockTypeOK
    <2>2. Append(queue[Home[x]], x) \in Seq(Calls)
      BY <2>1
    <2> QED BY <1>1, <2>1, <2>2 DEF Join, Goto, LockTypeOK, Steps
  <1>2. CASE Wait(x) \/ Create(x) \/ Check(x)
    BY <1>2 DEF Wait, Create, Check, Goto, LockTypeOK, Steps, Tokens
  <1>3. CASE Rename(x) \/ Judge(x) \/ Restore(x) \/ Discard(x)
    BY <1>3 DEF Rename, Judge, Restore, Discard, Goto, LockTypeOK, Steps, Tokens
  <1>4. CASE Release(x) \/ RemoveOwn(x)
    BY <1>4 DEF Release, RemoveOwn, Goto, LockTypeOK, Steps, Tokens
  <1> QED BY <1>1, <1>2, <1>3, <1>4 DEF LockStep

(* Steps of a call that is at work: the queue and the turns. *)
LEMMA LockStepQueue ==
    ASSUME LockTypeOK, Queued, InTurn, NEW x \in Calls, LockStep(x)
    PROVE  Queued' /\ InTurn'
  <1>1. CASE Join(x)
    BY <1>1, JoinQueue
  <1>2. CASE Wait(x)
    <2>1. PICK to \in {"create", "failed"} : Goto(x, to) /\ (to = "create" => Ready(x))
      BY <1>2 DEF Wait
    <2> QED BY <1>2, <2>1, QueueKept DEF Wait, Runs, Left
  <1>3. CASE ~Join(x) /\ ~Wait(x)
    <2>1. Active(x) /\ UNCHANGED queue
      BY <1>3 DEF LockStep, Create, Check, Rename, Judge, Restore, Discard, Release, RemoveOwn,
                  Runs, Active
    <2>2. \E to : Goto(x, to)
      BY <1>3 DEF LockStep, Create, Check, Rename, Judge, Restore, Discard, Release, RemoveOwn
    <2>3. Ready(x) /\ pc[x] # "idle" /\ ~Left(x)
      BY <2>1 DEF InTurn, Active, Left
    <2> QED BY <2>1, <2>2, <2>3, QueueKept
  <1> QED BY <1>1, <1>2, <1>3

LEMMA LockStepOwned ==
    ASSUME TwoProcesses, LockInv, NEW x \in Calls, LockStep(x)
    PROVE  Owned'
  <1>1. CASE Join(x) \/ Wait(x) \/ Check(x)
    <2>1. PICK to \in {"wait", "create", "failed", "rename"} : Goto(x, to)
      BY <1>1 DEF Join, Wait, Check
    <2>2. UNCHANGED <<lock, moved, alive>> /\ pc[x] \notin {"judge", "restore"}
      BY <1>1 DEF Join, Wait, Check, Runs
    <2> QED BY <2>1, <2>2, OwnedKept DEF LockInv
  <1>2. CASE Judge(x)
    <2>1. PICK to \in {"discard", "restore"} :
            Goto(x, to) /\ (to = "discard" => Abandoned(moved[x]))
      BY <1>2 DEF Judge
    <2>2. UNCHANGED <<lock, moved, alive>>
      BY <1>2 DEF Judge
    <2>3. Abandoned(moved[x]) => \A c \in Calls : HoldsLock(c) => moved[x] # c
      BY HomeType DEF Abandoned, HoldsLock
    <2> QED BY <2>1, <2>2, <2>3, OwnedKept DEF LockInv
  <1>3. CASE Release(x)
    <2>1. PICK to \in {"remove", "done"} : Goto(x, to)
      BY <1>3 DEF Release
    <2>2. UNCHANGED <<lock, moved, alive>> /\ HoldsLock(x) /\ pc[x] \notin {"judge", "restore"}
      BY <1>3 DEF Release, Runs, HoldsLock
    <2> QED BY <2>1, <2>2, OwnedKept DEF LockInv
  <1> QED BY <1>1, <1>2, <1>3, CreateOwned, RenameOwned, RestoreOwned, DiscardOwned, RemoveOwned
          DEF LockStep, LockInv

-----------------------------------------------------------------------------
(* The secrets *)

LEMMA MutatedType ==
    ASSUME NEW c \in Calls, wish[c] \in Wishes, NEW m \in [Keys -> Values]
    PROVE  /\ Mutated(c, m) \in [Keys -> Values]
           /\ \A k \in Keys : m[k] # NoValue /\ Mutated(c, m)[k] # m[k] =>
                wish[c].op # "ensure" /\ k \in wish[c].keys
  <1>1. wish[c].op \in {"ensure", "set", "forget"}
    BY SecretAssumption
  <1> QED BY <1>1 DEF Mutated, Values

LEMMA SectionStep ==
    ASSUME TwoProcesses, Inv, NEW x \in Calls, ReadSecrets(x) \/ WriteSecrets(x)
    PROVE  Inv'
  <1>1. PICK to \in {"update", "leaving"} :
          /\ Goto(x, to)
          /\ pc[x] = IF to = "update" THEN "held" ELSE "update"
    BY DEF ReadSecrets, WriteSecrets, Runs
  <1>2. HoldsLock(x) /\ Active(x) /\ UNCHANGED <<lock, queue, moved, expired, alive, wish>>
    BY DEF ReadSecrets, WriteSecrets, Runs, HoldsLock, Active
  <1>3. LockTypeOK' /\ LockTypeOK
    BY <1>1, <1>2 DEF Inv, TypeOK, LockTypeOK, Goto, Steps
  <1>4. Ready(x)
    BY <1>2 DEF Inv, InTurn
  <1>5. Queued' /\ InTurn'
    BY <1>1, <1>2, <1>3, <1>4, QueueKept DEF Inv, Left
  <1>6. Owned'
    BY <1>1, <1>2, <1>3, OwnedKept DEF Inv
  <1>7. Exclusive
    BY <1>3, OwnedExclusive DEF Inv
  <1>8. wish[x] \in Wishes /\ Nothing \in [Keys -> Values]
        /\ stored \in [Keys -> Values] /\ seen \in [Calls -> [Keys -> Values]]
    BY DEF Inv, TypeOK, Nothing, Values
  <1>9. CASE ReadSecrets(x)
    <2>1. seen' = [seen EXCEPT ![x] = stored] /\ stored' = stored /\ pc' = [pc EXCEPT ![x] = "update"]
      BY <1>9 DEF ReadSecrets, Goto
    <2>2. TypeOK'
      BY <1>2, <1>3, <1>8, <2>1 DEF Inv, TypeOK
    <2>3. FreshRead'
      BY <1>2, <1>3, <1>8, <2>1 DEF Inv, FreshRead, LockTypeOK
    <2> QED BY <1>5, <1>6, <2>2, <2>3 DEF Inv
  <1>10. CASE WriteSecrets(x)
    <2>1. /\ seen' = [seen EXCEPT ![x] = Nothing] /\ stored' \in {stored, Mutated(x, seen[x])}
          /\ pc' = [pc EXCEPT ![x] = "leaving"]
      BY <1>10 DEF WriteSecrets, Goto
    <2>2. TypeOK'
      BY <1>2, <1>3, <1>8, <2>1, MutatedType DEF Inv, TypeOK
    <2>3. ASSUME NEW c \in Calls, pc'[c] = "update", Home[c] \in alive PROVE FALSE
      <3>1. c # x /\ pc[c] = "update"
        BY <1>3, <2>1, <2>3 DEF LockTypeOK
      <3>2. HoldsLock(c)
        BY <2>3, <3>1 DEF HoldsLock
      <3> QED BY <1>2, <1>7, <3>1, <3>2 DEF Exclusive
    <2>4. FreshRead'
      BY <1>2, <2>3 DEF FreshRead
    <2> QED BY <1>5, <1>6, <2>2, <2>4 DEF Inv
  <1> QED BY <1>9, <1>10

(* The secrets stay as they are while a call takes or gives the lock. *)
LEMMA FreshKept ==
    ASSUME LockTypeOK, FreshRead, NEW x \in Calls, NEW to, Goto(x, to), to # "update",
           UNCHANGED <<alive, stored, seen>>
    PROVE  FreshRead'
  BY DEF FreshRead, Goto, LockTypeOK

LEMMA LockStepInv ==
    ASSUME TwoProcesses, Inv, NEW x \in Calls, LockStep(x), UNCHANGED <<stored, seen, wish>>
    PROVE  Inv'
  <1>1. LockTypeOK /\ LockTypeOK' /\ LockInv
    BY LockStepType DEF Inv, TypeOK, LockInv
  <1>2. Queued' /\ InTurn' /\ Owned'
    BY <1>1, LockStepQueue, LockStepOwned DEF Inv
  <1>3. \E to \in {"wait", "create", "failed", "held", "check", "rename", "judge", "restore",
                   "discard", "remove", "done"} : Goto(x, to)
    BY DEF LockStep, Join, Wait, Create, Check, Rename, Judge, Restore, Discard, Release, RemoveOwn
  <1>4. alive' = alive
    BY DEF LockStep, Join, Wait, Create, Check, Rename, Judge, Restore, Discard, Release, RemoveOwn
  <1>5. FreshRead'
    BY <1>1, <1>3, <1>4, FreshKept DEF Inv
  <1>6. TypeOK'
    BY <1>1 DEF Inv, TypeOK
  <1> QED BY <1>2, <1>5, <1>6 DEF Inv

LEMMA InvInit == Init => Inv
  <1> SUFFICES ASSUME Init PROVE Inv
    OBVIOUS
  <1>1. Nothing \in [Keys -> Values]
    BY DEF Nothing, Values
  <1>2. LockTypeOK
    BY LockAssumption DEF Init, LockInit, LockTypeOK, Tokens, Steps
  <1>3. TypeOK
    BY <1>1, <1>2 DEF Init, TypeOK
  <1>4. Queued /\ InTurn /\ Owned /\ FreshRead
    BY DEF Init, LockInit, Queued, InTurn, Active, Owned, HoldsLock, FreshRead
  <1> QED BY <1>3, <1>4 DEF Inv

LEMMA InvNext == TwoProcesses /\ Inv /\ [Next]_vars => Inv'
  <1> SUFFICES ASSUME TwoProcesses, Inv, [Next]_vars PROVE Inv'
    OBVIOUS
  <1>1. ASSUME NEW c \in Calls, Call(c) PROVE Inv'
    BY <1>1, LockStepInv, SectionStep DEF Call
  <1>2. ASSUME NEW c \in Calls, TimePasses(c) PROVE Inv'
    <2>1. UNCHANGED <<lock, pc, queue, moved, alive, stored, seen, wish>> /\ expired' \subseteq Calls
      BY <1>2 DEF TimePasses, Expire, Inv, TypeOK, LockTypeOK
    <2>2. Queued' /\ InTurn'
      BY <2>1, QueueSame DEF Inv
    <2>3. TypeOK' /\ Owned' /\ FreshRead'
      BY <2>1 DEF Inv, TypeOK, LockTypeOK, Owned, HoldsLock, InHand, FreshRead
    <2> QED BY <2>2, <2>3 DEF Inv
  <1>3. ASSUME NEW p \in Procs, ProcessDies(p) PROVE Inv'
    <2>1. /\ UNCHANGED <<lock, pc, queue, moved, expired, stored, seen, wish>>
          /\ alive' \subseteq alive
      BY <1>3 DEF ProcessDies, Crash
    <2>2. Queued' /\ InTurn'
      BY <2>1, QueueSame DEF Inv
    <2>3. Owned'
      BY <1>3, CrashOwned DEF ProcessDies, Inv, TypeOK
    <2>4. TypeOK' /\ FreshRead'
      BY <2>1 DEF Inv, TypeOK, LockTypeOK, FreshRead
    <2> QED BY <2>2, <2>3, <2>4 DEF Inv
  <1>4. ASSUME UNCHANGED vars PROVE Inv'
    <2>1. Queued' /\ InTurn'
      BY <1>4, QueueSame DEF Inv, vars, lockVars
    <2>2. TypeOK' /\ Owned' /\ FreshRead'
      BY <1>4 DEF Inv, vars, lockVars, TypeOK, LockTypeOK, Owned, HoldsLock, InHand, FreshRead
    <2> QED BY <2>1, <2>2 DEF Inv
  <1> QED BY <1>1, <1>2, <1>3, <1>4 DEF Next, Quiet

-----------------------------------------------------------------------------
(* The theorems *)

(* acquireFileLock is exclusive between two processes, with any number of
   callers each, whatever lock was left behind and whichever process dies. *)
THEOREM TwoProcessesExclusive == TwoProcesses => (Spec => []Exclusive)
  <1> SUFFICES ASSUME TwoProcesses PROVE Spec => []Exclusive
    OBVIOUS
  <1>1. Inv /\ [Next]_vars => Inv'
    BY InvNext
  <1>2. Inv => Exclusive
    BY OwnedExclusive DEF Inv, TypeOK
  <1> QED BY <1>1, <1>2, InvInit, PTL DEF Spec

(* With two processes every variable keeps its type. *)
THEOREM TwoProcessesTyped == TwoProcesses => (Spec => []TypeOK)
  <1> SUFFICES ASSUME TwoProcesses PROVE Spec => []TypeOK
    OBVIOUS
  <1>1. Inv /\ [Next]_vars => Inv'
    BY InvNext
  <1>2. Inv => TypeOK
    BY DEF Inv
  <1> QED BY <1>1, <1>2, InvInit, PTL DEF Spec

(* What a write may do to a stored secret. *)
Kept ==
    \A k \in Keys :
      stored[k] # NoValue /\ stored'[k] # stored[k] =>
        \E c \in Calls : /\ pc[c] = "update" /\ pc'[c] = "leaving"
                         /\ wish[c].op # "ensure" /\ k \in wish[c].keys

LEMMA KeptStep == Inv /\ [Next]_vars => Kept
  <1> SUFFICES ASSUME Inv, [Next]_vars, NEW k \in Keys, stored[k] # NoValue, stored'[k] # stored[k]
               PROVE  \E c \in Calls : /\ pc[c] = "update" /\ pc'[c] = "leaving"
                                       /\ wish[c].op # "ensure" /\ k \in wish[c].keys
    BY DEF Kept
  <1>1. PICK c \in Calls : WriteSecrets(c)
    BY DEF Next, Call, TimePasses, ProcessDies, ReadSecrets, Quiet, vars
  <1>2. pc[c] = "update" /\ Home[c] \in alive /\ pc'[c] = "leaving"
    BY <1>1 DEF WriteSecrets, Runs, Goto, Inv, TypeOK, LockTypeOK
  <1>3. seen[c] = stored
    BY <1>2 DEF Inv, FreshRead
  <1>4. stored'[k] = Mutated(c, stored)[k]
    BY <1>1, <1>3 DEF WriteSecrets
  <1>5. stored \in [Keys -> Values] /\ wish[c] \in Wishes
    BY DEF Inv, TypeOK
  <1>6. wish[c].op # "ensure" /\ k \in wish[c].keys
    BY <1>4, <1>5, MutatedType
  <1> QED BY <1>2, <1>6

(* Between two processes no secret is generated twice or lost to another
   update (FileSecretStore.update). *)
THEOREM TwoProcessesKeep == TwoProcesses => (Spec => SecretsKept)
  <1> SUFFICES ASSUME TwoProcesses PROVE Spec => SecretsKept
    OBVIOUS
  <1>1. Inv /\ [Next]_vars => Inv'
    BY InvNext
  <1>2. Inv /\ [Next]_vars => [Kept]_vars
    BY KeptStep
  <1>3. Spec => [][Kept]_vars
    BY <1>1, <1>2, InvInit, PTL DEF Spec
  <1> QED BY <1>3 DEF SecretsKept, Kept

(* Updates of two processes are serial and lose nothing (file-lock.ts). *)
THEOREM TwoProcessesSerial == TwoProcesses => (Spec => UpdatesSerial)
  BY TwoProcessesExclusive, TwoProcessesKeep, PTL DEF UpdatesSerial
======================================================================================================================================
