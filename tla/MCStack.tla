------------------------------- MODULE MCStack -------------------------------
EXTENDS StackEdit, ImportDialog

VARIABLE scenario  \* "stack": the file is edited; "link": its linked file too; "config", "import": a form is filled in

NoData == [kind |-> "none", has |-> {}, slots |-> 0]
Plain == [id |-> "db", dependsOn |-> <<>>, secrets |-> {}, config |-> <<>>, templates |-> {},
          exports |-> <<<<"URL">>>>, primary |-> <<"URL">>, versions |-> {"1", "2"}, version |-> "1",
          badTags |-> {"odd tag"}, low |-> 1, high |-> 4, port |-> 1, container |-> 50, images |-> {"db"},
          data |-> NoData, baked |-> {}, importEnv |-> {}]

Db == [Plain EXCEPT
         !.secrets = {"password"}, !.baked = {"password"},
         !.config = ("user" :> [default |-> {}, pattern |-> "fits"]),
         !.templates = {[at |-> "image", path |-> <<"version">>],
                        [at |-> "exports", path |-> <<"config", "user">>],
                        [at |-> "runQuery", path |-> <<"secrets", "password">>]},
         !.exports = <<<<"URL">>, <<"HOST">>>>,
         !.data = [kind |-> "table", has |-> {"label", "runQuery", "defaultQuery", "listObjects"}, slots |-> 1],
         !.importEnv = {[env |-> "DB_USER", root |-> "config", name |-> "user"],
                        [env |-> "DB_PASSWORD", root |-> "secrets", name |-> "password"]}]
Cache == [Plain EXCEPT !.id = "cache", !.images = {"cache"}, !.exports = <<<<"CACHE", "URL">>>>,
                       !.primary = <<"CACHE", "URL">>, !.low = 3, !.high = 6, !.port = 3, !.container = 60]
Ui == [Plain EXCEPT
         !.id = "ui", !.dependsOn = <<"db", "cache">>, !.images = {"ui"},
         !.config = ("server" :> [default |-> {<<"services", "db", "host">>}, pattern |-> "none"]),
         !.templates = {[at |-> "env", path |-> <<"services", "db", "secrets", "password">>],
                        [at |-> "env", path |-> <<"config", "server">>],
                        [at |-> "studio", path |-> <<"byType", "db", "config", "user">>]},
         !.exports = <<<<"UI", "URL">>>>, !.primary = <<"UI", "URL">>]
MCBundled == <<Db, Cache, Ui>>

Raw(d) == [schema |-> TRUE, privileged |-> FALSE, keys |-> {}, binds |-> {[value |-> "local", section |-> "env", bindKey |-> TRUE]},
           sources |-> {"named"}, image |-> [registry |-> "docker.io", templated |-> FALSE], def |-> d]
File(id, raw) == [id |-> id, raw |-> raw]
Looped == [Cache EXCEPT !.dependsOn = <<"ui">>]
Dangling == [Ui EXCEPT !.templates = @ \cup {[at |-> "env", path |-> <<"services", "db", "config", "name">>]}]
Deep == [Ui EXCEPT !.templates = @ \cup {[at |-> "studio", path |-> <<"services", "db", "url">>]}]
MCOverrideDirs ==
    {<<>>, <<File("cache", Raw(Looped))>>, <<File("ui", Raw(Dangling))>>, <<File("ui", Raw(Deep))>>,
     <<File("db", [Raw(Plain) EXCEPT !.privileged = TRUE]),
       File("cache", [Raw(Plain) EXCEPT !.binds = {[value |-> "all", section |-> "service", bindKey |-> TRUE]}]),
       File("other", Raw(Plain)),
       File("ui", [Raw(Ui) EXCEPT !.image = [registry |-> "elsewhere", templated |-> FALSE]])>>}

E(name, type) == [name |-> name, type |-> type, uses |-> <<>>, version |-> "default", config |-> <<>>]
MCHandWritten ==
    {<<>>,
     <<E(<<"ui">>, "ui"), E(<<"db">>, "cache"), E(<<"a">>, "db")>>,
     <<E(<<"db">>, "db"), E(<<"a">>, "db")>>,
     <<E(<<"a">>, "db"), [E(<<"ui">>, "ui") EXCEPT !.uses = ("db" :> <<"b">>)], E(<<"b">>, "db"), E(<<"db">>, "cache")>>,
     <<E(<<"a">>, "ui"), [E(<<"b">>, "db") EXCEPT !.version = "odd tag", !.config = ("nope" :> "plain")]>>}
MCReservedWords == {<<"PATH">>}
MCBusySets == {{}, {1, 3}}
MCRenamings == {<<>>, <<"a">> :> <<"HOST">>, <<"db">> :> <<"PATH">>}

MCLinkedFiles ==
    LET user(x) == [kind |-> "user", name |-> <<x>>]
        mark(k) == [kind |-> k, name |-> <<>>]
    IN  {<<user("X"), mark("start"), [kind |-> "variable", name |-> <<"OLD">>], mark("end"), user("Y")>>,
         <<user("X"), mark("end"), mark("start")>>}

Service(name, repo, host, container) ==
    [name |-> name, repo |-> repo, tag |-> <<"2", "1">>, build |-> FALSE,
     ports |-> <<[host |-> host, container |-> container, tcp |-> TRUE]>>, env |-> <<>>]
MCComposeFiles ==
    {<<Service(<<"a">>, "db", 1, 50), Service(<<"b">>, "db", 1, 50), Service(<<"1">>, "cache", 3, 60)>>,
     <<[Service(<<"db">>, "db", 0, 50) EXCEPT !.env = ("DB_USER" :> "odd" @@ "DB_PASSWORD" :> "plain" @@ "user" :> "plain"),
                                              !.tag = <<"9">>],
       Service(<<"ui">>, "ui", 4, 70), [Service(<<"ui">>, "cache", 2, 60) EXCEPT !.ports[1].tcp = FALSE],
       [Service(<<"web">>, "web", 8, 80) EXCEPT !.build = TRUE], Service(<<"x">>, "other", 9, 9)>>}

MCRequests ==
    [name : {<<"a">>}, type : {"db", "ui", "other"}, version : {"default"}, config : {<<>>, "nope" :> "plain"}]
      \cup [name : {<<"b">>}, type : {"db", "cache"}, version : {"default", "9"}, config : {<<>>}]
      \cup [name : {<<"1">>}, type : {"db"}, version : {"default"}, config : {<<>>}]
      \cup [name : {<<"c">>}, type : {"db"}, version : {"2"}, config : {"user" :> "plain", "user" :> "odd"}]
MCPatches == {[version |-> "2", config |-> <<>>], [version |-> "default", config |-> ("user" :> "plain")],
              [version |-> "default", config |-> ("user" :> "odd")]}

MCShape ==
    [config |-> ("DB" :> "{{name}}" @@ "USER" :> "root"), fits |-> ("DB" :> {"db", "db-2", "unnamed", "x", "root"} @@ "USER" :> {"root", "x"}),
     versions |-> {"2", "1"}, first |-> "2", volumes |-> TRUE, seed |-> TRUE, secrets |-> {"PASSWORD"},
     low |-> 2, high |-> 4, port |-> 2]
Text(fault, name) == [fault |-> fault, name |-> name, version |-> {}, port |-> {}, persist |-> {}, config |-> <<>>, seed |-> {}]
MCTexts == {Text("indent", "x"), [Text("none", "unnamed") EXCEPT !.version = {"odd"}],
            [Text("none", "x") EXCEPT !.port = {4}, !.persist = {"ephemeral"}, !.config = ("DB" :> "root" @@ "NOPE" :> "x"),
                                        !.seed = {<<"missing">>}]}
MCSeeds == {<<".", "seeds", "a">>, <<"..", "a">>}
MCSeedFiles == {<<"seeds", "a">>}
MCDefaultNames == <<"db", "db-2", "db-3", "db-4">>
MCOthers == {[name |-> "x", port |-> 3], [name |-> "db", port |-> 0]}

Part(name, supported) == [name |-> name, supported |-> supported]
MCNoCompose == [size |-> "none", valid |-> FALSE, key |-> "none", name |-> "", items |-> <<>>]
Compose_(key, items) == [size |-> "fits", valid |-> TRUE, key |-> key, name |-> key, items |-> items]
MCComposes == {Compose_("shop", <<Part("db", TRUE), Part("web", FALSE)>>), Compose_("shop", <<Part("web", FALSE), Part("cache", TRUE)>>),
               Compose_("blog", <<Part("db", TRUE)>>), [MCNoCompose EXCEPT !.size = "fits"], [MCNoCompose EXCEPT !.size = "large"]}

StackIdle ==
    /\ exists = FALSE /\ file = <<>> /\ renames = <<>> /\ overrides = <<>> /\ busy = {} /\ pins = {}
    /\ stored = {} /\ linked = <<>> /\ preview = NoPreview /\ op = NoOp /\ linking = NoOp /\ ops = 0 /\ edits = 0
FormIdle ==
    /\ entries = <<>> /\ taken = {} /\ rows = <<>> /\ page = [open |-> FALSE, values |-> BuildDefaults(NoPort),
          faults |-> {}, server |-> {}, offered |-> NoPort, draft |-> NoDraft, complains |-> FALSE]
    /\ adding = NoAdding /\ jobs = <<>> /\ opened = "none" /\ keys = 0 /\ news = 0
ImportIdle ==
    /\ dialog = [open |-> FALSE, parsed |-> NoCompose, shows |-> 0, reading |-> FALSE, failed |-> FALSE]
    /\ review = NoReview /\ reads = {} /\ choosing = {} /\ imports = <<>> /\ registry = <<>> /\ stacks = <<>>
    /\ known = {} /\ at = "projects" /\ changes = 0 /\ picks = 0

MCInit ==
    \/ scenario = "stack" /\ Init /\ Len(linked) # 3 /\ FormIdle /\ ImportIdle
    \/ scenario = "link" /\ Init /\ exists /\ FormIdle /\ ImportIdle
    \/ scenario = "config" /\ StackIdle /\ InitForm /\ ImportIdle
    \/ scenario = "import" /\ StackIdle /\ FormIdle /\ InitImport
MCNext ==
    \/ scenario = "stack" /\ UNCHANGED <<linked, linking, formVars, importVars, scenario>> /\ Next
    \/ scenario = "link" /\ UNCHANGED <<overrides, preview, formVars, importVars, scenario>> /\ Next
                         /\ (edits' = edits \/ file' = file)
    \/ scenario = "config" /\ FormNext /\ UNCHANGED <<vars, importVars, scenario>>
    \/ scenario = "import" /\ ImportNext /\ UNCHANGED <<vars, formVars, scenario>>
MCSpec == MCInit /\ [][MCNext]_<<vars, formVars, importVars, scenario>>
=============================================================================
