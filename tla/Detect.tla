------------------------------- MODULE Detect -------------------------------
(***************************************************************************)
(* From a folder to a build: what the panel and the command line read out  *)
(* of somebody's code (builder/detect.go, builder/needs.go, gitsrc), the   *)
(* app each of them asks for (cli createUploadApp, the new-app form), and  *)
(* what the build Job of that app is then told (deploy/build.go chooses,   *)
(* builder/job.go checks and writes it).                                   *)
(*                                                                         *)
(* A path is the sequence of its parts.  A tree says which files there     *)
(* are and what the ones that are read hold: packages, scripts, the        *)
(* provider of a Prisma schema, the names of an .env.example.  A           *)
(* package.json that is not parsed may have been read in part.             *)
(***************************************************************************)
EXTENDS Integers, Sequences, SequencesExt, FiniteSets

CONSTANTS
    Trees,         \* [files, deps, scripts, parsed, schema, connection, example]
    Roots,         \* root directories an app may have, <<>> for none
    DriverRules,   \* the table of drivers, in order: [eco, engine, packages]
    NodeRules,     \* the front ends and servers of Node, in order: [dep, port, dir]; dir = "" runs a process
    Defaults       \* what the panel's default builder setting may be

ASSUME DetectAssumption ==
    /\ Trees \subseteq [files : SUBSET Seq(STRING), deps : SUBSET (STRING \X STRING), scripts : SUBSET STRING,
                       parsed : BOOLEAN, schema : [engine : STRING, variable : STRING], connection : STRING,
                       example : SUBSET STRING]
    /\ Roots \subseteq Seq(STRING)
    /\ NodeRules \in Seq([dep : STRING, port : Nat, dir : STRING])
    /\ Defaults \subseteq {"railpack", "nixpacks"}

VARIABLE request   \* one look at some code and what became of it

detectVars == <<request>>

Absent == [builder |-> "none"]
\* The first that is wanted, alone in a sequence; an empty one when none is.
First(s, wanted) ==
    LET at == {i \in DOMAIN s : s[i] \in wanted} IN
    IF at = {} THEN <<>> ELSE <<s[CHOOSE i \in at : \A j \in at : i <= j]>>
Has(tree, names) == \E n \in names : <<n>> \in tree.files
Uses(tree, eco, names) == \E n \in names : <<eco, n>> \in tree.deps

-----------------------------------------------------------------------------
(* What it is.                                                             *)

DockerfilePlaces == <<<<"Dockerfile">>, <<"dockerfile">>, <<"docker", "Dockerfile">>, <<"build", "Dockerfile">>>>
ComposePlaces == <<<<"compose.yaml">>, <<"compose.yml">>, <<"docker-compose.yml">>, <<"docker-compose.yaml">>>>
FindDockerfile(tree) == First(DockerfilePlaces, tree.files)
FindCompose(tree) == First(ComposePlaces, tree.files)
Skipped == {"node_modules", "vendor", ".git", "dist", "build", ".venv", "venv"}
HasExtension(tree, ext) == \E f \in tree.files : Head(f) \notin Skipped /\ Last(f) \in ext

Plain(language, port) == [builder |-> "railpack", language |-> language, port |-> port, confidence |-> "high",
                          dockerfile |-> <<>>, static |-> "", command |-> FALSE]

\* The first front end or server it depends on; a front end is built and its files are served.
DetectNode(tree) ==
    LET rules == First(NodeRules, {r \in ToSet(NodeRules) : /\ \E x \in {"node", "dev"} : <<x, r.dep>> \in tree.deps
                                                            /\ r.dir # "" => "build" \in tree.scripts})
        d == IF rules = <<>> THEN Plain("Node.js", 3000)
             ELSE IF rules[1].dir = "" THEN Plain("Node.js", rules[1].port)
             ELSE [Plain("Node.js", 80) EXCEPT !.builder = "static", !.static = rules[1].dir, !.command = TRUE]
        sure == tree.parsed /\ ("start" \in tree.scripts \/ d.builder = "static")
    IN  IF ~Has(tree, {"package.json"}) THEN Absent
        ELSE [d EXCEPT !.confidence = IF sure THEN "high" ELSE "medium"]
DetectPython(tree) ==
    IF ~Has(tree, {"requirements.txt", "pyproject.toml", "Pipfile", "setup.py", "poetry.lock", "uv.lock"}) THEN Absent
    ELSE Plain("Python", IF Uses(tree, "python", {"streamlit"}) /\ ~Uses(tree, "python", {"django", "fastapi", "flask"})
                         THEN 8501 ELSE 8000)
DetectGo(tree) == IF Has(tree, {"go.mod"}) THEN Plain("Go", 8080) ELSE Absent
\* Laravel and Symfony serve a directory of their own.
DetectPHP(tree) ==
    LET composer == Has(tree, {"composer.json"}) IN
    IF ~composer /\ ~HasExtension(tree, {"index.php", "wp-load.php"}) THEN Absent
    ELSE [Plain("PHP", 80) EXCEPT !.static = IF Uses(tree, "php", {"laravel/framework", "symfony/"}) THEN "public" ELSE "",
                                  !.confidence = IF composer THEN "high" ELSE "medium"]
DetectRuby(tree) == IF Has(tree, {"Gemfile", "Gemfile.lock"}) THEN Plain("Ruby", 3000) ELSE Absent
DetectRust(tree) == IF Has(tree, {"Cargo.toml"}) THEN Plain("Rust", 8080) ELSE Absent
DetectJava(tree) == IF Has(tree, {"pom.xml", "build.gradle", "build.gradle.kts"}) THEN Plain("Java", 8080) ELSE Absent
StaticPlaces == <<<<"dist", "index.html">>, <<"public", "index.html">>, <<"site", "index.html">>>>
DetectStatic(tree) ==
    LET places == First(StaticPlaces, tree.files) IN
    IF places = <<>> /\ ~Has(tree, {"index.html"}) THEN Absent
    ELSE [Plain("Static site", 80) EXCEPT !.builder = "static", !.static = IF places = <<>> THEN "." ELSE places[1][1]]

Guesses(tree) == <<DetectNode(tree), DetectPython(tree), DetectGo(tree), DetectPHP(tree), DetectRuby(tree),
                   DetectRust(tree), DetectJava(tree), DetectStatic(tree)>>
\* What was written down wins over what can be guessed; of the guesses the first one.
DetectBuild_GuessFirst(tree) ==
    LET guesses == First(Guesses(tree), ToSet(Guesses(tree)) \ {Absent})
    IN  IF guesses # <<>> THEN guesses[1]
        ELSE IF FindDockerfile(tree) # <<>>
          THEN [Plain("Dockerfile", 0) EXCEPT !.builder = "dockerfile", !.dockerfile = FindDockerfile(tree)[1]]
        ELSE IF FindCompose(tree) # <<>>
          THEN [Plain("Docker Compose", 0) EXCEPT !.builder = "compose", !.dockerfile = FindCompose(tree)[1]]
        ELSE [Plain("unknown", 0) EXCEPT !.confidence = "low"]
DetectBuild(tree) ==
    LET guesses == First(Guesses(tree), ToSet(Guesses(tree)) \ {Absent})
    IN  IF FindDockerfile(tree) # <<>>
          THEN [Plain("Dockerfile", 0) EXCEPT !.builder = "dockerfile", !.dockerfile = FindDockerfile(tree)[1]]
        ELSE IF FindCompose(tree) # <<>>
          THEN [Plain("Docker Compose", 0) EXCEPT !.builder = "compose", !.dockerfile = FindCompose(tree)[1]]
        ELSE IF guesses # <<>> THEN guesses[1]
        ELSE [Plain("unknown", 0) EXCEPT !.confidence = "low"]

-----------------------------------------------------------------------------
(* What it needs.                                                          *)

ProvidedEngines == {"postgres", "mysql", "redis"}
KindOf(engine) == IF engine \in {"sqlite", "file"} THEN "ephemeral" ELSE "database"
Need(engine, evidence, variable) == [kind |-> KindOf(engine), engine |-> engine, evidence |-> evidence, variable |-> variable]
Candidates(engine) ==
    CASE engine = "postgres" -> <<"DATABASE_URL", "POSTGRES_URL", "POSTGRESQL_URL", "PG_URL", "DB_URL">>
      [] engine = "mysql"    -> <<"DATABASE_URL", "MYSQL_URL", "DB_URL">>
      [] engine = "redis"    -> <<"REDIS_URL", "REDIS_URI", "KV_URL">>
      [] engine = "mongodb"  -> <<"MONGODB_URI", "MONGO_URI", "MONGO_URL", "MONGODB_URL", "DATABASE_URL">>
      [] OTHER -> <<>>
\* The name its own files give; without one the first that is usual.
VariableFor(engine, evidence, example) ==
    LET named == First(Candidates(engine), example) IN
    IF named # <<>> THEN named[1]
    ELSE IF evidence = "@vercel/postgres" THEN "POSTGRES_URL"
    ELSE IF Candidates(engine) # <<>> THEN Candidates(engine)[1] ELSE ""

\* A Prisma schema names its engine and its variable.
PrismaNeed(tree) ==
    IF tree.schema.engine # "" /\ (Uses(tree, "node", {"@prisma/client", "prisma"}) \/ <<"dev", "prisma">> \in tree.deps)
    THEN <<Need(tree.schema.engine, "schema", IF KindOf(tree.schema.engine) = "database" THEN tree.schema.variable ELSE "")>>
    ELSE <<>>
\* What speaks of a need, in the order it is read; the first word on an engine stands.
Evidence(tree) ==
    LET driver(r) == LET found == First(r.packages, {p \in ToSet(r.packages) : <<r.eco, p>> \in tree.deps})
                     IN  IF found = <<>> THEN <<>> ELSE <<Need(r.engine, found[1], "")>>
    IN  PrismaNeed(tree) \o FlattenSeq([i \in DOMAIN DriverRules |-> driver(DriverRules[i])])
        \o (IF Uses(tree, "python", {"django"}) THEN <<Need("sqlite", "django", "")>> ELSE <<>>)
        \o (IF tree.connection # "" THEN <<Need(tree.connection, "DB_CONNECTION", "")>> ELSE <<>>)
        \o (IF HasExtension(tree, {"db.sqlite", "db.sqlite3"}) THEN <<Need("sqlite", "file", "")>> ELSE <<>>)
\* Of a package.json that is not parsed nothing counts, whatever was read of it.
Understood(tree) ==
    IF tree.parsed THEN tree ELSE [tree EXCEPT !.deps = {d \in @ : d[1] \notin {"node", "dev"}}]
\* SQLite beside a server database is for tests, unless the schema says it is the one.
DetectNeeds(tree) ==
    LET said == Evidence(Understood(tree))
        engines == {n.engine : n \in ToSet(said)}
        first(e) == said[SelectInSeq(said, LAMBDA n : n.engine = e)]
        schemaSays == PrismaNeed(Understood(tree)) # <<>> /\ tree.schema.engine = "sqlite"
        kept == IF engines \cap {"postgres", "mysql"} # {} /\ ~schemaSays THEN engines \ {"sqlite"} ELSE engines
    IN  {LET n == first(e) IN
         [kind |-> n.kind, engine |-> e, provided |-> e \in ProvidedEngines,
          variable |-> IF n.variable # "" \/ n.kind = "ephemeral" THEN n.variable
                       ELSE VariableFor(e, n.evidence, tree.example)] : e \in kept}

-----------------------------------------------------------------------------
(* The app that is asked for.                                              *)

\* A repository is read below the app's root directory; a folder has none.
Narrow(tree, root) ==
    [tree EXCEPT !.files = {SubSeq(f, Len(root) + 1, Len(f)) : f \in {x \in @ : IsStrictPrefix(root, x)}}]

WantedDatabases(needs) == {[engine |-> n.engine, variable |-> n.variable] : n \in {x \in needs : x.kind = "database" /\ x.provided}}
\* At most four, each engine once, and only what this panel runs.
ValidateInitialDatabases(wanted) ==
    /\ Cardinality(wanted) <= 4
    /\ \A w \in wanted : w.engine \in ProvidedEngines
    /\ \A w, v \in wanted : w.engine = v.engine => w = v

\* Only what is certain is filled in; the builder only when it is one of two.
CreateUploadApp(d) ==
    LET sure == d.confidence = "high" IN
    [builder    |-> IF sure /\ d.builder \in {"dockerfile", "static"} THEN d.builder ELSE "auto",
     dockerfile |-> IF sure THEN d.dockerfile ELSE <<>>,
     static     |-> IF sure THEN d.static ELSE "",
     command    |-> sure /\ d.command]

-----------------------------------------------------------------------------
(* What the build is told.                                                 *)

ChooseBuilder(app, setting) ==
    CASE app.builder \in {"dockerfile", "nixpacks", "static"} -> app.builder
      [] app.builder \in {"railpack", "auto"} /\ app.dockerfile # <<>> -> "dockerfile"
      [] app.builder = "railpack" /\ app.dockerfile = <<>> -> "railpack"
      [] OTHER -> setting
JobDefaults(spec) == IF spec.dockerfile = <<>> THEN [spec EXCEPT !.dockerfile = <<"Dockerfile">>] ELSE spec
JobValid(spec) ==
    /\ spec.builder \in {"dockerfile", "railpack", "nixpacks", "static"}
    /\ spec.upload \/ spec.builder = "static" \/ spec.repo
\* Which file of the code the builder is pointed at: a Dockerfile in a directory is looked for from
\* the top of the code, one without from the root directory.
BuildScript(spec) ==
    [builder    |-> spec.builder,
     context    |-> spec.root,
     dockerfile |-> IF spec.builder # "dockerfile" THEN <<>>
                    ELSE IF Len(spec.dockerfile) > 1 THEN spec.dockerfile
                    ELSE spec.root \o spec.dockerfile,
     serves     |-> IF spec.builder = "static" THEN (IF spec.static = "" THEN "." ELSE spec.static) ELSE "",
     runs       |-> spec.builder = "static" /\ spec.command]

DetectInit ==
    /\ request \in [tree : Trees, root : Roots, upload : BOOLEAN, setting : Defaults, done : {FALSE}]
    /\ request.upload => request.root = <<>>
Detect ==
    LET d == DetectBuild(Narrow(request.tree, request.root))
        app == CreateUploadApp(d)
        spec == JobDefaults([builder |-> ChooseBuilder(app, request.setting), dockerfile |-> app.dockerfile,
                             static |-> app.static, command |-> app.command, root |-> request.root,
                             upload |-> request.upload, repo |-> ~request.upload])
    IN  /\ ~request.done
        /\ request' = [tree |-> request.tree, root |-> request.root, upload |-> request.upload,
                       setting |-> request.setting, done |-> TRUE, found |-> d, spec |-> spec,
                       told |-> BuildScript(spec), needs |-> DetectNeeds(Narrow(request.tree, request.root))]
DetectNext == Detect
DetectSpec == DetectInit /\ [][DetectNext]_detectVars

-----------------------------------------------------------------------------
(* Properties.                                                             *)

\* What was found is what is built, whichever surface asked: a Job the builder accepts, reading the
\* Dockerfile that was found, serving the directory that was found where that is certain, or leaving it to
\* the default builder; never a front end served unbuilt; and the databases it needs are ones the panel agrees
\* to create, each engine once (Detect, createUploadApp, chooseBuilder, BuildJob together).
\* Left out are a Compose file, and a Dockerfile in a directory below a root directory.
FoundIsBuilt ==
    request.done =>
        LET d == request.found IN
        /\ JobValid(request.spec)
        /\ ValidateInitialDatabases(WantedDatabases(request.needs))
        /\ d.builder = "dockerfile" /\ (Len(d.dockerfile) = 1 \/ request.root = <<>>) =>
               request.told.builder = "dockerfile" /\ request.told.dockerfile \in request.tree.files
        /\ d.builder = "static" /\ d.confidence = "high" =>
               /\ request.told.builder = "static" /\ request.told.serves = d.static
               /\ request.told.runs = d.command
        /\ d.builder = "railpack" \/ d.confidence # "high" => request.told.builder = request.setting
        /\ FindDockerfile(Narrow(request.tree, request.root)) # <<>> => d.builder = "dockerfile"

\* "package.json could not be parsed, so the defaults are used.": what was read of it says nothing.
DefaultsAreUsed ==
    request.done /\ ~request.tree.parsed /\ request.found.builder = "static" => request.found.language # "Node.js"

\* "Found " + dockerfile + ", so it is used as-is.": the Dockerfile the build reads is there.
FoundIsUsedAsIs ==
    request.done /\ request.told.builder = "dockerfile" => request.told.dockerfile \in request.tree.files
=============================================================================
