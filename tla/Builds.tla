------------------------------- MODULE Builds -------------------------------
(***************************************************************************)
(* Builds (build.rs): which adapter a workspace is built with, the commands *)
(* it plans, and how builds that run side by side execute them, write the  *)
(* one log and mark the symbols that their errors name.                    *)
(***************************************************************************)
EXTENDS Naturals, Sequences, FiniteSets, SequencesExt

CONSTANTS
  BuildRuns,      \* builds, each asked for once by the server or by the CLI
  BuildRequests,  \* what may be asked for
  AllSettings,    \* what settings.toml may say
  AllBuildFiles,  \* sets of files the workspace may start with
  MaxSettingsChanges, \* bound
  Unset           \* an option that is not given

Builtin == {"cargo", "cmake", "ninja", "make", "uv", "poetry", "pip", "conda", "mamba", "go", "gradle",
  "maven", "bazel", "meson", "buck2", "npm", "yarn", "pnpm", "bun", "pixi", "mise"}
OrElse(option, default) == IF option = Unset THEN default ELSE option
-----------------------------------------------------------------------------
(* The adapter                                                             *)

\* A path of the settings is refused when it leaves the workspace.
SafePath(p) == Head(p) # ".."
AdapterKnown(cfg, a) == a \in Builtin \cup DOMAIN cfg.adapters
\* Custom adapters are tried by name; one matches when every file it names is there.
Detecting(cfg, files) ==
  {a \in DOMAIN cfg.adapters :
     /\ cfg.adapters[a].detect # {}
     /\ \A f \in cfg.adapters[a].detect : SafePath(f) /\ f \in files}
\* The build systems of the language plugins whose files the workspace has.
PluginAdapters(cfg, files) ==
  IF ~cfg.plugins THEN {}
  ELSE {a \in {l.system : l \in cfg.languages} :
          AdapterKnown(cfg, a) /\ \E l \in cfg.languages : l.system = a /\ l.file \in files}
\* The files that tell of the built-in adapters, in the order in which they are looked for.
Tells == <<
  <<"cargo", {"Cargo.toml"}>>, <<"cmake", {"CMakeLists.txt"}>>, <<"ninja", {"build.ninja", "build/build.ninja"}>>,
  <<"make", {"Makefile", "makefile"}>>, <<"poetry", {"poetry.lock"}>>, <<"uv", {"pyproject.toml", "uv.lock"}>>,
  <<"conda", {"environment.yml", "environment.yaml", "conda.yml"}>>,
  <<"pip", {"requirements.txt", "requirements-dev.txt", "setup.py", "setup.cfg"}>>,
  <<"go", {"go.mod"}>>, <<"node", {"package.json"}>>,
  <<"gradle", {"build.gradle", "build.gradle.kts", "settings.gradle", "settings.gradle.kts", "gradlew", "gradlew.bat"}>>,
  <<"pixi", {"pixi.toml"}>>, <<"mise", {"mise.toml", ".mise.toml"}>>, <<"maven", {"pom.xml"}>>,
  <<"bazel", {"WORKSPACE", "WORKSPACE.bazel", "BUILD", "BUILD.bazel"}>>,
  <<"meson", {"meson.build"}>>, <<"buck2", {".buckconfig"}>> >>
NodeTells == << <<"pnpm", {"pnpm-lock.yaml"}>>, <<"yarn", {"yarn.lock"}>>, <<"bun", {"bun.lockb", "bun.lock"}>> >>
\* The first entry of a table one of whose files is there.
FirstTold(table, there, default) ==
  LET hit == {i \in DOMAIN table : table[i][2] \cap there # {}}
  IN IF hit = {} THEN default ELSE table[CHOOSE i \in hit : \A j \in hit : i <= j][1]
\* Files of the workspace's top, as names.
Tops(files) == {f[1] : f \in {g \in files : Len(g) = 1}} \cup
               {"build/build.ninja" : g \in {h \in files : h = <<"build", "build.ninja">>}}
\* Custom names are sorted; so are the plugins' build systems.  Place is their order.
DetectAdapter(cfg, files) ==
  LET least(names) == CHOOSE a \in names : \A b \in names : cfg.order[a] <= cfg.order[b]
      told == FirstTold(Tells, Tops(files), "make")
  IN IF Detecting(cfg, files) # {} THEN least(Detecting(cfg, files))
     ELSE IF PluginAdapters(cfg, files) # {} THEN least(PluginAdapters(cfg, files))
     ELSE IF told = "node" THEN FirstTold(NodeTells, Tops(files), "npm")
     ELSE told
-----------------------------------------------------------------------------
(* The commands.  A job j has the profile in lower case and as given, the   *)
(* target, the trailing arguments and the files that are there.            *)

TargetOr(j, default) == IF j.target = Unset THEN default ELSE <<j.target>>
TargetFlag(j, flag) == IF j.target = Unset THEN <<>> ELSE <<flag, j.target>>
ForProfile(j, release, debug) ==
  CASE j.lower = "release" -> release [] j.lower = "debug" -> debug [] OTHER -> <<>>
Wrapper(j, script, tool) == IF <<script>> \in j.files THEN <<script>> ELSE <<tool>>

NativeCommand(a, j) ==
  CASE a = "cargo" -> <<"cargo", IF j.zig THEN "zigbuild" ELSE "build">> \o ForProfile(j, <<"--release">>, <<>>)
                      \o TargetFlag(j, "--target")
    [] a = "ninja" -> <<"ninja">> \o TargetOr(j, <<>>)
    [] a = "make"  -> <<"make">> \o TargetOr(j, ForProfile(j, <<"release">>, <<"debug">>))
    [] a = "go"    -> <<"go", "build">>
    [] a = "meson" -> <<"meson", "compile", "-C", j.dir>> \o TargetOr(j, <<>>)
PythonCommand(a, j) ==
  CASE a = "uv"     -> <<"uv", "build">>
    [] a = "poetry" -> <<"poetry", "build">> \o TargetFlag(j, "-f")
    [] a = "pip"    -> <<"python", "-m", "pip", "wheel">> \o TargetOr(j, <<".">>)
    [] OTHER        -> <<a, "run", "python", "-m", "build">> \o TargetOr(j, <<>>)
JvmCommand(a, j) ==
  IF a = "gradle" THEN Wrapper(j, "gradlew", "gradle") \o TargetOr(j, <<"build">>)
  ELSE Wrapper(j, "mvnw", "mvn") \o TargetOr(j, <<"compile">>) \o ForProfile(j, <<"-P", "release">>, <<>>)
MonorepoCommand(a, j) ==
  <<a, "build">> \o (IF a = "bazel" THEN ForProfile(j, <<"-c", "opt">>, <<"-c", "dbg">>) ELSE <<>>)
                 \o TargetOr(j, <<"//...">>)
ScriptCommand(a, j) ==
  IF a \in {"pixi", "mise"} THEN <<a, "run">> \o TargetOr(j, <<"build">>) ELSE <<a, "run", "build">>
BuiltinCommand(a, j) ==
  CASE a \in {"cargo", "ninja", "make", "go", "meson"} -> NativeCommand(a, j)
    [] a \in {"uv", "poetry", "pip", "conda", "mamba"} -> PythonCommand(a, j)
    [] a \in {"gradle", "maven"} -> JvmCommand(a, j)
    [] a \in {"bazel", "buck2"}  -> MonorepoCommand(a, j)
    [] OTHER -> ScriptCommand(a, j)

Step(kind, cwd, command) == [kind |-> kind, cwd |-> cwd, command |-> command]
\* cmake configures only while its directory is not there, for the profile of that moment.
CmakeSteps(j) ==
  (IF \E f \in j.files : Head(f) = j.dir THEN <<>>
   ELSE <<Step("configure", ".", <<"cmake", "-S", ".", "-B", j.dir,
            IF j.lower = "release" THEN "-DCMAKE_BUILD_TYPE=Release" ELSE "-DCMAKE_BUILD_TYPE=Debug">>)>>)
  \o <<Step("build", ".", <<"cmake", "--build", j.dir>>
         \o ForProfile(j, <<"--config", "Release">>, <<"--config", "Debug">>) \o TargetFlag(j, "--target") \o j.tail)>>
\* The placeholders of a custom command.
Filled(token, j) ==
  CASE token = "{profile}" -> j.profile [] token = "{target}" -> OrElse(j.target, "") [] OTHER -> token
\* A custom adapter: its commands that are not empty, if it is safe and has some.
CustomRefused(c) ==
  \/ ~\E i \in DOMAIN c.steps : c.steps[i] # <<>>
  \/ \E f \in c.detect : ~SafePath(f)
  \/ c.cwd # Unset /\ ~SafePath(c.cwd)
RealCommands(steps) ==
  LET real == {i \in DOMAIN steps : steps[i] # <<>>}
  IN [k \in 1..Cardinality(real) |-> steps[CHOOSE i \in real : Cardinality({j \in real : j <= i}) = k]]
CustomSteps(c, j) ==
  LET real == RealCommands(c.steps)
      cwd == IF c.cwd = Unset THEN "." ELSE Head(c.cwd)
  IN [i \in DOMAIN real |-> Step("build", cwd, [k \in DOMAIN real[i] |-> Filled(real[i][k], j)] \o j.tail)]
NinjaCwd(j) == IF <<j.dir, "build.ninja">> \in j.files THEN j.dir ELSE "."
\* plan_steps: the steps, or a refusal.
PlanRefused(cfg, a) ==
  \/ ~SafePath(OrElse(cfg.dir, <<"build">>))
  \/ a \notin Builtin /\ (a \notin DOMAIN cfg.adapters \/ CustomRefused(cfg.adapters[a]))
PlanSteps(cfg, a, j) ==
  CASE a = "cmake"      -> CmakeSteps(j)
    [] a \notin Builtin -> CustomSteps(cfg.adapters[a], j)
    [] OTHER -> <<Step("build", IF a = "ninja" THEN NinjaCwd(j) ELSE ".", BuiltinCommand(a, j) \o j.tail)>>
-----------------------------------------------------------------------------
(* run_build up to its first command                                       *)

\* A target that is the name of a task stands for the task's command.
CommandOf(cfg, req) ==
  LET target == OrElse(req.target, cfg.target)
  IN IF req.command # Unset THEN req.command
     ELSE IF target \in DOMAIN cfg.tasks THEN <<cfg.tasks[target]>> \o req.tail
     ELSE Unset
AdapterOf(cfg, req, files) == OrElse(OrElse(req.adapter, cfg.preferred), DetectAdapter(cfg, files))
JobOf(cfg, req, files) ==
  LET profile == OrElse(OrElse(req.profile, cfg.profile), "debug")
  IN [profile |-> profile, lower |-> IF profile = "Release" THEN "release" ELSE profile,
      target |-> OrElse(req.target, cfg.target), tail |-> req.tail, zig |-> req.zig,
      dir |-> Head(OrElse(cfg.dir, <<"build">>)), files |-> files]
NotPlanned == [planned |-> FALSE, adapter |-> Unset, steps |-> <<>>, asks |-> FALSE]
\* What a request comes to: refused, or an adapter with its steps and whether consent is asked for.
Planned(cfg, req, files) ==
  LET command == CommandOf(cfg, req)
      a == IF command # Unset THEN "custom-shell" ELSE AdapterOf(cfg, req, files)
      steps == IF command # Unset THEN <<Step("shell", ".", command)>> ELSE PlanSteps(cfg, a, JobOf(cfg, req, files))
  IN IF \/ command # Unset /\ req.execute /\ ~cfg.raw
        \/ command = Unset /\ PlanRefused(cfg, a)
     THEN NotPlanned
     ELSE [planned |-> TRUE, adapter |-> a, steps |-> steps,
           asks |-> a \notin Builtin /\ ~req.trusted /\ req.execute]
-----------------------------------------------------------------------------
(* Running                                                                 *)

CONSTANTS
  Reports,     \* what a failing command may print: sequences of error lines
  SymbolRows   \* the symbols of the index with their file and first and last line

\* An option that is not given is no name; custom commands are lists; symbols have an id each.
ASSUME BuildsAssumption ==
  /\ Unset \notin BuildRuns /\ Unset \notin Builtin \cup {"custom-shell", "ok"}
  /\ \A cfg \in AllSettings : \A a \in DOMAIN cfg.adapters :
       LET steps == cfg.adapters[a].steps
       IN a # Unset /\ Len(steps) \in Nat /\ DOMAIN steps = 1..Len(steps)
  /\ \A req \in BuildRequests :
       req = [adapter |-> req.adapter, profile |-> req.profile, target |-> req.target, execute |-> req.execute,
              zig |-> req.zig, command |-> req.command, trusted |-> req.trusted, tail |-> req.tail, cli |-> req.cli]
  /\ \A s \in SymbolRows : /\ s.from \in Nat /\ s.to \in Nat /\ s.from <= s.to
                            /\ \A t \in SymbolRows : s.id = t.id => s = t

VARIABLES
  building,    \* each build: where it is, its request and plan, and how its steps went
  settings,    \* settings.toml
  workFiles,   \* the files that are there
  buildLog,    \* builds/latest.log: cells <<build, step, what>>, or a hole
  faulty,      \* symbols with a fault_id
  changes,     \* settings changed so far
  lastLogged, mixed, printed \* history: who emptied the log last, whether two had it open, errors printed

buildsVars == <<building, settings, workFiles, buildLog, faulty, changes, lastLogged, mixed, printed>>

Waiting == [at |-> "rest", req |-> Unset, plan |-> NotPlanned, went |-> <<>>, answer |-> Unset, end |-> 0, shown |-> Unset]
BuildsInit ==
  /\ building = [r \in BuildRuns |-> Waiting]
  /\ settings \in AllSettings /\ workFiles \in AllBuildFiles
  /\ buildLog = <<>> /\ faulty = {} /\ changes = 0
  /\ lastLogged = Unset /\ mixed = FALSE /\ printed = {}

Executing == {r \in BuildRuns : building[r].at \in {"between", "in step"}}
\* A cell written at a build's own place in the file: what is missing before it is a hole.
WriteAt(place, cell) ==
  [i \in 1..Max({Len(buildLog), place + 1}) |->
     IF i = place + 1 THEN cell ELSE IF i \in DOMAIN buildLog THEN buildLog[i] ELSE <<>>]
Goes(r, req, plan, shown) ==
  building' = [building EXCEPT ![r] = [Waiting EXCEPT !.req = req, !.plan = plan, !.shown = shown,
     !.at = IF ~plan.planned \/ ~req.execute \/ (plan.asks /\ shown = Unset /\ ~req.cli) THEN "done"
            ELSE IF plan.asks /\ shown = Unset THEN "asking" ELSE "between",
     !.answer = IF ~plan.planned THEN "refused"
                ELSE IF ~req.execute \/ (plan.asks /\ shown = Unset) THEN "ok" ELSE Unset]]
\* The log is emptied when the steps begin.
OpensLog(r) ==
  IF building'[r].at = "between"
  THEN /\ buildLog' = <<>> /\ lastLogged' = r
       /\ mixed' = (mixed \/ Executing # {})
  ELSE UNCHANGED <<buildLog, lastLogged, mixed>>
\* route_build_command, or the CLI's first call of it.
AskForBuild(r) ==
  /\ building[r].at = "rest"
  /\ \E req \in BuildRequests : Goes(r, req, Planned(settings, req, workFiles), Unset)
  /\ OpensLog(r)
  /\ UNCHANGED <<settings, workFiles, faulty, changes, printed>>
\* The CLI's user says yes to the adapter shown: the request is made again, with consent.
Confirm(r) ==
  /\ building[r].at = "asking"
  /\ LET again == [building[r].req EXCEPT !.trusted = TRUE]
     IN Goes(r, building[r].req, Planned(settings, again, workFiles), building[r].plan.adapter)
  /\ OpensLog(r)
  /\ UNCHANGED <<settings, workFiles, faulty, changes, printed>>
Decline(r) ==
  /\ building[r].at = "asking"
  /\ building' = [building EXCEPT ![r].at = "done", ![r].answer = "aborted"]
  /\ UNCHANGED <<settings, workFiles, buildLog, faulty, changes, lastLogged, mixed, printed>>
\* The next command is announced in the log and started.
BeginStep(r) ==
  LET b == building[r] IN
  /\ b.at = "between" /\ Len(b.went) < Len(b.plan.steps)
  /\ building' = [building EXCEPT ![r].at = "in step", ![r].end = b.end + 1]
  /\ buildLog' = WriteAt(b.end, <<r, Len(b.went) + 1, "begins">>)
  /\ UNCHANGED <<settings, workFiles, faulty, changes, lastLogged, mixed, printed>>
\* Error lines give a file and a line; C compilers must give the column too.
Extracted(l) == l.style # "c" \/ l.column
\* get_symbol_at_line: the shortest symbol around the line.
Encloses(s, l) == s.file = l.file /\ s.from <= l.line /\ l.line <= s.to
SymbolAt(l) ==
  LET around == {s \in SymbolRows : Encloses(s, l)}
  IN {s \in around : \A t \in around : s.to - s.from <= t.to - t.from}
Marked(report) == UNION {{s.id : s \in SymbolAt(l)} : l \in {m \in ToSet(report) : Extracted(m)}}
\* Mutant: the build goes on after a step that failed.
StepsLeftAnyway(b, ok) == Len(b.went) + 1 < Len(b.plan.steps)
\* After a step, the next one; a step that fails is the last.
StepsLeft(b, ok) == ok /\ Len(b.went) + 1 < Len(b.plan.steps)
EndStep(r) ==
  LET b == building[r]
      i == Len(b.went) + 1
      configures == b.plan.steps[i].kind = "configure"
      dir == <<b.plan.steps[i].command[6]>>
  IN
  /\ b.at = "in step"
  /\ \E ok \in BOOLEAN, report \in Reports :
       /\ ok => report = <<>>
       /\ building' = [building EXCEPT ![r].at = IF StepsLeft(b, ok) THEN "between" ELSE "done",
            ![r].went = Append(b.went, ok), ![r].end = IF report = <<>> THEN b.end ELSE b.end + 1,
            ![r].answer = IF StepsLeft(b, ok) THEN Unset
                          ELSE IF \A k \in DOMAIN Append(b.went, ok) : Append(b.went, ok)[k] THEN "ok" ELSE "error"]
       /\ buildLog' = IF report = <<>> THEN buildLog ELSE WriteAt(b.end, <<r, i, "errors">>)
       /\ faulty' = IF ok THEN faulty ELSE faulty \cup Marked(report)
       /\ printed' = IF ok THEN printed ELSE printed \cup ToSet(report)
       \* a configuration that fails leaves the directory too
       /\ workFiles' \in IF configures THEN {workFiles, workFiles \cup {dir}} ELSE {workFiles}
  /\ UNCHANGED <<settings, changes, lastLogged, mixed>>
\* Somebody edits settings.toml.
ChangeSettings ==
  /\ changes < MaxSettingsChanges
  /\ settings' \in AllSettings \ {settings} /\ changes' = changes + 1
  /\ UNCHANGED <<building, workFiles, buildLog, faulty, lastLogged, mixed, printed>>
BuildsNext ==
  \/ \E r \in BuildRuns : AskForBuild(r) \/ Confirm(r) \/ Decline(r) \/ BeginStep(r) \/ EndStep(r)
  \/ ChangeSettings
BuildsSpec == BuildsInit /\ [][BuildsNext]_buildsVars
-----------------------------------------------------------------------------
(* Properties                                                              *)

\* What detection names is an adapter that there is a plan for (build.rs:239-411).
DetectedIsPlanned ==
  \A cfg \in AllSettings, files \in AllBuildFiles :
    LET a == DetectAdapter(cfg, files)
    IN /\ PlanRefused(cfg, a) => ~SafePath(OrElse(cfg.dir, <<"build">>)) \/ CustomRefused(cfg.adapters[a])
       /\ a \in DOMAIN cfg.adapters => \A l \in cfg.languages : l.system # a => cfg.adapters[a].detect \subseteq files
\* Trailing arguments end every command but cmake's configuration, which has none.
TailGoesLast ==
  \A cfg \in AllSettings, files \in AllBuildFiles, req \in BuildRequests :
    \A s \in ToSet(Planned(cfg, req, files).steps) :
      IF s.kind = "configure" THEN ~\E i \in DOMAIN s.command : s.command[i] \in ToSet(req.tail)
      ELSE IsSuffix(req.tail, s.command) \/ req.command # Unset
\* Commands that the workspace's settings or the caller supply run only for a caller who
\* allowed that, or who was shown this very adapter while the settings and the files stayed
\* as they were: a directory that another build configures may be what an adapter looks for.
NothingConfigured ==
  \A r \in BuildRuns : \A i \in DOMAIN building[r].went : building[r].plan.steps[i].kind # "configure"
OnlyWithConsent ==
  \A r \in BuildRuns :
    LET b == building[r] IN
    b.at # "rest" /\ b.plan.adapter \notin Builtin /\ (b.went # <<>> \/ r \in Executing)
      => b.req.trusted \/ (b.shown # Unset /\ (changes = 0 /\ NothingConfigured => b.shown = b.plan.adapter))
\* A build stops at the first step that fails, and says "ok" only when no step did.
FailureEndsBuild ==
  \A r \in BuildRuns :
    LET b == building[r] IN
    /\ \A i \in DOMAIN b.went : ~b.went[i] => i = Len(b.went) /\ b.answer = "error"
    /\ b.answer = "ok" /\ b.went # <<>> => Len(b.went) = Len(b.plan.steps)
\* Without two builds at once, the log tells of the last one, from its first command on.
LogIsOfOneBuild ==
  ~mixed /\ lastLogged # Unset =>
    /\ Len(buildLog) = building[lastLogged].end
    /\ \A i \in DOMAIN buildLog : buildLog[i] # <<>> /\ buildLog[i][1] = lastLogged
    /\ buildLog # <<>> => buildLog[1] = <<lastLogged, 1, "begins">>
\* The faulty symbols are those of the errors printed: every error that can be read and lies
\* in a symbol marks one, and no symbol is marked for an error of one nested in it.
ErrorsMarkTheirSymbols ==
  /\ \A l \in printed : Extracted(l) /\ (\E s \in SymbolRows : Encloses(s, l))
                         => \E s \in SymbolRows : Encloses(s, l) /\ s.id \in faulty
  /\ \A s \in SymbolRows : s.id \in faulty =>
       \E l \in printed : /\ Encloses(s, l)
                          /\ ~\E t \in SymbolRows : Encloses(t, l) /\ t.to - t.from < s.to - s.from
\* Together: a build runs what its settings name, with consent, until a step fails, and tells
\* of it in the log and in the index (build.rs, main.rs:745-880).
BuildsKeep ==
  /\ OnlyWithConsent /\ FailureEndsBuild /\ LogIsOfOneBuild /\ ErrorsMarkTheirSymbols
BuildPlansKeep == DetectedIsPlanned /\ TailGoesLast
=============================================================================
