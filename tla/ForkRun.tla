------------------------------ MODULE ForkRun -------------------------------
(***************************************************************************)
(* The commands of the CLI that share report files: whatifd fork (load and *)
(* affirm a config, build the adapters, replay, walk the report, write the *)
(* JSON, then the Markdown, then exit with the verdict), report-migrate,   *)
(* diff and exec-check.  They are separate processes; a file is written by *)
(* opening it, which truncates it, and filling it.  A process may be       *)
(* killed or interrupted at any moment, and any call may fail.             *)
(*                                                                         *)
(* What happens inside run_pipeline is the subject of the other modules:   *)
(* here it yields a report, raises, or lets the runner's exit through.     *)
(* What becomes of the child process of an exec: runner is ExecLane's.     *)
(***************************************************************************)
EXTENDS Naturals, FiniteSets, Sequences

CONSTANTS
  Forks,    \* processes of whatifd fork
  Tools,    \* processes of report-migrate, diff or exec-check
  Configs,  \* the configs each fork may be given
  Reports,  \* what run_pipeline may return to each fork
  Pinned,   \* forks that may be run with --output-json, --output-md
  MaxCut    \* bound on the processes that are killed or interrupted

Procs == Forks \cup Tools

ASSUME ForkAssumption ==
  /\ Forks \cap Tools = {} /\ Pinned \subseteq Forks
  /\ "dated" \notin Procs /\ "nobody" \notin Procs /\ "past" \notin Procs

EXIT_SHIP == 0
EXIT_DONT_SHIP == 1
EXIT_INCONCLUSIVE_OR_SETUP_FAILURE == 2

VARIABLES
  stage,    \* where each process is
  cfg,      \* the config a fork loaded
  cli,      \* its --profile
  report,   \* the report it holds
  dest,     \* where its JSON and its Markdown go
  loaded,   \* what a tool read
  file,     \* what each path holds
  touched,  \* ghost: the paths each process has opened for writing
  belt,     \* ghost: forks stopped by a guard that repeats the validation
  exit,     \* exit code
  ending    \* "", "returned", "uncaught", "SystemExit", "interrupted", "killed"

forkVars == <<cfg, cli, report, dest, belt>>
vars == <<stage, cfg, cli, report, dest, loaded, file, touched, belt, exit, ending>>

-----------------------------------------------------------------------------
\* Reports and files.

Verdicts == {"ship", "dont_ship", "inconclusive"}

\* tainted: holds an unwrapped Sensitive value; odd: text UTF-8 cannot encode.
Report(verdict, tainted, odd) ==
  [verdict |-> verdict, tainted |-> tainted, odd |-> odd]
NoReport == Report("none", FALSE, FALSE)

ASSUME ReportsAssumption ==
  \A f \in Forks :
    Reports[f] \subseteq
      {Report(v, t, o) : v \in Verdicts, t \in BOOLEAN, o \in BOOLEAN}

File(kind, by, verdict, version) ==
  [kind |-> kind, by |-> by, verdict |-> verdict, version |-> version]
NoFile(kind) == File(kind, "nobody", "none", "none")
Absent == NoFile("absent")
Empty == NoFile("empty")
Torn == NoFile("torn")        \* a part of what should be there
Mixed == NoFile("mixed")      \* parts of what two processes wrote
Foreign == NoFile("foreign")  \* not a report
Current == "0.2"              \* REPORT_SCHEMA_VERSION
OldReport == File("report", "past", "ship", "0.1")

Dated(ext) == <<"dated", ext>>
JsonPaths == {<<owner, "json">> : owner \in {"dated"} \cup Forks}
\* The file that report-migrate writes without --in-place.
Beside(path) == <<path[1], "v0.2.json">>

Paths == JsonPaths \cup {Beside(p) : p \in JsonPaths}
           \cup {<<owner, "md">> : owner \in {"dated"} \cup Forks}

NoDest == [json |-> Dated("json"), md |-> Dated("md")]

\* What a write leaves: the whole text, unless another process has written
\* since the file was opened, and the longer text's end stays.
Filled(path, text) ==
  IF file[path] = Empty THEN {text} ELSE {text, Mixed}

-----------------------------------------------------------------------------
\* The configuration.

\* scorer is a Literal of two names.
ASSUME ConfigsAssumption ==
  \A f \in Forks : \A c \in Configs[f] : c.scorer \in {"stub", "inspect_ai"}

CheckAdapterRequiredFields(c) ==
  /\ c.source = "phoenix" => c.spans_provider
  /\ c.source = "datadog" => c.dd_from

ValidateInspectAiRequiredFields(c) == c.scorer = "inspect_ai" => c.judge

ForensicRequiresAcknowledgmentBlock(c) ==
  c.profile = "forensic" => c.acknowledged

CheckSelectionMatchesExperimentShape(c) ==
  c.failure_cohort <=> c.shape = "failure_rescue"

\* WhatifConfig.model_validate.
Valid(c) ==
  /\ CheckAdapterRequiredFields(c)
  /\ ValidateInspectAiRequiredFields(c)
  /\ ForensicRequiresAcknowledgmentBlock(c)
  /\ CheckSelectionMatchesExperimentShape(c)

\* assert_two_affirmation: forensic on both surfaces or on neither.
Affirmed(c, profile) == c.profile = "forensic" <=> profile = "forensic"

\* What building a part may come to.  "refused" is an AdapterFactoryError or a
\* RunnerLoadError; "belt" one that a validated config cannot cause; "leak"
\* any other exception, raised by the module that is imported.
BuildLangfuse == {"ok", "refused"}

\* load_python_callable: the reference, its module and its attribute.
LoadCallable == {"ok", "refused", "leak"}

BuildPhoenix(c) == IF c.spans_provider THEN LoadCallable ELSE {"belt"}

BuildDatadog(c) == IF c.dd_from THEN {"ok", "refused"} ELSE {"belt"}

\* The adapter is any string to the config; an unknown one is refused here.
BuildTraceSource(c) ==
  CASE c.source = "stub" -> {"ok"}
    [] c.source = "langfuse" -> BuildLangfuse
    [] c.source = "phoenix" -> BuildPhoenix(c)
    [] c.source = "datadog" -> BuildDatadog(c)
    [] OTHER -> {"refused"}

BuildScorer(c) ==
  IF c.scorer = "stub" THEN {"ok"}
  ELSE IF c.judge THEN LoadCallable ELSE {"belt"}

LoadExecRunner == {"ok", "refused"}
LoadRunner == LoadExecRunner \cup LoadCallable

\* The first of the three that is not built decides.
Built(source, scorer, target) ==
  IF source # "ok" THEN source ELSE IF scorer # "ok" THEN scorer ELSE target

-----------------------------------------------------------------------------
Init ==
  /\ stage = [p \in Procs |-> "start"]
  /\ cfg = [f \in Forks |-> <<>>] /\ cli = [f \in Forks |-> "none"]
  /\ report = [f \in Forks |-> NoReport]
  /\ dest = [f \in Forks |-> NoDest]
  /\ loaded = [t \in Tools |-> <<>>]
  /\ \E past \in {Absent, OldReport, Foreign} :
       file = [p \in Paths |->
                 IF p \in ({"dated"} \cup Pinned) \X {"json"} THEN past
                 ELSE Absent]
  /\ touched = [p \in Procs |-> {}]
  /\ belt = {}
  /\ exit = [p \in Procs |-> 0]
  /\ ending = [p \in Procs |-> ""]

Goto(p, to) ==
  /\ stage' = [stage EXCEPT ![p] = to]
  /\ UNCHANGED <<exit, ending>>

Ends(p, how, code) ==
  /\ stage' = [stage EXCEPT ![p] = "over"]
  /\ ending' = [ending EXCEPT ![p] = how]
  /\ exit' = [exit EXCEPT ![p] = code]

\* typer.Exit; or the traceback of an uncaught exception, whose code is 1.
Returns(p, code) == Ends(p, "returned", code)
Refuses(p) == Returns(p, EXIT_INCONCLUSIVE_OR_SETUP_FAILURE)
Leaks(p) == Ends(p, "uncaught", 1)

\* load_config: ConfigFileError, ValidationError; UnicodeDecodeError is neither.
LoadConfig(f) ==
  /\ stage[f] = "start"
  /\ \/ (Refuses(f) \/ Leaks(f)) /\ UNCHANGED <<cfg, cli>>
     \/ \E c \in Configs[f], profile \in {"none", "forensic"} :
          IF Valid(c)
          THEN /\ Goto(f, "loaded") /\ cfg' = [cfg EXCEPT ![f] = c]
               /\ cli' = [cli EXCEPT ![f] = profile]
          ELSE Refuses(f) /\ UNCHANGED <<cfg, cli>>
  /\ UNCHANGED <<report, dest, loaded, file, touched, belt>>

AssertTwoAffirmation(f) ==
  /\ stage[f] = "loaded"
  /\ IF Affirmed(cfg[f], cli[f]) THEN Goto(f, "affirmed") ELSE Refuses(f)
  /\ UNCHANGED <<cfg, cli, report, dest, loaded, file, touched, belt>>

\* build_trace_source, build_scorer, load_runner.  (cfg and cli are dropped.)
BuildAdapters(f) ==
  /\ stage[f] = "affirmed"
  /\ \E source \in BuildTraceSource(cfg[f]), scorer \in BuildScorer(cfg[f]),
        target \in LoadRunner :
       LET built == Built(source, scorer, target)
       IN /\ \/ built = "ok" /\ Goto(f, "built")
             \/ built \in {"refused", "belt"} /\ Refuses(f)
             \/ built = "leak" /\ Leaks(f)
          /\ belt' = IF built = "belt" THEN belt \cup {f} ELSE belt
  /\ cfg' = [cfg EXCEPT ![f] = <<>>] /\ cli' = [cli EXCEPT ![f] = "none"]
  /\ UNCHANGED <<report, dest, loaded, file, touched>>

\* run_pipeline starts.
StartReplay(f) ==
  /\ stage[f] = "built"
  /\ Goto(f, "replaying")
  /\ UNCHANGED <<cfg, cli, report, dest, loaded, file, touched, belt>>

\* run_pipeline returns, or raises an Exception (setup failure), or a
\* SystemExit of the runner goes through with the code the runner chose.  The
\* finally clause closes the runner, suppressing what close() raises.
EndReplay(f) ==
  /\ stage[f] = "replaying"
  /\ \/ \E r \in Reports[f] :
          report' = [report EXCEPT ![f] = r] /\ Goto(f, "reported")
     \/ Refuses(f) /\ UNCHANGED report
     \/ \E code \in 0..2 : Ends(f, "SystemExit", code) /\ UNCHANGED report
  /\ UNCHANGED <<cfg, cli, dest, loaded, file, touched, belt>>

Truncate(p, path) ==
  /\ file' = [file EXCEPT ![path] = Empty]
  /\ touched' = [touched EXCEPT ![p] = @ \cup {path}]

\* --output-json and --output-md, each pinned or under the name of the day.
Destinations(f) ==
  LET owners == {"dated"} \cup (Pinned \cap {f})
  IN  {[json |-> <<j, "json">>, md |-> <<m, "md">>] : j \in owners, m \in owners}

\* assert_no_unredacted_sensitive on the report, then the two paths.
WalkReport(f) ==
  /\ stage[f] = "reported"
  /\ IF report[f].tainted THEN Refuses(f) /\ UNCHANGED dest
     ELSE /\ Goto(f, "walked")
          /\ \E d \in Destinations(f) : dest' = [dest EXCEPT ![f] = d]
  /\ UNCHANGED <<cfg, cli, report, loaded, file, touched, belt>>

JsonText(f) == File("report", f, report[f].verdict, Current)
MdText(f) == File("report", f, report[f].verdict, "md")

\* encode_report_v01 (its own refusal of a Sensitive is no OSError), mkdir of
\* both parents, open.
OpenJson(f) ==
  /\ stage[f] = "walked"
  /\ IF report[f].tainted THEN Leaks(f) /\ UNCHANGED <<file, touched>>
     ELSE \/ Goto(f, "json") /\ Truncate(f, dest[f].json)
          \/ Refuses(f) /\ UNCHANGED <<file, touched>>
  /\ UNCHANGED <<cfg, cli, report, dest, loaded, belt>>

FillJson(f) ==
  /\ stage[f] = "json"
  /\ \/ /\ Goto(f, "half")
        /\ \E text \in Filled(dest[f].json, JsonText(f)) :
             file' = [file EXCEPT ![dest[f].json] = text]
     \/ Refuses(f) /\ file' = [file EXCEPT ![dest[f].json] = Torn]
  /\ UNCHANGED <<cfg, cli, report, dest, loaded, touched, belt>>

\* Mutant: a Markdown that cannot be opened is left out.
OpenMdOrSkip(f) ==
  /\ stage[f] = "half"
  /\ \/ Goto(f, "md") /\ Truncate(f, dest[f].md)
     \/ Goto(f, "written") /\ UNCHANGED <<file, touched>>
  /\ UNCHANGED <<cfg, cli, report, dest, loaded, belt>>

OpenMd(f) ==
  /\ stage[f] = "half"
  /\ \/ Goto(f, "md") /\ Truncate(f, dest[f].md)
     \/ Refuses(f) /\ UNCHANGED <<file, touched>>
  /\ UNCHANGED <<cfg, cli, report, dest, loaded, belt>>

\* Mutant: a disk that is full does not change the verdict.
FillMdAnyway(f) ==
  /\ stage[f] = "md"
  /\ Goto(f, "written")
  /\ \E text \in Filled(dest[f].md, MdText(f)) \cup {Torn} :
       file' = [file EXCEPT ![dest[f].md] = text]
  /\ UNCHANGED <<cfg, cli, report, dest, loaded, touched, belt>>

\* write_text encodes after it opened: UnicodeEncodeError is no OSError.
FillMd(f) ==
  /\ stage[f] = "md"
  /\ \/ /\ ~report[f].odd /\ Goto(f, "written")
        /\ \E text \in Filled(dest[f].md, MdText(f)) :
             file' = [file EXCEPT ![dest[f].md] = text]
     \/ report[f].odd /\ Leaks(f) /\ UNCHANGED file
     \/ Refuses(f) /\ file' = [file EXCEPT ![dest[f].md] = Torn]
  /\ UNCHANGED <<cfg, cli, report, dest, loaded, touched, belt>>

ExitCode(verdict) ==
  CASE verdict = "ship" -> EXIT_SHIP
    [] verdict = "dont_ship" -> EXIT_DONT_SHIP
    [] verdict = "inconclusive" -> EXIT_INCONCLUSIVE_OR_SETUP_FAILURE

\* The paths go to stdout; if nobody reads it any more the code is 1.
Announce(f) ==
  /\ stage[f] = "written"
  /\ Returns(f, ExitCode(report[f].verdict)) \/ Leaks(f)
  /\ UNCHANGED <<cfg, cli, report, dest, loaded, file, touched, belt>>

-----------------------------------------------------------------------------
\* report-migrate, diff, exec-check.

Parses(text) == text.kind \in {"report", "foreign"}

\* load_report_json: ReportLoadError for a file that is absent or broken.
\* Foreign text may be JSON or not, and need not be UTF-8.
ReadToMigrate(t) ==
  /\ stage[t] = "start"
  /\ \E path \in JsonPaths :
       LET text == file[path]
       IN /\ \/ /\ Parses(text) /\ Goto(t, "migrating")
                /\ loaded' = [loaded EXCEPT ![t] = <<path, text>>]
             \/ text.kind # "report" /\ Refuses(t) /\ UNCHANGED loaded
             \/ text = Foreign /\ Leaks(t) /\ UNCHANGED loaded
  /\ UNCHANGED <<forkVars, file, touched>>

Migrated(text) == [text EXCEPT !.version = Current]

\* Mutant: what is current is written again.
MigrateAlways(t) ==
  /\ stage[t] = "migrating"
  /\ LET path == loaded[t][1] text == loaded[t][2]
     IN \/ text.kind = "foreign" /\ Refuses(t) /\ UNCHANGED <<file, touched>>
        \/ /\ text.kind = "report"
           /\ \E out \in {path, Beside(path)} :
                /\ Truncate(t, out) /\ Goto(t, IF out = path THEN "inplace" ELSE "beside")
  /\ UNCHANGED <<forkVars, loaded>>

\* migrate_report: MigrationError; a no-op on a current report; or the file is
\* opened, in place or beside (an OSError of write_bytes is not caught).
Migrate(t) ==
  /\ stage[t] = "migrating"
  /\ LET path == loaded[t][1] text == loaded[t][2]
     IN \/ text.kind = "foreign" /\ Refuses(t) /\ UNCHANGED <<file, touched>>
        \/ /\ text.kind = "report" /\ text.version = Current
           /\ Returns(t, 0) /\ UNCHANGED <<file, touched>>
        \/ /\ text.kind = "report" /\ text.version # Current
           /\ \/ Leaks(t) /\ UNCHANGED <<file, touched>>
              \/ Goto(t, "inplace") /\ Truncate(t, path)
              \/ Goto(t, "beside") /\ Truncate(t, Beside(path))
  /\ UNCHANGED <<forkVars, loaded>>

FillMigrated(t) ==
  /\ stage[t] \in {"inplace", "beside"}
  /\ LET out == IF stage[t] = "inplace" THEN loaded[t][1] ELSE Beside(loaded[t][1])
     IN \/ /\ Returns(t, 0)
           /\ \E text \in Filled(out, Migrated(loaded[t][2])) :
                file' = [file EXCEPT ![out] = text]
        \/ Leaks(t) /\ file' = [file EXCEPT ![out] = Torn]
  /\ UNCHANGED <<forkVars, loaded, touched>>

\* load_report of the one file, then of the other.
ReadToDiff(t) ==
  /\ stage[t] \in {"start", "diffing"} /\ Len(loaded[t]) < 2
  /\ \E path \in Paths :
       LET text == file[path]
       IN \/ /\ Parses(text) /\ path[2] # "md" /\ Goto(t, "diffing")
             /\ loaded' = [loaded EXCEPT ![t] = Append(@, text.kind)]
          \/ /\ text.kind # "report" \/ path[2] = "md"
             /\ Refuses(t) /\ UNCHANGED loaded
          \/ text = Foreign /\ Leaks(t) /\ UNCHANGED loaded
  /\ UNCHANGED <<forkVars, file, touched>>

\* compute_diff raises KeyError for a mapping that is no report; diff does not
\* catch it.
Diff(t) ==
  /\ stage[t] = "diffing" /\ Len(loaded[t]) = 2
  /\ IF "foreign" \in {loaded[t][1], loaded[t][2]} THEN Leaks(t) ELSE Returns(t, 0)
  /\ UNCHANGED <<forkVars, loaded, file, touched>>

\* exec-check of an exec: target that loads, and of one that does not.
StartCheck(t) ==
  /\ stage[t] = "start"
  /\ Goto(t, "checking") \/ Refuses(t)
  /\ UNCHANGED <<forkVars, loaded, file, touched>>

\* It conforms, or raises ExecRunnerError, or something else; close() follows.
EndCheck(t) ==
  /\ stage[t] = "checking"
  /\ Returns(t, 0) \/ Refuses(t) \/ Leaks(t)
  /\ UNCHANGED <<forkVars, loaded, file, touched>>

\* The file a process has open.
OpenPath(p) ==
  {path \in Paths :
     \/ stage[p] = "json" /\ path = dest[p].json
     \/ stage[p] = "md" /\ path = dest[p].md
     \/ stage[p] = "inplace" /\ path = loaded[p][1]
     \/ stage[p] = "beside" /\ path = Beside(loaded[p][1])}

\* What it has written so far is there.
Breaks(p) ==
  \/ UNCHANGED file
  \/ \E path \in OpenPath(p) :
       file[path] = Empty /\ file' = [file EXCEPT ![path] = Torn]

CanBeCut(p) ==
  /\ stage[p] \notin {"start", "over"}
  /\ Cardinality({q \in Procs : ending[q] \in {"interrupted", "killed"}}) < MaxCut

\* Ctrl-C: KeyboardInterrupt, the finally clauses, code 1.
Interrupt(p) ==
  /\ CanBeCut(p)
  /\ Ends(p, "interrupted", 1) /\ Breaks(p)
  /\ UNCHANGED <<forkVars, loaded, touched>>

Kill(p) ==
  /\ CanBeCut(p)
  /\ Ends(p, "killed", 137) /\ Breaks(p)
  /\ UNCHANGED <<forkVars, loaded, touched>>

Fork(f) ==
  \/ LoadConfig(f) \/ AssertTwoAffirmation(f) \/ BuildAdapters(f)
  \/ StartReplay(f) \/ EndReplay(f) \/ WalkReport(f)
  \/ OpenJson(f) \/ FillJson(f) \/ OpenMd(f) \/ FillMd(f) \/ Announce(f)

Tool(t) ==
  \/ ReadToMigrate(t) \/ Migrate(t) \/ FillMigrated(t)
  \/ ReadToDiff(t) \/ Diff(t) \/ StartCheck(t) \/ EndCheck(t)

Next ==
  \/ \E f \in Forks : Fork(f)
  \/ \E t \in Tools : Tool(t)
  \/ \E p \in Procs : Interrupt(p) \/ Kill(p)

Spec == Init /\ [][Next]_vars

-----------------------------------------------------------------------------
Endings == {"", "returned", "uncaught", "SystemExit", "interrupted", "killed"}
ForkStages == {"start", "loaded", "affirmed", "built", "replaying", "reported",
               "walked", "json", "half", "md", "written", "over"}
ToolStages == {"start", "migrating", "inplace", "beside", "diffing", "checking",
               "over"}

\* The types of the state.
TypeOK ==
  /\ \A f \in Forks : stage[f] \in ForkStages
  /\ \A t \in Tools : stage[t] \in ToolStages
  /\ cli \in [Forks -> {"none", "forensic"}]
  /\ \A f \in Forks : report[f] \in Reports[f] \cup {NoReport}
  /\ \A f \in Forks : {dest[f].json, dest[f].md} \subseteq Paths
  /\ \A p \in Paths : file[p].kind \in {"absent", "report", "empty", "torn",
                                        "mixed", "foreign"}
  /\ touched \in [Procs -> SUBSET Paths]
  /\ exit \in [Procs -> {0, 1, 2, 137}]
  /\ ending \in [Procs -> Endings]

\* "0 Ship, 1 Don't Ship, 2 Inconclusive or setup failure" (cli.py) for every
\* fork that RETURNS its code: 0 and 1 say that the run came to that verdict
\* and that both artifacts were written; the last possible failure is passed.
\* And a fork that is refused before it has a report, or whose report holds an
\* unwrapped Sensitive value, leaves the last run's artifacts alone.
ExitMatchesReport ==
  \A f \in Forks :
    /\ ending[f] = "returned" /\ exit[f] # EXIT_INCONCLUSIVE_OR_SETUP_FAILURE =>
         /\ report[f] # NoReport /\ exit[f] = ExitCode(report[f].verdict)
         /\ touched[f] = {dest[f].json, dest[f].md}
    /\ report[f] = NoReport \/ report[f].tainted => touched[f] = {}

\* What a fork that exited with 0 or 1 leaves at its paths is its whole report,
\* in JSON and in Markdown, unless another process wrote there too: a fork of
\* the same day, or a migration that had found an older report.
DiskMatchesExit ==
  \A f \in Forks :
    ending[f] = "returned" /\ exit[f] # EXIT_INCONCLUSIVE_OR_SETUP_FAILURE =>
      \A path \in {dest[f].json, dest[f].md} :
        \/ file[path] \in {JsonText(f), MdText(f)}
        \/ \E g \in Forks \ {f} : path \in touched[g]
        \/ \E t \in Tools : path \in touched[t] /\ loaded[t][2].version # Current

\* A file that is not whole has a culprit: a process at work on it, one that
\* did not get to the end of it (and said so, or is dead), or two at once.
BrokenFilesHaveCulprits ==
  \A path \in Paths :
    /\ file[path] \in {Empty, Torn} =>
         \E p \in Procs :
           /\ path \in touched[p]
           /\ \/ path \in OpenPath(p)
              \/ stage[p] = "over" /\ ~(ending[p] = "returned" /\ exit[p] < 2)
    /\ file[path] = Mixed =>
         \E p, q \in Procs : p # q /\ path \in touched[p] \cap touched[q]

\* The guards of the factories that repeat the config's validators ("normally
\* caught before factory dispatch") never fire on a config that was loaded.
BeltNeverFires == belt = {}

\* Cardinal 7: a run whose config or whose command line alone says forensic
\* builds nothing and replays nothing; and forensic is always acknowledged.
ForensicNeedsBoth ==
  \A f \in Forks :
    stage[f] = "affirmed" =>
      /\ cli[f] = "forensic" <=> cfg[f].profile = "forensic"
      /\ cli[f] = "forensic" => cfg[f].acknowledged

=============================================================================
