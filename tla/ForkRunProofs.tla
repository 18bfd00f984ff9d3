--------------------------- MODULE ForkRunProofs ----------------------------
(***************************************************************************)
(* ForkRun, for any processes, configs, reports and pinned paths, and      *)
(* without a bound on the processes that are cut.                          *)
(*                                                                         *)
(* Three invariants, each inductive: Written (what a fork has in hand and  *)
(* has opened at each stage), Blamed (who has which file open) and Left    *)
(* (what a fork that is done leaves at its paths, up to the others that    *)
(* came there).  Loaded is what validation leaves for the factories.  In   *)
(* all of them a step of one process leaves what is known of the others    *)
(* alone, which one lemma per invariant says.                              *)
(***************************************************************************)
EXTENDS ForkRun, TLAPS

Stages == ForkStages \cup ToolStages

-----------------------------------------------------------------------------
\* What is loaded is valid, and stays so; what is affirmed is affirmed.
Loaded ==
  /\ stage \in [Procs -> Stages]
  /\ cfg = [f \in Forks |-> cfg[f]] /\ cli = [f \in Forks |-> cli[f]]
  /\ \A f \in Forks :
       /\ stage[f] \in {"loaded", "affirmed"} =>
            Valid(cfg[f]) /\ cfg[f].scorer \in {"stub", "inspect_ai"}
       /\ stage[f] = "affirmed" => Affirmed(cfg[f], cli[f])
  /\ belt = {}

\* A valid config reaches no guard that repeats the validation.
LEMMA ValidBuilds ==
  ASSUME NEW c, Valid(c), c.scorer \in {"stub", "inspect_ai"},
         NEW source \in BuildTraceSource(c), NEW scorer \in BuildScorer(c),
         NEW target \in LoadRunner
  PROVE  Built(source, scorer, target) # "belt"
<1>1. source # "belt"
  BY Zenon DEF BuildTraceSource, BuildLangfuse, BuildPhoenix, BuildDatadog,
     LoadCallable, Valid, CheckAdapterRequiredFields
<1>2. scorer # "belt"
  BY Zenon DEF BuildScorer, LoadCallable, Valid, ValidateInspectAiRequiredFields
<1>3. target # "belt"
  BY DEF LoadRunner, LoadExecRunner, LoadCallable
<1> QED BY <1>1, <1>2, <1>3 DEF Built

\* All other actions leave the two stages, the config and the flag alone.
LEMMA LoadedElsewhere ==
  ASSUME Loaded, UNCHANGED <<cfg, cli, belt>>, NEW p \in Procs, NEW to \in Stages,
         to \notin {"loaded", "affirmed"}, stage' = [stage EXCEPT ![p] = to]
  PROVE  Loaded'
BY DEF Loaded, Stages, ForkStages, ToolStages, Procs

LEMMA LoadedStep == Loaded /\ [Next]_vars => Loaded'
<1> SUFFICES ASSUME Loaded, [Next]_vars PROVE Loaded'
  OBVIOUS
<1> USE DEF Goto, Ends, Returns, Refuses, Leaks, forkVars
<1> DEFINE Elsewhere(p) ==
      /\ UNCHANGED <<cfg, cli, belt>>
      /\ \E to \in Stages \ {"loaded", "affirmed"} :
           stage' = [stage EXCEPT ![p] = to]
<1>0. ASSUME NEW p \in Procs, Elsewhere(p) PROVE Loaded'
  BY <1>0, LoadedElsewhere
<1>1. ASSUME NEW f \in Forks, LoadConfig(f) PROVE Loaded'
  <2>1. CASE (Refuses(f) \/ Leaks(f)) /\ UNCHANGED <<cfg, cli>>
    BY <1>1, <2>1, LoadedElsewhere DEF LoadConfig, Stages, ForkStages, Procs
  <2>2. CASE \E c \in Configs[f], profile \in {"none", "forensic"} :
               /\ Valid(c) /\ Goto(f, "loaded")
               /\ cfg' = [cfg EXCEPT ![f] = c] /\ cli' = [cli EXCEPT ![f] = profile]
    <3>1. PICK c \in Configs[f], profile \in {"none", "forensic"} :
            /\ Valid(c) /\ Goto(f, "loaded")
            /\ cfg' = [cfg EXCEPT ![f] = c] /\ cli' = [cli EXCEPT ![f] = profile]
      BY <2>2
    <3>2. c.scorer \in {"stub", "inspect_ai"}
      BY ConfigsAssumption DEF ConfigsAssumption
    <3> QED
      BY <1>1, <3>1, <3>2 DEF LoadConfig, Loaded, Stages, ForkStages, Procs
  <2> QED BY <1>1, <2>1, <2>2, Zenon DEF LoadConfig
<1>2. ASSUME NEW f \in Forks, AssertTwoAffirmation(f) PROVE Loaded'
  <2>1. CASE Affirmed(cfg[f], cli[f])
    BY <1>2, <2>1 DEF AssertTwoAffirmation, Loaded, Stages, ForkStages, Procs
  <2>2. CASE ~Affirmed(cfg[f], cli[f])
    BY <1>2, <2>2, LoadedElsewhere DEF AssertTwoAffirmation, Stages, ForkStages, Procs
  <2> QED BY <2>1, <2>2
<1>3. ASSUME NEW f \in Forks, BuildAdapters(f) PROVE Loaded'
  <2>1. PICK source \in BuildTraceSource(cfg[f]), scorer \in BuildScorer(cfg[f]),
             target \in LoadRunner :
          belt' = IF Built(source, scorer, target) = "belt" THEN belt \cup {f} ELSE belt
    BY <1>3, Zenon DEF BuildAdapters
  <2>2. Valid(cfg[f]) /\ cfg[f].scorer \in {"stub", "inspect_ai"}
    BY <1>3 DEF BuildAdapters, Loaded
  <2>3. belt' = {}
    BY <2>1, <2>2, ValidBuilds DEF Loaded
  <2>4. Goto(f, "built") \/ Refuses(f) \/ Leaks(f)
    BY ONLY <1>3, Zenon DEF BuildAdapters
  <2> QED
    BY <1>3, <2>3, <2>4 DEF BuildAdapters, Loaded, Stages, ForkStages, Procs
<1> USE DEF Stages, ForkStages, ToolStages
<1>4. ASSUME NEW f \in Forks,
             StartReplay(f) \/ EndReplay(f) \/ WalkReport(f) \/ OpenJson(f)
               \/ FillJson(f) \/ OpenMd(f) \/ FillMd(f) \/ Announce(f)
      PROVE  Elsewhere(f)
  BY <1>4 DEF StartReplay, EndReplay, WalkReport, OpenJson, FillJson, OpenMd,
     FillMd, Announce
<1>5. ASSUME NEW t \in Tools, Tool(t) PROVE Elsewhere(t)
  BY <1>5 DEF Tool, ReadToMigrate, Migrate, FillMigrated, ReadToDiff, Diff,
     StartCheck, EndCheck
<1>6. ASSUME NEW p \in Procs, Interrupt(p) \/ Kill(p) PROVE Elsewhere(p)
  BY <1>6 DEF Interrupt, Kill
<1>7. CASE UNCHANGED vars
  BY <1>7 DEF vars, Loaded
<1> HIDE DEF Elsewhere
<1> QED
  BY <1>0, <1>1, <1>2, <1>3, <1>4, <1>5, <1>6, <1>7 DEF Next, Fork, Procs

LEMMA LoadedAlways == Spec => []Loaded
<1>1. Init => Loaded
  <2> SUFFICES ASSUME Init PROVE Loaded
    OBVIOUS
  <2>1. /\ stage \in [Procs -> Stages] /\ belt = {}
        /\ \A f \in Forks : stage[f] = "start"
    BY DEF Init, Stages, ForkStages, ToolStages, Procs
  <2>2. cfg = [f \in Forks |-> cfg[f]] /\ cli = [f \in Forks |-> cli[f]]
    BY DEF Init
  <2> QED BY <2>1, <2>2 DEF Loaded
<1> QED BY <1>1, LoadedStep, PTL DEF Spec

\* The guards of the factories that repeat the validators of config.py never
\* fire on a config that load_config returned.
THEOREM BeltsNeverFire == Spec => []BeltNeverFires
<1>1. Loaded => BeltNeverFires
  BY DEF Loaded, BeltNeverFires
<1> QED BY <1>1, LoadedAlways, PTL

\* Nothing is built for a forensic run that only one of the two surfaces asks
\* for, or that is not acknowledged (assert_two_affirmation, ReportingConfig).
THEOREM ForensicNeedsBothSurfaces == Spec => []ForensicNeedsBoth
<1>1. Loaded => ForensicNeedsBoth
  BY Zenon DEF Loaded, ForensicNeedsBoth, Affirmed, Valid,
     ForensicRequiresAcknowledgmentBlock
<1> QED BY <1>1, LoadedAlways, PTL


-----------------------------------------------------------------------------
\* What a fork has in hand and what it has opened, at each of its stages.

\* The paths a fork has opened.
Opened(f) ==
  IF stage[f] \in {"json", "half"} THEN {dest[f].json}
  ELSE {dest[f].json, dest[f].md}

HasReport(f) ==
  /\ report[f] # NoReport /\ report[f].verdict \in Verdicts

\* The stages of a fork that may have opened a file.
Writing == {"json", "half", "md", "written"}

\* What is known of a fork, the two properties included.
ForkWrites(f) ==
  /\ stage[f] # "over" => ending[f] = ""
  /\ stage[f] \notin Writing \cup {"over"} => touched[f] = {}
  /\ stage[f] \in Writing => touched[f] = Opened(f) /\ ~report[f].tainted
  /\ stage[f] \in Writing \cup {"reported", "walked"} => HasReport(f)
  /\ stage[f] \notin Writing \cup {"reported", "walked", "over"} =>
       report[f] = NoReport
  /\ ending[f] = "returned" /\ exit[f] # EXIT_INCONCLUSIVE_OR_SETUP_FAILURE =>
       /\ report[f] # NoReport /\ exit[f] = ExitCode(report[f].verdict)
       /\ touched[f] = {dest[f].json, dest[f].md}
  /\ report[f] = NoReport \/ report[f].tainted => touched[f] = {}

Functional ==
  /\ stage = [p \in Procs |-> stage[p]] /\ exit = [p \in Procs |-> exit[p]]
  /\ ending = [p \in Procs |-> ending[p]]
  /\ touched = [p \in Procs |-> touched[p]]
  /\ report = [f \in Forks |-> report[f]] /\ dest = [f \in Forks |-> dest[f]]

Written == Functional /\ \A f \in Forks : ForkWrites(f)

\* A step of p leaves the other forks as they are.
StepOf(p) ==
  /\ Functional'
  /\ \A f \in Forks \ {p} :
       /\ stage'[f] = stage[f] /\ exit'[f] = exit[f] /\ ending'[f] = ending[f]
       /\ touched'[f] = touched[f] /\ report'[f] = report[f] /\ dest'[f] = dest[f]

LEMMA OthersKeepWriting ==
  ASSUME Written, NEW p \in Procs, StepOf(p), p \in Forks => ForkWrites(p)'
  PROVE  Written'
<1> SUFFICES ASSUME NEW f \in Forks \ {p} PROVE ForkWrites(f)'
  BY DEF Written, StepOf
<1> QED
  BY DEF Written, StepOf, ForkWrites, Opened, HasReport

LEMMA ReportsAreReports ==
  \A f \in Forks : \A r \in Reports[f] :
    r # NoReport /\ r.verdict \in Verdicts
BY ReportsAssumption DEF ReportsAssumption, NoReport, Report, Verdicts

LEMMA WrittenStep == Written /\ [Next]_vars => Written'
<1> SUFFICES ASSUME Written, [Next]_vars PROVE Written'
  OBVIOUS
<1> USE DEF Goto, Ends, Returns, Refuses, Leaks, EXIT_INCONCLUSIVE_OR_SETUP_FAILURE
<1>1. ASSUME NEW f \in Forks, LoadConfig(f) PROVE Written'
  <2>1. Goto(f, "loaded") \/ Refuses(f) \/ Leaks(f)
    BY ONLY <1>1, Zenon DEF LoadConfig
  <2>2. stage[f] \in {"start", "affirmed"} /\ UNCHANGED <<touched, report, dest>>
    BY <1>1 DEF LoadConfig
  <2>3. StepOf(f)
    BY <2>1, <2>2 DEF Written, Functional, StepOf, Procs
  <2>4. ForkWrites(f)'
    BY <2>1, <2>2 DEF Written, Functional, ForkWrites, Writing, Opened,
       HasReport, Procs
  <2> QED BY <2>3, <2>4, OthersKeepWriting DEF Procs
<1>2. ASSUME NEW f \in Forks, AssertTwoAffirmation(f) PROVE Written'
  <2>1. StepOf(f)
    BY <1>2 DEF AssertTwoAffirmation, Written, Functional, StepOf, Procs
  <2>2. ForkWrites(f)'
    BY <1>2 DEF AssertTwoAffirmation, Written, Functional, ForkWrites, Writing, Opened,
       HasReport, Procs
  <2> QED BY <2>1, <2>2, OthersKeepWriting DEF Procs
<1>3. ASSUME NEW f \in Forks, BuildAdapters(f) PROVE Written'
  <2>1. Goto(f, "built") \/ Refuses(f) \/ Leaks(f)
    BY ONLY <1>3, Zenon DEF BuildAdapters
  <2>2. stage[f] \in {"start", "affirmed"} /\ UNCHANGED <<touched, report, dest>>
    BY <1>3 DEF BuildAdapters
  <2>3. StepOf(f)
    BY <2>1, <2>2 DEF Written, Functional, StepOf, Procs
  <2>4. ForkWrites(f)'
    BY <2>1, <2>2 DEF Written, Functional, ForkWrites, Writing, Opened,
       HasReport, Procs
  <2> QED BY <2>3, <2>4, OthersKeepWriting DEF Procs
<1>4. ASSUME NEW f \in Forks, StartReplay(f) PROVE Written'
  <2>1. StepOf(f)
    BY <1>4 DEF StartReplay, Written, Functional, StepOf, Procs
  <2>2. ForkWrites(f)'
    BY <1>4 DEF StartReplay, Written, Functional, ForkWrites, Writing, Opened,
       HasReport, Procs
  <2> QED BY <2>1, <2>2, OthersKeepWriting DEF Procs
<1>5. ASSUME NEW f \in Forks, EndReplay(f) PROVE Written'
  <2>1. StepOf(f)
    BY <1>5 DEF EndReplay, Written, Functional, StepOf, Procs
  <2>2. ForkWrites(f)'
    <3>1. CASE \E r \in Reports[f] :
                 report' = [report EXCEPT ![f] = r] /\ Goto(f, "reported")
      <4>1. PICK r \in Reports[f] :
              report' = [report EXCEPT ![f] = r] /\ Goto(f, "reported")
        BY <3>1
      <4>2. stage'[f] = "reported" /\ report'[f] = r /\ ending'[f] = ending[f]
        BY <4>1 DEF Written, Functional, Procs
      <4>3. stage[f] = "replaying" /\ touched'[f] = touched[f]
        BY <1>5 DEF EndReplay
      <4>4. r # NoReport /\ r.verdict \in Verdicts
        BY ReportsAreReports
      <4> QED
        BY <4>2, <4>3, <4>4 DEF Written, ForkWrites, Writing, HasReport
    <3>2. CASE /\ UNCHANGED report
               /\ Refuses(f) \/ \E code \in 0..2 : Ends(f, "SystemExit", code)
      BY <1>5, <3>2 DEF EndReplay, Written, Functional, ForkWrites, Writing, Procs
    <3> QED BY <1>5, <3>1, <3>2, Zenon DEF EndReplay
  <2> QED BY <2>1, <2>2, OthersKeepWriting DEF Procs
<1>6. ASSUME NEW f \in Forks, WalkReport(f) PROVE Written'
  <2>1. StepOf(f)
    BY <1>6 DEF WalkReport, Written, Functional, StepOf, Procs
  <2>2. ForkWrites(f)'
    BY <1>6 DEF WalkReport, Written, Functional, ForkWrites, Writing, Opened,
       HasReport, Procs
  <2> QED BY <2>1, <2>2, OthersKeepWriting DEF Procs
<1>7. ASSUME NEW f \in Forks, OpenJson(f) PROVE Written'
  <2>1. StepOf(f)
    BY <1>7 DEF OpenJson, Truncate, Written, Functional, StepOf, Procs
  <2>2. ForkWrites(f)'
    <3>1. stage[f] = "walked" /\ touched[f] = {} /\ HasReport(f) /\ ending[f] = ""
      BY <1>7 DEF OpenJson, Written, ForkWrites, Writing
    <3>2. UNCHANGED <<report, dest>>
      BY <1>7 DEF OpenJson
    <3>3. CASE touched' = touched /\ (Leaks(f) \/ Refuses(f))
      BY <3>1, <3>2, <3>3 DEF Written, Functional, ForkWrites, Writing, Procs
    <3>4. CASE /\ ~report[f].tainted
               /\ Goto(f, "json") /\ Truncate(f, dest[f].json)
      <4>1. stage'[f] = "json" /\ ending'[f] = ending[f]
        BY <3>4 DEF Written, Functional, Procs
      <4>2. touched'[f] = {dest[f].json}
        BY <3>1, <3>4 DEF Truncate, Written, Functional, Procs
      <4> QED
        BY <3>1, <3>2, <3>4, <4>1, <4>2 DEF ForkWrites, Writing, Opened, HasReport
    <3> QED BY <1>7, <3>3, <3>4, Zenon DEF OpenJson
  <2> QED BY <2>1, <2>2, OthersKeepWriting DEF Procs
<1>8. ASSUME NEW f \in Forks, FillJson(f) PROVE Written'
  <2>1. StepOf(f)
    BY <1>8 DEF FillJson, Written, Functional, StepOf, Procs
  <2>2. ForkWrites(f)'
    BY <1>8 DEF FillJson, Written, Functional, ForkWrites, Writing, Opened,
       HasReport, Procs
  <2> QED BY <2>1, <2>2, OthersKeepWriting DEF Procs
<1>9. ASSUME NEW f \in Forks, OpenMd(f) PROVE Written'
  <2>1. StepOf(f)
    BY <1>9 DEF OpenMd, Truncate, Written, Functional, StepOf, Procs
  <2>2. ForkWrites(f)'
    BY <1>9 DEF OpenMd, Truncate, Written, Functional, ForkWrites, Writing, Opened,
       HasReport, Procs
  <2> QED BY <2>1, <2>2, OthersKeepWriting DEF Procs
<1>10. ASSUME NEW f \in Forks, FillMd(f) PROVE Written'
  <2>1. StepOf(f)
    BY <1>10 DEF FillMd, Written, Functional, StepOf, Procs
  <2>2. ForkWrites(f)'
    BY <1>10 DEF FillMd, Written, Functional, ForkWrites, Writing, Opened,
       HasReport, Procs
  <2> QED BY <2>1, <2>2, OthersKeepWriting DEF Procs
<1>11. ASSUME NEW f \in Forks, Announce(f) PROVE Written'
  <2>1. StepOf(f)
    BY <1>11 DEF Announce, Written, Functional, StepOf, Procs
  <2>2. ForkWrites(f)'
    BY <1>11 DEF Announce, Written, Functional, ForkWrites, Writing, Opened,
       HasReport, Procs
  <2> QED BY <2>1, <2>2, OthersKeepWriting DEF Procs
<1>12. ASSUME NEW t \in Tools, Tool(t) PROVE Written'
  <2>1. t \notin Forks
    BY ForkAssumption DEF ForkAssumption
  <2>2. StepOf(t)
    BY <1>12 DEF Tool, ReadToMigrate, Migrate, FillMigrated, ReadToDiff, Diff,
       StartCheck, EndCheck, Truncate, forkVars, Written, Functional, StepOf, Procs
  <2> QED BY <2>1, <2>2, OthersKeepWriting DEF Procs
<1>13. ASSUME NEW p \in Procs, Interrupt(p) \/ Kill(p) PROVE Written'
  <2>1. StepOf(p)
    BY <1>13 DEF Interrupt, Kill, forkVars, Written, Functional, StepOf, Procs
  <2>2. p \in Forks => ForkWrites(p)'
    BY <1>13 DEF Interrupt, Kill, forkVars, Written, Functional, ForkWrites,
       Writing, Procs
  <2> QED BY <2>1, <2>2, OthersKeepWriting
<1>14. CASE UNCHANGED vars
  BY <1>14 DEF vars, Written, Functional, ForkWrites, Opened, HasReport
<1> QED
  BY <1>1, <1>2, <1>3, <1>4, <1>5, <1>6, <1>7, <1>8, <1>9, <1>10, <1>11, <1>12,
     <1>13, <1>14 DEF Next, Fork

LEMMA WrittenAlways == Spec => []Written
<1>1. Init => Written
  <2> SUFFICES ASSUME Init PROVE Written
    OBVIOUS
  <2>1. Functional
    BY DEF Init, Functional
  <2>2. ASSUME NEW f \in Forks PROVE ForkWrites(f)
    BY DEF Init, ForkWrites, Writing, Procs
  <2> QED BY <2>1, <2>2 DEF Written
<1> QED BY <1>1, WrittenStep, PTL DEF Spec

\* A fork that returns 0 or 1 has a report with that verdict and has opened
\* both artifacts: no failure of a later step is still to come.  One without a
\* report, or with one that holds an unwrapped Sensitive value, has opened no
\* file, whatever the other processes do.
THEOREM ExitCodesMatchReports == Spec => []ExitMatchesReport
<1>1. Written => ExitMatchesReport
  BY DEF Written, ForkWrites, ExitMatchesReport
<1> QED BY <1>1, WrittenAlways, PTL


-----------------------------------------------------------------------------
\* Who is to blame for a file that is not whole.  What every process has open
\* it has opened; and a path that is open still holds nothing, unless another
\* process has opened it too: so a text that meets another's is Mixed for two.

KnownFork(f) ==
  stage[f] \in ForkStages /\ dest[f].json \in Paths /\ dest[f].md \in Paths

KnownTool(t) ==
  /\ stage[t] \in ToolStages
  /\ stage[t] \in {"migrating", "inplace", "beside"} => loaded[t][1] \in JsonPaths
  /\ stage[t] \in {"inplace", "beside"} => loaded[t][2].kind = "report"

Indexed ==
  /\ stage = [p \in Procs |-> stage[p]] /\ exit = [p \in Procs |-> exit[p]]
  /\ ending = [p \in Procs |-> ending[p]]
  /\ touched = [p \in Procs |-> touched[p]]
  /\ dest = [f \in Forks |-> dest[f]] /\ loaded = [t \in Tools |-> loaded[t]]
  /\ file = [path \in Paths |-> file[path]]

Held ==
  /\ \A p \in Procs : OpenPath(p) \subseteq touched[p]
  /\ \A p \in Procs : \A path \in OpenPath(p) :
       file[path] = Empty \/ \E q \in Procs \ {p} : path \in touched[q]

Blamed ==
  /\ Indexed
  /\ (\A f \in Forks : KnownFork(f)) /\ (\A t \in Tools : KnownTool(t))
  /\ Held
  /\ BrokenFilesHaveCulprits

\* p did not get to the end of its files.
Cut(p) == stage[p] = "over" /\ ~(ending[p] = "returned" /\ exit[p] < 2)

\* A step of p leaves the other processes as they are.
Alone(p) ==
  /\ Indexed'
  /\ stage[p] # "over"
  /\ \A q \in Procs \ {p} :
       /\ stage'[q] = stage[q] /\ exit'[q] = exit[q] /\ ending'[q] = ending[q]
       /\ touched'[q] = touched[q]
  /\ \A f \in Forks \ {p} : dest'[f] = dest[f]
  /\ \A t \in Tools \ {p} : loaded'[t] = loaded[t]

\* What a step of p may do to the files.
Quiet(p) ==
  file' = file /\ touched' = touched /\ OpenPath(p) = {} /\ OpenPath(p)' = {}

Opens(p) ==
  \E path \in Paths :
    /\ Truncate(p, path)
    /\ OpenPath(p) = {} /\ OpenPath(p)' = {path}

Fills(p) ==
  \E path \in Paths :
    /\ OpenPath(p) = {path} /\ OpenPath(p)' = {} /\ touched' = touched
    /\ \E text :
         /\ file' = [file EXCEPT ![path] = text]
         /\ text.kind = "report" \/ (text = Mixed /\ file[path] # Empty)

Tears(p) ==
  \E path \in Paths :
    /\ OpenPath(p) = {path} /\ OpenPath(p)' = {} /\ touched' = touched
    /\ file' = file \/ file' = [file EXCEPT ![path] = Torn]
    /\ Cut(p)'

LEMMA Kinds ==
  /\ Empty.kind = "empty" /\ Torn.kind = "torn" /\ Mixed.kind = "mixed"
  /\ Empty # Torn /\ Empty # Mixed /\ Torn # Mixed
BY DEF Empty, Torn, Mixed, NoFile, File

LEMMA PathKinds ==
  /\ JsonPaths \subseteq Paths
  /\ \A path \in JsonPaths : Beside(path) \in Paths
  /\ \A owner \in {"dated"} \cup Forks :
       <<owner, "json">> \in Paths /\ <<owner, "md">> \in Paths
BY DEF JsonPaths, Paths

\* The other processes have the same file open as before.
LEMMA OthersHold ==
  ASSUME Blamed, NEW p \in Procs, Alone(p), NEW q \in Procs \ {p}
  PROVE  OpenPath(q)' = OpenPath(q)
<1>1. CASE q \in Forks
  BY <1>1 DEF Blamed, KnownFork, ForkStages, Alone, OpenPath
<1>2. CASE q \in Tools
  BY <1>2 DEF Blamed, KnownTool, ToolStages, Alone, OpenPath
<1> QED BY <1>1, <1>2 DEF Procs

LEMMA OthersKnown ==
  ASSUME Blamed, NEW p \in Procs, Alone(p), p \in Forks => KnownFork(p)',
         p \in Tools => KnownTool(p)'
  PROVE  (\A f \in Forks : KnownFork(f)') /\ (\A t \in Tools : KnownTool(t)')
<1>1. ASSUME NEW f \in Forks, f # p PROVE KnownFork(f)'
  BY <1>1 DEF Blamed, KnownFork, Alone, Procs
<1>2. ASSUME NEW t \in Tools, t # p PROVE KnownTool(t)'
  BY <1>2 DEF Blamed, KnownTool, Alone, Procs
<1> QED BY <1>1, <1>2

\* Whatever p does to its file, the blame can be put on somebody.
LEMMA FileSteps ==
  ASSUME Blamed, NEW p \in Procs, Alone(p),
         p \in Forks => KnownFork(p)', p \in Tools => KnownTool(p)',
         Quiet(p) \/ Opens(p) \/ Fills(p) \/ Tears(p)
  PROVE  Blamed'
<1>1. \A q \in Procs \ {p} : OpenPath(q)' = OpenPath(q)
  BY OthersHold
<1>2. \A q \in Procs \ {p} : Cut(q) => Cut(q)'
  BY DEF Alone, Cut
<1>3. ~Cut(p)
  BY DEF Alone, Cut
<1>4. /\ Indexed' /\ (\A f \in Forks : KnownFork(f)')
      /\ \A t \in Tools : KnownTool(t)'
  BY OthersKnown DEF Alone
<1>5. \A path \in Paths :
        /\ file[path] \in {Empty, Torn} =>
             \E q \in Procs : path \in touched[q] /\ (path \in OpenPath(q) \/ Cut(q))
        /\ file[path] = Mixed =>
             \E q, r \in Procs : q # r /\ path \in touched[q] \cap touched[r]
  BY Zenon DEF Blamed, BrokenFilesHaveCulprits, Cut
<1>6. SUFFICES
        /\ Held'
        /\ \A path \in Paths :
             /\ file'[path] \in {Empty, Torn} =>
                  \E q \in Procs :
                    path \in touched'[q] /\ (path \in OpenPath(q)' \/ Cut(q)')
             /\ file'[path] = Mixed =>
                  \E q, r \in Procs : q # r /\ path \in touched'[q] \cap touched'[r]
  BY <1>4, Zenon DEF Blamed, BrokenFilesHaveCulprits, Cut
<1>7. CASE Quiet(p)
  <2>1. Held'
    BY <1>1, <1>7 DEF Quiet, Blamed, Held
  <2> QED BY <1>1, <1>2, <1>3, <1>5, <1>7, <2>1 DEF Quiet
<1>8. CASE Opens(p)
  <2>1. PICK path \in Paths :
          Truncate(p, path) /\ OpenPath(p) = {} /\ OpenPath(p)' = {path}
    BY <1>8 DEF Opens
  <2>2. /\ file'[path] = Empty
        /\ \A other \in Paths \ {path} : file'[other] = file[other]
        /\ touched'[p] = touched[p] \cup {path}
        /\ \A q \in Procs \ {p} : touched'[q] = touched[q]
    BY <2>1 DEF Truncate, Blamed, Indexed
  <2>3. \A q \in Procs : OpenPath(q) \subseteq Paths
    BY DEF OpenPath
  <2>4. Held'
    BY <1>1, <2>1, <2>2, <2>3 DEF Blamed, Held
  <2>5. ASSUME NEW other \in Paths
        PROVE  /\ file'[other] \in {Empty, Torn} =>
                    \E q \in Procs :
                      other \in touched'[q] /\ (other \in OpenPath(q)' \/ Cut(q)')
               /\ file'[other] = Mixed =>
                    \E q, r \in Procs :
                      q # r /\ other \in touched'[q] \cap touched'[r]
    <3>1. CASE other = path
      BY <2>1, <2>2, <3>1, Kinds
    <3>2. CASE other # path
      BY <1>1, <1>2, <1>3, <1>5, <2>1, <2>2, <3>2
    <3> QED BY <3>1, <3>2
  <2> QED BY <2>4, <2>5
<1>9. CASE Fills(p)
  <2>1. PICK path \in Paths :
          /\ OpenPath(p) = {path} /\ OpenPath(p)' = {} /\ touched' = touched
          /\ \E text :
               /\ file' = [file EXCEPT ![path] = text]
               /\ text.kind = "report" \/ (text = Mixed /\ file[path] # Empty)
    BY <1>9 DEF Fills
  <2>2. PICK text : /\ file' = [file EXCEPT ![path] = text]
                    /\ text.kind = "report" \/ (text = Mixed /\ file[path] # Empty)
    BY <2>1
  <2>3. /\ file'[path] = text
        /\ \A other \in Paths \ {path} : file'[other] = file[other]
    BY <2>2 DEF Blamed, Indexed
  <2>4. path \in touched[p] /\ (file[path] # Empty =>
                                   \E q \in Procs \ {p} : path \in touched[q])
    BY <2>1 DEF Blamed, Held
  <2>5. text \notin {Empty, Torn}
    BY <2>2, Kinds
  <2>6. Held'
    <3>1. ASSUME NEW q \in Procs \ {p}, NEW other \in OpenPath(q)
          PROVE  file'[other] = Empty \/ \E r \in Procs \ {q} : other \in touched[r]
      BY <2>3, <2>4, <3>1 DEF Blamed, Held, OpenPath
    <3> QED BY <1>1, <2>1, <3>1 DEF Blamed, Held
  <2>7. ASSUME NEW other \in Paths
        PROVE  /\ file'[other] \in {Empty, Torn} =>
                    \E q \in Procs :
                      other \in touched'[q] /\ (other \in OpenPath(q)' \/ Cut(q)')
               /\ file'[other] = Mixed =>
                    \E q, r \in Procs :
                      q # r /\ other \in touched'[q] \cap touched'[r]
    <3>1. CASE other = path
      BY <2>1, <2>2, <2>3, <2>4, <2>5, <3>1, Kinds
    <3>2. CASE other # path
      BY <1>1, <1>2, <1>3, <1>5, <2>1, <2>3, <3>2
    <3> QED BY <3>1, <3>2
  <2> QED BY <2>6, <2>7
<1>10. CASE Tears(p)
  <2>1. PICK path \in Paths :
          /\ OpenPath(p) = {path} /\ OpenPath(p)' = {} /\ touched' = touched
          /\ file' = file \/ file' = [file EXCEPT ![path] = Torn]
          /\ Cut(p)'
    BY <1>10 DEF Tears
  <2>2. /\ file'[path] \in {file[path], Torn}
        /\ \A other \in Paths \ {path} : file'[other] = file[other]
    BY <2>1 DEF Blamed, Indexed
  <2>3. path \in touched[p]
    BY <2>1 DEF Blamed, Held
  <2>4. Held'
    <3>1. ASSUME NEW q \in Procs \ {p}, NEW other \in OpenPath(q)
          PROVE  file'[other] = Empty \/ \E r \in Procs \ {q} : other \in touched[r]
      BY <2>2, <2>3, <3>1 DEF Blamed, Held, OpenPath
    <3> QED BY <1>1, <2>1, <3>1 DEF Blamed, Held
  <2>5. ASSUME NEW other \in Paths
        PROVE  /\ file'[other] \in {Empty, Torn} =>
                    \E q \in Procs :
                      other \in touched'[q] /\ (other \in OpenPath(q)' \/ Cut(q)')
               /\ file'[other] = Mixed =>
                    \E q, r \in Procs :
                      q # r /\ other \in touched'[q] \cap touched'[r]
    <3>1. CASE other = path
      BY <1>5, <2>1, <2>2, <2>3, <3>1, Kinds
    <3>2. CASE other # path
      BY <1>1, <1>2, <1>3, <1>5, <2>1, <2>2, <3>2
    <3> QED BY <3>1, <3>2
  <2> QED BY <2>4, <2>5
<1> QED BY <1>7, <1>8, <1>9, <1>10

LEMMA BlamedStep == Blamed /\ [Next]_vars => Blamed'
<1> SUFFICES ASSUME Blamed, [Next]_vars PROVE Blamed'
  OBVIOUS
<1> USE DEF Goto, Ends, Returns, Refuses, Leaks, forkVars,
    EXIT_INCONCLUSIVE_OR_SETUP_FAILURE
<1> DEFINE FileStep(p) == Quiet(p) \/ Opens(p) \/ Fills(p) \/ Tears(p)
<1>0. ASSUME NEW f \in Forks, Alone(f), KnownFork(f)', FileStep(f) PROVE Blamed'
  BY <1>0, FileSteps, ForkAssumption DEF ForkAssumption, Procs
<1>00. ASSUME NEW t \in Tools, Alone(t), KnownTool(t)', FileStep(t) PROVE Blamed'
  BY <1>00, FileSteps, ForkAssumption DEF ForkAssumption, Procs
<1>1. ASSUME NEW f \in Forks, LoadConfig(f) PROVE Blamed'
  <2>1. Goto(f, "loaded") \/ Refuses(f) \/ Leaks(f)
    BY ONLY <1>1, Zenon DEF LoadConfig
  <2>2. stage[f] = "start" /\ UNCHANGED <<touched, dest, file, loaded>>
    BY <1>1 DEF LoadConfig
  <2>3. Alone(f)
    BY <2>1, <2>2 DEF Blamed, Indexed, Alone, Procs
  <2>4. KnownFork(f)'
    BY <2>1, <2>2 DEF Blamed, Indexed, KnownFork, ForkStages, Procs
  <2>5. Quiet(f)
    BY <2>1, <2>2 DEF Blamed, Indexed, Quiet, OpenPath, Procs
  <2> QED BY <1>0, <2>3, <2>4, <2>5
<1>2. ASSUME NEW f \in Forks, AssertTwoAffirmation(f) PROVE Blamed'
  <2>1. Alone(f)
    BY <1>2 DEF AssertTwoAffirmation, Blamed, Indexed, Alone, Procs
  <2>2. KnownFork(f)'
    BY <1>2 DEF AssertTwoAffirmation, Blamed, Indexed, KnownFork, ForkStages, Procs
  <2>3. Quiet(f)
    BY <1>2 DEF AssertTwoAffirmation, Blamed, Indexed, Quiet, OpenPath, Procs
  <2> QED BY <1>0, <2>1, <2>2, <2>3
<1>3. ASSUME NEW f \in Forks, BuildAdapters(f) PROVE Blamed'
  <2>1. Goto(f, "built") \/ Refuses(f) \/ Leaks(f)
    BY ONLY <1>3, Zenon DEF BuildAdapters
  <2>2. stage[f] = "affirmed" /\ UNCHANGED <<touched, dest, file, loaded>>
    BY <1>3 DEF BuildAdapters
  <2>3. Alone(f)
    BY <2>1, <2>2 DEF Blamed, Indexed, Alone, Procs
  <2>4. KnownFork(f)'
    BY <2>1, <2>2 DEF Blamed, Indexed, KnownFork, ForkStages, Procs
  <2>5. Quiet(f)
    BY <2>1, <2>2 DEF Blamed, Indexed, Quiet, OpenPath, Procs
  <2> QED BY <1>0, <2>3, <2>4, <2>5
<1>4. ASSUME NEW f \in Forks, StartReplay(f) PROVE Blamed'
  <2>1. Alone(f)
    BY <1>4 DEF StartReplay, Blamed, Indexed, Alone, Procs
  <2>2. KnownFork(f)'
    BY <1>4 DEF StartReplay, Blamed, Indexed, KnownFork, ForkStages, Procs
  <2>3. Quiet(f)
    BY <1>4 DEF StartReplay, Blamed, Indexed, Quiet, OpenPath, Procs
  <2> QED BY <1>0, <2>1, <2>2, <2>3
<1>5. ASSUME NEW f \in Forks, EndReplay(f) PROVE Blamed'
  <2>1. Alone(f)
    BY <1>5 DEF EndReplay, Blamed, Indexed, Alone, Procs
  <2>2. KnownFork(f)'
    BY <1>5 DEF EndReplay, Blamed, Indexed, KnownFork, ForkStages, Procs
  <2>3. Quiet(f)
    BY <1>5 DEF EndReplay, Blamed, Indexed, Quiet, OpenPath, Procs
  <2> QED BY <1>0, <2>1, <2>2, <2>3
<1>6. ASSUME NEW f \in Forks, Announce(f) PROVE Blamed'
  <2>1. Alone(f)
    BY <1>6 DEF Announce, Blamed, Indexed, Alone, Procs
  <2>2. KnownFork(f)'
    BY <1>6 DEF Announce, Blamed, Indexed, KnownFork, ForkStages, Procs
  <2>3. Quiet(f)
    BY <1>6 DEF Announce, Blamed, Indexed, Quiet, OpenPath, Procs
  <2> QED BY <1>0, <2>1, <2>2, <2>3
<1>7. ASSUME NEW f \in Forks, WalkReport(f) PROVE Blamed'
  <2>1. \/ Goto(f, "walked") /\ \E d \in Destinations(f) : dest' = [dest EXCEPT ![f] = d]
        \/ Refuses(f) /\ dest' = dest
    BY ONLY <1>7, Zenon DEF WalkReport
  <2>2. \A d \in Destinations(f) : d.json \in Paths /\ d.md \in Paths
    <3>1. \A d \in Destinations(f) :
            \E j, m \in {"dated"} \cup Forks :
              d.json = <<j, "json">> /\ d.md = <<m, "md">>
      BY DEF Destinations
    <3> QED BY <3>1, PathKinds
  <2>3. stage[f] = "reported" /\ UNCHANGED <<loaded, file, touched>>
    BY <1>7 DEF WalkReport
  <2>4. Alone(f)
    BY <2>1, <2>3 DEF Blamed, Indexed, Alone, Procs
  <2>5. KnownFork(f)'
    BY <2>1, <2>2 DEF Blamed, Indexed, KnownFork, ForkStages, Procs
  <2>6. Quiet(f)
    BY <2>1, <2>3 DEF Blamed, Indexed, Quiet, OpenPath, Procs
  <2> QED BY <1>0, <2>4, <2>5, <2>6
<1>8. ASSUME NEW f \in Forks, OpenJson(f) PROVE Blamed'
  <2>1. Alone(f)
    BY <1>8 DEF OpenJson, Truncate, Blamed, Indexed, Alone, Procs
  <2>2. KnownFork(f)'
    BY <1>8 DEF OpenJson, Blamed, Indexed, KnownFork, ForkStages, Procs
  <2>3. CASE UNCHANGED <<file, touched>> /\ (Leaks(f) \/ Refuses(f))
    <3>1. Quiet(f)
      BY <1>8, <2>3 DEF OpenJson, Blamed, Indexed, Quiet, OpenPath, Procs
    <3> QED BY <1>0, <2>1, <2>2, <3>1
  <2>4. CASE Goto(f, "json") /\ Truncate(f, dest[f].json)
    <3>1. stage[f] = "walked" /\ dest' = dest /\ dest[f].json \in Paths
      BY <1>8 DEF OpenJson, Blamed, KnownFork
    <3>2. stage'[f] = "json"
      BY <2>4 DEF Blamed, Indexed, Procs
    <3>3. OpenPath(f) = {} /\ OpenPath(f)' = {dest[f].json}
      BY <3>1, <3>2 DEF OpenPath
    <3>4. Opens(f)
      BY <2>4, <3>1, <3>3 DEF Opens
    <3> QED BY <1>0, <2>1, <2>2, <3>4
  <2> QED BY <1>8, <2>3, <2>4, Zenon DEF OpenJson
<1>9. ASSUME NEW f \in Forks, OpenMd(f) PROVE Blamed'
  <2>1. Alone(f)
    BY <1>9 DEF OpenMd, Truncate, Blamed, Indexed, Alone, Procs
  <2>2. KnownFork(f)'
    BY <1>9 DEF OpenMd, Blamed, Indexed, KnownFork, ForkStages, Procs
  <2>3. CASE UNCHANGED <<file, touched>> /\ (Leaks(f) \/ Refuses(f))
    <3>1. Quiet(f)
      BY <1>9, <2>3 DEF OpenMd, Blamed, Indexed, Quiet, OpenPath, Procs
    <3> QED BY <1>0, <2>1, <2>2, <3>1
  <2>4. CASE Goto(f, "md") /\ Truncate(f, dest[f].md)
    <3>1. stage[f] = "half" /\ dest' = dest /\ dest[f].md \in Paths
      BY <1>9 DEF OpenMd, Blamed, KnownFork
    <3>2. stage'[f] = "md"
      BY <2>4 DEF Blamed, Indexed, Procs
    <3>3. OpenPath(f) = {} /\ OpenPath(f)' = {dest[f].md}
      BY <3>1, <3>2 DEF OpenPath
    <3>4. Opens(f)
      BY <2>4, <3>1, <3>3 DEF Opens
    <3> QED BY <1>0, <2>1, <2>2, <3>4
  <2> QED BY <1>9, <2>3, <2>4, Zenon DEF OpenMd
<1>10. ASSUME NEW f \in Forks, FillJson(f) PROVE Blamed'
  <2>1. Alone(f)
    BY <1>10 DEF FillJson, Blamed, Indexed, Alone, Procs
  <2>2. KnownFork(f)'
    BY <1>10 DEF FillJson, Blamed, Indexed, KnownFork, ForkStages, Procs
  <2>3. /\ stage[f] = "json" /\ dest' = dest /\ touched' = touched
        /\ dest[f].json \in Paths
    BY <1>10 DEF FillJson, Blamed, KnownFork
  <2>4. OpenPath(f) = {dest[f].json}
    BY <2>3 DEF OpenPath
  <2>5. CASE /\ Goto(f, "half")
             /\ \E text \in Filled(dest[f].json, JsonText(f)) :
                  file' = [file EXCEPT ![dest[f].json] = text]
    <3>1. PICK text \in Filled(dest[f].json, JsonText(f)) :
            file' = [file EXCEPT ![dest[f].json] = text]
      BY <2>5
    <3>2. text.kind = "report" \/ (text = Mixed /\ file[dest[f].json] # Empty)
      BY DEF Filled, JsonText, File
    <3>3. stage'[f] = "half"
      BY <2>5 DEF Blamed, Indexed, Procs
    <3>4. OpenPath(f)' = {}
      BY <3>3 DEF OpenPath
    <3>5. Fills(f)
      BY <2>3, <2>4, <3>1, <3>2, <3>4 DEF Fills
    <3> QED BY <1>0, <2>1, <2>2, <3>5
  <2>6. CASE Refuses(f) /\ file' = [file EXCEPT ![dest[f].json] = Torn]
    <3>1. Cut(f)' /\ stage'[f] = "over"
      BY <2>6 DEF Cut, Blamed, Indexed, Procs
    <3>2. OpenPath(f)' = {}
      BY <3>1 DEF OpenPath
    <3>3. Tears(f)
      BY <2>3, <2>4, <2>6, <3>1, <3>2 DEF Tears
    <3> QED BY <1>0, <2>1, <2>2, <3>3
  <2> QED BY <1>10, <2>5, <2>6, Zenon DEF FillJson
<1>11. ASSUME NEW f \in Forks, FillMd(f) PROVE Blamed'
  <2>1. Alone(f)
    BY <1>11 DEF FillMd, Blamed, Indexed, Alone, Procs
  <2>2. KnownFork(f)'
    BY <1>11 DEF FillMd, Blamed, Indexed, KnownFork, ForkStages, Procs
  <2>3. /\ stage[f] = "md" /\ dest' = dest /\ touched' = touched
        /\ dest[f].md \in Paths
    BY <1>11 DEF FillMd, Blamed, KnownFork
  <2>4. OpenPath(f) = {dest[f].md}
    BY <2>3 DEF OpenPath
  <2>5. CASE /\ Goto(f, "written")
             /\ \E text \in Filled(dest[f].md, MdText(f)) :
                  file' = [file EXCEPT ![dest[f].md] = text]
    <3>1. PICK text \in Filled(dest[f].md, MdText(f)) :
            file' = [file EXCEPT ![dest[f].md] = text]
      BY <2>5
    <3>2. text.kind = "report" \/ (text = Mixed /\ file[dest[f].md] # Empty)
      BY DEF Filled, MdText, File
    <3>3. stage'[f] = "written"
      BY <2>5 DEF Blamed, Indexed, Procs
    <3>4. OpenPath(f)' = {}
      BY <3>3 DEF OpenPath
    <3>5. Fills(f)
      BY <2>3, <2>4, <3>1, <3>2, <3>4 DEF Fills
    <3> QED BY <1>0, <2>1, <2>2, <3>5
  <2>6. CASE Refuses(f) /\ file' = [file EXCEPT ![dest[f].md] = Torn]
    <3>1. Cut(f)' /\ stage'[f] = "over"
      BY <2>6 DEF Cut, Blamed, Indexed, Procs
    <3>2. OpenPath(f)' = {}
      BY <3>1 DEF OpenPath
    <3>3. Tears(f)
      BY <2>3, <2>4, <2>6, <3>1, <3>2 DEF Tears
    <3> QED BY <1>0, <2>1, <2>2, <3>3
  <2>7. CASE Leaks(f) /\ UNCHANGED file
    <3>1. Cut(f)' /\ stage'[f] = "over"
      BY <2>7 DEF Cut, Blamed, Indexed, Procs
    <3>2. OpenPath(f)' = {}
      BY <3>1 DEF OpenPath
    <3>3. Tears(f)
      BY <2>3, <2>4, <2>7, <3>1, <3>2 DEF Tears
    <3> QED BY <1>0, <2>1, <2>2, <3>3
  <2> QED BY <1>11, <2>5, <2>6, <2>7, Zenon DEF FillMd
<1>12. ASSUME NEW t \in Tools, ReadToDiff(t) PROVE Blamed'
  <2>1. Alone(t)
    BY <1>12 DEF ReadToDiff, Blamed, Indexed, Alone, Procs
  <2>2. KnownTool(t)'
    BY <1>12 DEF ReadToDiff, Blamed, Indexed, KnownTool, ToolStages, Procs
  <2>3. Quiet(t)
    BY <1>12 DEF ReadToDiff, Blamed, Indexed, Quiet, OpenPath, Procs
  <2> QED BY <1>00, <2>1, <2>2, <2>3
<1>13. ASSUME NEW t \in Tools, Diff(t) PROVE Blamed'
  <2>1. Alone(t)
    BY <1>13 DEF Diff, Blamed, Indexed, Alone, Procs
  <2>2. KnownTool(t)'
    BY <1>13 DEF Diff, Blamed, Indexed, KnownTool, ToolStages, Procs
  <2>3. Quiet(t)
    BY <1>13 DEF Diff, Blamed, Indexed, Quiet, OpenPath, Procs
  <2> QED BY <1>00, <2>1, <2>2, <2>3
<1>14. ASSUME NEW t \in Tools, StartCheck(t) PROVE Blamed'
  <2>1. Alone(t)
    BY <1>14 DEF StartCheck, Blamed, Indexed, Alone, Procs
  <2>2. KnownTool(t)'
    BY <1>14 DEF StartCheck, Blamed, Indexed, KnownTool, ToolStages, Procs
  <2>3. Quiet(t)
    BY <1>14 DEF StartCheck, Blamed, Indexed, Quiet, OpenPath, Procs
  <2> QED BY <1>00, <2>1, <2>2, <2>3
<1>15. ASSUME NEW t \in Tools, EndCheck(t) PROVE Blamed'
  <2>1. Alone(t)
    BY <1>15 DEF EndCheck, Blamed, Indexed, Alone, Procs
  <2>2. KnownTool(t)'
    BY <1>15 DEF EndCheck, Blamed, Indexed, KnownTool, ToolStages, Procs
  <2>3. Quiet(t)
    BY <1>15 DEF EndCheck, Blamed, Indexed, Quiet, OpenPath, Procs
  <2> QED BY <1>00, <2>1, <2>2, <2>3
<1>16. ASSUME NEW t \in Tools, ReadToMigrate(t) PROVE Blamed'
  <2>1. Alone(t)
    BY <1>16 DEF ReadToMigrate, Blamed, Indexed, Alone, Procs
  <2>2. KnownTool(t)'
    <3>1. CASE UNCHANGED loaded /\ (Refuses(t) \/ Leaks(t))
      BY <3>1 DEF Blamed, Indexed, KnownTool, ToolStages, Procs
    <3>2. CASE \E path \in JsonPaths :
                 /\ Goto(t, "migrating")
                 /\ loaded' = [loaded EXCEPT ![t] = <<path, file[path]>>]
      BY <3>2 DEF Blamed, Indexed, KnownTool, ToolStages, Procs
    <3> QED BY <1>16, <3>1, <3>2, Zenon DEF ReadToMigrate
  <2>3. Quiet(t)
    BY <1>16 DEF ReadToMigrate, Blamed, Indexed, Quiet, OpenPath, Procs
  <2> QED BY <1>00, <2>1, <2>2, <2>3
<1>17. ASSUME NEW t \in Tools, Migrate(t) PROVE Blamed'
  <2> DEFINE path == loaded[t][1]
             text == loaded[t][2]
  <2>1. Alone(t)
    BY <1>17 DEF Migrate, Truncate, Blamed, Indexed, Alone, Procs
  <2>2. stage[t] = "migrating" /\ loaded' = loaded /\ path \in JsonPaths
    BY <1>17 DEF Migrate, Blamed, KnownTool
  <2>3. CASE UNCHANGED <<file, touched>> /\ (Refuses(t) \/ Leaks(t) \/ Returns(t, 0))
    <3>1. stage'[t] = "over"
      BY <2>3 DEF Blamed, Indexed, Procs
    <3>2. KnownTool(t)'
      BY <2>2, <3>1 DEF KnownTool, ToolStages
    <3>3. Quiet(t)
      BY <2>2, <2>3, <3>1 DEF Quiet, OpenPath
    <3> QED BY <1>00, <2>1, <3>2, <3>3
  <2>4. CASE text.kind = "report" /\ Goto(t, "inplace") /\ Truncate(t, path)
    <3>1. stage'[t] = "inplace"
      BY <2>4 DEF Blamed, Indexed, Procs
    <3>2. KnownTool(t)'
      BY <2>2, <2>4, <3>1 DEF KnownTool, ToolStages
    <3>3. OpenPath(t) = {} /\ OpenPath(t)' = {path} /\ path \in Paths
      BY <2>2, <3>1, PathKinds DEF OpenPath
    <3>4. Opens(t)
      BY <2>4, <3>3 DEF Opens
    <3> QED BY <1>00, <2>1, <3>2, <3>4
  <2>5. CASE text.kind = "report" /\ Goto(t, "beside") /\ Truncate(t, Beside(path))
    <3>1. stage'[t] = "beside"
      BY <2>5 DEF Blamed, Indexed, Procs
    <3>2. KnownTool(t)'
      BY <2>2, <2>5, <3>1 DEF KnownTool, ToolStages
    <3>3. OpenPath(t) = {} /\ OpenPath(t)' = {Beside(path)} /\ Beside(path) \in Paths
      BY <2>2, <3>1, PathKinds DEF OpenPath
    <3>4. Opens(t)
      BY <2>5, <3>3 DEF Opens
    <3> QED BY <1>00, <2>1, <3>2, <3>4
  <2> QED BY <1>17, <2>3, <2>4, <2>5, Zenon DEF Migrate
<1>18. ASSUME NEW t \in Tools, FillMigrated(t) PROVE Blamed'
  <2> DEFINE out == IF stage[t] = "inplace" THEN loaded[t][1] ELSE Beside(loaded[t][1])
  <2>1. Alone(t)
    BY <1>18 DEF FillMigrated, Blamed, Indexed, Alone, Procs
  <2>2. /\ stage[t] \in {"inplace", "beside"} /\ UNCHANGED <<loaded, touched>>
        /\ loaded[t][1] \in JsonPaths /\ loaded[t][2].kind = "report"
    BY <1>18 DEF FillMigrated, Blamed, KnownTool
  <2>3. stage'[t] = "over"
    BY <1>18 DEF FillMigrated, Blamed, Indexed, Procs
  <2>4. KnownTool(t)'
    BY <2>2, <2>3 DEF KnownTool, ToolStages
  <2>5. out \in Paths /\ OpenPath(t) = {out} /\ OpenPath(t)' = {}
    BY <2>2, <2>3, PathKinds DEF OpenPath
  <2>6. CASE \E text \in Filled(out, Migrated(loaded[t][2])) :
               file' = [file EXCEPT ![out] = text]
    <3>1. PICK text \in Filled(out, Migrated(loaded[t][2])) :
            file' = [file EXCEPT ![out] = text]
      BY <2>6
    <3>2. Migrated(loaded[t][2]).kind = "report"
      BY <2>2 DEF Migrated
    <3>3. text.kind = "report" \/ (text = Mixed /\ file[out] # Empty)
      BY <3>2 DEF Filled
    <3> HIDE DEF out
    <3>4. Fills(t)
      BY <2>2, <2>5, <3>1, <3>3 DEF Fills
    <3> QED BY <1>00, <2>1, <2>4, <3>4
  <2>7. CASE Leaks(t) /\ file' = [file EXCEPT ![out] = Torn]
    <3>1. Cut(t)'
      BY <2>7 DEF Cut, Blamed, Indexed, Procs
    <3> HIDE DEF out
    <3>2. Tears(t)
      BY <2>2, <2>5, <2>7, <3>1 DEF Tears
    <3> QED BY <1>00, <2>1, <2>4, <3>2
  <2> QED BY <1>18, <2>6, <2>7, Zenon DEF FillMigrated
<1>19. ASSUME NEW p \in Procs, Interrupt(p) \/ Kill(p) PROVE Blamed'
  <2>1. /\ stage[p] # "over" /\ stage'[p] = "over" /\ Cut(p)' /\ Breaks(p)
        /\ UNCHANGED <<loaded, touched, dest>>
    BY <1>19 DEF Interrupt, Kill, CanBeCut, Cut, Blamed, Indexed, Procs
  <2>2. Alone(p)
    BY <1>19, <2>1 DEF Interrupt, Kill, Breaks, Blamed, Indexed, Alone, Procs
  <2>3. p \in Forks => KnownFork(p)'
    BY <2>1 DEF Blamed, KnownFork, ForkStages
  <2>4. p \in Tools => KnownTool(p)'
    BY <2>1 DEF KnownTool, ToolStages
  <2>5. OpenPath(p)' = {}
    BY <2>1 DEF OpenPath
  <2>6. CASE OpenPath(p) = {}
    <3>1. Quiet(p)
      BY <2>1, <2>5, <2>6 DEF Quiet, Breaks
    <3> QED BY <2>2, <2>3, <2>4, <3>1, FileSteps
  <2>7. CASE OpenPath(p) # {}
    <3>1. PICK path \in Paths : OpenPath(p) = {path}
      BY <2>7 DEF OpenPath
    <3>2. file' = file \/ file' = [file EXCEPT ![path] = Torn]
      BY <2>1, <3>1 DEF Breaks
    <3>3. Tears(p)
      BY <2>1, <2>5, <3>1, <3>2 DEF Tears
    <3> QED BY <2>2, <2>3, <2>4, <3>3, FileSteps
  <2> QED BY <2>6, <2>7
<1>20. CASE UNCHANGED vars
  BY <1>20 DEF vars, Blamed, Indexed, KnownFork, KnownTool, Held,
     BrokenFilesHaveCulprits, OpenPath
<1>21. ASSUME NEW f \in Forks, Fork(f) PROVE Blamed'
  BY <1>1, <1>2, <1>3, <1>4, <1>5, <1>6, <1>7, <1>8, <1>9, <1>10, <1>11,
     <1>21 DEF Fork
<1>22. ASSUME NEW t \in Tools, Tool(t) PROVE Blamed'
  BY <1>12, <1>13, <1>14, <1>15, <1>16, <1>17, <1>18, <1>22 DEF Tool
<1> QED BY <1>19, <1>20, <1>21, <1>22 DEF Next

LEMMA BlamedAlways == Spec => []Blamed
<1>1. Init => Blamed
  <2> SUFFICES ASSUME Init PROVE Blamed
    OBVIOUS
  <2>1. Indexed
    BY DEF Init, Indexed
  <2>2. ASSUME NEW f \in Forks PROVE KnownFork(f)
    BY PathKinds DEF Init, KnownFork, ForkStages, NoDest, Dated, Procs
  <2>3. ASSUME NEW t \in Tools PROVE KnownTool(t)
    BY DEF Init, KnownTool, ToolStages, Procs
  <2>4. \A p \in Procs : OpenPath(p) = {}
    BY DEF Init, OpenPath
  <2>5. \A path \in Paths : file[path] \in {Absent, OldReport, Foreign}
    BY DEF Init
  <2>6. \A text \in {Absent, OldReport, Foreign} : text \notin {Empty, Torn, Mixed}
    BY DEF Absent, OldReport, Foreign, Empty, Torn, Mixed, NoFile, File
  <2>7. BrokenFilesHaveCulprits
    BY <2>5, <2>6 DEF BrokenFilesHaveCulprits
  <2> QED BY <2>1, <2>2, <2>3, <2>4, <2>7 DEF Blamed, Held
<1> QED BY <1>1, BlamedStep, PTL DEF Spec

\* A file that is empty or torn is at work, or was left by a process that did
\* not get to its end; one that mixes two texts was opened by two processes.
THEOREM BrokenFilesAreExplained == Spec => []BrokenFilesHaveCulprits
<1>1. Blamed => BrokenFilesHaveCulprits
  BY DEF Blamed
<1> QED BY <1>1, BlamedAlways, PTL

-----------------------------------------------------------------------------
\* What a fork leaves on the disk.  At each stage the two files hold what it
\* has come to, or another process has put its hand on them: a fork, or a tool
\* that found an older report there (one that found a current report writes
\* nothing, which is what keeps report-migrate off a fresh report).

Shared(f, path) ==
  \/ \E g \in Forks \ {f} : path \in touched[g]
  \/ \E t \in Tools : path \in touched[t] /\ loaded[t][2].version # Current

Holds(f, path, text) == file[path] = text \/ Shared(f, path)

\* f said that its run came to a verdict of ship or don't ship.
Concluded(f) == ending[f] = "returned" /\ exit[f] # EXIT_INCONCLUSIVE_OR_SETUP_FAILURE

Leaves(f) ==
  /\ dest[f].json[2] = "json" /\ dest[f].md[2] = "md"
  /\ stage[f] = "json" => Holds(f, dest[f].json, Empty)
  /\ stage[f] \in {"half", "md", "written"} \/ Concluded(f) =>
       Holds(f, dest[f].json, JsonText(f))
  /\ stage[f] = "md" => Holds(f, dest[f].md, Empty)
  /\ stage[f] = "written" \/ Concluded(f) => Holds(f, dest[f].md, MdText(f))

\* A tool opens a file for what it loaded, and then loads no more.
MigratesOld(t) ==
  /\ stage[t] \notin {"inplace", "beside", "over"} => touched[t] = {}
  /\ touched[t] # {} => loaded[t][2].version # Current

Left == (\A t \in Tools : MigratesOld(t)) /\ (\A f \in Forks : Leaves(f))

\* A step of p writes only where p has been, and takes back nothing.
Marks(p) ==
  /\ Alone(p)
  /\ \A f \in Forks \ {p} : report'[f] = report[f]
  /\ touched[p] \subseteq touched'[p]
  /\ p \in Tools /\ touched[p] # {} => loaded'[p] = loaded[p]
  /\ \A path \in Paths : file'[path] = file[path] \/ path \in touched'[p]

LEMMA SharedStays ==
  ASSUME NEW p \in Procs, Marks(p), NEW f \in Forks, NEW path, Shared(f, path)
  PROVE  Shared(f, path)'
<1>1. CASE \E g \in Forks \ {f} : path \in touched[g]
  BY <1>1 DEF Marks, Alone, Shared, Procs
<1>2. CASE \E t \in Tools : path \in touched[t] /\ loaded[t][2].version # Current
  <2>1. PICK t \in Tools : path \in touched[t] /\ loaded[t][2].version # Current
    BY <1>2
  <2>2. path \in touched'[t] /\ loaded'[t] = loaded[t]
    BY <2>1 DEF Marks, Alone, Procs
  <2> QED BY <2>1, <2>2 DEF Shared
<1> QED BY <1>1, <1>2 DEF Shared

\* What a fork has at a path survives the steps of the others, or they share it.
LEMMA HoldsStays ==
  ASSUME NEW p \in Procs, Marks(p), p \in Tools => MigratesOld(p)',
         NEW f \in Forks, f # p, NEW path \in Paths, NEW text, Holds(f, path, text)
  PROVE  file'[path] = text \/ Shared(f, path)'
<1>1. CASE Shared(f, path)
  BY <1>1, SharedStays
<1>2. CASE file'[path] = file[path]
  BY <1>1, <1>2 DEF Holds
<1>3. CASE path \in touched'[p]
  <2>1. CASE p \in Forks
    BY <1>3, <2>1 DEF Shared
  <2>2. CASE p \in Tools
    BY <1>3, <2>2 DEF Shared, MigratesOld
  <2> QED BY <2>1, <2>2 DEF Procs
<1> QED BY <1>1, <1>2, <1>3 DEF Marks

LEMMA OthersLeave ==
  ASSUME Blamed, Left, NEW p \in Procs, Marks(p), p \in Tools => MigratesOld(p)',
         p \in Forks => Leaves(p)'
  PROVE  Left'
<1>1. ASSUME NEW t \in Tools, t # p PROVE MigratesOld(t)'
  BY <1>1 DEF Left, MigratesOld, Marks, Alone, Procs
<1>2. ASSUME NEW f \in Forks, f # p PROVE Leaves(f)'
  <2>1. /\ dest[f].json \in Paths /\ dest[f].md \in Paths /\ Leaves(f)
    BY DEF Blamed, KnownFork, Left
  <2>2. /\ stage'[f] = stage[f] /\ exit'[f] = exit[f] /\ ending'[f] = ending[f]
        /\ dest'[f] = dest[f] /\ report'[f] = report[f]
    BY <1>2 DEF Marks, Alone, Procs
  <2>3. JsonText(f)' = JsonText(f) /\ MdText(f)' = MdText(f)
    BY <2>2 DEF JsonText, MdText
  <2>4. \A path \in Paths : \A text :
          Holds(f, path, text) => file'[path] = text \/ Shared(f, path)'
    BY <1>2, HoldsStays
  <2>5. \A path : \A text : (file'[path] = text \/ Shared(f, path)')
                            => Holds(f, path, text)'
    BY DEF Holds
  <2> QED
    BY <2>1, <2>2, <2>3, <2>4, <2>5 DEF Leaves, Concluded, Holds
<1> QED BY <1>1, <1>2 DEF Left

-----------------------------------------------------------------------------
LEMMA LeftStep == Blamed /\ Blamed' /\ Written /\ Left /\ [Next]_vars => Left'
<1> SUFFICES ASSUME Blamed, Blamed', Written, Left, [Next]_vars PROVE Left'
  OBVIOUS
<1> USE DEF Goto, Ends, Returns, Refuses, Leaks, forkVars,
    EXIT_INCONCLUSIVE_OR_SETUP_FAILURE
<1>0. ASSUME NEW f \in Forks, Marks(f), Leaves(f)' PROVE Left'
  BY <1>0, OthersLeave, ForkAssumption DEF ForkAssumption, Procs
<1>00. ASSUME NEW t \in Tools, Marks(t), MigratesOld(t)' PROVE Left'
  BY <1>00, OthersLeave, ForkAssumption DEF ForkAssumption, Procs
<1>1. ASSUME NEW f \in Forks,
             \/ LoadConfig(f) \/ AssertTwoAffirmation(f) \/ BuildAdapters(f)
             \/ StartReplay(f) \/ EndReplay(f) \/ WalkReport(f)
      PROVE  Left'
  <2>1. /\ stage[f] \in {"start", "loaded", "affirmed", "built", "replaying", "reported"}
        /\ UNCHANGED <<touched, file, loaded>>
    BY <1>1 DEF LoadConfig, AssertTwoAffirmation, BuildAdapters, StartReplay,
       EndReplay, WalkReport
  <2>2. \/ \E to \in {"loaded", "affirmed", "built", "replaying", "reported", "walked"} :
             Goto(f, to)
        \/ Refuses(f) \/ Leaks(f) \/ \E code \in 0..2 : Ends(f, "SystemExit", code)
    BY <1>1, Zenon DEF LoadConfig, AssertTwoAffirmation, BuildAdapters, StartReplay,
       EndReplay, WalkReport
  <2>3. /\ dest' = dest \/ \E d \in Destinations(f) : dest' = [dest EXCEPT ![f] = d]
        /\ report' = report \/ \E r : report' = [report EXCEPT ![f] = r]
    BY <1>1 DEF LoadConfig, AssertTwoAffirmation, BuildAdapters, StartReplay,
       EndReplay, WalkReport
  <2>4. Marks(f)
    BY <2>1, <2>2, <2>3, ForkAssumption
       DEF Marks, Alone, Blamed, Indexed, Written, Functional, Procs, ForkAssumption
  <2>5. Leaves(f)'
    <3>1. dest'[f].json[2] = "json" /\ dest'[f].md[2] = "md"
      <4>1. \A d \in Destinations(f) : d.json[2] = "json" /\ d.md[2] = "md"
        BY DEF Destinations
      <4>2. dest[f].json[2] = "json" /\ dest[f].md[2] = "md"
        BY DEF Left, Leaves
      <4> QED BY <2>3, <4>1, <4>2 DEF Blamed, Indexed
    <3>2. /\ stage'[f] \notin {"json", "half", "md", "written"}
          /\ ~Concluded(f)'
      BY <2>1, <2>2 DEF Blamed, Indexed, Written, ForkWrites, Writing, Concluded, Procs
    <3> QED BY <3>1, <3>2 DEF Leaves
  <2> QED BY <1>0, <2>4, <2>5
<1>2. ASSUME NEW f \in Forks, OpenJson(f) PROVE Left'
  <2>1. stage[f] = "walked" /\ ending[f] = "" /\ UNCHANGED <<report, dest, loaded>>
    BY <1>2 DEF OpenJson, Written, ForkWrites
  <2>2. CASE UNCHANGED <<file, touched>> /\ (Leaks(f) \/ Refuses(f))
    <3>1. Marks(f)
      BY <2>1, <2>2 DEF Marks, Alone, Blamed, Indexed, Procs
    <3>2. Leaves(f)'
      BY <2>1, <2>2 DEF Left, Leaves, Concluded, Blamed, Indexed, Procs
    <3> QED BY <1>0, <3>1, <3>2
  <2>3. CASE Goto(f, "json") /\ Truncate(f, dest[f].json)
    <3>1. Marks(f)
      BY <2>1, <2>3 DEF Marks, Alone, Truncate, Blamed, Indexed, Procs
    <3>2. file'[dest[f].json] = Empty
      BY <2>3 DEF Truncate, Blamed, Indexed, KnownFork
    <3>3. stage'[f] = "json" /\ ending'[f] = ""
      BY <2>1, <2>3 DEF Blamed, Indexed, Procs
    <3>4. Leaves(f)'
      BY <2>1, <3>2, <3>3 DEF Left, Leaves, Concluded, Holds
    <3> QED BY <1>0, <3>1, <3>4
  <2> QED BY <1>2, <2>2, <2>3, Zenon DEF OpenJson
<1>3. ASSUME NEW f \in Forks, FillJson(f) PROVE Left'
  <2>1. /\ stage[f] = "json" /\ ending[f] = "" /\ UNCHANGED <<report, dest, loaded, touched>>
        /\ dest[f].json \in Paths /\ Leaves(f) /\ f \in Procs
    BY <1>3 DEF FillJson, Written, ForkWrites, Blamed, KnownFork, Left, Procs
  <2>2. dest[f].json \in touched[f]
    BY <2>1 DEF Blamed, Held, OpenPath
  <2>3. Shared(f, dest[f].json)' = Shared(f, dest[f].json)
    BY <2>1 DEF Shared
  <2>4. CASE /\ Goto(f, "half")
             /\ \E text \in Filled(dest[f].json, JsonText(f)) :
                  file' = [file EXCEPT ![dest[f].json] = text]
    <3>1. PICK text \in Filled(dest[f].json, JsonText(f)) :
            file' = [file EXCEPT ![dest[f].json] = text]
      BY <2>4
    <3>2. Marks(f)
      BY <2>1, <2>2, <2>4, <3>1 DEF Marks, Alone, Blamed, Indexed, Procs
    <3>3. file'[dest[f].json] = text
      BY <2>1, <3>1 DEF Blamed, Indexed
    <3>4. text = JsonText(f) \/ Shared(f, dest[f].json)
      BY <2>1 DEF Leaves, Holds, Filled
    <3>5. stage'[f] = "half" /\ ending'[f] = "" /\ JsonText(f)' = JsonText(f)
      BY <2>1, <2>4 DEF Blamed, Indexed, JsonText
    <3>6. Leaves(f)'
      BY <2>1, <2>3, <3>3, <3>4, <3>5 DEF Leaves, Concluded, Holds
    <3> QED BY <1>0, <3>2, <3>6
  <2>5. CASE Refuses(f) /\ file' = [file EXCEPT ![dest[f].json] = Torn]
    <3>1. Marks(f)
      BY <2>1, <2>2, <2>5 DEF Marks, Alone, Blamed, Indexed, Procs
    <3>2. Leaves(f)'
      BY <2>1, <2>5 DEF Leaves, Concluded, Blamed, Indexed
    <3> QED BY <1>0, <3>1, <3>2
  <2> QED BY <1>3, <2>4, <2>5, Zenon DEF FillJson
<1>4. ASSUME NEW f \in Forks, OpenMd(f) PROVE Left'
  <2>1. /\ stage[f] = "half" /\ ending[f] = "" /\ UNCHANGED <<report, dest, loaded>>
        /\ dest[f].json \in Paths /\ dest[f].md \in Paths /\ dest[f].md # dest[f].json
        /\ Leaves(f) /\ f \in Procs
    BY <1>4 DEF OpenMd, Written, ForkWrites, Blamed, KnownFork, Left, Leaves, Procs
  <2>2. CASE UNCHANGED <<file, touched>> /\ Refuses(f)
    <3>1. Marks(f)
      BY <2>1, <2>2 DEF Marks, Alone, Blamed, Indexed, Procs
    <3>2. Leaves(f)'
      BY <2>1, <2>2 DEF Leaves, Concluded, Blamed, Indexed
    <3> QED BY <1>0, <3>1, <3>2
  <2>3. CASE Goto(f, "md") /\ Truncate(f, dest[f].md)
    <3>1. Marks(f)
      BY <2>1, <2>3 DEF Marks, Alone, Truncate, Blamed, Indexed, Procs
    <3>2. /\ file'[dest[f].md] = Empty
          /\ file'[dest[f].json] = file[dest[f].json]
      BY <2>1, <2>3 DEF Truncate, Blamed, Indexed
    <3>3. stage'[f] = "md" /\ ending'[f] = "" /\ JsonText(f)' = JsonText(f)
      BY <2>1, <2>3 DEF Blamed, Indexed, JsonText
    <3>4. Shared(f, dest[f].json) => Shared(f, dest[f].json)'
      BY <2>1, <3>1, SharedStays
    <3>5. Holds(f, dest[f].json, JsonText(f))
      BY <2>1 DEF Leaves
    <3>6. Leaves(f)'
      BY <2>1, <3>2, <3>3, <3>4, <3>5 DEF Leaves, Concluded, Holds
    <3> QED BY <1>0, <3>1, <3>6
  <2> QED BY <1>4, <2>2, <2>3, Zenon DEF OpenMd
<1>5. ASSUME NEW f \in Forks, FillMd(f) PROVE Left'
  <2>1. /\ stage[f] = "md" /\ ending[f] = "" /\ UNCHANGED <<report, dest, loaded, touched>>
        /\ dest[f].json \in Paths /\ dest[f].md \in Paths /\ dest[f].md # dest[f].json
        /\ Leaves(f) /\ f \in Procs
    BY <1>5 DEF FillMd, Written, ForkWrites, Blamed, KnownFork, Left, Leaves, Procs
  <2>2. dest[f].md \in touched[f]
    BY <2>1 DEF Blamed, Held, OpenPath
  <2>3. \A path : Shared(f, path)' = Shared(f, path)
    BY <2>1 DEF Shared
  <2>4. CASE /\ Goto(f, "written")
             /\ \E text \in Filled(dest[f].md, MdText(f)) :
                  file' = [file EXCEPT ![dest[f].md] = text]
    <3>1. PICK text \in Filled(dest[f].md, MdText(f)) :
            file' = [file EXCEPT ![dest[f].md] = text]
      BY <2>4
    <3>2. Marks(f)
      BY <2>1, <2>2, <2>4, <3>1 DEF Marks, Alone, Blamed, Indexed, Procs
    <3>3. file'[dest[f].md] = text /\ file'[dest[f].json] = file[dest[f].json]
      BY <2>1, <3>1 DEF Blamed, Indexed
    <3>4. text = MdText(f) \/ Shared(f, dest[f].md)
      BY <2>1 DEF Leaves, Holds, Filled
    <3>5. /\ stage'[f] = "written" /\ ending'[f] = ""
          /\ JsonText(f)' = JsonText(f) /\ MdText(f)' = MdText(f)
      BY <2>1, <2>4 DEF Blamed, Indexed, JsonText, MdText
    <3>6. Leaves(f)'
      BY <2>1, <2>3, <3>3, <3>4, <3>5 DEF Leaves, Concluded, Holds
    <3> QED BY <1>0, <3>2, <3>6
  <2>5. CASE /\ Refuses(f) \/ Leaks(f)
             /\ UNCHANGED file \/ file' = [file EXCEPT ![dest[f].md] = Torn]
    <3>1. Marks(f)
      BY <2>1, <2>2, <2>5 DEF Marks, Alone, Blamed, Indexed, Procs
    <3>2. Leaves(f)'
      BY <2>1, <2>5 DEF Leaves, Concluded, Blamed, Indexed
    <3> QED BY <1>0, <3>1, <3>2
  <2> QED BY <1>5, <2>4, <2>5, Zenon DEF FillMd
<1>6. ASSUME NEW f \in Forks, Announce(f) PROVE Left'
  <2>1. /\ stage[f] = "written" /\ stage'[f] = "over"
        /\ UNCHANGED <<report, dest, loaded, touched, file>> /\ Leaves(f)
    BY <1>6 DEF Announce, Blamed, Indexed, Left, Procs
  <2>2. Marks(f)
    BY <1>6, <2>1 DEF Announce, Marks, Alone, Blamed, Indexed, Procs
  <2>3. /\ JsonText(f)' = JsonText(f) /\ MdText(f)' = MdText(f)
        /\ \A path : Shared(f, path)' = Shared(f, path)
    BY <2>1 DEF JsonText, MdText, Shared
  <2>4. Leaves(f)'
    BY <2>1, <2>3 DEF Leaves, Holds
  <2> QED BY <1>0, <2>2, <2>4
<1>7. ASSUME NEW t \in Tools,
             ReadToMigrate(t) \/ ReadToDiff(t) \/ Diff(t) \/ StartCheck(t) \/ EndCheck(t)
      PROVE  Left'
  <2>1. /\ stage[t] \in {"start", "migrating", "diffing", "checking"}
        /\ UNCHANGED <<report, dest, file, touched>> /\ touched[t] = {}
    BY <1>7 DEF ReadToMigrate, ReadToDiff, Diff, StartCheck, EndCheck, Left, MigratesOld
  <2>2. Marks(t)
    BY <1>7, <2>1 DEF ReadToMigrate, ReadToDiff, Diff, StartCheck, EndCheck,
       Marks, Alone, Blamed, Indexed, Procs
  <2>3. MigratesOld(t)'
    BY <2>1 DEF MigratesOld
  <2> QED BY <1>00, <2>2, <2>3
<1>8. ASSUME NEW t \in Tools, Migrate(t) PROVE Left'
  <2>1. /\ stage[t] = "migrating" /\ touched[t] = {} /\ UNCHANGED <<report, dest, loaded>>
        /\ t \in Procs
    BY <1>8 DEF Migrate, Left, MigratesOld, Procs
  <2>2. CASE UNCHANGED <<file, touched>>
    <3>1. Marks(t)
      BY <1>8, <2>1, <2>2 DEF Migrate, Marks, Alone, Blamed, Indexed
    <3>2. MigratesOld(t)'
      BY <2>1, <2>2 DEF MigratesOld
    <3> QED BY <1>00, <3>1, <3>2
  <2>3. CASE \E path : /\ Truncate(t, path) /\ loaded[t][2].version # Current
                       /\ Goto(t, "inplace") \/ Goto(t, "beside")
    <3>1. Marks(t)
      BY <2>1, <2>3 DEF Truncate, Marks, Alone, Blamed, Indexed
    <3>2. MigratesOld(t)'
      BY <2>1, <2>3 DEF MigratesOld, Blamed, Indexed
    <3> QED BY <1>00, <3>1, <3>2
  <2> QED BY <1>8, <2>2, <2>3, Zenon DEF Migrate
<1>9. ASSUME NEW t \in Tools, FillMigrated(t) PROVE Left'
  <2> DEFINE out == IF stage[t] = "inplace" THEN loaded[t][1] ELSE Beside(loaded[t][1])
  <2>1. /\ stage[t] \in {"inplace", "beside"} /\ stage'[t] = "over" /\ t \in Procs
        /\ UNCHANGED <<report, dest, loaded, touched>>
    BY <1>9 DEF FillMigrated, Blamed, Indexed, Procs
  <2>2. out \in touched[t]
    BY <2>1, PathKinds DEF Blamed, KnownTool, Held, OpenPath
  <2>3. \E text : file' = [file EXCEPT ![out] = text]
    BY <1>9, Zenon DEF FillMigrated
  <2>4. Marks(t)
    BY <1>9, <2>1, <2>2, <2>3 DEF FillMigrated, Marks, Alone, Blamed, Indexed
  <2>5. MigratesOld(t)'
    BY <2>1 DEF MigratesOld, Left
  <2> QED BY <1>00, <2>4, <2>5
<1>10. ASSUME NEW p \in Procs, Interrupt(p) \/ Kill(p) PROVE Left'
  <2>1. /\ stage[p] # "over" /\ stage'[p] = "over" /\ Breaks(p)
        /\ ending'[p] \in {"interrupted", "killed"}
        /\ UNCHANGED <<report, dest, loaded, touched>>
    BY <1>10 DEF Interrupt, Kill, CanBeCut, Blamed, Indexed
  <2>2. \A path \in Paths : file'[path] = file[path] \/ path \in touched[p]
    BY <2>1 DEF Breaks, Blamed, Held, Indexed
  <2>3. Marks(p)
    BY <1>10, <2>1, <2>2 DEF Interrupt, Kill, Marks, Alone, Blamed, Indexed
  <2>4. p \in Tools => MigratesOld(p)'
    BY <2>1 DEF Left, MigratesOld
  <2>5. p \in Forks => Leaves(p)'
    BY <2>1 DEF Left, Leaves, Concluded
  <2> QED BY <2>3, <2>4, <2>5, OthersLeave
<1>11. CASE UNCHANGED vars
  BY <1>11 DEF vars, Left, Leaves, MigratesOld, Holds, Shared, Concluded, JsonText, MdText
<1>12. ASSUME NEW f \in Forks, Fork(f) PROVE Left'
  BY <1>1, <1>2, <1>3, <1>4, <1>5, <1>6, <1>12 DEF Fork
<1>13. ASSUME NEW t \in Tools, Tool(t) PROVE Left'
  BY <1>7, <1>8, <1>9, <1>13 DEF Tool
<1> QED BY <1>10, <1>11, <1>12, <1>13 DEF Next

\* What a fork that exits with 0 or 1 leaves at its two paths is its whole
\* report, unless another fork wrote there too or a migration that had found
\* an older report: a failed or interrupted tool is no exception.
THEOREM DiskMatchesExitCode == Spec => []DiskMatchesExit
<1>1. Init => Left
  <2> SUFFICES ASSUME Init PROVE Left
    OBVIOUS
  <2>1. ASSUME NEW t \in Tools PROVE MigratesOld(t)
    BY DEF Init, MigratesOld, Procs
  <2>2. ASSUME NEW f \in Forks PROVE Leaves(f)
    BY DEF Init, Leaves, Concluded, NoDest, Dated, Procs
  <2> QED BY <2>1, <2>2 DEF Left
<1>2. Left => DiskMatchesExit
  BY DEF Left, Leaves, Concluded, Holds, Shared, DiskMatchesExit
<1> QED BY <1>1, <1>2, LeftStep, BlamedAlways, WrittenAlways, PTL DEF Spec

-----------------------------------------------------------------------------
\* The types.  Who is where and what is open comes with the invariants above;
\* what is left are the files and the codes.

TextKinds == {"absent", "report", "empty", "torn", "mixed", "foreign"}

LEMMA FilledKinds ==
  ASSUME NEW path \in Paths, NEW text, text.kind = "report",
         NEW new \in Filled(path, text)
  PROVE  new.kind \in TextKinds
BY DEF Filled, Mixed, NoFile, File, TextKinds

\* Files and opened paths keep their types in every step.
LEMMA FilesTyped ==
  ASSUME Blamed, TypeOK, [Next]_vars
  PROVE  /\ \A path \in Paths : file'[path].kind \in TextKinds
         /\ touched' \in [Procs -> SUBSET Paths]
<1> DEFINE Typed == /\ \A path \in Paths : file'[path].kind \in TextKinds
                   /\ touched' \in [Procs -> SUBSET Paths]
<1>1. ASSUME UNCHANGED <<file, touched>> PROVE Typed
  BY <1>1 DEF TypeOK, TextKinds
<1>2. ASSUME NEW p \in Procs, NEW path \in Paths, Truncate(p, path) PROVE Typed
  BY <1>2 DEF Truncate, TypeOK, Blamed, Indexed, TextKinds, Empty, NoFile, File
<1>3. ASSUME NEW path, NEW new, new.kind \in TextKinds,
             file' = [file EXCEPT ![path] = new], touched' = touched
      PROVE  Typed
  BY <1>3 DEF TypeOK, Blamed, Indexed, TextKinds
<1>4. Torn.kind \in TextKinds
  BY DEF Torn, NoFile, File, TextKinds
<1>5. ASSUME NEW f \in Forks PROVE /\ dest[f].json \in Paths /\ dest[f].md \in Paths
                                  /\ JsonText(f).kind = "report"
                                  /\ MdText(f).kind = "report" /\ f \in Procs
  BY DEF Blamed, KnownFork, JsonText, MdText, File, Procs
<1>6. ASSUME NEW f \in Forks, Fork(f) PROVE Typed
  <2>1. CASE OpenJson(f) \/ OpenMd(f)
    BY <1>1, <1>2, <1>5, <2>1 DEF OpenJson, OpenMd
  <2>2. CASE FillJson(f) \/ FillMd(f)
    <3>1. \/ UNCHANGED <<file, touched>>
          \/ \E path \in Paths : \E text :
               /\ text.kind = "report" /\ touched' = touched
               /\ \/ file' = [file EXCEPT ![path] = Torn]
                  \/ \E new \in Filled(path, text) :
                       file' = [file EXCEPT ![path] = new]
      BY <1>5, <2>2 DEF FillJson, FillMd
    <3> QED BY <1>1, <1>3, <1>4, <3>1, FilledKinds
  <2>3. CASE ~(OpenJson(f) \/ OpenMd(f) \/ FillJson(f) \/ FillMd(f))
    <3>1. UNCHANGED <<file, touched>>
      BY <1>6, <2>3 DEF Fork, LoadConfig, AssertTwoAffirmation, BuildAdapters,
         StartReplay, EndReplay, WalkReport, Announce
    <3> QED BY <1>1, <3>1
  <2> QED BY <2>1, <2>2, <2>3
<1>7. ASSUME NEW t \in Tools, Tool(t) PROVE Typed
  <2>1. t \in Procs
    BY DEF Procs
  <2>2. CASE Migrate(t)
    BY <1>1, <1>2, <2>1, <2>2, PathKinds DEF Migrate, Blamed, KnownTool
  <2>3. CASE FillMigrated(t)
    <3> DEFINE out == IF stage[t] = "inplace" THEN loaded[t][1]
                      ELSE Beside(loaded[t][1])
    <3>1. out \in Paths /\ loaded[t][2].kind = "report"
      BY <2>3, PathKinds DEF FillMigrated, Blamed, KnownTool
    <3>2. \/ file' = [file EXCEPT ![out] = Torn]
          \/ \E new \in Filled(out, Migrated(loaded[t][2])) :
               file' = [file EXCEPT ![out] = new]
      BY <2>3 DEF FillMigrated
    <3>3. touched' = touched
      BY <2>3 DEF FillMigrated
    <3>4. Migrated(loaded[t][2]).kind = "report"
      BY <3>1 DEF Migrated
    <3>5. \A new \in Filled(out, Migrated(loaded[t][2])) : new.kind \in TextKinds
      BY <3>1, <3>4, FilledKinds
    <3> QED BY <1>3, <1>4, <3>2, <3>3, <3>5
  <2>4. CASE ~(Migrate(t) \/ FillMigrated(t))
    <3>1. UNCHANGED <<file, touched>>
      BY <1>7, <2>4 DEF Tool, ReadToMigrate, ReadToDiff, Diff, StartCheck, EndCheck
    <3> QED BY <1>1, <3>1
  <2> QED BY <2>2, <2>3, <2>4
<1>8. ASSUME NEW p \in Procs, Interrupt(p) \/ Kill(p) PROVE Typed
  <2>1. /\ touched' = touched
        /\ file' = file \/ \E path \in Paths : file' = [file EXCEPT ![path] = Torn]
    BY <1>8 DEF Interrupt, Kill, Breaks, OpenPath
  <2> QED BY <1>1, <1>3, <1>4, <2>1
<1>9. CASE UNCHANGED vars
  BY <1>1, <1>9 DEF vars
<1> QED BY <1>6, <1>7, <1>8, <1>9 DEF Next

\* The codes and what is in hand.
LEMMA ControlTyped ==
  ASSUME Blamed, Written, TypeOK, [Next]_vars
  PROVE  /\ cli' \in [Forks -> {"none", "forensic"}]
         /\ \A f \in Forks : report'[f] \in Reports[f] \cup {NoReport}
         /\ exit' \in [Procs -> {0, 1, 2, 137}]
         /\ ending' \in [Procs -> Endings]
<1> DEFINE Codes == exit' \in [Procs -> {0, 1, 2, 137}] /\ ending' \in [Procs -> Endings]
           Reported == \A f \in Forks : report'[f] \in Reports[f] \cup {NoReport}
           Typed == cli' \in [Forks -> {"none", "forensic"}] /\ Reported /\ Codes
<1>1. ASSUME UNCHANGED <<exit, ending>> PROVE Codes
  BY <1>1 DEF TypeOK
<1>2. ASSUME NEW p \in Procs, NEW how \in Endings, NEW code \in {0, 1, 2, 137},
             Ends(p, how, code)
      PROVE  Codes
  BY <1>2 DEF Ends, TypeOK
<1>3. ASSUME NEW p, NEW to, Goto(p, to) PROVE Codes
  BY <1>1, <1>3 DEF Goto
<1>4. ASSUME NEW p \in Procs, Refuses(p) \/ Leaks(p) \/ Returns(p, 0) PROVE Codes
  BY <1>2, <1>4 DEF Refuses, Leaks, Returns, Endings,
     EXIT_INCONCLUSIVE_OR_SETUP_FAILURE
<1> HIDE DEF Codes
<1>5. ASSUME UNCHANGED <<cli, report>> PROVE Codes => Typed
  BY <1>5 DEF TypeOK
<1>6. ASSUME NEW f \in Forks, Fork(f) PROVE Typed
  <2>1. f \in Procs
    BY DEF Procs
  <2>2. CASE LoadConfig(f)
    <3>1. Codes
      BY <1>3, <1>4, <2>1, <2>2 DEF LoadConfig
    <3>2. report' = report /\ cli' \in [Forks -> {"none", "forensic"}]
      BY <2>2 DEF LoadConfig, TypeOK
    <3> QED BY <3>1, <3>2 DEF TypeOK
  <2>3. CASE AssertTwoAffirmation(f)
    BY <1>3, <1>4, <1>5, <2>1, <2>3 DEF AssertTwoAffirmation
  <2>4. CASE BuildAdapters(f)
    <3>1. Codes
      BY <1>3, <1>4, <2>1, <2>4, Zenon DEF BuildAdapters
    <3>2. report' = report /\ cli' = [cli EXCEPT ![f] = "none"]
      BY <2>4, Zenon DEF BuildAdapters
    <3> QED BY <3>1, <3>2 DEF TypeOK
  <2>5. CASE StartReplay(f)
    BY <1>3, <1>5, <2>1, <2>5 DEF StartReplay
  <2>6. CASE EndReplay(f)
    <3>1. ASSUME NEW code \in 0..2, Ends(f, "SystemExit", code) PROVE Codes
      <4>1. code \in {0, 1, 2, 137} /\ "SystemExit" \in Endings
        BY DEF Endings
      <4> QED BY <1>2, <2>1, <3>1, <4>1, Zenon
    <3>2. Codes
      BY <1>3, <1>4, <2>1, <2>6, <3>1 DEF EndReplay
    <3>3. cli' = cli /\ Reported
      BY <2>6 DEF EndReplay, TypeOK, Written, Functional
    <3> QED BY <3>2, <3>3 DEF TypeOK
  <2>7. CASE WalkReport(f)
    BY <1>3, <1>4, <1>5, <2>1, <2>7 DEF WalkReport
  <2>8. CASE OpenJson(f) \/ FillJson(f) \/ OpenMd(f) \/ FillMd(f)
    <3>1. Goto(f, "json") \/ Goto(f, "half") \/ Goto(f, "md") \/ Goto(f, "written")
            \/ Refuses(f) \/ Leaks(f)
      BY <2>8, Zenon DEF OpenJson, FillJson, OpenMd, FillMd
    <3>2. UNCHANGED <<cli, report>>
      BY <2>8 DEF OpenJson, FillJson, OpenMd, FillMd
    <3> QED BY <1>3, <1>4, <1>5, <2>1, <3>1, <3>2
  <2>9. CASE Announce(f)
    <3>1. ExitCode(report[f].verdict) \in {0, 1, 2}
      BY <2>9 DEF Announce, Written, ForkWrites, Writing, HasReport, Verdicts,
         ExitCode, EXIT_SHIP, EXIT_DONT_SHIP, EXIT_INCONCLUSIVE_OR_SETUP_FAILURE
    <3>2. ASSUME Returns(f, ExitCode(report[f].verdict)) PROVE Codes
      <4>1. /\ ExitCode(report[f].verdict) \in {0, 1, 2, 137}
            /\ "returned" \in Endings
        BY <3>1 DEF Endings
      <4> QED BY <1>2, <2>1, <3>2, <4>1, Zenon DEF Returns
    <3> QED BY <1>4, <1>5, <2>1, <2>9, <3>2 DEF Announce
  <2> QED BY <1>6, <2>2, <2>3, <2>4, <2>5, <2>6, <2>7, <2>8, <2>9 DEF Fork
<1>7. ASSUME NEW t \in Tools, Tool(t) PROVE Typed
  <2>1. t \in Procs
    BY DEF Procs
  <2>2. UNCHANGED <<cli, report>>
    BY <1>7 DEF Tool, ReadToMigrate, Migrate, FillMigrated, ReadToDiff, Diff,
       StartCheck, EndCheck, forkVars
  <2>3. (\E to : Goto(t, to)) \/ Refuses(t) \/ Leaks(t) \/ Returns(t, 0)
    BY <1>7, Zenon DEF Tool, ReadToMigrate, Migrate, FillMigrated, ReadToDiff,
       Diff, StartCheck, EndCheck
  <2> QED BY <1>3, <1>4, <1>5, <2>1, <2>2, <2>3
<1>8. ASSUME NEW p \in Procs, Interrupt(p) \/ Kill(p) PROVE Typed
  <2>1. UNCHANGED <<cli, report>>
    BY <1>8 DEF Interrupt, Kill, forkVars
  <2>2. Ends(p, "interrupted", 1) \/ Ends(p, "killed", 137)
    BY <1>8 DEF Interrupt, Kill
  <2> QED BY <1>2, <1>5, <2>1, <2>2 DEF Endings
<1>9. ASSUME UNCHANGED vars PROVE Typed
  BY <1>1, <1>5, <1>9 DEF vars
<1> QED BY <1>6, <1>7, <1>8, <1>9 DEF Next, Codes

\* The state of the commands, and of the files they leave, is well typed.
THEOREM TypeCorrect == Spec => []TypeOK
<1>1. Init => TypeOK
  <2> SUFFICES ASSUME Init PROVE TypeOK
    OBVIOUS
  <2>1. \A path \in Paths : file[path] \in {Absent, OldReport, Foreign}
    BY DEF Init
  <2>2. \A text \in {Absent, OldReport, Foreign} : text.kind \in TextKinds
    BY DEF Absent, OldReport, Foreign, NoFile, File, TextKinds
  <2>3. \A f \in Forks : dest[f].json \in Paths /\ dest[f].md \in Paths
    BY PathKinds DEF Init, NoDest, Dated
  <2> QED
    BY <2>1, <2>2, <2>3 DEF Init, TypeOK, ForkStages, ToolStages, Procs, Endings,
       TextKinds
<1>2. Blamed /\ Blamed' /\ Written /\ TypeOK /\ [Next]_vars => TypeOK'
  <2> SUFFICES ASSUME Blamed, Blamed', Written, TypeOK, [Next]_vars
               PROVE  TypeOK'
    OBVIOUS
  <2>1. /\ \A f \in Forks : stage'[f] \in ForkStages
        /\ \A t \in Tools : stage'[t] \in ToolStages
        /\ \A f \in Forks : dest'[f].json \in Paths /\ dest'[f].md \in Paths
    BY DEF Blamed, KnownFork, KnownTool
  <2> QED BY <2>1, FilesTyped, ControlTyped DEF TypeOK, TextKinds
<1> QED BY <1>1, <1>2, BlamedAlways, WrittenAlways, PTL DEF Spec

=============================================================================
