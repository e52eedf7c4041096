----------------------------- MODULE MainProofs -----------------------------
(***************************************************************************)
(* Proofs about the runs of ninja (module NinjaMain), for every set of     *)
(* manifests, cycle limit and number of runs.                              *)
(***************************************************************************)
EXTENDS NinjaMain, TLAPS

(***************************************************************************)
(* The share environment exists only between InitShareBuildEnv and         *)
(* ClearShareBuildEnv, of a run with -s.                                   *)
(***************************************************************************)
EnvInv ==
    env => lost \/ (pc \in {"build", "clear"} /\ opts.share)

LEMMA EnvStep == EnvInv /\ [Next]_vars => EnvInv'
<1> SUFFICES ASSUME EnvInv, [Next]_vars  PROVE EnvInv'
  OBVIOUS
<1> USE DEF EnvInv, process, workspace
<1>1. CASE Load \/ GiveUp \/ OpenLogs \/ KeepManifest \/ RegenerateFails
  BY <1>1 DEF Load, GiveUp, OpenLogs, KeepManifest, RegenerateFails, Kept
<1>2. CASE ManifestCleaned \/ ManifestRebuilt
  BY <1>2 DEF ManifestCleaned, ManifestRebuilt, Kept
<1>3. CASE Prepare
  BY <1>3 DEF Prepare, ExitWith, GoTo, Kept
<1>4. CASE RunBuild
  BY <1>4 DEF RunBuild, BuildEnds, NextAfter, ExitWith, Kept
<1>5. CASE Dies \/ ClearEnv
  BY <1>5 DEF Dies, ClearEnv, ExitWith
<1>6. CASE ToolClean \/ ToolCleanDead \/ ToolRecompact \/ ToolRestat \/ ToolThatReads
  <2>1. env' = env /\ lost' = lost /\ pc = "tool"
    BY <1>6 DEF ToolClean, ToolCleanDead, ToolRecompact, ToolRestat, ToolThatReads,
                RunTool, Kept
  <2> QED
    BY <2>1
<1>7. CASE User
  BY <1>7 DEF User, EditGenerator, Touch, WriteFile, Invoke
<1>8. CASE UNCHANGED vars
  BY <1>8 DEF vars
<1> QED
  BY <1>1, <1>2, <1>3, <1>4, <1>5, <1>6, <1>7, <1>8 DEF Next, Main

\* The proxy keeps no environment of the workspace once ninja has exited, unless
\* clearing it failed or ninja died (RunBuild, ClearShareBuildEnv).
THEOREM LeavesNoEnvironment == Spec => []EnvironmentCleared
<1>1. Init => EnvInv
  BY DEF Init, EnvInv
<1>2. EnvInv => EnvironmentCleared
  BY DEF EnvInv, EnvironmentCleared
<1> QED
  BY <1>1, <1>2, EnvStep, PTL DEF Spec

-----------------------------------------------------------------------------
\* No step removes a file that the manifest reads and does not make,
\* whatever the logs still say of it (Cleaner::CleanDead, Cleaner::Remove).
THEOREM SourcesKept == Spec => SourcesStay
<1>1. ASSUME [Next]_vars
      PROVE  [\A p \in written \ written' : p \in Makes[parsed] \/ p \notin Reads[parsed]]_vars
  <2> SUFFICES ASSUME Next, NEW p \in written, p \notin written'
               PROVE  p \in Makes[parsed] \/ p \notin Reads[parsed]
    BY <1>1
  <2>1. CASE ToolClean
    BY <2>1 DEF ToolClean, Remove
  <2>2. CASE ToolCleanDead
    BY <2>2 DEF ToolCleanDead, Remove, Dead
  <2>3. CASE ToolRecompact \/ ToolRestat \/ ToolThatReads
    BY <2>3 DEF ToolRecompact, ToolRestat, ToolThatReads, workspace
  <2>4. CASE Load \/ GiveUp \/ OpenLogs \/ KeepManifest \/ RegenerateFails
    BY <2>4 DEF Load, GiveUp, OpenLogs, KeepManifest, RegenerateFails, workspace
  <2>5. CASE ManifestCleaned \/ ManifestRebuilt
    BY <2>5 DEF ManifestCleaned, ManifestRebuilt
  <2>6. CASE Prepare \/ RunBuild \/ Dies \/ ClearEnv
    BY <2>6 DEF Prepare, RunBuild, Dies, ClearEnv, workspace
  <2>7. CASE User
    BY <2>7 DEF User, EditGenerator, Touch, WriteFile, Invoke, workspace
  <2> QED
    BY <2>1, <2>2, <2>3, <2>4, <2>5, <2>6, <2>7 DEF Next, Main
<1> QED
  BY <1>1, PTL DEF Spec, SourcesStay
=============================================================================
