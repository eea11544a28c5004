---------------------------- MODULE RunArtifacts ----------------------------
(***************************************************************************)
(* What the tools conclude about a run from the files it left behind:      *)
(* inspect_run (pangea_fuzz/runtime.py) and the "incomplete run" rule of   *)
(* the multi-mode report (pangea_fuzz/report.py).  The files are:          *)
(*   dirs    case index -> "none" (no case.yaml), "yaml" (case.yaml only)  *)
(*           or "summary" (summary.json is there)                          *)
(*   stages  case index -> set of the stages its ledger entries name       *)
(*   files   the run-level files present                                   *)
(***************************************************************************)

DirStates == {"none", "yaml", "summary"}

RunFiles == {"run-manifest.json", "run-summary.json", "index.json"}

\* The cases listed under missing_summary_cases.
MissingSummaries(dirs) == {i \in DOMAIN dirs : dirs[i] = "yaml"}

\* Seeded fault: a case counts as finished once its command is built.
MissingStages_Built(stages) ==
    {i \in DOMAIN stages : /\ "started" \in stages[i]
                           /\ stages[i] \cap {"command_built", "skipped"} = {}}

\* The cases listed under ledger_missing_stages.  The ledger is grouped by
\* case_index alone: entries of several runs, or of several cases with one
\* index, fall together.
MissingStages(stages) ==
    {i \in DOMAIN stages : /\ "started" \in stages[i]
                           /\ "verdict_finalized" \notin stages[i]
                           /\ "skipped" \notin stages[i]}

\* The verdict of inspect_run, as `inspect-run` asks for it (with the index).
InspectComplete(files, dirs, stages) ==
    /\ "run-manifest.json" \in files
    /\ "index.json" \in files
    /\ MissingSummaries(dirs) = {}
    /\ MissingStages(stages) = {}

=============================================================================
