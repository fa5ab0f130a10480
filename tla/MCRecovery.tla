-------------------------------- MODULE MCRecovery --------------------------------
(***************************************************************************)
(* The restart runs, with the inputs of the evidence runs.                 *)
(***************************************************************************)
EXTENDS MCEvidence, Recovery

\* Two curated sources that differ in what import puts into a slot.
Manual == SourceOf("StaticCuratedDatabase", "manual", "Curated")
DurableSources == {Curated, Manual}

================================================================================
