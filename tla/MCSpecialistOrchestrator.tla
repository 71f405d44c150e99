---------------------- MODULE MCSpecialistOrchestrator ----------------------
(***************************************************************************)
(* Core and the dependency chain of specialist_orchestrator.json: memory   *)
(* needs research, research needs vision.                                  *)
(***************************************************************************)
EXTENDS SpecialistOrchestrator

CONSTANTS core, vision, research, memory

MCSpecialists  == {core, vision, research, memory}
MCDependencies ==
    [s \in MCSpecialists |-> IF s = research THEN {vision}
                             ELSE IF s = memory THEN {research} ELSE {}]
=============================================================================
