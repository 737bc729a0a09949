----------------------------- MODULE MCStandalone -----------------------------
(* Components that share nothing with any other, each on its own: a behaviour *)
(* is one of the five while the others rest.                                  *)
EXTENDS RollWindow, DevHostRegistry, CodeBuildBackend, DbTransfers, DeploymentPipeline
VARIABLE part
allVars == <<windowVars, registryVars, cbVars, transferVars, pipelineVars, part>>

\* Percentages around every rounding boundary: 50/100 and 150 round at one and at odd
\* counts, 134 is the first maximum that admits a fourth task at three replicas.
MCMinPercents == {-1, 0, 33, 50, 66, 67, 75, 99, 100, 101}
MCMaxPercents == {99, 100, 101, 125, 133, 134, 149, 150, 199, 200}

\* The api needs the database; compose builds both from one context.
MCDependsOn == [s \in {"db", "api"} |-> IF s = "api" THEN {"db"} ELSE {}]
MCBuildPrimary == [s \in {"db", "api"} |-> "db"]

\* At rest nothing a component is fair about is enabled.
WindowRests ==
  /\ spec = CHOOSE s \in WindowServices : s.replicas = 0
  /\ old = 0 /\ new = 0
CodeBuildRests == CodeBuildInit /\ bucket = "none" /\ ~cbProject

Init ==
  \/ part = "window" /\ WindowInit /\ RegistryInit /\ CodeBuildRests /\ TransfersInit
       /\ PipelineInit
  \/ /\ part \in {"registry", "codebuild", "transfers", "pipeline"}
     /\ WindowRests /\ RegistryInit /\ TransfersInit /\ PipelineInit
     /\ CodeBuildInit /\ (part # "codebuild" => CodeBuildRests)
Next ==
  /\ UNCHANGED part
  /\ \/ /\ part = "window" /\ WindowNext
        /\ UNCHANGED <<registryVars, cbVars, transferVars, pipelineVars>>
     \/ /\ part = "registry" /\ RegistryNext
        /\ UNCHANGED <<windowVars, cbVars, transferVars, pipelineVars>>
     \/ /\ part = "codebuild" /\ CodeBuildNext
        /\ UNCHANGED <<windowVars, registryVars, transferVars, pipelineVars>>
     \/ /\ part = "transfers" /\ TransfersNext
        /\ UNCHANGED <<windowVars, registryVars, cbVars, pipelineVars>>
     \/ /\ part = "pipeline" /\ PipelineNext
        /\ UNCHANGED <<windowVars, registryVars, cbVars, transferVars>>
Spec == Init /\ [][Next]_allVars /\ WindowFairness /\ RegistryFairness /\ CodeBuildFairness

\* The type invariants of the components.
TypeOK ==
  /\ part = "window" => WindowTypeOK
  /\ part = "registry" => RegistryTypeOK
  /\ part = "codebuild" => CodeBuildTypeOK
  /\ part = "transfers" => TransfersTypeOK
  /\ part = "pipeline" => PipelineTypeOK
==============================================================================
