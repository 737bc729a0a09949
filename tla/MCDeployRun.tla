----------------------------- MODULE MCDeployRun -----------------------------
(* django and its worker share one image, web has its own. *)
EXTENDS DeployRun, TLC

MCOrder == <<"django", "worker", "web">>
MCIdentity == "django" :> "backend" @@ "worker" :> "backend" @@ "web" :> "frontend"
MCFilters == {{}, {"worker"}}
=============================================================================
