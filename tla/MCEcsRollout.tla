---------------------------- MODULE MCEcsRollout ----------------------------
(* A singleton scheduler (stateful by its name alone) and a web group of two replicas
   at 50/100, whose live service carries a legacy name; a second configuration puts a
   member with other percentages into the web group, which rc must refuse. *)
EXTENDS EcsRollout, TLC

Member(scheduler, override, replicas, rank) ==
  [volumes |-> 0, stateful |-> FALSE, scheduler |-> scheduler, override |-> override,
   autoRoll |-> TRUE, replicas |-> replicas, rank |-> rank]

beat == Member(TRUE, <<>>, 1, 2)
web == Member(FALSE, [min |-> 50, max |-> 100], 2, 1)
proxy == Member(FALSE, <<>>, 2, 3)

MCGroup == {"beat", "web"}
MCName == {"beat", "web", "legacy-web"}
MCLive == {"beat", "legacy-web"}
MCCandidates == "beat" :> <<"beat">> @@ "web" :> <<"web", "legacy-web">>
MCConfigurations ==
  { "beat" :> <<beat>> @@ "web" :> <<web>>,
    "beat" :> <<beat>> @@ "web" :> <<web, proxy>> }
MCLiveDesired == "beat" :> 1 @@ "legacy-web" :> 2
=============================================================================
