-------------------------- MODULE MCEmailCampaigns --------------------------
(* Small instances of EmailCampaigns, in two scenes chosen in Init: a        *)
(* campaign to up to two addresses that three processes fall over each other *)
(* on, and two campaigns to one address each that wait for each other while  *)
(* only cron calls run.  A race has two mishaps, or one and a payload that is *)
(* cleared; a queue has one.  No scene forbids a step that fairness demands.  *)
EXTENDS EmailCampaigns

CONSTANTS cron, retry, cli

TwoCrons == {cron, retry}
OneOperator == {cli}

VARIABLE scene

MCInit == Init /\ scene \in {"race", "queue"}

MCNext ==
  /\ Next
  /\ UNCHANGED scene
  /\ scene = "race" =>
       /\ campaign'[2].status = "none"
       /\ audience'[1] # {2}
       /\ campaign'[1].status # "none" /\ campaign'[1].to = {} => mishaps' <= 1
       /\ \A w \in Operators :
            /\ worker'[w].queue \subseteq {1}
            /\ worker[w] = Idle /\ worker'[w] # Idle => \E v \in Cron : worker[v] = Idle
  /\ scene = "queue" =>
       /\ \A c \in Campaigns : audience'[c] \subseteq {1}
       /\ \A w \in Operators : worker'[w] = Idle
       /\ mishaps' <= 1

MCFairSpec == MCInit /\ [][MCNext]_<<vars, scene>> /\ Fairness
=============================================================================
