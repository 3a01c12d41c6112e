--------------------------------- MODULE MCBoot ---------------------------------
(***************************************************************************)
(* Instances for TLC of how the startup services are read, ordered and     *)
(* started. A behaviour is about one of:                                   *)
(*   condition  all texts of a condition of up to MaxTokens tokens;        *)
(*   tree       all `after' lists of up to two entries over three services,*)
(*              the milestones and an unknown key;                         *)
(*   boot       in slice 1 a service ready after a delay and one that has  *)
(*              to exit, in slice 2 one ready when it prints a line and one*)
(*              with two dependencies, one of them in slice 1.             *)
(***************************************************************************)
EXTENDS Boot, StartupTree, Conditions

CONSTANTS udev, modules, zt, api, s1, s2, s3

VARIABLE focus

MCStage    == (udev :> 1) @@ (modules :> 1) @@ (zt :> 2) @@ (api :> 2)
MCAfter    == (udev :> {}) @@ (modules :> {udev}) @@ (zt :> {}) @@ (api :> {modules, zt})
MCReady    == (udev :> "delay") @@ (modules :> "exit") @@ (zt :> "match") @@ (api :> "delay")
MCRespawns == (udev :> TRUE) @@ (modules :> FALSE) @@ (zt :> TRUE) @@ (api :> FALSE)

MCLetters == {"and", "not", "a", "(", ")", ",", " "}
MCParams  == SUBSET {"a", "b"}

mcVars == <<vars, treeVars, conditionVars, focus>>

MCInit ==
  \/ /\ focus = "boot" /\ Init
     /\ after = [s \in Startup |-> <<>>] /\ pending = Startup /\ sorted = FALSE
     /\ tree = <<>> /\ weights = <<>> /\ text = <<>> /\ parsed = <<>>
  \/ /\ focus = "tree" /\ TreeInit
     /\ Init /\ cond = [s \in Service |-> TRUE] /\ text = <<>> /\ parsed = <<>>
  \/ /\ focus = "condition" /\ ConditionInit
     /\ Init /\ cond = [s \in Service |-> TRUE]
     /\ after = [s \in Startup |-> <<>>] /\ pending = Startup /\ sorted = FALSE
     /\ tree = <<>> /\ weights = <<>>

MCNext ==
  \/ focus = "boot" /\ Next /\ UNCHANGED <<treeVars, conditionVars, focus>>
  \/ focus = "tree" /\ TreeNext /\ UNCHANGED <<vars, conditionVars, focus>>
  \/ focus = "condition" /\ ConditionNext /\ UNCHANGED <<vars, treeVars, focus>>

MCSpec == MCInit /\ [][MCNext]_mcVars /\ (focus = "boot" => Fairness)

\* Second ends, whichever services are skipped, refused or fail: the property of
\* Boot in the behaviours that boot.
SecondEnds == focus = "boot" => BootCompletes

\* The boot alone.
BootSpec == MCInit /\ focus = "boot" /\ [][MCNext]_mcVars
=============================================================================
