-------------------------- MODULE MCFargateProfile --------------------------
(***************************************************************************)
(* Instances of FargateProfile: which cluster each profile is in.          *)
(***************************************************************************)
EXTENDS FargateProfile

const_OneCluster == [p \in Profiles |-> "C"]
=============================================================================
