----------------------- MODULE ControlPlaneRefinement -----------------------
(***************************************************************************)
(* ControlPlane implements UpgradeContract: a generation stands for a      *)
(* version, the three deployments for the server and its followers.        *)
(***************************************************************************)
EXTENDS ControlPlane

Followers == {controllerManager, scheduler}

Contract ==
    INSTANCE UpgradeContract
    WITH Follower <- Followers,
         wanted   <- hcp.generation,
         server   <- applied[apiServer],
         follower <- [n \in Followers |-> applied[n]],
         reported <- hcp.version,
         gone     <- ~hcp.exists

\* Outdated reads, lost patches, errors between the three deployments and
\* crashes never move a deployment or the reported version backwards, deploy a
\* follower past the API server, report what is not deployed everywhere, or
\* touch anything for an object that is gone.
KeepsUpgradeContract == Contract!Spec

=============================================================================
