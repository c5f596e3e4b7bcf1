-------------------------- MODULE MCConfigRollout --------------------------
(***************************************************************************)
(* Instances of ConfigRollout: a control plane whose audit webhook has two *)
(* targets, next to a sibling that mounts one of its Secrets.  One token   *)
(* is mounted as well, the other is watched by nobody.                     *)
(***************************************************************************)
EXTENDS ConfigRollout, TLC

CONSTANTS plane, sibling, shared, issued, token

\* The user mounts one Secret.
OneMount == (plane :> {shared}) @@ (sibling :> {shared})

\* The user mounts two, one of which is the Secret of a Certificate.
TwoMounts == (plane :> {shared, issued}) @@ (sibling :> {shared})

OwnCertificate == issued :> plane
SiblingsCertificate == issued :> sibling
Targets == plane :> ((token :> 1) @@ (shared :> 2))

=============================================================================
