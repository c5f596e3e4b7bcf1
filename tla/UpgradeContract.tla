--------------------------- MODULE UpgradeContract ---------------------------
(***************************************************************************)
(* What the controller promises about Kubernetes versions, without saying  *)
(* how: the version skew policy of Kubernetes, seen from outside.          *)
(*                                                                         *)
(* Users raise the wanted version.  The API server moves towards it, never *)
(* back; the components that talk to it follow, never past it; the         *)
(* reported version follows all of them, never ahead of one.  Once the     *)
(* object is gone nothing is deployed or reported any more.                *)
(***************************************************************************)
EXTENDS Integers

CONSTANT Follower  \* the components that must not be newer than the API server

VARIABLES
    wanted,    \* the version in the specification
    server,    \* the version the API server was deployed with; 0: none
    follower,  \* the version each follower was deployed with
    reported,  \* the version in the status
    gone       \* the object no longer exists

vars == <<wanted, server, follower, reported, gone>>

Init ==
    /\ wanted = 1 /\ server = 0 /\ reported = 0 /\ gone = FALSE
    /\ follower = [f \in Follower |-> 0]

RaiseVersion ==
    /\ ~gone
    /\ wanted' = wanted + 1
    /\ UNCHANGED <<server, follower, reported, gone>>

DeployServer ==
    /\ ~gone
    /\ server' \in server .. wanted
    /\ UNCHANGED <<wanted, follower, reported, gone>>

DeployFollower(f) ==
    /\ ~gone
    /\ \E v \in follower[f] .. server : follower' = [follower EXCEPT ![f] = v]
    /\ UNCHANGED <<wanted, server, reported, gone>>

Report ==
    /\ ~gone
    /\ reported' \in reported .. server
    /\ \A f \in Follower : reported' <= follower[f]
    /\ UNCHANGED <<wanted, server, follower, gone>>

Remove ==
    /\ gone' = TRUE
    /\ UNCHANGED <<wanted, server, follower, reported>>

Next ==
    \/ RaiseVersion \/ DeployServer \/ Report \/ Remove
    \/ \E f \in Follower : DeployFollower(f)

Spec == Init /\ [][Next]_vars

=============================================================================
