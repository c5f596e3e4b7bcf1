----------------------------- MODULE MCEndpoint -----------------------------
(***************************************************************************)
(* Two addresses of one family, and one of the other.                      *)
(***************************************************************************)
EXTENDS Endpoint

CONSTANTS ip1, ip2, ip3

MCFamily == [a \in {ip1, ip2, ip3} |-> IF a = ip3 THEN "IPv6" ELSE "IPv4"]

=============================================================================
