--------------------------- MODULE MCCertificates ---------------------------
(* Certificates for TLC: one certificate of the etcd CA, the others of the *)
(* kubernetes CA.                                                          *)
EXTENDS Certificates

CONSTANTS etcdCA, etcdServer

MCLeafIssuer == [l \in Leaf |-> IF l = etcdServer THEN etcdCA ELSE kubernetes]

=============================================================================
