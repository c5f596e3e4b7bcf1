-------------------------- MODULE MCEtcdMaintenance --------------------------
(* EtcdMaintenance for TLC: status responses on both sides of the 20%      *)
(* threshold, an empty database and one whose counters disagree.           *)
EXTENDS EtcdMaintenance

MCReadings == {[dbSize |-> 10, dbSizeInUse |-> 8], [dbSize |-> 10, dbSizeInUse |-> 7],
               [dbSize |-> 0, dbSizeInUse |-> 0], [dbSize |-> 5, dbSizeInUse |-> 6]}

=============================================================================
