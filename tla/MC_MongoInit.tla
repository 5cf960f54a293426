---------------------------- MODULE MC_MongoInit ----------------------------
(* The instances of MongoInit that TLC checks.                             *)
EXTENDS MongoInit
CONSTANTS here, there

MCAttempts == [s \in Retried |-> IF s = "initiate" THEN 3 ELSE 2]
=============================================================================
