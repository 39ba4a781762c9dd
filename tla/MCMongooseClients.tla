-------------------------- MODULE MCMongooseClients --------------------------
(***************************************************************************)
(* A small instance of MongooseClients for TLC.                            *)
(***************************************************************************)
EXTENDS MongooseClients, TLC

CONSTANTS k1, k2, k3
=============================================================================
