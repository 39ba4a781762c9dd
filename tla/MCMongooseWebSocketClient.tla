--------------------- MODULE MCMongooseWebSocketClient ---------------------
(***************************************************************************)
(* Small instances of MongooseWebSocketClient for TLC.                     *)
(***************************************************************************)
EXTENDS MongooseWebSocketClient, TLC

CONSTANTS w1, w2, w3

Symmetric == Permutations(Conns)
=============================================================================
