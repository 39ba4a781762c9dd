------------------------ MODULE MCMongooseHttpServer ------------------------
(***************************************************************************)
(* Small instances of MongooseHttpServer for TLC.                          *)
(***************************************************************************)
EXTENDS MongooseHttpServer, TLC

CONSTANTS e1, e2

Symmetric == Permutations(Endpoints)
=============================================================================
