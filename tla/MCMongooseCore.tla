--------------------------- MODULE MCMongooseCore ---------------------------
(***************************************************************************)
(* Small instances of MongooseCore for TLC.                                *)
(***************************************************************************)
EXTENDS MongooseCore, TLC

CONSTANTS a, b, c, c1, c2

TwoServers == {<<a, b>>}
OneServer == {<<b>>}
TablesABA == {<<a, b>>, <<b>>}
TablesAll == {<<a, b>>, <<b, a>>, <<a>>, << >>}
ThreeServers == {<<a, b, c>>}
Symmetric == Permutations(Conns)
=============================================================================
