-------------------------- MODULE MCMongooseHttpBody --------------------------
(***************************************************************************)
(* A small instance of MongooseHttpBody for TLC.  More than three units of *)
(* a body add no way to cut it up that the code could tell from these.     *)
(***************************************************************************)
EXTENDS MongooseHttpBody, TLC

Body(modes, sizes, extras) ==
    [mode : modes, size : sizes, extra : extras]

SmallBodies ==
    Body({"raw"}, 1 .. 4, {0}) \union Body({"multipart"}, 0 .. 3, 0 .. 2)
    \union Body({"streamed"}, 0 .. 3, 0 .. 2) \union Body({"buffered"}, 0 .. 2, 0 .. 2)
=============================================================================
