---------------------------- MODULE MCMongooseMdns ----------------------------
(***************************************************************************)
(* A small instance of MongooseMdns for TLC: two connections that may be   *)
(* the listener, as begin() may follow end() before the retired one is     *)
(* freed, two clients that may share a name, and two services, of which    *)
(* one has an instance.                                                    *)
(***************************************************************************)
EXTENDS MongooseMdns, TLC

CONSTANTS l1, l2, c1, c2, peer, i1, s1, s2

OneInstance == i1 :> s1
=============================================================================
