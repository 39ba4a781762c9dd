-------------------------- MODULE MongooseBodyStream --------------------------
(***************************************************************************)
(* What a handler of a body may count on, be it onUpload() of the server   *)
(* or onBody() of the client: the bytes come in order, without a gap and   *)
(* none of them twice; they come between the begin and the end of a part;  *)
(* the end comes when all of the part has come and not before; and after   *)
(* the last part, or once the transfer has been stopped, nothing comes.    *)
(***************************************************************************)
EXTENDS Naturals

VARIABLES size,   \* bytes in the body
          part,   \* ... and in each of its parts
          heard,  \* bytes handed to the handler
          until,  \* where the part that has begun will end, 0 if none has
          over    \* the transfer is complete, or stopped

vars == <<size, part, heard, until, over>>

Init ==
    /\ size \in Nat \ {0} /\ part \in 1 .. size
    /\ heard = 0 /\ until = 0 /\ over = FALSE

Begin ==
    /\ until = 0 /\ ~over /\ heard < size
    /\ until' = heard + part
    /\ UNCHANGED <<size, part, heard, over>>

\* n more bytes of the part.
Hand(n) ==
    /\ n > 0 /\ heard + n <= until
    /\ heard' = heard + n
    /\ UNCHANGED <<size, part, until, over>>

End ==
    /\ until > 0 /\ heard = until
    /\ until' = 0
    /\ over' = (heard = size)
    /\ UNCHANGED <<size, part, heard>>

\* An upload is answered, a response aborted, or the connection lost.
Stop ==
    /\ ~over
    /\ over' = TRUE /\ until' = 0
    /\ UNCHANGED <<size, part, heard>>

Next == Begin \/ (\E n \in 1 .. size : Hand(n)) \/ End \/ Stop

Spec == Init /\ [][Next]_vars
=============================================================================
