------------------------- MODULE MongooseHttpExchange -------------------------
(***************************************************************************)
(* What the HTTP server promises on one connection, whatever goes on       *)
(* inside it.  The client asks, request after request, without having to   *)
(* wait for the answers; every request is handed to its own endpoint, in   *)
(* order, once, when it has arrived as a whole and the one before it has   *)
(* been answered; a request no endpoint takes with this method is refused  *)
(* and handed to nobody.                                                   *)
(*                                                                         *)
(* A kept-alive connection is wound up at the end: because the answer said *)
(* so, because a request was refused, or because it was idle for too long. *)
(* That starts only when nobody waits for an answer.  From there on, or    *)
(* when the client is gone, what else was asked is at risk: it may be      *)
(* handled although it did not arrive as a whole, and its answer may be    *)
(* lost.  Order and endpoint are kept even then.                           *)
(***************************************************************************)
EXTENDS Naturals, Sequences

CONSTANTS Kinds,   \* requests: records with at least a field "to", the endpoint
          Nobody   \* in field "to": no endpoint takes it with this method

VARIABLES asked,    \* the requests begun by the client
          whole,    \* how many of them have been sent to the last byte
          handled,  \* [req, by]: request number req was handed to endpoint by
          replies,  \* numbers of the requests that were answered
          winding,  \* the server is about to close
          left,     \* the client has closed
          over      \* the connection is closed

vars == <<asked, whole, handled, replies, winding, left, over>>

Last(s) == IF s = << >> THEN 0 ELSE s[Len(s)]
lastHandled == IF handled = << >> THEN 0 ELSE handled[Len(handled)].req
taken == IF lastHandled > Last(replies) THEN lastHandled ELSE Last(replies)
busy == lastHandled > Last(replies)
AtRisk == winding \/ left

Init ==
    /\ asked = << >> /\ whole = 0
    /\ handled = << >> /\ replies = << >>
    /\ winding = FALSE /\ left = FALSE /\ over = FALSE

(* The client *)

Ask(k) ==
    /\ whole = Len(asked)
    /\ asked' = Append(asked, k)
    /\ whole' \in {whole, whole + 1}
    /\ UNCHANGED <<handled, replies, winding, left, over>>

Finish ==
    /\ whole < Len(asked)
    /\ whole' = Len(asked)
    /\ UNCHANGED <<asked, handled, replies, winding, left, over>>

Leave ==
    /\ left' = TRUE
    /\ UNCHANGED <<asked, whole, handled, replies, winding, over>>

(* The server *)

upcoming == taken + 1

Handle ==
    /\ ~busy /\ upcoming <= Len(asked) /\ asked[upcoming].to # Nobody
    /\ AtRisk \/ upcoming <= whole
    /\ handled' = Append(handled, [req |-> upcoming, by |-> asked[upcoming].to])
    /\ \/ UNCHANGED <<replies, winding>>
       \/ replies' = Append(replies, upcoming) /\ winding' \in {winding, TRUE}
    /\ UNCHANGED <<asked, whole, left, over>>

Answer ==
    /\ busy
    /\ replies' = Append(replies, taken)
    /\ winding' \in {winding, TRUE}
    /\ UNCHANGED <<asked, whole, handled, left, over>>

Refuse ==
    /\ ~busy /\ upcoming <= Len(asked) /\ asked[upcoming].to = Nobody
    /\ replies' = Append(replies, upcoming)
    /\ winding' = TRUE
    /\ UNCHANGED <<asked, whole, handled, left, over>>

Wind ==
    /\ ~busy
    /\ winding' = TRUE
    /\ UNCHANGED <<asked, whole, handled, replies, left, over>>

Close ==
    /\ AtRisk
    /\ over' = TRUE
    /\ UNCHANGED <<asked, whole, handled, replies, winding, left>>

Next ==
    \/ \E k \in Kinds : Ask(k)
    \/ Finish \/ Leave
    \/ Handle \/ Answer \/ Refuse \/ Wind \/ Close

Spec == Init /\ [][Next]_vars
=============================================================================
