------------------------ MODULE MongooseHttpRefinement ------------------------
(***************************************************************************)
(* A connection of the HTTP server implements MongooseHttpExchange, and it *)
(* never goes deaf, for any number of requests, endpoints and units of the *)
(* send buffer.                                                            *)
(*                                                                         *)
(* The first is proved for clients that use a wrong method at most in      *)
(* their first request, and without a body; with a wrong method in a later *)
(* request, or with a body, the code does something else.  The second is   *)
(* proved for all clients, from an invariant of its own (Heeded).          *)
(*                                                                         *)
(* The invariant of the first says who owns the connection: the object of  *)
(* the request that was handled last, or the one made for the request now  *)
(* in recv.  An owner that has handled its request and not completed it    *)
(* holds is_resp, so the parser stands still; this is what keeps the       *)
(* histories in step with the owner.                                       *)
(***************************************************************************)
EXTENDS MongooseHttpProofs

FewRefusals == Refused \subseteq {"first"}

\* A request that has arrived in part has a body; a refused one is the first.
Shapes ==
    \A m \in 1 .. Len(asked) :
        /\ sent = 2 * m - 1 \/ read = 2 * m - 1 => asked[m].body
        /\ asked[m].to = Nobody => m = 1 /\ ~asked[m].body

Ends ==
    /\ closing => draining \/ leaving
    /\ at \in {"closed", "gone"} => closing

\* The owner is the object of the request in hand or of the one before it.
Answering == owner # 0 /\ owner = done /\ ~completed
Owns ==
    /\ owner # 0 => owner \in {done, done + 1} /\ asked[owner].to # Nobody
    /\ completed => owner # 0 /\ owner = done
    /\ deferred \/ response # NoResponse => Answering
    /\ deferred => response = NoResponse
    /\ Answering => isResp /\ (deferred \/ response # NoResponse)
    /\ isResp => Answering \/ draining \/ closing

InHand ==
    at = "message" =>
        /\ ~isResp
        /\ owner = 0 => replies # << >>
        /\ owner # 0 => owner = done + 1

lastHandled == IF handled = << >> THEN 0 ELSE handled[Len(handled)].req
lastReply == IF replies = << >> THEN 0 ELSE replies[Len(replies)]

\* What was handled and answered, as the owner tells it.
Tally ==
    at # "gone" =>
        /\ owner # 0 =>
             /\ lastHandled = done
             /\ lastReply = (IF Answering THEN done - 1 ELSE done)
        /\ owner = 0 =>
             /\ handled = << >>
             /\ \/ replies = << >> /\ done = 0 /\ ~isResp
                \/ /\ replies = << 1 >> /\ draining
                   /\ isResp \/ at = "message"

Inv == Shapes /\ Ends /\ Owns /\ InHand /\ Tally
-----------------------------------------------------------------------------
(* What the helpers do *)

LEMMA SendBodyEffect ==
    ASSUME TypeOK, NEW size \in 0 .. MaxBody, NEW q \in Nat, NEW resp,
           sendBody(size, q, resp)
    PROVE  \/ /\ completed' = TRUE /\ response' = NoResponse /\ isResp' = FALSE
              /\ draining' = (draining \/ ~keepAlive')
              /\ replies' = Append(replies, owner)
           \/ /\ response' # NoResponse /\ isResp' = resp
              /\ UNCHANGED <<completed, draining, replies>>
<1>1. PICK free \in Free(q) :
          LET n == IF size < free THEN size ELSE free
          IN  /\ queued' = q + n
              /\ IF n < free
                 THEN response' = NoResponse /\ completeRequest
                 ELSE /\ response' = size - n /\ isResp' = resp
                      /\ UNCHANGED <<completed, idle, draining, replies>>
  BY DEF sendBody
<1>2. free \in Nat
  BY BoundsAssumption DEF Free
<1>3. CASE size < free
  BY <1>1, <1>3 DEF completeRequest
<1>4. CASE ~(size < free)
  BY <1>1, <1>2, <1>4, BoundsAssumption DEF NoResponse
<1> QED
  BY <1>3, <1>4

LEMMA ReplyEffect ==
    ASSUME TypeOK, response = NoResponse, NEW resp, Reply(resp)
    PROVE  /\ owner' = owner /\ deferred' = FALSE
           /\ \/ /\ completed' = TRUE /\ response' = NoResponse /\ isResp' = FALSE
                 /\ draining' = (draining \/ ~keepAlive')
                 /\ replies' = Append(replies, owner)
              \/ /\ response' # NoResponse /\ isResp' = resp
                 /\ UNCHANGED <<completed, draining, replies>>
<1>1. CASE sendSimple
  BY <1>1 DEF Reply, sendSimple, completeRequest
<1>2. CASE sendResponse(resp)
  <2>1. PICK size \in 0 .. MaxBody : sendBody(size, queued + 1, resp)
    BY <1>2 DEF sendResponse
  <2>2. queued + 1 \in Nat
    BY DEF TypeOK, BufferOK
  <2> QED
    BY <2>1, <2>2, SendBodyEffect DEF Reply
<1> QED
  BY <1>1, <1>2 DEF Reply

LEMMA HandlePollEffect ==
    ASSUME TypeOK, NEW q \in Nat, handlePoll(q)
    PROVE  /\ UNCHANGED <<owner, deferred, handled>>
           /\ \/ /\ response # NoResponse /\ completed' = TRUE
                 /\ response' = NoResponse /\ isResp' = FALSE
                 /\ draining' = (draining \/ ~keepAlive')
                 /\ replies' = Append(replies, owner)
              \/ /\ response # NoResponse /\ response' # NoResponse
                 /\ UNCHANGED <<completed, draining, replies, isResp>>
              \/ /\ UNCHANGED <<response, completed, isResp, replies>>
                 /\ draining' = draining \/ (draining' = TRUE /\ completed)
<1>1. UNCHANGED <<owner, deferred, handled>>
  BY DEF handlePoll
<1>2. CASE response # NoResponse /\ sendBody(response, q, isResp)
  <2>1. response \in 0 .. MaxBody
    BY <1>2 DEF TypeOK, ObjectOK
  <2> QED
    BY <1>1, <1>2, <2>1, SendBodyEffect
<1>3. CASE /\ draining' = (draining \/ (owner # 0 /\ Reaps(q)))
           /\ UNCHANGED <<response, completed, isResp, replies>>
  BY <1>1, <1>3 DEF Reaps, TypeOK, BufferOK, ObjectOK
<1> QED
  BY <1>2, <1>3 DEF handlePoll

LEMMA AppendLast ==
    ASSUME NEW S, NEW s \in Seq(S), NEW x \in S
    PROVE  /\ Append(s, x) # << >>
           /\ Append(s, x)[Len(Append(s, x))] = x
           /\ Len(Append(s, x)) = Len(s) + 1
           /\ \A i \in 1 .. Len(s) : Append(s, x)[i] = s[i]
OBVIOUS
-----------------------------------------------------------------------------
(* The invariant *)

LEMMA InvInit == Init => Inv
<1> SUFFICES ASSUME Init PROVE Inv
  OBVIOUS
<1>1. Len(asked) = 0
  BY EmptySeq DEF Init
<1>2. Shapes
  BY <1>1 DEF Shapes
<1>3. Ends /\ Owns /\ InHand /\ Tally
  BY DEF Init, Ends, Owns, Answering, InHand, Tally, lastHandled, lastReply
<1> QED
  BY <1>2, <1>3 DEF Inv

LEMMA ShapesStep ==
    ASSUME FewRefusals, TypeOK, Numbers, Parsing, Inv, [Next]_vars
    PROVE  Shapes'
<1>1. CASE \E k \in Kinds : Ask(k)
  <2>1. PICK k \in Kinds : Ask(k)
    BY <1>1
  <2>2. /\ Len(asked) \in Nat /\ Len(asked') = Len(asked) + 1
        /\ asked'[Len(asked')] = k
        /\ \A m \in 1 .. Len(asked) : asked'[m] = asked[m]
    BY <2>1, AppendLast DEF Ask, TypeOK, ClientOK
  <2>3. /\ sent = 2 * Len(asked) /\ read' = read /\ read <= sent
        /\ sent' = sent + (IF k.body THEN 1 ELSE 2)
    BY <2>1, <2>2 DEF Ask, Numbers, TypeOK, ClientOK, BufferOK
  <2>4. k.to = Nobody => asked = << >> /\ ~k.body
    BY <2>1 DEF Ask, MayAsk, FewRefusals
  <2>5. asked = << >> => Len(asked) = 0
    BY EmptySeq
  <2>6. SUFFICES ASSUME NEW m \in 1 .. Len(asked')
                 PROVE  /\ sent' = 2 * m - 1 \/ read' = 2 * m - 1 => asked'[m].body
                        /\ asked'[m].to = Nobody => m = 1 /\ ~asked'[m].body
    BY DEF Shapes
  <2>7. CASE m = Len(asked')
    <3>1. sent' = 2 * m - 1 => k.body
      BY <2>2, <2>3, <2>7
    <3>2. read' # 2 * m - 1
      BY <2>2, <2>3, <2>7 DEF TypeOK, BufferOK
    <3> QED
      BY <2>2, <2>4, <2>5, <2>7, <3>1, <3>2
  <2>8. CASE m \in 1 .. Len(asked)
    <3>1. sent' # 2 * m - 1
      BY <2>2, <2>3, <2>8
    <3> QED
      BY <2>2, <2>3, <2>8, <3>1 DEF Inv, Shapes
  <2> QED
    BY <2>2, <2>7, <2>8
<1>2. CASE SendBodyOfRequest
  BY <1>2 DEF SendBodyOfRequest, Inv, Shapes, Numbers, TypeOK, ClientOK
<1>3. CASE ReadConn
  <2>1. read' = read \/ read' = sent
    BY <1>3 DEF ReadConn
  <2> QED
    BY <1>3, <2>1 DEF ReadConn, clientVars, Inv, Shapes
<1>4. CASE Message
  <2>1. read' = read \/ read' = 2 * (done + 1)
    BY <1>4 DEF Message, request
  <2>2. \A m \in 1 .. Len(asked) : read' = 2 * m - 1 => read = 2 * m - 1
    BY <2>1 DEF TypeOK, BufferOK
  <2> QED
    BY <1>4, <2>2 DEF Message, clientVars, Inv, Shapes
<1>5. CASE /\ UNCHANGED <<asked, sent, read>>
  BY <1>5 DEF Inv, Shapes
<1> QED
  BY <1>1, <1>2, <1>3, <1>4, <1>5
     DEF Next, Client, Server, Leave, Tick, DeferredReply, Visit, Poll, WriteConn,
         EndVisit, handleClose, NothingToParse, Headers, clientVars, vars

\* While is_resp is clear nobody is answering.
LEMMA Quiet ==
    ASSUME Owns, ~isResp
    PROVE  ~Answering /\ ~deferred /\ response = NoResponse
BY DEF Owns

\* Headers that are matched follow a request that is done with.
LEMMA Fresh ==
    ASSUME TypeOK, Inv, at = "parse", ~isResp, Matches
    PROVE  /\ lastHandled = done /\ lastReply = done
           /\ owner = 0 => handled = << >> /\ replies = << >> /\ done = 0
<1>1. CASE owner = 0
  BY <1>1 DEF Inv, Tally, lastHandled, lastReply
<1>2. CASE owner # 0
  BY <1>2, Quiet DEF Inv, Tally, Matches
<1> QED
  BY <1>1, <1>2

\* The only refusal is that of the first request, by the server itself.
LEMMA RefusedFirst ==
    ASSUME TypeOK, Numbers, Inv, at = "parse", ~isResp, Buffered, RefuseMethod
    PROVE  /\ owner = 0 /\ done = 0 /\ request = 1
           /\ handled = << >> /\ replies = << >> /\ Complete
<1>1. request \in 1 .. Len(asked) /\ request = done + 1
  BY RequestInRange DEF TypeOK, request
<1>2. request = 1 /\ ~asked[1].body
  BY <1>1 DEF RefuseMethod, Inv, Shapes
<1>3. done = 0
  BY <1>1, <1>2 DEF TypeOK, BufferOK
<1>4. owner = 0
  BY <1>3 DEF RefuseMethod, Matches, Inv, Owns
<1>5. read # 1
  BY <1>1, <1>2 DEF Inv, Shapes
<1>6. Complete
  BY <1>2, <1>3, <1>5 DEF Buffered, Complete, TypeOK, BufferOK
<1> QED
  BY <1>2, <1>3, <1>4, <1>6, Fresh DEF RefuseMethod

LEMMA RepliesAppend ==
    ASSUME HistoriesOK, NEW x \in Nat, replies' = Append(replies, x)
    PROVE  lastReply' = x /\ replies' # << >>
BY AppendLast DEF HistoriesOK, lastReply

\* What an event of the owner, or an answer, does to the connection.
LEMMA OwnerActs ==
    ASSUME TypeOK, Inv,
           \/ DeferredReply
           \/ \E q \in Nat : handlePoll(q)
    PROVE  /\ UNCHANGED <<owner, handled>>
           /\ draining => draining'
           /\ \/ /\ Answering /\ completed' = TRUE /\ deferred' = FALSE
                 /\ response' = NoResponse /\ isResp' = FALSE
                 /\ replies' = Append(replies, owner)
              \/ /\ Answering /\ response' # NoResponse /\ deferred' = FALSE
                 /\ UNCHANGED <<completed, isResp, draining, replies>>
              \/ /\ UNCHANGED <<response, completed, isResp, replies, deferred>>
                 /\ draining' = draining \/ (draining' = TRUE /\ completed)
<1>1. CASE DeferredReply
  <2>1. Answering /\ response = NoResponse
    BY <1>1 DEF DeferredReply, Inv, Owns
  <2>2. Reply(isResp) /\ UNCHANGED handled
    BY <1>1 DEF DeferredReply
  <2> QED
    BY <2>1, <2>2, ReplyEffect
<1>2. CASE \E q \in Nat : handlePoll(q)
  <2>1. PICK q \in Nat : handlePoll(q)
    BY <1>2
  <2>2. response # NoResponse => Answering /\ deferred = FALSE
    BY DEF Inv, Owns, TypeOK, ObjectOK
  <2>3. /\ UNCHANGED <<owner, deferred, handled>>
        /\ \/ /\ response # NoResponse /\ completed' = TRUE
              /\ response' = NoResponse /\ isResp' = FALSE
              /\ draining' = (draining \/ ~keepAlive')
              /\ replies' = Append(replies, owner)
           \/ /\ response # NoResponse /\ response' # NoResponse
              /\ UNCHANGED <<completed, draining, replies, isResp>>
           \/ /\ UNCHANGED <<response, completed, isResp, replies>>
              /\ draining' = draining \/ (draining' = TRUE /\ completed)
    BY <2>1, HandlePollEffect
  <2>4. draining => draining'
    BY <2>3
  <2>5. CASE response = NoResponse
    BY <2>3, <2>4, <2>5
  <2>6. CASE response # NoResponse
    <3>1. Answering /\ deferred' = FALSE
      BY <2>2, <2>3, <2>6
    <3> QED
      BY <2>3, <2>4, <3>1
  <2> QED
    BY <2>5, <2>6
<1> QED
  BY <1>1, <1>2

LEMMA PollsOwner ==
    ASSUME TypeOK, Poll \/ WriteConn
    PROVE  \/ \E q \in Nat : handlePoll(q)
           \/ UNCHANGED <<isResp, draining, objectVars, histories>>
BY DEF Poll, WriteConn, TypeOK, BufferOK

LEMMA EndsStep ==
    ASSUME TypeOK, Parsing, Inv, [Next]_vars
    PROVE  Ends'
<1>0. AfterEvent[ev] = "closed" => closing
  BY DEF Parsing, AfterEvent, TypeOK, VisitOK, Events
<1>1. CASE Poll \/ WriteConn
  <2>1. draining => draining'
    BY <1>1, PollsOwner, OwnerActs
  <2>2. closing' => closing \/ leaving
    BY <1>1 DEF Poll, WriteConn
  <2>3. at' \notin {"closed", "gone"} /\ leaving' = leaving
    BY <1>1 DEF Poll, WriteConn, clientVars
  <2> QED
    BY <2>1, <2>2, <2>3 DEF Inv, Ends
<1>2. CASE DeferredReply
  BY <1>2, OwnerActs DEF DeferredReply, clientVars, visitVars, Inv, Ends
<1>3. CASE Message
  <2>1. draining => draining'
    BY <1>3, ReplyEffect DEF Message, Handler, Reply, sendSimple, sendResponse,
        completeRequest, sendBody, ServerIgnores
  <2> QED
    BY <1>0, <1>3, <2>1 DEF Message, clientVars, Inv, Ends, AfterEvent,
        TypeOK, VisitOK, Events
<1>4. CASE Headers
  <2>1. draining => draining'
    BY <1>4 DEF Headers, Install, RefuseMethod, Ignore
  <2>2. at = "parse" /\ (at' = "message" \/ at' = AfterEvent[ev])
    BY <1>4 DEF Headers
  <2>3. at' # "gone"
    BY <2>2 DEF AfterEvent, TypeOK, VisitOK, Events
  <2> QED
    BY <1>0, <1>4, <2>1, <2>2, <2>3 DEF Headers, clientVars, Inv, Ends
<1>5. CASE NothingToParse
  BY <1>0, <1>5 DEF NothingToParse, clientVars, Inv, Ends, AfterEvent,
      TypeOK, VisitOK, Events
<1>6. CASE ReadConn \/ EndVisit \/ handleClose \/ Visit
  <2>1. draining' = draining /\ leaving' = leaving
    BY <1>6 DEF ReadConn, EndVisit, handleClose, Visit, clientVars
  <2>2. closing' => closing \/ draining \/ leaving
    BY <1>6 DEF ReadConn, EndVisit, handleClose, Visit
  <2>3. at' = "closed" \/ at' = "gone" => at = "closed" /\ closing' = closing
    BY <1>6 DEF ReadConn, EndVisit, handleClose, Visit
  <2> QED
    BY <2>1, <2>2, <2>3 DEF Inv, Ends
<1>7. CASE Client \/ Tick \/ UNCHANGED vars
  BY <1>7 DEF Client, Ask, SendBodyOfRequest, Leave, Tick, vars, clientVars,
      visitVars, Inv, Ends
<1> QED
  BY <1>1, <1>2, <1>3, <1>4, <1>5, <1>6, <1>7 DEF Next, Server

\* What MG_EV_HTTP_MSG does: the owner takes the request, or nobody does.
LEMMA MessageActs ==
    ASSUME TypeOK, Parsing, Inv, Message
    PROVE  /\ owner' = owner /\ done' = done + 1
           /\ draining => draining'
           /\ \/ /\ owner = 0 /\ isResp' = TRUE
                 /\ UNCHANGED <<completed, response, deferred, draining>>
                 /\ UNCHANGED <<handled, replies>>
              \/ /\ owner = done + 1 /\ ~completed /\ ~Answering
                 /\ handled' = Append(handled, [req |-> request,
                                                by |-> asked[owner].to])
                 /\ \/ /\ completed' = TRUE /\ deferred' = FALSE
                       /\ response' = NoResponse /\ isResp' = FALSE
                       /\ replies' = Append(replies, owner)
                    \/ /\ response' # NoResponse /\ deferred' = FALSE
                       /\ isResp' = TRUE
                       /\ UNCHANGED <<completed, draining, replies>>
                    \/ /\ response' = NoResponse /\ deferred' = TRUE
                       /\ isResp' = TRUE
                       /\ UNCHANGED <<completed, draining, replies>>
<1>1. done' = done + 1 /\ at = "message"
  BY DEF Message, request
<1>2. CASE ServerIgnores
  BY <1>1, <1>2 DEF ServerIgnores, objectVars, histories
<1>3. CASE Handler
  <2>1. owner = done + 1 /\ ~isResp
    BY <1>1, <1>3 DEF Handler, Inv, InHand
  <2>2. owner # done
    BY <2>1 DEF TypeOK, BufferOK
  <2>3. ~completed /\ ~Answering /\ response = NoResponse
    BY <2>1, <2>2, Quiet DEF Inv, Owns
  <2>4. handled' = Append(handled, [req |-> request, by |-> asked[owner].to])
    BY <1>3 DEF Handler
  <2>5. CASE Reply(TRUE)
    BY <1>1, <2>1, <2>3, <2>4, <2>5, ReplyEffect
  <2>6. CASE /\ deferred' = TRUE /\ isResp' = TRUE
             /\ UNCHANGED <<owner, keepAlive, completed, response, idle>>
             /\ UNCHANGED <<queued, draining, replies>>
    BY <1>1, <2>1, <2>3, <2>4, <2>6
  <2> QED
    BY <1>3, <2>5, <2>6 DEF Handler
<1> QED
  BY <1>2, <1>3 DEF Message

LEMMA OwnsStep ==
    ASSUME FewRefusals, TypeOK, Numbers, Parsing, Inv, [Next]_vars
    PROVE  Owns'
<1> USE DEF Owns, Answering
<1>0. Owns /\ done \in Nat
  BY DEF Inv, TypeOK, BufferOK
<1>1. CASE \E k \in Kinds : Ask(k)
  <2>1. PICK k \in Kinds : Ask(k)
    BY <1>1
  <2>2. \A m \in 1 .. Len(asked) : asked'[m] = asked[m]
    BY <2>1, AppendLast DEF Ask, TypeOK, ClientOK
  <2>3. owner # 0 => owner \in 1 .. Len(asked)
    BY DEF TypeOK, ObjectOK, ClientOK
  <2> QED
    BY <1>0, <2>1, <2>2, <2>3 DEF Ask, objectVars
<1>2. CASE DeferredReply \/ ((Poll \/ WriteConn) /\ \E q \in Nat : handlePoll(q))
  <2>1. UNCHANGED <<asked, done, closing>> \/ WriteConn
    BY <1>2 DEF DeferredReply, Poll, clientVars
  <2>2. UNCHANGED <<asked, done>> /\ (closing => closing')
    BY <1>2, <2>1 DEF WriteConn, clientVars, TypeOK, BufferOK, VisitOK
  <2>3. asked'[owner] = asked[owner] /\ done' = done
    BY <2>2
  <2>4. /\ owner' = owner
        /\ draining => draining'
        /\ \/ /\ Answering /\ completed' = TRUE /\ deferred' = FALSE
              /\ response' = NoResponse /\ isResp' = FALSE
           \/ /\ Answering /\ response' # NoResponse /\ deferred' = FALSE
              /\ UNCHANGED <<completed, isResp>>
           \/ UNCHANGED <<response, completed, isResp, deferred>>
    BY <1>2, OwnerActs
  <2> QED
    BY <1>0, <2>2, <2>3, <2>4
<1>3. CASE (Poll \/ WriteConn) /\ UNCHANGED <<isResp, draining, objectVars, histories>>
  BY <1>0, <1>3 DEF Poll, WriteConn, objectVars, clientVars, TypeOK, BufferOK, VisitOK
<1>4. CASE Headers
  <2>1. ~isResp /\ UNCHANGED <<asked, done, closing>>
    BY <1>4 DEF Headers, clientVars
  <2>2. ~Answering /\ ~deferred /\ response = NoResponse
    BY <1>0, <2>1, Quiet
  <2>3. CASE Install
    <3>1. owner' = done + 1 /\ owner' # 0 /\ asked'[owner'].to # Nobody
      BY <1>0, <2>1, <2>3 DEF Install, request
    <3> QED
      BY <1>0, <2>1, <2>3, <3>1 DEF Install
  <2>4. CASE RefuseMethod
    BY <1>0, <2>1, <2>2, <2>4 DEF RefuseMethod, objectVars
  <2>5. CASE Ignore
    BY <1>0, <2>1, <2>2, <2>5 DEF Ignore, objectVars
  <2> QED
    BY <1>4, <2>3, <2>4, <2>5 DEF Headers
<1>5. CASE Message
  <2>1. asked' = asked /\ closing' = closing
    BY <1>5 DEF Message, clientVars
  <2>2. owner = 0 => draining
    BY <1>5 DEF Message, Inv, InHand, Tally
  <2>3. completed \in BOOLEAN
    BY DEF TypeOK, ObjectOK
  <2>4. /\ owner' = owner /\ done' = done + 1
        /\ draining => draining'
        /\ \/ /\ owner = 0 /\ UNCHANGED <<completed, response, deferred>>
           \/ /\ owner = done + 1 /\ completed' = TRUE /\ deferred' = FALSE
              /\ response' = NoResponse /\ isResp' = FALSE
           \/ /\ owner = done + 1 /\ isResp' = TRUE
              /\ completed' = FALSE
              /\ \/ response' # NoResponse /\ deferred' = FALSE
                 \/ response' = NoResponse /\ deferred' = TRUE
    BY <1>5, <2>3, MessageActs
  <2>5. asked'[owner] = asked[owner]
    BY <2>1
  <2> QED
    BY <1>0, <2>1, <2>2, <2>4, <2>5
<1>6. CASE handleClose
  <2>1. closing
    BY <1>6 DEF handleClose, Inv, Ends
  <2> QED
    BY <1>6, <2>1 DEF handleClose
<1>7. CASE ReadConn \/ EndVisit \/ Visit \/ NothingToParse
  <2>1. UNCHANGED <<asked, done, owner, completed, response, deferred, isResp, draining>>
    BY <1>7 DEF ReadConn, EndVisit, Visit, NothingToParse, clientVars, objectVars
  <2>2. closing => closing'
    BY <1>7 DEF ReadConn, EndVisit, Visit, NothingToParse
  <2> QED
    BY <1>0, <2>1, <2>2
<1>8. CASE SendBodyOfRequest \/ Leave \/ Tick \/ UNCHANGED vars
  BY <1>0, <1>8 DEF SendBodyOfRequest, Leave, Tick, vars, clientVars, objectVars
<1>9. CASE Poll \/ WriteConn
  BY <1>2, <1>3, <1>9, PollsOwner
<1> QED
  BY <1>1, <1>2, <1>4, <1>5, <1>6, <1>7, <1>8, <1>9 DEF Next, Client, Server

LEMMA InHandStep ==
    ASSUME FewRefusals, TypeOK, Numbers, Parsing, Inv, [Next]_vars
    PROVE  InHand'
<1>0. InHand /\ Owns
  BY DEF Inv
<1>1. CASE Client \/ Tick \/ UNCHANGED vars
  BY <1>0, <1>1 DEF Client, Ask, SendBodyOfRequest, Leave, Tick, vars, clientVars,
      objectVars, visitVars, histories, InHand
<1>2. CASE Headers /\ at' = "message"
  <2>1. at = "parse" /\ ~isResp /\ Buffered /\ done' = done
    BY <1>2 DEF Headers
  <2>2. CASE Install
    <3>1. owner' = done + 1 /\ done' = done /\ isResp' = isResp
      BY <2>1, <2>2 DEF Install, request
    <3>2. owner' # 0
      BY <3>1 DEF TypeOK, BufferOK
    <3> QED
      BY <2>1, <3>1, <3>2 DEF InHand
  <2>3. CASE RefuseMethod
    <3>1. owner' = 0 /\ isResp' = FALSE /\ replies' = Append(replies, request)
      BY <2>1, <2>3, RefusedFirst DEF RefuseMethod, objectVars
    <3>2. replies' # << >>
      BY <2>1, <2>3, <3>1, RefusedFirst, RepliesAppend DEF TypeOK
    <3> QED
      BY <3>1, <3>2 DEF InHand
  <2>4. CASE Ignore
    <3>1. owner # 0 /\ ~completed /\ UNCHANGED <<isResp, owner>>
      BY <2>4 DEF Ignore, Matches, objectVars
    <3>2. owner # done
      BY <2>1, <3>1, Quiet, <1>0 DEF Answering
    <3> QED
      BY <1>0, <2>1, <3>1, <3>2 DEF InHand, Owns
  <2> QED
    BY <1>2, <2>2, <2>3, <2>4 DEF Headers
<1>3. CASE at' # "message"
  BY <1>3 DEF InHand
<1>4. AfterEvent[ev] # "message"
  BY DEF AfterEvent, TypeOK, VisitOK, Events
<1>5. DeferredReply \/ Visit \/ Poll \/ ReadConn \/ WriteConn \/ EndVisit
      \/ handleClose \/ NothingToParse \/ Message => at' # "message"
  BY <1>4 DEF DeferredReply, Visit, Poll, ReadConn, WriteConn, EndVisit,
      handleClose, NothingToParse, Message, visitVars
<1> QED
  BY <1>1, <1>2, <1>3, <1>5 DEF Next, Server

LEMMA TallyStep ==
    ASSUME FewRefusals, TypeOK, Numbers, Parsing, Inv, [Next]_vars
    PROVE  Tally'
<1>0. Tally /\ Owns /\ done \in Nat
  BY DEF Inv, TypeOK, BufferOK
<1>1. CASE UNCHANGED <<handled, replies, owner, done, completed, isResp, draining>>
           /\ (at' = "message" <=> at = "message") /\ at # "gone"
  BY <1>0, <1>1 DEF Tally, Answering, lastHandled, lastReply
<1>2. CASE DeferredReply \/ ((Poll \/ WriteConn) /\ \E q \in Nat : handlePoll(q))
  <2>1. done' = done /\ at \notin {"message", "gone"}
    BY <1>2 DEF DeferredReply, Poll, WriteConn
  <2>2. UNCHANGED <<owner, handled>> /\ lastHandled' = lastHandled
    BY <1>2, OwnerActs DEF lastHandled
  <2>3. CASE Answering /\ completed' = TRUE /\ replies' = Append(replies, owner)
    <3>1. lastReply' = owner
      BY <2>3, RepliesAppend DEF TypeOK, HistoriesOK, ObjectOK
    <3>2. owner = done /\ owner # 0 /\ ~Answering'
      BY <2>3 DEF Answering
    <3> QED
      BY <1>0, <2>1, <2>2, <3>1, <3>2 DEF Tally
  <2>4. CASE UNCHANGED <<completed, isResp, replies>> /\ (draining => draining')
    <3>1. lastReply' = lastReply /\ Answering' = Answering
      BY <2>1, <2>2, <2>4 DEF lastReply, Answering
    <3> QED
      BY <1>0, <2>1, <2>2, <2>4, <3>1 DEF Tally
  <2> QED
    BY <1>2, <2>3, <2>4, OwnerActs
<1>3. CASE Headers
  <2>1. at = "parse" /\ ~isResp /\ Buffered /\ UNCHANGED <<done, handled>>
    BY <1>3 DEF Headers
  <2>2. lastHandled' = lastHandled
    BY <2>1 DEF lastHandled
  <2>3. CASE Install
    <3>1. lastHandled = done /\ lastReply = done
      BY <2>1, <2>3, Fresh DEF Install
    <3>2. lastReply' = lastReply /\ owner' = done + 1
      BY <2>3 DEF Install, lastReply, request
    <3>3. owner' # 0 /\ ~Answering'
      BY <1>0, <2>1, <3>2 DEF Answering
    <3> QED
      BY <2>1, <2>2, <3>1, <3>2, <3>3 DEF Tally
  <2>4. CASE RefuseMethod
    <3>1. /\ owner = 0 /\ done = 0 /\ request = 1
          /\ handled = << >> /\ replies = << >> /\ Complete
      BY <2>1, <2>4, RefusedFirst
    <3>2. owner' = 0 /\ handled' = << >> /\ draining' = TRUE /\ at' = "message"
      BY <1>3, <2>1, <2>4, <3>1 DEF Headers, RefuseMethod, objectVars
    <3>3. replies' = << 1 >>
      BY <2>4, <3>1 DEF RefuseMethod
    <3> QED
      BY <3>2, <3>3 DEF Tally
  <2>5. CASE Ignore
    <3>1. owner # 0 /\ UNCHANGED <<owner, completed, replies>>
      BY <2>5 DEF Ignore, Matches, objectVars
    <3> QED
      BY <1>0, <2>1, <2>2, <3>1 DEF Tally, Answering, lastReply
  <2> QED
    BY <1>3, <2>3, <2>4, <2>5 DEF Headers
<1>4. CASE Message
  <2>1. at = "message" /\ owner' = owner /\ done' = done + 1
    BY <1>4, MessageActs DEF Message
  <2>2. CASE /\ owner = 0 /\ isResp' = TRUE
             /\ UNCHANGED <<draining, handled, replies>>
    BY <1>0, <2>1, <2>2 DEF Tally, Inv, InHand
  <2>3. CASE /\ owner = done + 1 /\ ~completed /\ ~Answering
             /\ handled' = Append(handled, [req |-> request, by |-> asked[owner].to])
    <3>1. lastHandled' = done'
      <4> DEFINE h == [req |-> request, by |-> asked[owner].to]
      <4>1. owner \in 1 .. Len(asked) /\ request \in Nat /\ request = done + 1
        BY <1>0, <2>3 DEF TypeOK, ObjectOK, ClientOK, request
      <4>2. h \in [req : Nat, by : Endpoints \union {Nobody}]
        BY <4>1, KindsType DEF TypeOK
      <4> DEFINE R == [req : Nat, by : Endpoints \union {Nobody}]
      <4>4. handled \in Seq(R) /\ h \in R /\ handled' = Append(handled, h)
        BY <2>3, <4>2 DEF TypeOK, HistoriesOK
      <4> HIDE DEF h, R
      <4>5. handled' # << >> /\ handled'[Len(handled')] = h
        BY <4>4, AppendLast
      <4>3. handled' # << >> /\ handled'[Len(handled')].req = request
        BY <4>5 DEF h
      <4> QED
        BY <2>1, <4>1, <4>3 DEF lastHandled
    <3>2. lastReply = done
      BY <1>0, <2>1, <2>3 DEF Tally
    <3>3. CASE completed' = TRUE /\ replies' = Append(replies, owner)
      <4>1. lastReply' = owner /\ ~Answering'
        BY <3>3, RepliesAppend DEF TypeOK, HistoriesOK, ObjectOK, Answering
      <4> QED
        BY <1>0, <2>1, <2>3, <3>1, <4>1 DEF Tally
    <3>4. CASE UNCHANGED <<completed, replies>>
      <4>1. lastReply' = done /\ Answering'
        BY <1>0, <2>1, <2>3, <3>2, <3>4 DEF Answering, lastReply
      <4> QED
        BY <1>0, <2>1, <2>3, <3>1, <4>1 DEF Tally
    <3> QED
      BY <1>4, <2>3, <3>3, <3>4, MessageActs
  <2> QED
    BY <1>4, <2>2, <2>3, MessageActs
<1>5. CASE handleClose
  BY <1>5 DEF handleClose, Tally
<1>6. CASE UNCHANGED vars
  BY <1>0, <1>6 DEF vars, Tally, Answering, lastHandled, lastReply
<1>7. CASE Client \/ Tick
  BY <1>1, <1>7 DEF Client, Ask, SendBodyOfRequest, Leave, Tick, clientVars,
      objectVars, visitVars, histories
<1>8. AfterEvent[ev] # "message"
  BY DEF AfterEvent, TypeOK, VisitOK, Events
<1>9. CASE Visit \/ ReadConn \/ EndVisit \/ NothingToParse
           \/ ((Poll \/ WriteConn) /\ UNCHANGED <<isResp, draining, objectVars, histories>>)
  BY <1>1, <1>8, <1>9 DEF Visit, ReadConn, EndVisit, NothingToParse, Poll, WriteConn,
      clientVars, objectVars, histories
<1> QED
  BY <1>2, <1>3, <1>4, <1>5, <1>6, <1>7, <1>9, PollsOwner DEF Next, Server

LEMMA InvStep ==
    ASSUME FewRefusals, TypeOK, Numbers, Parsing, Inv, [Next]_vars
    PROVE  Inv'
BY ShapesStep, EndsStep, OwnsStep, InHandStep, TallyStep DEF Inv
-----------------------------------------------------------------------------
(* The promise of MongooseHttpExchange *)

\* The two ways to say what was done last agree.
LEMMA ExchangeState ==
    ASSUME TypeOK, Inv, at # "gone"
    PROVE  /\ Exchange!lastHandled = lastHandled
           /\ Exchange!Last(replies) = lastReply
           /\ owner # 0 => Exchange!taken = done /\ (Exchange!busy <=> Answering)
           /\ owner = 0 => ~Exchange!busy
           /\ owner = 0 /\ replies = << >> => Exchange!taken = 0
<1>1. Exchange!lastHandled = lastHandled /\ Exchange!Last(replies) = lastReply
  BY DEF Exchange!lastHandled, Exchange!Last, lastHandled, lastReply
<1>2. owner # 0 => Exchange!taken = done /\ (Exchange!busy <=> Answering)
  BY <1>1 DEF Exchange!taken, Exchange!busy, Inv, Tally, TypeOK, BufferOK
<1>3. owner = 0 => ~Exchange!busy
  BY <1>1 DEF Exchange!busy, Inv, Tally, lastHandled, lastReply
<1>4. owner = 0 /\ replies = << >> => Exchange!taken = 0
  BY <1>1 DEF Exchange!taken, Inv, Tally, lastHandled, lastReply
<1> QED
  BY <1>1, <1>2, <1>3, <1>4

LEMMA ExchangeInit == Init => Exchange!Init
<1> SUFFICES ASSUME Init PROVE Exchange!Init
  OBVIOUS
<1>1. whole = 0
  BY DEF Init, whole
<1> QED
  BY <1>1 DEF Init, Exchange!Init

LEMMA ExchangeStep ==
    ASSUME FewRefusals, TypeOK, Numbers, Parsing, Inv, [Next]_vars
    PROVE  [Exchange!Next]_(Exchange!vars)
<1> DEFINE Same == UNCHANGED <<asked, sent, handled, replies, draining, leaving, closing>>
<1>0. Same => UNCHANGED Exchange!vars
  BY DEF Exchange!vars, whole
<1>1. CASE \E k \in Kinds : Ask(k)
  <2>1. PICK k \in Kinds : Ask(k)
    BY <1>1
  <2>2. whole = Len(asked)
    BY <2>1 DEF Ask, whole, TypeOK, ClientOK
  <2>3. whole' \in {whole, whole + 1}
    BY <2>1 DEF Ask, whole, TypeOK, ClientOK
  <2> QED
    BY <2>1, <2>2, <2>3 DEF Ask, histories, Exchange!Ask, Exchange!Next
<1>2. CASE SendBodyOfRequest
  <2>1. sent = 2 * Len(asked) - 1 /\ sent' = sent + 1 /\ asked' = asked
    BY <1>2 DEF SendBodyOfRequest, Numbers, TypeOK, ClientOK
  <2>2. whole < Len(asked) /\ whole' = Len(asked)
    BY <2>1 DEF whole, TypeOK, ClientOK
  <2> QED
    BY <1>2, <2>2 DEF SendBodyOfRequest, histories, Exchange!Finish, Exchange!Next
<1>3. CASE Leave
  BY <1>3 DEF Leave, histories, whole, Exchange!Leave, Exchange!Next
<1>4. CASE Tick \/ Visit \/ NothingToParse \/ handleClose \/ UNCHANGED vars
  BY <1>0, <1>4 DEF Tick, Visit, NothingToParse, handleClose, clientVars, histories, vars
<1>5. CASE /\ at # "gone" /\ UNCHANGED <<asked, sent, leaving, closing>>
           /\ DeferredReply \/ \E q \in Nat : handlePoll(q)
  <2>1. handled' = handled /\ whole' = whole
    BY <1>5, OwnerActs DEF whole
  <2>2. CASE Answering /\ replies' = Append(replies, owner)
    <3>1. owner # 0 /\ owner = done
      BY <2>2 DEF Answering
    <3>2. Exchange!busy /\ Exchange!taken = owner
      BY <1>5, <2>2, <3>1, ExchangeState
    <3>3. draining' \in {draining, TRUE}
      BY <1>5, OwnerActs, TypeStep DEF TypeOK, BufferOK
    <3> QED
      BY <1>5, <2>1, <2>2, <3>2, <3>3 DEF Exchange!Answer, Exchange!Next
  <2>3. CASE UNCHANGED <<draining, replies>>
    BY <1>0, <1>5, <2>1, <2>3
  <2>4. CASE completed /\ draining' = TRUE /\ replies' = replies
    <3>1. owner # 0 /\ ~Answering
      BY <2>4 DEF Inv, Owns, Answering
    <3>2. ~Exchange!busy
      BY <1>5, <3>1, ExchangeState
    <3> QED
      BY <1>5, <2>1, <2>4, <3>2 DEF Exchange!Wind, Exchange!Next
  <2> QED
    BY <1>5, <2>2, <2>3, <2>4, OwnerActs
<1>6. CASE /\ UNCHANGED <<asked, sent, leaving, draining, histories>>
           /\ closing' = closing \/ (closing' = TRUE /\ leaving)
  BY <1>0, <1>6 DEF histories, whole, Exchange!Close, Exchange!AtRisk, Exchange!Next
<1>10. CASE DeferredReply \/ Poll
  <2>1. at # "gone" /\ UNCHANGED <<asked, sent, leaving, closing>>
    BY <1>10 DEF DeferredReply, Poll, clientVars
  <2> QED
    BY <1>5, <1>10, <2>1 DEF Poll, TypeOK, BufferOK
<1>11. CASE WriteConn
  <2>1. at # "gone" /\ UNCHANGED <<asked, sent, leaving>>
    BY <1>11 DEF WriteConn, clientVars
  <2>2. \/ (\E q \in Nat : handlePoll(q)) /\ closing' = closing
        \/ /\ UNCHANGED <<draining, histories>>
           /\ closing' = closing \/ (closing' = TRUE /\ leaving)
    BY <1>11 DEF WriteConn, TypeOK, BufferOK, VisitOK
  <2> QED
    BY <1>5, <1>6, <2>1, <2>2
<1>7. CASE ReadConn \/ EndVisit
  <2>1. UNCHANGED <<asked, sent, handled, replies, draining, leaving>>
    BY <1>7 DEF ReadConn, EndVisit, clientVars, histories
  <2>2. closing' = closing \/ (closing' = TRUE /\ (draining \/ leaving))
    BY <1>7 DEF ReadConn, EndVisit, TypeOK, BufferOK
  <2> QED
    BY <1>0, <2>1, <2>2 DEF whole, Exchange!Close, Exchange!AtRisk, Exchange!Next
<1>8. CASE Headers
  <2>1. /\ at = "parse" /\ ~isResp /\ Buffered
        /\ UNCHANGED <<asked, sent, leaving, handled, closing>>
    BY <1>8 DEF Headers, clientVars
  <2>2. CASE Install \/ Ignore
    BY <1>0, <2>1, <2>2 DEF Install, Ignore
  <2>3. CASE RefuseMethod
    <3>1. owner = 0 /\ request = 1 /\ replies = << >>
      BY <2>1, <2>3, RefusedFirst
    <3>2. ~Exchange!busy /\ Exchange!upcoming = request
      BY <2>1, <3>1, ExchangeState DEF Exchange!upcoming
    <3>3. request <= Len(asked)
      BY <2>1, RequestInRange DEF TypeOK
    <3> QED
      BY <2>1, <2>3, <3>2, <3>3 DEF RefuseMethod, whole, Exchange!Refuse, Exchange!Next
  <2> QED
    BY <1>8, <2>2, <2>3 DEF Headers
<1>9. CASE Message
  <2>1. /\ at = "message" /\ done < Len(asked) /\ request = done + 1
        /\ UNCHANGED <<asked, sent, leaving, closing>>
    BY <1>9 DEF Message, Parsing, clientVars, request
  <2>2. whole' = whole
    BY <2>1 DEF whole
  <2>3. CASE UNCHANGED <<handled, replies, draining>>
    BY <1>0, <2>1, <2>3
  <2>4. CASE /\ owner = done + 1 /\ ~Answering
             /\ handled' = Append(handled, [req |-> request, by |-> asked[owner].to])
             /\ \/ UNCHANGED <<replies, draining>>
                \/ replies' = Append(replies, owner) /\ draining' \in {draining, TRUE}
    <3>1. owner # 0 /\ owner <= Len(asked)
      BY <2>1, <2>4 DEF TypeOK, BufferOK, ClientOK
    <3>2. ~Exchange!busy /\ Exchange!upcoming = owner
      BY <2>1, <2>4, <3>1, ExchangeState DEF Exchange!upcoming
    <3>3. asked[owner].to # Nobody
      BY <3>1 DEF Inv, Owns
    <3>4. CASE ev = "close"
      <4>1. Exchange!AtRisk
        BY <3>4 DEF Parsing, Inv, Ends, Exchange!AtRisk
      <4> QED
        BY <2>1, <2>2, <2>4, <3>1, <3>2, <3>3, <4>1 DEF Exchange!Handle, Exchange!Next
    <3>5. CASE ev # "close"
      <4>1. Exchange!AtRisk \/ sent >= 2 * owner
        BY <2>1, <2>4, <3>5 DEF Parsing, Numbers, Inv, Ends, Exchange!AtRisk,
            TypeOK, BufferOK, ClientOK
      <4>2. Exchange!AtRisk \/ owner <= whole
        BY <2>4, <4>1 DEF whole, TypeOK, BufferOK, ClientOK
      <4> QED
        BY <2>1, <2>2, <2>4, <3>1, <3>2, <3>3, <4>2 DEF Exchange!Handle, Exchange!Next
    <3> QED
      BY <3>4, <3>5
  <2>5. draining' \in {draining, TRUE}
    BY <1>9, MessageActs, TypeStep DEF TypeOK, BufferOK
  <2> QED
    BY <1>9, <2>3, <2>4, <2>5, MessageActs
<1> QED
  BY <1>1, <1>2, <1>3, <1>4, <1>7, <1>8, <1>9, <1>10, <1>11
     DEF Next, Client, Server

\* A connection keeps what MongooseHttpExchange promises: requests are handed
\* over in order, once, whole, each to its own endpoint and after the answer to
\* the one before it, and the connection is wound up only in between.
THEOREM ExchangeKept ==
    ASSUME FewRefusals
    PROVE  Spec => KeepsTheExchange
<1>1. Init => TypeOK /\ Numbers /\ Parsing /\ Inv
  BY TypeInit, InvInit
<1>2. TypeOK /\ Numbers /\ Parsing /\ Inv /\ [Next]_vars
        => TypeOK' /\ Numbers' /\ Parsing' /\ Inv'
  BY TypeStep, InvStep, ParsingStep
<1>3. Init => Exchange!Init
  BY ExchangeInit
<1>4. TypeOK /\ Numbers /\ Parsing /\ Inv /\ [Next]_vars
        => [Exchange!Next]_(Exchange!vars)
  BY ExchangeStep
<1> QED
  BY <1>1, <1>2, <1>3, <1>4, PTL DEF Spec, KeepsTheExchange, Exchange!Spec
-----------------------------------------------------------------------------
(* is_resp, whatever is refused *)

AboutToEnd == draining \/ closing
Pending == owner # 0 /\ ~completed /\ (deferred \/ response # NoResponse)

\* A message in hand finds an owner that has not answered, or a connection
\* that ends; and an object is only deleted with its connection.
Heeded ==
    /\ isResp => AboutToEnd \/ Pending
    /\ at = "message" => AboutToEnd \/ (owner # 0 /\ ~completed)
    /\ at = "closed" => closing

\* An answer that was begun, of an object that had not completed any.
LEMMA ReplyHeeded ==
    ASSUME TypeOK, NEW resp, Reply(resp)
    PROVE  /\ owner' = owner /\ (draining => draining')
           /\ \/ isResp' = FALSE
              \/ response' # NoResponse /\ isResp' = resp /\ completed' = completed
<1>1. CASE sendSimple
  BY <1>1 DEF Reply, sendSimple, completeRequest
<1>2. CASE sendResponse(resp)
  <2>1. PICK size \in 0 .. MaxBody : sendBody(size, queued + 1, resp)
    BY <1>2 DEF sendResponse
  <2>2. queued + 1 \in Nat
    BY DEF TypeOK, BufferOK
  <2> QED
    BY <2>1, <2>2, SendBodyEffect DEF Reply
<1> QED
  BY <1>1, <1>2 DEF Reply

LEMMA HeededStep ==
    ASSUME TypeOK, Parsing, Heeded, [Next]_vars
    PROVE  Heeded'
<1>0. AfterEvent[ev] # "message" /\ (AfterEvent[ev] = "closed" => closing)
  BY DEF Parsing, AfterEvent, TypeOK, VisitOK, Events
<1>1. CASE DeferredReply
  <2>1. /\ at' = "rest" /\ closing' = closing /\ owner' = owner
        /\ draining => draining'
        /\ \/ isResp' = FALSE
           \/ response' # NoResponse /\ isResp' = isResp /\ completed' = completed
    BY <1>1, ReplyHeeded DEF DeferredReply, visitVars
  <2> QED
    BY <2>1 DEF Heeded, AboutToEnd, Pending
<1>2. ASSUME NEW q \in Nat, handlePoll(q), closing => closing',
             at' \notin {"message", "closed"}
      PROVE  Heeded'
  BY <1>2, HandlePollEffect DEF Heeded, AboutToEnd, Pending
<1>3. ASSUME UNCHANGED <<isResp, draining, owner, completed, deferred, response>>,
             closing => closing', at' = at \/ at' \notin {"message", "closed"}
                                 \/ at' = AfterEvent[ev]
      PROVE  Heeded'
  BY <1>0, <1>3 DEF Heeded, AboutToEnd, Pending
<1>4. CASE Poll \/ WriteConn
  <2>1. closing => closing'
    BY <1>4 DEF Poll, WriteConn
  <2>2. at' \notin {"message", "closed"}
    BY <1>4 DEF Poll, WriteConn
  <2>3. \/ \E q \in Nat : handlePoll(q)
        \/ UNCHANGED <<isResp, draining, owner, completed, deferred, response>>
    BY <1>4, PollsOwner DEF objectVars
  <2> QED
    BY <1>2, <1>3, <2>1, <2>2, <2>3
<1>5. CASE Headers
  <2>1. /\ ~isResp /\ closing' = closing
        /\ at' = "message" \/ at' = AfterEvent[ev]
    BY <1>5 DEF Headers
  <2>2. CASE Install
    <3>1. owner' # 0 /\ ~completed' /\ ~isResp'
      BY <2>1, <2>2 DEF Install, request, TypeOK, BufferOK
    <3> QED
      BY <1>0, <2>1, <3>1 DEF Heeded
  <2>3. CASE RefuseMethod
    BY <1>0, <2>1, <2>3 DEF RefuseMethod, Heeded, AboutToEnd
  <2>4. CASE Ignore
    <3>1. owner' # 0 /\ ~completed' /\ ~isResp'
      BY <2>1, <2>4 DEF Ignore, Matches, objectVars
    <3> QED
      BY <1>0, <2>1, <3>1 DEF Heeded
  <2> QED
    BY <1>5, <2>2, <2>3, <2>4 DEF Headers
<1>6. CASE Message
  <2>1. /\ at = "message" /\ closing' = closing
        /\ at' = "parse" \/ at' = AfterEvent[ev]
    BY <1>6 DEF Message
  <2>2. AboutToEnd \/ (owner # 0 /\ ~completed)
    BY <2>1 DEF Heeded
  <2>3. CASE Handler
    <3>1. owner' = owner /\ (draining => draining')
          /\ \/ isResp' = FALSE
             \/ (deferred' \/ response' # NoResponse) /\ completed' = completed
      <4>1. CASE Reply(TRUE)
        BY <4>1, ReplyHeeded
      <4>2. CASE deferred' = TRUE /\ UNCHANGED <<owner, completed, draining>>
        BY <4>2
      <4> QED
        BY <2>3, <4>1, <4>2 DEF Handler
    <3> QED
      BY <1>0, <2>1, <2>2, <3>1 DEF Heeded, AboutToEnd, Pending
  <2>4. CASE ServerIgnores
    BY <1>0, <2>1, <2>2, <2>4 DEF ServerIgnores, Heeded, AboutToEnd
  <2> QED
    BY <1>6, <2>3, <2>4 DEF Message
<1>7. CASE handleClose
  BY <1>7 DEF handleClose, Heeded, AboutToEnd
<1>8. CASE Visit \/ ReadConn \/ EndVisit \/ NothingToParse
  <2>1. UNCHANGED <<isResp, draining, owner, completed, deferred, response>>
    BY <1>8 DEF Visit, ReadConn, EndVisit, NothingToParse, objectVars
  <2>2. closing => closing'
    BY <1>8 DEF Visit, ReadConn, EndVisit, NothingToParse
  <2>3. at' \notin {"message", "closed"} \/ at' = AfterEvent[ev]
    BY <1>8 DEF Visit, ReadConn, EndVisit, NothingToParse
  <2> QED
    BY <1>3, <2>1, <2>2, <2>3
<1>9. CASE Client \/ Tick \/ UNCHANGED vars
  <2>1. /\ UNCHANGED <<isResp, draining, owner, completed, deferred, response>>
        /\ closing' = closing /\ at' = at
    BY <1>9 DEF Client, Ask, SendBodyOfRequest, Leave, Tick, vars, objectVars, visitVars
  <2> QED
    BY <1>3, <2>1
<1> QED
  BY <1>1, <1>4, <1>5, <1>6, <1>7, <1>8, <1>9 DEF Next, Server

\* For any number of requests, and however their bytes arrive and whichever of
\* them are refused, a kept-alive connection is never left with is_resp set
\* and nobody to clear it (completeRequest() and http_cb).
THEOREM NeverDeafCorrect == Spec => []NeverDeaf
<1>1. Init => TypeOK /\ Numbers /\ Parsing /\ Heeded
  BY TypeInit DEF Init, Heeded
<1>2. TypeOK /\ Numbers /\ Parsing /\ Heeded /\ [Next]_vars
        => TypeOK' /\ Numbers' /\ Parsing' /\ Heeded'
  BY TypeStep, ParsingStep, HeededStep
<1>3. Heeded => NeverDeaf
  BY DEF Heeded, AboutToEnd, Pending, NeverDeaf
<1> QED
  BY <1>1, <1>2, <1>3, PTL DEF Spec
=============================================================================
