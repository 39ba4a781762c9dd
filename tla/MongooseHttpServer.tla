-------------------------- MODULE MongooseHttpServer --------------------------
(***************************************************************************)
(* One connection of the HTTP server: MongooseHttpServer (matching of      *)
(* requests to endpoints), MongooseHttpServerRequest (the object that      *)
(* answers, is handed the connection by its predecessor and reaps it when  *)
(* it idles), http_cb of mongoose.c (which turns received bytes into       *)
(* events), and the visit that mg_mgr_poll pays to the connection.         *)
(*                                                                         *)
(* The hard part is who the connection belongs to.  fn_data is the server  *)
(* until headers arrive; then a request object made for them, which stays  *)
(* after its answer until the headers of the next request replace it.      *)
(* Headers are reported anew for every read until the body is complete,    *)
(* and http_cb reports nothing while is_resp is set.                       *)
(*                                                                         *)
(* Bytes are abstract.  A request is a head and a body, two halves of a    *)
(* unit: the halves sent, the halves read and the requests consumed say    *)
(* what is on the wire and in the receive buffer.  A request object is     *)
(* named by the number of the request whose headers it was made for.       *)
(***************************************************************************)
EXTENDS Integers, Sequences

CONSTANTS
    Endpoints,  \* what requests can be addressed to, not-found included
    Nobody,     \* the address of a request with a method its URL does not take
    Refused,    \* when such requests come: "first", "later", with a "body"
    MaxAsk,     \* bound on the requests of the client
    MaxBody,    \* largest body of a response, in units of the send buffer
    MaxFree     \* most that fits into the send buffer at a time

NoResponse == -1

ASSUME EndpointsAssumption == Nobody \notin Endpoints
ASSUME RefusedAssumption == Refused \subseteq {"first", "later", "body"}
ASSUME BoundsAssumption ==
    MaxAsk \in Nat /\ MaxBody \in Nat /\ MaxFree \in Nat \ {0}

VARIABLES
    asked,      \* the requests begun by the client,
    sent,       \* ... the halves it has sent of them, and
    leaving,    \* ... whether it has closed its end
    read,       \* halves ever added to recv
    done,       \* requests deleted from recv
    queued,     \* send.len
    owner,      \* fn_data: 0 for the server, else the request object
    keepAlive,  \* _keepAlive of the owner
    completed,  \* _completed of the owner
    response,   \* units left in _response of the owner
    idle,       \* keepAliveTimeout() has passed since _lastActivity
    deferred,   \* the application will answer the owner from outside the loop
    isResp,     \* is_resp
    draining,   \* is_draining
    closing,    \* is_closing
    at,         \* where the visit of mg_mgr_poll is
    ev,         \* the event it is delivering
    wasResp,    \* is_resp before MG_EV_POLL
    readable,   \* is_readable
    writable,   \* is_writable
    handled,    \* history: [req, by], request req ran the handler of by
    replies     \* history: the objects that completed an answer, 405s included

clientVars == <<asked, sent, leaving>>
objectVars == <<owner, keepAlive, completed, response, idle, deferred>>
visitVars == <<at, ev, wasResp, readable, writable>>
histories == <<handled, replies>>
vars == <<asked, sent, leaving, read, done, queued, owner, keepAlive,
          completed, response, idle, deferred, isResp, draining, closing,
          at, ev, wasResp, readable, writable, handled, replies>>

Kinds == [to : Endpoints \union {Nobody}, body : BOOLEAN, keep : BOOLEAN]
Events == {"poll", "reread", "read", "close"}
Places == {"rest", "parse", "message", "polled", "io", "write", "end",
           "closed", "gone"}

whole == sent \div 2
request == done + 1             \* the one http_cb is parsing
Buffered == read > 2 * done     \* recv.len > 0
Complete == read >= 2 * request \* its body is in recv

Init ==
    /\ asked = << >> /\ sent = 0 /\ leaving = FALSE
    /\ read = 0 /\ done = 0 /\ queued = 0
    /\ owner = 0 /\ keepAlive = FALSE /\ completed = FALSE
    /\ response = NoResponse /\ idle = FALSE /\ deferred = FALSE
    /\ isResp = FALSE /\ draining = FALSE /\ closing = FALSE
    /\ at = "rest" /\ ev = "poll" /\ wasResp = FALSE
    /\ readable = FALSE /\ writable = FALSE
    /\ handled = << >> /\ replies = << >>
-----------------------------------------------------------------------------
(* The client and the clock *)

MayAsk(k) ==
    k.to = Nobody =>
        /\ (IF asked = << >> THEN "first" ELSE "later") \in Refused
        /\ k.body => "body" \in Refused

Ask(k) ==
    /\ at # "gone" /\ ~leaving /\ Len(asked) < MaxAsk
    /\ sent = 2 * Len(asked) /\ MayAsk(k)
    /\ asked' = Append(asked, k)
    /\ sent' = sent + (IF k.body THEN 1 ELSE 2)
    /\ UNCHANGED <<leaving, read, done, queued, isResp, draining, closing>>
    /\ UNCHANGED <<objectVars, visitVars, histories>>

SendBodyOfRequest ==
    /\ at # "gone" /\ ~leaving /\ sent < 2 * Len(asked)
    /\ sent' = sent + 1
    /\ UNCHANGED <<asked, leaving, read, done, queued, isResp, draining, closing>>
    /\ UNCHANGED <<objectVars, visitVars, histories>>

Leave ==
    /\ at # "gone" /\ ~leaving
    /\ leaving' = TRUE
    /\ UNCHANGED <<asked, sent, read, done, queued, isResp, draining, closing>>
    /\ UNCHANGED <<objectVars, visitVars, histories>>

Tick ==
    /\ at # "gone" /\ completed /\ ~idle
    /\ idle' = TRUE
    /\ UNCHANGED <<read, done, queued, owner, keepAlive, completed, response>>
    /\ UNCHANGED <<deferred, isResp, draining, closing>>
    /\ UNCHANGED <<clientVars, visitVars, histories>>
-----------------------------------------------------------------------------
(* Answering.  These say what becomes of queued, response, completed, idle, *)
(* isResp, draining and replies.                                           *)

completeRequest ==
    /\ completed' = TRUE /\ idle' = FALSE
    /\ isResp' = FALSE
    /\ draining' = (draining \/ ~keepAlive')
    /\ replies' = Append(replies, owner)

\* What sendBody() finds free in the send buffer, once q units are in it.
Free(q) == IF q = 0 THEN 1 .. MaxFree ELSE 0 .. MaxFree

\* Mutation of sendBody: the end of the response does not clear is_resp.
sendBodyLatched(size, q, resp) ==
    \E free \in Free(q) :
        LET n == IF size < free THEN size ELSE free
        IN  /\ queued' = q + n
            /\ isResp' = resp
            /\ IF n < free
               THEN /\ response' = NoResponse
                    /\ completed' = TRUE /\ idle' = FALSE
                    /\ draining' = (draining \/ ~keepAlive')
                    /\ replies' = Append(replies, owner)
               ELSE /\ response' = size - n
                    /\ UNCHANGED <<completed, idle, draining, replies>>

\* sendBody() of a response with size units left; resp is is_resp before it.
sendBody(size, q, resp) ==
    \E free \in Free(q) :
        LET n == IF size < free THEN size ELSE free
        IN  /\ queued' = q + n
            /\ IF n < free
               THEN response' = NoResponse /\ completeRequest
               ELSE /\ response' = size - n /\ isResp' = resp
                    /\ UNCHANGED <<completed, idle, draining, replies>>

\* send(code, ...) and requestAuthentication()
sendSimple ==
    /\ queued' = queued + 1
    /\ completeRequest
    /\ UNCHANGED response

\* send(response)
sendResponse(resp) ==
    \E size \in 0 .. MaxBody : sendBody(size, queued + 1, resp)

\* The application answers, after a forceClose() or not.
Reply(resp) ==
    /\ keepAlive' \in {keepAlive, FALSE}
    /\ deferred' = FALSE
    /\ sendSimple \/ sendResponse(resp)
    /\ UNCHANGED owner

DeferredReply ==
    /\ at = "rest" /\ deferred
    /\ Reply(isResp)
    /\ UNCHANGED <<read, done, closing, handled>>
    /\ UNCHANGED <<clientVars, visitVars>>

\* Mutations of Reaps: an answer that is still to come is not waited for; the
\* test of the send buffer is the wrong way round.
ReapsUnanswered(q) == keepAlive /\ q = 0 /\ idle
ReapsWhileSending(q) == completed /\ keepAlive /\ q # 0 /\ idle

Reaps(q) == completed /\ keepAlive /\ q = 0 /\ idle

\* handlePoll() of the owner, for MG_EV_POLL and MG_EV_WRITE, with q units in
\* the send buffer.
handlePoll(q) ==
    /\ UNCHANGED <<owner, keepAlive, deferred, handled>>
    /\ \/ /\ owner # 0 /\ response # NoResponse
          /\ sendBody(response, q, isResp)
       \/ /\ owner = 0 \/ response = NoResponse
          /\ queued' = q
          /\ draining' = (draining \/ (owner # 0 /\ Reaps(q)))
          /\ UNCHANGED <<response, completed, idle, isResp, replies>>
-----------------------------------------------------------------------------
(* http_cb *)

\* What follows in the visit once http_cb is done with the event.
AfterEvent == [poll |-> "polled", reread |-> "io", read |-> "write",
               close |-> "closed"]

NothingToParse ==
    /\ at = "parse" /\ (isResp \/ ~Buffered)
    /\ at' = AfterEvent[ev]
    /\ UNCHANGED <<ev, wasResp, readable, writable, read, done, queued>>
    /\ UNCHANGED <<isResp, draining, closing>>
    /\ UNCHANGED <<clientVars, objectVars, histories>>

\* The server matches the headers: when it owns the connection itself, and
\* when an object that has completed hands them back.
Matches == owner = 0 \/ completed

\* An endpoint takes the request: a new object replaces the owner.
Install ==
    /\ Matches /\ asked[request].to # Nobody
    /\ owner' = request
    /\ keepAlive' \in {asked[request].keep, FALSE}
    /\ completed' = FALSE /\ response' = NoResponse
    /\ idle' = TRUE /\ deferred' = FALSE
    /\ UNCHANGED <<queued, isResp, draining, replies>>

\* 405: the owner stays.
RefuseMethod ==
    /\ Matches /\ asked[request].to = Nobody
    /\ queued' = queued + 1
    /\ isResp' = FALSE
    /\ draining' = TRUE
    /\ replies' = Append(replies, request)
    /\ UNCHANGED objectVars

\* The headers were reported before: the body is not complete yet.
Ignore ==
    /\ ~Matches
    /\ UNCHANGED <<queued, isResp, draining, replies, objectVars>>

\* MG_EV_HTTP_HDRS.  A message is due when the body is there, or when none of
\* it will follow.
Headers ==
    /\ at = "parse" /\ ~isResp /\ Buffered
    /\ Install \/ RefuseMethod \/ Ignore
    /\ at' = IF Complete \/ ev = "close" THEN "message" ELSE AfterEvent[ev]
    /\ UNCHANGED <<ev, wasResp, readable, writable, read, done, closing>>
    /\ UNCHANGED <<clientVars, handled>>

\* The handler of the owner's endpoint, is_resp being set before it.  An
\* object that has answered runs it too: that is what a plain
\* MongooseHttpServerRequest does, such as the built-in 404 makes.  The one
\* that on(uri) makes returns at once, so no second answer comes of a 405.
Handler ==
    /\ owner # 0
    /\ handled' = Append(handled, [req |-> request, by |-> asked[owner].to])
    /\ \/ Reply(TRUE)
       \/ /\ deferred' = TRUE /\ isResp' = TRUE
          /\ UNCHANGED <<owner, keepAlive, completed, response, idle>>
          /\ UNCHANGED <<queued, draining, replies>>

\* MongooseHttpServer has no handleMessage().
ServerIgnores ==
    /\ owner = 0
    /\ isResp' = TRUE
    /\ UNCHANGED <<queued, draining, objectVars, histories>>

\* MG_EV_HTTP_MSG.  The last request of a closed connection takes all that is
\* in recv for its body.  Of the requests that are not to be kept alive, those
\* with "Connection: close" make http_cb stop once they have been answered
\* (that it drains then is no news, the owner did), those of HTTP/1.0 do not.
Message ==
    /\ at = "message"
    /\ Handler \/ ServerIgnores
    /\ done' = request
    /\ read' = IF ev = "close" THEN 2 * request ELSE read
    /\ \/ at' = "parse"
       \/ ~isResp' /\ ~asked[request].keep /\ at' = AfterEvent[ev]
    /\ UNCHANGED <<ev, wasResp, readable, writable, closing, clientVars>>
-----------------------------------------------------------------------------
(* The visit of mg_mgr_poll *)

\* Mutation of Visit: http_cb does not look at recv on MG_EV_POLL.
VisitUnparsed ==
    /\ at = "rest"
    /\ at' = "polled"
    /\ ev' = "poll" /\ wasResp' = isResp
    /\ readable' = (sent > read \/ leaving)
    /\ writable' = (queued > 0)
    /\ UNCHANGED <<read, done, queued, isResp, draining, closing>>
    /\ UNCHANGED <<clientVars, objectVars, histories>>

\* MG_EV_POLL, which http_cb parses for only when it is not draining.
Visit ==
    /\ at = "rest"
    /\ at' = IF ~draining /\ Buffered THEN "parse" ELSE "polled"
    /\ ev' = "poll" /\ wasResp' = isResp
    /\ readable' = (sent > read \/ leaving)
    /\ writable' = (queued > 0)
    /\ UNCHANGED <<read, done, queued, isResp, draining, closing>>
    /\ UNCHANGED <<clientVars, objectVars, histories>>

\* MG_EV_POLL for the owner.  When that completed the answer, http_cb gets an
\* MG_EV_READ for what it may have left in recv.
Poll ==
    /\ at = "polled"
    /\ handlePoll(queued)
    /\ IF wasResp /\ ~isResp' THEN at' = "parse" /\ ev' = "reread"
       ELSE at' = "io" /\ UNCHANGED ev
    /\ UNCHANGED <<wasResp, readable, writable, read, done, closing, clientVars>>

ReadConn ==
    /\ at = "io"
    /\ \/ /\ readable /\ sent > read
          /\ read' = sent /\ at' = "parse" /\ ev' = "read"
          /\ UNCHANGED closing
       \/ /\ readable /\ sent <= read /\ leaving
          /\ closing' = TRUE /\ at' = "write"
          /\ UNCHANGED <<read, ev>>
       \/ /\ ~readable
          /\ at' = "write"
          /\ UNCHANGED <<read, ev, closing>>
    /\ UNCHANGED <<wasResp, readable, writable, done, queued, isResp, draining>>
    /\ UNCHANGED <<clientVars, objectVars, histories>>

\* Mutation of WriteConn: more is deleted from the send buffer than was in it.
WriteConnPastEnd ==
    /\ at = "write"
    /\ at' = "end"
    /\ \/ /\ writable
          /\ \E q \in -1 .. queued - 1 : handlePoll(q)
          /\ UNCHANGED closing
       \/ /\ writable => leaving
          /\ closing' = (closing \/ writable)
          /\ UNCHANGED <<queued, isResp, draining, objectVars, histories>>
    /\ UNCHANGED <<ev, wasResp, readable, writable, read, done, clientVars>>

WriteConn ==
    /\ at = "write"
    /\ at' = "end"
    /\ \/ /\ writable
          /\ \E q \in 0 .. queued - 1 : handlePoll(q)
          /\ UNCHANGED closing
       \/ /\ writable => leaving
          /\ closing' = (closing \/ writable)
          /\ UNCHANGED <<queued, isResp, draining, objectVars, histories>>
    /\ UNCHANGED <<ev, wasResp, readable, writable, read, done, clientVars>>

\* Mutation of EndVisit: draining is looked at only after a write.
EndVisitAfterWrite ==
    /\ at = "end"
    /\ closing' = (closing \/ (draining /\ queued = 0 /\ writable))
    /\ IF closing' THEN at' = "parse" /\ ev' = "close"
       ELSE at' = "rest" /\ ev' = "poll"
    /\ wasResp' = FALSE /\ readable' = FALSE /\ writable' = FALSE
    /\ UNCHANGED <<read, done, queued, isResp, draining>>
    /\ UNCHANGED <<clientVars, objectVars, histories>>

EndVisit ==
    /\ at = "end"
    /\ closing' = (closing \/ (draining /\ queued = 0))
    /\ IF closing' THEN at' = "parse" /\ ev' = "close"
       ELSE at' = "rest" /\ ev' = "poll"
    /\ wasResp' = FALSE /\ readable' = FALSE /\ writable' = FALSE
    /\ UNCHANGED <<read, done, queued, isResp, draining>>
    /\ UNCHANGED <<clientVars, objectVars, histories>>

\* MG_EV_CLOSE for the owner, which deletes itself; onClose() of the endpoint
\* tells the application not to answer any more.
handleClose ==
    /\ at = "closed"
    /\ at' = "gone"
    /\ owner' = 0 /\ response' = NoResponse
    /\ completed' = FALSE /\ deferred' = FALSE
    /\ UNCHANGED <<keepAlive, idle, ev, wasResp, readable, writable>>
    /\ UNCHANGED <<read, done, queued, isResp, draining, closing>>
    /\ UNCHANGED <<clientVars, histories>>
-----------------------------------------------------------------------------
Client == (\E k \in Kinds : Ask(k)) \/ SendBodyOfRequest \/ Leave

Server ==
    \/ Visit \/ Poll \/ ReadConn \/ WriteConn \/ EndVisit \/ handleClose
    \/ NothingToParse \/ Headers \/ Message

Next == Client \/ Tick \/ DeferredReply \/ Server

Spec == Init /\ [][Next]_vars

\* The sketch polls again and again, time passes, and the application gets its
\* turn between the polls to answer what it has put off.
LiveSpec ==
    Spec /\ WF_vars(Server) /\ WF_vars(Tick) /\ SF_vars(DeferredReply)
-----------------------------------------------------------------------------
(* Properties *)

ClientOK ==
    /\ asked \in Seq(Kinds) /\ Len(asked) <= MaxAsk
    /\ sent \in Nat /\ leaving \in BOOLEAN
BufferOK ==
    /\ read \in Nat /\ done \in Nat /\ queued \in Nat
    /\ isResp \in BOOLEAN /\ draining \in BOOLEAN /\ closing \in BOOLEAN
ObjectOK ==
    /\ owner \in 0 .. Len(asked)
    /\ keepAlive \in BOOLEAN /\ completed \in BOOLEAN
    /\ response \in {NoResponse} \union 0 .. MaxBody
    /\ idle \in BOOLEAN /\ deferred \in BOOLEAN
VisitOK ==
    /\ at \in Places /\ ev \in Events
    /\ wasResp \in BOOLEAN /\ readable \in BOOLEAN /\ writable \in BOOLEAN
HistoriesOK ==
    /\ handled \in Seq([req : Nat, by : Endpoints \union {Nobody}])
    /\ replies \in Seq(Nat)

\* Types; that an object never outnumbers the requests and the send buffer
\* never owes the network anything depends on every step.
TypeOK == ClientOK /\ BufferOK /\ ObjectOK /\ VisitOK /\ HistoriesOK

Exchange == INSTANCE MongooseHttpExchange
            WITH winding <- draining, left <- leaving, over <- closing

\* In order, once, by the right endpoint, one at a time; and no winding up
\* while somebody waits for an answer (MongooseHttpExchange says it in full).
KeepsTheExchange == Exchange!Spec

\* While is_resp is set http_cb reports nothing, so somebody must still be
\* about to clear it: the application, or the rest of a response.  Otherwise
\* the connection would be kept alive and deaf.
NeverDeaf ==
    isResp => \/ draining \/ closing
              \/ /\ owner # 0 /\ ~completed
                 /\ deferred \/ response # NoResponse

\* Every request is received, and then answered, also one that was in recv
\* when the answer before it was completed: mg_mgr_poll repeats MG_EV_READ for
\* it, or http_cb parses on MG_EV_POLL, before the idle connection is reaped.
\* Only an answer that ends the connection, or the client, prevents it.
RequestsAnswered ==
    \A n \in 1 .. MaxAsk :
        /\ whole >= n ~> read >= 2 * n \/ draining \/ leaving
        /\ read >= 2 * n /\ ~draining ~>
              \/ \E i \in DOMAIN replies : replies[i] = n
              \/ draining /\ ~keepAlive
              \/ leaving

\* A connection that is kept alive and not used is reaped.
Parked ==
    at # "gone" /\ owner # 0 /\ completed /\ sent = 2 * done /\ ~draining
ParkedIsReaped == Parked ~> ~Parked

\* Winding up ends with the close, however much is still to be sent.
WoundUpCloses == draining ~> at = "gone"
=============================================================================
