-------------------------- MODULE MongooseHttpProofs --------------------------
(***************************************************************************)
(* Proofs about MongooseHttpServer, for any number of requests, endpoints  *)
(* and units of the send buffer: types, and how far the client, the        *)
(* receive buffer and http_cb have come.                                   *)
(***************************************************************************)
EXTENDS MongooseHttpServer, TLAPS

(* How far the client, recv and http_cb have come.  A message is in hand when *)
(* its body is there, or when the connection is being closed.              *)
Numbers ==
    /\ sent <= 2 * Len(asked) /\ sent >= 2 * Len(asked) - 1
    /\ 2 * done <= read /\ done <= Len(asked)
    /\ read <= sent \/ (closing /\ read = 2 * done)
Parsing ==
    /\ at = "message" => done < Len(asked)
    /\ at = "message" => ev = "close" \/ read >= 2 * (done + 1)
    /\ ev = "close" => closing
-----------------------------------------------------------------------------
(* Types *)

LEMMA EmptySeq ==
    ASSUME NEW S
    PROVE  << >> \in Seq(S) /\ Len(<< >>) = 0
OBVIOUS

LEMMA TypeInit == Init => TypeOK /\ Numbers /\ Parsing
<1> SUFFICES ASSUME Init PROVE TypeOK /\ Numbers /\ Parsing
  OBVIOUS
<1>0. asked \in Seq(Kinds) /\ Len(asked) = 0
  BY EmptySeq DEF Init
<1>1. /\ sent = 0 /\ leaving = FALSE /\ read = 0 /\ done = 0 /\ queued = 0
      /\ isResp = FALSE /\ draining = FALSE /\ closing = FALSE
      /\ owner = 0 /\ keepAlive = FALSE /\ completed = FALSE
      /\ response = NoResponse /\ idle = FALSE /\ deferred = FALSE
  BY DEF Init
<1>2. /\ sent \in Nat /\ read \in Nat /\ done \in Nat /\ queued \in Nat
      /\ Len(asked) <= MaxAsk /\ owner \in 0 .. Len(asked)
      /\ sent <= 2 * Len(asked) /\ sent >= 2 * Len(asked) - 1
      /\ 2 * done <= read /\ done <= Len(asked) /\ read <= sent
  BY <1>0, <1>1, BoundsAssumption
<1>5. /\ leaving \in BOOLEAN /\ isResp \in BOOLEAN /\ draining \in BOOLEAN
      /\ closing \in BOOLEAN /\ keepAlive \in BOOLEAN /\ completed \in BOOLEAN
      /\ idle \in BOOLEAN /\ deferred \in BOOLEAN
  BY <1>1
<1>6. ClientOK /\ BufferOK /\ ObjectOK /\ Numbers
  BY <1>0, <1>1, <1>2, <1>5 DEF ClientOK, BufferOK, ObjectOK, Numbers
<1>3. VisitOK
  BY DEF Init, VisitOK, Places, Events
<1>4. HistoriesOK
  BY EmptySeq DEF Init, HistoriesOK
<1>7. Parsing
  BY DEF Init, Parsing
<1> QED
  BY <1>3, <1>4, <1>6, <1>7 DEF TypeOK

LEMMA RequestInRange ==
    ASSUME ClientOK, BufferOK, Numbers, Buffered
    PROVE  request \in 1 .. Len(asked)
BY DEF ClientOK, BufferOK, Numbers, Buffered, request

LEMMA KindsType ==
    ASSUME ClientOK, NEW n \in 1 .. Len(asked)
    PROVE  /\ asked[n] \in Kinds
           /\ asked[n].to \in Endpoints \union {Nobody}
           /\ asked[n].body \in BOOLEAN /\ asked[n].keep \in BOOLEAN
<1>1. asked[n] \in Kinds
  BY DEF ClientOK
<1> QED
  BY <1>1 DEF Kinds

LEMMA AfterEventType ==
    ASSUME ev \in Events
    PROVE  AfterEvent[ev] \in {"polled", "io", "write", "closed"}
BY DEF Events, AfterEvent

\* sendBody() leaves an answer that can go on or is complete.
LEMMA SendBodyType ==
    ASSUME BufferOK, ObjectOK, HistoriesOK, NEW size \in 0 .. MaxBody,
           NEW q \in Nat, NEW resp \in BOOLEAN, keepAlive' \in BOOLEAN,
           sendBody(size, q, resp)
    PROVE  /\ queued' \in Nat /\ isResp' \in BOOLEAN /\ draining' \in BOOLEAN
           /\ response' \in {NoResponse} \union 0 .. MaxBody
           /\ completed' \in BOOLEAN /\ idle' \in BOOLEAN
           /\ replies' \in Seq(Nat)
<1>1. PICK free \in Free(q) :
          LET n == IF size < free THEN size ELSE free
          IN  /\ queued' = q + n
              /\ IF n < free
                 THEN response' = NoResponse /\ completeRequest
                 ELSE /\ response' = size - n /\ isResp' = resp
                      /\ UNCHANGED <<completed, idle, draining, replies>>
  BY DEF sendBody
<1>2. free \in Nat
  BY BoundsAssumption DEF Free
<1>3. owner \in Nat
  BY DEF ObjectOK
<1>4. CASE size < free
  <2>1. response' = NoResponse /\ completeRequest /\ queued' = q + size
    BY <1>1, <1>4
  <2>2. replies' \in Seq(Nat)
    BY <2>1, <1>3 DEF completeRequest, HistoriesOK
  <2>3. isResp' \in BOOLEAN /\ completed' \in BOOLEAN /\ idle' \in BOOLEAN
    BY <2>1 DEF completeRequest
  <2>4. draining' \in BOOLEAN
    BY <2>1 DEF completeRequest
  <2>5. queued' \in Nat
    BY <2>1
  <2> QED
    BY <2>1, <2>2, <2>3, <2>4, <2>5
<1>5. CASE ~(size < free)
  BY <1>1, <1>2, <1>5, BoundsAssumption DEF BufferOK, ObjectOK, HistoriesOK
<1> QED
  BY <1>4, <1>5

LEMMA ReplyType ==
    ASSUME BufferOK, ObjectOK, HistoriesOK, NEW resp \in BOOLEAN, Reply(resp)
    PROVE  /\ queued' \in Nat /\ isResp' \in BOOLEAN /\ draining' \in BOOLEAN
           /\ response' \in {NoResponse} \union 0 .. MaxBody
           /\ completed' \in BOOLEAN /\ idle' \in BOOLEAN
           /\ keepAlive' \in BOOLEAN /\ deferred' \in BOOLEAN
           /\ owner' = owner
           /\ replies' \in Seq(Nat)
<1>1. keepAlive' \in BOOLEAN /\ deferred' \in BOOLEAN /\ owner' = owner
  BY DEF Reply, ObjectOK
<1>2. CASE sendSimple
  <2>1. queued' = queued + 1 /\ completeRequest /\ response' = response
    BY <1>2 DEF sendSimple
  <2>2. replies' \in Seq(Nat)
    BY <2>1 DEF completeRequest, HistoriesOK, ObjectOK
  <2>3. isResp' \in BOOLEAN /\ completed' \in BOOLEAN /\ idle' \in BOOLEAN
    BY <2>1 DEF completeRequest
  <2>4. draining' \in BOOLEAN
    BY <2>1 DEF completeRequest
  <2> QED
    BY <1>1, <2>1, <2>2, <2>3, <2>4 DEF BufferOK, ObjectOK
<1>3. CASE sendResponse(resp)
  <2>1. PICK size \in 0 .. MaxBody : sendBody(size, queued + 1, resp)
    BY <1>3 DEF sendResponse
  <2>2. queued + 1 \in Nat
    BY DEF BufferOK
  <2> QED
    BY <1>1, <2>1, <2>2, SendBodyType
<1> QED
  BY <1>1, <1>2, <1>3 DEF Reply

LEMMA HandlePollType ==
    ASSUME BufferOK, ObjectOK, HistoriesOK, NEW q \in Nat, handlePoll(q)
    PROVE  /\ queued' \in Nat /\ isResp' \in BOOLEAN /\ draining' \in BOOLEAN
           /\ response' \in {NoResponse} \union 0 .. MaxBody
           /\ completed' \in BOOLEAN /\ idle' \in BOOLEAN
           /\ UNCHANGED <<owner, keepAlive, deferred, handled>>
           /\ replies' \in Seq(Nat)
<1>1. UNCHANGED <<owner, keepAlive, deferred, handled>>
  BY DEF handlePoll
<1>2. CASE response # NoResponse /\ sendBody(response, q, isResp)
  <2>1. response \in 0 .. MaxBody /\ isResp \in BOOLEAN /\ keepAlive' \in BOOLEAN
    BY <1>1, <1>2 DEF ObjectOK, BufferOK
  <2> QED
    BY <1>1, <1>2, <2>1, SendBodyType
<1>3. CASE /\ queued' = q
           /\ draining' = (draining \/ (owner # 0 /\ Reaps(q)))
           /\ UNCHANGED <<response, completed, idle, isResp, replies>>
  BY <1>1, <1>3 DEF BufferOK, ObjectOK, HistoriesOK
<1> QED
  BY <1>2, <1>3 DEF handlePoll

LEMMA AskType ==
    ASSUME TypeOK, Numbers, NEW k \in Kinds, Ask(k)
    PROVE  TypeOK' /\ Numbers'
<1>1. /\ asked' \in Seq(Kinds) /\ Len(asked') = Len(asked) + 1
      /\ Len(asked) \in Nat /\ Len(asked) < MaxAsk
  BY DEF Ask, TypeOK, ClientOK
<1>2. sent = 2 * Len(asked) /\ (sent' = sent + 1 \/ sent' = sent + 2)
  BY DEF Ask
<1>3. /\ sent' \in Nat /\ sent' <= 2 * Len(asked') /\ sent' >= 2 * Len(asked') - 1
      /\ done <= Len(asked') /\ sent <= sent' /\ Len(asked') <= MaxAsk
  BY <1>1, <1>2, BoundsAssumption DEF TypeOK, ClientOK, BufferOK, Numbers
<1>4. UNCHANGED <<leaving, read, done, queued, isResp, draining, closing>>
  BY DEF Ask
<1>5. ClientOK' /\ BufferOK'
  BY <1>1, <1>3, <1>4 DEF TypeOK, ClientOK, BufferOK
<1>6. ObjectOK' /\ VisitOK' /\ HistoriesOK'
  BY <1>1 DEF Ask, TypeOK, ObjectOK, VisitOK, HistoriesOK, objectVars,
              visitVars, histories
<1>7. Numbers'
  <2>1. read <= sent' \/ (closing /\ read = 2 * done)
    BY <1>3 DEF Numbers, TypeOK, ClientOK, BufferOK
  <2> QED
    BY <1>3, <1>4, <2>1 DEF Numbers
<1> QED
  BY <1>5, <1>6, <1>7 DEF TypeOK

LEMMA ClientType ==
    ASSUME TypeOK, Numbers, SendBodyOfRequest \/ Leave \/ Tick
    PROVE  TypeOK' /\ Numbers'
<1>1. CASE SendBodyOfRequest
  <2>1. ClientOK' /\ Numbers'
    BY <1>1 DEF SendBodyOfRequest, TypeOK, ClientOK, BufferOK, Numbers
  <2> QED
    BY <1>1, <2>1 DEF SendBodyOfRequest, TypeOK, BufferOK, ObjectOK, VisitOK,
                      HistoriesOK, objectVars, visitVars, histories
<1>2. CASE Leave
  BY <1>2 DEF Leave, TypeOK, ClientOK, BufferOK, ObjectOK, VisitOK,
              HistoriesOK, objectVars, visitVars, histories, Numbers
<1>3. CASE Tick
  BY <1>3 DEF Tick, TypeOK, ClientOK, BufferOK, ObjectOK, VisitOK,
              HistoriesOK, clientVars, visitVars, histories, Numbers
<1> QED
  BY <1>1, <1>2, <1>3

LEMMA DeferredReplyType ==
    ASSUME TypeOK, Numbers, DeferredReply
    PROVE  TypeOK' /\ Numbers'
<1>1. Reply(isResp) /\ isResp \in BOOLEAN
  BY DEF DeferredReply, TypeOK, BufferOK
<1>2. /\ queued' \in Nat /\ isResp' \in BOOLEAN /\ draining' \in BOOLEAN
      /\ response' \in {NoResponse} \union 0 .. MaxBody
      /\ completed' \in BOOLEAN /\ idle' \in BOOLEAN
      /\ keepAlive' \in BOOLEAN /\ deferred' \in BOOLEAN
      /\ owner' = owner
      /\ replies' \in Seq(Nat)
  BY <1>1, ReplyType DEF TypeOK
<1> QED
  BY <1>2 DEF DeferredReply, TypeOK, ClientOK, BufferOK, ObjectOK, VisitOK,
              HistoriesOK, clientVars, visitVars, Numbers

LEMMA ParseType ==
    ASSUME TypeOK, Numbers, NothingToParse
    PROVE  TypeOK' /\ Numbers'
<1>1. at' \in Places
  BY AfterEventType DEF NothingToParse, TypeOK, VisitOK, Places
<1> QED
  BY <1>1 DEF NothingToParse, TypeOK, ClientOK, BufferOK, ObjectOK, VisitOK,
              HistoriesOK, clientVars, objectVars, histories, Numbers

LEMMA HeadersType ==
    ASSUME TypeOK, Numbers, Headers
    PROVE  TypeOK' /\ Numbers'
<1>1. at' \in Places
  BY AfterEventType DEF Headers, TypeOK, VisitOK, Places
<1>2. request \in 1 .. Len(asked)
  BY RequestInRange DEF Headers, TypeOK
<1>3. asked[request].keep \in BOOLEAN
  BY <1>2, KindsType DEF TypeOK
<1>3a. request \in 0 .. Len(asked) /\ request \in Nat
  BY <1>2 DEF TypeOK, ClientOK
<1>4. owner' \in 0 .. Len(asked) /\ queued' \in Nat
  <2>1. CASE Install
    BY <1>3a, <2>1 DEF Install, TypeOK, BufferOK
  <2>2. CASE RefuseMethod
    BY <2>2 DEF RefuseMethod, TypeOK, BufferOK, ObjectOK, objectVars
  <2>3. CASE Ignore
    BY <2>3 DEF Ignore, TypeOK, BufferOK, ObjectOK, objectVars
  <2> QED
    BY <2>1, <2>2, <2>3 DEF Headers
<1>5. /\ keepAlive' \in BOOLEAN /\ completed' \in BOOLEAN
      /\ idle' \in BOOLEAN /\ deferred' \in BOOLEAN
      /\ isResp' \in BOOLEAN /\ draining' \in BOOLEAN
  BY <1>3 DEF Headers, Install, RefuseMethod, Ignore, TypeOK, ObjectOK,
              BufferOK, objectVars
<1>6. response' \in {NoResponse} \union 0 .. MaxBody
  BY DEF Headers, Install, RefuseMethod, Ignore, TypeOK, ObjectOK, objectVars
<1>7. replies' \in Seq(Nat)
  <2>1. CASE RefuseMethod
    BY <1>3a, <2>1 DEF RefuseMethod, TypeOK, HistoriesOK
  <2>2. CASE Install \/ Ignore
    BY <2>2 DEF Install, Ignore, TypeOK, HistoriesOK
  <2> QED
    BY <2>1, <2>2 DEF Headers
<1> QED
  BY <1>1, <1>4, <1>5, <1>6, <1>7
     DEF Headers, TypeOK, ClientOK, BufferOK, ObjectOK, VisitOK, HistoriesOK,
         clientVars, Numbers

LEMMA MessageType ==
    ASSUME TypeOK, Numbers, Parsing, Message
    PROVE  TypeOK' /\ Numbers'
<1>1. at' \in Places
  BY AfterEventType DEF Message, TypeOK, VisitOK, Places
<1>2. /\ queued' \in Nat /\ isResp' \in BOOLEAN /\ draining' \in BOOLEAN
      /\ response' \in {NoResponse} \union 0 .. MaxBody
      /\ completed' \in BOOLEAN /\ idle' \in BOOLEAN
      /\ keepAlive' \in BOOLEAN /\ deferred' \in BOOLEAN
      /\ owner' = owner
      /\ HistoriesOK'
  <2>1. CASE Handler /\ Reply(TRUE)
    <3>1. asked[owner].to \in Endpoints \union {Nobody}
      BY <2>1, KindsType DEF Handler, TypeOK, ObjectOK
    <3>2. request \in Nat
      BY DEF request, TypeOK, BufferOK
    <3>3. handled' \in Seq([req : Nat, by : Endpoints \union {Nobody}])
      BY <2>1, <3>1, <3>2 DEF Handler, TypeOK, HistoriesOK
    <3> QED
      BY <2>1, <3>3, ReplyType DEF TypeOK, HistoriesOK
  <2>2. CASE Handler /\ ~Reply(TRUE)
    <3>1. asked[owner].to \in Endpoints \union {Nobody}
      BY <2>2, KindsType DEF Handler, TypeOK, ObjectOK
    <3>2. request \in Nat
      BY DEF request, TypeOK, BufferOK
    <3>3. handled' \in Seq([req : Nat, by : Endpoints \union {Nobody}])
      BY <2>2, <3>1, <3>2 DEF Handler, TypeOK, HistoriesOK
    <3> QED
      BY <2>2, <3>3 DEF Handler, TypeOK, BufferOK, ObjectOK, HistoriesOK
  <2>3. CASE ServerIgnores
    BY <2>3 DEF ServerIgnores, TypeOK, BufferOK, ObjectOK, HistoriesOK,
                objectVars, histories
  <2> QED
    BY <2>1, <2>2, <2>3 DEF Message
<1>3. /\ done' \in Nat /\ read' \in Nat
      /\ 2 * done' <= read' /\ done' <= Len(asked)
  BY DEF Message, Parsing, request, TypeOK, BufferOK, ClientOK
<1>4. read' <= sent \/ (closing /\ read' = 2 * done')
  <2>1. CASE ev = "close"
    BY <2>1 DEF Message, Parsing, request, TypeOK, BufferOK
  <2>2. CASE ev # "close"
    BY <2>2 DEF Message, Parsing, Numbers, TypeOK, BufferOK, request, ClientOK
  <2> QED
    BY <2>1, <2>2
<1>5. UNCHANGED <<ev, wasResp, readable, writable, closing, asked, sent, leaving>>
  BY DEF Message, clientVars
<1> QED
  BY <1>1, <1>2, <1>3, <1>4, <1>5
     DEF TypeOK, ClientOK, BufferOK, ObjectOK, VisitOK, Numbers

LEMMA VisitType ==
    ASSUME TypeOK, Numbers, Visit \/ EndVisit \/ handleClose
    PROVE  TypeOK' /\ Numbers'
<1>1. CASE Visit
  <2>1. VisitOK'
    BY <1>1 DEF Visit, TypeOK, BufferOK, ClientOK, VisitOK, Places, Events
  <2> QED
    BY <1>1, <2>1 DEF Visit, TypeOK, ClientOK, BufferOK, ObjectOK, HistoriesOK,
                      clientVars, objectVars, histories, Numbers
<1>2. CASE EndVisit
  <2>1. VisitOK' /\ closing' \in BOOLEAN /\ (closing => closing')
    BY <1>2 DEF EndVisit, TypeOK, BufferOK, VisitOK, Places, Events
  <2> QED
    BY <1>2, <2>1 DEF EndVisit, TypeOK, ClientOK, BufferOK, ObjectOK,
                      HistoriesOK, clientVars, objectVars, histories, Numbers
<1>3. CASE handleClose
  <2>1. owner' \in 0 .. Len(asked)
    BY <1>3 DEF handleClose, TypeOK, ClientOK
  <2> QED
    BY <1>3, <2>1 DEF handleClose, TypeOK, ClientOK, BufferOK, ObjectOK, VisitOK,
                      HistoriesOK, clientVars, histories, Numbers, Places
<1> QED
  BY <1>1, <1>2, <1>3

LEMMA PollType ==
    ASSUME TypeOK, Numbers, Poll
    PROVE  TypeOK' /\ Numbers'
<1>1. handlePoll(queued) /\ queued \in Nat
  BY DEF Poll, TypeOK, BufferOK
<1>2. /\ queued' \in Nat /\ isResp' \in BOOLEAN /\ draining' \in BOOLEAN
      /\ response' \in {NoResponse} \union 0 .. MaxBody
      /\ completed' \in BOOLEAN /\ idle' \in BOOLEAN
      /\ UNCHANGED <<owner, keepAlive, deferred, handled>>
      /\ replies' \in Seq(Nat)
  BY <1>1, HandlePollType DEF TypeOK
<1>3. VisitOK'
  BY DEF Poll, TypeOK, VisitOK, Places, Events
<1> QED
  BY <1>2, <1>3 DEF Poll, TypeOK, ClientOK, BufferOK, ObjectOK, HistoriesOK,
                    clientVars, Numbers

LEMMA ReadConnType ==
    ASSUME TypeOK, Numbers, ReadConn
    PROVE  TypeOK' /\ Numbers'
<1>1. VisitOK'
  BY DEF ReadConn, TypeOK, VisitOK, Places, Events
<1>2. read' \in Nat /\ closing' \in BOOLEAN /\ (closing => closing')
  BY DEF ReadConn, TypeOK, BufferOK, ClientOK
<1>3. read' = read \/ (read' = sent /\ sent > read)
  BY DEF ReadConn
<1>4. UNCHANGED <<asked, sent, leaving, done, queued, isResp, draining>>
  BY DEF ReadConn, clientVars
<1>5. Numbers'
  BY <1>2, <1>3, <1>4 DEF Numbers, TypeOK, BufferOK, ClientOK
<1> QED
  BY <1>1, <1>2, <1>4, <1>5 DEF ReadConn, TypeOK, ClientOK, BufferOK, ObjectOK,
                                HistoriesOK, objectVars, histories

LEMMA WriteConnType ==
    ASSUME TypeOK, Numbers, WriteConn
    PROVE  TypeOK' /\ Numbers'
<1>1. VisitOK' /\ UNCHANGED <<asked, sent, leaving, read, done>>
  BY DEF WriteConn, TypeOK, VisitOK, Places, clientVars
<1>2. CASE writable /\ (\E q \in 0 .. queued - 1 : handlePoll(q)) /\ UNCHANGED closing
  <2>1. PICK q \in 0 .. queued - 1 : handlePoll(q)
    BY <1>2
  <2>2. q \in Nat
    BY DEF TypeOK, BufferOK
  <2>3. /\ queued' \in Nat /\ isResp' \in BOOLEAN /\ draining' \in BOOLEAN
        /\ response' \in {NoResponse} \union 0 .. MaxBody
        /\ completed' \in BOOLEAN /\ idle' \in BOOLEAN
        /\ UNCHANGED <<owner, keepAlive, deferred, handled>>
        /\ replies' \in Seq(Nat)
    BY <2>1, <2>2, HandlePollType DEF TypeOK
  <2> QED
    BY <1>1, <1>2, <2>3 DEF TypeOK, ClientOK, BufferOK, ObjectOK, HistoriesOK,
                            Numbers
<1>3. CASE /\ closing' = (closing \/ writable)
           /\ UNCHANGED <<queued, isResp, draining, objectVars, histories>>
  <2>1. closing' \in BOOLEAN /\ (closing => closing')
    BY <1>3 DEF TypeOK, BufferOK, VisitOK
  <2> QED
    BY <1>1, <1>3, <2>1 DEF TypeOK, ClientOK, BufferOK, ObjectOK, HistoriesOK,
                            objectVars, histories, Numbers
<1> QED
  BY <1>2, <1>3 DEF WriteConn

\* http_cb gets a message in hand only by Headers.
LEMMA ParsingStep ==
    ASSUME TypeOK, Numbers, Parsing, [Next]_vars
    PROVE  Parsing'
<1>1. CASE Headers
  <2>1. request \in 1 .. Len(asked)
    BY <1>1, RequestInRange DEF Headers, TypeOK
  <2>2. at' = "message" => Complete \/ ev = "close"
    BY <1>1, AfterEventType DEF Headers, TypeOK, VisitOK
  <2> QED
    BY <1>1, <2>1, <2>2 DEF Headers, Parsing, Complete, request, clientVars,
                            TypeOK, ClientOK, BufferOK
<1>2. CASE Client
  <2>1. Len(asked') >= Len(asked) /\ UNCHANGED <<at, ev, read, done, closing>>
    BY <1>2 DEF Client, Ask, SendBodyOfRequest, Leave, visitVars, TypeOK, ClientOK
  <2> QED
    BY <2>1 DEF Parsing, TypeOK, ClientOK, BufferOK
<1>3. CASE EndVisit
  BY <1>3 DEF EndVisit, Parsing
<1>4. CASE NothingToParse \/ Message
  <2>1. at' # "message" /\ UNCHANGED <<ev, closing>>
    BY <1>4, AfterEventType DEF NothingToParse, Message, TypeOK, VisitOK
  <2> QED
    BY <2>1 DEF Parsing
<1>5. CASE Visit \/ Poll \/ handleClose
  BY <1>5 DEF Visit, Poll, handleClose, Parsing
<1>7. CASE ReadConn
  BY <1>7 DEF ReadConn, Parsing
<1>8. CASE WriteConn
  <2>1. at' = "end" /\ ev' = ev /\ (closing => closing')
    BY <1>8 DEF WriteConn, TypeOK, BufferOK, VisitOK
  <2> QED
    BY <2>1 DEF Parsing
<1>6. CASE Tick \/ DeferredReply \/ UNCHANGED vars
  BY <1>6 DEF Tick, DeferredReply, vars, clientVars, visitVars, Parsing
<1> QED
  BY <1>1, <1>2, <1>3, <1>4, <1>5, <1>6, <1>7, <1>8 DEF Next, Server

LEMMA TypeStep ==
    ASSUME TypeOK, Numbers, Parsing, [Next]_vars
    PROVE  TypeOK' /\ Numbers'
<1>1. CASE Client
  BY <1>1, AskType, ClientType DEF Client
<1>2. CASE Server
  BY <1>2, ParseType, HeadersType, MessageType, VisitType, PollType,
     ReadConnType, WriteConnType DEF Server
<1>3. CASE Tick \/ DeferredReply
  BY <1>3, ClientType, DeferredReplyType
<1>4. CASE UNCHANGED vars
  BY <1>4 DEF vars, TypeOK, ClientOK, BufferOK, ObjectOK, VisitOK, HistoriesOK,
              Numbers
<1> QED
  BY <1>1, <1>2, <1>3, <1>4 DEF Next

\* Types, for any clients: in particular an object is never installed for a
\* request that was not asked, and the send buffer is never overdrawn.
THEOREM TypeCorrect == Spec => []TypeOK
<1>1. Init => TypeOK /\ Numbers /\ Parsing
  BY TypeInit
<1>2. TypeOK /\ Numbers /\ Parsing /\ [Next]_vars
      => (TypeOK /\ Numbers /\ Parsing)'
  BY TypeStep, ParsingStep
<1> QED
  BY <1>1, <1>2, PTL DEF Spec
=============================================================================
