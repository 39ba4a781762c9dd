--------------------------- MODULE MongooseHttpBody ---------------------------
(***************************************************************************)
(* One message of HTTP on its way to the application: an upload to the     *)
(* server (MongooseHttpServerRequestUpload) or a response to the client    *)
(* (MongooseHttpClientRequest), with the part of http_cb that turns        *)
(* received bytes into MG_EV_HTTP_HDRS and MG_EV_HTTP_MSG, and its escape  *)
(* hatch: who removes the head from the receive buffer in MG_EV_HTTP_HDRS  *)
(* gets every later MG_EV_READ himself.                                    *)
(*                                                                         *)
(*   raw        an upload without a boundary, streamed                     *)
(*   multipart  an upload with one, buffered, handed over part by part     *)
(*   streamed   a response after setStreaming()                            *)
(*   buffered   any other response                                         *)
(*                                                                         *)
(* Bytes are positions in the message: the head is the one unit at         *)
(* position 0, the body the size units after it, and extra units follow.   *)
(* The receive buffer holds what is read and not yet taken.  A part of a   *)
(* multipart body is one unit.  The handlers run inside these calls and    *)
(* may answer or abort, so the place in the code is explicit.              *)
(***************************************************************************)
EXTENDS Integers

CONSTANTS
    Bodies,   \* the messages looked at: records of mode, size and extra
    Partial   \* the peer may close before it has sent all of it

Modes == {"raw", "multipart", "streamed", "buffered"}
ASSUME BodiesAssumption ==
    \A b \in Bodies : b.mode \in Modes /\ b.size \in Nat /\ b.extra \in Nat
ASSUME PartialAssumption == Partial \in BOOLEAN

VARIABLES
    msg,        \* the message
    sent,       \* units the peer has sent,
    leaving,    \* ... and whether it has closed its end
    read,       \* units read from the socket
    taken,      \* units deleted from the receive buffer
    parser,     \* http_cb is still attached
    streaming,  \* _streaming
    received,   \* _bodyReceived, _received or index
    done,       \* _streamDone
    responded,  \* _responseSent
    isResp,     \* is_resp
    draining,   \* is_draining
    closing,    \* is_closing
    at,         \* the place in the code, or the handler that runs
    after,      \* what follows the present call
    chunk,      \* units the handler "data" was given
    heard,      \* history: units of the body the handler got, in order,
    open,       \* ... whether it is inside a part, and
    messages    \* ... how often a whole message was handed over

wire == <<msg, sent, leaving>>
buffer == <<read, taken, parser>>
object == <<streaming, received, done>>
flags == <<responded, isResp, draining, closing>>
place == <<at, after, chunk>>
history == <<heard, open, messages>>
vars == <<msg, sent, leaving, read, taken, parser, streaming, received, done,
          responded, isResp, draining, closing, at, after, chunk, heard, open,
          messages>>

Handlers == {"request", "begin", "data", "end", "message"}
Places == Handlers \union {"rest", "parse", "receive", "part", "gone"}

mode == msg.mode
size == msg.size
upload == mode \in {"raw", "multipart"}
Least(a, b) == IF a < b THEN a ELSE b
recv == read - taken

Gap == -1
\* The handler gets n units, the first of them number first of the body.
Hears(first, n) ==
    heard' = IF first = heard /\ heard + n <= size THEN heard + n ELSE Gap

Init ==
    /\ msg \in Bodies
    /\ sent = 0 /\ leaving = FALSE
    /\ read = 0 /\ taken = 0 /\ parser = TRUE
    /\ streaming = FALSE /\ received = 0 /\ done = FALSE
    /\ responded = FALSE /\ isResp = FALSE /\ draining = FALSE /\ closing = FALSE
    /\ at = "rest" /\ after = "rest" /\ chunk = 0
    /\ heard = 0 /\ open = FALSE /\ messages = 0
-----------------------------------------------------------------------------
(* The peer and the socket *)

SendMore ==
    /\ ~leaving /\ sent < 1 + size + msg.extra
    /\ sent' = sent + 1
    /\ UNCHANGED <<msg, leaving, buffer, object, flags, place, history>>

Leave ==
    /\ ~leaving /\ (Partial \/ sent >= 1 + size)
    /\ leaving' = TRUE
    /\ UNCHANGED <<msg, sent, buffer, object, flags, place, history>>

\* MG_EV_READ: http_cb first, if it is attached, and then the object.
Read(n) ==
    /\ at = "rest" /\ ~closing /\ n \in 1 .. (sent - read)
    /\ read' = read + n
    /\ at' = IF parser THEN "parse" ELSE "receive"
    /\ UNCHANGED <<wire, taken, parser, object, flags, after, chunk, history>>

PeerGone ==
    /\ at = "rest" /\ ~closing /\ leaving /\ read = sent
    /\ closing' = TRUE
    /\ UNCHANGED <<wire, buffer, object, responded, isResp, draining, place, history>>

\* MG_EV_CLOSE, which http_cb parses for as well.  A draining connection
\* closes when its send buffer is empty, sooner or later.
Close ==
    /\ at = "rest" /\ (closing \/ draining)
    /\ closing' = TRUE
    /\ at' = IF parser THEN "parse" ELSE "gone"
    /\ after' = "closed"
    /\ UNCHANGED <<wire, buffer, object, responded, isResp, draining, chunk, history>>
-----------------------------------------------------------------------------
(* http_cb *)

\* The call is over.  When http_cb detached itself the same MG_EV_READ goes to
\* the object, which receives on.
Onward(then) ==
    /\ at' = CASE then = "closed" -> "gone" [] then = "again" -> "receive"
               [] OTHER -> "rest"
    /\ after' = "rest"

Escapes == mode = "raw" \/ (mode = "streamed" /\ size > 0)

\* Mutation of Complete: a message that ends with the buffer is incomplete.
MoreThanComplete == recv > 1 + size \/ after = "closed"

Complete == recv >= 1 + size \/ after = "closed"

NothingToParse ==
    /\ at = "parse"
    /\ isResp \/ recv = 0 \/ taken > 0 \/ (~Escapes /\ ~Complete)
    /\ Onward(after)
    /\ UNCHANGED <<wire, buffer, object, flags, chunk, history>>

\* What follows the message is no head, nor the beginning of one: http_cb
\* drops it and drains.
Malformed ==
    /\ at = "parse" /\ ~isResp /\ recv > 0 /\ taken > 0
    /\ taken' = read /\ draining' = TRUE
    /\ Onward(after)
    /\ UNCHANGED <<wire, read, parser, object, responded, isResp, closing, chunk,
                   history>>

\* Mutation of Detach: the head stays in the receive buffer of a response.
DetachWithHead ==
    /\ at = "parse" /\ ~isResp /\ recv > 0 /\ taken = 0 /\ Escapes
    /\ taken' = IF upload THEN 1 ELSE 0
    /\ parser' = FALSE
    /\ streaming' = TRUE /\ received' = 0
    /\ at' = IF upload THEN "request" ELSE "receive"
    /\ after' = "again"
    /\ open' = ~upload
    /\ UNCHANGED <<wire, read, done, flags, chunk, heard, messages>>

\* MG_EV_HTTP_HDRS through the escape hatch.  The upload calls the request
\* handler, both receive what has come with the head.
Detach ==
    /\ at = "parse" /\ ~isResp /\ recv > 0 /\ taken = 0 /\ Escapes
    /\ taken' = 1
    /\ parser' = FALSE
    /\ streaming' = TRUE /\ received' = 0
    /\ at' = IF upload THEN "request" ELSE "receive"
    /\ after' = "again"
    /\ open' = ~upload
    /\ UNCHANGED <<wire, read, done, flags, chunk, heard, messages>>

\* MG_EV_HTTP_MSG, when all of it is there or nothing more will come.
Message ==
    /\ at = "parse" /\ ~isResp /\ recv > 0 /\ taken = 0 /\ ~Escapes /\ Complete
    /\ taken' = IF after = "closed" THEN read ELSE 1 + size
    /\ isResp' = upload
    /\ messages' = messages + 1
    /\ at' = IF upload THEN "request" ELSE "message"
    /\ UNCHANGED <<wire, read, parser, object, responded, draining, closing, after,
                   chunk, heard, open>>
-----------------------------------------------------------------------------
(* onReceive() *)

\* What is handed over next: no more than the body still lacks, if it lacks
\* anything (of a response it does).
Part ==
    IF size > received THEN Least(recv, size - received) ELSE recv

\* Mutation of MayReceive: an answer or an abort does not stop it.
MayReceiveAnswered == streaming /\ recv > 0 /\ (~upload => received < size)

MayReceive ==
    /\ streaming /\ recv > 0
    /\ IF upload THEN ~responded ELSE received < size /\ ~closing

Receive ==
    /\ at = "receive" /\ MayReceive
    /\ chunk' = Part
    /\ received' = IF upload THEN received ELSE received + Part
    /\ Hears(taken - 1, Part)
    /\ at' = "data"
    /\ UNCHANGED <<wire, buffer, streaming, done, flags, after, open, messages>>

\* onResponse() after the last byte.  Nothing is meant to follow.
Finish ==
    /\ at = "receive" /\ ~upload /\ streaming /\ received >= size /\ ~done
    /\ done' = TRUE
    /\ taken' = read
    /\ open' = FALSE
    /\ at' = "end"
    /\ UNCHANGED <<wire, read, parser, streaming, received, flags, after, chunk,
                   heard, messages>>

ReceiveEnds ==
    /\ at = "receive" /\ ~MayReceive
    /\ upload \/ ~streaming \/ received < size \/ done
    /\ Onward(after)
    /\ UNCHANGED <<wire, buffer, object, flags, chunk, history>>
-----------------------------------------------------------------------------
(* A handler returns *)

\* Back in http_cb, which looks at what is left, or in onReceive() if it is
\* detached.
Unwinds ==
    IF parser THEN at' = "parse" /\ UNCHANGED after ELSE Onward(after)

\* onRequest() of an upload.
RequestReturns ==
    /\ at = "request"
    /\ IF responded THEN Unwinds /\ UNCHANGED open
       ELSE IF mode = "raw" THEN at' = "begin" /\ open' = TRUE /\ UNCHANGED after
       ELSE at' = "part" /\ UNCHANGED <<after, open>>
    /\ UNCHANGED <<wire, buffer, object, flags, chunk, heard, messages>>

\* MG_EV_HTTP_PART_BEGIN of a raw upload; the constructor receives.
RawBegun ==
    /\ at = "begin" /\ mode = "raw"
    /\ IF responded THEN Unwinds ELSE at' = "receive" /\ UNCHANGED after
    /\ UNCHANGED <<wire, buffer, object, flags, chunk, history>>

\* ... of a part of a multipart body, which is handed over at once.
PartBegun ==
    /\ at = "begin" /\ mode = "multipart"
    /\ IF responded
       THEN Unwinds /\ UNCHANGED <<chunk, heard>>
       ELSE at' = "data" /\ chunk' = 1 /\ Hears(received, 1) /\ UNCHANGED after
    /\ UNCHANGED <<wire, buffer, object, flags, open, messages>>

\* MG_EV_HTTP_PART_DATA of a raw upload.
RawDataTaken ==
    /\ at = "data" /\ mode = "raw"
    /\ received' = received + chunk /\ taken' = taken + chunk
    /\ IF size = 0 \/ received' < size THEN at' = "receive" /\ UNCHANGED <<after, open>>
       ELSE IF responded THEN Unwinds /\ UNCHANGED open
       ELSE at' = "end" /\ open' = FALSE /\ UNCHANGED after
    /\ UNCHANGED <<wire, read, parser, streaming, done, flags, chunk, heard,
                   messages>>

\* onBody() of a streamed response, which may have aborted it.
ResponseDataTaken ==
    /\ at = "data" /\ mode = "streamed"
    /\ taken' = taken + chunk
    /\ at' = "receive"
    /\ UNCHANGED <<wire, read, parser, object, flags, after, chunk, history>>

PartDataTaken ==
    /\ at = "data" /\ mode = "multipart"
    /\ received' = received + chunk
    /\ IF responded THEN Unwinds /\ UNCHANGED open
       ELSE at' = "end" /\ open' = FALSE /\ UNCHANGED after
    /\ UNCHANGED <<wire, buffer, streaming, done, flags, chunk, heard, messages>>

\* The next part, if mg_http_next_multipart() finds a whole one.
NextPart ==
    /\ at = "part"
    /\ IF received < Least(size, read - 1)
       THEN at' = "begin" /\ open' = TRUE /\ UNCHANGED after
       ELSE Unwinds /\ UNCHANGED open
    /\ UNCHANGED <<wire, buffer, object, flags, chunk, heard, messages>>

\* MG_EV_HTTP_PART_END, or onResponse() of a streamed response.
EndReturns ==
    /\ at = "end"
    /\ IF mode = "multipart" /\ ~responded
       THEN at' = "part" /\ UNCHANGED after
       ELSE Unwinds
    /\ UNCHANGED <<wire, buffer, object, flags, chunk, history>>

MessageReturns ==
    /\ at = "message"
    /\ Unwinds
    /\ UNCHANGED <<wire, buffer, object, flags, chunk, history>>
-----------------------------------------------------------------------------
(* What the application does, in a handler or later *)

\* It has been given the request or made it.
Mine == at \in Handlers \/ (at = "rest" /\ (upload => ~parser \/ messages > 0))

\* send(code): the answer in one piece, after which the connection drains.
Respond ==
    /\ upload /\ Mine /\ ~responded
    /\ responded' = TRUE /\ isResp' = FALSE /\ draining' = TRUE
    /\ UNCHANGED <<wire, buffer, object, closing, place, history>>

\* disconnect(), and cancel() of the client.
Cancel ==
    /\ Mine
    /\ draining' = TRUE
    /\ UNCHANGED <<wire, buffer, object, responded, isResp, closing, place, history>>

Abort ==
    /\ Mine
    /\ closing' = TRUE
    /\ UNCHANGED <<wire, buffer, object, responded, isResp, draining, place, history>>
-----------------------------------------------------------------------------
Returns ==
    \/ RequestReturns \/ RawBegun \/ PartBegun
    \/ RawDataTaken \/ ResponseDataTaken \/ PartDataTaken
    \/ NextPart \/ EndReturns \/ MessageReturns

Library ==
    \/ \E n \in 1 .. (sent - read) : Read(n)
    \/ PeerGone \/ Close
    \/ NothingToParse \/ Malformed \/ Detach \/ Message
    \/ Receive \/ Finish \/ ReceiveEnds
    \/ Returns

Next == SendMore \/ Leave \/ Library \/ Respond \/ Cancel \/ Abort

Spec == Init /\ [][Next]_vars

\* The application polls, and its handlers return.  The peer need not go on.
LiveSpec == Spec /\ WF_vars(Library)
-----------------------------------------------------------------------------
(* Properties *)

FlagsOK ==
    /\ leaving \in BOOLEAN /\ parser \in BOOLEAN
    /\ streaming \in BOOLEAN /\ done \in BOOLEAN
    /\ responded \in BOOLEAN /\ isResp \in BOOLEAN
    /\ draining \in BOOLEAN /\ closing \in BOOLEAN
    /\ open \in BOOLEAN
WireOK == msg \in Bodies /\ sent \in 0 .. (1 + size + msg.extra)
BufferOK == read \in 0 .. sent /\ taken \in 0 .. read
PlaceOK ==
    /\ at \in Places /\ after \in {"rest", "again", "closed"}
    /\ chunk \in Nat /\ received \in Nat
HistoryOK == heard \in 0 .. size /\ messages \in 0 .. 1

\* The types of the variables, with the order sent >= read >= taken of the
\* places in the message, which the sizes given to mg_iobuf_del() must respect,
\* and with no message that is handed over whole more than once.
TypeOK == FlagsOK /\ WireOK /\ BufferOK /\ PlaceOK /\ HistoryOK

\* The transfer as its handler sees it.
stopped ==
    \/ at = "gone" \/ responded
    \/ mode = "streamed" /\ closing /\ heard < size
    \/ heard = size /\ size > 0 /\ ~open
length == IF size = 0 THEN 1 ELSE size
part == IF mode = "multipart" \/ size = 0 THEN 1 ELSE size
until ==
    IF ~open \/ stopped THEN 0
    ELSE IF mode # "multipart" THEN length
    ELSE IF at = "begin" THEN heard + 1 ELSE heard
Stream == INSTANCE MongooseBodyStream WITH size <- length, over <- stopped

\* onUpload() and onBody() get the body as MongooseBodyStream says, however the
\* bytes are cut up on the way.  After the answer to an upload and after the
\* abort of a streamed response, in whichever handler, nothing more comes.
KeepsTheStream == Stream!Spec

\* What has been sent whole is handed over whole, unless the application stops
\* it or the peer leaves before it is read.
Completes ==
    sent >= 1 + size ~> messages = 1 \/ stopped \/ draining \/ closing
=============================================================================
