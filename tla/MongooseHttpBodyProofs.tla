------------------------ MODULE MongooseHttpBodyProofs ------------------------
(***************************************************************************)
(* What a handler of a body may count on is proved here for bodies of any  *)
(* length, cut up in any way, with answers, aborts and a lost connection   *)
(* at any place: MongooseHttpBody implements MongooseBodyStream.           *)
(*                                                                         *)
(* Proved for raw uploads that nothing follows on the connection: what     *)
(* comes behind one is handed over as if it were part of it.               *)
(*                                                                         *)
(* The invariant is one relation per way a body takes, between the units   *)
(* deleted from the receive buffer, the counter of the object and what the *)
(* handler has heard.  They agree whenever no handler of data is running;  *)
(* inside one the counter of an upload is behind by the chunk, that of a   *)
(* response is not, while the receive buffer is behind in both.            *)
(***************************************************************************)
EXTENDS MongooseHttpBody, TLAPS

NothingFollows ==
    \A b \in Bodies : b.mode = "raw" => b.extra = 0

Attached ==
    /\ at = "parse" => parser
    /\ parser => after # "again"
    /\ taken = 0 => messages = 0
    /\ mode = "raw" => msg.extra = 0

Untouched == received = 0 /\ heard = 0 /\ ~open /\ ~done

RawParsed ==
    /\ parser
    /\ taken = 0 /\ Untouched /\ ~responded
    /\ at \in {"rest", "parse", "gone"}

RawDetached ==
    /\ ~parser
    /\ taken >= 1 /\ received = taken - 1
    /\ at \in {"rest", "request", "begin", "receive", "data", "end", "gone"}
    /\ at = "request" => Untouched
    /\ at = "begin" => open
    /\ at = "data" => open /\ chunk \in 1 .. recv /\ heard = received + chunk
    /\ at # "data" => heard = received
    /\ ~open => at = "request" \/ responded \/ heard = size

RawOK == mode = "raw" => RawParsed \/ RawDetached

MultipartOK ==
    mode = "multipart" =>
        /\ parser /\ received <= size
        /\ at \in {"rest", "parse", "request", "begin", "data", "part", "end", "gone"}
        /\ taken = 0 => Untouched /\ ~responded /\ at \in {"rest", "parse", "gone"}
        /\ at = "request" => Untouched
        /\ at = "begin" => open /\ received < size
        /\ at = "data" => open /\ chunk = 1 /\ heard = received + 1
        /\ at # "data" => heard = received
        /\ at = "part" => ~responded
        /\ at \in {"part", "end"} => ~open
        /\ open => at \in {"begin", "data"} \/ responded

StreamedParsed ==
    /\ parser
    /\ Untouched
    /\ at \in {"rest", "parse", "message", "gone"}

StreamedDetached ==
    /\ ~parser
    /\ size > 0 /\ taken >= 1 /\ heard = received
    /\ at \in {"rest", "receive", "data", "end", "gone"}
    /\ at = "data" => ~done /\ chunk \in 1 .. recv /\ received = taken - 1 + chunk
    /\ at # "data" /\ ~done => received = taken - 1
    /\ ~done => open
    /\ done => ~open /\ received = size

StreamedOK ==
    mode = "streamed" => ~responded /\ (StreamedParsed \/ StreamedDetached)

BufferedOK ==
    mode = "buffered" => ~responded /\ StreamedParsed

Inv == TypeOK /\ Attached /\ RawOK /\ MultipartOK /\ StreamedOK /\ BufferedOK
-----------------------------------------------------------------------------
(* The types *)

LEMMA MessageType ==
    ASSUME WireOK
    PROVE  mode \in Modes /\ size \in Nat /\ msg.extra \in Nat
BY BodiesAssumption DEF WireOK, mode, size

\* What onReceive() hands over is there, and is no more than the body lacks.
LEMMA PartBounds ==
    ASSUME TypeOK, recv > 0
    PROVE  Part \in 1 .. recv /\ (size > received => Part <= size - received)
<1>1. size \in Nat /\ received \in Nat /\ recv \in Nat
  BY MessageType DEF TypeOK, WireOK, BufferOK, PlaceOK, recv
<1> QED
  BY <1>1 DEF Part, Least

LEMMA InvInit == NothingFollows /\ Init => Inv
<1> SUFFICES ASSUME NothingFollows, Init PROVE Inv
  OBVIOUS
<1>1. mode \in Modes /\ size \in Nat /\ msg.extra \in Nat
  BY BodiesAssumption DEF Init, mode, size
<1>2. TypeOK
  <2>1. WireOK
    BY <1>1 DEF Init, WireOK
  <2>2. BufferOK
    BY DEF Init, BufferOK
  <2>3. PlaceOK
    BY DEF Init, PlaceOK, Places
  <2>4. HistoryOK
    BY <1>1 DEF Init, HistoryOK
  <2>5. FlagsOK
    BY Zenon DEF Init, FlagsOK
  <2> QED
    BY <2>1, <2>2, <2>3, <2>4, <2>5 DEF TypeOK
<1>3. Attached
  BY DEF Init, Attached, mode, NothingFollows
<1>4. RawOK /\ MultipartOK /\ StreamedOK /\ BufferedOK
  BY <1>1 DEF Init, RawOK, RawParsed, Untouched, MultipartOK, StreamedOK,
     StreamedParsed, BufferedOK
<1> QED
  BY <1>2, <1>3, <1>4 DEF Inv

\* http_cb is detached when a handler of data of a raw upload runs.
LEMMA RawRunsDetached ==
    ASSUME Inv, mode = "raw", at = "data"
    PROVE  RawDetached /\ open /\ chunk \in 1 .. recv
BY DEF Inv, RawOK, RawParsed, RawDetached

LEMMA FlagsStep ==
    ASSUME FlagsOK, [Next]_vars
    PROVE  FlagsOK'
<1> USE DEF FlagsOK, wire, buffer, object, flags, place, history
<1>1. CASE SendMore \/ Leave \/ (\E n \in 1 .. (sent - read) : Read(n)) \/ PeerGone \/ Close
  BY <1>1, Zenon DEF SendMore, Leave, Read, PeerGone, Close
<1>2. CASE NothingToParse \/ Malformed \/ Detach \/ Message
  <2>1. upload \in BOOLEAN /\ (~upload) \in BOOLEAN
    BY DEF upload
  <2> QED
    BY <1>2, <2>1, Zenon DEF NothingToParse, Malformed, Detach, Message
<1>3. CASE Receive \/ Finish \/ ReceiveEnds
  BY <1>3, Zenon DEF Receive, Finish, ReceiveEnds
<1>4. CASE RequestReturns \/ RawBegun \/ PartBegun
  BY <1>4, Zenon DEF RequestReturns, RawBegun, PartBegun
<1>5. CASE RawDataTaken \/ ResponseDataTaken \/ PartDataTaken
  BY <1>5, Zenon DEF RawDataTaken, ResponseDataTaken, PartDataTaken
<1>6. CASE NextPart \/ EndReturns \/ MessageReturns
  BY <1>6, Zenon DEF NextPart, EndReturns, MessageReturns
<1>7. CASE Respond \/ Cancel \/ Abort
  BY <1>7, Zenon DEF Respond, Cancel, Abort
<1>8. CASE UNCHANGED vars
  BY <1>8, Zenon DEF vars
<1> QED
  BY <1>1, <1>2, <1>3, <1>4, <1>5, <1>6, <1>7, <1>8 DEF Next, Library, Returns

LEMMA TypeStep ==
    ASSUME Inv, [Next]_vars
    PROVE  TypeOK'
<1> SUFFICES (WireOK /\ BufferOK /\ PlaceOK /\ HistoryOK)'
  BY FlagsStep DEF Inv, TypeOK
<1> USE DEF Inv, TypeOK, WireOK, BufferOK, PlaceOK, HistoryOK, wire,
        buffer, object, flags, place, history, recv, size, Places, Handlers
<1>1. mode \in Modes /\ size \in Nat /\ msg.extra \in Nat
  BY MessageType
<1>2. CASE SendMore \/ Leave
  BY <1>1, <1>2 DEF SendMore, Leave
<1>3. CASE \E n \in 1 .. (sent - read) : Read(n)
  BY <1>1, <1>3 DEF Read
<1>4. CASE PeerGone \/ Close
  BY <1>1, <1>4 DEF PeerGone, Close
<1>5. CASE NothingToParse \/ ReceiveEnds
  BY <1>1, <1>5 DEF NothingToParse, ReceiveEnds, Onward
<1>6. CASE Malformed
  BY <1>1, <1>6 DEF Malformed, Onward
<1>7. CASE Detach
  BY <1>1, <1>7 DEF Detach, upload
<1>8. CASE Message
  BY <1>1, <1>8 DEF Message, Complete, Attached, upload
<1>9. CASE Receive
  <2>1. recv > 0 /\ Part \in 1 .. recv /\ (size > received => Part <= size - received)
    BY <1>9, PartBounds DEF Receive, MayReceive
  <2>2. heard' \in 0 .. size
    <3>1. CASE mode = "raw"
      BY <1>1, <1>9, <2>1, <3>1 DEF Receive, RawOK, RawParsed, RawDetached, Hears,
         Attached, upload
    <3>2. CASE mode = "streamed"
      BY <1>1, <1>9, <2>1, <3>2 DEF Receive, StreamedOK, StreamedParsed, MayReceive,
         StreamedDetached, Hears, upload
    <3> QED
      BY <1>1, <1>9, <3>1, <3>2 DEF Receive, MultipartOK, BufferedOK, StreamedParsed,
         Modes
  <2> QED
    BY <1>1, <1>9, <2>1, <2>2 DEF Receive
<1>10. CASE Finish
  BY <1>1, <1>10 DEF Finish
<1>11. CASE RequestReturns \/ RawBegun \/ NextPart \/ EndReturns \/ MessageReturns
  BY <1>1, <1>11 DEF RequestReturns, RawBegun, NextPart, EndReturns, MessageReturns,
     Unwinds, Onward
<1>12. CASE PartBegun
  BY <1>1, <1>12 DEF PartBegun, MultipartOK, Hears, Unwinds, Onward
<1>13. CASE RawDataTaken
  <2>1. RawDetached /\ chunk \in 1 .. recv
    BY <1>13, RawRunsDetached DEF RawDataTaken
  <2>2. UNCHANGED <<msg, sent, read, chunk, heard, messages>>
    BY <1>13 DEF RawDataTaken
  <2>3. taken' \in 0 .. read /\ received' \in Nat
    BY <1>13, <2>1 DEF RawDataTaken
  <2>4. at' \in Places /\ after' \in {"rest", "again", "closed"}
    BY <1>13 DEF RawDataTaken, Unwinds, Onward
  <2> QED
    BY <1>1, <2>2, <2>3, <2>4
<1>14. CASE ResponseDataTaken
  BY <1>1, <1>14 DEF ResponseDataTaken, StreamedOK, StreamedParsed, StreamedDetached
<1>15. CASE PartDataTaken
  BY <1>1, <1>15 DEF PartDataTaken, Unwinds, Onward
<1>16. CASE Respond \/ Cancel \/ Abort
  BY <1>1, <1>16 DEF Respond, Cancel, Abort
<1>17. CASE UNCHANGED vars
  BY <1>1, <1>17 DEF vars
<1> QED
  BY <1>2, <1>3, <1>4, <1>5, <1>6, <1>7, <1>8, <1>9, <1>10, <1>11, <1>12, <1>13,
     <1>14, <1>15, <1>16, <1>17 DEF Next, Library, Returns

LEMMA AttachedStep ==
    ASSUME Inv, [Next]_vars
    PROVE  Attached'
<1> USE DEF Inv, Attached, wire, buffer, object, flags, place, history, upload, mode
<1>1. CASE SendMore \/ Leave \/ PeerGone \/ Close
  BY <1>1 DEF SendMore, Leave, PeerGone, Close
<1>2. CASE \E n \in 1 .. (sent - read) : Read(n)
  BY <1>2 DEF Read
<1>3. CASE NothingToParse \/ Malformed \/ ReceiveEnds
  BY <1>3 DEF NothingToParse, Malformed, ReceiveEnds, Onward, TypeOK, BufferOK
<1>4. CASE Detach \/ Receive \/ Finish
  BY <1>4 DEF Detach, Receive, Finish, TypeOK, BufferOK, Escapes
<1>5. CASE Message
  BY <1>5, MessageType DEF Message, TypeOK, BufferOK, recv, size
<1>6. CASE RequestReturns \/ RawBegun \/ PartBegun
  BY <1>6 DEF RequestReturns, RawBegun, PartBegun, Unwinds, Onward
<1>7. CASE RawDataTaken
  <2>1. RawDetached /\ chunk \in 1 .. recv
    BY <1>7, RawRunsDetached DEF RawDataTaken
  <2>2. taken' # 0 /\ ~parser' /\ UNCHANGED msg
    BY <1>7, <2>1 DEF RawDataTaken, RawDetached, recv, TypeOK, BufferOK
  <2>3. at' # "parse"
    BY <1>7, <2>1 DEF RawDataTaken, RawDetached, Unwinds, Onward
  <2> QED
    BY <2>2, <2>3
<1>8. CASE ResponseDataTaken
  BY <1>8 DEF ResponseDataTaken, StreamedOK, StreamedParsed, StreamedDetached, recv,
     TypeOK, BufferOK
<1>9. CASE PartDataTaken \/ NextPart \/ EndReturns \/ MessageReturns
  BY <1>9 DEF PartDataTaken, NextPart, EndReturns, MessageReturns, Unwinds, Onward
<1>10. CASE Respond \/ Cancel \/ Abort
  BY <1>10 DEF Respond, Cancel, Abort
<1>11. CASE UNCHANGED vars
  BY <1>11 DEF vars
<1> QED
  BY <1>1, <1>2, <1>3, <1>4, <1>5, <1>6, <1>7, <1>8, <1>9, <1>10, <1>11
     DEF Next, Library, Returns

LEMMA MessageKept ==
    ASSUME [Next]_vars
    PROVE  UNCHANGED <<msg, mode, size>>
BY DEF Next, Library, Returns, vars, SendMore, Leave, Read, PeerGone, Close,
   NothingToParse, Malformed, Detach, Message, Receive, Finish, ReceiveEnds,
   RequestReturns, RawBegun, PartBegun, RawDataTaken, ResponseDataTaken,
   PartDataTaken, NextPart, EndReturns, MessageReturns, Respond, Cancel, Abort, wire,
   mode, size

\* The buffer of a raw upload ends with its body.
LEMMA NothingBehind ==
    ASSUME Inv, mode = "raw"
    PROVE  /\ size \in Nat /\ received \in Nat /\ read \in Nat /\ taken \in Nat
           /\ heard \in Nat /\ heard <= size /\ recv \in Nat
           /\ read <= 1 + size /\ taken <= read
BY MessageType DEF Inv, TypeOK, WireOK, BufferOK, PlaceOK, HistoryOK, Attached, recv

LEMMA RawStep ==
    ASSUME Inv, [Next]_vars
    PROVE  RawOK'
<1> SUFFICES ASSUME mode = "raw" PROVE (RawParsed \/ RawDetached)'
  BY MessageKept DEF RawOK
<1> USE DEF Untouched, wire, buffer, object, flags, place, history, recv
<1>0. /\ size' = size /\ (RawParsed \/ RawDetached) /\ Attached /\ upload
      /\ ~(at \in {"part", "message"})
  BY MessageKept DEF Inv, RawOK, upload, RawParsed, RawDetached
<1>n. /\ size \in Nat /\ received \in Nat /\ read \in Nat /\ taken \in Nat
      /\ heard \in Nat /\ heard <= size
      /\ read <= 1 + size /\ taken <= read
  BY <1>0, NothingBehind
<1>1. CASE SendMore \/ Leave
  BY <1>0, <1>1 DEF SendMore, Leave, RawParsed, RawDetached
<1>2. CASE \E n \in 1 .. (sent - read) : Read(n)
  BY <1>0, <1>2 DEF Read, RawParsed, RawDetached
<1>3. CASE PeerGone \/ Close
  BY <1>0, <1>3 DEF PeerGone, Close, RawParsed, RawDetached
<1>4. CASE NothingToParse
  BY <1>0, <1>4 DEF NothingToParse, Onward, Attached, RawParsed, RawDetached
<1>5. CASE Malformed \/ Message
  BY <1>0, <1>5 DEF Malformed, Message, Escapes, Attached, RawParsed, RawDetached
<1>6. CASE Detach
  <2>1. RawParsed
    BY <1>0, <1>6 DEF Detach, Attached, RawDetached
  <2>2. ~parser' /\ ~open' /\ ~done'
    <3>1. parser' = FALSE /\ done' = done /\ open' = ~upload
      BY <1>6, Zenon DEF Detach
    <3>2. upload /\ ~done
      BY <1>0, <2>1 DEF RawParsed
    <3> QED
      BY <3>1, <3>2, Zenon
  <2> QED
    BY <1>0, <1>6, <2>1, <2>2 DEF Detach, RawParsed, RawDetached
<1>7. CASE Receive
  <2>1. recv > 0 /\ Part \in 1 .. recv /\ (size > received => Part <= size - received)
    BY <1>7, PartBounds DEF Inv, Receive, MayReceive
  <2>2. RawDetached /\ at = "receive" /\ ~responded
    BY <1>0, <1>7 DEF Receive, MayReceive, RawParsed
  <2>3. heard = received /\ received = taken - 1 /\ received < size /\ open
    BY <1>n, <2>1, <2>2 DEF RawDetached
  <2>4. heard' = heard + Part
    <3>1. heard' = IF taken - 1 = heard /\ heard + Part <= size
                   THEN heard + Part ELSE Gap
      BY <1>7 DEF Receive, Hears
    <3>2. Part \in Int /\ heard + Part <= size /\ taken - 1 = heard
      BY <1>n, <2>1, <2>3
    <3> QED
      BY <3>1, <3>2
  <2> QED
    BY <1>0, <1>7, <2>1, <2>2, <2>3, <2>4 DEF Receive, RawDetached
<1>8. CASE Finish \/ ReceiveEnds
  BY <1>0, <1>8 DEF Finish, ReceiveEnds, Onward, RawParsed, RawDetached
<1>9. CASE RequestReturns \/ RawBegun
  BY <1>0, <1>9 DEF RequestReturns, RawBegun, Unwinds, Onward, RawParsed, RawDetached
<1>10. CASE RawDataTaken
  <2>1. RawDetached /\ open /\ chunk \in 1 .. recv
    BY <1>10, RawRunsDetached DEF RawDataTaken
  <2>2. /\ ~parser' /\ taken' >= 1 /\ received' = taken' - 1 /\ heard' = received'
        /\ received' <= size
    BY <1>10, <1>n, <2>1 DEF RawDataTaken, RawDetached
  <2>3. \/ at' = "receive" /\ open'
        \/ responded' /\ at' \in {"rest", "receive", "gone"}
        \/ at' = "end" /\ received' >= size
    <3>1. ~parser /\ UNCHANGED responded /\ (responded => responded')
      BY <1>10, <2>1 DEF RawDataTaken, RawDetached
    <3>2. CASE size = 0 \/ received' < size
      <4>1. at' = "receive" /\ open' = open
        BY <1>10, <3>2, Zenon DEF RawDataTaken
      <4> QED
        BY <2>1, <4>1, Zenon
    <3>3. CASE size > 0 /\ received' >= size /\ responded
      <4>1. Unwinds
        BY <1>10, <1>n, <2>2, <3>3 DEF RawDataTaken
      <4> QED
        BY <3>1, <3>3, <4>1 DEF Unwinds, Onward
    <3>4. CASE size > 0 /\ received' >= size /\ ~responded
      BY <1>10, <1>n, <2>2, <3>4 DEF RawDataTaken
    <3> QED
      BY <1>n, <2>2, <3>2, <3>3, <3>4 DEF RawDetached
  <2> QED
    BY <1>0, <1>n, <2>2, <2>3 DEF RawDetached
<1>11. CASE PartBegun \/ ResponseDataTaken \/ PartDataTaken \/ NextPart \/ MessageReturns
  BY <1>0, <1>11 DEF PartBegun, ResponseDataTaken, PartDataTaken, NextPart,
     MessageReturns
<1>12. CASE EndReturns
  BY <1>0, <1>12 DEF EndReturns, Unwinds, Onward, RawParsed, RawDetached
<1>13. CASE Respond \/ Cancel \/ Abort
  BY <1>0, <1>13 DEF Respond, Cancel, Abort, Mine, Handlers, Attached, RawParsed,
     RawDetached
<1>14. CASE UNCHANGED vars
  BY <1>0, <1>14 DEF vars, RawParsed, RawDetached
<1> QED
  BY <1>1, <1>2, <1>3, <1>4, <1>5, <1>6, <1>7, <1>8, <1>9, <1>10, <1>11, <1>12,
     <1>13, <1>14 DEF Next, Library, Returns

LEMMA MultipartStep ==
    ASSUME Inv, [Next]_vars
    PROVE  MultipartOK'
<1> SUFFICES ASSUME mode = "multipart" PROVE MultipartOK'
  BY MessageKept DEF MultipartOK
<1> USE DEF Untouched, MultipartOK, wire, buffer, object, flags, place, history
<1>0. /\ size' = size /\ mode' = mode /\ MultipartOK /\ Attached /\ upload
      /\ ~(at \in {"receive", "message"})
  BY MessageKept DEF Inv, upload
<1>n. /\ size \in Nat /\ received \in Nat /\ read \in Nat /\ taken \in Nat
      /\ heard \in Nat /\ heard <= size /\ taken <= read
  BY MessageType DEF Inv, TypeOK, WireOK, BufferOK, PlaceOK, HistoryOK
<1>1. CASE SendMore \/ Leave \/ PeerGone \/ Close
  BY <1>0, <1>1 DEF SendMore, Leave, PeerGone, Close
<1>2. CASE \E n \in 1 .. (sent - read) : Read(n)
  BY <1>0, <1>2 DEF Read
<1>3. CASE NothingToParse
  BY <1>0, <1>3 DEF NothingToParse, Onward, Attached
<1>4. CASE Malformed
  BY <1>0, <1>n, <1>4 DEF Malformed, Onward, Attached, recv
<1>5. CASE Message
  BY <1>0, <1>n, <1>5 DEF Message, Attached, recv
<1>6. CASE Detach \/ Receive \/ Finish \/ ReceiveEnds
  BY <1>0, <1>6 DEF Detach, Receive, Finish, ReceiveEnds, Escapes
<1>7. CASE RequestReturns
  BY <1>0, <1>7 DEF RequestReturns, Unwinds
<1>8. CASE PartBegun
  <2>1. CASE responded
    BY <1>0, <1>8, <2>1 DEF PartBegun, Unwinds
  <2>2. CASE ~responded
    <3>1. heard' = heard + 1
      BY <1>0, <1>n, <1>8, <2>2 DEF PartBegun, Hears
    <3> QED
      BY <1>0, <1>8, <2>2, <3>1 DEF PartBegun
  <2> QED
    BY <2>1, <2>2
<1>9. CASE PartDataTaken
  <2>1. received' = heard /\ heard' = heard /\ taken' = taken /\ parser'
    BY <1>0, <1>9 DEF PartDataTaken
  <2>2. CASE responded
    BY <1>0, <1>n, <1>9, <2>1, <2>2 DEF PartDataTaken, Unwinds
  <2>3. CASE ~responded
    BY <1>0, <1>n, <1>9, <2>1, <2>3 DEF PartDataTaken
  <2> QED
    BY <2>2, <2>3
<1>10. CASE NextPart
  <2>1. CASE received < Least(size, read - 1)
    <3>1. received < size
      BY <1>n, <2>1 DEF Least
    <3> QED
      BY <1>0, <1>10, <2>1, <3>1 DEF NextPart
  <2>2. CASE ~(received < Least(size, read - 1))
    BY <1>0, <1>10, <2>2 DEF NextPart, Unwinds
  <2> QED
    BY <2>1, <2>2
<1>11. CASE RawBegun \/ RawDataTaken \/ ResponseDataTaken \/ MessageReturns
  BY <1>0, <1>11 DEF RawBegun, RawDataTaken, ResponseDataTaken, MessageReturns
<1>12. CASE EndReturns
  BY <1>0, <1>12 DEF EndReturns, Unwinds
<1>13. CASE Respond
  BY <1>0, <1>13 DEF Respond, Mine, Handlers, Attached
<1>14. CASE Cancel \/ Abort
  BY <1>0, <1>14 DEF Cancel, Abort
<1>15. CASE UNCHANGED vars
  BY <1>0, <1>15 DEF vars
<1> QED
  BY <1>1, <1>2, <1>3, <1>4, <1>5, <1>6, <1>7, <1>8, <1>9, <1>10, <1>11, <1>12,
     <1>13, <1>14, <1>15 DEF Next, Library, Returns

\* A response is not answered.
LEMMA NotResponded ==
    ASSUME [Next]_vars, ~upload, ~responded
    PROVE  ~responded'
BY Zenon DEF Next, Library, Returns, vars, SendMore, Leave, Read, PeerGone, Close,
   NothingToParse, Malformed, Detach, Message, Receive, Finish, ReceiveEnds,
   RequestReturns, RawBegun, PartBegun, RawDataTaken, ResponseDataTaken,
   PartDataTaken, NextPart, EndReturns, MessageReturns, Respond, Cancel, Abort, flags

\* The steps of a response up to its head and of one that is not streamed.
LEMMA ParsedStep ==
    ASSUME Inv, [Next]_vars, StreamedParsed, ~upload, ~Detach
    PROVE  StreamedParsed'
<1> USE DEF Untouched, StreamedParsed, wire, buffer, object, flags, place, history
<1>0. Attached /\ ~(at \in {"request", "begin", "data", "end", "receive", "part"}) /\ parser
  BY DEF Inv
<1>1. CASE SendMore
  BY <1>1 DEF SendMore
<1>2. CASE Leave
  BY <1>2 DEF Leave
<1>3. CASE PeerGone
  BY <1>3 DEF PeerGone
<1>4. CASE Close
  BY <1>4 DEF Close
<1>5. CASE \E n \in 1 .. (sent - read) : Read(n)
  BY <1>5 DEF Read
<1>6. CASE NothingToParse
  BY <1>0, <1>6 DEF NothingToParse, Onward, Attached
<1>7. CASE Malformed
  BY <1>0, <1>7 DEF Malformed, Onward, Attached
<1>8. CASE Message
  BY <1>8 DEF Message
<1>9. CASE Receive \/ Finish \/ ReceiveEnds
  BY <1>0, <1>9 DEF Receive, Finish, ReceiveEnds
<1>10. CASE RequestReturns \/ RawBegun \/ PartBegun \/ RawDataTaken
  BY <1>0, <1>10 DEF RequestReturns, RawBegun, PartBegun, RawDataTaken
<1>11. CASE ResponseDataTaken \/ PartDataTaken \/ NextPart \/ EndReturns
  BY <1>0, <1>11 DEF ResponseDataTaken, PartDataTaken, NextPart, EndReturns
<1>12. CASE MessageReturns
  BY <1>12 DEF MessageReturns, Unwinds
<1>13. CASE Respond
  BY <1>13 DEF Respond
<1>14. CASE Cancel
  BY <1>14 DEF Cancel
<1>15. CASE Abort
  BY <1>15 DEF Abort
<1>16. CASE UNCHANGED vars
  BY <1>16 DEF vars
<1> QED
  BY <1>1, <1>2, <1>3, <1>4, <1>5, <1>6, <1>7, <1>8, <1>9, <1>10, <1>11, <1>12,
     <1>13, <1>14, <1>15, <1>16 DEF Next, Library, Returns

LEMMA BufferedStep ==
    ASSUME Inv, [Next]_vars
    PROVE  BufferedOK'
<1> SUFFICES ASSUME mode = "buffered" PROVE ~responded' /\ StreamedParsed'
  BY MessageKept DEF BufferedOK
<1>1. ~upload /\ ~responded /\ StreamedParsed /\ ~Detach
  BY DEF upload, Inv, BufferedOK, Detach, Escapes
<1> QED
  BY <1>1, ParsedStep, NotResponded

LEMMA StreamedStep ==
    ASSUME Inv, [Next]_vars
    PROVE  StreamedOK'
<1> SUFFICES ASSUME mode = "streamed"
             PROVE  ~responded' /\ (StreamedParsed' \/ StreamedDetached')
  BY MessageKept DEF StreamedOK
<1>0. /\ size' = size /\ ~upload /\ ~responded /\ ~responded' /\ Attached
      /\ StreamedParsed \/ StreamedDetached
  BY MessageKept, NotResponded DEF upload, Inv, StreamedOK
<1>n. /\ size \in Nat /\ received \in Nat /\ read \in Nat /\ taken \in Nat
      /\ taken <= read /\ recv \in Nat
  BY MessageType DEF Inv, TypeOK, WireOK, BufferOK, PlaceOK, recv
<1>1. CASE StreamedParsed /\ ~Detach
  BY <1>0, <1>1, ParsedStep
<1> USE DEF wire, buffer, object, flags, place, history
<1>2. CASE StreamedParsed /\ Detach
  <2>1. done' = FALSE /\ open' = TRUE
    <3>1. done' = done /\ open' = ~upload
      BY <1>2, Zenon DEF Detach
    <3>2. ~done /\ done \in BOOLEAN
      BY <1>2 DEF StreamedParsed, Untouched, Inv, TypeOK, FlagsOK
    <3> QED
      BY <1>0, <3>1, <3>2, Zenon
  <2>2. size > 0
    BY <1>2 DEF Detach, Escapes
  <2>3. /\ ~parser' /\ taken' = 1 /\ received' = 0 /\ heard' = 0
        /\ at' = "receive" /\ ~responded'
    BY <1>0, <1>2 DEF Detach, StreamedParsed, Untouched
  <2> QED
    BY <1>0, <2>1, <2>2, <2>3 DEF StreamedDetached
<1>3. CASE StreamedDetached
  <2> USE <1>0, <1>3 DEF StreamedDetached
  <2>1. CASE SendMore
    BY <2>1 DEF SendMore, recv
  <2>2. CASE Leave
    BY <2>2 DEF Leave, recv
  <2>3. CASE PeerGone
    BY <2>3 DEF PeerGone
  <2>4. CASE Close
    BY <2>4 DEF Close
  <2>5. CASE \E n \in 1 .. (sent - read) : Read(n)
    BY <2>5 DEF Read
  <2>6. CASE NothingToParse \/ Malformed \/ Detach \/ Message
    BY <2>6 DEF NothingToParse, Malformed, Detach, Message
  <2>7. CASE Receive
    <3>1. recv > 0 /\ received < size /\ Part \in 1 .. recv /\ Part <= size - received
      BY <1>n, <2>7, PartBounds DEF Inv, Receive, MayReceive
    <3>2. ~done /\ received = taken - 1 /\ heard = received
      BY <1>n, <2>7, <3>1 DEF Receive
    <3>3. heard' = IF taken - 1 = heard /\ heard + Part <= size THEN heard + Part ELSE Gap
      BY <2>7 DEF Receive, Hears
    <3>4. Part \in Int /\ heard + Part <= size
      BY <1>n, <3>1, <3>2
    <3>5. heard' = heard + Part
      BY <3>2, <3>3, <3>4
    <3>6. chunk' \in 1 .. recv' /\ received' = taken' - 1 + chunk'
      BY <1>n, <2>7, <3>1, <3>2 DEF Receive, recv
    <3>7. received' = heard' /\ at' = "data" /\ UNCHANGED <<taken, parser, responded>>
      BY <2>7, <3>2, <3>5 DEF Receive
    <3>8. ~done' /\ open'
      BY <2>7, <3>2, Zenon DEF Receive
    <3> QED
      BY <3>6, <3>7, <3>8
  <2>8. CASE Finish
    <3>1. received = size /\ received' = received /\ heard' = heard
      BY <1>n, <2>8 DEF Finish, recv, Inv, TypeOK, HistoryOK
    <3>2. done' = TRUE /\ open' = FALSE
      BY <2>8, Zenon DEF Finish
    <3>3. taken' >= 1 /\ at' = "end" /\ ~parser' /\ ~responded'
      BY <1>n, <2>8 DEF Finish
    <3> QED
      BY <3>1, <3>2, <3>3
  <2>9. CASE ReceiveEnds
    BY <2>9 DEF ReceiveEnds, Onward
  <2>10. CASE ResponseDataTaken
    <3>1. ~done /\ chunk \in 1 .. recv /\ received = taken - 1 + chunk
      BY <2>10 DEF ResponseDataTaken
    <3>2. taken' \in Nat /\ taken' >= 1 /\ received' = taken' - 1
      BY <1>n, <2>10, <3>1 DEF ResponseDataTaken, recv
    <3> QED
      BY <2>10, <3>1, <3>2 DEF ResponseDataTaken
  <2>11. CASE RequestReturns \/ RawBegun \/ PartBegun \/ RawDataTaken
    BY <2>11 DEF RequestReturns, RawBegun, PartBegun, RawDataTaken
  <2>12. CASE PartDataTaken \/ NextPart \/ MessageReturns
    BY <2>12 DEF PartDataTaken, NextPart, MessageReturns
  <2>13. CASE EndReturns
    BY <2>13 DEF EndReturns, Unwinds, Onward
  <2>14. CASE Respond
    BY <2>14 DEF Respond, recv
  <2>15. CASE Cancel
    BY <2>15 DEF Cancel, recv
  <2>16. CASE Abort
    BY <2>16 DEF Abort, recv
  <2>17. CASE UNCHANGED vars
    BY <2>17 DEF vars, recv
  <2> QED
    BY <2>1, <2>2, <2>3, <2>4, <2>5, <2>6, <2>7, <2>8, <2>9, <2>10, <2>11, <2>12,
       <2>13, <2>14, <2>15, <2>16, <2>17 DEF Next, Library, Returns
<1> QED
  BY <1>0, <1>1, <1>2, <1>3

LEMMA InvStep == Inv /\ [Next]_vars => Inv'
BY TypeStep, AttachedStep, RawStep, MultipartStep, StreamedStep, BufferedStep DEF Inv

\* The order of the places in the message is kept, so mg_iobuf_del() is never
\* asked for more than there is, no handler gets a byte the body does not have,
\* and no message is handed over whole twice.
THEOREM TypeCorrect == NothingFollows /\ Spec => []TypeOK
<1>1. Inv => TypeOK
  BY DEF Inv
<1> QED
  BY <1>1, InvInit, InvStep, PTL DEF Spec
-----------------------------------------------------------------------------
(* The refinement *)

LEMMA StopStep ==
    ASSUME UNCHANGED <<length, part, heard>>, stopped'
    PROVE  [Stream!Next]_Stream!vars
<1>1. until' = 0
  BY DEF until
<1>2. CASE stopped
  <2>1. until = 0
    BY <1>2 DEF until
  <2> QED
    BY <1>1, <1>2, <2>1 DEF Stream!vars
<1>3. CASE ~stopped
  BY <1>1, <1>3 DEF Stream!Next, Stream!Stop
<1> QED
  BY <1>2, <1>3

LEMMA StoppedKept ==
    ASSUME ~stopped, ~stopped'
    PROVE  stopped' = stopped
BY DEF stopped

LEMMA BeginStep ==
    ASSUME UNCHANGED <<length, part, heard>>, ~stopped, ~stopped', ~open,
           heard < length, until' = heard + part
    PROVE  [Stream!Next]_Stream!vars
<1>1. until = 0
  BY DEF until
<1> QED
  BY <1>1, StoppedKept DEF Stream!Next, Stream!Begin

LEMMA HandStep ==
    ASSUME UNCHANGED <<length, part, until>>, ~stopped, ~stopped',
           NEW n \in 1 .. length, heard + n <= until, heard' = heard + n
    PROVE  [Stream!Next]_Stream!vars
<1>1. Stream!Hand(n)
  BY StoppedKept DEF Stream!Hand
<1> QED
  BY <1>1 DEF Stream!Next

LEMMA EndStep ==
    ASSUME UNCHANGED <<length, part, heard>>, ~stopped, ~open',
           until = heard, heard > 0, stopped' <=> heard = length
    PROVE  [Stream!Next]_Stream!vars
<1>1. until' = 0
  BY DEF until
<1> QED
  BY <1>1 DEF Stream!Next, Stream!End

\* What hands nothing over and neither begins nor ends a part.
Quiet ==
    /\ UNCHANGED <<msg, heard, open>>
    /\ at = "gone" => at' = "gone"
    /\ responded => responded'
    /\ closing => closing'
    /\ mode = "multipart" => (at = "begin" <=> at' = "begin") \/ responded'

LEMMA MapKept ==
    ASSUME UNCHANGED msg
    PROVE  UNCHANGED <<mode, size, length, part>>
BY DEF mode, size, length, part

LEMMA QuietStep ==
    ASSUME Quiet
    PROVE  [Stream!Next]_Stream!vars
<1>1. UNCHANGED <<mode, size, length, part, heard>>
  BY MapKept DEF Quiet
<1>2. open <=> open'
  BY Zenon DEF Quiet
<1>3. stopped => stopped'
  BY <1>1, <1>2 DEF Quiet, stopped
<1>4. CASE stopped'
  BY <1>1, <1>4, StopStep
<1>5. CASE ~stopped'
  <2>1. until' = until
    <3>1. mode = "multipart" => (at = "begin" <=> at' = "begin")
      BY <1>5 DEF Quiet, stopped
    <3> QED
      BY <1>1, <1>2, <1>3, <1>5, <3>1 DEF until
  <2>2. stopped' = stopped
    BY <1>3, <1>5, StoppedKept
  <2> QED
    BY <1>1, <2>1, <2>2 DEF Stream!vars
<1> QED
  BY <1>4, <1>5

LEMMA QuietActions ==
    ASSUME Inv,
           \/ SendMore \/ Leave \/ (\E n \in 1 .. (sent - read) : Read(n)) \/ PeerGone
           \/ Close \/ NothingToParse \/ Malformed \/ Message \/ ReceiveEnds
           \/ RawBegun \/ ResponseDataTaken \/ EndReturns \/ MessageReturns
           \/ Respond \/ Cancel \/ Abort
    PROVE  [Stream!Next]_Stream!vars
<1> USE DEF Quiet, wire, flags, place, history
<1>1. CASE SendMore
  BY <1>1, QuietStep DEF SendMore
<1>2. CASE Leave
  BY <1>2, QuietStep DEF Leave
<1>3. CASE PeerGone
  BY <1>3, QuietStep DEF PeerGone
<1>4. CASE Close
  BY <1>4, QuietStep DEF Close
<1>5. CASE NothingToParse
  BY <1>5, QuietStep DEF NothingToParse, Onward
<1>6. CASE Malformed
  BY <1>6, QuietStep DEF Malformed, Onward
<1>7. CASE Message
  BY <1>7, QuietStep DEF Message
<1>8. CASE ReceiveEnds
  BY <1>8, QuietStep DEF ReceiveEnds, Onward
<1>9. CASE RawBegun
  BY <1>9, QuietStep DEF RawBegun, Unwinds, Onward
<1>10. CASE ResponseDataTaken
  BY <1>10, QuietStep DEF ResponseDataTaken
<1>11. CASE EndReturns
  BY <1>11, QuietStep DEF EndReturns, Unwinds, Onward
<1>12. CASE MessageReturns
  BY <1>12, QuietStep DEF MessageReturns, Unwinds, Onward
<1>13. CASE Respond
  BY <1>13, QuietStep DEF Respond
<1>14. CASE Cancel
  BY <1>14, QuietStep DEF Cancel
<1>15. CASE Abort
  BY <1>15, QuietStep DEF Abort
<1>16. CASE \E n \in 1 .. (sent - read) : Read(n)
  BY <1>16, QuietStep DEF Read
<1> QED
  BY <1>1, <1>2, <1>3, <1>4, <1>5, <1>6, <1>7, <1>8,
     <1>9, <1>10, <1>11, <1>12, <1>13, <1>14, <1>15, <1>16

LEMMA Numbers ==
    ASSUME Inv
    PROVE  /\ size \in Nat /\ received \in Nat /\ read \in Nat /\ taken \in Nat
           /\ heard \in Nat /\ heard <= size /\ taken <= read /\ recv = read - taken
           /\ length \in Nat /\ (size > 0 => length = size)
BY MessageType DEF Inv, TypeOK, WireOK, BufferOK, PlaceOK, HistoryOK, length, recv

LEMMA DetachStream ==
    ASSUME Inv, Detach
    PROVE  [Stream!Next]_Stream!vars
<1>0. UNCHANGED <<msg, mode, size, length, part, heard, responded, closing>>
  BY MapKept DEF Detach, wire, flags
<1>1. CASE mode = "raw"
  <2>1. ~open /\ ~open' /\ at' = "request"
    <3>1. ~open /\ upload
      BY <1>1 DEF Detach, Inv, RawOK, RawParsed, RawDetached, Untouched, upload
    <3>2. open' = ~upload /\ at' = IF upload THEN "request" ELSE "receive"
      BY Zenon DEF Detach
    <3> QED
      BY <3>1, <3>2, Zenon
  <2>2. open' = open
    <3>1. open \in BOOLEAN /\ open' \in BOOLEAN
      BY FlagsStep, Zenon DEF Inv, TypeOK, FlagsOK, Detach, upload
    <3> QED
      BY <2>1, <3>1, Zenon
  <2> QED
    BY <1>0, <1>1, <2>1, <2>2, QuietStep DEF Quiet, Detach
<1>2. CASE mode = "streamed"
  <2>1. /\ size > 0 /\ at = "parse" /\ at' = "receive"
        /\ heard = 0 /\ ~open /\ ~responded
    BY <1>2 DEF Detach, Escapes, upload, Inv, Attached, StreamedOK, StreamedParsed,
       StreamedDetached, Untouched
  <2>2. open'
    <3>1. open' = ~upload /\ ~upload
      BY <1>2, Zenon DEF Detach, upload
    <3> QED
      BY <3>1, Zenon
  <2>3. CASE stopped'
    BY <1>0, <2>3, StopStep
  <2>4. CASE ~stopped'
    <3>1. ~stopped
      BY <1>0, <1>2, <2>1, <2>4 DEF stopped
    <3>2. until' = heard + part /\ heard < length
      BY <1>0, <1>2, <2>1, <2>2, <2>4, Numbers DEF until, length, part
    <3> QED
      BY <1>0, <2>1, <2>4, <3>1, <3>2, BeginStep
  <2> QED
    BY <2>3, <2>4
<1> QED
  BY <1>1, <1>2 DEF Detach, Escapes

LEMMA ReceiveStream ==
    ASSUME Inv, Receive
    PROVE  [Stream!Next]_Stream!vars
<1>0. UNCHANGED <<msg, mode, size, length, part, open, responded, closing>>
  BY MapKept DEF Receive, wire, flags
<1>n. /\ size \in Nat /\ received \in Nat /\ taken \in Nat /\ read \in Nat
      /\ recv = read - taken /\ heard \in Nat
  BY Numbers
<1>1. recv > 0 /\ Part \in 1 .. recv /\ (size > received => Part <= size - received)
  BY PartBounds DEF Inv, Receive, MayReceive
<1>2. /\ at = "receive" /\ at' = "data"
      /\ heard' = IF taken - 1 = heard /\ heard + Part <= size THEN heard + Part ELSE Gap
  BY DEF Receive, Hears
<1>3. /\ received < size /\ taken - 1 = heard /\ heard = received
      /\ open /\ ~responded /\ mode # "multipart"
      /\ mode = "streamed" => ~closing
  <2>1. CASE mode = "raw"
    <3>1. RawDetached /\ ~responded
      BY <1>2, <2>1 DEF Inv, RawOK, RawParsed, Receive, MayReceive, upload
    <3>2. heard = received /\ received = taken - 1
      BY <1>2, <3>1 DEF RawDetached
    <3>3. read <= 1 + size
      BY <2>1, NothingBehind DEF upload
    <3>4. received < size
      BY <1>n, <1>1, <3>2, <3>3
    <3>5. open
      BY <1>2, <1>n, <3>1, <3>2, <3>4 DEF RawDetached
    <3> QED
      BY <2>1, <3>1, <3>2, <3>4, <3>5
  <2>2. CASE mode = "streamed"
    <3>1. StreamedDetached /\ received < size /\ ~closing /\ ~responded
      BY <1>2, <2>2 DEF Inv, StreamedOK, StreamedParsed, Receive, MayReceive, upload
    <3>2. ~done
      BY <1>n, <3>1 DEF StreamedDetached
    <3>3. open /\ received = taken - 1 /\ heard = received
      BY <1>2, <3>1, <3>2 DEF StreamedDetached
    <3> QED
      BY <2>2, <3>1, <3>3
  <2>3. mode # "multipart" /\ mode # "buffered" /\ mode \in Modes
    BY <1>2, MessageType DEF Inv, MultipartOK, BufferedOK, StreamedParsed, TypeOK
  <2> QED
    BY <2>1, <2>2, <2>3 DEF Modes
<1>4. Part \in 1 .. size /\ heard + Part <= size /\ heard' = heard + Part
  <2>1. Part \in Nat /\ Part > 0 /\ heard + Part <= size
    BY <1>n, <1>1, <1>3
  <2> QED
    BY <1>n, <1>2, <1>3, <2>1
<1>5. ~stopped
  BY <1>2, <1>3 DEF stopped
<1>6. open'
  BY <1>0, <1>3, Zenon
<1>7. ~stopped'
  BY <1>0, <1>2, <1>3, <1>6 DEF stopped
<1>8. until = length /\ until' = length /\ length = size
  BY <1>0, <1>n, <1>3, <1>5, <1>6, <1>7 DEF until, length
<1> QED
  BY <1>0, <1>4, <1>5, <1>7, <1>8, HandStep

LEMMA FinishStream ==
    ASSUME Inv, Finish
    PROVE  [Stream!Next]_Stream!vars
<1>0. UNCHANGED <<msg, mode, size, length, part, heard>>
  BY MapKept DEF Finish, wire
<1>1. mode = "streamed" /\ StreamedDetached /\ ~done /\ at = "receive" /\ ~responded
  BY MessageType DEF Inv, TypeOK, Finish, upload, Modes, StreamedOK, StreamedParsed,
     BufferedOK
<1>2. open /\ heard = size /\ size > 0
  BY <1>1, Numbers DEF StreamedDetached, Finish
<1>3. ~stopped /\ until = heard /\ heard = length /\ heard > 0
  BY <1>1, <1>2, Numbers DEF stopped, until
<1>4. ~open' /\ at' = "end"
  BY DEF Finish
<1>5. stopped'
  BY <1>0, <1>2, <1>4 DEF stopped
<1> QED
  BY <1>0, <1>3, <1>4, <1>5, EndStep

LEMMA RequestReturnsStream ==
    ASSUME Inv, RequestReturns
    PROVE  [Stream!Next]_Stream!vars
<1> USE DEF flags
<1>0. UNCHANGED <<msg, mode, size, length, part, heard, responded, closing>>
  BY MapKept DEF RequestReturns, wire
<1>1. CASE responded
  BY <1>0, <1>1, QuietStep DEF RequestReturns, Unwinds, Onward, Quiet
<1>2. CASE ~responded /\ mode = "raw"
  <2>1. at = "request" /\ at' = "begin" /\ open' = TRUE
    BY <1>2 DEF RequestReturns
  <2>2. heard = 0 /\ ~open
    BY <1>2, <2>1 DEF Inv, RawOK, RawParsed, RawDetached, Untouched
  <2>3. ~stopped /\ ~stopped'
    BY <1>0, <1>2, <2>1, <2>2 DEF stopped
  <2>4. heard < length /\ until' = heard + part
    BY <1>0, <1>2, <2>1, <2>2, <2>3, Numbers DEF until, length, part
  <2> QED
    BY <1>0, <2>2, <2>3, <2>4, BeginStep
<1>3. CASE ~responded /\ mode # "raw"
  BY <1>0, <1>3, QuietStep DEF RequestReturns, Quiet
<1> QED
  BY <1>1, <1>2, <1>3

LEMMA PartBegunStream ==
    ASSUME Inv, PartBegun
    PROVE  [Stream!Next]_Stream!vars
<1> USE DEF flags
<1>0. UNCHANGED <<msg, mode, size, length, part, open, responded, closing>>
  BY MapKept DEF PartBegun, wire
<1>1. CASE responded
  BY <1>0, <1>1, QuietStep DEF PartBegun, Unwinds, Onward, Quiet
<1>2. CASE ~responded
  <2>1. mode = "multipart" /\ at = "begin" /\ at' = "data"
    BY <1>2 DEF PartBegun
  <2>2. open /\ heard = received /\ received < size
    BY <2>1 DEF Inv, MultipartOK
  <2>3. heard' = heard + 1
    BY <1>2, <2>2, Numbers DEF PartBegun, Hears
  <2>4. open'
    BY <1>0, <2>2, Zenon
  <2>5. ~stopped /\ ~stopped'
    BY <1>0, <1>2, <2>1, <2>2, <2>4 DEF stopped
  <2>6. until = heard + 1 /\ until' = heard + 1
    BY <1>0, <2>1, <2>2, <2>3, <2>4, <2>5 DEF until
  <2>7. 1 \in 1 .. length
    BY <2>2, Numbers
  <2> QED
    BY <1>0, <2>3, <2>5, <2>6, <2>7, HandStep
<1> QED
  BY <1>1, <1>2

LEMMA PartDataStream ==
    ASSUME Inv, PartDataTaken
    PROVE  [Stream!Next]_Stream!vars
<1> USE DEF flags
<1>0. UNCHANGED <<msg, mode, size, length, part, heard, responded, closing>>
  BY MapKept DEF PartDataTaken, wire
<1>1. CASE responded
  BY <1>0, <1>1, QuietStep DEF PartDataTaken, Unwinds, Onward, Quiet
<1>2. CASE ~responded
  <2>1. mode = "multipart" /\ at = "data" /\ at' = "end" /\ ~open'
    BY <1>2 DEF PartDataTaken
  <2>2. open /\ heard = received + 1
    BY <2>1 DEF Inv, MultipartOK
  <2>3. heard > 0 /\ length = size
    BY <2>2, Numbers
  <2>4. ~stopped /\ until = heard
    BY <1>2, <2>1, <2>2 DEF stopped, until
  <2>5. stopped' <=> heard = length
    BY <1>0, <1>2, <2>1, <2>3, Numbers DEF stopped
  <2> QED
    BY <1>0, <2>1, <2>3, <2>4, <2>5, EndStep
<1> QED
  BY <1>1, <1>2

LEMMA NextPartStream ==
    ASSUME Inv, NextPart
    PROVE  [Stream!Next]_Stream!vars
<1> USE DEF flags
<1>0. UNCHANGED <<msg, mode, size, length, part, heard, responded, closing>>
  BY MapKept DEF NextPart, wire
<1>1. CASE ~(received < Least(size, read - 1))
  BY <1>0, <1>1, QuietStep DEF NextPart, Unwinds, Onward, Quiet
<1>2. CASE received < Least(size, read - 1)
  <2>1. at = "part" /\ at' = "begin" /\ open' = TRUE
    BY <1>2 DEF NextPart
  <2>2. mode = "multipart" /\ ~open /\ ~responded /\ heard = received
    BY <2>1, MessageType DEF Inv, TypeOK, Modes, RawOK, RawParsed, RawDetached,
       MultipartOK, StreamedOK, StreamedParsed, StreamedDetached, BufferedOK
  <2>3. heard < size /\ heard # size /\ length = size
    BY <1>2, <2>2, Numbers DEF Least
  <2>4. ~stopped /\ ~stopped'
    <3>1. open' /\ ~responded'
      BY <1>0, <2>1, <2>2, Zenon
    <3> QED
      BY <1>0, <2>1, <2>2, <2>3, <3>1 DEF stopped
  <2>5. until' = heard + part
    BY <1>0, <2>1, <2>2, <2>4 DEF until, part
  <2> QED
    BY <1>0, <2>2, <2>3, <2>4, <2>5, BeginStep
<1> QED
  BY <1>1, <1>2

LEMMA RawDataStream ==
    ASSUME Inv, RawDataTaken
    PROVE  [Stream!Next]_Stream!vars
<1> USE DEF flags
<1>0. /\ UNCHANGED <<msg, mode, size, length, part, heard, responded, closing>>
      /\ mode = "raw" /\ at = "data"
  BY MapKept DEF RawDataTaken, wire
<1>1. RawDetached /\ open /\ heard = received + chunk /\ received' = heard /\ heard > 0
  BY <1>0, RawRunsDetached, Numbers DEF RawDetached, RawDataTaken
<1>2. CASE size = 0 \/ received' < size
  BY <1>0, <1>2, QuietStep DEF RawDataTaken, Quiet
<1>3. CASE ~(size = 0 \/ received' < size) /\ responded
  BY <1>0, <1>3, QuietStep DEF RawDataTaken, Quiet, Unwinds, Onward
<1>4. CASE ~(size = 0 \/ received' < size) /\ ~responded
  <2>1. at' = "end" /\ ~open'
    BY <1>4 DEF RawDataTaken
  <2>2. heard = size /\ size > 0 /\ length = size
    BY <1>1, <1>4, Numbers
  <2>3. ~stopped /\ until = heard
    BY <1>0, <1>1, <1>4, <2>2 DEF stopped, until
  <2>4. stopped'
    BY <1>0, <2>1, <2>2 DEF stopped
  <2> QED
    BY <1>0, <1>1, <2>1, <2>2, <2>3, <2>4, EndStep
<1> QED
  BY <1>2, <1>3, <1>4

LEMMA StreamStep ==
    ASSUME Inv, [Next]_vars
    PROVE  [Stream!Next]_Stream!vars
<1>1. CASE UNCHANGED vars
  BY <1>1, QuietStep DEF vars, Quiet
<1>2. CASE Next
  BY <1>2, QuietActions, DetachStream, ReceiveStream, FinishStream,
     RequestReturnsStream, PartBegunStream, RawDataStream, PartDataStream,
     NextPartStream DEF Next, Library, Returns
<1> QED
  BY <1>1, <1>2

LEMMA StreamInit ==
    ASSUME Init
    PROVE  Stream!Init
<1>1. size \in Nat
  BY BodiesAssumption DEF Init, size
<1>2. length \in Nat \ {0} /\ part \in 1 .. length
  BY <1>1 DEF length, part
<1>3. until = 0
  BY DEF Init, until
<1>4. ~stopped
  BY DEF Init, stopped
<1>5. stopped = FALSE
  BY <1>4 DEF stopped
<1> QED
  BY <1>2, <1>3, <1>5 DEF Init, Stream!Init

\* onUpload() and onBody() get the body in order and without a gap, between
\* the begin and the end of each part, and nothing of it once the transfer is
\* complete or stopped, for bodies of every length and however they are cut up.
THEOREM StreamKept == NothingFollows /\ Spec => KeepsTheStream
<1>1. Init => Stream!Init
  BY StreamInit
<1>2. Inv /\ [Next]_vars => [Stream!Next]_Stream!vars
  BY StreamStep
<1> QED
  BY <1>1, <1>2, InvInit, InvStep, PTL DEF Spec, KeepsTheStream, Stream!Spec
===============================================================================
