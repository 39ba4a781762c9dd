------------------------- MODULE MongooseClientsProofs -------------------------
(***************************************************************************)
(* The MQTT, SNTP and HTTP clients, for any number of connections, any     *)
(* deadline and every choice of the application's calls but these: an      *)
(* onError handler that runs inside connect() or send() starts no other    *)
(* attempt, a request is not sent again from a handler, and an SNTP client *)
(* that is ever deleted starts none inside getTime() either.               *)
(*                                                                         *)
(* The invariant says why _nc can be trusted.  While an attempt is under   *)
(* way _nc is empty, so nobody can start a second one; what has fn_data    *)
(* is _nc, or the connection of the attempt, or the one that is being      *)
(* closed, and each of the last two has its activation on the stack.       *)
(*                                                                         *)
(* Where getTime() is called again inside getTime() this is not so, and    *)
(* NestedInv takes its place: attempts lie on top of each other, but all   *)
(* except the innermost have failed and are closing.                       *)
(***************************************************************************)
EXTENDS MongooseClients, TLAPS

OneAttempt ==
    /\ FailCalls \intersect {"connect", "send"} = {}
    /\ "send" \notin ErrorCalls \union HandlerCalls
    /\ "getTime" \in FailCalls => "sntp" \notin Deleted

\* An SNTP client whose onError may call getTime() inside getTime().
Nested == kind = "sntp" /\ "getTime" \in FailCalls

Trying == {"attempt", "attempted"}
Leaving == {"lost", "close"}
Based == {"event", "refused"} \union Leaving

Depths == 1 .. Len(stack)

\* What the event loop calls is innermost but for what it calls itself; an
\* attempt is interrupted at most by its own onError(), and that of a request
\* interrupts nothing.
Shape ==
    \A i \in Depths :
        /\ stack[i].op \in Based => i = Len(stack)
        /\ stack[i].op = "attempt" => i = 1
        /\ stack[i].op = "attempted" =>
               i = 1 \/ (i = 2 /\ stack[1] = At("error", stack[2].at))
        /\ kind = "http" /\ stack[i].op \in Trying => i = Len(stack)
        /\ stack[i].op = "error" =>
               \/ stack[i].at = nc
               \/ i < Len(stack) /\ stack[i + 1] = At("attempted", stack[i].at)

FrameOK(f) ==
    /\ f.op \in Trying => alive /\ nc = None /\ (kind = "mqtt" => ~code)
    /\ f.op = "attempted" => f.at \in owned /\ f.at \notin refused
    /\ f.op \in Leaving => f.at \in owned /\ f.at # nc /\ visiting = None
    /\ f.op = "refused" => f.at = nc /\ f.at \in owned /\ ~up
    /\ f.op = "error" => phase[f.at] # "free" /\ f.at \in closing

Frames == \A i \in Depths : FrameOK(stack[i])

Apart ==
    \A i, j \in Depths :
        /\ i # j /\ stack[i].op \in OnError /\ stack[j].op \in OnError =>
               stack[i].at # stack[j].at
        /\ stack[i].op = "attempted" /\ stack[j].op \in Leaving =>
               stack[i].at # stack[j].at

InHand(c) ==
    \E i \in Depths : stack[i].at = c /\ stack[i].op \in {"attempted"} \union Leaving
Busy == \E i \in Depths : stack[i].op \in Trying \union Leaving

Owns ==
    /\ \A c \in owned : phase[c] # "free" /\ (c = nc \/ InHand(c))
    /\ \A c \in Conns : phase[c] # "free" => c \in owned \/ c \in closing
    /\ nc # None => nc \in owned
    /\ ~alive => owned = {} /\ nc = None
    /\ kind = "http" /\ alive /\ nc = None => Busy

Tells ==
    /\ up => kind = "mqtt" /\ nc # None /\ phase[nc] = "ready"
    /\ told = IF up THEN 1 ELSE 0
    /\ kind = "mqtt" /\ nc # None => (code <=> nc \in refused)
    /\ \A c \in refused : phase[c] # "free"
    /\ input = "buffer" => visiting \in owned

Inv == Shape /\ Frames /\ Apart /\ Owns /\ Tells /\ ~broken
-----------------------------------------------------------------------------
(* The stack *)

LEMMA PushType ==
    ASSUME NEW S, NEW f \in S, NEW s \in Seq(S)
    PROVE  /\ Push(f, s) \in Seq(S) /\ Push(f, s) # << >>
           /\ Len(Push(f, s)) = Len(s) + 1 /\ Push(f, s)[1] = f
           /\ \A i \in 1 .. Len(s) : Push(f, s)[i + 1] = s[i]
BY DEF Push

LEMMA PopType ==
    ASSUME NEW S, NEW s \in Seq(S), s # << >>
    PROVE  /\ Head(s) \in S /\ Head(s) = s[1] /\ Tail(s) \in Seq(S)
           /\ Len(s) \in Nat /\ Len(s) >= 1 /\ Len(Tail(s)) = Len(s) - 1
           /\ \A i \in 1 .. Len(Tail(s)) : Tail(s)[i] = s[i + 1]
OBVIOUS

LEMMA EmptySeq ==
    ASSUME NEW S, NEW s \in Seq(S)
    PROVE  s = << >> <=> Len(s) = 0
OBVIOUS

LEMMA OneType ==
    ASSUME NEW S, NEW f \in S
    PROVE  << f >> \in Seq(S) /\ Len(<< f >>) = 1 /\ << f >>[1] = f
OBVIOUS

LEMMA AttemptType == At("attempt", None) \in Frame
BY DEF At, Frame

LEMMA AtType ==
    ASSUME NEW op \in Handlers \union {"attempted"}, NEW c \in Conns
    PROVE  At(op, c) \in Frame /\ At(op, c).op = op /\ At(op, c).at = c
BY DEF At, Frame

LEMMA OneFrame ==
    ASSUME NEW op \in Handlers \union {"attempted"}, NEW c \in Conns
    PROVE  << At(op, c) >> \in Seq(Frame)
BY AtType, OneType

LEMMA TopType ==
    ASSUME stack \in Seq(Frame), stack # << >>
    PROVE  /\ Top = stack[1] /\ Top \in Frame /\ Tail(stack) \in Seq(Frame)
           /\ Top.op # "attempt" => Top.at \in Conns
<1>1. Top = stack[1] /\ Top \in Frame /\ Tail(stack) \in Seq(Frame)
  BY PopType DEF Top
<1> QED
  BY <1>1 DEF Frame
-----------------------------------------------------------------------------
(* Types *)

LEMMA TypeInit == Init => TypeOK
<1> SUFFICES ASSUME Init PROVE TypeOK
  OBVIOUS
<1>1. FlagsOK
  <2>1. (kind # "http") \in BOOLEAN
    OBVIOUS
  <2> QED
    BY <2>1, Zenon DEF Init, FlagsOK
<1>2. ClientOK /\ VisitOK /\ HistoryOK
  BY DEF Init, ClientOK, VisitOK, HistoryOK
<1>3. ConnsOK
  BY DeadlineAssumption DEF Init, ConnsOK, Phases
<1>4. stack \in Seq(Frame)
  BY DEF Init
<1> QED
  BY <1>1, <1>2, <1>3, <1>4 DEF TypeOK

LEMMA FlagsStep ==
    ASSUME FlagsOK, [Next]_vars
    PROVE  FlagsOK'
<1> USE DEF FlagsOK, clientVars, visitVars
<1>1. CASE Connect \/ Publish \/ PublishFails \/ Disconnect \/ GetTime
  BY <1>1, Zenon DEF Connect, Publish, PublishFails, Disconnect, GetTime
<1>2. CASE SendRequest \/ Cancel \/ Abort \/ Delete
  BY <1>2, Zenon DEF SendRequest, Cancel, Abort, Delete
<1>3. CASE Attempts
  BY <1>3, Zenon DEF Attempts, AttemptGetsNone, Attempted, AttemptFails, AttemptStarts
<1>4. CASE Returns
  <2>1. (~alive) \in BOOLEAN
    OBVIOUS
  <2> QED
    BY <1>4, <2>1, Zenon DEF Returns, ErrorReturns, RefusedReturns, EventReturns,
       LostReturns, CloseReturns
<1>5. CASE Tick
  BY <1>5, Zenon DEF Tick
<1>6. ASSUME NEW c \in Conns, Visit(c) PROVE FlagsOK'
  <2>1. /\ (c \in owned /\ ~alive) \in BOOLEAN
        /\ (c \in sending /\ phase[c] \in {"open", "ready"}) \in BOOLEAN
    OBVIOUS
  <2> QED
    BY <1>6, <2>1, Zenon DEF Visit
<1>7. ASSUME NEW c \in Conns, Network(c) PROVE FlagsOK'
  <2>1. CASE Connects(c) \/ Fails(c) \/ PeerCloses(c) \/ Answers(c)
    BY <2>1, Zenon DEF Connects, Fails, PeerCloses, Answers, Reads, MgError
  <2>2. CASE Accepts(c) \/ Refuses(c) \/ Message(c)
    BY <2>2, Zenon DEF Accepts, Refuses, Message, Parses, Reads
  <2>3. CASE ResolveFails(c) \/ \E ph \in Phases : Resolves(c, ph)
    BY <2>3, Zenon DEF ResolveFails, Resolves, MgError
  <2> QED
    BY <1>7, <2>1, <2>2, <2>3 DEF Network
<1>8. ASSUME NEW c \in Conns, Ends(c) PROVE FlagsOK'
  BY <1>8, Zenon DEF Ends, Stays, CloseConn, CloseUnheard, EndsVisit
<1>9. CASE UNCHANGED vars
  BY <1>9, Zenon DEF vars
<1> QED
  BY <1>1, <1>2, <1>3, <1>4, <1>5, <1>6, <1>7, <1>8, <1>9 DEF Next, Application

Fields == ClientOK /\ VisitOK /\ HistoryOK

LEMMA FieldsStep ==
    ASSUME TypeOK, [Next]_vars
    PROVE  Fields'
<1> USE DEF TypeOK, Fields, ClientOK, VisitOK, HistoryOK, clientVars, visitVars, history
<1>1. CASE Connect \/ Publish \/ PublishFails \/ Disconnect \/ GetTime
  BY <1>1 DEF Connect, Publish, PublishFails, Disconnect, GetTime
<1>2. CASE SendRequest \/ Cancel \/ Abort \/ Delete
  BY <1>2 DEF SendRequest, Cancel, Abort, Delete
<1>3. CASE Attempts
  <2>1. TopIs("attempted") => Top.at \in Conns
    BY TopType DEF TopIs
  <2> QED
    BY <1>3, <2>1 DEF Attempts, AttemptGetsNone, Attempted, AttemptFails, AttemptStarts,
       TopIs
<1>4. CASE Returns
  BY <1>4 DEF Returns, ErrorReturns, RefusedReturns, EventReturns, LostReturns,
     CloseReturns
<1>5. CASE Tick
  BY <1>5 DEF Tick
<1>6. ASSUME NEW c \in Conns, Visit(c) PROVE Fields'
  BY <1>6 DEF Visit
<1>7. ASSUME NEW c \in Conns, Network(c) PROVE Fields'
  <2>1. CASE Connects(c) \/ Fails(c) \/ PeerCloses(c) \/ Answers(c)
    BY <2>1 DEF Connects, Fails, PeerCloses, Answers, Reads, MgError
  <2>2. CASE Accepts(c) \/ Refuses(c) \/ Message(c)
    BY <2>2 DEF Accepts, Refuses, Message, Parses, Reads
  <2>3. CASE ResolveFails(c) \/ \E ph \in Phases : Resolves(c, ph)
    BY <2>3 DEF ResolveFails, Resolves, MgError
  <2> QED
    BY <1>7, <2>1, <2>2, <2>3 DEF Network
<1>8. ASSUME NEW c \in Conns, Ends(c) PROVE Fields'
  BY <1>8 DEF Ends, Stays, CloseConn, CloseUnheard, EndsVisit
<1>9. CASE UNCHANGED vars
  BY <1>9 DEF vars
<1> QED
  BY <1>1, <1>2, <1>3, <1>4, <1>5, <1>6, <1>7, <1>8, <1>9 DEF Next, Application

LEMMA ConnsStep ==
    ASSUME TypeOK, [Next]_vars
    PROVE  ConnsOK'
<1> USE DEF TypeOK, ConnsOK, connVars, flagVars
<1>1. CASE Connect \/ GetTime \/ SendRequest
  BY <1>1 DEF Connect, GetTime, SendRequest
<1>2. CASE Publish \/ PublishFails \/ Disconnect
  BY <1>2 DEF Publish, PublishFails, Disconnect, connected, ClientOK
<1>3. CASE Cancel \/ Abort \/ Delete
  BY <1>3 DEF Cancel, Abort, Delete, Detach, ClientOK
<1>4. CASE Attempts
  <2>1. CASE AttemptGetsNone \/ Attempted
    BY <2>1 DEF AttemptGetsNone, Attempted, Detach
  <2>2. ASSUME NEW c \in Conns, NEW ph \in Phases, NewConn(c, ph)
        PROVE  /\ phase' \in [Conns -> Phases] /\ age' \in [Conns -> 0 .. (Deadline + 1)]
               /\ owned' \subseteq Conns /\ sending' \subseteq Conns
    BY <2>2, DeadlineAssumption DEF NewConn
  <2>3. ASSUME NEW c \in Conns, AttemptFails(c) PROVE ConnsOK'
    BY <2>2, <2>3 DEF AttemptFails, Phases
  <2>4. ASSUME NEW c \in Conns, NEW ph \in Phases, AttemptStarts(c, ph) PROVE ConnsOK'
    BY <2>2, <2>4 DEF AttemptStarts
  <2> QED
    BY <1>4, <2>1, <2>3, <2>4 DEF Attempts
<1>a. ASSUME NEW c, Forget(c)
      PROVE  /\ phase' \in [Conns -> Phases] /\ age' \in [Conns -> 0 .. (Deadline + 1)]
             /\ sending' \subseteq Conns /\ draining' \subseteq Conns
  <2>1. 0 \in 0 .. (Deadline + 1) /\ "free" \in Phases
    BY DeadlineAssumption DEF Phases
  <2>2. phase' \in [Conns -> Phases]
    BY <1>a, <2>1 DEF Forget
  <2>3. age' \in [Conns -> 0 .. (Deadline + 1)]
    BY <1>a, <2>1 DEF Forget
  <2> QED
    BY <1>a, <2>2, <2>3 DEF Forget
<1>5. CASE Returns
  <2>1. CASE ErrorReturns \/ LostReturns
    BY <2>1 DEF ErrorReturns, LostReturns
  <2>2. CASE RefusedReturns
    <3>1. Top.at \in Conns
      BY <2>2, TopType DEF RefusedReturns, TopIs
    <3> QED
      BY <2>2, <3>1 DEF RefusedReturns
  <2>3. CASE EventReturns
    BY <2>3 DEF EventReturns, live
  <2>4. CASE CloseReturns
    BY <2>4, <1>a DEF CloseReturns
  <2> QED
    BY <1>5, <2>1, <2>2, <2>3, <2>4 DEF Returns
<1>6. CASE Tick
  BY <1>6, DeadlineAssumption DEF Tick, expired, live
<1>7. ASSUME NEW c \in Conns, Visit(c) PROVE ConnsOK'
  BY <1>7 DEF Visit
<1>8. ASSUME NEW c \in Conns, Network(c) PROVE ConnsOK'
  <2>1. CASE Connects(c) \/ Fails(c) \/ PeerCloses(c) \/ Answers(c)
    BY <2>1 DEF Connects, Fails, PeerCloses, Answers, Reads, MgError, Phases
  <2>2. CASE Accepts(c) \/ Refuses(c) \/ Message(c)
    BY <2>2 DEF Accepts, Refuses, Message, Phases
  <2>3. CASE ResolveFails(c) \/ \E ph \in Phases : Resolves(c, ph)
    BY <2>3 DEF ResolveFails, Resolves, MgError
  <2> QED
    BY <1>8, <2>1, <2>2, <2>3 DEF Network
<1>9. ASSUME NEW c \in Conns, Ends(c) PROVE ConnsOK'
  BY <1>9, <1>a DEF Ends, Stays, CloseConn, CloseUnheard, Written
<1>10. CASE UNCHANGED vars
  BY <1>10 DEF vars
<1> QED
  BY <1>1, <1>2, <1>3, <1>4, <1>5, <1>6, <1>7, <1>8, <1>9, <1>10 DEF Next, Application

LEMMA StackStep ==
    ASSUME TypeOK, [Next]_vars
    PROVE  stack' \in Seq(Frame)
<1> USE DEF TypeOK
<1>a. << >> \in Seq(Frame)
  OBVIOUS
<1>b. ASSUME stack # << >>
      PROVE  Tail(stack) \in Seq(Frame) /\ (Top.op # "attempt" => Top.at \in Conns)
  BY <1>b, TopType
<1>1. CASE Connect \/ GetTime \/ SendRequest
  BY <1>1, AttemptType, PushType DEF Connect, GetTime, SendRequest, Attempting
<1>2. CASE Publish \/ Disconnect \/ Cancel \/ Abort \/ Delete
  BY <1>2 DEF Publish, Disconnect, Cancel, Abort, Delete
<1>3. CASE PublishFails
  <2>1. nc \in Conns
    BY <1>3 DEF PublishFails, connected, ClientOK
  <2> QED
    BY <1>3, <2>1, AtType, PushType DEF PublishFails, Handlers, OnError
<1>4. CASE AttemptGetsNone \/ Attempted \/ ErrorReturns \/ RefusedReturns
           \/ EventReturns \/ CloseReturns
  BY <1>4, <1>b DEF AttemptGetsNone, Attempted, ErrorReturns, RefusedReturns,
     EventReturns, CloseReturns, TopIs
<1>5. ASSUME NEW c \in Conns, AttemptFails(c) PROVE stack' \in Seq(Frame)
  <2>1. At("error", c) \in Frame /\ At("attempted", c) \in Frame
    BY AtType DEF Handlers, OnError
  <2>2. Tail(stack) \in Seq(Frame)
    BY <1>5, <1>b DEF AttemptFails, TopIs
  <2> QED
    BY <1>5, <2>1, <2>2 DEF AttemptFails
<1>6. ASSUME NEW c \in Conns, NEW ph \in Phases, AttemptStarts(c, ph)
      PROVE  stack' \in Seq(Frame)
  BY <1>6, <1>b, AtType, PushType DEF AttemptStarts, TopIs
<1>7. CASE LostReturns
  BY <1>7, <1>b, AtType, PushType DEF LostReturns, TopIs, Handlers
<1>8. CASE Tick
  BY <1>8 DEF Tick
<1>9. ASSUME NEW c \in Conns, Visit(c) PROVE stack' \in Seq(Frame)
  BY <1>9, <1>a, OneFrame DEF Visit, Handlers, OnError
<1>10. ASSUME NEW c \in Conns, Network(c) PROVE stack' \in Seq(Frame)
  <2>1. CASE Connects(c) \/ PeerCloses(c) \/ \E ph \in Phases : Resolves(c, ph)
    BY <2>1 DEF Connects, PeerCloses, Resolves
  <2>2. CASE Fails(c) \/ ResolveFails(c)
    BY <2>2, OneFrame DEF Fails, ResolveFails, MgError, Handlers, OnError
  <2>3. CASE Accepts(c) \/ Refuses(c) \/ Message(c) \/ Answers(c)
    BY <2>3, OneFrame DEF Accepts, Refuses, Message, Answers, Handlers, OnError
  <2> QED
    BY <1>10, <2>1, <2>2, <2>3 DEF Network
<1>11. ASSUME NEW c \in Conns, Ends(c) PROVE stack' \in Seq(Frame)
  <2>1. CASE Stays(c) \/ CloseUnheard(c)
    BY <2>1 DEF Stays, CloseUnheard
  <2>2. CASE CloseConn(c)
    <3>1. << At("lost", c) >> \in Seq(Frame) /\ << At("close", c) >> \in Seq(Frame)
      BY OneFrame DEF Handlers
    <3>2. stack' = << At("lost", c) >> \/ stack' = << At("close", c) >>
      BY <2>2 DEF CloseConn
    <3> QED
      BY <3>1, <3>2
  <2> QED
    BY <1>11, <2>1, <2>2 DEF Ends
<1>12. CASE UNCHANGED vars
  BY <1>12 DEF vars
<1> QED
  BY <1>1, <1>2, <1>3, <1>4, <1>5, <1>6, <1>7, <1>8, <1>9, <1>10, <1>11, <1>12
     DEF Next, Application, Attempts, Returns

LEMMA TypeStep == TypeOK /\ [Next]_vars => TypeOK'
<1> SUFFICES ASSUME TypeOK, [Next]_vars PROVE TypeOK'
  OBVIOUS
<1>1. FlagsOK' /\ Fields' /\ ConnsOK' /\ stack' \in Seq(Frame)
  BY FlagsStep, FieldsStep, ConnsStep, StackStep DEF TypeOK
<1> QED
  BY <1>1 DEF TypeOK, Fields

\* The fields of the three clients, their connections and the interrupted
\* activations keep their types whatever the application calls: an attempt has
\* no connection yet, every other activation has one.
THEOREM TypeCorrect == Spec => []TypeOK
BY TypeInit, TypeStep, PTL DEF Spec
-----------------------------------------------------------------------------
(* How the stack changes *)

StackOK == Shape /\ Frames /\ Apart

LEMMA Depth ==
    ASSUME TypeOK
    PROVE  /\ Len(stack) \in Nat /\ (stack = << >> <=> Len(stack) = 0)
           /\ \A i \in Depths : /\ stack[i] \in Frame
                               /\ stack[i].op # "attempt" => stack[i].at \in Conns
           /\ stack # << >> => 1 \in Depths /\ Top = stack[1]
<1>1. Len(stack) \in Nat /\ (stack = << >> <=> Len(stack) = 0)
  BY EmptySeq DEF TypeOK
<1>2. \A i \in Depths : stack[i] \in Frame
  BY DEF TypeOK, Depths
<1>3. stack # << >> => 1 \in Depths /\ Top = stack[1]
  BY <1>1, TopType DEF TypeOK, Depths
<1> QED
  BY <1>1, <1>2, <1>3 DEF Frame

LEMMA BaseAlone ==
    ASSUME TypeOK, Shape, stack # << >>, Top.op \in Based
    PROVE  /\ Len(stack) = 1 /\ Tail(stack) = << >>
           /\ \A i \in Depths : stack[i] = Top
<1>1. Len(stack) = 1 /\ Top = stack[1]
  BY Depth DEF Shape
<1>2. Tail(stack) = << >>
  <2>1. Tail(stack) \in Seq(Frame) /\ Len(Tail(stack)) = 0
    BY <1>1, PopType DEF TypeOK
  <2> QED
    BY <2>1, EmptySeq
<1> QED
  BY <1>1, <1>2 DEF Depths

LEMMA Emptied ==
    ASSUME stack' = << >>
    PROVE  StackOK' /\ ~Busy' /\ \A c \in Conns : ~InHand(c)'
<1>1. Len(stack') = 0
  OBVIOUS
<1> QED
  BY <1>1 DEF StackOK, Shape, Frames, Apart, Depths, Busy, InHand

LEMMA Single ==
    ASSUME NEW op \in Handlers, NEW c \in Conns, stack' = << At(op, c) >>,
           op = "error" => c = nc' /\ phase'[c] # "free" /\ c \in closing',
           op = "refused" => c = nc' /\ c \in owned' /\ ~up',
           op \in Leaving => c \in owned' /\ c # nc' /\ visiting' = None
    PROVE  StackOK' /\ (op \in Leaving => InHand(c)' /\ Busy')
<1>1. At(op, c).op = op /\ At(op, c).at = c /\ At(op, c) \in Frame
  BY AtType
<1>2. Len(stack') = 1 /\ stack'[1] = At(op, c)
  BY <1>1, OneType
<1>3. Depths' = {1} /\ op \notin Trying
  BY <1>2 DEF Depths, Trying, Handlers, OnError
<1>4. Shape'
  <2>1. \A i \in Depths' : i = Len(stack') /\ stack'[i].op = op /\ stack'[i].at = c
    BY <1>1, <1>2, <1>3
  <2>2. op # "attempt" /\ op # "attempted" /\ (op = "error" => c = nc')
    BY <1>3 DEF Trying
  <2> QED
    BY <2>1, <2>2 DEF Shape, Trying
<1>5. Frames'
  BY <1>1, <1>2, <1>3 DEF Frames, FrameOK, Trying
<1>6. Apart'
  BY <1>1, <1>2, <1>3 DEF Apart, Trying
<1> QED
  BY <1>1, <1>2, <1>3, <1>4, <1>5, <1>6 DEF StackOK, InHand, Busy

\* Steps that leave the stack alone, and only add to what is closing.
LEMMA Kept ==
    ASSUME TypeOK, Inv, ~broken',
           UNCHANGED <<kind, alive, nc, up, code, owned, phase, stack, told, refused>>,
           \A c \in closing : c \in closing', input' = "buffer" => visiting' \in owned,
           stack # << >> => visiting' = visiting
    PROVE  Inv'
<1>1. Shape' /\ Apart'
  BY DEF Inv, Shape, Apart, Depths
<1>2. Frames'
  BY Depth DEF Inv, Frames, FrameOK, Depths
<1>3. (Busy <=> Busy') /\ \A c \in Conns : InHand(c) <=> InHand(c)'
  BY DEF Busy, InHand, Depths
<1>4. Owns'
  BY <1>3 DEF Inv, Owns, TypeOK, ConnsOK
<1>5. Tells'
  BY DEF Inv, Tells
<1> QED
  BY <1>1, <1>2, <1>4, <1>5 DEF Inv

\* Whoever may start an attempt finds none under way, nor an error in hand.
LEMMA NothingTried ==
    ASSUME OneAttempt, TypeOK, Inv, nc = None,
           NEW op \in {"connect", "getTime", "send"}, Call(op),
           op = "getTime" => "getTime" \notin FailCalls
    PROVE  /\ \A i \in Depths : stack[i].op \notin Trying \union OnError
           /\ op = "send" => stack = << >>
<1>1. CASE Idle
  BY <1>1, Depth DEF Idle, Depths
<1>2. CASE ~Idle
  <2>1. /\ op \notin FailCalls /\ stack # << >> /\ Top.op \in Handlers
        /\ Top.op = "error" => ~InsideConnect /\ op \in ErrorCalls
        /\ Top.op # "error" => op \in ErrorCalls \union HandlerCalls
    BY <1>2 DEF OneAttempt, Call, TopIs, Handlers, OnError
  <2>2. op # "send"
    BY <2>1 DEF OneAttempt
  <2>3. Top = stack[1] /\ 1 \in Depths /\ Top.at \in Conns /\ Len(stack) \in Nat
    <3>1. Top.op # "attempt"
      BY <2>1 DEF Handlers, OnError
    <3>2. Top.at \in Conns
      BY <2>1, <3>1, TopType DEF TypeOK
    <3> QED
      BY <2>1, <3>2, Depth
  <2>4. CASE Top.op = "error"
    <3>1. Top.at # nc
      BY <2>3, ConnsAssumption
    <3>2. 1 < Len(stack) /\ stack[2] = At("attempted", Top.at)
      BY <2>3, <2>4, <3>1 DEF Inv, Shape
    <3> QED
      BY <2>1, <2>3, <2>4, <3>2 DEF InsideConnect
  <2>5. CASE Top.op # "error"
    <3>1. Top.op \in Based
      BY <2>1, <2>5 DEF Handlers, OnError, Based, Leaving
    <3>2. \A i \in Depths : stack[i] = Top
      BY <2>1, <3>1, BaseAlone DEF Inv
    <3>3. Top.op # "refused"
      BY <2>3, ConnsAssumption DEF Inv, Frames, FrameOK
    <3> QED
      BY <2>2, <2>5, <3>1, <3>2, <3>3 DEF Based, Leaving, Trying, OnError
  <2> QED
    BY <2>4, <2>5
<1> QED
  BY <1>1, <1>2

LEMMA InvAttempting ==
    ASSUME OneAttempt, ~Nested, TypeOK, Inv, Connect \/ GetTime \/ SendRequest
    PROVE  Inv'
<1>1. /\ nc = None /\ nc' = nc /\ kind' = kind /\ alive' = TRUE
      /\ stack' = Push(At("attempt", None), stack)
      /\ UNCHANGED <<up, phase, owned, closing, input, visiting, broken, told, refused>>
      /\ kind = "mqtt" => ~code'
  <2>1. CASE Connect
    BY <2>1 DEF Connect, Attempting, connVars, visitVars, history, TypeOK, FlagsOK
  <2>2. CASE GetTime
    BY <2>2 DEF GetTime, connected, Attempting, clientVars, connVars, visitVars, history,
       TypeOK, FlagsOK
  <2>3. CASE SendRequest
    <3>1. stack = << >>
      BY <2>3 DEF SendRequest, Call, OneAttempt, Idle
    <3>2. ~alive
      BY <2>3, <3>1 DEF SendRequest
    <3> QED
      BY <2>3, <3>2 DEF SendRequest, Attempting, connVars, visitVars, history, Inv, Owns
  <2> QED
    BY <2>1, <2>2, <2>3
<1>2. /\ \A i \in Depths : stack[i].op \notin Trying \union OnError
      /\ kind = "http" => stack = << >>
  BY <1>1, NothingTried DEF Connect, GetTime, SendRequest, Nested
<1>3. /\ Len(stack) \in Nat /\ Len(stack') = Len(stack) + 1
      /\ stack'[1] = At("attempt", None)
      /\ \A i \in Depths : stack'[i + 1] = stack[i]
  <2>1. At("attempt", None) \in Frame /\ stack \in Seq(Frame)
    BY AttemptType DEF TypeOK
  <2>2. Len(stack) \in Nat
    BY Depth
  <2>3. LET new == Push(At("attempt", None), stack)
        IN  /\ Len(new) = Len(stack) + 1 /\ new[1] = At("attempt", None)
            /\ \A i \in 1 .. Len(stack) : new[i + 1] = stack[i]
    BY <2>1, PushType
  <2> QED
    BY <1>1, <2>2, <2>3 DEF Depths
<1>4. At("attempt", None).op = "attempt"
  BY DEF At
<1>5. /\ 1 \in Depths'
      /\ \A i \in Depths' : i = 1 \/ \E j \in Depths : i = j + 1 /\ stack'[i] = stack[j]
  BY <1>3 DEF Depths
<1>6. Shape'
  <2>1. kind' = "http" => Len(stack') = 1
    BY <1>1, <1>2, <1>3
  <2>2. \A j \in Depths : stack[j].op \in Based => j = Len(stack)
    BY DEF Inv, Shape
  <2>3. \A i \in Depths' : i = 1 \/ stack'[i].op \notin Trying \union OnError
    BY <1>2, <1>5
  <2>4. \A i \in Depths' : stack'[i].op \in Based => i = Len(stack')
    BY <1>3, <1>4, <1>5, <2>2 DEF Based, Leaving
  <2> QED
    BY <1>3, <1>4, <2>1, <2>3, <2>4 DEF Shape, Trying, OnError
<1>7. Frames'
  BY <1>1, <1>2, <1>3, <1>4, <1>5 DEF Inv, Frames, FrameOK, Trying, Leaving, OnError
<1>8. Apart'
  BY <1>2, <1>3, <1>4, <1>5 DEF Inv, Apart, Trying, Leaving, OnError
<1>9. Busy' /\ \A c \in Conns : InHand(c) => InHand(c)'
  <2>1. Busy'
    BY <1>3, <1>4, <1>5 DEF Busy, Trying
  <2>2. ASSUME NEW c \in Conns, InHand(c) PROVE InHand(c)'
    <3>1. PICK i \in Depths : stack[i].at = c /\ stack[i].op \in {"attempted"} \union Leaving
      BY <2>2 DEF InHand
    <3>2. i + 1 \in Depths' /\ stack'[i + 1] = stack[i]
      BY <1>3 DEF Depths
    <3> QED
      BY <3>1, <3>2 DEF InHand
  <2> QED
    BY <2>1, <2>2
<1>10. Owns'
  BY <1>1, <1>9 DEF Inv, Owns, TypeOK, ConnsOK
<1>11. Tells'
  BY <1>1 DEF Inv, Tells
<1> QED
  BY <1>1, <1>6, <1>7, <1>8, <1>10, <1>11 DEF Inv
LEMMA InvInit == Init => Inv
<1> SUFFICES ASSUME Init PROVE Inv
  OBVIOUS
<1>1. Len(stack) = 0 /\ Depths = {}
  BY DEF Init, Depths
<1>2. Shape /\ Frames /\ Apart
  BY <1>1 DEF Shape, Frames, Apart
<1>3. Owns
  BY ConnsAssumption DEF Init, Owns
<1>4. Tells
  BY DEF Init, Tells
<1> QED
  BY <1>2, <1>3, <1>4 DEF Init, Inv

LEMMA InvKept ==
    ASSUME TypeOK, Inv,
           \/ Publish \/ Disconnect \/ Cancel \/ Abort \/ Tick
           \/ \E c \in Conns : PeerCloses(c) \/ Stays(c)
           \/ UNCHANGED vars
    PROVE  Inv'
<1> USE DEF clientVars, flagVars, visitVars, history
<1>1. /\ UNCHANGED <<kind, alive, nc, up, code, owned, phase, stack, told, refused, broken>>
      /\ \A c \in closing : c \in closing'
      /\ UNCHANGED <<input, visiting>> \/ (input' = "none" /\ stack = << >>)
  <2>1. CASE Publish \/ Disconnect \/ Cancel \/ Abort \/ Tick
    BY <2>1 DEF Publish, Disconnect, Cancel, Abort, Tick
  <2>2. ASSUME NEW c \in Conns, PeerCloses(c) \/ Stays(c)
        PROVE  /\ UNCHANGED <<kind, alive, nc, up, code, owned, phase, stack, told,
                              refused, broken>>
               /\ \A d \in closing : d \in closing'
               /\ input' = "none" /\ stack = << >>
    BY <2>2 DEF PeerCloses, Stays, EndsVisit, Reads
  <2>3. CASE UNCHANGED vars
    BY <2>3 DEF vars
  <2> QED
    BY <2>1, <2>2, <2>3
<1>2. /\ ~broken' /\ (input' = "buffer" => visiting' \in owned)
      /\ stack # << >> => visiting' = visiting
  BY <1>1 DEF Inv, Tells
<1> QED
  BY <1>1, <1>2, Kept

\* At rest only _nc, if there is one, has the object as its owner.
LEMMA AtRest ==
    ASSUME TypeOK, Inv, stack = << >>
    PROVE  owned \subseteq {nc} /\ (kind = "http" /\ alive => nc # None)
<1>1. Depths = {}
  BY Depth DEF Depths
<1> QED
  BY <1>1 DEF Inv, Owns, InHand, Busy

LEMMA InvDelete ==
    ASSUME TypeOK, Inv, Delete
    PROVE  Inv'
<1>1. /\ stack = << >> /\ visiting = None /\ kind # "http"
      /\ alive' = FALSE /\ nc' = None /\ up' = FALSE /\ told' = 0
      /\ owned' = owned \ {nc} /\ closing' = closing \union (owned \intersect {nc})
      /\ UNCHANGED <<kind, code, phase, visiting, input, stack, broken, refused>>
  BY CallsAssumption, KindsAssumption
     DEF Delete, Call, Idle, Detach, visitVars
<1>2. owned' = {}
  BY <1>1, AtRest
<1>3. Shape' /\ Frames' /\ Apart'
  BY <1>1, Emptied DEF StackOK
<1>4. Owns'
  BY <1>1, <1>2, AtRest DEF Inv, Owns
<1>5. Tells'
  BY <1>1, ConnsAssumption DEF Inv, Tells, TypeOK, ConnsOK
<1> QED
  BY <1>1, <1>3, <1>4, <1>5 DEF Inv

\* How an activation that interrupts the others changes their places.
LEMMA Pushed ==
    ASSUME NEW f \in Frame, stack \in Seq(Frame), stack' = Push(f, stack)
    PROVE  /\ Len(stack) \in Nat /\ Len(stack') = Len(stack) + 1
           /\ 1 \in Depths' /\ stack'[1] = f
           /\ \A i \in Depths : i + 1 \in Depths' /\ stack'[i + 1] = stack[i]
           /\ \A i \in Depths' : i = 1 \/ \E j \in Depths : i = j + 1
<1>1. Len(stack) \in Nat /\ f \in Frame /\ stack \in Seq(Frame)
  OBVIOUS
<1>3. /\ Len(stack') = Len(stack) + 1 /\ stack'[1] = f
      /\ \A i \in 1 .. Len(stack) : stack'[i + 1] = stack[i]
  BY <1>1 DEF Push
<1>4. /\ 1 \in Depths'
      /\ \A i \in Depths : i + 1 \in Depths' /\ stack'[i + 1] = stack[i]
  BY <1>1, <1>3 DEF Depths
<1>5. ASSUME NEW i \in Depths', i # 1 PROVE \E j \in Depths : i = j + 1
  <2>1. i - 1 \in Depths /\ i = (i - 1) + 1
    BY <1>1, <1>3, <1>5 DEF Depths
  <2> QED
    BY <2>1
<1> QED
  BY <1>1, <1>3, <1>4, <1>5

LEMMA InvPublishFails ==
    ASSUME TypeOK, Inv, PublishFails
    PROVE  Inv'
<1>1. /\ nc \in Conns /\ nc \notin closing /\ up /\ kind = "mqtt"
      /\ closing' = closing \union {nc}
      /\ stack' = Push(At("error", nc), stack)
      /\ UNCHANGED <<kind, alive, nc, up, code, owned, phase, told, refused, broken,
                     input, visiting>>
  BY DEF PublishFails, connected, clientVars, visitVars, history, TypeOK, ClientOK
<1>2. /\ At("error", nc).op = "error" /\ At("error", nc).at = nc
      /\ At("error", nc) \in Frame
  BY <1>1, AtType DEF Handlers, OnError
<1>3. /\ Len(stack) \in Nat /\ Len(stack') = Len(stack) + 1
      /\ 1 \in Depths' /\ stack'[1] = At("error", nc)
      /\ \A i \in Depths : i + 1 \in Depths' /\ stack'[i + 1] = stack[i]
      /\ \A i \in Depths' : i = 1 \/ \E j \in Depths : i = j + 1
  BY <1>1, <1>2, Pushed DEF TypeOK
<1>4. \A i \in Depths : /\ stack[i].op \notin Trying /\ stack[i].op # "refused"
                        /\ stack[i].op = "error" => stack[i].at # nc
  BY <1>1, ConnsAssumption DEF Inv, Frames, FrameOK
<1>5. Shape'
  <2> SUFFICES ASSUME NEW i \in Depths'
               PROVE  /\ stack'[i].op \in Based => i = Len(stack')
                      /\ stack'[i].op \notin Trying
                      /\ stack'[i].op = "error" => stack'[i].at = nc
    BY <1>1 DEF Shape, Trying
  <2>1. CASE i = 1
    BY <2>1, <1>2, <1>3 DEF Based, Leaving, Trying
  <2>2. ASSUME NEW j \in Depths, i = j + 1
        PROVE  /\ stack'[i] = stack[j] /\ i \in Nat
               /\ stack[j].op \in Based => i = Len(stack')
               /\ stack[j].op = "error" => stack[j].at = nc
    <3>1. j + 1 \in Nat /\ stack'[j + 1] = stack[j]
      BY <1>3 DEF Depths
    <3>2. stack[j].op \in Based => j = Len(stack)
      BY DEF Inv, Shape
    <3>3. stack[j].op = "error" => stack[j].at = nc
      <4>1. j < Len(stack) => j + 1 \in Depths
        BY <1>3 DEF Depths
      <4>2. j < Len(stack) => stack[j + 1].op # "attempted"
        BY <4>1, <1>4 DEF Trying
      <4>3. At("attempted", stack[j].at).op = "attempted"
        BY DEF At
      <4> QED
        BY <4>2, <4>3, Zenon DEF Inv, Shape
    <3> QED
      BY <3>1, <3>2, <3>3, <2>2, <1>3
  <2> QED
    BY <2>1, <2>2, <1>3, <1>4
<1>6. Frames'
  BY <1>1, <1>2, <1>3, <1>4 DEF Inv, Frames, FrameOK, Trying, Leaving, Tells
<1>7. Apart'
  BY <1>2, <1>3, <1>4 DEF Inv, Apart, Trying, Leaving, OnError
<1>8. \A c \in Conns : InHand(c) => InHand(c)'
  BY <1>3 DEF InHand
<1>9. Owns'
  BY <1>1, <1>8 DEF Inv, Owns, TypeOK, ConnsOK
<1>10. Tells'
  BY <1>1 DEF Inv, Tells
<1> QED
  BY <1>1, <1>5, <1>6, <1>7, <1>9, <1>10 DEF Inv

LEMMA Popped ==
    ASSUME TypeOK, stack # << >>, stack' = Tail(stack)
    PROVE  /\ Len(stack) \in Nat /\ Len(stack') = Len(stack) - 1
           /\ Top = stack[1] /\ 1 \in Depths
           /\ \A i \in Depths' : i + 1 \in Depths /\ stack'[i] = stack[i + 1]
           /\ \A i \in Depths : i = 1 \/ \E j \in Depths' : i = j + 1
<1>1. LET s == stack
      IN  /\ Len(s) \in Nat /\ Len(s) >= 1 /\ Len(Tail(s)) = Len(s) - 1
          /\ \A i \in 1 .. Len(Tail(s)) : Tail(s)[i] = s[i + 1]
  BY PopType DEF TypeOK
<1>2. Top = stack[1]
  BY TopType DEF TypeOK
<1> QED
  BY <1>1, <1>2 DEF Depths

\* While an attempt is innermost but for its own error, nothing else is tried
\* or in error below it, and _nc is empty.
LEMMA Lonely ==
    ASSUME TypeOK, Inv, stack # << >>, Top.op \in Trying
    PROVE  /\ nc = None /\ alive
           /\ \A i \in Depths : i # 1 => stack[i].op \in Based \ {"refused"}
<1>1. Top = stack[1] /\ 1 \in Depths /\ Len(stack) \in Nat
  BY Depth
<1>2. nc = None /\ alive
  BY <1>1 DEF Inv, Frames, FrameOK
<1>3. ASSUME NEW i \in Depths, i # 1 PROVE stack[i].op \in Based \ {"refused"}
  <2>1. stack[i] \in Frame /\ (stack[i].op # "attempt" => stack[i].at \in Conns)
    <3>1. \A j \in Depths : /\ stack[j] \in Frame
                            /\ stack[j].op # "attempt" => stack[j].at \in Conns
      BY PopType DEF TypeOK, Depths, Frame
    <3> QED
      BY <3>1
  <2>2. stack[i].op # "attempt"
    BY <1>3 DEF Inv, Shape
  <2>3. stack[i].at # nc
    BY <1>2, <2>1, <2>2, ConnsAssumption
  <2>4. stack[i].op # "refused"
    BY <2>3 DEF Inv, Frames, FrameOK
  <2>5. stack[i].op # "attempted"
    <3>1. stack[1].op # "error" /\ At("error", stack[2].at).op = "error"
      BY <1>1 DEF Trying, At
    <3> QED
      BY <1>3, <3>1, Zenon DEF Inv, Shape
  <2>6. stack[i].op # "error"
    <3> SUFFICES ASSUME stack[i].op = "error" PROVE FALSE
      OBVIOUS
    <3>1. i + 1 \in Depths /\ stack[i + 1] = At("attempted", stack[i].at)
      BY <1>1, <2>3 DEF Inv, Shape, Depths
    <3>2. stack[i + 1].op = "attempted"
      BY <3>1 DEF At
    <3>3. i + 1 # 1 /\ (i + 1 = 2 => i = 1)
      BY <1>1 DEF Depths
    <3> QED
      BY <1>3, <3>1, <3>2, <3>3 DEF Inv, Shape
  <2> QED
    BY <2>1, <2>2, <2>4, <2>5, <2>6 DEF Frame, Handlers, OnError, Based, Leaving
<1> QED
  BY <1>2, <1>3

LEMMA InvAttemptEnds ==
    ASSUME TypeOK, Inv, AttemptGetsNone \/ Attempted
    PROVE  Inv'
<1> DEFINE done == IF Top.op = "attempted" THEN Top.at ELSE None
<1>1. /\ stack # << >> /\ Top.op \in Trying /\ stack' = Tail(stack)
      /\ UNCHANGED <<kind, up, code, phase, visiting, input, broken, told, refused>>
  BY DEF AttemptGetsNone, Attempted, TopIs, Trying, visitVars, history
<1>2. /\ nc = None /\ alive
      /\ \A i \in Depths : i # 1 => stack[i].op \in Based \ {"refused"}
  BY <1>1, Lonely
<1>3. /\ Len(stack) \in Nat /\ Len(stack') = Len(stack) - 1
      /\ Top = stack[1] /\ 1 \in Depths
      /\ \A i \in Depths' : i + 1 \in Depths /\ stack'[i] = stack[i + 1]
      /\ \A i \in Depths : i = 1 \/ \E j \in Depths' : i = j + 1
  BY <1>1, Popped
<1>4. \A i \in Depths' : /\ i \in Nat /\ i + 1 # 1
                         /\ stack'[i].op \in Based \ {"refused"}
  BY <1>2, <1>3 DEF Depths
<1>5. /\ done \in owned \union {None} /\ done \notin refused
      /\ done # None => ~code \/ kind # "mqtt"
  BY <1>1, <1>2, <1>3, ConnsAssumption
     DEF Inv, Frames, FrameOK, Trying, TypeOK, HistoryOK
<1>6. \A c \in owned : c = done \/ InHand(c)'
  <2> SUFFICES ASSUME NEW c \in owned, c # done PROVE InHand(c)'
    OBVIOUS
  <2>1. c # None
    BY ConnsAssumption DEF TypeOK, ConnsOK
  <2>2. PICK i \in Depths : stack[i].at = c /\ stack[i].op \in {"attempted"} \union Leaving
    BY <1>2, <2>1 DEF Inv, Owns, InHand
  <2>3. i # 1
    BY <1>1, <1>3, <2>2 DEF Trying, Leaving
  <2>4. PICK j \in Depths' : i = j + 1
    BY <1>3, <2>3
  <2> QED
    BY <1>3, <2>2, <2>4 DEF InHand
<1>7. kind = "http" => stack' = << >> /\ owned \subseteq {done}
  <2> SUFFICES ASSUME kind = "http" PROVE stack' = << >> /\ owned \subseteq {done}
    OBVIOUS
  <2>1. Len(stack) = 1
    BY <1>1, <1>3 DEF Inv, Shape
  <2>2. stack' = << >>
    <3>1. stack' \in Seq(Frame) /\ Len(stack') = 0
      BY <1>1, <1>3, <2>1, TopType DEF TypeOK
    <3> QED
      BY <3>1, EmptySeq
  <2> QED
    BY <1>6, <2>2, Emptied DEF TypeOK, ConnsOK
<1>8. /\ closing' = closing
      /\ \/ nc' = done /\ owned' = owned /\ alive' /\ (kind = "http" => done # None)
         \/ kind = "http" /\ done = None /\ nc' = None /\ ~alive' /\ owned' = {}
  <2>1. None \notin owned
    BY ConnsAssumption DEF TypeOK, ConnsOK
  <2>2. CASE AttemptGetsNone
    <3>1. done = None
      BY <2>2 DEF AttemptGetsNone, TopIs
    <3>2. CASE kind = "http"
      BY <2>1, <2>2, <3>1, <3>2, <1>2, <1>7 DEF AttemptGetsNone, Detach
    <3>3. CASE kind # "http"
      <4>1. UNCHANGED <<alive, nc, owned, closing>>
        BY <2>2, <3>3 DEF AttemptGetsNone
      <4>2. alive'
        BY <4>1, <1>2, Zenon
      <4> QED
        BY <3>1, <3>3, <4>1, <4>2, <1>2
    <3> QED
      BY <3>2, <3>3
  <2>3. CASE Attempted
    <3>1. ~connected /\ done = Top.at
      BY <2>3, <1>2 DEF connected, Attempted, TopIs
    <3>2. nc' = done /\ UNCHANGED <<alive, owned, closing>>
      BY <2>3, <3>1 DEF Attempted
    <3>3. alive'
      BY <3>2, <1>2, Zenon
    <3>4. done # None
      BY <2>3, <3>1, <1>1, TopType, ConnsAssumption DEF Attempted, TopIs, TypeOK
    <3> QED
      BY <3>2, <3>3, <3>4
  <2> QED
    BY <2>2, <2>3
<1>9. Shape'
  <2>1. \A i \in Depths : stack[i].op \in Based => i = Len(stack)
    BY DEF Inv, Shape
  <2>2. \A i \in Depths' : stack'[i].op \in Based => i = Len(stack')
    BY <1>3, <1>4, <2>1 DEF Depths
  <2> QED
    BY <1>4, <2>2 DEF Shape, Based, Leaving, Trying
<1>10. Frames'
  <2> SUFFICES ASSUME NEW i \in Depths', stack'[i].op \in Leaving
               PROVE  /\ stack'[i].at \in owned' /\ stack'[i].at # nc'
                      /\ visiting' = None
    BY <1>4 DEF Frames, FrameOK, Based, Leaving, Trying
  <2>1. i + 1 \in Depths /\ stack'[i] = stack[i + 1]
    BY <1>3
  <2>2. stack'[i].at \in owned /\ stack'[i].at # nc /\ visiting = None
    BY <2>1 DEF Inv, Frames, FrameOK
  <2>3. stack'[i].at # done
    BY <1>3, <2>1, <1>2, <2>2 DEF Inv, Apart
  <2>4. owned' = owned
    BY <1>7, <1>8, <2>2, <2>3
  <2> QED
    BY <1>1, <1>8, <1>2, <2>2, <2>3, <2>4
<1>11. Apart'
  BY <1>4 DEF Apart, Based, Leaving, OnError
<1>12. Owns'
  <2>1. \A c \in owned' : phase'[c] # "free" /\ (c = nc' \/ InHand(c)')
    BY <1>1, <1>6, <1>8 DEF Inv, Owns
  <2>2. \A c \in Conns : phase'[c] # "free" => c \in owned' \/ c \in closing'
    <3>1. CASE owned' = owned
      BY <1>1, <1>8, <3>1 DEF Inv, Owns
    <3>2. CASE owned' # owned
      <4>1. owned \subseteq {None}
        BY <1>7, <1>8, <3>2
      <4> QED
        BY <1>1, <1>8, <4>1, ConnsAssumption DEF Inv, Owns
    <3> QED
      BY <3>1, <3>2
  <2>3. /\ nc' # None => nc' \in owned'
        /\ ~alive' => owned' = {} /\ nc' = None
        /\ kind' = "http" /\ alive' /\ nc' = None => Busy'
    BY <1>1, <1>5, <1>8
  <2> QED
    BY <2>1, <2>2, <2>3 DEF Owns
<1>13. Tells'
  <2>1. ~up
    BY <1>2 DEF Inv, Tells
  <2>2. kind' = "mqtt" /\ nc' # None => (code' <=> nc' \in refused')
    <3>1. nc' # None => nc' = done
      BY <1>8
    <3>2. nc' # None /\ kind = "mqtt" => ~code /\ nc' \notin refused
      BY <1>5, <3>1
    <3> QED
      BY <1>1, <3>2, Zenon
  <2>3. input' = "buffer" => visiting' \in owned'
    <3>1. input' = "buffer" => visiting' \in owned /\ visiting' # None
      BY <1>1, ConnsAssumption DEF Inv, Tells, TypeOK, ConnsOK
    <3> QED
      BY <1>7, <1>8, <3>1
  <2>4. ~up' /\ told' = 0
    BY <1>1, <2>1, Zenon DEF Inv, Tells
  <2> QED
    BY <1>1, <2>2, <2>3, <2>4 DEF Inv, Tells
<1> QED
  BY <1>1, <1>9, <1>10, <1>11, <1>12, <1>13 DEF Inv

\* A new connection of an attempt, still unknown to the object.
LEMMA Starting ==
    ASSUME TypeOK, Inv, TopIs("attempt"), NEW c \in free,
           NEW ph \in Phases \ {"free"}, NewConn(c, ph),
           UNCHANGED <<kind, alive, nc, up, code, visiting, input, broken, told, refused>>,
           \A d \in closing : d \in closing',
           \E i \in Depths' : stack'[i] = At("attempted", c),
           \A i \in Depths : i # 1 => \E j \in Depths' : stack'[j] = stack[i],
           Shape', Apart',
           \A j \in Depths' : \/ stack'[j] = At("attempted", c)
                              \/ stack'[j] = At("error", c) /\ c \in closing'
                              \/ \E i \in Depths : i # 1 /\ stack'[j] = stack[i]
    PROVE  Inv'
<1>1. /\ c \in Conns /\ phase[c] = "free" /\ c \notin owned /\ c \notin refused
      /\ stack # << >> /\ Top.op \in Trying /\ Top.op = "attempt"
      /\ \A d \in Conns : phase'[d] = IF d = c THEN ph ELSE phase[d]
      /\ owned' = owned \union {c}
  BY DEF free, live, Inv, Owns, Tells, TopIs, Trying, NewConn, TypeOK, ConnsOK
<1>2. /\ nc = None /\ alive
      /\ \A i \in Depths : i # 1 => stack[i].op \in Based \ {"refused"}
  BY <1>1, Lonely
<1>3. /\ At("attempted", c).op = "attempted" /\ At("attempted", c).at = c
      /\ At("error", c).op = "error" /\ At("error", c).at = c
  BY <1>1, AtType DEF Handlers, OnError
<1>4. 1 \in Depths /\ stack[1].op = "attempt" /\ FrameOK(stack[1])
  BY <1>1, Depth DEF Inv, Frames
<1>5. Frames'
  <2> SUFFICES ASSUME NEW j \in Depths' PROVE FrameOK(stack[j])'
    BY DEF Frames
  <2>1. CASE stack'[j] = At("attempted", c)
    <3>1. stack'[j].op = "attempted" /\ stack'[j].at = c /\ c \in owned' /\ c \notin refused'
      BY <2>1, <1>1, <1>3
    <3>2. alive' /\ nc' = None /\ (kind' = "mqtt" => ~code')
      <4>1. kind = "mqtt" => ~code
        BY <1>4, Zenon DEF FrameOK, Trying
      <4> QED
        BY <4>1, <1>2, Zenon
    <3> QED
      BY <3>1, <3>2 DEF FrameOK, Leaving
  <2>2. CASE stack'[j] = At("error", c) /\ c \in closing'
    BY <2>2, <1>1, <1>3 DEF FrameOK, Leaving, Trying
  <2>3. CASE \E i \in Depths : i # 1 /\ stack'[j] = stack[i]
    <3>1. PICK i \in Depths : i # 1 /\ stack'[j] = stack[i]
      BY <2>3
    <3>2. FrameOK(stack[i]) /\ stack[i].op \in Based \ {"refused"}
      BY <1>2, <3>1 DEF Inv, Frames
    <3> QED
      BY <3>1, <3>2, <1>1 DEF FrameOK, Based, Leaving, Trying
  <2> QED
    BY <2>1, <2>2, <2>3
<1>6. InHand(c)' /\ \A d \in owned : d # nc => InHand(d)'
  <2>1. InHand(c)'
    BY <1>3 DEF InHand
  <2>2. ASSUME NEW d \in owned, d # nc PROVE InHand(d)'
    <3>1. PICK i \in Depths : stack[i].at = d /\ stack[i].op \in {"attempted"} \union Leaving
      BY <2>2 DEF Inv, Owns, InHand
    <3>2. PICK j \in Depths' : stack'[j] = stack[i]
      BY <3>1, <1>4 DEF Leaving
    <3> QED
      BY <3>1, <3>2 DEF InHand
  <2> QED
    BY <2>1, <2>2
<1>7. Owns'
  <2>1. \A d \in owned' : phase'[d] # "free" /\ (d = nc' \/ InHand(d)')
    BY <1>1, <1>6 DEF Inv, Owns, TypeOK, ConnsOK
  <2>2. \A d \in Conns : phase'[d] # "free" => d \in owned' \/ d \in closing'
    BY <1>1 DEF Inv, Owns
  <2>3. nc' = None /\ alive' /\ Busy'
    <3>1. alive'
      BY <1>2, Zenon
    <3> QED
      BY <3>1, <1>2, <1>3 DEF Busy, Trying
  <2> QED
    BY <2>1, <2>2, <2>3 DEF Owns
<1>8. Tells'
  BY <1>1, <1>2 DEF Inv, Tells, TypeOK, HistoryOK
<1> QED
  BY <1>5, <1>7, <1>8 DEF Inv

LEMMA InvAttemptStarts ==
    ASSUME TypeOK, Inv, NEW c \in Conns, NEW ph \in Phases \ {"free"}, AttemptStarts(c, ph)
    PROVE  Inv'
<1>1. /\ TopIs("attempt") /\ c \in free /\ NewConn(c, ph)
      /\ stack' = Push(At("attempted", c), Tail(stack))
      /\ UNCHANGED <<kind, alive, nc, up, code, visiting, input, broken, told, refused>>
      /\ closing' = closing
  BY DEF AttemptStarts, clientVars, visitVars, history
<1>2. /\ stack # << >> /\ Top.op \in Trying
      /\ c \notin owned
  BY <1>1 DEF TopIs, Trying, free, live, Inv, Owns
<1>3. \A i \in Depths : i # 1 => stack[i].op \in Based \ {"refused"}
  BY <1>2, Lonely
<1>4. At("attempted", c).op = "attempted" /\ At("attempted", c).at = c
  BY AtType
<1>5. /\ Len(stack) \in Nat /\ Len(stack') = Len(stack) /\ 1 \in Depths
      /\ stack'[1] = At("attempted", c)
      /\ \A i \in Depths : i # 1 => stack'[i] = stack[i]
  <2>1. /\ stack \in Seq(Frame) /\ At("attempted", c) \in Frame
        /\ Tail(stack) \in Seq(Frame) /\ Len(stack) \in Nat
        /\ Len(stack) >= 1 /\ Len(Tail(stack)) = Len(stack) - 1
        /\ \A i \in 1 .. Len(Tail(stack)) : Tail(stack)[i] = stack[i + 1]
    BY <1>2, AtType, PopType DEF TypeOK
  <2>2. /\ Len(stack') = Len(Tail(stack)) + 1 /\ stack'[1] = At("attempted", c)
        /\ \A i \in 1 .. Len(Tail(stack)) : stack'[i + 1] = Tail(stack)[i]
    BY <1>1, <2>1 DEF Push
  <2>3. ASSUME NEW i \in Depths, i # 1 PROVE stack'[i] = stack[i]
    <3>1. i - 1 \in 1 .. Len(Tail(stack)) /\ i = (i - 1) + 1
      BY <2>1, <2>3 DEF Depths
    <3> QED
      BY <2>1, <2>2, <3>1
  <2> QED
    BY <2>1, <2>2, <2>3 DEF Depths
<1>6. Depths' = Depths
  BY <1>5 DEF Depths
<1>7. Shape'
  <2>1. \A i \in Depths : /\ stack[i].op \in Based => i = Len(stack)
                          /\ kind = "http" /\ stack[i].op \in Trying => i = Len(stack)
    BY DEF Inv, Shape
  <2>2. kind = "http" => Len(stack) = 1
    BY <1>2, <1>5, <2>1, Depth
  <2> QED
    BY <1>1, <1>3, <1>4, <1>5, <1>6, <2>1, <2>2 DEF Shape, Based, Leaving, Trying
<1>8. Apart'
  <2>1. \A i \in Depths : stack[i].op \in Leaving => stack[i].at # c
    BY <1>2 DEF Inv, Frames, FrameOK
  <2> QED
    BY <1>3, <1>4, <1>5, <1>6, <2>1 DEF Apart, Based, Leaving, OnError
<1>9. /\ \E i \in Depths' : stack'[i] = At("attempted", c)
      /\ \A i \in Depths : i # 1 => \E j \in Depths' : stack'[j] = stack[i]
      /\ \A j \in Depths' : \/ stack'[j] = At("attempted", c)
                            \/ \E i \in Depths : i # 1 /\ stack'[j] = stack[i]
  BY <1>5, <1>6
<1> QED
  BY <1>1, <1>7, <1>8, <1>9, Starting

LEMMA InvAttemptFails ==
    ASSUME TypeOK, Inv, NEW c \in Conns, AttemptFails(c)
    PROVE  Inv'
<1> DEFINE e == At("error", c)
           a == At("attempted", c)
<1>1. /\ TopIs("attempt") /\ c \in free /\ NewConn(c, "resolving")
      /\ stack' = <<e, a>> \o Tail(stack)
      /\ UNCHANGED <<kind, alive, nc, up, code, visiting, input, broken, told, refused>>
      /\ closing' = closing \union {c}
  BY DEF AttemptFails, clientVars, visitVars, history
<1>2. /\ stack # << >> /\ Top.op \in Trying
      /\ c \notin owned
  BY <1>1 DEF TopIs, Trying, free, live, Inv, Owns
<1>3. \A i \in Depths : i # 1 => stack[i].op \in Based \ {"refused"}
  BY <1>2, Lonely
<1>4. a.op = "attempted" /\ a.at = c /\ e.op = "error" /\ e.at = c
  BY AtType DEF Handlers, OnError
<1>5. /\ Len(stack) \in Nat /\ Len(stack) >= 1 /\ Len(stack') = Len(stack) + 1
      /\ stack'[1] = e /\ stack'[2] = a
      /\ \A i \in Depths : i # 1 => stack'[i + 1] = stack[i]
  <2>1. /\ stack \in Seq(Frame) /\ <<e, a>> \in Seq(Frame)
        /\ Tail(stack) \in Seq(Frame) /\ Len(stack) \in Nat
        /\ Len(stack) >= 1 /\ Len(Tail(stack)) = Len(stack) - 1
        /\ \A i \in 1 .. Len(Tail(stack)) : Tail(stack)[i] = stack[i + 1]
    <3>1. e \in Frame /\ a \in Frame
      BY AtType DEF Handlers, OnError
    <3>2. <<e, a>> \in Seq(Frame)
      BY <3>1
    <3> QED
      BY <1>2, <3>2, PopType DEF TypeOK
  <2>2. /\ Len(stack') = Len(Tail(stack)) + 2 /\ stack'[1] = e /\ stack'[2] = a
        /\ \A i \in 1 .. Len(Tail(stack)) : stack'[i + 2] = Tail(stack)[i]
    <3> HIDE DEF e, a
    <3> QED
      BY <1>1, <2>1
  <2>3. ASSUME NEW i \in Depths, i # 1 PROVE stack'[i + 1] = stack[i]
    <3>1. i - 1 \in 1 .. Len(Tail(stack)) /\ i = (i - 1) + 1 /\ i + 1 = (i - 1) + 2
      BY <2>1, <2>3 DEF Depths
    <3> QED
      BY <2>1, <2>2, <3>1
  <2> QED
    BY <2>1, <2>2, <2>3
<1>6. /\ 1 \in Depths' /\ 2 \in Depths' /\ 1 \in Depths
      /\ \A i \in Depths : i # 1 => i + 1 \in Depths' /\ i + 1 \notin {1, 2}
      /\ \A j \in Depths' : \/ j = 1 \/ j = 2
                            \/ \E i \in Depths : i # 1 /\ j = i + 1
  <2>1. ASSUME NEW j \in Depths', j # 1, j # 2
        PROVE  \E i \in Depths : i # 1 /\ j = i + 1
    <3>1. j - 1 \in Depths /\ j - 1 # 1 /\ j = (j - 1) + 1
      BY <1>5, <2>1 DEF Depths
    <3> QED
      BY <3>1
  <2> QED
    BY <1>5, <2>1 DEF Depths
<1> HIDE DEF e, a
<1>7. Shape'
  <2>1. \A i \in Depths : /\ stack[i].op \in Based => i = Len(stack)
                          /\ kind = "http" /\ stack[i].op \in Trying => i = Len(stack)
    BY DEF Inv, Shape
  <2>2. kind' = "http" => Len(stack') = 2
    BY <1>1, <1>2, <1>5, <2>1, Depth
  <2> SUFFICES ASSUME NEW j \in Depths'
               PROVE  /\ stack'[j].op \in Based => j = Len(stack')
                      /\ stack'[j].op # "attempt"
                      /\ stack'[j].op = "attempted" => j = 2
                      /\ stack'[j].op = "error" => j = 1
    BY <1>4, <1>5, <2>2 DEF Shape, Trying, e, a
  <2>3. CASE j \in {1, 2}
    BY <1>4, <1>5, <2>3 DEF Based, Leaving
  <2>4. ASSUME NEW i \in Depths, i # 1, j = i + 1
        PROVE  stack'[j].op \in Based /\ j = Len(stack')
    BY <1>3, <1>5, <2>1, <2>4
  <2> QED
    BY <1>6, <2>3, <2>4 DEF Based, Leaving
<1>8. Apart'
  <2>1. \A i \in Depths : stack[i].op \in Leaving => stack[i].at # c
    BY <1>2 DEF Inv, Frames, FrameOK
  <2>2. \A j \in Depths' : \/ j = 1 /\ stack'[j] = e
                           \/ j = 2 /\ stack'[j] = a
                           \/ /\ stack'[j].op \in Based \ {"refused"}
                              /\ stack'[j].op \in Leaving => stack'[j].at # c
    BY <1>3, <1>5, <1>6, <2>1
  <2> QED
    BY <1>4, <2>2 DEF Apart, Based, Leaving, OnError
<1>9. /\ \E i \in Depths' : stack'[i] = a
      /\ \A i \in Depths : i # 1 => \E j \in Depths' : stack'[j] = stack[i]
      /\ \A j \in Depths' : \/ stack'[j] = a
                            \/ stack'[j] = e /\ c \in closing'
                            \/ \E i \in Depths : i # 1 /\ stack'[j] = stack[i]
  BY <1>1, <1>5, <1>6
<1> QED
  <2>1. "resolving" \in Phases \ {"free"} /\ \A d \in closing : d \in closing'
    BY <1>1 DEF Phases
  <2> QED
    BY <1>1, <1>7, <1>8, <1>9, <2>1, Starting DEF e, a

\* Steps of the event loop that change neither _nc nor whose the connections are.
LEMMA Rested ==
    ASSUME TypeOK, Inv, stack = << >>, UNCHANGED <<kind, alive, nc, owned>>,
           \A d \in Conns : phase'[d] = "free" <=> phase[d] = "free",
           \A d \in closing : d \in closing'
    PROVE  Owns'
<1>1. owned \subseteq {nc} /\ (kind = "http" /\ alive => nc # None)
  BY AtRest
<1>2. \A d \in owned' : phase'[d] # "free" /\ d = nc'
  BY <1>1 DEF Inv, Owns, TypeOK, ConnsOK
<1>3. \A d \in Conns : phase'[d] # "free" => d \in owned' \/ d \in closing'
  BY DEF Inv, Owns
<1>4. /\ nc' # None => nc' \in owned'
      /\ kind' = "http" /\ alive' => nc' # None
  BY <1>1 DEF Inv, Owns
<1>5. ~alive' => owned' = {} /\ nc' = None
  BY Zenon DEF Inv, Owns
<1> QED
  BY <1>2, <1>3, <1>4, <1>5 DEF Owns

LEMMA InvVisit ==
    ASSUME TypeOK, Inv, NEW c \in Conns, Visit(c)
    PROVE  Inv'
<1>1. /\ stack = << >> /\ c \in live /\ input' = "socket"
      /\ broken' = (c \in owned /\ ~alive)
      /\ UNCHANGED <<kind, alive, nc, up, code, phase, owned, told, refused>>
      /\ \A d \in closing : d \in closing'
  BY DEF Visit, Idle, clientVars, history
<1>2. owned \subseteq {nc}
  BY <1>1, AtRest
<1>3. StackOK'
  <2>1. CASE timesOut(c)
    <3>1. /\ stack' = << At("error", c) >> /\ c \in closing'
          /\ c = nc' /\ phase'[c] # "free"
      BY <1>1, <1>2, <2>1 DEF Visit, timesOut, live
    <3> QED
      BY <3>1, Single DEF Handlers, OnError, Leaving
  <2>2. CASE ~timesOut(c)
    BY <2>2, Emptied DEF Visit
  <2> QED
    BY <2>1, <2>2
<1>4. ~broken'
  BY <1>1, Zenon DEF Inv, Owns
<1>5. Owns'
  BY <1>1, Rested
<1>6. Tells'
  BY <1>1 DEF Inv, Tells
<1> QED
  BY <1>3, <1>4, <1>5, <1>6 DEF Inv, StackOK

LEMMA InvMgError ==
    ASSUME TypeOK, Inv, NEW c \in Conns, Fails(c) \/ ResolveFails(c)
    PROVE  Inv'
<1>1. /\ stack = << >> /\ closing' = closing \union {c} /\ stack' = << At("error", c) >>
      /\ UNCHANGED <<kind, alive, nc, up, code, phase, owned, broken, told, refused>>
      /\ input' = "none" \/ UNCHANGED <<visiting, input>>
  BY DEF Fails, ResolveFails, Reads, Idle, MgError, clientVars, visitVars, history
<1>2. c \in owned
  <2>1. CASE Fails(c)
    BY <2>1 DEF Fails, Reads
  <2>2. CASE ResolveFails(c)
    BY <2>2 DEF ResolveFails, Inv, Owns
  <2> QED
    BY <2>1, <2>2
<1>3. c = nc' /\ phase'[c] # "free" /\ c \in closing'
  BY <1>1, <1>2, AtRest DEF Inv, Owns
<1>4. StackOK'
  BY <1>1, <1>3, Single DEF Handlers, OnError, Leaving
<1>5. Owns'
  BY <1>1, Rested
<1>6. Tells'
  BY <1>1 DEF Inv, Tells
<1> QED
  BY <1>1, <1>4, <1>5, <1>6 DEF Inv, StackOK

LEMMA InvAdvances ==
    ASSUME TypeOK, Inv, NEW c \in Conns, Connects(c) \/ \E ph \in Phases : Resolves(c, ph)
    PROVE  Inv'
<1>1. /\ stack = << >> /\ stack' = << >> /\ closing' = closing
      /\ UNCHANGED <<kind, alive, nc, up, code, owned, broken, told, refused>>
      /\ input' = "none" \/ UNCHANGED <<visiting, input>>
  BY DEF Connects, Resolves, Reads, Idle, clientVars, flagVars, visitVars, history
<1>2. /\ phase[c] # "free" /\ phase[c] # "ready" /\ phase'[c] # "free"
      /\ \A d \in Conns : d # c => phase'[d] = phase[d]
  BY DEF Connects, Resolves, TypeOK, ConnsOK
<1>3. StackOK'
  BY <1>1, Emptied
<1>4. Owns'
  BY <1>1, <1>2, Rested
<1>5. Tells'
  <2>1. \A d \in refused' : phase'[d] # "free"
    BY <1>1, <1>2 DEF Inv, Tells, TypeOK, HistoryOK
  <2>2. up' => kind' = "mqtt" /\ nc' # None /\ phase'[nc'] = "ready"
    BY <1>1, <1>2 DEF Inv, Tells, TypeOK, ClientOK
  <2> QED
    BY <1>1, <2>1, <2>2 DEF Inv, Tells
<1> QED
  BY <1>1, <1>3, <1>4, <1>5 DEF Inv, StackOK

\* Whoever is being read from, or whose buffer is being parsed, is _nc.
LEMMA Parsed ==
    ASSUME TypeOK, Inv, NEW c \in Conns, Parses(c) \/ Reads(c)
    PROVE  /\ stack = << >> /\ c = nc /\ c \in owned /\ phase[c] # "free" /\ visiting = c
           /\ visiting' = visiting
<1>1. stack = << >> /\ visiting = c /\ c \in owned /\ visiting' = visiting
  BY DEF Parses, Reads, Inv, Tells
<1> QED
  BY <1>1, AtRest DEF Inv, Owns

LEMMA InvHears ==
    ASSUME TypeOK, Inv, NEW c \in Conns,
           Accepts(c) \/ Refuses(c) \/ Message(c) \/ Answers(c)
    PROVE  Inv'
<1>1. Parses(c) \/ Reads(c)
  BY DEF Accepts, Refuses, Message, Answers
<1>2. /\ stack = << >> /\ c = nc /\ c \in owned /\ phase[c] # "free"
      /\ visiting' \in owned
  BY <1>1, Parsed
<1>3. UNCHANGED <<kind, alive, nc, owned, closing, broken>>
  BY DEF Accepts, Refuses, Message, Answers, clientVars, connVars, flagVars
<1>4. /\ \A d \in Conns : d # c => phase'[d] = phase[d]
      /\ phase'[c] \in {"open", "ready"} /\ (phase[c] = "ready" => phase'[c] = "ready")
  BY DEF Accepts, Refuses, Message, Answers, Asked, TypeOK, ConnsOK, connVars
<1>5. Owns'
  BY <1>2, <1>3, <1>4, Rested
<1>6. ~up \/ phase[c] = "ready"
  BY <1>2 DEF Inv, Tells
<1>7. StackOK'
  <2>1. CASE Refuses(c)
    <3>1. /\ stack' = << At("refused", c) >> /\ up' = up /\ phase[c] = "open"
          /\ c = nc' /\ c \in owned'
      BY <1>2, <1>3, <2>1 DEF Refuses, Asked
    <3>2. ~up'
      BY <1>6, <3>1, Zenon
    <3> QED
      BY <3>1, <3>2, Single DEF Handlers, OnError, Leaving
  <2>2. CASE Accepts(c) \/ Message(c) \/ Answers(c)
    <3>1. stack' = << At("event", c) >>
      BY <2>2 DEF Accepts, Message, Answers
    <3> QED
      BY <3>1, Single DEF Handlers, OnError, Leaving
  <2> QED
    BY <2>1, <2>2
<1>8. Tells'
  <2>1. input' = "buffer" => visiting' \in owned'
    BY <1>2, <1>3
  <2>2. \A d \in refused' : phase'[d] # "free"
    <3>1. refused' \subseteq refused \union {c}
      BY DEF Accepts, Refuses, Message, Answers, history
    <3> QED
      BY <1>4, <3>1 DEF Inv, Tells, TypeOK, HistoryOK
  <2>3. CASE Accepts(c)
    <3>1. ~up /\ up' = TRUE /\ told' = told + 1 /\ code' = code /\ refused' = refused
          /\ phase'[c] = "ready" /\ kind = "mqtt"
      BY <1>6, <2>3 DEF Accepts, Asked, TypeOK, ConnsOK
    <3>2. told' = 1
      BY <3>1 DEF Inv, Tells
    <3> QED
      BY <1>2, <1>3, <2>1, <2>2, <3>1, <3>2, ConnsAssumption DEF Inv, Tells
  <2>4. CASE Refuses(c)
    <3>1. /\ code' = TRUE /\ refused' = refused \union {c} /\ up' = up /\ told' = told
          /\ phase[c] = "open"
      BY <2>4 DEF Refuses, Asked
    <3>2. ~up
      BY <1>6, <3>1
    <3>3. ~up' /\ told' = 0
      BY <3>1, <3>2, Zenon DEF Inv, Tells
    <3> QED
      BY <1>2, <1>3, <2>1, <2>2, <3>1, <3>3 DEF Tells
  <2>5. CASE Message(c) \/ Answers(c)
    <3>1. UNCHANGED <<up, code, told, refused>>
      BY <2>5 DEF Message, Answers, clientVars, history
    <3>2. up' => kind' = "mqtt" /\ nc' # None /\ phase'[nc'] = "ready"
      BY <1>2, <1>3, <1>4, <3>1 DEF Inv, Tells
    <3> QED
      BY <1>3, <2>1, <2>2, <3>1, <3>2 DEF Inv, Tells
  <2> QED
    BY <2>3, <2>4, <2>5
<1> QED
  BY <1>3, <1>5, <1>7, <1>8 DEF Inv, StackOK

LEMMA InvCloses ==
    ASSUME TypeOK, Inv, NEW c \in Conns, CloseConn(c)
    PROVE  Inv'
<1>1. /\ stack = << >> /\ c \in owned /\ visiting' = None /\ input' = "none"
      /\ nc' = (IF nc = c THEN None ELSE nc) /\ up' = FALSE
      /\ told' = IF up THEN told - 1 ELSE told
      /\ UNCHANGED <<kind, alive, code, phase, owned, closing, broken, refused>>
  BY DEF CloseConn, EndsVisit, connVars
<1>2. owned = {c} /\ nc' = None /\ c # None /\ alive
  BY <1>1, AtRest, ConnsAssumption DEF Inv, Owns
<1>3. StackOK' /\ InHand(c)' /\ Busy'
  <2>1. \/ stack' = << At("lost", c) >>
        \/ stack' = << At("close", c) >>
    BY DEF CloseConn
  <2>2. c \in owned' /\ c # nc' /\ visiting' = None
    BY <1>1, <1>2
  <2>3. CASE stack' = << At("lost", c) >>
    BY <2>2, <2>3, Single DEF Handlers, OnError, Leaving
  <2>4. CASE stack' = << At("close", c) >>
    BY <2>2, <2>4, Single DEF Handlers, OnError, Leaving
  <2> QED
    BY <2>1, <2>3, <2>4
<1>4. Owns'
  <2>1. \A d \in owned' : phase'[d] # "free" /\ InHand(d)'
    BY <1>1, <1>2, <1>3 DEF Inv, Owns
  <2>2. \A d \in Conns : phase'[d] # "free" => d \in owned' \/ d \in closing'
    BY <1>1 DEF Inv, Owns
  <2>3. alive'
    BY <1>1, <1>2, Zenon
  <2> QED
    BY <1>2, <1>3, <2>1, <2>2, <2>3 DEF Owns
<1>5. Tells'
  <2>1. told' = 0
    BY <1>1 DEF Inv, Tells
  <2> QED
    BY <1>1, <1>2, <2>1 DEF Inv, Tells
<1> QED
  BY <1>1, <1>3, <1>4, <1>5 DEF Inv, StackOK

LEMMA InvCloseUnheard ==
    ASSUME TypeOK, Inv, NEW c \in Conns, CloseUnheard(c)
    PROVE  Inv'
<1>1. /\ stack = << >> /\ stack' = << >> /\ c \notin owned /\ input' = "none"
      /\ phase' = [phase EXCEPT ![c] = "free"]
      /\ closing' = closing \ {c} /\ refused' = refused \ {c}
      /\ UNCHANGED <<kind, alive, nc, up, code, owned, broken, told>>
  BY DEF CloseUnheard, EndsVisit, Forget, clientVars
<1>2. \A d \in Conns : phase'[d] = IF d = c THEN "free" ELSE phase[d]
  BY <1>1 DEF TypeOK, ConnsOK
<1>3. StackOK'
  BY <1>1, Emptied
<1>4. Owns'
  <2>1. owned' \subseteq {nc'} /\ (nc' # None => nc' \in owned')
    BY <1>1, AtRest DEF Inv, Owns
  <2>2. \A d \in owned' : phase'[d] # "free"
    BY <1>1, <1>2 DEF Inv, Owns, TypeOK, ConnsOK
  <2>3. \A d \in Conns : phase'[d] # "free" => d \in owned' \/ d \in closing'
    BY <1>1, <1>2 DEF Inv, Owns
  <2>4. ~alive' => owned' = {} /\ nc' = None
    BY <1>1, Zenon DEF Inv, Owns
  <2>5. kind' = "http" /\ alive' => nc' # None
    BY <1>1, AtRest
  <2> QED
    BY <2>1, <2>2, <2>3, <2>4, <2>5 DEF Owns
<1>5. Tells'
  <2>1. nc # c
    BY <1>1, ConnsAssumption DEF Inv, Owns
  <2>2. up' => kind' = "mqtt" /\ nc' # None /\ phase'[nc'] = "ready"
    BY <1>1, <1>2, <2>1 DEF Inv, Tells, TypeOK, ClientOK
  <2>3. \A d \in refused' : phase'[d] # "free"
    BY <1>1, <1>2 DEF Inv, Tells, TypeOK, HistoryOK
  <2>4. kind' = "mqtt" /\ nc' # None => (code' <=> nc' \in refused')
    <3>1. nc' \in refused' <=> nc \in refused
      BY <1>1, <2>1
    <3> QED
      BY <1>1, <3>1, Zenon DEF Inv, Tells
  <2>5. told' = IF up' THEN 1 ELSE 0
    BY <1>1 DEF Inv, Tells
  <2> QED
    BY <1>1, <2>2, <2>3, <2>4, <2>5 DEF Tells
<1> QED
  BY <1>1, <1>3, <1>4, <1>5 DEF Inv, StackOK

LEMMA InvErrorReturns ==
    ASSUME TypeOK, Inv, ErrorReturns
    PROVE  Inv'
<1>1. /\ stack # << >> /\ Top.op = "error" /\ stack' = Tail(stack)
      /\ UNCHANGED <<kind, alive, nc, up, code, phase, owned, closing, visiting, input,
                     broken, told, refused>>
  BY DEF ErrorReturns, TopIs, clientVars, connVars, visitVars, history
<1>2. /\ Len(stack) \in Nat /\ Len(stack') = Len(stack) - 1
      /\ Top = stack[1] /\ 1 \in Depths
      /\ \A i \in Depths' : i + 1 \in Depths /\ stack'[i] = stack[i + 1]
      /\ \A i \in Depths : i = 1 \/ \E j \in Depths' : i = j + 1
  BY <1>1, Popped
<1>3. Shape'
  <2> SUFFICES ASSUME NEW i \in Depths'
               PROVE  /\ stack'[i].op \in Based => i = Len(stack')
                      /\ stack'[i].op # "attempt"
                      /\ stack'[i].op = "attempted" => i = 1
                      /\ kind = "http" /\ stack'[i].op \in Trying => i = Len(stack')
                      /\ stack'[i].op = "error" =>
                             \/ stack'[i].at = nc
                             \/ /\ i < Len(stack')
                                /\ stack'[i + 1] = At("attempted", stack'[i].at)
    BY <1>1 DEF Shape
  <2>1. i \in Nat /\ i >= 1 /\ i + 1 \in Depths /\ stack'[i] = stack[i + 1]
    BY <1>2 DEF Depths
  <2>2. /\ stack[i + 1].op \in Based => i + 1 = Len(stack)
        /\ stack[i + 1].op = "attempt" => i + 1 = 1
        /\ stack[i + 1].op = "attempted" => i + 1 = 1 \/ i + 1 = 2
        /\ kind = "http" /\ stack[i + 1].op \in Trying => i + 1 = Len(stack)
        /\ stack[i + 1].op = "error" =>
               \/ stack[i + 1].at = nc
               \/ /\ i + 1 < Len(stack)
                  /\ stack[i + 2] = At("attempted", stack[i + 1].at)
    <3>1. (i + 1) + 1 = i + 2
      BY <2>1
    <3> QED
      BY <2>1, <3>1 DEF Inv, Shape
  <2>3. i + 1 < Len(stack) => i < Len(stack') /\ stack'[i + 1] = stack[i + 2]
    <3>1. i + 1 < Len(stack) => i + 1 \in Depths' /\ (i + 1) + 1 = i + 2
      BY <1>2, <2>1 DEF Depths
    <3> QED
      BY <1>2, <2>1, <3>1
  <2> QED
    BY <1>2, <2>1, <2>2, <2>3
<1>4. Frames'
  BY <1>1, <1>2, Zenon DEF Inv, Frames, FrameOK
<1>5. Apart'
  <2> SUFFICES ASSUME NEW i \in Depths', NEW j \in Depths'
               PROVE  /\ i # j /\ stack'[i].op \in OnError /\ stack'[j].op \in OnError =>
                             stack'[i].at # stack'[j].at
                      /\ stack'[i].op = "attempted" /\ stack'[j].op \in Leaving =>
                             stack'[i].at # stack'[j].at
    BY DEF Apart
  <2>1. i # j => i + 1 # j + 1
    BY DEF Depths
  <2> QED
    BY <1>2, <2>1 DEF Inv, Apart
<1>6. (Busy => Busy') /\ \A c \in Conns : InHand(c) => InHand(c)'
  BY <1>1, <1>2 DEF Busy, InHand, Trying, Leaving
<1>7. Owns'
  BY <1>1, <1>6 DEF Inv, Owns, TypeOK, ConnsOK
<1>8. Tells'
  BY <1>1 DEF Inv, Tells
<1> QED
  BY <1>1, <1>3, <1>4, <1>5, <1>7, <1>8 DEF Inv

LEMMA InvReturns ==
    ASSUME TypeOK, Inv, RefusedReturns \/ EventReturns
    PROVE  Inv'
<1>1. /\ stack # << >> /\ Top.op \in {"refused", "event"} /\ stack' = Tail(stack)
      /\ UNCHANGED <<kind, alive, nc, up, code, phase, owned, visiting, input,
                     broken, told, refused>>
      /\ \A c \in closing : c \in closing'
  BY DEF RefusedReturns, EventReturns, TopIs, clientVars, visitVars, history
<1>2. stack' = << >> /\ \A i \in Depths : stack[i] = Top
  <2>1. Top.op \in Based
    BY <1>1 DEF Based
  <2> QED
    BY <1>1, <2>1, BaseAlone DEF Inv
<1>3. owned \subseteq {nc} /\ ~Busy
  BY <1>1, <1>2 DEF Inv, Owns, InHand, Busy, Trying, Leaving
<1>4. StackOK'
  BY <1>2, Emptied
<1>5. Owns'
  <2>1. \A d \in owned' : phase'[d] # "free" /\ d = nc'
    BY <1>1, <1>3 DEF Inv, Owns
  <2>2. \A d \in Conns : phase'[d] # "free" => d \in owned' \/ d \in closing'
    BY <1>1 DEF Inv, Owns
  <2>3. /\ nc' # None => nc' \in owned'
        /\ ~(kind' = "http" /\ alive' /\ nc' = None)
    BY <1>1, <1>3 DEF Inv, Owns
  <2>4. ~alive' => owned' = {} /\ nc' = None
    BY <1>1, Zenon DEF Inv, Owns
  <2> QED
    BY <2>1, <2>2, <2>3, <2>4 DEF Owns
<1>6. Tells'
  BY <1>1 DEF Inv, Tells
<1> QED
  BY <1>1, <1>4, <1>5, <1>6 DEF Inv, StackOK

LEMMA InvLostReturns ==
    ASSUME TypeOK, Inv, LostReturns
    PROVE  Inv'
<1>0. stack # << >> /\ Top.op = "lost"
  BY DEF LostReturns, TopIs
<1>c. Top.at \in Conns
  BY <1>0, TopType DEF TypeOK
<1> SUFFICES ASSUME NEW c \in Conns, c = Top.at PROVE Inv'
  BY <1>c
<1>1. /\ stack # << >> /\ Top.op = "lost" /\ stack' = Push(At("close", c), Tail(stack))
      /\ UNCHANGED <<kind, alive, nc, up, code, phase, owned, closing, visiting, input,
                     broken, told, refused>>
  BY DEF LostReturns, TopIs, clientVars, connVars, visitVars, history
<1>2. /\ Tail(stack) = << >> /\ \A i \in Depths : stack[i] = Top
      /\ 1 \in Depths /\ Top = stack[1] /\ c \in Conns
  <2>1. Top.op \in Based
    BY <1>1 DEF Based, Leaving
  <2>2. Tail(stack) = << >> /\ \A i \in Depths : stack[i] = Top
    BY <1>1, <2>1, BaseAlone DEF Inv
  <2> QED
    BY <1>1, <2>2, Depth, TopType DEF TypeOK
<1>3. stack' = << At("close", c) >>
  <2>1. \A f : Push(f, << >>) = << f >>
    BY DEF Push
  <2> QED
    BY <1>1, <1>2, <2>1
<1>4. c \in owned /\ c # nc /\ visiting = None
  BY <1>1, <1>2 DEF Inv, Frames, FrameOK, Leaving
<1>5. StackOK' /\ InHand(c)' /\ Busy'
  <2>1. c \in owned' /\ c # nc' /\ visiting' = None
    BY <1>1, <1>4
  <2> QED
    BY <1>2, <1>3, <2>1, Single DEF Handlers, OnError, Leaving
<1>6. owned \subseteq {nc, c}
  BY <1>2 DEF Inv, Owns, InHand
<1>7. Owns'
  <2>1. \A d \in owned' : phase'[d] # "free" /\ (d = nc' \/ InHand(d)')
    BY <1>1, <1>5, <1>6 DEF Inv, Owns
  <2>2. \A d \in Conns : phase'[d] # "free" => d \in owned' \/ d \in closing'
    BY <1>1 DEF Inv, Owns
  <2>3. nc' # None => nc' \in owned'
    BY <1>1 DEF Inv, Owns
  <2>4. ~alive' => owned' = {} /\ nc' = None
    BY <1>1, Zenon DEF Inv, Owns
  <2> QED
    BY <1>5, <2>1, <2>2, <2>3, <2>4 DEF Owns
<1>8. Tells'
  BY <1>1 DEF Inv, Tells
<1> QED
  BY <1>1, <1>5, <1>7, <1>8 DEF Inv, StackOK

LEMMA InvCloseReturns ==
    ASSUME TypeOK, Inv, CloseReturns
    PROVE  Inv'
<1> DEFINE c == Top.at
<1>1. /\ stack # << >> /\ Top.op = "close" /\ stack' = Tail(stack)
      /\ phase' = [phase EXCEPT ![c] = "free"] /\ refused' = refused \ {c}
      /\ UNCHANGED <<kind, up, code, visiting, input, told>>
  BY DEF CloseReturns, TopIs, Forget, visitVars
<1>2. /\ stack' = << >> /\ \A i \in Depths : stack[i] = Top
      /\ 1 \in Depths /\ Top = stack[1] /\ c \in Conns
  <2>1. Top.op \in Based
    BY <1>1 DEF Based, Leaving
  <2>2. stack' = << >> /\ \A i \in Depths : stack[i] = Top
    BY <1>1, <2>1, BaseAlone DEF Inv
  <2> QED
    BY <1>1, <2>2, Depth, TopType DEF TypeOK
<1>3. c \in owned /\ c # nc /\ visiting = None
  BY <1>1, <1>2 DEF Inv, Frames, FrameOK, Leaving
<1>4. owned \subseteq {nc, c} /\ alive
  BY <1>2, <1>3 DEF Inv, Owns, InHand
<1>5. /\ \A d \in Conns : phase'[d] = IF d = c THEN "free" ELSE phase[d]
      /\ input # "buffer"
  BY <1>1, <1>3, ConnsAssumption DEF TypeOK, ConnsOK, Inv, Tells
<1>6. StackOK'
  BY <1>2, Emptied
<1>7. CASE kind = "http"
  <2>1. /\ broken' = ~alive /\ alive' = FALSE /\ nc' = None
        /\ owned' = owned \ {c, nc}
        /\ closing' = (closing \union (owned \intersect {nc})) \ {c}
    BY <1>7 DEF CloseReturns
  <2>2. ~broken'
    BY <2>1, <1>4, Zenon
  <2>3. Owns'
    BY <1>3, <1>4, <1>5, <2>1 DEF Inv, Owns
  <2>4. ~up
    BY <1>7 DEF Inv, Tells
  <2>5. ~up' /\ told' = 0
    BY <1>1, <2>4, Zenon DEF Inv, Tells
  <2>6. \A d \in refused' : phase'[d] # "free"
    BY <1>1, <1>5 DEF Inv, Tells, TypeOK, HistoryOK
  <2>7. Tells'
    BY <1>1, <1>5, <2>1, <2>5, <2>6 DEF Tells
  <2> QED
    BY <1>6, <2>2, <2>3, <2>7 DEF Inv, StackOK
<1>8. CASE kind # "http"
  <2>1. /\ owned' = owned \ {c} /\ closing' = closing \ {c}
        /\ UNCHANGED <<alive, nc, broken>>
    BY <1>8 DEF CloseReturns
  <2>2. Owns'
    <3>1. \A d \in owned' : phase'[d] # "free" /\ d = nc'
      BY <1>4, <1>5, <2>1 DEF Inv, Owns, TypeOK, ConnsOK
    <3>2. \A d \in Conns : phase'[d] # "free" => d \in owned' \/ d \in closing'
      BY <1>5, <2>1 DEF Inv, Owns
    <3>3. nc' # None => nc' \in owned'
      BY <1>3, <2>1 DEF Inv, Owns
    <3>4. alive'
      BY <1>4, <2>1, Zenon
    <3> QED
      BY <1>1, <1>8, <3>1, <3>2, <3>3, <3>4 DEF Owns
  <2>3. Tells'
    <3>1. up' => kind' = "mqtt" /\ nc' # None /\ phase'[nc'] = "ready"
      BY <1>1, <1>3, <1>5, <2>1 DEF Inv, Tells, TypeOK, ClientOK
    <3>2. \A d \in refused' : phase'[d] # "free"
      BY <1>1, <1>5 DEF Inv, Tells, TypeOK, HistoryOK
    <3>3. kind' = "mqtt" /\ nc' # None => (code' <=> nc' \in refused')
      <4>1. nc' \in refused' <=> nc \in refused
        BY <1>1, <1>3, <2>1
      <4> QED
        BY <1>1, <2>1, <4>1, Zenon DEF Inv, Tells
    <3>4. told' = IF up' THEN 1 ELSE 0
      BY <1>1 DEF Inv, Tells
    <3> QED
      BY <1>1, <1>5, <3>1, <3>2, <3>3, <3>4 DEF Tells
  <2> QED
    BY <1>6, <2>1, <2>2, <2>3 DEF Inv, StackOK
<1> QED
  BY <1>7, <1>8

LEMMA InvStep ==
    ASSUME OneAttempt, ~Nested, TypeOK, Inv, [Next]_vars
    PROVE  Inv'
<1>1. CASE Application
  BY <1>1, InvAttempting, InvKept, InvPublishFails, InvDelete DEF Application
<1>2. CASE Attempts
  <2>1. ASSUME NEW c \in Conns, NEW ph \in Phases \ {"free", "ready"}, AttemptStarts(c, ph)
        PROVE  Inv'
    BY <2>1, InvAttemptStarts
  <2> QED
    BY <1>2, <2>1, InvAttemptEnds, InvAttemptFails DEF Attempts
<1>3. CASE Returns
  BY <1>3, InvErrorReturns, InvReturns, InvLostReturns, InvCloseReturns DEF Returns
<1>4. CASE Tick
  BY <1>4, InvKept
<1>5. ASSUME NEW c \in Conns, Visit(c) PROVE Inv'
  BY <1>5, InvVisit
<1>6. ASSUME NEW c \in Conns, Network(c) PROVE Inv'
  BY <1>6, InvMgError, InvAdvances, InvHears, InvKept DEF Network
<1>7. ASSUME NEW c \in Conns, Ends(c) PROVE Inv'
  BY <1>7, InvKept, InvCloses, InvCloseUnheard DEF Ends
<1>8. CASE UNCHANGED vars
  BY <1>8, InvKept
<1> QED
  BY <1>1, <1>2, <1>3, <1>4, <1>5, <1>6, <1>7, <1>8 DEF Next

-----------------------------------------------------------------------------
(* getTime() inside getTime() *)

\* Attempts lie on top of each other; the close of a connection is innermost.
NestedShape ==
    \A i \in Depths :
        /\ stack[i].op \in Trying \union {"error", "event", "close"}
        /\ stack[i].op = "attempt" => i = 1
        /\ stack[i].op = "close" => i = Len(stack)

\* Only the innermost attempt may come to something, and only while _nc is
\* empty: the others have failed.
NestedFrame(i) ==
    /\ stack[i].op # "attempt" => phase[stack[i].at] # "free"
    /\ stack[i].op = "attempt" => nc = None
    /\ stack[i].op = "attempted" =>
           /\ stack[i].at \in owned
           /\ (i = 1 /\ nc = None) \/ stack[i].at \in closing
    /\ stack[i].op = "close" => stack[i].at \in owned /\ stack[i].at # nc

NestedFrames == \A i \in Depths : NestedFrame(i)

NestedApart ==
    \A i, j \in Depths :
        /\ i # j /\ stack[i].op = "error" /\ stack[j].op = "error" =>
               stack[i].at # stack[j].at
        /\ stack[i].op = "attempted" /\ stack[j].op = "close" =>
               stack[i].at # stack[j].at

InnermostIs(f) == 1 \in Depths /\ stack[1] = f

NestedOwns ==
    /\ alive /\ ~up /\ told = 0 /\ ~broken /\ draining = {}
    /\ \A c \in owned : phase[c] # "free"
    /\ nc # None => nc \in owned
    /\ \A c \in owned : c \in closing \/ c = nc \/ InnermostIs(At("attempted", c))

NestedInv == NestedShape /\ NestedFrames /\ NestedApart /\ NestedOwns

LEMMA NestedInit == Nested /\ Init => NestedInv
<1> SUFFICES ASSUME Nested, Init PROVE NestedInv
  OBVIOUS
<1>1. Len(stack) = 0 /\ Depths = {}
  BY DEF Init, Depths
<1>2. NestedOwns
  BY DEF Init, Nested, NestedOwns
<1> QED
  BY <1>1, <1>2 DEF NestedInv, NestedShape, NestedFrames, NestedApart

\* Steps that leave the stack alone.
LEMMA NestedKept ==
    ASSUME TypeOK, NestedInv,
           UNCHANGED <<alive, nc, up, told, broken, draining, owned, stack>>,
           \A c \in closing : c \in closing',
           \A c \in Conns : phase[c] # "free" => phase'[c] # "free"
    PROVE  NestedInv'
<1>1. NestedShape' /\ NestedApart'
  BY DEF NestedInv, NestedShape, NestedApart, Depths
<1>2. NestedFrames'
  <2> SUFFICES ASSUME NEW i \in Depths' PROVE NestedFrame(i)'
    BY DEF NestedFrames
  <2>1. i \in Depths /\ NestedFrame(i) /\ stack' = stack
    BY DEF NestedInv, NestedFrames, Depths
  <2>2. stack[i].op # "attempt" => stack[i].at \in Conns
    <3>1. \A j \in Depths : stack[j].op # "attempt" => stack[j].at \in Conns
      BY PopType DEF TypeOK, Depths, Frame
    <3> QED
      BY <2>1, <3>1
  <2> QED
    BY <2>1, <2>2 DEF NestedFrame
<1>3. NestedOwns'
  BY DEF NestedInv, NestedOwns, InnermostIs, Depths, TypeOK, ConnsOK
<1> QED
  BY <1>1, <1>2, <1>3 DEF NestedInv

\* Steps that call a handler when nothing is interrupted.
LEMMA NestedHears ==
    ASSUME TypeOK, NestedInv, NEW op \in {"error", "event", "close"}, NEW c \in Conns,
           stack = << >>, stack' = << At(op, c) >>,
           UNCHANGED <<alive, owned, draining>>, ~up', told' = 0, ~broken',
           \A d \in closing : d \in closing',
           \A d \in Conns : phase[d] # "free" => phase'[d] # "free",
           phase'[c] # "free",
           nc' = nc \/ (nc' = None /\ nc \in closing'),
           op = "close" => c \in owned /\ c # nc'
    PROVE  NestedInv'
<1>1. At(op, c).op = op /\ At(op, c).at = c /\ At(op, c) \in Frame
  BY AtType DEF Handlers, OnError
<1>2. Len(stack') = 1 /\ stack'[1] = At(op, c) /\ Depths = {} /\ Depths' = {1}
  BY <1>1, OneType, Depth DEF Depths
<1>3. NestedShape' /\ NestedFrames' /\ NestedApart'
  <2>1. NestedShape'
    BY <1>1, <1>2 DEF NestedShape
  <2>2. NestedFrame(1)'
    BY <1>1, <1>2 DEF NestedFrame
  <2>3. NestedFrames'
    BY <1>2, <2>2 DEF NestedFrames
  <2>4. NestedApart'
    BY <1>1, <1>2 DEF NestedApart
  <2> QED
    BY <2>1, <2>3, <2>4
<1>4. NestedOwns'
  BY <1>2 DEF NestedInv, NestedOwns, InnermostIs, TypeOK, ConnsOK
<1> QED
  BY <1>3, <1>4 DEF NestedInv

\* Steps that go back to what was interrupted.
LEMMA NestedPops ==
    ASSUME TypeOK, NestedInv, stack # << >>, stack' = Tail(stack),
           UNCHANGED <<alive, up, told, broken, draining, owned, phase>>,
           \A c \in closing : c \in closing',
           \/ nc' = nc /\ (Top.op = "attempted" => Top.at \in closing)
           \/ nc = None /\ Top.op = "attempted" /\ nc' = Top.at
    PROVE  NestedInv'
<1>1. /\ Len(stack) \in Nat /\ Len(stack') = Len(stack) - 1
      /\ Top = stack[1] /\ 1 \in Depths
      /\ \A i \in Depths' : i + 1 \in Depths /\ stack'[i] = stack[i + 1]
  BY Popped
<1>2. ASSUME NEW i \in Depths'
      PROVE  i + 1 # 1 /\ (i + 1 = Len(stack) => i = Len(stack'))
  <2>1. i \in Nat /\ i >= 1
    BY <1>1 DEF Depths
  <2>2. \A k, n \in Nat : k >= 1 => k + 1 # 1 /\ (k + 1 = n => k = n - 1)
    OBVIOUS
  <2> QED
    BY <1>1, <2>1, <2>2, Zenon
<1>3. NestedShape'
  BY <1>1, <1>2 DEF NestedInv, NestedShape
<1>4. NestedFrames'
  <2> SUFFICES ASSUME NEW i \in Depths' PROVE NestedFrame(i)'
    BY DEF NestedFrames
  <2>1. NestedFrame(i + 1) /\ stack'[i] = stack[i + 1] /\ stack[i + 1].op # "attempt"
    BY <1>1, <1>2 DEF NestedInv, NestedFrames, NestedShape
  <2>2. ASSUME stack[i + 1].op = "close" PROVE stack[i + 1].at # nc'
    <3>1. stack[i + 1].at # nc /\ (Top.op = "attempted" => Top.at # stack[i + 1].at)
      BY <1>1, <2>1, <2>2 DEF NestedFrame, NestedInv, NestedApart
    <3> QED
      BY <3>1
  <2> QED
    BY <1>2, <2>1, <2>2 DEF NestedFrame
<1>5. NestedApart'
  <2>1. \A i, j \in Depths' : i # j => i + 1 # j + 1
    <3>1. \A i \in Depths' : i \in Nat
      BY <1>1 DEF Depths
    <3> QED
      BY <3>1
  <2> SUFFICES ASSUME NEW i \in Depths', NEW j \in Depths'
               PROVE  /\ i # j /\ stack'[i].op = "error" /\ stack'[j].op = "error" =>
                             stack'[i].at # stack'[j].at
                      /\ stack'[i].op = "attempted" /\ stack'[j].op = "close" =>
                             stack'[i].at # stack'[j].at
    BY DEF NestedApart
  <2>2. /\ i + 1 \in Depths /\ stack'[i] = stack[i + 1]
        /\ j + 1 \in Depths /\ stack'[j] = stack[j + 1]
    BY <1>1
  <2> QED
    BY <2>1, <2>2 DEF NestedInv, NestedApart
<1>6. NestedOwns'
  <2>1. Top.op = "attempted" => Top.at \in owned
    BY <1>1 DEF NestedInv, NestedFrames, NestedFrame
  <2>2. ASSUME NEW c \in owned PROVE c \in closing' \/ c = nc'
    <3>1. c \in closing \/ c = nc \/ Top = At("attempted", c)
      BY <1>1 DEF NestedInv, NestedOwns, InnermostIs
    <3>2. CASE Top = At("attempted", c)
      BY <3>2 DEF At
    <3>3. CASE c = nc
      BY <3>3, ConnsAssumption DEF TypeOK, ConnsOK
    <3> QED
      BY <3>1, <3>2, <3>3
  <2> QED
    BY <2>1, <2>2 DEF NestedInv, NestedOwns
<1> QED
  BY <1>3, <1>4, <1>5, <1>6 DEF NestedInv

LEMMA NestedGetTime ==
    ASSUME Nested, TypeOK, NestedInv, GetTime
    PROVE  NestedInv'
<1>1. /\ nc = None /\ stack' = Push(At("attempt", None), stack)
      /\ UNCHANGED <<alive, nc, up, told, broken, draining, owned, phase, closing>>
  BY DEF Nested, GetTime, connected, Attempting, clientVars, connVars, history
<1>2. stack # << >> => Top.op \in Handlers
  BY DEF GetTime, Call, Idle, TopIs, Handlers, OnError
<1>3. /\ Len(stack) \in Nat /\ Len(stack') = Len(stack) + 1
      /\ 1 \in Depths' /\ stack'[1] = At("attempt", None)
      /\ \A i \in Depths : i + 1 \in Depths' /\ stack'[i + 1] = stack[i]
      /\ \A i \in Depths' : i = 1 \/ \E j \in Depths : i = j + 1
  BY <1>1, AttemptType, Pushed DEF TypeOK
<1>4. At("attempt", None).op = "attempt"
  BY DEF At
<1>5. stack # << >> /\ 1 \in Depths => stack[1].op \notin Trying
  BY <1>2, Depth DEF Handlers, OnError, Trying
<1>6. \A i \in Depths : stack # << >> /\ 1 \in Depths /\ i + 1 # 1
                        /\ (i = Len(stack) => i + 1 = Len(stack'))
  BY <1>3, Depth DEF Depths
<1>7. NestedShape'
  <2> SUFFICES ASSUME NEW i \in Depths'
               PROVE  /\ stack'[i].op \in Trying \union {"error", "event", "close"}
                      /\ stack'[i].op = "attempt" => i = 1
                      /\ stack'[i].op = "close" => i = Len(stack')
    BY DEF NestedShape
  <2>1. CASE i = 1
    BY <2>1, <1>3, <1>4 DEF Trying
  <2>2. ASSUME NEW j \in Depths, i = j + 1
        PROVE  /\ stack'[i].op \in Trying \union {"error", "event", "close"}
               /\ stack'[i].op # "attempt"
               /\ stack'[i].op = "close" => i = Len(stack')
    BY <1>3, <1>5, <1>6, <2>2 DEF NestedInv, NestedShape, Trying
  <2> QED
    BY <1>3, <2>1, <2>2
<1>8. NestedFrames'
  <2> SUFFICES ASSUME NEW i \in Depths' PROVE NestedFrame(i)'
    BY DEF NestedFrames
  <2>1. CASE i = 1
    BY <2>1, <1>1, <1>3, <1>4 DEF NestedFrame
  <2>2. ASSUME NEW j \in Depths, i = j + 1 PROVE NestedFrame(i)'
    <3>1. NestedFrame(j) /\ stack'[i] = stack[j]
      BY <1>3, <2>2 DEF NestedInv, NestedFrames
    <3>2. stack[j].op = "attempted" => stack[j].at \in closing
      <4>1. j = 1 => stack[j].op # "attempted"
        BY <1>5, <1>6 DEF Trying
      <4> QED
        BY <3>1, <4>1 DEF NestedFrame
    <3> QED
      BY <1>1, <3>1, <3>2 DEF NestedFrame
  <2> QED
    BY <1>3, <2>1, <2>2
<1>9. NestedApart'
  BY <1>3, <1>4 DEF NestedInv, NestedApart
<1>10. NestedOwns'
  <2>1. \A c \in owned : c \in closing \/ c = nc
    <3>1. \A c \in owned : At("attempted", c).op = "attempted"
      BY DEF At
    <3> QED
      BY <3>1, <1>5, <1>6 DEF NestedInv, NestedOwns, InnermostIs, Trying
  <2> QED
    BY <1>1, <2>1 DEF NestedInv, NestedOwns
<1> QED
  BY <1>7, <1>8, <1>9, <1>10 DEF NestedInv

\* How an activation that takes the place of the innermost one changes them.
LEMMA Replaced ==
    ASSUME TypeOK, NEW f \in Frame, stack # << >>, stack' = Push(f, Tail(stack))
    PROVE  /\ Len(stack') = Len(stack) /\ Depths' = Depths
           /\ 1 \in Depths /\ Top = stack[1] /\ stack'[1] = f
           /\ \A i \in Depths : i # 1 => stack'[i] = stack[i]
<1>1. /\ Len(stack) \in Nat /\ Len(stack) >= 1 /\ Tail(stack) \in Seq(Frame)
      /\ Len(Tail(stack)) = Len(stack) - 1
      /\ \A i \in 1 .. Len(Tail(stack)) : Tail(stack)[i] = stack[i + 1]
  BY PopType DEF TypeOK
<1>2. /\ Len(stack') = Len(Tail(stack)) + 1 /\ stack'[1] = f
      /\ \A i \in 1 .. Len(Tail(stack)) : stack'[i + 1] = Tail(stack)[i]
  <2>1. Tail(stack) \in Seq(Frame)
    BY <1>1
  <2> QED
    BY <2>1 DEF Push
<1>3. Len(stack') = Len(stack)
  BY <1>1, <1>2
<1>4. ASSUME NEW i \in 1 .. Len(stack), i # 1 PROVE stack'[i] = stack[i]
  <2>1. i - 1 \in 1 .. Len(Tail(stack)) /\ (i - 1) + 1 = i
    BY <1>1, <1>4
  <2>2. stack'[(i - 1) + 1] = Tail(stack)[i - 1] /\ Tail(stack)[i - 1] = stack[(i - 1) + 1]
    BY <1>1, <1>2, <2>1
  <2> QED
    BY <2>1, <2>2
<1>5. Top = stack[1] /\ 1 \in 1 .. Len(stack)
  BY <1>1, TopType DEF TypeOK
<1> QED
  BY <1>2, <1>3, <1>4, <1>5 DEF Depths

\* ... and how the two of a failed attempt do.
LEMMA ReplacedByTwo ==
    ASSUME TypeOK, NEW f \in Frame, NEW g \in Frame, stack # << >>,
           stack' = <<f, g>> \o Tail(stack)
    PROVE  /\ Len(stack) \in Nat /\ Len(stack') = Len(stack) + 1
           /\ 1 \in Depths /\ Top = stack[1]
           /\ 1 \in Depths' /\ stack'[1] = f /\ stack'[2] = g
           /\ \A i \in Depths : i # 1 => /\ stack'[i + 1] = stack[i]
                                          /\ i + 1 # 1 /\ i + 1 # 2
           /\ \A i \in Depths' : i = 1 \/ i = 2 \/ \E j \in Depths : j # 1 /\ i = j + 1
<1>1. /\ Len(stack) \in Nat /\ Len(stack) >= 1 /\ Tail(stack) \in Seq(Frame)
      /\ Len(Tail(stack)) = Len(stack) - 1
      /\ \A i \in 1 .. Len(Tail(stack)) : Tail(stack)[i] = stack[i + 1]
  BY PopType DEF TypeOK
<1>2. /\ Len(stack') = Len(Tail(stack)) + 2 /\ stack'[1] = f /\ stack'[2] = g
      /\ \A i \in 1 .. Len(Tail(stack)) : stack'[i + 2] = Tail(stack)[i]
  <2>1. Tail(stack) \in Seq(Frame)
    BY <1>1
  <2> QED
    BY <2>1
<1>3. Len(stack') = Len(stack) + 1
  BY <1>1, <1>2
<1>4. ASSUME NEW i \in 1 .. Len(stack), i # 1
      PROVE  stack'[i + 1] = stack[i] /\ i + 1 # 1 /\ i + 1 # 2
  <2>1. /\ i - 1 \in 1 .. Len(Tail(stack)) /\ (i - 1) + 1 = i /\ (i - 1) + 2 = i + 1
        /\ i + 1 # 1 /\ i + 1 # 2
    BY <1>1, <1>4
  <2>2. stack'[(i - 1) + 2] = Tail(stack)[i - 1] /\ Tail(stack)[i - 1] = stack[(i - 1) + 1]
    BY <1>1, <1>2, <2>1
  <2> QED
    BY <2>1, <2>2
<1>5. Top = stack[1] /\ 1 \in 1 .. Len(stack) /\ 1 \in 1 .. Len(stack')
  BY <1>1, <1>3, TopType DEF TypeOK
<1>6. ASSUME NEW i \in 1 .. Len(stack'), i # 1, i # 2
      PROVE  \E j \in 1 .. Len(stack) : j # 1 /\ i = j + 1
  <2>1. i - 1 \in 1 .. Len(stack) /\ i - 1 # 1 /\ i = (i - 1) + 1
    BY <1>1, <1>3, <1>6
  <2> QED
    BY <2>1
<1> QED
  BY <1>1, <1>2, <1>3, <1>4, <1>5, <1>6 DEF Depths

LEMMA NestedAttemptStarts ==
    ASSUME Nested, TypeOK, NestedInv, NEW c \in Conns,
           NEW ph \in Phases \ {"free", "ready"}, AttemptStarts(c, ph)
    PROVE  NestedInv'
<1>1. /\ phase[c] = "free" /\ phase' = [phase EXCEPT ![c] = ph]
      /\ owned' = owned \union {c}
      /\ stack # << >> /\ Top.op = "attempt"
      /\ stack' = Push(At("attempted", c), Tail(stack))
      /\ UNCHANGED <<alive, nc, up, told, broken, draining, closing>>
  BY DEF AttemptStarts, TopIs, NewConn, free, live, clientVars, history
<1>2. At("attempted", c).op = "attempted" /\ At("attempted", c).at = c
  BY DEF At
<1>3. /\ Len(stack') = Len(stack) /\ stack'[1] = At("attempted", c)
      /\ 1 \in Depths /\ stack[1].op = "attempt" /\ Depths' = Depths
      /\ \A i \in Depths : i # 1 => stack'[i] = stack[i]
  <2>1. At("attempted", c) \in Frame
    BY AtType
  <2>2. /\ Len(stack') = Len(stack) /\ Depths' = Depths
        /\ 1 \in Depths /\ Top = stack[1] /\ stack'[1] = At("attempted", c)
        /\ \A i \in Depths : i # 1 => stack'[i] = stack[i]
    BY <1>1, <2>1, Replaced
  <2> QED
    BY <1>1, <2>2
<1>4. /\ nc = None /\ \A d \in Conns : phase[d] # "free" => phase'[d] # "free" /\ d # c
      /\ phase'[c] # "free"
  BY <1>1, <1>3 DEF NestedInv, NestedFrames, NestedFrame, TypeOK, ConnsOK
<1>5. \A i \in Depths : i # 1 => /\ NestedFrame(i) /\ stack[i].op # "attempt"
                                 /\ stack[i].at \in Conns /\ stack[i].at # c
  <2>1. \A i \in Depths : stack[i].op # "attempt" => stack[i].at \in Conns
    BY PopType DEF TypeOK, Depths, Frame
  <2> QED
    BY <2>1, <1>4 DEF NestedInv, NestedShape, NestedFrames, NestedFrame
<1>6. NestedShape'
  BY <1>2, <1>3 DEF NestedInv, NestedShape, Trying
<1>7. NestedFrames'
  <2> SUFFICES ASSUME NEW i \in Depths PROVE NestedFrame(i)'
    BY <1>3 DEF NestedFrames
  <2>1. CASE i = 1
    BY <2>1, <1>1, <1>2, <1>3, <1>4 DEF NestedFrame
  <2>2. CASE i # 1
    BY <2>2, <1>1, <1>3, <1>4, <1>5 DEF NestedFrame
  <2> QED
    BY <2>1, <2>2
<1>8. NestedApart'
  BY <1>2, <1>3, <1>5 DEF NestedInv, NestedApart
<1>9. NestedOwns'
  <2>1. \A d \in owned' : phase'[d] # "free"
    BY <1>1, <1>4 DEF NestedInv, NestedOwns, TypeOK, ConnsOK
  <2>2. ASSUME NEW d \in owned', d # c PROVE d \in closing
    <3>1. ~InnermostIs(At("attempted", d))
      BY <1>3 DEF InnermostIs, At
    <3> QED
      BY <1>1, <1>4, <2>2, <3>1, ConnsAssumption DEF NestedInv, NestedOwns, TypeOK, ConnsOK
  <2>3. InnermostIs(At("attempted", c))'
    BY <1>3 DEF InnermostIs
  <2> QED
    BY <1>1, <1>4, <2>1, <2>2, <2>3 DEF NestedInv, NestedOwns
<1> QED
  BY <1>6, <1>7, <1>8, <1>9 DEF NestedInv

LEMMA NestedAttemptFails ==
    ASSUME Nested, TypeOK, NestedInv, NEW c \in Conns, AttemptFails(c)
    PROVE  NestedInv'
<1> DEFINE now == At("attempted", c)
<1>1. /\ phase[c] = "free" /\ phase' = [phase EXCEPT ![c] = "resolving"]
      /\ owned' = owned \union {c} /\ closing' = closing \union {c}
      /\ stack # << >> /\ Top.op = "attempt"
      /\ stack' = <<At("error", c), now>> \o Tail(stack)
      /\ UNCHANGED <<alive, nc, up, told, broken, draining>>
  BY DEF AttemptFails, TopIs, NewConn, free, live, clientVars, history
<1>2. /\ At("error", c).op = "error" /\ At("error", c).at = c
      /\ now.op = "attempted" /\ now.at = c
  BY DEF At
<1>3. /\ Len(stack) \in Nat /\ Len(stack') = Len(stack) + 1
      /\ 1 \in Depths /\ stack[1].op = "attempt"
      /\ 1 \in Depths' /\ stack'[1] = At("error", c) /\ stack'[2] = now
      /\ \A i \in Depths : i # 1 => stack'[i + 1] = stack[i] /\ i + 1 # 1 /\ i + 1 # 2
      /\ \A i \in Depths' : i = 1 \/ i = 2 \/ \E j \in Depths : j # 1 /\ i = j + 1
  <2>1. At("error", c) \in Frame /\ now \in Frame
    BY AtType DEF Handlers, OnError
  <2>2. /\ Len(stack) \in Nat /\ Len(stack') = Len(stack) + 1
        /\ 1 \in Depths /\ Top = stack[1]
        /\ 1 \in Depths' /\ stack'[1] = At("error", c) /\ stack'[2] = now
        /\ \A i \in Depths : i # 1 => stack'[i + 1] = stack[i] /\ i + 1 # 1 /\ i + 1 # 2
        /\ \A i \in Depths' : i = 1 \/ i = 2 \/ \E j \in Depths : j # 1 /\ i = j + 1
    BY <1>1, <2>1, ReplacedByTwo
  <2> QED
    BY <1>1, <2>2
<1>4. /\ nc = None /\ \A d \in Conns : phase[d] # "free" => phase'[d] # "free" /\ d # c
      /\ phase'[c] # "free"
  BY <1>1, <1>3 DEF NestedInv, NestedFrames, NestedFrame, TypeOK, ConnsOK
<1>5. \A i \in Depths : i # 1 => /\ NestedFrame(i) /\ stack[i].op # "attempt"
                                 /\ stack[i].at \in Conns /\ stack[i].at # c
  <2>1. \A i \in Depths : stack[i].op # "attempt" => stack[i].at \in Conns
    BY PopType DEF TypeOK, Depths, Frame
  <2> QED
    BY <2>1, <1>4 DEF NestedInv, NestedShape, NestedFrames, NestedFrame
<1>6. NestedShape'
  <2> SUFFICES ASSUME NEW i \in Depths'
               PROVE  /\ stack'[i].op \in Trying \union {"error", "event", "close"}
                      /\ stack'[i].op = "attempt" => i = 1
                      /\ stack'[i].op = "close" => i = Len(stack')
    BY DEF NestedShape
  <2>1. CASE i = 1 \/ i = 2
    BY <2>1, <1>2, <1>3 DEF Trying
  <2>2. ASSUME NEW j \in Depths, j # 1, i = j + 1
        PROVE  /\ stack'[i].op \in Trying \union {"error", "event", "close"}
               /\ stack'[i].op # "attempt"
               /\ stack'[i].op = "close" => i = Len(stack')
    BY <1>3, <2>2 DEF NestedInv, NestedShape
  <2> QED
    BY <1>3, <2>1, <2>2
<1>7. NestedFrames'
  <2> SUFFICES ASSUME NEW i \in Depths' PROVE NestedFrame(i)'
    BY DEF NestedFrames
  <2>1. CASE i = 1 \/ i = 2
    BY <2>1, <1>1, <1>2, <1>3, <1>4 DEF NestedFrame
  <2>2. ASSUME NEW j \in Depths, j # 1, i = j + 1 PROVE NestedFrame(i)'
    BY <2>2, <1>1, <1>3, <1>4, <1>5 DEF NestedFrame
  <2> QED
    BY <1>3, <2>1, <2>2
<1>8. NestedApart'
  <2>1. \A i \in Depths' :
            \/ i = 1 /\ stack'[i].op = "error" /\ stack'[i].at = c
            \/ i = 2 /\ stack'[i].op = "attempted" /\ stack'[i].at = c
            \/ \E j \in Depths : /\ i = j + 1 /\ stack'[i] = stack[j]
                                 /\ stack[j].at # c
    BY <1>2, <1>3, <1>5
  <2> QED
    BY <2>1 DEF NestedInv, NestedApart
<1>9. NestedOwns'
  <2>1. \A d \in owned' : phase'[d] # "free"
    BY <1>1, <1>4 DEF NestedInv, NestedOwns, TypeOK, ConnsOK
  <2>2. ASSUME NEW d \in owned' PROVE d \in closing'
    <3>1. ~InnermostIs(At("attempted", d))
      BY <1>3 DEF InnermostIs, At
    <3> QED
      BY <1>1, <1>4, <2>2, <3>1, ConnsAssumption DEF NestedInv, NestedOwns, TypeOK, ConnsOK
  <2> QED
    BY <1>1, <1>4, <2>1, <2>2 DEF NestedInv, NestedOwns
<1> QED
  BY <1>6, <1>7, <1>8, <1>9 DEF NestedInv

LEMMA NestedReturns ==
    ASSUME Nested, TypeOK, NestedInv, Returns
    PROVE  NestedInv'
<1>1. stack # << >> /\ Top = stack[1] /\ 1 \in Depths /\ Len(stack) \in Nat
  BY Depth DEF Returns, ErrorReturns, RefusedReturns, EventReturns, LostReturns,
     CloseReturns, TopIs
<1>2. ~RefusedReturns /\ ~LostReturns
  BY <1>1 DEF NestedInv, NestedShape, RefusedReturns, LostReturns, TopIs, Trying
<1>3. CASE ErrorReturns \/ EventReturns
  <2>1. /\ Top.op # "attempted" /\ stack' = Tail(stack) /\ nc' = nc
        /\ UNCHANGED <<alive, up, told, broken, draining, owned, phase>>
        /\ \A c \in closing : c \in closing'
    BY <1>3 DEF ErrorReturns, EventReturns, TopIs, clientVars, connVars, history
  <2> QED
    BY <1>1, <2>1, NestedPops
<1>4. CASE CloseReturns
  <2>1. /\ Top.op = "close" /\ stack' = Tail(stack) /\ Top.at \in Conns
        /\ phase' = [phase EXCEPT ![Top.at] = "free"]
        /\ draining' = draining \ {Top.at}
        /\ owned' = owned \ {Top.at} /\ closing' = closing \ {Top.at}
        /\ UNCHANGED <<alive, nc, up, told, broken>>
    BY <1>1, <1>4, TopType DEF CloseReturns, TopIs, Forget, Nested, TypeOK
  <2>2. Len(stack) = 1 /\ Top.at # nc
    BY <1>1, <2>1 DEF NestedInv, NestedShape, NestedFrames, NestedFrame
  <2>3. Len(stack') = 0
    BY <1>1, <2>1, <2>2, PopType DEF TypeOK
  <2>4. NestedShape' /\ NestedFrames' /\ NestedApart'
    BY <2>3 DEF NestedShape, NestedFrames, NestedApart, Depths
  <2>5. \A c \in owned : ~InnermostIs(At("attempted", c))
    BY <1>1, <2>1 DEF InnermostIs, At
  <2>6. \A c \in owned' : phase'[c] # "free"
    BY <2>1 DEF NestedInv, NestedOwns, TypeOK, ConnsOK
  <2>7. NestedOwns'
    BY <2>1, <2>2, <2>5, <2>6 DEF NestedInv, NestedOwns
  <2> QED
    BY <2>4, <2>7 DEF NestedInv
<1> QED
  BY <1>2, <1>3, <1>4 DEF Returns

LEMMA NestedAttemptEnds ==
    ASSUME Nested, TypeOK, NestedInv, AttemptGetsNone \/ Attempted
    PROVE  NestedInv'
<1>1. /\ stack # << >> /\ stack' = Tail(stack)
      /\ UNCHANGED <<alive, up, told, broken, draining, owned, phase, closing>>
      /\ \/ Top.op = "attempt" /\ nc' = nc
         \/ Top.op = "attempted" /\ nc = None /\ nc' = Top.at
         \/ Top.op = "attempted" /\ nc # None /\ nc' = nc
  BY DEF Nested, AttemptGetsNone, Attempted, TopIs, connected, history
<1>2. Top = stack[1] /\ 1 \in Depths
  BY <1>1, Depth
<1>3. Top.op = "attempted" /\ nc # None => Top.at \in closing
  BY <1>2 DEF NestedInv, NestedFrames, NestedFrame
<1>4. \/ nc' = nc /\ (Top.op = "attempted" => Top.at \in closing)
      \/ nc = None /\ Top.op = "attempted" /\ nc' = Top.at
  BY <1>1, <1>3
<1> QED
  BY <1>1, <1>4, NestedPops

LEMMA NestedVisit ==
    ASSUME Nested, TypeOK, NestedInv, NEW c \in Conns, Visit(c) \/ Network(c) \/ Ends(c)
    PROVE  NestedInv'
<1>0. stack = << >> /\ kind = "sntp" /\ alive /\ ~up /\ told = 0 /\ ~broken
      /\ draining = {}
  BY DEF Nested, NestedInv, NestedOwns, Visit, Idle, Network, Connects, Fails, PeerCloses,
     Answers, Accepts, Refuses, Message, Parses, Reads, ResolveFails, Resolves,
     Ends, Stays, CloseConn, CloseUnheard, EndsVisit
<1>a. ASSUME UNCHANGED <<alive, nc, up, told, broken, draining, owned, stack>>,
             \A d \in closing : d \in closing',
             \A d \in Conns : phase[d] # "free" => phase'[d] # "free"
      PROVE  NestedInv'
  BY <1>a, NestedKept
<1>1. CASE Visit(c)
  <2>1. ~timesOut(c)
    BY <1>0 DEF timesOut
  <2>2. broken' = broken
    <3>1. broken \in BOOLEAN /\ broken' \in BOOLEAN
      BY TypeStep, <1>1 DEF TypeOK, FlagsOK, Next
    <3>2. ~broken'
      BY <1>0, <1>1 DEF Visit
    <3> QED
      BY <1>0, <3>1, <3>2
  <2>3. /\ UNCHANGED <<alive, nc, up, told, draining, owned, stack, phase>>
        /\ \A d \in closing : d \in closing'
    BY <1>0, <1>1, <2>1 DEF Visit, clientVars, history
  <2> QED
    BY <1>a, <2>2, <2>3
<1>2. CASE Connects(c) \/ PeerCloses(c) \/ Stays(c)
  <2>1. /\ UNCHANGED <<alive, nc, up, told, broken, draining, owned, stack>>
        /\ \A d \in closing : d \in closing'
        /\ phase' = phase \/ phase' = [phase EXCEPT ![c] = "open"]
    BY <1>2 DEF Connects, PeerCloses, Stays, clientVars, history
  <2>2. \A d \in Conns : phase[d] # "free" => phase'[d] # "free"
    BY <2>1 DEF TypeOK, ConnsOK
  <2> QED
    BY <1>a, <2>1, <2>2
<1>3. ASSUME NEW ph \in Phases, Resolves(c, ph) PROVE NestedInv'
  <2>1. /\ UNCHANGED <<alive, nc, up, told, broken, draining, owned, stack, closing>>
        /\ phase' = [phase EXCEPT ![c] = ph] /\ ph # "free"
    BY <1>3 DEF Resolves, clientVars, flagVars, history
  <2>2. \A d \in Conns : phase[d] # "free" => phase'[d] # "free"
    BY <2>1 DEF TypeOK, ConnsOK
  <2> QED
    BY <1>a, <2>1, <2>2
<1>4. CASE Fails(c) \/ ResolveFails(c)
  <2>1. /\ stack' = << At("error", c) >> /\ closing' = closing \union {c}
        /\ UNCHANGED <<alive, nc, up, told, broken, draining, owned, phase>>
    BY <1>4 DEF Fails, ResolveFails, MgError, clientVars, history
  <2>2. phase[c] # "free"
    BY <1>4 DEF Fails, Reads, ResolveFails, NestedInv, NestedOwns
  <2>3. ~up' /\ told' = 0 /\ ~broken'
    BY <1>0, <2>1
  <2> QED
    BY <1>0, <2>1, <2>2, <2>3, NestedHears
<1>5. CASE Answers(c)
  <2>1. /\ stack' = << At("event", c) >> /\ phase' = [phase EXCEPT ![c] = "ready"]
        /\ UNCHANGED <<alive, nc, up, told, broken, draining, owned, closing>>
    BY <1>5 DEF Answers, clientVars, flagVars, history
  <2>2. phase'[c] # "free" /\ \A d \in Conns : phase[d] # "free" => phase'[d] # "free"
    BY <2>1 DEF TypeOK, ConnsOK
  <2>3. ~up' /\ told' = 0 /\ ~broken'
    BY <1>0, <2>1
  <2> QED
    BY <1>0, <2>1, <2>2, <2>3, NestedHears
<1>6. CASE CloseConn(c)
  <2>1. /\ stack' = << At("close", c) >> /\ c \in owned /\ c \in closing
        /\ nc' = IF nc = c THEN None ELSE nc
        /\ UNCHANGED <<alive, told, broken, draining, owned, closing, phase>> /\ ~up'
    BY <1>0, <1>6 DEF CloseConn, Closes, connVars
  <2>2. phase[c] # "free" /\ c # None
    BY <2>1, ConnsAssumption DEF NestedInv, NestedOwns
  <2>3. /\ ~up' /\ told' = 0 /\ ~broken' /\ c # nc' /\ phase'[c] # "free"
        /\ nc' = nc \/ (nc' = None /\ nc \in closing')
    BY <1>0, <2>1, <2>2
  <2> QED
    BY <1>0, <2>1, <2>3, NestedHears
<1>7. CASE CloseUnheard(c)
  <2>1. /\ stack' = << >> /\ c \notin owned /\ closing' = closing \ {c}
        /\ phase' = [phase EXCEPT ![c] = "free"] /\ draining' = draining \ {c}
        /\ UNCHANGED <<alive, nc, up, told, broken, owned>>
    BY <1>0, <1>7 DEF CloseUnheard, Forget, clientVars
  <2>2. Len(stack) = 0 /\ Len(stack') = 0
    BY <1>0, <2>1
  <2>3. NestedShape' /\ NestedFrames' /\ NestedApart'
    BY <2>2 DEF NestedShape, NestedFrames, NestedApart, Depths
  <2>4. \A d \in owned : /\ ~InnermostIs(At("attempted", d)) /\ d # c
                         /\ phase'[d] # "free"
    BY <2>1, <2>2 DEF InnermostIs, Depths, NestedInv, NestedOwns, TypeOK, ConnsOK
  <2>5. NestedOwns'
    BY <2>1, <2>4 DEF NestedInv, NestedOwns
  <2> QED
    BY <2>3, <2>5 DEF NestedInv
<1>8. ~Accepts(c) /\ ~Refuses(c) /\ ~Message(c)
  BY <1>0 DEF Accepts, Refuses, Message
<1> QED
  BY <1>1, <1>2, <1>3, <1>4, <1>5, <1>6, <1>7, <1>8 DEF Network, Ends

LEMMA NestedStep ==
    ASSUME OneAttempt, Nested, TypeOK, NestedInv, [Next]_vars
    PROVE  NestedInv'
<1>1. CASE Application
  <2>1. /\ ~Connect /\ ~Publish /\ ~PublishFails /\ ~Disconnect
        /\ ~SendRequest /\ ~Cancel /\ ~Abort /\ ~Delete
    BY DEF OneAttempt, Nested, Connect, Publish, PublishFails, Disconnect, SendRequest,
       Cancel, Abort, Delete
  <2> QED
    BY <1>1, <2>1, NestedGetTime DEF Application
<1>2. CASE Attempts
  BY <1>2, NestedAttemptEnds, NestedAttemptFails, NestedAttemptStarts DEF Attempts
<1>3. CASE Returns
  BY <1>3, NestedReturns
<1>4. CASE Tick \/ UNCHANGED vars
  <2>1. UNCHANGED <<alive, nc, up, told, broken, draining, owned, stack, closing, phase>>
    BY <1>4 DEF Tick, vars, clientVars, flagVars, history
  <2> QED
    BY <2>1, NestedKept
<1>5. ASSUME NEW c \in Conns, Visit(c) \/ Network(c) \/ Ends(c) PROVE NestedInv'
  BY <1>5, NestedVisit
<1> QED
  BY <1>1, <1>2, <1>3, <1>4, <1>5 DEF Next

LEMMA KindKept == [Next]_vars => kind' = kind
<1> SUFFICES ASSUME [Next]_vars PROVE kind' = kind
  OBVIOUS
<1> USE DEF clientVars
<1>1. CASE Application
  BY <1>1 DEF Application, Connect, Publish, PublishFails, Disconnect, GetTime,
     SendRequest, Cancel, Abort, Delete
<1>2. CASE Attempts
  BY <1>2 DEF Attempts, AttemptGetsNone, Attempted, AttemptFails, AttemptStarts
<1>3. CASE Returns
  BY <1>3 DEF Returns, ErrorReturns, RefusedReturns, EventReturns, LostReturns,
     CloseReturns
<1>4. CASE Tick \/ UNCHANGED vars
  BY <1>4 DEF Tick, vars
<1>5. ASSUME NEW c \in Conns, Visit(c) PROVE kind' = kind
  BY <1>5 DEF Visit
<1>6. ASSUME NEW c \in Conns, Network(c) PROVE kind' = kind
  BY <1>6 DEF Network, Connects, Fails, PeerCloses, Accepts, Refuses, Message, Answers,
     ResolveFails, Resolves, MgError
<1>7. ASSUME NEW c \in Conns, Ends(c) PROVE kind' = kind
  BY <1>7 DEF Ends, Stays, CloseConn, CloseUnheard
<1> QED
  BY <1>1, <1>2, <1>3, <1>4, <1>5, <1>6, <1>7 DEF Next

-----------------------------------------------------------------------------
(* Both together *)

IInv == TypeOK /\ IF Nested THEN NestedInv ELSE Inv

\* The inductive invariant with the types.
LEMMA Always == OneAttempt /\ Spec => []IInv
<1> SUFFICES ASSUME OneAttempt PROVE Spec => []IInv
  OBVIOUS
<1>1. Init => IInv
  BY TypeInit, InvInit, NestedInit DEF IInv
<1>2. IInv /\ [Next]_vars => IInv'
  <2> SUFFICES ASSUME IInv, [Next]_vars PROVE IInv'
    OBVIOUS
  <2>1. TypeOK' /\ kind' = kind
    BY TypeStep, KindKept DEF IInv
  <2>2. Nested' <=> Nested
    BY <2>1 DEF Nested
  <2>3. CASE Nested
    BY <2>1, <2>2, <2>3, NestedStep DEF IInv
  <2>4. CASE ~Nested
    BY <2>1, <2>2, <2>4, InvStep DEF IInv
  <2> QED
    BY <2>3, <2>4
<1> QED
  BY <1>1, <1>2, PTL DEF Spec
-----------------------------------------------------------------------------
(* What the invariant says to the application *)

Promised ==
    /\ NoUndefinedBehaviour /\ HeardIsCurrent /\ NotifiedInTurn
    /\ OnErrorNotReentered /\ CodeOfThisAttempt

LEMMA NestedPromised ==
    ASSUME Nested, TypeOK, NestedInv
    PROVE  Promised
<1>1. NoUndefinedBehaviour /\ NotifiedInTurn /\ CodeOfThisAttempt
  BY DEF Nested, NestedInv, NestedOwns, NoUndefinedBehaviour, NotifiedInTurn,
     CodeOfThisAttempt
<1>2. HeardIsCurrent
  <2> SUFFICES ASSUME stack = << >> PROVE owned \ closing \subseteq {nc}
    BY DEF HeardIsCurrent, Nested, NestedInv, NestedOwns
  <2>1. Depths = {}
    BY Depth DEF Depths
  <2> QED
    BY <2>1 DEF NestedInv, NestedOwns, InnermostIs
<1>3. OnErrorNotReentered
  <2>1. \A i \in Depths : stack[i].op # "refused"
    BY DEF NestedInv, NestedShape, Trying
  <2> QED
    BY <2>1 DEF OnErrorNotReentered, OnError, NestedInv, NestedApart, Depths
<1> QED
  BY <1>1, <1>2, <1>3 DEF Promised

LEMMA Consequences ==
    ASSUME TypeOK, Inv
    PROVE  /\ NoUndefinedBehaviour /\ HeardIsCurrent /\ NotifiedInTurn
           /\ OnErrorNotReentered /\ CodeOfThisAttempt
<1>1. NoUndefinedBehaviour
  BY DEF Inv, NoUndefinedBehaviour
<1>2. HeardIsCurrent
  BY AtRest DEF HeardIsCurrent, Inv, Owns
<1>3. NotifiedInTurn
  BY DEF NotifiedInTurn, Inv, Tells
<1>4. OnErrorNotReentered
  BY DEF OnErrorNotReentered, Inv, Apart, Depths
<1>5. CodeOfThisAttempt
  <2> SUFFICES ASSUME kind = "mqtt", stack # << >>, Top.op \in OnError
               PROVE  code <=> Top.at \in refused
    BY DEF CodeOfThisAttempt
  <2>1. Top = stack[1] /\ 1 \in Depths /\ Len(stack) \in Nat /\ Top.at \in Conns
    <3>1. Top.op # "attempt"
      BY DEF OnError
    <3> QED
      BY <3>1, Depth, TopType DEF TypeOK
  <2>2. CASE Top.at = nc
    BY <2>1, <2>2, ConnsAssumption DEF Inv, Tells
  <2>3. CASE Top.at # nc
    <3>1. Top.op = "error"
      BY <2>1, <2>3 DEF OnError, Inv, Frames, FrameOK
    <3>2. 2 \in Depths /\ stack[2] = At("attempted", Top.at)
      BY <2>1, <2>3, <3>1 DEF Inv, Shape, Depths
    <3>3. FrameOK(stack[2]) /\ stack[2].op = "attempted" /\ stack[2].at = Top.at
      BY <2>1, <3>2, AtType DEF Inv, Frames
    <3>4. ~code /\ Top.at \notin refused
      BY <3>3 DEF FrameOK, Trying
    <3> QED
      BY <3>4
  <2> QED
    BY <2>2, <2>3
<1> QED
  BY <1>1, <1>2, <1>3, <1>4, <1>5

LEMMA AlwaysPromised == OneAttempt /\ Spec => []Promised
<1>1. IInv => Promised
  BY Consequences, NestedPromised DEF IInv, Promised
<1> QED
  BY <1>1, Always, PTL

\* No event of mongoose reaches a client that is gone, and a request deletes
\* itself once, however the application's calls and the network interleave.
THEOREM NobodyGoneIsCalled == OneAttempt /\ Spec => []NoUndefinedBehaviour
<1>1. Promised => NoUndefinedBehaviour
  BY DEF Promised
<1> QED
  BY <1>1, AlwaysPromised, PTL

\* Between callbacks the client hears its current connection and what is about
\* to be closed, and nothing else.
THEOREM CurrentIsHeard == OneAttempt /\ Spec => []HeardIsCurrent
<1>1. Promised => HeardIsCurrent
  BY DEF Promised
<1> QED
  BY <1>1, AlwaysPromised, PTL

\* onConnect() and onDisconnect() of the MQTT client come in turn.
THEOREM InTurn == OneAttempt /\ Spec => []NotifiedInTurn
<1>1. Promised => NotifiedInTurn
  BY DEF Promised
<1> QED
  BY <1>1, AlwaysPromised, PTL

\* onError() for a connection never runs inside onError() for the same one.
THEOREM ErrorsNotReentered == OneAttempt /\ Spec => []OnErrorNotReentered
<1>1. Promised => OnErrorNotReentered
  BY DEF Promised
<1> QED
  BY <1>1, AlwaysPromised, PTL

\* connackCode() in onError() is that of the attempt that failed.
THEOREM CodeIsCurrent == OneAttempt /\ Spec => []CodeOfThisAttempt
<1>1. Promised => CodeOfThisAttempt
  BY DEF Promised
<1> QED
  BY <1>1, AlwaysPromised, PTL
===============================================================================
