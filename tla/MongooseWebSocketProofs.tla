----------------------- MODULE MongooseWebSocketProofs -----------------------
(***************************************************************************)
(* Proofs about MongooseWebSocketClient, for every number of connections,  *)
(* every interval and timeout, and every choice of the application's calls *)
(* that the theorem does not exclude.                                      *)
(***************************************************************************)
EXTENDS MongooseWebSocketClient, TLAPS

LEMMA PushPop ==
    ASSUME NEW S, NEW f \in S, NEW s \in Seq(S)
    PROVE  /\ Push(f, s) \in Seq(S) /\ Push(f, s) # << >>
           /\ Head(Push(f, s)) = f /\ Tail(Push(f, s)) = s
BY DEF Push

LEMMA PopType ==
    ASSUME NEW S, NEW s \in Seq(S), s # << >>
    PROVE  Head(s) \in S /\ Tail(s) \in Seq(S)
OBVIOUS

LEMMA EmptySeq ==
    ASSUME NEW S, NEW s \in Seq(S), Len(s) = 0
    PROVE  s = << >>
OBVIOUS

LEMMA One ==
    ASSUME NEW S, NEW f \in S
    PROVE  /\ << f >> \in Seq(S) /\ << f >> # << >>
           /\ Head(<< f >>) = f /\ Tail(<< f >>) = << >>
OBVIOUS

LEMMA AtType ==
    ASSUME NEW c \in Conns \union {None},
           NEW op \in Handlers \union {"attempt", "attempted"}
    PROVE  At(op, c) \in Frame /\ At(op, c).op = op /\ At(op, c).at = c
BY DEF At, Frame

LEMMA TopType ==
    ASSUME stack \in Seq(Frame), stack # << >>
    PROVE  /\ Top \in Frame /\ Top.at \in Conns \union {None}
           /\ Tail(stack) \in Seq(Frame)
<1>1. Top \in Frame
  BY PopType DEF Top
<1> QED
  BY <1>1, PopType DEF Frame

LEMMA ClientStays == ClientOK /\ UNCHANGED clientVars => ClientOK'
BY DEF ClientOK, clientVars
LEMMA TimesStay == TimesOK /\ UNCHANGED timeVars => TimesOK'
BY DEF TimesOK, timeVars
LEMMA ConnsStay == ConnsOK /\ UNCHANGED connVars => ConnsOK'
BY DEF ConnsOK, connVars
LEMMA LoopStays == LoopOK /\ UNCHANGED loopVars => LoopOK'
BY DEF LoopOK, loopVars
LEMMA ModeStays == ModeOK /\ UNCHANGED modeVars => ModeOK'
BY DEF ModeOK, modeVars
-----------------------------------------------------------------------------
(* Types *)

LEMMA TypeInit == Init => TypeOK
<1> SUFFICES ASSUME Init PROVE TypeOK
  OBVIOUS
<1>0. 0 \in 0 .. MaxAttempts /\ MaxCalls \in 0 .. MaxCalls
  BY TimesAssumption
<1>1. ClientOK
  BY <1>0 DEF Init, ClientOK, States
<1>2. TimesOK
  BY TimesAssumption DEF Init, TimesOK
<1>3. ConnsOK
  BY DEF Init, ConnsOK, Phases
<1>4. LoopOK
  BY DEF Init, LoopOK
<1>5. ModeOK
  BY <1>0 DEF Init, ModeOK
<1> QED
  BY <1>1, <1>2, <1>3, <1>4, <1>5 DEF Init, TypeOK

LEMMA CountType ==
    ASSUME TypeOK, CountAttempt
    PROVE  TimesOK' /\ attempts' \in 0 .. MaxAttempts
BY TimesAssumption DEF TypeOK, ClientOK, TimesOK, CountAttempt

LEMMA NewConnType ==
    ASSUME ConnsOK, NEW c \in Conns, NEW ph \in {"connecting", "handshake"},
           NewConn(c, ph)
    PROVE  phase' \in [Conns -> Phases] /\ owned' \subseteq Conns
           /\ sending' \subseteq Conns
BY DEF ConnsOK, NewConn, Phases

LEMMA TypeReconnecting == TypeOK /\ Reconnecting => TypeOK'
<1> SUFFICES ASSUME TypeOK, Reconnecting PROVE TypeOK'
  OBVIOUS
<1> USE DEF TypeOK
<1>a. ASSUME stack # << >>
      PROVE  Tail(stack) \in Seq(Frame) /\ Top.at \in Conns \union {None}
  BY <1>a, TopType
<1>1. CASE AttemptTooSoon
  BY <1>1, <1>a, ClientStays, TimesStay, ConnsStay, LoopStays, ModeStays
  DEF AttemptTooSoon, TopIs
<1>2. CASE AttemptGetsNone
  BY <1>2, <1>a, CountType, ConnsStay, LoopStays, ModeStays
  DEF AttemptGetsNone, TopIs, ClientOK, States
<1>3. CASE Attempted
  BY <1>3, <1>a, TimesStay, ConnsStay, LoopStays, ModeStays
  DEF Attempted, TopIs, ClientOK, States
<1>4. ASSUME NEW c \in Conns, AttemptFails(c) PROVE TypeOK'
  <2>1. ConnsOK'
    BY <1>4, NewConnType DEF AttemptFails, ConnsOK
  <2>2. stack' \in Seq(Frame)
    <3>1. Push(At("attempted", c), Tail(stack)) \in Seq(Frame)
      BY <1>4, <1>a, AtType, PushPop DEF AttemptFails, TopIs
    <3>2. At("error", c) \in Frame /\ At("attempted", c) \in Frame
      BY AtType DEF Handlers
    <3>3. Tail(stack) \in Seq(Frame)
      BY <1>4, <1>a DEF AttemptFails, TopIs
    <3> QED
      BY <1>4, <3>2, <3>3 DEF AttemptFails
  <2> QED
    BY <1>4, <2>1, <2>2, CountType, LoopStays, ModeStays
    DEF AttemptFails, ClientOK, States
<1>5. ASSUME NEW c \in Conns, NEW ph \in {"connecting", "handshake"},
             AttemptStarts(c, ph)
      PROVE  TypeOK'
  <2>1. ConnsOK'
    BY <1>5, NewConnType DEF AttemptStarts, ConnsOK
  <2>2. stack' \in Seq(Frame)
    BY <1>5, <1>a, AtType, PushPop DEF AttemptStarts, TopIs
  <2> QED
    BY <1>5, <2>1, <2>2, CountType, LoopStays, ModeStays
    DEF AttemptStarts, ClientOK, States
<1> QED
  BY <1>1, <1>2, <1>3, <1>4, <1>5 DEF Reconnecting

LEMMA ForgetType ==
    ASSUME ConnsOK, NEW c, Forget(c), sending' \subseteq sending
    PROVE  ConnsOK'
BY DEF ConnsOK, Forget, Phases

LEMMA TypeReturns == TypeOK /\ Returns => TypeOK'
<1> SUFFICES ASSUME TypeOK, Returns PROVE TypeOK'
  OBVIOUS
<1> USE DEF TypeOK
<1>a. ASSUME stack # << >>
      PROVE  Tail(stack) \in Seq(Frame) /\ Top.at \in Conns \union {None}
  BY <1>a, TopType
<1>1. CASE ErrorReturns
  BY <1>1, <1>a, TimesStay, LoopStays, ModeStays
  DEF ErrorReturns, cleanupConnection, TopIs, ClientOK, ConnsOK, States
<1>2. CASE CloseReturns
  <2>1. stack' \in Seq(Frame)
    BY <1>2, <1>a, AtType, PushPop DEF CloseReturns, TopIs, Handlers
  <2> QED
    BY <1>2, <2>1, TimesStay, ConnsStay, LoopStays, ModeStays
    DEF CloseReturns, cleanupConnection, ClientOK, States
<1>3. CASE ClosedReturns
  <2>1. ConnsOK'
    BY <1>3, ForgetType DEF ClosedReturns
  <2> QED
    BY <1>3, <1>a, <2>1, ClientStays, TimesStay, LoopStays, ModeStays
    DEF ClosedReturns, TopIs
<1>4. CASE HandlerReturns
  BY <1>4, <1>a, ClientStays, TimesStay, ConnsStay, LoopStays, ModeStays
  DEF HandlerReturns, TopIs
<1> QED
  BY <1>1, <1>2, <1>3, <1>4 DEF Returns

LEMMA TypeApplication == TypeOK /\ Application => TypeOK'
<1> SUFFICES ASSUME TypeOK, Application PROVE TypeOK'
  OBVIOUS
<1> USE DEF TypeOK
<1>a. ASSUME NEW op, Call(op) PROVE ModeOK'
  BY <1>a, TimesAssumption DEF Call, May, ModeOK
<1>b. /\ At("attempt", None) \in Frame
      /\ Push(At("attempt", None), stack) \in Seq(Frame)
  BY AtType, PushPop
<1>1. CASE Connect
  BY <1>1, <1>a, <1>b, LoopStays, TimesAssumption
  DEF Connect, ClientOK, ConnsOK, TimesOK, States
<1>2. CASE LoopInHandler
  BY <1>2, <1>a, <1>b, ClientStays, TimesStay, ConnsStay
  DEF LoopInHandler, DoLoop, LoopOK
<1>3. CASE Disconnect
  BY <1>3, <1>a, TimesStay, LoopStays
  DEF Disconnect, ClientOK, ConnsOK, States
<1>4. CASE Send
  BY <1>4, <1>a, ClientStays, TimesStay, LoopStays
  DEF Send, connected, ClientOK, ConnsOK
<1>5. CASE Delete
  BY <1>5, <1>a, TimesStay
  DEF Delete, connected, ClientOK, ConnsOK, LoopOK, States
<1>6. CASE UseDangling
  BY <1>6, ClientStays, TimesStay, ConnsStay, LoopStays DEF UseDangling, ModeOK
<1> QED
  BY <1>1, <1>2, <1>3, <1>4, <1>5, <1>6 DEF Application

LEMMA TypeLoop == TypeOK /\ Loop => TypeOK'
<1> SUFFICES ASSUME TypeOK, Loop PROVE TypeOK'
  OBVIOUS
<1>1. Push(At("attempt", None), stack) \in Seq(Frame)
  BY AtType, PushPop DEF TypeOK
<1> QED
  BY <1>1, ClientStays, TimesStay, ConnsStay, ModeStays
  DEF TypeOK, Loop, DoLoop, LoopOK

LEMMA TypePoll == TypeOK => \A c \in Conns : Poll(c) => TypeOK'
<1> SUFFICES ASSUME TypeOK, NEW c \in Conns, Poll(c) PROVE TypeOK'
  OBVIOUS
<1> USE DEF TypeOK
<1>a. ASSUME NEW op \in Handlers PROVE << At(op, c) >> \in Seq(Frame)
  BY <1>a, AtType, One
<1>b. ASSUME Reads(c) PROVE LoopOK'
  BY <1>b DEF Reads, LoopOK
<1>c. ASSUME MgError(c) PROVE TypeOK'
  BY <1>c, <1>a, <1>b, TimesStay, ModeStays
  DEF MgError, ClientOK, ConnsOK, States, Handlers
<1>d. ASSUME Receives(c)
      PROVE  LoopOK' /\ TimesOK' /\ budget' \in 0 .. MaxCalls /\ calm' \in BOOLEAN
  BY <1>d, <1>b, TimesAssumption DEF Receives, TimesOK, ModeOK
<1>1. CASE Visit(c)
  <2>1. ClientOK' /\ TimesOK' /\ sending' \subseteq Conns /\ draining' \subseteq Conns
    BY <1>1, TimesAssumption
    DEF Visit, OnPoll, connected, ClientOK, TimesOK, ConnsOK, States
  <2>2. LoopOK'
    BY <1>1 DEF Visit, LoopOK
  <2> QED
    BY <1>1, <2>1, <2>2, ModeStays DEF Visit, ConnsOK
<1>2. CASE VisitBreaks(c)
  BY <1>2, ClientStays, TimesStay, ConnsStay, LoopStays DEF VisitBreaks, ModeOK
<1>3. CASE Connects(c)
  BY <1>3, <1>b, TimesStay, ModeStays
  DEF Connects, ClientOK, ConnsOK, States, Phases, flagVars
<1>4. CASE ConnectFails(c) \/ HandshakeFails(c) \/ UnknownOpcode(c)
  BY <1>4, <1>c DEF ConnectFails, HandshakeFails, UnknownOpcode
<1>5. CASE HandshakeSucceeds(c)
  BY <1>5, <1>a, <1>b, ModeStays, TimesAssumption
  DEF HandshakeSucceeds, ClientOK, TimesOK, ConnsOK, States, Phases, flagVars,
      Handlers
<1>6. CASE PeerCloses(c)
  BY <1>6, <1>b, ClientStays, TimesStay, ModeStays DEF PeerCloses, ConnsOK
<1>7. CASE Message(c)
  BY <1>7, <1>a, <1>d
  DEF Message, Receives, ClientOK, ConnsOK, ModeOK, Handlers
<1>8. CASE Pong(c)
  BY <1>8, <1>d DEF Pong, Receives, ClientOK, ConnsOK, ModeOK
<1>9. CASE Ping(c)
  BY <1>9, <1>d DEF Ping, Receives, ClientOK, ConnsOK, ModeOK
<1>10. CASE CloseFrame(c)
  BY <1>10, <1>d DEF CloseFrame, Receives, ClientOK, ConnsOK, ModeOK, States
<1>e. ASSUME EndsVisit(c) PROVE LoopOK'
  BY <1>e DEF EndsVisit, LoopOK
<1>11. CASE Stays(c)
  BY <1>11, <1>e, ClientStays, TimesStay, ModeStays DEF Stays, Written, ConnsOK
<1>12. CASE CloseConn(c)
  <2>1. ConnsOK'
    BY <1>12, ForgetType DEF CloseConn, ConnsOK
  <2>2. ClientOK' /\ stack' \in Seq(Frame)
    BY <1>12, <1>a DEF CloseConn, ClientOK, Handlers
  <2> QED
    BY <1>12, <1>e, <2>1, <2>2, TimesStay, ModeStays DEF CloseConn
<1> QED
  BY <1>1, <1>2, <1>3, <1>4, <1>5, <1>6, <1>7, <1>8, <1>9, <1>10, <1>11, <1>12
  DEF Poll, ConnectEnds, HandshakeEnds, Traffic

LEMMA TypeWorld ==
    ASSUME TypeOK, Round(0) \/ Round(1) \/ CalmDown \/ \E c \in Conns : Hang(c)
    PROVE  TypeOK'
<1> USE DEF TypeOK
<1>1. ASSUME NEW ticks \in {0, 1}, Round(ticks) PROVE TypeOK'
  <2>1. TimesOK'
    BY <1>1, TimesAssumption DEF Round, TimesOK, Later
  <2> QED
    BY <1>1, <2>1, TimesAssumption, ClientStays, ConnsStay
    DEF Round, LoopOK, ModeOK, live
<1>2. CASE CalmDown
  BY <1>2, TimesAssumption, ClientStays, TimesStay, ConnsStay, LoopStays
  DEF CalmDown, ModeOK
<1>3. ASSUME NEW c \in Conns, Hang(c) PROVE TypeOK'
  BY <1>3, ClientStays, TimesStay, LoopStays, ModeStays DEF Hang, ConnsOK, flagVars
<1> QED
  BY <1>1, <1>2, <1>3

LEMMA TypeStep == TypeOK /\ [Next]_vars => TypeOK'
<1> SUFFICES ASSUME TypeOK, [Next]_vars PROVE TypeOK'
  OBVIOUS
<1>1. CASE Next
  BY <1>1, TypeReconnecting, TypeReturns, TypeLoop, TypePoll, TypeApplication,
     TypeWorld
  DEF Next, System
<1>2. CASE UNCHANGED vars
  BY <1>2, ClientStays, TimesStay, ConnsStay, LoopStays, ModeStays
  DEF TypeOK, vars, clientVars, timeVars, connVars, loopVars, modeVars
<1> QED
  BY <1>1, <1>2

\* Types, for every number of connections and all intervals.  The parts that
\* are not by inspection: every activation on the stack names a connection
\* slot, the counters stay within their bounds, and _nc is never anything but
\* a connection or null.
THEOREM TypeCorrect == Spec => []TypeOK
<1>1. Init => TypeOK
  BY TypeInit
<1>2. TypeOK /\ [Next]_vars => TypeOK'
  BY TypeStep
<1> QED
  BY <1>1, <1>2, PTL DEF Spec
-----------------------------------------------------------------------------
(* What nobody hears is closing *)

\* A connection whose error is being reported stays flagged until the report
\* is over: what is freed meanwhile is freed by a frame at the very bottom.
ErrorsFlagged(s, flagged) ==
    \A i \in DOMAIN s : /\ s[i].op = "error" => s[i].at \in flagged
                        /\ s[i].op \in {"close", "closed"} => i = Len(s)
UnheardInv == UnheardIsClosing /\ ErrorsFlagged(stack, closing)

LEMMA PushIndex ==
    ASSUME NEW f \in Frame, NEW s \in Seq(Frame), NEW i \in DOMAIN Push(f, s)
    PROVE  /\ i \in Nat /\ i >= 1 /\ Len(Push(f, s)) = Len(s) + 1
           /\ i = 1 => Push(f, s)[i] = f
           /\ i # 1 => i - 1 \in DOMAIN s /\ Push(f, s)[i] = s[i - 1]
BY DEF Push

\* A frame above others is no close, and if it is an error it is flagged.
LEMMA PushFlagged ==
    ASSUME NEW f \in Frame, NEW s \in Seq(Frame), NEW K, NEW L, K \subseteq L,
           ErrorsFlagged(s, K), f.op = "error" => f.at \in L,
           f.op \in {"close", "closed"} => s = << >>
    PROVE  ErrorsFlagged(Push(f, s), L)
<1> SUFFICES ASSUME NEW i \in DOMAIN Push(f, s)
             PROVE  /\ Push(f, s)[i].op = "error" => Push(f, s)[i].at \in L
                    /\ Push(f, s)[i].op \in {"close", "closed"} => i = Len(Push(f, s))
  BY DEF ErrorsFlagged
<1>1. CASE i = 1
  <2>1. s = << >> => Len(s) = 0
    OBVIOUS
  <2>2. Push(f, s)[i] = f /\ Len(Push(f, s)) = Len(s) + 1
    BY <1>1, PushIndex
  <2> QED
    BY <1>1, <2>1, <2>2
<1>2. CASE i # 1
  <2>1. /\ i \in Nat /\ i - 1 \in DOMAIN s /\ Push(f, s)[i] = s[i - 1]
        /\ Len(Push(f, s)) = Len(s) + 1
    BY <1>2, PushIndex
  <2>2. /\ s[i - 1].op = "error" => s[i - 1].at \in K
        /\ s[i - 1].op \in {"close", "closed"} => i - 1 = Len(s)
    BY <2>1 DEF ErrorsFlagged
  <2>3. i - 1 = Len(s) => i = Len(s) + 1
    BY <2>1
  <2> QED
    BY <2>1, <2>2, <2>3
<1> QED
  BY <1>1, <1>2

LEMMA PopFlagged ==
    ASSUME NEW K, stack \in Seq(Frame), stack # << >>, ErrorsFlagged(stack, K)
    PROVE  /\ ErrorsFlagged(Tail(stack), K)
           /\ TopIs("close") \/ TopIs("closed") => Tail(stack) = << >>
           /\ TopIs("error") => Top.at \in K
<1>1. \A i \in DOMAIN Tail(stack) :
          /\ i + 1 \in DOMAIN stack /\ Tail(stack)[i] = stack[i + 1]
          /\ i + 1 = Len(stack) => i = Len(Tail(stack))
  OBVIOUS
<1>2. 1 \in DOMAIN stack /\ Top = stack[1]
  BY DEF Top
<1>3. ASSUME Len(stack) = 1 PROVE Tail(stack) = << >>
  <2>1. Tail(stack) \in Seq(Frame) /\ Len(Tail(stack)) = 0
    BY <1>3
  <2> QED
    BY <2>1, EmptySeq
<1> QED
  BY <1>1, <1>2, <1>3 DEF ErrorsFlagged, TopIs

LEMMA MoreFlagged ==
    ASSUME NEW s, NEW K, NEW L, ErrorsFlagged(s, K), K \subseteq L \/ s = << >>
    PROVE  ErrorsFlagged(s, L)
BY DEF ErrorsFlagged

LEMMA ForgetUnheard ==
    ASSUME UnheardIsClosing, ConnsOK, NEW c \in Conns, Forget(c)
    PROVE  UnheardIsClosing'
<1>1. live' = live \ {c}
  BY DEF Forget, live, ConnsOK
<1> QED
  BY <1>1 DEF UnheardIsClosing, Forget

LEMMA UnheardStep == TypeOK /\ UnheardInv /\ [Next]_vars => UnheardInv'
<1> SUFFICES ASSUME TypeOK, UnheardInv, [Next]_vars PROVE UnheardInv'
  OBVIOUS
<1> USE DEF TypeOK, UnheardInv
<1>a. ASSUME UNCHANGED phase, owned \ owned' \subseteq closing',
             closing \subseteq closing'
      PROVE  UnheardIsClosing'
  BY <1>a DEF UnheardIsClosing, live
<1>b. ASSUME UNCHANGED <<phase, owned, closing, stack>> PROVE UnheardInv'
  BY <1>b, <1>a, MoreFlagged
<1>c. ASSUME NEW op \in {"error", "close", "open", "message"}, NEW c \in Conns,
             stack = << >>, stack' = << At(op, c) >>, closing \subseteq closing',
             op = "error" => c \in closing'
      PROVE  ErrorsFlagged(stack', closing')
  <2>1. At(op, c) \in Frame /\ At(op, c).op = op /\ At(op, c).at = c
    BY AtType DEF Handlers
  <2>2. << At(op, c) >> = Push(At(op, c), stack)
    BY <1>c DEF Push
  <2> QED
    BY <1>c, <2>1, <2>2, PushFlagged
<1>d. /\ At("attempt", None) \in Frame /\ At("attempt", None).op = "attempt"
      /\ \A c \in Conns : At("attempted", c) \in Frame
                          /\ At("attempted", c).op = "attempted"
  BY AtType
<1>e. ASSUME UNCHANGED <<phase, owned, closing>>, DoLoop PROVE UnheardInv'
  BY <1>e, <1>a, <1>d, MoreFlagged, PushFlagged DEF DoLoop
<1>f. ASSUME stack # << >> PROVE Tail(stack) \in Seq(Frame)
  BY <1>f, PopType
<1>g. ASSUME NEW c \in Conns, NEW ph \in {"connecting", "handshake"}, NewConn(c, ph)
      PROVE  live' = live \union {c} /\ owned' = owned \union {c}
  BY <1>g DEF NewConn, live, ConnsOK
<1>1. CASE AttemptTooSoon \/ AttemptGetsNone \/ Attempted \/ HandlerReturns
  <2>1. UNCHANGED <<phase, owned, closing>> /\ stack # << >> /\ stack' = Tail(stack)
    BY <1>1 DEF AttemptTooSoon, AttemptGetsNone, Attempted, HandlerReturns, TopIs,
                connVars
  <2> QED
    BY <2>1, <1>a, PopFlagged, MoreFlagged
<1>2. ASSUME NEW c \in Conns, AttemptFails(c) PROVE UnheardInv'
  <2>1. NewConn(c, "connecting") /\ closing' = closing \union {c} /\ TopIs("attempt")
    BY <1>2 DEF AttemptFails
  <2>2. UnheardIsClosing'
    BY <2>1, <1>g DEF UnheardIsClosing
  <2>3. Tail(stack) \in Seq(Frame) /\ ErrorsFlagged(Tail(stack), closing)
    BY <2>1, <1>f, PopFlagged DEF TopIs
  <2>4. ErrorsFlagged(Push(At("attempted", c), Tail(stack)), closing)
    BY <2>3, <1>d, PushFlagged
  <2>5. Push(At("attempted", c), Tail(stack)) \in Seq(Frame)
    BY <2>3, <1>d, PushPop
  <2>6. /\ At("error", c) \in Frame /\ At("error", c).op = "error"
        /\ At("error", c).at = c
    BY AtType DEF Handlers
  <2>7. stack' = Push(At("error", c), Push(At("attempted", c), Tail(stack)))
    BY <1>2, <2>3, <2>6, <1>d DEF AttemptFails, Push
  <2> QED
    BY <2>1, <2>2, <2>4, <2>5, <2>6, <2>7, PushFlagged
<1>3. ASSUME NEW c \in Conns, NEW ph \in {"connecting", "handshake"},
             AttemptStarts(c, ph)
      PROVE  UnheardInv'
  <2>1. NewConn(c, ph) /\ closing' = closing /\ TopIs("attempt")
        /\ stack' = Push(At("attempted", c), Tail(stack))
    BY <1>3 DEF AttemptStarts
  <2>2. UnheardIsClosing'
    BY <2>1, <1>g DEF UnheardIsClosing
  <2> QED
    BY <2>1, <2>2, <1>d, <1>f, PopFlagged, PushFlagged DEF TopIs
<1>4. CASE Connect
  <2>1. UnheardIsClosing'
    BY <1>4, ConnsAssumption DEF Connect, UnheardIsClosing, live
  <2> QED
    BY <1>4, <2>1, <1>d, PushFlagged DEF Connect
<1>5. CASE LoopInHandler \/ Loop
  BY <1>5, <1>e DEF LoopInHandler, Loop, DoLoop, connVars
<1>6. CASE Disconnect \/ Send \/ UseDangling
  BY <1>6, <1>b DEF Disconnect, Send, UseDangling, connVars
<1>7. CASE Delete
  BY <1>7, <1>a, MoreFlagged DEF Delete
<1>8. CASE ErrorReturns
  <2>1. stack # << >> /\ Top.at \in closing
    BY <1>8, PopFlagged DEF ErrorReturns, TopIs
  <2> QED
    BY <1>8, <2>1, <1>a, PopFlagged, MoreFlagged DEF ErrorReturns
<1>9. CASE CloseReturns
  <2>1. Tail(stack) = << >> /\ stack # << >> /\ Top.at \in Conns \union {None}
    BY <1>9, PopFlagged, TopType DEF CloseReturns, TopIs
  <2>2. At("closed", Top.at) \in Frame /\ At("closed", Top.at).op = "closed"
    BY <2>1, AtType DEF Handlers
  <2>3. UnheardIsClosing' /\ closing' = closing
    BY <1>9, <1>a DEF CloseReturns, connVars
  <2> QED
    <3>1. Tail(stack) \in Seq(Frame) /\ ErrorsFlagged(Tail(stack), closing)
      BY <2>1, <1>f, PopFlagged
    <3>2. ErrorsFlagged(stack', closing)
      BY <1>9, <2>1, <2>2, <3>1, PushFlagged DEF CloseReturns
    <3> QED
      BY <2>3, <3>2
<1>10. CASE ClosedReturns
  <2>1. Tail(stack) = << >> /\ stack # << >> /\ Top.at \in Conns \union {None}
    BY <1>10, PopFlagged, TopType DEF ClosedReturns, TopIs
  <2>2. UnheardIsClosing'
    <3>1. CASE Top.at \in Conns
      BY <1>10, <3>1, ForgetUnheard DEF ClosedReturns
    <3>2. CASE Top.at \notin Conns
      <4>1. live' = live /\ Top.at \notin live
        BY <1>10, <3>2 DEF ClosedReturns, Forget, live, ConnsOK
      <4> QED
        BY <1>10, <4>1 DEF ClosedReturns, Forget, UnheardIsClosing
    <3> QED
      BY <3>1, <3>2
  <2> QED
    BY <1>10, <2>1, <2>2, PopFlagged, MoreFlagged DEF ClosedReturns
<1>11. ASSUME NEW c \in Conns, Poll(c) PROVE UnheardInv'
  <2>1. CASE Visit(c) \/ VisitBreaks(c) \/ Pong(c) \/ Ping(c) \/ CloseFrame(c) \/ Stays(c)
    <3>1. CASE Visit(c)
      BY <3>1, <1>b DEF Visit
    <3>2. CASE VisitBreaks(c)
      BY <3>2, <1>b DEF VisitBreaks, connVars
    <3>3. CASE Pong(c) \/ Ping(c) \/ CloseFrame(c)
      BY <3>3, <1>b DEF Pong, Ping, CloseFrame, Receives
    <3>4. CASE Stays(c)
      BY <3>4, <1>b DEF Stays
    <3> QED
      BY <2>1, <3>1, <3>2, <3>3, <3>4
  <2>2. CASE Connects(c)
    BY <2>2, MoreFlagged
    DEF Connects, UnheardIsClosing, live, ConnsOK, flagVars
  <2>3. ASSUME MgError(c) PROVE UnheardInv'
    BY <2>3, <1>a, <1>c DEF MgError, Reads, Ready
  <2>4. CASE ConnectFails(c) \/ HandshakeFails(c) \/ UnknownOpcode(c)
    BY <2>3, <2>4 DEF ConnectFails, HandshakeFails, UnknownOpcode
  <2>5. CASE HandshakeSucceeds(c)
    <3>1. UnheardIsClosing'
      BY <2>5
      DEF HandshakeSucceeds, Answered, UnheardIsClosing, live, ConnsOK, flagVars
    <3> QED
      BY <2>5, <3>1, <1>c DEF HandshakeSucceeds, Reads, Ready, flagVars
  <2>6. CASE PeerCloses(c)
    BY <2>6, <1>a, MoreFlagged DEF PeerCloses
  <2>7. CASE Message(c)
    BY <2>7, <1>a, <1>c DEF Message, Receives, Reads, Ready
  <2>8. CASE CloseConn(c) /\ c \in owned
    BY <2>8, <1>a, <1>c DEF CloseConn, EndsVisit
  <2>9. CASE CloseConn(c) /\ c \notin owned
    BY <2>9, ForgetUnheard, MoreFlagged DEF CloseConn, EndsVisit
  <2> QED
    BY <1>11, <2>1, <2>2, <2>4, <2>5, <2>6, <2>7, <2>8, <2>9
    DEF Poll, ConnectEnds, HandshakeEnds, Traffic
<1>12. CASE Round(0) \/ Round(1) \/ CalmDown
  BY <1>12, <1>b DEF Round, CalmDown, connVars
<1>13. ASSUME NEW c \in Conns, Hang(c) PROVE UnheardInv'
  BY <1>13, <1>b DEF Hang, flagVars
<1>14. CASE UNCHANGED vars
  BY <1>14, <1>b DEF vars
<1> QED
  BY <1>1, <1>2, <1>3, <1>4, <1>5, <1>6, <1>7, <1>8, <1>9, <1>10, <1>11, <1>12,
     <1>13, <1>14
  DEF Next, System, Reconnecting, Returns, Application

\* Whatever the application calls from wherever, and whatever fails: a
\* connection that no longer reports to the client is on its way to be closed,
\* so that reconnecting never uses up sockets.
THEOREM UnheardCorrect == Spec => []UnheardIsClosing
<1>1. Init => UnheardInv
  BY DEF Init, UnheardInv, UnheardIsClosing, ErrorsFlagged, live
<1>2. TypeOK /\ UnheardInv /\ [Next]_vars => UnheardInv'
  BY UnheardStep
<1>3. UnheardInv => UnheardIsClosing
  BY DEF UnheardInv
<1> QED
  BY <1>1, <1>2, <1>3, TypeCorrect, PTL DEF Spec
-----------------------------------------------------------------------------
(***************************************************************************)
(* Who hears which connection: _nc, fn_data and _state agree.              *)
(*                                                                         *)
(* QuietErrors is needed for all four theorems at the end: with a          *)
(* connect() or loop() from onError, TLC finds each of them violated.      *)
(* A connect() that fails before mg_ws_connect() returns leaves _nc on a   *)
(* connection that is closing and reports to nobody.  That breaks          *)
(* AlwaysAwaited and NothingBreaks, which assume that there is none, and   *)
(* leaves OneHeard and ConnectedCorrect alone.                             *)
(***************************************************************************)
QuietErrors == ErrorCalls \intersect {"connect", "loop"} = {}
Careful == ~FailAtOnce /\ QuietErrors

(***************************************************************************)
(* With QuietErrors there is at most one handler on the stack, and above   *)
(* it, never above onError(), at most one attempt to connect.  A connect() *)
(* that fails at once puts an onError() on top of all that; base is what   *)
(* lies below it.                                                          *)
(***************************************************************************)
Failing(s) == s # << >> /\ Head(s).op = "error" /\ Tail(s) # << >>
Base(s) == IF Failing(s) THEN Tail(s) ELSE s
base == Base(stack)

Trying(s) == s # << >> /\ Head(s).op \in {"attempt", "attempted"}
Under(s) == IF Trying(s) THEN Tail(s) ELSE s
In(op, s) == Under(s) # << >> /\ Head(Under(s)).op = op
Shape(s) ==
    \/ Under(s) = << >>
    \/ /\ Tail(Under(s)) = << >> /\ Head(Under(s)).op \in Handlers
       /\ Trying(s) => ~In("error", s)

\* The connections that may report to the client although _nc does not point
\* at them: one that is being closed, and one that is being made.
Leaving(s) == IF In("close", s) \/ In("closed", s) THEN {Head(Under(s)).at} ELSE {}
Coming(s) == IF s # << >> /\ Head(s).op = "attempted" THEN {Head(s).at} ELSE {}

Down == {"DISCONNECTED", "ERROR_STATE"}

Owners ==
    /\ owned \subseteq ({nc} \ {None}) \union Leaving(base) \union Coming(base)
    /\ Leaving(base) \subseteq owned
    /\ owned \union Coming(base) \subseteq live
    /\ nc \notin Leaving(base)
    /\ Coming(base) \intersect Leaving(base) = {}
    /\ Trying(base) => nc = None
    /\ Failing(stack) => Head(stack).at \in Coming(base)
    /\ nc \notin owned \union {None} => state \in {"CONNECTING", "CLOSING"}

StateAgrees ==
    /\ In("close", base) => nc = None /\ state \notin Down /\ Coming(base) = {}
    /\ In("error", base) => nc = Head(stack).at
    /\ ~In("close", base) /\ ~In("error", base) /\ Coming(base) = {} /\ alive =>
           (nc = None <=> state \in Down)
    /\ state = "CONNECTED" /\ nc # None => phase[nc] = "open"

Gone == ~alive => nc = None /\ stack = << >>

\* What a connect() that fails at once takes away.
Sound ==
    ~FailAtOnce =>
        /\ ~Failing(stack) /\ ~broken
        /\ {nc} \ {None} \subseteq owned /\ Coming(base) \subseteq owned

OwnInv == Shape(base) /\ Owners /\ StateAgrees /\ Gone /\ Sound
-----------------------------------------------------------------------------
(* Stacks *)

LEMMA EmptyStack ==
    /\ Under(<< >>) = << >> /\ ~Trying(<< >>) /\ Shape(<< >>)
    /\ Leaving(<< >>) = {} /\ Coming(<< >>) = {}
    /\ ~Failing(<< >>) /\ Base(<< >>) = << >>
    /\ \A op : ~In(op, << >>)
BY DEF Under, Trying, Shape, Leaving, Coming, In, Failing, Base

LEMMA BaseIs ==
    ASSUME ~Failing(stack) PROVE base = stack
BY DEF base, Base

LEMMA TryingBase ==
    ASSUME NEW s, Trying(s) PROVE ~Failing(s) /\ Base(s) = s
BY DEF Trying, Failing, Base

LEMMA HandlerOnTop ==
    ASSUME NEW s \in Seq(Frame), s # << >>, Head(s).op \in Handlers
    PROVE  /\ Under(s) = s /\ ~Trying(s) /\ Coming(s) = {}
           /\ \A op : In(op, s) <=> Head(s).op = op
           /\ Leaving(s) = IF Head(s).op \in {"close", "closed"} THEN {Head(s).at}
                                                                 ELSE {}
           /\ Shape(s) <=> Tail(s) = << >>
           /\ Failing(s) <=> Head(s).op = "error" /\ Tail(s) # << >>
BY DEF Under, Trying, Shape, Leaving, Coming, In, Handlers, Failing

LEMMA OneHandler ==
    ASSUME NEW op \in Handlers, NEW c \in Conns \union {None}, NEW s,
           s = << At(op, c) >>
    PROVE  /\ ~Trying(s) /\ Coming(s) = {} /\ Shape(s) /\ ~Failing(s) /\ Base(s) = s
           /\ \A o : In(o, s) <=> op = o
           /\ Leaving(s) = IF op \in {"close", "closed"} THEN {c} ELSE {}
           /\ s # << >> /\ Head(s).at = c
<1>1. At(op, c) \in Frame /\ At(op, c).op = op /\ At(op, c).at = c
  BY AtType
<1>2. s \in Seq(Frame) /\ s # << >> /\ Head(s) = At(op, c) /\ Tail(s) = << >>
  BY <1>1, One
<1>3. ~Failing(s) /\ Base(s) = s
  BY <1>2 DEF Failing, Base
<1> QED
  BY <1>1, <1>2, <1>3, HandlerOnTop

LEMMA AttemptOnTop ==
    ASSUME NEW op \in {"attempt", "attempted"}, NEW c \in Conns \union {None},
           NEW s \in Seq(Frame), ~Trying(s), Shape(s), ~In("error", s), NEW t,
           t = Push(At(op, c), s)
    PROVE  /\ Trying(t) /\ Shape(t) /\ Leaving(t) = Leaving(s)
           /\ \A o : In(o, t) <=> In(o, s)
           /\ Coming(t) = IF op = "attempted" THEN {c} ELSE {}
           /\ t # << >> /\ ~Failing(t) /\ Base(t) = t
<1>1. At(op, c) \in Frame /\ At(op, c).op = op /\ At(op, c).at = c
  BY AtType
<1>2. t # << >> /\ Head(t) = At(op, c) /\ Tail(t) = s
  BY <1>1, PushPop
<1>3. Trying(t) /\ Under(t) = s /\ Under(s) = s
  BY <1>1, <1>2 DEF Trying, Under
<1> QED
  BY <1>1, <1>2, <1>3, TryingBase DEF Shape, Leaving, Coming, In

LEMMA AttemptOff ==
    ASSUME NEW s \in Seq(Frame), Trying(s), Shape(s), NEW t, t = Tail(s)
    PROVE  /\ t \in Seq(Frame) /\ ~Trying(t) /\ Shape(t) /\ Leaving(t) = Leaving(s)
           /\ \A o : In(o, t) <=> In(o, s)
           /\ Coming(t) = {} /\ ~In("error", t) /\ ~Failing(t) /\ Base(t) = t
<1>1. s # << >> /\ Under(s) = t /\ t \in Seq(Frame)
  BY PopType DEF Trying, Under
<1>2. t # << >> => Tail(t) = << >> /\ Head(t).op \in Handlers /\ ~In("error", s)
  BY <1>1 DEF Shape
<1>3. ~Trying(t) /\ Under(t) = t /\ Coming(t) = {}
  BY <1>1, <1>2 DEF Trying, Under, Coming, Handlers
<1>4. In("error", s) <=> In("error", t)
  BY <1>1, <1>3 DEF In
<1>5. ~Failing(t) /\ Base(t) = t
  BY <1>2 DEF Failing, Base
<1> QED
  BY <1>1, <1>2, <1>3, <1>4, <1>5 DEF Shape, Leaving, In

\* mg_ws_connect() makes a connection, and the attempt goes on with it.
LEMMA AttemptGoesOn ==
    ASSUME NEW c \in Conns, NEW s \in Seq(Frame), Trying(s), Shape(s), NEW t,
           t = Push(At("attempted", c), Tail(s))
    PROVE  /\ Tail(s) \in Seq(Frame)
           /\ Trying(t) /\ Shape(t) /\ Leaving(t) = Leaving(s)
           /\ \A o : In(o, t) <=> In(o, s)
           /\ Coming(t) = {c} /\ ~In("error", t) /\ t # << >>
           /\ ~Failing(t) /\ Base(t) = t
<1>1. PICK r : r = Tail(s)
  OBVIOUS
<1>2. /\ r \in Seq(Frame) /\ ~Trying(r) /\ Shape(r) /\ Leaving(r) = Leaving(s)
      /\ \A o : In(o, r) <=> In(o, s)
      /\ ~In("error", r)
  BY <1>1, AttemptOff
<1>3. t = Push(At("attempted", c), r)
  BY <1>1
<1>4. /\ Trying(t) /\ Shape(t) /\ Leaving(t) = Leaving(r)
      /\ \A o : In(o, t) <=> In(o, r)
      /\ Coming(t) = {c} /\ t # << >> /\ ~Failing(t) /\ Base(t) = t
  BY <1>2, <1>3, AttemptOnTop
<1> QED
  BY <1>1, <1>2, <1>4

\* The onError() of a connect() that fails at once.
LEMMA ErrorOnTop ==
    ASSUME NEW c \in Conns, NEW s \in Seq(Frame), NEW t, NEW r,
           r = Push(At("attempted", c), s),
           t = << At("error", c), At("attempted", c) >> \o s
    PROVE  Failing(t) /\ Base(t) = r /\ Head(t).at = c
<1>1. /\ At("error", c) \in Frame /\ At("error", c).op = "error"
      /\ At("error", c).at = c /\ At("attempted", c) \in Frame
  BY AtType DEF Handlers
<1>2. r \in Seq(Frame) /\ r # << >> /\ t = Push(At("error", c), r)
  BY <1>1, PushPop DEF Push
<1>3. /\ Push(At("error", c), r) # << >> /\ Tail(Push(At("error", c), r)) = r
      /\ Head(Push(At("error", c), r)) = At("error", c)
  BY <1>1, <1>2, PushPop
<1> QED
  BY <1>1, <1>2, <1>3 DEF Failing, Base

LEMMA SameConns ==
    ASSUME UNCHANGED phase PROVE live' = live
BY DEF live

\* While onError() tells of a connect() that has failed at once, the attempt
\* goes on below it, and there is no _nc that a call could use.
LEMMA WhenFailing ==
    ASSUME OwnInv, Failing(stack)
    PROVE  /\ base = Tail(stack) /\ Trying(base) /\ Base(base) = base
           /\ Coming(base) = {Top.at} /\ nc = None /\ FailAtOnce /\ alive
<1>1. base = Tail(stack) /\ Head(stack).at \in Coming(base)
  BY DEF OwnInv, Owners, base, Base
<1>2. Trying(base) /\ Coming(base) = {Head(stack).at}
  BY <1>1 DEF Coming, Trying
<1> QED
  BY <1>1, <1>2, TryingBase DEF OwnInv, Owners, Sound, Gone, Failing, Top

\* Steps that touch neither the stack nor who owns what.
LEMMA OwnStays ==
    ASSUME OwnInv, UNCHANGED <<alive, nc, owned, stack, phase>>,
           broken' = broken \/ Dangling,
           state' = state \/ (nc # None /\ state' \in {"CONNECTING", "CLOSING"})
    PROVE  OwnInv'
<1>1. live' = live /\ base' = base
  BY SameConns DEF base
<1>2. state' # state => nc # None /\ state' \notin Down /\ state' # "CONNECTED"
                        /\ ~In("close", base)
  BY DEF OwnInv, StateAgrees, Down
<1>3. Shape(base)' /\ Owners'
  BY <1>1 DEF OwnInv, Owners
<1>4. StateAgrees' /\ Gone'
  BY <1>1, <1>2 DEF OwnInv, StateAgrees, Gone
<1>5. Dangling => FailAtOnce
  BY DEF OwnInv, Owners, Sound, Dangling, free
<1>6. Sound'
  BY <1>1, <1>5 DEF OwnInv, Sound
<1> QED
  BY <1>3, <1>4, <1>6 DEF OwnInv

\* Between callbacks the client hears _nc or nothing.
LEMMA OwnAtRest ==
    ASSUME OwnInv, stack = << >>
    PROVE  owned \subseteq {nc} \ {None} /\ owned \subseteq live /\ base = stack
<1>1. base = stack /\ Leaving(base) = {} /\ Coming(base) = {}
  BY EmptyStack, BaseIs
<1> QED
  BY <1>1 DEF OwnInv, Owners
-----------------------------------------------------------------------------
(* Reconnecting *)

LEMMA OwnReconnecting ==
    ASSUME TypeOK, OwnInv, Reconnecting
    PROVE  OwnInv'
<1> USE DEF TypeOK
<1>a. stack \in Seq(Frame)
  OBVIOUS
<1>b. ASSUME TopIs("attempt") \/ TopIs("attempted")
      PROVE  Trying(stack) /\ stack # << >> /\ nc = None /\ alive /\ Shape(stack)
             /\ ~In("error", stack) /\ base = stack
  <2>1. Trying(stack) /\ stack # << >>
    BY <1>b DEF TopIs, Top, Trying
  <2>2. base = stack
    BY <2>1, TryingBase DEF base
  <2>3. nc = None /\ alive /\ Shape(stack)
    BY <2>1, <2>2 DEF OwnInv, Owners, Gone, TypeOK, ClientOK
  <2>4. ~In("error", stack)
    BY <2>1, <2>3 DEF Shape, In
  <2> QED
    BY <2>1, <2>2, <2>3, <2>4
<1>1. CASE AttemptTooSoon
  <2>1. Coming(stack) = {} /\ stack' = Tail(stack) /\ Trying(stack) /\ Shape(stack)
        /\ base = stack
    BY <1>1, <1>b DEF AttemptTooSoon, Coming, TopIs, Top
  <2>2. /\ ~Trying(stack') /\ Shape(stack') /\ Leaving(stack') = Leaving(stack)
        /\ \A o : In(o, stack') <=> In(o, stack)
        /\ Coming(stack') = {} /\ ~In("error", stack')
        /\ ~Failing(stack') /\ Base(stack') = stack'
    BY <2>1, <1>a, AttemptOff
  <2>3. live' = live /\ UNCHANGED <<alive, state, nc, owned, phase, broken>> /\ alive
    BY <1>1, <1>b, SameConns DEF AttemptTooSoon, clientVars, connVars, modeVars
  <2>4. base' = stack'
    BY <2>2 DEF base
  <2>5. Shape(base)' /\ Owners'
    BY <2>1, <2>2, <2>3, <2>4 DEF OwnInv, Owners
  <2>6. StateAgrees' /\ Gone' /\ Sound'
    BY <2>1, <2>2, <2>3, <2>4 DEF OwnInv, StateAgrees, Gone, Sound
  <2> QED
    BY <2>5, <2>6 DEF OwnInv
<1>2. CASE AttemptGetsNone
  <2>1. Coming(stack) = {} /\ stack' = Tail(stack) /\ Trying(stack) /\ Shape(stack)
        /\ base = stack
    BY <1>2, <1>b DEF AttemptGetsNone, Coming, TopIs, Top
  <2>2. /\ ~Trying(stack') /\ Shape(stack') /\ Leaving(stack') = Leaving(stack)
        /\ \A o : In(o, stack') <=> In(o, stack)
        /\ Coming(stack') = {} /\ ~In("error", stack')
        /\ ~Failing(stack') /\ Base(stack') = stack'
    BY <2>1, <1>a, AttemptOff
  <2>3. live' = live /\ UNCHANGED <<alive, nc, owned, phase, broken>> /\ alive
        /\ nc = None /\ state \in Down /\ state' \in Down /\ state' # "CONNECTED"
    BY <1>2, <1>b, SameConns
    DEF AttemptGetsNone, connVars, modeVars, Down, MayAttempt
  <2>4. base' = stack' /\ ~In("close", stack)
    BY <2>1, <2>2, <2>3 DEF OwnInv, StateAgrees, base
  <2>5. Shape(base)' /\ Owners'
    BY <2>1, <2>2, <2>3, <2>4 DEF OwnInv, Owners
  <2>6. StateAgrees' /\ Gone' /\ Sound'
    BY <2>1, <2>2, <2>3, <2>4 DEF OwnInv, StateAgrees, Gone, Sound
  <2> QED
    BY <2>5, <2>6 DEF OwnInv
<1>3. CASE Attempted
  <2> DEFINE c == Top.at
  <2>1. /\ Coming(stack) = {c} /\ stack' = Tail(stack) /\ Trying(stack)
        /\ Shape(stack) /\ nc = None /\ alive /\ base = stack
    BY <1>3, <1>b DEF Attempted, Coming, TopIs, Top
  <2>2. /\ ~Trying(stack') /\ Shape(stack') /\ Leaving(stack') = Leaving(stack)
        /\ \A o : In(o, stack') <=> In(o, stack)
        /\ Coming(stack') = {} /\ ~In("error", stack')
        /\ ~Failing(stack') /\ Base(stack') = stack'
    BY <2>1, <1>a, AttemptOff
  <2>3. live' = live /\ UNCHANGED <<alive, owned, phase, broken>> /\ nc' = c
        /\ state' = "CONNECTING"
    BY <1>3, <2>1, SameConns DEF Attempted, connVars, modeVars, connected
  <2>4. c \in live /\ c # None /\ base' = stack'
    BY <2>1, <2>2, ConnsAssumption DEF OwnInv, Owners, live, base
  <2>5. ~In("close", stack)
    BY <2>1 DEF OwnInv, StateAgrees
  <2>6. /\ owned \subseteq Leaving(stack) \union {c} /\ c \notin Leaving(stack)
        /\ Leaving(stack) \subseteq owned /\ owned \subseteq live
        /\ ~FailAtOnce => c \in owned
    BY <2>1 DEF OwnInv, Owners, Sound
  <2>7. Shape(base)' /\ Owners'
    BY <2>2, <2>3, <2>4, <2>6 DEF Owners
  <2>8. StateAgrees' /\ Gone'
    BY <2>1, <2>2, <2>3, <2>4, <2>5 DEF StateAgrees, Gone, Down
  <2>9. Sound'
    BY <2>2, <2>3, <2>4, <2>6 DEF OwnInv, Sound
  <2> QED
    BY <2>7, <2>8, <2>9 DEF OwnInv
<1>c. ASSUME NEW c \in Conns, NEW ph, TopIs("attempt"), MayAttempt, c \in free,
             NewConn(c, ph), ph # "free"
      PROVE  /\ nc = None /\ alive /\ base = stack /\ state \in Down
             /\ live' = live \union {c} /\ owned' = owned \union {c}
             /\ owned = Leaving(stack) /\ owned \subseteq live
             /\ c \notin Leaving(stack) /\ ~In("close", stack)
  <2>1. Coming(stack) = {}
    BY <1>c DEF Coming, TopIs, Top
  <2>2. live' = live \union {c} /\ owned' = owned \union {c} /\ c \notin live
    BY <1>c DEF NewConn, live, ConnsOK, free
  <2>3. state \in Down
    BY <1>c DEF MayAttempt, Down
  <2> QED
    BY <1>b, <1>c, <2>1, <2>2, <2>3 DEF OwnInv, Owners, StateAgrees
<1>4. ASSUME NEW c \in Conns, NEW ph \in {"connecting", "handshake"},
             AttemptStarts(c, ph)
      PROVE  OwnInv'
  <2>1. stack' = Push(At("attempted", c), Tail(stack)) /\ TopIs("attempt")
        /\ UNCHANGED <<alive, nc, broken>> /\ state' # "CONNECTED"
    BY <1>4 DEF AttemptStarts, modeVars, MayAttempt
  <2>2. /\ Trying(stack') /\ Shape(stack') /\ Leaving(stack') = Leaving(stack)
        /\ \A o : In(o, stack') <=> In(o, stack)
        /\ Coming(stack') = {c} /\ ~In("error", stack') /\ stack' # << >>
        /\ ~Failing(stack') /\ Base(stack') = stack'
    BY <2>1, <1>a, <1>b, AttemptGoesOn
  <2>3. /\ nc = None /\ alive /\ base = stack
        /\ live' = live \union {c} /\ owned' = owned \union {c}
        /\ owned = Leaving(stack) /\ owned \subseteq live
        /\ c \notin Leaving(stack) /\ ~In("close", stack)
    BY <1>4, <1>c DEF AttemptStarts
  <2>4. base' = stack'
    BY <2>2 DEF base
  <2>5. None \notin Leaving(stack)
    BY <2>3, ConnsAssumption DEF live
  <2>6. Shape(base)' /\ Owners'
    BY <2>1, <2>2, <2>3, <2>4, <2>5 DEF Owners
  <2>7. StateAgrees' /\ Gone' /\ Sound'
    BY <2>1, <2>2, <2>3, <2>4 DEF OwnInv, StateAgrees, Gone, Sound
  <2> QED
    BY <2>6, <2>7 DEF OwnInv
<1>5. ASSUME NEW c \in Conns, AttemptFails(c) PROVE OwnInv'
  <2>1. PICK t : t = Push(At("attempted", c), Tail(stack))
    OBVIOUS
  <2>2. /\ stack' = << At("error", c), At("attempted", c) >> \o Tail(stack)
        /\ TopIs("attempt") /\ UNCHANGED <<alive, nc>> /\ state' = "ERROR_STATE"
        /\ FailAtOnce
    BY <1>5 DEF AttemptFails
  <2>3. /\ Trying(t) /\ Shape(t) /\ Leaving(t) = Leaving(stack)
        /\ \A o : In(o, t) <=> In(o, stack)
        /\ Coming(t) = {c} /\ ~In("error", t) /\ Tail(stack) \in Seq(Frame)
    BY <2>1, <2>2, <1>a, <1>b, AttemptGoesOn
  <2>4. /\ nc = None /\ alive /\ base = stack
        /\ live' = live \union {c} /\ owned' = owned \union {c}
        /\ owned = Leaving(stack) /\ owned \subseteq live
        /\ c \notin Leaving(stack) /\ ~In("close", stack)
    BY <1>5, <1>c DEF AttemptFails
  <2>5. Failing(stack') /\ base' = t /\ Head(stack').at = c
    BY <2>1, <2>2, <2>3, ErrorOnTop DEF base
  <2>6. None \notin Leaving(stack)
    BY <2>4, ConnsAssumption DEF live
  <2>7. Shape(base)' /\ Owners'
    BY <2>2, <2>3, <2>4, <2>5, <2>6 DEF Owners
  <2>8. StateAgrees' /\ Gone' /\ Sound'
    BY <2>2, <2>3, <2>4, <2>5 DEF OwnInv, StateAgrees, Gone, Sound
  <2> QED
    BY <2>7, <2>8 DEF OwnInv
<1> QED
  BY <1>1, <1>2, <1>3, <1>4, <1>5 DEF Reconnecting
-----------------------------------------------------------------------------
(* Calls *)

\* connect() and loop() leave the stack alone or start an attempt on it.
LEMMA OwnAttempt ==
    ASSUME TypeOK, OwnInv, ~Trying(stack), ~Failing(stack), ~In("error", stack),
           nc' = None, owned' = owned \ {nc}, alive,
           UNCHANGED <<alive, phase, broken>>,
           state' \in Down \/ (In("close", stack) /\ state' = state),
           In("close", stack) => state' = state,
           stack' = Push(At("attempt", None), stack)
    PROVE  OwnInv'
<1>0. base = stack
  BY BaseIs
<1>1. /\ Trying(stack') /\ Shape(stack') /\ Leaving(stack') = Leaving(stack)
      /\ \A o : In(o, stack') <=> In(o, stack)
      /\ Coming(stack') = {} /\ stack' # << >>
      /\ ~Failing(stack') /\ Base(stack') = stack'
  BY <1>0, AttemptOnTop DEF TypeOK, OwnInv
<1>2. Coming(stack) = {} /\ live' = live /\ base' = stack'
  BY <1>1, SameConns DEF Coming, Trying, base
<1>3. None \notin Leaving(stack)
  BY <1>0, ConnsAssumption DEF OwnInv, Owners, live
<1>4. Shape(base)' /\ Owners'
  BY <1>0, <1>1, <1>2, <1>3 DEF OwnInv, Owners
<1>5. StateAgrees' /\ Gone' /\ Sound'
  BY <1>0, <1>1, <1>2 DEF OwnInv, StateAgrees, Gone, Sound
<1> QED
  BY <1>4, <1>5 DEF OwnInv

\* Who may call: the sketch between rounds, or a handler on top of the stack.
LEMMA Callers ==
    ASSUME QuietErrors, TypeOK, OwnInv, NEW op, May(op)
    PROVE  /\ ~Trying(stack) /\ alive
           /\ op \in {"connect", "loop"} => ~In("error", stack) /\ ~Failing(stack)
           /\ op = "delete" => stack = << >>
<1>1. CASE stack = << >>
  BY <1>1, EmptyStack DEF May
<1>2. CASE stack # << >>
  <2>1. Top.op \in Handlers /\ alive
        /\ \/ Top.op = "error" /\ op \in ErrorCalls
           \/ Top.op # "error" /\ op \in HandlerCalls
    BY <1>2 DEF May, Sketch, Idle, TopIs, Handlers
  <2>2. ~Trying(stack) /\ (In("error", stack) <=> Top.op = "error")
        /\ (Failing(stack) => Top.op = "error")
    BY <1>2, <2>1, HandlerOnTop DEF TypeOK, Top
  <2> QED
    BY <2>1, <2>2, CallsAssumption DEF QuietErrors
<1> QED
  BY <1>1, <1>2

LEMMA OwnApplication ==
    ASSUME QuietErrors, TypeOK, OwnInv, Application
    PROVE  OwnInv'
<1>1. CASE Connect
  <2>1. ~Trying(stack) /\ alive /\ ~In("error", stack) /\ ~Failing(stack)
    BY <1>1, Callers DEF Connect, Call
  <2>2. Coming(stack) = {} /\ base = stack
    BY <2>1, BaseIs DEF Coming, Trying
  <2>3. nc = None => state \in Down \/ In("close", stack)
    BY <2>1, <2>2 DEF OwnInv, StateAgrees
  <2>4. In("close", stack) => nc = None
    BY <2>2 DEF OwnInv, StateAgrees
  <2>5. state' = IF nc # None THEN "DISCONNECTED" ELSE state
    BY <1>1 DEF Connect
  <2>6. /\ state' \in Down \/ (In("close", stack) /\ state' = state)
        /\ In("close", stack) => state' = state
    BY <2>3, <2>4, <2>5 DEF Down
  <2>7. nc' = None /\ owned' = owned \ {nc} /\ UNCHANGED <<alive, phase, broken>>
        /\ stack' = Push(At("attempt", None), stack)
    BY <1>1 DEF Connect, Call
  <2> QED
    BY <2>1, <2>6, <2>7, OwnAttempt
<1>2. CASE LoopInHandler
  <2>1. ~Trying(stack) /\ alive /\ ~In("error", stack) /\ ~Failing(stack)
    BY <1>2, Callers DEF LoopInHandler, Call
  <2>2. UNCHANGED <<alive, state, nc, owned, phase, broken>>
    BY <1>2 DEF LoopInHandler, DoLoop, Call, clientVars, connVars
  <2>3. CASE UNCHANGED stack
    BY <2>2, <2>3, OwnStays
  <2>4. CASE /\ state \in Down
             /\ stack' = Push(At("attempt", None), stack)
    <3>1. Coming(stack) = {} /\ base = stack
      BY <2>1, BaseIs DEF Coming, Trying
    <3>2. nc = None
      BY <2>1, <2>4, <3>1 DEF OwnInv, StateAgrees
    <3>3. None \notin owned
      BY ConnsAssumption DEF OwnInv, Owners, live
    <3> QED
      BY <2>1, <2>2, <2>4, <3>2, <3>3, OwnAttempt
  <2> QED
    BY <1>2, <2>3, <2>4 DEF LoopInHandler, DoLoop, Down
<1>3. CASE Disconnect
  BY <1>3, OwnStays DEF Disconnect, Call
<1>4. CASE Send
  BY <1>4, OwnStays DEF Send, Call, clientVars
<1>5. CASE Delete
  <2>1. stack = << >>
    BY <1>5, Callers DEF Delete, Call
  <2>2. owned' = {} /\ nc' = None /\ alive' = FALSE /\ UNCHANGED <<phase, stack, broken>>
    BY <1>5, <2>1, OwnAtRest DEF Delete, Call
  <2>3. base = stack /\ base' = stack /\ live' = live
    BY <2>1, <2>2, EmptyStack, BaseIs, SameConns DEF base
  <2>4. Shape(base)' /\ Owners'
    BY <2>1, <2>2, <2>3, EmptyStack, ConnsAssumption DEF Owners
  <2>5. StateAgrees' /\ Gone' /\ Sound'
    BY <2>1, <2>2, <2>3, EmptyStack DEF OwnInv, StateAgrees, Gone, Sound
  <2> QED
    BY <2>4, <2>5 DEF OwnInv
<1>6. CASE UseDangling
  BY <1>6, OwnStays DEF UseDangling, clientVars, connVars
<1> QED
  BY <1>1, <1>2, <1>3, <1>4, <1>5, <1>6 DEF Application

LEMMA OwnLoop ==
    ASSUME TypeOK, OwnInv, Loop
    PROVE  OwnInv'
<1>1. stack = << >> /\ alive /\ UNCHANGED <<alive, state, nc, owned, phase, broken>>
  BY DEF Loop, Idle, DoLoop, clientVars, connVars, modeVars
<1>2. ~Trying(stack) /\ ~In("error", stack) /\ ~In("close", stack) /\ Coming(stack) = {}
      /\ ~Failing(stack) /\ base = stack
  BY <1>1, EmptyStack, BaseIs
<1>3. CASE UNCHANGED stack
  BY <1>1, <1>3, OwnStays
<1>4. CASE state \in Down /\ stack' = Push(At("attempt", None), stack)
  <2>1. nc = None
    BY <1>1, <1>2, <1>4 DEF OwnInv, StateAgrees
  <2>2. None \notin owned
    BY ConnsAssumption DEF OwnInv, Owners, live
  <2> QED
    BY <1>1, <1>2, <1>4, <2>1, <2>2, OwnAttempt
<1> QED
  BY <1>3, <1>4 DEF Loop, DoLoop, Down
-----------------------------------------------------------------------------
(* The event loop and the returns from handlers *)

\* An event of the connection that _nc points at opens a handler.
LEMMA OwnEvent ==
    ASSUME TypeOK, OwnInv, stack = << >>, NEW c \in owned,
           NEW op \in {"error", "open", "message"}, stack' = << At(op, c) >>,
           UNCHANGED <<alive, nc, owned, broken>>, live' = live,
           op # "error" /\ alive => (nc = None <=> state' \in Down),
           state' = "CONNECTED" => phase'[c] = "open"
    PROVE  OwnInv'
<1>1. c \in Conns /\ c # None /\ nc = c /\ owned = {c} /\ alive /\ c \in live
  <2>1. owned \subseteq {nc} \ {None} /\ owned \subseteq live
    BY OwnAtRest
  <2> QED
    BY <2>1, ConnsAssumption DEF OwnInv, Gone, live, TypeOK, ClientOK
<1>2. /\ ~Trying(stack') /\ Coming(stack') = {} /\ Shape(stack')
      /\ ~Failing(stack') /\ Base(stack') = stack'
      /\ \A o : In(o, stack') <=> op = o
      /\ Leaving(stack') = {}
      /\ stack' # << >> /\ Head(stack').at = c
  BY <1>1, OneHandler DEF Handlers
<1>3. base' = stack'
  BY <1>2 DEF base
<1>4. Shape(base)' /\ Owners'
  BY <1>1, <1>2, <1>3 DEF Owners
<1>5. StateAgrees' /\ Gone'
  BY <1>1, <1>2, <1>3 DEF StateAgrees, Gone
<1>6. Sound'
  BY <1>1, <1>2, <1>3 DEF OwnInv, Sound
<1> QED
  BY <1>4, <1>5, <1>6 DEF OwnInv

LEMMA OwnPoll ==
    ASSUME TypeOK, OwnInv, NEW c \in Conns, Poll(c)
    PROVE  OwnInv'
<1>a. ASSUME stack = << >>, c \in owned
      PROVE  nc = c /\ c # None /\ alive /\ owned = {c} /\ c \in live /\ base = stack
             /\ (nc = None <=> state \in Down) /\ state \notin Down
  <2>1. owned \subseteq {nc} \ {None} /\ owned \subseteq live /\ base = stack
    BY <1>a, OwnAtRest
  <2>2. nc = c /\ c # None /\ alive
    BY <1>a, <2>1 DEF OwnInv, Gone, TypeOK, ClientOK
  <2> QED
    BY <1>a, <2>1, <2>2, EmptyStack DEF OwnInv, StateAgrees
<1>b. ASSUME Reads(c) PROVE stack = << >> /\ c \in owned
  BY <1>b DEF Reads, Ready
<1>1. CASE Visit(c)
  <2>1. stack = << >> /\ UNCHANGED <<alive, nc, owned, stack, phase, broken>>
        /\ (state' = state \/ (nc # None /\ state' = "CLOSING"))
    BY <1>1 DEF Visit, OnPoll, Idle, modeVars
  <2> QED
    BY <2>1, OwnStays
<1>2. CASE VisitBreaks(c)
  <2>1. Dangling
    BY <1>2, <1>a DEF VisitBreaks, Idle
  <2> QED
    BY <1>2, <2>1, OwnStays DEF VisitBreaks, clientVars, connVars
<1>3. CASE Connects(c)
  <2>1. stack = << >> /\ nc = c /\ c # None /\ c \in owned /\ live' = live
        /\ UNCHANGED <<alive, nc, owned, stack, broken>> /\ state' = "CONNECTING"
    BY <1>3, <1>a, <1>b DEF Connects, live, TypeOK, ConnsOK, flagVars, modeVars
  <2>2. ~Trying(stack) /\ Coming(stack) = {} /\ \A o : ~In(o, stack)
    BY <2>1, EmptyStack
  <2>3. base = stack /\ base' = stack
    BY <2>1, EmptyStack, BaseIs DEF base
  <2>4. Shape(base)' /\ Owners'
    BY <2>1, <2>3 DEF OwnInv, Owners
  <2>5. StateAgrees' /\ Gone' /\ Sound'
    BY <2>1, <2>2, <2>3 DEF OwnInv, StateAgrees, Gone, Sound, Down
  <2> QED
    BY <2>4, <2>5 DEF OwnInv
<1>4. CASE ConnectFails(c) \/ HandshakeFails(c) \/ UnknownOpcode(c)
  <2>1. MgError(c)
    BY <1>4 DEF ConnectFails, HandshakeFails, UnknownOpcode
  <2>2. UNCHANGED <<alive, nc, owned, broken, phase>> /\ state' = "ERROR_STATE"
        /\ stack' = << At("error", c) >>
    BY <2>1 DEF MgError, modeVars
  <2> QED
    BY <2>1, <2>2, <1>b, OwnEvent, SameConns DEF MgError
<1>5. CASE HandshakeSucceeds(c)
  <2>1. live' = live /\ phase'[c] = "open"
    BY <1>5 DEF HandshakeSucceeds, Answered, live, TypeOK, ConnsOK
  <2>2. UNCHANGED <<alive, nc, owned, broken>> /\ state' = "CONNECTED"
        /\ stack' = << At("open", c) >>
    BY <1>5 DEF HandshakeSucceeds, modeVars, flagVars
  <2> QED
    BY <1>5, <2>1, <2>2, <1>a, <1>b, OwnEvent DEF HandshakeSucceeds, Down
<1>6. CASE PeerCloses(c)
  BY <1>6, OwnStays DEF PeerCloses, clientVars, modeVars
<1>7. CASE Message(c)
  <2>1. UNCHANGED <<alive, nc, owned, broken, phase, state>> /\ stack' = << At("message", c) >>
        /\ phase[c] = "open" /\ Reads(c)
    BY <1>7 DEF Message, Receives
  <2> QED
    BY <2>1, <1>a, <1>b, OwnEvent, SameConns
<1>8. CASE Pong(c)
  BY <1>8, OwnStays DEF Pong, Receives
<1>9. CASE Ping(c)
  <2>1. nc # None /\ ~Dangling
    BY <1>9, <1>a, <1>b DEF Ping, Receives, Dangling, free
  <2> QED
    BY <1>9, <2>1, OwnStays DEF Ping, Receives
<1>10. CASE CloseFrame(c)
  BY <1>10, <1>a, <1>b, OwnStays DEF CloseFrame, Receives
<1>11. CASE Stays(c)
  BY <1>11, OwnStays DEF Stays, clientVars, modeVars
<1>12. CASE CloseConn(c) /\ c \in owned
  <2>1. /\ stack = << >> /\ nc' = None /\ stack' = << At("close", c) >>
        /\ UNCHANGED <<alive, owned, state, phase, broken>>
        /\ state \notin Down /\ c # None /\ alive /\ nc = c
        /\ owned = {c} /\ c \in live /\ base = stack
    BY <1>12, <1>a DEF CloseConn, EndsVisit, modeVars
  <2>2. /\ ~Trying(stack') /\ Coming(stack') = {} /\ Shape(stack')
        /\ ~Failing(stack') /\ Base(stack') = stack'
        /\ \A o : In(o, stack') <=> "close" = o
        /\ Leaving(stack') = {c}
    BY <2>1, OneHandler DEF Handlers
  <2>3. live' = live /\ base' = stack'
    BY <2>1, <2>2, SameConns DEF base
  <2>4. Shape(base)' /\ Owners'
    BY <2>1, <2>2, <2>3 DEF Owners
  <2>5. StateAgrees' /\ Gone'
    BY <2>1, <2>2, <2>3 DEF StateAgrees, Gone
  <2>6. Sound'
    BY <2>1, <2>2, <2>3 DEF OwnInv, Sound
  <2> QED
    BY <2>4, <2>5, <2>6 DEF OwnInv
<1>13. CASE CloseConn(c) /\ c \notin owned
  <2>1. /\ stack = << >> /\ Forget(c)
        /\ UNCHANGED <<nc, stack, alive, state, broken>>
    BY <1>13 DEF CloseConn, EndsVisit, modeVars
  <2>2. live' = live \ {c} /\ owned' = owned
    BY <1>13, <2>1 DEF Forget, live, TypeOK, ConnsOK
  <2>3. state = "CONNECTED" /\ nc # None => nc # c
    BY <1>13 DEF OwnInv, Owners
  <2>4. nc # None /\ nc # c => phase'[nc] = phase[nc]
    BY <2>1 DEF Forget, TypeOK, ConnsOK, ClientOK
  <2>5. base = stack /\ base' = stack /\ Coming(stack) = {}
    BY <2>1, EmptyStack, BaseIs DEF base
  <2>6. Shape(base)' /\ Owners'
    BY <1>13, <2>1, <2>2, <2>5 DEF OwnInv, Owners
  <2>7. StateAgrees' /\ Gone'
    BY <2>1, <2>3, <2>4, <2>5 DEF OwnInv, StateAgrees, Gone
  <2>8. Sound'
    BY <2>1, <2>2, <2>5 DEF OwnInv, Sound
  <2> QED
    BY <2>6, <2>7, <2>8 DEF OwnInv
<1> QED
  BY <1>1, <1>2, <1>3, <1>4, <1>5, <1>6, <1>7, <1>8, <1>9, <1>10, <1>11, <1>12, <1>13
  DEF Poll, ConnectEnds, HandshakeEnds, Traffic

LEMMA OwnReturns ==
    ASSUME TypeOK, OwnInv, Returns
    PROVE  OwnInv'
<1>a. ASSUME TopIs("error") \/ TopIs("close") \/ TopIs("closed") \/ TopIs("open")
             \/ TopIs("message"),
             ~Failing(stack)
      PROVE  /\ ~Trying(stack) /\ Coming(stack) = {} /\ Tail(stack) = << >>
             /\ \A o : In(o, stack) <=> Top.op = o
             /\ Leaving(stack) = IF Top.op \in {"close", "closed"} THEN {Top.at} ELSE {}
             /\ alive /\ base = stack
  <2>1. stack # << >> /\ Head(stack).op \in Handlers /\ Top = Head(stack)
    BY <1>a DEF TopIs, Top, Handlers
  <2>2. base = stack
    BY <1>a, BaseIs
  <2> QED
    BY <2>1, <2>2, HandlerOnTop DEF OwnInv, Gone, TypeOK, ClientOK
<1>b. ASSUME TopIs("close") \/ TopIs("closed") \/ TopIs("open") \/ TopIs("message")
      PROVE  ~Failing(stack)
  BY <1>b DEF TopIs, Top, Failing
<1>c. ASSUME stack' = << >> PROVE base' = << >> /\ ~Failing(stack')
  BY <1>c, EmptyStack DEF base
<1>1. CASE ErrorReturns /\ ~Failing(stack)
  <2>1. /\ Coming(stack) = {} /\ stack' = << >> /\ Leaving(stack) = {}
        /\ nc = Top.at /\ alive /\ base = stack
    BY <1>1, <1>a DEF ErrorReturns, TopIs, Top, OwnInv, StateAgrees
  <2>2. /\ owned' = owned \ {nc} /\ nc' = None /\ state' = "DISCONNECTED"
        /\ UNCHANGED <<alive, phase, broken>> /\ live' = live
    BY <1>1, <2>1, SameConns DEF ErrorReturns, cleanupConnection, modeVars
  <2>3. owned' = {}
    BY <2>1, <2>2 DEF OwnInv, Owners
  <2>4. Shape(base)' /\ Owners'
    BY <2>1, <2>2, <2>3, <1>c, EmptyStack, ConnsAssumption DEF Owners
  <2>5. StateAgrees' /\ Gone' /\ Sound'
    BY <2>1, <2>2, <1>c, EmptyStack DEF OwnInv, StateAgrees, Gone, Sound, Down
  <2> QED
    BY <2>4, <2>5 DEF OwnInv
<1>2. CASE ErrorReturns /\ Failing(stack)
  <2> DEFINE c == Top.at
  <2>1. /\ base = Tail(stack) /\ Trying(base) /\ Base(base) = base
        /\ Coming(base) = {c} /\ nc = None /\ FailAtOnce /\ alive
    BY <1>2, WhenFailing
  <2>2. /\ stack' = base /\ owned' = owned \ {c} /\ nc' = None
        /\ state' = "DISCONNECTED" /\ UNCHANGED <<alive, phase>> /\ live' = live
    BY <1>2, <2>1, SameConns DEF ErrorReturns, cleanupConnection
  <2>3. base' = base /\ ~Failing(stack')
    BY <2>1, <2>2, TryingBase DEF base
  <2>4. c \notin Leaving(base) /\ ~In("close", base) /\ ~In("error", base)
    BY <2>1 DEF OwnInv, Owners, StateAgrees, Shape, In
  <2>5. Shape(base)' /\ Owners'
    BY <2>1, <2>2, <2>3, <2>4 DEF OwnInv, Owners
  <2>6. StateAgrees' /\ Gone' /\ Sound'
    BY <2>1, <2>2, <2>3, <2>4 DEF StateAgrees, Gone, Sound
  <2> QED
    BY <2>5, <2>6 DEF OwnInv
<1>3. CASE CloseReturns
  <2> DEFINE c == Top.at
  <2>1. /\ Coming(stack) = {} /\ Tail(stack) = << >> /\ Leaving(stack) = {c} /\ alive
        /\ nc = None /\ base = stack
    BY <1>3, <1>a, <1>b DEF CloseReturns, TopIs, OwnInv, StateAgrees
  <2>2. c \in live /\ owned = {c} /\ c \in Conns /\ c # None
    BY <2>1, ConnsAssumption DEF OwnInv, Owners, live
  <2>3. stack' = << At("closed", c) >>
    <3>1. At("closed", c) \in Frame
      BY <2>2, AtType DEF Handlers
    <3>2. Push(At("closed", c), << >>) = << At("closed", c) >>
      BY <3>1 DEF Push
    <3> QED
      BY <1>3, <2>1, <3>2 DEF CloseReturns
  <2>4. /\ ~Trying(stack') /\ Coming(stack') = {} /\ Shape(stack')
        /\ ~Failing(stack') /\ Base(stack') = stack'
        /\ \A o : In(o, stack') <=> "closed" = o
        /\ Leaving(stack') = {c}
    BY <2>2, <2>3, OneHandler DEF Handlers
  <2>5. /\ nc' = None /\ state' = "DISCONNECTED" /\ live' = live /\ base' = stack'
        /\ UNCHANGED <<alive, owned, phase, broken>>
    BY <1>3, <2>4, SameConns
    DEF CloseReturns, cleanupConnection, connVars, modeVars, base
  <2>6. Shape(base)' /\ Owners'
    BY <2>2, <2>4, <2>5 DEF Owners
  <2>7. StateAgrees' /\ Gone'
    BY <2>1, <2>4, <2>5 DEF StateAgrees, Gone, Down
  <2>8. Sound'
    BY <2>4, <2>5 DEF OwnInv, Sound
  <2> QED
    BY <2>6, <2>7, <2>8 DEF OwnInv
<1>4. CASE ClosedReturns
  <2> DEFINE c == Top.at
  <2>1. /\ Coming(stack) = {} /\ stack' = << >> /\ Leaving(stack) = {c} /\ alive
        /\ ~In("close", stack) /\ ~In("error", stack) /\ base = stack
    BY <1>4, <1>a, <1>b DEF ClosedReturns, TopIs
  <2>2. /\ owned \subseteq ({nc} \ {None}) \union {c} /\ c # nc /\ c \in live
        /\ owned \subseteq live
    BY <2>1 DEF OwnInv, Owners
  <2>3. /\ live' = live \ {c} /\ owned' = owned \ {c} /\ Forget(c)
        /\ UNCHANGED <<alive, state, nc, broken>>
    BY <1>4, <2>2 DEF ClosedReturns, Forget, live, TypeOK, ConnsOK, clientVars,
                      modeVars
  <2>4. nc # None => phase'[nc] = phase[nc]
    BY <2>2, <2>3 DEF Forget, TypeOK, ConnsOK, ClientOK
  <2>5. nc \notin owned' \union {None} => state' \in {"CONNECTING", "CLOSING"}
    BY <2>2, <2>3 DEF OwnInv, Owners
  <2>6. Shape(base)' /\ Owners'
    BY <2>1, <2>2, <2>3, <2>5, <1>c, EmptyStack DEF Owners
  <2>7. StateAgrees' /\ Gone'
    BY <2>1, <2>3, <2>4, <1>c, EmptyStack DEF OwnInv, StateAgrees, Gone
  <2>8. Sound'
    BY <2>1, <2>2, <2>3, <1>c, EmptyStack DEF OwnInv, Sound
  <2> QED
    BY <2>6, <2>7, <2>8 DEF OwnInv
<1>5. CASE HandlerReturns
  <2>1. /\ Coming(stack) = {} /\ stack' = << >> /\ alive /\ base = stack
        /\ Leaving(stack) = {} /\ ~In("close", stack) /\ ~In("error", stack)
    BY <1>5, <1>a, <1>b DEF HandlerReturns, TopIs
  <2>2. live' = live /\ UNCHANGED <<alive, state, nc, owned, phase, broken>>
    BY <1>5, SameConns DEF HandlerReturns, clientVars, connVars, modeVars
  <2>3. Shape(base)' /\ Owners'
    BY <2>1, <2>2, <1>c, EmptyStack DEF OwnInv, Owners
  <2>4. StateAgrees' /\ Gone' /\ Sound'
    BY <2>1, <2>2, <1>c, EmptyStack DEF OwnInv, StateAgrees, Gone, Sound
  <2> QED
    BY <2>3, <2>4 DEF OwnInv
<1> QED
  BY <1>1, <1>2, <1>3, <1>4, <1>5 DEF Returns

LEMMA OwnStep ==
    ASSUME QuietErrors, TypeOK, OwnInv, [Next]_vars
    PROVE  OwnInv'
<1>1. CASE Round(0) \/ Round(1)
  BY <1>1, OwnStays DEF Round, clientVars, connVars
<1>2. CASE CalmDown
  BY <1>2, OwnStays DEF CalmDown, clientVars, connVars
<1>3. ASSUME NEW c \in Conns, Hang(c) PROVE OwnInv'
  BY <1>3, OwnStays DEF Hang, clientVars, flagVars, modeVars
<1>4. CASE UNCHANGED vars
  BY <1>4, OwnStays DEF vars
<1> QED
  BY <1>1, <1>2, <1>3, <1>4, OwnReconnecting, OwnReturns, OwnLoop, OwnPoll,
     OwnApplication
  DEF Next, System

LEMMA Ownership ==
    ASSUME QuietErrors
    PROVE  Spec => []OwnInv
<1>1. Init => OwnInv
  <2> SUFFICES ASSUME Init PROVE OwnInv
    OBVIOUS
  <2>1. base = << >> /\ stack = << >>
    BY EmptyStack, BaseIs DEF Init
  <2> QED
    BY <2>1, EmptyStack DEF Init, OwnInv, Owners, StateAgrees, Gone, Sound, Down
<1>2. TypeOK /\ OwnInv /\ [Next]_vars => OwnInv'
  BY OwnStep
<1> QED
  BY <1>1, <1>2, TypeCorrect, PTL DEF Spec
-----------------------------------------------------------------------------
(* What follows *)

\* Reconnecting never leaves an old connection that still reports to the
\* client: two of them would both move _state.  A connect() that fails at
\* once changes nothing about that.
THEOREM OneHeard ==
    ASSUME QuietErrors
    PROVE  Spec => []OneConnectionHeard
<1>1. OwnInv => OneConnectionHeard
  BY OwnAtRest DEF OneConnectionHeard
<1> QED
  BY <1>1, Ownership, PTL

\* A client that is neither disconnected nor in error has a connection that
\* exists and reports to it, so it is never stuck with nothing to wait for.
THEOREM AlwaysAwaited ==
    ASSUME Careful
    PROVE  Spec => []WaitsForAnEvent
<1>1. ASSUME OwnInv PROVE WaitsForAnEvent
  <2> SUFFICES ASSUME stack = << >>, alive,
                      state \in {"CONNECTING", "CONNECTED", "CLOSING"}
               PROVE  nc \in owned \intersect live
    BY DEF WaitsForAnEvent
  <2>1. base = stack /\ nc # None
    BY <1>1, OwnAtRest, EmptyStack DEF OwnInv, StateAgrees, Down
  <2> QED
    BY <1>1, <2>1 DEF OwnInv, Owners, Sound, Careful
<1> QED
  BY <1>1, Ownership, PTL DEF Careful

\* connected() is never true of a connection that is not an open WebSocket,
\* in any handler, so send() never writes a frame into a handshake.  This
\* holds of the connection that a failed connect() leaves in _nc as well.
THEOREM ConnectedCorrect ==
    ASSUME QuietErrors
    PROVE  Spec => []ConnectedIsOpen
<1>1. OwnInv => ConnectedIsOpen
  <2> SUFFICES ASSUME OwnInv, connected PROVE nc \in live /\ phase[nc] = "open"
    BY DEF ConnectedIsOpen
  <2>1. nc \in live
    BY DEF OwnInv, Owners, connected
  <2> QED
    BY <2>1 DEF OwnInv, StateAgrees, connected
<1> QED
  BY <1>1, Ownership, PTL

\* No call and no event uses a client or a connection that is gone: the
\* destructor leaves nobody behind who would still call it, and _nc never
\* outlives the connection.
THEOREM NothingBreaks ==
    ASSUME Careful
    PROVE  Spec => []NoUndefinedBehaviour
<1>1. OwnInv => NoUndefinedBehaviour
  BY DEF OwnInv, Sound, NoUndefinedBehaviour, Careful
<1> QED
  BY <1>1, Ownership, PTL DEF Careful
=============================================================================
