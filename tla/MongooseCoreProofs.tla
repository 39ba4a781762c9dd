-------------------------- MODULE MongooseCoreProofs --------------------------
(***************************************************************************)
(* Proofs about MongooseCore, for every set of connections and servers,    *)
(* every timeout and every choice of calls made by the application.        *)
(***************************************************************************)
EXTENDS MongooseCore, TLAPS

\* The only facts about sequences the proofs need: the stack grows and shrinks
\* at its head.
LEMMA PushType ==
    ASSUME NEW S, NEW f \in S, NEW s \in Seq(S)
    PROVE  Push(f, s) \in Seq(S)
BY DEF Push

LEMMA PopType ==
    ASSUME NEW S, NEW s \in Seq(S), s # << >>
    PROVE  Head(s) \in S /\ Tail(s) \in Seq(S)
OBVIOUS

\* Wrapping an index round a non-empty table stays inside it.
LEMMA WrapRange ==
    ASSUME NEW x \in Nat, NEW n \in Nat \ {0}
    PROVE  x % n \in 0 .. (n - 1)
OBVIOUS

\* A group of variables that a step leaves alone keeps its types.
LEMMA TablesStay == TablesOK /\ UNCHANGED tableVars => TablesOK'
BY DEF TablesOK, tableVars
LEMMA ServersStay == ServersOK /\ UNCHANGED serverVars => ServersOK'
BY DEF ServersOK, serverVars
LEMMA ResolverStay == ResolverOK /\ UNCHANGED resolverVars => ResolverOK'
BY DEF ResolverOK, resolverVars
LEMMA ConnsStay == ConnsOK /\ UNCHANGED connVars => ConnsOK'
BY DEF ConnsOK, connVars
LEMMA LookupsStay == LookupsOK /\ UNCHANGED lookupVars => LookupsOK'
BY DEF LookupsOK, lookupVars
LEMMA LoopStays == LoopOK /\ UNCHANGED loopVars => LoopOK'
BY DEF LoopOK, loopVars

-----------------------------------------------------------------------------
(* Frames *)

LEMMA FrameTypes ==
    ASSUME NEW op \in {"close", "error"}, NEW c \in Conns
    PROVE  AtFrame(op, c) \in Frame /\ HandlerFrame \in Frame
BY TablesAssumption DEF AtFrame, HandlerFrame, Frame, Slots

LEMMA WalkFrameType ==
    ASSUME NEW op \in {"scan", "fail"}, NEW S \in SUBSET Conns,
           NEW d \in Conns \union {None}
    PROVE  WalkFrame(op, d, S) \in Frame
BY TablesAssumption DEF WalkFrame, Frame, Slots

LEMMA HeadsType ==
    ASSUME NEW S \in SUBSET Conns, NEW d \in HeadsOf(S)
    PROVE  d \in Conns \union {None}
BY DEF HeadsOf

\* The frame on top of a non-empty stack, and what lies below it.
LEMMA TopType ==
    ASSUME stack \in Seq(Frame), stack # << >>
    PROVE  /\ Top \in Frame
           /\ Top.at \in Conns \union {None} /\ Top.rest \in SUBSET Conns
           /\ Top.slot \in Slots
           /\ Tail(stack) \in Seq(Frame)
<1>1. Top \in Frame /\ Tail(stack) \in Seq(Frame)
  BY PopType DEF Top
<1> QED
  BY <1>1 DEF Frame

\* A frame that differs from the top in the entry it stands at.
LEMMA MovedFrameType ==
    ASSUME NEW f \in Frame, NEW at \in Conns \union {None},
           NEW S \in SUBSET Conns
    PROVE  /\ [f EXCEPT !.at = at] \in Frame
           /\ [f EXCEPT !.at = at, !.rest = @ \ S] \in Frame
BY DEF Frame

-----------------------------------------------------------------------------
(* Operations *)

\* useNameserver keeps its variables in range and leaves a well-formed stack.
LEMMA UseNameserverType ==
    ASSUME ServersOK, ConnsOK, TablesOK', NEW i \in Slots,
           NEW below \in Seq(Frame), UseNameserver(i, below)
    PROVE  /\ active' \in Slots
           /\ activeUrl' \in Servers \union {None}
           /\ url' \in Urls \union {None}
           /\ stack' \in Seq(Frame)
<1>1. RetireFrame(i) \in Frame
  BY DEF RetireFrame, Frame, ConnsOK
<1>2. nameserver'[i] \in Servers \union {None}
  BY DEF TablesOK
<1>3. Push(RetireFrame(i), below) \in Seq(Frame)
  BY <1>1, PushType
<1> QED
  BY <1>2, <1>3 DEF UseNameserver, ServersOK, Urls

LEMMA DnsErrorType ==
    ASSUME TypeOK, NEW msg, NEW below \in Seq(Frame), DnsError(msg, below)
    PROVE  TablesOK' /\ ServersOK' /\ stack' \in Seq(Frame)
<1> USE DEF TypeOK
<1>1. TablesOK'
  BY TablesStay DEF DnsError
<1>2. CASE Rotates(msg)
  <2>1. (active + 1) % count \in Slots
    <3>1. active \in Slots /\ count \in 0 .. MaxNameservers
      BY DEF TablesOK, ServersOK
    <3>2. active + 1 \in Nat /\ count \in Nat \ {0} /\ count <= MaxNameservers
      <4>1. count >= 2
        BY <1>2 DEF Rotates
      <4> HIDE DEF TypeOK
      <4> QED
        BY <3>1, <4>1, TablesAssumption DEF Slots
    <3>3. (active + 1) % count \in 0 .. (count - 1)
      BY <3>2, WrapRange
    <3> QED
      BY <3>2, <3>3, TablesAssumption DEF Slots
  <2>2. window' = DnsTimeout /\ UseNameserver((active + 1) % count, below)
    BY <1>2 DEF DnsError
  <2>3. window' \in 0 .. DnsTimeout
    BY <2>2, TimesAssumption
  <2> QED
    BY <1>1, <2>1, <2>2, <2>3, UseNameserverType DEF ServersOK
<1>3. CASE ~Rotates(msg)
  BY <1>1, <1>3, ServersStay DEF DnsError
<1> QED
  BY <1>2, <1>3

LEMMA MgErrorType ==
    ASSUME TypeOK, NEW c \in Conns, NEW msg, NEW below \in Seq(Frame),
           MgError(c, msg, below),
           UNCHANGED <<live, owned>>, resolving' \subseteq resolving
    PROVE  TablesOK' /\ ServersOK' /\ ConnsOK' /\ stack' \in Seq(Frame)
<1> USE DEF TypeOK
<1>1. ConnsOK'
  BY DEF MgError, ConnsOK
<1>2. CASE c \in owned
  <2>1. DnsError(msg, Push(AtFrame("error", c), below))
    BY <1>2 DEF MgError
  <2>2. Push(AtFrame("error", c), below) \in Seq(Frame)
    BY FrameTypes, PushType
  <2> QED
    BY <1>1, <2>1, <2>2, DnsErrorType
<1>3. CASE c \notin owned
  BY <1>1, <1>3, TablesStay, ServersStay DEF MgError
<1> QED
  BY <1>2, <1>3

LEMMA CancelType ==
    ASSUME LookupsOK, NEW c, Cancel(c)
    PROVE  LookupsOK'
BY DEF LookupsOK, Cancel

LEMMA BreakType ==
    ASSUME TypeOK, NEW what \in Broken, Break(what)
    PROVE  TypeOK'
BY TablesStay, ServersStay, ResolverStay, ConnsStay, LookupsStay
   DEF TypeOK, LoopOK, Break

-----------------------------------------------------------------------------
(* Each action keeps the types *)

LEMMA WalkType == TypeOK /\ Walk => TypeOK'
<1> SUFFICES ASSUME TypeOK, Walk PROVE TypeOK'
  OBVIOUS
<1>1. stack # << >> /\ Top.op \in {"scan", "fail"}
  BY DEF Walk, TopIs
<1>2. Tail(stack) \in Seq(Frame) /\ Top.rest \in SUBSET Conns
  BY <1>1, TopType DEF TypeOK
<1>3. ResolverOK' /\ LookupsOK' /\ LoopOK'
  BY ResolverStay, LookupsStay, LoopStays DEF TypeOK, Walk
<1>4. UNCHANGED <<live, owned, resolving>>
  BY DEF Walk
<1>5. CASE Top.at = None /\ stack' = Tail(stack)
           /\ UNCHANGED <<closing, errors, tableVars, serverVars>>
  BY <1>2, <1>3, <1>4, <1>5, TablesStay, ServersStay, ConnsStay
  DEF TypeOK, connVars
<1>6. ASSUME Top.at \in lookups,
             NEW d \in HeadsOf(Top.rest \intersect lookups),
             NEW on, on = Push(WalkFrame(Top.op, d, Top.rest \intersect lookups),
                               Tail(stack)),
             \/ stack' = on /\ UNCHANGED <<closing, errors, tableVars, serverVars>>
             \/ MgError(Top.at, "DNS timeout", on)
             \/ MgError(Top.at, "DNS error", on)
      PROVE  TypeOK'
  <2>1. d \in Conns \union {None}
    BY <1>2, HeadsType
  <2>2. on \in Seq(Frame)
    BY <1>1, <1>2, <1>6, <2>1, WalkFrameType, PushType
  <2>3. Top.at \in Conns
    BY <1>6 DEF TypeOK, LookupsOK
  <2>4. CASE stack' = on /\ UNCHANGED <<closing, errors, tableVars, serverVars>>
    BY <1>3, <1>4, <2>2, <2>4, TablesStay, ServersStay, ConnsStay
    DEF TypeOK, connVars
  <2>5. CASE \E msg : MgError(Top.at, msg, on)
    BY <1>3, <1>4, <2>2, <2>3, <2>5, MgErrorType DEF TypeOK
  <2> QED
    BY <1>6, <2>4, <2>5
<1> QED
  BY <1>5, <1>6 DEF Walk

LEMMA AnswerReturnsType == TypeOK /\ AnswerReturns => TypeOK'
<1> SUFFICES ASSUME TypeOK, AnswerReturns PROVE TypeOK'
  OBVIOUS
<1>1. Tail(stack) \in Seq(Frame)
  BY TopType DEF TypeOK, AnswerReturns, TopIs
<1>2. LookupsOK'
  BY CancelType DEF TypeOK, AnswerReturns
<1> QED
  BY <1>1, <1>2, TablesStay, ServersStay, ResolverStay, ConnsStay, LoopStays
  DEF TypeOK, AnswerReturns

LEMMA RetireConnType == TypeOK /\ RetireConn => TypeOK'
<1> SUFFICES ASSUME TypeOK, RetireConn PROVE TypeOK'
  OBVIOUS
<1>1. Top \in Frame /\ Top.rest \in SUBSET Conns /\ Tail(stack) \in Seq(Frame)
  BY TopType DEF TypeOK, RetireConn, TopIs
<1>2. ResolverOK' /\ LoopOK' /\ UNCHANGED <<live, owned, resolving>>
  BY ResolverStay, LoopStays DEF TypeOK, RetireConn
<1>3. PICK c \in Top.rest :
        LET on(at) == Push([Top EXCEPT !.at = at, !.rest = @ \ {c}],
                           Tail(stack))
        IN  \/ MgError(c, "DNS error", on(c)) /\ UNCHANGED lookupVars
            \/ /\ Cancel(c) \/ UNCHANGED lookupVars
               /\ stack' = on(None)
               /\ UNCHANGED <<closing, errors, tableVars, serverVars>>
  BY DEF RetireConn
<1> DEFINE on(at) == Push([Top EXCEPT !.at = at, !.rest = @ \ {c}], Tail(stack))
<1>4. c \in Conns
  BY <1>1, <1>3
<1>5. on(c) \in Seq(Frame) /\ on(None) \in Seq(Frame)
  BY <1>1, <1>4, MovedFrameType, PushType
<1>6. CASE MgError(c, "DNS error", on(c)) /\ UNCHANGED lookupVars
  BY <1>2, <1>4, <1>5, <1>6, MgErrorType, LookupsStay DEF TypeOK
<1>7. CASE /\ Cancel(c) \/ UNCHANGED lookupVars
           /\ stack' = on(None)
           /\ UNCHANGED <<closing, errors, tableVars, serverVars>>
  BY <1>2, <1>5, <1>7, CancelType, LookupsStay, TablesStay, ServersStay,
     ConnsStay DEF TypeOK, connVars
<1> QED
  BY <1>3, <1>6, <1>7

LEMMA RetireCancelType == TypeOK /\ RetireCancel => TypeOK'
<1> SUFFICES ASSUME TypeOK, RetireCancel PROVE TypeOK'
  OBVIOUS
<1>1. Top \in Frame /\ Tail(stack) \in Seq(Frame)
  BY TopType DEF TypeOK, RetireCancel, TopIs
<1>2. stack' \in Seq(Frame)
  BY <1>1, MovedFrameType, PushType DEF RetireCancel
<1>3. LookupsOK'
  BY CancelType DEF TypeOK, RetireCancel
<1> QED
  BY <1>2, <1>3, TablesStay, ServersStay, ResolverStay, ConnsStay, LoopStays
  DEF TypeOK, RetireCancel

LEMMA RetireDoneType == TypeOK /\ RetireDone => TypeOK'
<1> SUFFICES ASSUME TypeOK, RetireDone PROVE TypeOK'
  OBVIOUS
<1>1. Top.slot \in Slots /\ Tail(stack) \in Seq(Frame)
  BY TopType DEF TypeOK, RetireDone, RetireWalked, TopIs
<1>2. nameserver[Top.slot] \in Servers \union {None}
  BY <1>1 DEF TypeOK, TablesOK
<1>3. TablesOK' /\ ConnsOK'
  BY TablesStay, ConnsStay DEF TypeOK, RetireDone
<1>4. ServersOK'
  BY <1>2 DEF TypeOK, ServersOK, RetireDone, Urls
<1>5. ResolverOK'
  BY DEF TypeOK, ResolverOK, RetireDone
<1>6. LookupsOK'
  BY DEF TypeOK, LookupsOK, RetireDone
<1>7. LoopOK'
  BY DEF TypeOK, LoopOK, RetireDone
<1> QED
  BY <1>1, <1>3, <1>4, <1>5, <1>6, <1>7 DEF TypeOK, RetireDone

LEMMA OnErrorType == TypeOK /\ OnError => TypeOK'
<1> SUFFICES ASSUME TypeOK, OnError PROVE TypeOK'
  OBVIOUS
<1>1. Tail(stack) \in Seq(Frame)
  BY TopType DEF TypeOK, OnError, TopIs
<1>2. HandlerFrame \in Frame
  BY TablesAssumption DEF HandlerFrame, Frame, Slots
<1>3. stack' \in Seq(Frame)
  BY <1>1, <1>2, PushType DEF OnError
<1> QED
  BY <1>3, TablesStay, ServersStay, ResolverStay, ConnsStay, LookupsStay,
     LoopStays DEF TypeOK, OnError

LEMMA HandlerReturnsType == TypeOK /\ HandlerReturns => TypeOK'
<1> SUFFICES ASSUME TypeOK, HandlerReturns PROVE TypeOK'
  OBVIOUS
<1>1. Tail(stack) \in Seq(Frame)
  BY TopType DEF TypeOK, HandlerReturns, TopIs
<1> QED
  BY <1>1, TablesStay, ServersStay, ResolverStay, ConnsStay, LookupsStay,
     LoopStays DEF TypeOK, HandlerReturns

LEMMA ActivationType == TypeOK /\ Activation => TypeOK'
<1> SUFFICES ASSUME TypeOK, Activation PROVE TypeOK'
  OBVIOUS
<1>1. CASE WalkFreed \/ AnswerFreed \/ RetireNull \/ OnErrorDeleted
  BY <1>1, BreakType
  DEF Broken, WalkFreed, AnswerFreed, RetireNull, OnErrorDeleted
<1> QED
  BY <1>1, WalkType, AnswerReturnsType, RetireConnType, RetireCancelType,
     RetireDoneType, OnErrorType, HandlerReturnsType DEF Activation

LEMMA BeginPassType == TypeOK /\ BeginPass => TypeOK'
BY TablesStay, ServersStay, ResolverStay, ConnsStay, LookupsStay
DEF TypeOK, BeginPass, LoopOK, ConnsOK

LEMMA ConnFailsType == ASSUME NEW c \in Conns PROVE TypeOK /\ ConnFails(c) => TypeOK'
<1> SUFFICES ASSUME TypeOK, ConnFails(c) PROVE TypeOK'
  OBVIOUS
<1>1. << AtFrame("close", c) >> \in Seq(Frame)
  BY FrameTypes
<1>2. MgError(c, "other", << AtFrame("close", c) >>)
      /\ UNCHANGED <<live, owned, resolving>>
  BY DEF ConnFails
<1>3. TablesOK' /\ ServersOK' /\ ConnsOK' /\ stack' \in Seq(Frame)
  BY <1>1, <1>2, MgErrorType
<1>4. LoopOK'
  BY DEF TypeOK, LoopOK, ConnFails
<1> QED
  BY <1>3, <1>4, ResolverStay, LookupsStay DEF TypeOK, ConnFails

LEMMA ConnStaysType == ASSUME NEW c \in Conns PROVE TypeOK /\ ConnStays(c) => TypeOK'
<1> SUFFICES ASSUME TypeOK, ConnStays(c) PROVE TypeOK'
  OBVIOUS
<1>1. ConnsOK'
  BY DEF TypeOK, ConnsOK, ConnStays
<1>2. LoopOK'
  BY DEF TypeOK, LoopOK, ConnStays
<1> QED
  BY <1>1, <1>2, TablesStay, ServersStay, ResolverStay, LookupsStay
  DEF TypeOK, ConnStays

LEMMA CloseConnType == ASSUME NEW c \in Conns PROVE TypeOK /\ CloseConn(c) => TypeOK'
<1> SUFFICES ASSUME TypeOK, CloseConn(c) PROVE TypeOK'
  OBVIOUS
<1>1. stack' \in Seq(Frame)
  <2>1. HandlerFrame \in Frame
    BY FrameTypes
  <2> QED
    BY <2>1 DEF CloseConn
<1>2. ConnsOK'
  BY DEF TypeOK, ConnsOK, CloseConn
<1>3. LookupsOK'
  BY TimesAssumption DEF TypeOK, LookupsOK, CloseConn
<1>4. LoopOK'
  BY DEF TypeOK, LoopOK, CloseConn
<1> QED
  BY <1>1, <1>2, <1>3, <1>4, TablesStay, ServersStay, ResolverStay
  DEF TypeOK, CloseConn

LEMMA ResolverTurnType == TypeOK /\ ResolverTurn => TypeOK'
<1> SUFFICES ASSUME TypeOK, ResolverTurn PROVE TypeOK'
  OBVIOUS
<1>1. PICK d \in HeadsOf(lookups) : stack' = << WalkFrame("scan", d, lookups) >>
  BY DEF ResolverTurn
<1>2. WalkFrame("scan", d, lookups) \in Frame
  BY HeadsType, WalkFrameType DEF TypeOK, LookupsOK
<1>3. stack' \in Seq(Frame)
  BY <1>1, <1>2
<1>4. LoopOK'
  BY DEF TypeOK, LoopOK, ResolverTurn
<1> QED
  BY <1>3, <1>4, TablesStay, ServersStay, ResolverStay, ConnsStay, LookupsStay
  DEF TypeOK, ResolverTurn

LEMMA AnswerConnectsType ==
    ASSUME NEW c \in Conns PROVE TypeOK /\ AnswerConnects(c) => TypeOK'
<1> SUFFICES ASSUME TypeOK, AnswerConnects(c) PROVE TypeOK'
  OBVIOUS
<1>1. ConnsOK'
  BY DEF TypeOK, ConnsOK, AnswerConnects
<1>2. LookupsOK'
  BY CancelType DEF TypeOK, AnswerConnects
<1>3. LoopOK'
  BY DEF TypeOK, LoopOK, AnswerConnects
<1> QED
  BY <1>1, <1>2, <1>3, TablesStay, ServersStay, ResolverStay
  DEF TypeOK, AnswerConnects

LEMMA AnswerFailsType ==
    ASSUME NEW c \in Conns PROVE TypeOK /\ AnswerFails(c) => TypeOK'
<1> SUFFICES ASSUME TypeOK, AnswerFails(c) PROVE TypeOK'
  OBVIOUS
<1>1. PICK S \in SUBSET lookups : \E d \in HeadsOf(S) :
        MgError(c, "other", << AnswerFrame(c, d) >>)
  BY DEF AnswerFails
<1>2. PICK d \in HeadsOf(S) :
        MgError(c, "other", << AnswerFrame(c, d) >>)
  BY <1>1
<1>3. d \in Conns \union {None}
  BY HeadsType DEF TypeOK, LookupsOK
<1>4. AnswerFrame(c, d) \in Frame
  BY <1>3, TablesAssumption DEF AnswerFrame, Frame, Slots
<1>5. << AnswerFrame(c, d) >> \in Seq(Frame)
  BY <1>4
<1>6. UNCHANGED <<live, owned>> /\ resolving' \subseteq resolving
  BY DEF AnswerFails
<1>7. TablesOK' /\ ServersOK' /\ ConnsOK' /\ stack' \in Seq(Frame)
  BY <1>2, <1>5, <1>6, MgErrorType
<1>8. LoopOK'
  BY DEF TypeOK, LoopOK, AnswerFails
<1> QED
  BY <1>7, <1>8, ResolverStay, LookupsStay DEF TypeOK, AnswerFails

LEMMA NoAnswerType == TypeOK /\ NoAnswer => TypeOK'
<1> SUFFICES ASSUME TypeOK, NoAnswer PROVE TypeOK'
  OBVIOUS
<1>1. ResolverOK'
  BY DEF TypeOK, ResolverOK, NoAnswer
<1>2. LoopOK'
  BY DEF TypeOK, LoopOK, NoAnswer
<1> QED
  BY <1>1, <1>2, TablesStay, ServersStay, ConnsStay, LookupsStay
  DEF TypeOK, NoAnswer

LEMMA ResolverClosesType == TypeOK /\ ResolverCloses => TypeOK'
<1> SUFFICES ASSUME TypeOK, ResolverCloses PROVE TypeOK'
  OBVIOUS
<1>1. PICK d \in HeadsOf(lookups) : stack' = << WalkFrame("fail", d, lookups) >>
  BY DEF ResolverCloses
<1>2. WalkFrame("fail", d, lookups) \in Frame
  BY HeadsType, WalkFrameType DEF TypeOK, LookupsOK
<1>3. stack' \in Seq(Frame)
  BY <1>1, <1>2
<1>4. ResolverOK' /\ LookupsOK' /\ LoopOK'
  BY DEF TypeOK, ResolverOK, LookupsOK, LoopOK, ResolverCloses
<1> QED
  BY <1>3, <1>4, TablesStay, ServersStay, ConnsStay DEF TypeOK, ResolverCloses

LEMMA ResolverStaysType == TypeOK /\ ResolverStays => TypeOK'
BY TablesStay, ServersStay, ResolverStay, ConnsStay, LookupsStay
DEF TypeOK, ResolverStays, LoopOK

LEMMA RetiredClosesType == TypeOK /\ RetiredCloses => TypeOK'
BY TablesStay, ServersStay, ConnsStay, LookupsStay, LoopStays
DEF TypeOK, RetiredCloses, ResolverOK

LEMMA TickType == TypeOK /\ Tick => TypeOK'
<1> SUFFICES ASSUME TypeOK, Tick PROVE TypeOK'
  OBVIOUS
<1>1. ServersOK'
  <2>1. window \in 0 .. DnsTimeout
    BY DEF TypeOK, ServersOK
  <2>2. window' = IF window = 0 THEN 0 ELSE window - 1
    BY DEF Tick
  <2>3. window' \in 0 .. DnsTimeout
    BY <2>1, <2>2, TimesAssumption
  <2> QED
    BY <2>3 DEF TypeOK, ServersOK, Tick
<1>2. LookupsOK'
  <2>1. ttl \in [Conns -> 0 .. (DnsTimeout + 1)]
    BY DEF TypeOK, LookupsOK
  <2>2. ttl' = [c \in Conns |-> IF ttl[c] = 0 THEN 0 ELSE ttl[c] - 1]
    BY DEF Tick
  <2>3. ttl' \in [Conns -> 0 .. (DnsTimeout + 1)]
    BY <2>1, <2>2, TimesAssumption
  <2> QED
    BY <2>3 DEF TypeOK, LookupsOK, Tick
<1> QED
  BY <1>1, <1>2, TablesStay, ResolverStay, ConnsStay, LoopStays
  DEF TypeOK, Tick

LEMMA EventLoopType == TypeOK /\ (EventLoop \/ Tick) => TypeOK'
<1> SUFFICES ASSUME TypeOK, EventLoop \/ Tick PROVE TypeOK'
  OBVIOUS
<1>1. CASE Ended
  BY <1>1, TablesStay, ServersStay, ResolverStay, ConnsStay, LookupsStay
  DEF TypeOK, Ended, LoopOK
<1> QED
  BY <1>1, BeginPassType, ResolverTurnType, NoAnswerType, ResolverClosesType,
     ResolverStaysType, RetiredClosesType, ConnFailsType, ConnStaysType,
     CloseConnType, AnswerConnectsType, AnswerFailsType, TickType DEF EventLoop

LEMMA LookupType == ASSUME NEW c \in Conns PROVE TypeOK /\ Lookup(c) => TypeOK'
<1> SUFFICES ASSUME TypeOK, Lookup(c) PROVE TypeOK'
  OBVIOUS
<1>1. ConnsOK'
  BY DEF TypeOK, ConnsOK, Lookup, NewConn
<1>2. ResolverOK'
  BY DEF TypeOK, ResolverOK, ServersOK, Lookup, NewConn
<1>3. LookupsOK'
  <2>1. DnsTimeout + 1 \in 0 .. (DnsTimeout + 1)
    BY TimesAssumption
  <2>2. dns4' \in Urls \union {None}
    BY <1>2 DEF ResolverOK
  <2> QED
    BY <2>1, <2>2 DEF TypeOK, LookupsOK, Lookup
<1>4. LoopOK'
  BY DEF TypeOK, LoopOK, Lookup, NewConn
<1> QED
  BY <1>1, <1>2, <1>3, <1>4, TablesStay, ServersStay
  DEF TypeOK, Lookup, NewConn

LEMMA LocalLookupType ==
    ASSUME NEW c \in Conns PROVE TypeOK /\ LocalLookup(c) => TypeOK'
<1> SUFFICES ASSUME TypeOK, LocalLookup(c) PROVE TypeOK'
  OBVIOUS
<1>1. ConnsOK'
  BY DEF TypeOK, ConnsOK, LocalLookup, NewConn
<1>2. ResolverOK' /\ LoopOK'
  BY DEF TypeOK, ResolverOK, LoopOK, LocalLookup, NewConn
<1> QED
  BY <1>1, <1>2, TablesStay, ServersStay, LookupsStay
  DEF TypeOK, LocalLookup, NewConn

LEMMA SetNameserversType ==
    ASSUME NEW t \in Tables PROVE TypeOK /\ SetNameservers(t) => TypeOK'
<1> SUFFICES ASSUME TypeOK, SetNameservers(t) PROVE TypeOK'
  OBVIOUS
<1> DEFINE kept == IF Len(t) < MaxNameservers THEN Len(t) ELSE MaxNameservers
<1>1. t \in Seq(Servers)
  BY TablesAssumption
<1>2. kept \in 0 .. MaxNameservers /\ kept <= Len(t)
  BY <1>1, TablesAssumption
<1>3. \A i \in Slots : i < kept => t[i + 1] \in Servers
  BY <1>1, <1>2, TablesAssumption DEF Slots
<1>4. TablesOK'
  <2>1. count' = kept
        /\ nameserver' = [i \in Slots |-> IF i < kept THEN t[i + 1]
                                                      ELSE nameserver[i]]
    BY DEF SetNameservers
  <2>2. nameserver' \in [Slots -> Servers \union {None}]
    <3> HIDE DEF kept
    <3> QED
      BY <1>3, <2>1 DEF TypeOK, TablesOK
  <2> QED
    BY <1>2, <2>1, <2>2 DEF TablesOK
<1>5. UseNameserver(0, stack) /\ window' = 0
  BY DEF SetNameservers
<1>6. ServersOK' /\ stack' \in Seq(Frame)
  <2>1. 0 \in Slots /\ 0 \in 0 .. DnsTimeout
    BY TablesAssumption, TimesAssumption DEF Slots
  <2> QED
    BY <1>4, <1>5, <2>1, UseNameserverType DEF TypeOK, ServersOK
<1> QED
  BY <1>4, <1>6, ResolverStay, ConnsStay, LookupsStay, LoopStays
  DEF TypeOK, SetNameservers

LEMMA BeginType == TypeOK /\ Begin => TypeOK'
<1> SUFFICES ASSUME TypeOK, Begin PROVE TypeOK'
  OBVIOUS
<1>1. TablesOK' /\ stack' \in Seq(Frame)
  BY TablesStay DEF TypeOK, Begin
<1>2. ServersOK'
  <2>1. nameserver[active] \in Servers \union {None}
    BY DEF TypeOK, TablesOK, ServersOK
  <2> QED
    BY <2>1 DEF TypeOK, ServersOK, Begin, Urls
<1>3. ResolverOK' /\ ConnsOK'
  <2>1. errors' \in [Conns -> 0 .. 2]
    BY DEF Begin
  <2> QED
    BY <2>1 DEF ResolverOK, ConnsOK, Begin
<1>4. LookupsOK'
  BY TimesAssumption DEF LookupsOK, Begin
<1>5. LoopOK'
  BY DEF TypeOK, LoopOK, Begin
<1> QED
  BY <1>1, <1>2, <1>3, <1>4, <1>5 DEF TypeOK

LEMMA EndType == TypeOK /\ End => TypeOK'
BY TablesStay, ServersStay, LookupsStay
DEF TypeOK, End, ResolverOK, ConnsOK, LoopOK

LEMMA ApplicationType == TypeOK /\ Application => TypeOK'
<1> SUFFICES ASSUME TypeOK, Application PROVE TypeOK'
  OBVIOUS
<1>1. ASSUME NEW c \in Conns, Abort(c) \/ Delete(c) PROVE TypeOK'
  <2>1. ConnsOK'
    BY <1>1 DEF TypeOK, ConnsOK, Abort, Delete
  <2> QED
    BY <1>1, <2>1, TablesStay, ServersStay, ResolverStay, LookupsStay,
       LoopStays DEF TypeOK, Abort, Delete
<1> QED
  BY <1>1, BeginType, EndType, LookupType, LocalLookupType, SetNameserversType
  DEF Application

-----------------------------------------------------------------------------
(* Type correctness *)

LEMMA InitType == Init => TypeOK
<1> SUFFICES ASSUME Init PROVE TypeOK
  OBVIOUS
<1>1. 0 \in Slots /\ 0 \in 0 .. DnsTimeout /\ 0 \in 0 .. MaxNameservers
      /\ 0 \in 0 .. (DnsTimeout + 1)
  BY TablesAssumption, TimesAssumption DEF Slots
<1>2. TablesOK /\ ServersOK
  BY <1>1 DEF Init, TablesOK, ServersOK
<1>3. ResolverOK /\ ConnsOK /\ LoopOK
  <2>1. errors \in [Conns -> 0 .. 2]
    BY DEF Init
  <2> QED
    BY <2>1 DEF Init, ResolverOK, ConnsOK, LoopOK
<1>4. LookupsOK
  BY <1>1 DEF Init, LookupsOK
<1> QED
  BY <1>2, <1>3, <1>4 DEF Init, TypeOK

LEMMA StutterType == TypeOK /\ UNCHANGED vars => TypeOK'
BY DEF TypeOK, TablesOK, ServersOK, ResolverOK, ConnsOK, LookupsOK, LoopOK, vars

LEMMA NextType == TypeOK /\ [Next]_vars => TypeOK'
BY ActivationType, EventLoopType, ApplicationType, StutterType DEF Next, Halted

\* Every state of every instance is well formed: whatever handlers do, each
\* activation that waits on the C++ stack is one the code can resume.
THEOREM TypeCorrect == Spec => []TypeOK
BY InitType, NextType, PTL DEF Spec

-----------------------------------------------------------------------------
(* The server in use.  An open resolver talks to mgr.dns4.url because url  *)
(* changes only while no resolver is open, or to what it is already: once  *)
(* useNameserver() has run, _active and mgr.dns4.url read the same.        *)

Configured == \A i \in Slots : i < count => nameserver[i] \in Servers
Unconfigured == count = 0 =>
                    activeUrl = None /\ \A i \in Slots : nameserver[i] = None
UrlInv ==
    /\ Configured /\ Unconfigured
    /\ count > 0 => active < count
    /\ activeUrl # None => url = activeUrl
    /\ dns4 # None => dns4 = url

\* What decides about UrlInv.
urlVars == <<tableVars, active, activeUrl, url>>

LEMMA UrlStays ==
    UrlInv /\ UNCHANGED urlVars /\ dns4' \in {None, dns4, url} => UrlInv'
BY DEF UrlInv, Configured, Unconfigured, urlVars, tableVars

LEMMA UseNameserverUrl ==
    ASSUME TypeOK, UrlInv, NEW i \in Slots, NEW below, UseNameserver(i, below),
           i < count', Configured', count' > 0, UNCHANGED dns4
    PROVE  UrlInv'
<1>1. count' # 0 /\ active' = i /\ nameserver'[i] \in Servers
  BY DEF UseNameserver, Configured
<1>2. nameserver'[i] # None
  BY <1>1, NamesAssumption
<1>3. CASE UNCHANGED <<activeUrl, url>>
  BY <1>1, <1>3 DEF UrlInv, Unconfigured
<1>4. CASE /\ activeUrl = nameserver'[i] \/ dns4 = None
           /\ activeUrl' = nameserver'[i] /\ url' = nameserver'[i]
  <2>1. activeUrl = nameserver'[i] => url' = url
    BY <1>2, <1>4 DEF UrlInv
  <2> QED
    BY <1>1, <1>4, <2>1 DEF UrlInv, Unconfigured
<1> QED
  BY <1>1, <1>3, <1>4 DEF UseNameserver

LEMMA DnsErrorUrl ==
    ASSUME TypeOK, UrlInv, NEW msg, NEW below, DnsError(msg, below), UNCHANGED dns4
    PROVE  UrlInv'
<1>1. CASE Rotates(msg)
  <2>1. count \in Nat /\ count >= 2 /\ count <= MaxNameservers /\ active \in Nat
    <3>1. active \in Slots /\ count \in 0 .. MaxNameservers
      BY DEF TypeOK, TablesOK, ServersOK
    <3>2. count >= 2
      BY <1>1 DEF Rotates
    <3> QED
      BY <3>1, <3>2, TablesAssumption DEF Slots
  <2>2. (active + 1) % count \in 0 .. (count - 1)
    BY <2>1, WrapRange
  <2>3. (active + 1) % count \in Slots /\ (active + 1) % count < count
    BY <2>1, <2>2, TablesAssumption DEF Slots
  <2>4. UNCHANGED tableVars /\ UseNameserver((active + 1) % count, below)
    BY <1>1 DEF DnsError
  <2>5. Configured' /\ count' > 0 /\ (active + 1) % count < count'
    BY <2>1, <2>3, <2>4 DEF UrlInv, Configured, tableVars
  <2> QED
    BY <2>3, <2>4, <2>5, UseNameserverUrl
<1>2. CASE ~Rotates(msg)
  <2>1. UNCHANGED urlVars
    BY <1>2 DEF DnsError, urlVars, serverVars
  <2> QED
    BY <2>1, UrlStays
<1> QED
  BY <1>1, <1>2

LEMMA MgErrorUrl ==
    ASSUME TypeOK, UrlInv, NEW c, NEW msg, NEW below, MgError(c, msg, below),
           UNCHANGED dns4
    PROVE  UrlInv'
<1>1. CASE UNCHANGED <<tableVars, serverVars>>
  BY <1>1, UrlStays DEF urlVars, serverVars
<1>2. CASE DnsError(msg, Push(AtFrame("error", c), below))
  BY <1>2, DnsErrorUrl
<1> QED
  BY <1>1, <1>2 DEF MgError

LEMMA WalkUrl == TypeOK /\ UrlInv /\ Walk => UrlInv'
<1> SUFFICES ASSUME TypeOK, UrlInv, Walk PROVE UrlInv'
  OBVIOUS
<1>1. UNCHANGED dns4
  BY DEF Walk, resolverVars
<1>2. CASE UNCHANGED <<tableVars, serverVars>>
  BY <1>1, <1>2, UrlStays DEF urlVars, serverVars
<1>3. ASSUME NEW msg, NEW below, MgError(Top.at, msg, below) PROVE UrlInv'
  BY <1>1, <1>3, MgErrorUrl
<1> QED
  BY <1>2, <1>3 DEF Walk

LEMMA RetireUrl == TypeOK /\ UrlInv /\ (RetireConn \/ RetireDone) => UrlInv'
<1> SUFFICES ASSUME TypeOK, UrlInv, RetireConn \/ RetireDone PROVE UrlInv'
  OBVIOUS
<1>1. CASE RetireConn
  <2>1. UNCHANGED dns4
    BY <1>1 DEF RetireConn, resolverVars
  <2>2. CASE UNCHANGED <<tableVars, serverVars>>
    BY <2>1, <2>2, UrlStays DEF urlVars, serverVars
  <2>3. ASSUME NEW c, NEW below, MgError(c, "DNS error", below) PROVE UrlInv'
    BY <2>1, <2>3, MgErrorUrl
  <2> QED
    BY <1>1, <2>2, <2>3 DEF RetireConn
<1>2. CASE RetireDone
  <2>1. Top.slot \in Slots
    BY <1>2, TopType DEF TypeOK, RetireDone, RetireWalked, TopIs
  <2>2. /\ UNCHANGED <<tableVars, active>> /\ dns4' = None
        /\ activeUrl' = nameserver[Top.slot] /\ url' = nameserver[Top.slot]
    BY <1>2 DEF RetireDone
  <2>3. Configured' /\ Unconfigured'
    BY <2>1, <2>2 DEF UrlInv, Configured, Unconfigured, tableVars
  <2> QED
    BY <2>2, <2>3 DEF UrlInv, tableVars
<1> QED
  BY <1>1, <1>2

LEMMA ActivationUrl == TypeOK /\ UrlInv /\ Activation => UrlInv'
<1> SUFFICES ASSUME TypeOK, UrlInv, Activation PROVE UrlInv'
  OBVIOUS
<1>1. CASE WalkFreed \/ AnswerFreed \/ RetireNull \/ OnErrorDeleted
  BY <1>1, UrlStays DEF WalkFreed, AnswerFreed, RetireNull, OnErrorDeleted, Break,
     urlVars, serverVars, resolverVars
<1>2. CASE AnswerReturns \/ RetireCancel \/ OnError \/ HandlerReturns
  BY <1>2, UrlStays DEF AnswerReturns, RetireCancel, OnError, HandlerReturns,
     urlVars, serverVars, resolverVars
<1> QED
  BY <1>1, <1>2, WalkUrl, RetireUrl DEF Activation

LEMMA EventLoopUrl == TypeOK /\ UrlInv /\ (EventLoop \/ Tick) => UrlInv'
<1> SUFFICES ASSUME TypeOK, UrlInv, EventLoop \/ Tick PROVE UrlInv'
  OBVIOUS
<1>1. CASE BeginPass \/ ResolverTurn \/ ResolverStays \/ Ended \/ Tick
  BY <1>1, UrlStays DEF BeginPass, ResolverTurn, ResolverStays, Ended, Tick,
     urlVars, serverVars, resolverVars
<1>2. CASE NoAnswer \/ ResolverCloses \/ RetiredCloses
  BY <1>2, UrlStays DEF NoAnswer, ResolverCloses, RetiredCloses, urlVars, serverVars
<1>3. ASSUME NEW c \in Conns, ConnFails(c) \/ AnswerFails(c) PROVE UrlInv'
  <2>1. UNCHANGED dns4
    BY <1>3 DEF ConnFails, AnswerFails, resolverVars
  <2>2. \E below : MgError(c, "other", below)
    BY <1>3 DEF ConnFails, AnswerFails
  <2> QED
    BY <2>1, <2>2, MgErrorUrl
<1>4. ASSUME NEW c \in Conns, ConnStays(c) \/ CloseConn(c) \/ AnswerConnects(c)
      PROVE  UrlInv'
  BY <1>4, UrlStays DEF ConnStays, CloseConn, AnswerConnects, urlVars, serverVars,
     resolverVars
<1> QED
  BY <1>1, <1>2, <1>3, <1>4 DEF EventLoop

LEMMA SetNameserversUrl ==
    ASSUME << >> \notin Tables, TypeOK, UrlInv, NEW t \in Tables, SetNameservers(t)
    PROVE  UrlInv'
<1> DEFINE kept == IF Len(t) < MaxNameservers THEN Len(t) ELSE MaxNameservers
<1>1. t \in Seq(Servers) /\ t # << >>
  BY TablesAssumption
<1>2. kept \in 1 .. MaxNameservers /\ kept <= Len(t)
  <2>1. Len(t) \in Nat /\ Len(t) # 0
    BY <1>1
  <2> QED
    BY <2>1, TablesAssumption
<1>3. \A i \in Slots : i < kept => t[i + 1] \in Servers
  BY <1>1, <1>2, TablesAssumption DEF Slots
<1>4. /\ count' = kept /\ UseNameserver(0, stack) /\ UNCHANGED dns4
      /\ nameserver' = [i \in Slots |-> IF i < kept THEN t[i + 1] ELSE nameserver[i]]
  BY DEF SetNameservers, resolverVars
<1>5. Configured'
  <2> HIDE DEF kept
  <2> QED
    BY <1>3, <1>4 DEF Configured
<1>6. 0 \in Slots /\ count' > 0
  BY <1>2, <1>4, TablesAssumption DEF Slots
<1> QED
  BY <1>4, <1>5, <1>6, UseNameserverUrl

LEMMA BeginUrl == TypeOK /\ UrlInv /\ Begin => UrlInv'
<1> SUFFICES ASSUME TypeOK, UrlInv, Begin PROVE UrlInv'
  OBVIOUS
<1>1. dns4' = None /\ UNCHANGED <<tableVars, active>>
      /\ url' = (IF active < count THEN nameserver[active] ELSE Default)
      /\ activeUrl' = (IF active < count THEN nameserver[active] ELSE activeUrl)
  BY DEF Begin
<1>2. active \in Slots /\ count \in Nat /\ active \in Nat
  BY TablesAssumption DEF TypeOK, TablesOK, ServersOK, Slots
<1>3. CASE active < count
  BY <1>1, <1>2, <1>3 DEF UrlInv, Configured, Unconfigured, tableVars
<1>4. CASE ~(active < count)
  <2>1. count = 0 /\ activeUrl = None
    BY <1>2, <1>4 DEF UrlInv, Unconfigured
  <2> QED
    BY <1>1, <1>2, <1>4, <2>1 DEF UrlInv, Configured, Unconfigured, tableVars
<1> QED
  BY <1>3, <1>4

LEMMA UrlNext ==
    << >> \notin Tables /\ TypeOK /\ UrlInv /\ [Next]_vars => UrlInv'
<1> SUFFICES ASSUME << >> \notin Tables, TypeOK, UrlInv, [Next]_vars PROVE UrlInv'
  OBVIOUS
<1>1. CASE UNCHANGED vars
  BY <1>1, UrlStays DEF vars, urlVars, tableVars
<1>2. ASSUME NEW c \in Conns,
             Lookup(c) \/ LocalLookup(c) \/ Abort(c) \/ Delete(c)
      PROVE  UrlInv'
  BY <1>2, UrlStays DEF Lookup, LocalLookup, Abort, Delete, NewConn, urlVars,
     serverVars, resolverVars
<1>3. CASE End
  BY <1>3, UrlStays DEF End, urlVars, serverVars
<1> QED
  BY <1>1, <1>2, <1>3, ActivationUrl, EventLoopUrl, SetNameserversUrl, BeginUrl
  DEF Next, Halted, Application

LEMMA UrlInit == Init => UrlInv
<1> SUFFICES ASSUME Init PROVE UrlInv
  OBVIOUS
<1>1. \A i \in Slots : nameserver[i] = None /\ ~(i < count)
  BY TablesAssumption DEF Init, Slots
<1> QED
  BY <1>1 DEF Init, UrlInv, Configured, Unconfigured

\* While a resolver is open it talks to the server that nameserver() reports,
\* through every rotation and restart, unless the table is emptied.
THEOREM ResolverFollows ==
    << >> \notin Tables /\ Spec => []ResolverFollowsUrl
<1> SUFFICES ASSUME << >> \notin Tables PROVE Spec => []ResolverFollowsUrl
  OBVIOUS
<1>1. TypeOK /\ UrlInv /\ [Next]_vars => (TypeOK /\ UrlInv)'
  BY NextType, UrlNext
<1>2. UrlInv => ResolverFollowsUrl
  BY DEF UrlInv, ResolverFollowsUrl
<1> QED
  BY <1>1, <1>2, InitType, UrlInit, PTL DEF Spec
=============================================================================
