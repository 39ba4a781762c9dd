------------------------- MODULE MongooseLookupProofs -------------------------
(***************************************************************************)
(* What becomes of the lookups when a resolver goes away, of all of them   *)
(* when the manager ends, and which server they go to, proved for every    *)
(* instance of MongooseCore.                                               *)
(*                                                                         *)
(* A lookup can lose its resolver in two ways: mgr.dns4.c fails and dns_cb *)
(* walks the list on MG_EV_CLOSE, or closeResolver() retires it and walks  *)
(* mgr.conns.  Either walk is interrupted by handlers, so the argument is  *)
(* about frames that wait on the stack: a "fail" frame holds only lookups  *)
(* whose resolver is gone, a "retire" frame holds every lookup that is     *)
(* still waiting, for the slot that is active, and a "close" frame is the  *)
(* only one that end() waits for.                                          *)
(***************************************************************************)
EXTENDS MongooseCoreProofs

Elems(s) == {s[i] : i \in DOMAIN s}
OpFrames(op, s) == {f \in Elems(s) : f.op = op}

LEMMA PushElems ==
    ASSUME NEW S, NEW f \in S, NEW s \in Seq(S)
    PROVE  Elems(Push(f, s)) = {f} \union Elems(s)
<1> DEFINE p == Push(f, s)
<1>1. /\ p \in Seq(S) /\ Len(p) = Len(s) + 1 /\ p[1] = f
      /\ \A i \in 1 .. Len(s) : p[i + 1] = s[i]
  BY DEF Push
<1>2. DOMAIN p = 1 .. (Len(s) + 1) /\ DOMAIN s = 1 .. Len(s) /\ Len(s) \in Nat
  BY <1>1
<1>3. Elems(p) \subseteq {f} \union Elems(s)
  <2> SUFFICES ASSUME NEW i \in DOMAIN p PROVE p[i] \in {f} \union Elems(s)
    BY DEF Elems
  <2>1. CASE i = 1
    BY <1>1, <2>1
  <2>2. CASE i # 1
    <3>1. i - 1 \in 1 .. Len(s) /\ i = (i - 1) + 1
      BY <1>2, <2>2
    <3> QED
      BY <1>1, <1>2, <3>1 DEF Elems
  <2> QED
    BY <2>1, <2>2
<1>4. {f} \union Elems(s) \subseteq Elems(p)
  <2>1. f \in Elems(p)
    <3>1. 1 \in DOMAIN p
      BY <1>2
    <3> QED
      BY <1>1, <3>1 DEF Elems
  <2>2. ASSUME NEW i \in DOMAIN s PROVE s[i] \in Elems(p)
    <3>1. i + 1 \in DOMAIN p /\ p[i + 1] = s[i]
      BY <1>1, <1>2
    <3> QED
      BY <3>1 DEF Elems
  <2> QED
    BY <2>1, <2>2 DEF Elems
<1> QED
  BY <1>3, <1>4

LEMMA PopElems ==
    ASSUME NEW S, NEW s \in Seq(S), s # << >>
    PROVE  Elems(s) = {Head(s)} \union Elems(Tail(s))
<1>1. Head(s) \in S /\ Tail(s) \in Seq(S) /\ s = Push(Head(s), Tail(s))
  BY DEF Push
<1> QED
  BY <1>1, PushElems

\* What a push and a pop do to the frames of one operation.
LEMMA PushSame ==
    ASSUME NEW f \in Frame, NEW s \in Seq(Frame)
    PROVE  OpFrames(f.op, Push(f, s)) = {f} \union OpFrames(f.op, s)
BY PushElems DEF OpFrames

LEMMA PushOther ==
    ASSUME NEW f \in Frame, NEW s \in Seq(Frame), NEW op, f.op # op
    PROVE  OpFrames(op, Push(f, s)) = OpFrames(op, s)
BY PushElems DEF OpFrames

LEMMA PopSame ==
    ASSUME NEW s \in Seq(Frame), s # << >>
    PROVE  OpFrames(Head(s).op, s) =
             {Head(s)} \union OpFrames(Head(s).op, Tail(s))
BY PopElems DEF OpFrames

LEMMA PopOther ==
    ASSUME NEW s \in Seq(Frame), s # << >>, NEW op, Head(s).op # op
    PROVE  OpFrames(op, Tail(s)) = OpFrames(op, s)
BY PopElems DEF OpFrames

LEMMA OneFrame ==
    ASSUME NEW f, NEW op
    PROVE  /\ OpFrames(op, << f >>) = (IF f.op = op THEN {f} ELSE {})
           /\ OpFrames(op, << >>) = {}
BY DEF OpFrames, Elems

LEMMA InRetireFrames == InRetire <=> OpFrames("retire", stack) # {}
BY DEF InRetire, OpFrames, Elems

\* What mg_error leaves on the stack.
LEMMA MgErrorFrames ==
    ASSUME TypeOK, NEW c \in Conns, NEW msg, NEW below \in Seq(Frame),
           MgError(c, msg, below)
    PROVE  /\ closing' = closing \union {c}
           /\ OpFrames("fail", stack') = OpFrames("fail", below)
           /\ \/ OpFrames("retire", stack') = OpFrames("retire", below)
              \/ /\ msg = "DNS timeout"
                 /\ \E i \in Slots : OpFrames("retire", stack') =
                       {RetireFrame(i)} \union OpFrames("retire", below)
           /\ stack' # << >> \/ stack' = below
<1> DEFINE err == AtFrame("error", c)
           with == Push(err, below)
<1>1. closing' = closing \union {c}
  BY DEF MgError
<1>2. err \in Frame /\ with \in Seq(Frame)
  BY FrameTypes, PushType
<1>3. /\ OpFrames("fail", with) = OpFrames("fail", below)
      /\ OpFrames("retire", with) = OpFrames("retire", below)
      /\ with # << >>
  <2>1. err.op = "error"
    BY DEF AtFrame
  <2>2. with # << >>
    BY <1>2 DEF Push
  <2>3. "error" # "fail" /\ "error" # "retire"
    OBVIOUS
  <2> HIDE DEF err
  <2>4. OpFrames("fail", Push(err, below)) = OpFrames("fail", below)
    BY <1>2, <2>1, <2>3, PushOther
  <2>5. OpFrames("retire", Push(err, below)) = OpFrames("retire", below)
    BY <1>2, <2>1, <2>3, PushOther
  <2> QED
    BY <2>2, <2>4, <2>5
<1> HIDE DEF with
<1>4. CASE c \notin owned
  BY <1>1, <1>4 DEF MgError
<1>5. CASE c \in owned
  <2>1. DnsError(msg, Push(AtFrame("error", c), below))
    BY <1>5 DEF MgError
  <2>2. DnsError(msg, with)
    BY <2>1 DEF with
  <2>3. CASE stack' = with
    BY <1>1, <1>3, <2>3
  <2>4. CASE ~(stack' = with)
    <3>1. msg = "DNS timeout" /\ UseNameserver((active + 1) % count, with)
      BY <2>2, <2>4 DEF DnsError, Rotates
    <3> DEFINE i == (active + 1) % count
    <3>2. stack' = Push(RetireFrame(i), with)
      BY <2>4, <3>1 DEF UseNameserver
    <3>3. i \in Slots
      <4>1. TablesOK' /\ ServersOK' /\ stack' \in Seq(Frame)
        BY <1>2, <2>2, DnsErrorType
      <4>2. active' = i
        BY <3>1 DEF UseNameserver
      <4> QED
        BY <4>1, <4>2 DEF ServersOK
    <3>4. RetireFrame(i) \in Frame /\ RetireFrame(i).op = "retire"
      BY <3>3 DEF RetireFrame, Frame, TypeOK, ConnsOK
    <3> HIDE DEF i
    <3>5. Push(RetireFrame(i), with) # << >>
      BY <1>2, <3>4 DEF Push
    <3>6. OpFrames("fail", stack') = OpFrames("fail", below)
      BY <1>2, <1>3, <3>2, <3>4, PushOther
    <3>7. OpFrames("retire", stack') =
            {RetireFrame(i)} \union OpFrames("retire", below)
      <4>1. OpFrames("retire", Push(RetireFrame(i), with)) =
              {RetireFrame(i)} \union OpFrames("retire", with)
        BY <1>2, <3>4, PushSame
      <4> QED
        BY <1>3, <3>2, <4>1
    <3> QED
      BY <1>1, <3>1, <3>2, <3>3, <3>5, <3>6, <3>7
  <2> QED
    BY <2>3, <2>4
<1> QED
  BY <1>4, <1>5

\* Only a timeout can have dnsError() retire the resolver.
LEMMA MgErrorPlain ==
    ASSUME TypeOK, NEW c \in Conns, NEW msg, NEW below \in Seq(Frame),
           MgError(c, msg, below), msg # "DNS timeout"
    PROVE  /\ closing' = closing \union {c}
           /\ OpFrames("fail", stack') = OpFrames("fail", below)
           /\ OpFrames("retire", stack') = OpFrames("retire", below)
<1> HIDE DEF MgError
<1>1. /\ closing' = closing \union {c}
      /\ OpFrames("fail", stack') = OpFrames("fail", below)
      /\ \/ OpFrames("retire", stack') = OpFrames("retire", below)
         \/ msg = "DNS timeout"
  BY MgErrorFrames
<1> QED
  BY <1>1

-----------------------------------------------------------------------------
(* An entry of active_dns_requests points at a connection of the manager *)

LEMMA EntriesActivation ==
    EntriesPointAtConnections /\ Activation => EntriesPointAtConnections'
<1> SUFFICES ASSUME EntriesPointAtConnections, Activation
             PROVE  EntriesPointAtConnections'
  OBVIOUS
<1> USE DEF EntriesPointAtConnections
<1>1. CASE Walk
  BY <1>1 DEF Walk, MgError, lookupVars
<1>2. CASE AnswerReturns \/ RetireCancel
  BY <1>2 DEF AnswerReturns, RetireCancel, Cancel, connVars
<1>3. CASE RetireConn
  <2>1. UNCHANGED <<live, resolving>>
    BY <1>3 DEF RetireConn
  <2>2. closing \subseteq closing' /\ lookups' \subseteq lookups
    BY <1>3 DEF RetireConn, MgError, Cancel, lookupVars
  <2> QED
    BY <2>1, <2>2
<1>4. CASE RetireDone \/ OnError \/ HandlerReturns
  BY <1>4 DEF RetireDone, OnError, HandlerReturns, connVars, lookupVars
<1>5. CASE WalkFreed \/ AnswerFreed \/ RetireNull \/ OnErrorDeleted
  BY <1>5 DEF WalkFreed, AnswerFreed, RetireNull, OnErrorDeleted, Break,
     connVars, lookupVars
<1> QED
  BY <1>1, <1>2, <1>3, <1>4, <1>5 DEF Activation

LEMMA EntriesEventLoop ==
    EntriesPointAtConnections /\ (EventLoop \/ Tick)
      => EntriesPointAtConnections'
<1> SUFFICES ASSUME EntriesPointAtConnections, EventLoop \/ Tick
             PROVE  EntriesPointAtConnections'
  OBVIOUS
<1> USE DEF EntriesPointAtConnections
<1>1. CASE \/ BeginPass \/ ResolverTurn \/ NoAnswer \/ ResolverCloses
           \/ ResolverStays \/ RetiredCloses \/ Ended \/ Tick
  BY <1>1 DEF BeginPass, ResolverTurn, NoAnswer, ResolverCloses,
     ResolverStays, RetiredCloses, Ended, Tick, connVars, lookupVars
<1>2. ASSUME NEW c \in Conns, ConnFails(c) \/ AnswerFails(c)
      PROVE  EntriesPointAtConnections'
  BY <1>2 DEF ConnFails, AnswerFails, MgError, lookupVars
<1>3. ASSUME NEW c \in Conns, ConnStays(c) \/ CloseConn(c) \/ AnswerConnects(c)
      PROVE  EntriesPointAtConnections'
  BY <1>3 DEF ConnStays, CloseConn, AnswerConnects, Cancel, lookupVars
<1> QED
  BY <1>1, <1>2, <1>3 DEF EventLoop

LEMMA EntriesApplication ==
    EntriesPointAtConnections /\ Application => EntriesPointAtConnections'
<1> SUFFICES ASSUME EntriesPointAtConnections, Application
             PROVE  EntriesPointAtConnections'
  OBVIOUS
<1> USE DEF EntriesPointAtConnections
<1>1. ASSUME NEW c \in Conns,
             Lookup(c) \/ LocalLookup(c) \/ Abort(c) \/ Delete(c)
      PROVE  EntriesPointAtConnections'
  BY <1>1 DEF Lookup, LocalLookup, Abort, Delete, NewConn, lookupVars
<1>2. CASE \/ Begin \/ End \/ \E t \in Tables : SetNameservers(t)
  BY <1>2 DEF Begin, End, SetNameservers, connVars, lookupVars
<1> QED
  BY <1>1, <1>2 DEF Application

LEMMA EntriesInit == Init => EntriesPointAtConnections
BY DEF Init, EntriesPointAtConnections

LEMMA EntriesNext ==
    EntriesPointAtConnections /\ [Next]_vars => EntriesPointAtConnections'
<1>1. EntriesPointAtConnections /\ UNCHANGED vars => EntriesPointAtConnections'
  BY DEF EntriesPointAtConnections, vars
<1> QED
  BY <1>1, EntriesActivation, EntriesEventLoop, EntriesApplication
  DEF Next, Halted

\* No entry of active_dns_requests ever points at a freed connection, and each
\* belongs to one that is resolving or about to be closed.
THEOREM EntriesCorrect == Spec => []EntriesPointAtConnections
BY EntriesInit, EntriesNext, PTL DEF Spec

-----------------------------------------------------------------------------
(* A "fail" frame holds only lookups whose resolver is gone *)

FailsHoldDead ==
    \A f \in OpFrames("fail", stack) :
        /\ f.at \in live \union {None} /\ f.rest \subseteq live
        /\ f.at \notin current /\ f.rest \intersect current = {}
        /\ f.at = None => f.rest = {}

\* A step that adds no "fail" frame, frees no connection and gives no old
\* connection a query through today's resolver.
LEMMA FailsKept ==
    ASSUME TypeOK', FailsHoldDead,
           OpFrames("fail", stack') \subseteq OpFrames("fail", stack),
           live \subseteq live', live \intersect current' \subseteq current
    PROVE  FailsHoldDead'
<1> SUFFICES ASSUME NEW f \in OpFrames("fail", stack')
             PROVE  /\ f.at \in live' \union {None} /\ f.rest \subseteq live'
                    /\ f.at \notin current' /\ f.rest \intersect current' = {}
                    /\ f.at = None => f.rest = {}
  BY DEF FailsHoldDead
<1>1. None \notin current'
  BY NamesAssumption DEF TypeOK, LookupsOK
<1> QED
  BY <1>1 DEF FailsHoldDead

\* The frames of one operation when the top of the stack is replaced.
LEMMA TopOther ==
    ASSUME TypeOK, stack # << >>, NEW op, Top.op # op
    PROVE  OpFrames(op, Tail(stack)) = OpFrames(op, stack)
BY PopOther DEF TypeOK, Top

LEMMA TopSame ==
    ASSUME TypeOK, stack # << >>
    PROVE  /\ Top \in OpFrames(Top.op, stack)
           /\ OpFrames(Top.op, stack) =
                {Top} \union OpFrames(Top.op, Tail(stack))
BY PopSame DEF TypeOK, Top

\* The successor that a walk over S reads from its entry d.
LEMMA WalkFrameFacts ==
    ASSUME NEW op \in {"scan", "fail"}, NEW S \in SUBSET Conns,
           NEW d \in HeadsOf(S), TypeOK
    PROVE  /\ WalkFrame(op, d, S) \in Frame
           /\ WalkFrame(op, d, S).op = op
           /\ WalkFrame(op, d, S).at = d
           /\ WalkFrame(op, d, S).rest = S \ {d}
           /\ d = None => S = {}
           /\ d # None => d \in S
<1>1. d \in Conns \union {None}
  BY HeadsType
<1>2. d = None => S = {}
  BY NamesAssumption DEF HeadsOf
<1>3. d # None => d \in S
  BY DEF HeadsOf
<1> QED
  BY <1>1, <1>2, <1>3, WalkFrameType DEF WalkFrame

\* What one step of a walk leaves of the "fail" and "retire" frames.
LEMMA WalkFrames ==
    ASSUME TypeOK, Walk
    PROVE  /\ UNCHANGED <<lookups, current, live, owned, resolving, running>>
           /\ \/ /\ Top.at = None /\ stack' = Tail(stack)
                 /\ UNCHANGED closing
              \/ \E d \in HeadsOf(Top.rest \intersect lookups) :
                   /\ Top.at \in lookups
                   /\ OpFrames("fail", stack') =
                        OpFrames("fail", Tail(stack)) \union
                        (IF Top.op = "fail"
                         THEN {WalkFrame("fail", d, Top.rest \intersect lookups)}
                         ELSE {})
                   /\ closing' \in {closing, closing \union {Top.at}}
                   /\ Top.op = "fail" => closing' = closing \union {Top.at}
                   /\ \/ OpFrames("retire", stack') = OpFrames("retire", stack)
                      \/ /\ Top.op = "scan"
                         /\ \E i \in Slots : OpFrames("retire", stack') =
                              {RetireFrame(i)} \union OpFrames("retire", stack)
<1>1. stack # << >> /\ Top.op \in {"scan", "fail"}
  BY DEF Walk, TopIs
<1>2. Tail(stack) \in Seq(Frame) /\ Top.rest \in SUBSET Conns
  BY <1>1, TopType DEF TypeOK
<1>3. UNCHANGED <<lookups, current, live, owned, resolving, running>>
  BY DEF Walk, lookupVars, loopVars
<1>4. CASE Top.at = None /\ stack' = Tail(stack)
           /\ UNCHANGED <<closing, errors, tableVars, serverVars>>
  BY <1>3, <1>4
<1>5. ASSUME Top.at \in lookups,
             NEW d \in HeadsOf(Top.rest \intersect lookups),
             NEW on, on = Push(WalkFrame(Top.op, d, Top.rest \intersect lookups),
                               Tail(stack)),
             \/ Top.op = "scan" /\ stack' = on /\ closing' = closing
             \/ Top.op = "scan" /\ MgError(Top.at, "DNS timeout", on)
             \/ Top.op = "fail" /\ MgError(Top.at, "DNS error", on)
      PROVE  /\ OpFrames("fail", stack') =
                  OpFrames("fail", Tail(stack)) \union
                  (IF Top.op = "fail"
                   THEN {WalkFrame("fail", d, Top.rest \intersect lookups)}
                   ELSE {})
             /\ closing' \in {closing, closing \union {Top.at}}
             /\ Top.op = "fail" => closing' = closing \union {Top.at}
             /\ \/ OpFrames("retire", stack') = OpFrames("retire", stack)
                \/ /\ Top.op = "scan"
                   /\ \E i \in Slots : OpFrames("retire", stack') =
                        {RetireFrame(i)} \union OpFrames("retire", stack)
  <2> DEFINE w == WalkFrame(Top.op, d, Top.rest \intersect lookups)
  <2>1. w \in Frame /\ w.op = Top.op
    BY <1>1, <1>2, WalkFrameFacts
  <2>2. Top.at \in Conns
    BY <1>5 DEF TypeOK, LookupsOK
  <2>3. w = WalkFrame("fail", d, Top.rest \intersect lookups) \/ Top.op # "fail"
    OBVIOUS
  <2>4. on = Push(w, Tail(stack))
    BY <1>5
  <2> HIDE DEF w
  <2>5. on \in Seq(Frame)
    BY <1>2, <2>1, <2>4, PushType
  <2>6. OpFrames("fail", on) = OpFrames("fail", Tail(stack)) \union
                               (IF Top.op = "fail" THEN {w} ELSE {})
    <3>1. CASE Top.op = "fail"
      BY <1>2, <2>1, <2>4, <3>1, PushSame
    <3>2. CASE Top.op # "fail"
      BY <1>2, <2>1, <2>4, <3>2, PushOther
    <3> QED
      BY <3>1, <3>2
  <2>7. OpFrames("retire", on) = OpFrames("retire", stack)
    <3>1. w.op # "retire" /\ Top.op # "retire"
      BY <1>1, <2>1
    <3>2. OpFrames("retire", on) = OpFrames("retire", Tail(stack))
      BY <1>2, <2>1, <2>4, <3>1, PushOther
    <3>3. OpFrames("retire", Tail(stack)) = OpFrames("retire", stack)
      BY <1>1, <3>1, TopOther
    <3> QED
      BY <3>2, <3>3
  <2>8. CASE Top.op = "scan" /\ stack' = on /\ closing' = closing
    BY <2>3, <2>6, <2>7, <2>8
  <2>9. CASE Top.op = "scan" /\ MgError(Top.at, "DNS timeout", on)
    <3>1. /\ closing' = closing \union {Top.at}
          /\ OpFrames("fail", stack') = OpFrames("fail", on)
          /\ \/ OpFrames("retire", stack') = OpFrames("retire", on)
             \/ \E i \in Slots : OpFrames("retire", stack') =
                  {RetireFrame(i)} \union OpFrames("retire", on)
      BY <2>2, <2>5, <2>9, MgErrorFrames
    <3> QED
      BY <2>3, <2>6, <2>7, <2>9, <3>1
  <2>10. CASE Top.op = "fail" /\ MgError(Top.at, "DNS error", on)
    <3>1. /\ closing' = closing \union {Top.at}
          /\ OpFrames("fail", stack') = OpFrames("fail", on)
          /\ OpFrames("retire", stack') = OpFrames("retire", on)
      BY <2>2, <2>5, <2>10, MgErrorPlain
    <3> QED
      BY <2>3, <2>6, <2>7, <2>10, <3>1
  <2> QED
    BY <1>5, <2>8, <2>9, <2>10
<1>6. \/ Top.at = None /\ stack' = Tail(stack)
         /\ UNCHANGED <<closing, errors, tableVars, serverVars>>
      \/ /\ Top.at \in lookups
         /\ \E d \in HeadsOf(Top.rest \intersect lookups) : \E on :
              /\ on = Push(WalkFrame(Top.op, d, Top.rest \intersect lookups),
                           Tail(stack))
              /\ \/ Top.op = "scan" /\ stack' = on /\ closing' = closing
                 \/ Top.op = "scan" /\ MgError(Top.at, "DNS timeout", on)
                 \/ Top.op = "fail" /\ MgError(Top.at, "DNS error", on)
  BY DEF Walk
<1> QED
  BY <1>3, <1>4, <1>5, <1>6

\* useNameserver() called from setNameservers() pushes at most its own frame.
LEMMA UseNameserverFrames ==
    ASSUME TypeOK, NEW i \in Slots, UseNameserver(i, stack)
    PROVE  /\ OpFrames("fail", stack') = OpFrames("fail", stack)
           /\ \/ stack' = stack
              \/ OpFrames("retire", stack') =
                   {RetireFrame(i)} \union OpFrames("retire", stack)
<1>1. CASE stack' = stack
  BY <1>1
<1>2. CASE stack' = Push(RetireFrame(i), stack)
  <2>1. RetireFrame(i) \in Frame /\ RetireFrame(i).op = "retire"
    BY DEF RetireFrame, Frame, TypeOK, ConnsOK
  <2>2. stack \in Seq(Frame)
    BY DEF TypeOK
  <2>3. OpFrames("fail", stack') = OpFrames("fail", stack)
    BY <1>2, <2>1, <2>2, PushOther
  <2>4. OpFrames("retire", Push(RetireFrame(i), stack)) =
          {RetireFrame(i)} \union OpFrames("retire", stack)
    BY <2>1, <2>2, PushSame
  <2> QED
    BY <1>2, <2>3, <2>4
<1> QED
  BY <1>1, <1>2 DEF UseNameserver

\* Replacing the top by a frame of the same operation, or popping it, leaves
\* the frames of every other operation alone.
LEMMA MovedFrames ==
    ASSUME TypeOK, stack # << >>, NEW f \in Frame, f.op = Top.op,
           NEW op, Top.op # op
    PROVE  OpFrames(op, Push(f, Tail(stack))) = OpFrames(op, stack)
<1>1. Tail(stack) \in Seq(Frame)
  BY TopType DEF TypeOK
<1>2. OpFrames(op, Push(f, Tail(stack))) = OpFrames(op, Tail(stack))
  BY <1>1, PushOther
<1> QED
  BY <1>2, TopOther

\* What one step of closeResolver()'s loop does.
LEMMA RetireConnFrames ==
    ASSUME TypeOK, RetireConn
    PROVE  /\ UNCHANGED <<live, owned, resolving, running>>
           /\ OpFrames("fail", stack') = OpFrames("fail", stack)
           /\ \E c \in Top.rest :
                /\ OpFrames("retire", stack') # {}
                /\ \E at \in {c, None} : OpFrames("retire", stack') =
                     {[Top EXCEPT !.at = at, !.rest = @ \ {c}]}
                       \union OpFrames("retire", Tail(stack))
                /\ \/ /\ c \in resolving \ closing
                      /\ closing' = closing \union {c}
                      /\ UNCHANGED <<lookups, current>>
                   \/ /\ c \in closing /\ closing' = closing
                      /\ lookups' = lookups \ {c} /\ current' = current \ {c}
                   \/ /\ c \notin resolving \union closing
                      /\ UNCHANGED <<closing, lookups, current>>
<1>1. /\ stack # << >> /\ Top.op = "retire"
      /\ Top \in Frame /\ Top.rest \in SUBSET Conns /\ Tail(stack) \in Seq(Frame)
  BY TopType DEF TypeOK, RetireConn, TopIs
<1>2. UNCHANGED <<live, owned, resolving, running>>
  BY DEF RetireConn, loopVars
<1>3. PICK c \in Top.rest :
        LET on(at) == Push([Top EXCEPT !.at = at, !.rest = @ \ {c}],
                           Tail(stack))
        IN  \/ /\ c \in resolving \ closing
               /\ MgError(c, "DNS error", on(c)) /\ UNCHANGED lookupVars
            \/ /\ c \in closing /\ Cancel(c)
               /\ stack' = on(None) /\ UNCHANGED closing
            \/ /\ c \notin resolving \union closing
               /\ stack' = on(None) /\ UNCHANGED <<closing, lookupVars>>
  BY DEF RetireConn
<1> DEFINE moved(at) == [Top EXCEPT !.at = at, !.rest = @ \ {c}]
           on(at) == Push(moved(at), Tail(stack))
<1>4. c \in Conns
  BY <1>1, <1>3
<1>5. \A at \in {c, None} : moved(at) \in Frame /\ moved(at).op = "retire"
  BY <1>1, <1>4 DEF Frame
<1>6. \A at \in {c, None} :
         /\ on(at) \in Seq(Frame)
         /\ OpFrames("fail", on(at)) = OpFrames("fail", stack)
         /\ OpFrames("retire", on(at)) =
              {moved(at)} \union OpFrames("retire", Tail(stack))
  <2> TAKE at \in {c, None}
  <2>1. moved(at) \in Frame /\ moved(at).op = "retire"
    BY <1>5
  <2> HIDE DEF moved
  <2>2. on(at) \in Seq(Frame)
    BY <1>1, <2>1, PushType
  <2>3. OpFrames("fail", on(at)) = OpFrames("fail", stack)
    BY <1>1, <2>1, MovedFrames
  <2>4. OpFrames(moved(at).op, on(at)) =
          {moved(at)} \union OpFrames(moved(at).op, Tail(stack))
    BY <1>1, <2>1, PushSame
  <2> QED
    BY <2>1, <2>2, <2>3, <2>4
<1>7. CASE /\ c \in resolving \ closing
           /\ MgError(c, "DNS error", on(c)) /\ UNCHANGED lookupVars
  <2> HIDE DEF on
  <2>1. /\ closing' = closing \union {c}
        /\ OpFrames("fail", stack') = OpFrames("fail", on(c))
        /\ OpFrames("retire", stack') = OpFrames("retire", on(c))
    BY <1>4, <1>6, <1>7, MgErrorPlain
  <2>2. UNCHANGED <<lookups, current>>
    BY <1>7 DEF lookupVars
  <2>3. OpFrames("retire", stack') =
          {moved(c)} \union OpFrames("retire", Tail(stack))
    BY <1>6, <2>1
  <2>4. OpFrames("fail", stack') = OpFrames("fail", stack)
    BY <1>6, <2>1
  <2> QED
    BY <1>2, <1>7, <2>1, <2>2, <2>3, <2>4
<1>8. CASE /\ stack' = on(None)
           /\ \/ /\ c \in closing /\ closing' = closing
                 /\ lookups' = lookups \ {c} /\ current' = current \ {c}
              \/ /\ c \notin resolving \union closing
                 /\ UNCHANGED <<closing, lookups, current>>
  <2>1. OpFrames("retire", stack') =
          {moved(None)} \union OpFrames("retire", Tail(stack))
    BY <1>6, <1>8
  <2>2. OpFrames("fail", stack') = OpFrames("fail", stack)
    BY <1>6, <1>8
  <2> QED
    BY <1>2, <1>8, <2>1, <2>2
<1> QED
  BY <1>3, <1>7, <1>8 DEF Cancel, lookupVars

SpareInv == TypeOK /\ EntriesPointAtConnections /\ FailsHoldDead

LEMMA FailsActivation ==
    SpareInv /\ TypeOK' /\ Activation => FailsHoldDead'
<1> SUFFICES ASSUME SpareInv, TypeOK', Activation PROVE FailsHoldDead'
  OBVIOUS
<1> USE DEF SpareInv
<1>1. CASE Walk
  <2>1. /\ stack # << >> /\ Top.op \in {"scan", "fail"}
        /\ Top.rest \in SUBSET Conns /\ UNCHANGED <<live, current>>
    BY <1>1, TopType, WalkFrames DEF Walk, TopIs, TypeOK
  <2>2. CASE stack' = Tail(stack)
    <3>1. OpFrames("fail", stack') \subseteq OpFrames("fail", stack)
      BY <2>1, <2>2, TopOther, TopSame
    <3> QED
      BY <2>1, <3>1, FailsKept
  <2>3. ASSUME NEW d \in HeadsOf(Top.rest \intersect lookups),
               OpFrames("fail", stack') =
                 OpFrames("fail", Tail(stack)) \union
                 (IF Top.op = "fail"
                  THEN {WalkFrame("fail", d, Top.rest \intersect lookups)}
                  ELSE {})
        PROVE  FailsHoldDead'
    <3>1. CASE Top.op # "fail"
      <4>1. OpFrames("fail", stack') = OpFrames("fail", stack)
        BY <2>1, <2>3, <3>1, TopOther
      <4> QED
        BY <2>1, <4>1, FailsKept
    <3>2. CASE Top.op = "fail"
      <4> DEFINE w == WalkFrame("fail", d, Top.rest \intersect lookups)
      <4>1. /\ w.at = d /\ w.rest = (Top.rest \intersect lookups) \ {d}
            /\ d = None => Top.rest \intersect lookups = {}
            /\ d # None => d \in Top.rest
        BY <2>1, WalkFrameFacts DEF TypeOK, LookupsOK
      <4>2. /\ Top \in OpFrames("fail", stack)
            /\ OpFrames("fail", Tail(stack)) \subseteq OpFrames("fail", stack)
        BY <2>1, <3>2, TopSame
      <4>3. Top.rest \subseteq live /\ Top.rest \intersect current = {}
        BY <4>2 DEF FailsHoldDead
      <4>4. None \notin current
        BY NamesAssumption DEF TypeOK, LookupsOK
      <4>5. OpFrames("fail", stack') \subseteq OpFrames("fail", stack) \union {w}
        BY <2>3, <3>2, <4>2
      <4> HIDE DEF w
      <4>6. /\ w.at \in live \union {None} /\ w.rest \subseteq live
            /\ w.at \notin current /\ w.rest \intersect current = {}
            /\ w.at = None => w.rest = {}
        BY <4>1, <4>3, <4>4
      <4> QED
        BY <2>1, <4>5, <4>6 DEF FailsHoldDead
    <3> QED
      BY <3>1, <3>2
  <2> QED
    BY <1>1, <2>2, <2>3, WalkFrames
<1>2. CASE AnswerReturns \/ OnError \/ HandlerReturns \/ RetireDone
  <2>1. /\ stack # << >> /\ Top.op \in {"answer", "error", "handler", "retire"}
        /\ live' = live /\ current' \subseteq current
    BY <1>2 DEF AnswerReturns, OnError, HandlerReturns, RetireDone,
       RetireWalked, TopIs, Cancel, connVars, lookupVars
  <2>2. OpFrames("fail", Tail(stack)) = OpFrames("fail", stack)
    BY <2>1, TopOther
  <2>3. HandlerFrame \in Frame /\ HandlerFrame.op = "handler"
    BY TablesAssumption DEF HandlerFrame, Frame, Slots
  <2>4. Tail(stack) \in Seq(Frame)
    BY <2>1, TopType DEF TypeOK
  <2>5. OpFrames("fail", Push(HandlerFrame, Tail(stack))) = OpFrames("fail", stack)
    BY <2>2, <2>3, <2>4, PushOther
  <2>6. stack' \in {Tail(stack), Push(HandlerFrame, Tail(stack))}
    BY <1>2 DEF AnswerReturns, OnError, HandlerReturns, RetireDone
  <2> QED
    BY <2>1, <2>2, <2>5, <2>6, FailsKept
<1>3. CASE RetireConn
  <2>1. /\ live' = live /\ current' \subseteq current
        /\ OpFrames("fail", stack') = OpFrames("fail", stack)
    BY <1>3, RetireConnFrames
  <2> QED
    BY <2>1, FailsKept
<1>4. CASE RetireCancel
  <2>1. stack # << >> /\ Top.op = "retire" /\ Top \in Frame
    BY <1>4, TopType DEF RetireCancel, TopIs, TypeOK
  <2>2. [Top EXCEPT !.at = None] \in Frame /\ [Top EXCEPT !.at = None].op = Top.op
    BY <2>1 DEF Frame
  <2>3. OpFrames("fail", Push([Top EXCEPT !.at = None], Tail(stack))) =
          OpFrames("fail", stack)
    BY <2>1, <2>2, MovedFrames
  <2>4. /\ live' = live /\ current' \subseteq current
        /\ OpFrames("fail", stack') = OpFrames("fail", stack)
    BY <1>4, <2>3 DEF RetireCancel, Cancel, connVars
  <2> QED
    BY <2>4, FailsKept
<1>5. CASE WalkFreed \/ AnswerFreed \/ RetireNull \/ OnErrorDeleted
  <2>1. stack' = << >>
    BY <1>5 DEF WalkFreed, AnswerFreed, RetireNull, OnErrorDeleted, Break
  <2> QED
    BY <2>1, OneFrame DEF FailsHoldDead
<1> QED
  BY <1>1, <1>2, <1>3, <1>4, <1>5 DEF Activation

LEMMA FailsEventLoop ==
    SpareInv /\ TypeOK' /\ (EventLoop \/ Tick) => FailsHoldDead'
<1> SUFFICES ASSUME SpareInv, TypeOK', EventLoop \/ Tick PROVE FailsHoldDead'
  OBVIOUS
<1> USE DEF SpareInv
<1>1. CASE \/ BeginPass \/ NoAnswer \/ ResolverStays \/ RetiredCloses
           \/ Ended \/ Tick
  BY <1>1, FailsKept DEF BeginPass, NoAnswer, ResolverStays, RetiredCloses,
     Ended, Tick, connVars, lookupVars
<1>2. CASE ResolverTurn
  <2>1. PICK d \in HeadsOf(lookups) : stack' = << WalkFrame("scan", d, lookups) >>
    BY <1>2 DEF ResolverTurn
  <2>2. WalkFrame("scan", d, lookups).op # "fail"
    BY DEF WalkFrame
  <2>3. OpFrames("fail", stack') = {}
    BY <2>1, <2>2, OneFrame
  <2> QED
    BY <2>3 DEF FailsHoldDead
<1>3. CASE ResolverCloses
  <2>1. PICK d \in HeadsOf(lookups) : stack' = << WalkFrame("fail", d, lookups) >>
    BY <1>3 DEF ResolverCloses
  <2> DEFINE w == WalkFrame("fail", d, lookups)
  <2>2. /\ w.at = d /\ w.rest = lookups \ {d}
        /\ d = None => lookups = {}
        /\ d # None => d \in lookups
    BY WalkFrameFacts DEF TypeOK, LookupsOK
  <2>3. current' = {} /\ live' = live
    BY <1>3 DEF ResolverCloses, connVars
  <2>4. lookups \subseteq live
    BY DEF EntriesPointAtConnections
  <2> HIDE DEF w
  <2>5. OpFrames("fail", stack') \subseteq {w}
    BY <2>1, OneFrame DEF w
  <2> QED
    BY <2>2, <2>3, <2>4, <2>5 DEF FailsHoldDead
<1>4. ASSUME NEW c \in Conns, NEW f \in Frame, f.op # "fail",
             MgError(c, "other", << f >>)
      PROVE  OpFrames("fail", stack') = {}
  <2>1. << f >> \in Seq(Frame) /\ "other" # "DNS timeout"
    OBVIOUS
  <2>2. OpFrames("fail", stack') = OpFrames("fail", << f >>)
    BY <1>4, <2>1, MgErrorPlain
  <2> QED
    BY <1>4, <2>2, OneFrame
<1>5. ASSUME NEW c \in Conns, ConnFails(c) \/ AnswerFails(c)
      PROVE  FailsHoldDead'
  <2>1. CASE ConnFails(c)
    <3>1. AtFrame("close", c) \in Frame /\ AtFrame("close", c).op # "fail"
      BY FrameTypes DEF AtFrame
    <3>2. OpFrames("fail", stack') = {}
      BY <1>4, <2>1, <3>1 DEF ConnFails
    <3> QED
      BY <3>2 DEF FailsHoldDead
  <2>2. CASE AnswerFails(c)
    <3>1. PICK S \in SUBSET lookups : \E d \in HeadsOf(S) :
            MgError(c, "other", << AnswerFrame(c, d) >>)
      BY <2>2 DEF AnswerFails
    <3>2. PICK d \in HeadsOf(S) : MgError(c, "other", << AnswerFrame(c, d) >>)
      BY <3>1
    <3>3. d \in Conns \union {None}
      BY HeadsType DEF TypeOK, LookupsOK
    <3>4. AnswerFrame(c, d) \in Frame /\ AnswerFrame(c, d).op # "fail"
      BY <3>3, TablesAssumption DEF AnswerFrame, Frame, Slots
    <3>5. OpFrames("fail", stack') = {}
      BY <1>4, <3>2, <3>4
    <3> QED
      BY <3>5 DEF FailsHoldDead
  <2> QED
    BY <1>5, <2>1, <2>2
<1>6. ASSUME NEW c \in Conns, CloseConn(c) PROVE FailsHoldDead'
  <2>1. HandlerFrame.op # "fail"
    BY DEF HandlerFrame
  <2>2. stack' \in {<< HandlerFrame >>, << >>}
    BY <1>6 DEF CloseConn
  <2>3. OpFrames("fail", stack') = {}
    BY <2>1, <2>2, OneFrame
  <2> QED
    BY <2>3 DEF FailsHoldDead
<1>7. ASSUME NEW c \in Conns, ConnStays(c) \/ AnswerConnects(c)
      PROVE  FailsHoldDead'
  BY <1>7, FailsKept DEF ConnStays, AnswerConnects, Cancel, lookupVars
<1> QED
  BY <1>1, <1>2, <1>3, <1>5, <1>6, <1>7 DEF EventLoop

LEMMA FailsApplication ==
    SpareInv /\ TypeOK' /\ Application => FailsHoldDead'
<1> SUFFICES ASSUME SpareInv, TypeOK', Application PROVE FailsHoldDead'
  OBVIOUS
<1> USE DEF SpareInv
<1>1. CASE Begin
  <2>1. stack' = << >>
    BY <1>1 DEF Begin, Quiet
  <2> QED
    BY <2>1, OneFrame DEF FailsHoldDead
<1>2. CASE End
  BY <1>2, FailsKept DEF End, lookupVars
<1>3. ASSUME NEW c \in Conns, Lookup(c) \/ LocalLookup(c) PROVE FailsHoldDead'
  BY <1>3, FailsKept DEF Lookup, LocalLookup, NewConn, lookupVars
<1>4. ASSUME NEW c \in Conns, Abort(c) \/ Delete(c) PROVE FailsHoldDead'
  BY <1>4, FailsKept DEF Abort, Delete, lookupVars
<1>5. ASSUME NEW t \in Tables, SetNameservers(t) PROVE FailsHoldDead'
  <2>1. 0 \in Slots
    BY TablesAssumption DEF Slots
  <2>2. UseNameserver(0, stack) /\ UNCHANGED <<live, current>>
    BY <1>5 DEF SetNameservers, connVars, lookupVars
  <2>3. OpFrames("fail", stack') = OpFrames("fail", stack)
    BY <2>1, <2>2, UseNameserverFrames
  <2> QED
    BY <2>2, <2>3, FailsKept
<1> QED
  BY <1>1, <1>2, <1>3, <1>4, <1>5 DEF Application

LEMMA SpareInit == Init => SpareInv
<1>1. Init => FailsHoldDead
  BY OneFrame DEF Init, FailsHoldDead
<1> QED
  BY <1>1, InitType, EntriesInit DEF SpareInv

LEMMA SpareNext == SpareInv /\ [Next]_vars => SpareInv'
<1> SUFFICES ASSUME SpareInv, [Next]_vars PROVE SpareInv'
  OBVIOUS
<1>1. TypeOK' /\ EntriesPointAtConnections'
  BY NextType, EntriesNext DEF SpareInv
<1>2. CASE UNCHANGED vars
  BY <1>1, <1>2 DEF SpareInv, FailsHoldDead, vars
<1>3. FailsHoldDead'
  BY <1>1, <1>2, FailsActivation, FailsEventLoop, FailsApplication
  DEF Next, Halted, SpareInv, FailsHoldDead, vars
<1> QED
  BY <1>1, <1>3 DEF SpareInv

\* The close of a resolver never fails a lookup that its successor serves, in
\* whatever order handlers start new lookups while dns_cb walks the list.
THEOREM CloseSpares == Spec => CloseSparesSuccessor
<1>1. SpareInv /\ [Next]_vars
        => [TopIs("fail") /\ closing' # closing => Top.at \notin current]_vars
  <2> SUFFICES ASSUME SpareInv, TopIs("fail") PROVE Top.at \notin current
    OBVIOUS
  <2>1. Top \in OpFrames("fail", stack)
    BY TopSame DEF TopIs, SpareInv
  <2> QED
    BY <2>1 DEF SpareInv, FailsHoldDead
<1> QED
  BY <1>1, SpareInit, SpareNext, PTL DEF Spec, CloseSparesSuccessor

-----------------------------------------------------------------------------
(* A "retire" frame holds every lookup that is still waiting *)

\* Only the frame at the bottom of the stack can be about to close a connection.
CloseOnlyLast(s) == \A i \in DOMAIN s : s[i].op = "close" => i = Len(s)

LEMMA PushCloseLast ==
    ASSUME NEW f \in Frame, NEW s \in Seq(Frame), CloseOnlyLast(s),
           f.op # "close"
    PROVE  CloseOnlyLast(Push(f, s))
<1> DEFINE p == Push(f, s)
<1>1. /\ p \in Seq(Frame) /\ Len(p) = Len(s) + 1 /\ p[1] = f
      /\ \A i \in 1 .. Len(s) : p[i + 1] = s[i]
      /\ Len(s) \in Nat
  BY DEF Push
<1> HIDE DEF p
<1> SUFFICES ASSUME NEW i \in DOMAIN p, p[i].op = "close" PROVE i = Len(p)
  BY DEF CloseOnlyLast, p
<1>2. i \in 1 .. (Len(s) + 1) /\ i # 1
  BY <1>1
<1>3. i - 1 \in 1 .. Len(s) /\ i = (i - 1) + 1
  BY <1>1, <1>2
<1>4. s[i - 1].op = "close"
  BY <1>1, <1>3
<1>5. i - 1 = Len(s)
  BY <1>3, <1>4 DEF CloseOnlyLast
<1> QED
  BY <1>1, <1>3, <1>5

LEMMA PopCloseLast ==
    ASSUME NEW s \in Seq(Frame), s # << >>, CloseOnlyLast(s)
    PROVE  /\ CloseOnlyLast(Tail(s))
           /\ Head(s).op = "close" => Tail(s) = << >>
<1>1. /\ Tail(s) \in Seq(Frame) /\ Len(Tail(s)) = Len(s) - 1
      /\ \A i \in 1 .. Len(Tail(s)) : Tail(s)[i] = s[i + 1]
      /\ Len(s) \in Nat \ {0}
  OBVIOUS
<1>2. ASSUME NEW i \in DOMAIN Tail(s), Tail(s)[i].op = "close"
      PROVE  i = Len(Tail(s))
  <2>1. i \in 1 .. Len(Tail(s)) /\ i + 1 \in DOMAIN s
    BY <1>1
  <2>2. s[i + 1].op = "close"
    BY <1>1, <1>2, <2>1
  <2>3. i + 1 = Len(s)
    BY <2>1, <2>2 DEF CloseOnlyLast
  <2> QED
    BY <1>1, <2>1, <2>3
<1>3. ASSUME Head(s).op = "close" PROVE Tail(s) = << >>
  <2>1. s[1].op = "close" /\ 1 \in DOMAIN s
    BY <1>1, <1>3
  <2>2. Len(s) = 1
    BY <2>1 DEF CloseOnlyLast
  <2>3. Tail(s) \in Seq(Frame) /\ Len(Tail(s)) = 0
    BY <1>1, <2>2
  <2>4. \A t \in Seq(Frame) : Len(t) = 0 => t = << >>
    OBVIOUS
  <2> QED
    BY <2>3, <2>4
<1> QED
  BY <1>2, <1>3 DEF CloseOnlyLast

LEMMA OneCloseLast ==
    ASSUME NEW f PROVE CloseOnlyLast(<< f >>) /\ CloseOnlyLast(<< >>)
BY DEF CloseOnlyLast

LEMMA UseNameserverCloseLast ==
    ASSUME TypeOK, NEW i \in Slots, NEW below \in Seq(Frame),
           CloseOnlyLast(below), UseNameserver(i, below)
    PROVE  CloseOnlyLast(stack')
<1>1. RetireFrame(i) \in Frame /\ RetireFrame(i).op # "close"
  BY DEF RetireFrame, Frame, TypeOK, ConnsOK
<1>2. CloseOnlyLast(Push(RetireFrame(i), below))
  BY <1>1, PushCloseLast
<1> QED
  BY <1>2 DEF UseNameserver

LEMMA MgErrorCloseLast ==
    ASSUME TypeOK, NEW c \in Conns, NEW msg, NEW below \in Seq(Frame),
           CloseOnlyLast(below), MgError(c, msg, below)
    PROVE  CloseOnlyLast(stack')
<1> DEFINE err == AtFrame("error", c)
           with == Push(err, below)
<1>1. err \in Frame /\ err.op # "close"
  BY FrameTypes DEF AtFrame
<1> HIDE DEF err
<1>2. with \in Seq(Frame) /\ CloseOnlyLast(with)
  BY <1>1, PushType, PushCloseLast
<1>3. CASE c \notin owned
  BY <1>3 DEF MgError
<1>4. CASE c \in owned
  <2>1. DnsError(msg, with)
    BY <1>4 DEF MgError, err
  <2> HIDE DEF with
  <2>2. CASE ~Rotates(msg)
    BY <1>2, <2>1, <2>2 DEF DnsError
  <2>3. CASE Rotates(msg)
    <3>1. UseNameserver((active + 1) % count, with)
      BY <2>1, <2>3 DEF DnsError
    <3>2. active' \in Slots
      BY <1>2, <2>1, DnsErrorType DEF ServersOK
    <3>3. active' = (active + 1) % count
      BY <3>1 DEF UseNameserver
    <3> QED
      BY <1>2, <3>1, <3>2, <3>3, UseNameserverCloseLast
  <2> QED
    BY <2>2, <2>3
<1> QED
  BY <1>3, <1>4

RetiresHoldWaiting ==
    \A f \in OpFrames("retire", stack) : lookups \ closing \subseteq f.rest

\* Outside closeResolver() a waiting lookup has a resolver or is about to fail.
WaitingCovered ==
    OpFrames("retire", stack) = {} /\ running \notin Broken =>
        \A c \in lookups \ closing :
            \/ c \in current
            \/ \E f \in OpFrames("fail", stack) : c = f.at \/ c \in f.rest

OrphanInv ==
    SpareInv /\ RetiresHoldWaiting /\ WaitingCovered /\ CloseOnlyLast(stack)

\* closeResolver() starts with all of mgr.conns ahead of it.
LEMMA RetiresKept ==
    ASSUME OrphanInv, lookups' \ closing' \subseteq lookups \ closing,
           \/ OpFrames("retire", stack') \subseteq OpFrames("retire", stack)
           \/ \E i \in Slots : OpFrames("retire", stack') =
                {RetireFrame(i)} \union OpFrames("retire", stack)
    PROVE  RetiresHoldWaiting'
<1>1. \A i \in Slots : lookups \ closing \subseteq RetireFrame(i).rest
  BY DEF OrphanInv, SpareInv, EntriesPointAtConnections, RetireFrame
<1> QED
  BY <1>1 DEF OrphanInv, RetiresHoldWaiting

\* A step that takes no waiting lookup's resolver or "fail" frame away.
LEMMA CoveredKept ==
    ASSUME OrphanInv, lookups' \ closing' \subseteq lookups \ closing,
           \A c \in lookups' \ closing' : c \in current => c \in current',
           OpFrames("fail", stack) \subseteq OpFrames("fail", stack'),
           OpFrames("retire", stack) \subseteq OpFrames("retire", stack'),
           running \in Broken => running' \in Broken
    PROVE  WaitingCovered'
BY DEF OrphanInv, WaitingCovered

OrphanStep == RetiresHoldWaiting' /\ WaitingCovered' /\ CloseOnlyLast(stack')

LEMMA OrphanWalk == OrphanInv /\ Walk => OrphanStep
<1> SUFFICES ASSUME OrphanInv, Walk PROVE OrphanStep
  OBVIOUS
<1>1. /\ TypeOK /\ EntriesPointAtConnections /\ FailsHoldDead
      /\ RetiresHoldWaiting /\ WaitingCovered /\ CloseOnlyLast(stack)
  BY DEF OrphanInv, SpareInv
<1>2. /\ stack # << >> /\ Top.op \in {"scan", "fail"}
      /\ Top.rest \in SUBSET Conns /\ stack \in Seq(Frame)
      /\ Tail(stack) \in Seq(Frame) /\ CloseOnlyLast(Tail(stack))
  BY <1>1, TopType, PopCloseLast DEF Walk, TopIs, TypeOK
<1>3. UNCHANGED <<lookups, current, running>>
  BY <1>1, WalkFrames
<1>4. OpFrames("retire", Tail(stack)) = OpFrames("retire", stack)
  BY <1>1, <1>2, TopOther
<1>5. CloseOnlyLast(stack')
  <2>1. ASSUME NEW d \in HeadsOf(Top.rest \intersect lookups), NEW on,
               on = Push(WalkFrame(Top.op, d, Top.rest \intersect lookups),
                         Tail(stack)),
               Top.at \in lookups,
               stack' = on \/ \E msg : MgError(Top.at, msg, on)
        PROVE  CloseOnlyLast(stack')
    <3> DEFINE w == WalkFrame(Top.op, d, Top.rest \intersect lookups)
    <3>1. w \in Frame /\ w.op # "close"
      BY <1>1, <1>2, WalkFrameFacts
    <3> HIDE DEF w
    <3>2. on = Push(w, Tail(stack))
      BY <2>1 DEF w
    <3>3. on \in Seq(Frame) /\ CloseOnlyLast(on)
      BY <1>2, <3>1, <3>2, PushType, PushCloseLast
    <3>4. Top.at \in Conns
      BY <1>1, <2>1 DEF TypeOK, LookupsOK
    <3> QED
      BY <1>1, <2>1, <3>3, <3>4, MgErrorCloseLast
  <2> QED
    BY <1>2, <2>1 DEF Walk
<1>6. CASE Top.at = None /\ stack' = Tail(stack) /\ UNCHANGED closing
  <2>1. RetiresHoldWaiting'
    BY <1>3, <1>4, <1>6, RetiresKept
  <2>2. ASSUME NEW c \in lookups, NEW f \in OpFrames("fail", stack),
               c = f.at \/ c \in f.rest
        PROVE  f \in OpFrames("fail", Tail(stack))
    <3>1. CASE f = Top
      <4>1. f.at = None => f.rest = {}
        BY <1>1 DEF FailsHoldDead
      <4>2. c # None
        BY <1>1, NamesAssumption DEF TypeOK, LookupsOK
      <4> QED
        BY <1>6, <2>2, <3>1, <4>1, <4>2
    <3>2. CASE f # Top
      <4>1. CASE Top.op = "fail"
        BY <1>1, <1>2, <3>2, <4>1, TopSame
      <4>2. CASE Top.op # "fail"
        BY <1>1, <1>2, <4>2, TopOther
      <4> QED
        BY <4>1, <4>2
    <3> QED
      BY <3>1, <3>2
  <2>3. WaitingCovered'
    BY <1>1, <1>3, <1>4, <1>6, <2>2 DEF WaitingCovered
  <2> QED
    BY <1>5, <2>1, <2>3 DEF OrphanStep
<1>7. ASSUME NEW d \in HeadsOf(Top.rest \intersect lookups),
             OpFrames("fail", stack') =
               OpFrames("fail", Tail(stack)) \union
               (IF Top.op = "fail"
                THEN {WalkFrame("fail", d, Top.rest \intersect lookups)}
                ELSE {}),
             closing' \in {closing, closing \union {Top.at}},
             Top.op = "fail" => closing' = closing \union {Top.at},
             \/ OpFrames("retire", stack') = OpFrames("retire", stack)
             \/ \E i \in Slots : OpFrames("retire", stack') =
                  {RetireFrame(i)} \union OpFrames("retire", stack)
      PROVE  OrphanStep
  <2>1. lookups' \ closing' \subseteq lookups \ closing
    BY <1>3, <1>7
  <2>2. RetiresHoldWaiting'
    BY <1>7, <2>1, RetiresKept
  <2>3. OpFrames("retire", stack) \subseteq OpFrames("retire", stack')
    BY <1>7
  <2>4. CASE Top.op # "fail"
    <3>1. OpFrames("fail", stack') = OpFrames("fail", stack)
      BY <1>1, <1>2, <1>7, <2>4, TopOther
    <3> QED
      BY <1>3, <1>5, <2>1, <2>2, <2>3, <3>1, CoveredKept DEF OrphanStep
  <2>5. CASE Top.op = "fail"
    <3> DEFINE w == WalkFrame("fail", d, Top.rest \intersect lookups)
    <3>1. w.at = d /\ w.rest = (Top.rest \intersect lookups) \ {d}
      BY <1>1, <1>2, WalkFrameFacts
    <3>2. OpFrames("fail", stack') = OpFrames("fail", Tail(stack)) \union {w}
      BY <1>7, <2>5
    <3> HIDE DEF w
    <3>3. OpFrames("fail", stack) = {Top} \union OpFrames("fail", Tail(stack))
      BY <1>1, <1>2, <2>5, TopSame
    <3>4. \A c \in lookups : c # Top.at /\ c \in Top.rest
            => c = w.at \/ c \in w.rest
      BY <3>1
    <3>5. closing' = closing \union {Top.at}
      BY <1>7, <2>5
    <3>6. WaitingCovered'
      BY <1>1, <1>3, <2>1, <2>3, <3>2, <3>3, <3>4, <3>5 DEF WaitingCovered
    <3> QED
      BY <1>5, <2>2, <3>6 DEF OrphanStep
  <2> QED
    BY <2>4, <2>5
<1> QED
  BY <1>1, <1>6, <1>7, WalkFrames

LEMMA OrphanRetire ==
    OrphanInv /\ (RetireConn \/ RetireCancel \/ RetireDone) => OrphanStep
<1> SUFFICES ASSUME OrphanInv, RetireConn \/ RetireCancel \/ RetireDone
             PROVE  OrphanStep
  OBVIOUS
<1>1. /\ TypeOK /\ EntriesPointAtConnections
      /\ RetiresHoldWaiting /\ WaitingCovered /\ CloseOnlyLast(stack)
  BY DEF OrphanInv, SpareInv
<1>2. /\ stack # << >> /\ Top.op = "retire" /\ Top \in Frame
      /\ Top.rest \in SUBSET Conns /\ stack \in Seq(Frame)
      /\ Tail(stack) \in Seq(Frame) /\ CloseOnlyLast(Tail(stack))
  BY <1>1, TopType, PopCloseLast
  DEF RetireConn, RetireCancel, RetireDone, RetireWalked, TopIs, TypeOK
<1>3. OpFrames("retire", stack) = {Top} \union OpFrames("retire", Tail(stack))
  BY <1>1, <1>2, TopSame
<1>4. lookups \ closing \subseteq Top.rest
  BY <1>1, <1>3 DEF RetiresHoldWaiting
<1>5. ASSUME NEW f, OpFrames("retire", stack') =
               {f} \union OpFrames("retire", Tail(stack)),
             lookups' \ closing' \subseteq lookups \ closing,
             lookups' \ closing' \subseteq f.rest
      PROVE  RetiresHoldWaiting' /\ WaitingCovered'
  <2>1. RetiresHoldWaiting'
    BY <1>1, <1>3, <1>5 DEF RetiresHoldWaiting
  <2>2. WaitingCovered'
    BY <1>5 DEF WaitingCovered
  <2> QED
    BY <2>1, <2>2
<1>6. CASE RetireConn
  <2>1. PICK c \in Top.rest :
           /\ \E at \in {c, None} : OpFrames("retire", stack') =
                {[Top EXCEPT !.at = at, !.rest = @ \ {c}]}
                  \union OpFrames("retire", Tail(stack))
           /\ \/ /\ closing' = closing \union {c}
                 /\ UNCHANGED <<lookups, current>>
              \/ /\ closing' = closing
                 /\ lookups' = lookups \ {c}
              \/ /\ c \notin resolving \union closing
                 /\ UNCHANGED <<closing, lookups, current>>
    BY <1>1, <1>6, RetireConnFrames
  <2>2. lookups' \ closing' \subseteq (lookups \ closing) \ {c}
    BY <1>1, <2>1 DEF EntriesPointAtConnections
  <2>3. PICK at \in {c, None} : OpFrames("retire", stack') =
                {[Top EXCEPT !.at = at, !.rest = @ \ {c}]}
                  \union OpFrames("retire", Tail(stack))
    BY <2>1
  <2>4. [Top EXCEPT !.at = at, !.rest = @ \ {c}].rest = Top.rest \ {c}
    BY <1>2 DEF Frame
  <2>5. RetiresHoldWaiting' /\ WaitingCovered'
    BY <1>4, <1>5, <2>2, <2>3, <2>4
  <2>6. CloseOnlyLast(stack')
    <3>1. PICK b \in Top.rest : \E at2 \in {b, None} :
            LET on == Push([Top EXCEPT !.at = at2, !.rest = @ \ {b}], Tail(stack))
            IN  stack' = on \/ MgError(b, "DNS error", on)
      BY <1>6 DEF RetireConn
    <3>2. PICK at2 \in {b, None} :
            LET on == Push([Top EXCEPT !.at = at2, !.rest = @ \ {b}], Tail(stack))
            IN  stack' = on \/ MgError(b, "DNS error", on)
      BY <3>1
    <3> DEFINE m == [Top EXCEPT !.at = at2, !.rest = @ \ {b}]
               on == Push(m, Tail(stack))
    <3>3. m \in Frame /\ m.op # "close" /\ b \in Conns
      BY <1>2 DEF Frame
    <3> HIDE DEF m
    <3>4. on \in Seq(Frame) /\ CloseOnlyLast(on)
      BY <1>2, <3>3, PushType, PushCloseLast
    <3>5. stack' = on \/ MgError(b, "DNS error", on)
      BY <3>2 DEF m
    <3> HIDE DEF on
    <3> QED
      BY <1>1, <3>3, <3>4, <3>5, MgErrorCloseLast
  <2> QED
    BY <2>5, <2>6 DEF OrphanStep
<1>7. CASE RetireCancel
  <2> DEFINE m == [Top EXCEPT !.at = None]
  <2>1. m \in Frame /\ m.op = "retire" /\ m.rest = Top.rest
    BY <1>2 DEF Frame
  <2>2. /\ stack' = Push(m, Tail(stack))
        /\ lookups' \subseteq lookups /\ closing' = closing
    BY <1>7 DEF RetireCancel, Cancel, connVars
  <2> HIDE DEF m
  <2>3. OpFrames("retire", Push(m, Tail(stack))) =
          {m} \union OpFrames("retire", Tail(stack))
    BY <1>2, <2>1, PushSame
  <2>4. CloseOnlyLast(stack')
    BY <1>2, <2>1, <2>2, PushCloseLast
  <2>5. RetiresHoldWaiting' /\ WaitingCovered'
    BY <1>4, <1>5, <2>1, <2>2, <2>3
  <2> QED
    BY <2>4, <2>5 DEF OrphanStep
<1>8. CASE RetireDone
  <2>1. /\ Top.rest = {} /\ stack' = Tail(stack)
        /\ lookups' = lookups /\ closing' = closing
    BY <1>8 DEF RetireDone, RetireWalked, connVars
  <2>2. lookups' \ closing' = {}
    BY <1>4, <2>1
  <2> QED
    BY <1>2, <2>1, <2>2 DEF OrphanStep, RetiresHoldWaiting, WaitingCovered
<1> QED
  BY <1>6, <1>7, <1>8

LEMMA OrphanReturn ==
    OrphanInv /\ (AnswerReturns \/ OnError \/ HandlerReturns) => OrphanStep
<1> SUFFICES ASSUME OrphanInv, AnswerReturns \/ OnError \/ HandlerReturns
             PROVE  OrphanStep
  OBVIOUS
<1>1. TypeOK /\ CloseOnlyLast(stack) /\ stack \in Seq(Frame)
  BY DEF OrphanInv, SpareInv, TypeOK
<1>2. /\ stack # << >> /\ Top.op \in {"answer", "error", "handler"}
      /\ Tail(stack) \in Seq(Frame) /\ CloseOnlyLast(Tail(stack))
  BY <1>1, TopType, PopCloseLast
  DEF AnswerReturns, OnError, HandlerReturns, TopIs
<1>3. HandlerFrame \in Frame /\ HandlerFrame.op = "handler"
  BY TablesAssumption DEF HandlerFrame, Frame, Slots
<1>4. /\ OpFrames("fail", Tail(stack)) = OpFrames("fail", stack)
      /\ OpFrames("retire", Tail(stack)) = OpFrames("retire", stack)
  BY <1>1, <1>2, TopOther
<1>5. /\ OpFrames("fail", Push(HandlerFrame, Tail(stack))) = OpFrames("fail", stack)
      /\ OpFrames("retire", Push(HandlerFrame, Tail(stack))) =
           OpFrames("retire", stack)
      /\ CloseOnlyLast(Push(HandlerFrame, Tail(stack)))
  BY <1>2, <1>3, <1>4, PushOther, PushCloseLast
<1>6. stack' \in {Tail(stack), Push(HandlerFrame, Tail(stack))}
  BY DEF AnswerReturns, OnError, HandlerReturns
<1>7. /\ lookups' \ closing' \subseteq lookups \ closing
      /\ \A c \in lookups' \ closing' : c \in current => c \in current'
      /\ running' = running
  BY DEF AnswerReturns, OnError, HandlerReturns, Cancel, connVars, lookupVars,
     loopVars
<1>8. /\ OpFrames("fail", stack') = OpFrames("fail", stack)
      /\ OpFrames("retire", stack') = OpFrames("retire", stack)
      /\ CloseOnlyLast(stack')
  BY <1>2, <1>4, <1>5, <1>6
<1> QED
  BY <1>7, <1>8, RetiresKept, CoveredKept DEF OrphanStep

LEMMA OrphanActivation == OrphanInv /\ Activation => OrphanStep
<1> SUFFICES ASSUME OrphanInv, Activation PROVE OrphanStep
  OBVIOUS
<1>1. CASE WalkFreed \/ AnswerFreed \/ RetireNull \/ OnErrorDeleted
  <2>1. stack' = << >> /\ running' \in Broken
    BY <1>1 DEF WalkFreed, AnswerFreed, RetireNull, OnErrorDeleted, Break, Broken
  <2> QED
    BY <2>1, OneFrame, OneCloseLast
    DEF OrphanStep, RetiresHoldWaiting, WaitingCovered
<1> QED
  BY <1>1, OrphanWalk, OrphanRetire, OrphanReturn DEF Activation

\* A step that leaves the stack alone.
LEMMA OrphanSameStack ==
    ASSUME OrphanInv, UNCHANGED stack,
           lookups' \ closing' \subseteq lookups \ closing,
           \A c \in lookups' \ closing' : c \in current => c \in current',
           running \in Broken => running' \in Broken
    PROVE  OrphanStep
BY RetiresKept, CoveredKept DEF OrphanStep, OrphanInv

LEMMA OrphanEventLoop == OrphanInv /\ (EventLoop \/ Tick) => OrphanStep
<1> SUFFICES ASSUME OrphanInv, EventLoop \/ Tick PROVE OrphanStep
  OBVIOUS
<1>1. /\ TypeOK /\ EntriesPointAtConnections
      /\ RetiresHoldWaiting /\ WaitingCovered /\ CloseOnlyLast(stack)
  BY DEF OrphanInv, SpareInv
<1>2. CASE \/ BeginPass \/ NoAnswer \/ ResolverStays \/ RetiredCloses
           \/ Ended \/ Tick
  <2>1. UNCHANGED <<stack, lookups, closing, current>>
        /\ (running \in Broken => running' \in Broken)
    BY <1>2 DEF BeginPass, NoAnswer, ResolverStays, RetiredCloses, Ended, Tick,
       connVars, lookupVars, loopVars, Broken
  <2> QED
    BY <2>1, OrphanSameStack
<1>3. CASE ResolverTurn
  <2>1. PICK d \in HeadsOf(lookups) : stack' = << WalkFrame("scan", d, lookups) >>
    BY <1>3 DEF ResolverTurn
  <2>2. WalkFrame("scan", d, lookups).op = "scan"
    BY DEF WalkFrame
  <2>3. OpFrames("fail", stack') = {} /\ OpFrames("retire", stack') = {}
    BY <2>1, <2>2, OneFrame
  <2>4. /\ stack = << >> /\ running' = running
        /\ UNCHANGED <<lookups, closing, current>>
    BY <1>3 DEF ResolverTurn, InPass, connVars, lookupVars
  <2>5. OpFrames("fail", stack) = {} /\ OpFrames("retire", stack) = {}
    BY <2>4, OneFrame
  <2> QED
    BY <2>1, <2>3, <2>4, <2>5, OneCloseLast, RetiresKept, CoveredKept
    DEF OrphanStep
<1>4. CASE ResolverCloses
  <2>1. PICK d \in HeadsOf(lookups) : stack' = << WalkFrame("fail", d, lookups) >>
    BY <1>4 DEF ResolverCloses
  <2> DEFINE w == WalkFrame("fail", d, lookups)
  <2>2. w.op = "fail" /\ w.at = d /\ w.rest = lookups \ {d}
    BY <1>1, WalkFrameFacts DEF TypeOK, LookupsOK
  <2>3. lookups' = lookups
    BY <1>4 DEF ResolverCloses
  <2> HIDE DEF w
  <2>4. stack' = << w >>
    BY <2>1 DEF w
  <2>5. OpFrames("fail", stack') = {w} /\ OpFrames("retire", stack') = {}
    BY <2>2, <2>4, OneFrame
  <2>6. RetiresHoldWaiting' /\ WaitingCovered'
    BY <2>2, <2>3, <2>5 DEF RetiresHoldWaiting, WaitingCovered
  <2> QED
    BY <2>4, <2>6, OneCloseLast DEF OrphanStep
<1>5. ASSUME NEW c \in Conns, NEW f \in Frame, f.op \notin {"fail", "retire"},
             MgError(c, "other", << f >>), stack = << >>,
             UNCHANGED <<lookups, current, running>>
      PROVE  OrphanStep
  <2>1. /\ << f >> \in Seq(Frame) /\ "other" # "DNS timeout"
        /\ CloseOnlyLast(<< f >>)
    BY OneCloseLast
  <2>2. /\ closing' = closing \union {c}
        /\ OpFrames("fail", stack') = OpFrames("fail", << f >>)
        /\ OpFrames("retire", stack') = OpFrames("retire", << f >>)
    BY <1>1, <1>5, <2>1, MgErrorPlain
  <2>3. /\ OpFrames("fail", << f >>) = {} /\ OpFrames("retire", << f >>) = {}
        /\ OpFrames("fail", stack) = {} /\ OpFrames("retire", stack) = {}
    BY <1>5, OneFrame
  <2>4. CloseOnlyLast(stack')
    BY <1>1, <1>5, <2>1, MgErrorCloseLast
  <2> QED
    BY <1>5, <2>2, <2>3, <2>4, RetiresKept, CoveredKept DEF OrphanStep
<1>6. ASSUME NEW c \in Conns, ConnFails(c) PROVE OrphanStep
  <2>1. AtFrame("close", c) \in Frame
        /\ AtFrame("close", c).op \notin {"fail", "retire"}
    BY FrameTypes DEF AtFrame
  <2> QED
    BY <1>5, <1>6, <2>1 DEF ConnFails, ConnTurn, InPass, lookupVars
<1>7. ASSUME NEW c \in Conns, AnswerFails(c) PROVE OrphanStep
  <2>1. PICK S \in SUBSET lookups : \E d \in HeadsOf(S) :
          MgError(c, "other", << AnswerFrame(c, d) >>)
    BY <1>7 DEF AnswerFails
  <2>2. PICK d \in HeadsOf(S) : MgError(c, "other", << AnswerFrame(c, d) >>)
    BY <2>1
  <2>3. d \in Conns \union {None}
    BY <1>1, HeadsType DEF TypeOK, LookupsOK
  <2>4. AnswerFrame(c, d) \in Frame
        /\ AnswerFrame(c, d).op \notin {"fail", "retire"}
    BY <2>3, TablesAssumption DEF AnswerFrame, Frame, Slots
  <2>5. stack = << >> /\ UNCHANGED <<lookups, current, running>>
    BY <1>7 DEF AnswerFails, ResolverIo, lookupVars
  <2> QED
    BY <1>5, <2>2, <2>4, <2>5
<1>8. ASSUME NEW c \in Conns, CloseConn(c) PROVE OrphanStep
  <2>1. OpFrames("fail", stack) = {} /\ OpFrames("retire", stack) = {}
    <3>1. CASE stack = << >>
      BY <3>1, OneFrame
    <3>2. CASE TopIs("close")
      <4>1. stack # << >> /\ stack \in Seq(Frame) /\ Head(stack).op = "close"
        BY <1>1, <3>2 DEF TopIs, Top, TypeOK
      <4>2. Tail(stack) = << >>
        BY <1>1, <4>1, PopCloseLast
      <4>3. /\ OpFrames("fail", Tail(stack)) = OpFrames("fail", stack)
            /\ OpFrames("retire", Tail(stack)) = OpFrames("retire", stack)
        BY <4>1, PopOther
      <4> QED
        BY <4>2, <4>3, OneFrame
    <3> QED
      BY <1>8, <3>1, <3>2 DEF CloseConn, ConnTurn, InPass
  <2>2. HandlerFrame.op = "handler" /\ stack' \in {<< HandlerFrame >>, << >>}
    BY <1>8 DEF CloseConn, HandlerFrame
  <2>3. /\ OpFrames("fail", stack') = {} /\ OpFrames("retire", stack') = {}
        /\ CloseOnlyLast(stack')
    BY <2>2, OneFrame, OneCloseLast
  <2>4. /\ lookups' \ closing' \subseteq lookups \ closing
        /\ \A b \in lookups' \ closing' : b \in current => b \in current'
        /\ running' = running
    BY <1>8 DEF CloseConn
  <2> QED
    BY <2>1, <2>3, <2>4, RetiresKept, CoveredKept DEF OrphanStep
<1>9. ASSUME NEW c \in Conns, ConnStays(c) \/ AnswerConnects(c)
      PROVE  OrphanStep
  <2>1. /\ UNCHANGED stack /\ running' = running
        /\ lookups' \ closing' \subseteq lookups \ closing
        /\ \A b \in lookups' \ closing' : b \in current => b \in current'
    BY <1>9 DEF ConnStays, AnswerConnects, Cancel, lookupVars
  <2> QED
    BY <2>1, OrphanSameStack
<1> QED
  BY <1>2, <1>3, <1>4, <1>6, <1>7, <1>8, <1>9 DEF EventLoop

LEMMA OrphanApplication ==
    ASSUME "lookup" \notin RetireCalls
    PROVE  OrphanInv /\ Application => OrphanStep
<1> SUFFICES ASSUME OrphanInv, Application PROVE OrphanStep
  OBVIOUS
<1>1. TypeOK /\ CloseOnlyLast(stack) /\ stack \in Seq(Frame)
  BY DEF OrphanInv, SpareInv, TypeOK
<1>2. CASE Begin
  <2>1. stack' = << >> /\ lookups' = {}
    BY <1>2 DEF Begin, Quiet
  <2> QED
    BY <2>1, OneFrame, OneCloseLast
    DEF OrphanStep, RetiresHoldWaiting, WaitingCovered
<1>3. CASE End
  <2>1. /\ UNCHANGED <<stack, lookups, current>> /\ closing' = live
        /\ running \notin Broken
    BY <1>3 DEF End, lookupVars, Broken
  <2>2. lookups' \ closing' = {}
    BY <2>1 DEF OrphanInv, SpareInv, EntriesPointAtConnections
  <2> QED
    BY <2>1, <2>2, OrphanSameStack
<1>4. ASSUME NEW c \in Conns, Lookup(c) PROVE OrphanStep
  <2>1. OpFrames("retire", stack) = {}
    <3>1. May("lookup")
      BY <1>4 DEF Lookup
    <3>2. stack = << >> \/ ~InRetire
      BY <3>1 DEF May, Quiet
    <3> QED
      BY <3>2, InRetireFrames, OneFrame
  <2>2. /\ UNCHANGED <<stack, closing, running>>
        /\ lookups' = lookups \union {c} /\ current' = current \union {c}
    BY <1>4 DEF Lookup, NewConn
  <2> QED
    BY <1>1, <2>1, <2>2
    DEF OrphanStep, OrphanInv, RetiresHoldWaiting, WaitingCovered
<1>5. ASSUME NEW c \in Conns, LocalLookup(c) \/ Abort(c) \/ Delete(c)
      PROVE  OrphanStep
  <2>1. /\ UNCHANGED <<stack, lookups, current, running>>
        /\ closing \subseteq closing'
    BY <1>5 DEF LocalLookup, NewConn, Abort, Delete, lookupVars, loopVars
  <2> QED
    BY <2>1, OrphanSameStack
<1>6. ASSUME NEW t \in Tables, SetNameservers(t) PROVE OrphanStep
  <2>1. 0 \in Slots
    BY TablesAssumption DEF Slots
  <2>2. UseNameserver(0, stack) /\ UNCHANGED <<lookups, closing, current, running>>
    BY <1>6 DEF SetNameservers, connVars, lookupVars, loopVars
  <2>3. /\ OpFrames("fail", stack') = OpFrames("fail", stack)
        /\ \/ OpFrames("retire", stack') = OpFrames("retire", stack)
           \/ OpFrames("retire", stack') =
                {RetireFrame(0)} \union OpFrames("retire", stack)
    BY <1>1, <2>1, <2>2, UseNameserverFrames
  <2>4. CloseOnlyLast(stack')
    BY <1>1, <2>1, <2>2, UseNameserverCloseLast
  <2>5. RetiresHoldWaiting'
    BY <2>1, <2>2, <2>3, RetiresKept
  <2>6. WaitingCovered'
    BY <2>2, <2>3, CoveredKept
  <2> QED
    BY <2>4, <2>5, <2>6 DEF OrphanStep
<1> QED
  BY <1>2, <1>3, <1>4, <1>5, <1>6 DEF Application

LEMMA OrphanInit == Init => OrphanInv
<1> SUFFICES ASSUME Init PROVE OrphanInv
  OBVIOUS
<1>1. stack = << >> /\ lookups = {}
  BY DEF Init
<1> QED
  BY <1>1, OneFrame, OneCloseLast, SpareInit
  DEF OrphanInv, RetiresHoldWaiting, WaitingCovered

LEMMA OrphanNext ==
    ASSUME "lookup" \notin RetireCalls
    PROVE  OrphanInv /\ [Next]_vars => OrphanInv'
<1> SUFFICES ASSUME OrphanInv, [Next]_vars PROVE OrphanInv'
  OBVIOUS
<1>1. SpareInv'
  BY SpareNext DEF OrphanInv
<1>2. OrphanStep
  <2>1. CASE UNCHANGED vars
    BY <2>1, OrphanSameStack DEF vars
  <2> QED
    BY <2>1, OrphanActivation, OrphanEventLoop, OrphanApplication
    DEF Next, Halted
<1> QED
  BY <1>1, <1>2 DEF OrphanInv, OrphanStep

\* As long as no handler that closeResolver() is waiting for starts a lookup,
\* every lookup that has not failed is one that today's resolver was asked or
\* that dns_cb is about to fail: none waits for a socket that is gone.
THEOREM NoOrphans ==
    ASSUME "lookup" \notin RetireCalls
    PROVE  Spec => []NoOrphanedLookup
<1>1. OrphanInv => NoOrphanedLookup
  <2> SUFFICES ASSUME OrphanInv, ~InRetire, running \notin Broken,
                      NEW c \in lookups \ closing, c \notin current
               PROVE  \E i \in DOMAIN stack : stack[i].op = "fail"
    BY DEF NoOrphanedLookup
  <2>1. OpFrames("retire", stack) = {}
    BY InRetireFrames
  <2>2. PICK f \in OpFrames("fail", stack) : c = f.at \/ c \in f.rest
    BY <2>1 DEF OrphanInv, WaitingCovered
  <2> QED
    BY <2>2 DEF OpFrames, Elems
<1>2. OrphanInv /\ [Next]_vars => OrphanInv'
  BY OrphanNext
<1> QED
  BY <1>1, <1>2, OrphanInit, PTL DEF Spec

-----------------------------------------------------------------------------
(* What a step does to the stack, whatever the frames on it *)

LEMMA RetireFrameFacts ==
    ASSUME TypeOK, NEW i \in Slots
    PROVE  /\ RetireFrame(i) \in Frame /\ RetireFrame(i).op = "retire"
           /\ RetireFrame(i).slot = i
BY DEF RetireFrame, Frame, TypeOK, ConnsOK

LEMMA ErrorFrameFacts ==
    ASSUME NEW c \in Conns
    PROVE  /\ AtFrame("error", c) \in Frame /\ AtFrame("error", c).op = "error"
           /\ AtFrame("error", c).at = c
           /\ AtFrame("close", c) \in Frame /\ AtFrame("close", c).op = "close"
           /\ AtFrame("close", c).at = c
           /\ HandlerFrame \in Frame /\ HandlerFrame.op = "handler"
BY FrameTypes DEF AtFrame, HandlerFrame

\* mg_error() leaves the owner's onError() to be called, and on top of it the
\* closeResolver() of a rotation.
LEMMA MgErrorStack ==
    ASSUME TypeOK, NEW c \in Conns, NEW msg, NEW below \in Seq(Frame),
           MgError(c, msg, below)
    PROVE  \/ c \notin owned /\ stack' = below /\ UNCHANGED <<tableVars, serverVars>>
           \/ /\ c \in owned /\ stack' = Push(AtFrame("error", c), below)
              /\ UNCHANGED <<tableVars, serverVars>>
           \/ /\ c \in owned /\ Rotates(msg) /\ UNCHANGED tableVars
              /\ (active + 1) % count \in Slots
              /\ UseNameserver((active + 1) % count, Push(AtFrame("error", c), below))
<1>1. CASE c \notin owned
  BY <1>1 DEF MgError
<1>2. CASE c \in owned
  <2> DEFINE with == Push(AtFrame("error", c), below)
  <2>1. DnsError(msg, with) /\ with \in Seq(Frame)
    BY <1>2, ErrorFrameFacts, PushType DEF MgError
  <2>2. active' \in Slots
    BY <2>1, DnsErrorType DEF ServersOK
  <2> QED
    BY <1>2, <2>1, <2>2 DEF DnsError, UseNameserver
<1> QED
  BY <1>1, <1>2

\* A walk goes on below what its callback pushes.
LEMMA WalkStack ==
    ASSUME TypeOK, Walk
    PROVE  \/ /\ stack' = Tail(stack)
              /\ UNCHANGED <<closing, errors, tableVars, serverVars>>
           \/ \E w \in Frame : LET on == Push(w, Tail(stack)) IN
                /\ w.op = Top.op /\ w.at \in lookups \union {None}
                /\ on \in Seq(Frame) /\ Top.at \in Conns
                /\ \/ stack' = on /\ UNCHANGED <<closing, errors, tableVars, serverVars>>
                   \/ MgError(Top.at, "DNS timeout", on) /\ Top.op = "scan"
                   \/ MgError(Top.at, "DNS error", on)
<1>1. stack # << >> /\ Top.op \in {"scan", "fail"}
  BY DEF Walk, TopIs
<1>2. Tail(stack) \in Seq(Frame) /\ Top.rest \in SUBSET Conns
  BY <1>1, TopType DEF TypeOK
<1>3. CASE Top.at \in lookups
  <2>1. Top.at \in Conns
    BY <1>3 DEF TypeOK, LookupsOK
  <2>2. ASSUME NEW d \in HeadsOf(Top.rest \intersect lookups)
        PROVE  LET w == WalkFrame(Top.op, d, Top.rest \intersect lookups)
               IN  /\ w \in Frame /\ w.op = Top.op /\ w.at \in lookups \union {None}
                   /\ Push(w, Tail(stack)) \in Seq(Frame)
    <3> DEFINE w == WalkFrame(Top.op, d, Top.rest \intersect lookups)
    <3>1. w \in Frame /\ w.op = Top.op /\ w.at = d
      BY <1>1, <1>2, <2>2, WalkFrameFacts
    <3>2. d \in lookups \union {None}
      BY <1>1, <1>2, <2>2, WalkFrameFacts
    <3> HIDE DEF w
    <3>3. Push(w, Tail(stack)) \in Seq(Frame)
      BY <1>2, <3>1, PushType
    <3> QED
      BY <3>1, <3>2, <3>3 DEF w
  <2>3. \/ stack' = Tail(stack) /\ UNCHANGED <<closing, errors, tableVars, serverVars>>
        \/ \E d \in HeadsOf(Top.rest \intersect lookups) :
             LET on == Push(WalkFrame(Top.op, d, Top.rest \intersect lookups),
                            Tail(stack))
             IN  \/ stack' = on /\ UNCHANGED <<closing, errors, tableVars, serverVars>>
                 \/ MgError(Top.at, "DNS timeout", on) /\ Top.op = "scan"
                 \/ MgError(Top.at, "DNS error", on)
    BY DEF Walk
  <2> HIDE DEF WalkFrame, HeadsOf
  <2> QED
    BY <2>1, <2>2, <2>3
<1>4. CASE Top.at \notin lookups
  BY <1>4 DEF Walk
<1> QED
  BY <1>3, <1>4

-----------------------------------------------------------------------------
(* end().  Its single poll visits all there was, in a state in which all   *)
(* of it is about to be closed: what has not been closed yet is still to   *)
(* be visited, or waits in the one "close" frame.                          *)

Marked(c) == \E f \in OpFrames("close", stack) : f.at = c

Ends ==
    /\ owned \subseteq live
    /\ running = "off" => owned = {} /\ lookups = {}
    /\ running = "ending" =>
           /\ live \subseteq closing
           /\ \A c \in owned \union lookups : c \in pass \/ Marked(c)
EndInv == TypeOK /\ EntriesPointAtConnections /\ CloseOnlyLast(stack) /\ Ends
EndStep == CloseOnlyLast(stack') /\ Ends'

\* A step that takes nothing from the poll that end() makes.
LEMMA EndsKept ==
    ASSUME EndInv, owned' \subseteq owned, lookups' \subseteq lookups,
           UNCHANGED <<live, running>>, closing \subseteq closing',
           pass \subseteq pass' \union {Resolver},
           OpFrames("close", stack) \subseteq OpFrames("close", stack')
    PROVE  Ends'
<1>1. \A c \in owned \union lookups : c \in Conns /\ c # Resolver
  BY NamesAssumption DEF EndInv, TypeOK, ConnsOK, LookupsOK
<1> QED
  BY <1>1 DEF EndInv, Ends, Marked

LEMMA EndsBroken ==
    ASSUME EndInv, NEW what \in Broken, Break(what)
    PROVE  EndStep
<1>1. running' # "off" /\ running' # "ending" /\ stack' = << >>
      /\ UNCHANGED <<owned, live>>
  BY DEF Break, Broken, connVars
<1> QED
  BY <1>1, OneCloseLast DEF EndInv, EndStep, Ends

\* What is pushed comes on top.
LEMMA PushCloses ==
    ASSUME NEW f \in Frame, NEW s \in Seq(Frame)
    PROVE  OpFrames("close", s) \subseteq OpFrames("close", Push(f, s))
BY PushElems DEF OpFrames

LEMMA MgErrorCloses ==
    ASSUME TypeOK, NEW c \in Conns, NEW msg, NEW below \in Seq(Frame),
           MgError(c, msg, below)
    PROVE  OpFrames("close", below) \subseteq OpFrames("close", stack')
<1> DEFINE with == Push(AtFrame("error", c), below)
<1>1. with \in Seq(Frame)
      /\ OpFrames("close", below) \subseteq OpFrames("close", with)
  BY ErrorFrameFacts, PushType, PushCloses
<1>2. CASE stack' = below \/ stack' = with
  BY <1>1, <1>2
<1> HIDE DEF with
<1>3. ASSUME NEW i \in Slots, UseNameserver(i, with)
      PROVE  OpFrames("close", below) \subseteq OpFrames("close", stack')
  <2>1. OpFrames("close", with) \subseteq OpFrames("close", Push(RetireFrame(i), with))
    BY <1>1, <1>3, RetireFrameFacts, PushCloses
  <2> QED
    BY <1>1, <1>3, <2>1 DEF UseNameserver
<1> QED
  BY <1>2, <1>3, MgErrorStack DEF with

\* An activation other than "close" is popped.
LEMMA PopCloses ==
    ASSUME EndInv, stack # << >>, Top.op # "close"
    PROVE  /\ CloseOnlyLast(Tail(stack))
           /\ OpFrames("close", Tail(stack)) = OpFrames("close", stack)
<1>1. stack \in Seq(Frame)
  BY DEF EndInv, TypeOK
<1> QED
  BY <1>1, TopOther, PopCloseLast DEF EndInv

\* ... and one that is not "close" either takes its place.
LEMMA MoveCloses ==
    ASSUME EndInv, stack # << >>, Top.op # "close", NEW f \in Frame, f.op # "close"
    PROVE  LET s == Push(f, Tail(stack)) IN
           /\ s \in Seq(Frame) /\ CloseOnlyLast(s)
           /\ OpFrames("close", stack) \subseteq OpFrames("close", s)
<1>1. Tail(stack) \in Seq(Frame)
  BY TopType DEF EndInv, TypeOK
<1> QED
  BY <1>1, PopCloses, PushCloseLast, PushCloses, PushType

LEMMA EndsWalk == EndInv /\ Walk => EndStep
<1> SUFFICES ASSUME EndInv, Walk PROVE EndStep
  OBVIOUS
<1>1. stack # << >> /\ Top.op # "close"
  BY DEF Walk, TopIs
<1>2. UNCHANGED <<owned, lookups, live, running, pass>>
  BY DEF Walk, lookupVars, loopVars
<1>3. CASE stack' = Tail(stack) /\ UNCHANGED closing
  BY <1>1, <1>2, <1>3, PopCloses, EndsKept DEF EndStep
<1>4. ASSUME NEW w \in Frame, w.op = Top.op, Top.at \in Conns,
             NEW on \in Seq(Frame), on = Push(w, Tail(stack)),
             \/ stack' = on /\ UNCHANGED closing
             \/ \E msg \in {"DNS timeout", "DNS error"} : MgError(Top.at, msg, on)
      PROVE  EndStep
  <2>1. CloseOnlyLast(on) /\ OpFrames("close", stack) \subseteq OpFrames("close", on)
    BY <1>1, <1>4, MoveCloses
  <2>2. CASE stack' = on /\ UNCHANGED closing
    BY <1>2, <2>1, <2>2, EndsKept DEF EndStep
  <2>3. ASSUME NEW msg, MgError(Top.at, msg, on) PROVE EndStep
    <3>1. CloseOnlyLast(stack')
          /\ OpFrames("close", on) \subseteq OpFrames("close", stack')
      BY <1>4, <2>1, <2>3, MgErrorCloseLast, MgErrorCloses DEF EndInv
    <3>2. closing \subseteq closing'
      BY <2>3 DEF MgError
    <3> QED
      BY <1>2, <2>1, <3>1, <3>2, EndsKept DEF EndStep
  <2> QED
    BY <1>4, <2>2, <2>3
<1>5. \/ stack' = Tail(stack) /\ UNCHANGED closing
      \/ \E w \in Frame : LET on == Push(w, Tail(stack)) IN
           /\ w.op = Top.op /\ on \in Seq(Frame) /\ Top.at \in Conns
           /\ \/ stack' = on /\ UNCHANGED closing
              \/ \E msg \in {"DNS timeout", "DNS error"} : MgError(Top.at, msg, on)
  BY WalkStack DEF EndInv
<1> QED
  BY <1>3, <1>4, <1>5

LEMMA EndsRetireConn == EndInv /\ RetireConn => EndStep
<1> SUFFICES ASSUME EndInv, RetireConn PROVE EndStep
  OBVIOUS
<1>1. stack # << >> /\ Top.op = "retire" /\ stack \in Seq(Frame)
  BY DEF RetireConn, TopIs, EndInv, TypeOK
<1>2. UNCHANGED <<owned, live, running, pass>> /\ lookups' \subseteq lookups
      /\ closing \subseteq closing'
  BY DEF RetireConn, loopVars, lookupVars, MgError, Cancel
<1>3. PICK c \in Top.rest : LET on(at) ==
             Push([Top EXCEPT !.at = at, !.rest = @ \ {c}], Tail(stack))
         IN  MgError(c, "DNS error", on(c)) \/ stack' = on(None)
  BY DEF RetireConn
<1>4. Top \in Frame /\ Top.rest \in SUBSET Conns
  BY <1>1, TopType
<1>5. ASSUME NEW at \in Conns \union {None}
      PROVE  LET on == Push([Top EXCEPT !.at = at, !.rest = @ \ {c}], Tail(stack))
             IN  /\ on \in Seq(Frame) /\ CloseOnlyLast(on)
                 /\ OpFrames("close", stack) \subseteq OpFrames("close", on)
  <2> DEFINE f == [Top EXCEPT !.at = at, !.rest = @ \ {c}]
  <2>1. f \in Frame
    BY <1>4, MovedFrameType
  <2>2. f.op = "retire"
    BY <1>1, <1>4 DEF Frame
  <2> HIDE DEF f
  <2>3. LET on == Push(f, Tail(stack))
        IN  /\ on \in Seq(Frame) /\ CloseOnlyLast(on)
            /\ OpFrames("close", stack) \subseteq OpFrames("close", on)
    BY <1>1, <2>1, <2>2, MoveCloses
  <2> QED
    BY <2>3 DEF f
<1>6. CASE stack' = Push([Top EXCEPT !.at = None, !.rest = @ \ {c}], Tail(stack))
  BY <1>2, <1>5, <1>6, EndsKept DEF EndStep
<1>7. CASE MgError(c, "DNS error",
                   Push([Top EXCEPT !.at = c, !.rest = @ \ {c}], Tail(stack)))
  <2>1. PICK on \in Seq(Frame) :
           /\ MgError(c, "DNS error", on) /\ CloseOnlyLast(on)
           /\ OpFrames("close", stack) \subseteq OpFrames("close", on)
    BY <1>4, <1>5, <1>7
  <2>2. c \in Conns
    BY <1>4
  <2>3. CloseOnlyLast(stack')
        /\ OpFrames("close", on) \subseteq OpFrames("close", stack')
    BY <2>1, <2>2, MgErrorCloseLast, MgErrorCloses DEF EndInv
  <2> QED
    BY <1>2, <2>1, <2>3, EndsKept DEF EndStep
<1> QED
  BY <1>3, <1>6, <1>7

LEMMA EndsActivation == EndInv /\ Activation => EndStep
<1> SUFFICES ASSUME EndInv, Activation PROVE EndStep
  OBVIOUS
<1>1. CASE WalkFreed \/ AnswerFreed \/ RetireNull \/ OnErrorDeleted
  BY <1>1, EndsBroken DEF WalkFreed, AnswerFreed, RetireNull, OnErrorDeleted, Broken
<1>2. CASE AnswerReturns \/ RetireDone \/ HandlerReturns
  <2>1. stack # << >> /\ Top.op # "close" /\ stack' = Tail(stack)
    BY <1>2 DEF AnswerReturns, RetireDone, RetireWalked, HandlerReturns, TopIs
  <2>2. UNCHANGED <<live, owned, running, closing>> /\ lookups' \subseteq lookups
        /\ pass \subseteq pass' \union {Resolver}
    BY <1>2 DEF AnswerReturns, RetireDone, HandlerReturns, Cancel, connVars, loopVars,
       lookupVars
  <2> QED
    BY <2>1, <2>2, PopCloses, EndsKept DEF EndStep
<1>3. CASE RetireCancel \/ OnError
  <2>1. stack # << >> /\ Top.op # "close"
    BY <1>3 DEF RetireCancel, OnError, TopIs
  <2>2. UNCHANGED <<live, owned, running, closing, pass>> /\ lookups' \subseteq lookups
    BY <1>3 DEF RetireCancel, OnError, Cancel, connVars, loopVars, lookupVars
  <2>3. PICK f \in Frame : f.op # "close" /\ stack' = Push(f, Tail(stack))
    <3>1. CASE RetireCancel
      <4>1. Top \in Frame
        BY <2>1, TopType DEF EndInv, TypeOK
      <4>2. [Top EXCEPT !.at = None] \in Frame /\ [Top EXCEPT !.at = None].op = Top.op
        BY <4>1 DEF Frame
      <4> QED
        BY <2>1, <3>1, <4>2 DEF RetireCancel
    <3>2. CASE OnError
      <4>1. HandlerFrame \in Frame /\ HandlerFrame.op # "close"
        BY TablesAssumption DEF HandlerFrame, Frame, Slots
      <4> QED
        BY <3>2, <4>1 DEF OnError
    <3> QED
      BY <1>3, <3>1, <3>2
  <2> QED
    BY <2>1, <2>2, <2>3, MoveCloses, EndsKept DEF EndStep
<1> QED
  BY <1>1, <1>2, <1>3, EndsWalk, EndsRetireConn DEF Activation

\* Between activations nothing is on the stack to be lost.
LEMMA IdleCloses == stack = << >> => OpFrames("close", stack) = {}
BY OneFrame

LEMMA EndsTurn ==
    ASSUME EndInv, NEW c \in Conns,
           ConnFails(c) \/ ConnStays(c) \/ CloseConn(c)
    PROVE  EndStep
<1>1. stack \in Seq(Frame) /\ OpFrames("close", << >>) = {}
  BY OneFrame DEF EndInv, TypeOK
<1>2. CASE ConnFails(c)
  <2>1. stack = << >> /\ UNCHANGED <<live, owned, lookups, running>>
        /\ closing \subseteq closing' /\ pass' = pass \ {c}
        /\ MgError(c, "other", << AtFrame("close", c) >>)
    BY <1>2 DEF ConnFails, ConnTurn, InPass, MgError, lookupVars
  <2>2. << AtFrame("close", c) >> \in Seq(Frame)
        /\ CloseOnlyLast(<< AtFrame("close", c) >>)
        /\ AtFrame("close", c) \in OpFrames("close", << AtFrame("close", c) >>)
    <3> DEFINE f == AtFrame("close", c)
    <3>1. f \in Frame /\ f.op = "close"
      BY ErrorFrameFacts
    <3> HIDE DEF f
    <3>2. << f >> \in Seq(Frame) /\ CloseOnlyLast(<< f >>)
      BY <3>1, OneCloseLast
    <3>3. 1 \in DOMAIN << f >> /\ << f >>[1] = f
      OBVIOUS
    <3>4. f \in OpFrames("close", << f >>)
      BY <3>1, <3>3 DEF OpFrames, Elems
    <3> QED
      BY <3>2, <3>4 DEF f
  <2>3. CloseOnlyLast(stack') /\ AtFrame("close", c) \in OpFrames("close", stack')
    BY <2>1, <2>2, MgErrorCloseLast, MgErrorCloses DEF EndInv
  <2>4. AtFrame("close", c).at = c
    BY ErrorFrameFacts
  <2>5. OpFrames("close", stack) = {}
    BY <2>1, IdleCloses
  <2> QED
    BY <2>1, <2>3, <2>4, <2>5 DEF EndInv, EndStep, Ends, Marked
<1>3. CASE ConnStays(c)
  <2>1. c \notin closing /\ pass' = pass \ {c}
        /\ UNCHANGED <<live, owned, lookups, running, closing, stack>>
    BY <1>3 DEF ConnStays, lookupVars
  <2>2. live \subseteq closing => c \notin owned \union lookups
    BY <2>1 DEF EndInv, Ends, EntriesPointAtConnections
  <2> QED
    BY <2>1, <2>2 DEF EndInv, EndStep, Ends, Marked
<1>4. CASE CloseConn(c)
  <2>1. /\ owned' = owned \ {c} /\ live' = live \ {c} /\ lookups' = lookups \ {c}
        /\ closing' = closing \ {c} /\ pass' = pass \ {c} /\ UNCHANGED running
    BY <1>4 DEF CloseConn
  <2>2. \A f \in OpFrames("close", stack) : f.at = c
    <3>1. CASE stack = << >>
      BY <1>1, <3>1
    <3>2. CASE TopIs("close") /\ Top.at = c
      <4>1. stack # << >> /\ Head(stack).op = "close" /\ Head(stack).at = c
        BY <3>2 DEF TopIs, Top
      <4>2. Tail(stack) = << >>
        BY <1>1, <4>1, PopCloseLast DEF EndInv
      <4>3. OpFrames("close", stack) = {Head(stack)} \union OpFrames("close", Tail(stack))
        BY <1>1, <4>1, PopSame
      <4> QED
        BY <1>1, <4>1, <4>2, <4>3
    <3> QED
      BY <1>4, <3>1, <3>2 DEF CloseConn, ConnTurn, InPass
  <2>3. CloseOnlyLast(stack')
    <3>1. CloseOnlyLast(<< HandlerFrame >>) /\ CloseOnlyLast(<< >>)
      BY DEF CloseOnlyLast, HandlerFrame
    <3> QED
      BY <1>4, <3>1 DEF CloseConn
  <2>4. \A d \in owned' \union lookups' : Marked(d) => FALSE
    BY <2>1, <2>2 DEF Marked
  <2> QED
    BY <2>1, <2>3, <2>4 DEF EndInv, EndStep, Ends
<1> QED
  BY <1>2, <1>3, <1>4

LEMMA EndsEventLoop == EndInv /\ (EventLoop \/ Tick) => EndStep
<1> SUFFICES ASSUME EndInv, EventLoop \/ Tick PROVE EndStep
  OBVIOUS
<1>1. CASE \/ NoAnswer \/ ResolverStays \/ RetiredCloses \/ Tick
  BY <1>1, EndsKept DEF NoAnswer, ResolverStays, RetiredCloses, Tick, EndInv, EndStep,
     connVars, lookupVars, loopVars
<1>2. CASE BeginPass
  BY <1>2 DEF BeginPass, EndInv, EndStep, Ends, connVars
<1>3. CASE Ended
  <2>1. /\ stack = << >> /\ pass = {} /\ running = "ending" /\ running' = "off"
        /\ UNCHANGED <<owned, live, lookups, stack>>
    BY <1>3 DEF Ended, Quiet, connVars, lookupVars
  <2>2. \A c : ~Marked(c)
    BY <2>1, IdleCloses DEF Marked
  <2> QED
    BY <2>1, <2>2 DEF EndInv, EndStep, Ends
<1>4. CASE ResolverTurn \/ ResolverCloses
  <2>1. /\ stack = << >> /\ UNCHANGED <<owned, live, lookups, running, closing>>
        /\ pass \subseteq pass' \union {Resolver}
        /\ \E d \in HeadsOf(lookups) : \E op \in {"scan", "fail"} :
             stack' = << WalkFrame(op, d, lookups) >>
    BY <1>4 DEF ResolverTurn, ResolverCloses, InPass, connVars, lookupVars
  <2>2. \A op \in {"scan", "fail"} : \A d : CloseOnlyLast(<< WalkFrame(op, d, lookups) >>)
    BY OneCloseLast
  <2>3. OpFrames("close", stack) = {}
    BY <2>1, IdleCloses
  <2> QED
    BY <2>1, <2>2, <2>3, EndsKept DEF EndStep
<1>5. ASSUME NEW c \in Conns, AnswerConnects(c) PROVE EndStep
  BY <1>5, EndsKept DEF AnswerConnects, Cancel, EndInv, EndStep
<1>6. ASSUME NEW c \in Conns, AnswerFails(c) PROVE EndStep
  <2>1. /\ stack = << >> /\ UNCHANGED <<owned, live, lookups, running, pass>>
        /\ closing \subseteq closing'
        /\ \E S \in SUBSET lookups : \E next \in HeadsOf(S) :
             MgError(c, "other", << AnswerFrame(c, next) >>)
    BY <1>6 DEF AnswerFails, ResolverIo, MgError, lookupVars
  <2>2. PICK S \in SUBSET lookups : \E next \in HeadsOf(S) :
             MgError(c, "other", << AnswerFrame(c, next) >>)
    BY <2>1
  <2>3. PICK next \in HeadsOf(S) : MgError(c, "other", << AnswerFrame(c, next) >>)
    BY <2>2
  <2>4. next \in Conns \union {None}
    BY <2>3, HeadsType DEF EndInv, TypeOK, LookupsOK
  <2>5. AnswerFrame(c, next) \in Frame
    BY <2>4, TablesAssumption DEF AnswerFrame, Frame, Slots
  <2>6. CloseOnlyLast(<< AnswerFrame(c, next) >>) /\ << AnswerFrame(c, next) >> \in Seq(Frame)
    BY <2>5, OneCloseLast
  <2>7. CloseOnlyLast(stack')
    BY <2>3, <2>6, MgErrorCloseLast DEF EndInv
  <2>8. OpFrames("close", stack) = {}
    BY <2>1, IdleCloses
  <2> QED
    BY <2>1, <2>7, <2>8, EndsKept DEF EndStep
<1> QED
  BY <1>1, <1>2, <1>3, <1>4, <1>5, <1>6, EndsTurn DEF EventLoop

\* No handler opens a connection.
HandlersOpenNothing == HandlerCalls \intersect {"lookup", "local"} = {}

LEMMA OpensOnlyWhenOn ==
    ASSUME HandlersOpenNothing, NEW c \in Conns, Lookup(c) \/ LocalLookup(c)
    PROVE  running = "on"
<1>1. \A call \in {"lookup", "local"} : call \notin HandlerCalls /\ call \notin RetireCalls
  BY CallsAssumption DEF HandlersOpenNothing
<1>2. running # "off" /\ (May("lookup") \/ May("local"))
  BY DEF Lookup, LocalLookup, NewConn
<1> QED
  BY <1>1, <1>2 DEF May

LEMMA EndsApplication ==
    HandlersOpenNothing /\ EndInv /\ Application => EndStep
<1> SUFFICES ASSUME HandlersOpenNothing, EndInv, Application PROVE EndStep
  OBVIOUS
<1>1. ASSUME NEW c \in Conns, Lookup(c) \/ LocalLookup(c) PROVE EndStep
  <2>1. running = "on" /\ UNCHANGED <<running, stack>>
        /\ live' = live \union {c} /\ owned' = owned \union {c}
    BY <1>1, OpensOnlyWhenOn DEF Lookup, LocalLookup, NewConn
  <2> QED
    BY <2>1 DEF EndInv, EndStep, Ends
<1>2. ASSUME NEW c \in Conns, Abort(c) \/ Delete(c) PROVE EndStep
  BY <1>2, EndsKept DEF Abort, Delete, EndInv, EndStep, lookupVars, loopVars
<1>3. CASE Begin
  BY <1>3 DEF Begin, EndInv, EndStep, Ends
<1>4. CASE End
  <2>1. /\ closing' = live /\ live \subseteq pass' /\ running' = "ending"
        /\ UNCHANGED <<live, owned, lookups, stack>>
    BY <1>4 DEF End, lookupVars
  <2> QED
    BY <2>1 DEF EndInv, EndStep, Ends, EntriesPointAtConnections
<1>5. ASSUME NEW t \in Tables, SetNameservers(t) PROVE EndStep
  <2>1. UseNameserver(0, stack) /\ UNCHANGED <<connVars, lookupVars, loopVars>>
    BY <1>5 DEF SetNameservers
  <2>2. stack \in Seq(Frame) /\ 0 \in Slots
    BY TablesAssumption DEF EndInv, TypeOK, Slots
  <2>3. CloseOnlyLast(stack')
    BY <2>1, <2>2, UseNameserverCloseLast DEF EndInv
  <2>4. OpFrames("close", stack) \subseteq OpFrames("close", stack')
    BY <2>1, <2>2, RetireFrameFacts, PushCloses DEF EndInv, UseNameserver
  <2> QED
    BY <2>1, <2>3, <2>4, EndsKept DEF EndStep, connVars, lookupVars, loopVars
<1> QED
  BY <1>1, <1>2, <1>3, <1>4, <1>5 DEF Application

\* What end() leaves: nothing is owned and nothing is looked up, if no handler
\* opens a connection while it polls.
THEOREM EndsEmpty == HandlersOpenNothing /\ Spec => []NothingOutlivesEnd
<1> SUFFICES ASSUME HandlersOpenNothing PROVE Spec => []NothingOutlivesEnd
  OBVIOUS
<1>1. Init => EndInv
  BY InitType, EntriesInit, OneCloseLast DEF Init, EndInv, Ends
<1>2. EndInv /\ [Next]_vars => EndInv'
  <2> SUFFICES ASSUME EndInv, [Next]_vars PROVE EndInv'
    OBVIOUS
  <2>1. TypeOK' /\ EntriesPointAtConnections'
    BY NextType, EntriesNext DEF EndInv
  <2>2. ASSUME UNCHANGED vars PROVE EndStep
    <3>1. UNCHANGED <<owned, lookups, live, running, closing, pass, stack>>
      BY <2>2 DEF vars
    <3>2. CloseOnlyLast(stack')
      BY <3>1 DEF EndInv
    <3> QED
      BY <3>1, <3>2, EndsKept DEF EndStep
  <2>3. EndStep
    BY <2>2, EndsActivation, EndsEventLoop, EndsApplication DEF Next, Halted
  <2> QED
    BY <2>1, <2>3 DEF EndInv, EndStep
<1>3. EndInv => NothingOutlivesEnd
  BY DEF EndInv, Ends, NothingOutlivesEnd
<1> QED
  BY <1>1, <1>2, <1>3, PTL DEF Spec

-----------------------------------------------------------------------------
(* The configured server.  There is one closeResolver() at a time, it was  *)
(* started for the slot that is now active, and only the handlers of the   *)
(* connections it fails have interrupted it.                               *)

OneRetire(s, a) ==
    \A i \in DOMAIN s : s[i].op = "retire" =>
        /\ s[i].slot = a
        /\ \A j \in 1 .. (i - 1) : s[j].op \in {"error", "handler"}
NoRetire(s) == \A i \in DOMAIN s : s[i].op # "retire"

InUse == running = "on" /\ count > 0 /\ NoRetire(stack) => url = nameserver[active]
ServerInv ==
    /\ TypeOK /\ OneRetire(stack, active) /\ InUse
    /\ count > 0 => active < count
ServerStep ==
    /\ OneRetire(stack', active') /\ InUse'
    /\ count' > 0 => active' < count'

LEMMA NoRetireAtAll == ASSUME NEW s, NoRetire(s), NEW a PROVE OneRetire(s, a)
BY DEF NoRetire, OneRetire

LEMMA PushFacts ==
    ASSUME NEW f \in Frame, NEW s \in Seq(Frame)
    PROVE  /\ Push(f, s) \in Seq(Frame) /\ Len(Push(f, s)) = Len(s) + 1
           /\ Push(f, s)[1] = f /\ Len(s) \in Nat
           /\ \A i \in 2 .. (Len(s) + 1) : i - 1 \in 1 .. Len(s) /\ Push(f, s)[i] = s[i - 1]
BY DEF Push

LEMMA PushRetire ==
    ASSUME NEW f \in Frame, NEW s \in Seq(Frame), NEW a, OneRetire(s, a)
    PROVE  /\ f.op \in {"error", "handler"} => OneRetire(Push(f, s), a)
           /\ NoRetire(s) /\ f.op = "retire" /\ f.slot = a => OneRetire(Push(f, s), a)
           /\ NoRetire(s) /\ f.op # "retire" => NoRetire(Push(f, s))
           /\ NoRetire(Push(f, s)) => NoRetire(s) /\ f.op # "retire"
<1> DEFINE p == Push(f, s)
<1>1. /\ DOMAIN p = 1 .. (Len(s) + 1) /\ DOMAIN s = 1 .. Len(s) /\ Len(s) \in Nat
      /\ p[1] = f
      /\ \A i \in 2 .. (Len(s) + 1) : i - 1 \in 1 .. Len(s) /\ p[i] = s[i - 1]
  <2>1. /\ p \in Seq(Frame) /\ Len(p) = Len(s) + 1 /\ p[1] = f /\ Len(s) \in Nat
        /\ \A i \in 2 .. (Len(s) + 1) : i - 1 \in 1 .. Len(s) /\ p[i] = s[i - 1]
    BY PushFacts
  <2> HIDE DEF p
  <2>2. DOMAIN p = 1 .. Len(p) /\ DOMAIN s = 1 .. Len(s)
    BY <2>1
  <2> QED
    BY <2>1, <2>2
<1>2. \A i \in 1 .. Len(s) : i + 1 \in 2 .. (Len(s) + 1) /\ s[i] = p[i + 1]
  <2> HIDE DEF p
  <2> SUFFICES ASSUME NEW i \in 1 .. Len(s)
               PROVE  i + 1 \in 2 .. (Len(s) + 1) /\ s[i] = p[i + 1]
    OBVIOUS
  <2>1. i + 1 \in 2 .. (Len(s) + 1) /\ (i + 1) - 1 = i
    BY <1>1
  <2> QED
    BY <1>1, <2>1
<1> HIDE DEF p
<1>3. ASSUME NoRetire(s), f.op # "retire" PROVE NoRetire(p)
  <2> SUFFICES ASSUME NEW i \in 1 .. (Len(s) + 1) PROVE p[i].op # "retire"
    BY <1>1 DEF NoRetire
  <2>1. i = 1 \/ i \in 2 .. (Len(s) + 1)
    BY <1>1
  <2> QED
    BY <1>1, <1>3, <2>1 DEF NoRetire
<1>4. ASSUME NoRetire(p) PROVE NoRetire(s) /\ f.op # "retire"
  <2>1. f.op # "retire"
    BY <1>1, <1>4 DEF NoRetire
  <2>2. \A i \in 1 .. Len(s) : i + 1 \in 1 .. (Len(s) + 1)
    BY <1>1
  <2> QED
    BY <1>1, <1>2, <1>4, <2>1, <2>2 DEF NoRetire
<1>5. ASSUME f.op \in {"error", "handler"} PROVE OneRetire(p, a)
  <2> SUFFICES ASSUME NEW i \in 1 .. (Len(s) + 1), p[i].op = "retire"
               PROVE  /\ p[i].slot = a
                      /\ \A j \in 1 .. (i - 1) : p[j].op \in {"error", "handler"}
    BY <1>1 DEF OneRetire
  <2>1. i \in 2 .. (Len(s) + 1)
    BY <1>1, <1>5
  <2>2. i - 1 \in 1 .. Len(s) /\ s[i - 1].op = "retire" /\ p[i].slot = s[i - 1].slot
    BY <1>1, <2>1
  <2>3. ASSUME NEW j \in 1 .. (i - 1) PROVE p[j].op \in {"error", "handler"}
    <3>1. j = 1 \/ (j \in 2 .. (Len(s) + 1) /\ j - 1 \in 1 .. ((i - 1) - 1))
      BY <1>1, <2>1
    <3> QED
      BY <1>1, <1>5, <2>2, <3>1 DEF OneRetire
  <2> QED
    BY <1>1, <2>2, <2>3 DEF OneRetire
<1>6. ASSUME NoRetire(s), f.op = "retire", f.slot = a PROVE OneRetire(p, a)
  <2> SUFFICES ASSUME NEW i \in 1 .. (Len(s) + 1), p[i].op = "retire"
               PROVE  /\ p[i].slot = a
                      /\ \A j \in 1 .. (i - 1) : p[j].op \in {"error", "handler"}
    BY <1>1 DEF OneRetire
  <2>1. i = 1 \/ i \in 2 .. (Len(s) + 1)
    BY <1>1
  <2>2. i = 1
    BY <1>1, <1>6, <2>1 DEF NoRetire
  <2> QED
    BY <1>1, <1>6, <2>2
<1> QED
  BY <1>3, <1>4, <1>5, <1>6 DEF p

LEMMA PopRetire ==
    ASSUME NEW s \in Seq(Frame), s # << >>, NEW a, OneRetire(s, a)
    PROVE  /\ OneRetire(Tail(s), a)
           /\ Head(s).op \notin {"error", "handler"} => NoRetire(Tail(s))
           /\ Head(s).op = "retire" => Head(s).slot = a
           /\ NoRetire(s) => NoRetire(Tail(s)) /\ Head(s).op # "retire"
           /\ NoRetire(Tail(s)) /\ Head(s).op # "retire" => NoRetire(s)
<1>1. /\ DOMAIN s = 1 .. Len(s) /\ DOMAIN Tail(s) = 1 .. (Len(s) - 1)
      /\ Len(s) \in Nat \ {0} /\ Head(s) = s[1]
      /\ \A i \in 1 .. (Len(s) - 1) : Tail(s)[i] = s[i + 1]
  OBVIOUS
<1>2. \A i \in 1 .. (Len(s) - 1) : i + 1 \in 1 .. Len(s) /\ 1 \in 1 .. ((i + 1) - 1)
  BY <1>1
<1>3. OneRetire(Tail(s), a)
  <2> SUFFICES ASSUME NEW i \in 1 .. (Len(s) - 1), Tail(s)[i].op = "retire"
               PROVE  /\ Tail(s)[i].slot = a
                      /\ \A j \in 1 .. (i - 1) : Tail(s)[j].op \in {"error", "handler"}
    BY <1>1 DEF OneRetire
  <2>1. /\ i + 1 \in 1 .. Len(s) /\ s[i + 1].op = "retire"
        /\ \A j \in 1 .. (i - 1) : j + 1 \in 1 .. ((i + 1) - 1) /\ Tail(s)[j] = s[j + 1]
    BY <1>1
  <2>2. /\ s[i + 1].slot = a
        /\ \A j \in 1 .. ((i + 1) - 1) : s[j].op \in {"error", "handler"}
    BY <1>1, <2>1 DEF OneRetire
  <2> QED
    BY <1>1, <2>1, <2>2
<1>4. ASSUME Head(s).op \notin {"error", "handler"} PROVE NoRetire(Tail(s))
  <2> SUFFICES ASSUME NEW i \in 1 .. (Len(s) - 1), Tail(s)[i].op = "retire" PROVE FALSE
    BY <1>1 DEF NoRetire
  <2>1. s[i + 1].op = "retire" /\ i + 1 \in DOMAIN s /\ 1 \in 1 .. ((i + 1) - 1)
    BY <1>1, <1>2
  <2> QED
    BY <1>1, <1>4, <2>1 DEF OneRetire
<1>5. Head(s).op = "retire" => Head(s).slot = a
  <2>1. 1 \in DOMAIN s
    BY <1>1
  <2> QED
    BY <1>1, <2>1 DEF OneRetire
<1>6. NoRetire(s) => NoRetire(Tail(s)) /\ Head(s).op # "retire"
  <2>1. 1 \in DOMAIN s
    BY <1>1
  <2> QED
    BY <1>1, <1>2, <2>1 DEF NoRetire
<1>7. ASSUME NoRetire(Tail(s)), Head(s).op # "retire" PROVE NoRetire(s)
  <2> SUFFICES ASSUME NEW i \in 1 .. Len(s) PROVE s[i].op # "retire"
    BY <1>1 DEF NoRetire
  <2>1. i = 1 \/ (i - 1 \in 1 .. (Len(s) - 1) /\ i = (i - 1) + 1)
    BY <1>1
  <2> QED
    BY <1>1, <1>7, <2>1 DEF NoRetire
<1> QED
  BY <1>3, <1>4, <1>5, <1>6, <1>7

\* mg_error() below which no closeResolver() waits: a rotation starts the one.
LEMMA MgErrorServer ==
    ASSUME TypeOK, count > 0 => active < count, UNCHANGED running,
           running = "on" /\ count > 0 => url = nameserver[active],
           NEW c \in Conns, NEW msg, NEW below \in Seq(Frame), NoRetire(below),
           MgError(c, msg, below)
    PROVE  ServerStep
<1> DEFINE with == Push(AtFrame("error", c), below)
<1>1. with \in Seq(Frame) /\ NoRetire(with)
  <2>1. AtFrame("error", c) \in Frame /\ AtFrame("error", c).op # "retire"
    BY ErrorFrameFacts
  <2> QED
    BY <2>1, PushType, NoRetireAtAll, PushRetire
<1>2. /\ NoRetire(below) /\ OneRetire(below, active)
      /\ NoRetire(with) /\ OneRetire(with, active)
  BY <1>1, NoRetireAtAll
<1>3. CASE (stack' = below \/ stack' = with) /\ UNCHANGED <<tableVars, serverVars>>
  BY <1>2, <1>3 DEF ServerStep, InUse, tableVars, serverVars
<1>4. CASE /\ Rotates(msg) /\ UNCHANGED tableVars /\ (active + 1) % count \in Slots
           /\ UseNameserver((active + 1) % count, with)
  <2> DEFINE i == (active + 1) % count
  <2>1. i < count
    <3>1. active \in Slots /\ count \in 0 .. MaxNameservers
      BY DEF TypeOK, TablesOK, ServersOK
    <3>2. count >= 2
      BY <1>4 DEF Rotates
    <3>3. active + 1 \in Nat /\ count \in Nat \ {0}
      BY <3>1, <3>2, TablesAssumption DEF Slots
    <3> QED
      BY <3>3, WrapRange
  <2>2. i \in Slots /\ UseNameserver(i, with) /\ count' = count /\ nameserver' = nameserver
        /\ count \in Int
    BY <1>4, TablesAssumption DEF tableVars, TypeOK, TablesOK
  <2> HIDE DEF i, with
  <2>3. active' = i /\ ~(i >= count')
    BY <2>1, <2>2, TablesAssumption DEF UseNameserver, Slots
  <2>4. CASE stack' = with /\ url' = nameserver'[i]
    BY <1>1, <2>1, <2>2, <2>3, <2>4, NoRetireAtAll DEF ServerStep, InUse
  <2>5. CASE stack' = Push(RetireFrame(i), with)
    <3>1. /\ RetireFrame(i) \in Frame /\ RetireFrame(i).op = "retire"
          /\ RetireFrame(i).slot = i
      BY <2>2, RetireFrameFacts
    <3>2. OneRetire(with, i)
      BY <1>1, NoRetireAtAll
    <3>3. OneRetire(stack', i) /\ ~NoRetire(stack')
      BY <1>1, <2>5, <3>1, <3>2, PushRetire
    <3> QED
      BY <2>1, <2>2, <2>3, <3>3 DEF ServerStep, InUse
  <2> QED
    BY <2>2, <2>3, <2>4, <2>5 DEF UseNameserver
<1> QED
  BY <1>3, <1>4, MgErrorStack

\* mg_error() from closeResolver(): it never rotates.
LEMMA MgErrorBelowRetire ==
    ASSUME ServerInv, NEW c \in Conns, NEW below \in Seq(Frame),
           OneRetire(below, active), ~NoRetire(below), MgError(c, "DNS error", below)
    PROVE  ServerStep
<1> DEFINE with == Push(AtFrame("error", c), below)
<1>1. stack' = below \/ stack' = with
  BY DEF MgError, DnsError, Rotates
<1>2. UNCHANGED <<tableVars, serverVars>>
  BY DEF MgError, DnsError, Rotates
<1>3. OneRetire(with, active) /\ ~NoRetire(with)
  <2>1. AtFrame("error", c) \in Frame /\ AtFrame("error", c).op = "error"
    BY ErrorFrameFacts
  <2> QED
    BY <2>1, PushRetire
<1> HIDE DEF with
<1> QED
  BY <1>1, <1>2, <1>3 DEF ServerInv, ServerStep, InUse, tableVars, serverVars

\* A step that leaves the servers alone and no closeResolver() behind.
LEMMA ServerKept ==
    ASSUME ServerInv, UNCHANGED <<tableVars, active, url>>,
           OneRetire(stack', active), NoRetire(stack') => NoRetire(stack),
           running' = "on" => running = "on"
    PROVE  ServerStep
BY DEF ServerInv, ServerStep, InUse, tableVars

LEMMA ServerWalk == ServerInv /\ Walk => ServerStep
<1> SUFFICES ASSUME ServerInv, Walk PROVE ServerStep
  OBVIOUS
<1>1. /\ stack # << >> /\ Top.op \in {"scan", "fail"} /\ UNCHANGED running
      /\ stack \in Seq(Frame) /\ Tail(stack) \in Seq(Frame)
  BY TopType DEF Walk, TopIs, loopVars, ServerInv, TypeOK
<1>2. NoRetire(Tail(stack)) /\ NoRetire(stack)
  BY <1>1, PopRetire DEF ServerInv, Top
<1>3. running = "on" /\ count > 0 => url = nameserver[active]
  BY <1>2 DEF ServerInv, InUse
<1>4. CASE stack' = Tail(stack) /\ UNCHANGED <<closing, errors, tableVars, serverVars>>
  BY <1>1, <1>2, <1>4, NoRetireAtAll, ServerKept DEF serverVars
<1>5. ASSUME NEW w \in Frame, w.op = Top.op, Top.at \in Conns,
             NEW on \in Seq(Frame), on = Push(w, Tail(stack)),
             \/ stack' = on /\ UNCHANGED <<tableVars, serverVars>>
             \/ \E msg \in {"DNS timeout", "DNS error"} : MgError(Top.at, msg, on)
      PROVE  ServerStep
  <2>1. NoRetire(on)
    BY <1>1, <1>2, <1>5, NoRetireAtAll, PushRetire
  <2>2. CASE stack' = on /\ UNCHANGED <<tableVars, serverVars>>
    BY <1>1, <1>2, <2>1, <2>2, NoRetireAtAll, ServerKept DEF serverVars
  <2>3. ASSUME NEW msg, MgError(Top.at, msg, on) PROVE ServerStep
    BY <1>1, <1>3, <1>5, <2>1, <2>3, MgErrorServer DEF ServerInv
  <2> QED
    BY <1>5, <2>2, <2>3
<1>6. \/ stack' = Tail(stack) /\ UNCHANGED <<closing, errors, tableVars, serverVars>>
      \/ \E w \in Frame : LET on == Push(w, Tail(stack)) IN
           /\ w.op = Top.op /\ on \in Seq(Frame) /\ Top.at \in Conns
           /\ \/ stack' = on /\ UNCHANGED <<tableVars, serverVars>>
              \/ \E msg \in {"DNS timeout", "DNS error"} : MgError(Top.at, msg, on)
  BY WalkStack DEF ServerInv
<1> QED
  BY <1>4, <1>5, <1>6

\* closeResolver()'s own frame moves on.
LEMMA MoveRetire ==
    ASSUME ServerInv, stack # << >>, Top.op = "retire", NEW f \in Frame,
           f.op = "retire", f.slot = Top.slot
    PROVE  LET s == Push(f, Tail(stack)) IN
           s \in Seq(Frame) /\ OneRetire(s, active) /\ ~NoRetire(s)
<1>1. stack \in Seq(Frame) /\ Tail(stack) \in Seq(Frame)
  BY TopType DEF ServerInv, TypeOK
<1>2. NoRetire(Tail(stack)) /\ Top.slot = active
  BY <1>1, PopRetire DEF ServerInv, Top
<1> QED
  BY <1>1, <1>2, NoRetireAtAll, PushRetire, PushType

LEMMA ServerRetire ==
    ServerInv /\ (RetireConn \/ RetireCancel \/ RetireDone) => ServerStep
<1> SUFFICES ASSUME ServerInv, RetireConn \/ RetireCancel \/ RetireDone
             PROVE  ServerStep
  OBVIOUS
<1>1. stack # << >> /\ Top.op = "retire" /\ UNCHANGED running
      /\ stack \in Seq(Frame)
  BY DEF RetireConn, RetireCancel, RetireDone, RetireWalked, TopIs, loopVars, ServerInv,
     TypeOK
<1>2. Top \in Frame /\ Top.rest \in SUBSET Conns
  BY <1>1, TopType
<1>3. CASE RetireConn
  <2>1. PICK c \in Top.rest : LET on(at) ==
             Push([Top EXCEPT !.at = at, !.rest = @ \ {c}], Tail(stack))
         IN  \/ MgError(c, "DNS error", on(c))
             \/ stack' = on(None) /\ UNCHANGED <<tableVars, serverVars>>
    BY <1>3 DEF RetireConn
  <2>2. ASSUME NEW at \in Conns \union {None}
        PROVE  LET on == Push([Top EXCEPT !.at = at, !.rest = @ \ {c}], Tail(stack))
               IN  on \in Seq(Frame) /\ OneRetire(on, active) /\ ~NoRetire(on)
    <3> DEFINE f == [Top EXCEPT !.at = at, !.rest = @ \ {c}]
    <3>1. f \in Frame
      BY <1>2, MovedFrameType
    <3>2. f.op = "retire" /\ f.slot = Top.slot
      BY <1>1, <1>2 DEF Frame
    <3> HIDE DEF f
    <3>3. LET on == Push(f, Tail(stack))
          IN  on \in Seq(Frame) /\ OneRetire(on, active) /\ ~NoRetire(on)
      BY <1>1, <3>1, <3>2, MoveRetire
    <3> QED
      BY <3>3 DEF f
  <2>3. CASE stack' = Push([Top EXCEPT !.at = None, !.rest = @ \ {c}], Tail(stack))
             /\ UNCHANGED <<tableVars, serverVars>>
    BY <1>1, <2>2, <2>3, ServerKept DEF serverVars
  <2>4. CASE MgError(c, "DNS error",
                     Push([Top EXCEPT !.at = c, !.rest = @ \ {c}], Tail(stack)))
    <3>1. PICK on \in Seq(Frame) :
             OneRetire(on, active) /\ ~NoRetire(on) /\ MgError(c, "DNS error", on)
      BY <1>2, <2>2, <2>4
    <3> QED
      BY <1>2, <3>1, MgErrorBelowRetire
  <2> QED
    BY <2>1, <2>3, <2>4
<1>4. CASE RetireCancel
  <2>1. stack' = Push([Top EXCEPT !.at = None], Tail(stack))
        /\ UNCHANGED <<tableVars, serverVars>>
    BY <1>4 DEF RetireCancel
  <2>2. [Top EXCEPT !.at = None] \in Frame /\ [Top EXCEPT !.at = None].op = "retire"
        /\ [Top EXCEPT !.at = None].slot = Top.slot
    BY <1>1, <1>2 DEF Frame
  <2> QED
    BY <1>1, <2>1, <2>2, MoveRetire, ServerKept DEF serverVars
<1>5. CASE RetireDone
  <2>1. NoRetire(Tail(stack)) /\ Top.slot = active
    BY <1>1, PopRetire DEF ServerInv, Top
  <2>2. /\ stack' = Tail(stack) /\ url' = nameserver[Top.slot]
        /\ UNCHANGED <<tableVars, active>>
    BY <1>5 DEF RetireDone
  <2> QED
    BY <1>1, <2>1, <2>2, NoRetireAtAll DEF ServerInv, ServerStep, InUse, tableVars
<1> QED
  BY <1>3, <1>4, <1>5

LEMMA EmptyRetire ==
    ASSUME NEW a
    PROVE  /\ NoRetire(<< >>) /\ OneRetire(<< >>, a)
           /\ \A f : f.op # "retire" => NoRetire(<< f >>) /\ OneRetire(<< f >>, a)
BY DEF NoRetire, OneRetire

LEMMA ServerActivation == ServerInv /\ Activation => ServerStep
<1> SUFFICES ASSUME ServerInv, Activation PROVE ServerStep
  OBVIOUS
<1>1. CASE WalkFreed \/ AnswerFreed \/ RetireNull \/ OnErrorDeleted
  <2>1. running' # "on" /\ stack' = << >> /\ UNCHANGED <<tableVars, serverVars>>
    BY <1>1 DEF WalkFreed, AnswerFreed, RetireNull, OnErrorDeleted, Break
  <2> QED
    BY <2>1, EmptyRetire DEF ServerInv, ServerStep, InUse, tableVars, serverVars
<1>2. CASE AnswerReturns \/ HandlerReturns \/ OnError
  <2>1. stack # << >> /\ Top.op # "retire" /\ UNCHANGED <<tableVars, serverVars, running>>
    BY <1>2 DEF AnswerReturns, HandlerReturns, OnError, TopIs, loopVars
  <2>2. stack \in Seq(Frame) /\ Tail(stack) \in Seq(Frame)
    BY <2>1, TopType DEF ServerInv, TypeOK
  <2>3. OneRetire(Tail(stack), active) /\ (NoRetire(Tail(stack)) => NoRetire(stack))
    BY <2>1, <2>2, PopRetire DEF ServerInv, Top
  <2>4. CASE stack' = Tail(stack)
    BY <2>1, <2>3, <2>4, ServerKept DEF serverVars
  <2>5. CASE OnError
    <3>1. HandlerFrame \in Frame /\ HandlerFrame.op = "handler"
      BY TablesAssumption DEF HandlerFrame, Frame, Slots
    <3>2. stack' = Push(HandlerFrame, Tail(stack))
      BY <2>5 DEF OnError
    <3>3. OneRetire(stack', active) /\ (NoRetire(stack') => NoRetire(Tail(stack)))
      BY <2>2, <2>3, <3>1, <3>2, PushRetire
    <3> QED
      BY <2>1, <2>3, <3>3, ServerKept DEF serverVars
  <2> QED
    BY <1>2, <2>4, <2>5 DEF AnswerReturns, HandlerReturns
<1> QED
  BY <1>1, <1>2, ServerWalk, ServerRetire DEF Activation

LEMMA ServerEventLoop == ServerInv /\ (EventLoop \/ Tick) => ServerStep
<1> SUFFICES ASSUME ServerInv, EventLoop \/ Tick PROVE ServerStep
  OBVIOUS
<1>1. CASE \/ BeginPass \/ NoAnswer \/ ResolverStays \/ RetiredCloses \/ Ended \/ Tick
  <2>1. UNCHANGED <<tableVars, active, url, stack>> /\ (running' = "on" => running = "on")
    BY <1>1 DEF BeginPass, NoAnswer, ResolverStays, RetiredCloses, Ended, Tick, serverVars,
       loopVars
  <2> QED
    BY <2>1, ServerKept DEF ServerInv
<1>2. CASE ResolverTurn \/ ResolverCloses
  <2>1. /\ stack = << >> /\ UNCHANGED <<tableVars, serverVars, running>>
        /\ \E f : f.op # "retire" /\ stack' = << f >>
    BY <1>2 DEF ResolverTurn, ResolverCloses, InPass, WalkFrame
  <2> QED
    BY <2>1, EmptyRetire, ServerKept DEF serverVars
<1>3. ASSUME NEW c \in Conns, ConnStays(c) \/ AnswerConnects(c) PROVE ServerStep
  <2>1. UNCHANGED <<tableVars, active, url, stack, running>>
    BY <1>3 DEF ConnStays, AnswerConnects, serverVars
  <2> QED
    BY <2>1, ServerKept DEF ServerInv
<1>4. ASSUME NEW c \in Conns, CloseConn(c) PROVE ServerStep
  <2>1. /\ UNCHANGED <<tableVars, serverVars, running>>
        /\ stack' = << HandlerFrame >> \/ stack' = << >>
    BY <1>4 DEF CloseConn
  <2>2. NoRetire(stack)
    <3>1. CASE stack = << >>
      BY <3>1, EmptyRetire
    <3>2. CASE stack # << >> /\ Top.op = "close"
      BY <3>2, PopRetire DEF ServerInv, TypeOK, Top
    <3> QED
      BY <1>4, <3>1, <3>2 DEF CloseConn, ConnTurn, InPass, TopIs
  <2>3. OneRetire(stack', active)
    BY <2>1, EmptyRetire DEF HandlerFrame
  <2> QED
    BY <2>1, <2>2, <2>3, ServerKept DEF serverVars
<1>5. ASSUME NEW c \in Conns, ConnFails(c) \/ AnswerFails(c) PROVE ServerStep
  <2>1. stack = << >> /\ UNCHANGED running
    BY <1>5 DEF ConnFails, ConnTurn, InPass, AnswerFails, ResolverIo
  <2>2. running = "on" /\ count > 0 => url = nameserver[active]
    BY <2>1, EmptyRetire DEF ServerInv, InUse
  <2>3. PICK f \in Frame : f.op # "retire" /\ MgError(c, "other", << f >>)
    <3>1. CASE ConnFails(c)
      <4>1. AtFrame("close", c) \in Frame /\ AtFrame("close", c).op # "retire"
        BY ErrorFrameFacts
      <4> QED
        BY <3>1, <4>1 DEF ConnFails
    <3>2. CASE AnswerFails(c)
      <4>1. PICK S \in SUBSET lookups : \E next \in HeadsOf(S) :
               MgError(c, "other", << AnswerFrame(c, next) >>)
        BY <3>2 DEF AnswerFails
      <4>2. PICK next \in HeadsOf(S) : MgError(c, "other", << AnswerFrame(c, next) >>)
        BY <4>1
      <4>3. next \in Conns \union {None}
        BY <4>2, HeadsType DEF ServerInv, TypeOK, LookupsOK
      <4>4. AnswerFrame(c, next) \in Frame /\ AnswerFrame(c, next).op # "retire"
        BY <4>3, TablesAssumption DEF AnswerFrame, Frame, Slots
      <4> QED
        BY <4>2, <4>4
    <3> QED
      BY <1>5, <3>1, <3>2
  <2>4. << f >> \in Seq(Frame) /\ NoRetire(<< f >>)
    BY <2>3, EmptyRetire
  <2> QED
    BY <2>1, <2>2, <2>3, <2>4, MgErrorServer DEF ServerInv
<1> QED
  BY <1>1, <1>2, <1>3, <1>4, <1>5 DEF EventLoop

LEMMA ServerSetNameservers ==
    ASSUME "configure" \notin RetireCalls, ServerInv, NEW t \in Tables, SetNameservers(t)
    PROVE  ServerStep
<1>1. stack \in Seq(Frame) /\ 0 \in Slots /\ TypeOK'
  BY TablesAssumption, SetNameserversType DEF ServerInv, TypeOK, Slots
<1>2. NoRetire(stack)
  <2>1. "setup" \notin HandlerCalls /\ "setup" \notin RetireCalls
    BY CallsAssumption
  <2>2. CASE Quiet
    BY <2>2, EmptyRetire DEF Quiet
  <2>3. CASE ~Quiet
    <3>1. ~InRetire
      BY <2>1, <2>3 DEF SetNameservers, May
    <3> QED
      BY <3>1 DEF InRetire, NoRetire
  <2> QED
    BY <2>2, <2>3
<1>3. UseNameserver(0, stack) /\ UNCHANGED running
  BY DEF SetNameservers, loopVars
<1>4. active' = 0 /\ count' \in Nat
  BY <1>1, <1>3, TablesAssumption DEF UseNameserver, TypeOK, TablesOK
<1>5. CASE stack' = stack /\ (count' > 0 => url' = nameserver'[0])
  BY <1>2, <1>4, <1>5, NoRetireAtAll DEF ServerStep, InUse
<1>6. CASE stack' = Push(RetireFrame(0), stack)
  <2>1. OneRetire(stack', 0) /\ ~NoRetire(stack')
    BY <1>1, <1>2, <1>6, RetireFrameFacts, NoRetireAtAll, PushRetire DEF ServerInv
  <2> QED
    BY <1>4, <2>1 DEF ServerStep, InUse
<1>7. 0 >= count' => ~(count' > 0)
  BY <1>4
<1> QED
  BY <1>3, <1>5, <1>6, <1>7 DEF UseNameserver

LEMMA ServerApplication ==
    "configure" \notin RetireCalls /\ ServerInv /\ Application => ServerStep
<1> SUFFICES ASSUME "configure" \notin RetireCalls, ServerInv, Application
             PROVE  ServerStep
  OBVIOUS
<1>1. ASSUME NEW c \in Conns, Lookup(c) \/ LocalLookup(c) \/ Abort(c) \/ Delete(c)
      PROVE  ServerStep
  <2>1. UNCHANGED <<tableVars, active, url, stack, running>>
    BY <1>1 DEF Lookup, LocalLookup, Abort, Delete, NewConn, serverVars, loopVars
  <2> QED
    BY <2>1, ServerKept DEF ServerInv
<1>2. CASE End
  <2>1. UNCHANGED <<tableVars, active, url, stack>> /\ running' # "on"
    BY <1>2 DEF End, serverVars
  <2> QED
    BY <2>1, ServerKept DEF ServerInv
<1>3. CASE Begin
  <2>1. /\ UNCHANGED <<tableVars, active, stack>>
        /\ url' = IF active < count THEN nameserver[active] ELSE Default
    BY <1>3 DEF Begin
  <2> QED
    BY <2>1 DEF ServerInv, ServerStep, InUse, tableVars
<1> QED
  BY <1>1, <1>2, <1>3, ServerSetNameservers DEF Application

\* Between begin() and end() new lookups go to a configured server, the active
\* one, through every rotation, reconfiguration and restart, unless a handler
\* that closeResolver() is waiting for configures another table.
THEOREM ConfiguredCorrect ==
    "configure" \notin RetireCalls /\ Spec => []ConfiguredServerInUse
<1> SUFFICES ASSUME "configure" \notin RetireCalls
             PROVE  Spec => []ConfiguredServerInUse
  OBVIOUS
<1>1. Init => ServerInv
  <2> SUFFICES ASSUME Init PROVE ServerInv
    OBVIOUS
  <2>1. count = 0 /\ running = "off" /\ OneRetire(stack, active)
    BY EmptyRetire DEF Init
  <2> QED
    BY <2>1, InitType DEF ServerInv, InUse
<1>2. ServerInv /\ [Next]_vars => ServerInv'
  <2> SUFFICES ASSUME ServerInv, [Next]_vars PROVE ServerInv'
    OBVIOUS
  <2>1. TypeOK'
    BY NextType DEF ServerInv
  <2>2. ASSUME UNCHANGED vars PROVE ServerStep
    <3>1. UNCHANGED <<tableVars, active, url, stack, running>>
      BY <2>2 DEF vars, tableVars
    <3> QED
      BY <3>1, ServerKept DEF ServerInv
  <2>3. ServerStep
    BY <2>2, ServerActivation, ServerEventLoop, ServerApplication DEF Next, Halted
  <2> QED
    BY <2>1, <2>3 DEF ServerInv, ServerStep
<1>3. ServerInv => ConfiguredServerInUse
  BY DEF ServerInv, InUse, NoRetire, ConfiguredServerInUse, InRetire
<1> QED
  BY <1>1, <1>2, <1>3, PTL DEF Spec

-----------------------------------------------------------------------------
(* One server.  Nothing rotates and no handler configures, so no walk and  *)
(* no closeResolver() ever interrupts another: the stack is one activation *)
(* with at most the handler on it that it is waiting for.                  *)

OneServerOnly ==
    (\A t \in Tables : Len(t) <= 1) /\ "configure" \notin HandlerCalls

\* What the activation at the bottom will use is there, and so is the owner
\* whose onError() comes next.
Below(f) ==
    /\ f.op \in {"scan", "fail"} => f.at \in lookups \union {None}
    /\ f.op = "answer" => f.at \in lookups /\ f.rest \subseteq lookups
    /\ f.op = "retire" => dns4 # None
    /\ f.op # "error"
Above(e) == e.op = "handler" \/ (e.op = "error" /\ e.at \in owned)

Flat ==
    \/ stack = << >>
    \/ \E f \in Frame : stack = << f >> /\ Below(f)
    \/ \E e, f \in Frame : stack = << e, f >> /\ Above(e) /\ Below(f)
FlatInv == TypeOK /\ count <= 1 /\ running \notin Broken /\ Flat
FlatStep == count' <= 1 /\ running' \notin Broken /\ Flat'

LEMMA ShortStacks ==
    ASSUME NEW e \in Frame, NEW f \in Frame
    PROVE  /\ << f >> # << >> /\ Head(<< f >>) = f /\ Tail(<< f >>) = << >>
           /\ << e, f >> # << >> /\ Head(<< e, f >>) = e /\ Tail(<< e, f >>) = << f >>
           /\ Push(f, << >>) = << f >> /\ Push(e, << f >>) = << e, f >>
           /\ << f >> \in Seq(Frame)
<1>1. /\ << f >> \in Seq(Frame) /\ Len(<< f >>) = 1 /\ << f >>[1] = f
      /\ << e, f >> \in Seq(Frame) /\ Len(<< e, f >>) = 2
      /\ << e, f >>[1] = e /\ << e, f >>[2] = f /\ << >> \in Seq(Frame)
  OBVIOUS
<1>2. \A s, t \in Seq(Frame) :
         Len(s) = Len(t) /\ (\A i \in 1 .. Len(s) : s[i] = t[i]) => s = t
  OBVIOUS
<1>3. Tail(<< e, f >>) \in Seq(Frame) /\ Len(Tail(<< e, f >>)) = 1
      /\ Tail(<< e, f >>)[1] = f
  BY <1>1
<1>4. Push(e, << f >>) \in Seq(Frame) /\ Len(Push(e, << f >>)) = 2
      /\ Push(e, << f >>)[1] = e /\ Push(e, << f >>)[2] = f
  BY <1>1 DEF Push
<1>5. Tail(<< e, f >>) = << f >>
  BY <1>1, <1>2, <1>3
<1>6. Push(e, << f >>) = << e, f >>
  BY <1>1, <1>2, <1>4
<1>7. Push(f, << >>) = << f >>
  BY DEF Push
<1>8. << f >> # << >> /\ Head(<< f >>) = f /\ Tail(<< f >>) = << >>
      /\ << e, f >> # << >> /\ Head(<< e, f >>) = e
  OBVIOUS
<1> QED
  BY <1>1, <1>5, <1>6, <1>7, <1>8

\* What lies under the top, and what the top may rely on.
LEMMA FlatTop ==
    ASSUME Flat, stack # << >>
    PROVE  \/ Below(Top) /\ Tail(stack) = << >>
           \/ Above(Top) /\ \E f \in Frame : Below(f) /\ Tail(stack) = << f >>
BY ShortStacks DEF Flat, Top

LEMMA FlatOne == ASSUME NEW f \in Frame, Below(f)', stack' = << f >> PROVE Flat'
BY DEF Flat

\* mg_error() with one server.
LEMMA FlatMgError ==
    ASSUME FlatInv, NEW c \in Conns, NEW msg, NEW f \in Frame, Below(f)',
           MgError(c, msg, << f >>), UNCHANGED <<owned, running>>
    PROVE  FlatStep
<1>1. count \in Nat /\ ~Rotates(msg)
  <2>1. count \in 0 .. MaxNameservers /\ count <= 1
    BY DEF FlatInv, TypeOK, TablesOK
  <2>2. count \in Nat /\ ~(count >= 2)
    BY <2>1, TablesAssumption
  <2> QED
    BY <2>2 DEF Rotates
<1>2. count' = count
  BY <1>1 DEF MgError, DnsError, tableVars
<1>3. CASE stack' = << f >>
  BY <1>2, <1>3, FlatOne DEF FlatInv, FlatStep
<1>4. CASE c \in owned /\ stack' = Push(AtFrame("error", c), << f >>)
  <2> DEFINE e == AtFrame("error", c)
  <2>1. e \in Frame /\ e.op = "error" /\ e.at = c
    BY ErrorFrameFacts
  <2> HIDE DEF e
  <2>2. stack' = << e, f >>
    BY <1>4, <2>1, ShortStacks DEF e
  <2>3. Above(e)'
    BY <1>4, <2>1 DEF Above
  <2> QED
    BY <1>2, <2>1, <2>2, <2>3 DEF Flat, FlatInv, FlatStep
<1> QED
  BY <1>1, <1>3, <1>4 DEF MgError, DnsError

\* A step that leaves the stack and what its frames use.
LEMMA FlatKept ==
    ASSUME FlatInv, UNCHANGED <<stack, count>>, running' \notin Broken,
           lookups \subseteq lookups' \/ stack = << >>,
           dns4 # None => dns4' # None \/ stack = << >>,
           owned \subseteq owned' \/ stack = << >> \/ Top.op = "handler"
    PROVE  FlatStep
<1>1. CASE stack = << >>
  BY <1>1 DEF FlatInv, FlatStep, Flat
<1>2. CASE stack # << >>
  <2>1. \A f : Below(f) => Below(f)'
    BY <1>2 DEF Below
  <2>2. CASE \E f \in Frame : stack = << f >> /\ Below(f)
    BY <2>1, <2>2 DEF FlatInv, FlatStep, Flat
  <2>3. ASSUME NEW e \in Frame, NEW f \in Frame, stack = << e, f >>, Above(e), Below(f)
        PROVE  FlatStep
    <3>1. Top = e
      BY <2>3, ShortStacks DEF Top
    <3>2. Above(e)'
      BY <1>2, <2>3, <3>1 DEF Above
    <3> QED
      BY <2>1, <2>3, <3>2 DEF FlatInv, FlatStep, Flat
  <2> QED
    BY <1>2, <2>2, <2>3 DEF FlatInv, Flat
<1> QED
  BY <1>1, <1>2

LEMMA FlatWalk == FlatInv /\ (Walk \/ WalkFreed) => FlatStep
<1> SUFFICES ASSUME FlatInv, Walk \/ WalkFreed PROVE FlatStep
  OBVIOUS
<1>1. stack # << >> /\ Top.op \in {"scan", "fail"}
  BY DEF Walk, WalkFreed, TopIs
<1>2. Tail(stack) = << >> /\ Top.at \in lookups \union {None}
  BY <1>1, FlatTop DEF FlatInv, Above, Below
<1>3. Walk /\ UNCHANGED <<lookups, dns4, owned, running>>
  BY <1>2 DEF Walk, WalkFreed, lookupVars, resolverVars, loopVars
<1>4. CASE stack' = Tail(stack) /\ UNCHANGED <<closing, errors, tableVars, serverVars>>
  BY <1>2, <1>3, <1>4 DEF FlatInv, FlatStep, Flat, tableVars
<1>5. ASSUME NEW w \in Frame, w.op = Top.op, w.at \in lookups \union {None},
             Top.at \in Conns, NEW on, on = << w >>,
             \/ stack' = on /\ UNCHANGED tableVars
             \/ \E msg \in {"DNS timeout", "DNS error"} : MgError(Top.at, msg, on)
      PROVE  FlatStep
  <2>1. Below(w)'
    BY <1>1, <1>3, <1>5 DEF Below
  <2>2. CASE stack' = on /\ UNCHANGED tableVars
    BY <1>3, <1>5, <2>1, <2>2, FlatOne DEF FlatInv, FlatStep, tableVars
  <2>3. ASSUME NEW msg, MgError(Top.at, msg, on) PROVE FlatStep
    BY <1>3, <1>5, <2>1, <2>3, FlatMgError
  <2> QED
    BY <1>5, <2>2, <2>3
<1>6. \/ stack' = Tail(stack) /\ UNCHANGED <<closing, errors, tableVars, serverVars>>
      \/ \E w \in Frame : LET on == Push(w, Tail(stack)) IN
           /\ w.op = Top.op /\ w.at \in lookups \union {None} /\ Top.at \in Conns
           /\ \/ stack' = on /\ UNCHANGED tableVars
              \/ \E msg \in {"DNS timeout", "DNS error"} : MgError(Top.at, msg, on)
  BY <1>3, WalkStack DEF FlatInv
<1>7. \A w \in Frame : Push(w, Tail(stack)) = << w >>
  BY <1>2, ShortStacks
<1> QED
  BY <1>4, <1>5, <1>6, <1>7

LEMMA FlatRetire ==
    FlatInv /\ (RetireConn \/ RetireCancel \/ RetireDone \/ RetireNull) => FlatStep
<1> SUFFICES ASSUME FlatInv, RetireConn \/ RetireCancel \/ RetireDone \/ RetireNull
             PROVE  FlatStep
  OBVIOUS
<1>1. stack # << >> /\ Top.op = "retire"
  BY DEF RetireConn, RetireCancel, RetireDone, RetireNull, RetireWalked, TopIs
<1>2. Tail(stack) = << >> /\ dns4 # None /\ ~RetireNull
  BY <1>1, FlatTop DEF FlatInv, Above, Below, RetireNull
<1>3. Top \in Frame /\ Top.rest \in SUBSET Conns
  BY <1>1, TopType DEF FlatInv, TypeOK
<1>4. UNCHANGED <<owned, running>>
  BY <1>2 DEF RetireConn, RetireCancel, RetireDone, connVars, loopVars
<1>5. ASSUME NEW f \in Frame, f.op = "retire", UNCHANGED dns4 PROVE Below(f)'
  BY <1>2, <1>5 DEF Below
<1>6. CASE RetireConn
  <2>1. UNCHANGED dns4
    BY <1>6 DEF RetireConn, resolverVars
  <2>2. PICK c \in Top.rest :
          LET on(at) == Push([Top EXCEPT !.at = at, !.rest = @ \ {c}], Tail(stack))
          IN  \/ MgError(c, "DNS error", on(c))
              \/ stack' = on(None) /\ UNCHANGED tableVars
    BY <1>6 DEF RetireConn
  <2>3. \A at \in Conns \union {None} :
           LET f == [Top EXCEPT !.at = at, !.rest = @ \ {c}]
           IN  f \in Frame /\ f.op = "retire"
    BY <1>1, <1>3 DEF Frame
  <2>4. \A f \in Frame : Push(f, Tail(stack)) = << f >>
    BY <1>2, ShortStacks
  <2>5. c \in Conns
    BY <1>3
  <2>6. \E f \in Frame : f.op = "retire" /\
           (MgError(c, "DNS error", << f >>) \/ (stack' = << f >> /\ UNCHANGED tableVars))
    <3>1. CASE MgError(c, "DNS error",
                       Push([Top EXCEPT !.at = c, !.rest = @ \ {c}], Tail(stack)))
      BY <2>3, <2>4, <2>5, <3>1
    <3>2. CASE stack' = Push([Top EXCEPT !.at = None, !.rest = @ \ {c}], Tail(stack))
               /\ UNCHANGED tableVars
      BY <2>3, <2>4, <3>2
    <3> QED
      BY <2>2, <3>1, <3>2
  <2>7. PICK f \in Frame : f.op = "retire" /\
           (MgError(c, "DNS error", << f >>) \/ (stack' = << f >> /\ UNCHANGED tableVars))
    BY <2>6
  <2>8. Below(f)'
    BY <1>5, <2>1, <2>7
  <2>9. CASE MgError(c, "DNS error", << f >>)
    BY <1>4, <2>5, <2>8, <2>9, FlatMgError
  <2>10. CASE stack' = << f >> /\ UNCHANGED tableVars
    BY <1>4, <2>8, <2>10, FlatOne DEF FlatInv, FlatStep, tableVars
  <2> QED
    BY <2>7, <2>9, <2>10
<1>7. CASE RetireCancel
  <2>1. [Top EXCEPT !.at = None] \in Frame /\ [Top EXCEPT !.at = None].op = "retire"
    BY <1>1, <1>3 DEF Frame
  <2>2. PICK f \in Frame : f.op = "retire" /\ stack' = Push(f, Tail(stack))
    BY <1>7, <2>1 DEF RetireCancel
  <2>3. UNCHANGED <<dns4, tableVars>>
    BY <1>7 DEF RetireCancel, resolverVars
  <2>4. stack' = << f >>
    BY <1>2, <2>2, ShortStacks
  <2>5. Below(f)'
    BY <1>5, <2>2, <2>3
  <2> QED
    BY <1>4, <2>3, <2>4, <2>5, FlatOne DEF FlatInv, FlatStep, tableVars
<1>8. CASE RetireDone
  <2>1. stack' = << >> /\ UNCHANGED tableVars
    BY <1>2, <1>8 DEF RetireDone
  <2> QED
    BY <1>4, <2>1 DEF FlatInv, FlatStep, Flat, tableVars
<1> QED
  BY <1>2, <1>6, <1>7, <1>8

LEMMA FlatActivation == FlatInv /\ Activation => FlatStep
<1> SUFFICES ASSUME FlatInv, Activation PROVE FlatStep
  OBVIOUS
<1>1. CASE AnswerReturns \/ AnswerFreed
  <2>1. stack # << >> /\ Top.op = "answer"
    BY <1>1 DEF AnswerReturns, AnswerFreed, TopIs
  <2>2. Tail(stack) = << >> /\ Top.at \in lookups /\ Top.rest \subseteq lookups
    BY <2>1, FlatTop DEF FlatInv, Above, Below
  <2>3. stack' = << >> /\ UNCHANGED <<count, running>>
    BY <1>1, <2>2 DEF AnswerReturns, AnswerFreed, tableVars, loopVars
  <2> QED
    BY <2>3 DEF FlatInv, FlatStep, Flat
<1>2. CASE OnError \/ OnErrorDeleted
  <2>1. stack # << >> /\ Top.op = "error"
    BY <1>2 DEF OnError, OnErrorDeleted, TopIs
  <2>2. PICK f \in Frame : Below(f) /\ Tail(stack) = << f >> /\ Top.at \in owned
    BY <2>1, FlatTop DEF FlatInv, Above, Below
  <2>3. /\ stack' = Push(HandlerFrame, Tail(stack))
        /\ UNCHANGED <<count, running, lookups, dns4>>
    BY <1>2, <2>2 DEF OnError, OnErrorDeleted, tableVars, loopVars, lookupVars, resolverVars
  <2>4. HandlerFrame \in Frame /\ HandlerFrame.op = "handler"
    BY TablesAssumption DEF HandlerFrame, Frame, Slots
  <2>5. stack' = << HandlerFrame, f >>
    BY <2>2, <2>3, <2>4, ShortStacks
  <2>6. Above(HandlerFrame)' /\ Below(f)'
    BY <2>2, <2>3, <2>4 DEF Above, Below, HandlerFrame
  <2> QED
    BY <2>3, <2>4, <2>5, <2>6 DEF FlatInv, FlatStep, Flat
<1>3. CASE HandlerReturns
  <2>1. stack # << >> /\ stack' = Tail(stack)
        /\ UNCHANGED <<count, running, lookups, dns4, owned>>
    BY <1>3 DEF HandlerReturns, TopIs, tableVars, loopVars, lookupVars, resolverVars,
       connVars
  <2>2. CASE stack' = << >>
    BY <2>1, <2>2 DEF FlatInv, FlatStep, Flat
  <2>3. ASSUME NEW f \in Frame, Below(f), stack' = << f >> PROVE FlatStep
    <3>1. Below(f)'
      BY <2>1, <2>3 DEF Below
    <3> QED
      BY <2>1, <2>3, <3>1, FlatOne DEF FlatInv, FlatStep
  <2> QED
    BY <2>1, <2>2, <2>3, FlatTop DEF FlatInv
<1> QED
  BY <1>1, <1>2, <1>3, FlatWalk, FlatRetire DEF Activation

LEMMA FlatEventLoop == FlatInv /\ (EventLoop \/ Tick) => FlatStep
<1> SUFFICES ASSUME FlatInv, EventLoop \/ Tick PROVE FlatStep
  OBVIOUS
<1>1. CASE \/ BeginPass \/ NoAnswer \/ ResolverStays \/ RetiredCloses \/ Ended \/ Tick
  <2>1. UNCHANGED <<count, stack, lookups, dns4, owned>>
    BY <1>1 DEF BeginPass, NoAnswer, ResolverStays, RetiredCloses, Ended, Tick, tableVars,
       resolverVars, lookupVars, connVars
  <2>2. running' \notin Broken
    BY <1>1 DEF FlatInv, BeginPass, NoAnswer, ResolverStays, RetiredCloses, Ended, Tick,
       loopVars, Broken
  <2> QED
    BY <2>1, <2>2, FlatKept
<1>2. CASE ResolverTurn \/ ResolverCloses
  <2>1. /\ UNCHANGED <<count, running, lookups>>
        /\ \E d \in HeadsOf(lookups) : \E op \in {"scan", "fail"} :
             stack' = << WalkFrame(op, d, lookups) >>
    BY <1>2 DEF ResolverTurn, ResolverCloses, tableVars, lookupVars
  <2>2. PICK d \in HeadsOf(lookups) : \E op \in {"scan", "fail"} :
             stack' = << WalkFrame(op, d, lookups) >>
    BY <2>1
  <2>3. PICK op \in {"scan", "fail"} : stack' = << WalkFrame(op, d, lookups) >>
    BY <2>2
  <2> DEFINE w == WalkFrame(op, d, lookups)
  <2>4. lookups \in SUBSET Conns
    BY DEF FlatInv, TypeOK, LookupsOK
  <2>5. w \in Frame /\ w.op = op /\ w.at = d /\ d \in lookups \union {None}
    <3>1. d = None \/ d \in lookups
      BY <2>4, WalkFrameFacts DEF FlatInv
    <3> QED
      BY <2>4, <3>1, WalkFrameFacts DEF FlatInv
  <2>6. PICK f \in Frame : f.op = op /\ f.at = d /\ stack' = << f >>
    BY <2>3, <2>5
  <2>7. Below(f)'
    BY <2>1, <2>5, <2>6 DEF Below
  <2> QED
    BY <2>1, <2>6, <2>7, FlatOne DEF FlatInv, FlatStep
<1>3. ASSUME NEW c \in Conns, ConnStays(c) \/ AnswerConnects(c) PROVE FlatStep
  <2>1. UNCHANGED <<count, stack, dns4, owned, running>>
        /\ (lookups \subseteq lookups' \/ stack = << >>)
    BY <1>3 DEF ConnStays, AnswerConnects, ResolverIo, tableVars, resolverVars, lookupVars
  <2> QED
    BY <2>1, FlatKept DEF FlatInv
<1>4. ASSUME NEW c \in Conns, CloseConn(c) PROVE FlatStep
  <2>1. /\ UNCHANGED <<count, running>>
        /\ stack' = << HandlerFrame >> \/ stack' = << >>
    BY <1>4 DEF CloseConn, tableVars
  <2>2. HandlerFrame \in Frame /\ HandlerFrame.op = "handler"
    BY TablesAssumption DEF HandlerFrame, Frame, Slots
  <2>3. Below(HandlerFrame)'
    BY <2>2 DEF Below, HandlerFrame
  <2> QED
    BY <2>1, <2>2, <2>3 DEF FlatInv, FlatStep, Flat
<1>5. ASSUME NEW c \in Conns, ConnFails(c) PROVE FlatStep
  <2>1. /\ MgError(c, "other", << AtFrame("close", c) >>)
        /\ UNCHANGED <<owned, running>>
    BY <1>5 DEF ConnFails
  <2>2. PICK f \in Frame : f.op = "close" /\ MgError(c, "other", << f >>)
    BY <2>1, ErrorFrameFacts
  <2>3. Below(f)'
    BY <2>2 DEF Below
  <2> QED
    BY <2>1, <2>2, <2>3, FlatMgError
<1>6. ASSUME NEW c \in Conns, AnswerFails(c) PROVE FlatStep
  <2>1. /\ c \in lookups /\ UNCHANGED <<lookups, owned, running>>
        /\ \E S \in SUBSET lookups : \E next \in HeadsOf(S) :
             MgError(c, "other", << AnswerFrame(c, next) >>)
    BY <1>6 DEF AnswerFails, lookupVars
  <2>2. PICK S \in SUBSET lookups : \E next \in HeadsOf(S) :
             MgError(c, "other", << AnswerFrame(c, next) >>)
    BY <2>1
  <2>3. PICK next \in HeadsOf(S) : MgError(c, "other", << AnswerFrame(c, next) >>)
    BY <2>2
  <2>4. next \in S \union {None} /\ S \subseteq Conns
    BY <2>3 DEF HeadsOf, FlatInv, TypeOK, LookupsOK
  <2>5. /\ AnswerFrame(c, next) \in Frame /\ AnswerFrame(c, next).op = "answer"
        /\ AnswerFrame(c, next).at = c /\ AnswerFrame(c, next).rest \subseteq lookups
    BY <2>4, TablesAssumption DEF AnswerFrame, Frame, Slots
  <2>6. PICK f \in Frame : /\ f.op = "answer" /\ f.at = c /\ f.rest \subseteq lookups
                          /\ MgError(c, "other", << f >>)
    BY <2>3, <2>5
  <2>7. Below(f)'
    BY <2>1, <2>6 DEF Below
  <2> QED
    BY <2>1, <2>6, <2>7, FlatMgError
<1> QED
  BY <1>1, <1>2, <1>3, <1>4, <1>5, <1>6 DEF EventLoop

LEMMA FlatSetNameservers ==
    ASSUME OneServerOnly, FlatInv, NEW t \in Tables, SetNameservers(t)
    PROVE  FlatStep
<1>1. stack = << >>
  <2>1. "configure" \notin HandlerCalls /\ "configure" \notin RetireCalls
        /\ "setup" \notin HandlerCalls /\ "setup" \notin RetireCalls
    BY CallsAssumption DEF OneServerOnly
  <2> QED
    BY <2>1 DEF SetNameservers, May, Quiet
<1>2. UseNameserver(0, stack) /\ UNCHANGED <<running, dns4>>
  BY DEF SetNameservers, loopVars, resolverVars
<1>3. count' <= 1
  <2>1. t \in Seq(Servers) /\ Len(t) <= 1
    BY TablesAssumption DEF OneServerOnly
  <2>2. Len(t) \in Nat
    BY <2>1
  <2>3. count' = IF Len(t) < MaxNameservers THEN Len(t) ELSE MaxNameservers
    BY DEF SetNameservers
  <2> QED
    BY <2>1, <2>2, <2>3, TablesAssumption
<1>4. CASE stack' = stack
  BY <1>1, <1>2, <1>3, <1>4 DEF FlatInv, FlatStep, Flat
<1>5. CASE dns4 # None /\ stack' = Push(RetireFrame(0), stack)
  <2>1. 0 \in Slots
    BY TablesAssumption DEF Slots
  <2>2. RetireFrame(0) \in Frame /\ RetireFrame(0).op = "retire"
    BY <2>1, RetireFrameFacts DEF FlatInv
  <2>3. PICK f \in Frame : f.op = "retire" /\ stack' = Push(f, << >>)
    BY <1>1, <1>5, <2>2
  <2>4. stack' = << f >>
    BY <2>3, ShortStacks
  <2>5. Below(f)'
    BY <1>2, <1>5, <2>3 DEF Below
  <2> QED
    BY <1>2, <1>3, <2>4, <2>5, FlatOne DEF FlatInv, FlatStep
<1> QED
  BY <1>2, <1>4, <1>5 DEF UseNameserver

LEMMA FlatApplication == OneServerOnly /\ FlatInv /\ Application => FlatStep
<1> SUFFICES ASSUME OneServerOnly, FlatInv, Application PROVE FlatStep
  OBVIOUS
<1>1. ASSUME NEW c \in Conns, Lookup(c) \/ LocalLookup(c) \/ Abort(c)
      PROVE  FlatStep
  <2>1. /\ UNCHANGED <<count, stack, running>> /\ lookups \subseteq lookups'
        /\ owned \subseteq owned' /\ (dns4 # None => dns4' # None)
    BY <1>1 DEF Lookup, LocalLookup, Abort, NewConn, tableVars, loopVars, lookupVars,
       resolverVars
  <2> QED
    BY <2>1, FlatKept DEF FlatInv
<1>2. ASSUME NEW c \in Conns, Delete(c) PROVE FlatStep
  <2>1. UNCHANGED <<count, stack, running, lookups, dns4>>
    BY <1>2 DEF Delete, tableVars, loopVars, lookupVars, resolverVars
  <2>2. stack = << >> \/ Top.op = "handler"
    BY <1>2 DEF Delete, May, Quiet, TopIs
  <2> QED
    BY <2>1, <2>2, FlatKept DEF FlatInv
<1>3. CASE Begin \/ End
  <2>1. stack = << >> /\ UNCHANGED <<count, stack>> /\ running' \notin Broken
    BY <1>3 DEF Begin, End, Quiet, tableVars, Broken
  <2> QED
    BY <2>1, FlatKept
<1> QED
  BY <1>1, <1>2, <1>3, FlatSetNameservers DEF Application

\* With one server and no handler that configures, no walk, no closeResolver()
\* and no onError() ever uses an entry, a resolver or a socket that is gone.
THEOREM OneServerCorrect == OneServerOnly /\ Spec => []NoUndefinedBehaviour
<1> SUFFICES ASSUME OneServerOnly PROVE Spec => []NoUndefinedBehaviour
  OBVIOUS
<1>1. Init => FlatInv
  BY InitType DEF Init, FlatInv, Flat, Broken
<1>2. FlatInv /\ [Next]_vars => FlatInv'
  <2> SUFFICES ASSUME FlatInv, [Next]_vars PROVE FlatInv'
    OBVIOUS
  <2>1. TypeOK'
    BY NextType DEF FlatInv
  <2>2. ASSUME UNCHANGED vars PROVE FlatStep
    <3>1. UNCHANGED <<count, stack, lookups, dns4, owned, running>>
      BY <2>2 DEF vars
    <3> QED
      BY <3>1, FlatKept DEF FlatInv
  <2>3. FlatStep
    BY <2>2, FlatActivation, FlatEventLoop, FlatApplication DEF Next, Halted
  <2> QED
    BY <2>1, <2>3 DEF FlatInv, FlatStep
<1>3. FlatInv => NoUndefinedBehaviour
  BY DEF FlatInv, NoUndefinedBehaviour
<1> QED
  BY <1>1, <1>2, <1>3, PTL DEF Spec

-----------------------------------------------------------------------------
(* Failed once.  Whoever has heard of an error is about to be closed, and  *)
(* closeResolver() passes over what is about to be closed.                 *)

ErrsInv ==
    /\ TypeOK /\ owned \subseteq live
    /\ \A c \in Conns : errors[c] # 0 => c \in live \intersect closing
ErrsStep ==
    /\ owned' \subseteq live'
    /\ \A c \in Conns : errors'[c] # 0 => c \in live' \intersect closing'

LEMMA ErrsKept ==
    ASSUME ErrsInv, UNCHANGED <<live, errors>>, owned' \subseteq owned,
           closing \subseteq closing'
    PROVE  ErrsStep
BY DEF ErrsInv, ErrsStep

LEMMA ErrsMgError ==
    ASSUME ErrsInv, NEW c \in Conns, NEW msg, NEW below, MgError(c, msg, below),
           UNCHANGED <<live, owned>>
    PROVE  ErrsStep
<1>1. /\ closing' = closing \union {c}
      /\ c \notin owned => UNCHANGED errors
      /\ \A d \in Conns \ {c} : errors'[d] = errors[d]
  BY DEF MgError, ErrsInv, TypeOK, ConnsOK
<1>2. ASSUME NEW d \in Conns, errors'[d] # 0 PROVE d \in live' \intersect closing'
  <2>1. CASE d = c /\ c \in owned
    BY <1>1, <2>1 DEF ErrsInv
  <2>2. CASE ~(d = c /\ c \in owned)
    <3>1. errors'[d] = errors[d]
      BY <1>1, <2>2
    <3> QED
      BY <1>1, <1>2, <3>1 DEF ErrsInv
  <2> QED
    BY <2>1, <2>2
<1> QED
  BY <1>2 DEF ErrsInv, ErrsStep

LEMMA ErrsActivation == ErrsInv /\ Activation => ErrsStep
<1> SUFFICES ASSUME ErrsInv, Activation PROVE ErrsStep
  OBVIOUS
<1>1. CASE \/ WalkFreed \/ AnswerFreed \/ RetireNull \/ OnErrorDeleted \/ AnswerReturns
           \/ RetireCancel \/ RetireDone \/ OnError \/ HandlerReturns
  <2>1. UNCHANGED <<live, errors, owned, closing>>
    BY <1>1 DEF WalkFreed, AnswerFreed, RetireNull, OnErrorDeleted, AnswerReturns,
       RetireCancel, RetireDone, OnError, HandlerReturns, Break, connVars
  <2> QED
    BY <2>1, ErrsKept
<1>2. CASE Walk
  <2>1. UNCHANGED <<live, owned>>
    BY <1>2 DEF Walk
  <2>2. CASE UNCHANGED <<closing, errors>>
    BY <2>1, <2>2, ErrsKept
  <2>3. ASSUME NEW msg, NEW on, Top.at \in Conns, MgError(Top.at, msg, on) PROVE ErrsStep
    BY <2>1, <2>3, ErrsMgError
  <2> QED
    BY <1>2, <2>2, <2>3, WalkStack DEF ErrsInv
<1>3. CASE RetireConn
  <2>1. UNCHANGED <<live, owned>> /\ Top.rest \subseteq Conns
    BY <1>3, TopType DEF RetireConn, TopIs, ErrsInv, TypeOK
  <2>2. CASE UNCHANGED <<closing, errors>>
    BY <2>1, <2>2, ErrsKept
  <2>3. ASSUME NEW c \in Conns, NEW on, MgError(c, "DNS error", on) PROVE ErrsStep
    BY <2>1, <2>3, ErrsMgError
  <2> QED
    BY <1>3, <2>1, <2>2, <2>3 DEF RetireConn
<1> QED
  BY <1>1, <1>2, <1>3 DEF Activation

LEMMA ErrsEventLoop == ErrsInv /\ (EventLoop \/ Tick) => ErrsStep
<1> SUFFICES ASSUME ErrsInv, EventLoop \/ Tick PROVE ErrsStep
  OBVIOUS
<1>1. CASE \/ BeginPass \/ ResolverTurn \/ NoAnswer \/ ResolverCloses \/ ResolverStays
           \/ RetiredCloses \/ Ended \/ Tick
  <2>1. UNCHANGED <<live, errors, owned, closing>>
    BY <1>1 DEF BeginPass, ResolverTurn, NoAnswer, ResolverCloses, ResolverStays,
       RetiredCloses, Ended, Tick, connVars
  <2> QED
    BY <2>1, ErrsKept
<1>2. ASSUME NEW c \in Conns, ConnStays(c) \/ AnswerConnects(c) PROVE ErrsStep
  BY <1>2, ErrsKept DEF ConnStays, AnswerConnects
<1>3. ASSUME NEW c \in Conns, ConnFails(c) \/ AnswerFails(c) PROVE ErrsStep
  <2>1. UNCHANGED <<live, owned>> /\ \E below : MgError(c, "other", below)
    BY <1>3 DEF ConnFails, AnswerFails
  <2> QED
    BY <2>1, ErrsMgError
<1>4. ASSUME NEW c \in Conns, CloseConn(c) PROVE ErrsStep
  <2>1. /\ live' = live \ {c} /\ owned' = owned \ {c} /\ closing' = closing \ {c}
        /\ errors' = [errors EXCEPT ![c] = 0]
    BY <1>4 DEF CloseConn
  <2> QED
    BY <2>1 DEF ErrsInv, ErrsStep, TypeOK, ConnsOK
<1> QED
  BY <1>1, <1>2, <1>3, <1>4 DEF EventLoop

LEMMA ErrsApplication == ErrsInv /\ Application => ErrsStep
<1> SUFFICES ASSUME ErrsInv, Application PROVE ErrsStep
  OBVIOUS
<1>1. ASSUME NEW c \in Conns, Lookup(c) \/ LocalLookup(c) PROVE ErrsStep
  <2>1. /\ live' = live \union {c} /\ owned' = owned \union {c}
        /\ UNCHANGED <<closing, errors>>
    BY <1>1 DEF Lookup, LocalLookup, NewConn
  <2> QED
    BY <2>1 DEF ErrsInv, ErrsStep
<1>2. ASSUME NEW c \in Conns, Abort(c) \/ Delete(c) PROVE ErrsStep
  BY <1>2, ErrsKept DEF Abort, Delete
<1>3. ASSUME NEW t \in Tables, SetNameservers(t) PROVE ErrsStep
  BY <1>3, ErrsKept DEF SetNameservers, connVars
<1>4. CASE Begin
  BY <1>4 DEF Begin, ErrsStep
<1>5. CASE End
  <2>1. closing' = live /\ UNCHANGED <<live, owned, errors>>
    BY <1>5 DEF End
  <2> QED
    BY <2>1 DEF ErrsInv, ErrsStep
<1> QED
  BY <1>1, <1>2, <1>3, <1>4, <1>5 DEF Application

\* Whom closeResolver() tells of an error has not been told of one.
LEMMA RetireTells ==
    ASSUME ErrsInv, TopIs("retire"), [Next]_vars, NEW c \in Conns, errors'[c] > errors[c]
    PROVE  errors[c] = 0
<1>1. stack # << >> /\ Top.op = "retire" /\ errors[c] \in 0 .. 2
  BY DEF TopIs, ErrsInv, TypeOK, ConnsOK
<1>2. errors'[c] # errors[c]
  BY <1>1
<1>3. CASE RetireConn
  <2>1. PICK d :
           \/ UNCHANGED errors
           \/ /\ d \notin closing
              /\ errors' = [errors EXCEPT ![d] = IF @ < 2 THEN @ + 1 ELSE @]
    BY <1>3 DEF RetireConn, MgError
  <2>2. c = d /\ d \notin closing
    BY <1>2, <2>1 DEF ErrsInv, TypeOK, ConnsOK
  <2> QED
    BY <2>2 DEF ErrsInv
<1>4. CASE UNCHANGED errors
  BY <1>2, <1>4
<1>5. ASSUME Activation PROVE RetireConn \/ UNCHANGED errors
  BY <1>1, <1>5 DEF Activation, Walk, TopIs, WalkFreed, AnswerFreed, RetireNull,
     OnErrorDeleted, AnswerReturns, RetireCancel, RetireDone, OnError, HandlerReturns,
     Break, connVars
<1>6. ASSUME EventLoop \/ Tick PROVE UNCHANGED errors
  <2>1. ASSUME NEW d \in Conns PROVE ~ConnFails(d) /\ ~CloseConn(d) /\ ~AnswerFails(d)
    BY <1>1 DEF ConnFails, CloseConn, ConnTurn, InPass, AnswerFails, ResolverIo, TopIs
  <2> QED
    BY <1>6, <2>1 DEF EventLoop, BeginPass, ResolverTurn, NoAnswer, ResolverCloses,
       ResolverStays, RetiredCloses, Ended, Tick, ConnStays, AnswerConnects, connVars
<1>7. ASSUME Application PROVE UNCHANGED errors
  <2>1. ~Begin
    BY <1>1 DEF Begin, Quiet
  <2> QED
    BY <1>7, <2>1 DEF Application, End, Lookup, LocalLookup, NewConn, Abort, Delete,
       SetNameservers, connVars
<1>8. UNCHANGED vars => UNCHANGED errors
  BY DEF vars
<1> QED
  BY <1>3, <1>4, <1>5, <1>6, <1>7, <1>8 DEF Next, Halted

\* An owner that has heard of an error hears of no other from closeResolver(),
\* whatever the handlers it runs call.
THEOREM ErrsOnce == Spec => RetireErrsOnce
<1>1. Init => ErrsInv
  BY InitType DEF Init, ErrsInv
<1>2. ErrsInv /\ [Next]_vars => ErrsInv'
  <2> SUFFICES ASSUME ErrsInv, [Next]_vars PROVE ErrsInv'
    OBVIOUS
  <2>1. TypeOK'
    BY NextType DEF ErrsInv
  <2>2. UNCHANGED vars => ErrsStep
    BY ErrsKept DEF vars
  <2> QED
    BY <2>1, <2>2, ErrsActivation, ErrsEventLoop, ErrsApplication
    DEF Next, Halted, ErrsInv, ErrsStep
<1>3. ErrsInv /\ [Next]_vars =>
         (TopIs("retire") =>
            \A c \in Conns : errors'[c] > errors[c] => errors[c] = 0)
  BY RetireTells
<1> QED
  BY <1>1, <1>2, <1>3, PTL DEF Spec, RetireErrsOnce

-----------------------------------------------------------------------------
(* A rotation blames the server that did not answer.  Every lookup was     *)
(* sent to the server that mgr.dns4.url names, because the URL changes     *)
(* only when there is no lookup: without a resolver there is none, and     *)
(* closeResolver() has cancelled every one before the new URL is in.       *)
(* end() breaks this, but dns_cb finds no timeout after it.                *)

\* What the argument needs: no table is empty, the resolver's socket does not
\* report errors, and a handler that closeResolver() waits for opens no lookup.
Settled ==
    << >> \notin Tables /\ ~ResolverMayFail /\ "lookup" \notin RetireCalls

\* end() has begun and the resolver had its last turn: no walk finds timeouts.
PastTimeouts ==
    running # "on" /\ Resolver \notin pass /\ OpFrames("scan", stack) = {}
Served ==
    /\ \A c \in lookups : asked[c] = url
    /\ dns4 = None => lookups = {}
ClosesAtEnd == dns4Closing => running # "on"
VisitsOnce == visiting # "none" => Resolver \notin pass
Addressed ==
    url = None => running = "off" /\ stack = << >> /\ pass = {} /\ visiting = "none"
RetiresHoldAll ==
    \A f \in OpFrames("retire", stack) :
        lookups \subseteq f.rest \union {f.at} /\ nameserver[f.slot] # None

BlameParts ==
    /\ PastTimeouts \/ Served
    /\ ClosesAtEnd /\ VisitsOnce /\ Addressed /\ RetiresHoldAll
BlameInv == TypeOK /\ EntriesPointAtConnections /\ UrlInv /\ BlameParts
BlameStep == BlameParts'

\* A retirement that begins has all of mgr.conns ahead of it.
NewRetire(f) == \E i \in Slots : f = RetireFrame(i) /\ nameserver'[i] # None

\* What most steps do: no lookup is added, and those that stay keep their
\* server unless nobody will find a timeout any more.
LEMMA BlameMoved ==
    ASSUME BlameInv, lookups' \subseteq lookups,
           \A c \in lookups' : asked'[c] = asked[c],
           Served => lookups' = {} \/ url' = url,
           dns4' = None => dns4 = None \/ lookups' = {},
           dns4Closing' => dns4Closing,
           running' = "on" => running = "on",
           pass' \subseteq pass,
           visiting' # "none" => visiting # "none",
           url' = None => url = None /\ running' = "off" /\ stack' = << >>,
           OpFrames("scan", stack) = {} => OpFrames("scan", stack') = {},
           RetiresHoldAll'
    PROVE  BlameStep
<1>1. PastTimeouts => PastTimeouts'
  BY DEF PastTimeouts
<1>2. Served => Served'
  BY DEF Served
<1>3. ClosesAtEnd' /\ VisitsOnce'
  BY DEF BlameInv, BlameParts, ClosesAtEnd, VisitsOnce
<1>4. Addressed'
  BY DEF BlameInv, BlameParts, Addressed
<1> QED
  BY <1>1, <1>2, <1>3, <1>4 DEF BlameInv, BlameParts, BlameStep

\* ... and that what closeResolver() still has to fail is all there is.
LEMMA BlameKept ==
    ASSUME BlameInv, lookups' \subseteq lookups,
           \A c \in lookups' : asked'[c] = asked[c],
           Served => lookups' = {} \/ url' = url,
           dns4' = None => dns4 = None \/ lookups' = {},
           dns4Closing' => dns4Closing,
           running' = "on" => running = "on",
           pass' \subseteq pass,
           visiting' # "none" => visiting # "none",
           url' = None => url = None /\ running' = "off" /\ stack' = << >>,
           OpFrames("scan", stack) = {} => OpFrames("scan", stack') = {},
           \A i \in Slots : nameserver[i] # None => nameserver'[i] # None,
           \A f \in OpFrames("retire", stack') :
               f \in OpFrames("retire", stack) \/ NewRetire(f)
    PROVE  BlameStep
<1>1. RetiresHoldAll'
  <2> SUFFICES ASSUME NEW f \in OpFrames("retire", stack')
               PROVE  /\ lookups' \subseteq f.rest \union {f.at}
                      /\ nameserver'[f.slot] # None
    BY DEF RetiresHoldAll
  <2>1. CASE f \in OpFrames("retire", stack)
    <3>1. stack \in Seq(Frame) /\ f \in Elems(stack)
      BY <2>1 DEF BlameInv, TypeOK, OpFrames
    <3>2. f \in Frame
      BY <3>1 DEF Elems
    <3>3. f.slot \in Slots
      BY <3>2 DEF Frame
    <3> QED
      BY <2>1, <3>3 DEF BlameInv, BlameParts, RetiresHoldAll
  <2>2. CASE NewRetire(f)
    BY <2>2 DEF NewRetire, RetireFrame, BlameInv, EntriesPointAtConnections
  <2> QED
    BY <2>1, <2>2
<1> QED
  BY <1>1, BlameMoved

\* useNameserver() changes the URL only where there is no lookup.
LEMMA UseNameserverBlame ==
    ASSUME BlameInv, UrlInv', NEW i \in Slots, NEW below \in Seq(Frame),
           UseNameserver(i, below), TablesOK'
    PROVE  /\ OpFrames("scan", stack') = OpFrames("scan", below)
           /\ \A f \in OpFrames("retire", stack') :
                 f \in OpFrames("retire", below) \/ NewRetire(f)
           /\ Served => lookups = {} \/ url' = url
           /\ url' = None => url = None
           /\ i < count' => url' # None \/ stack' # below
           /\ stack' # below => stack' # << >> /\ dns4 # None
<1>1. TypeOK /\ UrlInv
  BY DEF BlameInv
<1>2. i < count' => nameserver'[i] \in Servers /\ nameserver'[i] # None
  BY NamesAssumption DEF UrlInv, Configured
<1>3. CASE i >= count' /\ stack' = below /\ UNCHANGED <<activeUrl, url>>
  <2>1. i \in Nat /\ count' \in Nat
    BY TablesAssumption DEF TablesOK, Slots
  <2>2. ~(i < count')
    BY <1>3, <2>1
  <2> QED
    BY <1>3, <2>2
<1>4. CASE /\ i < count' /\ (activeUrl = nameserver'[i] \/ dns4 = None)
           /\ url' = nameserver'[i] /\ stack' = below
  <2>1. activeUrl = nameserver'[i] => url' = url
    BY <1>1, <1>2, <1>4 DEF UrlInv
  <2> QED
    BY <1>2, <1>4, <2>1 DEF Served
<1>5. CASE /\ i < count' /\ dns4 # None
           /\ stack' = Push(RetireFrame(i), below) /\ UNCHANGED url
  <2>1. RetireFrame(i) \in Frame /\ RetireFrame(i).op = "retire"
    BY <1>1, RetireFrameFacts
  <2>2. OpFrames("scan", stack') = OpFrames("scan", below)
    BY <1>5, <2>1, PushOther
  <2>3. OpFrames("retire", stack') = {RetireFrame(i)} \union OpFrames("retire", below)
    <3>1. OpFrames(RetireFrame(i).op, Push(RetireFrame(i), below)) =
            {RetireFrame(i)} \union OpFrames(RetireFrame(i).op, below)
      BY <2>1, PushSame
    <3> QED
      BY <1>5, <2>1, <3>1
  <2>4. NewRetire(RetireFrame(i))
    BY <1>2, <1>5 DEF NewRetire
  <2>5. stack' # << >> /\ Len(stack') # Len(below)
    BY <1>5, <2>1 DEF Push
  <2>6. url # None \/ dns4 = None
    BY <1>1 DEF UrlInv
  <2> QED
    BY <1>5, <2>2, <2>3, <2>4, <2>5
<1> QED
  BY <1>3, <1>4, <1>5 DEF UseNameserver

LEMMA MgErrorBlame ==
    ASSUME BlameInv, UrlInv', TablesOK', NEW c \in Conns, NEW msg,
           NEW below \in Seq(Frame), MgError(c, msg, below)
    PROVE  /\ OpFrames("scan", stack') = OpFrames("scan", below)
           /\ \A f \in OpFrames("retire", stack') :
                 f \in OpFrames("retire", below) \/ NewRetire(f)
           /\ Served => lookups = {} \/ url' = url
           /\ url' = None => url = None
           /\ UNCHANGED nameserver
<1> DEFINE err == AtFrame("error", c)
           with == Push(err, below)
<1>1. TypeOK
  BY DEF BlameInv
<1>2. err \in Frame /\ err.op = "error"
  BY ErrorFrameFacts
<1>3. with \in Seq(Frame)
  BY <1>2, PushType
<1>4. /\ OpFrames("scan", with) = OpFrames("scan", below)
      /\ OpFrames("retire", with) = OpFrames("retire", below)
  <2> HIDE DEF err
  <2> QED
    BY <1>2, PushOther
<1> HIDE DEF with
<1>5. \/ c \notin owned /\ stack' = below /\ UNCHANGED <<tableVars, serverVars>>
      \/ /\ c \in owned /\ stack' = with
         /\ UNCHANGED <<tableVars, serverVars>>
      \/ /\ c \in owned /\ Rotates(msg) /\ UNCHANGED tableVars
         /\ (active + 1) % count \in Slots
         /\ UseNameserver((active + 1) % count, with)
  BY <1>1, MgErrorStack DEF with
<1>6. CASE stack' \in {below, with} /\ UNCHANGED <<tableVars, serverVars>>
  BY <1>4, <1>6 DEF tableVars, serverVars
<1>7. CASE /\ UNCHANGED tableVars
           /\ \E i \in Slots : UseNameserver(i, with)
  BY <1>3, <1>4, <1>7, UseNameserverBlame DEF tableVars
<1> QED
  BY <1>5, <1>6, <1>7

LEMMA BlameWalk == BlameInv /\ UrlInv' /\ TablesOK' /\ Walk => BlameStep
<1> SUFFICES ASSUME BlameInv, UrlInv', TablesOK', Walk PROVE BlameStep
  OBVIOUS
<1>1. /\ TypeOK /\ stack # << >> /\ Top.op \in {"scan", "fail"}
      /\ Tail(stack) \in Seq(Frame)
  BY TopType DEF Walk, TopIs, BlameInv, TypeOK
<1>2. UNCHANGED <<resolverVars, lookupVars, loopVars>>
  BY DEF Walk
<1>3. OpFrames("retire", Tail(stack)) = OpFrames("retire", stack)
  BY <1>1, TopOther
<1>4. OpFrames("scan", stack) = {} => Top.op = "fail" /\ OpFrames("scan", Tail(stack)) = {}
  BY <1>1, TopSame, TopOther
<1>5. CASE stack' = Tail(stack) /\ UNCHANGED <<tableVars, serverVars>>
  <2>1. url' = None => running' = "off" /\ stack' = << >>
    BY <1>1, <1>2, <1>5 DEF BlameInv, BlameParts, Addressed, serverVars
  <2> QED
    BY <1>2, <1>3, <1>4, <1>5, <2>1, BlameKept
    DEF tableVars, serverVars, resolverVars, lookupVars, loopVars
<1>6. ASSUME NEW w \in Frame, w.op = Top.op,
             NEW on \in Seq(Frame), on = Push(w, Tail(stack)), Top.at \in Conns,
             \/ stack' = on /\ UNCHANGED <<tableVars, serverVars>>
             \/ \E msg : MgError(Top.at, msg, on)
      PROVE  BlameStep
  <2>1. OpFrames("retire", on) = OpFrames("retire", stack)
    BY <1>1, <1>3, <1>6, PushOther
  <2>2. OpFrames("scan", stack) = {} => OpFrames("scan", on) = {}
    BY <1>1, <1>4, <1>6, PushOther
  <2>3. /\ OpFrames("scan", stack') = OpFrames("scan", on)
        /\ \A f \in OpFrames("retire", stack') :
              f \in OpFrames("retire", on) \/ NewRetire(f)
        /\ Served => lookups = {} \/ url' = url
        /\ url' = None => url = None
        /\ UNCHANGED nameserver
    BY <1>6, MgErrorBlame DEF tableVars, serverVars
  <2>4. url # None
    BY <1>1 DEF BlameInv, BlameParts, Addressed
  <2> QED
    BY <1>2, <2>1, <2>2, <2>3, <2>4, BlameKept DEF resolverVars, lookupVars, loopVars
<1> QED
  BY <1>1, <1>5, <1>6, WalkStack

\* closeResolver() counts down: what it has passed has no lookup left.
LEMMA BlameRetireFrame ==
    ASSUME BlameInv, TopIs("retire"), NEW f \in Frame, f.op = "retire", f.slot = Top.slot,
           lookups' \subseteq f.rest \union {f.at}, lookups' \subseteq lookups,
           OpFrames("retire", stack') = {f} \union OpFrames("retire", Tail(stack)),
           UNCHANGED nameserver
    PROVE  RetiresHoldAll'
<1>1. TypeOK /\ stack # << >> /\ Top.op = "retire"
  BY DEF BlameInv, TopIs
<1>2. Top \in OpFrames("retire", stack)
      /\ OpFrames("retire", Tail(stack)) \subseteq OpFrames("retire", stack)
  BY <1>1, TopSame
<1>3. RetiresHoldAll
  BY DEF BlameInv, BlameParts
<1> QED
  BY <1>2, <1>3 DEF RetiresHoldAll

LEMMA BlameRetireConn == BlameInv /\ RetireConn => BlameStep
<1> SUFFICES ASSUME BlameInv, RetireConn PROVE BlameStep
  OBVIOUS
<1>1. /\ TypeOK /\ stack # << >> /\ Top.op = "retire" /\ TopIs("retire")
      /\ Top \in Frame /\ Top.rest \subseteq Conns /\ Tail(stack) \in Seq(Frame)
  BY TopType DEF RetireConn, TopIs, BlameInv, TypeOK
<1>2. UNCHANGED <<resolverVars, loopVars>>
  BY DEF RetireConn
<1> DEFINE moved(c, at) == [Top EXCEPT !.at = at, !.rest = @ \ {c}]
           on(c, at) == Push(moved(c, at), Tail(stack))
<1>3. \A c \in Top.rest : \A at \in {c, None} :
         /\ moved(c, at) \in Frame /\ moved(c, at).op = "retire"
         /\ moved(c, at).slot = Top.slot
         /\ moved(c, at).at = at /\ moved(c, at).rest = Top.rest \ {c}
  BY <1>1 DEF Frame
<1>4. lookups \subseteq Top.rest \union {None} /\ lookups \subseteq Conns
  <2>1. Top \in OpFrames("retire", stack)
    BY <1>1, TopSame
  <2>2. Top.at = None
    BY DEF RetireConn
  <2> QED
    BY <1>1, <2>1, <2>2 DEF BlameInv, BlameParts, RetiresHoldAll, TypeOK, LookupsOK
<1>5. PICK c \in Top.rest : \E at \in {c, None} :
        /\ \/ stack' = on(c, at) /\ UNCHANGED <<tableVars, serverVars>>
           \/ MgError(c, "DNS error", on(c, at)) /\ at = c
        /\ \/ at = c /\ UNCHANGED lookupVars
           \/ Cancel(c)
           \/ c \notin resolving \union closing /\ UNCHANGED lookupVars
  BY DEF RetireConn
<1>6. PICK at \in {c, None} :
        /\ \/ stack' = on(c, at) /\ UNCHANGED <<tableVars, serverVars>>
           \/ MgError(c, "DNS error", on(c, at)) /\ at = c
        /\ \/ at = c /\ UNCHANGED lookupVars
           \/ Cancel(c)
           \/ c \notin resolving \union closing /\ UNCHANGED lookupVars
  BY <1>5
<1>7. PICK f \in Frame : f = moved(c, at) /\ on(c, at) = Push(f, Tail(stack))
  BY <1>3
<1>8. /\ f.op = "retire" /\ f.slot = Top.slot
      /\ f.at = at /\ f.rest = Top.rest \ {c}
  BY <1>3, <1>7
<1> HIDE DEF moved, on
<1>9. PICK below \in Seq(Frame) : below = Push(f, Tail(stack))
  BY <1>1, PushType
<1>10. /\ OpFrames("scan", below) = OpFrames("scan", stack)
       /\ OpFrames("retire", below) = {f} \union OpFrames("retire", Tail(stack))
  <2>1. OpFrames("scan", below) = OpFrames("scan", stack)
    BY <1>1, <1>8, <1>9, MovedFrames
  <2>2. OpFrames(f.op, below) = {f} \union OpFrames(f.op, Tail(stack))
    BY <1>1, <1>9, PushSame
  <2> QED
    BY <1>8, <2>1, <2>2
<1>11. lookups' \subseteq f.rest \union {f.at} /\ lookups' \subseteq lookups
       /\ \A d \in lookups' : asked'[d] = asked[d]
  <2>1. c \notin resolving \union closing => c \notin lookups
    BY DEF BlameInv, EntriesPointAtConnections
  <2> QED
    BY <1>4, <1>6, <1>8, <2>1, NamesAssumption DEF lookupVars, Cancel
<1>12. /\ UNCHANGED <<tableVars, serverVars>>
       /\ OpFrames("scan", stack') = OpFrames("scan", below)
       /\ OpFrames("retire", stack') = OpFrames("retire", below)
  <2>1. CASE stack' = below /\ UNCHANGED <<tableVars, serverVars>>
    BY <2>1
  <2>2. CASE MgError(c, "DNS error", below)
    <3>1. c \in Conns /\ ~Rotates("DNS error")
      BY <1>1 DEF Rotates
    <3> DEFINE err == AtFrame("error", c)
    <3>2. err \in Frame /\ err.op = "error"
      BY <3>1, ErrorFrameFacts
    <3>3. stack' \in {below, Push(err, below)} /\ UNCHANGED <<tableVars, serverVars>>
      BY <1>1, <2>2, <3>1, MgErrorStack
    <3> HIDE DEF err
    <3> QED
      BY <3>2, <3>3, PushOther
  <2> QED
    BY <1>6, <1>7, <1>9, <2>1, <2>2
<1>13. RetiresHoldAll'
  BY <1>1, <1>8, <1>10, <1>11, <1>12, BlameRetireFrame DEF tableVars
<1>14. url # None
  BY <1>1 DEF BlameInv, BlameParts, Addressed
<1> QED
  BY <1>2, <1>10, <1>11, <1>12, <1>13, <1>14, BlameMoved
  DEF tableVars, serverVars, resolverVars, loopVars

LEMMA BlameRetireCancel == BlameInv /\ RetireCancel => BlameStep
<1> SUFFICES ASSUME BlameInv, RetireCancel PROVE BlameStep
  OBVIOUS
<1>1. /\ TypeOK /\ stack # << >> /\ Top.op = "retire" /\ TopIs("retire")
      /\ Top \in Frame /\ Tail(stack) \in Seq(Frame)
  BY TopType DEF RetireCancel, TopIs, BlameInv, TypeOK
<1>2. /\ UNCHANGED <<tableVars, serverVars, resolverVars, loopVars>>
      /\ lookups' = lookups \ {Top.at} /\ UNCHANGED asked
  BY DEF RetireCancel, Cancel
<1>3. PICK f \in Frame : f = [Top EXCEPT !.at = None] /\ stack' = Push(f, Tail(stack))
  BY <1>1 DEF RetireCancel, Frame
<1>4. f.op = "retire" /\ f.slot = Top.slot /\ f.at = None /\ f.rest = Top.rest
  BY <1>1, <1>3 DEF Frame
<1>5. lookups' \subseteq f.rest \union {f.at}
  <2>1. Top \in OpFrames("retire", stack)
    BY <1>1, TopSame
  <2> QED
    BY <1>2, <1>4, <2>1 DEF BlameInv, BlameParts, RetiresHoldAll
<1>6. OpFrames("scan", stack') = OpFrames("scan", stack)
  BY <1>1, <1>3, <1>4, MovedFrames
<1>7. OpFrames("retire", stack') = {f} \union OpFrames("retire", Tail(stack))
  <2>1. OpFrames(f.op, Push(f, Tail(stack))) = {f} \union OpFrames(f.op, Tail(stack))
    BY <1>1, PushSame
  <2> QED
    BY <1>3, <1>4, <2>1
<1>8. RetiresHoldAll'
  BY <1>1, <1>2, <1>4, <1>5, <1>7, BlameRetireFrame DEF tableVars
<1>9. url # None
  BY <1>1 DEF BlameInv, BlameParts, Addressed
<1> QED
  BY <1>2, <1>6, <1>8, <1>9, BlameMoved
  DEF serverVars, resolverVars, loopVars

\* The new URL goes in when no lookup is left.
LEMMA BlameRetireDone == BlameInv /\ RetireDone => BlameStep
<1> SUFFICES ASSUME BlameInv, RetireDone PROVE BlameStep
  OBVIOUS
<1>1. /\ TypeOK /\ stack # << >> /\ Top.op = "retire"
      /\ Tail(stack) \in Seq(Frame) /\ Top.at = None /\ Top.rest = {}
  BY TopType DEF RetireDone, RetireWalked, TopIs, BlameInv, TypeOK
<1>2. Top \in OpFrames("retire", stack)
      /\ OpFrames("retire", Tail(stack)) \subseteq OpFrames("retire", stack)
  BY <1>1, TopSame
<1>3. lookups = {} /\ nameserver[Top.slot] # None
  <2>1. lookups \subseteq {None} /\ lookups \subseteq Conns
    BY <1>1, <1>2 DEF BlameInv, BlameParts, RetiresHoldAll, TypeOK, LookupsOK
  <2>2. nameserver[Top.slot] # None
    BY <1>2 DEF BlameInv, BlameParts, RetiresHoldAll
  <2> QED
    BY <2>1, <2>2, NamesAssumption
<1>4. OpFrames("scan", Tail(stack)) = OpFrames("scan", stack)
  BY <1>1, TopOther
<1>5. /\ lookups' = {} /\ UNCHANGED <<asked, running, nameserver>> /\ url' # None
      /\ dns4Closing' = FALSE /\ pass' \subseteq pass
      /\ visiting' # "none" => visiting # "none"
      /\ stack' = Tail(stack)
  BY <1>3 DEF RetireDone, tableVars
<1> QED
  BY <1>2, <1>3, <1>4, <1>5, BlameKept

\* What undefined behaviour leaves.
LEMMA BlameBroken ==
    ASSUME BlameInv, stack # << >>, NEW what \in Broken, Break(what)
    PROVE  BlameStep
<1>1. /\ UNCHANGED <<tableVars, serverVars, resolverVars, lookupVars>>
      /\ running' # "on" /\ stack' = << >> /\ pass' = {} /\ visiting' = "none"
      /\ running' = what
  BY DEF Break, Broken
<1>2. OpFrames("scan", stack') = {} /\ OpFrames("retire", stack') = {}
  BY <1>1 DEF OpFrames, Elems
<1>3. PastTimeouts' /\ ClosesAtEnd' /\ VisitsOnce' /\ RetiresHoldAll'
  BY <1>1, <1>2 DEF PastTimeouts, ClosesAtEnd, VisitsOnce, RetiresHoldAll
<1>4. Addressed'
  BY <1>1 DEF BlameInv, BlameParts, Addressed, serverVars
<1> QED
  BY <1>3, <1>4 DEF BlameStep, BlameParts

LEMMA BlameActivation ==
    BlameInv /\ UrlInv' /\ TablesOK' /\ Activation => BlameStep
<1> SUFFICES ASSUME BlameInv, UrlInv', TablesOK', Activation PROVE BlameStep
  OBVIOUS
<1>1. CASE WalkFreed \/ AnswerFreed \/ RetireNull \/ OnErrorDeleted
  BY <1>1, BlameBroken DEF WalkFreed, AnswerFreed, RetireNull, OnErrorDeleted, Broken,
     RetireWalked, TopIs
<1>2. CASE AnswerReturns \/ OnError \/ HandlerReturns
  <2>1. TypeOK /\ stack # << >> /\ Top.op \notin {"scan", "retire"}
        /\ Tail(stack) \in Seq(Frame)
    BY <1>2, TopType
    DEF AnswerReturns, OnError, HandlerReturns, TopIs, BlameInv, TypeOK
  <2>2. /\ UNCHANGED <<tableVars, serverVars, resolverVars, loopVars, asked>>
        /\ lookups' \subseteq lookups
        /\ stack' \in {Tail(stack), Push(HandlerFrame, Tail(stack))}
    BY <1>2 DEF AnswerReturns, OnError, HandlerReturns, Cancel, lookupVars
  <2>3. /\ OpFrames("scan", stack') = OpFrames("scan", stack)
        /\ OpFrames("retire", stack') = OpFrames("retire", stack)
    <3>1. /\ OpFrames("scan", Tail(stack)) = OpFrames("scan", stack)
          /\ OpFrames("retire", Tail(stack)) = OpFrames("retire", stack)
      BY <2>1, TopOther
    <3>2. HandlerFrame \in Frame /\ HandlerFrame.op = "handler"
      BY TablesAssumption DEF HandlerFrame, Frame, Slots
    <3> QED
      BY <2>1, <2>2, <3>1, <3>2, PushOther
  <2>4. url # None
    BY <2>1 DEF BlameInv, BlameParts, Addressed
  <2> QED
    BY <2>2, <2>3, <2>4, BlameKept DEF tableVars, serverVars, resolverVars, loopVars
<1> QED
  BY <1>1, <1>2, BlameWalk, BlameRetireConn, BlameRetireCancel, BlameRetireDone
  DEF Activation

\* With an empty stack there is nothing to keep.
LEMMA IdleFrames == stack = << >> => \A op : OpFrames(op, stack) = {}
BY DEF OpFrames, Elems

LEMMA OneOtherFrame ==
    ASSUME NEW f, f.op \notin {"scan", "retire"},
           stack' \in {<< >>, << f >>}
    PROVE  OpFrames("scan", stack') = {} /\ OpFrames("retire", stack') = {}
BY OneFrame

LEMMA BlameTurn ==
    ASSUME BlameInv, UrlInv', TablesOK', NEW c \in Conns,
           ConnFails(c) \/ ConnStays(c) \/ CloseConn(c)
    PROVE  BlameStep
<1>1. TypeOK /\ url # None
  <2>1. (pass # {} \/ stack # << >>) => url # None
    BY DEF BlameInv, BlameParts, Addressed
  <2> QED
    BY <2>1 DEF ConnFails, ConnStays, CloseConn, ConnTurn, InPass, TopIs, BlameInv
<1>2. CASE ConnFails(c)
  <2> DEFINE below == << AtFrame("close", c) >>
  <2>1. AtFrame("close", c) \in Frame /\ AtFrame("close", c).op = "close"
    BY ErrorFrameFacts
  <2>2. /\ MgError(c, "other", below) /\ stack = << >>
        /\ UNCHANGED <<resolverVars, lookupVars, running, visiting>>
        /\ pass' \subseteq pass
    BY <1>2 DEF ConnFails, ConnTurn, InPass
  <2>3. OpFrames("scan", below) = {} /\ OpFrames("retire", below) = {}
    BY <2>1, OneFrame
  <2>4. below \in Seq(Frame)
    BY <2>1
  <2> HIDE DEF below
  <2>5. /\ OpFrames("scan", stack') = {}
        /\ \A f \in OpFrames("retire", stack') : NewRetire(f)
        /\ Served => lookups = {} \/ url' = url
        /\ url' # None /\ UNCHANGED nameserver
    BY <1>1, <2>2, <2>3, <2>4, MgErrorBlame
  <2> QED
    BY <2>2, <2>5, BlameKept DEF resolverVars, lookupVars
<1>3. CASE ConnStays(c)
  BY <1>1, <1>3, BlameKept
  DEF ConnStays, tableVars, serverVars, resolverVars, lookupVars
<1>4. CASE CloseConn(c)
  <2>1. /\ UNCHANGED <<tableVars, serverVars, resolverVars, running, visiting>>
        /\ lookups' \subseteq lookups /\ pass' \subseteq pass
        /\ stack' \in {<< >>, << HandlerFrame >>}
    BY <1>4 DEF CloseConn
  <2>2. \A d \in lookups' : asked'[d] = asked[d]
    BY <1>1, <1>4 DEF CloseConn, TypeOK, LookupsOK
  <2>3. OpFrames("scan", stack') = {} /\ OpFrames("retire", stack') = {}
    BY <2>1, OneOtherFrame DEF HandlerFrame
  <2> QED
    BY <1>1, <2>1, <2>2, <2>3, BlameKept DEF tableVars, serverVars, resolverVars
<1> QED
  BY <1>2, <1>3, <1>4

LEMMA BlameResolver ==
    ASSUME ~ResolverMayFail, BlameInv, UrlInv', TablesOK',
           \/ ResolverTurn \/ NoAnswer \/ ResolverCloses \/ ResolverStays
           \/ \E c \in Conns : AnswerConnects(c) \/ AnswerFails(c)
    PROVE  BlameStep
<1>1. TypeOK /\ url # None /\ stack = << >> /\ UNCHANGED running
  <2>1. (pass # {} \/ visiting # "none") => url # None
    BY DEF BlameInv, BlameParts, Addressed
  <2> QED
    BY <2>1 DEF ResolverTurn, NoAnswer, ResolverCloses, ResolverStays, AnswerConnects,
       AnswerFails, InPass, ResolverIo, BlameInv, loopVars
<1>2. OpFrames("scan", stack) = {} /\ OpFrames("retire", stack) = {}
  BY <1>1, IdleFrames
<1>3. CASE ResolverTurn
  <2>1. /\ Resolver \in pass /\ pass' = pass \ {Resolver} /\ visiting' = "io"
        /\ UNCHANGED <<tableVars, serverVars, resolverVars, lookupVars>>
    BY <1>3 DEF ResolverTurn
  <2>2. PICK d \in HeadsOf(lookups) : stack' = << WalkFrame("scan", d, lookups) >>
    BY <1>3 DEF ResolverTurn
  <2>3. OpFrames("retire", stack') = {}
    <3>1. WalkFrame("scan", d, lookups).op = "scan"
      BY DEF WalkFrame
    <3> HIDE DEF WalkFrame
    <3> QED
      BY <2>2, <3>1, OneFrame
  <2>4. Served'
    BY <2>1 DEF BlameInv, BlameParts, PastTimeouts, Served, serverVars, resolverVars,
       lookupVars
  <2>5. ClosesAtEnd' /\ VisitsOnce' /\ Addressed' /\ RetiresHoldAll'
    BY <1>1, <2>1, <2>3 DEF BlameInv, BlameParts, ClosesAtEnd, VisitsOnce, Addressed,
       RetiresHoldAll, serverVars, resolverVars
  <2> QED
    BY <2>4, <2>5 DEF BlameStep, BlameParts
<1>4. CASE NoAnswer
  <2>1. dns4Closing' => dns4Closing
    BY <1>4 DEF NoAnswer
  <2> QED
    BY <1>1, <1>2, <1>4, <2>1, BlameKept
    DEF NoAnswer, ResolverIo, tableVars, serverVars, lookupVars
<1>5. CASE ResolverCloses
  <2>1. /\ visiting = "close" /\ dns4Closing
        /\ visiting' = "none" /\ dns4Closing' = FALSE
        /\ UNCHANGED <<pass, url>>
    BY <1>5 DEF ResolverCloses, serverVars
  <2>2. PICK d \in HeadsOf(lookups) : stack' = << WalkFrame("fail", d, lookups) >>
    BY <1>5 DEF ResolverCloses
  <2>3. OpFrames("scan", stack') = {} /\ OpFrames("retire", stack') = {}
    <3>1. WalkFrame("fail", d, lookups).op = "fail"
      BY DEF WalkFrame
    <3> HIDE DEF WalkFrame
    <3> QED
      BY <2>2, <3>1, OneOtherFrame
  <2>4. PastTimeouts'
    BY <1>1, <2>1, <2>3 DEF BlameInv, BlameParts, ClosesAtEnd, VisitsOnce, PastTimeouts
  <2> QED
    BY <1>1, <2>1, <2>3, <2>4 DEF BlameStep, BlameParts, ClosesAtEnd, VisitsOnce,
       Addressed, RetiresHoldAll
<1>6. CASE ResolverStays
  BY <1>1, <1>2, <1>6, BlameKept
  DEF ResolverStays, tableVars, serverVars, resolverVars, lookupVars
<1>7. ASSUME NEW c \in Conns, AnswerConnects(c) PROVE BlameStep
  BY <1>1, <1>2, <1>7, BlameKept
  DEF AnswerConnects, ResolverIo, Cancel, tableVars, serverVars, resolverVars
<1>8. ASSUME NEW c \in Conns, AnswerFails(c) PROVE BlameStep
  <2>1. PICK next : next \in Conns \union {None} /\ MgError(c, "other", << AnswerFrame(c, next) >>)
    <3>1. TypeOK
      BY <1>1
    <3>2. \A S \in {{d \in lookups \ {c} : ttl[d] <= ttl[c]},
                    {d \in lookups : ttl[d] < ttl[c]}} : S \in SUBSET Conns
      BY <3>1 DEF TypeOK, LookupsOK
    <3> QED
      BY <1>8, <3>2, HeadsType DEF AnswerFails
  <2> DEFINE below == << AnswerFrame(c, next) >>
  <2>2. AnswerFrame(c, next) \in Frame /\ AnswerFrame(c, next).op = "answer"
    BY <1>8, <2>1, TablesAssumption DEF AnswerFrame, Frame, Slots
  <2>3. OpFrames("scan", below) = {} /\ OpFrames("retire", below) = {}
    BY <2>2, OneFrame
  <2>4. below \in Seq(Frame)
    BY <2>2
  <2>5. MgError(c, "other", below)
    BY <2>1
  <2> HIDE DEF below
  <2>6. /\ OpFrames("scan", stack') = {}
        /\ \A f \in OpFrames("retire", stack') : NewRetire(f)
        /\ Served => lookups = {} \/ url' = url
        /\ url' # None /\ UNCHANGED nameserver
    BY <1>1, <2>3, <2>4, <2>5, MgErrorBlame
  <2>7. /\ UNCHANGED <<resolverVars, lookupVars, pass>>
        /\ visiting # "none"
    BY <1>8 DEF AnswerFails, ResolverIo
  <2> QED
    BY <1>1, <2>6, <2>7, BlameKept DEF resolverVars, lookupVars
<1> QED
  BY <1>3, <1>4, <1>5, <1>6, <1>7, <1>8

LEMMA BlameEventLoop ==
    ~ResolverMayFail /\ BlameInv /\ UrlInv' /\ TablesOK' /\ (EventLoop \/ Tick)
        => BlameStep
<1> SUFFICES ASSUME ~ResolverMayFail, BlameInv, UrlInv', TablesOK', EventLoop \/ Tick
             PROVE  BlameStep
  OBVIOUS
<1>1. CASE BeginPass
  <2>1. /\ running = "on" /\ visiting = "none" /\ stack = << >>
        /\ UNCHANGED <<tableVars, serverVars, resolverVars, lookupVars, running,
                       visiting, stack>>
    BY <1>1 DEF BeginPass, Quiet
  <2>2. Served' /\ ClosesAtEnd' /\ VisitsOnce' /\ Addressed' /\ RetiresHoldAll'
    BY <2>1 DEF BlameInv, BlameParts, PastTimeouts, Served, ClosesAtEnd, VisitsOnce,
       Addressed, RetiresHoldAll, OpFrames, tableVars, serverVars, resolverVars,
       lookupVars
  <2> QED
    BY <2>2 DEF BlameStep, BlameParts
<1>2. CASE RetiredCloses \/ Ended \/ Tick
  <2>1. /\ UNCHANGED <<tableVars, url, lookups, asked, dns4, dns4Closing, pass, visiting,
                       stack>>
        /\ running' \in {running, "off"} /\ stack = << >>
    BY <1>2 DEF RetiredCloses, Ended, Tick, Quiet, loopVars, lookupVars, serverVars,
       resolverVars
  <2>2. url' = None => running' = "off"
    BY <2>1 DEF BlameInv, BlameParts, Addressed
  <2> QED
    BY <2>1, <2>2, BlameKept DEF tableVars
<1>3. CASE \E c \in Conns : ConnFails(c) \/ ConnStays(c) \/ CloseConn(c)
  BY <1>3, BlameTurn
<1>4. CASE \/ ResolverTurn \/ NoAnswer \/ ResolverCloses \/ ResolverStays
           \/ \E c \in Conns : AnswerConnects(c) \/ AnswerFails(c)
  BY <1>4, BlameResolver
<1> QED
  BY <1>1, <1>2, <1>3, <1>4 DEF EventLoop

\* A new lookup goes to the server that the URL names.
LEMMA BlameLookup ==
    ASSUME "lookup" \notin RetireCalls, ~ResolverMayFail, BlameInv, NEW c \in Conns,
           Lookup(c)
    PROVE  BlameStep
<1>1. TypeOK /\ UrlInv
  BY DEF BlameInv
<1>2. /\ UNCHANGED <<running, pass, visiting, stack, tableVars, serverVars>>
      /\ running # "off"
  BY DEF Lookup, NewConn
<1>3. dns4Closing' => dns4Closing
  BY DEF Lookup
<1>4. OpFrames("retire", stack) = {}
  <2>1. ~InRetire
    BY DEF Lookup, May, Quiet, InRetire
  <2> QED
    BY <2>1, InRetireFrames
<1>5. /\ dns4' = (IF dns4 = None THEN url ELSE dns4)
      /\ lookups' = lookups \union {c}
      /\ asked' = [asked EXCEPT ![c] = dns4']
  BY DEF Lookup
<1>6. url # None /\ dns4' = url
  BY <1>1, <1>2, <1>5 DEF BlameInv, BlameParts, Addressed, UrlInv
<1>7. Served => Served'
  <2>1. \A d \in lookups' : asked'[d] = IF d = c THEN url ELSE asked[d]
    BY <1>1, <1>5, <1>6 DEF TypeOK, LookupsOK
  <2> QED
    BY <1>2, <1>5, <1>6, <2>1 DEF Served, serverVars
<1>8. PastTimeouts => PastTimeouts'
  BY <1>2 DEF PastTimeouts
<1>9. ClosesAtEnd' /\ VisitsOnce' /\ Addressed' /\ RetiresHoldAll'
  BY <1>2, <1>4, <1>6, <1>3 DEF BlameInv, BlameParts, ClosesAtEnd, VisitsOnce, Addressed,
     RetiresHoldAll, serverVars
<1> QED
  BY <1>7, <1>8, <1>9 DEF BlameInv, BlameStep, BlameParts

LEMMA BlameSetNameservers ==
    ASSUME << >> \notin Tables, BlameInv, UrlInv', TablesOK', NEW t \in Tables,
           SetNameservers(t)
    PROVE  BlameStep
<1>1. TypeOK /\ stack \in Seq(Frame) /\ 0 \in Slots
  BY TablesAssumption DEF BlameInv, TypeOK, Slots
<1> DEFINE kept == IF Len(t) < MaxNameservers THEN Len(t) ELSE MaxNameservers
<1>2. t \in Seq(Servers) /\ t # << >>
  BY TablesAssumption
<1>3. kept \in 1 .. MaxNameservers /\ kept <= Len(t)
  <2>1. Len(t) \in Nat /\ Len(t) # 0
    BY <1>2
  <2> QED
    BY <2>1, TablesAssumption
<1>4. \A i \in Slots : i < kept => t[i + 1] \in Servers
  BY <1>2, <1>3, TablesAssumption DEF Slots
<1>5. /\ count' = kept /\ UseNameserver(0, stack)
      /\ nameserver' = [i \in Slots |-> IF i < kept THEN t[i + 1] ELSE nameserver[i]]
      /\ UNCHANGED <<resolverVars, lookupVars, loopVars>>
      /\ Quiet \/ stack # << >> \/ running = "off"
  BY DEF SetNameservers, May, TopIs
<1> HIDE DEF kept
<1>6. \A i \in Slots : nameserver[i] # None => nameserver'[i] # None
  BY <1>4, <1>5, NamesAssumption
<1>7. 0 < count'
  BY <1>3, <1>5, TablesAssumption
<1>8. /\ OpFrames("scan", stack') = OpFrames("scan", stack)
      /\ \A f \in OpFrames("retire", stack') :
            f \in OpFrames("retire", stack) \/ NewRetire(f)
      /\ Served => lookups = {} \/ url' = url
      /\ url' # None \/ stack' # stack
      /\ url' = None => url = None
      /\ stack' # stack => dns4 # None
  BY <1>1, <1>5, <1>7, UseNameserverBlame
<1>9. url' # None
  BY <1>8 DEF BlameInv, UrlInv
<1> QED
  BY <1>5, <1>6, <1>8, <1>9, BlameKept DEF resolverVars, lookupVars, loopVars

LEMMA BlameApplication ==
    Settled /\ BlameInv /\ UrlInv' /\ TablesOK' /\ Application => BlameStep
<1> SUFFICES ASSUME Settled, BlameInv, UrlInv', TablesOK', Application
             PROVE  BlameStep
  OBVIOUS
<1>1. TypeOK
  BY DEF BlameInv
<1>2. ASSUME NEW c \in Conns, LocalLookup(c) \/ Abort(c) \/ Delete(c) PROVE BlameStep
  <2>1. UNCHANGED <<tableVars, serverVars, dns4, dns4Closing, lookupVars, running, pass,
                    visiting, stack>>
    BY <1>2 DEF LocalLookup, Abort, Delete, NewConn, resolverVars, loopVars
  <2>2. url' = None => running' = "off" /\ stack' = << >>
    BY <2>1 DEF BlameInv, BlameParts, Addressed, serverVars
  <2> QED
    BY <2>1, <2>2, BlameKept DEF tableVars, serverVars, lookupVars
<1>3. CASE Begin
  <2>1. /\ dns4' = None /\ dns4Closing' = FALSE /\ lookups' = {}
        /\ stack' = << >> /\ visiting' = "none"
        /\ url' = IF active < count THEN nameserver[active] ELSE Default
    BY <1>3 DEF Begin, Quiet
  <2>2. OpFrames("retire", stack') = {}
    BY <2>1, OneFrame
  <2>3. url' # None
    <3>1. active \in Slots /\ UrlInv
      BY <1>1 DEF TypeOK, ServersOK, BlameInv
    <3> QED
      BY <2>1, <3>1, NamesAssumption DEF UrlInv, Configured
  <2> QED
    BY <2>1, <2>2, <2>3 DEF BlameStep, BlameParts, Served, ClosesAtEnd, VisitsOnce,
       Addressed, RetiresHoldAll
<1>4. CASE End
  <2>1. /\ running = "on" /\ visiting = "none" /\ stack = << >> /\ running' = "ending"
        /\ UNCHANGED <<tableVars, serverVars, dns4, lookupVars, visiting, stack>>
    BY <1>4 DEF End, Quiet
  <2>2. Served' /\ ClosesAtEnd' /\ VisitsOnce' /\ Addressed' /\ RetiresHoldAll'
    BY <2>1 DEF BlameInv, BlameParts, PastTimeouts, Served, ClosesAtEnd, VisitsOnce,
       Addressed, RetiresHoldAll, OpFrames, tableVars, serverVars, lookupVars
  <2> QED
    BY <2>2 DEF BlameStep, BlameParts
<1> QED
  BY <1>2, <1>3, <1>4, BlameLookup, BlameSetNameservers DEF Application, Settled

LEMMA BlameNext == Settled /\ BlameInv /\ [Next]_vars => BlameInv'
<1> SUFFICES ASSUME Settled, BlameInv, [Next]_vars PROVE BlameInv'
  OBVIOUS
<1>1. TypeOK' /\ EntriesPointAtConnections' /\ UrlInv' /\ TablesOK'
  <2>1. TypeOK' /\ UrlInv' /\ EntriesPointAtConnections'
    BY NextType, UrlNext, EntriesNext DEF BlameInv, Settled
  <2> QED
    BY <2>1 DEF TypeOK
<1>2. UNCHANGED vars => BlameStep
  <2> SUFFICES ASSUME UNCHANGED vars PROVE BlameStep
    OBVIOUS
  <2> QED
    BY DEF vars, BlameInv, BlameParts, BlameStep, PastTimeouts, Served, ClosesAtEnd,
       VisitsOnce, Addressed, RetiresHoldAll, OpFrames
<1> QED
  BY <1>1, <1>2, BlameActivation, BlameEventLoop, BlameApplication
  DEF Next, Halted, BlameInv, BlameStep, Settled

LEMMA BlameInit == Init => BlameInv
<1> SUFFICES ASSUME Init PROVE BlameInv
  OBVIOUS
<1>1. OpFrames("scan", stack) = {} /\ OpFrames("retire", stack) = {}
  BY IdleFrames DEF Init
<1>2. BlameParts
  BY <1>1, NamesAssumption DEF Init, BlameParts, PastTimeouts, Served, ClosesAtEnd, VisitsOnce,
     Addressed, RetiresHoldAll
<1> QED
  BY <1>2, InitType, UrlInit, EntriesInit DEF BlameInv

\* Only dns_cb's walk for timeouts can set _lastFailover while it is on top.
LEMMA RotationWalks ==
    ASSUME BlameInv, [Next]_vars, Rotation
    PROVE  asked[Top.at] = url
<1>1. /\ TypeOK /\ stack # << >> /\ Top.op = "scan" /\ window \in Nat
      /\ window' > window
  BY TimesAssumption DEF Rotation, TopIs, BlameInv, TypeOK, ServersOK
<1>2. window' # window
  BY <1>1
<1>3. ASSUME Activation PROVE Walk
  BY <1>1, <1>2, <1>3 DEF Activation, WalkFreed, AnswerReturns, AnswerFreed, RetireConn,
     RetireCancel, RetireDone, RetireNull, RetireWalked, OnError, OnErrorDeleted,
     HandlerReturns, TopIs, Break, serverVars
<1>4. ~EventLoop /\ ~Tick
  <2>1. ASSUME NEW c \in Conns PROVE ~CloseConn(c)
    BY <1>1, <2>1 DEF CloseConn, ConnTurn, InPass, TopIs
  <2> QED
    BY <1>1, <1>2, <2>1 DEF EventLoop, Tick, Quiet, BeginPass, ResolverTurn, NoAnswer,
       ResolverCloses, ResolverStays, RetiredCloses, Ended, ConnFails, ConnStays,
       AnswerConnects, AnswerFails, ResolverIo, ConnTurn, InPass
<1>5. ~Application
  <2>1. ASSUME NEW t \in Tables PROVE ~SetNameservers(t)
    BY <1>1 DEF SetNameservers
  <2> QED
    BY <1>1, <1>2, <2>1 DEF Application, Begin, End, Quiet, Lookup, LocalLookup, NewConn,
       Abort, Delete, serverVars
<1>6. Walk
  BY <1>2, <1>3, <1>4, <1>5 DEF Next, Halted, vars
<1>7. Top.at \in lookups
  BY <1>2, <1>6 DEF Walk, serverVars
<1>8. Served
  <2>1. Top \in OpFrames("scan", stack)
    BY <1>1, TopSame
  <2> QED
    BY <2>1 DEF BlameInv, BlameParts, PastTimeouts
<1> QED
  BY <1>7, <1>8 DEF Served

\* A timeout rotates away from a server only if the lookup that timed out was
\* sent to that server: dnsError() never blames a successor.
THEOREM BlamesActive == Settled /\ Spec => RotationBlamesActive
<1> SUFFICES ASSUME Settled PROVE Spec => RotationBlamesActive
  OBVIOUS
<1>1. BlameInv /\ [Next]_vars => BlameInv'
  BY BlameNext
<1>2. BlameInv /\ [Next]_vars => (Rotation => asked[Top.at] = url)
  BY RotationWalks
<1> QED
  BY <1>1, <1>2, BlameInit, PTL DEF Spec, RotationBlamesActive
=============================================================================
