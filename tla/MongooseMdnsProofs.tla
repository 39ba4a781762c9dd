-------------------------- MODULE MongooseMdnsProofs --------------------------
(***************************************************************************)
(* The responder, for any number of lookups, services, losses and nested   *)
(* activations.  That the object and the manager agree about the listener  *)
(* needs Outside: neither begin() nor end() is called from a handler that  *)
(* runs while the listener closes, or from onRequest.                      *)
(***************************************************************************)
EXTENDS MongooseMdns, FiniteSetTheorems, TLAPS

Outside == (CloseCalls \union RequestCalls) \intersect {"begin", "end"} = {}
-----------------------------------------------------------------------------
(* The stack *)

LEMMA PopType ==
    ASSUME NEW S, NEW s \in Seq(S), s # << >>
    PROVE  /\ Head(s) \in S /\ Head(s) = s[1] /\ Tail(s) \in Seq(S)
           /\ Len(s) \in Nat /\ Len(s) >= 1 /\ Len(Tail(s)) = Len(s) - 1
           /\ \A i \in 1 .. Len(Tail(s)) : Tail(s)[i] = s[i + 1]
OBVIOUS

LEMMA PushType ==
    ASSUME NEW S, NEW f \in S, NEW s \in Seq(S)
    PROVE  /\ << f >> \o s \in Seq(S) /\ << f >> \o s # << >>
           /\ Len(<< f >> \o s) = Len(s) + 1 /\ (<< f >> \o s)[1] = f
           /\ \A i \in 1 .. Len(s) : (<< f >> \o s)[i + 1] = s[i]
OBVIOUS

LEMMA OneType ==
    ASSUME NEW S, NEW f \in S
    PROVE  << f >> \in Seq(S) /\ << f >> = << f >> \o << >> /\ << >> \in Seq(S)
OBVIOUS

LEMMA SameSeq ==
    ASSUME NEW S, NEW s \in Seq(S), NEW t \in Seq(S), Len(s) = Len(t),
           \A i \in 1 .. Len(s) : s[i] = t[i]
    PROVE  s = t
OBVIOUS

LEMMA TwoType ==
    ASSUME NEW S, NEW f \in S, NEW g \in S
    PROVE  << f, g >> \in Seq(S) /\ << f, g >> = << f >> \o << g >>
<1>1. << f, g >> \in Seq(S) /\ Len(<< f, g >>) = 2
      /\ << f, g >>[1] = f /\ << f, g >>[2] = g
  OBVIOUS
<1>2. << f >> \o << g >> \in Seq(S) /\ Len(<< f >> \o << g >>) = 2
      /\ (<< f >> \o << g >>)[1] = f /\ (<< f >> \o << g >>)[2] = g
  OBVIOUS
<1>3. \A i \in 1 .. Len(<< f, g >>) : << f, g >>[i] = (<< f >> \o << g >>)[i]
  BY <1>1, <1>2
<1> QED
  BY <1>1, <1>2, <1>3, SameSeq

LEMMA AtType ==
    ASSUME NEW op \in Plain
    PROVE  At(op) \in Frame /\ At(op).op = op
BY DEF At, Frame

LEMMA ForType ==
    ASSUME NEW op \in {"poll", "drop", "reply"}, NEW l \in Listeners
    PROVE  For(op, l) \in Frame /\ For(op, l).op = op /\ For(op, l).of = l
BY DEF For, Frame

LEMMA AnsweringType ==
    ASSUME NEW n \in Names
    PROVE  For("answering", n) \in Frame /\ For("answering", n).op = "answering"
BY DEF For, Frame

LEMMA BelowType == TypeOK => Below \in Seq(Frame)
<1> SUFFICES ASSUME TypeOK PROVE Below \in Seq(Frame)
  OBVIOUS
<1>1. stack \in Seq(Frame) /\ At("done") \in Frame
  BY AtType DEF TypeOK, RestOK, Plain
<1>2. CASE stack = << >>
  BY <1>1, <1>2 DEF Below
<1>3. CASE stack # << >>
  <2>1. Tail(stack) \in Seq(Frame)
    BY <1>1, <1>3, PopType
  <2> QED
    BY <1>1, <1>3, <2>1, PushType DEF Below, Rest
<1> QED
  BY <1>2, <1>3
-----------------------------------------------------------------------------
(* Types *)

LEMMA RestType == TypeOK /\ stack # << >> => Rest \in Seq(Frame) /\ Head(stack) \in Frame
BY PopType DEF TypeOK, RestOK, Rest

LEMMA WithoutType ==
    ASSUME TypeOK, NEW i \in 1 .. Len(waiting)
    PROVE  Without(i) \in Seq(LookupOK)
<1>1. waiting \in Seq(LookupOK) /\ Len(waiting) \in Nat
  BY DEF TypeOK, ManagerOK
<1>2. \A j \in 1 .. Len(waiting) - 1 : waiting[IF j < i THEN j ELSE j + 1] \in LookupOK
  BY <1>1
<1> QED
  BY <1>1, <1>2 DEF Without

LEMMA ForgottenType == Forgotten /\ TypeOK => BrowseOK'
BY NumbersAssumption DEF Forgotten, TypeOK, BrowseOK

LEMMA StopType ==
    ASSUME TypeOK, NEW then \in Seq(Frame), Stop(then)
    PROVE  /\ stack' \in Seq(Frame) /\ BrowseOK'
           /\ listener' \in Listeners \union {None} /\ cached' \in [Names -> 0 .. TTL]
<1>1. At("closing") \in Frame /\ At("detach") \in Frame
  BY AtType DEF Plain
<1>2. << At("detach") >> \o then \in Seq(Frame)
  BY <1>1, PushType
<1>3. << At("closing") >> \o (<< At("detach") >> \o then) \in Seq(Frame)
  BY <1>1, <1>2, PushType
<1>4. [n \in Names |-> 0] \in [Names -> 0 .. TTL]
  BY NumbersAssumption
<1>5. CASE mdns = None
  BY <1>5, ForgottenType DEF Stop, TypeOK, ManagerOK
<1>6. CASE mdns # None
  <2>1. BrowseOK'
    BY <1>6 DEF Stop, browseVars, TypeOK, BrowseOK
  <2> QED
    BY <1>2, <1>3, <1>4, <1>6, <2>1 DEF Stop, ProtocolCloses, TypeOK, ManagerOK
<1> QED
  BY <1>5, <1>6

ConnStates == {"free", "open", "closing", "retired"}

\* A connection that fails stays until it is closed.
LEMMA FailsType ==
    ASSUME TypeOK, NEW l, Fails(l) \/ UNCHANGED conns
    PROVE  conns' \in [Listeners -> ConnStates] /\ live' = live
<1>1. conns \in [Listeners -> ConnStates]
  BY DEF TypeOK, ManagerOK, ConnStates
<1>2. CASE Fails(l)
  BY <1>1, <1>2 DEF Fails, open, live, ConnStates
<1>3. CASE UNCHANGED conns
  BY <1>1, <1>3 DEF live
<1> QED
  BY <1>2, <1>3

LEMMA UnsentType ==
    ASSUME TypeOK, NEW l, Unsent(l)
    PROVE  /\ conns' \in [Listeners -> ConnStates] /\ live' = live
           /\ asked' \subseteq Names \union Instances /\ lost' \in 0 .. MaxLoss
<1>1. Fails(l) \/ UNCHANGED conns
  BY DEF Unsent
<1>2. asked' \subseteq Names \union Instances /\ lost' \in 0 .. MaxLoss
  BY NumbersAssumption DEF Unsent, TypeOK, RestOK
<1> QED
  BY <1>1, <1>2, FailsType

LEMMA QueriesType ==
    ASSUME TypeOK, NEW s, Queries(s)
    PROVE  /\ conns' \in [Listeners -> ConnStates] /\ live' = live
           /\ asked' \subseteq Names \union Instances /\ lost' \in 0 .. MaxLoss
<1>1. CASE Unsent(mdns)
  BY <1>1, UnsentType
<1>2. CASE ~Unsent(mdns)
  <2>1. UNCHANGED <<conns, lost>> /\ asked' \subseteq Names \union Instances
    BY <1>2 DEF Queries, TypeOK, RestOK
  <2> QED
    BY <2>1, FailsType DEF TypeOK, RestOK
<1> QED
  BY <1>1, <1>2

LEMMA HandlersType ==
    \A op \in {"error", "resolved", "request", "done", "closing", "expiring",
               "detach", "listen"} : At(op) \in Frame
BY AtType DEF Plain, Handlers

LEMMA DownType == ASSUME NEW k \in Nat, NEW n \in 0 .. k PROVE Down(n) \in 0 .. k
BY DEF Down

LEMMA StopsType == TypeOK /\ (Begin \/ End \/ Detach) => TypeOK'
<1> SUFFICES ASSUME TypeOK, Begin \/ End \/ Detach PROVE TypeOK'
  OBVIOUS
<1>1. Below \in Seq(Frame) /\ << At("listen") >> \o Below \in Seq(Frame)
  BY BelowType, HandlersType, PushType
<1>2. CASE Begin
  <2>1. stack' \in Seq(Frame) /\ BrowseOK'
        /\ listener' \in Listeners \union {None} /\ cached' \in [Names -> 0 .. TTL]
    BY <1>1, <1>2, StopType DEF Begin
  <2> QED
    BY <1>2, <2>1 DEF Begin, network, TypeOK, ManagerOK, RestOK
<1>3. CASE End
  <2>1. stack' \in Seq(Frame) /\ BrowseOK'
        /\ listener' \in Listeners \union {None} /\ cached' \in [Names -> 0 .. TTL]
    BY <1>1, <1>3, StopType DEF End
  <2> QED
    BY <1>3, <2>1 DEF End, network, TypeOK, ManagerOK, RestOK
<1>4. CASE Detach
  <2>1. BrowseOK' /\ stack' \in Seq(Frame)
    BY <1>4, ForgottenType, RestType DEF Detach, TopIs
  <2> QED
    BY <1>4, <2>1 DEF Detach, network, TypeOK, ManagerOK, RestOK
<1> QED
  BY <1>2, <1>3, <1>4

LEMMA BrowsesType ==
    ASSUME TypeOK, CancelBrowse \/ \E s \in Services : Browse(s)
    PROVE  TypeOK'
<1>1. stack' \in Seq(Frame)
  BY BelowType DEF CancelBrowse, Browse
<1>2. CASE CancelBrowse
  <2>1. BrowseOK'
    BY <1>2, ForgottenType DEF CancelBrowse
  <2> QED
    BY <1>1, <1>2, <2>1 DEF CancelBrowse, managerVars, network, TypeOK, ManagerOK, RestOK
<1>3. CASE \E s \in Services : Browse(s)
  <2> PICK s \in Services : Browse(s)
    BY <1>3
  <2>1. /\ asked' \subseteq Names \union Instances /\ lost' \in 0 .. MaxLoss
        /\ conns' \in [Listeners -> ConnStates]
    BY QueriesType DEF Browse
  <2>2. BrowseOK'
    BY NumbersAssumption DEF Browse, TypeOK, BrowseOK
  <2> QED
    BY <1>1, <2>1, <2>2 DEF Browse, ConnStates, TypeOK, ManagerOK, RestOK
<1> QED
  BY <1>2, <1>3

LEMMA LookupType ==
    ASSUME TypeOK, NEW c \in Clients, NEW n \in Names,
           LookupWaits(c, n) \/ LookupUnsent(c, n) \/ LookupAtOnce(c, n)
    PROVE  TypeOK'
<1> DEFINE entry == [client |-> c, name |-> n, left |-> Timeout]
<1>1. Below \in Seq(Frame) /\ At("error") \in Frame /\ At("resolved") \in Frame
  BY BelowType, HandlersType
<1>2. << At("error") >> \o Below \in Seq(Frame)
      /\ << At("resolved") >> \o Below \in Seq(Frame)
  BY <1>1, PushType
<1>3. entry \in LookupOK /\ waiting \in Seq(LookupOK)
  BY NumbersAssumption DEF LookupOK, TypeOK, ManagerOK
<1>4. << entry >> \o waiting \in Seq(LookupOK)
  BY <1>3, PushType
<1>5. CASE LookupWaits(c, n)
  BY <1>1, <1>4, <1>5 DEF LookupWaits, browseVars, TypeOK, ManagerOK, BrowseOK, RestOK
<1>6. CASE LookupUnsent(c, n)
  <2>1. /\ asked' \subseteq Names \union Instances /\ lost' \in 0 .. MaxLoss
        /\ conns' \in [Listeners -> ConnStates]
    BY <1>6, UnsentType DEF LookupUnsent
  <2> QED
    BY <1>2, <1>4, <1>6, <2>1
       DEF LookupUnsent, ConnStates, browseVars, TypeOK, ManagerOK, BrowseOK, RestOK
<1>7. CASE LookupAtOnce(c, n)
  <2>1. stack' \in Seq(Frame)
    BY <1>2, <1>7 DEF LookupAtOnce
  <2> QED
    BY <1>7, <2>1
       DEF LookupAtOnce, managerVars, browseVars, network, TypeOK, ManagerOK, BrowseOK, RestOK
<1> QED
  BY <1>5, <1>6, <1>7

LEMMA AbortType == ASSUME TypeOK, NEW c \in Clients, Abort(c) PROVE TypeOK'
BY BelowType DEF Abort, browseVars, network, TypeOK, ManagerOK, BrowseOK, RestOK

LEMMA LoopsType == TypeOK /\ (Closes \/ Expires \/ Resolves) => TypeOK'
<1> SUFFICES ASSUME TypeOK, Closes \/ Expires \/ Resolves PROVE TypeOK'
  OBVIOUS
<1>1. stack # << >> /\ Rest \in Seq(Frame) /\ stack \in Seq(Frame)
  BY RestType DEF Closes, Expires, Resolves, TopIs, TypeOK, RestOK
<1>2. << At("error") >> \o stack \in Seq(Frame)
      /\ << At("resolved") >> \o stack \in Seq(Frame)
  BY <1>1, HandlersType, PushType
<1>3. waiting \in Seq(LookupOK) /\ doomed \subseteq Clients
  BY DEF TypeOK, ManagerOK
<1>4. stack' \in Seq(Frame) /\ waiting' \in Seq(LookupOK) /\ doomed' \subseteq Clients
  <2>1. CASE Closes
    <3>1. waiting # << >> => Tail(waiting) \in Seq(LookupOK)
      BY <1>3, PopType
    <3> QED
      BY <1>1, <1>2, <1>3, <2>1, <3>1 DEF Closes
  <2>2. CASE Expires
    BY <1>1, <1>2, <1>3, <2>2, WithoutType DEF Expires
  <2>3. CASE Resolves
    BY <1>1, <1>2, <1>3, <2>3, WithoutType DEF Resolves
  <2> QED
    BY <2>1, <2>2, <2>3
<1> QED
  BY <1>4 DEF Closes, Expires, Resolves, browseVars, network,
              TypeOK, ManagerOK, BrowseOK, RestOK

LEMMA GoesOnType ==
    ASSUME TypeOK, NEW l \in Listeners,
           Listen(l) \/ PollBrowse(l) \/ Reply(l) \/ Drop(l)
    PROVE  TypeOK'
<1>1. stack' \in Seq(Frame)
  BY RestType DEF Listen, PollBrowse, Reply, Drop, TopIs
<1>4. CASE Listen(l)
  BY <1>1, <1>4 DEF Listen, browseVars, network, TypeOK, ManagerOK, BrowseOK, RestOK
<1>5. CASE PollBrowse(l)
  <2>1. /\ asked' \subseteq Names \union Instances /\ lost' \in 0 .. MaxLoss
        /\ conns' \in [Listeners -> ConnStates]
    BY <1>5, QueriesType DEF PollBrowse, ConnStates, network, TypeOK, ManagerOK, RestOK
  <2>2. BrowseOK'
    BY <1>5, NumbersAssumption DEF PollBrowse, queryDue, browseVars, TypeOK, BrowseOK
  <2> QED
    BY <1>1, <1>5, <2>1, <2>2 DEF PollBrowse, ConnStates, TypeOK, ManagerOK, RestOK
<1>6. CASE Reply(l)
  <2>1. conns' \in [Listeners -> ConnStates]
    BY <1>6, FailsType DEF Reply
  <2> QED
    BY <1>1, <1>6, <2>1 DEF Reply, ConnStates, browseVars, network,
                            TypeOK, ManagerOK, BrowseOK, RestOK
<1>7. CASE Drop(l)
  BY <1>1, <1>7 DEF Drop, browseVars, network, TypeOK, ManagerOK, BrowseOK, RestOK
<1> QED
  BY <1>4, <1>5, <1>6, <1>7

LEMMA ListenerEventType ==
    ASSUME TypeOK, NEW l \in Listeners,
           Poll(l) \/ Question(l) \/ ListenerGone(l) \/ Free(l)
    PROVE  TypeOK'
<1>1. << At("expiring"), For("poll", l) >> \in Seq(Frame)
      /\ << At("request"), For("reply", l) >> \in Seq(Frame)
  BY HandlersType, ForType, TwoType
<1>2. << For("drop", l) >> \in Seq(Frame)
  BY ForType, OneType
<1>3. << At("closing") >> \o << For("drop", l) >> \in Seq(Frame)
  BY <1>2, HandlersType, PushType
<1>4. CASE Poll(l)
  BY <1>1, <1>4 DEF Poll, managerVars, browseVars, network,
                    TypeOK, ManagerOK, BrowseOK, RestOK
<1>5. CASE Question(l)
  BY <1>1, <1>5 DEF Question, managerVars, browseVars, network,
                    TypeOK, ManagerOK, BrowseOK, RestOK
<1>6. CASE ListenerGone(l)
  <2>1. [n \in Names |-> 0] \in [Names -> 0 .. TTL]
    BY NumbersAssumption
  <2>2. stack' \in Seq(Frame) /\ listener' \in Listeners \union {None}
        /\ cached' \in [Names -> 0 .. TTL]
    BY <1>2, <1>3, <1>6, <2>1 DEF ListenerGone, ProtocolCloses, TypeOK, ManagerOK
  <2> QED
    BY <1>6, <2>2 DEF ListenerGone, browseVars, network, TypeOK, ManagerOK, BrowseOK, RestOK
<1>7. CASE Free(l)
  BY <1>7 DEF Free, browseVars, network, TypeOK, ManagerOK, BrowseOK, RestOK
<1> QED
  BY <1>4, <1>5, <1>6, <1>7

LEMMA NetworkType ==
    ASSUME TypeOK,
           \/ \E n \in Names : Answer(n)
           \/ \E i \in Instances : Instance(i)
           \/ \E x \in Names \union Instances : Lose(x)
           \/ \E c \in Clients : ClientCloses(c)
    PROVE  TypeOK'
<1>1. CASE \E n \in Names : Answer(n)
  <2> PICK n \in Names : Answer(n)
    BY <1>1
  <2>1. << For("answering", n) >> \in Seq(Frame)
    BY AnsweringType, OneType
  <2> QED
    BY <2>1, NumbersAssumption DEF Answer, browseVars, TypeOK, ManagerOK, BrowseOK, RestOK
<1>2. CASE \E i \in Instances : Instance(i)
  <2> PICK i \in Instances : Instance(i)
    BY <1>2
  <2>1. stored' \subseteq Instances /\ fresh' \in [Instances -> 0 .. TTL]
    BY NumbersAssumption DEF Instance, TypeOK, BrowseOK
  <2> QED
    BY <2>1 DEF Instance, managerVars, TypeOK, ManagerOK, BrowseOK, RestOK
<1>3. CASE \E x \in Names \union Instances : Lose(x)
  <2> PICK x \in Names \union Instances : Lose(x)
    BY <1>3
  <2>1. lost' \in 0 .. MaxLoss
    BY NumbersAssumption DEF Lose, TypeOK, RestOK
  <2> QED
    BY <2>1 DEF Lose, managerVars, browseVars, TypeOK, ManagerOK, BrowseOK, RestOK
<1>4. CASE \E c \in Clients : ClientCloses(c)
  <2> PICK c \in Clients : ClientCloses(c)
    BY <1>4
  <2>1. waiting' \in Seq(LookupOK) /\ doomed' \subseteq Clients
    BY WithoutType DEF ClientCloses, TypeOK, ManagerOK
  <2> QED
    BY <2>1 DEF ClientCloses, browseVars, network, TypeOK, ManagerOK, BrowseOK, RestOK
<1> QED
  BY <1>1, <1>2, <1>3, <1>4

LEMMA TickType == TypeOK /\ Tick => TypeOK'
<1> SUFFICES ASSUME TypeOK, Tick PROVE TypeOK'
  OBVIOUS
<1>1. Len(waiting) \in Nat /\ waiting \in Seq(LookupOK)
  BY DEF TypeOK, ManagerOK
<1>2. \A i \in 1 .. Len(waiting) :
         [waiting[i] EXCEPT !.left = Down(waiting[i].left)] \in LookupOK
  <2> TAKE i \in 1 .. Len(waiting)
  <2>1. waiting[i] \in LookupOK
    BY <1>1
  <2>2. Down(waiting[i].left) \in 0 .. Timeout
    BY <2>1, DownType, NumbersAssumption DEF LookupOK
  <2> QED
    BY <2>1, <2>2 DEF LookupOK
<1>3. waiting' \in Seq(LookupOK)
  BY <1>1, <1>2 DEF Tick
<1>4. due' \in 0 .. 1 /\ fresh' \in [Instances -> 0 .. TTL]
      /\ cached' \in [Names -> 0 .. TTL]
  BY DownType, NumbersAssumption DEF Tick, TypeOK, ManagerOK, BrowseOK
<1> QED
  BY <1>3, <1>4 DEF Tick, network, TypeOK, ManagerOK, BrowseOK, RestOK

LEMMA TypeInit == Init => TypeOK
<1> SUFFICES ASSUME Init PROVE TypeOK
  OBVIOUS
<1>1. ManagerOK
  BY NumbersAssumption DEF Init, ManagerOK
<1>2. BrowseOK
  BY NumbersAssumption DEF Init, BrowseOK
<1>3. RestOK
  <2>1. << >> \in Seq(Frame) /\ 0 \in 0 .. MaxLoss
    BY NumbersAssumption
  <2> QED
    BY <2>1 DEF Init, RestOK
<1> QED
  BY <1>1, <1>2, <1>3 DEF TypeOK

LEMMA TypeStep == TypeOK /\ [Next]_vars => TypeOK'
<1> SUFFICES ASSUME TypeOK, [Next]_vars PROVE TypeOK'
  OBVIOUS
<1>1. CASE Application
  BY <1>1, StopsType, BrowsesType, LookupType, AbortType DEF Application
<1>2. CASE GoesOn
  <2>1. CASE Detach \/ Closes \/ Expires \/ Resolves
    BY <2>1, StopsType, LoopsType
  <2>2. CASE ListenFails \/ HandlerReturns
    <3>1. stack' \in Seq(Frame)
      BY <2>2, RestType DEF ListenFails, HandlerReturns, TopIs
    <3> QED
      BY <2>2, <3>1 DEF ListenFails, HandlerReturns, managerVars, browseVars, network,
                        TypeOK, ManagerOK, BrowseOK, RestOK
  <2>3. CASE \E l \in Listeners : Listen(l) \/ PollBrowse(l) \/ Reply(l) \/ Drop(l)
    BY <2>3, GoesOnType
  <2> QED
    BY <1>2, <2>1, <2>2, <2>3 DEF GoesOn
<1>3. CASE Event
  <2>1. CASE \E l \in Listeners : Poll(l) \/ Question(l) \/ ListenerGone(l) \/ Free(l)
    BY <2>1, ListenerEventType
  <2> QED
    BY <1>3, <2>1, NetworkType DEF Event
<1>4. CASE Tick
  BY <1>4, TickType
<1>5. CASE UNCHANGED vars
  BY <1>5 DEF vars, TypeOK, ManagerOK, BrowseOK, RestOK
<1> QED
  BY <1>1, <1>2, <1>3, <1>4, <1>5 DEF Next

\* The lookups, the browse, the network and the interrupted activations keep
\* their types, whatever the handlers call.
THEOREM TypeCorrect == Spec => []TypeOK
<1>1. Init => TypeOK
  BY TypeInit
<1>2. TypeOK /\ [Next]_vars => TypeOK'
  BY TypeStep
<1> QED
  BY <1>1, <1>2, PTL DEF Spec
-----------------------------------------------------------------------------
(* The records of the browse *)

Records == IsFiniteSet(stored) /\ RecordsOfThisBrowse

LEMMA EmptyRecords ==
    ASSUME stored' = {}, fresh' = [i \in Instances |-> 0]
    PROVE  Records'
<1>1. IsFiniteSet({}) /\ Cardinality({}) = 0
  BY FS_EmptySet
<1> QED
  BY <1>1, NumbersAssumption DEF Records, RecordsOfThisBrowse

LEMMA SameRecords ==
    ASSUME Records, UNCHANGED <<browsing, stored, fresh>>
    PROVE  Records'
BY DEF Records, RecordsOfThisBrowse

LEMMA StopRecords ==
    ASSUME Records, NEW then, Stop(then)
    PROVE  Records'
<1>1. CASE mdns = None
  BY <1>1, EmptyRecords DEF Stop, Forgotten
<1>2. CASE mdns # None
  BY <1>2, SameRecords DEF Stop, browseVars
<1> QED
  BY <1>1, <1>2

LEMMA InstanceRecords ==
    ASSUME TypeOK, Records, NEW i \in Instances, Instance(i)
    PROVE  Records'
<1>1. CASE ~(browsing = ServiceOf[i] /\ (i \in stored \/ Cardinality(stored) < MaxRecords))
  BY <1>1, SameRecords DEF Instance
<1>2. CASE browsing = ServiceOf[i] /\ (i \in stored \/ Cardinality(stored) < MaxRecords)
  <2>1. stored' = stored \union {i} /\ browsing' = browsing
        /\ fresh' = [fresh EXCEPT ![i] = TTL]
    BY <1>2 DEF Instance
  <2>2. IsFiniteSet(stored) /\ Cardinality(stored) \in Nat
    BY FS_CardinalityType DEF Records
  <2>3. IsFiniteSet(stored') /\ Cardinality(stored') <= MaxRecords
    <3>1. CASE i \in stored
      <4>1. stored' = stored
        BY <2>1, <3>1
      <4> QED
        BY <2>2, <4>1 DEF Records, RecordsOfThisBrowse
    <3>2. CASE i \notin stored
      <4>1. IsFiniteSet(stored') /\ Cardinality(stored') = Cardinality(stored) + 1
        BY <2>1, <2>2, <3>2, FS_AddElement
      <4> QED
        BY <1>2, <2>2, <3>2, <4>1, NumbersAssumption
    <3> QED
      BY <3>1, <3>2
  <2>4. \A j \in stored' : ServiceOf[j] = browsing'
    BY <1>2, <2>1 DEF Records, RecordsOfThisBrowse
  <2>5. \A j \in Instances : fresh'[j] > 0 => j \in stored'
    BY <2>1 DEF Records, RecordsOfThisBrowse, TypeOK, BrowseOK
  <2> QED
    BY <2>3, <2>4, <2>5 DEF Records, RecordsOfThisBrowse
<1> QED
  BY <1>1, <1>2

LEMMA TickRecords ==
    ASSUME TypeOK, Records, Tick
    PROVE  Records'
<1>1. \A j \in Instances : fresh'[j] > 0 => fresh[j] > 0
  BY DEF Tick, Down, TypeOK, BrowseOK
<1> QED
  BY <1>1 DEF Tick, Records, RecordsOfThisBrowse

LEMMA RecordsStep == TypeOK /\ Records /\ [Next]_vars => Records'
<1> SUFFICES ASSUME TypeOK, Records, [Next]_vars PROVE Records'
  OBVIOUS
<1>1. CASE Application
  <2>1. CASE Begin \/ End
    BY <2>1, StopRecords DEF Begin, End
  <2>2. CASE CancelBrowse \/ \E s \in Services : Browse(s)
    BY <2>2, EmptyRecords DEF CancelBrowse, Browse, Forgotten
  <2>3. CASE \E c \in Clients : Abort(c) \/ \E n \in Names :
                 LookupWaits(c, n) \/ LookupUnsent(c, n) \/ LookupAtOnce(c, n)
    BY <2>3, SameRecords DEF Abort, LookupWaits, LookupUnsent, LookupAtOnce, browseVars
  <2> QED
    BY <1>1, <2>1, <2>2, <2>3 DEF Application
<1>2. CASE GoesOn
  <2>1. CASE Detach
    BY <2>1, EmptyRecords DEF Detach, Forgotten
  <2>2. CASE ListenFails \/ Closes \/ Expires \/ Resolves \/ HandlerReturns
    BY <2>2, SameRecords DEF ListenFails, Closes, Expires, Resolves, HandlerReturns,
                             browseVars
  <2>3. CASE \E l \in Listeners : Listen(l) \/ PollBrowse(l) \/ Reply(l) \/ Drop(l)
    BY <2>3, SameRecords DEF Listen, PollBrowse, Reply, Drop, browseVars
  <2> QED
    BY <1>2, <2>1, <2>2, <2>3 DEF GoesOn
<1>3. CASE Event
  <2>1. CASE \E i \in Instances : Instance(i)
    BY <2>1, InstanceRecords
  <2>2. CASE \/ \E l \in Listeners : Poll(l) \/ Question(l) \/ ListenerGone(l) \/ Free(l)
             \/ \E n \in Names : Answer(n)
             \/ \E x \in Names \union Instances : Lose(x)
             \/ \E c \in Clients : ClientCloses(c)
    BY <2>2, SameRecords DEF Poll, Question, ListenerGone, Free, Answer, Lose,
                             ClientCloses, browseVars
  <2> QED
    BY <1>3, <2>1, <2>2 DEF Event
<1>4. CASE Tick
  BY <1>4, TickRecords
<1>5. CASE UNCHANGED vars
  BY <1>5, SameRecords DEF vars
<1> QED
  BY <1>1, <1>2, <1>3, <1>4, <1>5 DEF Next

\* services() never mixes the answers to two browses and never outgrows its
\* table, whatever is called from whichever handler.
THEOREM RecordsCorrect == Spec => []RecordsOfThisBrowse
<1>1. Init => TypeOK /\ Records
  <2> SUFFICES ASSUME Init PROVE TypeOK /\ Records
    OBVIOUS
  <2>1. IsFiniteSet({}) /\ Cardinality({}) = 0
    BY FS_EmptySet
  <2> QED
    BY <2>1, TypeInit, NumbersAssumption DEF Init, Records, RecordsOfThisBrowse
<1>2. TypeOK /\ Records /\ [Next]_vars => (TypeOK /\ Records)'
  BY TypeStep, RecordsStep
<1>3. Records => RecordsOfThisBrowse
  BY DEF Records
<1> QED
  BY <1>1, <1>2, <1>3, PTL DEF Spec
-----------------------------------------------------------------------------
(* The listener.  Shape says which activation can lie on which: a closing  *)
(* loop was started by end() or by the manager, which wait directly below  *)
(* it; begin() waits below its end(); and what closes, or is about to      *)
(* reply, is interrupted by handlers only.                                 *)

Bare == Handlers \union {"done"}
In(op, s) == \E i \in 1 .. Len(s) : s[i].op = op

FrameShape(s, i) ==
    /\ s[i].op = "closing" =>
           /\ i < Len(s) /\ s[i + 1].op \in {"detach", "drop"}
           /\ \A j \in 1 .. (i - 1) : s[j].op \in Bare
    /\ s[i].op = "detach" => i = 1 \/ s[i - 1].op = "closing"
    /\ s[i].op = "drop" => i = Len(s) /\ (i = 1 \/ s[i - 1].op = "closing")
    /\ s[i].op = "listen" => i = 1 \/ s[i - 1].op = "detach"
    /\ s[i].op = "reply" => i = Len(s) /\ \A j \in 1 .. (i - 1) : s[j].op \in Bare
Shape(s) == \A i \in 1 .. Len(s) : FrameShape(s, i)

Waiting == {"detach", "drop", "listen"}

LEMMA EmptyShape == Shape(<< >>) /\ \A op : ~In(op, << >>)
BY DEF Shape, In

LEMMA PopShape ==
    ASSUME NEW s \in Seq(Frame), s # << >>, Shape(s)
    PROVE  /\ Shape(Tail(s))
           /\ \A op : In(op, s) <=> Head(s).op = op \/ In(op, Tail(s))
<1> DEFINE t == Tail(s)
<1>1. /\ Head(s) = s[1] /\ t \in Seq(Frame) /\ Len(s) \in Nat /\ Len(s) >= 1
      /\ Len(t) = Len(s) - 1 /\ \A i \in 1 .. Len(t) : t[i] = s[i + 1]
  BY PopType
<1>2. ASSUME NEW i \in 1 .. Len(t) PROVE FrameShape(t, i)
  <2>1. FrameShape(s, i + 1) /\ t[i] = s[i + 1] /\ i + 1 \in 1 .. Len(s)
    BY <1>1 DEF Shape
  <2>2. \A j \in 1 .. (i - 1) : t[j] = s[j + 1] /\ j + 1 \in 1 .. ((i + 1) - 1)
    BY <1>1
  <2>3. i < Len(t) => t[i + 1] = s[(i + 1) + 1]
    BY <1>1
  <2>4. i = 1 \/ t[i - 1] = s[(i + 1) - 1]
    BY <1>1
  <2> HIDE DEF t
  <2>5. t[i].op = "closing" =>
            /\ i < Len(t) /\ t[i + 1].op \in {"detach", "drop"}
            /\ \A j \in 1 .. (i - 1) : t[j].op \in Bare
    BY <1>1, <2>1, <2>2, <2>3 DEF FrameShape
  <2>6. /\ t[i].op = "detach" => i = 1 \/ t[i - 1].op = "closing"
        /\ t[i].op = "listen" => i = 1 \/ t[i - 1].op = "detach"
    BY <2>1, <2>4 DEF FrameShape
  <2>7. t[i].op = "drop" => i = Len(t) /\ (i = 1 \/ t[i - 1].op = "closing")
    BY <1>1, <2>1, <2>4 DEF FrameShape
  <2>8. t[i].op = "reply" => i = Len(t) /\ \A j \in 1 .. (i - 1) : t[j].op \in Bare
    BY <1>1, <2>1, <2>2 DEF FrameShape
  <2> QED
    BY <2>5, <2>6, <2>7, <2>8 DEF FrameShape
<1>3. ASSUME NEW op PROVE In(op, s) <=> s[1].op = op \/ In(op, t)
  <2>1. In(op, s) => s[1].op = op \/ In(op, t)
    <3> SUFFICES ASSUME NEW i \in 1 .. Len(s), s[i].op = op, i # 1 PROVE In(op, t)
      BY DEF In
    <3>1. i - 1 \in 1 .. Len(t) /\ t[i - 1] = s[i]
      BY <1>1
    <3> QED
      BY <3>1 DEF In
  <2>2. s[1].op = op \/ In(op, t) => In(op, s)
    BY <1>1 DEF In
  <2> QED
    BY <2>1, <2>2
<1> QED
  BY <1>1, <1>2, <1>3 DEF Shape

\* What Shape asks of a new innermost activation.
LEMMA PushShape ==
    ASSUME NEW f \in Frame, NEW s \in Seq(Frame), Shape(s),
           f.op \notin {"drop", "reply"},
           f.op = "closing" => s # << >> /\ s[1].op \in {"detach", "drop"},
           s # << >> /\ s[1].op \in {"detach", "drop"} => f.op = "closing",
           s # << >> /\ s[1].op = "listen" => f.op = "detach",
           f.op \in Bare \/ (~In("closing", s) /\ ~In("reply", s))
    PROVE  /\ Shape(<< f >> \o s) /\ << f >> \o s \in Seq(Frame)
           /\ \A op : In(op, << f >> \o s) <=> f.op = op \/ In(op, s)
<1> DEFINE t == << f >> \o s
<1>1. /\ t \in Seq(Frame) /\ Len(t) = Len(s) + 1 /\ Len(s) \in Nat /\ t[1] = f
      /\ \A i \in 1 .. Len(s) : t[i + 1] = s[i]
  BY PushType
<1> HIDE DEF t
<1>2. s # << >> <=> Len(s) >= 1
  BY <1>1
<1>3. FrameShape(t, 1)
  BY <1>1, <1>2 DEF FrameShape, Bare, Handlers
<1>4. ASSUME NEW i \in 2 .. Len(t) PROVE FrameShape(t, i)
  <2> DEFINE k == i - 1
  <2>1. k \in 1 .. Len(s) /\ i = k + 1 /\ t[i] = s[k] /\ FrameShape(s, k)
    BY <1>1 DEF Shape
  <2> HIDE DEF k
  <2>2. k < Len(s) => t[i + 1] = s[k + 1]
    BY <1>1, <2>1
  <2>3. k = 1 \/ t[i - 1] = s[k - 1]
    BY <1>1, <2>1
  <2>4. k = 1 => t[i - 1] = f
    BY <1>1, <2>1
  <2>5. s[k].op \in {"closing", "reply"} =>
            \A j \in 1 .. (i - 1) : t[j].op \in Bare
    <3> SUFFICES ASSUME s[k].op \in {"closing", "reply"}, NEW j \in 1 .. (i - 1)
                 PROVE  t[j].op \in Bare
      OBVIOUS
    <3>1. f.op \in Bare
      BY <2>1 DEF In
    <3>2. \A m \in 1 .. (k - 1) : s[m].op \in Bare
      BY <2>1 DEF FrameShape
    <3>3. CASE j = 1
      BY <1>1, <3>1, <3>3
    <3>4. CASE j # 1
      <4>1. j - 1 \in 1 .. (k - 1) /\ j - 1 \in 1 .. Len(s) /\ t[(j - 1) + 1] = s[j - 1]
        BY <1>1, <2>1, <3>4
      <4> QED
        BY <3>2, <4>1
    <3> QED
      BY <3>3, <3>4
  <2> QED
    BY <1>1, <1>2, <2>1, <2>2, <2>3, <2>4, <2>5 DEF FrameShape
<1>5. ASSUME NEW op PROVE In(op, t) <=> f.op = op \/ In(op, s)
  <2>1. In(op, t) => f.op = op \/ In(op, s)
    <3> SUFFICES ASSUME NEW i \in 1 .. Len(t), t[i].op = op, i # 1 PROVE In(op, s)
      BY <1>1 DEF In
    <3>1. i - 1 \in 1 .. Len(s) /\ s[i - 1] = t[i]
      BY <1>1
    <3> QED
      BY <3>1 DEF In
  <2>2. f.op = op \/ In(op, s) => In(op, t)
    BY <1>1 DEF In
  <2> QED
    BY <2>1, <2>2
<1>6. Shape(t)
  BY <1>1, <1>3, <1>4 DEF Shape
<1> QED
  BY <1>1, <1>5, <1>6 DEF t

LEMMA OneShape ==
    ASSUME NEW f \in Frame, f.op # "closing"
    PROVE  /\ Shape(<< f >>) /\ << f >> \in Seq(Frame)
           /\ \A op : In(op, << f >>) <=> f.op = op
<1>1. << f >> \in Seq(Frame) /\ Len(<< f >>) = 1 /\ << f >>[1] = f
  OBVIOUS
<1> QED
  BY <1>1 DEF Shape, FrameShape, In

\* Who speaks of the listener: at rest they agree; while end() or the manager
\* closes it the manager has let go of it and the object has not.
Agreed == mdns = listener /\ live = {listener} \ {None}
Going == listener = None /\ mdns # None /\ live = {mdns}
Held(s) ==
    \A i \in 1 .. Len(s) :
        /\ s[i].op = "drop" => s[i].of = mdns
        /\ s[i].op = "reply" => s[i].of \in live

Speaks ==
    /\ ~(In("detach", stack) /\ In("drop", stack))
    /\ In("detach", stack) \/ In("drop", stack) => Going
    /\ ~In("detach", stack) /\ ~In("drop", stack) =>
           Agreed /\ (In("listen", stack) => mdns = None)

ListenerInv == Shape(stack) /\ Held(stack) /\ Speaks /\ ~broken

LEMMA PopHeld ==
    ASSUME NEW s \in Seq(Frame), s # << >>, Held(s)
    PROVE  Held(Tail(s))
<1>1. /\ Len(s) \in Nat /\ Len(s) >= 1 /\ Len(Tail(s)) = Len(s) - 1
      /\ \A i \in 1 .. Len(Tail(s)) : Tail(s)[i] = s[i + 1]
  BY PopType
<1>2. \A i \in 1 .. Len(Tail(s)) : i + 1 \in 1 .. Len(s)
  BY <1>1
<1> QED
  BY <1>1, <1>2 DEF Held

LEMMA PushHeld ==
    ASSUME NEW f \in Frame, NEW s \in Seq(Frame), Held(s), f.op \notin {"drop", "reply"}
    PROVE  Held(<< f >> \o s)
<1> DEFINE t == << f >> \o s
<1>1. /\ Len(t) = Len(s) + 1 /\ Len(s) \in Nat /\ t[1] = f
      /\ \A i \in 1 .. Len(s) : t[i + 1] = s[i]
  BY PushType
<1> HIDE DEF t
<1>2. \A i \in 1 .. Len(t) : i = 1 \/ (i - 1 \in 1 .. Len(s) /\ t[i] = s[i - 1])
  BY <1>1
<1>3. Held(t)
  BY <1>1, <1>2 DEF Held
<1> QED
  BY <1>3 DEF t

\* A step that leaves the listener alone.
LEMMA Keeps ==
    ASSUME ListenerInv, UNCHANGED <<mdns, listener, live, broken>>,
           Shape(stack'), Held(stack'),
           \A op \in Waiting : In(op, stack') <=> In(op, stack)
    PROVE  ListenerInv'
BY DEF ListenerInv, Speaks, Agreed, Going, Held, Shape, FrameShape, In, Waiting, Bare

LEMMA KeepsStack ==
    ASSUME ListenerInv, UNCHANGED <<mdns, listener, conns, broken, stack>>
    PROVE  ListenerInv'
BY Keeps DEF ListenerInv, live

LEMMA KeepsPop ==
    ASSUME TypeOK, ListenerInv, UNCHANGED <<mdns, listener, live, broken>>,
           stack # << >>, stack' = Rest, Head(stack).op \notin Waiting
    PROVE  ListenerInv'
<1>1. stack \in Seq(Frame) /\ Shape(stack) /\ Held(stack)
  BY DEF TypeOK, RestOK, ListenerInv
<1>2. Shape(stack') /\ Held(stack')
  BY <1>1, PopShape, PopHeld DEF Rest
<1>3. \A op \in Waiting : In(op, stack') <=> In(op, stack)
  BY <1>1, PopShape DEF Rest
<1> QED
  BY <1>2, <1>3, Keeps

LEMMA KeepsPush ==
    ASSUME TypeOK, ListenerInv, UNCHANGED <<mdns, listener, live, broken>>,
           NEW f \in Frame, f.op \in Bare, NEW s \in Seq(Frame), Shape(s), Held(s),
           \A op \in Waiting : In(op, s) <=> In(op, stack),
           s # << >> => s[1].op \notin Waiting, stack' = << f >> \o s
    PROVE  ListenerInv'
<1>1. f.op \notin Waiting /\ f.op \notin {"reply", "closing"}
  BY DEF Bare, Handlers, Waiting
<1>2. Shape(stack')
  BY <1>1, PushShape DEF Waiting
<1>3. Held(stack')
  BY <1>1, PushHeld DEF Waiting
<1>4. \A op \in Waiting : In(op, stack') <=> In(op, stack)
  <2>1. \A op : In(op, stack') <=> f.op = op \/ In(op, s)
    BY <1>1, PushShape DEF Waiting
  <2> QED
    BY <1>1, <2>1
<1> QED
  BY <1>2, <1>3, <1>4, Keeps

\* The activation a call is made from goes on below it.
LEMMA BelowShape ==
    ASSUME TypeOK, ListenerInv, NEW op, MayCall(op)
    PROVE  /\ Below \in Seq(Frame) /\ Shape(Below) /\ Held(Below)
           /\ Below # << >> => Below[1].op = "done"
           /\ \A o : o \notin Bare => (In(o, Below) <=> In(o, stack))
<1>1. stack \in Seq(Frame) /\ Shape(stack) /\ Held(stack)
  BY DEF TypeOK, RestOK, ListenerInv
<1>2. CASE stack = << >>
  BY <1>1, <1>2 DEF Below
<1>3. CASE stack # << >>
  <2>1. Head(stack).op \in Handlers /\ Head(stack) = stack[1]
    BY <1>1, <1>3, PopType DEF MayCall, TopIs, Handlers
  <2>2. /\ Rest \in Seq(Frame) /\ Shape(Rest) /\ Held(Rest)
        /\ \A o : In(o, stack) <=> Head(stack).op = o \/ In(o, Rest)
    BY <1>1, <1>3, PopType, PopShape, PopHeld DEF Rest
  <2>3. Rest # << >> => Rest[1].op \notin Waiting
    <3> SUFFICES ASSUME Rest # << >> PROVE Rest[1].op \notin Waiting
      OBVIOUS
    <3>1. 2 \in 1 .. Len(stack) /\ Rest[1] = stack[2]
      BY <1>1, <1>3, <2>2, PopType DEF Rest
    <3>2. FrameShape(stack, 2)
      BY <1>1, <3>1 DEF Shape
    <3> QED
      BY <2>1, <3>1, <3>2 DEF FrameShape, Handlers, Waiting
  <2>4. At("done") \in Frame /\ At("done").op = "done" /\ "done" \in Bare
    BY AtType DEF Plain, Bare
  <2>5. /\ Shape(<< At("done") >> \o Rest) /\ << At("done") >> \o Rest \in Seq(Frame)
        /\ \A o : In(o, << At("done") >> \o Rest) <=> "done" = o \/ In(o, Rest)
    BY <2>2, <2>3, <2>4, PushShape DEF Waiting
  <2>6. Held(<< At("done") >> \o Rest)
    BY <2>2, <2>4, PushHeld
  <2>7. (<< At("done") >> \o Rest)[1] = At("done")
    BY <2>2, <2>4, PushType
  <2> QED
    BY <1>3, <2>1, <2>2, <2>4, <2>5, <2>6, <2>7 DEF Below, Bare
<1> QED
  BY <1>2, <1>3

\* Where begin() and end() may be called, nobody is at the listener.
LEMMA AtRest ==
    ASSUME TypeOK, ListenerInv, ~In("closing", stack),
           stack # << >> => Head(stack).op \in Handlers
    PROVE  Agreed /\ \A op \in Waiting : ~In(op, stack)
<1>1. Shape(stack) /\ Speaks /\ stack \in Seq(Frame)
  BY DEF TypeOK, RestOK, ListenerInv
<1>2. \A i \in 1 .. Len(stack) : i = 1 => stack[i].op \notin Waiting
  BY <1>1, PopType DEF Handlers, Waiting
<1>3. \A i \in 1 .. Len(stack) : stack[i].op \notin {"detach", "drop"}
  <2> SUFFICES ASSUME NEW i \in 1 .. Len(stack), stack[i].op \in {"detach", "drop"}
               PROVE  FALSE
    OBVIOUS
  <2>1. i # 1 /\ i - 1 \in 1 .. Len(stack)
    BY <1>1, <1>2 DEF Waiting
  <2>2. FrameShape(stack, i)
    BY <1>1 DEF Shape
  <2> QED
    BY <2>1, <2>2 DEF FrameShape, In
<1>4. \A i \in 1 .. Len(stack) : stack[i].op # "listen"
  <2> SUFFICES ASSUME NEW i \in 1 .. Len(stack), stack[i].op = "listen"
               PROVE  FALSE
    OBVIOUS
  <2>1. i # 1 /\ i - 1 \in 1 .. Len(stack)
    BY <1>1, <1>2 DEF Waiting
  <2>2. FrameShape(stack, i)
    BY <1>1 DEF Shape
  <2> QED
    BY <1>3, <2>1, <2>2 DEF FrameShape
<1> QED
  BY <1>1, <1>3, <1>4 DEF Waiting, In, Speaks

LEMMA LoopsKeep == TypeOK /\ ListenerInv /\ (Closes \/ Expires \/ Resolves) => ListenerInv'
<1> SUFFICES ASSUME TypeOK, ListenerInv, Closes \/ Expires \/ Resolves PROVE ListenerInv'
  OBVIOUS
<1>1. /\ stack # << >> /\ stack \in Seq(Frame) /\ Shape(stack) /\ Held(stack)
      /\ Head(stack).op \notin Waiting /\ stack[1].op \notin Waiting
      /\ UNCHANGED <<mdns, listener, conns, live, broken>>
  BY PopType DEF Closes, Expires, Resolves, TopIs, Waiting, TypeOK, RestOK, ListenerInv, live
<1>2. stack' \in {stack, Rest, << At("error") >> \o stack, << At("resolved") >> \o stack}
  BY DEF Closes, Expires, Resolves
<1>3. CASE stack' = stack
  BY <1>1, <1>3, KeepsStack
<1>4. CASE stack' = Rest
  BY <1>1, <1>4, KeepsPop
<1>5. /\ At("error") \in Frame /\ At("error").op \in Bare
      /\ At("resolved") \in Frame /\ At("resolved").op \in Bare
  BY AtType DEF Plain, Bare, Handlers
<1>6. CASE stack' = << At("error") >> \o stack \/ stack' = << At("resolved") >> \o stack
  BY <1>1, <1>5, <1>6, KeepsPush
<1> QED
  BY <1>2, <1>3, <1>4, <1>6

LEMMA PopsKeep ==
    ASSUME TypeOK, ListenerInv,
           HandlerReturns \/ \E l \in Listeners : PollBrowse(l) \/ Reply(l)
    PROVE  ListenerInv'
<1>1. /\ stack # << >> /\ stack' = Rest /\ Head(stack).op \notin Waiting
      /\ UNCHANGED <<mdns, listener>>
  BY DEF HandlerReturns, PollBrowse, Reply, TopIs, Handlers, Waiting, managerVars
<1>2. live' = live
  <2>1. CASE HandlerReturns
    BY <2>1 DEF HandlerReturns, managerVars, live
  <2>2. CASE \E l \in Listeners : PollBrowse(l)
    BY <2>2, QueriesType DEF PollBrowse, live
  <2>3. CASE \E l \in Listeners : Reply(l)
    BY <2>3, FailsType DEF Reply
  <2> QED
    BY <2>1, <2>2, <2>3
<1>3. broken' = broken
  <2>1. CASE \E l \in Listeners : Reply(l)
    <3> PICK l \in Listeners : Reply(l)
      BY <2>1
    <3>1. Head(stack) = stack[1] /\ 1 \in 1 .. Len(stack) /\ Held(stack) /\ ~broken
      BY <1>1, PopType DEF TypeOK, RestOK, ListenerInv
    <3>2. stack[1].op = "reply" /\ stack[1].of = l
      BY <3>1 DEF Reply, TopIs
    <3>3. l \in live
      BY <3>1, <3>2 DEF Held
    <3>4. broken = FALSE /\ broken' \in {broken, broken \/ l \notin live}
      BY <3>1 DEF Reply, TypeOK, RestOK
    <3>5. (broken \/ l \notin live) = FALSE
      BY <3>1, <3>3, Zenon
    <3> QED
      BY <3>4, <3>5
  <2> QED
    BY <2>1 DEF HandlerReturns, PollBrowse
<1> QED
  BY <1>1, <1>2, <1>3, KeepsPop

LEMMA DetachKeeps == TypeOK /\ ListenerInv /\ Detach => ListenerInv'
<1> SUFFICES ASSUME TypeOK, ListenerInv, Detach PROVE ListenerInv'
  OBVIOUS
<1>1. /\ stack # << >> /\ stack \in Seq(Frame) /\ Shape(stack) /\ Speaks /\ ~broken
      /\ stack[1].op = "detach" /\ Len(stack) \in Nat /\ Len(stack) >= 1
  BY PopType DEF Detach, TopIs, TypeOK, RestOK, ListenerInv
<1>2. Going /\ ~In("drop", stack)
  BY <1>1 DEF Speaks, In
<1>3. ~broken' /\ mdns' = None /\ listener' = None /\ live' = {}
  <2>1. ~broken' /\ mdns' = None /\ listener' = listener
    BY <1>2 DEF Detach, Going
  <2>2. \A l \in Listeners : conns'[l] \notin {"open", "closing"}
    BY <1>2 DEF Detach, Going, live, TypeOK, ManagerOK
  <2> QED
    BY <1>2, <2>1, <2>2 DEF Going, live
<1>4. Shape(stack') /\ \A op : In(op, stack') => In(op, stack)
  BY <1>1, PopShape DEF Detach, Rest
<1>5. \A i \in 2 .. Len(stack) : stack[i].op \notin {"detach", "reply"}
  <2> SUFFICES ASSUME NEW i \in 2 .. Len(stack), stack[i].op \in {"detach", "reply"}
               PROVE  FALSE
    OBVIOUS
  <2>1. i \in 1 .. Len(stack) /\ i # 1 /\ i - 1 \in 1 .. Len(stack) /\ 1 \in 1 .. (i - 1)
    BY <1>1
  <2>2. FrameShape(stack, i) /\ FrameShape(stack, i - 1)
    BY <1>1, <2>1 DEF Shape
  <2>3. stack[i].op = "reply" => FALSE
    BY <1>1, <2>1, <2>2 DEF FrameShape, Bare, Handlers
  <2>4. stack[i - 1].op = "closing"
    BY <2>1, <2>2, <2>3 DEF FrameShape
  <2>5. i - 1 # 1 => 1 \in 1 .. ((i - 1) - 1)
    BY <2>1
  <2>6. i - 1 = 1
    BY <1>1, <2>2, <2>4, <2>5 DEF FrameShape, Bare, Handlers
  <2> QED
    BY <1>1, <2>4, <2>6
<1>6. \A i \in 1 .. Len(stack') : stack'[i] = stack[i + 1] /\ i + 1 \in 2 .. Len(stack)
  BY <1>1, PopType DEF Detach, Rest
<1>7. ~In("detach", stack') /\ ~In("drop", stack') /\ ~In("reply", stack')
  BY <1>2, <1>4, <1>5, <1>6 DEF In
<1>8. Held(stack)'
  BY <1>7 DEF Held, In
<1>9. Speaks'
  BY <1>3, <1>7 DEF Speaks, Agreed, In
<1> QED
  BY <1>3, <1>4, <1>8, <1>9 DEF ListenerInv

LEMMA ListenKeeps ==
    ASSUME TypeOK, ListenerInv, ListenFails \/ \E l \in Listeners : Listen(l)
    PROVE  ListenerInv'
<1>1. /\ stack # << >> /\ stack \in Seq(Frame) /\ Shape(stack) /\ Held(stack)
      /\ Speaks /\ ~broken /\ stack[1].op = "listen" /\ Len(stack) \in Nat
      /\ Len(stack) >= 1 /\ stack' = Rest
  BY PopType DEF Listen, ListenFails, TopIs, TypeOK, RestOK, ListenerInv
<1>2. \A i \in 1 .. Len(stack) : stack[i].op \notin {"detach", "drop", "reply"}
  <2> SUFFICES ASSUME NEW i \in 1 .. Len(stack), stack[i].op \in {"detach", "drop", "reply"}
               PROVE  FALSE
    OBVIOUS
  <2>1. i # 1 /\ i - 1 \in 1 .. Len(stack) /\ 1 \in 1 .. (i - 1)
    BY <1>1
  <2>2. FrameShape(stack, i) /\ FrameShape(stack, i - 1)
    BY <1>1, <2>1 DEF Shape
  <2>3. stack[i].op = "reply" => FALSE
    BY <1>1, <2>1, <2>2 DEF FrameShape, Bare, Handlers
  <2>4. stack[i - 1].op = "closing"
    BY <2>1, <2>2, <2>3 DEF FrameShape
  <2>5. i - 1 # 1 => 1 \in 1 .. ((i - 1) - 1)
    BY <2>1
  <2>6. i - 1 = 1
    BY <1>1, <2>2, <2>4, <2>5 DEF FrameShape, Bare, Handlers
  <2> QED
    BY <1>1, <2>4, <2>6
<1>3. \A i \in 1 .. Len(stack') : stack'[i] = stack[i + 1] /\ i + 1 \in 1 .. Len(stack)
  BY <1>1, PopType DEF Rest
<1>4. \A i \in 1 .. Len(stack') : stack'[i].op # "listen"
  <2> SUFFICES ASSUME NEW i \in 1 .. Len(stack'), stack'[i].op = "listen" PROVE FALSE
    OBVIOUS
  <2>1. i + 1 \in 1 .. Len(stack) /\ stack[i + 1].op = "listen" /\ i \in 1 .. Len(stack)
        /\ i + 1 # 1 /\ (i + 1) - 1 = i
    BY <1>1, <1>3, PopType DEF Rest
  <2>2. FrameShape(stack, i + 1)
    BY <1>1, <2>1 DEF Shape
  <2>3. stack[i].op = "detach"
    BY <2>1, <2>2 DEF FrameShape
  <2> QED
    BY <1>2, <2>1, <2>3
<1>5. Shape(stack')
  BY <1>1, PopShape DEF Rest
<1>6. Held(stack)'
  BY <1>2, <1>3 DEF Held
<1>7. mdns = None /\ Agreed
  BY <1>1, <1>2 DEF Speaks, In
<1>8. mdns' = listener' /\ live' = {listener'} \ {None} /\ ~broken'
  <2>1. CASE ListenFails
    BY <1>1, <1>7, <2>1 DEF ListenFails, managerVars, Agreed, live
  <2>2. CASE \E l \in Listeners : Listen(l)
    <3> PICK l \in Listeners : Listen(l)
      BY <2>2
    <3>1. mdns' = l /\ listener' = l /\ conns' = [conns EXCEPT ![l] = "open"] /\ ~broken'
      BY <1>1 DEF Listen
    <3>2. live' = live \union {l} /\ live = {} /\ l # None
      BY <1>7, <3>1, NoneAssumption DEF live, Agreed, TypeOK, ManagerOK
    <3> QED
      BY <3>1, <3>2
  <2> QED
    BY <2>1, <2>2
<1>9. Speaks'
  BY <1>2, <1>3, <1>4, <1>8 DEF Speaks, Agreed, In
<1> QED
  BY <1>5, <1>6, <1>8, <1>9 DEF ListenerInv

LEMMA DropKeeps == ASSUME TypeOK, ListenerInv, NEW l \in Listeners, Drop(l) PROVE ListenerInv'
<1>1. /\ stack # << >> /\ stack \in Seq(Frame) /\ Shape(stack) /\ Held(stack)
      /\ Speaks /\ ~broken /\ stack[1].op = "drop" /\ stack[1].of = l
      /\ 1 \in 1 .. Len(stack) /\ Len(stack) \in Nat
  BY PopType DEF Drop, TopIs, TypeOK, RestOK, ListenerInv
<1>2. Len(stack) = 1 /\ l = mdns
  <2>1. FrameShape(stack, 1)
    BY <1>1 DEF Shape
  <2> QED
    BY <1>1, <2>1 DEF FrameShape, Held
<1>3. stack' \in Seq(Frame) /\ Len(stack') = 0
  BY <1>1, <1>2, PopType DEF Drop, Rest
<1>4. Going
  BY <1>1 DEF Speaks, In
<1>5. mdns' = None /\ listener' = None /\ live' = {} /\ ~broken'
  BY <1>1, <1>2, <1>4 DEF Drop, Going, live, TypeOK, ManagerOK
<1> QED
  BY <1>3, <1>5 DEF ListenerInv, Shape, Held, Speaks, Agreed, In

\* end(), and the end() with which begin() starts: then is what waits for it.
LEMMA StopKeeps ==
    ASSUME TypeOK, Agreed, ~broken, UNCHANGED <<mdns, conns, broken>>,
           NEW then \in Seq(Frame), Stop(then), Shape(then),
           \A op \in {"closing", "reply", "detach", "drop"} : ~In(op, then)
    PROVE  ListenerInv'
<1>1. /\ At("detach") \in Frame /\ At("detach").op = "detach"
      /\ At("closing") \in Frame /\ At("closing").op = "closing"
  BY AtType DEF Plain
<1>2. then # << >> => 1 \in 1 .. Len(then)
  OBVIOUS
<1>3. then # << >> => then[1].op \notin {"detach", "drop"}
  BY <1>2 DEF In
<1>4. live' = live
  BY DEF live
<1>5. CASE mdns = None
  <2>1. stack' = then /\ listener' = listener
    BY <1>5 DEF Stop
  <2>2. Agreed'
    BY <1>4, <2>1 DEF Agreed
  <2>3. Held(stack)'
    BY <2>1 DEF Held, In
  <2> QED
    BY <1>5, <2>1, <2>2, <2>3 DEF ListenerInv, Speaks
<1>6. CASE mdns # None
  <2>1. /\ listener' = None
        /\ stack' = << At("closing") >> \o (<< At("detach") >> \o then)
    BY <1>6 DEF Stop, ProtocolCloses, Agreed
  <2> DEFINE s == << At("detach") >> \o then
  <2>2. /\ Shape(s) /\ s \in Seq(Frame)
        /\ \A op : In(op, s) <=> "detach" = op \/ In(op, then)
    BY <1>1, <1>3, PushShape DEF Bare, Handlers
  <2>3. s # << >> /\ s[1] = At("detach")
    BY <1>1, PushType
  <2> HIDE DEF s
  <2>4. ~In("closing", s) /\ ~In("reply", s)
    BY <2>2
  <2>5. /\ Shape(<< At("closing") >> \o s)
        /\ \A op : In(op, << At("closing") >> \o s) <=> "closing" = op \/ In(op, s)
    BY <1>1, <2>2, <2>3, <2>4, PushShape
  <2>6. Shape(stack') /\ \A op : In(op, stack') <=> op \in {"closing", "detach"} \/ In(op, then)
    BY <2>1, <2>2, <2>5 DEF s
  <2>7. Held(stack)'
    BY <2>6 DEF Held, In
  <2>8. Going'
    BY <1>4, <1>6, <2>1 DEF Going, Agreed
  <2> QED
    BY <2>6, <2>7, <2>8 DEF ListenerInv, Speaks
<1> QED
  BY <1>5, <1>6

LEMMA StopsKeep == Outside /\ TypeOK /\ ListenerInv /\ (Begin \/ End) => ListenerInv'
<1> SUFFICES ASSUME Outside, TypeOK, ListenerInv, Begin \/ End PROVE ListenerInv'
  OBVIOUS
<1>1. PICK op \in {"begin", "end"} : MayCall(op)
  BY DEF Begin, End
<1>2. ~In("closing", stack) /\ ~In("reply", stack)
      /\ (stack # << >> => Head(stack).op \in Handlers)
  BY <1>1 DEF MayCall, Inside, In, Outside, TopIs, Handlers
<1>3. Agreed /\ \A o \in Waiting : ~In(o, stack)
  BY <1>2, AtRest
<1>4. Below \in Seq(Frame) /\ Shape(Below)
      /\ \A o \in {"closing", "reply"} \union Waiting : ~In(o, Below)
  BY <1>1, <1>2, <1>3, BelowShape DEF Waiting, Bare, Handlers
<1>5. ~broken /\ UNCHANGED <<mdns, conns, broken>>
  BY DEF ListenerInv, Begin, End
<1>6. CASE End
  <2>1. \A o \in {"closing", "reply", "detach", "drop"} : ~In(o, Below)
    BY <1>4 DEF Waiting
  <2> QED
    BY <1>3, <1>4, <1>5, <1>6, <2>1, StopKeeps DEF End
<1>7. CASE Begin
  <2> DEFINE s == << At("listen") >> \o Below
  <2>1. At("listen") \in Frame /\ At("listen").op = "listen"
    BY AtType DEF Plain
  <2>2. Below # << >> => Below[1].op = "done"
    BY <1>1, BelowShape
  <2>3. /\ Shape(s) /\ s \in Seq(Frame)
        /\ \A o : In(o, s) <=> "listen" = o \/ In(o, Below)
    BY <1>4, <2>1, <2>2, PushShape
  <2>4. Stop(s)
    BY <1>7 DEF Begin
  <2> HIDE DEF s
  <2>5. \A o \in {"closing", "reply", "detach", "drop"} : ~In(o, s)
    BY <1>4, <2>3 DEF Waiting
  <2> QED
    BY <1>3, <1>5, <2>3, <2>4, <2>5, StopKeeps
<1> QED
  BY <1>6, <1>7

LEMMA CallsKeep ==
    ASSUME TypeOK, ListenerInv,
           \/ CancelBrowse \/ \E s \in Services : Browse(s)
           \/ \E c \in Clients : Abort(c) \/ \E n \in Names :
                  LookupWaits(c, n) \/ LookupUnsent(c, n) \/ LookupAtOnce(c, n)
    PROVE  ListenerInv'
<1>1. PICK op \in Calls : MayCall(op)
  BY DEF CancelBrowse, Browse, Abort, LookupWaits, LookupUnsent, LookupAtOnce, Calls
<1>2. UNCHANGED <<mdns, listener, live, broken>>
  <2>1. UNCHANGED <<mdns, listener, broken>>
    BY DEF CancelBrowse, Browse, Abort, LookupWaits, LookupUnsent, LookupAtOnce, managerVars
  <2>2. CASE \E s \in Services : Browse(s)
    BY <2>2, QueriesType DEF Browse
  <2>3. CASE \E c \in Clients, n \in Names : LookupUnsent(c, n)
    BY <2>3, UnsentType DEF LookupUnsent
  <2>4. CASE \/ CancelBrowse
             \/ \E c \in Clients : Abort(c) \/ \E n \in Names :
                    LookupWaits(c, n) \/ LookupAtOnce(c, n)
    BY <2>4 DEF CancelBrowse, Abort, LookupWaits, LookupAtOnce, managerVars, live
  <2> QED
    BY <2>1, <2>2, <2>3, <2>4
<1>3. /\ Below \in Seq(Frame) /\ Shape(Below) /\ Held(Below)
      /\ Below # << >> => Below[1].op = "done"
      /\ \A o : o \notin Bare => (In(o, Below) <=> In(o, stack))
  BY <1>1, BelowShape
<1>4. stack' \in {Below, << At("error") >> \o Below, << At("resolved") >> \o Below}
  BY DEF CancelBrowse, Browse, Abort, LookupWaits, LookupUnsent, LookupAtOnce
<1>5. \A o \in Waiting : In(o, Below) <=> In(o, stack)
  BY <1>3 DEF Waiting, Bare, Handlers
<1>6. CASE stack' = Below
  <2>1. Shape(stack') /\ Held(stack') /\ \A o \in Waiting : In(o, stack') <=> In(o, stack)
    BY <1>3, <1>5, <1>6
  <2> QED
    BY <1>2, <2>1, Keeps
<1>7. /\ At("error") \in Frame /\ At("error").op \in Bare
      /\ At("resolved") \in Frame /\ At("resolved").op \in Bare
  BY AtType DEF Plain, Bare, Handlers
<1>8. CASE stack' = << At("error") >> \o Below \/ stack' = << At("resolved") >> \o Below
  <2>1. Below # << >> => Below[1].op \notin Waiting
    BY <1>3 DEF Waiting
  <2> QED
    BY <1>2, <1>3, <1>5, <1>7, <1>8, <2>1, KeepsPush
<1> QED
  BY <1>4, <1>6, <1>8

LEMMA ListenerEventsKeep ==
    ASSUME TypeOK, ListenerInv, NEW l \in Listeners,
           Poll(l) \/ Question(l) \/ ListenerGone(l) \/ Free(l)
    PROVE  ListenerInv'
<1>1. stack = << >> /\ ~broken /\ Speaks
  BY DEF Poll, Question, ListenerGone, Free, Idle, ListenerInv
<1>2. Agreed /\ \A op : ~In(op, stack)
  BY <1>1 DEF Speaks, In
<1>3. CASE Poll(l)
  <2>1. For("poll", l) \in Frame /\ For("poll", l).op = "poll"
    BY ForType
  <2>2. At("expiring") \in Frame /\ At("expiring").op = "expiring"
    BY AtType DEF Plain
  <2> DEFINE s == << For("poll", l) >>
  <2>3. Shape(s) /\ s \in Seq(Frame) /\ \A op : In(op, s) <=> "poll" = op
    BY <2>1, OneShape
  <2>4. s[1] = For("poll", l)
    OBVIOUS
  <2>6. stack' = << At("expiring") >> \o s
    BY <1>3, <2>1, <2>2, TwoType DEF Poll
  <2> HIDE DEF s
  <2>5. Shape(stack') /\ \A op : In(op, stack') <=> "expiring" = op \/ "poll" = op
    BY <2>1, <2>2, <2>3, <2>4, <2>6, PushShape
  <2>7. Held(stack')
    BY <2>5, <2>6 DEF Held, In
  <2>8. \A op \in Waiting : In(op, stack') <=> In(op, stack)
    BY <1>2, <2>5, <2>6 DEF Waiting
  <2> QED
    BY <1>3, <2>5, <2>6, <2>7, <2>8, Keeps DEF Poll, managerVars, live
<1>4. CASE Question(l)
  <2>1. For("reply", l) \in Frame /\ For("reply", l).op = "reply" /\ For("reply", l).of = l
    BY ForType
  <2>2. At("request") \in Frame /\ At("request").op = "request" /\ "request" \in Bare
    BY AtType DEF Plain, Handlers, Bare
  <2>3. /\ Shape(<< For("reply", l) >>) /\ << For("reply", l) >> \in Seq(Frame)
        /\ \A op : In(op, << For("reply", l) >>) <=> "reply" = op
    BY <2>1, OneShape
  <2>4. << For("reply", l) >>[1] = For("reply", l) /\ Len(<< For("reply", l) >>) = 1
    OBVIOUS
  <2>5. Held(<< For("reply", l) >>)
    BY <1>4, <2>1, <2>4 DEF Question, Held, open, live
  <2>6. << For("reply", l) >>[1].op \notin Waiting
    BY <2>1, <2>4 DEF Waiting
  <2>7. stack' = << At("request") >> \o << For("reply", l) >>
    BY <1>4, <2>1, <2>2, TwoType DEF Question
  <2>8. \A op \in Waiting : In(op, << For("reply", l) >>) <=> In(op, stack)
    BY <1>2, <2>3 DEF Waiting
  <2> QED
    BY <1>4, <2>2, <2>3, <2>5, <2>6, <2>7, <2>8, KeepsPush DEF Question, managerVars, live
<1>5. CASE ListenerGone(l)
  <2>1. listener = l /\ mdns = l /\ live = {l} /\ l # None
    BY <1>2, <1>5 DEF ListenerGone, Agreed
  <2>2. For("drop", l) \in Frame /\ For("drop", l).op = "drop" /\ For("drop", l).of = l
    BY ForType
  <2>3. At("closing") \in Frame /\ At("closing").op = "closing"
    BY AtType DEF Plain
  <2> DEFINE s == << For("drop", l) >>
  <2>4. Shape(s) /\ s \in Seq(Frame) /\ \A op : In(op, s) <=> "drop" = op
    BY <2>2, OneShape
  <2>5. s # << >> /\ s[1] = For("drop", l) /\ Len(s) = 1
    OBVIOUS
  <2> HIDE DEF s
  <2>6. stack' = << At("closing") >> \o s /\ listener' = None
    BY <1>5, <2>1 DEF ListenerGone, ProtocolCloses, s
  <2>7. Shape(stack') /\ \A op : In(op, stack') <=> "closing" = op \/ "drop" = op
    BY <2>2, <2>3, <2>4, <2>5, <2>6, PushShape
  <2>8. live' = live /\ mdns' = mdns /\ ~broken'
    BY <1>1, <1>5 DEF ListenerGone, live, TypeOK, ManagerOK
  <2>9. Held(s)
    BY <2>1, <2>2, <2>5 DEF Held
  <2>10. Held(stack')
    BY <2>3, <2>4, <2>6, <2>9, PushHeld
  <2>11. Held(stack)'
    BY <2>8, <2>10 DEF Held
  <2> QED
    BY <2>1, <2>6, <2>7, <2>8, <2>11 DEF ListenerInv, Speaks, Going
<1>6. CASE Free(l)
  <2>1. live' = live
    BY <1>6 DEF Free, live, TypeOK, ManagerOK
  <2> QED
    BY <1>6, <2>1 DEF Free, ListenerInv, Held, Speaks, Agreed, Going
<1> QED
  BY <1>3, <1>4, <1>5, <1>6

LEMMA AnswerKeeps == ASSUME TypeOK, ListenerInv, NEW n \in Names, Answer(n) PROVE ListenerInv'
<1>1. stack = << >> /\ For("answering", n) \in Frame
      /\ For("answering", n).op = "answering"
  BY AnsweringType DEF Answer, Idle
<1>2. Shape(<< For("answering", n) >>)
      /\ \A op : In(op, << For("answering", n) >>) <=> "answering" = op
  BY <1>1, OneShape
<1>3. stack' = << For("answering", n) >>
  BY DEF Answer
<1>4. Held(stack')
  BY <1>2, <1>3 DEF Held, In
<1>5. \A op \in Waiting : In(op, stack') <=> In(op, stack)
  BY <1>1, <1>2, <1>3 DEF Waiting, In
<1> QED
  BY <1>2, <1>3, <1>4, <1>5, Keeps DEF Answer, live

LEMMA ListenerStep == Outside /\ TypeOK /\ ListenerInv /\ [Next]_vars => ListenerInv'
<1> SUFFICES ASSUME Outside, TypeOK, ListenerInv, [Next]_vars PROVE ListenerInv'
  OBVIOUS
<1>1. CASE Application
  BY <1>1, StopsKeep, CallsKeep DEF Application
<1>2. CASE GoesOn
  BY <1>2, LoopsKeep, PopsKeep, DetachKeeps, ListenKeeps, DropKeeps DEF GoesOn
<1>3. CASE Event
  <2>1. CASE \E l \in Listeners : Poll(l) \/ Question(l) \/ ListenerGone(l) \/ Free(l)
    BY <2>1, ListenerEventsKeep
  <2>2. CASE \E n \in Names : Answer(n)
    BY <2>2, AnswerKeeps
  <2>3. CASE \/ \E i \in Instances : Instance(i)
             \/ \E x \in Names \union Instances : Lose(x)
             \/ \E c \in Clients : ClientCloses(c)
    BY <2>3, KeepsStack DEF Instance, Lose, ClientCloses, managerVars
  <2> QED
    BY <1>3, <2>1, <2>2, <2>3 DEF Event
<1>4. CASE Tick
  BY <1>4, KeepsStack DEF Tick
<1>5. CASE UNCHANGED vars
  BY <1>5, KeepsStack DEF vars
<1> QED
  BY <1>1, <1>2, <1>3, <1>4, <1>5 DEF Next

\* Between callbacks _mdns is mgr.mdns and is not yet closed, and nothing that
\* end() has let go of is used again, unless begin() or end() is called from a
\* handler that end() itself or a reply is waiting for.
THEOREM ListenerCorrect == Outside /\ Spec => []ListenerAgreed
<1> SUFFICES ASSUME Outside PROVE Spec => []ListenerAgreed
  OBVIOUS
<1>1. Init => TypeOK /\ ListenerInv
  <2> SUFFICES ASSUME Init PROVE TypeOK /\ ListenerInv
    OBVIOUS
  <2>1. TypeOK
    BY TypeInit
  <2>2. Shape(stack) /\ \A op : ~In(op, stack)
    BY EmptyShape DEF Init
  <2>3. Held(stack)
    BY <2>2 DEF Held, In
  <2>4. Agreed
    BY DEF Init, Agreed, live
  <2> QED
    BY <2>1, <2>2, <2>3, <2>4 DEF Init, ListenerInv, Speaks
<1>2. TypeOK /\ ListenerInv /\ [Next]_vars => (TypeOK /\ ListenerInv)'
  BY TypeStep, ListenerStep
<1>3. TypeOK /\ ListenerInv => ListenerAgreed
  <2> SUFFICES ASSUME TypeOK, ListenerInv PROVE ListenerAgreed
    OBVIOUS
  <2>1. stack = << >> => \A op : ~In(op, stack)
    BY EmptyShape
  <2> QED
    BY <2>1 DEF ListenerInv, Speaks, Agreed, ListenerAgreed
<1> QED
  BY <1>1, <1>2, <1>3, PTL DEF Spec
=============================================================================
