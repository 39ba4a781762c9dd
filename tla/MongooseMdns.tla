----------------------------- MODULE MongooseMdns -----------------------------
(***************************************************************************)
(* MongooseMdns and what it shares with the manager: the one listener, the *)
(* lookups of .local names that wait for its answers, the address cache,   *)
(* and the browse with its repeated queries and its records.               *)
(*                                                                         *)
(* mdns_cb fails, times out or resolves several lookups in one event, and  *)
(* runs a handler of the application for each, which may look up again,    *)
(* browse, or begin() and end() the responder while the loop is under way. *)
(* end() itself runs such a loop.  The C++ stack is therefore explicit.    *)
(*                                                                         *)
(* Left out: the table of services and what answers consist of, names and  *)
(* the merging of records, and the choice among the eight cache slots.     *)
(***************************************************************************)
EXTENDS Integers, Sequences, FiniteSets

CONSTANTS
    Listeners,      \* UDP connections that may be the listener
    None,           \* no listener, no service
    Clients,        \* sockets that look names up
    Names,          \* names under .local
    Services,       \* service types to browse for
    Instances,      \* service instances on the network
    ServiceOf,      \* ... and the service of each
    Timeout,        \* ticks a lookup may take
    TTL,            \* ticks an answer is held
    MaxRetries,     \* MG_MDNS_BROWSE_MAX_RETRIES, one tick apart
    MaxRecords,     \* MAX_BROWSE_RECORDS
    MaxLoss,        \* queries or answers lost on the way
    MaxDepth,       \* activations on the stack
    IdleCalls,      \* what the application calls between polls,
    ErrorCalls,     \* ... from onError of a lookup,
    ResolvedCalls,  \* ... from a handler of a lookup that is answered,
    CloseCalls,     \* ... from a handler while the listener closes, and
    RequestCalls    \* ... from onRequest and what it calls

Calls == {"begin", "end", "browse", "cancelBrowse", "lookup", "abort"}

ASSUME NoneAssumption == None \notin Listeners \union Services
ASSUME ServiceAssumption == ServiceOf \in [Instances -> Services]
ASSUME NumbersAssumption ==
    /\ Timeout \in Nat \ {0} /\ TTL \in Nat \ {0} /\ MaxRetries \in Nat
    /\ MaxRecords \in Nat /\ MaxLoss \in Nat /\ MaxDepth \in Nat
ASSUME CallsAssumption ==
    IdleCalls \union ErrorCalls \union CloseCalls \union ResolvedCalls
        \union RequestCalls \subseteq Calls

VARIABLES
    mdns,      \* _mdns
    listener,  \* mgr.mdns
    conns,     \* what has become of each UDP connection: "closing" is one that has
               \* is_closing and is not closed, "retired" one that end() detached
    waiting,   \* active_mdns_requests, newest first
    doomed,    \* clients whose connection is_closing
    cached,    \* ticks for which the address of a name is known
    browsing,  \* _browseService
    retries,   \* _browseRetriesLeft
    due,       \* ticks until _browseNextQuery
    stored,    \* instances in _records
    fresh,     \* ... and ticks until each expires
    asked,     \* names and instances a query is on its way to
    lost,      \* queries or answers lost so far
    stack,     \* interrupted activations, innermost first
    broken     \* something that is gone was used

managerVars == <<listener, conns, waiting, doomed, cached>>
browseVars == <<browsing, retries, due, stored, fresh>>
network == <<asked, lost>>
vars == <<mdns, listener, conns, waiting, doomed, cached, browsing, retries, due,
          stored, fresh, asked, lost, stack, broken>>

(***************************************************************************)
(* An activation: "closing", "expiring" and "answering" are the loops of   *)
(* mdns_cb over the lookups, "poll" and "drop" what eventHandler() does    *)
(* after them, "detach" is the rest of end() and "listen" of begin();      *)
(* "error", "resolved" and "request" are handlers that have yet to make    *)
(* their call, "done" is one that has made it, and "reply" is the rest of  *)
(* handle_mdns_query().                                                    *)
(***************************************************************************)
Handlers == {"error", "resolved", "request"}
Plain == Handlers \union {"closing", "expiring", "detach", "listen", "done"}
Frame ==
    [op : Plain, of : {None}] \union [op : {"answering"}, of : Names]
        \union [op : {"poll", "drop", "reply"}, of : Listeners]
At(op) == [op |-> op, of |-> None]
For(op, x) == [op |-> op, of |-> x]

TopIs(op) == stack # << >> /\ Head(stack).op = op
Rest == Tail(stack)
Idle == stack = << >> /\ ~broken

Waits(c) == \E i \in 1 .. Len(waiting) : waiting[i].client = c
Without(i) == [j \in 1 .. Len(waiting) - 1 |-> waiting[IF j < i THEN j ELSE j + 1]]

Init ==
    /\ mdns = None /\ listener = None
    /\ conns = [l \in Listeners |-> "free"]
    /\ waiting = << >> /\ doomed = {} /\ cached = [n \in Names |-> 0]
    /\ browsing = None /\ retries = 0 /\ due = 0
    /\ stored = {} /\ fresh = [i \in Instances |-> 0]
    /\ asked = {} /\ lost = 0
    /\ stack = << >> /\ broken = FALSE
-----------------------------------------------------------------------------
(* What the application calls.  A handler makes one call at most. *)

Inside(op) == \E i \in 1 .. Len(stack) : stack[i].op = op

MayCall(op) ==
    /\ ~broken
    /\ \/ stack = << >> /\ op \in IdleCalls
       \/ TopIs("error") /\ op \in ErrorCalls
       \/ TopIs("resolved") /\ op \in ResolvedCalls
       \/ TopIs("request")
    /\ Inside("closing") => op \in CloseCalls
    /\ Inside("reply") => op \in RequestCalls
    /\ Len(stack) < MaxDepth

\* The stack below a call.
Below == IF stack = << >> THEN << >> ELSE <<At("done")>> \o Rest

Forgotten ==
    /\ browsing' = None /\ retries' = 0
    /\ stored' = {} /\ fresh' = [i \in Instances |-> 0]
    /\ UNCHANGED due

\* The protocol handler's MG_EV_CLOSE for l, then goes on with next.
ProtocolCloses(l, next) ==
    IF listener = l
    THEN /\ listener' = None
         /\ cached' = [n \in Names |-> 0]
         /\ stack' = <<At("closing")>> \o next
    ELSE UNCHANGED <<listener, cached>> /\ stack' = next

\* Mutation of Stop: the protocol handler is not told.
StopUntold(then) ==
    IF mdns = None
    THEN Forgotten /\ stack' = then /\ UNCHANGED <<listener, cached>>
    ELSE /\ stack' = <<At("detach")>> \o then
         /\ UNCHANGED <<browseVars, listener, cached>>

\* end() as far as its call of pfn, or all of it.
Stop(then) ==
    IF mdns = None
    THEN Forgotten /\ stack' = then /\ UNCHANGED <<listener, cached>>
    ELSE ProtocolCloses(mdns, <<At("detach")>> \o then) /\ UNCHANGED browseVars

End ==
    /\ MayCall("end")
    /\ Stop(Below)
    /\ UNCHANGED <<mdns, conns, waiting, doomed, network, broken>>

Begin ==
    /\ MayCall("begin")
    /\ Stop(<<At("listen")>> \o Below)
    /\ UNCHANGED <<mdns, conns, waiting, doomed, network, broken>>

\* The rest of end(): _mdns is not looked at again.
Detach ==
    /\ TopIs("detach")
    /\ broken' = (mdns = None)
    /\ conns' = [l \in Listeners |-> IF l = mdns THEN "retired" ELSE conns[l]]
    /\ mdns' = None
    /\ Forgotten
    /\ stack' = Rest
    /\ UNCHANGED <<listener, waiting, doomed, cached, network>>

Listen(l) ==
    /\ TopIs("listen") /\ listener = None /\ conns[l] = "free"
    /\ conns' = [conns EXCEPT ![l] = "open"]
    /\ listener' = l /\ mdns' = l
    /\ stack' = Rest
    /\ UNCHANGED <<waiting, doomed, cached, browseVars, network, broken>>

\* Somebody else listens, or the port is taken.
ListenFails ==
    /\ TopIs("listen")
    /\ mdns' = None
    /\ stack' = Rest
    /\ UNCHANGED <<managerVars, browseVars, network, broken>>

\* Connections that receive, and those that mongoose has yet to close.
open == {l \in Listeners : conns[l] = "open"}
live == {l \in Listeners : conns[l] \in {"open", "closing"}}

\* iolog(): the socket fails, and its connection will be closed.
Fails(l) == l \in open /\ conns' = [conns EXCEPT ![l] = "closing"]

\* What goes out on l is lost: l is closing, its buffer is full, or it fails.
Unsent(l) ==
    /\ UNCHANGED asked
    /\ \/ l \notin open /\ UNCHANGED <<conns, lost>>
       \/ l \in open /\ lost < MaxLoss /\ lost' = lost + 1 /\ UNCHANGED conns
       \/ Fails(l) /\ UNCHANGED lost

\* query() of a service: to all its instances, unless it cannot be sent.
Queries(s) ==
    \/ /\ mdns \in open
       /\ asked' = asked \union {i \in Instances : ServiceOf[i] = s}
       /\ UNCHANGED <<conns, lost>>
    \/ Unsent(mdns)

Browse(s) ==
    /\ MayCall("browse")
    /\ browsing' = s /\ retries' = MaxRetries /\ due' = 1
    /\ stored' = {} /\ fresh' = [i \in Instances |-> 0]
    /\ Queries(s)
    /\ stack' = Below
    /\ UNCHANGED <<mdns, listener, waiting, doomed, cached, broken>>

CancelBrowse ==
    /\ MayCall("cancelBrowse")
    /\ Forgotten
    /\ stack' = Below
    /\ UNCHANGED <<mdns, managerVars, network, broken>>

Pending(n) == \E i \in 1 .. Len(waiting) : waiting[i].name = n

\* connect() of client c to name n.  A name that somebody asks for already is
\* not asked for again.
LookupWaits(c, n) ==
    /\ MayCall("lookup") /\ ~Waits(c) /\ cached[n] = 0 /\ listener # None
    /\ waiting' = <<[client |-> c, name |-> n, left |-> Timeout]>> \o waiting
    /\ \/ Pending(n) /\ UNCHANGED asked
       \/ ~Pending(n) /\ listener \in open /\ asked' = asked \union {n}
    /\ stack' = Below
    /\ UNCHANGED <<mdns, listener, conns, doomed, cached, browseVars, lost, broken>>

\* ... the query cannot be sent: the entry stays until the connection goes.
LookupUnsent(c, n) ==
    /\ MayCall("lookup") /\ ~Waits(c) /\ cached[n] = 0 /\ listener # None
    /\ ~Pending(n) /\ Unsent(listener)
    /\ waiting' = <<[client |-> c, name |-> n, left |-> Timeout]>> \o waiting
    /\ doomed' = doomed \union {c}
    /\ stack' = <<At("error")>> \o Below
    /\ UNCHANGED <<mdns, listener, cached, browseVars, broken>>

\* ... there is no listener, or the address is known.
LookupAtOnce(c, n) ==
    /\ MayCall("lookup") /\ ~Waits(c) /\ (cached[n] > 0 \/ listener = None)
    /\ stack' = <<At(IF cached[n] > 0 THEN "resolved" ELSE "error")>> \o Below
    /\ UNCHANGED <<mdns, managerVars, browseVars, network, broken>>

Abort(c) ==
    /\ MayCall("abort") /\ Waits(c)
    /\ doomed' = doomed \union {c}
    /\ stack' = Below
    /\ UNCHANGED <<mdns, listener, conns, waiting, cached, browseVars, network, broken>>
-----------------------------------------------------------------------------
(* The loops of mdns_cb *)

Closes ==
    /\ TopIs("closing")
    /\ IF waiting = << >>
       THEN stack' = Rest /\ UNCHANGED <<waiting, doomed>>
       ELSE /\ waiting' = Tail(waiting)
            /\ doomed' = doomed \ {Head(waiting).client}
            /\ stack' = <<At("error")>> \o stack
    /\ UNCHANGED <<mdns, listener, conns, cached, browseVars, network, broken>>

\* Mutation of Expires: only the newest lookup is looked at.
ExpiresNewest ==
    /\ TopIs("expiring")
    /\ IF waiting = << >> \/ Head(waiting).left > 0
       THEN stack' = Rest /\ UNCHANGED <<waiting, doomed>>
       ELSE /\ waiting' = Tail(waiting)
            /\ doomed' = doomed \ {Head(waiting).client}
            /\ stack' = <<At("error")>> \o stack
    /\ UNCHANGED <<mdns, listener, conns, cached, browseVars, network, broken>>

\* The first lookup that has run out of time, if any has.
Expires ==
    /\ TopIs("expiring")
    /\ LET over == {i \in 1 .. Len(waiting) : waiting[i].left = 0}
       IN  IF over = {}
           THEN stack' = Rest /\ UNCHANGED <<waiting, doomed>>
           ELSE \E i \in over :
                  /\ \A j \in over : i <= j
                  /\ waiting' = Without(i)
                  /\ doomed' = doomed \ {waiting[i].client}
                  /\ stack' = <<At("error")>> \o stack
    /\ UNCHANGED <<mdns, listener, conns, cached, browseVars, network, broken>>

\* The first lookup of the name, unless its connection is closing.
Resolves ==
    /\ TopIs("answering")
    /\ LET asks == {i \in 1 .. Len(waiting) : waiting[i].name = Head(stack).of}
       IN  IF asks = {}
           THEN stack' = Rest /\ UNCHANGED <<waiting, doomed>>
           ELSE \E i \in asks :
                  /\ \A j \in asks : i <= j
                  /\ waiting' = Without(i)
                  /\ doomed' = doomed \ {waiting[i].client}
                  /\ stack' = IF waiting[i].client \in doomed THEN stack
                              ELSE <<At("resolved")>> \o stack
    /\ UNCHANGED <<mdns, listener, conns, cached, browseVars, network, broken>>

HandlerReturns ==
    /\ \E op \in Handlers \union {"done"} : TopIs(op)
    /\ stack' = Rest
    /\ UNCHANGED <<mdns, managerVars, browseVars, network, broken>>
-----------------------------------------------------------------------------
(* A poll of the manager, and what it receives *)

\* Mutation of queryDue: the last retry is not sent.
queryDueButLast ==
    /\ browsing # None /\ retries > 1 /\ due = 0
    /\ \A i \in asked \intersect Instances : ServiceOf[i] # browsing

\* The second has passed, and what the last query brought has come or is lost.
queryDue ==
    /\ browsing # None /\ retries > 0 /\ due = 0
    /\ \A i \in asked \intersect Instances : ServiceOf[i] # browsing

\* MG_EV_POLL of the listener, when there is anything to do.
Poll(l) ==
    /\ Idle /\ l \in live
    /\ queryDue \/ \E i \in 1 .. Len(waiting) : waiting[i].left = 0
    /\ stack' = <<At("expiring"), For("poll", l)>>
    /\ UNCHANGED <<mdns, managerVars, browseVars, network, broken>>

\* pollBrowse(), unless a handler has detached the listener.
PollBrowse(l) ==
    /\ TopIs("poll") /\ Head(stack).of = l
    /\ IF l \in live /\ queryDue
       THEN /\ retries' = retries - 1 /\ due' = 1
            /\ Queries(browsing)
            /\ UNCHANGED <<browsing, stored, fresh>>
       ELSE UNCHANGED <<browseVars, network, conns>>
    /\ stack' = Rest
    /\ UNCHANGED <<mdns, listener, waiting, doomed, cached, broken>>

Answer(n) ==
    /\ Idle /\ open # {} /\ n \in asked
    /\ asked' = asked \ {n}
    /\ cached' = [cached EXCEPT ![n] = TTL]
    /\ stack' = <<For("answering", n)>>
    /\ UNCHANGED <<mdns, listener, conns, waiting, doomed, browseVars, lost, broken>>

\* Mutation of Instance: an answer to the browse before is stored.
InstanceOfAnyBrowse(i) ==
    /\ Idle /\ open # {} /\ i \in asked
    /\ asked' = asked \ {i}
    /\ IF browsing # None /\ (i \in stored \/ Cardinality(stored) < MaxRecords)
       THEN stored' = stored \union {i} /\ fresh' = [fresh EXCEPT ![i] = TTL]
       ELSE UNCHANGED <<stored, fresh>>
    /\ UNCHANGED <<mdns, managerVars, browsing, retries, due, lost, stack, broken>>

\* handleResponse(): a full table stays full, of expired records too.
Instance(i) ==
    /\ Idle /\ open # {} /\ i \in asked
    /\ asked' = asked \ {i}
    /\ IF /\ browsing = ServiceOf[i]
          /\ i \in stored \/ Cardinality(stored) < MaxRecords
       THEN stored' = stored \union {i} /\ fresh' = [fresh EXCEPT ![i] = TTL]
       ELSE UNCHANGED <<stored, fresh>>
    /\ UNCHANGED <<mdns, managerVars, browsing, retries, due, lost, stack, broken>>

\* A datagram is lost, or comes when nobody listens.
Lose(x) ==
    /\ Idle /\ x \in asked
    /\ \/ lost < MaxLoss /\ lost' = lost + 1
       \/ open = {} /\ UNCHANGED lost
    /\ asked' = asked \ {x}
    /\ UNCHANGED <<mdns, managerVars, browseVars, stack, broken>>

\* A query that is left to onRequest ...
Question(l) ==
    /\ Idle /\ l \in open
    /\ stack' = <<At("request"), For("reply", l)>>
    /\ UNCHANGED <<mdns, managerVars, browseVars, network, broken>>

\* ... and the reply, which is made with the hostname, if there is one.
Reply(l) ==
    /\ TopIs("reply") /\ Head(stack).of = l
    /\ broken' \in {broken, broken \/ l \notin live}
    /\ Fails(l) \/ UNCHANGED conns
    /\ stack' = Rest
    /\ UNCHANGED <<mdns, listener, waiting, doomed, cached, browseVars, network>>

\* The manager closes the listener: it has failed, it fails as it is read, or
\* the manager ends.  From now on is_closing is set in either case.
ListenerGone(l) ==
    /\ Idle /\ l \in live
    /\ conns' = [conns EXCEPT ![l] = "closing"]
    /\ ProtocolCloses(l, <<For("drop", l)>>)
    /\ UNCHANGED <<mdns, waiting, doomed, browseVars, network, broken>>

\* eventHandler(), unless a handler has detached the listener, and the end of it.
Drop(l) ==
    /\ TopIs("drop") /\ Head(stack).of = l
    /\ mdns' = IF l \in live THEN None ELSE mdns
    /\ conns' = [conns EXCEPT ![l] = "free"]
    /\ stack' = Rest
    /\ UNCHANGED <<listener, waiting, doomed, cached, browseVars, network, broken>>

\* The poll frees what end() has retired ...
Free(l) ==
    /\ Idle /\ conns[l] = "retired"
    /\ conns' = [conns EXCEPT ![l] = "free"]
    /\ UNCHANGED <<mdns, listener, waiting, doomed, cached, browseVars, network,
                   stack, broken>>

\* ... and closes a client's connection, with mg_resolve_cancel().
ClientCloses(c) ==
    /\ Idle /\ c \in doomed
    /\ \E i \in 1 .. Len(waiting) : waiting[i].client = c /\ waiting' = Without(i)
    /\ doomed' = doomed \ {c}
    /\ UNCHANGED <<mdns, listener, conns, cached, browseVars, network, stack, broken>>

Down(n) == IF n > 0 THEN n - 1 ELSE 0

Tick ==
    /\ Idle
    /\ due' = Down(due)
    /\ fresh' = [i \in Instances |-> Down(fresh[i])]
    /\ cached' = [n \in Names |-> Down(cached[n])]
    /\ waiting' = [i \in 1 .. Len(waiting) |->
                      [waiting[i] EXCEPT !.left = Down(waiting[i].left)]]
    /\ UNCHANGED <<mdns, listener, conns, doomed, browsing, retries, stored, network,
                   stack, broken>>
-----------------------------------------------------------------------------
Application ==
    \/ Begin \/ End \/ CancelBrowse \/ \E s \in Services : Browse(s)
    \/ \E c \in Clients : Abort(c) \/ \E n \in Names :
            LookupWaits(c, n) \/ LookupUnsent(c, n) \/ LookupAtOnce(c, n)

\* What is under way goes on.
GoesOn ==
    \/ Detach \/ ListenFails \/ Closes \/ Expires \/ Resolves \/ HandlerReturns
    \/ \E l \in Listeners : Listen(l) \/ PollBrowse(l) \/ Reply(l) \/ Drop(l)

Event ==
    \/ \E l \in Listeners : Poll(l) \/ Question(l) \/ ListenerGone(l) \/ Free(l)
    \/ \E n \in Names : Answer(n)
    \/ \E i \in Instances : Instance(i)
    \/ \E x \in Names \union Instances : Lose(x)
    \/ \E c \in Clients : ClientCloses(c)

Next == Application \/ GoesOn \/ Event \/ Tick

Spec == Init /\ [][Next]_vars

(***************************************************************************)
(* Callbacks return, the application polls and time goes on.  An instance  *)
(* that is asked answers; MaxLoss bounds what does not arrive.  A          *)
(* connection with is_closing is closed when the poll gets to it.          *)
(***************************************************************************)
LiveSpec ==
    /\ Spec
    /\ WF_vars(GoesOn) /\ SF_vars(Tick)
    /\ SF_vars(\E l \in Listeners : Poll(l))
    /\ SF_vars(\E i \in Instances : Instance(i))
    /\ SF_vars(\E l \in live \ open : ListenerGone(l))
-----------------------------------------------------------------------------
(* Properties *)

LookupOK == [client : Clients, name : Names, left : 0 .. Timeout]
ManagerOK ==
    /\ mdns \in Listeners \union {None} /\ listener \in Listeners \union {None}
    /\ conns \in [Listeners -> {"free", "open", "closing", "retired"}]
    /\ waiting \in Seq(LookupOK) /\ doomed \subseteq Clients
    /\ cached \in [Names -> 0 .. TTL]
BrowseOK ==
    /\ browsing \in Services \union {None} /\ retries \in 0 .. MaxRetries
    /\ due \in 0 .. 1 /\ stored \subseteq Instances
    /\ fresh \in [Instances -> 0 .. TTL]
RestOK ==
    /\ asked \subseteq Names \union Instances /\ lost \in 0 .. MaxLoss
    /\ stack \in Seq(Frame) /\ broken \in BOOLEAN
TypeOK == ManagerOK /\ BrowseOK /\ RestOK

\* Between callbacks the object and the manager agree about the listener, it is
\* one that is not yet closed, and nothing that is gone has been used: no lookup
\* goes to a listener that was retired or freed.
ListenerAgreed ==
    /\ ~broken
    /\ stack = << >> =>
        /\ mdns = listener
        /\ live = {listener} \ {None}

\* services() reports instances of the present browse only, no more of them than
\* there is room for, and each was heard of while this browse was under way.
RecordsOfThisBrowse ==
    /\ \A i \in stored : ServiceOf[i] = browsing
    /\ \A i \in Instances : fresh[i] > 0 => i \in stored
    /\ Cardinality(stored) <= MaxRecords

\* A lookup ends, also when its listener has gone, and nobody answers.
LookupsEnd == \A c \in Clients : Waits(c) ~> ~Waits(c)

\* A browse finds an instance although as many datagrams are lost as there are
\* retries, unless it is replaced or the listener goes first.
BrowseFinds ==
    \A i \in Instances :
        browsing = ServiceOf[i] /\ retries = MaxRetries /\ mdns # None
            ~> i \in stored \/ browsing # ServiceOf[i] \/ mdns = None
=============================================================================
