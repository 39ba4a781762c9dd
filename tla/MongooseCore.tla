----------------------------- MODULE MongooseCore -----------------------------
(***************************************************************************)
(* DNS resolution and nameserver failover: class MongooseCore together     *)
(* with the part of the vendored event loop it drives, the unicast         *)
(* resolver of mongoose.c (sendnsreq, dns_cb, mg_resolve_cancel), the      *)
(* order of visits inside mg_mgr_poll and mg_error's synchronous dispatch  *)
(* to MongooseSocket::processEvent.                                        *)
(*                                                                         *)
(* Everything runs on one thread, so the hazard is re-entrancy: mg_error   *)
(* calls the socket, the socket calls dnsError, dnsError may close the     *)
(* resolver, which fails other sockets, whose handlers call back into the  *)
(* library, all while a walk over the list of lookups is half done.  The   *)
(* C++ call stack is therefore explicit: `stack` holds the activations     *)
(* that a callback has interrupted, innermost first.                       *)
(*                                                                         *)
(* Time is relative: ttl counts a lookup's remaining ticks down (0 is      *)
(* expired), window the ticks for which dnsError still ignores timeouts.   *)
(* New elements join the head of mgr->conns and of active_dns_requests, so *)
(* a walk in progress never meets them and a set of elements still to be   *)
(* visited is enough; where the order of the lookups matters it is the     *)
(* order of their ttl, which all start at the same value.                  *)
(***************************************************************************)
EXTENDS Integers, Sequences, FiniteSets

CONSTANTS
    Conns,          \* client connections (each belongs to one MongooseSocket)
    Servers,        \* nameserver URLs an application can configure
    Responsive,     \* the servers that answer queries
    Default,        \* the URL mg_mgr_init() installs
    None,           \* no server, no resolver, no connection
    Resolver,       \* stands for mgr.dns4.c in a pass of the event loop
    Tables,         \* nameserver lists passed to setNameservers()
    MaxNameservers, \* MONGOOSE_NAMESERVERS
    DnsTimeout,     \* mgr.dnstimeout in ticks
    ClientTimeout,  \* ticks after which a client itself gives a lookup up
    ResolverMayFail,\* the resolver's UDP socket can report errors
    IdleCalls,      \* what the application calls outside the event loop,
    HandlerCalls,   \* ... from a handler, and
    RetireCalls     \* ... from a handler that closeResolver() is waiting for

Calls == {"setup", "lookup", "local", "abort", "delete", "configure", "restart"}

ASSUME NamesAssumption ==
    /\ Default \notin Servers /\ None \notin Servers \union {Default}
    /\ None \notin Conns /\ Resolver \notin Conns
    /\ Responsive \subseteq Servers \union {Default}
ASSUME TablesAssumption ==
    /\ MaxNameservers \in Nat \ {0}
    /\ Tables \subseteq Seq(Servers)
ASSUME TimesAssumption ==
    /\ DnsTimeout \in Nat \ {0} /\ ClientTimeout \in Nat \ {0}
    /\ ResolverMayFail \in BOOLEAN
ASSUME CallsAssumption ==
    /\ IdleCalls \subseteq Calls
    /\ HandlerCalls \subseteq Calls \ {"setup", "restart"}
    /\ RetireCalls \subseteq HandlerCalls

VARIABLES
    nameserver,   \* _nameserver: slot -> URL, rewritten in place
    count,        \* _nameserverCount
    active,       \* _activeNameserver
    activeUrl,    \* _active, the buffer mgr.dns4.url points at
    url,          \* what mgr.dns4.url reads as
    window,       \* ticks until now - _lastFailover >= mgr.dnstimeout
    dns4,         \* the server mgr.dns4.c talks to, None without a resolver
    dns4Closing,  \* mgr.dns4.c->is_closing
    retired,      \* a retired resolver socket still awaits its deferred close
    live,         \* members of mgr->conns
    owned,        \* those with a MongooseSocket in fn_data
    resolving,    \* is_resolving
    closing,      \* is_closing
    lookups,      \* connections with an entry in active_dns_requests
    ttl,          \* ticks until now > d->expire
    asked,        \* the server the query went to
    current,      \* lookups whose query left through today's mgr.dns4.c
    errors,       \* MG_EV_ERRORs its owner has seen (history variable)
    running,      \* between begin() and end(), or how the program broke
    pass,         \* what mg_mgr_poll has yet to visit
    ahead,        \* connections newer than mgr.dns4.c: visited before it
    visiting,     \* how far the visit of the resolver has come
    stack         \* interrupted activations, innermost first

tableVars == <<nameserver, count>>
serverVars == <<active, activeUrl, url, window>>
resolverVars == <<dns4, dns4Closing, retired>>
connVars == <<live, owned, resolving, closing, errors>>
lookupVars == <<lookups, ttl, asked, current>>
loopVars == <<running, pass, ahead, visiting>>
vars == <<nameserver, count, active, activeUrl, url, window, dns4,
          dns4Closing, retired, live, owned, resolving, closing, errors,
          lookups, ttl, asked, current, running, pass, ahead, visiting,
          stack>>

Slots == 0 .. (MaxNameservers - 1)
Urls == Servers \union {Default}

(***************************************************************************)
(* An activation: a walk over active_dns_requests ("scan" on MG_EV_POLL,   *)
(* "fail" on MG_EV_CLOSE) stands at entry `at` with `rest` behind it;      *)
(* "answer" has yet to free entry `at` and go on to the entry in `rest`;   *)
(* "close" is to close connection `at`; "retire" is closeResolver(), which *)
(* is to cancel `at` and go on with the connections in `rest`, after which *)
(* useNameserver() installs slot `slot`; "error" is processEvent() about   *)
(* to call onError() of the socket of `at`; "handler" is application code. *)
(***************************************************************************)
Frame == [op : {"scan", "fail", "answer", "close", "retire", "error",
                "handler"},
          at : Conns \union {None}, rest : SUBSET Conns, slot : Slots]

HandlerFrame == [op |-> "handler", at |-> None, rest |-> {}, slot |-> 0]
AtFrame(op, c) == [op |-> op, at |-> c, rest |-> {}, slot |-> 0]
AnswerFrame(c, next) ==
    [op |-> "answer", at |-> c, rest |-> {next} \ {None}, slot |-> 0]
RetireFrame(i) == [op |-> "retire", at |-> None, rest |-> live, slot |-> i]
WalkFrame(op, d, S) == [op |-> op, at |-> d, rest |-> S \ {d}, slot |-> 0]

Top == Head(stack)
TopIs(op) == stack # << >> /\ Top.op = op
Push(f, below) == <<f>> \o below
Quiet == stack = << >> /\ pass = {} /\ visiting = "none"
InRetire == \E i \in DOMAIN stack : stack[i].op = "retire"

\* The head of a part S of active_dns_requests: the newest of its entries.
HeadsOf(S) ==
    IF S = {} THEN {None} ELSE {d \in S : \A e \in S : ttl[d] >= ttl[e]}

Init ==
    /\ nameserver = [i \in Slots |-> None] /\ count = 0
    /\ active = 0 /\ activeUrl = None /\ url = None /\ window = 0
    /\ dns4 = None /\ dns4Closing = FALSE /\ retired = FALSE
    /\ live = {} /\ owned = {} /\ resolving = {} /\ closing = {}
    /\ errors = [c \in Conns |-> 0]
    /\ lookups = {} /\ current = {}
    /\ ttl = [c \in Conns |-> 0] /\ asked = [c \in Conns |-> None]
    /\ running = "off" /\ pass = {} /\ ahead = {} /\ visiting = "none"
    /\ stack = << >>
-----------------------------------------------------------------------------
(* Nameserver selection *)

\* Mutation of UseNameserver: closeResolver() is not called.
UseNameserverKeepsResolver(i, below) ==
    /\ active' = i
    /\ activeUrl' = IF i < count' THEN nameserver'[i] ELSE activeUrl
    /\ url' = IF i < count' THEN nameserver'[i] ELSE url
    /\ stack' = below

\* useNameserver(i), with `below` what runs once it (and closeResolver) is done.
UseNameserver(i, below) ==
    /\ active' = i
    /\ \/ /\ i >= count'
          /\ stack' = below
          /\ UNCHANGED <<activeUrl, url>>
       \/ /\ i < count' /\ (activeUrl = nameserver'[i] \/ dns4 = None)
          /\ activeUrl' = nameserver'[i] /\ url' = nameserver'[i]
          /\ stack' = below
       \/ /\ i < count' /\ activeUrl # nameserver'[i] /\ dns4 # None
          /\ stack' = Push(RetireFrame(i), below)
          /\ UNCHANGED <<activeUrl, url>>

Rotates(msg) == msg = "DNS timeout" /\ count >= 2 /\ window = 0

\* Mutations of DnsError: the next slot without its modulus, or modulo two.
DnsErrorAdvance(next, msg, below) ==
    /\ UNCHANGED tableVars
    /\ \/ Rotates(msg) /\ window' = DnsTimeout /\ UseNameserver(next, below)
       \/ ~Rotates(msg) /\ stack' = below /\ UNCHANGED serverVars
DnsErrorRunsOffTable(msg, below) == DnsErrorAdvance(active + 1, msg, below)
DnsErrorToggles(msg, below) == DnsErrorAdvance((active + 1) % 2, msg, below)

\* MongooseCore::dnsError(msg), then the caller's continuation `below`.
DnsError(msg, below) ==
    /\ UNCHANGED tableVars
    /\ \/ /\ Rotates(msg)
          /\ window' = DnsTimeout
          /\ UseNameserver((active + 1) % count, below)
       \/ /\ ~Rotates(msg)
          /\ stack' = below
          /\ UNCHANGED serverVars

\* mg_error(c, msg): flags c, then MG_EV_ERROR reaches its owner, if it has
\* one, through MongooseSocket::processEvent: dnsError first, onError after it.
MgError(c, msg, below) ==
    /\ closing' = closing \union {c}
    /\ \/ /\ c \in owned
          /\ errors' = [errors EXCEPT ![c] = IF @ < 2 THEN @ + 1 ELSE @]
          /\ DnsError(msg, Push(AtFrame("error", c), below))
       \/ /\ c \notin owned
          /\ stack' = below
          /\ UNCHANGED <<errors, tableVars, serverVars>>

\* Undefined behaviour: past it the model claims nothing.
Broken == {"freed entry", "null resolver", "deleted socket"}
Break(what) ==
    /\ running' = what
    /\ stack' = << >> /\ pass' = {} /\ visiting' = "none"
    /\ UNCHANGED <<tableVars, serverVars, resolverVars, connVars, lookupVars,
                   ahead>>

\* mg_resolve_cancel(c): the entry is freed (the connection's age is kept).
Cancel(c) ==
    /\ lookups' = lookups \ {c} /\ current' = current \ {c}
    /\ UNCHANGED <<ttl, asked>>
-----------------------------------------------------------------------------
(* Activations on the stack *)

\* One step of the loop in dns_cb on MG_EV_POLL or MG_EV_CLOSE.  The successor
\* is read from the entry before the callback, and visited after it.
Walk ==
    /\ TopIs("scan") \/ TopIs("fail")
    /\ UNCHANGED <<resolverVars, lookupVars, loopVars, live, owned, resolving>>
    /\ \/ /\ Top.at = None
          /\ stack' = Tail(stack)
          /\ UNCHANGED <<closing, errors, tableVars, serverVars>>
       \/ /\ Top.at \in lookups
          /\ \E d \in HeadsOf(Top.rest \intersect lookups) :
               LET next == WalkFrame(Top.op, d, Top.rest \intersect lookups)
                   on == Push(next, Tail(stack))
               IN  \/ /\ Top.op = "scan" /\ ttl[Top.at] > 0
                      /\ stack' = on
                      /\ UNCHANGED <<closing, errors, tableVars, serverVars>>
                   \/ /\ Top.op = "scan" /\ ttl[Top.at] = 0
                      /\ MgError(Top.at, "DNS timeout", on)
                   \/ /\ Top.op = "fail"
                      /\ MgError(Top.at, "DNS error", on)

\* The successor was freed while a callback ran: the walk reads freed memory.
WalkFreed ==
    /\ TopIs("scan") \/ TopIs("fail")
    /\ Top.at # None /\ Top.at \notin lookups
    /\ Break("freed entry")

\* dns_cb frees the answered entry after its owner's callback has returned,
\* and looks at the entry that was behind it.
AnswerReturns ==
    /\ TopIs("answer") /\ Top.at \in lookups /\ Top.rest \subseteq lookups
    /\ Cancel(Top.at)
    /\ stack' = Tail(stack)
    /\ UNCHANGED <<tableVars, serverVars, resolverVars, connVars, loopVars>>

\* ... unless a callback has had either freed: LIST_DELETE runs off the list.
AnswerFreed ==
    /\ TopIs("answer")
    /\ Top.at \notin lookups \/ ~(Top.rest \subseteq lookups)
    /\ Break("freed entry")

\* Mutation of RetireConn: lookups in flight are not failed.
RetireConnSilently ==
    /\ TopIs("retire") /\ Top.at = None
    /\ \E c \in Top.rest :
         /\ stack' = Push([Top EXCEPT !.rest = @ \ {c}], Tail(stack))
         /\ \/ c \in closing /\ Cancel(c)
            \/ c \notin closing /\ UNCHANGED lookupVars
    /\ UNCHANGED <<tableVars, serverVars, resolverVars, connVars, loopVars>>

\* Mutation of RetireConn: without the is_closing check.
RetireConnUnchecked ==
    /\ TopIs("retire") /\ Top.at = None
    /\ \E c \in Top.rest :
         LET on(at) == Push([Top EXCEPT !.at = at, !.rest = @ \ {c}],
                            Tail(stack))
         IN  \/ /\ c \in resolving
                /\ MgError(c, "DNS error", on(c))
                /\ UNCHANGED lookupVars
             \/ /\ c \in closing \ resolving
                /\ Cancel(c)
                /\ stack' = on(None)
                /\ UNCHANGED <<closing, errors, tableVars, serverVars>>
             \/ /\ c \notin resolving \union closing
                /\ stack' = on(None)
                /\ UNCHANGED <<closing, errors, tableVars, serverVars,
                               lookupVars>>
    /\ UNCHANGED <<resolverVars, loopVars, live, owned, resolving>>

\* closeResolver(): the next connection of mgr.conns.
RetireConn ==
    /\ TopIs("retire") /\ Top.at = None
    /\ \E c \in Top.rest :
         LET on(at) == Push([Top EXCEPT !.at = at, !.rest = @ \ {c}],
                            Tail(stack))
         IN  \/ /\ c \in resolving \ closing
                /\ MgError(c, "DNS error", on(c))
                /\ UNCHANGED lookupVars
             \/ /\ c \in closing
                /\ Cancel(c)
                /\ stack' = on(None)
                /\ UNCHANGED <<closing, errors, tableVars, serverVars>>
             \/ /\ c \notin resolving \union closing
                /\ stack' = on(None)
                /\ UNCHANGED <<closing, errors, tableVars, serverVars,
                               lookupVars>>
    /\ UNCHANGED <<resolverVars, loopVars, live, owned, resolving>>

\* closeResolver(): the failed connection's handler is back, cancel its lookup.
RetireCancel ==
    /\ TopIs("retire") /\ Top.at # None
    /\ Cancel(Top.at)
    /\ stack' = Push([Top EXCEPT !.at = None], Tail(stack))
    /\ UNCHANGED <<tableVars, serverVars, resolverVars, connVars, loopVars>>

RetireWalked == TopIs("retire") /\ Top.at = None /\ Top.rest = {}

\* closeResolver() detaches the resolver, useNameserver() installs the new URL.
RetireDone ==
    /\ RetireWalked /\ dns4 # None
    /\ dns4' = None /\ dns4Closing' = FALSE /\ retired' = TRUE
    /\ current' = {}
    /\ visiting' = IF visiting = "none" THEN "none" ELSE "retired"
    /\ pass' = pass \ {Resolver}
    /\ activeUrl' = nameserver[Top.slot] /\ url' = nameserver[Top.slot]
    /\ stack' = Tail(stack)
    /\ UNCHANGED <<tableVars, active, window, connVars, lookups, ttl, asked,
                   running, ahead>>

\* ... through mgr.dns4.c, which a nested closeResolver() may have cleared.
RetireNull ==
    /\ RetireWalked /\ dns4 = None
    /\ Break("null resolver")

\* processEvent(): dnsError() is back, now the owner's own onError().
OnError ==
    /\ TopIs("error") /\ Top.at \in owned
    /\ stack' = Push(HandlerFrame, Tail(stack))
    /\ UNCHANGED <<tableVars, serverVars, resolverVars, connVars, lookupVars,
                   loopVars>>

\* ... on an object that a handler below dnsError() has deleted.
OnErrorDeleted ==
    /\ TopIs("error") /\ Top.at \notin owned
    /\ Break("deleted socket")

HandlerReturns ==
    /\ TopIs("handler")
    /\ stack' = Tail(stack)
    /\ UNCHANGED <<tableVars, serverVars, resolverVars, connVars, lookupVars,
                   loopVars>>

Activation ==
    \/ Walk \/ WalkFreed \/ AnswerReturns \/ AnswerFreed \/ RetireConn
    \/ RetireCancel \/ RetireDone \/ RetireNull \/ OnError \/ OnErrorDeleted
    \/ HandlerReturns
-----------------------------------------------------------------------------
(* The event loop: one mg_mgr_poll visits what mgr.conns held at its start *)

BeginPass ==
    /\ Quiet /\ running = "on"
    /\ live # {} \/ dns4 # None
    /\ pass' = live \union (IF dns4 = None THEN {} ELSE {Resolver})
    /\ UNCHANGED <<tableVars, serverVars, resolverVars, connVars, lookupVars,
                   running, ahead, visiting, stack>>

InPass == stack = << >> /\ visiting = "none" /\ pass # {}
ConnTurn(c) == InPass /\ c \in pass /\ (c \in ahead \/ Resolver \notin pass)
Elapsed(c) == DnsTimeout + 1 - ttl[c]

\* A socket error, or on MG_EV_POLL the client's own timer, which does not ask
\* whether the connection has failed already (MongooseHttpClientRequest::onPoll).
ConnFails(c) ==
    /\ ConnTurn(c)
    /\ c \in closing => c \in resolving
    /\ (c \in resolving /\ asked[c] # None) => Elapsed(c) >= ClientTimeout
    /\ MgError(c, "other", << AtFrame("close", c) >>)
    /\ pass' = pass \ {c}
    /\ UNCHANGED <<resolverVars, lookupVars, live, owned, resolving, running,
                   ahead, visiting>>

\* Nothing ends the connection in this pass.
ConnStays(c) ==
    /\ ConnTurn(c) /\ c \notin closing
    /\ c \in lookups => Elapsed(c) < ClientTimeout
    /\ pass' = pass \ {c}
    /\ resolving' \in {resolving, resolving \ ({c} \ lookups)} \* .local answer
    /\ UNCHANGED <<tableVars, serverVars, resolverVars, live, owned, closing,
                   errors, lookupVars, running, ahead, visiting, stack>>

\* Mutation of CloseConn: no mg_resolve_cancel().
CloseConnKeepsLookup(c) ==
    /\ (ConnTurn(c) /\ c \in closing) \/ (TopIs("close") /\ Top.at = c)
    /\ live' = live \ {c} /\ owned' = owned \ {c}
    /\ resolving' = resolving \ {c} /\ closing' = closing \ {c}
    /\ errors' = [errors EXCEPT ![c] = 0]
    /\ pass' = pass \ {c} /\ ahead' = ahead \ {c}
    /\ stack' = IF c \in owned THEN << HandlerFrame >> ELSE << >>
    /\ UNCHANGED <<tableVars, serverVars, resolverVars, lookupVars, running,
                   visiting>>

\* mg_close_conn(c): it cancels the lookup first and ends in the owner's onClose.
CloseConn(c) ==
    /\ (ConnTurn(c) /\ c \in closing) \/ (TopIs("close") /\ Top.at = c)
    /\ lookups' = lookups \ {c} /\ current' = current \ {c}
    /\ ttl' = [ttl EXCEPT ![c] = 0] /\ asked' = [asked EXCEPT ![c] = None]
    /\ live' = live \ {c} /\ owned' = owned \ {c}
    /\ resolving' = resolving \ {c} /\ closing' = closing \ {c}
    /\ errors' = [errors EXCEPT ![c] = 0]
    /\ pass' = pass \ {c} /\ ahead' = ahead \ {c}
    /\ stack' = IF c \in owned THEN << HandlerFrame >> ELSE << >>
    /\ UNCHANGED <<tableVars, serverVars, resolverVars, running, visiting>>

\* The resolver's turn opens with MG_EV_POLL: the walk that finds timeouts.
ResolverTurn ==
    /\ InPass /\ Resolver \in pass /\ pass \intersect ahead = {}
    /\ pass' = pass \ {Resolver}
    /\ visiting' = "io"
    /\ \E d \in HeadsOf(lookups) : stack' = << WalkFrame("scan", d, lookups) >>
    /\ UNCHANGED <<tableVars, serverVars, resolverVars, connVars, lookupVars,
                   running, ahead>>

ResolverIo == stack = << >> /\ visiting = "io"

\* dns_cb on MG_EV_READ with an address for c; mg_connect_resolved succeeds.
AnswerConnects(c) ==
    /\ ResolverIo /\ ~dns4Closing
    /\ c \in lookups \intersect current /\ dns4 \in Responsive
    /\ resolving' = resolving \ {c}
    /\ Cancel(c)
    /\ visiting' = "close"
    /\ UNCHANGED <<tableVars, serverVars, resolverVars, live, owned, closing,
                   errors, running, pass, ahead, stack>>

\* Mutation of AnswerFails: the entry is freed before the callback too.
AnswerFailsFreedFirst(c) ==
    /\ ResolverIo /\ ~dns4Closing
    /\ c \in lookups \intersect current /\ dns4 \in Responsive
    /\ MgError(c, "other", << AnswerFrame(c, None) >>)
    /\ Cancel(c)
    /\ visiting' = "close"
    /\ UNCHANGED <<resolverVars, live, owned, resolving, running, pass, ahead>>

\* ... the connect fails at once, or there is no such name.
AnswerFails(c) ==
    /\ ResolverIo /\ ~dns4Closing
    /\ c \in lookups \intersect current /\ dns4 \in Responsive
    /\ resolving' \in {resolving, resolving \ {c}}
    /\ \E S \in {{d \in lookups \ {c} : ttl[d] <= ttl[c]},
                 {d \in lookups : ttl[d] < ttl[c]}} : \E next \in HeadsOf(S) :
            MgError(c, "other", << AnswerFrame(c, next) >>)
    /\ visiting' = "close"
    /\ UNCHANGED <<resolverVars, lookupVars, live, owned, running, pass, ahead>>

\* Nothing to read, or the socket reports an error.
NoAnswer ==
    /\ ResolverIo
    /\ dns4Closing' \in {dns4Closing, dns4Closing \/ ResolverMayFail}
    /\ visiting' = "close"
    /\ UNCHANGED <<tableVars, serverVars, dns4, retired, connVars, lookupVars,
                   running, pass, ahead, stack>>

\* Mutation of ResolverCloses: dns_cb ignores MG_EV_CLOSE.
ResolverClosesSilently ==
    /\ stack = << >> /\ visiting = "close" /\ dns4Closing
    /\ visiting' = "none"
    /\ dns4' = None /\ dns4Closing' = FALSE /\ current' = {}
    /\ UNCHANGED <<tableVars, serverVars, retired, connVars, lookups, ttl,
                   asked, running, pass, ahead, stack>>

\* The end of the resolver's turn: closed if it failed, and then dns_cb fails
\* every lookup on MG_EV_CLOSE.
ResolverCloses ==
    /\ stack = << >> /\ visiting = "close" /\ dns4Closing
    /\ visiting' = "none"
    /\ dns4' = None /\ dns4Closing' = FALSE /\ current' = {}
    /\ \E d \in HeadsOf(lookups) : stack' = << WalkFrame("fail", d, lookups) >>
    /\ UNCHANGED <<tableVars, serverVars, retired, connVars, lookups, ttl,
                   asked, running, pass, ahead>>

ResolverStays ==
    /\ stack = << >>
    /\ visiting = "retired" \/ (visiting = "close" /\ ~dns4Closing)
    /\ visiting' = "none"
    /\ UNCHANGED <<tableVars, serverVars, resolverVars, connVars, lookupVars,
                   running, pass, ahead, stack>>

\* Mutation of RetiredCloses: closeResolver() left pfn in place.
RetiredClosesWithPfn ==
    /\ stack = << >> /\ visiting = "none" /\ retired /\ running \notin Broken
    /\ retired' = FALSE
    /\ \E d \in HeadsOf(lookups) : stack' = << WalkFrame("fail", d, lookups) >>
    /\ UNCHANGED <<tableVars, serverVars, dns4, dns4Closing, connVars,
                   lookupVars, loopVars>>

\* A retired resolver's deferred close: closeResolver() took its pfn away.
RetiredCloses ==
    /\ stack = << >> /\ visiting = "none" /\ retired /\ running \notin Broken
    /\ retired' = FALSE
    /\ UNCHANGED <<tableVars, serverVars, dns4, dns4Closing, connVars,
                   lookupVars, loopVars, stack>>

Tick ==
    /\ Quiet /\ running = "on"
    /\ window' = IF window = 0 THEN 0 ELSE window - 1
    /\ ttl' = [c \in Conns |-> IF ttl[c] = 0 THEN 0 ELSE ttl[c] - 1]
    /\ UNCHANGED <<tableVars, active, activeUrl, url, resolverVars, connVars,
                   lookups, asked, current, loopVars, stack>>
-----------------------------------------------------------------------------
(* The application: outside the event loop, or from a handler *)

May(call) ==
    \/ Quiet /\ running \in {"off", "on"} /\ call \in IdleCalls
    \/ TopIs("handler") /\ ~InRetire /\ call \in HandlerCalls
    \/ TopIs("handler") /\ InRetire /\ call \in RetireCalls

NewConn(c) ==
    /\ running # "off" /\ c \notin live
    /\ live' = live \union {c} /\ owned' = owned \union {c}
    /\ resolving' = resolving \union {c}
    /\ UNCHANGED <<closing, errors, running, pass, visiting, stack,
                   tableVars, serverVars, retired>>

\* mg_connect_svc to a host name: sendnsreq, opening the resolver if need be.
\* If the query cannot be sent it is the resolver that is flagged.
Lookup(c) ==
    /\ May("lookup") /\ NewConn(c)
    /\ dns4' = IF dns4 = None THEN url ELSE dns4
    /\ dns4Closing' \in {dns4Closing, dns4Closing \/ ResolverMayFail}
    /\ ahead' = IF dns4 = None THEN {} ELSE ahead \union {c}
    /\ lookups' = lookups \union {c} /\ current' = current \union {c}
    /\ ttl' = [ttl EXCEPT ![c] = DnsTimeout + 1]
    /\ asked' = [asked EXCEPT ![c] = dns4']

\* mg_connect_svc to a .local name: sendmdnsreq, no entry in active_dns_requests.
LocalLookup(c) ==
    /\ May("local") /\ NewConn(c)
    /\ ahead' = IF dns4 = None THEN ahead ELSE ahead \union {c}
    /\ UNCHANGED <<dns4, dns4Closing, lookupVars>>

\* MongooseSocket::abort.
Abort(c) ==
    /\ May("abort") /\ c \in owned \ closing
    /\ closing' = closing \union {c}
    /\ UNCHANGED <<tableVars, serverVars, resolverVars, live, owned, resolving,
                   errors, lookupVars, loopVars, stack>>

\* ~MongooseSocket: clears fn_data, so that no further event is dispatched.
Delete(c) ==
    /\ May("delete") /\ c \in owned
    /\ owned' = owned \ {c} /\ closing' = closing \union {c}
    /\ UNCHANGED <<tableVars, serverVars, resolverVars, live, resolving,
                   errors, lookupVars, loopVars, stack>>

\* MongooseCore::setNameservers(t), t without its NULL and empty entries.
SetNameservers(t) ==
    LET kept == IF Len(t) < MaxNameservers THEN Len(t) ELSE MaxNameservers
    IN  /\ May("configure") \/ (May("setup") /\ running = "off")
        /\ count' = kept
        /\ nameserver' = [i \in Slots |->
                            IF i < kept THEN t[i + 1] ELSE nameserver[i]]
        /\ window' = 0
        /\ UseNameserver(0, stack)
        /\ UNCHANGED <<resolverVars, connVars, lookupVars, loopVars>>

\* Mutation of Begin: without useNameserver(_activeNameserver).
BeginForgetsServers ==
    /\ Quiet /\ running = "off"
    /\ running' = "on"
    /\ dns4' = None /\ dns4Closing' = FALSE /\ retired' = FALSE
    /\ live' = {} /\ owned' = {} /\ resolving' = {} /\ closing' = {}
    /\ errors' = [c \in Conns |-> 0]
    /\ lookups' = {} /\ current' = {} /\ ahead' = {}
    /\ url' = Default
    /\ ttl' = [c \in Conns |-> 0] /\ asked' = [c \in Conns |-> None]
    /\ UNCHANGED <<tableVars, active, activeUrl, window, pass, visiting, stack>>

\* MongooseCore::begin(): mg_mgr_init() forgets whatever the manager held.
Begin ==
    /\ Quiet /\ running = "off"
    /\ running' = "on"
    /\ dns4' = None /\ dns4Closing' = FALSE /\ retired' = FALSE
    /\ live' = {} /\ owned' = {} /\ resolving' = {} /\ closing' = {}
    /\ errors' = [c \in Conns |-> 0]
    /\ lookups' = {} /\ current' = {} /\ ahead' = {}
    /\ url' = IF active < count THEN nameserver[active] ELSE Default
    /\ activeUrl' = IF active < count THEN nameserver[active] ELSE activeUrl
    /\ ttl' = [c \in Conns |-> 0] /\ asked' = [c \in Conns |-> None]
    /\ UNCHANGED <<tableVars, active, window, pass, visiting, stack>>

\* Mutation of End: connections are not flagged before the last poll.
EndWithoutFlags ==
    /\ Quiet /\ running = "on" /\ "restart" \in IdleCalls
    /\ running' = "ending"
    /\ pass' = live \union (IF dns4 = None THEN {} ELSE {Resolver})
    /\ UNCHANGED <<tableVars, serverVars, resolverVars, connVars, lookupVars,
                   ahead, visiting, stack>>

\* MongooseCore::end(): mg_mgr_free() flags everything and polls once more.
End ==
    /\ Quiet /\ running = "on" /\ "restart" \in IdleCalls
    /\ running' = "ending"
    /\ closing' = live
    /\ dns4Closing' = (dns4 # None)
    /\ pass' = live \union (IF dns4 = None THEN {} ELSE {Resolver})
    /\ UNCHANGED <<tableVars, serverVars, dns4, retired, live, owned, resolving,
                   errors, lookupVars, ahead, visiting, stack>>

Ended ==
    /\ Quiet /\ running = "ending"
    /\ running' = "off"
    /\ UNCHANGED <<tableVars, serverVars, resolverVars, connVars, lookupVars,
                   pass, ahead, visiting, stack>>

EventLoop ==
    \/ BeginPass \/ ResolverTurn \/ NoAnswer \/ ResolverCloses \/ ResolverStays
    \/ RetiredCloses \/ Ended
    \/ \E c \in Conns : \/ ConnFails(c) \/ ConnStays(c) \/ CloseConn(c)
                        \/ AnswerConnects(c) \/ AnswerFails(c)

Application ==
    \/ Begin \/ End
    \/ \E c \in Conns : Lookup(c) \/ LocalLookup(c) \/ Abort(c) \/ Delete(c)
    \/ \E t \in Tables : SetNameservers(t)

Halted == running \in Broken /\ UNCHANGED vars

Next == Activation \/ EventLoop \/ Tick \/ Application \/ Halted

Spec == Init /\ [][Next]_vars
-----------------------------------------------------------------------------
(* Properties *)

\* Types of the state, one part per group of variables.
TablesOK ==
    /\ nameserver \in [Slots -> Servers \union {None}]
    /\ count \in 0 .. MaxNameservers
ServersOK ==
    /\ active \in Slots
    /\ activeUrl \in Servers \union {None} /\ url \in Urls \union {None}
    /\ window \in 0 .. DnsTimeout
ResolverOK ==
    /\ dns4 \in Urls \union {None}
    /\ dns4Closing \in BOOLEAN /\ retired \in BOOLEAN
ConnsOK ==
    /\ live \subseteq Conns /\ owned \subseteq Conns
    /\ resolving \subseteq Conns /\ closing \subseteq Conns
    /\ errors \in [Conns -> 0 .. 2]
LookupsOK ==
    /\ lookups \subseteq Conns /\ current \subseteq Conns
    /\ ttl \in [Conns -> 0 .. (DnsTimeout + 1)]
    /\ asked \in [Conns -> Urls \union {None}]
LoopOK ==
    /\ running \in {"off", "on", "ending"} \union Broken
    /\ pass \subseteq Conns \union {Resolver} /\ ahead \subseteq Conns
    /\ visiting \in {"none", "io", "close", "retired"}
TypeOK ==
    /\ TablesOK /\ ServersOK /\ ResolverOK /\ ConnsOK /\ LookupsOK /\ LoopOK
    /\ stack \in Seq(Frame)

\* An entry of active_dns_requests points at a connection that has not been
\* freed (mg_close_conn cancels before it frees), and that connection is still
\* resolving, is about to be closed, or is the one being answered.
EntriesPointAtConnections ==
    \A c \in lookups :
        /\ c \in live
        /\ c \in resolving \union closing

\* closeResolver() fails everything the retired server was asked, so no
\* lookup goes on waiting for a socket that is no longer there.
NoOrphanedLookup ==
    ~InRetire /\ running \notin Broken => \A c \in lookups \ closing :
        c \in current \/ \E i \in DOMAIN stack : stack[i].op = "fail"

\* Lookups go to the server nameserver() reports: an open resolver talks to it.
ResolverFollowsUrl ==
    dns4 # None /\ ~InRetire => dns4 = url

\* "servers set before begin(), or kept across an end()/begin()" stay in use:
\* new lookups go to a configured server, not to mg_mgr_init()'s default.
ConfiguredServerInUse ==
    count > 0 /\ running = "on" /\ ~InRetire => url = nameserver[active]

\* dns_cb, closeResolver() and processEvent() only ever touch list entries, a
\* resolver and sockets that exist, whatever the handlers they call do.
NoUndefinedBehaviour == running \notin Broken

\* The walks of dns_cb never step onto an entry that a callback had freed.
WalksMeetNoFreedEntry == running # "freed entry"

\* dnsError rotates away from a server only because that very server left a
\* lookup unanswered; a late timeout never moves it off the replacement.
Rotation == TopIs("scan") /\ window' > window
RotationBlamesActive == [][Rotation => asked[Top.at] = url]_vars

\* The close of one resolver never fails a lookup its successor is serving.
CloseSparesSuccessor ==
    [][TopIs("fail") /\ closing' # closing => Top.at \notin current]_vars

\* "A lookup that has already failed ... must not be errored twice": an owner
\* that has heard of the failure hears nothing more of it from closeResolver().
RetireErrsOnce ==
    [][TopIs("retire") =>
         \A c \in Conns : errors'[c] > errors[c] => errors[c] = 0]_vars

\* The event loop is polled for ever and the clock advances.
Fairness ==
    /\ WF_vars(Activation) /\ WF_vars(EventLoop) /\ WF_vars(Begin)
    /\ SF_vars(Tick)

LiveSpec == Spec /\ Fairness

\* Every lookup comes to an end.
LookupsEnd ==
    \A c \in Conns : c \in lookups ~> (c \notin lookups \/ running \in Broken)

\* "Keep them all so a resolve timeout can fail over": as long as names keep
\* being looked up, and the resolver's own socket does not keep failing, a
\* server that does not answer does not stay in use.
FailoverReachesResponsive ==
    []<>(lookups # {}) /\ <>[](~dns4Closing)
        => []<>(count < 2 \/ url \in Responsive \/ running \in Broken)

\* end() leaves nothing behind: no socket still believes in a connection that
\* the manager, once stopped, will never report closed.
NothingOutlivesEnd == running = "off" => owned = {} /\ lookups = {}
=============================================================================
