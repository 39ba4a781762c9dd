--------------------------- MODULE MongooseClients ---------------------------
(***************************************************************************)
(* One client object on a MongooseSocket: MongooseMqttClient,              *)
(* MongooseSntpClient or MongooseHttpClientRequest, told apart by kind.    *)
(* They share connect(), the processing of events and the destructor of    *)
(* MongooseSocket, and differ in what they override: when connect() is     *)
(* allowed and what connected() means, what onPoll(), onConnect() and      *)
(* onClose() add, and who deletes the object.                              *)
(*                                                                         *)
(* Calls into mongoose may fail before they return, and then run onError() *)
(* inside the call; handlers call the client again.  The C++ stack is      *)
(* therefore explicit, as in MongooseWebSocketClient.                      *)
(*                                                                         *)
(* Left out: what is in the messages, the DNS answer itself (MongooseCore) *)
(* and the body of an HTTP response (MongooseHttpBody).  The broker sends  *)
(* one CONNACK.                                                            *)
(***************************************************************************)
EXTENDS Integers, Sequences, FiniteSets

CONSTANTS
    Conns,         \* connections, which bounds how many exist at a time
    None,          \* no connection
    Kinds,         \* the kinds of client looked at
    Deadline,      \* ticks an SNTP exchange or an HTTP connect may take
    FailAtOnce,    \* a call into mongoose may fail before it returns
    IdleCalls,     \* what the application calls outside the event loop,
    ErrorCalls,    \* ... from its onError handler,
    FailCalls,     \* ... from onError when it runs inside connect(), and
    HandlerCalls,  \* ... from its other handlers
    Deleted        \* the kinds it may delete while a connection exists

\* connect, publish (or subscribe) and disconnect are MQTT's, getTime is
\* SNTP's, send, cancel and abort are the HTTP request's.
Calls == {"connect", "publish", "disconnect", "getTime", "send", "cancel", "abort",
          "delete"}

ASSUME ConnsAssumption == None \notin Conns
ASSUME KindsAssumption ==
    Kinds \subseteq {"mqtt", "sntp", "http"} /\ Deleted \subseteq {"mqtt", "sntp"}
ASSUME DeadlineAssumption == Deadline \in Nat
ASSUME FailAssumption == FailAtOnce \in BOOLEAN
ASSUME CallsAssumption ==
    /\ IdleCalls \subseteq Calls
    /\ ErrorCalls \union FailCalls \union HandlerCalls \subseteq Calls \ {"delete"}

VARIABLES
    kind,      \* which client it is
    alive,     \* the object exists
    nc,        \* _nc
    up,        \* _connected
    code,      \* _connackCode is not 0
    phase,     \* how far each connection has come
    owned,     \* fn_data is the client
    sending,   \* send.len > 0
    draining,  \* is_draining
    closing,   \* is_closing
    age,       \* ticks since MG_EV_OPEN
    visiting,  \* the connection mg_mgr_poll is at,
    input,     \* ... where it may still find something to handle,
    writable,  \* ... and whether it was found is_writable
    stack,     \* interrupted activations, innermost first
    broken,    \* an object that is gone was used
    told,      \* history: calls of onConnect less those of onDisconnect
    refused    \* history: the connections the broker has refused

clientVars == <<kind, alive, nc, up, code>>
flagVars == <<owned, sending, draining, closing>>
connVars == <<phase, owned, sending, draining, closing, age>>
visitVars == <<visiting, input, writable>>
history == <<told, refused>>
vars == <<kind, alive, nc, up, code, phase, owned, sending, draining, closing,
          age, visiting, input, writable, stack, broken, told, refused>>

Phases == {"free", "resolving", "connecting", "open", "ready"}

(***************************************************************************)
(* An activation: "attempt" is connect(), getTime() or send() about to     *)
(* call mongoose, "attempted" the rest of it, connection at in hand.       *)
(* "error" is onError() out of mg_error(), "refused" is onError() for a    *)
(* CONNACK that says no, "event" is onConnect(), onMessage(), onTime() or  *)
(* a handler of the response, "lost" is onDisconnect() and "close" the     *)
(* handler of onClose().                                                   *)
(***************************************************************************)
OnError == {"error", "refused"}
Handlers == OnError \union {"event", "lost", "close"}
Frame ==
    [op : {"attempt"}, at : {None}] \union
    [op : Handlers \union {"attempted"}, at : Conns]
At(op, c) == [op |-> op, at |-> c]

Top == Head(stack)
TopIs(op) == stack # << >> /\ Top.op = op
Push(f, below) == <<f>> \o below

live == {c \in Conns : phase[c] # "free"}
free == Conns \ live

\* Mutation of connected: a connection that is closing counts.
connectedWhileClosing == nc # None /\ (kind = "mqtt" => up)

\* MongooseSocket::connected(), and what MongooseMqttClient makes of it.
connected == nc # None /\ (kind = "mqtt" => up /\ nc \notin closing)

Init ==
    /\ kind \in Kinds
    /\ alive = (kind # "http")
    /\ nc = None /\ up = FALSE /\ code = FALSE
    /\ phase = [c \in Conns |-> "free"]
    /\ owned = {} /\ sending = {} /\ draining = {} /\ closing = {}
    /\ age = [c \in Conns |-> 0]
    /\ visiting = None /\ input = "none" /\ writable = FALSE
    /\ stack = << >> /\ broken = FALSE
    /\ told = 0 /\ refused = {}
-----------------------------------------------------------------------------
(* What the application calls *)

Idle == stack = << >> /\ visiting = None

\* onError() runs inside the connect() that made its connection.
InsideConnect ==
    \E i \in 2 .. Len(stack) : stack[i] = At("attempted", Top.at)

Call(op) ==
    /\ ~broken
    /\ \/ Idle /\ op \in IdleCalls
       \/ TopIs("error") /\ ~InsideConnect /\ op \in ErrorCalls
       \/ TopIs("error") /\ InsideConnect /\ op \in FailCalls
       \/ TopIs("refused") /\ op \in ErrorCalls
       \/ TopIs("event") /\ op \in HandlerCalls
       \/ TopIs("lost") /\ op \in HandlerCalls
       \/ TopIs("close") /\ op \in HandlerCalls

Attempting == stack' = Push(At("attempt", None), stack)

\* Mutation of Connect: connected() is asked, not getConnection().
ConnectUnlessConnected ==
    /\ Call("connect") /\ kind = "mqtt" /\ alive /\ ~connected
    /\ code' = FALSE
    /\ Attempting
    /\ UNCHANGED <<kind, alive, nc, up, connVars, visitVars, broken, history>>

\* Mutation of Connect: the code is reset although nothing is attempted.
ConnectResetsFirst ==
    /\ Call("connect") /\ kind = "mqtt" /\ alive
    /\ code' = FALSE
    /\ IF nc = None THEN Attempting ELSE UNCHANGED stack
    /\ UNCHANGED <<kind, alive, nc, up, connVars, visitVars, broken, history>>

Connect ==
    /\ Call("connect") /\ kind = "mqtt" /\ alive /\ nc = None
    /\ code' = FALSE
    /\ Attempting
    /\ UNCHANGED <<kind, alive, nc, up, connVars, visitVars, broken, history>>

GetTime ==
    /\ Call("getTime") /\ kind = "sntp" /\ alive /\ ~connected
    /\ Attempting
    /\ UNCHANGED <<clientVars, connVars, visitVars, broken, history>>

\* beginRequest() and send(), as get(), post(), put(), patch() and delete_()
\* do; from a handler it is send() again, of the request that is under way.
SendRequest ==
    /\ Call("send") /\ kind = "http" /\ alive = (stack # << >>)
    /\ alive' = TRUE
    /\ Attempting
    /\ UNCHANGED <<kind, nc, up, code, connVars, visitVars, broken, history>>

\* publish() and subscribe() ...
Publish ==
    /\ Call("publish") /\ kind = "mqtt" /\ alive /\ connected
    /\ sending' = sending \union {nc}
    /\ UNCHANGED <<clientVars, phase, owned, draining, closing, age, visitVars,
                   stack, broken, history>>

\* ... and mongoose has no room for the packet.
PublishFails ==
    /\ Call("publish") /\ kind = "mqtt" /\ alive /\ connected /\ FailAtOnce
    /\ closing' = closing \union {nc}
    /\ stack' = Push(At("error", nc), stack)
    /\ UNCHANGED <<clientVars, phase, owned, sending, draining, age, visitVars,
                   broken, history>>

\* Mutation of Disconnect: connected() is not asked.
DisconnectUnchecked ==
    /\ Call("disconnect") /\ kind = "mqtt" /\ alive
    /\ sending' = sending \union {nc}
    /\ draining' = draining \union {nc}
    /\ UNCHANGED <<clientVars, phase, owned, closing, age, visitVars, stack,
                   broken, history>>

\* mg_mqtt_disconnect(), then MongooseSocket::disconnect().
Disconnect ==
    /\ Call("disconnect") /\ kind = "mqtt" /\ alive /\ connected
    /\ sending' = sending \union {nc}
    /\ draining' = draining \union {nc}
    /\ UNCHANGED <<clientVars, phase, owned, closing, age, visitVars, stack,
                   broken, history>>

Cancel ==
    /\ Call("cancel") /\ kind = "http" /\ alive /\ nc # None
    /\ draining' = draining \union {nc}
    /\ UNCHANGED <<clientVars, phase, owned, sending, closing, age, visitVars,
                   stack, broken, history>>

Abort ==
    /\ Call("abort") /\ kind = "http" /\ alive /\ nc # None
    /\ closing' = closing \union {nc}
    /\ UNCHANGED <<clientVars, phase, owned, sending, draining, age, visitVars,
                   stack, broken, history>>

\* ~MongooseSocket(): let go of _nc if it is still ours.
Detach == owned' = owned \ {nc} /\ closing' = closing \union (owned \intersect {nc})

\* Mutation of Delete: the destructor leaves fn_data alone.
DeleteAttached ==
    /\ Call("delete") /\ kind \in Deleted /\ alive
    /\ alive' = FALSE /\ nc' = None /\ up' = FALSE /\ told' = 0
    /\ UNCHANGED <<kind, code, connVars, visitVars, stack, broken, refused>>

Delete ==
    /\ Call("delete") /\ kind \in Deleted /\ alive
    /\ alive' = FALSE /\ nc' = None /\ up' = FALSE /\ told' = 0
    /\ Detach
    /\ UNCHANGED <<kind, code, phase, sending, draining, age, visitVars, stack,
                   broken, refused>>
-----------------------------------------------------------------------------
(* mg_mqtt_connect(), mg_sntp_connect() and mg_http_connect() *)

\* A new connection.  MQTT's CONNECT is queued at once, HTTP's request when
\* TCP is there; a datagram does not wait.
NewConn(c, ph) ==
    /\ phase' = [phase EXCEPT ![c] = ph]
    /\ age' = [age EXCEPT ![c] = 0]
    /\ owned' = owned \union {c}
    /\ sending' = IF kind = "mqtt" \/ (kind = "http" /\ ph = "open")
                  THEN sending \union {c} ELSE sending

\* No connection: connect() returns false, and whoever has made an HTTP
\* request deletes it.
AttemptGetsNone ==
    /\ TopIs("attempt")
    /\ IF kind = "http" THEN alive' = FALSE /\ nc' = None /\ Detach
                        ELSE UNCHANGED <<alive, nc, owned, closing>>
    /\ stack' = Tail(stack)
    /\ UNCHANGED <<kind, up, code, phase, sending, draining, age, visitVars,
                   broken, history>>

\* It is resolved, connected, or connected at once.
AttemptStarts(c, ph) ==
    /\ TopIs("attempt") /\ c \in free
    /\ ph = "connecting" => kind # "sntp"
    /\ NewConn(c, ph)
    /\ stack' = Push(At("attempted", c), Tail(stack))
    /\ UNCHANGED <<clientVars, draining, closing, visitVars, broken, history>>

AttemptFails(c) ==
    /\ TopIs("attempt") /\ c \in free /\ FailAtOnce
    /\ NewConn(c, "resolving")
    /\ closing' = closing \union {c}
    /\ stack' = <<At("error", c), At("attempted", c)>> \o Tail(stack)
    /\ UNCHANGED <<clientVars, draining, visitVars, broken, history>>

\* MongooseSocket::connect(): _nc is replaced unless connected().
Attempted ==
    /\ TopIs("attempted")
    /\ IF ~connected
       THEN nc' = Top.at /\ UNCHANGED <<alive, owned, closing>>
       ELSE IF kind = "http" THEN alive' = FALSE /\ nc' = None /\ Detach
                             ELSE UNCHANGED <<alive, nc, owned, closing>>
    /\ stack' = Tail(stack)
    /\ UNCHANGED <<kind, up, code, phase, sending, draining, age, visitVars,
                   broken, history>>
-----------------------------------------------------------------------------
(* A visit of the event loop *)

expired(c) == age[c] > Deadline

\* Mutation of timesOut: the time a name takes to resolve does not count.
timesOutConnecting(c) ==
    kind = "http" /\ expired(c) /\ c \in owned /\ phase[c] = "connecting"

\* MongooseHttpClientRequest::onPoll(); is_closing is not asked.
timesOut(c) ==
    /\ kind = "http" /\ expired(c) /\ c \in owned
    /\ phase[c] \in {"resolving", "connecting"}

\* Mutation of givesUp: only a name that does not resolve is given up.
givesUpResolving(c) == kind = "sntp" /\ expired(c) /\ phase[c] = "resolving"

\* MG_EV_POLL in sntp_cb.
givesUp(c) == kind = "sntp" /\ expired(c)

\* mg_mgr_poll comes to c: MG_EV_POLL first, to an object that may be gone.
Visit(c) ==
    /\ Idle /\ c \in live /\ ~broken
    /\ broken' = (c \in owned /\ ~alive)
    /\ visiting' = c /\ input' = "socket"
    /\ writable' = (c \in sending /\ phase[c] \in {"open", "ready"})
    /\ closing' = IF timesOut(c) \/ givesUp(c) THEN closing \union {c} ELSE closing
    /\ stack' = IF timesOut(c) THEN <<At("error", c)>> ELSE << >>
    /\ UNCHANGED <<clientVars, phase, owned, sending, draining, age, history>>

\* Nothing is done for a connection that is being resolved or is closing;
\* one without an owner is closing.
Reads(c) ==
    /\ stack = << >> /\ visiting = c /\ input = "socket" /\ ~broken
    /\ c \in owned \ closing /\ phase[c] # "resolving"
    /\ UNCHANGED <<visiting, writable>>

\* mqtt_cb goes on through what it has received, is_closing or not.
Parses(c) ==
    /\ \/ Reads(c)
       \/ /\ stack = << >> /\ visiting = c /\ input = "buffer" /\ ~broken
          /\ UNCHANGED <<visiting, writable>>
    /\ input' \in {"none", "buffer"}

MgError(c) ==
    /\ closing' = closing \union {c}
    /\ stack' = <<At("error", c)>>
    /\ UNCHANGED <<clientVars, phase, owned, sending, draining, age, broken, history>>

\* The answer about the name, while another connection is visited.
Resolves(c, ph) ==
    /\ Idle /\ phase[c] = "resolving" /\ c \notin closing /\ ~broken /\ alive
    /\ ph = (IF kind = "sntp" THEN "open" ELSE "connecting")
    /\ phase' = [phase EXCEPT ![c] = ph]
    /\ UNCHANGED <<clientVars, flagVars, age, visitVars, stack, broken, history>>

ResolveFails(c) ==
    /\ Idle /\ phase[c] = "resolving" /\ c \notin closing /\ ~broken /\ alive
    /\ MgError(c)
    /\ UNCHANGED visitVars

Connects(c) ==
    /\ Reads(c) /\ phase[c] = "connecting"
    /\ phase' = [phase EXCEPT ![c] = "open"]
    /\ sending' = sending \union {c}
    /\ input' = "none"
    /\ UNCHANGED <<clientVars, owned, draining, closing, age, stack, broken, history>>

\* A refused connect, a TLS or an input error.
Fails(c) == Reads(c) /\ MgError(c) /\ input' = "none"

\* The end of the stream, a reset, a malformed MQTT packet or a kiss of
\* death: mongoose reports no error for these.
PeerCloses(c) ==
    /\ Reads(c) /\ phase[c] \in {"open", "ready"}
    /\ closing' = closing \union {c}
    /\ input' = "none"
    /\ UNCHANGED <<clientVars, phase, owned, sending, draining, age, stack,
                   broken, history>>

\* The peer answers only what it has been sent.
Asked(c) == phase[c] = "open" /\ c \notin sending /\ c \notin refused

\* MG_EV_MQTT_OPEN, accepted ...
Accepts(c) ==
    /\ Parses(c) /\ kind = "mqtt" /\ Asked(c)
    /\ phase' = [phase EXCEPT ![c] = "ready"]
    /\ up' = TRUE
    /\ told' = told + 1
    /\ stack' = <<At("event", c)>>
    /\ UNCHANGED <<kind, alive, nc, code, flagVars, age, broken, refused>>

\* ... and refused: MongooseSocket::onError() directly; mqtt_cb closes the
\* connection after it.
Refuses(c) ==
    /\ Parses(c) /\ kind = "mqtt" /\ Asked(c)
    /\ code' = TRUE
    /\ refused' = refused \union {c}
    /\ stack' = <<At("refused", c)>>
    /\ UNCHANGED <<kind, alive, nc, up, connVars, broken, told>>

Message(c) ==
    /\ Parses(c) /\ kind = "mqtt" /\ phase[c] = "ready"
    /\ stack' = <<At("event", c)>>
    /\ UNCHANGED <<clientVars, connVars, broken, history>>

\* The time, or (a part of) the response.
Answers(c) ==
    /\ Reads(c) /\ kind # "mqtt" /\ (Asked(c) \/ phase[c] = "ready")
    /\ phase' = [phase EXCEPT ![c] = "ready"]
    /\ stack' = <<At("event", c)>>
    /\ input' = "none"
    /\ UNCHANGED <<clientVars, flagVars, age, broken, history>>

\* The end of the visit: what was queued before it has been written.
Written(c) == IF writable /\ c \notin closing THEN sending \ {c} ELSE sending
Closes(c) == c \in closing \/ (c \in draining /\ c \notin Written(c))

EndsVisit(c) ==
    /\ stack = << >> /\ visiting = c /\ ~broken
    /\ visiting' = None /\ input' = "none" /\ writable' = FALSE

Forget(c) ==
    /\ phase' = [phase EXCEPT ![c] = "free"]
    /\ age' = [age EXCEPT ![c] = 0]
    /\ sending' = sending \ {c} /\ draining' = draining \ {c}

Stays(c) ==
    /\ EndsVisit(c) /\ ~Closes(c)
    /\ sending' = Written(c)
    /\ UNCHANGED <<clientVars, phase, owned, draining, closing, age, stack,
                   broken, history>>

\* Mutation of CloseConn: _connected outlives the connection.
CloseConnStillConnected(c) ==
    /\ EndsVisit(c) /\ Closes(c) /\ c \in owned
    /\ nc' = IF nc = c THEN None ELSE nc
    /\ told' = IF up THEN told - 1 ELSE told
    /\ stack' = <<At(IF up THEN "lost" ELSE "close", c)>>
    /\ UNCHANGED <<kind, alive, up, code, connVars, broken, refused>>

\* MG_EV_CLOSE to the owner: _nc first, then onClose(), which is MQTT's.
CloseConn(c) ==
    /\ EndsVisit(c) /\ Closes(c) /\ c \in owned
    /\ nc' = IF nc = c THEN None ELSE nc
    /\ up' = FALSE
    /\ told' = IF up THEN told - 1 ELSE told
    /\ stack' = <<At(IF up THEN "lost" ELSE "close", c)>>
    /\ UNCHANGED <<kind, alive, code, connVars, broken, refused>>

\* ... or to nobody.
CloseUnheard(c) ==
    /\ EndsVisit(c) /\ Closes(c) /\ c \notin owned
    /\ Forget(c)
    /\ closing' = closing \ {c} /\ refused' = refused \ {c}
    /\ UNCHANGED <<clientVars, owned, stack, broken, told>>
-----------------------------------------------------------------------------
(* A handler returns, and the library goes on *)

ErrorReturns ==
    /\ TopIs("error")
    /\ stack' = Tail(stack)
    /\ UNCHANGED <<clientVars, connVars, visitVars, broken, history>>

RefusedReturns ==
    /\ TopIs("refused")
    /\ closing' = closing \union {Top.at}
    /\ stack' = Tail(stack)
    /\ UNCHANGED <<clientVars, phase, owned, sending, draining, age, visitVars,
                   broken, history>>

\* After onTime() the exchange is over: abort(), and sntp_cb closes.
EventReturns ==
    /\ TopIs("event")
    /\ closing' = IF kind = "sntp" THEN closing \union (live \intersect {nc, Top.at})
                                   ELSE closing
    /\ stack' = Tail(stack)
    /\ UNCHANGED <<clientVars, phase, owned, sending, draining, age, visitVars,
                   broken, history>>

LostReturns ==
    /\ TopIs("lost")
    /\ stack' = Push(At("close", Top.at), Tail(stack))
    /\ UNCHANGED <<clientVars, connVars, visitVars, broken, history>>

\* The connection is freed; MongooseHttpClientRequest deletes itself.
CloseReturns ==
    /\ TopIs("close")
    /\ Forget(Top.at)
    /\ refused' = refused \ {Top.at}
    /\ stack' = Tail(stack)
    /\ IF kind = "http"
       THEN /\ broken' = ~alive
            /\ alive' = FALSE /\ nc' = None
            /\ owned' = owned \ {Top.at, nc}
            /\ closing' = (closing \union (owned \intersect {nc})) \ {Top.at}
       ELSE /\ owned' = owned \ {Top.at} /\ closing' = closing \ {Top.at}
            /\ UNCHANGED <<alive, nc, broken>>
    /\ UNCHANGED <<kind, up, code, visitVars, told>>
-----------------------------------------------------------------------------
(* Time, and everything together *)

Tick ==
    /\ Idle /\ ~broken
    /\ age' = [c \in Conns |-> IF c \in live /\ ~expired(c) THEN age[c] + 1
                                                         ELSE age[c]]
    /\ UNCHANGED <<clientVars, phase, flagVars, visitVars, stack, broken, history>>

Application ==
    \/ Connect \/ Publish \/ PublishFails \/ Disconnect
    \/ GetTime \/ SendRequest \/ Cancel \/ Abort \/ Delete

Attempts ==
    \/ AttemptGetsNone \/ Attempted
    \/ \E c \in Conns : AttemptFails(c)
                        \/ \E ph \in Phases \ {"free", "ready"} : AttemptStarts(c, ph)

Network(c) ==
    \/ Connects(c) \/ Fails(c) \/ PeerCloses(c)
    \/ Accepts(c) \/ Refuses(c) \/ Message(c) \/ Answers(c)
    \/ ResolveFails(c) \/ \E ph \in Phases : Resolves(c, ph)

Ends(c) == Stays(c) \/ CloseConn(c) \/ CloseUnheard(c)
Returns ==
    \/ ErrorReturns \/ RefusedReturns \/ EventReturns
    \/ LostReturns \/ CloseReturns

Next ==
    \/ Application \/ Attempts \/ Returns \/ Tick
    \/ \E c \in Conns : Visit(c) \/ Network(c) \/ Ends(c)

Spec == Init /\ [][Next]_vars

(***************************************************************************)
(* The application polls again and again, every poll visits every          *)
(* connection and comes to its end (a receive buffer is finite), what is   *)
(* called returns, and time goes on.  The network owes nothing.            *)
(***************************************************************************)
LiveSpec ==
    /\ Spec
    /\ WF_vars(Attempts) /\ SF_vars(Returns) /\ SF_vars(Tick)
    /\ \A c \in Conns : SF_vars(Visit(c)) /\ SF_vars(Ends(c))
-----------------------------------------------------------------------------
(* Properties *)

FlagsOK ==
    /\ alive \in BOOLEAN /\ up \in BOOLEAN /\ code \in BOOLEAN
    /\ writable \in BOOLEAN /\ broken \in BOOLEAN
ClientOK == kind \in Kinds /\ nc \in Conns \union {None}
ConnsOK ==
    /\ phase \in [Conns -> Phases] /\ age \in [Conns -> 0 .. (Deadline + 1)]
    /\ owned \subseteq Conns /\ sending \subseteq Conns
    /\ draining \subseteq Conns /\ closing \subseteq Conns
VisitOK == visiting \in Conns \union {None} /\ input \in {"none", "socket", "buffer"}
HistoryOK == told \in Int /\ refused \subseteq Conns

\* The types of the object's fields, of the connections, of the visit and of
\* the interrupted activations.
TypeOK == FlagsOK /\ ClientOK /\ ConnsOK /\ VisitOK /\ HistoryOK /\ stack \in Seq(Frame)

\* onConnect() and onDisconnect() of the MQTT client come in turn, whatever the
\* handlers do, and after an onConnect() there is an accepted connection until
\* onDisconnect() has been called.
NotifiedInTurn ==
    /\ told \in {0, 1}
    /\ told = 1 => nc # None /\ phase[nc] = "ready"

\* connackCode() describes the attempt whose error is being handled: not 0 in
\* onError() exactly if it was the broker who refused this connection.
CodeOfThisAttempt ==
    kind = "mqtt" /\ stack # << >> /\ Top.op \in OnError =>
        (code <=> Top.at \in refused)

\* onError() for a connection never runs inside onError() for the same one, so
\* that a handler that publishes cannot recurse until the stack runs out.
OnErrorNotReentered ==
    \A i, j \in 1 .. Len(stack) :
        i # j /\ stack[i].op \in OnError /\ stack[j].op \in OnError =>
            stack[i].at # stack[j].at

\* Between callbacks the object hears _nc and what is about to be closed, and
\* nothing else; a request that has been sent has a connection, whose close
\* deletes it.
HeardIsCurrent ==
    stack = << >> /\ alive =>
        /\ owned \ closing \subseteq {nc}
        /\ nc # None => nc \in owned
        /\ kind = "http" => nc # None

\* No event is delivered to an object that is gone, and none is deleted twice.
NoUndefinedBehaviour == ~broken

\* An HTTP request does not resolve or connect for ever, and an SNTP exchange
\* ends, so that getTime() can start another one, although the network may
\* never say a word.
DeadlinesHold ==
    \A c \in Conns :
        \/ kind = "http" /\ phase[c] \in {"resolving", "connecting"}
        \/ kind = "sntp" /\ nc = c
        ~> \/ kind = "http" /\ phase[c] \notin {"resolving", "connecting"}
           \/ kind = "sntp" /\ nc # c
=============================================================================
