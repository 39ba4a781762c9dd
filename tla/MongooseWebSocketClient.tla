----------------------- MODULE MongooseWebSocketClient -----------------------
(***************************************************************************)
(* The reconnecting WebSocket client: class MongooseWebSocketClient, the   *)
(* part of MongooseSocket it stands on (who hears the events of a          *)
(* connection, and which connection is "ours"), and the life of a          *)
(* connection in mongoose.c (mg_connect_svc, mg_ws_cb, mg_error, the visit *)
(* that mg_mgr_poll pays to it, mg_close_conn).                            *)
(*                                                                         *)
(* Two pointers must agree although they are set and cleared in different  *)
(* places: the client's _nc, and the connection's fn_data.  Both are       *)
(* handled in callbacks that themselves call the application, so the C++   *)
(* stack is explicit, as in MongooseCore.                                  *)
(*                                                                         *)
(* Time is relative: since, sincePing and sinceRecv count the ticks from   *)
(* _lastReconnectAttempt, _lastPing and _lastRecv as far as the comparison *)
(* they are made for can tell.  The client's lookups may fail (MongooseCore *)
(* says when); here that is one more way for a connect to end.             *)
(***************************************************************************)
EXTENDS Integers, Sequences, FiniteSets

CONSTANTS
    Conns,         \* connections, which bounds how many exist at a time
    None,          \* no connection
    Self,          \* stands for the call of loop() in a round of the sketch
    Interval,      \* _reconnectInterval in ticks
    MaxBackoff,    \* maxBackoff in ticks
    MaxAttempts,   \* counter bound: more attempts no longer change the delay
    PingInterval,  \* _pingInterval in ticks
    StaleTimeout,  \* _staleTimeout in ticks
    FailAtOnce,    \* connect() may fail before mg_ws_connect() returns
    HangPhases,    \* where a peer may vanish without a word
    IdleCalls,     \* what the application calls outside the event loop,
    ErrorCalls,    \* ... from its onError handler, and
    HandlerCalls,  \* ... from its other handlers
    MaxCalls       \* bound on these calls in a round of the sketch

Calls == {"connect", "disconnect", "loop", "send", "delete"}

ASSUME ConnsAssumption == None \notin Conns /\ Self \notin Conns
ASSUME TimesAssumption ==
    /\ Interval \in Nat /\ PingInterval \in Nat /\ StaleTimeout \in Nat
    /\ MaxAttempts \in Nat /\ MaxCalls \in Nat
    /\ MaxBackoff \in Nat \ {0}
ASSUME PeersAssumption ==
    FailAtOnce \in BOOLEAN /\ HangPhases \subseteq {"handshake", "open"}
ASSUME CallsAssumption ==
    /\ IdleCalls \subseteq Calls
    /\ ErrorCalls \union HandlerCalls \subseteq Calls \ {"delete"}

VARIABLES
    alive,      \* the client object exists
    state,      \* _state
    nc,         \* _nc
    url,        \* _url is set
    attempts,   \* _reconnectAttemptCount
    since,      \* ticks from _lastReconnectAttempt, MaxBackoff for 0
    sincePing,  \* ticks from _lastPing
    sinceRecv,  \* ticks from _lastRecv
    phase,      \* how far each connection has come
    owned,      \* fn_data is the client
    sending,    \* send.len > 0
    draining,   \* is_draining
    closing,    \* is_closing
    hung,       \* the peer is gone, and nothing will say so
    todo,       \* what is left of this round: visits, then loop()
    budget,     \* calls the application will still make in it
    visiting,   \* the connection mg_mgr_poll is at,
    readable,   \* ... whether it may still have something to read,
    writable,   \* ... and whether it was found is_writable
    stack,      \* interrupted activations, innermost first
    broken,     \* a pointer to nothing was used
    calm        \* from here on the network works and the application rests

timeVars == <<since, sincePing, sinceRecv>>
clientVars == <<alive, state, nc, url, attempts>>
flagVars == <<owned, sending, draining, closing>>
connVars == <<phase, owned, sending, draining, closing, hung>>
loopVars == <<todo, visiting, readable, writable>>
modeVars == <<budget, broken, calm>>
vars == <<alive, state, nc, url, attempts, since, sincePing, sinceRecv, phase,
          owned, sending, draining, closing, hung, todo, budget, visiting,
          readable, writable, stack, broken, calm>>

States == {"DISCONNECTED", "CONNECTING", "CONNECTED", "CLOSING", "ERROR_STATE"}
Phases == {"free", "connecting", "handshake", "open"}

(***************************************************************************)
(* An activation: "attempt" is attemptReconnect() about to start,          *)
(* "attempted" is the rest of it after mg_ws_connect() made connection at. *)
(* The others are application handlers, with what the library does after   *)
(* them: "error" in onError(), "close" for setOnClose() and then "closed"  *)
(* for onClose() of the socket, "open" and "message".                      *)
(***************************************************************************)
Handlers == {"error", "close", "closed", "open", "message"}
Frame == [op : Handlers \union {"attempt", "attempted"},
          at : Conns \union {None}]
At(op, c) == [op |-> op, at |-> c]

Top == Head(stack)
TopIs(op) == stack # << >> /\ Top.op = op
Push(f, below) == <<f>> \o below

live == {c \in Conns : phase[c] # "free"}
free == Conns \ live
Dangling == nc # None /\ nc \in free
connected == nc # None /\ state = "CONNECTED"

Init ==
    /\ alive = TRUE /\ state = "DISCONNECTED" /\ nc = None
    /\ url = FALSE /\ attempts = 0
    /\ since = MaxBackoff /\ sincePing = 0 /\ sinceRecv = 0
    /\ phase = [c \in Conns |-> "free"]
    /\ owned = {} /\ sending = {} /\ draining = {} /\ closing = {} /\ hung = {}
    /\ todo = {} /\ budget = MaxCalls
    /\ visiting = None /\ readable = FALSE /\ writable = FALSE
    /\ stack = << >> /\ broken = FALSE /\ calm = FALSE
-----------------------------------------------------------------------------
(* Reconnecting *)

baseInterval == IF Interval = 0 THEN 1 ELSE Interval
maxFactor == IF MaxBackoff < baseInterval THEN 1 ELSE MaxBackoff \div baseInterval

Factor[n \in Nat] ==
    IF n = 0 THEN 1
    ELSE IF Factor[n - 1] < maxFactor THEN 2 * Factor[n - 1] ELSE Factor[n - 1]

backoffDelay ==
    IF baseInterval * Factor[attempts] > MaxBackoff THEN MaxBackoff
    ELSE baseInterval * Factor[attempts]

ASSUME AttemptsAssumption == Factor[MaxAttempts] >= maxFactor

MayAttempt ==
    url /\ state \in {"DISCONNECTED", "ERROR_STATE"} /\ since >= backoffDelay

CountAttempt ==
    /\ since' = 0
    /\ attempts' = IF attempts < MaxAttempts THEN attempts + 1 ELSE attempts
    /\ UNCHANGED <<sincePing, sinceRecv>>

\* attemptReconnect() returns early: wrong state, or the back-off period.
AttemptTooSoon ==
    /\ TopIs("attempt") /\ ~MayAttempt
    /\ stack' = Tail(stack)
    /\ UNCHANGED <<clientVars, timeVars, connVars, loopVars, modeVars>>

\* mg_ws_connect() returns no connection.
AttemptGetsNone ==
    /\ TopIs("attempt") /\ MayAttempt /\ (~calm \/ free = {})
    /\ CountAttempt
    /\ state' = "DISCONNECTED"
    /\ stack' = Tail(stack)
    /\ UNCHANGED <<alive, nc, url, connVars, loopVars, modeVars>>

\* A new connection, the request already in its send buffer.
NewConn(c, ph) ==
    /\ phase' = [phase EXCEPT ![c] = ph]
    /\ owned' = owned \union {c}
    /\ sending' = sending \union {c}

\* It is being resolved or connected, or connect() succeeded at once.
AttemptStarts(c, ph) ==
    /\ TopIs("attempt") /\ MayAttempt /\ c \in free
    /\ CountAttempt
    /\ NewConn(c, ph)
    /\ state' = IF ph = "handshake" THEN "CONNECTING" ELSE state
    /\ stack' = Push(At("attempted", c), Tail(stack))
    /\ UNCHANGED <<alive, nc, url, draining, closing, hung, loopVars, modeVars>>

\* connect() or the resolver fails at once: mg_error() before the return.
AttemptFails(c) ==
    /\ TopIs("attempt") /\ MayAttempt /\ c \in free /\ FailAtOnce /\ ~calm
    /\ CountAttempt
    /\ NewConn(c, "connecting")
    /\ closing' = closing \union {c}
    /\ state' = "ERROR_STATE"
    /\ stack' = <<At("error", c), At("attempted", c)>> \o Tail(stack)
    /\ UNCHANGED <<alive, nc, url, draining, hung, loopVars, modeVars>>

\* MongooseSocket::connect() and what the client makes of its result.
Attempted ==
    /\ TopIs("attempted")
    /\ IF connected THEN state' = "DISCONNECTED" /\ UNCHANGED nc
                    ELSE state' = "CONNECTING" /\ nc' = Top.at
    /\ stack' = Tail(stack)
    /\ UNCHANGED <<alive, url, attempts, timeVars, connVars, loopVars, modeVars>>
-----------------------------------------------------------------------------
(* What the application calls *)

Idle == stack = << >> /\ visiting = None
Sketch == Idle /\ todo \subseteq {Self}

May(op) ==
    /\ alive /\ ~broken /\ ~calm /\ budget > 0
    /\ \/ Sketch /\ op \in IdleCalls
       \/ TopIs("error") /\ op \in ErrorCalls
       \/ stack # << >> /\ Top.op \in Handlers \ {"error"} /\ op \in HandlerCalls

Call(op) == May(op) /\ budget' = budget - 1 /\ UNCHANGED <<broken, calm>>

\* Mutation of Connect: the old connection is let go of but not aborted.
ConnectWithoutAbort ==
    /\ Call("connect") /\ ~Dangling
    /\ owned' = owned \ {nc}
    /\ nc' = None
    /\ state' = IF nc # None THEN "DISCONNECTED" ELSE state
    /\ url' = TRUE /\ attempts' = 0 /\ since' = MaxBackoff
    /\ stack' = Push(At("attempt", None), stack)
    /\ UNCHANGED <<alive, sincePing, sinceRecv, phase, sending, draining, closing,
                   hung, loopVars>>

Connect ==
    /\ Call("connect") /\ ~Dangling
    /\ owned' = owned \ {nc}
    /\ closing' = closing \union ({nc} \ {None})
    /\ nc' = None
    /\ state' = IF nc # None THEN "DISCONNECTED" ELSE state
    /\ url' = TRUE /\ attempts' = 0 /\ since' = MaxBackoff
    /\ stack' = Push(At("attempt", None), stack)
    /\ UNCHANGED <<alive, sincePing, sinceRecv, phase, sending, draining, hung,
                   loopVars>>

\* Mutation of DoLoop: only what an error has ended is connected again.
DoLoopAfterErrors ==
    /\ stack' = IF state = "ERROR_STATE" /\ url /\ Interval > 0
                THEN Push(At("attempt", None), stack) ELSE stack
    /\ UNCHANGED <<clientVars, timeVars, connVars, visiting, readable, writable>>

DoLoop ==
    /\ stack' = IF /\ state \in {"DISCONNECTED", "ERROR_STATE"}
                   /\ url /\ Interval > 0
                THEN Push(At("attempt", None), stack) ELSE stack
    /\ UNCHANGED <<clientVars, timeVars, connVars, visiting, readable, writable>>

\* The sketch's own call, once a round, and one from a handler.
Loop ==
    /\ Idle /\ todo = {Self} /\ alive /\ ~broken
    /\ DoLoop
    /\ todo' = {} /\ UNCHANGED modeVars
LoopInHandler == stack # << >> /\ Call("loop") /\ DoLoop /\ UNCHANGED todo

\* Mutation of Disconnect: _nc is not tested.
DisconnectUnchecked ==
    /\ Call("disconnect") /\ ~Dangling
    /\ state' = "CLOSING"
    /\ sending' = IF connected THEN sending \union {nc} ELSE sending
    /\ draining' = draining \union {nc}
    /\ UNCHANGED <<alive, nc, url, attempts, timeVars, phase, owned, closing,
                   hung, loopVars, stack>>

Disconnect ==
    /\ Call("disconnect") /\ nc # None /\ ~Dangling
    /\ state' = "CLOSING"
    /\ sending' = IF connected THEN sending \union {nc} ELSE sending
    /\ draining' = draining \union {nc}
    /\ UNCHANGED <<alive, nc, url, attempts, timeVars, phase, owned, closing,
                   hung, loopVars, stack>>

Send ==
    /\ Call("send") /\ connected /\ ~Dangling
    /\ sending' = sending \union {nc}
    /\ UNCHANGED <<clientVars, timeVars, phase, owned, draining, closing, hung,
                   loopVars, stack>>

\* Mutation of Delete: the destructor of the socket leaves fn_data alone.
DeleteAttached ==
    /\ Call("delete") /\ ~Dangling
    /\ alive' = FALSE /\ nc' = None /\ url' = FALSE
    /\ state' = IF nc # None THEN "CLOSING" ELSE state
    /\ sending' = IF connected THEN sending \union {nc} ELSE sending
    /\ draining' = draining \union ({nc} \ {None})
    /\ todo' = {}
    /\ UNCHANGED <<attempts, timeVars, phase, owned, closing, hung, visiting,
                   readable, writable, stack>>

\* The destructor: disconnect(), then ~MongooseSocket() lets go of _nc.
Delete ==
    /\ Call("delete") /\ ~Dangling
    /\ alive' = FALSE /\ nc' = None /\ url' = FALSE
    /\ state' = IF nc # None THEN "CLOSING" ELSE state
    /\ sending' = IF connected THEN sending \union {nc} ELSE sending
    /\ draining' = draining \union ({nc} \ {None})
    /\ closing' = closing \union (owned \intersect {nc})
    /\ owned' = owned \ {nc}
    /\ todo' = {}
    /\ UNCHANGED <<attempts, timeVars, phase, hung, visiting, readable, writable,
                   stack>>

\* Any of these when _nc points at a connection that has been freed.
UseDangling ==
    /\ \/ May("connect") \/ May("disconnect") \/ May("delete")
       \/ May("send") /\ connected
    /\ Dangling
    /\ broken' = TRUE
    /\ UNCHANGED <<clientVars, timeVars, connVars, loopVars, budget, stack, calm>>
-----------------------------------------------------------------------------
(* A visit of the event loop *)

pingDue == state = "CONNECTED" /\ PingInterval > 0 /\ sincePing >= PingInterval

\* Mutation of isStale: the wrong timer.
isStaleByPing ==
    state = "CONNECTED" /\ StaleTimeout > 0 /\ sincePing > StaleTimeout

isStale == state = "CONNECTED" /\ StaleTimeout > 0 /\ sinceRecv > StaleTimeout

\* onPoll(): a PING, and disconnect() from a peer that has gone silent.
OnPoll ==
    /\ sincePing' = IF pingDue /\ connected THEN 0 ELSE sincePing
    /\ sending' = IF (pingDue \/ isStale) /\ connected
                  THEN sending \union {nc} ELSE sending
    /\ IF isStale /\ nc # None
       THEN state' = "CLOSING" /\ draining' = draining \union {nc}
       ELSE UNCHANGED <<state, draining>>

\* mg_mgr_poll comes to c: MG_EV_POLL first.
Visit(c) ==
    /\ Idle /\ c \in todo /\ ~broken
    /\ c \in owned => alive /\ ~(Dangling /\ (pingDue \/ isStale))
    /\ todo' = todo \ {c} /\ visiting' = c
    /\ readable' = TRUE
    /\ writable' = (c \in sending /\ phase[c] # "connecting")
    /\ IF c \in owned THEN OnPoll
                      ELSE UNCHANGED <<state, sincePing, sending, draining>>
    /\ UNCHANGED <<alive, nc, url, attempts, since, sinceRecv, phase, owned,
                   closing, hung, stack, modeVars>>

\* ... and onPoll() belongs to an object, or uses a connection, that is gone.
VisitBreaks(c) ==
    /\ Idle /\ c \in todo \intersect owned /\ ~broken
    /\ ~alive \/ (Dangling /\ (pingDue \/ isStale))
    /\ broken' = TRUE
    /\ UNCHANGED <<clientVars, timeVars, connVars, loopVars, budget, stack, calm>>

\* The network has something for c.  A connection whose fn_data was cleared
\* is flagged is_closing at the same time, so only the owned ones are read.
Ready(c) ==
    /\ stack = << >> /\ visiting = c /\ readable /\ ~broken
    /\ c \in owned \ (closing \union hung)
Reads(c) ==
    Ready(c) /\ readable' = FALSE /\ UNCHANGED <<todo, visiting, writable>>

\* mg_error() -> MongooseSocket::processEvent() -> onError().
MgError(c) ==
    /\ Reads(c) /\ ~calm
    /\ closing' = closing \union {c}
    /\ state' = "ERROR_STATE"
    /\ stack' = <<At("error", c)>>
    /\ UNCHANGED <<alive, nc, url, attempts, timeVars, phase, owned, sending,
                   draining, hung, modeVars>>

\* Mutation of Connects: TCP is taken for the WebSocket.
ConnectsOpen(c) ==
    /\ Reads(c) /\ phase[c] = "connecting"
    /\ phase' = [phase EXCEPT ![c] = "handshake"]
    /\ state' = "CONNECTED"
    /\ UNCHANGED <<alive, nc, url, attempts, timeVars, flagVars, hung, stack,
                   modeVars>>

Connects(c) ==
    /\ Reads(c) /\ phase[c] = "connecting"
    /\ phase' = [phase EXCEPT ![c] = "handshake"]
    /\ state' = "CONNECTING"
    /\ UNCHANGED <<alive, nc, url, attempts, timeVars, flagVars, hung, stack,
                   modeVars>>

ConnectFails(c) == phase[c] = "connecting" /\ MgError(c)

\* 101: MG_EV_WS_OPEN.  The peer answers only what it has been asked.
Answered(c) == phase[c] = "handshake" /\ c \notin sending

HandshakeSucceeds(c) ==
    /\ Reads(c) /\ Answered(c)
    /\ phase' = [phase EXCEPT ![c] = "open"]
    /\ state' = "CONNECTED" /\ attempts' = 0
    /\ sincePing' = 0 /\ sinceRecv' = 0
    /\ stack' = <<At("open", c)>>
    /\ UNCHANGED <<alive, nc, url, since, flagVars, hung, modeVars>>

HandshakeFails(c) == Answered(c) /\ MgError(c)

\* End of the stream or a reset: mongoose reports no error for either.
PeerCloses(c) ==
    /\ Reads(c) /\ phase[c] \in {"handshake", "open"} /\ ~calm
    /\ closing' = closing \union {c}
    /\ UNCHANGED <<clientVars, timeVars, phase, owned, sending, draining, hung,
                   stack, modeVars>>

Receives(c) ==
    /\ Reads(c) /\ phase[c] = "open"
    /\ sinceRecv' = 0
    /\ UNCHANGED <<alive, nc, url, attempts, since, sincePing, phase, owned,
                   closing, hung, budget, calm>>

Message(c) ==
    /\ Receives(c)
    /\ stack' = <<At("message", c)>>
    /\ UNCHANGED <<state, sending, draining, broken>>

Pong(c) == Receives(c) /\ UNCHANGED <<state, sending, draining, stack, broken>>

\* mg_ws_cb answers on c, then handleEvent() answers once more on _nc.
Ping(c) ==
    /\ Receives(c)
    /\ IF nc = None \/ Dangling THEN broken' = TRUE /\ UNCHANGED sending
       ELSE sending' = sending \union {c, nc} /\ UNCHANGED broken
    /\ UNCHANGED <<state, draining, stack>>

\* A CLOSE frame: handleEvent(), then mg_ws_cb echoes it and drains.
CloseFrame(c) ==
    /\ Receives(c) /\ ~calm
    /\ state' = "CLOSING"
    /\ sending' = sending \union {c} /\ draining' = draining \union {c}
    /\ UNCHANGED <<stack, broken>>

UnknownOpcode(c) == phase[c] = "open" /\ MgError(c)

\* The end of the visit: what was queued before it has been written.  Once
\* the world is calm the network answers by the next visit.
Written(c) == IF writable THEN sending \ {c} ELSE sending
Closes(c) == c \in closing \/ (c \in draining /\ c \notin Written(c))
Awaited(c) == calm /\ Ready(c) /\ (phase[c] = "connecting" \/ Answered(c))

Forget(c) ==
    /\ phase' = [phase EXCEPT ![c] = "free"]
    /\ owned' = owned \ {c} /\ draining' = draining \ {c}
    /\ closing' = closing \ {c} /\ hung' = hung \ {c}

EndsVisit(c) ==
    /\ stack = << >> /\ visiting = c /\ ~broken
    /\ visiting' = None /\ readable' = FALSE /\ writable' = FALSE
    /\ UNCHANGED todo

Stays(c) ==
    /\ EndsVisit(c) /\ ~Closes(c) /\ ~Awaited(c)
    /\ sending' = Written(c)
    /\ UNCHANGED <<clientVars, timeVars, phase, owned, draining, closing, hung,
                   stack, modeVars>>

\* mg_close_conn: MG_EV_CLOSE to the owner, who first drops _nc.
CloseConn(c) ==
    /\ EndsVisit(c) /\ Closes(c)
    /\ sending' = sending \ {c}
    /\ IF c \in owned
       THEN /\ nc' = IF nc = c THEN None ELSE nc
            /\ stack' = <<At("close", c)>>
            /\ UNCHANGED <<phase, owned, draining, closing, hung>>
       ELSE Forget(c) /\ UNCHANGED <<nc, stack>>
    /\ UNCHANGED <<alive, state, url, attempts, timeVars, modeVars>>
-----------------------------------------------------------------------------
(* A handler returns, and the library goes on *)

\* Mutation of cleanupConnection: the state stays.
cleanupPointerOnly == nc' = None /\ UNCHANGED state

cleanupConnection == nc' = None /\ state' = "DISCONNECTED"

\* Mutation of ErrorReturns: fn_data is not cleared.
ErrorReturnsAttached ==
    /\ TopIs("error")
    /\ cleanupConnection
    /\ stack' = Tail(stack)
    /\ UNCHANGED <<alive, url, attempts, timeVars, connVars, loopVars, modeVars>>

ErrorReturns ==
    /\ TopIs("error")
    /\ owned' = owned \ {Top.at}
    /\ cleanupConnection
    /\ stack' = Tail(stack)
    /\ UNCHANGED <<alive, url, attempts, timeVars, phase, sending, draining,
                   closing, hung, loopVars, modeVars>>

CloseReturns ==
    /\ TopIs("close")
    /\ cleanupConnection
    /\ stack' = Push(At("closed", Top.at), Tail(stack))
    /\ UNCHANGED <<alive, url, attempts, timeVars, connVars, loopVars, modeVars>>

ClosedReturns ==
    /\ TopIs("closed")
    /\ Forget(Top.at)
    /\ stack' = Tail(stack)
    /\ UNCHANGED <<clientVars, timeVars, sending, loopVars, modeVars>>

HandlerReturns ==
    /\ TopIs("open") \/ TopIs("message")
    /\ stack' = Tail(stack)
    /\ UNCHANGED <<clientVars, timeVars, connVars, loopVars, modeVars>>
-----------------------------------------------------------------------------
(* The rest of the world *)

Hang(c) ==
    /\ Sketch /\ ~broken /\ ~calm /\ phase[c] \in HangPhases /\ c \notin hung
    /\ hung' = hung \union {c}
    /\ UNCHANGED <<clientVars, timeVars, phase, flagVars, loopVars, stack,
                   modeVars>>

CalmDown ==
    /\ Sketch /\ ~broken /\ ~calm
    /\ calm' = TRUE /\ budget' = 0
    /\ UNCHANGED <<clientVars, timeVars, connVars, loopVars, stack, broken>>

Later(t, ticks, bound) == IF t < bound THEN t + ticks ELSE t

\* The next round of the sketch's loop: poll(), which visits what exists
\* now, and loop().  Time may have gone on in between.
Round(ticks) ==
    /\ Idle /\ todo = {} /\ ~broken
    /\ todo' = IF alive THEN live \union {Self} ELSE live
    /\ budget' = IF calm THEN 0 ELSE MaxCalls
    /\ since' = Later(since, ticks, MaxBackoff)
    /\ sincePing' = Later(sincePing, ticks, PingInterval)
    /\ sinceRecv' = Later(sinceRecv, ticks, StaleTimeout + 1)
    /\ UNCHANGED <<clientVars, connVars, visiting, readable, writable, stack,
                   broken, calm>>

Reconnecting ==
    \/ AttemptTooSoon \/ AttemptGetsNone \/ Attempted
    \/ \E c \in Conns : AttemptFails(c)
                        \/ \E ph \in {"connecting", "handshake"} : AttemptStarts(c, ph)
Returns == ErrorReturns \/ CloseReturns \/ ClosedReturns \/ HandlerReturns
ConnectEnds(c) == Connects(c) \/ ConnectFails(c)
HandshakeEnds(c) == HandshakeSucceeds(c) \/ HandshakeFails(c)
Traffic(c) == \/ Message(c) \/ Pong(c) \/ Ping(c) \/ CloseFrame(c)
              \/ UnknownOpcode(c) \/ PeerCloses(c)
Poll(c) == \/ Visit(c) \/ VisitBreaks(c) \/ ConnectEnds(c) \/ HandshakeEnds(c)
           \/ Traffic(c) \/ Stays(c) \/ CloseConn(c)

System ==
    \/ Reconnecting \/ Returns \/ Loop
    \/ \E c \in Conns : Poll(c)
    \/ Round(0) \/ Round(1)

Application ==
    \/ Connect \/ LoopInHandler \/ Disconnect \/ Send \/ Delete \/ UseDangling

Next ==
    \/ System \/ Application
    \/ \E c \in Conns : Hang(c)
    \/ CalmDown

Spec == Init /\ [][Next]_vars

(***************************************************************************)
(* The sketch calls poll() and loop() again and again, what is called      *)
(* returns, and time goes on.  CalmDown is not fair: the property that     *)
(* needs it asks for it.                                                   *)
(***************************************************************************)
LiveSpec == Spec /\ WF_vars(System) /\ SF_vars(Round(1))
-----------------------------------------------------------------------------
(* Properties *)

ClientOK ==
    /\ alive \in BOOLEAN /\ state \in States /\ nc \in Conns \union {None}
    /\ url \in BOOLEAN /\ attempts \in 0 .. MaxAttempts
TimesOK ==
    /\ since \in 0 .. MaxBackoff /\ sincePing \in 0 .. PingInterval
    /\ sinceRecv \in 0 .. (StaleTimeout + 1)
ConnsOK ==
    /\ phase \in [Conns -> Phases]
    /\ owned \subseteq Conns /\ sending \subseteq Conns
    /\ draining \subseteq Conns /\ closing \subseteq Conns /\ hung \subseteq Conns
LoopOK ==
    /\ todo \subseteq Conns \union {Self}
    /\ visiting \in Conns \union {None}
    /\ readable \in BOOLEAN /\ writable \in BOOLEAN
ModeOK == budget \in 0 .. MaxCalls /\ broken \in BOOLEAN /\ calm \in BOOLEAN

\* The types of the client's fields, of the connections, of the round and of the
\* interrupted activations, in every handler too.
TypeOK == ClientOK /\ TimesOK /\ ConnsOK /\ LoopOK /\ ModeOK /\ stack \in Seq(Frame)

\* Between callbacks the client hears at most one connection, the one _nc
\* points at; no connection it has given up can still change its state.
OneConnectionHeard == stack = << >> /\ alive => owned \subseteq {nc}

\* Outside DISCONNECTED and ERROR_STATE the client waits for an event, and
\* the connection that is to bring it exists and is still connected to the
\* client: nothing else can ever move the state on (loop() does not).
WaitsForAnEvent ==
    stack = << >> /\ alive /\ state \in {"CONNECTING", "CONNECTED", "CLOSING"} =>
        nc \in owned \intersect live

\* A connection that nobody hears any more is about to be closed, so that
\* sockets are not used up by reconnecting.
UnheardIsClosing == live \ owned \subseteq closing

\* connected() promises send() an upgraded connection, in every handler too.
ConnectedIsOpen == connected => nc \in live /\ phase[nc] = "open"

\* No call and no event uses a connection or a client that is gone.
NoUndefinedBehaviour == ~broken

\* Once the network works, a client that was ever told to connect is
\* connected again and again, whatever happened before.
Up == connected /\ nc \in live /\ phase[nc] = "open"
Reconnects == (calm /\ url /\ alive) ~> Up

\* The peer of an open connection vanishes without a word: PING, the stale
\* timeout and the drain between them get rid of the connection.
LostPeerNoticed == \A c \in Conns : (c \in hung /\ phase[c] = "open") ~> c \notin hung
=============================================================================
