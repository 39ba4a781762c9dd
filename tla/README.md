# A formal model of ArduinoMongoose

ArduinoMongoose wraps the vendored Mongoose 7.23 event loop in C++ classes:
nameserver selection and failover, sockets, an HTTP server and client, a
WebSocket client, MQTT, SNTP and mDNS. Everything runs on one thread:
`Mongoose.poll()` visits every connection and calls back into the classes,
which call the application's handlers, which call the classes again. There
are no locks and no data races here. What goes wrong in such code is
**re-entrancy**: a handler runs in the middle of a loop over a list, in the
middle of a constructor, between the flagging of a connection and its close,
and changes what the code that called it is about to use. The models make
those nestings explicit and let TLC take every one of them.

Paths below are relative to the repository root (`src/`).

## Inventory

| Component | State it keeps | Operations | Hard part | What makes it correct |
|---|---|---|---|---|
| `MongooseCore` (`src/MongooseCore.cpp`) | nameserver table, active slot, `_active` URL, time of last failover, the manager | `begin`, `end`, `setNameserver(s)`, `dnsError`, `useNameserver`, `closeResolver` | `closeResolver()` fails lookups from inside an error callback; the deferred close of the old resolver | a lookup ends; failover reaches a server that answers; nothing touches a freed list entry |
| event loop and resolver of `src/mongoose.c` (vendored) | `mgr.conns`, `active_dns_requests`, `mgr.dns4` | `mg_mgr_poll`, `mg_error`, `mg_close_conn`, `mg_connect_svc`, `sendnsreq`, `dns_cb`, `mg_mgr_free` | list walks with callbacks inside | entries point at live connections |
| `MongooseSocket` | `_nc`, handlers, TLS options, `data[0]` | `connect`, `disconnect`, `abort`, event dispatch, destructor | who owns a connection when: `fn_data` handed over, cleared, deleted | no event reaches an object that is gone; `_nc` is never dangling |
| `MongooseWebSocketClient` | state, URL, reconnect attempt and interval, ping and receive times | `connect`, `disconnect`, `loop`, `send`, callbacks | a connect that fails while it is being made; `connect()` from a handler; back-off; stale timeout | it reconnects after a loss; the state agrees with the connection |
| `MongooseHttpServer`, `…Endpoint`, `…Request` | endpoint list, one request object per connection, `_completed`, `_keepAlive`, idle time | header match, dispatch, `send`, `sendBody`, `completeRequest`, idle reaper, hand-over to the next request | keep-alive: request N+1 arrives while N is being retired; headers are reported again for every read of a body | every request is answered once, by its own endpoint, in order |
| `MongooseHttpServerRequestUpload` | expected and received bytes, streaming flag | constructor, `onReceive`, `handleMessage` | body bytes inside the constructor; the end of the body | BEGIN, the bytes in order, exactly one END |
| `MongooseHttpWebSocketConnection` | as a request | upgrade, `send`, `sendAll` | connection list walk over mixed owners | messages only reach upgraded connections |
| `MongooseHttpClientRequest` | URI, body, stream counters, connect deadline | `send`, callbacks, self-deletion | chunks and aborts from handlers; deletes itself | body bytes in order, one `onResponse` |
| `MongooseMqttClient` | `_connected`, `_connackCode` | `connect`, `publish`, `subscribe`, `disconnect` | refused CONNACK, close, reconnect from a handler | one `onDisconnect` per accepted connection |
| `MongooseSntpClient` | `_onTime` | `getTime` | answer, expiry and abort | the client can ask again |
| `MongooseMdns` | services, browse schedule, record cache | `begin`, `end`, `addService`, `browse`, poll | caps, expiry, retries | bounded cache, the newest data |
| `MongooseString`, message views, glue | none | | | |

The components meet in three places: `mg_error()` → `MongooseSocket::processEvent()`
→ `Mongoose.dnsError()` → `closeResolver()` → `mg_error()` of *other* sockets;
`mgr.conns`, which the event loop, `closeResolver()`, `allowKeepAlive()` and
`sendAll()` all walk; and `nc->fn_data`, which says who hears the next event.

## Plan

1. `MongooseCore` — resolver and failover, on the event loop that calls it. *Done.*
   `MongooseCoreProofs`, `MongooseLookupProofs` — its type invariant, the server in
   use, the list of lookups, the retired resolver, `end()`. *Done.*
2. `MongooseWebSocketClient` — with the `MongooseSocket` ownership of `_nc` and
   `fn_data` underneath it; liveness: it gets back to CONNECTED when the peer lets
   it. *Done.* `MongooseWebSocketProofs` — its type
   invariant, who hears which connection, and that `_nc` and `_state` agree. *Done.*
3. `MongooseHttpServer` — one kept-alive connection, pipelined requests in
   pieces, shown to implement the abstract `MongooseHttpExchange`. *Done.*
   `MongooseHttpProofs`, `MongooseHttpRefinement` — its type invariant, and the
   refinement for every number of requests. *Done.*
4. `MongooseHttpBody` — uploads to the server and responses to the client, shown to
   implement the abstract `MongooseBodyStream` for every split into reads. *Done.*
   `MongooseHttpBodyProofs` — its type invariant, and the refinement. *Done.*
5. `MongooseClients` — MQTT, SNTP and the HTTP request, three classes on one
   `MongooseSocket`; liveness of their deadlines. *Done.* `MongooseClientsProofs` — its
   type invariant and five safety properties. *Done.*
6. `MongooseMdns` — the responder, lookups of `.local` names and the browse. *Done.*
   `MongooseMdnsProofs` — its type invariant, the browse table and the listener. *Done.*

What is left: several server connections at a time, and the liveness properties, which
the prover does not reach.

No module composes two of these. They meet in calls that return a Boolean or run
one handler, and each model takes the other side as a free choice: that a lookup
fails, and when, is `MongooseCore`; that it failed is an action of the clients.
`MongooseHttpBody` starts where `MongooseHttpServer` takes a body for one half of a
request.

## MongooseCore

`MongooseCore.tla` models `src/MongooseCore.cpp` together with what it drives in
`mongoose.c`. The correspondence:

| Variables | Code |
|---|---|
| `nameserver`, `count`, `active`, `activeUrl`, `url`, `window` | `_nameserver`, `_nameserverCount`, `_activeNameserver`, `_active`, the text `mgr.dns4.url` points at, and the ticks left of `now - _lastFailover < dnstimeout` |
| `dns4`, `dns4Closing`, `retired` | the server `mgr.dns4.c` talks to, its `is_closing`; a resolver that `closeResolver()` detached and that is still to be freed |
| `live`, `owned`, `resolving`, `closing` | members of `mgr->conns`, those whose `fn_data` is a socket, and the two flags |
| `lookups`, `ttl`, `asked`, `current` | `active_dns_requests`, the ticks to `d->expire`, and (for the properties) the server the query went to and whether it left through today's resolver |
| `errors` | history: how many `MG_EV_ERROR`s an owner has had |
| `running`, `pass`, `ahead`, `visiting` | between `begin()` and `end()`; what this `mg_mgr_poll` has yet to visit, which connections come before the resolver, and where in the resolver's visit it is |
| `stack` | the C++ call stack: loops and functions that a callback has interrupted |

A callback is a frame on `stack`. `MgError` flags a connection and, when it has an
owner, performs `dnsError()` and pushes `onError()`; `dnsError()` may push a
`closeResolver()` loop ("retire"), whose own `mg_error` calls push further frames.
While a "handler" frame is on top the application may make the calls the
configuration allows. `Walk` is one step of the loop in `dns_cb`; `WalkFreed`,
`AnswerFreed`, `RetireNull` and `OnErrorDeleted` are what happens when the frame
below finds its object gone: the model stops there (`running \in Broken`),
because the C++ program has no defined behaviour from there on. These outcomes
are reachable and `NoUndefinedBehaviour` says when they are not.

`Default` is the URL of `mg_mgr_init()`, `Responsive` the servers that answer.
A client gives up after `ClientTimeout` ticks (`MongooseHttpClientRequest::onPoll`).
`IdleCalls`, `HandlerCalls` and `RetireCalls` say what the application calls
between polls, from handlers, and from handlers that `closeResolver()` waits for.

### Runs

| Run | Question | Result |
|---|---|---|
| `dns_safety` | lists, resolver and stack through every nesting of callbacks | `TypeOK`, `EntriesPointAtConnections`, `NoOrphanedLookup`, `ResolverFollowsUrl`, `CloseSparesSuccessor`, `RetireErrsOnce` hold |
| `dns_rotation` | is it the right server that is rotated away from; restarts | `RotationBlamesActive`, `NothingOutlivesEnd`, `ConfiguredServerInUse` hold when the resolver's socket does not fail and handlers start nothing |
| `dns_single` | does any interleaving touch a freed object with one server | `NoUndefinedBehaviour` holds |
| `dns_liveness` | does everything end, is a good server found | `LookupsEnd`, `FailoverReachesResponsive` hold if handlers inside `closeResolver()` start no lookup and clients wait longer than the DNS timeout |
| `find_burst` | "a burst of stalled lookups moves the active server once" | violated: `dns_cb` goes on at an entry that the rotation freed |

Bounds. Two connections are enough for every pairwise interaction: the one that
times out and the one whose entry is next; more of them repeat the same walk.
Two servers are the smallest table that rotates, three the smallest in which a
rotation can skip one. `DnsTimeout = 1` tick puts expiry, the failover window
and fresh lookups in different ticks; a lookup starts at `DnsTimeout + 1`
because the code tests `now > d->expire`. `ClientTimeout = 3` is longer than
that. The connections are symmetric, and the
safety runs use that.

Fairness (`LiveSpec`): weak for callbacks that are under way (`Activation`: C++
code runs to its end), for the event loop (the sketch calls `Mongoose.poll()` in
`loop()` for ever), and for `Begin`; strong for `Tick`, since the clock advances
however often the loop is busy when we look. Nothing is assumed of the
application.

### What the resolver does that its comments do not say

Besides `find_burst`, TLC shows these in the same model, with the calls named; they
have no run of their own.

- A lookup that a handler starts inside `closeResolver()` still goes through the
  resolver that is being retired, which is unhooked only afterwards
  (`MongooseCore.cpp:181`). Nobody answers it, and it is failed only if another resolver
  happens to exist when it expires (`DnsLiveness.cfg` with two connections, servers `a`
  and `b`, `HandlerCalls = RetireCalls = {"lookup"}`; `LookupsEnd` is violated).
- The HTTP client gives a connect up after 1500 ms (`MongooseHttpClient.cpp:278`), the
  DNS timeout is 3000 ms (`MongooseCore.h:43`): a client whose lookups never reach their
  timeout never makes `dnsError()` rotate, and the good server is not found
  (`ClientTimeout = 1`, `DnsTimeout = 2`; `FailoverReachesResponsive` is violated).

- A handler that reconfigures from inside `closeResolver()` nests a second one,
  and the outer then stores through `mgr.dns4.c == nullptr`
  (`MongooseCore.cpp:179`; `RetireCalls` with "configure", `running = "null resolver"`).
  If it does so without a change of URL, the outer `useNameserver()` still
  installs the slot it was called with, and `nameserver()` and `_activeNameserver`
  disagree.
- A handler run by `dnsError()` that deletes the socket whose error it was lets
  `processEvent()` call `onError()` on it (`MongooseSocket.cpp:123-124`;
  `RetireCalls` with "delete", `running = "deleted socket"`).
- When the resolver's own socket fails inside the failover window, a lookup asked
  of the old server can time out after the window and rotate away from a server
  that never saw it (`MongooseCore.h:131-133`; `dns_rotation` with `ResolverMayFail`).
- A negative answer read in the visit in which the lookup timed out is a second
  error for the same owner: `dns_cb` looks at `is_resolving` only
  (`mongoose.c:1962`; `errors[c] = 2`).
- `closeResolver()` fails lookups of `.local` names, which were never asked of the
  server that is retired (`MongooseCore.cpp:154,171`).
- `_active` survives `end()`/`begin()`: emptying the table before `begin()` and
  setting the old server again leaves an open resolver with the built-in default
  (`MongooseCore.cpp:138`).
- What an `onClose` handler opens during the single poll of `mg_mgr_free()` is
  never closed (`mongoose.c:8297-8298`; with `HandlerCalls = {"lookup", "abort", "delete"}`
  run `dns_rotation` violates `NothingOutlivesEnd`).

A mutant that did *not* break anything is worth recording: rotating for every
timeout of a burst, ignoring the window, changes nothing that the properties see,
because `closeResolver()` already fails and cancels every lookup of the retired
server. The window matters only for lookups that `closeResolver()` does not reach.

### Proofs

`MongooseCoreProofs.tla` and `MongooseLookupProofs.tla`; every theorem holds for all
constants that satisfy the four named assumptions of `MongooseCore`.

- `TypeCorrect` — `Spec => []TypeOK`. `TypeOK` is inductive: one lemma per action
  group, one per helper (`UseNameserver`, `DnsError`, `MgError`) because the helpers
  prime `stack` with a continuation that must itself be well typed.
- `EntriesCorrect` — `Spec => []EntriesPointAtConnections`. Inductive with `TypeOK`:
  the only step that frees a connection, `CloseConn`, cancels its lookup, and a
  connection stops resolving only where it is cancelled or flagged.
- `CloseSpares` — `Spec => CloseSparesSuccessor`, from `SpareInv`: on the stack of a
  "fail" walk every entry still to be visited is not `current` (`FailsHoldDead`). It
  is not inductive alone: one must know that new lookups never join a walk in
  progress, which is how the entries are linked.
- `NoOrphans` — `Spec => []NoOrphanedLookup`, *assuming* `"lookup" \notin RetireCalls`.
  The assumption is needed: a lookup started there is the first item of the list above. `OrphanInv` says
  that a waiting lookup is current, or that a walk or a `closeResolver()` on the
  stack still has it ahead (`RetiresHoldWaiting`, `WaitingCovered`), and that a "close"
  frame is only ever the last one.

- `ErrsOnce` — `Spec => RetireErrsOnce`: whoever has heard of an error is still in the
  list and about to be closed (`ErrsInv`), and `closeResolver()` passes over those.
- `ResolverFollows` — `ResolverFollowsUrl`, *assuming* `<< >> \notin Tables` (see `_active`
  above). `UrlInv` adds that `_active`, once set, reads the same as `mgr.dns4.url`, and
  that a table without entries was never filled: otherwise `useNameserver()` could
  take its shortcut with a resolver of another server open.
- `ConfiguredCorrect` — `ConfiguredServerInUse`, *assuming* `"configure" \notin RetireCalls`
  (the nested `closeResolver()` above). `ServerInv` says that there is at most one
  "retire" frame, for the slot that is active, and only errors and handlers above it.
- `EndsEmpty` — `NothingOutlivesEnd`, *assuming* that no handler opens a connection
  (what an `onClose` handler opens is never closed). `EndInv` says that while the last
  poll runs all of `mgr.conns` is flagged, and what is not closed yet is either still to be
  visited or the one connection of the "close" frame.
- `OneServerCorrect` — `NoUndefinedBehaviour`, *assuming* `OneServerOnly`: tables of at most
  one server, and no handler that configures. Then no walk interrupts another
  (`FlatInv`: one activation and at most one error or handler on it), and what the lower
  one will use nobody else can take. With two servers it is false, as `find_burst`
  shows.
- `BlamesActive` — `RotationBlamesActive`, *assuming* `Settled`: no table is empty, the resolver's
  socket does not fail, and no handler that `closeResolver()` waits for starts a
  lookup. Without any one of the three TLC finds it violated: by the item on `_active`, the
  one on the resolver's own socket, and the first one of the list above. `BlameInv` says
  that every lookup was sent to the server that `url` names (`Served`): the URL changes
  only when there is no lookup, because a "retire" frame has every one ahead of it
  (`RetiresHoldAll`) and each error cancels its own. `end()` breaks this, but after it no
  walk finds a timeout any more (`PastTimeouts`). The ages of the lookups do not matter.

Only model-checked: `LookupsEnd` and `FailoverReachesResponsive` (the prover does not do
fairness).

## MongooseWebSocketClient

`MongooseWebSocketClient.tla` models `src/MongooseWebSocketClient.cpp`, what it uses of
`src/MongooseSocket.cpp` (`connect`, `abort`, the event handler, the destructor), and
the life of a connection in `mongoose.c` as far as the client can observe it.

| Variables | Code |
|---|---|
| `alive`, `state`, `nc`, `url`, `attempts` | the object, `_state`, `_nc`, `_url != nullptr`, `_reconnectAttemptCount` |
| `since`, `sincePing`, `sinceRecv` | ticks from `_lastReconnectAttempt`, `_lastPing` and `_lastRecv`, counted up to the value they are compared with |
| `phase`, `owned`, `sending`, `draining`, `closing` | per connection: being connected, handshake or upgraded; `fn_data` is this client; `send.len > 0`; the two flags |
| `hung` | the environment: a peer that is gone without a FIN or RST |
| `todo`, `budget` | one round of the sketch: the visits of its `Mongoose.poll()` still to come, its `loop()`, and how much more the application will call in it |
| `visiting`, `readable`, `writable` | the connection `mg_mgr_poll` is at, and what it found it ready for |
| `stack` | interrupted C++ activations (see the comment above `Frame`) |
| `broken`, `calm` | a freed object was used; from here on the network works and the application rests |

An action is what runs between two points at which the application, the network or
the event loop decides what comes next. `attemptReconnect()` is two frames,
"attempt" and "attempted", because the library may call `onError()` between them: inside
`mg_ws_connect()`, before `MongooseSocket::connect()` stores the connection
(`AttemptFails`). `ErrorReturns`, `CloseReturns` and `ClosedReturns` are what the
library still does when the handler has returned; a handler may itself have started
the next attempt by then.

Abstractions. A visit reads one event; what was queued before the visit is written in
it, what is queued during it in the next. A lookup that fails is a connect that fails
(`ConnectFails`; when lookups fail is `MongooseCore`). TLS, the extra headers and the
contents of messages are left out. The result of `mg_ws_send` is not used by the client.

### Runs

| Run | Question | Result |
|---|---|---|
| `ws_client` | do client and connection agree; does it come back | `OneConnectionHeard`, `WaitsForAnEvent`, `ConnectedIsOpen`, `NoUndefinedBehaviour`, `Reconnects`, `LostPeerNoticed` hold if `connect()` does not fail at once and `onError` does not reconnect |
| `ws_faults` | what is left of it when everything is allowed | `TypeOK`, `UnheardIsClosing` hold |
| `find_ws_stuck` | "Automatic reconnection with exponential backoff" | violated: after a connect that fails inside `mg_ws_connect()` the client stays in CONNECTING for ever |

Bounds. Three connections let two old ones be on their way out while a third is
made; `ws_faults` uses two, and one call a round, because handlers nest there. `MaxBackoff = 3`
ticks of `Interval = 1` gives the delays 1, 2, 3, the last of them capped;
`MaxAttempts` is where `attempts` no longer changes the delay, which
`AttemptsAssumption` states and TLC evaluates. `MaxCalls` bounds the calls of one
round of the sketch, not of a run. Once calm, the network answers by the next visit.
`ws_client` does not use symmetry because it checks liveness; `ws_faults` does.
`ws_faults` and `find_ws_stuck` switch the deadlock check off: with `broken` the model
stops, as the program has no defined behaviour from there on.

Fairness (`LiveSpec`): weak for `System`, everything the library and the sketch's loop
do: the sketch calls `Mongoose.poll()` and `loop()` again and again. Strong for
`Round(1)`: time passes, although many rounds take no time. `CalmDown` is not fair:
`Reconnects` says what follows if the network ever recovers for good.

### What the client does that its comments do not say

TLC shows these in the same model with the constants named.

- A peer that vanishes between the TCP connect and the 101 leaves the client in
  CONNECTING for ever: there is no timeout in that state (`HangPhases` with
  "handshake" violates `Reconnects`).
- `connect()` or `loop()` from the `onError` handler makes a connection that
  `cleanupConnection()` then forgets (`MongooseWebSocketClient.cpp:156`, `:214`). It still
  reports to the client, next to the one `loop()` makes; a PING on it is answered on a
  null `_nc`, or on the other connection (`ErrorCalls` with "connect"; `OneConnectionHeard`,
  `ConnectedIsOpen` and `NoUndefinedBehaviour` are violated).
- `connect()` from the `setOnClose` handler does nothing: the state is not yet
  DISCONNECTED when it is called.
- `disconnect()` does not stop `loop()`: the URL is kept, and the next `loop()` after the
  close connects again.
- The `setOnClose` handler is not called after an error, since `fn_data` is cleared
  before the close, although `MongooseWebSocketClient.h:193` says "Called on clean close or error disconnect".
- The back-off doubles only while the factor is below `60000 / interval`, so for
  intervals whose quotient truncates to a power of two the cap is never reached (7000 ms: at most 56000 ms).
- A PING is answered twice, by `mg_ws_cb` and by the client.

### Proofs

`MongooseWebSocketProofs.tla`, with no assumption beyond the named ones on the constants:

- `TypeCorrect` — `Spec => []TypeOK`.
- `UnheardCorrect` — `Spec => []UnheardIsClosing`. Not inductive: when `onError()` returns
  the owner is dropped, and the flag must still be there. `ErrorsFlagged` says that it
  is, for every "error" frame on the stack, and that what is freed meanwhile is freed by
  a frame at its very bottom, with nothing above.

In the same module, all from one invariant, `OwnInv`:

- `OneHeard`, `ConnectedCorrect`, assuming `QuietErrors`: no `connect()` or `loop()` from
  `onError` (the second item above).
- `AlwaysAwaited`, `NothingBreaks`, assuming `Careful`, that is besides that no connect fails at
  once. One that does leaves `_nc` on a connection that is closing and reports to
  nobody, as `find_ws_stuck` shows.

None of the four is inductive, because they speak of the rest between callbacks or of a
handler's view. `OwnInv` says what holds in between:
the stack is at most one handler with one attempt on it (`Shape`), and over them the
`onError()` of a connect that fails at once (`Failing`); the connections that
report to the client are at most `_nc`, the one being closed and the one being made, and
if `_nc` is not among them the client is CONNECTING or CLOSING (`Owners`); the state tells
whether there is an `_nc`, except inside `onError()`, `setOnClose` and an attempt
(`StateAgrees`). `Sound` is what the other two need: without such connects `_nc` does report.

Only model-checked: `Reconnects`, `LostPeerNoticed` (liveness).

## MongooseHttpServer

`MongooseHttpServer.tla` models one accepted connection: `MongooseHttpServer::handleHeaders`
and the endpoints, `MongooseHttpServerRequest`, how a response body is sent in parts, `http_cb`,
and the visit that `mg_mgr_poll` pays to the connection. `MongooseHttpExchange.tla` says
what the two ends may rely on.

| Variables | Code |
|---|---|
| `asked`, `sent`, `leaving` | the peer: the requests it has begun (endpoint, has a body, is to be kept alive), halves sent, its end closed |
| `read`, `done` | halves ever added to `recv`, requests deleted from it; `recv.len` is what lies between |
| `queued` | `send.len`, in units |
| `owner` | `nc->fn_data`: 0 is the server, n the object made for the headers of request n |
| `keepAlive`, `completed`, `response`, `idle` | `_keepAlive`, `_completed`, what is left of `_response`, and whether `keepAliveTimeout()` has passed since `_lastActivity` |
| `deferred` | the application returned from the handler and will answer later |
| `isResp`, `draining`, `closing` | `is_resp`, `is_draining`, `is_closing` |
| `at`, `ev`, `wasResp`, `readable`, `writable` | where `mg_mgr_poll` is in its visit, the event `http_cb` has in hand, and what the visit read at its start |
| `handled`, `replies` | history: which request ran the handler of which endpoint; which objects completed an answer |

A request is two halves, its headers and its body; one without a body is sent in one
piece. That is the least that has headers reported more than once, requests that share
a read, and a body cut off by the close. Several reads of a body only repeat `Ignore`.
`Headers` is MG_EV_HTTP_HDRS, `Message` MG_EV_HTTP_MSG; `http_cb`'s loop is the
return to `at = "parse"`, and `Poll` is `handlePoll()` with the MG_EV_READ that
`mg_mgr_poll` adds when it cleared `is_resp` (`mongoose.c:15092-15095`). `Install` lets the
server veto keep-alive (`allowKeepAlive()` counts other connections) and counts
`_lastActivity(0)` as long ago. A chunk is written as `sendBody()` does it: it ends a response
only when less than the free space was left, so a body that just fits needs another
visit.

### Runs

| Run | Question | Result |
|---|---|---|
| `http_server` | does a connection keep the exchange, stay responsive, and end | `TypeOK`, `NeverDeaf`, `KeepsTheExchange`, `RequestsAnswered`, `ParkedIsReaped`, `WoundUpCloses` hold if only a first request, without a body, may have a wrong method |

Bounds. Two requests are a request and its successor, which is all that the object
and its hand-over can tell apart: nothing refers to the request before last. `MaxBody = 2`
and `MaxFree = 1` give responses that need up to three writes, and free
space of nothing. Two endpoints are needed to see a request go to the wrong one; they are
interchangeable, but symmetry is off because liveness is checked. Deadlock is not checked: a closed
connection takes no more steps.

Fairness (`LiveSpec`): weak for `Server`, the sketch polls again and again; weak for
`Tick`, time passes; strong for `DeferredReply`, since it can only run between two polls:
the application answers what it put off. The client owes nothing, and a send buffer that is not
empty is written in each visit, unless the client has left: a peer that stops
reading without closing is not in this run.

`RequestsAnswered` excepts what an answer with `Connection: close`, a 405 and the
client's own close cut off. The reaper needs care: a request that comes in the visit in which
the reaper winds the connection up may be lost, as in any server; but one that was received
before is answered first, and this is what the property says.

### What the server does that its comments do not say

- A further request whose method the endpoint does not take gets its 405 and then, as
  the object of the request before it is still attached, also runs that request's
  handler (`Refused` with "later"; `KeepsTheExchange` is violated). This concerns endpoints
  whose requests are plain `MongooseHttpServerRequest`s: the built-in 404, or a class of
  the application's given to `on(endpoint)`. Those of `on(uri, …)` are uploads, whose
  `handleMessage()` returns if a response has been sent (`MongooseHttpServerRequestUpload.cpp:165`).
- A first request with a body is refused once for every read of it, as its headers are
  reported again (`Refused` with "body").
- The time in which a response is transmitted does count as idle time, although
  `MongooseHttpServerRequest.cpp:374-379` says that it should not: `_lastActivity` is set
  when the last part is queued, so a client that takes longer than the timeout to
  read it is reaped as soon as it has.
- A connection on which nothing or half a request was ever sent has no timeout.
- After `forceClose()` or a veto, pipelined requests that are already in `recv` are still
  handled; their answers are sent, in order, before the close.
- A body that the client cuts off by closing is handed to the handler as if it
  were whole (`mongoose.c:4884-4887`).

### Proofs

`MongooseHttpProofs.tla`, for all constants that satisfy the three named assumptions:

- `TypeCorrect` — `Spec => []TypeOK`, by induction with `Numbers` (what was consumed,
  received and sent come in this order, except for a body the close cut off) and `Parsing`
  (a message in hand is a request of the client's).

`MongooseHttpRefinement.tla`:

- `NeverDeafCorrect` — `Spec => []NeverDeaf`, whichever requests are refused. It rests on `Heeded`:
  a message in hand finds an owner that has not answered, or a connection that is about to
  end; and an object is only deleted with its connection.
- `ExchangeKept` — `Spec => KeepsTheExchange`: the connection implements
  `MongooseHttpExchange` under the mapping `winding <- draining`, `left <- leaving`,
  `over <- closing`, `whole <- sent \div 2`. It assumes `FewRefusals`, that is
  `Refused \subseteq {"first"}`; without it the result is false, as the first two items above say.

`ExchangeKept` rests on `Inv`. The exchange is about histories, the code keeps none; `Tally` says
what the owner tells about them: the object of request n, while it is answering, stands for n handled
and n - 1 answered. For that `Owns` must pin down the owner (it is the last request
handled, or the one whose headers were seen and whose body is awaited), and that an object which
has not answered holds `is_resp`, so that no later request can overtake it. `Shapes` and
`InHand` are needed for the one case in which nobody owns a message: a first request that was
refused is still delivered as MG_EV_HTTP_MSG, to the server, which has no handler for it.

Only model-checked: `RequestsAnswered`, `ParkedIsReaped`, `WoundUpCloses` (liveness).

## MongooseHttpBody

`MongooseHttpBody.tla` follows one message to the application: an upload to the server
(`src/MongooseHttpServerRequestUpload.cpp`) or a response to the client
(`src/MongooseHttpClient.cpp`). Both meet the same `http_cb`, and both use its escape
hatch: whoever deletes the head from `recv` in MG_EV_HTTP_HDRS detaches the parser and
gets every later MG_EV_READ himself. `MongooseBodyStream.tla` says what the handler of a
body may count on: bytes in order, none twice, inside a part, one end for every part and nothing after it.

| Variables | Code |
|---|---|
| `msg` | the message: its mode (below), the size of its body, and how much follows it |
| `sent`, `leaving` | the peer: what it has sent, its end closed |
| `read`, `taken`, `parser` | bytes ever added to `recv`, bytes deleted from it, `c->pfn` is still `http_cb` |
| `streaming`, `received`, `done` | `_streaming`; `_bodyReceived`, `_received` or `index`; `_streamDone` |
| `responded`, `isResp`, `draining`, `closing` | `_responseSent` and the three flags of the connection |
| `at`, `after`, `chunk` | the place in the code or the handler that runs, what follows the call, and what "data" was given |
| `heard`, `open`, `messages` | history: body bytes handed over in order, inside a part, whole messages handed over |

Four modes name the four paths: "raw" (an upload without a boundary, streamed),
"multipart" (buffered, then handed over part by part), "streamed" (a response after
`setStreaming()`), "buffered" (any other). Bytes are positions: the head is the unit at 0,
the body the next `size`, and `Hears` compares the position of what is handed over with
what the handler has had: a byte that is skipped or repeated is a `Gap`.

`Detach` is the escape hatch, `Message` MG_EV_HTTP_MSG, and `Onward` says who gets the
same MG_EV_READ next: after `http_cb` has detached itself it is the object, which is how the
bytes that came with the head are received from inside the constructor and then once
more, when there are none left. `Receive` is one turn of the loop in `onReceive()`. `Respond`, `Cancel`
and `Abort` are possible in every handler and between events.

### Run

`http_body`: `TypeOK` (with the order `taken <= read <= sent` that the sizes given to
`mg_iobuf_del()` must respect, and no message handed over twice), `KeepsTheStream` (the
refinement of `MongooseBodyStream`) and `Completes` (what has come whole is handed over)
hold: 23808 states. `SmallBodies` has bodies of up to four units, three where there are
parts; the reads cut them in every possible way. A cut is before, at or after the end of the head,
inside the body, or at or after its end, and three units have all of these in one message.
Up to two units follow a response or a multipart upload: one that is read with the body,
one read later.

Fairness: weak for `Library`. The peer may stop at any point; `Completes` is about
what it has sent. Deadlock is not checked: a closed connection takes no more steps.

### What the code does that its comments do not say

- A raw upload with Content-Length 0, without one, or chunked never gets its
  MG_EV_HTTP_PART_END (`MongooseHttpServerRequestUpload.cpp:145`: `_bodyExpected` is 0).
- Bytes that follow the body of a raw upload in the same connection are handed over as
  MG_EV_HTTP_PART_DATA, with a second PART_END (raw with `extra = 1` violates
  `KeepsTheStream`): a pipelined request behind an upload is read as part of it.
- A buffered response that the close cuts off is handed over as a whole message, also
  after `abort()`, since `http_cb` parses once more for MG_EV_CLOSE (`mongoose.c:4884-4887`).
- `abort()` in the handler of the last chunk does not stop `onResponse()`.
- A multipart upload that is too large is answered 413 while its body arrives, and then again for
  each further read of it (`MongooseHttpServerRequestUpload.cpp:79`). The model has no
  limit on sizes, so this is found by reading only.

### Proofs

`MongooseHttpBodyProofs.tla`:

- `TypeCorrect` — `Spec => []TypeOK`.
- `StreamKept` — `Spec => KeepsTheStream`, for every set of messages, however long,
  and every split. A transfer is over when an upload is answered, a streamed response
  aborted, or the connection gone (`stopped`). An `abort()` of an upload is not among
  these: the code hands over what it has already read, and the theorem allows it.

Both assume `NothingFollows`, that nothing is sent behind a raw upload, for which the
result is false, as the second item above says. `heard` and `open` are histories that the
code does not keep. The invariant ties them to what it does keep: while a handler runs, `heard` is where
`taken`, `received` and `chunk` say it should be; `open` is a fact about the place in
the code; and a detached message is past its head. That a whole multipart body is
handed over in one call, and so never interrupted by a read, is the case `at = "part"`.

Only model-checked: `Completes` (liveness).

## MongooseClients

`MongooseClients.tla` models one object of one of three classes, told apart by `kind`:
`MongooseMqttClient`, `MongooseSntpClient`, `MongooseHttpClientRequest`. They inherit `connect()`, event processing and
the destructor from `MongooseSocket` and differ in what they override; one model
with a `kind` shows the differences side by side.

| Variables | Code |
|---|---|
| `kind`, `alive`, `nc` | the class, the object exists, `_nc` |
| `up`, `code` | `_connected`; `_connackCode != 0` |
| `phase`, `owned`, `sending`, `draining`, `closing` | per connection: resolving, connecting, open, ready (accepted, or answering); `fn_data` is the client; `send.len > 0`; the two flags |
| `age` | ticks since MG_EV_OPEN: the expiry that `sntp_cb` keeps, and `_timeout_ms` of the request |
| `visiting`, `input`, `writable` | the visit of `mg_mgr_poll`: whether the socket or the buffer may still bring something, and what it was found ready for |
| `stack` | interrupted activations (see the comment above `Frame`) |
| `broken` | an object that is gone was used |
| `told`, `refused` | history: `onConnect`s less `onDisconnect`s; connections the broker refused |

`connect()`, `getTime()` and `send()` are two frames, "attempt" and "attempted", because
`mg_mqtt_connect()` and its sisters may call `onError()` before they return
(`AttemptFails`), and only then does `MongooseSocket::connect()` store the connection
(`Attempted`). `Visit` is MG_EV_POLL with the two deadlines, `Parses` the loop of `mqtt_cb`, which
goes on through what it has received although a handler has closed the connection.
`EventReturns` contains what `MongooseSntpClient` and `sntp_cb` do after `onTime()`,
`RefusedReturns` the close that `mqtt_cb` makes after a refused CONNACK, and `CloseReturns` the
`delete this` of the HTTP request.

What the application calls is five constants, one for each place it can call from:
between polls, from `onError`, from an `onError` that runs inside the connect that failed
(`FailCalls`), from other handlers; and what it deletes.

### Run

`clients`: all seven properties hold with three connections, all three kinds,
calls that may fail at once, and every call from every handler that is survivable
(next list): 8595 states. Three connections let a second attempt nest in the failure
of a first while a third is still to be freed. `Deadline = 1` puts the start of an
attempt, its last good tick and its expiry in different ticks. `OnErrorNotReentered` is also what
bounds the stack: handlers call as often as they like, no bound on the depth is needed.

Fairness (`LiveSpec`): weak for `Attempts`, the code between two calls; strong for the
returns of handlers, for each connection's visit and its end, and for time. Strong, because a
handler that calls again makes its return wait, and one connection's visit disables the
other's. The network owes nothing: `DeadlinesHold` is about silence.

### What the clients do that their comments do not say

TLC shows these in the same model with the constants named.

- `connect()` from the `onError` of a `connect()` that fails at once makes a connection
  that the outer call then overwrites in `_nc` (`MongooseSocket.cpp:277`), the failed one
  taking its place. The inner one goes on reporting: `connackCode()` is then of another attempt, against
  `MongooseMqttClient.h:70-71`, and a deleted client still gets its events (`FailCalls` with
  "connect"; `HeardIsCurrent`, `NotifiedInTurn`, `CodeOfThisAttempt`, `OnErrorNotReentered`
  and `NoUndefinedBehaviour` are violated). The SNTP client survives the same with
  `getTime()`, since the orphan ends by itself, unless it is deleted before
  (`Deleted` with "sntp").
- `send()` of an HTTP request from its own `onError` violates `NoUndefinedBehaviour`: the
  first connection's close deletes the object (`ErrorCalls` or `FailCalls` with "send").
- The connect timeout of the HTTP request does not ask `is_closing`
  (`MongooseHttpClient.cpp:278`): one that is closing after an error can report a second,
  "Connect timeout".
- After `disconnect()` the MQTT client stays `connected()` until the connection is gone,
  so a PUBLISH can follow the DISCONNECT.
- No timeout covers the CONNACK or the HTTP response; `DeadlinesHold` is about what has one.
- The byte with which `MongooseSocket` marks its connections is the lowest byte of the expiry
  time of SNTP (`MongooseSocket.cpp:279`), which moves by −172 to +83 ms.
- A kiss of death ends an SNTP exchange with neither `onTime` nor `onError`.

### Proofs

`MongooseClientsProofs.tla`:

- `TypeCorrect` — `Spec => []TypeOK`, without further assumptions.
- `NobodyGoneIsCalled`, `CurrentIsHeard`, `InTurn`, `ErrorsNotReentered`, `CodeIsCurrent` —
  the five other invariants of the run, assuming `OneAttempt`: no `connect()` or `send()`
  from inside a failing attempt, a request sends once, and an SNTP client that calls
  `getTime()` inside `getTime()` is not deleted. The run satisfies it, and by the list
  above none of its three parts can be left out.

The five follow from one inductive invariant. `Shape` says which frames can lie on which: an
attempt is only interrupted by its own error, at most one attempt is on the stack, and at the
bottom is what the visit has called. `Frames` says for each frame what its connection is: an
error's is closing, a close's is no longer `_nc`. `Apart` keeps the connections of different
frames apart. `Owns` is `HeardIsCurrent` with the exceptions that hold inside the frames, and
`Tells` relates `told`, `up` and the phase of `_nc`. None of the five is inductive: each speaks of
the rest between callbacks, or of the top of the stack only, and what it needs lies below.

Where `getTime()` may nest, `Shape` and `Frames` do not hold, and `NestedInv` takes the place
of this invariant (`IInv` chooses by the client's class). Attempts then lie on top of each
other to any depth, but every attempt other than the innermost has failed, and so has
the innermost once `_nc` is set: its connection is closing. Hence `_nc` is only ever overwritten when it
is empty, and what it does not name ends by itself.

Only model-checked: `DeadlinesHold` (liveness).

## MongooseMdns

`MongooseMdns.tla` models `src/MongooseMdns.cpp` and, of `mongoose.c`, the one listener of
the manager, `active_mdns_requests`, the address cache and `mdns_cb`.

| Variables | Code |
|---|---|
| `mdns`, `listener`, `conns` | `_mdns`, `mgr.mdns`, and each UDP connection: free, open, closing (has `is_closing` set and is not closed yet) or retired (detached by `end()`) |
| `waiting`, `doomed`, `cached` | `active_mdns_requests`, clients whose connection is closing, ticks for which the cache holds a name |
| `browsing`, `retries`, `due` | `_browseService`, `_browseRetriesLeft`, ticks until `_browseNextQuery` |
| `stored`, `fresh` | `_records`, and the ticks until each expires |
| `asked`, `lost` | the network: who has a query on its way, and how much was lost |
| `stack`, `broken` | interrupted activations; something that is gone was used |

`mdns_cb` fails, times out or resolves several lookups in one event and runs a handler for each;
`Closes`, `Expires` and `Resolves` are one turn of the three loops. `end()` itself calls the
protocol handler with MG_EV_CLOSE, so `Stop` pushes such a loop before `Detach`, the
rest of `end()`; `begin()` starts with an `end()`. `PollBrowse` and `Drop` are
`eventHandler()`, which runs after the loop and may find the listener detached.

A query can fail in two ways. A socket without room for it (would block) just loses it, and the
retry that `MongooseMdns.cpp:315-317` promises follows. A hard error makes `iolog()` set
`is_closing` (`mongoose.c:14438`), so that later queries are refused (`mdns_query`) and the listener goes
at its next visit; nothing reopens it, and the browse asks no more. `Unsent` has both and `Fails` is the second,
which a reply to `onRequest` may cause as well.

Abstractions: the table of services and which question matches which; names, and the merging of SRV,
TXT and A records into one (an instance is stored whole); which of the eight cache slots
is reused. A handler makes one call at most, and `MaxDepth` bounds the nesting: it suffices for a
loop, a handler in it, what that handler's call starts, and the frame the loop will return to.

### Run

`mdns`: `ListenerAgreed`, `RecordsOfThisBrowse`, `LookupsEnd`, `BrowseFinds` hold: 137556
states. Two listeners are the retired and its successor, two clients that share the name are a
lookup and its neighbour in the list, and two services tell the answers to one browse from those to the
next. `MaxLoss = MaxRetries = 1` is the point of `BrowseFinds`: with a loss more than
retries it fails. One of the two services has an instance, so
the table never fills; that it stays bounded when it does is left to the theorem `RecordsCorrect`.
Between two polls `end()` is a `begin()` that finds the port taken, and an `abort()` comes
from the handlers, which is why `IdleCalls` has neither.

Fairness (`LiveSpec`): weak for `GoesOn`, C++ code and handlers run to their end; strong
for time, for the poll of the listener, for closing it when it has `is_closing` set, and for
the arrival of an answer that `MaxLoss` does not account for.

### Proofs

`MongooseMdnsProofs.tla`, for any number of lookups, clients, services and losses and any
depth of nesting.

- `TypeCorrect` — `Spec => []TypeOK`.
- `RecordsCorrect` — `Spec => []RecordsOfThisBrowse`, whatever is called from wherever. It is
  inductive with `TypeOK` and the finiteness of the table.
- `ListenerCorrect` — `ListenerAgreed`, *assuming* `Outside`: `begin()` and `end()` are called
  neither from handlers that run while the listener closes nor from `onRequest` (the
  first two items below). `Shape` says which activation lies on which: a closing loop
  directly above the `end()` or the manager that started it, `begin()` below its `end()`,
  and above a closing loop or a reply only handlers. `Speaks` says who speaks of the
  listener: at rest `_mdns` is `mgr.mdns` and not yet closed, while it closes the manager has let
  go of it and the object has not. `ListenerAgreed` alone says nothing of the time
  in between.

Only model-checked: `LookupsEnd`, `BrowseFinds` (liveness).

### What the responder does that its comments do not say

- `begin()` or `end()` from a handler that `end()` itself runs (the `onError` of a `.local`
  lookup) leaves the outer one with a null `_mdns`, or retires the new listener
  while `mgr.mdns` points at it (`CloseCalls` with "begin" or "end"; `ListenerAgreed` is
  violated). From handlers of the other two loops both are safe.
- `begin()` or `end()` from `onRequest` frees the host name that `handle_mdns_query()` is about to
  write (`mongoose.c:2296`; `RequestCalls` with "end").
- A handler that looks up again each time it is failed recurses when the listener has gone, since a
  lookup without one fails inside `connect()`; the model stops at `MaxDepth`.
- Two lookups of a name share one query (`mongoose.c:2695-2714`). If it is lost, and new lookups
  keep joining before the old ones expire, nobody ever asks again. No property is
  stated about it: it takes an application that never lets the list run empty.
- Expired records keep their slots in the browse table (`MongooseMdns.cpp:377`, as
  `MongooseMdns.h:209` says), so that a full table takes nothing new.
- The repository's README speaks of the received TTL; the address cache uses a fixed one (`mongoose.c:2603`).

## Server-side WebSocket connections

Not modelled; what reading shows. The upgrade hands the connection to `mg_ws_cb` and
the classes keep no state about it. `sendAll()` walks `mgr.conns` for connections that
are upgraded and carry the type byte that `MongooseHttpServerEndpoint.cpp:28` writes, and
uses their `fn_data`. `mg_close_conn` unlinks a connection before MG_EV_CLOSE, so a
handler of that event cannot meet it there; but an owner that the application deletes leaves
`fn_data` null and the byte set until the next poll, and `sendAll()` does not ask.

## Not modelled

Where `ipConfigChanged()` finds the DHCP servers; IPv6 (`dns6`); the contents of DNS
messages beyond found / not found / connect refused; URLs longer than
`MONGOOSE_NAMESERVER_LEN`; TLS. A transaction id is unique per lookup.

Of the HTTP server: chunked request bodies and requests that cannot be parsed, a POST
without Content-Length (`mongoose.c:4910`), the 500 of a request factory that fails,
the 413, the WebSocket upgrade, several connections at once, `mg_mgr_free()` with
connections open, and a deferred answer after the connection has closed (the application
must not give one; `onClose()` tells it).

Of the clients: chunked responses, redirects (the class follows none), MQTT keep-alive pings
(the class sends none), the setters. Of mDNS: the services table, the merging of records,
the choice of a cache slot.

`MongooseString` and the message views hold no state; the platform glue is macros and a
certificate. The rest of `mongoose.c`, its parsers, TLS, TCP/IP stack and drivers, is
vendored, and modelled only where the classes depend on the order of its callbacks.
