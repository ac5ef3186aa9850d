------------------------------ MODULE JsonRpc ------------------------------
(***************************************************************************)
(* Calls and notifications between the pages of a browser and the process  *)
(* they are served by: websocket-jsonrpc.js and WebSocketJsonRpc.  A page  *)
(* numbers its calls and keeps a callback for each; the server takes the   *)
(* calls of a page one after the other, and the calls of several pages,    *)
(* and what peers send, on threads of their own.  A thread first does what *)
(* it does to the state of the program and then sends, one by one, the     *)
(* notifications and the result: they wait in its outbox.                  *)
(*                                                                         *)
(* One WebSocket per page: each direction is first in, first out.          *)
(***************************************************************************)
EXTENDS Integers, SequencesExt

CONSTANTS
    Page,       \* pages; one that is reloaded is another page
    Handler,    \* the thread of the server that handles what peers send
    Method,     \* what a page calls
    Stream      \* what it subscribes to

ASSUME RpcAssumption == Handler \notin Page

Thread == Page \cup {Handler}

VARIABLES
    open,           \* the socket of a page: "connecting", "open", "closed"
    nextId,         \* _id
    callbacks,      \* the method whose result callbacks[id] waits for
    requests,       \* calls of a page that the server has not taken
    messages,       \* what was sent to a page and it has not taken
    subscribers,    \* subscriptions, stream by stream
    outbox,         \* what a thread is about to send
    answered        \* history: ids of the results a page has taken

client == <<open, nextId, callbacks, answered>>
wire == <<requests, messages>>
server == <<subscribers, outbox>>
rpc == <<client, wire, server>>

\* Everything that is sent carries a sequence of items.  "of" is the method
\* that was called, which the program does not send.
Item(x, c, t) == [name |-> x, conv |-> c, text |-> t]
Result(r, value) == [kind |-> "result", id |-> r.id, of |-> r.method, value |-> value]
Failure(r) == [kind |-> "error", id |-> -1, of |-> r.method, value |-> <<>>]
Note(s, value) == [kind |-> "note", id |-> -1, of |-> s, value |-> value]

RpcInit ==
    /\ open = [p \in Page |-> "connecting"]
    /\ nextId = [p \in Page |-> 0]
    /\ callbacks = [p \in Page |-> <<>>]
    /\ requests = [p \in Page |-> <<>>]
    /\ messages = [p \in Page |-> <<>>]
    /\ subscribers = [s \in Stream |-> {}]
    /\ outbox = [t \in Thread |-> <<>>]
    /\ answered = [p \in Page |-> <<>>]

----------------------------------------------------------------------------
\* The page.

\* Seeded fault: the calls a page makes at one moment share an id.
FaultyIdOf(p, k) == nextId[p]

\* newId for the k-th of the calls made together.
IdOf(p, k) == nextId[p] + k - 1

\* WebSocketJSONRPC.call, for each of the calls in turn.  The callbacks of
\* ids 0, 1, ... are a sequence.
Call(p, calls) ==
    /\ nextId' = [nextId EXCEPT ![p] = @ + Len(calls)]
    /\ callbacks' = [callbacks EXCEPT ![p] =
          [i \in 1..nextId[p] + Len(calls) |->
              IF i \in DOMAIN @ THEN @[i] ELSE calls[i - nextId[p]].method]]
    /\ requests' = [requests EXCEPT ![p] = @ \o
          [k \in DOMAIN calls |->
              [id |-> IdOf(p, k), method |-> calls[k].method, arg |-> calls[k].arg]]]

\* onmessage takes the next message.  A result goes to its callback; an error
\* to the handler of errors, which does nothing, and the callback stays.
Take(p, kind) ==
    /\ open[p] = "open"
    /\ messages[p] # <<>>
    /\ Head(messages[p]).kind = kind
    /\ messages' = [messages EXCEPT ![p] = Tail(@)]
    /\ answered' = [answered EXCEPT ![p] =
          IF kind = "result" THEN Append(@, Head(messages[p]).id) ELSE @]

\* The callback that a result is for.
CallbackOf(p) == callbacks[p][Head(messages[p]).id + 1]

----------------------------------------------------------------------------
\* The server.

\* Thread t takes something new only when it has sent everything.
Free(t) == outbox[t] = <<>>

\* The call that is next on the socket of p.
Request(p) == Head(requests[p])

\* onMessage: the call of p, that has the outcome "sends" on the wire.
Served(p, method, sends) ==
    /\ Free(p)
    /\ requests[p] # <<>>
    /\ Request(p).method = method
    /\ requests' = [requests EXCEPT ![p] = Tail(@)]
    /\ outbox' = [outbox EXCEPT ![p] = sends]

\* call, for the method that every server has.
Subscribe(p) ==
    /\ Served(p, "subscribe", <<Result(Request(p), <<>>)>>)
    /\ subscribers' = [subscribers EXCEPT ![Request(p).arg.name] = @ \cup {p}]

\* Who gets m from thread t: a result the page that called, a notification
\* all subscribers.
Receivers(t, m) == IF m.kind = "note" THEN subscribers[m.of] ELSE {t}

\* notify, or the end of onMessage.  What is sent to a page that was closed,
\* and stays subscribed, is lost.
Send(t) ==
    /\ outbox[t] # <<>>
    /\ LET m == Head(outbox[t])
       IN  messages' = [p \in Page |->
              IF p \in Receivers(t, m) /\ open[p] = "open"
              THEN Append(messages[p], m)
              ELSE messages[p]]
    /\ outbox' = [outbox EXCEPT ![t] = Tail(@)]

----------------------------------------------------------------------------

\* Notifications and errors have no id, and -1 here.
Ids(sent) == [k \in DOMAIN sent |-> sent[k].id]

\* From the oldest result to the newest call: a call of p is in one place.
Underway(p) == answered[p] \o Ids(messages[p]) \o Ids(outbox[p]) \o Ids(requests[p])

\* The ids among these numbers grow.
Ascending(ids) == \A k \in DOMAIN ids : ids[k] # -1 => \A j \in 1..k - 1 : ids[j] < ids[k]

\* A result finds the callback of the call that it answers.
FindsCaller(p, m) ==
    /\ m.id + 1 \in DOMAIN callbacks[p]
    /\ callbacks[p][m.id + 1] = m.of

\* A call is answered once at most, in the order of calling, and never by the
\* result of another.  Callbacks are found by a number that the page gave and
\* a thread of the server repeats, while other threads send to the page.
AnswersMatchCalls ==
    \A p \in Page :
        /\ Ascending(Underway(p))
        /\ \A m \in ToSet(messages[p]) \cup ToSet(outbox[p]) :
              m.kind = "result" => FindsCaller(p, m)
=============================================================================
