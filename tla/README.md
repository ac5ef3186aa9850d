# Verification of adhoc-chat

adhoc-chat is a chat application for a handful of wireless devices without a
server. Every device runs one Java process: a reliable transport over UDP
multicast with multi-hop flooding (`src/src/transport_v2`), a chat application
on top of it (`src/src/client`), and a browser interface that talks to the
process over a WebSocket (`src/resources/web`).

This directory holds the TLA+ specifications of that program, the TLC
configurations that check them on small instances, and the proofs TLAPS checks
for every value of the constants.

    tlc -config MCTransportDelivery.cfg MCTransport     # a run
    tlapm TransportProofs.tla                           # a proof module

## Inventory of the system

| Part | State it keeps | Operations | Talks to |
|---|---|---|---|
| `RawPacket`, `Util` | none; nonce, flags, numbers, addresses of a packet | parse, build, `compareTo`, `hashCode`, circular difference | everyone in the transport |
| `ReceiverThread`, `BroadcastHandler` | `handledPackets` (hashes seen) | receive, drop copies and own packets, call the handlers, relay what is for others | UDP multicast, the handlers |
| `AnnounceHandler`, `SynchronizationHandler`, `AcknowledgementHandler` | share the maps of `SocketImpl` | answer announces with SYN, SYN with SYN-ACK, SYN-ACK with ACK; take ACKs | `SocketImpl` |
| `SocketImpl`, `AckAwaitTimerTask` | next number, unacknowledged numbers, unacknowledged SYN-ACKs, network membership, timers | connect, send, broadcast, retransmit, give a peer up | handlers, timers, application threads |
| `DataHandler` | last number in order and a `TreeSet` of packets ahead of it, per source | order, acknowledge, deliver to `receiveQueue`, recognise a restarted peer | `SocketImpl`, `NetworkHandler` through the queue |
| `ApplicationState`, `ClientAddressMapper`, `Conversation` | nickname, names and addresses of users, conversations | set nickname, start/leave a conversation, send a message, handle each message of a peer | `NetworkHandler`, `ClientHandler` |
| `NetworkHandler` | the socket and a thread | take messages off the queue and dispatch them; send and broadcast | transport, `ApplicationState` |
| `ClientHandler`, `WebSocketJsonRpc` | subscriptions per stream | calls from the browser, notifications to it | browser, `ApplicationState` |
| `app.js`, `websocket-jsonrpc.js` | users, conversations and messages shown | user input, snapshot after connecting, notifications | `ClientHandler` |
| `SimpleServer`, `client.cli.Main`, `RTTTest`, `TestHandler`, a Wireshark dissector, unit-test mocks | none that matters to others | serve files, read lines, measure | |

How they interact: three kinds of threads share the maps of `SocketImpl`. The
receiver thread takes datagrams and calls the handlers one after the other; a
timer thread per unacknowledged packet resends it or gives its receiver up; an
application thread sends. The receiver thread hands data to the application
through a blocking queue, from which the thread of `NetworkHandler` takes it.
WebSocket threads call `ClientHandler`, and both change `ApplicationState`.

What is hard, and what makes each part correct:

* Sequence numbers are Java ints that wrap around; the circular difference, the
  order of the `TreeSet` and "equal to last + 1" must agree everywhere they meet.
* A SYN means a start or a restart of the peer, told apart by a heuristic on its
  number. Data must be delivered in order, once, and none that was acknowledged
  may be lost.
* Packets are lost, copied and overtake each other; timers race answers; a peer
  that is given up is numbered anew. Numbers in use must not be given out twice,
  whoever waits for an ACK must have a timer, and both ends of a handshake must
  end up with each other in their network.
* Every packet comes by several routes. The handlers must see it once, it must
  reach every node there is a path to, and it must stop going round.
* Names, addresses and conversations are kept separately on every node and only
  agree by messages. Private messages must stay private and all must arrive.
* A page asks for a snapshot and is told of changes by other threads on the same
  socket. Results must find their callers, and what the page shows must end up as
  what the process holds.

`PROJECT.json` lists the hazards one by one with their lines.

## Modules

| Module | Models | Lies on |
|---|---|---|
| `SeqNum` | ints that wrap around, `Util.differenceWithWrapAround`, `RawPacket.compareTo` | |
| `ReorderBuffer` | what one packet does to the last number in order and the `TreeSet` of one source (the pure part of `DataHandler.onPacketReceived`) | `SeqNum` |
| `InOrderDelivery` | abstract: what a receiver promises about one stream | |
| `DataHandler` | one stream at `DataHandler`, packet by packet and iteration by iteration; implements `InOrderDelivery` | `ReorderBuffer` |
| `OrderedChannels` | abstract: what `Socket` promises its users | |
| `Transport` | `SocketImpl`, its handlers and timers on every node, with `ReorderBuffer` for every pair of nodes; implements `OrderedChannels` where the handshakes arrive | `ReorderBuffer` |
| `TransportRestart` | `Transport` on nodes that stop and start again | `Transport` |
| `SocketThreads` | `newSequenceNumber`, `sendAndRetry`, `removeFromNetwork` and `AckAwaitTimerTask` of one socket towards one peer, access by access, on the threads that run them | |
| `Nonce` | the nonce of a packet and its part of `RawPacket.hashCode` | |
| `OnceNetwork` | abstract: the network as the handlers of a node see it | |
| `Flooding` | `ReceiverThread` and `BroadcastHandler` on every node, datagram by datagram; implements `OnceNetwork` | `Nonce` |
| `Chat` | `ApplicationState`, `ClientAddressMapper`, `NetworkHandler`, `ClientHandler` on every node | |
| `JsonRpc` | `websocket-jsonrpc.js` and `WebSocketJsonRpc`: calls, results, errors, subscriptions, notifications, threads | |
| `ChatPage` | `app.js` and the calls of `ClientHandler` on one node: pages that load, list users, keep tabs, write and close, while peers change the state behind them | `JsonRpc` |
| `Emoticons` | `parseMessage` and `addEmoticon` of `app.js` | |
| `PureFunctions` | the pure functions on inputs that grow: two counters, the clock of a source, a message that is written | `SeqNum`, `Nonce`, `Emoticons` |
| `*Proofs` | lemmas and theorems about the module of that name | |
| `MC*` | instances for TLC | |

The layers meet by their promises. To the handlers, `Flooding` is a
`OnceNetwork`: a packet reaches each of them once or never, in any order. So the
channels of `Transport` lose and reorder packets and do not copy them (copies
there are retransmissions, which are packets with nonces of their own). To the
application, `Transport` is `OrderedChannels`: what was put in comes out in order
and once. So the channels of `Chat` are sequences. Both refinements are checked and
proved.
`Chat` has the nodes and what they send each other, without the lists on the
screen; `ChatPage` has one node with its pages, and lets its peers send whatever
a peer may send at any moment. `SocketThreads` takes `Transport` apart below the
level of handlers: what it shows of the maps under any interleaving is what makes
the atomic steps of `Transport` meaningful, and where it shows less (two threads
may take one number) the hazards say so.

### State and actions

*ReorderBuffer, DataHandler.* `last` is `lastInOrderSequenceNumber.get(source)`,
with `NoSeq` for an absent key; `buf` is the `TreeSet` as its iterator sees it.
The tree is not modelled as a tree: since `compareTo` is not an order when two
numbers are half the circle apart, `Inserted` is the set of all places where an
insertion that compares its way down some tree can end, and an invariant
(`TreeSetPlaceIsUnique`, also proved) shows that there is only one. `ReceiveSyn` and
`ReceiveData` are the body of the handler up to the loop, `TakeNext` and
`DropStale` one iteration of the loop, so that a later packet never comes in
before the loop has ended. `place` in a packet is not in the program: it is the
position in the stream, which a wrapping number forgets and the properties are
about.

*Transport.* The maps of `SocketImpl` and `DataHandler` have the names they have
in the source (`sentSynAck` is `sentSynAckButNoAck`). `ReceiveAnnounce`,
`ReceiveSyn`, `ReceiveSynAck`, `ReceiveAck` and `ReceiveData` are what the
receiver thread does with a packet: all handlers that look at it, each with all
it changes. The handlers are called in the order of a `HashSet`, which differs
between processes; it matters in one place, where `DataHandler` forgets what is
unacknowledged before or after `SynchronizationHandler` has added the SYN-ACK,
and `DataFirst` says on which nodes. `Expire`, `Retransmit` and `GiveUp` are the
three ends of `AckAwaitTimerTask.run`. `session` is a history variable that
counts how often numbering to a peer began anew. Two constants say what an
instance takes of the network and the clock: `Overtaking`, which kinds of packets
can overtake others, and `Patient`, which kinds have timers that wait until
neither the packet nor its answer is under way.

*TransportRestart.* `Restart` is a new process on an old address: all maps of the
node are empty, all other nodes keep theirs, packets under way in both directions
stay under way, and `connect` announces. A restart uses up one of the announces
and the one fault (loss or restart) of its instance.

*SocketThreads.* Each packet has one thread at work on it at a time: that of its
sender, then that of its timer. `stage` is where that thread is; `Look`, `Start`,
`Read`, `Write` are the lines of `newSequenceNumber`, `Transmit`, `Check`,
`Create`, `Record` those of `sendAndRetry` (the timer set at its end touches
nothing shared), `Wake` is `AckAwaitTimerTask.run` up to its decision, and
`Forget`, `Renumber`, `Leave` are `removeFromNetwork`. A `get` that finds nothing
throws, and the thread ends (`failed`); of the receiver thread that is the end of
all receiving, which the model includes. Every map operation is atomic: what a
`HashMap` does under concurrent use is not modelled. An ACK may come at any time
after its packet went out, more than once, or never.

*Flooding.* `copies[n][i]` counts the datagrams with packet `i` that are under
way to `n`; a node hears itself, since the multicast group loops back. `Send`
stands for every construction of a packet: each takes the clock as its nonce.

*Chat.* Start-up (`Boot`, `Join`, `SetHandlers`) is `Main`; the calls of the
browser and the messages of peers are one action each, with the names of the
handlers. A message that needs an answer, `requestNick`, takes two steps, because
another thread may change the nickname in between. A send to somebody outside
the network, or to nobody, changes nothing: the exception is caught and printed.
`asking` and `open` count the pages that show the dialogue for a nickname and
those past it; the dialogue is the only place where a nickname is chosen. The
history variables `partner`, `texts` and `received` say who a conversation was
made with and who was meant to read a message.

*JsonRpc, ChatPage.* A page queues requests on its socket and the server takes
them in turn, each page on a thread of its own; the thread `Handler` stands for
`NetworkHandler`. A call or a message first changes the state of the process, in
one step, and then its notifications and its result leave one by one through the
`outbox` of the thread, so that other threads send in between. `Greeting` is what
a page calls when its socket opens. A notification goes to all subscribers in one
step. Peers are known by a name, be it null, before they do anything else; an
invitation has a fresh id. `users` is the list of the page, `drawn` what was last
drawn of it, `tabs` the conversations it shows. Left out are the flag that makes
a tab the active one, and the messages stored in a `Conversation`, which the
process never fills. `improvised`, `left`, `leavers` and `misled` are history
variables that name what the properties except, and each exception is real: a tab
made for a message of an unknown conversation has no id, since its notification
passes one parameter for three; a conversation a peer has left stays in the list
of the process; and `removeUser` for a name the page does not list removes the
last name of the list.

*PureFunctions.* `Count` is a sender that takes another number, `Tick` the
clock a nonce is taken from, `Type` and `Click` a key and the button of an
emoticon. The functions have no state; the steps are there so that what is said
of all inputs is an invariant, and what is said of the button a step.

*Emoticons.* Messages are sequences of characters and codes sequences too.
`Indices` is the set of cuts `parseMessage` collects with its shifting start,
`Cuts` their sorted sequence, `ParseMessage` the parts.

## Runs

| Run | Instance | Shows |
|---|---|---|
| `pure_functions` | numbers of 12 values, counters up to 14 (more than a full circle) from every start; five stretches of 150 ms in which every byte of a nonce carries or changes sign; the 15 codes of the page, messages of up to 5 characters and emoticons | the circular difference and `compareTo` agree with counting; hashes of nonces differ for less than 1800 ms (at 1800 ms they collide); a message is shown in the parts a reader sees, and a button adds one picture |
| `data_handler` | numbers of 12 values, 7 packets with any kinds, a window of 5, a SYN heuristic of 2, 2 copies | order, in-order delivery, nothing acknowledged is lost, the loop never stops early, refinement of `InOrderDelivery`, and no deadlock |
| `transport_delivery` | 2 nodes, 2 data packets one way and 1 the other, overtaking, one data packet or ACK lost | everything is delivered, in order and once: refinement of `OrderedChannels` |
| `transport_handshake` | 2 nodes, 2 announces of which one may be a restart at any moment, any one packet lost if there is no restart, overtaking | every handshake ends with membership on both sides; a node that starts again is taken back; nothing stays unacknowledged |
| `transport_announces` | 2 nodes, 2 announces, 2 data packets one way, one retransmission each, two data packets or ACKs lost, all but SYN and SYN-ACK overtaking, timers of data that fire at any moment | the bookkeeping is consistent through retransmission, give-up and renumbering; a handshake over a stream in use harms neither, as long as neither node gives the other up |
| `socket_threads` | 2 packets of the application, 1 of the receiver thread, 2 tries each | numbers are not skipped; whatever waits for an ACK has a timer, and does not wait for ever |
| `transport_lost_synack` | `transport_delivery` with one packet of any kind lost | **violated**: see below |
| `flooding` | a diamond of 4 nodes, one packet, one loss | reaches all, ends; refinement of `OnceNetwork` |
| `flooding_same_millisecond` | the same, two packets in one millisecond | **violated** |
| `chat` | 3 nodes, two names for one and one for another, a second page, one conversation, one message, one page closed | private messages stay private and arrive, names and conversations agree |
| `chat_late_joiner` | names may be chosen while nodes still start | **violated** |
| `page` | 1 page, 1 peer with a name or none, 1 conversation, 3 messages of the peer, 2 deeds of the user | results find their callers; users, tabs and texts on the page agree with the process |

Bounds, and why they are enough. Numbers of 12 values with streams of 7 packets
wrap around in `pure_functions`, whose counters start anywhere; in
`data_handler` they start at 0 and wrap past the largest int at the seventh
packet. The window is less than half the circle, as in the program, where it is
2^31 packets. One loss meets every step of the handshake and of a transfer,
alone; with two tries it is never enough for a give-up. In `transport_announces`
there is one retransmission, and two losses, or a timer that is early, lead to a
give-up before, between or after the two handshakes. In `chat` one conversation is
enough to be told apart from the one with everyone, and two names of one node
are enough for an old name to be in use. Two names that no property tells apart
are declared symmetric. In `page` every pair of a notification and a call of the
page meets, and the third message of the peer can undo what the first two did;
each page has its own socket and lists, so a second one adds only subscribers. In
`socket_threads` two threads are enough to write a counter over each other, and
the third gives the peer up meanwhile; proofs cover any number. A loss of an
announce is an announce less.

`Patient` says whose timers fire only when neither the packet nor the answer is
under way: an interval of one second, against milliseconds on the air. The
liveness properties rest on it, since a timer that is always early gives its
receiver up. The safety properties rest on it for SYN and SYN-ACK only: a SYN sent
again by an early timer reaches `DataHandler` after data and resets it, and data
is delivered twice. Timers of data may fire at any moment, in `transport_announces`
and in the proofs. What is said of the bookkeeping is proved without it for all
kinds.

`Overtaking` leaves SYN and SYN-ACK in their place in `transport_announces`: with
a second announce, a SYN that overtakes data is taken for a restart, or fills the
place of the data, and `NothingLost` fails. Where one node announces itself, once,
they may overtake (`transport_delivery`), and nothing else is there to be
overtaken.

`InTurn` is a constraint of the run `chat` on the order of start-up: a before b
before c, names after the start-up messages were handled; `chat_late_joiner`
does without it. It cuts orders that only rename nodes or delay the answers of nameless ones.
`Together` says that names are chosen only when all are in the network of all:
what the program needs for names to agree, and `chat_late_joiner` drops it.

Deadlock is not a question for these instances: a system whose bounds are used
up, with nothing under way, stops. (`data_handler` never does, since packets of
the receiver come and go.) That nobody waits for ever is what the liveness
properties and `NothingLost`, `TextsArrive` in a quiet network say.

Fairness: the receiver thread takes packets as long as there are any, from every
peer (weak fairness per channel: the queue of the UDP socket is first in, first
out, and the flooding below only loses what `Lose` loses), its loop runs to its
end, and timers fire (weak fairness per node, `java.util.Timer`). In
`SocketThreads` each thread that has begun goes on, and so does a timer that is
set; no ACK need come. Nothing is
assumed about users, about announces, or about packets that are lost.

## Findings

* `transport_lost_synack`: a SYN-ACK that is lost and sent again arrives with a
  number behind data that was already delivered and acknowledged, or taken into
  the buffer. `DataHandler` takes it for a restart of the peer and falls back;
  what it then throws away is never sent again.
* `flooding_same_millisecond`: the nonce is the clock in milliseconds. Two
  packets of one node in one millisecond, such as the packets of one broadcast to
  two peers, or an ACK and what follows it, have one nonce, and other nodes drop
  the second as a copy. (Retransmission repairs it for packets that are
  acknowledged.)
* `chat_late_joiner`: the nicknames are asked for once, when the network is still
  empty. A node that comes after its peer chose a name does not know it; when the
  peer invites it to a conversation, its answers are broadcast.

Seen while modelling, and not run here: `userLeft` removes from the map it
iterates over, which ends the only thread that takes messages when there are two
conversations with the user who left (`running` in `HandleLeave`); whoever submits
the empty nickname, the user of the conversation with everyone, receives
everyone's messages and nobody else does; two threads can take one number, and a
packet of the receiver thread can meet a map from which another thread has just
removed the entry, which ends that thread (`SocketThreads`); data that is sent
right after a restart can share the fate of `transport_lost_synack`; on the page,
a user who is listed twice, by the snapshot and by a notification, is an error of
`ng-repeat`; a copy of a buffered packet is found
behind the last number in order, in the branch that prints "Dit hoort niet"; data
between the largest UDP payload and `MAX_DATA_SIZE` cannot be sent.

## Proofs

Checked by TLAPS for every value of the constants, under the named assumptions
beside the constants (positive sizes, subsets, a window shorter than half the
circle, of at most 1800 ms for hashes, codes with brackets at their ends; no
relation between them that the code does not have). A theorem that
holds only in part of the instances says so as an ASSUME of its own, named beside
it and explained below: `HandshakeArrives` and `HellosInPlace` in `TransportProofs`, and `Together`,
`NamesApart` and `NobodyIsEmpty` in `ChatProofs`. The instances of the runs that
check those properties satisfy these hypotheses.

* `ReorderBufferProofs`: the range of the circular difference, its antisymmetry up
  to the point opposite, and that it counts packets inside the window; inserting and removing keep the packets of a sequence
  and their order; types of what a packet does.
* `DataHandlerProofs`: `TypeOK`, `BufferInStreamOrder`, `NothingNextWaits`,
  `DeliveredInOrder`, `AckedIsKept`, `TreeSetPlaceIsUnique`, and that `DataHandler`
  implements `InOrderDelivery`. The inductive invariant `Inv` adds what ties numbers to
  places: the circular difference of two packets of the stream less than half the
  circle apart is their distance (`Numbered`), the last number in order is that
  of `lastPlace` and the source is at most a window ahead of it (`SyncState`),
  and the buffer holds packets of the stream (`BufferedAreSent`). Without that,
  the order of the numbers says nothing about the order of sending. For the place
  in the TreeSet a second invariant, `Cut`, says that every place of the stream cuts
  the buffer in two; it is kept step by step where one would otherwise count
  through the buffer.
* `TransportProofs`: `TypeOK`, `NetworkMeansSynced`, `NumbersAreFresh`,
  `RetransmissionPending`. `SyncInv` strengthens the second by what must have
  been seen before: a packet that acknowledges a SYN-ACK, a SYN-ACK, or a record
  of one, each means that the peer has adopted a SYN. `TrackInv`, the last
  two together with the types, is inductive as it stands: a number that is fresh
  is what keeps a new timer from standing for an old packet.
  `InOrder` and `NothingLost` are proved for any number of nodes and packets, any
  losses of data, of its ACKs and of the announce, overtaking, early timers of data
  and give-ups, under
  `HandshakeArrives`: the timers of SYN and SYN-ACK are patient, one node announces
  itself, once, and the SYN, the SYN-ACK and its ACK are not lost. Each part is
  needed: without the first
  a late SYN resets a stream, a second announce starts a handshake over a stream
  that is used already, and `transport_lost_synack` shows what a lost SYN-ACK does.
  Neither claim is inductive. `DeliveryInv` puts every pair of nodes in one of five
  stages: nothing has passed between them (`Silent`), or exactly one packet of the
  handshake is under way (`Announced`, `Answered`, `Accepted`), of which each stage
  says what else holds; or the handshake is over and data may flow both ways
  (`Flow`). Of one direction, `Flow` says that packet i of the stream has the number
  i and carries datum i, that as much is delivered as is numbered in order, that
  the buffer and the channel hold packets of the stream only, that an ACK under way
  means its packet has been got, and that whatever was not got waits for its ACK
  with a timer, unless the receiver was given up. A packet got is below the last
  number in order or in the buffer, and the buffer does not start with what is
  next; so with all acknowledged and the buffer short of nothing, all is delivered.
  The same invariant gives the refinement of `OrderedChannels`: only `SendData` adds
  to what was submitted, one packet, and only `TakeNext` to what is delivered, the
  first that is missing.
  `DeliveryUntilGivenUp` is proved for any number of announces, at any time, under
  `HellosInPlace`: SYN and SYN-ACK are patient, keep their place, and arrive, and the
  ACK of a SYN-ACK arrives. Neither hypothesis implies the other: a single handshake
  needs no place to keep. `StreamInv` speaks of two nodes while neither has given the
  other up (`Together`), one direction at a time (`Sound`): the numbers given out are
  those of data, in the order of sending, and those of hellos (`OfStream`); a hello
  under way has a number beyond all that precede it, that were got or are buffered
  (`Coming`), so `SuspectsRestart` is false of it and it is one more packet of the
  stream; every number given out was got, or is data that waits for its ACK, or a
  hello under way (`Accounted`); an ACK means its packet was got (`Acknowledged`);
  and a hello that waits for its ACK is under way, or the answer is, so that its
  timer is not due (`Waiting`).
* `ChatProofs`: `TypeOK`, for any number of nodes, names, pages and conversations.
  `NamesConverge` under `Together`: by `NameInv` everybody is in the network of all
  from the moment somebody has a name on (`Settled`), and whoever does not know the
  name of a node as it is has it as the last change on its way (`NamesOnTheWay`).
  The next three need moreover that no two nodes take one name (`NamesApart`; the
  program has nothing that keeps them from it): by `BookInv` a name then stands for
  one node for good, and nobody is written to under a name before hearing it
  (`Introductions`). `TalkInv` says that the partner of a listed conversation is
  whom its name stands for, that conversations have two ends, or one and an
  invitation to the other (`Pairs`), and that what is under way about one is
  between its two. That gives `PrivateStaysPrivate` and `ConversationsAreShared`.
  `TextsArrive` needs that nobody takes the empty nickname, under which the
  conversation with everyone is listed (`NobodyIsEmpty`): then nobody closes that
  one by leaving, and `ArriveInv` follows a text to each of its readers. The order
  of start-up (`InTurn`), to which the run is constrained, is not assumed.
* `FloodingProofs`: `TypeOK` and `HandledOnce`, for any network, losses and hash
  collisions: `Inv` says that a handled packet's hash is remembered. `FloodReachesAll`
  needs the converse, that what is remembered was handled (`HandledFor`), and that
  whoever hears a node that has sent a packet has handled it or has a datagram with
  it to look at (`SentIsHeard`). When none is under way, the source and the nodes
  that handled the packet are a set it spreads over, and `Within` is in every such
  set; so no induction over the hops is needed.
  That `Flooding` implements `OnceNetwork` follows from `Inv`: a packet that is handled
  was built by another node, and not handled before.
* `PureFunctionsProofs`: all that the run `pure_functions` checks, for every input.
  `ComparisonFollowsCounting`, for ints of any width and counters that go round any
  number of times: a number is its start plus its count, less some full circles
  (`CountInv`); the circles of two counters less than half of one apart differ by
  one at most.
  `HashTellsApart`, at any time on the clock: when a number grows by less than 1800,
  the lowest byte carries at most eight times, a higher one at most once and only
  if the one below it does (`Carry`); so few carries cannot cancel out in the sum
  with the factors of 31 (`ByteSums`). 1800 is the largest window of which it is true.
  `PartsAreAsRead` and `ButtonAddsOnePicture`, for messages of any length and any codes
  that begin and end with brackets and have none inside (`CodesAssumption`, which
  TLC evaluates for the fifteen of the page): occurrences of such codes do not
  overlap (`NoOverlap`), so cutting at all their ends finds each (`CodesAreParts`)
  and leaves none in a text (`TextHasNoCode`). The cuts of a message are apart from
  each other, so their rank numbers them one to one (`RankTellsApart`,
  `EveryRank`), each begins where the one before it ends (`CutsFollow`), and the sum of
  the lengths of the parts is where a part ends (`Sums`). A code added by its button
  is one cut more, after all others (`AddedCodeIsOnePart`, `CutAtTheEnd`).
* `SocketThreadsProofs`: `TypeOK`, `WaitingHasTimer` and `NumbersHaveNoGaps`, for
  any number of packets and tries. `TypeInv` adds which stages have a number and
  a try left. `WaitingHasTimer` is then inductive as it stands; the gaps need
  that all numbers below the counter are in use too (`CounterHasNoGaps`), and
  that lasts only until somebody gives the peer up and the counter starts anew
  under numbers that other threads still hold.
* `ChatPageProofs`, for any number of pages, peers, conversations, calls and
  messages. `AnswersMatchCalls`: the ids of the results taken, of those under way
  and in the outbox, and of the calls to be served are one ascending sequence cut in
  four (`Chain`); a step moves an id over a cut, adds new ids at the end, or adds or
  removes an item without an id. `PageInv` adds that each id is below the next one
  of its page and awaits the method of its call, and that no thread sends a result
  to a page but the one that serves it.
  `TypeOK` needs what is said on the wire: `TypeInv` adds that every call and message
  is well formed (`SoundWire`) and that names in lists are names of somebody.
  `ConversationsHaveTabs` and `UsersAreListed` hold only when nothing is under way.
  `TabInv` and `UserInv` say what holds before: a conversation has its tab, or a
  message with it is on its way to the page, in the outbox of a thread that will send
  it to the page, or the page has still to ask for it (`TabComes`; `UserComes` for a
  name). Since the page asks only after it has subscribed (`ListenThenAsk`), a change
  is either told to it or part of the answer. A removal under way is of what is
  gone for good (`LeavesAreTrue`, `RemovalsAreTrue`).
  `TextsInOwnTab`: `TextInv` gives each text one way to the page, a result or a
  notification, by who wrote it (`WritersKnown`); on each of the two, what a tab
  shows, what comes and what is yet to be sent ascend (`OwnInTurn`, `PeersInTurn`,
  by the same `Chain`), so none is shown twice. `TabsMissNothing`: `MissInv` says
  that after a text that comes, or that a tab shows, all later ones of peers are
  shown, come, or are about to be sent to the page, which is then subscribed for
  good.

Each proof that steps preserve an invariant has one lemma per action or per kind of
action.

Only model-checked: liveness (`EverythingDelivered`, `HandshakeCompletes`,
`NothingStaysUnacknowledged`, `RestartRecovers`, `EveryWaitEnds`, `FloodingEnds`), which
is out of the prover's reach. Every other property of a passing run is proved.
Proved and in no run: `DeliveredInOrder`, `InOrder` and `HandledOnce`, since
`data_handler`, `transport_delivery` and `flooding` check the refinement that says as
much.

## Not modelled

* Threads inside a call or a message of `Chat` and `ChatPage`, and what a
  `HashMap` does when threads change it at once.
* Sends that fail; `broadcast` as several sends; data in `TransportRestart`.
* The 30 s of the announce timer and the map `timeLastAnnounceReceived`, which
  is written and never read for anything else.
* The bytes of a packet and of a message: parsing is pure.
* The dispatch of `WebSocketJsonRpc` by reflection, its loop over the subscribers,
  the digest of Angular, which tab is active, scrolling.
* `SimpleServer`, the command-line client, trials and measurements: no state that
  others depend on.
* `angular.js`, `jquery.js` and `bootstrap.js` under `src/resources/web/javascript`.
  They are libraries from elsewhere, 33 000 of the lines of JavaScript; the
  program's own are the 460 of `app.js` and `websocket-jsonrpc.js`, which
  `JsonRpc`, `ChatPage` and `Emoticons` model.
* In `Chat`: nodes that leave the network, equal ids of two conversations, and
  two users who choose one name at the same time.

## Plan

Done, in this order: `SeqNum`, `ReorderBuffer`, `InOrderDelivery`, `DataHandler`,
`Transport`, with their proofs; `Nonce`, `Flooding`, with proofs; `Chat`;
`Emoticons`, with proofs; `JsonRpc`, `ChatPage`, with proofs; `TransportRestart`;
`SocketThreads`, with proofs; the proofs of `Chat`, of delivery in `Transport`, of
the reach of `Flooding`, and of types, tabs, users and texts in `ChatPage`;
`OnceNetwork` and `OrderedChannels` with their refinements; delivery through any
number of announces; `PureFunctions`, with proofs.

Next:

1. Proofs: the bookkeeping of `TransportRestart`; delivery when several announces
   are made before the first data and SYN and SYN-ACK may overtake.
2. `Transport` with sends that fail: a number that is used and never sent, and a
   retransmission that throws and leaves no timer.
3. Data across a restart in `TransportRestart`, once the heuristic on the SYN
   tells a retransmission from a restart.
4. `Chat` with equal names, and with members that are given up below.
