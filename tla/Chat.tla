-------------------------------- MODULE Chat --------------------------------
(***************************************************************************)
(* The chat application on every node: ApplicationState with its address   *)
(* book and conversations, the thread of NetworkHandler that handles what  *)
(* peers send, and the calls ClientHandler takes from the browser.         *)
(*                                                                         *)
(* Below lies Transport, here what it is meant to be: data to a member of  *)
(* the network arrives, in order and once.  Browser threads interleave     *)
(* with the handler thread, one call or one message at a time, except that *)
(* the answer to a request for the nickname is read and sent in two steps. *)
(***************************************************************************)
EXTENDS Integers, Sequences, FiniteSets

CONSTANTS
    Node,
    Nick,           \* nicknames, among them the empty one
    Empty,          \* "", also the user of the conversation with everyone
    NoNick,         \* null, the nickname of a node that has none yet
    Nobody,         \* null, the address of an unknown user
    Absent,         \* the user of a conversation that is not in the list
    NoReply,
    ConvId,         \* conversation ids, below the size of a HashMap's table
    Names,          \* Names[n]: what the user of n may enter as nickname
    Together,       \* whether users choose names only in a complete network
    MaxNames,       \* bound: nicknames set
    MaxStarts,      \* bound: conversations started
    MaxTexts,       \* bound: messages sent
    MaxPages,       \* bound: pages opened after the first of each node
    MaxClosings     \* bound: pages closed

ASSUME ChatAssumption ==
    /\ Empty \in Nick
    /\ NoNick \notin Nick
    /\ Absent \notin Nick \cup {NoNick}
    /\ Nobody \notin Node
    /\ NoReply \notin [to : Node, nick : Nick \cup {NoNick}]
    /\ ConvId \subseteq Nat
    /\ Names \in [Node -> SUBSET Nick]
    /\ Together \in BOOLEAN
    /\ {MaxNames, MaxStarts, MaxTexts, MaxPages, MaxClosings} \subseteq Nat

VARIABLES
    phase,          \* how far Main has got: "off", "booted", "ready"
    asking,         \* pages of n that ask for a nickname
    open,           \* pages of n past that
    network,        \* network[n] of SocketImpl
    channel,        \* messages from n to m that m has not handled
    nickname,       \* nickname[n]
    byName,         \* usernameAddressMap
    byAddress,      \* addressUsernameMap
    convs,          \* conversationList: the user of each conversation
    reply,          \* the answer the handler thread is about to send
    running,        \* whether the handler thread lives
    partner,        \* history: the node a conversation was made with
    texts,          \* history: messages sent, with their intended readers
    received,       \* history: which of them each node took
    counts          \* names set, talks started, pages opened and closed

transport == <<phase, network>>
pages == <<asking, open>>
user == <<pages, nickname, counts>>
book == <<byName, byAddress>>
talks == <<convs, partner, texts, received>>
thread == <<reply, running>>
vars == <<transport, user, book, talks, thread, channel>>

Everyone == -1
Talk == ConvId \cup {Everyone}
AnyNick == Nick \cup {NoNick}
Peers(n) == Node \ {n}

NickChange(x) == [type |-> "nickChange", nick |-> x, conv |-> 0, text |-> 0]
Text(c, x, t) == [type |-> "text", nick |-> x, conv |-> c, text |-> t]
Leave(x) == [type |-> "leave", nick |-> x, conv |-> 0, text |-> 0]
Invite(c, x) == [type |-> "invite", nick |-> x, conv |-> c, text |-> 0]
RequestNick == [type |-> "requestNick", nick |-> NoNick, conv |-> 0, text |-> 0]
LeaveConversation(c) == [type |-> "leaveConv", nick |-> NoNick, conv |-> c, text |-> 0]

Init ==
    /\ phase = [n \in Node |-> "off"]
    /\ asking = [n \in Node |-> 1]
    /\ open = [n \in Node |-> 0]
    /\ network = [n \in Node |-> {}]
    /\ channel = [n \in Node |-> [m \in Node |-> <<>>]]
    /\ nickname = [n \in Node |-> NoNick]
    /\ byName = [n \in Node |-> [x \in AnyNick |-> Nobody]]
    /\ byAddress = [n \in Node |-> [m \in Node |-> NoNick]]
    /\ convs = [n \in Node |-> [c \in Talk |-> IF c = Everyone THEN Empty ELSE Absent]]
    /\ reply = [n \in Node |-> NoReply]
    /\ running = [n \in Node |-> TRUE]
    /\ partner = [n \in Node |-> [c \in Talk |-> Nobody]]
    /\ texts = <<>>
    /\ received = [n \in Node |-> {}]
    /\ counts = [names |-> 0, starts |-> 0, pages |-> 0, closings |-> 0]

----------------------------------------------------------------------------
\* NetworkHandler.send and broadcast.  What is for a node outside the network,
\* or for nobody, is refused with an exception that is caught and printed.

Sent(n, to, msg) ==
    channel' = [channel EXCEPT ![n] =
        [m \in Node |-> IF m \in to \cap network[n] THEN Append(@[m], msg) ELSE @[m]]]

Broadcast(n, msg) == Sent(n, Node, msg)

\* Seeded fault: an address has one name, and a name one address.
FaultyPut(n, x, m) ==
    /\ byName' = [byName EXCEPT ![n] = [y \in AnyNick |->
          IF y = x THEN m ELSE IF @[y] = m THEN Nobody ELSE @[y]]]
    /\ byAddress' = [byAddress EXCEPT ![n][m] = x]

\* ClientAddressMapper.put: a name that the address had before stays mapped.
Put(n, x, m) ==
    /\ byName' = [byName EXCEPT ![n][x] = m]
    /\ byAddress' = [byAddress EXCEPT ![n][m] = x]

\* Seeded fault: the conversation is kept with no user.
FaultyRemove(n, c) == convs' = [convs EXCEPT ![n][c] = NoNick]

Enter(n, c, x, m) ==
    /\ convs' = [convs EXCEPT ![n][c] = x]
    /\ partner' = [partner EXCEPT ![n][c] = m]

Remove(n, c) == convs' = [convs EXCEPT ![n][c] = Absent]

----------------------------------------------------------------------------
\* Starting up, and the network below.

\* The socket is made and announces itself.
Boot(n) ==
    /\ phase[n] = "off"
    /\ phase' = [phase EXCEPT ![n] = "booted"]
    /\ UNCHANGED <<network, user, book, talks, thread, channel>>

\* Transport enters m into the network of n.
Join(n, m) ==
    /\ phase[n] # "off" /\ phase[m] # "off"
    /\ m \notin network[n]
    /\ network' = [network EXCEPT ![n] = @ \cup {m}]
    /\ UNCHANGED <<phase, user, book, talks, thread, channel>>

\* ApplicationState.setHandlers asks those in the network by then for their
\* names; then the threads are started.
SetHandlers(n) ==
    /\ phase[n] = "booted"
    /\ phase' = [phase EXCEPT ![n] = "ready"]
    /\ Broadcast(n, RequestNick)
    /\ UNCHANGED <<network, user, book, talks, thread>>

----------------------------------------------------------------------------
\* Calls from the browser.

\* Everybody is in the network of everybody, and nobody is being asked.
Assembled ==
    \A n \in Node :
        /\ phase[n] = "ready" /\ network[n] = Peers(n) /\ reply[n] = NoReply
        /\ \A m \in Node : \A k \in DOMAIN channel[n][m] :
              channel[n][m][k].type # "requestNick"

\* Seeded fault: a change of nickname broadcasts the old one.
FaultyAnnounced(n, x) == IF nickname[n] = NoNick THEN x ELSE nickname[n]

Announced(n, x) == x

\* ClientHandler.updateNickname; a name in the address book is refused.  The
\* page goes on asking when the answer is empty, which an empty nickname is
\* too, although it has been set.
SetNickname(n, x) ==
    /\ phase[n] = "ready" /\ asking[n] > 0
    /\ Together => Assembled
    /\ counts.names < MaxNames
    /\ x \in Names[n]
    /\ byName[n][x] = Nobody
    /\ nickname' = [nickname EXCEPT ![n] = x]
    /\ counts' = [counts EXCEPT !.names = @ + 1]
    /\ Broadcast(n, NickChange(Announced(n, x)))
    /\ IF x = Empty
       THEN UNCHANGED pages
       ELSE /\ asking' = [asking EXCEPT ![n] = @ - 1]
            /\ open' = [open EXCEPT ![n] = @ + 1]
    /\ UNCHANGED <<transport, book, talks, thread>>

\* The dialogue for the nickname covers the page.
AtThePage(n) == open[n] > 0

\* ClientHandler.addConversation with a user the page lists.  The page looks
\* for a tab with the user first, but the tab opens only after the call, so
\* that a second click is in time.  The random id is taken to be one that
\* nobody has.
StartConversation(n, x, c) ==
    /\ AtThePage(n)
    /\ counts.starts < MaxStarts
    /\ byName[n][x] # Nobody
    /\ \A m \in Node : convs[m][c] = Absent
    /\ \A m \in Node : partner[m][c] = Nobody
    /\ Enter(n, c, x, byName[n][x])
    /\ Sent(n, {byName[n][x]}, Invite(c, nickname[n]))
    /\ counts' = [counts EXCEPT !.starts = @ + 1]
    /\ UNCHANGED <<transport, pages, nickname, book, texts, received, thread>>

\* Seeded fault: a message for an unknown user is dropped.
FaultyDestination(n, c) == {byName[n][convs[n][c]]}

\* ApplicationState.sendMessage: to the user of the conversation or, if the
\* address book has no address for it, to everyone.
Destination(n, c) ==
    IF byName[n][convs[n][c]] = Nobody THEN Node ELSE {byName[n][convs[n][c]]}

\* ClientHandler.sendMessage.
SendMessage(n, c) ==
    /\ AtThePage(n)
    /\ Len(texts) < MaxTexts
    /\ convs[n][c] # Absent
    /\ texts' = Append(texts,
          [from |-> n, to |-> IF c = Everyone THEN network[n] ELSE {partner[n][c]}])
    /\ Sent(n, Destination(n, c), Text(c, nickname[n], Len(texts) + 1))
    /\ UNCHANGED <<transport, user, book, convs, partner, received, thread>>

\* ClientHandler.leaveConversation.
LeaveTalk(n, c) ==
    /\ AtThePage(n)
    /\ convs[n][c] # Absent
    /\ Sent(n, {byName[n][convs[n][c]]}, LeaveConversation(c))
    /\ Remove(n, c)
    /\ UNCHANGED <<transport, user, book, partner, texts, received, thread>>

\* ClientHandler.onClose: whoever closes or reloads a page leaves; the
\* process stays, and so may other pages.
ClosePage(n) ==
    /\ phase[n] = "ready"
    /\ counts.closings < MaxClosings
    /\ \/ asking[n] > 0 /\ asking' = [asking EXCEPT ![n] = @ - 1] /\ UNCHANGED open
       \/ open[n] > 0 /\ open' = [open EXCEPT ![n] = @ - 1] /\ UNCHANGED asking
    /\ counts' = [counts EXCEPT !.closings = @ + 1]
    /\ Broadcast(n, Leave(nickname[n]))
    /\ UNCHANGED <<transport, nickname, book, talks, thread>>

\* A page opened anew, or a second one, asks for a nickname again.
OpenPage(n) ==
    /\ phase[n] = "ready"
    /\ counts.pages < MaxPages
    /\ asking' = [asking EXCEPT ![n] = @ + 1]
    /\ counts' = [counts EXCEPT !.pages = @ + 1]
    /\ UNCHANGED <<transport, open, nickname, book, talks, thread, channel>>

----------------------------------------------------------------------------
\* NetworkHandler.run on n: the next message from m.

Message(n, m) == Head(channel[m][n])

Receive(n, m, type) ==
    /\ phase[n] = "ready" /\ running[n] /\ reply[n] = NoReply
    /\ channel[m][n] # <<>>
    /\ Message(n, m).type = type
    /\ channel' = [channel EXCEPT ![m][n] = Tail(@)]

\* addUser
HandleNickChange(n, m) ==
    /\ Receive(n, m, "nickChange")
    /\ Put(n, Message(n, m).nick, m)
    /\ UNCHANGED <<transport, user, talks, thread>>

\* receiveMessage: an unknown conversation is made up from the message.
HandleText(n, m) ==
    LET msg == Message(n, m)
    IN  /\ Receive(n, m, "text")
        /\ received' = [received EXCEPT ![n] = @ \cup {msg.text}]
        /\ IF convs[n][msg.conv] = Absent
           THEN Enter(n, msg.conv, msg.nick, m)
           ELSE UNCHANGED <<convs, partner>>
        /\ UNCHANGED <<transport, user, book, texts, thread>>

\* userLeft: conversations with the user are removed while the list is being
\* iterated over.  The iteration goes by id, the conversation with everyone
\* first; removing any but the last of the list makes its next step throw,
\* which nobody catches.
HandleLeave(n, m) ==
    LET listed == {c \in Talk : convs[n][c] # Absent}
        found == {c \in listed : convs[n][c] = Message(n, m).nick}
    IN  /\ Receive(n, m, "leave")
        /\ IF found = {}
           THEN UNCHANGED <<convs, running>>
           ELSE \E c \in found :
                  /\ \A d \in found : c <= d
                  /\ Remove(n, c)
                  /\ running' = [running EXCEPT ![n] = \A d \in listed : d <= c]
        /\ UNCHANGED <<transport, user, book, partner, texts, received, reply>>

\* Seeded fault: an invitation only reaches the page.
FaultyAccept(n, m) == UNCHANGED <<convs, partner>>

Accept(n, m) == Enter(n, Message(n, m).conv, Message(n, m).nick, m)

\* invite
HandleInvite(n, m) ==
    /\ Receive(n, m, "invite")
    /\ Accept(n, m)
    /\ UNCHANGED <<transport, user, book, texts, received, thread>>

\* requestNick, which reads the nickname ...
HandleRequestNick(n, m) ==
    /\ Receive(n, m, "requestNick")
    /\ reply' = [reply EXCEPT ![n] = [to |-> m, nick |-> nickname[n]]]
    /\ UNCHANGED <<transport, user, book, talks, running>>

\* ... and sends it.
Reply(n) ==
    /\ reply[n] # NoReply
    /\ Sent(n, {reply[n].to}, NickChange(reply[n].nick))
    /\ reply' = [reply EXCEPT ![n] = NoReply]
    /\ UNCHANGED <<transport, user, book, talks, running>>

\* leaveConversation(message) only tells the page, which closes its tab.
HandleLeaveConversation(n, m) ==
    /\ Receive(n, m, "leaveConv")
    /\ UNCHANGED <<transport, user, book, talks, thread>>

----------------------------------------------------------------------------

Next ==
    \/ \E n \in Node :
          Boot(n) \/ SetHandlers(n) \/ ClosePage(n) \/ OpenPage(n) \/ Reply(n)
    \/ \E n \in Node : \E x \in Nick :
          SetNickname(n, x) \/ \E c \in ConvId : StartConversation(n, x, c)
    \/ \E n \in Node : \E c \in Talk : SendMessage(n, c)
    \/ \E n \in Node : \E c \in ConvId : LeaveTalk(n, c)
    \/ \E n \in Node : \E m \in Peers(n) :
          \/ Join(n, m)
          \/ HandleNickChange(n, m)
          \/ HandleText(n, m)
          \/ HandleLeave(n, m)
          \/ HandleInvite(n, m)
          \/ HandleRequestNick(n, m)
          \/ HandleLeaveConversation(n, m)

Spec == Init /\ [][Next]_vars

----------------------------------------------------------------------------

Msg == [type : {"nickChange", "text", "leave", "invite", "requestNick", "leaveConv"},
        nick : AnyNick, conv : Talk \cup {0}, text : 0..MaxTexts]

\* The types.  No conversation has a null user: userLeft would die of it.
TypeOK ==
    /\ phase \in [Node -> {"off", "booted", "ready"}]
    /\ asking \in [Node -> Nat]
    /\ open \in [Node -> Nat]
    /\ network \in [Node -> SUBSET Node]
    /\ channel \in [Node -> [Node -> Seq(Msg)]]
    /\ nickname \in [Node -> AnyNick]
    /\ byName \in [Node -> [AnyNick -> Node \cup {Nobody}]]
    /\ byAddress \in [Node -> [Node -> AnyNick]]
    /\ convs \in [Node -> [Talk -> Nick \cup {Absent}]]
    /\ reply \in [Node -> [to : Node, nick : AnyNick] \cup {NoReply}]
    /\ running \in [Node -> BOOLEAN]
    /\ partner \in [Node -> [Talk -> Node \cup {Nobody}]]
    /\ texts \in Seq([from : Node, to : SUBSET Node])
    /\ Len(texts) <= MaxTexts
    /\ received \in [Node -> SUBSET (1..Len(texts))]
    /\ counts \in [names : 0..MaxNames, starts : 0..MaxStarts,
                   pages : 0..MaxPages, closings : 0..MaxClosings]

\* "Sends a text message to the other conversation members": nobody takes a
\* message of a conversation that was not made with them, whatever names are
\* changed and conversations left in between.
PrivateStaysPrivate ==
    \A n \in Node : \A t \in received[n] : n \in texts[t].to

Quiet ==
    /\ \A n, m \in Node : channel[n][m] = <<>>
    /\ \A n \in Node : reply[n] = NoReply

\* When nothing is under way, everybody knows everybody in their network by
\* the name that peer has now.
NamesConverge ==
    Quiet => \A n \in Node : \A m \in network[n] :
        n \in network[m] => byAddress[n][m] = nickname[m]

\* When nothing is under way, every message has been taken by all it was for,
\* the conversation with everyone included.
TextsArrive ==
    Quiet => \A t \in DOMAIN texts : \A n \in texts[t].to : t \in received[n]

\* When nothing is under way, a conversation is listed at both ends or was
\* left at one: at each end it is with the other.
ConversationsAreShared ==
    Quiet => \A n \in Node : \A c \in ConvId :
        convs[n][c] # Absent => partner[partner[n][c]][c] = n
=============================================================================
