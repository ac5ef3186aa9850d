------------------------------ MODULE ChatPage ------------------------------
(***************************************************************************)
(* The pages of app.js that show one node's chat, and the process behind   *)
(* them: ClientHandler and what ApplicationState keeps for the pages.      *)
(* Peers are the environment: any of them sends any message that it may    *)
(* send, at any moment, once it is known by a name, be it null.            *)
(*                                                                         *)
(* A page first subscribes to the notifications and then asks for the      *)
(* conversations and the users there are; what changes meanwhile reaches   *)
(* it in one way, in both, or in none.  A page runs one event at a time; a *)
(* call or a message of a peer changes the state of the process in one     *)
(* step, and is told to the pages in later ones.                           *)
(***************************************************************************)
EXTENDS JsonRpc

CONSTANTS
    Peer,           \* addresses of other nodes
    Nick,           \* nicknames
    Empty,          \* "", the user of the conversation with everyone
    Null,           \* the nickname of a node that has not chosen one
    Nobody,         \* the address of an unknown user
    Absent,         \* the user of a conversation that is not in the list
    Undefined,      \* what a parameter is that was not passed
    ConvId,         \* ids of conversations but the one with everyone
    Names,          \* Names[a]: what the peer a may say its name is
    OwnNames,        \* nicknames that users of this node may enter
    MaxNews,        \* bound: messages of peers
    MaxDeeds        \* bound: what users do

AnyNick == Nick \cup {Null}

ASSUME PageAssumption ==
    /\ Null \notin Nick
    /\ Empty \in Nick
    /\ Absent \notin AnyNick
    /\ Nobody \notin Peer
    /\ ConvId \subseteq Nat
    /\ IsFiniteSet(ConvId) /\ IsFiniteSet(Peer)
    /\ Undefined \notin ConvId \cup {-1}
    /\ Names \in [Peer -> SUBSET AnyNick]
    /\ OwnNames \subseteq Nick
    /\ {"subscribe", "updateNickname", "sendMessage", "getConversations", "getUsers",
        "addConversation", "leaveConversation"} \subseteq Method
    /\ {"newConversation", "leaveConversation", "newUser", "removeUser", "newMessage"}
          \subseteq Stream
    /\ {MaxNews, MaxDeeds} \subseteq Nat

VARIABLES
    nickname,       \* of this node
    byName,         \* usernameAddressMap
    byAddress,      \* addressUsernameMap; Absent where it has no entry
    convs,          \* conversationList: the user of each conversation
    running,        \* whether the handler thread lives
    asking,         \* pages on which the dialogue for the nickname is open
    users,          \* userModel.users
    drawn,          \* the list of users as last drawn
    tabs,           \* conversationModel.conversations
    texts,          \* history: the conversations messages were written in
    handled,        \* history: which of them peers wrote
    partner,        \* history: the peer a conversation was made with
    leavers,        \* history: names of users who left
    left,           \* history: conversations a peer left
    improvised,     \* history: conversations made up from a message
    misled,         \* history: pages told to remove a user they do not list
    counts          \* messages of peers, deeds of users

book == <<byName, byAddress>>
process == <<nickname, book, convs, running>>
lists == <<users, drawn>>
pages == <<asking, lists, tabs>>
talks == <<texts, handled, partner, left, improvised>>
history == <<talks, leavers, misled>>
vars == <<rpc, process, pages, history, counts>>

Everyone == -1
Talk == ConvId \cup {Everyone}
NoItem == Item(Null, 0, 0)

Init ==
    /\ RpcInit
    /\ nickname = Null
    /\ byName = [x \in AnyNick |-> Nobody]
    /\ byAddress = [a \in Peer |-> Absent]
    /\ convs = [c \in Talk |-> IF c = Everyone THEN Empty ELSE Absent]
    /\ running = TRUE
    /\ asking = Page
    /\ users = [p \in Page |-> <<>>]
    /\ drawn = [p \in Page |-> <<>>]
    /\ tabs = [p \in Page |-> <<>>]
    /\ texts = <<>>
    /\ handled = {}
    /\ partner = [c \in Talk |-> Nobody]
    /\ leavers = {}
    /\ left = {}
    /\ improvised = {}
    /\ misled = {}
    /\ counts = [news |-> 0, deeds |-> 0]

Listed == {c \in Talk : convs[c] # Absent}

\* The order of conversationList, whose ids are named so that it is ascending.
Sorted(S) ==
    [i \in 1..Cardinality(S) |-> CHOOSE k \in S : Cardinality({j \in S : j <= k}) = i]

Count(what, max) == counts[what] < max /\ counts' = [counts EXCEPT ![what] = @ + 1]

----------------------------------------------------------------------------
\* What users do on a page.

Ask(method, arg) == [method |-> method, arg |-> arg]
Subscription(s) == Ask("subscribe", Item(s, 0, 0))

\* Seeded fault: the page asks what there is before it subscribes.
FaultyGreeting ==
    <<Ask("getConversations", NoItem), Ask("getUsers", NoItem),
      Subscription("newConversation"), Subscription("leaveConversation"),
      Subscription("newUser"), Subscription("removeUser"), Subscription("newMessage")>>

\* The calls of the handler of "open".
Greeting ==
    <<Subscription("newConversation"), Subscription("leaveConversation"),
      Subscription("newUser"), Subscription("removeUser"), Subscription("newMessage"),
      Ask("getConversations", NoItem), Ask("getUsers", NoItem)>>

\* The socket of the page opens.
Connect(p) ==
    /\ open[p] = "connecting"
    /\ open' = [open EXCEPT ![p] = "open"]
    /\ Call(p, Greeting)
    /\ UNCHANGED <<messages, answered, server, process, pages, history, counts>>

\* A call by a user.  Without an open socket it would only be an error.
Deed(p, method, arg) ==
    /\ open[p] = "open"
    /\ Count("deeds", MaxDeeds)
    /\ Call(p, <<Ask(method, arg)>>)
    /\ UNCHANGED <<open, messages, answered, server, process, pages, leavers, misled>>

\* updateNickname, from the dialogue that covers the page.
ChooseNickname(p, x) ==
    /\ p \in asking
    /\ x \in OwnNames
    /\ Deed(p, "updateNickname", Item(x, 0, 0))
    /\ UNCHANGED talks

\* The title of a tab, and what makes it one that can be closed.
Title(x) == IF x = Empty THEN "Everyone" ELSE x
Removable(tab) == tab.title # Title(Empty)

\* startConversation, for a user that has no tab.
StartConversation(p, k) ==
    /\ p \notin asking
    /\ \A i \in DOMAIN tabs[p] : tabs[p][i].title # drawn[p][k]
    /\ Deed(p, "addConversation", Item(drawn[p][k], 0, 0))
    /\ UNCHANGED talks

\* sendMessage: the field is emptied, and the message appears with the result.
WriteText(p, k) ==
    /\ p \notin asking
    /\ Deed(p, "sendMessage", Item(Null, tabs[p][k].conv, Len(texts) + 1))
    /\ texts' = Append(texts, tabs[p][k].conv)
    /\ UNCHANGED <<handled, partner, left, improvised>>

\* closeConversation passes the conversation where removeConversation expects
\* an id, so that no tab goes yet.
CloseTab(p, k) ==
    /\ p \notin asking
    /\ Removable(tabs[p][k])
    /\ Deed(p, "leaveConversation", Item(Null, tabs[p][k].conv, 0))
    /\ UNCHANGED talks

\* What was called before is still served.
ClosePage(p) ==
    /\ open[p] = "open"
    /\ Count("deeds", MaxDeeds)
    /\ open' = [open EXCEPT ![p] = "closed"]
    /\ messages' = [messages EXCEPT ![p] = <<>>]
    /\ UNCHANGED <<nextId, callbacks, answered, requests, server, process, pages, history>>

----------------------------------------------------------------------------
\* What the server does with a call of p.

Unserved == <<client, messages, pages, leavers, misled, counts>>

ServeSubscribe(p) ==
    /\ Subscribe(p)
    /\ UNCHANGED <<Unserved, process, talks>>

\* ClientHandler.updateNickname; "" is the answer when the name is in use.
ServeUpdateNickname(p) ==
    LET x == Request(p).arg.name
        free == byName[x] = Nobody
    IN  /\ Served(p, "updateNickname",
              <<Result(Request(p), <<Item(IF free THEN x ELSE Empty, 0, 0)>>)>>)
        /\ nickname' = IF free THEN x ELSE nickname
        /\ UNCHANGED <<Unserved, subscribers, book, convs, running, talks>>

\* ClientHandler.sendMessage; the result is the message.
ServeSendMessage(p) ==
    /\ Served(p, "sendMessage", <<Result(Request(p), <<Request(p).arg>>)>>)
    /\ Request(p).arg.conv \in Listed
    /\ UNCHANGED <<Unserved, subscribers, process, talks>>

\* ClientHandler.getConversations.
ServeGetConversations(p) ==
    LET order == Sorted(Listed)
    IN  /\ Served(p, "getConversations",
              <<Result(Request(p), [k \in DOMAIN order |-> Item(convs[order[k]], order[k], 0)])>>)
        /\ UNCHANGED <<Unserved, subscribers, process, talks>>

\* ClientHandler.getUsers.
ServeGetUsers(p) ==
    LET known == SetToSeq({a \in Peer : byAddress[a] # Absent})
    IN  /\ Served(p, "getUsers",
              <<Result(Request(p), [k \in DOMAIN known |-> Item(byAddress[known[k]], 0, 0)])>>)
        /\ UNCHANGED <<Unserved, subscribers, process, talks>>

\* ClientHandler.addConversation; the random id is taken to be a new one.
ServeAddConversation(p, c) ==
    LET x == Request(p).arg.name
    IN  /\ Served(p, "addConversation",
              <<Note("newConversation", <<Item(x, c, 0)>>), Result(Request(p), <<>>)>>)
        /\ x # Null
        /\ partner[c] = Nobody
        /\ convs' = [convs EXCEPT ![c] = x]
        /\ partner' = [partner EXCEPT ![c] = byName[x]]
        /\ UNCHANGED <<Unserved, subscribers, nickname, book, running,
                       texts, handled, left, improvised>>

\* ClientHandler.leaveConversation.
ServeLeaveConversation(p) ==
    LET c == Request(p).arg.conv
    IN  /\ Served(p, "leaveConversation",
              <<Note("leaveConversation", <<Item(Null, c, 0)>>), Result(Request(p), <<>>)>>)
        /\ c \in Listed
        /\ convs' = [convs EXCEPT ![c] = Absent]
        /\ UNCHANGED <<Unserved, subscribers, nickname, book, running, talks>>

\* A call fails on a conversation that is not listed, and on a user or an id
\* that is null: the page hears of an error.
ServeFailing(p) ==
    /\ \/ /\ Served(p, "addConversation", <<Failure(Request(p))>>)
          /\ Request(p).arg.name = Null
       \/ /\ \E method \in {"sendMessage", "leaveConversation"} :
                Served(p, method, <<Failure(Request(p))>>)
          /\ Request(p).arg.conv \notin Listed
    /\ UNCHANGED <<Unserved, subscribers, process, talks>>

\* The next notification or result of a thread.
SendNext(t) ==
    /\ outbox[t] # <<>> /\ Head(outbox[t]).kind # "drop"
    /\ Send(t)
    /\ UNCHANGED <<client, requests, subscribers, process, pages, history, counts>>

----------------------------------------------------------------------------
\* The handler thread takes a message of peer a, whose name it has.

News(sends) ==
    /\ running /\ Free(Handler)
    /\ Count("news", MaxNews)
    /\ outbox' = [outbox EXCEPT ![Handler] = sends]

Unmoved == <<client, wire, subscribers, nickname, running, pages>>

Known(a) == byAddress[a] # Absent

\* addUser
HandleNickChange(a, x) ==
    /\ x \in Names[a]
    /\ x = Null => byAddress[a] \in {Null, Absent}
    /\ News(<<Note("newUser", <<Item(x, 0, 0)>>)>>)
    /\ byName' = [byName EXCEPT ![x] = a]
    /\ byAddress' = [byAddress EXCEPT ![a] = x]
    /\ leavers' = leavers \ {x}
    /\ UNCHANGED <<Unmoved, convs, talks, misled>>

\* receiveMessage.  A conversation that is not listed is made up, and shown to
\* the pages as one parameter instead of three.
HandleText(a, c) ==
    LET message == Note("newMessage", <<Item(byAddress[a], c, Len(texts) + 1)>>)
    IN  /\ Known(a)
        /\ c = Everyone \/ (partner[c] = a /\ c \notin left)
        /\ texts' = Append(texts, c)
        /\ handled' = handled \cup {Len(texts) + 1}
        /\ IF c \in Listed
           THEN /\ News(<<message>>)
                /\ UNCHANGED <<convs, improvised>>
           ELSE /\ News(<<Note("newConversation", <<Item(Undefined, Undefined, 0)>>), message>>)
                /\ convs' = [convs EXCEPT ![c] = byAddress[a]]
                /\ improvised' = improvised \cup {c}
        /\ UNCHANGED <<Unmoved, book, partner, left, leavers, misled>>

\* userLeft: first the pages are told, then the conversations are dropped.
DropTalksWith(x) == [kind |-> "drop", id |-> -1, of |-> "drop", value |-> <<Item(x, 0, 0)>>]

HandleLeave(a) ==
    /\ Known(a)
    /\ News(<<Note("removeUser", <<Item(byAddress[a], 0, 0)>>), DropTalksWith(byAddress[a])>>)
    /\ leavers' = leavers \cup {byAddress[a]}
    /\ UNCHANGED <<Unmoved, book, convs, talks, misled>>

\* The loop of userLeft: removing any conversation but the last of the list
\* makes its next step throw, and the thread dies.  The pages hear nothing.
DropTalks ==
    LET x == Head(outbox[Handler]).value[1].name
        found == {c \in Listed : convs[c] = x}
    IN  /\ outbox[Handler] # <<>> /\ Head(outbox[Handler]).kind = "drop"
        /\ outbox' = [outbox EXCEPT ![Handler] = Tail(@)]
        /\ IF found = {}
           THEN UNCHANGED <<convs, running>>
           ELSE \E c \in found :
                  /\ \A d \in found : c <= d
                  /\ convs' = [convs EXCEPT ![c] = Absent]
                  /\ running' = (\A d \in Listed : d <= c)
        /\ UNCHANGED <<client, wire, subscribers, nickname, book, pages, history, counts>>

\* invite
HandleInvite(a, c) ==
    /\ Known(a) /\ byAddress[a] # Null
    /\ partner[c] = Nobody
    /\ News(<<Note("newConversation", <<Item(byAddress[a], c, 0)>>)>>)
    /\ convs' = [convs EXCEPT ![c] = byAddress[a]]
    /\ partner' = [partner EXCEPT ![c] = a]
    /\ UNCHANGED <<Unmoved, book, texts, handled, left, improvised, leavers, misled>>

\* leaveConversation(message) leaves the conversation in the list.
HandleLeaveConversation(a, c) ==
    /\ partner[c] = a /\ c \notin left
    /\ News(<<Note("leaveConversation", <<Item(Null, c, 0)>>)>>)
    /\ left' = left \cup {c}
    /\ UNCHANGED <<Unmoved, book, convs, texts, handled, partner, improvised, leavers, misled>>

----------------------------------------------------------------------------
\* What a page does with the next message.

Value(p) == Head(messages[p]).value
TheItem(p) == Value(p)[1]

Tab(x, c) == [title |-> Title(x), conv |-> c, texts |-> <<>>]

\* The listener of newConversation.
AddTabs(p, items) ==
    tabs' = [tabs EXCEPT ![p] = @ \o [k \in DOMAIN items |-> Tab(items[k].name, items[k].conv)]]

\* Seeded fault: the newest message is shown at the top of its tab.
NewestAtTheTop(p, c, t) ==
    tabs' = [tabs EXCEPT ![p] = [k \in DOMAIN @ |->
        IF @[k].conv = c THEN [@[k] EXCEPT !.texts = <<t>> \o @] ELSE @[k]]]

Shows(tab, t) == [tab EXCEPT !.texts = Append(@, t)]

\* Seeded fault: a message is shown in all tabs.
ShownInAllTabs(p, c, t) ==
    tabs' = [tabs EXCEPT ![p] = [k \in DOMAIN @ |-> Shows(@[k], t)]]

\* The listener of newMessage: every tab of the conversation shows it.
AddText(p, c, t) ==
    tabs' = [tabs EXCEPT ![p] = [k \in DOMAIN @ |->
        IF @[k].conv = c THEN Shows(@[k], t) ELSE @[k]]]

\* removeConversation splices while it goes through the indices, so that the
\* tab after one that is removed is not looked at: of tabs in a row, those after
\* the j-th, every second stays.
RemoveTabs(p, c) ==
    LET own == {k \in DOMAIN tabs[p] : tabs[p][k].conv = c}
        cut == {k \in own : \E j \in 0..k - 1 :
                   j \notin own /\ j + 1..k \subseteq own /\ (k - j) % 2 = 1}
        rest == DOMAIN tabs[p] \ cut
    IN  tabs' = [tabs EXCEPT ![p] =
            [i \in 1..Cardinality(rest) |-> @[Sorted(rest)[i]]]]

\* Seeded fault: the users there are replace those heard of before.
FaultyAddUsers(p, items) ==
    /\ users' = [users EXCEPT ![p] = [k \in DOMAIN items |-> items[k].name]]
    /\ drawn' = users'

\* ng-repeat gives up, and leaves the list as it was drawn before, when a
\* name occurs twice.  Names are added, and drawn, one by one.
AddUsers(p, items) ==
    LET all == users[p] \o [k \in DOMAIN items |-> items[k].name]
        drawable == {k \in Len(users[p]) + 1..Len(all) : IsInjective(SubSeq(all, 1, k))}
    IN  /\ users' = [users EXCEPT ![p] = all]
        /\ drawn' = [drawn EXCEPT ![p] =
              IF drawable = {} THEN @ ELSE SubSeq(all, 1, Max(drawable))]

\* Seeded fault: "delete" instead of splice leaves a hole in the list.
FaultyRemoveUser(p, x) ==
    /\ users' = [users EXCEPT ![p] =
          [k \in DOMAIN @ |-> IF @[k] = x THEN Undefined ELSE @[k]]]
    /\ UNCHANGED <<drawn, misled>>

\* splice(indexOf(x), 1): the last user goes if x is not listed.
RemoveUser(p, x) ==
    LET places == {k \in DOMAIN users[p] : users[p][k] = x}
        rest == CASE users[p] = <<>> -> <<>>
                  [] places # {} -> RemoveAt(users[p], Min(places))
                  [] OTHER -> Front(users[p])
    IN  /\ users' = [users EXCEPT ![p] = rest]
        /\ drawn' = [drawn EXCEPT ![p] = IF IsInjective(rest) THEN rest ELSE @]
        /\ misled' = IF places = {} THEN misled \cup {p} ELSE misled

Untaken == <<open, nextId, callbacks, requests, server, process, talks, leavers, counts>>

\* A result, for its callback.
TakeResult(p, method) ==
    /\ Take(p, "result")
    /\ CallbackOf(p) = method
    /\ UNCHANGED Untaken

TakeSilently(p) ==
    /\ \E method \in {"subscribe", "addConversation", "leaveConversation"} :
          TakeResult(p, method)
    /\ UNCHANGED <<pages, misled>>

TakeNickname(p) ==
    /\ TakeResult(p, "updateNickname")
    /\ asking' = IF TheItem(p).name # Empty THEN asking \ {p} ELSE asking
    /\ UNCHANGED <<lists, tabs, misled>>

TakeOwnText(p) ==
    /\ TakeResult(p, "sendMessage")
    /\ AddText(p, TheItem(p).conv, TheItem(p).text)
    /\ UNCHANGED <<asking, lists, misled>>

TakeConversations(p) ==
    /\ TakeResult(p, "getConversations")
    /\ AddTabs(p, Value(p))
    /\ UNCHANGED <<asking, lists, misled>>

TakeUsers(p) ==
    /\ TakeResult(p, "getUsers")
    /\ AddUsers(p, Value(p))
    /\ UNCHANGED <<asking, tabs, misled>>

TakeError(p) ==
    /\ Take(p, "error")
    /\ UNCHANGED <<Untaken, pages, misled>>

\* A notification, for the listeners of its stream.
TakeNote(p, s) ==
    /\ Take(p, "note")
    /\ Head(messages[p]).of = s
    /\ UNCHANGED <<Untaken, asking>>

TakeNewConversation(p) ==
    TakeNote(p, "newConversation") /\ AddTabs(p, Value(p)) /\ UNCHANGED <<lists, misled>>

TakeNewMessage(p) ==
    /\ TakeNote(p, "newMessage")
    /\ AddText(p, TheItem(p).conv, TheItem(p).text)
    /\ UNCHANGED <<lists, misled>>

TakeLeaveConversation(p) ==
    TakeNote(p, "leaveConversation") /\ RemoveTabs(p, TheItem(p).conv) /\ UNCHANGED <<lists, misled>>

TakeNewUser(p) ==
    TakeNote(p, "newUser") /\ AddUsers(p, Value(p)) /\ UNCHANGED <<tabs, misled>>

TakeRemoveUser(p) ==
    TakeNote(p, "removeUser") /\ RemoveUser(p, TheItem(p).name) /\ UNCHANGED tabs

----------------------------------------------------------------------------

Next ==
    \/ \E p \in Page :
          \/ Connect(p) \/ ClosePage(p)
          \/ \E x \in OwnNames : ChooseNickname(p, x)
          \/ \E k \in DOMAIN drawn[p] : StartConversation(p, k)
          \/ \E k \in DOMAIN tabs[p] : WriteText(p, k) \/ CloseTab(p, k)
    \/ \E p \in Page :
          \/ ServeSubscribe(p)
          \/ ServeUpdateNickname(p)
          \/ ServeSendMessage(p)
          \/ ServeGetConversations(p)
          \/ ServeGetUsers(p)
          \/ \E c \in ConvId : ServeAddConversation(p, c)
          \/ ServeLeaveConversation(p)
          \/ ServeFailing(p)
    \/ \E a \in Peer :
          \/ \E x \in AnyNick : HandleNickChange(a, x)
          \/ \E c \in Talk : HandleText(a, c)
          \/ HandleLeave(a)
          \/ \E c \in ConvId : HandleInvite(a, c) \/ HandleLeaveConversation(a, c)
    \/ DropTalks
    \/ \E t \in Thread : SendNext(t)
    \/ \E p \in Page :
          \/ TakeSilently(p)
          \/ TakeNickname(p)
          \/ TakeOwnText(p)
          \/ TakeConversations(p)
          \/ TakeUsers(p)
          \/ TakeError(p)
          \/ TakeNewConversation(p)
          \/ TakeNewMessage(p)
          \/ TakeLeaveConversation(p)
          \/ TakeNewUser(p)
          \/ TakeRemoveUser(p)

Spec == Init /\ [][Next]_vars

----------------------------------------------------------------------------

AnItem == [name : AnyNick \cup Stream \cup {Undefined}, conv : Talk \cup {0, Undefined},
           text : 0..MaxNews + MaxDeeds]
Sent == [kind : {"result", "error", "note", "drop"}, id : Nat \cup {-1},
         of : Method \cup Stream \cup {"drop"}, value : Seq(AnItem)]

TypeOK ==
    /\ open \in [Page -> {"connecting", "open", "closed"}]
    /\ nextId \in [Page -> Nat]
    /\ callbacks \in [Page -> Seq(Method)]
    /\ answered \in [Page -> Seq(Nat)]
    /\ requests \in [Page -> Seq([id : Nat, method : Method, arg : AnItem])]
    /\ messages \in [Page -> Seq(Sent)]
    /\ subscribers \in [Stream -> SUBSET Page]
    /\ outbox \in [Thread -> Seq(Sent)]
    /\ nickname \in AnyNick
    /\ byName \in [AnyNick -> Peer \cup {Nobody}]
    /\ byAddress \in [Peer -> AnyNick \cup {Absent}]
    /\ convs \in [Talk -> AnyNick \cup {Absent}]
    /\ running \in BOOLEAN
    /\ asking \subseteq Page
    /\ users \in [Page -> Seq(AnyNick)]
    /\ drawn \in [Page -> Seq(AnyNick)]
    /\ tabs \in [Page -> Seq([title : AnyNick \cup {Title(Empty), Undefined},
                              conv : Talk \cup {Undefined}, texts : Seq(1..Len(texts))])]
    /\ texts \in Seq(Talk \cup {Undefined})
    /\ handled \subseteq 1..Len(texts)
    /\ partner \in [Talk -> Peer \cup {Nobody}]
    /\ leavers \subseteq AnyNick
    /\ left \subseteq ConvId
    /\ improvised \subseteq Talk
    /\ misled \subseteq Page
    /\ counts \in [news : 0..MaxNews, deeds : 0..MaxDeeds]

\* Nothing is called, sent or under way, and the page is loaded.
Quiet ==
    /\ \A t \in Thread : Free(t)
    /\ \A p \in Page : requests[p] = <<>> /\ messages[p] = <<>>

Loaded(p) == Quiet /\ open[p] = "open"

\* A loaded page has a tab for every conversation the process lists, made
\* before, while or after the page asked for the list, here, by a peer or on
\* another page; but for those a peer has left, and those made up from a
\* message, which are shown in a tab of no conversation.
ConversationsHaveTabs ==
    \A p \in Page : Loaded(p) =>
        \A c \in Listed \ (left \cup improvised) :
            \E k \in DOMAIN tabs[p] : tabs[p][k].conv = c

\* What peers write appears in the order of writing, and once there is a tab
\* it misses nothing: not by other calls, tabs that come and go, or other
\* pages.
TabsMissNothing ==
    \A p \in Page : Loaded(p) => \A k \in DOMAIN tabs[p] :
        LET shown == tabs[p][k].texts
        IN  /\ \A i, j \in DOMAIN shown :
                  i < j /\ {shown[i], shown[j]} \subseteq handled => shown[i] < shown[j]
            /\ \A t \in ToSet(shown) \cap handled : \A u \in handled :
                  t < u /\ texts[u] = tabs[p][k].conv => u \in ToSet(shown)

\* A tab shows messages of its own conversation and none twice, although the
\* writer's page hears of them by a result and the others by a notification.
TextsInOwnTab ==
    \A p \in Page : \A k \in DOMAIN tabs[p] :
        /\ IsInjective(tabs[p][k].texts)
        /\ \A t \in ToSet(tabs[p][k].texts) : texts[t] = tabs[p][k].conv

\* A loaded page lists every peer by its present name, unless that name left,
\* or the page was once told to remove a name it did not list.
UsersAreListed ==
    \A p \in Page : Loaded(p) /\ p \notin misled =>
        \A a \in Peer :
            Known(a) /\ byAddress[a] \notin leavers => byAddress[a] \in ToSet(users[p])
=============================================================================
