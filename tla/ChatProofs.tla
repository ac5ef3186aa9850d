----------------------------- MODULE ChatProofs -----------------------------
(***************************************************************************)
(* What the chat application keeps, for any number of nodes, users, names, *)
(* conversations, messages and pages.                                      *)
(***************************************************************************)
EXTENDS Chat, TLAPS

\* The messages in a channel, whatever their order.
Content(s) == {s[k] : k \in DOMAIN s}

\* Messages of a conversation.
Addressed == {"text", "invite"}

\* Who writes in a conversation has a name; of n texts written, n are numbered.
Sound(msg, n) ==
    /\ msg.type \in Addressed => msg.nick \in Nick
    /\ msg.type = "text" => msg.conv \in Talk /\ msg.text \in 1..n
    /\ msg.type = "invite" => msg.conv \in ConvId

MessagesSound ==
    \A x, y \in Node : \A msg \in Content(channel[x][y]) : Sound(msg, Len(texts))

NamedAtThePage == \A n \in Node : AtThePage(n) => nickname[n] # NoNick

TalksHavePartners ==
    \A n \in Node : \A c \in ConvId : convs[n][c] # Absent => partner[n][c] \in Node

TypeInv ==
    /\ TypeOK
    /\ NamedAtThePage
    /\ MessagesSound
    /\ TalksHavePartners

----------------------------------------------------------------------------
(* Channels: a message more at the end, or the first one less.             *)

LEMMA AppendContent ==
    ASSUME NEW S, NEW s \in Seq(S), NEW e \in S
    PROVE  /\ Append(s, e) \in Seq(S)
           /\ Content(Append(s, e)) = Content(s) \cup {e}
<1>1. /\ Append(s, e) \in Seq(S)
      /\ Len(s) \in Nat /\ DOMAIN s = 1..Len(s)
      /\ DOMAIN Append(s, e) = 1..Len(s) + 1
      /\ \A k \in 1..Len(s) : Append(s, e)[k] = s[k]
      /\ Append(s, e)[Len(s) + 1] = e
  OBVIOUS
<1> QED  BY <1>1 DEF Content

LEMMA TailContent ==
    ASSUME NEW S, NEW s \in Seq(S), s # <<>>
    PROVE  /\ Tail(s) \in Seq(S)
           /\ Head(s) \in Content(s)
           /\ Content(s) = Content(Tail(s)) \cup {Head(s)}
<1>1. /\ Tail(s) \in Seq(S) /\ Head(s) = s[1]
      /\ Len(s) \in Nat /\ Len(s) >= 1 /\ DOMAIN s = 1..Len(s)
      /\ DOMAIN Tail(s) = 1..Len(s) - 1
      /\ \A k \in 1..Len(s) - 1 : Tail(s)[k] = s[k + 1]
  OBVIOUS
<1>2. Head(s) \in Content(s)
  BY <1>1 DEF Content
<1>3. \A k \in 1..Len(s) - 1 : k + 1 \in DOMAIN s
  BY <1>1
<1>4. Content(Tail(s)) \subseteq Content(s)
  BY <1>1, <1>3 DEF Content
<1>5. ASSUME NEW k \in DOMAIN s PROVE s[k] \in Content(Tail(s)) \cup {Head(s)}
  <2>1. CASE k = 1  BY <2>1, <1>1
  <2>2. CASE k # 1
    <3>1. k - 1 \in DOMAIN Tail(s) /\ s[k] = Tail(s)[k - 1]
      BY <2>2, <1>1
    <3> QED  BY <3>1 DEF Content
  <2> QED  BY <2>1, <2>2
<1> QED  BY <1>1, <1>2, <1>4, <1>5 DEF Content

LEMMA ContentType ==
    ASSUME NEW S, NEW s \in Seq(S)
    PROVE  Content(s) \subseteq S
BY DEF Content

\* Where a message goes that n sends.
Reached(n, to, x, y) == x = n /\ y \in to /\ y \in network[n]

(* A message that is sent: which channels it is added to, and what is then *)
(* in them.                                                                *)
LEMMA SentChannel ==
    ASSUME channel \in [Node -> [Node -> Seq(Msg)]],
           NEW n \in Node, NEW to, NEW msg \in Msg, Sent(n, to, msg)
    PROVE  /\ channel' \in [Node -> [Node -> Seq(Msg)]]
           /\ \A x, y \in Node :
                 /\ Reached(n, to, x, y) => channel'[x][y] = Append(channel[x][y], msg)
                 /\ ~Reached(n, to, x, y) => channel'[x][y] = channel[x][y]
<1>1. \A x, y \in Node : channel[x][y] \in Seq(Msg)
  OBVIOUS
<1>2. channel' = [channel EXCEPT ![n] =
        [m \in Node |-> IF m \in to \cap network[n]
                        THEN Append(channel[n][m], msg) ELSE channel[n][m]]]
  BY DEF Sent
<1>3. \A x, y \in Node :
         /\ Reached(n, to, x, y) => channel'[x][y] = Append(channel[x][y], msg)
         /\ ~Reached(n, to, x, y) => channel'[x][y] = channel[x][y]
  BY <1>2 DEF Reached
<1>4. ASSUME NEW y \in Node PROVE Append(channel[n][y], msg) \in Seq(Msg)
  BY <1>1, AppendContent
<1>5. channel' \in [Node -> [Node -> Seq(Msg)]]
  BY <1>1, <1>2, <1>4
<1> QED  BY <1>3, <1>5

LEMMA SentContent ==
    ASSUME channel \in [Node -> [Node -> Seq(Msg)]],
           NEW n \in Node, NEW to, NEW msg \in Msg, Sent(n, to, msg),
           NEW x \in Node, NEW y \in Node
    PROVE  /\ Content(channel[x][y]) \subseteq Content(channel'[x][y])
           /\ Reached(n, to, x, y) => msg \in Content(channel'[x][y])
           /\ Content(channel'[x][y]) \subseteq Content(channel[x][y]) \cup {msg}
           /\ \/ Reached(n, to, x, y)
              \/ Content(channel'[x][y]) = Content(channel[x][y])
<1>1. channel[x][y] \in Seq(Msg)
  OBVIOUS
<1>2. CASE Reached(n, to, x, y)
  <2>1. channel'[x][y] = Append(channel[x][y], msg)
    BY <1>2, SentChannel
  <2>2. Content(channel'[x][y]) = Content(channel[x][y]) \cup {msg}
    BY <2>1, <1>1, AppendContent
  <2> QED  BY <2>2, <1>2
<1>3. CASE ~Reached(n, to, x, y)
  <2>1. channel'[x][y] = channel[x][y]
    BY <1>3, SentChannel
  <2> QED  BY <2>1, <1>3
<1> QED  BY <1>2, <1>3

(* A message that is handled.                                              *)
LEMMA ReceivedChannel ==
    ASSUME channel \in [Node -> [Node -> Seq(Msg)]],
           NEW n \in Node, NEW m \in Peers(n), NEW type, Receive(n, m, type)
    PROVE  /\ m \in Node /\ m # n
           /\ Message(n, m) \in Msg /\ Message(n, m).type = type
           /\ Message(n, m) \in Content(channel[m][n])
           /\ channel[m][n] # <<>> /\ channel[m][n] \in Seq(Msg)
           /\ channel' \in [Node -> [Node -> Seq(Msg)]]
           /\ \A x, y \in Node : channel'[x][y] =
                 IF x = m /\ y = n THEN Tail(channel[m][n]) ELSE channel[x][y]
           /\ \A x, y \in Node : Content(channel'[x][y]) \subseteq Content(channel[x][y])
           /\ \A x, y \in Node : \A p \in Content(channel[x][y]) :
                 \/ p \in Content(channel'[x][y])
                 \/ x = m /\ y = n /\ p = Message(n, m)
<1>1. m \in Node /\ m # n
  BY DEF Peers
<1>2. channel[m][n] \in Seq(Msg) /\ channel[m][n] # <<>>
  BY <1>1 DEF Receive
<1>3. /\ Tail(channel[m][n]) \in Seq(Msg)
      /\ Head(channel[m][n]) \in Content(channel[m][n])
      /\ Content(channel[m][n]) = Content(Tail(channel[m][n])) \cup {Head(channel[m][n])}
  BY <1>2, TailContent
<1>4. Content(channel[m][n]) \subseteq Msg
  BY <1>2, ContentType
<1>5. channel' = [channel EXCEPT ![m][n] = Tail(channel[m][n])]
  BY <1>1 DEF Receive
<1>6. \A x, y \in Node : channel'[x][y] =
                 IF x = m /\ y = n THEN Tail(channel[m][n]) ELSE channel[x][y]
  BY <1>1, <1>5
<1>7. channel' \in [Node -> [Node -> Seq(Msg)]]
  BY <1>1, <1>3, <1>5
<1> QED  BY <1>1, <1>2, <1>3, <1>4, <1>6, <1>7, SMTT(30) DEF Message, Receive

LEMMA MessageTypes ==
    ASSUME NEW x \in AnyNick, NEW c \in Talk, NEW t \in 0..MaxTexts
    PROVE  /\ NickChange(x) \in Msg /\ NickChange(x).type = "nickChange"
           /\ Text(c, x, t) \in Msg /\ Text(c, x, t).type = "text"
           /\ Leave(x) \in Msg /\ Leave(x).type = "leave"
           /\ Invite(c, x) \in Msg /\ Invite(c, x).type = "invite"
           /\ RequestNick \in Msg /\ RequestNick.type = "requestNick"
           /\ LeaveConversation(c) \in Msg /\ LeaveConversation(c).type = "leaveConv"
BY ChatAssumption
   DEF NickChange, Text, Leave, Invite, RequestNick, LeaveConversation, Msg, AnyNick

----------------------------------------------------------------------------
(* Types.                                                                  *)

Counts == [names : 0..MaxNames, starts : 0..MaxStarts,
           pages : 0..MaxPages, closings : 0..MaxClosings]

LEMMA CountMore ==
    ASSUME counts \in Counts
    PROVE  /\ counts.names < MaxNames =>
                 [counts EXCEPT !.names = @ + 1] \in Counts
           /\ counts.starts < MaxStarts =>
                 [counts EXCEPT !.starts = @ + 1] \in Counts
           /\ counts.pages < MaxPages =>
                 [counts EXCEPT !.pages = @ + 1] \in Counts
           /\ counts.closings < MaxClosings =>
                 [counts EXCEPT !.closings = @ + 1] \in Counts
<1>1. \A max \in Nat : \A k \in 0..max : k < max => k + 1 \in 0..max
  OBVIOUS
<1> QED  BY <1>1, ChatAssumption DEF Counts

LEMMA SentSound ==
    ASSUME TypeInv, NEW n \in Node, NEW to, NEW msg \in Msg, Sent(n, to, msg),
           Len(texts') \in Nat, Len(texts) <= Len(texts'), Sound(msg, Len(texts'))
    PROVE  channel' \in [Node -> [Node -> Seq(Msg)]] /\ MessagesSound'
<1>1. channel \in [Node -> [Node -> Seq(Msg)]] /\ Len(texts) \in Nat
  BY DEF TypeInv, TypeOK
<1>2. channel' \in [Node -> [Node -> Seq(Msg)]]
  BY <1>1, SentChannel
<1>3. \A p : Sound(p, Len(texts)) => Sound(p, Len(texts'))
  <2>1. \A k \in 1..Len(texts) : k \in 1..Len(texts')
    BY <1>1
  <2> QED  BY <2>1 DEF Sound
<1>4. ASSUME NEW x \in Node, NEW y \in Node, NEW p \in Content(channel'[x][y])
      PROVE  Sound(p, Len(texts'))
  <2>1. Content(channel'[x][y]) \subseteq Content(channel[x][y]) \cup {msg}
    BY <1>1, SentContent
  <2> QED  BY <2>1, <1>3 DEF TypeInv, MessagesSound
<1> QED  BY <1>2, <1>4 DEF MessagesSound

LEMMA ReceivedSound ==
    ASSUME TypeInv, NEW n \in Node, NEW m \in Peers(n), NEW type, Receive(n, m, type),
           UNCHANGED texts
    PROVE  /\ channel' \in [Node -> [Node -> Seq(Msg)]] /\ MessagesSound'
           /\ m \in Node /\ Message(n, m) \in Msg /\ Message(n, m).type = type
           /\ Sound(Message(n, m), Len(texts))
<1>1. channel \in [Node -> [Node -> Seq(Msg)]]
  BY DEF TypeInv, TypeOK
<1>2. /\ m \in Node /\ Message(n, m) \in Msg /\ Message(n, m).type = type
      /\ Message(n, m) \in Content(channel[m][n])
      /\ channel' \in [Node -> [Node -> Seq(Msg)]]
      /\ \A x, y \in Node : Content(channel'[x][y]) \subseteq Content(channel[x][y])
  BY <1>1, ReceivedChannel
<1>3. MessagesSound'
  BY <1>2 DEF TypeInv, MessagesSound
<1> QED  BY <1>2, <1>3 DEF TypeInv, MessagesSound

(* Conversations that come and go.                                         *)
LEMMA EnterTypes ==
    ASSUME TypeInv, NEW n \in Node, NEW c \in Talk, NEW x \in Nick, NEW m \in Node,
           Enter(n, c, x, m)
    PROVE  /\ convs' \in [Node -> [Talk -> Nick \cup {Absent}]]
           /\ partner' \in [Node -> [Talk -> Node \cup {Nobody}]]
           /\ TalksHavePartners'
<1>1. /\ convs \in [Node -> [Talk -> Nick \cup {Absent}]]
      /\ partner \in [Node -> [Talk -> Node \cup {Nobody}]]
      /\ TalksHavePartners
      /\ convs' = [convs EXCEPT ![n][c] = x] /\ partner' = [partner EXCEPT ![n][c] = m]
      /\ ConvId \subseteq Talk
  BY DEF TypeInv, TypeOK, Enter, Talk
<1>2. ASSUME NEW k \in Node, NEW d \in Talk
      PROVE  /\ convs'[k][d] = IF k = n /\ d = c THEN x ELSE convs[k][d]
             /\ partner'[k][d] = IF k = n /\ d = c THEN m ELSE partner[k][d]
  BY <1>1
<1>3. TalksHavePartners'
  BY <1>1, <1>2 DEF TalksHavePartners
<1>4. convs' \in [Node -> [Talk -> Nick \cup {Absent}]]
  BY <1>1
<1>5. partner' \in [Node -> [Talk -> Node \cup {Nobody}]]
  BY <1>1
<1> QED  BY <1>3, <1>4, <1>5

LEMMA RemoveTypes ==
    ASSUME TypeInv, NEW n \in Node, NEW c \in Talk, Remove(n, c), UNCHANGED partner
    PROVE  /\ convs' \in [Node -> [Talk -> Nick \cup {Absent}]]
           /\ TalksHavePartners'
<1>1. /\ convs \in [Node -> [Talk -> Nick \cup {Absent}]] /\ TalksHavePartners
      /\ convs' = [convs EXCEPT ![n][c] = Absent] /\ ConvId \subseteq Talk
  BY DEF TypeInv, TypeOK, Remove, Talk
<1>2. ASSUME NEW k \in Node, NEW d \in Talk
      PROVE  convs'[k][d] = IF k = n /\ d = c THEN Absent ELSE convs[k][d]
  BY <1>1
<1>3. TalksHavePartners'
  BY <1>1, <1>2 DEF TalksHavePartners
<1>4. convs' \in [Node -> [Talk -> Nick \cup {Absent}]]
  BY <1>1
<1> QED  BY <1>3, <1>4

LEMMA InitType == Init => TypeInv
<1> SUFFICES ASSUME Init PROVE TypeInv
  OBVIOUS
<1>1. \A x, y \in Node : channel[x][y] = <<>>
  BY DEF Init
<1>2. MessagesSound
  BY <1>1 DEF MessagesSound, Content
<1>3. TypeOK
  BY ChatAssumption DEF Init, TypeOK, AnyNick, Talk, Everyone
<1>4. NamedAtThePage
  BY DEF Init, NamedAtThePage, AtThePage
<1>5. TalksHavePartners
  BY ChatAssumption DEF Init, TalksHavePartners, Talk, Everyone
<1> QED  BY <1>2, <1>3, <1>4, <1>5 DEF TypeInv

LEMMA BootType == ASSUME TypeInv, NEW n \in Node, Boot(n) PROVE TypeInv'
BY DEF TypeInv, TypeOK, NamedAtThePage, AtThePage, MessagesSound, TalksHavePartners, Boot,
       user, pages, book, talks, thread

LEMMA JoinType ==
    ASSUME TypeInv, NEW n \in Node, NEW m \in Peers(n), Join(n, m) PROVE TypeInv'
BY DEF TypeInv, TypeOK, NamedAtThePage, AtThePage, MessagesSound, TalksHavePartners, Join,
       Peers, user, pages, book, talks, thread

LEMMA SetHandlersType == ASSUME TypeInv, NEW n \in Node, SetHandlers(n) PROVE TypeInv'
<1>1. RequestNick \in Msg /\ \A k \in Nat : Sound(RequestNick, k)
  BY ChatAssumption DEF RequestNick, Msg, AnyNick, Talk, Everyone, Sound, Addressed
<1>2. Sent(n, Node, RequestNick) /\ texts' = texts /\ Len(texts) \in Nat
  BY DEF SetHandlers, Broadcast, talks, TypeInv, TypeOK
<1>3. channel' \in [Node -> [Node -> Seq(Msg)]] /\ MessagesSound'
  BY <1>1, <1>2, SentSound
<1> QED
  BY <1>3 DEF TypeInv, TypeOK, NamedAtThePage, AtThePage, TalksHavePartners, SetHandlers,
       user, pages, book, talks, thread

LEMMA SetNicknameType ==
    ASSUME TypeInv, NEW n \in Node, NEW x \in Nick, SetNickname(n, x) PROVE TypeInv'
<1>1. NickChange(x) \in Msg /\ \A k \in Nat : Sound(NickChange(x), k)
  BY ChatAssumption DEF NickChange, Msg, AnyNick, Talk, Everyone, Sound, Addressed
<1>2. Sent(n, Node, NickChange(x)) /\ texts' = texts /\ Len(texts) \in Nat
  BY DEF SetNickname, Broadcast, Announced, talks, TypeInv, TypeOK
<1>3. channel' \in [Node -> [Node -> Seq(Msg)]] /\ MessagesSound'
  BY <1>1, <1>2, SentSound
<1>4. /\ asking' \in [Node -> Nat] /\ open' \in [Node -> Nat]
      /\ \A m \in Node : m # n => open'[m] = open[m]
  <2>1. asking \in [Node -> Nat] /\ open \in [Node -> Nat] /\ asking[n] > 0
    BY DEF SetNickname, TypeInv, TypeOK
  <2>2. asking[n] - 1 \in Nat /\ open[n] + 1 \in Nat
    BY <2>1
  <2>3. \/ asking' = asking /\ open' = open
        \/ /\ asking' = [asking EXCEPT ![n] = asking[n] - 1]
           /\ open' = [open EXCEPT ![n] = open[n] + 1]
    BY DEF SetNickname, pages
  <2> QED  BY <2>1, <2>2, <2>3
<1>5. nickname' \in [Node -> AnyNick] /\ nickname'[n] = x /\ x # NoNick
      /\ \A m \in Node : m # n => nickname'[m] = nickname[m]
  BY ChatAssumption DEF SetNickname, TypeInv, TypeOK, AnyNick
<1>6. counts' \in Counts
  BY CountMore DEF SetNickname, TypeInv, TypeOK, Counts
<1>7. NamedAtThePage'
  BY <1>4, <1>5 DEF NamedAtThePage, AtThePage, TypeInv
<1> QED
  BY <1>3, <1>4, <1>5, <1>6, <1>7
     DEF TypeInv, TypeOK, Counts, TalksHavePartners, SetNickname,
       transport, book, talks, thread

LEMMA StartType ==
    ASSUME TypeInv, NEW n \in Node, NEW x \in Nick, NEW c \in ConvId,
           StartConversation(n, x, c)
    PROVE  TypeInv'
<1>1. /\ c \in Talk /\ x \in AnyNick /\ nickname[n] \in Nick
      /\ byName[n][x] \in Node /\ byName[n][x] # Nobody /\ texts' = texts
  BY DEF StartConversation, NamedAtThePage, TypeInv, TypeOK, Talk, AnyNick
<1>2. /\ Invite(c, nickname[n]) \in Msg
      /\ \A k \in Nat : Sound(Invite(c, nickname[n]), k)
  BY <1>1, ChatAssumption DEF Invite, Msg, Sound, Addressed, AnyNick
<1>3. Sent(n, {byName[n][x]}, Invite(c, nickname[n])) /\ Len(texts) \in Nat
  BY DEF StartConversation, TypeInv, TypeOK
<1>4. channel' \in [Node -> [Node -> Seq(Msg)]] /\ MessagesSound'
  BY <1>1, <1>2, <1>3, SentSound
<1>5. /\ convs' \in [Node -> [Talk -> Nick \cup {Absent}]]
      /\ partner' \in [Node -> [Talk -> Node \cup {Nobody}]]
      /\ TalksHavePartners'
  BY <1>1, EnterTypes DEF StartConversation
<1>6. counts' \in Counts
  BY CountMore DEF StartConversation, TypeInv, TypeOK, Counts
<1> QED
  BY <1>1, <1>4, <1>5, <1>6
     DEF TypeInv, TypeOK, Counts, NamedAtThePage, AtThePage, StartConversation,
         transport, pages, book, thread

LEMMA SendMessageType ==
    ASSUME TypeInv, NEW n \in Node, NEW c \in Talk, SendMessage(n, c) PROVE TypeInv'
<1> DEFINE e == [from |-> n, to |-> IF c = Everyone THEN network[n] ELSE {partner[n][c]}]
           msg == Text(c, nickname[n], Len(texts) + 1)
<1>1. /\ nickname[n] \in Nick /\ Len(texts) \in Nat /\ Len(texts) < MaxTexts
      /\ texts \in Seq([from : Node, to : SUBSET Node]) /\ MaxTexts \in Nat
  BY ChatAssumption DEF SendMessage, NamedAtThePage, TypeInv, TypeOK, AnyNick
<1>2. e \in [from : Node, to : SUBSET Node]
  BY DEF SendMessage, TalksHavePartners, TypeInv, TypeOK, Talk
<1>3. texts' = Append(texts, e) /\ Sent(n, Destination(n, c), msg)
  BY DEF SendMessage
<1> HIDE DEF e
<1>4. /\ texts' \in Seq([from : Node, to : SUBSET Node])
      /\ Len(texts') = Len(texts) + 1 /\ Len(texts') <= MaxTexts
  BY <1>1, <1>2, <1>3
<1>5. Len(texts) + 1 \in 0..MaxTexts /\ Len(texts) + 1 \in 1..Len(texts')
  BY <1>1, <1>4
<1>6. msg \in Msg /\ Sound(msg, Len(texts'))
  BY <1>1, <1>5 DEF Text, Msg, AnyNick, Sound, Addressed
<1> HIDE DEF msg
<1>7. channel' \in [Node -> [Node -> Seq(Msg)]] /\ MessagesSound'
  <2>1. Len(texts') \in Nat /\ Len(texts) <= Len(texts')
    BY <1>1, <1>4
  <2> QED  BY <2>1, <1>3, <1>6, SentSound
<1>8. received \in [Node -> SUBSET (1..Len(texts'))]
  <2>1. 1..Len(texts) \subseteq 1..Len(texts')
    BY <1>1, <1>4
  <2> QED  BY <2>1 DEF TypeInv, TypeOK
<1> QED
  BY <1>4, <1>7, <1>8
     DEF TypeInv, TypeOK, NamedAtThePage, AtThePage, TalksHavePartners, SendMessage,
         transport, user, pages, book, thread

LEMMA LeaveTalkType ==
    ASSUME TypeInv, NEW n \in Node, NEW c \in ConvId, LeaveTalk(n, c) PROVE TypeInv'
<1>1. /\ LeaveConversation(c) \in Msg /\ \A k \in Nat : Sound(LeaveConversation(c), k)
  BY ChatAssumption DEF LeaveConversation, Msg, Sound, Addressed, AnyNick, Talk
<1>2. /\ Sent(n, {byName[n][convs[n][c]]}, LeaveConversation(c))
      /\ texts' = texts /\ Len(texts) \in Nat
  BY DEF LeaveTalk, TypeInv, TypeOK
<1>3. channel' \in [Node -> [Node -> Seq(Msg)]] /\ MessagesSound'
  BY <1>1, <1>2, SentSound
<1>4. convs' \in [Node -> [Talk -> Nick \cup {Absent}]] /\ TalksHavePartners'
  BY RemoveTypes DEF LeaveTalk, Talk
<1> QED
  BY <1>3, <1>4
     DEF TypeInv, TypeOK, NamedAtThePage, AtThePage, LeaveTalk,
         transport, user, pages, book, thread

LEMMA ClosePageType == ASSUME TypeInv, NEW n \in Node, ClosePage(n) PROVE TypeInv'
<1>1. nickname[n] \in AnyNick
  BY DEF TypeInv, TypeOK
<1>2. /\ Leave(nickname[n]) \in Msg /\ \A k \in Nat : Sound(Leave(nickname[n]), k)
  BY <1>1, ChatAssumption DEF Leave, Msg, Sound, Addressed, Talk
<1>3. /\ Sent(n, Node, Leave(nickname[n])) /\ texts' = texts /\ Len(texts) \in Nat
  BY DEF ClosePage, Broadcast, talks, TypeInv, TypeOK
<1>4. channel' \in [Node -> [Node -> Seq(Msg)]] /\ MessagesSound'
  BY <1>2, <1>3, SentSound
<1>5. /\ asking' \in [Node -> Nat] /\ open' \in [Node -> Nat]
      /\ \A m \in Node : open'[m] > 0 => open[m] > 0
  <2>1. asking \in [Node -> Nat] /\ open \in [Node -> Nat]
    BY DEF TypeInv, TypeOK
  <2>2. CASE asking[n] > 0 /\ asking' = [asking EXCEPT ![n] = @ - 1] /\ open' = open
    <3>1. asking[n] - 1 \in Nat
      BY <2>1, <2>2
    <3> QED  BY <3>1, <2>1, <2>2
  <2>3. CASE open[n] > 0 /\ open' = [open EXCEPT ![n] = @ - 1] /\ asking' = asking
    <3>1. open[n] - 1 \in Nat
      BY <2>1, <2>3
    <3>2. \A m \in Node : m # n => open'[m] = open[m]
      BY <2>1, <2>3
    <3> QED  BY <3>1, <3>2, <2>1, <2>3
  <2> QED  BY <2>2, <2>3 DEF ClosePage
<1>6. counts' \in Counts
  BY CountMore DEF ClosePage, TypeInv, TypeOK, Counts
<1> QED
  BY <1>4, <1>5, <1>6
     DEF TypeInv, TypeOK, Counts, NamedAtThePage, AtThePage, TalksHavePartners, ClosePage,
         transport, book, talks, thread

LEMMA OpenPageType == ASSUME TypeInv, NEW n \in Node, OpenPage(n) PROVE TypeInv'
<1>1. counts' \in Counts
  BY CountMore DEF OpenPage, TypeInv, TypeOK, Counts
<1>2. asking' \in [Node -> Nat]
  BY DEF OpenPage, TypeInv, TypeOK
<1> QED
  BY <1>1, <1>2
     DEF TypeInv, TypeOK, Counts, NamedAtThePage, AtThePage, MessagesSound,
         TalksHavePartners, OpenPage, transport, book, talks, thread

LEMMA HandleNickChangeType ==
    ASSUME TypeInv, NEW n \in Node, NEW m \in Peers(n), HandleNickChange(n, m)
    PROVE  TypeInv'
<1>1. texts' = texts
  BY DEF HandleNickChange, talks
<1>2. /\ channel' \in [Node -> [Node -> Seq(Msg)]] /\ MessagesSound'
      /\ m \in Node /\ Message(n, m).nick \in AnyNick
  BY <1>1, ReceivedSound DEF HandleNickChange, Msg
<1>3. /\ byName' \in [Node -> [AnyNick -> Node \cup {Nobody}]]
      /\ byAddress' \in [Node -> [Node -> AnyNick]]
  BY <1>2 DEF HandleNickChange, Put, TypeInv, TypeOK
<1> QED
  BY <1>2, <1>3
     DEF TypeInv, TypeOK, NamedAtThePage, AtThePage, TalksHavePartners, HandleNickChange,
         transport, user, pages, talks, thread

LEMMA HandleTextType ==
    ASSUME TypeInv, NEW n \in Node, NEW m \in Peers(n), HandleText(n, m)
    PROVE  TypeInv'
<1> DEFINE msg == Message(n, m)
<1>1. texts' = texts
  BY DEF HandleText
<1>2. /\ channel' \in [Node -> [Node -> Seq(Msg)]] /\ MessagesSound'
      /\ m \in Node /\ msg.type = "text" /\ Sound(msg, Len(texts))
  BY <1>1, ReceivedSound DEF HandleText
<1>3. msg.nick \in Nick /\ msg.conv \in Talk /\ msg.text \in 1..Len(texts)
  BY <1>2 DEF Sound, Addressed
<1>4. received' \in [Node -> SUBSET (1..Len(texts'))]
  BY <1>1, <1>3 DEF HandleText, TypeInv, TypeOK
<1>5. /\ convs' \in [Node -> [Talk -> Nick \cup {Absent}]]
      /\ partner' \in [Node -> [Talk -> Node \cup {Nobody}]]
      /\ TalksHavePartners'
  <2>1. CASE Enter(n, msg.conv, msg.nick, m)
    BY <2>1, <1>2, <1>3, EnterTypes
  <2>2. CASE UNCHANGED <<convs, partner>>
    BY <2>2 DEF TypeInv, TypeOK, TalksHavePartners
  <2> QED  BY <2>1, <2>2 DEF HandleText
<1> QED
  BY <1>1, <1>2, <1>4, <1>5
     DEF TypeInv, TypeOK, NamedAtThePage, AtThePage, HandleText,
         transport, user, pages, book, thread

LEMMA HandleLeaveType ==
    ASSUME TypeInv, NEW n \in Node, NEW m \in Peers(n), HandleLeave(n, m)
    PROVE  TypeInv'
<1>1. texts' = texts /\ partner' = partner
  BY DEF HandleLeave
<1>2. channel' \in [Node -> [Node -> Seq(Msg)]] /\ MessagesSound'
  BY <1>1, ReceivedSound DEF HandleLeave
<1>3. \/ UNCHANGED <<convs, running>>
      \/ \E c \in Talk : \E b \in BOOLEAN :
            Remove(n, c) /\ running' = [running EXCEPT ![n] = b]
  BY DEF HandleLeave
<1>4. CASE UNCHANGED <<convs, running>>
  BY <1>1, <1>2, <1>4
     DEF TypeInv, TypeOK, NamedAtThePage, AtThePage, TalksHavePartners, HandleLeave,
         transport, user, pages, book, thread
<1>5. ASSUME NEW c \in Talk, NEW b \in BOOLEAN, Remove(n, c),
             running' = [running EXCEPT ![n] = b]
      PROVE  TypeInv'
  <2>1. convs' \in [Node -> [Talk -> Nick \cup {Absent}]] /\ TalksHavePartners'
    BY <1>1, <1>5, RemoveTypes
  <2>2. running' \in [Node -> BOOLEAN]
    BY <1>5 DEF TypeInv, TypeOK
  <2> QED
    BY <1>1, <1>2, <2>1, <2>2
       DEF TypeInv, TypeOK, NamedAtThePage, AtThePage, HandleLeave,
           transport, user, pages, book, thread
<1> QED  BY <1>3, <1>4, <1>5

LEMMA HandleInviteType ==
    ASSUME TypeInv, NEW n \in Node, NEW m \in Peers(n), HandleInvite(n, m)
    PROVE  TypeInv'
<1> DEFINE msg == Message(n, m)
<1>1. texts' = texts
  BY DEF HandleInvite
<1>2. /\ channel' \in [Node -> [Node -> Seq(Msg)]] /\ MessagesSound'
      /\ m \in Node /\ msg.type = "invite" /\ Sound(msg, Len(texts))
  BY <1>1, ReceivedSound DEF HandleInvite
<1>3. msg.nick \in Nick /\ msg.conv \in Talk
  BY <1>2 DEF Sound, Addressed, Talk
<1>4. /\ convs' \in [Node -> [Talk -> Nick \cup {Absent}]]
      /\ partner' \in [Node -> [Talk -> Node \cup {Nobody}]]
      /\ TalksHavePartners'
  BY <1>2, <1>3, EnterTypes DEF HandleInvite, Accept
<1> QED
  BY <1>1, <1>2, <1>4
     DEF TypeInv, TypeOK, NamedAtThePage, AtThePage, HandleInvite,
         transport, user, pages, book, thread

LEMMA HandleRequestNickType ==
    ASSUME TypeInv, NEW n \in Node, NEW m \in Peers(n), HandleRequestNick(n, m)
    PROVE  TypeInv'
<1>1. texts' = texts
  BY DEF HandleRequestNick, talks
<1>2. channel' \in [Node -> [Node -> Seq(Msg)]] /\ MessagesSound' /\ m \in Node
  BY <1>1, ReceivedSound DEF HandleRequestNick
<1>3. reply' \in [Node -> [to : Node, nick : AnyNick] \cup {NoReply}]
  BY <1>2 DEF HandleRequestNick, TypeInv, TypeOK
<1> QED
  BY <1>2, <1>3
     DEF TypeInv, TypeOK, NamedAtThePage, AtThePage, TalksHavePartners, HandleRequestNick,
         transport, user, pages, book, talks

LEMMA ReplyType == ASSUME TypeInv, NEW n \in Node, Reply(n) PROVE TypeInv'
<1>1. reply[n] \in [to : Node, nick : AnyNick]
  BY DEF Reply, TypeInv, TypeOK
<1>2. /\ NickChange(reply[n].nick) \in Msg
      /\ \A k \in Nat : Sound(NickChange(reply[n].nick), k)
  BY <1>1, ChatAssumption DEF NickChange, Msg, Sound, Addressed, Talk
<1>3. /\ Sent(n, {reply[n].to}, NickChange(reply[n].nick))
      /\ texts' = texts /\ Len(texts) \in Nat
  BY DEF Reply, talks, TypeInv, TypeOK
<1>4. channel' \in [Node -> [Node -> Seq(Msg)]] /\ MessagesSound'
  BY <1>2, <1>3, SentSound
<1> QED
  BY <1>4
     DEF TypeInv, TypeOK, NamedAtThePage, AtThePage, TalksHavePartners, Reply,
         transport, user, pages, book, talks

LEMMA HandleLeaveConversationType ==
    ASSUME TypeInv, NEW n \in Node, NEW m \in Peers(n), HandleLeaveConversation(n, m)
    PROVE  TypeInv'
<1>1. texts' = texts
  BY DEF HandleLeaveConversation, talks
<1>2. channel' \in [Node -> [Node -> Seq(Msg)]] /\ MessagesSound'
  BY <1>1, ReceivedSound DEF HandleLeaveConversation
<1> QED
  BY <1>2
     DEF TypeInv, TypeOK, NamedAtThePage, AtThePage, TalksHavePartners,
         HandleLeaveConversation, transport, user, pages, book, talks, thread

LEMMA NextType == TypeInv /\ [Next]_vars => TypeInv'
<1> SUFFICES ASSUME TypeInv, [Next]_vars PROVE TypeInv'
  OBVIOUS
<1>1. CASE UNCHANGED vars
  BY <1>1
     DEF vars, transport, user, pages, book, talks, thread, TypeInv, TypeOK,
         NamedAtThePage, AtThePage, MessagesSound, TalksHavePartners
<1>2. ASSUME NEW n \in Node,
             Boot(n) \/ SetHandlers(n) \/ ClosePage(n) \/ OpenPage(n) \/ Reply(n)
      PROVE  TypeInv'
  BY <1>2, BootType, SetHandlersType, ClosePageType, OpenPageType, ReplyType
<1>3. ASSUME NEW n \in Node, NEW x \in Nick,
             SetNickname(n, x) \/ \E c \in ConvId : StartConversation(n, x, c)
      PROVE  TypeInv'
  BY <1>3, SetNicknameType, StartType
<1>4. ASSUME NEW n \in Node, NEW c \in Talk, SendMessage(n, c) PROVE TypeInv'
  BY <1>4, SendMessageType
<1>5. ASSUME NEW n \in Node, NEW c \in ConvId, LeaveTalk(n, c) PROVE TypeInv'
  BY <1>5, LeaveTalkType
<1>6. ASSUME NEW n \in Node, NEW m \in Peers(n),
             \/ Join(n, m)
             \/ HandleNickChange(n, m)
             \/ HandleText(n, m)
             \/ HandleLeave(n, m)
             \/ HandleInvite(n, m)
             \/ HandleRequestNick(n, m)
             \/ HandleLeaveConversation(n, m)
      PROVE  TypeInv'
  BY <1>6, JoinType, HandleNickChangeType, HandleTextType, HandleLeaveType,
     HandleInviteType, HandleRequestNickType, HandleLeaveConversationType
<1> QED  BY <1>1, <1>2, <1>3, <1>4, <1>5, <1>6 DEF Next

LEMMA TypeInvariant == Spec => []TypeInv
BY InitType, NextType, PTL DEF Spec

\* The variables have their types; no conversation gets a null user, of which
\* userLeft would die.
THEOREM TypeCorrect == Spec => []TypeOK
BY TypeInvariant, PTL DEF TypeInv

----------------------------------------------------------------------------
(* Names.  While all choose their names in a complete network, the last    *)
(* change of nickname on its way from m to n is to the name that m has.    *)

NoChange(s) == \A k \in DOMAIN s : s[k].type # "nickChange"

LastChange(s, x) ==
    \E k \in DOMAIN s :
        /\ s[k] = NickChange(x)
        /\ \A j \in DOMAIN s : j > k => s[j].type # "nickChange"

LEMMA AppendChange ==
    ASSUME NEW s \in Seq(Msg), NEW e \in Msg, NEW x
    PROVE  /\ e.type # "nickChange" =>
                 /\ NoChange(s) => NoChange(Append(s, e))
                 /\ LastChange(s, x) => LastChange(Append(s, e), x)
           /\ e = NickChange(x) => LastChange(Append(s, e), x)
<1>1. /\ Len(s) \in Nat /\ DOMAIN s = 1..Len(s)
      /\ DOMAIN Append(s, e) = 1..Len(s) + 1
      /\ \A k \in 1..Len(s) : Append(s, e)[k] = s[k]
      /\ Append(s, e)[Len(s) + 1] = e
  OBVIOUS
<1>2. ASSUME e.type # "nickChange", NoChange(s) PROVE NoChange(Append(s, e))
  BY <1>1, <1>2 DEF NoChange
<1>3. ASSUME e.type # "nickChange", LastChange(s, x) PROVE LastChange(Append(s, e), x)
  <2>1. PICK k \in DOMAIN s : /\ s[k] = NickChange(x)
                              /\ \A j \in DOMAIN s : j > k => s[j].type # "nickChange"
    BY <1>3 DEF LastChange
  <2>2. k \in DOMAIN Append(s, e) /\ Append(s, e)[k] = NickChange(x)
    BY <1>1, <2>1
  <2>3. ASSUME NEW j \in DOMAIN Append(s, e), j > k
        PROVE  Append(s, e)[j].type # "nickChange"
    <3>1. CASE j = Len(s) + 1  BY <3>1, <1>1, <1>3
    <3>2. CASE j # Len(s) + 1
      <4>1. j \in DOMAIN s
        BY <3>2, <1>1
      <4> QED  BY <4>1, <1>1, <2>1, <2>3
    <3> QED  BY <3>1, <3>2
  <2> QED  BY <2>2, <2>3 DEF LastChange
<1>4. ASSUME e = NickChange(x) PROVE LastChange(Append(s, e), x)
  <2>1. Len(s) + 1 \in DOMAIN Append(s, e)
    BY <1>1
  <2>2. \A j \in DOMAIN Append(s, e) : ~(j > Len(s) + 1)
    BY <1>1
  <2> QED  BY <2>1, <2>2, <1>1, <1>4 DEF LastChange
<1> QED  BY <1>2, <1>3, <1>4

LEMMA TailChange ==
    ASSUME NEW s \in Seq(Msg), s # <<>>, NEW x
    PROVE  /\ NoChange(s) => Head(s).type # "nickChange" /\ NoChange(Tail(s))
           /\ LastChange(s, x) =>
                 \/ LastChange(Tail(s), x)
                 \/ Head(s) = NickChange(x) /\ NoChange(Tail(s))
<1>1. /\ Head(s) = s[1] /\ Len(s) \in Nat /\ Len(s) >= 1 /\ DOMAIN s = 1..Len(s)
      /\ DOMAIN Tail(s) = 1..Len(s) - 1
      /\ \A k \in 1..Len(s) - 1 : Tail(s)[k] = s[k + 1]
  OBVIOUS
<1>2. /\ 1 \in DOMAIN s
      /\ \A k \in DOMAIN Tail(s) : k + 1 \in DOMAIN s /\ k + 1 > 1
  BY <1>1
<1>3. ASSUME NoChange(s) PROVE Head(s).type # "nickChange" /\ NoChange(Tail(s))
  BY <1>1, <1>2, <1>3 DEF NoChange
<1>4. ASSUME LastChange(s, x)
      PROVE  LastChange(Tail(s), x) \/ (Head(s) = NickChange(x) /\ NoChange(Tail(s)))
  <2>1. PICK k \in DOMAIN s : /\ s[k] = NickChange(x)
                              /\ \A j \in DOMAIN s : j > k => s[j].type # "nickChange"
    BY <1>4 DEF LastChange
  <2>2. CASE k = 1
    BY <2>1, <2>2, <1>1, <1>2 DEF NoChange
  <2>3. CASE k # 1
    <3>1. k - 1 \in DOMAIN Tail(s) /\ Tail(s)[k - 1] = NickChange(x)
      BY <2>1, <2>3, <1>1
    <3>2. ASSUME NEW j \in DOMAIN Tail(s), j > k - 1
          PROVE  Tail(s)[j].type # "nickChange"
      <4>1. j + 1 \in DOMAIN s /\ j + 1 > k /\ Tail(s)[j] = s[j + 1]
        BY <3>2, <1>1
      <4> QED  BY <4>1, <2>1
    <3> QED  BY <3>1, <3>2 DEF LastChange
  <2> QED  BY <2>2, <2>3
<1> QED  BY <1>3, <1>4

InNetwork == \A n \in Node : network[n] \subseteq Peers(n)

\* No request for a nickname is on its way.
Unasked == \A x, y \in Node : \A p \in Content(channel[x][y]) : p.type # "requestNick"

\* As soon as somebody has a name, the network is complete.
Settled ==
    (\E n \in Node : nickname[n] # NoNick) =>
        /\ \A n \in Node : phase[n] = "ready" /\ network[n] = Peers(n) /\ reply[n] = NoReply
        /\ Unasked

RepliesFresh == \A n \in Node : reply[n] # NoReply => reply[n].nick = nickname[n]

Heard(n, m) == NoChange(channel[m][n]) /\ byAddress[n][m] = nickname[m]

NamesOnTheWay ==
    \A n \in Node : \A m \in Peers(n) :
        Heard(n, m) \/ LastChange(channel[m][n], nickname[m])

NameInv == InNetwork /\ Settled /\ RepliesFresh /\ NamesOnTheWay

(* Sending and handling what is not a nickname.                            *)

LEMMA SentUnasked ==
    ASSUME TypeInv, Unasked, NEW n \in Node, NEW to, NEW msg \in Msg,
           Sent(n, to, msg), msg.type # "requestNick"
    PROVE  Unasked'
<1>1. channel \in [Node -> [Node -> Seq(Msg)]]
  BY DEF TypeInv, TypeOK
<1>2. ASSUME NEW x \in Node, NEW y \in Node, NEW p \in Content(channel'[x][y])
      PROVE  p.type # "requestNick"
  <2>1. Content(channel'[x][y]) \subseteq Content(channel[x][y]) \cup {msg}
    BY <1>1, SentContent
  <2> QED  BY <2>1 DEF Unasked
<1> QED  BY <1>2 DEF Unasked

LEMMA ReceivedUnasked ==
    ASSUME TypeInv, Unasked, NEW n \in Node, NEW m \in Peers(n), NEW type,
           Receive(n, m, type)
    PROVE  Unasked' /\ type # "requestNick"
<1>1. channel \in [Node -> [Node -> Seq(Msg)]]
  BY DEF TypeInv, TypeOK
<1>2. /\ m \in Node /\ Message(n, m).type = type
      /\ Message(n, m) \in Content(channel[m][n])
      /\ \A x, y \in Node : Content(channel'[x][y]) \subseteq Content(channel[x][y])
  BY <1>1, ReceivedChannel
<1> QED  BY <1>2 DEF Unasked

LEMMA SentNames ==
    ASSUME TypeInv, NamesOnTheWay, NEW n \in Node, NEW to, NEW msg \in Msg,
           Sent(n, to, msg), msg.type # "nickChange", UNCHANGED <<nickname, byAddress>>
    PROVE  NamesOnTheWay'
<1>1. channel \in [Node -> [Node -> Seq(Msg)]]
  BY DEF TypeInv, TypeOK
<1>2. ASSUME NEW y \in Node, NEW x \in Peers(y)
      PROVE  Heard(y, x)' \/ LastChange(channel[x][y], nickname[x])'
  <2>1. x \in Node /\ channel[x][y] \in Seq(Msg)
    BY <1>1 DEF Peers
  <2>2. Heard(y, x) \/ LastChange(channel[x][y], nickname[x])
    BY DEF NamesOnTheWay
  <2>3. channel'[x][y] = Append(channel[x][y], msg) \/ channel'[x][y] = channel[x][y]
    BY <1>1, <2>1, SentChannel
  <2> QED  BY <2>1, <2>2, <2>3, AppendChange DEF Heard
<1> QED  BY <1>2 DEF NamesOnTheWay, Peers

LEMMA ReceivedNames ==
    ASSUME TypeInv, NamesOnTheWay, NEW n \in Node, NEW m \in Peers(n), NEW type,
           Receive(n, m, type), type # "nickChange", UNCHANGED <<nickname, byAddress>>
    PROVE  NamesOnTheWay'
<1>1. channel \in [Node -> [Node -> Seq(Msg)]]
  BY DEF TypeInv, TypeOK
<1>2. /\ m \in Node /\ Message(n, m).type = type /\ Message(n, m) = Head(channel[m][n])
      /\ channel[m][n] # <<>> /\ channel[m][n] \in Seq(Msg)
      /\ \A x, y \in Node : channel'[x][y] =
            IF x = m /\ y = n THEN Tail(channel[m][n]) ELSE channel[x][y]
  BY <1>1, ReceivedChannel, SMTT(30) DEF Message
<1>3. NickChange(nickname[m]).type = "nickChange"
  BY DEF NickChange
<1>4. ASSUME NEW y \in Node, NEW x \in Peers(y)
      PROVE  Heard(y, x)' \/ LastChange(channel[x][y], nickname[x])'
  <2>1. x \in Node /\ (Heard(y, x) \/ LastChange(channel[x][y], nickname[x]))
    BY DEF NamesOnTheWay, Peers
  <2>2. CASE x = m /\ y = n
    BY <2>1, <2>2, <1>2, <1>3, TailChange DEF Heard
  <2>3. CASE ~(x = m /\ y = n)
    BY <2>1, <2>3, <1>2 DEF Heard
  <2> QED  BY <2>2, <2>3
<1> QED  BY <1>4 DEF NamesOnTheWay, Peers

(* Nicknames that are set, answered and heard.                             *)

LEMMA InitNames == Init => NameInv
<1> SUFFICES ASSUME Init PROVE NameInv
  OBVIOUS
<1>1. \A x, y \in Node : channel[x][y] = <<>>
  BY DEF Init
<1>2. NamesOnTheWay
  BY <1>1 DEF Init, NamesOnTheWay, Heard, NoChange, Peers
<1> QED  BY <1>2 DEF Init, NameInv, InNetwork, Settled, RepliesFresh

LEMMA SetNicknameNames ==
    ASSUME Together, TypeInv, NameInv, NEW n \in Node, NEW x \in Nick, SetNickname(n, x)
    PROVE  NameInv'
<1>1. /\ Assembled /\ Sent(n, Node, NickChange(x))
      /\ nickname' = [nickname EXCEPT ![n] = x]
      /\ UNCHANGED <<phase, network, reply, byAddress>>
  BY DEF SetNickname, Broadcast, Announced, transport, book, thread
<1>2. channel \in [Node -> [Node -> Seq(Msg)]] /\ nickname \in [Node -> AnyNick]
  BY DEF TypeInv, TypeOK
<1>3. NickChange(x) \in Msg /\ NickChange(x).type = "nickChange"
  BY ChatAssumption DEF NickChange, Msg, AnyNick, Talk
<1>4. Unasked'
  <2>1. Unasked
    BY <1>1 DEF Assembled, Unasked, Content
  <2> QED  BY <2>1, <1>1, <1>3, SentUnasked
<1>5. Settled' /\ RepliesFresh' /\ InNetwork'
  BY <1>1, <1>4 DEF Assembled, Settled, RepliesFresh, NameInv, InNetwork, Peers
<1>6. ASSUME NEW y \in Node, NEW m \in Peers(y)
      PROVE  Heard(y, m)' \/ LastChange(channel[m][y], nickname[m])'
  <2>1. m \in Node /\ m # y /\ channel[m][y] \in Seq(Msg)
    BY <1>2 DEF Peers
  <2>2. CASE m = n
    <3>1. Reached(n, Node, m, y)
      BY <2>1, <2>2, <1>1 DEF Reached, Assembled, Peers
    <3>2. channel'[m][y] = Append(channel[m][y], NickChange(x)) /\ nickname'[m] = x
      BY <3>1, <2>1, <2>2, <1>1, <1>2, <1>3, SentChannel
    <3> QED  BY <3>2, <2>1, <1>3, AppendChange
  <2>3. CASE m # n
    <3>1. ~Reached(n, Node, m, y)
      BY <2>3 DEF Reached
    <3>2. channel'[m][y] = channel[m][y] /\ nickname'[m] = nickname[m]
      BY <3>1, <2>1, <2>3, <1>1, <1>2, <1>3, SentChannel
    <3> QED  BY <3>2, <1>1 DEF Heard, NameInv, NamesOnTheWay
  <2> QED  BY <2>2, <2>3
<1> QED  BY <1>5, <1>6 DEF NameInv, NamesOnTheWay, Peers

LEMMA ReplyNames ==
    ASSUME TypeInv, NameInv, NEW n \in Node, Reply(n)
    PROVE  NameInv'
<1>1. PICK to :
      /\ reply[n] # NoReply /\ Sent(n, to, NickChange(nickname[n]))
      /\ reply' = [reply EXCEPT ![n] = NoReply]
      /\ UNCHANGED <<phase, network, nickname, byAddress>>
  BY DEF Reply, transport, user, book, NameInv, RepliesFresh
<1>2. channel \in [Node -> [Node -> Seq(Msg)]] /\ nickname \in [Node -> AnyNick]
      /\ reply \in [Node -> [to : Node, nick : AnyNick] \cup {NoReply}]
  BY DEF TypeInv, TypeOK
<1>3. NickChange(nickname[n]) \in Msg
  BY <1>2, ChatAssumption DEF NickChange, Msg, AnyNick, Talk
<1>4. Settled' /\ RepliesFresh' /\ InNetwork'
  BY <1>1, <1>2 DEF Settled, RepliesFresh, NameInv, InNetwork, Peers
<1>5. ASSUME NEW y \in Node, NEW m \in Peers(y)
      PROVE  Heard(y, m)' \/ LastChange(channel[m][y], nickname[m])'
  <2>1. m \in Node /\ channel[m][y] \in Seq(Msg)
    BY <1>2 DEF Peers
  <2>2. CASE Reached(n, to, m, y)
    <3>1. m = n /\ Reached(n, to, n, y)
      BY <2>2 DEF Reached
    <3>2. channel'[n][y] = Append(channel[n][y], NickChange(nickname[n]))
      BY <3>1, <1>1, <1>2, <1>3, SentChannel, ZenonT(30)
    <3> QED  BY <3>1, <3>2, <2>1, <1>1, <1>3, AppendChange
  <2>3. CASE ~Reached(n, to, m, y)
    <3>1. channel'[m][y] = channel[m][y]
      BY <2>1, <2>3, <1>1, <1>2, <1>3, SentChannel
    <3> QED  BY <3>1, <1>1 DEF Heard, NameInv, NamesOnTheWay
  <2> QED  BY <2>2, <2>3
<1> QED  BY <1>4, <1>5 DEF NameInv, NamesOnTheWay, Peers

LEMMA HandleNickChangeNames ==
    ASSUME TypeInv, NameInv, NEW n \in Node, NEW m \in Peers(n), HandleNickChange(n, m)
    PROVE  NameInv'
<1>1. /\ Receive(n, m, "nickChange") /\ Put(n, Message(n, m).nick, m)
      /\ UNCHANGED <<phase, network, nickname, reply>>
  BY DEF HandleNickChange, transport, user, thread
<1>2. channel \in [Node -> [Node -> Seq(Msg)]] /\ byAddress \in [Node -> [Node -> AnyNick]]
  BY DEF TypeInv, TypeOK
<1>3. /\ m \in Node /\ Head(channel[m][n]).type = "nickChange"
      /\ Message(n, m) = Head(channel[m][n])
      /\ channel[m][n] # <<>> /\ channel[m][n] \in Seq(Msg)
      /\ \A x, y \in Node : channel'[x][y] =
            IF x = m /\ y = n THEN Tail(channel[m][n]) ELSE channel[x][y]
  BY <1>1, <1>2, ReceivedChannel DEF Message
<1>4. \A y, x \in Node : byAddress'[y][x] =
         IF y = n /\ x = m THEN Head(channel[m][n]).nick ELSE byAddress[y][x]
  BY <1>1, <1>2, <1>3 DEF Put
<1>5. Settled' /\ RepliesFresh' /\ InNetwork'
  <2>1. Unasked => Unasked'
    BY <1>1, ReceivedUnasked
  <2> QED  BY <2>1, <1>1 DEF Settled, RepliesFresh, NameInv, InNetwork, Peers
<1>6. ASSUME NEW y \in Node, NEW x \in Peers(y)
      PROVE  Heard(y, x)' \/ LastChange(channel[x][y], nickname[x])'
  <2>1. x \in Node /\ (Heard(y, x) \/ LastChange(channel[x][y], nickname[x]))
    BY DEF NameInv, NamesOnTheWay, Peers
  <2>2. CASE x = m /\ y = n
    <3>1. \/ LastChange(Tail(channel[m][n]), nickname[m])
          \/ Head(channel[m][n]) = NickChange(nickname[m]) /\ NoChange(Tail(channel[m][n]))
      BY <2>1, <2>2, <1>3, TailChange DEF Heard
    <3> QED  BY <3>1, <2>2, <1>1, <1>3, <1>4 DEF Heard, NickChange
  <2>3. CASE ~(x = m /\ y = n)
    BY <2>1, <2>3, <1>1, <1>3, <1>4 DEF Heard
  <2> QED  BY <2>2, <2>3
<1> QED  BY <1>5, <1>6 DEF NameInv, NamesOnTheWay, Peers

LEMMA SentNameInv ==
    ASSUME TypeInv, NameInv, NEW n \in Node, NEW to, NEW msg \in Msg,
           Sent(n, to, msg), msg.type \notin {"nickChange", "requestNick"},
           UNCHANGED <<phase, network, reply, nickname, byAddress>>
    PROVE  NameInv'
<1>1. NamesOnTheWay'
  BY SentNames DEF NameInv
<1>2. Unasked => Unasked'
  BY SentUnasked
<1> QED  BY <1>1, <1>2 DEF NameInv, InNetwork, Settled, RepliesFresh, Peers

LEMMA ReceivedNameInv ==
    ASSUME TypeInv, NameInv, NEW n \in Node, NEW m \in Peers(n), NEW type,
           Receive(n, m, type), type # "nickChange",
           UNCHANGED <<phase, network, reply, nickname, byAddress>>
    PROVE  NameInv'
<1>1. NamesOnTheWay'
  BY ReceivedNames DEF NameInv
<1>2. Unasked => Unasked'
  BY ReceivedUnasked
<1> QED  BY <1>1, <1>2 DEF NameInv, InNetwork, Settled, RepliesFresh, Peers

LEMMA NextNames ==
    ASSUME Together, TypeInv, NameInv, [Next]_vars
    PROVE  NameInv'
<1>1. CASE UNCHANGED vars
  BY <1>1
     DEF vars, transport, user, pages, book, talks, thread, NameInv, InNetwork, Settled,
         Unasked, RepliesFresh, NamesOnTheWay, Heard, Peers
<1>2. ASSUME NEW n \in Node, Boot(n) PROVE NameInv'
  BY <1>2
     DEF Boot, user, pages, book, talks, thread, NameInv, InNetwork, Settled,
         Unasked, RepliesFresh, NamesOnTheWay, Heard, Peers
<1>3. ASSUME NEW n \in Node, SetHandlers(n) PROVE NameInv'
  <2>1. /\ phase[n] = "booted" /\ Sent(n, Node, RequestNick)
        /\ UNCHANGED <<network, nickname, byAddress, reply>>
    BY <1>3 DEF SetHandlers, Broadcast, user, book, thread
  <2>2. RequestNick \in Msg /\ RequestNick.type # "nickChange"
    BY ChatAssumption DEF RequestNick, Msg, AnyNick, Talk
  <2>3. NamesOnTheWay'
    BY <2>1, <2>2, SentNames DEF NameInv
  <2> QED  BY <2>1, <2>3 DEF NameInv, InNetwork, Settled, RepliesFresh, Peers
<1>4. ASSUME NEW n \in Node, ClosePage(n) PROVE NameInv'
  <2>1. Leave(nickname[n]) \in Msg /\ Leave(nickname[n]).type = "leave"
    BY ChatAssumption DEF Leave, Msg, AnyNick, Talk, TypeInv, TypeOK
  <2> QED
    BY <1>4, <2>1, SentNameInv DEF ClosePage, Broadcast, transport, book, talks, thread
<1>5. ASSUME NEW n \in Node, OpenPage(n) PROVE NameInv'
  BY <1>5
     DEF OpenPage, transport, book, talks, thread, NameInv, InNetwork, Settled,
         Unasked, RepliesFresh, NamesOnTheWay, Heard, Peers
<1>6. ASSUME NEW n \in Node, NEW x \in Nick, NEW c \in ConvId, StartConversation(n, x, c)
      PROVE  NameInv'
  <2>1. Invite(c, nickname[n]) \in Msg /\ Invite(c, nickname[n]).type = "invite"
    BY ChatAssumption DEF Invite, Msg, AnyNick, Talk, TypeInv, TypeOK
  <2> QED
    BY <1>6, <2>1, SentNameInv DEF StartConversation, transport, book, thread
<1>7. ASSUME NEW n \in Node, NEW c \in Talk, SendMessage(n, c) PROVE NameInv'
  <2>1. Len(texts) + 1 \in 0..MaxTexts
    BY <1>7, ChatAssumption DEF SendMessage, TypeInv, TypeOK
  <2>2. /\ Text(c, nickname[n], Len(texts) + 1) \in Msg
        /\ Text(c, nickname[n], Len(texts) + 1).type = "text"
    BY <2>1, ChatAssumption DEF Text, Msg, AnyNick, TypeInv, TypeOK
  <2> QED
    BY <1>7, <2>2, SentNameInv DEF SendMessage, transport, user, book, thread
<1>8. ASSUME NEW n \in Node, NEW c \in ConvId, LeaveTalk(n, c) PROVE NameInv'
  <2>1. LeaveConversation(c) \in Msg /\ LeaveConversation(c).type = "leaveConv"
    BY ChatAssumption DEF LeaveConversation, Msg, AnyNick, Talk
  <2> QED
    BY <1>8, <2>1, SentNameInv DEF LeaveTalk, transport, user, book, thread
<1>9. ASSUME NEW n \in Node, NEW m \in Peers(n), Join(n, m) PROVE NameInv'
  <2>1. /\ m \notin network[n] /\ network' = [network EXCEPT ![n] = @ \cup {m}]
        /\ UNCHANGED <<phase, nickname, byAddress, reply, channel>>
    BY <1>9 DEF Join, user, book, thread
  <2>2. InNetwork'
    BY <2>1 DEF NameInv, InNetwork, TypeInv, TypeOK, Peers
  <2>3. NamesOnTheWay' /\ RepliesFresh' /\ Settled'
    BY <2>1 DEF NameInv, NamesOnTheWay, Heard, Peers, RepliesFresh, Settled
  <2> QED  BY <2>2, <2>3 DEF NameInv
<1>10. ASSUME NEW n \in Node, NEW m \in Peers(n), HandleRequestNick(n, m) PROVE NameInv'
  <2>1. /\ Receive(n, m, "requestNick")
        /\ reply' = [reply EXCEPT ![n] = [to |-> m, nick |-> nickname[n]]]
        /\ UNCHANGED <<phase, network, nickname, byAddress>>
    BY <1>10 DEF HandleRequestNick, transport, user, book
  <2>2. ~Unasked /\ NamesOnTheWay'
    BY <2>1, ReceivedUnasked, ReceivedNames DEF NameInv
  <2>3. InNetwork' /\ RepliesFresh' /\ Settled'
    BY <2>1, <2>2
       DEF NameInv, InNetwork, RepliesFresh, Settled, Peers, TypeInv, TypeOK
  <2> QED  BY <2>2, <2>3 DEF NameInv
<1>11. ASSUME NEW n \in Node, NEW m \in Peers(n),
              HandleText(n, m) \/ HandleLeave(n, m) \/ HandleInvite(n, m)
                \/ HandleLeaveConversation(n, m)
       PROVE  NameInv'
  <2>1. /\ \E type \in {"text", "leave", "invite", "leaveConv"} : Receive(n, m, type)
        /\ UNCHANGED <<phase, network, reply, nickname, byAddress>>
    BY <1>11
       DEF HandleText, HandleLeave, HandleInvite, HandleLeaveConversation,
           transport, user, book, thread
  <2> QED  BY <2>1, ReceivedNameInv
<1> QED
  BY <1>1, <1>2, <1>3, <1>4, <1>5, <1>6, <1>7, <1>8, <1>9, <1>10, <1>11,
     SetNicknameNames, ReplyNames, HandleNickChangeNames
     DEF Next

LEMMA NameInvariant == ASSUME Together PROVE Spec => [](TypeInv /\ NameInv)
<1>1. Init => TypeInv /\ NameInv
  BY InitType, InitNames
<1>2. TypeInv /\ NameInv /\ [Next]_vars => (TypeInv /\ NameInv)'
  BY NextType, NextNames
<1> QED  BY <1>1, <1>2, PTL DEF Spec

\* Users who choose their names when everybody is there, however often they
\* change them, are in the end known by the last one to everybody.
THEOREM NamesAgree == ASSUME Together PROVE Spec => []NamesConverge
<1>1. TypeInv /\ NameInv => NamesConverge
  <2> SUFFICES ASSUME NameInv, Quiet, NEW n \in Node, NEW m \in network[n]
               PROVE  byAddress[n][m] = nickname[m]
    BY DEF NamesConverge
  <2>1. m \in Peers(n) /\ m \in Node /\ channel[m][n] = <<>>
    BY DEF NameInv, InNetwork, Peers, Quiet
  <2>2. ~LastChange(channel[m][n], nickname[m])
    BY <2>1 DEF LastChange
  <2> QED  BY <2>1, <2>2 DEF NameInv, NamesOnTheWay, Heard
<1> QED  BY <1>1, NameInvariant, PTL

----------------------------------------------------------------------------
(* Who is meant by a name.  While also nobody takes a name that another    *)
(* might take, a name stands for one node for good, and nobody hears of a  *)
(* conversation with a name before having heard the name.                  *)

NamesApart == \A m, n \in Node : m # n => Names[m] \cap Names[n] = {}

Own(m) == Names[m] \cup {NoNick}

Owned ==
    /\ \A m \in Node : nickname[m] \in Own(m)
    /\ \A m, n \in Node : \A p \in Content(channel[m][n]) : p.nick \in Own(m)
    /\ \A n \in Node : \A x \in AnyNick : byName[n][x] # Nobody =>
          byName[n][x] \in Peers(n) /\ x \in Own(byName[n][x])

\* The names that stand for m at n.
Known(n, m) == {x \in Nick : byName[n][x] = m}

\* Whoever writes in s under a name is known by it, or makes it known first.
Introduced(s, known) ==
    \A k \in DOMAIN s : s[k].type \in Addressed =>
        \/ s[k].nick \in known
        \/ \E j \in DOMAIN s : j < k /\ s[j] = NickChange(s[k].nick)

Introductions ==
    \A n \in Node : \A m \in Peers(n) :
        /\ nickname[m] # NoNick =>
              \/ nickname[m] \in Known(n, m)
              \/ NickChange(nickname[m]) \in Content(channel[m][n])
        /\ Introduced(channel[m][n], Known(n, m))

BookInv == Owned /\ Introductions

LEMMA AppendIntroduced ==
    ASSUME NEW s \in Seq(Msg), NEW e \in Msg, NEW known, Introduced(s, known),
           e.type \in Addressed => e.nick \in known \/ NickChange(e.nick) \in Content(s)
    PROVE  Introduced(Append(s, e), known)
<1>1. /\ Len(s) \in Nat /\ DOMAIN s = 1..Len(s)
      /\ DOMAIN Append(s, e) = 1..Len(s) + 1
      /\ \A k \in 1..Len(s) : Append(s, e)[k] = s[k]
      /\ Append(s, e)[Len(s) + 1] = e
  OBVIOUS
<1>2. ASSUME NEW k \in DOMAIN Append(s, e), Append(s, e)[k].type \in Addressed,
             Append(s, e)[k].nick \notin known
      PROVE  \E j \in DOMAIN Append(s, e) :
                j < k /\ Append(s, e)[j] = NickChange(Append(s, e)[k].nick)
  <2>1. CASE k = Len(s) + 1
    <3>1. NickChange(e.nick) \in Content(s) /\ Append(s, e)[k] = e
      BY <2>1, <1>1, <1>2
    <3>2. PICK j \in DOMAIN s : s[j] = NickChange(e.nick)
      BY <3>1 DEF Content
    <3>3. j \in DOMAIN Append(s, e) /\ j < k /\ Append(s, e)[j] = s[j]
      BY <1>1, <2>1
    <3> QED  BY <3>1, <3>2, <3>3
  <2>2. CASE k # Len(s) + 1
    <3>1. k \in DOMAIN s /\ Append(s, e)[k] = s[k]
      BY <2>2, <1>1
    <3>2. PICK j \in DOMAIN s : j < k /\ s[j] = NickChange(s[k].nick)
      BY <3>1, <1>2 DEF Introduced
    <3>3. j \in DOMAIN Append(s, e) /\ Append(s, e)[j] = s[j]
      BY <1>1
    <3> QED  BY <3>1, <3>2, <3>3
  <2> QED  BY <2>1, <2>2
<1> QED  BY <1>2 DEF Introduced

LEMMA TailIntroduced ==
    ASSUME NEW s \in Seq(Msg), s # <<>>, NEW known, NEW more, Introduced(s, known),
           \A p \in Content(s) : p.type \in Addressed => p.nick \in Nick,
           known \subseteq more,
           Head(s).type = "nickChange" /\ Head(s).nick \in Nick => Head(s).nick \in more
    PROVE  /\ Introduced(Tail(s), more)
           /\ Head(s).type \in Addressed => Head(s).nick \in known
<1>1. /\ Head(s) = s[1] /\ Len(s) \in Nat /\ Len(s) >= 1 /\ DOMAIN s = 1..Len(s)
      /\ DOMAIN Tail(s) = 1..Len(s) - 1
      /\ \A k \in 1..Len(s) - 1 : Tail(s)[k] = s[k + 1]
  OBVIOUS
<1>2. ASSUME NEW k \in DOMAIN Tail(s), Tail(s)[k].type \in Addressed,
             Tail(s)[k].nick \notin more
      PROVE  \E j \in DOMAIN Tail(s) : j < k /\ Tail(s)[j] = NickChange(Tail(s)[k].nick)
  <2>1. k + 1 \in DOMAIN s /\ Tail(s)[k] = s[k + 1]
    BY <1>1
  <2>2. PICK j \in DOMAIN s : j < k + 1 /\ s[j] = NickChange(s[k + 1].nick)
    BY <2>1, <1>2 DEF Introduced
  <2>3. s[k + 1].nick \in Nick
    BY <2>1, <1>2 DEF Content
  <2>4. j # 1
    BY <2>1, <2>2, <2>3, <1>1, <1>2 DEF NickChange
  <2>5. j - 1 \in DOMAIN Tail(s) /\ j - 1 < k /\ Tail(s)[j - 1] = s[j]
    BY <2>1, <2>2, <2>4, <1>1
  <2> QED  BY <2>1, <2>2, <2>5
<1>3. Introduced(Tail(s), more)
  BY <1>2 DEF Introduced
<1>4. ASSUME Head(s).type \in Addressed PROVE Head(s).nick \in known
  <2>1. 1 \in DOMAIN s /\ \A j \in DOMAIN s : ~(j < 1)
    BY <1>1
  <2> QED  BY <2>1, <1>1, <1>4 DEF Introduced
<1> QED  BY <1>3, <1>4

(* What a node receives, seen from each channel.                           *)
LEMMA ReceivedContent ==
    ASSUME channel \in [Node -> [Node -> Seq(Msg)]],
           NEW n \in Node, NEW m \in Peers(n), NEW type, Receive(n, m, type),
           NEW x \in Node, NEW y \in Node
    PROVE  /\ Content(channel'[x][y]) \subseteq Content(channel[x][y])
           /\ Content(channel[x][y]) \subseteq Content(channel'[x][y]) \cup {Message(n, m)}
           /\ x # m \/ y # n => channel'[x][y] = channel[x][y]
<1>1. /\ channel[m][n] # <<>> /\ channel[m][n] \in Seq(Msg)
      /\ \A u, v \in Node : Content(channel'[u][v]) \subseteq Content(channel[u][v])
      /\ \A u, v \in Node : channel'[u][v] =
            IF u = m /\ v = n THEN Tail(channel[m][n]) ELSE channel[u][v]
  BY ReceivedChannel, ZenonT(30)
<1>2. Content(channel[m][n]) = Content(Tail(channel[m][n])) \cup {Head(channel[m][n])}
  BY <1>1, TailContent
<1> QED  BY <1>1, <1>2 DEF Message

\* A name that two might have taken is no name.
LEMMA OneOwner ==
    ASSUME NamesApart, NEW x \in Nick, NEW m \in Node, NEW k \in Node,
           x \in Own(m), x \in Own(k)
    PROVE  m = k
BY ChatAssumption DEF NamesApart, Own

LEMMA SentBook ==
    ASSUME TypeInv, BookInv, NEW n \in Node, NEW to, NEW msg \in Msg, Sent(n, to, msg),
           msg.nick \in {nickname[n], NoNick},
           msg.type \in Addressed => msg.nick = nickname[n] /\ msg.nick # NoNick,
           UNCHANGED <<nickname, byName>>
    PROVE  BookInv'
<1>1. channel \in [Node -> [Node -> Seq(Msg)]]
  BY DEF TypeInv, TypeOK
<1>2. msg.nick \in Own(n)
  BY DEF BookInv, Owned, Own
<1>3. ASSUME NEW x \in Node, NEW y \in Node, NEW p \in Content(channel'[x][y])
      PROVE  p.nick \in Own(x)
  <2>1. Content(channel'[x][y]) \subseteq Content(channel[x][y]) \cup {msg}
    BY <1>1, SentContent
  <2>2. Reached(n, to, x, y) \/ Content(channel'[x][y]) = Content(channel[x][y])
    BY <1>1, SentContent
  <2>3. p \in Content(channel[x][y]) \/ (x = n /\ p = msg)
    BY <2>1, <2>2 DEF Reached
  <2> QED  BY <2>3, <1>2 DEF BookInv, Owned
<1>4. Owned'
  BY <1>3 DEF BookInv, Owned, Own, Peers
<1>5. ASSUME NEW y \in Node, NEW x \in Peers(y)
      PROVE  /\ nickname[x] # NoNick =>
                  \/ nickname[x] \in Known(y, x)
                  \/ NickChange(nickname[x]) \in Content(channel'[x][y])
             /\ Introduced(channel'[x][y], Known(y, x))
  <2>1. /\ x \in Node /\ channel[x][y] \in Seq(Msg)
        /\ nickname[x] # NoNick =>
              \/ nickname[x] \in Known(y, x)
              \/ NickChange(nickname[x]) \in Content(channel[x][y])
        /\ Introduced(channel[x][y], Known(y, x))
    BY <1>1 DEF Peers, BookInv, Introductions
  <2>2. Content(channel[x][y]) \subseteq Content(channel'[x][y])
    BY <2>1, <1>1, SentContent
  <2>3. CASE Reached(n, to, x, y)
    <3>1. x = n
      BY <2>3 DEF Reached
    <3>2. channel'[x][y] = Append(channel[x][y], msg)
      BY <1>1, <2>1, <2>3, SentChannel
    <3>3. Introduced(Append(channel[x][y], msg), Known(y, x))
      BY <2>1, <3>1, AppendIntroduced
    <3> QED  BY <2>1, <2>2, <3>2, <3>3
  <2>4. CASE ~Reached(n, to, x, y)
    <3>1. channel'[x][y] = channel[x][y]
      BY <1>1, <2>1, <2>4, SentChannel
    <3> QED  BY <2>1, <3>1
  <2> QED  BY <2>3, <2>4
<1>6. \A y, x \in Node : Known(y, x)' = Known(y, x)
  BY DEF Known
<1>7. Introductions'
  BY <1>5, <1>6 DEF Introductions, Peers
<1> QED  BY <1>4, <1>7 DEF BookInv

LEMMA ReceivedBook ==
    ASSUME TypeInv, BookInv, NEW n \in Node, NEW m \in Peers(n), NEW type,
           Receive(n, m, type), type # "nickChange", UNCHANGED <<nickname, byName>>
    PROVE  BookInv'
<1>1. channel \in [Node -> [Node -> Seq(Msg)]]
  BY DEF TypeInv, TypeOK
<1>2. /\ m \in Node /\ Message(n, m) = Head(channel[m][n]) /\ Message(n, m).type = type
      /\ channel[m][n] # <<>> /\ channel[m][n] \in Seq(Msg)
      /\ \A x, y \in Node : channel'[x][y] =
            IF x = m /\ y = n THEN Tail(channel[m][n]) ELSE channel[x][y]
      /\ \A x, y \in Node : Content(channel'[x][y]) \subseteq Content(channel[x][y])
  BY <1>1, ReceivedChannel, ZenonT(30) DEF Message
<1>3. Owned'
  BY <1>2 DEF BookInv, Owned, Own, Peers
<1>4. ASSUME NEW y \in Node, NEW x \in Peers(y)
      PROVE  /\ nickname[x] # NoNick =>
                  \/ nickname[x] \in Known(y, x)
                  \/ NickChange(nickname[x]) \in Content(channel'[x][y])
             /\ Introduced(channel'[x][y], Known(y, x))
  <2>1. /\ x \in Node /\ channel[x][y] \in Seq(Msg)
        /\ nickname[x] # NoNick =>
              \/ nickname[x] \in Known(y, x)
              \/ NickChange(nickname[x]) \in Content(channel[x][y])
        /\ Introduced(channel[x][y], Known(y, x))
    BY <1>1 DEF Peers, BookInv, Introductions
  <2>2. CASE x = m /\ y = n
    <3>1. NickChange(nickname[x]) # Message(n, m)
      BY <1>2 DEF NickChange
    <3>2. Content(channel[x][y]) \subseteq Content(channel'[x][y]) \cup {Message(n, m)}
      BY <1>1, <2>1, ReceivedContent
    <3>3. \A p \in Content(channel[m][n]) : p.type \in Addressed => p.nick \in Nick
      BY <1>2 DEF TypeInv, MessagesSound, Sound
    <3>4. Introduced(Tail(channel[m][n]), Known(n, m))
      BY <2>1, <2>2, <3>3, <1>2, TailIntroduced
    <3> QED  BY <2>1, <2>2, <3>1, <3>2, <3>4, <1>2
  <2>3. CASE ~(x = m /\ y = n)
    BY <2>1, <2>3, <1>2
  <2> QED  BY <2>2, <2>3
<1>5. \A y, x \in Node : Known(y, x)' = Known(y, x)
  BY DEF Known
<1>6. Introductions'
  BY <1>4, <1>5 DEF Introductions, Peers
<1> QED  BY <1>3, <1>6 DEF BookInv

LEMMA InitBook == Init => BookInv
<1> SUFFICES ASSUME Init PROVE BookInv
  OBVIOUS
<1>1. \A x, y \in Node : channel[x][y] = <<>>
  BY DEF Init
<1>2. \A x, y \in Node : byName[x] = [z \in AnyNick |-> Nobody] /\ nickname[x] = NoNick
  BY DEF Init
<1>3. Owned
  BY <1>1, <1>2 DEF Owned, Own, Content
<1>4. Introductions
  BY <1>1, <1>2 DEF Introductions, Introduced, Peers
<1> QED  BY <1>3, <1>4 DEF BookInv

LEMMA SetNicknameBook ==
    ASSUME Together, TypeInv, BookInv, NEW n \in Node, NEW x \in Nick, SetNickname(n, x)
    PROVE  BookInv'
<1>1. /\ Assembled /\ Sent(n, Node, NickChange(x)) /\ x \in Names[n]
      /\ nickname' = [nickname EXCEPT ![n] = x] /\ UNCHANGED byName
  BY DEF SetNickname, Broadcast, Announced, book
<1>2. channel \in [Node -> [Node -> Seq(Msg)]] /\ nickname \in [Node -> AnyNick]
  BY DEF TypeInv, TypeOK
<1>3. /\ NickChange(x) \in Msg /\ NickChange(x).nick = x
      /\ NickChange(x).type \notin Addressed /\ x \in Own(n)
  BY <1>1, ChatAssumption DEF NickChange, Msg, AnyNick, Talk, Addressed, Own
<1>4. ASSUME NEW u \in Node, NEW v \in Node, NEW p \in Content(channel'[u][v])
      PROVE  p.nick \in Own(u)
  <2>1. Content(channel'[u][v]) \subseteq Content(channel[u][v]) \cup {NickChange(x)}
    BY <1>1, <1>2, <1>3, SentContent
  <2>2. Reached(n, Node, u, v) \/ Content(channel'[u][v]) = Content(channel[u][v])
    BY <1>1, <1>2, <1>3, SentContent
  <2>3. p \in Content(channel[u][v]) \/ (u = n /\ p = NickChange(x))
    BY <2>1, <2>2 DEF Reached
  <2> QED  BY <2>3, <1>3 DEF BookInv, Owned
<1>5. Owned'
  BY <1>1, <1>2, <1>3, <1>4 DEF BookInv, Owned, Own, Peers
<1>6. ASSUME NEW v \in Node, NEW u \in Peers(v)
      PROVE  /\ nickname'[u] # NoNick =>
                  \/ nickname'[u] \in Known(v, u)
                  \/ NickChange(nickname'[u]) \in Content(channel'[u][v])
             /\ Introduced(channel'[u][v], Known(v, u))
  <2>1. /\ u \in Node /\ u # v /\ channel[u][v] \in Seq(Msg)
        /\ nickname[u] # NoNick =>
              \/ nickname[u] \in Known(v, u)
              \/ NickChange(nickname[u]) \in Content(channel[u][v])
        /\ Introduced(channel[u][v], Known(v, u))
    BY <1>2 DEF Peers, BookInv, Introductions
  <2>2. CASE u = n
    <3>1. Reached(n, Node, u, v)
      BY <2>1, <2>2, <1>1 DEF Reached, Assembled, Peers
    <3>2. channel'[u][v] = Append(channel[u][v], NickChange(x)) /\ nickname'[u] = x
      BY <3>1, <2>1, <2>2, <1>1, <1>2, <1>3, SentChannel
    <3>3. NickChange(x) \in Content(channel'[u][v])
      BY <3>1, <2>1, <1>1, <1>2, <1>3, SentContent
    <3>4. Introduced(Append(channel[u][v], NickChange(x)), Known(v, u))
      BY <2>1, <1>3, AppendIntroduced
    <3> QED  BY <3>2, <3>3, <3>4
  <2>3. CASE u # n
    <3>1. ~Reached(n, Node, u, v)
      BY <2>3 DEF Reached
    <3>2. channel'[u][v] = channel[u][v] /\ nickname'[u] = nickname[u]
      BY <3>1, <2>1, <2>3, <1>1, <1>2, <1>3, SentChannel
    <3> QED  BY <3>2, <2>1
  <2> QED  BY <2>2, <2>3
<1>7. \A v, u \in Node : Known(v, u)' = Known(v, u)
  BY <1>1 DEF Known
<1>8. Introductions'
  BY <1>6, <1>7 DEF Introductions, Peers
<1> QED  BY <1>5, <1>8 DEF BookInv

LEMMA IntroducedMore ==
    ASSUME NEW s, NEW known, NEW more, Introduced(s, known), known \subseteq more
    PROVE  Introduced(s, more)
BY DEF Introduced

\* A name that is heard of adds to what is known, and takes nothing away.
LEMMA PutKnown ==
    ASSUME NamesApart, TypeInv, Owned, NEW n \in Node, NEW m \in Node, NEW x \in AnyNick,
           x \in Own(m), Put(n, x, m)
    PROVE  /\ \A v, u \in Node : Known(v, u) \subseteq Known(v, u)'
           /\ x \in Nick => x \in Known(n, m)'
           /\ \A v \in Node : \A z \in AnyNick :
                 byName'[v][z] = IF v = n /\ z = x THEN m ELSE byName[v][z]
<1>1. byName \in [Node -> [AnyNick -> Node \cup {Nobody}]] /\ Nick \subseteq AnyNick
  BY DEF TypeInv, TypeOK, AnyNick
<1>2. \A v \in Node : \A z \in AnyNick :
          byName'[v][z] = IF v = n /\ z = x THEN m ELSE byName[v][z]
  BY <1>1 DEF Put
<1>3. ASSUME NEW v \in Node, NEW u \in Node, NEW z \in Known(v, u)
      PROVE  z \in Known(v, u)'
  <2>1. z \in Nick /\ byName[v][z] = u /\ u # Nobody
    BY ChatAssumption DEF Known
  <2>2. CASE v = n /\ z = x
    <3>1. x \in Own(u)
      BY <2>1, <2>2, <1>1 DEF Owned
    <3>2. m = u
      BY <3>1, <2>1, <2>2, OneOwner
    <3> QED  BY <3>2, <2>1, <2>2, <1>1, <1>2 DEF Known
  <2>3. CASE ~(v = n /\ z = x)
    BY <2>1, <2>3, <1>1, <1>2 DEF Known
  <2> QED  BY <2>2, <2>3
<1>4. x \in Nick => x \in Known(n, m)'
  BY <1>2 DEF Known
<1> QED  BY <1>2, <1>3, <1>4

LEMMA HandleNickChangeBook ==
    ASSUME NamesApart, TypeInv, BookInv, NEW n \in Node, NEW m \in Peers(n),
           HandleNickChange(n, m)
    PROVE  BookInv'
<1> DEFINE head == Message(n, m)
<1>1. /\ Receive(n, m, "nickChange") /\ Put(n, head.nick, m) /\ UNCHANGED nickname
  BY DEF HandleNickChange, user
<1>2. channel \in [Node -> [Node -> Seq(Msg)]]
  BY DEF TypeInv, TypeOK
<1>3. /\ m \in Node /\ m # n /\ head = Head(channel[m][n]) /\ head \in Msg
      /\ head \in Content(channel[m][n]) /\ head.type = "nickChange"
      /\ channel[m][n] # <<>> /\ channel[m][n] \in Seq(Msg)
      /\ \A x, y \in Node : channel'[x][y] =
            IF x = m /\ y = n THEN Tail(channel[m][n]) ELSE channel[x][y]
      /\ \A x, y \in Node : Content(channel'[x][y]) \subseteq Content(channel[x][y])
  BY <1>1, <1>2, ReceivedChannel, ZenonT(30) DEF Message
<1>4. head.nick \in AnyNick /\ head.nick \in Own(m)
  BY <1>3 DEF BookInv, Owned, Msg
<1> HIDE DEF head
<1>5. /\ \A v, u \in Node : Known(v, u) \subseteq Known(v, u)'
      /\ head.nick \in Nick => head.nick \in Known(n, m)'
      /\ \A v \in Node : \A z \in AnyNick :
            byName'[v][z] = IF v = n /\ z = head.nick THEN m ELSE byName[v][z]
  BY <1>1, <1>3, <1>4, PutKnown DEF BookInv
<1>6. Owned'
  <2>1. ASSUME NEW x \in Node, NEW y \in Node, NEW p \in Content(channel'[x][y])
        PROVE  p.nick \in Own(x)
    BY <1>3 DEF BookInv, Owned
  <2>2. ASSUME NEW v \in Node, NEW z \in AnyNick, byName'[v][z] # Nobody
        PROVE  byName'[v][z] \in Peers(v) /\ z \in Own(byName'[v][z])
    <3>1. CASE v = n /\ z = head.nick  BY <3>1, <1>4, <1>5
    <3>2. CASE ~(v = n /\ z = head.nick)
      BY <3>2, <2>2, <1>5 DEF BookInv, Owned
    <3> QED  BY <3>1, <3>2
  <2>3. \A x \in Node : nickname'[x] \in Own(x)
    BY <1>1 DEF BookInv, Owned
  <2> QED  BY <2>1, <2>2, <2>3 DEF Owned, Own, Peers
<1>7. ASSUME NEW y \in Node, NEW x \in Peers(y)
      PROVE  /\ nickname[x] # NoNick =>
                  \/ nickname[x] \in Known(y, x)'
                  \/ NickChange(nickname[x]) \in Content(channel'[x][y])
             /\ Introduced(channel'[x][y], Known(y, x)')
  <2>1. /\ x \in Node /\ channel[x][y] \in Seq(Msg) /\ nickname[x] \in AnyNick
        /\ nickname[x] # NoNick =>
              \/ nickname[x] \in Known(y, x)
              \/ NickChange(nickname[x]) \in Content(channel[x][y])
        /\ Introduced(channel[x][y], Known(y, x))
    BY <1>2 DEF Peers, BookInv, Introductions, TypeInv, TypeOK
  <2>2. CASE x = m /\ y = n
    <3>1. Content(channel[x][y]) \subseteq Content(channel'[x][y]) \cup {head}
      BY <1>1, <1>2, <2>1, ReceivedContent DEF head
    <3>2. head = NickChange(nickname[x]) => head.nick = nickname[x]
      BY DEF NickChange
    <3>3. \A p \in Content(channel[m][n]) : p.type \in Addressed => p.nick \in Nick
      BY <1>3 DEF TypeInv, MessagesSound, Sound
    <3>4. Introduced(Tail(channel[m][n]), Known(n, m)')
      BY <2>1, <2>2, <3>3, <1>3, <1>5, TailIntroduced
    <3> QED  BY <2>1, <2>2, <3>1, <3>2, <3>4, <1>3, <1>5 DEF AnyNick
  <2>3. CASE ~(x = m /\ y = n)
    <3>1. Introduced(channel[x][y], Known(y, x)')
      BY <2>1, <1>5, IntroducedMore
    <3> QED  BY <3>1, <2>1, <2>3, <1>3, <1>5
  <2> QED  BY <2>2, <2>3
<1>8. Introductions'
  BY <1>1, <1>7 DEF Introductions, Peers
<1> QED  BY <1>6, <1>8 DEF BookInv

LEMMA NextBook ==
    ASSUME Together, NamesApart, TypeInv, NameInv, BookInv, [Next]_vars
    PROVE  BookInv'
<1>1. CASE channel' = channel /\ UNCHANGED <<nickname, byName>>
  <2>1. \A y, x \in Node : Known(y, x)' = Known(y, x)
    BY <1>1 DEF Known
  <2> QED  BY <1>1, <2>1 DEF BookInv, Owned, Own, Introductions, Peers
<1>2. ASSUME NEW n \in Node, SetHandlers(n) PROVE BookInv'
  <2>1. /\ RequestNick \in Msg /\ RequestNick.type \notin Addressed
        /\ RequestNick.nick = NoNick
    BY ChatAssumption DEF RequestNick, Msg, AnyNick, Talk, Addressed
  <2> QED  BY <1>2, <2>1, SentBook DEF SetHandlers, Broadcast, user, book
<1>3. ASSUME NEW n \in Node, ClosePage(n) PROVE BookInv'
  <2>1. /\ Leave(nickname[n]) \in Msg /\ Leave(nickname[n]).type \notin Addressed
        /\ Leave(nickname[n]).nick = nickname[n]
    BY ChatAssumption DEF Leave, Msg, AnyNick, Talk, Addressed, TypeInv, TypeOK
  <2> QED  BY <1>3, <2>1, SentBook DEF ClosePage, Broadcast, book
<1>4. ASSUME NEW n \in Node, Reply(n) PROVE BookInv'
  <2>1. PICK to : Sent(n, to, NickChange(nickname[n])) /\ UNCHANGED <<nickname, byName>>
    BY <1>4 DEF Reply, user, book, NameInv, RepliesFresh
  <2>2. /\ NickChange(nickname[n]) \in Msg /\ NickChange(nickname[n]).type \notin Addressed
        /\ NickChange(nickname[n]).nick = nickname[n]
    BY ChatAssumption DEF NickChange, Msg, AnyNick, Talk, Addressed, TypeInv, TypeOK
  <2> QED  BY <2>1, <2>2, SentBook
<1>5. ASSUME NEW n \in Node, NEW x \in Nick, NEW c \in ConvId, StartConversation(n, x, c)
      PROVE  BookInv'
  <2>1. /\ Invite(c, nickname[n]) \in Msg /\ Invite(c, nickname[n]).nick = nickname[n]
        /\ nickname[n] # NoNick
    BY <1>5, ChatAssumption
       DEF StartConversation, Invite, Msg, AnyNick, Talk, TypeInv, TypeOK, NamedAtThePage
  <2>2. PICK to : Sent(n, to, Invite(c, nickname[n])) /\ UNCHANGED <<nickname, byName>>
    BY <1>5 DEF StartConversation, book
  <2> QED  BY <2>1, <2>2, SentBook
<1>6. ASSUME NEW n \in Node, NEW c \in Talk, SendMessage(n, c) PROVE BookInv'
  <2> DEFINE msg == Text(c, nickname[n], Len(texts) + 1)
  <2>1. Len(texts) + 1 \in 0..MaxTexts
    BY <1>6, ChatAssumption DEF SendMessage, TypeInv, TypeOK
  <2>2. msg \in Msg /\ msg.nick = nickname[n] /\ nickname[n] # NoNick
    BY <1>6, <2>1, ChatAssumption
       DEF SendMessage, Text, Msg, AnyNick, TypeInv, TypeOK, NamedAtThePage
  <2>3. PICK to : Sent(n, to, msg) /\ UNCHANGED <<nickname, byName>>
    BY <1>6 DEF SendMessage, user, book
  <2> HIDE DEF msg
  <2> QED  BY <2>2, <2>3, SentBook
<1>7. ASSUME NEW n \in Node, NEW c \in ConvId, LeaveTalk(n, c) PROVE BookInv'
  <2>1. /\ LeaveConversation(c) \in Msg /\ LeaveConversation(c).type \notin Addressed
        /\ LeaveConversation(c).nick = NoNick
    BY ChatAssumption DEF LeaveConversation, Msg, AnyNick, Talk, Addressed
  <2>2. PICK to : Sent(n, to, LeaveConversation(c)) /\ UNCHANGED <<nickname, byName>>
    BY <1>7 DEF LeaveTalk, user, book
  <2> QED  BY <2>1, <2>2, SentBook
<1>8. ASSUME NEW n \in Node, NEW m \in Peers(n),
             \/ HandleText(n, m) \/ HandleLeave(n, m) \/ HandleInvite(n, m)
             \/ HandleRequestNick(n, m) \/ HandleLeaveConversation(n, m)
      PROVE  BookInv'
  <2>1. /\ \E type \in {"text", "leave", "invite", "requestNick", "leaveConv"} :
              Receive(n, m, type)
        /\ UNCHANGED <<nickname, byName>>
    BY <1>8
       DEF HandleText, HandleLeave, HandleInvite, HandleRequestNick,
           HandleLeaveConversation, user, book
  <2> QED  BY <2>1, ReceivedBook
<1>9. \A n \in Node : Boot(n) \/ OpenPage(n) => channel' = channel /\ UNCHANGED <<nickname, byName>>
  BY DEF Boot, OpenPage, user, book
<1>10. \A n \in Node : \A m \in Peers(n) :
          Join(n, m) => channel' = channel /\ UNCHANGED <<nickname, byName>>
  BY DEF Join, user, book
<1>11. UNCHANGED vars => channel' = channel /\ UNCHANGED <<nickname, byName>>
  BY DEF vars, user, book
<1> QED
  BY <1>1, <1>2, <1>3, <1>4, <1>5, <1>6, <1>7, <1>8, <1>9, <1>10, <1>11,
     SetNicknameBook, HandleNickChangeBook
     DEF Next

----------------------------------------------------------------------------
(* Conversations.  A conversation is between two nodes: what is on its way *)
(* about it goes from one of them to the other, and the other has entered  *)
(* it or has yet to handle the invitation.                                 *)

TalksKnown ==
    \A n \in Node : \A c \in ConvId :
        convs[n][c] # Absent => byName[n][convs[n][c]] = partner[n][c]

Invited(n, m, c) == \E p \in Content(channel[n][m]) : p.type = "invite" /\ p.conv = c

Paired(n, c) ==
    /\ partner[n][c] \in Peers(n)
    /\ partner[partner[n][c]][c] = n \/ Invited(n, partner[n][c], c)
    /\ \A o \in Peers(n) : partner[o][c] # Nobody => o = partner[n][c] /\ partner[o][c] = n

Pairs == \A n \in Node : \A c \in ConvId : partner[n][c] # Nobody => Paired(n, c)

AboutPartner ==
    \A x, y \in Node : \A p \in Content(channel[x][y]) :
        p.type \in Addressed /\ p.conv \in ConvId => partner[x][p.conv] = y

TextsAddressed ==
    \A x, y \in Node : \A p \in Content(channel[x][y]) :
        p.type = "text" => y \in texts[p.text].to

TalkInv ==
    /\ TalksKnown
    /\ Pairs
    /\ AboutPartner
    /\ TextsAddressed
    /\ PrivateStaysPrivate

LEMMA FewerTalks ==
    ASSUME TalksKnown, UNCHANGED <<byName, partner>>,
           \A n \in Node : \A c \in ConvId : convs'[n][c] = convs[n][c] \/ convs'[n][c] = Absent
    PROVE  TalksKnown'
BY DEF TalksKnown

\* A pair stays one while partners stay and its invitation is on its way.
LEMMA PairStays ==
    ASSUME NEW n \in Node, NEW c \in ConvId, Paired(n, c), UNCHANGED partner,
           Invited(n, partner[n][c], c) => Invited(n, partner[n][c], c)'
    PROVE  Paired(n, c)'
BY DEF Paired, Peers

\* A message that is no message of a conversation is sent.
LEMMA SentTalks ==
    ASSUME TypeInv, TalkInv, NEW n \in Node, NEW to, NEW msg \in Msg, Sent(n, to, msg),
           msg.type \notin Addressed, UNCHANGED <<partner, texts>>
    PROVE  Pairs' /\ AboutPartner' /\ TextsAddressed'
<1>1. channel \in [Node -> [Node -> Seq(Msg)]]
  BY DEF TypeInv, TypeOK
<1>2. ASSUME NEW x \in Node, NEW y \in Node, NEW p \in Content(channel'[x][y]),
             p.type \in Addressed
      PROVE  p \in Content(channel[x][y])
  <2>1. Content(channel'[x][y]) \subseteq Content(channel[x][y]) \cup {msg}
    BY <1>1, SentContent
  <2> QED  BY <2>1, <1>2
<1>3. AboutPartner' /\ TextsAddressed'
  BY <1>2 DEF TalkInv, AboutPartner, TextsAddressed, Addressed
<1>4. ASSUME NEW x \in Node, NEW c \in ConvId, partner[x][c] # Nobody
      PROVE  Paired(x, c)'
  <2>1. Paired(x, c) /\ partner[x][c] \in Node
    BY <1>4 DEF TalkInv, Pairs, Paired, Peers
  <2>2. Content(channel[x][partner[x][c]]) \subseteq Content(channel'[x][partner[x][c]])
    BY <2>1, <1>1, SentContent
  <2>3. Invited(x, partner[x][c], c) => Invited(x, partner[x][c], c)'
    BY <2>2 DEF Invited
  <2> QED  BY <2>1, <2>3, PairStays
<1> QED  BY <1>3, <1>4 DEF Pairs

\* A message that is no invitation is handled.
LEMMA ReceivedTalks ==
    ASSUME TypeInv, TalkInv, NEW n \in Node, NEW m \in Peers(n), NEW type,
           Receive(n, m, type), type # "invite", UNCHANGED <<partner, texts>>
    PROVE  Pairs' /\ AboutPartner' /\ TextsAddressed'
<1>1. channel \in [Node -> [Node -> Seq(Msg)]]
  BY DEF TypeInv, TypeOK
<1>2. /\ Message(n, m).type # "invite"
      /\ \A x, y \in Node : Content(channel'[x][y]) \subseteq Content(channel[x][y])
  BY <1>1, ReceivedChannel
<1>3. AboutPartner' /\ TextsAddressed'
  BY <1>2 DEF TalkInv, AboutPartner, TextsAddressed
<1>4. ASSUME NEW x \in Node, NEW c \in ConvId, partner[x][c] # Nobody
      PROVE  Paired(x, c)'
  <2>1. Paired(x, c) /\ partner[x][c] \in Node
    BY <1>4 DEF TalkInv, Pairs, Paired, Peers
  <2>2. Content(channel[x][partner[x][c]])
          \subseteq Content(channel'[x][partner[x][c]]) \cup {Message(n, m)}
    BY <2>1, <1>1, ReceivedContent
  <2>3. Invited(x, partner[x][c], c) => Invited(x, partner[x][c], c)'
    BY <2>2, <1>2 DEF Invited
  <2> QED  BY <2>1, <2>3, PairStays
<1> QED  BY <1>3, <1>4 DEF Pairs

\* A conversation is entered for a message of it that is handled.
LEMMA EnteredTalks ==
    ASSUME TypeInv, BookInv, TalkInv, NEW n \in Node, NEW m \in Peers(n), NEW type \in Addressed,
           Receive(n, m, type), Enter(n, Message(n, m).conv, Message(n, m).nick, m),
           UNCHANGED <<byName, texts>>
    PROVE  TalksKnown' /\ Pairs' /\ AboutPartner' /\ TextsAddressed'
<1> DEFINE head == Message(n, m)
           c == head.conv
<1>1. /\ channel \in [Node -> [Node -> Seq(Msg)]]
      /\ convs \in [Node -> [Talk -> Nick \cup {Absent}]]
      /\ partner \in [Node -> [Talk -> Node \cup {Nobody}]]
  BY DEF TypeInv, TypeOK
<1>2. /\ m \in Node /\ m # n /\ head = Head(channel[m][n]) /\ head.type = type
      /\ head \in Content(channel[m][n])
      /\ channel[m][n] # <<>> /\ channel[m][n] \in Seq(Msg)
      /\ \A x, y \in Node : Content(channel'[x][y]) \subseteq Content(channel[x][y])
  BY <1>1, ReceivedChannel DEF Message
<1>3. ConvId \subseteq Talk
  BY DEF Talk
<1>4. byName[n][head.nick] = m
  <2>1. \A p \in Content(channel[m][n]) : p.type \in Addressed => p.nick \in Nick
    BY <1>2 DEF TypeInv, MessagesSound, Sound
  <2>2. Introduced(channel[m][n], Known(n, m))
    BY DEF BookInv, Introductions
  <2>3. Head(channel[m][n]).type # "nickChange"
    BY <1>2 DEF Addressed
  <2>4. Head(channel[m][n]).nick \in Known(n, m)
    BY <2>1, <2>2, <2>3, <1>2, TailIntroduced
  <2> QED  BY <2>4, <1>2 DEF Known
<1> HIDE DEF head
<1>5. /\ convs' = [convs EXCEPT ![n][c] = head.nick]
      /\ partner' = [partner EXCEPT ![n][c] = m]
  BY DEF Enter, head
<1>6. ASSUME NEW x \in Node, NEW d \in ConvId
      PROVE  /\ convs'[x][d] = IF x = n /\ d = c THEN head.nick ELSE convs[x][d]
             /\ partner'[x][d] = IF x = n /\ d = c THEN m ELSE partner[x][d]
  BY <1>1, <1>3, <1>5
<1>7. TalksKnown'
  BY <1>4, <1>6 DEF TalkInv, TalksKnown
<1>8. TextsAddressed'
  BY <1>2 DEF TalkInv, TextsAddressed
<1>9. ASSUME c \in ConvId
      PROVE  /\ partner[m][c] = n
             /\ \A o \in Node : o # m /\ partner[o][c] # Nobody => o = n /\ partner[o][c] = m
  <2>1. partner[m][c] = n /\ n # Nobody
    BY <1>2, <1>9, ChatAssumption DEF TalkInv, AboutPartner
  <2>2. Paired(m, c)
    BY <2>1, <1>2, <1>9 DEF TalkInv, Pairs
  <2> QED  BY <2>1, <2>2 DEF Paired, Peers
<1>10. AboutPartner'
  <2> SUFFICES ASSUME NEW x \in Node, NEW y \in Node, NEW p \in Content(channel'[x][y]),
                      p.type \in Addressed, p.conv \in ConvId
               PROVE  partner'[x][p.conv] = y
    BY DEF AboutPartner
  <2>1. partner[x][p.conv] = y /\ y # Nobody
    BY <1>2, ChatAssumption, SMTT(30) DEF TalkInv, AboutPartner
  <2> QED  BY <2>1, <1>2, <1>6, <1>9
<1>11. ASSUME NEW x \in Node, NEW d \in ConvId, partner'[x][d] # Nobody
       PROVE  Paired(x, d)'
  <2>1. CASE d # c
    <3>1. \A o \in Node : partner'[o][d] = partner[o][d]
      BY <2>1, <1>6
    <3>2. Paired(x, d) /\ partner[x][d] \in Node
      BY <3>1, <1>11 DEF TalkInv, Pairs, Paired, Peers
    <3>3. Content(channel[x][partner[x][d]])
            \subseteq Content(channel'[x][partner[x][d]]) \cup {head}
      BY <3>2, <1>1, ReceivedContent DEF head
    <3>4. Invited(x, partner[x][d], d) => \E p \in Content(channel'[x][partner[x][d]]) :
            p.type = "invite" /\ p.conv = d
      BY <3>3, <2>1 DEF Invited
    <3> QED  BY <3>1, <3>2, <3>4 DEF Paired, Invited, Peers
  <2>2. CASE d = c /\ x = n
    <3>1. /\ partner'[x][d] = m /\ partner'[m][d] = n
          /\ \A o \in Peers(n) : partner'[o][d] = partner[o][d]
      BY <2>2, <1>2, <1>6, <1>9, ZenonT(30) DEF Peers
    <3> QED  BY <3>1, <2>2, <1>2, <1>9 DEF Paired, Peers
  <2>3. CASE d = c /\ x # n
    <3>1. x = m /\ partner'[x][d] = n /\ partner'[n][d] = m
      BY <2>3, <1>2, <1>6, <1>9, <1>11
    <3>2. \A o \in Peers(m) : partner'[o][d] # Nobody => o = n
      BY <2>3, <1>6, <1>9 DEF Peers
    <3> QED  BY <3>1, <3>2, <1>2 DEF Paired, Peers
  <2> QED  BY <2>1, <2>2, <2>3
<1> QED  BY <1>7, <1>8, <1>10, <1>11 DEF Pairs

\* A conversation is started, with an invitation on its way.
LEMMA StartTalks ==
    ASSUME TypeInv, NameInv, BookInv, TalkInv, NEW n \in Node, NEW x \in Nick, NEW c \in ConvId,
           StartConversation(n, x, c)
    PROVE  TalksKnown' /\ Pairs' /\ AboutPartner' /\ TextsAddressed'
<1> DEFINE m == byName[n][x]
           msg == Invite(c, nickname[n])
<1>1. /\ channel \in [Node -> [Node -> Seq(Msg)]]
      /\ convs \in [Node -> [Talk -> Nick \cup {Absent}]]
      /\ partner \in [Node -> [Talk -> Node \cup {Nobody}]]
      /\ ConvId \subseteq Talk /\ x \in AnyNick /\ nickname[n] \in AnyNick
  BY DEF TypeInv, TypeOK, Talk, AnyNick
<1>2. /\ msg \in Msg /\ msg.type = "invite" /\ msg.conv = c
  BY <1>1, ChatAssumption DEF Invite, Msg
<1>3. /\ nickname[n] # NoNick /\ m # Nobody
      /\ \A k \in Node : convs[k][c] = Absent /\ partner[k][c] = Nobody
      /\ convs' = [convs EXCEPT ![n][c] = x] /\ partner' = [partner EXCEPT ![n][c] = m]
      /\ Sent(n, {m}, msg) /\ UNCHANGED <<byName, texts>>
  BY DEF StartConversation, Enter, book, TypeInv, NamedAtThePage
<1>4. m \in Peers(n) /\ m \in Node /\ m # n
  BY <1>1, <1>3 DEF BookInv, Owned, Peers
<1>5. Reached(n, {m}, n, m)
  BY <1>3, <1>4 DEF Reached, NameInv, Settled
<1> HIDE DEF m, msg
<1>6. ASSUME NEW k \in Node, NEW d \in ConvId
      PROVE  /\ convs'[k][d] = IF k = n /\ d = c THEN x ELSE convs[k][d]
             /\ partner'[k][d] = IF k = n /\ d = c THEN m ELSE partner[k][d]
  BY <1>1, <1>3
<1>7. TalksKnown'
  BY <1>3, <1>6 DEF TalkInv, TalksKnown, m
<1>8. ASSUME NEW u \in Node, NEW v \in Node, NEW p \in Content(channel'[u][v])
      PROVE  p \in Content(channel[u][v]) \/ (u = n /\ v = m /\ p = msg)
  <2>1. Content(channel'[u][v]) \subseteq Content(channel[u][v]) \cup {msg}
    BY <1>1, <1>2, <1>3, SentContent
  <2>2. Reached(n, {m}, u, v) \/ Content(channel'[u][v]) = Content(channel[u][v])
    BY <1>1, <1>2, <1>3, SentContent
  <2> QED  BY <2>1, <2>2 DEF Reached
<1>9. TextsAddressed'
  BY <1>2, <1>3, <1>8 DEF TalkInv, TextsAddressed
<1>10. AboutPartner'
  <2> SUFFICES ASSUME NEW u \in Node, NEW v \in Node, NEW p \in Content(channel'[u][v]),
                      p.type \in Addressed, p.conv \in ConvId
               PROVE  partner'[u][p.conv] = v
    BY DEF AboutPartner
  <2>1. CASE u = n /\ v = m /\ p = msg
    BY <2>1, <1>2, <1>6
  <2>2. CASE p \in Content(channel[u][v])
    <3>1. partner[u][p.conv] = v /\ v # Nobody
      BY <2>2, ChatAssumption DEF TalkInv, AboutPartner
    <3> QED  BY <3>1, <1>3, <1>6
  <2> QED  BY <2>1, <2>2, <1>8
<1>11. ASSUME NEW u \in Node, NEW d \in ConvId, partner'[u][d] # Nobody
       PROVE  Paired(u, d)'
  <2>1. CASE d # c
    <3>1. \A o \in Node : partner'[o][d] = partner[o][d]
      BY <2>1, <1>6
    <3>2. Paired(u, d) /\ partner[u][d] \in Node
      BY <3>1, <1>11 DEF TalkInv, Pairs, Paired, Peers
    <3>3. Content(channel[u][partner[u][d]]) \subseteq Content(channel'[u][partner[u][d]])
      BY <3>2, <1>1, <1>2, <1>3, SentContent
    <3>4. Invited(u, partner[u][d], d) => \E p \in Content(channel'[u][partner[u][d]]) :
            p.type = "invite" /\ p.conv = d
      BY <3>3 DEF Invited
    <3> QED  BY <3>1, <3>2, <3>4 DEF Paired, Invited, Peers
  <2>2. CASE d = c
    <3>1. u = n /\ partner'[u][d] = m /\ \A o \in Peers(n) : partner'[o][d] = Nobody
      BY <2>2, <1>3, <1>6, <1>11 DEF Peers
    <3>2. msg \in Content(channel'[n][m])
      BY <1>1, <1>2, <1>3, <1>4, <1>5, SentContent
    <3> QED  BY <2>2, <3>1, <3>2, <1>2, <1>4 DEF Paired, Invited, Peers
  <2> QED  BY <2>1, <2>2
<1> QED  BY <1>7, <1>9, <1>10, <1>11 DEF Pairs

\* A text goes to those it is meant for.
LEMMA SendTalks ==
    ASSUME TypeInv, TalkInv, NEW n \in Node, NEW c \in Talk, SendMessage(n, c)
    PROVE  TalkInv'
<1> DEFINE e == [from |-> n, to |-> IF c = Everyone THEN network[n] ELSE {partner[n][c]}]
           msg == Text(c, nickname[n], Len(texts) + 1)
           to == Destination(n, c)
<1>1. /\ channel \in [Node -> [Node -> Seq(Msg)]]
      /\ texts \in Seq([from : Node, to : SUBSET Node]) /\ Len(texts) \in Nat
      /\ received \in [Node -> SUBSET (1..Len(texts))]
  BY DEF TypeInv, TypeOK
<1>2. /\ Len(texts) + 1 \in 0..MaxTexts /\ nickname[n] \in AnyNick
      /\ UNCHANGED <<byName, convs, partner, received>> /\ convs[n][c] # Absent
      /\ texts' = Append(texts, e) /\ Sent(n, to, msg)
  BY <1>1, ChatAssumption DEF SendMessage, user, book, TypeInv, TypeOK
<1>3. /\ msg \in Msg /\ msg.type = "text" /\ msg.conv = c /\ msg.text = Len(texts) + 1
  BY <1>2 DEF Text, Msg
<1>4. c \in ConvId => to = {partner[n][c]} /\ e.to = {partner[n][c]}
  <2> SUFFICES ASSUME c \in ConvId PROVE to = {partner[n][c]} /\ c # Everyone
    OBVIOUS
  <2>1. partner[n][c] = byName[n][convs[n][c]] /\ partner[n][c] \in Node
    BY <1>2 DEF TalkInv, TalksKnown, TypeInv, TalksHavePartners
  <2> QED  BY <2>1, ChatAssumption DEF Destination, Everyone
<1>5. c \notin ConvId => e.to = network[n]
  BY DEF Talk
<1>6. e \in [from : Node, to : SUBSET Node]
  BY <1>2 DEF TypeInv, TypeOK, TalksHavePartners, Talk
<1> HIDE DEF e, msg, to
<1>7. /\ \A t \in 1..Len(texts) : texts'[t] = texts[t]
      /\ texts'[Len(texts) + 1] = e
  BY <1>1, <1>2, <1>6
<1>8. ASSUME NEW u \in Node, NEW v \in Node, NEW p \in Content(channel'[u][v])
      PROVE  \/ p \in Content(channel[u][v])
             \/ u = n /\ v \in to /\ v \in network[n] /\ p = msg
  <2>1. Content(channel'[u][v]) \subseteq Content(channel[u][v]) \cup {msg}
    BY <1>1, <1>2, <1>3, SentContent
  <2>2. Reached(n, to, u, v) \/ Content(channel'[u][v]) = Content(channel[u][v])
    BY <1>1, <1>2, <1>3, SentContent
  <2> QED  BY <2>1, <2>2 DEF Reached
<1>9. TextsAddressed'
  <2> SUFFICES ASSUME NEW u \in Node, NEW v \in Node, NEW p \in Content(channel'[u][v]),
                      p.type = "text"
               PROVE  v \in texts'[p.text].to
    BY DEF TextsAddressed
  <2>1. CASE p \in Content(channel[u][v])
    <3>1. p.text \in 1..Len(texts)
      BY <2>1 DEF TypeInv, MessagesSound, Sound
    <3> QED  BY <3>1, <2>1, <1>7 DEF TalkInv, TextsAddressed
  <2>2. CASE u = n /\ v \in to /\ v \in network[n] /\ p = msg
    <3>1. v \in e.to
      BY <2>2, <1>4, <1>5
    <3> QED  BY <3>1, <2>2, <1>3, <1>7
  <2> QED  BY <2>1, <2>2, <1>8
<1>10. AboutPartner'
  <2> SUFFICES ASSUME NEW u \in Node, NEW v \in Node, NEW p \in Content(channel'[u][v]),
                      p.type \in Addressed, p.conv \in ConvId
               PROVE  partner[u][p.conv] = v
    BY <1>2 DEF AboutPartner
  <2>1. CASE p \in Content(channel[u][v])
    BY <2>1 DEF TalkInv, AboutPartner
  <2>2. CASE u = n /\ v \in to /\ v \in network[n] /\ p = msg
    BY <2>2, <1>3, <1>4
  <2> QED  BY <2>1, <2>2, <1>8
<1>11. ASSUME NEW x \in Node, NEW d \in ConvId, partner[x][d] # Nobody
       PROVE  Paired(x, d)'
  <2>1. Paired(x, d) /\ partner[x][d] \in Node
    BY <1>11 DEF TalkInv, Pairs, Paired, Peers
  <2>2. Content(channel[x][partner[x][d]]) \subseteq Content(channel'[x][partner[x][d]])
    BY <2>1, <1>1, <1>2, <1>3, SentContent
  <2>3. Invited(x, partner[x][d], d) => Invited(x, partner[x][d], d)'
    BY <2>2, <1>2 DEF Invited
  <2> QED  BY <2>1, <2>3, <1>2, PairStays
<1>12. Pairs'
  BY <1>2, <1>11 DEF Pairs
<1>13. TalksKnown'
  BY <1>2 DEF TalkInv, TalksKnown
<1>14. PrivateStaysPrivate'
  BY <1>1, <1>2, <1>7 DEF TalkInv, PrivateStaysPrivate
<1> QED  BY <1>9, <1>10, <1>12, <1>13, <1>14 DEF TalkInv

LEMMA InitTalk == Init => TalkInv
<1> SUFFICES ASSUME Init PROVE TalkInv
  OBVIOUS
<1>1. /\ \A x, y \in Node : channel[x][y] = <<>>
      /\ \A n \in Node : received[n] = {}
      /\ \A n \in Node : \A c \in ConvId : partner[n][c] = Nobody /\ convs[n][c] = Absent
  BY ChatAssumption DEF Init, Talk, Everyone
<1> QED
  BY <1>1
     DEF TalkInv, TalksKnown, Pairs, AboutPartner, TextsAddressed, PrivateStaysPrivate, Content

LEMMA HandleNickChangeTalk ==
    ASSUME NamesApart, TypeInv, BookInv, TalkInv, NEW n \in Node, NEW m \in Peers(n),
           HandleNickChange(n, m)
    PROVE  TalkInv'
<1>1. /\ Receive(n, m, "nickChange") /\ Put(n, Message(n, m).nick, m)
      /\ UNCHANGED <<convs, partner, texts, received>>
  BY DEF HandleNickChange, talks
<1>2. channel \in [Node -> [Node -> Seq(Msg)]]
  BY DEF TypeInv, TypeOK
<1>3. m \in Node /\ Message(n, m) \in Msg /\ Message(n, m) \in Content(channel[m][n])
  BY <1>1, <1>2, ReceivedChannel
<1>4. Message(n, m).nick \in AnyNick /\ Message(n, m).nick \in Own(m)
  BY <1>3 DEF BookInv, Owned, Msg
<1>5. \A v, u \in Node : Known(v, u) \subseteq Known(v, u)'
  BY <1>1, <1>3, <1>4, PutKnown DEF BookInv
<1>6. ASSUME NEW k \in Node, NEW c \in ConvId, convs[k][c] # Absent
      PROVE  byName'[k][convs[k][c]] = partner[k][c]
  <2>1. convs[k][c] \in Nick /\ partner[k][c] \in Node
    BY <1>6 DEF TypeInv, TypeOK, TalksHavePartners, Talk
  <2>2. convs[k][c] \in Known(k, partner[k][c])
    BY <1>6, <2>1 DEF TalkInv, TalksKnown, Known
  <2>3. convs[k][c] \in Known(k, partner[k][c])'
    BY <2>1, <2>2, <1>1, <1>5
  <2> QED  BY <2>3, <1>1 DEF Known
<1>7. TalksKnown'
  BY <1>1, <1>6 DEF TalksKnown
<1>8. Pairs' /\ AboutPartner' /\ TextsAddressed'
  BY <1>1, ReceivedTalks
<1>9. PrivateStaysPrivate'
  BY <1>1 DEF TalkInv, PrivateStaysPrivate
<1> QED  BY <1>7, <1>8, <1>9 DEF TalkInv

LEMMA HandleTextTalk ==
    ASSUME TypeInv, BookInv, TalkInv, NEW n \in Node, NEW m \in Peers(n), HandleText(n, m)
    PROVE  TalkInv'
<1> DEFINE msg == Message(n, m)
<1>1. /\ Receive(n, m, "text") /\ UNCHANGED <<byName, texts>>
      /\ received' = [received EXCEPT ![n] = @ \cup {msg.text}]
      /\ \/ Enter(n, msg.conv, msg.nick, m)
         \/ UNCHANGED <<convs, partner>>
  BY DEF HandleText, book
<1>2. m \in Node /\ msg \in Content(channel[m][n]) /\ msg.type = "text"
  BY <1>1, ReceivedChannel DEF TypeInv, TypeOK
<1>3. PrivateStaysPrivate'
  <2>1. n \in texts[msg.text].to
    BY <1>2 DEF TalkInv, TextsAddressed
  <2>2. received \in [Node -> SUBSET (1..Len(texts))]
    BY DEF TypeInv, TypeOK
  <2>3. \A k \in Node : received'[k] \subseteq
           received[k] \cup (IF k = n THEN {msg.text} ELSE {})
    BY <1>1, <2>2
  <2> QED  BY <1>1, <2>1, <2>3 DEF TalkInv, PrivateStaysPrivate
<1>4. TalksKnown' /\ Pairs' /\ AboutPartner' /\ TextsAddressed'
  <2>1. CASE Enter(n, msg.conv, msg.nick, m)
    <3>1. "text" \in Addressed
      BY DEF Addressed
    <3> QED  BY <3>1, <2>1, <1>1, EnteredTalks
  <2>2. CASE UNCHANGED <<convs, partner>>
    <3>1. TalksKnown'
      BY <2>2, <1>1 DEF TalkInv, TalksKnown
    <3>2. Pairs' /\ AboutPartner' /\ TextsAddressed'
      BY <2>2, <1>1, ReceivedTalks
    <3> QED  BY <3>1, <3>2
  <2> QED  BY <2>1, <2>2, <1>1
<1> QED  BY <1>3, <1>4 DEF TalkInv

LEMMA HandleInviteTalk ==
    ASSUME TypeInv, BookInv, TalkInv, NEW n \in Node, NEW m \in Peers(n), HandleInvite(n, m)
    PROVE  TalkInv'
<1>1. /\ Receive(n, m, "invite") /\ UNCHANGED <<byName, texts, received>>
      /\ Enter(n, Message(n, m).conv, Message(n, m).nick, m)
  BY DEF HandleInvite, Accept, book
<1>2. "invite" \in Addressed
  BY DEF Addressed
<1>3. TalksKnown' /\ Pairs' /\ AboutPartner' /\ TextsAddressed'
  BY <1>1, <1>2, EnteredTalks
<1> QED  BY <1>1, <1>3 DEF TalkInv, PrivateStaysPrivate

LEMMA NextTalk ==
    ASSUME Together, NamesApart, TypeInv, NameInv, BookInv, TalkInv, [Next]_vars
    PROVE  TalkInv'
<1>1. CASE channel' = channel /\ UNCHANGED <<byName, talks>>
  BY <1>1
     DEF talks, TalkInv, TalksKnown, Pairs, Paired, Invited, AboutPartner, TextsAddressed,
         PrivateStaysPrivate, Peers
<1>2. ASSUME NEW n \in Node, NEW to, NEW msg \in Msg, Sent(n, to, msg),
             msg.type \notin Addressed, UNCHANGED <<byName, partner, texts, received>>,
             \A k \in Node : \A c \in ConvId :
                 convs'[k][c] = convs[k][c] \/ convs'[k][c] = Absent
      PROVE  TalkInv'
  <2>1. Pairs' /\ AboutPartner' /\ TextsAddressed'
    BY <1>2, SentTalks
  <2>2. TalksKnown'
    BY <1>2, FewerTalks DEF TalkInv
  <2> QED  BY <2>1, <2>2, <1>2 DEF TalkInv, PrivateStaysPrivate
<1>3. ASSUME NEW n \in Node, NEW m \in Peers(n), NEW type, Receive(n, m, type),
             type # "invite", UNCHANGED <<byName, partner, texts, received>>,
             \A k \in Node : \A c \in ConvId :
                 convs'[k][c] = convs[k][c] \/ convs'[k][c] = Absent
      PROVE  TalkInv'
  <2>1. Pairs' /\ AboutPartner' /\ TextsAddressed'
    BY <1>3, ReceivedTalks
  <2>2. TalksKnown'
    BY <1>3, FewerTalks DEF TalkInv
  <2> QED  BY <2>1, <2>2, <1>3 DEF TalkInv, PrivateStaysPrivate
<1>4. ASSUME NEW n \in Node, NEW c \in Talk, Remove(n, c)
      PROVE  \A k \in Node : \A d \in ConvId :
                 convs'[k][d] = convs[k][d] \/ convs'[k][d] = Absent
  BY <1>4 DEF Remove, TypeInv, TypeOK, Talk
<1>5. ASSUME NEW n \in Node, SetHandlers(n) PROVE TalkInv'
  <2>1. RequestNick \in Msg /\ RequestNick.type \notin Addressed
    BY ChatAssumption DEF RequestNick, Msg, AnyNick, Talk, Addressed
  <2> QED  BY <1>5, <2>1, <1>2 DEF SetHandlers, Broadcast, book, talks
<1>6. ASSUME NEW n \in Node, ClosePage(n) PROVE TalkInv'
  <2>1. Leave(nickname[n]) \in Msg /\ Leave(nickname[n]).type \notin Addressed
    BY ChatAssumption DEF Leave, Msg, AnyNick, Talk, Addressed, TypeInv, TypeOK
  <2> QED  BY <1>6, <2>1, <1>2 DEF ClosePage, Broadcast, book, talks
<1>7. ASSUME NEW n \in Node, Reply(n) PROVE TalkInv'
  <2>1. PICK to : /\ Sent(n, to, NickChange(nickname[n]))
                  /\ UNCHANGED <<byName, convs, partner, texts, received>>
    BY <1>7 DEF Reply, book, talks, NameInv, RepliesFresh
  <2>2. NickChange(nickname[n]) \in Msg /\ NickChange(nickname[n]).type \notin Addressed
    BY ChatAssumption DEF NickChange, Msg, AnyNick, Talk, Addressed, TypeInv, TypeOK
  <2> QED  BY <2>1, <2>2, <1>2
<1>8. ASSUME NEW n \in Node, NEW x \in Nick, SetNickname(n, x) PROVE TalkInv'
  <2>1. NickChange(x) \in Msg /\ NickChange(x).type \notin Addressed
    BY ChatAssumption DEF NickChange, Msg, AnyNick, Talk, Addressed
  <2> QED  BY <1>8, <2>1, <1>2 DEF SetNickname, Broadcast, Announced, book, talks
<1>9. ASSUME NEW n \in Node, NEW c \in ConvId, LeaveTalk(n, c) PROVE TalkInv'
  <2>1. LeaveConversation(c) \in Msg /\ LeaveConversation(c).type \notin Addressed
    BY ChatAssumption DEF LeaveConversation, Msg, AnyNick, Talk, Addressed
  <2>2. PICK to : /\ Sent(n, to, LeaveConversation(c)) /\ Remove(n, c) /\ c \in Talk
                  /\ UNCHANGED <<byName, partner, texts, received>>
    BY <1>9 DEF LeaveTalk, book, Talk
  <2> QED  BY <2>1, <2>2, <1>2, <1>4
<1>10. ASSUME NEW n \in Node, NEW m \in Peers(n), HandleLeave(n, m) PROVE TalkInv'
  <2>1. /\ Receive(n, m, "leave") /\ UNCHANGED <<byName, partner, texts, received>>
        /\ convs' = convs \/ \E c \in Talk : Remove(n, c)
    BY <1>10 DEF HandleLeave, book
  <2> QED  BY <2>1, <1>3, <1>4
<1>11. ASSUME NEW n \in Node, NEW m \in Peers(n),
              HandleRequestNick(n, m) \/ HandleLeaveConversation(n, m)
       PROVE  TalkInv'
  <2>1. /\ Receive(n, m, "requestNick") \/ Receive(n, m, "leaveConv")
        /\ UNCHANGED <<byName, convs, partner, texts, received>>
    BY <1>11 DEF HandleRequestNick, HandleLeaveConversation, book, talks
  <2> QED  BY <2>1, <1>3
<1>12. ASSUME NEW n \in Node, NEW x \in Nick, NEW c \in ConvId, StartConversation(n, x, c)
       PROVE  TalkInv'
  <2>1. TalksKnown' /\ Pairs' /\ AboutPartner' /\ TextsAddressed'
    BY <1>12, StartTalks
  <2> QED  BY <2>1, <1>12 DEF TalkInv, PrivateStaysPrivate, StartConversation
<1>13. \A n \in Node : Boot(n) \/ OpenPage(n) => channel' = channel /\ UNCHANGED <<byName, talks>>
  BY DEF Boot, OpenPage, book
<1>14. \A n \in Node : \A m \in Peers(n) :
          Join(n, m) => channel' = channel /\ UNCHANGED <<byName, talks>>
  BY DEF Join, book
<1>15. UNCHANGED vars => channel' = channel /\ UNCHANGED <<byName, talks>>
  BY DEF vars, book
<1> QED
  BY <1>1, <1>5, <1>6, <1>7, <1>8, <1>9, <1>10, <1>11, <1>12, <1>13, <1>14, <1>15,
     SendTalks, HandleNickChangeTalk, HandleTextTalk, HandleInviteTalk
     DEF Next

ChatInv == TypeInv /\ NameInv /\ BookInv /\ TalkInv

LEMMA ChatInvariant == ASSUME Together, NamesApart PROVE Spec => []ChatInv
<1>1. Init => ChatInv
  BY InitType, InitNames, InitBook, InitTalk DEF ChatInv
<1>2. ChatInv /\ [Next]_vars => ChatInv'
  BY NextType, NextNames, NextBook, NextTalk DEF ChatInv
<1> QED  BY <1>1, <1>2, PTL DEF Spec

\* Nobody takes a message of a conversation they are not in, however names are
\* changed, and conversations left and made up again.
THEOREM PrivateTalks == ASSUME Together, NamesApart PROVE Spec => []PrivateStaysPrivate
<1>1. ChatInv => PrivateStaysPrivate
  BY DEF ChatInv, TalkInv
<1> QED  BY <1>1, ChatInvariant, PTL

\* A conversation that is listed when nothing is under way is, at the node that
\* it is with, a conversation with the node that lists it.
THEOREM TalksAreShared == ASSUME Together, NamesApart PROVE Spec => []ConversationsAreShared
<1>1. ChatInv => ConversationsAreShared
  <2> SUFFICES ASSUME ChatInv, Quiet, NEW n \in Node, NEW c \in ConvId, convs[n][c] # Absent
               PROVE  partner[partner[n][c]][c] = n
    BY DEF ConversationsAreShared
  <2>1. partner[n][c] \in Node /\ Paired(n, c)
    BY ChatAssumption DEF ChatInv, TypeInv, TalksHavePartners, TalkInv, Pairs
  <2>2. ~Invited(n, partner[n][c], c)
    BY <2>1 DEF Quiet, Invited, Content
  <2> QED  BY <2>1, <2>2 DEF Paired
<1> QED  BY <1>1, ChatInvariant, PTL

----------------------------------------------------------------------------
(* Messages.  While also nobody takes the empty name, which is the user of *)
(* the conversation with everyone, that conversation stays, and what is    *)
(* said in it goes to everyone.                                            *)

NobodyIsEmpty == \A n \in Node : Empty \notin Names[n]

EveryoneOpen == \A n \in Node : convs[n][Everyone] = Empty

OnItsWay(t, n) ==
    \E p \in Content(channel[texts[t].from][n]) : p.type = "text" /\ p.text = t

Arrive ==
    \A t \in DOMAIN texts : \A n \in texts[t].to : t \in received[n] \/ OnItsWay(t, n)

ArriveInv == EveryoneOpen /\ Arrive

LEMMA Types ==
    ASSUME TypeInv
    PROVE  /\ channel \in [Node -> [Node -> Seq(Msg)]]
           /\ byName \in [Node -> [AnyNick -> Node \cup {Nobody}]]
           /\ convs \in [Node -> [Talk -> Nick \cup {Absent}]]
           /\ texts \in Seq([from : Node, to : SUBSET Node]) /\ Len(texts) \in Nat
           /\ received \in [Node -> SUBSET (1..Len(texts))]
<1>1. texts \in Seq([from : Node, to : SUBSET Node])
  BY DEF TypeInv, TypeOK
<1>2. Len(texts) \in Nat
  BY <1>1
<1> QED  BY <1>1, <1>2 DEF TypeInv, TypeOK

LEMMA ElementType == ASSUME NEW S, NEW s \in Seq(S), NEW k \in DOMAIN s PROVE s[k] \in S
OBVIOUS

LEMMA TextTypes ==
    ASSUME TypeInv, NEW t \in DOMAIN texts, NEW n \in texts[t].to
    PROVE  texts[t].from \in Node /\ n \in Node
<1>1. texts \in Seq([from : Node, to : SUBSET Node])
  BY Types
<1>2. texts[t] \in [from : Node, to : SUBSET Node]
  BY <1>1, ElementType
<1> QED  BY <1>2

LEMMA InitArrive == Init => ArriveInv
BY DEF Init, ArriveInv, EveryoneOpen, Arrive, Talk

\* What is on its way stays so while messages are added ...
LEMMA SentArrive ==
    ASSUME TypeInv, Arrive, NEW n \in Node, NEW to, NEW msg \in Msg, Sent(n, to, msg),
           UNCHANGED <<texts, received>>
    PROVE  Arrive'
<1> SUFFICES ASSUME NEW t \in DOMAIN texts, NEW k \in texts[t].to, OnItsWay(t, k)
             PROVE  OnItsWay(t, k)'
  BY DEF Arrive
<1>1. texts[t].from \in Node /\ k \in Node
  BY TextTypes
<1>2. Content(channel[texts[t].from][k]) \subseteq Content(channel'[texts[t].from][k])
  BY <1>1, SentContent DEF TypeInv, TypeOK
<1> QED  BY <1>2 DEF OnItsWay

\* ... and others handled.
LEMMA ReceivedArrive ==
    ASSUME TypeInv, Arrive, NEW n \in Node, NEW m \in Peers(n), NEW type,
           Receive(n, m, type), type # "text", UNCHANGED <<texts, received>>
    PROVE  Arrive'
<1> SUFFICES ASSUME NEW t \in DOMAIN texts, NEW k \in texts[t].to, OnItsWay(t, k)
             PROVE  OnItsWay(t, k)'
  BY DEF Arrive
<1>1. texts[t].from \in Node /\ k \in Node
  BY TextTypes
<1>2. Content(channel[texts[t].from][k])
        \subseteq Content(channel'[texts[t].from][k]) \cup {Message(n, m)}
  BY <1>1, ReceivedContent DEF TypeInv, TypeOK
<1>3. Message(n, m).type # "text"
  BY DEF Receive
<1> QED  BY <1>2, <1>3 DEF OnItsWay

LEMMA HandleTextArrive ==
    ASSUME TypeInv, Arrive, NEW n \in Node, NEW m \in Peers(n), HandleText(n, m)
    PROVE  Arrive'
<1> DEFINE msg == Message(n, m)
<1>1. /\ Receive(n, m, "text") /\ texts' = texts
      /\ received' = [received EXCEPT ![n] = @ \cup {msg.text}]
      /\ received \in [Node -> SUBSET (1..Len(texts))]
  BY DEF HandleText, TypeInv, TypeOK
<1> SUFFICES ASSUME NEW t \in DOMAIN texts, NEW k \in texts[t].to
             PROVE  (t \in received[k] \/ OnItsWay(t, k))'
  BY <1>1 DEF Arrive
<1>2. texts[t].from \in Node /\ k \in Node
  BY TextTypes
<1>3. CASE t \in received[k]
  BY <1>1, <1>2, <1>3
<1>4. CASE OnItsWay(t, k)
  <2>1. PICK p \in Content(channel[texts[t].from][k]) : p.type = "text" /\ p.text = t
    BY <1>4 DEF OnItsWay
  <2>2. Content(channel[texts[t].from][k])
          \subseteq Content(channel'[texts[t].from][k]) \cup {msg}
    BY <1>1, <1>2, ReceivedContent DEF TypeInv, TypeOK
  <2>3. CASE texts[t].from = m /\ k = n /\ p = msg
    BY <2>1, <2>3, <1>1
  <2>4. CASE texts[t].from = m /\ k = n /\ p # msg
    BY <2>1, <2>2, <2>4, <1>1 DEF OnItsWay
  <2>5. CASE texts[t].from # m \/ k # n
    <3>1. \A x, y \in Node : channel'[x][y] =
             IF x = m /\ y = n THEN Tail(channel[m][n]) ELSE channel[x][y]
      BY <1>1, ReceivedChannel, ZenonT(30) DEF TypeInv, TypeOK
    <3> QED  BY <3>1, <2>5, <1>2, <2>1, <1>1 DEF OnItsWay
  <2> QED  BY <2>3, <2>4, <2>5
<1> QED  BY <1>3, <1>4, <1>1 DEF Arrive

\* A text reaches all it is for: the whole network, or the one partner.
LEMMA SendMessageArrive ==
    ASSUME NobodyIsEmpty, ChatInv, ArriveInv, NEW n \in Node, NEW c \in Talk,
           SendMessage(n, c)
    PROVE  Arrive'
<1> DEFINE e == [from |-> n, to |-> IF c = Everyone THEN network[n] ELSE {partner[n][c]}]
           msg == Text(c, nickname[n], Len(texts) + 1)
           to == Destination(n, c)
<1>0. TypeInv
  BY DEF ChatInv
<1>1. /\ channel \in [Node -> [Node -> Seq(Msg)]] /\ TypeInv
      /\ texts \in Seq([from : Node, to : SUBSET Node]) /\ Len(texts) \in Nat
      /\ byName \in [Node -> [AnyNick -> Node \cup {Nobody}]]
  BY <1>0, Types
<1>2. /\ Len(texts) + 1 \in 0..MaxTexts /\ nickname[n] \in AnyNick /\ nickname[n] # NoNick
      /\ UNCHANGED received /\ convs[n][c] # Absent
      /\ texts' = Append(texts, e) /\ Sent(n, to, msg)
  BY <1>1, ChatAssumption DEF SendMessage, TypeInv, TypeOK, NamedAtThePage
<1>3. /\ msg \in Msg /\ msg.type = "text" /\ msg.text = Len(texts) + 1
  BY <1>2 DEF Text, Msg
<1>4. e \in [from : Node, to : SUBSET Node] /\ e.from = n
  BY <1>1, <1>2 DEF TypeInv, TypeOK, TalksHavePartners, Talk
<1>5. network[n] = Peers(n)
  BY <1>2 DEF ChatInv, NameInv, Settled
<1>6. e.to \subseteq to \cap network[n]
  <2>1. CASE c = Everyone
    <3>1. byName[n][Empty] = Nobody
      BY ChatAssumption DEF ChatInv, BookInv, Owned, Own, NobodyIsEmpty, AnyNick, Peers
    <3>2. to = Node /\ network[n] \subseteq Node
      BY <2>1, <3>1, <1>5 DEF Destination, ArriveInv, EveryoneOpen, Peers
    <3> QED  BY <2>1, <3>2
  <2>2. CASE c # Everyone
    <3>1. c \in ConvId
      BY <2>2 DEF Talk
    <3>2. partner[n][c] = byName[n][convs[n][c]] /\ partner[n][c] \in Node
      BY <3>1, <1>1, <1>2 DEF ChatInv, TalkInv, TalksKnown, TypeInv, TalksHavePartners
    <3>3. partner[n][c] \in Peers(n)
      BY <3>1, <3>2, ChatAssumption DEF ChatInv, TalkInv, Pairs, Paired
    <3> QED  BY <2>2, <3>2, <3>3, <1>5, ChatAssumption DEF Destination
  <2> QED  BY <2>1, <2>2
<1> HIDE DEF e, msg, to
<1>7. /\ DOMAIN texts' = 1..Len(texts) + 1 /\ DOMAIN texts = 1..Len(texts)
      /\ \A t \in 1..Len(texts) : texts'[t] = texts[t]
      /\ texts'[Len(texts) + 1] = e
  BY <1>1, <1>2, <1>4
<1> SUFFICES ASSUME NEW t \in DOMAIN texts', NEW k \in texts'[t].to
             PROVE  (t \in received[k] \/ OnItsWay(t, k))'
  BY DEF Arrive
<1>8. CASE t = Len(texts) + 1
  <2>1. k \in Node /\ Reached(n, to, n, k) /\ texts'[t].from = n
    BY <1>8, <1>4, <1>6, <1>7 DEF Reached
  <2>2. msg \in Content(channel'[n][k])
    BY <2>1, <1>1, <1>2, <1>3, SentContent
  <2> QED  BY <2>1, <2>2, <1>3, <1>8 DEF OnItsWay
<1>9. CASE t # Len(texts) + 1
  <2>1. t \in DOMAIN texts /\ texts'[t] = texts[t] /\ k \in texts[t].to
    BY <1>9, <1>1, <1>7, SMTT(30)
  <2>2. texts[t].from \in Node /\ k \in Node
    BY <2>1, <1>1, TextTypes
  <2>3. Content(channel[texts[t].from][k]) \subseteq Content(channel'[texts[t].from][k])
    BY <2>2, <1>1, <1>2, <1>3, SentContent
  <2>4. t \in received[k] \/ OnItsWay(t, k)
    BY <2>1 DEF ArriveInv, Arrive
  <2> QED  BY <2>1, <2>3, <2>4, <1>2 DEF OnItsWay
<1> QED  BY <1>8, <1>9

\* The conversation with everyone is never left: only that of a user is.
LEMMA NextEveryone ==
    ASSUME NobodyIsEmpty, ChatInv, EveryoneOpen, [Next]_vars
    PROVE  EveryoneOpen'
<1>0. Everyone \in Talk /\ Everyone \notin ConvId /\ Empty # Absent
  BY ChatAssumption DEF Talk, Everyone
<1>1. /\ convs \in [Node -> [Talk -> Nick \cup {Absent}]] /\ Everyone \in Talk
      /\ Everyone \notin ConvId /\ Empty # Absent
  BY <1>0, Types DEF ChatInv
<1>2. ASSUME NEW n \in Node, NEW c \in Talk, NEW x, convs' = [convs EXCEPT ![n][c] = x],
             c # Everyone
      PROVE  EveryoneOpen'
  BY <1>1, <1>2 DEF EveryoneOpen
<1>3. ASSUME UNCHANGED convs PROVE EveryoneOpen'
  BY <1>3 DEF EveryoneOpen, Everyone
<1>4. ASSUME NEW n \in Node, NEW m \in Peers(n), HandleLeave(n, m) PROVE EveryoneOpen'
  <2>1. CASE UNCHANGED convs  BY <2>1, <1>3
  <2>2. ASSUME NEW c \in Talk, convs[n][c] = Message(n, m).nick, Remove(n, c)
        PROVE  EveryoneOpen'
    <3>1. m \in Node /\ Message(n, m) \in Content(channel[m][n])
      BY <1>4, ReceivedChannel DEF HandleLeave, ChatInv, TypeInv, TypeOK
    <3>2. Message(n, m).nick # Empty
      BY <3>1, ChatAssumption DEF ChatInv, BookInv, Owned, Own, NobodyIsEmpty
    <3> QED  BY <3>2, <2>2, <1>2 DEF EveryoneOpen, Remove
  <2> QED  BY <2>1, <2>2, <1>4 DEF HandleLeave
<1>5. ASSUME NEW n \in Node, NEW m \in Peers(n), HandleText(n, m) PROVE EveryoneOpen'
  <2>1. Message(n, m).conv \in Talk
    <3>1. /\ m \in Node /\ Message(n, m) \in Content(channel[m][n])
          /\ Message(n, m).type = "text"
      BY <1>5, ReceivedChannel DEF HandleText, ChatInv, TypeInv, TypeOK
    <3> QED  BY <3>1 DEF ChatInv, TypeInv, MessagesSound, Sound
  <2>2. CASE UNCHANGED convs  BY <2>2, <1>3
  <2>3. CASE convs[n][Message(n, m).conv] = Absent
             /\ Enter(n, Message(n, m).conv, Message(n, m).nick, m)
    BY <2>1, <2>3, <1>1, <1>2 DEF EveryoneOpen, Enter
  <2> QED  BY <2>2, <2>3, <1>5 DEF HandleText
<1>6. ASSUME NEW n \in Node, NEW m \in Peers(n), HandleInvite(n, m) PROVE EveryoneOpen'
  <2>1. Message(n, m).conv \in ConvId
    <3>1. /\ m \in Node /\ Message(n, m) \in Content(channel[m][n])
          /\ Message(n, m).type = "invite"
      BY <1>6, ReceivedChannel DEF HandleInvite, ChatInv, TypeInv, TypeOK
    <3> QED  BY <3>1 DEF ChatInv, TypeInv, MessagesSound, Sound
  <2> QED  BY <2>1, <1>1, <1>2, <1>6 DEF HandleInvite, Accept, Enter, Talk
<1>7. ASSUME NEW n \in Node, NEW x \in Nick, NEW c \in ConvId, StartConversation(n, x, c)
      PROVE  EveryoneOpen'
  BY <1>1, <1>2, <1>7 DEF StartConversation, Enter, Talk
<1>8. ASSUME NEW n \in Node, NEW c \in ConvId, LeaveTalk(n, c) PROVE EveryoneOpen'
  BY <1>1, <1>2, <1>8 DEF LeaveTalk, Remove, Talk
<1> QED
  BY <1>3, <1>4, <1>5, <1>6, <1>7, <1>8
     DEF Next, vars, talks, Boot, SetHandlers, ClosePage, OpenPage, Reply, SetNickname,
         SendMessage, Join, HandleNickChange, HandleRequestNick, HandleLeaveConversation

LEMMA NextArrive ==
    ASSUME NobodyIsEmpty, ChatInv, ArriveInv, [Next]_vars
    PROVE  Arrive'
<1>1. TypeInv /\ Arrive
  BY DEF ChatInv, ArriveInv
<1>2. CASE channel' = channel /\ UNCHANGED <<texts, received>>
  BY <1>1, <1>2 DEF Arrive, OnItsWay
<1>3. ASSUME NEW n \in Node, SetHandlers(n) PROVE Arrive'
  <2>1. RequestNick \in Msg
    BY ChatAssumption DEF RequestNick, Msg, AnyNick, Talk
  <2> QED  BY <1>1, <1>3, <2>1, SentArrive DEF SetHandlers, Broadcast, talks
<1>4. ASSUME NEW n \in Node, ClosePage(n) PROVE Arrive'
  <2>1. Leave(nickname[n]) \in Msg
    BY <1>1, ChatAssumption DEF Leave, Msg, AnyNick, Talk, TypeInv, TypeOK
  <2> QED  BY <1>1, <1>4, <2>1, SentArrive DEF ClosePage, Broadcast, talks
<1>5. ASSUME NEW n \in Node, Reply(n) PROVE Arrive'
  <2>1. PICK to : Sent(n, to, NickChange(nickname[n])) /\ UNCHANGED <<texts, received>>
    BY <1>5 DEF Reply, talks, ChatInv, NameInv, RepliesFresh
  <2>2. NickChange(nickname[n]) \in Msg
    BY <1>1, ChatAssumption DEF NickChange, Msg, AnyNick, Talk, TypeInv, TypeOK
  <2> QED  BY <1>1, <2>1, <2>2, SentArrive
<1>6. ASSUME NEW n \in Node, NEW x \in Nick, SetNickname(n, x) PROVE Arrive'
  <2>1. NickChange(x) \in Msg
    BY ChatAssumption DEF NickChange, Msg, AnyNick, Talk
  <2> QED  BY <1>1, <1>6, <2>1, SentArrive DEF SetNickname, Broadcast, Announced, talks
<1>7. ASSUME NEW n \in Node, NEW x \in Nick, NEW c \in ConvId, StartConversation(n, x, c)
      PROVE  Arrive'
  <2>1. Invite(c, nickname[n]) \in Msg
    BY <1>1, ChatAssumption DEF Invite, Msg, AnyNick, Talk, TypeInv, TypeOK
  <2>2. PICK to : Sent(n, to, Invite(c, nickname[n])) /\ UNCHANGED <<texts, received>>
    BY <1>7 DEF StartConversation
  <2> QED  BY <1>1, <2>1, <2>2, SentArrive
<1>8. ASSUME NEW n \in Node, NEW c \in ConvId, LeaveTalk(n, c) PROVE Arrive'
  <2>1. LeaveConversation(c) \in Msg
    BY ChatAssumption DEF LeaveConversation, Msg, AnyNick, Talk
  <2>2. PICK to : Sent(n, to, LeaveConversation(c)) /\ UNCHANGED <<texts, received>>
    BY <1>8 DEF LeaveTalk
  <2> QED  BY <1>1, <2>1, <2>2, SentArrive
<1>9. ASSUME NEW n \in Node, NEW m \in Peers(n),
             \/ HandleNickChange(n, m) \/ HandleLeave(n, m) \/ HandleInvite(n, m)
             \/ HandleRequestNick(n, m) \/ HandleLeaveConversation(n, m)
      PROVE  Arrive'
  <2>1. /\ \E type \in {"nickChange", "leave", "invite", "requestNick", "leaveConv"} :
              Receive(n, m, type)
        /\ UNCHANGED <<texts, received>>
    BY <1>9
       DEF HandleNickChange, HandleLeave, HandleInvite, HandleRequestNick,
           HandleLeaveConversation, talks
  <2> QED  BY <1>1, <2>1, ReceivedArrive
<1>10. \A n \in Node : Boot(n) \/ OpenPage(n) => channel' = channel /\ UNCHANGED <<texts, received>>
  BY DEF Boot, OpenPage, talks
<1>11. \A n \in Node : \A m \in Peers(n) :
          Join(n, m) => channel' = channel /\ UNCHANGED <<texts, received>>
  BY DEF Join, talks
<1>12. UNCHANGED vars => channel' = channel /\ UNCHANGED <<texts, received>>
  BY DEF vars, talks
<1> QED
  BY <1>1, <1>2, <1>3, <1>4, <1>5, <1>6, <1>7, <1>8, <1>9, <1>10, <1>11, <1>12,
     SendMessageArrive, HandleTextArrive
     DEF Next

\* Every message is taken by all it was for, the conversation with everyone
\* included, by the time that nothing is under way.
THEOREM MessagesArrive ==
    ASSUME Together, NamesApart, NobodyIsEmpty PROVE Spec => []TextsArrive
<1>1. Init => ArriveInv
  BY InitArrive
<1>2. ChatInv /\ ArriveInv /\ [Next]_vars => ArriveInv'
  BY NextEveryone, NextArrive DEF ArriveInv
<1>3. ChatInv /\ ArriveInv => TextsArrive
  <2> SUFFICES ASSUME ChatInv, ArriveInv, Quiet,
                      NEW t \in DOMAIN texts, NEW n \in texts[t].to
               PROVE  t \in received[n]
    BY DEF TextsArrive
  <2>1. texts[t].from \in Node /\ n \in Node
    BY TextTypes DEF ChatInv
  <2>2. ~OnItsWay(t, n)
    BY <2>1 DEF Quiet, OnItsWay, Content
  <2> QED  BY <2>2 DEF ArriveInv, Arrive
<1> QED  BY <1>1, <1>2, <1>3, ChatInvariant, PTL DEF Spec
=============================================================================
