----------------------------- MODULE MCChatPage -----------------------------
\* A page of one node and one peer, for TLC.
EXTENDS ChatPage

Methods == {"subscribe", "updateNickname", "sendMessage", "getConversations",
            "getUsers", "addConversation", "leaveConversation"}

Streams == {"newConversation", "leaveConversation", "newUser", "removeUser", "newMessage"}

\* The peer may be heard of before it has a name.
NameOrNull == [a \in Peer |-> {"ann", Null}]
=============================================================================
