-------------------------- MODULE TransportRestart --------------------------
(***************************************************************************)
(* Transport on nodes that stop and start again.  Nothing is kept on disk: *)
(* a process that starts again has the empty maps of a new SocketImpl, it  *)
(* numbers its packets from 0 and announces itself when it connects.  What *)
(* it sent before may still arrive, and so may what the others sent it;    *)
(* they keep all they know of it, and find out from the number of its      *)
(* first SYN or SYN-ACK, in DataHandler, that it is not the one they knew. *)
(***************************************************************************)
EXTENDS Transport

VARIABLE restarts       \* restarts[n]: how often n has started again

restartVars == <<vars, restarts>>

RestartInit == Init /\ restarts = [n \in Node |-> 0]

\* A new SocketImpl, and its connect.  Each restart is one of the announces
\* and, together with the packets lost, one of the faults MaxLoss bounds.
Restart(n) ==
    /\ losses < MaxLoss
    /\ losses' = losses + 1
    /\ announces < MaxAnnounce
    /\ announces' = announces + 1
    /\ restarts' = [restarts EXCEPT ![n] = @ + 1]
    /\ lastUsed' = [lastUsed EXCEPT ![n] = [m \in Node |-> 0]]
    /\ sentButNoAck' = [sentButNoAck EXCEPT ![n] = [m \in Node |-> {}]]
    /\ sentSynAck' = [sentSynAck EXCEPT ![n] = [m \in Node |-> {}]]
    /\ network' = [network EXCEPT ![n] = {}]
    /\ last' = [last EXCEPT ![n] = [m \in Node |-> NoSeq]]
    /\ buf' = [buf EXCEPT ![n] = [m \in Node |-> <<>>]]
    /\ timers' = [timers EXCEPT ![n] = {}]
    /\ session' = [session EXCEPT ![n] = [m \in Node |-> @[m] + 1]]
    /\ channel' = [channel EXCEPT ![n] =
          [m \in Node |-> IF m = n THEN @[m] ELSE Append(@[m], Announcement)]]
    /\ UNCHANGED <<submitted, delivered>>

RestartNext ==
    \/ Next /\ UNCHANGED restarts
    \/ \E n \in Node : Restart(n)

----------------------------------------------------------------------------
\* Receiver threads, their loops and timers run, as in Transport.  Nobody
\* need restart.

RestartFairness ==
    \A n \in Node :
        /\ \A m \in Peers(n) :
              /\ WF_restartVars(/\ \E k \in DOMAIN channel[m][n] : Receive(n, m, k)
                                /\ UNCHANGED restarts)
              /\ WF_restartVars(Loop(n, m) /\ UNCHANGED restarts)
        /\ WF_restartVars((\E t \in timers[n] : Timer(n, t)) /\ UNCHANGED restarts)

FairRestartSpec == RestartInit /\ [][RestartNext]_restartVars /\ RestartFairness

\* A node that starts again is taken back: in the end it has every other
\* node in its network and they have it in theirs, although they may never
\* have noticed that it was gone, answer what it sent before, and still wait
\* for ACKs of its former self.
RestartRecovers ==
    \A n \in Node : \A m \in Peers(n) :
        restarts[n] > 0 ~> m \in network[n] /\ n \in network[m]
=============================================================================
