--------------------------- MODULE DeliveryProofs ---------------------------
(***************************************************************************)
(* The order in which ChatServer tells a client things, for every instance: *)
(* a session's packets follow its progress from the handshake to the room,   *)
(* its list of peers is current whenever the lock is free, and no message    *)
(* falls between its history and its live messages.                          *)
(***************************************************************************)
EXTENDS ChatServerProofs

USE UsersAssumption, ConnsAssumption, StampsAssumption, BoundsAssumption,
    EnvAssumption

-----------------------------------------------------------------------------
(* What makes the properties of delivery inductive.                         *)

(* How far a session has come is how far its packets may have come. *)
Level(c) ==
    IF ~Authenticated(c) THEN 0
    ELSE IF pc[c] = "load" THEN 1 ELSE IF pc[c] = "hist" THEN 2 ELSE 3

StageInv ==
    \A c \in Conns : \A i \in DOMAIN log[c] :
      Stage(log[c][i]) # 4 => Stage(log[c][i]) <= Level(c)

(* The channel is empty until the handshake, and never again. *)
OpenedInv ==
    \A c \in Conns :
      /\ pc[c] \in {"off", "handshake"} => log[c] = <<>>
      /\ pc[c] \notin {"off", "handshake", "done"} => log[c] # <<>>

(* What a newcomer has still to be sent is later than what it has been sent. *)
HistInv ==
    \A c \in Conns : pc[c] = "hist" =>
      \A i \in DOMAIN log[c] : log[c][i].kind = "history" =>
        \A r \in hist[c] : Before(log[c][i].row, r)

(* Whoever has lost nothing has the list of peers it was welcomed with. *)
WelcomeInv ==
    Running => \A c \in Conns :
      Authenticated(c) /\ pc[c] \notin {"load", "hist"} /\ ~lossy[c] =>
        \E i \in DOMAIN log[c] : log[c][i].kind = "peers"

JoinInv == StageInv /\ OpenedInv /\ HistInv /\ WelcomeInv /\ JoinOrder

(* The lists are behind the registry only until they are broadcast, under    *)
(* the lock of the change. *)
PeersInv ==
    Running /\ ~LockedAt({"load", "hist", "join_peers", "leave_peers"}) =>
      \A c \in Conns :
        Entries(c) # {} /\ ~lossy[c] => LastPeerListIs(c, Snapshot)

(* A newcomer's row may also be on its way from the table. *)
DeliveryInv ==
    Running =>
      \A u \in Online :
        LET c == clients[u]
        IN  /\ pc[c] # "load"
            /\ ~lossy[c]
            /\ Cardinality(Inbox(db, u)) <= HistLimit
            => \A r \in Inbox(db, u) : r.from # u =>
                 \/ GotRow(c, r) \/ BroadcastPending(r)
                 \/ pc[c] = "hist" /\ r \in hist[c]

-----------------------------------------------------------------------------
(* What is sent to whom: each new packet is of the stage the session it goes *)
(* to has reached, or is an error.                                            *)

Fits(d, i) ==
    \/ i \in DOMAIN log[d] /\ log'[d][i] = log[d][i]
    \/ /\ i \notin DOMAIN log[d] /\ i > Len(log[d])
       /\ \/ Stage(log'[d][i]) = 4
          \/ Level(d) <= Stage(log'[d][i]) /\ Stage(log'[d][i]) <= Level(d)'
       /\ pc[d] \notin {"off", "handshake"} \/ Handshake(d)

(* The positions of a channel are numbers, after every step. *)
LEMMA DomainNat ==
  ASSUME TypeInv, [Next]_vars, NEW d \in Conns
  PROVE  /\ Len(log[d]) \in Nat /\ DOMAIN log[d] = 1..Len(log[d])
         /\ Len(log'[d]) \in Nat /\ DOMAIN log'[d] = 1..Len(log'[d])
<1>1. TypeOK /\ TypeOK'
  BY TypeStep DEF TypeInv
<1>2. log[d] \in Seq(Packet) /\ log'[d] \in Seq(Packet)
  BY <1>1 DEF TypeOK
<1> QED BY <1>2

(* A packet sent at the stage its connection is in fits into its log. *)
LEMMA SendFits ==
  ASSUME TypeInv, NEW p, NEW n \in [Conns -> Nat], SendEncrypted(n, p),
         \A d \in Conns : n[d] > 0 =>
           /\ pc[d] \notin {"off", "handshake"}
           /\ \/ Stage(p) = 4
              \/ Level(d) <= Stage(p) /\ Stage(p) <= Level(d)'
  PROVE  \A d \in Conns : \A i \in DOMAIN log'[d] : Fits(d, i)
<1> SUFFICES ASSUME NEW d \in Conns, NEW i \in DOMAIN log'[d]
             PROVE  Fits(d, i)
  OBVIOUS
<1>1. CASE i \in DOMAIN log[d]
  BY <1>1, SendAppends DEF Fits, TypeInv
<1>2. CASE i \notin DOMAIN log[d]
  <2>1. i > Len(log[d]) /\ i <= Len(log[d]) + n[d] /\ log'[d][i] = p
    BY <1>2, SendAppends DEF TypeInv
  <2>2. n[d] > 0
    <3>1. n[d] \in Nat /\ Len(log[d]) \in Nat /\ i \in Nat
      <4>1. log[d] \in Seq(Packet) /\ (log' = log \/ log'[d] \in Seq(Packet \cup {p}))
        <5>1. log[d] \in Seq(Packet)
          BY DEF TypeInv, TypeOK
        <5>2. CASE log' # log
          <6>1. log'[d] = log[d] \o [j \in 1..SmallerOf(n[d], Room(d)) |-> p]
            BY <5>2 DEF SendEncrypted
          <6>2. SmallerOf(n[d], Room(d)) \in Int
            BY RoomTyped DEF SmallerOf, TypeInv
          <6>3. [j \in 1..SmallerOf(n[d], Room(d)) |-> p] \in Seq({p})
            BY <6>2, CopiesTyped
          <6> QED BY <5>1, <6>1, <6>3
        <5> QED BY <5>1, <5>2
      <4> QED BY <4>1
    <3> QED BY <2>1, <3>1
  <2> QED BY <1>2, <2>1, <2>2 DEF Fits
<1> QED BY <1>1, <1>2

-----------------------------------------------------------------------------
(* The steps that send, and what they send to whom.                         *)

SendsOne(c) == ReplyError(c) \/ FinishAuth(c) \/ SendHistoryRow(c) \/ SendPeers(c)
SendsAll(c) == BroadcastPeers(c) \/ AnnounceJoin(c) \/ AnnounceLeave(c)

(* The steps that send: a handshake, one packet to one, one to all, a broadcast. *)
LEMMA SendKinds ==
  ASSUME TypeInv, [Next]_vars
  PROVE  \/ log' = log /\ \A d \in Conns : lossy[d] => lossy'[d]
         \/ \E c \in Conns :
              /\ Running
              /\ \/ Handshake(c) \/ SendsOne(c) \/ SendsAll(c)
                 \/ \E u \in Users : BroadcastTo(c, u)
         \/ CrashRestart
<1>1. ASSUME NEW c \in Conns, LoadHistoryFails(c)
      PROVE  log' = log /\ \A d \in Conns : lossy[d] => lossy'[d]
  BY <1>1 DEF LoadHistoryFails, TypeInv, TypeOK
<1>2. ASSUME NEW c \in Conns, JoinSteps(c)
      PROVE  \/ log' = log /\ \A d \in Conns : lossy[d] => lossy'[d]
             \/ SendsOne(c) \/ SendsAll(c)
  BY <1>1, <1>2 DEF JoinSteps, CreateUser, SignupRefused, AuthenticateUser, AuthRefused,
     DuplicateLogin, LoadHistory, SendsOne, SendsAll
<1>3. ASSUME NEW c \in Conns, ConnSteps(c), ~JoinSteps(c)
      PROVE  \/ UNCHANGED <<log, lossy>>
             \/ Handshake(c) \/ SendsOne(c) \/ SendsAll(c)
             \/ \E u \in Users : BroadcastTo(c, u)
  BY <1>3 DEF ConnSteps, ReadSteps, MessageSteps, LeaveSteps, WriterSteps,
     Accept, HandshakeFails, LoopTop, ReadPacket, ReadError, SaveMessageHistory,
     SaveFails, BeginBroadcast, EndBroadcast, Unregister, UnregisterNothing,
     WriterSend, WriterFails, WriterEnds, HangUp, SendsOne, SendsAll
<1>4. ASSUME ServerSteps \/ UNCHANGED vars
      PROVE  UNCHANGED <<log, lossy>>
  BY <1>4 DEF ServerSteps, Signal, CloseClients, CloseListener, Exit, vars
<1> QED BY <1>2, <1>3, <1>4 DEF Next, Stopped

(* A session never goes back: a name only where there was none, and the      *)
(* history only after the login.                                             *)
LEMMA LevelTyped ==
  ASSUME NEW c
  PROVE  Level(c) \in 0..3 /\ Level(c)' \in 0..3
BY DEF Level

(* A session does not go back to an earlier stage. *)
LEMMA LevelUp ==
  ASSUME "relogin" \notin Env, TypeInv, SessionInv, [Next]_vars, ~CrashRestart,
         NEW d \in Conns
  PROVE  Level(d) <= Level(d)'
<1>1. ASSUME username'[d] = username[d], pc'[d] = "load" => pc[d] = "load",
             pc'[d] = "hist" => pc[d] \in {"load", "hist"}
      PROVE  Level(d) <= Level(d)'
  BY <1>1 DEF Level, Authenticated
<1>2. CASE SmallStep
  BY <1>1, <1>2 DEF SmallStep, SmallMove
<1>3. ASSUME NEW c \in Conns, Running, FinishAuth(c)
      PROVE  Level(d) <= Level(d)'
  <2>1. CASE d = c
    <3>1. ~Authenticated(c)
      BY <1>3, FinishAuthSets DEF SessionInv, ConnInv
    <3> QED BY <2>1, <3>1, LevelTyped DEF Level
  <2>2. CASE d # c
    BY <1>1, <1>3, <2>2, FinishAuthSets
  <2> QED BY <2>1, <2>2
<1>4. ASSUME NEW c \in Conns, NEW r \in Request, ReadPacket(c, r)
      PROVE  Level(d) <= Level(d)'
  <2>1. pc'[d] = pc[d] \/ pc'[d] \notin {"load", "hist"}
    BY <1>4, ReadPacketSets
  <2> QED BY <1>1, <1>4, <2>1, ReadPacketSets
<1>5. ASSUME NEW c \in Conns, SaveMessageHistory(c) \/ BeginBroadcast(c) \/ Unregister(c)
      PROVE  Level(d) <= Level(d)'
  <2>1. pc'[d] = pc[d] \/ pc'[d] \notin {"load", "hist"}
    BY <1>5, SaveSets, BeginBroadcastSets, UnregisterSets
  <2>2. username' = username
    BY <1>5, SaveSets, BeginBroadcastSets, UnregisterSets
  <2> QED BY <1>1, <2>1, <2>2
<1>6. ASSUME NEW c \in Conns, NEW u \in Users, BroadcastTo(c, u)
      PROVE  Level(d) <= Level(d)'
  BY <1>1, <1>6, BroadcastToSets
<1>7. CASE CloseClients
  BY <1>1, <1>7, CloseClientsSets
<1> QED BY <1>2, <1>3, <1>4, <1>5, <1>6, <1>7, StepKinds

(* Everybody a broadcast under the lock reaches has come to the room.       *)
LEMMA EntryLevel ==
  ASSUME TypeInv, SessionInv, LockInv, Running,
         NEW c \in Conns, pc[c] \in (Exclusive \ {"load", "hist"}) \cup {"cast"},
         NEW u \in Users, clients[u] # NoOne
  PROVE  /\ clients[u] \in Conns /\ Level(clients[u]) = 3
         /\ pc[clients[u]] \notin {"off", "handshake", "load", "hist"}
         /\ Authenticated(clients[u])
<1> DEFINE d == clients[u]
<1>1. d \in Conns /\ Bound(d)
  BY EntryOpen DEF SessionInv, EntryInv
<1>2. pc[d] \notin {"load", "hist"}
  <2>1. CASE d = c
    BY <2>1 DEF Exclusive
  <2>2. CASE d # c
    <3>1. pc[d] \in {"load", "hist"} => pc[d] \in Exclusive
      BY DEF Exclusive, Joining
    <3> QED BY <1>1, <2>2, <3>1 DEF LockInv
  <2> QED BY <2>1, <2>2
<1> QED BY <1>1, <1>2 DEF Bound, Level

(* A broadcast reaches only those who are entered in the registry. *)
LEMMA EachClientEntry ==
  ASSUME NEW d \in Conns, EachClient[d] > 0
  PROVE  \E u \in Users : clients[u] = d
<1>1. ASSUME Entries(d) = {} PROVE FALSE
  <2>1. Cardinality(Entries(d)) = 0
    BY <1>1, FS_EmptySet
  <2> QED BY <2>1 DEF EachClient
<1> QED BY <1>1 DEF Entries

(* What a step offers to whom. *)
Offers(n, p) ==
    /\ n \in [Conns -> Nat]
    /\ SendEncrypted(n, p)
    /\ \A d \in Conns : n[d] > 0 =>
         /\ pc[d] \notin {"off", "handshake"}
         /\ \/ Stage(p) = 4
            \/ Level(d) <= Stage(p) /\ Stage(p) <= Level(d)'
    /\ p.kind # "handshake_ok"

(* The error reply is one packet for the handler's own connection. *)
LEMMA ReplyOffers ==
  ASSUME NEW c \in Conns, ReplyError(c)
  PROVE  Offers(Only(c), [kind |-> "error"])
<1>1. Stage([kind |-> "error"]) = 4
  BY DEF Stage
<1>2. pc[c] = "error" /\ SendEncrypted(Only(c), [kind |-> "error"])
  BY DEF ReplyError
<1> QED BY <1>1, <1>2, OnlyTyped DEF Offers, Only

(* A log-in answers its own connection, with its own name. *)
LEMMA FinishAuthOffers ==
  ASSUME TypeInv, SessionInv, Running, NEW c \in Conns, FinishAuth(c)
  PROVE  Offers(Only(c), [kind |-> "auth_ok", user |-> req[c].user])
<1> DEFINE p == [kind |-> "auth_ok", user |-> req[c].user]
<1>1. Stage(p) = 1 /\ p.kind # "handshake_ok"
  BY DEF Stage
<1>2. pc[c] = "join" /\ SendEncrypted(Only(c), p)
  BY DEF FinishAuth
<1>3. Level(c) = 0 /\ Level(c)' = 1
  <2>1. ~Authenticated(c)
    BY <1>2 DEF SessionInv, ConnInv
  <2>2. username'[c] # NoOne /\ pc'[c] = "load"
    BY FinishAuthSets
  <2> QED BY <2>1, <2>2 DEF Level, Authenticated
<1> HIDE DEF p
<1>4. Offers(Only(c), p)
  BY <1>1, <1>2, <1>3, OnlyTyped DEF Offers, Only
<1> QED BY <1>4 DEF p

(* A history row is sent to the connection that logs in. *)
LEMMA HistoryOffers ==
  ASSUME TypeInv, NEW c \in Conns, NEW row, SendHistoryRow(c),
         SendEncrypted(Only(c), [kind |-> "history", row |-> row])
  PROVE  Offers(Only(c), [kind |-> "history", row |-> row])
<1> DEFINE p == [kind |-> "history", row |-> row]
<1>1. Stage(p) = 2 /\ p.kind # "handshake_ok"
  BY DEF Stage
<1>2. pc[c] = "hist" /\ pc' = pc /\ username' = username
  BY DEF SendHistoryRow, session
<1>3. Level(c) = 2 /\ Level(c)' = 2
  BY <1>2 DEF TypeInv, PcInv, Level, Authenticated
<1> HIDE DEF p
<1>4. Offers(Only(c), p)
  BY <1>1, <1>2, <1>3, OnlyTyped DEF Offers, Only, p
<1> QED BY <1>4 DEF p

(* A newcomer is sent the list of those who are online. *)
LEMMA SendPeersOffers ==
  ASSUME TypeInv, NEW c \in Conns, SendPeers(c)
  PROVE  Offers(Only(c), [kind |-> "peers", peers |-> Snapshot])
<1> DEFINE p == [kind |-> "peers", peers |-> Snapshot]
<1>1. Stage(p) = 3 /\ p.kind # "handshake_ok"
  BY DEF Stage
<1>2. /\ pc[c] = "hist" /\ pc'[c] = "join_peers" /\ username' = username
      /\ SendEncrypted(Only(c), p)
  BY DEF SendPeers, Goto, session, TypeInv, TypeOK
<1>3. Level(c) = 2 /\ Level(c)' = 3
  BY <1>2 DEF TypeInv, PcInv, Level, Authenticated
<1> HIDE DEF p
<1>4. Offers(Only(c), p)
  BY <1>1, <1>2, <1>3, OnlyTyped DEF Offers, Only
<1> QED BY <1>4 DEF p

(* A packet of the room, to sessions of the room. *)
LEMMA RoomOffers ==
  ASSUME "relogin" \notin Env, TypeInv, SessionInv, LockInv, Running,
         [Next]_vars, ~CrashRestart,
         NEW c \in Conns, pc[c] \in (Exclusive \ {"load", "hist"}) \cup {"cast"},
         NEW n \in [Conns -> Nat], NEW p, SendEncrypted(n, p),
         Stage(p) = 3, p.kind # "handshake_ok",
         \A d \in Conns : n[d] > 0 => \E u \in Users : clients[u] = d
  PROVE  Offers(n, p)
<1>1. ASSUME NEW d \in Conns, n[d] > 0
      PROVE  /\ Level(d) = 3 /\ Level(d)' = 3
             /\ pc[d] \notin {"off", "handshake"}
  <2>1. PICK u \in Users : clients[u] = d
    BY <1>1
  <2>2. Level(d) = 3 /\ pc[d] \notin {"off", "handshake"}
    BY <2>1, EntryLevel
  <2> QED BY <2>2, LevelUp, LevelTyped
<1> QED BY <1>1 DEF Offers

(* A broadcast is one packet for everybody, a peer list only where one is due. *)
LEMMA BroadcastOffers ==
  ASSUME "relogin" \notin Env, TypeInv, SessionInv, LockInv, Running,
         [Next]_vars, ~CrashRestart, NEW c \in Conns, SendsAll(c)
  PROVE  \E p : /\ Offers(EachClient, p)
                /\ p.kind \in {"peers", "joined", "left"}
                /\ p.kind = "peers" => pc[c] \in {"join_peers", "leave_peers"}
<1>1. pc[c] \in {"join_peers", "join_note", "leave_peers", "leave_note"}
  BY DEF SendsAll, BroadcastPeers, AnnounceJoin, AnnounceLeave
<1>2. pc[c] \in (Exclusive \ {"load", "hist"}) \cup {"cast"}
  BY <1>1 DEF Exclusive, Joining
<1>3. PICK p : /\ SendEncrypted(EachClient, p)
               /\ p.kind \in {"peers", "joined", "left"}
               /\ p.kind = "peers" => pc[c] \in {"join_peers", "leave_peers"}
  <2>1. CASE BroadcastPeers(c)
    BY <2>1 DEF BroadcastPeers
  <2>2. CASE AnnounceJoin(c)
    BY <2>2 DEF AnnounceJoin
  <2>3. CASE AnnounceLeave(c)
    BY <2>3 DEF AnnounceLeave
  <2> QED BY <2>1, <2>2, <2>3 DEF SendsAll
<1>4. Stage(p) = 3 /\ p.kind # "handshake_ok"
  BY <1>3 DEF Stage
<1>5. \A d \in Conns : EachClient[d] > 0 => \E u \in Users : clients[u] = d
  BY EachClientEntry
<1>6. Offers(EachClient, p)
  BY <1>2, <1>3, <1>4, <1>5, EachClientTyped, RoomOffers
<1> QED BY <1>3, <1>6

(* A live message is one packet for one reader. *)
LEMMA MessageOffers ==
  ASSUME "relogin" \notin Env, TypeInv, SessionInv, LockInv, Running,
         [Next]_vars, ~CrashRestart, NEW c \in Conns, NEW u \in Users,
         BroadcastTo(c, u)
  PROVE  Offers(Only(clients[u]), Broadcasted(c, u))
<1>1. pc[c] \in (Exclusive \ {"load", "hist"}) \cup {"cast"}
  BY BroadcastToSets
<1>2. Broadcasted(c, u).kind = "message"
  BY DEF Broadcasted
<1>3. Stage(Broadcasted(c, u)) = 3
  BY <1>2 DEF Stage
<1>4. \A d \in Conns : Only(clients[u])[d] > 0 => clients[u] = d
  BY DEF Only
<1>5. /\ Only(clients[u]) \in [Conns -> Nat]
      /\ SendEncrypted(Only(clients[u]), Broadcasted(c, u))
  BY BroadcastToSets
<1> QED BY <1>1, <1>2, <1>3, <1>4, <1>5, RoomOffers

(* Every step that sends offers one packet; a row of history only to the     *)
(* handler's own client, a message only in its broadcast.                    *)
LEMMA SendersOffer ==
  ASSUME "relogin" \notin Env, TypeInv, SessionInv, LockInv, Running,
         [Next]_vars, ~CrashRestart, NEW c \in Conns,
         \/ SendsOne(c) \/ SendsAll(c) \/ \E u \in Users : BroadcastTo(c, u)
  PROVE  \E n, p : /\ Offers(n, p)
                   /\ p.kind = "history" => n = Only(c) /\ SendHistoryRow(c)
                   /\ p.kind = "message" => \E u \in Users : BroadcastTo(c, u)
                   /\ p.kind = "peers" =>
                        pc[c] \in {"hist", "join_peers", "leave_peers"}
<1>1. CASE ReplyError(c)
  BY <1>1, ReplyOffers
<1>2. CASE FinishAuth(c)
  <2> DEFINE p == [kind |-> "auth_ok", user |-> req[c].user]
  <2>1. Offers(Only(c), p) /\ p.kind = "auth_ok"
    BY <1>2, FinishAuthOffers
  <2> HIDE DEF p
  <2> QED BY <2>1
<1>3. CASE SendHistoryRow(c)
  <2>1. PICK row : SendEncrypted(Only(c), [kind |-> "history", row |-> row])
    BY <1>3 DEF SendHistoryRow
  <2> DEFINE p == [kind |-> "history", row |-> row]
  <2>2. Offers(Only(c), p) /\ p.kind = "history"
    BY <1>3, <2>1, HistoryOffers
  <2> HIDE DEF p
  <2> QED BY <1>3, <2>2
<1>4. CASE SendPeers(c)
  <2> DEFINE p == [kind |-> "peers", peers |-> Snapshot]
  <2>1. Offers(Only(c), p) /\ p.kind = "peers" /\ pc[c] = "hist"
    BY <1>4, SendPeersOffers DEF SendPeers
  <2> HIDE DEF p
  <2> QED BY <2>1
<1>5. CASE SendsAll(c)
  BY <1>5, BroadcastOffers
<1>6. ASSUME NEW u \in Users, BroadcastTo(c, u)
      PROVE  \E n, p : Offers(n, p) /\ p.kind = "message"
  <2>1. Broadcasted(c, u).kind = "message"
    BY DEF Broadcasted
  <2> QED BY <1>6, <2>1, MessageOffers
<1> QED BY <1>1, <1>2, <1>3, <1>4, <1>5, <1>6 DEF SendsOne

(* So a step keeps what a channel has accepted and adds to its end.  It adds *)
(* one packet, several times at most, of the stage the session is in.        *)
PacketsGrow ==
    \A d \in Conns :
      /\ \A i \in DOMAIN log[d] : i \in DOMAIN log'[d] /\ log'[d][i] = log[d][i]
      /\ \A i \in DOMAIN log'[d] : Fits(d, i)
      /\ \A i, j \in DOMAIN log'[d] :
           i \notin DOMAIN log[d] /\ j \notin DOMAIN log[d] => log'[d][i] = log'[d][j]
      /\ \A i \in DOMAIN log'[d] :
           i \notin DOMAIN log[d] /\ log'[d][i].kind = "history" =>
             SendHistoryRow(d) /\ i = Len(log[d]) + 1
      /\ \A i \in DOMAIN log'[d] :
           i \notin DOMAIN log[d] /\ log'[d][i].kind = "peers" =>
             \E c \in Conns : pc[c] \in {"hist", "join_peers", "leave_peers"}
      /\ lossy[d] => lossy'[d]

(* A session that has lost a packet stays marked. *)
LEMMA SendLossy ==
  ASSUME TypeInv, NEW n, NEW p, SendEncrypted(n, p), NEW d \in Conns, lossy[d]
  PROVE  lossy'[d]
BY DEF SendEncrypted, TypeInv, TypeOK

(* Every step only adds packets, each where its connection is in its session. *)
LEMMA PacketsStep ==
  ASSUME "relogin" \notin Env, TypeInv, SessionInv, LockInv, OpenedInv,
         [Next]_vars, ~CrashRestart
  PROVE  PacketsGrow
<1>1. CASE log' = log /\ \A d \in Conns : lossy[d] => lossy'[d]
  BY <1>1 DEF PacketsGrow, Fits
<1>2. ASSUME NEW c \in Conns, Running, Handshake(c)
      PROVE  PacketsGrow
  <2>1. /\ log' = [log EXCEPT ![c] = <<[kind |-> "handshake_ok"]>>]
        /\ pc[c] = "handshake" /\ lossy' = lossy
    BY <1>2 DEF Handshake
  <2>2. log[c] = <<>>
    BY <2>1 DEF OpenedInv
  <2>3. Level(c) = 0
    BY <1>2, <2>1 DEF SessionInv, ConnInv, Level
  <2>4. Stage([kind |-> "handshake_ok"]) = 0
    BY DEF Stage
  <2> DEFINE p == [kind |-> "handshake_ok"]
  <2>5. /\ Stage(p) = 0 /\ p.kind \notin {"history", "peers"}
        /\ log' = [log EXCEPT ![c] = <<p>>]
    BY <2>1, <2>4
  <2> HIDE DEF p
  <2>6. \A d \in Conns \ {c} : log'[d] = log[d]
    BY <2>5 DEF TypeInv, TypeOK
  <2>7. log'[c] = <<p>>
    BY <2>5 DEF TypeInv, TypeOK
  <2>8. DOMAIN log[c] = {} /\ Len(log[c]) = 0 /\ DOMAIN log'[c] = {1} /\ log'[c][1] = p
    BY <2>2, <2>7
  <2>9. \A i \in DOMAIN log'[c] : Fits(c, i)
    <3>1. Level(c)' \in 0..3
      BY LevelTyped
    <3> QED BY <1>2, <2>3, <2>5, <2>8, <3>1 DEF Fits
  <2> QED BY <2>1, <2>5, <2>6, <2>8, <2>9 DEF PacketsGrow, Fits
<1>3. ASSUME NEW c \in Conns, Running,
             SendsOne(c) \/ SendsAll(c) \/ \E u \in Users : BroadcastTo(c, u)
      PROVE  PacketsGrow
  <2>1. PICK n, p : /\ Offers(n, p)
                    /\ p.kind = "history" => n = Only(c) /\ SendHistoryRow(c)
                    /\ p.kind = "peers" => pc[c] \in {"hist", "join_peers", "leave_peers"}
    BY <1>3, SendersOffer
  <2>2. n \in [Conns -> Nat] /\ SendEncrypted(n, p)
    BY <2>1 DEF Offers
  <2>3. ASSUME NEW d \in Conns
        PROVE  /\ \A i \in DOMAIN log[d] : i \in DOMAIN log'[d] /\ log'[d][i] = log[d][i]
               /\ \A i \in DOMAIN log'[d] : i \notin DOMAIN log[d] =>
                    /\ i > Len(log[d]) /\ i <= Len(log[d]) + n[d]
                    /\ log'[d][i] = p
               /\ n[d] = 0 => log'[d] = log[d]
    BY <2>2, SendAppends DEF TypeInv
  <2>4. \A d \in Conns : \A i \in DOMAIN log'[d] : Fits(d, i)
    BY <2>1, <2>2, SendFits DEF Offers
  <2>5. ASSUME NEW d \in Conns, NEW i \in DOMAIN log'[d],
               i \notin DOMAIN log[d], log'[d][i].kind = "history"
        PROVE  SendHistoryRow(d) /\ i = Len(log[d]) + 1
    <3>1. log'[d][i] = p
      BY <2>3, <2>5
    <3>2. n = Only(c) /\ SendHistoryRow(c)
      BY <2>1, <2>5, <3>1
    <3>3. d = c
      BY <2>3, <2>5, <3>2 DEF Only
    <3>4. n[d] = 1
      BY <3>2, <3>3 DEF Only
    <3>5. Len(log[d]) \in Nat /\ i \in Nat
      BY <2>5, DomainNat DEF TypeInv, TypeOK
    <3> QED BY <2>3, <2>5, <3>2, <3>3, <3>4, <3>5
  <2>6. \A d \in Conns : lossy[d] => lossy'[d]
    BY <2>2, SendLossy
  <2> QED BY <2>1, <2>3, <2>4, <2>5, <2>6 DEF PacketsGrow
<1> QED BY <1>1, <1>2, <1>3, SendKinds

-----------------------------------------------------------------------------
(* The sequence of a session: handshake, login, history, list of peers.      *)

(* Where a handler can come from, and where it can go. *)
LEMMA PcStep ==
  ASSUME TypeInv, [Next]_vars, ~CrashRestart, NEW d \in Conns
  PROVE  /\ pc[d] = "done" => pc'[d] = "done"
         /\ pc'[d] \in {"off", "handshake"} => pc[d] \in {"off", "handshake"}
         /\ pc[d] \in {"off", "handshake"} =>
              pc'[d] \in {"off", "handshake", "done"} \/ Handshake(d)
         /\ pc[d] = "load" => pc'[d] = "load" \/ LoadHistory(d) \/ LoadHistoryFails(d)
         /\ pc[d] = "hist" => pc'[d] = "hist" \/ SendPeers(d)
         /\ pc'[d] = "hist" => pc[d] = "hist" \/ LoadHistory(d)
         /\ pc[d] \in {"join_peers", "leave_peers"} => pc'[d] = pc[d] \/ BroadcastPeers(d)
         /\ pc[d] = "saved" => pc'[d] = "saved" \/ BeginBroadcast(d)
         /\ pc[d] = "cast" => pc'[d] = "cast" \/ rest[d] = {}
<1>1. CASE pc'[d] = pc[d]
  BY <1>1
<1>2. CASE SmallStep /\ pc'[d] # pc[d]
  <2>1. SmallMove(d)
    BY <1>2 DEF SmallStep
  <2>2. LoadHistoryFails(d) => pc'[d] # "hist"
    BY DEF LoadHistoryFails, Goto, TypeInv, TypeOK
  <2>3. pc'[d] \notin {"off"}
    BY <1>2, <2>1 DEF SmallMove
  <2> QED BY <1>2, <2>1, <2>2, <2>3 DEF SmallMove
<1>3. CASE ~SmallStep /\ pc'[d] # pc[d]
  <2>1. /\ pc[d] \in {"read", "join", "save", "saved", "leave"}
        /\ pc'[d] \in {"signup", "auth", "save", "error", "load", "saved", "cast", "leave_peers"}
        /\ pc[d] = "saved" => BeginBroadcast(d)
    BY <1>3, StepKinds, ReadPacketSets, FinishAuthSets, SaveSets, BeginBroadcastSets,
       BroadcastToSets, UnregisterSets, CloseClientsSets
  <2> QED BY <2>1
<1> QED BY <1>1, <1>2, <1>3

(* The handshake is the first thing that is sent. *)
LEMMA HandshakeOpens ==
  ASSUME TypeInv, NEW c \in Conns, Handshake(c)
  PROVE  log'[c] # <<>> /\ pc'[c] = "loop"
<1>1. log'[c] = <<[kind |-> "handshake_ok"]>>
  BY DEF Handshake, TypeInv, TypeOK
<1>2. Len(log'[c]) = 1
  BY <1>1
<1> QED BY <1>2 DEF Handshake, Goto, TypeInv, TypeOK

(* A channel is empty until the handshake, and never again. *)
LEMMA OpenedStep ==
  ASSUME TypeInv, OpenedInv, PacketsGrow, [Next]_vars, ~CrashRestart
  PROVE  OpenedInv'
<1> SUFFICES ASSUME NEW d \in Conns
             PROVE  /\ pc'[d] \in {"off", "handshake"} => log'[d] = <<>>
                    /\ pc'[d] \notin {"off", "handshake", "done"} => log'[d] # <<>>
  BY DEF OpenedInv
<1>1. CASE pc'[d] \in {"off", "handshake"}
  <2>1. pc[d] \in {"off", "handshake"} /\ ~Handshake(d)
    BY <1>1, PcStep, HandshakeOpens
  <2>2. log[d] = <<>>
    BY <2>1 DEF OpenedInv
  <2>3. \A i \in DOMAIN log'[d] : i \in DOMAIN log[d]
    BY <2>1 DEF PacketsGrow, Fits
  <2>4. DOMAIN log'[d] = {}
    BY <2>2, <2>3
  <2>5. log'[d] \in Seq(Packet)
    BY TypeStep DEF TypeInv, TypeOK
  <2>6. Len(log'[d]) = 0
    <3>1. Len(log'[d]) \in Nat /\ 1..Len(log'[d]) = {}
      BY <2>4, DomainNat
    <3>2. ~(1 \in 1..Len(log'[d]))
      BY <3>1
    <3> QED BY <3>1, <3>2
  <2> QED BY <1>1, <2>5, <2>6
<1>2. CASE pc'[d] \notin {"off", "handshake", "done"}
  <2>1. CASE Handshake(d)
    BY <1>2, <2>1, HandshakeOpens
  <2>2. CASE ~Handshake(d)
    <3>1. pc[d] \notin {"off", "handshake", "done"}
      BY <1>2, <2>2, PcStep
    <3>2. log[d] # <<>>
      BY <3>1 DEF OpenedInv
    <3>3. log[d] \in Seq(Packet)
      BY DEF TypeInv, TypeOK
    <3>4. 1 \in DOMAIN log[d]
      BY <3>2, <3>3
    <3>5. 1 \in DOMAIN log'[d]
      BY <3>4 DEF PacketsGrow
    <3> QED BY <1>2, <3>5
  <2> QED BY <2>1, <2>2
<1> QED BY <1>1, <1>2

(* The packets of a connection stay in the order of the stages. *)
LEMMA StageStep ==
  ASSUME StageInv, PacketsGrow, \A d \in Conns : Level(d) <= Level(d)'
  PROVE  StageInv'
<1> SUFFICES ASSUME NEW d \in Conns, NEW i \in DOMAIN log'[d],
                    Stage(log'[d][i]) # 4
             PROVE  Stage(log'[d][i]) <= Level(d)'
  BY DEF StageInv
<1>1. CASE i \in DOMAIN log[d] /\ log'[d][i] = log[d][i]
  <2>1. Stage(log[d][i]) <= Level(d)
    BY <1>1 DEF StageInv
  <2>2. Stage(log[d][i]) \in 0..4
    BY DEF Stage
  <2>3. Level(d) <= Level(d)'
    OBVIOUS
  <2> QED BY <1>1, <2>1, <2>2, <2>3, LevelTyped
<1>2. CASE ~(i \in DOMAIN log[d] /\ log'[d][i] = log[d][i])
  BY <1>2 DEF PacketsGrow, Fits
<1> QED BY <1>1, <1>2

(* Only a log-in gives a connection a name. *)
LEMMA UsernameStep ==
  ASSUME TypeInv, [Next]_vars, ~CrashRestart, NEW d \in Conns
  PROVE  username'[d] = username[d] \/ (Running /\ FinishAuth(d))
<1>1. ASSUME NEW c \in Conns, FinishAuth(c)
      PROVE  c = d \/ username'[d] = username[d]
  BY <1>1, FinishAuthSets
<1>2. ASSUME NEW c \in Conns,
             \/ \E r \in Request : ReadPacket(c, r)
             \/ SaveMessageHistory(c) \/ BeginBroadcast(c)
             \/ \E u \in Users : BroadcastTo(c, u)
             \/ Unregister(c)
      PROVE  username' = username
  BY <1>2, ReadPacketSets, SaveSets, BeginBroadcastSets, BroadcastToSets,
     UnregisterSets
<1>3. SmallStep \/ CloseClients => username' = username
  BY CloseClientsSets DEF SmallStep
<1> QED BY <1>1, <1>2, <1>3, StepKinds

(* Only loading and sending touch what is left of the history. *)
LEMMA HistChanges ==
  ASSUME TypeInv, [Next]_vars, ~CrashRestart, NEW d \in Conns
  PROVE  hist'[d] = hist[d] \/ LoadHistory(d) \/ SendHistoryRow(d)
<1>1. ASSUME NEW c \in Conns, LoadHistory(c) \/ SendHistoryRow(c)
      PROVE  c = d \/ hist'[d] = hist[d]
  BY <1>1 DEF LoadHistory, SendHistoryRow, TypeInv, TypeOK
<1>2. ASSUME NEW c \in Conns, ConnSteps(c)
      PROVE  hist' = hist \/ LoadHistory(c) \/ SendHistoryRow(c)
  BY <1>2 DEF ConnSteps, ReadSteps, JoinSteps, MessageSteps, LeaveSteps, WriterSteps,
     Accept, Handshake, HandshakeFails, LoopTop, ReadPacket, ReadError, ReplyError,
     CreateUser, SignupRefused, AuthenticateUser, AuthRefused, DuplicateLogin,
     FinishAuth, LoadHistoryFails, SendPeers, BroadcastPeers, AnnounceJoin,
     SaveMessageHistory, SaveFails, BeginBroadcast, BroadcastTo, EndBroadcast,
     Unregister, UnregisterNothing, AnnounceLeave, WriterSend, WriterFails,
     WriterEnds, HangUp, handler
<1>3. ASSUME ServerSteps \/ UNCHANGED vars
      PROVE  hist' = hist
  BY <1>3 DEF ServerSteps, Signal, CloseClients, CloseListener, Exit, vars, handler
<1> QED BY <1>1, <1>2, <1>3 DEF Next, Stopped

(* The row just sent is the earliest of those to come. *)
LEMMA RowSent ==
  ASSUME TypeInv, NEW c \in Conns, SendHistoryRow(c)
  PROVE  \E row \in hist[c] :
           /\ hist'[c] = hist[c] \ {row}
           /\ \A r \in hist'[c] : Before(row, r)
           /\ \A i \in DOMAIN log'[c] :
                i \notin DOMAIN log[c] => log'[c][i] = [kind |-> "history", row |-> row]
           /\ SendEncrypted(Only(c), [kind |-> "history", row |-> row])
<1>1. PICK row \in Earliest(hist[c]) :
        /\ SendEncrypted(Only(c), [kind |-> "history", row |-> row])
        /\ hist' = [hist EXCEPT ![c] = hist[c] \ {row}]
  BY DEF SendHistoryRow
<1>2. row \in hist[c] /\ \A r \in hist[c] \ {row} : Before(row, r)
  BY <1>1 DEF Earliest
<1>3. hist'[c] = hist[c] \ {row}
  BY <1>1 DEF TypeInv, TypeOK
<1> DEFINE p == [kind |-> "history", row |-> row]
<1>4. SendEncrypted(Only(c), p)
  BY <1>1
<1> HIDE DEF p
<1>5. \A i \in DOMAIN log'[c] : i \notin DOMAIN log[c] => log'[c][i] = p
  BY <1>4, OnlyTyped, SendAppends DEF TypeInv
<1> QED BY <1>2, <1>3, <1>4, <1>5 DEF p

(* What is still to be sent of a history is later than what was sent. *)
LEMMA HistStep ==
  ASSUME TypeInv, StageInv, HistInv, PacketsGrow, [Next]_vars, ~CrashRestart
  PROVE  HistInv'
<1> SUFFICES ASSUME NEW d \in Conns, pc'[d] = "hist"
             PROVE  \A i \in DOMAIN log'[d] : log'[d][i].kind = "history" =>
                      \A r \in hist'[d] : Before(log'[d][i].row, r)
  BY DEF HistInv
<1>1. CASE LoadHistory(d)
  <2>1. pc[d] = "load" /\ log' = log
    BY <1>1 DEF LoadHistory
  <2>3. \A i \in DOMAIN log[d] : log[d][i].kind # "history"
    <3>1. \A i \in DOMAIN log[d] : log[d][i].kind = "history" => Stage(log[d][i]) = 2
      BY DEF Stage
    <3>2. Level(d) \in {0, 1}
      BY <2>1 DEF Level
    <3> QED BY <3>1, <3>2 DEF StageInv
  <2> QED BY <2>1, <2>3
<1>2. CASE ~LoadHistory(d)
  <2>1. pc[d] = "hist"
    BY <1>2, PcStep
  <2>5. CASE ~SendHistoryRow(d)
    <3>1. hist'[d] = hist[d]
      BY <1>2, <2>5, HistChanges
    <3>2. \A i \in DOMAIN log'[d] : log'[d][i].kind = "history" =>
            i \in DOMAIN log[d] /\ log'[d][i] = log[d][i]
      BY <2>5 DEF PacketsGrow, Fits
    <3> QED BY <2>1, <3>1, <3>2 DEF HistInv
  <2>6. CASE SendHistoryRow(d)
    <3>1. PICK row \in hist[d] :
            /\ hist'[d] = hist[d] \ {row}
            /\ \A r \in hist'[d] : Before(row, r)
            /\ \A i \in DOMAIN log'[d] :
                 i \notin DOMAIN log[d] => log'[d][i] = [kind |-> "history", row |-> row]
      BY <2>6, RowSent
    <3>2. ASSUME NEW i \in DOMAIN log'[d], log'[d][i].kind = "history",
                 NEW r \in hist'[d]
          PROVE  Before(log'[d][i].row, r)
      <4>1. CASE i \in DOMAIN log[d]
        <5>1. log'[d][i] = log[d][i]
          BY <4>1 DEF PacketsGrow
        <5> QED BY <2>1, <3>1, <3>2, <4>1, <5>1 DEF HistInv
      <4>2. CASE i \notin DOMAIN log[d]
        BY <3>1, <4>2
      <4> QED BY <4>1, <4>2
    <3> QED BY <3>2
  <2> QED BY <2>5, <2>6
<1> QED BY <1>1, <1>2

(* Past its history a session has been sent the list, or has lost something. *)
LEMMA SendAccepted ==
  ASSUME TypeInv, NEW n \in [Conns -> Nat], NEW p, SendEncrypted(n, p),
         proc' # "panicked", NEW d \in Conns, n[d] > 0, ~lossy'[d]
  PROVE  \E i \in DOMAIN log'[d] : i = Len(log[d]) + n[d] /\ log'[d][i] = p
<1>1. /\ log' = [e \in Conns |->
                   log[e] \o [i \in 1..SmallerOf(n[e], Room(e)) |-> p]]
      /\ lossy' = [e \in Conns |-> lossy[e] \/ n[e] > Room(e)]
  BY DEF SendEncrypted
<1>2. ~(n[d] > Room(d)) /\ Room(d) \in Int /\ n[d] \in Nat
  BY <1>1, RoomTyped DEF TypeInv
<1>3. SmallerOf(n[d], Room(d)) = n[d]
  BY <1>2 DEF SmallerOf
<1> DEFINE more == [i \in 1..n[d] |-> p]
<1>4. log'[d] = log[d] \o more
  BY <1>1, <1>3
<1>5. more \in Seq({p})
  BY <1>2, CopiesTyped
<1>6. Len(more) = n[d] /\ more[n[d]] = p
  BY <1>2
<1>7. log[d] \in Seq(Packet)
  BY DEF TypeInv, TypeOK
<1> HIDE DEF more
<1>8. /\ Len(log[d]) + n[d] \in DOMAIN log'[d]
      /\ log'[d][Len(log[d]) + n[d]] = more[n[d]]
  BY <1>2, <1>4, <1>5, <1>6, <1>7
<1> QED BY <1>6, <1>8

(* A process that runs has been running, without a panic. *)
LEMMA RunningStep ==
  ASSUME [Next]_vars, Running', ~CrashRestart
  PROVE  Running /\ proc' # "panicked"
<1>1. CASE UNCHANGED vars
  BY <1>1 DEF vars, Running
<1> QED BY <1>1 DEF Next, Stopped, Running

(* Whoever is past the welcome has a list of peers, or has lost packets. *)
LEMMA WelcomeStep ==
  ASSUME TypeInv, SessionInv, WelcomeInv, PacketsGrow, [Next]_vars, ~CrashRestart
  PROVE  WelcomeInv'
<1> SUFFICES ASSUME Running', NEW d \in Conns, Authenticated(d)',
                    pc'[d] \notin {"load", "hist"}, ~lossy'[d]
             PROVE  \E i \in DOMAIN log'[d] : log'[d][i].kind = "peers"
  BY DEF WelcomeInv
<1>1. Running /\ proc' # "panicked"
  BY RunningStep
<1>2. username'[d] = username[d]
  BY UsernameStep, FinishAuthSets
<1>3. Authenticated(d)
  BY <1>2 DEF Authenticated
<1>4. ~lossy[d]
  BY DEF PacketsGrow
<1>5. CASE pc[d] \notin {"load", "hist"}
  <2>1. PICK i \in DOMAIN log[d] : log[d][i].kind = "peers"
    BY <1>1, <1>3, <1>4, <1>5 DEF WelcomeInv
  <2> QED BY <2>1 DEF PacketsGrow
<1>6. CASE pc[d] = "load"
  <2>1. CASE LoadHistory(d)
    BY <2>1 DEF LoadHistory, Goto, TypeInv, TypeOK
  <2>2. CASE LoadHistoryFails(d)
    BY <2>2 DEF LoadHistoryFails, TypeInv, TypeOK
  <2> QED BY <1>6, <2>1, <2>2, PcStep
<1>7. CASE pc[d] = "hist"
  <2>1. SendPeers(d)
    BY <1>7, PcStep
  <2> DEFINE p == [kind |-> "peers", peers |-> Snapshot]
  <2>2. SendEncrypted(Only(d), p) /\ p.kind = "peers"
    BY <2>1 DEF SendPeers
  <2>3. Only(d) \in [Conns -> Nat] /\ Only(d)[d] > 0
    BY OnlyTyped DEF Only
  <2> HIDE DEF p
  <2> QED BY <1>1, <2>2, <2>3, SendAccepted
<1> QED BY <1>5, <1>6, <1>7

(* A message comes from a broadcast to the session the registry knows.      *)
LEMMA MessageComes ==
  ASSUME "relogin" \notin Env, TypeInv, SessionInv, [Next]_vars, ~CrashRestart,
         NEW d \in Conns, NEW i \in DOMAIN log'[d], i \notin DOMAIN log[d],
         log'[d][i].kind = "message"
  PROVE  \E c \in Conns, u \in Users : Running /\ BroadcastTo(c, u) /\ d = clients[u]
<1>1. ~NoNewMessage
  BY DEF NoNewMessage
<1>2. \E c \in Conns, u \in Users : Running /\ BroadcastTo(c, u)
  <2>1. log' = log => NoNewMessage
    BY DEF NoNewMessage
  <2> QED BY <1>1, <2>1, StepKinds, ReadPacketSets, FinishAuthNoMessage, SaveSets,
             BeginBroadcastSets, UnregisterSets, CloseClientsSets DEF SmallStep
<1>3. PICK c \in Conns, u \in Users : Running /\ BroadcastTo(c, u)
  BY <1>2
<1> QED BY <1>3, BroadcastAppends

(* Every step keeps the order of a join. *)
LEMMA OrderStep ==
  ASSUME "relogin" \notin Env, TypeInv, SessionInv, MessageInv, JoinInv, PacketsGrow,
         [Next]_vars, ~CrashRestart
  PROVE  JoinOrder'
<1> SUFFICES ASSUME NEW d \in Conns
             PROVE  /\ \A i, j \in DOMAIN log'[d] :
                         i < j /\ Stage(log'[d][i]) # 4 /\ Stage(log'[d][j]) # 4
                           => Stage(log'[d][i]) <= Stage(log'[d][j])
                    /\ \A i, j \in DOMAIN log'[d] :
                         i < j /\ log'[d][i].kind = "history"
                               /\ log'[d][j].kind = "history"
                           => Before(log'[d][i].row, log'[d][j].row)
                    /\ \A i \in DOMAIN log'[d] :
                         log'[d][i].kind = "message" /\ ~lossy'[d]
                           => \E j \in 1..(i - 1) : log'[d][j].kind = "peers"
  BY DEF JoinOrder
<1>1. /\ \A i \in DOMAIN log[d] : i \in DOMAIN log'[d] /\ log'[d][i] = log[d][i]
      /\ \A i \in DOMAIN log'[d] : i \notin DOMAIN log[d] => i > Len(log[d])
      /\ lossy[d] => lossy'[d]
  BY DEF PacketsGrow, Fits
<1>2. /\ Len(log[d]) \in Nat /\ DOMAIN log[d] = 1..Len(log[d])
      /\ Len(log'[d]) \in Nat /\ DOMAIN log'[d] = 1..Len(log'[d])
  BY DomainNat
<1>3. ASSUME NEW i \in DOMAIN log'[d], NEW j \in DOMAIN log'[d], i < j
      PROVE  \/ i \in DOMAIN log[d] /\ j \in DOMAIN log[d]
             \/ i \in DOMAIN log[d] /\ j \notin DOMAIN log[d]
             \/ i \notin DOMAIN log[d] /\ j \notin DOMAIN log[d]
  BY <1>1, <1>2, <1>3
<1>4. ASSUME NEW i \in DOMAIN log'[d], NEW j \in DOMAIN log'[d], i < j,
             Stage(log'[d][i]) # 4, Stage(log'[d][j]) # 4
      PROVE  Stage(log'[d][i]) <= Stage(log'[d][j])
  <2>1. Stage(log'[d][i]) \in 0..4 /\ Stage(log'[d][j]) \in 0..4
    BY DEF Stage
  <2>2. CASE i \in DOMAIN log[d] /\ j \in DOMAIN log[d]
    <3>1. log'[d][i] = log[d][i] /\ log'[d][j] = log[d][j]
      BY <1>1, <2>2
    <3> QED BY <1>4, <2>2, <3>1 DEF JoinInv, JoinOrder
  <2>3. CASE i \in DOMAIN log[d] /\ j \notin DOMAIN log[d]
    <3>1. log'[d][i] = log[d][i]
      BY <1>1, <2>3
    <3>2. Stage(log'[d][i]) <= Level(d)
      BY <1>4, <2>3, <3>1 DEF JoinInv, StageInv
    <3>3. Level(d) <= Stage(log'[d][j])
      BY <1>4, <2>3 DEF PacketsGrow, Fits
    <3> QED BY <2>1, <3>2, <3>3, LevelTyped
  <2>4. CASE i \notin DOMAIN log[d] /\ j \notin DOMAIN log[d]
    <3>1. log'[d][i] = log'[d][j]
      BY <2>4 DEF PacketsGrow
    <3> QED BY <2>1, <3>1
  <2> QED BY <1>3, <1>4, <2>2, <2>3, <2>4
<1>5. ASSUME NEW i \in DOMAIN log'[d], NEW j \in DOMAIN log'[d], i < j,
             log'[d][i].kind = "history", log'[d][j].kind = "history"
      PROVE  Before(log'[d][i].row, log'[d][j].row)
  <2>1. CASE i \in DOMAIN log[d] /\ j \in DOMAIN log[d]
    BY <1>1, <1>5, <2>1 DEF JoinInv, JoinOrder
  <2>2. CASE i \in DOMAIN log[d] /\ j \notin DOMAIN log[d]
    <3>1. SendHistoryRow(d)
      BY <1>5, <2>2 DEF PacketsGrow
    <3>2. PICK row \in hist[d] :
            \A k \in DOMAIN log'[d] :
              k \notin DOMAIN log[d] => log'[d][k] = [kind |-> "history", row |-> row]
      BY <3>1, RowSent
    <3>3. log'[d][j].row = row
      BY <2>2, <3>2
    <3>4. pc[d] = "hist"
      BY <3>1 DEF SendHistoryRow
    <3>5. log'[d][i] = log[d][i]
      BY <1>1, <2>2
    <3> QED BY <1>5, <2>2, <3>2, <3>3, <3>4, <3>5 DEF JoinInv, HistInv
  <2>3. CASE i \notin DOMAIN log[d] /\ j \notin DOMAIN log[d]
    <3>1. i = Len(log[d]) + 1 /\ j = Len(log[d]) + 1
      BY <1>5, <2>3 DEF PacketsGrow
    <3> QED BY <1>2, <1>5, <3>1
  <2> QED BY <1>3, <1>5, <2>1, <2>2, <2>3
<1>6. ASSUME NEW i \in DOMAIN log'[d], log'[d][i].kind = "message", ~lossy'[d]
      PROVE  \E j \in 1..(i - 1) : log'[d][j].kind = "peers"
  <2>1. CASE i \in DOMAIN log[d]
    <3>1. PICK j \in 1..(i - 1) : log[d][j].kind = "peers"
      BY <1>1, <1>6, <2>1 DEF JoinInv, JoinOrder
    <3>2. j \in DOMAIN log[d]
      BY <1>2, <2>1
    <3> QED BY <1>1, <3>1, <3>2
  <2>2. CASE i \notin DOMAIN log[d]
    <3>1. PICK c \in Conns, u \in Users :
            /\ Running /\ BroadcastTo(c, u) /\ d = clients[u]
      BY <1>6, <2>2, MessageComes
    <3>2. Authenticated(d) /\ pc[d] \notin {"load", "hist"}
      <4>1. pc[c] \in (Exclusive \ {"load", "hist"}) \cup {"cast"}
        BY <3>1, BroadcastToSets
      <4> QED BY <3>1, <4>1, EntryLevel DEF MessageInv
    <3>3. PICK j \in DOMAIN log[d] : log[d][j].kind = "peers"
      BY <1>1, <1>6, <3>1, <3>2 DEF JoinInv, WelcomeInv
    <3>4. j \in 1..(i - 1) /\ log'[d][j] = log[d][j]
      BY <1>1, <1>2, <2>2, <3>3
    <3> QED BY <3>3, <3>4
  <2> QED BY <2>1, <2>2
<1> QED BY <1>4, <1>5, <1>6

(* At the start nobody has joined. *)
LEMMA JoinInit == Init => JoinInv
<1> SUFFICES ASSUME Init PROVE JoinInv
  OBVIOUS
<1>1. \A c \in Conns : log[c] = <<>> /\ pc[c] = "off" /\ username[c] = NoOne
  BY DEF Init, Fresh, Each
<1>2. \A c \in Conns : DOMAIN log[c] = {}
  BY <1>1
<1> QED BY <1>1, <1>2 DEF JoinInv, StageInv, OpenedInv, HistInv, WelcomeInv, JoinOrder,
           Authenticated

(* Every step keeps the invariant about joins, a crash included. *)
LEMMA JoinStep ==
  ASSUME "relogin" \notin Env, TypeInv, SessionInv, MessageInv, JoinInv, [Next]_vars
  PROVE  JoinInv'
<1>1. CASE CrashRestart
  <2>1. \A c \in Conns : log'[c] = <<>> /\ pc'[c] = "off" /\ username'[c] = NoOne
    BY <1>1 DEF CrashRestart, Each
  <2>2. \A c \in Conns : DOMAIN log'[c] = {}
    BY <2>1
  <2> QED BY <2>1, <2>2 DEF JoinInv, StageInv, OpenedInv, HistInv, WelcomeInv,
             JoinOrder, Authenticated
<1>2. CASE ~CrashRestart
  <2> USE DEF JoinInv
  <2>1. PacketsGrow
    BY <1>2, PacketsStep DEF MessageInv
  <2>2. \A d \in Conns : Level(d) <= Level(d)'
    BY <1>2, LevelUp
  <2>3. StageInv'
    BY <2>1, <2>2, StageStep
  <2>4. OpenedInv'
    BY <1>2, <2>1, OpenedStep
  <2>5. HistInv'
    BY <1>2, <2>1, HistStep DEF MessageInv
  <2>6. WelcomeInv'
    BY <1>2, <2>1, WelcomeStep
  <2>7. JoinOrder'
    BY <1>2, <2>1, OrderStep
  <2> QED BY <2>3, <2>4, <2>5, <2>6, <2>7
<1> QED BY <1>1, <1>2

(* The invariant about joins holds in every reachable state. *)
LEMMA JoinSafe ==
  ASSUME "relogin" \notin Env
  PROVE  Spec => [](TypeInv /\ SessionInv /\ MessageInv /\ JoinInv)
<1>1. Init => JoinInv
  BY JoinInit
<1>2. TypeInv /\ SessionInv /\ MessageInv /\ JoinInv /\ [Next]_vars => JoinInv'
  BY JoinStep
<1> QED BY <1>1, <1>2, MessageSafe, PTL DEF Spec

(***************************************************************************)
(* For every number of connections and users, every queue and history limit *)
(* and whatever interleaving, signal, crash or failure: what one client is   *)
(* sent comes as handshake, login, history by time, list of peers, and only  *)
(* then the life of the room.                                                *)
(***************************************************************************)
THEOREM JoinOrdered ==
  ASSUME "relogin" \notin Env
  PROVE  Spec => []JoinOrder
<1>1. JoinInv => JoinOrder
  BY DEF JoinInv
<1> QED BY <1>1, JoinSafe, PTL

-----------------------------------------------------------------------------
(* The lists of peers.                                                      *)

(* The registry changes in a log-in, a leave and the sweep only. *)
LEMMA ClientsStep ==
  ASSUME TypeInv, [Next]_vars
  PROVE  \/ UNCHANGED <<clients, username>>
         \/ \E c \in Conns : pc'[c] \in {"load", "leave_peers"}
         \/ \A u \in Users : clients'[u] = NoOne
<1>1. ASSUME NEW c \in Conns, FinishAuth(c) \/ Unregister(c)
      PROVE  pc'[c] \in {"load", "leave_peers"}
  BY <1>1, FinishAuthSets, UnregisterSets
<1>2. ASSUME NEW c \in Conns,
             \/ \E r \in Request : ReadPacket(c, r)
             \/ SaveMessageHistory(c) \/ BeginBroadcast(c)
             \/ \E u \in Users : BroadcastTo(c, u)
      PROVE  UNCHANGED <<clients, username>>
  BY <1>2, ReadPacketSets, SaveSets, BeginBroadcastSets, BroadcastToSets
<1>3. CASE CrashRestart
  BY <1>3 DEF CrashRestart
<1>4. SmallStep => UNCHANGED <<clients, username>>
  BY DEF SmallStep
<1> QED BY <1>1, <1>2, <1>3, <1>4, StepKinds, CloseClientsSets

Telling == {"load", "hist", "join_peers", "leave_peers"}

(* After the broadcast the list everybody has is the list of now. *)
LEMMA PeersBroadcast ==
  ASSUME TypeInv, [Next]_vars, NEW c \in Conns, BroadcastPeers(c), proc' # "panicked",
         NEW d \in Conns, Entries(d) # {}, ~lossy'[d]
  PROVE  LastPeerListIs(d, Snapshot)'
<1> DEFINE p == [kind |-> "peers", peers |-> Snapshot]
<1>1. /\ SendEncrypted(EachClient, p) /\ p.kind = "peers" /\ p.peers = Snapshot
      /\ UNCHANGED <<clients, username>>
  BY DEF BroadcastPeers, session
<1> HIDE DEF p
<1>2. EachClient \in [Conns -> Nat] /\ EachClient[d] > 0
  <2>1. Cardinality(Entries(d)) # 0
    <3>1. IsFiniteSet(Entries(d))
      BY FS_Subset DEF Entries
    <3> QED BY <3>1, FS_EmptySet
  <2>2. EachClient[d] = Cardinality(Entries(d))
    BY DEF EachClient
  <2> QED BY <2>1, <2>2, EachClientTyped
<1>3. PICK i \in DOMAIN log'[d] :
        i = Len(log[d]) + EachClient[d] /\ log'[d][i] = p
  BY <1>1, <1>2, SendAccepted
<1>4. \A j \in DOMAIN log'[d] : j > i => FALSE
  <2>1. \A j \in DOMAIN log'[d] : j \in Nat
    BY DomainNat
  <2>2. /\ Len(log[d]) \in Nat /\ DOMAIN log[d] = 1..Len(log[d])
        /\ EachClient[d] \in Nat
    BY <1>2, DomainNat
  <2>3. \A j \in DOMAIN log'[d] : j \notin DOMAIN log[d] => j <= Len(log[d]) + EachClient[d]
    BY <1>1, <1>2, SendAppends DEF TypeInv
  <2>4. \A j \in DOMAIN log'[d] : j \notin DOMAIN log[d] => j > Len(log[d])
    BY <1>1, <1>2, SendAppends DEF TypeInv
  <2> QED BY <1>2, <1>3, <2>1, <2>2, <2>3, <2>4
<1>5. Snapshot' = Snapshot
  BY <1>1 DEF Snapshot, Online
<1>6. log'[d][i].kind = "peers" /\ log'[d][i].peers = Snapshot'
  BY <1>1, <1>3, <1>5
<1> QED BY <1>3, <1>4, <1>6 DEF LastPeerListIs

(* Every row has a date, when every timestamp is one. *)
DatedInv == Readable(db.rows)

(* A save of a message whose timestamp is a date adds dated rows only. *)
LEMMA DatedStep ==
  ASSUME Stamps \subseteq Calendar, TypeInv, DatedInv, [Next]_vars
  PROVE  DatedInv'
<1>1. CASE db' = db
  BY <1>1 DEF DatedInv
<1>2. ASSUME NEW c \in Conns, SaveMessageHistory(c), NEW r \in db'.rows
      PROVE  r.at # 0
  <2>1. req[c].at \in Stamps
    BY <1>2, SaveSets DEF MessageRequest
  <2>2. Datetime(req[c].at) # 0
    BY <2>1 DEF Datetime
  <2>3. r \in db.rows \/ IsRow(Said(c), r)
    BY <1>2, SaveAdds
  <2> QED BY <2>2, <2>3 DEF DatedInv, Readable, IsRow, Said
<1>3. (\E c \in Conns : SaveMessageHistory(c)) => DatedInv'
  BY <1>2 DEF DatedInv, Readable
<1> QED BY <1>1, <1>3, TableStep

(* Without a database error, whoever has no current list is about to get one. *)
LEMMA PeersStep ==
  ASSUME "dbfail" \notin Env, TypeInv, DatedInv, PacketsGrow, PeersInv, [Next]_vars,
         ~CrashRestart
  PROVE  PeersInv'
<1> SUFFICES ASSUME Running', \A c \in Conns : pc'[c] \notin Telling,
                    NEW d \in Conns, Entries(d)' # {}, ~lossy'[d]
             PROVE  LastPeerListIs(d, Snapshot)'
  BY DEF PeersInv, LockedAt, Telling
<1>1. Running /\ proc' # "panicked"
  BY RunningStep
<1>2. UNCHANGED <<clients, username>>
  <2>1. ~ \E c \in Conns : pc'[c] \in {"load", "leave_peers"}
    BY DEF Telling
  <2>2. ~ \A u \in Users : clients'[u] = NoOne
    BY DEF Entries
  <2> QED BY <2>1, <2>2, ClientsStep
<1>3. Entries(d) # {}
  BY <1>2 DEF Entries
<1>4. CASE \E c \in Conns : pc[c] \in Telling
  <2>1. PICK c \in Conns : pc[c] \in Telling
    BY <1>4
  <2>2. pc'[c] \notin Telling
    OBVIOUS
  <2>3. ~LoadHistoryFails(c)
    <3>1. HistoryOf(c) \subseteq db.rows
      BY HistoryForInbox DEF HistoryOf, Inbox
    <3> QED BY <3>1 DEF LoadHistoryFails, DatedInv, Readable
  <2>4. LoadHistory(c) => pc'[c] = "hist"
    BY DEF LoadHistory, Goto, TypeInv, TypeOK
  <2>5. SendPeers(c) => pc'[c] = "join_peers"
    BY DEF SendPeers, Goto, TypeInv, TypeOK
  <2>6. BroadcastPeers(c)
    BY <2>1, <2>2, <2>3, <2>4, <2>5, PcStep DEF Telling
  <2> QED BY <1>1, <1>3, <2>6, PeersBroadcast
<1>5. CASE ~ \E c \in Conns : pc[c] \in Telling
  <2>1. ~lossy[d]
    BY DEF PacketsGrow
  <2>2. LastPeerListIs(d, Snapshot)
    BY <1>1, <1>3, <1>5, <2>1 DEF PeersInv, LockedAt, Telling
  <2>3. PICK i \in DOMAIN log[d] :
          /\ log[d][i].kind = "peers"
          /\ log[d][i].peers = Snapshot
          /\ \A j \in DOMAIN log[d] : j > i => log[d][j].kind # "peers"
    BY <2>2 DEF LastPeerListIs
  <2>4. i \in DOMAIN log'[d] /\ log'[d][i] = log[d][i]
    BY <2>3 DEF PacketsGrow
  <2>5. \A j \in DOMAIN log'[d] : j > i => log'[d][j].kind # "peers"
    <3>1. \A j \in DOMAIN log'[d] :
            j \notin DOMAIN log[d] => log'[d][j].kind # "peers"
      BY <1>5 DEF PacketsGrow, Telling
    <3>2. \A j \in DOMAIN log[d] : log'[d][j] = log[d][j]
      BY DEF PacketsGrow
    <3> QED BY <2>3, <3>1, <3>2
  <2>6. Snapshot' = Snapshot
    BY <1>2 DEF Snapshot, Online
  <2> QED BY <2>3, <2>4, <2>5, <2>6 DEF LastPeerListIs
<1> QED BY <1>4, <1>5

(* Nobody online: nobody has to be told anything. *)
LEMMA NoEntries ==
  ASSUME \A u \in Users : clients[u] = NoOne
  PROVE  PeersInv
BY DEF PeersInv, Entries

(***************************************************************************)
(* Whenever the lock is free, whoever is online has been told exactly who   *)
(* is, for any number of connections: the list goes out under the lock of    *)
(* every change, and no list but the current one ever goes out.  A history   *)
(* that cannot be read ends a join before its broadcast: no query fails      *)
(* ("dbfail"), and every timestamp is a date.                                 *)
(***************************************************************************)
THEOREM PeersTold ==
  ASSUME "relogin" \notin Env, "dbfail" \notin Env, Stamps \subseteq Calendar
  PROVE  Spec => []PeerViewCurrent
<1>1. Init => PeersInv /\ DatedInv
  BY NoEntries DEF Init, Fresh, DatedInv, Readable, EmptyTable
<1>2. /\ TypeInv /\ SessionInv /\ MessageInv /\ JoinInv
      /\ PeersInv /\ DatedInv /\ [Next]_vars
      => PeersInv' /\ DatedInv'
  <2> SUFFICES ASSUME TypeInv, SessionInv, MessageInv, JoinInv, PeersInv, DatedInv,
                      [Next]_vars
               PROVE  PeersInv' /\ DatedInv'
    OBVIOUS
  <2>1. CrashRestart => PeersInv'
    BY DEF CrashRestart, PeersInv, Entries
  <2>2. ~CrashRestart => PeersInv'
    BY PacketsStep, PeersStep DEF MessageInv, JoinInv
  <2> QED BY <2>1, <2>2, DatedStep
<1>3. PeersInv => PeerViewCurrent
  BY DEF PeersInv, PeerViewCurrent, WriteLocked, LockedAt
<1> QED BY <1>1, <1>2, <1>3, JoinSafe, PTL DEF Spec

-----------------------------------------------------------------------------
(* The messages between a login and what follows it.                        *)

(* A limit that is not reached leaves nothing out.                          *)
LEMMA OldestIsAll ==
  ASSUME NEW S, IsFiniteSet(S), NEW n \in Nat, Cardinality(S) <= n,
         \A r \in S : r.at \in Nat /\ r.id \in Nat
  PROVE  Oldest(S, n) = S
<1> SUFFICES ASSUME NEW r \in S
             PROVE  Cardinality({s \in S : Before(s, r)}) < n
  BY DEF Oldest
<1> DEFINE T == {s \in S : Before(s, r)}
<1>1. T \in SUBSET S /\ r \notin T
  BY DEF Before
<1> HIDE DEF T
<1>2. /\ IsFiniteSet(T) /\ Cardinality(T) <= Cardinality(S)
      /\ Cardinality(S) = Cardinality(T) => S = T
  BY <1>1, FS_Subset
<1>3. Cardinality(T) \in Nat /\ Cardinality(S) \in Nat
  BY <1>2, FS_CardinalityType
<1>4. Cardinality(T) < n
  BY <1>1, <1>2, <1>3
<1> QED BY <1>4 DEF T

(* The inbox of a user is finite, and never gets smaller: a row that goes    *)
(* leaves another one of its identifier in its place.                         *)
LEMMA InboxStep ==
  ASSUME TypeInv, TableInv, [Next]_vars, NEW u
  PROVE  /\ Cardinality(Inbox(db, u)) \in Nat /\ Cardinality(Inbox(db', u)) \in Nat
         /\ Cardinality(Inbox(db, u)) <= Cardinality(Inbox(db', u))
<1> DEFINE S == Inbox(db, u)
           T == Inbox(db', u)
           f == [r \in S |-> CHOOSE s \in T : s.mid = r.mid]
<1>1. TableInv'
  BY RowsStep
<1>2. IsFiniteSet(T)
  <2>1. T \in SUBSET db'.rows
    BY DEF Inbox
  <2> QED BY <1>1, <2>1, FS_Subset DEF TableInv
<1>3. ASSUME NEW r \in S
      PROVE  \E s \in T : s.mid = r.mid
  <2>1. r \in db.rows /\ r.to = u
    BY DEF Inbox
  <2>2. KeptOrReplaced(r) /\ r.id \in Nat
    BY <2>1, IdsTyped DEF KeptOrReplaced, SameKey
  <2>3. KeptOrReplaced(r)'
    BY <2>2, RowsReplaced
  <2> QED BY <2>1, <2>3 DEF KeptOrReplaced, SameKey, Inbox
<1>4. \A r \in S : f[r] \in T /\ f[r].mid = r.mid
  BY <1>3
<1>5. \A r, s \in S : r.mid = s.mid => r = s
  BY DEF Inbox, TableInv, SameKey
<1>6. f \in [S -> T]
  BY <1>4
<1> HIDE DEF f, S, T
<1>7. f \in Injection(S, T)
  BY <1>4, <1>5, <1>6 DEF Injection, IsInjective
<1>8. IsFiniteSet(S) /\ Cardinality(S) <= Cardinality(T)
  BY <1>2, <1>7, FS_Injection
<1>9. Cardinality(S) \in Nat /\ Cardinality(T) \in Nat
  BY <1>2, <1>8, FS_CardinalityType
<1> QED BY <1>8, <1>9 DEF S, T

(* A history within the limit is all there is. *)
LEMMA WholeHistory ==
  ASSUME TypeInv, TableInv, NEW u \in Users, Cardinality(Inbox(db, u)) <= HistLimit
  PROVE  HistoryFor(db, u, HistLimit) = Inbox(db, u)
<1>1. Inbox(db, u) \in SUBSET db.rows
  BY DEF Inbox
<1>2. IsFiniteSet(Inbox(db, u))
  BY <1>1, FS_Subset DEF TableInv
<1>3. \A r \in db.rows : r.at \in Nat /\ r.id \in Nat
  <2> SUFFICES ASSUME NEW r \in db.rows PROVE r.at \in Nat /\ r.id \in Nat
    OBVIOUS
  <2>1. r \in HistoryRow /\ r.id \in Nat
    BY IdsTyped
  <2>2. r.at \in Stamps \cup {0}
    BY <2>1 DEF HistoryRow, Row
  <2>3. Stamps \cup {0} \subseteq Nat
    BY DEF StampsAssumption
  <2>4. r.at \in Nat
    BY <2>2, <2>3, Zenon
  <2> QED BY <2>1, <2>4
<1> QED BY <1>1, <1>2, <1>3, OldestIsAll DEF HistoryFor

(* A message on its way stays on its way until it is there. *)
LEMMA PendingStep ==
  ASSUME "relogin" \notin Env, TypeInv, MessageInv, PacketsGrow, [Next]_vars,
         Running', ~CrashRestart,
         NEW u \in Users, clients[u] \in Conns, ~lossy'[clients[u]],
         NEW r \in Inbox(db, u), r.from # u, BroadcastPending(r)
  PROVE  GotRow(clients[u], r)' \/ BroadcastPending(r)'
<1> DEFINE c == clients[u]
<1>1. PICK d \in Conns :
        /\ req[d].type = "message" /\ IsRow(Said(d), r)
        /\ \/ pc[d] = "saved" /\ r.to \in req[d].to
           \/ pc[d] = "cast" /\ r.to \in rest[d]
  BY DEF BroadcastPending, Said
<1>2. r \in db.rows /\ r.to = u /\ u \in Online
  BY DEF Inbox, Online
<1>3. req'[d] = req[d]
  <2>1. \A e \in Conns : \A q \in Request : ReadPacket(e, q) => e = d \/ req'[d] = req[d]
    BY ReadPacketSets
  <2>2. \A q \in Request : ~ReadPacket(d, q)
    BY <1>1 DEF ReadPacket
  <2>3. \A e \in Conns : FinishAuth(e) \/ SaveMessageHistory(e) \/ BeginBroadcast(e)
                           \/ Unregister(e) => req' = req
    BY FinishAuthSets, SaveSets, BeginBroadcastSets, UnregisterSets
  <2>4. \A e \in Conns : \A v \in Users : BroadcastTo(e, v) => req' = req
    BY BroadcastToSets
  <2>5. SmallStep \/ CloseClients => req' = req
    BY CloseClientsSets DEF SmallStep
  <2> QED BY <2>1, <2>2, <2>3, <2>4, <2>5, StepKinds
<1>6. /\ username'[d] = username[d]
      /\ IsRow([mid |-> req'[d].mid, from |-> username'[d], at |-> req'[d].at], r)
  <2>1. username'[d] = username[d]
    BY <1>1, UsernameStep, FinishAuthSets
  <2> QED BY <1>1, <1>3, <2>1 DEF Said
<1>4. CASE pc[d] = "saved" /\ r.to \in req[d].to
  <2>1. CASE pc'[d] = "saved"
    BY <1>1, <1>3, <1>4, <1>6, <2>1 DEF BroadcastPending, IsRow
  <2>2. CASE BeginBroadcast(d)
    <3>1. pc'[d] = "cast" /\ rest'[d] = (req[d].to \cap Online) \ {username[d]}
      BY <2>2, BeginBroadcastSets
    <3>2. r.from = username[d] /\ r.to \in req[d].to
      BY <1>1, <1>4 DEF IsRow, Said
    <3>3. r.to \in rest'[d]
      BY <1>2, <3>1, <3>2
    <3> QED BY <1>1, <1>3, <1>6, <3>1, <3>3 DEF BroadcastPending, IsRow
  <2> QED BY <1>4, <2>1, <2>2, PcStep
<1>5. CASE pc[d] = "cast" /\ r.to \in rest[d]
  <2>1. pc'[d] = "cast"
    BY <1>5, PcStep
  <2>2. CASE r.to \in rest'[d]
    BY <1>1, <1>3, <1>6, <2>1, <2>2 DEF BroadcastPending, IsRow
  <2>3. CASE r.to \notin rest'[d]
    <3>1. \E v \in Users : BroadcastTo(d, v)
      <4>1. \A e \in Conns : BeginBroadcast(e) => e # d /\ rest'[d] = rest[d]
        BY <1>5, BeginBroadcastSets
      <4>2. \A e \in Conns : \A v \in Users : BroadcastTo(e, v) => e = d \/ rest'[d] = rest[d]
        BY BroadcastToSets
      <4>3. \A e \in Conns : FinishAuth(e) \/ SaveMessageHistory(e) \/ Unregister(e)
                               => rest' = rest
        BY FinishAuthSets, SaveSets, UnregisterSets
      <4>4. \A e \in Conns : \A q \in Request : ReadPacket(e, q) => rest' = rest
        BY ReadPacketSets
      <4>5. SmallStep \/ CloseClients => rest' = rest
        BY CloseClientsSets DEF SmallStep
      <4> QED BY <1>5, <2>3, <4>1, <4>2, <4>3, <4>4, <4>5, StepKinds
    <3>2. PICK v \in Users : BroadcastTo(d, v)
      BY <3>1
    <3>3. v = u
      BY <1>2, <1>5, <2>3, <3>2, BroadcastToSets
    <3>4. /\ SendEncrypted(Only(c), Broadcasted(d, u))
          /\ Only(c) \in [Conns -> Nat] /\ Only(c)[c] > 0
      BY <3>2, <3>3, BroadcastToSets DEF Only
    <3>5. proc' # "panicked"
      BY RunningStep
    <3>6. PICK i \in DOMAIN log'[c] : log'[c][i] = Broadcasted(d, u)
      BY <3>4, <3>5, SendAccepted
    <3>7. log'[c][i].kind = "message" /\ IsRow(log'[c][i], r)
      BY <1>1, <3>6 DEF Broadcasted, IsRow, Said
    <3>8. \E j \in DOMAIN log'[c] :
            \/ log'[c][j].kind = "history" /\ log'[c][j].row = r
            \/ log'[c][j].kind = "message" /\ IsRow(log'[c][j], r)
      BY <3>7
    <3>9. clients' = clients
      BY <3>2, BroadcastToSets
    <3> QED BY <3>8, <3>9 DEF GotRow, IsRow
  <2> QED BY <2>2, <2>3
<1> QED BY <1>1, <1>4, <1>5

(* Somebody in the room after the step who is past the login was there.      *)
LEMMA OldEntry ==
  ASSUME TypeInv, [Next]_vars, ~CrashRestart,
         NEW u \in Users, clients'[u] # NoOne, pc'[clients'[u]] # "load"
  PROVE  clients'[u] = clients[u] /\ clients[u] \in Conns
<1>1. ASSUME NEW c \in Conns, FinishAuth(c)
      PROVE  clients'[u] = clients[u]
  BY <1>1, FinishAuthSets
<1>2. ASSUME NEW c \in Conns, Unregister(c)
      PROVE  clients'[u] = clients[u]
  BY <1>2, UnregisterSets
<1>3. ASSUME NEW c \in Conns,
             \/ \E r \in Request : ReadPacket(c, r)
             \/ SaveMessageHistory(c) \/ BeginBroadcast(c)
             \/ \E v \in Users : BroadcastTo(c, v)
      PROVE  clients' = clients
  BY <1>3, ReadPacketSets, SaveSets, BeginBroadcastSets, BroadcastToSets
<1>4. SmallStep => clients' = clients
  BY DEF SmallStep
<1>5. clients'[u] = clients[u]
  BY <1>1, <1>2, <1>3, <1>4, StepKinds, CloseClientsSets
<1> QED BY <1>5 DEF TypeInv, TypeOK

(* What is stored for a session has been sent to it, or is about to be. *)
LEMMA DeliveryStep ==
  ASSUME "relogin" \notin Env, TypeInv, SessionInv, MessageInv, PacketsGrow,
         DeliveryInv, [Next]_vars, ~CrashRestart
  PROVE  DeliveryInv'
<1> SUFFICES ASSUME Running', NEW u \in Users, clients'[u] # NoOne,
                    pc'[clients'[u]] # "load", ~lossy'[clients'[u]],
                    Cardinality(Inbox(db', u)) <= HistLimit,
                    NEW r \in Inbox(db', u), r.from # u
             PROVE  \/ GotRow(clients[u], r)' \/ BroadcastPending(r)'
                    \/ pc'[clients'[u]] = "hist" /\ r \in hist'[clients'[u]]
  BY DEF DeliveryInv, Online
<1> DEFINE c == clients[u]
<1>1. clients'[u] = c /\ c \in Conns
  BY OldEntry
<1>2. Running /\ proc' # "panicked"
  BY RunningStep
<1>3. ~lossy[c]
  BY <1>1 DEF PacketsGrow
<1>4. EntryInv(u)
  BY <1>2 DEF SessionInv
<1>5. username[c] = u
  BY <1>1, <1>4 DEF EntryInv
<1>6. Cardinality(Inbox(db, u)) <= HistLimit
  BY InboxStep DEF MessageInv
<1>7. CASE r \notin db.rows
  <2>1. r \in db'.rows \ db.rows
    BY <1>7 DEF Inbox
  <2>2. PICK b \in Conns : SaveMessageHistory(b)
    BY <2>1, TableStep
  <2>3. IsRow(Said(b), r) /\ r.to \in req[b].to
    BY <2>1, <2>2, SaveAdds
  <2>4. /\ pc'[b] = "saved" /\ req[b].type = "message"
        /\ req'[b] = req[b] /\ username'[b] = username[b]
    BY <2>2, SaveSets DEF MessageRequest
  <2> QED BY <2>3, <2>4 DEF BroadcastPending, IsRow, Said
<1>8. CASE r \in db.rows
  <2>1. r \in Inbox(db, u)
    BY <1>8 DEF Inbox
  <2>2. CASE pc[c] = "load"
    <3>1. LoadHistory(c)
      <4>1. LoadHistoryFails(c) => lossy'[c]
        BY <1>1 DEF LoadHistoryFails, TypeInv, TypeOK
      <4> QED BY <1>1, <2>2, <4>1, PcStep
    <3>2. hist'[c] = HistoryFor(db, u, HistLimit) /\ pc'[c] = "hist"
      BY <1>1, <1>5, <3>1 DEF LoadHistory, HistoryOf, Goto, TypeInv, TypeOK
    <3>3. HistoryFor(db, u, HistLimit) = Inbox(db, u)
      BY <1>6, WholeHistory DEF MessageInv
    <3> QED BY <1>1, <2>1, <3>2, <3>3
  <2>3. CASE pc[c] # "load" /\ GotRow(c, r)
    <3>1. PICK i \in DOMAIN log[c] :
            \/ log[c][i].kind = "history" /\ log[c][i].row = r
            \/ log[c][i].kind = "message" /\ IsRow(log[c][i], r)
      BY <2>3 DEF GotRow
    <3>2. i \in DOMAIN log'[c] /\ log'[c][i] = log[c][i]
      BY <1>1 DEF PacketsGrow
    <3> QED BY <1>1, <3>1, <3>2 DEF GotRow, IsRow
  <2>4. CASE pc[c] = "hist" /\ r \in hist[c]
    <3>1. pc'[c] = "hist"
      <4>1. SendPeers(c) => hist[c] = {}
        BY DEF SendPeers
      <4> QED BY <1>1, <2>4, <4>1, PcStep
    <3>2. CASE r \in hist'[c]
      BY <1>1, <3>1, <3>2
    <3>3. CASE r \notin hist'[c]
      <4>1. SendHistoryRow(c)
        <5>1. ~LoadHistory(c)
          BY <2>4 DEF LoadHistory
        <5> QED BY <1>1, <2>4, <3>3, <5>1, HistChanges
      <4>2. PICK row \in hist[c] :
              /\ hist'[c] = hist[c] \ {row}
              /\ SendEncrypted(Only(c), [kind |-> "history", row |-> row])
        BY <1>1, <4>1, RowSent
      <4>3. row = r
        BY <2>4, <3>3, <4>2
      <4> DEFINE p == [kind |-> "history", row |-> r]
      <4>4. SendEncrypted(Only(c), p) /\ p.kind = "history" /\ p.row = r
        BY <4>2, <4>3
      <4> HIDE DEF p
      <4>5. \E i \in DOMAIN log'[c] : log'[c][i] = p
        <5>1. Only(c) \in [Conns -> Nat] /\ Only(c)[c] > 0
          BY <1>1, OnlyTyped DEF Only
        <5> QED BY <1>1, <1>2, <4>4, <5>1, SendAccepted
      <4> QED BY <1>1, <4>4, <4>5 DEF GotRow
    <3> QED BY <3>2, <3>3
  <2>5. CASE BroadcastPending(r)
    <3>1. GotRow(clients[u], r)' \/ BroadcastPending(r)'
      BY <1>1, <2>1, <2>5, PendingStep
    <3> QED BY <3>1
  <2>6. \/ pc[c] = "load" \/ GotRow(c, r) \/ BroadcastPending(r)
        \/ pc[c] = "hist" /\ r \in hist[c]
    BY <1>1, <1>2, <1>3, <1>6, <2>1 DEF DeliveryInv, Online
  <2> QED BY <2>2, <2>3, <2>4, <2>5, <2>6
<1> QED BY <1>7, <1>8

(***************************************************************************)
(* No message falls between the history of a login and the live messages:   *)
(* for any number of users, connections and messages, and any interleaving   *)
(* of their handlers, a stored row has been sent to its reader, who is past   *)
(* its join, or the handler that stored it has still to come to this reader. *)
(***************************************************************************)
THEOREM MessagesDelivered ==
  ASSUME "relogin" \notin Env
  PROVE  Spec => []NoMessageMissed
<1>1. Init => DeliveryInv
  BY DEF Init, Fresh, DeliveryInv, Online
<1>2. /\ TypeInv /\ SessionInv /\ MessageInv /\ JoinInv
      /\ DeliveryInv /\ [Next]_vars
      => DeliveryInv'
  <2> SUFFICES ASSUME TypeInv, SessionInv, MessageInv, JoinInv, DeliveryInv, [Next]_vars
               PROVE  DeliveryInv'
    OBVIOUS
  <2>1. CASE CrashRestart
    BY <2>1 DEF CrashRestart, DeliveryInv, Online
  <2>2. CASE ~CrashRestart
    BY <2>2, PacketsStep, DeliveryStep DEF MessageInv, JoinInv
  <2> QED BY <2>1, <2>2
<1>3. DeliveryInv => NoMessageMissed
  BY DEF DeliveryInv, NoMessageMissed
<1> QED BY <1>1, <1>2, <1>3, JoinSafe, PTL DEF Spec
=============================================================================
