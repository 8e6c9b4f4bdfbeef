-------------------------- MODULE ChatServerProofs --------------------------
(***************************************************************************)
(* Theorems about ChatServer for every number of connections and users,    *)
(* every queue capacity and every number of requests: the registry first,   *)
(* then the messages - the lock, the identifiers and the rows of the table, *)
(* and from these that whatever a user has seen is stored.                   *)
(***************************************************************************)
EXTENDS ChatServerProperties, Integers, FiniteSetTheorems, TLAPS

USE UsersAssumption, ConnsAssumption, StampsAssumption, BoundsAssumption,
    EnvAssumption

-----------------------------------------------------------------------------
(* The strengthenings that make the properties inductive.                   *)

(* A handler is where its request and its session allow it to be. *)
PcInv ==
    \A c \in Conns :
      /\ pc[c] \in {"signup", "auth", "join"} => req[c] \in AuthRequest
      /\ pc[c] \in {"save", "saved", "cast"} => req[c] \in MessageRequest
      /\ pc[c] \in {"load", "hist", "join_peers", "join_note", "save", "saved",
                    "cast", "leave_peers", "leave_note"} => Authenticated(c)

(* The life of a session, seen from its connection: no name and no channel  *)
(* before the handshake; a name only from the registry; and a bound session *)
(* that the registry does not hold has been swept by Close, channel and all. *)
ConnInv(c) ==
    /\ pc[c] \in {"off", "handshake"} => ~Authenticated(c) /\ chan[c] = "none"
    /\ pc[c] \in {"signup", "auth", "join"} => ~Authenticated(c)
    /\ pc[c] = "join" => req[c].user \in accounts
    /\ ~Authenticated(c) /\ pc[c] \notin {"off", "handshake", "done"}
         => chan[c] = "open"
    /\ Bound(c) => \/ clients[username[c]] = c
                   \/ ctx /\ chan[c] = "closed"
    /\ Authenticated(c) /\ ~Bound(c) => chan[c] = "closed"

EntryInv(u) ==
    LET c == clients[u]
    IN  c # NoOne => /\ Bound(c)
                     /\ username[c] = u
                     /\ chan[c] = "open"
                     /\ u \in accounts

SessionInv ==
    Running => (\A c \in Conns : ConnInv(c)) /\ (\A u \in Users : EntryInv(u))

-----------------------------------------------------------------------------
(* What the helpers return.                                                 *)

(* A batch of copies of one packet is a sequence of packets, also when the  *)
(* channel has no room and the batch is empty.                               *)
LEMMA CopiesTyped ==
  ASSUME NEW P, NEW p \in P, NEW k \in Int
  PROVE  [i \in 1..k |-> p] \in Seq(P)
<1>1. CASE k >= 0
  BY <1>1
<1>2. CASE k < 0
  <2>1. 1..k = 1..0
    BY <1>2
  <2>2. [i \in 1..0 |-> p] \in Seq(P)
    OBVIOUS
  <2> QED BY <2>1, <2>2
<1> QED BY <1>1, <1>2

(* A send leaves the channels well typed: it appends packets, or the        *)
(* process dies.                                                            *)
LEMMA SendTyped ==
  ASSUME TypeOK, NEW p \in Packet, NEW n \in [Conns -> Nat],
         SendEncrypted(n, p)
  PROVE  /\ log' \in [Conns -> Seq(Packet)]
         /\ lossy' \in [Conns -> BOOLEAN]
         /\ proc' \in {"up", "closing", "closed", "exited", "panicked"}
<1>1. CASE \E d \in Conns : n[d] > 0 /\ chan[d] = "closed"
  BY <1>1 DEF SendEncrypted, TypeOK
<1>2. CASE ~ \E d \in Conns : n[d] > 0 /\ chan[d] = "closed"
  <2>1. ASSUME NEW d \in Conns
        PROVE  log[d] \o [i \in 1..SmallerOf(n[d], Room(d)) |-> p] \in Seq(Packet)
    <3>1. SmallerOf(n[d], Room(d)) \in Int
      BY DEF TypeOK, SmallerOf, Room
    <3>2. [i \in 1..SmallerOf(n[d], Room(d)) |-> p] \in Seq(Packet)
      BY <3>1, CopiesTyped
    <3>3. log[d] \in Seq(Packet)
      BY DEF TypeOK
    <3> QED BY <3>2, <3>3
  <2>2. log' \in [Conns -> Seq(Packet)]
    BY <1>2, <2>1 DEF SendEncrypted
  <2>3. ASSUME NEW d \in Conns
        PROVE  (lossy[d] \/ n[d] > Room(d)) \in BOOLEAN
    OBVIOUS
  <2>4. lossy' \in [Conns -> BOOLEAN]
    BY <1>2, <2>3 DEF SendEncrypted
  <2> QED BY <1>2, <2>2, <2>4 DEF SendEncrypted, TypeOK
<1> QED BY <1>1, <1>2

(* A packet for one connection: once for it, not at all for the others. *)
LEMMA OnlyTyped ==
  ASSUME NEW c
  PROVE  Only(c) \in [Conns -> Nat]
BY DEF Only

(* A broadcast counts, for every connection, the names it is entered under. *)
LEMMA EachClientTyped == EachClient \in [Conns -> Nat]
<1>1. ASSUME NEW d \in Conns
      PROVE  Cardinality(Entries(d)) \in Nat
  <2>1. Entries(d) \in SUBSET Users
    BY DEF Entries
  <2>2. IsFiniteSet(Entries(d))
    BY <2>1, FS_Subset
  <2> QED BY <2>2, FS_CardinalityType
<1> QED BY <1>1 DEF EachClient

(* Every entry of a peer list names a connection and the name bound to it.  *)
LEMMA SnapshotTyped ==
  ASSUME TypeOK
  PROVE  Snapshot \in SUBSET Peer
<1>1. ASSUME NEW u \in Online
      PROVE  [user |-> username[clients[u]], key |-> clients[u]] \in Peer
  <2>1. clients[u] \in Conns
    BY DEF Online, TypeOK
  <2>2. username[clients[u]] \in Users \cup {NoOne}
    BY <2>1 DEF TypeOK
  <2> QED BY <2>1, <2>2 DEF Peer
<1> QED BY <1>1 DEF Snapshot

(* A table that a message was inserted into is a table. *)
LEMMA InsertTyped ==
  ASSUME NEW t \in Table(Mids, Users, Stamps), NEW mid \in Mids,
         NEW from \in Users, NEW tos \in SUBSET Users, NEW at \in Stamps
  PROVE  Insert(t, mid, from, tos, at) \in Table(Mids, Users, Stamps)
<1> DEFINE row(u) == [id |-> t.seq + 1, mid |-> mid, from |-> from,
                      to |-> u, at |-> Datetime(at)]
<1> DEFINE new == {row(u) : u \in tos}
<1>1. t.seq + 1 \in Nat /\ t.rows \in SUBSET Row(Mids, Users, Stamps)
  BY DEF Table
<1>2. ASSUME NEW u \in tos PROVE row(u) \in Row(Mids, Users, Stamps)
  BY <1>1 DEF Row, Datetime
<1>3. new \in SUBSET Row(Mids, Users, Stamps)
  BY <1>2
<1>4. Insert(t, mid, from, tos, at) =
        [rows |-> {r \in t.rows : \A s \in new : ~SameKey(r, s)} \cup new,
         seq |-> t.seq + 1]
  BY DEF Insert
<1> HIDE DEF new
<1> QED BY <1>1, <1>3, <1>4 DEF Table

(* The history a login is sent consists of rows of its user's inbox. *)
LEMMA HistoryForInbox ==
  ASSUME NEW t, NEW u, NEW n
  PROVE  HistoryFor(t, u, n) \subseteq Inbox(t, u)
BY DEF HistoryFor, Oldest

-----------------------------------------------------------------------------
(* Type correctness.  It needs PcInv: a message is saved under the sender's *)
(* name, so the sender must have one; a login binds the user of a request   *)
(* that carries one.                                                        *)

TypeInv == TypeOK /\ PcInv

(* The variables start in their types. *)
LEMMA TypeInit == Init => TypeInv
<1> SUFFICES ASSUME Init PROVE TypeInv
  OBVIOUS
<1>1. EmptyTable \in Table(Mids, Users, Stamps)
  BY DEF EmptyTable, Table
<1>2. TypeOK
  <2>1. /\ req \in [Conns -> Request]
        /\ log \in [Conns -> Seq(Packet)]
    BY DEF Init, Fresh, Each, Request
  <2>2. /\ pc \in [Conns -> PcStates]
        /\ hist \in [Conns -> SUBSET HistoryRow]
        /\ rest \in [Conns -> SUBSET Users]
        /\ lossy \in [Conns -> BOOLEAN]
    BY DEF Init, Fresh, Each, PcStates
  <2>3. /\ reqs \in [Conns -> Nat]
        /\ username \in [Conns -> Users \cup {NoOne}]
        /\ chan \in [Conns -> {"none", "open", "closed"}]
        /\ taken \in [Conns -> Nat]
        /\ writing \in [Conns -> {"none", "run", "done"}]
        /\ sock \in [Conns -> {"none", "open", "gone", "shut"}]
        /\ clients \in [Users -> Conns \cup {NoOne}]
    BY DEF Init, Fresh, Each
  <2>4. /\ accounts \in SUBSET Users
        /\ db \in Table(Mids, Users, Stamps)
        /\ gone \in SUBSET HistoryRow
        /\ ctx \in BOOLEAN
        /\ proc \in {"up", "closing", "closed", "exited", "panicked"}
    BY <1>1 DEF Init, Fresh
  <2> QED BY <2>1, <2>2, <2>3, <2>4 DEF TypeOK
<1>3. PcInv
  BY DEF Init, Fresh, Each, PcInv
<1> QED BY <1>2, <1>3 DEF TypeInv

(* Reading a request keeps the types ... *)
LEMMA ReadStepsTyped ==
  ASSUME TypeInv, NEW c \in Conns, ReadSteps(c)
  PROVE  TypeInv'
<1> USE DEF TypeInv
<1>1. CASE Accept(c)
  BY <1>1 DEF Accept, TypeOK, PcInv, PcStates, Goto, Authenticated, session, store
<1>2. CASE Handshake(c)
  <2>1. [kind |-> "handshake_ok"] \in Packet
    BY DEF Packet
  <2>2. <<[kind |-> "handshake_ok"]>> \in Seq(Packet)
    BY <2>1
  <2> HIDE DEF TypeInv
  <2>3. log' \in [Conns -> Seq(Packet)]
    BY <1>2, <2>2 DEF Handshake, TypeInv, TypeOK
  <2>4. TypeOK'
    BY <1>2, <2>3 DEF Handshake, TypeInv, TypeOK, PcStates, Goto, store, world
  <2>5. PcInv'
    BY <1>2 DEF Handshake, TypeInv, TypeOK, PcInv, Goto, Authenticated
  <2> QED BY <2>4, <2>5 DEF TypeInv
<1>3. CASE HandshakeFails(c)
  BY <1>3 DEF HandshakeFails, Return, TypeOK, PcInv, PcStates, Goto,
              Authenticated, session, store
<1>4. CASE LoopTop(c)
  BY <1>4 DEF LoopTop, TypeOK, PcInv, PcStates, Goto, Authenticated, session,
              store, world
<1>5. ASSUME NEW r \in Request, ReadPacket(c, r)
      PROVE  TypeInv'
  <2>1. reqs[c] \in Nat
    BY DEF TypeOK
  <2>2. r \in Request
    BY <1>5
  <2>3. /\ r.type \in {"signup", "login"} => r \in AuthRequest
        /\ r.type = "message" => r \in MessageRequest
        /\ r.type \in {"signup", "login", "message", "other"}
    BY <2>2 DEF Request, AuthRequest, MessageRequest, NoRequest
  <2>4. /\ Dispatch(c, r) \in PcStates \cap {"signup", "auth", "save", "error"}
        /\ Dispatch(c, r) \in {"signup", "auth"} => r \in AuthRequest
        /\ Dispatch(c, r) = "save" => r \in MessageRequest /\ Authenticated(c)
    BY <2>3 DEF Dispatch, OnMessage, PcStates
  <2>5. TypeOK'
    BY <1>5, <2>1, <2>2, <2>4 DEF ReadPacket, TypeOK, Goto, session, store, world
  <2>6. PcInv'
    BY <1>5, <2>4 DEF ReadPacket, TypeOK, PcInv, Goto, Authenticated, session
  <2> QED BY <2>5, <2>6
<1>6. CASE ReadError(c)
  <2>1. /\ \E there \in {"leave", "done"} : pc' = [pc EXCEPT ![c] = there]
        /\ sock' \in {sock, [sock EXCEPT ![c] = "shut"]}
        /\ UNCHANGED <<req, reqs, hist, rest, session, log, lossy, clients,
                       store, ctx, proc>>
    BY <1>6 DEF ReadError, Return, Goto
  <2>2. pc' \in [Conns -> PcStates]
    BY <2>1 DEF TypeOK, PcStates
  <2>3. sock' \in [Conns -> {"none", "open", "gone", "shut"}]
    BY <2>1 DEF TypeOK
  <2>4. TypeOK'
    BY <2>1, <2>2, <2>3 DEF TypeOK, session, store
  <2>5. PcInv'
    BY <2>1 DEF TypeOK, PcInv, Authenticated, session
  <2> QED BY <2>4, <2>5
<1>7. CASE ReplyError(c)
  <2>1. [kind |-> "error"] \in Packet
    BY DEF Packet
  <2>2. SendEncrypted(Only(c), [kind |-> "error"])
    BY <1>7 DEF ReplyError
  <2>3. /\ log' \in [Conns -> Seq(Packet)]
        /\ lossy' \in [Conns -> BOOLEAN]
        /\ proc' \in {"up", "closing", "closed", "exited", "panicked"}
    BY <2>1, <2>2, OnlyTyped, SendTyped
  <2> QED BY <1>7, <2>3 DEF ReplyError, TypeOK, PcInv, PcStates, Goto,
                            Authenticated, session, store, world
<1> QED BY <1>1, <1>2, <1>3, <1>4, <1>5, <1>6, <1>7 DEF ReadSteps

(* ... and so does a log-in, as far as the announcement ... *)
LEMMA JoinStepsTyped ==
  ASSUME TypeInv, NEW c \in Conns, JoinSteps(c)
  PROVE  TypeInv'
<1> USE DEF TypeInv
<1>1. CASE \/ CreateUser(c) \/ SignupRefused(c) \/ AuthenticateUser(c)
           \/ AuthRefused(c) \/ DuplicateLogin(c)
  <2>1. accounts' \in SUBSET Users
    BY <1>1 DEF CreateUser, SignupRefused, AuthenticateUser, AuthRefused,
                DuplicateLogin, TypeOK, PcInv, AuthRequest, store
  <2>2. \E there \in {"auth", "error", "join"} :
          /\ pc' = [pc EXCEPT ![c] = there]
          /\ there # "error" => pc[c] \in {"signup", "auth"}
          /\ UNCHANGED <<req, reqs, hist, rest, session, log, lossy, clients,
                         db, gone, world, proc>>
    BY <1>1 DEF CreateUser, SignupRefused, AuthenticateUser, AuthRefused,
                DuplicateLogin, Goto, store
  <2>3. pc' \in [Conns -> PcStates]
    BY <2>2 DEF TypeOK, PcStates
  <2>4. TypeOK'
    BY <2>1, <2>2, <2>3 DEF TypeOK, session, world
  <2>5. PcInv'
    BY <2>2 DEF TypeOK, PcInv, Authenticated, session
  <2> QED BY <2>4, <2>5
<1>2. CASE FinishAuth(c)
  <2>1. req[c].user \in Users
    BY <1>2 DEF FinishAuth, PcInv, AuthRequest
  <2>2. [kind |-> "auth_ok", user |-> req[c].user] \in Packet
    BY <2>1 DEF Packet
  <2>3. SendEncrypted(Only(c), [kind |-> "auth_ok", user |-> req[c].user])
    BY <1>2 DEF FinishAuth
  <2>4. /\ log' \in [Conns -> Seq(Packet)]
        /\ lossy' \in [Conns -> BOOLEAN]
        /\ proc' \in {"up", "closing", "closed", "exited", "panicked"}
    BY <2>2, <2>3, OnlyTyped, SendTyped
  <2>5. /\ username' \in [Conns -> Users \cup {NoOne}]
        /\ clients' \in [Users -> Conns \cup {NoOne}]
        /\ pc' \in [Conns -> PcStates]
    BY <1>2, <2>1 DEF FinishAuth, TypeOK, Goto, PcStates
  <2>6. TypeOK'
    BY <1>2, <2>4, <2>5 DEF FinishAuth, TypeOK, store, world
  <2>7. PcInv'
    BY <1>2, <2>1 DEF FinishAuth, TypeOK, PcInv, Goto, Authenticated
  <2> QED BY <2>6, <2>7
<1>3. CASE LoadHistory(c)
  <2>1. HistoryOf(c) \subseteq db.rows
    BY HistoryForInbox DEF HistoryOf, Inbox
  <2>2. db.rows \in SUBSET HistoryRow
    BY DEF TypeOK, Table, HistoryRow
  <2>3. hist' \in [Conns -> SUBSET HistoryRow]
    BY <1>3, <2>1, <2>2 DEF LoadHistory, TypeOK
  <2>4. TypeOK'
    BY <1>3, <2>3 DEF LoadHistory, TypeOK, Goto, PcStates, session, store, world
  <2>5. PcInv'
    BY <1>3 DEF LoadHistory, TypeOK, PcInv, Goto, Authenticated, session
  <2> QED BY <2>4, <2>5
<1>4. CASE LoadHistoryFails(c)
  BY <1>4 DEF LoadHistoryFails, TypeOK, PcInv, PcStates, Goto, Authenticated,
              session, store, world
<1>5. CASE SendHistoryRow(c)
  <2>1. PICK row \in Earliest(hist[c]) :
          /\ SendEncrypted(Only(c), [kind |-> "history", row |-> row])
          /\ hist' = [hist EXCEPT ![c] = hist[c] \ {row}]
    BY <1>5 DEF SendHistoryRow
  <2>2. row \in HistoryRow
    BY <1>5 DEF TypeOK, Earliest
  <2>3. [kind |-> "history", row |-> row] \in Packet
    BY <2>2 DEF Packet
  <2>4. /\ log' \in [Conns -> Seq(Packet)]
        /\ lossy' \in [Conns -> BOOLEAN]
        /\ proc' \in {"up", "closing", "closed", "exited", "panicked"}
    BY <2>1, <2>3, OnlyTyped, SendTyped
  <2>5. hist' \in [Conns -> SUBSET HistoryRow]
    BY <2>1 DEF TypeOK
  <2>6. UNCHANGED <<pc, req, reqs, rest, session, clients, store, world>>
    BY <1>5 DEF SendHistoryRow
  <2> QED BY <2>4, <2>5, <2>6 DEF TypeOK, PcInv, Authenticated, session, store, world
<1>6. CASE SendPeers(c)
  <2>1. [kind |-> "peers", peers |-> Snapshot] \in Packet
    BY SnapshotTyped DEF Packet
  <2>2. SendEncrypted(Only(c), [kind |-> "peers", peers |-> Snapshot])
    BY <1>6 DEF SendPeers
  <2>3. /\ log' \in [Conns -> Seq(Packet)]
        /\ lossy' \in [Conns -> BOOLEAN]
        /\ proc' \in {"up", "closing", "closed", "exited", "panicked"}
    BY <2>1, <2>2, OnlyTyped, SendTyped
  <2> QED BY <1>6, <2>3 DEF SendPeers, TypeOK, PcInv, PcStates, Goto,
                            Authenticated, session, store, world
<1>7. CASE BroadcastPeers(c)
  <2>1. [kind |-> "peers", peers |-> Snapshot] \in Packet
    BY SnapshotTyped DEF Packet
  <2>2. SendEncrypted(EachClient, [kind |-> "peers", peers |-> Snapshot])
    BY <1>7 DEF BroadcastPeers
  <2>3. /\ log' \in [Conns -> Seq(Packet)]
        /\ lossy' \in [Conns -> BOOLEAN]
        /\ proc' \in {"up", "closing", "closed", "exited", "panicked"}
    BY <2>1, <2>2, EachClientTyped, SendTyped
  <2>4. \E there \in {"join_note", "leave_note"} : pc' = [pc EXCEPT ![c] = there]
    BY <1>7 DEF BroadcastPeers, Goto
  <2>5. Authenticated(c)
    BY <1>7 DEF BroadcastPeers, PcInv
  <2>6. UNCHANGED <<req, reqs, hist, rest, session, clients, store, world>>
    BY <1>7 DEF BroadcastPeers
  <2>7. TypeOK'
    BY <2>3, <2>4, <2>6 DEF TypeOK, PcStates, session, store, world
  <2>8. PcInv'
    BY <2>4, <2>5, <2>6 DEF TypeOK, PcInv, Authenticated, session
  <2> QED BY <2>7, <2>8
<1>8. CASE AnnounceJoin(c)
  <2>1. username[c] \in Users
    BY <1>8 DEF AnnounceJoin, PcInv, Authenticated, TypeOK
  <2>2. [kind |-> "joined", user |-> username[c]] \in Packet
    BY <2>1 DEF Packet
  <2>3. SendEncrypted(EachClient, [kind |-> "joined", user |-> username[c]])
    BY <1>8 DEF AnnounceJoin
  <2>4. /\ log' \in [Conns -> Seq(Packet)]
        /\ lossy' \in [Conns -> BOOLEAN]
        /\ proc' \in {"up", "closing", "closed", "exited", "panicked"}
    BY <2>2, <2>3, EachClientTyped, SendTyped
  <2> QED BY <1>8, <2>4 DEF AnnounceJoin, TypeOK, PcInv, PcStates, Goto,
                            Authenticated, session, store, world
<1> QED BY <1>1, <1>2, <1>3, <1>4, <1>5, <1>6, <1>7, <1>8 DEF JoinSteps

(* ... a message that is saved and broadcast ... *)
LEMMA MessageStepsTyped ==
  ASSUME TypeInv, NEW c \in Conns, MessageSteps(c)
  PROVE  TypeInv'
<1> USE DEF TypeInv
<1>1. CASE SaveMessageHistory(c)
  <2>1. username[c] \in Users /\ req[c] \in MessageRequest
    BY <1>1 DEF SaveMessageHistory, PcInv, Authenticated, TypeOK
  <2>2. /\ req[c].mid \in Mids
        /\ req[c].to \in SUBSET Users
        /\ req[c].at \in Stamps
    BY <2>1 DEF MessageRequest
  <2>3. db' \in Table(Mids, Users, Stamps)
    BY <1>1, <2>1, <2>2, InsertTyped DEF SaveMessageHistory, TypeOK
  <2>4. db.rows \in SUBSET HistoryRow
    BY DEF TypeOK, Table, HistoryRow
  <2>5. gone' \in SUBSET HistoryRow
    BY <1>1, <2>4 DEF SaveMessageHistory, TypeOK
  <2>6. TypeOK'
    BY <1>1, <2>3, <2>5 DEF SaveMessageHistory, TypeOK, Goto, PcStates, session, world
  <2>7. PcInv'
    BY <1>1 DEF SaveMessageHistory, TypeOK, PcInv, Goto, Authenticated, session
  <2> QED BY <2>6, <2>7
<1>2. CASE SaveFails(c)
  BY <1>2 DEF SaveFails, TypeOK, PcInv, PcStates, Goto, Authenticated, session,
              store, world
<1>3. CASE BeginBroadcast(c)
  <2>1. rest' \in [Conns -> SUBSET Users]
    BY <1>3 DEF BeginBroadcast, Online, TypeOK
  <2>2. TypeOK'
    BY <1>3, <2>1 DEF BeginBroadcast, TypeOK, Goto, PcStates, session, store, world
  <2>3. PcInv'
    BY <1>3 DEF BeginBroadcast, TypeOK, PcInv, Goto, Authenticated, session
  <2> QED BY <2>2, <2>3
<1>4. ASSUME NEW u \in Users, BroadcastTo(c, u)
      PROVE  TypeInv'
  <2> DEFINE p == [kind |-> "message", mid |-> req[c].mid,
                   from |-> username[c], to |-> u, at |-> req[c].at]
  <2>1. username[c] \in Users /\ req[c] \in MessageRequest
    BY <1>4 DEF BroadcastTo, PcInv, Authenticated, TypeOK
  <2>2. p \in Packet
    BY <2>1 DEF Packet, MessageRequest
  <2>3. SendEncrypted(Only(clients[u]), p)
    BY <1>4 DEF BroadcastTo
  <2> HIDE DEF p
  <2>4. /\ log' \in [Conns -> Seq(Packet)]
        /\ lossy' \in [Conns -> BOOLEAN]
        /\ proc' \in {"up", "closing", "closed", "exited", "panicked"}
    BY <2>2, <2>3, OnlyTyped, SendTyped
  <2>5. rest' \in [Conns -> SUBSET Users]
    BY <1>4 DEF BroadcastTo, TypeOK
  <2>6. UNCHANGED <<pc, req, reqs, hist, session, clients, store, world>>
    BY <1>4 DEF BroadcastTo
  <2> QED BY <2>4, <2>5, <2>6 DEF TypeOK, PcInv, Authenticated, session, store, world
<1>5. CASE EndBroadcast(c)
  BY <1>5 DEF EndBroadcast, TypeOK, PcInv, PcStates, Goto, Authenticated,
              session, store, world
<1> QED BY <1>1, <1>2, <1>3, <1>4, <1>5 DEF MessageSteps

(* ... a handler that leaves ... *)
LEMMA LeaveStepsTyped ==
  ASSUME TypeInv, NEW c \in Conns, LeaveSteps(c)
  PROVE  TypeInv'
<1> USE DEF TypeInv
<1>1. CASE Unregister(c)
  <2>1. Authenticated(c)
    BY <1>1 DEF Unregister, Current
  <2>2. /\ clients' \in [Users -> Conns \cup {NoOne}]
        /\ chan' \in [Conns -> {"none", "open", "closed"}]
        /\ proc' \in {"up", "closing", "closed", "exited", "panicked"}
        /\ pc' \in [Conns -> PcStates]
    BY <1>1 DEF Unregister, Removed, AfterUnregister, Goto, TypeOK, PcStates
  <2>3. TypeOK'
    BY <1>1, <2>2 DEF Unregister, TypeOK, store, world
  <2>4. PcInv'
    BY <1>1, <2>1 DEF Unregister, AfterUnregister, Goto, TypeOK, PcInv, Authenticated
  <2> QED BY <2>3, <2>4
<1>2. CASE UnregisterNothing(c)
  BY <1>2 DEF UnregisterNothing, Return, TypeOK, PcInv, PcStates, Goto,
              Authenticated, session, store
<1>3. CASE AnnounceLeave(c)
  <2>1. username[c] \in Users
    BY <1>3 DEF AnnounceLeave, PcInv, Authenticated, TypeOK
  <2>2. [kind |-> "left", user |-> username[c]] \in Packet
    BY <2>1 DEF Packet
  <2>3. SendEncrypted(EachClient, [kind |-> "left", user |-> username[c]])
    BY <1>3 DEF AnnounceLeave
  <2>4. /\ log' \in [Conns -> Seq(Packet)]
        /\ lossy' \in [Conns -> BOOLEAN]
        /\ proc' \in {"up", "closing", "closed", "exited", "panicked"}
    BY <2>2, <2>3, EachClientTyped, SendTyped
  <2> QED BY <1>3, <2>4 DEF AnnounceLeave, Return, TypeOK, PcInv, PcStates,
                            Goto, Authenticated, session, store
<1> QED BY <1>1, <1>2, <1>3 DEF LeaveSteps

(* ... a writer, a client that hangs up, Close, and a crash. *)
LEMMA OtherStepsTyped ==
  ASSUME TypeInv,
         \/ \E c \in Conns : WriterSteps(c) \/ HangUp(c)
         \/ ServerSteps
         \/ CrashRestart
  PROVE  TypeInv'
<1> USE DEF TypeInv
<1>1. ASSUME NEW c \in Conns, WriterSteps(c)
      PROVE  TypeInv'
  <2>1. /\ taken' \in [Conns -> Nat]
        /\ writing' \in [Conns -> {"none", "run", "done"}]
    <3>1. taken[c] + 1 \in Nat
      BY DEF TypeOK
    <3>2. CASE WriterSend(c)
      BY <3>1, <3>2 DEF WriterSend, TypeOK
    <3>3. CASE WriterFails(c)
      BY <3>1, <3>3 DEF WriterFails, TypeOK
    <3>4. CASE WriterEnds(c)
      BY <3>4 DEF WriterEnds, TypeOK
    <3> QED BY <1>1, <3>2, <3>3, <3>4 DEF WriterSteps
  <2>2. UNCHANGED <<handler, username, chan, log, lossy, clients, store,
                    world, proc>>
    BY <1>1 DEF WriterSteps, WriterSend, WriterFails, WriterEnds
  <2> QED BY <2>1, <2>2 DEF TypeOK, PcInv, Authenticated, handler, store, world
<1>2. ASSUME NEW c \in Conns, HangUp(c)
      PROVE  TypeInv'
  BY <1>2 DEF HangUp, TypeOK, PcInv, Authenticated, handler, session, store
<1>3. CASE Signal
  BY <1>3 DEF Signal, TypeOK, PcInv, Authenticated, handler, session, store
<1>4. CASE CloseClients
  <2>1. /\ chan' \in [Conns -> {"none", "open", "closed"}]
        /\ sock' \in [Conns -> {"none", "open", "gone", "shut"}]
        /\ clients' \in [Users -> Conns \cup {NoOne}]
        /\ proc' \in {"panicked", "closing"}
    BY <1>4 DEF CloseClients, TypeOK
  <2>2. UNCHANGED <<handler, username, writing, taken, log, lossy, store, ctx>>
    BY <1>4 DEF CloseClients
  <2> QED BY <2>1, <2>2 DEF TypeOK, PcInv, Authenticated, handler, store
<1>5. CASE CloseListener \/ Exit
  BY <1>5 DEF CloseListener, Exit, TypeOK, PcInv, Authenticated, handler,
              session, store, world
<1>6. CASE CrashRestart
  <2>1. /\ req' \in [Conns -> Request]
        /\ log' \in [Conns -> Seq(Packet)]
    BY <1>6 DEF CrashRestart, Each, Request
  <2>2. /\ pc' \in [Conns -> PcStates]
        /\ hist' \in [Conns -> SUBSET HistoryRow]
        /\ rest' \in [Conns -> SUBSET Users]
        /\ lossy' \in [Conns -> BOOLEAN]
    BY <1>6 DEF CrashRestart, Each, PcStates
  <2>3. /\ username' \in [Conns -> Users \cup {NoOne}]
        /\ chan' \in [Conns -> {"none", "open", "closed"}]
        /\ taken' \in [Conns -> Nat]
        /\ writing' \in [Conns -> {"none", "run", "done"}]
        /\ sock' \in [Conns -> {"none", "open", "gone", "shut"}]
        /\ clients' \in [Users -> Conns \cup {NoOne}]
    BY <1>6 DEF CrashRestart, Each
  <2>4. /\ UNCHANGED <<reqs, store>>
        /\ ctx' = FALSE
        /\ proc' = "up"
    BY <1>6 DEF CrashRestart
  <2>5. TypeOK'
    BY <2>1, <2>2, <2>3, <2>4 DEF TypeOK, store
  <2>6. PcInv'
    BY <1>6 DEF CrashRestart, Each, PcInv
  <2> QED BY <2>5, <2>6
<1> QED BY <1>1, <1>2, <1>3, <1>4, <1>5, <1>6 DEF ServerSteps

(* Every step keeps the types. *)
LEMMA TypeStep == TypeInv /\ [Next]_vars => TypeInv'
<1> SUFFICES ASSUME TypeInv, [Next]_vars PROVE TypeInv'
  OBVIOUS
<1>1. ASSUME NEW c \in Conns, ConnSteps(c)
      PROVE  TypeInv'
  BY <1>1, ReadStepsTyped, JoinStepsTyped, MessageStepsTyped, LeaveStepsTyped,
     OtherStepsTyped DEF ConnSteps
<1>2. CASE ServerSteps \/ CrashRestart
  BY <1>2, OtherStepsTyped
<1>3. CASE UNCHANGED vars
  BY <1>3 DEF TypeInv, TypeOK, PcInv, Authenticated, vars, handler, session,
              store, world
<1> QED BY <1>1, <1>2, <1>3 DEF Next, Stopped

(***************************************************************************)
(* Every variable keeps its type: whatever clients send and however the    *)
(* goroutines interleave, packets carry names of users and a message is    *)
(* saved under one.                                                         *)
(***************************************************************************)
THEOREM TypeCorrect == Spec => []TypeOK
<1>1. Init => TypeInv
  BY TypeInit
<1>2. TypeInv /\ [Next]_vars => TypeInv'
  BY TypeStep
<1>3. TypeInv => TypeOK
  BY DEF TypeInv
<1> QED BY <1>1, <1>2, <1>3, PTL DEF Spec

-----------------------------------------------------------------------------
(* The registry.  SessionInv is inductive as long as no connection logs in  *)
(* a second time.                                                           *)

(* A step of one handler that leaves names, channels and the registry alone *)
(* has only its own connection to answer for.                               *)
LEMMA HandlerMoves ==
  ASSUME TypeInv, SessionInv, Running, NEW c \in Conns, NEW there,
         pc' = [pc EXCEPT ![c] = there],
         UNCHANGED <<username, chan, clients, ctx>>,
         accounts \subseteq accounts',
         \A d \in Conns \ {c} : req'[d] = req[d],
         ConnInv(c)',
         \A u \in Users : clients[u] = c => Bound(c)'
  PROVE  SessionInv'
<1>1. ASSUME NEW d \in Conns
      PROVE  ConnInv(d)'
  <2>1. CASE d = c
    BY <2>1
  <2>2. CASE d # c
    <3>1. ConnInv(d)
      BY DEF SessionInv
    <3>2. pc'[d] = pc[d] /\ req'[d] = req[d]
      BY <2>2 DEF TypeInv, TypeOK
    <3> QED BY <3>1, <3>2 DEF ConnInv, Bound, Authenticated
  <2> QED BY <2>1, <2>2
<1>2. ASSUME NEW u \in Users
      PROVE  EntryInv(u)'
  <2>1. EntryInv(u)
    BY DEF SessionInv
  <2>2. CASE clients[u] = c
    BY <2>1, <2>2 DEF EntryInv
  <2>3. CASE clients[u] # c
    <3>1. clients[u] # NoOne => pc'[clients[u]] = pc[clients[u]]
      BY <2>3 DEF TypeInv, TypeOK
    <3> QED BY <2>1, <3>1 DEF EntryInv, Bound, Authenticated
  <2> QED BY <2>2, <2>3
<1> QED BY <1>1, <1>2 DEF SessionInv

(* A connection the registry does not know is nobody's entry. *)
LEMMA NotAnEntry ==
  ASSUME SessionInv, Running, NEW c \in Conns, ~Authenticated(c), NEW u \in Users
  PROVE  clients[u] # c
<1>1. EntryInv(u)
  BY DEF SessionInv
<1> QED BY <1>1 DEF EntryInv, Authenticated

(* The handler steps that move one program counter and send, read or save,  *)
(* but leave names, channels and registry alone.                            *)
LEMMA MovesKeepSession ==
  ASSUME "relogin" \notin Env, TypeInv, SessionInv, Running, Running',
         NEW c \in Conns,
         \/ HandshakeFails(c)
         \/ Accept(c)
         \/ LoopTop(c)
         \/ ReadError(c)
         \/ ReplyError(c)
         \/ CreateUser(c)
         \/ SignupRefused(c)
         \/ AuthenticateUser(c)
         \/ AuthRefused(c)
         \/ DuplicateLogin(c)
         \/ LoadHistory(c)
         \/ LoadHistoryFails(c)
         \/ SendPeers(c)
         \/ BroadcastPeers(c)
         \/ AnnounceJoin(c)
         \/ SaveMessageHistory(c)
         \/ SaveFails(c)
         \/ BeginBroadcast(c)
         \/ EndBroadcast(c)
         \/ AnnounceLeave(c)
  PROVE  SessionInv'
<1>0. ConnInv(c)
  BY DEF SessionInv
<1>1. CASE HandshakeFails(c)
  <2>1. PICK there : pc' = [pc EXCEPT ![c] = there]
    BY <1>1 DEF HandshakeFails, Goto, Return
  <2>2. /\ UNCHANGED <<username, chan, clients, ctx>>
        /\ accounts \subseteq accounts'
        /\ \A d \in Conns \ {c} : req'[d] = req[d]
    BY <1>1 DEF HandshakeFails, Return, TypeInv, TypeOK, session, store, world
  <2>3. ConnInv(c)' /\ (Bound(c) => Bound(c)')
    BY <1>0, <1>1, <2>2 DEF HandshakeFails, Goto, Return, ConnInv, Bound, Authenticated, TypeInv, TypeOK, PcInv,
        session, store, world
  <2> QED BY <2>1, <2>2, <2>3, HandlerMoves DEF EntryInv, SessionInv
<1>2. CASE Accept(c)
  <2>1. PICK there : pc' = [pc EXCEPT ![c] = there]
    BY <1>2 DEF Accept, Goto
  <2>2. /\ UNCHANGED <<username, chan, clients, ctx>>
        /\ accounts \subseteq accounts'
        /\ \A d \in Conns \ {c} : req'[d] = req[d]
    BY <1>2 DEF Accept, TypeInv, TypeOK, session, store, world
  <2>3. ConnInv(c)' /\ (Bound(c) => Bound(c)')
    BY <1>0, <1>2, <2>2 DEF Accept, Goto, ConnInv, Bound, Authenticated, TypeInv, TypeOK, PcInv,
        session, store, world
  <2> QED BY <2>1, <2>2, <2>3, HandlerMoves DEF EntryInv, SessionInv
<1>3. CASE LoopTop(c)
  <2>1. PICK there : pc' = [pc EXCEPT ![c] = there]
    BY <1>3 DEF LoopTop, Goto
  <2>2. /\ UNCHANGED <<username, chan, clients, ctx>>
        /\ accounts \subseteq accounts'
        /\ \A d \in Conns \ {c} : req'[d] = req[d]
    BY <1>3 DEF LoopTop, TypeInv, TypeOK, session, store, world
  <2>3. ConnInv(c)' /\ (Bound(c) => Bound(c)')
    BY <1>0, <1>3, <2>2 DEF LoopTop, Goto, ConnInv, Bound, Authenticated, TypeInv, TypeOK, PcInv,
        session, store, world
  <2> QED BY <2>1, <2>2, <2>3, HandlerMoves DEF EntryInv, SessionInv
<1>4. CASE ReadError(c)
  <2>1. PICK there : pc' = [pc EXCEPT ![c] = there]
    BY <1>4 DEF ReadError, Goto, OnReadError, Return
  <2>2. /\ UNCHANGED <<username, chan, clients, ctx>>
        /\ accounts \subseteq accounts'
        /\ \A d \in Conns \ {c} : req'[d] = req[d]
    BY <1>4 DEF ReadError, OnReadError, Return, TypeInv, TypeOK, session, store, world
  <2>3. ConnInv(c)' /\ (Bound(c) => Bound(c)')
    BY <1>0, <1>4, <2>2 DEF ReadError, Goto, OnReadError, Return, ConnInv, Bound, Authenticated, TypeInv, TypeOK, PcInv,
        session, store, world
  <2> QED BY <2>1, <2>2, <2>3, HandlerMoves DEF EntryInv, SessionInv
<1>5. CASE ReplyError(c)
  <2>1. PICK there : pc' = [pc EXCEPT ![c] = there]
    BY <1>5 DEF ReplyError, Goto
  <2>2. /\ UNCHANGED <<username, chan, clients, ctx>>
        /\ accounts \subseteq accounts'
        /\ \A d \in Conns \ {c} : req'[d] = req[d]
    BY <1>5 DEF ReplyError, TypeInv, TypeOK, session, store, world
  <2>3. ConnInv(c)' /\ (Bound(c) => Bound(c)')
    BY <1>0, <1>5, <2>2 DEF ReplyError, Goto, ConnInv, Bound, Authenticated, TypeInv, TypeOK, PcInv,
        session, store, world
  <2> QED BY <2>1, <2>2, <2>3, HandlerMoves DEF EntryInv, SessionInv
<1>6. CASE CreateUser(c)
  <2>1. PICK there : pc' = [pc EXCEPT ![c] = there]
    BY <1>6 DEF CreateUser, Goto
  <2>2. /\ UNCHANGED <<username, chan, clients, ctx>>
        /\ accounts \subseteq accounts'
        /\ \A d \in Conns \ {c} : req'[d] = req[d]
    BY <1>6 DEF CreateUser, TypeInv, TypeOK, session, store, world
  <2>3. ConnInv(c)' /\ (Bound(c) => Bound(c)')
    BY <1>0, <1>6, <2>2 DEF CreateUser, Goto, ConnInv, Bound, Authenticated, TypeInv, TypeOK, PcInv,
        session, store, world
  <2> QED BY <2>1, <2>2, <2>3, HandlerMoves DEF EntryInv, SessionInv
<1>7. CASE SignupRefused(c)
  <2>1. PICK there : pc' = [pc EXCEPT ![c] = there]
    BY <1>7 DEF SignupRefused, Goto
  <2>2. /\ UNCHANGED <<username, chan, clients, ctx>>
        /\ accounts \subseteq accounts'
        /\ \A d \in Conns \ {c} : req'[d] = req[d]
    BY <1>7 DEF SignupRefused, TypeInv, TypeOK, session, store, world
  <2>3. ConnInv(c)' /\ (Bound(c) => Bound(c)')
    BY <1>0, <1>7, <2>2 DEF SignupRefused, Goto, ConnInv, Bound, Authenticated, TypeInv, TypeOK, PcInv,
        session, store, world
  <2> QED BY <2>1, <2>2, <2>3, HandlerMoves DEF EntryInv, SessionInv
<1>8. CASE AuthenticateUser(c)
  <2>1. PICK there : pc' = [pc EXCEPT ![c] = there]
    BY <1>8 DEF AuthenticateUser, Goto
  <2>2. /\ UNCHANGED <<username, chan, clients, ctx>>
        /\ accounts \subseteq accounts'
        /\ \A d \in Conns \ {c} : req'[d] = req[d]
    BY <1>8 DEF AuthenticateUser, TypeInv, TypeOK, session, store, world
  <2>3. ConnInv(c)' /\ (Bound(c) => Bound(c)')
    BY <1>0, <1>8, <2>2 DEF AuthenticateUser, Goto, ConnInv, Bound, Authenticated, TypeInv, TypeOK, PcInv,
        session, store, world
  <2> QED BY <2>1, <2>2, <2>3, HandlerMoves DEF EntryInv, SessionInv
<1>9. CASE AuthRefused(c)
  <2>1. PICK there : pc' = [pc EXCEPT ![c] = there]
    BY <1>9 DEF AuthRefused, Goto
  <2>2. /\ UNCHANGED <<username, chan, clients, ctx>>
        /\ accounts \subseteq accounts'
        /\ \A d \in Conns \ {c} : req'[d] = req[d]
    BY <1>9 DEF AuthRefused, TypeInv, TypeOK, session, store, world
  <2>3. ConnInv(c)' /\ (Bound(c) => Bound(c)')
    BY <1>0, <1>9, <2>2 DEF AuthRefused, Goto, ConnInv, Bound, Authenticated, TypeInv, TypeOK, PcInv,
        session, store, world
  <2> QED BY <2>1, <2>2, <2>3, HandlerMoves DEF EntryInv, SessionInv
<1>10. CASE DuplicateLogin(c)
  <2>1. PICK there : pc' = [pc EXCEPT ![c] = there]
    BY <1>10 DEF DuplicateLogin, Goto
  <2>2. /\ UNCHANGED <<username, chan, clients, ctx>>
        /\ accounts \subseteq accounts'
        /\ \A d \in Conns \ {c} : req'[d] = req[d]
    BY <1>10 DEF DuplicateLogin, TypeInv, TypeOK, session, store, world
  <2>3. ConnInv(c)' /\ (Bound(c) => Bound(c)')
    BY <1>0, <1>10, <2>2 DEF DuplicateLogin, Goto, ConnInv, Bound, Authenticated, TypeInv, TypeOK, PcInv,
        session, store, world
  <2> QED BY <2>1, <2>2, <2>3, HandlerMoves DEF EntryInv, SessionInv
<1>11. CASE LoadHistory(c)
  <2>1. PICK there : pc' = [pc EXCEPT ![c] = there]
    BY <1>11 DEF LoadHistory, Goto
  <2>2. /\ UNCHANGED <<username, chan, clients, ctx>>
        /\ accounts \subseteq accounts'
        /\ \A d \in Conns \ {c} : req'[d] = req[d]
    BY <1>11 DEF LoadHistory, TypeInv, TypeOK, session, store, world
  <2>3. ConnInv(c)' /\ (Bound(c) => Bound(c)')
    BY <1>0, <1>11, <2>2 DEF LoadHistory, Goto, ConnInv, Bound, Authenticated, TypeInv, TypeOK, PcInv,
        session, store, world
  <2> QED BY <2>1, <2>2, <2>3, HandlerMoves DEF EntryInv, SessionInv
<1>12. CASE LoadHistoryFails(c)
  <2>1. PICK there : pc' = [pc EXCEPT ![c] = there]
    BY <1>12 DEF LoadHistoryFails, Goto
  <2>2. /\ UNCHANGED <<username, chan, clients, ctx>>
        /\ accounts \subseteq accounts'
        /\ \A d \in Conns \ {c} : req'[d] = req[d]
    BY <1>12 DEF LoadHistoryFails, TypeInv, TypeOK, session, store, world
  <2>3. ConnInv(c)' /\ (Bound(c) => Bound(c)')
    BY <1>0, <1>12, <2>2 DEF LoadHistoryFails, Goto, ConnInv, Bound, Authenticated, TypeInv, TypeOK, PcInv,
        session, store, world
  <2> QED BY <2>1, <2>2, <2>3, HandlerMoves DEF EntryInv, SessionInv
<1>13. CASE SendPeers(c)
  <2>1. PICK there : pc' = [pc EXCEPT ![c] = there]
    BY <1>13 DEF SendPeers, Goto
  <2>2. /\ UNCHANGED <<username, chan, clients, ctx>>
        /\ accounts \subseteq accounts'
        /\ \A d \in Conns \ {c} : req'[d] = req[d]
    BY <1>13 DEF SendPeers, TypeInv, TypeOK, session, store, world
  <2>3. ConnInv(c)' /\ (Bound(c) => Bound(c)')
    BY <1>0, <1>13, <2>2 DEF SendPeers, Goto, ConnInv, Bound, Authenticated, TypeInv, TypeOK, PcInv,
        session, store, world
  <2> QED BY <2>1, <2>2, <2>3, HandlerMoves DEF EntryInv, SessionInv
<1>14. CASE BroadcastPeers(c)
  <2>1. PICK there : pc' = [pc EXCEPT ![c] = there]
    BY <1>14 DEF BroadcastPeers, Goto
  <2>2. /\ UNCHANGED <<username, chan, clients, ctx>>
        /\ accounts \subseteq accounts'
        /\ \A d \in Conns \ {c} : req'[d] = req[d]
    BY <1>14 DEF BroadcastPeers, TypeInv, TypeOK, session, store, world
  <2>3. ConnInv(c)' /\ (Bound(c) => Bound(c)')
    BY <1>0, <1>14, <2>2 DEF BroadcastPeers, Goto, ConnInv, Bound, Authenticated, TypeInv, TypeOK, PcInv,
        session, store, world
  <2> QED BY <2>1, <2>2, <2>3, HandlerMoves DEF EntryInv, SessionInv
<1>15. CASE AnnounceJoin(c)
  <2>1. PICK there : pc' = [pc EXCEPT ![c] = there]
    BY <1>15 DEF AnnounceJoin, Goto
  <2>2. /\ UNCHANGED <<username, chan, clients, ctx>>
        /\ accounts \subseteq accounts'
        /\ \A d \in Conns \ {c} : req'[d] = req[d]
    BY <1>15 DEF AnnounceJoin, TypeInv, TypeOK, session, store, world
  <2>3. ConnInv(c)' /\ (Bound(c) => Bound(c)')
    BY <1>0, <1>15, <2>2 DEF AnnounceJoin, Goto, ConnInv, Bound, Authenticated, TypeInv, TypeOK, PcInv,
        session, store, world
  <2> QED BY <2>1, <2>2, <2>3, HandlerMoves DEF EntryInv, SessionInv
<1>16. CASE SaveMessageHistory(c)
  <2>1. PICK there : pc' = [pc EXCEPT ![c] = there]
    BY <1>16 DEF SaveMessageHistory, Goto
  <2>2. /\ UNCHANGED <<username, chan, clients, ctx>>
        /\ accounts \subseteq accounts'
        /\ \A d \in Conns \ {c} : req'[d] = req[d]
    BY <1>16 DEF SaveMessageHistory, TypeInv, TypeOK, session, store, world
  <2>3. ConnInv(c)' /\ (Bound(c) => Bound(c)')
    BY <1>0, <1>16, <2>2 DEF SaveMessageHistory, Goto, ConnInv, Bound, Authenticated, TypeInv, TypeOK, PcInv,
        session, store, world
  <2> QED BY <2>1, <2>2, <2>3, HandlerMoves DEF EntryInv, SessionInv
<1>17. CASE SaveFails(c)
  <2>1. PICK there : pc' = [pc EXCEPT ![c] = there]
    BY <1>17 DEF SaveFails, Goto
  <2>2. /\ UNCHANGED <<username, chan, clients, ctx>>
        /\ accounts \subseteq accounts'
        /\ \A d \in Conns \ {c} : req'[d] = req[d]
    BY <1>17 DEF SaveFails, TypeInv, TypeOK, session, store, world
  <2>3. ConnInv(c)' /\ (Bound(c) => Bound(c)')
    BY <1>0, <1>17, <2>2 DEF SaveFails, Goto, ConnInv, Bound, Authenticated, TypeInv, TypeOK, PcInv,
        session, store, world
  <2> QED BY <2>1, <2>2, <2>3, HandlerMoves DEF EntryInv, SessionInv
<1>18. CASE BeginBroadcast(c)
  <2>1. PICK there : pc' = [pc EXCEPT ![c] = there]
    BY <1>18 DEF BeginBroadcast, Goto
  <2>2. /\ UNCHANGED <<username, chan, clients, ctx>>
        /\ accounts \subseteq accounts'
        /\ \A d \in Conns \ {c} : req'[d] = req[d]
    BY <1>18 DEF BeginBroadcast, TypeInv, TypeOK, session, store, world
  <2>3. ConnInv(c)' /\ (Bound(c) => Bound(c)')
    BY <1>0, <1>18, <2>2 DEF BeginBroadcast, Goto, ConnInv, Bound, Authenticated, TypeInv, TypeOK, PcInv,
        session, store, world
  <2> QED BY <2>1, <2>2, <2>3, HandlerMoves DEF EntryInv, SessionInv
<1>19. CASE EndBroadcast(c)
  <2>1. PICK there : pc' = [pc EXCEPT ![c] = there]
    BY <1>19 DEF EndBroadcast, Goto
  <2>2. /\ UNCHANGED <<username, chan, clients, ctx>>
        /\ accounts \subseteq accounts'
        /\ \A d \in Conns \ {c} : req'[d] = req[d]
    BY <1>19 DEF EndBroadcast, TypeInv, TypeOK, session, store, world
  <2>3. ConnInv(c)' /\ (Bound(c) => Bound(c)')
    BY <1>0, <1>19, <2>2 DEF EndBroadcast, Goto, ConnInv, Bound, Authenticated, TypeInv, TypeOK, PcInv,
        session, store, world
  <2> QED BY <2>1, <2>2, <2>3, HandlerMoves DEF EntryInv, SessionInv
<1>20. CASE AnnounceLeave(c)
  <2>1. PICK there : pc' = [pc EXCEPT ![c] = there]
    BY <1>20 DEF AnnounceLeave, Goto, Return
  <2>2. /\ UNCHANGED <<username, chan, clients, ctx>>
        /\ accounts \subseteq accounts'
        /\ \A d \in Conns \ {c} : req'[d] = req[d]
    BY <1>20 DEF AnnounceLeave, Return, TypeInv, TypeOK, session, store, world
  <2>3. ConnInv(c)' /\ (Bound(c) => Bound(c)')
    BY <1>0, <1>20, <2>2 DEF AnnounceLeave, Goto, Return, ConnInv, Bound, Authenticated, TypeInv, TypeOK, PcInv,
        session, store, world
  <2> QED BY <2>1, <2>2, <2>3, HandlerMoves DEF EntryInv, SessionInv
<1> QED BY <1>1, <1>2, <1>3, <1>4, <1>5, <1>6, <1>7, <1>8, <1>9, <1>10, <1>11, <1>12, <1>13, <1>14, <1>15, <1>16, <1>17, <1>18, <1>19, <1>20

(* The channel is made before the connection can have a name. *)
LEMMA HandshakeKeepsSession ==
  ASSUME TypeInv, SessionInv, Running, NEW c \in Conns, Handshake(c)
  PROVE  SessionInv'
<1>1. UNCHANGED <<username, clients, accounts, ctx, req>>
  BY DEF Handshake, store, world
<1>2. ConnInv(c) /\ ~Authenticated(c)
  BY DEF SessionInv, ConnInv, Handshake
<1>3. ASSUME NEW d \in Conns
      PROVE  ConnInv(d)'
  <2>1. ConnInv(d)
    BY DEF SessionInv
  <2> QED BY <1>1, <1>2, <2>1 DEF Handshake, Goto, TypeInv, TypeOK, ConnInv, Bound,
             Authenticated
<1>4. ASSUME NEW u \in Users
      PROVE  EntryInv(u)'
  <2>1. EntryInv(u) /\ clients[u] # c
    BY <1>2, NotAnEntry DEF SessionInv
  <2>2. clients[u] # NoOne => /\ pc'[clients[u]] = pc[clients[u]]
                             /\ chan'[clients[u]] = chan[clients[u]]
    BY <2>1 DEF Handshake, Goto, TypeInv, TypeOK
  <2> QED BY <1>1, <2>1, <2>2 DEF EntryInv, Bound, Authenticated
<1> QED BY <1>3, <1>4 DEF SessionInv

(* Without "relogin" an authentication request comes from a nameless        *)
(* connection.                                                              *)
LEMMA ReadPacketKeepsSession ==
  ASSUME "relogin" \notin Env, TypeInv, SessionInv, Running,
         NEW c \in Conns, NEW r \in Request, ReadPacket(c, r)
  PROVE  SessionInv'
<1>1. r.type \in {"signup", "login", "message", "other"}
  BY DEF Request, AuthRequest, MessageRequest, NoRequest
<1>2. /\ Dispatch(c, r) \in {"signup", "auth", "save", "error"}
      /\ Dispatch(c, r) \in {"signup", "auth"} => r.type \in {"signup", "login"}
      /\ Dispatch(c, r) = "save" => Authenticated(c)
  BY <1>1 DEF Dispatch, OnMessage
<1>3. Dispatch(c, r) \in {"signup", "auth"} => ~Authenticated(c)
  BY <1>2 DEF ReadPacket
<1>4. /\ pc' = [pc EXCEPT ![c] = Dispatch(c, r)]
      /\ UNCHANGED <<username, chan, clients, ctx, accounts>>
      /\ \A d \in Conns \ {c} : req'[d] = req[d]
  BY DEF ReadPacket, Goto, session, store, world, TypeInv, TypeOK
<1>5. ConnInv(c) /\ pc[c] = "read"
  BY DEF SessionInv, ReadPacket
<1>6. pc'[c] = Dispatch(c, r)
  BY <1>4 DEF TypeInv, TypeOK
<1>7. ConnInv(c)'
  BY <1>2, <1>3, <1>4, <1>5, <1>6 DEF ConnInv, Bound, Authenticated
<1>8. ASSUME NEW u \in Users, clients[u] = c
      PROVE  Bound(c)'
  <2>1. Authenticated(c)
    BY <1>8, NotAnEntry
  <2> QED BY <1>2, <1>3, <1>4, <1>6, <2>1 DEF Bound, Authenticated
<1> QED BY <1>4, <1>7, <1>8, HandlerMoves

(* The name is free and the connection has none: one new, sound entry.      *)
LEMMA FinishAuthKeepsSession ==
  ASSUME TypeInv, SessionInv, Running, Running', NEW c \in Conns, FinishAuth(c)
  PROVE  SessionInv'
<1> DEFINE name == req[c].user
<1>1. /\ pc[c] = "join" /\ clients[name] = NoOne
      /\ pc' = [pc EXCEPT ![c] = "load"]
      /\ username' = [username EXCEPT ![c] = name]
      /\ clients' = [clients EXCEPT ![name] = c]
      /\ UNCHANGED <<chan, accounts, ctx, req>>
  BY DEF FinishAuth, Taken, Goto, store, world
<1>2. name \in Users
  BY <1>1 DEF TypeInv, PcInv, AuthRequest
<1>3. ConnInv(c) /\ ~Authenticated(c) /\ name \in accounts /\ chan[c] = "open"
  BY <1>1 DEF SessionInv, ConnInv
<1> HIDE DEF name
<1>4. /\ pc'[c] = "load" /\ username'[c] = name /\ clients'[name] = c
      /\ \A d \in Conns \ {c} : pc'[d] = pc[d] /\ username'[d] = username[d]
      /\ \A u \in Users \ {name} : clients'[u] = clients[u]
  BY <1>1, <1>2 DEF TypeInv, TypeOK
<1>5. ASSUME NEW d \in Conns
      PROVE  ConnInv(d)'
  <2>1. CASE d = c
    BY <1>1, <1>2, <1>3, <1>4, <2>1 DEF ConnInv, Bound, Authenticated
  <2>2. CASE d # c
    <3>1. ConnInv(d)
      BY DEF SessionInv
    <3>2. Authenticated(d) => username[d] \in Users
      BY DEF Authenticated, TypeInv, TypeOK
    <3> QED BY <1>1, <1>4, <2>2, <3>1, <3>2 DEF ConnInv, Bound, Authenticated
  <2> QED BY <2>1, <2>2
<1>6. ASSUME NEW u \in Users
      PROVE  EntryInv(u)'
  <2>1. CASE u = name
    BY <1>1, <1>2, <1>3, <1>4, <2>1 DEF EntryInv, Bound, Authenticated
  <2>2. CASE u # name
    <3>1. EntryInv(u) /\ clients[u] # c
      BY <1>3, NotAnEntry DEF SessionInv
    <3>2. clients[u] \in Conns \cup {NoOne}
      BY DEF TypeInv, TypeOK
    <3> QED BY <1>1, <1>4, <2>2, <3>1, <3>2 DEF EntryInv, Bound, Authenticated
  <2> QED BY <2>1, <2>2
<1> QED BY <1>5, <1>6 DEF SessionInv

(* One entry and one channel go together. *)
LEMMA UnregisterKeepsSession ==
  ASSUME TypeInv, SessionInv, Running, NEW c \in Conns, Unregister(c)
  PROVE  SessionInv'
<1> DEFINE name == username[c]
<1>1. /\ clients[name] = c
      /\ pc' = [pc EXCEPT ![c] = "leave_peers"]
      /\ chan' = [chan EXCEPT ![c] = "closed"]
      /\ clients' = [clients EXCEPT ![name] = NoOne]
      /\ UNCHANGED <<username, accounts, ctx, req>>
  BY DEF Unregister, Current, Removed, AfterUnregister, Goto, store, world
<1>2. name \in Users /\ Authenticated(c)
  BY DEF Unregister, Current, Authenticated, TypeInv, TypeOK
<1> HIDE DEF name
<1>3. /\ pc'[c] = "leave_peers" /\ chan'[c] = "closed" /\ clients'[name] = NoOne
      /\ \A d \in Conns \ {c} : pc'[d] = pc[d] /\ chan'[d] = chan[d]
      /\ \A u \in Users \ {name} : clients'[u] = clients[u]
  BY <1>1, <1>2 DEF TypeInv, TypeOK
<1>4. ASSUME NEW d \in Conns
      PROVE  ConnInv(d)'
  <2>1. CASE d = c
    BY <1>1, <1>2, <1>3, <2>1 DEF ConnInv, Bound, Authenticated
  <2>2. CASE d # c
    <3>1. ConnInv(d)
      BY DEF SessionInv
    <3>2. Authenticated(d) => username[d] \in Users
      BY DEF Authenticated, TypeInv, TypeOK
    <3> QED BY <1>1, <1>3, <2>2, <3>1, <3>2 DEF ConnInv, Bound, Authenticated
  <2> QED BY <2>1, <2>2
<1>5. ASSUME NEW u \in Users
      PROVE  EntryInv(u)'
  <2>1. CASE u = name
    BY <1>3, <2>1 DEF EntryInv
  <2>2. CASE u # name
    <3>1. EntryInv(u)
      BY DEF SessionInv
    <3>2. clients[u] # c
      BY <1>2, <2>2, <3>1 DEF EntryInv, Authenticated, name
    <3>3. clients[u] \in Conns \cup {NoOne}
      BY DEF TypeInv, TypeOK
    <3> QED BY <1>1, <1>3, <2>2, <3>1, <3>2, <3>3 DEF EntryInv, Bound, Authenticated
  <2> QED BY <2>1, <2>2
<1> QED BY <1>4, <1>5 DEF SessionInv

(* A bound session that finds itself forgotten was swept by Close. *)
LEMMA UnregisterNothingKeepsSession ==
  ASSUME TypeInv, SessionInv, Running, NEW c \in Conns, UnregisterNothing(c)
  PROVE  SessionInv'
<1>1. /\ pc[c] = "leave"
      /\ pc' = [pc EXCEPT ![c] = "done"]
      /\ UNCHANGED <<username, chan, clients, ctx, accounts, req>>
  BY DEF UnregisterNothing, Return, Goto, session, store
<1>2. Authenticated(c) => clients[username[c]] # c
  BY DEF UnregisterNothing, Current
<1>3. ConnInv(c)
  BY DEF SessionInv
<1>4. ConnInv(c)'
  BY <1>1, <1>2, <1>3 DEF ConnInv, Bound, Authenticated, TypeInv, TypeOK
<1>5. ASSUME NEW u \in Users
      PROVE  clients[u] # c
  <2>1. EntryInv(u)
    BY DEF SessionInv
  <2> QED BY <1>2, <2>1 DEF EntryInv, Bound
<1> QED BY <1>1, <1>4, <1>5, HandlerMoves

(* Close empties the registry and closes exactly the channels it held.      *)
LEMMA CloseClientsKeepsSession ==
  ASSUME TypeInv, SessionInv, Running, CloseClients
  PROVE  SessionInv'
<1>1. /\ ctx /\ ctx' /\ UNCHANGED <<pc, req, username, accounts>>
      /\ clients' = [u \in Users |-> NoOne]
      /\ chan' = [c \in Conns |-> IF Entries(c) # {} THEN "closed" ELSE chan[c]]
  BY DEF CloseClients, handler, store
<1>2. ASSUME NEW c \in Conns
      PROVE  ConnInv(c)'
  <2>1. ConnInv(c)
    BY DEF SessionInv
  <2>2. chan'[c] = IF Entries(c) # {} THEN "closed" ELSE chan[c]
    BY <1>1
  <2>3. ASSUME ~Authenticated(c) PROVE Entries(c) = {}
    BY <2>3, NotAnEntry DEF Entries
  <2>4. Authenticated(c) => username[c] \in Users
    BY DEF Authenticated, TypeInv, TypeOK
  <2>5. ASSUME Bound(c), clients[username[c]] = c PROVE Entries(c) # {}
    BY <2>4, <2>5 DEF Entries, Bound
  <2> QED BY <1>1, <2>1, <2>2, <2>3, <2>4, <2>5 DEF ConnInv, Bound, Authenticated
<1>3. ASSUME NEW u \in Users
      PROVE  EntryInv(u)'
  BY <1>1 DEF EntryInv
<1> QED BY <1>2, <1>3 DEF SessionInv

(* Everything else leaves the handlers and the registry as they are, or     *)
(* starts over.                                                             *)
LEMMA QuietKeepsSession ==
  ASSUME SessionInv, Running, UNCHANGED <<pc, req, username, chan, clients, accounts>>,
         ctx => ctx'
  PROVE  SessionInv'
<1>1. ASSUME NEW c \in Conns
      PROVE  ConnInv(c)'
  <2>1. ConnInv(c)
    BY DEF SessionInv
  <2> QED BY <2>1 DEF ConnInv, Bound, Authenticated
<1>2. ASSUME NEW u \in Users
      PROVE  EntryInv(u)'
  <2>1. EntryInv(u)
    BY DEF SessionInv
  <2> QED BY <2>1 DEF EntryInv, Bound, Authenticated
<1> QED BY <1>1, <1>2 DEF SessionInv

(* Before the first connection there is no session and no entry. *)
LEMMA SessionInit == Init => SessionInv
BY DEF Init, Fresh, Each, SessionInv, ConnInv, EntryInv, Bound, Authenticated

(* A restart begins again without sessions. *)
LEMMA RestartKeepsSession == CrashRestart => SessionInv'
BY DEF CrashRestart, Each, SessionInv, ConnInv, EntryInv, Bound, Authenticated

(* Without a second log-in, every step keeps registry and sessions together. *)
LEMMA SessionStep ==
  ASSUME "relogin" \notin Env, TypeInv, SessionInv, [Next]_vars
  PROVE  SessionInv'
<1>1. CASE CrashRestart
  BY <1>1, RestartKeepsSession
<1>2. CASE ~Running'
  BY <1>2 DEF SessionInv
<1>3. CASE UNCHANGED vars
  BY <1>3 DEF SessionInv, ConnInv, EntryInv, Bound, Authenticated, Running, vars,
              handler, session, store, world
<1>4. ASSUME Running, Running', NEW c \in Conns, ConnSteps(c)
      PROVE  SessionInv'
  <2> USE <1>4
  <2>1. CASE ReadSteps(c)
    BY <2>1, MovesKeepSession, HandshakeKeepsSession, ReadPacketKeepsSession
       DEF ReadSteps
  <2>2. CASE SendHistoryRow(c) \/ \E u \in Users : BroadcastTo(c, u)
    <3>1. UNCHANGED <<pc, req, session, clients, store, world>>
      BY <2>2 DEF SendHistoryRow, BroadcastTo
    <3> QED BY <3>1, QuietKeepsSession DEF session, store, world
  <2>3. CASE JoinSteps(c)
    BY <2>2, <2>3, MovesKeepSession, FinishAuthKeepsSession DEF JoinSteps
  <2>4. CASE MessageSteps(c)
    BY <2>2, <2>4, MovesKeepSession DEF MessageSteps
  <2>5. CASE LeaveSteps(c)
    BY <2>5, MovesKeepSession, UnregisterKeepsSession, UnregisterNothingKeepsSession
       DEF LeaveSteps
  <2>6. CASE WriterSteps(c) \/ HangUp(c)
    <3>1. UNCHANGED <<handler, username, chan, clients, store, ctx>>
      BY <2>6 DEF WriterSteps, WriterSend, WriterFails, WriterEnds, HangUp,
         session, world
    <3> QED BY <3>1, QuietKeepsSession DEF handler, store
  <2> QED BY <2>1, <2>3, <2>4, <2>5, <2>6 DEF ConnSteps
<1>5. ASSUME Running, ServerSteps
      PROVE  SessionInv'
  <2>1. CASE CloseClients
    BY <1>5, <2>1, CloseClientsKeepsSession
  <2>2. CASE Signal \/ CloseListener \/ Exit
    BY <1>5, <2>2, QuietKeepsSession DEF Signal, CloseListener, Exit, handler,
       session, store, world
  <2> QED BY <1>5, <2>1, <2>2 DEF ServerSteps
<1> QED BY <1>1, <1>2, <1>3, <1>4, <1>5 DEF Next, Stopped

(* Registry and sessions agree in every reachable state. *)
LEMMA SessionSafe ==
  ASSUME "relogin" \notin Env
  PROVE  Spec => [](TypeInv /\ SessionInv)
<1>1. Init => TypeInv /\ SessionInv
  BY TypeInit, SessionInit
<1>2. TypeInv /\ SessionInv /\ [Next]_vars => (TypeInv /\ SessionInv)'
  BY TypeStep, SessionStep
<1> QED BY <1>1, <1>2, PTL DEF Spec

(***************************************************************************)
(* The registry and the sessions agree, for any number of connections and  *)
(* users and in any environment without a second login on one connection:   *)
(* one session per name, its channel open, its account real; and no bound   *)
(* session is unknown unless the server is shutting down.                   *)
(***************************************************************************)
THEOREM RegistrySafe ==
  ASSUME "relogin" \notin Env
  PROVE  Spec => []RegistryMatchesSessions
<1>1. TypeInv /\ SessionInv => RegistryMatchesSessions
  BY DEF TypeInv, TypeOK, SessionInv, ConnInv, EntryInv, RegistryMatchesSessions, Online
<1> QED BY <1>1, SessionSafe, PTL

(***************************************************************************)
(* A session that was ever registered ends with its channel closed, so its *)
(* writer goroutine ends too: by its own unregister or by Close, whichever  *)
(* came first.                                                              *)
(***************************************************************************)
THEOREM WritersReleased ==
  ASSUME "relogin" \notin Env
  PROVE  Spec => []WriterReleased
<1>1. SessionInv => WriterReleased
  BY DEF SessionInv, ConnInv, Bound, WriterReleased
<1> QED BY <1>1, SessionSafe, PTL

-----------------------------------------------------------------------------
(* No panic, when nobody signals and nobody logs in twice.                  *)

CalmInv == ctx = FALSE /\ proc = "up"

(* A send to open channels does not panic. *)
LEMMA SendSafe ==
  ASSUME NEW n, NEW p, SendEncrypted(n, p),
         \A d \in Conns : n[d] > 0 => chan[d] = "open"
  PROVE  proc' = proc
BY DEF SendEncrypted

(* An entry of the registry leads to an open channel. *)
LEMMA EntryOpen ==
  ASSUME TypeInv, SessionInv, Running, NEW u \in Users, clients[u] # NoOne
  PROVE  clients[u] \in Conns /\ chan[clients[u]] = "open"
<1>1. EntryInv(u)
  BY DEF SessionInv
<1> QED BY <1>1 DEF EntryInv, TypeInv, TypeOK

(* Before a shutdown, the handler of a live session owns an open channel.   *)
LEMMA OwnOpen ==
  ASSUME TypeInv, SessionInv, CalmInv, NEW c \in Conns,
         pc[c] \in {"join", "hist", "error"}
  PROVE  chan[c] = "open"
<1>1. Running /\ ConnInv(c)
  BY DEF CalmInv, Running, SessionInv
<1>2. CASE ~Authenticated(c)
  BY <1>1, <1>2 DEF ConnInv
<1>3. CASE Authenticated(c)
  <2>1. Bound(c)
    BY <1>1, <1>3 DEF ConnInv, Bound
  <2>2. clients[username[c]] = c
    BY <1>1, <2>1 DEF ConnInv, CalmInv
  <2>3. username[c] \in Users
    BY <1>3 DEF Authenticated, TypeInv, TypeOK
  <2> QED BY <1>1, <2>2, <2>3, EntryOpen
<1> QED BY <1>2, <1>3

(* Every client a broadcast reaches is in the registry. *)
LEMMA EachClientOpen ==
  ASSUME TypeInv, SessionInv, Running, NEW d \in Conns, EachClient[d] > 0
  PROVE  chan[d] = "open"
<1>1. Entries(d) # {}
  <2>1. ASSUME Entries(d) = {} PROVE FALSE
    <3>1. Cardinality(Entries(d)) = 0
      BY <2>1, FS_EmptySet
    <3> QED BY <3>1 DEF EachClient
  <2> QED BY <2>1
<1>2. PICK u \in Users : clients[u] = d
  BY <1>1 DEF Entries
<1> QED BY <1>2, EntryOpen

(* Until the signal comes, no step of a connection makes the process panic. *)
LEMMA ConnStepsCalm ==
  ASSUME TypeInv, SessionInv, CalmInv, NEW c \in Conns, ConnSteps(c)
  PROVE  CalmInv'
<1>1. Running
  BY DEF CalmInv, Running
<1>2. ctx' = ctx
  BY DEF ConnSteps, ReadSteps, JoinSteps, MessageSteps, LeaveSteps, WriterSteps,
     Accept, Handshake, HandshakeFails, LoopTop, ReadPacket, ReadError, ReplyError,
     CreateUser, SignupRefused, AuthenticateUser, AuthRefused, DuplicateLogin,
     FinishAuth, LoadHistory, LoadHistoryFails, SendHistoryRow, SendPeers,
     BroadcastPeers, AnnounceJoin, SaveMessageHistory, SaveFails, BeginBroadcast,
     BroadcastTo, EndBroadcast, Unregister, UnregisterNothing, AnnounceLeave,
     WriterSend, WriterFails, WriterEnds, HangUp, world
<1>3. CASE ReplyError(c) \/ FinishAuth(c) \/ SendHistoryRow(c) \/ SendPeers(c)
  <2>1. pc[c] \in {"join", "hist", "error"}
    BY <1>3 DEF ReplyError, FinishAuth, SendHistoryRow, SendPeers
  <2>2. \A d \in Conns : Only(c)[d] > 0 => chan[d] = "open"
    BY <2>1, OwnOpen DEF Only
  <2>3. \E p : SendEncrypted(Only(c), p)
    BY <1>3 DEF ReplyError, FinishAuth, SendHistoryRow, SendPeers
  <2> QED BY <1>2, <2>2, <2>3, SendSafe DEF CalmInv
<1>4. CASE BroadcastPeers(c) \/ AnnounceJoin(c) \/ AnnounceLeave(c)
  <2>1. \E p : SendEncrypted(EachClient, p)
    BY <1>4 DEF BroadcastPeers, AnnounceJoin, AnnounceLeave
  <2> QED BY <1>1, <1>2, <2>1, EachClientOpen, SendSafe DEF CalmInv
<1>5. ASSUME NEW u \in Users, BroadcastTo(c, u)
      PROVE  CalmInv'
  <2>1. \A d \in Conns : Only(clients[u])[d] > 0 => chan[d] = "open"
    BY <1>1, EntryOpen DEF Only
  <2>2. \E p : SendEncrypted(Only(clients[u]), p)
    BY <1>5 DEF BroadcastTo
  <2> QED BY <1>2, <2>1, <2>2, SendSafe DEF CalmInv
<1>6. CASE Unregister(c)
  <2>1. username[c] \in Users /\ clients[username[c]] = c
    BY <1>6 DEF Unregister, Current, Authenticated, TypeInv, TypeOK
  <2>2. chan[c] = "open"
    BY <1>1, <2>1, EntryOpen
  <2> QED BY <1>2, <1>6, <2>2 DEF Unregister, CalmInv
<1>7. CASE proc' = proc
  BY <1>2, <1>7 DEF CalmInv
<1>8. \/ proc' = proc
      \/ ReplyError(c) \/ FinishAuth(c) \/ SendHistoryRow(c) \/ SendPeers(c)
      \/ BroadcastPeers(c) \/ AnnounceJoin(c) \/ AnnounceLeave(c) \/ Unregister(c)
      \/ \E u \in Users : BroadcastTo(c, u)
  BY DEF ConnSteps, ReadSteps, JoinSteps, MessageSteps, LeaveSteps, WriterSteps,
     Accept, Handshake, HandshakeFails, LoopTop, ReadPacket, ReadError,
     CreateUser, SignupRefused, AuthenticateUser, AuthRefused, DuplicateLogin,
     LoadHistory, LoadHistoryFails, SaveMessageHistory, SaveFails, BeginBroadcast,
     EndBroadcast, UnregisterNothing, WriterSend, WriterFails, WriterEnds, HangUp
<1> QED BY <1>3, <1>4, <1>5, <1>6, <1>7, <1>8

(***************************************************************************)
(* Until somebody asks the server to stop, no client and no interleaving of *)
(* clients can make a handler send on a closed channel or close one twice:  *)
(* whoever is in the registry has an open channel, and whoever answers its  *)
(* own client has not closed it yet.                                        *)
(***************************************************************************)
THEOREM PanicFree ==
  ASSUME "relogin" \notin Env, "signal" \notin Env
  PROVE  Spec => []NoPanic
<1>1. Init => CalmInv
  BY DEF Init, Fresh, CalmInv
<1>2. TypeInv /\ SessionInv /\ CalmInv /\ [Next]_vars => CalmInv'
  <2> SUFFICES ASSUME TypeInv, SessionInv, CalmInv, [Next]_vars PROVE CalmInv'
    OBVIOUS
  <2>1. CASE \E c \in Conns : ConnSteps(c)
    BY <2>1, ConnStepsCalm
  <2>2. CASE ServerSteps
    BY <2>2 DEF ServerSteps, Signal, CloseClients, CloseListener, Exit, CalmInv
  <2>3. CASE CrashRestart
    BY <2>3 DEF CrashRestart, CalmInv
  <2>4. CASE UNCHANGED vars
    BY <2>4 DEF vars, world, CalmInv
  <2> QED BY <2>1, <2>2, <2>3, <2>4 DEF Next, Stopped
<1>3. CalmInv => NoPanic
  BY DEF CalmInv, NoPanic
<1> QED BY <1>1, <1>2, <1>3, SessionSafe, PTL DEF Spec

-----------------------------------------------------------------------------
(***************************************************************************)
(* Nobody but its own session, the shutdown or the end of the process takes *)
(* an entry out of the registry, in every environment: FinishAuth overwrites *)
(* no entry and unregister removes none but its own.                         *)
(***************************************************************************)
THEOREM OwnersLeave == Spec => OwnerLeaves
<1>1. TypeInv /\ [Next]_vars => [OwnerStep]_vars
  <2> SUFFICES ASSUME TypeInv, Next, NEW u \in Online, clients'[u] # clients[u]
               PROVE  \/ pc[clients[u]] = "leave" /\ pc'[clients[u]] = "leave_peers"
                      \/ proc = "up" /\ ctx /\ proc' # "up"
                      \/ pc'[clients[u]] = "off"
    BY DEF OwnerStep
  <2>1. u \in Users /\ clients[u] \in Conns
    BY DEF Online, TypeInv, TypeOK
  <2>2. \/ \E c \in Conns : FinishAuth(c) \/ Unregister(c)
        \/ CloseClients
        \/ CrashRestart
    BY DEF Next, ConnSteps, ReadSteps, JoinSteps, MessageSteps, LeaveSteps,
       WriterSteps, Accept, Handshake, HandshakeFails, LoopTop, ReadPacket,
       ReadError, ReplyError, CreateUser, SignupRefused, AuthenticateUser,
       AuthRefused, DuplicateLogin, LoadHistory, LoadHistoryFails, SendHistoryRow,
       SendPeers, BroadcastPeers, AnnounceJoin, SaveMessageHistory, SaveFails,
       BeginBroadcast, BroadcastTo, EndBroadcast, UnregisterNothing, AnnounceLeave,
       WriterSend, WriterFails, WriterEnds, HangUp, ServerSteps, Signal,
       CloseListener, Exit, Stopped, vars
  <2>3. ASSUME NEW c \in Conns, FinishAuth(c)
        PROVE  FALSE
    BY <2>1, <2>3 DEF FinishAuth, Taken, Online, TypeInv, TypeOK
  <2>4. ASSUME NEW c \in Conns, Unregister(c)
        PROVE  pc[clients[u]] = "leave" /\ pc'[clients[u]] = "leave_peers"
    BY <2>1, <2>4 DEF Unregister, Current, Removed, AfterUnregister, Goto, TypeInv, TypeOK
  <2>5. CASE CloseClients
    BY <2>5 DEF CloseClients
  <2>6. CASE CrashRestart
    BY <2>1, <2>6 DEF CrashRestart, Each
  <2> QED BY <2>2, <2>3, <2>4, <2>5, <2>6
<1> QED BY <1>1, TypeInit, TypeStep, PTL DEF Spec, OwnerLeaves

-----------------------------------------------------------------------------
(* What the lock, the identifiers and the order of the steps guarantee       *)
(* between them: what the properties of the messages rest on.                *)

Joining   == {"load", "hist", "join_peers", "join_note"}
Exclusive == Joining \cup {"leave_peers", "leave_note"}

(* mu: a handler that holds it for writing is alone with the registry; its  *)
(* own entry, or the recipients it has found, stay while it holds it.        *)
LockInv ==
    /\ \A c, d \in Conns :
         c # d /\ pc[c] \in Exclusive => pc[d] \notin Exclusive \cup {"cast"}
    /\ \A c \in Conns : pc[c] \in Joining => clients[username[c]] = c
    /\ \A c \in Conns : pc[c] = "cast" =>
         rest[c] \subseteq (req[c].to \cap Online) \ {username[c]}

(* A table has one row for an identifier and a reader, and has given every   *)
(* replaced one for a later row.                                             *)
TableInv ==
    /\ IsFiniteSet(db.rows)
    /\ \A r \in db.rows : r.id <= db.seq
    /\ \A r, s \in db.rows : SameKey(r, s) => r = s
    /\ \A r \in gone : KeptOrReplaced(r)

(* The rows of a message that is saved and not broadcast to the end. *)
Said(c) == [mid |-> req[c].mid, from |-> username[c], at |-> req[c].at]
Archived(c, u) == \E r \in db.rows \cup gone : IsRow(Said(c), r) /\ r.to = u

SavedInv ==
    \A c \in Conns : pc[c] \in {"saved", "cast"} =>
      \A u \in req[c].to : Archived(c, u)

MessageInv == LockInv /\ TableInv /\ SavedInv /\ SeenIsStored

-----------------------------------------------------------------------------
(* What a send does to the channels.                                        *)

(* The room left in a queue is a number. *)
LEMMA RoomTyped ==
  ASSUME TypeOK, NEW d \in Conns
  PROVE  Room(d) \in Int
BY DEF TypeOK, Room

(* An accepted packet comes after everything the channel has accepted; a    *)
(* channel the send does not address is left alone.                         *)
LEMMA SendAppends ==
  ASSUME TypeOK, NEW p, NEW n \in [Conns -> Nat], SendEncrypted(n, p),
         NEW d \in Conns
  PROVE  /\ \A i \in DOMAIN log[d] : i \in DOMAIN log'[d] /\ log'[d][i] = log[d][i]
         /\ \A i \in DOMAIN log'[d] : i \notin DOMAIN log[d] =>
              /\ i > Len(log[d]) /\ i <= Len(log[d]) + n[d]
              /\ log'[d][i] = p
         /\ n[d] = 0 => log'[d] = log[d]
<1>1. log[d] \in Seq(Packet)
  BY DEF TypeOK
<1>2. CASE log' = log
  BY <1>1, <1>2
<1>3. CASE log' = [e \in Conns |->
                     log[e] \o [i \in 1..SmallerOf(n[e], Room(e)) |-> p]]
  <2> DEFINE k == SmallerOf(n[d], Room(d))
             more == [i \in 1..k |-> p]
  <2>1. k \in Int /\ k <= n[d]
    BY RoomTyped DEF SmallerOf
  <2>2. more \in Seq({p})
    BY <2>1, CopiesTyped
  <2>3. DOMAIN more = 1..k
    OBVIOUS
  <2>4. log'[d] = log[d] \o more
    BY <1>3
  <2> HIDE DEF k, more
  <2>5. log[d] \o more \in Seq(Packet \cup {p})
    BY <1>1, <2>2
  <2>6. \A i \in DOMAIN log[d] : i \in DOMAIN log'[d] /\ log'[d][i] = log[d][i]
    BY <1>1, <2>2, <2>4
  <2>7. \A i \in DOMAIN log'[d] : i \notin DOMAIN log[d] =>
          /\ i \in Nat /\ Len(log[d]) \in Nat
          /\ i > Len(log[d]) /\ i - Len(log[d]) \in DOMAIN more
          /\ log'[d][i] = more[i - Len(log[d])]
    BY <1>1, <2>2, <2>4
  <2>8. \A i \in DOMAIN more : more[i] = p
    BY <2>3 DEF more
  <2>9. \A i \in DOMAIN more : i <= n[d]
    BY <2>1, <2>3
  <2>10. n[d] = 0 => log'[d] = log[d]
    BY <1>1, <2>1, <2>2, <2>3, <2>4
  <2>11. ASSUME NEW i \in DOMAIN log'[d], i \notin DOMAIN log[d]
         PROVE  i > Len(log[d]) /\ i <= Len(log[d]) + n[d] /\ log'[d][i] = p
    <3>1. i - Len(log[d]) <= n[d]
      BY <2>7, <2>9, <2>11
    <3> QED BY <2>7, <2>8, <2>11, <3>1
  <2> QED BY <2>6, <2>10, <2>11
<1> QED BY <1>2, <1>3 DEF SendEncrypted

-----------------------------------------------------------------------------
(* The steps that matter to the lock and to the messages are few.  All the  *)
(* others move one handler, hold or release the lock but do not take it, and *)
(* send nothing or something that is not a message.                          *)

NoNewMessage ==
    \A d \in Conns : \A i \in DOMAIN log'[d] :
      log'[d][i].kind = "message" => i \in DOMAIN log[d] /\ log'[d][i] = log[d][i]

SmallMove(c) ==
    /\ \A d \in Conns \ {c} : pc'[d] = pc[d]
    /\ pc'[c] # pc[c] => pc'[c] \notin {"save", "saved", "cast", "load", "off"}
    /\ pc'[c] = "handshake" => pc[c] \in {"off", "handshake"}
    /\ pc[c] \in {"off", "handshake"} => pc'[c] \in {"off", "handshake", "done", "loop"}
    /\ pc[c] \in {"off", "handshake"} /\ pc'[c] = "loop" => Handshake(c)
    /\ pc[c] # "done"
    /\ pc'[c] = "hist" => pc[c] \in {"load", "hist"}
    /\ pc[c] = "load" => LoadHistory(c) \/ LoadHistoryFails(c)
    /\ pc[c] = "hist" => SendPeers(c)
    /\ pc[c] \in {"join_peers", "leave_peers"} => BroadcastPeers(c)
    /\ pc[c] \in {"join_note", "leave_note"} => AnnounceJoin(c) \/ AnnounceLeave(c)
    /\ pc[c] # "saved"
    /\ pc[c] = "cast" => rest[c] = {}
    /\ pc'[c] \in Exclusive => pc[c] \in Exclusive
    /\ pc'[c] \in Joining => pc[c] \in Joining

SmallStep ==
    /\ UNCHANGED <<req, reqs, rest, username, clients, db, gone>>
    /\ \A c \in Conns : pc'[c] # pc[c] => SmallMove(c)
    /\ NoNewMessage

(* Any other packet is no message. *)
LEMMA OtherPackets ==
  ASSUME TypeOK, NEW p, p.kind # "message", NEW n \in [Conns -> Nat],
         SendEncrypted(n, p)
  PROVE  NoNewMessage
<1> SUFFICES ASSUME NEW d \in Conns, NEW i \in DOMAIN log'[d],
                    log'[d][i].kind = "message"
             PROVE  i \in DOMAIN log[d] /\ log'[d][i] = log[d][i]
  BY DEF NoNewMessage
<1> QED BY SendAppends

(* The handler steps that send nothing. *)
LEMMA SilentStepsSmall ==
  ASSUME TypeInv, NEW c \in Conns,
         \/ Accept(c) \/ HandshakeFails(c) \/ LoopTop(c) \/ ReadError(c)
         \/ CreateUser(c) \/ SignupRefused(c) \/ AuthenticateUser(c)
         \/ AuthRefused(c) \/ DuplicateLogin(c) \/ LoadHistory(c)
         \/ LoadHistoryFails(c) \/ SaveFails(c) \/ EndBroadcast(c)
         \/ UnregisterNothing(c)
  PROVE  SmallStep
<1>1. \E there \in {"handshake", "done", "leave", "read", "auth", "error",
                    "join", "hist", "loop"} :
        /\ pc' = [pc EXCEPT ![c] = there]
        /\ there = "handshake" => pc[c] = "off"
        /\ there = "hist" => pc[c] = "load"
        /\ pc[c] = "off" => there = "handshake"
        /\ pc[c] = "handshake" => there = "done"
        /\ pc[c] \notin {"done", "hist", "saved", "join_peers", "leave_peers",
                        "join_note", "leave_note"}
        /\ pc[c] = "cast" => rest[c] = {}
        /\ pc[c] = "load" => LoadHistory(c) \/ LoadHistoryFails(c)
  BY DEF Accept, HandshakeFails, LoopTop, ReadError, OnReadError, CreateUser,
     SignupRefused, AuthenticateUser, AuthRefused, DuplicateLogin, LoadHistory,
     LoadHistoryFails, SaveFails, EndBroadcast, UnregisterNothing, Return, Goto
<1>2. UNCHANGED <<req, reqs, rest, username, clients, db, gone, log>>
  BY DEF Accept, HandshakeFails, LoopTop, ReadError, CreateUser, SignupRefused,
     AuthenticateUser, AuthRefused, DuplicateLogin, LoadHistory,
     LoadHistoryFails, SaveFails, EndBroadcast, UnregisterNothing, session, store
<1>3. \A d \in Conns : pc'[d] # pc[d] => SmallMove(d)
  BY <1>1 DEF SmallMove, Exclusive, Joining, TypeInv, TypeOK
<1>4. NoNewMessage
  BY <1>2 DEF NoNewMessage
<1> QED BY <1>2, <1>3, <1>4 DEF SmallStep

(* The handler steps that send something else than a message. *)
LEMMA SendingStepsSmall ==
  ASSUME TypeInv, NEW c \in Conns,
         \/ Handshake(c) \/ ReplyError(c) \/ SendHistoryRow(c) \/ SendPeers(c)
         \/ BroadcastPeers(c) \/ AnnounceJoin(c) \/ AnnounceLeave(c)
  PROVE  SmallStep
<1>1. \E there \in {"loop", "hist", "join_peers", "join_note", "leave_note", "done"} :
        /\ pc' = [pc EXCEPT ![c] = there]
        /\ there \in {"hist", "join_peers"} => pc[c] = "hist"
        /\ there = "join_note" => pc[c] = "join_peers"
        /\ there = "leave_note" => pc[c] = "leave_peers"
        /\ pc[c] # "off"
        /\ pc[c] = "handshake" => Handshake(c)
        /\ pc[c] \notin {"done", "load", "saved", "cast"}
        /\ pc[c] \in {"join_peers", "leave_peers"} => BroadcastPeers(c)
        /\ pc[c] \in {"join_note", "leave_note"} => AnnounceJoin(c) \/ AnnounceLeave(c)
        /\ pc[c] = "hist" => SendPeers(c) \/ there = "hist"
  <2>1. CASE SendHistoryRow(c)
    BY <2>1 DEF SendHistoryRow, TypeInv, TypeOK
  <2>2. CASE ~SendHistoryRow(c)
    BY <2>2 DEF Handshake, ReplyError, SendPeers, BroadcastPeers, AnnounceJoin,
                AnnounceLeave, Return, Goto
  <2> QED BY <2>1, <2>2
<1>2. UNCHANGED <<req, reqs, rest, username, clients, db, gone>>
  BY DEF Handshake, ReplyError, SendHistoryRow, SendPeers, BroadcastPeers,
     AnnounceJoin, AnnounceLeave, session, store
<1>3. \A d \in Conns : pc'[d] # pc[d] => SmallMove(d)
  BY <1>1 DEF SmallMove, Exclusive, Joining, TypeInv, TypeOK
<1>4. NoNewMessage
  <2>1. CASE Handshake(c)
    <3>1. log' = [log EXCEPT ![c] = <<[kind |-> "handshake_ok"]>>]
      BY <2>1 DEF Handshake
    <3> QED BY <3>1 DEF NoNewMessage, TypeInv, TypeOK
  <2>2. CASE ~Handshake(c)
    <3> DEFINE other(p) == /\ p.kind # "message"
                           /\ \E n \in [Conns -> Nat] : SendEncrypted(n, p)
    <3>1. CASE ReplyError(c)
      <4>1. other([kind |-> "error"])
        BY <3>1, OnlyTyped DEF ReplyError
      <4> QED BY <4>1, OtherPackets DEF TypeInv
    <3>2. CASE SendHistoryRow(c)
      <4>1. PICK row : SendEncrypted(Only(c), [kind |-> "history", row |-> row])
        BY <3>2 DEF SendHistoryRow
      <4>2. other([kind |-> "history", row |-> row])
        BY <4>1, OnlyTyped
      <4> QED BY <4>2, OtherPackets DEF TypeInv
    <3>3. CASE SendPeers(c) \/ BroadcastPeers(c)
      <4>1. other([kind |-> "peers", peers |-> Snapshot])
        BY <3>3, OnlyTyped, EachClientTyped DEF SendPeers, BroadcastPeers
      <4> QED BY <4>1, OtherPackets DEF TypeInv
    <3>4. CASE AnnounceJoin(c)
      <4>1. other([kind |-> "joined", user |-> username[c]])
        BY <3>4, EachClientTyped DEF AnnounceJoin
      <4> QED BY <4>1, OtherPackets DEF TypeInv
    <3>5. CASE AnnounceLeave(c)
      <4>1. other([kind |-> "left", user |-> username[c]])
        BY <3>5, EachClientTyped DEF AnnounceLeave
      <4> QED BY <4>1, OtherPackets DEF TypeInv
    <3> QED BY <2>2, <3>1, <3>2, <3>3, <3>4, <3>5
  <2> QED BY <2>1, <2>2
<1> QED BY <1>2, <1>3, <1>4 DEF SmallStep

(* The steps of the writers, of the signal and of the end of the process. *)
LEMMA QuietStepsSmall ==
  ASSUME \/ \E c \in Conns : WriterSteps(c) \/ HangUp(c)
         \/ Signal \/ CloseListener \/ Exit
         \/ UNCHANGED vars
  PROVE  SmallStep
<1>1. UNCHANGED <<pc, req, reqs, rest, username, clients, db, gone, log>>
  BY DEF WriterSteps, WriterSend, WriterFails, WriterEnds, HangUp, Signal,
     CloseListener, Exit, vars, handler, session, store
<1> QED BY <1>1 DEF SmallStep, NoNewMessage

(* What Next does, for the properties of the messages. *)
LEMMA StepKinds ==
  ASSUME TypeInv, [Next]_vars
  PROVE  \/ SmallStep
         \/ \E c \in Conns :
              /\ Running
              /\ \/ \E r \in Request : ReadPacket(c, r)
                 \/ FinishAuth(c)
                 \/ SaveMessageHistory(c)
                 \/ BeginBroadcast(c)
                 \/ \E u \in Users : BroadcastTo(c, u)
                 \/ Unregister(c)
         \/ Running /\ CloseClients
         \/ CrashRestart
BY SilentStepsSmall, SendingStepsSmall, QuietStepsSmall
   DEF Next, ConnSteps, ReadSteps, JoinSteps, MessageSteps, LeaveSteps,
       ServerSteps, Stopped

-----------------------------------------------------------------------------
(* What the important steps assign, without the packets.                    *)

(* What ReadPacket leaves behind: the request, and where the handler goes. *)
LEMMA ReadPacketSets ==
  ASSUME TypeInv, NEW c \in Conns, NEW r \in Request, ReadPacket(c, r)
  PROVE  /\ pc[c] = "read" /\ pc'[c] \in {"signup", "auth", "save", "error"}
         /\ pc'[c] = "save" => r.type = "message" /\ username[c] # NoOne
         /\ reqs[c] < MaxReqs /\ reqs'[c] = reqs[c] + 1 /\ req'[c] = r
         /\ \A d \in Conns \ {c} :
              pc'[d] = pc[d] /\ req'[d] = req[d] /\ reqs'[d] = reqs[d]
         /\ r.type = "message" => r \in MessageRequest
         /\ UNCHANGED <<rest, username, clients, db, gone, log, lossy, proc>>
<1>1. r.type \in {"signup", "login", "message", "other"}
  BY DEF Request, AuthRequest, MessageRequest, NoRequest
<1>2. /\ Dispatch(c, r) \in {"signup", "auth", "save", "error"}
      /\ Dispatch(c, r) = "save" => r.type = "message" /\ username[c] # NoOne
  BY <1>1 DEF Dispatch, OnMessage, Authenticated
<1>3. r.type = "message" => r \in MessageRequest
  BY DEF Request, AuthRequest, NoRequest
<1> QED BY <1>2, <1>3 DEF ReadPacket, Goto, TypeInv, TypeOK, session, store

(* What the first step of finishAuth does, with the lock in its hands. *)
LEMMA FinishAuthSets ==
  ASSUME TypeInv, NEW c \in Conns, FinishAuth(c)
  PROVE  /\ pc[c] = "join" /\ pc'[c] = "load"
         /\ \A d \in Conns : pc[d] \notin Exclusive \cup {"cast"}
         /\ req[c].user \in Users /\ clients[req[c].user] = NoOne
         /\ username'[c] = req[c].user
         /\ clients'[req[c].user] = c
         /\ \A d \in Conns \ {c} : pc'[d] = pc[d] /\ username'[d] = username[d]
         /\ \A u \in Users \ {req[c].user} : clients'[u] = clients[u]
         /\ UNCHANGED <<req, reqs, hist, rest, db, gone>>
<1>1. req[c].user \in Users
  BY DEF FinishAuth, TypeInv, PcInv, AuthRequest
<1>2. \A d \in Conns : pc[d] \notin Exclusive \cup {"cast"}
  BY DEF FinishAuth, MayLock, WriteLocked, ReadLocked, LockedAt, Exclusive, Joining
<1> QED BY <1>1, <1>2 DEF FinishAuth, Taken, Goto, TypeInv, TypeOK, store

(* A log-in sends no message. *)
LEMMA FinishAuthNoMessage ==
  ASSUME TypeInv, NEW c \in Conns, FinishAuth(c)
  PROVE  NoNewMessage
<1> DEFINE p == [kind |-> "auth_ok", user |-> req[c].user]
<1>1. SendEncrypted(Only(c), p) /\ p.kind # "message"
  BY DEF FinishAuth
<1> HIDE DEF p
<1> QED BY <1>1, OnlyTyped, OtherPackets DEF TypeInv

(* What unregister does when it takes its own entry out. *)
LEMMA UnregisterSets ==
  ASSUME TypeInv, NEW c \in Conns, Unregister(c)
  PROVE  /\ pc[c] = "leave" /\ pc'[c] = "leave_peers"
         /\ \A d \in Conns : pc[d] \notin Exclusive \cup {"cast"}
         /\ username[c] \in Users /\ clients[username[c]] = c
         /\ clients'[username[c]] = NoOne
         /\ \A d \in Conns \ {c} : pc'[d] = pc[d]
         /\ \A u \in Users \ {username[c]} : clients'[u] = clients[u]
         /\ UNCHANGED <<req, reqs, hist, rest, username, db, gone, log, lossy>>
<1>1. \A d \in Conns : pc[d] \notin Exclusive \cup {"cast"}
  BY DEF Unregister, MayLock, WriteLocked, ReadLocked, LockedAt, Exclusive, Joining
<1>2. username[c] \in Users /\ clients[username[c]] = c
  BY DEF Unregister, Current, Authenticated, TypeInv, TypeOK
<1> QED BY <1>1, <1>2 DEF Unregister, AfterUnregister, Removed, Goto, TypeInv, TypeOK, store

(* What the sweep of Close does: the registry is empty, the rest stays. *)
LEMMA CloseClientsSets ==
  ASSUME CloseClients
  PROVE  /\ \A d \in Conns : pc[d] \notin Exclusive \cup {"cast"}
         /\ \A u \in Users : clients'[u] = NoOne
         /\ clients' = [u \in Users |-> NoOne]
         /\ UNCHANGED <<pc, req, reqs, hist, rest, username, db, gone, log, lossy>>
BY DEF CloseClients, MayLock, WriteLocked, ReadLocked, LockedAt, Exclusive,
       Joining, handler, store

(* What SaveMessageHistory does: the rows, and nothing that is sent. *)
LEMMA SaveSets ==
  ASSUME TypeInv, NEW c \in Conns, SaveMessageHistory(c)
  PROVE  /\ pc[c] = "save" /\ pc'[c] = "saved" /\ ~ctx
         /\ username[c] \in Users /\ req[c] \in MessageRequest
         /\ \A d \in Conns \ {c} : pc'[d] = pc[d]
         /\ db' = Insert(db, req[c].mid, username[c], req[c].to, req[c].at)
         /\ gone' = gone \cup (db.rows \ db'.rows)
         /\ UNCHANGED <<req, reqs, hist, rest, username, clients, log, lossy, proc>>
BY DEF SaveMessageHistory, Goto, TypeInv, TypeOK, PcInv, Authenticated, session

(* What broadcastMessage does first: it fixes the readers who are online. *)
LEMMA BeginBroadcastSets ==
  ASSUME TypeInv, NEW c \in Conns, BeginBroadcast(c)
  PROVE  /\ pc[c] = "saved" /\ pc'[c] = "cast"
         /\ \A d \in Conns : pc[d] \notin Exclusive
         /\ rest'[c] = (req[c].to \cap Online) \ {username[c]}
         /\ \A d \in Conns \ {c} : pc'[d] = pc[d] /\ rest'[d] = rest[d]
         /\ UNCHANGED <<req, reqs, hist, username, clients, db, gone, log, lossy, proc>>
<1>1. \A d \in Conns : pc[d] \notin Exclusive
  BY DEF BeginBroadcast, MayRLock, WriteLocked, LockedAt, Exclusive, Joining
<1> QED BY <1>1 DEF BeginBroadcast, Goto, TypeInv, TypeOK, session, store

Broadcasted(c, u) ==
    [kind |-> "message", mid |-> req[c].mid, from |-> username[c], to |-> u,
     at |-> req[c].at]

(* What broadcastMessage does for one reader. *)
LEMMA BroadcastToSets ==
  ASSUME TypeInv, NEW c \in Conns, NEW u \in Users, BroadcastTo(c, u)
  PROVE  /\ pc[c] = "cast" /\ u \in rest[c]
         /\ username[c] \in Users /\ req[c] \in MessageRequest
         /\ rest'[c] = rest[c] \ {u}
         /\ \A d \in Conns \ {c} : rest'[d] = rest[d]
         /\ Only(clients[u]) \in [Conns -> Nat]
         /\ SendEncrypted(Only(clients[u]), Broadcasted(c, u))
         /\ UNCHANGED <<pc, req, reqs, hist, username, clients, db, gone>>
BY OnlyTyped DEF BroadcastTo, Broadcasted, TypeInv, TypeOK, PcInv, Authenticated,
   session, store

-----------------------------------------------------------------------------
(* The lock.                                                                *)

(* Who holds the write lock holds it alone. *)
LEMMA LockStep ==
  ASSUME TypeInv, LockInv, [Next]_vars
  PROVE  LockInv'
<1>1. CASE SmallStep
  <2>1. ASSUME NEW d \in Conns
        PROVE  /\ pc'[d] \in Exclusive => pc[d] \in Exclusive
               /\ pc'[d] \in Joining => pc[d] \in Joining
               /\ pc'[d] = "cast" => pc[d] = "cast"
    BY <1>1 DEF SmallStep, SmallMove
  <2> QED BY <1>1, <2>1 DEF SmallStep, LockInv, Online
<1>2. ASSUME NEW c \in Conns, NEW r \in Request, ReadPacket(c, r)
      PROVE  LockInv'
  <2>1. pc'[c] \notin Exclusive \cup {"cast"}
    BY <1>2, ReadPacketSets DEF Exclusive, Joining
  <2>2. pc'[c] \notin Joining
    BY <2>1 DEF Exclusive
  <2> QED BY <1>2, <2>1, <2>2, ReadPacketSets DEF LockInv, Online
<1>3. ASSUME NEW c \in Conns, FinishAuth(c)
      PROVE  LockInv'
  <2>1. \A d \in Conns \ {c} : pc'[d] \notin Exclusive \cup {"cast"}
    BY <1>3, FinishAuthSets
  <2>2. \A d \in Conns \ {c} : pc'[d] \notin Joining
    BY <2>1 DEF Exclusive
  <2>3. pc'[c] = "load" /\ clients'[username'[c]] = c
    BY <1>3, FinishAuthSets
  <2> QED BY <2>1, <2>2, <2>3 DEF LockInv
<1>4. ASSUME NEW c \in Conns, SaveMessageHistory(c)
      PROVE  LockInv'
  <2>1. pc'[c] \notin Exclusive \cup {"cast"} /\ pc'[c] \notin Joining
    BY <1>4, SaveSets DEF Exclusive, Joining
  <2> QED BY <1>4, <2>1, SaveSets DEF LockInv, Online
<1>5. ASSUME NEW c \in Conns, BeginBroadcast(c)
      PROVE  LockInv'
  <2>1. pc'[c] \notin Exclusive
    BY <1>5, BeginBroadcastSets DEF Exclusive, Joining
  <2>2. \A d \in Conns : pc'[d] \notin Exclusive /\ pc'[d] \notin Joining
    BY <1>5, <2>1, BeginBroadcastSets DEF Exclusive
  <2> QED BY <1>5, <2>2, BeginBroadcastSets DEF LockInv, Online
<1>6. ASSUME NEW c \in Conns, NEW u \in Users, BroadcastTo(c, u)
      PROVE  LockInv'
  BY <1>6, BroadcastToSets DEF LockInv, Online
<1>7. ASSUME NEW c \in Conns, Unregister(c)
      PROVE  LockInv'
  <2>1. \A d \in Conns : pc[d] \notin Joining /\ pc[d] # "cast"
    BY <1>7, UnregisterSets DEF Exclusive
  <2>2. pc'[c] \notin Joining
    BY <1>7, UnregisterSets DEF Joining
  <2> QED BY <1>7, <2>1, <2>2, UnregisterSets DEF LockInv
<1>8. CASE CloseClients
  <2>1. \A d \in Conns : pc[d] \notin Joining /\ pc[d] # "cast"
    BY <1>8, CloseClientsSets DEF Exclusive
  <2> QED BY <1>8, <2>1, CloseClientsSets DEF LockInv
<1>9. CASE CrashRestart
  BY <1>9 DEF CrashRestart, Each, LockInv, Exclusive, Joining
<1> QED BY <1>1, <1>2, <1>3, <1>4, <1>5, <1>6, <1>7, <1>8, <1>9, StepKinds

-----------------------------------------------------------------------------
(* The table.                                                               *)

(* What a save does to the table: one new row for each reader, in the place  *)
(* of the one that was there for it and the identifier.                      *)
LEMMA SaveAdds ==
  ASSUME TypeInv, NEW c \in Conns, SaveMessageHistory(c)
  PROVE  /\ db'.seq = db.seq + 1
         /\ \A u \in req[c].to : \E r \in db'.rows :
              r.id = db.seq + 1 /\ IsRow(Said(c), r) /\ r.to = u
         /\ \A r \in db'.rows :
              \/ /\ r.id = db.seq + 1 /\ IsRow(Said(c), r) /\ r.to \in req[c].to
              \/ r \in db.rows /\ ~(r.mid = req[c].mid /\ r.to \in req[c].to)
         /\ \A r, s \in db'.rows :
              r.id = db.seq + 1 /\ s.id = db.seq + 1 /\ r.to = s.to
                => r = s \/ r \in db.rows \/ s \in db.rows
         /\ \A r \in db.rows :
              \/ r \in db'.rows
              \/ r.mid = req[c].mid /\ r.to \in req[c].to
         /\ gone' = gone \cup (db.rows \ db'.rows)
         /\ IsFiniteSet(db.rows) => IsFiniteSet(db'.rows)
<1> DEFINE row(u) == [id |-> db.seq + 1, mid |-> req[c].mid, from |-> username[c],
                      to |-> u, at |-> Datetime(req[c].at)]
           new == {row(u) : u \in req[c].to}
           old == {r \in db.rows : \A s \in new : ~SameKey(r, s)}
<1>1. db' = [rows |-> old \cup new, seq |-> db.seq + 1]
  BY SaveSets DEF Insert
<1>2. req[c].to \subseteq Users
  BY SaveSets DEF MessageRequest
<1>3. IsFiniteSet(req[c].to)
  BY <1>2, FS_Subset
<1>4. IsFiniteSet(new)
  <2> DEFINE f == [u \in req[c].to |-> row(u)]
  <2>1. f \in Surjection(req[c].to, new)
    BY DEF Surjection
  <2> HIDE DEF f, new
  <2> QED BY <1>3, <2>1, FS_Surjection
<1>5. \A r \in new : \E u \in req[c].to : r = row(u)
  OBVIOUS
<1>6. \A u \in req[c].to : row(u) \in new
  OBVIOUS
<1>7. \A r \in db.rows : r \in old <=> ~(r.mid = req[c].mid /\ r.to \in req[c].to)
  <2> SUFFICES ASSUME NEW r \in db.rows
               PROVE  r \in old <=> ~(r.mid = req[c].mid /\ r.to \in req[c].to)
    OBVIOUS
  <2>1. ASSUME r.mid = req[c].mid, r.to \in req[c].to
        PROVE  r \notin old
    <3>1. row(r.to) \in new /\ SameKey(r, row(r.to))
      BY <1>6, <2>1 DEF SameKey
    <3> QED BY <3>1
  <2>2. ASSUME r \notin old
        PROVE  r.mid = req[c].mid /\ r.to \in req[c].to
    <3>1. PICK s \in new : SameKey(r, s)
      BY <2>2
    <3>2. PICK u \in req[c].to : s = row(u)
      BY <1>5
    <3> QED BY <3>1, <3>2 DEF SameKey
  <2> QED BY <2>1, <2>2
<1>8. \A u \in Users : IsRow(Said(c), row(u))
  BY DEF IsRow, Said
<1>9. db'.rows = old \cup new /\ db'.seq = db.seq + 1 /\ old \subseteq db.rows
  BY <1>1
<1>10. IsFiniteSet(db.rows) => IsFiniteSet(db'.rows)
  <2> HIDE DEF old, new
  <2> QED BY <1>4, <1>9, FS_Subset, FS_Union
<1>11. \A u \in req[c].to : row(u).id = db.seq + 1 /\ row(u).to = u
  OBVIOUS
<1> HIDE DEF new, old, row
<1>12. \A u \in req[c].to : \E r \in db'.rows :
         r.id = db.seq + 1 /\ IsRow(Said(c), r) /\ r.to = u
  BY <1>2, <1>6, <1>8, <1>9, <1>11
<1>13. \A r \in db'.rows :
         \/ r.id = db.seq + 1 /\ IsRow(Said(c), r) /\ r.to \in req[c].to
         \/ r \in db.rows /\ ~(r.mid = req[c].mid /\ r.to \in req[c].to)
  BY <1>2, <1>5, <1>7, <1>8, <1>9, <1>11
<1>14. \A r, s \in new : r.to = s.to => r = s
  BY <1>5, <1>11
<1> QED BY <1>7, <1>9, <1>10, <1>12, <1>13, <1>14, SaveSets

(* Only a save changes the table. *)
LEMMA TableStep ==
  ASSUME TypeInv, [Next]_vars
  PROVE  UNCHANGED <<db, gone>> \/ \E c \in Conns : SaveMessageHistory(c)
<1>1. CASE SmallStep
  BY <1>1 DEF SmallStep
<1>2. CASE CrashRestart
  BY <1>2 DEF CrashRestart, store
<1> QED BY <1>1, <1>2, StepKinds, ReadPacketSets, FinishAuthSets, BeginBroadcastSets,
           BroadcastToSets, UnregisterSets, CloseClientsSets

(* The numbers of the rows are numbers. *)
LEMMA IdsTyped ==
  ASSUME TypeInv
  PROVE  /\ db.seq \in Nat
         /\ \A r \in db.rows \cup gone : r \in HistoryRow /\ r.id \in Nat
<1>1. db.seq \in Nat /\ db.rows \in SUBSET HistoryRow
  BY DEF TypeInv, TypeOK, Table, HistoryRow
<1>2. gone \in SUBSET HistoryRow
  BY DEF TypeInv, TypeOK
<1> QED BY <1>1, <1>2 DEF HistoryRow, Row

(* What was ever stored stays stored, or known to be replaced. *)
LEMMA RowsStay ==
  ASSUME TypeInv, [Next]_vars
  PROVE  db.rows \cup gone \subseteq db'.rows \cup gone'
BY TableStep, SaveAdds

(* ... and a row that is there is followed only by later ones. *)
LEMMA RowsReplaced ==
  ASSUME TypeInv, TableInv, [Next]_vars, NEW r, KeptOrReplaced(r), r.id \in Nat
  PROVE  KeptOrReplaced(r)'
<1>1. CASE db' = db
  BY <1>1 DEF KeptOrReplaced
<1>2. ASSUME NEW c \in Conns, SaveMessageHistory(c)
      PROVE  KeptOrReplaced(r)'
  <2>1. PICK s \in db.rows : SameKey(r, s) /\ r.id <= s.id
    BY DEF KeptOrReplaced
  <2>2. CASE s \in db'.rows
    BY <2>1, <2>2 DEF KeptOrReplaced
  <2>3. CASE s \notin db'.rows
    <3>1. s.mid = req[c].mid /\ s.to \in req[c].to
      BY <1>2, <2>3, SaveAdds
    <3>2. PICK n \in db'.rows : n.id = db.seq + 1 /\ IsRow(Said(c), n) /\ n.to = s.to
      BY <1>2, <3>1, SaveAdds
    <3>3. SameKey(r, n)
      BY <2>1, <3>1, <3>2 DEF SameKey, IsRow, Said
    <3>4. r.id <= n.id
      BY <2>1, <3>2, IdsTyped DEF TableInv
    <3> QED BY <3>3, <3>4 DEF KeptOrReplaced
  <2> QED BY <2>2, <2>3
<1> QED BY <1>1, <1>2, TableStep

(* The table stays one. *)
LEMMA RowsStep ==
  ASSUME TypeInv, TableInv, [Next]_vars
  PROVE  TableInv'
<1>1. CASE UNCHANGED <<db, gone>>
  BY <1>1 DEF TableInv, KeptOrReplaced
<1>2. ASSUME NEW c \in Conns, SaveMessageHistory(c)
      PROVE  TableInv'
  <2>1. \A r \in db'.rows : r.id <= db'.seq
    BY <1>2, IdsTyped, SaveAdds DEF TableInv
  <2>2. ASSUME NEW r \in db'.rows, NEW s \in db'.rows, SameKey(r, s)
        PROVE  r = s
    <3> DEFINE IsNew(n) == /\ n.id = db.seq + 1 /\ IsRow(Said(c), n)
                           /\ n.to \in req[c].to /\ n \notin db.rows
               IsOld(n) == n \in db.rows /\ ~(n.mid = req[c].mid /\ n.to \in req[c].to)
    <3>1. \A n \in db.rows : n.id # db.seq + 1
      BY IdsTyped DEF TableInv
    <3>2. (IsNew(r) \/ IsOld(r)) /\ (IsNew(s) \/ IsOld(s))
      BY <1>2, <3>1, SaveAdds
    <3>3. CASE IsNew(r) /\ IsNew(s)
      BY <1>2, <2>2, <3>3, SaveAdds DEF SameKey
    <3>4. CASE IsOld(r) /\ IsOld(s)
      BY <2>2, <3>4 DEF TableInv
    <3>5. ~(IsNew(r) /\ IsOld(s)) /\ ~(IsOld(r) /\ IsNew(s))
      BY <2>2 DEF SameKey, IsRow, Said
    <3> HIDE DEF IsNew, IsOld
    <3> QED BY <3>2, <3>3, <3>4, <3>5
  <2>3. ASSUME NEW r \in gone'
        PROVE  KeptOrReplaced(r)'
    <3>1. r \in gone \/ r \in db.rows
      BY <1>2, <2>3, SaveAdds
    <3>2. r.id \in Nat
      BY <3>1, IdsTyped
    <3>3. KeptOrReplaced(r)
      BY <3>1, <3>2 DEF TableInv, KeptOrReplaced, SameKey
    <3> QED BY <3>2, <3>3, RowsReplaced
  <2> QED BY <1>2, <2>1, <2>2, <2>3, SaveAdds DEF TableInv
<1> QED BY <1>1, <1>2, TableStep

-----------------------------------------------------------------------------
(* From the save to the last recipient.                                     *)

(* A message that is saved has had all its rows. *)
LEMMA SavedStep ==
  ASSUME TypeInv, SavedInv, [Next]_vars
  PROVE  SavedInv'
<1>0. db.rows \cup gone \subseteq db'.rows \cup gone'
  BY RowsStay
<1>1. ASSUME UNCHANGED <<req, username>>,
             \A d \in Conns : pc'[d] \in {"saved", "cast"} => pc[d] \in {"saved", "cast"}
      PROVE  SavedInv'
  BY <1>0, <1>1 DEF SavedInv, Archived, Said
<1>2. ASSUME NEW c \in Conns, pc'[c] \notin {"saved", "cast"},
             \A d \in Conns \ {c} : /\ pc'[d] = pc[d] /\ req'[d] = req[d]
                                   /\ username'[d] = username[d]
      PROVE  SavedInv'
  <2>1. ASSUME NEW d \in Conns, pc'[d] \in {"saved", "cast"}, NEW u \in req'[d].to
        PROVE  Archived(d, u)'
    <3>1. d # c
      BY <1>2, <2>1
    <3>2. Archived(d, u)
      BY <1>2, <2>1, <3>1 DEF SavedInv
    <3> QED BY <1>0, <1>2, <3>1, <3>2 DEF Archived, Said
  <2> QED BY <2>1 DEF SavedInv
<1>3. ASSUME NEW c \in Conns, SaveMessageHistory(c)
      PROVE  SavedInv'
  <2>1. UNCHANGED <<req, username>>
    BY <1>3, SaveSets
  <2>2. ASSUME NEW d \in Conns, pc'[d] \in {"saved", "cast"}, NEW u \in req[d].to
        PROVE  Archived(d, u)'
    <3>1. CASE d = c
      <4>1. PICK r \in db'.rows : IsRow(Said(c), r) /\ r.to = u
        BY <1>3, <2>2, <3>1, SaveAdds
      <4> QED BY <2>1, <3>1, <4>1 DEF Archived, Said
    <3>2. CASE d # c
      <4>1. Archived(d, u)
        BY <1>3, <2>2, <3>2, SaveSets DEF SavedInv
      <4> QED BY <1>0, <2>1, <4>1 DEF Archived, Said
    <3> QED BY <3>1, <3>2
  <2> QED BY <2>1, <2>2 DEF SavedInv
<1>4. CASE SmallStep
  BY <1>1, <1>4 DEF SmallStep, SmallMove
<1>5. ASSUME NEW c \in Conns, NEW r \in Request, ReadPacket(c, r)
      PROVE  SavedInv'
  BY <1>2, <1>5, ReadPacketSets
<1>6. ASSUME NEW c \in Conns, FinishAuth(c)
      PROVE  SavedInv'
  BY <1>2, <1>6, FinishAuthSets
<1>7. ASSUME NEW c \in Conns, BeginBroadcast(c) \/ Unregister(c)
      PROVE  SavedInv'
  BY <1>1, <1>7, BeginBroadcastSets, UnregisterSets
<1>8. ASSUME NEW c \in Conns, NEW u \in Users, BroadcastTo(c, u)
      PROVE  SavedInv'
  BY <1>1, <1>8, BroadcastToSets
<1>9. CASE CloseClients
  BY <1>1, <1>9, CloseClientsSets
<1>10. CASE CrashRestart
  BY <1>10 DEF CrashRestart, Each, SavedInv
<1> QED BY <1>3, <1>4, <1>5, <1>6, <1>7, <1>8, <1>9, <1>10, StepKinds

(* Every message in a channel has come from a broadcast. *)
LEMMA BroadcastAppends ==
  ASSUME TypeInv, NEW c \in Conns, NEW u \in Users, BroadcastTo(c, u),
         NEW d \in Conns, NEW i \in DOMAIN log'[d]
  PROVE  \/ i \in DOMAIN log[d] /\ log'[d][i] = log[d][i]
         \/ d = clients[u] /\ log'[d][i] = Broadcasted(c, u)
<1>1. SendEncrypted(Only(clients[u]), Broadcasted(c, u))
  BY BroadcastToSets
<1>2. Only(clients[u]) \in [Conns -> Nat]
  BY OnlyTyped
<1>3. Only(clients[u])[d] > 0 => d = clients[u]
  BY DEF Only
<1> QED BY <1>1, <1>2, <1>3, SendAppends DEF TypeInv

(* What SeenIsStored says of one packet: it was stored, and what took its    *)
(* place, if anything did, is later.                                          *)
Stored(p) == \E r \in db.rows \cup gone : IsRow(p, r) /\ r.to = p.to /\ KeptOrReplaced(r)

(* Nothing is delivered that is not stored. *)
LEMMA SeenStep ==
  ASSUME "relogin" \notin Env, TypeInv, SessionInv, LockInv, TableInv, SavedInv,
         SeenIsStored, [Next]_vars
  PROVE  SeenIsStored'
<1>0. ASSUME \A d \in Conns : \A i \in DOMAIN log'[d] : log'[d][i].kind = "message" =>
               /\ username'[d] = log'[d][i].to
               /\ log'[d][i].from # log'[d][i].to
               /\ Stored(log'[d][i])
      PROVE  SeenIsStored'
  <2>1. ASSUME NEW p, Stored(p)
        PROVE  \E r \in db'.rows \cup gone' :
                 IsRow(p, r) /\ r.to = p.to /\ KeptOrReplaced(r)'
    <3>1. PICK r \in db.rows \cup gone : IsRow(p, r) /\ r.to = p.to /\ KeptOrReplaced(r)
      BY <2>1 DEF Stored
    <3>2. r \in db'.rows \cup gone'
      BY RowsStay
    <3>3. KeptOrReplaced(r)'
      BY <3>1, IdsTyped, RowsReplaced
    <3> QED BY <3>1, <3>2, <3>3
  <2>2. ASSUME NEW d \in Conns, NEW i \in DOMAIN log'[d], log'[d][i].kind = "message"
        PROVE  /\ username'[d] = log'[d][i].to
               /\ log'[d][i].from # log'[d][i].to
               /\ \E r \in db'.rows \cup gone' :
                    IsRow(log'[d][i], r) /\ r.to = log'[d][i].to /\ KeptOrReplaced(r)'
    BY <1>0, <2>1, <2>2
  <2> QED BY <2>2 DEF SeenIsStored
<1>1. ASSUME NoNewMessage, UNCHANGED username
      PROVE  SeenIsStored'
  BY <1>0, <1>1 DEF SeenIsStored, Stored, NoNewMessage
<1>2. CASE SmallStep
  BY <1>1, <1>2 DEF SmallStep
<1>3. ASSUME UNCHANGED <<username, log>>
      PROVE  SeenIsStored'
  BY <1>1, <1>3 DEF NoNewMessage
<1>4. ASSUME NEW c \in Conns, Running, FinishAuth(c)
      PROVE  SeenIsStored'
  <2>1. NoNewMessage
    BY <1>4, FinishAuthNoMessage
  <2>2. username[c] = NoOne
    BY <1>4, FinishAuthSets DEF SessionInv, ConnInv, Authenticated
  <2>3. ASSUME NEW i \in DOMAIN log[c], log[c][i].kind = "message" PROVE FALSE
    <3>1. log[c][i] \in Packet
      BY DEF TypeInv, TypeOK
    <3>2. log[c][i].to \in Users
      BY <2>3, <3>1 DEF Packet
    <3> QED BY <2>2, <2>3, <3>2 DEF SeenIsStored
  <2>4. \A d \in Conns \ {c} : username'[d] = username[d]
    BY <1>4, FinishAuthSets
  <2> QED BY <1>0, <2>1, <2>3, <2>4 DEF SeenIsStored, Stored, NoNewMessage
<1>5. ASSUME NEW c \in Conns, NEW u \in Users, Running, BroadcastTo(c, u)
      PROVE  SeenIsStored'
  <2>1. u \in rest[c] /\ pc[c] = "cast" /\ UNCHANGED username
    BY <1>5, BroadcastToSets
  <2>2. u \in req[c].to /\ u \in Online /\ u # username[c]
    BY <2>1 DEF LockInv
  <2>3. username[clients[u]] = u
    BY <1>5, <2>2 DEF SessionInv, EntryInv, Online
  <2>4. Stored(Broadcasted(c, u))
    <3>1. PICK r \in db.rows \cup gone : IsRow(Said(c), r) /\ r.to = u
      BY <2>1, <2>2 DEF SavedInv, Archived
    <3>2. KeptOrReplaced(r)
      BY IdsTyped DEF TableInv, KeptOrReplaced, SameKey
    <3> QED BY <3>1, <3>2 DEF Stored, Broadcasted, Said, IsRow
  <2>5. ASSUME NEW d \in Conns, NEW i \in DOMAIN log'[d],
               log'[d][i].kind = "message"
        PROVE  /\ username[d] = log'[d][i].to
               /\ log'[d][i].from # log'[d][i].to
               /\ Stored(log'[d][i])
    <3>1. CASE i \in DOMAIN log[d] /\ log'[d][i] = log[d][i]
      BY <2>5, <3>1 DEF SeenIsStored, Stored
    <3>2. CASE d = clients[u] /\ log'[d][i] = Broadcasted(c, u)
      BY <2>2, <2>3, <2>4, <3>2 DEF Broadcasted
    <3> QED BY <1>5, <3>1, <3>2, BroadcastAppends
  <2> QED BY <1>0, <2>1, <2>5
<1>6. CASE CrashRestart
  BY <1>6 DEF CrashRestart, Each, SeenIsStored
<1> QED BY <1>2, <1>3, <1>4, <1>5, <1>6, StepKinds, ReadPacketSets, SaveSets,
           BeginBroadcastSets, UnregisterSets, CloseClientsSets

-----------------------------------------------------------------------------
(* At the start nothing has been sent. *)
LEMMA MessageInit == Init => MessageInv
<1> SUFFICES ASSUME Init PROVE MessageInv
  OBVIOUS
<1>1. LockInv
  BY DEF Init, Fresh, Each, LockInv, Exclusive, Joining
<1>2. TableInv
  BY FS_EmptySet DEF Init, TableInv, EmptyTable
<1>3. SavedInv /\ SeenIsStored
  BY DEF Init, Fresh, Each, SavedInv, SeenIsStored
<1> QED BY <1>1, <1>2, <1>3 DEF MessageInv

(* The invariant about messages holds in every reachable state. *)
LEMMA MessageSafe ==
  ASSUME "relogin" \notin Env
  PROVE  Spec => [](TypeInv /\ SessionInv /\ MessageInv)
<1>1. Init => MessageInv
  BY MessageInit
<1>2. TypeInv /\ SessionInv /\ MessageInv /\ [Next]_vars => MessageInv'
  BY LockStep, RowsStep, SavedStep, SeenStep DEF MessageInv
<1> QED BY <1>1, <1>2, SessionSafe, PTL DEF Spec

(***************************************************************************)
(* For every number of users, connections and identifiers, and whatever     *)
(* clients, the database, a signal or a crash do: a message in anybody's    *)
(* channel was stored, for that reader and from that author, and only a     *)
(* later save of its identifier for that reader has taken its row's place.  *)
(***************************************************************************)
THEOREM SeenStored ==
  ASSUME "relogin" \notin Env
  PROVE  Spec => []SeenIsStored
<1>1. MessageInv => SeenIsStored
  BY DEF MessageInv
<1> QED BY <1>1, MessageSafe, PTL
=============================================================================
