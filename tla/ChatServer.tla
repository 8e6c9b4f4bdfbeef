----------------------------- MODULE ChatServer -----------------------------
(***************************************************************************)
(* The chat server: internal/network/server.go, over the two tables of     *)
(* internal/storage/sqlite.go.                                              *)
(*                                                                         *)
(* Every connection has a handler goroutine (handleConn), which reads       *)
(* packets and answers them, and a writer goroutine (writer), which moves   *)
(* packets from the buffered channel Send to the socket.  Handlers share    *)
(* the map clients under the RWMutex mu; a signal starts a goroutine that   *)
(* runs Close.  A step of the model is a stretch of a handler between two   *)
(* points where another goroutine can be observed: a lock, a send on a      *)
(* channel, a database call, a socket read.                                 *)
(***************************************************************************)
EXTENDS Naturals, FiniteSets, Sequences, HistoryTable

CONSTANTS
    Conns,      \* connections that clients may open
    Users,      \* usernames
    Mids,       \* message identifiers; a client may use any, and again
    Stamps,     \* timestamps a client may put on a message; {}: no messages
    QueueCap,   \* defaultSendQueue
    HistLimit,  \* rows LoadMessageHistoryForUser returns at most
    MaxReqs,    \* BOUND: requests read from one connection
    Env,        \* what the environment may do, see EnvKinds
    NoOne       \* no user, and no connection

EnvKinds == {"relogin",  \* a second login on an authenticated connection
             "signal",   \* SIGINT or SIGTERM
             "crash",    \* the process is killed and started again
             "dbfail",   \* SQLite returns an error (busy, disk full)
             "hangup",   \* a client's end of the connection goes away
             "slow"}     \* a write to a live peer exceeds its deadline

ASSUME UsersAssumption == IsFiniteSet(Users) /\ NoOne \notin Users
ASSUME ConnsAssumption == NoOne \notin Conns
ASSUME StampsAssumption == Stamps \subseteq Nat \ {0}
ASSUME BoundsAssumption ==
    QueueCap \in Nat \ {0} /\ HistLimit \in Nat \ {0} /\ MaxReqs \in Nat
ASSUME EnvAssumption == Env \subseteq EnvKinds

VARIABLES
    pc,        \* where the handler of each connection is
    req,       \* the request it is working on
    reqs,      \* how many it has read, in all lives of the server
    hist,      \* history rows finishAuth has still to send
    rest,      \* recipients broadcastMessage has still to reach
    username,  \* Client.Username
    chan,      \* Client.Send: not made, open, closed
    log,       \* every packet Send has accepted, in order
    taken,     \* how many of them the writer has taken
    writing,   \* the writer goroutine
    sock,      \* the TCP connection
    clients,   \* Server.clients, NoOne: no entry
    accounts,  \* usernames in table users
    db,        \* table message_history
    gone,      \* HISTORY: the rows that later saves have replaced
    ctx,       \* sigCtx is cancelled
    proc,      \* the process and its accept loop
    lossy      \* HISTORY: a packet for this session was dropped, or its
               \* history could not be read

session == <<username, chan, writing, taken>>
handler == <<pc, req, reqs, hist, rest>>
store   == <<accounts, db, gone>>
world   == <<ctx, sock>>
vars == <<handler, session, log, lossy, clients, store, world, proc>>

-----------------------------------------------------------------------------
(* Requests, packets and program counters.                                 *)

(* What a client asks for.  "other" is any request that is well formed and *)
(* refused on its face: an unsupported type, no public key, an oversized    *)
(* ciphertext.  A packet that fails Validate ends the session: ReadError.   *)
AuthRequest == [type: {"signup", "login"}, user: Users]
MessageRequest ==
    [type: {"message"}, mid: Mids, to: (SUBSET Users) \ {{}}, at: Stamps]
NoRequest == [type |-> "other"]
Request == AuthRequest \cup MessageRequest \cup {NoRequest}

HistoryRow == Row(Mids, Users, Stamps)

(* What the server sends.  key stands for Client.PublicKey, which belongs  *)
(* to the connection that announced it.                                     *)
Peer == [user: Users \cup {NoOne}, key: Conns]
Packet ==
    [kind: {"handshake_ok", "error"}]
      \cup [kind: {"auth_ok", "joined", "left"}, user: Users]
      \cup [kind: {"history"}, row: HistoryRow]
      \cup [kind: {"peers"}, peers: SUBSET Peer]
      \cup [kind: {"message"}, mid: Mids, from: Users, to: Users, at: Stamps]

PcStates == {"off", "handshake", "loop", "read", "signup", "auth", "join",
             "load", "hist", "join_peers", "join_note", "save", "saved",
             "cast", "error", "leave", "leave_peers", "leave_note", "done"}

(* mu is held where the code holds it, so it is read off the handlers. *)
LockedAt(pcs) == \E c \in Conns : pc[c] \in pcs

(* MUTANT: finishAuth reads the database before it takes the lock. *)
WriteLockedAfterLoad ==
    LockedAt({"join_peers", "join_note", "leave_peers", "leave_note"})
(* MUTANT: unregister returns without unlocking. *)
WriteLockedForEver ==
    LockedAt({"load", "hist", "join_peers", "join_note", "leave_peers",
              "leave_note"})
      \/ \E c \in Conns : pc[c] = "done" /\ chan[c] = "closed"
WriteLocked ==
    LockedAt({"load", "hist", "join_peers", "join_note", "leave_peers",
              "leave_note"})
ReadLocked == LockedAt({"cast"})
MayLock    == ~WriteLocked /\ ~ReadLocked
(* MUTANT: broadcastMessage takes no lock. *)
NoRLock    == TRUE
MayRLock   == ~WriteLocked

Running   == proc \in {"up", "closing", "closed"}
Goto(c, there) == pc' = [pc EXCEPT ![c] = there]
Online    == {u \in Users : clients[u] # NoOne}
Entries(c) == {u \in Users : clients[u] = c}

(* peerSnapshotLocked *)
Snapshot == {[user |-> username[clients[u]], key |-> clients[u]] : u \in Online}

-----------------------------------------------------------------------------
(* sendEncrypted: a send on the buffered channel that drops the packet when *)
(* the buffer is full.  A send on a closed channel panics, which ends the   *)
(* process.  n[d] is how many times the loop at hand sends p to d.          *)

Room(c) == QueueCap - (Len(log[c]) - taken[c])
SmallerOf(a, b) == IF a < b THEN a ELSE b

SendEncrypted(n, p) ==
    IF \E d \in Conns : n[d] > 0 /\ chan[d] = "closed"
    THEN proc' = "panicked" /\ UNCHANGED <<log, lossy>>
    ELSE /\ log' = [d \in Conns |->
                      log[d] \o [i \in 1..SmallerOf(n[d], Room(d)) |-> p]]
         /\ lossy' = [d \in Conns |-> lossy[d] \/ n[d] > Room(d)]
         /\ UNCHANGED proc

Only(c)  == [d \in Conns |-> IF d = c THEN 1 ELSE 0]
EachClient == [d \in Conns |-> Cardinality(Entries(d))]

-----------------------------------------------------------------------------
(* The connection and its handshake (handleConn, before the loop).         *)

Accept(c) ==
    /\ proc \in {"up", "closing"}
    /\ pc[c] = "off"
    /\ Goto(c, "handshake")
    /\ sock' = [sock EXCEPT ![c] = "open"]
    /\ UNCHANGED <<req, reqs, hist, rest, session, log, lossy, clients, store,
                   ctx, proc>>

(* The client's key arrives: make the channel, start the writer, confirm. *)
Handshake(c) ==
    /\ pc[c] = "handshake"
    /\ chan' = [chan EXCEPT ![c] = "open"]
    /\ writing' = [writing EXCEPT ![c] = "run"]
    /\ log' = [log EXCEPT ![c] = <<[kind |-> "handshake_ok"]>>]
    /\ Goto(c, "loop")
    /\ UNCHANGED <<req, reqs, hist, rest, username, taken, lossy, clients,
                   store, world, proc>>

(* Every return of handleConn closes the socket (the deferred conn.Close). *)
Return(c) == Goto(c, "done") /\ sock' = [sock EXCEPT ![c] = "shut"]

HandshakeFails(c) ==
    /\ pc[c] = "handshake"
    /\ Return(c)
    /\ UNCHANGED <<req, reqs, hist, rest, session, log, lossy, clients, store,
                   ctx, proc>>

-----------------------------------------------------------------------------
(* The read loop (handleConn) and handlePacket's switch.                    *)

LoopTop(c) ==
    /\ pc[c] = "loop"
    /\ Goto(c, IF ctx THEN "leave" ELSE "read")
    /\ UNCHANGED <<req, reqs, hist, rest, session, log, lossy, clients, store,
                   world, proc>>

Authenticated(c) == username[c] # NoOne

(* MUTANT: no check of client.Username. *)
MessageFromAnyone(c) == "save"
(* MUTANT: the message is not saved. *)
MessageUnsaved(c) == IF Authenticated(c) THEN "saved" ELSE "error"
OnMessage(c) == IF Authenticated(c) THEN "save" ELSE "error"

Dispatch(c, r) ==
    CASE r.type = "signup"  -> "signup"
      [] r.type = "login"   -> "auth"
      [] r.type = "message" -> OnMessage(c)
      [] r.type = "other"   -> "error"

(* A packet may still sit in the bufio.Reader after the socket has gone. *)
ReadPacket(c, r) ==
    /\ pc[c] = "read"
    /\ reqs[c] < MaxReqs
    /\ Authenticated(c) /\ r.type \in {"signup", "login"} => "relogin" \in Env
    /\ req' = [req EXCEPT ![c] = r]
    /\ reqs' = [reqs EXCEPT ![c] = @ + 1]
    /\ Goto(c, Dispatch(c, r))
    /\ UNCHANGED <<hist, rest, session, log, lossy, clients, store, world, proc>>

(* MUTANT: return without unregister. *)
ReturnOnReadError(c) == "done"
OnReadError(c) == IF Authenticated(c) THEN "leave" ELSE "done"

(* The client hung up, Close shut the socket, or the packet was malformed. *)
ReadError(c) ==
    /\ pc[c] = "read"
    /\ IF OnReadError(c) = "done" THEN Return(c)
                                  ELSE Goto(c, "leave") /\ UNCHANGED sock
    /\ UNCHANGED <<req, reqs, hist, rest, session, log, lossy, clients, store,
                   ctx, proc>>

(* The error of handlePacket goes back to the client, without the lock. *)
ReplyError(c) ==
    /\ pc[c] = "error"
    /\ SendEncrypted(Only(c), [kind |-> "error"])
    /\ Goto(c, "loop")
    /\ UNCHANGED <<req, reqs, hist, rest, session, clients, store, world>>

-----------------------------------------------------------------------------
(* Sign-up and log-in.  Database calls take the signal's context and fail   *)
(* once it is cancelled.  Whether the password is right is the caller's     *)
(* affair: AuthRefused may always happen.                                    *)

CreateUser(c) ==
    /\ pc[c] = "signup"
    /\ ~ctx
    /\ req[c].user \notin accounts
    /\ accounts' = accounts \cup {req[c].user}
    /\ Goto(c, "auth")
    /\ UNCHANGED <<req, reqs, hist, rest, session, log, lossy, clients, db, gone,
                   world, proc>>

(* Username or email taken, invalid fields, or the database failed. *)
SignupRefused(c) ==
    /\ pc[c] = "signup"
    /\ Goto(c, "error")
    /\ UNCHANGED <<req, reqs, hist, rest, session, log, lossy, clients, store,
                   world, proc>>

AuthenticateUser(c) ==
    /\ pc[c] = "auth"
    /\ ~ctx
    /\ req[c].user \in accounts
    /\ Goto(c, "join")
    /\ UNCHANGED <<req, reqs, hist, rest, session, log, lossy, clients, store,
                   world, proc>>

AuthRefused(c) ==
    /\ pc[c] = "auth"
    /\ Goto(c, "error")
    /\ UNCHANGED <<req, reqs, hist, rest, session, log, lossy, clients, store,
                   world, proc>>

(* MUTANT: no duplicate check. *)
NeverTaken(u) == FALSE
Taken(u) == clients[u] # NoOne

(* finishAuth takes the lock: refuse a second session, or bind this one.    *)
DuplicateLogin(c) ==
    /\ pc[c] = "join"
    /\ MayLock
    /\ Taken(req[c].user)
    /\ Goto(c, "error")
    /\ UNCHANGED <<req, reqs, hist, rest, session, log, lossy, clients, store,
                   world, proc>>

FinishAuth(c) ==
    /\ pc[c] = "join"
    /\ MayLock
    /\ ~Taken(req[c].user)
    /\ username' = [username EXCEPT ![c] = req[c].user]
    /\ clients' = [clients EXCEPT ![req[c].user] = c]
    /\ SendEncrypted(Only(c), [kind |-> "auth_ok", user |-> req[c].user])
    /\ Goto(c, "load")
    /\ UNCHANGED <<req, reqs, hist, rest, chan, writing, taken, store, world>>

(* sendHistoryLocked: the query, then one packet per row.                   *)
HistoryOf(c) == HistoryFor(db, username[c], HistLimit)

LoadHistory(c) ==
    /\ pc[c] = "load"
    /\ Readable(HistoryOf(c))
    /\ hist' = [hist EXCEPT ![c] = HistoryOf(c)]
    /\ Goto(c, "hist")
    /\ UNCHANGED <<req, reqs, rest, session, log, lossy, clients, store, world,
                   proc>>

(* finishAuth returns the error and leaves the session registered. *)
LoadHistoryFails(c) ==
    /\ pc[c] = "load"
    /\ "dbfail" \in Env \/ ~Readable(HistoryOf(c))
    /\ lossy' = [lossy EXCEPT ![c] = TRUE]
    /\ Goto(c, "error")
    /\ UNCHANGED <<req, reqs, hist, rest, session, log, clients, store, world,
                   proc>>

SendHistoryRow(c) ==
    /\ pc[c] = "hist"
    /\ \E row \in Earliest(hist[c]) :
         /\ SendEncrypted(Only(c), [kind |-> "history", row |-> row])
         /\ hist' = [hist EXCEPT ![c] = @ \ {row}]
    /\ UNCHANGED <<pc, req, reqs, rest, session, clients, store, world>>

(* The newcomer's own peer list, after the last row of its history. *)
SendPeers(c) ==
    /\ pc[c] = "hist"
    /\ hist[c] = {}
    /\ SendEncrypted(Only(c), [kind |-> "peers", peers |-> Snapshot])
    /\ Goto(c, "join_peers")
    /\ UNCHANGED <<req, reqs, hist, rest, session, clients, store, world>>

(* broadcastPeerSyncLocked, of finishAuth and of unregister *)
BroadcastPeers(c) ==
    /\ pc[c] \in {"join_peers", "leave_peers"}
    /\ SendEncrypted(EachClient, [kind |-> "peers", peers |-> Snapshot])
    /\ Goto(c, IF pc[c] = "join_peers" THEN "join_note" ELSE "leave_note")
    /\ UNCHANGED <<req, reqs, hist, rest, session, clients, store, world>>

(* broadcastSystemLocked; then the lock is released. *)
AnnounceJoin(c) ==
    /\ pc[c] = "join_note"
    /\ SendEncrypted(EachClient, [kind |-> "joined", user |-> username[c]])
    /\ Goto(c, "loop")
    /\ UNCHANGED <<req, reqs, hist, rest, session, clients, store, world>>

AnnounceLeave(c) ==
    /\ pc[c] = "leave_note"
    /\ SendEncrypted(EachClient, [kind |-> "left", user |-> username[c]])
    /\ Return(c)
    /\ UNCHANGED <<req, reqs, hist, rest, session, clients, store, ctx>>

-----------------------------------------------------------------------------
(* Messages: save, then broadcastMessage under the read lock.               *)

SaveMessageHistory(c) ==
    /\ pc[c] = "save"
    /\ ~ctx
    /\ db' = Insert(db, req[c].mid, username[c], req[c].to, req[c].at)
    /\ gone' = gone \cup (db.rows \ db'.rows)
    /\ Goto(c, "saved")
    /\ UNCHANGED <<req, reqs, hist, rest, session, log, lossy, clients,
                   accounts, world, proc>>

SaveFails(c) ==
    /\ pc[c] = "save"
    /\ ctx \/ "dbfail" \in Env
    /\ Goto(c, "error")
    /\ UNCHANGED <<req, reqs, hist, rest, session, log, lossy, clients, store,
                   world, proc>>

BeginBroadcast(c) ==
    /\ pc[c] = "saved"
    /\ MayRLock
    /\ rest' = [rest EXCEPT ![c] = (req[c].to \cap Online) \ {username[c]}]
    /\ Goto(c, "cast")
    /\ UNCHANGED <<req, reqs, hist, session, log, lossy, clients, store, world,
                   proc>>

(* Go walks a map in no particular order. *)
BroadcastTo(c, u) ==
    /\ pc[c] = "cast"
    /\ u \in rest[c]
    /\ SendEncrypted(Only(clients[u]),
                     [kind |-> "message", mid |-> req[c].mid,
                      from |-> username[c], to |-> u, at |-> req[c].at])
    /\ rest' = [rest EXCEPT ![c] = @ \ {u}]
    /\ UNCHANGED <<pc, req, reqs, hist, session, clients, store, world>>

EndBroadcast(c) ==
    /\ pc[c] = "cast"
    /\ rest[c] = {}
    /\ Goto(c, "loop")
    /\ UNCHANGED <<req, reqs, hist, rest, session, log, lossy, clients, store,
                   world, proc>>

-----------------------------------------------------------------------------
(* unregister: only the session the map knows closes its channel.           *)

(* MUTANT: the name is looked up, the session is not compared. *)
NameKnown(c) == Authenticated(c) /\ clients[username[c]] # NoOne
Current(c) == Authenticated(c) /\ clients[username[c]] = c

(* MUTANT: delete is missing. *)
NotRemoved(u) == clients
Removed(u) == [clients EXCEPT ![u] = NoOne]

(* MUTANT: the others are not sent the new peer list. *)
OnlyANote == "leave_note"
AfterUnregister == "leave_peers"

Unregister(c) ==
    /\ pc[c] = "leave"
    /\ MayLock
    /\ Current(c)
    /\ clients' = Removed(username[c])
    /\ chan' = [chan EXCEPT ![c] = "closed"]
    /\ proc' = IF chan[c] = "closed" THEN "panicked" ELSE proc
    /\ Goto(c, AfterUnregister)
    /\ UNCHANGED <<req, reqs, hist, rest, username, writing, taken, log, lossy,
                   store, world>>

UnregisterNothing(c) ==
    /\ pc[c] = "leave"
    /\ MayLock
    /\ ~Current(c)
    /\ Return(c)
    /\ UNCHANGED <<req, reqs, hist, rest, session, log, lossy, clients, store,
                   ctx, proc>>

-----------------------------------------------------------------------------
(* writer: one packet at a time from the channel to the socket.             *)

WriterSend(c) ==
    /\ writing[c] = "run"
    /\ taken[c] < Len(log[c])
    /\ sock[c] # "shut"
    /\ taken' = [taken EXCEPT ![c] = @ + 1]
    /\ UNCHANGED <<handler, username, chan, writing, log, lossy, clients,
                   store, world, proc>>

(* The socket is gone, or the peer reads too slowly: the writer returns     *)
(* and nobody empties the channel any more.                                  *)
WriterFails(c) ==
    /\ writing[c] = "run"
    /\ taken[c] < Len(log[c])
    /\ sock[c] # "open" \/ "slow" \in Env
    /\ taken' = [taken EXCEPT ![c] = @ + 1]
    /\ writing' = [writing EXCEPT ![c] = "done"]
    /\ UNCHANGED <<handler, username, chan, log, lossy, clients, store, world,
                   proc>>

(* range over a closed channel ends when the channel is empty. *)
WriterEnds(c) ==
    /\ writing[c] = "run"
    /\ taken[c] = Len(log[c])
    /\ chan[c] = "closed"
    /\ writing' = [writing EXCEPT ![c] = "done"]
    /\ UNCHANGED <<handler, username, chan, taken, log, lossy, clients, store,
                   world, proc>>

-----------------------------------------------------------------------------
(* Shutdown: RunServer and Close.                                            *)

Signal ==
    /\ "signal" \in Env
    /\ proc = "up"
    /\ ~ctx
    /\ ctx' = TRUE
    /\ UNCHANGED <<handler, session, log, lossy, clients, store, sock, proc>>

(* Close, under the lock: shut every registered client, forget them all.    *)
CloseClients ==
    /\ ctx
    /\ proc = "up"
    /\ MayLock
    /\ LET shut == {c \in Conns : Entries(c) # {}}
       IN  /\ proc' = IF \E c \in shut : \/ chan[c] = "closed"
                                         \/ Cardinality(Entries(c)) > 1
                      THEN "panicked" ELSE "closing"
           /\ chan' = [c \in Conns |->
                         IF c \in shut THEN "closed" ELSE chan[c]]
           /\ sock' = [c \in Conns |-> IF c \in shut THEN "shut" ELSE sock[c]]
    /\ clients' = [u \in Users |-> NoOne]
    /\ UNCHANGED <<handler, username, writing, taken, log, lossy, store, ctx>>

CloseListener ==
    /\ proc = "closing"
    /\ proc' = "closed"
    /\ UNCHANGED <<handler, session, log, lossy, clients, store, world>>

(* Accept fails, wg.Wait returns once every handler has, main returns. *)
Exit ==
    /\ proc = "closed"
    /\ \A c \in Conns : pc[c] \in {"off", "done"}
    /\ proc' = "exited"
    /\ UNCHANGED <<handler, session, log, lossy, clients, store, world>>

-----------------------------------------------------------------------------
(* The environment: clients come and go, the process may be killed.         *)

HangUp(c) ==
    /\ "hangup" \in Env
    /\ sock[c] = "open"
    /\ sock' = [sock EXCEPT ![c] = "gone"]
    /\ UNCHANGED <<handler, session, log, lossy, clients, store, ctx, proc>>

Each(v) == [c \in Conns |-> v]

Fresh ==
    /\ pc = Each("off")
    /\ req = Each(NoRequest)
    /\ hist = Each({})
    /\ rest = Each({})
    /\ username = Each(NoOne)
    /\ chan = Each("none")
    /\ log = Each(<<>>)
    /\ taken = Each(0)
    /\ writing = Each("none")
    /\ sock = Each("none")
    /\ clients = [u \in Users |-> NoOne]
    /\ ctx = FALSE
    /\ proc = "up"
    /\ lossy = Each(FALSE)

(* Killed and started again: only the database file remains.                *)
CrashRestart ==
    /\ "crash" \in Env
    /\ pc' = Each("off")
    /\ req' = Each(NoRequest)
    /\ hist' = Each({})
    /\ rest' = Each({})
    /\ username' = Each(NoOne)
    /\ chan' = Each("none")
    /\ log' = Each(<<>>)
    /\ taken' = Each(0)
    /\ writing' = Each("none")
    /\ sock' = Each("none")
    /\ clients' = [u \in Users |-> NoOne]
    /\ ctx' = FALSE
    /\ proc' = "up"
    /\ lossy' = Each(FALSE)
    /\ UNCHANGED <<reqs, store>>

(* The process is gone, or all the connections of the bound Conns have been *)
(* served and the server waits in Accept.                                   *)
Stopped ==
    /\ ~Running \/ \A c \in Conns : pc[c] = "done"
    /\ UNCHANGED vars

-----------------------------------------------------------------------------
Init ==
    /\ Fresh
    /\ reqs = Each(0)
    /\ accounts \in SUBSET Users
    /\ db = EmptyTable
    /\ gone = {}

JoinSteps(c) ==
    \/ CreateUser(c)
    \/ SignupRefused(c)
    \/ AuthenticateUser(c)
    \/ AuthRefused(c)
    \/ DuplicateLogin(c)
    \/ FinishAuth(c)
    \/ LoadHistory(c)
    \/ LoadHistoryFails(c)
    \/ SendHistoryRow(c)
    \/ SendPeers(c)
    \/ BroadcastPeers(c)
    \/ AnnounceJoin(c)

MessageSteps(c) ==
    \/ SaveMessageHistory(c)
    \/ SaveFails(c)
    \/ BeginBroadcast(c)
    \/ \E u \in Users : BroadcastTo(c, u)
    \/ EndBroadcast(c)

LeaveSteps(c) ==
    \/ Unregister(c)
    \/ UnregisterNothing(c)
    \/ AnnounceLeave(c)

WriterSteps(c) == WriterSend(c) \/ WriterFails(c) \/ WriterEnds(c)

ReadSteps(c) ==
    \/ Accept(c)
    \/ Handshake(c)
    \/ HandshakeFails(c)
    \/ LoopTop(c)
    \/ \E r \in Request : ReadPacket(c, r)
    \/ ReadError(c)
    \/ ReplyError(c)

ConnSteps(c) ==
    ReadSteps(c) \/ JoinSteps(c) \/ MessageSteps(c) \/ LeaveSteps(c)
      \/ WriterSteps(c) \/ HangUp(c)

ServerSteps == Signal \/ CloseClients \/ CloseListener \/ Exit

Next ==
    \/ Running /\ ((\E c \in Conns : ConnSteps(c)) \/ ServerSteps)
    \/ CrashRestart
    \/ Stopped

Spec == Init /\ [][Next]_vars

-----------------------------------------------------------------------------
(* Type correctness.                                                        *)

TypeOK ==
    /\ pc \in [Conns -> PcStates]
    /\ req \in [Conns -> Request]
    /\ reqs \in [Conns -> Nat]
    /\ hist \in [Conns -> SUBSET HistoryRow]
    /\ rest \in [Conns -> SUBSET Users]
    /\ username \in [Conns -> Users \cup {NoOne}]
    /\ chan \in [Conns -> {"none", "open", "closed"}]
    /\ log \in [Conns -> Seq(Packet)]
    /\ taken \in [Conns -> Nat]
    /\ writing \in [Conns -> {"none", "run", "done"}]
    /\ sock \in [Conns -> {"none", "open", "gone", "shut"}]
    /\ clients \in [Users -> Conns \cup {NoOne}]
    /\ accounts \in SUBSET Users
    /\ db \in Table(Mids, Users, Stamps)
    /\ gone \in SUBSET HistoryRow
    /\ ctx \in BOOLEAN
    /\ proc \in {"up", "closing", "closed", "exited", "panicked"}
    /\ lossy \in [Conns -> BOOLEAN]
=============================================================================
