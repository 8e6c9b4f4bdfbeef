------------------------ MODULE ChatServerProperties ------------------------
(***************************************************************************)
(* What ChatServer is for: the registry, the peer lists, the join sequence *)
(* and the delivery of messages.  The environments under which each        *)
(* property is claimed are in README.md and in the MC configurations.      *)
(***************************************************************************)
EXTENDS ChatServer

(* A handler that has bound its connection to a name and has not left. *)
Bound(c) == Authenticated(c) /\ pc[c] \in
    {"load", "hist", "join_peers", "join_note", "loop", "read", "save",
     "saved", "cast", "error", "leave"}

(***************************************************************************)
(* The registry and the sessions tell the same story.  An entry names a    *)
(* connection that is bound to that very user, whose handler still serves   *)
(* it, whose channel is open and whose account exists; and every bound      *)
(* session is in the registry, until the shutdown empties it.  Claimed      *)
(* without "relogin".                                                       *)
(***************************************************************************)
RegistryMatchesSessions ==
    Running =>
      /\ \A u \in Online :
           LET c == clients[u]
           IN  /\ Bound(c)
               /\ username[c] = u
               /\ chan[c] = "open"
               /\ u \in accounts
      /\ \A c \in Conns : Bound(c) /\ ~ctx => clients[username[c]] = c

(***************************************************************************)
(* No goroutine ever sends on a closed channel, nor closes one twice:       *)
(* either would end the server for everybody.  Claimed without "relogin"    *)
(* and "signal"; with "signal" it fails (run shutdown_panic).               *)
(***************************************************************************)
NoPanic == proc # "panicked"

(* The last peer list a session's channel accepted is the set S. *)
LastPeerListIs(c, S) ==
    \E i \in DOMAIN log[c] :
      /\ log[c][i].kind = "peers"
      /\ log[c][i].peers = S
      /\ \A j \in DOMAIN log[c] : j > i => log[c][j].kind # "peers"

(***************************************************************************)
(* Whenever the lock is free, every session has been told exactly who is    *)
(* online and under which key: a client encrypts to the peers of its last   *)
(* peer_sync, so a missing or stale entry is a message somebody cannot      *)
(* read.  Excused: sessions whose queue overflowed.  Claimed without        *)
(* "dbfail" and for timestamps that are dates: a history that cannot be read *)
(* ends a join before its broadcast.                                         *)
(***************************************************************************)
PeerViewCurrent ==
    Running /\ ~WriteLocked =>
      \A c \in Conns :
        Entries(c) # {} /\ ~lossy[c] => LastPeerListIs(c, Snapshot)

(* A message that somebody receives or is about to receive is this row's. *)
IsRow(m, r) == m.mid = r.mid /\ m.from = r.from /\ Datetime(m.at) = r.at

(* This row is in the session's channel, or its message as a live one. *)
GotRow(c, r) ==
    \E i \in DOMAIN log[c] :
      \/ log[c][i].kind = "history" /\ log[c][i].row = r
      \/ log[c][i].kind = "message" /\ IsRow(log[c][i], r)

(* The handler that saved this row has still to broadcast it to its reader. *)
BroadcastPending(r) ==
    \E d \in Conns :
      /\ req[d].type = "message"
      /\ IsRow([mid |-> req[d].mid, from |-> username[d], at |-> req[d].at], r)
      /\ \/ pc[d] = "saved" /\ r.to \in req[d].to
         \/ pc[d] = "cast" /\ r.to \in rest[d]

(***************************************************************************)
(* No message falls between the history of a login and the broadcasts after *)
(* it: for every session whose join is complete, each stored row addressed  *)
(* to its user has been sent to it as history or live, or its broadcast is  *)
(* still to come.  This is what saving before broadcasting, and loading     *)
(* under the registration's lock, are for; a row that took the place of      *)
(* another one, by a message identifier used again, is one more to be told.  *)
(* Excused: a session's own messages, overflowed queues, more history than   *)
(* the limit.                                                                *)
(***************************************************************************)
NoMessageMissed ==
    Running =>
      \A u \in Online :
        LET c == clients[u]
        IN  /\ pc[c] \notin {"load", "hist"}
            /\ ~lossy[c]
            /\ Cardinality(Inbox(db, u)) <= HistLimit
            => \A r \in Inbox(db, u) :
                 r.from # u => GotRow(c, r) \/ BroadcastPending(r)

(***************************************************************************)
(* What one client receives arrives in the order the client relies on:      *)
(* handshake_ok first; auth_ok before anything about the room; the history  *)
(* before the first peer list; peer list before any live message; and the   *)
(* history itself oldest first.  It holds because the whole join runs       *)
(* under the lock that every broadcast needs.                               *)
(***************************************************************************)
Stage(p) ==
    CASE p.kind \in {"handshake_ok"}              -> 0
      [] p.kind \in {"auth_ok"}                   -> 1
      [] p.kind \in {"history"}                   -> 2
      [] p.kind \in {"peers", "joined", "left", "message"} -> 3
      [] OTHER                                    -> 4

JoinOrder ==
    \A c \in Conns :
      /\ \A i, j \in DOMAIN log[c] :
           i < j /\ Stage(log[c][i]) # 4 /\ Stage(log[c][j]) # 4
             => Stage(log[c][i]) <= Stage(log[c][j])
      /\ \A i, j \in DOMAIN log[c] :
           i < j /\ log[c][i].kind = "history" /\ log[c][j].kind = "history"
             => Before(log[c][i].row, log[c][j].row)
      /\ \A i \in DOMAIN log[c] :
           log[c][i].kind = "message" /\ ~lossy[c]
             => \E j \in 1..(i - 1) : log[c][j].kind = "peers"

(* The table has this row, or a later one for its identifier and reader. *)
KeptOrReplaced(r) == \E s \in db.rows : SameKey(r, s) /\ r.id <= s.id

(***************************************************************************)
(* A message somebody has seen is one the database has, for that reader and *)
(* from that sender: a crash after a delivery never leaves the room with a  *)
(* message its history does not contain.  Only a later save of the same      *)
(* identifier for the same reader, by whomever, takes its row's place, and   *)
(* then that reader's history has the later one.                             *)
(***************************************************************************)
SeenIsStored ==
    \A c \in Conns : \A i \in DOMAIN log[c] :
      LET p == log[c][i]
      IN  p.kind = "message" =>
            /\ username[c] = p.to
            /\ p.from # p.to
            /\ \E r \in db.rows \cup gone :
                 IsRow(p, r) /\ r.to = p.to /\ KeptOrReplaced(r)

OwnerStep ==
    \A u \in Online :
      clients'[u] # clients[u] =>
        \/ pc[clients[u]] = "leave" /\ pc'[clients[u]] = "leave_peers"
        \/ proc = "up" /\ ctx /\ proc' # "up"
        \/ pc'[clients[u]] = "off"

(***************************************************************************)
(* An entry leaves the registry by the hand of its own session, or with all *)
(* the others when the server closes or dies.  The name a session is bound  *)
(* to is not enough to know the owner: during a shutdown a late login can   *)
(* bind a name whose former session has still to leave.                     *)
(***************************************************************************)
OwnerLeaves == [][OwnerStep]_vars

(***************************************************************************)
(* A session that was ever registered leaves a closed channel behind, the   *)
(* only thing that ends its writer goroutine, on every way out of the loop  *)
(* and through a shutdown in any order.  (Sessions that never log in have   *)
(* no such end: their writer stays.)  Claimed without "relogin".            *)
(***************************************************************************)
WriterReleased ==
    Running =>
      \A c \in Conns :
        Authenticated(c) /\ pc[c] \in {"leave_peers", "leave_note", "done"}
          => chan[c] = "closed"

-----------------------------------------------------------------------------
(***************************************************************************)
(* Fairness: a goroutine that can run does (Go's scheduler); a goroutine    *)
(* waiting for mu gets it in the end (sync.RWMutex admits no starvation),   *)
(* although it is enabled only now and then; a read from a dead socket      *)
(* returns.  Nothing makes a client send, hang up or fail, and nothing      *)
(* makes a writer move: "one slow client shouldn't block everyone else"     *)
(* (README.md:242), so no promise below rests on the writers.               *)
(***************************************************************************)
Proceeds(c) ==
    \/ LoopTop(c) \/ ReplyError(c)
    \/ (sock[c] # "open" /\ ReadError(c))
    \/ (pc[c] # "join" /\ pc[c] # "leave" /\ pc[c] # "saved"
          /\ (JoinSteps(c) \/ MessageSteps(c) \/ LeaveSteps(c)))

AcquiresLock(c) ==
    DuplicateLogin(c) \/ FinishAuth(c) \/ BeginBroadcast(c)
      \/ Unregister(c) \/ UnregisterNothing(c)

HandlerFairness ==
    \A c \in Conns : /\ WF_vars(Running /\ Proceeds(c))
                     /\ SF_vars(Running /\ AcquiresLock(c))

ShutdownFairness ==
    /\ SF_vars(Running /\ CloseClients)
    /\ WF_vars(Running /\ CloseListener)
    /\ WF_vars(Running /\ Exit)

FairSpec == Spec /\ HandlerFairness /\ ShutdownFairness

(***************************************************************************)
(* A user whose connection died is not shut out: the dead session gives the *)
(* name back, so a new login can succeed.                                   *)
(***************************************************************************)
NameIsReleased ==
    \A c \in Conns : \A u \in Users :
      (clients[u] = c /\ sock[c] = "gone") ~> (clients[u] # c)

(***************************************************************************)
(* Every request a handler has read is finished: it comes back to its read  *)
(* or ends; no wait for the lock or for a full queue holds it for ever.     *)
(***************************************************************************)
RequestsFinish ==
    \A c \in Conns : (pc[c] \notin {"off", "handshake", "read", "done"})
                        ~> (pc[c] \in {"read", "done"})

(***************************************************************************)
(* README.md:262 and 264: the shutdown waits for every client goroutine and *)
(* the server will not hang.                                                *)
(***************************************************************************)
ShutdownCompletes == ctx ~> (proc = "exited")

=============================================================================
