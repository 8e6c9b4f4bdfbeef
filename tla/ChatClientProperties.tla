------------------------ MODULE ChatClientProperties ------------------------
(***************************************************************************)
(* What the client's user relies on: that the window shows the session the  *)
(* server knows, that nothing that arrives is lost on the way to it, and    *)
(* that it never waits for ever.  Several promises are excused once an      *)
(* event of an earlier connection has been applied (stale): the gap between *)
(* the check and the send of emit lets that happen.                          *)
(***************************************************************************)
EXTENDS ChatClient

Queued(e) == \E i \in DOMAIN incoming : incoming[i] = e

(* The event that ends connection k for the UI has still to be applied. *)
DownComing(k) == reader[k].at # "done" \/ Queued(DownEvent(k))

(***************************************************************************)
(* When the window shows the chat, the connection is authenticated with the *)
(* server under the very name the window shows, and is up, or else the      *)
(* event that will take the chat away is on its way.  So no chat view over  *)
(* a connection that is dead, logged out, or another user's.                *)
(***************************************************************************)
SessionHonest ==
    session.joined /\ ~stale =>
      /\ token # 0
      /\ auth[token] = session.username
      /\ (client = token /\ link[token] = "up") \/ DownComing(token)

(***************************************************************************)
(* The client never sends a second login on a connection the server has     *)
(* authenticated: the server takes it and rebinds the session, which is the *)
(* assumption "relogin" is not in Env under which ChatServer is safe.       *)
(***************************************************************************)
OneLogin ==
    ~stale => \A k \in Conns : served[k] < Len(asked[k]) => auth[k] = NoOne

(* Packet i of connection k is with its readLoop. *)
Held(k, i) ==
    \/ reader[k].at = "handle" /\ got[k] = i
    \/ reader[k].at \in {"emit", "push"} /\ reader[k].event = [ShowEvent(k) EXCEPT !.nth = i]

(***************************************************************************)
(* Every line the current connection has received and could read is in the  *)
(* chat or on its way there, once and in the server's order: the channel is *)
(* bounded, but its senders wait.                                           *)
(***************************************************************************)
NothingLost ==
    \A k \in Conns \cap {client} :
      /\ \A i \in 1..got[k] :
           wire[k][i].kind \in {"system", "message"} /\ <<k, i>> \notin missed =>
             \/ \E j \in DOMAIN chat : chat[j] = <<k, i>>
             \/ Queued([ShowEvent(k) EXCEPT !.nth = i])
             \/ Held(k, i)
      /\ \A i, j \in DOMAIN chat :
           i < j /\ chat[i][1] = k /\ chat[j][1] = k /\ chat[j][2] # 0
             => chat[i][2] < chat[j][2]

(* Packet i of connection k is a message to open with the key it holds. *)
Openable(k, i) == wire[k][i].kind = "message" /\ wire[k][i].key = key[k]

(***************************************************************************)
(* Messages that the client has the key for are lost only at the start of a  *)
(* session: once one of them was read, all later ones are.  In between there *)
(* may be others, wrapped under a key that this connection does not hold.    *)
(***************************************************************************)
MissedOnlyAtFirst ==
    ~stale =>
      \A m \in missed : m[1] = client /\ Openable(client, m[2]) =>
        \A i \in 1..(m[2] - 1) : Openable(client, i) => <<client, i>> \in missed

(***************************************************************************)
(* README.md:236: at a login the stored messages are sent "so the client    *)
(* can display them".  Every history row that the current connection has    *)
(* received, wrapped under the key it holds, could be read.                 *)
(***************************************************************************)
HistoryShown ==
    \A m \in missed : m[1] = client =>
      ~(wire[client][m[2]].history /\ wire[client][m[2]].key = key[client])

(***************************************************************************)
(* The key that an account is announced under is that account's, across     *)
(* reconnects, cuts and refused log-ins, except after another account was   *)
(* tried first on the same connection: EnsureIdentityKey keeps what it has  *)
(* loaded, and the second account is announced under the first one's key.   *)
(***************************************************************************)
AnnouncedKeyIsOwn ==
    \A k \in Conns :
      auth[k] # NoOne /\ key[k] # auth[k] => asked[k][1] # auth[k]

-----------------------------------------------------------------------------
(***************************************************************************)
(* Fairness: readLoops and the UI goroutine run (Go's scheduler), a frame   *)
(* that was asked for comes (Gio), a dial ends and the server answers or    *)
(* the connection breaks (TCP; neither has a timeout of its own in the      *)
(* code).  A readLoop that waits for clientMu or for room in Incoming gets   *)
(* them in the end, however often the user reconnects: sync.Mutex and        *)
(* channels serve who waits.  Nothing makes the user click.                  *)
(***************************************************************************)
ClientFairness ==
    /\ WF_vars(Alive /\ FrameSteps)
    /\ WF_vars(Alive /\ Dialled)
    /\ \A k \in Conns : /\ SF_vars(Alive /\ ReadLoop(k))
                        /\ WF_vars(Alive /\ Answer(k))

FairSpec == Spec /\ ClientFairness

(***************************************************************************)
(* What has been put into Incoming is applied: each readLoop asks for a     *)
(* frame after its send, so the last event is not left lying.               *)
(***************************************************************************)
EventsAreApplied == incoming # <<>> ~> (incoming = <<>> \/ ~Alive)

(***************************************************************************)
(* The readLoop of a connection that is gone ends, although it may have to  *)
(* wait for room in Incoming and for clientMu, which Connect keeps while it  *)
(* dials.                                                                   *)
(***************************************************************************)
ReadersEnd ==
    \A k \in Conns :
      link[k] \in {"cut", "shut"} ~> (reader[k].at = "done" \/ ~Alive)

(* The window notices that its connection broke. *)
DropIsNoticed ==
    \A k \in Conns :
      (client = k /\ link[k] = "cut") ~> (client # k \/ ~session.joined \/ ~Alive)

(***************************************************************************)
(* The form does not stay busy for ever: a login is answered, or its        *)
(* connection ends and says so.  Claimed without "latewrite".               *)
(***************************************************************************)
LoadingEnds == session.loading ~> (~session.loading \/ ~Alive)
=============================================================================
