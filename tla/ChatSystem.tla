----------------------------- MODULE ChatSystem -----------------------------
(***************************************************************************)
(* The whole system, end to end: programs with their key files, the room    *)
(* the server keeps (ChatRoom, which ChatServer implements), and between    *)
(* them what a client knows of the room and what it can read.               *)
(*                                                                         *)
(* A client encrypts to the peers of the last peer_sync it has read, under  *)
(* the keys it found there; the list may be behind the room, and the        *)
(* message reaches the server later still.  A packet may be dropped by a    *)
(* full queue, a newcomer's history may be unreadable, and a list of peers   *)
(* with one bad key is rejected.                                             *)
(*                                                                         *)
(* The server does not look at the key a client announces, as long as there  *)
(* is one.  The Foreign programs announce something that is no key, and are  *)
(* this client in all else.                                                  *)
(***************************************************************************)
EXTENDS IdentityKeys, Sequences

CONSTANTS Stamps, Calendar, HistLimit, Foreign

VARIABLES
    member, change, said, archive, box,  \* the room
    heard,   \* how many packets of its box each client has read
    peers,   \* TransportClient.peers
    sealed,  \* the message of each connection: the peers it is encrypted to
    untold   \* HISTORY: the members who did not get the last list of peers

Room == INSTANCE ChatRoom WITH Mids <- Conns, MayDrop <- TRUE

client == <<heard, peers, sealed>>
room   == <<member, change, said, archive, box>>
vars   == <<identity, room, client, untold>>

-----------------------------------------------------------------------------
(* A program starts and dials; the server opens its box (Dial).             *)
Start(c, u) == Begin(c, u) /\ Room!Open(c) /\ UNCHANGED <<client, untold>>

KeySteps(c) ==
    /\ \/ ReadKeyFile(c) \/ TruncateKeyFile(c) \/ WriteKeyFile(c)
       \/ GiveUp(c) \/ WriteKeyFails(c) \/ TryAgain(c)
    /\ UNCHANGED <<room, client, untold>>

(* SendAuth, and the server lets it in.  (While the name is taken it is      *)
(* refused, and may ask again.)                                              *)
LogIn(c) ==
    /\ prog[c] = "ready"
    /\ Room!Join(c, who[c])
    /\ prog' = [prog EXCEPT ![c] = "in"]
    /\ UNCHANGED <<who, key, file, raced, halfway, client, untold>>

(* What a client knew of the room goes with its program. *)
Forget(gone) ==
    /\ heard' = [c \in Conns |-> IF c \in gone THEN 0 ELSE heard[c]]
    /\ peers' = [c \in Conns |-> IF c \in gone THEN {} ELSE peers[c]]
    /\ UNCHANGED sealed

Quit(c) == End(c) /\ Forget({c}) /\ UNCHANGED <<room, untold>>

(* The server notices that the connection has gone. *)
DropOut(u) ==
    /\ member[u] # NoOne
    /\ prog[member[u]] = "dead"
    /\ Room!Leave(u)
    /\ untold' = untold \ {member[u]}
    /\ UNCHANGED <<identity, client>>

(* The server dies and is started again: every connection breaks.  A program *)
(* that is about its key file finishes that first.                            *)
ServerRestarts ==
    LET cut == {c \in Conns : prog[c] \in {"ready", "in"}}
    IN  /\ Room!Restart
        /\ \E c \in Conns : box[c] # <<>>
        /\ prog' = [c \in Conns |-> IF c \in cut THEN "dead" ELSE prog[c]]
        /\ Forget(cut)
        /\ untold' = {}
        /\ UNCHANGED <<who, key, file, raced, halfway>>

(* Those of S whom the list of peers that is due now does not reach.         *)
Passes(S) == untold' = {c \in Conns : c \in untold \cup S /\ box'[c] = box[c]}

ListSteps ==
    \/ Room!Welcome /\ Passes({member[change.who]})
    \/ (Room!TellPeers \/ Room!RecallFails) /\ Passes(Room!Members)

MailSteps ==
    /\ \/ Room!Look \/ \E row \in change.due : Room!Recall(row)
       \/ Room!TellNote
       \/ \E c \in Conns : Room!Address(c) \/ \E p \in said[c] : Room!Deliver(c, p)
    /\ UNCHANGED untold

(* Whatever the room has to tell. *)
RoomSteps == (ListSteps \/ MailSteps) /\ UNCHANGED <<identity, client>>

-----------------------------------------------------------------------------
(* The client.                                                              *)

(* ParsePublicKey takes every key of the list. *)
Accepted(list) == \A e \in list : e.key \notin Foreign

(* MUTANT: a new list is added to the old one. *)
Merged(old, new) == IF Accepted(new) THEN old \cup new ELSE old
(* UpdatePeers: a list replaces the old one, or is rejected as a whole.      *)
UpdatePeers(old, new) == IF Accepted(new) THEN new ELSE old

ReadPacket(c) ==
    /\ prog[c] = "in"
    /\ heard[c] < Len(box[c])
    /\ heard' = [heard EXCEPT ![c] = @ + 1]
    /\ LET p == box[c][heard[c] + 1]
       IN  peers' = IF p.kind = "peers"
                    THEN [peers EXCEPT ![c] = UpdatePeers(@, p.peers)]
                    ELSE peers
    /\ UNCHANGED <<identity, room, sealed, untold>>

(* BOUND: one message per connection, so the connection names it.           *)
EncryptMessage(c) ==
    /\ prog[c] = "in"
    /\ peers[c] # {}
    /\ sealed[c] = {}
    /\ sealed' = [sealed EXCEPT ![c] = peers[c]]
    /\ UNCHANGED <<identity, room, heard, peers, untold>>

Recipients(m) == {e.user : e \in sealed[m]}

(* The message arrives, once, if its author's session is still there.       *)
MessageArrives(c) ==
    /\ sealed[c] # {}
    /\ member[who[c]] = c
    /\ \A r \in archive.rows : r.mid # c
    /\ \E at \in Stamps : Room!Post(c, who[c], c, Recipients(c), at)
    /\ UNCHANGED <<identity, client, untold>>

(* The key under which message m was wrapped for user u. *)
WrappedFor(m, u) == {key[e.key] : e \in {x \in sealed[m] : x.user = u}}

(* DecryptMessage *)
CanRead(c, m) == key[c] \in WrappedFor(m, who[c])

-----------------------------------------------------------------------------
Init ==
    /\ KeyInit
    /\ archive = Room!EmptyTable /\ Room!Init
    /\ heard = [c \in Conns |-> 0]
    /\ peers = [c \in Conns |-> {}]
    /\ sealed = [c \in Conns |-> {}]
    /\ untold = {}

ClientSteps(c) ==
    \/ \E u \in Users : Start(c, u)
    \/ KeySteps(c) \/ LogIn(c) \/ Quit(c)
    \/ ReadPacket(c) \/ EncryptMessage(c) \/ MessageArrives(c)

Finished ==
    /\ \A c \in Conns : prog[c] = "dead"
    /\ UNCHANGED vars

Next ==
    \/ \E c \in Conns : ClientSteps(c)
    \/ \E u \in Users : DropOut(u)
    \/ RoomSteps \/ ServerRestarts \/ Finished

Spec == Init /\ [][Next]_vars
=============================================================================
