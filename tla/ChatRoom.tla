------------------------------ MODULE ChatRoom ------------------------------
(***************************************************************************)
(* What the chat server promises the room, with no handlers, locks, queues  *)
(* or sockets in sight: who is present, which rows are archived, and what   *)
(* has been put into each connection's box.  ChatServer implements it       *)
(* (RoomMapping).  The promises that the shape of the steps makes:          *)
(*   - one change of the membership at a time: while a join or a leave is   *)
(*     not finished nobody else joins or leaves, and no live message is     *)
(*     delivered, so a newcomer's history is not mixed with live messages   *)
(*     and no message is delivered against a list of peers in transit;      *)
(*   - a newcomer gets the rows that the archive had for it when it came,   *)
(*     the oldest up to the limit, each once and by time, then the peers,   *)
(*     and everybody gets the peers and a note, in that order;              *)
(*   - only a present user's message enters the archive, and whole; a row   *)
(*     gives way only to a later one of its identifier and reader;          *)
(*   - a message is delivered only after it is archived, once to each of its *)
(*     readers that is present, never to its author, and an author's        *)
(*     messages one after the other;                                        *)
(*   - a box only grows, by at most one packet at a time.                   *)
(* What it does not promise: that a packet arrives (a full queue drops it), *)
(* that a join is announced (its history may be unreadable), that two       *)
(* readers get two messages in one order, that an identifier is used once,  *)
(* or that a row of a newcomer's history does not come a second time as a   *)
(* live message.                                                            *)
(***************************************************************************)
EXTENDS Sequences, HistoryTable

CONSTANTS
    Conns, Users, Mids, Stamps, NoOne,
    HistLimit,  \* rows a newcomer is sent at most
    MayDrop     \* FALSE: rooms in which no queue overflows

VARIABLES
    member,   \* the connection of each present user
    change,   \* the change of the membership that is being told
    said,     \* the live packets of the message each connection is saying
    archive,  \* the table of the messages, kept for ever
    box       \* what each connection has been sent

room == <<member, change, said, archive, box>>

(* due: the rows that the newcomer has still to be sent. *)
Change(u, step) == [who |-> u, step |-> step, due |-> {}]
Settled == Change(NoOne, "none")

Present    == {u \in Users : member[u] # NoOne}
Members    == {member[u] : u \in Present}
PeerList   == {[user |-> u, key |-> member[u]] : u \in Present}

(* p is offered to the connections S; each of them may drop it. *)
Offer(S, p) ==
    \E got \in IF MayDrop THEN SUBSET S ELSE {S} :
      box' = [c \in Conns |-> IF c \in got THEN Append(box[c], p) ELSE box[c]]

Live(mid, from, to, at) ==
    [kind |-> "message", mid |-> mid, from |-> from, to |-> to, at |-> at]

-----------------------------------------------------------------------------
Open(c) ==
    /\ box[c] = <<>>
    /\ Offer({c}, [kind |-> "handshake_ok"])
    /\ UNCHANGED <<member, change, said, archive>>

Refuse(c) ==
    /\ box[c] # <<>>
    /\ Offer({c}, [kind |-> "error"])
    /\ UNCHANGED <<member, change, said, archive>>

Join(c, u) ==
    /\ change = Settled
    /\ box[c] # <<>>
    /\ member[u] = NoOne
    /\ c \notin Members
    /\ member' = [member EXCEPT ![u] = c]
    /\ change' = Change(u, "look")
    /\ Offer({c}, [kind |-> "auth_ok", user |-> u])
    /\ UNCHANGED <<said, archive>>

(* The newcomer's history, as the archive has it now. *)
Look ==
    /\ change.step = "look"
    /\ LET rows == HistoryFor(archive, change.who, HistLimit)
       IN  /\ Readable(rows)
           /\ change' = [Change(change.who, "recall") EXCEPT !.due = rows]
    /\ UNCHANGED <<member, said, archive, box>>

(* The archive could not be read: the join ends here, and nobody is told.   *)
RecallFails ==
    /\ change.step = "look"
    /\ change' = Settled
    /\ UNCHANGED <<member, said, archive, box>>

Recall(row) ==
    /\ change.step = "recall"
    /\ row \in Earliest(change.due)
    /\ change' = [change EXCEPT !.due = @ \ {row}]
    /\ Offer({member[change.who]}, [kind |-> "history", row |-> row])
    /\ UNCHANGED <<member, said, archive>>

Welcome ==
    /\ change.step = "recall"
    /\ change.due = {}
    /\ change' = Change(change.who, "joined peers")
    /\ Offer({member[change.who]}, [kind |-> "peers", peers |-> PeerList])
    /\ UNCHANGED <<member, said, archive>>

TellPeers ==
    /\ change.step \in {"joined peers", "left peers"}
    /\ change' = Change(change.who, IF change.step = "joined peers"
                                    THEN "joined" ELSE "left")
    /\ Offer(Members, [kind |-> "peers", peers |-> PeerList])
    /\ UNCHANGED <<member, said, archive>>

TellNote ==
    /\ change.step \in {"joined", "left"}
    /\ change' = Settled
    /\ Offer(Members, [kind |-> change.step, user |-> change.who])
    /\ UNCHANGED <<member, said, archive>>

(* Whether the identifier is new is the author's affair. *)
Post(c, u, mid, tos, at) ==
    /\ member[u] = c
    /\ said[c] = {}
    /\ archive' = Insert(archive, mid, u, tos, at)
    /\ said' = [said EXCEPT ![c] = {Live(mid, u, v, at) : v \in tos \ {u}}]
    /\ UNCHANGED <<member, change, box>>

(* Who is absent when the delivery begins will find it in the archive.      *)
Address(c) ==
    /\ change = Settled
    /\ said' = [said EXCEPT ![c] = {p \in @ : p.to \in Present}]
    /\ UNCHANGED <<member, change, archive, box>>

Deliver(c, p) ==
    /\ change = Settled
    /\ p \in said[c]
    /\ p.to \in Present
    /\ said' = [said EXCEPT ![c] = @ \ {p}]
    /\ Offer({member[p.to]}, p)
    /\ UNCHANGED <<member, change, archive>>

Leave(u) ==
    /\ change = Settled
    /\ member[u] # NoOne
    /\ member' = [member EXCEPT ![u] = NoOne]
    /\ change' = Change(u, "left peers")
    /\ UNCHANGED <<said, archive, box>>

(* The shutdown tells nobody. *)
CloseRoom ==
    /\ change = Settled
    /\ member' = [u \in Users |-> NoOne]
    /\ UNCHANGED <<change, said, archive, box>>

(* Only the archive outlives the process. *)
Restart ==
    /\ member' = [u \in Users |-> NoOne]
    /\ change' = Settled
    /\ said' = [c \in Conns |-> {}]
    /\ box' = [c \in Conns |-> <<>>]
    /\ UNCHANGED archive

-----------------------------------------------------------------------------
Init ==
    /\ member = [u \in Users |-> NoOne]
    /\ change = Settled
    /\ said = [c \in Conns |-> {}]
    /\ box = [c \in Conns |-> <<>>]
    /\ archive \in Table(Mids, Users, Stamps)

Speak ==
    \/ \E c \in Conns, u \in Users, mid \in Mids, at \in Stamps,
          tos \in (SUBSET Users) \ {{}} : Post(c, u, mid, tos, at)
    \/ \E c \in Conns : Address(c) \/ \E p \in said[c] : Deliver(c, p)

ComeAndGo ==
    \/ \E c \in Conns : Open(c) \/ Refuse(c)
    \/ \E c \in Conns, u \in Users : Join(c, u)
    \/ \E u \in Users : Leave(u)
    \/ \E row \in change.due : Recall(row)
    \/ Look \/ RecallFails \/ Welcome \/ TellPeers \/ TellNote
    \/ CloseRoom \/ Restart

Next == ComeAndGo \/ Speak

Spec == Init /\ [][Next]_room
=============================================================================
