------------------------ MODULE ChatSystemProperties ------------------------
(* What a user may expect of the system as a whole. *)
EXTENDS ChatSystem

SystemTypeOK ==
    /\ prog \in [Conns -> ProgStates]
    /\ who \in [Conns -> Users \cup {NoOne}]
    /\ key \in [Conns -> Conns \cup {NoOne}]
    /\ file \in [Users -> Conns \cup {"none", "torn"}]
    /\ raced \in SUBSET Users
    /\ halfway \in SUBSET Users
    /\ heard \in [Conns -> Nat]
    /\ peers \in [Conns -> SUBSET [user: Users, key: Conns]]
    /\ sealed \in [Conns -> SUBSET [user: Users, key: Conns]]
    /\ member \in [Users -> Conns \cup {NoOne}]
    /\ untold \in SUBSET Conns

(***************************************************************************)
(* The key a session has announced to the room is the one its account's key *)
(* file holds, so the next session of the account will have it too.           *)
(* Excused: a file that two first starts created at once, where the second  *)
(* write wins and the first program goes on with a key nobody will have.     *)
(***************************************************************************)
AnnouncedIsOnDisk ==
    \A c \in Conns :
      prog[c] = "in" /\ who[c] \notin raced => file[who[c]] = key[c]

Mail(c) == {box[c][i].mid : i \in {j \in DOMAIN box[c] : box[c][j].kind = "message"}}
             \cup {box[c][i].row.mid :
                     i \in {j \in DOMAIN box[c] : box[c][j].kind = "history"}}

(***************************************************************************)
(* Whatever a user is sent, live or as the history of a later login, the    *)
(* user can read: the key the author had for the reader is the reader's key *)
(* now, although the author's list was behind or is one that a rejected list *)
(* did not replace, the reader has left and come back, or the server has     *)
(* been restarted in between.  Excused: a raced key file, and a reader whose *)
(* program is not this client.                                               *)
(***************************************************************************)
MailIsReadable ==
    \A c \in Conns : who[c] \notin raced /\ c \notin Foreign =>
      \A m \in Mail(c) : CanRead(c, m)

(***************************************************************************)
(* A client that has read all it was sent, while nobody is coming or going, *)
(* encrypts to exactly those who are present, each under the key of its     *)
(* present session, on three conditions: the last list of peers got into its *)
(* queue, the last newcomer's history could be read (nobody is told of a    *)
(* newcomer whose history could not), and nobody present has announced a    *)
(* key that the client cannot parse.                                         *)
(***************************************************************************)
ViewIsRoom ==
    \A c \in Conns :
      /\ prog[c] = "in"
      /\ change = Room!Settled
      /\ heard[c] = Len(box[c])
      /\ c \notin untold
      /\ Accepted(Room!PeerList)
      => peers[c] = Room!PeerList

(***************************************************************************)
(* A key file nobody is writing is whole, unless a write of it ended in the *)
(* middle, by a kill or by an error that the program survived; then it stays *)
(* torn, and every later start fails to parse it.                            *)
(***************************************************************************)
FileIsUsable ==
    \A u \in Users :
      file[u] = "torn" =>
        \/ u \in halfway
        \/ \E c \in Conns : prog[c] = "write" /\ who[c] = u
=============================================================================
