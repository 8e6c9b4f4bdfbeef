---------------------------- MODULE MCChatServer ----------------------------
(* Instances of ChatServer for TLC: the configurations give the model       *)
(* values, these definitions the sets.                                      *)
EXTENDS RoomMapping, TLC

(* Connections, usernames and message identifiers are interchangeable: no   *)
(* definition orders or names one of them. *)
Symmetry == Permutations(Conns) \cup Permutations(Users) \cup Permutations(Mids)

(* A step of a writer commutes with every step of the handlers except a send *)
(* to that channel when it is full.  So the runs that check what is sent, to *)
(* whom and in which order let a writer take a packet only then: whatever    *)
(* was accepted or dropped with eager writers is with lazy ones.             *)
(* (Once no handler is left they may empty what remains.)                    *)
LazyWriter ==
    \A c \in Conns : taken'[c] > taken[c] =>
      Room(c) = 0 \/ \A d \in Conns : pc[d] \in {"off", "done"}

(* BOUNDS: any two connections make three requests between them, which lets  *)
(* two log in and one speak; nobody signs up (the accounts exist); and a     *)
(* message without a date is to everybody.                                   *)
Requests(n) == \A c, d \in Conns : c # d => reqs'[c] + reqs'[d] <= n
UndatedToAll ==
    \A c \in Conns : req'[c].type = "message" /\ req'[c].at \notin Calendar =>
      req'[c].to = Users
NoSignups == \A c \in Conns : req'[c].type # "signup"
ThreeRequests == Requests(3)
FewRequests == ThreeRequests /\ NoSignups

(* BOUNDS: four requests, which let both speak; each message is to everybody. *)
(* So an identifier is used a second time while the first message, stored    *)
(* and seen, is anywhere between its save and its last broadcast.            *)
FourToAll ==
    /\ Requests(4) /\ NoSignups
    /\ \A c \in Conns : req'[c].type = "message" => req'[c].to = Users

(* For the liveness run: the accounts exist already. *)
LiveInit == Init /\ accounts = Users
LiveSpec == LiveInit /\ [][Next]_vars /\ HandlerFairness

(* The database of an earlier life of the server: one message to everybody,  *)
(* so that a login can find more than one row, and a message can be sent     *)
(* under an identifier that is there.  It has the last of the dates, so that  *)
(* a new message may come before it in a history.                             *)
LastDate == {at \in Stamps \cap Calendar : \A s \in Stamps \cap Calendar : s <= at}
OldDb == {Insert(EmptyTable, mid, u, Users, at) :
             mid \in Mids, u \in Users, at \in LastDate}

SeededInit ==
    /\ Fresh
    /\ reqs = Each(0)
    /\ accounts = Users
    /\ db \in OldDb
    /\ gone = {}
SeededSpec == SeededInit /\ [][Next]_vars

(* For the registry run: a new database, or an old one.                      *)
NewInit == Init /\ accounts = {}
NewOrOldSpec == (NewInit \/ SeededInit) /\ [][Next]_vars
=============================================================================
