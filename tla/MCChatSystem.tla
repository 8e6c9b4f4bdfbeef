---------------------------- MODULE MCChatSystem ----------------------------
(* Instances of ChatSystem for TLC. *)
EXTENDS ChatSystemProperties, TLC

(* Nothing orders or names a program, a user or a machine. *)
Symmetry ==
    Permutations(Conns \ Foreign) \cup Permutations(Users)

(* A packet that is not a list of peers changes nothing that a property or   *)
(* another step looks at, and a list only what a message will be encrypted   *)
(* to, which no Foreign program can have: one that does not matter may as     *)
(* well be read at once.                                                     *)
Dull(c) ==
    /\ prog[c] = "in"
    /\ heard[c] < Len(box[c])
    /\ \/ box[c][heard[c] + 1].kind # "peers"
       \/ c \in Foreign
       \/ \E d \in Conns : sealed[d] # {}
EagerReader ==
    (\E c \in Conns : Dull(c)) =>
      \E c \in Conns : Dull(c) /\ heard'[c] # heard[c]

(* A program that ends before it has touched its key file or the room does   *)
(* nothing that one which waits for ever does not, and one that is killed in  *)
(* its write leaves what one leaves whose write fails.                        *)
NoIdleEnd ==
    \A c \in Conns : prog'[c] = "dead" /\ prog[c] # "dead" =>
      \/ box'[c] = <<>> \/ prog[c] = "in"
      \/ prog[c] = "write" /\ \A d \in Conns \ {c} : prog[d] = "off"

(* A packet that is no list of peers, and any packet for a program that has  *)
(* ended, may as well get into the queue: no step looks at mail, and less of *)
(* it is easier to read.                                                     *)
NoIdleDrop ==
    /\ \A c \in Conns :
         \/ box'[c] # box[c]
         \/ /\ ~(prog[c] = "off" /\ prog'[c] = "start")
            /\ ~(prog[c] = "ready" /\ prog'[c] = "in")
            /\ c \in Room!Members /\ change' # change =>
                 /\ change.step \notin {"joined", "left"}
                 /\ prog[c] = "dead" => change.step \notin {"joined peers", "left peers"}
    /\ change.step = "recall" /\ change'.due # change.due => box' # box
    /\ \A c \in Conns : \A p \in said[c] \ said'[c] :
         p.to \in Room!Present => box' # box

(* BOUND: a program gives up only before any other has been started; it can  *)
(* go on as if it had not.                                                   *)
EarlyGivesUp ==
    \A c \in Conns :
      prog[c] \in {"start", "make"} /\ prog'[c] = "failed" /\ file[who[c]] # "torn" =>
        \A d \in Conns \ {c} : prog[d] = "off"

(* A program tries again at once, as it can wait before it reads the file as  *)
(* well, but not while the file is torn, which leads back to the same failure. *)
MayTry(c) == prog[c] = "failed" /\ file[who[c]] # "torn"
EagerTry ==
    /\ \A c \in Conns : prog[c] = "failed" /\ prog'[c] = "start" => MayTry(c)
    /\ (\E c \in Conns : MayTry(c)) /\ ~(\E c \in Conns : Dull(c)) =>
         \E c \in Conns : MayTry(c) /\ prog'[c] = "start"

(* All that the steps and the properties look at in a box: whether it is     *)
(* open, what is not read yet, and the mail.                                  *)
Unread(c) == IF prog[c] = "in" THEN SubSeq(box[c], heard[c] + 1, Len(box[c])) ELSE <<>>
Seen(c) ==
    <<box[c] = <<>>, Unread(c),
      {box[c][i] : i \in {j \in DOMAIN box[c] :
                           box[c][j].kind \in {"history", "message"}}}>>
MainView ==
    <<identity, member, change, said, archive, [c \in Conns |-> Seen(c)], peers,
      sealed, untold>>

(* BOUND: one message is sent, and the server dies only after it is archived. *)
OneMessage == Cardinality({c \in Conns : sealed'[c] # {}}) <= 1
LateRestart ==
    archive.rows = {} => \A c \in Conns : box[c] # <<>> => box'[c] # <<>>
=============================================================================
