---------------------------- MODULE RoomMapping ----------------------------
(***************************************************************************)
(* How the state of ChatServer is seen as the state of ChatRoom: the        *)
(* registry is the membership, the table is the archive, what a channel     *)
(* accepted is a box, and the handler that holds the write lock is the      *)
(* change of the membership in progress.                                    *)
(***************************************************************************)
EXTENDS ChatServerProperties

ChangeStep ==
    [load       |-> "look",         hist       |-> "recall",
     join_peers |-> "joined peers", join_note  |-> "joined",
     leave_peers |-> "left peers",  leave_note |-> "left"]

Changing == {c \in Conns : pc[c] \in DOMAIN ChangeStep}

ChangeOfMembers ==
    IF Changing = {} THEN [who |-> NoOne, step |-> "none", due |-> {}]
    ELSE LET c == CHOOSE d \in Changing : TRUE
         IN  [who |-> username[c], step |-> ChangeStep[pc[c]],
              due |-> IF pc[c] = "hist" THEN hist[c] ELSE {}]

(* The readers a handler has still to reach with the message it has saved. *)
Readers(c) ==
    CASE pc[c] = "saved" -> req[c].to \ {username[c]}
      [] pc[c] = "cast"  -> rest[c]
      [] OTHER           -> {}

SaidBy(c) ==
    {[kind |-> "message", mid |-> req[c].mid, from |-> username[c], to |-> u,
      at |-> req[c].at] : u \in Readers(c)}

Saying == [c \in Conns |-> SaidBy(c)]

TheRoom == INSTANCE ChatRoom WITH
    MayDrop <- TRUE,
    member  <- clients,
    change  <- ChangeOfMembers,
    said    <- Saying,
    archive <- db,
    box     <- log

(***************************************************************************)
(* The server implements the room: whatever the handlers, the writers, the  *)
(* shutdown and the crashes do between them, each of their steps is a step  *)
(* of ChatRoom or one that the room does not notice.  Claimed without       *)
(* "relogin", with which one connection can hold two names.                 *)
(***************************************************************************)
ImplementsRoom == TheRoom!Spec
=============================================================================
