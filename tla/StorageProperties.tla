-------------------------- MODULE StorageProperties --------------------------
(* What the storage layer promises to the handlers and to the users.        *)
EXTENDS Storage

StorageTypeOK ==
    /\ columns \in SUBSET (Modern \cup Legacy)
    /\ users \in SUBSET Account
    /\ history \in Table(Mids, Names, Stamps)
    /\ journal \in [owner: Handlers \cup {NoOne},
                    table: Table(Mids, Names, Stamps)]
    /\ proc \in {"down", "created", "renaming", "up", "refused"}
    /\ pc \in [Handlers -> {"idle", "insert", "look", "rows", "query"}]
    /\ call \in [Handlers -> SignupCall \cup LoginCall \cup SaveCall
                               \cup LoadCall \cup {NoCall}]
    /\ todo \in [Handlers -> SUBSET Names]
    /\ answer \in [Handlers -> SUBSET Row(Mids, Names, Stamps)]
    /\ calls \in 0..MaxCalls
    /\ saves \in SUBSET [mid: Mids, from: Names, to: SUBSET Names,
                         at: Stamps \cup {0}, outcome: {"open", "saved", "failed"}]
    /\ owners \in SUBSET [name: Names, addr: Addresses, secret: Secrets]
    /\ halved \in BOOLEAN

(***************************************************************************)
(* Whoever was told that an account is theirs - by a sign-up, by a log-in,  *)
(* or by an earlier version of the server - can log in to that very         *)
(* account for as long as the server can be started, however the address is *)
(* typed, and whatever crashed, was retried or was migrated meanwhile.       *)
(***************************************************************************)
OwnersCanLogIn ==
    proc = "up" =>
      \A o \in owners : \A e \in {x \in Email : x.addr = o.addr} :
        \E r \in Matching(e, o.secret) : r.name = o.name

(***************************************************************************)
(* Nobody shares an account: two who were told that a mailbox or a username *)
(* is theirs are the same.  (A legacy row whose address has capitals opens   *)
(* for nobody, and the address can be signed up again beside it.)            *)
(***************************************************************************)
OneOwner ==
    \A o, p \in owners : o.addr = p.addr \/ o.name = p.name => o = p

RowOf(s, r) == r.mid = s.mid /\ r.from = s.from /\ r.at = s.at

(***************************************************************************)
(* A save is all or nothing, and stays.  As soon as one recipient's row of  *)
(* a message is in the table, every recipient has a row under that          *)
(* identifier, of this save or of one that reused the identifier; a save    *)
(* that was reported as done always has them, a save that was reported as   *)
(* failed has left no row, whatever died or waited in between.              *)
(***************************************************************************)
SavesAreWhole ==
    \A s \in saves :
      LET mine == {r \in history.rows : RowOf(s, r)}
          kept == \A u \in s.to : \E r \in history.rows : r.mid = s.mid /\ r.to = u
      IN  /\ mine # {} => kept
          /\ s.outcome = "saved" => kept
          /\ s.outcome = "failed" => mine = {}

(***************************************************************************)
(* What a login has been shown as its history does not turn out never to    *)
(* have been sent: no row of an answer belongs to a save that failed then   *)
(* or later.  And an answer is within the limit.                             *)
(***************************************************************************)
ShownWasSaved ==
    \A h \in Handlers :
      /\ \A r \in answer[h] : \A s \in saves :
           RowOf(s, r) => s.outcome # "failed"
      /\ Cardinality(answer[h]) <= DefaultLimit

RowStep ==
    \A r \in history.rows \ history'.rows :
      \E s \in history'.rows :
        r.mid = s.mid /\ r.to = s.to /\ \A q \in history.rows : q.id < s.id

(***************************************************************************)
(* A row disappears only for a row of the same message and reader, which    *)
(* goes to the end of the table's order: two clients whose identifiers      *)
(* collide take each other's place, author included, but never a third      *)
(* message's, and a reader never has two rows under one identifier.          *)
(***************************************************************************)
RowsGiveWay == [][RowStep]_vars

(***************************************************************************)
(* A start is refused only after a kill between the two renamings of the    *)
(* migration, and even then the accounts are all in the table: what is lost *)
(* is the start, not the data.                                               *)
(***************************************************************************)
StartRefused ==
    proc = "refused" =>
      /\ halved
      /\ \A o \in owners : \E r \in users :
           /\ r.name = o.name
           /\ r.email.addr = o.addr
           /\ r.secret = o.secret

(***************************************************************************)
(* README.md:284: beyond the cap it is the older messages that a login does *)
(* not see, so whatever the history of a login leaves out is older than all *)
(* that it shows.  It fails (run history_window).                            *)
(***************************************************************************)
NewestAreShown ==
    \A u \in Names :
      LET shown == HistoryFor(Visible, u, DefaultLimit)
      IN  \A r \in shown : \A s \in Inbox(history, u) \ shown : Before(s, r)
=============================================================================
