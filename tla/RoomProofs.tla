----------------------------- MODULE RoomProofs -----------------------------
(***************************************************************************)
(* ChatServer implements ChatRoom, for every instance: the initial states   *)
(* of the one are initial states of the other under the mapping of           *)
(* RoomMapping, and every step of the server is a step of the room or one    *)
(* that the room does not notice.                                            *)
(***************************************************************************)
EXTENDS DeliveryProofs, RoomMapping

USE UsersAssumption, ConnsAssumption, StampsAssumption, BoundsAssumption,
    EnvAssumption

-----------------------------------------------------------------------------
(* The change of the membership is the handler that holds the write lock.   *)

(* What the handler that holds it is to the room. *)
SeenAs(c) == [who |-> username[c], step |-> ChangeStep[pc[c]],
              due |-> IF pc[c] = "hist" THEN hist[c] ELSE {}]

ChangeSeen ==
    /\ (\A c \in Conns : pc[c] \notin Exclusive) =>
         ChangeOfMembers = TheRoom!Settled
    /\ \A c \in Conns : pc[c] \in Exclusive => ChangeOfMembers = SeenAs(c)

(* The change that is being told is that of the handler with the lock ... *)
LEMMA ChangeIs == LockInv => ChangeSeen
<1> SUFFICES ASSUME LockInv PROVE ChangeSeen
  OBVIOUS
<1>1. DOMAIN ChangeStep = Exclusive
  BY DEF ChangeStep, Exclusive, Joining
<1>2. Changing = {c \in Conns : pc[c] \in Exclusive}
  BY <1>1 DEF Changing
<1>3. ASSUME \A c \in Conns : pc[c] \notin Exclusive
      PROVE  ChangeOfMembers = TheRoom!Settled
  BY <1>2, <1>3 DEF ChangeOfMembers, TheRoom!Settled, TheRoom!Change
<1>4. ASSUME NEW c \in Conns, pc[c] \in Exclusive
      PROVE  ChangeOfMembers = SeenAs(c)
  <2>1. Changing = {c}
    BY <1>2, <1>4 DEF LockInv
  <2>2. (CHOOSE d \in Changing : TRUE) = c
    BY <2>1
  <2> QED BY <2>1, <2>2 DEF ChangeOfMembers, SeenAs
<1> QED BY <1>3, <1>4 DEF ChangeSeen

(* ... also after the step. *)
LEMMA ChangeIsNext == LockInv' => ChangeSeen'
BY ChangeIs, PTL

(* The names of the handlers' places in the room. *)
LEMMA ChangeSteps ==
  /\ ChangeStep["load"] = "look" /\ ChangeStep["hist"] = "recall"
  /\ ChangeStep["join_peers"] = "joined peers" /\ ChangeStep["join_note"] = "joined"
  /\ ChangeStep["leave_peers"] = "left peers" /\ ChangeStep["leave_note"] = "left"
BY DEF ChangeStep

(* Whoever moves outside the lock changes nothing of it. *)
LEMMA ChangeStays ==
  ASSUME LockInv, LockInv',
         \A d \in Conns :
           \/ /\ pc'[d] = pc[d] /\ username'[d] = username[d]
              /\ pc[d] = "hist" => hist'[d] = hist[d]
           \/ pc[d] \notin Exclusive /\ pc'[d] \notin Exclusive
  PROVE  ChangeOfMembers' = ChangeOfMembers
<1>1. ChangeSeen /\ ChangeSeen'
  BY ChangeIs, ChangeIsNext
<1>2. CASE \A d \in Conns : pc[d] \notin Exclusive
  <2>1. \A d \in Conns : pc'[d] \notin Exclusive
    BY <1>2
  <2>2. TheRoom!Settled' = TheRoom!Settled
    BY DEF TheRoom!Settled, TheRoom!Change
  <2> QED BY <1>1, <1>2, <2>1, <2>2 DEF ChangeSeen
<1>3. ASSUME NEW d \in Conns, pc[d] \in Exclusive
      PROVE  ChangeOfMembers' = ChangeOfMembers
  <2>1. /\ pc'[d] = pc[d] /\ username'[d] = username[d]
        /\ pc[d] = "hist" => hist'[d] = hist[d]
    BY <1>3
  <2>2. SeenAs(d)' = SeenAs(d)
    BY <2>1 DEF SeenAs, ChangeStep
  <2>3. ChangeOfMembers = SeenAs(d)
    BY <1>1, <1>3 DEF ChangeSeen
  <2>4. ChangeOfMembers' = SeenAs(d)'
    BY <1>1, <1>3, <2>1 DEF ChangeSeen
  <2> QED BY <2>2, <2>3, <2>4
<1> QED BY <1>2, <1>3

-----------------------------------------------------------------------------
(* What a connection is saying is the message its handler has saved.         *)

(* A handler that is not sending a message has nobody to send it to. *)
LEMMA NoReaders ==
  ASSUME NEW c
  PROVE  /\ pc[c] \notin {"saved", "cast"} => Readers(c) = {}
         /\ pc'[c] \notin {"saved", "cast"} => Readers(c)' = {}
BY DEF Readers

(* What decides what a connection is saying. *)
SaysTheSame(d) ==
    \/ Readers(d) = {} /\ Readers(d)' = {}
    \/ /\ pc'[d] = pc[d] /\ req'[d] = req[d]
       /\ rest'[d] = rest[d] /\ username'[d] = username[d]

(* It stays as it is while that does. *)
LEMMA SaidSame ==
  ASSUME NEW d, SaysTheSame(d)
  PROVE  SaidBy(d)' = SaidBy(d)
<1>1. CASE Readers(d) = {} /\ Readers(d)' = {}
  BY <1>1 DEF SaidBy
<1>2. CASE /\ pc'[d] = pc[d] /\ req'[d] = req[d]
           /\ rest'[d] = rest[d] /\ username'[d] = username[d]
  BY <1>2 DEF SaidBy, Readers
<1> QED BY <1>1, <1>2 DEF SaysTheSame

(* A step changes what is said at one connection, if at any. *)
LEMMA SaidChanges ==
  ASSUME NEW c \in Conns, \A d \in Conns \ {c} : SaysTheSame(d)
  PROVE  /\ Saying' = [Saying EXCEPT ![c] = SaidBy(c)']
         /\ SaysTheSame(c) => Saying' = Saying
<1>1. \A d \in Conns \ {c} : SaidBy(d)' = SaidBy(d)
  BY SaidSame
<1>2. SaysTheSame(c) => SaidBy(c)' = SaidBy(c)
  BY SaidSame
<1>3. /\ Saying = [d \in Conns |-> SaidBy(d)]
      /\ Saying' = [d \in Conns |-> SaidBy(d)']
  BY DEF Saying
<1> QED BY <1>1, <1>2, <1>3

(* Nothing is said by the small steps. *)
LEMMA SaidSmall ==
  ASSUME SmallStep
  PROVE  Saying' = Saying
<1>1. ASSUME NEW d \in Conns
      PROVE  SaidBy(d)' = SaidBy(d)
  <2>1. CASE pc'[d] = pc[d]
    BY <2>1, SaidSame DEF SmallStep, SaysTheSame
  <2>2. CASE pc'[d] # pc[d]
    <3>1. SmallMove(d)
      BY <2>2 DEF SmallStep
    <3>2. Readers(d)' = {}
      BY <2>2, <3>1, NoReaders DEF SmallMove
    <3>3. Readers(d) = {}
      BY <3>1 DEF SmallMove, Readers
    <3> QED BY <3>2, <3>3, SaidSame DEF SaysTheSame
  <2> QED BY <2>1, <2>2
<1> QED BY <1>1 DEF Saying

-----------------------------------------------------------------------------
(* A send is an offer, which whoever has no room drops.                      *)

(* A send to some connections is an offer to them: queues may drop. *)
LEMMA SendIsOffer ==
  ASSUME TypeInv, NEW n \in [Conns -> Nat], NEW p, SendEncrypted(n, p),
         NEW S \in SUBSET Conns,
         \A d \in Conns : n[d] = IF d \in S THEN 1 ELSE 0
  PROVE  TheRoom!Offer(S, p)
<1>0. log = [c \in Conns |-> log[c]]
  BY DEF TypeInv, TypeOK
<1>1. ASSUME NEW got \in SUBSET S,
             log' = [c \in Conns |-> IF c \in got THEN Append(log[c], p) ELSE log[c]]
      PROVE  TheRoom!Offer(S, p)
  BY <1>1 DEF TheRoom!Offer
<1>2. CASE log' = log
  <2> DEFINE got == {}
  <2>1. \A c \in Conns : log[c] = IF c \in got THEN Append(log[c], p) ELSE log[c]
    OBVIOUS
  <2>2. got \in SUBSET S /\ \A c \in Conns : c \notin got
    OBVIOUS
  <2> HIDE DEF got
  <2>3. log' = [c \in Conns |-> IF c \in got THEN Append(log[c], p) ELSE log[c]]
    BY <1>0, <1>2, <2>2
  <2> QED BY <1>1, <2>2, <2>3
<1>3. CASE log' = [d \in Conns |->
                     log[d] \o [i \in 1..SmallerOf(n[d], Room(d)) |-> p]]
  <2> DEFINE got == {d \in S : Room(d) > 0}
  <2>1. ASSUME NEW d \in Conns
        PROVE  log[d] \o [i \in 1..SmallerOf(n[d], Room(d)) |-> p]
                 = IF d \in got THEN Append(log[d], p) ELSE log[d]
    <3>1. Room(d) \in Int /\ log[d] \in Seq(Packet)
      BY RoomTyped DEF TypeInv, TypeOK
    <3>2. CASE d \in got
      <4>1. SmallerOf(n[d], Room(d)) = 1
        BY <3>1, <3>2 DEF SmallerOf
      <4>2. [i \in 1..1 |-> p] = <<p>>
        OBVIOUS
      <4> QED BY <3>1, <3>2, <4>1, <4>2
    <3>3. CASE d \notin got
      <4>1. SmallerOf(n[d], Room(d)) \in Int /\ SmallerOf(n[d], Room(d)) <= 0
        BY <3>1, <3>3 DEF SmallerOf
      <4>2. 1..SmallerOf(n[d], Room(d)) = {}
        BY <4>1
      <4>3. [i \in 1..SmallerOf(n[d], Room(d)) |-> p] = <<>>
        BY <4>2
      <4>4. log[d] \o <<>> = log[d]
        BY <3>1
      <4> QED BY <3>3, <4>3, <4>4
    <3> QED BY <3>2, <3>3
  <2>2. log' = [c \in Conns |-> IF c \in got THEN Append(log[c], p) ELSE log[c]]
    BY <1>3, <2>1
  <2> QED BY <1>1, <2>2
<1> QED BY <1>2, <1>3 DEF SendEncrypted

(* A send to one connection is an offer to it. *)
LEMMA OnlyIsOffer ==
  ASSUME TypeInv, NEW c \in Conns, NEW p, SendEncrypted(Only(c), p)
  PROVE  TheRoom!Offer({c}, p)
<1>1. \A d \in Conns : Only(c)[d] = IF d \in {c} THEN 1 ELSE 0
  BY DEF Only
<1>2. {c} \in SUBSET Conns
  OBVIOUS
<1> QED BY <1>1, <1>2, OnlyTyped, SendIsOffer

(* Nobody has two entries, so a loop over the registry sends once to each.   *)
LEMMA EachClientIsOffer ==
  ASSUME TypeInv, SessionInv, Running, NEW p, SendEncrypted(EachClient, p)
  PROVE  TheRoom!Offer(TheRoom!Members, p)
<1>1. TheRoom!Members = {clients[u] : u \in {v \in Users : clients[v] # NoOne}}
  BY DEF TheRoom!Members, TheRoom!Present
<1>2. TheRoom!Members \in SUBSET Conns
  BY <1>1 DEF TypeInv, TypeOK
<1>3. ASSUME NEW d \in Conns
      PROVE  EachClient[d] = IF d \in TheRoom!Members THEN 1 ELSE 0
  <2>1. CASE d \in TheRoom!Members
    <3>1. PICK u \in Users : clients[u] = d
      BY <1>1, <2>1
    <3>2. \A v \in Users : clients[v] = d => v = u
      BY <3>1 DEF SessionInv, EntryInv
    <3>3. Entries(d) = {u}
      BY <3>1, <3>2 DEF Entries
    <3>4. EachClient[d] = 1
      BY <3>3, FS_Singleton DEF EachClient
    <3> QED BY <2>1, <3>4
  <2>2. CASE d \notin TheRoom!Members
    <3>1. Entries(d) = {}
      BY <1>1, <2>2 DEF Entries
    <3>2. EachClient[d] = 0
      BY <3>1, FS_EmptySet DEF EachClient
    <3> QED BY <2>2, <3>2
  <2> QED BY <2>1, <2>2
<1> QED BY <1>2, <1>3, EachClientTyped, SendIsOffer

(* The names in the registry are the members of the room. *)
LEMMA PeerListIs ==
  ASSUME TypeInv, SessionInv, Running
  PROVE  TheRoom!PeerList = Snapshot
<1>1. \A u \in Online : username[clients[u]] = u
  BY DEF SessionInv, EntryInv, Online
<1>2. TheRoom!Present = Online
  BY DEF TheRoom!Present, Online
<1>3. TheRoom!PeerList = {[user |-> u, key |-> clients[u]] : u \in Online}
  BY <1>2 DEF TheRoom!PeerList
<1> QED BY <1>1, <1>3 DEF Snapshot

-----------------------------------------------------------------------------
(* The steps of the server, one by one.                                      *)

ServerInv == TypeInv /\ SessionInv /\ MessageInv /\ JoinInv

(* Before and after a step at most one handler tells a change. *)
LEMMA LockStays ==
  ASSUME ServerInv, [Next]_vars
  PROVE  /\ LockInv /\ LockInv' /\ ChangeSeen /\ ChangeSeen'
<1>1. LockInv /\ LockInv'
  BY LockStep DEF ServerInv, MessageInv
<1> QED BY <1>1, ChangeIs, ChangeIsNext

(* The room's table is the server's. *)
LEMMA SameTable ==
  /\ \A t, mid, from, tos, at :
       TheRoom!Insert(t, mid, from, tos, at) = Insert(t, mid, from, tos, at)
  /\ \A t, u, n : TheRoom!HistoryFor(t, u, n) = HistoryFor(t, u, n)
  /\ \A S : TheRoom!Readable(S) = Readable(S)
  /\ \A S : TheRoom!Earliest(S) = Earliest(S)
<1>1. \A r, s : TheRoom!Before(r, s) = Before(r, s)
  BY DEF TheRoom!Before, Before
<1>2. \A r, s : TheRoom!SameKey(r, s) = SameKey(r, s)
  BY DEF TheRoom!SameKey, SameKey
<1>3. \A at : TheRoom!Datetime(at) = Datetime(at)
  BY DEF TheRoom!Datetime, Datetime
<1>4. \A t, u : TheRoom!Inbox(t, u) = Inbox(t, u)
  BY DEF TheRoom!Inbox, Inbox
<1>5. \A S, n : TheRoom!Oldest(S, n) = Oldest(S, n)
  <2> SUFFICES ASSUME NEW S, NEW n PROVE TheRoom!Oldest(S, n) = Oldest(S, n)
    OBVIOUS
  <2>1. \A T : TheRoom!Cardinality(T) = Cardinality(T)
    BY DEF TheRoom!Cardinality, Cardinality, TheRoom!IsFiniteSet, IsFiniteSet
  <2>2. \A r : {s \in S : TheRoom!Before(s, r)} = {s \in S : Before(s, r)}
    BY <1>1
  <2> QED BY <2>1, <2>2 DEF TheRoom!Oldest, Oldest
<1>6. \A t, u, n : TheRoom!HistoryFor(t, u, n) = HistoryFor(t, u, n)
  BY <1>4, <1>5 DEF TheRoom!HistoryFor, HistoryFor
<1>7. \A S : TheRoom!Readable(S) = Readable(S)
  BY DEF TheRoom!Readable, Readable
<1>8. \A S : TheRoom!Earliest(S) = Earliest(S)
  BY <1>1 DEF TheRoom!Earliest, Earliest
<1>9. ASSUME NEW t, NEW mid, NEW from, NEW tos, NEW at
      PROVE  TheRoom!Insert(t, mid, from, tos, at) = Insert(t, mid, from, tos, at)
  BY <1>2, <1>3 DEF TheRoom!Insert, Insert
<1> QED BY <1>6, <1>7, <1>8, <1>9

(* A handshake opens a box. *)
LEMMA OpenStep ==
  ASSUME ServerInv, [Next]_vars, NEW c \in Conns, Handshake(c)
  PROVE  TheRoom!Open(c)
<1> DEFINE p == [kind |-> "handshake_ok"]
<1>1. /\ pc[c] = "handshake" /\ log' = [log EXCEPT ![c] = <<p>>]
      /\ \A d \in Conns \ {c} : pc'[d] = pc[d]
      /\ pc'[c] = "loop"
      /\ UNCHANGED <<username, clients, db, hist>>
  BY DEF Handshake, Goto, ServerInv, TypeInv, TypeOK, store
<1>2. log[c] = <<>>
  BY <1>1 DEF ServerInv, JoinInv, OpenedInv
<1> HIDE DEF p
<1>3. Append(<<>>, p) = <<p>>
  OBVIOUS
<1>4. log' = [d \in Conns |-> IF d \in {c} THEN Append(log[d], p) ELSE log[d]]
  BY <1>1, <1>2, <1>3 DEF ServerInv, TypeInv, TypeOK
<1>5. TheRoom!Offer({c}, p)
  BY <1>4 DEF TheRoom!Offer
<1>6. ChangeOfMembers' = ChangeOfMembers
  <2>1. pc[c] \notin Exclusive /\ pc'[c] \notin Exclusive
    BY <1>1 DEF Exclusive, Joining
  <2> QED BY <1>1, <2>1, LockStays, ChangeStays
<1>7. Saying' = Saying
  BY SendingStepsSmall, SaidSmall DEF ServerInv
<1> QED BY <1>1, <1>2, <1>5, <1>6, <1>7 DEF TheRoom!Open, p

(* An error reply is a refusal. *)
LEMMA RefuseStep ==
  ASSUME ServerInv, [Next]_vars, NEW c \in Conns, ReplyError(c)
  PROVE  TheRoom!Refuse(c)
<1>1. /\ pc[c] = "error" /\ SendEncrypted(Only(c), [kind |-> "error"])
      /\ \A d \in Conns \ {c} : pc'[d] = pc[d]
      /\ pc'[c] = "loop"
      /\ UNCHANGED <<username, clients, db, hist>>
  BY DEF ReplyError, Goto, ServerInv, TypeInv, TypeOK, session, store
<1>2. log[c] # <<>>
  BY <1>1 DEF ServerInv, JoinInv, OpenedInv
<1>3. TheRoom!Offer({c}, [kind |-> "error"])
  BY <1>1, OnlyIsOffer DEF ServerInv
<1>4. ChangeOfMembers' = ChangeOfMembers
  <2>1. pc[c] \notin Exclusive /\ pc'[c] \notin Exclusive
    BY <1>1 DEF Exclusive, Joining
  <2> QED BY <1>1, <2>1, LockStays, ChangeStays
<1>5. Saying' = Saying
  BY SendingStepsSmall, SaidSmall DEF ServerInv
<1> QED BY <1>1, <1>2, <1>3, <1>4, <1>5 DEF TheRoom!Refuse

(* The locked part of finishAuth lets a member in. *)
LEMMA RoomJoinStep ==
  ASSUME ServerInv, [Next]_vars, Running, NEW c \in Conns, FinishAuth(c)
  PROVE  TheRoom!Join(c, req[c].user) /\ req[c].user \in Users
<1> DEFINE u == req[c].user
           p == [kind |-> "auth_ok", user |-> u]
<1>1. /\ pc[c] = "join" /\ pc'[c] = "load" /\ username'[c] = u
      /\ u \in Users /\ clients[u] = NoOne
      /\ \A d \in Conns : pc[d] \notin Exclusive
      /\ \A d \in Conns \ {c} : pc'[d] = pc[d] /\ username'[d] = username[d]
      /\ UNCHANGED <<db, req, rest>>
  BY FinishAuthSets DEF ServerInv
<1>2. clients' = [clients EXCEPT ![u] = c] /\ SendEncrypted(Only(c), p)
  BY DEF FinishAuth
<1>3. log[c] # <<>>
  BY <1>1 DEF ServerInv, JoinInv, OpenedInv
<1>4. c \notin TheRoom!Members
  <2>1. ~Authenticated(c)
    BY <1>1 DEF ServerInv, SessionInv, ConnInv
  <2>2. \A v \in Users : clients[v] # c
    BY <2>1, NotAnEntry DEF ServerInv
  <2> QED BY <2>2 DEF TheRoom!Members, TheRoom!Present
<1>5. ChangeOfMembers = TheRoom!Settled
  BY <1>1, LockStays DEF ChangeSeen
<1>6. ChangeOfMembers' = TheRoom!Change(u, "look")
  <2>1. pc'[c] \in Exclusive
    BY <1>1 DEF Exclusive, Joining
  <2>2. ChangeOfMembers' = SeenAs(c)'
    BY <2>1, LockStays DEF ChangeSeen
  <2> QED BY <1>1, <2>2 DEF SeenAs, ChangeStep, TheRoom!Change
<1>7. TheRoom!Offer({c}, p)
  BY <1>2, OnlyIsOffer DEF ServerInv
<1>8. Saying' = Saying
  <2>1. Readers(c) = {} /\ Readers(c)' = {}
    BY <1>1, NoReaders
  <2>2. \A d \in Conns : SaysTheSame(d)
    BY <1>1, <2>1 DEF SaysTheSame
  <2> QED BY <2>2, SaidChanges
<1> QED BY <1>1, <1>2, <1>3, <1>4, <1>5, <1>6, <1>7, <1>8 DEF TheRoom!Join

(* What the handler that holds the lock is to the room, before and after.    *)
LEMMA ChangeOf ==
  ASSUME ServerInv, [Next]_vars, NEW c \in Conns,
         pc[c] \in Exclusive, username'[c] = username[c],
         \A d \in Conns \ {c} : pc'[d] = pc[d]
  PROVE  /\ ChangeOfMembers = SeenAs(c)
         /\ pc'[c] \in Exclusive => ChangeOfMembers' = SeenAs(c)'
         /\ pc'[c] \notin Exclusive => ChangeOfMembers' = TheRoom!Settled
<1>1. ChangeSeen /\ ChangeSeen' /\ LockInv
  BY LockStays
<1>2. \A d \in Conns \ {c} : pc'[d] \notin Exclusive
  BY <1>1 DEF LockInv
<1> QED BY <1>1, <1>2 DEF ChangeSeen, TheRoom!Change, TheRoom!Settled

(* The history is looked up, as the table has it. *)
LEMMA LookStep ==
  ASSUME ServerInv, [Next]_vars, NEW c \in Conns, LoadHistory(c)
  PROVE  TheRoom!Look
<1>1. /\ pc[c] = "load" /\ pc'[c] = "hist" /\ hist'[c] = HistoryOf(c)
      /\ \A d \in Conns \ {c} : pc'[d] = pc[d]
      /\ Readable(HistoryOf(c))
      /\ UNCHANGED <<username, clients, db, log>>
  BY DEF LoadHistory, Goto, ServerInv, TypeInv, TypeOK, session, store
<1>2. pc[c] \in Exclusive /\ pc'[c] \in Exclusive
  BY <1>1 DEF Exclusive, Joining
<1>3. ChangeOfMembers = SeenAs(c) /\ ChangeOfMembers' = SeenAs(c)'
  BY <1>1, <1>2, ChangeOf
<1>4. ChangeOfMembers = [who |-> username[c], step |-> "look", due |-> {}]
  BY <1>1, <1>3 DEF SeenAs, ChangeStep
<1>5. ChangeOfMembers' = [who |-> username[c], step |-> "recall", due |-> HistoryOf(c)]
  BY <1>1, <1>3 DEF SeenAs, ChangeStep
<1>6. HistoryOf(c) = TheRoom!HistoryFor(db, username[c], HistLimit)
  BY SameTable DEF HistoryOf
<1>7. Saying' = Saying
  BY SilentStepsSmall, SaidSmall DEF ServerInv
<1> QED BY <1>1, <1>4, <1>5, <1>6, <1>7, SameTable DEF TheRoom!Look, TheRoom!Change

(* The next row of the history is the earliest that is due. *)
LEMMA RecallStep ==
  ASSUME ServerInv, [Next]_vars, NEW c \in Conns, SendHistoryRow(c)
  PROVE  \E row \in ChangeOfMembers.due : TheRoom!Recall(row)
<1>1. PICK row \in Earliest(hist[c]) :
        /\ SendEncrypted(Only(c), [kind |-> "history", row |-> row])
        /\ hist' = [hist EXCEPT ![c] = @ \ {row}]
  BY DEF SendHistoryRow
<1>2. pc[c] = "hist" /\ UNCHANGED <<pc, username, clients, db>>
  BY DEF SendHistoryRow, session, store
<1>3. pc[c] \in Exclusive /\ pc[c] \in Joining
  BY <1>2 DEF Exclusive, Joining
<1>4. ChangeOfMembers = SeenAs(c) /\ ChangeOfMembers' = SeenAs(c)'
  BY <1>2, <1>3, ChangeOf
<1>5. ChangeOfMembers = [who |-> username[c], step |-> "recall", due |-> hist[c]]
  <2>1. pc[c] = "hist"
    BY <1>2
  <2> QED BY <1>4, <2>1, ChangeSteps DEF SeenAs
<1>6. hist'[c] = hist[c] \ {row}
  BY <1>1 DEF ServerInv, TypeInv, TypeOK
<1>7. ChangeOfMembers' = [who |-> username[c], step |-> "recall", due |-> hist[c] \ {row}]
  <2>1. pc'[c] = "hist" /\ username'[c] = username[c]
    BY <1>2
  <2>2. SeenAs(c)' = [who |-> username[c], step |-> "recall", due |-> hist[c] \ {row}]
    BY <1>6, <2>1 DEF SeenAs, ChangeStep
  <2> QED BY <1>4, <2>2
<1>8. clients[username[c]] = c
  BY <1>3 DEF ServerInv, MessageInv, LockInv
<1>9. row \in hist[c]
  BY <1>1 DEF Earliest
<1>10. Saying' = Saying
  BY SendingStepsSmall, SaidSmall DEF ServerInv
<1>11. TheRoom!Offer({c}, [kind |-> "history", row |-> row])
  BY <1>1, OnlyIsOffer DEF ServerInv
<1>12. TheRoom!Recall(row)
  <2>1. ChangeOfMembers' = [ChangeOfMembers EXCEPT !.due = ChangeOfMembers.due \ {row}]
    BY <1>5, <1>7
  <2>2. /\ ChangeOfMembers.step = "recall" /\ ChangeOfMembers.who = username[c]
        /\ ChangeOfMembers.due = hist[c]
    BY <1>5
  <2>3. row \in TheRoom!Earliest(ChangeOfMembers.due)
    BY <2>2, SameTable
  <2>4. UNCHANGED <<clients, Saying, db>>
    BY <1>2, <1>10
  <2>5. TheRoom!Offer({clients[ChangeOfMembers.who]}, [kind |-> "history", row |-> row])
    BY <1>8, <1>11, <2>2
  <2> QED BY <2>1, <2>2, <2>3, <2>4, <2>5 DEF TheRoom!Recall
<1> QED BY <1>5, <1>9, <1>12

(* A history that cannot be read ends the join without a word. *)
LEMMA RecallFailsStep ==
  ASSUME ServerInv, [Next]_vars, NEW c \in Conns, LoadHistoryFails(c)
  PROVE  TheRoom!RecallFails
<1>1. /\ pc[c] = "load" /\ pc'[c] = "error"
      /\ \A d \in Conns \ {c} : pc'[d] = pc[d]
      /\ UNCHANGED <<username, clients, db, log>>
  BY DEF LoadHistoryFails, Goto, ServerInv, TypeInv, TypeOK, session, store
<1>2. pc[c] \in Exclusive /\ pc'[c] \notin Exclusive
  BY <1>1 DEF Exclusive, Joining
<1>3. ChangeOfMembers = SeenAs(c) /\ ChangeOfMembers' = TheRoom!Settled
  BY <1>1, <1>2, ChangeOf
<1>4. ChangeOfMembers.step = "look"
  BY <1>1, <1>3 DEF SeenAs, ChangeStep
<1>5. Saying' = Saying
  BY SilentStepsSmall, SaidSmall DEF ServerInv
<1> QED BY <1>1, <1>3, <1>4, <1>5 DEF TheRoom!RecallFails

(* After its last row a newcomer is welcomed. *)
LEMMA RoomWelcomeStep ==
  ASSUME ServerInv, [Next]_vars, Running, NEW c \in Conns, SendPeers(c)
  PROVE  TheRoom!Welcome
<1>1. /\ pc[c] = "hist" /\ pc'[c] = "join_peers" /\ hist[c] = {}
      /\ \A d \in Conns \ {c} : pc'[d] = pc[d]
      /\ UNCHANGED <<username, clients, db>>
      /\ SendEncrypted(Only(c), [kind |-> "peers", peers |-> Snapshot])
  BY DEF SendPeers, Goto, ServerInv, TypeInv, TypeOK, session, store
<1>2. pc[c] \in Exclusive /\ pc'[c] \in Exclusive /\ pc[c] \in Joining
  BY <1>1 DEF Exclusive, Joining
<1>3. ChangeOfMembers = SeenAs(c) /\ ChangeOfMembers' = SeenAs(c)'
  BY <1>1, <1>2, ChangeOf
<1>4. ChangeOfMembers = [who |-> username[c], step |-> "recall", due |-> {}]
  <2>1. pc[c] = "hist" /\ hist[c] = {}
    BY <1>1
  <2> QED BY <1>3, <2>1, ChangeSteps DEF SeenAs
<1>5. ChangeOfMembers' = TheRoom!Change(username[c], "joined peers")
  <2>1. pc'[c] = "join_peers" /\ username'[c] = username[c]
    BY <1>1
  <2>2. SeenAs(c)' = [who |-> username[c], step |-> "joined peers", due |-> {}]
    BY <2>1 DEF SeenAs, ChangeStep
  <2> QED BY <1>3, <2>2 DEF TheRoom!Change
<1>6. clients[username[c]] = c
  BY <1>2 DEF ServerInv, MessageInv, LockInv
<1>7. TheRoom!Offer({c}, [kind |-> "peers", peers |-> Snapshot])
  BY <1>1, OnlyIsOffer DEF ServerInv
<1>8. TheRoom!PeerList = Snapshot
  BY PeerListIs DEF ServerInv
<1>9. Saying' = Saying
  BY SendingStepsSmall, SaidSmall DEF ServerInv
<1> QED BY <1>1, <1>4, <1>5, <1>6, <1>7, <1>8, <1>9 DEF TheRoom!Welcome

(* The broadcast of the list tells everybody the members. *)
LEMMA TellPeersStep ==
  ASSUME ServerInv, [Next]_vars, Running, NEW c \in Conns, BroadcastPeers(c)
  PROVE  TheRoom!TellPeers
<1>1. /\ \/ pc[c] = "join_peers" /\ pc'[c] = "join_note"
         \/ pc[c] = "leave_peers" /\ pc'[c] = "leave_note"
      /\ \A d \in Conns \ {c} : pc'[d] = pc[d]
      /\ UNCHANGED <<username, clients, db>>
      /\ SendEncrypted(EachClient, [kind |-> "peers", peers |-> Snapshot])
  BY DEF BroadcastPeers, Goto, ServerInv, TypeInv, TypeOK, session, store
<1>2. pc[c] \in Exclusive /\ pc'[c] \in Exclusive
  BY <1>1 DEF Exclusive, Joining
<1>3. ChangeOfMembers = SeenAs(c) /\ ChangeOfMembers' = SeenAs(c)'
  BY <1>1, <1>2, ChangeOf
<1>7. /\ ChangeOfMembers = TheRoom!Change(username[c], ChangeStep[pc[c]])
      /\ ChangeOfMembers' = TheRoom!Change(username[c], ChangeStep[pc'[c]])
  BY <1>1, <1>3 DEF SeenAs, ChangeStep, TheRoom!Change
<1>8. Saying' = Saying
  BY SendingStepsSmall, SaidSmall DEF ServerInv
<1>4. \/ ChangeStep[pc[c]] = "joined peers" /\ ChangeStep[pc'[c]] = "joined"
      \/ ChangeStep[pc[c]] = "left peers" /\ ChangeStep[pc'[c]] = "left"
  BY <1>1, ChangeSteps
<1>5. TheRoom!Offer(TheRoom!Members, [kind |-> "peers", peers |-> Snapshot])
  BY <1>1, EachClientIsOffer DEF ServerInv
<1>6. TheRoom!PeerList = Snapshot
  BY PeerListIs DEF ServerInv
<1> QED BY <1>1, <1>4, <1>5, <1>6, <1>7, <1>8 DEF TheRoom!TellPeers, TheRoom!Change

(* The broadcast of the note ends the change. *)
LEMMA TellNoteStep ==
  ASSUME ServerInv, [Next]_vars, Running, NEW c \in Conns,
         AnnounceJoin(c) \/ AnnounceLeave(c)
  PROVE  TheRoom!TellNote
<1>1. /\ pc'[c] \in {"loop", "done"}
      /\ \A d \in Conns \ {c} : pc'[d] = pc[d]
      /\ UNCHANGED <<username, clients, db>>
  BY DEF AnnounceJoin, AnnounceLeave, Return, Goto, ServerInv, TypeInv, TypeOK,
     session, store
<1>2. \/ /\ pc[c] = "join_note"
         /\ SendEncrypted(EachClient, [kind |-> "joined", user |-> username[c]])
      \/ /\ pc[c] = "leave_note"
         /\ SendEncrypted(EachClient, [kind |-> "left", user |-> username[c]])
  BY DEF AnnounceJoin, AnnounceLeave
<1>3. pc[c] \in Exclusive /\ pc'[c] \notin Exclusive
  BY <1>1, <1>2 DEF Exclusive, Joining
<1>4. ChangeOfMembers = SeenAs(c) /\ ChangeOfMembers' = TheRoom!Settled
  BY <1>1, <1>3, ChangeOf
<1>7. /\ ChangeOfMembers.who = username[c]
      /\ ChangeOfMembers.step = ChangeStep[pc[c]]
  BY <1>4 DEF SeenAs
<1>8. Saying' = Saying
  BY SendingStepsSmall, SaidSmall DEF ServerInv
<1>5. /\ ChangeStep[pc[c]] \in {"joined", "left"}
      /\ SendEncrypted(EachClient, [kind |-> ChangeStep[pc[c]], user |-> username[c]])
  BY <1>2, ChangeSteps
<1>6. TheRoom!Offer(TheRoom!Members, [kind |-> ChangeStep[pc[c]], user |-> username[c]])
  BY <1>5, EachClientIsOffer DEF ServerInv
<1> QED BY <1>1, <1>4, <1>5, <1>6, <1>7, <1>8 DEF TheRoom!TellNote

(* A handler outside the lock leaves the change as it is. *)
LEMMA OutsideLock ==
  ASSUME ServerInv, [Next]_vars, NEW c \in Conns,
         pc[c] \notin Exclusive, pc'[c] \notin Exclusive,
         \A d \in Conns \ {c} : pc'[d] = pc[d], UNCHANGED <<username, hist>>
  PROVE  ChangeOfMembers' = ChangeOfMembers
BY LockStays, ChangeStays

(* A save is a post of a present member. *)
LEMMA PostStep ==
  ASSUME ServerInv, [Next]_vars, Running, NEW c \in Conns, SaveMessageHistory(c)
  PROVE  \E u \in Users, mid \in Mids, at \in Stamps,
            tos \in (SUBSET Users) \ {{}} : TheRoom!Post(c, u, mid, tos, at)
<1> DEFINE u == username[c]
           mid == req[c].mid
           tos == req[c].to
           at == req[c].at
<1>1. /\ pc[c] = "save" /\ pc'[c] = "saved" /\ ~ctx
      /\ u \in Users /\ req[c] \in MessageRequest
      /\ \A d \in Conns \ {c} : pc'[d] = pc[d]
      /\ db' = Insert(db, mid, u, tos, at)
      /\ UNCHANGED <<req, rest, hist, username, clients, log>>
  BY SaveSets DEF ServerInv
<1>2. clients[u] = c
  BY <1>1 DEF ServerInv, SessionInv, ConnInv, Bound, Authenticated
<1>3. mid \in Mids /\ tos \in (SUBSET Users) \ {{}} /\ at \in Stamps
  BY <1>1 DEF MessageRequest
<1>4. ChangeOfMembers' = ChangeOfMembers
  <2>1. pc[c] \notin Exclusive /\ pc'[c] \notin Exclusive
    BY <1>1 DEF Exclusive, Joining
  <2> QED BY <1>1, <2>1, OutsideLock
<1>5. Saying[c] = {}
  <2>1. Readers(c) = {}
    BY <1>1, NoReaders
  <2> QED BY <2>1 DEF Saying, SaidBy
<1>6. Saying' = [Saying EXCEPT ![c] = SaidBy(c)']
  BY <1>1, SaidChanges DEF SaysTheSame
<1>7. SaidBy(c)' = {TheRoom!Live(mid, u, v, at) : v \in tos \ {u}}
  <2>1. Readers(c)' = tos \ {u}
    BY <1>1 DEF Readers
  <2> QED BY <1>1, <2>1 DEF SaidBy, TheRoom!Live
<1>8. db' = TheRoom!Insert(db, mid, u, tos, at)
  BY <1>1, SameTable
<1> HIDE DEF u, mid, tos, at
<1>9. TheRoom!Post(c, u, mid, tos, at)
  BY <1>1, <1>2, <1>4, <1>5, <1>6, <1>7, <1>8 DEF TheRoom!Post
<1> QED BY <1>1, <1>3, <1>9

(* While a handler broadcasts, or begins to, no change is being told. *)
LEMMA SettledFor ==
  ASSUME ServerInv, [Next]_vars, \A d \in Conns : pc[d] \notin Exclusive
  PROVE  ChangeOfMembers = TheRoom!Settled
BY LockStays DEF ChangeSeen

(* A broadcast begins with those who are present. *)
LEMMA AddressStep ==
  ASSUME ServerInv, [Next]_vars, NEW c \in Conns, BeginBroadcast(c)
  PROVE  TheRoom!Address(c)
<1>1. /\ pc[c] = "saved" /\ pc'[c] = "cast"
      /\ \A d \in Conns : pc[d] \notin Exclusive
      /\ rest'[c] = (req[c].to \cap Online) \ {username[c]}
      /\ \A d \in Conns \ {c} : pc'[d] = pc[d] /\ rest'[d] = rest[d]
      /\ UNCHANGED <<req, hist, username, clients, db, log>>
  BY BeginBroadcastSets DEF ServerInv
<1>2. ChangeOfMembers = TheRoom!Settled
  BY <1>1, SettledFor
<1>3. ChangeOfMembers' = ChangeOfMembers
  <2>1. pc[c] \notin Exclusive /\ pc'[c] \notin Exclusive
    BY <1>1 DEF Exclusive, Joining
  <2> QED BY <1>1, <2>1, OutsideLock
<1>4. Saying' = [Saying EXCEPT ![c] = SaidBy(c)']
  BY <1>1, SaidChanges DEF SaysTheSame
<1> DEFINE live(u) == [kind |-> "message", mid |-> req[c].mid, from |-> username[c],
                       to |-> u, at |-> req[c].at]
<1>5. Saying[c] = {live(u) : u \in req[c].to \ {username[c]}}
  <2>1. Readers(c) = req[c].to \ {username[c]}
    BY <1>1 DEF Readers
  <2> QED BY <2>1 DEF Saying, SaidBy
<1>6. SaidBy(c)' = {live(u) : u \in (req[c].to \cap Online) \ {username[c]}}
  <2>1. Readers(c)' = (req[c].to \cap Online) \ {username[c]}
    BY <1>1 DEF Readers
  <2> QED BY <1>1, <2>1 DEF SaidBy
<1>7. TheRoom!Present = Online
  BY DEF TheRoom!Present, Online
<1>8. \A u : live(u).to = u
  OBVIOUS
<1> HIDE DEF live
<1>9. SaidBy(c)' = {p \in Saying[c] : p.to \in TheRoom!Present}
  BY <1>5, <1>6, <1>7, <1>8
<1>10. c \in DOMAIN Saying
  BY DEF Saying
<1> QED BY <1>1, <1>2, <1>3, <1>4, <1>9, <1>10 DEF TheRoom!Address

(* A live message is one that is being said, for a present reader. *)
LEMMA DeliverStep ==
  ASSUME ServerInv, [Next]_vars, Running, NEW c \in Conns, NEW u \in Users,
         BroadcastTo(c, u)
  PROVE  \E p \in Saying[c] : TheRoom!Deliver(c, p)
<1> DEFINE p == Broadcasted(c, u)
<1>1. /\ pc[c] = "cast" /\ u \in rest[c] /\ req[c] \in MessageRequest
      /\ rest'[c] = rest[c] \ {u}
      /\ \A d \in Conns \ {c} : rest'[d] = rest[d]
      /\ SendEncrypted(Only(clients[u]), p)
      /\ UNCHANGED <<pc, req, hist, username, clients, db>>
  BY BroadcastToSets DEF ServerInv
<1>2. u \in Online
  BY <1>1 DEF ServerInv, MessageInv, LockInv
<1>3. clients[u] \in Conns
  BY <1>2 DEF Online, ServerInv, TypeInv, TypeOK
<1>4. ChangeOfMembers = TheRoom!Settled /\ ChangeOfMembers' = ChangeOfMembers
  <2>1. pc[c] \notin Exclusive /\ pc'[c] \notin Exclusive
    BY <1>1 DEF Exclusive, Joining
  <2>2. \A d \in Conns : pc[d] \notin Exclusive
    BY <1>1, <2>1 DEF ServerInv, MessageInv, LockInv
  <2> QED BY <1>1, <2>1, <2>2, SettledFor, OutsideLock
<1>5. Saying' = [Saying EXCEPT ![c] = SaidBy(c)']
  BY <1>1, SaidChanges DEF SaysTheSame
<1>6. Saying[c] = {Broadcasted(c, v) : v \in rest[c]}
  BY <1>1 DEF Saying, SaidBy, Readers, Broadcasted
<1>7. SaidBy(c)' = {Broadcasted(c, v) : v \in rest[c] \ {u}}
  BY <1>1 DEF SaidBy, Readers, Broadcasted
<1>8. \A v : Broadcasted(c, v).to = v
  BY DEF Broadcasted
<1>9. SaidBy(c)' = Saying[c] \ {p} /\ p \in Saying[c] /\ p.to = u
  BY <1>1, <1>6, <1>7, <1>8
<1> HIDE DEF p
<1>10. TheRoom!Offer({clients[u]}, p)
  BY <1>1, <1>3, OnlyIsOffer DEF ServerInv
<1>11. u \in TheRoom!Present
  BY <1>2 DEF TheRoom!Present, Online
<1>12. TheRoom!Deliver(c, p)
  BY <1>1, <1>4, <1>5, <1>9, <1>10, <1>11 DEF TheRoom!Deliver
<1> QED BY <1>9, <1>12

(* The locked part of unregister takes a member out. *)
LEMMA RoomLeaveStep ==
  ASSUME ServerInv, [Next]_vars, NEW c \in Conns, Unregister(c)
  PROVE  TheRoom!Leave(username[c]) /\ username[c] \in Users
<1>1. /\ pc[c] = "leave" /\ pc'[c] = "leave_peers"
      /\ \A d \in Conns : pc[d] \notin Exclusive
      /\ \A d \in Conns \ {c} : pc'[d] = pc[d]
      /\ username[c] \in Users /\ clients[username[c]] = c
      /\ UNCHANGED <<req, rest, username, db, log>>
  BY UnregisterSets DEF ServerInv
<1>2. clients' = [clients EXCEPT ![username[c]] = NoOne]
  BY DEF Unregister, Removed
<1>3. ChangeOfMembers = TheRoom!Settled
  BY <1>1, LockStays DEF ChangeSeen
<1>4. ChangeOfMembers' = TheRoom!Change(username[c], "left peers")
  <2>1. pc'[c] \in Exclusive
    BY <1>1 DEF Exclusive, Joining
  <2>2. ChangeOfMembers' = SeenAs(c)'
    BY <2>1, LockStays DEF ChangeSeen
  <2>3. pc'[c] = "leave_peers" /\ username'[c] = username[c]
    BY <1>1
  <2>4. SeenAs(c)' = [who |-> username[c], step |-> "left peers", due |-> {}]
    BY <2>3 DEF SeenAs, ChangeStep
  <2> QED BY <2>2, <2>4 DEF TheRoom!Change
<1>5. Saying' = Saying
  <2>1. Readers(c) = {} /\ Readers(c)' = {}
    BY <1>1, NoReaders
  <2>2. \A d \in Conns : SaysTheSame(d)
    BY <1>1, <2>1 DEF SaysTheSame
  <2> QED BY <2>2, SaidChanges
<1> QED BY <1>1, <1>2, <1>3, <1>4, <1>5 DEF TheRoom!Leave

(* The sweep of Close empties the room. *)
LEMMA CloseRoomStep ==
  ASSUME ServerInv, [Next]_vars, CloseClients
  PROVE  TheRoom!CloseRoom
<1>1. /\ \A d \in Conns : pc[d] \notin Exclusive
      /\ clients' = [u \in Users |-> NoOne]
      /\ UNCHANGED <<pc, req, hist, rest, username, db, log>>
  BY CloseClientsSets
<1>2. ChangeOfMembers = TheRoom!Settled
  BY <1>1, LockStays DEF ChangeSeen
<1>3. ChangeOfMembers' = ChangeOfMembers
  BY <1>1, LockStays, ChangeStays
<1>4. Saying' = Saying
  BY <1>1 DEF Saying, SaidBy, Readers
<1> QED BY <1>1, <1>2, <1>3, <1>4 DEF TheRoom!CloseRoom

(* A crash restarts the room. *)
LEMMA RestartStep ==
  ASSUME ServerInv, [Next]_vars, CrashRestart
  PROVE  TheRoom!Restart
<1>1. /\ clients' = [u \in Users |-> NoOne]
      /\ log' = [c \in Conns |-> <<>>]
      /\ \A c \in Conns : pc'[c] = "off"
      /\ db' = db
  BY DEF CrashRestart, Each, store
<1>2. ChangeOfMembers' = TheRoom!Settled
  <2>1. \A c \in Conns : pc'[c] \notin Exclusive
    BY <1>1 DEF Exclusive, Joining
  <2> QED BY <2>1, LockStays DEF ChangeSeen, TheRoom!Settled, TheRoom!Change
<1>3. Saying' = [c \in Conns |-> {}]
  <2>1. \A c \in Conns : SaidBy(c)' = {}
    BY <1>1, NoReaders DEF SaidBy
  <2> QED BY <2>1 DEF Saying
<1> QED BY <1>1, <1>2, <1>3 DEF TheRoom!Restart

-----------------------------------------------------------------------------
(* The steps the room does not notice.                                       *)

(* What neither sends nor touches registry or table is not seen in the room. *)
LEMMA UnnoticedStep ==
  ASSUME ServerInv, [Next]_vars, log' = log, UNCHANGED <<username, clients, db>>,
         Saying' = Saying,
         \A d \in Conns :
           \/ pc'[d] = pc[d] /\ hist'[d] = hist[d]
           \/ pc[d] \notin Exclusive /\ pc'[d] \notin Exclusive
  PROVE  UNCHANGED TheRoom!room
<1>1. ChangeOfMembers' = ChangeOfMembers
  BY LockStays, ChangeStays
<1> QED BY <1>1 DEF TheRoom!room

(* Every step of the server is one of the room, or is not seen there. *)
LEMMA RoomStep ==
  ASSUME "relogin" \notin Env, ServerInv, [Next]_vars
  PROVE  [TheRoom!Next]_(TheRoom!room)
<1> USE DEF TheRoom!Next, TheRoom!ComeAndGo, TheRoom!Speak
<1>1. CASE CrashRestart
  BY <1>1, RestartStep
<1>2. ASSUME NEW c \in Conns, Running, Handshake(c) \/ ReplyError(c) \/ SendPeers(c)
      PROVE  TheRoom!Next
  BY <1>2, OpenStep, RefuseStep, RoomWelcomeStep
<1>3. ASSUME NEW c \in Conns, Running, FinishAuth(c)
      PROVE  TheRoom!Next
  BY <1>3, RoomJoinStep
<1>4. ASSUME NEW c \in Conns, Running, SendHistoryRow(c)
      PROVE  TheRoom!Next
  BY <1>4, RecallStep
<1>5. ASSUME NEW c \in Conns, Running,
             \/ LoadHistoryFails(c) \/ BroadcastPeers(c)
             \/ AnnounceJoin(c) \/ AnnounceLeave(c)
      PROVE  TheRoom!Next
  BY <1>5, RecallFailsStep, TellPeersStep, TellNoteStep
<1>6. ASSUME NEW c \in Conns, Running, SaveMessageHistory(c)
      PROVE  TheRoom!Next
  BY <1>6, PostStep
<1>7. ASSUME NEW c \in Conns, NEW u \in Users, Running, BroadcastTo(c, u)
      PROVE  TheRoom!Next
  BY <1>7, DeliverStep
<1>8. ASSUME NEW c \in Conns, Unregister(c)
      PROVE  TheRoom!Next
  BY <1>8, RoomLeaveStep
<1>9. CASE CloseClients
  BY <1>9, CloseRoomStep
<1>10. CASE UNCHANGED vars
  <2>1. UNCHANGED <<pc, req, rest, hist, log, username, clients, db>>
    BY <1>10 DEF vars, handler, session, store
  <2>2. Saying' = Saying
    BY <2>1 DEF Saying, SaidBy, Readers
  <2> QED BY <2>1, <2>2, UnnoticedStep
<1>11. ASSUME NEW c \in Conns, NEW r \in Request, ReadPacket(c, r)
       PROVE  UNCHANGED TheRoom!room
  <2>1. /\ pc[c] \notin Exclusive /\ pc'[c] \notin Exclusive
        /\ pc[c] \notin {"saved", "cast"} /\ pc'[c] \notin {"saved", "cast"}
        /\ \A d \in Conns \ {c} : pc'[d] = pc[d] /\ req'[d] = req[d]
        /\ UNCHANGED <<rest, log, username, clients, db>>
    BY <1>11, ReadPacketSets DEF ServerInv, Exclusive, Joining
  <2>2. hist' = hist
    BY <1>11 DEF ReadPacket
  <2>3. Saying' = Saying
    <3>1. Readers(c) = {} /\ Readers(c)' = {}
      BY <2>1, NoReaders
    <3>2. \A d \in Conns : SaysTheSame(d)
      BY <2>1, <3>1 DEF SaysTheSame
    <3> QED BY <3>2, SaidChanges
  <2> QED BY <2>1, <2>2, <2>3, UnnoticedStep
<1>15. ASSUME NEW c \in Conns, BeginBroadcast(c)
       PROVE  TheRoom!Next
  BY <1>15, AddressStep
<1>16. ASSUME NEW c \in Conns, LoadHistory(c)
       PROVE  TheRoom!Next
  BY <1>16, LookStep
<1>12. CASE SmallStep /\ Running /\ ~CrashRestart
  <2>1. CASE \E c \in Conns :
               \/ Handshake(c) \/ SendsOne(c) \/ SendsAll(c)
               \/ LoadHistory(c) \/ LoadHistoryFails(c)
               \/ \E u \in Users : BroadcastTo(c, u)
    BY <1>2, <1>3, <1>4, <1>5, <1>7, <1>12, <1>16, <2>1 DEF SendsOne, SendsAll
  <2>2. CASE ~ \E c \in Conns :
               \/ Handshake(c) \/ SendsOne(c) \/ SendsAll(c)
               \/ LoadHistory(c) \/ LoadHistoryFails(c)
               \/ \E u \in Users : BroadcastTo(c, u)
    <3>1. log' = log
      BY <1>12, <2>2, SendKinds DEF ServerInv
    <3>2. ASSUME NEW d \in Conns, pc'[d] # pc[d], pc[d] \in Exclusive
          PROVE  FALSE
      <4>1. SmallMove(d)
        BY <1>12, <3>2 DEF SmallStep
      <4>2. pc[d] \in {"load", "hist", "join_peers", "join_note", "leave_peers", "leave_note"}
        BY <3>2 DEF Exclusive, Joining
      <4> QED BY <2>2, <4>1, <4>2 DEF SmallMove, SendsOne, SendsAll
    <3>3. ASSUME NEW d \in Conns, pc'[d] # pc[d], pc[d] \notin Exclusive
          PROVE  pc'[d] \notin Exclusive
      BY <1>12, <3>3 DEF SmallStep, SmallMove
    <3>4. \A d \in Conns : hist'[d] = hist[d]
      BY <1>12, <2>2, HistChanges DEF ServerInv, SendsOne
    <3>5. Saying' = Saying
      BY <1>12, SaidSmall
    <3> QED BY <1>12, <3>1, <3>2, <3>3, <3>4, <3>5, UnnoticedStep DEF SmallStep
  <2> QED BY <2>1, <2>2
<1>13. Running \/ CrashRestart \/ UNCHANGED vars
  BY DEF Next, Stopped
<1> HIDE DEF TheRoom!Next, TheRoom!ComeAndGo, TheRoom!Speak
<1>14. TheRoom!Next \/ UNCHANGED TheRoom!room
  <2>1. CASE CrashRestart \/ UNCHANGED vars
    BY <1>1, <1>10, <2>1
  <2>2. CASE Running /\ ~CrashRestart
    <3>1. CASE SmallStep
      BY <1>12, <2>2, <3>1
    <3>2. CASE CloseClients
      BY <1>9, <3>2
    <3>3. ASSUME NEW c \in Conns,
                 \/ \E r \in Request : ReadPacket(c, r)
                 \/ FinishAuth(c) \/ SaveMessageHistory(c) \/ BeginBroadcast(c)
                 \/ \E u \in Users : BroadcastTo(c, u)
                 \/ Unregister(c)
          PROVE  TheRoom!Next \/ UNCHANGED TheRoom!room
      BY <1>3, <1>6, <1>7, <1>8, <1>11, <1>15, <2>2, <3>3
    <3> QED BY <2>2, <3>1, <3>2, <3>3, StepKinds DEF ServerInv
  <2> QED BY <1>13, <2>1, <2>2
<1> QED BY <1>14

(* The server starts as an empty room. *)
LEMMA RoomInit == Init => TheRoom!Init
<1> SUFFICES ASSUME Init PROVE TheRoom!Init
  OBVIOUS
<1>1. /\ clients = [u \in Users |-> NoOne]
      /\ log = [c \in Conns |-> <<>>]
      /\ \A c \in Conns : pc[c] = "off"
      /\ db = EmptyTable
  BY DEF Init, Fresh, Each
<1>2. Changing = {}
  BY <1>1 DEF Changing, ChangeStep
<1>3. ChangeOfMembers = TheRoom!Settled
  BY <1>2 DEF ChangeOfMembers, TheRoom!Settled, TheRoom!Change
<1>4. Saying = [c \in Conns |-> {}]
  <2>1. \A c \in Conns : SaidBy(c) = {}
    BY <1>1, NoReaders DEF SaidBy
  <2> QED BY <2>1 DEF Saying
<1>5. db \in TheRoom!Table(Mids, Users, Stamps)
  BY <1>1 DEF EmptyTable, TheRoom!Table
<1> QED BY <1>1, <1>3, <1>4, <1>5 DEF TheRoom!Init

(***************************************************************************)
(* The server implements the room, for any number of connections, users and *)
(* requests, any queue and any limit, and whatever the environment does but  *)
(* log in twice on one connection: all that ChatRoom says of joins, leaves,   *)
(* recalled rows and deliveries is so of every behaviour of the handlers.     *)
(***************************************************************************)
THEOREM RoomImplemented ==
  ASSUME "relogin" \notin Env
  PROVE  Spec => ImplementsRoom
<1>1. Init => TheRoom!Init
  BY RoomInit
<1>2. /\ TypeInv /\ SessionInv /\ MessageInv /\ JoinInv /\ [Next]_vars
      => [TheRoom!Next]_(TheRoom!room)
  BY RoomStep DEF ServerInv
<1> QED BY <1>1, <1>2, JoinSafe, PTL DEF Spec, ImplementsRoom, TheRoom!Spec
=============================================================================
