-------------------------- MODULE ChatClientProofs --------------------------
(***************************************************************************)
(* Theorems about ChatClient for every set of accounts, every capacity of   *)
(* Incoming and every number of connections, requests and packets.          *)
(***************************************************************************)
EXTENDS ChatClientProperties, Integers, SequenceTheorems, TLAPS

USE AccountsAssumption, ClientBoundsAssumption

-----------------------------------------------------------------------------
(* The strengthenings that make the properties inductive.                   *)

Fresh(k) ==
    /\ reader[k] = At("none") /\ link[k] = "none" /\ key[k] = NoOne
    /\ asked[k] = <<>> /\ auth[k] = NoOne /\ wire[k] = <<>>

(* Only the last connection can be the client's, and no other one is up. *)
ConnInv ==
    /\ client \in {0, token}
    /\ ui \in {"dial", "auth_view"} => ~session.joined
    /\ ui = "dial" => ~session.loading
    /\ ui = "naming" => incoming # <<>> /\ Head(incoming).kind = "auth"
    /\ \A k \in Conns :
         /\ served[k] <= Len(asked[k])
         /\ got[k] <= Len(wire[k])
         /\ reader[k].at = "handle" => got[k] > 0
         /\ link[k] = "up" => k = client /\ ui # "dial"
         /\ k > token => Fresh(k)

(* A connection has the key of the first account that was tried on it. *)
AskedInv ==
    \A k \in Conns :
      /\ asked[k] # <<>> => key[k] = asked[k][1]
      /\ asked[k] = <<>> /\ link[k] = "up" => key[k] = NoOne
      /\ auth[k] # NoOne => asked[k] # <<>>

Down(e) == e.kind = "status" /\ e.down
Has(k, kind) == reader[k].at \in {"emit", "push"} /\ reader[k].event.kind = kind

(* A readLoop puts in its own events, the one of its end last. *)
EventInv ==
    /\ \A k \in Conns :
         /\ reader[k].at \in {"emit", "push"} =>
              /\ reader[k].event.conn = k
              /\ Down(reader[k].event) => link[k] # "up"
         /\ reader[k].at \in {"exit", "done"} => link[k] # "up"
    /\ \A i \in DOMAIN incoming :
         /\ incoming[i].conn <= token
         /\ Down(incoming[i]) =>
              /\ reader[incoming[i].conn].at \in {"exit", "done"}
              /\ \A j \in DOMAIN incoming : i < j => incoming[j].conn # incoming[i].conn

(* Before a login nothing but greetings and refusals; after it, everything   *)
(* is for the account that is logged in. *)
Meant(p, u) ==
    /\ u = NoOne => p.kind \in {"system", "error"}
    /\ p.kind = "auth_ok" => p.user = u
    /\ p.kind = "message" => p.to = u

WireInv ==
    \A k \in Conns :
      /\ served[k] < Len(asked[k]) => auth[k] = NoOne
      /\ \A i \in 1..Len(wire[k]) : Meant(wire[k][i], auth[k])
      /\ Has(k, "auth") => reader[k].event.user = auth[k]

NameInv ==
    /\ session.joined => /\ token # 0
                         /\ session.username # NoOne
                         /\ session.username = auth[token]
    /\ \A i \in DOMAIN incoming :
         incoming[i].kind = "auth" => incoming[i].user = auth[incoming[i].conn]

Ended(k) == reader[k].at \in {"exit", "done"}
EndComing(k) == \E i \in DOMAIN incoming : Down(incoming[i]) /\ incoming[i].conn = k
AuthQueued(k) ==
    \E i \in DOMAIN incoming : incoming[i].kind = "auth" /\ incoming[i].conn = k

(* A readLoop that is over ends the session, if it has not yet. *)
EndInv ==
    \A k \in Conns :
      k = token /\ Ended(k) /\ (session.joined \/ AuthQueued(k)) => EndComing(k)

Unread(k) == (got[k] + 1)..Len(wire[k])

(* Where an answer may be: unread, with the readLoop, in the channel. *)
Refusal(k, i) == wire[k][i].kind = "error"
Busy(k) ==
    \/ reader[k].at = "handle" /\ InHand(k).kind # "system"
    \/ Has(k, "auth") \/ Has(k, "status")
Frees(k, i) == incoming[i].kind = "status" /\ incoming[i].conn = k

NoRefusal(k) == \A i \in Unread(k) : ~Refusal(k, i)
NothingFrees(k) == \A i \in DOMAIN incoming : ~Frees(k, i)

(* A request, or the one answer to it, keeps the form busy. *)
OneAnswer(k) ==
    /\ served[k] < Len(asked[k]) =>
         session.loading /\ NoRefusal(k) /\ ~Busy(k) /\ NothingFrees(k)
    /\ Busy(k) => session.loading /\ NoRefusal(k) /\ NothingFrees(k)
    /\ \A i \in Unread(k) : Refusal(k, i) =>
         /\ session.loading /\ NothingFrees(k)
         /\ \A j \in Unread(k) : Refusal(k, j) => i = j
    /\ \A i \in DOMAIN incoming : Frees(k, i) =>
         session.loading /\ \A j \in DOMAIN incoming : Frees(k, j) => i = j

(* A yes is on its way to the window, and nothing overtakes it. *)
YesUnread(k) ==
    /\ \E i \in Unread(k) :
         /\ wire[k][i].kind = "auth_ok"
         /\ \A j \in Unread(k) : j < i => wire[k][j].kind = "system"
    /\ ~Busy(k) /\ NothingFrees(k)
HoldsYes(k) ==
    (reader[k].at = "handle" /\ InHand(k).kind = "auth_ok") \/ Has(k, "auth")
YesInHand(k) == HoldsYes(k) /\ NothingFrees(k)
YesQueued(k) ==
    \E i \in DOMAIN incoming :
      /\ incoming[i].kind = "auth" /\ incoming[i].conn = k
      /\ \A j \in DOMAIN incoming : j < i => ~Frees(k, j)

LoginAt(k) ==
    /\ Len(asked[k]) <= served[k] + 1
    /\ auth[k] = NoOne => OneAnswer(k)
    /\ auth[k] # NoOne =>
         \/ session.joined
         \/ session.loading /\ (YesUnread(k) \/ YesInHand(k) \/ YesQueued(k))

LoginInv == \A k \in Conns : link[k] = "up" => LoginAt(k)

FormInv == ~stale => WireInv /\ NameInv /\ EndInv /\ LoginInv

(* The readLoop has done with so many packets: it may have one in hand. *)
Handed(k) ==
    IF reader[k].at = "handle" \/ Has(k, "message") THEN got[k] - 1 ELSE got[k]

(* Chat, then channel, then readLoop: a later place has later packets. *)
Shown(k, i) == incoming[i].kind = "message" /\ incoming[i].conn = k
OrderAt(k) ==
    /\ Has(k, "message") => reader[k].event.nth = got[k] /\ got[k] > 0
    /\ \A i \in DOMAIN chat : chat[i][1] = k =>
         /\ chat[i][2] <= Handed(k)
         /\ \A j \in DOMAIN chat :
              i < j /\ chat[j][1] = k /\ chat[j][2] # 0 => chat[i][2] < chat[j][2]
    /\ \A i \in DOMAIN incoming : Shown(k, i) =>
         /\ incoming[i].nth > 0 /\ incoming[i].nth <= Handed(k)
         /\ \A j \in DOMAIN chat : chat[j][1] = k => chat[j][2] < incoming[i].nth
         /\ \A j \in DOMAIN incoming :
              i < j /\ Shown(k, j) => incoming[i].nth < incoming[j].nth

OrderInv == \A k \in Conns : OrderAt(k)

KeptInv ==
    \A k \in Conns : k = client =>
      \A i \in 1..got[k] :
        wire[k][i].kind \in {"system", "message"} /\ <<k, i>> \notin missed =>
          \/ \E j \in DOMAIN chat : chat[j] = <<k, i>>
          \/ Queued([ShowEvent(k) EXCEPT !.nth = i])
          \/ Held(k, i)

(* What has been handled: all but the packet in hand. *)
Handled(k) == IF reader[k].at = "handle" THEN got[k] - 1 ELSE got[k]

(* A message was readable because the window had the right name by then. *)
MissInv ==
    /\ \A m \in missed : m[1] \in Conns /\ m[2] \in 1..Handled(m[1])
    /\ ~stale => \A k \in Conns : k = client =>
         \A i \in 1..Handled(k) :
           wire[k][i].kind = "message" /\ <<k, i>> \notin missed
             => session.username = auth[k]

-----------------------------------------------------------------------------
(* Types.                                                                   *)

(* What a readLoop makes of a packet is an event. *)
LEMMA EventsTyped ==
  ASSUME NEW k \in Conns, got[k] \in Nat
  PROVE  /\ ShowEvent(k) \in Event /\ StatusEvent(k) \in Event /\ DownEvent(k) \in Event
         /\ \A u \in Accounts : AuthEvent(k, u) \in Event
BY DEF ShowEvent, StatusEvent, DownEvent, AuthEvent, Event

(* A readLoop with an event in its hands is in a state of its own. *)
LEMMA StatesTyped ==
  /\ \A s \in {"none", "read", "handle", "wake", "exit", "done"} :
       At(s) \in ReaderStates /\ At(s).at = s
  /\ \A e \in Event : [at |-> "emit", event |-> e] \in ReaderStates
  /\ \A e : AfterEvent(e) \in ReaderStates /\ AfterEvent(e).at \in {"wake", "exit"}
  /\ \A r \in ReaderStates : r.at \in {"emit", "push"} =>
       r.event \in Event /\ [r EXCEPT !.at = "push"] \in ReaderStates
BY DEF At, ReaderStates, AfterEvent

(* A readLoop that steps keeps the others. *)
LEMMA Stepped ==
  ASSUME reader \in [Conns -> ReaderStates], NEW k \in Conns, NEW st \in ReaderStates,
         Step(k, st)
  PROVE  reader' \in [Conns -> ReaderStates]
BY DEF Step

(* The packets the server can send. *)
LEMMA PacketsTyped ==
  /\ [kind |-> "system"] \in Packet /\ [kind |-> "error"] \in Packet
  /\ \A b \in BOOLEAN : [kind |-> "peer_sync", ok |-> b] \in Packet
  /\ \A u \in Accounts : [kind |-> "auth_ok", user |-> u] \in Packet
  /\ \A u \in Accounts, b \in BOOLEAN : Mail(u, b) \subseteq Packet
BY DEF Packet, Mail

(* Taking the first event out, and putting one in behind. *)
LEMMA ChannelTyped ==
  ASSUME NEW q \in Seq(Event)
  PROVE  /\ q # <<>> => Head(q) \in Event /\ Tail(q) \in Seq(Event)
         /\ \A e \in Event : Append(q, e) \in Seq(Event)
         /\ \A e \in Event : Deliver(q, e) \subseteq Seq(Event)
BY DEF Deliver

Received(k) == got[k] \in 1..Len(wire[k])

(* The packet a readLoop has in hand is one the server has sent. *)
LEMMA InHandTyped ==
  ASSUME ClientTypeOK, NEW k \in Conns, Received(k)
  PROVE  /\ InHand(k) \in Packet
         /\ InHand(k).kind = "auth_ok" => InHand(k).user \in Accounts
         /\ InHand(k).kind = "peer_sync" => InHand(k).ok \in BOOLEAN
         /\ InHand(k).kind = "message" => InHand(k).history \in BOOLEAN
<1>1. wire[k] \in Seq(Packet)
  BY DEF ClientTypeOK
<1>2. InHand(k) \in Packet
  BY <1>1 DEF InHand, Received
<1> QED BY <1>2 DEF Packet

(* One more packet read. *)
LEMMA CountTyped ==
  ASSUME NEW f \in [Conns -> Nat], NEW k \in Conns
  PROVE  [f EXCEPT ![k] = @ + 1] \in [Conns -> Nat]
OBVIOUS

(* The steps of a readLoop. *)
LEMMA ReaderTypeStep ==
  ASSUME ClientTypeOK, ConnInv, NEW k \in Conns, ReadLoop(k)
  PROVE  ClientTypeOK'
<1> USE DEF ClientTypeOK, app, transport, server
<1>1. CASE Receive(k)
  <2>1. At("handle") \in ReaderStates
    BY StatesTyped
  <2>2. reader' \in [Conns -> ReaderStates]
    <3>1. Step(k, At("handle"))
      BY <1>1 DEF Receive
    <3> QED BY <2>1, <3>1, Stepped
  <2>3. got' \in [Conns -> Nat]
    <3>1. got' = [got EXCEPT ![k] = @ + 1]
      BY <1>1, Zenon DEF Receive
    <3>2. got \in [Conns -> Nat]
      BY Zenon
    <3> QED BY <3>1, <3>2, CountTyped, Zenon
  <2> QED BY <1>1, <2>2, <2>3 DEF Receive
<1>2. CASE ReceiveFails(k)
  BY <1>2, StatesTyped, EventsTyped DEF ReceiveFails, Step
<1>3. ASSUME reader[k].at = "handle" PROVE Received(k)
  BY <1>3 DEF ConnInv, Received
<1>4. CASE HandleSystem(k)
  <2> DEFINE e == CASE InHand(k).kind = "system"  -> ShowEvent(k)
                    [] InHand(k).kind = "auth_ok" -> AuthEvent(k, InHand(k).user)
                    [] InHand(k).kind = "error"   -> StatusEvent(k)
  <2>1. e \in Event
    BY <1>3, <1>4, EventsTyped, InHandTyped DEF HandleSystem
  <2>2. Step(k, [at |-> "emit", event |-> e])
    BY <1>4 DEF HandleSystem
  <2> HIDE DEF e
  <2>3. reader' \in [Conns -> ReaderStates]
    BY <2>1, <2>2, StatesTyped DEF Step
  <2> QED BY <1>4, <2>3 DEF HandleSystem
<1>5. CASE HandlePeerSync(k)
  <2>1. \A b \in BOOLEAN : (IF b THEN At("wake")
           ELSE [at |-> "emit", event |-> StatusEvent(k)]) \in ReaderStates
    BY StatesTyped, EventsTyped
  <2>2. InHand(k).ok \in BOOLEAN
    BY <1>3, <1>5, InHandTyped DEF HandlePeerSync
  <2>3. reader' \in [Conns -> ReaderStates]
    BY <1>5, <2>1, <2>2, StatesTyped DEF HandlePeerSync, Step
  <2>4. peers' \in [Conns -> BOOLEAN]
    BY <1>5, <2>2 DEF HandlePeerSync, UpdatePeers
  <2> QED BY <1>5, <2>3, <2>4 DEF HandlePeerSync
<1>6. CASE HandleMessage(k)
  <2>1. \A b \in BOOLEAN : (IF b THEN At("wake")
           ELSE [at |-> "emit", event |-> StatusEvent(k)]) \in ReaderStates
    BY StatesTyped, EventsTyped
  <2>2. InHand(k).history \in BOOLEAN
    BY <1>3, <1>6, InHandTyped DEF HandleMessage
  <2>3. reader' \in [Conns -> ReaderStates]
    <3>1. \E st \in ReaderStates : Step(k, st)
      <4>1. At("wake") \in ReaderStates
        BY StatesTyped
      <4>2. \A e \in Event : [at |-> "emit", event |-> e] \in ReaderStates
        BY StatesTyped
      <4> QED BY <1>6, <2>2, <4>1, <4>2, EventsTyped DEF HandleMessage
    <3> QED BY <3>1, Stepped
  <2>4. missed' \in SUBSET (Conns \X Nat)
    BY <1>6 DEF HandleMessage
  <2> QED BY <1>6, <2>3, <2>4 DEF HandleMessage
<1>7. CASE EmitCheck(k)
  BY <1>7, StatesTyped DEF EmitCheck, Step
<1>8. CASE EmitPush(k)
  BY <1>8, StatesTyped, ChannelTyped DEF EmitPush, Step
<1>9. CASE Wake(k)
  BY <1>9, StatesTyped DEF Wake, Step, Invalidated
<1> QED BY <1>1, <1>2, <1>4, <1>5, <1>6, <1>7, <1>8, <1>9 DEF ReadLoop


(* The steps of the UI goroutine. *)
Ui == FrameSteps \/ Dialled \/ Clicks \/ Input \/ Destroy

(* A dial that succeeds makes the next connection. *)
LEMMA NextConn ==
  ASSUME ClientTypeOK, DialSucceeds
  PROVE  token \in Nat /\ token + 1 \in Conns /\ token + 1 > token
<1>1. token < MaxConns
  BY DEF DialSucceeds
<1>2. token \in Conns \cup {0}
  BY DEF ClientTypeOK
<1> QED BY <1>1, <1>2 DEF Conns

(* A step of the UI goroutine keeps the types. *)
LEMMA UiTypeStep ==
  ASSUME ClientTypeOK, ConnInv, Ui
  PROVE  ClientTypeOK'
<1> USE DEF ClientTypeOK, readers, transport, server, app, UiStates
<1>1. CASE BeginFrame \/ EndFrame \/ Input \/ Destroy \/ Drained \/ BeginNaming
  BY <1>1 DEF BeginFrame, EndFrame, Input, Destroy, Drained, BeginNaming
<1>2. ASSUME incoming # <<>>, incoming' = Tail(incoming)
      PROVE  Head(incoming) \in Event /\ incoming' \in Seq(Event)
  BY <1>2, ChannelTyped
<1>3. CASE ApplyMessage
  <2>1. /\ Head(incoming) \in Event /\ incoming' \in Seq(Event)
        /\ Head(incoming).kind = "message"
    BY <1>2, <1>3 DEF ApplyMessage
  <2>2. <<Head(incoming).conn, Head(incoming).nth>> \in (Conns \cup {0}) \X Nat
    BY <2>1 DEF Event
  <2>3. chat' \in Seq((Conns \cup {0}) \X Nat)
    BY <1>3, <2>2 DEF ApplyMessage
  <2>4. stale' \in BOOLEAN
    BY <1>3 DEF ApplyMessage
  <2> QED BY <1>3, <2>1, <2>3, <2>4 DEF ApplyMessage
<1>4. CASE ApplyAuth
  <2>1. /\ Head(incoming) \in Event /\ incoming' \in Seq(Event)
        /\ Head(incoming).kind = "auth"
    BY <1>2, <1>4 DEF ApplyAuth, ConnInv
  <2>2. Head(incoming).user \in Accounts
    BY <2>1 DEF Event
  <2>3. session' \in [username: Accounts \cup {NoOne}, joined: BOOLEAN,
                      connected: BOOLEAN, loading: BOOLEAN]
    BY <1>4, <2>2 DEF ApplyAuth
  <2>4. stale' \in BOOLEAN
    BY <1>4 DEF ApplyAuth
  <2> QED BY <1>4, <2>1, <2>3, <2>4 DEF ApplyAuth
<1>5. CASE ApplyStatus
  <2>1. incoming' \in Seq(Event)
    BY <1>2, <1>5 DEF ApplyStatus
  <2>2. session' \in [username: Accounts \cup {NoOne}, joined: BOOLEAN,
                      connected: BOOLEAN, loading: BOOLEAN]
    BY <1>5 DEF ApplyStatus, Disconnected, Troubled
  <2>3. stale' \in BOOLEAN
    BY <1>5 DEF ApplyStatus
  <2> QED BY <1>5, <2>1, <2>2, <2>3 DEF ApplyStatus
<1>6. Shut(client) \in [Conns -> {"none", "up", "cut", "shut"}]
  BY DEF Shut
<1>7. Blank \in [username: Accounts \cup {NoOne}, joined: BOOLEAN,
                 connected: BOOLEAN, loading: BOOLEAN]
  BY DEF Blank
<1>8. CASE Reconnect \/ Logout
  <2>1. chat' \in Seq((Conns \cup {0}) \X Nat)
    <3>1. CASE Reconnect
      BY <3>1 DEF Reconnect
    <3>2. CASE Logout
      <4>1. chat' = <<>>
        BY <3>2 DEF Logout
      <4> QED BY <4>1, EmptySeq
    <3> QED BY <1>8, <3>1, <3>2
  <2>2. session' \in [username: Accounts \cup {NoOne}, joined: BOOLEAN,
                      connected: BOOLEAN, loading: BOOLEAN]
    <3>1. CASE Reconnect
      BY <3>1 DEF Reconnect
    <3>2. CASE Logout
      BY <1>7, <3>2 DEF Logout
    <3> QED BY <1>8, <3>1, <3>2
  <2> QED BY <1>6, <1>8, <2>1, <2>2 DEF Reconnect, Logout
<1>9. CASE DialSucceeds
  <2>1. token + 1 \in Conns
    BY <1>9, NextConn
  <2>2. At("read") \in ReaderStates
    BY StatesTyped
  <2>3. reader' \in [Conns -> ReaderStates]
    BY <1>9, <2>1, <2>2, Stepped DEF DialSucceeds
  <2>4. <<[kind |-> "system"]>> \in Seq(Packet)
    BY PacketsTyped
  <2>5. wire' \in [Conns -> Seq(Packet)] /\ link' \in [Conns -> {"none", "up", "cut", "shut"}]
    BY <1>9, <2>4 DEF DialSucceeds, Dial
  <2> QED BY <1>9, <2>1, <2>3, <2>5 DEF DialSucceeds
<1>10. CASE DialFails
  <2>1. session' \in [username: Accounts \cup {NoOne}, joined: BOOLEAN,
                      connected: BOOLEAN, loading: BOOLEAN]
    BY <1>10 DEF DialFails
  <2> QED BY <1>10, <2>1 DEF DialFails
<1>11. ASSUME NEW a \in Accounts, SendAuth(a) PROVE key' \in [Conns -> Accounts \cup {NoOne}]
  BY <1>11 DEF SendAuth, KeyOf
<1>12. ASSUME NEW a \in Accounts, SubmitAuth(a) PROVE ClientTypeOK'
  <2>1. asked' \in [Conns -> Seq(Accounts)]
    <3>1. Append(asked[client], a) \in Seq(Accounts) \/ client = 0
      OBVIOUS
    <3> QED BY <1>12, <3>1 DEF SubmitAuth, Connected
  <2>2. key' \in [Conns -> Accounts \cup {NoOne}]
    BY <1>11, <1>12 DEF SubmitAuth
  <2> QED BY <1>12, <2>1, <2>2 DEF SubmitAuth
<1>13. ASSUME NEW a \in Accounts, SubmitFails(a) PROVE ClientTypeOK'
  <2>1. key' \in [Conns -> Accounts \cup {NoOne}]
    BY <1>11, <1>13 DEF SubmitFails
  <2> QED BY <1>13, <2>1 DEF SubmitFails
<1>14. ASSUME NEW a \in Accounts, SubmitLost(a) PROVE ClientTypeOK'
  <2>1. key' \in [Conns -> Accounts \cup {NoOne}]
    BY <1>11, <1>14 DEF SubmitLost
  <2> QED BY <1>14, <2>1 DEF SubmitLost
<1>15. CASE SendMessage
  <2>1. Own \in (Conns \cup {0}) \X Nat
    BY DEF Own
  <2>2. chat' = Append(chat, Own)
    BY <1>15 DEF SendMessage
  <2>3. chat' \in Seq((Conns \cup {0}) \X Nat)
    BY <2>1, <2>2
  <2> QED BY <1>15, <2>3 DEF SendMessage
<1> QED BY <1>1, <1>3, <1>4, <1>5, <1>8, <1>9, <1>10, <1>12, <1>13, <1>14, <1>15
        DEF Ui, FrameSteps, Dialled, Clicks, AuthActions, SidebarActions

(* The other end, and a torn name. *)
Outside(k) == TornName(k) \/ Answer(k) \/ Broadcast(k) \/ Cut(k)

(* What happens to a session is told in packets. *)
LEMMA NewsTyped ==
  ASSUME ClientTypeOK, NEW k \in Conns, auth[k] # NoOne, NEW p \in News(k)
  PROVE  p \in Packet
<1>1. auth[k] \in Accounts
  BY DEF ClientTypeOK
<1>2. [kind: {"system"}] \subseteq Packet /\ [kind: {"peer_sync"}, ok: BOOLEAN] \subseteq Packet
  BY DEF Packet
<1>3. Mail(auth[k], FALSE) \subseteq Packet
  BY <1>1, PacketsTyped
<1> QED BY <1>2, <1>3 DEF News

(* Which account an answer is about. *)
LEMMA PendingTyped ==
  ASSUME ClientTypeOK, NEW k \in Conns, Pending(k)
  PROVE  asked[k][served[k] + 1] \in Accounts
BY DEF ClientTypeOK, Pending

(* What the server says is added to what it has said. *)
LEMMA SaysTyped ==
  ASSUME wire \in [Conns -> Seq(Packet)], NEW k \in Conns, NEW ps \in Seq(Packet), Says(k, ps)
  PROVE  wire' \in [Conns -> Seq(Packet)]
<1>1. wire[k] \o ps \in Seq(Packet)
  OBVIOUS
<1> QED BY <1>1 DEF Says

(* What an answer is: a refusal, or a welcome that starts with auth_ok. *)
Welcomes(u) == {<<[kind |-> "auth_ok", user |-> u]>> \o rows
                  \o <<[kind |-> "peer_sync", ok |-> TRUE]>> : rows \in HistoryRows(u)}
                 \cup {<<[kind |-> "auth_ok", user |-> u], [kind |-> "error"]>>}

(* An answer is a refusal or a welcome. *)
LEMMA AnswerCases ==
  ASSUME NEW k \in Conns, Answer(k)
  PROVE  /\ Pending(k)
         /\ served' = [served EXCEPT ![k] = @ + 1]
         /\ \/ Says(k, <<[kind |-> "error"]>>) /\ UNCHANGED auth
            \/ /\ auth' = [auth EXCEPT ![k] = asked[k][served[k] + 1]]
               /\ \E ps \in Welcomes(asked[k][served[k] + 1]) : Says(k, ps)
<1>1. CASE Refuse(k)
  BY <1>1 DEF Refuse
<1>2. CASE Welcome(k)
  BY <1>2 DEF Welcome, Welcomes
<1>3. CASE HalfWelcome(k)
  BY <1>3 DEF HalfWelcome, Welcomes
<1> QED BY <1>1, <1>2, <1>3 DEF Answer

(* A welcome is auth_ok, then the history, then the peers or an error.      *)
LEMMA WelcomeForm ==
  ASSUME NEW u \in Accounts, NEW ps \in Welcomes(u)
  PROVE  /\ ps \in Seq(Packet) /\ Len(ps) > 0
         /\ ps[1] = [kind |-> "auth_ok", user |-> u]
         /\ \A i \in 1..Len(ps) :
              \/ ps[i] = [kind |-> "auth_ok", user |-> u]
              \/ ps[i] \in Mail(u, TRUE)
              \/ ps[i] = [kind |-> "peer_sync", ok |-> TRUE]
              \/ ps[i] = [kind |-> "error"]
<1>1. PICK a \in Packet : a = [kind |-> "auth_ok", user |-> u]
  BY PacketsTyped
<1>2. PICK M \in SUBSET Packet : M = Mail(u, TRUE)
  BY PacketsTyped
<1>3. PICK s \in Packet : s = [kind |-> "peer_sync", ok |-> TRUE]
  BY PacketsTyped
<1>4. PICK e \in Packet : e = [kind |-> "error"]
  BY PacketsTyped
<1>5. \/ \E rows \in HistoryRows(u) : ps = <<a>> \o rows \o <<s>>
      \/ ps = <<a, e>>
  BY <1>1, <1>3, <1>4 DEF Welcomes
<1>6. ASSUME NEW rows \in HistoryRows(u) PROVE rows \in Seq(M)
  <2>1. PICK n \in 0..MaxHistory : rows \in [1..n -> M]
    BY <1>2 DEF HistoryRows
  <2> QED BY <2>1, ClientBoundsAssumption
<1>7. /\ ps \in Seq(Packet) /\ Len(ps) > 0 /\ ps[1] = a
      /\ \A i \in 1..Len(ps) : ps[i] = a \/ ps[i] \in M \/ ps[i] = s \/ ps[i] = e
  <2>1. ASSUME NEW rows \in HistoryRows(u), ps = <<a>> \o rows \o <<s>>
        PROVE  /\ ps \in Seq(Packet) /\ Len(ps) > 0 /\ ps[1] = a
               /\ \A i \in 1..Len(ps) : ps[i] = a \/ ps[i] \in M \/ ps[i] = s
    <3>1. rows \in Seq(M) /\ rows \in Seq(Packet) /\ Len(rows) \in Nat
      BY <1>6
    <3>2. <<a>> \o rows \in Seq(Packet) /\ Len(<<a>> \o rows) = Len(rows) + 1
      BY <3>1
    <3>3. ps \in Seq(Packet) /\ Len(ps) = Len(rows) + 2
      BY <2>1, <3>1, <3>2
    <3>4. \A i \in 1..Len(ps) : ps[i] = IF i = 1 THEN a
                                        ELSE IF i <= Len(rows) + 1 THEN rows[i - 1] ELSE s
      BY <2>1, <3>1, <3>2, <3>3
    <3>5. ASSUME NEW i \in 1..Len(ps) PROVE ps[i] = a \/ ps[i] \in M \/ ps[i] = s
      <4>1. CASE i = 1 \/ i > Len(rows) + 1
        BY <3>1, <3>4, <4>1
      <4>2. CASE i # 1 /\ i <= Len(rows) + 1
        <5>1. i - 1 \in 1..Len(rows) /\ ps[i] = rows[i - 1]
          BY <3>1, <3>3, <3>4, <4>2
        <5> QED BY <3>1, <5>1
      <4> QED BY <3>1, <3>3, <4>1, <4>2
    <3> QED BY <3>1, <3>3, <3>4, <3>5
  <2>2. CASE ps = <<a, e>>
    BY <2>2
  <2> QED BY <1>5, <2>1, <2>2
<1> QED BY <1>1, <1>2, <1>3, <1>4, <1>7

(* A step of the other end keeps the types. *)
LEMMA OutsideTypeStep ==
  ASSUME ClientTypeOK, AskedInv, NEW k \in Conns, Outside(k)
  PROVE  ClientTypeOK'
<1> USE DEF ClientTypeOK, readers, transport, server, app, UiStates
<1>1. CASE TornName(k)
  BY <1>1 DEF TornName
<1>2. CASE Cut(k)
  BY <1>2 DEF Cut
<1>3. ASSUME NEW ps \in Seq(Packet), Says(k, ps), served' \in [Conns -> Nat],
             auth' \in [Conns -> Accounts \cup {NoOne}]
      PROVE  ClientTypeOK'
  <2>1. wire' \in [Conns -> Seq(Packet)]
    BY <1>3, SaysTyped
  <2> QED BY <1>3, <2>1 DEF Says
<1>4. CASE Answer(k)
  <2>1. Pending(k) /\ served' = [served EXCEPT ![k] = @ + 1]
    BY <1>4, AnswerCases
  <2>4. served' \in [Conns -> Nat]
    BY <2>1
  <2>2. CASE Says(k, <<[kind |-> "error"]>>) /\ UNCHANGED auth
    <3>1. <<[kind |-> "error"]>> \in Seq(Packet)
      BY PacketsTyped
    <3> QED BY <1>3, <2>2, <2>4, <3>1
  <2>3. CASE /\ auth' = [auth EXCEPT ![k] = asked[k][served[k] + 1]]
             /\ \E ps \in Welcomes(asked[k][served[k] + 1]) : Says(k, ps)
    <3>1. asked[k][served[k] + 1] \in Accounts
      BY <2>1, PendingTyped
    <3>2. auth' \in [Conns -> Accounts \cup {NoOne}]
      BY <2>3, <3>1
    <3> QED BY <1>3, <2>3, <2>4, <3>1, <3>2, WelcomeForm
  <2> QED BY <1>4, <2>2, <2>3, AnswerCases
<1>5. CASE Broadcast(k)
  <2>1. PICK p \in News(k) : Says(k, <<p>>)
    BY <1>5 DEF Broadcast
  <2>2. p \in Packet
    BY <1>5, NewsTyped DEF Broadcast
  <2>3. <<p>> \in Seq(Packet)
    BY <2>2
  <2>4. served' \in [Conns -> Nat] /\ auth' \in [Conns -> Accounts \cup {NoOne}]
    BY <1>5 DEF Broadcast
  <2> QED BY <1>3, <2>1, <2>3, <2>4
<1> QED BY <1>1, <1>2, <1>4, <1>5 DEF Outside

-----------------------------------------------------------------------------
(* Connections: only the last one can be the client's, no other one is up.  *)

(* The readLoop of k touches nothing of the session, the other end or       *)
(* another readLoop.                                                        *)
LEMMA ReaderFrame ==
  ASSUME ClientTypeOK, NEW k \in Conns, ReadLoop(k)
  PROVE  /\ UNCHANGED <<ui, client, token, session, chat, key, link, asked, served,
                        auth, wire, stale>>
         /\ reader[k].at \notin {"none", "done"}
         /\ \A j \in Conns : j # k => reader'[j] = reader[j] /\ got'[j] = got[j]
<1> USE DEF ClientTypeOK, app, transport, server, Step
<1>1. CASE Receive(k) \/ ReceiveFails(k) \/ HandleSystem(k)
  BY <1>1 DEF Receive, ReceiveFails, HandleSystem
<1>2. CASE HandlePeerSync(k) \/ HandleMessage(k) \/ EmitCheck(k) \/ EmitPush(k) \/ Wake(k)
  BY <1>2 DEF HandlePeerSync, HandleMessage, EmitCheck, EmitPush, Wake
<1> QED BY <1>1, <1>2 DEF ReadLoop

(* A step of the readLoop of k, by what it does to the readLoop's state.     *)
Reads(k) ==
    /\ reader[k].at = "read" /\ got[k] < Len(wire[k])
    /\ reader'[k] = At("handle") /\ got'[k] = got[k] + 1
    /\ UNCHANGED <<incoming, missed>>
Ends(k) ==
    /\ reader[k].at = "read" /\ link[k] # "up"
    /\ reader'[k] = [at |-> "emit", event |-> DownEvent(k)]
    /\ UNCHANGED <<incoming, missed, got>>
Shows(k) ==
    /\ reader[k].at = "handle" /\ InHand(k).kind \in {"system", "message"}
    /\ InHand(k).kind = "message" => Decrypts(k, session.username)
    /\ reader'[k] = [at |-> "emit", event |-> ShowEvent(k)]
    /\ UNCHANGED <<incoming, missed, got>>
Admits(k) ==
    /\ reader[k].at = "handle" /\ InHand(k).kind = "auth_ok"
    /\ reader'[k] = [at |-> "emit", event |-> AuthEvent(k, InHand(k).user)]
    /\ UNCHANGED <<incoming, missed, got>>
Ignores(k) ==
    /\ reader[k].at = "handle" /\ InHand(k).kind \in {"error", "peer_sync", "message"}
    /\ reader'[k] \in {At("wake"), [at |-> "emit", event |-> StatusEvent(k)]}
    /\ InHand(k).kind = "error" => reader'[k].at = "emit"
    /\ IF InHand(k).kind = "message"
       THEN ~Decrypts(k, session.username) /\ missed' = missed \cup {<<k, got[k]>>}
       ELSE UNCHANGED missed
    /\ UNCHANGED <<incoming, got>>
Passes(k) ==
    /\ reader[k].at = "emit"
    /\ reader'[k] = IF token = k THEN [reader[k] EXCEPT !.at = "push"]
                                 ELSE AfterEvent(reader[k].event)
    /\ UNCHANGED <<incoming, missed, got>>
Pushes(k) ==
    /\ reader[k].at = "push"
    /\ reader'[k] = AfterEvent(reader[k].event)
    /\ incoming' = Append(incoming, reader[k].event)
    /\ UNCHANGED <<missed, got>>
Wakes(k) ==
    /\ reader[k].at \in {"wake", "exit"}
    /\ reader'[k] = At(IF reader[k].at = "wake" THEN "read" ELSE "done")
    /\ UNCHANGED <<incoming, missed, got>>

(* Every step of a readLoop is one of these. *)
LEMMA ReaderMoves ==
  ASSUME ClientTypeOK, NEW k \in Conns, ReadLoop(k)
  PROVE  Reads(k) \/ Ends(k) \/ Shows(k) \/ Admits(k) \/ Ignores(k) \/ Passes(k)
           \/ Pushes(k) \/ Wakes(k)
<1> USE DEF ClientTypeOK, Step
<1>1. CASE Receive(k)
  BY <1>1 DEF Receive, Reads
<1>2. CASE ReceiveFails(k)
  BY <1>2 DEF ReceiveFails, Ends
<1>3. CASE HandleSystem(k)
  <2>1. CASE InHand(k).kind = "system"
    BY <1>3, <2>1 DEF HandleSystem, Shows
  <2>2. CASE InHand(k).kind = "auth_ok"
    BY <1>3, <2>2 DEF HandleSystem, Admits
  <2>3. CASE InHand(k).kind = "error"
    BY <1>3, <2>3 DEF HandleSystem, Ignores
  <2> QED BY <1>3, <2>1, <2>2, <2>3 DEF HandleSystem
<1>4. CASE HandlePeerSync(k)
  BY <1>4 DEF HandlePeerSync, Ignores
<1>5. CASE HandleMessage(k)
  BY <1>5 DEF HandleMessage, Ignores, Shows
<1>6. CASE EmitCheck(k)
  BY <1>6 DEF EmitCheck, Emits, Active, Passes
<1>7. CASE EmitPush(k)
  BY <1>7 DEF EmitPush, Deliver, Pushes
<1>8. CASE Wake(k)
  BY <1>8 DEF Wake, Wakes
<1> QED BY <1>1, <1>2, <1>3, <1>4, <1>5, <1>6, <1>7, <1>8 DEF ReadLoop

(* What a readLoop puts into the channel is behind all that is there.       *)
LEMMA Pushed ==
  ASSUME ClientTypeOK, NEW k \in Conns, reader[k].at = "push",
         incoming' = Append(incoming, reader[k].event)
  PROVE  /\ reader[k].event \in Event
         /\ Len(incoming) \in Nat /\ Len(incoming') = Len(incoming) + 1
         /\ DOMAIN incoming = 1..Len(incoming) /\ DOMAIN incoming' = 1..Len(incoming')
         /\ \A i \in DOMAIN incoming : incoming'[i] = incoming[i]
         /\ incoming'[Len(incoming')] = reader[k].event
         /\ incoming # <<>> => incoming' # <<>> /\ Head(incoming') = Head(incoming)
<1>1. incoming \in Seq(Event) /\ reader[k] \in ReaderStates
  BY DEF ClientTypeOK
<1>2. PICK e \in Event : e = reader[k].event
  BY <1>1, StatesTyped
<1> QED BY <1>1, <1>2

(* A readLoop that runs is not that of a connection still to come. *)
LEMMA ReaderStarted ==
  ASSUME ClientTypeOK, ConnInv, NEW k \in Conns, ReadLoop(k)
  PROVE  k <= token /\ token # 0
<1>1. ~Fresh(k)
  BY ReaderFrame, StatesTyped DEF Fresh
<1> QED BY <1>1 DEF ConnInv, ClientTypeOK, Conns

(* A readLoop opens no connection and closes none. *)
LEMMA ReaderConnStep ==
  ASSUME ClientTypeOK, ConnInv, NEW k \in Conns, ReadLoop(k)
  PROVE  ConnInv'
<1>1. /\ UNCHANGED <<ui, client, token, session, link, key, asked, served, auth, wire>>
      /\ \A j \in Conns : j # k => reader'[j] = reader[j] /\ got'[j] = got[j]
      /\ k <= token
  BY ReaderFrame, ReaderStarted
<1>2. got[k] \in Nat /\ Len(wire[k]) \in Nat /\ token \in Nat /\ k \in Nat
  BY DEF ClientTypeOK, Conns
<1>3. got'[k] \in Nat /\ got'[k] <= Len(wire[k]) /\ (reader'[k].at = "handle" => got'[k] > 0)
  <2> USE DEF ConnInv
  <2>1. CASE Reads(k)
    BY <1>2, <2>1 DEF Reads
  <2>2. CASE Ends(k) \/ Shows(k) \/ Admits(k) \/ Ignores(k) \/ Wakes(k)
    BY <1>2, <2>2, StatesTyped DEF Ends, Shows, Admits, Ignores, Wakes
  <2>3. CASE Passes(k) \/ Pushes(k)
    <3>1. reader[k] \in ReaderStates
      BY DEF ClientTypeOK
    <3>2. [reader[k] EXCEPT !.at = "push"].at = "push" \/ reader[k].at # "emit"
      BY <3>1 DEF ReaderStates
    <3> QED BY <1>2, <2>3, <3>2, StatesTyped DEF Passes, Pushes
  <2> QED BY <2>1, <2>2, <2>3, ReaderMoves
<1>4. \A j \in Conns : /\ got'[j] <= Len(wire[j])
                       /\ reader'[j].at = "handle" => got'[j] > 0
                       /\ j > token => Fresh(j)'
  BY <1>1, <1>2, <1>3 DEF ConnInv, Fresh
<1>5. incoming # <<>> => incoming' # <<>> /\ Head(incoming') = Head(incoming)
  <2>1. CASE UNCHANGED incoming
    BY <2>1
  <2>2. CASE Pushes(k)
    BY <2>2, Pushed DEF Pushes
  <2> QED BY <2>1, <2>2, ReaderMoves
          DEF Reads, Ends, Shows, Admits, Ignores, Passes, Wakes
<1> QED BY <1>1, <1>4, <1>5 DEF ConnInv

(* The UI goroutine shuts the old connection before it dials a new one. *)
LEMMA UiConnStep ==
  ASSUME ClientTypeOK, ConnInv, Ui
  PROVE  ConnInv'
<1> USE DEF ConnInv, readers, transport, server, app
<1>1. CASE BeginFrame \/ EndFrame \/ Input \/ Destroy \/ Drained \/ BeginNaming
  BY <1>1 DEF BeginFrame, EndFrame, Input, Destroy, Drained, BeginNaming, Fresh, UiStates
<1>2. CASE ApplyMessage \/ ApplyAuth \/ ApplyStatus
  BY <1>2 DEF ApplyMessage, ApplyAuth, ApplyStatus, Fresh
<1>3. \A j \in Conns : /\ Shut(client)[j] = link[j] \/ j = client
                       /\ Shut(client)[j] # "up"
  <2>1. client = 0 => \A j \in Conns : link[j] # "up"
    BY DEF Conns
  <2> QED BY <2>1 DEF Shut, ClientTypeOK
<1>4. \A j \in Conns : j > token => j # client
  BY DEF ClientTypeOK, Conns
<1>5. CASE Reconnect \/ Logout
  <2>1. /\ UNCHANGED <<token, incoming, reader, got, key, asked, served, auth, wire>>
        /\ link' = Shut(client) /\ client' \in {client, 0}
        /\ ui' \in {"dial", "idle"} /\ ~session'.joined /\ ~session'.loading
    <3>1. CASE Reconnect
      BY <3>1 DEF Reconnect, ClientTypeOK
    <3>2. CASE Logout
      BY <3>2 DEF Logout, Blank
    <3> QED BY <1>5, <3>1, <3>2
  <2> QED BY <1>3, <1>4, <2>1 DEF Fresh
<1>6. CASE DialSucceeds
  <2>1. token + 1 \in Conns /\ token \in Nat
    BY <1>6, NextConn
  <2>2. /\ client' = token + 1 /\ token' = token + 1 /\ ui' = "idle"
        /\ reader' = [reader EXCEPT ![token + 1] = At("read")]
        /\ link' = [link EXCEPT ![token + 1] = "up"]
        /\ wire' = [wire EXCEPT ![token + 1] = <<[kind |-> "system"]>>]
        /\ UNCHANGED <<got, key, asked, served, auth>>
    BY <1>6 DEF DialSucceeds, Dial, Step
  <2>3. ASSUME NEW j \in Conns, j # token + 1
        PROVE  /\ reader'[j] = reader[j] /\ link'[j] = link[j] /\ wire'[j] = wire[j]
               /\ link[j] # "up"
    BY <1>6, <2>2, <2>3 DEF ClientTypeOK, DialSucceeds
  <2>4. /\ reader'[token + 1].at = "read" /\ Len(wire'[token + 1]) = 1
        /\ got[token + 1] <= 0 /\ got[token + 1] \in Nat
    <3>1. Fresh(token + 1)
      BY <2>1
    <3>2. Len(wire[token + 1]) = 0
      BY <3>1 DEF Fresh
    <3> QED BY <2>1, <2>2, <3>2, StatesTyped DEF ClientTypeOK
  <2>5. \A j \in Conns : /\ served'[j] <= Len(asked'[j]) /\ got'[j] <= Len(wire'[j])
                         /\ reader'[j].at = "handle" => got'[j] > 0
                         /\ link'[j] = "up" => j = client' /\ ui' # "dial"
    BY <2>1, <2>2, <2>3, <2>4
  <2>6. \A j \in Conns : j > token' => Fresh(j)'
    <3>1. \A j \in Conns : j > token + 1 => j > token /\ j # token + 1
      BY <2>1 DEF Conns
    <3> QED BY <2>2, <2>3, <3>1 DEF Fresh
  <2> QED BY <2>2, <2>5, <2>6
<1>7. CASE DialFails
  BY <1>7 DEF DialFails, Fresh
<1>8. ASSUME NEW a \in Accounts, SubmitAuth(a) PROVE ConnInv'
  <2>1. client \in Conns /\ client <= token
    BY <1>8 DEF SubmitAuth, Connected, ClientTypeOK, Conns
  <2>2. /\ ui' = "idle" /\ UNCHANGED <<client, token, incoming, reader, got, link, served, auth, wire>>
        /\ session' = [session EXCEPT !.loading = TRUE]
        /\ asked' = [asked EXCEPT ![client] = Append(@, a)]
        /\ key' = [key EXCEPT ![client] = KeyOf(client, a)]
    BY <1>8 DEF SubmitAuth, SendAuth
  <2>3. Len(asked'[client]) = Len(asked[client]) + 1 /\ Len(asked[client]) \in Nat
        /\ served[client] \in Nat
    BY <2>1, <2>2 DEF ClientTypeOK
  <2>4. \A j \in Conns : j # client => asked'[j] = asked[j] /\ key'[j] = key[j]
    BY <2>2 DEF ClientTypeOK
  <2> QED BY <2>1, <2>2, <2>3, <2>4, <1>4 DEF Fresh
<1>9. ASSUME NEW a \in Accounts, SubmitFails(a) \/ SubmitLost(a) PROVE ConnInv'
  <2>1. \A j \in Conns : j # client => key'[j] = key[j]
    BY <1>9 DEF SubmitFails, SubmitLost, SendAuth, ClientTypeOK
  <2> QED BY <1>9, <2>1, <1>4 DEF SubmitFails, SubmitLost, Fresh
<1>10. CASE SendMessage
  BY <1>10 DEF SendMessage, Fresh
<1> QED BY <1>1, <1>2, <1>5, <1>6, <1>7, <1>8, <1>9, <1>10
        DEF Ui, FrameSteps, Dialled, Clicks, AuthActions, SidebarActions

(* What the server says comes behind what it has said. *)
LEMMA Said ==
  ASSUME ClientTypeOK, NEW k \in Conns, NEW ps \in Seq(Packet), Says(k, ps)
  PROVE  /\ Len(wire[k]) \in Nat /\ Len(ps) \in Nat
         /\ Len(wire'[k]) = Len(wire[k]) + Len(ps)
         /\ \A i \in 1..Len(wire[k]) : wire'[k][i] = wire[k][i]
         /\ \A i \in 1..Len(ps) : wire'[k][Len(wire[k]) + i] = ps[i]
         /\ \A j \in Conns : j # k => wire'[j] = wire[j]
         /\ UNCHANGED <<ui, client, token, session, chat, incoming, reader, got, missed,
                        key, link, asked, stale>>
<1>1. wire \in [Conns -> Seq(Packet)] /\ wire[k] \in Seq(Packet)
  BY DEF ClientTypeOK
<1>2. wire' = [wire EXCEPT ![k] = wire[k] \o ps]
  BY DEF Says
<1>3. wire'[k] = wire[k] \o ps /\ \A j \in Conns : j # k => wire'[j] = wire[j]
  BY <1>1, <1>2
<1> QED BY <1>1, <1>3 DEF Says, app, readers, transport

(* The three kinds of things the server says. *)
Refuses(k) ==
    /\ Pending(k)
    /\ served' = [served EXCEPT ![k] = @ + 1] /\ UNCHANGED auth
    /\ Says(k, <<[kind |-> "error"]>>)
Welcomed(k, u, ps) ==
    /\ Pending(k) /\ u = asked[k][served[k] + 1]
    /\ served' = [served EXCEPT ![k] = @ + 1]
    /\ auth' = [auth EXCEPT ![k] = u]
    /\ Says(k, ps)
Told(k, p) ==
    /\ link[k] = "up" /\ auth[k] # NoOne
    /\ Says(k, <<p>>)
    /\ UNCHANGED <<served, auth>>
Breaks(k) ==
    /\ link[k] = "up" /\ link' = [link EXCEPT ![k] = "cut"]
    /\ UNCHANGED <<ui, client, token, session, chat, incoming, reader, got, missed,
                   key, asked, served, auth, wire, stale>>
Crashes ==
    /\ ui' = "gone"
    /\ UNCHANGED <<client, token, session, chat, incoming, reader, got, missed,
                   key, link, asked, served, auth, wire, stale>>

(* Every step from outside is one of these. *)
LEMMA OutsideMoves ==
  ASSUME ClientTypeOK, AskedInv, NEW k \in Conns, Outside(k)
  PROVE  \/ Crashes \/ Breaks(k) \/ Refuses(k)
         \/ \E u \in Accounts : \E ps \in Welcomes(u) : Welcomed(k, u, ps)
         \/ \E p \in Packet : p \in News(k) /\ Told(k, p)
<1>1. CASE TornName(k)
  BY <1>1 DEF TornName, Crashes, app, readers, transport, server
<1>2. CASE Cut(k)
  BY <1>2 DEF Cut, Breaks, app, readers, server
<1>3. CASE Answer(k)
  BY <1>3, AnswerCases, PendingTyped DEF Refuses, Welcomed
<1>4. CASE Broadcast(k)
  BY <1>4, NewsTyped DEF Broadcast, Told
<1> QED BY <1>1, <1>2, <1>3, <1>4 DEF Outside

(* The other end cuts a connection, but never opens one. *)
LEMMA OutsideConnStep ==
  ASSUME ClientTypeOK, ConnInv, AskedInv, NEW k \in Conns, Outside(k)
  PROVE  ConnInv'
<1>1. CASE Crashes
  BY <1>1 DEF Crashes, ConnInv, Fresh
<1>2. CASE Breaks(k)
  <2>1. \A j \in Conns : link'[j] = link[j] \/ (link'[j] = "cut" /\ ~Fresh(j))
    BY <1>2 DEF Breaks, ClientTypeOK, Fresh
  <2> QED BY <1>2, <2>1 DEF Breaks, ConnInv, Fresh
<1>3. ASSUME NEW ps \in Seq(Packet), Says(k, ps), link[k] = "up",
             served'[k] <= Len(asked[k]),
             \A j \in Conns : j # k => served'[j] = served[j] /\ auth'[j] = auth[j]
      PROVE  ConnInv'
  <2>1. ~Fresh(k) /\ ~(k > token)
    BY <1>3 DEF Fresh, ConnInv
  <2>2. \A j \in Conns : /\ served'[j] <= Len(asked[j])
                         /\ got[j] <= Len(wire'[j])
                         /\ j > token => Fresh(j)'
    <3>1. got[k] \in Nat /\ got[k] <= Len(wire[k])
      BY DEF ClientTypeOK, ConnInv
    <3> QED BY <1>3, <2>1, <3>1, Said DEF ConnInv, Fresh
  <2> QED BY <1>3, <2>2, Said DEF ConnInv
<1>4. ASSUME Pending(k), served' = [served EXCEPT ![k] = @ + 1]
      PROVE  /\ link[k] = "up" /\ served'[k] <= Len(asked[k])
             /\ \A j \in Conns : j # k => served'[j] = served[j]
  <2>1. served[k] \in Nat /\ Len(asked[k]) \in Nat
    BY DEF ClientTypeOK
  <2> QED BY <1>4, <2>1 DEF Pending, ClientTypeOK
<1>5. CASE Refuses(k)
  <2>1. <<[kind |-> "error"]>> \in Seq(Packet)
    BY PacketsTyped
  <2> QED BY <1>3, <1>4, <1>5, <2>1 DEF Refuses
<1>6. ASSUME NEW u \in Accounts, NEW ps \in Welcomes(u), Welcomed(k, u, ps) PROVE ConnInv'
  <2>1. \A j \in Conns : j # k => auth'[j] = auth[j]
    BY <1>6 DEF Welcomed, ClientTypeOK
  <2> QED BY <1>3, <1>4, <1>6, <2>1, WelcomeForm DEF Welcomed
<1>7. ASSUME NEW p \in Packet, Told(k, p) PROVE ConnInv'
  <2>1. served[k] <= Len(asked[k]) /\ <<p>> \in Seq(Packet)
    BY DEF ConnInv
  <2> QED BY <1>3, <1>7, <2>1 DEF Told
<1> QED BY <1>1, <1>2, <1>5, <1>6, <1>7, OutsideMoves

-----------------------------------------------------------------------------
(* Keys: the account that was tried first on a connection gives it its key.  *)

(* A connection with a request has its key, and keeps it. *)
LEMMA KeyStays ==
  ASSUME ClientTypeOK, AskedInv, NEW a \in Accounts, client \in Conns, SendAuth(a),
         asked[client] # <<>>
  PROVE  key'[client] = key[client]
<1>1. asked[client] \in Seq(Accounts) /\ key \in [Conns -> Accounts \cup {NoOne}]
  BY DEF ClientTypeOK
<1>2. key[client] \in Accounts
  BY <1>1 DEF AskedInv
<1> QED BY <1>1, <1>2 DEF SendAuth, KeyOf

(* The first account that is tried gives a connection its key. *)
LEMMA AskedStep ==
  ASSUME ClientTypeOK, ConnInv, AskedInv,
         (\E k \in Conns : ReadLoop(k) \/ Outside(k)) \/ Ui
  PROVE  AskedInv'
<1>1. ASSUME NEW k \in Conns, ReadLoop(k) PROVE AskedInv'
  BY <1>1, ReaderFrame DEF AskedInv
<1>2. ASSUME NEW k \in Conns, Outside(k) PROVE AskedInv'
  <2>1. CASE Crashes
    BY <2>1 DEF Crashes, AskedInv
  <2>2. CASE Breaks(k)
    BY <2>2 DEF Breaks, AskedInv, ClientTypeOK
  <2>3. CASE Refuses(k)
    <3>1. <<[kind |-> "error"]>> \in Seq(Packet)
      BY PacketsTyped
    <3> QED BY <2>3, <3>1, Said DEF Refuses, AskedInv
  <2>4. ASSUME NEW u \in Accounts, NEW ps \in Welcomes(u), Welcomed(k, u, ps) PROVE AskedInv'
    <3>1. UNCHANGED <<key, link, asked>>
      BY <2>4, Said, WelcomeForm DEF Welcomed
    <3>2. asked[k] # <<>>
      BY <2>4 DEF Welcomed, Pending, ClientTypeOK
    <3> QED BY <2>4, <3>1, <3>2 DEF Welcomed, AskedInv, ClientTypeOK
  <2>5. ASSUME NEW p \in Packet, Told(k, p) PROVE AskedInv'
    <3>1. <<p>> \in Seq(Packet)
      OBVIOUS
    <3> QED BY <2>5, <3>1, Said DEF Told, AskedInv
  <2> QED BY <1>2, <2>1, <2>2, <2>3, <2>4, <2>5, OutsideMoves
<1>3. CASE Ui
  <2> USE DEF AskedInv, readers, transport, server, app
  <2>1. CASE BeginFrame \/ EndFrame \/ Input \/ Destroy \/ Drained \/ BeginNaming \/ SendMessage
    BY <2>1 DEF BeginFrame, EndFrame, Input, Destroy, Drained, BeginNaming, SendMessage
  <2>2. CASE ApplyMessage \/ ApplyAuth \/ ApplyStatus \/ DialFails
    BY <2>2 DEF ApplyMessage, ApplyAuth, ApplyStatus, DialFails
  <2>3. CASE Reconnect \/ Logout
    BY <2>3 DEF Reconnect, Logout, Shut, ClientTypeOK
  <2>4. CASE DialSucceeds
    <3>1. token + 1 \in Conns /\ token + 1 > token
      BY <2>4, NextConn
    <3>2. key[token + 1] = NoOne /\ asked[token + 1] = <<>>
      BY <3>1 DEF ConnInv, Fresh
    <3> QED BY <2>4, <3>1, <3>2 DEF DialSucceeds, Dial, ClientTypeOK
  <2>5. ASSUME NEW a \in Accounts, client # 0, SendAuth(a), UNCHANGED <<asked, link, auth>>,
               link[client] # "up"
        PROVE  AskedInv'
    <3>1. client \in Conns
      BY <2>5 DEF ClientTypeOK
    <3>2. ASSUME NEW j \in Conns, j # client PROVE key'[j] = key[j]
      BY <2>5, <3>2 DEF SendAuth, ClientTypeOK
    <3>3. asked[client] # <<>> => key'[client] = key[client]
      BY <2>5, <3>1, KeyStays
    <3> QED BY <2>5, <3>1, <3>2, <3>3
  <2>6. ASSUME NEW a \in Accounts, SubmitAuth(a) PROVE AskedInv'
    <3>1. /\ client \in Conns /\ link[client] = "up" /\ SendAuth(a)
          /\ asked' = [asked EXCEPT ![client] = Append(@, a)]
          /\ UNCHANGED <<link, auth>>
      BY <2>6 DEF SubmitAuth, Connected, ClientTypeOK
    <3>2. ASSUME NEW j \in Conns, j # client PROVE key'[j] = key[j] /\ asked'[j] = asked[j]
      BY <3>1, <3>2 DEF SendAuth, ClientTypeOK
    <3>3. asked'[client] = Append(asked[client], a) /\ asked[client] \in Seq(Accounts)
      BY <3>1 DEF ClientTypeOK
    <3>4. asked'[client] # <<>> /\ key'[client] = asked'[client][1]
      <4>1. CASE asked[client] = <<>>
        <5>1. key[client] = NoOne
          BY <3>1, <4>1
        <5> QED BY <3>1, <3>3, <4>1, <5>1 DEF SendAuth, KeyOf, ClientTypeOK
      <4>2. CASE asked[client] # <<>>
        <5>1. key'[client] = key[client]
          BY <3>1, <4>2, KeyStays
        <5>2. asked'[client][1] = asked[client][1]
          BY <3>3, <4>2
        <5> QED BY <3>1, <3>3, <4>2, <5>1, <5>2
      <4> QED BY <4>1, <4>2
    <3> QED BY <3>1, <3>2, <3>4
  <2>7. ASSUME NEW a \in Accounts, SubmitFails(a) \/ SubmitLost(a) PROVE AskedInv'
    BY <2>5, <2>7 DEF SubmitFails, SubmitLost, Connected
  <2> QED BY <1>3, <2>1, <2>2, <2>3, <2>4, <2>6, <2>7
          DEF Ui, FrameSteps, Dialled, Clicks, AuthActions, SidebarActions
<1> QED BY <1>1, <1>2, <1>3

-----------------------------------------------------------------------------
(* Events: a readLoop emits its own, and the one of its end last.           *)

(* What waits in Incoming is an event of a connection. *)
LEMMA QueueTyped ==
  ASSUME ClientTypeOK, NEW i \in DOMAIN incoming
  PROVE  /\ incoming[i] \in Event /\ incoming[i].conn \in Conns
         /\ incoming[i].kind \in {"message", "auth", "status"}
         /\ incoming[i].kind = "message" => incoming[i].nth \in Nat
         /\ incoming[i].kind = "auth" => incoming[i].user \in Accounts
<1>1. incoming[i] \in Event
  BY DEF ClientTypeOK
<1> QED BY <1>1 DEF Event

(* What the four kinds of events look like. *)
LEMMA EventForms ==
  ASSUME NEW k
  PROVE  /\ ShowEvent(k).kind = "message" /\ ShowEvent(k).conn = k
         /\ ShowEvent(k).nth = got[k] /\ ~Down(ShowEvent(k))
         /\ StatusEvent(k).kind = "status" /\ StatusEvent(k).conn = k /\ ~Down(StatusEvent(k))
         /\ DownEvent(k).kind = "status" /\ DownEvent(k).conn = k /\ Down(DownEvent(k))
         /\ \A u : /\ AuthEvent(k, u).kind = "auth" /\ AuthEvent(k, u).conn = k
                   /\ AuthEvent(k, u).user = u /\ ~Down(AuthEvent(k, u))
         /\ \A e : /\ AfterEvent(e).at = IF Down(e) THEN "exit" ELSE "wake"
BY DEF ShowEvent, StatusEvent, DownEvent, AuthEvent, Down, AfterEvent, At

(* An event is in hand from the states that emit it, and stays the same.    *)
LEMMA Emitting ==
  ASSUME ClientTypeOK, NEW k \in Conns, reader[k].at = "emit"
  PROVE  /\ [reader[k] EXCEPT !.at = "push"].at = "push"
         /\ [reader[k] EXCEPT !.at = "push"].event = reader[k].event
<1>1. reader[k] \in ReaderStates
  BY DEF ClientTypeOK
<1> QED BY <1>1 DEF ReaderStates

(* A readLoop pushes the event of its end after all its others. *)
LEMMA EventReaderStep ==
  ASSUME ClientTypeOK, ConnInv, EventInv, NEW k \in Conns, ReadLoop(k)
  PROVE  EventInv'
<1>1. /\ UNCHANGED <<token, link>> /\ k <= token
      /\ reader[k].at \notin {"none", "done"}
      /\ \A j \in Conns : j # k => reader'[j] = reader[j]
  BY ReaderFrame, ReaderStarted
<1>2. /\ reader'[k].at \in {"emit", "push"} =>
           reader'[k].event.conn = k /\ (Down(reader'[k].event) => link[k] # "up")
      /\ reader'[k].at \in {"exit", "done"} => link[k] # "up"
      /\ reader[k].at = "exit" => reader'[k].at = "done"
  <2>1. CASE Reads(k) \/ Wakes(k)
    BY <2>1, StatesTyped DEF Reads, Wakes, EventInv
  <2>2. CASE Ends(k) \/ Shows(k) \/ Admits(k) \/ Ignores(k)
    BY <2>2, StatesTyped, EventForms DEF Ends, Shows, Admits, Ignores, EventInv
  <2>3. CASE Passes(k)
    BY <2>3, Emitting, EventForms DEF Passes, EventInv
  <2>4. CASE Pushes(k)
    BY <2>4, EventForms DEF Pushes, EventInv
  <2> QED BY <2>1, <2>2, <2>3, <2>4, ReaderMoves
<1>3. CASE UNCHANGED incoming
  BY <1>1, <1>2, <1>3, QueueTyped DEF EventInv
<1>4. CASE Pushes(k)
  <2> DEFINE e == reader[k].event
             n == Len(incoming')
  <2>1. /\ n = Len(incoming) + 1 /\ Len(incoming) \in Nat /\ incoming'[n] = e
        /\ DOMAIN incoming = 1..Len(incoming) /\ DOMAIN incoming' = 1..n
        /\ \A i \in DOMAIN incoming : incoming'[i] = incoming[i]
    BY <1>4, Pushed DEF Pushes
  <2>2. e.conn = k /\ reader'[k].at = IF Down(e) THEN "exit" ELSE "wake"
    BY <1>4, EventForms DEF Pushes, EventInv
  <2> HIDE DEF e, n
  <2>3. ASSUME NEW i \in DOMAIN incoming
        PROVE  /\ incoming[i].conn <= token
               /\ Down(incoming[i]) => incoming[i].conn # k
               /\ Down(incoming[i]) => reader'[incoming[i].conn].at \in {"exit", "done"}
    <3>1. incoming[i].conn \in Conns
      BY <2>1, ChannelTyped DEF ClientTypeOK, Event
    <3>2. Down(incoming[i]) => reader[incoming[i].conn].at \in {"exit", "done"}
      BY DEF EventInv
    <3>3. reader[k].at = "push"
      BY <1>4 DEF Pushes
    <3> QED BY <1>1, <3>1, <3>2, <3>3 DEF EventInv
  <2>4. ASSUME NEW i \in DOMAIN incoming'
        PROVE  /\ incoming'[i].conn <= token
               /\ Down(incoming'[i]) =>
                    /\ reader'[incoming'[i].conn].at \in {"exit", "done"}
                    /\ \A j \in DOMAIN incoming' : i < j => incoming'[j].conn # incoming'[i].conn
    <3>1. CASE i \in DOMAIN incoming
      BY <2>1, <2>2, <2>3, <3>1 DEF EventInv
    <3>2. CASE i = n
      BY <1>1, <2>1, <2>2, <3>2
    <3> QED BY <2>1, <3>1, <3>2
  <2> QED BY <1>1, <1>2, <2>4 DEF EventInv
<1> QED BY <1>3, <1>4, ReaderMoves DEF Reads, Ends, Shows, Admits, Ignores, Passes, Wakes

(* The events that are left when the first one has been applied. *)
LEMMA Applied ==
  ASSUME ClientTypeOK, incoming # <<>>, incoming' = Tail(incoming)
  PROVE  /\ Len(incoming) \in Nat /\ Len(incoming') = Len(incoming) - 1
         /\ DOMAIN incoming = 1..Len(incoming) /\ DOMAIN incoming' = 1..Len(incoming')
         /\ 1 \in DOMAIN incoming /\ Head(incoming) = incoming[1]
         /\ \A i \in DOMAIN incoming' : i + 1 \in DOMAIN incoming /\ incoming'[i] = incoming[i + 1]
         /\ \A i \in DOMAIN incoming :
              i = 1 \/ (i - 1 \in DOMAIN incoming' /\ incoming'[i - 1] = incoming[i])
<1>1. incoming \in Seq(Event)
  BY DEF ClientTypeOK
<1>2. /\ Len(incoming) \in Nat \ {0} /\ DOMAIN incoming = 1..Len(incoming)
      /\ Head(incoming) = incoming[1]
  BY <1>1
<1>3. /\ Len(incoming') = Len(incoming) - 1 /\ DOMAIN incoming' = 1..Len(incoming')
      /\ \A i \in 1..(Len(incoming) - 1) : incoming'[i] = incoming[i + 1]
  BY <1>1, <1>2
<1>4. \A i \in DOMAIN incoming' : i + 1 \in DOMAIN incoming /\ incoming'[i] = incoming[i + 1]
  BY <1>2, <1>3
<1>5. ASSUME NEW i \in DOMAIN incoming, i # 1
      PROVE  i - 1 \in DOMAIN incoming' /\ incoming'[i - 1] = incoming[i]
  <2>1. i - 1 \in 1..(Len(incoming) - 1) /\ (i - 1) + 1 = i
    BY <1>2, <1>5
  <2> QED BY <1>3, <2>1
<1> QED BY <1>2, <1>3, <1>4, <1>5

(* A step of the UI goroutine lets link and readLoop of a connection alone,  *)
(* shuts the current one, or starts a new one.                              *)
LEMMA UiLinks ==
  ASSUME ClientTypeOK, ConnInv, Ui
  PROVE  \/ UNCHANGED <<reader, got, missed, token, link>>
         \/ UNCHANGED <<reader, got, missed, token, incoming>> /\ link' = Shut(client)
         \/ DialSucceeds
<1> USE DEF readers, transport, app
<1>1. CASE BeginFrame \/ EndFrame \/ Input \/ Destroy \/ Drained \/ BeginNaming \/ SendMessage
  BY <1>1 DEF BeginFrame, EndFrame, Input, Destroy, Drained, BeginNaming, SendMessage
<1>2. CASE ApplyMessage \/ ApplyAuth \/ ApplyStatus \/ DialFails
  BY <1>2 DEF ApplyMessage, ApplyAuth, ApplyStatus, DialFails
<1>3. CASE Reconnect \/ Logout
  BY <1>3 DEF Reconnect, Logout
<1>4. ASSUME NEW a \in Accounts, SubmitAuth(a) \/ SubmitFails(a) \/ SubmitLost(a)
      PROVE  UNCHANGED <<reader, got, missed, token, link>>
  BY <1>4 DEF SubmitAuth, SubmitFails, SubmitLost
<1> QED BY <1>1, <1>2, <1>3, <1>4
        DEF Ui, FrameSteps, Dialled, Clicks, AuthActions, SidebarActions

(* A step of the UI goroutine takes the first event out, or none. *)
LEMMA UiChannel ==
  ASSUME ClientTypeOK, ConnInv, Ui
  PROVE  UNCHANGED incoming \/ (incoming # <<>> /\ incoming' = Tail(incoming))
<1> USE DEF readers, transport, app, ConnInv
<1>1. CASE BeginFrame \/ EndFrame \/ Input \/ Destroy \/ Drained \/ BeginNaming \/ SendMessage
  BY <1>1 DEF BeginFrame, EndFrame, Input, Destroy, Drained, BeginNaming, SendMessage
<1>2. CASE ApplyMessage \/ ApplyAuth \/ ApplyStatus \/ DialFails \/ DialSucceeds
  BY <1>2 DEF ApplyMessage, ApplyAuth, ApplyStatus, DialFails, DialSucceeds
<1>3. CASE Reconnect \/ Logout
  BY <1>3 DEF Reconnect, Logout
<1>4. ASSUME NEW a \in Accounts, SubmitAuth(a) \/ SubmitFails(a) \/ SubmitLost(a)
      PROVE  UNCHANGED incoming
  BY <1>4 DEF SubmitAuth, SubmitFails, SubmitLost
<1> QED BY <1>1, <1>2, <1>3, <1>4
        DEF Ui, FrameSteps, Dialled, Clicks, AuthActions, SidebarActions

(* Taking the first event out leaves the order of the others. *)
LEMMA EventUiStep ==
  ASSUME ClientTypeOK, ConnInv, EventInv, Ui
  PROVE  EventInv'
<1>1. CASE UNCHANGED <<reader, token, link>>
  <2>1. CASE UNCHANGED incoming
    BY <1>1, <2>1 DEF EventInv
  <2>2. CASE incoming # <<>> /\ incoming' = Tail(incoming)
    <3>1. \A i \in DOMAIN incoming' : i + 1 \in DOMAIN incoming /\ incoming'[i] = incoming[i + 1]
      BY <2>2, Applied
    <3>2. \A i, j \in DOMAIN incoming' : i < j => i + 1 < j + 1
      BY <2>2, Applied
    <3> QED BY <1>1, <3>1, <3>2 DEF EventInv
  <2> QED BY <2>1, <2>2, UiChannel
<1>2. CASE UNCHANGED <<reader, token, incoming>> /\ link' = Shut(client)
  <2>1. \A j \in Conns : link[j] # "up" => link'[j] # "up"
    BY <1>2 DEF Shut, ClientTypeOK
  <2> QED BY <1>2, <2>1 DEF EventInv
<1>3. CASE DialSucceeds
  <2>1. token + 1 \in Conns /\ token \in Nat
    BY <1>3, NextConn
  <2>2. /\ token' = token + 1 /\ UNCHANGED incoming
        /\ reader'[token + 1] = At("read")
        /\ \A j \in Conns : j # token + 1 => reader'[j] = reader[j] /\ link'[j] = link[j]
    BY <1>3, <2>1 DEF DialSucceeds, Dial, Step, ClientTypeOK
  <2>3. At("read").at = "read"
    BY StatesTyped
  <2>4. ASSUME NEW i \in DOMAIN incoming
        PROVE  incoming[i].conn # token + 1 /\ incoming[i].conn \in Conns
    <3>1. incoming[i].conn <= token
      BY DEF EventInv
    <3>2. incoming[i].conn \in Conns
      BY DEF ClientTypeOK, Event
    <3> QED BY <2>1, <3>1, <3>2 DEF Conns
  <2>5. ASSUME NEW i \in DOMAIN incoming PROVE incoming[i].conn <= token'
    <3>1. incoming[i].conn <= token /\ incoming[i].conn \in Nat
      BY <2>4 DEF EventInv, Conns
    <3> QED BY <2>1, <2>2, <3>1
  <2> QED BY <2>2, <2>3, <2>4, <2>5 DEF EventInv
<1> QED BY <1>1, <1>2, <1>3, UiLinks

(* The other end does not touch the events. *)
LEMMA EventOutsideStep ==
  ASSUME ClientTypeOK, AskedInv, EventInv, NEW k \in Conns, Outside(k)
  PROVE  EventInv'
<1>1. CASE Crashes
  BY <1>1 DEF Crashes, EventInv
<1>2. CASE Breaks(k)
  <2>1. \A j \in Conns : link[j] # "up" => link'[j] # "up"
    BY <1>2 DEF Breaks, ClientTypeOK
  <2> QED BY <1>2, <2>1 DEF Breaks, EventInv
<1>3. ASSUME NEW ps \in Seq(Packet), Says(k, ps) PROVE EventInv'
  BY <1>3, Said DEF EventInv
<1>4. CASE Refuses(k)
  <2>1. <<[kind |-> "error"]>> \in Seq(Packet)
    BY PacketsTyped
  <2> QED BY <1>3, <1>4, <2>1 DEF Refuses
<1>5. ASSUME NEW u \in Accounts, NEW ps \in Welcomes(u), Welcomed(k, u, ps) PROVE EventInv'
  BY <1>3, <1>5, WelcomeForm DEF Welcomed
<1>6. ASSUME NEW p \in Packet, Told(k, p) PROVE EventInv'
  <2>1. <<p>> \in Seq(Packet)
    OBVIOUS
  <2> QED BY <1>3, <1>6, <2>1 DEF Told
<1> QED BY <1>1, <1>2, <1>4, <1>5, <1>6, OutsideMoves

-----------------------------------------------------------------------------
(* The form: one login a connection, and the window under its name.  All of *)
(* this holds until an event of an earlier connection is applied.           *)

ClientInv == ClientTypeOK /\ ConnInv /\ AskedInv /\ EventInv
FormPart == WireInv /\ NameInv /\ EndInv /\ LoginInv

(* A connection that is up is the last one made, and the client's. *)
LEMMA UpIsCurrent ==
  ASSUME ClientTypeOK, ConnInv, NEW k \in Conns, link[k] = "up"
  PROVE  k = client /\ k = token
BY DEF ConnInv, Conns

(* What the server says next has its place behind what it has said.         *)
LEMMA SaidPackets ==
  ASSUME ClientTypeOK, NEW k \in Conns, NEW ps \in Seq(Packet), Says(k, ps)
  PROVE  \A i \in 1..Len(wire'[k]) :
           \/ i \in 1..Len(wire[k]) /\ wire'[k][i] = wire[k][i]
           \/ i - Len(wire[k]) \in 1..Len(ps) /\ wire'[k][i] = ps[i - Len(wire[k])]
<1> SUFFICES ASSUME NEW i \in 1..Len(wire'[k])
             PROVE  \/ i \in 1..Len(wire[k]) /\ wire'[k][i] = wire[k][i]
                    \/ /\ i - Len(wire[k]) \in 1..Len(ps)
                       /\ wire'[k][i] = ps[i - Len(wire[k])]
  OBVIOUS
<1>1. Len(wire[k]) \in Nat /\ Len(ps) \in Nat /\ Len(wire'[k]) = Len(wire[k]) + Len(ps)
  BY Said
<1>2. CASE i <= Len(wire[k])
  BY <1>1, <1>2, Said
<1>3. CASE i > Len(wire[k])
  <2>1. i - Len(wire[k]) \in 1..Len(ps) /\ Len(wire[k]) + (i - Len(wire[k])) = i
    BY <1>1, <1>3
  <2> QED BY <2>1, Said
<1> QED BY <1>1, <1>2, <1>3

(* A form that is free is not that of a logged-in connection.               *)
LEMMA FreeForm ==
  ASSUME ClientTypeOK, ConnInv, LoginInv, NEW a \in Accounts, SubmitAuth(a)
  PROVE  /\ client \in Conns /\ link[client] = "up" /\ auth[client] = NoOne
         /\ served[client] = Len(asked[client])
         /\ NoRefusal(client) /\ ~Busy(client) /\ NothingFrees(client)
<1>1. /\ client \in Conns /\ link[client] = "up"
      /\ ~session.joined /\ ~session.loading
  BY DEF SubmitAuth, Connected, NotLoading, ConnInv, ClientTypeOK
<1>2. auth[client] = NoOne /\ OneAnswer(client)
  BY <1>1 DEF LoginInv, LoginAt
<1>3. /\ ~(served[client] < Len(asked[client])) /\ ~Busy(client)
      /\ NoRefusal(client) /\ NothingFrees(client)
  BY <1>1, <1>2 DEF OneAnswer, NoRefusal, NothingFrees
<1>4. served[client] = Len(asked[client])
  BY <1>1, <1>3 DEF ConnInv, ClientTypeOK
<1> QED BY <1>1, <1>2, <1>3, <1>4

(* An event names the user its packet names. *)
LEMMA WireReaderStep ==
  ASSUME ClientInv, WireInv, NEW k \in Conns, ReadLoop(k)
  PROVE  WireInv'
<1> USE DEF ClientInv
<1>1. /\ UNCHANGED <<served, asked, auth, wire, key>>
      /\ \A j \in Conns : j # k => reader'[j] = reader[j]
  BY ReaderFrame
<1>2. Has(k, "auth")' => reader'[k].event.user = auth[k]
  <2>1. CASE Reads(k) \/ Wakes(k) \/ Pushes(k)
    BY <2>1, StatesTyped DEF Reads, Wakes, Pushes, Has
  <2>2. CASE Ends(k) \/ Shows(k) \/ Ignores(k)
    BY <2>2, StatesTyped, EventForms DEF Ends, Shows, Ignores, Has
  <2>3. CASE Admits(k)
    <3>1. reader[k].at = "handle" /\ InHand(k).kind = "auth_ok"
      BY <2>3 DEF Admits
    <3>2. got[k] \in 1..Len(wire[k])
      BY <3>1 DEF ConnInv, ClientTypeOK
    <3>3. InHand(k).user = auth[k]
      BY <3>1, <3>2 DEF InHand, WireInv, Meant
    <3>4. AuthEvent(k, InHand(k).user).user = auth[k]
      BY <3>3 DEF AuthEvent
    <3> QED BY <2>3, <3>4 DEF Admits, Has
  <2>4. CASE Passes(k)
    BY <2>4, Emitting, StatesTyped DEF Passes, Has, WireInv
  <2> QED BY <2>1, <2>2, <2>3, <2>4, ReaderMoves
<1>3. \A j \in Conns : Has(j, "auth")' => reader'[j].event.user = auth[j]
  BY <1>1, <1>2 DEF WireInv, Has
<1> QED BY <1>1, <1>3 DEF WireInv, Meant

(* A form that is free sends a request only where nobody is logged in. *)
LEMMA WireUiStep ==
  ASSUME ClientInv, WireInv, LoginInv, Ui
  PROVE  WireInv'
<1> USE DEF ClientInv
<1>1. ASSUME UNCHANGED <<reader, asked, served, auth, wire, key>> PROVE WireInv'
  BY <1>1 DEF WireInv, Meant, Has
<1>2. CASE BeginFrame \/ EndFrame \/ Input \/ Destroy \/ Drained \/ BeginNaming \/ SendMessage
  BY <1>1, <1>2 DEF BeginFrame, EndFrame, Input, Destroy, Drained, BeginNaming, SendMessage,
                    readers, server, transport
<1>3. CASE ApplyMessage \/ ApplyAuth \/ ApplyStatus \/ DialFails \/ Reconnect \/ Logout
  BY <1>1, <1>3 DEF ApplyMessage, ApplyAuth, ApplyStatus, DialFails, Reconnect, Logout,
                    readers, server, transport
<1>4. CASE DialSucceeds
  <2>1. PICK n \in Conns : n = token + 1 /\ n > token
    BY <1>4, NextConn
  <2>2. /\ UNCHANGED <<asked, served, auth, key>>
        /\ reader'[n] = At("read") /\ wire'[n] = <<[kind |-> "system"]>>
        /\ \A j \in Conns : j # n => reader'[j] = reader[j] /\ wire'[j] = wire[j]
    BY <1>4, <2>1 DEF DialSucceeds, Dial, Step, ClientTypeOK
  <2>3. auth[n] = NoOne
    BY <2>1 DEF ConnInv, Fresh
  <2>4. Len(wire'[n]) = 1 /\ wire'[n][1].kind = "system"
    BY <2>2
  <2>5. ~Has(n, "auth")'
    BY <2>2, StatesTyped DEF Has
  <2>6. \A i \in 1..Len(wire'[n]) : Meant(wire'[n][i], auth'[n])
    BY <2>4 DEF Meant
  <2>7. ASSUME NEW j \in Conns, j # n
        PROVE  /\ \A i \in 1..Len(wire'[j]) : Meant(wire'[j][i], auth'[j])
               /\ Has(j, "auth")' => reader'[j].event.user = auth'[j]
    BY <2>2, <2>7 DEF WireInv, Meant, Has
  <2> QED BY <2>2, <2>5, <2>6, <2>7 DEF WireInv
<1>5. ASSUME NEW a \in Accounts, client \in Conns, SendAuth(a),
             UNCHANGED <<reader, served, auth, wire>>,
             \A j \in Conns : served[j] < Len(asked'[j]) => auth[j] = NoOne
      PROVE  WireInv'
  <2>1. ASSUME NEW j \in Conns, NEW i \in 1..Len(wire[j]) PROVE Meant(wire'[j][i], auth'[j])
    <3>1. CASE auth[j] = NoOne
      BY <1>5, <3>1 DEF WireInv, Meant
    <3>2. CASE auth[j] # NoOne
      <4>1. key'[j] = key[j]
        <5>1. CASE j = client
          BY <1>5, <3>2, <5>1, KeyStays DEF AskedInv
        <5>2. CASE j # client
          BY <1>5, <5>2 DEF SendAuth, ClientTypeOK
        <5> QED BY <5>1, <5>2
      <4> QED BY <1>5, <4>1 DEF WireInv, Meant
    <3> QED BY <3>1, <3>2
  <2> QED BY <1>5, <2>1 DEF WireInv, Has
<1>6. ASSUME NEW a \in Accounts, SubmitAuth(a) PROVE WireInv'
  <2>1. client \in Conns /\ auth[client] = NoOne
    BY <1>6, FreeForm
  <2>2. SendAuth(a) /\ UNCHANGED <<reader, served, auth, wire>>
    BY <1>6 DEF SubmitAuth, readers
  <2>3. \A j \in Conns : j # client => asked'[j] = asked[j]
    BY <1>6 DEF SubmitAuth, ClientTypeOK
  <2> QED BY <1>5, <2>1, <2>2, <2>3 DEF WireInv
<1>7. ASSUME NEW a \in Accounts, SubmitFails(a) \/ SubmitLost(a) PROVE WireInv'
  <2>1. UNCHANGED <<reader, served, asked, auth, wire>>
    BY <1>7 DEF SubmitFails, SubmitLost, readers, server
  <2>2. CASE UNCHANGED key
    BY <1>1, <2>1, <2>2
  <2>3. CASE client # 0 /\ SendAuth(a)
    BY <1>5, <2>1, <2>3 DEF WireInv, ClientTypeOK
  <2> QED BY <1>7, <2>2, <2>3 DEF SubmitFails, SubmitLost
<1> QED BY <1>2, <1>3, <1>4, <1>6, <1>7
        DEF Ui, FrameSteps, Dialled, Clicks, AuthActions, SidebarActions

(* A request is pending only on a connection that nobody is logged in on.   *)
LEMMA Waiting ==
  ASSUME ClientInv, WireInv, LoginInv, NEW k \in Conns, Pending(k)
  PROVE  /\ link[k] = "up" /\ auth[k] = NoOne /\ served[k] + 1 = Len(asked[k])
         /\ served[k] \in Nat /\ ~Has(k, "auth")
         /\ OneAnswer(k)
<1> USE DEF ClientInv
<1>1. /\ link[k] = "up" /\ served[k] < Len(asked[k]) /\ served[k] \in Nat
      /\ Len(asked[k]) \in Nat /\ auth[k] = NoOne
  BY DEF Pending, ClientTypeOK, WireInv
<1>2. Len(asked[k]) <= served[k] + 1 /\ OneAnswer(k)
  BY <1>1 DEF LoginInv, LoginAt
<1>3. ~Has(k, "auth")
  <2>1. ~Busy(k)
    BY <1>1, <1>2 DEF OneAnswer
  <2> QED BY <2>1 DEF Busy
<1> QED BY <1>1, <1>2, <1>3

(* A refusal is a sequence of one packet. *)
LEMMA ErrorSeq ==
  /\ <<[kind |-> "error"]>> \in Seq(Packet)
  /\ Len(<<[kind |-> "error"]>>) = 1 /\ <<[kind |-> "error"]>>[1].kind = "error"
<1>1. PICK e \in Packet : e = [kind |-> "error"]
  BY PacketsTyped
<1> QED BY <1>1

(* What the server adds is for the account that is logged in. *)
LEMMA WireOutsideStep ==
  ASSUME ClientInv, WireInv, LoginInv, NEW k \in Conns, Outside(k)
  PROVE  WireInv'
<1> USE DEF ClientInv
<1>1. CASE Crashes \/ Breaks(k)
  BY <1>1 DEF Crashes, Breaks, WireInv, Meant, Has
<1>2. ASSUME NEW ps \in Seq(Packet), Says(k, ps),
             served'[k] < Len(asked[k]) => auth'[k] = NoOne,
             Has(k, "auth") => reader[k].event.user = auth'[k],
             \A i \in 1..Len(wire[k]) : Meant(wire[k][i], auth'[k]),
             \A i \in 1..Len(ps) : Meant(ps[i], auth'[k]),
             \A j \in Conns : j # k => served'[j] = served[j] /\ auth'[j] = auth[j]
      PROVE  WireInv'
  <2>1. /\ UNCHANGED <<asked, key, reader>>
        /\ \A j \in Conns : j # k => wire'[j] = wire[j]
    BY <1>2, Said
  <2>2. \A i \in 1..Len(wire'[k]) : Meant(wire'[k][i], auth'[k])
    <3> SUFFICES ASSUME NEW i \in 1..Len(wire'[k]) PROVE Meant(wire'[k][i], auth'[k])
      OBVIOUS
    <3> QED BY <1>2, <2>1, SaidPackets
  <2>3. ASSUME NEW j \in Conns, j # k
        PROVE  /\ \A i \in 1..Len(wire'[j]) : Meant(wire'[j][i], auth'[j])
               /\ Has(j, "auth")' => reader'[j].event.user = auth'[j]
               /\ served'[j] < Len(asked'[j]) => auth'[j] = NoOne
    BY <1>2, <2>1, <2>3 DEF WireInv, Meant, Has
  <2>4. Has(k, "auth")' => reader'[k].event.user = auth'[k]
    BY <1>2, <2>1 DEF Has
  <2> QED BY <1>2, <2>1, <2>2, <2>3, <2>4 DEF WireInv
<1>3. ASSUME NEW i \in 1..Len(wire[k])
      PROVE  Meant(wire[k][i], auth[k])
  BY DEF WireInv
<1>4. CASE Refuses(k)
  <2>1. Says(k, <<[kind |-> "error"]>>)
    BY <1>4 DEF Refuses
  <2>2. UNCHANGED auth /\ auth[k] = NoOne /\ ~Has(k, "auth")
        /\ \A j \in Conns : j # k => served'[j] = served[j]
    BY <1>4, Waiting DEF Refuses, ClientTypeOK
  <2>3. \A i \in 1..Len(<<[kind |-> "error"]>>) :
          Meant(<<[kind |-> "error"]>>[i], auth'[k])
    BY ErrorSeq DEF Meant
  <2> QED BY <1>2, <1>3, <2>1, <2>2, <2>3, ErrorSeq
<1>5. ASSUME NEW u \in Accounts, NEW ps \in Welcomes(u), Welcomed(k, u, ps) PROVE WireInv'
  <2>1. /\ Says(k, ps) /\ auth'[k] = u /\ served'[k] = served[k] + 1
        /\ \A j \in Conns : j # k => served'[j] = served[j] /\ auth'[j] = auth[j]
    BY <1>5 DEF Welcomed, ClientTypeOK
  <2>2. /\ ~(served[k] + 1 < Len(asked[k])) /\ auth[k] = NoOne /\ ~Has(k, "auth")
    BY <1>5, Waiting DEF Welcomed
  <2>3. ps \in Seq(Packet)
    BY WelcomeForm
  <2>4. \A i \in 1..Len(ps) : Meant(ps[i], u)
    <3> SUFFICES ASSUME NEW i \in 1..Len(ps) PROVE Meant(ps[i], u)
      OBVIOUS
    <3>1. PICK p : p = ps[i]
      OBVIOUS
    <3>2. \/ p = [kind |-> "auth_ok", user |-> u]
          \/ p \in Mail(u, TRUE)
          \/ p = [kind |-> "peer_sync", ok |-> TRUE]
          \/ p = [kind |-> "error"]
      BY <3>1, WelcomeForm
    <3>3. u # NoOne
      OBVIOUS
    <3>4. CASE p \in Mail(u, TRUE)
      <4>1. p.kind = "message" /\ p.to = u
        BY <3>4 DEF Mail
      <4> QED BY <3>1, <3>3, <4>1 DEF Meant
    <3>5. CASE p \notin Mail(u, TRUE)
      <4>1. CASE p = [kind |-> "auth_ok", user |-> u]
        BY <3>1, <3>3, <4>1 DEF Meant
      <4>2. CASE p = [kind |-> "peer_sync", ok |-> TRUE]
        <5>1. p.kind = "peer_sync"
          BY <4>2
        <5> QED BY <3>1, <3>3, <5>1 DEF Meant
      <4>3. CASE p = [kind |-> "error"]
        BY <3>1, <3>3, <4>3 DEF Meant
      <4> QED BY <3>2, <3>5, <4>1, <4>2, <4>3
    <3> QED BY <3>4, <3>5
  <2>5. \A i \in 1..Len(wire[k]) : Meant(wire[k][i], u)
    BY <1>3, <2>2 DEF Meant
  <2> QED BY <1>2, <2>1, <2>2, <2>3, <2>4, <2>5
<1>6. ASSUME NEW p \in Packet, p \in News(k), Told(k, p) PROVE WireInv'
  <2>1. /\ <<p>> \in Seq(Packet) /\ Len(<<p>>) = 1 /\ <<p>>[1] = p
        /\ UNCHANGED <<served, auth>> /\ Says(k, <<p>>) /\ auth[k] # NoOne
    BY <1>6 DEF Told
  <2>2. Meant(p, auth[k])
    BY <1>6, <2>1 DEF News, Mail, Meant
  <2>3. \A i \in 1..Len(<<p>>) : Meant(<<p>>[i], auth'[k])
    BY <2>1, <2>2
  <2>4. /\ served[k] < Len(asked[k]) => auth[k] = NoOne
        /\ Has(k, "auth") => reader[k].event.user = auth[k]
    BY DEF WireInv
  <2> QED BY <1>2, <1>3, <2>1, <2>3, <2>4
<1> QED BY <1>1, <1>4, <1>5, <1>6, OutsideMoves

(* A step of the UI goroutine, by what it does to the session.              *)
Others == <<reader, got, missed, asked, served, auth, wire>>
Stays == UNCHANGED <<Others, client, token, session, chat, incoming, key, link, stale>>
Writes ==
    /\ client # 0 /\ chat' = Append(chat, Own)
    /\ UNCHANGED <<Others, client, token, session, incoming, key, link, stale>>
Applies ==
    /\ incoming # <<>> /\ incoming' = Tail(incoming)
    /\ stale' = (stale \/ Head(incoming).conn # token)
    /\ UNCHANGED <<Others, client, token, key, link>>
    /\ \/ /\ Head(incoming).kind = "message" /\ UNCHANGED session
          /\ chat' = Append(chat, <<Head(incoming).conn, Head(incoming).nth>>)
       \/ /\ Head(incoming).kind = "auth" /\ UNCHANGED chat
          /\ session' = [session EXCEPT !.username = Head(incoming).user,
                                        !.joined = TRUE, !.loading = FALSE]
       \/ /\ Head(incoming).kind = "status" /\ UNCHANGED chat
          /\ session' = IF Head(incoming).down THEN Disconnected(session)
                        ELSE Troubled(session)
HangsUp ==
    /\ link' = Shut(client)
    /\ UNCHANGED <<Others, token, incoming, key, stale>>
    /\ \/ /\ session' = [session EXCEPT !.loading = FALSE]
          /\ UNCHANGED <<client, chat>>
       \/ client' = 0 /\ session' = Blank /\ chat' = <<>>
Connects(n) ==
    /\ ui = "dial" /\ n = token + 1 /\ n > token /\ token' = n /\ client' = n
    /\ reader'[n] = At("read") /\ wire'[n] = <<[kind |-> "system"]>> /\ link'[n] = "up"
    /\ \A j \in Conns : j # n =>
         reader'[j] = reader[j] /\ wire'[j] = wire[j] /\ link'[j] = link[j]
    /\ session' = [session EXCEPT !.connected = TRUE]
    /\ UNCHANGED <<got, missed, asked, served, auth, chat, incoming, key, stale>>
GivesUp ==
    /\ ui = "dial" /\ client' = 0
    /\ session' = [session EXCEPT !.connected = FALSE]
    /\ UNCHANGED <<Others, token, chat, incoming, key, link, stale>>
Asks(a) ==
    /\ SubmitAuth(a) /\ SendAuth(a) /\ client \in Conns
    /\ asked' = [asked EXCEPT ![client] = Append(@, a)]
    /\ session' = [session EXCEPT !.loading = TRUE]
    /\ UNCHANGED <<reader, got, missed, served, auth, wire, client, token, chat, incoming,
                   link, stale>>
AsksInVain(a) ==
    /\ ~Connected /\ (UNCHANGED key \/ (client \in Conns /\ SendAuth(a)))
    /\ session' = session \/ session' = [session EXCEPT !.loading = TRUE]
    /\ UNCHANGED <<Others, client, token, chat, incoming, link, stale>>

(* Every step of the UI goroutine is one of these. *)
LEMMA UiMoves ==
  ASSUME ClientTypeOK, ConnInv, Ui
  PROVE  \/ Stays \/ Writes \/ Applies \/ HangsUp \/ GivesUp
         \/ \E n \in Conns : Connects(n)
         \/ \E a \in Accounts : Asks(a) \/ AsksInVain(a)
<1> USE DEF readers, transport, server, app, Others
<1>1. CASE BeginFrame \/ EndFrame \/ Input \/ Destroy \/ Drained \/ BeginNaming
  BY <1>1 DEF BeginFrame, EndFrame, Input, Destroy, Drained, BeginNaming, Stays
<1>2. CASE SendMessage
  BY <1>2 DEF SendMessage, Writes
<1>3. CASE ApplyMessage \/ ApplyAuth \/ ApplyStatus
  BY <1>3 DEF ApplyMessage, ApplyAuth, ApplyStatus, Applies, ConnInv
<1>4. CASE Reconnect \/ Logout
  BY <1>4 DEF Reconnect, Logout, HangsUp
<1>5. CASE DialSucceeds
  <2>1. PICK n \in Conns : n = token + 1 /\ n > token
    BY <1>5, NextConn
  <2>2. Connects(n)
    BY <1>5, <2>1 DEF DialSucceeds, Dial, Step, ClientTypeOK, Connects
  <2> QED BY <2>2
<1>6. CASE DialFails
  BY <1>6 DEF DialFails, GivesUp
<1>7. ASSUME NEW a \in Accounts, SubmitAuth(a) PROVE Asks(a)
  BY <1>7 DEF SubmitAuth, Connected, ClientTypeOK, Asks
<1>8. ASSUME NEW a \in Accounts, SubmitFails(a) PROVE AsksInVain(a)
  BY <1>8 DEF SubmitFails, AsksInVain, ClientTypeOK
<1>9. ASSUME NEW a \in Accounts, SubmitLost(a) PROVE AsksInVain(a)
  BY <1>9 DEF SubmitLost, AsksInVain, Connected, ClientTypeOK
<1> QED BY <1>1, <1>2, <1>3, <1>4, <1>5, <1>6, <1>7, <1>8, <1>9
        DEF Ui, FrameSteps, Dialled, Clicks, AuthActions, SidebarActions

(* The events that are left were there before. *)
LEMMA Remaining ==
  ASSUME ClientTypeOK, Applies, NEW i \in DOMAIN incoming'
  PROVE  \E j \in DOMAIN incoming : j = i + 1 /\ incoming'[i] = incoming[j]
BY Applied DEF Applies

(* What the steps of the UI goroutine make of the session. *)
LEMMA SessionParts ==
  ASSUME ClientTypeOK
  PROVE  /\ \A s : s = [session EXCEPT !.loading = FALSE] =>
              s.joined = session.joined /\ s.username = session.username /\ ~s.loading
         /\ \A s : s = [session EXCEPT !.loading = TRUE] =>
              s.joined = session.joined /\ s.username = session.username /\ s.loading
         /\ \A s, b : s = [session EXCEPT !.connected = b] =>
              /\ s.joined = session.joined /\ s.username = session.username
              /\ s.loading = session.loading
         /\ ~Blank.joined /\ ~Blank.loading
         /\ ~Disconnected(session).joined /\ Disconnected(session).username = session.username
         /\ Troubled(session).joined = session.joined
         /\ Troubled(session).username = session.username
BY DEF ClientTypeOK, Blank, Disconnected, Troubled

(* The name in the window is the one the server knows. *)
LEMMA NameStep ==
  ASSUME ClientInv, FormPart, (\E k \in Conns : ReadLoop(k) \/ Outside(k)) \/ Ui, ~stale'
  PROVE  NameInv'
<1> USE DEF ClientInv, FormPart
<1>1. ASSUME NEW k \in Conns, ReadLoop(k) PROVE NameInv'
  <2>1. UNCHANGED <<token, session, auth>>
    BY <1>1, ReaderFrame
  <2>2. CASE UNCHANGED incoming
    BY <2>1, <2>2 DEF NameInv
  <2>3. CASE Pushes(k)
    <3>1. reader[k].event.kind = "auth" => reader[k].event.user = auth[reader[k].event.conn]
      BY <2>3 DEF Pushes, WireInv, Has, EventInv
    <3>2. \A i \in DOMAIN incoming' : i \in DOMAIN incoming \/ i = Len(incoming')
      BY <2>3, Pushed DEF Pushes
    <3> QED BY <2>1, <2>3, <3>1, <3>2, Pushed DEF Pushes, NameInv
  <2> QED BY <1>1, <2>2, <2>3, ReaderMoves
          DEF Reads, Ends, Shows, Admits, Ignores, Passes, Wakes
<1>2. ASSUME NEW k \in Conns, Outside(k) PROVE NameInv'
  <2>1. UNCHANGED <<incoming, token, session>>
    <3>1. CASE Crashes \/ Breaks(k)
      BY <3>1 DEF Crashes, Breaks
    <3>2. CASE Refuses(k)
      BY <3>2, Said, ErrorSeq DEF Refuses
    <3>3. ASSUME NEW u \in Accounts, NEW ps \in Welcomes(u), Welcomed(k, u, ps)
          PROVE  UNCHANGED <<incoming, token, session>>
      BY <3>3, Said, WelcomeForm DEF Welcomed
    <3>4. ASSUME NEW p \in Packet, Told(k, p) PROVE UNCHANGED <<incoming, token, session>>
      <4>1. <<p>> \in Seq(Packet)
        OBVIOUS
      <4> QED BY <3>4, <4>1, Said DEF Told
    <3> QED BY <1>2, <3>1, <3>2, <3>3, <3>4, OutsideMoves
  <2>2. CASE UNCHANGED auth
    BY <2>1, <2>2 DEF NameInv
  <2>3. ASSUME NEW u \in Accounts, NEW ps \in Welcomes(u), Welcomed(k, u, ps) PROVE NameInv'
    <3>1. auth[k] = NoOne /\ \A j \in Conns : j # k => auth'[j] = auth[j]
      BY <2>3, Waiting DEF Welcomed, ClientTypeOK
    <3>2. session.joined => token # k /\ token \in Conns
      BY <3>1 DEF NameInv, ClientTypeOK
    <3>3. ASSUME NEW i \in DOMAIN incoming, incoming[i].kind = "auth"
          PROVE  incoming[i].conn \in Conns /\ incoming[i].conn # k
      BY <3>1, <3>3, QueueTyped DEF NameInv
    <3> QED BY <2>1, <3>1, <3>2, <3>3 DEF NameInv
  <2> QED BY <1>2, <2>2, <2>3, OutsideMoves DEF Crashes, Breaks, Refuses, Told
<1>3. CASE Ui
  <2> USE DEF Others
  <2>1. CASE Applies
    <3>1. \A i \in DOMAIN incoming' : incoming'[i].kind = "auth" =>
            incoming'[i].user = auth'[incoming'[i].conn]
      BY <2>1, Remaining DEF Applies, NameInv
    <3>2. /\ Head(incoming).conn = token /\ Head(incoming).conn \in Conns
          /\ Head(incoming).kind = "auth" =>
               Head(incoming).user \in Accounts /\ Head(incoming).user = auth[token]
      <4>1. Head(incoming).conn = token
        BY <2>1 DEF Applies
      <4>2. 1 \in DOMAIN incoming /\ Head(incoming) = incoming[1]
        BY <2>1, Applied DEF Applies
      <4> QED BY <4>1, <4>2, QueueTyped DEF NameInv
    <3>3. session'.joined => token # 0 /\ session'.username # NoOne
                             /\ session'.username = auth[token]
      <4>1. CASE Head(incoming).kind = "auth"
        <5>1. session' = [session EXCEPT !.username = Head(incoming).user,
                                         !.joined = TRUE, !.loading = FALSE]
          BY <2>1, <4>1 DEF Applies
        <5>2. session'.username = Head(incoming).user
          BY <5>1 DEF ClientTypeOK
        <5> QED BY <3>2, <4>1, <5>2 DEF Conns
      <4>2. CASE Head(incoming).kind # "auth"
        <5>1. session'.joined => session.joined /\ session'.username = session.username
          BY <2>1, <4>2 DEF Applies, Disconnected, Troubled, ClientTypeOK
        <5> QED BY <5>1 DEF NameInv
      <4> QED BY <4>1, <4>2
    <3> QED BY <2>1, <3>1, <3>3 DEF Applies, NameInv
  <2>2. CASE \E n \in Conns : Connects(n)
    BY <2>2 DEF Connects, NameInv, ConnInv, ClientTypeOK
  <2>3. CASE Stays \/ Writes \/ HangsUp \/ GivesUp
    <3>1. UNCHANGED <<token, incoming, auth>>
      BY <2>3 DEF Stays, Writes, HangsUp, GivesUp
    <3>2. session'.joined => session.joined /\ session'.username = session.username
      <4>1. CASE Stays \/ Writes
        BY <4>1 DEF Stays, Writes
      <4>2. CASE HangsUp
        <5>1. \/ session' = [session EXCEPT !.loading = FALSE]
              \/ session' = Blank
          BY <4>2 DEF HangsUp
        <5> QED BY <5>1, SessionParts
      <4>3. CASE GivesUp
        BY <4>3 DEF GivesUp, ClientTypeOK
      <4> QED BY <2>3, <4>1, <4>2, <4>3
    <3> QED BY <3>1, <3>2 DEF NameInv
  <2>4. ASSUME NEW a \in Accounts, Asks(a) \/ AsksInVain(a) PROVE NameInv'
    BY <2>4 DEF Asks, AsksInVain, NameInv, ClientTypeOK
  <2> QED BY <1>3, <2>1, <2>2, <2>3, <2>4, UiMoves
<1> QED BY <1>1, <1>2, <1>3

(* What is outside the client leaves the client's own state alone. *)
LEMMA OutsideFrame ==
  ASSUME ClientTypeOK, AskedInv, NEW k \in Conns, Outside(k)
  PROVE  UNCHANGED <<client, token, session, chat, incoming, reader, got, missed, key, asked,
                     stale>>
<1>1. CASE Crashes \/ Breaks(k)
  BY <1>1 DEF Crashes, Breaks
<1>2. CASE Refuses(k)
  BY <1>2, Said, ErrorSeq DEF Refuses
<1>3. ASSUME NEW u \in Accounts, NEW ps \in Welcomes(u), Welcomed(k, u, ps)
      PROVE  UNCHANGED <<client, token, session, chat, incoming, reader, got, missed, key,
                         asked, stale>>
  BY <1>3, Said, WelcomeForm DEF Welcomed
<1>4. ASSUME NEW p \in Packet, Told(k, p)
      PROVE  UNCHANGED <<client, token, session, chat, incoming, reader, got, missed, key,
                         asked, stale>>
  <2>1. <<p>> \in Seq(Packet)
    OBVIOUS
  <2> QED BY <1>4, <2>1, Said DEF Told
<1> QED BY <1>1, <1>2, <1>3, <1>4, OutsideMoves

(* A readLoop that ends leaves the event that says so. *)
LEMMA EndReaderStep ==
  ASSUME ClientInv, EndInv, NEW k \in Conns, ReadLoop(k)
  PROVE  EndInv'
<1> USE DEF ClientInv
<1>1. /\ UNCHANGED <<token, session>>
      /\ \A j \in Conns : j # k => reader'[j] = reader[j]
      /\ reader[k].at \notin {"none", "done"}
  BY ReaderFrame
<1>2. CASE Pushes(k)
  <2> DEFINE n == Len(incoming')
  <2>1. /\ \A i \in DOMAIN incoming : i \in DOMAIN incoming' /\ incoming'[i] = incoming[i]
        /\ n \in DOMAIN incoming' /\ incoming'[n] = reader[k].event
        /\ \A i \in DOMAIN incoming' : i \in DOMAIN incoming \/ i = n
    BY <1>2, Pushed DEF Pushes
  <2>2. reader[k].event.conn = k
    BY <1>2 DEF Pushes, EventInv
  <2> HIDE DEF n
  <2>3. CASE k = token
    <3>1. Ended(k)' => Down(reader[k].event)
      BY <1>2, EventForms DEF Pushes, Ended
    <3>2. Ended(k)' => EndComing(k)'
      BY <2>1, <2>2, <3>1 DEF EndComing
    <3> QED BY <1>1, <2>3, <3>2 DEF EndInv
  <2>4. CASE k # token
    <3>1. EndComing(token) => EndComing(token)'
      BY <1>1, <2>1 DEF EndComing
    <3>2. AuthQueued(token)' => AuthQueued(token)
      BY <1>1, <2>1, <2>2, <2>4 DEF AuthQueued
    <3>3. token \in Conns /\ Ended(token)' => Ended(token)
      BY <1>1, <2>4 DEF Ended
    <3> QED BY <1>1, <3>1, <3>2, <3>3 DEF EndInv
  <2> QED BY <2>3, <2>4
<1>3. CASE UNCHANGED incoming
  <2>1. Ended(k)' => Ended(k) \/ k # token
    <3>1. CASE Reads(k) \/ Ends(k) \/ Shows(k) \/ Admits(k) \/ Ignores(k)
      BY <3>1, StatesTyped DEF Reads, Ends, Shows, Admits, Ignores, Ended
    <3>2. CASE Passes(k)
      BY <3>2, Emitting DEF Passes, Ended
    <3>3. CASE Wakes(k)
      BY <3>3, StatesTyped DEF Wakes, Ended
    <3> QED BY <1>2, <1>3, <3>1, <3>2, <3>3, ReaderMoves, Pushed DEF Pushes
  <2>2. \A j \in Conns : j = token /\ Ended(j)' => Ended(j)
    BY <1>1, <2>1 DEF Ended
  <2> QED BY <1>1, <1>3, <2>2 DEF EndInv, EndComing, AuthQueued
<1> QED BY <1>2, <1>3, ReaderMoves DEF Reads, Ends, Shows, Admits, Ignores, Passes, Wakes

(* That event waits until the session it ends is over. *)
LEMMA EndUiStep ==
  ASSUME ClientInv, EndInv, Ui, ~stale'
  PROVE  EndInv'
<1> USE DEF ClientInv, Others
<1>1. ASSUME UNCHANGED <<incoming, reader, token>>, session'.joined => session.joined
      PROVE  EndInv'
  BY <1>1 DEF EndInv, Ended, EndComing, AuthQueued
<1>2. CASE Stays \/ Writes
  BY <1>1, <1>2 DEF Stays, Writes
<1>3. CASE HangsUp
  <2>1. session' = [session EXCEPT !.loading = FALSE] \/ session' = Blank
    BY <1>3 DEF HangsUp
  <2> QED BY <1>1, <1>3, <2>1, SessionParts DEF HangsUp
<1>4. CASE GivesUp
  BY <1>1, <1>4, SessionParts DEF GivesUp
<1>5. ASSUME NEW a \in Accounts, Asks(a) \/ AsksInVain(a) PROVE EndInv'
  <2>1. session' = session \/ session' = [session EXCEPT !.loading = TRUE]
    BY <1>5 DEF Asks, AsksInVain
  <2> QED BY <1>1, <1>5, <2>1, SessionParts DEF Asks, AsksInVain
<1>6. ASSUME NEW n \in Conns, Connects(n) PROVE EndInv'
  BY <1>6, StatesTyped DEF Connects, EndInv, Ended
<1>7. CASE Applies
  <2> DEFINE e == Head(incoming)
  <2>1. /\ e.conn = token /\ UNCHANGED <<token, reader>>
        /\ 1 \in DOMAIN incoming /\ e = incoming[1] /\ e.conn \in Conns
    <3>1. e.conn = token /\ UNCHANGED <<token, reader>>
      BY <1>7 DEF Applies
    <3> QED BY <1>7, <3>1, Applied, QueueTyped DEF Applies
  <2>2. AuthQueued(token)' => AuthQueued(token)
    BY <1>7, <2>1, Remaining DEF AuthQueued
  <2>3. ~Down(e) /\ EndComing(token) => EndComing(token)'
    <3> SUFFICES ASSUME ~Down(e), NEW i \in DOMAIN incoming, Down(incoming[i]),
                        incoming[i].conn = token
                 PROVE  EndComing(token)'
      BY DEF EndComing
    <3>1. i # 1
      BY <2>1
    <3>2. i - 1 \in DOMAIN incoming' /\ incoming'[i - 1] = incoming[i]
      BY <1>7, <3>1, Applied DEF Applies
    <3> QED BY <2>1, <3>2 DEF EndComing
  <2>4. CASE Down(e)
    <3>1. ~AuthQueued(token)'
      <4>1. ASSUME NEW i \in DOMAIN incoming' PROVE incoming'[i].conn # token
        <5>1. i \in Nat \ {0} /\ i + 1 \in DOMAIN incoming /\ incoming'[i] = incoming[i + 1]
          BY <1>7, Applied DEF Applies
        <5>2. 1 < i + 1
          BY <5>1
        <5> QED BY <2>1, <2>4, <5>1, <5>2 DEF EventInv
      <4> QED BY <2>1, <4>1 DEF AuthQueued
    <3>2. ~session'.joined
      <4>1. session' = Disconnected(session)
        BY <1>7, <2>4 DEF Applies, Down
      <4> QED BY <4>1, SessionParts
    <3> QED BY <2>1, <3>1, <3>2 DEF EndInv
  <2>5. CASE ~Down(e) /\ e.kind = "auth"
    <3>1. AuthQueued(token)
      BY <2>1, <2>5 DEF AuthQueued
    <3> QED BY <2>1, <2>3, <2>5, <3>1 DEF EndInv, Ended
  <2>6. CASE ~Down(e) /\ e.kind # "auth"
    <3>1. session' = session \/ session' = Troubled(session)
      BY <1>7, <2>6 DEF Applies, Down
    <3>2. session'.joined => session.joined
      BY <3>1, SessionParts
    <3> QED BY <2>1, <2>2, <2>3, <2>6, <3>2 DEF EndInv, Ended
  <2> QED BY <2>4, <2>5, <2>6
<1> QED BY <1>2, <1>3, <1>4, <1>5, <1>6, <1>7, UiMoves

(* The other end does not touch that event. *)
LEMMA EndOutsideStep ==
  ASSUME ClientInv, EndInv, NEW k \in Conns, Outside(k)
  PROVE  EndInv'
BY OutsideFrame DEF ClientInv, EndInv, Ended, EndComing, AuthQueued

(* A step that takes nothing from the answer that is awaited keeps the form. *)
LEMMA FormKept ==
  ASSUME NEW k, LoginAt(k), UNCHANGED <<session, asked, served, auth>>,
         got'[k] = got[k], wire'[k] = wire[k],
         Busy(k)' <=> Busy(k), HoldsYes(k) => HoldsYes(k)',
         \A i \in DOMAIN incoming : i \in DOMAIN incoming' /\ incoming'[i] = incoming[i],
         \A i \in DOMAIN incoming' : Frees(k, i)' => i \in DOMAIN incoming
  PROVE  LoginAt(k)'
<1>1. /\ NoRefusal(k) => NoRefusal(k)'
      /\ Unread(k)' = Unread(k) /\ \A i : Refusal(k, i)' <=> Refusal(k, i)
  BY DEF NoRefusal, Refusal, Unread
<1>2. /\ \A i \in DOMAIN incoming' : Frees(k, i)' => i \in DOMAIN incoming /\ Frees(k, i)
      /\ NothingFrees(k) => NothingFrees(k)'
  BY DEF Frees, NothingFrees
<1>3. OneAnswer(k) => OneAnswer(k)'
  BY <1>1, <1>2 DEF OneAnswer
<1>4. YesUnread(k) => YesUnread(k)'
  BY <1>1, <1>2 DEF YesUnread
<1>5. YesInHand(k) => YesInHand(k)'
  BY <1>2 DEF YesInHand
<1>6. YesQueued(k) => YesQueued(k)'
  BY <1>2 DEF YesQueued
<1> QED BY <1>3, <1>4, <1>5, <1>6 DEF LoginAt

(* Before a login there are greetings and refusals to read, then no others. *)
LEMMA LoginReads ==
  ASSUME ClientInv, WireInv, NEW k \in Conns, link[k] = "up", LoginAt(k), Reads(k),
         UNCHANGED <<session, asked, served, auth, wire>>
  PROVE  LoginAt(k)'
<1> USE DEF ClientInv
<1> DEFINE n == got[k] + 1
<1>1. /\ n \in Unread(k) /\ n \in 1..Len(wire[k]) /\ \A i \in Unread(k) : i >= n /\ i \in Int
      /\ \A i \in Unread(k)' : i \in Unread(k) /\ i > n /\ i # n
      /\ \A i \in Unread(k) : i = n \/ i \in Unread(k)'
  <2>1. got[k] \in Nat /\ Len(wire[k]) \in Nat /\ got[k] < Len(wire[k]) /\ got'[k] = n
    BY DEF Reads, ClientTypeOK
  <2>2. Unread(k) = (got[k] + 1)..Len(wire[k]) /\ Unread(k)' = (n + 1)..Len(wire[k])
    BY <2>1 DEF Unread
  <2> QED BY <2>1, <2>2
<1>2. /\ reader'[k].at = "handle" /\ InHand(k)' = wire[k][n]
      /\ ~Busy(k) /\ ~HoldsYes(k)
  BY StatesTyped DEF Reads, InHand, Busy, HoldsYes, Has
<1>3. UNCHANGED incoming
  BY DEF Reads
<1> HIDE DEF n
<1>4. /\ \A i : Refusal(k, i)' <=> Refusal(k, i)
      /\ \A i : Frees(k, i)' <=> Frees(k, i)
      /\ NothingFrees(k)' <=> NothingFrees(k)
  BY <1>3 DEF Refusal, Frees, NothingFrees
<1>5. /\ NoRefusal(k) => NoRefusal(k)' /\ ~Refusal(k, n)
      /\ Busy(k)' <=> wire[k][n].kind # "system"
  BY <1>1, <1>2, <1>4 DEF NoRefusal, Busy, Has
<1>6. ASSUME auth[k] = NoOne PROVE OneAnswer(k)'
  <2>1. wire[k][n].kind \in {"system", "error"}
    BY <1>1, <1>6 DEF WireInv, Meant
  <2>2. Busy(k)' <=> Refusal(k, n)
    BY <1>5, <2>1 DEF Refusal
  <2>3. OneAnswer(k)
    BY <1>6 DEF LoginAt
  <2>4. Refusal(k, n) => NoRefusal(k)'
    <3> SUFFICES ASSUME Refusal(k, n), NEW i \in Unread(k)' PROVE ~Refusal(k, i)'
      BY DEF NoRefusal
    <3>1. i \in Unread(k) /\ i # n
      BY <1>1
    <3> QED BY <1>1, <1>4, <2>3, <3>1 DEF OneAnswer
  <2> QED BY <1>1, <1>3, <1>4, <1>5, <2>2, <2>3, <2>4 DEF OneAnswer
<1>7. ASSUME YesUnread(k) PROVE YesUnread(k)' \/ YesInHand(k)'
  <2>1. PICK i \in Unread(k) :
          /\ wire[k][i].kind = "auth_ok"
          /\ \A j \in Unread(k) : j < i => wire[k][j].kind = "system"
    BY <1>7 DEF YesUnread
  <2>2. CASE i = n
    BY <1>2, <1>4, <1>7, <2>1, <2>2 DEF YesInHand, HoldsYes, YesUnread
  <2>3. CASE i # n
    <3>1. n < i /\ wire[k][n].kind = "system" /\ ~Busy(k)'
      BY <1>1, <1>5, <2>1, <2>3
    <3> QED BY <1>1, <1>4, <1>7, <2>1, <2>3, <3>1 DEF YesUnread
  <2> QED BY <2>2, <2>3
<1>8. YesQueued(k) => YesQueued(k)'
  BY <1>3 DEF YesQueued, Frees
<1> QED BY <1>2, <1>6, <1>7, <1>8 DEF LoginAt, YesInHand

(* The answer moves from the readLoop's hands into the channel. *)
LEMMA LoginPushes ==
  ASSUME ClientInv, WireInv, NEW k \in Conns, link[k] = "up", LoginAt(k), Pushes(k),
         UNCHANGED <<session, asked, served, auth, wire>>
  PROVE  LoginAt(k)'
<1> USE DEF ClientInv
<1> PICK n : n = Len(incoming')
  OBVIOUS
<1> DEFINE e == reader[k].event
<1>1. /\ n = Len(incoming) + 1 /\ Len(incoming) \in Nat
      /\ DOMAIN incoming = 1..Len(incoming) /\ DOMAIN incoming' = 1..n
      /\ incoming'[n] = e /\ e \in Event
      /\ \A i \in DOMAIN incoming : incoming'[i] = incoming[i]
  BY Pushed DEF Pushes
<1>2. /\ \A i \in DOMAIN incoming' : i \in DOMAIN incoming \/ i = n
      /\ \A i \in DOMAIN incoming : i < n /\ i # n /\ i \in DOMAIN incoming'
      /\ n \in DOMAIN incoming'
  BY <1>1
<1>3. /\ reader[k].at = "push" /\ reader'[k].at \in {"wake", "exit"}
      /\ got'[k] = got[k] /\ e.conn = k
  BY StatesTyped DEF Pushes, EventInv
<1>4. e.kind \in {"message", "auth", "status"}
  BY <1>1 DEF Event
<1>5. ~Busy(k)' /\ ~HoldsYes(k)'
  BY <1>3 DEF Busy, HoldsYes, Has
<1>6. /\ Busy(k) <=> e.kind # "message"
      /\ HoldsYes(k) <=> e.kind = "auth"
  BY <1>3, <1>4 DEF Busy, HoldsYes, Has
<1> HIDE DEF e
<1>7. CASE e.kind = "message"
  <2>1. \A i \in DOMAIN incoming' : Frees(k, i)' => i \in DOMAIN incoming
    BY <1>1, <1>2, <1>7 DEF Frees
  <2> QED BY <1>1, <1>2, <1>3, <1>5, <1>6, <1>7, <2>1, FormKept
<1>8. ASSUME e.kind # "message" PROVE LoginAt(k)'
  <2>1. /\ \A i \in DOMAIN incoming : Frees(k, i)' <=> Frees(k, i)
        /\ Frees(k, n)' <=> e.kind = "status"
    BY <1>1, <1>3 DEF Frees
  <2>2. ASSUME auth[k] = NoOne PROVE OneAnswer(k)'
    <3>1. /\ ~(served[k] < Len(asked[k])) /\ session.loading
          /\ NoRefusal(k) /\ NothingFrees(k)
      BY <1>6, <1>8, <2>2 DEF LoginAt, OneAnswer
    <3>2. NoRefusal(k)'
      BY <1>3, <3>1 DEF NoRefusal, Unread, Refusal
    <3>3. \A i \in DOMAIN incoming' : Frees(k, i)' => i = n
      BY <1>2, <2>1, <3>1 DEF NothingFrees
    <3> QED BY <1>5, <3>1, <3>2, <3>3 DEF OneAnswer, NoRefusal
  <2>3. ASSUME YesInHand(k) PROVE YesQueued(k)'
    <3>1. e.kind = "auth" /\ NothingFrees(k)
      BY <1>6, <2>3 DEF YesInHand
    <3>2. \A j \in DOMAIN incoming' : j < n => ~Frees(k, j)'
      BY <1>1, <1>2, <2>1, <3>1 DEF NothingFrees
    <3> QED BY <1>1, <1>2, <1>3, <3>1, <3>2 DEF YesQueued
  <2>4. ASSUME YesQueued(k) PROVE YesQueued(k)'
    <3>1. PICK i \in DOMAIN incoming :
            /\ incoming[i].kind = "auth" /\ incoming[i].conn = k
            /\ \A j \in DOMAIN incoming : j < i => ~Frees(k, j)
      BY <2>4 DEF YesQueued
    <3>2. \A j \in DOMAIN incoming' : j < i => j \in DOMAIN incoming
      BY <1>1
    <3> QED BY <1>1, <1>2, <2>1, <3>1, <3>2 DEF YesQueued
  <2> QED BY <1>6, <1>8, <2>2, <2>3, <2>4 DEF LoginAt, YesUnread
<1> QED BY <1>7, <1>8

(* A readLoop carries the answer on and lets nothing overtake it. *)
LEMMA LoginReaderStep ==
  ASSUME ClientInv, WireInv, LoginInv, NEW j \in Conns, ReadLoop(j)
  PROVE  LoginInv'
<1> USE DEF ClientInv
<1>1. /\ UNCHANGED <<token, session, asked, served, auth, wire, link>>
      /\ \A k \in Conns : k # j => reader'[k] = reader[k] /\ got'[k] = got[k]
  BY ReaderFrame
<1> SUFFICES ASSUME NEW k \in Conns, link[k] = "up" PROVE LoginAt(k)'
  BY <1>1 DEF LoginInv
<1>2. LoginAt(k) /\ k = token
  BY UpIsCurrent DEF LoginInv
<1>3. CASE j # k
  <2>1. /\ reader'[k] = reader[k] /\ got'[k] = got[k]
        /\ Busy(k)' <=> Busy(k)
        /\ HoldsYes(k) => HoldsYes(k)'
    BY <1>1, <1>3 DEF Busy, HoldsYes, Has, InHand
  <2>2. /\ \A i \in DOMAIN incoming : i \in DOMAIN incoming' /\ incoming'[i] = incoming[i]
        /\ \A i \in DOMAIN incoming' : Frees(k, i)' => i \in DOMAIN incoming
    <3>1. CASE Pushes(j)
      <4>1. reader[j].event.conn # k
        BY <1>3, <3>1 DEF Pushes, EventInv
      <4>2. \A i \in DOMAIN incoming' :
              i \in DOMAIN incoming \/ incoming'[i] = reader[j].event
        BY <3>1, Pushed DEF Pushes
      <4> QED BY <3>1, <4>1, <4>2, Pushed DEF Pushes, Frees
    <3> QED BY <3>1, ReaderMoves DEF Reads, Ends, Shows, Admits, Ignores, Passes, Wakes
  <2> QED BY <1>1, <1>2, <2>1, <2>2, FormKept
<1>4. CASE j = k
  <2>1. CASE Reads(k)
    BY <1>1, <1>2, <2>1, LoginReads
  <2>2. CASE Pushes(k)
    BY <1>1, <1>2, <2>2, LoginPushes
  <2>3. CASE Ends(k)
    BY <2>3 DEF Ends
  <2>4. ASSUME Busy(k)' <=> Busy(k), HoldsYes(k) => HoldsYes(k)',
               UNCHANGED incoming, got'[k] = got[k]
        PROVE  LoginAt(k)'
    BY <1>1, <1>2, <2>4, FormKept
  <2>5. CASE Wakes(k)
    BY <2>4, <2>5, StatesTyped DEF Wakes, Busy, HoldsYes, Has
  <2>6. CASE Passes(k)
    <3>1. reader[k].at = "emit" /\ reader'[k].at = "push" /\ reader'[k].event = reader[k].event
      BY <1>2, <2>6, Emitting DEF Passes
    <3> QED BY <2>4, <2>6, <3>1 DEF Passes, Busy, HoldsYes, Has
  <2>7. ASSUME reader[k].at = "handle" PROVE got[k] \in 1..Len(wire[k])
    BY <2>7 DEF ConnInv, ClientTypeOK
  <2>8. CASE Admits(k)
    <3>1. Has(k, "auth")' /\ Busy(k)
      BY <2>8 DEF Admits, AuthEvent, Has, Busy
    <3> QED BY <2>4, <2>8, <3>1 DEF Admits, Busy, HoldsYes
  <2>9. CASE Shows(k) /\ InHand(k).kind = "system"
    <3>1. reader[k].at = "handle" /\ reader'[k].at = "emit" /\ reader'[k].event.kind = "message"
      BY <2>9, EventForms DEF Shows
    <3> QED BY <2>4, <2>9, <3>1 DEF Shows, Busy, HoldsYes, Has
  <2>10. CASE Ignores(k) \/ (Shows(k) /\ InHand(k).kind = "message")
    <3>1. /\ reader[k].at = "handle" /\ InHand(k).kind \in {"error", "peer_sync", "message"}
          /\ UNCHANGED incoming /\ got'[k] = got[k]
      BY <2>10 DEF Ignores, Shows
    <3>2. Busy(k) /\ ~HoldsYes(k)
      BY <3>1 DEF Busy, HoldsYes, Has
    <3>3. CASE auth[k] = NoOne
      <4>1. InHand(k).kind = "error"
        BY <2>7, <3>1, <3>3 DEF InHand, WireInv, Meant
      <4>2. reader'[k] = [at |-> "emit", event |-> StatusEvent(k)]
        BY <2>10, <4>1, StatesTyped DEF Ignores
      <4>3. Busy(k)'
        BY <4>2, EventForms DEF Busy, Has
      <4> QED BY <2>4, <3>1, <3>2, <4>3
    <3>4. CASE auth[k] # NoOne
      <4>1. session.joined \/ (session.loading /\ YesQueued(k))
        BY <1>2, <3>2, <3>4 DEF LoginAt, YesUnread, YesInHand
      <4>2. YesQueued(k) => YesQueued(k)'
        BY <3>1 DEF YesQueued, Frees
      <4> QED BY <1>1, <1>2, <3>4, <4>1, <4>2 DEF LoginAt
    <3> QED BY <3>3, <3>4
  <2> QED BY <1>4, <2>1, <2>2, <2>3, <2>5, <2>6, <2>8, <2>9, <2>10, ReaderMoves DEF Shows
<1> QED BY <1>3, <1>4

(* The window applies an event of the current connection. *)
LEMMA LoginApplies ==
  ASSUME ClientInv, NameInv, NEW k \in Conns, link[k] = "up", LoginAt(k), Applies, ~stale'
  PROVE  LoginAt(k)'
<1> USE DEF ClientInv
<1> DEFINE e == Head(incoming)
<1>1. /\ UNCHANGED <<token, link, reader, got, asked, served, auth, wire>>
      /\ e.conn = token /\ k = token
  <2>1. UNCHANGED <<token, link, reader, got, asked, served, auth, wire>> /\ e.conn = token
    BY DEF Applies, Others
  <2> QED BY <2>1, UpIsCurrent
<1>2. 1 \in DOMAIN incoming /\ e = incoming[1] /\ DOMAIN incoming = 1..Len(incoming)
  BY Applied DEF Applies
<1>3. \A i \in DOMAIN incoming' : i + 1 \in DOMAIN incoming /\ incoming'[i] = incoming[i + 1]
                                /\ i \in Nat \ {0}
  BY Applied DEF Applies
<1>4. \A i \in DOMAIN incoming : i = 1 \/ /\ i \in Nat /\ i > 1 /\ i - 1 \in DOMAIN incoming'
                                          /\ incoming'[i - 1] = incoming[i]
  BY Applied DEF Applies
<1>5. /\ \A i \in DOMAIN incoming' : Frees(k, i)' <=> Frees(k, i + 1)
      /\ Busy(k)' <=> Busy(k)
      /\ HoldsYes(k)' <=> HoldsYes(k)
      /\ NoRefusal(k)' <=> NoRefusal(k)
      /\ Unread(k)' = Unread(k) /\ \A i : Refusal(k, i)' <=> Refusal(k, i)
  BY <1>1, <1>3 DEF Frees, Busy, HoldsYes, Has, InHand, NoRefusal, Refusal, Unread
<1>6. NothingFrees(k) => NothingFrees(k)'
  BY <1>3, <1>5 DEF NothingFrees
<1> HIDE DEF e
<1>7. CASE e.kind = "auth"
  <2>1. /\ session' = [session EXCEPT !.username = e.user, !.joined = TRUE, !.loading = FALSE]
        /\ auth[k] = e.user /\ e.user \in Accounts
    BY <1>1, <1>2, <1>7, QueueTyped DEF Applies, NameInv, e
  <2>2. session'.joined
    BY <2>1 DEF ClientTypeOK
  <2>3. auth'[k] # NoOne
    BY <1>1, <2>1
  <2> QED BY <1>1, <2>2, <2>3 DEF LoginAt
<1>8. CASE e.kind = "message"
  <2>1. UNCHANGED session
    BY <1>8 DEF Applies, e
  <2>2. OneAnswer(k) => OneAnswer(k)'
    <3>1. \A i, j \in DOMAIN incoming' : i + 1 = j + 1 => i = j
      BY <1>3
    <3> QED BY <1>1, <1>3, <1>5, <1>6, <2>1, <3>1 DEF OneAnswer
  <2>3. YesQueued(k) => YesQueued(k)'
    <3> SUFFICES ASSUME NEW i \in DOMAIN incoming,
                        incoming[i].kind = "auth", incoming[i].conn = k,
                        \A j \in DOMAIN incoming : j < i => ~Frees(k, j)
                 PROVE  YesQueued(k)'
      BY DEF YesQueued
    <3>1. i - 1 \in DOMAIN incoming' /\ incoming'[i - 1] = incoming[i] /\ i \in Nat
      BY <1>2, <1>4, <1>8
    <3>2. \A j \in DOMAIN incoming' : j < i - 1 => j + 1 < i
      BY <1>3, <3>1
    <3> QED BY <1>3, <1>5, <3>1, <3>2 DEF YesQueued
  <2>4. (YesUnread(k) => YesUnread(k)') /\ (YesInHand(k) => YesInHand(k)')
    BY <1>1, <1>5, <1>6 DEF YesUnread, YesInHand
  <2> QED BY <1>1, <2>1, <2>2, <2>3, <2>4 DEF LoginAt
<1>9. CASE e.kind = "status"
  <2>1. Frees(k, 1)
    BY <1>1, <1>2, <1>9 DEF Frees
  <2>2. ~Down(e)
    BY <1>1, <1>2 DEF EventInv
  <2>3. session' = Troubled(session)
    BY <1>9, <2>2 DEF Applies, Down, e
  <2>4. session'.joined = session.joined
    BY <2>3, SessionParts
  <2>5. ~NothingFrees(k) /\ ~YesQueued(k)
    <3>1. ASSUME NEW i \in DOMAIN incoming, incoming[i].kind = "auth" PROVE i > 1
      BY <1>2, <1>4, <1>9, <3>1
    <3> QED BY <1>2, <2>1, <3>1 DEF NothingFrees, YesQueued
  <2>6. ASSUME auth[k] = NoOne PROVE OneAnswer(k)'
    <3>1. OneAnswer(k)
      BY <2>6 DEF LoginAt
    <3>2. /\ ~(served[k] < Len(asked[k])) /\ ~Busy(k)
          /\ \A i \in Unread(k) : ~Refusal(k, i)
      BY <2>5, <3>1 DEF OneAnswer
    <3>3. \A i \in DOMAIN incoming' : ~Frees(k, i)'
      <4>1. \A i \in DOMAIN incoming' : i + 1 # 1
        BY <1>3
      <4> QED BY <1>2, <1>3, <1>5, <2>1, <3>1, <4>1 DEF OneAnswer
    <3> QED BY <1>1, <1>5, <3>2, <3>3 DEF OneAnswer
  <2> QED BY <1>1, <2>4, <2>5, <2>6 DEF LoginAt, YesUnread, YesInHand
<1>10. e.kind \in {"message", "auth", "status"}
  BY <1>2, QueueTyped
<1> QED BY <1>7, <1>8, <1>9, <1>10

(* The window frees the form with the answer, and with nothing else. *)
LEMMA LoginUiStep ==
  ASSUME ClientInv, NameInv, LoginInv, Ui, ~stale'
  PROVE  LoginInv'
<1> USE DEF ClientInv, Others
<1> SUFFICES ASSUME NEW k \in Conns, link'[k] = "up" PROVE LoginAt(k)'
  BY DEF LoginInv
<1>1. ASSUME link[k] = "up", UNCHANGED <<session, reader, got, incoming, asked, served, auth, wire>>
      PROVE  LoginAt(k)'
  <2>1. LoginAt(k)
    BY <1>1 DEF LoginInv
  <2>2. (Busy(k)' <=> Busy(k)) /\ (HoldsYes(k)' <=> HoldsYes(k))
    BY <1>1 DEF Busy, HoldsYes, Has, InHand
  <2> QED BY <1>1, <2>1, <2>2, FormKept
<1>2. CASE Stays \/ Writes
  BY <1>1, <1>2 DEF Stays, Writes
<1>3. CASE Applies
  BY <1>3, LoginApplies DEF Applies, LoginInv
<1>4. CASE HangsUp
  <2>1. link[k] = "up" \/ link'[k] = "shut"
    BY <1>4 DEF HangsUp, Shut, ClientTypeOK
  <2>2. k = client /\ client # 0
    BY <2>1, UpIsCurrent DEF Conns
  <2>3. link'[k] = "shut"
    BY <1>4, <2>2 DEF HangsUp, Shut, ClientTypeOK
  <2> QED BY <2>3
<1>5. CASE GivesUp
  BY <1>5 DEF GivesUp, ConnInv
<1>6. ASSUME NEW n \in Conns, Connects(n) PROVE LoginAt(k)'
  <2>1. k = n /\ Fresh(n)
    BY <1>6 DEF Connects, ConnInv
  <2>2. /\ Len(asked'[k]) = 0 /\ served'[k] \in Nat /\ auth'[k] = NoOne
        /\ Len(wire'[k]) = 1 /\ wire'[k][1].kind = "system"
    <3>1. /\ asked'[k] = <<>> /\ auth'[k] = NoOne /\ served'[k] = served[k]
          /\ wire'[k] = <<[kind |-> "system"]>>
      BY <1>6, <2>1 DEF Connects, Fresh
    <3>2. PICK p : p = [kind |-> "system"]
      OBVIOUS
    <3>3. wire'[k] = <<p>> /\ p.kind = "system"
      BY <3>1, <3>2
    <3>4. served[k] \in Nat
      BY DEF ClientTypeOK
    <3> QED BY <3>1, <3>3, <3>4
  <2>3. ~Busy(k)'
    BY <1>6, <2>1, StatesTyped DEF Connects, Busy, Has
  <2>4. \A i \in Unread(k)' : ~Refusal(k, i)'
    <3>1. got'[k] \in Nat
      BY <1>6 DEF Connects, ClientTypeOK
    <3> QED BY <2>2, <3>1 DEF Unread, Refusal
  <2>5. \A i \in DOMAIN incoming' : ~Frees(k, i)'
    <3>1. ASSUME NEW i \in DOMAIN incoming PROVE incoming[i].conn # n
      <4>1. incoming[i].conn <= token /\ incoming[i].conn \in Conns
        BY QueueTyped DEF EventInv
      <4>2. n > token /\ token \in Conns \cup {0}
        BY <1>6 DEF Connects, ClientTypeOK
      <4> QED BY <4>1, <4>2 DEF Conns
    <3> QED BY <1>6, <2>1, <3>1 DEF Connects, Frees
  <2> QED BY <2>2, <2>3, <2>4, <2>5 DEF LoginAt, OneAnswer
<1>7. ASSUME NEW a \in Accounts, Asks(a) PROVE LoginAt(k)'
  <2>1. /\ k = client /\ auth[k] = NoOne /\ served[k] = Len(asked[k])
        /\ NoRefusal(k) /\ ~Busy(k) /\ NothingFrees(k)
    <3>1. k = client
      BY <1>7, UpIsCurrent DEF Asks
    <3> QED BY <1>7, <3>1, FreeForm DEF Asks
  <2>2. /\ UNCHANGED <<reader, got, incoming, served, auth, wire>> /\ session'.loading
        /\ asked'[k] = Append(asked[k], a)
    BY <1>7, <2>1, SessionParts DEF Asks, ClientTypeOK
  <2>3. Len(asked'[k]) = served[k] + 1 /\ served[k] \in Nat
    BY <2>1, <2>2 DEF ClientTypeOK
  <2>4. ~Busy(k)' /\ NoRefusal(k)' /\ NothingFrees(k)'
    BY <2>1, <2>2 DEF Busy, Has, InHand, NoRefusal, Refusal, Unread, NothingFrees, Frees
  <2> QED BY <2>1, <2>2, <2>3, <2>4 DEF LoginAt, OneAnswer, NoRefusal, NothingFrees
<1>8. ASSUME NEW a \in Accounts, AsksInVain(a) PROVE LoginAt(k)'
  <2>1. link[k] = "up" /\ k = client /\ client # 0
    BY <1>8, UpIsCurrent DEF AsksInVain, Conns
  <2> QED BY <1>8, <2>1 DEF AsksInVain, Connected
<1> QED BY <1>2, <1>3, <1>4, <1>5, <1>6, <1>7, <1>8, UiMoves

(* The server answers, tells the news, or the connection breaks. *)
LEMMA LoginOutsideStep ==
  ASSUME ClientInv, WireInv, LoginInv, NEW j \in Conns, Outside(j)
  PROVE  LoginInv'
<1> USE DEF ClientInv
<1> SUFFICES ASSUME NEW k \in Conns, link'[k] = "up" PROVE LoginAt(k)'
  BY DEF LoginInv
<1>1. UNCHANGED <<client, session, incoming, reader, got, asked>>
  BY OutsideFrame
<1>2. CASE Crashes \/ Breaks(j)
  <2>1. link[k] = "up" /\ UNCHANGED <<served, auth, wire>>
    BY <1>2 DEF Crashes, Breaks, ClientTypeOK
  <2>2. (Busy(k)' <=> Busy(k)) /\ (HoldsYes(k)' <=> HoldsYes(k))
    BY <1>1, <2>1 DEF Busy, HoldsYes, Has, InHand
  <2> QED BY <1>1, <2>1, <2>2, FormKept DEF LoginInv
<1>3. ASSUME NEW ps \in Seq(Packet), Says(j, ps), link[j] = "up"
      PROVE  /\ k = j /\ LoginAt(k)
             /\ Busy(k)' <=> Busy(k)
             /\ HoldsYes(k)' <=> HoldsYes(k)
             /\ NothingFrees(k)' <=> NothingFrees(k)
             /\ \A i : Frees(k, i)' <=> Frees(k, i)
             /\ \A i \in Unread(k) : i \in Unread(k)' /\ wire'[k][i] = wire[k][i]
             /\ \A i \in Unread(k)' : \/ i \in Unread(k)
                                     \/ /\ i - Len(wire[k]) \in 1..Len(ps)
                                        /\ wire'[k][i] = ps[i - Len(wire[k])]
             /\ got[k] \in Nat /\ got[k] <= Len(wire[k]) /\ Len(wire[k]) \in Nat
  <2>1. k = j /\ LoginAt(k)
    BY <1>3, Said, UpIsCurrent DEF LoginInv
  <2>2. /\ got[k] \in Nat /\ got[k] <= Len(wire[k]) /\ Len(wire[k]) \in Nat
        /\ Len(wire'[k]) = Len(wire[k]) + Len(ps) /\ Len(ps) \in Nat
    BY <1>3, <2>1, Said DEF ConnInv, ClientTypeOK
  <2>3. reader[k].at = "handle" => InHand(k)' = InHand(k)
    <3>1. reader[k].at = "handle" => got[k] \in 1..Len(wire[k])
      BY <2>2 DEF ConnInv
    <3> QED BY <1>1, <1>3, <2>1, <3>1, Said DEF InHand
  <2>4. (Busy(k)' <=> Busy(k)) /\ (HoldsYes(k)' <=> HoldsYes(k))
    BY <1>1, <2>3 DEF Busy, HoldsYes, Has
  <2>5. (NothingFrees(k)' <=> NothingFrees(k)) /\ \A i : Frees(k, i)' <=> Frees(k, i)
    BY <1>1 DEF NothingFrees, Frees
  <2>6. \A i \in Unread(k) : i \in 1..Len(wire[k]) /\ i \in Unread(k)'
    BY <1>1, <2>2 DEF Unread
  <2>7. \A i \in Unread(k)' : i \in 1..Len(wire'[k]) /\ i > got[k]
    BY <1>1, <2>2 DEF Unread
  <2>8. \A i \in Unread(k)' : i \in 1..Len(wire[k]) => i \in Unread(k)
    BY <2>2, <2>7 DEF Unread
  <2>9. \A i \in 1..Len(wire[k]) : wire'[k][i] = wire[k][i]
    BY <1>3, <2>1, Said
  <2>10. \A i \in Unread(k)' : \/ i \in Unread(k)
                                \/ /\ i - Len(wire[k]) \in 1..Len(ps)
                                   /\ wire'[k][i] = ps[i - Len(wire[k])]
    BY <1>3, <2>1, <2>7, <2>8, SaidPackets
  <2> QED BY <2>1, <2>2, <2>4, <2>5, <2>6, <2>9, <2>10
<1>4. CASE Refuses(j)
  <2> PICK ps \in Seq(Packet) : ps = <<[kind |-> "error"]>>
    BY ErrorSeq
  <2>1. Says(j, ps) /\ UNCHANGED auth /\ served' = [served EXCEPT ![j] = @ + 1]
        /\ Len(ps) = 1 /\ ps[1].kind = "error" /\ link[j] = "up"
    BY <1>4, Waiting, ErrorSeq DEF Refuses
  <2>2. /\ auth[k] = NoOne /\ OneAnswer(k) /\ k = j
        /\ served'[k] = Len(asked[k]) /\ served'[k] \in Nat
    <3>1. k = j
      BY <1>3, <2>1
    <3>2. Pending(j)
      BY <1>4 DEF Refuses
    <3>3. /\ auth[j] = NoOne /\ OneAnswer(j) /\ served[j] + 1 = Len(asked[j]) /\ served[j] \in Nat
      BY <3>2, Waiting
    <3>4. served'[j] = served[j] + 1
      BY <2>1 DEF ClientTypeOK
    <3> QED BY <3>1, <3>3, <3>4
  <2>3. session.loading /\ NoRefusal(k) /\ ~Busy(k) /\ NothingFrees(k)
    <3>1. served[k] < Len(asked[k])
      BY <1>4, <2>2 DEF Refuses, Pending
    <3> QED BY <2>2, <3>1 DEF OneAnswer
  <2>4. \A i \in Unread(k)' : Refusal(k, i)' => i = Len(wire[k]) + 1
    <3> SUFFICES ASSUME NEW i \in Unread(k)', Refusal(k, i)', i # Len(wire[k]) + 1 PROVE FALSE
      OBVIOUS
    <3>1. ~(i - Len(wire[k]) \in 1..Len(ps))
      BY <1>3, <2>1 DEF Unread
    <3>2. i \in Unread(k) /\ wire'[k][i] = wire[k][i]
      BY <1>3, <2>1, <3>1
    <3> QED BY <2>3, <3>2 DEF NoRefusal, Refusal
  <2>5. OneAnswer(k)'
    <3>1. ~Busy(k)' /\ NothingFrees(k)' /\ ~(served'[k] < Len(asked'[k])) /\ session'.loading
      <4>1. (Busy(k)' <=> Busy(k)) /\ (NothingFrees(k)' <=> NothingFrees(k))
        BY <1>3, <2>1
      <4>2. asked'[k] = asked[k] /\ session' = session
        BY <1>1
      <4> QED BY <2>2, <2>3, <4>1, <4>2
    <3> QED BY <1>1, <2>4, <3>1 DEF OneAnswer, NothingFrees
  <2> QED BY <1>1, <2>1, <2>2, <2>5 DEF LoginAt
<1>5. ASSUME NEW u \in Accounts, NEW ps \in Welcomes(u), Welcomed(j, u, ps) PROVE LoginAt(k)'
  <2>1. Says(j, ps) /\ ps \in Seq(Packet) /\ link[j] = "up" /\ Len(ps) > 0
        /\ ps[1].kind = "auth_ok"
    <3>1. Says(j, ps) /\ Pending(j)
      BY <1>5 DEF Welcomed
    <3>2. ps \in Seq(Packet) /\ Len(ps) > 0
      BY WelcomeForm
    <3>3. ps[1] = [kind |-> "auth_ok", user |-> u]
      BY WelcomeForm
    <3>4. link[j] = "up"
      BY <3>1 DEF Pending
    <3> QED BY <3>1, <3>2, <3>3, <3>4
  <2>2. /\ auth[k] = NoOne /\ k = j /\ auth'[k] = u
        /\ served'[k] = Len(asked[k]) /\ served'[k] \in Nat
        /\ session.loading /\ NoRefusal(k) /\ ~Busy(k) /\ NothingFrees(k)
    <3>1. k = j
      BY <1>3, <2>1
    <3>2. Pending(j) /\ auth' = [auth EXCEPT ![j] = u] /\ served' = [served EXCEPT ![j] = @ + 1]
      BY <1>5 DEF Welcomed
    <3>3. /\ auth[j] = NoOne /\ OneAnswer(j) /\ served[j] + 1 = Len(asked[j]) /\ served[j] \in Nat
      BY <3>2, Waiting
    <3>4. served'[j] = served[j] + 1 /\ auth'[j] = u
      BY <3>2 DEF ClientTypeOK
    <3>5. session.loading /\ NoRefusal(j) /\ ~Busy(j) /\ NothingFrees(j)
      BY <3>2, <3>3 DEF Pending, OneAnswer
    <3>6. served'[j] = Len(asked[j]) /\ served'[j] \in Nat
      BY <3>3, <3>4
    <3> QED BY <3>1, <3>3, <3>4, <3>5, <3>6
  <2>3. YesUnread(k)'
    <3> PICK n : n = Len(wire[k]) + 1
      OBVIOUS
    <3>1. n \in Unread(k)' /\ wire'[k][n].kind = "auth_ok"
      BY <1>1, <1>3, <2>1, <2>2, Said DEF Unread
    <3>2. ASSUME NEW i \in Unread(k)', i < n PROVE wire'[k][i].kind = "system"
      <4>1. i \in Unread(k) /\ i \in 1..Len(wire[k]) /\ wire'[k][i] = wire[k][i]
        BY <1>1, <1>3, <2>1, <3>2 DEF Unread
      <4>2. wire[k][i].kind \in {"system", "error"} /\ wire[k][i].kind # "error"
        BY <2>2, <4>1 DEF WireInv, Meant, NoRefusal, Refusal
      <4> QED BY <4>1, <4>2
    <3> QED BY <1>3, <2>1, <2>2, <3>1, <3>2 DEF YesUnread
  <2> QED BY <1>1, <2>2, <2>3 DEF LoginAt
<1>6. ASSUME NEW p \in Packet, Told(j, p) PROVE LoginAt(k)'
  <2>1. Says(j, <<p>>) /\ <<p>> \in Seq(Packet) /\ link[j] = "up" /\ Len(<<p>>) = 1
        /\ UNCHANGED <<served, auth>> /\ auth[j] # NoOne
    BY <1>6 DEF Told
  <2>2. ASSUME YesUnread(k) PROVE YesUnread(k)'
    <3>1. PICK i \in Unread(k) :
            /\ wire[k][i].kind = "auth_ok"
            /\ \A m \in Unread(k) : m < i => wire[k][m].kind = "system"
      BY <2>2 DEF YesUnread
    <3>2. ASSUME NEW m \in Unread(k)', m < i PROVE wire'[k][m].kind = "system"
      <4>1. m \in Unread(k)
        BY <1>1, <1>3, <2>1, <3>2 DEF Unread
      <4> QED BY <1>3, <2>1, <3>1, <3>2, <4>1
    <3> QED BY <1>3, <2>1, <2>2, <3>1, <3>2 DEF YesUnread
  <2>3. /\ YesInHand(k) => YesInHand(k)'
        /\ YesQueued(k) => YesQueued(k)'
    BY <1>1, <1>3, <2>1 DEF YesInHand, YesQueued
  <2> QED BY <1>1, <1>3, <2>1, <2>2, <2>3 DEF LoginAt
<1> QED BY <1>2, <1>4, <1>5, <1>6, OutsideMoves

-----------------------------------------------------------------------------
(* The chat: every line once, in the server's order.                        *)

(* A readLoop has passed on no more than it has read. *)
LEMMA HandedTyped ==
  ASSUME ClientTypeOK, ConnInv, NEW k \in Conns, OrderAt(k)
  PROVE  Handed(k) \in Nat /\ Handed(k) <= got[k] /\ got[k] \in Nat
<1>1. got[k] \in Nat /\ (reader[k].at = "handle" => got[k] > 0)
  BY DEF ClientTypeOK, ConnInv
<1>2. Has(k, "message") => got[k] > 0
  BY DEF OrderAt
<1> QED BY <1>1, <1>2 DEF Handed

(* A line of the chat is that of a connection, or was typed in. *)
LEMMA LineTyped ==
  ASSUME ClientTypeOK, NEW i \in DOMAIN chat
  PROVE  chat[i][1] \in Conns \cup {0} /\ chat[i][2] \in Nat
<1>1. chat[i] \in (Conns \cup {0}) \X Nat
  BY DEF ClientTypeOK
<1> QED BY <1>1

(* As long as the readLoop does not go back, nothing that is behind moves.  *)
LEMMA OrderKept ==
  ASSUME ClientTypeOK, ConnInv, NEW k \in Conns, OrderAt(k), UNCHANGED chat,
         Handed(k) <= Handed(k)', Handed(k)' \in Nat,
         Has(k, "message")' => reader'[k].event.nth = got'[k] /\ got'[k] > 0,
         UNCHANGED incoming
           \/ /\ \A i \in DOMAIN incoming : i \in DOMAIN incoming' /\ incoming'[i] = incoming[i]
              /\ \A i \in DOMAIN incoming' : Shown(k, i)' => i \in DOMAIN incoming
  PROVE  OrderAt(k)'
<1>1. /\ \A i \in DOMAIN incoming : i \in DOMAIN incoming' /\ incoming'[i] = incoming[i]
      /\ \A i \in DOMAIN incoming' : Shown(k, i)' => i \in DOMAIN incoming /\ Shown(k, i)
  BY DEF Shown
<1>2. Handed(k) \in Nat
  BY HandedTyped
<1>3. \A i \in DOMAIN chat : chat[i][2] \in Nat
  BY LineTyped
<1>4. \A i \in DOMAIN incoming : Shown(k, i) => incoming[i].nth \in Nat
  BY QueueTyped DEF Shown
<1>5. \A i \in DOMAIN chat' : chat'[i][1] = k =>
         /\ chat'[i][2] <= Handed(k)'
         /\ \A j \in DOMAIN chat' :
              i < j /\ chat'[j][1] = k /\ chat'[j][2] # 0 => chat'[i][2] < chat'[j][2]
  BY <1>2, <1>3 DEF OrderAt
<1>6. \A i \in DOMAIN incoming' : Shown(k, i)' =>
         /\ incoming'[i].nth > 0 /\ incoming'[i].nth <= Handed(k)'
         /\ \A j \in DOMAIN chat' : chat'[j][1] = k => chat'[j][2] < incoming'[i].nth
         /\ \A j \in DOMAIN incoming' :
              i < j /\ Shown(k, j)' => incoming'[i].nth < incoming'[j].nth
  BY <1>1, <1>2, <1>4 DEF OrderAt
<1> QED BY <1>5, <1>6 DEF OrderAt

(* A readLoop puts a packet behind all the earlier ones. *)
LEMMA OrderReaderStep ==
  ASSUME ClientInv, OrderInv, NEW j \in Conns, ReadLoop(j)
  PROVE  OrderInv'
<1> USE DEF ClientInv
<1>1. /\ UNCHANGED <<token, chat>>
      /\ \A k \in Conns : k # j => reader'[k] = reader[k] /\ got'[k] = got[k]
  BY ReaderFrame
<1> SUFFICES ASSUME NEW k \in Conns PROVE OrderAt(k)'
  BY DEF OrderInv
<1>2. /\ OrderAt(k) /\ got[k] \in Nat /\ Handed(k) \in Nat /\ Handed(k) <= got[k]
      /\ reader[k].at = "handle" => got[k] > 0
  BY HandedTyped DEF OrderInv, ConnInv
<1>3. CASE j # k
  <2>1. /\ reader'[k] = reader[k] /\ got'[k] = got[k] /\ Handed(k)' = Handed(k)
        /\ Has(k, "message")' <=> Has(k, "message")
    BY <1>1, <1>3 DEF Handed, Has
  <2>2. \/ UNCHANGED incoming
        \/ /\ \A i \in DOMAIN incoming : i \in DOMAIN incoming' /\ incoming'[i] = incoming[i]
           /\ \A i \in DOMAIN incoming' : Shown(k, i)' => i \in DOMAIN incoming
    <3>1. CASE Pushes(j)
      <4>1. reader[j].event.conn # k
        BY <1>3, <3>1 DEF Pushes, EventInv
      <4>2. \A i \in DOMAIN incoming' :
              i \in DOMAIN incoming \/ incoming'[i] = reader[j].event
        BY <3>1, Pushed DEF Pushes
      <4> QED BY <3>1, <4>1, <4>2, Pushed DEF Pushes, Shown
    <3> QED BY <3>1, ReaderMoves DEF Reads, Ends, Shows, Admits, Ignores, Passes, Wakes
  <2>3. Has(k, "message")' => reader'[k].event.nth = got'[k] /\ got'[k] > 0
    BY <1>2, <2>1 DEF OrderAt
  <2> QED BY <1>1, <1>2, <2>1, <2>2, <2>3, OrderKept
<1>4. CASE j = k
  <2>1. ASSUME UNCHANGED incoming, got'[k] = got[k], ~Has(k, "message")',
               reader'[k].at # "handle"
        PROVE  OrderAt(k)'
    <3>1. Handed(k)' = got[k]
      BY <2>1 DEF Handed
    <3> QED BY <1>1, <1>2, <2>1, <3>1, OrderKept
  <2>2. CASE Reads(k)
    <3>1. Handed(k)' = got[k] /\ ~Has(k, "message")'
      BY <1>2, <2>2, StatesTyped DEF Reads, Handed, Has
    <3> QED BY <1>1, <1>2, <2>2, <3>1, OrderKept DEF Reads
  <2>3. CASE Ends(k)
    <3>1. /\ UNCHANGED incoming /\ got'[k] = got[k]
          /\ reader'[k].at = "emit" /\ reader'[k].event.kind = "status"
      BY <2>3, EventForms DEF Ends
    <3> QED BY <2>1, <3>1 DEF Has
  <2>4. CASE Admits(k)
    <3>1. /\ UNCHANGED incoming /\ got'[k] = got[k]
          /\ reader'[k].at = "emit" /\ reader'[k].event.kind = "auth"
      BY <2>4 DEF Admits, AuthEvent
    <3> QED BY <2>1, <3>1 DEF Has
  <2>5. CASE Ignores(k)
    <3>1. /\ UNCHANGED incoming /\ got'[k] = got[k]
          /\ reader'[k].at = "wake" \/ (reader'[k].at = "emit" /\ reader'[k].event.kind = "status")
      BY <2>5, EventForms, StatesTyped DEF Ignores
    <3> QED BY <2>1, <3>1 DEF Has
  <2>6. CASE Wakes(k)
    <3>1. /\ UNCHANGED incoming /\ got'[k] = got[k] /\ reader'[k].at \in {"read", "done"}
      BY <2>6, StatesTyped DEF Wakes
    <3> QED BY <2>1, <3>1 DEF Has
  <2>7. CASE Shows(k)
    <3>1. /\ UNCHANGED incoming /\ got'[k] = got[k] /\ reader[k].at = "handle"
          /\ reader'[k].at = "emit" /\ reader'[k].event.kind = "message"
          /\ reader'[k].event.nth = got[k]
      BY <2>7, EventForms DEF Shows
    <3>2. Handed(k)' = got[k] - 1 /\ Handed(k) = got[k] - 1 /\ got[k] > 0
      BY <1>2, <3>1 DEF Handed, Has
    <3> QED BY <1>1, <1>2, <3>1, <3>2, OrderKept
  <2>8. CASE Passes(k) /\ token = k
    <3>1. /\ UNCHANGED incoming /\ got'[k] = got[k] /\ reader[k].at = "emit"
          /\ reader'[k].at = "push" /\ reader'[k].event = reader[k].event
      BY <2>8, Emitting DEF Passes
    <3>2. Handed(k)' = Handed(k) /\ (Has(k, "message")' <=> Has(k, "message"))
      BY <3>1 DEF Handed, Has
    <3> QED BY <1>1, <1>2, <3>1, <3>2, OrderKept DEF OrderAt
  <2>9. CASE Passes(k) /\ token # k
    <3>1. UNCHANGED incoming /\ got'[k] = got[k] /\ reader'[k].at \in {"wake", "exit"}
      BY <2>9, StatesTyped DEF Passes
    <3> QED BY <2>1, <3>1 DEF Has
  <2>10. CASE Pushes(k)
    <3> PICK n : n = Len(incoming')
      OBVIOUS
    <3> DEFINE e == reader[k].event
    <3>1. /\ n = Len(incoming) + 1 /\ Len(incoming) \in Nat
          /\ DOMAIN incoming = 1..Len(incoming) /\ DOMAIN incoming' = 1..n
          /\ incoming'[n] = e /\ e \in Event
          /\ \A i \in DOMAIN incoming : incoming'[i] = incoming[i]
      BY <2>10, Pushed DEF Pushes
    <3>2. /\ \A i \in DOMAIN incoming' : i \in DOMAIN incoming \/ i = n
          /\ \A i \in DOMAIN incoming : i < n /\ i # n /\ i \in DOMAIN incoming'
          /\ n \in DOMAIN incoming'
      BY <3>1
    <3>3. /\ reader[k].at = "push" /\ reader'[k].at \in {"wake", "exit"}
          /\ got'[k] = got[k] /\ e.conn = k
      BY <2>10, StatesTyped DEF Pushes, EventInv
    <3>4. ~Has(k, "message")' /\ Handed(k)' = got[k]
      BY <3>3 DEF Has, Handed
    <3>5. CASE e.kind # "message"
      <4>1. \A i \in DOMAIN incoming' : Shown(k, i)' => i \in DOMAIN incoming
        BY <3>1, <3>2, <3>5 DEF Shown
      <4> QED BY <1>1, <1>2, <3>1, <3>2, <3>4, <4>1, OrderKept
    <3>6. CASE e.kind = "message"
      <4>1. /\ e.nth = got[k] /\ got[k] > 0 /\ Handed(k) = got[k] - 1
        BY <1>2, <3>3, <3>6 DEF OrderAt, Has, Handed
      <4>2. /\ \A i \in DOMAIN incoming : Shown(k, i)' <=> Shown(k, i)
            /\ \A i \in DOMAIN incoming : Shown(k, i) =>
                 incoming[i].nth \in Nat /\ incoming[i].nth < got[k]
        <5>1. \A i \in DOMAIN incoming : Shown(k, i) =>
                incoming[i].nth \in Nat /\ incoming[i].nth <= got[k] - 1
          BY <1>2, <4>1, QueueTyped DEF OrderAt, Shown
        <5> QED BY <1>2, <3>1, <5>1 DEF Shown
      <4>3. \A i \in DOMAIN chat : chat[i][1] = k => chat[i][2] \in Nat /\ chat[i][2] < got[k]
        <5>1. \A i \in DOMAIN chat : chat[i][1] = k =>
                chat[i][2] \in Nat /\ chat[i][2] <= got[k] - 1
          BY <1>2, <4>1, LineTyped DEF OrderAt
        <5> QED BY <1>2, <5>1
      <4> HIDE DEF e
      <4>4. \A i \in DOMAIN chat' : chat'[i][1] = k =>
               /\ chat'[i][2] <= Handed(k)'
               /\ \A m \in DOMAIN chat' :
                    i < m /\ chat'[m][1] = k /\ chat'[m][2] # 0 => chat'[i][2] < chat'[m][2]
        BY <1>1, <1>2, <3>4, <4>3 DEF OrderAt
      <4>5. ASSUME NEW i \in DOMAIN incoming', Shown(k, i)'
            PROVE  /\ incoming'[i].nth > 0 /\ incoming'[i].nth <= Handed(k)'
                   /\ \A m \in DOMAIN chat' : chat'[m][1] = k => chat'[m][2] < incoming'[i].nth
                   /\ \A m \in DOMAIN incoming' :
                        i < m /\ Shown(k, m)' => incoming'[i].nth < incoming'[m].nth
        <5>1. CASE i = n
          <6>1. \A m \in DOMAIN incoming' : ~(n < m)
            BY <3>1
          <6> QED BY <1>1, <1>2, <3>1, <3>4, <4>1, <4>3, <5>1, <6>1
        <5>2. CASE i \in DOMAIN incoming
          <6>1. Shown(k, i) /\ incoming'[i] = incoming[i]
            BY <3>1, <4>2, <4>5, <5>2
          <6>2. \A m \in DOMAIN incoming' :
                  i < m /\ Shown(k, m)' => incoming'[i].nth < incoming'[m].nth
            BY <1>2, <3>1, <3>2, <4>1, <4>2, <6>1 DEF OrderAt
          <6> QED BY <1>1, <1>2, <3>4, <4>2, <5>2, <6>1, <6>2 DEF OrderAt
        <5> QED BY <3>2, <5>1, <5>2
      <4> QED BY <3>4, <4>4, <4>5 DEF OrderAt
    <3> QED BY <3>5, <3>6
  <2> QED BY <1>4, <2>2, <2>3, <2>4, <2>5, <2>6, <2>7, <2>8, <2>9, <2>10, ReaderMoves
<1> QED BY <1>3, <1>4

(* One more line behind the chat, typed in or taken from the channel.        *)
LEMMA Lengthened ==
  ASSUME ClientTypeOK, NEW l \in (Conns \cup {0}) \X Nat, chat' = Append(chat, l)
  PROVE  \E n \in DOMAIN chat' :
           /\ chat'[n] = l
           /\ \A i \in DOMAIN chat' : i = n \/ i \in DOMAIN chat
           /\ \A i \in DOMAIN chat : /\ i \in DOMAIN chat' /\ chat'[i] = chat[i]
                                     /\ i < n /\ ~(n < i)
           /\ ~(n < n)
<1>1. chat \in Seq((Conns \cup {0}) \X Nat)
  BY DEF ClientTypeOK
<1> DEFINE n == Len(chat) + 1
<1>2. /\ Len(chat) \in Nat /\ DOMAIN chat = 1..Len(chat) /\ DOMAIN chat' = 1..n
      /\ chat'[n] = l /\ \A i \in DOMAIN chat : chat'[i] = chat[i]
  BY <1>1
<1>3. /\ n \in DOMAIN chat' /\ ~(n < n)
      /\ \A i \in DOMAIN chat' : i = n \/ i \in DOMAIN chat
      /\ \A i \in DOMAIN chat : i \in DOMAIN chat' /\ i < n /\ ~(n < i)
  BY <1>2
<1> QED BY <1>2, <1>3

(* A line that is typed in is number 0 and bounds nothing. *)
LEMMA OrderWrites ==
  ASSUME ClientInv, NEW k \in Conns, OrderAt(k), Writes
  PROVE  OrderAt(k)'
<1> USE DEF ClientInv
<1>1. /\ UNCHANGED <<incoming, reader, got>> /\ chat' = Append(chat, Own)
      /\ Own \in (Conns \cup {0}) \X Nat /\ Own[2] = 0
  BY DEF Writes, Others, Own, ClientTypeOK
<1>2. /\ Handed(k)' = Handed(k) /\ Handed(k) \in Nat
      /\ (Has(k, "message")' <=> Has(k, "message"))
      /\ \A i \in DOMAIN incoming : Shown(k, i)' <=> Shown(k, i)
  BY <1>1, HandedTyped DEF Handed, Has, Shown
<1>3. PICK n \in DOMAIN chat' :
           /\ chat'[n] = Own
           /\ \A i \in DOMAIN chat' : i = n \/ i \in DOMAIN chat
           /\ \A i \in DOMAIN chat : /\ i \in DOMAIN chat' /\ chat'[i] = chat[i]
                                     /\ i < n /\ ~(n < i)
           /\ ~(n < n)
  BY <1>1, Lengthened
<1>4. \A i \in DOMAIN chat' : chat'[i][1] = k =>
         /\ chat'[i][2] <= Handed(k)'
         /\ \A j \in DOMAIN chat' :
              i < j /\ chat'[j][1] = k /\ chat'[j][2] # 0 => chat'[i][2] < chat'[j][2]
  BY <1>1, <1>2, <1>3 DEF OrderAt
<1>5. \A i \in DOMAIN incoming' : Shown(k, i)' =>
         /\ incoming'[i].nth > 0 /\ incoming'[i].nth <= Handed(k)'
         /\ \A j \in DOMAIN chat' : chat'[j][1] = k => chat'[j][2] < incoming'[i].nth
         /\ \A j \in DOMAIN incoming' :
              i < j /\ Shown(k, j)' => incoming'[i].nth < incoming'[j].nth
  BY <1>1, <1>2, <1>3 DEF OrderAt
<1> QED BY <1>1, <1>2, <1>4, <1>5 DEF OrderAt

(* The first event that is waiting becomes the last line. *)
LEMMA OrderApplies ==
  ASSUME ClientInv, NEW k \in Conns, OrderAt(k), Applies
  PROVE  OrderAt(k)'
<1> USE DEF ClientInv
<1>1. /\ UNCHANGED <<reader, got>> /\ incoming # <<>> /\ incoming' = Tail(incoming)
  BY DEF Applies, Others
<1>2. /\ Handed(k)' = Handed(k) /\ Handed(k) \in Nat
      /\ (Has(k, "message")' <=> Has(k, "message"))
  BY <1>1, HandedTyped DEF Handed, Has
<1>3. /\ 1 \in DOMAIN incoming /\ Head(incoming) = incoming[1]
      /\ \A i \in DOMAIN incoming' : /\ i + 1 \in DOMAIN incoming
                                     /\ incoming'[i] = incoming[i + 1]
                                     /\ i \in Nat /\ 1 < i + 1
  BY <1>1, Applied
<1>4. \A i \in DOMAIN incoming' : Shown(k, i)' => Shown(k, i + 1)
  BY <1>3 DEF Shown
<1>5. \A i \in DOMAIN incoming' : Shown(k, i)' =>
         /\ incoming'[i].nth > 0 /\ incoming'[i].nth <= Handed(k)'
         /\ \A j \in DOMAIN chat : chat[j][1] = k => chat[j][2] < incoming'[i].nth
         /\ \A j \in DOMAIN incoming' :
              i < j /\ Shown(k, j)' => incoming'[i].nth < incoming'[j].nth
  <2> SUFFICES ASSUME NEW i \in DOMAIN incoming', Shown(k, i)'
               PROVE  /\ incoming'[i].nth > 0 /\ incoming'[i].nth <= Handed(k)'
                      /\ \A j \in DOMAIN chat : chat[j][1] = k => chat[j][2] < incoming'[i].nth
                      /\ \A j \in DOMAIN incoming' :
                           i < j /\ Shown(k, j)' => incoming'[i].nth < incoming'[j].nth
    OBVIOUS
  <2>1. \A j \in DOMAIN incoming' : i < j /\ Shown(k, j)' =>
          i + 1 < j + 1 /\ Shown(k, j + 1) /\ incoming'[j] = incoming[j + 1]
    BY <1>3, <1>4
  <2> QED BY <1>2, <1>3, <1>4, <2>1 DEF OrderAt
<1>6. CASE UNCHANGED chat
  BY <1>2, <1>1, <1>5, <1>6 DEF OrderAt
<1>7. CASE /\ Head(incoming).kind = "message"
           /\ chat' = Append(chat, <<Head(incoming).conn, Head(incoming).nth>>)
  <2> DEFINE c == incoming[1].conn
             m == incoming[1].nth
  <2>1. c \in Conns /\ m \in Nat /\ <<c, m>> \in (Conns \cup {0}) \X Nat
    BY <1>3, <1>7, QueueTyped
  <2>2. chat' = Append(chat, <<c, m>>) /\ (c = k => Shown(k, 1))
    BY <1>3, <1>7 DEF Shown
  <2>3. /\ c = k => /\ m > 0 /\ m <= Handed(k)
                    /\ \A j \in DOMAIN chat : chat[j][1] = k => chat[j][2] < m
                    /\ \A j \in DOMAIN incoming' : Shown(k, j)' => m < incoming'[j].nth
    BY <1>3, <1>4, <2>2 DEF OrderAt
  <2> HIDE DEF c, m
  <2>4. PICK n \in DOMAIN chat' :
           /\ chat'[n] = <<c, m>>
           /\ \A i \in DOMAIN chat' : i = n \/ i \in DOMAIN chat
           /\ \A i \in DOMAIN chat : /\ i \in DOMAIN chat' /\ chat'[i] = chat[i]
                                     /\ i < n /\ ~(n < i)
           /\ ~(n < n)
    BY <2>1, <2>2, Lengthened
  <2>5. chat'[n][1] = c /\ chat'[n][2] = m
    BY <2>4
  <2>6. \A i \in DOMAIN chat' : chat'[i][1] = k =>
           /\ chat'[i][2] <= Handed(k)'
           /\ \A j \in DOMAIN chat' :
                i < j /\ chat'[j][1] = k /\ chat'[j][2] # 0 => chat'[i][2] < chat'[j][2]
    BY <1>2, <2>3, <2>4, <2>5 DEF OrderAt
  <2>7. \A i \in DOMAIN incoming' : Shown(k, i)' =>
           \A j \in DOMAIN chat' : chat'[j][1] = k => chat'[j][2] < incoming'[i].nth
    BY <1>5, <2>3, <2>4, <2>5
  <2> QED BY <1>1, <1>2, <1>5, <2>6, <2>7 DEF OrderAt
<1> QED BY <1>6, <1>7 DEF Applies

(* The UI goroutine keeps the order of the chat and of the channel. *)
LEMMA OrderUiStep ==
  ASSUME ClientInv, OrderInv, Ui
  PROVE  OrderInv'
<1> USE DEF ClientInv
<1> SUFFICES ASSUME NEW k \in Conns PROVE OrderAt(k)'
  BY DEF OrderInv
<1>1. OrderAt(k) /\ Handed(k) \in Nat /\ got[k] \in Nat
  BY HandedTyped DEF OrderInv
<1>2. ASSUME UNCHANGED <<chat, incoming, got, reader>> PROVE OrderAt(k)'
  BY <1>1, <1>2 DEF OrderAt, Handed, Has, Shown
<1>3. CASE Stays \/ GivesUp
  BY <1>2, <1>3 DEF Stays, GivesUp, Others
<1>4. ASSUME NEW a \in Accounts, Asks(a) \/ AsksInVain(a) PROVE OrderAt(k)'
  BY <1>2, <1>4 DEF Asks, AsksInVain, Others
<1>5. CASE HangsUp
  <2>1. CASE UNCHANGED chat
    BY <1>2, <1>5, <2>1 DEF HangsUp, Others
  <2>2. CASE chat' = <<>>
    <3>1. DOMAIN chat' = {} /\ UNCHANGED <<incoming, got, reader>>
      BY <1>5, <2>2 DEF HangsUp, Others
    <3> QED BY <1>1, <3>1 DEF OrderAt, Handed, Has, Shown
  <2> QED BY <1>5, <2>1, <2>2 DEF HangsUp
<1>6. ASSUME NEW n \in Conns, Connects(n) PROVE OrderAt(k)'
  <2>1. UNCHANGED <<chat, incoming, got>>
    BY <1>6 DEF Connects
  <2>2. CASE k = n
    <3>1. Fresh(k) /\ reader'[k] = At("read")
      BY <1>6, <2>2 DEF Connects, ConnInv
    <3>2. ~Has(k, "message")' /\ Handed(k)' = got[k] /\ Handed(k) = got[k]
      BY <2>1, <3>1, StatesTyped DEF Handed, Has, Fresh
    <3> QED BY <1>1, <2>1, <3>2, OrderKept
  <2>3. CASE k # n
    <3>1. reader'[k] = reader[k]
      BY <1>6, <2>3 DEF Connects
    <3> QED BY <1>1, <2>1, <3>1 DEF OrderAt, Handed, Has, Shown
  <2> QED BY <2>2, <2>3
<1> QED BY <1>1, <1>3, <1>4, <1>5, <1>6, OrderWrites, OrderApplies, UiMoves

(* The other end adds to the wire, of which the order does not speak.       *)
LEMMA OrderOutsideStep ==
  ASSUME ClientInv, OrderInv, NEW k \in Conns, Outside(k)
  PROVE  OrderInv'
BY OutsideFrame DEF ClientInv, OrderInv, OrderAt, Handed, Has, Shown

-----------------------------------------------------------------------------
(* Nothing is lost: what has been read is in hand, in the channel or shown. *)

MessageEvent(k, i) == [kind |-> "message", conn |-> k, nth |-> i]
Waits(e) == \E j \in DOMAIN incoming : incoming[j] = e
Lined(l) == \E j \in DOMAIN chat : chat[j] = l
InHands(k, i) ==
    \/ reader[k].at = "handle" /\ got[k] = i
    \/ reader[k].at \in {"emit", "push"} /\ reader[k].event = MessageEvent(k, i)
Placed(k, i) == Lined(<<k, i>>) \/ Waits(MessageEvent(k, i)) \/ InHands(k, i)
ToShow(k, i) == wire[k][i].kind \in {"system", "message"} /\ <<k, i>> \notin missed
KeptAt(k) == \A i \in 1..got[k] : ToShow(k, i) => Placed(k, i)

(* KeptInv, said in the words of this section. *)
LEMMA KeptForm ==
  /\ KeptInv <=> \A k \in Conns : k = client => KeptAt(k)
  /\ KeptInv' <=> \A k \in Conns : k = client' => KeptAt(k)'
  /\ \A k : ShowEvent(k) = MessageEvent(k, got[k])
<1>1. \A k, i : /\ [ShowEvent(k) EXCEPT !.nth = i] = MessageEvent(k, i)
                /\ [ShowEvent(k) EXCEPT !.nth = i]' = MessageEvent(k, i)
  BY DEF ShowEvent, MessageEvent
<1>2. \A k : ShowEvent(k) = MessageEvent(k, got[k])
  BY DEF ShowEvent, MessageEvent
<1>3. \A k, i : /\ Held(k, i) <=> InHands(k, i)
                /\ Held(k, i)' <=> InHands(k, i)'
  BY <1>1 DEF Held, InHands
<1>4. \A k, i : /\ Queued([ShowEvent(k) EXCEPT !.nth = i]) <=> Waits(MessageEvent(k, i))
                /\ Queued([ShowEvent(k) EXCEPT !.nth = i])' <=> Waits(MessageEvent(k, i))'
  BY <1>1 DEF Queued, Waits
<1>5. KeptInv <=> \A k \in Conns : k = client => KeptAt(k)
  BY <1>3, <1>4 DEF KeptInv, KeptAt, Placed, ToShow, Lined
<1>6. KeptInv' <=> \A k \in Conns : k = client' => KeptAt(k)'
  BY <1>3, <1>4 DEF KeptInv, KeptAt, Placed, ToShow, Lined
<1> QED BY <1>2, <1>5, <1>6

(* A readLoop does not take anything out of the channel. *)
LEMMA StillWaits ==
  ASSUME ClientTypeOK, NEW j \in Conns, ReadLoop(j)
  PROVE  \A e : Waits(e) => Waits(e)'
<1>1. CASE UNCHANGED incoming
  BY <1>1 DEF Waits
<1>2. CASE Pushes(j)
  <2>1. \A i \in DOMAIN incoming : i \in DOMAIN incoming' /\ incoming'[i] = incoming[i]
    BY <1>2, Pushed DEF Pushes
  <2> QED BY <2>1 DEF Waits
<1> QED BY <1>1, <1>2, ReaderMoves DEF Reads, Ends, Shows, Admits, Ignores, Passes, Wakes

(* A readLoop passes on what it has read, or could not read it. *)
LEMMA KeptReaderStep ==
  ASSUME ClientInv, KeptInv, NEW j \in Conns, ReadLoop(j)
  PROVE  KeptInv'
<1> USE DEF ClientInv
<1>1. /\ UNCHANGED <<client, token, chat, wire>>
      /\ \A k \in Conns : k # j => reader'[k] = reader[k] /\ got'[k] = got[k]
  BY ReaderFrame
<1>2. missed \subseteq missed'
  BY ReaderMoves DEF Reads, Ends, Shows, Admits, Ignores, Passes, Pushes, Wakes
<1>3. \A k, i : /\ ToShow(k, i)' => ToShow(k, i)
                /\ Lined(<<k, i>>)' <=> Lined(<<k, i>>)
  BY <1>1, <1>2 DEF ToShow, Lined
<1> SUFFICES ASSUME NEW k \in Conns, k = client PROVE KeptAt(k)'
  BY <1>1, KeptForm
<1>4. KeptAt(k) /\ token = k /\ got[k] \in Nat
  BY KeptForm DEF ConnInv, ClientTypeOK, Conns
<1>5. CASE j # k
  BY <1>1, <1>3, <1>4, <1>5, StillWaits DEF KeptAt, Placed, InHands
<1>6. CASE j = k
  <2>1. ASSUME NEW i \in 1..got[k], ToShow(k, i)', InHands(k, i) => Placed(k, i)'
        PROVE  Placed(k, i)'
    BY <1>3, <1>4, <2>1, StillWaits DEF KeptAt, Placed
  <2>2. ASSUME got'[k] = got[k],
               \A i \in 1..got[k] : ToShow(k, i)' /\ InHands(k, i) => Placed(k, i)'
        PROVE  KeptAt(k)'
    BY <2>1, <2>2 DEF KeptAt
  <2>3. CASE Reads(k)
    <3> PICK n : n = got[k] + 1
      OBVIOUS
    <3>1. \A i : ~InHands(k, i)
      BY <2>3 DEF Reads, InHands
    <3>2. reader'[k].at = "handle" /\ got'[k] = n
      BY <2>3, StatesTyped DEF Reads
    <3>3. InHands(k, n)'
      BY <3>2 DEF InHands
    <3>4. \A i \in 1..n : i \in 1..got[k] \/ i = n
      BY <1>4
    <3> QED BY <2>1, <3>1, <3>2, <3>3, <3>4 DEF KeptAt, Placed
  <2>4. CASE Ends(k) \/ Wakes(k)
    <3>1. \A i : ~InHands(k, i)
      BY <2>4 DEF Ends, Wakes, InHands
    <3> QED BY <2>2, <2>4, <3>1 DEF Ends, Wakes
  <2>5. CASE Shows(k)
    <3>1. /\ reader[k].at = "handle" /\ got'[k] = got[k]
          /\ reader'[k].at = "emit" /\ reader'[k].event = MessageEvent(k, got[k])
      BY <2>5, KeptForm DEF Shows
    <3>2. InHands(k, got[k])' /\ \A i : InHands(k, i) => i = got[k]
      BY <3>1 DEF InHands
    <3> QED BY <2>2, <3>1, <3>2 DEF Placed
  <2>6. CASE Admits(k) \/ Ignores(k)
    <3>1. \A i : InHands(k, i) => i = got[k]
      BY <2>6 DEF Admits, Ignores, InHands
    <3>2. ~ToShow(k, got[k])'
      BY <1>1, <2>6 DEF Admits, Ignores, ToShow, InHand
    <3> QED BY <2>2, <2>6, <3>1, <3>2 DEF Admits, Ignores
  <2>7. CASE Passes(k)
    <3>1. /\ reader[k].at = "emit" /\ reader'[k].at = "push" /\ got'[k] = got[k]
          /\ reader'[k].event = reader[k].event
      BY <1>4, <2>7, Emitting DEF Passes
    <3>2. \A i : InHands(k, i) => InHands(k, i)'
      BY <3>1 DEF InHands
    <3> QED BY <2>2, <3>1, <3>2 DEF Placed
  <2>8. CASE Pushes(k)
    <3>1. /\ reader[k].at = "push" /\ got'[k] = got[k]
          /\ Len(incoming') \in DOMAIN incoming' /\ incoming'[Len(incoming')] = reader[k].event
      BY <2>8, Pushed DEF Pushes
    <3>2. \A i : InHands(k, i) => Waits(MessageEvent(k, i))'
      BY <3>1 DEF InHands, Waits
    <3> QED BY <2>2, <3>1, <3>2 DEF Placed
  <2> QED BY <1>6, <2>3, <2>4, <2>5, <2>6, <2>7, <2>8, ReaderMoves
<1> QED BY <1>5, <1>6

(* The UI goroutine shows what it takes out of the channel. *)
LEMMA KeptUiStep ==
  ASSUME ClientInv, KeptInv, Ui
  PROVE  KeptInv'
<1> USE DEF ClientInv
<1> SUFFICES ASSUME NEW k \in Conns, k = client' PROVE KeptAt(k)'
  BY KeptForm
<1>1. k = client => KeptAt(k)
  BY KeptForm
<1>2. ASSUME UNCHANGED <<client, chat, incoming, got, missed, wire, reader>> PROVE KeptAt(k)'
  BY <1>1, <1>2 DEF KeptAt, Placed, InHands, Lined, Waits, ToShow
<1>3. CASE Stays
  BY <1>2, <1>3 DEF Stays, Others
<1>4. ASSUME NEW a \in Accounts, Asks(a) \/ AsksInVain(a) PROVE KeptAt(k)'
  BY <1>2, <1>4 DEF Asks, AsksInVain, Others
<1>5. CASE HangsUp
  BY <1>2, <1>5 DEF HangsUp, Others, Conns
<1>6. CASE GivesUp
  BY <1>6 DEF GivesUp, Conns
<1>7. ASSUME NEW n \in Conns, Connects(n) PROVE KeptAt(k)'
  <2>1. k = n /\ wire[n] = <<>> /\ got'[n] = got[n] /\ got[n] <= Len(wire[n])
    BY <1>7 DEF Connects, ConnInv, Fresh
  <2>2. got'[k] <= 0 /\ got'[k] \in Nat
    BY <2>1 DEF ClientTypeOK
  <2> QED BY <2>2 DEF KeptAt
<1>8. CASE Writes
  <2>1. /\ chat' = Append(chat, Own) /\ Own \in (Conns \cup {0}) \X Nat
        /\ UNCHANGED <<client, incoming, got, missed, wire, reader>>
    BY <1>8 DEF Writes, Others, Own, ClientTypeOK
  <2>2. \A l : Lined(l) => Lined(l)'
    BY <2>1, Lengthened DEF Lined
  <2> QED BY <1>1, <2>1, <2>2 DEF KeptAt, Placed, InHands, Waits, ToShow
<1>9. CASE Applies
  <2>1. /\ UNCHANGED <<client, got, missed, wire, reader>>
        /\ incoming # <<>> /\ incoming' = Tail(incoming)
    BY <1>9 DEF Applies, Others
  <2>2. /\ 1 \in DOMAIN incoming /\ Head(incoming) = incoming[1]
        /\ \A e : Waits(e) => e = incoming[1] \/ Waits(e)'
    BY <2>1, Applied DEF Waits
  <2>3. CASE Head(incoming).kind = "message"
    <3> PICK l : l = <<Head(incoming).conn, Head(incoming).nth>>
      OBVIOUS
    <3>1. chat' = Append(chat, l) /\ l \in (Conns \cup {0}) \X Nat
      BY <1>9, <2>2, <2>3, QueueTyped DEF Applies
    <3>2. Lined(l)' /\ \A m : Lined(m) => Lined(m)'
      BY <3>1, Lengthened DEF Lined
    <3>3. \A i : MessageEvent(k, i) = incoming[1] => l = <<k, i>>
      BY <2>2 DEF MessageEvent
    <3> QED BY <1>1, <2>1, <2>2, <3>2, <3>3 DEF KeptAt, Placed, InHands, ToShow
  <2>4. CASE Head(incoming).kind # "message"
    <3>1. UNCHANGED chat
      BY <1>9, <2>4 DEF Applies
    <3>2. \A i : MessageEvent(k, i) # incoming[1]
      BY <2>2, <2>4 DEF MessageEvent
    <3> QED BY <1>1, <2>1, <2>2, <3>1, <3>2 DEF KeptAt, Placed, InHands, ToShow, Lined
  <2> QED BY <2>3, <2>4
<1> QED BY <1>3, <1>4, <1>5, <1>6, <1>7, <1>8, <1>9, UiMoves

(* What the server has said stays said. *)
LEMMA WirePrefix ==
  ASSUME ClientInv, NEW k \in Conns, Outside(k)
  PROVE  \A j \in Conns : \A i \in 1..Len(wire[j]) : wire'[j][i] = wire[j][i]
<1> USE DEF ClientInv
<1>1. ASSUME NEW ps \in Seq(Packet), Says(k, ps)
      PROVE  \A j \in Conns : \A i \in 1..Len(wire[j]) : wire'[j][i] = wire[j][i]
  BY <1>1, Said
<1>2. CASE Crashes \/ Breaks(k)
  BY <1>2 DEF Crashes, Breaks
<1>3. CASE Refuses(k)
  BY <1>1, <1>3, ErrorSeq DEF Refuses
<1>4. ASSUME NEW u \in Accounts, NEW ps \in Welcomes(u), Welcomed(k, u, ps)
      PROVE  \A j \in Conns : \A i \in 1..Len(wire[j]) : wire'[j][i] = wire[j][i]
  BY <1>1, <1>4, WelcomeForm DEF Welcomed
<1>5. ASSUME NEW p \in Packet, Told(k, p)
      PROVE  \A j \in Conns : \A i \in 1..Len(wire[j]) : wire'[j][i] = wire[j][i]
  <2>1. <<p>> \in Seq(Packet)
    OBVIOUS
  <2> QED BY <1>1, <1>5, <2>1 DEF Told
<1> QED BY <1>2, <1>3, <1>4, <1>5, OutsideMoves

(* The other end takes nothing back. *)
LEMMA KeptOutsideStep ==
  ASSUME ClientInv, KeptInv, NEW j \in Conns, Outside(j)
  PROVE  KeptInv'
<1> USE DEF ClientInv
<1>1. UNCHANGED <<client, chat, incoming, reader, got, missed>>
  BY OutsideFrame
<1> SUFFICES ASSUME NEW k \in Conns, k = client PROVE KeptAt(k)'
  BY <1>1, KeptForm
<1>2. KeptAt(k) /\ got[k] \in Nat /\ Len(wire[k]) \in Nat /\ got[k] <= Len(wire[k])
  BY KeptForm DEF ConnInv, ClientTypeOK
<1>3. \A i \in 1..got[k] : wire'[k][i] = wire[k][i]
  BY <1>2, WirePrefix
<1> QED BY <1>1, <1>2, <1>3 DEF KeptAt, Placed, InHands, Lined, Waits, ToShow

-----------------------------------------------------------------------------
(* Messages are missed at the start of a session only.                      *)

Noted == \A m \in missed : m[1] \in Conns /\ m[2] \in 1..Handled(m[1])
IsMessage(k, i) == wire[k][i].kind = "message"
ReadAt(k) ==
    \A i \in 1..Handled(k) :
      IsMessage(k, i) /\ <<k, i>> \notin missed => session.username = auth[k]
FirstAt(k) ==
    \A m \in missed : m[1] = k /\ Openable(k, m[2]) =>
      \A i \in 1..(m[2] - 1) : Openable(k, i) => <<k, i>> \in missed
MissPart == Noted /\ (~stale => \A k \in Conns : k = client => ReadAt(k) /\ FirstAt(k))

(* Without a client there is nothing that it could have missed. *)
LEMMA MissForm ==
  /\ MissPart => MissInv /\ MissedOnlyAtFirst
  /\ MissInv /\ MissedOnlyAtFirst => MissPart
  /\ MissPart' => MissInv' /\ MissedOnlyAtFirst'
<1>1. MissPart => MissInv /\ MissedOnlyAtFirst
  BY DEF MissPart, MissInv, MissedOnlyAtFirst, Noted, ReadAt, FirstAt, IsMessage
<1>2. MissInv /\ MissedOnlyAtFirst => MissPart
  BY DEF MissPart, MissInv, MissedOnlyAtFirst, Noted, ReadAt, FirstAt, IsMessage
<1>3. MissPart' => MissInv' /\ MissedOnlyAtFirst'
  BY DEF MissPart, MissInv, MissedOnlyAtFirst, Noted, ReadAt, FirstAt, IsMessage
<1> QED BY <1>1, <1>2, <1>3

(* A readLoop is done with no more than it has read. *)
LEMMA HandledTyped ==
  ASSUME ClientTypeOK, ConnInv, NEW k \in Conns
  PROVE  /\ Handled(k) \in Nat /\ Handled(k) <= got[k] /\ got[k] \in Nat
         /\ Len(wire[k]) \in Nat /\ got[k] <= Len(wire[k])
BY DEF ClientTypeOK, ConnInv, Handled

(* Until somebody is logged in, there are no messages. *)
LEMMA QuietWire ==
  ASSUME ClientTypeOK, ConnInv, WireInv, NEW k \in Conns, auth[k] = NoOne
  PROVE  \A i \in 1..Handled(k) : ~IsMessage(k, i)
<1>1. \A i \in 1..Handled(k) : i \in 1..Len(wire[k])
  BY HandledTyped
<1> QED BY <1>1 DEF WireInv, Meant, IsMessage

(* What has been read stays read, if the names stay or nothing was a message. *)
LEMMA MissKept ==
  ASSUME ClientTypeOK, Noted, NEW k \in Conns, UNCHANGED missed, Handled(k)' = Handled(k),
         Handled(k) \in Nat, \A i \in 1..Handled(k) : wire'[k][i] = wire[k][i],
         \/ /\ ReadAt(k) /\ FirstAt(k) /\ key'[k] = key[k] /\ auth'[k] = auth[k]
            /\ session'.username \in {session.username, auth[k]}
         \/ \A i \in 1..Handled(k) : ~IsMessage(k, i)
  PROVE  ReadAt(k)' /\ FirstAt(k)'
<1>1. \A i \in 1..Handled(k) : IsMessage(k, i)' <=> IsMessage(k, i)
  BY DEF IsMessage
<1>2. \A m \in missed : m[1] = k =>
        m[2] \in 1..Handled(k) /\ \A i \in 1..(m[2] - 1) : i \in 1..Handled(k)
  BY DEF Noted
<1>3. ReadAt(k)'
  BY <1>1 DEF ReadAt
<1>4. FirstAt(k)'
  <2>1. CASE FirstAt(k) /\ key'[k] = key[k]
    <3>1. \A i \in 1..Handled(k) : Openable(k, i)' <=> Openable(k, i)
      BY <2>1 DEF Openable
    <3> QED BY <1>2, <2>1, <3>1 DEF FirstAt
  <2>2. CASE \A i \in 1..Handled(k) : ~IsMessage(k, i)
    <3>1. \A i \in 1..Handled(k) : ~Openable(k, i)'
      BY <1>1, <2>2 DEF Openable, IsMessage
    <3> QED BY <1>2, <3>1 DEF FirstAt
  <2> QED BY <2>1, <2>2
<1> QED BY <1>3, <1>4

(* A message is missed only while the window has another name. *)
LEMMA MissReaderStep ==
  ASSUME ClientInv, MissPart, ~stale => WireInv, NEW j \in Conns, ReadLoop(j)
  PROVE  MissPart'
<1> USE DEF ClientInv
<1>1. /\ UNCHANGED <<client, token, session, key, auth, wire, stale>>
      /\ \A k \in Conns : k # j => reader'[k] = reader[k] /\ got'[k] = got[k]
  BY ReaderFrame
<1>2. \A k \in Conns : k # j => Handled(k)' = Handled(k)
  BY <1>1 DEF Handled
<1>3. \A k, i : (IsMessage(k, i)' <=> IsMessage(k, i)) /\ (Openable(k, i)' <=> Openable(k, i))
  BY <1>1 DEF IsMessage, Openable
<1>4. /\ got[j] \in Nat /\ Handled(j) \in Nat /\ Handled(j) <= got[j] /\ got[j] <= Len(wire[j])
      /\ reader[j].at = "handle" => got[j] > 0
  BY HandledTyped DEF ConnInv
<1>5. CASE UNCHANGED missed /\ Handled(j)' = Handled(j)
  <2>1. \A k \in Conns : Handled(k)' = Handled(k) /\ (ReadAt(k)' <=> ReadAt(k))
    BY <1>1, <1>2, <1>3, <1>5 DEF ReadAt
  <2>2. \A k \in Conns : FirstAt(k)' <=> FirstAt(k)
    BY <1>1, <1>3, <1>5 DEF FirstAt
  <2>3. Noted'
    BY <1>5, <2>1 DEF Noted, MissPart
  <2> QED BY <1>1, <2>1, <2>2, <2>3 DEF MissPart
<1>6. CASE /\ reader[j].at = "handle" /\ Handled(j)' = got[j]
           /\ \/ /\ missed' = missed \cup {<<j, got[j]>>}
                 /\ IsMessage(j, got[j]) /\ ~Decrypts(j, session.username)
              \/ UNCHANGED missed /\ (IsMessage(j, got[j]) => Decrypts(j, session.username))
  <2> PICK n \in Nat : n = got[j]
    BY <1>4
  <2>1. Handled(j) = n - 1 /\ n > 0 /\ Handled(j)' = n /\ missed \subseteq missed'
    BY <1>4, <1>6 DEF Handled
  <2>2. \A m \in missed' : m \in missed \/ m = <<j, n>>
    BY <1>6
  <2>3. Noted'
    <3>1. \A m \in missed : m[1] \in Conns /\ m[2] \in 1..Handled(m[1])
      BY DEF MissPart, Noted
    <3>2. ASSUME NEW m \in missed PROVE m[1] \in Conns /\ m[2] \in 1..Handled(m[1])'
      <4>1. CASE m[1] = j
        BY <2>1, <3>1, <4>1
      <4>2. CASE m[1] # j
        BY <1>2, <3>1, <4>2
      <4> QED BY <4>1, <4>2
    <3>3. <<j, n>>[1] = j /\ <<j, n>>[2] = n /\ n \in 1..Handled(j)'
      BY <2>1
    <3> QED BY <2>2, <3>2, <3>3 DEF Noted
  <2>4. ASSUME NEW k \in Conns, k = client, ~stale PROVE ReadAt(k)' /\ FirstAt(k)'
    <3>1. ReadAt(k) /\ FirstAt(k) /\ WireInv
      BY <2>4 DEF MissPart
    <3>2. CASE k # j
      <4>1. \A i : <<k, i>> \in missed' => <<k, i>> \in missed
        BY <2>2, <3>2
      <4>2. \A m \in missed' : m[1] = k => m \in missed
        BY <2>2, <3>2
      <4> QED BY <1>1, <1>2, <1>3, <2>1, <3>1, <3>2, <4>1, <4>2 DEF ReadAt, FirstAt
    <3>3. CASE k = j
      <4>1. n \in 1..Len(wire[k]) /\ InHand(k) = wire[k][n]
        BY <1>4, <2>1, <3>3 DEF InHand
      <4>2. IsMessage(k, n) => InHand(k).to = auth[k]
        BY <3>1, <4>1 DEF WireInv, Meant, IsMessage
      <4>3. \A i \in 1..n : i = n \/ i \in 1..Handled(k)
        BY <2>1, <3>3
      <4>4. ReadAt(k)'
        <5>1. IsMessage(k, n) => <<k, n>> \in missed' \/ session.username = auth[k]
          BY <1>6, <3>3, <4>2 DEF Decrypts
        <5> QED BY <1>1, <1>3, <2>1, <3>1, <3>3, <4>3, <5>1 DEF ReadAt
      <4>5. FirstAt(k)'
        <5>1. CASE UNCHANGED missed
          BY <1>1, <1>3, <3>1, <5>1 DEF FirstAt
        <5>2. CASE ~Decrypts(k, session.username) /\ IsMessage(k, n)
          <6>1. Openable(k, n) => session.username # auth[k]
            BY <2>4, <4>1, <4>2, <5>2 DEF Decrypts, Active, ConnInv, Conns, Openable
          <6>2. Openable(k, n) => \A i \in 1..(n - 1) : Openable(k, i) => <<k, i>> \in missed
            BY <2>1, <3>1, <3>3, <6>1 DEF ReadAt, Openable, IsMessage
          <6>3. <<j, n>>[2] = n
            OBVIOUS
          <6> QED BY <1>1, <1>3, <2>1, <2>2, <3>1, <6>2, <6>3 DEF FirstAt
        <5> QED BY <1>6, <3>3, <5>1, <5>2
      <4> QED BY <4>4, <4>5
    <3> QED BY <3>2, <3>3
  <2> QED BY <1>1, <2>3, <2>4 DEF MissPart
<1>7. CASE Reads(j)
  <2>1. Handled(j)' = got[j] /\ Handled(j) = got[j] /\ UNCHANGED missed
    BY <1>4, <1>7, StatesTyped DEF Reads, Handled
  <2> QED BY <1>5, <2>1
<1>8. CASE Ends(j) \/ Wakes(j) \/ Passes(j) \/ Pushes(j)
  <2>1. reader[j].at # "handle" /\ got'[j] = got[j] /\ UNCHANGED missed
    BY <1>8 DEF Ends, Wakes, Passes, Pushes
  <2>2. reader'[j].at # "handle"
    <3>1. CASE Ends(j) \/ Wakes(j) \/ Pushes(j)
      BY <3>1, StatesTyped DEF Ends, Wakes, Pushes
    <3>2. CASE Passes(j)
      BY <3>2, StatesTyped, Emitting DEF Passes
    <3> QED BY <1>8, <3>1, <3>2
  <2> QED BY <1>5, <2>1, <2>2 DEF Handled
<1>9. CASE Shows(j) \/ Admits(j) \/ Ignores(j)
  <2>1. /\ reader[j].at = "handle" /\ reader'[j].at # "handle" /\ got'[j] = got[j]
        /\ InHand(j) = wire[j][got[j]]
    BY <1>9, StatesTyped DEF Shows, Admits, Ignores, InHand
  <2>2. \/ /\ missed' = missed \cup {<<j, got[j]>>}
           /\ IsMessage(j, got[j]) /\ ~Decrypts(j, session.username)
        \/ UNCHANGED missed /\ (IsMessage(j, got[j]) => Decrypts(j, session.username))
    BY <1>9, <2>1 DEF Shows, Admits, Ignores, IsMessage
  <2> QED BY <1>6, <2>1, <2>2 DEF Handled
<1> QED BY <1>7, <1>8, <1>9, ReaderMoves

(* A key that changes is that of a connection nobody is logged in on. *)
LEMMA KeyFirst ==
  ASSUME ClientInv, ConnInv, NEW k \in Conns, NEW a \in Accounts,
         key' = key \/ (client \in Conns /\ SendAuth(a)), key'[k] # key[k]
  PROVE  auth[k] = NoOne
<1> USE DEF ClientInv
<1>1. client \in Conns /\ SendAuth(a) /\ k = client /\ key[k] = NoOne
  BY DEF SendAuth, KeyOf, ClientTypeOK
<1>2. asked[k] = <<>>
  <2>1. asked[k] # <<>> => key[k] = asked[k][1] /\ asked[k] \in Seq(Accounts)
    BY DEF AskedInv, ClientTypeOK
  <2>2. asked[k] # <<>> => key[k] \in Accounts
    BY <2>1
  <2> QED BY <1>1, <2>2
<1> QED BY <1>2 DEF AskedInv

(* A name that is right for a connection stays right for it. *)
LEMMA MissUiStep ==
  ASSUME ClientInv, MissPart, ~stale => WireInv /\ NameInv, Ui
  PROVE  MissPart'
<1> USE DEF ClientInv, Others
<1>1. \A k \in Conns : Handled(k) \in Nat /\ Handled(k) <= got[k] /\ got[k] <= Len(wire[k])
  BY HandledTyped
<1>2. /\ Noted
      /\ \A k \in Conns : ~stale /\ k = client => ReadAt(k) /\ FirstAt(k)
  BY DEF MissPart
<1>3. ASSUME UNCHANGED <<missed, got, reader, wire, auth>>, stale' \/ ~stale,
             client' \in {0, client},
             \A k \in Conns : ~stale' /\ k = client /\ k = client' =>
               \/ key'[k] = key[k] /\ session'.username \in {session.username, auth[k]}
               \/ auth[k] = NoOne
      PROVE  MissPart'
  <2>1. \A k \in Conns : Handled(k)' = Handled(k)
    BY <1>3 DEF Handled
  <2>2. Noted'
    BY <1>2, <1>3, <2>1 DEF Noted
  <2>3. ASSUME NEW k \in Conns, k = client', ~stale' PROVE ReadAt(k)' /\ FirstAt(k)'
    <3>1. k = client /\ ~stale /\ WireInv
      BY <1>3, <2>3 DEF Conns
    <3>2. CASE auth[k] = NoOne
      BY <1>1, <1>2, <1>3, <2>1, <3>1, <3>2, QuietWire, MissKept
    <3>3. CASE key'[k] = key[k] /\ session'.username \in {session.username, auth[k]}
      BY <1>1, <1>2, <1>3, <2>1, <3>1, <3>3, MissKept
    <3> QED BY <1>3, <2>3, <3>1, <3>2, <3>3
  <2> QED BY <2>2, <2>3 DEF MissPart
<1>4. CASE Stays \/ Writes
  BY <1>3, <1>4 DEF Stays, Writes
<1>5. CASE HangsUp
  <2>1. client' = client \/ client' = 0
    BY <1>5 DEF HangsUp
  <2>2. \A k \in Conns : k = client' => session'.username = session.username
    BY <1>5, SessionParts DEF HangsUp, Conns
  <2> QED BY <1>3, <1>5, <2>1, <2>2 DEF HangsUp
<1>6. CASE GivesUp
  BY <1>3, <1>6, SessionParts DEF GivesUp
<1>7. ASSUME NEW a \in Accounts, Asks(a) \/ AsksInVain(a) PROVE MissPart'
  <2>1. /\ UNCHANGED <<missed, got, reader, wire, auth, stale, client>>
        /\ key' = key \/ (client \in Conns /\ SendAuth(a))
    BY <1>7 DEF Asks, AsksInVain
  <2>2. session'.username = session.username
    BY <1>7, SessionParts DEF Asks, AsksInVain
  <2> QED BY <1>3, <2>1, <2>2, KeyFirst
<1>8. CASE Applies
  <2>1. /\ UNCHANGED <<missed, got, reader, wire, auth, client, key>>
        /\ stale' = (stale \/ Head(incoming).conn # token)
        /\ 1 \in DOMAIN incoming /\ Head(incoming) = incoming[1]
    BY <1>8, Applied DEF Applies
  <2>2. ASSUME NEW k \in Conns, ~stale', k = client
        PROVE  session'.username \in {session.username, auth[k]}
    <3>0. ~stale /\ ~(incoming[1].conn # token)
      <4>1. ~(stale \/ incoming[1].conn # token)
        BY <2>1, <2>2, Zenon
      <4> QED BY <4>1
    <3>1. ~stale /\ NameInv /\ incoming[1].conn = k
      BY <3>0, <2>2 DEF ConnInv, Conns
    <3>2. CASE Head(incoming).kind = "auth"
      <4>1. session' = [session EXCEPT !.username = Head(incoming).user,
                                       !.joined = TRUE, !.loading = FALSE]
        BY <1>8, <3>2 DEF Applies
      <4>2. session'.username = Head(incoming).user
        BY <4>1 DEF ClientTypeOK
      <4> QED BY <2>1, <3>1, <3>2, <4>2 DEF NameInv
    <3>3. CASE Head(incoming).kind # "auth"
      BY <1>8, <3>3, SessionParts DEF Applies
    <3> QED BY <3>2, <3>3
  <2>3. stale' \/ ~stale
    BY <2>1
  <2> QED BY <1>3, <2>1, <2>2, <2>3
<1>9. ASSUME NEW n \in Conns, Connects(n) PROVE MissPart'
  <2>1. /\ UNCHANGED <<missed, got>> /\ client' = n
        /\ Fresh(n) /\ reader'[n].at = "read"
        /\ \A k \in Conns : k # n => reader'[k] = reader[k]
    BY <1>9, StatesTyped DEF Connects, ConnInv
  <2>2. \A k \in Conns : Handled(k)' = Handled(k)
    BY <2>1, StatesTyped DEF Handled, Fresh
  <2>3. Noted'
    BY <1>2, <2>1, <2>2 DEF Noted
  <2>4. Handled(n) = 0
    <3>1. Len(wire[n]) = 0
      BY <2>1 DEF Fresh
    <3> QED BY <1>1, <3>1 DEF ClientTypeOK
  <2>5. ReadAt(n)' /\ FirstAt(n)'
    <3>1. \A m \in missed : m[1] = n => m[2] \in 1..Handled(n)
      BY <1>2 DEF Noted
    <3>2. \A i : i \notin 1..Handled(n)
      BY <2>4
    <3> QED BY <2>1, <2>2, <3>1, <3>2 DEF ReadAt, FirstAt
  <2> QED BY <2>1, <2>3, <2>5 DEF MissPart
<1> QED BY <1>4, <1>5, <1>6, <1>7, <1>8, <1>9, UiMoves

(* A login changes the name of a connection only before its first message.  *)
LEMMA MissOutsideStep ==
  ASSUME ClientInv, MissPart, ~stale => WireInv /\ LoginInv, NEW j \in Conns, Outside(j)
  PROVE  MissPart'
<1> USE DEF ClientInv
<1>1. UNCHANGED <<client, session, key, reader, got, missed, stale>>
  BY OutsideFrame
<1>2. \A k \in Conns : /\ Handled(k) \in Nat /\ Handled(k)' = Handled(k)
                       /\ \A i \in 1..Handled(k) : i \in 1..Len(wire[k])
  <2>1. \A k \in Conns : Handled(k)' = Handled(k)
    BY <1>1 DEF Handled
  <2> QED BY <2>1, HandledTyped
<1>3. \A k \in Conns : \A i \in 1..Handled(k) : wire'[k][i] = wire[k][i]
  BY <1>2, WirePrefix
<1>4. Noted /\ Noted'
  BY <1>1, <1>2 DEF MissPart, Noted
<1>5. ASSUME NEW k \in Conns, k = client, ~stale PROVE ReadAt(k)' /\ FirstAt(k)'
  <2>1. ReadAt(k) /\ FirstAt(k) /\ WireInv /\ LoginInv
    BY <1>5 DEF MissPart
  <2>2. CASE auth'[k] = auth[k]
    BY <1>1, <1>2, <1>3, <1>4, <2>1, <2>2, MissKept
  <2>3. CASE auth[k] = NoOne
    BY <1>1, <1>2, <1>3, <1>4, <2>1, <2>3, QuietWire, MissKept
  <2>4. auth'[k] = auth[k] \/ auth[k] = NoOne
    <3>1. CASE UNCHANGED auth
      BY <3>1
    <3>2. ASSUME NEW u \in Accounts, NEW ps \in Welcomes(u), Welcomed(j, u, ps)
          PROVE  auth'[k] = auth[k] \/ auth[k] = NoOne
      BY <2>1, <3>2, Waiting DEF Welcomed, ClientTypeOK
    <3> QED BY <3>1, <3>2, OutsideMoves DEF Crashes, Breaks, Refuses, Told
  <2> QED BY <2>2, <2>3, <2>4
<1> QED BY <1>1, <1>4, <1>5 DEF MissPart

-----------------------------------------------------------------------------
(* The invariant of the client, and what follows from it.                   *)

ClientSafe == ClientInv /\ FormInv /\ OrderInv /\ KeptInv /\ MissPart
Moves == (\E k \in Conns : ReadLoop(k) \/ Outside(k)) \/ Ui

(* At the start no connection has been made and nothing has been said. *)
LEMMA ClientStarts == Init => ClientSafe
<1> SUFFICES ASSUME Init PROVE ClientSafe
  OBVIOUS
<1> USE DEF Init, Conns
<1>1. ClientTypeOK
  BY StatesTyped, EmptySeq DEF ClientTypeOK, UiStates, Blank
<1>2. /\ \A k \in Conns : /\ reader[k].at = "none" /\ got[k] = 0 /\ Len(wire[k]) = 0
                          /\ link[k] = "none" /\ auth[k] = NoOne /\ asked[k] = <<>>
                          /\ ~Has(k, "auth") /\ ~Has(k, "message")
      /\ DOMAIN incoming = {} /\ DOMAIN chat = {} /\ ~session.joined /\ ~session.loading
  BY StatesTyped DEF Has, Blank
<1>3. ConnInv
  BY <1>2 DEF ConnInv, Fresh
<1>4. AskedInv /\ EventInv
  BY <1>2 DEF AskedInv, EventInv
<1>5. WireInv /\ NameInv
  BY <1>2 DEF WireInv, NameInv
<1>6. EndInv /\ LoginInv
  BY <1>2 DEF EndInv, Ended, LoginInv
<1>7. OrderInv
  BY <1>2 DEF OrderInv, OrderAt
<1>8. KeptInv
  BY <1>2 DEF KeptInv
<1>9. MissPart
  <2>1. Noted /\ \A k \in Conns : k # client
    BY DEF Noted
  <2> QED BY <2>1 DEF MissPart
<1> QED BY <1>1, <1>3, <1>4, <1>5, <1>6, <1>7, <1>8, <1>9 DEF ClientSafe, ClientInv, FormInv

(* A step belongs to a readLoop, to the UI goroutine or to what is outside. *)
LEMMA NextMoves == Next => Moves \/ UNCHANGED vars
BY DEF Next, Moves, Ui, Outside, Stopped

(* Every step keeps the connections, keys and events in order. *)
LEMMA ClientInvStep ==
  ASSUME ClientInv, Moves
  PROVE  ClientInv'
<1> USE DEF ClientInv
<1>1. AskedInv'
  BY AskedStep DEF Moves
<1>2. ASSUME NEW k \in Conns, ReadLoop(k) PROVE ClientTypeOK' /\ ConnInv' /\ EventInv'
  BY <1>2, ReaderTypeStep, ReaderConnStep, EventReaderStep
<1>3. ASSUME NEW k \in Conns, Outside(k) PROVE ClientTypeOK' /\ ConnInv' /\ EventInv'
  BY <1>3, OutsideTypeStep, OutsideConnStep, EventOutsideStep
<1>4. CASE Ui
  <2>1. ClientTypeOK'
    BY <1>4, UiTypeStep
  <2>2. ConnInv'
    BY <1>4, UiConnStep
  <2>3. EventInv'
    BY <1>4, EventUiStep
  <2> QED BY <1>1, <2>1, <2>2, <2>3
<1> QED BY <1>1, <1>2, <1>3, <1>4 DEF Moves

(* An event of an earlier connection that has been applied stays applied. *)
LEMMA StaleStays ==
  ASSUME ClientInv, Moves, stale
  PROVE  stale'
<1> USE DEF ClientInv
<1>1. ASSUME NEW k \in Conns, ReadLoop(k) PROVE stale'
  BY <1>1, ReaderFrame
<1>2. ASSUME NEW k \in Conns, Outside(k) PROVE stale'
  BY <1>2, OutsideFrame
<1>3. CASE Ui
  BY <1>3, UiMoves
     DEF Stays, Writes, Applies, HangsUp, Connects, GivesUp, Asks, AsksInVain
<1> QED BY <1>1, <1>2, <1>3 DEF Moves

(* Until a stale event is applied, every step keeps the form honest. *)
LEMMA FormStep ==
  ASSUME ClientInv, FormInv, Moves
  PROVE  FormInv'
<1> SUFFICES ASSUME ~stale' PROVE FormPart'
  BY DEF FormInv, FormPart
<1>1. FormPart
  BY StaleStays DEF FormInv, FormPart
<1> USE DEF FormPart
<1>2. NameInv'
  BY <1>1, NameStep DEF Moves
<1>3. ASSUME NEW k \in Conns, ReadLoop(k) PROVE WireInv' /\ EndInv' /\ LoginInv'
  BY <1>1, <1>3, WireReaderStep, EndReaderStep, LoginReaderStep
<1>4. ASSUME NEW k \in Conns, Outside(k) PROVE WireInv' /\ EndInv' /\ LoginInv'
  BY <1>1, <1>4, WireOutsideStep, EndOutsideStep, LoginOutsideStep
<1>5. CASE Ui
  <2>1. WireInv'
    BY <1>1, <1>5, WireUiStep
  <2>2. EndInv'
    BY <1>1, <1>5, EndUiStep
  <2>3. LoginInv'
    BY <1>1, <1>5, LoginUiStep
  <2> QED BY <1>2, <2>1, <2>2, <2>3
<1> QED BY <1>2, <1>3, <1>4, <1>5 DEF Moves

(* Every step keeps what is shown. *)
LEMMA ShownStep ==
  ASSUME ClientInv, FormInv, OrderInv, KeptInv, MissPart, Moves
  PROVE  OrderInv' /\ KeptInv' /\ MissPart'
<1>1. ASSUME NEW k \in Conns, ReadLoop(k) PROVE OrderInv' /\ KeptInv' /\ MissPart'
  BY <1>1, OrderReaderStep, KeptReaderStep, MissReaderStep DEF FormInv
<1>2. ASSUME NEW k \in Conns, Outside(k) PROVE OrderInv' /\ KeptInv' /\ MissPart'
  BY <1>2, OrderOutsideStep, KeptOutsideStep, MissOutsideStep DEF FormInv
<1>3. CASE Ui
  BY <1>3, OrderUiStep, KeptUiStep, MissUiStep DEF FormInv
<1> QED BY <1>1, <1>2, <1>3 DEF Moves

(* Nothing changes when nothing happens. *)
LEMMA ClientSafeIdle == ClientSafe /\ UNCHANGED vars => ClientSafe'
<1> SUFFICES ASSUME ClientSafe, UNCHANGED vars PROVE ClientSafe'
  OBVIOUS
<1> USE DEF vars, app, readers, transport, server
<1>1. ClientInv'
  BY DEF ClientSafe, ClientInv, ClientTypeOK, ConnInv, Fresh, AskedInv, EventInv, Down
<1>2. /\ UNCHANGED <<stale, session, token, auth, incoming, link, asked, served, got, wire>>
      /\ UNCHANGED <<client, chat, missed, key, reader>>
  OBVIOUS
<1>3. FormInv'
  <2>1. WireInv' <=> WireInv
    BY <1>2 DEF WireInv, Has
  <2>2. NameInv' <=> NameInv
    BY <1>2 DEF NameInv
  <2>3. EndInv' <=> EndInv
    BY <1>2 DEF EndInv, Ended, EndComing, AuthQueued
  <2>4. LoginInv' <=> LoginInv
    BY <1>2 DEF LoginInv, LoginAt, OneAnswer, YesUnread, YesInHand, YesQueued, HoldsYes, Busy,
                NoRefusal, NothingFrees, Frees, Refusal, Unread, Has, InHand
  <2> QED BY <1>2, <2>1, <2>2, <2>3, <2>4 DEF ClientSafe, FormInv
<1>4. OrderInv'
  BY <1>2 DEF ClientSafe, OrderInv, OrderAt, Handed, Has, Shown
<1>5. KeptInv'
  BY <1>2 DEF ClientSafe, KeptInv, Queued, Held, ShowEvent
<1>6. MissPart'
  BY <1>2 DEF ClientSafe, MissPart, Noted, ReadAt, FirstAt, Handled, IsMessage, Openable
<1> QED BY <1>1, <1>3, <1>4, <1>5, <1>6 DEF ClientSafe

(* The invariant of the client is inductive ... *)
LEMMA ClientSafeStep == ClientSafe /\ [Next]_vars => ClientSafe'
<1> SUFFICES ASSUME ClientSafe, [Next]_vars PROVE ClientSafe'
  OBVIOUS
<1>1. CASE Moves
  BY <1>1, ClientInvStep, FormStep, ShownStep DEF ClientSafe
<1>2. CASE UNCHANGED vars
  BY <1>2, ClientSafeIdle
<1> QED BY <1>1, <1>2, NextMoves

(* ... and so holds in every reachable state. *)
LEMMA ClientIsSafe == Spec => []ClientSafe
BY ClientStarts, ClientSafeStep, PTL DEF Spec

-----------------------------------------------------------------------------
(* The theorems.                                                            *)

(* Every variable of the client, its readLoops and its connections keeps    *)
(* the shape that state.go and client.go declare for it.                    *)
THEOREM TypeCorrect == Spec => []ClientTypeOK
<1>1. ClientSafe => ClientTypeOK
  BY DEF ClientSafe, ClientInv
<1> QED BY <1>1, ClientIsSafe, PTL

(* EnsureIdentityKey: an account is announced under its own key, unless      *)
(* another one was tried first on the same connection.                      *)
THEOREM OwnKeys == Spec => []AnnouncedKeyIsOwn
<1>1. ClientSafe => AnnouncedKeyIsOwn
  BY DEF ClientSafe, ClientInv, AskedInv, AnnouncedKeyIsOwn
<1> QED BY <1>1, ClientIsSafe, PTL

(* The Loading flag and the auth view keep a second login off a connection   *)
(* that is logged in, as long as no event of an earlier one was applied.    *)
THEOREM LoginsOnce == Spec => []OneLogin
<1>1. ClientSafe => OneLogin
  BY DEF ClientSafe, FormInv, WireInv, OneLogin
<1> QED BY <1>1, ClientIsSafe, PTL

(* The chat view is shown over a live connection that the server knows by    *)
(* the name shown, or the event that takes the view away is coming.          *)
THEOREM SessionsHonest == Spec => []SessionHonest
<1>1. ClientSafe => SessionHonest
  <2> SUFFICES ASSUME ClientSafe, session.joined, ~stale
               PROVE  /\ token # 0 /\ auth[token] = session.username
                      /\ DownComing(token)
    BY DEF SessionHonest
  <2>1. ClientTypeOK /\ NameInv /\ EndInv
    BY DEF ClientSafe, ClientInv, FormInv
  <2>2. token \in Conns /\ auth[token] = session.username
    BY <2>1 DEF NameInv, ClientTypeOK
  <2>3. CASE reader[token].at # "done"
    BY <2>1, <2>2, <2>3 DEF NameInv, DownComing
  <2>4. CASE reader[token].at = "done"
    <3>1. PICK i \in DOMAIN incoming : Down(incoming[i]) /\ incoming[i].conn = token
      BY <2>1, <2>2, <2>4 DEF EndInv, Ended, EndComing
    <3>2. incoming[i] \in Event
      BY <2>1, QueueTyped
    <3>3. incoming[i] = DownEvent(token)
      BY <3>1, <3>2 DEF Event, Down, DownEvent
    <3> QED BY <2>1, <2>2, <3>3 DEF NameInv, DownComing, Queued
  <2> QED BY <2>3, <2>4
<1> QED BY <1>1, ClientIsSafe, PTL

(* Whatever the current connection has received and could read is in the     *)
(* chat or on its way there, in the server's order: the channel's senders    *)
(* wait for room instead of dropping.                                       *)
THEOREM NothingIsLost == Spec => []NothingLost
<1>1. ClientSafe => NothingLost
  BY DEF ClientSafe, OrderInv, OrderAt, KeptInv, NothingLost
<1> QED BY <1>1, ClientIsSafe, PTL

(* decryptIncomingMessage fails at the start of a session only: after one    *)
(* message that could be read, all can.                                     *)
THEOREM MissedEarly == Spec => []MissedOnlyAtFirst
<1>1. ClientSafe => MissedOnlyAtFirst
  BY MissForm DEF ClientSafe
<1> QED BY <1>1, ClientIsSafe, PTL
=============================================================================
