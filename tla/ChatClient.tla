----------------------------- MODULE ChatClient -----------------------------
(***************************************************************************)
(* The desktop client: AppState of internal/ui/state.go over the            *)
(* TransportClient of internal/network/client.go.                           *)
(*                                                                         *)
(* The UI goroutine handles window events: each frame drains the channel    *)
(* Incoming, then lays out one of two views and acts on a click.  Every     *)
(* connection has a readLoop goroutine that turns packets into events and   *)
(* puts them into Incoming.  clientMu guards Client and clientToken; its    *)
(* sections are steps of the model, except Connect, which dials with the    *)
(* mutex in its hands.                                                      *)
(*                                                                         *)
(* Connection k is the one made when clientToken became k.                  *)
(***************************************************************************)
EXTENDS Naturals, Sequences

CONSTANTS
    Accounts,     \* usernames; an account's e-mail goes by the same name
    IncomingCap,  \* capacity of Incoming
    MaxConns,     \* BOUND: connections made
    MaxReqs,      \* BOUND: authentication requests sent on one connection
    MaxWire,      \* BOUND: packets the server sends on one connection
    MaxHistory,   \* BOUND: history rows after one login
    ClientEnv,    \* what the environment may do, see ClientEnvKinds
    NoOne         \* the empty username

ClientEnvKinds ==
    {"cut",        \* the server or the network ends a connection
     "latewrite",  \* the first write after that may still succeed
     "tear"}       \* a string read while it is written may be half of each

ASSUME AccountsAssumption == NoOne \notin Accounts
ASSUME ClientBoundsAssumption ==
    /\ IncomingCap \in Nat \ {0}
    /\ MaxConns \in Nat /\ MaxReqs \in Nat /\ MaxWire \in Nat /\ MaxHistory \in Nat
ASSUME ClientEnvAssumption == ClientEnv \subseteq ClientEnvKinds

Conns == 1..MaxConns

VARIABLES
    ui,        \* where the UI goroutine is
    frame,     \* a frame has been asked for (Window.Invalidate, input)
    client,    \* AppState.Client: a connection, or 0 for nil
    token,     \* AppState.clientToken
    session,   \* Session.Username, Joined, Connected and Auth.Loading
    chat,      \* Chat.Messages
    incoming,  \* the channel Incoming
    reader,    \* the readLoop of each connection
    key,       \* TransportClient.privateKey: the account it is the key of
    peers,     \* the peer map has been filled
    link,      \* the TCP connection
    asked,     \* the accounts of the requests sent, in order
    served,    \* how many of them the server has answered
    auth,      \* the user the server has bound the connection to
    wire,      \* every packet the server has sent, in order
    got,       \* how many of them the readLoop has read
    missed,    \* HISTORY: messages it could not decrypt
    stale      \* HISTORY: an event of an earlier connection was applied

server == <<asked, served, auth, wire>>
transport == <<key, peers, link>>
readers == <<reader, got, missed>>
app == <<client, token, session, chat>>
vars == <<ui, frame, app, incoming, readers, transport, server, stale>>

-----------------------------------------------------------------------------
(* Packets, events and the states of the goroutines.                        *)

(* A key goes by the account it was made for; NoOne's has been lost.        *)
Keys == Accounts \cup {NoOne}

Packet ==
    [kind: {"system", "error"}]
      \cup [kind: {"auth_ok"}, user: Accounts]
      \cup [kind: {"peer_sync"}, ok: BOOLEAN]  \* all the keys in it parse
      \cup [kind: {"message"}, history: BOOLEAN, to: Accounts, key: Keys]

(* nth tells which packet of the connection an event stands for. *)
Event ==
    [kind: {"message"}, conn: Conns, nth: Nat]
      \cup [kind: {"auth"}, conn: Conns, user: Accounts]
      \cup [kind: {"status"}, conn: Conns, down: BOOLEAN]

ShowEvent(k)    == [kind |-> "message", conn |-> k, nth |-> got[k]]
StatusEvent(k)  == [kind |-> "status", conn |-> k, down |-> FALSE]
DownEvent(k)    == [kind |-> "status", conn |-> k, down |-> TRUE]
(* MUTANT: the name comes from a field the packet does not have. *)
Nameless(k, u)  == [kind |-> "auth", conn |-> k, user |-> NoOne]
AuthEvent(k, u) == [kind |-> "auth", conn |-> k, user |-> u]

ReaderStates ==
    [at: {"none", "read", "handle", "wake", "exit", "done"}]
      \cup [at: {"emit", "push"}, event: Event]

UiStates == {"dial", "idle", "drain", "naming", "auth_view", "chat_view", "gone"}

Alive == ui # "gone"
(* Connect holds clientMu on the UI goroutine while it dials. *)
MuFree == ui # "dial"
Active(k) == token = k
Step(k, st) == reader' = [reader EXCEPT ![k] = st]
At(st) == [at |-> st]

-----------------------------------------------------------------------------
(* readLoop: read a packet, make an event of it, emit it, ask for a frame.  *)

(* ReadPacket succeeds; the bufio.Reader may outlive the connection. *)
Receive(k) ==
    /\ reader[k].at = "read"
    /\ got[k] < Len(wire[k])
    /\ got' = [got EXCEPT ![k] = @ + 1]
    /\ Step(k, At("handle"))
    /\ UNCHANGED <<ui, frame, app, incoming, missed, transport, server, stale>>

(* ReadPacket fails: the last event of this readLoop. *)
ReceiveFails(k) ==
    /\ reader[k].at = "read"
    /\ link[k] # "up"
    /\ Step(k, [at |-> "emit", event |-> DownEvent(k)])
    /\ UNCHANGED <<ui, frame, app, incoming, got, missed, transport, server,
                   stale>>

InHand(k) == wire[k][got[k]]

(* handlePacket, for the packets that need no look at the client. *)
HandleSystem(k) ==
    /\ reader[k].at = "handle"
    /\ InHand(k).kind \in {"system", "auth_ok", "error"}
    /\ Step(k, [at |-> "emit", event |->
            CASE InHand(k).kind = "system"  -> ShowEvent(k)
              [] InHand(k).kind = "auth_ok" -> AuthEvent(k, InHand(k).user)
              [] InHand(k).kind = "error"   -> StatusEvent(k)])
    /\ UNCHANGED <<ui, frame, app, incoming, got, missed, transport, server,
                   stale>>

(* UpdatePeers takes the whole list or, for one bad key, none of it. *)
UpdatePeers(p) ==
    peers' = [peers EXCEPT ![client] = @ \/ p.ok]

HandlePeerSync(k) ==
    /\ reader[k].at = "handle"
    /\ InHand(k).kind = "peer_sync"
    /\ MuFree
    /\ IF Active(k) /\ client # 0
       THEN /\ UpdatePeers(InHand(k))
            /\ Step(k, IF InHand(k).ok THEN At("wake")
                       ELSE [at |-> "emit", event |-> StatusEvent(k)])
       ELSE Step(k, At("wake")) /\ UNCHANGED peers
    /\ UNCHANGED <<ui, frame, app, incoming, got, missed, key, link, server,
                   stale>>

(* decryptIncomingMessage and DecryptMessage: the key of the current client *)
(* opens what is addressed to the current username.                         *)
Decrypts(k, name) ==
    /\ Active(k) /\ client # 0
    /\ InHand(k).to = name
    /\ InHand(k).key = key[client]

HandleMessage(k) ==
    /\ reader[k].at = "handle"
    /\ InHand(k).kind = "message"
    /\ MuFree
    /\ IF Decrypts(k, session.username)
       THEN /\ Step(k, [at |-> "emit", event |-> ShowEvent(k)])
            /\ UNCHANGED missed
       ELSE /\ Step(k, IF InHand(k).history THEN At("wake")
                       ELSE [at |-> "emit", event |-> StatusEvent(k)])
            /\ missed' = missed \cup {<<k, got[k]>>}
    /\ UNCHANGED <<ui, frame, app, incoming, got, transport, server, stale>>

(* The UI goroutine writes Session.Username without the mutex this read     *)
(* holds: a pointer without its length, or a length without its pointer.    *)
TornName(k) ==
    /\ "tear" \in ClientEnv
    /\ ui = "naming"
    /\ reader[k].at = "handle"
    /\ InHand(k).kind = "message"
    /\ ui' = "gone"
    /\ UNCHANGED <<frame, app, incoming, readers, transport, server, stale>>

(* MUTANT: the loop goes on after an error. *)
ReadOn(e) == At("wake")
AfterEvent(e) == At(IF e.kind = "status" /\ e.down THEN "exit" ELSE "wake")

(* MUTANT: every event goes through. *)
EmitAlways(k) == TRUE
Emits(k) == Active(k)

(* emit: the check, under the mutex ... *)
EmitCheck(k) ==
    /\ reader[k].at = "emit"
    /\ MuFree
    /\ Step(k, IF Emits(k) THEN [reader[k] EXCEPT !.at = "push"]
                           ELSE AfterEvent(reader[k].event))
    /\ UNCHANGED <<ui, frame, app, incoming, got, missed, transport, server,
                   stale>>

(* MUTANT: a full channel swallows the event, as the server's does. *)
DeliverOrDrop(q, e) == {IF Len(q) < IncomingCap THEN Append(q, e) ELSE q}
Deliver(q, e) == IF Len(q) < IncomingCap THEN {Append(q, e)} ELSE {}

(* ... and the send, without it, which waits for room. *)
EmitPush(k) ==
    /\ reader[k].at = "push"
    /\ \E q \in Deliver(incoming, reader[k].event) : incoming' = q
    /\ Step(k, AfterEvent(reader[k].event))
    /\ UNCHANGED <<ui, frame, app, got, missed, transport, server, stale>>

(* MUTANT: nobody asks for a frame. *)
Unnoticed == frame
Invalidated == TRUE

(* Window.Invalidate; then the next packet, or the end. *)
Wake(k) ==
    /\ reader[k].at \in {"wake", "exit"}
    /\ frame' = Invalidated
    /\ Step(k, At(IF reader[k].at = "wake" THEN "read" ELSE "done"))
    /\ UNCHANGED <<ui, app, incoming, got, missed, transport, server, stale>>

-----------------------------------------------------------------------------
(* The UI goroutine: a frame drains Incoming, then lays out a view.  BOUND:  *)
(* one click is handled in a frame, and a frame that dials does nothing else.*)

BeginFrame ==
    /\ ui = "idle"
    /\ frame
    /\ frame' = FALSE
    /\ ui' = "drain"
    /\ UNCHANGED <<app, incoming, readers, transport, server, stale>>

(* applyEvent *)
ApplyMessage ==
    /\ ui = "drain"
    /\ incoming # <<>> /\ Head(incoming).kind = "message"
    /\ incoming' = Tail(incoming)
    /\ chat' = Append(chat, <<Head(incoming).conn, Head(incoming).nth>>)
    /\ stale' = (stale \/ Head(incoming).conn # token)
    /\ UNCHANGED <<ui, frame, client, token, session, readers, transport, server>>

(* Session.Username takes two stores. *)
BeginNaming ==
    /\ ui = "drain"
    /\ incoming # <<>> /\ Head(incoming).kind = "auth"
    /\ ui' = "naming"
    /\ UNCHANGED <<frame, app, incoming, readers, transport, server, stale>>

ApplyAuth ==
    /\ ui = "naming"
    /\ incoming' = Tail(incoming)
    /\ session' = [session EXCEPT !.username = Head(incoming).user,
                                  !.joined = TRUE, !.loading = FALSE]
    /\ stale' = (stale \/ Head(incoming).conn # token)
    /\ ui' = "drain"
    /\ UNCHANGED <<frame, client, token, chat, readers, transport, server>>

(* MUTANT: the session stays joined. *)
StillJoined(s) == [s EXCEPT !.loading = FALSE, !.connected = FALSE]
(* MUTANT: the form stays busy. *)
StillLoading(s) == [s EXCEPT !.connected = FALSE, !.joined = FALSE]
Disconnected(s) ==
    [s EXCEPT !.loading = FALSE, !.connected = FALSE, !.joined = FALSE]

(* MUTANT: any trouble ends the session. *)
ForgetsUser(s) == [s EXCEPT !.loading = FALSE, !.username = NoOne]
Troubled(s) == [s EXCEPT !.loading = FALSE]

ApplyStatus ==
    /\ ui = "drain"
    /\ incoming # <<>> /\ Head(incoming).kind = "status"
    /\ incoming' = Tail(incoming)
    /\ session' = IF Head(incoming).down THEN Disconnected(session)
                  ELSE Troubled(session)
    /\ stale' = (stale \/ Head(incoming).conn # token)
    /\ UNCHANGED <<ui, frame, client, token, chat, readers, transport, server>>

Drained ==
    /\ ui = "drain"
    /\ incoming = <<>>
    /\ ui' = IF session.joined THEN "chat_view" ELSE "auth_view"
    /\ UNCHANGED <<frame, app, incoming, readers, transport, server, stale>>

(* Nothing was clicked. *)
EndFrame ==
    /\ ui \in {"auth_view", "chat_view"}
    /\ ui' = "idle"
    /\ UNCHANGED <<frame, app, incoming, readers, transport, server, stale>>

(* Input, or the window system, asks for a frame. *)
Input ==
    /\ ui = "idle"
    /\ ~frame
    /\ frame' = TRUE
    /\ UNCHANGED <<ui, app, incoming, readers, transport, server, stale>>

(* DestroyEvent: the window goes, and with it the process. *)
Destroy ==
    /\ ui = "idle"
    /\ ui' = "gone"
    /\ UNCHANGED <<frame, app, incoming, readers, transport, server, stale>>

-----------------------------------------------------------------------------
(* The authentication view.                                                 *)

Shut(k) == IF k = 0 THEN link ELSE [link EXCEPT ![k] = "shut"]

(* The reconnect button, as far as the call of Dial. *)
Reconnect ==
    /\ ui = "auth_view"
    /\ token < MaxConns \/ "cut" \in ClientEnv  \* or DialFails is all there is
    /\ session' = [session EXCEPT !.loading = FALSE]
    /\ link' = Shut(client)
    /\ ui' = "dial"
    /\ UNCHANGED <<frame, client, token, chat, incoming, readers, key, peers,
                   server, stale>>

(* Dial: the handshake is over, the server has said its first word.          *)
Dial(k) ==
    /\ link' = [link EXCEPT ![k] = "up"]
    /\ wire' = [wire EXCEPT ![k] = <<[kind |-> "system"]>>]

DialSucceeds ==
    /\ ui = "dial"
    /\ token < MaxConns
    /\ Dial(token + 1)
    /\ token' = token + 1
    /\ client' = token + 1
    /\ Step(token + 1, At("read"))
    /\ session' = [session EXCEPT !.connected = TRUE]
    /\ ui' = "idle"
    /\ UNCHANGED <<frame, chat, incoming, got, missed, key, peers, asked, served,
                   auth, stale>>

(* Client becomes nil, the token stays. *)
DialFails ==
    /\ ui = "dial"
    /\ "cut" \in ClientEnv
    /\ client' = 0
    /\ session' = [session EXCEPT !.connected = FALSE]
    /\ ui' = "idle"
    /\ UNCHANGED <<frame, token, chat, incoming, readers, transport, server,
                   stale>>

(* MUTANT: the button does not look at Loading. *)
AnyTime == TRUE
NotLoading == ~session.loading

(* MUTANT: the key outlives its connection. *)
PooledKey(k, a) ==
    IF \E j \in Conns : key[j] # NoOne
    THEN key[CHOOSE j \in Conns : key[j] # NoOne] ELSE a
(* EnsureIdentityKey keeps the key the connection already has. *)
KeyOf(k, a) == IF key[k] = NoOne THEN a ELSE key[k]

(* SendAuth: whatever becomes of the packet, the key is there first. *)
SendAuth(a) == key' = [key EXCEPT ![client] = KeyOf(client, a)]

Connected == client # 0 /\ link[client] = "up"

(* SubmitAuth: sign-up and log-in send the same things. *)
SubmitAuth(a) ==
    /\ ui = "auth_view"
    /\ NotLoading
    /\ Connected
    /\ Len(asked[client]) < MaxReqs
    /\ SendAuth(a)
    /\ asked' = [asked EXCEPT ![client] = Append(@, a)]
    /\ session' = [session EXCEPT !.loading = TRUE]
    /\ ui' = "idle"
    /\ UNCHANGED <<frame, client, token, chat, incoming, readers, peers, link,
                   served, auth, wire, stale>>

(* The write fails: the error is shown and the button is free again. *)
SubmitFails(a) ==
    /\ ui = "auth_view"
    /\ NotLoading
    /\ ~Connected
    /\ IF client = 0 THEN UNCHANGED key ELSE SendAuth(a)
    /\ ui' = "idle"
    /\ UNCHANGED <<frame, app, incoming, readers, peers, link, server, stale>>

(* The kernel takes the bytes although nobody will read them. *)
SubmitLost(a) ==
    /\ "latewrite" \in ClientEnv
    /\ ui = "auth_view"
    /\ NotLoading
    /\ client # 0
    /\ link[client] = "cut"
    /\ SendAuth(a)
    /\ session' = [session EXCEPT !.loading = TRUE]
    /\ ui' = "idle"
    /\ UNCHANGED <<frame, client, token, chat, incoming, readers, peers, link,
                   server, stale>>

-----------------------------------------------------------------------------
(* The chat view.                                                           *)

(* EncryptMessage wraps the message key for everybody in the peer map, and   *)
(* wants at least one. *)
HasRecipients == peers[client]

(* One's own line goes into the chat at once, as number 0. *)
Own == <<client, 0>>

SendMessage ==
    /\ ui = "chat_view"
    /\ client # 0
    /\ HasRecipients
    /\ link[client] = "up" \/ (link[client] = "cut" /\ "latewrite" \in ClientEnv)
    /\ \A i \in DOMAIN chat : chat[i] # Own  \* BOUND: one line a connection
    /\ chat' = Append(chat, Own)
    /\ frame' = TRUE
    /\ ui' = "idle"
    /\ UNCHANGED <<client, token, session, incoming, readers, transport, server,
                   stale>>

Blank == [username |-> NoOne, joined |-> FALSE, connected |-> FALSE,
          loading |-> FALSE]

(* Logout, also by way of the delete-account dialogue. *)
Logout ==
    /\ ui = "chat_view"
    /\ link' = Shut(client)
    /\ client' = 0
    /\ chat' = <<>>
    /\ session' = Blank
    /\ frame' = TRUE
    /\ ui' = "idle"
    /\ UNCHANGED <<token, incoming, readers, key, peers, server, stale>>

-----------------------------------------------------------------------------
(* The other end: server.go as this client sees it.  The replies to one     *)
(* login are sent without interruption.                                      *)

Says(k, ps) ==
    /\ Len(wire[k]) + Len(ps) <= MaxWire
    /\ wire' = [wire EXCEPT ![k] = @ \o ps]
    /\ UNCHANGED <<ui, frame, app, incoming, readers, transport, asked, stale>>

Pending(k) == link[k] = "up" /\ served[k] < Len(asked[k])

Refuse(k) ==
    /\ Pending(k)
    /\ served' = [served EXCEPT ![k] = @ + 1]
    /\ Says(k, <<[kind |-> "error"]>>)
    /\ UNCHANGED auth

(* A message is wrapped under whatever key its author had for the reader:    *)
(* this connection's, or one that is lost or another account's (the reader's *)
(* key file was replaced, or the reader once logged in on a connection that   *)
(* had another account's key; the author's list may be an old one).           *)
Mail(u, old) == [kind: {"message"}, history: {old}, to: {u}, key: Keys]

HistoryRows(u) == UNION {[1..n -> Mail(u, TRUE)] : n \in 0..MaxHistory}

Welcome(k) ==
    /\ Pending(k)
    /\ served' = [served EXCEPT ![k] = @ + 1]
    /\ LET u == asked[k][served[k] + 1]
       IN  /\ auth' = [auth EXCEPT ![k] = u]
           /\ \E rows \in HistoryRows(u) :
                Says(k, <<[kind |-> "auth_ok", user |-> u]>> \o rows
                          \o <<[kind |-> "peer_sync", ok |-> TRUE]>>)

(* finishAuth fails after auth_ok, when the history cannot be read. *)
HalfWelcome(k) ==
    /\ Pending(k)
    /\ served' = [served EXCEPT ![k] = @ + 1]
    /\ auth' = [auth EXCEPT ![k] = asked[k][served[k] + 1]]
    /\ Says(k, <<[kind |-> "auth_ok", user |-> asked[k][served[k] + 1]],
                 [kind |-> "error"]>>)

(* Somebody joins, leaves or writes. *)
News(k) ==
    [kind: {"system"}] \cup Mail(auth[k], FALSE) \cup [kind: {"peer_sync"}, ok: BOOLEAN]

Broadcast(k) ==
    /\ link[k] = "up"
    /\ auth[k] # NoOne
    /\ \E p \in News(k) : Says(k, <<p>>)
    /\ UNCHANGED <<served, auth>>

Cut(k) ==
    /\ "cut" \in ClientEnv
    /\ link[k] = "up"
    /\ link' = [link EXCEPT ![k] = "cut"]
    /\ UNCHANGED <<ui, frame, app, incoming, readers, key, peers, server, stale>>

-----------------------------------------------------------------------------
(* Run dials before the window's first frame, which always comes. *)
Init ==
    /\ ui = "dial"
    /\ frame = TRUE
    /\ client = 0
    /\ token = 0
    /\ session = Blank
    /\ chat = <<>>
    /\ incoming = <<>>
    /\ reader = [k \in Conns |-> At("none")]
    /\ key = [k \in Conns |-> NoOne]
    /\ peers = [k \in Conns |-> FALSE]
    /\ link = [k \in Conns |-> "none"]
    /\ asked = [k \in Conns |-> <<>>]
    /\ served = [k \in Conns |-> 0]
    /\ auth = [k \in Conns |-> NoOne]
    /\ wire = [k \in Conns |-> <<>>]
    /\ got = [k \in Conns |-> 0]
    /\ missed = {}
    /\ stale = FALSE

ReadLoop(k) ==
    \/ Receive(k) \/ ReceiveFails(k)
    \/ HandleSystem(k) \/ HandlePeerSync(k) \/ HandleMessage(k)
    \/ EmitCheck(k) \/ EmitPush(k) \/ Wake(k)

FrameSteps ==
    \/ BeginFrame
    \/ ApplyMessage \/ BeginNaming \/ ApplyAuth \/ ApplyStatus
    \/ Drained \/ EndFrame

Dialled == DialSucceeds \/ DialFails

(* What a click in either view can change; any other button of the sidebar   *)
(* opens a dialogue or picks a colour. *)
AuthActions ==
    \/ Reconnect
    \/ \E a \in Accounts : SubmitAuth(a) \/ SubmitFails(a) \/ SubmitLost(a)

SidebarActions == Logout

Clicks == AuthActions \/ SendMessage \/ SidebarActions

Answer(k) == Refuse(k) \/ Welcome(k) \/ HalfWelcome(k)

(* The window is gone, or nothing is left to do within the bounds. *)
Stopped == ~Alive /\ UNCHANGED vars

Next ==
    \/ Alive /\ \/ \E k \in Conns :
                     ReadLoop(k) \/ TornName(k) \/ Answer(k) \/ Broadcast(k) \/ Cut(k)
                \/ FrameSteps \/ Dialled \/ Clicks \/ Input \/ Destroy
    \/ Stopped

Spec == Init /\ [][Next]_vars

-----------------------------------------------------------------------------
ClientTypeOK ==
    /\ ui \in UiStates
    /\ frame \in BOOLEAN
    /\ client \in Conns \cup {0}
    /\ token \in Conns \cup {0}
    /\ session \in [username: Accounts \cup {NoOne}, joined: BOOLEAN,
                    connected: BOOLEAN, loading: BOOLEAN]
    /\ chat \in Seq((Conns \cup {0}) \X Nat)
    /\ incoming \in Seq(Event)
    /\ reader \in [Conns -> ReaderStates]
    /\ key \in [Conns -> Accounts \cup {NoOne}]
    /\ peers \in [Conns -> BOOLEAN]
    /\ link \in [Conns -> {"none", "up", "cut", "shut"}]
    /\ asked \in [Conns -> Seq(Accounts)]
    /\ served \in [Conns -> Nat]
    /\ auth \in [Conns -> Accounts \cup {NoOne}]
    /\ wire \in [Conns -> Seq(Packet)]
    /\ got \in [Conns -> Nat]
    /\ missed \in SUBSET (Conns \X Nat)
    /\ stale \in BOOLEAN
=============================================================================
