---------------------------- MODULE MCChatClient ----------------------------
(* Instances of ChatClient for TLC. *)
EXTENDS ChatClientProperties, TLC

Symmetry == Permutations(Accounts)

(* Asking for a frame and making an event of a plain packet touch nothing   *)
(* another goroutine waits for (a frame may come at any time anyway), so the *)
(* safety run lets a readLoop that is about to do so go first.               *)
EagerReaders ==
    \A k \in Conns :
      \/ reader[k].at \in {"wake", "exit"}
      \/ reader[k].at = "handle" /\ InHand(k).kind \in {"system", "auth_ok", "error"}
      => reader'[k] # reader[k]

(* An idle UI goroutine allows nothing that one about to drain does not. *)
EagerFrames == ui = "idle" => ui' # ui \/ (~frame /\ frame')

(* BOUND: beside the replies to a login, the server sends a packet only when *)
(* the readLoop waits for one; the user reconnects only on a connection with *)
(* at most three packets; two connections carry five together, or three each  *)
(* without messages, for two logins.                                         *)
HasMail(k) == \E i \in DOMAIN wire[k] : wire[k][i].kind = "message"
FewPackets ==
    /\ \A k \in Conns :
         served'[k] = served[k] /\ wire'[k] # wire[k] /\ link[k] = "up"
           => reader[k].at = "read" /\ got[k] = Len(wire[k])
    /\ ui' = "dial" /\ token > 0 => token < MaxConns /\ Len(wire[1]) <= 3
    /\ \/ Len(wire'[1]) + Len(wire'[2]) <= 5
       \/ \A k \in Conns : Len(wire'[k]) <= 3 /\ ~HasMail(k)'
    /\ Len(asked'[1]) + Len(asked'[2]) <= 2

(* A connection that was replaced, whose readLoop has ended and whose events *)
(* have been applied: no action and no property looks at it again.           *)
Settled(k) ==
    /\ 0 < k /\ k < token
    /\ reader[k].at = "done"
    /\ \A i \in DOMAIN incoming : incoming[i].conn # k

(* Of the key that a message is wrapped under, all that counts is whether it *)
(* is the connection's, which does not change once messages come; and of a   *)
(* packet that is behind the readLoop, whether it was a line for the chat.   *)
Behind(k, i) ==
    CASE wire[k][i].kind = "message" -> <<"message", Openable(k, i)>>
      [] wire[k][i].kind = "system"  -> <<"system">>
      [] OTHER                       -> <<"other">>
Wrapped(k) ==
    [i \in DOMAIN wire[k] |->
       IF i < got[k] THEN Behind(k, i)
       ELSE IF wire[k][i].kind = "message"
       THEN <<wire[k][i].history, wire[k][i].to, Openable(k, i)>>
       ELSE wire[k][i]]

LiveView ==
    <<ui, ui = "idle" => frame, client, token, session, incoming, stale,
      SelectSeq(chat, LAMBDA line : line[1] = client),
      {m \in missed : m[1] = client},
      [k \in Conns |->
         IF Settled(k) THEN <<Len(wire[k])>>
         ELSE <<reader[k], key[k], peers[k], link[k], asked[k], served[k],
                auth[k], Wrapped(k), got[k]>>]>>
=============================================================================
