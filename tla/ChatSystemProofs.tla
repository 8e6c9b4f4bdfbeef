-------------------------- MODULE ChatSystemProofs --------------------------
(***************************************************************************)
(* Theorems about ChatSystem for every number of programs, accounts and     *)
(* messages.                                                                *)
(***************************************************************************)
EXTENDS ChatSystemProperties, Integers, TLAPS

USE IdentityAssumption

-----------------------------------------------------------------------------
(* The strengthenings that make the properties inductive.                   *)

(* A program that has been started has an account, and it has a key from     *)
(* the moment it is ready on.                                                *)
KeyInv ==
    \A c \in Conns :
      /\ prog[c] # "off" => who[c] \in Users
      /\ prog[c] \in {"off", "start", "make", "write", "failed"} => key[c] = NoOne
      /\ prog[c] \in {"ready", "in"} => key[c] # NoOne

(* A file that is not raced has one writer, and what it holds then is every  *)
(* key that the programs of the account have, or had when they ended.         *)
FileInv ==
    \A c \in Conns : who[c] \in Users \ raced =>
      /\ key[c] # NoOne => file[who[c]] = key[c]
      /\ prog[c] = "write" =>
           /\ file[who[c]] = "torn"
           /\ \A d \in Conns : prog[d] = "write" /\ who[d] = who[c] => d = c

(* A member's connection serves the member's account, and who is logged in   *)
(* is a member.                                                              *)
MemberInv ==
    /\ \A u \in Users : member[u] # NoOne =>
         /\ who[member[u]] = u
         /\ key[member[u]] # NoOne
         /\ prog[member[u]] \in {"in", "dead"}
    /\ \A c \in Conns : prog[c] = "in" => member[who[c]] = c

(* An entry of a list of peers: whoever it names is or was behind it.        *)
Genuine(e) == who[e.key] = e.user /\ key[e.key] # NoOne

Peer == [user: Users, key: Conns]

MailRow == Room!Row(Conns, Users, Stamps)
Message == [kind: {"message"}, mid: Conns, from: Users, to: Users, at: Stamps]

(* What the room may have put into the box of connection c. *)
Packet ==
    {[kind |-> "handshake_ok"]} \cup [kind: {"auth_ok", "joined", "left"}, user: Users]
      \cup [kind: {"peers"}, peers: SUBSET Peer]
      \cup [kind: {"history"}, row: MailRow] \cup Message

(* Mail was encrypted to the account it goes to, which has a key, and lists  *)
(* name whoever is behind.                                                   *)
Proper(c, p) ==
    /\ p.kind = "peers" => \A e \in p.peers : Genuine(e)
    /\ p.kind = "history" =>
         p.row.to = who[c] /\ key[c] # NoOne /\ p.row.to \in Recipients(p.row.mid)
    /\ p.kind = "message" =>
         p.to = who[c] /\ key[c] # NoOne /\ p.to \in Recipients(p.mid)

BoxInv ==
    /\ box \in [Conns -> Seq(Packet)]
    /\ \A c \in Conns : \A i \in DOMAIN box[c] : Proper(c, box[c][i])

(* Rows and live packets are only for readers the message was encrypted to,  *)
(* by an author that has an account.                                          *)
MailInv ==
    /\ \A c \in Conns : \A e \in peers[c] \cup sealed[c] : Genuine(e)
    /\ \A c \in Conns : sealed[c] # {} => who[c] \in Users /\ key[c] # NoOne
    /\ archive \in Room!Table(Conns, Users, Stamps)
    /\ \A r \in archive.rows \cup change.due : r.to \in Recipients(r.mid)
    /\ \A r \in change.due : r.to = change.who
    /\ said \in [Conns -> SUBSET Message]
    /\ \A c \in Conns : \A p \in said[c] : p.to \in Recipients(p.mid)

Steps == {"none", "look", "recall", "joined peers", "joined", "left peers", "left"}

Unread(c) == (heard[c] + 1)..Len(box[c])

(* The list that c has once it has read its box is the room's, unless the    *)
(* room's is one that c rejects.                                             *)
UpToDate(c) ==
    \/ /\ Accepted(Room!PeerList) => peers[c] = Room!PeerList
       /\ \A i \in Unread(c) : box[c][i].kind # "peers"
    \/ \E i \in Unread(c) :
         /\ box[c][i] = [kind |-> "peers", peers |-> Room!PeerList]
         /\ \A j \in Unread(c) : j > i => box[c][j].kind # "peers"

(* From the moment the lists have been sent, until the next change, for whom *)
(* they reached.                                                             *)
ViewInv ==
    /\ change \in [who: Users \cup {NoOne}, step: Steps, due: SUBSET MailRow]
    /\ change.step # "none" => change.who \in Users
    /\ \A c \in Conns :
         /\ heard[c] <= Len(box[c])
         /\ prog[c] # "in" => heard[c] = 0
         /\ prog[c] = "in" /\ change.step \in {"none", "joined", "left"} /\ c \notin untold
              => UpToDate(c)

-----------------------------------------------------------------------------
(* The programs and their key files, without the room.                      *)

KeyTypeOK ==
    /\ prog \in [Conns -> ProgStates]
    /\ who \in [Conns -> Users \cup {NoOne}]
    /\ key \in [Conns -> Conns \cup {NoOne}]
    /\ file \in [Users -> Conns \cup {"none", "torn"}]
    /\ raced \in SUBSET Users
    /\ halfway \in SUBSET Users

KeyPart == KeyTypeOK /\ KeyInv /\ FileInv /\ FileIsUsable

(* Programs that are ready log in, and the server's death ends them. *)
Proceed ==
    /\ prog' \in [Conns -> ProgStates]
    /\ \A c \in Conns : prog'[c] # prog[c] =>
         prog[c] \in {"ready", "in"} /\ prog'[c] \in {"in", "dead"}
    /\ UNCHANGED <<who, key, file, raced, halfway>>

KeyMoves ==
    \/ Proceed
    \/ \E c \in Conns :
         \/ \E u \in Users : Begin(c, u)
         \/ ReadKeyFile(c) \/ TryAgain(c) \/ TruncateKeyFile(c) \/ WriteKeyFile(c)
         \/ GiveUp(c) \/ WriteKeyFails(c) \/ End(c)

(* All that a step of the system does to programs and key files. *)
LEMMA StepMoves ==
  ASSUME KeyTypeOK, [Next]_vars
  PROVE  KeyMoves
<1>1. CASE UNCHANGED identity
  BY <1>1 DEF identity, KeyMoves, Proceed, KeyTypeOK
<1>2. ASSUME NEW c \in Conns, LogIn(c) PROVE KeyMoves
  BY <1>2 DEF LogIn, KeyMoves, Proceed, KeyTypeOK, ProgStates
<1>3. ASSUME NEW c \in Conns, ClientSteps(c), ~LogIn(c) PROVE KeyMoves
  BY <1>1, <1>3 DEF ClientSteps, Start, KeySteps, Quit, ReadPacket, EncryptMessage,
                    MessageArrives, KeyMoves
<1>4. CASE ServerRestarts
  BY <1>4 DEF ServerRestarts, KeyMoves, Proceed, KeyTypeOK, ProgStates
<1>5. CASE (\E u \in Users : DropOut(u)) \/ RoomSteps \/ Finished \/ UNCHANGED vars
  BY <1>1, <1>5 DEF DropOut, RoomSteps, Finished, vars
<1> QED BY <1>2, <1>3, <1>4, <1>5 DEF Next

(* Reading a file that has a key gives that key. *)
LEMMA Reading ==
  ASSUME NEW found \in Conns \cup {"none", "torn"}
  PROVE  /\ AfterReading(found) = "make" <=> found = "none"
         /\ AfterReading(found) = "failed" <=> found = "torn"
         /\ AfterReading(found) = "ready" <=> found \in Conns
         /\ AfterReading(found) \in {"make", "failed", "ready"}
<1>1. CASE found = "none"
  BY <1>1 DEF AfterReading
<1>2. CASE found = "torn"
  BY <1>2 DEF AfterReading
<1>3. CASE found \in Conns
  <2>1. found # "none" /\ found # "torn"
    BY <1>3
  <2>2. AfterReading(found) = "ready"
    BY <2>1 DEF AfterReading
  <2> QED BY <1>3, <2>1, <2>2
<1> QED BY <1>1, <1>2, <1>3

(* The programs' steps on the key files keep the types. *)
LEMMA KeyTypeStep == KeyTypeOK /\ KeyInv /\ KeyMoves => KeyTypeOK' /\ KeyInv'
<1> SUFFICES ASSUME KeyTypeOK, KeyInv, KeyMoves PROVE KeyTypeOK' /\ KeyInv'
  OBVIOUS
<1> USE DEF KeyTypeOK, ProgStates
<1>1. CASE Proceed
  BY <1>1 DEF Proceed, KeyInv
<1>2. ASSUME NEW c \in Conns, NEW u \in Users, Begin(c, u) PROVE KeyTypeOK' /\ KeyInv'
  BY <1>2 DEF Begin, KeyInv
<1>3. ASSUME NEW c \in Conns, ReadKeyFile(c) PROVE KeyTypeOK' /\ KeyInv'
  <2> DEFINE found == file[who[c]]
  <2>1. /\ prog[c] = "start" /\ found \in Conns \cup {"none", "torn"}
        /\ prog' = [prog EXCEPT ![c] = AfterReading(found)]
        /\ key' = [key EXCEPT ![c] = IF AfterReading(found) = "ready" THEN found ELSE @]
        /\ UNCHANGED <<who, file, raced, halfway>>
    BY <1>3 DEF ReadKeyFile, Loaded, KeyInv
  <2> HIDE DEF found
  <2>2. KeyTypeOK'
    BY <2>1, Reading
  <2>3. ASSUME NEW d \in Conns, d # c PROVE prog'[d] = prog[d] /\ key'[d] = key[d]
    BY <2>1, <2>3
  <2>4. /\ who[c] \in Users /\ key[c] = NoOne
        /\ prog'[c] = AfterReading(found)
        /\ key'[c] = IF AfterReading(found) = "ready" THEN found ELSE key[c]
    BY <2>1 DEF KeyInv
  <2> QED BY <2>1, <2>2, <2>3, <2>4, Reading DEF KeyInv
<1>4. ASSUME NEW c \in Conns, TryAgain(c) PROVE KeyTypeOK' /\ KeyInv'
  BY <1>4 DEF TryAgain, KeyInv
<1>5. ASSUME NEW c \in Conns, TruncateKeyFile(c) PROVE KeyTypeOK' /\ KeyInv'
  BY <1>5 DEF TruncateKeyFile, KeyInv
<1>6. ASSUME NEW c \in Conns, WriteKeyFile(c) PROVE KeyTypeOK' /\ KeyInv'
  BY <1>6 DEF WriteKeyFile, Written, KeyInv
<1>7. ASSUME NEW c \in Conns, End(c) PROVE KeyTypeOK' /\ KeyInv'
  BY <1>7 DEF End, KeyInv
<1>8. ASSUME NEW c \in Conns, GiveUp(c) PROVE KeyTypeOK' /\ KeyInv'
  BY <1>8 DEF GiveUp, KeyInv
<1>9. ASSUME NEW c \in Conns, WriteKeyFails(c) PROVE KeyTypeOK' /\ KeyInv'
  BY <1>9 DEF WriteKeyFails, Written, KeyInv
<1> QED BY <1>1, <1>2, <1>3, <1>4, <1>5, <1>6, <1>7, <1>8, <1>9 DEF KeyMoves

(* A file has one writer and one key as long as it is not raced. *)
LEMMA FileStep == KeyPart /\ KeyMoves => FileInv'
<1> SUFFICES ASSUME KeyPart, KeyMoves PROVE FileInv'
  OBVIOUS
<1> USE DEF KeyPart, KeyTypeOK, ProgStates
<1>1. CASE Proceed
  BY <1>1 DEF Proceed, FileInv
<1>2. ASSUME NEW c \in Conns, NEW u \in Users, Begin(c, u) PROVE FileInv'
  BY <1>2 DEF Begin, FileInv, KeyInv
<1>3. ASSUME NEW c \in Conns, ReadKeyFile(c) PROVE FileInv'
  <2> DEFINE found == file[who[c]]
  <2>1. /\ prog[c] = "start" /\ found \in Conns \cup {"none", "torn"}
        /\ prog' = [prog EXCEPT ![c] = AfterReading(found)]
        /\ key' = [key EXCEPT ![c] = IF AfterReading(found) = "ready" THEN found ELSE @]
        /\ UNCHANGED <<who, file, raced, halfway>>
        /\ key[c] = NoOne
    BY <1>3 DEF ReadKeyFile, Loaded, KeyInv
  <2>2. ASSUME NEW d \in Conns, d # c PROVE prog'[d] = prog[d] /\ key'[d] = key[d]
    BY <2>1, <2>2
  <2>3. key'[c] # NoOne => key'[c] = file[who[c]]
    BY <2>1
  <2>4. prog'[c] # "write"
    <3> HIDE DEF found
    <3> QED BY <2>1, Reading
  <2> HIDE DEF found
  <2> QED BY <2>1, <2>2, <2>3, <2>4 DEF FileInv
<1>4. ASSUME NEW c \in Conns, TryAgain(c) PROVE FileInv'
  BY <1>4 DEF TryAgain, FileInv
<1>5. ASSUME NEW c \in Conns, TruncateKeyFile(c) PROVE FileInv'
  <2>1. /\ prog[c] = "make" /\ who[c] \in Users
        /\ file' = [file EXCEPT ![who[c]] = "torn"]
        /\ prog' = [prog EXCEPT ![c] = "write"]
        /\ raced' = IF file[who[c]] = "none" THEN raced ELSE raced \cup {who[c]}
        /\ UNCHANGED <<who, key, halfway>>
    BY <1>5 DEF TruncateKeyFile, KeyInv
  <2>2. ASSUME NEW d \in Conns, who[d] \in Users \ raced', who[d] # who[c]
        PROVE  /\ key[d] # NoOne => file'[who[d]] = key[d]
               /\ prog'[d] = "write" =>
                    /\ file'[who[d]] = "torn"
                    /\ \A e \in Conns : prog'[e] = "write" /\ who[e] = who[d] => e = d
    BY <2>1, <2>2 DEF FileInv
  <2>3. ASSUME NEW d \in Conns, who[d] \in Users \ raced', who[d] = who[c]
        PROVE  key[d] = NoOne /\ (prog[d] # "write") /\ file'[who[d]] = "torn"
    <3>1. file[who[c]] = "none" /\ who[d] \in Users \ raced
      BY <2>1, <2>3
    <3>2. key[d] # NoOne => file[who[d]] = key[d]
      BY <3>1 DEF FileInv
    <3>3. prog[d] = "write" => file[who[d]] = "torn"
      BY <3>1 DEF FileInv
    <3> QED BY <2>1, <2>3, <3>1, <3>2, <3>3
  <2> QED BY <2>1, <2>2, <2>3 DEF FileInv
<1>6. ASSUME NEW c \in Conns, WriteKeyFile(c) PROVE FileInv'
  <2>1. /\ prog[c] = "write" /\ who[c] \in Users
        /\ file' = [file EXCEPT ![who[c]] = c]
        /\ key' = [key EXCEPT ![c] = c]
        /\ prog' = [prog EXCEPT ![c] = "ready"]
        /\ UNCHANGED <<who, raced, halfway>>
    BY <1>6 DEF WriteKeyFile, Written, KeyInv
  <2>2. ASSUME NEW d \in Conns, who[d] \in Users \ raced, who[d] # who[c]
        PROVE  /\ key'[d] # NoOne => file'[who[d]] = key'[d]
               /\ prog'[d] = "write" =>
                    /\ file'[who[d]] = "torn"
                    /\ \A e \in Conns : prog'[e] = "write" /\ who[e] = who[d] => e = d
    BY <2>1, <2>2 DEF FileInv
  <2>3. ASSUME NEW d \in Conns, who[d] \in Users \ raced, who[d] = who[c]
        PROVE  /\ key'[d] # NoOne => file'[who[d]] = key'[d]
               /\ prog'[d] # "write"
    <3>1. CASE d = c
      BY <2>1, <3>1
    <3>2. CASE d # c
      <4>1. file[who[c]] = "torn" /\ prog[d] # "write"
        BY <2>1, <2>3, <3>2 DEF FileInv
      <4>2. key[d] = NoOne
        BY <2>3, <4>1 DEF FileInv
      <4> QED BY <2>1, <3>2, <4>1, <4>2
    <3> QED BY <3>1, <3>2
  <2> QED BY <2>1, <2>2, <2>3 DEF FileInv
<1>7. ASSUME NEW c \in Conns, GiveUp(c) \/ End(c) PROVE FileInv'
  BY <1>7 DEF GiveUp, End, FileInv
<1>8. ASSUME NEW c \in Conns, WriteKeyFails(c) PROVE FileInv'
  <2>1. /\ prog[c] = "write" /\ who[c] \in Users
        /\ \A u \in Users \ {who[c]} : file'[u] = file[u]
        /\ prog' = [prog EXCEPT ![c] = "failed"]
        /\ UNCHANGED <<who, key, raced>>
    BY <1>8 DEF WriteKeyFails, KeyInv
  <2>2. ASSUME NEW d \in Conns, who[d] \in Users \ raced, who[d] # who[c]
        PROVE  /\ key[d] # NoOne => file'[who[d]] = key[d]
               /\ prog'[d] = "write" =>
                    /\ file'[who[d]] = "torn"
                    /\ \A e \in Conns : prog'[e] = "write" /\ who[e] = who[d] => e = d
    BY <2>1, <2>2 DEF FileInv
  <2>3. ASSUME NEW d \in Conns, who[d] \in Users \ raced, who[d] = who[c]
        PROVE  key[d] = NoOne /\ prog'[d] # "write"
    <3>1. file[who[c]] = "torn"
      BY <2>1, <2>3 DEF FileInv
    <3>2. key[d] = NoOne
      BY <2>3, <3>1 DEF FileInv
    <3>3. d # c => prog[d] # "write"
      BY <2>1, <2>3 DEF FileInv
    <3> QED BY <2>1, <3>2, <3>3
  <2> QED BY <2>1, <2>2, <2>3 DEF FileInv
<1> QED BY <1>1, <1>2, <1>3, <1>4, <1>5, <1>6, <1>7, <1>8 DEF KeyMoves

(* A torn file has a writer, or lost one. *)
LEMMA UsableStep == KeyPart /\ KeyMoves => FileIsUsable'
<1> SUFFICES ASSUME KeyPart, KeyMoves, NEW u \in Users, file'[u] = "torn"
             PROVE  u \in halfway' \/ \E c \in Conns : prog'[c] = "write" /\ who'[c] = u
  BY DEF FileIsUsable
<1> USE DEF KeyPart, KeyTypeOK, ProgStates
<1>1. ASSUME file[u] = "torn", halfway \subseteq halfway',
             \A c \in Conns : prog[c] = "write" /\ who[c] = u =>
               u \in halfway' \/ (prog'[c] = "write" /\ who'[c] = u)
      PROVE  u \in halfway' \/ \E c \in Conns : prog'[c] = "write" /\ who'[c] = u
  BY <1>1 DEF FileIsUsable
<1>2. CASE Proceed
  BY <1>1, <1>2 DEF Proceed
<1>3. ASSUME NEW c \in Conns, NEW v \in Users, Begin(c, v)
      PROVE  u \in halfway' \/ \E d \in Conns : prog'[d] = "write" /\ who'[d] = u
  BY <1>1, <1>3 DEF Begin
<1>4. ASSUME NEW c \in Conns, ReadKeyFile(c) \/ TryAgain(c) \/ GiveUp(c)
      PROVE  u \in halfway' \/ \E d \in Conns : prog'[d] = "write" /\ who'[d] = u
  BY <1>1, <1>4 DEF ReadKeyFile, TryAgain, GiveUp
<1>5. ASSUME NEW c \in Conns, TruncateKeyFile(c)
      PROVE  u \in halfway' \/ \E d \in Conns : prog'[d] = "write" /\ who'[d] = u
  <2>1. CASE u = who[c]
    BY <1>5, <2>1 DEF TruncateKeyFile
  <2>2. CASE u # who[c]
    BY <1>1, <1>5, <2>2 DEF TruncateKeyFile
  <2> QED BY <2>1, <2>2
<1>6. ASSUME NEW c \in Conns, WriteKeyFile(c)
      PROVE  u \in halfway' \/ \E d \in Conns : prog'[d] = "write" /\ who'[d] = u
  <2>1. who[c] # u
    BY <1>6 DEF WriteKeyFile, Written
  <2> QED BY <1>1, <1>6, <2>1 DEF WriteKeyFile
<1>7. ASSUME NEW c \in Conns, End(c)
      PROVE  u \in halfway' \/ \E d \in Conns : prog'[d] = "write" /\ who'[d] = u
  BY <1>1, <1>7 DEF End
<1>8. ASSUME NEW c \in Conns, WriteKeyFails(c)
      PROVE  u \in halfway' \/ \E d \in Conns : prog'[d] = "write" /\ who'[d] = u
  <2>1. CASE u = who[c]
    BY <1>8, <2>1 DEF WriteKeyFails
  <2>2. CASE u # who[c]
    BY <1>1, <1>8, <2>2 DEF WriteKeyFails
  <2> QED BY <2>1, <2>2
<1> QED BY <1>2, <1>3, <1>4, <1>5, <1>6, <1>7, <1>8 DEF KeyMoves

(* At the start there are no key files. *)
LEMMA KeyPartInit == Init => KeyPart
BY DEF Init, KeyInit, KeyPart, KeyTypeOK, ProgStates, KeyInv, FileInv, FileIsUsable

(* Every step of the system keeps the invariant about the keys. *)
LEMMA KeyPartStep == KeyPart /\ [Next]_vars => KeyPart'
<1> SUFFICES ASSUME KeyPart, [Next]_vars PROVE KeyPart'
  OBVIOUS
<1>1. KeyMoves
  BY StepMoves DEF KeyPart
<1> QED BY <1>1, KeyTypeStep, FileStep, UsableStep DEF KeyPart

(* It holds in every reachable state. *)
LEMMA KeyPartSafe == Spec => []KeyPart
BY KeyPartInit, KeyPartStep, PTL DEF Spec

(* The key a session has announced is the one its key file holds, unless two *)
(* first starts raced for the file.                                          *)
THEOREM KeysKept == Spec => []AnnouncedIsOnDisk
<1>1. KeyPart => AnnouncedIsOnDisk
  BY DEF KeyPart, KeyInv, FileInv, AnnouncedIsOnDisk
<1> QED BY <1>1, KeyPartSafe, PTL

(* A key file is whole unless a write of it ended in the middle, by a kill or *)
(* by an error.                                                               *)
THEOREM FilesUsable == Spec => []FileIsUsable
<1>1. KeyPart => FileIsUsable
  BY DEF KeyPart
<1> QED BY <1>1, KeyPartSafe, PTL

-----------------------------------------------------------------------------
(* What happens to names and keys while the room goes on.                   *)

RoomTypeOK ==
    /\ heard \in [Conns -> Nat]
    /\ peers \in [Conns -> SUBSET Peer]
    /\ sealed \in [Conns -> SUBSET Peer]
    /\ member \in [Users -> Conns \cup {NoOne}]
    /\ untold \in SUBSET Conns

SystemInv ==
    /\ KeyPart /\ RoomTypeOK
    /\ MemberInv /\ BoxInv /\ MailInv /\ ViewInv

(* A key once made, and the name of its holder, are for ever. *)
LEMMA KeysStay ==
  ASSUME KeyPart, KeyMoves
  PROVE  \A c \in Conns : key[c] # NoOne => key'[c] = key[c] /\ who'[c] = who[c]
<1> USE DEF KeyPart, KeyTypeOK, ProgStates, KeyInv
<1>1. CASE Proceed
  BY <1>1 DEF Proceed
<1>2. ASSUME NEW c \in Conns,
             \/ \E u \in Users : Begin(c, u)
             \/ ReadKeyFile(c) \/ TryAgain(c) \/ TruncateKeyFile(c) \/ WriteKeyFile(c)
             \/ GiveUp(c) \/ WriteKeyFails(c) \/ End(c)
      PROVE  \A d \in Conns : key[d] # NoOne => key'[d] = key[d] /\ who'[d] = who[d]
  BY <1>2 DEF Begin, ReadKeyFile, TryAgain, TruncateKeyFile, WriteKeyFile, GiveUp,
              WriteKeyFails, End
<1> QED BY <1>1, <1>2 DEF KeyMoves

(* A genuine entry of a peer list stays genuine. *)
LEMMA GenuineStays ==
  ASSUME KeyPart, KeyMoves, NEW e \in Peer, Genuine(e)
  PROVE  Genuine(e)'
<1>1. e.key \in Conns /\ who[e.key] = e.user /\ key[e.key] # NoOne
  BY DEF Peer, Genuine
<1>2. who'[e.key] = who[e.key] /\ key'[e.key] = key[e.key]
  BY <1>1, KeysStay
<1> QED BY <1>1, <1>2 DEF Genuine

(* What the packets are. *)
LEMMA PacketIs ==
  ASSUME NEW p \in Packet
  PROVE  /\ p.kind = "peers" => p.peers \in SUBSET Peer
         /\ p.kind = "history" => p.row \in MailRow
         /\ p.kind = "message" => p \in Message
         /\ p.kind \in {"handshake_ok", "auth_ok", "joined", "left", "peers", "history",
                        "message"}
BY DEF Packet, Message

(* What is encrypted stays encrypted to all it was encrypted to. *)
Kept == \A c \in Conns : sealed[c] \subseteq sealed'[c]

LEMMA SealedKept ==
  ASSUME RoomTypeOK, [Next]_vars
  PROVE  Kept
<1> USE DEF RoomTypeOK
<1>1. CASE sealed' = sealed
  BY <1>1 DEF Kept
<1>2. ASSUME NEW c \in Conns, EncryptMessage(c) PROVE Kept
  BY <1>2 DEF EncryptMessage, Kept
<1>3. ASSUME NEW c \in Conns, ClientSteps(c), ~EncryptMessage(c) PROVE sealed' = sealed
  <2>1. CASE (\E u \in Users : Start(c, u)) \/ KeySteps(c) \/ LogIn(c) \/ MessageArrives(c)
    BY <2>1 DEF Start, KeySteps, LogIn, MessageArrives, client
  <2>2. CASE Quit(c) \/ ReadPacket(c)
    BY <2>2 DEF Quit, Forget, ReadPacket
  <2> QED BY <1>3, <2>1, <2>2 DEF ClientSteps
<1>4. ServerRestarts => sealed' = sealed
  BY DEF ServerRestarts, Forget
<1>5. ASSUME (\E u \in Users : DropOut(u)) \/ RoomSteps \/ Finished \/ UNCHANGED vars
      PROVE  sealed' = sealed
  BY <1>5 DEF DropOut, RoomSteps, Finished, vars, client
<1> QED BY <1>1, <1>2, <1>3, <1>4, <1>5 DEF Next

LEMMA ReadersKept ==
  ASSUME Kept, NEW m \in Conns
  PROVE  Recipients(m) \subseteq Recipients(m)'
<1>1. sealed[m] \subseteq sealed'[m]
  BY DEF Kept
<1> QED BY <1>1 DEF Recipients

(* A packet that was proper when it was sent stays proper. *)
LEMMA ProperStays ==
  ASSUME KeyPart, KeyMoves, Kept, NEW c \in Conns, NEW p \in Packet, Proper(c, p)
  PROVE  Proper(c, p)'
<1>1. p.kind = "peers" => p.peers \in SUBSET Peer
  BY PacketIs
<1>2. p.kind = "peers" => \A e \in p.peers : Genuine(e)'
  BY <1>1, GenuineStays DEF Proper
<1>3. p.kind \in {"history", "message"} => key'[c] = key[c] /\ who'[c] = who[c] /\ key[c] # NoOne
  BY KeysStay DEF Proper
<1>4. p.kind = "history" => p.row.to \in Recipients(p.row.mid)'
  <2>1. p.kind = "history" => p.row.mid \in Conns
    BY PacketIs DEF MailRow, Room!Row
  <2> QED BY <2>1, ReadersKept DEF Proper
<1>5. p.kind = "message" => p.to \in Recipients(p.mid)'
  <2>1. p.kind = "message" => p.mid \in Conns
    BY PacketIs DEF Message
  <2> QED BY <2>1, ReadersKept DEF Proper
<1> QED BY <1>2, <1>3, <1>4, <1>5 DEF Proper

(* Whoever is present is a peer, and is behind the entry. *)
LEMMA PeerListIs ==
  ASSUME KeyPart, RoomTypeOK, MemberInv
  PROVE  /\ Room!PeerList \in SUBSET Peer
         /\ \A e \in Room!PeerList : Genuine(e)
<1>1. ASSUME NEW u \in Room!Present
      PROVE  /\ [user |-> u, key |-> member[u]] \in Peer
             /\ Genuine([user |-> u, key |-> member[u]])
  BY <1>1 DEF Room!Present, RoomTypeOK, MemberInv, Peer, Genuine
<1> QED BY <1>1 DEF Room!PeerList

(* An offer appends the packet to some of the boxes it is for. *)
LEMMA OfferIs ==
  ASSUME NEW S, NEW p, Room!Offer(S, p)
  PROVE  \E got \in SUBSET S :
           box' = [c \in Conns |-> IF c \in got THEN Append(box[c], p) ELSE box[c]]
BY DEF Room!Offer

(* An offer puts one packet behind each of those boxes, and leaves the       *)
(* others alone.                                                              *)
LEMMA OfferAppends ==
  ASSUME box \in [Conns -> Seq(Packet)], NEW S, NEW p \in Packet, Room!Offer(S, p)
  PROVE  \E got \in SUBSET S :
           /\ box' \in [Conns -> Seq(Packet)]
           /\ \A c \in Conns \ got : box'[c] = box[c]
           /\ \A c \in Conns \cap got :
                /\ DOMAIN box'[c] = DOMAIN box[c] \cup {Len(box[c]) + 1}
                /\ box'[c][Len(box[c]) + 1] = p
                /\ \A i \in DOMAIN box[c] : box'[c][i] = box[c][i]
<1>1. PICK got \in SUBSET S :
        box' = [c \in Conns |-> IF c \in got THEN Append(box[c], p) ELSE box[c]]
  BY DEF Room!Offer
<1>2. ASSUME NEW c \in Conns
      PROVE  /\ box[c] \in Seq(Packet)
             /\ Append(box[c], p) \in Seq(Packet)
             /\ DOMAIN Append(box[c], p) = DOMAIN box[c] \cup {Len(box[c]) + 1}
             /\ Append(box[c], p)[Len(box[c]) + 1] = p
             /\ \A i \in DOMAIN box[c] : Append(box[c], p)[i] = box[c][i]
  <2>1. box[c] \in Seq(Packet)
    OBVIOUS
  <2> HIDE DEF Packet
  <2> QED BY <2>1
<1>3. box' \in [Conns -> Seq(Packet)]
  BY <1>1, <1>2
<1>4. /\ \A c \in Conns \ got : box'[c] = box[c]
      /\ \A c \in Conns \cap got :
           /\ DOMAIN box'[c] = DOMAIN box[c] \cup {Len(box[c]) + 1}
           /\ box'[c][Len(box[c]) + 1] = p
           /\ \A i \in DOMAIN box[c] : box'[c][i] = box[c][i]
  BY <1>1, <1>2
<1> QED BY <1>3, <1>4

(* The boxes stay proper when a proper packet is offered. *)
LEMMA OfferProper ==
  ASSUME BoxInv, KeyPart, KeyMoves, Kept, NEW S, NEW p \in Packet, Room!Offer(S, p),
         \A c \in Conns \cap S : Proper(c, p)'
  PROVE  BoxInv'
<1>1. box \in [Conns -> Seq(Packet)]
  BY DEF BoxInv
<1>2. PICK got \in SUBSET S :
        /\ box' \in [Conns -> Seq(Packet)]
        /\ \A c \in Conns \ got : box'[c] = box[c]
        /\ \A c \in Conns \cap got :
             /\ DOMAIN box'[c] = DOMAIN box[c] \cup {Len(box[c]) + 1}
             /\ box'[c][Len(box[c]) + 1] = p
             /\ \A i \in DOMAIN box[c] : box'[c][i] = box[c][i]
  BY <1>1, OfferAppends
<1>3. ASSUME NEW c \in Conns, NEW i \in DOMAIN box[c], NEW q, q = box[c][i]
      PROVE  Proper(c, q)'
  <2>1. q \in Packet /\ Proper(c, q)
    BY <1>1, <1>3 DEF BoxInv
  <2> QED BY <2>1, ProperStays
<1>4. ASSUME NEW c \in Conns, NEW i \in DOMAIN box'[c], NEW q, q = box'[c][i]
      PROVE  Proper(c, q)'
  <2>1. CASE c \in got
    <3>1. CASE i \in DOMAIN box[c]
      <4>1. q = box[c][i]
        BY <1>2, <1>4, <2>1, <3>1
      <4> QED BY <3>1, <4>1, <1>3
    <3>2. CASE i = Len(box[c]) + 1
      <4>1. q = p
        BY <1>2, <1>4, <2>1, <3>2
      <4> QED BY <2>1, <4>1
    <3> QED BY <1>2, <1>4, <2>1, <3>1, <3>2
  <2>2. CASE c \notin got
    BY <1>2, <1>3, <1>4, <2>2
  <2> QED BY <2>1, <2>2
<1>5. ASSUME NEW c \in Conns, NEW i \in DOMAIN box'[c] PROVE Proper(c, box[c][i])'
  BY <1>4, <1>5 DEF Proper, Genuine, Recipients
<1> QED BY <1>2, <1>5 DEF BoxInv

(* Boxes that nobody adds to stay proper. *)
LEMMA BoxStays ==
  ASSUME BoxInv, KeyPart, KeyMoves, Kept, box' = box
  PROVE  BoxInv'
<1>1. box \in [Conns -> Seq(Packet)]
  BY DEF BoxInv
<1>2. ASSUME NEW c \in Conns, NEW i \in DOMAIN box[c], NEW q, q = box[c][i]
      PROVE  Proper(c, q)'
  <2>1. q \in Packet /\ Proper(c, q)
    BY <1>1, <1>2 DEF BoxInv
  <2> QED BY <2>1, ProperStays
<1>3. ASSUME NEW c \in Conns, NEW i \in DOMAIN box'[c] PROVE Proper(c, box[c][i])'
  BY <1>2, <1>3 DEF Proper, Genuine, Recipients
<1> QED BY <1>1, <1>3 DEF BoxInv

(* Who is in stays in until the program ends, and gets in by logging in.    *)
LEMMA InStays ==
  ASSUME KeyPart, KeyMoves
  PROVE  \A c \in Conns : prog[c] \in {"in", "dead"} => prog'[c] \in {"in", "dead"}
<1> USE DEF KeyPart, KeyTypeOK, ProgStates
<1>1. CASE Proceed
  BY <1>1 DEF Proceed
<1>2. ASSUME NEW c \in Conns,
             \/ \E u \in Users : Begin(c, u)
             \/ ReadKeyFile(c) \/ TryAgain(c) \/ TruncateKeyFile(c) \/ WriteKeyFile(c)
             \/ GiveUp(c) \/ WriteKeyFails(c) \/ End(c)
      PROVE  \A d \in Conns : prog[d] \in {"in", "dead"} => prog'[d] \in {"in", "dead"}
  BY <1>2 DEF Begin, ReadKeyFile, TryAgain, TruncateKeyFile, WriteKeyFile, GiveUp,
              WriteKeyFails, End
<1> QED BY <1>1, <1>2 DEF KeyMoves

(* Only a log-in makes a program a member. *)
LEMMA OnlyLogInLetsIn ==
  ASSUME KeyPart, [Next]_vars, ~ \E c \in Conns : LogIn(c)
  PROVE  \A c \in Conns : prog'[c] = "in" => prog[c] = "in"
<1> USE DEF KeyPart, KeyTypeOK, ProgStates
<1>1. ASSUME NEW c \in Conns,
             \/ \E u \in Users : Begin(c, u)
             \/ TryAgain(c) \/ TruncateKeyFile(c) \/ WriteKeyFile(c)
             \/ GiveUp(c) \/ WriteKeyFails(c) \/ End(c)
      PROVE  \A d \in Conns : prog'[d] = "in" => prog[d] = "in"
  BY <1>1 DEF Begin, TryAgain, TruncateKeyFile, WriteKeyFile, GiveUp, WriteKeyFails, End
<1>2. ASSUME NEW c \in Conns, ReadKeyFile(c)
      PROVE  \A d \in Conns : prog'[d] = "in" => prog[d] = "in"
  <2>1. AfterReading(file[who[c]]) # "in"
    BY <1>2, Reading DEF ReadKeyFile, KeyInv
  <2> QED BY <1>2, <2>1 DEF ReadKeyFile
<1>3. ASSUME NEW c \in Conns, ClientSteps(c)
      PROVE  \A d \in Conns : prog'[d] = "in" => prog[d] = "in"
  BY <1>1, <1>2, <1>3 DEF ClientSteps, Start, KeySteps, Quit, ReadPacket, EncryptMessage,
                          MessageArrives, identity
<1>4. CASE ServerRestarts
  BY <1>4 DEF ServerRestarts
<1>5. CASE (\E u \in Users : DropOut(u)) \/ RoomSteps \/ Finished \/ UNCHANGED vars
  BY <1>5 DEF DropOut, RoomSteps, Finished, vars, identity
<1> QED BY <1>3, <1>4, <1>5 DEF Next

(* Steps in which the room does nothing. *)
LEMMA QuietRoom ==
  ASSUME NEW c \in Conns, ClientSteps(c),
         ~ \E u \in Users : Start(c, u), ~LogIn(c), ~MessageArrives(c)
  PROVE  UNCHANGED room
BY DEF ClientSteps, KeySteps, Quit, ReadPacket, EncryptMessage

-----------------------------------------------------------------------------
(* The members.                                                             *)

(* Who is logged in is a member, by a connection of that account. *)
LEMMA MemberStep == SystemInv /\ [Next]_vars => MemberInv' /\ member' \in [Users -> Conns \cup {NoOne}]
<1> SUFFICES ASSUME SystemInv, [Next]_vars
             PROVE  MemberInv' /\ member' \in [Users -> Conns \cup {NoOne}]
  OBVIOUS
<1> USE DEF SystemInv, RoomTypeOK, KeyPart, KeyTypeOK
<1>1. KeyMoves
  BY StepMoves
<1>2. /\ \A c \in Conns : key[c] # NoOne => key'[c] = key[c] /\ who'[c] = who[c]
      /\ \A c \in Conns : prog[c] \in {"in", "dead"} => prog'[c] \in {"in", "dead"}
  BY <1>1, KeysStay, InStays
<1>3. \A c \in Conns : prog[c] = "in" => who[c] \in Users /\ key[c] # NoOne
  BY DEF KeyInv
<1>4. CASE member' = member /\ ~ \E c \in Conns : LogIn(c)
  <2>1. \A c \in Conns : prog'[c] = "in" => prog[c] = "in"
    BY <1>4, OnlyLogInLetsIn
  <2>2. ASSUME NEW u \in Users, member[u] # NoOne
        PROVE  /\ who'[member[u]] = u /\ key'[member[u]] # NoOne
               /\ prog'[member[u]] \in {"in", "dead"}
    BY <1>2, <2>2 DEF MemberInv
  <2>3. ASSUME NEW c \in Conns, prog'[c] = "in" PROVE member[who'[c]] = c
    BY <1>2, <1>3, <2>1, <2>3 DEF MemberInv
  <2> QED BY <1>4, <2>2, <2>3 DEF MemberInv
<1>5. ASSUME NEW c \in Conns, LogIn(c)
      PROVE  MemberInv' /\ member' \in [Users -> Conns \cup {NoOne}]
  <2>1. /\ prog[c] = "ready" /\ who[c] \in Users /\ member[who[c]] = NoOne
        /\ member' = [member EXCEPT ![who[c]] = c]
        /\ prog' = [prog EXCEPT ![c] = "in"]
        /\ UNCHANGED <<who, key>>
        /\ key[c] # NoOne
    BY <1>5 DEF LogIn, Room!Join, KeyInv
  <2>2. member' \in [Users -> Conns \cup {NoOne}]
    BY <2>1
  <2>3. ASSUME NEW u \in Users, member'[u] # NoOne
        PROVE  /\ who[member'[u]] = u /\ key[member'[u]] # NoOne
               /\ prog'[member'[u]] \in {"in", "dead"}
    <3>1. CASE u = who[c]
      BY <2>1, <3>1
    <3>2. CASE u # who[c]
      BY <2>1, <2>3, <3>2 DEF MemberInv
    <3> QED BY <3>1, <3>2
  <2>4. ASSUME NEW d \in Conns, prog'[d] = "in" PROVE member'[who[d]] = d
    <3>1. CASE d = c
      BY <2>1, <3>1
    <3>2. CASE d # c
      <4>1. prog[d] = "in" /\ member[who[d]] = d
        BY <2>1, <2>4, <3>2 DEF MemberInv
      <4>2. who[d] # who[c]
        BY <2>1, <4>1
      <4> QED BY <1>3, <2>1, <4>1, <4>2
    <3> QED BY <3>1, <3>2
  <2> QED BY <2>1, <2>2, <2>3, <2>4 DEF MemberInv
<1>6. ASSUME NEW v \in Users, DropOut(v)
      PROVE  MemberInv' /\ member' \in [Users -> Conns \cup {NoOne}]
  <2>1. /\ member[v] \in Conns /\ prog[member[v]] = "dead"
        /\ member' = [member EXCEPT ![v] = NoOne]
        /\ UNCHANGED <<prog, who, key>>
    BY <1>6 DEF DropOut, Room!Leave, identity
  <2>2. member' \in [Users -> Conns \cup {NoOne}]
    BY <2>1
  <2>3. ASSUME NEW u \in Users, member'[u] # NoOne PROVE member'[u] = member[u]
    BY <2>1, <2>3
  <2>4. ASSUME NEW c \in Conns, prog[c] = "in" PROVE member'[who[c]] = c
    <3>1. who[c] # v
      BY <2>1, <2>4 DEF MemberInv
    <3> QED BY <1>3, <2>1, <2>4, <3>1 DEF MemberInv
  <2> QED BY <2>1, <2>2, <2>3, <2>4 DEF MemberInv
<1>7. CASE ServerRestarts
  <2>1. /\ member' = [u \in Users |-> NoOne]
        /\ \A c \in Conns : prog'[c] # "in"
    BY <1>7 DEF ServerRestarts, Room!Restart
  <2> QED BY <2>1 DEF MemberInv
<1>8. ASSUME NEW c \in Conns, ClientSteps(c), ~LogIn(c) PROVE member' = member
  BY <1>8, QuietRoom DEF Start, MessageArrives, Room!Open, Room!Post, room
<1>9. ASSUME RoomSteps \/ Finished \/ UNCHANGED vars PROVE member' = member
  BY <1>9 DEF RoomSteps, ListSteps, MailSteps, Finished, vars, room, Room!Welcome, Room!RecallFails,
              Room!Look, Room!Recall, Room!Address, Room!Deliver, Room!TellPeers, Room!TellNote
<1> QED BY <1>4, <1>5, <1>6, <1>7, <1>8, <1>9 DEF Next

-----------------------------------------------------------------------------
(* The boxes and the mail.                                                  *)

(* Every packet that is sent is proper. *)
LEMMA BoxStep == SystemInv /\ [Next]_vars => BoxInv'
<1> SUFFICES ASSUME SystemInv, [Next]_vars PROVE BoxInv'
  OBVIOUS
<1> USE DEF SystemInv
<1>1. KeyMoves
  BY StepMoves DEF KeyPart
<1>18. Kept
  BY SealedKept
<1>2. ASSUME box' = box PROVE BoxInv'
  BY <1>1, <1>2, <1>18, BoxStays
<1>3. ASSUME NEW S, NEW p \in Packet, Room!Offer(S, p), \A c \in Conns \cap S : Proper(c, p)'
      PROVE  BoxInv'
  BY <1>1, <1>3, <1>18, OfferProper
<1>4. ASSUME NEW c \in Conns, NEW u \in Users, Start(c, u) PROVE BoxInv'
  <2>1. [kind |-> "handshake_ok"] \in Packet
    BY DEF Packet
  <2>2. \A d : Proper(d, [kind |-> "handshake_ok"])'
    BY DEF Proper
  <2>3. Room!Offer({c}, [kind |-> "handshake_ok"])
    BY <1>4 DEF Start, Room!Open
  <2> QED BY <1>3, <2>1, <2>2, <2>3
<1>5. ASSUME NEW c \in Conns, LogIn(c) PROVE BoxInv'
  <2>1. PICK p : p = [kind |-> "auth_ok", user |-> who[c]]
    OBVIOUS
  <2>2. p \in Packet
    BY <1>5, <2>1 DEF Packet, LogIn, KeyPart, KeyInv
  <2>3. \A d : Proper(d, p)'
    BY <2>1 DEF Proper
  <2>4. Room!Offer({c}, p)
    BY <1>5, <2>1 DEF LogIn, Room!Join
  <2> QED BY <1>3, <2>2, <2>3, <2>4
<1>6. ASSUME NEW u \in Users, DropOut(u) PROVE BoxInv'
  BY <1>2, <1>6 DEF DropOut, Room!Leave
<1>7. CASE ServerRestarts
  <2>1. box' = [c \in Conns |-> <<>>]
    BY <1>7 DEF ServerRestarts, Room!Restart
  <2>2. box' \in [Conns -> Seq(Packet)]
    BY <2>1
  <2>3. \A c \in Conns : DOMAIN box'[c] = {}
    BY <2>1
  <2> QED BY <2>2, <2>3 DEF BoxInv
<1>8. ASSUME NEW S, NEW list, list = Room!PeerList, UNCHANGED identity,
             Room!Offer(S, [kind |-> "peers", peers |-> list])
      PROVE  BoxInv'
  <2> DEFINE p == [kind |-> "peers", peers |-> list]
  <2>1. list \in SUBSET Peer /\ \A e \in list : Genuine(e)
    BY <1>8, PeerListIs
  <2>2. p \in Packet
    BY <2>1 DEF Packet
  <2>3. \A e \in list : Genuine(e)'
    BY <1>1, <2>1, GenuineStays
  <2>4. \A d : Proper(d, p)'
    BY <2>3 DEF Proper
  <2> HIDE DEF p
  <2>5. Room!Offer(S, p)
    BY <1>8 DEF p
  <2> QED BY <1>3, <1>8, <2>2, <2>4, <2>5
<1>9. ASSUME Room!Welcome, UNCHANGED identity PROVE BoxInv'
  <2>1. PICK list : list = Room!PeerList
    OBVIOUS
  <2>2. \E S : Room!Offer(S, [kind |-> "peers", peers |-> list])
    BY <1>9, <2>1 DEF Room!Welcome
  <2> QED BY <1>8, <1>9, <2>1, <2>2
<1>10. ASSUME Room!TellPeers, UNCHANGED identity PROVE BoxInv'
  <2>1. PICK list : list = Room!PeerList
    OBVIOUS
  <2>2. Room!Offer(Room!Members, [kind |-> "peers", peers |-> list])
    BY <1>10, <2>1 DEF Room!TellPeers
  <2> QED BY <1>8, <1>10, <2>1, <2>2
<1>19. ASSUME NEW u \in Users, NEW c \in Conns, member[u] = c, UNCHANGED identity
       PROVE  who'[c] = u /\ key'[c] # NoOne
  BY <1>19 DEF MemberInv, identity
<1>11. ASSUME NEW row \in change.due, UNCHANGED identity, Room!Recall(row) PROVE BoxInv'
  <2>1. row \in MailRow /\ row.to = change.who /\ row.to \in Recipients(row.mid)
    BY DEF MailInv, ViewInv
  <2>2. row.mid \in Conns /\ row.to \in Users
    BY <2>1 DEF MailRow, Room!Row
  <2>3. row.to \in Recipients(row.mid)'
    BY <1>18, <2>1, <2>2, ReadersKept
  <2> DEFINE p == [kind |-> "history", row |-> row]
  <2>4. p \in Packet
    BY <2>1 DEF Packet
  <2>5. ASSUME NEW c \in Conns \cap {member[change.who]} PROVE Proper(c, p)'
    <3>1. who'[c] = row.to /\ key'[c] # NoOne
      BY <1>11, <1>19, <2>1, <2>2
    <3> QED BY <2>3, <3>1 DEF Proper
  <2>6. Room!Offer({member[change.who]}, p)
    BY <1>11 DEF Room!Recall
  <2> HIDE DEF p
  <2> QED BY <1>3, <2>4, <2>5, <2>6
<1>20. ASSUME NEW d \in Conns, NEW p \in said[d], UNCHANGED identity, Room!Deliver(d, p)
       PROVE  BoxInv'
  <2>1. p \in Message /\ p.to \in Recipients(p.mid)
    BY DEF MailInv
  <2>2. p.kind = "message" /\ p.mid \in Conns /\ p.to \in Users
    BY <2>1 DEF Message
  <2>3. p.to \in Recipients(p.mid)'
    BY <1>18, <2>1, <2>2, ReadersKept
  <2>4. p \in Packet
    BY <2>1 DEF Packet
  <2>5. ASSUME NEW c \in Conns \cap {member[p.to]} PROVE Proper(c, p)'
    <3>1. who'[c] = p.to /\ key'[c] # NoOne
      BY <1>20, <1>19, <2>2
    <3> QED BY <2>2, <2>3, <3>1 DEF Proper
  <2>6. Room!Offer({member[p.to]}, p)
    BY <1>20 DEF Room!Deliver
  <2> QED BY <1>3, <2>4, <2>5, <2>6
<1>21. ASSUME Room!Look \/ Room!RecallFails \/ \E c \in Conns : Room!Address(c)
       PROVE  BoxInv'
  BY <1>2, <1>21 DEF Room!Look, Room!RecallFails, Room!Address
<1>12. ASSUME Room!TellNote PROVE BoxInv'
  <2>1. change.step \in {"joined", "left"} /\ change.who \in Users
    BY <1>12 DEF Room!TellNote, ViewInv
  <2>2. PICK p : p = [kind |-> change.step, user |-> change.who]
    OBVIOUS
  <2>3. p \in Packet
    BY <2>1, <2>2 DEF Packet
  <2>4. \A d : Proper(d, p)'
    BY <2>1, <2>2 DEF Proper
  <2>5. Room!Offer(Room!Members, p)
    BY <1>12, <2>2 DEF Room!TellNote
  <2> QED BY <1>3, <2>3, <2>4, <2>5
<1>13. ASSUME NEW c \in Conns, MessageArrives(c) PROVE BoxInv'
  BY <1>2, <1>13 DEF MessageArrives, Room!Post
<1>14. CASE UNCHANGED room
  BY <1>2, <1>14 DEF room
<1>15. ASSUME NEW c \in Conns, ClientSteps(c) PROVE BoxInv'
  BY <1>4, <1>5, <1>13, <1>14, <1>15, QuietRoom
<1>16. CASE RoomSteps
  BY <1>9, <1>10, <1>11, <1>12, <1>16, <1>20, <1>21 DEF RoomSteps, ListSteps, MailSteps
<1>17. CASE Finished \/ UNCHANGED vars
  BY <1>14, <1>17 DEF Finished, vars
<1> QED BY <1>6, <1>7, <1>15, <1>16, <1>17 DEF Next

(* The rows of an insertion: old ones, and those of the message.            *)
LEMMA Insertion ==
  ASSUME archive \in Room!Table(Conns, Users, Stamps),
         NEW mid \in Conns, NEW from \in Users, NEW tos \in SUBSET Users, NEW at \in Stamps
  PROVE  /\ Room!Insert(archive, mid, from, tos, at) \in Room!Table(Conns, Users, Stamps)
         /\ \A r \in Room!Insert(archive, mid, from, tos, at).rows :
              r \in archive.rows \/ (r.mid = mid /\ r.to \in tos)
<1>1. PICK date \in Stamps \cup {0} : date = Room!Datetime(at)
  BY DEF Room!Datetime
<1>2. archive.rows \in SUBSET MailRow /\ archive.seq \in Nat
  BY DEF Room!Table, MailRow
<1> DEFINE New(u) == [id |-> archive.seq + 1, mid |-> mid, from |-> from,
                      to |-> u, at |-> date]
           new    == {New(u) : u \in tos}
           kept   == {r \in archive.rows : \A s \in new : ~Room!SameKey(r, s)}
<1>3. ASSUME NEW u \in tos PROVE New(u) \in MailRow
  <2>1. archive.seq + 1 \in Nat /\ u \in Users
    BY <1>2
  <2> QED BY <2>1 DEF MailRow, Room!Row
<1>4. new \in SUBSET MailRow /\ kept \in SUBSET archive.rows
  BY <1>3
<1>5. \A r \in new : r.mid = mid /\ r.to \in tos
  OBVIOUS
<1>6. Room!Insert(archive, mid, from, tos, at) =
        [rows |-> kept \cup new, seq |-> archive.seq + 1]
  BY <1>1 DEF Room!Insert
<1> HIDE DEF new, kept
<1>7. [rows |-> kept \cup new, seq |-> archive.seq + 1] \in Room!Table(Conns, Users, Stamps)
  BY <1>2, <1>4 DEF Room!Table, MailRow
<1> QED BY <1>4, <1>5, <1>6, <1>7

(* Encrypted to whom a message was when it was read, it still is.           *)
LEMMA StillReader ==
  ASSUME Kept, NEW m \in Conns, NEW u, u \in Recipients(m)
  PROVE  u \in Recipients(m)'
BY ReadersKept

(* A message that arrives has an author, and readers.                       *)
LEMMA Arriving ==
  ASSUME SystemInv, NEW c \in Conns, MessageArrives(c)
  PROVE  /\ who[c] \in Users /\ Recipients(c) \in SUBSET Users
         /\ \E at \in Stamps : Room!Post(c, who[c], c, Recipients(c), at)
         /\ Recipients(c)' = Recipients(c)
<1>1. sealed[c] # {} /\ sealed' = sealed
  BY DEF MessageArrives, client
<1>2. who[c] \in Users
  BY <1>1 DEF SystemInv, MailInv
<1>3. Recipients(c) \in SUBSET Users
  BY DEF SystemInv, RoomTypeOK, Recipients, Peer
<1> QED BY <1>1, <1>2, <1>3 DEF MessageArrives, Recipients

(* Lists of peers name whoever is behind, wherever a client keeps them.      *)
LEMMA GenuineLists ==
  ASSUME SystemInv, [Next]_vars
  PROVE  \A c \in Conns : \A e \in peers'[c] \cup sealed'[c] : Genuine(e)'
<1> USE DEF SystemInv, RoomTypeOK
<1>1. ASSUME NEW e \in Peer, Genuine(e) PROVE Genuine(e)'
  BY <1>1, StepMoves, GenuineStays DEF KeyPart
<1>2. ASSUME NEW c \in Conns, NEW e \in peers[c] \cup sealed[c] PROVE Genuine(e)'
  BY <1>1, <1>2 DEF MailInv
<1>3. ASSUME \A c \in Conns : peers'[c] \subseteq peers[c], sealed' = sealed
      PROVE  \A c \in Conns : \A e \in peers'[c] \cup sealed'[c] : Genuine(e)'
  BY <1>2, <1>3
<1>4. ASSUME NEW c \in Conns, ReadPacket(c)
      PROVE  \A d \in Conns : \A e \in peers'[d] \cup sealed'[d] : Genuine(e)'
  <2>1. PICK p \in Packet : p = box[c][heard[c] + 1] /\ Proper(c, p)
    BY <1>4 DEF ReadPacket, BoxInv
  <2>2. /\ peers' = IF p.kind = "peers"
                    THEN [peers EXCEPT ![c] = UpdatePeers(@, p.peers)] ELSE peers
        /\ sealed' = sealed
    BY <1>4, <2>1 DEF ReadPacket
  <2>3. p.kind = "peers" => p.peers \in SUBSET Peer /\ \A e \in p.peers : Genuine(e)
    BY <2>1, PacketIs DEF Proper
  <2>4. p.kind = "peers" => \A e \in UpdatePeers(peers[c], p.peers) : Genuine(e)'
    BY <1>1, <1>2, <2>3 DEF UpdatePeers
  <2>5. ASSUME NEW d \in Conns, NEW e \in peers'[d] PROVE Genuine(e)'
    BY <1>2, <2>2, <2>4, <2>5
  <2> QED BY <1>2, <2>2, <2>5
<1>5. ASSUME NEW c \in Conns, EncryptMessage(c)
      PROVE  \A d \in Conns : \A e \in peers'[d] \cup sealed'[d] : Genuine(e)'
  <2>1. sealed' = [sealed EXCEPT ![c] = peers[c]] /\ peers' = peers
    BY <1>5 DEF EncryptMessage
  <2> QED BY <1>2, <2>1
<1>6. ASSUME NEW c \in Conns, ClientSteps(c), ~ReadPacket(c), ~EncryptMessage(c)
      PROVE  \A d \in Conns : \A e \in peers'[d] \cup sealed'[d] : Genuine(e)'
  <2>1. sealed' = sealed /\ (peers' = peers \/ Forget({c}))
    BY <1>6 DEF ClientSteps, Start, KeySteps, LogIn, Quit, Forget, MessageArrives, client
  <2>2. \A d \in Conns : peers'[d] \subseteq peers[d]
    BY <2>1 DEF Forget
  <2> QED BY <1>3, <2>1, <2>2
<1>7. ASSUME ServerRestarts
      PROVE  \A d \in Conns : \A e \in peers'[d] \cup sealed'[d] : Genuine(e)'
  BY <1>3, <1>7 DEF ServerRestarts, Forget
<1>8. ASSUME (\E u \in Users : DropOut(u)) \/ RoomSteps \/ Finished \/ UNCHANGED vars
      PROVE  UNCHANGED <<peers, sealed>>
  BY <1>8 DEF DropOut, RoomSteps, Finished, vars, client
<1> QED BY <1>3, <1>4, <1>5, <1>6, <1>7, <1>8 DEF Next

(* Who has encrypted a message has an account and a key.                    *)
LEMMA AuthorStep ==
  ASSUME SystemInv, [Next]_vars
  PROVE  \A c \in Conns : sealed'[c] # {} => who'[c] \in Users /\ key'[c] # NoOne
<1> USE DEF SystemInv, RoomTypeOK
<1>1. ASSUME NEW c \in Conns, key[c] # NoOne, who[c] \in Users
      PROVE  who'[c] \in Users /\ key'[c] # NoOne
  BY <1>1, StepMoves, KeysStay DEF KeyPart
<1>2. ASSUME sealed' = sealed
      PROVE  \A c \in Conns : sealed'[c] # {} => who'[c] \in Users /\ key'[c] # NoOne
  BY <1>1, <1>2 DEF MailInv
<1>3. ASSUME NEW c \in Conns, EncryptMessage(c)
      PROVE  \A d \in Conns : sealed'[d] # {} => who'[d] \in Users /\ key'[d] # NoOne
  <2>1. prog[c] = "in" /\ sealed' = [sealed EXCEPT ![c] = peers[c]]
    BY <1>3 DEF EncryptMessage
  <2>2. who[c] \in Users /\ key[c] # NoOne
    BY <2>1 DEF KeyPart, KeyInv
  <2> QED BY <1>1, <2>1, <2>2 DEF MailInv
<1>4. ASSUME NEW c \in Conns, ClientSteps(c), ~EncryptMessage(c) PROVE sealed' = sealed
  BY <1>4 DEF ClientSteps, Start, KeySteps, LogIn, Quit, ReadPacket, Forget, MessageArrives,
              client
<1>5. ServerRestarts => sealed' = sealed
  BY DEF ServerRestarts, Forget
<1>6. ASSUME (\E u \in Users : DropOut(u)) \/ RoomSteps \/ Finished \/ UNCHANGED vars
      PROVE  sealed' = sealed
  BY <1>6 DEF DropOut, RoomSteps, Finished, vars, client
<1> QED BY <1>2, <1>3, <1>4, <1>5, <1>6 DEF Next

(* The archive gets rows for readers only. *)
LEMMA ArchiveStep ==
  ASSUME SystemInv, [Next]_vars
  PROVE  /\ archive' \in Room!Table(Conns, Users, Stamps)
         /\ \A r \in archive'.rows : r.to \in Recipients(r.mid)'
<1> USE DEF SystemInv
<1>1. Kept
  BY SealedKept
<1>2. ASSUME NEW r \in archive.rows PROVE r.to \in Recipients(r.mid)'
  <2>1. r.mid \in Conns /\ r.to \in Recipients(r.mid)
    BY DEF MailInv, Room!Table, Room!Row
  <2> QED BY <1>1, <2>1, StillReader
<1>3. CASE archive' = archive
  BY <1>2, <1>3 DEF MailInv
<1>4. ASSUME NEW c \in Conns, MessageArrives(c)
      PROVE  /\ archive' \in Room!Table(Conns, Users, Stamps)
             /\ \A r \in archive'.rows : r.to \in Recipients(r.mid)'
  <2>1. PICK at \in Stamps : Room!Post(c, who[c], c, Recipients(c), at)
    BY <1>4, Arriving
  <2>2. archive' = Room!Insert(archive, c, who[c], Recipients(c), at)
    BY <2>1 DEF Room!Post
  <2>3. who[c] \in Users /\ Recipients(c) \in SUBSET Users /\ Recipients(c)' = Recipients(c)
    BY <1>4, Arriving
  <2>4. /\ archive' \in Room!Table(Conns, Users, Stamps)
        /\ \A r \in archive'.rows : r \in archive.rows \/ (r.mid = c /\ r.to \in Recipients(c))
    BY <2>2, <2>3, Insertion DEF MailInv
  <2>5. ASSUME NEW r \in archive'.rows, r.mid = c, r.to \in Recipients(c)
        PROVE  r.to \in Recipients(r.mid)'
    BY <1>1, <2>5, StillReader
  <2> QED BY <1>2, <2>4, <2>5
<1>5. ASSUME NEW c \in Conns, ClientSteps(c), ~MessageArrives(c) PROVE archive' = archive
  BY <1>5, QuietRoom DEF Start, LogIn, Room!Open, Room!Join, room
<1>6. ASSUME \/ \E u \in Users : DropOut(u)
             \/ RoomSteps \/ ServerRestarts \/ Finished \/ UNCHANGED vars
      PROVE  archive' = archive
  BY <1>6 DEF DropOut, RoomSteps, ListSteps, MailSteps, ServerRestarts, Finished, vars, room,
              Room!Leave, Room!Welcome, Room!TellPeers, Room!RecallFails, Room!Look,
              Room!Recall, Room!TellNote, Room!Address, Room!Deliver, Room!Restart
<1> QED BY <1>3, <1>4, <1>5, <1>6 DEF Next

(* What a step does to the change that is being told. *)
LEMMA ChangeMoves ==
  ASSUME SystemInv, [Next]_vars
  PROVE  \/ change' = change
         \/ change' = Room!Settled
         \/ \E u \in Users, step \in Steps : change' = Room!Change(u, step)
         \/ Room!Look
         \/ \E row \in change.due : Room!Recall(row)
<1> USE DEF Steps
<1>1. ASSUME NEW c \in Conns, LogIn(c)
      PROVE  \E u \in Users, step \in Steps : change' = Room!Change(u, step)
  <2>1. who[c] \in Users /\ change' = Room!Change(who[c], "look")
    BY <1>1 DEF LogIn, Room!Join, SystemInv, KeyPart, KeyInv
  <2> QED BY <2>1
<1>2. ASSUME NEW u \in Users, DropOut(u)
      PROVE  \E v \in Users, step \in Steps : change' = Room!Change(v, step)
  BY <1>2 DEF DropOut, Room!Leave
<1>3. ASSUME Room!Welcome \/ Room!TellPeers
      PROVE  \E v \in Users, step \in Steps : change' = Room!Change(v, step)
  <2>1. change.who \in Users
    BY <1>3 DEF Room!Welcome, Room!TellPeers, SystemInv, ViewInv
  <2> QED BY <1>3, <2>1 DEF Room!Welcome, Room!TellPeers
<1>4. ASSUME Room!RecallFails \/ Room!TellNote \/ ServerRestarts
      PROVE  change' = Room!Settled
  BY <1>4 DEF Room!RecallFails, Room!TellNote, ServerRestarts, Room!Restart
<1>5. ASSUME \E c \in Conns : Room!Address(c) \/ \E p \in said[c] : Room!Deliver(c, p)
      PROVE  change' = change
  BY <1>5 DEF Room!Address, Room!Deliver
<1>6. ASSUME NEW c \in Conns, ClientSteps(c), ~LogIn(c) PROVE change' = change
  BY <1>6, QuietRoom DEF Start, MessageArrives, Room!Open, Room!Post, room
<1>7. ASSUME Finished \/ UNCHANGED vars PROVE change' = change
  BY <1>7 DEF Finished, vars, room
<1> QED BY <1>1, <1>2, <1>3, <1>4, <1>5, <1>6, <1>7 DEF Next, RoomSteps, ListSteps, MailSteps

(* The change of the membership that is being told. *)
ChangeOK ==
    /\ change \in [who: Users \cup {NoOne}, step: Steps, due: SUBSET MailRow]
    /\ change.step # "none" => change.who \in Users

(* The change that is being told has a name, and what is due to a newcomer   *)
(* are rows the newcomer is a reader of.                                      *)
LEMMA ChangeStep ==
  ASSUME SystemInv, [Next]_vars
  PROVE  /\ ChangeOK'
         /\ \A r \in change'.due : r.to = change'.who /\ r.to \in Recipients(r.mid)'
<1> USE DEF Room!Change, Room!Settled, Steps
<1>1. ChangeOK /\ \A r \in change.due : r.to = change.who /\ r.to \in Recipients(r.mid)
  BY DEF SystemInv, ViewInv, MailInv, ChangeOK
<1>2. ASSUME NEW r \in MailRow, r.to \in Recipients(r.mid) PROVE r.to \in Recipients(r.mid)'
  <2>1. Kept /\ r.mid \in Conns
    BY SealedKept DEF SystemInv, MailRow, Room!Row
  <2> QED BY <1>2, <2>1, StillReader
<1>3. \A r \in change.due : r \in MailRow
  BY <1>1 DEF ChangeOK
<1>4. CASE change' = change
  BY <1>1, <1>2, <1>3, <1>4 DEF ChangeOK
<1>5. CASE change' = Room!Settled
  BY <1>5 DEF ChangeOK
<1>6. ASSUME NEW u \in Users, NEW step \in Steps, change' = Room!Change(u, step)
      PROVE  /\ ChangeOK'
             /\ \A r \in change'.due : r.to = change'.who /\ r.to \in Recipients(r.mid)'
  BY <1>6 DEF ChangeOK
<1>7. CASE Room!Look
  <2>1. PICK rows : /\ rows = Room!HistoryFor(archive, change.who, HistLimit)
                    /\ change' = [who |-> change.who, step |-> "recall", due |-> rows]
    BY <1>7 DEF Room!Look
  <2>2. \A r \in rows : r \in archive.rows /\ r.to = change.who
    BY <2>1 DEF Room!HistoryFor, Room!Oldest, Room!Inbox
  <2>3. \A r \in rows : r \in MailRow /\ r.to \in Recipients(r.mid)
    BY <2>2 DEF SystemInv, MailInv, Room!Table, MailRow
  <2>4. change.who \in Users
    BY <1>1, <1>7 DEF ChangeOK, Room!Look
  <2>5. ChangeOK'
    BY <2>1, <2>3, <2>4 DEF ChangeOK
  <2> QED BY <1>2, <2>1, <2>2, <2>3, <2>5
<1>8. ASSUME NEW row \in change.due, Room!Recall(row)
      PROVE  /\ ChangeOK'
             /\ \A r \in change'.due : r.to = change'.who /\ r.to \in Recipients(r.mid)'
  <2>1. /\ change'.who = change.who /\ change'.step = change.step
        /\ change'.due = change.due \ {row}
        /\ change' = [who |-> change.who, step |-> change.step, due |-> change.due \ {row}]
    BY <1>1, <1>8 DEF Room!Recall, ChangeOK
  <2>2. ChangeOK'
    BY <1>1, <2>1 DEF ChangeOK
  <2> QED BY <1>1, <1>2, <1>3, <2>1, <2>2
<1> QED BY <1>4, <1>5, <1>6, <1>7, <1>8, ChangeMoves

(* What is being said is for readers only. *)
LEMMA SaidStep ==
  ASSUME SystemInv, [Next]_vars
  PROVE  /\ said' \in [Conns -> SUBSET Message]
         /\ \A c \in Conns : \A p \in said'[c] : p.to \in Recipients(p.mid)'
<1> USE DEF SystemInv
<1>1. Kept
  BY SealedKept
<1>2. said \in [Conns -> SUBSET Message]
  BY DEF MailInv
<1>3. ASSUME NEW c \in Conns, NEW p \in said[c] PROVE p.to \in Recipients(p.mid)'
  <2>1. p.mid \in Conns /\ p.to \in Recipients(p.mid)
    BY <1>2 DEF MailInv, Message
  <2> QED BY <1>1, <2>1, StillReader
<1>4. ASSUME said' \in [Conns -> SUBSET Message], \A c \in Conns : said'[c] \subseteq said[c]
      PROVE  /\ said' \in [Conns -> SUBSET Message]
             /\ \A c \in Conns : \A p \in said'[c] : p.to \in Recipients(p.mid)'
  BY <1>3, <1>4
<1>5. CASE said' = said
  BY <1>2, <1>4, <1>5
<1>6. ASSUME NEW c \in Conns, MessageArrives(c)
      PROVE  /\ said' \in [Conns -> SUBSET Message]
             /\ \A d \in Conns : \A p \in said'[d] : p.to \in Recipients(p.mid)'
  <2>1. PICK at \in Stamps : Room!Post(c, who[c], c, Recipients(c), at)
    BY <1>6, Arriving
  <2>2. who[c] \in Users /\ Recipients(c) \in SUBSET Users /\ Recipients(c)' = Recipients(c)
    BY <1>6, Arriving
  <2>3. PICK new : /\ new = {Room!Live(c, who[c], v, at) : v \in Recipients(c) \ {who[c]}}
                   /\ said' = [said EXCEPT ![c] = new]
    BY <2>1 DEF Room!Post
  <2>4. ASSUME NEW v \in Recipients(c)
        PROVE  /\ Room!Live(c, who[c], v, at) \in Message
               /\ Room!Live(c, who[c], v, at).to = v /\ Room!Live(c, who[c], v, at).mid = c
    BY <2>2 DEF Room!Live, Message
  <2>5. new \in SUBSET Message /\ \A p \in new : p.to \in Recipients(c) /\ p.mid = c
    BY <2>3, <2>4
  <2>6. \A p \in new : p.to \in Recipients(p.mid)'
    BY <1>1, <2>5, StillReader
  <2> QED BY <1>2, <1>3, <2>3, <2>5, <2>6
<1>7. ASSUME NEW c \in Conns, Room!Address(c)
      PROVE  /\ said' \in [Conns -> SUBSET Message]
             /\ \A d \in Conns : \A p \in said'[d] : p.to \in Recipients(p.mid)'
  <2>1. PICK left \in SUBSET said[c] : said' = [said EXCEPT ![c] = left]
    BY <1>7 DEF Room!Address
  <2> QED BY <1>2, <1>4, <2>1
<1>8. ASSUME NEW c \in Conns, NEW p \in said[c], Room!Deliver(c, p)
      PROVE  /\ said' \in [Conns -> SUBSET Message]
             /\ \A d \in Conns : \A q \in said'[d] : q.to \in Recipients(q.mid)'
  <2>1. said' = [said EXCEPT ![c] = said[c] \ {p}]
    BY <1>8 DEF Room!Deliver
  <2> QED BY <1>2, <1>4, <2>1
<1>9. CASE ServerRestarts
  BY <1>4, <1>9 DEF ServerRestarts, Room!Restart
<1>10. ASSUME NEW c \in Conns, ClientSteps(c), ~MessageArrives(c) PROVE said' = said
  BY <1>10, QuietRoom DEF Start, LogIn, Room!Open, Room!Join, room
<1>11. ASSUME \/ \E u \in Users : DropOut(u)
              \/ ListSteps \/ Room!Look \/ \E row \in change.due : Room!Recall(row)
              \/ Room!TellNote \/ Finished \/ UNCHANGED vars
       PROVE  said' = said
  BY <1>11 DEF DropOut, ListSteps, Finished, vars, room, Room!Leave, Room!Welcome,
               Room!TellPeers, Room!RecallFails, Room!Look, Room!Recall, Room!TellNote
<1> QED BY <1>5, <1>6, <1>7, <1>8, <1>9, <1>10, <1>11 DEF Next, RoomSteps, MailSteps

(* What waits to be sent, and every row, is for readers with genuine keys. *)
LEMMA MailStep == SystemInv /\ [Next]_vars => MailInv'
<1> SUFFICES ASSUME SystemInv, [Next]_vars PROVE MailInv'
  OBVIOUS
<1>1. \A c \in Conns : \A e \in peers'[c] \cup sealed'[c] : Genuine(e)'
  BY GenuineLists
<1>2. \A c \in Conns : sealed'[c] # {} => who'[c] \in Users /\ key'[c] # NoOne
  BY AuthorStep
<1>3. /\ archive' \in Room!Table(Conns, Users, Stamps)
      /\ \A r \in archive'.rows : r.to \in Recipients(r.mid)'
  BY ArchiveStep
<1>4. \A r \in change'.due : r.to = change'.who /\ r.to \in Recipients(r.mid)'
  BY ChangeStep
<1>5. /\ said' \in [Conns -> SUBSET Message]
      /\ \A c \in Conns : \A p \in said'[c] : p.to \in Recipients(p.mid)'
  BY SaidStep
<1> QED BY <1>1, <1>2, <1>3, <1>4, <1>5 DEF MailInv

-----------------------------------------------------------------------------
(* What a client knows of the room.                                         *)

(* What a program has heard is a prefix of its box. *)
LEMMA BoxLen ==
  ASSUME SystemInv, NEW c \in Conns
  PROVE  heard[c] \in Nat /\ Len(box[c]) \in Nat /\ DOMAIN box[c] = 1..Len(box[c])
BY DEF SystemInv, RoomTypeOK, BoxInv

(* What an offer of any packet does to one box. *)
LEMMA OfferGrows ==
  ASSUME SystemInv, NEW S, NEW p, Room!Offer(S, p), NEW c \in Conns
  PROVE  \/ box'[c] = box[c]
         \/ /\ c \in S
            /\ Len(box'[c]) = Len(box[c]) + 1
            /\ box'[c][Len(box[c]) + 1] = p
            /\ \A i \in DOMAIN box[c] : box'[c][i] = box[c][i]
<1>1. PICK got \in SUBSET S :
        box' = [d \in Conns |-> IF d \in got THEN Append(box[d], p) ELSE box[d]]
  BY OfferIs
<1>2. box[c] \in Seq(Packet)
  BY DEF SystemInv, BoxInv
<1> DEFINE P == Packet \cup {p}
<1>3. box[c] \in Seq(P) /\ p \in P
  <2>1. Packet \subseteq P /\ p \in P
    OBVIOUS
  <2> HIDE DEF P, Packet
  <2> QED BY <1>2, <2>1
<1> HIDE DEF P
<1>4. /\ Len(Append(box[c], p)) = Len(box[c]) + 1
      /\ Append(box[c], p)[Len(box[c]) + 1] = p
      /\ \A i \in DOMAIN box[c] : Append(box[c], p)[i] = box[c][i]
  BY <1>3
<1> QED BY <1>1, <1>4

(* A packet that is not a list, or none, leaves a client as far behind.     *)
LEMMA UpToDateStays ==
  ASSUME SystemInv, NEW c \in Conns, UpToDate(c),
         member' = member, peers'[c] = peers[c], heard'[c] = heard[c],
         \/ box'[c] = box[c]
         \/ /\ Len(box'[c]) = Len(box[c]) + 1
            /\ box'[c][Len(box[c]) + 1].kind # "peers"
            /\ \A i \in DOMAIN box[c] : box'[c][i] = box[c][i]
  PROVE  UpToDate(c)'
<1>1. Room!PeerList' = Room!PeerList /\ (Accepted(Room!PeerList)' <=> Accepted(Room!PeerList))
  BY DEF Room!PeerList, Room!Present, Accepted
<1>2. heard[c] \in Nat /\ Len(box[c]) \in Nat /\ DOMAIN box[c] = 1..Len(box[c])
  BY BoxLen
<1>3. CASE box'[c] = box[c]
  BY <1>1, <1>3 DEF UpToDate, Unread
<1>4. CASE /\ Len(box'[c]) = Len(box[c]) + 1
           /\ box'[c][Len(box[c]) + 1].kind # "peers"
           /\ \A i \in DOMAIN box[c] : box'[c][i] = box[c][i]
  <2>1. \A i \in Unread(c)' : i \in Unread(c) \/ i = Len(box[c]) + 1
    BY <1>2, <1>4 DEF Unread
  <2>2. \A i \in Unread(c) : /\ i \in DOMAIN box[c] /\ i \in Unread(c)'
                             /\ box'[c][i] = box[c][i]
    BY <1>2, <1>4 DEF Unread
  <2>3. CASE /\ Accepted(Room!PeerList) => peers[c] = Room!PeerList
             /\ \A i \in Unread(c) : box[c][i].kind # "peers"
    BY <1>1, <1>4, <2>1, <2>2, <2>3 DEF UpToDate
  <2>4. CASE \E i \in Unread(c) :
               /\ box[c][i] = [kind |-> "peers", peers |-> Room!PeerList]
               /\ \A j \in Unread(c) : j > i => box[c][j].kind # "peers"
    <3>1. PICK i \in Unread(c) :
               /\ box[c][i] = [kind |-> "peers", peers |-> Room!PeerList]
               /\ \A j \in Unread(c) : j > i => box[c][j].kind # "peers"
      BY <2>4
    <3>2. i \in Unread(c)' /\ box'[c][i] = [kind |-> "peers", peers |-> Room!PeerList']
      BY <1>1, <2>2, <3>1
    <3>3. \A j \in Unread(c)' : j > i => box'[c][j].kind # "peers"
      BY <1>4, <2>1, <2>2, <3>1
    <3> QED BY <3>2, <3>3 DEF UpToDate
  <2> QED BY <2>3, <2>4 DEF UpToDate
<1> QED BY <1>3, <1>4

(* Reading brings a client no further from the room. *)
LEMMA ReadingKeepsUp ==
  ASSUME SystemInv, NEW c \in Conns, ReadPacket(c), NEW d \in Conns, UpToDate(d)
  PROVE  UpToDate(d)'
<1>1. /\ heard[c] \in Nat /\ heard[c] < Len(box[c]) /\ Len(box[c]) \in Nat
      /\ heard' = [heard EXCEPT ![c] = @ + 1]
      /\ peers' = IF box[c][heard[c] + 1].kind = "peers"
                  THEN [peers EXCEPT ![c] = UpdatePeers(@, box[c][heard[c] + 1].peers)]
                  ELSE peers
      /\ UNCHANGED <<member, box>>
  BY BoxLen DEF ReadPacket, room
<1>2. CASE d # c
  BY <1>1, <1>2, UpToDateStays DEF SystemInv, RoomTypeOK
<1>3. CASE d = c
  <2>1. /\ Room!PeerList' = Room!PeerList
        /\ Accepted(Room!PeerList)' <=> Accepted(Room!PeerList)
    BY <1>1 DEF Room!PeerList, Room!Present, Accepted
  <2> DEFINE n == heard[c] + 1
  <2>2. n \in Unread(c) /\ Unread(c)' = Unread(c) \ {n} /\ \A i \in Unread(c)' : i > n
    BY <1>1 DEF Unread, SystemInv, RoomTypeOK
  <2>3. /\ box[c][n].kind = "peers" => peers'[c] = UpdatePeers(peers[c], box[c][n].peers)
        /\ box[c][n].kind # "peers" => peers'[c] = peers[c]
    BY <1>1 DEF SystemInv, RoomTypeOK
  <2> HIDE DEF n
  <2>4. CASE /\ Accepted(Room!PeerList) => peers[c] = Room!PeerList
             /\ \A i \in Unread(c) : box[c][i].kind # "peers"
    BY <1>1, <1>3, <2>1, <2>2, <2>3, <2>4 DEF UpToDate
  <2>5. CASE \E i \in Unread(c) :
               /\ box[c][i] = [kind |-> "peers", peers |-> Room!PeerList]
               /\ \A j \in Unread(c) : j > i => box[c][j].kind # "peers"
    <3>1. PICK i \in Unread(c) :
               /\ box[c][i] = [kind |-> "peers", peers |-> Room!PeerList]
               /\ \A j \in Unread(c) : j > i => box[c][j].kind # "peers"
      BY <2>5
    <3>2. CASE i = n
      <4>1. peers'[c] = UpdatePeers(peers[c], Room!PeerList)
        BY <2>3, <3>1, <3>2
      <4>2. Accepted(Room!PeerList)' => peers'[c] = Room!PeerList'
        BY <2>1, <4>1 DEF UpdatePeers
      <4>3. \A j \in Unread(c)' : box'[c][j].kind # "peers"
        BY <1>1, <2>2, <3>1, <3>2
      <4> QED BY <1>3, <4>2, <4>3 DEF UpToDate
    <3>3. CASE i # n
      <4>1. i \in Unread(c)' /\ box'[c][i] = [kind |-> "peers", peers |-> Room!PeerList']
        BY <1>1, <2>1, <2>2, <3>1, <3>3
      <4>2. \A j \in Unread(c)' : j > i => box'[c][j].kind # "peers"
        BY <1>1, <2>2, <3>1
      <4> QED BY <1>3, <4>1, <4>2 DEF UpToDate
    <3> QED BY <3>2, <3>3
  <2> QED BY <1>3, <2>4, <2>5 DEF UpToDate
<1> QED BY <1>2, <1>3

HeardInv ==
    \A c \in Conns : heard[c] <= Len(box[c]) /\ (prog[c] # "in" => heard[c] = 0)

(* A client has read no more than it was sent, and nothing once it ended.   *)
LEMMA HeardStep == SystemInv /\ [Next]_vars => HeardInv' /\ heard' \in [Conns -> Nat]
<1> SUFFICES ASSUME SystemInv, [Next]_vars PROVE HeardInv' /\ heard' \in [Conns -> Nat]
  OBVIOUS
<1>14. \A c \in Conns : heard[c] \in Nat /\ Len(box[c]) \in Nat
  BY BoxLen
<1>4. ASSUME box' = box
      PROVE  \A c \in Conns : Len(box'[c]) \in Nat /\ Len(box[c]) <= Len(box'[c])
  BY <1>4, <1>14
<1>3. ASSUME NEW S, NEW p, Room!Offer(S, p), NEW c \in Conns
      PROVE  Len(box'[c]) \in Nat /\ Len(box[c]) <= Len(box'[c])
  <2>1. box'[c] = box[c] \/ Len(box'[c]) = Len(box[c]) + 1
    BY <1>3, OfferGrows
  <2> QED BY <1>14, <2>1
<1> USE DEF SystemInv, RoomTypeOK, KeyPart, KeyTypeOK, ProgStates
<1>1. HeardInv
  BY DEF ViewInv, HeardInv
<1>2. ASSUME heard' = heard,
             \A c \in Conns : /\ prog[c] = "in" => prog'[c] = "in"
                              /\ Len(box'[c]) \in Nat /\ Len(box[c]) <= Len(box'[c])
      PROVE  HeardInv' /\ heard' \in [Conns -> Nat]
  BY <1>1, <1>2, <1>14 DEF HeardInv
<1>5. ASSUME NEW c \in Conns, (\E u \in Users : Start(c, u)) \/ LogIn(c)
      PROVE  HeardInv' /\ heard' \in [Conns -> Nat]
  <2>1. PICK p : Room!Offer({c}, p)
    BY <1>5 DEF Start, LogIn, Room!Open, Room!Join
  <2>2. heard' = heard
    BY <1>5 DEF Start, LogIn, client
  <2>3. \A d \in Conns : prog[d] = "in" => prog'[d] = "in"
    BY <1>5 DEF Start, Begin, LogIn
  <2> QED BY <1>2, <1>3, <2>1, <2>2, <2>3
<1>6. ASSUME NEW c \in Conns, KeySteps(c) PROVE HeardInv' /\ heard' \in [Conns -> Nat]
  <2>1. heard' = heard /\ box' = box
    BY <1>6 DEF KeySteps, room, client
  <2>2. \A d \in Conns : prog[d] = "in" => prog'[d] = "in"
    BY <1>6 DEF KeySteps, ReadKeyFile, TruncateKeyFile, WriteKeyFile, GiveUp,
                WriteKeyFails, TryAgain
  <2> QED BY <1>2, <1>4, <2>1, <2>2
<1>7. ASSUME NEW c \in Conns, Quit(c) PROVE HeardInv' /\ heard' \in [Conns -> Nat]
  <2>1. /\ heard' = [d \in Conns |-> IF d = c THEN 0 ELSE heard[d]]
        /\ box' = box
        /\ prog' = [prog EXCEPT ![c] = "dead"]
    BY <1>7 DEF Quit, Forget, End, room
  <2> QED BY <1>1, <2>1, <1>14 DEF HeardInv
<1>8. ASSUME NEW c \in Conns, ReadPacket(c) PROVE HeardInv' /\ heard' \in [Conns -> Nat]
  <2>1. /\ prog[c] = "in" /\ heard[c] < Len(box[c])
        /\ heard' = [heard EXCEPT ![c] = @ + 1]
        /\ prog' = prog /\ box' = box
    BY <1>8 DEF ReadPacket, identity, room
  <2> QED BY <1>1, <2>1, <1>14 DEF HeardInv
<1>9. ASSUME NEW c \in Conns, EncryptMessage(c) \/ MessageArrives(c)
      PROVE  HeardInv' /\ heard' \in [Conns -> Nat]
  <2>1. heard' = heard /\ box' = box /\ prog' = prog
    BY <1>9 DEF EncryptMessage, MessageArrives, Room!Post, identity, room, client
  <2> QED BY <1>2, <1>4, <2>1
<1>10. ASSUME NEW u \in Users, DropOut(u) PROVE HeardInv' /\ heard' \in [Conns -> Nat]
  <2>1. heard' = heard /\ box' = box /\ prog' = prog
    BY <1>10 DEF DropOut, Room!Leave, identity, client
  <2> QED BY <1>2, <1>4, <2>1
<1>11. CASE ServerRestarts
  <2>1. /\ \A c \in Conns : box'[c] = <<>>
        /\ heard' = [c \in Conns |-> IF prog[c] \in {"ready", "in"} THEN 0 ELSE heard[c]]
    BY <1>11 DEF ServerRestarts, Room!Restart, Forget
  <2>2. \A c \in Conns : heard'[c] = 0
    BY <1>1, <2>1 DEF HeardInv
  <2>3. \A c \in Conns : Len(box'[c]) = 0
    BY <2>1
  <2> QED BY <2>1, <2>2, <2>3 DEF HeardInv
<1>12. CASE RoomSteps
  <2>1. heard' = heard /\ prog' = prog
    BY <1>12 DEF RoomSteps, identity, client
  <2>2. box' = box \/ \E S, p : Room!Offer(S, p)
    BY <1>12 DEF RoomSteps, ListSteps, MailSteps, Room!Welcome, Room!TellPeers,
                 Room!RecallFails, Room!Look, Room!Recall, Room!TellNote, Room!Address,
                 Room!Deliver
  <2> QED BY <1>2, <1>3, <1>4, <2>1, <2>2
<1>13. CASE Finished \/ UNCHANGED vars
  <2>1. heard' = heard /\ box' = box /\ prog' = prog
    BY <1>13 DEF Finished, vars, identity, room, client
  <2> QED BY <1>2, <1>4, <2>1
<1> QED BY <1>5, <1>6, <1>7, <1>8, <1>9, <1>10, <1>11, <1>12, <1>13 DEF Next, ClientSteps

(* The lists that clients keep and use are lists of peers, and only          *)
(* connections miss one.                                                      *)
LEMMA ListsTyped ==
  SystemInv /\ [Next]_vars => /\ peers' \in [Conns -> SUBSET Peer]
                              /\ sealed' \in [Conns -> SUBSET Peer]
                              /\ untold' \in SUBSET Conns
<1> SUFFICES ASSUME SystemInv, [Next]_vars
             PROVE  /\ peers' \in [Conns -> SUBSET Peer]
                    /\ sealed' \in [Conns -> SUBSET Peer]
                    /\ untold' \in SUBSET Conns
  OBVIOUS
<1> USE DEF SystemInv, RoomTypeOK
<1>1. ASSUME NEW c \in Conns, ReadPacket(c) PROVE peers' \in [Conns -> SUBSET Peer]
  <2>1. box[c][heard[c] + 1] \in Packet
    BY <1>1 DEF ReadPacket, BoxInv
  <2>2. box[c][heard[c] + 1].kind = "peers" => box[c][heard[c] + 1].peers \in SUBSET Peer
    BY <2>1, PacketIs
  <2> QED BY <1>1, <2>2 DEF ReadPacket, UpdatePeers
<1>2. ASSUME NEW gone, Forget(gone) PROVE peers' \in [Conns -> SUBSET Peer]
  BY <1>2 DEF Forget
<1>3. ASSUME NEW c \in Conns, EncryptMessage(c) PROVE sealed' \in [Conns -> SUBSET Peer]
  BY <1>3 DEF EncryptMessage
<1>4. ASSUME NEW c \in Conns, ClientSteps(c), ~EncryptMessage(c) PROVE sealed' = sealed
  BY <1>4 DEF ClientSteps, Start, KeySteps, LogIn, Quit, ReadPacket, Forget, MessageArrives,
              client
<1>5. ASSUME NEW c \in Conns, ClientSteps(c), ~ReadPacket(c), ~Forget({c})
      PROVE  peers' = peers
  BY <1>5 DEF ClientSteps, Start, KeySteps, LogIn, Quit, EncryptMessage, MessageArrives, client
<1>6. ServerRestarts => sealed' = sealed /\ \E gone : Forget(gone)
  BY DEF ServerRestarts, Forget
<1>7. ASSUME (\E u \in Users : DropOut(u)) \/ RoomSteps \/ Finished \/ UNCHANGED vars
      PROVE  UNCHANGED <<peers, sealed>>
  BY <1>7 DEF DropOut, RoomSteps, Finished, vars, client
<1>8. ASSUME NEW c \in Conns, ClientSteps(c) PROVE untold' = untold
  BY <1>8 DEF ClientSteps, Start, KeySteps, LogIn, Quit, ReadPacket, EncryptMessage,
              MessageArrives
<1>9. ASSUME (\E u \in Users : DropOut(u)) \/ RoomSteps \/ ServerRestarts \/ Finished
             \/ UNCHANGED vars
      PROVE  untold' \in SUBSET Conns
  BY <1>9 DEF DropOut, RoomSteps, ListSteps, MailSteps, Passes, ServerRestarts, Finished, vars
<1>10. untold' \in SUBSET Conns
  BY <1>8, <1>9 DEF Next
<1> QED BY <1>1, <1>2, <1>3, <1>4, <1>5, <1>6, <1>7, <1>10 DEF Next

(* Nothing is told of the room while no change is on its way. *)
Told == change.step \in {"none", "joined", "left"}

(* Who is in is a member. *)
LEMMA InIsMember ==
  ASSUME SystemInv, NEW c \in Conns, prog[c] = "in"
  PROVE  c \in Room!Members
<1>1. who[c] \in Users /\ member[who[c]] = c
  BY DEF SystemInv, KeyPart, KeyInv, MemberInv
<1> QED BY <1>1 DEF Room!Members, Room!Present

(* Telling the list puts it behind all that is unread, where it arrives.     *)
LEMMA TellPeersKeepsUp ==
  ASSUME SystemInv, Room!TellPeers, Passes(Room!Members), UNCHANGED client,
         NEW c \in Conns, prog[c] = "in", c \notin untold'
  PROVE  UpToDate(c)'
<1>1. /\ Room!Offer(Room!Members, [kind |-> "peers", peers |-> Room!PeerList])
      /\ member' = member
  BY DEF Room!TellPeers
<1>2. Room!PeerList' = Room!PeerList
  BY <1>1 DEF Room!PeerList, Room!Present
<1>3. box'[c] # box[c]
  BY InIsMember DEF Passes
<1>4. PICK p, S : p = [kind |-> "peers", peers |-> Room!PeerList] /\ S = Room!Members
  OBVIOUS
<1>5. Room!Offer(S, p)
  BY <1>1, <1>4
<1>6. /\ Len(box'[c]) = Len(box[c]) + 1
      /\ box'[c][Len(box[c]) + 1] = p
  BY <1>3, <1>5, OfferGrows
<1>7. heard[c] \in Nat /\ Len(box[c]) \in Nat /\ heard[c] <= Len(box[c]) /\ heard'[c] = heard[c]
  BY BoxLen DEF SystemInv, ViewInv, client
<1>8. /\ Len(box[c]) + 1 \in Unread(c)'
      /\ \A j \in Unread(c)' : ~(j > Len(box[c]) + 1)
  BY <1>6, <1>7 DEF Unread
<1>9. box'[c][Len(box[c]) + 1] = [kind |-> "peers", peers |-> Room!PeerList']
  BY <1>2, <1>4, <1>6
<1> QED BY <1>8, <1>9 DEF UpToDate

(* After every step, whoever is in and was told has the room's list, or it   *)
(* is under way.                                                              *)
LEMMA ViewStep ==
  ASSUME SystemInv, [Next]_vars, NEW c \in Conns, prog'[c] = "in", Told', c \notin untold'
  PROVE  UpToDate(c)'
<1>1. Told /\ prog[c] = "in" /\ c \notin untold => UpToDate(c)
  BY DEF SystemInv, ViewInv, Told
<1> USE DEF Room!Change, Room!Settled
<1>2. ASSUME NEW S, NEW p, Room!Offer(S, p), p.kind # "peers",
             member' = member, Told, prog[c] = "in", untold' = untold,
             peers'[c] = peers[c], heard'[c] = heard[c]
      PROVE  UpToDate(c)'
  <2>1. \/ box'[c] = box[c]
        \/ /\ Len(box'[c]) = Len(box[c]) + 1
           /\ box'[c][Len(box[c]) + 1].kind # "peers"
           /\ \A i \in DOMAIN box[c] : box'[c][i] = box[c][i]
    BY <1>2, OfferGrows
  <2> QED BY <1>1, <1>2, <2>1, UpToDateStays
<1>3. ASSUME box' = box, member' = member, Told, prog[c] = "in", untold' = untold,
             peers'[c] = peers[c], heard'[c] = heard[c]
      PROVE  UpToDate(c)'
  BY <1>1, <1>3, UpToDateStays
<1>4. ASSUME NEW d \in Conns, LogIn(d) PROVE UpToDate(c)'
  BY <1>4 DEF LogIn, Room!Join, Told
<1>5. ASSUME ~ \E d \in Conns : LogIn(d) PROVE prog[c] = "in"
  BY <1>5, OnlyLogInLetsIn DEF SystemInv
<1>6. ASSUME NEW d \in Conns, NEW u \in Users, Start(d, u), prog[c] = "in" PROVE UpToDate(c)'
  <2>1. PICK p : p = [kind |-> "handshake_ok"]
    OBVIOUS
  <2>2. /\ Room!Offer({d}, p) /\ p.kind # "peers"
        /\ UNCHANGED <<member, change, peers, heard, untold>>
    BY <1>6, <2>1 DEF Start, Room!Open, client
  <2> QED BY <1>2, <1>6, <2>2 DEF Told
<1>7. ASSUME NEW d \in Conns, KeySteps(d) \/ EncryptMessage(d) \/ MessageArrives(d), prog[c] = "in"
      PROVE  UpToDate(c)'
  <2>1. UNCHANGED <<box, member, change, peers, heard, untold>>
    BY <1>7 DEF KeySteps, EncryptMessage, MessageArrives, Room!Post, room, client
  <2> QED BY <1>3, <1>7, <2>1 DEF Told
<1>8. ASSUME NEW d \in Conns, Quit(d), prog[c] = "in" PROVE UpToDate(c)'
  <2>1. /\ UNCHANGED <<box, member, change, untold>>
        /\ prog'[d] = "dead"
    BY <1>8 DEF Quit, End, room, SystemInv, KeyPart, KeyTypeOK
  <2>2. peers'[c] = peers[c] /\ heard'[c] = heard[c]
    BY <1>8, <2>1 DEF Quit, Forget
  <2> QED BY <1>3, <1>8, <2>1, <2>2 DEF Told
<1>9. ASSUME NEW d \in Conns, ReadPacket(d), prog[c] = "in" PROVE UpToDate(c)'
  <2>1. change' = change /\ untold' = untold
    BY <1>9 DEF ReadPacket, room
  <2> QED BY <1>1, <1>9, <2>1, ReadingKeepsUp DEF Told
<1>10. ASSUME NEW u \in Users, DropOut(u) PROVE UpToDate(c)'
  BY <1>10 DEF DropOut, Room!Leave, Told
<1>11. CASE ServerRestarts
  BY <1>11 DEF ServerRestarts
<1>12. ASSUME Room!Welcome \/ Room!Look \/ \E row \in change.due : Room!Recall(row)
       PROVE  UpToDate(c)'
  <2>1. ASSUME NEW row \in change.due, Room!Recall(row) PROVE change'.step = "recall"
    BY <2>1 DEF Room!Recall, SystemInv, ViewInv
  <2>2. ASSUME Room!Welcome PROVE change'.step = "joined peers"
    <3>1. change' = [who |-> change.who, step |-> "joined peers", due |-> {}]
      BY <2>2 DEF Room!Welcome
    <3> QED BY <3>1
  <2>3. ASSUME Room!Look PROVE change'.step = "recall"
    <3>1. PICK rows : change' = [who |-> change.who, step |-> "recall", due |-> rows]
      BY <2>3 DEF Room!Look
    <3> QED BY <3>1
  <2>4. change'.step \in {"recall", "joined peers"}
    BY <1>12, <2>1, <2>2, <2>3
  <2> QED BY <2>4 DEF Told
<1>13. ASSUME Room!RecallFails, Passes(Room!Members), prog[c] = "in" PROVE UpToDate(c)'
  BY <1>13, InIsMember DEF Room!RecallFails, Passes
<1>14. ASSUME NEW d \in Conns, NEW p \in said[d], Room!Deliver(d, p), prog[c] = "in",
              untold' = untold, UNCHANGED client
       PROVE  UpToDate(c)'
  <2>1. p.kind = "message"
    BY DEF SystemInv, MailInv, Message
  <2>2. /\ Room!Offer({member[p.to]}, p) /\ p.kind # "peers"
        /\ UNCHANGED <<member, change>>
    BY <1>14, <2>1 DEF Room!Deliver
  <2> QED BY <1>2, <1>14, <2>2 DEF Told, client
<1>20. ASSUME NEW d \in Conns, Room!Address(d), prog[c] = "in",
              untold' = untold, UNCHANGED client
       PROVE  UpToDate(c)'
  BY <1>3, <1>20 DEF Room!Address, Told, client
<1>15. ASSUME Room!TellPeers, Passes(Room!Members), prog[c] = "in", UNCHANGED client
       PROVE  UpToDate(c)'
  BY <1>15, TellPeersKeepsUp
<1>16. ASSUME Room!TellNote, prog[c] = "in", untold' = untold, UNCHANGED client
       PROVE  UpToDate(c)'
  <2>1. PICK p : p = [kind |-> change.step, user |-> change.who]
    OBVIOUS
  <2>2. /\ change.step \in {"joined", "left"}
        /\ Room!Offer(Room!Members, p)
        /\ member' = member
    BY <1>16, <2>1 DEF Room!TellNote
  <2>3. p.kind # "peers" /\ Told
    BY <2>1, <2>2 DEF Told
  <2>4. PICK S : S = Room!Members
    OBVIOUS
  <2> QED BY <1>2, <1>16, <2>2, <2>3, <2>4 DEF client
<1>17. ASSUME Finished \/ UNCHANGED vars, prog[c] = "in" PROVE UpToDate(c)'
  <2>1. UNCHANGED <<box, member, change, peers, heard, untold>>
    BY <1>17 DEF Finished, vars, room, client
  <2> QED BY <1>3, <1>17, <2>1 DEF Told
<1>18. ASSUME NEW d \in Conns, ClientSteps(d), ~LogIn(d), prog[c] = "in" PROVE UpToDate(c)'
  BY <1>6, <1>7, <1>8, <1>9, <1>18 DEF ClientSteps
<1>19. ASSUME RoomSteps, prog[c] = "in" PROVE UpToDate(c)'
  BY <1>12, <1>13, <1>14, <1>15, <1>16, <1>19, <1>20 DEF RoomSteps, ListSteps, MailSteps
<1> QED BY <1>4, <1>5, <1>10, <1>11, <1>17, <1>18, <1>19 DEF Next

-----------------------------------------------------------------------------
(* The whole system.                                                        *)

(* The system starts with empty boxes and no keys. *)
LEMMA SystemInit == Init => SystemInv
<1> SUFFICES ASSUME Init PROVE SystemInv
  OBVIOUS
<1>1. KeyPart
  BY KeyPartInit
<1>2. /\ member = [u \in Users |-> NoOne] /\ change = Room!Settled
      /\ said = [c \in Conns |-> {}]
      /\ box = [c \in Conns |-> <<>>] /\ archive = Room!EmptyTable
      /\ heard = [c \in Conns |-> 0]
      /\ peers = [c \in Conns |-> {}] /\ sealed = [c \in Conns |-> {}]
      /\ untold = {}
      /\ prog = [c \in Conns |-> "off"]
  BY DEF Init, Room!Init, KeyInit
<1>3. RoomTypeOK
  BY <1>2 DEF RoomTypeOK
<1>4. MemberInv
  BY <1>2 DEF MemberInv
<1>5. BoxInv
  <2>1. box \in [Conns -> Seq(Packet)]
    BY <1>2
  <2>2. \A c \in Conns : DOMAIN box[c] = {}
    BY <1>2
  <2> QED BY <2>1, <2>2 DEF BoxInv
<1>6. change = [who |-> NoOne, step |-> "none", due |-> {}]
  BY <1>2 DEF Room!Settled, Room!Change
<1>7. MailInv
  <2>1. archive \in Room!Table(Conns, Users, Stamps) /\ archive.rows = {}
    BY <1>2 DEF Room!EmptyTable, Room!Table
  <2>2. change.due = {}
    BY <1>6
  <2>3. said \in [Conns -> SUBSET Message] /\ \A c \in Conns : said[c] = {}
    BY <1>2
  <2>4. \A c \in Conns : peers[c] = {} /\ sealed[c] = {}
    BY <1>2
  <2> QED BY <2>1, <2>2, <2>3, <2>4 DEF MailInv
<1>8. ViewInv
  <2>1. /\ change \in [who: Users \cup {NoOne}, step: Steps, due: SUBSET MailRow]
        /\ change.step = "none"
    BY <1>6 DEF Steps
  <2>2. \A c \in Conns : heard[c] = 0 /\ Len(box[c]) = 0 /\ prog[c] = "off"
    BY <1>2
  <2> QED BY <2>1, <2>2 DEF ViewInv
<1> QED BY <1>1, <1>3, <1>4, <1>5, <1>7, <1>8 DEF SystemInv

(* Every step keeps the invariant of the system. *)
LEMMA SystemStep == SystemInv /\ [Next]_vars => SystemInv'
<1> SUFFICES ASSUME SystemInv, [Next]_vars PROVE SystemInv'
  OBVIOUS
<1>1. KeyPart'
  BY KeyPartStep DEF SystemInv
<1>2. RoomTypeOK'
  BY MemberStep, HeardStep, ListsTyped DEF RoomTypeOK
<1>3. MemberInv' /\ BoxInv' /\ MailInv'
  BY MemberStep, BoxStep, MailStep
<1>4. ViewInv'
  <2>1. ChangeOK' /\ HeardInv'
    BY ChangeStep, HeardStep
  <2>2. \A c \in Conns : prog'[c] = "in" /\ Told' /\ c \notin untold' => UpToDate(c)'
    BY ViewStep
  <2> QED BY <2>1, <2>2 DEF ViewInv, ChangeOK, HeardInv, Told
<1> QED BY <1>1, <1>2, <1>3, <1>4 DEF SystemInv

(* The invariant of the system holds in every reachable state. *)
LEMMA SystemSafe == Spec => []SystemInv
BY SystemInit, SystemStep, PTL DEF Spec

(* Every variable keeps its type: what a client takes for a list of peers    *)
(* is one, whatever was put into its box.                                    *)
THEOREM TypeCorrect == Spec => []SystemTypeOK
<1>1. SystemInv => SystemTypeOK
  BY DEF SystemInv, RoomTypeOK, KeyPart, KeyTypeOK, SystemTypeOK, Peer
<1> QED BY <1>1, SystemSafe, PTL

(* Whatever a user is sent the user can read: it was encrypted to an entry   *)
(* that named a key of the reader's account, and the account has only one    *)
(* key as long as its file is not raced.                                      *)
THEOREM MailReadable == Spec => []MailIsReadable
<1>1. SystemInv => MailIsReadable
  <2> SUFFICES ASSUME SystemInv, NEW c \in Conns, who[c] \notin raced, NEW m \in Mail(c)
               PROVE  CanRead(c, m)
    BY DEF MailIsReadable
  <2>1. ASSUME NEW i \in DOMAIN box[c] PROVE box[c][i] \in Packet /\ Proper(c, box[c][i])
    BY DEF SystemInv, BoxInv
  <2>2. m \in Conns /\ key[c] # NoOne /\ who[c] \in Recipients(m)
    <3>1. ASSUME NEW i \in DOMAIN box[c], box[c][i].kind = "message", m = box[c][i].mid
          PROVE  m \in Conns /\ key[c] # NoOne /\ who[c] \in Recipients(m)
      <4>1. box[c][i] \in Message
        BY <2>1, <3>1, PacketIs
      <4>2. m \in Conns
        BY <3>1, <4>1 DEF Message
      <4> QED BY <2>1, <3>1, <4>2 DEF Proper
    <3>2. ASSUME NEW i \in DOMAIN box[c], box[c][i].kind = "history", m = box[c][i].row.mid
          PROVE  m \in Conns /\ key[c] # NoOne /\ who[c] \in Recipients(m)
      <4>1. box[c][i].row \in MailRow
        BY <2>1, <3>2, PacketIs
      <4>2. m \in Conns
        BY <3>2, <4>1 DEF MailRow, Room!Row
      <4> QED BY <2>1, <3>2, <4>2 DEF Proper
    <3> QED BY <3>1, <3>2 DEF Mail
  <2>3. PICK e \in sealed[m] : e.user = who[c]
    BY <2>2 DEF Recipients
  <2>4. e \in Peer /\ Genuine(e)
    BY <2>2, <2>3 DEF SystemInv, MailInv, RoomTypeOK
  <2>5. e.key \in Conns /\ who[e.key] = who[c] /\ key[e.key] # NoOne /\ who[c] \in Users
    BY <2>3, <2>4 DEF Genuine, Peer
  <2>6. key[e.key] = file[who[c]] /\ key[c] = file[who[c]]
    BY <2>2, <2>5 DEF SystemInv, KeyPart, FileInv
  <2> QED BY <2>3, <2>6 DEF CanRead, WrappedFor
<1> QED BY <1>1, SystemSafe, PTL

(* A client that has read all it was sent, the last list of peers with it,   *)
(* encrypts while nobody comes or goes to exactly those who are present,     *)
(* unless one of them has announced a key that the client cannot parse.      *)
THEOREM ViewKept == Spec => []ViewIsRoom
<1>1. SystemInv => ViewIsRoom
  <2> SUFFICES ASSUME SystemInv, NEW c \in Conns, prog[c] = "in",
                      change = Room!Settled, heard[c] = Len(box[c]), c \notin untold,
                      Accepted(Room!PeerList)
               PROVE  peers[c] = Room!PeerList
    BY DEF ViewIsRoom
  <2>1. UpToDate(c)
    BY DEF SystemInv, ViewInv, Room!Settled, Room!Change
  <2>2. Unread(c) = {}
    BY BoxLen DEF Unread
  <2> QED BY <2>1, <2>2 DEF UpToDate
<1> QED BY <1>1, SystemSafe, PTL
=============================================================================
