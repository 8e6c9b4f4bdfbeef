---------------------------- MODULE IdentityKeys ----------------------------
(***************************************************************************)
(* The identity keys of the client: EnsureIdentityKey and                   *)
(* loadOrCreateIdentityKey of internal/network/client.go, over the files of *)
(* ./client_keys.                                                            *)
(*                                                                         *)
(* A program serves one account over one connection.  It reads the          *)
(* account's key file; if there is none it makes a key and writes the file, *)
(* which is opened and cut to nothing first.  Every one of these operations  *)
(* may fail, and the program then lives on.  The programs share one          *)
(* directory and know nothing of each other; a program in another directory *)
(* would have other keys.                                                    *)
(***************************************************************************)
EXTENDS Naturals, FiniteSets

CONSTANTS Conns, Users, NoOne

(* A key file holds the name of a key's maker, or tells that it has none.   *)
ASSUME IdentityAssumption ==
    NoOne \notin Conns /\ "none" \notin Conns /\ "torn" \notin Conns

VARIABLES
    prog,    \* where each program is
    who,     \* the account it was started for
    key,     \* TransportClient.privateKey, named by the program that made it
    file,    \* what is in the key file of each account
    raced,   \* HISTORY: the files that two programs created at once
    halfway  \* HISTORY: the files that a write left unfinished

identity == <<prog, who, key, file, raced, halfway>>

ProgStates == {"off", "start", "make", "write", "ready", "in", "failed", "dead"}

Begin(c, u) ==
    /\ prog[c] = "off"
    /\ prog' = [prog EXCEPT ![c] = "start"]
    /\ who' = [who EXCEPT ![c] = u]
    /\ UNCHANGED <<key, file, raced, halfway>>

(* MUTANT: whatever is in the file is taken for a key. *)
TrustFile(found) == IF found = "none" THEN "make" ELSE "ready"
(* What os.ReadFile and ParsePrivateKeyPEM lead to. *)
AfterReading(found) ==
    CASE found = "none" -> "make"
      [] found = "torn" -> "failed"
      [] OTHER          -> "ready"

(* MUTANT: the session makes a key although it has found one. *)
FreshKey(c, found) == c
(* The key that EnsureIdentityKey keeps for the session. *)
Loaded(c, found) == found

ReadKeyFile(c) ==
    /\ prog[c] = "start"
    /\ LET found == file[who[c]]
       IN  /\ prog' = [prog EXCEPT ![c] = AfterReading(found)]
           /\ key' = [key EXCEPT ![c] =
                        IF AfterReading(found) = "ready" THEN Loaded(c, found) ELSE @]
    /\ UNCHANGED <<who, file, raced, halfway>>

(* An error before the file is touched: it cannot be read, no key can be    *)
(* made, the directory or the file cannot be opened.                         *)
GiveUp(c) ==
    /\ prog[c] \in {"start", "make"}
    /\ prog' = [prog EXCEPT ![c] = "failed"]
    /\ UNCHANGED <<who, key, file, raced, halfway>>

(* SendAuth has returned the error, and the user submits the form again. *)
TryAgain(c) ==
    /\ prog[c] = "failed"
    /\ prog' = [prog EXCEPT ![c] = "start"]
    /\ UNCHANGED <<who, key, file, raced, halfway>>

(* os.WriteFile opens the file and truncates it ... *)
TruncateKeyFile(c) ==
    /\ prog[c] = "make"
    /\ file' = [file EXCEPT ![who[c]] = "torn"]
    /\ raced' = IF file[who[c]] = "none" THEN raced ELSE raced \cup {who[c]}
    /\ prog' = [prog EXCEPT ![c] = "write"]
    /\ UNCHANGED <<who, key, halfway>>

(* MUTANT: the file is left as it was opened. *)
NothingWritten(c) == "torn"
Written(c) == c

(* ... and writes the key, which the session takes only then. *)
WriteKeyFile(c) ==
    /\ prog[c] = "write"
    /\ file' = [file EXCEPT ![who[c]] = Written(c)]
    /\ key' = [key EXCEPT ![c] = c]
    /\ prog' = [prog EXCEPT ![c] = "ready"]
    /\ UNCHANGED <<who, raced, halfway>>

(* The write fails: nothing of it is in the file (the disk is full), a part,  *)
(* or all, when only the close has failed.  The session has no key.          *)
WriteKeyFails(c) ==
    /\ prog[c] = "write"
    /\ \E left \in {file[who[c]], "torn", Written(c)} :
         /\ file' = [file EXCEPT ![who[c]] = left]
         /\ halfway' = IF left = "torn" THEN halfway \cup {who[c]} ELSE halfway
    /\ prog' = [prog EXCEPT ![c] = "failed"]
    /\ UNCHANGED <<who, key, raced>>

(* The program ends: its window is closed, or it is killed. *)
End(c) ==
    /\ prog[c] \notin {"off", "dead"}
    /\ prog' = [prog EXCEPT ![c] = "dead"]
    /\ halfway' = IF prog[c] = "write" THEN halfway \cup {who[c]} ELSE halfway
    /\ UNCHANGED <<who, key, file, raced>>

KeyInit ==
    /\ prog = [c \in Conns |-> "off"]
    /\ who = [c \in Conns |-> NoOne]
    /\ key = [c \in Conns |-> NoOne]
    /\ file = [u \in Users |-> "none"]
    /\ raced = {}
    /\ halfway = {}
=============================================================================
