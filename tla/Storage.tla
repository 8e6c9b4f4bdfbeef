------------------------------- MODULE Storage -------------------------------
(***************************************************************************)
(* The storage layer: internal/storage/sqlite.go over one SQLite file.      *)
(*                                                                         *)
(* Open creates missing tables and renames the columns of a users table     *)
(* that an earlier version left.  The handlers of the server then call      *)
(* CreateUser, AuthenticateUser, SaveMessageHistory and                     *)
(* LoadMessageHistoryForUser at the same time, each over a connection of    *)
(* the pool.  A step is one SQL statement: SQLite lets one connection write *)
(* at a time, keeps what a transaction wrote to itself until it commits,    *)
(* and forgets it when the process dies.                                    *)
(***************************************************************************)
EXTENDS Naturals, FiniteSets, HistoryTable

CONSTANTS
    Handlers,      \* goroutines that call the storage
    Names,         \* usernames
    Addresses,     \* mailboxes
    Secrets,       \* passwords
    Mids,          \* message identifiers, chosen by the clients
    Stamps,        \* timestamps, which need not be dates
    Limits,        \* the limit a caller may pass to the history query: the
                   \* server passes 200, a test 50, and nobody more than 200
    DefaultLimit,  \* 200 in the code
    Kinds,         \* the kinds of calls made, see CallKinds
    MaxCalls,      \* BOUND: calls made in all
    NoOne

CallKinds == {"signup", "login", "save", "load"}

ASSUME StorageAssumption ==
    /\ Stamps \subseteq Nat \ {0} /\ MaxCalls \in Nat
    /\ DefaultLimit \in Nat \ {0} /\ Limits \subseteq 0..DefaultLimit
    /\ Kinds \subseteq CallKinds /\ NoOne \notin Handlers

VARIABLES
    columns,  \* the columns of table users that matter, {}: no table
    users,    \* its rows
    history,  \* table message_history, as committed
    journal,  \* the write transaction: whose, and the table it will leave
    proc,     \* the process: down, on its way through Open, up, refused
    pc,       \* where each handler is in its call
    call,     \* the call it works on
    todo,     \* recipients SaveMessageHistory has still to insert
    answer,   \* the rows the last history query gave it
    calls,    \* how many calls were made
    saves,    \* HISTORY: the saves begun, with their outcome
    owners,   \* HISTORY: who has been told that an account is theirs
    halved    \* HISTORY: the process was killed inside the migration

tables  == <<columns, users, history, journal>>
serving == <<pc, call, todo, answer, calls>>
told    == <<saves, owners, halved>>
vars    == <<tables, proc, serving, told>>

-----------------------------------------------------------------------------
(* An email as typed: "mixed" has capitals or blanks around it, which       *)
(* TrimSpace and ToLower remove.  A username as typed may be padded.         *)
Email    == [addr: Addresses, spelt: {"plain", "mixed"}]
Username == [name: Names, spelt: {"plain", "padded"}]

Account == [name: Names, email: Email, secret: Secrets]

(* fits: the fields pass ValidateSignup and bcrypt's limit of 72 bytes. *)
SignupCall == [kind: {"signup"}, name: Username, email: Email,
               secret: Secrets, fits: BOOLEAN]
LoginCall  == [kind: {"login"}, email: Email, secret: Secrets]
SaveCall   == [kind: {"save"}, mid: Mids, from: Names,
               to: (SUBSET Names) \ {{}}, at: Stamps]
LoadCall   == [kind: {"load"}, user: Names, limit: Limits]
NoCall     == [kind |-> "none"]

(* The rows a save is to leave, and what came of it. *)
Save(s, outcome) == [mid |-> s.mid, from |-> s.from, to |-> s.to,
                     at |-> Datetime(s.at), outcome |-> outcome]

(* MUTANT: the email is kept as it was typed. *)
AsTyped(e) == e
Normalised(e) == [e EXCEPT !.spelt = "plain"]

(* MUTANT: the username is kept as it was typed. *)
Untrimmed(n) == n
Trimmed(n) == n.name

Modern == {"email", "password_hash"}
Legacy == {"mail", "password"}

NoJournal == [owner |-> NoOne, table |-> EmptyTable]

(* Another connection that holds the write lock keeps this one waiting. *)
MayWrite(h) == journal.owner \in {NoOne, h}

-----------------------------------------------------------------------------
(* Open: the schema file, then migrateLegacyUsersSchema.                    *)

(* CREATE TABLE IF NOT EXISTS leaves a table of the old shape alone. *)
CreateTables ==
    /\ proc = "down"
    /\ proc' = "created"
    /\ columns' = IF columns = {} THEN Modern ELSE columns
    /\ UNCHANGED <<users, history, journal, serving, told>>

CurrentSchema ==
    /\ proc = "created"
    /\ Modern \subseteq columns
    /\ proc' = "up"
    /\ UNCHANGED <<tables, serving, told>>

UnsupportedSchema ==
    /\ proc = "created"
    /\ ~(Modern \subseteq columns) /\ ~(Legacy \subseteq columns)
    /\ proc' = "refused"
    /\ UNCHANGED <<tables, serving, told>>

(* MUTANT: a legacy table is dropped and made anew. *)
Recreated == {}
Renamed == users

RenameMail ==
    /\ proc = "created"
    /\ ~(Modern \subseteq columns) /\ Legacy \subseteq columns
    /\ proc' = "renaming"
    /\ columns' = (columns \ {"mail"}) \cup {"email"}
    /\ users' = Renamed
    /\ UNCHANGED <<history, journal, serving, told>>

RenamePassword ==
    /\ proc = "renaming"
    /\ proc' = "up"
    /\ columns' = (columns \ {"password"}) \cup {"password_hash"}
    /\ UNCHANGED <<users, history, journal, serving, told>>

(* The process dies, or Open returned its error and main ends.  The open     *)
(* transaction and the handlers are gone; the tables stay.                   *)
Die ==
    /\ proc # "down"
    /\ proc' = "down"
    /\ journal' = NoJournal
    /\ pc' = [h \in Handlers |-> "idle"]
    /\ call' = [h \in Handlers |-> NoCall]
    /\ todo' = [h \in Handlers |-> {}]
    /\ answer' = [h \in Handlers |-> {}]
    /\ halved' = (halved \/ proc = "renaming")
    /\ UNCHANGED <<columns, users, history, calls, saves, owners>>

-----------------------------------------------------------------------------
(* Calls: how one begins and how it ends.                                   *)

FirstStep(k) ==
    CASE k = "signup" -> "insert"
      [] k = "login"  -> "look"
      [] k = "save"   -> "rows"
      [] k = "load"   -> "query"

(* BOUND: no two saves have the same identifier, author and created_at, so   *)
(* that a row tells which save wrote it.                                     *)
Begin(h, k) ==
    /\ proc = "up"
    /\ pc[h] = "idle"
    /\ calls < MaxCalls
    /\ k.kind = "save" =>
         \A s \in saves :
           <<s.mid, s.from, s.at>> # <<k.mid, k.from, Datetime(k.at)>>
    /\ calls' = calls + 1
    /\ call' = [call EXCEPT ![h] = k]
    /\ pc' = [pc EXCEPT ![h] = FirstStep(k.kind)]
    /\ todo' = [todo EXCEPT ![h] = IF k.kind = "save" THEN k.to ELSE {}]
    /\ saves' = IF k.kind = "save" THEN saves \cup {Save(k, "open")} ELSE saves
    /\ answer' = [answer EXCEPT ![h] = {}]
    /\ UNCHANGED <<tables, proc, owners, halved>>

Finish(h) ==
    /\ pc' = [pc EXCEPT ![h] = "idle"]
    /\ call' = [call EXCEPT ![h] = NoCall]
    /\ todo' = [todo EXCEPT ![h] = {}]
    /\ UNCHANGED calls

Outcome(s, outcome) == (saves \ {Save(s, "open")}) \cup {Save(s, outcome)}

(* MUTANT: no deferred Rollback; the transaction stays open. *)
KeptOpen(h) == journal
RolledBack(h) == IF journal.owner = h THEN NoJournal ELSE journal

(* The statement fails: the context is cancelled, the disk is full, the wait *)
(* for the write lock took too long, or a row of the answer has no date.     *)
Fail(h) ==
    /\ pc[h] # "idle"
    /\ journal' = RolledBack(h)
    /\ saves' = IF call[h].kind = "save" THEN Outcome(call[h], "failed")
                                         ELSE saves
    /\ Finish(h)
    /\ UNCHANGED <<columns, users, history, proc, answer, owners, halved>>

-----------------------------------------------------------------------------
(* CreateUser, and AuthenticateUser, which a sign-up calls as well.         *)

SignupInvalid(h) ==
    /\ pc[h] = "insert"
    /\ ~call[h].fits
    /\ Finish(h)
    /\ UNCHANGED <<tables, proc, answer, told>>

(* UNIQUE on username and on email *)
Clash(row) == \E r \in users : r.name = row.name \/ r.email = row.email

NewAccount(k) ==
    [name |-> Trimmed(k.name), email |-> Normalised(k.email),
     secret |-> k.secret]

CreateUser(h) ==
    /\ pc[h] = "insert"
    /\ call[h].fits
    /\ MayWrite(h)
    /\ ~Clash(NewAccount(call[h]))
    /\ users' = users \cup {NewAccount(call[h])}
    /\ pc' = [pc EXCEPT ![h] = "look"]
    /\ UNCHANGED <<columns, history, journal, proc, call, todo, answer, calls,
                   told>>

UserExists(h) ==
    /\ pc[h] = "insert"
    /\ call[h].fits
    /\ MayWrite(h)
    /\ Clash(NewAccount(call[h]))
    /\ Finish(h)
    /\ UNCHANGED <<tables, proc, answer, told>>

(* MUTANT: the log-in looks the address up as it was typed. *)
MatchingAsTyped(email, secret) ==
    {r \in users : r.email = email /\ r.secret = secret}
(* GetUserByEmail and the comparison of the hash *)
Matching(email, secret) ==
    {r \in users : r.email = Normalised(email) /\ r.secret = secret}

Authenticated(h) ==
    /\ pc[h] = "look"
    /\ \E r \in Matching(call[h].email, call[h].secret) :
         owners' = owners \cup
           {[name |-> r.name, addr |-> call[h].email.addr, secret |-> r.secret]}
    /\ Finish(h)
    /\ UNCHANGED <<tables, proc, answer, saves, halved>>

InvalidCredentials(h) ==
    /\ pc[h] = "look"
    /\ Matching(call[h].email, call[h].secret) = {}
    /\ Finish(h)
    /\ UNCHANGED <<tables, proc, answer, told>>

-----------------------------------------------------------------------------
(* SaveMessageHistory: BEGIN, one INSERT OR REPLACE per recipient in the     *)
(* order of a map, COMMIT.  The first INSERT takes the write lock.           *)

Pending(h) == IF journal.owner = h THEN journal.table ELSE history

(* MUTANT: every row commits by itself. *)
CommittedAtOnce(t) == t
CommittedYet(t) == history

InsertRow(h, u) ==
    /\ pc[h] = "rows"
    /\ u \in todo[h]
    /\ MayWrite(h)
    /\ LET t == Insert(Pending(h), call[h].mid, call[h].from, {u}, call[h].at)
       IN  /\ journal' = [owner |-> h, table |-> t]
           /\ history' = CommittedYet(t)
    /\ todo' = [todo EXCEPT ![h] = @ \ {u}]
    /\ UNCHANGED <<columns, users, proc, pc, call, answer, calls, told>>

Commit(h) ==
    /\ pc[h] = "rows"
    /\ todo[h] = {}
    /\ history' = journal.table
    /\ journal' = NoJournal
    /\ saves' = Outcome(call[h], "saved")
    /\ Finish(h)
    /\ UNCHANGED <<columns, users, proc, answer, owners, halved>>

(* MUTANT: the query sees what is not committed. *)
Dirty == IF journal.owner = NoOne THEN history ELSE journal.table
Visible == history

LimitOf(limit) == IF limit = 0 THEN DefaultLimit ELSE limit

(* LoadMessageHistoryForUser.  One unreadable row fails all of it: Fail.     *)
LoadHistory(h) ==
    /\ pc[h] = "query"
    /\ LET rows == HistoryFor(Visible, call[h].user, LimitOf(call[h].limit))
       IN  /\ Readable(rows)
           /\ answer' = [answer EXCEPT ![h] = rows]
    /\ Finish(h)
    /\ UNCHANGED <<tables, proc, told>>

-----------------------------------------------------------------------------
(* No file yet, or one that this or an earlier version left with an account. *)
Init ==
    /\ \/ columns = {} /\ users = {}
       \/ /\ columns \in {Modern, Legacy}
          /\ users \in {{r} : r \in {s \in Account :
                columns = Modern => s.email.spelt = "plain"}}
    /\ history = EmptyTable
    /\ journal = NoJournal
    /\ proc = "down"
    /\ pc = [h \in Handlers |-> "idle"]
    /\ call = [h \in Handlers |-> NoCall]
    /\ todo = [h \in Handlers |-> {}]
    /\ answer = [h \in Handlers |-> {}]
    /\ calls = 0
    /\ saves = {}
    /\ owners = {[name |-> r.name, addr |-> r.email.addr, secret |-> r.secret] :
                   r \in {s \in users : s.email.spelt = "plain"}}
    /\ halved = FALSE

Calls == {k \in SignupCall \cup LoginCall \cup SaveCall \cup LoadCall :
            k.kind \in Kinds}

OpenSteps ==
    CreateTables \/ CurrentSchema \/ UnsupportedSchema \/ RenameMail
      \/ RenamePassword

AccountSteps(h) ==
    SignupInvalid(h) \/ CreateUser(h) \/ UserExists(h) \/ Authenticated(h)
      \/ InvalidCredentials(h)

HistorySteps(h) ==
    (\E u \in Names : InsertRow(h, u)) \/ Commit(h) \/ LoadHistory(h)

Next ==
    \/ OpenSteps \/ Die
    \/ \E h \in Handlers :
         \/ \E k \in Calls : Begin(h, k)
         \/ AccountSteps(h) \/ HistorySteps(h) \/ Fail(h)

Spec == Init /\ [][Next]_vars
=============================================================================
