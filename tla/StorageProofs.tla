---------------------------- MODULE StorageProofs ----------------------------
(***************************************************************************)
(* Theorems about Storage for every number of handlers, accounts, messages *)
(* and calls.                                                               *)
(***************************************************************************)
EXTENDS StorageProperties, Integers, FiniteSetTheorems, TLAPS

USE StorageAssumption

-----------------------------------------------------------------------------
(* The strengthenings that make the properties inductive.                   *)

(* What a handler's place in its call says of the call.                     *)
CallInv ==
    \A h \in Handlers :
      /\ pc[h] = "idle" => call[h] = NoCall
      /\ pc[h] = "insert" => call[h] \in SignupCall
      /\ pc[h] = "look" => call[h] \in SignupCall \cup LoginCall
      /\ pc[h] = "rows" => call[h] \in SaveCall
      /\ pc[h] = "query" => call[h] \in LoadCall
      /\ pc[h] # "idle" => proc = "up"

Halfway == {"email", "password"}

(* The columns tell how far the migration has come.                         *)
SchemaInv ==
    /\ columns \in {{}, Modern, Legacy, Halfway}
    /\ proc = "created" => columns # {}
    /\ proc \in {"renaming", "refused"} => columns = Halfway
    /\ proc = "up" => columns = Modern
    /\ columns = Halfway => proc = "renaming" \/ halved

(* UNIQUE holds, and every owner's account has its address normalised.      *)
AccountInv ==
    /\ \A r, q \in users : r.name = q.name \/ r.email = q.email => r = q
    /\ \A o \in owners :
         [name |-> o.name, email |-> [addr |-> o.addr, spelt |-> "plain"],
          secret |-> o.secret] \in users

(* One row per message and reader, under an id that AUTOINCREMENT has given  *)
(* out, and to no other row of that reader.                                   *)
WellNumbered(t) ==
    /\ IsFiniteSet(t.rows)
    /\ \A r \in t.rows : r.id <= t.seq
    /\ \A r, q \in t.rows : r.to = q.to /\ r.id = q.id => r = q

TableInv == WellNumbered(history) /\ WellNumbered(journal.table)

(* The save of call k, while a handler works on it.                         *)
Begun(k) == Save(k, "open")

(* No two saves share identifier, author and time; one that a handler works *)
(* on is open; a row of the table is of a save that is done, and a save that *)
(* is done has a row under its identifier for each reader.                    *)
SavesInv ==
    /\ \A s, t \in saves : RowOf(s, t) => s = t
    /\ \A h \in Handlers : pc[h] = "rows" => Begun(call[h]) \in saves
    /\ \A h, g \in Handlers :
         /\ pc[h] = "rows" /\ pc[g] = "rows"
         /\ RowOf(Begun(call[h]), Begun(call[g]))
         => h = g
    /\ \A r \in history.rows : \E s \in saves : s.outcome = "saved" /\ RowOf(s, r)
    /\ \A s \in saves : s.outcome = "saved" =>
         \A u \in s.to : \E r \in history.rows : r.mid = s.mid /\ r.to = u

USE DEF Begun

(* What the handler h has inserted so far. *)
Inserted(h) == call[h].to \ todo[h]

(* The open transaction is that of a save which has inserted a row.  The     *)
(* table it will leave is the committed one, with the rows of Inserted(h)    *)
(* in the place of those they replaced, numbered after every committed row.  *)
InTransaction(h) ==
    /\ pc[h] = "rows"
    /\ history.seq <= journal.table.seq
    /\ \A r \in journal.table.rows : r \in history.rows \/ RowOf(Begun(call[h]), r)
    /\ \A u \in Inserted(h) :
         \E r \in journal.table.rows : r.mid = call[h].mid /\ r.to = u
    /\ \A r \in history.rows \ journal.table.rows :
         \E s \in journal.table.rows : SameKey(r, s) /\ history.seq < s.id

JournalInv ==
    \A h \in Handlers :
      /\ journal.owner = h => InTransaction(h)
      /\ pc[h] = "rows" =>
           todo[h] \subseteq call[h].to /\ (journal.owner = h \/ todo[h] = call[h].to)

(* An answer is made of rows of saves that are done.                        *)
AnswerInv ==
    \A h \in Handlers : \A r \in answer[h] :
      \E s \in saves : s.outcome = "saved" /\ RowOf(s, r)

-----------------------------------------------------------------------------
(* What the helpers return.                                                 *)

(* Inserting a row leaves a table, one number further.                      *)
LEMMA InsertTyped ==
  ASSUME NEW t \in Table(Mids, Names, Stamps), NEW mid \in Mids,
         NEW from \in Names, NEW u \in Names, NEW at \in Stamps
  PROVE  Insert(t, mid, from, {u}, at) \in Table(Mids, Names, Stamps)
<1> DEFINE new == [id |-> t.seq + 1, mid |-> mid, from |-> from, to |-> u,
                 at |-> Datetime(at)]
<1>1. t.seq + 1 \in Nat /\ t.rows \in SUBSET Row(Mids, Names, Stamps)
  BY DEF Table
<1>2. Datetime(at) \in Stamps \cup {0}
  BY DEF Datetime
<1>4. new \in Row(Mids, Names, Stamps)
  BY <1>1, <1>2 DEF Row
<1>3. Insert(t, mid, from, {u}, at) =
        [rows |-> {r \in t.rows : ~SameKey(r, new)} \cup {new}, seq |-> t.seq + 1]
  BY DEF Insert
<1> HIDE DEF new
<1> QED BY <1>1, <1>3, <1>4 DEF Table

(* The one row it adds, and the rows that stay.                             *)
LEMMA InsertRows ==
  ASSUME NEW t, NEW mid, NEW from, NEW u, NEW at
  PROVE  \E new :
           /\ new = [id |-> t.seq + 1, mid |-> mid, from |-> from, to |-> u,
                 at |-> Datetime(at)]
           /\ Insert(t, mid, from, {u}, at).rows =
                {r \in t.rows : ~SameKey(r, new)} \cup {new}
           /\ Insert(t, mid, from, {u}, at).seq = t.seq + 1
<1> DEFINE row == [id |-> t.seq + 1, mid |-> mid, from |-> from, to |-> u,
                 at |-> Datetime(at)]
<1>1. Insert(t, mid, from, {u}, at) =
        [rows |-> {r \in t.rows : ~SameKey(r, row)} \cup {row}, seq |-> t.seq + 1]
  BY DEF Insert
<1>2. row = [id |-> t.seq + 1, mid |-> mid, from |-> from, to |-> u,
                 at |-> Datetime(at)]
  OBVIOUS
<1> HIDE DEF row
<1> QED BY <1>1, <1>2

(* An empty table is well numbered. *)
LEMMA NothingWrong ==
  /\ EmptyTable \in Table(Mids, Names, Stamps)
  /\ WellNumbered(EmptyTable)
BY FS_EmptySet DEF EmptyTable, Table, WellNumbered

(* The tables a transaction starts from and leaves. *)
LEMMA PendingTyped ==
  ASSUME StorageTypeOK, NEW h \in Handlers
  PROVE  Pending(h) \in Table(Mids, Names, Stamps)
BY DEF StorageTypeOK, Pending

(* The first statement of each call. *)
LEMMA FirstStepIs ==
  /\ FirstStep("signup") = "insert"
  /\ FirstStep("login") = "look"
  /\ FirstStep("save") = "rows"
  /\ FirstStep("load") = "query"
BY DEF FirstStep

(* A call is one of four kinds. *)
LEMMA CallsAre ==
  ASSUME NEW k \in Calls
  PROVE  \/ k \in SignupCall /\ k.kind = "signup"
         \/ k \in LoginCall /\ k.kind = "login"
         \/ k \in SaveCall /\ k.kind = "save"
         \/ k \in LoadCall /\ k.kind = "load"
BY DEF Calls, SignupCall, LoginCall, SaveCall, LoadCall

(* A normalised account is an account. *)
LEMMA NewAccountTyped ==
  ASSUME NEW k \in SignupCall
  PROVE  /\ NewAccount(k) \in Account
         /\ NewAccount(k).email = [addr |-> k.email.addr, spelt |-> "plain"]
<1>1. k.name \in Username /\ k.email \in Email /\ k.secret \in Secrets
  BY DEF SignupCall
<1>2. Trimmed(k.name) \in Names
  BY <1>1 DEF Trimmed, Username
<1>3. Normalised(k.email) = [addr |-> k.email.addr, spelt |-> "plain"]
  BY <1>1 DEF Normalised, Email
<1>4. Normalised(k.email) \in Email
  BY <1>1, <1>3 DEF Email
<1> QED BY <1>1, <1>2, <1>3, <1>4 DEF NewAccount, Account

(* What normalising leaves of an address is whose it is. *)
LEMMA NormalisedIs ==
  ASSUME NEW e \in Email
  PROVE  Normalised(e) = [addr |-> e.addr, spelt |-> "plain"]
BY DEF Normalised, Email

-----------------------------------------------------------------------------
(* Type correctness, with what a handler's place says of its call.          *)

TypeInv == StorageTypeOK /\ CallInv

(* The variables start in their types. *)
LEMMA TypeInit == Init => TypeInv
<1> SUFFICES ASSUME Init PROVE TypeInv
  OBVIOUS
<1>1. columns \in SUBSET (Modern \cup Legacy) /\ users \in SUBSET Account
  BY DEF Init
<1>2. owners \in SUBSET [name: Names, addr: Addresses, secret: Secrets]
  <2>1. ASSUME NEW r \in users
        PROVE  [name |-> r.name, addr |-> r.email.addr, secret |-> r.secret]
                 \in [name: Names, addr: Addresses, secret: Secrets]
    BY <1>1 DEF Account, Email
  <2> QED BY <2>1 DEF Init
<1>3. /\ history \in Table(Mids, Names, Stamps)
      /\ journal \in [owner: Handlers \cup {NoOne}, table: Table(Mids, Names, Stamps)]
  BY NothingWrong DEF Init, NoJournal
<1>4. /\ pc \in [Handlers -> {"idle", "insert", "look", "rows", "query"}]
      /\ call \in [Handlers -> SignupCall \cup LoginCall \cup SaveCall
                                 \cup LoadCall \cup {NoCall}]
      /\ todo \in [Handlers -> SUBSET Names]
      /\ answer \in [Handlers -> SUBSET Row(Mids, Names, Stamps)]
  BY DEF Init
<1>5. /\ proc = "down" /\ calls = 0 /\ saves = {} /\ halved = FALSE
      /\ 0 \in 0..MaxCalls
  BY DEF Init
<1>6. StorageTypeOK
  BY <1>1, <1>2, <1>3, <1>4, <1>5 DEF StorageTypeOK
<1>7. CallInv
  BY DEF Init, CallInv
<1> QED BY <1>6, <1>7 DEF TypeInv

(* Opening the file keeps the types ... *)
LEMMA OpenStepsTyped ==
  ASSUME TypeInv, OpenSteps
  PROVE  TypeInv'
<1> USE DEF TypeInv, StorageTypeOK, serving, told, tables
<1> CASE CreateTables
  <2>1. columns' \in SUBSET (Modern \cup Legacy)
    BY DEF CreateTables
  <2>2. StorageTypeOK'
    BY <2>1 DEF CreateTables
  <2>3. CallInv'
    BY DEF CreateTables, CallInv
  <2> QED BY <2>2, <2>3
<1> CASE CurrentSchema
  BY DEF CurrentSchema, CallInv
<1> CASE UnsupportedSchema
  BY DEF UnsupportedSchema, CallInv
<1> CASE RenameMail
  <2>1. columns' \in SUBSET (Modern \cup Legacy)
    BY DEF RenameMail, Modern
  <2>2. StorageTypeOK'
    BY <2>1 DEF RenameMail, Renamed
  <2>3. CallInv'
    BY DEF RenameMail, CallInv
  <2> QED BY <2>2, <2>3
<1> CASE RenamePassword
  <2>1. columns' \in SUBSET (Modern \cup Legacy)
    BY DEF RenamePassword, Modern
  <2>2. StorageTypeOK'
    BY <2>1 DEF RenamePassword
  <2>3. CallInv'
    BY DEF RenamePassword, CallInv
  <2> QED BY <2>2, <2>3
<1> QED BY DEF OpenSteps

(* ... so does a kill ... *)
LEMMA DieTyped ==
  ASSUME TypeInv, Die
  PROVE  TypeInv'
<1>1. journal' \in [owner: Handlers \cup {NoOne}, table: Table(Mids, Names, Stamps)]
  BY NothingWrong DEF Die, NoJournal
<1>2. StorageTypeOK'
  BY <1>1 DEF Die, TypeInv, StorageTypeOK
<1>3. CallInv'
  BY DEF Die, CallInv
<1> QED BY <1>2, <1>3 DEF TypeInv

(* ... the beginning of a call ... *)
LEMMA BeginTyped ==
  ASSUME TypeInv, NEW h \in Handlers, NEW k \in Calls, Begin(h, k)
  PROVE  TypeInv'
<1>1. /\ call' \in [Handlers -> SignupCall \cup LoginCall \cup SaveCall
                                  \cup LoadCall \cup {NoCall}]
      /\ pc' \in [Handlers -> {"idle", "insert", "look", "rows", "query"}]
  BY FirstStepIs, CallsAre DEF TypeInv, StorageTypeOK, Begin
<1>2. todo' \in [Handlers -> SUBSET Names] /\ answer' \in [Handlers -> SUBSET Row(Mids, Names, Stamps)]
  BY CallsAre DEF TypeInv, StorageTypeOK, Begin, SaveCall
<1>3. saves' \in SUBSET [mid: Mids, from: Names, to: SUBSET Names, at: Stamps \cup {0},
                         outcome: {"open", "saved", "failed"}]
  BY CallsAre DEF TypeInv, StorageTypeOK, Begin, SaveCall, Save, Datetime
<1>4. calls' \in 0..MaxCalls
  BY DEF TypeInv, StorageTypeOK, Begin
<1>5. StorageTypeOK'
  BY <1>1, <1>2, <1>3, <1>4 DEF TypeInv, StorageTypeOK, Begin, tables
<1>6. CallInv'
  <2>1. /\ pc' = [pc EXCEPT ![h] = FirstStep(k.kind)]
        /\ call' = [call EXCEPT ![h] = k]
        /\ proc = "up" /\ proc' = proc
    BY DEF Begin
  <2>2. ASSUME NEW g \in Handlers, g # h
        PROVE  pc'[g] = pc[g] /\ call'[g] = call[g]
    BY <2>1, <2>2 DEF TypeInv, StorageTypeOK
  <2>3. pc'[h] = FirstStep(k.kind) /\ call'[h] = k
    BY <2>1 DEF TypeInv, StorageTypeOK
  <2> QED BY <2>1, <2>2, <2>3, FirstStepIs, CallsAre DEF TypeInv, CallInv
<1> QED BY <1>5, <1>6 DEF TypeInv

(* The end of a call, whatever the outcome of the save it may have been. *)
LEMMA FinishTyped ==
  ASSUME TypeInv, NEW h \in Handlers, Finish(h), proc' = proc
  PROVE  /\ CallInv'
         /\ pc' \in [Handlers -> {"idle", "insert", "look", "rows", "query"}]
         /\ call' \in [Handlers -> SignupCall \cup LoginCall \cup SaveCall
                                    \cup LoadCall \cup {NoCall}]
         /\ todo' \in [Handlers -> SUBSET Names]
         /\ calls' \in 0..MaxCalls
<1>1. /\ pc' \in [Handlers -> {"idle", "insert", "look", "rows", "query"}]
      /\ call' \in [Handlers -> SignupCall \cup LoginCall \cup SaveCall
                                  \cup LoadCall \cup {NoCall}]
      /\ todo' \in [Handlers -> SUBSET Names]
      /\ calls' \in 0..MaxCalls
  BY DEF TypeInv, StorageTypeOK, Finish
<1>2. CallInv'
  <2>1. ASSUME NEW g \in Handlers, g # h
        PROVE  pc'[g] = pc[g] /\ call'[g] = call[g]
    BY <2>1 DEF TypeInv, StorageTypeOK, Finish
  <2>2. pc'[h] = "idle" /\ call'[h] = NoCall
    BY DEF TypeInv, StorageTypeOK, Finish
  <2> QED BY <2>1, <2>2 DEF TypeInv, CallInv
<1> QED BY <1>1, <1>2

(* The call of a handler that saves, and the only calls that are saves. *)
LEMMA SaveCallIs ==
  ASSUME TypeInv, NEW h \in Handlers
  PROVE  /\ pc[h] = "rows" => call[h] \in SaveCall /\ call[h].kind = "save"
         /\ pc[h] # "idle" /\ call[h].kind = "save" => pc[h] = "rows"
BY DEF TypeInv, StorageTypeOK, CallInv, SaveCall, LoadCall, SignupCall, LoginCall

(* (a save that is over has its outcome) *)
LEMMA OutcomeTyped ==
  ASSUME TypeInv, NEW s \in SaveCall, NEW o \in {"saved", "failed"}
  PROVE  Outcome(s, o) \in SUBSET [mid: Mids, from: Names, to: SUBSET Names, at: Stamps \cup {0},
                                   outcome: {"open", "saved", "failed"}]
<1>1. Save(s, o) \in [mid: Mids, from: Names, to: SUBSET Names, at: Stamps \cup {0},
                      outcome: {"open", "saved", "failed"}]
  BY DEF Save, SaveCall, Datetime
<1> QED BY <1>1 DEF Outcome, TypeInv, StorageTypeOK

(* ... a failure ... *)
LEMMA FailTyped ==
  ASSUME TypeInv, NEW h \in Handlers, Fail(h)
  PROVE  TypeInv'
<1>1. Finish(h) /\ proc' = proc /\ pc[h] # "idle"
  BY DEF Fail
<1>2. journal' \in [owner: Handlers \cup {NoOne}, table: Table(Mids, Names, Stamps)]
  BY NothingWrong DEF Fail, RolledBack, NoJournal, TypeInv, StorageTypeOK
<1>3. saves' \in SUBSET [mid: Mids, from: Names, to: SUBSET Names, at: Stamps \cup {0},
                         outcome: {"open", "saved", "failed"}]
  BY <1>1, SaveCallIs, OutcomeTyped DEF Fail, TypeInv, StorageTypeOK
<1> QED BY <1>1, <1>2, <1>3, FinishTyped DEF Fail, TypeInv, StorageTypeOK

(* ... a statement on the accounts ... *)
LEMMA AccountStepsTyped ==
  ASSUME TypeInv, NEW h \in Handlers, AccountSteps(h)
  PROVE  TypeInv'
<1>1. CASE SignupInvalid(h)
  BY <1>1, FinishTyped DEF SignupInvalid, TypeInv, StorageTypeOK, tables, told
<1>2. CASE UserExists(h)
  BY <1>2, FinishTyped DEF UserExists, TypeInv, StorageTypeOK, tables, told
<1>3. CASE InvalidCredentials(h)
  BY <1>3, FinishTyped DEF InvalidCredentials, TypeInv, StorageTypeOK, tables, told
<1>4. CASE Authenticated(h)
  <2>1. call[h].email \in Email
    BY <1>4 DEF Authenticated, TypeInv, CallInv, SignupCall, LoginCall
  <2>2. PICK r \in Matching(call[h].email, call[h].secret) :
          owners' = owners \cup
            {[name |-> r.name, addr |-> call[h].email.addr, secret |-> r.secret]}
    BY <1>4 DEF Authenticated
  <2>3. r \in Account
    BY <2>2 DEF Matching, TypeInv, StorageTypeOK
  <2>4. [name |-> r.name, addr |-> call[h].email.addr, secret |-> r.secret]
          \in [name: Names, addr: Addresses, secret: Secrets]
    BY <2>1, <2>3 DEF Account, Email
  <2>5. owners' \in SUBSET [name: Names, addr: Addresses, secret: Secrets]
    BY <2>2, <2>4 DEF TypeInv, StorageTypeOK
  <2> QED BY <1>4, <2>5, FinishTyped DEF Authenticated, TypeInv, StorageTypeOK, tables
<1>5. CASE CreateUser(h)
  <2>1. call[h] \in SignupCall /\ proc = "up"
    BY <1>5 DEF CreateUser, TypeInv, CallInv
  <2>2. users' \in SUBSET Account
    BY <1>5, <2>1, NewAccountTyped DEF CreateUser, TypeInv, StorageTypeOK
  <2>3. pc' \in [Handlers -> {"idle", "insert", "look", "rows", "query"}]
    BY <1>5 DEF CreateUser, TypeInv, StorageTypeOK
  <2>4. StorageTypeOK'
    BY <1>5, <2>2, <2>3 DEF CreateUser, TypeInv, StorageTypeOK, told
  <2>5. CallInv'
    BY <1>5, <2>1 DEF CreateUser, TypeInv, StorageTypeOK, CallInv
  <2> QED BY <2>4, <2>5 DEF TypeInv
<1> QED BY <1>1, <1>2, <1>3, <1>4, <1>5 DEF AccountSteps

(* ... and one on the messages. *)
LEMMA HistoryStepsTyped ==
  ASSUME TypeInv, NEW h \in Handlers, HistorySteps(h)
  PROVE  TypeInv'
<1>1. ASSUME NEW u \in Names, InsertRow(h, u) PROVE TypeInv'
  <2>1. call[h] \in SaveCall
    BY <1>1, SaveCallIs DEF InsertRow
  <2>2. Insert(Pending(h), call[h].mid, call[h].from, {u}, call[h].at)
          \in Table(Mids, Names, Stamps)
    BY <2>1, PendingTyped, InsertTyped DEF SaveCall, TypeInv
  <2>3. /\ journal' \in [owner: Handlers \cup {NoOne}, table: Table(Mids, Names, Stamps)]
        /\ history' = history
    BY <1>1, <2>2 DEF InsertRow, CommittedYet
  <2>4. todo' \in [Handlers -> SUBSET Names]
    BY <1>1 DEF InsertRow, TypeInv, StorageTypeOK
  <2> QED BY <1>1, <2>3, <2>4 DEF InsertRow, TypeInv, StorageTypeOK, CallInv, told
<1>2. CASE Commit(h)
  <2>1. Finish(h) /\ proc' = proc /\ call[h] \in SaveCall
    BY <1>2, SaveCallIs DEF Commit
  <2>2. /\ history' \in Table(Mids, Names, Stamps)
        /\ journal' \in [owner: Handlers \cup {NoOne}, table: Table(Mids, Names, Stamps)]
    BY <1>2, NothingWrong DEF Commit, NoJournal, TypeInv, StorageTypeOK
  <2>3. saves' \in SUBSET [mid: Mids, from: Names, to: SUBSET Names, at: Stamps \cup {0},
                           outcome: {"open", "saved", "failed"}]
    BY <1>2, <2>1, OutcomeTyped DEF Commit
  <2> QED BY <1>2, <2>1, <2>2, <2>3, FinishTyped DEF Commit, TypeInv, StorageTypeOK
<1>3. CASE LoadHistory(h)
  <2>1. HistoryFor(Visible, call[h].user, LimitOf(call[h].limit))
          \in SUBSET Row(Mids, Names, Stamps)
    BY DEF HistoryFor, Oldest, Inbox, Visible, TypeInv, StorageTypeOK, Table
  <2>2. answer' \in [Handlers -> SUBSET Row(Mids, Names, Stamps)]
    BY <1>3, <2>1 DEF LoadHistory, TypeInv, StorageTypeOK
  <2> QED BY <1>3, <2>2, FinishTyped DEF LoadHistory, TypeInv, StorageTypeOK, tables, told
<1> QED BY <1>1, <1>2, <1>3 DEF HistorySteps

(* Every step keeps the types. *)
LEMMA TypeStep == TypeInv /\ [Next]_vars => TypeInv'
<1> SUFFICES ASSUME TypeInv, [Next]_vars PROVE TypeInv'
  OBVIOUS
<1>1. CASE UNCHANGED vars
  BY <1>1 DEF vars, tables, serving, told, TypeInv, StorageTypeOK, CallInv
<1> QED BY <1>1, OpenStepsTyped, DieTyped, BeginTyped, AccountStepsTyped,
           HistoryStepsTyped, FailTyped DEF Next

(* Every variable of the storage keeps its type: the tables hold accounts   *)
(* and rows, and a handler is at a statement of a call it can make.          *)
THEOREM TypeCorrect == Spec => []StorageTypeOK
<1>1. Spec => []TypeInv
  BY TypeInit, TypeStep, PTL DEF Spec
<1>2. TypeInv => StorageTypeOK
  BY DEF TypeInv
<1> QED BY <1>1, <1>2, PTL

-----------------------------------------------------------------------------
(* What the steps leave alone.                                              *)

(* The handlers that save are as they were. *)
SameSavers ==
    \A g \in Handlers :
      /\ pc'[g] = "rows" <=> pc[g] = "rows"
      /\ pc[g] = "rows" => call'[g] = call[g] /\ todo'[g] = todo[g]

(* A handler whose call ends leaves the others where they are. *)
LEMMA FinishMoves ==
  ASSUME TypeInv, NEW h \in Handlers, Finish(h)
  PROVE  /\ pc'[h] = "idle"
         /\ \A g \in Handlers \ {h} :
              pc'[g] = pc[g] /\ call'[g] = call[g] /\ todo'[g] = todo[g]
BY DEF Finish, TypeInv, StorageTypeOK

(* Opening the file, signing up, logging in and reading the history write    *)
(* neither the history nor the record of the saves.                           *)
LEMMA QuietSteps ==
  ASSUME TypeInv,
         \/ OpenSteps
         \/ \E h \in Handlers : AccountSteps(h) \/ LoadHistory(h)
  PROVE  UNCHANGED <<history, journal, saves>> /\ SameSavers
<1>1. CASE OpenSteps
  BY <1>1 DEF OpenSteps, CreateTables, CurrentSchema, UnsupportedSchema, RenameMail,
              RenamePassword, serving, told, tables, SameSavers
<1>2. ASSUME NEW h \in Handlers, SignupInvalid(h) \/ UserExists(h) \/ InvalidCredentials(h)
      PROVE  UNCHANGED <<history, journal, saves>> /\ SameSavers
  BY <1>2, FinishMoves DEF SignupInvalid, UserExists, InvalidCredentials, tables, told,
                           SameSavers
<1>3. ASSUME NEW h \in Handlers, Authenticated(h) \/ LoadHistory(h)
      PROVE  UNCHANGED <<history, journal, saves>> /\ SameSavers
  BY <1>3, FinishMoves DEF Authenticated, LoadHistory, tables, told, SameSavers
<1>4. ASSUME NEW h \in Handlers, CreateUser(h)
      PROVE  UNCHANGED <<history, journal, saves>> /\ SameSavers
  BY <1>4 DEF CreateUser, told, SameSavers, TypeInv, StorageTypeOK
<1> QED BY <1>1, <1>2, <1>3, <1>4 DEF AccountSteps

(* While handlers serve, the schema and the process stay as they are. *)
LEMMA ServingSteps ==
  ASSUME NEW h \in Handlers,
         \/ \E k \in Calls : Begin(h, k)
         \/ AccountSteps(h) \/ HistorySteps(h) \/ Fail(h)
  PROVE  UNCHANGED <<columns, proc, halved>>
BY DEF Begin, AccountSteps, SignupInvalid, CreateUser, UserExists, Authenticated,
       InvalidCredentials, HistorySteps, InsertRow, Commit, LoadHistory, Fail, tables, told

-----------------------------------------------------------------------------
(* The schema: a start is refused only after a kill in the migration.       *)

(* A file between two schemas was left there by a kill. *)
LEMMA SchemaStep == SchemaInv /\ [Next]_vars => SchemaInv'
<1> SUFFICES ASSUME SchemaInv, [Next]_vars PROVE SchemaInv'
  OBVIOUS
<1>1. CASE OpenSteps
  <2>1. CASE CreateTables
    BY <2>1 DEF CreateTables, SchemaInv, told, Modern, Legacy, Halfway
  <2>2. CASE CurrentSchema
    BY <2>2 DEF CurrentSchema, SchemaInv, tables, told, Modern, Legacy, Halfway
  <2>3. CASE UnsupportedSchema
    BY <2>3 DEF UnsupportedSchema, SchemaInv, tables, told, Modern, Legacy, Halfway
  <2>4. CASE RenameMail
    <3>1. columns = Legacy
      BY <2>4 DEF RenameMail, SchemaInv, Modern, Legacy, Halfway
    <3>2. columns' = Halfway
      BY <2>4, <3>1 DEF RenameMail, Legacy, Halfway
    <3> QED BY <2>4, <3>2 DEF RenameMail, SchemaInv, told
  <2>5. CASE RenamePassword
    <3>1. columns = Halfway
      BY <2>5 DEF RenamePassword, SchemaInv
    <3>2. columns' = Modern
      BY <2>5, <3>1 DEF RenamePassword, Halfway, Modern
    <3>3. columns' # Halfway
      BY <3>2 DEF Halfway, Modern
    <3> QED BY <2>5, <3>2, <3>3 DEF RenamePassword, SchemaInv
  <2> QED BY <1>1, <2>1, <2>2, <2>3, <2>4, <2>5 DEF OpenSteps
<1>2. CASE Die
  BY <1>2 DEF Die, SchemaInv
<1>3. CASE UNCHANGED <<columns, proc, halved>>
  BY <1>3 DEF SchemaInv
<1>4. UNCHANGED vars => UNCHANGED <<columns, proc, halved>>
  BY DEF vars, tables, told
<1> QED BY <1>1, <1>2, <1>3, <1>4, ServingSteps DEF Next

-----------------------------------------------------------------------------
(* The accounts.                                                            *)

(* The accounts stay those of the people who signed up. *)
LEMMA AccountStep == TypeInv /\ AccountInv /\ [Next]_vars => AccountInv'
<1> SUFFICES ASSUME TypeInv, AccountInv, [Next]_vars PROVE AccountInv'
  OBVIOUS
<1>1. CASE UNCHANGED <<users, owners>>
  BY <1>1 DEF AccountInv
<1>2. ASSUME NEW h \in Handlers, CreateUser(h) PROVE AccountInv'
  <2>1. /\ ~Clash(NewAccount(call[h]))
        /\ users' = users \cup {NewAccount(call[h])}
        /\ owners' = owners
    BY <1>2 DEF CreateUser, told
  <2> DEFINE new == NewAccount(call[h])
  <2>2. \A r \in users : r.name # new.name /\ r.email # new.email
    BY <2>1 DEF Clash
  <2> HIDE DEF new
  <2>3. users' = users \cup {new}
    BY <2>1 DEF new
  <2> QED BY <2>1, <2>2, <2>3 DEF AccountInv
<1>3. ASSUME NEW h \in Handlers, Authenticated(h) PROVE AccountInv'
  <2>1. PICK r \in Matching(call[h].email, call[h].secret) :
          owners' = owners \cup
            {[name |-> r.name, addr |-> call[h].email.addr, secret |-> r.secret]}
    BY <1>3 DEF Authenticated
  <2>2. call[h].email \in Email
    BY <1>3 DEF Authenticated, TypeInv, CallInv, SignupCall, LoginCall
  <2>3. r \in users /\ r.email = [addr |-> call[h].email.addr, spelt |-> "plain"]
    BY <2>1, <2>2, NormalisedIs DEF Matching
  <2>4. r = [name |-> r.name, email |-> r.email, secret |-> r.secret]
    BY <2>3 DEF TypeInv, StorageTypeOK, Account
  <2>5. users' = users
    BY <1>3 DEF Authenticated, tables
  <2>6. ASSUME NEW o \in owners'
        PROVE  [name |-> o.name, email |-> [addr |-> o.addr, spelt |-> "plain"],
                secret |-> o.secret] \in users
    <3>1. CASE o \in owners
      BY <3>1 DEF AccountInv
    <3>2. CASE o = [name |-> r.name, addr |-> call[h].email.addr, secret |-> r.secret]
      BY <3>2, <2>3, <2>4
    <3> QED BY <2>1, <3>1, <3>2
  <2> QED BY <2>5, <2>6 DEF AccountInv
<1>4. ASSUME NEW h \in Handlers,
             ~CreateUser(h), ~Authenticated(h),
             \/ \E k \in Calls : Begin(h, k)
             \/ AccountSteps(h) \/ HistorySteps(h) \/ Fail(h)
      PROVE  UNCHANGED <<users, owners>>
  BY <1>4 DEF Begin, AccountSteps, SignupInvalid, UserExists, InvalidCredentials,
              HistorySteps, InsertRow, Commit, LoadHistory, Fail, tables, told
<1>5. CASE OpenSteps \/ Die
  BY <1>1, <1>5 DEF OpenSteps, CreateTables, CurrentSchema, UnsupportedSchema, RenameMail,
              RenamePassword, Renamed, Die, tables, told
<1>6. CASE UNCHANGED vars
  BY <1>1, <1>6 DEF vars, tables, told
<1> QED BY <1>1, <1>2, <1>3, <1>4, <1>5, <1>6 DEF Next

(* A new or legacy file has no accounts but its own. *)
LEMMA AccountInit == Init => SchemaInv /\ AccountInv
<1> SUFFICES ASSUME Init PROVE SchemaInv /\ AccountInv
  OBVIOUS
<1>1. SchemaInv
  BY DEF Init, SchemaInv, Modern, Legacy, Halfway
<1>2. \A r, q \in users : r = q
  BY DEF Init
<1>3. ASSUME NEW o \in owners
      PROVE  [name |-> o.name, email |-> [addr |-> o.addr, spelt |-> "plain"],
              secret |-> o.secret] \in users
  <2>1. PICK r \in users :
          /\ r.email.spelt = "plain"
          /\ o = [name |-> r.name, addr |-> r.email.addr, secret |-> r.secret]
    BY DEF Init
  <2>2. r \in Account
    BY DEF Init
  <2>3. r = [name |-> r.name, email |-> [addr |-> r.email.addr, spelt |-> "plain"],
             secret |-> r.secret]
    BY <2>1, <2>2 DEF Account, Email
  <2> QED BY <2>1, <2>3
<1> QED BY <1>1, <1>2, <1>3 DEF AccountInv

(* Types, schema and accounts are right in every reachable state. *)
LEMMA AccountsSafe == Spec => [](TypeInv /\ SchemaInv /\ AccountInv)
<1>1. Init => TypeInv /\ SchemaInv /\ AccountInv
  BY TypeInit, AccountInit
<1>2. TypeInv /\ SchemaInv /\ AccountInv /\ [Next]_vars
        => TypeInv' /\ SchemaInv' /\ AccountInv'
  BY TypeStep, SchemaStep, AccountStep
<1> QED BY <1>1, <1>2, PTL DEF Spec

(* Whoever was told that an account is theirs can log in to it, however the *)
(* address is typed: no migration, retry or crash takes the row away, and    *)
(* UNIQUE keeps another row from taking its place.                            *)
THEOREM OwnersServed == Spec => []OwnersCanLogIn
<1>1. TypeInv /\ AccountInv => OwnersCanLogIn
  <2> SUFFICES ASSUME TypeInv, AccountInv,
                      NEW o \in owners, NEW e \in {x \in Email : x.addr = o.addr}
               PROVE  \E r \in Matching(e, o.secret) : r.name = o.name
    BY DEF OwnersCanLogIn
  <2> DEFINE r == [name |-> o.name, email |-> [addr |-> o.addr, spelt |-> "plain"],
                   secret |-> o.secret]
  <2>1. r \in users
    BY DEF AccountInv
  <2>2. r.email = Normalised(e) /\ r.secret = o.secret /\ r.name = o.name
    BY NormalisedIs
  <2> HIDE DEF r
  <2> QED BY <2>1, <2>2 DEF Matching
<1> QED BY <1>1, AccountsSafe, PTL

(* Nobody shares an account: UNIQUE on the name and on the address leaves    *)
(* one row, hence one password, for either.                                   *)
THEOREM AccountsUnshared == Spec => []OneOwner
<1>1. TypeInv /\ AccountInv => OneOwner
  <2> SUFFICES ASSUME TypeInv, AccountInv, NEW o \in owners, NEW p \in owners,
                      o.addr = p.addr \/ o.name = p.name
               PROVE  o = p
    BY DEF OneOwner
  <2> DEFINE row(x) == [name |-> x.name, email |-> [addr |-> x.addr, spelt |-> "plain"],
                        secret |-> x.secret]
  <2>1. row(o) \in users /\ row(p) \in users
    BY DEF AccountInv
  <2>2. row(o).name = row(p).name \/ row(o).email = row(p).email
    OBVIOUS
  <2>3. row(o) = row(p)
    <3> HIDE DEF row
    <3> QED BY <2>1, <2>2 DEF AccountInv
  <2>4. o.name = p.name /\ o.secret = p.secret /\ row(o).email = row(p).email
    BY <2>3
  <2>5. o.addr = p.addr
    BY <2>4
  <2>6. o \in [name: Names, addr: Addresses, secret: Secrets]
        /\ p \in [name: Names, addr: Addresses, secret: Secrets]
    BY DEF TypeInv, StorageTypeOK
  <2> QED BY <2>4, <2>5, <2>6
<1> QED BY <1>1, AccountsSafe, PTL

(* A start is refused only after a kill between the two renamings, and then *)
(* the accounts are all there.                                               *)
THEOREM RefusalsExplained == Spec => []StartRefused
<1>1. SchemaInv /\ AccountInv => StartRefused
  <2> SUFFICES ASSUME SchemaInv, AccountInv, proc = "refused" PROVE StartRefused
    BY DEF StartRefused
  <2>1. halved
    BY DEF SchemaInv
  <2>2. ASSUME NEW o \in owners
        PROVE  \E r \in users :
                 r.name = o.name /\ r.email.addr = o.addr /\ r.secret = o.secret
    BY DEF AccountInv
  <2> QED BY <2>1, <2>2 DEF StartRefused
<1> QED BY <1>1, AccountsSafe, PTL

-----------------------------------------------------------------------------
(* The table of the history: finite, one id per row of a reader.            *)

(* Inserting a row numbers it after all the others. *)
LEMMA InsertNumbered ==
  ASSUME NEW t \in Table(Mids, Names, Stamps), WellNumbered(t),
         NEW mid, NEW from, NEW u, NEW at
  PROVE  WellNumbered(Insert(t, mid, from, {u}, at))
<1> DEFINE new == [id |-> t.seq + 1, mid |-> mid, from |-> from, to |-> u,
                 at |-> Datetime(at)]
<1> DEFINE kept == {r \in t.rows : ~SameKey(r, new)}
<1>1. /\ Insert(t, mid, from, {u}, at) = [rows |-> kept \cup {new}, seq |-> t.seq + 1]
      /\ new.id = t.seq + 1 /\ new.to = u
  BY DEF Insert
<1> HIDE DEF new
<1>2. kept \subseteq t.rows
  OBVIOUS
<1>3. IsFiniteSet(kept \cup {new})
  BY <1>2, FS_Subset, FS_AddElement DEF WellNumbered
<1>4. t.seq \in Nat /\ \A r \in t.rows : r.id \in Nat
  BY DEF Table, Row
<1> HIDE DEF kept
<1>5. \A r \in kept \cup {new} : r.id <= t.seq + 1
  BY <1>1, <1>2, <1>4 DEF WellNumbered
<1>6. \A r, q \in kept \cup {new} : r.to = q.to /\ r.id = q.id => r = q
  BY <1>1, <1>2, <1>4 DEF WellNumbered
<1>7. ASSUME NEW i, i = Insert(t, mid, from, {u}, at) PROVE WellNumbered(i)
  <2>1. i.rows = kept \cup {new} /\ i.seq = t.seq + 1
    BY <1>1, <1>7
  <2> QED BY <2>1, <1>3, <1>5, <1>6 DEF WellNumbered
<1> QED BY <1>7

(* So the table of an open transaction is well numbered. *)
LEMMA PendingNumbered ==
  ASSUME TableInv, NEW h
  PROVE  WellNumbered(Pending(h))
BY DEF TableInv, Pending

(* Every step leaves well-numbered tables behind. *)
LEMMA TableStep == TypeInv /\ TableInv /\ [Next]_vars => TableInv'
<1> SUFFICES ASSUME TypeInv, TableInv, [Next]_vars PROVE TableInv'
  OBVIOUS
<1>1. CASE UNCHANGED <<history, journal>>
  BY <1>1 DEF TableInv, WellNumbered
<1>2. WellNumbered(NoJournal.table)
  BY NothingWrong DEF NoJournal
<1>3. CASE UNCHANGED history /\ journal' \in {journal, NoJournal}
  BY <1>2, <1>3 DEF TableInv, WellNumbered
<1>4. CASE OpenSteps \/ \E h \in Handlers : AccountSteps(h) \/ LoadHistory(h)
  BY <1>1, <1>4, QuietSteps
<1>5. ASSUME NEW h \in Handlers, NEW u \in Names, InsertRow(h, u) PROVE TableInv'
  <2> DEFINE t == Insert(Pending(h), call[h].mid, call[h].from, {u}, call[h].at)
  <2>1. WellNumbered(t)
    BY PendingTyped, PendingNumbered, InsertNumbered DEF TypeInv
  <2>2. journal'.table = t /\ history' = history
    BY <1>5 DEF InsertRow, CommittedYet
  <2> HIDE DEF t
  <2> QED BY <2>1, <2>2 DEF TableInv, WellNumbered
<1>6. ASSUME NEW h \in Handlers, Commit(h) PROVE TableInv'
  BY <1>2, <1>6 DEF Commit, TableInv, WellNumbered
<1>7. ASSUME NEW h \in Handlers, Fail(h) PROVE TableInv'
  BY <1>3, <1>7 DEF Fail, RolledBack
<1>8. CASE Die
  BY <1>3, <1>8 DEF Die
<1>9. ASSUME NEW h \in Handlers, NEW k \in Calls, Begin(h, k) PROVE TableInv'
  BY <1>1, <1>9 DEF Begin, tables
<1>10. CASE UNCHANGED vars
  BY <1>1, <1>10 DEF vars, tables
<1> QED BY <1>4, <1>5, <1>6, <1>7, <1>8, <1>9, <1>10 DEF Next, HistorySteps

-----------------------------------------------------------------------------
(* The saves and the transaction.                                           *)

SavingInv == TypeInv /\ TableInv /\ SavesInv /\ JournalInv

(* One handler's save gets its outcome: its record is replaced, no other.   *)
LEMMA OutcomeIs ==
  ASSUME SavingInv, NEW h \in Handlers, pc[h] = "rows",
         NEW o \in {"saved", "failed"}, saves' = Outcome(call[h], o)
  PROVE  /\ \A s, t \in saves' : RowOf(s, t) => s = t
         /\ \A g \in Handlers \ {h} : pc[g] = "rows" => Begun(call[g]) \in saves'
         /\ Save(call[h], o) \in saves'
         /\ \A s \in saves' : s = Save(call[h], o) \/ (s \in saves /\ ~RowOf(s, Begun(call[h])))
         /\ \A s \in saves : s.outcome # "open" => s \in saves'
<1> DEFINE old == Begun(call[h])
<1> DEFINE new == Save(call[h], o)
<1>1. /\ old \in saves /\ old.outcome = "open"
      /\ saves' = (saves \ {old}) \cup {new}
  BY DEF SavingInv, SavesInv, Outcome, Save
<1>2. /\ \A x : RowOf(old, x) <=> RowOf(Begun(call[h]), x)
      /\ \A x : RowOf(new, x) <=> RowOf(Begun(call[h]), x)
      /\ \A x : RowOf(x, new) <=> RowOf(x, Begun(call[h]))
      /\ \A x : RowOf(x, old) <=> RowOf(x, Begun(call[h]))
  BY DEF Save, RowOf
<1>3. \A s \in saves : RowOf(s, Begun(call[h])) => s = old
  <2> HIDE DEF old
  <2> QED BY <1>1, <1>2 DEF SavingInv, SavesInv
<1>4. \A s \in saves \ {old} : ~RowOf(s, Begun(call[h]))
  BY <1>3
<1>5. \A x, y : RowOf(x, y) => RowOf(y, x)
  BY DEF RowOf
<1>6. ASSUME NEW g \in Handlers \ {h}, pc[g] = "rows"
      PROVE  Begun(call[g]) \in saves /\ Begun(call[g]) # old
  <2>1. ~RowOf(Begun(call[h]), Begun(call[g]))
    BY <1>6 DEF SavingInv, SavesInv
  <2>2. Begun(call[g]) # old
    BY <2>1 DEF Save, RowOf
  <2> QED BY <1>6, <2>2 DEF SavingInv, SavesInv
<1> HIDE DEF old, new
<1>7. \A s, t \in saves' : RowOf(s, t) => s = t
  BY <1>1, <1>2, <1>4, <1>5 DEF SavingInv, SavesInv
<1>8. \A g \in Handlers \ {h} : pc[g] = "rows" => Begun(call[g]) \in saves'
  BY <1>1, <1>6
<1>9. /\ new \in saves'
      /\ \A s \in saves' : s = new \/ (s \in saves /\ ~RowOf(s, Begun(call[h])))
      /\ \A s \in saves : s.outcome # "open" => s \in saves'
  BY <1>1, <1>4
<1> QED BY <1>7, <1>8, <1>9 DEF new

(* Steps that write neither the history nor the record of the saves.        *)
LEMMA QuietSaves ==
  ASSUME SavingInv, UNCHANGED <<history, journal, saves>>, SameSavers
  PROVE  SavesInv' /\ JournalInv'
<1>1. SavesInv'
  BY DEF SavingInv, SavesInv, SameSavers, RowOf
<1>2. ASSUME NEW h \in Handlers, pc'[h] = "rows"
      PROVE  /\ todo'[h] \subseteq call'[h].to
             /\ journal'.owner = h \/ todo'[h] = call'[h].to
  BY <1>2 DEF SavingInv, JournalInv, SameSavers
<1>3. ASSUME NEW h \in Handlers, journal'.owner = h PROVE InTransaction(h)'
  <2>1. InTransaction(h) /\ pc[h] = "rows"
    BY <1>3 DEF SavingInv, JournalInv, InTransaction
  <2>2. pc'[h] = "rows" /\ call'[h] = call[h] /\ todo'[h] = todo[h]
    BY <2>1 DEF SameSavers
  <2> QED BY <2>1, <2>2 DEF InTransaction, Inserted
<1> QED BY <1>1, <1>2, <1>3 DEF JournalInv

(* A save begins: no other has its identifier, author and time. *)
LEMMA BeginSaves ==
  ASSUME SavingInv, NEW h \in Handlers, NEW k \in Calls, Begin(h, k)
  PROVE  SavesInv' /\ JournalInv'
<1>1. /\ pc[h] = "idle" /\ UNCHANGED <<history, journal>>
      /\ pc'[h] = FirstStep(k.kind) /\ call'[h] = k
      /\ todo'[h] = IF k.kind = "save" THEN k.to ELSE {}
  BY DEF Begin, tables, SavingInv, TypeInv, StorageTypeOK
<1>2. ASSUME NEW g \in Handlers \ {h}
      PROVE  pc'[g] = pc[g] /\ call'[g] = call[g] /\ todo'[g] = todo[g]
  BY DEF Begin, SavingInv, TypeInv, StorageTypeOK
<1>3. CASE k.kind # "save"
  <2>1. pc'[h] # "rows"
    BY <1>1, <1>3, FirstStepIs, CallsAre
  <2>2. saves' = saves
    BY <1>3 DEF Begin
  <2>3. SameSavers
    BY <1>1, <1>2, <2>1 DEF SameSavers
  <2> QED BY <1>1, <2>2, <2>3, QuietSaves
<1>4. CASE k.kind = "save"
  <2> DEFINE new == Begun(k)
  <2>1. saves' = saves \cup {new} /\ new.outcome = "open"
    BY <1>4 DEF Begin, Save
  <2>2. \A s \in saves : ~RowOf(s, Begun(k))
    BY <1>4 DEF Begin, RowOf, Save
  <2>3. \A s \in saves : ~RowOf(s, new) /\ ~RowOf(new, s)
    BY <2>2 DEF RowOf, Save
  <2>4. ASSUME NEW g \in Handlers, pc[g] = "rows"
        PROVE  ~RowOf(Begun(call[g]), Begun(k)) /\ ~RowOf(Begun(k), Begun(call[g]))
    BY <2>2, <2>4 DEF SavingInv, SavesInv, RowOf, Save
  <2> HIDE DEF new
  <2>5. \A s, t \in saves' : RowOf(s, t) => s = t
    BY <2>1, <2>3 DEF SavingInv, SavesInv
  <2>6. \A g \in Handlers : pc'[g] = "rows" => Begun(call'[g]) \in saves'
    BY <1>1, <1>2, <2>1 DEF SavingInv, SavesInv, new
  <2>7. \A g, i \in Handlers :
          /\ pc'[g] = "rows" /\ pc'[i] = "rows"
          /\ RowOf(Begun(call'[g]), Begun(call'[i]))
          => g = i
    BY <1>1, <1>2, <2>4 DEF SavingInv, SavesInv
  <2>8. SavesInv'
    BY <1>1, <2>1, <2>5, <2>6, <2>7 DEF SavingInv, SavesInv, RowOf
  <2>9. ASSUME NEW g \in Handlers, journal'.owner = g PROVE InTransaction(g)'
    <3>1. InTransaction(g) /\ g # h
      BY <1>1, <2>9 DEF SavingInv, JournalInv, InTransaction
    <3> QED BY <1>1, <1>2, <3>1 DEF InTransaction, Inserted
  <2>10. ASSUME NEW g \in Handlers, pc'[g] = "rows"
         PROVE  /\ todo'[g] \subseteq call'[g].to
                /\ journal'.owner = g \/ todo'[g] = call'[g].to
    BY <1>1, <1>2, <1>4, <2>10 DEF SavingInv, JournalInv
  <2> QED BY <2>8, <2>9, <2>10 DEF JournalInv
<1> QED BY <1>3, <1>4

(* A row is inserted into the open transaction, or opens it. *)
LEMMA InsertRowSaves ==
  ASSUME SavingInv, NEW h \in Handlers, NEW u \in Names, InsertRow(h, u)
  PROVE  SavesInv' /\ JournalInv'
<1> DEFINE k == call[h]
<1> DEFINE t == Insert(Pending(h), k.mid, k.from, {u}, k.at)
<1> DEFINE row == [id |-> Pending(h).seq + 1, mid |-> k.mid, from |-> k.from,
                   to |-> u, at |-> Datetime(k.at)]
<1>1. /\ pc[h] = "rows" /\ u \in todo[h] /\ MayWrite(h)
      /\ UNCHANGED <<history, saves, pc, call>>
      /\ journal' = [owner |-> h, table |-> t]
      /\ todo' = [todo EXCEPT ![h] = @ \ {u}]
  BY DEF InsertRow, CommittedYet, told
<1>2. SavesInv'
  BY <1>1 DEF SavingInv, SavesInv, RowOf
<1>3. /\ t.rows = {r \in Pending(h).rows : ~SameKey(r, row)} \cup {row}
      /\ t.seq = Pending(h).seq + 1
  BY DEF Insert
<1>4. /\ row.id = Pending(h).seq + 1 /\ row.mid = k.mid /\ row.to = u
      /\ RowOf(Begun(k), row)
  BY DEF RowOf, Save
<1>5. /\ Pending(h).seq \in Nat /\ history.seq \in Nat
      /\ \A r \in Pending(h).rows : r.id \in Nat
      /\ todo[h] \in SUBSET Names
  BY PendingTyped DEF SavingInv, TypeInv, StorageTypeOK, Table, Row
<1>6. todo'[h] = todo[h] \ {u} /\ \A g \in Handlers \ {h} : todo'[g] = todo[g]
  BY <1>1 DEF SavingInv, TypeInv, StorageTypeOK
<1>7. /\ todo[h] \subseteq k.to
      /\ history.seq <= Pending(h).seq
      /\ \A r \in Pending(h).rows : r \in history.rows \/ RowOf(Begun(k), r)
      /\ \A v \in Inserted(h) : \E r \in Pending(h).rows : r.mid = k.mid /\ r.to = v
      /\ \A r \in history.rows \ Pending(h).rows :
           \E s \in Pending(h).rows : SameKey(r, s) /\ history.seq < s.id
  <2>1. todo[h] \subseteq k.to /\ (journal.owner = h \/ todo[h] = k.to)
    BY <1>1 DEF SavingInv, JournalInv
  <2>2. CASE journal.owner = h
    BY <2>1, <2>2 DEF SavingInv, JournalInv, InTransaction, Pending
  <2>3. CASE journal.owner # h
    BY <1>5, <2>1, <2>3 DEF Pending, Inserted
  <2> QED BY <2>2, <2>3
<1>8. Inserted(h)' = Inserted(h) \cup {u}
  BY <1>1, <1>6, <1>7 DEF Inserted
<1>9. ASSUME NEW v \in Inserted(h) \cup {u}
      PROVE  \E r \in t.rows : r.mid = k.mid /\ r.to = v
  <2>1. CASE v = u
    <3> HIDE DEF row, t
    <3> QED BY <2>1, <1>3, <1>4
  <2>2. CASE v # u
    <3>1. PICK r \in Pending(h).rows : r.mid = k.mid /\ r.to = v
      BY <2>2, <1>7
    <3>2. ~SameKey(r, row)
      BY <2>2, <3>1, <1>4 DEF SameKey
    <3> HIDE DEF row, t
    <3> QED BY <3>1, <3>2, <1>3
  <2> QED BY <2>1, <2>2
<1>10. ASSUME NEW r \in history.rows \ t.rows
       PROVE  \E s \in t.rows : SameKey(r, s) /\ history.seq < s.id
  <2>1. CASE SameKey(r, row)
    <3>1. history.seq < row.id
      BY <1>4, <1>5, <1>7
    <3> HIDE DEF row, t
    <3> QED BY <2>1, <3>1, <1>3
  <2>2. CASE ~SameKey(r, row)
    <3>1. r \notin Pending(h).rows
      <4> HIDE DEF row, t
      <4> QED BY <2>2, <1>3, <1>10
    <3>2. PICK s \in Pending(h).rows : SameKey(r, s) /\ history.seq < s.id
      BY <1>7, <1>10, <3>1
    <3>3. ~SameKey(s, row)
      BY <2>2, <3>2 DEF SameKey
    <3> HIDE DEF row, t
    <3> QED BY <3>2, <3>3, <1>3
  <2> QED BY <2>1, <2>2
<1>11. \A r \in t.rows : r \in history.rows \/ RowOf(Begun(k), r)
  <2> HIDE DEF row, t
  <2> QED BY <1>3, <1>4, <1>7
<1>12. history.seq <= t.seq
  BY <1>3, <1>5, <1>7
<1>13. /\ journal'.owner = h /\ journal'.table = t /\ call'[h] = k /\ pc'[h] = "rows"
       /\ history' = history
  BY <1>1
<1>14. InTransaction(h)'
  <2> HIDE DEF t, k, row
  <2> QED BY <1>8, <1>9, <1>10, <1>11, <1>12, <1>13 DEF InTransaction
<1>15. ASSUME NEW g \in Handlers, pc'[g] = "rows"
       PROVE  todo'[g] \subseteq call'[g].to /\ (journal'.owner = g \/ todo'[g] = call'[g].to)
  <2>1. CASE g = h
    BY <2>1, <1>6, <1>7, <1>13
  <2>2. CASE g # h
    <3>1. journal.owner # g
      BY <2>2, <1>1 DEF MayWrite
    <3> QED BY <2>2, <3>1, <1>1, <1>6, <1>15 DEF SavingInv, JournalInv
  <2> QED BY <2>1, <2>2
<1> QED BY <1>2, <1>13, <1>14, <1>15 DEF JournalInv

(* A save is done: the rows of its transaction become the table. *)
LEMMA CommitSaves ==
  ASSUME SavingInv, NEW h \in Handlers, Commit(h)
  PROVE  SavesInv' /\ JournalInv'
<1> DEFINE new == Save(call[h], "saved")
<1>1. /\ pc[h] = "rows" /\ todo[h] = {} /\ Finish(h)
      /\ history' = journal.table /\ journal' = NoJournal
      /\ saves' = Outcome(call[h], "saved")
  BY DEF Commit
<1>2. call[h] \in SaveCall
  BY <1>1, SaveCallIs DEF SavingInv
<1>3. call[h].to # {}
  BY <1>2 DEF SaveCall
<1>4. journal.owner = h /\ InTransaction(h)
  BY <1>1, <1>3 DEF SavingInv, JournalInv
<1>5. /\ \A s, t \in saves' : RowOf(s, t) => s = t
      /\ \A g \in Handlers \ {h} : pc[g] = "rows" => Begun(call[g]) \in saves'
      /\ new \in saves'
      /\ \A s \in saves' : s = new \/ s \in saves
      /\ \A s \in saves : s.outcome # "open" => s \in saves'
  BY <1>1, OutcomeIs
<1>6. /\ new.outcome = "saved" /\ new.mid = call[h].mid /\ new.to = call[h].to
      /\ \A r : RowOf(Begun(call[h]), r) => RowOf(new, r)
  BY DEF Save, RowOf
<1>7. /\ pc'[h] = "idle"
      /\ \A g \in Handlers \ {h} :
           pc'[g] = pc[g] /\ call'[g] = call[g] /\ todo'[g] = todo[g]
  BY <1>1, FinishMoves DEF SavingInv
<1> HIDE DEF new
<1>8. ASSUME NEW r \in history'.rows
      PROVE  \E s \in saves' : s.outcome = "saved" /\ RowOf(s, r)
  <2>1. CASE r \in history.rows
    <3>1. PICK s \in saves : s.outcome = "saved" /\ RowOf(s, r)
      BY <2>1 DEF SavingInv, SavesInv
    <3> QED BY <3>1, <1>5
  <2>2. CASE RowOf(Begun(call[h]), r)
    BY <2>2, <1>5, <1>6
  <2> QED BY <2>1, <2>2, <1>1, <1>4, <1>8 DEF InTransaction
<1>9. ASSUME NEW s \in saves', s.outcome = "saved", NEW u \in s.to
      PROVE  \E r \in history'.rows : r.mid = s.mid /\ r.to = u
  <2>1. CASE s = new
    <3>1. u \in Inserted(h)
      BY <2>1, <1>1, <1>6, <1>9 DEF Inserted
    <3> QED BY <2>1, <3>1, <1>1, <1>4, <1>6 DEF InTransaction
  <2>2. CASE s \in saves
    <3>1. PICK r \in history.rows : r.mid = s.mid /\ r.to = u
      BY <2>2, <1>9 DEF SavingInv, SavesInv
    <3>2. r \in journal.table.rows \/ \E q \in journal.table.rows : SameKey(r, q)
      BY <1>4 DEF InTransaction
    <3> QED BY <3>1, <3>2, <1>1 DEF SameKey
  <2> QED BY <2>1, <2>2, <1>5
<1>10. /\ \A g \in Handlers : pc'[g] = "rows" => Begun(call'[g]) \in saves'
       /\ \A g, i \in Handlers :
            /\ pc'[g] = "rows" /\ pc'[i] = "rows"
            /\ RowOf(Begun(call'[g]), Begun(call'[i]))
            => g = i
  BY <1>5, <1>7 DEF SavingInv, SavesInv
<1>11. SavesInv'
  BY <1>5, <1>8, <1>9, <1>10 DEF SavesInv, RowOf
<1>12. journal'.owner = NoOne
  BY <1>1 DEF NoJournal
<1>13. ASSUME NEW g \in Handlers, pc'[g] = "rows"
       PROVE  todo'[g] \subseteq call'[g].to /\ todo'[g] = call'[g].to
  BY <1>4, <1>7, <1>13 DEF SavingInv, JournalInv
<1>14. JournalInv'
  BY <1>12, <1>13 DEF JournalInv
<1> QED BY <1>11, <1>14

(* A call fails: its transaction is rolled back, and a save is marked. *)
LEMMA FailSaves ==
  ASSUME SavingInv, NEW h \in Handlers, Fail(h)
  PROVE  SavesInv' /\ JournalInv'
<1>1. /\ pc[h] # "idle" /\ Finish(h) /\ history' = history
      /\ journal' = IF journal.owner = h THEN NoJournal ELSE journal
      /\ saves' = IF call[h].kind = "save" THEN Outcome(call[h], "failed") ELSE saves
  BY DEF Fail, RolledBack
<1>2. /\ pc'[h] = "idle"
      /\ \A g \in Handlers \ {h} :
           pc'[g] = pc[g] /\ call'[g] = call[g] /\ todo'[g] = todo[g]
  BY <1>1, FinishMoves DEF SavingInv
<1>3. NoJournal.owner = NoOne
  BY DEF NoJournal
<1>4. SavesInv'
  <2>1. CASE call[h].kind # "save"
    BY <2>1, <1>1, <1>2 DEF SavingInv, SavesInv, RowOf
  <2>2. CASE call[h].kind = "save"
    <3>1. pc[h] = "rows" /\ saves' = Outcome(call[h], "failed")
      BY <2>2, <1>1, SaveCallIs DEF SavingInv
    <3> DEFINE new == Save(call[h], "failed")
    <3>2. /\ \A s, t \in saves' : RowOf(s, t) => s = t
          /\ \A g \in Handlers \ {h} : pc[g] = "rows" => Begun(call[g]) \in saves'
          /\ \A s \in saves' : s = new \/ s \in saves
          /\ \A s \in saves : s.outcome # "open" => s \in saves'
      BY <3>1, OutcomeIs
    <3>3. new.outcome = "failed"
      BY DEF Save
    <3> HIDE DEF new
    <3>4. \A r \in history'.rows : \E s \in saves' : s.outcome = "saved" /\ RowOf(s, r)
      BY <1>1, <3>2 DEF SavingInv, SavesInv
    <3>5. \A s \in saves' : s.outcome = "saved" =>
            \A u \in s.to : \E r \in history'.rows : r.mid = s.mid /\ r.to = u
      BY <1>1, <3>2, <3>3 DEF SavingInv, SavesInv
    <3>6. /\ \A g \in Handlers : pc'[g] = "rows" => Begun(call'[g]) \in saves'
          /\ \A g, i \in Handlers :
               /\ pc'[g] = "rows" /\ pc'[i] = "rows"
               /\ RowOf(Begun(call'[g]), Begun(call'[i]))
               => g = i
      BY <1>2, <3>2 DEF SavingInv, SavesInv
    <3> QED BY <3>2, <3>4, <3>5, <3>6 DEF SavesInv, RowOf
  <2> QED BY <2>1, <2>2
<1>5. ASSUME NEW g \in Handlers, journal'.owner = g PROVE InTransaction(g)'
  <2>1. journal' = journal /\ g # h
    BY <1>1, <1>3, <1>5
  <2>2. InTransaction(g)
    BY <1>5, <2>1 DEF SavingInv, JournalInv
  <2> QED BY <1>1, <1>2, <2>1, <2>2 DEF InTransaction, Inserted
<1>6. ASSUME NEW g \in Handlers, pc'[g] = "rows"
      PROVE  todo'[g] \subseteq call'[g].to /\ (journal'.owner = g \/ todo'[g] = call'[g].to)
  BY <1>1, <1>2, <1>6 DEF SavingInv, JournalInv
<1> QED BY <1>4, <1>5, <1>6 DEF JournalInv

(* What is committed of a save is all of it or nothing. *)
LEMMA SavingStep == SavingInv /\ [Next]_vars => SavingInv'
<1> SUFFICES ASSUME SavingInv, [Next]_vars PROVE SavesInv' /\ JournalInv'
  BY TypeStep, TableStep DEF SavingInv
<1>1. CASE OpenSteps \/ \E h \in Handlers : AccountSteps(h) \/ LoadHistory(h)
  BY <1>1, QuietSteps, QuietSaves DEF SavingInv
<1>2. CASE Die
  <2>1. /\ \A h \in Handlers : pc'[h] = "idle"
        /\ journal'.owner = NoOne
        /\ UNCHANGED <<history, saves>>
    BY <1>2 DEF Die, NoJournal
  <2>2. SavesInv'
    BY <2>1 DEF SavingInv, SavesInv, RowOf
  <2>3. JournalInv'
    BY <2>1 DEF JournalInv
  <2> QED BY <2>2, <2>3
<1>3. CASE UNCHANGED vars
  <2>1. UNCHANGED <<history, journal, saves>> /\ SameSavers
    BY <1>3 DEF vars, tables, serving, told, SameSavers
  <2> QED BY <2>1, QuietSaves
<1> QED BY <1>1, <1>2, <1>3, BeginSaves, InsertRowSaves, CommitSaves, FailSaves
        DEF Next, HistorySteps

(* At the start nothing has been saved. *)
LEMMA SavingInit == Init => SavingInv
<1> SUFFICES ASSUME Init PROVE SavingInv
  OBVIOUS
<1>1. TypeInv
  BY TypeInit
<1>2. TableInv
  BY NothingWrong DEF Init, NoJournal, TableInv
<1>3. SavesInv
  BY DEF Init, SavesInv, EmptyTable
<1>4. JournalInv
  BY DEF Init, JournalInv, NoJournal
<1> QED BY <1>1, <1>2, <1>3, <1>4 DEF SavingInv

(* Saves are whole in every reachable state. *)
LEMMA SavingSafe == Spec => []SavingInv
BY SavingInit, SavingStep, PTL DEF Spec

(* A save is all or nothing and stays: a row in the table means a row for    *)
(* every reader, a save reported as failed has left none.                    *)
THEOREM SavesWhole == Spec => []SavesAreWhole
<1>1. SavingInv => SavesAreWhole
  <2> SUFFICES ASSUME SavingInv, NEW s \in saves
               PROVE  LET mine == {r \in history.rows : RowOf(s, r)}
                          kept == \A u \in s.to :
                                    \E r \in history.rows : r.mid = s.mid /\ r.to = u
                      IN  /\ mine # {} => kept
                          /\ s.outcome = "saved" => kept
                          /\ s.outcome = "failed" => mine = {}
    BY DEF SavesAreWhole
  <2>1. s.outcome = "saved" =>
          \A u \in s.to : \E r \in history.rows : r.mid = s.mid /\ r.to = u
    BY DEF SavingInv, SavesInv
  <2>2. ASSUME NEW r \in history.rows, RowOf(s, r) PROVE s.outcome = "saved"
    <3>1. PICK t \in saves : t.outcome = "saved" /\ RowOf(t, r)
      BY DEF SavingInv, SavesInv
    <3>2. RowOf(s, t)
      BY <2>2, <3>1 DEF RowOf
    <3> QED BY <3>1, <3>2 DEF SavingInv, SavesInv
  <2> QED BY <2>1, <2>2
<1> QED BY <1>1, SavingSafe, PTL

(* A row disappears only for a row of the same message and reader, which    *)
(* goes to the end of the table's order.                                     *)
THEOREM RowsReplaced == Spec => RowsGiveWay
<1>1. SavingInv /\ [Next]_vars => [RowStep]_vars
  <2> SUFFICES ASSUME SavingInv, Next PROVE RowStep \/ UNCHANGED vars
    OBVIOUS
  <2>1. CASE history' = history
    BY <2>1 DEF RowStep
  <2>2. ASSUME NEW h \in Handlers, Commit(h) PROVE RowStep
    <3>1. /\ pc[h] = "rows" /\ todo[h] = {} /\ history' = journal.table
          /\ call[h] \in SaveCall
      BY <2>2, SaveCallIs DEF Commit, SavingInv
    <3>2. InTransaction(h)
      BY <3>1 DEF SavingInv, JournalInv, SaveCall
    <3>3. /\ history.seq \in Nat
          /\ \A q \in history.rows : q.id \in Nat /\ q.id <= history.seq
          /\ \A q \in journal.table.rows : q.id \in Nat
      BY DEF SavingInv, TypeInv, StorageTypeOK, TableInv, WellNumbered, Table, Row
    <3>4. ASSUME NEW r \in history.rows \ history'.rows
          PROVE  \E s \in history'.rows :
                   r.mid = s.mid /\ r.to = s.to /\ \A q \in history.rows : q.id < s.id
      <4>1. PICK s \in journal.table.rows : SameKey(r, s) /\ history.seq < s.id
        BY <3>1, <3>2, <3>4 DEF InTransaction
      <4>2. \A q \in history.rows : q.id < s.id
        BY <3>3, <4>1
      <4> QED BY <3>1, <4>1, <4>2 DEF SameKey
    <3> QED BY <3>4 DEF RowStep
  <2>3. ASSUME NEW h \in Handlers, NEW u \in Names, InsertRow(h, u) PROVE history' = history
    BY <2>3 DEF InsertRow, CommittedYet
  <2>4. ASSUME NEW h \in Handlers, NEW k \in Calls, Begin(h, k) PROVE history' = history
    BY <2>4 DEF Begin, tables
  <2>5. ASSUME NEW h \in Handlers, Fail(h) PROVE history' = history
    BY <2>5 DEF Fail
  <2>6. Die => history' = history
    BY DEF Die
  <2>7. CASE OpenSteps \/ \E h \in Handlers : AccountSteps(h) \/ LoadHistory(h)
    BY <2>1, <2>7, QuietSteps DEF SavingInv
  <2> QED BY <2>1, <2>2, <2>3, <2>4, <2>5, <2>6, <2>7 DEF Next, HistorySteps
<1> QED BY <1>1, SavingSafe, PTL DEF Spec, RowsGiveWay

-----------------------------------------------------------------------------
(* The answers.                                                             *)

(* LIMIT n returns at most n rows: Before is a strict order that leaves no   *)
(* two rows of a reader unordered, so among more than n rows two would have  *)
(* equally many predecessors.                                                *)
LEMMA OldestBounded ==
  ASSUME NEW S, IsFiniteSet(S), NEW n \in Nat,
         \A r \in S : r.at \in Nat /\ r.id \in Nat,
         \A r, q \in S : r.id = q.id => r = q
  PROVE  Cardinality(Oldest(S, n)) <= n
<1> DEFINE T == Oldest(S, n)
<1> DEFINE Earlier(r) == {s \in S : Before(s, r)}
<1>1. T \subseteq S /\ \A r \in T : Cardinality(Earlier(r)) < n
  BY DEF Oldest
<1>2. IsFiniteSet(T) /\ Cardinality(T) \in Nat
  BY <1>1, FS_Subset, FS_CardinalityType
<1>3. \A r \in S : IsFiniteSet(Earlier(r)) /\ Cardinality(Earlier(r)) \in Nat
  <2>1. ASSUME NEW r \in S PROVE Earlier(r) \subseteq S
    OBVIOUS
  <2> QED BY <2>1, FS_Subset, FS_CardinalityType
<1>4. ASSUME NEW x \in S, NEW y \in S, Before(x, y)
      PROVE  Cardinality(Earlier(x)) < Cardinality(Earlier(y))
  <2>1. Earlier(x) \subseteq Earlier(y)
    BY <1>4 DEF Before
  <2>2. x \in Earlier(y) /\ x \notin Earlier(x)
    BY <1>4 DEF Before
  <2> HIDE DEF Earlier
  <2>3. Earlier(x) # Earlier(y)
    BY <2>2
  <2> QED BY <1>3, <2>1, <2>3, FS_Subset
<1>5. ASSUME NEW x \in S, NEW y \in S, x # y PROVE Before(x, y) \/ Before(y, x)
  BY <1>5 DEF Before
<1>6. CASE Cardinality(T) > n
  <2> DEFINE rank == [r \in T |-> Cardinality(Earlier(r))]
  <2>1. rank \in [T -> 0..(n - 1)]
    <3> HIDE DEF Earlier
    <3> QED BY <1>1, <1>3
  <2>2. IsFiniteSet(0..(n - 1)) /\ Cardinality(0..(n - 1)) = n
    BY FS_Interval
  <2> HIDE DEF rank, T
  <2>3. PICK x \in T, y \in T : x # y /\ rank[x] = rank[y]
    BY <1>2, <1>6, <2>1, <2>2, FS_PigeonHole
  <2>4. Cardinality(Earlier(x)) = Cardinality(Earlier(y))
    BY <2>3 DEF rank
  <2> HIDE DEF Earlier
  <2> QED BY <1>1, <1>3, <1>4, <1>5, <2>3, <2>4
<1> QED BY <1>2, <1>6

AnswerBound ==
    \A h \in Handlers : Cardinality(answer[h]) <= DefaultLimit

(* An answer is made of rows of saves that are done, at most the limit. *)
LEMMA AnswerStep ==
  SavingInv /\ AnswerInv /\ AnswerBound /\ [Next]_vars => AnswerInv' /\ AnswerBound'
<1> SUFFICES ASSUME SavingInv, AnswerInv, AnswerBound, [Next]_vars
             PROVE  AnswerInv' /\ AnswerBound'
  OBVIOUS
<1>1. ASSUME NEW s \in saves, s.outcome = "saved" PROVE s \in saves'
  <2>1. ASSUME NEW h \in Handlers, Commit(h) \/ Fail(h) PROVE s \in saves'
    <3>1. CASE saves' = saves
      BY <3>1
    <3>2. CASE \E o \in {"saved", "failed"} : saves' = Outcome(call[h], o)
      BY <1>1, <3>2 DEF Outcome, Save
    <3> QED BY <2>1, <3>1, <3>2 DEF Commit, Fail
  <2>2. ASSUME NEW h \in Handlers, NEW k \in Calls, Begin(h, k) PROVE s \in saves'
    BY <2>2 DEF Begin
  <2>3. ASSUME NEW h \in Handlers, NEW u \in Names, InsertRow(h, u) PROVE s \in saves'
    BY <2>3 DEF InsertRow, told
  <2>4. CASE OpenSteps \/ \E h \in Handlers : AccountSteps(h) \/ LoadHistory(h)
    BY <2>4, QuietSteps DEF SavingInv
  <2>5. Die \/ UNCHANGED vars => s \in saves'
    BY DEF Die, vars, told
  <2> QED BY <2>1, <2>2, <2>3, <2>4, <2>5 DEF Next, HistorySteps
<1>2. ASSUME NEW h \in Handlers, answer'[h] \in {answer[h], {}}
      PROVE  /\ \A r \in answer'[h] : \E s \in saves' : s.outcome = "saved" /\ RowOf(s, r)
             /\ Cardinality(answer'[h]) <= DefaultLimit
  <2>1. Cardinality({}) = 0
    BY FS_EmptySet
  <2>2. CASE answer'[h] = {}
    BY <2>1, <2>2
  <2>3. CASE answer'[h] = answer[h]
    BY <1>1, <2>3 DEF AnswerInv, AnswerBound
  <2> QED BY <1>2, <2>2, <2>3
<1>3. CASE \A h \in Handlers : answer'[h] \in {answer[h], {}}
  BY <1>2, <1>3 DEF AnswerInv, AnswerBound, RowOf
<1>4. ASSUME NEW h \in Handlers, LoadHistory(h) PROVE AnswerInv' /\ AnswerBound'
  <2> DEFINE inbox == Inbox(history, call[h].user)
  <2> DEFINE limit == LimitOf(call[h].limit)
  <2>1. /\ answer'[h] = Oldest(inbox, limit)
        /\ \A g \in Handlers \ {h} : answer'[g] = answer[g]
    BY <1>4 DEF LoadHistory, HistoryFor, Visible, SavingInv, TypeInv, StorageTypeOK
  <2>2. limit \in Nat /\ limit <= DefaultLimit
    <3>1. call[h] \in LoadCall
      BY <1>4 DEF LoadHistory, SavingInv, TypeInv, CallInv
    <3>2. call[h].limit \in 0..DefaultLimit
      BY <3>1 DEF LoadCall
    <3> HIDE DEF limit
    <3>3. limit = IF call[h].limit = 0 THEN DefaultLimit ELSE call[h].limit
      BY DEF limit, LimitOf
    <3> QED BY <3>2, <3>3
  <2>3. inbox \subseteq history.rows /\ \A r \in inbox : r.to = call[h].user
    BY DEF Inbox
  <2>4. /\ IsFiniteSet(inbox)
        /\ \A r \in inbox : r.at \in Nat /\ r.id \in Nat
        /\ \A r, q \in inbox : r.id = q.id => r = q
    <3>1. IsFiniteSet(inbox)
      BY <2>3, FS_Subset DEF SavingInv, TableInv, WellNumbered
    <3>2. ASSUME NEW r \in history.rows PROVE r.at \in Nat /\ r.id \in Nat
      <4>1. r.id \in Nat /\ r.at \in Stamps \cup {0}
        BY DEF SavingInv, TypeInv, StorageTypeOK, Table, Row
      <4>2. CASE r.at = 0
        BY <4>1, <4>2
      <4>3. CASE r.at \in Stamps
        BY <4>1, <4>3
      <4> QED BY <4>1, <4>2, <4>3
    <3> QED BY <2>3, <3>1, <3>2 DEF SavingInv, TableInv, WellNumbered
  <2>5. Oldest(inbox, limit) \subseteq history.rows
    BY <2>3 DEF Oldest
  <2> HIDE DEF inbox, limit
  <2>6. Cardinality(Oldest(inbox, limit)) <= limit
    BY <2>2, <2>4, OldestBounded
  <2>7. Cardinality(Oldest(inbox, limit)) \in Nat
    BY <2>5, FS_Subset, FS_CardinalityType DEF SavingInv, TableInv, WellNumbered
  <2>8. /\ \A r \in answer'[h] : \E s \in saves' : s.outcome = "saved" /\ RowOf(s, r)
        /\ Cardinality(answer'[h]) <= DefaultLimit
    BY <1>1, <2>1, <2>2, <2>5, <2>6, <2>7 DEF SavingInv, SavesInv
  <2> QED BY <1>2, <2>1, <2>8 DEF AnswerInv, AnswerBound, RowOf
<1>5. ASSUME NEW h \in Handlers, NEW k \in Calls, Begin(h, k)
      PROVE  \A g \in Handlers : answer'[g] \in {answer[g], {}}
  BY <1>5 DEF Begin, SavingInv, TypeInv, StorageTypeOK
<1>6. ASSUME NEW h \in Handlers,
             \/ AccountSteps(h) \/ Fail(h) \/ Commit(h)
             \/ \E u \in Names : InsertRow(h, u)
      PROVE  answer' = answer
  BY <1>6 DEF AccountSteps, SignupInvalid, CreateUser, UserExists, Authenticated,
              InvalidCredentials, Fail, Commit, InsertRow
<1>7. Die => \A g \in Handlers : answer'[g] \in {answer[g], {}}
  BY DEF Die
<1>8. OpenSteps \/ UNCHANGED vars => answer' = answer
  BY DEF OpenSteps, CreateTables, CurrentSchema, UnsupportedSchema, RenameMail,
         RenamePassword, vars, serving
<1> QED BY <1>3, <1>4, <1>5, <1>6, <1>7, <1>8 DEF Next, HistorySteps

(* No row a login was shown belongs to a save that failed, then or later,    *)
(* and no more rows than the limit are shown.                                 *)
THEOREM ShownIsSaved == Spec => []ShownWasSaved
<1>1. Init => AnswerInv /\ AnswerBound
  BY FS_EmptySet DEF Init, AnswerInv, AnswerBound
<1>2. Spec => [](SavingInv /\ AnswerInv /\ AnswerBound)
  BY <1>1, SavingInit, SavingStep, AnswerStep, PTL DEF Spec
<1>3. SavingInv /\ AnswerInv /\ AnswerBound => ShownWasSaved
  <2> SUFFICES ASSUME SavingInv, AnswerInv, AnswerBound,
                      NEW h \in Handlers, NEW r \in answer[h],
                      NEW s \in saves, RowOf(s, r)
               PROVE  s.outcome # "failed"
    BY DEF ShownWasSaved, AnswerBound
  <2>1. PICK t \in saves : t.outcome = "saved" /\ RowOf(t, r)
    BY DEF AnswerInv
  <2>2. RowOf(s, t)
    BY <2>1 DEF RowOf
  <2>3. s = t
    BY <2>2 DEF SavingInv, SavesInv
  <2> QED BY <2>1, <2>3
<1> QED BY <1>2, <1>3, PTL
=============================================================================
