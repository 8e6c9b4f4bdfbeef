---------------------------- MODULE HistoryTable ----------------------------
(***************************************************************************)
(* The table message_history (migrations/001_users.sql) and the two        *)
(* statements that internal/storage/sqlite.go runs on it, as operators on  *)
(* a value.  Ciphertext and encrypted key are opaque to the server and are *)
(* left out: a row is who wrote what to whom, and when.                     *)
(*                                                                         *)
(* A table is its rows and the AUTOINCREMENT counter.  The rows one message *)
(* inserts go to distinct recipients, and ids are only ever compared within *)
(* one recipient's rows, so the rows of one insertion share an id.          *)
(***************************************************************************)
EXTENDS Naturals, FiniteSets

CONSTANT Calendar   \* the Unix times that are dates to SQLite

(* datetime(at, 'unixepoch'): NULL, here 0, unless at is a date.  The column *)
(* created_at takes a NULL, and ORDER BY puts it before every date.          *)
Datetime(at) == IF at \in Calendar THEN at ELSE 0

Row(Mids, Users, Stamps) ==
    [id: Nat, mid: Mids, from: Users, to: Users, at: Stamps \cup {0}]

Table(Mids, Users, Stamps) ==
    [rows: SUBSET Row(Mids, Users, Stamps), seq: Nat]

EmptyTable == [rows |-> {}, seq |-> 0]

(* MUTANT: UNIQUE(message_id). *)
SameMessage(r, s) == r.mid = s.mid
(* UNIQUE(message_id, recipient_username) *)
SameKey(r, s) == r.mid = s.mid /\ r.to = s.to

(* SaveMessageHistory: INSERT OR REPLACE one row per recipient, in one     *)
(* transaction.  A replaced row loses its id and gets a new one.            *)
Insert(t, mid, from, tos, at) ==
    LET new == {[id |-> t.seq + 1, mid |-> mid, from |-> from,
                 to |-> u, at |-> Datetime(at)] : u \in tos}
    IN  [rows |-> {r \in t.rows : \A s \in new : ~SameKey(r, s)} \cup new,
         seq  |-> t.seq + 1]

(* WHERE recipient_username = u *)
Inbox(t, u) == {r \in t.rows : r.to = u}

(* ORDER BY created_at ASC, id ASC *)
Before(r, s) == r.at < s.at \/ (r.at = s.at /\ r.id < s.id)

(* MUTANT: one row short. *)
OldestButOne(S, n) == {r \in S : Cardinality({s \in S : Before(s, r)}) + 1 < n}

(* LIMIT n, after that ORDER BY: the n rows with the fewest predecessors.  *)
Oldest(S, n) == {r \in S : Cardinality({s \in S : Before(s, r)}) < n}

(* LoadMessageHistoryForUser: as a set; the caller walks it in order.       *)
HistoryFor(t, u, limit) == Oldest(Inbox(t, u), limit)

(* The Scan of a row whose date is NULL fails, and with it the whole query.  *)
Readable(S) == \A r \in S : r.at # 0

(* The row a caller walking the result in order takes next. *)
Earliest(S) == {r \in S : \A s \in S \ {r} : Before(r, s)}
=============================================================================
