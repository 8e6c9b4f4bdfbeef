# TLA+ models of go_secure_chat

This directory is the verification project of the chat server and client in
`src/`: TLA+ modules that model the code, TLC configurations that check them on
small instances, and theorems that TLAPS proves for every instance. Line
numbers refer to the sources; `PROJECT.json` maps every definition to the lines
it stands for.

## 1. The system

| part | code | state it keeps | operations | modelled by |
|---|---|---|---|---|
| server | `internal/network/server.go` | `Server.clients` under `mu`, one `Client` per connection (`Username`, `Send`), handler and writer goroutines, accept loop, shutdown | accept, handshake, sign-up, log-in, message, unregister, broadcast, `Close` | `ChatServer` |
| message table | `internal/storage/sqlite.go`, `migrations/001_users.sql` | rows of `message_history` and its id counter | `SaveMessageHistory`, `LoadMessageHistoryForUser` | `HistoryTable`, `Storage` |
| accounts | `internal/storage/sqlite.go` | table `users`, its schema version | `Open`, `CreateUser`, `AuthenticateUser`, `migrateLegacyUsersSchema` | `Storage`; their outcome, in `ChatServer` |
| packets | `internal/protocol/packet.go` | none | `Validate`, `Encode`, `DecodeLine` | packet records of both state machines |
| client transport | `internal/network/client.go` | socket, peer map, identity key; key files | `Dial`, `SendAuth`, `EncryptMessage`, `DecryptMessage`, `UpdatePeers` | `ChatClient`, `IdentityKeys`, `ChatSystem` |
| client window | `internal/ui/state.go`, `app.go`, `auth_view.go` | session, chat lines, `Incoming`, `Client` and `clientToken` under `clientMu` | `Connect`, `readLoop`, `emit`, `DrainEvents`, `SubmitAuth`, `SendMessage`, `Logout` | `ChatClient` |
| views | the other files of `internal/ui` | widgets | layout | not modelled |
| crypto wrappers | `internal/crypto` | none | AES-GCM, RSA-OAEP | a call succeeds or fails |
| legacy RSA, AES | `server/enc` | none | key generation, `modExp`, `modInverse` | `LegacyRSA`, without AES; dead code by the repository's README |

How the parts interact. A client dials, the two sides exchange keys, and from
then on every packet is an encrypted line. The server's handler goroutine reads
requests one at a time. A log-in takes the write lock, enters the session into
`clients`, and queues `auth_ok`, the history, the peer list and the broadcasts
on the `Send` channels, all under the lock. A message is saved and then, under
the read lock, queued to each recipient who is online. A writer goroutine per
connection moves packets from `Send` to the socket. In the client a `readLoop`
goroutine per connection turns packets into events on the channel `Incoming`,
which the UI goroutine drains at each frame.

What is hard about it: sends on channels that another goroutine closes; a
session that unregisters long after it registered; saving and broadcasting
without a common lock while somebody logs in; queues that drop (server) or
block (client); a shutdown that races with everything; a connection that
survives as a zombie; events of an old connection that arrive in a new session.
`PROJECT.json` lists these hazards with their lines and the properties that
cover them.

What makes each part correct:

* server: the registry and the sessions agree; an entry is removed by its owner;
  no send on a closed channel; everybody knows who is online; nothing falls
  between history and live delivery; requests finish and names are given back;
  the shutdown ends.
* message table: what was delivered was stored; a save is whole or absent; a row
  gives way only to its like; the history is the right rows in the right order.
* accounts: an account stays with its owner, however the address is typed and
  whatever was killed or migrated; a start is not refused without cause.
* key files: the key a session announces is the one the next session will have.
* the system: whatever a user receives, live or years later, the user can read;
  a client that has caught up writes to exactly those who are present.
* legacy RSA: a key's parts belong together, and what is encrypted decrypts.
* client: the window shows the session the server has; lines are neither lost
  nor shown twice; a log-in is sent once; nothing waits for ever.

## 2. Modules

| module | what it is |
|---|---|
| `HistoryTable` | the table `message_history` as a value, with `Insert` and `HistoryFor`; extended by `ChatServer` |
| `ChatServer` | the server as a state machine: 36 actions over the program counters of the handlers, the queues, the writers, the registry, the database and the process |
| `ChatServerProperties` | its invariants, action properties, fairness and liveness |
| `MCChatServer` | symmetry, reductions and initial states for TLC |
| `ChatServerProofs` | types, registry, channels and panics of the server, and what is stored, proved |
| `DeliveryProofs` | what is sent to whom, proved |
| `ChatClient` | the window, its readLoops and its transport, with the server as the environment that answers |
| `ChatClientProperties` | what the user of the window relies on; fairness |
| `ChatClientProofs` | its safety properties, proved |
| `MCChatClient` | reductions, bounds and a view for TLC |
| `ChatRoom` | abstract: what the server promises, with no handlers, locks or queues |
| `RoomMapping` | how the state of `ChatServer` is seen as the state of `ChatRoom`; `ImplementsRoom` |
| `RoomProofs` | `ImplementsRoom`, proved step by step |
| `Storage` | the SQLite layer, one SQL statement at a time; `Open` and the legacy migration |
| `StorageProperties`, `MCStorage` | what the handlers and the users rely on; symmetry |
| `StorageProofs` | the properties of the storage, proved |
| `IdentityKeys` | the key files that the programs of one directory share |
| `ChatSystem` | programs with their key files, over `ChatRoom`, with what each client knows and can read |
| `ChatSystemProperties`, `MCChatSystem` | what the users of the whole system rely on; reductions, bound and view |
| `ChatSystemProofs` | the properties of the system, proved |
| `LegacyRSA`, `LegacyRSAProperties`, `MCLegacyRSA` | the hand-written RSA, against the textbook |
| `NumberTheorems` | the number theory those proofs rest on, from induction up to Fermat |
| `LegacyRSAProofs` | its algorithms and all its properties but `LiarsAreFew`, proved |

The invariants that the proofs need beyond the properties are in the proof modules.

`ChatServer` and `Storage` extend `HistoryTable`. `ChatServer` implements `ChatRoom`
(`RoomMapping`), and `ChatSystem` is built on `ChatRoom` instead of `ChatServer`:
the composition has the clients and their keys in detail and the server as what
it promises.

### ChatServer and the code

One step is the code between two points at which another goroutine can see or
influence the handler: taking a lock, a send, a database call, a read.

* `pc[c]` is the place of the handler: `handshake`, `loop` (the check of `ctx`),
  `read`, then by the request `signup`, `auth`, `join` (waiting for the lock in
  `finishAuth`), `load`, `hist`, `join_peers`, `join_note`; or `save`, `saved`
  (waiting for the read lock), `cast`; or `error`; `leave` (waiting for the lock
  in `unregister`), `leave_peers`, `leave_note`; `done`.
* `mu` is not a variable: it is held exactly where the code holds it, so
  `WriteLocked` and `ReadLocked` are read off `pc`. While the lock is held the
  other goroutines still run, and a shutdown may begin.
* A channel is `log[c]`, everything it ever accepted, and `taken[c]`, how much
  the writer has taken: its length is the difference, and the properties can
  speak of what was delivered before. `sendEncrypted` drops at `QueueCap` and
  panics on a closed channel; a panic ends the process (`proc = "panicked"`).
* The database calls of a request fail once the signal's context is cancelled;
  the history query does not (`context.Background()`, server.go:292).
* A crash (`CrashRestart`) loses everything but the two tables and may come
  between any two steps.
* A message carries an identifier and a timestamp of its sender's choice, and the
  server looks at neither. `Mids` is a set from which every message takes any, so an
  identifier may be used again, by its first user or another one. `Insert` then takes
  the older row away (INSERT OR REPLACE, sqlite.go:149), its sender included; `gone`
  is a history variable that remembers such rows.
* `Datetime` is what SQLite's `datetime(?, 'unixepoch')` stores: a time outside `Calendar`
  becomes NULL (0 in the model), which sorts first and on which the `Scan` of a later
  query fails (`Readable`, sqlite.go:189). Every login of that reader is then registered
  but not announced, as with `dbfail`, but without any failing database. (Dates are
  compared as the texts SQLite makes of them; times before the year 0, whose texts
  sort the other way, are left out.)
* `Env` says which of six troubles may happen. Each property names the ones it
  is claimed without.

Abstracted: texts, e-mails and passwords (an account is its username, and
`AuthRefused` may always happen), encryption (a packet that does not decrypt is
`ReadError`), time (a message carries the timestamp its client chose), the
AUTOINCREMENT ids of the rows of one message (one id for all of them; they have
different recipients, and ids are compared only within one recipient's rows).

### ChatClient and the code

* Connection `k` is the one made when `clientToken` became `k`.
* `reader[k]` is the place of a readLoop: `read`, `handle`, `emit` (before the
  check of the token), `push` (between the check and the send, where `emit`
  holds no lock), `wake` or `exit` (before `Invalidate`), `done`.
* `ui` is the place of the UI goroutine: `idle`, `drain`, `naming` (in the
  middle of writing `Session.Username`), a view, `dial` (in `Connect`, with
  `clientMu`), `gone`.
* `frame` is a pending request for a frame: set by `Invalidate` and by input,
  cleared when the frame begins.
* `key[k]` is the account whose key file the connection loaded; `HandleMessage`
  decrypts if the packet is addressed to the *current* `Session.Username` and
  wrapped under the key of the *current* client, as the code does.
* The write of `Session.Username` and the reads of it in the readLoops are a
  data race. The old and the new name are the two orders of the steps; a read
  of half a string is `TornName`, which ends the process.
* The server is the environment: it answers requests in order, and sends news
  to authenticated connections. Its replies to one log-in are one step, because
  the server sends them under its lock.

* A log-in is answered with up to `MaxHistory` rows, in any order and each wrapped
  under any key: the one the connection holds, that of another account, or one that
  is lost (`NoOne`). Live messages, too, come under any key, since their sender's list may
  be old. `HandleMessage` drops without a trace what it cannot open, and `missed` records it.

Abstracted: texts, themes, dialogues, rooms, the form's fields (sign-up and
log-in differ on the server only), the contents of the peer map (filled or
not), the `FromMe` flag. A frame handles at most one click.

### ChatRoom, and how the server implements it

`ChatRoom` keeps five things: `member` (the connection of each present user),
`change` (the join or leave that is being told, one at a time, and of a join the rows
that are still `due`), `said` (the live packets of the message that each connection is
saying), `archive` (the table, kept for ever) and `box` (what each connection has been
sent). It promises:

* nobody joins or leaves and no live message is delivered while a change is being told;
* a newcomer gets the rows that the archive had for it when it came (`Look`), the oldest
  up to the limit, each once and by time, then the peers; everybody gets the peers and
  then a note;
* only a present user's message is archived, and whole; a row gives way only to a later
  one of its identifier and reader (`Insert`);
* a live message is archived first, then once sent to each of its readers who is present
  when the delivery begins (`Address`) and still is, never to its author; an author's
  messages follow one another;
* a box only grows, by at most one packet at a time.

It does *not* promise that a packet arrives (`MayDrop`), that a join whose history cannot
be read is announced (`RecallFails`), that two readers see two messages in one order,
that an identifier is used once, or that a row of the history does not come again as a
live message. These are what the code does: `broadcastMessage` runs under the read lock
and in the order of a map, a message is saved before it is broadcast, and
`SaveMessageHistory` replaces.

The mapping of `RoomMapping`: `member` is `clients`; `archive` is `db`; `box` is
`log`, what a `Send` channel has ever accepted (a queue that is full drops, and
`Offer` allows it); `said` is the request of a handler that has saved it, to the readers
that `rest` still holds; `change` is read off the program counter of the one handler that
holds the write lock: `load` is "look", `hist` is "recall" with `hist[c]` due, `join_peers`,
`join_note`, `leave_peers` and `leave_note` are the announcements. The save is `Post`, the
read lock `Address`, a broadcast step `Deliver`; `Close` is `CloseRoom`, a crash is
`Restart`. Everything else is a stutter. It is claimed without `relogin`, with which one
connection holds two names.

### Storage and the code

* A step is one SQL statement. SQLite lets one connection write at a time:
  `journal` is the open transaction, its owner and the table it will leave;
  other writers wait (`MayWrite`) or give up (`Fail`); readers see `history`.
* `SaveMessageHistory` is `InsertRow` per recipient in any order, then `Commit`; the
  deferred `Rollback` is `RolledBack`. Identifiers are the clients' and may collide.
* An address or a name is who it means and how it is spelt: `Normalised` and
  `Trimmed` are what `strings.TrimSpace` and `ToLower` do to it.
* `Open` is `CreateTables`, then by the columns found `CurrentSchema`,
  `UnsupportedSchema`, or `RenameMail` and `RenamePassword`, with `Die` anywhere.
* `fits` stands for `ValidateSignup` and the limit of bcrypt. Secrets are compared
  as bcrypt compares them: equal or not.
* A timestamp that is no date is stored as NULL and fails the query that meets it
  (`Datetime`, `Readable`), within the limit and in the order of the query.
* `saves`, `owners` and `halved` are history variables for the properties.

### IdentityKeys, ChatSystem and the code

* A connection is a program: started for one account, it dials, reads or makes
  its key file, logs in, reads and writes, and ends or is killed. A key is named
  by the connection that made it. A program that reconnects is, for this model,
  another one: a new `TransportClient` loads its key anew. (Two accounts on one
  connection are in `ChatClient`, `AnnouncedKeyIsOwn`.)
* Every operation on the key file may fail, and the program lives on and may try again
  (`GiveUp`, `TryAgain`). `os.WriteFile` is two steps, `TruncateKeyFile` and then `WriteKeyFile`
  or `WriteKeyFails`. Between them the file is "torn", and so it stays when the write fails
  with nothing or a part written (a full disk), or the program is killed there: `halfway`
  is a history variable with the files that this happened to. A write may also fail with
  all of the key written (the close fails): then the file has a key, and this session none.
* Two programs that both found no file both make a key (`raced`).
* `box`, `member`, `change`, `said` and `archive` are `ChatRoom`'s, with dropped packets
  (`MayDrop` is TRUE) and histories that cannot be read (`RecallFails`); `heard` is how much of
  its box a client has read, `peers` the list `UpdatePeers` kept last, `sealed` the recipients
  and keys of the message it sent. The message may arrive much later, or never.
* The server asks of a public key only that it is not blank (server.go:238, 250). The `Foreign`
  programs announce one that does not parse, and `UpdatePeers` of every client then rejects
  the whole list and keeps the one it has (client.go:174-177).
* `untold` is a history variable with the members that the last list of peers did not
  reach: their queue dropped it, or the newcomer's history could not be read, so that
  none was sent.
* A refused log-in is an ask that has not yet been granted. Different messages have
  different identifiers here (each connection sends one, and is its name); what happens
  to rows when they have not is in `ChatServer` and `Storage`.

### LegacyRSA and the code

The numbers are exact, as with `math/big`; the width of a byte, the 11 bytes
that `Encrypt` sets aside and the three exponents are constants, so that all
small keys can be tried. Random numbers are nondeterministic. `BitLen`, `SetBytes`
and `Bytes` are modelled by what the library does. The loops of `modExp` and
`extendedGCD` are recursive functions of a tuple of their variables, so that they can
be proved about. `RSAAssumption` says of the exponents that they are primes, as
65537, 17 and 3 are: `generateKeys` asks only that `phi % e` is not 0, which makes `e`
invertible because `e` is prime.

## 3. Runs

| run | instance | what it asks | result |
|---|---|---|---|
| `server_registry` | 2 connections, 2 users, 3 requests between them, an empty database or one with both accounts and a message, one identifier, two timestamps one of which is no date, history limit 1; `signal`, `crash`, `dbfail`, `slow` | `RegistryMatchesSessions`, `WriterReleased`, `OwnerLeaves`, `ImplementsRoom` | hold |
| `server_delivery` | 2 connections, 2 users, 4 requests, messages to all, a stored message, two identifiers, two timestamps, history limit 2; `crash` | `TypeOK`, `PeerViewCurrent`, `NoMessageMissed`, `JoinOrder`, `SeenIsStored`, `NoPanic` | hold |
| `server_progress` | 2 connections, 2 users, 3 requests; `hangup`; fair handlers, writers that may never move | `NameIsReleased`, `RequestsFinish` | hold |
| `client_session` | 2 connections, 2 accounts, histories of up to 2 rows under any key, queue of 2; all of `ClientEnv` | `ClientTypeOK`, `SessionHonest`, `OneLogin`, `NothingLost`, `MissedOnlyAtFirst`, `AnnouncedKeyIsOwn` | hold |
| `client_progress` | 1 connection and failing reconnects, 2 accounts, 2 log-ins, histories of up to 1 row; `cut`; fair goroutines | `EventsAreApplied`, `ReadersEnd`, `DropIsNoticed`, `LoadingEnds` | hold |
| `storage` | 2 handlers, 2 users, addresses, identifiers, timestamps one of which is no date, 1 password, a limit of 1 row, 3 calls, a new, current or legacy file; failures, kills, restarts | `StorageTypeOK`, `OwnersCanLogIn`, `OneOwner`, `SavesAreWhole`, `ShownWasSaved`, `StartRefused`, `RowsGiveWay` | hold |
| `chat_system` | 3 programs one of which is `Foreign`, 2 accounts, 1 message; failing operations on key files, kills, server restarts, dropped packets, unreadable histories | `SystemTypeOK`, `AnnouncedIsOnDisk`, `MailIsReadable`, `ViewIsRoom`, `FileIsUsable` | hold |
| `legacy_rsa` | keys of 8 and 10 bits (6 and 9 are refused), bytes of 2 bits, 1 byte set aside, exponents 3, 5, 7, 2 rounds | `RSATypeOK`, `PrimesPass`, `LiarsAreFew`, `KeyIsSound`, `RoundTrip`, `SentCanBeRead` | hold |
| `shutdown_panic` | 1 connection, `signal` | `NoPanic` | violated |
| `shutdown_hang` | 1 connection, `signal`, fair | `ShutdownCompletes` | violated |
| `lost_history` | 1 connection, 1 account | `HistoryShown` | violated |
| `history_window` | 2 users, 3 saves, a limit of one row | `NewestAreShown` | violated |

Why the bounds are enough to be interesting. Two connections and two users give
every race the server has between two sessions: two log-ins of one name, a
log-in against a leave, a message against a log-in, a late log-in against the
sweep of `Close`. Three users or connections add only more of the same pairs:
every guard looks at one other entry at a time. `server_registry` allows three
requests in all (two may log in and one speak, or one log in after a failure);
all four of its properties are also proved for every instance. Its one identifier is used
again by whoever speaks over an old database, and the timestamp that is no date, in a
message to everybody, makes a history unreadable. `server_delivery` allows four, so that both may speak after both
have logged in, under one identifier or two: a row is replaced before, while and after the
message it belongs to is told. The stored message, which has the later date, and the limit of 2
make a log-in find two rows, in the order of two timestamps and of two ids. The
queue capacities (8, 9 and 12) are reached in `server_registry`, where writers
may die, and are large enough in `server_delivery` that a full join does not
overflow, so that the excuse of `lossy` is rare; the code's 64 has the same
relation to a join without history. In the client a queue of 2 makes readLoops
wait, and two rows of history under any keys let one that cannot be opened come before,
between and after ones that can.

In `storage` three calls are what the hazards take: a sign-up and two log-ins,
two saves that collide and a query between their statements, a save that fails
and a retry. Every call may be killed anywhere, and the file migrated again. With one
password a log-in fails by its address only; the limit of one row is exceeded by two saves,
and a row without a date is met or cut off by it. In
`chat_system` three programs give two first starts of one account and a third
that writes to it, or an account that comes back after its message was sent;
one message is enough because the keys of a message depend on no other message, and one
`Foreign` program because one bad key rejects a list. Two more bounds keep that run small:
a program gives up before it touches its file only while no other runs (`EarlyGivesUp`; it
changes nothing another one sees), and the server restarts only once the message is
archived (`LateRestart`; before that a restart leaves only what the programs have on disk).
The theorems have none of these bounds.
In `legacy_rsa` the composite probes include those with strong liars (25, 49, 65,
91), the keys include ones that no exponent fits and ones with a fallback
exponent, and the messages ones with leading zeros and one byte too long.

Reductions. `LazyWriter` lets a writer take a packet only when its channel is
full or no handler is left: a writer commutes with everything but a send to a
full channel. `EagerReaders` and `EagerFrames` give priority to steps that touch
nothing another goroutine waits for. `LiveView` forgets a replaced connection
whose readLoop has ended and whose events are applied, the key of a message beyond whether
it is the connection's, and all of a handled packet but whether it was a line. `FewPackets`
bounds what two connections carry together. In `chat_system`, packets
that change nothing the model looks at (`Dull`) are read at once (`EagerReader`);
a program that ends before it has touched its file or the room is left out, as is a kill
that leaves what a failed write leaves (`NoIdleEnd`); a failed program tries again at once,
unless its file is torn (`EagerTry`); only lists of peers for live programs are dropped, as
the loss of anything else is the loss of something to read (`NoIdleDrop`); and `MainView`
keeps of a box what is not read yet and the mail, all that a step or a property looks at. Usernames, connections and accounts are
symmetric, except in the runs with liveness.

### What the violated runs show

* `shutdown_panic`: the error reply of `handleConn` (server.go:230) sends on
  `client.Send` without the lock, and `Close` (server.go:140) closes it: a signal
  during a request that ends in an error makes the process panic, where the
  repository's README (line 34) promises a graceful shutdown. The cancelled
  context makes database calls fail, so every request in progress ends so.
* `shutdown_hang`: `Close` shuts only the connections in `s.clients`. One that
  has not logged in stays in its read, which has no deadline, and `wg.Wait`
  waits for it; line 264 of the README says the server will not hang.
* `lost_history`: history rows that are read before the frame that applies
  `auth_ok` are decrypted under an empty username and dropped (README line 236).
  `MissedOnlyAtFirst` bounds the damage: once a message of a connection was
  read, all later ones that are wrapped under its key are.
* `history_window`: the history query sorts by time and then limits, so it
  returns the *oldest* 200 rows (sqlite.go:175). Line 284 of the README says that
  older messages become invisible; it is the newer ones.

### Conditions of the properties that hold

* Without `relogin` (a second log-in on an authenticated connection):
  everything about the registry. `finishAuth` would rebind the connection and
  leave the first name's entry behind; the next broadcast after the leave sends
  on a closed channel. `OneLogin` says that the repository's client does not
  do this, with one exception: when an event of an earlier connection is
  applied (`stale`). `emit` checks the token and sends later, so a
  `Disconnected` of the old connection can take the chat view from a new
  session, and the user may then log in again on a live one.
* Without `signal`: `NoPanic`. Without `dbfail`: `PeerViewCurrent`; a database
  error in `sendHistoryLocked` makes `finishAuth` return after it has registered
  the session, and nobody gets a peer list with it (server.go:293; README line
  168 says that a list is sent whenever the set of users changes). The same happens, with a
  sound database, to a reader who has a row without a date, so `PeerViewCurrent` is also
  claimed only for timestamps that are dates (`Stamps \subseteq Calendar`).
* `SeenIsStored` and `RowsGiveWay` allow that a row gives way to a later one of the same
  identifier and reader, whoever sent it: a message that was seen, or one that its reader
  never saw, is then no longer in the history. Nothing in the server keeps a client from
  using an identifier again, and its own are nanosecond timestamps (client.go:249).
  `NoMessageMissed` speaks of the rows that are there.
* `lossy` sessions (a full queue, or a history that could not be read) are
  excused where a property is about what they received: the code drops packets
  by design.
* `LoadingEnds` without `latewrite`: a log-in that is written to a connection
  whose readLoop has ended is answered by nobody, and the form stays busy.
* `AnnouncedKeyIsOwn` excuses an account that logs in after another one was
  refused on the same connection: `EnsureIdentityKey` ignores its argument once a
  key is loaded (client.go:125), and the second account is announced under the
  first one's key (README line 166 calls it the user's identity key).
* `AnnouncedIsOnDisk` and `MailIsReadable` excuse the accounts whose key file two
  programs created at once: the second write wins, and what was encrypted to the
  first program's key is lost when it ends (client.go:261). `MailIsReadable` also
  excuses a reader whose own program is `Foreign`. `FileIsUsable` excuses the files of which a
  write ended in the middle, by a kill or by an error that the program survived; every
  later start with such a file fails.
* `ViewIsRoom` is claimed of a client that the last list of peers has reached (`untold`: its
  queue may drop it, and no list is sent when a newcomer's history cannot be read), and
  while nobody present has announced a key that does not parse: one such key makes
  `UpdatePeers` reject every list it is in, and the client goes on with the list before.
* `MissedOnlyAtFirst` speaks of messages wrapped under the key that the connection holds. A
  row under another key, that of a session before a race or of a sender with an old
  list, may be unreadable at any time.
* `StartRefused` allows one refusal, after a kill between the two renamings
  (sqlite.go:228): the data is whole, but every later start is refused, too.
* `OneOwner` counts a legacy row whose address has capitals as nobody's: no
  log-in finds it, and the address can be signed up beside it.
* `KeyIsSound` and `RoundTrip` excuse keys for which all three exponents divide
  phi: `modInverse` asks whether the *sign* of the gcd is 1 (ma_rsa.go:98) and never
  reports an error. `RoundTrip` compares up to leading zero bytes (ma_rsa.go:291) and
  excuses the public part of a stored key that was generated with a fallback
  exponent: `UnmarshalPrivateKey` always restores 65537 (ma_rsa.go:393).
* Not claimed: that the chat is empty after a logout. Events that were queued
  when the user logged out, and system lines that the closed connection's
  reader still holds, are appended to the cleared chat, because `Logout` does not
  renew `clientToken`.

### Fairness

Server (`HandlerFairness`): a handler that can run does, by Go's scheduler (weak
fairness); one that waits for `mu` gets it, by the fairness of `sync.RWMutex`,
although it is enabled only now and then (strong fairness); a read from a dead
socket returns. Nothing is assumed of clients or writers. `ShutdownFairness`
adds the goroutine of `Close` and the accept loop.

Client (`ClientFairness`): the UI goroutine runs, a requested frame comes, a dial
ends, the server answers or the connection breaks (weak); a readLoop gets
`clientMu` and room in `Incoming` in the end (strong: `sync.Mutex` hands over to
waiters, and blocked senders are served in order). Nothing makes the user click.

## 4. Theorems

Every safety property of the passing runs but one, `LiarsAreFew`, is proved for all
values of the constants: for any sets of connections, users and accounts, any queue,
history limit, number of requests and packets, any size of keys and bytes, and any
choice of the environment that the column does not exclude.

| module | theorem | statement | assumption |
|---|---|---|---|
| `ChatServerProofs` | `TypeCorrect` | `Spec => []TypeOK` | none |
| | `RegistrySafe` | `Spec => []RegistryMatchesSessions` | no `relogin` |
| | `WritersReleased` | `Spec => []WriterReleased` | no `relogin` |
| | `PanicFree` | `Spec => []NoPanic` | no `relogin`, no `signal` |
| | `OwnersLeave` | `Spec => OwnerLeaves` | none |
| | `SeenStored` | `Spec => []SeenIsStored` | no `relogin` |
| `DeliveryProofs` | `JoinOrdered` | `Spec => []JoinOrder` | no `relogin` |
| | `PeersTold` | `Spec => []PeerViewCurrent` | no `relogin`, no `dbfail`, timestamps that are dates |
| | `MessagesDelivered` | `Spec => []NoMessageMissed` | no `relogin` |
| `RoomProofs` | `RoomImplemented` | `Spec => ImplementsRoom` | no `relogin` |
| `StorageProofs` | `TypeCorrect` | `Spec => []StorageTypeOK` | none |
| | `OwnersServed`, `AccountsUnshared`, `RefusalsExplained` | `Spec => []OwnersCanLogIn`, `[]OneOwner`, `[]StartRefused` | none |
| | `SavesWhole`, `ShownIsSaved` | `Spec => []SavesAreWhole`, `[]ShownWasSaved` | none |
| | `RowsReplaced` | `Spec => RowsGiveWay` | none |
| `ChatSystemProofs` | `TypeCorrect` | `Spec => []SystemTypeOK` | none |
| | `KeysKept`, `FilesUsable` | `Spec => []AnnouncedIsOnDisk`, `[]FileIsUsable` | none |
| | `MailReadable`, `ViewKept` | `Spec => []MailIsReadable`, `[]ViewIsRoom` | none |
| `ChatClientProofs` | `TypeCorrect` | `Spec => []ClientTypeOK` | none |
| | `OwnKeys`, `LoginsOnce`, `SessionsHonest` | `Spec => []AnnouncedKeyIsOwn`, `[]OneLogin`, `[]SessionHonest` | none |
| | `NothingIsLost`, `MissedEarly` | `Spec => []NothingLost`, `[]MissedOnlyAtFirst` | none |
| `LegacyRSAProofs` | `TypeCorrect` | `Spec => []RSATypeOK` | none |
| | `PrimesPassed` | `Spec => []PrimesPass` | none |
| | `KeysSound` | `Spec => []KeyIsSound` | none |
| | `SentReadable`, `TextRestored` | `Spec => []SentCanBeRead`, `[]RoundTrip` | none |
| | `ModExpCorrect` | `ModExp` is the power modulo `mod`, for every base, exponent and `mod > 1` | |
| | `ModInverseCorrect` | `ModInverse` inverts what is coprime to a modulus above 1 | |
| | `PrimeSurvives` | a round of `millerRabin` passes every odd prime, for every base it does not divide | |
| | `DecryptUndoes` | modulo two odd primes, inverse exponents undo each other for every message | |

"None" means: none but the named ASSUMEs of the modules, which TLC evaluates in
the runs. They say what the constants are - finite sets of users and names,
positive capacities, natural bounds, an empty name that is nobody's, `Limits` of a
query between 0 and `DefaultLimit`, exponents that are prime. The strengthenings that
follow are in the proof modules; TLC has checked each of them on the instances of the
runs.

### The server

Type correctness is inductive on its own; the lemmas about
`Insert`, `HistoryFor` and `SendEncrypted` say what those operators return.
`RegistryMatchesSessions` is not inductive: that a leaving handler does not remove
somebody else's entry rests on where every other handler is. The invariant is
`PcInv` (a handler is where its request and its session allow) with
`SessionInv`, which gives the life of a session seen from the connection
(`ConnInv`: no name and no channel before the handshake; a bound session is in
the registry, or was swept by `Close` together with its channel; a session that
has left has a closed channel) and from the registry (`EntryInv`: an entry is
bound to that very name, open, and has an account). Each group of actions
preserves the two parts; most steps move one handler and keep its session
(`MovesKeepSession`), which leaves the log-in, the leave and the sweep of
`Close` to be argued. `NoPanic` adds that every send goes to an entry of the registry
or to the handler's own connection, and both are open. `OwnerLeaves` needs the
same only where `unregister` compares the session with the entry.

`SeenIsStored` speaks of rows that other handlers may take away at any moment.
`MessageInv` says that the write lock has one holder and excludes broadcasts, which keeps
the recipients of a broadcast in their places (`LockInv`); that the table has one row for
an identifier and a reader, and has, for each row that is gone, a later one of its kind
(`TableInv`); and that a handler between its save and the end of its broadcast finds for
every reader a row with its message's author and date, in the table or among those that
are gone (`SavedInv`). A save adds rows, moves some to `gone`, and gives each of these the later
row that `TableInv` asks for; a delivery hands on what `SavedInv` has.

The properties of delivery add how far each session has come. `JoinInv` gives every
packet a stage and every session a level, which only rises; what is left of a
history is later than what was sent of it (`HistInv`); whoever is past the welcome
has a list (`WelcomeInv`). All steps that send are first shown to add packets of the
right stage (`PacketsGrow`), so that the rest need not look at queues again. `PeersInv` is
`PeerViewCurrent` with the four places at which the lists may be behind the
registry, under the assumption that every row has a date (`DatedInv`), and `DeliveryInv` is `NoMessageMissed` with the rows that a log-in has still
to send.

`RoomImplemented` has one lemma for each action of `ChatServer` that the room sees,
naming the room's action, and one for all the others (`UnnoticedStep`). What the
mapping needs beyond `SessionInv` is `LockInv` (one change is told at a time, and the
readers of a broadcast are present) and `JoinInv` (a box is not empty once its handler
serves requests). That a row may be replaced between the save and its delivery needs no
argument of its own: `said` is what the author's handler still holds, in the room as in
the code. The invariants are proved without the refinement, and hold of it.

### The storage

`CallInv` ties a handler's place to its call; `SchemaInv` says how the columns follow
the migration; `AccountInv` is UNIQUE with the owners' rows normalised, from which
the three properties of accounts follow. For the saves, `JournalInv` describes the
one open transaction: its table is the committed one with the rows inserted so
far in the place of those they replace, each numbered after every committed row.
With it a commit moves a save from nothing to everything (`SavesInv`), and
`RowsGiveWay` is read off a commit. `ShownWasSaved` follows from `AnswerInv`: an
answer is made of rows of saves that are done.

### The system

`FileInv` says that a file which was not raced for has one writer, and then holds
every key its account's programs have or had; a failed write gives its program no key,
so it does not disturb this. It makes the keys permanent facts:
an entry of a peer list stays `Genuine`, so every packet in every box stays `Proper`
whoever leaves or restarts (`BoxInv`), and so does every row, in the archive, due to a
newcomer, or being said (`MailInv`). `UpdatePeers` keeps an old list or takes a new one, both
genuine. `MailIsReadable` is then one key per account. `ViewIsRoom` holds only when all is
quiet; the invariant `ViewInv` says that the list a client will have, once it has read its
box, is the room's (`UpToDate`) from the moment the lists have been told, for whoever they
reached and unless the room's list is one it rejects. `ChangeMoves` says once what a step
does to the boxes and to `untold`; the rest is read off it.

### The client

`ConnInv` (only the last connection is up, and only as the client's), `AskedInv` (the
first account tried gives a connection its key) and `EventInv` (a readLoop pushes the
event of its end after all its others) hold always. `FormInv` holds until a stale
event is applied: what the server sent is for the account that is logged in
(`WireInv`), the window's name is that account (`NameInv`), a readLoop that is over has left
its event in the channel (`EndInv`), and `LoginInv`, which carries `OneLogin`: the form is
busy while a request is pending, and from the server's yes to the window's
`auth_view` nothing on the way can free it. The answer is in one of four places -
unread, with the readLoop, in the channel, applied - and every step moves it by at
most one. `OrderInv` and `KeptInv` do the same for the lines of the chat: a later place
has later packets, and every packet is somewhere. `MissInv` says that a message
wrapped under the connection's key was readable only because the window had the right
name by then, which a name once right keeps; nothing is said of messages under other
keys.

### The legacy RSA

What the hand-written algorithms compute is defined by recursion, and the theorems of
the library that would help take an operator as a parameter. `NumberTheorems` goes
round that: the least number of a set of naturals gives induction over sets
(`Induct`, `StrongInduct`), and induction over the set of bounds up to which a
solution exists gives that a definition whose argument gets smaller has a solution
(`Recursion`). From there: `Pow` and congruences; the built-in powers of two, counted
as subsets; combinations of two numbers (Bezout) and Euclid's lemma; Fermat's little
theorem; two primes that divide a number divide it together (`TwoPrimes`).

`ModExpCorrect` carries the loop's invariant, `r * b^e` congruent to the power, down the
halvings of the exponent. `ModInverseCorrect` reads the inverse off the coefficients of
`ExtendedGCD`. `PrimeSurvives` follows the squarings of `millerRabin`: by Fermat they
end at 1, and modulo a prime only 1 and `n - 1` have the square 1, so one of the
values the code compares is met. `DecryptUndoes` is Fermat for each factor, also for
messages that a factor divides.

`RSAInv` ties these to the steps. `StageInv`: what was rejected is not prime, for a
prime survives every round. `FactorInv`: the two factors are different odd numbers with
their top bit set, of half the bits, so the product has the size asked for or a bit
less (`ProductBits`). `KeyInv`: the private
exponent is the inverse of the one `generateKeys` settled on, which the loaded key's
public part need not be. `LetterInv` and `BlockInv`: text, block and plain are bytes, the
block is the padded power of the text, and the text is shorter than the
modulus, hence below it. The properties follow without further steps.

### Only model-checked

* All liveness (`NameIsReleased`, `RequestsFinish`, `EventsAreApplied`, `ReadersEnd`,
  `DropIsNoticed`, `LoadingEnds`): fairness and `ENABLED` are out of the prover's reach.
* `LiarsAreFew`: Rabin's bound on the bases that lie for a composite. It needs the groups
  of units modulo a composite and their subgroups, none of which the libraries have;
  TLC counts the liars of every probe instead.
* The four violated runs are counterexamples and need no proof.

## 5. Plan

Done: the server and its table, the room it implements, the storage, the client
window, the key files, the system as a whole, the legacy RSA, and proofs of every
safety property but `LiarsAreFew`. Next: Rabin's bound; and theorems on what the
run-time conditions exclude, for instance that `relogin` is the only trouble that parts
registry and sessions.

Not modelled, and why: the views, themes and dialogues (no shared state), the
crypto wrappers and `ma_aes.go` (stateless calls to the standard library), `gcd` of
`ma_rsa.go` (only its test calls it), the base64 text of keys, the entry points
(flag parsing), `assets`, `report`, `raport` and `scripts` (documents and their
tools), the handshake's bytes (one step with two outcomes: nothing is shared
before it ends), the busy loop on `Accept` errors (no state).
