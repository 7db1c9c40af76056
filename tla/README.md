# Verification of SimplePOP3Serv in TLA+

SimplePOP3Serv is a small POP3 server in C++17 on Boost.Asio. This directory
holds its TLA+ models, the TLC configurations that check them on small
instances, and TLAPS proofs of the properties that matter most. All paths are
relative to the repository.

## 1. The system

| Component | Code | State | Operations |
|---|---|---|---|
| Server, thread pool | `src/Common/Server.h` | acceptor, threads, the loop that waits for `quit` | `serve`, `cancel`, `Run` |
| Session | `src/POP3Server/{include,source}/POP3Session.*` | registry `sessions`, request buffer, response, state, `userName`, `mailbox`, timer, `lastActivityTime`, `quitCommandReceived` | `CreateSession`, `read`, `write`, `readImpl`, `startTimer`, `deleteFromSessions`, `cancelAll` |
| Parser | `src/POP3Common/POP3Command.h` | none | `parsePOP3Command` |
| Mailbox service | `MailboxServiceManager`, `MailboxLock` | `activeMailboxes` | `LockMailbox`, `UnlockMailbox`, `VerifyCredentialsAndConnect` |
| Mailbox and storages | `Mailbox`, `MailStorage`, `FileSystemMailStorage` | listing, marks, flags; the files on the disk | count, listing, lookup by number, mark, mark all, reset, update in the destructor |
| Authorization manager | `AuthorizationManager.h` | none | `verifyName`, `logon` (`verifyCredentials`, `getMailStoragesAssociatedWithConsumer`) |
| Consumer registry | `ConsumerInfo.h` | one JSON file per consumer, `cachedConsumerInfos`, `m_mutex` | `refresh` (at the start), `getConsumerInfo`, `hasMailbox`, `addConsumerInfo` |

How they interact. The accept handler creates a session, registers it, starts
its first read and its timer. Each session is a chain read -> handle -> write ->
read of asynchronous operations whose handlers run on any thread of the pool;
the timer's wait is a second chain of the same session, and `cancelAll` on the
main thread reaches into both. Each of these holds a `shared_ptr` to the
session. PASS locks the mailbox name in a table all sessions share, checks the
password, lists the mail directories and moves the lock into the new `Mailbox`.
The password and the list of directories come from the consumer registry, a
cache of the consumers' files that the start fills. The commands work on the
listing. QUIT sets a flag, the handler of the write
of its reply sets the storages' update flag, and the files go when the last
`shared_ptr` to the session does: `~POP3Session`, `~Mailbox` (the lock first,
then the storages), `~FileSystemMailStorage`.

What is hard: the order of handlers on the pool, cancellation that misses, the
life time of the session object, a listing that other sessions make stale,
exceptions in handlers that nobody catches, crashes inside the update, numbers
that move when emails are marked, lines that arrive in pieces. `PROJECT.json`
lists each of these hazards at its line.

What makes each part correct:

- *Maildrop*: deletions are exactly those that were acknowledged, and only after
  an acknowledged QUIT; what a client is shown is consistent with what it can
  address.
- *Service*: one session per mailbox name; no path leaks a lock, releases it
  twice or releases somebody else's; a name is busy only while a client uses it.
- *Server*: a session is in the registry exactly while its chain can still end,
  nothing touches it after its destructor, `Run` leaves nothing behind.
- *Registry*: a consumer that was added can log on until somebody edits its
  file, whatever the process dies of; the lookups of one logon agree.
- *Whole server*: a "quit" on the console loses no acknowledged deletion; a
  mailbox is locked only for a session whose object somebody still needs.
- *Dialogue*: a reply belongs to the line the client sent; the maildrop opened
  is that of the user who gave the password.

## 2. Modules

| Module | Models |
|---|---|
| `MailStorage` | operators on storages and mailboxes (records and sequences of records): counts, listings with offsets, `findStorage`, marks, reset, what the destructor removes |
| `Maildrop` | one maildrop: login, commands, QUIT, the destructors file by file, deliveries and crashes |
| `MaildropPromise` | abstract specification: emails exist, are offered, promised for deletion, committed and removed; `Maildrop` refines it |
| `MailboxLease` | abstract specification: a name is leased to at most one session |
| `MailboxService` | concurrent sessions, the lock table, the steps of PASS, the files they share, the destructors in their order; its lock refines `MailboxLease` |
| `POP3Server` | accept loop, registry, the chain, the timer, `cancelAll`, thread pool, `Run` |
| `POP3Dialogue` | request buffer, parser, both dispatchers, the clearing of the buffer |
| `POP3Exchange` | abstract specification: a client that waits, whole lines, one answer each, refusals that change nothing; `POP3Dialogue` refines it for a client in lockstep |
| `POP3System` | `POP3Server` and `MailboxService` composed: commands inside read handlers, the mailbox destroyed by the session's destructor |
| `ConsumerDocument` | operators on consumers, their documents, the conversions between them and the directories of a consumer's storages |
| `LogonDecision` | abstract specification: a logon is decided at once by what is known of the typed name; nobody is replaced, and nobody forgotten before the process ends |
| `ConsumerRegistry` | the directory of documents, the cache and its mutex, `refresh`, `addConsumerInfo`, logons by several threads, crashes, restarts, edits by hand; its logons refine `LogonDecision` |
| `MC*` | values of the constants for TLC |
| `MailStorageProofs` | lemmas about storages and mailboxes |
| `MaildropProofs`, `MaildropPromiseProofs`, `MailboxServiceProofs`, `POP3ServerProofs`, `POP3SystemProofs`, `POP3DialogueProofs`, `ConsumerRegistryProofs` | theorems |

Correspondence of state and code:

- `MailStorage`. A record `[emails, emailsToBeDeleted, deleteAll,
  updateAtClose]` is a `FileSystemMailStorage`; a mailbox is a sequence of them.
  Numbers start at 0 as in the code. An email is its file: where the code
  answers with a length, the model answers with the file. `findStorage`'s
  reference parameter is `LocalNumber`, the number minus the counts it skipped.
  A size_t subtraction is an integer subtraction; `MarksSound` is the statement
  that it never goes below zero.
- `Maildrop`. `disk` is the file system, `mailbox` the object, `phase` the
  session; `acked`, `quitAcked` and `removed` are history. Each command is one
  action because one thread handles it; the removal of files is one action per
  file because the process can die in between. Deliveries use unused names.
- `MailboxService`. `pc[s]` is where session `s` is. PASS takes one step for the
  lock (`PassLocks`), one for `logon` (`PassLogsOn`, after which `paths[s]` holds
  the directories), one for each directory (`PassStorage`: listed, or left out
  because it cannot be instantiated) and one for the mailbox with its greeting
  (`PassConnects`); other sessions act in between. The listing of one directory
  is one step. USER, DELE, RSET and the rest are one step, each touching
  shared state (`disk`) once. The code asks `file_size` of every unmarked email of
  every storage before it merges the storages' maps (`SizesRead`), so an email
  that vanished ends the handler even if another one has its number in the
  merged map. `Reads` is a handler that gets its sizes, `Throws` one that does
  not, because a file is gone or the file system cannot examine it: the session is
  `stuck` and keeps its lock, for nobody catches the exception. `Dropped` stands
  for a failed operation; when the last reference goes away is the business of
  `POP3Server`. Every session is one connection and is used once.
- `POP3Server`. `chain[s]` is the session's one outstanding operation: pending
  at the reactor, queued for a thread, in a handler (`handling`, `leaving`) or
  over. `timer[s]` is the wait: `armed`, `fired` (queued), `checked` (between the
  comparison and `socket.cancel()`), `aborted`. `boot[s]` is the progress of the
  accept handler. `cancel()` affects pending operations only (Asio's contract).
  `async_read_until` and `async_write` are composed of parts; between two parts
  nothing is pending. `Referenced` lists who holds a `shared_ptr`; when a handler
  drops the last one the object is `dying` on that thread, then `destroyed`. A
  handler that throws takes its thread with it and leaves the session
  registered. `age` and `left` count ticks; ages above the timeout are equal.
- `POP3Dialogue`. The client's words travel on `wire` and arrive in pieces of any
  size in `request`; a handler runs when there is a line end in it. A line without
  words makes the code read `v[0]` of an empty vector: the model takes any word,
  or the process is gone. Whether a mailbox is busy or a number exists is a
  choice here.
- `POP3Exchange`. `Turn` and `Answer` in `POP3Dialogue` map to it: the client
  has the turn until its line is on the wire, then the server until a reply is
  written, and pieces, buffer and clearing are stutters. `Grant` and `Refuse`
  decide by the words of the whole line and the three variables of the session;
  which error is answered, and whether a number exists or a mailbox is busy, are
  left open, but what can never be refused is said by `Due`. `Fail` is the
  exception of a vanished file.
- `MaildropPromise`. `Maildrop` maps to it: offered is what the listings of the
  login contain, promised is what `acked` says was answered +OK. Such a DELE is `Promise`, RSET is `Withdraw`, the write of QUIT's reply is
  `Commit`; each file the destructors remove is one `Remove`. DELE without a
  number promises nothing here, as the code carries nothing out for it.
- `POP3System` instances the two components over the union of their variables.
  A read handler (`handling`) executes a command of `MailboxService`; a step that
  leaves the session inside PASS keeps the handler running, one that throws is
  `HandlerThrows`, any other one ends in `HandleCommand`, and QUIT after a login
  sets `quit`. The handler of the last write is `QuitWritten` if it succeeded and
  `Dropped` if not. `life = "dying"` is the time of `~POP3Session`: only then can
  the mailbox be destroyed, and only when it is gone the object is.
- `ConsumerDocument`, `ConsumerRegistry`. A document keeps of the JSON text the
  members the code looks at. Names are hashes, as `main` instantiates
  `FileSystemConsumerInfoStorage` with hashed names and passwords; two names may
  have one hash, and a file is named by the hash. An option name that does not
  fit into `compact_string` throws, which ends the process: nobody catches it
  between `refresh` and the end of `main`. `phase` is the process. `refresh`
  lists, takes the mutex, and reads file by file; `addConsumerInfo` holds the
  mutex from `AddOpens` (the stream has emptied the file) to `AddEnds` (the text
  is in it, or was lost: errors of the stream are not looked at). `Find` and
  `CheckPassword`/`TakeStorages` are the two halves of `getConsumerInfo`: the
  second dereferences the iterator after the lock was given up, and reads any
  consumer if the element is no longer there. The one caller of
  `addConsumerInfo`, `dummy_generate_consumers` in `main.cpp`, is commented out;
  the model lets it be called while clients log on, which is what its
  mutex is for. `refresh` is called by the constructor only.
- `LogonDecision`. Known is what is in the cache, typed is `typed`; the decision of
  a thread (`Decided`) is what it has been answered, and while its lookups are
  still going on what the record of its name says of the typed password
  (`Expects`). So `VerifyName` is `LogOn`, the answer's delivery is `Deliver`,
  loading and adding are `Learn`, `refresh` emptying the cache, an exception on
  its way out of `main` and a crash are `Forget`, and `Find`, `CheckPassword` and
  `TakeStorages` are stutters.

External parts (marked in the map): Boost.Asio, the clock, the network, the
delivery agent, the end of the process, an administrator who edits files.

## 3. Runs

| Run | Shows | States |
|---|---|---|
| `maildrop_update` | two directories (3 + 1 files), deliveries, crashes: types, `MarksSound`, `RemovesWhatWasAcknowledged`, `DeletedIsNotServed`, `CountMatchesListing`, `NumbersMatchCount`, refinement `PromiseSpec` | 46,216 |
| `service` | 2 sessions, 2 accounts, one with 2 + 1 files in two directories: types, `LockTableExact`, `UpdateIsAllOrNothing`, `VanishesOnlyOnRequest`, refinement `LeaseSpec`; `BusyOnlyWhileServed`, `CloseCompletes` under fairness | 241,163 |
| `server_safety` | 2 connections, 2 threads, exceptions: types, `RegisteredUntilEnd`, `NoHandlerAfterDestruction`, `ExitLeavesNothing` | 1.35 million |
| `system` | server and mailboxes, 1 connection: `ExitCompletesUpdates`, `LockedForAReason`, `RemovesWhenUnreachable`; `DrainedServerExits` under fairness | 131,688 |
| `registry` | 2 threads, 3 names with 2 hashes, 3 files, crashes and edits: types, `ProvisionedCanLogOn`, `AnswersFromOwnRecord`, refinement `LogonSpec` | 400,427 |
| `dialogue_lockstep` | every line of up to two words of the full vocabulary: types, `AnswersTheLineSent`, `OwnMaildropOnly`, refinement `ExchangeSpec`; `EveryLineIsAnswered` under fairness | 81,965 |
| `dialogue_pipelined` | a client that does not wait: `OwnMaildropOnly`, `ParametersMatchCommands` | 2.8 million |

Runs that end in a counterexample, each a place where the code does something
else than its own comments or messages say:

| Run | The code |
|---|---|
| `maildrop_v_listed_number` | after DELE 0, LIST prints number 1 and LIST 1 answers "no such message" |
| `maildrop_v_delete_all` | DELE without a number deletes nothing at QUIT |
| `service_v_exclusive` | the mailbox is unlocked before its files are removed |
| `server_v_silent` | a timer whose cancel misses is not armed again: the silent client stays |
| `dialogue_v_empty` | an empty line is never answered with "empty line has been sent" |

`service_v_exclusive` and the exceptions belong together: the early unlock lets
a second session list files that vanish, `file_size` throws in its handler, and
its mailbox is locked until the process ends.

The models contain other behaviours a reader may find surprising. They
contradict no statement of the repository sharply enough for a run of their own:

- With two storages a number can denote two emails over time, because the offset
  of the second storage is a sum of current counts (`Mailbox.cpp:21`). LIST then
  prints fewer lines than its header counts, and a repeated DELE n marks another
  email instead of answering "already deleted". `CountMatchesListing` is
  therefore stated per storage.
- A session whose handler threw keeps its mailbox busy until the process ends.
  Its thread is lost to the pool; once every thread is lost no timer runs any
  more, and the sessions that have ended keep their locks and their updates too.
- The directories of an account are not listed at one moment: the previous
  session's removals can fall between two of them.
- A client whose command arrives between the timer's check and its
  `socket.cancel()` is cut off although it has just been active.
- `cancelAll` has no effect on a session whose handler is queued or running.
- Two names with one hash are one consumer with two lock names: both can be
  logged in to the same directories at a time. `UpdateIsAllOrNothing` holds then,
  `VanishesOnlyOnRequest` does not (`OwnDirectories`).
- One document with an option name that is too long keeps the server from
  starting; `ProvisionedCanLogOn` therefore speaks of a process that is up.

Bounds, and why they are enough to meet the interesting cases:

- `File`, `StorageNo`, `HomeOf`: three files in the first directory suffice to
  delete one, keep one and deliver one; a fourth in a second directory makes
  offsets move. `MaxNumber` is the highest position in the listing, and numbers
  outside it occur as soon as a file is missing or marked. The two violations
  need only two files in one directory.
- `Session` in `MailboxService`: two sessions of one account contend for the lock,
  and one can log in while the other is still removing; two sessions of two
  accounts work side by side. Two directories let one storage fail, let removals
  fall between two listings, and let numbers move; with two files in the first
  and one in the second a DELE gives the second storage's email the number of
  one in the first, so that the vanished email can be one that the merged map
  does not contain. Two accounts have disjoint directories here
  (`VanishesOnlyOnRequest` needs it); `UpdatesAreAllOrNothing` is proved without
  that. A third session adds no kind of conflict, for only one session of a name
  is between login and unlock; the theorems cover any number.
- `Session`, `Threads`, `Timeout` in `POP3Server`: two connections on two threads
  let handlers of one session, of two sessions and of the timer overlap, or
  occupy all threads; a timeout of one tick distinguishes activity before, at and
  after it. Sessions are interchangeable, so `server_safety` uses symmetry
  (no liveness is checked there).
- `MaxWords`, `MaxWire` in `POP3Dialogue`: two words are all the parser looks at;
  three items on the wire are a whole line of two words, or the end of one line
  with the beginning of the next.
- `POP3System` has one connection: the two lives of one session meet there, the
  interplay of sessions is the matter of `server_safety` and `service`, and
  liveness needs the smaller instance. With one connection no file vanishes, so
  its exceptions are those of a file the file system cannot examine, and one
  thread of two at most is lost. Therefore no liveness property about a session
  is checked here. `DrainedServerExits` speaks of a server whose chains have
  all ended, which excludes thrown handlers for any number of sessions.
  Two files and numbers 0 and 1 suffice for an update with something left over.
  The safety properties of the run are proved for any number.
- `Thread`, `Name`, `Password`, `FileName`, `Consumer`, `Document` in
  `ConsumerRegistry`: two names share a hash and a third does not; besides the two
  files of the hashes one more can name either consumer. The consumers added are
  one with two storages, one of the same name without any, and another; the
  documents of the editor are none, one that stops the start, and one with a
  number for a path, an unknown type and one option too many. Threads are
  interchangeable, so the run uses symmetry (no liveness is checked there).
- `CHECK_DEADLOCK FALSE` in the service and the dialogue: a session that is over
  does nothing any more, so the system may stop. The server has its explicit
  `Exited`.

Fairness. `MailboxService`: a thread inside PASS or in a destructor goes on
(weak fairness); clients owe nothing. `POP3Server`: the clock ticks, threads in a
handler go on, expired timers fire (weak); a queued handler gets a thread
although threads are idle only now and then, which is the first-in-first-out
queue of the `io_context` (strong). Clients and connections are not fair and
nobody has to type `quit`. `POP3System` takes
the fairness of `POP3Server`, where a handler's step is now a step of its
command: a handler that is inside PASS goes on, and a destructor removes its
files and ends. That a queued handler gets a thread is justified as long as
threads are left, which is so in every behaviour `DrainedServerExits` speaks of.
`POP3Dialogue`: what was sent arrives, handlers run,
written replies complete (weak).

## 4. Proofs

TLAPS checks these for all values of the constants that satisfy the named
assumptions (`MaildropAssumption`, `ServiceAssumption`, `ServerAssumption`,
`SystemAssumption`, `DialogueAssumption`, `DocumentAssumption`,
`RegistryAssumption`: finite or typed sets, distinct special values).
`FilesVanishOnRequest` has one assumption more, `OwnDirectories`, that no two
accounts share a directory: nothing in the code locks a directory, so without it
the property is false.

- `MaildropProofs`: `TypeCorrect`, `MarksAreSound`, `RemovalsAreAcknowledged`,
  `CountsMatchListings`, `NumbersMatch`. Marks alone are not inductive: that the number
  `DeleteEmail` appends lies inside the listing follows from `findStorage` stopping at a count that is at most the
  length of the listing (`FoundNumber`). The
  invariant `IInv` adds to the types and the sound marks of every storage that
  the marked emails are exactly those acknowledged since the last RSET
  (`Promises`), that the update flag of every storage is set exactly after the
  acknowledged QUIT (`Flags`), that no QUIT is acknowledged while the session
  still works (`Unfinished`), and the property itself (`Removals`). It holds
  across crashes because the removals of the destructors are always a part of
  the marks (`UnremovedMarks`, empty when `Closed`).
  `CountsMatchListings` is the lemma `CountOfListing` of `MailStorageProofs`, which
  needs no more than distinct marks inside the listing.
- `NumbersMatch` is about two folds over the storages, one that subtracts counts
  (`findStorage`) and one that adds offsets (LIST). The prover has no induction
  over a predicate, so `Induction` of `MailStorageProofs` states it for a set of
  numbers, proved from the least number outside it (`LeastElement`); a fold is
  the recursive function `CHOOSE`n in `Folds`, which exists by induction over the
  positions (`SumFolds`, `ListFolds`). `CountIsSum` and `ListingIsUnion` then
  give the partial sums and partial listings as plain functions, `OffsetIsSum`
  says that an offset is one of these sums, `SumsGrow` that sound marks keep
  them from decreasing. So at most one storage claims a number (`OneHit`), some
  storage claims every number below the total (`FoundBelowCount`), and without
  marks the listing covers the same numbers with the same emails
  (`UnmarkedListing`).
- `MaildropPromiseProofs`: `MaildropKeepsPromise` and `DeletedStaysUnserved`. The
  steps map one to one with the help of `IInv`, of `Fresh` (a file the
  session has removed does not come back under its name) and of `Distinct` (no
  file is listed twice, in one storage or in two): without it a deletion in one
  storage would leave the same email readable in another.
- `MailboxServiceProofs`: `LockTableIsExact`, `ServiceImplementsLease`,
  `TypeCorrect`, `UpdatesAreAllOrNothing`, `FilesVanishOnRequest`. The table is exactly the names of the sessions that hold a lock object and no two
  hold the same; with it every step maps to `Acquire`, `Release` or a stutter.
  The rest is the invariant of one session (`SessionInv`: sound marks, marks are
  what was acknowledged, flags, removals inside the marks), which the other
  sessions leave alone because all they share is the disk and the table.
  `UpdatesAreAllOrNothing` needs no assumption about which files can be read: a
  DELE counts as acknowledged only if every size its reply needs was read
  (`SizesRead`), and a session for which one was not is stuck and removes nothing.
  `FilesVanishOnRequest` adds to each step of PASS that what a storage lists was
  on the disk when its directory was listed (`ListedBefore`).
- `POP3ServerProofs`: `TypeCorrect`, `RegistryIsExact`, `NoUseAfterDestruction`,
  `ExitIsClean`. `SessionInv` ties the registry, chain, timer, accept handler and
  object of one session together: registered exactly while the chain runs or the
  accept handler has not read yet, alive exactly while referenced. `MainInv` adds
  what `cancelAll` still has to visit and what `Join` has seen.
- `POP3SystemProofs`: `SystemRunsComponents`, `SystemIsSafe`, `ExitIsComplete`,
  `LocksHaveReasons`, `RemovalsAreUnreachable`. Every step of
  the composition is a step or a stutter of each component, so the invariants of
  `POP3ServerProofs` and `MailboxServiceProofs` hold of it (the two modules are
  instanced, not repeated). What they do not say alone is how the two sides of a
  session go together. `Linked`: the mailbox side begins in the constructor and
  is over when the destructor is. `Chained`: only a handler that executes a
  command is inside PASS, both sides remember QUIT until its answer has been
  written, a crashed chain is a stuck mailbox, and after the last operation the
  mailbox is the destructor's. Then a server that has exited has no session left
  that holds a lock or has still to remove something; a lock belongs to a session
  whose chain runs or whose object somebody still references; and removals happen
  when nobody does.
- `ConsumerRegistryProofs`: `TypeCorrect`, `ProvisioningLasts`,
  `LogonsAnswerFromOwnRecord`, `LogonIsAtomic`. The first says no more than
  `TypeOK`: documents, cache and answers stay within the consumers that can be
  added or read from a document, which rests on `StorageRoundTrip` and
  `ConsumerRoundTrip` (what is written is read back). `Provisions` makes the second
  inductive: the file of a provisioned consumer holds it, no other file names it,
  and `refresh` has it in the cache or its file still before it. The third
  holds because nothing but `refresh` takes elements out of the cache, and
  `refresh` runs before the first logon (`Stage`); the mutant `MayRefreshAnyTime`
  shows that it fails as soon as anybody calls `refresh` while the server runs.
  The fourth says more: from `VerifyName` on nothing that others do changes what
  the logon is told (`DecidedKept`, `ExpectsVerdict`), so the three lookups can be
  thought of as one (`StepDecides`); its mutant `VerifyNameTries`, a lookup that
  does not wait for the mutex, passes the third and fails here.
- `POP3DialogueProofs`: `TypeCorrect`, `MaildropIsOwn`, `RepliesMatchLines`,
  `ParametersArePresent`, `DialogueIsExchange`. While
  a client in lockstep waits, buffer and wire are the two parts of its line
  (`OneLineInTransit`), and as the end of a line is not a word, a buffer with an
  end in it is the whole line (`EndIsLast`). `Words`, the parser's split, is a
  recursive function on the positions of the buffer; `WordsExist` and `WordsAre`
  show by `Induction` that there is one and what it returns, `WordsOfLine` that a
  whole line is split into its own words, `ParameterPresent` that what the parser
  lets through carries the parameter its handler takes. With that every step maps
  to a step of `POP3Exchange` (`HandledIsAnswered` for the commands) or to a
  stutter. `DialogueIsExchange` assumes `Lockstep`, as the abstract client does
  not speak before it is answered.

Every safety property and every refinement of the passing runs is a theorem.
Only model-checked is liveness (`BusyOnlyWhileServed`, `CloseCompletes`,
`DrainedServerExits`, `EveryLineIsAnswered`): fairness and `ENABLED` are outside
the prover. Not checked at all is that a session that has ended is released in the
end: exceptions of other sessions can take every thread, and then it is not. What
holds in every case is the safety side, `LockedForAReason` and
`RemovesWhenUnreachable`.

## 5. Not modelled

Contents and sizes of emails, texts of replies and greetings, the console beyond
`quit`, I/O errors other than "this storage failed", "the size of this file cannot
be read", "this document was not written" and an exception that ends the process; data races
inside Asio objects; `compact_string` except for its length check and its hash
converter; members of documents that are neither strings nor numbers, and an
option that is itself called "type". `read_file`, `setDefaultPath` and
`cancelParticular` have no caller; `DummyAuthorizationManager` and the other
instantiations of the registry are not used by `main`; `CreateDefaultImpl` computes
a path. Names with one hash are
modelled in the registry only: `MailboxService` takes an account for its name.

## 6. Plan

1. Done: `MailStorage`, `Maildrop`, `MailboxLease`, `MailboxService`, `POP3Server`,
   `POP3Dialogue`.
2. Done: `MaildropPromise` and the refinement, `POP3System`, `ConsumerDocument`
   and `ConsumerRegistry`, `POP3Exchange`, `LogonDecision` and their refinements, and
   the proofs above,
   which cover every safety property of the runs.
3. Left: `ConsumerRegistry` composed with `MailboxService`, so that the directories of a
   login are those of the record it was checked against and two names of one hash
   lock one directory under two names; `POP3System` with two sessions that contend
   for one account and can take each other's threads.
