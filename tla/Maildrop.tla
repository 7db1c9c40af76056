------------------------------ MODULE Maildrop ------------------------------
(***************************************************************************)
(* One maildrop and the sessions that use it one after the other: login    *)
(* takes a listing of the directories, the transaction commands work on    *)
(* the listing, QUIT and the destructors of the storages carry the marks   *)
(* out on the disk.  Mail is delivered and the process may crash at any    *)
(* time.                                                                   *)
(***************************************************************************)
EXTENDS MailStorage

CONSTANTS
    File,       \* every email file that can be delivered
    StorageNo,  \* number of storages (directories) of the account
    HomeOf,     \* the storage whose directory a file is delivered to
    MaxNumber   \* bound: clients use the email numbers 0 .. MaxNumber

ASSUME MaildropAssumption ==
    /\ IsFiniteSet(File)
    /\ "NoSuchMessage" \notin File
    /\ StorageNo \in Nat \ {0}
    /\ HomeOf \in [File -> 1 .. StorageNo]
    /\ MaxNumber \in Nat

VARIABLES
    disk,       \* the files that exist
    mailbox,    \* Mailbox::storages of the current or last session
    phase,      \* where that session is
    reply,      \* the last reply: the command and what it was answered
    acked,      \* history: <<number, file>> of the +OK'ed DELEs since the last RSET
    quitAcked,  \* history: the reply to QUIT was written to the client
    removed     \* history: the files this session has removed from the disk

vars == <<disk, mailbox, phase, reply, acked, quitAcked, removed>>

Number == 0 .. MaxNumber

(* "quitting": the reply to QUIT is being written; "closing": destructors  *)
(* run; "closed": no session; "crashed": the process died.                 *)
Phases == {"transaction", "quitting", "closing", "closed", "crashed"}

Commands == {"", "PASS", "STAT", "LIST", "RETR", "DELE", "RSET", "QUIT"}

Answers == File \cup {"OK", "NoSuchMessage", "MessageAlreadyDeleted"}

TypeOK ==
    /\ disk \in SUBSET File
    /\ mailbox \in [1 .. StorageNo -> Storages(File)]
    /\ phase \in Phases
    /\ reply \in [command : Commands, answer : Answers]
    /\ acked \in SUBSET (Number \X File)
    /\ quitAcked \in BOOLEAN
    /\ removed \in SUBSET File

-----------------------------------------------------------------------------

Init ==
    /\ disk \in SUBSET File
    /\ mailbox = [k \in 1 .. StorageNo |-> NewStorage(<< >>)]
    /\ phase = "closed"
    /\ reply = [command |-> "", answer |-> "OK"]
    /\ acked = {}
    /\ quitAcked = FALSE
    /\ removed = {}

Answer(cmd, ans) == reply' = [command |-> cmd, answer |-> ans]

(* FileSystemStorageFactory::create: directory_iterator yields the regular *)
(* files in an order of its own.                                           *)
Directory(k) == {f \in disk : HomeOf[f] = k}

Listings ==
    LET orders == [k \in 1 .. StorageNo |-> SetToSeqs(Directory(k))]
    IN  {l \in [1 .. StorageNo -> UNION {orders[k] : k \in 1 .. StorageNo}] :
            \A k \in 1 .. StorageNo : l[k] \in orders[k]}

\* Mutant: the loop over the storages stops one short.
LoginSkipsLastStorage ==
    /\ phase \in {"closed", "crashed"}
    /\ \E l \in Listings : mailbox' = [k \in 1 .. StorageNo - 1 |-> NewStorage(l[k])]
    /\ phase' = "transaction"
    /\ Answer("PASS", "OK")
    /\ acked' = {}
    /\ quitAcked' = FALSE
    /\ removed' = {}
    /\ UNCHANGED disk

Login ==
    /\ phase \in {"closed", "crashed"}
    /\ \E l \in Listings : mailbox' = [k \in 1 .. StorageNo |-> NewStorage(l[k])]
    /\ phase' = "transaction"
    /\ Answer("PASS", "OK")
    /\ acked' = {}
    /\ quitAcked' = FALSE
    /\ removed' = {}
    /\ UNCHANGED disk

(* handleList with a number, and the first half of handleRetr.             *)
List(n) ==
    /\ phase = "transaction"
    /\ Answer("LIST", IF Readable(mailbox, n) THEN "OK" ELSE "NoSuchMessage")
    /\ UNCHANGED <<disk, mailbox, phase, acked, quitAcked, removed>>

(* handleRetr answers with the email that findStorage arrives at.          *)
Retr(n) ==
    /\ phase = "transaction"
    /\ Answer("RETR", IF Readable(mailbox, n) THEN EmailAt(mailbox, n)
                                              ELSE "NoSuchMessage")
    /\ UNCHANGED <<disk, mailbox, phase, acked, quitAcked, removed>>

(* STAT, and LIST without a number: they report MailboxCount and           *)
(* MailboxListing and change nothing.                                      *)
Stat ==
    /\ phase = "transaction"
    /\ Answer("STAT", "OK")
    /\ UNCHANGED <<disk, mailbox, phase, acked, quitAcked, removed>>

Dele(n) ==
    /\ phase = "transaction"
    /\ \/ /\ ~NumberFound(mailbox, n)
          /\ Answer("DELE", "NoSuchMessage")
          /\ UNCHANGED <<mailbox, acked>>
       \/ /\ NumberFound(mailbox, n)
          /\ MarkedAt(mailbox, n)
          /\ Answer("DELE", "MessageAlreadyDeleted")
          /\ UNCHANGED <<mailbox, acked>>
       \/ /\ Readable(mailbox, n)
          /\ mailbox' = DeleteEmail(mailbox, n)
          /\ acked' = acked \cup {<<n, EmailAt(mailbox, n)>>}
          /\ Answer("DELE", "OK")
    /\ UNCHANGED <<disk, phase, quitAcked, removed>>

(* DELE without a number marks everything.                                 *)
DeleAll ==
    /\ phase = "transaction"
    /\ mailbox' = DeleteEmails(mailbox)
    /\ Answer("DELE", "OK")
    /\ UNCHANGED <<disk, phase, acked, quitAcked, removed>>

Rset ==
    /\ phase = "transaction"
    /\ mailbox' = ResetMailbox(mailbox)
    /\ acked' = {}
    /\ Answer("RSET", "OK")
    /\ UNCHANGED <<disk, phase, quitAcked, removed>>

Quit ==
    /\ phase = "transaction"
    /\ phase' = "quitting"
    /\ Answer("QUIT", "OK")
    /\ UNCHANGED <<disk, mailbox, acked, quitAcked, removed>>

(* The write handler after QUIT: only a reply that was written turns the   *)
(* marks into an update.                                                   *)
QuitWritten ==
    /\ phase = "quitting"
    /\ mailbox' = SetUpdate(mailbox)
    /\ quitAcked' = TRUE
    /\ phase' = "closing"
    /\ UNCHANGED <<disk, reply, acked, removed>>

(* A read or a write completes with an error: the session is dropped.      *)
ConnectionLost ==
    /\ phase \in {"transaction", "quitting"}
    /\ phase' = "closing"
    /\ UNCHANGED <<disk, mailbox, reply, acked, quitAcked, removed>>

(* ~FileSystemMailStorage removes one file after the other; `removed'      *)
(* tells how far it has come.                                              *)
RemoveNext ==
    /\ phase = "closing"
    /\ \E k \in RemovingStorages(mailbox, removed) :
          LET f == EmailToRemove(mailbox[k], removed)
          IN  /\ disk' = disk \ {f}
              /\ removed' = removed \cup {f}
    /\ UNCHANGED <<mailbox, phase, reply, acked, quitAcked>>

Closed ==
    /\ phase = "closing"
    /\ RemovingStorages(mailbox, removed) = {}
    /\ phase' = "closed"
    /\ UNCHANGED <<disk, mailbox, reply, acked, quitAcked, removed>>

(* The process dies; whatever was not yet removed stays on the disk.       *)
Crash ==
    /\ phase \notin {"closed", "crashed"}
    /\ phase' = "crashed"
    /\ UNCHANGED <<disk, mailbox, reply, acked, quitAcked, removed>>

(* A delivery agent adds a file under a name nobody is using.              *)
Deliver(f) ==
    /\ f \notin disk \cup removed
    /\ disk' = disk \cup {f}
    /\ UNCHANGED <<mailbox, phase, reply, acked, quitAcked, removed>>

Next ==
    \/ Login
    \/ \E n \in Number : List(n) \/ Retr(n) \/ Dele(n)
    \/ Stat \/ DeleAll \/ Rset \/ Quit
    \/ QuitWritten \/ ConnectionLost
    \/ RemoveNext \/ Closed \/ Crash
    \/ \E f \in File : Deliver(f)

Spec == Init /\ [][Next]_vars

-----------------------------------------------------------------------------
(* The marks of every storage are distinct numbers of its listing, so that *)
(* getEmailsCount's size_t subtraction never wraps and the destructor      *)
(* never indexes past `emails'.  Nothing in MailStorage::deleteEmail       *)
(* checks the number: the guard is findStorage's, on a count that shrinks  *)
(* with every mark.                                                        *)
MarksSound ==
    \A k \in 1 .. StorageNo :
        LET marks == mailbox[k].emailsToBeDeleted
        IN  /\ Len(marks) <= Len(mailbox[k].emails)
            /\ \A i \in DOMAIN marks : marks[i] < Len(mailbox[k].emails)
            /\ \A i, j \in DOMAIN marks : marks[i] = marks[j] => i = j

(* A session removes nothing before its QUIT is acknowledged and never an  *)
(* email whose DELE it did not acknowledge, not even across a crash in the *)
(* middle of the update; a session that ends without crashing has removed  *)
(* every one of them if QUIT was acknowledged and none if it was not.      *)
RemovesWhatWasAcknowledged ==
    LET promised == {p[2] : p \in acked}
    IN  /\ removed # {} => quitAcked
        /\ removed \subseteq promised
        /\ phase = "closed" => removed = (IF quitAcked THEN promised ELSE {})

(* The maildrop implements its promise, where DELE n promises a deletion,  *)
(* RSET withdraws all of them and the written reply to QUIT commits them:  *)
(* however numbers move between storages, a DELE n that is answered +OK    *)
(* deletes an email the session was offered.                               *)
Promise ==
    INSTANCE MaildropPromise
        WITH state    <- CASE phase = "closed"  -> "over"
                           [] phase = "crashed" -> "crashed"
                           [] phase = "closing" /\ quitAcked -> "committed"
                           [] OTHER -> "open",
             offered  <- UNION {ToSet(mailbox[k].emails) : k \in DOMAIN mailbox},
             promised <- {p[2] : p \in acked}

PromiseSpec == Promise!Spec

(* RETR never answers with an email that is marked as deleted (in any      *)
(* storage, whatever number it was marked under).                          *)
DeletedIsNotServed ==
    (phase = "transaction" /\ reply.command = "RETR")
        => reply.answer \notin {p[2] : p \in acked}

(* Each storage counts as many emails as it lists, whatever is marked: the *)
(* count is a difference of two lengths, the listing looks at every mark.  *)
(* STAT's total and the lines of LIST are sums and unions of these.        *)
CountMatchesListing ==
    \A k \in 1 .. StorageNo :
        StorageCount(mailbox[k]) = Cardinality(DOMAIN StorageListing(mailbox[k], 0))

(* findStorage walks through the storages with counts that it subtracts,   *)
(* LIST with offsets that it adds: the numbers it finds are those below    *)
(* the count of STAT, and while nothing is marked LIST prints exactly      *)
(* these, each for the email that RETR answers.                            *)
NumbersMatchCount ==
    LET listing  == MailboxListing(mailbox)
        count    == MailboxCount(mailbox)
        unmarked == \A k \in DOMAIN mailbox :
                       mailbox[k].emailsToBeDeleted = << >> /\ ~mailbox[k].deleteAll
    IN  /\ \A n \in Number : NumberFound(mailbox, n) <=> n < count
        /\ unmarked =>
              /\ DOMAIN listing = 0 .. count - 1
              /\ \A n \in DOMAIN listing :
                    Readable(mailbox, n) /\ EmailAt(mailbox, n) = listing[n]

(* Every number LIST prints is answered by LIST n and RETR n with the      *)
(* email it was printed for.                                               *)
ListedNumberResolves ==
    LET listing == MailboxListing(mailbox)
    IN  \A n \in DOMAIN listing :
            Readable(mailbox, n) /\ EmailAt(mailbox, n) = listing[n]

(* DELE without a number followed by an acknowledged QUIT empties the      *)
(* listing.                                                                *)
DeleteAllIsCarriedOut ==
    (phase = "closed" /\ quitAcked)
        => \A k \in 1 .. StorageNo :
              mailbox[k].deleteAll => ToSet(mailbox[k].emails) \cap disk = {}

=============================================================================
