--------------------------- MODULE MailboxService ---------------------------
(***************************************************************************)
(* Concurrent sessions, the mailbox locks and the disk: MailboxService-    *)
(* Manager with its table of active mailboxes, MailboxLock, the login of a *)
(* session, the commands that read files, and the destruction of a Mailbox *)
(* (its members are destroyed in reverse order: first the lock, then the   *)
(* storages, which remove the files).  When the last reference to a        *)
(* session goes away is POP3Server's business; here it may happen any time *)
(* after the session has been dropped.                                     *)
(***************************************************************************)
EXTENDS MailStorage

CONSTANTS
    Session,    \* sessions; each is one TCP connection and is used once
    Account,    \* registered user names
    NoName,     \* the empty user name of a session without a USER command
    Dir,        \* mail directories
    DirsOf,     \* the "path" options of an account's storages, in order
    File,       \* email files
    HomeOf,     \* the directory of a file
    NoLease,    \* for the lease: what a session without a lock holds
    MaxNumber   \* bound: clients use the email numbers 0 .. MaxNumber

ASSUME ServiceAssumption ==
    /\ IsFiniteSet(File)
    /\ NoName \notin Account
    /\ NoLease \notin Account \cup {NoName}
    /\ DirsOf \in [Account -> Seq(Dir)]
    /\ HomeOf \in [File -> Dir]
    /\ MaxNumber \in Nat

VARIABLES
    disk,               \* the files that exist
    activeMailboxes,    \* MailboxServiceManager::activeMailboxes
    pc,                 \* where each session is
    userName,           \* POP3Session::userName
    paths,              \* the directories PASS has still to list
    mailbox,            \* the storages of POP3Session::mailbox
    acked,              \* history: emails whose DELE was answered +OK since the last RSET
    quitAcked,          \* history: the reply to QUIT was written
    removed             \* history: the files the session has removed

vars == <<disk, activeMailboxes, pc, userName, paths, mailbox, acked, quitAcked, removed>>

Name == Account \cup {NoName}
Number == 0 .. MaxNumber

(* "locked": inside PASS, lock taken; "connecting": password accepted, the  *)
(* directories are listed and the greeting is computed; "stuck": an        *)
(* exception left the handler, the session stays registered for ever;      *)
(* "closing": last reference gone; "unlocked": the mailbox's lock is       *)
(* destroyed, its storages are not.                                        *)
Phases == {"new", "authorization", "locked", "connecting", "transaction",
           "quitting", "stuck", "closing", "unlocked", "gone"}

Holds(s) == pc[s] \in {"locked", "connecting", "transaction", "quitting",
                       "stuck", "closing"}

HasListing(s) == pc[s] \in {"connecting", "transaction", "quitting"}

LoggedIn(s) == pc[s] \in {"transaction", "quitting"}

TypeOK ==
    /\ disk \in SUBSET File
    /\ activeMailboxes \in SUBSET Name
    /\ pc \in [Session -> Phases]
    /\ userName \in [Session -> Name]
    /\ paths \in [Session -> Seq(Dir)]
    /\ mailbox \in [Session -> Seq(Storages(File))]
    /\ acked \in [Session -> SUBSET File]
    /\ quitAcked \in [Session -> BOOLEAN]
    /\ removed \in [Session -> SUBSET File]

-----------------------------------------------------------------------------

Init ==
    /\ disk = File
    /\ activeMailboxes = {}
    /\ pc = [s \in Session |-> "new"]
    /\ userName = [s \in Session |-> NoName]
    /\ paths = [s \in Session |-> << >>]
    /\ mailbox = [s \in Session |-> << >>]
    /\ acked = [s \in Session |-> {}]
    /\ quitAcked = [s \in Session |-> FALSE]
    /\ removed = [s \in Session |-> {}]

Goto(s, p) == pc' = [pc EXCEPT ![s] = p]

Connect(s) ==
    /\ pc[s] = "new"
    /\ Goto(s, "authorization")
    /\ UNCHANGED <<disk, activeMailboxes, userName, paths, mailbox, acked, quitAcked, removed>>

\* Mutant: the name is stored before verifyName has refused it.
UserStoredUnverified(s, a) ==
    /\ pc[s] = "authorization"
    /\ \E name \in {a, NoLease} : userName' = [userName EXCEPT ![s] = name]
    /\ UNCHANGED <<disk, activeMailboxes, pc, paths, mailbox, acked, quitAcked, removed>>

(* USER with a name verifyName accepts; any other name changes nothing.    *)
User(s, a) ==
    /\ pc[s] = "authorization"
    /\ userName' = [userName EXCEPT ![s] = a]
    /\ UNCHANGED <<disk, activeMailboxes, pc, paths, mailbox, acked, quitAcked, removed>>

\* Mutant: the result of the insertion into the table is not looked at.
PassLocksUnchecked(s) ==
    /\ pc[s] = "authorization"
    /\ activeMailboxes' = activeMailboxes \cup {userName[s]}
    /\ Goto(s, "locked")
    /\ UNCHANGED <<disk, userName, paths, mailbox, acked, quitAcked, removed>>

(* PASS, first step: LockMailbox.  If the name is in the table the session *)
(* is told that the mailbox is busy and nothing changes.                   *)
PassLocks(s) ==
    /\ pc[s] = "authorization"
    /\ userName[s] \notin activeMailboxes
    /\ activeMailboxes' = activeMailboxes \cup {userName[s]}
    /\ Goto(s, "locked")
    /\ UNCHANGED <<disk, userName, paths, mailbox, acked, quitAcked, removed>>

\* Mutant: an early return without the destruction of the lock.
PassDeniedKeepsLock(s) ==
    /\ pc[s] = "locked"
    /\ Goto(s, "authorization")
    /\ UNCHANGED <<disk, activeMailboxes, userName, paths, mailbox, acked, quitAcked, removed>>

(* Wrong password or no such consumer; afterwards, no storage configured   *)
(* or none that could be instantiated: the local MailboxLock is destroyed  *)
(* on return.                                                              *)
PassDenied(s) ==
    /\ \/ pc[s] = "locked"
       \/ pc[s] = "connecting" /\ paths[s] = << >> /\ mailbox[s] = << >>
    /\ activeMailboxes' = activeMailboxes \ {userName[s]}
    /\ Goto(s, "authorization")
    /\ UNCHANGED <<disk, userName, paths, mailbox, acked, quitAcked, removed>>

(* PASS, second step: logon accepts the password and returns the storages. *)
PassLogsOn(s) ==
    /\ pc[s] = "locked"
    /\ userName[s] # NoName
    /\ paths' = [paths EXCEPT ![s] = DirsOf[userName[s]]]
    /\ Goto(s, "connecting")
    /\ UNCHANGED <<disk, activeMailboxes, userName, mailbox, acked, quitAcked, removed>>

\* Mutant: the iteration also enters the other directories.
ListingsOfEverything(dir) == SetToSeqs(disk)

(* The iteration over a directory visits its files in any order.           *)
Listings(dir) == SetToSeqs({f \in disk : HomeOf[f] = dir})

(* PASS goes on: the directories are listed one after the other; a storage *)
(* that cannot be instantiated is skipped.                                 *)
PassStorage(s) ==
    /\ pc[s] = "connecting"
    /\ paths[s] # << >>
    /\ paths' = [paths EXCEPT ![s] = Tail(@)]
    /\ \/ UNCHANGED mailbox
       \/ \E l \in Listings(Head(paths[s])) :
             mailbox' = [mailbox EXCEPT ![s] = Append(@, NewStorage(l))]
    /\ UNCHANGED <<disk, activeMailboxes, pc, userName, acked, quitAcked, removed>>

(* getEmailsLengths asks for the size of every email that is not marked,   *)
(* in every storage, before the storages' maps are merged.                 *)
SizesRead(mb) == UNION {Range(StorageListing(mb[k], 0)) : k \in DOMAIN mb}

(* file_size throws for a file that is gone, and may throw for one the     *)
(* file system cannot examine; nothing catches it.                         *)
Reads(s, files) == files \subseteq disk /\ Goto(s, "transaction")

Throws(s, files) == files # {} /\ Goto(s, "stuck")

(* PASS, last step: the lock moves into the mailbox, which the session     *)
(* keeps, and putMailboxInfoToReponse adds up the sizes.                   *)
PassConnects(s) ==
    /\ pc[s] = "connecting"
    /\ paths[s] = << >> /\ mailbox[s] # << >>
    /\ Reads(s, SizesRead(mailbox[s])) \/ Throws(s, SizesRead(mailbox[s]))
    /\ UNCHANGED <<disk, activeMailboxes, userName, paths, mailbox, acked, quitAcked, removed>>

(* STAT, and LIST without a number.                                        *)
Stat(s) ==
    /\ pc[s] = "transaction"
    /\ Reads(s, SizesRead(mailbox[s])) \/ Throws(s, SizesRead(mailbox[s]))
    /\ UNCHANGED <<disk, activeMailboxes, userName, paths, mailbox, acked, quitAcked, removed>>

(* RETR, and LIST with a number.                                           *)
Retr(s, n) ==
    /\ pc[s] = "transaction"
    /\ Readable(mailbox[s], n)
    /\ LET email == {EmailAt(mailbox[s], n)} IN Reads(s, email) \/ Throws(s, email)
    /\ UNCHANGED <<disk, activeMailboxes, userName, paths, mailbox, acked, quitAcked, removed>>

(* A successful DELE answers with the size of what is left, so it reads    *)
(* the sizes after it has set the mark; +OK is sent only if that works.    *)
Dele(s, n) ==
    LET mb == DeleteEmail(mailbox[s], n)
    IN  /\ pc[s] = "transaction"
        /\ Readable(mailbox[s], n)
        /\ mailbox' = [mailbox EXCEPT ![s] = mb]
        /\ \/ /\ Reads(s, SizesRead(mb))
              /\ acked' = [acked EXCEPT ![s] = @ \cup {EmailAt(mailbox[s], n)}]
           \/ Throws(s, SizesRead(mb)) /\ UNCHANGED acked
        /\ UNCHANGED <<disk, activeMailboxes, userName, paths, quitAcked, removed>>

DeleAll(s) ==
    /\ pc[s] = "transaction"
    /\ mailbox' = [mailbox EXCEPT ![s] = DeleteEmails(@)]
    /\ UNCHANGED <<disk, activeMailboxes, pc, userName, paths, acked, quitAcked, removed>>

Rset(s) ==
    LET mb == ResetMailbox(mailbox[s])
    IN  /\ pc[s] = "transaction"
        /\ mailbox' = [mailbox EXCEPT ![s] = mb]
        /\ acked' = [acked EXCEPT ![s] = {}]
        /\ Reads(s, SizesRead(mb)) \/ Throws(s, SizesRead(mb))
        /\ UNCHANGED <<disk, activeMailboxes, userName, paths, quitAcked, removed>>

Quit(s) ==
    /\ pc[s] = "transaction"
    /\ Goto(s, "quitting")
    /\ UNCHANGED <<disk, activeMailboxes, userName, paths, mailbox, acked, quitAcked, removed>>

QuitWritten(s) ==
    /\ pc[s] = "quitting"
    /\ mailbox' = [mailbox EXCEPT ![s] = SetUpdate(@)]
    /\ quitAcked' = [quitAcked EXCEPT ![s] = TRUE]
    /\ Goto(s, "closing")
    /\ UNCHANGED <<disk, activeMailboxes, userName, paths, acked, removed>>

(* The connection fails or is cancelled; also QUIT before a login.         *)
Dropped(s) ==
    /\ \/ pc[s] = "authorization" /\ Goto(s, "gone")
       \/ pc[s] \in {"transaction", "quitting"} /\ Goto(s, "closing")
    /\ UNCHANGED <<disk, activeMailboxes, userName, paths, mailbox, acked, quitAcked, removed>>

(* ~Mailbox: `lock' is the last member, so it is destroyed first.          *)
Unlock(s) ==
    /\ pc[s] = "closing"
    /\ activeMailboxes' = activeMailboxes \ {userName[s]}
    /\ Goto(s, "unlocked")
    /\ UNCHANGED <<disk, userName, paths, mailbox, acked, quitAcked, removed>>

RemoveNext(s) ==
    /\ pc[s] = "unlocked"
    /\ \E k \in RemovingStorages(mailbox[s], removed[s]) :
          LET f == EmailToRemove(mailbox[s][k], removed[s])
          IN  /\ disk' = disk \ {f}
              /\ removed' = [removed EXCEPT ![s] = @ \cup {f}]
    /\ UNCHANGED <<activeMailboxes, pc, userName, paths, mailbox, acked, quitAcked>>

Gone(s) ==
    /\ pc[s] = "unlocked"
    /\ RemovingStorages(mailbox[s], removed[s]) = {}
    /\ Goto(s, "gone")
    /\ UNCHANGED <<disk, activeMailboxes, userName, paths, mailbox, acked, quitAcked, removed>>

SessionStep(s) ==
    \/ Connect(s)
    \/ \E a \in Account : User(s, a)
    \/ PassLocks(s) \/ PassDenied(s) \/ PassLogsOn(s) \/ PassStorage(s) \/ PassConnects(s)
    \/ Stat(s) \/ DeleAll(s) \/ Rset(s)
    \/ \E n \in Number : Retr(s, n) \/ Dele(s, n)
    \/ Quit(s) \/ QuitWritten(s) \/ Dropped(s)
    \/ Unlock(s) \/ RemoveNext(s) \/ Gone(s)

Next == \E s \in Session : SessionStep(s)

Spec == Init /\ [][Next]_vars

(* A thread that is inside PASS or inside a destructor goes on; clients    *)
(* and their connections owe nothing.                                      *)
Fairness ==
    \A s \in Session :
        /\ WF_vars(PassDenied(s) \/ PassLogsOn(s) \/ PassStorage(s) \/ PassConnects(s))
        /\ WF_vars(Unlock(s))
        /\ WF_vars(RemoveNext(s) \/ Gone(s))

FairSpec == Spec /\ Fairness

-----------------------------------------------------------------------------
(* The table of active mailboxes lists exactly the names of the sessions   *)
(* that hold a lock object, and no name twice: no path through PASS or     *)
(* through the destructors leaks a lock, releases it twice or releases     *)
(* somebody else's.                                                        *)
LockTableExact ==
    /\ activeMailboxes = {userName[s] : s \in {t \in Session : Holds(t)}}
    /\ \A s, t \in Session : Holds(s) /\ Holds(t) /\ s # t => userName[s] # userName[t]

(* The lock implements the lease.                                          *)
Lease == INSTANCE MailboxLease
            WITH lease <- [s \in Session |-> IF Holds(s) THEN userName[s] ELSE NoLease]

LeaseSpec == Lease!Spec

(* A file a session has in its listing disappears only because another     *)
(* client of the same account had its DELE and its QUIT acknowledged.      *)
VanishesOnlyOnRequest ==
    \A s \in Session : HasListing(s) =>
        \A k \in DOMAIN mailbox[s] : \A f \in ToSet(mailbox[s][k].emails) \ disk :
            \E t \in Session \ {s} :
                /\ userName[t] = userName[s]
                /\ quitAcked[t] /\ f \in acked[t] /\ f \in removed[t]

(* When a session is over, exactly the deletions it acknowledged have      *)
(* been made if its QUIT was acknowledged, and none if it was not.         *)
UpdateIsAllOrNothing ==
    \A s \in Session :
        /\ removed[s] \subseteq acked[s]
        /\ removed[s] # {} => quitAcked[s]
        /\ pc[s] = "gone" => removed[s] = (IF quitAcked[s] THEN acked[s] ELSE {})

(* A mailbox is not busy for ever unless a client that has logged in keeps *)
(* it or its session has thrown: a login, denied on whichever of its paths,*)
(* and a session that is over give the name back.                          *)
BusyOnlyWhileServed ==
    \A a \in Name : a \in activeMailboxes ~>
        \/ a \notin activeMailboxes
        \/ \E s \in Session : userName[s] = a /\ (LoggedIn(s) \/ pc[s] = "stuck")

(* A mailbox that is being closed ends up with its update made.            *)
CloseCompletes == \A s \in Session : pc[s] = "closing" ~> pc[s] = "gone"

(* A mailbox belongs to one session at a time: while a session is logged   *)
(* in no other session has emails of the same account left to remove.      *)
ExclusiveMaildrop ==
    \A s, t \in Session :
        (s # t /\ LoggedIn(s) /\ userName[t] = userName[s] /\ pc[t] = "unlocked")
            => RemovingStorages(mailbox[t], removed[t]) = {}

=============================================================================
