--------------------------- MODULE MaildropProofs ---------------------------
(* Proofs about Maildrop, for any number of files and of storages.         *)
EXTENDS Maildrop, MailStorageProofs

(* A storage is a function of the listing chosen at login.                 *)
LEMMA ListingType ==
    ASSUME disk \in SUBSET File, NEW l \in Listings
    PROVE  \A k \in 1 .. StorageNo : l[k] \in Seq(File)
<1>. TAKE k \in 1 .. StorageNo
<1>1. l[k] \in SetToSeqs(Directory(k))
  BY DEF Listings
<1>2. Directory(k) \in SUBSET File /\ IsFiniteSet(Directory(k))
  BY FS_Subset, MaildropAssumption DEF Directory
<1>3. l[k] \in Seq(Directory(k))
  BY <1>1, <1>2, OrderingOf
<1>. QED
  BY <1>2, <1>3

-----------------------------------------------------------------------------
(* The inductive invariant.  Promises ties the history of acknowledged     *)
(* DELEs to the marks, which is what the destructors work from; Flags ties *)
(* the history of the acknowledged QUIT to the flag they look at.  Both    *)
(* are needed: RemovesWhatWasAcknowledged mentions neither.                *)
Promised == {p[2] : p \in acked}

Promises ==
    \A f \in File :
        f \in Promised <=> \E k \in 1 .. StorageNo : f \in MarkedIn(mailbox[k])

Flags == \A k \in 1 .. StorageNo : mailbox[k].updateAtClose = quitAcked

Unfinished == phase \in {"transaction", "quitting"} => ~quitAcked

Removals ==
    /\ removed # {} => quitAcked
    /\ removed \subseteq Promised
    /\ phase = "closed" => removed = (IF quitAcked THEN Promised ELSE {})

IInv ==
    /\ TypeOK
    /\ \A k \in 1 .. StorageNo : SoundMarks(mailbox[k])
    /\ Promises
    /\ Flags
    /\ Unfinished
    /\ Removals

LEMMA ReplyType ==
    ASSUME NEW c \in Commands, NEW a \in Answers, Answer(c, a)
    PROVE  reply' \in [command : Commands, answer : Answers]
  BY DEF Answer

LEMMA InitIInv == Init => IInv
<1>. SUFFICES ASSUME Init PROVE IInv
  OBVIOUS
<1>1. mailbox = [k \in 1 .. StorageNo |-> NewStorage(<< >>)]
  BY DEF Init
<1>2. NewStorage(<< >>) \in Storages(File)
  BY DEF NewStorage, Storages
<1>3. TypeOK
  <2>1. mailbox \in [1 .. StorageNo -> Storages(File)]
    BY <1>1, <1>2
  <2>2. reply \in [command : Commands, answer : Answers]
    BY DEF Init, Answers, Commands
  <2>. QED
    BY <2>1, <2>2 DEF Init, TypeOK, Phases
<1>4. \A k \in 1 .. StorageNo :
        /\ SoundMarks(mailbox[k])
        /\ MarkedIn(mailbox[k]) = {}
        /\ mailbox[k].updateAtClose = FALSE
  BY <1>1 DEF NewStorage, SoundMarks, MarkedIn
<1>. QED
  BY <1>3, <1>4 DEF Init, IInv, Promises, Promised, Flags, Unfinished, Removals

LEMMA LoginIInv == ASSUME IInv, Login PROVE IInv'
<1>1. PICK l \in Listings : mailbox' = [k \in 1 .. StorageNo |-> NewStorage(l[k])]
  BY DEF Login
<1>2. \A k \in 1 .. StorageNo : l[k] \in Seq(File)
  BY ListingType DEF IInv, TypeOK
<1>3. \A k \in 1 .. StorageNo : NewStorage(l[k]) \in Storages(File)
  BY <1>2 DEF NewStorage, Storages
<1>4. TypeOK'
  <2>1. mailbox' \in [1 .. StorageNo -> Storages(File)]
    BY <1>1, <1>3
  <2>2. reply' \in [command : Commands, answer : Answers]
    BY ReplyType DEF Login, Answers, Commands
  <2>. QED
    BY <2>1, <2>2 DEF Login, IInv, TypeOK, Phases
<1>5. \A k \in 1 .. StorageNo :
        /\ SoundMarks(mailbox'[k])
        /\ MarkedIn(mailbox'[k]) = {}
        /\ mailbox'[k].updateAtClose = FALSE
  BY <1>1, <1>2 DEF NewStorage, SoundMarks, MarkedIn
<1>. QED
  BY <1>4, <1>5 DEF Login, IInv, Promises, Promised, Flags, Unfinished, Removals

(* Commands that change nothing but the reply, and the steps that change   *)
(* nothing but the phase or the disk.                                      *)
LEMMA QuietIInv ==
    ASSUME IInv, TypeOK', UNCHANGED <<mailbox, acked, quitAcked, removed>>,
           phase' \in {phase, "quitting", "closing", "crashed"},
           phase' = "quitting" => phase \in {"transaction", "quitting"}
    PROVE  IInv'
  BY DEF IInv, Promises, Promised, Flags, Unfinished, Removals

LEMMA DeleIInv ==
    ASSUME IInv, NEW n \in Number, Dele(n), Readable(mailbox, n),
           mailbox' = DeleteEmail(mailbox, n),
           acked' = acked \cup {<<n, EmailAt(mailbox, n)>>},
           Answer("DELE", "OK")
    PROVE  IInv'
<1>1. /\ mailbox \in [1 .. StorageNo -> Storages(File)]
      /\ n \in Nat
  BY MaildropAssumption DEF IInv, TypeOK, Number
<1>. DEFINE f == EmailAt(mailbox, n)
<1>2. \A k \in DOMAIN mailbox :
         mailbox[k] \in Storages(File) /\ SoundMarks(mailbox[k])
  BY <1>1 DEF IInv
<1>3. /\ f \in File
      /\ mailbox' = [j \in 1 .. StorageNo |-> mailbox'[j]]
      /\ \A j \in 1 .. StorageNo :
            /\ mailbox'[j] \in Storages(File)
            /\ SoundMarks(mailbox'[j])
            /\ mailbox'[j].updateAtClose = mailbox[j].updateAtClose
            /\ MarkedIn(mailbox'[j]) \in {MarkedIn(mailbox[j]),
                                          MarkedIn(mailbox[j]) \cup {f}}
      /\ \E j \in 1 .. StorageNo : f \in MarkedIn(mailbox'[j])
  <2>1. Readable(mailbox, n) /\ mailbox' = DeleteEmail(mailbox, n)
    OBVIOUS
  <2>2. DOMAIN mailbox = 1 .. StorageNo
    BY <1>1
  <2>. DEFINE new == DeleteEmail(mailbox, n)
  <2>3. /\ f \in File
        /\ DOMAIN new = DOMAIN mailbox
        /\ new = [j \in DOMAIN mailbox |-> new[j]]
        /\ \A j \in DOMAIN mailbox :
              /\ new[j] \in Storages(File)
              /\ SoundMarks(new[j])
              /\ new[j].updateAtClose = mailbox[j].updateAtClose
              /\ new[j].emails = mailbox[j].emails
              /\ MarkedIn(new[j]) \in {MarkedIn(mailbox[j]),
                                       MarkedIn(mailbox[j]) \cup {f}}
        /\ \E j \in DOMAIN mailbox : f \in MarkedIn(new[j])
    BY <1>1, <1>2, <2>1, Marking, Zenon
  <2>. HIDE DEF new, f
  <2>. QED
    BY <2>1, <2>2, <2>3 DEF new
<1>5. acked' = acked \cup {<<n, f>>}
  OBVIOUS
<1>6. UNCHANGED <<disk, phase, quitAcked, removed>>
  BY DEF Dele
<1>. HIDE DEF f
<1>7. TypeOK'
  <2>1. mailbox' \in [1 .. StorageNo -> Storages(File)]
    BY <1>3
  <2>2. reply' \in [command : Commands, answer : Answers]
    BY ReplyType DEF Answers, Commands
  <2>3. acked' \in SUBSET (Number \X File)
    BY <1>3, <1>5 DEF IInv, TypeOK
  <2>. QED
    BY <1>6, <2>1, <2>2, <2>3 DEF IInv, TypeOK
<1>9. /\ \A j \in 1 .. StorageNo : SoundMarks(mailbox'[j])
      /\ Flags'
  BY <1>3, <1>6 DEF IInv, Flags
<1>10. Promised' = Promised \cup {f}
  <2>1. \A q : q \in Promised' <=> \E p \in acked \cup {<<n, f>>} : q = p[2]
    BY <1>5 DEF Promised
  <2>2. \A q : q \in Promised <=> \E p \in acked : q = p[2]
    BY DEF Promised
  <2>3. <<n, f>>[2] = f
    OBVIOUS
  <2>. QED
    BY <2>1, <2>2, <2>3
<1>11. Promises'
  BY <1>3, <1>10 DEF IInv, Promises
<1>12. removed \subseteq Promised' /\ phase' # "closed"
  BY <1>6, <1>10 DEF IInv, Removals, Dele
<1>. QED
  BY <1>6, <1>7, <1>9, <1>11, <1>12 DEF IInv, Unfinished, Removals

(* DELE without a number and RSET touch every storage; RSET forgets the    *)
(* marks together with the acknowledgements.                               *)
LEMMA DeleAllIInv == ASSUME IInv, DeleAll PROVE IInv'
<1>1. /\ mailbox' = [k \in 1 .. StorageNo |-> StorageDeleteAll(mailbox[k])]
      /\ UNCHANGED <<disk, phase, acked, quitAcked, removed>>
  BY DEF DeleAll, DeleteEmails, IInv, TypeOK
<1>4. \A k \in 1 .. StorageNo :
        /\ mailbox[k] \in Storages(File)
        /\ mailbox'[k] \in Storages(File)
        /\ SoundMarks(mailbox'[k])
        /\ MarkedIn(mailbox'[k]) = MarkedIn(mailbox[k])
        /\ mailbox'[k].updateAtClose = mailbox[k].updateAtClose
  BY <1>1, DeleteAllKeepsMarks DEF IInv, TypeOK
<1>5. reply' \in [command : Commands, answer : Answers]
  BY ReplyType DEF DeleAll, Answers, Commands
<1>6. mailbox' \in [1 .. StorageNo -> Storages(File)]
  BY <1>1, <1>4
<1>. QED
  BY <1>1, <1>4, <1>5, <1>6
  DEF IInv, TypeOK, Promises, Promised, Flags, Unfinished, Removals

LEMMA RsetIInv == ASSUME IInv, Rset PROVE IInv'
<1>1. /\ mailbox' = [k \in 1 .. StorageNo |-> StorageReset(mailbox[k])]
      /\ UNCHANGED <<disk, phase, quitAcked, removed>>
      /\ acked' = {} /\ phase = "transaction"
  BY DEF Rset, ResetMailbox, IInv, TypeOK
<1>4. \A k \in 1 .. StorageNo :
        /\ mailbox[k] \in Storages(File)
        /\ mailbox'[k] \in Storages(File)
        /\ SoundMarks(mailbox'[k])
        /\ MarkedIn(mailbox'[k]) = {}
        /\ mailbox'[k].updateAtClose = mailbox[k].updateAtClose
  BY <1>1, ResetForgetsMarks DEF IInv, TypeOK
<1>5. reply' \in [command : Commands, answer : Answers]
  BY ReplyType DEF Rset, Answers, Commands
<1>6. mailbox' \in [1 .. StorageNo -> Storages(File)]
  BY <1>1, <1>4
<1>7. removed = {}
  BY <1>1 DEF IInv, Unfinished, Removals
<1>. QED
  BY <1>1, <1>4, <1>5, <1>6, <1>7
  DEF IInv, TypeOK, Promises, Promised, Flags, Unfinished, Removals

(* The acknowledged QUIT sets the flag of every storage.                   *)
LEMMA QuitWrittenIInv == ASSUME IInv, QuitWritten PROVE IInv'
<1>1. /\ mailbox' = [k \in 1 .. StorageNo |-> SetUpdateFlag(mailbox[k])]
      /\ UNCHANGED <<disk, reply, acked, removed>>
      /\ quitAcked' = TRUE /\ phase' = "closing" /\ phase = "quitting"
  BY DEF QuitWritten, SetUpdate, IInv, TypeOK
<1>4. \A k \in 1 .. StorageNo :
        /\ mailbox[k] \in Storages(File)
        /\ mailbox'[k] \in Storages(File)
        /\ SoundMarks(mailbox'[k])
        /\ MarkedIn(mailbox'[k]) = MarkedIn(mailbox[k])
        /\ mailbox'[k].updateAtClose = TRUE
  BY <1>1, FlagKeepsMarks DEF IInv, TypeOK
<1>5. mailbox' \in [1 .. StorageNo -> Storages(File)]
  BY <1>1, <1>4
<1>. QED
  BY <1>1, <1>4, <1>5
  DEF IInv, TypeOK, Phases, Promises, Promised, Flags, Unfinished, Removals

(* The destructors: what is removed was marked, hence promised.            *)
LEMMA RemoveNextIInv == ASSUME IInv, RemoveNext PROVE IInv'
<1>1. PICK k \in RemovingStorages(mailbox, removed) :
         /\ disk' = disk \ {EmailToRemove(mailbox[k], removed)}
         /\ removed' = removed \cup {EmailToRemove(mailbox[k], removed)}
  BY DEF RemoveNext
<1>. DEFINE f == EmailToRemove(mailbox[k], removed)
<1>2. /\ k \in 1 .. StorageNo
      /\ mailbox[k] \in Storages(File)
      /\ UnremovedMarks(mailbox[k], removed) # {}
  BY DEF IInv, TypeOK, RemovingStorages
<1>3. mailbox[k].updateAtClose /\ f \in MarkedIn(mailbox[k])
  BY <1>2, NextToRemove
<1>4. f \in File
  BY <1>2, <1>3, MarkedAreListed DEF IInv
<1>5. f \in Promised /\ quitAcked
  BY <1>2, <1>3, <1>4 DEF IInv, Promises, Flags
<1>. HIDE DEF f
<1>6. UNCHANGED <<mailbox, phase, reply, acked, quitAcked>> /\ phase = "closing"
  BY DEF RemoveNext
<1>7. disk' = disk \ {f} /\ removed' = removed \cup {f}
  BY <1>1 DEF f
<1>. QED
  BY <1>4, <1>5, <1>6, <1>7
  DEF IInv, TypeOK, Promises, Promised, Flags, Unfinished, Removals

(* When nothing is left to remove, everything promised has been removed.   *)
LEMMA ClosedIInv == ASSUME IInv, Closed PROVE IInv'
<1>1. /\ UNCHANGED <<disk, mailbox, reply, acked, quitAcked, removed>>
      /\ phase' = "closed"
      /\ \A k \in 1 .. StorageNo : UnremovedMarks(mailbox[k], removed) = {}
  <2>1. DOMAIN mailbox = 1 .. StorageNo /\ DOMAIN mailbox \in SUBSET Nat
    BY DEF IInv, TypeOK
  <2>2. \A k \in DOMAIN mailbox : UnremovedMarks(mailbox[k], removed) = {}
    BY <2>1, NothingLeft DEF Closed
  <2>. QED
    BY <2>1, <2>2 DEF Closed
<1>2. removed = (IF quitAcked THEN Promised ELSE {})
  <2>1. CASE ~quitAcked
    BY <2>1 DEF IInv, Removals
  <2>2. CASE quitAcked
    <3>1. ASSUME NEW f \in Promised PROVE f \in removed
      <4>1. f \in File
        BY DEF Promised, IInv, TypeOK
      <4>2. PICK k \in 1 .. StorageNo : f \in MarkedIn(mailbox[k])
        BY <3>1, <4>1 DEF IInv, Promises
      <4>3. mailbox[k].updateAtClose /\ UnremovedMarks(mailbox[k], removed) = {}
        BY <1>1, <2>2 DEF IInv, Flags
      <4>. QED
        BY <4>2, <4>3 DEF MarkedIn, UnremovedMarks
    <3>. QED
      BY <2>2, <3>1 DEF IInv, Removals
  <2>. QED
    BY <2>1, <2>2 DEF IInv, TypeOK
<1>. QED
  BY <1>1, <1>2
  DEF IInv, TypeOK, Phases, Promises, Promised, Flags, Unfinished, Removals

LEMMA NextIInv == IInv /\ [Next]_vars => IInv'
<1>. SUFFICES ASSUME IInv, [Next]_vars PROVE IInv'
  OBVIOUS
<1>1. CASE Login
  BY <1>1, LoginIInv
<1>2. ASSUME NEW n \in Number, List(n) PROVE IInv'
  <2>1. reply' \in [command : Commands, answer : Answers]
    BY <1>2, ReplyType DEF List, Answers, Commands
  <2>2. TypeOK'
    BY <1>2, <2>1 DEF List, IInv, TypeOK
  <2>. QED
    BY <1>2, <2>2, QuietIInv DEF List
<1>3. ASSUME NEW n \in Number, Retr(n) PROVE IInv'
  <2>1. reply' \in [command : Commands, answer : Answers]
    <3>1. CASE ~Readable(mailbox, n)
      BY <1>3, <3>1, ReplyType DEF Retr, Answers, Commands
    <3>2. CASE Readable(mailbox, n)
      <4>1. EmailAt(mailbox, n) \in File
        BY <3>2, EmailAtType, MaildropAssumption DEF IInv, TypeOK, Number
      <4>. QED
        BY <1>3, <3>2, <4>1, ReplyType DEF Retr, Answers, Commands
    <3>. QED
      BY <3>1, <3>2
  <2>2. TypeOK'
    BY <1>3, <2>1 DEF Retr, IInv, TypeOK
  <2>. QED
    BY <1>3, <2>2, QuietIInv DEF Retr
<1>4. ASSUME NEW n \in Number, Dele(n) PROVE IInv'
  <2>1. CASE Readable(mailbox, n)
    BY <1>4, <2>1, DeleIInv DEF Dele, Readable
  <2>2. CASE ~Readable(mailbox, n)
    <3>1. /\ UNCHANGED <<disk, mailbox, phase, acked, quitAcked, removed>>
          /\ reply' \in [command : Commands, answer : Answers]
      BY <1>4, <2>2, ReplyType DEF Dele, Readable, Answers, Commands
    <3>2. TypeOK'
      BY <3>1 DEF IInv, TypeOK
    <3>. QED
      BY <3>1, <3>2, QuietIInv
  <2>. QED
    BY <2>1, <2>2
<1>5. CASE Stat
  <2>1. reply' \in [command : Commands, answer : Answers]
    BY <1>5, ReplyType DEF Stat, Answers, Commands
  <2>2. TypeOK'
    BY <1>5, <2>1 DEF Stat, IInv, TypeOK
  <2>. QED
    BY <1>5, <2>2, QuietIInv DEF Stat
<1>6. CASE DeleAll
  BY <1>6, DeleAllIInv
<1>7. CASE Rset
  BY <1>7, RsetIInv
<1>8. CASE Quit
  <2>1. reply' \in [command : Commands, answer : Answers]
    BY <1>8, ReplyType DEF Quit, Answers, Commands
  <2>2. TypeOK'
    BY <1>8, <2>1 DEF Quit, IInv, TypeOK, Phases
  <2>. QED
    BY <1>8, <2>2, QuietIInv DEF Quit
<1>9. CASE QuitWritten
  BY <1>9, QuitWrittenIInv
<1>10. CASE ConnectionLost
  <2>1. TypeOK'
    BY <1>10 DEF ConnectionLost, IInv, TypeOK, Phases
  <2>. QED
    BY <1>10, <2>1, QuietIInv DEF ConnectionLost
<1>11. CASE RemoveNext
  BY <1>11, RemoveNextIInv
<1>12. CASE Closed
  BY <1>12, ClosedIInv
<1>13. CASE Crash
  <2>1. TypeOK'
    BY <1>13 DEF Crash, IInv, TypeOK, Phases
  <2>. QED
    BY <1>13, <2>1, QuietIInv DEF Crash
<1>14. ASSUME NEW f \in File, Deliver(f) PROVE IInv'
  <2>1. TypeOK'
    BY <1>14 DEF Deliver, IInv, TypeOK
  <2>. QED
    BY <1>14, <2>1, QuietIInv DEF Deliver
<1>15. CASE UNCHANGED vars
  BY <1>15 DEF vars, IInv, TypeOK, Promises, Promised, Flags, Unfinished, Removals
<1>. QED
  BY <1>1, <1>2, <1>3, <1>4, <1>5, <1>6, <1>7, <1>8, <1>9, <1>10, <1>11,
     <1>12, <1>13, <1>14, <1>15 DEF Next

(* Every step of a session, of the destructors, of a delivery and every     *)
(* crash preserves the invariant.                                          *)
THEOREM Invariance == Spec => []IInv
  BY InitIInv, NextIInv, PTL DEF Spec

-----------------------------------------------------------------------------
(* Type correctness: a storage only ever holds emails of its listing and   *)
(* marks that are numbers.                                                 *)
THEOREM TypeCorrect == Spec => []TypeOK
<1>1. IInv => TypeOK
  BY DEF IInv
<1>. QED
  BY Invariance, <1>1, PTL

(* No mark is out of range or set twice in any storage of any mailbox, so  *)
(* the size_t subtraction of getEmailsCount cannot wrap and ~FileSystem-   *)
(* MailStorage cannot index past the end.                                  *)
THEOREM MarksAreSound == Spec => []MarksSound
<1>1. IInv => MarksSound
  BY DEF IInv, MarksSound, SoundMarks
<1>. QED
  BY Invariance, <1>1, PTL

(* The update is exactly what was acknowledged, across lost connections    *)
(* and crashes.                                                            *)
THEOREM RemovalsAreAcknowledged == Spec => []RemovesWhatWasAcknowledged
<1>1. IInv => RemovesWhatWasAcknowledged
  BY DEF IInv, Removals, RemovesWhatWasAcknowledged, Promised
<1>. QED
  BY Invariance, <1>1, PTL

(* However it is marked, a storage counts as many emails as it lists.      *)
THEOREM CountsMatchListings == Spec => []CountMatchesListing
<1>1. IInv => CountMatchesListing
  BY CountOfListing DEF IInv, TypeOK, CountMatchesListing
<1>. QED
  BY Invariance, <1>1, PTL

(* The numbers findStorage accepts are those below the total of STAT, and  *)
(* a client that has marked nothing finds under each number that LIST      *)
(* printed the email it was printed for: the offsets LIST adds and the     *)
(* counts findStorage subtracts agree for any number of storages.          *)
THEOREM NumbersMatch == Spec => []NumbersMatchCount
<1>1. IInv => NumbersMatchCount
  <2>. SUFFICES ASSUME IInv PROVE NumbersMatchCount
    OBVIOUS
  <2>1. mailbox \in Seq(Storages(File)) /\ DOMAIN mailbox = 1 .. StorageNo
    BY MaildropAssumption DEF IInv, TypeOK
  <2>2. \A k \in DOMAIN mailbox : SoundMarks(mailbox[k])
    BY <2>1 DEF IInv
  <2>3. \A n \in Number : NumberFound(mailbox, n) <=> n < MailboxCount(mailbox)
    <3>1. Number \subseteq Nat
      BY MaildropAssumption DEF Number
    <3>. QED
      BY <2>1, <2>2, <3>1, FoundBelowCount
  <2>4. Unmarked(mailbox) =>
            /\ DOMAIN MailboxListing(mailbox) = 0 .. MailboxCount(mailbox) - 1
            /\ \A n \in DOMAIN MailboxListing(mailbox) :
                  /\ Readable(mailbox, n)
                  /\ EmailAt(mailbox, n) = MailboxListing(mailbox)[n]
    BY <2>1, UnmarkedListing
  <2>. QED
    BY <2>3, <2>4 DEF NumbersMatchCount, Unmarked
<1>. QED
  BY Invariance, <1>1, PTL

=============================================================================
