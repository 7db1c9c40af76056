------------------------ MODULE MaildropPromiseProofs ------------------------
(* Maildrop implements MaildropPromise, for any files and storages.        *)
EXTENDS MaildropProofs

(* The refinement mapping of Maildrop's Promise.                           *)
State == CASE phase = "closed"  -> "over"
           [] phase = "crashed" -> "crashed"
           [] phase = "closing" /\ quitAcked -> "committed"
           [] OTHER -> "open"

Offered == UNION {ToSet(mailbox[k].emails) : k \in DOMAIN mailbox}

Mapped == <<disk, State, Offered, Promised>>

(* A file the session has removed does not come back under the same name.  *)
Fresh == removed \cap disk = {}

(* An email is in one listing only, once.                                  *)
Distinct ==
    \A k \in 1 .. StorageNo :
        \A i \in DOMAIN mailbox[k].emails :
            /\ HomeOf[mailbox[k].emails[i]] = k
            /\ \A j \in DOMAIN mailbox[k].emails :
                  mailbox[k].emails[i] = mailbox[k].emails[j] => i = j

PromiseInv == IInv /\ Fresh /\ Distinct

LEMMA InitPromise == Init => Fresh /\ Promise!Init
<1>. SUFFICES ASSUME Init PROVE Fresh /\ Promise!Init
  OBVIOUS
<1>1. Offered = {}
  <2>1. \A k \in DOMAIN mailbox : mailbox[k].emails = << >>
    BY DEF Init, NewStorage
  <2>2. ToSet(<< >>) = {}
    BY DEF ToSet
  <2>. QED
    BY <2>1, <2>2, Zenon DEF Offered
<1>2. State = "over" /\ Promised = {}
  BY DEF Init, State, Promised
<1>. QED
  BY <1>1, <1>2, Zenon DEF Init, Fresh, Promise!Init, State, Offered, Promised

LEMMA StepFresh == ASSUME IInv, Fresh, [Next]_vars PROVE Fresh'
<1>1. CASE UNCHANGED <<disk, removed>>
  BY <1>1 DEF Fresh
<1>2. CASE RemoveNext
  BY <1>2 DEF Fresh, RemoveNext
<1>3. CASE Login
  BY <1>3 DEF Fresh, Login
<1>4. ASSUME NEW f \in File, Deliver(f) PROVE Fresh'
  BY <1>4 DEF Fresh, Deliver
<1>. QED
  BY <1>1, <1>2, <1>3, <1>4
  DEF Next, List, Retr, Dele, Stat, DeleAll, Rset, Quit, QuitWritten,
      ConnectionLost, Closed, Crash, vars

-----------------------------------------------------------------------------
(* A listing of a finite set contains each of its elements.                *)
LEMMA ListingIsComplete ==
    ASSUME NEW S, IsFiniteSet(S), NEW l \in SetToSeqs(S)
    PROVE  ToSet(l) = S
<1>. DEFINE n == Cardinality(S)
<1>1. n \in Nat
  BY FS_CardinalityType
<1>2. l \in [1 .. n -> S] /\ \A i, j \in 1 .. n : i # j => l[i] # l[j]
  BY DEF SetToSeqs
<1>. HIDE DEF n
<1>3. l \in Injection(1 .. n, S)
  BY <1>2 DEF Injection, IsInjective
<1>4. Cardinality(1 .. n) = n
  BY <1>1, FS_Interval
<1>5. l \in Surjection(1 .. n, S)
  BY <1>3, <1>4, FS_Injection DEF n
<1>. QED
  BY <1>2, <1>5 DEF Surjection, ToSet

(* A login offers every email that exists: each is in one of the           *)
(* directories that are listed.                                            *)
LEMMA LoginOffers == ASSUME IInv, Login PROVE Offered' = disk
<1>1. PICK l \in Listings : mailbox' = [k \in 1 .. StorageNo |-> NewStorage(l[k])]
  BY DEF Login
<1>2. ASSUME NEW k \in 1 .. StorageNo PROVE ToSet(mailbox'[k].emails) = Directory(k)
  <2>1. l[k] \in SetToSeqs(Directory(k))
    BY DEF Listings
  <2>2. IsFiniteSet(Directory(k))
    BY FS_Subset, MaildropAssumption DEF Directory, IInv, TypeOK
  <2>. QED
    BY <1>1, <2>1, <2>2, ListingIsComplete DEF NewStorage
<1>3. \A f \in disk : HomeOf[f] \in 1 .. StorageNo /\ f \in Directory(HomeOf[f])
  BY MaildropAssumption DEF Directory, IInv, TypeOK
<1>4. DOMAIN mailbox' = 1 .. StorageNo
  BY <1>1
<1>5. Offered' = UNION {ToSet(mailbox'[k].emails) : k \in 1 .. StorageNo}
  BY <1>4, Zenon DEF Offered
<1>. QED
  BY <1>2, <1>3, <1>5 DEF Directory

(* A DELE that is answered +OK marks an email of the listing of one        *)
(* storage and leaves the listings as they are.                            *)
LEMMA DeleteEmailListed ==
    ASSUME NEW mb \in [1 .. StorageNo -> Storages(File)], NEW n \in Nat,
           Readable(mb, n)
    PROVE  /\ \E k \in 1 .. StorageNo : EmailAt(mb, n) \in ToSet(mb[k].emails)
           /\ DOMAIN DeleteEmail(mb, n) = 1 .. StorageNo
           /\ \A k \in 1 .. StorageNo : DeleteEmail(mb, n)[k].emails = mb[k].emails
<1>1. PICK k \in DOMAIN mb, m \in Nat :
         /\ m < Len(mb[k].emails)
         /\ Len(mb[k].emailsToBeDeleted) < Len(mb[k].emails)
         /\ \A i \in DOMAIN mb[k].emailsToBeDeleted :
               mb[k].emailsToBeDeleted[i] # m
         /\ EmailAt(mb, n) = Email(mb[k], m)
         /\ DeleteEmail(mb, n) =
               [mb EXCEPT ![k] = [mb[k] EXCEPT !.emailsToBeDeleted =
                                    Append(mb[k].emailsToBeDeleted, m)]]
  BY DeleteEmailMarks, Zenon
<1>2. mb[k].emails \in Seq(File)
  BY DEF Storages
<1>3. m + 1 \in DOMAIN mb[k].emails
  BY <1>1, <1>2
<1>4. EmailAt(mb, n) \in ToSet(mb[k].emails)
  BY <1>1, <1>3, Zenon DEF ToSet, Email
<1>. DEFINE new == [mb[k] EXCEPT !.emailsToBeDeleted =
                      Append(mb[k].emailsToBeDeleted, m)]
<1>5. new.emails = mb[k].emails
  BY DEF Storages
<1>6. DeleteEmail(mb, n) = [mb EXCEPT ![k] = new]
  BY <1>1
<1>. HIDE DEF new
<1>. QED
  BY <1>4, <1>5, <1>6

(* Commands work on the listing of the login.                              *)
LEMMA StepListings ==
    ASSUME IInv, [Next]_vars, ~Login
    PROVE  /\ DOMAIN mailbox' = DOMAIN mailbox
           /\ \A k \in DOMAIN mailbox : mailbox'[k].emails = mailbox[k].emails
<1>. DEFINE Same(mb) == /\ DOMAIN mb = DOMAIN mailbox
                        /\ \A k \in DOMAIN mailbox : mb[k].emails = mailbox[k].emails
<1>. SUFFICES Same(mailbox')
  OBVIOUS
<1>2. mailbox \in [1 .. StorageNo -> Storages(File)]
  BY DEF IInv, TypeOK
<1>3. CASE UNCHANGED mailbox
  BY <1>3
<1>4. ASSUME NEW n \in Number, Dele(n) PROVE Same(mailbox')
  <2>1. CASE Readable(mailbox, n) /\ mailbox' = DeleteEmail(mailbox, n)
    BY <1>2, <2>1, DeleteEmailListed, MaildropAssumption DEF Number
  <2>. QED
    BY <1>3, <1>4, <2>1 DEF Dele, Readable
<1>5. CASE DeleAll
  BY <1>2, <1>5 DEF DeleAll, DeleteEmails, StorageDeleteAll, Storages
<1>6. CASE Rset
  BY <1>2, <1>6 DEF Rset, ResetMailbox, StorageReset, Storages
<1>7. CASE QuitWritten
  BY <1>2, <1>7 DEF QuitWritten, SetUpdate, SetUpdateFlag, Storages
<1>. QED
  BY <1>3, <1>4, <1>5, <1>6, <1>7
  DEF Next, List, Retr, Stat, Quit, ConnectionLost, RemoveNext, Closed, Crash,
      Deliver, vars

LEMMA StepOffers ==
    ASSUME IInv, [Next]_vars, ~Login PROVE Offered' = Offered
BY StepListings DEF Offered

-----------------------------------------------------------------------------
(* The directories are disjoint, and each is listed without repetitions.   *)
LEMMA InitDistinct == Init => Distinct
<1>. SUFFICES ASSUME Init PROVE Distinct
  OBVIOUS
<1>1. \A k \in 1 .. StorageNo : mailbox[k].emails = << >>
  BY DEF Init, NewStorage
<1>2. DOMAIN << >> = {}
  OBVIOUS
<1>. QED
  BY <1>1, <1>2, Zenon DEF Distinct

LEMMA StepDistinct == ASSUME IInv, Distinct, [Next]_vars PROVE Distinct'
<1>1. CASE ~Login
  <2>1. mailbox \in [1 .. StorageNo -> Storages(File)]
    BY DEF IInv, TypeOK
  <2>. QED
    BY <1>1, <2>1, StepListings DEF Distinct
<1>2. CASE Login
  <2>1. PICK l \in Listings : mailbox' = [k \in 1 .. StorageNo |-> NewStorage(l[k])]
    BY <1>2 DEF Login
  <2>2. ASSUME NEW k \in 1 .. StorageNo
        PROVE  /\ \A i \in DOMAIN l[k] : HomeOf[l[k][i]] = k
               /\ \A i, j \in DOMAIN l[k] : l[k][i] = l[k][j] => i = j
    <3>1. l[k] \in SetToSeqs(Directory(k))
      BY DEF Listings
    <3>2. /\ l[k] \in [1 .. Cardinality(Directory(k)) -> Directory(k)]
          /\ \A i, j \in 1 .. Cardinality(Directory(k)) : i # j => l[k][i] # l[k][j]
      BY <3>1 DEF SetToSeqs
    <3>. QED
      BY <3>2 DEF Directory
  <2>3. \A k \in 1 .. StorageNo : mailbox'[k].emails = l[k]
    BY <2>1 DEF NewStorage
  <2>. QED
    BY <2>2, <2>3 DEF Distinct
<1>. QED
  BY <1>1, <1>2

(* What can be read or deleted has not been promised: its mark would be on *)
(* the same number of the same storage.                                    *)
LEMMA ReadableIsNotPromised ==
    ASSUME IInv, Distinct, NEW n \in Number, Readable(mailbox, n)
    PROVE  EmailAt(mailbox, n) \notin Promised
<1>0. /\ mailbox \in [1 .. StorageNo -> Storages(File)] /\ n \in Nat
      /\ DOMAIN mailbox = 1 .. StorageNo
      /\ \A k \in DOMAIN mailbox : mailbox[k] \in Storages(File)
  BY MaildropAssumption DEF IInv, TypeOK, Number
<1>1. PICK k \in DOMAIN mailbox, m \in Nat :
         /\ m < Len(mailbox[k].emails)
         /\ Len(mailbox[k].emailsToBeDeleted) < Len(mailbox[k].emails)
         /\ \A i \in DOMAIN mailbox[k].emailsToBeDeleted :
               mailbox[k].emailsToBeDeleted[i] # m
         /\ EmailAt(mailbox, n) = Email(mailbox[k], m)
         /\ DeleteEmail(mailbox, n) =
               [mailbox EXCEPT ![k] = [mailbox[k] EXCEPT !.emailsToBeDeleted =
                                         Append(mailbox[k].emailsToBeDeleted, m)]]
  BY <1>0, DeleteEmailMarks, Zenon
<1>2. ASSUME NEW j \in 1 .. StorageNo
      PROVE  /\ mailbox[j].emails \in Seq(File)
             /\ mailbox[j].emailsToBeDeleted \in Seq(Nat)
             /\ SoundMarks(mailbox[j])
  <2>1. mailbox[j] \in Storages(File)
    BY <1>0
  <2>2. SoundMarks(mailbox[j])
    BY DEF IInv
  <2>. QED
    BY <2>1, <2>2 DEF Storages
<1>3. m + 1 \in DOMAIN mailbox[k].emails /\ EmailAt(mailbox, n) = mailbox[k].emails[m + 1]
  <2>1. mailbox[k].emails \in Seq(File)
    BY <1>0, <1>2
  <2>. QED
    BY <1>1, <2>1 DEF Email
<1>4. SUFFICES ASSUME EmailAt(mailbox, n) \in Promised PROVE FALSE
  OBVIOUS
<1>5. EmailAt(mailbox, n) \in File
  BY <1>0, EmailAtType
<1>6. PICK j \in 1 .. StorageNo : EmailAt(mailbox, n) \in MarkedIn(mailbox[j])
  BY <1>4, <1>5 DEF IInv, Promises
<1>7. PICK i \in DOMAIN mailbox[j].emailsToBeDeleted :
         EmailAt(mailbox, n) = mailbox[j].emails[mailbox[j].emailsToBeDeleted[i] + 1]
  BY <1>6 DEF MarkedIn, Email
<1>8. mailbox[j].emailsToBeDeleted[i] + 1 \in DOMAIN mailbox[j].emails
  <2>. DEFINE d == mailbox[j].emailsToBeDeleted[i]
              e == mailbox[j].emails
  <2>1. d \in Nat /\ e \in Seq(File)
    BY <1>2, <1>7
  <2>2. d < Len(e)
    BY <1>2, <1>7 DEF SoundMarks
  <2>. HIDE DEF d, e
  <2>3. d + 1 \in DOMAIN e
    BY <2>1, <2>2
  <2>. QED
    BY <2>3 DEF d, e
<1>. DEFINE here == mailbox[j].emailsToBeDeleted[i] + 1
            there == m + 1
<1>9. /\ here \in DOMAIN mailbox[j].emails /\ there \in DOMAIN mailbox[k].emails
      /\ mailbox[j].emails[here] = mailbox[k].emails[there]
      /\ k \in 1 .. StorageNo
  BY <1>0, <1>3, <1>7, <1>8
<1>. HIDE DEF here, there
<1>10. j = k /\ here = there
  <2>1. HomeOf[mailbox[j].emails[here]] = j /\ HomeOf[mailbox[k].emails[there]] = k
    BY <1>9 DEF Distinct
  <2>2. j = k
    BY <1>9, <2>1
  <2>. QED
    BY <1>9, <2>2 DEF Distinct
<1>11. mailbox[k].emailsToBeDeleted[i] \in Nat /\ i \in DOMAIN mailbox[k].emailsToBeDeleted
  BY <1>2, <1>7, <1>10
<1>12. mailbox[k].emailsToBeDeleted[i] = m
  BY <1>10, <1>11 DEF here, there
<1>. QED
  BY <1>1, <1>11, <1>12

(* A successful DELE promises one more email of the listing.               *)
LEMMA DelePromises ==
    ASSUME IInv, Distinct, NEW n \in Number, Dele(n) PROVE [Promise!Next]_Mapped
<1>0. Offered' = Offered
  BY StepOffers DEF Next, Dele, Login
<1>1. phase = "transaction" /\ UNCHANGED <<disk, phase, quitAcked>>
  BY DEF Dele
<1>2. State = "open" /\ State' = "open"
  BY <1>1 DEF State
<1>3. CASE UNCHANGED acked
  BY <1>0, <1>1, <1>2, <1>3 DEF Mapped, Promised
<1>4. CASE Readable(mailbox, n) /\ acked' = acked \cup {<<n, EmailAt(mailbox, n)>>}
  <2>. DEFINE f == EmailAt(mailbox, n)
  <2>1. mailbox \in [1 .. StorageNo -> Storages(File)] /\ n \in Nat
    BY MaildropAssumption DEF IInv, TypeOK, Number
  <2>2. f \in Offered
    BY <1>4, <2>1, DeleteEmailListed DEF Offered
  <2>4. f \notin Promised
    BY <1>4, ReadableIsNotPromised
  <2>. HIDE DEF f
  <2>3. Promised' = Promised \cup {f}
    <3>1. \A q : q \in Promised' <=> \E p \in acked \cup {<<n, f>>} : q = p[2]
      BY <1>4 DEF Promised, f
    <3>2. \A q : q \in Promised <=> \E p \in acked : q = p[2]
      BY DEF Promised
    <3>3. <<n, f>>[2] = f
      OBVIOUS
    <3>. QED
      BY <3>1, <3>2, <3>3
  <2>5. UNCHANGED <<disk, State, Offered>>
    BY <1>0, <1>1, <1>2
  <2>6. \E g \in Offered \ Promised : Promised' = Promised \cup {g}
    BY <2>2, <2>3, <2>4
  <2>7. Promise!Promise
    BY <1>2, <2>5, <2>6, Zenon DEF Promise!Promise, State, Offered, Promised
  <2>. QED
    BY <2>7 DEF Promise!Next
<1>. QED
  BY <1>3, <1>4 DEF Dele

(* Every step of the maildrop is a step of the promise or a stutter.       *)
LEMMA StepPromise ==
    ASSUME PromiseInv, [Next]_vars PROVE [Promise!Next]_Mapped
<1>. USE DEF PromiseInv
<1>1. CASE Login
  <2>1. State \in {"over", "crashed"} /\ State' = "open"
    BY <1>1 DEF Login, State
  <2>2. Promised' = {} /\ UNCHANGED disk
    BY <1>1 DEF Login, Promised
  <2>3. Offered' = disk
    BY <1>1, LoginOffers
  <2>4. Promise!Open
    BY <2>1, <2>2, <2>3, Zenon DEF Promise!Open, State, Offered, Promised
  <2>. QED
    BY <2>4 DEF Promise!Next
<1>2. ASSUME NEW n \in Number, Dele(n) PROVE [Promise!Next]_Mapped
  BY <1>2, DelePromises
<1>. SUFFICES ASSUME ~Login PROVE [Promise!Next]_Mapped
  BY <1>1
<1>3. Offered' = Offered
  BY StepOffers
<1>4. CASE UNCHANGED <<disk, phase, acked, quitAcked>>
  BY <1>3, <1>4 DEF Mapped, State, Promised
<1>5. CASE Rset
  <2>1. State = "open" /\ UNCHANGED <<disk, State>> /\ Promised' = {}
    BY <1>5 DEF Rset, State, Promised
  <2>2. Promise!Withdraw
    BY <1>3, <2>1, Zenon DEF Promise!Withdraw, State, Offered, Promised
  <2>. QED
    BY <2>2 DEF Promise!Next
<1>6. CASE Quit
  <2>1. State = "open" /\ State' = "open" /\ UNCHANGED <<disk, Promised>>
    BY <1>6 DEF Quit, State, Promised
  <2>. QED
    BY <1>3, <2>1 DEF Mapped
<1>7. CASE QuitWritten
  <2>1. State = "open" /\ State' = "committed" /\ UNCHANGED <<disk, Promised>>
    BY <1>7 DEF QuitWritten, State, Promised
  <2>2. Promise!Commit
    BY <1>3, <2>1, Zenon DEF Promise!Commit, State, Offered, Promised
  <2>. QED
    BY <2>2 DEF Promise!Next
<1>8. CASE ConnectionLost
  <2>1. State = "open" /\ State' = "open" /\ UNCHANGED <<disk, Promised>>
    BY <1>8 DEF ConnectionLost, State, Promised, IInv, Unfinished
  <2>. QED
    BY <1>3, <2>1 DEF Mapped
<1>9. CASE RemoveNext
  <2>1. PICK k \in RemovingStorages(mailbox, removed) :
           /\ disk' = disk \ {EmailToRemove(mailbox[k], removed)}
           /\ removed' = removed \cup {EmailToRemove(mailbox[k], removed)}
    BY <1>9 DEF RemoveNext
  <2>2. EmailToRemove(mailbox[k], removed) \in removed'
    BY <2>1
  <2>3. removed' \subseteq Promised' /\ quitAcked'
    BY <1>9, <2>2, RemoveNextIInv DEF IInv, Removals
  <2>4. phase = "closing" /\ UNCHANGED <<phase, acked, quitAcked>>
    BY <1>9 DEF RemoveNext
  <2>5. \E f \in Promised : disk' = disk \ {f}
    BY <2>1, <2>2, <2>3, <2>4 DEF Promised
  <2>6. State = "committed" /\ UNCHANGED <<State, Promised>>
    BY <2>3, <2>4 DEF State, Promised
  <2>7. Promise!Remove
    BY <1>3, <2>5, <2>6, Zenon DEF Promise!Remove, State, Offered, Promised
  <2>. QED
    BY <2>7 DEF Promise!Next
<1>10. CASE Closed
  <2>1. State' = "over" /\ UNCHANGED <<disk, Promised>>
    BY <1>10 DEF Closed, State, Promised
  <2>2. State = IF quitAcked THEN "committed" ELSE "open"
    BY <1>10 DEF Closed, State
  <2>3. quitAcked => Promised \cap disk = {}
    <3>1. removed' = (IF quitAcked' THEN Promised' ELSE {})
      BY <1>10, ClosedIInv DEF Closed, IInv, Removals
    <3>. QED
      BY <1>10, <3>1 DEF Closed, Promised, Fresh
  <2>4. State = "open" \/ (State = "committed" /\ Promised \cap disk = {})
    BY <2>2, <2>3
  <2>5. Promise!Close
    BY <1>3, <2>1, <2>4, Zenon DEF Promise!Close, State, Offered, Promised
  <2>. QED
    BY <2>5 DEF Promise!Next
<1>11. CASE Crash
  <2>1. State \in {"open", "committed"} /\ State' = "crashed"
    BY <1>11 DEF Crash, State, IInv, TypeOK, Phases
  <2>2. UNCHANGED <<disk, Promised>>
    BY <1>11 DEF Crash, Promised
  <2>3. Promise!Crash
    BY <1>3, <2>1, <2>2, Zenon DEF Promise!Crash, State, Offered, Promised
  <2>. QED
    BY <2>3 DEF Promise!Next
<1>12. ASSUME NEW f \in File, Deliver(f) PROVE [Promise!Next]_Mapped
  <2>1. f \in File \ disk /\ disk' = disk \cup {f} /\ UNCHANGED <<State, Promised>>
    BY <1>12 DEF Deliver, State, Promised
  <2>2. Promise!Deliver
    BY <1>3, <2>1, Zenon DEF Promise!Deliver, State, Offered, Promised
  <2>. QED
    BY <2>2 DEF Promise!Next
<1>. QED
  BY <1>2, <1>4, <1>5, <1>6, <1>7, <1>8, <1>9, <1>10, <1>11, <1>12
  DEF Next, List, Retr, Stat, DeleAll, vars

LEMMA PromiseInvariance == Spec => []PromiseInv
<1>1. Init => PromiseInv
  BY InitIInv, InitPromise, InitDistinct DEF PromiseInv
<1>2. PromiseInv /\ [Next]_vars => PromiseInv'
  BY NextIInv, StepFresh, StepDistinct DEF PromiseInv
<1>. QED
  BY <1>1, <1>2, PTL DEF Spec

(* Whatever the client sends, wherever the process dies and whichever way  *)
(* numbers move, the maildrop keeps its promise: only committed deletions  *)
(* are made, and all of them before the session is over.                   *)
THEOREM MaildropKeepsPromise == Spec => PromiseSpec
<1>1. Init => Promise!Init
  BY InitPromise
<1>2. PromiseInv /\ [Next]_vars => [Promise!Next]_Mapped
  BY StepPromise
<1>. QED
  BY PromiseInvariance, <1>1, <1>2, PTL
  DEF Spec, PromiseSpec, Promise!Spec, Promise!vars, Mapped, State, Offered, Promised

(* No number RETR accepts denotes an email the client has deleted, not     *)
(* even in another storage or under another number.                        *)
THEOREM DeletedStaysUnserved == Spec => []DeletedIsNotServed
<1>1. Init => DeletedIsNotServed
  BY DEF Init, DeletedIsNotServed
<1>2. ASSUME PromiseInv, DeletedIsNotServed, [Next]_vars PROVE DeletedIsNotServed'
  <2>1. IInv /\ Distinct
    BY <1>2 DEF PromiseInv
  <2>2. CASE UNCHANGED <<reply, acked>> /\ (phase' = phase \/ phase' # "transaction")
    BY <1>2, <2>2 DEF DeletedIsNotServed
  <2>3. CASE reply'.command # "RETR"
    BY <2>3 DEF DeletedIsNotServed
  <2>4. ASSUME NEW n \in Number, Retr(n) PROVE DeletedIsNotServed'
    <3>1. UNCHANGED acked
      BY <2>4 DEF Retr
    <3>2. CASE Readable(mailbox, n)
      <4>1. EmailAt(mailbox, n) \notin Promised
        BY <2>1, <3>2, ReadableIsNotPromised
      <4>2. reply'.answer = EmailAt(mailbox, n)
        BY <2>4, <3>2 DEF Retr, Answer
      <4>. QED
        BY <3>1, <4>1, <4>2 DEF DeletedIsNotServed, Promised
    <3>3. CASE ~Readable(mailbox, n)
      <4>1. reply'.answer = "NoSuchMessage"
        BY <2>4, <3>3 DEF Retr, Answer
      <4>2. Promised \subseteq File
        BY <2>1 DEF IInv, TypeOK, Promised
      <4>. QED
        BY <3>1, <4>1, <4>2, MaildropAssumption DEF DeletedIsNotServed, Promised
    <3>. QED
      BY <3>2, <3>3
  <2>. QED
    BY <1>2, <2>2, <2>3, <2>4
    DEF Next, Login, List, Dele, Stat, DeleAll, Rset, Quit, QuitWritten, ConnectionLost,
        RemoveNext, Closed, Crash, Deliver, Answer, vars
<1>. QED
  BY PromiseInvariance, <1>1, <1>2, PTL DEF Spec

=============================================================================
