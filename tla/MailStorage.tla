---------------------------- MODULE MailStorage ----------------------------
(***************************************************************************)
(* The data of a maildrop as one logged-in session sees it: a storage is   *)
(* the listing of one directory together with the client's marks           *)
(* (MailStorage, FileSystemMailStorage), a mailbox is a sequence of        *)
(* storages (Mailbox).  All definitions are constant operators on records; *)
(* Maildrop and MailboxService keep these records in their variables.      *)
(*                                                                         *)
(* Emails are numbered from 0 as in the code: number n of a storage is     *)
(* st.emails[n + 1].  An email is represented by its file; where the code  *)
(* answers with the length of an email the operators answer with the file. *)
(* size_t subtraction is written on integers: Maildrop's MarksSound says   *)
(* that it never goes below zero, that is, never wraps.                    *)
(***************************************************************************)
EXTENDS Integers, Sequences, SequencesExt

(* FileSystemMailStorage(emails): a fresh storage over a directory listing *)
NewStorage(emails) ==
    [emails            |-> emails,
     emailsToBeDeleted |-> << >>,
     deleteAll         |-> FALSE,
     updateAtClose     |-> FALSE]

(* The storages a client can produce from a set of files.                  *)
Storages(F) ==
    [emails : Seq(F), emailsToBeDeleted : Seq(Nat),
     deleteAll : BOOLEAN, updateAtClose : BOOLEAN]

-----------------------------------------------------------------------------
(* Operations of one storage.                                              *)

\* Mutant: the DELE of all emails is not looked at.
StorageCountWithoutDeleteAll(st) == Len(st.emails) - Len(st.emailsToBeDeleted)

StorageCount(st) ==
    IF st.deleteAll THEN 0 ELSE Len(st.emails) - Len(st.emailsToBeDeleted)

\* Mutant: only the DELE of all emails is looked at.
IsMarkedByDeleteAll(st, n) == st.deleteAll

IsMailMarkedAsDeleted(st, n) ==
    st.deleteAll \/ n \in ToSet(st.emailsToBeDeleted)

StorageDeleteEmail(st, n) ==
    IF IsMailMarkedAsDeleted(st, n)
    THEN st
    ELSE [st EXCEPT !.emailsToBeDeleted = Append(@, n)]

StorageDeleteAll(st) == [st EXCEPT !.deleteAll = TRUE]

\* Mutant: reset() forgets the list.
StorageResetKeepingMarks(st) == [st EXCEPT !.deleteAll = FALSE]

StorageReset(st) == [st EXCEPT !.deleteAll = FALSE, !.emailsToBeDeleted = << >>]

SetUpdateFlag(st) == [st EXCEPT !.updateAtClose = TRUE]

Email(st, n) == st.emails[n + 1]

(* Number -> email for the emails that are not marked; numbers are the     *)
(* positions in the listing, shifted by the offset of the storage.         *)
StorageListing(st, offset) ==
    LET unmarked == {i \in 0 .. Len(st.emails) - 1 : ~IsMailMarkedAsDeleted(st, i)}
    IN  [n \in {i + offset : i \in unmarked} |-> Email(st, n - offset)]

\* Mutant: the destructor removes the files without setUpdateFlag().
UnremovedMarksWithoutUpdate(st, removed) ==
    {i \in DOMAIN st.emailsToBeDeleted :
        Email(st, st.emailsToBeDeleted[i]) \notin removed}

\* Mutant: the destructor's loop does not advance.
UnremovedMarksWithoutProgress(st, removed) ==
    {i \in DOMAIN st.emailsToBeDeleted : st.updateAtClose}

(* Indices into emailsToBeDeleted whose files ~FileSystemMailStorage still  *)
(* has to remove: all of them after setUpdateFlag(), none without it.      *)
(* deleteAll is not looked at.                                             *)
UnremovedMarks(st, removed) ==
    {i \in DOMAIN st.emailsToBeDeleted :
        st.updateAtClose /\ Email(st, st.emailsToBeDeleted[i]) \notin removed}

-----------------------------------------------------------------------------
(* Operations of a mailbox: a sequence of storages.                        *)

MailboxCount(mb) == FoldLeft(LAMBDA sum, st : sum + StorageCount(st), 0, mb)

(* The running offset of the k-th storage, a sum of *current* counts.      *)
Offset(mb, k) == MailboxCount(SubSeq(mb, 1, k - 1))

(* std::map insertion keeps the entry that is already there.  (This is @@  *)
(* of the TLC module, whose definition the proofs could not unfold.)       *)
Inserted(listing, more) ==
    [n \in DOMAIN listing \cup DOMAIN more |->
        IF n \in DOMAIN listing THEN listing[n] ELSE more[n]]

MailboxListing(mb) ==
    FoldLeftDomain(LAMBDA listing, k :
                       Inserted(listing, StorageListing(mb[k], Offset(mb, k))),
                   << >>, mb)

\* Mutant: findStorage compares, but does not subtract what it skips.
LocalNumberUnshifted(mb, n, k) == n

(* findStorage subtracts the counts it skips from its reference argument:  *)
(* LocalNumber is what is left of n when it stops at storage k.            *)
LocalNumber(mb, n, k) == n - Offset(mb, k)

Hits(mb, n) ==
    {k \in DOMAIN mb : LocalNumber(mb, n, k) \in 0 .. StorageCount(mb[k]) - 1}

FindStorage(mb, n) == CHOOSE k \in Hits(mb, n) : TRUE

NumberFound(mb, n) == Hits(mb, n) # {}

(* The email a number denotes; meaningful when NumberFound.                *)
EmailAt(mb, n) ==
    LET k == FindStorage(mb, n) IN Email(mb[k], LocalNumber(mb, n, k))

MarkedAt(mb, n) ==
    LET k == FindStorage(mb, n)
    IN  IsMailMarkedAsDeleted(mb[k], LocalNumber(mb, n, k))

\* Mutant: RETR and LIST do not ask whether the email is marked.
ReadableThoughMarked(mb, n) == NumberFound(mb, n)

(* The number is answered with an email: it is found and is not marked.    *)
Readable(mb, n) == NumberFound(mb, n) /\ ~MarkedAt(mb, n)

DeleteEmail(mb, n) ==
    LET k == FindStorage(mb, n)
    IN  [mb EXCEPT ![k] = StorageDeleteEmail(@, LocalNumber(mb, n, k))]

DeleteEmails(mb) == [k \in DOMAIN mb |-> StorageDeleteAll(mb[k])]

ResetMailbox(mb) == [k \in DOMAIN mb |-> StorageReset(mb[k])]

SetUpdate(mb) == [k \in DOMAIN mb |-> SetUpdateFlag(mb[k])]

(* The storages are destroyed in their order, the marks of one storage are  *)
(* carried out in the order of the list: k is the storage whose turn it is. *)
RemovingStorages(mb, removed) ==
    {k \in DOMAIN mb :
        /\ UnremovedMarks(mb[k], removed) # {}
        /\ \A j \in DOMAIN mb : j < k => UnremovedMarks(mb[j], removed) = {}}

EmailToRemove(st, removed) ==
    Email(st, st.emailsToBeDeleted[Min(UnremovedMarks(st, removed))])

=============================================================================
