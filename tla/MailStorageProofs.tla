------------------------- MODULE MailStorageProofs -------------------------
(* What the operations of storages and mailboxes do to the marks of the    *)
(* client, for storages over any set of files.                             *)
EXTENDS MailStorage, FiniteSetTheorems, WellFoundedInduction, TLAPS

(* A nonempty set of numbers has a least element, which is its Min.        *)
LEMMA LeastElement ==
    ASSUME NEW S \in SUBSET Nat, S # {}
    PROVE  /\ Min(S) \in S
           /\ \A x \in S : Min(S) <= x
<1>. DEFINE R == OpToRel(<, Nat)
<1>1. IsWellFoundedOn(R, Nat)
  BY NatLessThanWellFounded
<1>2. \A x, y \in Nat : x < y => <<x, y>> \in R
  BY DEF OpToRel
<1>. HIDE DEF R
<1>3. S \subseteq Nat /\ S # {}
  OBVIOUS
<1>4. PICK m \in S : \A y \in S : ~ (<<y, m>> \in R)
  BY <1>1, <1>3, WFMin
<1>5. ASSUME NEW y \in S PROVE m <= y
  <2>1. m \in Nat /\ y \in Nat
    BY <1>3
  <2>2. ~ (<<y, m>> \in R)
    BY <1>4
  <2>3. ~ (y < m)
    BY <1>2, <2>1, <2>2
  <2>. QED
    BY <2>1, <2>3
<1>. QED
  BY <1>5 DEF Min

(* A number that is found denotes an email inside the listing of the       *)
(* storage where findStorage stops.                                        *)
LEMMA FoundNumber ==
    ASSUME NEW F, NEW mb, \A k \in DOMAIN mb : mb[k] \in Storages(F),
           NEW n \in Nat, NumberFound(mb, n)
    PROVE  LET k == FindStorage(mb, n)
               m == LocalNumber(mb, n, k)
           IN  /\ k \in DOMAIN mb
               /\ m \in Nat
               /\ m < Len(mb[k].emails)
               /\ Len(mb[k].emailsToBeDeleted) < Len(mb[k].emails)
<1>. DEFINE k == FindStorage(mb, n)
            m == LocalNumber(mb, n, k)
            emailsNo == Len(mb[k].emails)
            marksNo  == Len(mb[k].emailsToBeDeleted)
<1>1. k \in Hits(mb, n)
  BY DEF NumberFound, FindStorage
<1>2. k \in DOMAIN mb /\ m \in 0 .. StorageCount(mb[k]) - 1
  BY <1>1 DEF Hits
<1>3. mb[k] \in Storages(F)
  BY <1>2
<1>. HIDE DEF k, m
<1>4. emailsNo \in Nat /\ marksNo \in Nat
  BY <1>3 DEF Storages
<1>5. StorageCount(mb[k]) = IF mb[k].deleteAll THEN 0 ELSE emailsNo - marksNo
  BY DEF StorageCount
<1>. HIDE DEF emailsNo, marksNo
<1>6. ~mb[k].deleteAll /\ m \in 0 .. emailsNo - marksNo - 1
  BY <1>2, <1>5
<1>7. m \in Nat /\ m < emailsNo /\ marksNo < emailsNo
  BY <1>4, <1>6
<1>. QED
  BY <1>2, <1>7, Zenon DEF k, m, emailsNo, marksNo

(* What a successful DELE does to the mailbox: one storage gets one more   *)
(* mark, on a number of its listing that had none.                         *)
LEMMA DeleteEmailMarks ==
    ASSUME NEW F, NEW mb, \A k \in DOMAIN mb : mb[k] \in Storages(F),
           NEW n \in Nat, Readable(mb, n)
    PROVE  \E k \in DOMAIN mb, m \in Nat :
              /\ m < Len(mb[k].emails)
              /\ Len(mb[k].emailsToBeDeleted) < Len(mb[k].emails)
              /\ \A i \in DOMAIN mb[k].emailsToBeDeleted :
                    mb[k].emailsToBeDeleted[i] # m
              /\ EmailAt(mb, n) = Email(mb[k], m)
              /\ DeleteEmail(mb, n) =
                    [mb EXCEPT ![k] = [mb[k] EXCEPT !.emailsToBeDeleted =
                                         Append(mb[k].emailsToBeDeleted, m)]]
<1>. DEFINE k == FindStorage(mb, n)
            m == LocalNumber(mb, n, k)
<1>1. NumberFound(mb, n) /\ ~IsMailMarkedAsDeleted(mb[k], m)
  BY DEF Readable, MarkedAt
<1>2. /\ k \in DOMAIN mb
      /\ m \in Nat
      /\ m < Len(mb[k].emails)
      /\ Len(mb[k].emailsToBeDeleted) < Len(mb[k].emails)
  BY <1>1, FoundNumber
<1>3. /\ EmailAt(mb, n) = Email(mb[k], m)
      /\ DeleteEmail(mb, n) = [mb EXCEPT ![k] = StorageDeleteEmail(mb[k], m)]
  BY <1>2, Zenon DEF EmailAt, DeleteEmail
<1>. HIDE DEF k, m
<1>4. StorageDeleteEmail(mb[k], m) =
        [mb[k] EXCEPT !.emailsToBeDeleted = Append(mb[k].emailsToBeDeleted, m)]
  BY <1>1 DEF StorageDeleteEmail
<1>5. \A i \in DOMAIN mb[k].emailsToBeDeleted : mb[k].emailsToBeDeleted[i] # m
  BY <1>1 DEF IsMailMarkedAsDeleted, ToSet
<1>6. DeleteEmail(mb, n) =
        [mb EXCEPT ![k] = [mb[k] EXCEPT !.emailsToBeDeleted =
                             Append(mb[k].emailsToBeDeleted, m)]]
  BY <1>3, <1>4, Zenon
<1>. QED
  BY <1>2, <1>3, <1>5, <1>6, Zenon

(* The email a number that is found and not marked denotes is an email.    *)
LEMMA EmailAtType ==
    ASSUME NEW F, NEW mb, \A k \in DOMAIN mb : mb[k] \in Storages(F),
           NEW n \in Nat, Readable(mb, n)
    PROVE  EmailAt(mb, n) \in F
<1>1. PICK k \in DOMAIN mb, m \in Nat :
         /\ m < Len(mb[k].emails)
         /\ Len(mb[k].emailsToBeDeleted) < Len(mb[k].emails)
         /\ \A i \in DOMAIN mb[k].emailsToBeDeleted :
               mb[k].emailsToBeDeleted[i] # m
         /\ EmailAt(mb, n) = Email(mb[k], m)
         /\ DeleteEmail(mb, n) =
               [mb EXCEPT ![k] = [mb[k] EXCEPT !.emailsToBeDeleted =
                                    Append(mb[k].emailsToBeDeleted, m)]]
  BY DeleteEmailMarks, Zenon
<1>2. mb[k].emails \in Seq(F)
  BY DEF Storages
<1>. QED
  BY <1>1, <1>2 DEF Email

(* The marks of one storage: the conjuncts of MarksSound, and the emails   *)
(* they stand for.                                                         *)
SoundMarks(st) ==
    /\ Len(st.emailsToBeDeleted) <= Len(st.emails)
    /\ \A i \in DOMAIN st.emailsToBeDeleted :
          st.emailsToBeDeleted[i] < Len(st.emails)
    /\ \A i, j \in DOMAIN st.emailsToBeDeleted :
          st.emailsToBeDeleted[i] = st.emailsToBeDeleted[j] => i = j

MarkedIn(st) ==
    {Email(st, st.emailsToBeDeleted[i]) : i \in DOMAIN st.emailsToBeDeleted}

LEMMA MarkOne ==
    ASSUME NEW F, NEW st \in Storages(F), SoundMarks(st), NEW m \in Nat,
           m < Len(st.emails),
           Len(st.emailsToBeDeleted) < Len(st.emails),
           \A i \in DOMAIN st.emailsToBeDeleted : st.emailsToBeDeleted[i] # m
    PROVE  LET new == [st EXCEPT !.emailsToBeDeleted = Append(st.emailsToBeDeleted, m)]
           IN  /\ new \in Storages(F)
               /\ SoundMarks(new)
               /\ new.updateAtClose = st.updateAtClose
               /\ MarkedIn(new) = MarkedIn(st) \cup {Email(st, m)}
               /\ Email(st, m) \in F
<1>. DEFINE marks == st.emailsToBeDeleted
            longer == Append(marks, m)
            new == [st EXCEPT !.emailsToBeDeleted = longer]
<1>1. st.emails \in Seq(F) /\ marks \in Seq(Nat)
  BY DEF Storages
<1>2. /\ new.emails = st.emails
      /\ new.emailsToBeDeleted = longer
      /\ new.updateAtClose = st.updateAtClose
  BY DEF Storages
<1>3. /\ longer \in Seq(Nat)
      /\ Len(longer) = Len(marks) + 1
      /\ DOMAIN longer = DOMAIN marks \cup {Len(marks) + 1}
      /\ \A i \in DOMAIN marks : longer[i] = marks[i]
      /\ longer[Len(marks) + 1] = m
      /\ DOMAIN marks = 1 .. Len(marks)
      /\ Len(marks) \in Nat
  BY <1>1
<1>4. Len(st.emails) \in Nat
  BY <1>1
<1>5. new \in Storages(F)
  <2>. HIDE DEF longer
  <2>. QED
    BY <1>3 DEF Storages
<1>6. SoundMarks(new)
  <2>1. Len(longer) <= Len(st.emails)
    BY <1>3, <1>4
  <2>2. \A i \in DOMAIN longer : longer[i] < Len(st.emails)
    BY <1>3 DEF SoundMarks
  <2>3. \A i, j \in DOMAIN longer : longer[i] = longer[j] => i = j
    BY <1>3 DEF SoundMarks
  <2>. QED
    BY <1>2, <2>1, <2>2, <2>3 DEF SoundMarks
<1>7. MarkedIn(new) = MarkedIn(st) \cup {Email(st, m)}
  BY <1>2, <1>3 DEF MarkedIn, Email
<1>8. Email(st, m) \in F
  BY <1>1 DEF Email
<1>. QED
  BY <1>2, <1>5, <1>6, <1>7, <1>8

(* A successful DELE as a whole: the email it names is marked, in one       *)
(* storage, and nothing else of the mailbox changes.                       *)
LEMMA Marking ==
    ASSUME NEW F, NEW mb,
           \A k \in DOMAIN mb : mb[k] \in Storages(F) /\ SoundMarks(mb[k]),
           NEW n \in Nat, Readable(mb, n)
    PROVE  LET new == DeleteEmail(mb, n)
               f   == EmailAt(mb, n)
           IN  /\ f \in F
               /\ DOMAIN new = DOMAIN mb
               /\ new = [j \in DOMAIN mb |-> new[j]]
               /\ \A j \in DOMAIN mb :
                     /\ new[j] \in Storages(F)
                     /\ SoundMarks(new[j])
                     /\ new[j].updateAtClose = mb[j].updateAtClose
                     /\ new[j].emails = mb[j].emails
                     /\ MarkedIn(new[j]) \in {MarkedIn(mb[j]), MarkedIn(mb[j]) \cup {f}}
               /\ \E j \in DOMAIN mb : f \in MarkedIn(new[j])
<1>. DEFINE f == EmailAt(mb, n)
<1>1. PICK k \in DOMAIN mb, m \in Nat :
         /\ m < Len(mb[k].emails)
         /\ Len(mb[k].emailsToBeDeleted) < Len(mb[k].emails)
         /\ \A i \in DOMAIN mb[k].emailsToBeDeleted :
               mb[k].emailsToBeDeleted[i] # m
         /\ EmailAt(mb, n) = Email(mb[k], m)
         /\ DeleteEmail(mb, n) =
               [mb EXCEPT ![k] = [mb[k] EXCEPT !.emailsToBeDeleted =
                                    Append(mb[k].emailsToBeDeleted, m)]]
  BY DeleteEmailMarks, Zenon
<1>. DEFINE st == [mb[k] EXCEPT !.emailsToBeDeleted =
                     Append(mb[k].emailsToBeDeleted, m)]
<1>2. mb[k] \in Storages(F) /\ SoundMarks(mb[k])
  OBVIOUS
<1>3. /\ st \in Storages(F)
      /\ SoundMarks(st)
      /\ st.updateAtClose = mb[k].updateAtClose
      /\ MarkedIn(st) = MarkedIn(mb[k]) \cup {f}
      /\ f \in F
  <2>1. /\ st \in Storages(F)
        /\ SoundMarks(st)
        /\ st.updateAtClose = mb[k].updateAtClose
        /\ MarkedIn(st) = MarkedIn(mb[k]) \cup {Email(mb[k], m)}
        /\ Email(mb[k], m) \in F
    BY <1>1, <1>2, MarkOne
  <2>2. f = Email(mb[k], m)
    BY <1>1
  <2>. QED
    BY <2>1, <2>2, Zenon
<1>4. st.emails = mb[k].emails
  BY <1>2 DEF Storages
<1>5. DeleteEmail(mb, n) = [mb EXCEPT ![k] = st]
  BY <1>1
<1>. HIDE DEF st, f
<1>. DEFINE new == DeleteEmail(mb, n)
<1>6. /\ DOMAIN new = DOMAIN mb
      /\ new = [j \in DOMAIN mb |-> new[j]]
      /\ \A j \in DOMAIN mb : new[j] = IF j = k THEN st ELSE mb[j]
  BY <1>5
<1>. HIDE DEF new
<1>7. \A j \in DOMAIN mb :
        /\ new[j] \in Storages(F)
        /\ SoundMarks(new[j])
        /\ new[j].updateAtClose = mb[j].updateAtClose
        /\ new[j].emails = mb[j].emails
        /\ MarkedIn(new[j]) \in {MarkedIn(mb[j]), MarkedIn(mb[j]) \cup {f}}
  BY <1>3, <1>4, <1>6
<1>8. f \in MarkedIn(new[k])
  BY <1>3, <1>6
<1>. QED
  BY <1>3, <1>6, <1>7, <1>8 DEF new, f

(* The operations on whole storages: what they leave alone of a storage    *)
(* and of its marks.                                                       *)
LEMMA FreshStorage ==
    ASSUME NEW F, NEW emails \in Seq(F)
    PROVE  LET st == NewStorage(emails)
           IN  /\ st \in Storages(F)
               /\ SoundMarks(st)
               /\ MarkedIn(st) = {}
               /\ st.updateAtClose = FALSE
               /\ st.emails = emails
  BY DEF NewStorage, Storages, SoundMarks, MarkedIn

LEMMA DeleteAllKeepsMarks ==
    ASSUME NEW F, NEW st \in Storages(F), SoundMarks(st)
    PROVE  LET new == StorageDeleteAll(st)
           IN  /\ new \in Storages(F)
               /\ SoundMarks(new)
               /\ MarkedIn(new) = MarkedIn(st)
               /\ new.updateAtClose = st.updateAtClose
               /\ new.emails = st.emails
<1>1. StorageDeleteAll(st) \in Storages(F)
  BY DEF StorageDeleteAll, Storages
<1>2. /\ StorageDeleteAll(st).emails = st.emails
      /\ StorageDeleteAll(st).emailsToBeDeleted = st.emailsToBeDeleted
      /\ StorageDeleteAll(st).updateAtClose = st.updateAtClose
  BY DEF StorageDeleteAll, Storages
<1>. QED
  BY <1>1, <1>2 DEF SoundMarks, MarkedIn, Email

LEMMA ResetForgetsMarks ==
    ASSUME NEW F, NEW st \in Storages(F)
    PROVE  LET new == StorageReset(st)
           IN  /\ new \in Storages(F)
               /\ SoundMarks(new)
               /\ MarkedIn(new) = {}
               /\ new.updateAtClose = st.updateAtClose
               /\ new.emails = st.emails
<1>1. StorageReset(st) \in Storages(F)
  <2>. DEFINE none == << >>
  <2>1. none \in Seq(Nat)
    OBVIOUS
  <2>. HIDE DEF none
  <2>2. [st EXCEPT !.deleteAll = FALSE, !.emailsToBeDeleted = none] \in Storages(F)
    BY <2>1 DEF Storages
  <2>. QED
    BY <2>2 DEF StorageReset, none
<1>2. /\ StorageReset(st).emails = st.emails
      /\ StorageReset(st).emailsToBeDeleted = << >>
      /\ StorageReset(st).updateAtClose = st.updateAtClose
      /\ Len(st.emails) \in Nat
  BY DEF StorageReset, Storages
<1>. QED
  BY <1>1, <1>2 DEF SoundMarks, MarkedIn

LEMMA FlagKeepsMarks ==
    ASSUME NEW F, NEW st \in Storages(F), SoundMarks(st)
    PROVE  LET new == SetUpdateFlag(st)
           IN  /\ new \in Storages(F)
               /\ SoundMarks(new)
               /\ MarkedIn(new) = MarkedIn(st)
               /\ new.updateAtClose = TRUE
               /\ new.emails = st.emails
<1>1. SetUpdateFlag(st) \in Storages(F)
  BY DEF SetUpdateFlag, Storages
<1>2. /\ SetUpdateFlag(st).emails = st.emails
      /\ SetUpdateFlag(st).emailsToBeDeleted = st.emailsToBeDeleted
      /\ SetUpdateFlag(st).updateAtClose = TRUE
  BY DEF SetUpdateFlag, Storages
<1>. QED
  BY <1>1, <1>2 DEF SoundMarks, MarkedIn, Email

(* The files that stand behind the marks are files of the listing.         *)
LEMMA MarkedAreListed ==
    ASSUME NEW F, NEW st \in Storages(F), SoundMarks(st)
    PROVE  MarkedIn(st) \subseteq ToSet(st.emails) /\ MarkedIn(st) \subseteq F
<1>1. st.emails \in Seq(F) /\ st.emailsToBeDeleted \in Seq(Nat)
  BY DEF Storages
<1>2. ASSUME NEW i \in DOMAIN st.emailsToBeDeleted
      PROVE  st.emailsToBeDeleted[i] + 1 \in DOMAIN st.emails
  BY <1>1 DEF SoundMarks
<1>3. ASSUME NEW j \in DOMAIN st.emails PROVE st.emails[j] \in F
  BY <1>1
<1>. QED
  BY <1>2, <1>3 DEF MarkedIn, Email, ToSet

(* An ordering of a finite set of files lists files of that set.           *)
LEMMA OrderingOf ==
    ASSUME NEW S, IsFiniteSet(S), NEW l \in SetToSeqs(S)
    PROVE  l \in Seq(S) /\ ToSet(l) \subseteq S
<1>1. Cardinality(S) \in Nat
  BY FS_CardinalityType
<1>2. l \in [1 .. Cardinality(S) -> S]
  BY DEF SetToSeqs
<1>. QED
  BY <1>1, <1>2 DEF ToSet

(* No storage has its turn in the destructor only when none has anything   *)
(* left to remove.                                                         *)
LEMMA NothingLeft ==
    ASSUME NEW mb, DOMAIN mb \in SUBSET Nat, NEW gone,
           RemovingStorages(mb, gone) = {}
    PROVE  \A k \in DOMAIN mb : UnremovedMarks(mb[k], gone) = {}
<1>. DEFINE Left == {k \in DOMAIN mb : UnremovedMarks(mb[k], gone) # {}}
<1>. SUFFICES ASSUME Left # {} PROVE FALSE
  OBVIOUS
<1>1. Left \in SUBSET Nat
  OBVIOUS
<1>2. Min(Left) \in Left /\ \A x \in Left : Min(Left) <= x
  BY <1>1, LeastElement
<1>. DEFINE k == Min(Left)
<1>3. ASSUME NEW j \in DOMAIN mb, j < k PROVE j \notin Left
  <2>. SUFFICES ASSUME j \in Left PROVE FALSE
    OBVIOUS
  <2>1. k <= j /\ k \in Nat
    BY <1>1, <1>2
  <2>. HIDE DEF k
  <2>. QED
    BY <1>3, <2>1
<1>. HIDE DEF k
<1>4. k \in RemovingStorages(mb, gone)
  BY <1>2, <1>3 DEF RemovingStorages, k
<1>. QED
  BY <1>4

(* The file a destructor removes next is one the client has marked, and    *)
(* only setUpdateFlag gets it that far.                                    *)
LEMMA NextToRemove ==
    ASSUME NEW F, NEW st \in Storages(F), NEW gone, UnremovedMarks(st, gone) # {}
    PROVE  st.updateAtClose /\ EmailToRemove(st, gone) \in MarkedIn(st)
<1>1. UnremovedMarks(st, gone) \in SUBSET Nat
  BY DEF UnremovedMarks, Storages
<1>2. Min(UnremovedMarks(st, gone)) \in UnremovedMarks(st, gone)
  BY <1>1, LeastElement
<1>. QED
  BY <1>2, Zenon DEF UnremovedMarks, EmailToRemove, MarkedIn

(* The numbers a storage lists, with sound marks, are as many as it counts.*)
LEMMA CountOfListing ==
    ASSUME NEW F, NEW st \in Storages(F), SoundMarks(st)
    PROVE  StorageCount(st) = Cardinality(DOMAIN StorageListing(st, 0))
<1>. DEFINE numbers == 0 .. Len(st.emails) - 1
            marks == st.emailsToBeDeleted
            marked == ToSet(marks)
            unmarked == {i \in numbers : ~IsMailMarkedAsDeleted(st, i)}
<1>1. /\ Len(st.emails) \in Nat
      /\ marks \in Seq(Nat) /\ Len(marks) \in Nat
      /\ DOMAIN marks = 1 .. Len(marks)
  BY DEF Storages
<1>2. DOMAIN StorageListing(st, 0) = {i + 0 : i \in unmarked}
  BY DEF StorageListing
<1>3. {i + 0 : i \in unmarked} = unmarked
  <2>1. \A i \in unmarked : i + 0 = i
    OBVIOUS
  <2>. QED
    BY <2>1
<1>4. CASE st.deleteAll
  <2>1. unmarked = {}
    BY <1>4 DEF IsMailMarkedAsDeleted
  <2>. QED
    BY <1>2, <1>3, <1>4, <2>1, FS_EmptySet DEF StorageCount
<1>5. CASE ~st.deleteAll
  <2>1. unmarked = numbers \ marked
    BY <1>5 DEF IsMailMarkedAsDeleted
  <2>2. marked \subseteq numbers
    <3>1. \A i \in DOMAIN marks : marks[i] \in numbers
      BY <1>1 DEF SoundMarks
    <3>. QED
      BY <3>1 DEF ToSet
  <2>3. IsFiniteSet(numbers) /\ Cardinality(numbers) = Len(st.emails)
    <3>. DEFINE b == Len(st.emails) - 1
    <3>1. b \in Int /\ (0 > b => Len(st.emails) = 0) /\ b - 0 + 1 = Len(st.emails)
      BY <1>1
    <3>. HIDE DEF b
    <3>2. IsFiniteSet(0 .. b) /\ Cardinality(0 .. b) = IF 0 > b THEN 0 ELSE b - 0 + 1
      BY <3>1, FS_Interval
    <3>. QED
      BY <3>1, <3>2 DEF b
  <2>4. /\ marks \in Surjection(1 .. Len(marks), marked)
        /\ marks \in Injection(1 .. Len(marks), marked)
    <3>1. marks \in [1 .. Len(marks) -> marked]
      BY <1>1 DEF ToSet
    <3>2. \A i, j \in 1 .. Len(marks) : marks[i] = marks[j] => i = j
      BY <1>1 DEF SoundMarks
    <3>3. \A m \in marked : \E i \in 1 .. Len(marks) : marks[i] = m
      BY <1>1 DEF ToSet
    <3>. QED
      BY <3>1, <3>2, <3>3, Zenon DEF Surjection, Injection, IsInjective
  <2>5. Cardinality(marked) = Len(marks)
    BY <1>1, <2>4, FS_Interval, FS_Surjection
  <2>6. Cardinality(numbers \ marked) = Cardinality(numbers) - Cardinality(numbers \cap marked)
    BY <2>3, FS_Difference
  <2>7. numbers \cap marked = marked
    BY <2>2
  <2>. QED
    BY <1>2, <1>3, <1>5, <2>1, <2>3, <2>5, <2>6, <2>7 DEF StorageCount
<1>. QED
  BY <1>4, <1>5

-----------------------------------------------------------------------------
(* The folds of a mailbox.  A fold is a recursive function on the sets of  *)
(* positions: first that there is one, by induction over their number,     *)
(* then the sum and the union it computes, position by position.           *)

(* Induction over the numbers, from the least counterexample: sets take     *)
(* the place of the predicates that the library's theorem is about.        *)
LEMMA Induction ==
    ASSUME NEW T, 0 \in T, \A n \in Nat : n \in T => n + 1 \in T
    PROVE  Nat \subseteq T
<1>. DEFINE C == Nat \ T
<1>. SUFFICES ASSUME C # {} PROVE FALSE
  OBVIOUS
<1>1. C \in SUBSET Nat
  OBVIOUS
<1>. DEFINE x == Min(C)
<1>2. x \in C /\ \A y \in C : x <= y
  BY <1>1, LeastElement
<1>. HIDE DEF x
<1>3. x # 0 /\ x \in Nat /\ x \notin T
  BY <1>2
<1>4. x - 1 \in Nat /\ ~ (x <= x - 1) /\ x - 1 + 1 = x
  BY <1>3
<1>5. x - 1 \in T
  BY <1>2, <1>4
<1>. QED
  BY <1>3, <1>4, <1>5

(* What the folds take away from a set of positions is its greatest.       *)
LEMMA GreatestPosition ==
    ASSUME NEW n \in Nat, NEW s \in SUBSET (1 .. n + 1)
    PROVE  /\ s \ {Max(s)} \in SUBSET (1 .. n + 1)
           /\ s # {} => s \ {Max(s)} \in SUBSET (1 .. n)
<1>1. CASE n + 1 \in s
  <2>1. \A y \in s : n + 1 >= y
    OBVIOUS
  <2>2. Max(s) \in s /\ \A y \in s : Max(s) >= y
    BY <1>1, <2>1 DEF Max
  <2>3. Max(s) = n + 1
    <3>. DEFINE m == Max(s)
    <3>1. m \in 1 .. n + 1 /\ m >= n + 1
      BY <1>1, <2>2
    <3>. HIDE DEF m
    <3>2. m = n + 1
      BY <3>1
    <3>. QED
      BY <3>2 DEF m
  <2>4. \A y \in s \ {n + 1} : y \in 1 .. n
    OBVIOUS
  <2>5. s \ {n + 1} \in SUBSET (1 .. n)
    BY <2>4
  <2>6. s \ {n + 1} \in SUBSET (1 .. n + 1)
    OBVIOUS
  <2>. QED
    BY <2>3, <2>5, <2>6
<1>2. CASE n + 1 \notin s
  <2>1. s \in SUBSET (1 .. n)
    BY <1>2
  <2>. QED
    BY <2>1
<1>. QED
  BY <1>1, <1>2

LEMMA LastPosition ==
    ASSUME NEW n \in Nat \ {0}
    PROVE  Max(1 .. n) = n /\ 1 .. n # {} /\ (1 .. n) \ {n} = 1 .. n - 1
<1>1. n \in 1 .. n /\ \A y \in 1 .. n : n >= y
  OBVIOUS
<1>2. Max(1 .. n) \in 1 .. n /\ \A y \in 1 .. n : Max(1 .. n) >= y
  BY <1>1 DEF Max
<1>3. Max(1 .. n) = n
  BY <1>1, <1>2
<1>. QED
  BY <1>1, <1>3

SumFold(mb, n, g) ==
    g = [s \in SUBSET (1 .. n) |->
            IF s = {} THEN 0 ELSE g[s \ {Max(s)}] + StorageCount(mb[Max(s)])]

LEMMA SumFolds == ASSUME NEW mb PROVE \A n \in Nat : \E g : SumFold(mb, n, g)
<1>. DEFINE next(h, s) ==
                IF s = {} THEN 0 ELSE h[s \ {Max(s)}] + StorageCount(mb[Max(s)])
            T == {n \in Nat : \E g : SumFold(mb, n, g)}
<1>1. 0 \in T
  <2>. DEFINE g == [s \in SUBSET (1 .. 0) |-> 0]
  <2>1. \A s \in SUBSET (1 .. 0) : s = {}
    OBVIOUS
  <2>2. SumFold(mb, 0, g)
    BY <2>1 DEF SumFold
  <2>. QED BY <2>2
<1>2. ASSUME NEW n \in Nat, n \in T PROVE n + 1 \in T
  <2>. PICK g : SumFold(mb, n, g)
    BY <1>2
  <2>. DEFINE h == [s \in SUBSET (1 .. n + 1) |-> next(g, s)]
  <2>. HIDE DEF next
  <2>1. \A s \in SUBSET (1 .. n) : g[s] = next(g, s)
    BY DEF SumFold, next
  <2>2. \A s \in SUBSET (1 .. n) : s \in SUBSET (1 .. n + 1) /\ h[s] = g[s]
    BY <2>1
  <2>3. \A s \in SUBSET (1 .. n + 1) : next(h, s) = next(g, s)
    <3>. TAKE s \in SUBSET (1 .. n + 1)
    <3>1. s # {} => h[s \ {Max(s)}] = g[s \ {Max(s)}]
      BY <2>2, GreatestPosition
    <3>. HIDE DEF h
    <3>. QED BY <3>1 DEF next
  <2>4. h = [s \in SUBSET (1 .. n + 1) |-> next(h, s)]
    BY <2>3
  <2>. HIDE DEF h
  <2>5. SumFold(mb, n + 1, h)
    BY <2>4 DEF SumFold, next
  <2>. QED BY <2>5
<1>. HIDE DEF T
<1>3. Nat \subseteq T
  BY <1>1, <1>2, Induction
<1>. QED BY <1>3 DEF T

(* c[k] is the count of the first k storages.                              *)
Counts(mb, c) ==
    /\ c[0] = 0
    /\ \A k \in 1 .. Len(mb) : c[k] = c[k - 1] + StorageCount(mb[k])

LEMMA CountIsSum ==
    ASSUME NEW S, NEW mb \in Seq(S)
    PROVE  \E c : Counts(mb, c) /\ MailboxCount(mb) = c[Len(mb)]
<1>. DEFINE N == Len(mb)
            g == CHOOSE g : SumFold(mb, N, g)
            c == [k \in 0 .. N |-> g[1 .. k]]
<1>0. N \in Nat /\ DOMAIN mb = 1 .. N
  OBVIOUS
<1>. HIDE DEF N
<1>1. SumFold(mb, N, g)
  BY <1>0, SumFolds
<1>2. MailboxCount(mb) = g[1 .. N]
  BY <1>0 DEF MailboxCount, FoldLeft, MapThenFoldSet, SumFold
<1>. HIDE DEF g
<1>3. \A s \in SUBSET (1 .. N) :
          g[s] = IF s = {} THEN 0 ELSE g[s \ {Max(s)}] + StorageCount(mb[Max(s)])
  BY <1>1 DEF SumFold
<1>4. g[{}] = 0
  BY <1>3
<1>5. 1 .. 0 = {}
  OBVIOUS
<1>6. ASSUME NEW k \in 1 .. N PROVE g[1 .. k] = g[1 .. k - 1] + StorageCount(mb[k])
  <2>1. 1 .. k \in SUBSET (1 .. N) /\ k \in Nat \ {0}
    BY <1>0
  <2>2. g[1 .. k] = g[(1 .. k) \ {Max(1 .. k)}] + StorageCount(mb[Max(1 .. k)])
    BY <1>3, <2>1, LastPosition
  <2>. QED
    BY <2>1, <2>2, LastPosition
<1>7. Counts(mb, c)
  <2>1. \A k \in 1 .. N : k \in 0 .. N /\ k - 1 \in 0 .. N
    BY <1>0
  <2>. QED BY <1>0, <1>4, <1>5, <1>6, <2>1 DEF Counts, N
<1>8. c[N] = g[1 .. N]
  BY <1>0
<1>. QED BY <1>2, <1>7, <1>8 DEF N

(* The sums of a prefix are the sums of the whole.                         *)
LEMMA OffsetIsSum ==
    ASSUME NEW S, NEW mb \in Seq(S), NEW c, Counts(mb, c)
    PROVE  /\ MailboxCount(mb) = c[Len(mb)]
           /\ \A k \in 1 .. Len(mb) : Offset(mb, k) = c[k - 1]
<1>1. ASSUME NEW p \in Seq(S), Len(p) <= Len(mb), \A i \in 1 .. Len(p) : p[i] = mb[i]
      PROVE  MailboxCount(p) = c[Len(p)]
  <2>. DEFINE M == Len(p)
  <2>0. M \in Nat /\ Len(mb) \in Nat /\ M <= Len(mb)
    BY <1>1
  <2>1. PICK d : Counts(p, d) /\ MailboxCount(p) = d[M]
    BY CountIsSum
  <2>2. d[0] = 0 /\ \A k \in 1 .. M : d[k] = d[k - 1] + StorageCount(p[k])
    BY <2>1 DEF Counts
  <2>3. c[0] = 0 /\ \A k \in 1 .. M : c[k] = c[k - 1] + StorageCount(p[k])
    BY <1>1, <2>0 DEF Counts
  <2>. HIDE DEF M
  <2>. DEFINE T == {i \in Nat : i <= M => d[i] = c[i]}
  <2>4. 0 \in T
    BY <2>2, <2>3
  <2>5. ASSUME NEW i \in Nat, i \in T PROVE i + 1 \in T
    <3>1. CASE i + 1 <= M
      <4>1. i + 1 \in 1 .. M /\ i + 1 - 1 = i /\ i <= M
        BY <2>0, <3>1
      <4>2. d[i + 1] = d[i] + StorageCount(p[i + 1]) /\ c[i + 1] = c[i] + StorageCount(p[i + 1])
        BY <2>2, <2>3, <4>1
      <4>3. d[i] = c[i]
        BY <2>5, <4>1
      <4>. QED BY <4>2, <4>3
    <3>2. CASE ~ (i + 1 <= M)
      BY <3>2
    <3>. QED BY <3>1, <3>2
  <2>. HIDE DEF T
  <2>6. Nat \subseteq T
    BY <2>4, <2>5, Induction
  <2>7. M \in T
    BY <2>0, <2>6
  <2>8. d[M] = c[M]
    BY <2>0, <2>7 DEF T
  <2>. QED BY <2>1, <2>8 DEF M
<1>2. MailboxCount(mb) = c[Len(mb)]
  BY <1>1
<1>3. ASSUME NEW k \in 1 .. Len(mb) PROVE Offset(mb, k) = c[k - 1]
  <2>. DEFINE p == SubSeq(mb, 1, k - 1)
  <2>1. /\ p \in Seq(S) /\ Len(p) = k - 1 /\ k - 1 <= Len(mb)
        /\ \A i \in 1 .. Len(p) : p[i] = mb[i]
    OBVIOUS
  <2>2. MailboxCount(p) = c[k - 1]
    BY <1>1, <2>1
  <2>. QED BY <2>2 DEF Offset
<1>. QED BY <1>2, <1>3

(* With sound marks the sums do not decrease.                              *)
LEMMA SumsGrow ==
    ASSUME NEW F, NEW mb \in Seq(Storages(F)), \A k \in DOMAIN mb : SoundMarks(mb[k]),
           NEW c, Counts(mb, c)
    PROVE  /\ \A k \in 1 .. Len(mb) : StorageCount(mb[k]) \in Nat
           /\ \A k \in 0 .. Len(mb) : c[k] \in Nat
           /\ \A i, k \in 0 .. Len(mb) : i <= k => c[i] <= c[k]
<1>. DEFINE N == Len(mb)
            T == {k \in Nat : k <= N => \A i \in 0 .. k : c[i] \in Nat /\ c[i] <= c[k]}
<1>0. N \in Nat /\ DOMAIN mb = 1 .. N
  OBVIOUS
<1>1. ASSUME NEW k \in 1 .. N PROVE StorageCount(mb[k]) \in Nat
  <2>1. mb[k] \in Storages(F) /\ SoundMarks(mb[k])
    BY <1>0
  <2>2. Len(mb[k].emails) \in Nat /\ Len(mb[k].emailsToBeDeleted) \in Nat
    BY <2>1 DEF Storages
  <2>3. Len(mb[k].emailsToBeDeleted) <= Len(mb[k].emails)
    BY <2>1 DEF SoundMarks
  <2>. QED BY <2>2, <2>3 DEF StorageCount
<1>2. c[0] = 0 /\ \A k \in 1 .. N : c[k] = c[k - 1] + StorageCount(mb[k])
  BY DEF Counts
<1>. HIDE DEF N
<1>3. 0 \in T
  BY <1>2
<1>4. ASSUME NEW k \in Nat, k \in T PROVE k + 1 \in T
  <2>1. SUFFICES ASSUME k + 1 <= N
                 PROVE  \A i \in 0 .. k + 1 : c[i] \in Nat /\ c[i] <= c[k + 1]
    OBVIOUS
  <2>2. k + 1 \in 1 .. N /\ k + 1 - 1 = k /\ k <= N
    BY <1>0, <2>1
  <2>3. c[k + 1] = c[k] + StorageCount(mb[k + 1]) /\ StorageCount(mb[k + 1]) \in Nat
    BY <1>1, <1>2, <2>2
  <2>4. \A i \in 0 .. k : c[i] \in Nat /\ c[i] <= c[k]
    BY <1>4, <2>2
  <2>5. c[k] \in Nat
    BY <2>4
  <2>6. c[k + 1] \in Nat /\ c[k] <= c[k + 1]
    BY <2>3, <2>5
  <2>. TAKE i \in 0 .. k + 1
  <2>7. CASE i = k + 1
    BY <2>6, <2>7
  <2>8. CASE i \in 0 .. k
    <3>1. c[i] \in Nat /\ c[i] <= c[k]
      BY <2>4, <2>8
    <3>. QED BY <2>5, <2>6, <3>1
  <2>. QED BY <2>7, <2>8
<1>5. ASSUME NEW k \in 0 .. N PROVE \A i \in 0 .. k : c[i] \in Nat /\ c[i] <= c[k]
  <2>. HIDE DEF T
  <2>1. Nat \subseteq T
    BY <1>3, <1>4, Induction
  <2>2. k \in T /\ k <= N
    BY <1>0, <2>1
  <2>. QED BY <2>2 DEF T
<1>6. \A k \in 0 .. N : c[k] \in Nat
  BY <1>0, <1>5
<1>7. ASSUME NEW i \in 0 .. N, NEW k \in 0 .. N, i <= k PROVE c[i] <= c[k]
  <2>1. i \in 0 .. k
    BY <1>0, <1>7
  <2>. QED BY <1>5, <2>1
<1>. QED BY <1>1, <1>6, <1>7 DEF N

(* findStorage stops at the storage whose numbers n is among.              *)
LEMMA HitIsBetween ==
    ASSUME NEW F, NEW mb \in Seq(Storages(F)), \A k \in DOMAIN mb : SoundMarks(mb[k]),
           NEW c, Counts(mb, c), NEW n \in Nat, NEW k \in 1 .. Len(mb)
    PROVE  /\ k \in Hits(mb, n) <=> (c[k - 1] <= n /\ n < c[k])
           /\ LocalNumber(mb, n, k) = n - c[k - 1]
<1>1. DOMAIN mb = 1 .. Len(mb) /\ Len(mb) \in Nat
  OBVIOUS
<1>2. Offset(mb, k) = c[k - 1]
  BY OffsetIsSum
<1>3. k - 1 \in 0 .. Len(mb) /\ k \in 0 .. Len(mb)
  BY <1>1
<1>4. c[k - 1] \in Nat /\ c[k] \in Nat /\ StorageCount(mb[k]) \in Nat
  BY <1>3, SumsGrow
<1>5. c[k] = c[k - 1] + StorageCount(mb[k])
  BY DEF Counts
<1>6. LocalNumber(mb, n, k) = n - c[k - 1]
  BY <1>2 DEF LocalNumber
<1>7. k \in Hits(mb, n) <=> n - c[k - 1] \in 0 .. StorageCount(mb[k]) - 1
  BY <1>1, <1>6 DEF Hits
<1>. QED BY <1>4, <1>5, <1>6, <1>7

LEMMA OneHit ==
    ASSUME NEW F, NEW mb \in Seq(Storages(F)), \A k \in DOMAIN mb : SoundMarks(mb[k]),
           NEW c, Counts(mb, c), NEW n \in Nat,
           NEW j \in Hits(mb, n), NEW k \in Hits(mb, n)
    PROVE  j = k
<1>1. j \in 1 .. Len(mb) /\ k \in 1 .. Len(mb) /\ Len(mb) \in Nat
  BY DEF Hits
<1>2. /\ c[j - 1] <= n /\ n < c[j]
      /\ c[k - 1] <= n /\ n < c[k]
  BY <1>1, HitIsBetween
<1>3. \A i \in 0 .. Len(mb) : c[i] \in Nat
  BY SumsGrow
<1>4. \A x, y \in 1 .. Len(mb) : x < y => c[x] <= c[y - 1]
  <2>1. \A x, y \in 1 .. Len(mb) :
            x < y => x \in 0 .. Len(mb) /\ y - 1 \in 0 .. Len(mb) /\ x <= y - 1
    BY <1>1
  <2>. QED BY <2>1, SumsGrow
<1>5. \A x \in 1 .. Len(mb) : c[x] \in Nat /\ c[x - 1] \in Nat
  BY <1>1, <1>3
<1>6. ~ (j < k)
  <2>1. ASSUME j < k PROVE FALSE
    <3>1. c[j] <= c[k - 1] /\ c[j] \in Nat /\ c[k - 1] \in Nat
      BY <1>1, <1>4, <1>5, <2>1
    <3>. QED BY <1>2, <3>1
  <2>. QED BY <2>1
<1>7. ~ (k < j)
  <2>1. ASSUME k < j PROVE FALSE
    <3>1. c[k] <= c[j - 1] /\ c[k] \in Nat /\ c[j - 1] \in Nat
      BY <1>1, <1>4, <1>5, <2>1
    <3>. QED BY <1>2, <3>1
  <2>. QED BY <2>1
<1>. QED BY <1>1, <1>6, <1>7

(* The numbers that are found are those below the count.                   *)
LEMMA FoundBelowCount ==
    ASSUME NEW F, NEW mb \in Seq(Storages(F)), \A k \in DOMAIN mb : SoundMarks(mb[k]),
           NEW n \in Nat
    PROVE  NumberFound(mb, n) <=> n < MailboxCount(mb)
<1>1. PICK c : Counts(mb, c) /\ MailboxCount(mb) = c[Len(mb)]
  BY CountIsSum
<1>2. Len(mb) \in Nat
  OBVIOUS
<1>3. /\ \A i \in 0 .. Len(mb) : c[i] \in Nat
      /\ \A i, k \in 0 .. Len(mb) : i <= k => c[i] <= c[k]
  BY <1>1, SumsGrow
<1>4. ASSUME NumberFound(mb, n) PROVE n < c[Len(mb)]
  <2>1. PICK k \in Hits(mb, n) : TRUE
    BY <1>4 DEF NumberFound
  <2>2. k \in 1 .. Len(mb)
    BY DEF Hits
  <2>3. n < c[k]
    BY <1>1, <2>2, HitIsBetween
  <2>4. k \in 0 .. Len(mb) /\ Len(mb) \in 0 .. Len(mb) /\ k <= Len(mb)
    BY <1>2, <2>2
  <2>5. c[k] <= c[Len(mb)] /\ c[k] \in Nat /\ c[Len(mb)] \in Nat
    BY <1>3, <2>4
  <2>. QED BY <2>3, <2>5
<1>5. ASSUME n < c[Len(mb)] PROVE NumberFound(mb, n)
  <2>. DEFINE K == {k \in 0 .. Len(mb) : n < c[k]}
              k == Min(K)
  <2>1. K \in SUBSET Nat /\ Len(mb) \in K
    BY <1>2, <1>5
  <2>2. k \in K /\ \A x \in K : k <= x
    BY <2>1, LeastElement
  <2>. HIDE DEF k
  <2>3. k \in 0 .. Len(mb) /\ n < c[k]
    BY <2>2
  <2>4. k # 0
    BY <1>1, <2>3 DEF Counts
  <2>5. k \in 1 .. Len(mb) /\ k - 1 \in 0 .. Len(mb) /\ ~ (k <= k - 1)
    BY <1>2, <2>3, <2>4
  <2>6. ~ (n < c[k - 1])
    BY <2>2, <2>5
  <2>7. c[k - 1] <= n
    BY <1>3, <2>5, <2>6
  <2>8. k \in Hits(mb, n)
    BY <1>1, <2>3, <2>5, <2>7, HitIsBetween
  <2>. QED BY <2>8 DEF NumberFound
<1>. QED BY <1>1, <1>4, <1>5

(* The listing of a mailbox, storage by storage.                           *)
ListFold(mb, at, S, g) ==
    g = [s \in SUBSET S |->
            IF s = {} THEN << >>
            ELSE Inserted(g[s \ {Max(s)}],
                          StorageListing(mb[at[Max(s)]], Offset(mb, at[Max(s)])))]

LEMMA ListFolds ==
    ASSUME NEW mb, NEW at PROVE \A n \in Nat : \E g : ListFold(mb, at, 1 .. n, g)
<1>. DEFINE next(h, s) ==
                IF s = {} THEN << >>
                ELSE Inserted(h[s \ {Max(s)}],
                              StorageListing(mb[at[Max(s)]], Offset(mb, at[Max(s)])))
            T == {n \in Nat : \E g : ListFold(mb, at, 1 .. n, g)}
<1>1. 0 \in T
  <2>. DEFINE g == [s \in SUBSET (1 .. 0) |-> << >>]
  <2>1. \A s \in SUBSET (1 .. 0) : s = {}
    OBVIOUS
  <2>2. ListFold(mb, at, 1 .. 0, g)
    BY <2>1 DEF ListFold
  <2>. QED BY <2>2
<1>2. ASSUME NEW n \in Nat, n \in T PROVE n + 1 \in T
  <2>. PICK g : ListFold(mb, at, 1 .. n, g)
    BY <1>2
  <2>. DEFINE h == [s \in SUBSET (1 .. n + 1) |-> next(g, s)]
  <2>. HIDE DEF next
  <2>1. \A s \in SUBSET (1 .. n) : g[s] = next(g, s)
    BY DEF ListFold, next
  <2>2. \A s \in SUBSET (1 .. n) : s \in SUBSET (1 .. n + 1) /\ h[s] = g[s]
    BY <2>1
  <2>3. \A s \in SUBSET (1 .. n + 1) : next(h, s) = next(g, s)
    <3>. TAKE s \in SUBSET (1 .. n + 1)
    <3>1. s # {} => h[s \ {Max(s)}] = g[s \ {Max(s)}]
      BY <2>2, GreatestPosition
    <3>. HIDE DEF h
    <3>. QED BY <3>1 DEF next
  <2>4. h = [s \in SUBSET (1 .. n + 1) |-> next(h, s)]
    BY <2>3
  <2>. HIDE DEF h
  <2>5. ListFold(mb, at, 1 .. n + 1, h)
    BY <2>4 DEF ListFold, next
  <2>. QED BY <2>5
<1>. HIDE DEF T
<1>3. Nat \subseteq T
  BY <1>1, <1>2, Induction
<1>. QED BY <1>3 DEF T

Lists(mb, l) ==
    /\ l[0] = << >>
    /\ \A k \in 1 .. Len(mb) : l[k] = Inserted(l[k - 1], StorageListing(mb[k], Offset(mb, k)))

LEMMA ListingIsUnion ==
    ASSUME NEW S, NEW mb \in Seq(S)
    PROVE  \E l : Lists(mb, l) /\ MailboxListing(mb) = l[Len(mb)]
<1>. DEFINE N == Len(mb)
            at == [i \in DOMAIN mb |-> i]
            g == CHOOSE g : ListFold(mb, at, 1 .. N, g)
            l == [k \in 0 .. N |-> g[1 .. k]]
<1>0. N \in Nat /\ DOMAIN mb = 1 .. N
  OBVIOUS
<1>. HIDE DEF N
<1>1. ListFold(mb, at, 1 .. N, g)
  BY <1>0, ListFolds
<1>2. MailboxListing(mb) = g[1 .. N]
  <2>1. DOMAIN at = 1 .. N
    BY <1>0
  <2>2. MailboxListing(mb) = (CHOOSE h : ListFold(mb, at, DOMAIN at, h))[DOMAIN at]
    BY Zenon DEF MailboxListing, FoldLeftDomain, FoldLeft, MapThenFoldSet, ListFold
  <2>. HIDE DEF at
  <2>. QED
    BY <2>1, <2>2
<1>. HIDE DEF g
<1>3. \A s \in SUBSET (1 .. N) :
          g[s] = IF s = {} THEN << >>
                 ELSE Inserted(g[s \ {Max(s)}],
                          StorageListing(mb[at[Max(s)]], Offset(mb, at[Max(s)])))
  BY <1>1 DEF ListFold
<1>4. g[{}] = << >>
  BY <1>3
<1>5. 1 .. 0 = {}
  OBVIOUS
<1>6. ASSUME NEW k \in 1 .. N
      PROVE  g[1 .. k] = Inserted(g[1 .. k - 1], StorageListing(mb[k], Offset(mb, k)))
  <2>1. 1 .. k \in SUBSET (1 .. N) /\ k \in Nat \ {0}
    BY <1>0
  <2>2. g[1 .. k] = Inserted(g[(1 .. k) \ {Max(1 .. k)}],
                         StorageListing(mb[at[Max(1 .. k)]], Offset(mb, at[Max(1 .. k)])))
    BY <1>3, <2>1, LastPosition
  <2>3. at[k] = k
    BY <1>0
  <2>. HIDE DEF at
  <2>. QED
    BY <2>1, <2>2, <2>3, LastPosition
<1>7. Lists(mb, l)
  <2>1. \A k \in 1 .. N : k \in 0 .. N /\ k - 1 \in 0 .. N
    BY <1>0
  <2>. QED BY <1>0, <1>4, <1>5, <1>6, <2>1 DEF Lists, N
<1>8. l[N] = g[1 .. N]
  BY <1>0
<1>. QED BY <1>2, <1>7, <1>8 DEF N

Unmarked(mb) == \A k \in DOMAIN mb : mb[k].emailsToBeDeleted = << >> /\ ~mb[k].deleteAll

(* While nothing is marked a storage lists every email, at the numbers     *)
(* that follow its offset.                                                 *)
LEMMA UnmarkedStorage ==
    ASSUME NEW F, NEW st \in Storages(F), st.emailsToBeDeleted = << >>, ~st.deleteAll,
           NEW offset \in Nat
    PROVE  /\ StorageCount(st) = Len(st.emails)
           /\ DOMAIN StorageListing(st, offset) = offset .. offset + Len(st.emails) - 1
           /\ \A n \in offset .. offset + Len(st.emails) - 1 :
                 StorageListing(st, offset)[n] = Email(st, n - offset)
           /\ \A i : ~IsMailMarkedAsDeleted(st, i)
<1>1. \A i : ~IsMailMarkedAsDeleted(st, i)
  BY DEF IsMailMarkedAsDeleted, ToSet
<1>2. Len(st.emails) \in Nat
  BY DEF Storages
<1>3. StorageCount(st) = Len(st.emails)
  BY <1>2 DEF StorageCount
<1>. DEFINE listed == {i \in 0 .. Len(st.emails) - 1 : ~IsMailMarkedAsDeleted(st, i)}
            numbers == {i + offset : i \in listed}
            all == offset .. offset + Len(st.emails) - 1
<1>4. listed = 0 .. Len(st.emails) - 1
  BY <1>1
<1>5. numbers = all
  <2>. HIDE DEF listed
  <2>1. \A i \in listed : i + offset \in all
    BY <1>2, <1>4
  <2>2. \A n \in all : n - offset \in listed /\ n = (n - offset) + offset
    BY <1>2, <1>4
  <2>3. numbers \subseteq all
    BY <2>1
  <2>4. all \subseteq numbers
    <3>. SUFFICES ASSUME NEW n \in all PROVE \E i \in listed : n = i + offset
      OBVIOUS
    <3>. QED BY <2>2
  <2>. QED BY <2>3, <2>4
<1>6. StorageListing(st, offset) = [n \in numbers |-> Email(st, n - offset)]
  BY DEF StorageListing
<1>. HIDE DEF numbers
<1>. QED BY <1>1, <1>3, <1>5, <1>6

(* While nothing is marked the listing of a mailbox has the numbers below  *)
(* its count, each for the email that findStorage reaches with it.         *)
LEMMA UnmarkedListing ==
    ASSUME NEW F, NEW mb \in Seq(Storages(F)), Unmarked(mb)
    PROVE  /\ DOMAIN MailboxListing(mb) = 0 .. MailboxCount(mb) - 1
           /\ \A n \in DOMAIN MailboxListing(mb) :
                 Readable(mb, n) /\ EmailAt(mb, n) = MailboxListing(mb)[n]
<1>. DEFINE N == Len(mb)
<1>0. N \in Nat /\ DOMAIN mb = 1 .. N /\ \A k \in 1 .. N : mb[k] \in Storages(F)
  OBVIOUS
<1>1. \A k \in DOMAIN mb : SoundMarks(mb[k])
  <2>. TAKE k \in DOMAIN mb
  <2>1. mb[k].emailsToBeDeleted = << >> /\ Len(mb[k].emails) \in Nat
    BY <1>0 DEF Unmarked, Storages
  <2>. QED BY <2>1 DEF SoundMarks
<1>2. PICK c : Counts(mb, c) /\ MailboxCount(mb) = c[N]
  BY CountIsSum
<1>3. PICK l : Lists(mb, l) /\ MailboxListing(mb) = l[N]
  BY ListingIsUnion
<1>4. /\ \A i \in 0 .. N : c[i] \in Nat
      /\ \A i, k \in 0 .. N : i <= k => c[i] <= c[k]
  BY <1>1, <1>2, SumsGrow
<1>5. ASSUME NEW k \in 1 .. N
      PROVE  LET added == StorageListing(mb[k], c[k - 1])
             IN  /\ l[k] = Inserted(l[k - 1], added)
                 /\ DOMAIN added = c[k - 1] .. c[k] - 1
                 /\ \A n \in c[k - 1] .. c[k] - 1 :
                       added[n] = Email(mb[k], n - c[k - 1])
  <2>1. Offset(mb, k) = c[k - 1]
    BY <1>2, OffsetIsSum
  <2>2. l[k] = Inserted(l[k - 1], StorageListing(mb[k], c[k - 1]))
    BY <1>3, <2>1 DEF Lists
  <2>3. c[k - 1] \in Nat
    BY <1>0, <1>4
  <2>4. mb[k] \in Storages(F) /\ mb[k].emailsToBeDeleted = << >> /\ ~mb[k].deleteAll
    BY <1>0 DEF Unmarked
  <2>5. c[k] = c[k - 1] + StorageCount(mb[k])
    BY <1>2 DEF Counts
  <2>6. c[k] = c[k - 1] + Len(mb[k].emails)
    BY <2>3, <2>4, <2>5, UnmarkedStorage
  <2>. DEFINE st == mb[k]
              offset == c[k - 1]
              added == StorageListing(st, offset)
  <2>. HIDE DEF st, offset
  <2>7. /\ st \in Storages(F) /\ st.emailsToBeDeleted = << >> /\ ~st.deleteAll
        /\ offset \in Nat
    BY <2>3, <2>4 DEF st, offset
  <2>8. /\ DOMAIN added = offset .. offset + Len(st.emails) - 1
        /\ \A n \in offset .. offset + Len(st.emails) - 1 : added[n] = Email(st, n - offset)
    BY <2>7, UnmarkedStorage
  <2>9. c[k] - 1 = offset + Len(st.emails) - 1
    <3>1. Len(st.emails) \in Nat /\ offset \in Nat
      BY <2>7 DEF Storages
    <3>2. c[k] = offset + Len(st.emails)
      BY <2>6 DEF st, offset
    <3>. QED BY <3>1, <3>2
  <2>10. /\ DOMAIN added = offset .. c[k] - 1
         /\ \A n \in offset .. c[k] - 1 : added[n] = Email(st, n - offset)
    BY <2>8, <2>9, Zenon
  <2>. QED BY <2>2, <2>10, Zenon DEF st, offset
<1>. HIDE DEF N
<1>. DEFINE T == {k \in Nat : k <= N =>
                    /\ DOMAIN l[k] = 0 .. c[k] - 1
                    /\ \A j \in 1 .. k : \A n \in c[j - 1] .. c[j] - 1 :
                          l[k][n] = Email(mb[j], n - c[j - 1])}
<1>6. 0 \in T
  <2>1. c[0] = 0 /\ l[0] = << >>
    BY <1>2, <1>3 DEF Counts, Lists
  <2>. QED BY <2>1
<1>7. ASSUME NEW k \in Nat, k \in T PROVE k + 1 \in T
  <2>1. SUFFICES ASSUME k + 1 <= N
                 PROVE  /\ DOMAIN l[k + 1] = 0 .. c[k + 1] - 1
                        /\ \A j \in 1 .. k + 1 : \A n \in c[j - 1] .. c[j] - 1 :
                              l[k + 1][n] = Email(mb[j], n - c[j - 1])
    OBVIOUS
  <2>2. k + 1 \in 1 .. N /\ k + 1 - 1 = k /\ k <= N /\ k \in 0 .. N /\ k + 1 \in 0 .. N
    BY <1>0, <2>1
  <2>. DEFINE added == StorageListing(mb[k + 1], c[k])
  <2>3. /\ l[k + 1] = Inserted(l[k], added)
        /\ DOMAIN added = c[k] .. c[k + 1] - 1
        /\ \A n \in c[k] .. c[k + 1] - 1 : added[n] = Email(mb[k + 1], n - c[k])
    BY <1>5, <2>2
  <2>. HIDE DEF added
  <2>4. /\ DOMAIN l[k] = 0 .. c[k] - 1
        /\ \A j \in 1 .. k : \A n \in c[j - 1] .. c[j] - 1 :
              l[k][n] = Email(mb[j], n - c[j - 1])
    BY <1>7, <2>2
  <2>5. c[k] \in Nat /\ c[k + 1] \in Nat /\ c[k] <= c[k + 1]
    BY <1>4, <2>2
  <2>6. l[k + 1] = [n \in DOMAIN l[k] \cup DOMAIN added |->
                       IF n \in DOMAIN l[k] THEN l[k][n] ELSE added[n]]
    BY <2>3 DEF Inserted
  <2>7. DOMAIN l[k + 1] = 0 .. c[k + 1] - 1
    <3>1. DOMAIN l[k] \cup DOMAIN added = 0 .. c[k + 1] - 1
      BY <2>3, <2>4, <2>5
    <3>. QED BY <2>6, <3>1
  <2>8. ASSUME NEW j \in 1 .. k + 1, NEW n \in c[j - 1] .. c[j] - 1
        PROVE  l[k + 1][n] = Email(mb[j], n - c[j - 1])
    <3>1. CASE j = k + 1
      <4>1. n \in c[k] .. c[k + 1] - 1
        BY <2>2, <3>1
      <4>2. n \in DOMAIN added /\ n \notin DOMAIN l[k]
        BY <2>3, <2>4, <2>5, <4>1
      <4>. QED BY <2>2, <2>3, <2>6, <3>1, <4>1, <4>2
    <3>2. CASE j \in 1 .. k
      <4>1. j - 1 \in 0 .. N /\ j \in 0 .. N /\ j <= k
        BY <1>0, <2>2, <3>2
      <4>2. c[j - 1] \in Nat /\ c[j] \in Nat /\ c[j] <= c[k]
        BY <1>4, <2>2, <4>1
      <4>3. n \in DOMAIN l[k]
        BY <2>4, <2>5, <4>2
      <4>4. l[k + 1][n] = l[k][n]
        BY <2>6, <4>3
      <4>. QED BY <2>4, <3>2, <4>4
    <3>. QED BY <3>1, <3>2
  <2>. QED BY <2>7, <2>8
<1>8. /\ DOMAIN l[N] = 0 .. c[N] - 1
      /\ \A j \in 1 .. N : \A n \in c[j - 1] .. c[j] - 1 :
            l[N][n] = Email(mb[j], n - c[j - 1])
  <2>. HIDE DEF T
  <2>1. N \in T
    BY <1>0, <1>6, <1>7, Induction
  <2>. QED BY <1>0, <2>1 DEF T
<1>9. ASSUME NEW n \in 0 .. c[N] - 1
      PROVE  Readable(mb, n) /\ EmailAt(mb, n) = l[N][n]
  <2>. DEFINE k == FindStorage(mb, n)
  <2>1. c[N] \in Nat
    BY <1>0, <1>4
  <2>2. n \in Nat /\ n < c[N]
    BY <2>1
  <2>3. NumberFound(mb, n)
    BY <1>1, <1>2, <2>2, FoundBelowCount
  <2>4. k \in Hits(mb, n)
    BY <2>3 DEF NumberFound, FindStorage
  <2>. HIDE DEF k
  <2>5. k \in 1 .. N
    BY <1>0, <2>4 DEF Hits
  <2>6. c[k - 1] <= n /\ n < c[k] /\ LocalNumber(mb, n, k) = n - c[k - 1]
    BY <1>1, <1>2, <2>2, <2>4, <2>5, HitIsBetween DEF N
  <2>7. c[k - 1] \in Nat /\ c[k] \in Nat
    BY <1>0, <1>4, <2>5
  <2>8. n \in c[k - 1] .. c[k] - 1
    BY <2>2, <2>6, <2>7
  <2>9. l[N][n] = Email(mb[k], n - c[k - 1])
    BY <1>8, <2>5, <2>8
  <2>10. ~IsMailMarkedAsDeleted(mb[k], n - c[k - 1])
    BY <1>0, <2>5 DEF Unmarked, IsMailMarkedAsDeleted, ToSet
  <2>11. EmailAt(mb, n) = Email(mb[k], n - c[k - 1])
    BY <2>6 DEF EmailAt, k
  <2>12. ~MarkedAt(mb, n)
    BY <2>6, <2>10 DEF MarkedAt, k
  <2>. QED BY <2>3, <2>9, <2>11, <2>12 DEF Readable
<1>. QED BY <1>2, <1>3, <1>8, <1>9

=============================================================================
