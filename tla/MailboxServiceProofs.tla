------------------------ MODULE MailboxServiceProofs ------------------------
(* Proofs about the mailbox locks and the mailboxes of concurrent          *)
(* sessions, for any number of sessions, accounts, directories and files.  *)
EXTENDS MailboxService, MailStorageProofs

(* The part of TypeOK the locks depend on; together with LockTableExact it *)
(* is inductive.                                                           *)
LockType ==
    /\ activeMailboxes \in SUBSET Name
    /\ pc \in [Session -> Phases]
    /\ userName \in [Session -> Name]

LockInv == LockType /\ LockTableExact

(* What each session holds: the refinement mapping of Lease.               *)
LeaseOf == [s \in Session |-> IF Holds(s) THEN userName[s] ELSE NoLease]

LEMMA InitLockInv == Init => LockInv /\ Lease!Init
  BY DEF Init, LockInv, LockType, LockTableExact, Phases, Holds, Name, Lease!Init

(* A step that moves one session between two phases without a lock, or     *)
(* between two phases with one, and leaves table and names alone.          *)
LEMMA SameSide ==
    ASSUME LockInv, NEW s \in Session, NEW p \in Phases, Goto(s, p),
           UNCHANGED <<activeMailboxes, userName>>,
           p \in {"locked", "connecting", "transaction", "quitting", "stuck",
                  "closing"} <=> Holds(s)
    PROVE  LockInv' /\ [Lease!Next]_LeaseOf
<1>1. LockType'
  BY DEF LockInv, LockType, Goto
<1>2. \A t \in Session : Holds(t)' <=> Holds(t)
  BY DEF LockInv, LockType, Goto, Holds
<1>3. {t \in Session : Holds(t)}' = {t \in Session : Holds(t)}
  BY <1>2
<1>4. UNCHANGED LeaseOf
  BY <1>2, Zenon DEF LeaseOf
<1>. QED
  BY <1>1, <1>2, <1>3, <1>4 DEF LockInv, LockTableExact

(* A session that held a lock has given it back.                           *)
LEMMA GivesBack ==
    ASSUME LockInv, NEW s \in Session, Holds(s),
           NEW p \in {"authorization", "unlocked"}, Goto(s, p),
           activeMailboxes' = activeMailboxes \ {userName[s]},
           UNCHANGED userName
    PROVE  LockInv' /\ [Lease!Next]_LeaseOf
<1>1. LockType'
  BY DEF LockInv, LockType, Goto, Phases
<1>2. \A t \in Session : Holds(t)' <=> (Holds(t) /\ t # s)
  BY DEF LockInv, LockType, Goto, Holds
<1>3. LockTableExact'
  BY <1>2 DEF LockInv, LockTableExact
<1>4. Lease!Release(s)
  <2>1. LeaseOf[s] # NoLease
    BY ServiceAssumption DEF LeaseOf, LockInv, LockType, Name
  <2>2. LeaseOf' = [LeaseOf EXCEPT ![s] = NoLease]
    BY <1>2 DEF LeaseOf
  <2>. QED
    BY <2>1, <2>2 DEF Lease!Release, LeaseOf
<1>. QED
  BY <1>1, <1>3, <1>4 DEF LockInv, Lease!Next

LEMMA Locks ==
    ASSUME LockInv, NEW s \in Session, PassLocks(s)
    PROVE  LockInv' /\ [Lease!Next]_LeaseOf
<1>1. /\ LockType'
      /\ UNCHANGED userName
      /\ activeMailboxes' = activeMailboxes \cup {userName[s]}
      /\ userName[s] \notin activeMailboxes
  BY DEF PassLocks, LockInv, LockType, Goto, Phases
<1>2. \A t \in Session : Holds(t)' <=> (Holds(t) \/ t = s)
  BY DEF PassLocks, LockInv, LockType, Goto, Holds
<1>3. LockTableExact'
  BY <1>1, <1>2 DEF LockInv, LockTableExact
<1>4. PICK n \in Name : n = userName[s]
  BY DEF LockInv, LockType
<1>5. Lease!Acquire(s, n)
  <2>1. NoLease \notin Name
    BY ServiceAssumption DEF Name
  <2>2. LeaseOf[s] = NoLease
    BY DEF LeaseOf, Holds, PassLocks
  <2>3. \A t \in Session : LeaseOf[t] # n
    BY <1>1, <1>4, <2>1 DEF LeaseOf, LockInv, LockTableExact
  <2>4. LeaseOf' = [LeaseOf EXCEPT ![s] = n]
    BY <1>1, <1>2, <1>4 DEF LeaseOf
  <2>. QED
    BY <2>2, <2>3, <2>4 DEF Lease!Acquire, LeaseOf
<1>6. Lease!Next
  BY <1>5, Zenon DEF Lease!Next
<1>. QED
  BY <1>1, <1>3, <1>6 DEF LockInv

(* A user name can only be changed by a session without a lock.            *)
LEMMA Names ==
    ASSUME LockInv, NEW s \in Session, NEW a \in Account, User(s, a)
    PROVE  LockInv' /\ [Lease!Next]_LeaseOf
<1>1. LockType'
  BY DEF User, LockInv, LockType, Name
<1>2. /\ ~Holds(s)
      /\ UNCHANGED <<activeMailboxes, pc>>
      /\ \A t \in Session : t # s => userName'[t] = userName[t]
  BY DEF User, LockInv, LockType, Holds
<1>3. \A t \in Session : Holds(t)' <=> Holds(t)
  BY <1>2 DEF Holds
<1>4. LockTableExact'
  BY <1>2, <1>3 DEF LockInv, LockTableExact
<1>5. UNCHANGED LeaseOf
  BY <1>2, <1>3 DEF LeaseOf
<1>. QED
  BY <1>1, <1>4, <1>5 DEF LockInv

(* Steps that leave the table and the names alone move a session at most   *)
(* from one phase with a lock to another, or from one without to another.  *)
LEMMA OtherSteps ==
    ASSUME LockInv, NEW s \in Session,
           UNCHANGED <<activeMailboxes, userName>>,
           \/ UNCHANGED pc
           \/ pc[s] = "new" /\ Goto(s, "authorization")
           \/ pc[s] \in {"authorization", "unlocked"} /\ Goto(s, "gone")
           \/ /\ pc[s] \in {"locked", "connecting", "transaction", "quitting"}
              /\ \E p \in {"connecting", "transaction", "quitting", "stuck",
                           "closing"} : Goto(s, p)
    PROVE  LockInv' /\ [Lease!Next]_LeaseOf
<1>1. CASE UNCHANGED pc
  BY <1>1 DEF LockInv, LockType, LockTableExact, Holds, LeaseOf
<1>2. CASE pc[s] = "new" /\ Goto(s, "authorization")
  BY <1>2, SameSide DEF Holds, Phases
<1>3. CASE pc[s] \in {"authorization", "unlocked"} /\ Goto(s, "gone")
  BY <1>3, SameSide DEF Holds, Phases
<1>4. CASE /\ pc[s] \in {"locked", "connecting", "transaction", "quitting"}
           /\ \E p \in {"connecting", "transaction", "quitting", "stuck",
                        "closing"} : Goto(s, p)
  <2>1. PICK p \in {"connecting", "transaction", "quitting", "stuck", "closing"} :
           Goto(s, p)
    BY <1>4
  <2>2. Holds(s) /\ p \in Phases
    BY <1>4 DEF Holds, Phases
  <2>. QED
    BY <2>1, <2>2, SameSide
<1>. QED
  BY <1>1, <1>2, <1>3, <1>4

LEMMA NextLockInv == LockInv /\ [Next]_vars => LockInv' /\ [Lease!Next]_LeaseOf
<1>. SUFFICES ASSUME LockInv, [Next]_vars PROVE LockInv' /\ [Lease!Next]_LeaseOf
  OBVIOUS
<1>. USE DEF Reads, Throws
<1>1. CASE UNCHANGED vars
  BY <1>1 DEF vars, LockInv, LockType, LockTableExact, Holds, LeaseOf
<1>. SUFFICES ASSUME NEW s \in Session, SessionStep(s) PROVE LockInv' /\ [Lease!Next]_LeaseOf
  BY <1>1 DEF Next
<1>2. CASE Connect(s)
  BY <1>2, OtherSteps DEF Connect
<1>3. ASSUME NEW a \in Account, User(s, a) PROVE LockInv' /\ [Lease!Next]_LeaseOf
  BY <1>3, Names
<1>4. CASE PassLocks(s)
  BY <1>4, Locks
<1>5. CASE PassDenied(s)
  BY <1>5, GivesBack DEF PassDenied, Holds
<1>6. CASE PassLogsOn(s)
  BY <1>6, OtherSteps DEF PassLogsOn
<1>7. CASE PassStorage(s)
  BY <1>7, OtherSteps DEF PassStorage
<1>8. CASE PassConnects(s)
  BY <1>8, OtherSteps DEF PassConnects
<1>9. CASE Stat(s)
  BY <1>9, OtherSteps DEF Stat
<1>10. CASE DeleAll(s)
  BY <1>10, OtherSteps DEF DeleAll
<1>11. CASE Rset(s)
  BY <1>11, OtherSteps DEF Rset
<1>12. ASSUME NEW n \in Number, Retr(s, n) PROVE LockInv' /\ [Lease!Next]_LeaseOf
  BY <1>12, OtherSteps DEF Retr
<1>13. ASSUME NEW n \in Number, Dele(s, n) PROVE LockInv' /\ [Lease!Next]_LeaseOf
  BY <1>13, OtherSteps DEF Dele
<1>14. CASE Quit(s)
  BY <1>14, OtherSteps DEF Quit
<1>15. CASE QuitWritten(s)
  BY <1>15, OtherSteps DEF QuitWritten
<1>16. CASE Dropped(s)
  BY <1>16, OtherSteps DEF Dropped
<1>17. CASE Unlock(s)
  BY <1>17, GivesBack DEF Unlock, Holds
<1>18. CASE RemoveNext(s)
  BY <1>18, OtherSteps DEF RemoveNext
<1>19. CASE Gone(s)
  BY <1>19, OtherSteps DEF Gone
<1>. QED
  BY <1>2, <1>3, <1>4, <1>5, <1>6, <1>7, <1>9, <1>10, <1>11, <1>12, <1>13,
     <1>14, <1>15, <1>16, <1>17, <1>18, <1>19, <1>8 DEF SessionStep

(* The table of active mailboxes is exact in every reachable state.        *)
THEOREM LockTableIsExact == Spec => []LockTableExact
<1>1. LockInv => LockTableExact
  BY DEF LockInv
<1>. QED
  BY InitLockInv, NextLockInv, <1>1, PTL DEF Spec

(* The locks of the service implement the lease: MailboxLock objects and   *)
(* the table together never give a name to two sessions, and only the      *)
(* session that holds a name gives it back.                                *)
THEOREM ServiceImplementsLease == Spec => LeaseSpec
<1>. QED
  BY InitLockInv, NextLockInv, PTL DEF Spec, LeaseSpec, Lease!Spec, LeaseOf

-----------------------------------------------------------------------------
(* The mailboxes.  As in MaildropProofs, what a session has acknowledged   *)
(* is what its marks stand for, and the flags of the storages tell whether *)
(* its QUIT was acknowledged; a session that has thrown is exempt, because *)
(* DELE sets the mark before it may throw.                                 *)
Marked(s) == UNION {MarkedIn(mailbox[s][k]) : k \in DOMAIN mailbox[s]}

Sound(s) == \A k \in DOMAIN mailbox[s] : SoundMarks(mailbox[s][k])

Promises(s) == pc[s] # "stuck" => acked[s] = Marked(s)

Flags(s) == \A k \in DOMAIN mailbox[s] : mailbox[s][k].updateAtClose = quitAcked[s]

Phased(s) ==
    /\ pc[s] \in {"new", "authorization", "locked"} => mailbox[s] = << >>
    /\ quitAcked[s] => pc[s] \in {"closing", "unlocked", "gone"}

Removals(s) ==
    /\ removed[s] # {} => quitAcked[s]
    /\ removed[s] \subseteq acked[s]
    /\ pc[s] = "gone" => removed[s] = (IF quitAcked[s] THEN acked[s] ELSE {})

SessionInv(s) == Sound(s) /\ Promises(s) /\ Flags(s) /\ Phased(s) /\ Removals(s)

IInv == TypeOK /\ \A s \in Session : SessionInv(s)

(* The variables of a session.                                             *)
Of(s) == <<pc[s], userName[s], mailbox[s], acked[s], quitAcked[s], removed[s]>>

LEMMA OthersKeep ==
    ASSUME IInv, NEW s \in Session, TypeOK', SessionInv(s)',
           \A t \in Session : t # s => UNCHANGED Of(t)
    PROVE  IInv'
<1>1. ASSUME NEW t \in Session, t # s PROVE SessionInv(t)'
  BY <1>1 DEF IInv, SessionInv, Of, Marked, Sound, Promises, Flags, Phased, Removals
<1>. QED
  BY <1>1 DEF IInv

LEMMA InitIInv == Init => IInv
  BY DEF Init, IInv, TypeOK, Phases, Name, SessionInv, Marked, Sound, Promises,
         Flags, Phased, Removals

(* A function with the domain of a sequence is a sequence.                 *)
LEMMA SameLength ==
    ASSUME NEW S, NEW T, NEW q \in Seq(S), NEW g,
           g = [k \in DOMAIN q |-> g[k]], \A k \in DOMAIN q : g[k] \in T
    PROVE  g \in Seq(T)
<1>1. DOMAIN q = 1 .. Len(q) /\ Len(q) \in Nat
  OBVIOUS
<1>2. g \in [1 .. Len(q) -> T]
  BY <1>1
<1>. QED
  BY <1>1, <1>2

(* Steps that move a session on and touch no mailbox.                      *)
LEMMA QuietIInv ==
    ASSUME IInv, NEW s \in Session, NEW p \in Phases,
           activeMailboxes' \in SUBSET Name,
           paths' \in [Session -> Seq(Dir)],
           pc' = [pc EXCEPT ![s] = p],
           pc[s] \notin {"stuck", "gone"},
           p \in {"new", "authorization", "locked"}
               => pc[s] \in {"new", "authorization", "locked"} \/ mailbox[s] = << >>,
           pc[s] \in {"closing", "unlocked"} => p \in {"closing", "unlocked"},
           p = "gone" => ~quitAcked[s],
           UNCHANGED <<disk, userName, mailbox, acked, quitAcked, removed>>
    PROVE  IInv'
<1>1. TypeOK'
  BY DEF IInv, TypeOK
<1>2. /\ pc'[s] = p
      /\ \A t \in Session : t # s => UNCHANGED Of(t)
  BY DEF IInv, TypeOK, Of
<1>3. SessionInv(s)'
  <2>. USE <1>2 DEF IInv, SessionInv
  <2>1. Sound(s)' /\ Flags(s)'
    BY DEF Sound, Flags
  <2>2. Promises(s)'
    <3>1. UNCHANGED Marked(s)
      BY Zenon DEF Marked
    <3>. QED
      BY <3>1, Zenon DEF Promises
  <2>3. Phased(s)'
    BY DEF Phased
  <2>4. Removals(s)'
    BY DEF Removals
  <2>. QED
    BY <2>1, <2>2, <2>3, <2>4
<1>. QED
  BY <1>1, <1>2, <1>3, OthersKeep

LEMMA UserIInv ==
    ASSUME IInv, NEW s \in Session, NEW a \in Account, User(s, a) PROVE IInv'
<1>1. TypeOK'
  BY DEF User, IInv, TypeOK, Name
<1>2. \A t \in Session : UNCHANGED <<pc[t], mailbox[t], acked[t], quitAcked[t], removed[t]>>
  BY DEF User
<1>3. \A t \in Session : SessionInv(t)'
  BY <1>2 DEF IInv, SessionInv, Marked, Sound, Promises, Flags, Phased, Removals
<1>. QED
  BY <1>1, <1>3 DEF IInv

(* A login appends a fresh storage over files that are on the disk, in the *)
(* directory whose turn it is, or skips it.                                *)
LEMMA Opening ==
    ASSUME TypeOK, NEW s \in Session, PassStorage(s)
    PROVE  \/ UNCHANGED mailbox
           \/ \E st \in Storages(File) :
                 /\ mailbox' = [mailbox EXCEPT ![s] = Append(mailbox[s], st)]
                 /\ SoundMarks(st) /\ MarkedIn(st) = {} /\ st.updateAtClose = FALSE
                 /\ ToSet(st.emails) \subseteq disk
                 /\ \A f \in ToSet(st.emails) : HomeOf[f] = Head(paths[s])
<1>. DEFINE D == {f \in disk : HomeOf[f] = Head(paths[s])}
<1>1. SUFFICES ASSUME NEW l \in SetToSeqs(D),
                      mailbox' = [mailbox EXCEPT ![s] = Append(mailbox[s], NewStorage(l))]
      PROVE  \E st \in Storages(File) :
                /\ mailbox' = [mailbox EXCEPT ![s] = Append(mailbox[s], st)]
                /\ SoundMarks(st) /\ MarkedIn(st) = {} /\ st.updateAtClose = FALSE
                /\ ToSet(st.emails) \subseteq D
  BY DEF PassStorage, Listings
<1>2. D \in SUBSET File
  BY DEF TypeOK
<1>3. IsFiniteSet(D)
  BY <1>2, FS_Subset, ServiceAssumption
<1>. HIDE DEF D
<1>4. l \in Seq(D) /\ ToSet(l) \subseteq D
  BY <1>1, <1>3, OrderingOf
<1>5. l \in Seq(File)
  BY <1>2, <1>4
<1>. DEFINE st == NewStorage(l)
<1>6. /\ st \in Storages(File) /\ SoundMarks(st) /\ MarkedIn(st) = {}
      /\ st.updateAtClose = FALSE /\ st.emails = l
  BY <1>5, FreshStorage
<1>. HIDE DEF st
<1>7. mailbox' = [mailbox EXCEPT ![s] = Append(mailbox[s], st)]
  BY <1>1 DEF st
<1>. QED
  BY <1>4, <1>6, <1>7

LEMMA PassStorageIInv ==
    ASSUME IInv, NEW s \in Session, PassStorage(s) PROVE IInv'
<1>1. /\ pc[s] = "connecting" /\ pc' = [pc EXCEPT ![s] = "connecting"]
      /\ paths' \in [Session -> Seq(Dir)]
      /\ UNCHANGED <<disk, activeMailboxes, pc, userName, acked, quitAcked, removed>>
  BY DEF PassStorage, IInv, TypeOK
<1>2. CASE UNCHANGED mailbox
  BY <1>1, <1>2, QuietIInv DEF IInv, TypeOK, Phases
<1>3. ASSUME NEW st \in Storages(File),
             mailbox' = [mailbox EXCEPT ![s] = Append(mailbox[s], st)],
             SoundMarks(st), MarkedIn(st) = {}, st.updateAtClose = FALSE
      PROVE  IInv'
  <2>. DEFINE old == mailbox[s]
              mb  == Append(old, st)
  <2>1. SessionInv(s) /\ old \in Seq(Storages(File))
    BY DEF IInv, TypeOK
  <2>2. /\ mb \in Seq(Storages(File))
        /\ DOMAIN mb = DOMAIN old \cup {Len(old) + 1}
        /\ Len(old) + 1 \notin DOMAIN old
        /\ \A k \in DOMAIN old : mb[k] = old[k]
        /\ mb[Len(old) + 1] = st
    BY <2>1
  <2>. HIDE DEF mb
  <2>3. /\ mailbox'[s] = mb
        /\ \A t \in Session : t # s => UNCHANGED Of(t)
    BY <1>1, <1>3 DEF IInv, TypeOK, Of, mb
  <2>4. TypeOK'
    <3>1. mailbox' \in [Session -> Seq(Storages(File))]
      BY <1>3, <2>2 DEF IInv, TypeOK, mb
    <3>. QED
      BY <1>1, <3>1 DEF IInv, TypeOK
  <2>5. UNCHANGED Marked(s)
    <3>1. \A k \in DOMAIN old : MarkedIn(mb[k]) = MarkedIn(old[k])
      BY <2>2
    <3>2. MarkedIn(mb[Len(old) + 1]) = {}
      BY <1>3, <2>2
    <3>3. \A f : (\E k \in DOMAIN mb : f \in MarkedIn(mb[k]))
                  <=> (\E k \in DOMAIN old : f \in MarkedIn(old[k]))
      BY <2>2, <3>1, <3>2, Zenon
    <3>4. UNION {MarkedIn(mb[k]) : k \in DOMAIN mb}
              = UNION {MarkedIn(old[k]) : k \in DOMAIN old}
      BY <3>3
    <3>. QED
      BY <2>3, <3>4 DEF Marked
  <2>6. Promises(s)'
    BY <1>1, <2>1, <2>5 DEF SessionInv, Promises
  <2>7. quitAcked[s] = FALSE
    BY <1>1, <2>1 DEF SessionInv, Phased, IInv, TypeOK
  <2>8. Sound(s)' /\ Flags(s)'
    BY <1>1, <1>3, <2>1, <2>2, <2>3, <2>7 DEF SessionInv, Sound, Flags
  <2>9. Phased(s)' /\ Removals(s)'
    BY <1>1, <2>1 DEF SessionInv, Phased, Removals
  <2>. QED
    BY <2>3, <2>4, <2>6, <2>8, <2>9, OthersKeep DEF SessionInv
<1>4. TypeOK
  BY DEF IInv
<1>. QED
  BY <1>2, <1>3, <1>4, Opening

(* Commands that replace the mailbox of a session that is logged in by one *)
(* with the same flags.                                                    *)
LEMMA MarkingIInv ==
    ASSUME IInv, NEW s \in Session, pc[s] = "transaction",
           NEW p \in {"transaction", "stuck"}, Goto(s, p),
           NEW mb \in Seq(Storages(File)),
           mailbox' = [mailbox EXCEPT ![s] = mb],
           \A k \in DOMAIN mb : SoundMarks(mb[k]) /\ mb[k].updateAtClose = FALSE,
           NEW done \in SUBSET File,
           acked' = [acked EXCEPT ![s] = done],
           p # "stuck" => done = UNION {MarkedIn(mb[k]) : k \in DOMAIN mb},
           UNCHANGED <<disk, activeMailboxes, userName, paths, quitAcked, removed>>
    PROVE  IInv'
<1>1. /\ pc'[s] = p
      /\ mailbox'[s] = mb
      /\ acked'[s] = done
      /\ \A t \in Session : t # s => UNCHANGED Of(t)
  BY DEF IInv, TypeOK, Goto, Of
<1>2. TypeOK'
  BY DEF IInv, TypeOK, Goto, Phases
<1>3. ~quitAcked[s] /\ quitAcked[s] = FALSE /\ removed[s] = {}
  BY DEF IInv, SessionInv, Phased, Removals, TypeOK
<1>4. Sound(s)' /\ Flags(s)'
  BY <1>1, <1>3 DEF Sound, Flags
<1>5. Marked(s)' = UNION {MarkedIn(mb[k]) : k \in DOMAIN mb}
  BY <1>1 DEF Marked
<1>6. Promises(s)'
  BY <1>1, <1>5, Zenon DEF Promises
<1>7. Phased(s)' /\ Removals(s)'
  BY <1>1, <1>3 DEF Phased, Removals
<1>. QED
  BY <1>1, <1>2, <1>4, <1>6, <1>7, OthersKeep DEF SessionInv

LEMMA DeleIInv ==
    ASSUME IInv, NEW s \in Session, NEW n \in Number, Dele(s, n) PROVE IInv'
<1>. DEFINE old == mailbox[s]
            mb  == DeleteEmail(old, n)
            f   == EmailAt(old, n)
<1>0. PICK p \in {"transaction", "stuck"} :
         /\ Goto(s, p)
         /\ acked' = [acked EXCEPT ![s] = IF p = "stuck" THEN acked[s] ELSE acked[s] \cup {f}]
  BY DEF Dele, Reads, Throws, IInv, TypeOK
<1>. DEFINE done == IF p = "stuck" THEN acked[s] ELSE acked[s] \cup {f}
<1>1. /\ pc[s] = "transaction" /\ Readable(old, n) /\ Goto(s, p)
      /\ mailbox' = [mailbox EXCEPT ![s] = mb]
      /\ acked' = [acked EXCEPT ![s] = done]
      /\ UNCHANGED <<disk, activeMailboxes, userName, paths, quitAcked, removed>>
  BY <1>0 DEF Dele
<1>2. SessionInv(s) /\ old \in Seq(Storages(File)) /\ n \in Nat
  BY ServiceAssumption DEF IInv, TypeOK, Number
<1>3. \A k \in DOMAIN old : old[k] \in Storages(File) /\ SoundMarks(old[k])
  BY <1>2 DEF SessionInv, Sound
<1>4. /\ f \in File
      /\ DOMAIN mb = DOMAIN old
      /\ mb = [j \in DOMAIN old |-> mb[j]]
      /\ \A j \in DOMAIN old :
            /\ mb[j] \in Storages(File)
            /\ SoundMarks(mb[j])
            /\ mb[j].updateAtClose = old[j].updateAtClose
            /\ mb[j].emails = old[j].emails
            /\ MarkedIn(mb[j]) \in {MarkedIn(old[j]), MarkedIn(old[j]) \cup {f}}
      /\ \E j \in DOMAIN old : f \in MarkedIn(mb[j])
  BY <1>1, <1>2, <1>3, Marking, Zenon
<1>5. /\ done \in SUBSET File
      /\ p \in {"transaction", "stuck"}
      /\ p # "stuck" => done = acked[s] \cup {f}
  BY <1>4 DEF IInv, TypeOK
<1>6. acked[s] = Marked(s) /\ quitAcked[s] = FALSE
  BY <1>1, <1>2 DEF SessionInv, Promises, Phased, IInv, TypeOK
<1>. HIDE DEF mb, f, done
<1>7. mb \in Seq(Storages(File))
  BY <1>2, <1>4, SameLength, Zenon
<1>8. UNION {MarkedIn(mb[k]) : k \in DOMAIN mb} = Marked(s) \cup {f}
  <2>. DEFINE U == UNION {MarkedIn(mb[k]) : k \in DOMAIN mb}
  <2>1. \A x : x \in U <=> \E k \in DOMAIN mb : x \in MarkedIn(mb[k])
    OBVIOUS
  <2>2. \A x : x \in Marked(s) <=> \E k \in DOMAIN old : x \in MarkedIn(old[k])
    BY DEF Marked
  <2>. HIDE DEF U
  <2>3. f \in U
    BY <1>4, <2>1
  <2>4. ASSUME NEW x, x \in Marked(s) PROVE x \in U
    <3>1. PICK j \in DOMAIN old : x \in MarkedIn(old[j])
      BY <2>2, <2>4, Zenon
    <3>2. j \in DOMAIN mb /\ x \in MarkedIn(mb[j])
      BY <1>4, <3>1
    <3>. QED
      BY <2>1, <3>2, Zenon
  <2>5. ASSUME NEW x, x \in U, x # f PROVE x \in Marked(s)
    <3>1. PICK j \in DOMAIN mb : x \in MarkedIn(mb[j])
      BY <2>1, <2>5, Zenon
    <3>2. j \in DOMAIN old /\ x \in MarkedIn(old[j])
      BY <1>4, <2>5, <3>1
    <3>. QED
      BY <2>2, <3>2, Zenon
  <2>. QED
    BY <2>3, <2>4, <2>5 DEF U
<1>9. \A k \in DOMAIN mb : SoundMarks(mb[k]) /\ mb[k].updateAtClose = FALSE
  BY <1>2, <1>4, <1>6 DEF SessionInv, Flags
<1>. QED
  BY <1>1, <1>5, <1>6, <1>7, <1>8, <1>9, MarkingIInv

LEMMA DeleAllIInv == ASSUME IInv, NEW s \in Session, DeleAll(s) PROVE IInv'
<1>. DEFINE old == mailbox[s]
            mb  == DeleteEmails(old)
<1>1. /\ pc[s] = "transaction" /\ pc' = pc /\ acked' = acked
      /\ mailbox' = [mailbox EXCEPT ![s] = mb]
      /\ UNCHANGED <<disk, activeMailboxes, userName, paths, quitAcked, removed>>
  BY DEF DeleAll
<1>2. SessionInv(s) /\ old \in Seq(Storages(File))
  BY DEF IInv, TypeOK
<1>3. DOMAIN mb = DOMAIN old /\ mb = [k \in DOMAIN old |-> mb[k]]
  BY DEF DeleteEmails
<1>4. \A k \in DOMAIN old :
         /\ mb[k] \in Storages(File)
         /\ SoundMarks(mb[k])
         /\ MarkedIn(mb[k]) = MarkedIn(old[k])
         /\ mb[k].updateAtClose = old[k].updateAtClose
  BY <1>2, DeleteAllKeepsMarks DEF DeleteEmails, SessionInv, Sound
<1>. HIDE DEF mb
<1>5. mb \in Seq(Storages(File))
  BY <1>2, <1>3, <1>4, SameLength, Zenon
<1>6. acked[s] = Marked(s) /\ quitAcked[s] = FALSE
  BY <1>1, <1>2 DEF SessionInv, Promises, Phased, IInv, TypeOK
<1>7. UNION {MarkedIn(mb[k]) : k \in DOMAIN mb} = Marked(s)
  <2>1. \A k \in DOMAIN mb : MarkedIn(mb[k]) = MarkedIn(old[k])
    BY <1>3, <1>4
  <2>2. DOMAIN mb = DOMAIN mailbox[s]
    BY <1>3
  <2>. QED
    BY <2>1, <2>2 DEF Marked
<1>8. \A k \in DOMAIN mb : SoundMarks(mb[k]) /\ mb[k].updateAtClose = FALSE
  BY <1>2, <1>3, <1>4, <1>6 DEF SessionInv, Flags
<1>9. /\ Goto(s, "transaction")
      /\ acked' = [acked EXCEPT ![s] = acked[s]]
      /\ acked[s] \in SUBSET File
  BY <1>1 DEF Goto, IInv, TypeOK
<1>. QED
  BY <1>1, <1>5, <1>6, <1>7, <1>8, <1>9, MarkingIInv

LEMMA RsetIInv == ASSUME IInv, NEW s \in Session, Rset(s) PROVE IInv'
<1>. DEFINE old == mailbox[s]
            mb  == ResetMailbox(old)
<1>0. PICK p \in {"transaction", "stuck"} : Goto(s, p)
  BY DEF Rset, Reads, Throws
<1>1. /\ pc[s] = "transaction" /\ Goto(s, p)
      /\ mailbox' = [mailbox EXCEPT ![s] = mb]
      /\ acked' = [acked EXCEPT ![s] = {}]
      /\ UNCHANGED <<disk, activeMailboxes, userName, paths, quitAcked, removed>>
  BY <1>0 DEF Rset
<1>2. SessionInv(s) /\ old \in Seq(Storages(File))
  BY DEF IInv, TypeOK
<1>3. DOMAIN mb = DOMAIN old /\ mb = [k \in DOMAIN old |-> mb[k]]
  BY DEF ResetMailbox
<1>4. \A k \in DOMAIN old :
         /\ mb[k] \in Storages(File)
         /\ SoundMarks(mb[k])
         /\ MarkedIn(mb[k]) = {}
         /\ mb[k].updateAtClose = old[k].updateAtClose
  BY <1>2, ResetForgetsMarks DEF ResetMailbox
<1>. HIDE DEF mb
<1>5. mb \in Seq(Storages(File))
  BY <1>2, <1>3, <1>4, SameLength, Zenon
<1>6. quitAcked[s] = FALSE
  BY <1>1, <1>2 DEF SessionInv, Phased, IInv, TypeOK
<1>7. UNION {MarkedIn(mb[k]) : k \in DOMAIN mb} = {}
  <2>1. \A k \in DOMAIN mb : MarkedIn(mb[k]) = {}
    BY <1>3, <1>4
  <2>2. SUFFICES ASSUME NEW f \in UNION {MarkedIn(mb[k]) : k \in DOMAIN mb} PROVE FALSE
    OBVIOUS
  <2>3. \E k \in DOMAIN mb : f \in MarkedIn(mb[k])
    BY <2>2, Zenon
  <2>. QED
    BY <2>1, <2>3, Zenon
<1>8. \A k \in DOMAIN mb : SoundMarks(mb[k]) /\ mb[k].updateAtClose = FALSE
  BY <1>2, <1>3, <1>4, <1>6 DEF SessionInv, Flags
<1>. QED
  BY <1>1, <1>2, <1>5, <1>7, <1>8, MarkingIInv

LEMMA QuitWrittenIInv ==
    ASSUME IInv, NEW s \in Session, QuitWritten(s) PROVE IInv'
<1>. DEFINE old == mailbox[s]
            mb  == SetUpdate(old)
<1>1. /\ pc[s] = "quitting" /\ pc' = [pc EXCEPT ![s] = "closing"]
      /\ mailbox' = [mailbox EXCEPT ![s] = mb]
      /\ quitAcked' = [quitAcked EXCEPT ![s] = TRUE]
      /\ UNCHANGED <<disk, activeMailboxes, userName, paths, acked, removed>>
  BY DEF QuitWritten, Goto
<1>2. SessionInv(s) /\ old \in Seq(Storages(File))
  BY DEF IInv, TypeOK
<1>3. DOMAIN mb = DOMAIN old /\ mb = [k \in DOMAIN old |-> mb[k]]
  BY DEF SetUpdate
<1>4. \A k \in DOMAIN old :
         /\ mb[k] \in Storages(File)
         /\ SoundMarks(mb[k])
         /\ MarkedIn(mb[k]) = MarkedIn(old[k])
         /\ mb[k].updateAtClose = TRUE
  <2>1. \A k \in DOMAIN old : old[k] \in Storages(File) /\ SoundMarks(old[k])
    BY <1>2 DEF SessionInv, Sound
  <2>2. \A k \in DOMAIN old : mb[k] = SetUpdateFlag(old[k])
    BY DEF SetUpdate
  <2>. HIDE DEF mb
  <2>. QED
    BY <2>1, <2>2, FlagKeepsMarks
<1>. HIDE DEF mb
<1>5. mb \in Seq(Storages(File))
  BY <1>2, <1>3, <1>4, SameLength, Zenon
<1>6. /\ pc'[s] = "closing" /\ mailbox'[s] = mb /\ quitAcked'[s] = TRUE
      /\ \A t \in Session : t # s => UNCHANGED Of(t)
  BY <1>1 DEF IInv, TypeOK, Of
<1>7. TypeOK'
  BY <1>1, <1>5 DEF IInv, TypeOK, Phases
<1>8. UNCHANGED Marked(s)
  <2>1. \A k \in DOMAIN old : MarkedIn(mailbox'[s][k]) = MarkedIn(mailbox[s][k])
    BY <1>4, <1>6
  <2>2. DOMAIN mailbox'[s] = DOMAIN mailbox[s]
    BY <1>3, <1>6
  <2>. QED
    BY <2>1, <2>2 DEF Marked
<1>9. Promises(s)'
  BY <1>1, <1>2, <1>8 DEF SessionInv, Promises
<1>10. Sound(s)' /\ Flags(s)'
  BY <1>3, <1>4, <1>6 DEF Sound, Flags
<1>11. Phased(s)' /\ Removals(s)'
  BY <1>1, <1>2, <1>6 DEF SessionInv, Phased, Removals
<1>. QED
  BY <1>6, <1>7, <1>9, <1>10, <1>11, OthersKeep DEF SessionInv

(* What the destructor of a storage removes was marked, in a session whose *)
(* QUIT was acknowledged.                                                  *)
LEMMA Removing ==
    ASSUME IInv, NEW s \in Session, RemoveNext(s)
    PROVE  \E f \in acked[s] :
              /\ quitAcked[s] /\ f \in File
              /\ \E k \in DOMAIN mailbox[s] : f \in ToSet(mailbox[s][k].emails)
              /\ disk' = disk \ {f}
              /\ removed' = [removed EXCEPT ![s] = @ \cup {f}]
<1>1. PICK k \in RemovingStorages(mailbox[s], removed[s]) :
         LET f == EmailToRemove(mailbox[s][k], removed[s])
         IN  /\ disk' = disk \ {f}
             /\ removed' = [removed EXCEPT ![s] = @ \cup {f}]
  BY DEF RemoveNext
<1>. DEFINE f == EmailToRemove(mailbox[s][k], removed[s])
<1>2. SessionInv(s) /\ mailbox[s] \in Seq(Storages(File)) /\ pc[s] = "unlocked"
  BY DEF IInv, TypeOK, RemoveNext
<1>3. /\ k \in DOMAIN mailbox[s]
      /\ mailbox[s][k] \in Storages(File)
      /\ UnremovedMarks(mailbox[s][k], removed[s]) # {}
  BY <1>2 DEF RemovingStorages
<1>4. mailbox[s][k].updateAtClose /\ f \in MarkedIn(mailbox[s][k])
  BY <1>3, NextToRemove
<1>5. f \in ToSet(mailbox[s][k].emails) /\ f \in File
  BY <1>2, <1>3, <1>4, MarkedAreListed DEF SessionInv, Sound
<1>. HIDE DEF f
<1>6. f \in acked[s] /\ quitAcked[s]
  BY <1>2, <1>3, <1>4 DEF SessionInv, Promises, Flags, Marked
<1>7. disk' = disk \ {f} /\ removed' = [removed EXCEPT ![s] = @ \cup {f}]
  BY <1>1 DEF f
<1>. QED
  BY <1>3, <1>5, <1>6, <1>7

LEMMA RemoveNextIInv ==
    ASSUME IInv, NEW s \in Session, RemoveNext(s) PROVE IInv'
<1>1. PICK f \in acked[s] :
         /\ quitAcked[s] /\ f \in File
         /\ disk' = disk \ {f}
         /\ removed' = [removed EXCEPT ![s] = @ \cup {f}]
  BY Removing
<1>2. /\ pc[s] = "unlocked"
      /\ UNCHANGED <<activeMailboxes, pc, userName, paths, mailbox, acked, quitAcked>>
  BY DEF RemoveNext
<1>3. TypeOK'
  BY <1>1, <1>2 DEF IInv, TypeOK
<1>4. /\ removed'[s] = removed[s] \cup {f}
      /\ \A t \in Session : t # s => UNCHANGED Of(t)
  BY <1>1, <1>2 DEF IInv, TypeOK, Of
<1>5. UNCHANGED Marked(s)
  BY <1>2, Zenon DEF Marked
<1>6. Promises(s)'
  BY <1>2, <1>5 DEF IInv, SessionInv, Promises
<1>7. Sound(s)' /\ Flags(s)' /\ Phased(s)'
  BY <1>2 DEF IInv, SessionInv, Sound, Flags, Phased
<1>8. Removals(s)'
  BY <1>1, <1>2, <1>4 DEF IInv, SessionInv, Removals
<1>. QED
  BY <1>3, <1>4, <1>6, <1>7, <1>8, OthersKeep DEF SessionInv

(* A session is gone when every acknowledged deletion has been made.       *)
LEMMA GoneIInv == ASSUME IInv, NEW s \in Session, Gone(s) PROVE IInv'
<1>1. /\ pc[s] = "unlocked" /\ pc' = [pc EXCEPT ![s] = "gone"]
      /\ UNCHANGED <<disk, activeMailboxes, userName, paths, mailbox, acked, quitAcked, removed>>
  BY DEF Gone, Goto
<1>2. SessionInv(s) /\ mailbox[s] \in Seq(Storages(File))
  BY DEF IInv, TypeOK
<1>3. \A k \in DOMAIN mailbox[s] : UnremovedMarks(mailbox[s][k], removed[s]) = {}
  <2>1. DOMAIN mailbox[s] \in SUBSET Nat
    BY <1>2
  <2>. QED
    BY <2>1, NothingLeft DEF Gone
<1>4. acked[s] = Marked(s)
  BY <1>1, <1>2 DEF SessionInv, Promises
<1>5. ASSUME quitAcked[s] PROVE removed[s] = acked[s]
  <2>1. ASSUME NEW f \in Marked(s) PROVE f \in removed[s]
    <3>1. PICK k \in DOMAIN mailbox[s] : f \in MarkedIn(mailbox[s][k])
      BY <2>1 DEF Marked
    <3>2. mailbox[s][k].updateAtClose /\ UnremovedMarks(mailbox[s][k], removed[s]) = {}
      BY <1>2, <1>3, <1>5 DEF SessionInv, Flags
    <3>. QED
      BY <3>1, <3>2 DEF MarkedIn, UnremovedMarks
  <2>. QED
    BY <1>2, <1>4, <2>1 DEF SessionInv, Removals
<1>6. /\ pc'[s] = "gone"
      /\ \A t \in Session : t # s => UNCHANGED Of(t)
  BY <1>1 DEF IInv, TypeOK, Of
<1>7. TypeOK'
  BY <1>1 DEF IInv, TypeOK, Phases
<1>8. UNCHANGED Marked(s)
  BY <1>1, Zenon DEF Marked
<1>9. Promises(s)'
  BY <1>1, <1>4, <1>8 DEF Promises
<1>10. Sound(s)' /\ Flags(s)' /\ Phased(s)'
  BY <1>1, <1>2, <1>6 DEF SessionInv, Sound, Flags, Phased
<1>11. Removals(s)'
  BY <1>1, <1>2, <1>5, <1>6 DEF IInv, TypeOK, SessionInv, Removals
<1>. QED
  BY <1>6, <1>7, <1>9, <1>10, <1>11, OthersKeep DEF SessionInv

LEMMA NextIInv == IInv /\ [Next]_vars => IInv'
<1>. SUFFICES ASSUME IInv, [Next]_vars PROVE IInv'
  OBVIOUS
<1>. USE DEF Reads, Throws, Goto, Phases
<1>0. CASE UNCHANGED vars
  <2>1. \A t \in Session : UNCHANGED Of(t)
    BY <1>0 DEF vars, Of
  <2>2. TypeOK'
    BY <1>0 DEF vars, IInv, TypeOK
  <2>3. ASSUME NEW t \in Session PROVE SessionInv(t)'
    BY <1>0 DEF vars, IInv, SessionInv, Marked, Sound, Promises, Flags, Phased, Removals
  <2>. QED
    BY <2>2, <2>3 DEF IInv
<1>. SUFFICES ASSUME NEW s \in Session, SessionStep(s) PROVE IInv'
  BY <1>0 DEF Next
<1>a. /\ activeMailboxes \in SUBSET Name
      /\ userName[s] \in Name
      /\ paths \in [Session -> Seq(Dir)]
      /\ SessionInv(s)
  BY DEF IInv, TypeOK
<1>1. CASE Connect(s)
  BY <1>1, <1>a, QuietIInv DEF Connect
<1>2. ASSUME NEW a \in Account, User(s, a) PROVE IInv'
  BY <1>2, UserIInv
<1>3. CASE PassLocks(s)
  BY <1>3, <1>a, QuietIInv DEF PassLocks
<1>4. CASE PassDenied(s)
  BY <1>4, <1>a, QuietIInv DEF PassDenied
<1>5. CASE PassLogsOn(s)
  <2>1. paths' \in [Session -> Seq(Dir)]
    BY <1>5, <1>a, ServiceAssumption DEF PassLogsOn, Name
  <2>. QED
    BY <1>5, <1>a, <2>1, QuietIInv DEF PassLogsOn
<1>6. CASE PassStorage(s)
  BY <1>6, PassStorageIInv
<1>7. CASE PassConnects(s)
  BY <1>7, <1>a, QuietIInv DEF PassConnects
<1>8. CASE Stat(s)
  BY <1>8, <1>a, QuietIInv DEF Stat
<1>9. ASSUME NEW n \in Number, Retr(s, n) PROVE IInv'
  BY <1>9, <1>a, QuietIInv DEF Retr
<1>10. ASSUME NEW n \in Number, Dele(s, n) PROVE IInv'
  BY <1>10, DeleIInv
<1>11. CASE DeleAll(s)
  BY <1>11, DeleAllIInv
<1>12. CASE Rset(s)
  BY <1>12, RsetIInv
<1>13. CASE Quit(s)
  BY <1>13, <1>a, QuietIInv DEF Quit
<1>14. CASE QuitWritten(s)
  BY <1>14, QuitWrittenIInv
<1>15. CASE Dropped(s)
  <2>1. pc[s] = "authorization" => ~quitAcked[s]
    BY <1>a DEF SessionInv, Phased
  <2>. QED
    BY <1>15, <1>a, <2>1, QuietIInv DEF Dropped
<1>16. CASE Unlock(s)
  BY <1>16, <1>a, QuietIInv DEF Unlock
<1>17. CASE RemoveNext(s)
  BY <1>17, RemoveNextIInv
<1>18. CASE Gone(s)
  BY <1>18, GoneIInv
<1>. QED
  BY <1>1, <1>2, <1>3, <1>4, <1>5, <1>6, <1>8, <1>9, <1>10, <1>11, <1>12,
     <1>13, <1>14, <1>15, <1>16, <1>17, <1>18, <1>7 DEF SessionStep

THEOREM Invariance == Spec => []IInv
  BY InitIInv, NextIInv, PTL DEF Spec

(* Type correctness of the service: every mailbox is a sequence of         *)
(* storages of the file system, whatever the sessions do to each other.    *)
THEOREM TypeCorrect == Spec => []TypeOK
<1>1. IInv => TypeOK
  BY DEF IInv
<1>. QED
  BY Invariance, <1>1, PTL

(* The update of a session is made as a whole or not at all, although      *)
(* other sessions remove files and lists change under it.                  *)
THEOREM UpdatesAreAllOrNothing == Spec => []UpdateIsAllOrNothing
<1>1. IInv => UpdateIsAllOrNothing
  BY DEF IInv, SessionInv, Removals, UpdateIsAllOrNothing
<1>. QED
  BY Invariance, <1>1, PTL

-----------------------------------------------------------------------------
(* Files that vanish from under a session.  This needs the accounts not to *)
(* share directories: nothing in the service locks a directory.            *)
OwnDirectories ==
    \A a, b \in Account : \A i \in DOMAIN DirsOf[a], j \in DOMAIN DirsOf[b] :
        DirsOf[a][i] = DirsOf[b][j] => a = b

(* What a mailbox lists is in a directory of its account, and so is what   *)
(* PASS has still to list.                                                 *)
AtHome ==
    \A s \in Session :
        /\ \A k \in DOMAIN mailbox[s] :
              /\ userName[s] \in Account
              /\ \E i \in DOMAIN DirsOf[userName[s]] :
                    \A f \in ToSet(mailbox[s][k].emails) :
                        HomeOf[f] = DirsOf[userName[s]][i]
        /\ pc[s] = "connecting" =>
              /\ userName[s] \in Account
              /\ \A j \in DOMAIN paths[s] : \E i \in DOMAIN DirsOf[userName[s]] :
                    paths[s][j] = DirsOf[userName[s]][i]

VInv == IInv /\ AtHome /\ VanishesOnlyOnRequest

(* Except for PASS, a step leaves every listing and every name behind a    *)
(* listing as it is.                                                       *)
LEMMA ListingsStay ==
    ASSUME IInv, NEW s \in Session, SessionStep(s), ~PassStorage(s),
           NEW t \in Session
    PROVE  /\ DOMAIN mailbox'[t] = DOMAIN mailbox[t]
           /\ \A k \in DOMAIN mailbox[t] :
                 /\ mailbox'[t][k].emails = mailbox[t][k].emails
                 /\ userName'[t] = userName[t]
<1>1. /\ mailbox[t] \in Seq(Storages(File)) /\ SessionInv(t)
      /\ mailbox \in [Session -> Seq(Storages(File))]
  BY DEF IInv, TypeOK
<1>. DEFINE Same(mb) == /\ DOMAIN mb = DOMAIN mailbox[t]
                        /\ \A k \in DOMAIN mailbox[t] : mb[k].emails = mailbox[t][k].emails
<1>2. CASE UNCHANGED <<mailbox, userName>>
  BY <1>2
<1>3. ASSUME NEW a \in Account, User(s, a)
      PROVE  UNCHANGED mailbox /\ \A k \in DOMAIN mailbox[t] : userName'[t] = userName[t]
  <2>1. UNCHANGED mailbox /\ userName' = [userName EXCEPT ![s] = a] /\ pc[s] = "authorization"
    BY <1>3 DEF User
  <2>2. t = s => mailbox[t] = << >>
    BY <1>1, <2>1 DEF SessionInv, Phased
  <2>3. t # s => userName'[t] = userName[t]
    BY <2>1 DEF IInv, TypeOK
  <2>. QED
    BY <2>1, <2>2, <2>3
<1>4. ASSUME NEW mb, Same(mb) \/ t # s, mailbox' = [mailbox EXCEPT ![s] = mb],
             UNCHANGED userName
      PROVE  Same(mailbox'[t]) /\ userName'[t] = userName[t]
  BY <1>1, <1>4
<1>5. ASSUME NEW n \in Number, Dele(s, n), t = s PROVE Same(DeleteEmail(mailbox[s], n))
  <2>1. n \in Nat /\ Readable(mailbox[s], n)
    BY <1>5, ServiceAssumption DEF Number, Dele
  <2>2. \A k \in DOMAIN mailbox[s] :
           mailbox[s][k] \in Storages(File) /\ SoundMarks(mailbox[s][k])
    BY <1>1, <1>5 DEF SessionInv, Sound
  <2>. QED
    BY <1>5, <2>1, <2>2, Marking
<1>6. Same(DeleteEmails(mailbox[t]))
  BY <1>1 DEF DeleteEmails, StorageDeleteAll, Storages
<1>7. Same(ResetMailbox(mailbox[t]))
  BY <1>1 DEF ResetMailbox, StorageReset, Storages
<1>8. Same(SetUpdate(mailbox[t]))
  BY <1>1 DEF SetUpdate, SetUpdateFlag, Storages
<1>. HIDE DEF Same
<1>9. \/ UNCHANGED <<mailbox, userName>>
      \/ \E a \in Account : User(s, a)
      \/ Same(mailbox'[t]) /\ userName'[t] = userName[t]
  <2>1. ASSUME NEW n \in Number, Dele(s, n)
        PROVE  Same(mailbox'[t]) /\ userName'[t] = userName[t]
    BY <1>4, <1>5, <2>1 DEF Dele
  <2>2. CASE DeleAll(s)
    BY <1>4, <1>6, <2>2 DEF DeleAll
  <2>3. CASE Rset(s)
    BY <1>4, <1>7, <2>3 DEF Rset
  <2>4. CASE QuitWritten(s)
    BY <1>4, <1>8, <2>4 DEF QuitWritten
  <2>. QED
    BY <2>1, <2>2, <2>3, <2>4
    DEF SessionStep, Connect, PassLocks, PassDenied, PassLogsOn, PassConnects, Stat,
        Retr, Quit, Dropped, Unlock, RemoveNext, Gone
<1>. QED
  BY <1>2, <1>3, <1>9 DEF Same

(* A listing after a step was there before, or PASS has just made it.      *)
LEMMA ListedBefore ==
    ASSUME IInv, NEW u \in Session, SessionStep(u), NEW s \in Session,
           NEW k \in DOMAIN mailbox'[s]
    PROVE  \/ /\ k \in DOMAIN mailbox[s]
              /\ mailbox'[s][k].emails = mailbox[s][k].emails
              /\ userName'[s] = userName[s]
           \/ /\ s = u /\ PassStorage(u)
              /\ ToSet(mailbox'[s][k].emails) \subseteq disk
              /\ \A f \in ToSet(mailbox'[s][k].emails) : HomeOf[f] = Head(paths[s])
<1>1. CASE ~PassStorage(u)
  BY <1>1, ListingsStay
<1>2. CASE PassStorage(u)
  <2>1. userName' = userName /\ TypeOK /\ mailbox \in [Session -> Seq(Storages(File))]
    BY <1>2 DEF PassStorage, IInv, TypeOK
  <2>2. CASE UNCHANGED mailbox
    BY <2>1, <2>2
  <2>3. ASSUME NEW st \in Storages(File),
               mailbox' = [mailbox EXCEPT ![u] = Append(mailbox[u], st)],
               ToSet(st.emails) \subseteq disk,
               \A f \in ToSet(st.emails) : HomeOf[f] = Head(paths[u])
        PROVE  \/ /\ k \in DOMAIN mailbox[s]
                  /\ mailbox'[s][k] = mailbox[s][k]
               \/ s = u /\ mailbox'[s][k] = st
    BY <2>1, <2>3
  <2>. QED
    BY <1>2, <2>1, <2>2, <2>3, Opening
<1>. QED
  BY <1>1, <1>2

LEMMA AtHomeStays ==
    ASSUME IInv, AtHome, NEW u \in Session, SessionStep(u) PROVE AtHome'
<1>1. ASSUME NEW s \in Session, NEW k \in DOMAIN mailbox'[s]
      PROVE  /\ userName'[s] \in Account
             /\ \E i \in DOMAIN DirsOf[userName'[s]] :
                   \A f \in ToSet(mailbox'[s][k].emails) :
                       HomeOf[f] = DirsOf[userName'[s]][i]
  <2>1. CASE /\ s = u /\ PassStorage(u)
             /\ \A f \in ToSet(mailbox'[s][k].emails) : HomeOf[f] = Head(paths[s])
    <3>1. /\ pc[s] = "connecting" /\ userName' = userName
          /\ paths[s] \in Seq(Dir) /\ paths[s] # << >>
      BY <2>1 DEF PassStorage, IInv, TypeOK
    <3>2. 1 \in DOMAIN paths[s] /\ Head(paths[s]) = paths[s][1]
      BY <3>1
    <3>3. /\ userName[s] \in Account
          /\ \E i \in DOMAIN DirsOf[userName[s]] : paths[s][1] = DirsOf[userName[s]][i]
      BY <3>1, <3>2 DEF AtHome
    <3>. QED
      BY <2>1, <3>1, <3>2, <3>3
  <2>2. CASE /\ k \in DOMAIN mailbox[s]
             /\ mailbox'[s][k].emails = mailbox[s][k].emails
             /\ userName'[s] = userName[s]
    BY <2>2 DEF AtHome
  <2>. QED
    BY <2>1, <2>2, ListedBefore, <1>1
<1>2. ASSUME NEW s \in Session, pc'[s] = "connecting"
      PROVE  /\ userName'[s] \in Account
             /\ \A j \in DOMAIN paths'[s] : \E i \in DOMAIN DirsOf[userName'[s]] :
                   paths'[s][j] = DirsOf[userName'[s]][i]
  <2>1. CASE s = u /\ PassLogsOn(u)
    BY <2>1, ServiceAssumption DEF PassLogsOn, IInv, TypeOK, Name
  <2>2. CASE s = u /\ PassStorage(u)
    <3>1. /\ pc[s] = "connecting" /\ userName' = userName
          /\ paths[s] \in Seq(Dir) /\ paths[s] # << >>
          /\ paths'[s] = Tail(paths[s])
      BY <2>2 DEF PassStorage, IInv, TypeOK
    <3>2. \A j \in DOMAIN paths'[s] :
             j + 1 \in DOMAIN paths[s] /\ paths'[s][j] = paths[s][j + 1]
      BY <3>1
    <3>. QED
      BY <3>1, <3>2 DEF AtHome
  <2>3. CASE ~(s = u /\ (PassLogsOn(u) \/ PassStorage(u)))
    <3>1. pc[s] = "connecting" /\ userName'[s] = userName[s] /\ paths'[s] = paths[s]
      BY <1>2, <2>3 DEF IInv, TypeOK, SessionStep, Connect, User, PassLocks, PassDenied,
         PassLogsOn, PassStorage, PassConnects, Stat, DeleAll, Rset, Retr, Dele, Quit,
         QuitWritten, Dropped, Unlock, RemoveNext, Gone, Goto, Reads, Throws
    <3>. QED
      BY <3>1 DEF AtHome
  <2>. QED
    BY <2>1, <2>2, <2>3
<1>. QED
  BY <1>1, <1>2 DEF AtHome

(* The witness of a file that has vanished stays one.                      *)
Asked(t, s, f) ==
    /\ userName[t] = userName[s]
    /\ quitAcked[t] /\ f \in acked[t] /\ f \in removed[t]

LEMMA AskedStays ==
    ASSUME IInv, NEW u \in Session, SessionStep(u), NEW s \in Session, HasListing(s),
           NEW t \in Session, NEW f, Asked(t, s, f)
    PROVE  Asked(t, s, f)'
<1>1. pc[t] \in {"closing", "unlocked", "gone"}
  BY DEF IInv, SessionInv, Phased, Asked
<1>2. pc[s] \in {"connecting", "transaction", "quitting"}
  BY DEF HasListing
<1>3. UNCHANGED <<userName[s], userName[t]>>
  BY <1>1, <1>2 DEF IInv, TypeOK, SessionStep, Connect, User, PassLocks, PassDenied,
     PassLogsOn, PassStorage, PassConnects, Stat, DeleAll, Rset, Retr, Dele, Quit, QuitWritten,
     Dropped, Unlock, RemoveNext, Gone
<1>4. acked'[t] = acked[t]
  BY <1>1 DEF IInv, TypeOK, SessionStep, Connect, User, PassLocks, PassDenied,
     PassLogsOn, PassStorage, PassConnects, Stat, DeleAll, Rset, Retr, Dele, Quit, QuitWritten,
     Dropped, Unlock, RemoveNext, Gone
<1>5. quitAcked'[t] = quitAcked[t]
  BY <1>1 DEF IInv, TypeOK, SessionStep, Connect, User, PassLocks, PassDenied,
     PassLogsOn, PassStorage, PassConnects, Stat, DeleAll, Rset, Retr, Dele, Quit, QuitWritten,
     Dropped, Unlock, RemoveNext, Gone
<1>6. removed[t] \subseteq removed'[t]
  <2>1. CASE RemoveNext(u)
    <3>1. PICK f0 : removed' = [removed EXCEPT ![u] = @ \cup {f0}]
      BY <2>1, Removing
    <3>. QED
      BY <3>1 DEF IInv, TypeOK
  <2>. QED
    BY <2>1 DEF SessionStep, Connect, User, PassLocks, PassDenied,
       PassLogsOn, PassStorage, PassConnects, Stat, DeleAll, Rset, Retr, Dele, Quit, QuitWritten,
       Dropped, Unlock, Gone
<1>. QED
  BY <1>3, <1>4, <1>5, <1>6 DEF Asked

(* PASS is the only way to get a listing, and what it lists is on the disk. *)
LEMMA VanishesStep ==
    ASSUME OwnDirectories, VInv, NEW u \in Session, SessionStep(u)
    PROVE  VanishesOnlyOnRequest'
<1>. SUFFICES ASSUME NEW s \in Session, HasListing(s)',
                     NEW k \in DOMAIN mailbox'[s],
                     NEW f \in ToSet(mailbox'[s][k].emails), f \notin disk'
     PROVE  \E t \in Session \ {s} : Asked(t, s, f)'
  BY DEF VanishesOnlyOnRequest, Asked
<1>. USE DEF VInv
<1>1. CASE PassStorage(u) /\ ToSet(mailbox'[s][k].emails) \subseteq disk
  BY <1>1 DEF PassStorage
<1>. SUFFICES ASSUME ~(PassStorage(u) /\ ToSet(mailbox'[s][k].emails) \subseteq disk)
     PROVE  \E t \in Session \ {s} : Asked(t, s, f)'
  BY <1>1
<1>2. /\ k \in DOMAIN mailbox[s]
      /\ f \in ToSet(mailbox[s][k].emails)
      /\ userName'[s] = userName[s]
  <2>1. /\ k \in DOMAIN mailbox[s]
        /\ mailbox'[s][k].emails = mailbox[s][k].emails
        /\ userName'[s] = userName[s]
    BY ListedBefore
  <2>. QED
    BY <2>1
<1>3. HasListing(s)
  <2>1. SessionInv(s)
    BY DEF IInv
  <2>2. pc[s] # "locked"
    BY <1>2, <2>1 DEF SessionInv, Phased
  <2>. QED
    BY <2>2 DEF HasListing, IInv, TypeOK, SessionStep, Connect, User, PassLocks, PassDenied,
     PassLogsOn, PassStorage, PassConnects, Stat, DeleAll, Rset, Retr, Dele, Quit,
     QuitWritten, Dropped, Unlock, RemoveNext, Gone, Goto, Reads, Throws
<1>4. CASE f \notin disk
  <2>1. PICK t \in Session \ {s} : Asked(t, s, f)
    BY <1>3, <1>2, <1>4 DEF VanishesOnlyOnRequest, Asked
  <2>2. Asked(t, s, f)'
    BY <1>3, <2>1, AskedStays
  <2>. QED
    BY <2>2
<1>5. CASE f \in disk
  <2>1. RemoveNext(u)
    BY <1>5 DEF SessionStep, Connect, User, PassLocks, PassDenied,
       PassLogsOn, PassStorage, PassConnects, Stat, DeleAll, Rset, Retr, Dele, Quit, QuitWritten,
       Dropped, Unlock, Gone
  <2>2. PICK g \in acked[u] :
           /\ quitAcked[u]
           /\ \E j \in DOMAIN mailbox[u] : g \in ToSet(mailbox[u][j].emails)
           /\ disk' = disk \ {g}
           /\ removed' = [removed EXCEPT ![u] = @ \cup {g}]
    BY <2>1, Removing
  <2>3. g = f
    BY <1>5, <2>2
  <2>4. PICK j \in DOMAIN mailbox[u] : f \in ToSet(mailbox[u][j].emails)
    BY <2>2, <2>3
  <2>5. userName[u] = userName[s]
    <3>1. /\ userName[u] \in Account
          /\ \E i \in DOMAIN DirsOf[userName[u]] : HomeOf[f] = DirsOf[userName[u]][i]
      BY <2>4 DEF AtHome
    <3>2. /\ userName[s] \in Account
          /\ \E i \in DOMAIN DirsOf[userName[s]] : HomeOf[f] = DirsOf[userName[s]][i]
      BY <1>2 DEF AtHome
    <3>. QED
      BY <3>1, <3>2 DEF OwnDirectories
  <2>6. u # s
    BY <1>3, <2>1 DEF RemoveNext, HasListing
  <2>7. /\ removed'[u] = removed[u] \cup {f}
        /\ UNCHANGED <<userName, acked, quitAcked>>
    BY <2>1, <2>2, <2>3 DEF RemoveNext, IInv, TypeOK
  <2>. QED
    BY <2>2, <2>3, <2>5, <2>6, <2>7 DEF Asked
<1>. QED
  BY <1>4, <1>5

LEMMA NextVInv == OwnDirectories /\ VInv /\ [Next]_vars => VInv'
<1>. SUFFICES ASSUME OwnDirectories, VInv, [Next]_vars PROVE VInv'
  OBVIOUS
<1>1. IInv'
  BY NextIInv DEF VInv
<1>2. CASE UNCHANGED vars
  BY <1>1, <1>2 DEF vars, VInv, AtHome, VanishesOnlyOnRequest, HasListing
<1>3. ASSUME NEW s \in Session, SessionStep(s) PROVE VInv'
  BY <1>1, <1>3, AtHomeStays, VanishesStep DEF VInv
<1>. QED
  BY <1>2, <1>3 DEF Next

(* If no two accounts share a directory, a file disappears from under a    *)
(* session only because another client of the account asked for it.        *)
THEOREM FilesVanishOnRequest ==
    ASSUME OwnDirectories PROVE Spec => []VanishesOnlyOnRequest
<1>1. Init => VInv
  BY InitIInv DEF VInv, Init, AtHome, VanishesOnlyOnRequest, HasListing
<1>2. VInv /\ [Next]_vars => VInv'
  BY NextVInv
<1>3. VInv => VanishesOnlyOnRequest
  BY DEF VInv
<1>. QED
  BY <1>1, <1>2, <1>3, PTL DEF Spec

=============================================================================
