------------------------- MODULE POP3SystemProofs -------------------------
(* Proofs about POP3System: the composition is an execution of each of its *)
(* components, so what is proved of POP3Server and of MailboxService holds *)
(* of the whole server.                                                    *)
EXTENDS POP3System, TLAPS

(* The components together with what is proved about them.                 *)
SP == INSTANCE POP3ServerProofs WITH HandlersThrow <- TRUE

SV == INSTANCE MailboxServiceProofs

LEMMA Assumptions == SP!ServerAssumption /\ SV!ServiceAssumption
  BY SystemAssumption
  DEF Server!ServerAssumption, SP!ServerAssumption, Server!IsFiniteSet, SP!IsFiniteSet,
      Service!ServiceAssumption, SV!ServiceAssumption, Service!IsFiniteSet, SV!IsFiniteSet

LEMMA SameServer ==
    /\ Server!Init => SP!Init
    /\ Server!Next => SP!Next
    /\ Server!vars = SP!vars
<1>1. Server!Init => SP!Init
  BY DEF Server!Init, SP!Init
<1>2. Server!vars = SP!vars
  BY DEF Server!vars, SP!vars
<1>3. Server!Next => SP!Next
  BY
  DEF
      Server!Next, SP!Next, Server!AcceptCompletes, SP!AcceptCompletes,
      Server!AcceptHandler, SP!AcceptHandler, Server!Serve, SP!Serve,
      Server!SessionStep, SP!SessionStep, Server!CreateSession, SP!CreateSession,
      Server!FirstRead, SP!FirstRead, Server!StartTimer, SP!StartTimer,
      Server!OperationCompletes, SP!OperationCompletes, Server!PartCompletes,
      SP!PartCompletes, Server!OperationHandler, SP!OperationHandler,
      Server!HandleCommand, SP!HandleCommand, Server!HandlerThrows,
      SP!HandlerThrows, Server!DeleteFromSessions, SP!DeleteFromSessions,
      Server!TimerExpires, SP!TimerExpires, Server!TimerHandler, SP!TimerHandler,
      Server!TimerCancelsSocket, SP!TimerCancelsSocket, Server!Destroy, SP!Destroy,
      Server!CancelOne, SP!CancelOne, Server!QuitTyped, SP!QuitTyped,
      Server!AllCancelled, SP!AllCancelled, Server!CancelAcceptor,
      SP!CancelAcceptor, Server!Join, SP!Join, Server!Tick, SP!Tick, Server!Exited,
      SP!Exited, Server!Running, SP!Running, Server!Crashed, SP!Crashed,
      Server!BusyThreads, SP!BusyThreads, Server!ThreadIdle, SP!ThreadIdle,
      Server!MutexFree, SP!MutexFree, Server!Referenced, SP!Referenced,
      Server!Release, SP!Release, Server!SocketCancel, SP!SocketCancel,
      Server!TimerCancel, SP!TimerCancel, Server!OutstandingWork,
      SP!OutstandingWork, Server!Pending, SP!Pending, Server!Queued, SP!Queued,
      Server!InHandler, SP!InHandler, Server!Operating, SP!Operating,
      Server!Booting, SP!Booting, Server!clock, SP!clock, Server!vars, SP!vars,
      Server!Cardinality, SP!Cardinality
<1>. QED
  BY <1>1, <1>2, <1>3

(* Both instances of MailStorage are the same operators.                   *)
LEMMA SameMailboxes ==
    ASSUME NEW mb, NEW n
    PROVE  /\ Service!SizesRead(mb) = SV!SizesRead(mb)
           /\ Service!EmailAt(mb, n) = SV!EmailAt(mb, n)
           /\ Service!Readable(mb, n) <=> SV!Readable(mb, n)
           /\ Service!DeleteEmail(mb, n) = SV!DeleteEmail(mb, n)
           /\ Service!DeleteEmails(mb) = SV!DeleteEmails(mb)
           /\ Service!ResetMailbox(mb) = SV!ResetMailbox(mb)
           /\ Service!SetUpdate(mb) = SV!SetUpdate(mb)
           /\ Service!RemovingStorages(mb, n) = SV!RemovingStorages(mb, n)
           /\ Service!EmailToRemove(mb, n) = SV!EmailToRemove(mb, n)
<1>1. \A k : Service!Offset(mb, k) = SV!Offset(mb, k)
  BY DEF
      Service!Offset, SV!Offset, Service!MailboxCount, SV!MailboxCount,
      Service!FoldLeft, SV!FoldLeft, Service!MapThenFoldSet, SV!MapThenFoldSet,
      Service!Max, SV!Max, Service!StorageCount, SV!StorageCount
<1>2. \A st : Service!StorageListing(st, 0) = SV!StorageListing(st, 0)
  BY DEF
      Service!StorageListing, SV!StorageListing, Service!Email, SV!Email,
      Service!IsMailMarkedAsDeleted, SV!IsMailMarkedAsDeleted, Service!ToSet, SV!ToSet
<1>3. Service!SizesRead(mb) = SV!SizesRead(mb)
  BY <1>2 DEF Service!SizesRead, SV!SizesRead, Service!Range, SV!Range
<1>4. Service!EmailAt(mb, n) = SV!EmailAt(mb, n)
  BY DEF
      Service!Offset, SV!Offset, Service!MailboxCount, SV!MailboxCount,
      Service!FoldLeft, SV!FoldLeft, Service!MapThenFoldSet, SV!MapThenFoldSet,
      Service!Max, SV!Max, Service!StorageCount, SV!StorageCount,
      Service!LocalNumber, SV!LocalNumber, Service!Hits, SV!Hits,
      Service!FindStorage, SV!FindStorage, Service!NumberFound, SV!NumberFound,
      Service!EmailAt, SV!EmailAt, Service!Email, SV!Email
<1>5. Service!Readable(mb, n) <=> SV!Readable(mb, n)
  BY DEF
      Service!Offset, SV!Offset, Service!MailboxCount, SV!MailboxCount,
      Service!FoldLeft, SV!FoldLeft, Service!MapThenFoldSet, SV!MapThenFoldSet,
      Service!Max, SV!Max, Service!StorageCount, SV!StorageCount,
      Service!LocalNumber, SV!LocalNumber, Service!Hits, SV!Hits,
      Service!FindStorage, SV!FindStorage, Service!NumberFound, SV!NumberFound,
      Service!Readable, SV!Readable, Service!MarkedAt, SV!MarkedAt,
      Service!IsMailMarkedAsDeleted, SV!IsMailMarkedAsDeleted, Service!ToSet,
      SV!ToSet
<1>6. Service!DeleteEmail(mb, n) = SV!DeleteEmail(mb, n)
  BY DEF
      Service!Offset, SV!Offset, Service!MailboxCount, SV!MailboxCount,
      Service!FoldLeft, SV!FoldLeft, Service!MapThenFoldSet, SV!MapThenFoldSet,
      Service!Max, SV!Max, Service!StorageCount, SV!StorageCount,
      Service!LocalNumber, SV!LocalNumber, Service!Hits, SV!Hits,
      Service!FindStorage, SV!FindStorage, Service!NumberFound, SV!NumberFound,
      Service!DeleteEmail, SV!DeleteEmail, Service!StorageDeleteEmail,
      SV!StorageDeleteEmail, Service!IsMailMarkedAsDeleted,
      SV!IsMailMarkedAsDeleted, Service!ToSet, SV!ToSet
<1>7. /\ Service!DeleteEmails(mb) = SV!DeleteEmails(mb)
      /\ Service!ResetMailbox(mb) = SV!ResetMailbox(mb)
      /\ Service!SetUpdate(mb) = SV!SetUpdate(mb)
  BY DEF
      Service!DeleteEmails, SV!DeleteEmails, Service!StorageDeleteAll,
      SV!StorageDeleteAll, Service!ResetMailbox, SV!ResetMailbox,
      Service!StorageReset, SV!StorageReset, Service!SetUpdate, SV!SetUpdate,
      Service!SetUpdateFlag, SV!SetUpdateFlag
<1>8. /\ Service!RemovingStorages(mb, n) = SV!RemovingStorages(mb, n)
      /\ Service!EmailToRemove(mb, n) = SV!EmailToRemove(mb, n)
  BY DEF
      Service!RemovingStorages, SV!RemovingStorages, Service!EmailToRemove,
      SV!EmailToRemove, Service!UnremovedMarks, SV!UnremovedMarks, Service!Email,
      SV!Email, Service!Min, SV!Min
<1>. QED
  BY <1>3, <1>4, <1>5, <1>6, <1>7, <1>8

LEMMA SameService ==
    /\ Service!Init => SV!Init
    /\ Service!Next => SV!Next
    /\ Service!vars = SV!vars
<1>1. Service!Init => SV!Init
  BY DEF Service!Init, SV!Init
<1>2. Service!vars = SV!vars
  BY DEF Service!vars, SV!vars
<1>3. ASSUME NEW s \in Session, Service!PassStorage(s) PROVE SV!PassStorage(s)
  BY <1>3
  DEF
      Service!PassStorage, SV!PassStorage, Service!Listings, SV!Listings,
      Service!SetToSeqs, SV!SetToSeqs, Service!Cardinality, SV!Cardinality,
      Service!NewStorage, SV!NewStorage, Service!Goto, SV!Goto
<1>4. ASSUME NEW s \in Session, Service!SessionStep(s) PROVE SV!SessionStep(s)
  BY <1>3, <1>4, SameMailboxes
  DEF Service!SessionStep, SV!SessionStep,
      Service!Connect, SV!Connect, Service!User, SV!User, Service!PassLocks,
      SV!PassLocks, Service!PassDenied, SV!PassDenied, Service!PassLogsOn,
      SV!PassLogsOn, Service!PassConnects, SV!PassConnects, Service!Stat, SV!Stat,
      Service!Retr, SV!Retr, Service!Dele, SV!Dele, Service!DeleAll, SV!DeleAll,
      Service!Rset, SV!Rset, Service!Quit, SV!Quit, Service!QuitWritten,
      SV!QuitWritten, Service!Dropped, SV!Dropped, Service!Unlock, SV!Unlock,
      Service!RemoveNext, SV!RemoveNext, Service!Gone, SV!Gone, Service!Goto, SV!Goto,
      Service!Number, SV!Number, Service!Reads, SV!Reads, Service!Throws, SV!Throws
<1>5. Service!Next => SV!Next
  BY <1>4 DEF Service!Next, SV!Next
<1>. QED
  BY <1>1, <1>2, <1>5

-----------------------------------------------------------------------------
(* Every step of the composition is a step of the server or leaves it as   *)
(* it is, and the same for the service.                                    *)
LEMMA StepOfServer ==
    ASSUME NEW s \in Session,
           \/ BootStep(s) \/ HandlerStep(s) \/ NetworkStep(s)
           \/ OperationHandler(s) \/ DestructorStep(s)
           \/ Alone(Server!TimerExpires(s))
           \/ Alone(Server!TimerHandler(s))
           \/ Alone(Server!TimerCancelsSocket(s))
           \/ Alone(Server!CancelOne(s))
    PROVE  Server!SessionStep(s) \/ Server!CancelOne(s) \/ ServiceAlone
  BY DEF BootStep, CreateSession, HandlerStep, Command, CommandWithoutEffect, NetworkStep,
         OperationHandler, DestructorStep, DestroyMailbox, Destroy, Alone,
         Server!SessionStep

LEMMA StepOfService ==
    ASSUME NEW s \in Session,
           \/ BootStep(s) \/ HandlerStep(s) \/ NetworkStep(s)
           \/ OperationHandler(s) \/ DestructorStep(s)
           \/ Alone(Server!TimerExpires(s))
           \/ Alone(Server!TimerHandler(s))
           \/ Alone(Server!TimerCancelsSocket(s))
           \/ Alone(Server!CancelOne(s))
    PROVE  Service!SessionStep(s) \/ ServerAlone
  BY DEF BootStep, CreateSession, HandlerStep, Command, Executes, CommandWithoutEffect,
         NetworkStep, OperationHandler, DestructorStep, DestroyMailbox, Destroy, Alone,
         Service!SessionStep

LEMMA Simulation ==
    [Next]_vars => [Server!Next]_(Server!vars) /\ [Service!Next]_(Service!vars)
<1>. SUFFICES ASSUME [Next]_vars
     PROVE  [Server!Next]_(Server!vars) /\ [Service!Next]_(Service!vars)
  OBVIOUS
<1>1. ServiceAlone => UNCHANGED Server!vars
  BY DEF ServiceAlone, serverVars, Server!vars
<1>2. ServerAlone => UNCHANGED Service!vars
  BY DEF ServerAlone, serviceVars, Service!vars
<1>3. CASE UNCHANGED vars
  BY <1>1, <1>2, <1>3 DEF vars, ServerAlone, ServiceAlone
<1>4. CASE Next
  <2>1. ASSUME NEW s \in Session,
               \/ BootStep(s) \/ HandlerStep(s) \/ NetworkStep(s)
               \/ OperationHandler(s) \/ DestructorStep(s)
               \/ Alone(Server!TimerExpires(s))
               \/ Alone(Server!TimerHandler(s))
               \/ Alone(Server!TimerCancelsSocket(s))
               \/ Alone(Server!CancelOne(s))
        PROVE  [Server!Next]_(Server!vars) /\ [Service!Next]_(Service!vars)
    <3>1. Server!SessionStep(s) \/ Server!CancelOne(s) \/ ServiceAlone
      BY <2>1, StepOfServer
    <3>2. Service!SessionStep(s) \/ ServerAlone
      BY <2>1, StepOfService
    <3>. QED
      BY <1>1, <1>2, <3>1, <3>2 DEF Server!Next, Service!Next
  <2>. QED
    BY <1>2, <1>4, <2>1 DEF Next, ExitStep, Alone, Server!Next
<1>. QED
  BY <1>3, <1>4

(* The composition restricts its components and adds nothing to them.      *)
THEOREM SystemRunsComponents == Spec => Server!Spec /\ Service!Spec
<1>1. Init => Server!Init /\ Service!Init
  BY DEF Init
<1>. QED
  BY <1>1, Simulation, PTL DEF Spec, Server!Spec, Service!Spec

-----------------------------------------------------------------------------
(* How the two lives of a session are tied: the mailbox side of a session  *)
(* begins with its construction and ends before its destructor returns.    *)
Linked(s) ==
    /\ boot[s] \in {"none", "accepted"} <=> pc[s] = "new"
    /\ life[s] = "destroyed" => pc[s] = "gone"

(* How far the mailbox side can be, given what the chain is doing.  Only a *)
(* handler that executes a command is inside PASS, QUIT is remembered on   *)
(* both sides until its answer has been written, and what happens to the   *)
(* mailbox after the last operation is the destructor's doing.             *)
Chained(s) ==
    /\ chain[s] = "none" => ~quit[s] /\ pc[s] \in {"new", "authorization"}
    /\ chain[s] \in {"reading", "readMore", "readOk", "handling"} =>
          /\ ~quit[s]
          /\ pc[s] \in {"authorization", "transaction"}
             \/ (chain[s] = "handling" /\ pc[s] \in {"locked", "connecting"})
    /\ chain[s] \in {"writing", "writeMore", "writeOk", "failed"} =>
          /\ pc[s] \in {"authorization", "transaction", "quitting"}
          /\ pc[s] = "quitting" => quit[s]
          /\ quit[s] => pc[s] # "transaction"
    /\ chain[s] = "crashed" => pc[s] = "stuck"
    /\ chain[s] = "leaving" => pc[s] \in {"closing", "gone"}
    /\ chain[s] = "ended" => pc[s] \in {"closing", "unlocked", "gone"}
    /\ pc[s] = "unlocked" => life[s] = "dying"
    /\ quitAcked[s] => quit[s]
    /\ removed[s] # {} => life[s] \in {"dying", "destroyed"}

LInv ==
    /\ SP!IInv /\ SV!IInv /\ SV!LockInv
    /\ \A s \in Session : Linked(s) /\ Chained(s)

LEMMA InitLInv == Init => LInv
<1>1. Init => SP!IInv /\ SV!IInv /\ SV!LockInv
  BY Assumptions, SameServer, SameService, SP!InitIInv, SV!InitIInv, SV!InitLockInv
  DEF Init
<1>2. Init => \A s \in Session : Linked(s) /\ Chained(s)
  BY DEF Init, Server!Init, Service!Init, Linked, Chained
<1>. QED
  BY <1>1, <1>2 DEF LInv

(* The mailbox side begins exactly in the accept handler.                  *)
LEMMA BeginsOnce ==
    ASSUME LInv, Next, NEW x \in Session, ~CreateSession(x)
    PROVE  /\ boot'[x] \in {"none", "accepted"} <=> boot[x] \in {"none", "accepted"}
           /\ pc'[x] = "new" <=> pc[x] = "new"
<1>1. /\ boot \in [Session -> {"none", "accepted", "created", "reading", "done"}]
      /\ pc \in [Session -> SV!Phases]
  BY DEF LInv, SP!IInv, SP!TypeOK, SP!Booting, SV!IInv, SV!TypeOK
<1>2. boot'[x] \in {"none", "accepted"} <=> boot[x] \in {"none", "accepted"}
  BY <1>1
  DEF Next, BootStep, CreateSession, HandlerStep, Command, CommandWithoutEffect,
      NetworkStep, OperationHandler, DestructorStep, DestroyMailbox, Destroy, ExitStep,
      Alone, ServiceAlone, serverVars, Server!AcceptCompletes, Server!AcceptHandler,
      Server!Serve, Server!CreateSession, Server!FirstRead, Server!StartTimer,
      Server!OperationCompletes, Server!PartCompletes, Server!OperationHandler,
      Server!HandleCommand, Server!HandlerThrows, Server!DeleteFromSessions,
      Server!TimerExpires, Server!TimerHandler, Server!TimerCancelsSocket,
      Server!Destroy, Server!CancelOne, Server!QuitTyped, Server!AllCancelled,
      Server!CancelAcceptor, Server!Join, Server!Tick, Server!Exited, Server!vars
<1>3. pc'[x] = "new" <=> pc[x] = "new"
  BY <1>1
  DEF Next, BootStep, CreateSession, HandlerStep, Command, Executes,
      CommandWithoutEffect, NetworkStep, OperationHandler, DestructorStep,
      DestroyMailbox, Destroy, ExitStep, Alone, ServerAlone, serviceVars,
      Service!Connect, Service!User, Service!PassLocks, Service!PassDenied,
      Service!PassLogsOn, Service!PassStorage, Service!PassConnects,
      Service!Stat, Service!Retr, Service!Dele, Service!DeleAll, Service!Rset,
      Service!Quit, Service!QuitWritten, Service!Dropped, Service!Unlock,
      Service!RemoveNext, Service!Gone, Service!Goto, Service!Reads, Service!Throws, SV!Phases
<1>. QED
  BY <1>2, <1>3

(* The object is destroyed after its mailbox side is over, which stays so. *)
LEMMA EndsLast ==
    ASSUME LInv, Next, NEW x \in Session, life'[x] = "destroyed"
    PROVE  pc'[x] = "gone"
<1>1. /\ life \in [Session -> {"none", "alive", "dying", "destroyed"}]
      /\ pc \in [Session -> SV!Phases]
  BY DEF LInv, SP!IInv, SP!TypeOK, SV!IInv, SV!TypeOK
<1>2. life[x] = "destroyed" \/ pc[x] = "gone"
  BY <1>1
  DEF Next, BootStep, CreateSession, HandlerStep, Command, CommandWithoutEffect,
      NetworkStep, OperationHandler, DestructorStep, DestroyMailbox, Destroy, ExitStep,
      Alone, ServiceAlone, serverVars, Server!AcceptCompletes, Server!AcceptHandler,
      Server!Serve, Server!CreateSession, Server!FirstRead, Server!StartTimer,
      Server!OperationCompletes, Server!PartCompletes, Server!OperationHandler,
      Server!HandleCommand, Server!HandlerThrows, Server!DeleteFromSessions,
      Server!TimerExpires, Server!TimerHandler, Server!TimerCancelsSocket,
      Server!Release, Server!Destroy, Server!CancelOne, Server!QuitTyped,
      Server!AllCancelled, Server!CancelAcceptor, Server!Join, Server!Tick,
      Server!Exited, Server!vars
<1>3. pc[x] = "gone"
  BY <1>2 DEF LInv, Linked
<1>. QED
  BY <1>1, <1>3
  DEF Next, BootStep, CreateSession, HandlerStep, Command, Executes,
      CommandWithoutEffect, NetworkStep, OperationHandler, DestructorStep,
      DestroyMailbox, Destroy, ExitStep, Alone, ServerAlone, serviceVars,
      Service!Connect, Service!User, Service!PassLocks, Service!PassDenied,
      Service!PassLogsOn, Service!PassStorage, Service!PassConnects,
      Service!Stat, Service!Retr, Service!Dele, Service!DeleAll, Service!Rset,
      Service!Quit, Service!QuitWritten, Service!Dropped, Service!Unlock,
      Service!RemoveNext, Service!Gone, Service!Goto, Service!Reads, Service!Throws, SV!Phases

(* The types of what Chained mentions.                                     *)
SidesType ==
    /\ boot \in [Session -> {"none", "accepted", "created", "reading", "done"}]
    /\ chain \in [Session -> {"none", "reading", "writing", "readMore", "writeMore",
                              "readOk", "writeOk", "failed", "handling", "leaving",
                              "crashed", "ended"}]
    /\ quit \in [Session -> BOOLEAN]
    /\ life \in [Session -> {"none", "alive", "dying", "destroyed"}]
    /\ pc \in [Session -> SV!Phases]
    /\ quitAcked \in [Session -> BOOLEAN]
    /\ removed \in [Session -> SUBSET File]

LEMMA LInvSides == LInv => SidesType
  BY DEF LInv, SP!IInv, SP!TypeOK, SP!Booting, SP!Operating, SP!Pending, SP!Queued,
         SP!InHandler, SV!IInv, SV!TypeOK, SidesType

(* An object that is not referenced by its chain is not at work in it.     *)
LEMMA LifeOfChain ==
    ASSUME LInv, NEW s \in Session
    PROVE  /\ boot[s] \in {"none", "accepted"} <=> life[s] = "none"
           /\ boot[s] \in {"none", "accepted", "created"} <=> chain[s] = "none"
           /\ boot[s] \in {"created", "reading"} => life[s] = "alive"
           /\ chain[s] \in {"reading", "writing", "readMore", "writeMore", "readOk",
                            "writeOk", "failed", "handling", "leaving", "crashed"}
                 => life[s] = "alive"
           /\ timer[s] # "off" => life[s] = "alive"
  BY DEF LInv, SP!IInv, SP!SessionInv, SP!Referenced, SP!Operating, SP!Pending,
         SP!Queued, SP!InHandler

(* The steps that are commands of the session, or follow them.             *)
LEMMA CommandChained ==
    ASSUME LInv, NEW s \in Session, HandlerStep(s), NEW x \in Session
    PROVE  Chained(x)'
<1>. USE LInvSides, LifeOfChain
     DEF Linked, Chained, SidesType, SV!Phases, ServerAlone, ServiceAlone, serverVars,
         serviceVars
<1>0. Linked(x) /\ Chained(x) /\ Chained(s)
  BY DEF LInv
<1>1. CASE CommandWithoutEffect(s)
  BY <1>0, <1>1 DEF CommandWithoutEffect, Server!HandleCommand
<1>2. CASE Alone(Server!DeleteFromSessions(s))
  BY <1>0, <1>2 DEF Alone, Server!DeleteFromSessions, Server!Release
<1>3. CASE Command(s)
  <2>1. /\ pc' = [pc EXCEPT ![s] = pc'[s]] /\ pc'[s] \in SV!Phases
        /\ UNCHANGED <<quitAcked, removed>>
    BY <1>3
    DEF Command, Executes, Service!Goto, Service!Reads, Service!Throws, Service!User,
        Service!PassLocks, Service!PassDenied, Service!PassLogsOn,
        Service!PassStorage, Service!PassConnects, Service!Stat, Service!Retr, Service!Dele,
        Service!DeleAll, Service!Rset, Service!Quit
  <2>2. chain[s] = "handling"
    BY <1>3 DEF Command
  <2>3. CASE pc'[s] \in {"locked", "connecting"} /\ ServiceAlone
    BY <1>0, <2>1, <2>2, <2>3
  <2>4. CASE pc'[s] = "stuck" /\ Server!HandlerThrows(s)
    BY <1>0, <2>1, <2>2, <2>4 DEF Server!HandlerThrows
  <2>5. CASE /\ pc'[s] \in {"authorization", "transaction", "quitting"}
             /\ Server!HandleCommand(s)
             /\ quit'[s] = (pc'[s] = "quitting")
    BY <1>0, <2>1, <2>2, <2>5 DEF Server!HandleCommand
  <2>. QED
    BY <1>3, <2>3, <2>4, <2>5 DEF Command
<1>. QED
  BY <1>1, <1>2, <1>3 DEF HandlerStep

(* The steps of the accept handler, the network and the operations' own    *)
(* handlers.                                                               *)
LEMMA ConnectionChained ==
    ASSUME LInv, NEW s \in Session, BootStep(s) \/ NetworkStep(s) \/ OperationHandler(s),
           NEW x \in Session
    PROVE  Chained(x)'
<1>. USE LInvSides, LifeOfChain
     DEF Linked, Chained, SidesType, SV!Phases, ServerAlone, ServiceAlone, serverVars,
         serviceVars, Alone
<1>0. Linked(x) /\ Chained(x) /\ Linked(s) /\ Chained(s)
  BY DEF LInv
<1>1. CASE CreateSession(s)
  BY <1>0, <1>1 DEF CreateSession, Server!CreateSession, Service!Connect, Service!Goto
<1>2. CASE Alone(Server!FirstRead(s))
  BY <1>0, <1>2 DEF Server!FirstRead
<1>3. CASE Alone(Server!StartTimer(s))
  BY <1>0, <1>3 DEF Server!StartTimer
<1>4. CASE Alone(Server!OperationCompletes(s))
  BY <1>0, <1>4 DEF Server!OperationCompletes, Server!Pending
<1>5. CASE Alone(Server!PartCompletes(s))
  BY <1>0, <1>5 DEF Server!PartCompletes, Server!Pending
<1>6. CASE OperationHandler(s)
  <2>1. Server!OperationHandler(s)
    BY <1>6 DEF OperationHandler
  <2>2. CASE chain'[s] # "leaving" /\ ServerAlone
    BY <1>0, <2>1, <2>2 DEF Server!OperationHandler
  <2>3. CASE /\ chain'[s] = "leaving"
             /\ chain[s] = "writeOk" /\ pc[s] = "quitting"
             /\ Service!QuitWritten(s)
    BY <1>0, <2>1, <2>3 DEF Server!OperationHandler, Service!QuitWritten, Service!Goto
  <2>4. CASE /\ chain'[s] = "leaving"
             /\ chain[s] = "failed" \/ pc[s] = "authorization"
             /\ Service!Dropped(s)
    BY <1>0, <2>1, <2>4 DEF Server!OperationHandler, Service!Dropped, Service!Goto
  <2>. QED
    BY <1>6, <2>2, <2>3, <2>4 DEF OperationHandler
<1>. QED
  BY <1>1, <1>2, <1>3, <1>4, <1>5, <1>6 DEF BootStep, NetworkStep

(* ~POP3Session runs when the chain has ended, on a thread of its own.     *)
LEMMA DestructorChained ==
    ASSUME LInv, NEW s \in Session, DestructorStep(s), NEW x \in Session
    PROVE  Chained(x)'
<1>. USE LInvSides, LifeOfChain
     DEF Linked, Chained, SidesType, SV!Phases, ServerAlone, ServiceAlone, serverVars,
         serviceVars
<1>0. Linked(x) /\ Chained(x) /\ Linked(s) /\ Chained(s)
  BY DEF LInv
<1>1. CASE DestroyMailbox(s)
  <2>. USE DEF DestroyMailbox, Service!Goto
  <2>1. CASE Service!Unlock(s)
    BY <1>0, <1>1, <2>1 DEF Service!Unlock
  <2>2. CASE Service!RemoveNext(s)
    BY <1>0, <1>1, <2>2 DEF Service!RemoveNext
  <2>3. CASE Service!Gone(s)
    BY <1>0, <1>1, <2>3 DEF Service!Gone
  <2>. QED
    BY <1>1, <2>1, <2>2, <2>3
<1>2. CASE Destroy(s)
  BY <1>0, <1>2 DEF Destroy, Server!Destroy
<1>. QED
  BY <1>1, <1>2 DEF DestructorStep

(* The timer and cancelAll touch the chain from outside.                   *)
LEMMA TimerChained ==
    ASSUME LInv, NEW s \in Session,
           \/ Alone(Server!TimerExpires(s)) \/ Alone(Server!TimerHandler(s))
           \/ Alone(Server!TimerCancelsSocket(s)) \/ Alone(Server!CancelOne(s)),
           NEW x \in Session
    PROVE  Chained(x)'
<1>. USE LInvSides, LifeOfChain
     DEF Linked, Chained, SidesType, SV!Phases, ServerAlone, serviceVars, Alone,
         Server!SocketCancel, Server!Pending, Server!Release
<1>0. Linked(x) /\ Chained(x) /\ Chained(s)
  BY DEF LInv
<1>1. CASE Alone(Server!TimerExpires(s))
  BY <1>0, <1>1 DEF Server!TimerExpires
<1>2. CASE Alone(Server!TimerHandler(s))
  BY <1>0, <1>2 DEF Server!TimerHandler
<1>3. CASE Alone(Server!TimerCancelsSocket(s))
  BY <1>0, <1>3 DEF Server!TimerCancelsSocket
<1>4. CASE Alone(Server!CancelOne(s))
  BY <1>0, <1>4 DEF Server!CancelOne
<1>. QED
  BY <1>1, <1>2, <1>3, <1>4

LEMMA NextChained ==
    ASSUME LInv, [Next]_vars, NEW x \in Session
    PROVE  Chained(x)'
<1>1. CASE \/ UNCHANGED vars \/ ExitStep
           \/ Alone(Server!AcceptCompletes) \/ Alone(Server!AcceptHandler)
           \/ Alone(Server!Serve) \/ Alone(Server!QuitTyped)
           \/ Alone(Server!Tick) \/ Alone(Server!Exited)
  <2>1. UNCHANGED <<chain, quit, life, pc, quitAcked, removed>>
    BY <1>1
    DEF vars, serverVars, ServerAlone, serviceVars, Alone, ExitStep,
        Server!AcceptCompletes, Server!AcceptHandler, Server!Serve, Server!QuitTyped,
        Server!AllCancelled, Server!CancelAcceptor, Server!Join, Server!Tick,
        Server!Exited, Server!vars
  <2>. QED
    BY <2>1 DEF LInv, Chained
<1>2. ASSUME NEW s \in Session, BootStep(s) \/ NetworkStep(s) \/ OperationHandler(s)
      PROVE  Chained(x)'
  BY <1>2, ConnectionChained
<1>3. ASSUME NEW s \in Session, HandlerStep(s) PROVE Chained(x)'
  BY <1>3, CommandChained
<1>4. ASSUME NEW s \in Session, DestructorStep(s) PROVE Chained(x)'
  BY <1>4, DestructorChained
<1>5. ASSUME NEW s \in Session,
             \/ Alone(Server!TimerExpires(s)) \/ Alone(Server!TimerHandler(s))
             \/ Alone(Server!TimerCancelsSocket(s)) \/ Alone(Server!CancelOne(s))
      PROVE  Chained(x)'
  BY <1>5, TimerChained
<1>. QED
  BY <1>1, <1>2, <1>3, <1>4, <1>5 DEF Next

LEMMA NextLInv == LInv /\ [Next]_vars => LInv'
<1>. SUFFICES ASSUME LInv, [Next]_vars PROVE LInv'
  OBVIOUS
<1>1. [SP!Next]_(SP!vars) /\ [SV!Next]_(SV!vars)
  BY Simulation, SameServer, SameService
  DEF Server!vars, SP!vars, Service!vars, SV!vars
<1>2. SP!IInv'
  BY <1>1, Assumptions, SP!NextTypeOK, SP!NextSessionInv, SP!NextMainInv
  DEF LInv, SP!IInv
<1>3. SV!IInv'
  BY <1>1, Assumptions, SV!NextIInv DEF LInv
<1>4. SV!LockInv'
  BY <1>1, Assumptions, SV!NextLockInv DEF LInv
<1>5. ASSUME NEW x \in Session PROVE Linked(x)'
  <2>1. CASE UNCHANGED vars
    BY <2>1 DEF vars, serverVars, serviceVars, LInv, Linked
  <2>2. CASE Next /\ ~CreateSession(x)
    BY <2>2, BeginsOnce, EndsLast DEF LInv, Linked
  <2>3. CASE CreateSession(x)
    <3>1. boot \in [Session -> {"none", "accepted", "created", "reading", "done"}]
      BY DEF LInv, SP!IInv, SP!TypeOK, SP!Booting
    <3>2. /\ life \in [Session -> {"none", "alive", "dying", "destroyed"}]
          /\ pc \in [Session -> SV!Phases]
      BY DEF LInv, SP!IInv, SP!TypeOK, SV!IInv, SV!TypeOK
    <3>3. boot'[x] = "created" /\ life'[x] = "alive" /\ pc'[x] = "authorization"
      BY <2>3, <3>1, <3>2
      DEF CreateSession, Server!CreateSession, Service!Connect, Service!Goto
    <3>. QED
      BY <3>3 DEF Linked
  <2>. QED
    BY <2>1, <2>2, <2>3
<1>6. \A x \in Session : Chained(x)'
  BY NextChained
<1>. QED
  BY <1>2, <1>3, <1>4, <1>5, <1>6 DEF LInv

THEOREM Invariance == Spec => []LInv
  BY InitLInv, NextLInv, PTL DEF Spec

(* What is promised of the components is true of the whole server: the     *)
(* registry and the objects of the sessions, the lock table, the updates.  *)
THEOREM SystemIsSafe ==
    Spec => [](/\ Server!RegisteredUntilEnd
               /\ Server!NoHandlerAfterDestruction
               /\ Service!LockTableExact
               /\ Service!UpdateIsAllOrNothing)
<1>1. LInv => Server!RegisteredUntilEnd
  BY DEF LInv, SP!IInv, SP!SessionInv, SP!MainInv, Server!RegisteredUntilEnd,
         SP!Operating, SP!Pending, SP!Queued, SP!InHandler,
         Server!Operating, Server!Pending, Server!Queued, Server!InHandler
<1>2. LInv => Server!NoHandlerAfterDestruction
  BY DEF LInv, SP!IInv, SP!SessionInv, SP!Referenced, Server!NoHandlerAfterDestruction,
         SP!Operating, SP!Pending, SP!Queued, SP!InHandler,
         Server!Operating, Server!Pending, Server!Queued, Server!InHandler
<1>3. LInv => Service!LockTableExact
  BY DEF LInv, SV!LockInv, SV!LockTableExact, SV!Holds, Service!LockTableExact,
         Service!Holds
<1>4. LInv => Service!UpdateIsAllOrNothing
  BY DEF LInv, SV!IInv, SV!SessionInv, SV!Removals, Service!UpdateIsAllOrNothing
<1>. QED
  BY Invariance, <1>1, <1>2, <1>3, <1>4, PTL

(* If no handler threw, Run returns with every promised deletion made and  *)
(* every mailbox unlocked, for any number of sessions, threads, accounts   *)
(* and files.                                                              *)
THEOREM ExitIsComplete == Spec => []ExitCompletesUpdates
<1>1. ASSUME LInv, main = "exited", Server!Crashed = {}
      PROVE  /\ activeMailboxes = {}
             /\ \A s \in Session : quitAcked[s] => removed[s] = acked[s]
  <2>1. SP!Crashed = {}
    BY <1>1 DEF Server!Crashed, SP!Crashed
  <2>2. \A s \in Session : boot[s] # "none" => life[s] = "destroyed"
    <3>1. ~SP!OutstandingWork
      BY <1>1, <2>1 DEF LInv, SP!IInv, SP!MainInv
    <3>. QED
      BY <1>1, <2>1, <3>1
      DEF LInv, SP!IInv, SP!TypeOK, SP!SessionInv, SP!OutstandingWork, SP!Crashed,
          SP!Referenced, SP!Operating, SP!Pending, SP!Queued, SP!InHandler, SP!Booting
  <2>3. \A s \in Session : pc[s] \in {"new", "gone"}
    BY <1>1, <2>2 DEF LInv, Linked
  <2>4. activeMailboxes = {}
    BY <1>1, <2>3 DEF LInv, SV!LockInv, SV!LockTableExact, SV!Holds
  <2>5. ASSUME NEW s \in Session, quitAcked[s] PROVE removed[s] = acked[s]
    BY <1>1, <2>3, <2>5
    DEF LInv, SV!IInv, SV!SessionInv, SV!Phased, SV!Removals
  <2>. QED
    BY <2>4, <2>5
<1>2. LInv => ExitCompletesUpdates
  BY <1>1 DEF ExitCompletesUpdates
<1>. QED
  BY Invariance, <1>2, PTL

(* A name that is locked has a session in Holds, whose chain operates, has *)
(* crashed, or has ended with an object that is still alive or dying.      *)
THEOREM LocksHaveReasons == Spec => []LockedForAReason
<1>1. ASSUME LInv, NEW a \in activeMailboxes
      PROVE  \E s \in Session :
                /\ userName[s] = a
                /\ \/ chain[s] \in Server!Operating \cup {"crashed"}
                   \/ /\ chain[s] = "ended"
                      /\ timer[s] # "off" \/ boot[s] = "reading" \/ life[s] = "dying"
  <2>1. PICK s \in Session : SV!Holds(s) /\ userName[s] = a
    BY <1>1 DEF LInv, SV!LockInv, SV!LockTableExact
  <2>2. pc[s] \notin {"new", "authorization", "gone"}
    BY <2>1 DEF SV!Holds
  <2>3. Linked(s) /\ Chained(s) /\ SidesType
    BY <1>1, LInvSides DEF LInv
  <2>4. chain[s] # "none" /\ life[s] # "destroyed"
    BY <2>2, <2>3 DEF Linked, Chained
  <2>5. CASE chain[s] = "ended"
    <3>1. life[s] \in {"alive", "dying"}
      BY <1>1, <2>3, <2>4, <2>5, LifeOfChain DEF SidesType
    <3>2. CASE life[s] = "alive"
      <4>1. SP!Referenced(s) /\ s \notin sessions /\ boot[s] # "created"
        BY <1>1, <2>5, <3>2
        DEF LInv, SP!IInv, SP!SessionInv, SP!Operating, SP!Pending, SP!Queued,
            SP!InHandler
      <4>2. timer[s] # "off" \/ boot[s] = "reading"
        BY <2>5, <4>1
        DEF SP!Referenced, SP!Operating, SP!Pending, SP!Queued, SP!InHandler
      <4>. QED
        BY <2>1, <2>5, <4>2
    <3>. QED
      BY <2>1, <2>5, <3>1, <3>2
  <2>6. CASE chain[s] # "ended"
    BY <2>1, <2>3, <2>4, <2>6
    DEF SidesType, Server!Operating, Server!Pending, Server!Queued, Server!InHandler
  <2>. QED
    BY <2>5, <2>6
<1>2. LInv => LockedForAReason
  BY <1>1 DEF LockedForAReason
<1>. QED
  BY Invariance, <1>2, PTL

(* Whoever removes files is the destructor of a session that no thread can *)
(* reach, so no command, timer or cancelAll runs at the same time.         *)
THEOREM RemovalsAreUnreachable == Spec => []RemovesWhenUnreachable
<1>1. ASSUME LInv, NEW s \in Session, removed[s] # {}
      PROVE  /\ quit[s] /\ chain[s] = "ended"
             /\ s \notin sessions /\ timer[s] = "off" /\ boot[s] = "done"
  <2>1. Chained(s) /\ SidesType
    BY <1>1, LInvSides DEF LInv
  <2>2. life[s] \in {"dying", "destroyed"} /\ quit[s]
    BY <1>1, <2>1 DEF Chained, LInv, SV!IInv, SV!SessionInv, SV!Removals
  <2>3. ~SP!Referenced(s)
    BY <1>1, <2>2 DEF LInv, SP!IInv, SP!SessionInv
  <2>. QED
    BY <1>1, <2>1, <2>2, <2>3
    DEF LInv, SP!IInv, SP!SessionInv, SP!Referenced, SP!Operating, SP!Pending,
        SP!Queued, SP!InHandler, SidesType
<1>2. LInv => RemovesWhenUnreachable
  BY <1>1 DEF RemovesWhenUnreachable
<1>. QED
  BY Invariance, <1>2, PTL

=============================================================================
