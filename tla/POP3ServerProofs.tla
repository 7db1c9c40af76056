-------------------------- MODULE POP3ServerProofs --------------------------
(* Proofs about POP3Server, for any number of sessions and threads and any *)
(* timeout.                                                                *)
EXTENDS POP3Server, FiniteSetTheorems, TLAPS

(* The inductive invariant, session by session: the registry entry lives   *)
(* exactly as long as the chain of operations, the accept handler starts   *)
(* chain and timer in this order, and the object is alive exactly as long  *)
(* as somebody holds a shared_ptr to it.                                   *)
SessionInv(s) ==
    /\ s \in sessions <=> (chain[s] \in Operating \cup {"crashed"} \/ boot[s] = "created")
    /\ boot[s] \in {"none", "accepted", "created"} <=> chain[s] = "none"
    /\ boot[s] # "done" => timer[s] = "off"
    /\ boot[s] \in {"none", "accepted"} <=> life[s] = "none"
    /\ life[s] = "alive" <=> Referenced(s)

MainInv ==
    /\ todo \subseteq sessions
    /\ main # "cancelling" => todo = {}
    /\ (main = "exited" /\ Crashed = {}) => ~OutstandingWork

IInv == TypeOK /\ (\A s \in Session : SessionInv(s)) /\ MainInv

LEMMA InitIInv == Init => IInv
  BY ServerAssumption
  DEF Init, IInv, TypeOK, SessionInv, MainInv, Referenced, Operating, Pending,
      Queued, InHandler, Booting

(* Every step keeps the types.                                             *)
LEMMA NextTypeOK == TypeOK /\ [Next]_vars => TypeOK'
<1>. SUFFICES ASSUME TypeOK, [Next]_vars PROVE TypeOK'
  OBVIOUS
<1>. USE ServerAssumption
     DEF TypeOK, Operating, Pending, Queued, InHandler, Booting, clock
<1>1. CASE AcceptCompletes
  BY <1>1 DEF AcceptCompletes
<1>2. CASE AcceptHandler
  BY <1>2 DEF AcceptHandler
<1>3. CASE Serve
  BY <1>3 DEF Serve
<1>4. ASSUME NEW s \in Session, CreateSession(s) PROVE TypeOK'
  BY <1>4 DEF CreateSession
<1>5. ASSUME NEW s \in Session, FirstRead(s) PROVE TypeOK'
  BY <1>5 DEF FirstRead
<1>6. ASSUME NEW s \in Session, StartTimer(s) PROVE TypeOK'
  BY <1>6 DEF StartTimer
<1>7. ASSUME NEW s \in Session, OperationCompletes(s) PROVE TypeOK'
  BY <1>7 DEF OperationCompletes
<1>8. ASSUME NEW s \in Session, PartCompletes(s) PROVE TypeOK'
  BY <1>8 DEF PartCompletes
<1>9. ASSUME NEW s \in Session, OperationHandler(s) PROVE TypeOK'
  BY <1>9 DEF OperationHandler
<1>10. ASSUME NEW s \in Session, HandleCommand(s) PROVE TypeOK'
  BY <1>10 DEF HandleCommand
<1>11. ASSUME NEW s \in Session, HandlerThrows(s) PROVE TypeOK'
  BY <1>11 DEF HandlerThrows
<1>12. ASSUME NEW s \in Session, DeleteFromSessions(s) PROVE TypeOK'
  BY <1>12 DEF DeleteFromSessions, Release
<1>13. ASSUME NEW s \in Session, TimerExpires(s) PROVE TypeOK'
  BY <1>13 DEF TimerExpires
<1>14. ASSUME NEW s \in Session, TimerHandler(s) PROVE TypeOK'
  BY <1>14 DEF TimerHandler, Release
<1>15. ASSUME NEW s \in Session, TimerCancelsSocket(s) PROVE TypeOK'
  BY <1>15 DEF TimerCancelsSocket, Release, SocketCancel
<1>16. ASSUME NEW s \in Session, Destroy(s) PROVE TypeOK'
  BY <1>16 DEF Destroy
<1>17. ASSUME NEW s \in Session, CancelOne(s) PROVE TypeOK'
  BY <1>17 DEF CancelOne, SocketCancel, TimerCancel
<1>18. CASE QuitTyped
  BY <1>18 DEF QuitTyped
<1>19. CASE AllCancelled
  BY <1>19 DEF AllCancelled
<1>20. CASE CancelAcceptor
  BY <1>20 DEF CancelAcceptor
<1>21. CASE Join
  BY <1>21 DEF Join
<1>22. CASE Tick
  BY <1>22 DEF Tick
<1>23. CASE UNCHANGED vars
  BY <1>23 DEF vars
<1>. QED
  BY <1>1, <1>2, <1>3, <1>4, <1>5, <1>6, <1>7, <1>8, <1>9, <1>10, <1>11, <1>12, <1>13, <1>14, <1>15, <1>16, <1>17, <1>18, <1>19, <1>20, <1>21, <1>22, <1>23 DEF Next, SessionStep, Exited

(* Every step keeps every session's part of the invariant: a step works on *)
(* one session and the shared_ptrs it takes or drops are those of that     *)
(* session.                                                                *)
LEMMA NextSessionInv ==
    ASSUME IInv, [Next]_vars, NEW x \in Session
    PROVE  SessionInv(x)'
<1>. USE DEF IInv, TypeOK, SessionInv, MainInv, Referenced, Operating, Pending,
             Queued, InHandler, Booting, clock, MutexFree
<1>1. CASE AcceptCompletes
  BY <1>1 DEF AcceptCompletes
<1>2. CASE AcceptHandler
  BY <1>2 DEF AcceptHandler
<1>3. CASE Serve
  BY <1>3 DEF Serve
<1>4. ASSUME NEW s \in Session, CreateSession(s) PROVE SessionInv(x)'
  BY <1>4 DEF CreateSession
<1>5. ASSUME NEW s \in Session, FirstRead(s) PROVE SessionInv(x)'
  BY <1>5 DEF FirstRead
<1>6. ASSUME NEW s \in Session, StartTimer(s) PROVE SessionInv(x)'
  BY <1>6 DEF StartTimer
<1>7. ASSUME NEW s \in Session, OperationCompletes(s) PROVE SessionInv(x)'
  BY <1>7 DEF OperationCompletes
<1>8. ASSUME NEW s \in Session, PartCompletes(s) PROVE SessionInv(x)'
  BY <1>8 DEF PartCompletes
<1>9. ASSUME NEW s \in Session, OperationHandler(s) PROVE SessionInv(x)'
  BY <1>9 DEF OperationHandler
<1>10. ASSUME NEW s \in Session, HandleCommand(s) PROVE SessionInv(x)'
  BY <1>10 DEF HandleCommand
<1>11. ASSUME NEW s \in Session, HandlerThrows(s) PROVE SessionInv(x)'
  BY <1>11 DEF HandlerThrows
<1>12. ASSUME NEW s \in Session, DeleteFromSessions(s) PROVE SessionInv(x)'
  BY <1>12 DEF DeleteFromSessions, Release
<1>13. ASSUME NEW s \in Session, TimerExpires(s) PROVE SessionInv(x)'
  BY <1>13 DEF TimerExpires
<1>14. ASSUME NEW s \in Session, TimerHandler(s) PROVE SessionInv(x)'
  BY <1>14 DEF TimerHandler, Release
<1>15. ASSUME NEW s \in Session, TimerCancelsSocket(s) PROVE SessionInv(x)'
  BY <1>15 DEF TimerCancelsSocket, Release, SocketCancel
<1>16. ASSUME NEW s \in Session, Destroy(s) PROVE SessionInv(x)'
  BY <1>16 DEF Destroy
<1>17. ASSUME NEW s \in Session, CancelOne(s) PROVE SessionInv(x)'
  BY <1>17 DEF CancelOne, SocketCancel, TimerCancel
<1>18. CASE QuitTyped
  BY <1>18 DEF QuitTyped
<1>19. CASE AllCancelled
  BY <1>19 DEF AllCancelled
<1>20. CASE CancelAcceptor
  BY <1>20 DEF CancelAcceptor
<1>21. CASE Join
  BY <1>21 DEF Join
<1>22. CASE Tick
  BY <1>22 DEF Tick
<1>23. CASE UNCHANGED vars
  BY <1>23 DEF vars
<1>. QED
  BY <1>1, <1>2, <1>3, <1>4, <1>5, <1>6, <1>7, <1>8, <1>9, <1>10,
     <1>11, <1>12, <1>13, <1>14, <1>15, <1>16, <1>17, <1>18,
     <1>19, <1>20, <1>21, <1>22, <1>23
  DEF Next, SessionStep, Exited

LEMMA NextMainInv == IInv /\ [Next]_vars => MainInv'
<1>. SUFFICES ASSUME IInv, [Next]_vars PROVE MainInv'
  OBVIOUS
<1>. USE DEF IInv, TypeOK, SessionInv, MainInv, Operating, Pending,
             Queued, InHandler, Booting, clock, MutexFree, OutstandingWork,
             Crashed, ThreadIdle, Running
<1>1. CASE AcceptCompletes
  BY <1>1 DEF AcceptCompletes
<1>2. CASE AcceptHandler
  BY <1>2 DEF AcceptHandler
<1>3. CASE Serve
  BY <1>3 DEF Serve
<1>4. ASSUME NEW s \in Session, CreateSession(s) PROVE MainInv'
  BY <1>4 DEF CreateSession
<1>5. ASSUME NEW s \in Session, FirstRead(s) PROVE MainInv'
  BY <1>5 DEF FirstRead
<1>6. ASSUME NEW s \in Session, StartTimer(s) PROVE MainInv'
  BY <1>6 DEF StartTimer
<1>7. ASSUME NEW s \in Session, OperationCompletes(s) PROVE MainInv'
  BY <1>7 DEF OperationCompletes
<1>8. ASSUME NEW s \in Session, PartCompletes(s) PROVE MainInv'
  BY <1>8 DEF PartCompletes
<1>9. ASSUME NEW s \in Session, OperationHandler(s) PROVE MainInv'
  BY <1>9 DEF OperationHandler
<1>10. ASSUME NEW s \in Session, HandleCommand(s) PROVE MainInv'
  BY <1>10 DEF HandleCommand
<1>11. ASSUME NEW s \in Session, HandlerThrows(s) PROVE MainInv'
  BY <1>11 DEF HandlerThrows
<1>12. ASSUME NEW s \in Session, DeleteFromSessions(s) PROVE MainInv'
  BY <1>12 DEF DeleteFromSessions, Release
<1>13. ASSUME NEW s \in Session, TimerExpires(s) PROVE MainInv'
  BY <1>13 DEF TimerExpires
<1>14. ASSUME NEW s \in Session, TimerHandler(s) PROVE MainInv'
  BY <1>14 DEF TimerHandler, Release
<1>15. ASSUME NEW s \in Session, TimerCancelsSocket(s) PROVE MainInv'
  BY <1>15 DEF TimerCancelsSocket, Release, SocketCancel
<1>16. ASSUME NEW s \in Session, Destroy(s) PROVE MainInv'
  BY <1>16 DEF Destroy
<1>17. ASSUME NEW s \in Session, CancelOne(s) PROVE MainInv'
  BY <1>17 DEF CancelOne, SocketCancel, TimerCancel
<1>18. CASE QuitTyped
  BY <1>18 DEF QuitTyped
<1>19. CASE AllCancelled
  BY <1>19 DEF AllCancelled
<1>20. CASE CancelAcceptor
  BY <1>20 DEF CancelAcceptor
<1>21. CASE Join
  <2>1. Cardinality({}) # Threads
    BY FS_EmptySet, ServerAssumption
  <2>2. Crashed = {} => ~OutstandingWork
    BY <1>21, <2>1 DEF Join
  <2>3. todo' = {} /\ (OutstandingWork' <=> OutstandingWork) /\ Crashed' = Crashed
    BY <1>21 DEF Join
  <2>. QED
    BY <2>2, <2>3
<1>22. CASE Tick
  BY <1>22 DEF Tick
<1>23. CASE UNCHANGED vars
  BY <1>23 DEF vars
<1>. QED
  BY <1>1, <1>2, <1>3, <1>4, <1>5, <1>6, <1>7, <1>8, <1>9, <1>10,
     <1>11, <1>12, <1>13, <1>14, <1>15, <1>16, <1>17, <1>18,
     <1>19, <1>20, <1>21, <1>22, <1>23
  DEF Next, SessionStep, Exited

(* Every handler of a chain, of the timer and of the accept loop, and      *)
(* cancelAll, preserve the ties between registry, operations and objects.  *)
THEOREM Invariance == Spec => []IInv
<1>1. IInv /\ [Next]_vars => IInv'
  BY NextTypeOK, NextSessionInv, NextMainInv DEF IInv
<1>. QED
  BY InitIInv, <1>1, PTL DEF Spec

-----------------------------------------------------------------------------
(* Type correctness; in particular clock and timer stay within the timeout *)
(* and every session is in one of the phases the code can be in.           *)
THEOREM TypeCorrect == Spec => []TypeOK
<1>1. IInv => TypeOK
  BY DEF IInv
<1>. QED
  BY Invariance, <1>1, PTL

(* The assertion of deleteFromSessions never fails, and the sessions       *)
(* cancelAll walks over are registered.                                    *)
THEOREM RegistryIsExact == Spec => []RegisteredUntilEnd
<1>1. IInv => RegisteredUntilEnd
  BY DEF IInv, SessionInv, MainInv, RegisteredUntilEnd
<1>. QED
  BY Invariance, <1>1, PTL

(* No handler runs on a destroyed session.                                 *)
THEOREM NoUseAfterDestruction == Spec => []NoHandlerAfterDestruction
<1>1. IInv => NoHandlerAfterDestruction
  BY DEF IInv, SessionInv, Referenced, NoHandlerAfterDestruction
<1>. QED
  BY Invariance, <1>1, PTL

(* Run returns with an empty registry and every session destroyed, unless  *)
(* a handler threw.                                                        *)
THEOREM ExitIsClean == Spec => []ExitLeavesNothing
<1>1. ASSUME IInv, main = "exited", Crashed = {}
      PROVE  /\ sessions = {}
             /\ \A s \in Session : boot[s] # "none" => life[s] = "destroyed"
  <2>1. ~OutstandingWork
    BY <1>1 DEF IInv, MainInv
  <2>2. ASSUME NEW s \in Session
        PROVE  s \notin sessions /\ (boot[s] # "none" => life[s] = "destroyed")
    BY <1>1, <2>1, <2>2
    DEF IInv, TypeOK, SessionInv, OutstandingWork, Crashed, Referenced, Operating,
        Pending, Queued, InHandler, Booting
  <2>. QED
    BY <1>1, <2>2 DEF IInv, TypeOK
<1>2. IInv => ExitLeavesNothing
  BY <1>1 DEF ExitLeavesNothing
<1>. QED
  BY Invariance, <1>2, PTL

=============================================================================
