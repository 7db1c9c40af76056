----------------------------- MODULE POP3Server -----------------------------
(***************************************************************************)
(* The life of the sessions on the thread pool: Server::serve and cancel,  *)
(* ConsoleServerController::Run, and the reads, writes, timer and registry *)
(* of POP3Session.  What a command does to a mailbox is in Maildrop and    *)
(* MailboxService; here a command is answered, is QUIT, or throws.         *)
(*                                                                         *)
(* Boost.Asio is external: an operation that completes queues its handler, *)
(* an idle thread of the pool takes a queued handler, and cancelling has   *)
(* an effect only on an operation that is still pending.                   *)
(***************************************************************************)
EXTENDS Integers, FiniteSets

CONSTANTS
    Session,        \* one element per connection that is ever accepted
    Threads,        \* size of the thread pool
    Timeout,        \* POP3Session::Timeout in ticks of the clock
    HandlersThrow   \* whether a command may fail with an exception

ASSUME ServerAssumption ==
    /\ IsFiniteSet(Session)
    /\ Threads \in Nat \ {0}
    /\ Timeout \in Nat \ {0}
    /\ HandlersThrow \in BOOLEAN

VARIABLES
    acceptor,   \* the asynchronous accept
    boot,       \* how far the accept handler is with the session
    sessions,   \* POP3Session::sessions
    chain,      \* the session's read -> handle -> write -> read ... chain
    quit,       \* POP3Session::quitCommandReceived
    timer,      \* the session's asynchronous wait
    left,       \* ticks until that timer expires
    age,        \* ticks since lastActivityTime; Timeout + 1 stands for more
    life,       \* the session object
    main,       \* the thread of Run
    todo        \* sessions cancelAll has still to visit

vars == <<acceptor, boot, sessions, chain, quit, timer, left, age, life, main, todo>>

clock == <<left, age>>

Pending == {"reading", "writing"}
Queued == {"readMore", "writeMore", "readOk", "writeOk", "failed"}
InHandler == {"handling", "leaving"}
Operating == Pending \cup Queued \cup InHandler
Booting == {"accepted", "created", "reading"}

TypeOK ==
    /\ acceptor \in {"pending", "ready", "failed", "accepting", "failing",
                     "aborted", "stopped"}
    /\ boot \in [Session -> Booting \cup {"none", "done"}]
    /\ sessions \in SUBSET Session
    /\ chain \in [Session -> Operating \cup {"none", "crashed", "ended"}]
    /\ quit \in [Session -> BOOLEAN]
    /\ timer \in [Session -> {"off", "armed", "fired", "checked", "aborted"}]
    /\ left \in [Session -> 0 .. Timeout]
    /\ age \in [Session -> 0 .. Timeout + 1]
    /\ life \in [Session -> {"none", "alive", "dying", "destroyed"}]
    /\ main \in {"serving", "cancelling", "cancelled", "joining", "exited"}
    /\ todo \in SUBSET Session

-----------------------------------------------------------------------------
Running == main # "exited"

(* The thread pool.  A handler that is running occupies one thread; one    *)
(* that threw has taken its thread with it (run() does not catch).         *)

Crashed == {s \in Session : chain[s] = "crashed"}

BusyThreads ==
    Cardinality({s \in Session : boot[s] \in Booting})
    + Cardinality({s \in Session : chain[s] \in InHandler \cup {"crashed"}})
    + Cardinality({s \in Session : timer[s] = "checked"})
    + Cardinality({s \in Session : life[s] = "dying"})
    + (IF acceptor \in {"accepting", "failing"} THEN 1 ELSE 0)

ThreadIdle == Running /\ BusyThreads < Threads

(* m_mutex is free unless cancelAll is walking through the registry.       *)
MutexFree == main # "cancelling"

\* Mutant: the timer's handler keeps a plain pointer.
ReferencedButByTimer(s) ==
    boot[s] \in {"created", "reading"} \/ s \in sessions \/ chain[s] \in Operating

(* The shared_ptrs: accept handler, registry, chain of operations, timer.  *)
Referenced(s) ==
    \/ boot[s] \in {"created", "reading"}
    \/ s \in sessions
    \/ chain[s] \in Operating
    \/ timer[s] # "off"

\* Mutant: the operations keep each other alive, a cycle of shared_ptrs.
ReleaseLeaks(s) == UNCHANGED life

(* A handler returns and drops its shared_ptr.                             *)
Release(s) ==
    life' = [life EXCEPT ![s] = IF Referenced(s)' THEN @ ELSE "dying"]

(* socket.cancel() and timer.cancel()                                      *)
SocketCancel(s) ==
    chain' = [chain EXCEPT ![s] = IF @ \in Pending THEN "failed" ELSE @]

TimerCancel(s) ==
    timer' = [timer EXCEPT ![s] = IF @ = "armed" THEN "aborted" ELSE @]

-----------------------------------------------------------------------------

Init ==
    /\ acceptor = "pending"
    /\ boot = [s \in Session |-> "none"]
    /\ sessions = {}
    /\ chain = [s \in Session |-> "none"]
    /\ quit = [s \in Session |-> FALSE]
    /\ timer = [s \in Session |-> "off"]
    /\ left = [s \in Session |-> 0]
    /\ age = [s \in Session |-> 0]
    /\ life = [s \in Session |-> "none"]
    /\ main = "serving"
    /\ todo = {}

(* The network completes the pending accept.                               *)
AcceptCompletes ==
    /\ Running
    /\ acceptor = "pending"
    /\ acceptor' \in {"ready", "failed"}
    /\ acceptor' = "ready" => \E s \in Session : boot[s] = "none"
    /\ UNCHANGED <<boot, sessions, chain, quit, timer, clock, life, main, todo>>

\* Mutant: an aborted accept is treated like a failed one.
AcceptHandlerIgnoresAbort ==
    /\ ThreadIdle
    /\ \/ acceptor = "ready" /\ acceptor' = "accepting"
       \/ acceptor \in {"failed", "aborted"} /\ acceptor' = "failing"
    /\ UNCHANGED <<boot, sessions, chain, quit, timer, clock, life, main, todo>>

(* The accept handler of Server::serve: nothing more is accepted after an  *)
(* abort; otherwise the first thing it does is to accept again.            *)
AcceptHandler ==
    /\ ThreadIdle
    /\ \/ acceptor = "ready" /\ acceptor' = "accepting"
       \/ acceptor = "failed" /\ acceptor' = "failing"
       \/ acceptor = "aborted" /\ acceptor' = "stopped"
    /\ UNCHANGED <<boot, sessions, chain, quit, timer, clock, life, main, todo>>

Serve ==
    /\ acceptor' = "pending"
    /\ \/ /\ acceptor = "failing"
          /\ UNCHANGED boot
       \/ /\ acceptor = "accepting"
          /\ \E s \in Session :
                boot[s] = "none" /\ boot' = [boot EXCEPT ![s] = "accepted"]
    /\ UNCHANGED <<sessions, chain, quit, timer, clock, life, main, todo>>

(* The timer is constructed with its expiry, the session with the time of  *)
(* its last activity; the session is registered.                           *)
CreateSession(s) ==
    /\ boot[s] = "accepted"
    /\ MutexFree
    /\ boot' = [boot EXCEPT ![s] = "created"]
    /\ sessions' = sessions \cup {s}
    /\ life' = [life EXCEPT ![s] = "alive"]
    /\ left' = [left EXCEPT ![s] = Timeout]
    /\ age' = [age EXCEPT ![s] = 0]
    /\ UNCHANGED <<acceptor, chain, quit, timer, main, todo>>

FirstRead(s) ==
    /\ boot[s] = "created"
    /\ boot' = [boot EXCEPT ![s] = "reading"]
    /\ chain' = [chain EXCEPT ![s] = "reading"]
    /\ UNCHANGED <<acceptor, sessions, quit, timer, clock, life, main, todo>>

(* By now the session may already have ended on another thread.            *)
StartTimer(s) ==
    /\ boot[s] = "reading"
    /\ boot' = [boot EXCEPT ![s] = "done"]
    /\ timer' = [timer EXCEPT ![s] = "armed"]
    /\ UNCHANGED <<acceptor, sessions, chain, quit, clock, life, main, todo>>

-----------------------------------------------------------------------------
(* The network completes a pending read or write, or a part of it.         *)

OperationCompletes(s) ==
    /\ Running
    /\ chain[s] \in Pending
    /\ \E outcome \in {"readOk", "writeOk", "failed"} :
          /\ chain[s] = "reading" => outcome # "writeOk"
          /\ chain[s] = "writing" => outcome # "readOk"
          /\ chain' = [chain EXCEPT ![s] = outcome]
    /\ UNCHANGED <<acceptor, boot, sessions, quit, timer, clock, life, main, todo>>

(* async_read_until and async_write are composed: a part has been          *)
(* transferred and the handler that asks for the rest is queued.           *)
PartCompletes(s) ==
    /\ Running
    /\ chain[s] \in Pending
    /\ chain' = [chain EXCEPT ![s] = IF @ = "reading" THEN "readMore" ELSE "writeMore"]
    /\ UNCHANGED <<acceptor, boot, sessions, quit, timer, clock, life, main, todo>>

(* A thread takes the queued handler of the chain.                         *)
OperationHandler(s) ==
    /\ ThreadIdle
    /\ \/ /\ chain[s] \in {"readMore", "writeMore"}
          /\ chain' = [chain EXCEPT ![s] = IF @ = "readMore" THEN "reading" ELSE "writing"]
          /\ UNCHANGED age
       \/ /\ chain[s] = "readOk"       \* prolongateLifeTime, then readImpl
          /\ chain' = [chain EXCEPT ![s] = "handling"]
          /\ age' = [age EXCEPT ![s] = 0]
       \/ /\ chain[s] = "writeOk" /\ ~quit[s]
          /\ chain' = [chain EXCEPT ![s] = "reading"]
          /\ UNCHANGED age
       \/ /\ chain[s] = "failed" \/ (chain[s] = "writeOk" /\ quit[s])
          /\ chain' = [chain EXCEPT ![s] = "leaving"]
          /\ UNCHANGED age
    /\ UNCHANGED <<acceptor, boot, sessions, quit, timer, left, life, main, todo>>

(* readImpl: every command that returns ends in write().                   *)
HandleCommand(s) ==
    /\ chain[s] = "handling"
    /\ chain' = [chain EXCEPT ![s] = "writing"]
    /\ quit' \in {quit, [quit EXCEPT ![s] = TRUE]}
    /\ UNCHANGED <<acceptor, boot, sessions, timer, clock, life, main, todo>>

(* The exception leaves the handler, and run(): no answer, no next read,   *)
(* and the session is not taken out of the registry.                       *)
HandlerThrows(s) ==
    /\ HandlersThrow
    /\ chain[s] = "handling"
    /\ chain' = [chain EXCEPT ![s] = "crashed"]
    /\ UNCHANGED <<acceptor, boot, sessions, quit, timer, clock, life, main, todo>>

DeleteFromSessions(s) ==
    /\ chain[s] = "leaving"
    /\ MutexFree
    /\ sessions' = sessions \ {s}
    /\ chain' = [chain EXCEPT ![s] = "ended"]
    /\ UNCHANGED <<acceptor, boot, quit, timer, clock, main, todo>>
    /\ Release(s)

-----------------------------------------------------------------------------
(* The timer.                                                              *)

TimerExpires(s) ==
    /\ Running
    /\ timer[s] = "armed"
    /\ left[s] = 0
    /\ timer' = [timer EXCEPT ![s] = "fired"]
    /\ UNCHANGED <<acceptor, boot, sessions, chain, quit, clock, life, main, todo>>

\* Mutant: re-arming adds to what is left of a doubled period.
TimerHandlerDoublesPeriod(s) ==
    /\ ThreadIdle
    /\ timer[s] = "fired" /\ age[s] <= Timeout
    /\ timer' = [timer EXCEPT ![s] = "armed"]
    /\ left' = [left EXCEPT ![s] = @ + 2 * Timeout]
    /\ UNCHANGED <<acceptor, boot, sessions, chain, quit, age, life, main, todo>>

(* Between the look at lastActivityTime and socket.cancel() other threads  *)
(* go on with the session.                                                 *)
TimerHandler(s) ==
    /\ ThreadIdle
    /\ UNCHANGED <<acceptor, boot, sessions, chain, quit, age, main, todo>>
    /\ \/ /\ timer[s] = "fired" /\ age[s] > Timeout
          /\ timer' = [timer EXCEPT ![s] = "checked"]
          /\ UNCHANGED <<left, life>>
       \/ /\ timer[s] = "fired" /\ age[s] <= Timeout
          /\ timer' = [timer EXCEPT ![s] = "armed"]
          /\ left' = [left EXCEPT ![s] = Timeout]
          /\ UNCHANGED life
       \/ /\ timer[s] = "aborted"
          /\ timer' = [timer EXCEPT ![s] = "off"]
          /\ UNCHANGED left
          /\ Release(s)

\* Mutant: the timer also takes the session out of the registry.
TimerDropsSession(s) ==
    /\ timer[s] = "checked"
    /\ timer' = [timer EXCEPT ![s] = "off"]
    /\ SocketCancel(s)
    /\ sessions' = sessions \ {s}
    /\ UNCHANGED <<acceptor, boot, quit, clock, main, todo>>
    /\ Release(s)

TimerCancelsSocket(s) ==
    /\ timer[s] = "checked"
    /\ timer' = [timer EXCEPT ![s] = "off"]
    /\ SocketCancel(s)
    /\ UNCHANGED <<acceptor, boot, sessions, quit, clock, main, todo>>
    /\ Release(s)

(* ~POP3Session on the thread whose handler dropped the last shared_ptr.   *)
Destroy(s) ==
    /\ life[s] = "dying"
    /\ life' = [life EXCEPT ![s] = "destroyed"]
    /\ UNCHANGED <<acceptor, boot, sessions, chain, quit, timer, clock, main, todo>>

-----------------------------------------------------------------------------
(* The thread of Run: the user types "quit".                               *)

QuitTyped ==
    /\ main = "serving"
    /\ main' = "cancelling"
    /\ todo' = sessions
    /\ UNCHANGED <<acceptor, boot, sessions, chain, quit, timer, clock, life>>

CancelOne(s) ==
    /\ main = "cancelling"
    /\ s \in todo
    /\ todo' = todo \ {s}
    /\ SocketCancel(s)
    /\ TimerCancel(s)
    /\ UNCHANGED <<acceptor, boot, sessions, quit, clock, life, main>>

AllCancelled ==
    /\ main = "cancelling"
    /\ todo = {}
    /\ main' = "cancelled"
    /\ UNCHANGED <<acceptor, boot, sessions, chain, quit, timer, clock, life, todo>>

CancelAcceptor ==
    /\ main = "cancelled"
    /\ main' = "joining"
    /\ acceptor' = IF acceptor = "pending" THEN "aborted" ELSE acceptor
    /\ UNCHANGED <<boot, sessions, chain, quit, timer, clock, life, todo>>

\* Mutant: waits are not counted as work.
OutstandingWorkWithoutTimers ==
    \/ acceptor # "stopped"
    \/ \E s \in Session :
          boot[s] \in Booting \/ chain[s] \in Operating \/ life[s] = "dying"

(* io_context::run returns when no operation is pending and no handler is  *)
(* queued or running.                                                      *)
OutstandingWork ==
    \/ acceptor # "stopped"
    \/ \E s \in Session :
          boot[s] \in Booting \/ chain[s] \in Operating
          \/ timer[s] # "off" \/ life[s] = "dying"

Join ==
    /\ main = "joining"
    /\ ~OutstandingWork \/ Cardinality(Crashed) = Threads
    /\ main' = "exited"
    /\ UNCHANGED <<acceptor, boot, sessions, chain, quit, timer, clock, life, todo>>

(* steady_clock; ages beyond the timeout are not told apart.               *)
Tick ==
    /\ Running
    /\ age' = [s \in Session |-> IF life[s] = "alive" /\ age[s] <= Timeout
                                 THEN age[s] + 1 ELSE age[s]]
    /\ left' = [s \in Session |-> IF left[s] > 0 THEN left[s] - 1 ELSE 0]
    /\ UNCHANGED <<acceptor, boot, sessions, chain, quit, timer, life, main, todo>>

(* The end of the process: nothing is left to happen.                      *)
Exited == main = "exited" /\ UNCHANGED vars

SessionStep(s) ==
    \/ CreateSession(s) \/ FirstRead(s) \/ StartTimer(s)
    \/ OperationCompletes(s) \/ PartCompletes(s) \/ OperationHandler(s)
    \/ HandleCommand(s) \/ HandlerThrows(s) \/ DeleteFromSessions(s)
    \/ TimerExpires(s) \/ TimerHandler(s) \/ TimerCancelsSocket(s)
    \/ Destroy(s)

Next ==
    \/ AcceptCompletes \/ AcceptHandler \/ Serve
    \/ \E s \in Session : SessionStep(s) \/ CancelOne(s)
    \/ QuitTyped \/ AllCancelled \/ CancelAcceptor \/ Join
    \/ Tick
    \/ Exited

Spec == Init /\ [][Next]_vars

(* Threads that are inside a handler, the main thread, the clock and the   *)
(* reactor go on.  The queue of the io_context is first in, first out: a   *)
(* queued handler gets a thread although threads are idle only now and     *)
(* then.  Clients and connections owe nothing, nobody has to type "quit".  *)
Fairness ==
    /\ WF_vars(Tick)
    /\ WF_vars(Serve)
    /\ SF_vars(AcceptHandler)
    /\ WF_vars(AllCancelled \/ CancelAcceptor \/ Join)
    /\ \A s \in Session :
          /\ WF_vars(CreateSession(s) \/ FirstRead(s) \/ StartTimer(s))
          /\ WF_vars(HandleCommand(s) \/ HandlerThrows(s) \/ DeleteFromSessions(s))
          /\ SF_vars(OperationHandler(s))
          /\ WF_vars(TimerExpires(s))
          /\ SF_vars(TimerHandler(s))
          /\ WF_vars(TimerCancelsSocket(s))
          /\ WF_vars(Destroy(s))
          /\ WF_vars(CancelOne(s))

FairSpec == Spec /\ Fairness

-----------------------------------------------------------------------------
(* deleteFromSessions asserts that the session is registered and erases    *)
(* the iterator it found: however reads, writes, the timer and cancelAll   *)
(* interleave, exactly one handler takes a session out of the registry,    *)
(* and until then the registry keeps it.                                   *)
RegisteredUntilEnd ==
    /\ \A s \in Session :
          s \in sessions <=> (chain[s] \in Operating \cup {"crashed"} \/ boot[s] = "created")
    /\ todo \subseteq sessions

(* The shared_ptrs keep a session alive as long as a handler of it can     *)
(* still run: after the destructor there is no read, write, wait, step of  *)
(* the accept handler or registry entry left that could touch it.          *)
NoHandlerAfterDestruction ==
    \A s \in Session : life[s] \in {"none", "dying", "destroyed"} =>
        /\ boot[s] \notin {"created", "reading"}
        /\ s \notin sessions
        /\ chain[s] \notin Operating
        /\ timer[s] = "off"

(* If no handler threw, the process leaves Run only after every accepted   *)
(* session was taken out of the registry and destroyed: the static list    *)
(* does not outlive the io_context with sockets in it.                     *)
ExitLeavesNothing ==
    (main = "exited" /\ Crashed = {})
        => /\ sessions = {}
           /\ \A s \in Session : boot[s] # "none" => life[s] = "destroyed"

(* "client does not reponse too long": a client that stays silent is       *)
(* dropped.                                                                *)
SilentClientIsDropped ==
    \A s \in Session : chain[s] = "reading" ~> chain[s] # "reading"

=============================================================================
