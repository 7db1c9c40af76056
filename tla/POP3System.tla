----------------------------- MODULE POP3System -----------------------------
(***************************************************************************)
(* The whole server: the sessions of POP3Server with the mailboxes of      *)
(* MailboxService.  The two share nothing but the session object: its read *)
(* handler executes the commands, the handler of its last operation sets   *)
(* the update flag, and its destructor destroys the mailbox.  The steps of *)
(* one that are code of the other are taken together.                      *)
(***************************************************************************)
CONSTANTS
    Session, Threads, Timeout,
    Account, NoName, Dir, DirsOf, File, HomeOf, NoLease, MaxNumber

VARIABLES
    acceptor, boot, sessions, chain, quit, timer, left, age, life, main, todo,
    disk, activeMailboxes, pc, userName, paths, mailbox, acked, quitAcked, removed

Server == INSTANCE POP3Server WITH HandlersThrow <- TRUE

Service == INSTANCE MailboxService

ASSUME SystemAssumption == Server!ServerAssumption /\ Service!ServiceAssumption

serverVars ==
    <<acceptor, boot, sessions, chain, quit, timer, left, age, life, main, todo>>

serviceVars ==
    <<disk, activeMailboxes, pc, userName, paths, mailbox, acked, quitAcked, removed>>

vars == <<serverVars, serviceVars>>

Init == Server!Init /\ Service!Init

ServerAlone == UNCHANGED serviceVars

ServiceAlone == UNCHANGED serverVars

-----------------------------------------------------------------------------
(* The accept handler constructs the session.                              *)
CreateSession(s) == Server!CreateSession(s) /\ Service!Connect(s)

(* readImpl: what the command does to names, mailboxes and locks ...       *)
Executes(s) ==
    \/ \E a \in Account : Service!User(s, a)
    \/ Service!PassLocks(s) \/ Service!PassDenied(s) \/ Service!PassLogsOn(s)
    \/ Service!PassStorage(s) \/ Service!PassConnects(s)
    \/ Service!Stat(s) \/ Service!DeleAll(s) \/ Service!Rset(s)
    \/ \E n \in Service!Number : Service!Retr(s, n) \/ Service!Dele(s, n)
    \/ Service!Quit(s)

(* ... and whether it is still inside PASS, has thrown, or writes.         *)
Command(s) ==
    /\ chain[s] = "handling"
    /\ Executes(s)
    /\ \/ pc'[s] \in {"locked", "connecting"} /\ ServiceAlone
       \/ pc'[s] = "stuck" /\ Server!HandlerThrows(s)
       \/ /\ pc'[s] \in {"authorization", "transaction", "quitting"}
          /\ Server!HandleCommand(s)
          /\ quit'[s] = (pc'[s] = "quitting")

(* NOOP, a refused command, PASS for a busy mailbox; QUIT before a login.  *)
CommandWithoutEffect(s) ==
    /\ pc[s] \in {"authorization", "transaction"}
    /\ Server!HandleCommand(s)
    /\ quit'[s] => pc[s] = "authorization"
    /\ ServerAlone

(* The handler of the read or write that is the last one.                  *)
OperationHandler(s) ==
    /\ Server!OperationHandler(s)
    /\ \/ chain'[s] # "leaving" /\ ServerAlone
       \/ /\ chain'[s] = "leaving"
          /\ chain[s] = "writeOk" /\ pc[s] = "quitting"
          /\ Service!QuitWritten(s)
       \/ /\ chain'[s] = "leaving"
          /\ chain[s] = "failed" \/ pc[s] = "authorization"
          /\ Service!Dropped(s)

(* ~POP3Session: the member `mailbox' is destroyed.                        *)
DestroyMailbox(s) ==
    /\ life[s] = "dying"
    /\ Service!Unlock(s) \/ Service!RemoveNext(s) \/ Service!Gone(s)
    /\ ServiceAlone

Destroy(s) == pc[s] = "gone" /\ Server!Destroy(s) /\ ServerAlone

(* What the server does without touching a mailbox.                        *)
Alone(ServerAction) == ServerAction /\ ServerAlone

BootStep(s) ==
    \/ CreateSession(s)
    \/ Alone(Server!FirstRead(s))
    \/ Alone(Server!StartTimer(s))

HandlerStep(s) ==
    \/ Command(s) \/ CommandWithoutEffect(s)
    \/ Alone(Server!DeleteFromSessions(s))

NetworkStep(s) ==
    \/ Alone(Server!OperationCompletes(s))
    \/ Alone(Server!PartCompletes(s))

DestructorStep(s) == DestroyMailbox(s) \/ Destroy(s)

ExitStep == Alone(Server!AllCancelled \/ Server!CancelAcceptor \/ Server!Join)

Next ==
    \/ Alone(Server!AcceptCompletes)
    \/ Alone(Server!AcceptHandler)
    \/ Alone(Server!Serve)
    \/ Alone(Server!QuitTyped)
    \/ ExitStep
    \/ Alone(Server!Tick)
    \/ Alone(Server!Exited)
    \/ \E s \in Session :
          \/ BootStep(s) \/ HandlerStep(s) \/ NetworkStep(s)
          \/ OperationHandler(s) \/ DestructorStep(s)
          \/ Alone(Server!TimerExpires(s))
          \/ Alone(Server!TimerHandler(s))
          \/ Alone(Server!TimerCancelsSocket(s))
          \/ Alone(Server!CancelOne(s))

Spec == Init /\ [][Next]_vars

(* As in POP3Server; a handler is inside a command until it has called     *)
(* write(), and a destructor until the mailbox is destroyed.               *)
Fairness ==
    /\ WF_vars(Alone(Server!Tick))
    /\ WF_vars(Alone(Server!Serve))
    /\ SF_vars(Alone(Server!AcceptHandler))
    /\ WF_vars(ExitStep)
    /\ \A s \in Session :
          /\ WF_vars(BootStep(s))
          /\ WF_vars(HandlerStep(s))
          /\ SF_vars(OperationHandler(s))
          /\ WF_vars(Alone(Server!TimerExpires(s)))
          /\ SF_vars(Alone(Server!TimerHandler(s)))
          /\ WF_vars(Alone(Server!TimerCancelsSocket(s)))
          /\ WF_vars(DestructorStep(s))
          /\ WF_vars(Alone(Server!CancelOne(s)))

FairSpec == Spec /\ Fairness

-----------------------------------------------------------------------------
(* If no handler threw, Run returns only after every deletion a client was *)
(* promised in a session whose QUIT was acknowledged has been made, and no *)
(* mailbox is left locked: nothing is lost with the objects that wait for  *)
(* their timer or are being destroyed when the user types "quit".          *)
ExitCompletesUpdates ==
    (main = "exited" /\ Server!Crashed = {})
        => /\ activeMailboxes = {}
           /\ \A s \in Session : quitAcked[s] => removed[s] = acked[s]

(* A name is in the table of locked mailboxes only for a session that      *)
(* still needs it: its client is being served, a command of it has thrown, *)
(* or the object outlives the connection because its timer is running, its *)
(* accept handler has not started the timer yet, or its destructor is at   *)
(* work.  No lost shared_ptr and no cycle of them keeps a client out.      *)
LockedForAReason ==
    \A a \in activeMailboxes : \E s \in Session :
        /\ userName[s] = a
        /\ \/ chain[s] \in Server!Operating \cup {"crashed"}
           \/ /\ chain[s] = "ended"
              /\ timer[s] # "off" \/ boot[s] = "reading" \/ life[s] = "dying"

(* Files are removed only when QUIT was read, the last operation is over   *)
(* and nobody can reach the session any more: not a handler, not the       *)
(* timer, not cancelAll.  A removal runs with no command of its session.   *)
RemovesWhenUnreachable ==
    \A s \in Session : removed[s] # {} =>
        /\ quit[s] /\ chain[s] = "ended"
        /\ s \notin sessions /\ timer[s] = "off" /\ boot[s] = "done"

(* After a "quit" whose accept was aborted, Run returns once the chains    *)
(* of all sessions have ended, whatever their mailboxes have still to do.  *)
DrainedServerExits ==
    (main = "joining" /\ acceptor \in {"aborted", "stopped"}
        /\ \A s \in Session : chain[s] \in {"none", "ended"} /\ boot[s] \in {"none", "done"})
    ~> main = "exited"

=============================================================================
