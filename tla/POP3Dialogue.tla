---------------------------- MODULE POP3Dialogue ----------------------------
(***************************************************************************)
(* One session's dialogue with its client: lines arrive in pieces in       *)
(* POP3Session::request, parsePOP3Command turns the buffer into a command, *)
(* the command is dispatched on the state of the session, and the buffer   *)
(* is cleared when the reply has been written.  Lines are sequences of     *)
(* words; a command's effect on the emails is in Maildrop.                 *)
(***************************************************************************)
EXTENDS Integers, Sequences, SequencesExt

CONSTANTS
    Word,       \* what a client can type: commands, names, numbers, ...
    Numeral,    \* the words lexical_cast<unsigned int> accepts
    Account,    \* the words that are registered user names
    PasswordOf, \* their passwords
    NoName,     \* the empty string
    EOL,        \* the end of a line
    Lockstep,   \* whether the client waits for the reply before it goes on
    MaxWords,   \* bound: words of a line
    MaxWire     \* bound: words and line ends that are on their way

ASSUME DialogueAssumption ==
    /\ Numeral \subseteq Word
    /\ Account \subseteq Word
    /\ PasswordOf \in [Account -> Word]
    /\ EOL \notin Word /\ NoName \notin Word
    /\ Lockstep \in BOOLEAN
    /\ MaxWords \in Nat /\ MaxWire \in Nat

VARIABLES
    wire,       \* sent by the client, not yet received
    request,    \* POP3Session::request
    phase,      \* the session: reading, writing, or over
    state,      \* POP3Session::state
    userName,   \* POP3Session::userName
    mailbox,    \* whose maildrop POP3Session::mailbox is, or NoName
    quit,       \* POP3Session::quitCommandReceived
    reply,      \* POP3Session::response: "OK" or the error
    line,       \* history: the last line a client in lockstep sent
    waiting     \* history: the client has sent a line since the last reply

session == <<state, userName, mailbox, quit>>
client == <<wire, line, waiting>>
vars == <<wire, request, phase, session, reply, line, waiting>>

Commands == {"USER", "PASS", "STAT", "LIST", "RETR", "DELE", "NOOP", "RSET", "QUIT"}

ParsingErrors == {"UnknownCommand", "InvalidUintParameter", "UserNameRequired",
                  "PasswordRequired", "MailNumberRequired"}

SessionErrors == {"ProhibitedForAnonymous", "NotRegistered", "MailboxIsBusy",
                  "InternalError", "OtherMailboxBeingUsed", "AlreadyLogged",
                  "NoSuchMessage", "MessageAlreadyDeleted"}

AuthErrors == {"NoSuchConsumer", "InvalidPassword",
               "ConsumerHasNoAssociatedMailStorage"}

(* "ended": taken out of the registry; "stuck": an exception left the      *)
(* handler; "crashed": undefined behaviour took the process down.          *)
Phases == {"reading", "writing", "ended", "stuck", "crashed"}

Lines == UNION {[1 .. n -> Word] : n \in 0 .. MaxWords}

TypeOK ==
    /\ wire \in Seq(Word \cup {EOL})
    /\ request \in Seq(Word \cup {EOL})
    /\ phase \in Phases
    /\ state \in {"Authorization", "Transaction"}
    /\ userName \in Account \cup {NoName}
    /\ mailbox \in Account \cup {NoName}
    /\ quit \in BOOLEAN
    /\ reply \in {"", "OK"} \cup ParsingErrors \cup SessionErrors \cup AuthErrors
    /\ line \in Lines
    /\ waiting \in BOOLEAN

-----------------------------------------------------------------------------
(* parsePOP3Command.                                                       *)

LineComplete == EOL \in ToSet(request)

(* The buffer is split at any white space; line ends are white space.      *)
Words(buffer) ==
    LET words[n \in 0 .. Len(buffer)] ==
            IF n = 0 THEN << >>
            ELSE IF buffer[n] = EOL THEN words[n - 1]
            ELSE Append(words[n - 1], buffer[n])
    IN  words[Len(buffer)]

(* Without a word in it the code reads v[0] of an empty vector: it finds   *)
(* whatever the memory holds, in the best case a word.                     *)
Readings(buffer) ==
    IF Words(buffer) = << >> THEN {<< w >> : w \in Word} ELSE {Words(buffer)}

TakesNumber(cmd) == cmd \in {"LIST", "RETR", "DELE"}
TakesString(cmd) == cmd \in {"USER", "PASS"}

\* Mutant: a RETR without a number is let through.
ErrorsButMailNumberRequired(ws) ==
    {e \in ParsingErrors :
        \/ e = "UnknownCommand" /\ ws[1] \notin Commands
        \/ e = "InvalidUintParameter" /\ TakesNumber(ws[1])
              /\ Len(ws) > 1 /\ ws[2] \notin Numeral
        \/ e = "UserNameRequired" /\ ws[1] = "USER" /\ Len(ws) = 1
        \/ e = "PasswordRequired" /\ ws[1] = "PASS" /\ Len(ws) = 1}

(* At most one error applies; words after the second are ignored.          *)
Errors(ws) ==
    {e \in ParsingErrors :
        \/ e = "UnknownCommand" /\ ws[1] \notin Commands
        \/ e = "InvalidUintParameter" /\ TakesNumber(ws[1])
              /\ Len(ws) > 1 /\ ws[2] \notin Numeral
        \/ e = "UserNameRequired" /\ ws[1] = "USER" /\ Len(ws) = 1
        \/ e = "PasswordRequired" /\ ws[1] = "PASS" /\ Len(ws) = 1
        \/ e = "MailNumberRequired" /\ ws[1] = "RETR" /\ Len(ws) = 1}

(* Which alternative of the variant POP3Command::parameter holds.          *)
Alternative(ws) ==
    IF Len(ws) > 1 /\ TakesString(ws[1]) THEN "string"
    ELSE IF Len(ws) > 1 /\ TakesNumber(ws[1]) /\ ws[2] \in Numeral THEN "unsigned int"
    ELSE "monostate"

-----------------------------------------------------------------------------

Init ==
    /\ wire = << >>
    /\ request = << >>
    /\ phase = "reading"
    /\ state = "Authorization"
    /\ userName = NoName
    /\ mailbox = NoName
    /\ quit = FALSE
    /\ reply = ""
    /\ line = << >>
    /\ waiting = FALSE

Send(l) ==
    /\ phase \in {"reading", "writing"}
    /\ Lockstep => ~waiting
    /\ Len(wire) + Len(l) < MaxWire
    /\ wire' = wire \o Append(l, EOL)
    /\ line' = IF Lockstep THEN l ELSE line
    /\ waiting' = TRUE
    /\ UNCHANGED <<request, phase, session, reply>>

(* async_read_until takes what has arrived until there is a line end in    *)
(* the buffer, which may then hold more than the line.                     *)
Receive ==
    /\ phase = "reading"
    /\ ~LineComplete
    /\ \E n \in 1 .. Len(wire) :
          /\ request' = request \o SubSeq(wire, 1, n)
          /\ wire' = SubSeq(wire, n + 1, Len(wire))
    /\ UNCHANGED <<phase, session, reply, line, waiting>>

(* readImpl ends in write(), unless a handler throws.                      *)
Respond(r) == phase' = "writing" /\ reply' = r

(* An email of the maildrop may be gone: reading its size throws.          *)
RespondFromFiles == Respond("OK") \/ (phase' = "stuck" /\ reply' = "")

\* Mutant: readImpl returns after a parsing error.
RejectSilently(ws) ==
    \E e \in Errors(ws) :
        reply' = e /\ UNCHANGED <<phase, session, request, client>>

Reject(ws) ==
    \E e \in Errors(ws) : Respond(e) /\ UNCHANGED <<session, request, client>>

-----------------------------------------------------------------------------
(* handleAnonymousCommand.                                                 *)

\* Mutant: the name is stored before it is verified.
UserStoredBeforeVerified(name) ==
    /\ userName' = name
    /\ Respond(IF name \in Account THEN "OK" ELSE "NotRegistered")
    /\ UNCHANGED <<state, mailbox, quit>>

\* Mutant: a USER that is refused has cleared the name before.
UserRefusedForgetsName(name) ==
    /\ \/ name \in Account /\ userName' = name /\ Respond("OK")
       \/ name \notin Account /\ userName' = NoName /\ Respond("NotRegistered")
    /\ UNCHANGED <<state, mailbox, quit>>

User(name) ==
    /\ \/ /\ name \in Account
          /\ userName' = name
          /\ Respond("OK")
       \/ /\ name \notin Account
          /\ UNCHANGED userName
          /\ Respond("NotRegistered")
    /\ UNCHANGED <<state, mailbox, quit>>

(* VerifyCredentialsAndConnect: the lock comes before the credentials.     *)
PassRefused(password) ==
    /\ \/ Respond("MailboxIsBusy")
       \/ userName \notin Account /\ Respond("NoSuchConsumer")
       \/ /\ userName \in Account
          /\ password # PasswordOf[userName]
          /\ Respond("InvalidPassword")
       \/ /\ userName \in Account
          /\ password = PasswordOf[userName]
          /\ Respond("ConsumerHasNoAssociatedMailStorage") \/ Respond("InternalError")
    /\ UNCHANGED session

\* Mutant: whoever has the lock is let in.
PassAcceptedForAnyName(password) ==
    /\ userName \in Account => password = PasswordOf[userName]
    /\ mailbox' = userName
    /\ state' = "Transaction"
    /\ RespondFromFiles
    /\ UNCHANGED <<userName, quit>>

PassAccepted(password) ==
    /\ userName \in Account
    /\ password = PasswordOf[userName]
    /\ mailbox' = userName
    /\ state' = "Transaction"
    /\ RespondFromFiles
    /\ UNCHANGED <<userName, quit>>

Noop == Respond("OK") /\ UNCHANGED session

Quit ==
    /\ quit' = TRUE
    /\ Respond("OK")
    /\ UNCHANGED <<state, userName, mailbox>>

Anonymous(ws) ==
    /\ \/ ws[1] = "USER" /\ User(ws[2])
       \/ ws[1] = "PASS" /\ (PassRefused(ws[2]) \/ PassAccepted(ws[2]))
       \/ ws[1] = "NOOP" /\ Noop
       \/ ws[1] = "QUIT" /\ Quit
       \/ /\ ws[1] \notin {"USER", "PASS", "NOOP", "QUIT"}
          /\ Respond("ProhibitedForAnonymous")
          /\ UNCHANGED session
    /\ UNCHANGED <<request, client>>

(* handleAuthorizedUserCommand.                                            *)

\* Mutant: a second USER is taken like the first one.
UserAgainRenames(name) ==
    /\ name \in Account
    /\ userName' = name
    /\ Respond("OK")
    /\ UNCHANGED <<state, mailbox, quit>>

UserAgain(name) ==
    /\ Respond(IF name = userName THEN "OK" ELSE "OtherMailboxBeingUsed")
    /\ UNCHANGED session

List(ws) ==
    /\ \/ RespondFromFiles
       \/ Alternative(ws) = "unsigned int" /\ Respond("NoSuchMessage")
    /\ UNCHANGED session

Dele(ws) ==
    /\ \/ /\ Alternative(ws) = "unsigned int"
          /\ \/ RespondFromFiles
             \/ Respond("NoSuchMessage")
             \/ Respond("MessageAlreadyDeleted")
       \/ /\ Alternative(ws) # "unsigned int"
          /\ Respond("OK")
    /\ UNCHANGED session

Retr == (RespondFromFiles \/ Respond("NoSuchMessage")) /\ UNCHANGED session

StatOrRset == RespondFromFiles /\ UNCHANGED session

Authorized(ws) ==
    /\ \/ ws[1] = "LIST" /\ List(ws)
       \/ ws[1] = "DELE" /\ Dele(ws)
       \/ ws[1] = "NOOP" /\ Noop
       \/ ws[1] = "USER" /\ UserAgain(ws[2])
       \/ ws[1] = "PASS" /\ Respond("AlreadyLogged") /\ UNCHANGED session
       \/ ws[1] = "QUIT" /\ Quit
       \/ ws[1] = "RETR" /\ Retr
       \/ ws[1] \in {"STAT", "RSET"} /\ StatOrRset
    /\ UNCHANGED <<request, client>>

(* readImpl                                                                *)
HandleRequest ==
    /\ phase = "reading"
    /\ LineComplete
    /\ \E ws \in Readings(request) :
          \/ Reject(ws)
          \/ Errors(ws) = {} /\ state = "Authorization" /\ Anonymous(ws)
          \/ Errors(ws) = {} /\ state = "Transaction" /\ Authorized(ws)

BlankLineCrashes ==
    /\ phase = "reading"
    /\ LineComplete
    /\ Words(request) = << >>
    /\ phase' = "crashed"
    /\ UNCHANGED <<request, session, reply, client>>

\* Mutant: request.clear() is forgotten.
WrittenWithoutClear ==
    /\ phase = "writing"
    /\ waiting' = FALSE
    /\ phase' = IF quit THEN "ended" ELSE "reading"
    /\ UNCHANGED <<request, wire, line, session, reply>>

(* The handler of async_write.                                             *)
Written ==
    /\ phase = "writing"
    /\ waiting' = FALSE
    /\ \/ /\ quit
          /\ phase' = "ended"
          /\ UNCHANGED request
       \/ /\ ~quit
          /\ phase' = "reading"
          /\ request' = << >>
    /\ UNCHANGED <<wire, line, session, reply>>

(* A read or a write completes with an error.                              *)
ConnectionLost ==
    /\ phase \in {"reading", "writing"}
    /\ phase' = "ended"
    /\ UNCHANGED <<request, session, reply, client>>

Next ==
    \/ \E l \in Lines : Send(l)
    \/ Receive
    \/ HandleRequest \/ BlankLineCrashes
    \/ Written
    \/ ConnectionLost

Spec == Init /\ [][Next]_vars

(* What was sent arrives as long as the connection lasts; the thread pool  *)
(* runs the handlers.                                                      *)
Fairness ==
    /\ WF_vars(Receive)
    /\ WF_vars(HandleRequest \/ BlankLineCrashes)
    /\ WF_vars(Written)

FairSpec == Spec /\ Fairness

-----------------------------------------------------------------------------
(* However its line is cut into pieces on the way, a client that waits for *)
(* the replies gets each reply to the whole line it sent last: neither a   *)
(* piece of the line nor words of an earlier one are parsed.               *)
AnswersTheLineSent ==
    (Lockstep /\ phase = "writing") => request = Append(line, EOL)

(* The session as the client sees it: it waits for one answer at a time.   *)
Turn ==
    CASE phase = "writing" -> "reply"
      [] phase = "reading" /\ waiting -> "server"
      [] phase = "reading" /\ ~waiting -> "client"
      [] OTHER -> "over"

Answer ==
    IF reply = "" THEN "none" ELSE IF reply = "OK" THEN "granted" ELSE "refused"

Exchange ==
    INSTANCE POP3Exchange
    WITH Line <- Lines, turn <- Turn, answer <- Answer, leaving <- quit

(* To a client that waits, the buffer, the pieces its lines arrive in, the *)
(* parser, the two dispatchers and the flags of a session are an exchange  *)
(* of whole lines and answers: what is granted depends on nothing but the  *)
(* line and the earlier grants, a refused line leaves no trace, and no     *)
(* line is answered twice or after QUIT.                                   *)
ExchangeSpec == Exchange!Spec

(* A session has a mailbox exactly in the Transaction state, and it is the *)
(* maildrop of the account that userName names: no order of USER and PASS, *)
(* repeated, refused or pipelined, connects a session to another maildrop  *)
(* or makes the replies and the mailbox name different users.              *)
OwnMaildropOnly ==
    /\ state = "Transaction" <=> mailbox # NoName
    /\ mailbox # NoName => mailbox = userName

(* The handlers take std::get<...> of the parameter without looking: the   *)
(* parser lets no USER or PASS without a string and no RETR without a      *)
(* number through, whatever ends up in the buffer.                         *)
ParametersMatchCommands ==
    (phase = "reading" /\ LineComplete) =>
        \A ws \in Readings(request) : Errors(ws) = {} =>
            /\ TakesString(ws[1]) => Alternative(ws) = "string"
            /\ ws[1] = "RETR" => Alternative(ws) = "unsigned int"

(* Every line of a client that waits for its replies is answered, unless   *)
(* the session is over.                                                    *)
EveryLineIsAnswered ==
    waiting ~> (~waiting \/ phase \notin {"reading", "writing"})

(* "empty line has been sent": a line without a word in it is refused.     *)
EmptyLineIsRefused ==
    (phase \notin {"reading", "ended"} /\ line = << >> /\ Lockstep /\ waiting)
        => (phase = "writing" /\ reply = "EmptyString")

=============================================================================
