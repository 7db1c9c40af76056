---------------------------- MODULE POP3Exchange ----------------------------
(***************************************************************************)
(* What a session promises to a client that waits for its replies, without *)
(* buffers, pieces of lines and parsing errors: the two take turns, every  *)
(* line is decided as a whole, by it and by what earlier answers granted,  *)
(* a refusal changes nothing, and the answer to QUIT is the last one.      *)
(***************************************************************************)
EXTENDS Integers, Sequences

CONSTANTS Word, Line, Account, PasswordOf, NoName

VARIABLES
    turn,       \* whose turn it is: "client", "server", "reply" or "over"
    line,       \* what the client asked last
    answer,     \* "none", "granted" or "refused"
    userName,   \* the account the client named
    mailbox,    \* the account whose maildrop it has, or NoName
    leaving     \* whether QUIT was granted

session == <<userName, mailbox, leaving>>
vars == <<turn, line, answer, session>>

Init ==
    /\ turn = "client"
    /\ line = << >>
    /\ answer = "none"
    /\ userName = NoName
    /\ mailbox = NoName
    /\ leaving = FALSE

Ask(l) ==
    /\ turn = "client"
    /\ turn' = "server"
    /\ line' = l
    /\ UNCHANGED <<answer, session>>

(* A line without a word in it may be taken for any word.                  *)
Said == IF line = << >> THEN {<< w >> : w \in Word} ELSE {line}

-----------------------------------------------------------------------------
(* What can be granted.                                                    *)

LoggedOn == mailbox # NoName

Nameable(name) == name \in Account /\ (LoggedOn => name = mailbox)

Name(ws) ==
    /\ ws[1] = "USER" /\ Len(ws) > 1
    /\ Nameable(ws[2])
    /\ userName' = ws[2]
    /\ UNCHANGED <<mailbox, leaving>>

LogOn(ws) ==
    /\ ws[1] = "PASS" /\ Len(ws) > 1
    /\ ~LoggedOn
    /\ userName \in Account
    /\ ws[2] = PasswordOf[userName]
    /\ mailbox' = userName
    /\ UNCHANGED <<userName, leaving>>

UseMaildrop(ws) ==
    /\ ws[1] \in {"STAT", "LIST", "RETR", "DELE", "RSET"}
    /\ LoggedOn
    /\ UNCHANGED session

Idle(ws) == ws[1] = "NOOP" /\ UNCHANGED session

Leave(ws) ==
    /\ ws[1] = "QUIT"
    /\ leaving' = TRUE
    /\ UNCHANGED <<userName, mailbox>>

(* What is never refused.                                                  *)
Due(ws) ==
    \/ ws[1] \in {"NOOP", "QUIT"}
    \/ ws[1] \in {"STAT", "RSET"} /\ LoggedOn
    \/ ws[1] = "USER" /\ Len(ws) > 1 /\ Nameable(ws[2])

-----------------------------------------------------------------------------

Answer(a) == turn' = "reply" /\ answer' = a

Grant ==
    /\ turn = "server"
    /\ \E ws \in Said :
          Name(ws) \/ LogOn(ws) \/ UseMaildrop(ws) \/ Idle(ws) \/ Leave(ws)
    /\ Answer("granted")
    /\ UNCHANGED line

Refuse ==
    /\ turn = "server"
    /\ \E ws \in Said : ~Due(ws)
    /\ Answer("refused")
    /\ UNCHANGED <<line, session>>

(* An email that is gone ends the session without an answer.               *)
Fail ==
    /\ turn = "server"
    /\ \E ws \in Said : LogOn(ws) \/ UseMaildrop(ws)
    /\ turn' = "over"
    /\ answer' = "none"
    /\ UNCHANGED line

Deliver ==
    /\ turn = "reply"
    /\ turn' = IF leaving THEN "over" ELSE "client"
    /\ UNCHANGED <<line, answer, session>>

(* The connection or the process is lost.                                  *)
Lose ==
    /\ turn # "over"
    /\ turn' = "over"
    /\ UNCHANGED <<line, answer, session>>

Next ==
    \/ \E l \in Line : Ask(l)
    \/ Grant \/ Refuse \/ Fail
    \/ Deliver
    \/ Lose

Spec == Init /\ [][Next]_vars

=============================================================================
