-------------------------- MODULE MCMailboxService --------------------------
(* MailboxService for TLC: alice has two directories, bob has one; the     *)
(* files are alice's, two in her inbox and one in the other directory.     *)
EXTENDS MailboxService

CONSTANTS s1, s2, s3, alice, bob, inbox, work, f1, f2, f3

MCDirsOf == [a \in Account |-> IF a = alice THEN << inbox, work >> ELSE << bob >>]

MCHomeOf == [f \in File |-> IF f = f3 THEN work ELSE inbox]

MCOneDirOf == [a \in Account |-> << inbox >>]

MCHomeInbox == [f \in File |-> inbox]

=============================================================================
