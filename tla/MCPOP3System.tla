---------------------------- MODULE MCPOP3System ----------------------------
(* POP3System for TLC: one account with one directory.                     *)
EXTENDS POP3System, Sequences

CONSTANTS s1, alice, f1, f2

MCDirsOf == [a \in Account |-> << alice >>]

MCHome == [f \in File |-> alice]

=============================================================================
