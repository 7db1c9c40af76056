--------------------------- MODULE MCPOP3Dialogue ---------------------------
(* POP3Dialogue for TLC: two accounts; bob's password is alice's name.     *)
EXTENDS POP3Dialogue

MCPasswordOf == [a \in Account |-> IF a = "alice" THEN "secret" ELSE "alice"]

=============================================================================
