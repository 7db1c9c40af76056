---------------------------- MODULE MCPOP3Server ----------------------------
(* POP3Server for TLC: a handful of connections, a timeout of one tick.    *)
EXTENDS POP3Server, TLC

CONSTANTS s1, s2

MCSymmetry == Permutations(Session)

=============================================================================
