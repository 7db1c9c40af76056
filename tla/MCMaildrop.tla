----------------------------- MODULE MCMaildrop -----------------------------
(* Maildrop for TLC: the file f4, if there is one, has a directory of its  *)
(* own.                                                                    *)
EXTENDS Maildrop

CONSTANTS f1, f2, f3, f4

MCHome == [f \in File |-> IF f = f4 THEN 2 ELSE 1]

=============================================================================
