---------------------------- MODULE MailboxLease ----------------------------
(***************************************************************************)
(* What the mailbox lock promises, without its implementation: a session   *)
(* holds the lease of at most one mailbox name, a name is leased to at     *)
(* most one session, and only the holder gives it back.                    *)
(***************************************************************************)
CONSTANTS
    Session, Name,
    NoLease         \* not a name

VARIABLE lease      \* the name each session holds, or NoLease

Init == lease = [s \in Session |-> NoLease]

Acquire(s, n) ==
    /\ lease[s] = NoLease
    /\ \A t \in Session : lease[t] # n
    /\ lease' = [lease EXCEPT ![s] = n]

Release(s) ==
    /\ lease[s] # NoLease
    /\ lease' = [lease EXCEPT ![s] = NoLease]

Next == \E s \in Session : Release(s) \/ \E n \in Name : Acquire(s, n)

Spec == Init /\ [][Next]_lease

=============================================================================
