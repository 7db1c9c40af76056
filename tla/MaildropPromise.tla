-------------------------- MODULE MaildropPromise --------------------------
(***************************************************************************)
(* What a maildrop promises to its clients, without storages, numbers and  *)
(* marks: a session is offered the emails that exist, the deletions it is  *)
(* promised are made after it has committed them and not before, all of    *)
(* them if the process lives, and nothing else ever deletes an email.      *)
(***************************************************************************)
CONSTANT File

VARIABLES
    disk,       \* the emails that exist
    state,      \* "open", "committed", "over" or "crashed"
    offered,    \* the emails the session was offered
    promised    \* those it was promised would be deleted

vars == <<disk, state, offered, promised>>

Init ==
    /\ disk \in SUBSET File
    /\ state = "over"
    /\ offered = {}
    /\ promised = {}

Open ==
    /\ state \in {"over", "crashed"}
    /\ state' = "open"
    /\ offered' = disk
    /\ promised' = {}
    /\ UNCHANGED disk

Promise ==
    /\ state = "open"
    /\ \E f \in offered \ promised : promised' = promised \cup {f}
    /\ UNCHANGED <<disk, state, offered>>

Withdraw ==
    /\ state = "open"
    /\ promised' = {}
    /\ UNCHANGED <<disk, state, offered>>

Commit == state = "open" /\ state' = "committed" /\ UNCHANGED <<disk, offered, promised>>

Remove ==
    /\ state = "committed"
    /\ \E f \in promised : disk' = disk \ {f}
    /\ UNCHANGED <<state, offered, promised>>

Close ==
    /\ state = "open" \/ (state = "committed" /\ promised \cap disk = {})
    /\ state' = "over"
    /\ UNCHANGED <<disk, offered, promised>>

Crash ==
    /\ state \in {"open", "committed"}
    /\ state' = "crashed"
    /\ UNCHANGED <<disk, offered, promised>>

Deliver ==
    /\ \E f \in File \ disk : disk' = disk \cup {f}
    /\ UNCHANGED <<state, offered, promised>>

Next ==
    Open \/ Promise \/ Withdraw \/ Commit \/ Remove \/ Close \/ Crash \/ Deliver

Spec == Init /\ [][Next]_vars

=============================================================================
