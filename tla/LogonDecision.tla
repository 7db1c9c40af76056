--------------------------- MODULE LogonDecision ---------------------------
(***************************************************************************)
(* What a logon promises, without locks, files and iterators: it is        *)
(* decided at once, by what is known of the typed name at that moment, and *)
(* the decision stands until it is delivered; no consumer is replaced, and *)
(* none is forgotten before the process ends, with all its logons.         *)
(***************************************************************************)
CONSTANTS
    Thread, Name, Password,
    NameHash, PasswordHash,
    LogonResult(_, _), \* a reply and the directories that come with it
    Access(_)          \* the answer a consumer gets for the right password

VARIABLES
    known,    \* the consumers that can log on
    typed,    \* the name and the password each thread was last asked about
    decision  \* the answer it is going to get, or Undecided

vars == <<known, typed, decision>>

Undecided == LogonResult("idle", << >>)

Init ==
    /\ known = {}
    /\ typed \in [Thread -> Name \X Password]
    /\ decision = [t \in Thread |-> Undecided]

(* Other consumers become known, never two of one name.                    *)
Learn ==
    /\ UNCHANGED <<typed, decision>>
    /\ known \subseteq known'
    /\ \A i, j \in known' : i.name = j.name => i = j

(* The end of the process, for everybody in it.                            *)
Forget ==
    /\ known' = {}
    /\ decision' = [t \in Thread |-> Undecided]
    /\ UNCHANGED typed

Known(n) == {i \in known : i.name = NameHash[n]}

Verdict(i, p) ==
    IF i.password = PasswordHash[p] THEN Access(i) ELSE LogonResult("InvalidPassword", << >>)

LogOn(t, n, p) ==
    /\ decision[t] = Undecided
    /\ typed' = [typed EXCEPT ![t] = <<n, p>>]
    /\ \E answer \in IF Known(n) = {}
                     THEN {LogonResult("NoSuchConsumer", << >>)}
                     ELSE {Verdict(i, p) : i \in Known(n)} :
          decision' = [decision EXCEPT ![t] = answer]
    /\ UNCHANGED known

Deliver(t) ==
    /\ decision[t] # Undecided
    /\ decision' = [decision EXCEPT ![t] = Undecided]
    /\ UNCHANGED <<known, typed>>

Next ==
    \/ Learn \/ Forget
    \/ \E t \in Thread :
          Deliver(t) \/ \E n \in Name, p \in Password : LogOn(t, n, p)

Spec == Init /\ [][Next]_vars

=============================================================================
