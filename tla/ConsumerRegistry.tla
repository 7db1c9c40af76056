-------------------------- MODULE ConsumerRegistry --------------------------
(***************************************************************************)
(* FileSystemConsumerInfoStorage: the directory with one file per consumer *)
(* and the cache in front of it, under a shared_mutex; and the logons of   *)
(* AuthorizationManager that look into the cache three times.  The process *)
(* is started, dies and is started again; files are edited by hand.        *)
(***************************************************************************)
EXTENDS ConsumerDocument

CONSTANTS
    Thread,         \* threads that handle PASS
    Name,           \* names clients type
    Password,       \* passwords clients type
    NameHash,       \* std::hash of a name: different names may have the same
    Hash,
    PasswordHash,   \* std::hash of a password
    FileName,       \* files of the directory, std::to_string of a hash among them
    Consumer,       \* what addConsumerInfo is called with
    Document,       \* what an editor may leave in a file
    Nobody          \* no consumer

ASSUME RegistryAssumption ==
    /\ NameHash \in [Name -> FileName]
    /\ PasswordHash \in [Password -> Hash]
    /\ Nobody \notin Consumer
    /\ Consumer \subseteq [name : FileName, password : Hash, storages : Seq(MailStorageInfos)]
    /\ \A i \in Consumer : Loadable(ToJson(i))

VARIABLES
    disk,        \* path_to_storage: what is in each file
    phase,       \* the process: "down", "starting" (constructor), "up"
    refresh,     \* refresh(): "off", "listed", "loading" (holds the mutex)
    todo,        \* its files still to be read
    cache,       \* cachedConsumerInfos
    adding,      \* the consumer addConsumerInfo is writing, or Nobody
    step,        \* logon: where each thread is, or what it was answered
    typed,       \* logon: name and password
    found,       \* logon: the element its iterator points to, if any
    dirs,        \* logon: the directories of the storages it returned
    provisioned  \* history: consumers added, with their files left alone since

registry == <<disk, phase, refresh, todo, cache, adding>>
logons == <<step, typed, found, dirs>>
vars == <<registry, logons, provisioned>>

(* Everything the files could ever be turned into.                         *)
Infos == Consumer \cup UNION {Loaded(d) : d \in Document}

Documents == {ToJson(i) : i \in Consumer} \cup Document \cup {Malformed, Missing}

Refusals == {"NoSuchConsumer", "InvalidPassword", "ConsumerHasNoAssociatedMailStorage"}

Steps == {"idle", "verified", "checking", "matched", "taking", "granted"} \cup Refusals

AllDirectories == {Directories(i.storages) : i \in Infos}

TypeOK ==
    /\ disk \in [FileName -> Documents]
    /\ phase \in {"down", "starting", "up"}
    /\ refresh \in {"off", "listed", "loading"}
    /\ todo \in SUBSET FileName
    /\ cache \in SUBSET Infos
    /\ adding \in Consumer \cup {Nobody}
    /\ step \in [Thread -> Steps]
    /\ typed \in [Thread -> Name \X Password]
    /\ found \in [Thread -> SUBSET Infos]
    /\ dirs \in [Thread -> AllDirectories \cup {<< >>}]
    /\ provisioned \in SUBSET Consumer

-----------------------------------------------------------------------------

NoLogons ==
    /\ step' = [t \in Thread |-> "idle"]
    /\ found' = [t \in Thread |-> {}]
    /\ dirs' = [t \in Thread |-> << >>]
    /\ UNCHANGED typed

Init ==
    /\ disk = [f \in FileName |-> Missing]
    /\ phase = "down"
    /\ refresh = "off"
    /\ todo = {}
    /\ cache = {}
    /\ adding = Nobody
    /\ step = [t \in Thread |-> "idle"]
    /\ typed \in [Thread -> Name \X Password]
    /\ found = [t \in Thread |-> {}]
    /\ dirs = [t \in Thread |-> << >>]
    /\ provisioned = {}

(* Nobody holds m_mutex exclusively.                                       *)
Unlocked == refresh # "loading" /\ adding = Nobody

Cached(name) == {i \in cache : i.name = name}

-----------------------------------------------------------------------------
(* The process and its directory.                                          *)

Start ==
    /\ phase = "down"
    /\ phase' = "starting"
    /\ UNCHANGED <<disk, refresh, todo, cache, adding, logons, provisioned>>

Down ==
    /\ phase' = "down"
    /\ refresh' = "off"
    /\ todo' = {}
    /\ cache' = {}
    /\ adding' = Nobody
    /\ NoLogons
    /\ UNCHANGED <<disk, provisioned>>

Crash == phase # "down" /\ Down

(* Somebody edits, adds or deletes a file by hand, but not the one being   *)
(* written.  Whoever it belonged to or names has to be provisioned anew.   *)
Edit(f, d) ==
    /\ adding # Nobody => f # adding.name
    /\ disk' = [disk EXCEPT ![f] = d]
    /\ provisioned' = {i \in provisioned : i.name # f /\ ~IsAbout(d, i.name)}
    /\ UNCHANGED <<phase, refresh, todo, cache, adding, logons>>

-----------------------------------------------------------------------------
(* refresh                                                                 *)

\* Mutant: somebody calls refresh() while the server is running.
MayRefreshAnyTime == phase \in {"starting", "up"}

(* Only the constructor calls it.                                          *)
MayRefresh == phase = "starting"

(* The directory is listed before the mutex is taken.                      *)
RefreshLists ==
    /\ MayRefresh
    /\ refresh = "off"
    /\ refresh' = "listed"
    /\ todo' = {f \in FileName : disk[f] # Missing}
    /\ UNCHANGED <<disk, phase, cache, adding, logons, provisioned>>

RefreshClears ==
    /\ refresh = "listed"
    /\ Unlocked
    /\ refresh' = "loading"
    /\ cache' = {}
    /\ UNCHANGED <<disk, phase, todo, adding, logons, provisioned>>

\* Mutant: a file that cannot be read ends the loop but not the program.
RefreshLoadsUntilError ==
    /\ refresh = "loading"
    /\ \E f \in todo :
          /\ todo' = IF Throws(disk[f]) THEN {} ELSE todo \ {f}
          /\ cache' = cache \cup {i \in Loaded(disk[f]) : Cached(i.name) = {}}
    /\ UNCHANGED <<disk, phase, refresh, adding, logons, provisioned>>

(* The files come in an order of their own; the first consumer of a name   *)
(* stays.  Nothing catches an exception on its way out of main.            *)
RefreshLoads ==
    /\ refresh = "loading"
    /\ \E f \in todo :
          \/ Throws(disk[f]) /\ Down
          \/ /\ ~Throws(disk[f])
             /\ todo' = todo \ {f}
             /\ cache' = cache \cup {i \in Loaded(disk[f]) : Cached(i.name) = {}}
             /\ UNCHANGED <<disk, phase, refresh, adding, logons, provisioned>>

RefreshEnds ==
    /\ refresh = "loading"
    /\ todo = {}
    /\ refresh' = "off"
    /\ phase' = "up"
    /\ UNCHANGED <<disk, todo, cache, adding, logons, provisioned>>

-----------------------------------------------------------------------------
(* addConsumerInfo: everything happens under the mutex, but a crash or an  *)
(* editor can see the file before it is complete.                          *)

(* The file is opened, which empties it.  If the name is cached or the     *)
(* file cannot be opened the caller gets false and nothing changes.        *)
AddOpens(i) ==
    /\ phase = "up"
    /\ Unlocked
    /\ Cached(i.name) = {}
    /\ adding' = i
    /\ disk' = [disk EXCEPT ![i.name] = Malformed]
    /\ UNCHANGED <<phase, refresh, todo, cache, logons, provisioned>>

(* Errors of the stream are not looked at: the caller gets true also if    *)
(* the file stays empty, and then the history does not count it.  Nor does *)
(* it if a file edited by hand names the same consumer.                    *)
AddEnds ==
    /\ adding # Nobody
    /\ cache' = cache \cup {adding}
    /\ adding' = Nobody
    /\ \/ UNCHANGED <<disk, provisioned>>
       \/ /\ disk' = [disk EXCEPT ![adding.name] = ToJson(adding)]
          /\ provisioned' = provisioned \cup
                {i \in {adding} : \A f \in FileName : ~IsAbout(disk[f], i.name)}
    /\ UNCHANGED <<phase, refresh, todo, logons>>

-----------------------------------------------------------------------------
(* AuthorizationManager::logon                                             *)

Reply(t, s) == step' = [step EXCEPT ![t] = s]

\* Mutant: hasMailbox gives up if it does not get the lock at once.
VerifyNameTries(t, n, p) ==
    /\ phase = "up" /\ step[t] = "idle"
    /\ typed' = [typed EXCEPT ![t] = <<n, p>>]
    /\ Reply(t, IF Cached(NameHash[n]) = {} \/ ~Unlocked THEN "NoSuchConsumer" ELSE "verified")
    /\ UNCHANGED <<registry, found, dirs, provisioned>>

(* verifyName: hasMailbox                                                  *)
VerifyName(t, n, p) ==
    /\ phase = "up" /\ step[t] = "idle"
    /\ Unlocked
    /\ typed' = [typed EXCEPT ![t] = <<n, p>>]
    /\ Reply(t, IF Cached(NameHash[n]) = {} THEN "NoSuchConsumer" ELSE "verified")
    /\ UNCHANGED <<registry, found, dirs, provisioned>>

(* The half of getConsumerInfo that is under the shared lock.              *)
Find(t) ==
    /\ step[t] \in {"verified", "matched"}
    /\ Unlocked
    /\ found' = [found EXCEPT ![t] = Cached(NameHash[typed[t][1]])]
    /\ Reply(t, IF step[t] = "verified" THEN "checking" ELSE "taking")
    /\ UNCHANGED <<registry, typed, dirs, provisioned>>

(* The other half dereferences the iterator after the lock was given up:   *)
(* undefined, and any consumer, once the element is not in the set.        *)
Results(t) == IF found[t] \subseteq cache THEN {found[t]} ELSE {{i} : i \in Infos}

(* verifyCredentials                                                       *)
CheckPassword(t) ==
    /\ step[t] = "checking"
    /\ \E settings \in Results(t) :
          Reply(t, IF \E i \in settings : i.password = PasswordHash[typed[t][2]]
                   THEN "matched" ELSE "InvalidPassword")
    /\ UNCHANGED <<registry, typed, found, dirs, provisioned>>

(* getMailStoragesAssociatedWithConsumer                                   *)
TakeStorages(t) ==
    /\ step[t] = "taking"
    /\ \E settings \in Results(t) :
          LET storages == IF settings = {} THEN << >>
                          ELSE (CHOOSE i \in settings : TRUE).storages
          IN  /\ Reply(t, IF storages = << >> THEN "ConsumerHasNoAssociatedMailStorage"
                                              ELSE "granted")
              /\ dirs' = [dirs EXCEPT ![t] = Directories(storages)]
    /\ UNCHANGED <<registry, typed, found, provisioned>>

Answered(t) ==
    /\ step[t] \in Refusals \cup {"granted"}
    /\ Reply(t, "idle")
    /\ found' = [found EXCEPT ![t] = {}]
    /\ dirs' = [dirs EXCEPT ![t] = << >>]
    /\ UNCHANGED <<registry, typed, provisioned>>

Next ==
    \/ Start \/ Crash
    \/ \E f \in FileName, d \in Document : Edit(f, d)
    \/ RefreshLists \/ RefreshClears \/ RefreshLoads \/ RefreshEnds
    \/ \E i \in Consumer : AddOpens(i)
    \/ AddEnds
    \/ \E t \in Thread :
          \/ \E n \in Name, p \in Password : VerifyName(t, n, p)
          \/ Find(t) \/ CheckPassword(t) \/ TakeStorages(t) \/ Answered(t)

Spec == Init /\ [][Next]_vars

-----------------------------------------------------------------------------
(* A consumer that was added can log on from then on, across crashes,      *)
(* restarts and refused additions of the same name, with the password and  *)
(* to the storages it was added with, unless somebody edits its file.      *)
ProvisionedCanLogOn ==
    (phase = "up" /\ refresh # "loading")
        => \A i \in provisioned : Cached(i.name) = {i}

(* The three lookups of a logon, each under a lock of its own, answer from *)
(* one record, the typed name's: it has the typed password if the logon    *)
(* comes as far as the storages and it has those storages, and it has      *)
(* another password if the logon is told so.                               *)
AnswersFromOwnRecord ==
    \A t \in Thread :
        LET own == Cached(NameHash[typed[t][1]])
            has == {i \in own : i.password = PasswordHash[typed[t][2]]}
        IN  /\ step[t] \in {"matched", "taking", "granted"} => has = own /\ own # {}
            /\ step[t] = "granted" =>
                  \E i \in has : i.storages # << >> /\ dirs[t] = Directories(i.storages)
            /\ step[t] = "InvalidPassword" => own # {} /\ has = {}
            /\ step[t] = "ConsumerHasNoAssociatedMailStorage" =>
                  \E i \in has : i.storages = << >>

(* A logon is as good as decided when verifyName has looked the name up:   *)
(* what it is going to be told, and in the end is told, is what the cache  *)
(* said then, whatever is added, locked or refreshed in between.           *)
LogonResult(reply, directories) == [reply |-> reply, dirs |-> directories]

Access(i) ==
    IF i.storages = << >>
    THEN LogonResult("ConsumerHasNoAssociatedMailStorage", << >>)
    ELSE LogonResult("granted", Directories(i.storages))

Told(i, p) ==
    IF i.password = PasswordHash[p] THEN Access(i) ELSE LogonResult("InvalidPassword", << >>)

Expects(t) ==
    Told(CHOOSE i \in Cached(NameHash[typed[t][1]]) : TRUE, typed[t][2])

Decided(t) ==
    CASE step[t] = "granted" -> LogonResult("granted", dirs[t])
      [] step[t] \in Refusals \cup {"idle"} -> LogonResult(step[t], << >>)
      [] OTHER -> Expects(t)

Logon == INSTANCE LogonDecision
            WITH known <- cache,
                 decision <- [t \in Thread |-> Decided(t)]

(* The three lookups implement one atomic decision.                        *)
LogonSpec == Logon!Spec

=============================================================================
