----------------------- MODULE ConsumerRegistryProofs -----------------------
(***************************************************************************)
(* Proofs about ConsumerRegistry for any threads, names, passwords, hashes,*)
(* consumers and documents.  The inductive invariant says what the files   *)
(* of provisioned consumers hold, how far refresh has got with them, and   *)
(* what a logon that is under way has seen of the cache.                   *)
(***************************************************************************)
EXTENDS ConsumerRegistry, TLAPS

-----------------------------------------------------------------------------
(* Documents.                                                              *)

(* A storage that fits into its array is read back as it was written.      *)
LEMMA StorageRoundTrip ==
    ASSUME NEW s \in MailStorageInfos
    PROVE  /\ StorageFromJson(StorageToJson(s)) = s
           /\ ~OptionThrows(StorageToJson(s).members)
<1>1. /\ s.options \in Seq(Options)
      /\ Len(s.options) <= MaxOptions
      /\ \A k \in DOMAIN s.options : s.options[k].name \notin LongName
      /\ s = [storageType |-> s.storageType, options |-> s.options]
  BY DEF MailStorageInfos
<1>2. /\ Len(s.options) \in Nat
      /\ MaxOptions \in Nat
      /\ DOMAIN s.options = 1 .. Len(s.options)
  BY <1>1, DocumentAssumption
<1>3. FirstOptions(s.options) = s.options
  <2>1. FirstOptions(s.options) = SubSeq(s.options, 1, Len(s.options))
    BY <1>1, <1>2 DEF FirstOptions
  <2>2. SubSeq(s.options, 1, Len(s.options)) = s.options
    BY <1>1, <1>2
  <2> QED BY <2>1, <2>2
<1> QED
  BY <1>1, <1>3 DEF StorageFromJson, StorageToJson, MailStorageInfo, OptionThrows

(* What addConsumerInfo writes is what refresh reads.                      *)
LEMMA ConsumerRoundTrip ==
    ASSUME NEW i \in Consumer
    PROVE  /\ Loadable(ToJson(i))
           /\ ~Throws(ToJson(i))
           /\ Loaded(ToJson(i)) = {i}
           /\ \A n : IsAbout(ToJson(i), n) <=> n = i.name
<1>1. /\ i = [name |-> i.name, password |-> i.password, storages |-> i.storages]
      /\ i.storages \in Seq(MailStorageInfos)
      /\ Loadable(ToJson(i))
  BY RegistryAssumption
<1>2. /\ DOMAIN i.storages = 1 .. Len(i.storages)
      /\ \A k \in DOMAIN i.storages : i.storages[k] \in MailStorageInfos
      /\ i.storages = [k \in DOMAIN i.storages |-> i.storages[k]]
  BY <1>1
<1>3. /\ ToJson(i).name = i.name
      /\ ToJson(i).password = i.password
      /\ DOMAIN ToJson(i).storages = DOMAIN i.storages
      /\ \A k \in DOMAIN i.storages :
            ToJson(i).storages[k] = StorageToJson(i.storages[k])
  BY DEF ToJson
<1>4. ~Throws(ToJson(i))
  BY <1>2, <1>3, StorageRoundTrip DEF Throws
<1>5. FromJson(ToJson(i)) = i
  <2>1. \A k \in DOMAIN i.storages :
            StorageFromJson(ToJson(i).storages[k]) = i.storages[k]
    BY <1>2, <1>3, StorageRoundTrip
  <2>2. [k \in DOMAIN ToJson(i).storages |-> StorageFromJson(ToJson(i).storages[k])]
            = [k \in DOMAIN i.storages |-> i.storages[k]]
    BY <1>3, <2>1
  <2> QED BY <1>1, <1>2, <1>3, <2>2 DEF FromJson
<1> QED
  BY <1>1, <1>3, <1>4, <1>5 DEF Loaded, IsAbout

(* An empty or absent file gives no consumer.                              *)
LEMMA NothingToLoad ==
    ASSUME NEW d \in {Malformed, Missing}
    PROVE  /\ ~Throws(d)
           /\ Loaded(d) = {}
           /\ \A n : ~IsAbout(d, n)
BY DEF Throws, Loaded, IsAbout, Loadable

(* A file gives at most the one consumer it is about.                      *)
LEMMA LoadsItsConsumer ==
    ASSUME NEW d, NEW i \in Loaded(d)
    PROVE  IsAbout(d, i.name) /\ \A j \in Loaded(d) : j = i
BY DEF Loaded, IsAbout, FromJson

LEMMA LoadsInfos ==
    ASSUME NEW d \in Documents
    PROVE  Loaded(d) \subseteq Infos
<1>1. CASE d \in Document
  BY <1>1 DEF Infos
<1>2. CASE \E i \in Consumer : d = ToJson(i)
  BY <1>2, ConsumerRoundTrip DEF Infos
<1>3. CASE d \in {Malformed, Missing}
  BY <1>3, NothingToLoad
<1> QED
  BY <1>1, <1>2, <1>3 DEF Documents

-----------------------------------------------------------------------------
(* The inductive invariant.                                                *)

(* What the process is doing.                                              *)
Stage ==
    /\ phase = "down" => cache = {}
    /\ phase # "starting" => refresh = "off"
    /\ phase # "up" => adding = Nobody /\ \A t \in Thread : step[t] = "idle"
    /\ adding # Nobody => Cached(adding.name) = {}

Unique == \A i, j \in cache : i.name = j.name => i = j

(* A provisioned consumer's file holds it, no other file names it, and     *)
(* refresh has it in the cache once it has read that file.                 *)
Provisions ==
    \A i \in provisioned :
        /\ disk[i.name] = ToJson(i)
        /\ \A f \in FileName : IsAbout(disk[f], i.name) => f = i.name
        /\ refresh = "listed" => i.name \in todo
        /\ refresh = "loading" => /\ Cached(i.name) \subseteq {i}
                                  /\ i.name \in todo \/ i \in cache
        /\ phase = "up" => Cached(i.name) = {i}

Own(t) == Cached(NameHash[typed[t][1]])

Matching(t) == {i \in Own(t) : i.password = PasswordHash[typed[t][2]]}

(* The iterator of a lookup that is under way.                             *)
Lookup(t) ==
    /\ step[t] \in {"verified", "checking"} => Own(t) # {}
    /\ step[t] \in {"checking", "taking"} => found[t] = Own(t)

(* What AnswersFromOwnRecord says of one logon.                            *)
Answer(t) ==
    /\ step[t] \in {"matched", "taking", "granted"} => Matching(t) = Own(t) /\ Own(t) # {}
    /\ step[t] = "granted" =>
          \E i \in Matching(t) : i.storages # << >> /\ dirs[t] = Directories(i.storages)
    /\ step[t] = "InvalidPassword" => Own(t) # {} /\ Matching(t) = {}
    /\ step[t] = "ConsumerHasNoAssociatedMailStorage" =>
          \E i \in Matching(t) : i.storages = << >>

Logons == \A t \in Thread : Lookup(t) /\ Answer(t)

IInv == TypeOK /\ Stage /\ Unique /\ Provisions /\ Logons

LEMMA InitIInv == Init => IInv
<1> SUFFICES ASSUME Init PROVE IInv
  OBVIOUS
<1>1. TypeOK
  BY DEF Init, TypeOK, Documents, Steps
<1>2. Stage /\ Unique /\ Provisions /\ Logons
  BY DEF Init, Stage, Unique, Provisions, Logons, Lookup, Answer
<1> QED BY <1>1, <1>2 DEF IInv

-----------------------------------------------------------------------------
(* Logons: what their lookups return.                                      *)

(* An iterator that was just obtained points to the typed name's element.  *)
LEMMA ResultsAreOwn ==
    ASSUME IInv, NEW t \in Thread, step[t] \in {"checking", "taking"}
    PROVE  /\ Results(t) = {Own(t)}
           /\ \A i, j \in Own(t) : i = j
<1>1. found[t] = Own(t) /\ Own(t) \subseteq cache
  BY DEF IInv, Logons, Lookup, Own, Cached
<1>2. \A i, j \in Own(t) : i = j
  BY DEF IInv, Unique, Own, Cached
<1> QED
  BY <1>1, <1>2 DEF Results

(* A logon that has come to the storages has found a record.               *)
LEMMA OwnRecord ==
    ASSUME IInv, NEW t \in Thread, step[t] \notin {"idle", "NoSuchConsumer"}
    PROVE  Own(t) # {}
<1>1. step[t] \in {"verified", "checking", "matched", "taking", "granted",
                   "InvalidPassword", "ConsumerHasNoAssociatedMailStorage"}
  BY DEF IInv, TypeOK, Steps, Refusals
<1> QED
  BY <1>1 DEF IInv, Logons, Lookup, Answer, Matching

LEMMA TypeNext == IInv /\ [Next]_vars => TypeOK'
<1> SUFFICES ASSUME IInv, [Next]_vars PROVE TypeOK'
  OBVIOUS
<1> USE DEF TypeOK
<1>0. TypeOK
  BY DEF IInv
<1>1. CASE Start
  BY <1>0, <1>1 DEF Start, logons
<1>2. ASSUME Down PROVE TypeOK'
  BY <1>0, <1>2 DEF Down, NoLogons, Steps
<1>3. CASE Crash
  BY <1>2, <1>3 DEF Crash
<1>4. ASSUME NEW f \in FileName, NEW d \in Document, Edit(f, d) PROVE TypeOK'
  BY <1>0, <1>4 DEF Edit, Documents, logons
<1>5. CASE RefreshLists \/ RefreshClears \/ RefreshEnds
  BY <1>0, <1>5 DEF RefreshLists, RefreshClears, RefreshEnds, logons
<1>6. CASE RefreshLoads
  <2>1. PICK f \in todo :
           \/ Throws(disk[f]) /\ Down
           \/ /\ todo' = todo \ {f}
              /\ cache' = cache \cup {i \in Loaded(disk[f]) : Cached(i.name) = {}}
              /\ UNCHANGED <<disk, phase, refresh, adding, logons, provisioned>>
    BY <1>6 DEF RefreshLoads
  <2>2. Loaded(disk[f]) \subseteq Infos
    BY <1>0, LoadsInfos
  <2> QED BY <1>0, <1>2, <2>1, <2>2 DEF logons
<1>7. ASSUME NEW i \in Consumer, AddOpens(i) PROVE TypeOK'
  BY <1>0, <1>7 DEF AddOpens, Documents, logons
<1>8. CASE AddEnds
  BY <1>0, <1>8 DEF AddEnds, Documents, Infos, logons
<1>9. ASSUME NEW t \in Thread,
             \/ \E n \in Name, p \in Password : VerifyName(t, n, p)
             \/ Find(t) \/ CheckPassword(t) \/ Answered(t)
      PROVE  TypeOK'
  <2>1. Cached(NameHash[typed[t][1]]) \subseteq Infos
    BY <1>0 DEF Cached
  <2>2. CASE \E n \in Name, p \in Password : VerifyName(t, n, p)
    BY <1>0, <2>2 DEF VerifyName, Reply, Steps, Refusals, registry
  <2>3. CASE Find(t)
    BY <1>0, <2>1, <2>3 DEF Find, Reply, Steps, registry
  <2>4. CASE CheckPassword(t)
    BY <1>0, <2>4 DEF CheckPassword, Reply, Steps, Refusals, registry
  <2>5. CASE Answered(t)
    BY <1>0, <2>5 DEF Answered, Reply, Steps, registry
  <2> QED
    BY <1>9, <2>2, <2>3, <2>4, <2>5
<1>10. ASSUME NEW t \in Thread, TakeStorages(t) PROVE TypeOK'
  <2>1. Own(t) # {} /\ Results(t) = {Own(t)} /\ Own(t) \subseteq Infos
    BY <1>0, <1>10, ResultsAreOwn, OwnRecord DEF TakeStorages, Own, Cached
  <2>2. PICK i \in Infos : dirs' = [dirs EXCEPT ![t] = Directories(i.storages)]
    BY <1>10, <2>1 DEF TakeStorages
  <2>3. dirs' \in [Thread -> AllDirectories \cup {<< >>}]
    BY <1>0, <2>2 DEF AllDirectories
  <2>4. step' \in [Thread -> Steps]
    BY <1>0, <1>10 DEF TakeStorages, Reply, Steps, Refusals
  <2> QED
    BY <1>0, <1>10, <2>3, <2>4 DEF TakeStorages, registry
<1>11. CASE UNCHANGED vars
  BY <1>0, <1>11 DEF vars, registry, logons
<1> QED
  BY <1>1, <1>3, <1>4, <1>5, <1>6, <1>7, <1>8, <1>9, <1>10, <1>11 DEF Next

LEMMA StageNext == IInv /\ [Next]_vars => Stage' /\ Unique'
<1> SUFFICES ASSUME IInv, [Next]_vars PROVE Stage' /\ Unique'
  OBVIOUS
<1>0. TypeOK /\ Stage /\ Unique
  BY DEF IInv
<1> USE DEF Stage, Unique, Cached
<1>1. CASE Start
  BY <1>0, <1>1 DEF Start, logons
<1>2. ASSUME Down PROVE Stage' /\ Unique'
  BY <1>2 DEF Down, NoLogons
<1>3. CASE Crash
  BY <1>2, <1>3 DEF Crash
<1>4. ASSUME NEW f \in FileName, NEW d \in Document, Edit(f, d) PROVE Stage' /\ Unique'
  BY <1>0, <1>4 DEF Edit, logons
<1>5. CASE RefreshLists \/ RefreshClears \/ RefreshEnds
  BY <1>0, <1>5 DEF RefreshLists, MayRefresh, RefreshClears, RefreshEnds, logons
<1>6. CASE RefreshLoads
  <2>1. PICK f \in todo :
           \/ Throws(disk[f]) /\ Down
           \/ /\ todo' = todo \ {f}
              /\ cache' = cache \cup {i \in Loaded(disk[f]) : Cached(i.name) = {}}
              /\ UNCHANGED <<disk, phase, refresh, adding, logons, provisioned>>
    BY <1>6 DEF RefreshLoads
  <2>2. \A i, j \in Loaded(disk[f]) : i = j
    BY LoadsItsConsumer
  <2>3. phase = "starting" /\ adding = Nobody
    BY <1>0, <1>6 DEF RefreshLoads
  <2> QED BY <1>0, <1>2, <2>1, <2>2, <2>3 DEF logons
<1>7. ASSUME NEW i \in Consumer, AddOpens(i) PROVE Stage' /\ Unique'
  BY <1>0, <1>7 DEF AddOpens, logons
<1>8. CASE AddEnds
  BY <1>0, <1>8 DEF AddEnds, logons
<1>9. ASSUME NEW t \in Thread,
             \/ \E n \in Name, p \in Password : VerifyName(t, n, p)
             \/ Find(t) \/ CheckPassword(t) \/ TakeStorages(t) \/ Answered(t)
      PROVE  Stage' /\ Unique'
  <2>1. UNCHANGED registry /\ phase = "up"
    BY <1>0, <1>9 DEF VerifyName, Find, CheckPassword, TakeStorages, Answered, Refusals
  <2> QED
    BY <1>0, <2>1 DEF registry
<1>11. CASE UNCHANGED vars
  BY <1>0, <1>11 DEF vars, registry, logons
<1> QED
  BY <1>1, <1>3, <1>4, <1>5, <1>6, <1>7, <1>8, <1>9, <1>11 DEF Next

(* What a refresh, an addition or an edit leaves of the provisions.        *)
LEMMA ProvisionsNext == IInv /\ [Next]_vars => Provisions'
<1> SUFFICES ASSUME IInv, [Next]_vars PROVE Provisions'
  OBVIOUS
<1>0. /\ TypeOK /\ Stage /\ Unique /\ Provisions
      /\ provisioned \subseteq Consumer
      /\ \A i \in Consumer : i.name \in FileName
  BY RegistryAssumption DEF IInv, TypeOK
<1> USE DEF Provisions, Cached
<1>1. CASE Start
  BY <1>0, <1>1 DEF Start, Stage, logons
<1>2. ASSUME Down PROVE Provisions'
  BY <1>0, <1>2 DEF Down
<1>3. CASE Crash
  BY <1>2, <1>3 DEF Crash
<1>4. ASSUME NEW f \in FileName, NEW d \in Document, Edit(f, d) PROVE Provisions'
  <2>1. \A g \in FileName : disk'[g] = IF g = f THEN d ELSE disk[g]
    BY <1>0, <1>4 DEF Edit, TypeOK
  <2>2. \A i \in provisioned' : i \in provisioned /\ i.name # f /\ ~IsAbout(d, i.name)
    BY <1>4 DEF Edit
  <2> QED BY <1>0, <1>4, <2>1, <2>2 DEF Edit, logons
<1>5. CASE RefreshLists
  <2>1. \A i \in provisioned : disk[i.name] # Missing
    BY <1>0, ConsumerRoundTrip DEF Loadable
  <2>2. \A i \in provisioned : i.name \in todo'
    BY <1>0, <1>5, <2>1 DEF RefreshLists
  <2> QED BY <1>0, <1>5, <2>2 DEF RefreshLists, MayRefresh, logons
<1>6. CASE RefreshClears
  BY <1>0, <1>6 DEF RefreshClears, Stage, logons
<1>7. CASE RefreshLoads
  <2>1. PICK f \in todo :
           \/ Throws(disk[f]) /\ Down
           \/ /\ todo' = todo \ {f}
              /\ cache' = cache \cup {i \in Loaded(disk[f]) : Cached(i.name) = {}}
              /\ UNCHANGED <<disk, phase, refresh, adding, logons, provisioned>>
    BY <1>7 DEF RefreshLoads
  <2>2. refresh = "loading" /\ phase = "starting" /\ f \in FileName
    BY <1>0, <1>7 DEF RefreshLoads, Stage, TypeOK
  <2>3. SUFFICES ASSUME todo' = todo \ {f},
                        cache' = cache \cup {i \in Loaded(disk[f]) : Cached(i.name) = {}},
                        UNCHANGED <<disk, phase, refresh, adding, logons, provisioned>>,
                        NEW i \in provisioned
                 PROVE  /\ Cached(i.name)' \subseteq {i}
                        /\ i.name \in todo' \/ i \in cache'
    BY <1>0, <1>2, <2>1, <2>2
  <2>4. CASE f = i.name
    <3>1. Loaded(disk[f]) = {i}
      BY <1>0, <2>4, ConsumerRoundTrip
    <3> QED BY <1>0, <2>2, <2>3, <2>4, <3>1
  <2>5. CASE f # i.name
    <3>1. \A j \in Loaded(disk[f]) : j.name # i.name
      BY <1>0, <2>2, <2>5, LoadsItsConsumer
    <3> QED BY <1>0, <2>2, <2>3, <2>5, <3>1
  <2> QED BY <2>4, <2>5
<1>8. CASE RefreshEnds
  BY <1>0, <1>8 DEF RefreshEnds, logons
<1>9. ASSUME NEW i \in Consumer, AddOpens(i) PROVE Provisions'
  <2>1. \A g \in FileName : disk'[g] = IF g = i.name THEN Malformed ELSE disk[g]
    BY <1>0, <1>9 DEF AddOpens, TypeOK
  <2>2. \A j \in provisioned : j.name # i.name
    BY <1>0, <1>9 DEF AddOpens
  <2>3. \A n : ~IsAbout(Malformed, n)
    BY NothingToLoad
  <2> QED BY <1>0, <1>9, <2>1, <2>2, <2>3 DEF AddOpens, logons
<1>10. CASE AddEnds
  <2>1. /\ adding \in Consumer /\ phase = "up" /\ refresh = "off"
        /\ Cached(adding.name) = {}
        /\ cache' = cache \cup {adding}
        /\ UNCHANGED <<phase, refresh, todo>>
    BY <1>0, <1>10 DEF AddEnds, Stage, TypeOK
  <2>2. \A i \in provisioned : i.name # adding.name /\ Cached(i.name)' = {i}
    BY <1>0, <2>1
  <2>3. CASE UNCHANGED <<disk, provisioned>>
    BY <1>0, <2>1, <2>2, <2>3
  <2>4. CASE /\ disk' = [disk EXCEPT ![adding.name] = ToJson(adding)]
             /\ provisioned' = provisioned \cup
                  {i \in {adding} : \A f \in FileName : ~IsAbout(disk[f], i.name)}
    <3>1. \A g \in FileName :
              disk'[g] = IF g = adding.name THEN ToJson(adding) ELSE disk[g]
      BY <1>0, <2>4 DEF TypeOK
    <3>2. \A n : IsAbout(ToJson(adding), n) <=> n = adding.name
      BY <2>1, ConsumerRoundTrip
    <3>3. SUFFICES ASSUME NEW i \in provisioned'
                   PROVE  /\ disk'[i.name] = ToJson(i)
                          /\ \A f \in FileName : IsAbout(disk'[f], i.name) => f = i.name
                          /\ Cached(i.name)' = {i}
      BY <2>1
    <3>4. CASE i \in provisioned
      BY <1>0, <2>2, <3>1, <3>2, <3>4
    <3>5. CASE i = adding /\ \A f \in FileName : ~IsAbout(disk[f], i.name)
      BY <1>0, <2>1, <3>1, <3>2, <3>5
    <3> QED BY <2>4, <3>3, <3>4, <3>5
  <2> QED BY <1>10, <2>3, <2>4 DEF AddEnds
<1>11. ASSUME NEW t \in Thread,
              \/ \E n \in Name, p \in Password : VerifyName(t, n, p)
              \/ Find(t) \/ CheckPassword(t) \/ TakeStorages(t) \/ Answered(t)
       PROVE  Provisions'
  <2>1. UNCHANGED <<registry, provisioned>>
    BY <1>11 DEF VerifyName, Find, CheckPassword, TakeStorages, Answered
  <2> QED BY <1>0, <2>1 DEF registry
<1>12. CASE UNCHANGED vars
  BY <1>0, <1>12 DEF vars, registry
<1> QED
  BY <1>1, <1>3, <1>4, <1>5, <1>6, <1>7, <1>8, <1>9, <1>10, <1>11, <1>12 DEF Next

-----------------------------------------------------------------------------
(* Logons that are under way, and what they have been answered.            *)

(* Nobody takes an element out of the cache under a logon.                 *)
LEMMA OthersKeepLogons ==
    ASSUME IInv, NEW t \in Thread, Lookup(t), Answer(t),
           step'[t] = step[t], typed'[t] = typed[t], found'[t] = found[t], dirs'[t] = dirs[t],
           step[t] \in {"idle", "NoSuchConsumer"} \/ Own(t)' = Own(t)
    PROVE  Lookup(t)' /\ Answer(t)'
<1>1. CASE step[t] \in {"idle", "NoSuchConsumer"}
  BY <1>1 DEF Lookup, Answer
<1>2. CASE Own(t)' = Own(t)
  <2>1. Matching(t)' = Matching(t)
    BY <1>2 DEF Matching
  <2> QED BY <1>2, <2>1 DEF Lookup, Answer
<1> QED BY <1>1, <1>2

LEMMA LogonsNext == IInv /\ [Next]_vars => Logons'
<1> SUFFICES ASSUME IInv, [Next]_vars, NEW t \in Thread
             PROVE  Lookup(t)' /\ Answer(t)'
  BY DEF Logons
<1>0. TypeOK /\ Stage /\ Unique /\ Lookup(t) /\ Answer(t)
  BY DEF IInv, Logons
<1>1. ASSUME UNCHANGED logons, cache' = cache \/ step[t] = "idle"
      PROVE  Lookup(t)' /\ Answer(t)'
  BY <1>0, <1>1, OthersKeepLogons DEF logons, Own, Cached
<1>2. ASSUME Down PROVE Lookup(t)' /\ Answer(t)'
  BY <1>2 DEF Down, NoLogons, Lookup, Answer
<1>3. CASE Start \/ RefreshLists \/ RefreshEnds
  BY <1>1, <1>3 DEF Start, RefreshLists, RefreshEnds
<1>10. CASE Crash
  BY <1>2, <1>10 DEF Crash
<1>4. ASSUME NEW f \in FileName, NEW d \in Document, Edit(f, d)
      PROVE  Lookup(t)' /\ Answer(t)'
  BY <1>1, <1>4 DEF Edit
<1>5. CASE RefreshClears \/ RefreshLoads
  BY <1>0, <1>1, <1>2, <1>5 DEF RefreshClears, RefreshLoads, Stage
<1>6. ASSUME NEW i \in Consumer, AddOpens(i) PROVE Lookup(t)' /\ Answer(t)'
  BY <1>1, <1>6 DEF AddOpens
<1>7. CASE AddEnds
  <2>1. Cached(adding.name) = {} /\ cache' = cache \cup {adding} /\ UNCHANGED logons
    BY <1>0, <1>7 DEF AddEnds, Stage
  <2>2. step[t] \in {"idle", "NoSuchConsumer"} \/ Own(t)' = Own(t)
    BY <2>1, OwnRecord DEF Own, Cached, logons
  <2> QED BY <1>0, <2>1, <2>2, OthersKeepLogons DEF logons
<1>8. ASSUME NEW u \in Thread,
             \/ \E n \in Name, p \in Password : VerifyName(u, n, p)
             \/ Find(u) \/ CheckPassword(u) \/ TakeStorages(u) \/ Answered(u)
      PROVE  Lookup(t)' /\ Answer(t)'
  <2>1. UNCHANGED registry
    BY <1>8 DEF VerifyName, Find, CheckPassword, TakeStorages, Answered
  <2>2. CASE u # t
    <3>1. /\ step'[t] = step[t] /\ typed'[t] = typed[t]
          /\ found'[t] = found[t] /\ dirs'[t] = dirs[t]
      BY <1>0, <1>8, <2>2
      DEF TypeOK, VerifyName, Find, CheckPassword, TakeStorages, Answered, Reply
    <3> QED BY <1>0, <2>1, <3>1, OthersKeepLogons DEF registry, Own, Cached
  <2>3. ASSUME u = t, NEW n \in Name, NEW p \in Password, VerifyName(t, n, p)
        PROVE  Lookup(t)' /\ Answer(t)'
    <3>1. Own(t)' = Cached(NameHash[n])
      BY <1>0, <2>1, <2>3 DEF VerifyName, TypeOK, Own, Cached, registry
    <3> QED BY <1>0, <2>3, <3>1 DEF VerifyName, TypeOK, Reply, Lookup, Answer
  <2> DEFINE Known == Own(t)' = Own(t) /\ Matching(t)' = Matching(t)
  <2>4. ASSUME typed' = typed PROVE Known
    BY <2>1, <2>4 DEF Own, Matching, Cached, registry
  <2>5. CASE u = t /\ Find(t)
    <3>1. found'[t] = Own(t) /\ Known /\ Own(t) # {}
      BY <1>0, <2>4, <2>5, OwnRecord DEF Find, TypeOK, Own
    <3>2. /\ step[t] = "verified" => step'[t] = "checking"
          /\ step[t] = "matched" => step'[t] = "taking"
          /\ step[t] \in {"verified", "matched"}
      BY <1>0, <2>5 DEF Find, TypeOK, Reply
    <3> QED BY <1>0, <3>1, <3>2 DEF Lookup, Answer
  <2>6. CASE u = t /\ CheckPassword(t)
    <3>1. Results(t) = {Own(t)} /\ Own(t) # {} /\ Known
      BY <1>0, <2>4, <2>6, ResultsAreOwn, OwnRecord DEF CheckPassword
    <3>2. \A i, j \in Own(t) : i = j
      BY <2>6, ResultsAreOwn DEF CheckPassword
    <3>3. step'[t] = IF \E i \in Own(t) : i.password = PasswordHash[typed[t][2]]
                     THEN "matched" ELSE "InvalidPassword"
      BY <1>0, <2>6, <3>1 DEF CheckPassword, TypeOK, Reply
    <3>4. CASE step'[t] = "matched"
      <4>1. Matching(t) = Own(t)
        BY <3>2, <3>3, <3>4 DEF Matching
      <4> QED BY <3>1, <3>4, <4>1 DEF Lookup, Answer
    <3>5. CASE step'[t] = "InvalidPassword"
      <4>1. Matching(t) = {}
        BY <3>3, <3>5 DEF Matching
      <4> QED BY <3>1, <3>5, <4>1 DEF Lookup, Answer
    <3> QED BY <3>3, <3>4, <3>5
  <2>7. CASE u = t /\ TakeStorages(t)
    <3>1. /\ Results(t) = {Own(t)} /\ Own(t) # {} /\ Known
          /\ Matching(t) = Own(t)
      BY <1>0, <2>4, <2>7, ResultsAreOwn, OwnRecord DEF TakeStorages, Answer
    <3> DEFINE i == CHOOSE j \in Own(t) : TRUE
               reply == IF i.storages = << >> THEN "ConsumerHasNoAssociatedMailStorage"
                                              ELSE "granted"
    <3>2. step'[t] = reply /\ dirs'[t] = Directories(i.storages)
      <4>1. /\ step' = [step EXCEPT ![t] = reply]
            /\ dirs' = [dirs EXCEPT ![t] = Directories(i.storages)]
        <5>1. \A settings \in Results(t) : settings = Own(t) /\ settings # {}
          BY <3>1
        <5>2. PICK settings \in Results(t) :
                 LET storages == IF settings = {} THEN << >>
                                 ELSE (CHOOSE j \in settings : TRUE).storages
                 IN  /\ Reply(t, IF storages = << >>
                                 THEN "ConsumerHasNoAssociatedMailStorage" ELSE "granted")
                     /\ dirs' = [dirs EXCEPT ![t] = Directories(storages)]
          BY <2>7 DEF TakeStorages
        <5>3. (IF settings = {} THEN << >> ELSE (CHOOSE j \in settings : TRUE).storages)
                 = i.storages
          BY <5>1
        <5> QED BY <5>2, <5>3, Zenon DEF Reply
      <4> HIDE DEF i, reply
      <4> QED BY <1>0, <4>1 DEF TypeOK
    <3>3. i \in Matching(t)' /\ step'[t] \notin {"verified", "checking", "taking"}
      BY <3>1, <3>2
    <3> HIDE DEF i
    <3>4. CASE i.storages = << >>
      BY <3>2, <3>3, <3>4 DEF Lookup, Answer
    <3>5. CASE i.storages # << >>
      BY <3>1, <3>2, <3>3, <3>5 DEF Lookup, Answer
    <3> QED BY <3>4, <3>5
  <2>8. CASE u = t /\ Answered(t)
    BY <1>0, <2>8 DEF Answered, TypeOK, Reply, Lookup, Answer
  <2> QED BY <1>8, <2>2, <2>3, <2>5, <2>6, <2>7, <2>8
<1>9. CASE UNCHANGED vars
  BY <1>1, <1>9 DEF vars, registry
<1> QED
  BY <1>3, <1>4, <1>5, <1>6, <1>7, <1>8, <1>9, <1>10 DEF Next

-----------------------------------------------------------------------------
(* What the files of the directory are to the process, and what a logon    *)
(* may have seen of the cache, in every reachable state.                   *)
THEOREM Invariance == Spec => []IInv
<1>1. IInv /\ [Next]_vars => IInv'
  BY TypeNext, StageNext, ProvisionsNext, LogonsNext DEF IInv
<1> QED BY InitIInv, <1>1, PTL DEF Spec

(* The variables keep their types: whatever is written, edited, damaged    *)
(* and read back, documents are those of consumers that can be added or of *)
(* the editor, the cache holds consumers that can be added or read from    *)
(* such documents, and a logon is answered with directories of one.        *)
THEOREM TypeCorrect == Spec => []TypeOK
BY Invariance, PTL DEF IInv

(* A consumer that was added can log on from then on, across crashes,      *)
(* restarts and refused additions, unless somebody edits its file.         *)
THEOREM ProvisioningLasts == Spec => []ProvisionedCanLogOn
<1>1. IInv => ProvisionedCanLogOn
  BY DEF IInv, Provisions, ProvisionedCanLogOn
<1> QED BY Invariance, <1>1, PTL

(* The three lookups of a logon answer from the typed name's one record.   *)
THEOREM LogonsAnswerFromOwnRecord == Spec => []AnswersFromOwnRecord
<1>1. IInv => AnswersFromOwnRecord
  BY DEF IInv, Logons, Answer, AnswersFromOwnRecord, Own, Matching
<1> QED BY Invariance, <1>1, PTL


-----------------------------------------------------------------------------
(* The logon as one atomic decision.                                       *)

Pending == {"verified", "checking", "matched", "taking"}

(* A logon that is under way expects what its name's one record says.      *)
LEMMA ExpectsVerdict ==
    ASSUME IInv, NEW t \in Thread, step[t] \in Pending
    PROVE  \E i \in Own(t) : /\ Own(t) = {i}
                             /\ Decided(t) = Logon!Verdict(i, typed[t][2])
<1>1. PICK i : i \in Own(t)
  BY OwnRecord DEF Pending
<1>2. Own(t) = {i}
  BY <1>1 DEF IInv, Unique, Own, Cached
<1>3. (CHOOSE j \in Cached(NameHash[typed[t][1]]) : TRUE) = i
  BY <1>2 DEF Own
<1>4. Expects(t) = Told(i, typed[t][2])
  BY <1>3 DEF Expects
<1>5. Decided(t) = Expects(t)
  BY DEF Decided, Pending, Refusals
<1> QED BY <1>2, <1>4, <1>5 DEF Told, Logon!Verdict

(* What happens to other logons and consumers does not change a decision.  *)
LEMMA DecidedKept ==
    ASSUME NEW t \in Thread,
           step'[t] = step[t], typed'[t] = typed[t], dirs'[t] = dirs[t],
           step[t] \in Refusals \cup {"idle", "granted"} \/ Own(t)' = Own(t)
    PROVE  Decided(t)' = Decided(t)
<1>1. CASE step[t] \in Refusals \cup {"idle", "granted"}
  BY <1>1 DEF Decided
<1>2. CASE Own(t)' = Own(t)
  BY <1>2 DEF Decided, Expects, Own
<1> QED BY <1>1, <1>2

LEMMA DecidedIdle ==
    ASSUME NEW t \in Thread, step[t] = "idle"
    PROVE  Decided(t) = Logon!Undecided
BY DEF Decided, Refusals, Logon!Undecided

(* Every step of the registry is a step of the decision or changes nothing *)
(* of it: Find, CheckPassword and TakeStorages only carry out what         *)
(* VerifyName has decided.                                                 *)
LEMMA StepDecides == IInv /\ IInv' /\ [Next]_vars => [Logon!Next]_(Logon!vars)
<1> SUFFICES ASSUME IInv, IInv', [Next]_vars PROVE [Logon!Next]_(Logon!vars)
  OBVIOUS
<1> DEFINE decision == [t \in Thread |-> Decided(t)]
<1>0. TypeOK /\ Stage /\ Unique /\ Unique'
  BY DEF IInv
<1>1. ASSUME UNCHANGED typed, \A t \in Thread : Decided(t)' = Decided(t)
      PROVE  UNCHANGED <<typed, decision>>
  BY <1>1
<1>2. ASSUME UNCHANGED <<cache, logons>> PROVE UNCHANGED Logon!vars
  <2>1. \A t \in Thread : Decided(t)' = Decided(t)
    BY <1>2, DecidedKept DEF logons, Own, Cached
  <2> QED BY <1>1, <1>2, <2>1 DEF Logon!vars, logons
<1>3. ASSUME cache' = {}, UNCHANGED typed, \A t \in Thread : step'[t] = "idle"
      PROVE  Logon!Next
  <2>1. \A t \in Thread : Decided(t)' = Logon!Undecided
    BY <1>3 DEF Decided, Refusals, Logon!Undecided
  <2> QED BY <1>3, <2>1 DEF Logon!Next, Logon!Forget
<1>4. ASSUME cache \subseteq cache', UNCHANGED logons,
             \A t \in Thread : step[t] \in {"idle", "NoSuchConsumer"} \/ Own(t)' = Own(t)
      PROVE  Logon!Next
  <2>1. \A t \in Thread : Decided(t)' = Decided(t)
    BY <1>4, DecidedKept DEF logons, Refusals
  <2> QED BY <1>0, <1>1, <1>4, <2>1 DEF Logon!Next, Logon!Learn, Unique, logons
<1>5. ASSUME Down PROVE Logon!Next
  BY <1>3, <1>5 DEF Down, NoLogons
<1>6. CASE Start \/ RefreshLists \/ RefreshEnds
           \/ (\E f \in FileName, d \in Document : Edit(f, d))
           \/ \E i \in Consumer : AddOpens(i)
  <2>1. UNCHANGED <<cache, logons>>
    BY <1>6 DEF Start, RefreshLists, RefreshEnds, Edit, AddOpens
  <2> QED BY <1>2, <2>1
<1>7. CASE Crash
  BY <1>5, <1>7 DEF Crash
<1>8. CASE RefreshClears
  BY <1>0, <1>3, <1>8 DEF RefreshClears, Stage, logons
<1>9. CASE RefreshLoads
  <2>1. Down \/ (cache \subseteq cache' /\ UNCHANGED logons)
    BY <1>9 DEF RefreshLoads
  <2>2. \A t \in Thread : step[t] = "idle"
    BY <1>0, <1>9 DEF RefreshLoads, Stage
  <2> QED BY <1>4, <1>5, <2>1, <2>2
<1>10. CASE AddEnds
  <2>1. Cached(adding.name) = {} /\ cache' = cache \cup {adding} /\ UNCHANGED logons
    BY <1>0, <1>10 DEF AddEnds, Stage
  <2>2. \A t \in Thread : step[t] \in {"idle", "NoSuchConsumer"} \/ Own(t)' = Own(t)
    BY <2>1, OwnRecord DEF Own, Cached, logons
  <2> QED BY <1>4, <2>1, <2>2
<1>11. ASSUME NEW t \in Thread,
              \/ \E n \in Name, p \in Password : VerifyName(t, n, p)
              \/ Find(t) \/ CheckPassword(t) \/ TakeStorages(t) \/ Answered(t)
       PROVE  [Logon!Next]_(Logon!vars)
  <2>1. UNCHANGED cache
    BY <1>11 DEF VerifyName, Find, CheckPassword, TakeStorages, Answered, registry
  <2>2. \A u \in Thread \ {t} : Decided(u)' = Decided(u)
    <3>1. \A u \in Thread \ {t} :
             step'[u] = step[u] /\ typed'[u] = typed[u] /\ dirs'[u] = dirs[u]
      BY <1>0, <1>11
      DEF TypeOK, VerifyName, Find, CheckPassword, TakeStorages, Answered, Reply
    <3> QED BY <2>1, <3>1, DecidedKept DEF Own, Cached
  <2>3. ASSUME Decided(t)' = Decided(t), UNCHANGED typed PROVE UNCHANGED Logon!vars
    BY <1>1, <2>1, <2>2, <2>3 DEF Logon!vars
  <2>4. ASSUME NEW n \in Name, NEW p \in Password, VerifyName(t, n, p)
        PROVE  Logon!Next
    <3>1. /\ step[t] = "idle" /\ typed' = [typed EXCEPT ![t] = <<n, p>>]
          /\ typed'[t] = <<n, p>>
          /\ Own(t)' = Cached(NameHash[n])
          /\ step'[t] = IF Cached(NameHash[n]) = {} THEN "NoSuchConsumer" ELSE "verified"
      BY <1>0, <2>1, <2>4 DEF VerifyName, TypeOK, Reply, Own, Cached
    <3>2. decision[t] = Logon!Undecided
      BY <3>1, DecidedIdle
    <3>3. decision' = [decision EXCEPT ![t] = Decided(t)']
      BY <2>2
    <3>4. Logon!Known(n) = Cached(NameHash[n])
      BY DEF Logon!Known, Cached
    <3>5. Decided(t)' \in IF Logon!Known(n) = {}
                          THEN {LogonResult("NoSuchConsumer", << >>)}
                          ELSE {Logon!Verdict(i, p) : i \in Logon!Known(n)}
      <4>1. CASE Cached(NameHash[n]) = {}
        BY <3>1, <3>4, <4>1 DEF Decided, Refusals
      <4>2. CASE Cached(NameHash[n]) # {}
        <5>1. PICK i : i \in Cached(NameHash[n])
          BY <4>2
        <5>2. Cached(NameHash[n])' = {i} /\ i \in Logon!Known(n)
          BY <1>0, <2>1, <3>4, <5>1 DEF Unique, Cached
        <5>3. (CHOOSE j \in Cached(NameHash[typed[t][1]]) : TRUE)' = i
          BY <3>1, <5>2
        <5>4. Decided(t)' = Expects(t)'
          BY <3>1, <4>2 DEF Decided, Refusals
        <5>5. Decided(t)' = Told(i, p)
          <6>1. Expects(t)' = Told(i, typed[t][2])'
            BY <5>3, Zenon DEF Expects
          <6>2. typed'[t][2] = p
            BY <3>1
          <6> QED BY <5>4, <6>1, <6>2, Zenon
        <5>6. Decided(t)' = Logon!Verdict(i, p)
          BY <5>5 DEF Told, Logon!Verdict
        <5> QED BY <3>4, <4>2, <5>2, <5>6
      <4> QED BY <4>1, <4>2
    <3>6. Logon!LogOn(t, n, p)
      BY <2>1, <3>1, <3>2, <3>3, <3>5 DEF Logon!LogOn
    <3> QED BY <3>6 DEF Logon!Next
  <2>5. ASSUME Find(t) PROVE UNCHANGED Logon!vars
    <3>1. /\ step[t] \in Pending /\ step'[t] \in Pending
          /\ UNCHANGED typed /\ Own(t)' = Own(t)
      BY <1>0, <2>1, <2>5 DEF Find, TypeOK, Reply, Pending, Own, Cached
    <3>2. Decided(t) = Expects(t) /\ Decided(t)' = Expects(t)'
      BY <3>1 DEF Decided, Pending, Refusals
    <3> QED BY <2>3, <3>1, <3>2 DEF Expects, Own
  <2>6. ASSUME CheckPassword(t) PROVE UNCHANGED Logon!vars
    <3>1. PICK i \in Own(t) : Own(t) = {i} /\ Decided(t) = Logon!Verdict(i, typed[t][2])
      BY <2>6, ExpectsVerdict DEF CheckPassword, Pending
    <3>2. step'[t] = IF i.password = PasswordHash[typed[t][2]]
                     THEN "matched" ELSE "InvalidPassword"
      BY <1>0, <2>6, <3>1, ResultsAreOwn DEF CheckPassword, TypeOK, Reply
    <3>3. UNCHANGED typed /\ Own(t)' = Own(t)
      BY <2>1, <2>6 DEF CheckPassword, Own, Cached
    <3>4. Decided(t)' = Decided(t)
      <4>1. CASE i.password = PasswordHash[typed[t][2]]
        <5>1. Decided(t) = Expects(t) /\ Decided(t)' = Expects(t)'
          BY <2>6, <3>2, <4>1 DEF CheckPassword, Decided, Refusals
        <5> QED BY <3>3, <5>1 DEF Expects, Own
      <4>2. CASE i.password # PasswordHash[typed[t][2]]
        BY <3>1, <3>2, <4>2 DEF Decided, Refusals, Logon!Verdict
      <4> QED BY <4>1, <4>2
    <3> QED BY <2>3, <3>3, <3>4
  <2>7. ASSUME TakeStorages(t) PROVE UNCHANGED Logon!vars
    <3>1. PICK i \in Own(t) : Own(t) = {i} /\ Decided(t) = Logon!Verdict(i, typed[t][2])
      BY <2>7, ExpectsVerdict DEF TakeStorages, Pending
    <3>2. Decided(t) = Access(i)
      <4>1. i.password = PasswordHash[typed[t][2]]
        BY <2>7, <3>1 DEF TakeStorages, IInv, Logons, Answer, Matching
      <4> QED BY <3>1, <4>1 DEF Logon!Verdict
    <3> DEFINE reply == IF i.storages = << >> THEN "ConsumerHasNoAssociatedMailStorage"
                                              ELSE "granted"
    <3>3. /\ step' = [step EXCEPT ![t] = reply]
          /\ dirs' = [dirs EXCEPT ![t] = Directories(i.storages)]
      <4>1. \A settings \in Results(t) : settings = {i}
        BY <2>7, <3>1, ResultsAreOwn DEF TakeStorages
      <4>2. PICK settings \in Results(t) :
               LET storages == IF settings = {} THEN << >>
                               ELSE (CHOOSE j \in settings : TRUE).storages
               IN  /\ Reply(t, IF storages = << >>
                               THEN "ConsumerHasNoAssociatedMailStorage" ELSE "granted")
                   /\ dirs' = [dirs EXCEPT ![t] = Directories(storages)]
        BY <2>7 DEF TakeStorages
      <4>3. (IF settings = {} THEN << >> ELSE (CHOOSE j \in settings : TRUE).storages)
               = i.storages
        BY <4>1
      <4> QED BY <4>2, <4>3, Zenon DEF Reply
    <3> HIDE DEF reply
    <3>4. step'[t] = reply /\ dirs'[t] = Directories(i.storages)
      BY <1>0, <3>3 DEF TypeOK
    <3>5. Decided(t)' = Access(i)
      BY <3>4 DEF reply, Decided, Refusals, Access
    <3> QED BY <2>3, <2>7, <3>2, <3>5 DEF TakeStorages
  <2>8. ASSUME Answered(t) PROVE Logon!Next
    <3>1. UNCHANGED typed /\ step'[t] = "idle" /\ step[t] \in Refusals \cup {"granted"}
      BY <1>0, <2>8 DEF Answered, TypeOK, Reply
    <3>2. Decided(t)' = Logon!Undecided
      BY <3>1 DEF Decided, Refusals, Logon!Undecided
    <3>3. Decided(t) # Logon!Undecided
      <4>1. Decided(t).reply = step[t] /\ Logon!Undecided.reply = "idle"
        BY <3>1 DEF Decided, LogonResult, Logon!Undecided
      <4> QED BY <3>1, <4>1 DEF Refusals
    <3>4. decision' = [decision EXCEPT ![t] = Logon!Undecided]
      BY <2>2, <3>2
    <3>5. Logon!Deliver(t)
      BY <2>1, <3>1, <3>3, <3>4 DEF Logon!Deliver
    <3> QED BY <3>5 DEF Logon!Next
  <2> QED BY <1>11, <2>4, <2>5, <2>6, <2>7, <2>8
<1>12. CASE UNCHANGED vars
  BY <1>2, <1>12 DEF vars, registry
<1> QED
  BY <1>5, <1>6, <1>7, <1>8, <1>9, <1>10, <1>11, <1>12 DEF Next

(* A logon of three lookups, each under a lock of its own, implements one  *)
(* that is decided at once, when the name is looked up.                    *)
THEOREM LogonIsAtomic == Spec => LogonSpec
<1>1. Init => Logon!Init
  <2> SUFFICES ASSUME Init PROVE Logon!Init
    OBVIOUS
  <2>1. \A t \in Thread : Decided(t) = Logon!Undecided
    BY DecidedIdle DEF Init
  <2> QED BY <2>1 DEF Init, Logon!Init
<1> QED
  BY <1>1, StepDecides, Invariance, PTL DEF Spec, LogonSpec, Logon!Spec

=============================================================================
