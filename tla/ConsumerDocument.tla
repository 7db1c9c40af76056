-------------------------- MODULE ConsumerDocument --------------------------
(***************************************************************************)
(* What is known about a consumer, in memory (ConsumerInfo, MailStorage-   *)
(* Info, Option) and in its file (JSON), the conversions between the two,  *)
(* and the directories FileSystemStorageFactory derives from it.           *)
(*                                                                         *)
(* A document keeps of the text what the code looks at: for the consumer   *)
(* name, password and storages, for each storage its "type" member and the *)
(* other members in their order.  Members that are neither string nor      *)
(* number are skipped by the code and left out.  A text without a usable   *)
(* name or password is Malformed.  Builds are release builds: an assert    *)
(* about the input is followed by the same check as an if.                 *)
(***************************************************************************)
EXTENDS Integers, Sequences

CONSTANTS
    MaxOptions,  \* MAX_OPTIONS_COUNT
    OptionName,  \* names of options, "path" among them,
    LongName,    \* and those that do not fit into a compact_string
    OptionValue, \* values of options, directories among them
    DefaultDir,  \* defaultPath / name, used if no path is given
    Malformed,   \* a text Deserialize makes nothing of
    Missing      \* no file

ASSUME DocumentAssumption == MaxOptions \in Nat /\ LongName \subseteq OptionName

(* Option::value is an unsigned int or a string.                           *)
Options == [name : OptionName, kind : {"number", "string"}, value : OptionValue]

StorageTypes == {"Undefined", "FileSystemMailStorage", "other"}

MailStorageInfos ==
    [storageType : StorageTypes,
     options     : {o \in Seq(Options) : /\ Len(o) <= MaxOptions
                                         /\ \A k \in DOMAIN o : o[k].name \notin LongName}]

(* addOption ignores what does not fit into the array.                     *)
FirstOptions(options) ==
    SubSeq(options, 1, IF Len(options) < MaxOptions THEN Len(options) ELSE MaxOptions)

(* Option's constructor copies the name into a compact_string, which       *)
(* throws out_of_range; an option that is ignored is not constructed.      *)
OptionThrows(options) ==
    \E k \in DOMAIN FirstOptions(options) : options[k].name \in LongName

(* addStorage and addOption                                                *)
MailStorageInfo(type, options) ==
    [storageType |-> type, options |-> FirstOptions(options)]

\* Mutant: Serialize loses the last option.
StorageToJsonButLast(info) ==
    [type |-> info.storageType,
     members |-> SubSeq(info.options, 1, Len(info.options) - 1)]

(* MailStorageInfo::Serialize and Deserialize                              *)
StorageToJson(info) == [type |-> info.storageType, members |-> info.options]

StorageFromJson(json) == MailStorageInfo(json.type, json.members)

(* ConsumerInfo::Serialize, and Deserialize of a document that is not      *)
(* Malformed.                                                              *)
ToJson(info) ==
    [name |-> info.name, password |-> info.password,
     storages |-> [k \in DOMAIN info.storages |-> StorageToJson(info.storages[k])]]

FromJson(json) ==
    [name |-> json.name, password |-> json.password,
     storages |-> [k \in DOMAIN json.storages |-> StorageFromJson(json.storages[k])]]

(* DeserializeFromFile: nothing, a consumer, or an exception.              *)
Loadable(doc) == doc \notin {Malformed, Missing}

Throws(doc) ==
    Loadable(doc) /\ \E k \in DOMAIN doc.storages : OptionThrows(doc.storages[k].members)

Loaded(doc) == IF Loadable(doc) /\ ~Throws(doc) THEN {FromJson(doc)} ELSE {}

IsAbout(doc, name) == Loadable(doc) /\ doc.name = name

-----------------------------------------------------------------------------
(* FileSystemStorageFactory::create takes the last "path"; a path that is  *)
(* a number throws, and the storage is left out like one of another type.  *)
PathOptions(storage) ==
    {k \in DOMAIN storage.options : storage.options[k].name = "path"}

Usable(storage) ==
    /\ storage.storageType = "FileSystemMailStorage"
    /\ \A k \in PathOptions(storage) : storage.options[k].kind = "string"

Directory(storage) ==
    IF PathOptions(storage) = {}
    THEN DefaultDir
    ELSE storage.options[CHOOSE k \in PathOptions(storage) :
                            \A j \in PathOptions(storage) : j <= k].value

Directories(storages) ==
    LET usable == SelectSeq(storages, Usable)
    IN  [k \in DOMAIN usable |-> Directory(usable[k])]

=============================================================================
