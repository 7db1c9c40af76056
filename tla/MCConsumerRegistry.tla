------------------------- MODULE MCConsumerRegistry -------------------------
(* ConsumerRegistry for TLC: the names alice and carol have the same hash, *)
(* so the two share a file; a third file is put there by hand.             *)
EXTENDS ConsumerRegistry, TLC

CONSTANTS alice, bob, carol, right, wrong, h1, h2, byHand, defaultDir, dirA, dirB

MCSymmetry == Permutations(Thread)

MCNameHash == [n \in Name |-> IF n = bob THEN h2 ELSE h1]

MCPasswordHash == [p \in Password |-> p]

MCOption(name, kind, value) == [name |-> name, kind |-> kind, value |-> value]

MCPath(dir) == MCOption("path", "string", dir)

MCStorage(options) == MailStorageInfo("FileSystemMailStorage", options)

MCInfo(name, password, storages) ==
    [name |-> name, password |-> password, storages |-> storages]

(* alice has two storages, one of them with two paths of which the last    *)
(* counts; the other two entries are for a name that may be taken.         *)
MCConsumer ==
    {MCInfo(h1, right, << MCStorage(<< MCPath(dirA), MCPath(dirB) >>), MCStorage(<< >>) >>),
     MCInfo(h1, wrong, << >>),
     MCInfo(h2, right, << MCStorage(<< MCPath(dirB) >>) >>)}

(* A file that stops the start, and one for bob with a storage that cannot *)
(* be instantiated, one of an unknown type and one whose third option does *)
(* not fit.                                                                *)
MCDocument ==
    {Missing,
     [name |-> h1, password |-> right,
      storages |-> << [type |-> "FileSystemMailStorage",
                       members |-> << MCOption("path2", "string", dirA) >>] >>],
     [name |-> h2, password |-> wrong,
      storages |-> <<
          [type |-> "FileSystemMailStorage",
           members |-> << MCOption("path", "number", dirA) >>],
          [type |-> "other", members |-> << MCPath(dirA) >>],
          [type |-> "FileSystemMailStorage",
           members |-> << MCPath(dirA), MCOption("max", "number", dirA),
                          MCOption("path2", "string", dirB) >>] >>]}

=============================================================================
