------------------------------ MODULE MCStorage -----------------------------
(***************************************************************************)
(* The local backend and the backend that compresses and encrypts, for     *)
(* TLC.  A behaviour is one of one of them in one setting; the variables   *)
(* of the other keep a fixed value.                                        *)
(***************************************************************************)
EXTENDS Integers, Sequences, FiniteSets, TLC

CONSTANTS
    Process,  \* the processes, or threads, that use the storage
    Key, Pieces, None,
    LocalSettings, ComprEncSettings  \* the settings of the run

VARIABLES
    part,  \* the component that runs
    config, path, file, tmp, thread, crashes, store, past, time, updates,
    proc, written, result

vars == <<part, config, path, file, tmp, thread, crashes, store, past,
         time, updates, proc, written, result>>

(* An object is worked on by one thread at a time, as the locks of the     *)
(* block cache have it, or by anybody, and the machine may crash.          *)
LocalStorage ==
    {[Overlap |-> FALSE, MaxFiles |-> 4, MaxCrashes |-> 0],
     [Overlap |-> TRUE, MaxFiles |-> 3, MaxCrashes |-> 1]}

(* With a passphrase the storage may return other objects or damaged ones, *)
(* also while an object that is being copied is written again.             *)
EncryptedStorage ==
    {[Encrypted |-> TRUE, Overlap |-> FALSE, Faults |-> TRUE, MaxTime |-> 2, MaxMeta |-> 1],
     [Encrypted |-> TRUE, Overlap |-> TRUE, Faults |-> TRUE, MaxTime |-> 2, MaxMeta |-> 0],
     [Encrypted |-> FALSE, Overlap |-> FALSE, Faults |-> FALSE, MaxTime |-> 2, MaxMeta |-> 2]}

Symmetry == Permutations(Process) \cup Permutations(Key)

Local == INSTANCE LocalBackend WITH
    Thread <- Process, Settings <- LocalSettings
CE == INSTANCE ComprEnc WITH
    Settings <- ComprEncSettings

ASSUME StorageAssumption ==
    /\ None \notin CE!Nonces /\ None \notin CE!Metas /\ None \notin CE!Objects
    /\ ComprEncSettings \subseteq [Encrypted: BOOLEAN, Overlap: BOOLEAN, Faults: BOOLEAN,
                                   MaxTime: Nat, MaxMeta: Nat]
    /\ Pieces \in Nat

\* The variables that a component does not have.
NoLocal == <<store, past, time, updates, proc, written, result>>
NoCE == <<path, file, tmp, thread, crashes>>

Init ==
    \/ /\ part = "local" /\ Local!Init
       /\ store = None /\ past = None /\ time = None /\ updates = None
       /\ proc = None /\ written = None /\ result = None
    \/ /\ part = "comprenc" /\ CE!Init
       /\ path = None /\ file = None /\ tmp = None /\ thread = None
       /\ crashes = None

LocalNext == part = "local" /\ Local!Next /\ UNCHANGED <<part, config, NoLocal>>
CENext == part = "comprenc" /\ CE!Next /\ UNCHANGED <<part, config, NoCE>>

Next == LocalNext \/ CENext

Spec == Init /\ [][Next]_vars

-----------------------------------------------------------------------------
(* Local: writers and copiers of one key never mix their data, whoever     *)
(* else works on it and wherever the machine crashes (local.py:100, 201).  *)
(* Who reads an object to its end has read all of it, and nobody meets an  *)
(* object without a header, as long as nobody writes it at the same time   *)
(* and the machine has not crashed.                                        *)
FilesWhole ==
    part = "local" => /\ Local!NoMixing
                      /\ ~config.Overlap /\ crashes = 0
                            => Local!ReadsComplete /\ Local!NeverCorrupted

(* What is read without an error was stored under that key, with that      *)
(* metadata, although perhaps not last: the storage cannot make a reader   *)
(* take one object for another (comprenc.py:104-162).  No copy, rename or  *)
(* change of the metadata leaves an object that fails authentication,      *)
(* whenever the process that does it ends, unless the object is written    *)
(* at the same time (comprenc.py:295).  Without a passphrase that needs    *)
(* storage that returns what it was given, and no such writes.             *)
ObjectsAuthentic ==
    part = "comprenc" => /\ config.Encrypted \/ ~(config.Overlap \/ config.Faults)
                               => CE!ReadAuthentic
                         /\ ~config.Overlap => CE!Readable

(* A local copy never gives a name to a part of an object (local.py:201),  *)
(* and a rename that is interrupted leaves the object under one of its     *)
(* names: data is never lost except by being replaced (comprenc.py:295).   *)
NothingVanishes ==
    [][~config.Overlap => /\ part = "local" /\ crashes = 0 => Local!NamesComplete
                          /\ part = "comprenc" => CE!NoneVanishes]_vars
=============================================================================
