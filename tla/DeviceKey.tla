------------------------------ MODULE DeviceKey ------------------------------
(***************************************************************************)
(* The device's identity in two stores: the seed of its key in a file and  *)
(* its row in core_devices.  Processes that start over one directory read  *)
(* or create the file, then bind a row to it; they overlap, fail and are   *)
(* killed anywhere, and between starts the file may be lost or restored.   *)
(***************************************************************************)
EXTENDS Naturals, FiniteSets

CONSTANTS Starters,     \* processes, each of which may start again
          Publications, \* "link" on Unix, "exclusive" elsewhere
          MaxSeeds      \* bound on the seeds generated, and on replacements

ASSUME DeviceKeyAssumption == MaxSeeds \in Nat

VARIABLES publication, \* how this build publishes the file
          keyFile,     \* [seed, whole], or NoFile
          deviceRows,  \* core_devices: set of [key, local]
          starters,    \* per process: where it is, its seed, and the replacements
                       \* of the file when it started
          seeds,       \* seeds generated
          replaced,    \* history: how often the file was replaced or removed
          retracted    \* history: a creator removed a file others could read

keyStores == <<keyFile, deviceRows>>
keyHistory == <<publication, seeds, replaced, retracted>>
keyVars == <<keyStores, starters, keyHistory>>

NoFile == [seed |-> 0, whole |-> FALSE]
KeyFile(seed, whole) == [seed |-> seed, whole |-> whole]
NotStarted == [pc |-> "down", seed |-> 0, since |-> 0]

KeyInit ==
    /\ publication \in Publications
    /\ keyFile = NoFile /\ deviceRows = {}
    /\ starters = [p \in Starters |-> NotStarted]
    /\ seeds = 0 /\ replaced = 0 /\ retracted = FALSE

StarterAt(p, pc) == starters[p].pc = pc
StarterTo(p, pc) == starters' = [starters EXCEPT ![p].pc = pc]

StartProcess(p) ==
    /\ StarterAt(p, "down")
    /\ starters' = [starters EXCEPT ![p] = [pc |-> "read", seed |-> 0, since |-> replaced]]
    /\ UNCHANGED <<keyStores, keyHistory>>

\* read_existing_seed: a file that is not whole is read again, for a while.
ReadSeed(p) ==
    /\ StarterAt(p, "read") \/ StarterAt(p, "reread")
    /\ keyFile.whole
    /\ starters' = [starters EXCEPT ![p].pc = "bind", ![p].seed = keyFile.seed]
    /\ UNCHANGED <<keyStores, keyHistory>>

GenerateSeed(p) ==
    /\ StarterAt(p, "read") /\ keyFile = NoFile
    /\ seeds < MaxSeeds /\ seeds' = seeds + 1
    /\ starters' = [starters EXCEPT ![p].pc = "publish", ![p].seed = seeds']
    /\ UNCHANGED <<keyStores, publication, replaced, retracted>>

\* (Renaming the temporary file over the path.)
PublishByRename(p) ==
    /\ StarterAt(p, "publish") /\ publication = "link"
    /\ keyFile' = KeyFile(starters[p].seed, TRUE) /\ StarterTo(p, "bind")
    /\ UNCHANGED <<deviceRows, keyHistory>>

\* write_seed_exclusive on Unix: a temporary file is linked to the path.
PublishLink(p) ==
    /\ StarterAt(p, "publish") /\ publication = "link"
    /\ IF keyFile = NoFile
       THEN keyFile' = KeyFile(starters[p].seed, TRUE) /\ StarterTo(p, "bind")
       ELSE UNCHANGED keyFile /\ StarterTo(p, "reread")
    /\ UNCHANGED <<deviceRows, keyHistory>>

\* Elsewhere the file itself is created, empty, ...
CreateExclusive(p) ==
    /\ StarterAt(p, "publish") /\ publication = "exclusive"
    /\ IF keyFile = NoFile
       THEN keyFile' = KeyFile(starters[p].seed, FALSE) /\ StarterTo(p, "write")
       ELSE UNCHANGED keyFile /\ StarterTo(p, "reread")
    /\ UNCHANGED <<deviceRows, keyHistory>>

\* ... then written, ...
WriteSeed(p) ==
    /\ StarterAt(p, "write") /\ StarterTo(p, "sync")
    /\ keyFile' = KeyFile(starters[p].seed, TRUE)
    /\ UNCHANGED <<deviceRows, keyHistory>>

\* ... and synchronised.  It is removed if either failed.
SyncSeed(p) ==
    /\ StarterAt(p, "sync") /\ StarterTo(p, "bind")
    /\ UNCHANGED <<keyStores, keyHistory>>

WriteSeedFails(p) ==
    /\ StarterAt(p, "write") \/ StarterAt(p, "sync")
    /\ StarterTo(p, "failed")
    /\ keyFile' = NoFile /\ retracted' = (retracted \/ keyFile.whole)
    /\ UNCHANGED <<deviceRows, publication, seeds, replaced>>

RowsOfKey(key) == {r \in deviceRows : r.key = key}
LocalRows == {r \in deviceRows : r.local}

\* load_or_create_device_key_provider after the key: the row of this key becomes
\* the only local one; without such a row the local one is given the new key.
BindDevice(p) ==
    LET seed == starters[p].seed
        kept == IF RowsOfKey(seed) /= {}
                THEN {[r EXCEPT !.local = FALSE] : r \in deviceRows \ RowsOfKey(seed)}
                ELSE deviceRows \ LocalRows
    IN  /\ StarterAt(p, "bind") /\ StarterTo(p, "ready")
        /\ deviceRows' = kept \cup {[key |-> seed, local |-> TRUE]}
        /\ UNCHANGED <<keyFile, keyHistory>>

\* The file stayed incomplete, disappeared after another process created it, or
\* cannot be read or created; or a statement or the commit fails.
StartFails(p) ==
    /\ starters[p].pc \in {"read", "reread", "publish", "bind"}
    /\ StarterTo(p, "failed")
    /\ UNCHANGED <<keyStores, keyHistory>>

\* The process ends, wherever it is.
ProcessEnds(p) ==
    /\ ~StarterAt(p, "down")
    /\ starters' = [starters EXCEPT ![p] = NotStarted]
    /\ UNCHANGED <<keyStores, keyHistory>>

\* A device of that key is registered as a peer: an earlier key of this device,
\* from a database that was copied, or its present one.
RegisterPeerDevice(key) ==
    /\ RowsOfKey(key) = {}
    /\ deviceRows' = deviceRows \cup {[key |-> key, local |-> FALSE]}
    /\ UNCHANGED <<keyFile, starters, keyHistory>>

\* The file is lost, or an older one restored, while no process is starting.
FileReplaced(file) ==
    /\ \A p \in Starters : starters[p].pc \in {"down", "ready", "failed"}
    /\ keyFile /= file /\ keyFile' = file
    /\ replaced < MaxSeeds /\ replaced' = replaced + 1
    /\ UNCHANGED <<deviceRows, starters, publication, seeds, retracted>>

KeyNext ==
    \/ \E p \in Starters :
        \/ StartProcess(p) \/ ReadSeed(p) \/ GenerateSeed(p) \/ PublishLink(p)
        \/ CreateExclusive(p) \/ WriteSeed(p) \/ SyncSeed(p) \/ WriteSeedFails(p)
        \/ BindDevice(p) \/ StartFails(p) \/ ProcessEnds(p)
    \/ \E k \in 1 .. seeds : RegisterPeerDevice(k) \/ FileReplaced(KeyFile(k, TRUE))
    \/ FileReplaced(NoFile)

KeySpec == KeyInit /\ [][KeyNext]_keyVars

----------------------------------------------------------------------------
\* All processes that started over one key file sign with the key that is in it,
\* and the one local row of core_devices bears it, whichever of them created the
\* file and wherever others were killed; a new file never leaves a second local
\* row.  Not so once a creator has removed a file that another could read, which
\* only a build that creates the file in place does.
OneDeviceIdentity ==
    /\ Cardinality(LocalRows) <= 1
    /\ \A r, q \in deviceRows : r.key = q.key => r = q
    /\ publication = "link" => ~retracted
    /\ ~retracted =>
          \A p \in Starters : StarterAt(p, "ready") /\ starters[p].since = replaced =>
             /\ keyFile = KeyFile(starters[p].seed, TRUE)
             /\ {r.key : r \in LocalRows} = {starters[p].seed}
=============================================================================
