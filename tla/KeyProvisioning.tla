-------------------------- MODULE KeyProvisioning --------------------------
(***************************************************************************)
(* How a container gets the libp2p keys of its node (docker/run.sh,        *)
(* cmd/keys/main.go).  Each start restores what the backup has, runs       *)
(* allora-keys and backs up what that wrote, but only when there is no     *)
(* identity file, and then runs the node.  Files are written and copied    *)
(* one by one, the container may be killed between any two steps, it may   *)
(* be started again with or without its volume, and the script goes on     *)
(* after whatever call of the store or of the disk has failed.             *)
(*                                                                         *)
(* External: the object store, the disk, gpg, and the libp2p host, which   *)
(* needs the private key.                                                  *)
(***************************************************************************)
EXTENDS Integers, Sequences, FiniteSets

CONSTANTS
  Keys,       \* the key pairs GenerateKeyPair can return
  Absent,     \* no such file
  Empty,      \* a file truncated and not yet, or never, written
  Stores,     \* what KEY_PATH and KEY_PASSWORD say: "none", "plain", "encrypted"
  MaxStarts,  \* starts of the container
  MaxFailures \* failing calls of the store or the disk

ASSUME ProvisioningAssumption ==
  /\ Absent \notin Keys /\ Empty \notin Keys /\ Absent # Empty
  /\ Stores \subseteq {"none", "plain", "encrypted"}
  /\ MaxStarts \in Nat /\ MaxFailures \in Nat

Files == {"identity", "priv.bin", "priv.txt", "pub.bin", "pubkey.txt"}
Contents == Keys \cup {Absent, Empty}

(* The order in which LoadOrCreateKeys writes the files, and the order in  *)
(* which the shell and the store list them.                                *)
Written == <<"pub.bin", "pubkey.txt", "identity", "priv.bin", "priv.txt">>
ListedAsWritten == Written
Listed == <<"identity", "priv.bin", "priv.txt", "pub.bin", "pubkey.txt">>

VARIABLES
  store,     \* the container's configuration
  volume,    \* the files under /app/keys
  backup,    \* the files in the object store
  pc,
  next,      \* index of the next file of the current loop
  key,       \* the key pair allora-keys has loaded or created
  used,      \* key pairs generated so far
  ranAs,     \* history: the key pairs the node has run with
  lost,      \* history: whether a volume was lost
  failures,  \* history: failed calls of the store or the disk
  starts

progress == <<pc, next, key>>
history == <<used, ranAs, lost, failures, starts>>
vars == <<store, volume, backup, progress, history>>

Init ==
  /\ store \in Stores
  /\ volume = [f \in Files |-> Absent]
  /\ backup = [f \in Files |-> Absent]
  /\ pc = "down" /\ next = 1 /\ key = Absent
  /\ used = {} /\ ranAs = {} /\ lost = FALSE /\ failures = 0
  /\ starts = 0

Succeeds == UNCHANGED failures
Fails == failures < MaxFailures /\ failures' = failures + 1

Goto(where) == pc' = where /\ next' = 1
NextFile == next' = next + 1
Put(dir, f, content) == [dir EXCEPT ![f] = content]

-----------------------------------------------------------------------------
(* The container.  A restart keeps the volume unless that is lost.         *)
Start ==
  /\ pc = "down"
  /\ starts < MaxStarts
  /\ starts' = starts + 1
  /\ Goto(IF store = "none" THEN "check" ELSE "list")
  /\ UNCHANGED <<store, volume, backup, key, used, ranAs, lost, failures>>

Crash ==
  /\ pc # "down"
  /\ Goto("down")
  /\ key' = Absent
  /\ UNCHANGED <<store, volume, backup, history>>

LoseVolume ==
  /\ pc = "down"
  /\ volume' = [f \in Files |-> Absent]
  /\ lost' = TRUE
  /\ UNCHANGED <<store, backup, progress, used, ranAs, failures, starts>>

-----------------------------------------------------------------------------
(* Restoring.  A listing that fails is an empty listing.                   *)
ListBackup ==
  /\ pc = "list"
  /\ \/ Succeeds /\ Goto("restore")
     \/ Fails /\ Goto("check")
  /\ UNCHANGED <<store, volume, backup, key, used, ranAs, lost, starts>>

AtFile(where, order) == pc = where /\ next <= Len(order)

(* What is restored: every file the store has, over whatever the volume    *)
(* has.                                                                    *)
ToRestoreIfMissing(f) == backup[f] # Absent /\ volume[f] = Absent
ToRestore(f) == backup[f] # Absent

(* A file that is not in the listing, or not found again, is passed over,  *)
(* and a plain copy is whole or does not happen.                           *)
RestorePlain ==
  /\ AtFile("restore", Listed)
  /\ LET f == Listed[next] IN
       \/ /\ ~ToRestore(f) /\ Succeeds
          /\ UNCHANGED volume
       \/ /\ ToRestore(f) /\ Fails
          /\ UNCHANGED volume
       \/ /\ ToRestore(f) /\ store = "plain" /\ Succeeds
          /\ volume' = Put(volume, f, backup[f])
  /\ NextFile
  /\ UNCHANGED <<store, backup, pc, key, used, ranAs, lost, starts>>

(* An encrypted file is copied beside the old one, which the shell then    *)
(* truncates, and decrypted into it.  If the copy has failed there is      *)
(* nothing to decrypt, but the file is truncated all the same.             *)
RestoreEncrypted ==
  /\ AtFile("restore", Listed)
  /\ ToRestore(Listed[next]) /\ store = "encrypted"
  /\ volume' = Put(volume, Listed[next], Empty)
  /\ pc' = "decrypt"
  /\ UNCHANGED <<store, backup, next, key, history>>

Decrypt ==
  /\ pc = "decrypt"
  /\ \/ Succeeds /\ volume' = Put(volume, Listed[next], backup[Listed[next]])
     \/ Fails /\ UNCHANGED volume
  /\ pc' = "restore"
  /\ NextFile
  /\ UNCHANGED <<store, backup, key, used, ranAs, lost, starts>>

RestoreDone ==
  /\ pc = "restore" /\ next > Len(Listed)
  /\ Goto("check")
  /\ UNCHANGED <<store, volume, backup, key, history>>

HasIdentityNever == FALSE
HasIdentity == volume["identity"] # Absent

CheckIdentity ==
  /\ pc = "check"
  /\ Goto(IF HasIdentity THEN "node" ELSE "keys")
  /\ UNCHANGED <<store, volume, backup, key, history>>

-----------------------------------------------------------------------------
(* LoadOrCreateKeys.  Its fatal errors end allora-keys and not the script. *)
AfterKeys == IF store = "none" THEN "node" ELSE "backup"

GenerateKeyPair ==
  /\ pc = "keys"
  /\ volume["priv.bin"] = Absent
  /\ \E k \in Keys \ used : key' = k /\ used' = used \cup {k}
  /\ Goto("write")
  /\ UNCHANGED <<store, volume, backup, ranAs, lost, failures, starts>>

LoadKeyPair ==
  /\ pc = "keys"
  /\ volume["priv.bin"] \in Keys
  /\ key' = volume["priv.bin"]
  /\ Goto("write")
  /\ UNCHANGED <<store, volume, backup, history>>

(* UnmarshalPrivateKey makes nothing of an empty file.                     *)
UnmarshalFails ==
  /\ pc = "keys"
  /\ volume["priv.bin"] = Empty
  /\ Goto(AfterKeys)
  /\ UNCHANGED <<store, volume, backup, key, history>>

(* The pair cannot be generated, or the private key not be found or read.  *)
(* An answer of the disk other than "no such file" is taken for a key that *)
(* is there.                                                               *)
LoadFails ==
  /\ pc = "keys"
  /\ Fails
  /\ Goto(AfterKeys)
  /\ UNCHANGED <<store, volume, backup, key, used, ranAs, lost, starts>>

(* os.WriteFile truncates the file or creates it, then writes; each of     *)
(* them may fail.                                                          *)
OpenFile ==
  /\ AtFile("write", Written)
  /\ \/ /\ Succeeds
        /\ volume' = Put(volume, Written[next], Empty)
        /\ pc' = "fill" /\ UNCHANGED next
     \/ /\ Fails
        /\ Goto(AfterKeys) /\ UNCHANGED volume
  /\ UNCHANGED <<store, backup, key, used, ranAs, lost, starts>>

FillFile ==
  /\ pc = "fill"
  /\ \/ /\ Succeeds
        /\ volume' = Put(volume, Written[next], key)
        /\ pc' = "write" /\ NextFile
     \/ /\ Fails
        /\ Goto(AfterKeys) /\ UNCHANGED volume
  /\ UNCHANGED <<store, backup, key, used, ranAs, lost, starts>>

KeysWritten ==
  /\ pc = "write" /\ next > Len(Written)
  /\ Goto(AfterKeys)
  /\ UNCHANGED <<store, volume, backup, key, history>>

-----------------------------------------------------------------------------
KeptNever(f) == FALSE
Kept(f) == backup[f] # Absent

(* backup_key, for the files there are.  A file the store has is kept, but *)
(* a failed question looks like a file it does not have.                   *)
BackupKey ==
  /\ AtFile("backup", Listed)
  /\ LET f == Listed[next] IN
       \/ /\ volume[f] = Absent \/ Kept(f)
          /\ Succeeds /\ UNCHANGED backup
       \/ /\ volume[f] # Absent
          /\ Fails /\ UNCHANGED backup
       \/ /\ volume[f] # Absent
          /\ IF Kept(f) THEN Fails ELSE Succeeds
          /\ backup' = Put(backup, f, volume[f])
  /\ NextFile
  /\ UNCHANGED <<store, volume, pc, key, used, ranAs, lost, starts>>

BackupDone ==
  /\ pc = "backup" /\ next > Len(Listed)
  /\ Goto("node")
  /\ UNCHANGED <<store, volume, backup, key, history>>

HasPrivateKeyFile == volume["priv.bin"] # Absent
HasPrivateKey == volume["priv.bin"] \in Keys

(* allora-node: its host does not start without the private key.           *)
RunNode ==
  /\ pc = "node"
  /\ IF HasPrivateKey
     THEN Goto("running") /\ ranAs' = ranAs \cup {volume["priv.bin"]}
     ELSE Goto("down") /\ UNCHANGED ranAs
  /\ key' = Absent
  /\ UNCHANGED <<store, volume, backup, used, lost, failures, starts>>

Ended == pc = "down" /\ starts = MaxStarts /\ UNCHANGED vars

Next ==
  \/ Start \/ Crash \/ LoseVolume
  \/ ListBackup \/ RestorePlain \/ RestoreEncrypted \/ Decrypt \/ RestoreDone
  \/ CheckIdentity
  \/ GenerateKeyPair \/ LoadKeyPair \/ UnmarshalFails \/ LoadFails
  \/ OpenFile \/ FillFile \/ KeysWritten
  \/ BackupKey \/ BackupDone
  \/ RunNode \/ Ended

Spec == Init /\ [][Next]_vars

-----------------------------------------------------------------------------
TypeOK ==
  /\ store \in Stores
  /\ volume \in [Files -> Contents]
  /\ backup \in [Files -> Contents]
  /\ pc \in {"down", "list", "restore", "decrypt", "check", "keys", "write", "fill",
             "backup", "node", "running"}
  /\ next \in 1..6
  /\ key \in Keys \cup {Absent}
  /\ used \subseteq Keys
  /\ ranAs \subseteq Keys
  /\ lost \in BOOLEAN
  /\ failures \in 0..MaxFailures
  /\ starts \in 0..MaxStarts

Whole(dir) == {f \in Files : dir[f] \in Keys}
OneKey(dir) == \A f, g \in Whole(dir) : dir[f] = dir[g]
Complete(dir) == Whole(dir) = Files
Starting == pc \in {"node", "running"}

(* As long as no call has failed, the backup has no torn file and never    *)
(* mixes two key pairs, and neither do the files a node starts with,       *)
(* however often a start was interrupted between two files, in the backup  *)
(* or in the restore, and however often the volume was lost.               *)
FilesOfOneKey ==
  failures = 0 =>
    /\ OneKey(backup) /\ \A f \in Files : backup[f] # Empty
    /\ Starting => OneKey(volume)

(* A backup that was completed is what every later start runs with, as     *)
(* long as no call fails: losing the volume costs nothing.                 *)
CompleteBackupIsRestored ==
  failures = 0 /\ Complete(backup) /\ Starting => volume = backup

(* On a volume that survives, a node keeps its identity across crashes at  *)
(* any step: allora-keys makes no second key pair for a node that has run, *)
(* and never truncates its key.  Only an interrupted decryption does, and  *)
(* then the backup has it.                                                 *)
KeySurvivesCrashes ==
  failures = 0 /\ ~lost =>
    \A k \in ranAs :
      volume["priv.bin"] = k \/ (store = "encrypted" /\ backup["priv.bin"] = k)

(* As long as no call fails, a node starts under a new identity only when  *)
(* it must: never past a private key that is in the backup, and, on a      *)
(* volume that was never lost, only the first time it runs.                *)
IdentityKept ==
  [][failures' = 0 =>
       \A k \in ranAs' \ ranAs :
         backup["priv.bin"] \in {Absent, k} /\ (lost \/ ranAs = {})]_vars

(* One failing call, anywhere, together with any crashes and lost volumes, *)
(* does not change a complete backup; it takes a second one.               *)
OneFailureKeepsBackup ==
  [][Complete(backup) /\ OneKey(backup) /\ failures' < 2 => backup' = backup]_vars
=============================================================================
