----------------------- MODULE KeyProvisioningProofs -----------------------
(* Proofs about KeyProvisioning for any key pairs, configurations, number  *)
(* of starts and number of failing calls.                                  *)
EXTENDS KeyProvisioning, TLAPS

(* A file is being written while there is one to write.                    *)
NextInv == pc \in {"decrypt", "fill"} => next <= 5

(* What holds until a first call fails: the parts of the invariant.        *)

(* No torn file in the backup, one key pair in it and in what the volume   *)
(* shares with it, and no backup where none is configured.                 *)
BackupInv ==
  /\ \A f \in Files : backup[f] # Empty
  /\ \A f, g \in Files : backup[f] \in Keys /\ backup[g] \in Keys => backup[f] = backup[g]
  /\ \A f, g \in Files : backup[f] \in Keys /\ volume[g] \in Keys => backup[f] = volume[g]
  /\ store = "none" => \A f \in Files : backup[f] = Absent
  /\ pc \in {"list", "restore", "decrypt", "backup"} => store # "none"

(* The identity comes before the private key, in the volume and in the     *)
(* backup, and with it the volume is of one key pair.                      *)
IdentityFirst ==
  /\ \A f \in Files : backup[f] # Absent => backup["identity"] # Absent
  /\ volume["identity"] = Absent => volume["priv.bin"] = Absent /\ volume["priv.txt"] = Absent
  /\ volume["identity"] # Absent => OneKey(volume)

RestoredUpTo(i) ==
  \A j \in 1..5 : j < i /\ backup[Listed[j]] # Absent =>
                    volume[Listed[j]] = backup[Listed[j]]
Restored == \A f \in Files : backup[f] # Absent => volume[f] = backup[f]

RestoreInv ==
  /\ pc \in {"restore", "decrypt"} => RestoredUpTo(next)
  /\ pc = "decrypt" =>
       backup[Listed[next]] # Absent /\ store = "encrypted"
  /\ pc \in {"check", "keys", "write", "fill", "backup", "node", "running"} => Restored

(* allora-keys runs only while the backup is empty.                        *)
KeysInv ==
  /\ pc \in {"keys", "write", "fill"} => \A f \in Files : backup[f] = Absent
  /\ pc = "keys" => volume["identity"] = Absent
  /\ pc \in {"write", "fill"} =>
       /\ key \in Keys
       /\ \A j \in 1..5 :
            /\ j < next => volume[Written[j]] = key
            /\ j > next /\ j > 2 => volume[Written[j]] = Absent
  /\ pc = "write" => next > 5 \/ next <= 2 \/ volume[Written[next]] = Absent
  /\ pc = "fill" => volume[Written[next]] = Empty

UploadInv ==
  /\ pc = "backup" =>
       /\ \A f \in Files : volume[f] \in Keys
       /\ \A j \in 1..5 : backup[Listed[j]] = Absent <=> j >= next
  /\ pc \in {"node", "running"} => volume["identity"] # Absent

RanInv ==
  ~lost => /\ ranAs # {} => volume["identity"] # Absent
           /\ KeySurvivesCrashes

IInv ==
  /\ TypeOK
  /\ NextInv
  /\ failures = 0 =>
       BackupInv /\ IdentityFirst /\ RestoreInv /\ KeysInv /\ UploadInv /\ RanInv

-----------------------------------------------------------------------------
LEMMA Orders ==
  /\ Len(Listed) = 5 /\ Len(Written) = 5
  /\ Listed[1] = "identity" /\ Listed[2] = "priv.bin" /\ Listed[3] = "priv.txt"
  /\ Listed[4] = "pub.bin" /\ Listed[5] = "pubkey.txt"
  /\ Written[1] = "pub.bin" /\ Written[2] = "pubkey.txt" /\ Written[3] = "identity"
  /\ Written[4] = "priv.bin" /\ Written[5] = "priv.txt"
  BY DEF Listed, Written

(* Each loop visits every file, once.                                      *)
LEMMA Visits ==
  /\ \A i \in 1..5 : Listed[i] \in Files /\ Written[i] \in Files
  /\ \A f \in Files : (\E i \in 1..5 : f = Listed[i]) /\ (\E i \in 1..5 : f = Written[i])
  /\ \A i, j \in 1..5 : (Listed[i] = Listed[j] \/ Written[i] = Written[j]) => i = j
<1>1. \A i \in 1..5 : i = 1 \/ i = 2 \/ i = 3 \/ i = 4 \/ i = 5
  OBVIOUS
<1> QED BY <1>1, Orders DEF Files

LEMMA InitIInv == Init => IInv
<1> SUFFICES ASSUME Init PROVE IInv
  OBVIOUS
<1>1. TypeOK
  <2>1. volume \in [Files -> Contents] /\ backup \in [Files -> Contents]
    BY DEF Init, Contents
  <2>2. next \in 1..6 /\ failures \in 0..MaxFailures /\ starts \in 0..MaxStarts
    BY ProvisioningAssumption DEF Init
  <2> QED BY <2>1, <2>2 DEF Init, TypeOK
<1>2. \A f \in Files : volume[f] = Absent /\ backup[f] = Absent
  BY DEF Init
<1>3. "identity" \in Files /\ "priv.bin" \in Files /\ "priv.txt" \in Files
  BY DEF Files
<1>4. BackupInv /\ IdentityFirst
  BY <1>2, <1>3, ProvisioningAssumption DEF Init, BackupInv, IdentityFirst
<1>5. NextInv /\ RestoreInv /\ KeysInv /\ UploadInv /\ RanInv
  BY DEF Init, NextInv, RestoreInv, KeysInv, UploadInv, RanInv, KeySurvivesCrashes
<1> QED BY <1>1, <1>4, <1>5 DEF IInv

(* A step with a failing call needs no more than types.                    *)
LEMMA NextTypeOK == TypeOK /\ NextInv /\ [Next]_vars => TypeOK' /\ NextInv'
<1> SUFFICES ASSUME TypeOK, NextInv, [Next]_vars PROVE TypeOK' /\ NextInv'
  OBVIOUS
<1> USE ProvisioningAssumption, Orders, Visits
    DEF TypeOK, NextInv, Goto, NextFile, Put, Succeeds, Fails, progress, history, AtFile
<1>1. CASE Start
  <2>1. pc' \in {"check", "list"} /\ next' = 1 /\ starts' \in 0..MaxStarts
    BY <1>1 DEF Start
  <2> QED BY <1>1, <2>1 DEF Start
<1>11. CASE Crash
  BY <1>11 DEF Crash
<1>12. CASE LoseVolume
  BY <1>12 DEF LoseVolume, Contents
<1>2. CASE ListBackup \/ RestoreDone \/ CheckIdentity
  <2>1. pc' \in {"restore", "check", "node", "keys"} /\ next' = 1
    BY <1>2 DEF ListBackup, RestoreDone, CheckIdentity
  <2>2. failures' \in 0..MaxFailures
    BY <1>2 DEF ListBackup, RestoreDone, CheckIdentity
  <2> QED BY <1>2, <2>1, <2>2 DEF ListBackup, RestoreDone, CheckIdentity
<1>3. CASE RestorePlain
  BY <1>3 DEF RestorePlain, Contents
<1>4. CASE RestoreEncrypted
  BY <1>4 DEF RestoreEncrypted, Contents
<1>5. CASE Decrypt
  BY <1>5 DEF Decrypt, Contents
<1>6. CASE GenerateKeyPair \/ LoadKeyPair \/ UnmarshalFails \/ KeysWritten
  BY <1>6 DEF GenerateKeyPair, LoadKeyPair, UnmarshalFails, KeysWritten, AfterKeys, Contents
<1>7. CASE OpenFile \/ FillFile \/ LoadFails
  BY <1>7 DEF OpenFile, FillFile, LoadFails, AfterKeys, Contents
<1>8. CASE BackupKey \/ BackupDone
  BY <1>8 DEF BackupKey, BackupDone, Contents
<1>9. CASE RunNode
  BY <1>9 DEF RunNode, HasPrivateKey, Contents
<1>10. CASE UNCHANGED vars
  BY <1>10 DEF vars
<1> QED BY <1>1, <1>11, <1>12, <1>2, <1>3, <1>4, <1>5, <1>6, <1>7, <1>8, <1>9, <1>10 DEF Next, Ended

-----------------------------------------------------------------------------
(* Safe: the part of the invariant that holds until a call fails.          *)
Safe == BackupInv /\ IdentityFirst /\ RestoreInv /\ KeysInv /\ UploadInv /\ RanInv

(* Restoring a file leaves the volume with the backup's key only.          *)
LEMMA RestoreOneKey ==
  ASSUME TypeOK, NextInv, Safe, pc \in {"restore", "decrypt"}, next <= 5,
         backup[Listed[next]] # Absent,
         NEW content \in {backup[Listed[next]], Empty},
         volume' = Put(volume, Listed[next], content),
         UNCHANGED backup
  PROVE  IdentityFirst'
<1> USE DEF TypeOK, Safe
<1>1. next \in 1..5 /\ Listed[next] \in Files
  BY Visits
<1>2. backup["identity"] \in Keys
  BY <1>1 DEF IdentityFirst, BackupInv, Files, Contents
<1>3. content # Absent /\ (content \in Keys => content = backup["identity"])
  BY <1>1, <1>2, ProvisioningAssumption DEF BackupInv, Files
<1>4. \A g \in Files : volume'[g] \in Keys => volume'[g] = backup["identity"]
  BY <1>1, <1>2, <1>3 DEF BackupInv, Put, Files
<1>5. OneKey(volume)'
  BY <1>4 DEF OneKey, Whole
<1>6. volume'["identity"] # Absent
  <2>1. CASE next = 1
    BY <2>1, <1>1, <1>3, Orders DEF Put
  <2>2. CASE next # 1
    <3>1. 1 \in 1..5 /\ 1 < next /\ backup[Listed[1]] # Absent
      BY <2>2, <1>1, <1>2, Orders, ProvisioningAssumption
    <3>2. volume["identity"] = backup["identity"]
      BY <3>1, Orders DEF RestoreInv, RestoredUpTo
    <3> QED BY <1>1, <1>2, <1>3, <3>2, ProvisioningAssumption DEF Put, Files
  <2> QED BY <2>1, <2>2
<1> QED BY <1>2, <1>5, <1>6, ProvisioningAssumption DEF IdentityFirst

LEMMA NextSafe == IInv /\ Next /\ failures' = 0 => Safe'
<1> SUFFICES ASSUME IInv, Next, failures' = 0 PROVE Safe'
  OBVIOUS
<1>a. failures = 0
  BY Z3 DEF IInv, TypeOK, Next, Start, Crash, LoseVolume, ListBackup, RestorePlain,
     RestoreEncrypted, Decrypt, RestoreDone, CheckIdentity, GenerateKeyPair,
          LoadKeyPair,
     UnmarshalFails, LoadFails, OpenFile, FillFile, KeysWritten, BackupKey, BackupDone,
          RunNode, Ended,
     Succeeds, Fails, progress, history, vars
<1>b. TypeOK /\ NextInv /\ Safe
  BY <1>a DEF IInv, Safe
<1> USE <1>a, <1>b, Orders, Visits, ProvisioningAssumption
    DEF TypeOK, NextInv, Safe, Goto, NextFile, Put, Succeeds, Fails, progress, history
<1>1. CASE Start
  <2>1. BackupInv'
    BY <1>1 DEF Start, BackupInv
  <2>2. IdentityFirst'
    BY <1>1 DEF Start, IdentityFirst, OneKey, Whole
  <2>3. RestoreInv'
    BY <1>1 DEF Start, RestoreInv, Restored, RestoredUpTo, BackupInv
  <2>4. KeysInv'
    BY <1>1 DEF Start, KeysInv
  <2>5. UploadInv'
    BY <1>1 DEF Start, UploadInv
  <2>6. RanInv'
    BY <1>1 DEF Start, RanInv, KeySurvivesCrashes
  <2> QED BY <2>1, <2>2, <2>3, <2>4, <2>5, <2>6
<1>2. CASE Crash
  <2>1. BackupInv'
    BY <1>2 DEF Crash, BackupInv
  <2>2. IdentityFirst'
    BY <1>2 DEF Crash, IdentityFirst, OneKey, Whole
  <2>3. RestoreInv'
    BY <1>2 DEF Crash, RestoreInv, Restored, RestoredUpTo
  <2>4. KeysInv'
    BY <1>2 DEF Crash, KeysInv
  <2>5. UploadInv'
    BY <1>2 DEF Crash, UploadInv
  <2>6. RanInv'
    BY <1>2 DEF Crash, RanInv, KeySurvivesCrashes
  <2> QED BY <2>1, <2>2, <2>3, <2>4, <2>5, <2>6
<1>3. CASE LoseVolume
  <2>1. BackupInv'
    BY <1>3 DEF LoseVolume, BackupInv, Files
  <2>2. IdentityFirst'
    BY <1>3 DEF LoseVolume, IdentityFirst, OneKey, Whole, Files
  <2>3. RestoreInv'
    BY <1>3 DEF LoseVolume, RestoreInv, Restored, RestoredUpTo, Files
  <2>4. KeysInv'
    BY <1>3 DEF LoseVolume, KeysInv, Files
  <2>5. UploadInv'
    BY <1>3 DEF LoseVolume, UploadInv, Files
  <2>6. RanInv'
    BY <1>3 DEF LoseVolume, RanInv, KeySurvivesCrashes, Files
  <2> QED BY <2>1, <2>2, <2>3, <2>4, <2>5, <2>6
<1>4. CASE ListBackup
  <2>1. BackupInv'
    BY <1>4 DEF ListBackup, BackupInv
  <2>2. IdentityFirst'
    BY <1>4 DEF ListBackup, IdentityFirst, OneKey, Whole
  <2>3. RestoreInv'
    BY <1>4 DEF ListBackup, RestoreInv, Restored, RestoredUpTo
  <2>4. KeysInv'
    BY <1>4 DEF ListBackup, KeysInv
  <2>5. UploadInv'
    BY <1>4 DEF ListBackup, UploadInv
  <2>6. RanInv'
    BY <1>4 DEF ListBackup, RanInv, KeySurvivesCrashes
  <2> QED BY <2>1, <2>2, <2>3, <2>4, <2>5, <2>6
<1>5. CASE RestorePlain
  <2>1. BackupInv'
    BY <1>5 DEF RestorePlain, BackupInv, AtFile, Files
  <2>2. IdentityFirst'
    <3>1. CASE volume' = volume
      BY <1>5, <3>1 DEF RestorePlain, BackupInv, IdentityFirst, OneKey, Whole
    <3>2. CASE volume' = Put(volume, Listed[next], backup[Listed[next]]) /\
         ToRestore(Listed[next])
      BY <1>5, <3>2, RestoreOneKey DEF RestorePlain, ToRestore, AtFile
    <3> QED BY <1>5, <3>1, <3>2 DEF RestorePlain
  <2>3. RestoreInv'
    BY <1>5 DEF RestorePlain, RestoreInv, Restored, RestoredUpTo, AtFile, Files,
         ToRestore
  <2>4. KeysInv'
    BY <1>5 DEF RestorePlain, KeysInv, AtFile, Files
  <2>5. UploadInv'
    BY <1>5 DEF RestorePlain, UploadInv, AtFile, Files
  <2>6. RanInv'
    BY <1>5 DEF RestorePlain, RanInv, KeySurvivesCrashes, AtFile, Files,
         ToRestore, BackupInv, IdentityFirst, RestoreInv, RestoredUpTo, Contents
  <2> QED BY <2>1, <2>2, <2>3, <2>4, <2>5, <2>6
<1>6. CASE RestoreEncrypted
  <2>1. BackupInv'
    BY <1>6 DEF RestoreEncrypted, BackupInv, AtFile, Files
  <2>2. IdentityFirst'
    BY <1>6, RestoreOneKey DEF RestoreEncrypted, ToRestore, AtFile
  <2>3. RestoreInv'
    BY <1>6 DEF RestoreEncrypted, RestoreInv, Restored, RestoredUpTo, AtFile,
         Files, ToRestore
  <2>4. KeysInv'
    BY <1>6 DEF RestoreEncrypted, KeysInv, AtFile, Files
  <2>5. UploadInv'
    BY <1>6 DEF RestoreEncrypted, UploadInv, AtFile, Files
  <2>6. RanInv'
    BY <1>6 DEF RestoreEncrypted, RanInv, KeySurvivesCrashes, AtFile, Files,
         ToRestore, BackupInv, IdentityFirst, RestoreInv, Contents
  <2> QED BY <2>1, <2>2, <2>3, <2>4, <2>5, <2>6
<1>7. CASE Decrypt
  <2>1. BackupInv'
    BY <1>7 DEF Decrypt, BackupInv, Files
  <2>2. IdentityFirst'
    BY <1>7, RestoreOneKey DEF Decrypt, RestoreInv
  <2>3. RestoreInv'
    BY <1>7 DEF Decrypt, RestoreInv, Restored, RestoredUpTo, Files
  <2>4. KeysInv'
    BY <1>7 DEF Decrypt, KeysInv, Files
  <2>5. UploadInv'
    BY <1>7 DEF Decrypt, UploadInv, Files
  <2>6. RanInv'
    BY <1>7 DEF Decrypt, RanInv, KeySurvivesCrashes, Files, BackupInv,
         IdentityFirst, RestoreInv, Contents
  <2> QED BY <2>1, <2>2, <2>3, <2>4, <2>5, <2>6
<1>8. CASE RestoreDone
  <2>1. BackupInv'
    BY <1>8 DEF RestoreDone, BackupInv
  <2>2. IdentityFirst'
    BY <1>8 DEF RestoreDone, IdentityFirst, OneKey, Whole
  <2>3. RestoreInv'
    BY <1>8 DEF RestoreDone, RestoreInv, Restored, RestoredUpTo
  <2>4. KeysInv'
    BY <1>8 DEF RestoreDone, KeysInv
  <2>5. UploadInv'
    BY <1>8 DEF RestoreDone, UploadInv
  <2>6. RanInv'
    BY <1>8 DEF RestoreDone, RanInv, KeySurvivesCrashes
  <2> QED BY <2>1, <2>2, <2>3, <2>4, <2>5, <2>6
<1>9. CASE CheckIdentity
  <2>1. BackupInv'
    BY <1>9 DEF CheckIdentity, BackupInv
  <2>2. IdentityFirst'
    BY <1>9 DEF CheckIdentity, IdentityFirst, OneKey, Whole
  <2>3. RestoreInv'
    BY <1>9 DEF CheckIdentity, RestoreInv, Restored, RestoredUpTo
  <2>4. KeysInv'
    BY <1>9 DEF CheckIdentity, KeysInv, HasIdentity, IdentityFirst, RestoreInv,
         Restored, Files
  <2>5. UploadInv'
    BY <1>9 DEF CheckIdentity, UploadInv, HasIdentity
  <2>6. RanInv'
    BY <1>9 DEF CheckIdentity, RanInv, KeySurvivesCrashes
  <2> QED BY <2>1, <2>2, <2>3, <2>4, <2>5, <2>6
<1>10. CASE GenerateKeyPair
  <2>1. BackupInv'
    BY <1>10 DEF GenerateKeyPair, BackupInv
  <2>2. IdentityFirst'
    BY <1>10 DEF GenerateKeyPair, IdentityFirst, OneKey, Whole
  <2>3. RestoreInv'
    BY <1>10 DEF GenerateKeyPair, RestoreInv, Restored, RestoredUpTo
  <2>4. KeysInv'
    BY <1>10 DEF GenerateKeyPair, KeysInv, IdentityFirst, Files
  <2>5. UploadInv'
    BY <1>10 DEF GenerateKeyPair, UploadInv
  <2>6. RanInv'
    BY <1>10 DEF GenerateKeyPair, RanInv, KeySurvivesCrashes
  <2> QED BY <2>1, <2>2, <2>3, <2>4, <2>5, <2>6
<1>11. CASE LoadKeyPair
  <2>1. BackupInv'
    BY <1>11 DEF LoadKeyPair, BackupInv
  <2>2. IdentityFirst'
    BY <1>11 DEF LoadKeyPair, IdentityFirst, OneKey, Whole
  <2>3. RestoreInv'
    BY <1>11 DEF LoadKeyPair, RestoreInv, Restored, RestoredUpTo
  <2>4. KeysInv'
    BY <1>11 DEF LoadKeyPair, KeysInv, IdentityFirst
  <2>5. UploadInv'
    BY <1>11 DEF LoadKeyPair, UploadInv
  <2>6. RanInv'
    BY <1>11 DEF LoadKeyPair, RanInv, KeySurvivesCrashes
  <2> QED BY <2>1, <2>2, <2>3, <2>4, <2>5, <2>6
<1>12. CASE UnmarshalFails
  <2>1. BackupInv'
    BY <1>12 DEF UnmarshalFails, BackupInv, KeysInv, IdentityFirst
  <2>2. IdentityFirst'
    BY <1>12 DEF UnmarshalFails, IdentityFirst, OneKey, Whole
  <2>3. RestoreInv'
    BY <1>12 DEF UnmarshalFails, RestoreInv, Restored, RestoredUpTo, KeysInv,
         IdentityFirst
  <2>4. KeysInv'
    BY <1>12 DEF UnmarshalFails, KeysInv, IdentityFirst
  <2>5. UploadInv'
    BY <1>12 DEF UnmarshalFails, UploadInv, KeysInv, IdentityFirst
  <2>6. RanInv'
    BY <1>12 DEF UnmarshalFails, RanInv, KeySurvivesCrashes
  <2> QED BY <2>1, <2>2, <2>3, <2>4, <2>5, <2>6
<1>20. CASE LoadFails
  BY <1>20 DEF LoadFails
<1>13. CASE OpenFile
  <2>1. BackupInv'
    BY <1>13 DEF OpenFile, BackupInv, AtFile, Files
  <2>2. IdentityFirst'
    BY <1>13 DEF OpenFile, IdentityFirst, OneKey, Whole, AtFile, Files, KeysInv
  <2>3. RestoreInv'
    BY <1>13 DEF OpenFile, RestoreInv, Restored, RestoredUpTo, AtFile, Files, KeysInv
  <2>4. KeysInv'
    BY <1>13 DEF OpenFile, KeysInv, AtFile, Files
  <2>5. UploadInv'
    BY <1>13 DEF OpenFile, UploadInv, AtFile, Files
  <2>6. RanInv'
    BY <1>13 DEF OpenFile, RanInv, KeySurvivesCrashes, AtFile, Files, KeysInv,
         IdentityFirst
  <2> QED BY <2>1, <2>2, <2>3, <2>4, <2>5, <2>6
<1>14. CASE FillFile
  <2>1. BackupInv'
    BY <1>14 DEF FillFile, BackupInv, Files, KeysInv
  <2>2. IdentityFirst'
    BY <1>14 DEF FillFile, IdentityFirst, OneKey, Whole, Files, KeysInv
  <2>3. RestoreInv'
    BY <1>14 DEF FillFile, RestoreInv, Restored, RestoredUpTo, Files, KeysInv
  <2>4. KeysInv'
    BY <1>14 DEF FillFile, KeysInv, Files
  <2>5. UploadInv'
    BY <1>14 DEF FillFile, UploadInv, Files
  <2>6. RanInv'
    BY <1>14 DEF FillFile, RanInv, KeySurvivesCrashes, Files, KeysInv, IdentityFirst
  <2> QED BY <2>1, <2>2, <2>3, <2>4, <2>5, <2>6
<1>15. CASE KeysWritten
  <2>1. BackupInv'
    BY <1>15 DEF KeysWritten, BackupInv, AfterKeys
  <2>2. IdentityFirst'
    BY <1>15 DEF KeysWritten, IdentityFirst, OneKey, Whole
  <2>3. RestoreInv'
    BY <1>15 DEF KeysWritten, RestoreInv, Restored, RestoredUpTo, AfterKeys, KeysInv
  <2>4. KeysInv'
    BY <1>15 DEF KeysWritten, KeysInv, AfterKeys
  <2>5. UploadInv'
    BY <1>15 DEF KeysWritten, UploadInv, AfterKeys, KeysInv, Files
  <2>6. RanInv'
    BY <1>15 DEF KeysWritten, RanInv, KeySurvivesCrashes
  <2> QED BY <2>1, <2>2, <2>3, <2>4, <2>5, <2>6
<1>16. CASE BackupKey
  <2>1. BackupInv'
    BY <1>16 DEF BackupKey, BackupInv, AtFile, Files, Kept, UploadInv,
         IdentityFirst, OneKey, Whole
  <2>2. IdentityFirst'
    BY <1>16 DEF BackupKey, IdentityFirst, OneKey, Whole, AtFile, Files, Kept, UploadInv
  <2>3. RestoreInv'
    BY <1>16 DEF BackupKey, RestoreInv, Restored, RestoredUpTo, AtFile, Files
  <2>4. KeysInv'
    BY <1>16 DEF BackupKey, KeysInv, AtFile, Files
  <2>5. UploadInv'
    BY <1>16 DEF BackupKey, UploadInv, AtFile, Files, Kept
  <2>6. RanInv'
    BY <1>16 DEF BackupKey, RanInv, KeySurvivesCrashes, AtFile, Files, Kept, UploadInv
  <2> QED BY <2>1, <2>2, <2>3, <2>4, <2>5, <2>6
<1>17. CASE BackupDone
  <2>1. BackupInv'
    BY <1>17 DEF BackupDone, BackupInv
  <2>2. IdentityFirst'
    BY <1>17 DEF BackupDone, IdentityFirst, OneKey, Whole
  <2>3. RestoreInv'
    BY <1>17 DEF BackupDone, RestoreInv, Restored, RestoredUpTo
  <2>4. KeysInv'
    BY <1>17 DEF BackupDone, KeysInv
  <2>5. UploadInv'
    BY <1>17 DEF BackupDone, UploadInv
  <2>6. RanInv'
    BY <1>17 DEF BackupDone, RanInv, KeySurvivesCrashes
  <2> QED BY <2>1, <2>2, <2>3, <2>4, <2>5, <2>6
<1>18. CASE RunNode
  <2>1. BackupInv'
    BY <1>18 DEF RunNode, BackupInv
  <2>2. IdentityFirst'
    BY <1>18 DEF RunNode, IdentityFirst, OneKey, Whole
  <2>3. RestoreInv'
    BY <1>18 DEF RunNode, RestoreInv, Restored, RestoredUpTo
  <2>4. KeysInv'
    BY <1>18 DEF RunNode, KeysInv
  <2>5. UploadInv'
    BY <1>18 DEF RunNode, UploadInv
  <2>6. RanInv'
    BY <1>18 DEF RunNode, RanInv, KeySurvivesCrashes, HasPrivateKey, UploadInv,
         RestoreInv, Restored, BackupInv, IdentityFirst
  <2> QED BY <2>1, <2>2, <2>3, <2>4, <2>5, <2>6
<1>19. CASE Ended
  BY <1>b, <1>19 DEF Ended, vars, progress, history, Safe, BackupInv, IdentityFirst,
       RestoreInv, KeysInv, UploadInv, RanInv, KeySurvivesCrashes, OneKey, Whole,
       Restored, RestoredUpTo
<1> QED BY <1>1, <1>2, <1>3, <1>4, <1>5, <1>6, <1>7, <1>8, <1>9, <1>10, <1>11, <1>12,
     <1>13, <1>14, <1>15, <1>16, <1>17, <1>18, <1>19, <1>20 DEF Next

-----------------------------------------------------------------------------
LEMMA NextIInv == IInv /\ [Next]_vars => IInv'
<1> SUFFICES ASSUME IInv, [Next]_vars PROVE IInv'
  OBVIOUS
<1>1. TypeOK' /\ NextInv'
  BY NextTypeOK DEF IInv
<1>2. CASE Next
  BY <1>1, <1>2, NextSafe DEF IInv, Safe
<1>3. CASE UNCHANGED vars
  BY <1>3 DEF vars, progress, history, IInv, TypeOK, NextInv, BackupInv, IdentityFirst,
     RestoreInv, KeysInv, UploadInv, RanInv, KeySurvivesCrashes, OneKey, Whole, Restored,
     RestoredUpTo
<1> QED BY <1>2, <1>3

(* The invariant holds in every reachable state.                           *)
THEOREM Invariance == Spec => []IInv
  BY InitIInv, NextIInv, PTL DEF Spec

(* Every file, counter and key keeps its type; a node runs with a key pair *)
(* and never with a torn file.                                             *)
THEOREM TypeCorrect == Spec => []TypeOK
<1>1. IInv => TypeOK
  BY DEF IInv
<1> QED BY <1>1, Invariance, PTL

(* Until a call fails, neither the backup nor the files of a node that     *)
(* starts are ever of two key pairs.                                       *)
THEOREM KeyPairsAreNotMixed == Spec => []FilesOfOneKey
<1>1. IInv => FilesOfOneKey
  BY DEF IInv, BackupInv, IdentityFirst, UploadInv, FilesOfOneKey, OneKey, Whole, Starting
<1> QED BY <1>1, Invariance, PTL

(* Until a call fails, a node starts with its complete backup.             *)
THEOREM BackupIsRestored == Spec => []CompleteBackupIsRestored
<1>1. IInv => CompleteBackupIsRestored
  <2> SUFFICES ASSUME IInv, failures = 0, Complete(backup), Starting
               PROVE  volume = backup
    BY DEF CompleteBackupIsRestored
  <2>1. \A f \in Files : volume[f] = backup[f]
    BY ProvisioningAssumption
       DEF IInv, RestoreInv, Restored, Complete, Whole, Starting
  <2>2. volume \in [Files -> Contents] /\ backup \in [Files -> Contents]
    BY DEF IInv, TypeOK
  <2> QED BY <2>1, <2>2
<1> QED BY <1>1, Invariance, PTL

(* A node that has run keeps its private key on a volume that survives,    *)
(* wherever the container is killed.                                       *)
THEOREM RunningKeySurvives == Spec => []KeySurvivesCrashes
<1>1. IInv => KeySurvivesCrashes
  BY DEF IInv, RanInv, KeySurvivesCrashes
<1> QED BY <1>1, Invariance, PTL

(* No step makes the node run under a second identity while its first one  *)
(* is on the volume or in the backup.                                      *)
THEOREM IdentityStays == Spec => IdentityKept
<1> DEFINE Kept1 == failures' = 0 =>
      \A k \in ranAs' \ ranAs :
        backup["priv.bin"] \in {Absent, k} /\ (lost \/ ranAs = {})
<1>1. IInv /\ [Next]_vars => [Kept1]_vars
  <2> SUFFICES ASSUME IInv, Next, failures' = 0, NEW k \in ranAs' \ ranAs
               PROVE  backup["priv.bin"] \in {Absent, k} /\ (lost \/ ranAs = {})
    BY DEF vars
  <2>1. RunNode
    BY DEF Next, Start, Crash, LoseVolume, ListBackup, RestorePlain, RestoreEncrypted,
       Decrypt, RestoreDone, CheckIdentity, GenerateKeyPair, LoadKeyPair, UnmarshalFails,
       LoadFails, OpenFile, FillFile, KeysWritten, BackupKey, BackupDone, Ended, history, vars
  <2>2. pc = "node" /\ volume["priv.bin"] = k /\ k \in Keys /\ failures = 0
    BY <2>1 DEF RunNode, HasPrivateKey
  <2>3. BackupInv /\ Restored /\ RanInv
    BY <2>2 DEF IInv, RestoreInv
  <2>4. backup["priv.bin"] \in {Absent, k}
    BY <2>2, <2>3 DEF Restored, Files
  <2>5. ASSUME ~lost, NEW r \in ranAs PROVE FALSE
    <3>1. volume["priv.bin"] = r \/ backup["priv.bin"] = r
      BY <2>2, <2>3, <2>5 DEF RanInv, KeySurvivesCrashes
    <3>2. r \in Keys /\ r # Absent
      BY <2>5, ProvisioningAssumption DEF IInv, TypeOK
    <3> QED BY <2>2, <2>4, <3>1, <3>2
  <2> QED BY <2>4, <2>5
<1> QED BY <1>1, Invariance, PTL DEF Spec, IdentityKept, Kept1

(* No single failing call changes a complete backup.                       *)
THEOREM CompleteBackupStays == Spec => OneFailureKeepsBackup
<1> DEFINE Stays == Complete(backup) /\ OneKey(backup) /\ failures' < 2 => backup' = backup
<1>1. IInv /\ [Next]_vars => [Stays]_vars
  <2> SUFFICES ASSUME IInv, Next, Complete(backup), OneKey(backup), failures' < 2
               PROVE  backup' = backup
    BY DEF vars
  <2>1. CASE BackupKey
    <3>1. next \in 1..5 /\ Listed[next] \in Files /\ pc = "backup"
      BY <2>1, Orders, Visits DEF IInv, TypeOK, BackupKey, AtFile
    <3>2. backup[Listed[next]] # Absent
      BY <3>1, ProvisioningAssumption DEF Complete, Whole
    <3>3. failures # 0
      BY <3>1, <3>2 DEF IInv, UploadInv
    <3>4. CASE Succeeds
      BY <2>1, <3>2, <3>3, <3>4 DEF BackupKey, Kept, Fails, Succeeds, IInv, TypeOK
    <3>5. CASE Fails
      BY <3>3, <3>5 DEF Fails, IInv, TypeOK
    <3> QED BY <2>1, <3>4, <3>5 DEF BackupKey
  <2>2. CASE UNCHANGED backup
    BY <2>2
  <2> QED
    BY <2>1, <2>2 DEF Next, Start, Crash, LoseVolume, ListBackup, RestorePlain,
       RestoreEncrypted, Decrypt, RestoreDone, CheckIdentity, GenerateKeyPair, LoadKeyPair,
       UnmarshalFails, LoadFails, OpenFile, FillFile, KeysWritten, BackupDone, RunNode, Ended, vars
<1> QED BY <1>1, Invariance, PTL DEF Spec, OneFailureKeepsBackup
=============================================================================
