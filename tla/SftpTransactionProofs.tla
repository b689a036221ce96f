----------------------- MODULE SftpTransactionProofs ------------------------
(***************************************************************************)
(* Proofs about publication and rollback in SftpTransaction: whatever      *)
(* others write, whichever call fails or goes unanswered and wherever the  *)
(* program restarts, the destination is whole, other people's edits        *)
(* survive a save, and a backup is put back, or kept where it was          *)
(* announced.                                                              *)
(***************************************************************************)
EXTENDS SftpTransaction, TLAPS

-----------------------------------------------------------------------------
(* Names and contents.                                                      *)

LEMMA NamesDiffer ==
    ASSUME NEW j \in 0..MaxNonce + 1, NEW k \in 0..MaxNonce + 1
    PROVE  /\ Dest # Target /\ Staging(j) # Dest /\ Staging(j) # Target
           /\ Backup(j) # Dest /\ Backup(j) # Target
           /\ Staging(j) # Backup(k)
           /\ Staging(j) = Staging(k) => j = k
           /\ Backup(j) = Backup(k) => j = k
           /\ Staging(j)[2] = j /\ Backup(j)[2] = j
BY DEF Dest, Target, Staging, Backup

LEMMA NamesKnown ==
    /\ Dest \in Names /\ Target \in Names
    /\ \A k \in 1..MaxNonce : Staging(k) \in Names /\ Backup(k) \in Names
    /\ \A n \in Names \ {Dest, Target} :
         /\ n[2] \in 1..MaxNonce
         /\ n = Staging(n[2]) \/ n = Backup(n[2])
<1>1. /\ Dest \in Names /\ Target \in Names
      /\ \A k \in 1..MaxNonce : Staging(k) \in Names /\ Backup(k) \in Names
  BY DEF Names, Staging, Backup
<1>2. ASSUME NEW n \in Names \ {Dest, Target}
      PROVE  n[2] \in 1..MaxNonce /\ (n = Staging(n[2]) \/ n = Backup(n[2]))
  <2>1. n \in {"staging", "backup"} \X (1..MaxNonce)
    BY DEF Names
  <2> QED
    BY <2>1 DEF Staging, Backup
<1> QED
  BY <1>1, <1>2

LEMMA Contents ==
    /\ Ours \subseteq Content /\ Foreign \subseteq Content
    /\ NoFile \in Content /\ Partial \in Content /\ NoFile # Partial
    /\ Partial \notin Version /\ NoFile \notin Version
    /\ Ours \intersect Foreign = {} /\ Partial \notin Foreign /\ NoFile \notin Foreign
    /\ MaxOurs + 1 \in Foreign
BY TransactionConstants DEF Ours, Foreign, Version, Content, NoFile, Partial, Dir, Symlink

\* A place with what it holds.
LEMMA Paired ==
    ASSUME NEW A, NEW B, NEW n \in A, NEW c, NEW o, o = <<n, c>>, o[2] \in B
    PROVE  o \in A \X B
<1>1. o[2] = c
  OBVIOUS
<1> QED
  BY <1>1

\* A file is written.
LEMMA Written ==
    ASSUME file \in [Names -> Content], NEW n \in Names, NEW c \in Content
    PROVE  /\ Put(n, c) \in [Names -> Content]
           /\ Put(n, c)[n] = c
           /\ \A m \in Names : m # n => Put(n, c)[m] = file[m]
BY DEF Put

\* A file is renamed.
LEMMA Moved ==
    ASSUME file \in [Names -> Content], NEW a \in Names, NEW b \in Names, a # b
    PROVE  /\ Renamed(a, b) \in [Names -> Content]
           /\ Renamed(a, b)[a] = NoFile /\ Renamed(a, b)[b] = file[a]
           /\ \A m \in Names : m \notin {a, b} => Renamed(a, b)[m] = file[m]
<1>1. NoFile \in Content
  BY Contents
<1> QED
  BY <1>1 DEF Renamed

\* A change of the directory keeps account of what it removed.
LEMMA Accounted ==
    ASSUME destroyed \subseteq Version, NEW f, Change(f)
    PROVE  file' = f /\ destroyed' \subseteq Version
BY DEF Change, Present

\* The transfer goes on, or ends.
SameTransfer ==
    /\ tx'.mode = tx.mode /\ tx'.new = tx.new /\ tx'.expected = tx.expected
    /\ tx'.staging = tx.staging /\ tx'.backup = tx.backup

LEMMA Goes ==
    ASSUME tx \in Transfers, NEW pc \in Steps, Goto(pc)
    PROVE  tx' \in Transfers /\ tx'.pc = pc /\ tx'.result = tx.result /\ SameTransfer
<1>1. tx' \in Transfers
  BY DEF Goto, Transfers
<1> QED
  BY <1>1 DEF Goto, Transfers, SameTransfer

LEMMA Ending ==
    ASSUME tx \in Transfers, NEW pc \in Steps, NEW r \in Results, Ends(pc, r)
    PROVE  tx' \in Transfers /\ tx'.pc = pc /\ tx'.result = r /\ SameTransfer
<1>1. tx' \in Transfers
  BY DEF Ends, Transfers
<1> QED
  BY <1>1 DEF Ends, Transfers, SameTransfer

LEMMA IdleTransfer ==
    /\ Idle \in Transfers /\ Idle.staging = 0 /\ Idle.backup = 0 /\ Idle.pc = "idle"
    /\ Idle.mode = "upload"
<1>1. 1 \in Ours /\ 0 \in 0..MaxNonce
  BY TransactionConstants DEF Ours
<1>2. NoFile \in Content
  BY Contents
<1> QED
  BY <1>1, <1>2 DEF Idle, Transfers, Steps, Results

\* The numbers in the names.
LEMMA Numbers ==
    ASSUME TypeOK
    PROVE  /\ MaxNonce \in Nat /\ nonce \in Nat /\ nonce # 0 /\ 0 < nonce
           /\ nonce \in 0..MaxNonce + 1 /\ nonce < nonce + 1 /\ 0 < nonce + 1
           /\ nonce >= nonce
           /\ nonce <= MaxNonce => /\ nonce \in 1..MaxNonce
                                   /\ nonce + 1 \in 1..MaxNonce + 1
           /\ nonce < MaxNonce => nonce + 1 <= MaxNonce /\ nonce <= MaxNonce
           /\ tx.staging \in Nat /\ tx.backup \in Nat
           /\ tx.staging \in 0..MaxNonce + 1 /\ tx.backup \in 0..MaxNonce + 1
           /\ tx.staging # 0 => tx.staging \in 1..MaxNonce
           /\ tx.backup # 0 => tx.backup \in 1..MaxNonce
           /\ tx.staging < nonce => tx.staging < nonce + 1
           /\ \A k \in 1..MaxNonce :
                /\ k \in 0..MaxNonce + 1 /\ k # 0
                /\ k >= nonce + 1 => k >= nonce
                /\ k < nonce => k # nonce /\ k < nonce + 1
<1>1. MaxNonce \in Nat /\ nonce \in 1..MaxNonce + 1
      /\ tx.staging \in 0..MaxNonce /\ tx.backup \in 0..MaxNonce
  BY TransactionConstants DEF TypeOK, Transfers
<1> QED
  BY <1>1

-----------------------------------------------------------------------------
(* Steps that leave the names a transfer drew alone.                        *)

\* Where a step may lead that leaves the names of the transfer alone.
Ways ==
    \/ /\ tx.pc \in {"same", "verify", "stat", "in place"}
       /\ tx'.pc \in {"stat", "in place", "stage", "done"}
       /\ tx'.pc = "in place" => tx.mode # "save"
    \/ tx.pc \in Unpublished \union {"fetching"} /\ tx'.pc = "cleanup"
    \/ tx.pc = "recheck" /\ tx'.pc = "begin"
    \/ tx.pc = "begin" /\ tx'.pc \in {"create", "aside"}
    \/ /\ tx.pc = "verify backup" /\ tx'.pc \in {"publish", "restore stat"}
       /\ tx'.pc = "publish" /\ tx.mode = "save" =>
            file[Backup(tx.backup)] = tx.expected.bytes
    \/ tx.pc = "publish" /\ tx'.pc \in {"restore stat", "restore"}
    \/ tx.pc = "restore stat" /\ tx'.pc = "restore"
    \/ /\ tx.pc = "drop backup"
       /\ tx'.pc = "reload" \/ (tx'.pc = "done" /\ tx'.result = "ok")
    \/ tx.pc = "reload" /\ tx'.pc = "done" /\ tx'.result = "ok"
    \/ tx.pc = "cleanup" /\ tx'.pc = "done" /\ tx'.result = tx.result
    \/ tx.pc = "stat local" /\ tx'.pc \in {"done", "fetched"}
    \/ tx.pc = "fetched" /\ tx'.pc = "done"
    \/ tx'.pc = tx.pc /\ tx'.result = tx.result

\* The destination, or what it points to, may change.
LEMMA OutsideFits ==
    ASSUME TypeOK, TransferInv, tx' \in Transfers, SameTransfer, Ways,
           link' \in {link, "down"}, doc' \in Document \union {NoDoc},
           edits' \in 1..MaxForeign, destroyed' \subseteq Version,
           UNCHANGED <<nonce, started, owed, past>>,
           file' \in [Names -> Content], file'[Dest] # Partial,
           \A n \in Names \ {Dest, Target} : file'[n] = file[n]
    PROVE  TypeOK' /\ TransferInv'
<1> USE DEF TransferInv
<1>0. /\ nonce' = nonce /\ owed' = owed /\ past' = past
      /\ tx'.mode = tx.mode /\ tx'.expected = tx.expected
      /\ tx'.staging = tx.staging /\ tx'.backup = tx.backup
  BY DEF SameTransfer
<1>1. TypeOK'
  BY DEF TypeOK
<1>2. NamesFit'
  BY <1>0 DEF NamesFit, Ways, Unnamed, LocalCopy, Unpublished, SetAsideSteps
<1>3. \A k \in 1..MaxNonce : /\ file'[Staging(k)] = file[Staging(k)]
                             /\ file'[Backup(k)] = file[Backup(k)]
  <2> TAKE k \in 1..MaxNonce
  <2>1. k \in 0..MaxNonce + 1
    BY TransactionConstants
  <2> QED
    BY <2>1, NamesDiffer, NamesKnown
<1>4. /\ tx.staging # 0 => tx.staging \in 1..MaxNonce
      /\ tx.backup # 0 => tx.backup \in 1..MaxNonce
  BY TransactionConstants DEF TypeOK, Transfers
<1>5. /\ tx.staging # 0 => file'[Staging(tx.staging)] = file[Staging(tx.staging)]
      /\ tx.backup # 0 => file'[Backup(tx.backup)] = file[Backup(tx.backup)]
  BY <1>3, <1>4
<1>6. StagingFits'
  BY <1>0, <1>3, <1>5
  DEF StagingFits, Ways, NamesFit, LocalCopy, Unpublished, SetAsideSteps
<1>7. BackupFits'
  <2>1. \A k \in 1..MaxNonce : k >= nonce /\ Backup(k) \notin past
          => file'[Backup(k)] = NoFile
    BY <1>3 DEF BackupFits
  <2> QED
    BY <1>0, <1>5, <2>1
    DEF BackupFits, NamesFit, Ways, Unpublished, Unnamed, LocalCopy, Failed
<1>8. CheckedFits'
  BY <1>0, <1>5 DEF CheckedFits, Ways, NamesFit, Unpublished, SetAsideSteps
<1>9. OwedFits'
  <2>1. \A o \in owed : file'[o[1]] = file[o[1]]
    BY DEF TypeOK
  <2> QED
    BY <1>0, <2>1 DEF OwedFits, Ways, Unpublished, SetAsideSteps
<1> QED
  BY <1>1, <1>2, <1>6, <1>7, <1>8, <1>9

\* A step that leaves the directory alone.
Still == UNCHANGED <<file, nonce, started, edits, destroyed, owed, past>>

LEMMA StillFits ==
    ASSUME TypeOK, TransferInv, Still, tx' \in Transfers, SameTransfer, Ways,
           link' \in {link, "down"}, doc' \in Document \union {NoDoc}
    PROVE  TypeOK' /\ TransferInv'
<1>1. file[Dest] # Partial
  BY DEF TransferInv, StagingFits
<1> QED
  BY <1>1, OutsideFits DEF Still, TypeOK

\* Replies: an answered or a refused call leaves the session up or down.
LEMMA Replies ==
    /\ Answered => link' = link
    /\ link = "up" /\ Unanswered => link' = "down"
    /\ Unanswered => link' = "down" /\ tx.mode # "download"
    /\ Refused => link' \in {link, "down"}
    /\ Stopped => link' \in {link, "down"}
BY DEF Answered, Unanswered, Refused, Stopped

\* The steps that only read.
LEMMA ReadFits ==
    ASSUME TypeOK, TransferInv, UNCHANGED past,
           Cancel \/ Same \/ Verify \/ Stat \/ Recheck \/ BeginPublish
           \/ VerifyBackup \/ Reload
    PROVE  TypeOK' /\ TransferInv'
<1> USE DEF TypeOK
<1>0. doc \in Document \union {NoDoc} /\ {"done", "stat", "in place", "begin",
         "cleanup", "create", "aside", "publish", "restore stat", "reload"} \subseteq Steps
      /\ {"ok", "changed", "error"} \subseteq Results
  BY DEF Steps, Results
<1>1. CASE Cancel
  <2>1. tx' \in Transfers /\ tx'.pc = tx.pc /\ tx'.result = tx.result /\ SameTransfer
    <3>1. tx' \in Transfers
      BY <1>1 DEF Cancel, Transfers
    <3> QED
      BY <1>1, <3>1 DEF Cancel, Transfers, SameTransfer
  <2>2. Still /\ link' = link /\ doc' = doc
    BY <1>1 DEF Cancel, Still
  <2> QED
    BY <2>1, <2>2, StillFits DEF Ways
<1>2. CASE Same
  <2>1. Still /\ doc' = doc /\ link' \in {link, "down"} /\ tx.pc = "same"
    BY <1>2, Replies DEF Same, ReadStep, Keep, Still
  <2>2. Ends("done", "ok") \/ Ends("done", "changed") \/ Ends("done", "error")
    BY <1>2 DEF Same, ReadStep, Verified, Cancelled
  <2>3. tx' \in Transfers /\ SameTransfer /\ tx'.pc = "done"
    BY <1>0, <2>2, Ending
  <2> QED
    BY <2>1, <2>3, StillFits DEF Ways
<1>3. CASE Verify
  <2>1. Still /\ doc' = doc /\ link' \in {link, "down"} /\ tx.pc = "verify"
    BY <1>3, Replies DEF Verify, ReadStep, Keep, Still
  <2>2. Goto("stat") \/ Ends("done", "changed") \/ Ends("done", "error")
    BY <1>3 DEF Verify, ReadStep, Verified, Cancelled
  <2>3. tx' \in Transfers /\ SameTransfer /\ tx'.pc \in {"stat", "done"}
    BY <1>0, <2>2, Ending, Goes
  <2> QED
    BY <2>1, <2>3, StillFits DEF Ways
<1>4. CASE Stat
  <2>1. Still /\ doc' = doc /\ link' \in {link, "down"} /\ tx.pc = "stat"
    BY <1>4, Replies DEF Stat, ReadStep, Keep, Still
  <2>2. \/ Ends("done", "ok") \/ Ends("done", "changed") \/ Ends("done", "error")
        \/ tx.mode # "save" /\ Goto("in place")
        \/ tx' = [tx EXCEPT !.pc = "stage", !.existing = file[Dest]]
    BY <1>4 DEF Stat, ReadStep, Found
  <2>3. CASE \/ Ends("done", "ok") \/ Ends("done", "changed") \/ Ends("done", "error")
             \/ tx.mode # "save" /\ Goto("in place")
    <3>1. /\ tx' \in Transfers /\ SameTransfer /\ tx'.pc \in {"in place", "done"}
          /\ tx'.pc = "in place" => tx.mode # "save"
      BY <1>0, <2>3, Ending, Goes
    <3> QED
      BY <2>1, <3>1, StillFits DEF Ways
  <2>4. CASE tx' = [tx EXCEPT !.pc = "stage", !.existing = file[Dest]]
    <3>1. file[Dest] \in Content
      BY NamesKnown
    <3>2. tx' \in Transfers
      BY <2>4, <3>1 DEF Transfers, Steps
    <3>3. SameTransfer /\ tx'.pc = "stage"
      BY <2>4 DEF Transfers, SameTransfer
    <3> QED
      BY <2>1, <3>2, <3>3, StillFits DEF Ways
  <2> QED
    BY <2>2, <2>3, <2>4
<1>5. CASE Recheck
  <2>1. Still /\ doc' = doc /\ link' \in {link, "down"} /\ tx.pc = "recheck"
    BY <1>5, Replies DEF Recheck, ReadStep, Keep, Still
  <2>2. Goto("begin") \/ Ends("cleanup", "changed") \/ Ends("cleanup", "error")
    BY <1>5 DEF Recheck, ReadStep, Cancelled
  <2>3. tx' \in Transfers /\ SameTransfer /\ tx'.pc \in {"begin", "cleanup"}
    BY <1>0, <2>2, Ending, Goes
  <2> QED
    BY <2>1, <2>3, StillFits DEF Ways, Unpublished
<1>6. CASE BeginPublish
  <2>1. Still /\ doc' = doc /\ link' = link /\ tx.pc = "begin"
    BY <1>6 DEF BeginPublish, Still
  <2>2. Goto("create") \/ Goto("aside") \/ Ends("cleanup", "error")
    BY <1>6, Zenon DEF BeginPublish
  <2>3. tx' \in Transfers /\ SameTransfer /\ tx'.pc \in {"create", "aside", "cleanup"}
    BY <1>0, <2>2, Ending, Goes
  <2> QED
    BY <2>1, <2>3, StillFits DEF Ways, Unpublished
<1>7. CASE VerifyBackup
  <2>1. Still /\ doc' = doc /\ link' \in {link, "down"} /\ tx.pc = "verify backup"
    BY <1>7, Replies DEF VerifyBackup, ReadStep, Keep, Still
  <2>2. \/ Matches(tx.expected, file[Backup(tx.backup)]) /\ Goto("publish")
        \/ Ends("restore stat", "changed") \/ Ends("restore stat", "error")
    BY <1>7 DEF VerifyBackup, ReadStep
  <2>3. /\ tx' \in Transfers /\ SameTransfer /\ tx'.pc \in {"publish", "restore stat"}
        /\ tx'.pc = "publish" => file[Backup(tx.backup)] = tx.expected.bytes
    BY <1>0, <2>2, Ending, Goes DEF Matches
  <2> QED
    BY <2>1, <2>3, StillFits DEF Ways
<1>8. CASE Reload
  <2>1. Still /\ link' \in {link, "down"} /\ tx.pc = "reload" /\ Ends("done", "ok")
        /\ \E m \in Version \union {AnyMeta} : doc' = [bytes |-> tx.new, meta |-> m]
    BY <1>8, Replies DEF Reload, Keep, Still, MetadataNow
  <2>2. doc' \in Document
    BY <2>1 DEF Document, Transfers, Version
  <2>3. tx' \in Transfers /\ SameTransfer /\ tx'.pc = "done" /\ tx'.result = "ok"
    BY <1>0, <2>1, Ending
  <2> QED
    BY <2>1, <2>2, <2>3, StillFits DEF Ways
<1> QED
  BY <1>1, <1>2, <1>3, <1>4, <1>5, <1>6, <1>7, <1>8

\* A document is loaded.
LEMMA LoadFits ==
    ASSUME TypeOK, TransferInv, UNCHANGED past, Load
    PROVE  TypeOK' /\ TransferInv'
<1> USE DEF TransferInv
<1>0. /\ tx.pc = "idle" /\ link' = "up"
      /\ UNCHANGED <<file, nonce, tx, started, edits, destroyed, owed, past>>
  BY DEF Load
<1>1. doc' \in Document
  BY DEF Load, IsRegular, Document
<1>2. TypeOK'
  BY <1>0, <1>1 DEF TypeOK
<1>3. NamesFit' /\ StagingFits' /\ CheckedFits' /\ OwedFits'
  BY <1>0 DEF NamesFit, StagingFits, CheckedFits, OwedFits
<1>4. BackupFits'
  BY <1>0 DEF BackupFits
<1> QED
  BY <1>2, <1>3, <1>4

\* A transfer starts, or its end is taken note of.
LEMMA FreshFits ==
    ASSUME TypeOK, TransferInv, UNCHANGED <<file, nonce, edits, destroyed, owed, past>>,
           tx' \in Transfers, tx'.staging = 0, tx'.backup = 0,
           tx'.pc \in {"idle", "same", "verify", "stat", "fetch"},
           tx'.pc # "idle" => nonce < MaxNonce,
           tx'.pc = "fetch" => tx'.mode = "download",
           link' \in {"up", "down"}, doc' = doc, started' \in 0..MaxTx
    PROVE  TypeOK' /\ TransferInv'
<1> USE DEF TransferInv
<1>1. TypeOK'
  BY DEF TypeOK
<1>2. NamesFit'
  <2>1. nonce \in Nat /\ nonce >= 1
    BY TransactionConstants DEF TypeOK
  <2>2. 0 < nonce
    BY <2>1
  <2> QED
    BY <2>2 DEF NamesFit, Unnamed, LocalCopy, Unpublished, SetAsideSteps
<1>3. StagingFits'
  BY DEF StagingFits
<1>4. BackupFits'
  BY DEF BackupFits
<1>5. CheckedFits'
  BY DEF CheckedFits
<1>6. OwedFits'
  <2> SUFFICES ASSUME past = {}, NEW o \in owed
               PROVE  /\ file[o[1]] = o[2] /\ o[1][2] < nonce
                      /\ o[1] # Staging(0) /\ o[1] # Backup(0)
    BY DEF OwedFits
  <2>1. file[o[1]] = o[2] /\ o[1][2] < nonce
    BY DEF OwedFits
  <2>2. o[1] \in Names \ {Dest, Target}
    BY DEF TypeOK
  <2>3. o[1][2] \in 1..MaxNonce
    BY <2>2, NamesKnown
  <2>4. o[1][2] # 0
    BY <2>3
  <2>5. Staging(0)[2] = 0 /\ Backup(0)[2] = 0
    BY DEF Staging, Backup
  <2> QED
    BY <2>1, <2>4, <2>5
<1> QED
  BY <1>1, <1>2, <1>3, <1>4, <1>5, <1>6

LEMMA BoundaryFits ==
    ASSUME TypeOK, TransferInv, UNCHANGED past,
           Finish \/ \E v \in Ours : Save(v) \/ Upload(v) \/ Download(v)
    PROVE  TypeOK' /\ TransferInv'
<1>1. CASE Finish
  BY <1>1, IdleTransfer, FreshFits DEF Finish, TypeOK
<1>2. CASE \E v \in Ours : Save(v) \/ Upload(v) \/ Download(v)
  <2> PICK v \in Ours : Save(v) \/ Upload(v) \/ Download(v)
    BY <1>2
  <2>1. Begin
    BY DEF Save, Upload, Download
  <2>2. /\ nonce < MaxNonce /\ doc' = doc
        /\ UNCHANGED <<file, nonce, edits, destroyed, owed, past>>
    BY <2>1 DEF Begin
  <2>3. started' \in 0..MaxTx
    BY <2>1, TransactionConstants DEF Begin, TypeOK
  <2>4. link' \in {"up", "down"}
    BY DEF Save, Upload, Download, TypeOK
  <2>5. Idle \in Transfers
    BY IdleTransfer
  <2>6. CASE Save(v)
    <3> DEFINE pc == IF v = doc.bytes THEN "same" ELSE "verify"
    <3>1. tx' = [Idle EXCEPT !.mode = "save", !.new = v, !.expected = doc, !.pc = pc]
      BY <2>6 DEF Save
    <3>2. pc \in {"same", "verify"}
      OBVIOUS
    <3> HIDE DEF pc
    <3>3. doc \in Document \union {NoDoc}
      BY DEF TypeOK
    <3>4. tx' \in Transfers
      BY <2>5, <3>1, <3>2, <3>3 DEF Transfers, Steps
    <3>5. tx'.pc = pc /\ tx'.staging = 0 /\ tx'.backup = 0
      BY <3>1 DEF Idle
    <3> QED
      BY <2>2, <2>3, <2>4, <3>2, <3>4, <3>5, FreshFits
  <2>7. CASE Upload(v)
    <3>1. tx' = [Idle EXCEPT !.mode = "upload", !.new = v, !.pc = "stat"]
      BY <2>7 DEF Upload
    <3>2. tx' \in Transfers
      BY <2>5, <3>1 DEF Transfers, Steps
    <3>3. tx'.pc = "stat" /\ tx'.staging = 0 /\ tx'.backup = 0
      BY <3>1 DEF Idle
    <3> QED
      BY <2>2, <2>3, <2>4, <3>2, <3>3, FreshFits
  <2>8. CASE Download(v)
    <3>1. tx' = [Idle EXCEPT !.mode = "download", !.new = v, !.pc = "fetch"]
      BY <2>8 DEF Download
    <3>2. tx' \in Transfers
      BY <2>5, <3>1 DEF Transfers, Steps
    <3>3. tx'.pc = "fetch" /\ tx'.staging = 0 /\ tx'.backup = 0
          /\ tx'.mode = "download"
      BY <3>1 DEF Idle
    <3> QED
      BY <2>2, <2>3, <2>4, <3>2, <3>3, FreshFits
  <2> QED
    BY <2>6, <2>7, <2>8
<1> QED
  BY <1>1, <1>2

\* Others write the destination, or what it points to.
LEMMA OthersFit ==
    ASSUME TypeOK, TransferInv, UNCHANGED past, Edit \/ Remove
    PROVE  TypeOK' /\ TransferInv'
<1> USE DEF TransferInv
<1>0. UNCHANGED <<nonce, link, doc, tx, started, destroyed, owed, past>>
  BY DEF Edit, Remove
<1>1. edits \in Nat /\ edits >= 1 /\ edits < MaxForeign /\ edits' = edits + 1
  BY DEF Edit, Remove, TypeOK
<1>2. edits' \in 1..MaxForeign
  BY <1>1, TransactionConstants
<1>3. MaxOurs + edits + 1 \in Foreign
  BY <1>1, TransactionConstants DEF Foreign
<1>4. PICK n \in {Dest, Target}, c \in Content :
        file' = Put(n, c) /\ c # Partial
  <2>1. MaxOurs + edits + 1 \in Content /\ MaxOurs + edits + 1 # Partial
    BY <1>3, Contents
  <2>2. NoFile \in Content /\ NoFile # Partial
    BY Contents
  <2> QED
    BY <2>1, <2>2, Zenon DEF Edit, Remove
<1>5. n \in Names /\ file \in [Names -> Content]
  BY NamesKnown DEF TypeOK
<1>6. /\ file' \in [Names -> Content]
      /\ \A m \in Names : m # n => file'[m] = file[m]
      /\ file'[n] = c
  BY <1>4, <1>5, Written
<1>7. file'[Dest] # Partial
  BY <1>4, <1>6, NamesKnown DEF StagingFits
<1>8. SameTransfer /\ Ways /\ tx' \in Transfers /\ link' = link
      /\ doc' \in Document \union {NoDoc} /\ destroyed' \subseteq Version
  BY <1>0 DEF SameTransfer, Ways, TypeOK
<1> QED
  BY <1>0, <1>2, <1>6, <1>7, <1>8, OutsideFits

\* The program restarts; what it left is remembered.
LEMMA RestartFits ==
    ASSUME TypeOK, TransferInv, Restart
    PROVE  TypeOK' /\ TransferInv'
<1> USE DEF TransferInv
<1>0. /\ tx' = Idle /\ nonce' = 1 /\ doc' = NoDoc /\ link' = "up"
      /\ UNCHANGED <<file, started, edits, destroyed, owed>>
      /\ past' = past \union {n \in Names \ {Dest, Target} : file[n] # NoFile}
  BY DEF Restart
<1>1. TypeOK'
  <2>1. 1 \in 1..MaxNonce + 1
    BY TransactionConstants
  <2> QED
    BY <1>0, <2>1, IdleTransfer DEF TypeOK
<1>2. tx'.pc = "idle" /\ tx'.staging = 0 /\ tx'.backup = 0
  BY <1>0, IdleTransfer
<1>3. NamesFit'
  <2>1. tx'.staging < nonce' /\ tx'.backup < nonce'
    <3>1. 0 < 1
      OBVIOUS
    <3> QED
      BY <1>0, <1>2, <3>1, Zenon
  <2> QED
    BY <1>2, <2>1 DEF NamesFit, Unnamed, LocalCopy, Unpublished, SetAsideSteps
<1>4. StagingFits'
  BY <1>0, <1>2 DEF StagingFits
<1>5. BackupFits'
  <2>1. \A k \in 1..MaxNonce : Backup(k) \notin past' => file[Backup(k)] = NoFile
    <3> TAKE k \in 1..MaxNonce
    <3>1. Backup(k) \in Names /\ Backup(k) # Dest /\ Backup(k) # Target
      BY NamesKnown DEF Backup, Dest, Target
    <3> QED
      BY <1>0, <3>1
  <2> QED
    BY <1>0, <1>2, <2>1 DEF BackupFits
<1>6. CheckedFits'
  BY <1>2 DEF CheckedFits
<1>7. OwedFits'
  <2> SUFFICES ASSUME past' = {}, NEW o \in owed PROVE FALSE
    BY <1>0 DEF OwedFits
  <2>1. o[1] \in Names \ {Dest, Target} /\ o[2] \in Version
    BY DEF TypeOK
  <2>2. file[o[1]] = o[2]
    BY <1>0 DEF OwedFits
  <2>3. file[o[1]] = NoFile
    BY <1>0, <2>1
  <2> QED
    BY <2>1, <2>2, <2>3, Contents
<1> QED
  BY <1>1, <1>3, <1>4, <1>5, <1>6, <1>7

\* An upload writes through a symbolic link.
LEMMA InPlaceFits ==
    ASSUME TypeOK, TransferInv, UNCHANGED past, InPlace
    PROVE  TypeOK' /\ TransferInv'
<1> USE DEF TypeOK
<1>0. tx.pc = "in place" /\ UNCHANGED <<nonce, doc, started, edits, owed, past>>
  BY DEF InPlace
<1>1. "done" \in Steps /\ {"ok", "error"} \subseteq Results
  BY DEF Steps, Results
<1>2. CASE \E c \in Content : /\ Answered /\ Change(Put(Target, c))
                              /\ UNCHANGED tx \/ Ends("done", "ok")
  <2> PICK c \in Content : /\ Answered /\ Change(Put(Target, c))
                           /\ UNCHANGED tx \/ Ends("done", "ok")
    BY <1>2
  <2>1. file' = Put(Target, c) /\ destroyed' \subseteq Version
    BY Accounted
  <2>2. /\ file' \in [Names -> Content]
        /\ \A m \in Names : m # Target => file'[m] = file[m]
    BY <2>1, NamesKnown, Written
  <2>3. file'[Dest] # Partial
    <3>1. Dest # Target
      BY DEF Dest, Target
    <3> QED
      BY <2>2, <3>1, NamesKnown DEF TransferInv, StagingFits
  <2>4. tx' \in Transfers /\ SameTransfer /\ Ways
    <3>1. CASE UNCHANGED tx
      BY <3>1 DEF SameTransfer, Ways
    <3>2. CASE Ends("done", "ok")
      BY <1>0, <1>1, <3>2, Ending DEF Ways
    <3> QED
      BY <3>1, <3>2
  <2>5. link' = link
    BY Replies
  <2> QED
    BY <1>0, <2>1, <2>2, <2>3, <2>4, <2>5, OutsideFits
<1>3. CASE Stopped /\ Keep /\ Ends("done", "error")
  <2>1. Still /\ link' \in {link, "down"}
    BY <1>0, <1>3, Replies DEF Keep, Still
  <2>2. tx' \in Transfers /\ SameTransfer /\ tx'.pc = "done"
    BY <1>1, <1>3, Ending
  <2> QED
    BY <1>0, <2>1, <2>2, StillFits DEF Ways
<1> QED
  <2>1. Partial \in Content /\ tx.new \in Content
    BY Contents DEF Transfers
  <2> QED
    BY <1>2, <1>3, <2>1, Zenon DEF InPlace

-----------------------------------------------------------------------------
(* The staging file.                                                        *)

\* It is completed or removed, perhaps with a write through a link.
LEMMA StagedFits ==
    ASSUME TypeOK, TransferInv, tx' \in Transfers, SameTransfer,
           \/ tx.pc = "write" /\ tx'.pc \in {"recheck", "begin"}
           \/ tx.pc = "fetching" /\ tx'.pc = "stat local"
           \/ tx.pc = "fetched" /\ tx'.pc \in {"fetched", "done"}
           \/ tx.pc = "cleanup" /\ tx'.pc = "done" /\ tx'.result = tx.result,
           link' \in {link, "down"}, destroyed' \subseteq Version,
           UNCHANGED <<nonce, doc, started, edits, owed, past>>,
           file' \in [Names -> Content],
           file'[Staging(tx.staging)] \notin Foreign \union {Partial},
           \A n \in Names : n \notin {Target, Staging(tx.staging)} => file'[n] = file[n]
    PROVE  TypeOK' /\ TransferInv'
<1> USE DEF TransferInv
<1> DEFINE s == tx.staging
<1>0. /\ nonce' = nonce /\ owed' = owed /\ past' = past
      /\ tx'.mode = tx.mode /\ tx'.expected = tx.expected
      /\ tx'.staging = s /\ tx'.backup = tx.backup
  BY DEF SameTransfer
<1>1. TypeOK'
  BY DEF TypeOK
<1>2. NamesFit'
  BY <1>0 DEF NamesFit, Unnamed, LocalCopy, Unpublished, SetAsideSteps
<1>3. s \in 1..MaxNonce
  <2>1. s # 0
    BY DEF NamesFit, LocalCopy, Unpublished
  <2> QED
    BY <2>1, Numbers, Zenon
<1>4. \A k \in 1..MaxNonce : /\ file'[Staging(k)] = file[Staging(k)] \/ k = s
                             /\ file'[Backup(k)] = file[Backup(k)]
  <2> TAKE k \in 1..MaxNonce
  <2>1. k \in 0..MaxNonce + 1 /\ s \in 0..MaxNonce + 1
    BY Numbers, Zenon
  <2>2. /\ Staging(k) \in Names /\ Backup(k) \in Names
        /\ Backup(k) # Staging(s) /\ Backup(k) # Target /\ Staging(k) # Target
        /\ Staging(k) = Staging(s) => k = s
    BY <2>1, NamesDiffer, NamesKnown, Zenon
  <2> QED
    BY <2>2, Zenon
<1>5. file'[Dest] = file[Dest]
  <2>1. Dest # Target /\ Dest # Staging(s)
    BY DEF Dest, Target, Staging
  <2> QED
    BY <2>1, NamesKnown
<1>6. StagingFits'
  BY <1>0, <1>3, <1>4, <1>5 DEF StagingFits
<1>7. tx.backup # 0 => file'[Backup(tx.backup)] = file[Backup(tx.backup)]
  <2>1. tx.backup # 0 => tx.backup \in 1..MaxNonce
    BY Numbers, Zenon
  <2> QED
    BY <1>4, <2>1
<1>8. BackupFits'
  <2>1. \A k \in 1..MaxNonce : k >= nonce /\ Backup(k) \notin past
          => file'[Backup(k)] = NoFile
    BY <1>4 DEF BackupFits
  <2> QED
    BY <1>0, <1>7, <2>1 DEF BackupFits, NamesFit, Unpublished, LocalCopy
<1>9. CheckedFits'
  BY <1>0 DEF CheckedFits
<1>10. OwedFits'
  <2> SUFFICES ASSUME past = {}, NEW o \in owed
               PROVE  /\ file'[o[1]] = o[2] /\ o[1][2] < nonce
                      /\ o[1] # Staging(s)
                      /\ o[1] = Backup(tx.backup) => tx'.pc = "done"
    BY <1>0 DEF OwedFits
  <2>1. /\ file[o[1]] = o[2] /\ o[1][2] < nonce
        /\ o[1] # Staging(s)
        /\ o[1] = Backup(tx.backup) => tx'.pc = "done"
    BY DEF OwedFits, SetAsideSteps
  <2>2. o[1] \in Names \ {Dest, Target}
    BY DEF TypeOK
  <2> QED
    BY <2>1, <2>2
<1> QED
  BY <1>1, <1>2, <1>6, <1>8, <1>9, <1>10

\* The names are drawn: one for both files, or one for each of a download.
LEMMA DrawnFits ==
    ASSUME TypeOK, TransferInv, tx' \in Transfers, nonce <= MaxNonce,
           NEW n, n = nonce + 1, nonce' = n, tx'.mode = tx.mode, tx'.expected = tx.expected,
           \/ /\ tx.pc = "stage" /\ tx'.pc \in {"write", "cleanup"}
              /\ tx'.staging = nonce /\ tx'.backup = nonce
           \/ /\ tx.pc = "fetch" /\ tx'.pc = "fetching"
              /\ tx'.staging = nonce /\ tx'.backup = 0
           \/ /\ tx.pc = "fetch" /\ tx'.pc = "done"
              /\ tx'.staging = 0 /\ tx'.backup = 0
           \/ /\ tx.pc = "stat local" /\ tx'.pc = "begin"
              /\ tx'.staging = tx.staging /\ tx'.backup = nonce,
           link' \in {link, "down"}, destroyed' \subseteq Version,
           UNCHANGED <<doc, started, edits, owed, past>>,
           \/ file' = file
           \/ tx.pc \in {"stage", "fetch"} /\ file' = Put(Staging(nonce), Partial)
    PROVE  TypeOK' /\ TransferInv'
<1> USE DEF TransferInv
<1>0. nonce \in 1..MaxNonce /\ nonce \in Nat /\ MaxNonce \in Nat
      /\ n \in 1..MaxNonce + 1 /\ nonce \in 0..MaxNonce + 1
  BY Numbers, Zenon
<1>1. /\ file' \in [Names -> Content]
      /\ \A m \in Names : m # Staging(nonce) => file'[m] = file[m]
      /\ file'[Staging(nonce)] \in {file[Staging(nonce)], Partial}
      /\ tx.pc = "stat local" => file' = file
  <2>1. Staging(nonce) \in Names /\ Partial \in Content /\ file \in [Names -> Content]
    BY <1>0, NamesKnown, Contents, Zenon DEF TypeOK
  <2>2. CASE file' = file
    BY <2>1, <2>2, Zenon
  <2>3. CASE tx.pc \in {"stage", "fetch"} /\ file' = Put(Staging(nonce), Partial)
    <3>1. /\ file' \in [Names -> Content] /\ file'[Staging(nonce)] = Partial
          /\ \A m \in Names : m # Staging(nonce) => file'[m] = file[m]
      BY <2>1, <2>3, Written, Zenon
    <3>2. tx.pc # "stat local"
      BY <2>3
    <3> QED
      BY <3>1, <3>2, Zenon
  <2> QED
    BY <2>2, <2>3
<1>2. \A k \in 1..MaxNonce : /\ file'[Staging(k)] = file[Staging(k)] \/ k = nonce
                             /\ file'[Backup(k)] = file[Backup(k)]
  <2> TAKE k \in 1..MaxNonce
  <2>1. k \in 0..MaxNonce + 1
    BY Numbers, Zenon
  <2>2. /\ Staging(k) \in Names /\ Backup(k) \in Names
        /\ Backup(k) # Staging(nonce) /\ (Staging(k) = Staging(nonce) => k = nonce)
    BY <1>0, <2>1, NamesDiffer, NamesKnown, Zenon
  <2> QED
    BY <1>1, <2>2, Zenon
<1>3. file'[Dest] = file[Dest]
  <2>1. Dest # Staging(nonce)
    BY DEF Dest, Staging
  <2> QED
    BY <1>1, <2>1, NamesKnown
<1>4. TypeOK'
  BY <1>0, <1>1 DEF TypeOK
<1>5. NamesFit'
  <2>1. nonce < n /\ 0 < n /\ nonce # 0
    BY Numbers, Zenon
  <2>2. tx.staging < n
    BY Numbers, Zenon DEF NamesFit
  <2>3. tx.pc = "fetch" => n <= MaxNonce
    BY Numbers, Zenon DEF NamesFit, Unnamed
  <2>4. tx'.staging < n /\ tx'.backup < n
    BY <2>1, <2>2, Zenon
  <2> QED
    BY <2>1, <2>3, <2>4
    DEF NamesFit, Unnamed, LocalCopy, Unpublished, SetAsideSteps
<1>6. StagingFits'
  <2>1. \A k \in 1..MaxNonce :
          file'[Backup(k)] # Partial /\ file'[Staging(k)] \notin Foreign
    BY <1>0, <1>1, <1>2, Contents DEF StagingFits
  <2>2. tx'.pc = "begin" => file'[Staging(tx'.staging)] # Partial
    BY <1>1 DEF StagingFits
  <2> QED
    BY <1>3, <2>1, <2>2 DEF StagingFits
<1>7. BackupFits'
  <2>0. \A k \in 1..MaxNonce : k >= nonce /\ Backup(k) \notin past
          => file'[Backup(k)] = NoFile
    BY <1>2, Zenon DEF BackupFits
  <2>1. \A k \in 1..MaxNonce : k >= n /\ Backup(k) \notin past
          => file'[Backup(k)] = NoFile
    BY <2>0, Numbers, Zenon
  <2>2. Backup(nonce) \notin past => file'[Backup(nonce)] = NoFile
    BY <1>0, <2>0, Numbers, Zenon
  <2>3. tx'.backup \in {0, nonce}
    OBVIOUS
  <2>4. \A k \in 1..MaxNonce : k >= nonce' /\ Backup(k) \notin past'
          => file'[Backup(k)] = NoFile
    BY <2>1
  <2> QED
    BY <2>2, <2>3, <2>4 DEF BackupFits
<1>8. CheckedFits'
  BY DEF CheckedFits
<1>9. OwedFits'
  <2> SUFFICES ASSUME past = {}, NEW o \in owed
               PROVE  /\ file'[o[1]] = o[2] /\ o[1][2] < n
                      /\ o[1] # Staging(tx'.staging) \/ tx'.pc = "done"
                      /\ o[1] # Backup(tx'.backup)
    BY DEF OwedFits
  <2>1. /\ file[o[1]] = o[2] /\ o[1][2] < nonce
        /\ o[1] # Staging(tx.staging) /\ o[1] # Backup(tx.backup)
    BY DEF OwedFits, SetAsideSteps
  <2>2. o[1] \in Names \ {Dest, Target}
    BY DEF TypeOK
  <2>3. o[1][2] \in 1..MaxNonce
    BY <2>2, NamesKnown
  <2>4. o[1][2] # nonce /\ o[1][2] # 0 /\ o[1][2] < n
    BY <2>1, <2>3, Numbers, Zenon
  <2>5. /\ Staging(nonce)[2] = nonce /\ Backup(nonce)[2] = nonce
        /\ Staging(0)[2] = 0 /\ Backup(0)[2] = 0
    BY DEF Staging, Backup
  <2>6. /\ o[1] # Staging(nonce) /\ o[1] # Backup(nonce)
        /\ o[1] # Staging(0) /\ o[1] # Backup(0)
    BY <2>4, <2>5
  <2> QED
    BY <1>1, <2>1, <2>2, <2>4, <2>6
<1> QED
  BY <1>4, <1>5, <1>6, <1>7, <1>8, <1>9

\* Drawing the names.
LEMMA StageFits ==
    ASSUME TypeOK, TransferInv, UNCHANGED past, Stage
    PROVE  TypeOK' /\ TransferInv'
<1> DEFINE n == nonce + 1
<1>0. /\ tx.pc = "stage" /\ nonce' = n
      /\ UNCHANGED <<doc, started, edits, owed, past>>
  BY DEF Stage
<1>1. nonce <= MaxNonce /\ nonce \in 0..MaxNonce
  <2>1. nonce < MaxNonce
    BY <1>0 DEF TransferInv, NamesFit, Unnamed
  <2>2. nonce <= MaxNonce /\ nonce \in 1..MaxNonce
    BY <2>1, Numbers, Zenon
  <2>3. 1..MaxNonce \subseteq 0..MaxNonce
    BY TransactionConstants
  <2> QED
    BY <2>2, <2>3, Zenon
<1>2. tx' \in {[tx EXCEPT !.pc = "write", !.staging = nonce, !.backup = nonce],
               [tx EXCEPT !.pc = "cleanup", !.staging = nonce, !.backup = nonce,
                          !.result = "error"]}
  BY DEF Stage
<1>3. tx \in Transfers /\ {"write", "cleanup"} \subseteq Steps /\ "error" \in Results
  BY DEF TypeOK, Steps, Results
<1> HIDE DEF n
<1>4. tx' \in Transfers
  BY <1>1, <1>2, <1>3 DEF Transfers
<1>5. /\ tx'.mode = tx.mode /\ tx'.expected = tx.expected
      /\ tx'.pc \in {"write", "cleanup"} /\ tx'.staging = nonce /\ tx'.backup = nonce
  BY <1>2, <1>3 DEF Transfers
<1>6. /\ link' \in {link, "down"} /\ destroyed' \subseteq Version
      /\ file' = file \/ file' = Put(Staging(nonce), Partial)
  <2>1. destroyed \subseteq Version
    BY DEF TypeOK
  <2>2. CASE Answered /\ Change(Put(Staging(nonce), Partial))
    BY <2>1, <2>2, Replies, Accounted, Zenon
  <2>3. CASE Refused /\ Keep
    BY <2>1, <2>3, Replies DEF Keep
  <2> QED
    BY <2>2, <2>3, Zenon DEF Stage
<1> QED
  BY <1>0, <1>1, <1>4, <1>5, <1>6, DrawnFits DEF n

LEMMA FetchFits ==
    ASSUME TypeOK, TransferInv, UNCHANGED past, Fetch
    PROVE  TypeOK' /\ TransferInv'
<1> DEFINE n == nonce + 1
<1>0. /\ tx.pc = "fetch" /\ nonce' = n /\ link' = link
      /\ UNCHANGED <<doc, started, edits, owed, past>>
  BY DEF Fetch
<1>1. nonce <= MaxNonce /\ nonce \in 0..MaxNonce
  <2>1. nonce < MaxNonce
    BY <1>0 DEF TransferInv, NamesFit, Unnamed
  <2>2. nonce <= MaxNonce /\ nonce \in 1..MaxNonce
    BY <2>1, Numbers, Zenon
  <2>3. 1..MaxNonce \subseteq 0..MaxNonce
    BY TransactionConstants
  <2> QED
    BY <2>2, <2>3, Zenon
<1>2. tx \in Transfers /\ {"fetching", "done"} \subseteq Steps /\ "ok" \in Results
      /\ tx.staging = 0 /\ tx.backup = 0 /\ destroyed \subseteq Version
  BY <1>0 DEF TypeOK, Steps, Results, TransferInv, NamesFit, Unnamed
<1> HIDE DEF n
<1>3. CASE Keep /\ Ends("done", "ok")
  <2>1. tx' \in Transfers /\ SameTransfer /\ tx'.pc = "done"
    BY <1>2, <1>3, Ending
  <2>2. tx'.mode = tx.mode /\ tx'.expected = tx.expected
        /\ tx'.staging = 0 /\ tx'.backup = 0
    BY <1>2, <2>1 DEF SameTransfer
  <2>3. file' = file /\ destroyed' = destroyed
    BY <1>3 DEF Keep
  <2> QED
    BY <1>0, <1>1, <1>2, <2>1, <2>2, <2>3, DrawnFits DEF n
<1>4. CASE /\ Change(Put(Staging(nonce), Partial))
           /\ tx' = [tx EXCEPT !.pc = "fetching", !.staging = nonce]
  <2>1. tx' \in Transfers
    BY <1>1, <1>2, <1>4 DEF Transfers
  <2>2. /\ tx'.pc = "fetching" /\ tx'.mode = tx.mode /\ tx'.expected = tx.expected
        /\ tx'.staging = nonce /\ tx'.backup = 0
    BY <1>2, <1>4 DEF Transfers
  <2>3. file' = Put(Staging(nonce), Partial) /\ destroyed' \subseteq Version
    BY <1>2, <1>4, Accounted, Zenon
  <2> QED
    BY <1>0, <1>1, <2>1, <2>2, <2>3, DrawnFits DEF n
<1> QED
  BY <1>3, <1>4, Zenon DEF Fetch

\* A finished download looks at its destination.
LEMMA StatLocalFits ==
    ASSUME TypeOK, TransferInv, UNCHANGED past, StatLocal
    PROVE  TypeOK' /\ TransferInv'
<1>0. /\ tx.pc = "stat local" /\ Keep
      /\ UNCHANGED <<link, doc, started, edits, owed, past>>
  BY DEF StatLocal
<1>1. /\ tx \in Transfers /\ {"done", "fetched"} \subseteq Steps /\ "error" \in Results
      /\ doc \in Document \union {NoDoc} /\ destroyed \subseteq Version
  BY DEF TypeOK, Steps, Results
<1>2. CASE (Ends("done", "error") \/ Goto("fetched")) /\ UNCHANGED nonce
  <2>1. Still
    BY <1>0, <1>2 DEF Keep, Still
  <2>2. tx' \in Transfers /\ SameTransfer /\ tx'.pc \in {"done", "fetched"}
    BY <1>1, <1>2, Ending, Goes
  <2>3. Ways
    BY <1>0, <2>2 DEF Ways
  <2> QED
    BY <1>0, <1>1, <2>1, <2>2, <2>3, StillFits
<1>3. CASE /\ tx' = [tx EXCEPT !.pc = "begin", !.existing = file[Dest],
                               !.backup = nonce]
           /\ nonce' = nonce + 1
  <2> DEFINE n == nonce + 1
  <2>1. nonce <= MaxNonce
    BY <1>0 DEF TransferInv, NamesFit, LocalCopy
  <2>2. nonce \in 0..MaxNonce
    <3>1. nonce \in 1..MaxNonce
      BY <2>1, Numbers, Zenon
    <3>2. 1..MaxNonce \subseteq 0..MaxNonce
      BY TransactionConstants
    <3> QED
      BY <3>1, <3>2, Zenon
  <2>3. nonce' = n /\ tx' = [tx EXCEPT !.pc = "begin", !.existing = file[Dest],
                                       !.backup = nonce]
    BY <1>3
  <2> HIDE DEF n
  <2>4. file[Dest] \in Content
    BY NamesKnown DEF TypeOK
  <2>5. tx' \in Transfers
    BY <1>1, <2>2, <2>3, <2>4 DEF Transfers, Steps
  <2>6. /\ tx'.pc = "begin" /\ tx'.mode = tx.mode /\ tx'.expected = tx.expected
        /\ tx'.staging = tx.staging /\ tx'.backup = nonce
    BY <1>1, <2>3 DEF Transfers
  <2>7. file' = file /\ destroyed' = destroyed
    BY <1>0 DEF Keep
  <2> QED
    BY <1>0, <1>1, <2>1, <2>3, <2>5, <2>6, <2>7, DrawnFits DEF n
<1> QED
  BY <1>2, <1>3, Zenon DEF StatLocal

\* The staging file is completed, copied through a link, or removed.
LEMMA StagingFileFits ==
    ASSUME TypeOK, TransferInv, UNCHANGED past,
           Write \/ Fetching \/ CopyThrough \/ Cleanup
    PROVE  TypeOK' /\ TransferInv'
<1> DEFINE s == Staging(tx.staging)
<1>0. /\ tx.pc \in {"write", "fetching", "fetched", "cleanup"}
      /\ UNCHANGED <<nonce, doc, started, edits, owed, past>>
  BY DEF Write, Fetching, CopyThrough, Cleanup
<1>1. /\ tx \in Transfers /\ doc \in Document \union {NoDoc}
      /\ destroyed \subseteq Version /\ file \in [Names -> Content]
      /\ {"done", "cleanup", "stat local", "recheck", "begin"} \subseteq Steps
      /\ {"ok", "error"} \subseteq Results
  BY DEF TypeOK, Steps, Results
<1>2. /\ s \in Names /\ s # Target /\ Target \in Names
      /\ file[s] \notin Foreign
  <2>1. tx.staging # 0
    BY <1>0 DEF TransferInv, NamesFit, LocalCopy, Unpublished
  <2>2. tx.staging \in 1..MaxNonce
    BY <2>1, Numbers, Zenon
  <2>3. s # Target
    BY DEF Staging, Target
  <2> QED
    BY <2>2, <2>3, NamesKnown, Zenon DEF TransferInv, StagingFits
<1>3. tx.new \in Content /\ tx.new \notin Foreign \union {Partial}
      /\ NoFile \in Content /\ NoFile \notin Foreign \union {Partial}
      /\ Partial \in Content
  <2>1. tx.new \in Ours
    BY <1>1 DEF Transfers
  <2>2. Partial \notin Ours
    BY DEF Ours, Partial
  <2> QED
    BY <2>1, <2>2, Contents
<1>4. ASSUME NEW c \in Content, c \notin Foreign \union {Partial}, file' = Put(s, c)
      PROVE  /\ file' \in [Names -> Content]
             /\ file'[s] \notin Foreign \union {Partial}
             /\ \A n \in Names : n \notin {Target, s} => file'[n] = file[n]
  <2> HIDE DEF s
  <2>1. /\ Put(s, c) \in [Names -> Content] /\ Put(s, c)[s] = c
        /\ \A n \in Names : n # s => Put(s, c)[n] = file[n]
    BY <1>1, <1>2, Written
  <2> QED
    BY <1>4, <2>1
<1>5. CASE Write
  <2>1. CASE /\ Answered /\ Change(Put(s, tx.new))
             /\ Goto(IF tx.mode = "save" THEN "recheck" ELSE "begin")
    <3>1. tx' \in Transfers /\ SameTransfer /\ tx'.pc \in {"recheck", "begin"}
      BY <1>1, <2>1, Goes
    <3>2. file' = Put(s, tx.new) /\ destroyed' \subseteq Version
      BY <1>1, <2>1, Accounted, Zenon
    <3>3. tx.pc = "write" /\ link' = link
      BY <1>5, <2>1, Replies DEF Write
    <3> QED
      BY <1>0, <1>3, <1>4, <3>1, <3>2, <3>3, StagedFits
  <2>2. CASE Stopped /\ Keep /\ Ends("cleanup", "error")
    <3>1. tx' \in Transfers /\ SameTransfer /\ tx'.pc = "cleanup"
      BY <1>1, <2>2, Ending
    <3>2. Still /\ link' \in {link, "down"} /\ tx.pc = "write"
      BY <1>0, <1>5, <2>2, Replies DEF Still, Keep, Write
    <3> QED
      BY <1>0, <1>1, <3>1, <3>2, StillFits DEF Ways, Unpublished
  <2> QED
    BY <1>5, <2>1, <2>2, Zenon DEF Write
<1>6. CASE Fetching
  <2>1. CASE Change(Put(s, tx.new)) /\ Goto("stat local")
    <3>1. tx' \in Transfers /\ SameTransfer /\ tx'.pc = "stat local"
      BY <1>1, <2>1, Goes
    <3>2. file' = Put(s, tx.new) /\ destroyed' \subseteq Version
      BY <1>1, <2>1, Accounted, Zenon
    <3>3. tx.pc = "fetching" /\ link' = link
      BY <1>6 DEF Fetching
    <3> QED
      BY <1>0, <1>3, <1>4, <3>1, <3>2, <3>3, StagedFits
  <2>2. CASE Keep /\ Ends("cleanup", "error")
    <3>1. tx' \in Transfers /\ SameTransfer /\ tx'.pc = "cleanup"
      BY <1>1, <2>2, Ending
    <3>2. Still /\ link' = link /\ tx.pc = "fetching"
      BY <1>0, <1>6, <2>2 DEF Still, Keep, Fetching
    <3> QED
      BY <1>0, <1>1, <3>1, <3>2, StillFits DEF Ways
  <2> QED
    BY <1>6, <2>1, <2>2, Zenon DEF Fetching
<1>7. CASE Cleanup
  <2>1. tx' \in Transfers /\ SameTransfer /\ tx'.pc = "done" /\ tx'.result = tx.result
        /\ tx.pc = "cleanup"
    BY <1>1, <1>7, Goes DEF Cleanup
  <2>2. CASE (Answered \/ Unanswered) /\ Change(Put(s, NoFile))
    <3>1. file' = Put(s, NoFile) /\ destroyed' \subseteq Version
      BY <1>1, <2>2, Accounted, Zenon
    <3>2. link' \in {link, "down"}
      BY <2>2, Replies
    <3> QED
      BY <1>0, <1>3, <1>4, <2>1, <3>1, <3>2, StagedFits
  <2>3. CASE Refused /\ Keep
    <3>1. Still /\ link' \in {link, "down"}
      BY <1>0, <2>3, Replies DEF Still, Keep
    <3> QED
      BY <1>0, <1>1, <2>1, <3>1, StillFits DEF Ways
  <2> QED
    BY <1>7, <2>2, <2>3, Zenon DEF Cleanup
<1>8. CASE CopyThrough
  <2>0. tx.pc = "fetched" /\ link' = link
    BY <1>8 DEF CopyThrough
  <2>1. CASE Change(Put(Target, Partial)) /\ UNCHANGED tx
    <3>1. file' = Put(Target, Partial) /\ destroyed' \subseteq Version
      BY <1>1, <2>1, Accounted, Zenon
    <3>2. /\ file' \in [Names -> Content]
          /\ \A n \in Names : n # Target => file'[n] = file[n]
      <4>1. /\ Put(Target, Partial) \in [Names -> Content]
            /\ \A n \in Names : n # Target => Put(Target, Partial)[n] = file[n]
        BY <1>1, <1>2, <1>3, Written
      <4> QED
        BY <3>1, <4>1
    <3>3. file'[Dest] # Partial
      <4>1. Dest # Target
        BY DEF Dest, Target
      <4> QED
        BY <3>2, <4>1, NamesKnown DEF TransferInv, StagingFits
    <3>4. SameTransfer /\ Ways /\ tx' \in Transfers
      BY <1>1, <2>1 DEF SameTransfer, Ways
    <3>5. edits' \in 1..MaxForeign
      BY <1>0 DEF TypeOK
    <3> QED
      BY <1>0, <1>1, <2>0, <3>1, <3>2, <3>3, <3>4, <3>5, OutsideFits
  <2>2. CASE /\ Change([file EXCEPT ![Target] = tx.new, ![s] = NoFile])
             /\ Ends("done", "ok")
    <3> DEFINE f == [file EXCEPT ![Target] = tx.new, ![s] = NoFile]
    <3>1. /\ f \in [Names -> Content] /\ f[s] = NoFile
          /\ \A n \in Names : n \notin {Target, s} => f[n] = file[n]
      BY <1>1, <1>2, <1>3
    <3>2. file' = f /\ destroyed' \subseteq Version
      BY <1>1, <2>2, Accounted, Zenon
    <3>3. tx' \in Transfers /\ SameTransfer /\ tx'.pc = "done"
      BY <1>1, <2>2, Ending
    <3> HIDE DEF f
    <3> QED
      BY <1>0, <1>3, <2>0, <3>1, <3>2, <3>3, StagedFits
  <2>3. CASE Keep /\ Ends("done", "error")
    <3>1. tx' \in Transfers /\ SameTransfer /\ tx'.pc = "done"
      BY <1>1, <2>3, Ending
    <3>2. Still
      BY <1>0, <2>3 DEF Still, Keep
    <3> QED
      BY <1>0, <1>1, <2>0, <3>1, <3>2, StillFits DEF Ways
  <2> QED
    BY <1>8, <2>1, <2>2, <2>3, Zenon DEF CopyThrough
<1> QED
  BY <1>5, <1>6, <1>7, <1>8

-----------------------------------------------------------------------------
(* Publication and rollback.                                                *)

\* The names of a transfer that publishes.
LEMMA PublishNames ==
    ASSUME TypeOK, TransferInv, tx.pc \in {"create", "aside"} \union SetAsideSteps
    PROVE  /\ tx.staging \in 1..MaxNonce /\ tx.backup \in 1..MaxNonce
           /\ tx.staging < nonce /\ tx.backup < nonce
           /\ Staging(tx.staging) \in Names \ {Dest, Target}
           /\ Backup(tx.backup) \in Names \ {Dest, Target}
           /\ Staging(tx.staging) # Backup(tx.backup)
           /\ Staging(tx.staging)[2] = tx.staging
           /\ Backup(tx.backup)[2] = tx.backup
           /\ \A k \in 1..MaxNonce :
                /\ Staging(k) \in Names \ {Dest, Target} /\ Backup(k) \in Names \ {Dest, Target}
                /\ Staging(k) # Backup(tx.backup) /\ Backup(k) # Staging(tx.staging)
                /\ Staging(k) = Staging(tx.staging) => k = tx.staging
                /\ Backup(k) = Backup(tx.backup) => k = tx.backup
                /\ k >= nonce => k # tx.backup
<1>1. tx.staging # 0 /\ tx.backup # 0
  BY DEF TransferInv, NamesFit, Unpublished, SetAsideSteps
<1>2. tx.staging \in 1..MaxNonce /\ tx.backup \in 1..MaxNonce
  BY <1>1, Numbers, Zenon
<1>3. tx.staging < nonce /\ tx.backup < nonce
  BY DEF TransferInv, NamesFit
<1>4. ASSUME NEW k \in 1..MaxNonce
      PROVE  /\ Staging(k) \in Names \ {Dest, Target} /\ Backup(k) \in Names \ {Dest, Target}
             /\ Staging(k) # Backup(tx.backup) /\ Backup(k) # Staging(tx.staging)
             /\ Staging(k) = Staging(tx.staging) => k = tx.staging
             /\ Backup(k) = Backup(tx.backup) => k = tx.backup
             /\ Staging(k)[2] = k /\ Backup(k)[2] = k
  <2>1. /\ k \in 0..MaxNonce + 1 /\ tx.staging \in 0..MaxNonce + 1
        /\ tx.backup \in 0..MaxNonce + 1
    BY Numbers, Zenon
  <2>2. Staging(k) \in Names /\ Backup(k) \in Names
    BY NamesKnown, Zenon
  <2> QED
    BY <2>1, <2>2, NamesDiffer
<1>5. \A k \in 1..MaxNonce : k >= nonce => k # tx.backup
  BY <1>3, Numbers
<1> QED
  BY <1>2, <1>3, <1>4, <1>5

\* The staging file becomes the destination.
LEMMA PublishedFits ==
    ASSUME TypeOK, TransferInv, tx' \in Transfers, SameTransfer,
           \/ /\ tx.pc = "create"
              /\ \/ tx'.pc \in {"reload", "cleanup"}
                 \/ tx'.pc = "done" /\ tx'.result = "ok"
           \/ tx.pc = "publish" /\ tx'.pc \in {"restore stat", "restore"}
           \/ tx.pc = "publish" /\ tx'.pc = "drop backup" /\ owed' = Release,
           owed' \subseteq owed,
           link' \in {link, "down"}, destroyed' \subseteq Version,
           UNCHANGED <<nonce, doc, started, edits, past>>,
           file' = Renamed(Staging(tx.staging), Dest)
    PROVE  TypeOK' /\ TransferInv'
<1> USE DEF TransferInv
<1> DEFINE s == tx.staging
           b == tx.backup
<1>0. /\ nonce' = nonce /\ past' = past
      /\ tx'.mode = tx.mode /\ tx'.expected = tx.expected
      /\ tx'.staging = s /\ tx'.backup = b
  BY DEF SameTransfer
<1>1. tx.pc \in {"create", "aside"} \union SetAsideSteps
  BY DEF SetAsideSteps
<1>2. /\ s \in 1..MaxNonce /\ b \in 1..MaxNonce
      /\ Staging(s) \in Names \ {Dest, Target} /\ Backup(b) \in Names \ {Dest, Target}
      /\ \A k \in 1..MaxNonce :
           /\ Staging(k) \in Names \ {Dest, Target} /\ Backup(k) \in Names \ {Dest, Target}
           /\ Backup(k) # Staging(s)
           /\ Staging(k) = Staging(s) => k = s
  BY <1>1, PublishNames, Zenon
<1>3. /\ file' \in [Names -> Content]
      /\ file'[Staging(s)] = NoFile /\ file'[Dest] = file[Staging(s)]
      /\ \A m \in Names : m \notin {Staging(s), Dest} => file'[m] = file[m]
  <2>1. file \in [Names -> Content] /\ Dest \in Names /\ file' = Renamed(Staging(s), Dest)
    BY NamesKnown DEF TypeOK
  <2>2. Staging(s) \in Names /\ Staging(s) # Dest
    BY <1>2
  <2> HIDE DEF s
  <2>3. /\ Renamed(Staging(s), Dest) \in [Names -> Content]
        /\ Renamed(Staging(s), Dest)[Staging(s)] = NoFile
        /\ Renamed(Staging(s), Dest)[Dest] = file[Staging(s)]
        /\ \A m \in Names : m \notin {Staging(s), Dest} =>
             Renamed(Staging(s), Dest)[m] = file[m]
    BY <2>1, <2>2, Moved
  <2> QED
    BY <2>1, <2>3, Zenon
<1>4. TypeOK'
  BY <1>3 DEF TypeOK
<1>5. NamesFit'
  BY <1>0 DEF NamesFit, Unnamed, LocalCopy, Unpublished, SetAsideSteps
<1>6. \A k \in 1..MaxNonce : /\ file'[Staging(k)] = file[Staging(k)] \/ file'[Staging(k)] = NoFile
                             /\ file'[Backup(k)] = file[Backup(k)]
  BY <1>2, <1>3
<1>7. StagingFits'
  <2>1. file'[Dest] # Partial
    BY <1>3 DEF StagingFits
  <2> QED
    BY <1>6, <2>1, Contents DEF StagingFits
<1>8. file'[Backup(b)] = file[Backup(b)]
  BY <1>2, <1>6
<1>9. BackupFits'
  <2>1. \A k \in 1..MaxNonce : k >= nonce /\ Backup(k) \notin past
          => file'[Backup(k)] = NoFile
    BY <1>6 DEF BackupFits
  <2> QED
    BY <1>0, <1>8, <2>1 DEF BackupFits, Unpublished
<1>10. CheckedFits'
  BY <1>0, <1>8 DEF CheckedFits
<1>11. OwedFits'
  <2> SUFFICES ASSUME past = {}, NEW o \in owed'
               PROVE  /\ file'[o[1]] = o[2] /\ o[1][2] < nonce
                      /\ o[1] # Staging(s)
                      /\ o[1] = Backup(b) => tx'.pc \in {"restore stat", "restore"}
    BY <1>0 DEF OwedFits, SetAsideSteps
  <2>1. /\ file[o[1]] = o[2] /\ o[1][2] < nonce /\ o[1] # Staging(s)
        /\ o[1] = Backup(b) => tx.pc = "publish"
    BY DEF OwedFits, SetAsideSteps
  <2>2. o[1] \in Names \ {Dest, Target}
    BY DEF TypeOK
  <2> QED
    BY <1>3, <2>1, <2>2 DEF Release
<1> QED
  BY <1>4, <1>5, <1>7, <1>9, <1>10, <1>11

\* The destination is set aside or put back, the backup removed or announced.
LEMMA BackupStepFits ==
    ASSUME TypeOK, TransferInv, tx' \in Transfers, SameTransfer,
           \/ tx.pc = "aside" /\ tx'.pc \in {"verify backup", "publish", "cleanup"}
           \/ tx.pc \in {"restore stat", "restore", "drop backup"}
              /\ tx'.pc \in {"cleanup", "reload", "done"},
           tx'.pc = "publish" => tx.mode # "save",
           \/ tx'.pc \notin {"cleanup", "done"} \/ link' = "down"
           \/ tx'.result \notin Failed
           \/ file'[Backup(tx.backup)] = NoFile \/ Backup(tx.backup) \in past,
           link' \in {link, "down"}, destroyed' \subseteq Version,
           UNCHANGED <<nonce, doc, started, edits, past>>,
           file' \in [Names -> Content],
           file'[Dest] # Partial, file'[Backup(tx.backup)] # Partial,
           \A n \in Names : n \notin {Dest, Backup(tx.backup)} => file'[n] = file[n],
           \A o \in owed' :
             \/ o \in owed /\ (past = {} => o[1] # Backup(tx.backup))
             \/ /\ o = <<Backup(tx.backup), file'[Backup(tx.backup)]>>
                /\ o[2] \in Version
                /\ tx'.pc \in {"verify backup", "publish", "cleanup", "done"}
             \/ /\ o = <<Staging(tx.staging), file'[Staging(tx.staging)]>>
                /\ o[2] \in Version /\ tx'.pc = "done"
    PROVE  TypeOK' /\ TransferInv'
<1> USE DEF TransferInv
<1> DEFINE s == tx.staging
           b == tx.backup
<1>0. /\ nonce' = nonce /\ past' = past
      /\ tx'.mode = tx.mode /\ tx'.expected = tx.expected
      /\ tx'.staging = s /\ tx'.backup = b
  BY DEF SameTransfer
<1>1. tx.pc \in {"create", "aside"} \union SetAsideSteps
  BY DEF SetAsideSteps
<1>2. /\ s \in 1..MaxNonce /\ b \in 1..MaxNonce /\ s < nonce /\ b < nonce
      /\ Staging(s) \in Names \ {Dest, Target} /\ Backup(b) \in Names \ {Dest, Target}
      /\ Staging(s)[2] = s /\ Backup(b)[2] = b /\ Staging(s) # Backup(b)
      /\ \A k \in 1..MaxNonce :
           /\ Staging(k) \in Names \ {Dest, Target} /\ Backup(k) \in Names \ {Dest, Target}
           /\ Staging(k) # Backup(b)
           /\ Backup(k) = Backup(b) => k = b
           /\ k >= nonce => k # b
  BY <1>1, PublishNames, Zenon
<1>3. \A k \in 1..MaxNonce : /\ file'[Staging(k)] = file[Staging(k)]
                             /\ k = b \/ file'[Backup(k)] = file[Backup(k)]
  BY <1>2
<1>4. TypeOK'
  <2>1. owed' \subseteq (Names \ {Dest, Target}) \X Version
    <3> SUFFICES ASSUME NEW o \in owed' PROVE o \in (Names \ {Dest, Target}) \X Version
      OBVIOUS
    <3>0. owed \subseteq (Names \ {Dest, Target}) \X Version
      BY DEF TypeOK
    <3>1. CASE o \in owed
      BY <3>0, <3>1, Zenon
    <3>2. ASSUME NEW n \in Names \ {Dest, Target}, o = <<n, file'[n]>>, o[2] \in Version
          PROVE  o \in (Names \ {Dest, Target}) \X Version
      BY <3>2, Paired, Zenon
    <3>3. \/ o \in owed
          \/ o = <<Backup(b), file'[Backup(b)]>> /\ o[2] \in Version
          \/ o = <<Staging(s), file'[Staging(s)]>> /\ o[2] \in Version
      OBVIOUS
    <3> QED
      BY <1>2, <3>1, <3>2, <3>3, Zenon
  <2> QED
    BY <2>1 DEF TypeOK
<1>5. NamesFit'
  BY <1>0 DEF NamesFit, Unnamed, LocalCopy, Unpublished, SetAsideSteps
<1>6. StagingFits'
  <2>1. \A k \in 1..MaxNonce :
          file'[Backup(k)] # Partial /\ file'[Staging(k)] \notin Foreign
    BY <1>3 DEF StagingFits
  <2>2. tx'.pc \in {"verify backup", "publish"} => file'[Staging(s)] # Partial
    BY <1>2, <1>3 DEF StagingFits
  <2> QED
    BY <1>0, <2>1, <2>2 DEF StagingFits
<1>7. BackupFits'
  <2>1. \A k \in 1..MaxNonce : k >= nonce /\ Backup(k) \notin past
          => file'[Backup(k)] = NoFile
    BY <1>2, <1>3 DEF BackupFits
  <2> QED
    BY <1>0, <2>1 DEF BackupFits, Unpublished
<1>8. CheckedFits'
  BY <1>0 DEF CheckedFits
<1>9. OwedFits'
  <2> SUFFICES ASSUME past = {}, NEW o \in owed'
               PROVE  /\ file'[o[1]] = o[2] /\ o[1][2] < nonce
                      /\ o[1] = Staging(s) => tx'.pc = "done"
                      /\ o[1] = Backup(b) =>
                           tx'.pc \in {"verify backup", "publish", "cleanup", "done"}
    BY <1>0 DEF OwedFits, SetAsideSteps
  <2>1. CASE o \in owed /\ (past = {} => o[1] # Backup(b))
    <3>1. file[o[1]] = o[2] /\ o[1][2] < nonce /\ o[1] # Staging(s)
      BY <2>1 DEF OwedFits
    <3>2. o[1] \in Names \ {Dest, Target}
      BY <2>1 DEF TypeOK
    <3> QED
      BY <2>1, <3>1, <3>2
  <2>2. CASE /\ o = <<Backup(b), file'[Backup(b)]>>
             /\ tx'.pc \in {"verify backup", "publish", "cleanup", "done"}
    <3>1. o[1] = Backup(b) /\ o[2] = file'[Backup(b)]
      BY <2>2
    <3> QED
      BY <1>2, <2>2, <3>1
  <2>3. CASE o = <<Staging(s), file'[Staging(s)]>> /\ tx'.pc = "done"
    <3>1. o[1] = Staging(s) /\ o[2] = file'[Staging(s)]
      BY <2>3
    <3> QED
      BY <1>2, <2>3, <3>1
  <2> QED
    BY <2>1, <2>2, <2>3
<1> QED
  BY <1>4, <1>5, <1>6, <1>7, <1>8, <1>9

\* A rename that answers ok, fails after it happened, or never happens.
LEMMA Renames ==
    ASSUME NEW STATE a, NEW STATE b, NEW ACTION ok, NEW ACTION bad,
           RenameStep(a, b, ok, bad)
    PROVE  /\ UNCHANGED <<nonce, doc, started, edits>> /\ link' \in {link, "down"}
           /\ \/ link' = link /\ Change(Renamed(a, b)) /\ ok
              \/ link' = "down" /\ Change(Renamed(a, b)) /\ bad
              \/ Keep /\ bad
           /\ file' # file => Renameable(a, b)
BY Replies, Zenon DEF RenameStep, Keep

\* The replacement is in place.
LEMMA Succeeding ==
    ASSUME tx \in Transfers, Succeeds
    PROVE  /\ tx' \in Transfers /\ SameTransfer
           /\ \/ tx'.pc = "reload"
              \/ tx'.pc = "done" /\ tx'.result = "ok"
<1>1. "reload" \in Steps /\ "done" \in Steps /\ "ok" \in Results
  BY DEF Steps, Results
<1>2. Goto("reload") \/ Ends("done", "ok")
  BY Zenon DEF Succeeds
<1>3. CASE Goto("reload")
  BY <1>1, <1>3, Goes
<1>4. CASE Ends("done", "ok")
  BY <1>1, <1>4, Ending
<1> QED
  BY <1>2, <1>3, <1>4

\* A file that did not exist is published.
LEMMA CreateFits ==
    ASSUME TypeOK, TransferInv, UNCHANGED past, Create
    PROVE  TypeOK' /\ TransferInv'
<1>0. tx \in Transfers /\ destroyed \subseteq Version /\ doc \in Document \union {NoDoc}
  BY DEF TypeOK
<1>1. /\ tx.pc = "create" /\ owed' = owed
      /\ UNCHANGED <<nonce, doc, started, edits>> /\ link' \in {link, "down"}
      /\ \/ Change(Renamed(Staging(tx.staging), Dest)) /\ Succeeds
         \/ Change(Renamed(Staging(tx.staging), Dest)) /\ Ends("cleanup", "error")
         \/ Keep /\ Ends("cleanup", "error")
  BY Renames, Zenon DEF Create
<1>2. {"reload", "done", "cleanup"} \subseteq Steps /\ {"ok", "error"} \subseteq Results
  BY DEF Steps, Results
<1>4. ASSUME Ends("cleanup", "error")
      PROVE  tx' \in Transfers /\ SameTransfer /\ tx'.pc = "cleanup"
  BY <1>0, <1>2, <1>4, Ending
<1>5. CASE /\ Change(Renamed(Staging(tx.staging), Dest))
           /\ Succeeds \/ Ends("cleanup", "error")
  <2>1. file' = Renamed(Staging(tx.staging), Dest) /\ destroyed' \subseteq Version
    BY <1>0, <1>5, Accounted, Zenon
  <2> QED
    BY <1>0, <1>1, <1>4, <1>5, <2>1, Succeeding, PublishedFits
<1>6. CASE Keep /\ Ends("cleanup", "error")
  <2>1. Still
    BY <1>1, <1>6 DEF Still, Keep
  <2> QED
    BY <1>0, <1>1, <1>4, <1>6, <2>1, StillFits DEF Ways, Unpublished
<1> QED
  BY <1>1, <1>5, <1>6, Zenon

\* The staging file replaces what was set aside.
LEMMA PublishFits ==
    ASSUME TypeOK, TransferInv, UNCHANGED past, Publish
    PROVE  TypeOK' /\ TransferInv'
<1>0. tx \in Transfers /\ destroyed \subseteq Version /\ doc \in Document \union {NoDoc}
  BY DEF TypeOK
<1>1. /\ tx.pc = "publish"
      /\ UNCHANGED <<nonce, doc, started, edits>> /\ link' \in {link, "down"}
      /\ \/ /\ Change(Renamed(Staging(tx.staging), Dest))
            /\ Goto("drop backup") /\ owed' = Release
         \/ /\ Change(Renamed(Staging(tx.staging), Dest))
            /\ Ends(RestorePc, "unpublished") /\ owed' = owed
         \/ Keep /\ Ends(RestorePc, "unpublished") /\ owed' = owed
  BY Renames, Zenon DEF Publish
<1>2. {"drop backup", "restore", "restore stat"} \subseteq Steps /\ "unpublished" \in Results
      /\ RestorePc \in {"restore", "restore stat"}
  BY DEF Steps, Results, RestorePc
<1>3. ASSUME Goto("drop backup")
      PROVE  tx' \in Transfers /\ SameTransfer /\ tx'.pc = "drop backup"
  BY <1>0, <1>2, <1>3, Goes
<1>4. ASSUME Ends(RestorePc, "unpublished")
      PROVE  tx' \in Transfers /\ SameTransfer /\ tx'.pc \in {"restore stat", "restore"}
  BY <1>0, <1>2, <1>4, Ending
<1>5. Release \subseteq owed
  BY DEF Release
<1>6. CASE /\ Change(Renamed(Staging(tx.staging), Dest))
           /\ \/ Goto("drop backup") /\ owed' = Release
              \/ Ends(RestorePc, "unpublished") /\ owed' = owed
  <2>1. file' = Renamed(Staging(tx.staging), Dest) /\ destroyed' \subseteq Version
    BY <1>0, <1>6, Accounted, Zenon
  <2> QED
    BY <1>1, <1>3, <1>4, <1>5, <1>6, <2>1, PublishedFits
<1>7. CASE Keep /\ Ends(RestorePc, "unpublished") /\ owed' = owed
  <2>1. Still
    BY <1>1, <1>7 DEF Still, Keep
  <2> QED
    BY <1>0, <1>1, <1>4, <1>7, <2>1, StillFits DEF Ways
<1> QED
  BY <1>1, <1>6, <1>7, Zenon

\* What is at some places, and what is no longer promised at the backup.
LEMMA HeldThere ==
    ASSUME NEW f, NEW names, NEW o \in Held(f, names)
    PROVE  \E n \in names : o = <<n, f[n]>> /\ o[2] \in Version
BY DEF Held

\* The renames between the destination and the backup.
LEMMA BackupMoves ==
    ASSUME TypeOK, TransferInv, tx.pc \in {"create", "aside"} \union SetAsideSteps
    PROVE  /\ LET f == Renamed(Dest, Backup(tx.backup))
              IN  /\ f \in [Names -> Content]
                  /\ f[Dest] # Partial /\ f[Backup(tx.backup)] # Partial
                  /\ \A n \in Names : n \notin {Dest, Backup(tx.backup)} => f[n] = file[n]
           /\ LET f == Renamed(Backup(tx.backup), Dest)
              IN  /\ f \in [Names -> Content]
                  /\ f[Dest] # Partial /\ f[Backup(tx.backup)] = NoFile
                  /\ \A n \in Names : n \notin {Dest, Backup(tx.backup)} => f[n] = file[n]
           /\ LET f == Put(Backup(tx.backup), NoFile)
              IN  /\ f \in [Names -> Content]
                  /\ f[Dest] # Partial /\ f[Backup(tx.backup)] = NoFile
                  /\ \A n \in Names : n \notin {Dest, Backup(tx.backup)} => f[n] = file[n]
           /\ file[Dest] # Partial /\ file[Backup(tx.backup)] # Partial
           /\ NoFile # Partial /\ file \in [Names -> Content]
<1> DEFINE b == Backup(tx.backup)
<1>1. b \in Names /\ b # Dest /\ Dest \in Names /\ tx.backup \in 1..MaxNonce
  BY PublishNames, NamesKnown
<1>2. file[Dest] # Partial /\ file[b] # Partial
  BY <1>1 DEF TransferInv, StagingFits
<1>3. file \in [Names -> Content] /\ NoFile \in Content /\ NoFile # Partial
  BY Contents DEF TypeOK
<1> HIDE DEF b
<1>4. /\ Renamed(Dest, b) \in [Names -> Content]
      /\ Renamed(Dest, b)[Dest] = NoFile /\ Renamed(Dest, b)[b] = file[Dest]
      /\ \A m \in Names : m \notin {Dest, b} => Renamed(Dest, b)[m] = file[m]
  BY <1>1, <1>3, Moved
<1>5. /\ Renamed(b, Dest) \in [Names -> Content]
      /\ Renamed(b, Dest)[b] = NoFile /\ Renamed(b, Dest)[Dest] = file[b]
      /\ \A m \in Names : m \notin {Dest, b} => Renamed(b, Dest)[m] = file[m]
  BY <1>1, <1>3, Moved
<1>6. /\ Put(b, NoFile) \in [Names -> Content] /\ Put(b, NoFile)[b] = NoFile
      /\ \A m \in Names : m # b => Put(b, NoFile)[m] = file[m]
  BY <1>1, <1>3, Written
<1> QED
  BY <1>1, <1>2, <1>3, <1>4, <1>5, <1>6 DEF b

\* The destination is set aside.
LEMMA AsideFits ==
    ASSUME TypeOK, TransferInv, UNCHANGED past, Aside
    PROVE  TypeOK' /\ TransferInv'
<1> DEFINE b == Backup(tx.backup)
           pc == IF tx.mode = "save" THEN "verify backup" ELSE "publish"
<1>0. tx \in Transfers /\ destroyed \subseteq Version /\ doc \in Document \union {NoDoc}
  BY DEF TypeOK
<1>1. /\ tx.pc = "aside" /\ SetAside
      /\ UNCHANGED <<nonce, doc, started, edits>> /\ link' \in {link, "down"}
      /\ \/ Change(Renamed(Dest, b)) /\ Goto(pc)
         \/ Change(Renamed(Dest, b)) /\ link' = "down" /\ Ends("cleanup", "error")
         \/ Keep /\ Ends("cleanup", "error")
  BY Renames, Zenon DEF Aside
<1>2. /\ pc \in {"verify backup", "publish"}
      /\ pc = "publish" => tx.mode # "save"
      /\ {"verify backup", "publish", "cleanup"} \subseteq Steps /\ "error" \in Results
  BY DEF Steps, Results
<1> HIDE DEF pc
<1>3. ASSUME Goto(pc)
      PROVE  tx' \in Transfers /\ SameTransfer /\ tx'.pc = pc
  BY <1>0, <1>2, <1>3, Goes
<1>4. ASSUME Ends("cleanup", "error")
      PROVE  tx' \in Transfers /\ SameTransfer /\ tx'.pc = "cleanup"
  BY <1>0, <1>2, <1>4, Ending
<1>5. \A o \in owed' : \/ o \in owed /\ (past = {} => o[1] # b)
                       \/ o = <<b, file'[b]>> /\ o[2] \in Version
  <2> TAKE o \in owed'
  <2>1. o \in owed \/ o \in Held(file', {b})
    BY <1>1 DEF SetAside
  <2>2. CASE o \in owed
    BY <1>1, <2>2 DEF TransferInv, OwedFits, SetAsideSteps
  <2>3. CASE o \in Held(file', {b})
    BY <2>3, HeldThere
  <2> QED
    BY <2>1, <2>2, <2>3
<1>6. tx.pc \in {"create", "aside"} \union SetAsideSteps
  BY <1>1
<1>7. CASE /\ Change(Renamed(Dest, b))
           /\ Goto(pc) \/ (link' = "down" /\ Ends("cleanup", "error"))
  <2>1. file' = Renamed(Dest, b) /\ destroyed' \subseteq Version
    BY <1>0, <1>7, Accounted, Zenon
  <2>2. /\ file' \in [Names -> Content] /\ file'[Dest] # Partial /\ file'[b] # Partial
        /\ \A n \in Names : n \notin {Dest, b} => file'[n] = file[n]
    BY <1>6, <2>1, BackupMoves, Zenon
  <2>3. tx' \in Transfers /\ SameTransfer
        /\ \/ tx'.pc \in {"verify backup", "publish"} /\ (tx'.pc = "publish" => tx.mode # "save")
           \/ tx'.pc = "cleanup" /\ link' = "down"
    BY <1>2, <1>3, <1>4, <1>7
  <2> QED
    BY <1>1, <1>5, <2>1, <2>2, <2>3, BackupStepFits
<1>8. CASE Keep /\ Ends("cleanup", "error")
  <2>1. file' = file /\ destroyed' = destroyed
    BY <1>8 DEF Keep
  <2>2. file'[b] = NoFile \/ b \in past
    <3>1. tx.backup # 0
      BY <1>1 DEF TransferInv, NamesFit, Unpublished
    <3> QED
      BY <1>1, <2>1, <3>1 DEF TransferInv, BackupFits, Unpublished
  <2>3. /\ file' \in [Names -> Content] /\ file'[Dest] # Partial /\ file'[b] # Partial
        /\ \A n \in Names : n \notin {Dest, b} => file'[n] = file[n]
    BY <1>6, <2>1, BackupMoves, Zenon
  <2>4. tx' \in Transfers /\ SameTransfer /\ tx'.pc = "cleanup" /\ destroyed' \subseteq Version
    BY <1>0, <1>4, <1>8, <2>1
  <2> QED
    BY <1>1, <1>5, <2>2, <2>3, <2>4, BackupStepFits
<1> QED
  BY <1>1, <1>7, <1>8, Zenon

\* Nothing the transfer releases or announces is promised at a place it left.
LEMMA Announced ==
    ASSUME NEW o \in owed', \/ owed' = Release
                            \/ owed' = Release \union Held(file', {Backup(tx.backup),
                                                                   Staging(tx.staging)})
    PROVE  \/ o \in owed /\ o[1] # Backup(tx.backup)
           \/ /\ owed' # Release
              /\ \/ o = <<Backup(tx.backup), file'[Backup(tx.backup)]>>
                 \/ o = <<Staging(tx.staging), file'[Staging(tx.staging)]>>
              /\ o[2] \in Version
<1>1. o \in Release => o \in owed /\ o[1] # Backup(tx.backup)
  BY DEF Release
<1>2. CASE o \in Release
  BY <1>1, <1>2
<1>3. CASE /\ o \notin Release
           /\ o \in Held(file', {Backup(tx.backup), Staging(tx.staging)})
  <2>1. \E n \in {Backup(tx.backup), Staging(tx.staging)} :
          o = <<n, file'[n]>> /\ o[2] \in Version
    BY <1>3, HeldThere
  <2> QED
    BY <1>3, <2>1
<1> QED
  BY <1>2, <1>3

\* The rollback looks at the destination, and puts the backup back.
LEMMA RollbackFits ==
    ASSUME TypeOK, TransferInv, UNCHANGED past, RestoreStat \/ Restore
    PROVE  TypeOK' /\ TransferInv'
<1> DEFINE b == Backup(tx.backup)
<1>0. tx \in Transfers /\ destroyed \subseteq Version /\ doc \in Document \union {NoDoc}
  BY DEF TypeOK
<1> DEFINE Announces == Announce("kept") \/ Announce("draft")
<1>1. /\ {"restore", "cleanup", "done"} \subseteq Steps /\ {"kept", "draft"} \subseteq Results
      /\ "kept" \notin Failed /\ "draft" \notin Failed
      /\ Unrestored \in {"kept", "draft"}
  BY DEF Steps, Results, Failed, Unrestored
<1>2. /\ tx.pc \in {"restore stat", "restore"}
      /\ UNCHANGED <<nonce, doc, started, edits>> /\ link' \in {link, "down"}
      /\ \/ tx.pc = "restore stat" /\ Keep /\ Goto("restore") /\ owed' = owed
         \/ Keep /\ Announces
         \/ Change(Renamed(b, Dest)) /\ Goto("cleanup") /\ owed' = Release
         \/ Change(Renamed(b, Dest)) /\ Announces
  <2>0. Announce(Unrestored) => Announces
    BY <1>1
  <2>1. CASE RestoreStat
    BY <2>0, <2>1, Replies, Zenon DEF RestoreStat
  <2>2. CASE Restore
    BY <2>0, <2>2, Replies, Zenon DEF Restore, RenameStep
  <2> QED
    BY <2>1, <2>2
<1>3. tx.pc \in {"create", "aside"} \union SetAsideSteps
  BY <1>2 DEF SetAsideSteps
<1>4. CASE tx.pc = "restore stat" /\ Keep /\ Goto("restore") /\ owed' = owed
  <2>1. tx' \in Transfers /\ SameTransfer /\ tx'.pc = "restore"
    BY <1>0, <1>1, <1>4, Goes
  <2>2. Still
    BY <1>2, <1>4 DEF Still, Keep
  <2> QED
    BY <1>0, <1>2, <1>4, <2>1, <2>2, StillFits DEF Ways
<1>5. CASE \/ Change(Renamed(b, Dest)) /\ Goto("cleanup") /\ owed' = Release
           \/ (Keep \/ Change(Renamed(b, Dest))) /\ Announces
  <2>1. /\ file' \in [Names -> Content] /\ file'[Dest] # Partial /\ file'[b] # Partial
        /\ \A n \in Names : n \notin {Dest, b} => file'[n] = file[n]
        /\ destroyed' \subseteq Version
    <3>1. CASE Keep
      BY <1>0, <1>3, <3>1, BackupMoves, Zenon DEF Keep
    <3>2. CASE Change(Renamed(b, Dest))
      <4>1. file' = Renamed(b, Dest) /\ destroyed' \subseteq Version
        BY <1>0, <3>2, Accounted, Zenon
      <4>2. NoFile # Partial
        BY Contents
      <4> QED
        BY <1>3, <4>1, <4>2, BackupMoves, Zenon
    <3> QED
      BY <1>5, <3>1, <3>2
  <2>2. \/ owed' = Release
        \/ owed' = Release \union Held(file', {Backup(tx.backup), Staging(tx.staging)})
    BY <1>5 DEF Announce
  <2>3. /\ tx' \in Transfers /\ SameTransfer
        /\ \/ tx'.pc = "cleanup" /\ owed' = Release /\ file'[b] = NoFile
           \/ tx'.pc = "done" /\ tx'.result \notin Failed
    <3>1. CASE Change(Renamed(b, Dest)) /\ Goto("cleanup") /\ owed' = Release
      <4>1. file' = Renamed(b, Dest)
        BY <1>0, <3>1, Accounted, Zenon
      <4>2. file'[b] = NoFile
        BY <1>3, <4>1, BackupMoves, Zenon
      <4> QED
        BY <1>0, <1>1, <3>1, <4>2, Goes
    <3>2. CASE Announces
      <4>1. Ends("done", "kept") \/ Ends("done", "draft")
        BY <3>2 DEF Announce
      <4> QED
        BY <1>0, <1>1, <4>1, Ending
    <3> QED
      BY <1>5, <3>1, <3>2
  <2>4. \A o \in owed' :
          \/ o \in owed /\ o[1] # b
          \/ /\ owed' # Release
             /\ \/ o = <<b, file'[b]>>
                \/ o = <<Staging(tx.staging), file'[Staging(tx.staging)]>>
             /\ o[2] \in Version
    BY <2>2, Announced, Zenon
  <2>5. owed' # Release => tx'.pc = "done"
    BY <2>3
  <2> QED
    BY <1>2, <2>1, <2>3, <2>4, <2>5, BackupStepFits
<1> QED
  BY <1>2, <1>4, <1>5, Zenon

\* The replaced file is removed.
LEMMA DropBackupFits ==
    ASSUME TypeOK, TransferInv, UNCHANGED past, DropBackup
    PROVE  TypeOK' /\ TransferInv'
<1> DEFINE b == Backup(tx.backup)
<1>0. tx \in Transfers /\ destroyed \subseteq Version /\ doc \in Document \union {NoDoc}
  BY DEF TypeOK
<1>1. /\ tx.pc = "drop backup" /\ Succeeds
      /\ UNCHANGED <<nonce, doc, started, edits, owed, past>> /\ link' \in {link, "down"}
      /\ Change(Put(b, NoFile)) \/ Keep
  BY Replies, Zenon DEF DropBackup
<1>2. /\ tx' \in Transfers /\ SameTransfer
      /\ \/ tx'.pc = "reload"
         \/ tx'.pc = "done" /\ tx'.result = "ok"
  BY <1>0, <1>1, Succeeding
<1>3. CASE Change(Put(b, NoFile))
  <2>1. file' = Put(b, NoFile) /\ destroyed' \subseteq Version
    BY <1>0, <1>3, Accounted, Zenon
  <2>2. tx.pc \in {"create", "aside"} \union SetAsideSteps /\ NoFile # Partial
    BY <1>1, Contents DEF SetAsideSteps
  <2>3. /\ file' \in [Names -> Content] /\ file'[Dest] # Partial /\ file'[b] # Partial
        /\ \A n \in Names : n \notin {Dest, b} => file'[n] = file[n]
    BY <2>1, <2>2, BackupMoves, Zenon
  <2>4. \A o \in owed' : o \in owed /\ (past = {} => o[1] # b)
    BY <1>1 DEF TransferInv, OwedFits, SetAsideSteps
  <2> QED
    BY <1>1, <1>2, <2>1, <2>3, <2>4, BackupStepFits DEF Failed
<1>4. CASE Keep
  <2>1. Still
    BY <1>1, <1>4 DEF Still, Keep
  <2> QED
    BY <1>0, <1>1, <1>2, <2>1, StillFits DEF Ways
<1> QED
  BY <1>1, <1>3, <1>4

-----------------------------------------------------------------------------
(* The specification.                                                       *)

LEMMA InitFits == Init => TypeOK /\ TransferInv
<1> SUFFICES ASSUME Init PROVE TypeOK /\ TransferInv
  OBVIOUS
<1>0. /\ nonce = 1 /\ link = "up" /\ doc = NoDoc /\ tx = Idle /\ started = 0 /\ edits = 1
      /\ destroyed = {} /\ owed = {} /\ past = {}
  BY DEF Init
<1>1. PICK c \in {NoFile, Dir, Symlink, MaxOurs + 1} :
        file = [n \in Names |-> CASE n = Dest -> c
                                  [] n = Target /\ c = Symlink -> MaxOurs + 1
                                  [] OTHER -> NoFile]
  BY DEF Init
<1>2. /\ c \in Content /\ c # Partial /\ NoFile \in Content /\ NoFile # Partial
      /\ MaxOurs + 1 \in Content /\ NoFile \notin Foreign
  <2>1. Dir \in Content /\ Symlink \in Content /\ Dir # Partial /\ Symlink # Partial
    BY DEF Content, Dir, Symlink, Partial
  <2> QED
    BY <1>1, <2>1, Contents
<1>3. file \in [Names -> Content]
  BY <1>1, <1>2, Zenon
<1>4. /\ file[Dest] # Partial
      /\ \A n \in Names \ {Dest, Target} : file[n] = NoFile
  <2>1. file[Dest] = c
    <3>1. Dest # Target
      BY DEF Dest, Target
    <3> QED
      BY <1>1, <3>1, NamesKnown, Zenon
  <2>2. ASSUME NEW n \in Names \ {Dest, Target} PROVE file[n] = NoFile
    <3>1. n \in Names /\ n # Dest /\ n # Target
      OBVIOUS
    <3> QED
      BY <1>1, <3>1, Zenon
  <2> QED
    BY <1>2, <2>1, <2>2
<1>5. \A k \in 1..MaxNonce : file[Staging(k)] = NoFile /\ file[Backup(k)] = NoFile
  <2> TAKE k \in 1..MaxNonce
  <2>1. Staging(k) \in Names \ {Dest, Target} /\ Backup(k) \in Names \ {Dest, Target}
    BY NamesKnown DEF Staging, Backup, Dest, Target
  <2> QED
    BY <1>4, <2>1
<1>6. TypeOK
  <2>1. 1 \in 1..MaxNonce + 1 /\ 0 \in 0..MaxTx /\ 1 \in 1..MaxForeign
    BY TransactionConstants
  <2> QED
    BY <1>0, <1>3, <2>1, IdleTransfer DEF TypeOK
<1>7. tx.pc = "idle" /\ tx.staging = 0 /\ tx.backup = 0
  BY <1>0, IdleTransfer
<1>8. NamesFit
  <2>1. tx.staging < nonce /\ tx.backup < nonce
    BY <1>0, <1>7
  <2> QED
    BY <1>7, <2>1 DEF NamesFit, Unnamed, LocalCopy, Unpublished, SetAsideSteps
<1>9. StagingFits /\ BackupFits /\ CheckedFits /\ OwedFits
  BY <1>0, <1>2, <1>4, <1>5, <1>7 DEF StagingFits, BackupFits, CheckedFits, OwedFits
<1> QED
  BY <1>6, <1>8, <1>9 DEF TransferInv

LEMMA NextFits ==
    ASSUME TypeOK, TransferInv, [Next]_vars
    PROVE  TypeOK' /\ TransferInv'
<1>1. CASE UNCHANGED vars
  <2>1. Still /\ tx' = tx /\ link' = link /\ doc' = doc
    BY <1>1 DEF vars, Still
  <2>2. SameTransfer /\ Ways /\ tx' \in Transfers /\ doc' \in Document \union {NoDoc}
    BY <2>1 DEF SameTransfer, Ways, TypeOK
  <2> QED
    BY <2>1, <2>2, StillFits
<1>2. CASE Restart
  BY <1>2, RestartFits
<1>3. CASE UNCHANGED past /\ (Transfer \/ Edit \/ Remove)
  <2>1. CASE Transfer
    BY <1>3, <2>1, LoadFits, ReadFits, BoundaryFits, InPlaceFits, StageFits, FetchFits,
       StatLocalFits, StagingFileFits, CreateFits, AsideFits, PublishFits, RollbackFits,
       DropBackupFits, Zenon
    DEF Transfer
  <2>2. CASE Edit \/ Remove
    BY <1>3, <2>2, OthersFit
  <2> QED
    BY <1>3, <2>1, <2>2
<1> QED
  BY <1>1, <1>2, <1>3 DEF Next

\* The counters, the open document, the transfer in progress and the history
\* stay within their types, and the inductive invariant holds: which names are
\* in use where a transfer is, and what they hold.
THEOREM Invariance == Spec => [](TypeOK /\ TransferInv)
<1>1. Init => TypeOK /\ TransferInv
  BY InitFits
<1>2. (TypeOK /\ TransferInv) /\ [Next]_vars => (TypeOK /\ TransferInv)'
  BY NextFits
<1> QED
  BY <1>1, <1>2, PTL DEF Spec

\* The destination itself is never half written: what publish renames onto it
\* was written to the end, and a backup put back was never a staging file.
THEOREM NeverHalfWritten == Spec => []NoHalfFile
<1>1. TypeOK /\ TransferInv => NoHalfFile
  BY DEF TransferInv, StagingFits, NoHalfFile
<1> QED
  BY <1>1, Invariance, PTL

\* A transfer that ended with an error naming no file left nothing at its backup
\* name (rollback in upload_file_checked and publish_local_file), on a session
\* that is still up.  The ending that names only the staging file ("draft") is
\* not among them: there the previous file does stay at the backup name.
THEOREM RollbackLeavesNothing == Spec => []RolledBack
<1>1. TypeOK /\ TransferInv => RolledBack
  BY DEF TransferInv, BackupFits, RolledBack
<1> QED
  BY <1>1, Invariance, PTL

\* A file set aside, or announced as kept, is where it was put for as long as
\* the program runs, however many transfers and edits follow.
THEOREM PromisesKept == Spec => []OwedKept
<1>1. TypeOK /\ TransferInv => OwedKept
  BY DEF TransferInv, OwedFits, OwedKept
<1> QED
  BY <1>1, Invariance, PTL

-----------------------------------------------------------------------------
(* What a save may remove.                                                  *)

\* The version a change removes was at the place it writes.
LEMMA Removed ==
    ASSUME file \in [Names -> Content], NEW f, f \in [Names -> Content], Change(f),
           NEW v \in Foreign, v \in destroyed', v \notin destroyed
    PROVE  \E n \in Names : file[n] = v /\ \A m \in Names : f[m] # v
<1>1. v \in Version /\ v \in Range(file)
  BY DEF Change, Present, Version
<1>2. v \notin Range(f)
  BY <1>1 DEF Change, Present
<1>3. PICK n \in Names : file[n] = v
  BY <1>1 DEF Range
<1>4. \A m \in Names : f[m] # v
  BY <1>2 DEF Range
<1> QED
  BY <1>3, <1>4

LEMMA WriteRemoves ==
    ASSUME file \in [Names -> Content], NEW n \in Names, NEW c \in Content,
           Change(Put(n, c)), NEW v \in Foreign, v \in destroyed', v \notin destroyed
    PROVE  v = file[n]
<1>1. /\ Put(n, c) \in [Names -> Content]
      /\ \A m \in Names : m # n => Put(n, c)[m] = file[m]
  BY Written
<1>2. \E k \in Names : file[k] = v /\ \A m \in Names : Put(n, c)[m] # v
  BY <1>1, Removed, Zenon
<1> QED
  BY <1>1, <1>2

\* A rename that does not replace its target removes nothing.
LEMMA RenameRemoves ==
    ASSUME file \in [Names -> Content], NEW a \in Names, NEW b \in Names, a # b,
           ~Exists(b), Change(Renamed(a, b)), NEW v \in Foreign, v \in destroyed'
    PROVE  v \in destroyed
<1> SUFFICES ASSUME v \notin destroyed PROVE FALSE
  OBVIOUS
<1>1. /\ Renamed(a, b) \in [Names -> Content] /\ Renamed(a, b)[b] = file[a]
      /\ \A m \in Names : m \notin {a, b} => Renamed(a, b)[m] = file[m]
  BY Moved
<1>2. PICK k \in Names : file[k] = v /\ \A m \in Names : Renamed(a, b)[m] # v
  BY <1>1, Removed, Zenon
<1>3. v # NoFile
  BY Contents
<1>4. k \notin {a, b}
  BY <1>1, <1>2, <1>3 DEF Exists
<1> QED
  BY <1>1, <1>2, <1>4

LEMMA SaveStep ==
    ASSUME TypeOK, TransferInv, [Next]_vars, tx.mode = "save",
           NEW v \in Foreign, v \in destroyed', v \notin destroyed
    PROVE  v = tx.expected.bytes
<1> USE DEF TransferInv
<1>0. file \in [Names -> Content] /\ Partial \in Content /\ NoFile \in Content
      /\ tx.new \in Content
  <2>1. tx.new \in Ours
    BY DEF TypeOK, Transfers
  <2> QED
    BY <2>1, Contents DEF TypeOK
<1>1. destroyed' # destroyed
  OBVIOUS
<1>2. tx.pc \notin {"in place", "fetch", "fetching", "fetched"}
  BY DEF NamesFit, LocalCopy
<1>3. \/ Stage \/ Write \/ Cleanup \/ Create \/ Aside \/ Publish \/ Restore \/ DropBackup
  <2>1. Next
    BY <1>1 DEF vars
  <2>2. ~Restart /\ ~Edit /\ ~Remove
    BY <1>1 DEF Restart, Edit, Remove
  <2>3. ~InPlace /\ ~Fetch /\ ~Fetching /\ ~CopyThrough
    BY <1>2 DEF InPlace, Fetch, Fetching, CopyThrough
  <2>4. ~Load /\ ~Cancel /\ ~Finish /\ ~BeginPublish
    BY <1>1 DEF Load, Cancel, Finish, BeginPublish
  <2>5. ~Same /\ ~Verify /\ ~Stat /\ ~Recheck /\ ~VerifyBackup
    BY <1>1 DEF Same, Verify, Stat, Recheck, VerifyBackup, ReadStep, Keep
  <2>6. ~RestoreStat /\ ~Reload /\ ~StatLocal
    BY <1>1 DEF RestoreStat, Reload, StatLocal, Keep
  <2>7. \A w \in Ours : ~Save(w) /\ ~Upload(w) /\ ~Download(w)
    BY <1>1 DEF Save, Upload, Download, Begin
  <2> QED
    BY <2>1, <2>2, <2>3, <2>4, <2>5, <2>6, <2>7, Zenon DEF Next, Transfer
<1>4. ASSUME NEW k \in 1..MaxNonce, NEW c \in Content, Change(Put(Staging(k), c))
      PROVE  FALSE
  <2>1. Staging(k) \in Names /\ file[Staging(k)] \notin Foreign
    BY NamesKnown DEF StagingFits
  <2>2. v = file[Staging(k)]
    BY <1>0, <1>4, <2>1, WriteRemoves, Zenon
  <2> QED
    BY <2>1, <2>2
<1>5. CASE Stage
  <2>1. nonce < MaxNonce
    BY <1>5 DEF Stage, NamesFit, Unnamed
  <2>2. nonce \in 1..MaxNonce
    BY <2>1, Numbers, Zenon
  <2>3. Change(Put(Staging(nonce), Partial))
    BY <1>1, <1>5, Zenon DEF Stage, Keep
  <2> QED
    BY <1>0, <1>4, <2>2, <2>3, Zenon
<1>6. CASE Write \/ Cleanup
  <2>1. tx.staging # 0
    BY <1>6 DEF Write, Cleanup, NamesFit, Unpublished
  <2>2. tx.staging \in 1..MaxNonce
    BY <2>1, Numbers, Zenon
  <2>3. \/ Change(Put(Staging(tx.staging), tx.new))
        \/ Change(Put(Staging(tx.staging), NoFile))
    BY <1>1, <1>6, Zenon DEF Write, Cleanup, Keep
  <2> QED
    BY <1>0, <1>4, <2>2, <2>3, Zenon
<1>7. CASE Create \/ Aside \/ Publish \/ Restore
  <2>1. tx.pc \in {"create", "aside"} \union SetAsideSteps
    BY <1>7 DEF Create, Aside, Publish, Restore, SetAsideSteps
  <2>2. /\ Staging(tx.staging) \in Names \ {Dest, Target}
        /\ Backup(tx.backup) \in Names \ {Dest, Target} /\ Dest \in Names
    BY <2>1, PublishNames, NamesKnown, Zenon
  <2>3. PICK a \in Names, b \in Names :
          a # b /\ Renameable(a, b) /\ Change(Renamed(a, b))
    <3>1. \/ /\ Renameable(Staging(tx.staging), Dest)
             /\ Change(Renamed(Staging(tx.staging), Dest))
          \/ /\ Renameable(Dest, Backup(tx.backup))
             /\ Change(Renamed(Dest, Backup(tx.backup)))
          \/ /\ Renameable(Backup(tx.backup), Dest)
             /\ Change(Renamed(Backup(tx.backup), Dest))
      BY <1>1, <1>7, Zenon DEF Create, Aside, Publish, Restore, RenameStep, Keep
    <3> QED
      BY <2>2, <3>1
  <2>4. ~Exists(b)
    BY <2>3 DEF Renameable
  <2> QED
    BY <1>0, <2>3, <2>4, RenameRemoves
<1>8. CASE DropBackup
  <2>1. tx.pc = "drop backup" /\ Change(Put(Backup(tx.backup), NoFile))
    BY <1>1, <1>8, Zenon DEF DropBackup, Keep
  <2>2. Backup(tx.backup) \in Names
    BY <2>1, PublishNames DEF SetAsideSteps
  <2>3. file[Backup(tx.backup)] = tx.expected.bytes
    BY <2>1 DEF CheckedFits
  <2> QED
    BY <1>0, <2>1, <2>2, <2>3, WriteRemoves, Zenon
<1> QED
  BY <1>3, <1>5, <1>6, <1>7, <1>8

\* Saving a document removes the last copy of no version written by others,
\* except the one the document was loaded from: the renames of
\* upload_file_checked replace nothing, staging files hold what was sent, and
\* the backup that is dropped was compared with the document.
THEOREM SavesKeepEdits == Spec => SaveKeepsEdits
<1>1. TypeOK /\ TransferInv /\ [Next]_vars
        => [tx.mode = "save" =>
              (destroyed' \ destroyed) \intersect Foreign \subseteq {tx.expected.bytes}]_vars
  BY SaveStep
<1> QED
  BY <1>1, Invariance, PTL DEF Spec, SaveKeepsEdits
=============================================================================
