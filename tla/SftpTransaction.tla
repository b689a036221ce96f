-------------------------- MODULE SftpTransaction --------------------------
(***************************************************************************)
(* How a transferred file becomes visible (nebula_app, ssh_sftp/           *)
(* transaction.rs, document.rs and download_file_atomic): staging, backup, *)
(* publication and rollback around one destination, while somebody else    *)
(* edits the same file and any call may fail.                              *)
(*                                                                         *)
(* A content is a number: Ours are the versions this program sends,        *)
(* Foreign the ones written by others.  Size, times, permissions and bytes *)
(* of a version are that number, so equal numbers are what both            *)
(* metadata_matches and the byte comparison accept.  The same operators    *)
(* serve the remote directory (save, upload) and the local one (download); *)
(* they differ in what rename does to an existing target.                  *)
(***************************************************************************)
EXTENDS Integers, FiniteSets, Functions

CONSTANTS
    MaxOurs,      \* versions this program may send
    MaxForeign,   \* bound: edits by others
    MaxNonce,     \* bound: TRANSFER_NONCE within one run of the program
    MaxTx,        \* bound: transfers started
    Modes,        \* subset of {"save", "upload", "download"}
    Faults        \* subset of {"refuse", "drop", "restart"}

ASSUME TransactionConstants ==
    /\ MaxOurs \in Nat \ {0}
    /\ MaxForeign \in Nat \ {0}
    /\ MaxNonce \in Nat \ {0}
    /\ MaxTx \in Nat
    /\ Modes \subseteq {"save", "upload", "download"}
    /\ Faults \subseteq {"refuse", "drop", "restart"}

VARIABLES
    file,       \* what each name of the directory holds
    nonce,      \* TRANSFER_NONCE
    link,       \* the SFTP session: "up" or "down"
    doc,        \* the open RemoteDocument: its bytes and its metadata
    tx,         \* the transfer in progress, its locals and its result
    started,    \* transfers started
    edits,      \* edits made by others
    destroyed,  \* history: versions of which this program removed the last copy
    owed,       \* history: the places, with what is there, of the files set
                \* aside or announced as kept
    past        \* history: names earlier runs of the program left in use

vars == <<file, nonce, link, doc, tx, started, edits, destroyed, owed, past>>

NoFile  == 0
Partial == -1    \* a file that is being written
Dir     == -2
Symlink == -3
Ours    == 1..MaxOurs
Foreign == MaxOurs + 1 .. MaxOurs + MaxForeign
Version == Ours \union Foreign
Content == Version \union {NoFile, Partial, Dir, Symlink}

Dest   == <<"destination", 0>>
Target == <<"link target", 0>>       \* what the destination points to
InDest(n) == Dest                    \* mutant
Staging(n) == <<"staging", n>>       \* remote_sibling_path and the temporary
Backup(n)  == <<"backup", n>>        \* name of download_file_atomic
Names == {Dest, Target} \union ({"staging", "backup"} \X (1..MaxNonce))

\* metadata.mtime = None in save: the metadata compares equal to any version.
AnyMeta == 0
Document == [bytes : Version, meta : Version \union {AnyMeta}]
NoDoc == [bytes |-> Partial, meta |-> AnyMeta]
Matches(d, c) == c = d.bytes /\ d.meta \in {AnyMeta, c}

Steps == {"idle", "same", "verify", "stat", "in place", "stage", "write",
          "recheck", "begin", "create", "aside", "verify backup", "publish",
          "restore stat", "restore", "drop backup", "cleanup", "fetch",
          "fetching", "fetched", "stat local", "reload", "done"}
\* "unpublished": the rename to the destination failed.  After a rollback that
\* failed too, the message names both files ("kept") or, in one case of a save,
\* only the staging file ("draft").
Results == {"none", "ok", "changed", "error", "unpublished", "kept", "draft"}

Transfers == [pc : Steps, mode : {"save", "upload", "download"}, new : Ours,
              expected : Document \union {NoDoc}, existing : Content,
              staging : 0..MaxNonce, backup : 0..MaxNonce, cancel : BOOLEAN,
              result : Results]
Idle == [pc |-> "idle", mode |-> "upload", new |-> 1, expected |-> NoDoc,
         existing |-> NoFile, staging |-> 0, backup |-> 0, cancel |-> FALSE,
         result |-> "none"]

Init ==
    /\ \E c \in {NoFile, Dir, Symlink, MaxOurs + 1} :
         file = [n \in Names |->
                   CASE n = Dest -> c
                     [] n = Target /\ c = Symlink -> MaxOurs + 1
                     [] OTHER -> NoFile]
    /\ nonce = 1
    /\ link = "up"
    /\ doc = NoDoc
    /\ tx = Idle
    /\ started = 0
    /\ edits = 1
    /\ destroyed = {}
    /\ owed = {} /\ past = {}

-----------------------------------------------------------------------------
(* Calls.                                                                   *)

Present(f) == Range(f) \intersect Version

\* A step of this program changes the directory.
Change(f) ==
    /\ file' = f
    /\ destroyed' = (destroyed \union Present(file)) \ Present(f)

Keep == UNCHANGED <<file, destroyed>>

Goto(pc) == tx' = [tx EXCEPT !.pc = pc]
Ends(pc, result) == tx' = [tx EXCEPT !.pc = pc, !.result = result]

Put(n, c) == [file EXCEPT ![n] = c]
Renamed(a, b) == [file EXCEPT ![a] = NoFile, ![b] = file[a]]
Exists(n) == file[n] # NoFile

\* rename: an SFTP server refuses an existing target, the local one replaces it.
Renameable(a, b) == Exists(a) /\ (tx.mode = "download" \/ ~Exists(b))

\* The reply arrived.  Local calls need no session.
Answered == UNCHANGED link /\ (link = "up" \/ tx.mode = "download")

\* The call had no effect: refused, or the session is or goes down.
Refused ==
    \/ "refuse" \in Faults /\ UNCHANGED link
    \/ tx.mode # "download" /\ link = "down" /\ UNCHANGED link
    \/ tx.mode # "download" /\ "drop" \in Faults /\ link = "up" /\ link' = "down"

\* The server did it and the session went down before the reply.
Unanswered == tx.mode # "download" /\ "drop" \in Faults /\ link = "up" /\ link' = "down"

\* An upload's chunk fails, or the observer finds the cancellation.
Stopped == Refused \/ (UNCHANGED link /\ tx.cancel)

\* rename a to b, then ok; or bad when an error comes back.
RenameStep(a, b, ok, bad) ==
    /\ \/ Renameable(a, b) /\ Answered /\ Change(Renamed(a, b)) /\ ok
       \/ Renameable(a, b) /\ Unanswered /\ Change(Renamed(a, b)) /\ bad
       \/ ~Renameable(a, b) /\ Answered /\ Keep /\ bad
       \/ Refused /\ Keep /\ bad
    /\ UNCHANGED <<nonce, doc, started, edits>>

\* A call that only reads: next when the reply arrives, bad on an error.
ReadStep(next, bad) ==
    /\ Keep
    /\ \/ Answered /\ next
       \/ Refused /\ bad
    /\ UNCHANGED <<nonce, doc, started, edits, owed>>

-----------------------------------------------------------------------------
(* A transfer starts.                                                       *)

IsRegular(c) == c \in Version

\* RemoteDocument::load, on a session of its own.  Dest is the canonical path.
Load ==
    /\ tx.pc = "idle" /\ "save" \in Modes
    /\ IsRegular(file[Dest])
    /\ doc' = [bytes |-> file[Dest], meta |-> file[Dest]]
    /\ link' = "up"
    /\ UNCHANGED <<file, nonce, tx, started, edits, destroyed, owed>>

Begin ==
    /\ tx.pc = "idle" /\ started < MaxTx /\ nonce < MaxNonce
    /\ started' = started + 1
    /\ UNCHANGED <<file, nonce, doc, edits, destroyed, owed>>

\* RemoteDocument::save keeps the session the document was loaded on; text
\* that did not change is only verified.
Save(v) ==
    /\ "save" \in Modes /\ doc # NoDoc
    /\ Begin
    /\ tx' = [Idle EXCEPT !.mode = "save", !.new = v, !.expected = doc,
                          !.pc = IF v = doc.bytes THEN "same" ELSE "verify"]
    /\ UNCHANGED link

Upload(v) ==
    /\ "upload" \in Modes
    /\ Begin
    /\ tx' = [Idle EXCEPT !.mode = "upload", !.new = v, !.pc = "stat"]
    /\ link' = "up"

Download(v) ==
    /\ "download" \in Modes
    /\ Begin
    /\ tx' = [Idle EXCEPT !.mode = "download", !.new = v, !.pc = "fetch"]
    /\ link' = "up"

\* DocumentOperation::cancel or SftpController::cancel.
Cancel ==
    /\ tx.pc \notin {"idle", "done"} /\ ~tx.cancel
    /\ tx' = [tx EXCEPT !.cancel = TRUE]
    /\ UNCHANGED <<file, nonce, link, doc, started, edits, destroyed, owed>>

\* A transfer that stops before it wrote anything.
Cancelled(pc) == tx.cancel /\ Ends(pc, "error")

-----------------------------------------------------------------------------
(* upload_file_checked, up to the staging file.                             *)

\* verify_remote_precondition: metadata, canonical path and bytes.
Verified(next) ==
    \/ Matches(tx.expected, file[Dest]) /\ next
    \/ ~Matches(tx.expected, file[Dest]) /\ Ends("done", "changed")
    \/ Cancelled("done")

Same ==
    /\ tx.pc = "same"
    /\ ReadStep(Verified(Ends("done", "ok")), Ends("done", "error"))

Verify ==
    /\ tx.pc = "verify"
    /\ ReadStep(Verified(Goto("stat")), Ends("done", "error"))

\* symlink_metadata, and what each kind of destination means.
Found(c) ==
    \/ c = Dir /\ Ends("done", "error")
    \/ c = Symlink /\ tx.mode = "save" /\ Ends("done", "changed")
    \/ c = Symlink /\ tx.mode # "save" /\ Goto("in place")
    \/ c \notin {Dir, Symlink}
       /\ tx' = [tx EXCEPT !.pc = "stage", !.existing = c]

\* skip_unchanged may be on for an upload; it follows a symbolic link.
Stat ==
    /\ tx.pc = "stat"
    /\ ReadStep(\/ Found(file[Dest])
                \/ /\ tx.mode = "upload"
                   /\ tx.new \in {file[Dest], file[Target]}
                   /\ file[Dest] \in {tx.new, Symlink}
                   /\ Ends("done", "ok"),
                Ends("done", "error"))

\* upload_stream through a symbolic link: not a rename, by design.
InPlace ==
    /\ tx.pc = "in place"
    /\ \/ /\ Answered
          /\ ~tx.cancel
          /\ \/ file[Target] # Partial /\ Change(Put(Target, Partial)) /\ UNCHANGED tx
             \/ file[Target] = Partial /\ Change(Put(Target, tx.new)) /\ Ends("done", "ok")
       \/ Stopped /\ Keep /\ Ends("done", "error")
    /\ UNCHANGED <<nonce, doc, started, edits, owed>>

\* The names of this transfer, and the staging file opened with TRUNCATE.
Stage ==
    /\ tx.pc = "stage"
    /\ nonce' = nonce + 1
    /\ \/ /\ Answered
          /\ Change(Put(Staging(nonce), Partial))
          /\ tx' = [tx EXCEPT !.pc = "write", !.staging = nonce, !.backup = nonce]
       \/ /\ Refused
          /\ Keep
          /\ tx' = [tx EXCEPT !.pc = "cleanup", !.staging = nonce,
                              !.backup = nonce, !.result = "error"]
    /\ UNCHANGED <<doc, started, edits, owed>>

\* The rest of upload_stream and set_remote_staging_metadata.
Write ==
    /\ tx.pc = "write"
    /\ \/ /\ Answered /\ ~tx.cancel
          /\ Change(Put(Staging(tx.staging), tx.new))
          /\ Goto(IF tx.mode = "save" THEN "recheck" ELSE "begin")
       \/ Stopped /\ Keep /\ Ends("cleanup", "error")
    /\ UNCHANGED <<nonce, doc, started, edits, owed>>

Recheck ==
    /\ tx.pc = "recheck"
    /\ ReadStep(\/ Matches(tx.expected, file[Dest]) /\ Goto("begin")
                \/ ~Matches(tx.expected, file[Dest]) /\ Ends("cleanup", "changed")
                \/ Cancelled("cleanup"),
                Ends("cleanup", "error"))

\* begin_publish: from here on a cancellation waits for the transaction.
BeginPublish ==
    /\ tx.pc = "begin"
    /\ \/ tx.cancel /\ Ends("cleanup", "error")
       \/ ~tx.cancel /\ Goto(IF tx.existing = NoFile THEN "create" ELSE "aside")
    /\ UNCHANGED <<file, nonce, link, doc, started, edits, destroyed, owed>>

-----------------------------------------------------------------------------
(* Publication and rollback, remote and local.                              *)

Succeeds == IF tx.mode = "save" THEN Goto("reload") ELSE Ends("done", "ok")

Create ==
    /\ tx.pc = "create"
    /\ RenameStep(Staging(tx.staging), Dest,
                  Succeeds /\ UNCHANGED owed,
                  Ends("cleanup", "error") /\ UNCHANGED owed)

\* The versions at these places.
Held(f, names) == {<<n, f[n]>> : n \in {m \in names : f[m] \in Version}}

\* What the destination holds is set aside, whether or not we hear of it.
SetAside == owed' = owed \union Held(file', {Backup(tx.backup)})

\* The backup has been replaced or put back.
Release == {o \in owed : o[1] # Backup(tx.backup)}

Aside ==
    /\ tx.pc = "aside"
    /\ RenameStep(Dest, Backup(tx.backup),
                  /\ Goto(IF tx.mode = "save" THEN "verify backup" ELSE "publish")
                  /\ SetAside,
                  Ends("cleanup", "error") /\ SetAside)

UncheckedBackup ==   \* mutant
    /\ tx.pc = "verify backup"
    /\ ReadStep(Goto("publish"), Ends("restore stat", "error"))

\* The file that was set aside must be the one the draft was based on.
VerifyBackup ==
    /\ tx.pc = "verify backup"
    /\ ReadStep(IF Matches(tx.expected, file[Backup(tx.backup)])
                  THEN Goto("publish")
                  ELSE Ends("restore stat", "changed"),
                Ends("restore stat", "error"))

NoRestore == "cleanup"   \* mutant
RestorePc == IF tx.mode = "download" THEN "restore" ELSE "restore stat"

Publish ==
    /\ tx.pc = "publish"
    /\ RenameStep(Staging(tx.staging), Dest,
                  /\ Goto("drop backup")
                  /\ owed' = Release,
                  Ends(RestorePc, "unpublished") /\ UNCHANGED owed)

AnnounceAndClean(result) ==   \* mutant
    /\ Ends("cleanup", result)
    /\ owed' = Release \union Held(file', {Backup(tx.backup), Staging(tx.staging)})

\* preserve_staging: both files stay; the result says which the message names.
Announce(result) ==
    /\ Ends("done", result)
    /\ owed' = Release \union Held(file', {Backup(tx.backup), Staging(tx.staging)})

\* The restore itself failed: after a failed publication the message names both
\* files, after a failed check of the backup only the draft.
Unrestored == IF tx.result = "unpublished" THEN "kept" ELSE "draft"

\* restore_remote_backup looks first, and names the backup when it finds a new
\* file; a local restore renames at once.
RestoreStat ==
    /\ tx.pc = "restore stat"
    /\ Keep
    /\ \/ Answered /\ ~Exists(Dest) /\ Goto("restore") /\ UNCHANGED owed
       \/ Answered /\ Exists(Dest) /\ Announce("kept")
       \/ Refused /\ Announce(Unrestored)
    /\ UNCHANGED <<nonce, doc, started, edits>>

Restore ==
    /\ tx.pc = "restore"
    /\ RenameStep(Backup(tx.backup), Dest,
                  Goto("cleanup") /\ owed' = Release,
                  Announce(Unrestored))

\* Its failure is only logged.
DropBackup ==
    /\ tx.pc = "drop backup"
    /\ \/ Answered /\ Change(Put(Backup(tx.backup), NoFile))
       \/ Unanswered /\ Change(Put(Backup(tx.backup), NoFile))
       \/ Refused /\ Keep
    /\ Succeeds
    /\ UNCHANGED <<nonce, doc, started, edits, owed>>

Cleanup ==
    /\ tx.pc = "cleanup"
    /\ \/ Answered /\ Change(Put(Staging(tx.staging), NoFile))
       \/ Unanswered /\ Change(Put(Staging(tx.staging), NoFile))
       \/ Refused /\ Keep
    /\ Goto("done")
    /\ UNCHANGED <<nonce, doc, started, edits, owed>>

\* metadata() of the target; a failure makes the next save compare bytes only.
MetadataNow == IF file[Dest] \in Version THEN file[Dest] ELSE AnyMeta

\* save: the next save compares with what metadata() reports now.
Reload ==
    /\ tx.pc = "reload"
    /\ Keep
    /\ \/ Answered /\ doc' = [bytes |-> tx.new, meta |-> MetadataNow]
       \/ Refused /\ doc' = [bytes |-> tx.new, meta |-> AnyMeta]
    /\ Ends("done", "ok")
    /\ UNCHANGED <<nonce, started, edits, owed>>

-----------------------------------------------------------------------------
(* download_file_atomic and the first half of publish_local_file.           *)

\* skip_unchanged, or the temporary file is created.
Fetch ==
    /\ tx.pc = "fetch"
    /\ nonce' = nonce + 1
    /\ UNCHANGED link
    /\ \/ file[Dest] = tx.new /\ Keep /\ Ends("done", "ok")
       \/ /\ Change(Put(Staging(nonce), Partial))
          /\ tx' = [tx EXCEPT !.pc = "fetching", !.staging = nonce]
    /\ UNCHANGED <<doc, started, edits, owed>>

\* The segments arrive; an error or a cancellation removes the temporary.
Fetching ==
    /\ tx.pc = "fetching"
    /\ UNCHANGED link
    /\ \/ ~tx.cancel /\ Change(Put(Staging(tx.staging), tx.new)) /\ Goto("stat local")
       \/ (tx.cancel \/ Faults # {}) /\ Keep /\ Ends("cleanup", "error")
    /\ UNCHANGED <<nonce, doc, started, edits, owed>>

\* symlink_metadata of the destination.  A directory, or permissions that
\* cannot be copied, end the transfer with the temporary file in place.
StatLocal ==
    /\ tx.pc = "stat local"
    /\ UNCHANGED <<link, doc, started, edits, owed>>
    /\ Keep
    /\ \/ /\ file[Dest] = Dir \/ "refuse" \in Faults
          /\ Ends("done", "error") /\ UNCHANGED nonce
       \/ /\ file[Dest] = Symlink
          /\ Goto("fetched") /\ UNCHANGED nonce
       \/ /\ file[Dest] \notin {Dir, Symlink}
          /\ tx' = [tx EXCEPT !.pc = "begin", !.existing = file[Dest],
                              !.backup = nonce]
          /\ nonce' = nonce + 1

\* The temporary is copied through a local symbolic link, then removed; a
\* failed copy keeps it.
CopyThrough ==
    /\ tx.pc = "fetched"
    /\ \/ /\ ~tx.cancel
          /\ \/ file[Target] # Partial /\ Change(Put(Target, Partial)) /\ UNCHANGED tx
             \/ /\ file[Target] = Partial
                /\ Change([file EXCEPT ![Target] = tx.new, ![Staging(tx.staging)] = NoFile])
                /\ Ends("done", "ok")
       \/ (tx.cancel \/ "refuse" \in Faults) /\ Keep /\ Ends("done", "error")
    /\ UNCHANGED <<nonce, link, doc, started, edits, owed>>

Finish ==
    /\ tx.pc = "done"
    /\ tx' = Idle
    /\ UNCHANGED <<file, nonce, link, doc, started, edits, destroyed, owed>>

-----------------------------------------------------------------------------
(* Everybody else.                                                          *)

\* Somebody writes the file by name (through a link if there is one), or
\* removes it.  A version replaced by them is theirs to replace.
Edit ==
    /\ edits < MaxForeign
    /\ file[Dest] # Dir
    /\ edits' = edits + 1
    /\ file' = IF file[Dest] = Symlink THEN Put(Target, MaxOurs + edits + 1)
                                       ELSE Put(Dest, MaxOurs + edits + 1)
    /\ UNCHANGED <<nonce, link, doc, tx, started, destroyed, owed>>

Remove ==
    /\ edits < MaxForeign
    /\ Exists(Dest)
    /\ edits' = edits + 1
    /\ file' = Put(Dest, NoFile)
    /\ UNCHANGED <<nonce, link, doc, tx, started, destroyed, owed>>

\* The program stops at any point and starts again.
Restart ==
    /\ "restart" \in Faults
    /\ tx.pc # "idle"
    /\ tx' = Idle
    /\ nonce' = 1
    /\ doc' = NoDoc
    /\ link' = "up"
    /\ UNCHANGED <<file, started, edits, destroyed, owed>>
    /\ past' = past \union {n \in Names \ {Dest, Target} : file[n] # NoFile}

Transfer ==
    \/ Load \/ Cancel \/ Finish
    \/ \E v \in Ours : Save(v) \/ Upload(v) \/ Download(v)
    \/ Same \/ Verify \/ Stat \/ InPlace \/ Stage \/ Write \/ Recheck
    \/ BeginPublish
    \/ Create \/ Aside \/ VerifyBackup \/ Publish \/ RestoreStat \/ Restore
    \/ DropBackup \/ Cleanup \/ Reload
    \/ Fetch \/ Fetching \/ StatLocal \/ CopyThrough

Next ==
    \/ (Transfer \/ Edit \/ Remove) /\ UNCHANGED past
    \/ Restart

Spec == Init /\ [][Next]_vars

-----------------------------------------------------------------------------
(* Properties.                                                              *)

TypeOK ==
    /\ file \in [Names -> Content]
    /\ nonce \in 1..MaxNonce + 1
    /\ link \in {"up", "down"}
    /\ doc \in Document \union {NoDoc}
    /\ tx \in Transfers
    /\ started \in 0..MaxTx
    /\ edits \in 1..MaxForeign
    /\ destroyed \subseteq Version
    /\ owed \subseteq (Names \ {Dest, Target}) \X Version
    /\ past \subseteq Names \ {Dest, Target}

\* Saving a document never removes the last copy of somebody else's edit: the
\* only foreign version it may replace is the one the document was loaded
\* from (upload_file_checked compares three times, and renames in between).
SaveKeepsEdits ==
    [][tx.mode = "save" =>
         (destroyed' \ destroyed) \intersect Foreign \subseteq {tx.expected.bytes}]_vars

\* The file a transfer set aside, until its replacement is in place, and both
\* files a failed rollback leaves behind (preserve_staging) stay where they are,
\* as long as no earlier run of the program left files under the same names.
\* This holds whether or not a rename was answered before the session broke.
OwedKept == past = {} => \A o \in owed : file[o[1]] = o[2]

\* The same across restarts: "the previous file remains at {backup}" is said to
\* the user, who may read it after the program ended (transaction.rs, line 64).
NothingOwedLost == \A o \in owed : file[o[1]] = o[2]

\* The endings with an error that name no file.
Failed == {"changed", "error", "unpublished"}

\* A transfer that fails with a message that names no file, while its session is
\* up, has left nothing at the backup name: the destination was put back before
\* publication or never moved.  Three cases are left out: what an earlier run of
\* the program left under that name; a session that broke, where a rename may
\* have been done without an answer (OwedKept says the file is still there); and
\* the ending "draft", where a save's check and its restore both failed and the
\* message names the staging file while the previous file stays at the backup.
RolledBack ==
    /\ tx.pc = "done" /\ tx.result \in Failed /\ tx.backup # 0
    /\ link = "up" /\ Backup(tx.backup) \notin past
    => file[Backup(tx.backup)] = NoFile

\* The destination itself is never half written.
NoHalfFile == file[Dest] # Partial

-----------------------------------------------------------------------------
(* What the properties rest on: which names are in use where a transfer is, *)
(* and what they hold.                                                      *)

Unnamed == {"idle", "same", "verify", "stat", "in place", "stage", "fetch"}
LocalCopy == {"fetching", "stat local", "fetched"}
Unpublished == {"write", "recheck", "begin", "create", "aside"}
SetAsideSteps == {"verify backup", "publish", "restore stat", "restore", "drop backup"}

\* The names of a transfer are taken before they are used, from the counter.
NamesFit ==
    /\ tx.staging < nonce /\ tx.backup < nonce
    /\ tx.pc \in Unnamed => tx.staging = 0 /\ tx.backup = 0
    /\ tx.pc \in Unnamed \ {"idle"} => nonce < MaxNonce
    /\ tx.pc \in LocalCopy => nonce <= MaxNonce /\ tx.backup = 0
    /\ tx.pc \in LocalCopy \union {"fetch"} => tx.mode = "download"
    /\ tx.pc \in LocalCopy \union Unpublished \union SetAsideSteps \union {"cleanup"}
         => tx.staging # 0
    /\ tx.pc \in Unpublished \union SetAsideSteps => tx.backup # 0
    /\ tx.pc = "in place" => tx.mode # "save"

\* Only staging files are ever half written, never one about to be published,
\* and they hold what this program sends.
StagingFits ==
    /\ file[Dest] # Partial
    /\ \A k \in 1..MaxNonce :
         file[Backup(k)] # Partial /\ file[Staging(k)] \notin Foreign
    /\ tx.pc \in {"stat local", "recheck", "begin", "create", "aside",
                  "verify backup", "publish"}
         => file[Staging(tx.staging)] # Partial

\* A backup name is free until the transfer that drew it sets the destination
\* aside, and again when that transfer fails without naming it.
BackupFits ==
    /\ \A k \in 1..MaxNonce : k >= nonce /\ Backup(k) \notin past
         => file[Backup(k)] = NoFile
    /\ /\ tx.backup # 0 /\ Backup(tx.backup) \notin past
       /\ \/ tx.pc \in Unpublished
          \/ /\ tx.pc \in {"cleanup", "done"} /\ tx.result \in Failed
             /\ link = "up"
       => file[Backup(tx.backup)] = NoFile

\* What a save is about to replace is what the document was loaded from.
CheckedFits ==
    tx.pc \in {"publish", "drop backup"} /\ tx.mode = "save"
        => file[Backup(tx.backup)] = tx.expected.bytes

\* A promised file is where it was promised, under a name no later transfer
\* draws, and the transfer in progress is not about to remove it.
OwedFits ==
    past = {} => \A o \in owed :
        /\ file[o[1]] = o[2]
        /\ o[1][2] < nonce
        /\ o[1] = Staging(tx.staging) => tx.pc = "done"
        /\ o[1] = Backup(tx.backup) =>
             tx.pc \in (SetAsideSteps \ {"drop backup"}) \union {"cleanup", "reload", "done"}

TransferInv == NamesFit /\ StagingFits /\ BackupFits /\ CheckedFits /\ OwedFits
=============================================================================
