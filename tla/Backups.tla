------------------------------ MODULE Backups ------------------------------
(***************************************************************************)
(* The backups of one server: Create, Restore and Delete, which share the  *)
(* archive files and the data directory with each other and with the game  *)
(* server, and lock neither.                                               *)
(*                                                                         *)
(* Create walks the directory: it reads the names once, then takes each    *)
(* file's size (Lstat, for the tar header) and later its contents.  It     *)
(* writes the archive under its final name from the start.                 *)
(*                                                                         *)
(* The directory is flat; contents are a length and a version.  An archive *)
(* file is known by the request whose bytes it holds (Mixed: those of two  *)
(* at once), and the entries of that request are the archive's.            *)
(***************************************************************************)
EXTENDS Naturals, Sequences, SequencesExt, FiniteSets

CONSTANTS
  Files,       \* the names in the data directory
  Archives,    \* backup uuids
  Creates,     \* create requests
  MaxChanges,  \* bound: changes the game server makes
  Absent, Mixed

Contents == [len : 1..2, ver : 0..1]

ASSUME BackupAssumption ==
  /\ MaxChanges \in Nat
  /\ Mixed \notin Creates /\ Absent \notin Contents \cup Creates

VARIABLES
  disk,     \* the data directory: Absent or contents of each file
  archive,  \* Absent, or whose bytes are at <uuid>.tar.gz
  pc,       \* the next step of each create request
  uuid,     \* the backup it creates
  linked,   \* its archive file is the one at that path
  names,    \* the files its walk has still to visit
  hdr,      \* the size in the header it wrote last
  held,     \* what it read of the file it copies
  entries,  \* its tar stream: [file, content, whole]
  trailer,  \* the requests that have written the end of their archive
  rpc,      \* the restore: its next step
  rfrom,    \* whose bytes it reads
  rpos,     \* how many entries it has extracted
  changes,
  snap,     \* history: the directory when each request began its walk
  touched,  \* history: files changed while it ran
  rivals,   \* history: requests that met another one for their uuid
  deleted,  \* history: requests whose uuid was deleted after they ended well
  rtouched  \* history: files changed since the restore began

creating == <<pc, uuid, linked, names, hdr, held, entries, trailer, snap>>
restoring == <<rpc, rfrom, rpos>>
vars == <<disk, archive, creating, restoring, changes, touched, rivals, deleted,
          rtouched>>

Entry == [file : Files, content : Contents, whole : BOOLEAN]

Over == {"idle", "ok", "failed", "notRemoved", "closeFailed", "killed"}
Running == {c \in Creates : pc[c] \notin Over}

TypeOK ==
  /\ disk \in [Files -> Contents \cup {Absent}]
  /\ archive \in [Archives -> Creates \cup {Absent, Mixed}]
  /\ pc \in [Creates -> Over \cup {"open", "readdir", "stat", "copy", "read",
                                   "abort", "remove", "size"}]
  /\ uuid \in [Creates -> Archives]
  /\ linked \subseteq Creates
  /\ names \in [Creates -> SUBSET Files]
  /\ hdr \in [Creates -> 0..2]
  /\ held \in [Creates -> {Absent} \cup [file : Files, content : Contents]]
  /\ entries \in [Creates -> Seq(Entry)]
  /\ trailer \subseteq Creates
  /\ rpc \in {"idle", "extract", "ok", "failed"}
  /\ rfrom \in Creates \cup {Absent, Mixed}
  /\ rpos \in Nat
  /\ changes \in 0..MaxChanges

Init ==
  /\ disk \in [Files -> {Absent, [len |-> 1, ver |-> 0], [len |-> 2, ver |-> 0]}]
  /\ archive = [a \in Archives |-> Absent]
  /\ pc = [c \in Creates |-> "idle"]
  /\ uuid \in [Creates -> Archives]
  /\ linked = {}
  /\ names = [c \in Creates |-> {}]
  /\ hdr = [c \in Creates |-> 0]
  /\ held = [c \in Creates |-> Absent]
  /\ entries = [c \in Creates |-> <<>>]
  /\ trailer = {}
  /\ rpc = "idle" /\ rfrom = Absent /\ rpos = 0
  /\ changes = 0
  /\ snap = [c \in Creates |-> disk]
  /\ touched = [c \in Creates |-> {}]
  /\ rivals = {} /\ deleted = {} /\ rtouched = {}

Goto(c, step) == pc' = [pc EXCEPT ![c] = step]

Touch(f) ==
  /\ touched' = [c \in Creates |->
                   IF c \in Running THEN touched[c] \cup {f} ELSE touched[c]]
  /\ rtouched' = rtouched \cup {f}

(* The game server, or a file manager request, changes a file.             *)
Change ==
  /\ changes < MaxChanges
  /\ changes' = changes + 1
  /\ \E f \in Files, new \in Contents \cup {Absent} :
       new # disk[f] /\ disk' = [disk EXCEPT ![f] = new] /\ Touch(f)
  /\ UNCHANGED <<archive, creating, restoring, rivals, deleted>>

-----------------------------------------------------------------------------
(* backups.Create *)

Same(c) == {d \in Creates \ {c} : uuid[d] = uuid[c]}

(* Those that hold the file at c's path open and will write to it.         *)
WritingTo(c) ==
  {d \in Same(c) \cap Running \cap linked : pc[d] \notin {"size", "remove"}}

(* os.Create truncates what is there, under whoever writes or reads it.    *)
OpenArchive(c) ==
  /\ pc[c] = "idle"
  /\ archive' = [archive EXCEPT ![uuid[c]] =
                   IF WritingTo(c) = {} THEN c ELSE Mixed]
  /\ linked' = linked \cup {c}
  /\ Goto(c, "readdir")
  /\ rfrom' = IF rpc = "extract" /\ archive[uuid[c]] = rfrom THEN Mixed
              ELSE rfrom
  /\ rivals' = rivals \cup {d \in Same(c) : pc[d] # "idle"}
                 \cup (IF Same(c) \cap Running = {} THEN {} ELSE {c})
  /\ UNCHANGED <<disk, uuid, names, hdr, held, entries, trailer, rpc, rpos, changes,
                 snap, touched, deleted, rtouched>>

(* The request is malformed or the archive cannot be created.              *)
RejectCreate(c) ==
  /\ pc[c] = "idle"
  /\ Goto(c, "failed")
  /\ UNCHANGED <<disk, archive, uuid, linked, names, hdr, held, entries, trailer,
                 restoring, changes, snap, touched, rivals, deleted, rtouched>>

(* There is no data directory: an error of the walk's root.                *)
NoDirectory(c) ==
  /\ pc[c] = "readdir"
  /\ Goto(c, "abort")
  /\ UNCHANGED <<disk, archive, uuid, linked, names, hdr, held, entries, trailer,
                 restoring, changes, snap, touched, rivals, deleted, rtouched>>

(* filepath.Walk reads the names of the directory once.                    *)
ReadNames(c) ==
  /\ pc[c] = "readdir"
  /\ names' = [names EXCEPT ![c] = {f \in Files : disk[f] # Absent}]
  /\ snap' = [snap EXCEPT ![c] = disk]
  /\ touched' = [touched EXCEPT ![c] = {}]
  /\ Goto(c, "stat")
  /\ UNCHANGED <<disk, archive, uuid, linked, hdr, held, entries, trailer, restoring,
                 changes, rivals, deleted, rtouched>>

Unchanged(c) ==
  UNCHANGED <<disk, archive, uuid, linked, restoring, changes, snap, touched,
              rivals, deleted, rtouched>>

LastShort(c) == entries[c] # <<>> /\ ~Last(entries[c]).whole

(* The walk's Lstat of the next file and WriteHeader: the file may have    *)
(* gone, and tar refuses a header while the last file is short.            *)
WriteHeader(c) ==
  /\ pc[c] = "stat" /\ names[c] # {}
  /\ \E f \in names[c] :
       IF disk[f] = Absent \/ LastShort(c)
       THEN Goto(c, "abort") /\ UNCHANGED <<hdr, held, names>>
       ELSE /\ hdr' = [hdr EXCEPT ![c] = disk[f].len]
            /\ held' = [held EXCEPT ![c] = [file |-> f, content |-> disk[f]]]
            /\ names' = [names EXCEPT ![c] = @ \ {f}]
            /\ Goto(c, "copy")
  /\ UNCHANGED <<entries, trailer>> /\ Unchanged(c)

Record(c, content, whole) ==
  entries' = [entries EXCEPT ![c] =
    Append(@, [file |-> held[c].file, content |-> content, whole |-> whole])]

(* os.Open of the file, or it has gone: a header without contents.         *)
OpenFile(c) ==
  /\ pc[c] = "copy"
  /\ LET now == disk[held[c].file]
     IN IF now = Absent
        THEN /\ Record(c, held[c].content, FALSE)
             /\ Goto(c, "abort") /\ UNCHANGED held
        ELSE /\ held' = [held EXCEPT ![c].content = now]
             /\ Goto(c, "read") /\ UNCHANGED entries
  /\ UNCHANGED <<names, hdr, trailer>> /\ Unchanged(c)

(* io.Copy gets what the file was at the open or what it is by the end.  A *)
(* file longer than its header is cut and an error, a shorter one no error *)
(* as yet.                                                                 *)
CopyFile(c) ==
  /\ pc[c] = "read"
  /\ \E got \in {held[c].content, disk[held[c].file]} \ {Absent} :
       IF got.len > hdr[c]
       THEN Record(c, [got EXCEPT !.len = hdr[c]], TRUE) /\ Goto(c, "abort")
       ELSE Record(c, got, got.len = hdr[c]) /\ Goto(c, "stat")
  /\ UNCHANGED <<names, hdr, held, trailer>> /\ Unchanged(c)

(* Writing the archive fails (the disk is full).                           *)
WriteFails(c) ==
  /\ pc[c] \in {"stat", "read"}
  /\ Goto(c, "remove")
  /\ UNCHANGED <<names, hdr, held, entries, trailer>> /\ Unchanged(c)

(* After an error of the walk tw and gz are closed first: on a tar stream  *)
(* without a short file that gives a well-formed archive of what was read. *)
AbortClose(c) ==
  /\ pc[c] = "abort"
  /\ trailer' = IF LastShort(c) THEN trailer ELSE trailer \cup {c}
  /\ Goto(c, "remove")
  /\ UNCHANGED <<names, hdr, held, entries>> /\ Unchanged(c)

Unlink(a) ==
  /\ archive' = [archive EXCEPT ![a] = Absent]
  /\ linked' = {c \in linked : uuid[c] # a}

(* Mutant: a failed walk leaves what it has written.                       *)
RemoveArchiveNot(c) ==
  /\ pc[c] = "remove"
  /\ Goto(c, "failed")
  /\ UNCHANGED <<disk, archive, linked, uuid, names, hdr, held, entries, trailer, snap,
                 restoring, changes, touched, rivals, deleted, rtouched>>

(* os.Remove(dst), whatever is there by now.                               *)
RemoveArchive(c) ==
  /\ pc[c] = "remove"
  /\ Unlink(uuid[c])
  /\ Goto(c, "failed")
  /\ UNCHANGED <<disk, uuid, names, hdr, held, entries, trailer, snap, restoring,
                 changes, touched, rivals, deleted, rtouched>>

(* It fails, which nobody is told: what was written stays there.           *)
RemoveFails(c) ==
  /\ pc[c] = "remove"
  /\ Goto(c, "notRemoved")
  /\ UNCHANGED <<names, hdr, held, entries, trailer>> /\ Unchanged(c)

WalkDone(c) == pc[c] = "stat" /\ names[c] = {}

(* Mutant: the error of tw.Close is dropped.                               *)
CloseArchiveBlind(c) ==
  /\ WalkDone(c)
  /\ Goto(c, "size")
  /\ trailer' = trailer \cup {c}
  /\ UNCHANGED <<names, hdr, held, entries>> /\ Unchanged(c)

(* tw.Close, which fails when the last file was short, and gz.Close; after *)
(* an error of either the archive stays.                                   *)
CloseArchive(c) ==
  /\ WalkDone(c)
  /\ \/ ~LastShort(c) /\ Goto(c, "size") /\ trailer' = trailer \cup {c}
     \/ Goto(c, "closeFailed") /\ UNCHANGED trailer
  /\ UNCHANGED <<names, hdr, held, entries>> /\ Unchanged(c)

(* Mutant: the size is asked of the open file, which has it always.        *)
SizeOfOpenFile(c) ==
  /\ pc[c] = "size"
  /\ Goto(c, "ok")
  /\ UNCHANGED <<names, hdr, held, entries, trailer>> /\ Unchanged(c)

(* os.Stat(dst), and the result with the checksum of what was written.     *)
SizeArchive(c) ==
  /\ pc[c] = "size"
  /\ Goto(c, IF archive[uuid[c]] = Absent THEN "failed" ELSE "ok")
  /\ UNCHANGED <<names, hdr, held, entries, trailer>> /\ Unchanged(c)

(* The daemon dies; for the create this is one more way to stop.           *)
Killed ==
  /\ Running # {}
  /\ pc' = [c \in Creates |-> IF c \in Running THEN "killed" ELSE pc[c]]
  /\ rpc' = IF rpc = "extract" THEN "failed" ELSE rpc
  /\ UNCHANGED <<disk, archive, uuid, linked, names, hdr, held, entries, trailer,
                 rfrom, rpos, changes, snap, touched, rivals, deleted, rtouched>>

-----------------------------------------------------------------------------
(* backups.Delete *)

Delete(a) ==
  /\ archive[a] # Absent
  /\ Unlink(a)
  /\ deleted' = deleted \cup {c \in Creates : uuid[c] = a /\ pc[c] = "ok"}
  /\ UNCHANGED <<disk, pc, uuid, names, hdr, held, entries, trailer, restoring,
                 changes, snap, touched, rivals, rtouched>>

-----------------------------------------------------------------------------
(* backups.Restore *)

RestoreOpen(a) ==
  /\ rpc = "idle"
  /\ archive[a] # Absent
  /\ rpc' = "extract"
  /\ rfrom' = archive[a]
  /\ rpos' = 0
  /\ rtouched' = {}
  /\ UNCHANGED <<disk, archive, creating, changes, touched, rivals, deleted>>

Readable == rfrom \in Creates /\ rpos < Len(entries[rfrom])

(* Mutant: a file that is there is not written over.                       *)
ExtractMissing ==
  /\ rpc = "extract"
  /\ Readable /\ entries[rfrom][rpos + 1].whole
  /\ LET e == entries[rfrom][rpos + 1]
     IN /\ disk' = [disk EXCEPT ![e.file] = IF @ = Absent THEN e.content ELSE @]
        /\ touched' = [c \in Creates |-> IF c \in Running
                         THEN touched[c] \cup {e.file} ELSE touched[c]]
        /\ rtouched' = rtouched \ {e.file}
  /\ rpos' = rpos + 1
  /\ UNCHANGED <<archive, creating, rpc, rfrom, changes, rivals, deleted>>

(* The next entry is written over the file of that name.  The files Create *)
(* is archiving meanwhile change under it.                                 *)
Extract ==
  /\ rpc = "extract"
  /\ Readable /\ entries[rfrom][rpos + 1].whole
  /\ LET e == entries[rfrom][rpos + 1]
     IN /\ disk' = [disk EXCEPT ![e.file] = e.content]
        /\ touched' = [c \in Creates |-> IF c \in Running
                         THEN touched[c] \cup {e.file} ELSE touched[c]]
        /\ rtouched' = rtouched \ {e.file}
  /\ rpos' = rpos + 1
  /\ UNCHANGED <<archive, creating, rpc, rfrom, changes, rivals, deleted>>

(* What follows cannot be read (yet), or a file cannot be written, which   *)
(* leaves it cut: some entries have been extracted, the rest has not.      *)
RestoreFails ==
  /\ rpc = "extract"
  /\ rpc' = "failed"
  /\ \/ UNCHANGED <<disk, touched, rtouched>>
     \/ /\ Readable
        /\ LET e == entries[rfrom][rpos + 1]
           IN /\ disk' = [disk EXCEPT ![e.file] = [e.content EXCEPT !.len = 1]]
              /\ Touch(e.file)
  /\ UNCHANGED <<archive, creating, rfrom, rpos, changes, rivals, deleted>>

(* Mutant: every error of the tar reader is taken for its end.             *)
RestoreEndsAnyhow ==
  /\ rpc = "extract"
  /\ ~Readable
  /\ rpc' = "ok"
  /\ UNCHANGED <<disk, archive, creating, rfrom, rpos, changes, touched, rivals,
                 deleted, rtouched>>

(* io.EOF: the tar and gzip trailers, which only a closed archive has.     *)
RestoreEnds ==
  /\ rpc = "extract"
  /\ rfrom \in trailer /\ ~Readable
  /\ rpc' = "ok"
  /\ UNCHANGED <<disk, archive, creating, rfrom, rpos, changes, touched, rivals,
                 deleted, rtouched>>

CreateStep(c) ==
  \/ RejectCreate(c) \/ OpenArchive(c) \/ NoDirectory(c) \/ ReadNames(c)
  \/ WriteHeader(c) \/ OpenFile(c) \/ CopyFile(c) \/ WriteFails(c) \/ AbortClose(c) \/ RemoveArchive(c) \/ RemoveFails(c)
  \/ CloseArchive(c) \/ SizeArchive(c)

Next ==
  \/ \E c \in Creates : CreateStep(c)
  \/ \E a \in Archives : Delete(a) \/ RestoreOpen(a)
  \/ Extract \/ RestoreFails \/ RestoreEnds \/ Change \/ Killed

Spec == Init /\ [][Next]_vars

-----------------------------------------------------------------------------
(* Safety *)

(* A backup reported as created holds every file that was there when the   *)
(* walk began and that nobody touched before it ended, with its contents,  *)
(* no file that was not there, and none cut short while the server was     *)
(* writing it, which tar reports one file late (backups.go:46-79, 88).     *)
BackupComplete ==
  \A c \in Creates : pc[c] = "ok" =>
    /\ \A f \in Files \ touched[c] :
         LET copies == {e \in ToSet(entries[c]) : e.file = f}
         IN IF snap[c][f] = Absent THEN copies = {}
            ELSE {e.content : e \in copies} = {snap[c][f]}
    /\ \A e \in ToSet(entries[c]) : e.whole

(* Its archive is there and its own, unless it was deleted afterwards or   *)
(* another request for the same uuid came meanwhile or later               *)
(* (backups.go:36, 83, 97).                                                *)
ReportedIntact ==
  \A c \in Creates :
    pc[c] = "ok" /\ c \notin rivals \cup deleted => archive[uuid[c]] = c

(* A create that failed in its walk leaves nothing under the backup's name *)
(* (backups.go:80-86).  Three kinds of failure do leave an archive: of the *)
(* closing, of that removal, and the daemon's death.                       *)
FailedLeavesNothing ==
  \A c \in Creates : archive[uuid[c]] = c => pc[c] # "failed"

(* A restore that reports success has extracted all of an archive that was *)
(* written to its end, and what it wrote is what nobody has changed since  *)
(* (backups.go:147-184).                                                   *)
RestoreExact ==
  rpc = "ok" =>
    /\ rfrom \in trailer /\ rpos = Len(entries[rfrom])
    /\ \A e \in ToSet(entries[rfrom]) :
         e.whole /\ (e.file \in rtouched \/ disk[e.file] = e.content)

(* From end to end: a restore from a backup that was reported as created   *)
(* brings back every file as it was when the backup began, but for those   *)
(* changed while the backup was made or since the restore wrote them       *)
(* (backups.go:46-103, 147-184).                                           *)
BackupRestores ==
  rpc = "ok" /\ rfrom \in Creates /\ pc[rfrom] = "ok" =>
    \A f \in Files \ touched[rfrom] :
      snap[rfrom][f] # Absent => f \in rtouched \/ disk[f] = snap[rfrom][f]
=============================================================================
