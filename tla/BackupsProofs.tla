---------------------------- MODULE BackupsProofs ----------------------------
(* Proofs about Backups, for any names in the data directory, any backups, *)
(* any number of create requests and of changes by the game server.        *)
EXTENDS Backups, SequenceTheorems, TLAPS

Steps == Over \cup {"open", "readdir", "stat", "copy", "read", "abort", "remove", "size"}
Found == Contents \cup {Absent}
Held == [file : Files, content : Contents]
Walking(c) == pc[c] \in {"copy", "read"}

-----------------------------------------------------------------------------
(* Types *)

(* A file that is being copied has a header in the archive.                *)
Copied == \A c \in Creates : Walking(c) => held[c] \in Held /\ hdr[c] \in 1..2

Types ==
  /\ disk \in [Files -> Found]
  /\ archive \in [Archives -> Creates \cup {Absent, Mixed}]
  /\ pc \in [Creates -> Steps] /\ uuid \in [Creates -> Archives]
  /\ linked \subseteq Creates /\ names \in [Creates -> SUBSET Files]
  /\ hdr \in [Creates -> 0..2] /\ held \in [Creates -> {Absent} \cup Held]
  /\ entries \in [Creates -> Seq(Entry)] /\ trailer \subseteq Creates
  /\ rpc \in {"idle", "extract", "ok", "failed"}
  /\ rfrom \in Creates \cup {Absent, Mixed} /\ rpos \in Nat /\ changes \in 0..MaxChanges
  /\ snap \in [Creates -> [Files -> Found]] /\ touched \in [Creates -> SUBSET Files]

Shaped == Types /\ Copied

LEMMA TypesSuffice == Shaped => TypeOK
BY DEF Types, Shaped, TypeOK, Steps, Found, Held

LEMMA Sizes ==
  /\ \A x \in Contents : x.len \in 1..2
  /\ \A x \in Contents, n \in 1..2 : [x EXCEPT !.len = n] \in Contents
  /\ \A x \in Contents : [x EXCEPT !.len = 1] \in Contents
  /\ Absent \notin Contents /\ Absent \notin Creates /\ Mixed \notin Creates
BY BackupAssumption DEF Contents

LEMMA EntryFacts ==
  ASSUME NEW f \in Files, NEW x \in Contents, NEW w \in BOOLEAN,
         NEW e, e = [file |-> f, content |-> x, whole |-> w]
  PROVE  e \in Entry /\ e.file = f /\ e.content = x /\ e.whole = w
BY DEF Entry

LEMMA HeldFacts ==
  ASSUME NEW f \in Files, NEW x \in Contents, NEW h, h = [file |-> f, content |-> x]
  PROVE  h \in Held /\ h.file = f /\ h.content = x
BY DEF Held

(* What is read of a file, and what is put into the archive of it.         *)
LEMMA CopyFacts ==
  ASSUME Shaped, NEW c \in Creates, pc[c] \in {"copy", "read"},
         NEW f, f = held[c].file
  PROVE  /\ f \in Files /\ held[c].content \in Contents /\ hdr[c] \in 1..2
         /\ disk[f] \in Found
<1>1. held[c] \in Held /\ hdr[c] \in 1..2 /\ disk \in [Files -> Found]
  BY DEF Shaped, Copied, Walking, Types
<1>2. held[c].file \in Files /\ held[c].content \in Contents
  BY <1>1 DEF Held
<1> QED
  BY <1>1, <1>2

LEMMA RecordFacts ==
  ASSUME Shaped, NEW c \in Creates, Walking(c), NEW x \in Contents, NEW w \in BOOLEAN,
         Record(c, x, w)
  PROVE  \E e \in Entry :
           /\ e \in Entry /\ e.file = held[c].file /\ e.content = x /\ e.whole = w
           /\ entries' = [entries EXCEPT ![c] = Append(@, e)]
           /\ entries' \in [Creates -> Seq(Entry)]
<1>1. PICK e : e = [file |-> held[c].file, content |-> x, whole |-> w]
  OBVIOUS
<1>2. held[c].file \in Files
  BY CopyFacts DEF Walking
<1>3. e \in Entry /\ e.file = held[c].file /\ e.content = x /\ e.whole = w
  BY <1>1, <1>2, EntryFacts
<1>4. entries' = [entries EXCEPT ![c] = Append(@, e)]
  BY <1>1 DEF Record
<1>5. entries \in [Creates -> Seq(Entry)]
  BY DEF Shaped, Types
<1>6. Append(entries[c], e) \in Seq(Entry)
  BY <1>3, <1>5
<1>7. entries' \in [Creates -> Seq(Entry)]
  BY <1>4, <1>5, <1>6
<1> QED
  BY <1>3, <1>4, <1>7

LEMMA ShapedInit == Init => Shaped
<1> SUFFICES ASSUME Init PROVE Shaped
  OBVIOUS
<1>1. /\ [len |-> 1, ver |-> 0] \in Contents /\ [len |-> 2, ver |-> 0] \in Contents
      /\ MaxChanges \in Nat
  BY BackupAssumption DEF Contents
<1>2. disk \in [Files -> Found]
  BY <1>1 DEF Init, Found
<1>3. Types
  BY <1>1, <1>2 DEF Init, Types, Steps, Over
<1>4. Copied
  BY DEF Init, Copied, Walking
<1> QED
  BY <1>3, <1>4 DEF Shaped

(* A step of one create request, that leaves it where Copied holds of it.  *)
LEMMA CopiedKept ==
  ASSUME Shaped, NEW c \in Creates,
         \A d \in Creates \ {c} : pc'[d] = pc[d] /\ held'[d] = held[d] /\ hdr'[d] = hdr[d],
         pc'[c] \in {"copy", "read"} => held'[c] \in Held /\ hdr'[c] \in 1..2
  PROVE  Copied'
BY DEF Shaped, Copied, Walking

LEMMA TouchFacts ==
  ASSUME touched \in [Creates -> SUBSET Files], NEW f \in Files, Touch(f)
  PROVE  /\ touched' \in [Creates -> SUBSET Files]
         /\ \A c \in Creates : touched[c] \subseteq touched'[c]
         /\ \A c \in Running : f \in touched'[c]
         /\ rtouched' = rtouched \cup {f}
BY DEF Touch, Running

LEMMA ShapedStep == Shaped /\ [Next]_vars => Shaped'
<1> SUFFICES ASSUME Shaped, [Next]_vars PROVE Shaped'
  OBVIOUS
<1>1. Types /\ Copied
  BY DEF Shaped
<1>2. "stat" \in Steps /\ "copy" \in Steps /\ "read" \in Steps /\ "abort" \in Steps
      /\ "remove" \in Steps /\ "size" \in Steps /\ "ok" \in Steps /\ "failed" \in Steps
      /\ "closeFailed" \in Steps /\ "killed" \in Steps /\ "readdir" \in Steps
      /\ "notRemoved" \in Steps
  BY DEF Steps, Over
<1>10. ASSUME NEW c \in Creates, OpenArchive(c) PROVE Shaped'
  <2>1. Types'
    BY <1>1, <1>2, <1>10 DEF Types, OpenArchive, Goto
  <2>2. Copied'
    BY <1>1, <1>10, CopiedKept DEF Types, OpenArchive, Goto
  <2> QED
    BY <2>1, <2>2 DEF Shaped
<1>11. ASSUME NEW c \in Creates, RejectCreate(c) \/ NoDirectory(c) \/ WriteFails(c)
                                   \/ AbortClose(c) \/ RemoveFails(c) \/ CloseArchive(c)
                                   \/ SizeArchive(c)
       PROVE  Shaped'
  <2>0. /\ pc' \in [Creates -> Steps] /\ pc'[c] \notin {"copy", "read"}
        /\ (\A d \in Creates \ {c} : pc'[d] = pc[d]) /\ held' = held /\ hdr' = hdr
        /\ trailer' \subseteq Creates
        /\ UNCHANGED <<disk, archive, uuid, linked, names, entries, restoring, changes, snap,
                       touched>>
    BY <1>1, <1>2, <1>11 DEF Types, RejectCreate, NoDirectory, WriteFails, AbortClose,
       RemoveFails, CloseArchive, SizeArchive, Unchanged, Goto, restoring
  <2>1. Types'
    BY <1>1, <2>0 DEF Types, restoring
  <2>2. Copied'
    BY <1>1, <2>0, CopiedKept
  <2> QED
    BY <2>1, <2>2 DEF Shaped
<1>12. ASSUME NEW c \in Creates, ReadNames(c) PROVE Shaped'
  <2>1. Types'
    BY <1>1, <1>2, <1>12 DEF Types, ReadNames, Goto, restoring
  <2>2. Copied'
    BY <1>1, <1>12, CopiedKept DEF Types, ReadNames, Goto
  <2> QED
    BY <2>1, <2>2 DEF Shaped
<1>13. ASSUME NEW c \in Creates, WriteHeader(c) PROVE Shaped'
  <2>1. PICK f \in names[c] :
          IF disk[f] = Absent \/ LastShort(c)
          THEN Goto(c, "abort") /\ UNCHANGED <<hdr, held, names>>
          ELSE /\ hdr' = [hdr EXCEPT ![c] = disk[f].len]
               /\ held' = [held EXCEPT ![c] = [file |-> f, content |-> disk[f]]]
               /\ names' = [names EXCEPT ![c] = @ \ {f}]
               /\ Goto(c, "copy")
    BY <1>13 DEF WriteHeader
  <2>2. UNCHANGED <<disk, archive, uuid, linked, entries, trailer, restoring, changes, snap,
                    touched>>
    BY <1>13 DEF WriteHeader, Unchanged
  <2>3. CASE disk[f] = Absent \/ LastShort(c)
    <3>1. Goto(c, "abort") /\ UNCHANGED <<hdr, held, names>>
      BY <2>1, <2>3
    <3>2. Types'
      BY <1>1, <1>2, <2>2, <3>1 DEF Types, Goto, restoring
    <3>3. Copied'
      BY <1>1, <3>1, CopiedKept DEF Types, Goto
    <3> QED
      BY <3>2, <3>3 DEF Shaped
  <2>4. CASE ~(disk[f] = Absent \/ LastShort(c))
    <3>1. PICK h : h = [file |-> f, content |-> disk[f]]
      OBVIOUS
    <3>2. /\ hdr' = [hdr EXCEPT ![c] = disk[f].len] /\ held' = [held EXCEPT ![c] = h]
          /\ names' = [names EXCEPT ![c] = @ \ {f}] /\ Goto(c, "copy")
      BY <2>1, <2>4, <3>1
    <3>3. f \in Files /\ disk[f] \in Contents
      BY <1>1, <2>4 DEF Types, Found
    <3>4. h \in Held /\ disk[f].len \in 1..2
      BY <3>1, <3>3, HeldFacts, Sizes
    <3>5. Types'
      BY <1>1, <1>2, <2>2, <3>2, <3>4 DEF Types, Goto, restoring
    <3>6. Copied'
      BY <1>1, <3>2, <3>4, CopiedKept DEF Types, Goto
    <3> QED
      BY <3>5, <3>6 DEF Shaped
  <2> QED
    BY <2>3, <2>4
<1>14. ASSUME NEW c \in Creates, OpenFile(c) PROVE Shaped'
  <2>1. PICK f : f = held[c].file
    OBVIOUS
  <2>2. /\ pc[c] = "copy" /\ Walking(c)
        /\ UNCHANGED <<disk, archive, uuid, linked, names, hdr, trailer, restoring, changes,
                       snap, touched>>
    BY <1>14 DEF OpenFile, Unchanged, Walking
  <2>3. f \in Files /\ held[c] \in Held /\ hdr[c] \in 1..2 /\ disk[f] \in Found
        /\ held[c].content \in Contents
    BY <1>1, <2>1, <2>2, CopyFacts DEF Copied, Walking
  <2>4. CASE disk[f] = Absent
    <3>1. Record(c, held[c].content, FALSE) /\ Goto(c, "abort") /\ held' = held
      BY <1>14, <2>1, <2>4 DEF OpenFile
    <3>2. entries' \in [Creates -> Seq(Entry)]
      BY <2>2, <2>3, <3>1, RecordFacts
    <3>3. Types'
      BY <1>1, <1>2, <2>2, <3>1, <3>2 DEF Types, Goto, restoring
    <3>4. Copied'
      BY <1>1, <2>2, <3>1, CopiedKept DEF Types, Goto
    <3> QED
      BY <3>3, <3>4 DEF Shaped
  <2>5. CASE disk[f] # Absent
    <3>1. PICK h : h = [held[c] EXCEPT !.content = disk[f]]
      OBVIOUS
    <3>2. held' = [held EXCEPT ![c] = h] /\ Goto(c, "read") /\ entries' = entries
      BY <1>14, <2>1, <2>5, <3>1 DEF OpenFile
    <3>3. h \in Held
      BY <2>3, <2>5, <3>1 DEF Held, Found
    <3>4. Types'
      BY <1>1, <1>2, <2>2, <3>2, <3>3 DEF Types, Goto, restoring
    <3>5. Copied'
      BY <1>1, <2>2, <2>3, <3>2, <3>3, CopiedKept DEF Types, Goto
    <3> QED
      BY <3>4, <3>5 DEF Shaped
  <2> QED
    BY <2>4, <2>5
<1>15. ASSUME NEW c \in Creates, CopyFile(c) PROVE Shaped'
  <2>1. /\ pc[c] = "read" /\ Walking(c)
        /\ UNCHANGED <<disk, archive, uuid, linked, names, hdr, held, trailer, restoring,
                       changes, snap, touched>>
    BY <1>15 DEF CopyFile, Unchanged, Walking
  <2>2. PICK got \in {held[c].content, disk[held[c].file]} \ {Absent} :
          IF got.len > hdr[c]
          THEN Record(c, [got EXCEPT !.len = hdr[c]], TRUE) /\ Goto(c, "abort")
          ELSE Record(c, got, got.len = hdr[c]) /\ Goto(c, "stat")
    BY <1>15 DEF CopyFile
  <2>3. got \in Contents /\ [got EXCEPT !.len = hdr[c]] \in Contents
    <3>1. got \in Contents /\ hdr[c] \in 1..2
      BY <1>1, <2>1, CopyFacts DEF Walking, Found
    <3> QED
      BY <3>1, Sizes
  <2>4. /\ entries' \in [Creates -> Seq(Entry)]
        /\ Goto(c, "abort") \/ Goto(c, "stat")
    <3>1. CASE got.len > hdr[c]
      BY <2>1, <2>2, <2>3, <3>1, RecordFacts
    <3>2. CASE ~(got.len > hdr[c])
      <4>1. (got.len = hdr[c]) \in BOOLEAN
        OBVIOUS
      <4> QED
        BY <2>1, <2>2, <2>3, <3>2, <4>1, RecordFacts
    <3> QED
      BY <3>1, <3>2
  <2>5. Types'
    BY <1>1, <1>2, <2>1, <2>4 DEF Types, Goto, restoring
  <2>6. Copied'
    BY <1>1, <2>1, <2>4, CopiedKept DEF Types, Goto
  <2> QED
    BY <2>5, <2>6 DEF Shaped
<1>16. ASSUME NEW c \in Creates, RemoveArchive(c) PROVE Shaped'
  <2>1. Types'
    BY <1>1, <1>2, <1>16 DEF Types, RemoveArchive, Unlink, Goto, restoring
  <2>2. Copied'
    BY <1>1, <1>16, CopiedKept DEF Types, RemoveArchive, Goto
  <2> QED
    BY <2>1, <2>2 DEF Shaped
<1>17. ASSUME UNCHANGED <<pc, held, hdr>>, Types' PROVE Shaped'
  BY <1>1, <1>17 DEF Shaped, Copied, Walking
<1>18. ASSUME NEW a \in Archives, Delete(a) \/ RestoreOpen(a) PROVE Shaped'
  <2>1. Types'
    <3>1. CASE Delete(a)
      BY <1>1, <3>1 DEF Types, Delete, Unlink, restoring
    <3>2. CASE RestoreOpen(a)
      BY <1>1, <3>2 DEF Types, RestoreOpen, creating
    <3> QED
      BY <1>18, <3>1, <3>2
  <2> QED
    BY <1>17, <1>18, <2>1 DEF Delete, RestoreOpen, creating
<1>19. CASE Change
  <2>1. PICK f \in Files, new \in Found :
          disk' = [disk EXCEPT ![f] = new] /\ Touch(f)
    BY <1>19 DEF Change, Found
  <2>2. changes' \in 0..MaxChanges /\ UNCHANGED <<archive, creating, restoring>>
    BY <1>1, <1>19, BackupAssumption DEF Change, Types
  <2>3. touched' \in [Creates -> SUBSET Files]
    BY <1>1, <2>1, TouchFacts DEF Types
  <2>4. Types'
    BY <1>1, <2>1, <2>2, <2>3 DEF Types, restoring, creating
  <2> QED
    BY <1>17, <2>2, <2>4 DEF creating
<1>20. ASSUME rpc \in {"extract"}, Readable
       PROVE  LET e == entries[rfrom][rpos + 1]
              IN e \in Entry /\ e.file \in Files /\ e.content \in Contents
                 /\ [e.content EXCEPT !.len = 1] \in Contents
  <2>1. PICK e : e = entries[rfrom][rpos + 1]
    OBVIOUS
  <2>2. e \in Entry
    <3>1. entries[rfrom] \in Seq(Entry) /\ rpos + 1 \in 1..Len(entries[rfrom])
      BY <1>1, <1>20 DEF Types, Readable
    <3> QED
      BY <2>1, <3>1, ElementOfSeq, Zenon
  <2>3. e.file \in Files /\ e.content \in Contents
    BY <2>2 DEF Entry
  <2>4. [e.content EXCEPT !.len = 1] \in Contents
    BY <2>3, Sizes
  <2> QED
    BY <2>1, <2>2, <2>3, <2>4
<1>21. CASE Extract
  <2>1. PICK e : e = entries[rfrom][rpos + 1]
    OBVIOUS
  <2>2. e.file \in Files /\ e.content \in Contents
    BY <1>20, <1>21, <2>1 DEF Extract
  <2>3. /\ disk' = [disk EXCEPT ![e.file] = e.content] /\ rpos' = rpos + 1
        /\ touched' = [c \in Creates |-> IF c \in Running
                         THEN touched[c] \cup {e.file} ELSE touched[c]]
        /\ UNCHANGED <<archive, creating, rpc, rfrom, changes>>
    BY <1>21, <2>1 DEF Extract
  <2>4. Types'
    BY <1>1, <2>2, <2>3 DEF Types, Found, creating
  <2> QED
    BY <1>17, <2>3, <2>4 DEF creating
<1>22. CASE RestoreFails
  <2>1. rpc = "extract" /\ rpc' = "failed" /\ UNCHANGED <<archive, creating, rfrom, rpos, changes>>
    BY <1>22 DEF RestoreFails
  <2>2. disk' \in [Files -> Found] /\ touched' \in [Creates -> SUBSET Files]
    <3>1. CASE UNCHANGED <<disk, touched, rtouched>>
      BY <1>1, <3>1 DEF Types
    <3>2. CASE /\ Readable
               /\ LET e == entries[rfrom][rpos + 1]
                  IN /\ disk' = [disk EXCEPT ![e.file] = [e.content EXCEPT !.len = 1]]
                     /\ Touch(e.file)
      <4>1. PICK e : e = entries[rfrom][rpos + 1]
        OBVIOUS
      <4>2. PICK x : x = [e.content EXCEPT !.len = 1]
        OBVIOUS
      <4>3. e.file \in Files /\ x \in Contents
        BY <1>20, <2>1, <3>2, <4>1, <4>2
      <4>4. disk' = [disk EXCEPT ![e.file] = x] /\ Touch(e.file)
        BY <3>2, <4>1, <4>2
      <4> QED
        BY <1>1, <4>3, <4>4, TouchFacts DEF Types, Found
    <3> QED
      BY <1>22, <3>1, <3>2 DEF RestoreFails
  <2>3. Types'
    BY <1>1, <2>1, <2>2 DEF Types, creating
  <2> QED
    BY <1>17, <2>1, <2>3 DEF creating
<1>23. CASE RestoreEnds
  <2>1. Types'
    BY <1>1, <1>23 DEF Types, RestoreEnds, creating
  <2> QED
    BY <1>17, <1>23, <2>1 DEF RestoreEnds, creating
<1>24. CASE Killed
  <2>1. Types'
    BY <1>1, <1>2, <1>24 DEF Types, Killed
  <2>2. Copied'
    BY <1>1, <1>24 DEF Types, Copied, Walking, Killed
  <2> QED
    BY <2>1, <2>2 DEF Shaped
<1>25. CASE UNCHANGED vars
  <2>1. Types'
    BY <1>1, <1>25 DEF Types, vars, creating, restoring
  <2> QED
    BY <1>17, <1>25, <2>1 DEF vars, creating
<1> QED
  BY <1>10, <1>11, <1>12, <1>13, <1>14, <1>15, <1>16, <1>18, <1>19, <1>21, <1>22, <1>23,
     <1>24, <1>25 DEF Next, CreateStep

(* The variables keep their types, for any files, backups and requests     *)
(* (backups.go:27-103, 127-184).                                           *)
THEOREM TypeCorrect == Spec => []TypeOK
BY ShapedInit, ShapedStep, TypesSuffice, PTL DEF Spec

-----------------------------------------------------------------------------
(* Whose the archive is *)

(* Whoever the archive is of has come for that backup and not failed.      *)
Holders ==
  \A a \in Archives, c \in Creates :
    archive[a] = c => uuid[c] = a /\ pc[c] \notin {"idle", "failed"}

Alone(c) == \A d \in Same(c) : pc[d] \in Over

(* A request that has met no other one has its archive to itself.          *)
Unrivalled ==
  \A c \in Creates : pc[c] \notin {"idle", "failed"} /\ c \notin rivals =>
    /\ Alone(c)
    /\ archive[uuid[c]] \in {c, Absent}
    /\ pc[c] = "ok" /\ c \notin deleted => archive[uuid[c]] = c

Keeping == Holders /\ Unrivalled

LEMMA KeepingInit == Init => Keeping
BY Sizes DEF Init, Keeping, Holders, Unrivalled

(* A step of a request at work that does not end it well.                  *)
LEMMA KeepingMove ==
  ASSUME Shaped, Keeping, NEW c \in Creates, pc[c] \notin Over,
         pc' \in [Creates -> Steps], pc'[c] \notin {"idle", "failed", "ok"},
         \A d \in Creates \ {c} : pc'[d] = pc[d],
         archive' = archive, uuid' = uuid, rivals' = rivals, deleted' = deleted
  PROVE  Keeping'
<1>1. pc[c] \notin {"idle", "failed", "ok"}
  BY DEF Over
<1>2. Holders'
  BY <1>1 DEF Keeping, Holders
<1>3. Unrivalled'
  <2> SUFFICES ASSUME NEW e \in Creates, pc'[e] \notin {"idle", "failed"}, e \notin rivals
               PROVE  /\ Alone(e)' /\ archive[uuid[e]] \in {e, Absent}
                      /\ pc'[e] = "ok" /\ e \notin deleted => archive[uuid[e]] = e
    BY DEF Unrivalled
  <2>1. pc[e] \notin {"idle", "failed"} /\ (pc'[e] = "ok" => pc[e] = "ok")
    BY <1>1
  <2>2. Alone(e) /\ archive[uuid[e]] \in {e, Absent}
        /\ (pc'[e] = "ok" /\ e \notin deleted => archive[uuid[e]] = e)
    BY <2>1 DEF Keeping, Unrivalled
  <2>3. c \notin Same(e)
    BY <2>2 DEF Alone
  <2>4. Alone(e)'
    BY <2>2, <2>3 DEF Alone, Same
  <2> QED
    BY <2>2, <2>4
<1> QED
  BY <1>2, <1>3 DEF Keeping

LEMMA KeepingStep == Shaped /\ Keeping /\ [Next]_vars => Keeping'
<1> SUFFICES ASSUME Shaped, Keeping, [Next]_vars PROVE Keeping'
  OBVIOUS
<1>1. Types /\ Holders /\ Unrivalled
  BY DEF Shaped, Keeping
<1>2. ASSUME UNCHANGED <<archive, uuid, pc, rivals, deleted>> PROVE Keeping'
  BY <1>1, <1>2 DEF Keeping, Holders, Unrivalled, Alone, Same
<1>3. ASSUME NEW c \in Creates,
             NoDirectory(c) \/ ReadNames(c) \/ WriteHeader(c) \/ OpenFile(c) \/ CopyFile(c)
               \/ WriteFails(c) \/ AbortClose(c) \/ RemoveFails(c) \/ CloseArchive(c)
      PROVE  Keeping'
  <2>1. /\ archive' = archive /\ uuid' = uuid /\ rivals' = rivals /\ deleted' = deleted
        /\ pc[c] \in {"readdir", "stat", "copy", "read", "abort", "remove"}
        /\ \E t \in {"abort", "stat", "copy", "read", "remove", "size", "closeFailed",
                    "notRemoved"} :
             Goto(c, t)
    BY <1>3 DEF NoDirectory, ReadNames, WriteHeader, OpenFile, CopyFile, WriteFails,
       AbortClose, RemoveFails, CloseArchive, WalkDone, Unchanged
  <2>2. pc' \in [Creates -> Steps] /\ pc'[c] \notin {"idle", "failed", "ok"}
        /\ \A d \in Creates \ {c} : pc'[d] = pc[d]
    BY <1>1, <2>1 DEF Types, Goto, Steps, Over
  <2>3. pc[c] \notin Over
    BY <2>1 DEF Over
  <2> QED
    BY <2>1, <2>2, <2>3, KeepingMove
<1>4. ASSUME NEW c \in Creates, RejectCreate(c) PROVE Keeping'
  <2>1. /\ archive' = archive /\ uuid' = uuid /\ rivals' = rivals /\ deleted' = deleted
        /\ pc[c] = "idle" /\ pc'[c] = "failed" /\ \A d \in Creates \ {c} : pc'[d] = pc[d]
    BY <1>1, <1>4 DEF RejectCreate, Goto, Types
  <2>2. Holders'
    BY <1>1, <2>1 DEF Holders
  <2>3. Unrivalled'
    BY <1>1, <2>1 DEF Unrivalled, Alone, Same, Over
  <2> QED
    BY <2>2, <2>3 DEF Keeping
<1>5. ASSUME NEW c \in Creates, OpenArchive(c) PROVE Keeping'
  <2>1. /\ archive' = [archive EXCEPT ![uuid[c]] = IF WritingTo(c) = {} THEN c ELSE Mixed]
        /\ uuid' = uuid /\ deleted' = deleted /\ uuid[c] \in Archives
        /\ pc[c] = "idle" /\ pc'[c] = "readdir" /\ (\A d \in Creates \ {c} : pc'[d] = pc[d])
        /\ rivals' = rivals \cup {d \in Same(c) : pc[d] # "idle"}
                            \cup (IF Same(c) \cap Running = {} THEN {} ELSE {c})
    BY <1>1, <1>5 DEF OpenArchive, Goto, Types
  <2>2. /\ \A a \in Archives \ {uuid[c]} : archive'[a] = archive[a]
        /\ archive'[uuid[c]] = IF WritingTo(c) = {} THEN c ELSE Mixed
    BY <1>1, <2>1 DEF Types
  <2>3. Holders'
    <3> SUFFICES ASSUME NEW a \in Archives, NEW e \in Creates, archive'[a] = e
                 PROVE  uuid[e] = a /\ pc'[e] \notin {"idle", "failed"}
      BY <2>1 DEF Holders
    <3>1. CASE a = uuid[c]
      BY <2>1, <2>2, <3>1, Sizes
    <3>2. CASE a # uuid[c]
      BY <1>1, <2>1, <2>2, <3>2 DEF Holders
    <3> QED
      BY <3>1, <3>2
  <2>4. Unrivalled'
    <3> SUFFICES ASSUME NEW e \in Creates, pc'[e] \notin {"idle", "failed"}, e \notin rivals'
                 PROVE  /\ Alone(e)' /\ archive'[uuid[e]] \in {e, Absent}
                        /\ pc'[e] = "ok" /\ e \notin deleted => archive'[uuid[e]] = e
      BY <2>1 DEF Unrivalled
    <3>1. CASE e = c
      <4>1. Same(c) \cap Running = {}
        BY <2>1, <3>1
      <4>2. WritingTo(c) = {}
        BY <4>1 DEF WritingTo
      <4>3. Alone(c)'
        BY <2>1, <4>1 DEF Alone, Same, Running
      <4> QED
        BY <2>1, <2>2, <3>1, <4>2, <4>3
    <3>2. CASE e # c
      <4>1. pc[e] # "idle" /\ e \notin Same(c) /\ uuid[e] # uuid[c]
        BY <2>1, <3>2 DEF Same
      <4>2. Alone(e) /\ archive[uuid[e]] \in {e, Absent} /\ uuid[e] \in Archives
            /\ (pc[e] = "ok" /\ e \notin deleted => archive[uuid[e]] = e)
        BY <1>1, <2>1, <3>2 DEF Unrivalled, Types
      <4>3. Alone(e)'
        BY <2>1, <4>1, <4>2 DEF Alone, Same
      <4> QED
        BY <2>1, <2>2, <3>2, <4>1, <4>2, <4>3
    <3> QED
      BY <3>1, <3>2
  <2> QED
    BY <2>3, <2>4 DEF Keeping
<1>6. ASSUME NEW c \in Creates, RemoveArchive(c) PROVE Keeping'
  <2>1. /\ archive' = [archive EXCEPT ![uuid[c]] = Absent]
        /\ uuid' = uuid /\ deleted' = deleted /\ rivals' = rivals /\ uuid[c] \in Archives
        /\ pc[c] = "remove" /\ pc'[c] = "failed" /\ \A d \in Creates \ {c} : pc'[d] = pc[d]
    BY <1>1, <1>6 DEF RemoveArchive, Unlink, Goto, Types
  <2>2. /\ \A a \in Archives \ {uuid[c]} : archive'[a] = archive[a]
        /\ archive'[uuid[c]] = Absent
    BY <1>1, <2>1 DEF Types
  <2>3. Holders'
    BY <1>1, <2>1, <2>2, Sizes DEF Holders
  <2>4. Unrivalled'
    <3> SUFFICES ASSUME NEW e \in Creates, pc'[e] \notin {"idle", "failed"}, e \notin rivals
                 PROVE  /\ Alone(e)' /\ archive'[uuid[e]] \in {e, Absent}
                        /\ pc'[e] = "ok" /\ e \notin deleted => archive'[uuid[e]] = e
      BY <2>1 DEF Unrivalled
    <3>1. e # c /\ pc[e] = pc'[e]
      BY <2>1
    <3>2. Alone(e) /\ archive[uuid[e]] \in {e, Absent} /\ uuid[e] \in Archives
          /\ (pc[e] = "ok" /\ e \notin deleted => archive[uuid[e]] = e)
      BY <1>1, <3>1 DEF Unrivalled, Types
    <3>3. uuid[e] # uuid[c]
      BY <2>1, <3>1, <3>2 DEF Alone, Same, Over
    <3>4. Alone(e)'
      BY <2>1, <3>2, <3>3 DEF Alone, Same
    <3> QED
      BY <2>2, <3>1, <3>2, <3>3, <3>4
  <2> QED
    BY <2>3, <2>4 DEF Keeping
<1>7. ASSUME NEW c \in Creates, SizeArchive(c) PROVE Keeping'
  <2>1. /\ archive' = archive /\ uuid' = uuid /\ rivals' = rivals /\ deleted' = deleted
        /\ pc[c] = "size" /\ pc'[c] = (IF archive[uuid[c]] = Absent THEN "failed" ELSE "ok")
        /\ \A d \in Creates \ {c} : pc'[d] = pc[d]
    BY <1>1, <1>7 DEF SizeArchive, Goto, Unchanged, Types
  <2>2. Holders'
    <3> SUFFICES ASSUME NEW a \in Archives, NEW e \in Creates, archive[a] = e
                 PROVE  uuid[e] = a /\ pc'[e] \notin {"idle", "failed"}
      BY <2>1 DEF Holders
    <3>1. uuid[e] = a /\ pc[e] \notin {"idle", "failed"}
      BY <1>1 DEF Holders
    <3> QED
      BY <2>1, <3>1, Sizes
  <2>3. Unrivalled'
    <3> SUFFICES ASSUME NEW e \in Creates, pc'[e] \notin {"idle", "failed"}, e \notin rivals
                 PROVE  /\ Alone(e)' /\ archive[uuid[e]] \in {e, Absent}
                        /\ pc'[e] = "ok" /\ e \notin deleted => archive[uuid[e]] = e
      BY <2>1 DEF Unrivalled
    <3>1. pc[e] \notin {"idle", "failed"}
      BY <2>1
    <3>2. Alone(e) /\ archive[uuid[e]] \in {e, Absent}
          /\ (pc[e] = "ok" /\ e \notin deleted => archive[uuid[e]] = e)
      BY <1>1, <3>1 DEF Unrivalled
    <3>3. Alone(e)'
      BY <2>1, <3>2 DEF Alone, Same, Over
    <3> QED
      BY <2>1, <3>2, <3>3
  <2> QED
    BY <2>2, <2>3 DEF Keeping
<1>8. ASSUME NEW a \in Archives, Delete(a) PROVE Keeping'
  <2>1. /\ archive' = [archive EXCEPT ![a] = Absent] /\ uuid' = uuid /\ pc' = pc
        /\ rivals' = rivals
        /\ deleted' = deleted \cup {c \in Creates : uuid[c] = a /\ pc[c] = "ok"}
    BY <1>8 DEF Delete, Unlink
  <2>2. archive'[a] = Absent /\ \A b \in Archives \ {a} : archive'[b] = archive[b]
    BY <1>1, <2>1 DEF Types
  <2>3. Holders'
    BY <1>1, <2>1, <2>2, Sizes DEF Holders
  <2>4. Unrivalled'
    <3> SUFFICES ASSUME NEW e \in Creates, pc[e] \notin {"idle", "failed"}, e \notin rivals
                 PROVE  /\ Alone(e) /\ archive'[uuid[e]] \in {e, Absent}
                        /\ pc[e] = "ok" /\ e \notin deleted' => archive'[uuid[e]] = e
      BY <2>1 DEF Unrivalled, Alone, Same
    <3>1. Alone(e) /\ archive[uuid[e]] \in {e, Absent} /\ uuid[e] \in Archives
          /\ (pc[e] = "ok" /\ e \notin deleted => archive[uuid[e]] = e)
      BY <1>1 DEF Unrivalled, Types
    <3> QED
      BY <2>1, <2>2, <3>1
  <2> QED
    BY <2>3, <2>4 DEF Keeping
<1>9. CASE Killed
  <2>1. /\ archive' = archive /\ uuid' = uuid /\ rivals' = rivals /\ deleted' = deleted
        /\ \A c \in Creates : pc'[c] = IF pc[c] \in Over THEN pc[c] ELSE "killed"
    BY <1>9 DEF Killed, Running
  <2>2. Holders'
    BY <1>1, <2>1 DEF Holders
  <2>3. Unrivalled'
    <3> SUFFICES ASSUME NEW e \in Creates, pc'[e] \notin {"idle", "failed"}, e \notin rivals
                 PROVE  /\ Alone(e)' /\ archive[uuid[e]] \in {e, Absent}
                        /\ pc'[e] = "ok" /\ e \notin deleted => archive[uuid[e]] = e
      BY <2>1 DEF Unrivalled
    <3>1. pc[e] \notin {"idle", "failed"} /\ (pc'[e] = "ok" => pc[e] = "ok")
      BY <2>1 DEF Over
    <3>2. Alone(e) /\ archive[uuid[e]] \in {e, Absent}
          /\ (pc[e] = "ok" /\ e \notin deleted => archive[uuid[e]] = e)
      BY <1>1, <3>1 DEF Unrivalled
    <3>3. Alone(e)'
      BY <2>1, <3>2 DEF Alone, Same
    <3> QED
      BY <3>1, <3>2, <3>3
  <2> QED
    BY <2>2, <2>3 DEF Keeping
<1>10. CASE (\E a \in Archives : RestoreOpen(a)) \/ Extract \/ RestoreFails \/ RestoreEnds
              \/ Change \/ UNCHANGED vars
  BY <1>2, <1>10 DEF RestoreOpen, Extract, RestoreFails, RestoreEnds, Change, creating, vars
<1> QED
  BY <1>3, <1>4, <1>5, <1>6, <1>7, <1>8, <1>9, <1>10 DEF Next, CreateStep

(* It stays true who may hold an archive, and that a request alone with    *)
(* its uuid holds its own (backups.go:36, 83, 97, 115-123).                *)
THEOREM KeepingHolds == Spec => []Keeping
<1>1. Spec => []Shaped
  BY ShapedInit, ShapedStep, PTL DEF Spec
<1> QED
  BY <1>1, KeepingInit, KeepingStep, PTL DEF Spec

(* The archive of a backup reported as created is there and its own, for   *)
(* as long as it is not deleted and no other request comes for its name.   *)
THEOREM ReportedIntactHolds == Spec => []ReportedIntact
<1>1. Keeping => ReportedIntact
  BY DEF Keeping, Unrivalled, ReportedIntact
<1> QED
  BY <1>1, KeepingHolds, PTL

(* Nothing of a create that failed in its walk is left under its name.     *)
THEOREM FailedLeavesNothingHolds == Spec => []FailedLeavesNothing
<1>1. Shaped /\ Keeping => FailedLeavesNothing
  BY DEF Shaped, Types, Keeping, Holders, FailedLeavesNothing
<1>2. Spec => []Shaped
  BY ShapedInit, ShapedStep, PTL DEF Spec
<1> QED
  BY <1>1, <1>2, KeepingHolds, PTL

-----------------------------------------------------------------------------
(* The walk *)

File(c, i) == entries[c][i].file
Whole(c, i) == entries[c][i].whole

(* No file is visited twice: it is yet to come, being copied, or in the    *)
(* archive, once.                                                          *)
Once(c) ==
  /\ \A i, j \in 1..Len(entries[c]) : File(c, i) = File(c, j) => i = j
  /\ \A i \in 1..Len(entries[c]) : File(c, i) \notin names[c]
  /\ Walking(c) => held[c].file \notin names[c]
                   /\ \A i \in 1..Len(entries[c]) : File(c, i) # held[c].file

(* Only the last file of an archive can be short, and not while another is *)
(* copied or once the archive has been closed.                             *)
Short(c) ==
  /\ \A i \in 1..(Len(entries[c]) - 1) : Whole(c, i)
  /\ Walking(c) \/ pc[c] \in {"size", "ok"} =>
       (\A i \in 1..Len(entries[c]) : Whole(c, i))

(* There is nothing in it before the names are read, and nothing left to   *)
(* visit when the walk is done.                                            *)
Ends(c) ==
  /\ pc[c] \in {"idle", "readdir"} => entries[c] = <<>>
  /\ pc[c] \in {"size", "ok"} => names[c] = {}

Walked == \A c \in Creates : Once(c) /\ Short(c) /\ Ends(c)

Stopped == {"abort", "remove", "failed", "notRemoved", "closeFailed", "killed"}

(* Nothing happens to a request, or it stops where it is.                  *)
LEMMA WalkedSame ==
  ASSUME NEW c \in Creates, Once(c), Short(c), Ends(c), entries'[c] = entries[c],
         names'[c] = names[c], held'[c] = held[c], pc'[c] \in {pc[c]} \cup Stopped
  PROVE  Once(c)' /\ Short(c)' /\ Ends(c)'
BY DEF Once, Short, Ends, File, Whole, Walking, Stopped

(* A file that was being copied is added.                                  *)
LEMMA WalkedAppend ==
  ASSUME NEW c \in Creates, Once(c), Short(c), Walking(c), entries[c] \in Seq(Entry),
         NEW e \in Entry, e.file = held[c].file, entries'[c] = Append(entries[c], e),
         names'[c] = names[c], pc'[c] \in {"abort", "stat"}
  PROVE  Once(c)' /\ Short(c)' /\ Ends(c)'
<1>1. PICK n \in Nat : n = Len(entries[c])
  OBVIOUS
<1>2. /\ Len(entries'[c]) = n + 1 /\ entries'[c][n + 1] = e
      /\ \A i \in 1..n : entries'[c][i] = entries[c][i]
  BY <1>1
<1>3. /\ \A i, j \in 1..n : File(c, i) = File(c, j) => i = j
      /\ \A i \in 1..n : File(c, i) \notin names[c] /\ File(c, i) # e.file /\ Whole(c, i)
      /\ e.file \notin names[c]
  BY <1>1 DEF Once, Short
<1>4. /\ File(c, n + 1)' = e.file
      /\ \A i \in 1..n : File(c, i)' = File(c, i) /\ Whole(c, i)' = Whole(c, i)
  BY <1>2 DEF File, Whole
<1>5. ~Walking(c)'
  BY DEF Walking
<1>6. 1..(n + 1) = 1..n \cup {n + 1} /\ 1..(n + 1 - 1) = 1..n /\ n + 1 \notin 1..n
  BY <1>1
<1>7. Once(c)'
  <2>1. ASSUME NEW i \in 1..(n + 1), NEW j \in 1..(n + 1), File(c, i)' = File(c, j)'
        PROVE  i = j
    BY <1>3, <1>4, <1>6, <2>1
  <2>2. \A i \in 1..(n + 1) : File(c, i)' \notin names'[c]
    BY <1>3, <1>4, <1>6
  <2> QED
    BY <1>2, <1>5, <2>1, <2>2 DEF Once
<1>8. Short(c)'
  BY <1>2, <1>3, <1>4, <1>5, <1>6 DEF Short
<1>9. Ends(c)'
  BY DEF Ends
<1> QED
  BY <1>7, <1>8, <1>9

(* A step of one request leaves the others' alone.                         *)
LEMMA WalkedOne ==
  ASSUME Walked, NEW c \in Creates, Once(c)' /\ Short(c)' /\ Ends(c)',
         \A d \in Creates \ {c} : /\ entries'[d] = entries[d] /\ names'[d] = names[d]
                                  /\ held'[d] = held[d] /\ pc'[d] = pc[d]
  PROVE  Walked'
<1>1. ASSUME NEW d \in Creates \ {c} PROVE Once(d)' /\ Short(d)' /\ Ends(d)'
  BY WalkedSame DEF Walked
<1> QED
  BY <1>1 DEF Walked

LEMMA WalkedInit == Init => Walked
BY DEF Init, Walked, Once, Short, Ends, Walking

(* What is got of a file that is copied, and how it is recorded.           *)
LEMMA CopyFileFacts ==
  ASSUME Shaped, NEW c \in Creates, CopyFile(c)
  PROVE  /\ Walking(c) /\ pc[c] = "read"
         /\ \E got \in Contents :
              /\ got \in {held[c].content, disk[held[c].file]}
              /\ \/ /\ got.len > hdr[c] /\ [got EXCEPT !.len = hdr[c]] \in Contents
                    /\ Record(c, [got EXCEPT !.len = hdr[c]], TRUE) /\ Goto(c, "abort")
                 \/ /\ ~(got.len > hdr[c])
                    /\ Record(c, got, got.len = hdr[c]) /\ Goto(c, "stat")
<1>1. pc[c] = "read" /\ Walking(c)
  BY DEF CopyFile, Walking
<1>2. PICK got \in {held[c].content, disk[held[c].file]} \ {Absent} :
        IF got.len > hdr[c]
        THEN Record(c, [got EXCEPT !.len = hdr[c]], TRUE) /\ Goto(c, "abort")
        ELSE Record(c, got, got.len = hdr[c]) /\ Goto(c, "stat")
  BY DEF CopyFile
<1>3. got \in Contents /\ hdr[c] \in 1..2
  BY <1>1, CopyFacts DEF Walking, Found
<1>4. [got EXCEPT !.len = hdr[c]] \in Contents
  BY <1>3, Sizes
<1> QED
  BY <1>1, <1>2, <1>3, <1>4

(* What is added to an archive, by either step that adds to it.            *)
LEMMA EntriesGrow ==
  ASSUME Shaped, NEW c \in Creates, OpenFile(c) \/ CopyFile(c)
  PROVE  /\ Walking(c) /\ names' = names /\ trailer' = trailer
         /\ \/ entries' = entries /\ pc'[c] = "read" /\ held'[c].file = held[c].file
            \/ /\ pc'[c] \in {"abort", "stat"}
               /\ \E e \in Entry : /\ e.file = held[c].file
                                   /\ entries' = [entries EXCEPT ![c] = Append(@, e)]
<1>1. pc \in [Creates -> Steps] /\ held[c].content \in Contents
  <2>1. pc[c] \in {"copy", "read"}
    BY DEF OpenFile, CopyFile
  <2> QED
    BY <2>1, CopyFacts DEF Shaped, Types
<1>2. Walking(c) /\ names' = names /\ trailer' = trailer
  BY DEF OpenFile, CopyFile, Walking
<1>3. ASSUME NEW x \in Contents, NEW w \in BOOLEAN, Record(c, x, w)
      PROVE  \E e \in Entry : /\ e.file = held[c].file
                              /\ entries' = [entries EXCEPT ![c] = Append(@, e)]
  BY <1>2, <1>3, RecordFacts
<1>4. CASE OpenFile(c)
  <2>1. CASE disk[held[c].file] = Absent
    <3>1. Record(c, held[c].content, FALSE) /\ Goto(c, "abort")
      BY <1>4, <2>1 DEF OpenFile
    <3> QED
      BY <1>1, <1>2, <1>3, <3>1 DEF Goto
  <2>2. CASE disk[held[c].file] # Absent
    <3>1. held[c] \in Held /\ held \in [Creates -> {Absent} \cup Held]
      BY <1>2 DEF Shaped, Copied, Types
    <3>2. held'[c].file = held[c].file
      BY <1>4, <2>2, <3>1 DEF OpenFile, Held
    <3> QED
      BY <1>1, <1>2, <1>4, <2>2, <3>2 DEF OpenFile, Goto
  <2> QED
    BY <2>1, <2>2
<1>5. CASE CopyFile(c)
  <2>1. \E x \in Contents, w \in BOOLEAN :
          Record(c, x, w) /\ (Goto(c, "abort") \/ Goto(c, "stat"))
    BY <1>5, CopyFileFacts
  <2> QED
    BY <1>1, <1>2, <1>3, <2>1 DEF Goto
<1> QED
  BY <1>4, <1>5

LEMMA WalkedStep == Shaped /\ Walked /\ [Next]_vars => Walked'
<1> SUFFICES ASSUME Shaped, Walked, [Next]_vars PROVE Walked'
  OBVIOUS
<1>1. /\ pc \in [Creates -> Steps] /\ names \in [Creates -> SUBSET Files]
      /\ entries \in [Creates -> Seq(Entry)] /\ held \in [Creates -> {Absent} \cup Held]
      /\ disk \in [Files -> Found]
  BY DEF Shaped, Types
<1>2. ASSUME entries' = entries, names' = names, held' = held, pc' = pc PROVE Walked'
  BY <1>2 DEF Walked, Once, Short, Ends, File, Whole, Walking
<1>3. ASSUME NEW c \in Creates,
             RejectCreate(c) \/ NoDirectory(c) \/ WriteFails(c) \/ AbortClose(c)
               \/ RemoveArchive(c) \/ RemoveFails(c)
      PROVE  Walked'
  <2>1. entries' = entries /\ names' = names /\ held' = held /\ pc'[c] \in Stopped
        /\ \A d \in Creates \ {c} : pc'[d] = pc[d]
    BY <1>1, <1>3 DEF RejectCreate, NoDirectory, WriteFails, AbortClose, RemoveArchive,
       RemoveFails, Unchanged, Goto, Stopped
  <2>2. Once(c)' /\ Short(c)' /\ Ends(c)'
    BY <2>1, WalkedSame DEF Walked
  <2> QED
    BY <2>1, <2>2, WalkedOne
<1>4. ASSUME NEW c \in Creates, OpenArchive(c) \/ SizeArchive(c) \/ CloseArchive(c)
      PROVE  Walked'
  <2>1. /\ entries' = entries /\ names' = names /\ held' = held
        /\ \A d \in Creates \ {c} : pc'[d] = pc[d]
        /\ \/ pc[c] = "idle" /\ pc'[c] = "readdir"
           \/ pc[c] = "size" /\ pc'[c] \in {"ok", "failed"}
           \/ pc[c] = "stat" /\ pc'[c] \in {"size", "closeFailed"} /\ names[c] = {}
              /\ (pc'[c] = "size" => ~LastShort(c))
    BY <1>1, <1>4 DEF OpenArchive, SizeArchive, CloseArchive, WalkDone, Goto, Unchanged
  <2>2. LastShort(c) \/ \A i \in 1..Len(entries[c]) : Whole(c, i)
    BY <1>1 DEF Walked, Short, LastShort, Last, Whole
  <2>3. Once(c)' /\ Short(c)' /\ Ends(c)'
    BY <2>1, <2>2 DEF Walked, Once, Short, Ends, File, Whole, Walking
  <2> QED
    BY <2>1, <2>3, WalkedOne
<1>5. ASSUME NEW c \in Creates, ReadNames(c) PROVE Walked'
  <2>1. /\ entries' = entries /\ held' = held /\ pc'[c] = "stat" /\ entries[c] = <<>>
        /\ \A d \in Creates \ {c} : pc'[d] = pc[d] /\ names'[d] = names[d]
    BY <1>1, <1>5 DEF ReadNames, Goto, Walked, Ends
  <2>2. Once(c)' /\ Short(c)' /\ Ends(c)'
    BY <2>1 DEF Once, Short, Ends, Walking
  <2> QED
    BY <2>1, <2>2, WalkedOne
<1>6. ASSUME NEW c \in Creates, WriteHeader(c) PROVE Walked'
  <2>1. /\ pc[c] = "stat" /\ entries' = entries
        /\ \A d \in Creates \ {c} :
             pc'[d] = pc[d] /\ names'[d] = names[d] /\ held'[d] = held[d]
        /\ \/ pc'[c] = "abort" /\ names' = names /\ held' = held
           \/ /\ ~LastShort(c) /\ pc'[c] = "copy"
              /\ \E f \in names[c] : names'[c] = names[c] \ {f} /\ held'[c].file = f
    BY <1>1, <1>6 DEF WriteHeader, Goto
  <2>2. CASE pc'[c] = "abort" /\ names' = names /\ held' = held
    <3>1. Once(c)' /\ Short(c)' /\ Ends(c)'
      BY <2>1, <2>2, WalkedSame DEF Walked, Stopped
    <3> QED
      BY <2>1, <3>1, WalkedOne
  <2>3. CASE /\ ~LastShort(c) /\ pc'[c] = "copy"
             /\ \E f \in names[c] : names'[c] = names[c] \ {f} /\ held'[c].file = f
    <3>1. \A i \in 1..Len(entries[c]) : Whole(c, i)
      BY <1>1, <2>3 DEF Walked, Short, LastShort, Last, Whole
    <3>2. Once(c) /\ Short(c) /\ Ends(c)
      BY DEF Walked
    <3>3. Once(c)'
      BY <2>1, <2>3, <3>2 DEF Once, File
    <3>4. Short(c)' /\ Ends(c)'
      BY <2>1, <2>3, <3>1, <3>2 DEF Short, Ends, Whole
    <3> QED
      BY <2>1, <3>3, <3>4, WalkedOne
  <2> QED
    BY <2>1, <2>2, <2>3
<1>7. ASSUME NEW c \in Creates, OpenFile(c) \/ CopyFile(c) PROVE Walked'
  <2>1. /\ Walking(c) /\ names' = names
        /\ \A d \in Creates \ {c} :
             pc'[d] = pc[d] /\ held'[d] = held[d]
    BY <1>1, <1>7, EntriesGrow DEF OpenFile, CopyFile, Goto
  <2>2. CASE entries' = entries /\ pc'[c] = "read" /\ held'[c].file = held[c].file
    <3>1. Once(c)' /\ Short(c)' /\ Ends(c)'
      BY <2>1, <2>2 DEF Walked, Once, Short, Ends, File, Whole, Walking
    <3> QED
      BY <2>1, <2>2, <3>1, WalkedOne
  <2>3. CASE /\ pc'[c] \in {"abort", "stat"}
             /\ \E e \in Entry : /\ e.file = held[c].file
                                 /\ entries' = [entries EXCEPT ![c] = Append(@, e)]
    <3>1. PICK e \in Entry : e.file = held[c].file
                             /\ entries' = [entries EXCEPT ![c] = Append(@, e)]
      BY <2>3
    <3>2. entries'[c] = Append(entries[c], e)
          /\ \A d \in Creates \ {c} : entries'[d] = entries[d]
      BY <1>1, <3>1
    <3>3. Once(c)' /\ Short(c)' /\ Ends(c)'
      BY <1>1, <2>1, <2>3, <3>1, <3>2, WalkedAppend DEF Walked
    <3> QED
      BY <2>1, <3>2, <3>3, WalkedOne
  <2> QED
    BY <1>7, <2>2, <2>3, EntriesGrow
<1>8. CASE Killed
  <2>1. ASSUME NEW d \in Creates PROVE Once(d)' /\ Short(d)' /\ Ends(d)'
    <3>1. entries' = entries /\ names' = names /\ held' = held /\ pc'[d] \in {pc[d]} \cup Stopped
      BY <1>8 DEF Killed, Stopped
    <3> QED
      BY <3>1, WalkedSame DEF Walked
  <2> QED
    BY <2>1 DEF Walked
<1>9. CASE (\E a \in Archives : Delete(a) \/ RestoreOpen(a)) \/ Extract \/ RestoreFails
             \/ RestoreEnds \/ Change \/ UNCHANGED vars
  BY <1>2, <1>9 DEF Delete, RestoreOpen, Extract, RestoreFails, RestoreEnds, Change,
     creating, vars
<1> QED
  BY <1>3, <1>4, <1>5, <1>6, <1>7, <1>8, <1>9 DEF Next, CreateStep

-----------------------------------------------------------------------------
(* The restore *)

(* An archive that has its trailer is not written to any more.             *)
Closed == \A c \in trailer : pc[c] \in {"remove", "size", "ok"} \cup (Over \ {"idle"})

(* What has been extracted was whole, and is still there unless somebody   *)
(* has changed it since.                                                   *)
Extracted(c, i) ==
  Whole(c, i) /\ (File(c, i) \in rtouched \/ disk[File(c, i)] = entries[c][i].content)

Restored ==
  /\ rpc \in {"extract", "ok"} /\ rfrom \in Creates =>
       rpos <= Len(entries[rfrom]) /\ \A i \in 1..rpos : Extracted(rfrom, i)
  /\ rpc = "ok" => rfrom \in trailer /\ rpos = Len(entries[rfrom])

LEMMA ClosedStep == Shaped /\ Closed /\ [Next]_vars => Closed'
<1> SUFFICES ASSUME Shaped, Closed, [Next]_vars PROVE Closed'
  OBVIOUS
<1>1. pc \in [Creates -> Steps] /\ trailer \subseteq Creates
  BY DEF Shaped, Types
<1>2. ASSUME NEW c \in Creates, CreateStep(c) PROVE Closed'
  <2>1. /\ \A d \in Creates \ {c} : pc'[d] = pc[d]
        /\ \/ trailer' = trailer
           \/ trailer' = trailer \cup {c} /\ pc'[c] \in {"remove", "size"}
    BY <1>1, <1>2 DEF CreateStep, RejectCreate, OpenArchive, NoDirectory, ReadNames,
       WriteHeader, OpenFile, CopyFile, WriteFails, AbortClose, RemoveArchive, RemoveFails, CloseArchive,
       SizeArchive, WalkDone, Unchanged, Goto
  <2>2. pc[c] \in {"remove", "size", "ok"} \cup (Over \ {"idle"}) => pc'[c] \in {"ok", "failed", "notRemoved"}
    BY <1>1, <1>2 DEF CreateStep, RejectCreate, OpenArchive, NoDirectory, ReadNames,
       WriteHeader, OpenFile, CopyFile, WriteFails, AbortClose, RemoveArchive, RemoveFails, CloseArchive,
       SizeArchive, WalkDone, Over, Goto
  <2> QED
    BY <1>1, <2>1, <2>2 DEF Closed, Over
<1>3. CASE Killed
  BY <1>1, <1>3 DEF Closed, Killed, Over, Running
<1>4. CASE (\E a \in Archives : Delete(a) \/ RestoreOpen(a)) \/ Extract \/ RestoreFails
             \/ RestoreEnds \/ Change \/ UNCHANGED vars
  BY <1>4 DEF Closed, Delete, RestoreOpen, Extract, RestoreFails, RestoreEnds, Change,
     creating, vars
<1> QED
  BY <1>2, <1>3, <1>4 DEF Next

(* What a step of a create request is to a restore.                        *)
LEMMA CreateStepFacts ==
  ASSUME Shaped, NEW c \in Creates, CreateStep(c)
  PROVE  /\ UNCHANGED <<disk, rtouched, rpc, rpos>> /\ trailer \subseteq trailer'
         /\ rfrom' = rfrom \/ (rfrom' = Mixed /\ rpc = "extract")
         /\ \A d \in Creates :
              \/ entries'[d] = entries[d]
              \/ pc[d] \in {"copy", "read"} /\ \E e \in Entry : entries'[d] = Append(entries[d], e)
<1>1. UNCHANGED <<disk, rtouched, rpc, rpos>> /\ trailer \subseteq trailer'
  BY DEF CreateStep, RejectCreate, OpenArchive, NoDirectory, ReadNames, WriteHeader, OpenFile,
     CopyFile, WriteFails, AbortClose, RemoveArchive, RemoveFails, CloseArchive, SizeArchive, Unchanged,
     restoring
<1>2. rfrom' = rfrom \/ (rfrom' = Mixed /\ rpc = "extract")
  <2>1. CASE OpenArchive(c)
    BY <2>1 DEF OpenArchive
  <2>2. CASE ~OpenArchive(c)
    BY <2>2 DEF CreateStep, RejectCreate, NoDirectory, ReadNames, WriteHeader, OpenFile,
       CopyFile, WriteFails, AbortClose, RemoveArchive, RemoveFails, CloseArchive, SizeArchive, Unchanged,
       restoring
  <2> QED
    BY <2>1, <2>2
<1>3. CASE OpenFile(c) \/ CopyFile(c)
  <2>1. \/ entries' = entries
        \/ \E e \in Entry : entries' = [entries EXCEPT ![c] = Append(@, e)]
    BY <1>3, EntriesGrow
  <2>2. Walking(c) /\ entries \in [Creates -> Seq(Entry)]
    BY <1>3, EntriesGrow DEF Shaped, Types
  <2>3. \A d \in Creates :
              \/ entries'[d] = entries[d]
              \/ pc[d] \in {"copy", "read"} /\ \E e \in Entry : entries'[d] = Append(entries[d], e)
    BY <2>1, <2>2 DEF Walking
  <2> QED
    BY <1>1, <1>2, <2>3
<1>4. CASE ~(OpenFile(c) \/ CopyFile(c))
  <2>1. entries' = entries
    BY <1>4 DEF CreateStep, RejectCreate, OpenArchive, NoDirectory, ReadNames, WriteHeader,
     WriteFails, AbortClose, RemoveArchive, RemoveFails, CloseArchive, SizeArchive, Unchanged
  <2> QED
    BY <1>1, <1>2, <2>1
<1> QED
  BY <1>3, <1>4

(* The directory changes at one file, which was not yet extracted or is    *)
(* noted as touched.                                                       *)
LEMMA RestoredChange ==
  ASSUME Shaped, Restored, NEW f \in Files, NEW x, disk' = [disk EXCEPT ![f] = x],
         rtouched' = rtouched \cup {f}, entries' = entries, rpos' = rpos, rfrom' = rfrom,
         trailer' = trailer, rpc' \in {rpc, "failed"}
  PROVE  Restored'
<1>1. \A g \in Files : disk'[g] = disk[g] \/ g \in rtouched'
  BY DEF Shaped, Types
<1>2. ASSUME NEW c \in Creates, NEW i \in 1..Len(entries[c]), Extracted(c, i)
      PROVE  Extracted(c, i)'
  <2>1. entries[c][i] \in Entry
    BY ElementOfSeq, Zenon DEF Shaped, Types
  <2>2. File(c, i) \in Files
    BY <2>1 DEF File, Entry
  <2> QED
    BY <1>1, <1>2, <2>2 DEF Extracted, File, Whole
<1>3. ASSUME rpc \in {"extract", "ok"}, rfrom \in Creates
      PROVE  rpos <= Len(entries[rfrom]) /\ \A i \in 1..rpos : Extracted(rfrom, i)'
  <2>1. rpos <= Len(entries[rfrom]) /\ (\A i \in 1..rpos : Extracted(rfrom, i))
        /\ rpos \in Nat /\ Len(entries[rfrom]) \in Nat
    BY <1>3 DEF Restored, Shaped, Types
  <2>2. 1..rpos \subseteq 1..Len(entries[rfrom])
    BY <2>1
  <2> QED
    BY <1>2, <1>3, <2>1, <2>2
<1> QED
  BY <1>3 DEF Restored, Extracted, File, Whole

LEMMA RestoredStep == Shaped /\ Walked /\ Closed /\ Restored /\ [Next]_vars => Restored'
<1> SUFFICES ASSUME Shaped, Walked, Closed, Restored, [Next]_vars PROVE Restored'
  OBVIOUS
<1>1. /\ entries \in [Creates -> Seq(Entry)] /\ rpos \in Nat /\ disk \in [Files -> Found]
      /\ trailer \subseteq Creates
  BY DEF Shaped, Types
<1>2. ASSUME UNCHANGED <<disk, rtouched, entries, rfrom, rpos, trailer>>, rpc' \in {rpc, "failed"}
      PROVE  Restored'
  BY <1>2 DEF Restored, Extracted, File, Whole
<1>3. ASSUME NEW c \in Creates, CreateStep(c) PROVE Restored'
  <2>1. /\ disk' = disk /\ rtouched' = rtouched /\ rpc' = rpc /\ rpos' = rpos
        /\ trailer \subseteq trailer'
        /\ rfrom' = rfrom \/ (rfrom' = Mixed /\ rpc = "extract")
        /\ \A d \in Creates :
              \/ entries'[d] = entries[d]
              \/ pc[d] \in {"copy", "read"} /\ \E e \in Entry : entries'[d] = Append(entries[d], e)
    BY <1>3, CreateStepFacts
  <2>2. ASSUME rpc \in {"extract", "ok"}, rfrom' \in Creates
        PROVE  rpos <= Len(entries'[rfrom]) /\ \A i \in 1..rpos : Extracted(rfrom, i)'
    <3>1. rfrom' = rfrom /\ rfrom \in Creates /\ rpos <= Len(entries[rfrom])
          /\ \A i \in 1..rpos : Extracted(rfrom, i)
      BY <2>1, <2>2, Sizes DEF Restored
    <3>2. /\ Len(entries[rfrom]) <= Len(entries'[rfrom]) /\ Len(entries'[rfrom]) \in Nat
          /\ Len(entries[rfrom]) \in Nat
          /\ \A i \in 1..Len(entries[rfrom]) : entries'[rfrom][i] = entries[rfrom][i]
      <4>1. entries[rfrom] \in Seq(Entry)
        BY <1>1, <3>1
      <4>2. CASE entries'[rfrom] = entries[rfrom]
        BY <4>1, <4>2
      <4>3. ASSUME NEW e \in Entry, entries'[rfrom] = Append(entries[rfrom], e)
            PROVE  /\ Len(entries[rfrom]) <= Len(entries'[rfrom]) /\ Len(entries'[rfrom]) \in Nat
                   /\ Len(entries[rfrom]) \in Nat
                   /\ \A i \in 1..Len(entries[rfrom]) : entries'[rfrom][i] = entries[rfrom][i]
        BY <4>1, <4>3
      <4> QED
        BY <2>1, <3>1, <4>2, <4>3
    <3>3. rpos <= Len(entries'[rfrom]) /\ 1..rpos \subseteq 1..Len(entries[rfrom])
      BY <1>1, <3>1, <3>2
    <3> QED
      BY <2>1, <3>1, <3>2, <3>3 DEF Extracted, File, Whole
  <2>3. ASSUME rpc = "ok" PROVE rfrom' \in trailer' /\ rpos = Len(entries'[rfrom'])
    <3>1. rfrom' = rfrom /\ rfrom \in trailer /\ rpos = Len(entries[rfrom])
      BY <2>1, <2>3 DEF Restored
    <3>2. pc[rfrom] \notin {"copy", "read"} /\ rfrom \in Creates
      BY <1>1, <3>1 DEF Closed, Over
    <3> QED
      BY <2>1, <3>1, <3>2
  <2>4. rfrom' \in Creates => rfrom' = rfrom
    BY <2>1, Sizes
  <2> QED
    BY <2>1, <2>2, <2>3, <2>4 DEF Restored
<1>4. ASSUME NEW a \in Archives, RestoreOpen(a) PROVE Restored'
  <2>1. rpc' = "extract" /\ rpos' = 0 /\ entries' = entries
        /\ rfrom' \in Creates \cup {Absent, Mixed}
    BY <1>4 DEF RestoreOpen, creating, Shaped, Types
  <2> QED
    BY <1>1, <2>1 DEF Restored
<1>5. CASE Extract
  <2>1. PICK c, k : c = rfrom /\ k = rpos + 1
    OBVIOUS
  <2>2. PICK e : e = entries[c][k]
    OBVIOUS
  <2>3. /\ disk' = [disk EXCEPT ![e.file] = e.content] /\ rpos' = k
        /\ rtouched' = rtouched \ {e.file} /\ e.whole
        /\ entries' = entries /\ rpc' = "extract" /\ rfrom' = c
        /\ rpc = "extract" /\ c \in Creates /\ rpos < Len(entries[c])
    BY <1>5, <2>1, <2>2 DEF Extract, Readable, creating
  <2>4. PICK n \in Nat : n = Len(entries[c])
    BY <1>1, <2>3
  <2>5. /\ k \in 1..n /\ k <= n /\ 1..rpos \subseteq 1..n /\ k \notin 1..rpos
        /\ 1..k = 1..rpos \cup {k}
    BY <1>1, <2>1, <2>3, <2>4
  <2>6. \A i \in 1..n : File(c, i) \in Files
    <3> SUFFICES ASSUME NEW i \in 1..n PROVE File(c, i) \in Files
      OBVIOUS
    <3>1. entries[c][i] \in Entry
      BY <1>1, <2>3, <2>4, ElementOfSeq, Zenon
    <3> QED
      BY <3>1 DEF File, Entry
  <2>7. e.file = File(c, k) /\ e.whole = Whole(c, k)
    BY <2>2 DEF File, Whole
  <2>8. Extracted(c, k)'
    <3>1. disk'[e.file] = e.content
      BY <1>1, <2>3, <2>5, <2>6, <2>7
    <3> QED
      BY <2>2, <2>3, <2>7, <3>1 DEF Extracted, File, Whole
  <2>9. ASSUME NEW i \in 1..rpos PROVE Extracted(c, i)'
    <3>1. Extracted(c, i) /\ i \in 1..n /\ i # k
      BY <2>1, <2>3, <2>5 DEF Restored
    <3>2. File(c, i) # e.file /\ File(c, i) \in Files
      BY <2>3, <2>4, <2>5, <2>6, <2>7, <3>1 DEF Walked, Once
    <3> QED
      BY <1>1, <2>3, <3>1, <3>2 DEF Extracted, File, Whole
  <2>10. \A i \in 1..k : Extracted(c, i)'
    BY <2>5, <2>8, <2>9
  <2> QED
    BY <2>3, <2>4, <2>5, <2>10 DEF Restored
<1>6. CASE RestoreFails
  <2>1. rpc = "extract" /\ rpc' = "failed" /\ UNCHANGED <<archive, creating, rfrom, rpos>>
    BY <1>6 DEF RestoreFails
  <2> QED
    BY <2>1 DEF Restored
<1>7. CASE RestoreEnds
  <2>1. /\ rpc = "extract" /\ rfrom \in trailer /\ rfrom \in Creates /\ ~(rpos < Len(entries[rfrom]))
        /\ rpc' = "ok" /\ UNCHANGED <<disk, rtouched, entries, rfrom, rpos, trailer>>
    BY <1>1, <1>7 DEF RestoreEnds, Readable, creating
  <2>2. rpos = Len(entries[rfrom])
    BY <1>1, <2>1 DEF Restored
  <2>3. \A i \in 1..rpos : Extracted(rfrom, i)'
    BY <2>1 DEF Restored, Extracted, File, Whole
  <2> QED
    BY <1>1, <2>1, <2>2, <2>3 DEF Restored
<1>8. CASE Change
  <2>1. PICK f \in Files, new \in Contents \cup {Absent} :
          disk' = [disk EXCEPT ![f] = new] /\ Touch(f)
    BY <1>8 DEF Change
  <2>2. rtouched' = rtouched \cup {f}
    BY <2>1 DEF Touch
  <2>3. entries' = entries /\ rpos' = rpos /\ rfrom' = rfrom /\ trailer' = trailer /\ rpc' = rpc
    BY <1>8 DEF Change, creating, restoring
  <2> QED
    BY <2>1, <2>2, <2>3, RestoredChange
<1>9. CASE (\E a \in Archives : Delete(a)) \/ Killed \/ UNCHANGED vars
  BY <1>2, <1>9 DEF Delete, Killed, creating, restoring, vars
<1> QED
  BY <1>3, <1>4, <1>5, <1>6, <1>7, <1>8, <1>9 DEF Next

(* Files are visited once, and what a restore has extracted is there       *)
(* (backups.go:46-57, 156-184).                                            *)
THEOREM RestoredHolds == Spec => [](Walked /\ Restored)
<1>1. Init => Walked /\ Closed /\ Restored
  BY WalkedInit DEF Init, Closed, Restored
<1>2. Shaped /\ Walked /\ Closed /\ Restored /\ [Next]_vars => Walked' /\ Closed' /\ Restored'
  BY WalkedStep, ClosedStep, RestoredStep
<1>3. Spec => []Shaped
  BY ShapedInit, ShapedStep, PTL DEF Spec
<1> QED
  BY <1>1, <1>2, <1>3, PTL DEF Spec

(* A restore that reports success has extracted all of an archive that was *)
(* written to its end, and what it wrote is what nobody has changed since  *)
(* (backups.go:147-184).                                                   *)
THEOREM RestoreExactHolds == Spec => []RestoreExact
<1>1. Shaped /\ Restored => RestoreExact
  <2> SUFFICES ASSUME Shaped, Restored, rpc = "ok", rfrom \in trailer,
                      rpos = Len(entries[rfrom]), NEW e \in ToSet(entries[rfrom])
               PROVE  e.whole /\ (e.file \in rtouched \/ disk[e.file] = e.content)
    BY DEF RestoreExact, Restored
  <2>1. rfrom \in Creates /\ entries[rfrom] \in Seq(Entry)
    BY DEF Shaped, Types
  <2>2. PICK i \in 1..rpos : e = entries[rfrom][i]
    BY <2>1 DEF ToSet
  <2> QED
    BY <2>1, <2>2 DEF Restored, Extracted, File, Whole
<1>2. Spec => []Shaped
  BY ShapedInit, ShapedStep, PTL DEF Spec
<1> QED
  BY <1>1, <1>2, RestoredHolds, PTL

-----------------------------------------------------------------------------
(* What is in the archive *)

Content(c, i) == entries[c][i].content

(* A walk sees what was there when it began, where nobody has been since.  *)
Sees(c) ==
  pc[c] \in {"stat", "copy", "read"} =>
    \A f \in Files \ touched[c] : disk[f] = snap[c][f]

(* So does what it holds of the file it copies, and that file's header.    *)
HeldTrue(c) ==
  Walking(c) /\ held[c].file \notin touched[c] =>
    held[c].content = snap[c][held[c].file] /\ hdr[c] = held[c].content.len

(* What is in the archive is true to the beginning of the walk, and every  *)
(* file that was there then is in the archive, or comes, or is at hand.    *)
Taken(c) ==
  pc[c] \in {"stat", "copy", "read", "size", "ok"} =>
    /\ \A i \in 1..Len(entries[c]) :
         File(c, i) \notin touched[c] => Content(c, i) = snap[c][File(c, i)]
    /\ \A f \in Files \ touched[c] : snap[c][f] # Absent =>
         \/ f \in names[c]
         \/ Walking(c) /\ f = held[c].file
         \/ \E i \in 1..Len(entries[c]) : File(c, i) = f

Faithful == \A c \in Creates : Sees(c) /\ HeldTrue(c) /\ Taken(c)

(* A request stops, or goes on as before while others touch files.         *)
LEMMA FaithfulSame ==
  ASSUME NEW c \in Creates, Sees(c), HeldTrue(c), Taken(c), entries'[c] = entries[c],
         names'[c] = names[c], held'[c] = held[c], hdr'[c] = hdr[c], snap'[c] = snap[c],
         touched[c] \subseteq touched'[c], pc'[c] \in {pc[c]} \cup Stopped,
         pc[c] \in {"stat", "copy", "read"} =>
           (\A f \in Files : disk'[f] = disk[f] \/ f \in touched'[c])
  PROVE  Sees(c)' /\ HeldTrue(c)' /\ Taken(c)'
<1>1. CASE pc'[c] = pc[c]
  <2>1. Sees(c)'
    BY <1>1 DEF Sees
  <2>2. HeldTrue(c)'
    BY <1>1 DEF HeldTrue, Walking
  <2>3. Taken(c)'
    BY <1>1 DEF Taken, Walking, File, Content
  <2> QED
    BY <2>1, <2>2, <2>3
<1>2. CASE pc'[c] \in Stopped
  BY <1>2 DEF Sees, HeldTrue, Taken, Walking, Stopped
<1> QED
  BY <1>1, <1>2

(* A step of one request leaves the others' alone.                         *)
LEMMA FaithfulOne ==
  ASSUME Faithful, NEW c \in Creates, Sees(c)' /\ HeldTrue(c)' /\ Taken(c)', disk' = disk,
         \A d \in Creates \ {c} :
           /\ entries'[d] = entries[d] /\ names'[d] = names[d] /\ held'[d] = held[d]
           /\ hdr'[d] = hdr[d] /\ snap'[d] = snap[d] /\ touched'[d] = touched[d]
           /\ pc'[d] = pc[d]
  PROVE  Faithful'
<1>1. ASSUME NEW d \in Creates \ {c} PROVE Sees(d)' /\ HeldTrue(d)' /\ Taken(d)'
  BY FaithfulSame DEF Faithful
<1> QED
  BY <1>1 DEF Faithful

(* Files are touched.                                                      *)
LEMMA FaithfulTouch ==
  ASSUME Faithful, entries' = entries, names' = names, held' = held, hdr' = hdr, snap' = snap,
         pc' = pc, \A c \in Creates : touched[c] \subseteq touched'[c],
         \A c \in Running, f \in Files : disk'[f] = disk[f] \/ f \in touched'[c]
  PROVE  Faithful'
<1>1. ASSUME NEW c \in Creates PROVE Sees(c)' /\ HeldTrue(c)' /\ Taken(c)'
  <2>1. pc[c] \in {"stat", "copy", "read"} => c \in Running
    BY DEF Running, Over
  <2> QED
    BY <2>1, FaithfulSame DEF Faithful
<1> QED
  BY <1>1 DEF Faithful

(* A file is added to the archive and the walk goes on.                    *)
LEMMA FaithfulAppend ==
  ASSUME NEW c \in Creates, Sees(c), Taken(c), Walking(c), entries[c] \in Seq(Entry),
         NEW e \in Entry, e.file = held[c].file,
         e.file \notin touched[c] => e.content = snap[c][e.file],
         entries'[c] = Append(entries[c], e), names'[c] = names[c], snap'[c] = snap[c],
         touched'[c] = touched[c], disk' = disk, pc'[c] = "stat"
  PROVE  Sees(c)' /\ HeldTrue(c)' /\ Taken(c)'
<1>1. PICK n \in Nat : n = Len(entries[c])
  OBVIOUS
<1>2. /\ Len(entries'[c]) = n + 1 /\ entries'[c][n + 1] = e
      /\ \A i \in 1..n : entries'[c][i] = entries[c][i]
  BY <1>1
<1>3. 1..(n + 1) = 1..n \cup {n + 1}
  BY <1>1
<1>4. pc[c] \in {"copy", "read"}
  BY DEF Walking
<1>5. Sees(c)' /\ HeldTrue(c)'
  BY <1>4 DEF Sees, HeldTrue, Walking
<1>6. /\ \A i \in 1..n : File(c, i) \notin touched[c] => Content(c, i) = snap[c][File(c, i)]
      /\ \A f \in Files \ touched[c] : snap[c][f] # Absent =>
           f \in names[c] \/ f = held[c].file \/ \E i \in 1..n : File(c, i) = f
  BY <1>1, <1>4 DEF Taken
<1>7. /\ File(c, n + 1)' = e.file /\ Content(c, n + 1)' = e.content
      /\ \A i \in 1..n : File(c, i)' = File(c, i) /\ Content(c, i)' = Content(c, i)
  BY <1>2 DEF File, Content
<1>8. \A i \in 1..(n + 1) :
        File(c, i)' \notin touched[c] => Content(c, i)' = snap[c][File(c, i)']
  BY <1>3, <1>6, <1>7
<1>9. \A f \in Files \ touched[c] : snap[c][f] # Absent =>
        f \in names[c] \/ \E i \in 1..(n + 1) : File(c, i)' = f
  BY <1>3, <1>6, <1>7
<1>10. Taken(c)'
  BY <1>2, <1>8, <1>9 DEF Taken
<1> QED
  BY <1>5, <1>10

LEMMA FaithfulStep == Shaped /\ Walked /\ Faithful /\ [Next]_vars => Faithful'
<1> SUFFICES ASSUME Shaped, Walked, Faithful, [Next]_vars PROVE Faithful'
  OBVIOUS
<1>1. /\ pc \in [Creates -> Steps] /\ names \in [Creates -> SUBSET Files]
      /\ entries \in [Creates -> Seq(Entry)] /\ held \in [Creates -> {Absent} \cup Held]
      /\ disk \in [Files -> Found] /\ hdr \in [Creates -> 0..2]
      /\ snap \in [Creates -> [Files -> Found]] /\ touched \in [Creates -> SUBSET Files]
  BY DEF Shaped, Types
<1>2. ASSUME NEW c \in Creates,
             RejectCreate(c) \/ NoDirectory(c) \/ WriteFails(c) \/ AbortClose(c)
               \/ RemoveArchive(c) \/ RemoveFails(c)
      PROVE  Faithful'
  <2>1. /\ entries' = entries /\ names' = names /\ held' = held /\ hdr' = hdr /\ snap' = snap
        /\ touched' = touched /\ disk' = disk /\ pc'[c] \in Stopped
        /\ \A d \in Creates \ {c} : pc'[d] = pc[d]
    BY <1>1, <1>2 DEF RejectCreate, NoDirectory, WriteFails, AbortClose, RemoveArchive,
       RemoveFails, Unchanged, Goto, Stopped
  <2>2. Sees(c)' /\ HeldTrue(c)' /\ Taken(c)'
    BY <2>1, FaithfulSame DEF Faithful
  <2> QED
    BY <2>1, <2>2, FaithfulOne
<1>3. ASSUME NEW c \in Creates, OpenArchive(c) \/ SizeArchive(c) \/ CloseArchive(c)
      PROVE  Faithful'
  <2>1. /\ entries' = entries /\ names' = names /\ held' = held /\ hdr' = hdr /\ snap' = snap
        /\ touched' = touched /\ disk' = disk
        /\ \A d \in Creates \ {c} : pc'[d] = pc[d]
        /\ \/ pc'[c] \in {"readdir", "closeFailed", "failed"}
           \/ pc[c] = "size" /\ pc'[c] = "ok"
           \/ pc[c] = "stat" /\ pc'[c] = "size"
    BY <1>1, <1>3 DEF OpenArchive, SizeArchive, CloseArchive, WalkDone, Goto, Unchanged
  <2>2. Sees(c)' /\ HeldTrue(c)' /\ Taken(c)'
    BY <2>1 DEF Faithful, Sees, HeldTrue, Taken, File, Content, Walking
  <2> QED
    BY <2>1, <2>2, FaithfulOne
<1>4. ASSUME NEW c \in Creates, ReadNames(c) PROVE Faithful'
  <2>1. /\ pc'[c] = "stat" /\ entries' = entries /\ entries[c] = <<>> /\ held' = held
        /\ hdr' = hdr /\ disk' = disk /\ snap'[c] = disk /\ touched'[c] = {}
        /\ names'[c] = {f \in Files : disk[f] # Absent}
        /\ \A d \in Creates \ {c} :
             /\ pc'[d] = pc[d] /\ names'[d] = names[d] /\ snap'[d] = snap[d]
             /\ touched'[d] = touched[d]
    BY <1>1, <1>4 DEF ReadNames, Goto, Walked, Ends
  <2>2. Sees(c)' /\ HeldTrue(c)' /\ Taken(c)'
    BY <2>1 DEF Sees, HeldTrue, Taken, Walking
  <2> QED
    BY <2>1, <2>2, FaithfulOne
<1>5. ASSUME NEW c \in Creates, WriteHeader(c) PROVE Faithful'
  <2>1. PICK f \in names[c] :
          IF disk[f] = Absent \/ LastShort(c)
          THEN Goto(c, "abort") /\ UNCHANGED <<hdr, held, names>>
          ELSE /\ hdr' = [hdr EXCEPT ![c] = disk[f].len]
               /\ held' = [held EXCEPT ![c] = [file |-> f, content |-> disk[f]]]
               /\ names' = [names EXCEPT ![c] = @ \ {f}]
               /\ Goto(c, "copy")
    BY <1>5 DEF WriteHeader
  <2>2. /\ pc[c] = "stat" /\ entries' = entries /\ snap' = snap /\ touched' = touched
        /\ disk' = disk /\ f \in Files
    BY <1>1, <1>5 DEF WriteHeader, Unchanged
  <2>3. CASE disk[f] = Absent \/ LastShort(c)
    <3>1. /\ names' = names /\ held' = held /\ hdr' = hdr /\ pc'[c] \in Stopped
          /\ \A d \in Creates \ {c} : pc'[d] = pc[d]
      BY <1>1, <2>1, <2>3 DEF Goto, Stopped
    <3>2. Sees(c)' /\ HeldTrue(c)' /\ Taken(c)'
      BY <2>2, <3>1, FaithfulSame DEF Faithful
    <3> QED
      BY <2>2, <3>1, <3>2, FaithfulOne
  <2>4. CASE ~(disk[f] = Absent \/ LastShort(c))
    <3>1. PICK h : h = [file |-> f, content |-> disk[f]]
      OBVIOUS
    <3>2. h.file = f /\ h.content = disk[f]
      BY <3>1
    <3>3. /\ hdr'[c] = disk[f].len /\ held'[c] = h /\ names'[c] = names[c] \ {f}
          /\ pc'[c] = "copy"
          /\ \A d \in Creates \ {c} :
               pc'[d] = pc[d] /\ names'[d] = names[d] /\ held'[d] = held[d] /\ hdr'[d] = hdr[d]
      BY <1>1, <2>1, <2>4, <3>1 DEF Goto
    <3>4. Sees(c) /\ Taken(c)
      BY DEF Faithful
    <3>5. Sees(c)' /\ HeldTrue(c)'
      BY <2>2, <3>2, <3>3, <3>4 DEF Sees, HeldTrue, Walking
    <3>6. Taken(c)'
      BY <2>2, <3>2, <3>3, <3>4 DEF Taken, File, Content, Walking
    <3> QED
      BY <2>2, <3>3, <3>5, <3>6, FaithfulOne
  <2> QED
    BY <2>3, <2>4
<1>6. ASSUME NEW c \in Creates, OpenFile(c) PROVE Faithful'
  <2>1. PICK f : f = held[c].file
    OBVIOUS
  <2>2. /\ pc[c] = "copy" /\ names' = names /\ hdr' = hdr /\ snap' = snap /\ touched' = touched
        /\ disk' = disk
    BY <1>6 DEF OpenFile, Unchanged
  <2>3. f \in Files /\ held[c] \in Held
    BY <2>1, <2>2, CopyFacts DEF Shaped, Copied, Walking
  <2>4. CASE disk[f] = Absent
    <3>1. /\ held' = held /\ pc'[c] \in Stopped /\ \A d \in Creates \ {c} : pc'[d] = pc[d]
      BY <1>1, <1>6, <2>1, <2>4 DEF OpenFile, Goto, Stopped
    <3>2. /\ \A d \in Creates \ {c} : entries'[d] = entries[d]
      BY <1>1, <1>6, <2>1, <2>4 DEF OpenFile, Record
    <3>3. Sees(c)' /\ HeldTrue(c)' /\ Taken(c)'
      BY <3>1 DEF Sees, HeldTrue, Taken, Walking, Stopped
    <3> QED
      BY <2>2, <3>1, <3>2, <3>3, FaithfulOne
  <2>5. CASE disk[f] # Absent
    <3>1. PICK h : h = [held[c] EXCEPT !.content = disk[f]]
      OBVIOUS
    <3>2. h.file = f /\ h.content = disk[f]
      BY <2>1, <2>3, <3>1 DEF Held
    <3>3. /\ held'[c] = h /\ pc'[c] = "read" /\ entries' = entries
          /\ \A d \in Creates \ {c} : pc'[d] = pc[d] /\ held'[d] = held[d]
      BY <1>1, <1>6, <2>1, <2>5, <3>1 DEF OpenFile, Goto
    <3>4. Sees(c) /\ HeldTrue(c) /\ Taken(c)
      BY DEF Faithful
    <3>5. Sees(c)'
      BY <2>2, <3>3, <3>4 DEF Sees
    <3>6. HeldTrue(c)'
      BY <2>1, <2>2, <2>3, <3>2, <3>3, <3>4 DEF Sees, HeldTrue, Walking
    <3>7. Taken(c)'
      BY <2>1, <2>2, <3>2, <3>3, <3>4 DEF Taken, File, Content, Walking
    <3> QED
      BY <2>2, <3>3, <3>5, <3>6, <3>7, FaithfulOne
  <2> QED
    BY <2>4, <2>5
<1>7. ASSUME NEW c \in Creates, CopyFile(c) PROVE Faithful'
  <2>1. /\ names' = names /\ hdr' = hdr /\ held' = held /\ snap' = snap /\ touched' = touched
        /\ disk' = disk
    BY <1>7 DEF CopyFile, Unchanged
  <2>2. /\ Walking(c) /\ pc[c] = "read"
    BY <1>7, CopyFileFacts
  <2>3. PICK got \in Contents :
              /\ got \in {held[c].content, disk[held[c].file]}
              /\ \/ /\ got.len > hdr[c] /\ [got EXCEPT !.len = hdr[c]] \in Contents
                    /\ Record(c, [got EXCEPT !.len = hdr[c]], TRUE) /\ Goto(c, "abort")
                 \/ /\ ~(got.len > hdr[c])
                    /\ Record(c, got, got.len = hdr[c]) /\ Goto(c, "stat")
    BY <1>7, CopyFileFacts
  <2>4. CASE Record(c, [got EXCEPT !.len = hdr[c]], TRUE) /\ Goto(c, "abort")
    <3>1. /\ pc'[c] \in Stopped /\ \A d \in Creates \ {c} : pc'[d] = pc[d]
      BY <1>1, <2>4 DEF Goto, Stopped
    <3>2. \A d \in Creates \ {c} : entries'[d] = entries[d]
      BY <1>1, <2>4 DEF Record
    <3>3. Sees(c)' /\ HeldTrue(c)' /\ Taken(c)'
      BY <3>1 DEF Sees, HeldTrue, Taken, Walking, Stopped
    <3> QED
      BY <2>1, <3>1, <3>2, <3>3, FaithfulOne
  <2>5. CASE Record(c, got, got.len = hdr[c]) /\ Goto(c, "stat")
    <3>1. /\ pc'[c] = "stat" /\ \A d \in Creates \ {c} : pc'[d] = pc[d]
      BY <1>1, <2>5 DEF Goto
    <3>2. PICK w \in BOOLEAN : Record(c, got, w)
      BY <2>5
    <3>3. PICK e \in Entry : e.file = held[c].file /\ e.content = got
                             /\ entries' = [entries EXCEPT ![c] = Append(@, e)]
      BY <2>2, <3>2, RecordFacts
    <3>4. Sees(c) /\ HeldTrue(c) /\ Taken(c) /\ held[c].file \in Files
      BY <2>2, CopyFacts DEF Faithful
    <3>5. e.file \notin touched[c] => e.content = snap[c][e.file]
      BY <2>2, <2>3, <3>3, <3>4 DEF Sees, HeldTrue
    <3>6. entries'[c] = Append(entries[c], e)
          /\ \A d \in Creates \ {c} : entries'[d] = entries[d]
      BY <1>1, <3>3
    <3>7. Sees(c)' /\ HeldTrue(c)' /\ Taken(c)'
      BY <1>1, <2>1, <2>2, <3>1, <3>3, <3>4, <3>5, <3>6, FaithfulAppend
    <3> QED
      BY <2>1, <3>1, <3>6, <3>7, FaithfulOne
  <2> QED
    BY <2>3, <2>4, <2>5
<1>8. CASE Killed
  <2>1. ASSUME NEW d \in Creates PROVE Sees(d)' /\ HeldTrue(d)' /\ Taken(d)'
    <3>1. /\ entries' = entries /\ names' = names /\ held' = held /\ hdr' = hdr
          /\ snap' = snap /\ touched' = touched /\ disk' = disk
          /\ pc'[d] \in {pc[d]} \cup Stopped
      BY <1>8 DEF Killed, Stopped
    <3> QED
      BY <3>1, FaithfulSame DEF Faithful
  <2> QED
    BY <2>1 DEF Faithful
<1>9. ASSUME NEW f \in Files, NEW x, disk' = [disk EXCEPT ![f] = x], UNCHANGED creating,
             \A c \in Creates : touched[c] \subseteq touched'[c],
             \A c \in Running : f \in touched'[c]
      PROVE  Faithful'
  <2>1. \A c \in Running, g \in Files : disk'[g] = disk[g] \/ g \in touched'[c]
    BY <1>1, <1>9
  <2> QED
    BY <1>9, <2>1, FaithfulTouch DEF creating
<1>10. CASE Change
  <2>1. PICK f \in Files, new \in Contents \cup {Absent} :
          disk' = [disk EXCEPT ![f] = new] /\ Touch(f)
    BY <1>10 DEF Change
  <2> QED
    BY <1>1, <1>9, <1>10, <2>1, TouchFacts DEF Change
<1>11. Readable => entries[rfrom][rpos + 1].file \in Files
  <2> SUFFICES ASSUME Readable PROVE entries[rfrom][rpos + 1].file \in Files
    OBVIOUS
  <2>1. PICK e : e = entries[rfrom][rpos + 1]
    OBVIOUS
  <2>2. entries[rfrom] \in Seq(Entry) /\ rpos + 1 \in 1..Len(entries[rfrom])
    BY <1>1 DEF Shaped, Types, Readable
  <2>3. e \in Entry
    BY <2>1, <2>2, ElementOfSeq, Zenon
  <2> QED
    BY <2>1, <2>3 DEF Entry
<1>12. CASE Extract
  <2>1. PICK e : e = entries[rfrom][rpos + 1]
    OBVIOUS
  <2>2. /\ disk' = [disk EXCEPT ![e.file] = e.content] /\ e.file \in Files
        /\ touched' = [c \in Creates |-> IF c \in Running
                         THEN touched[c] \cup {e.file} ELSE touched[c]]
        /\ UNCHANGED creating
    BY <1>11, <1>12, <2>1 DEF Extract
  <2>3. /\ \A c \in Creates : touched[c] \subseteq touched'[c]
        /\ \A c \in Running : e.file \in touched'[c]
    BY <2>2 DEF Running
  <2> QED
    BY <1>9, <2>2, <2>3
<1>13. CASE RestoreFails
  <2>1. CASE UNCHANGED <<disk, touched, rtouched>>
    BY <1>13, <2>1, FaithfulTouch DEF RestoreFails, creating
  <2>2. CASE /\ Readable
             /\ LET e == entries[rfrom][rpos + 1]
                IN /\ disk' = [disk EXCEPT ![e.file] = [e.content EXCEPT !.len = 1]]
                   /\ Touch(e.file)
    <3>1. PICK e : e = entries[rfrom][rpos + 1]
      OBVIOUS
    <3>2. PICK x : x = [e.content EXCEPT !.len = 1]
      OBVIOUS
    <3>3. disk' = [disk EXCEPT ![e.file] = x] /\ Touch(e.file) /\ e.file \in Files
      BY <1>11, <2>2, <3>1, <3>2
    <3>4. UNCHANGED creating
      BY <1>13 DEF RestoreFails
    <3> QED
      BY <1>1, <1>9, <3>3, <3>4, TouchFacts
  <2> QED
    BY <1>13, <2>1, <2>2 DEF RestoreFails
<1>14. CASE (\E a \in Archives : Delete(a) \/ RestoreOpen(a)) \/ RestoreEnds \/ UNCHANGED vars
  <2>1. UNCHANGED <<entries, names, held, hdr, snap, pc, touched, disk>>
    BY <1>14 DEF Delete, RestoreOpen, RestoreEnds, creating, vars
  <2> QED
    BY <2>1, FaithfulTouch
<1> QED
  BY <1>2, <1>3, <1>4, <1>5, <1>6, <1>7, <1>8, <1>10, <1>12, <1>13, <1>14 DEF Next, CreateStep

(* A walk takes what it finds, and what nobody touches meanwhile is what   *)
(* was there when it began (backups.go:46-79).                             *)
THEOREM FaithfulHolds == Spec => []Faithful
<1>1. Init => Faithful
  BY DEF Init, Faithful, Sees, HeldTrue, Taken, Walking
<1>2. Spec => []Shaped
  BY ShapedInit, ShapedStep, PTL DEF Spec
<1>3. Spec => []Walked
  BY RestoredHolds, PTL
<1> QED
  BY <1>1, <1>2, <1>3, FaithfulStep, PTL DEF Spec

(* A backup reported as created holds every file that was there when the   *)
(* walk began and that nobody touched before it ended, with its contents,  *)
(* nothing else that nobody touched, and no file cut short                 *)
(* (backups.go:46-79, 88).                                                 *)
THEOREM BackupCompleteHolds == Spec => []BackupComplete
<1>1. Shaped /\ Walked /\ Faithful => BackupComplete
  <2> SUFFICES ASSUME Shaped, Walked, Faithful, NEW c \in Creates, pc[c] = "ok"
               PROVE  /\ \A f \in Files \ touched[c] :
                           LET copies == {e \in ToSet(entries[c]) : e.file = f}
                           IN IF snap[c][f] = Absent THEN copies = {}
                              ELSE {e.content : e \in copies} = {snap[c][f]}
                      /\ \A e \in ToSet(entries[c]) : e.whole
    BY DEF BackupComplete
  <2>1. entries[c] \in Seq(Entry)
    BY DEF Shaped, Types
  <2>2. PICK s : s = ToSet(entries[c])
    OBVIOUS
  <2>3. /\ \A e \in s : \E i \in 1..Len(entries[c]) : e = entries[c][i]
        /\ \A i \in 1..Len(entries[c]) : entries[c][i] \in s
    BY <2>1, <2>2 DEF ToSet
  <2>4. \A e \in s : e.whole
    BY <2>3 DEF Walked, Short, Whole
  <2>5. ASSUME NEW f \in Files \ touched[c]
        PROVE  /\ \A e \in s : e.file = f => e.content = snap[c][f] /\ snap[c][f] # Absent
               /\ snap[c][f] # Absent => \E e \in s : e.file = f
    <3>1. ASSUME NEW e \in s, e.file = f PROVE e.content = snap[c][f] /\ snap[c][f] # Absent
      <4>1. PICK i \in 1..Len(entries[c]) : e = entries[c][i]
        BY <2>3
      <4>2. e \in Entry
        BY <2>1, <4>1, ElementOfSeq, Zenon
      <4>3. e.content \in Contents
        BY <4>2 DEF Entry
      <4>4. e.content = snap[c][f]
        BY <3>1, <4>1 DEF Faithful, Taken, File, Content
      <4> QED
        BY <4>3, <4>4, Sizes
    <3>2. ASSUME snap[c][f] # Absent PROVE \E e \in s : e.file = f
      <4>1. names[c] = {} /\ ~Walking(c)
        BY DEF Walked, Ends, Walking
      <4>2. PICK i \in 1..Len(entries[c]) : File(c, i) = f
        BY <3>2, <4>1 DEF Faithful, Taken
      <4> QED
        BY <2>3, <4>2 DEF File
    <3> QED
      BY <3>1, <3>2
  <2>6. ASSUME NEW f \in Files \ touched[c]
        PROVE  IF snap[c][f] = Absent THEN {e \in s : e.file = f} = {}
               ELSE {e.content : e \in {e \in s : e.file = f}} = {snap[c][f]}
    BY <2>5
  <2> QED
    BY <2>2, <2>4, <2>6
<1>2. Spec => []Shaped
  BY ShapedInit, ShapedStep, PTL DEF Spec
<1> QED
  BY <1>1, <1>2, RestoredHolds, FaithfulHolds, PTL

(* A restore from a backup that was reported as created brings back every  *)
(* file as it was when the backup began, but for those changed while it    *)
(* was made or since the restore wrote them (backups.go:46-103, 147-184).  *)
THEOREM BackupRestoresHolds == Spec => []BackupRestores
<1>1. BackupComplete /\ RestoreExact => BackupRestores
  <2> SUFFICES ASSUME BackupComplete, RestoreExact, rpc = "ok", rfrom \in Creates,
                      pc[rfrom] = "ok", NEW f \in Files \ touched[rfrom],
                      snap[rfrom][f] # Absent
               PROVE  f \in rtouched \/ disk[f] = snap[rfrom][f]
    BY DEF BackupRestores
  <2>1. {e.content : e \in {e \in ToSet(entries[rfrom]) : e.file = f}} = {snap[rfrom][f]}
    BY DEF BackupComplete
  <2>2. PICK e \in ToSet(entries[rfrom]) : e.file = f /\ e.content = snap[rfrom][f]
    BY <2>1
  <2> QED
    BY <2>2 DEF RestoreExact
<1> QED
  BY <1>1, BackupCompleteHolds, RestoreExactHolds, PTL
=============================================================================
