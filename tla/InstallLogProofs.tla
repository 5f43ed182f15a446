-------------------------- MODULE InstallLogProofs --------------------------
(* Proofs about InstallLog, for any set of install jobs, any number of     *)
(* writes and any moments at which the follower looks.                     *)
EXTENDS InstallLog, SequenceTheorems, TLAPS

-----------------------------------------------------------------------------
(* The inductive invariant *)

Cells == Writes \cup {Hole}

Done(cell) == \E j \in Jobs : \E n \in 1..wrote[j] : cell = <<j, n>>
By(j, cell) == \E n \in 1..wrote[j] : cell = <<j, n>>

(* How many writes a job has made when it stands at a step.                *)
Counted ==
  \A j \in Jobs :
    /\ pc[j] \in {"idle", "prepare"} => wrote[j] = 0 /\ pos[j] = 0
    /\ pc[j] \in {"remove", "install", "built"} => wrote[j] < MaxWrites

(* The log is there from the first request on; it holds what jobs wrote.   *)
FileThere == file = NoFile => fpc # "read" /\ \A j \in Jobs : pc[j] = "idle"

Drawn ==
  file # NoFile => \A i \in 1..Len(file) : file[i] = Hole \/ Done(file[i])

(* Without an overlap one job at a time appends to a log of its own, and   *)
(* there are no holes.                                                     *)
Alone ==
  overlap = {} =>
    /\ \A j, k \in Active : j = k
    /\ \A i \in 1..Len(sent) : sent[i] # Hole
    /\ file # NoFile => \A i \in 1..Len(file) : file[i] # Hole
    /\ \A j \in Active : pos[j] = Len(file) /\ \A i \in 1..Len(file) : By(j, file[i])

(* Before the follower has skipped the existing log it has sent nothing.   *)
Early ==
  ~Following => sent = <<>> /\ old = {} /\ attended = {} /\ offset = 0

(* What is left of the log it skipped lies below its offset.               *)
OldBelow ==
  /\ \A c \in old \ {Hole} : Done(c)
  /\ \A i \in 1..Len(sent) : sent[i] \notin old \ {Hole}
  /\ fpc = "read" => offset <= size
  /\ Following /\ file # NoFile =>
       \A i \in 1..Len(file) : file[i] \in old \ {Hole} =>
         i <= offset /\ offset <= Len(file) /\ (fpc = "read" => size <= Len(file))

(* A follower that knows of every truncation is within the file.           *)
Within ==
  Following /\ ~unseen /\ file # NoFile =>
    offset <= Len(file) /\ (fpc = "read" => size <= Len(file))

(* The console ends with the first n cells of the log.                     *)
Shown(n) ==
  n <= Len(sent) /\ \A i \in 1..n : sent[Len(sent) - n + i] = file[i]

Matched ==
  ~ReadErrors /\ Following /\ ~unseen /\ overlap = {} /\ file # NoFile =>
    \A j \in attended \ missed : j \in Owners \cup Active => Shown(offset)

IInv ==
  /\ TypeOK
  /\ Counted /\ FileThere /\ Drawn /\ Alone
  /\ Early /\ OldBelow /\ Within /\ Matched

-----------------------------------------------------------------------------
(* Facts about the operators *)

LEMMA CellFacts ==
  /\ Hole \notin Writes /\ NoFile \notin Seq(Cells)
  /\ \A j \in Jobs : \A n \in 1..MaxWrites : <<j, n>> \in Writes
  /\ MaxWrites \in Nat /\ MaxWrites > 1 /\ ReadErrors \in BOOLEAN
BY LogAssumption DEF Writes, Cells

(* A file that is there is a sequence.                                     *)
LEMMA FileSeq ==
  ASSUME TypeOK
  PROVE  (file # NoFile <=> file \in Seq(Cells)) /\ (file # NoFile => Len(file) \in Nat)
BY CellFacts DEF TypeOK, Cells

(* What is done stays done as the jobs go on writing.                      *)
LEMMA DoneGrows ==
  ASSUME wrote \in [Jobs -> Nat], wrote' \in [Jobs -> Nat],
         \A j \in Jobs : wrote[j] <= wrote'[j]
  PROVE  /\ \A c : Done(c) => Done(c)'
         /\ \A c : \A j \in Jobs : By(j, c) => By(j, c)'
<1>1. \A j \in Jobs : 1..wrote[j] \subseteq 1..wrote'[j]
  OBVIOUS
<1> QED
  BY <1>1 DEF Done, By

LEMMA OwnerFacts ==
  ASSUME file \in Seq(Cells), file # NoFile
  PROVE  \A k : k \in Owners <=>
           k \in Jobs /\ \E i \in 1..Len(file) : By(k, file[i])
<1>1. DOMAIN file = 1..Len(file)
  OBVIOUS
<1> QED
  BY <1>1 DEF Owners, ToSet, By

(* One write puts the next cell of the job where its descriptor stands,    *)
(* after as many holes as it takes, and changes no other cell.             *)
LEMMA WriteFacts ==
  ASSUME file \in Seq(Cells), wrote \in [Jobs -> 0..MaxWrites], pos \in [Jobs -> Nat],
         NEW j \in Jobs, wrote[j] < MaxWrites, Write(j)
  PROVE  /\ file' \in Seq(Cells)
         /\ Len(file') = IF pos[j] < Len(file) THEN Len(file) ELSE pos[j] + 1
         /\ file'[pos[j] + 1] = <<j, wrote[j] + 1>>
         /\ \A i \in 1..Len(file) : i # pos[j] + 1 => file'[i] = file[i]
         /\ \A i \in 1..Len(file') :
              i # pos[j] + 1 => i <= Len(file) \/ file'[i] = Hole
<1> DEFINE cell(i) == IF i = pos[j] + 1 THEN <<j, wrote[j] + 1>>
                      ELSE IF i <= Len(file) THEN file[i] ELSE Hole
           end == IF pos[j] < Len(file) THEN Len(file) ELSE pos[j] + 1
<1>1. file' = [i \in 1..end |-> cell(i)]
  BY DEF Write
<1>2. end \in Nat /\ pos[j] + 1 \in 1..end /\ Len(file) \in Nat /\ Len(file) <= end
  OBVIOUS
<1>3. <<j, wrote[j] + 1>> \in Cells /\ Hole \in Cells
  BY CellFacts DEF Cells
<1>4. \A i \in 1..end : cell(i) \in Cells
  BY <1>2, <1>3
<1>5. /\ cell(pos[j] + 1) = <<j, wrote[j] + 1>>
      /\ \A i \in 1..Len(file) : i # pos[j] + 1 => cell(i) = file[i]
      /\ \A i \in 1..end : i # pos[j] + 1 => i <= Len(file) \/ cell(i) = Hole
  BY <1>2
<1>0. end = IF pos[j] < Len(file) THEN Len(file) ELSE pos[j] + 1
  OBVIOUS
<1> HIDE DEF cell, end
<1>6. file' \in Seq(Cells) /\ Len(file') = end
  BY <1>1, <1>2, <1>4
<1>7. \A i \in 1..end : file'[i] = cell(i)
  BY <1>1
<1> QED
  BY <1>0, <1>2, <1>5, <1>6, <1>7

(* Shown says what InStep asks for.                                        *)
LEMMA ShownSuffix ==
  ASSUME file \in Seq(Cells), sent \in Seq(Cells), NEW n \in 0..Len(file), Shown(n)
  PROVE  IsSuffix(SubSeq(file, 1, n), sent)
<1> DEFINE s == SubSeq(file, 1, n)
<1>1. /\ s \in Seq(Cells) /\ Len(s) = n
      /\ \A i \in 1..n : s[i] = file[i]
  BY SubSeqProperties
<1> HIDE DEF s
<1>2. /\ Reverse(s) \in Seq(Cells) /\ Len(Reverse(s)) = n
      /\ \A i \in 1..n : Reverse(s)[i] = s[(n - i) + 1]
  BY <1>1 DEF Reverse
<1>3. /\ Reverse(sent) \in Seq(Cells) /\ Len(Reverse(sent)) = Len(sent)
      /\ \A i \in 1..Len(sent) : Reverse(sent)[i] = sent[(Len(sent) - i) + 1]
  BY DEF Reverse
<1>4. n \in Nat /\ n <= Len(sent) /\ Len(sent) \in Nat
  BY DEF Shown
<1>5. ASSUME NEW i \in 1..n PROVE Reverse(s)[i] = Reverse(sent)[i]
  <2>1. (n - i) + 1 \in 1..n /\ Len(sent) - n + ((n - i) + 1) = (Len(sent) - i) + 1
        /\ i \in 1..Len(sent)
    BY <1>4
  <2>2. sent[Len(sent) - n + ((n - i) + 1)] = file[(n - i) + 1]
    BY <2>1 DEF Shown
  <2> QED
    BY <1>1, <1>2, <1>3, <2>1, <2>2
<1> DEFINE r == Reverse(s)  t == Reverse(sent)
<1> HIDE DEF r, t
<1>6. r \in Seq(Cells) /\ t \in Seq(Cells) /\ Len(r) = n /\ Len(t) >= n
      /\ \A i \in 1..n : r[i] = t[i]
  BY <1>2, <1>3, <1>4, <1>5 DEF r, t
<1>7. /\ SubSeq(r, 1, n) \in Seq(Cells) /\ Len(SubSeq(r, 1, n)) = n
      /\ \A i \in 1..n : SubSeq(r, 1, n)[i] = r[i]
  BY <1>4, <1>6, SubSeqProperties
<1>8. /\ SubSeq(t, 1, n) \in Seq(Cells) /\ Len(SubSeq(t, 1, n)) = n
      /\ \A i \in 1..n : SubSeq(t, 1, n)[i] = t[i]
  BY <1>4, <1>6, SubSeqProperties
<1>9. SubSeq(r, 1, n) = SubSeq(t, 1, n)
  BY <1>6, <1>7, <1>8, SeqEqual
<1> QED
  BY <1>4, <1>6, <1>9 DEF IsSuffix, IsPrefix, s, r, t

(* What a read finds: the cells above the offset, up to the size taken or  *)
(* to the end of what is there by now.                                     *)
LEMMA ChunkFacts ==
  ASSUME file \in Seq(Cells), offset \in Nat, size \in Nat, offset <= size
  PROVE  LET c == Chunk(offset, size - offset)
             top == IF size <= Len(file) THEN size ELSE Len(file)
         IN /\ c \in Seq(Cells)
            /\ Len(c) = IF offset <= top THEN top - offset ELSE 0
            /\ \A i \in 1..Len(c) : c[i] = file[offset + i] /\ offset + i \in 1..Len(file)
<1> DEFINE top == IF size <= Len(file) THEN size ELSE Len(file)
<1>1. offset + (size - offset) = size /\ top \in Nat /\ top <= Len(file)
  OBVIOUS
<1>2. Chunk(offset, size - offset) = SubSeq(file, offset + 1, top)
  BY <1>1 DEF Chunk
<1> HIDE DEF top
<1>3. \A i \in (offset + 1)..top : file[i] \in Cells
  BY <1>1
<1>4. /\ SubSeq(file, offset + 1, top) \in Seq(Cells)
      /\ Len(SubSeq(file, offset + 1, top)) =
           IF offset + 1 <= top THEN top - (offset + 1) + 1 ELSE 0
      /\ \A i \in 1..(top - (offset + 1) + 1) :
           SubSeq(file, offset + 1, top)[i] = file[(offset + 1) + i - 1]
  BY <1>1, <1>3, SubSeqProperties
<1>5. \A i \in 1..Len(SubSeq(file, offset + 1, top)) :
        /\ i \in 1..(top - (offset + 1) + 1) /\ (offset + 1) + i - 1 = offset + i
        /\ offset + i \in 1..Len(file)
  BY <1>1, <1>4
<1> DEFINE c == SubSeq(file, offset + 1, top)
<1> HIDE DEF c
<1>6. c \in Seq(Cells) /\ Len(c) = IF offset <= top THEN top - offset ELSE 0
  BY <1>1, <1>4 DEF c
<1>7. \A i \in 1..Len(c) : c[i] = file[offset + i] /\ offset + i \in 1..Len(file)
  BY <1>4, <1>5 DEF c
<1>8. Chunk(offset, size - offset) = c
  BY <1>2 DEF c
<1> QED
  BY <1>6, <1>7, <1>8 DEF top

-----------------------------------------------------------------------------
(* The steps of the jobs *)

LEMMA HandleCreateStep ==
  ASSUME IInv, NEW j \in Jobs, HandleCreate(j)
  PROVE  IInv'
<1> USE DEF IInv
<1>1. /\ pc[j] = "idle" /\ file' = <<>> /\ pc' = [pc EXCEPT ![j] = "prepare"]
      /\ unseen' = TRUE /\ UNCHANGED <<container, wrote, pos, fpc, present, offset,
                                       size, sent, old, missed>>
  BY DEF HandleCreate, followVars
<1>2. /\ overlap' = IF Active = {} THEN overlap ELSE overlap \cup Active \cup {j}
      /\ attended' = IF Following THEN attended \cup {j} ELSE attended
  BY DEF HandleCreate
<1>3. file' \in Seq(Cells) /\ Len(file') = 0 /\ file' # NoFile
  <2>1. <<>> \in Seq(Cells) /\ Len(<<>>) = 0
    OBVIOUS
  <2>2. NoFile \notin Seq(Cells)
    BY CellFacts
  <2> QED
    BY <1>1, <2>1, <2>2
<1>4. Active' = Active \cup {j} /\ j \notin Active
  BY <1>1 DEF Active, Inactive, TypeOK
<1>5. Active \subseteq Jobs
  BY DEF Active
<1>6. TypeOK'
  BY <1>1, <1>2, <1>3, <1>5 DEF TypeOK, Cells
<1>7. Counted'
  BY <1>1 DEF Counted, TypeOK
<1>8. FileThere' /\ Drawn' /\ Early'
  BY <1>1, <1>2, <1>3 DEF FileThere, Drawn, Early, Following
<1>9. overlap' = {} => overlap = {} /\ Active = {}
  BY <1>2
<1>10. pos'[j] = 0
  BY <1>1 DEF Counted
<1>11. Alone'
  <2> SUFFICES ASSUME overlap' = {} PROVE Alone'
    BY DEF Alone
  <2>1. overlap = {} /\ Active' = {j}
    BY <1>4, <1>9
  <2> QED
    BY <1>1, <1>3, <1>10, <2>1 DEF Alone
<1>12. OldBelow'
  BY <1>1, <1>3 DEF OldBelow, Following, Done
<1>13. Within' /\ Matched'
  BY <1>1 DEF Within, Matched
<1> QED
  BY <1>6, <1>7, <1>8, <1>11, <1>12, <1>13

(* A job that takes a step in which it writes.                             *)
LEMMA WriteStep ==
  ASSUME IInv, NEW j \in Jobs, NEW from, NEW to, Step(j, from, to), Write(j),
         <<from, to>> \in {<<"prepare", "remove">>, <<"install", "install">>,
                          <<"built", "done">>},
         wrote[j] < MaxWrites, to # "done" => wrote[j] + 1 < MaxWrites,
         UNCHANGED container
  PROVE  IInv'
<1> USE DEF IInv
<1>1. /\ pc[j] = from /\ pc' = [pc EXCEPT ![j] = to]
      /\ from \in {"prepare", "install", "built"} /\ to \in {"remove", "install", "done"}
  BY DEF Step
<1>2. /\ pos' = [pos EXCEPT ![j] = @ + 1] /\ wrote' = [wrote EXCEPT ![j] = @ + 1]
      /\ UNCHANGED <<overlap, attended, unseen, fpc, present, offset, size, sent, old,
                     missed>>
  BY DEF Write, followVars
<1>3. /\ pc \in [Jobs -> {"idle", "prepare", "remove", "install", "built", "done"}]
      /\ wrote \in [Jobs -> 0..MaxWrites] /\ pos \in [Jobs -> Nat]
      /\ MaxWrites \in Nat
  BY CellFacts DEF TypeOK
<1>4. file # NoFile /\ file \in Seq(Cells) /\ Len(file) \in Nat
  BY <1>1, FileSeq DEF FileThere
<1>5. /\ file' \in Seq(Cells)
      /\ Len(file') = IF pos[j] < Len(file) THEN Len(file) ELSE pos[j] + 1
      /\ file'[pos[j] + 1] = <<j, wrote[j] + 1>>
      /\ \A i \in 1..Len(file) : i # pos[j] + 1 => file'[i] = file[i]
      /\ \A i \in 1..Len(file') :
           i # pos[j] + 1 => i <= Len(file) \/ file'[i] = Hole
  BY <1>3, <1>4, WriteFacts
<1>6. file' # NoFile /\ Len(file') \in Nat /\ Len(file') >= Len(file)
  BY <1>3, <1>4, <1>5, CellFacts
<1>7. /\ wrote' \in [Jobs -> 0..MaxWrites] /\ pos' \in [Jobs -> Nat]
      /\ \A k \in Jobs : wrote[k] <= wrote'[k] /\ (k # j => wrote'[k] = wrote[k]
                                                          /\ pos'[k] = pos[k])
      /\ wrote'[j] = wrote[j] + 1 /\ pos'[j] = pos[j] + 1
  BY <1>2, <1>3
<1> DEFINE ByNow(k, c) == \E n \in 1..wrote'[k] : c = <<k, n>>
           DoneNow(c) == \E k \in Jobs : \E n \in 1..wrote'[k] : c = <<k, n>>
<1>8. /\ \A c : Done(c) => DoneNow(c)
      /\ \A c : \A k \in Jobs : By(k, c) => ByNow(k, c)
  <2>1. wrote \in [Jobs -> Nat] /\ wrote' \in [Jobs -> Nat]
    BY <1>3, <1>7
  <2> QED
    BY <1>7, <2>1, DoneGrows DEF Done, By
<1>9. ByNow(j, <<j, wrote[j] + 1>>) /\ DoneNow(<<j, wrote[j] + 1>>)
  <2>1. wrote[j] + 1 \in 1..wrote'[j]
    BY <1>3, <1>7
  <2> QED
    BY <2>1
<1>10. ~Done(<<j, wrote[j] + 1>>) /\ <<j, wrote[j] + 1>> # Hole
  BY <1>3, CellFacts DEF Done
<1>11. j \in Active /\ Active' \subseteq Active /\ Active \subseteq Jobs
  BY <1>1, <1>3 DEF Active, Inactive
<1>12. TypeOK'
  <2>1. pc' \in [Jobs -> {"idle", "prepare", "remove", "install", "built", "done"}]
    BY <1>1, <1>3
  <2> QED
    BY <1>2, <1>5, <1>7, <2>1 DEF TypeOK, Cells
<1>13. Counted'
  BY <1>1, <1>3, <1>7 DEF Counted
<1>14. FileThere' /\ Early'
  BY <1>2, <1>6 DEF FileThere, Early, Following
<1>15. Drawn'
  <2> SUFFICES ASSUME NEW i \in 1..Len(file') PROVE file'[i] = Hole \/ DoneNow(file'[i])
    BY DEF Drawn, Done
  <2>1. CASE i = pos[j] + 1
    BY <1>5, <1>9, <2>1
  <2>2. CASE i # pos[j] + 1 /\ i <= Len(file)
    <3>1. i \in 1..Len(file) /\ file'[i] = file[i]
      BY <1>4, <1>5, <1>6, <2>2
    <3> QED
      BY <1>4, <1>8, <3>1 DEF Drawn
  <2> QED
    BY <1>5, <2>1, <2>2
<1>16. ASSUME overlap = {}
       PROVE  /\ pos[j] = Len(file) /\ Active = {j} /\ Len(file') = Len(file) + 1
              /\ \A i \in 1..Len(file) : file'[i] = file[i]
              /\ \A i \in 1..Len(file') : ByNow(j, file'[i])
  <2>1. pos[j] = Len(file) /\ Active = {j} /\ \A i \in 1..Len(file) : By(j, file[i])
    BY <1>11, <1>16 DEF Alone
  <2>2. Len(file') = Len(file) + 1 /\ \A i \in 1..Len(file) : file'[i] = file[i]
    BY <1>4, <1>5, <2>1
  <2>3. file'[Len(file) + 1] = <<j, wrote[j] + 1>>
    BY <1>5, <2>1
  <2>4. \A i \in 1..Len(file') : i \in 1..Len(file) \/ i = Len(file) + 1
    BY <1>4, <2>2
  <2>5. \A i \in 1..Len(file) : ByNow(j, file[i])
    BY <1>8, <2>1
  <2> HIDE DEF ByNow
  <2> QED
    BY <1>9, <2>1, <2>2, <2>3, <2>4, <2>5
<1>17. Alone'
  <2> SUFFICES ASSUME overlap = {} PROVE Alone'
    BY <1>2 DEF Alone
  <2>1. Active' \subseteq {j}
    BY <1>11, <1>16
  <2>2. \A i \in 1..Len(file') : file'[i] # Hole
    <3> SUFFICES ASSUME NEW i \in 1..Len(file') PROVE file'[i] # Hole
      OBVIOUS
    <3>1. PICK n \in 1..wrote'[j] : file'[i] = <<j, n>>
      BY <1>16
    <3>2. n \in 1..MaxWrites
      BY <1>7, <1>3
    <3> QED
      BY <3>1, <3>2, CellFacts
  <2>3. \A k \in Active' : k = j
    BY <2>1
  <2>4. pos'[j] = Len(file')
    BY <1>7, <1>16
  <2>5. \A i \in 1..Len(sent) : sent[i] # Hole
    BY DEF Alone
  <2>6. \A k \in Active' : pos'[k] = Len(file') /\ \A i \in 1..Len(file') : ByNow(k, file'[i])
    BY <1>16, <2>3, <2>4
  <2> QED
    BY <1>2, <2>2, <2>3, <2>5, <2>6 DEF Alone, By
<1>18. OldBelow'
  <2>1. \A c \in old \ {Hole} : DoneNow(c)
    BY <1>8 DEF OldBelow
  <2>2. <<j, wrote[j] + 1>> \notin old \ {Hole}
    BY <1>10 DEF OldBelow
  <2>3. ASSUME Following, NEW i \in 1..Len(file'), file'[i] \in old \ {Hole}
        PROVE  i <= offset /\ offset <= Len(file') /\ (fpc = "read" => size <= Len(file'))
    <3>1. i # pos[j] + 1 /\ file'[i] # Hole
      BY <1>5, <2>2, <2>3
    <3>3. i \in 1..Len(file) /\ file'[i] = file[i]
      BY <1>4, <1>5, <1>6, <3>1
    <3>2. i <= offset /\ offset <= Len(file) /\ (fpc = "read" => size <= Len(file))
      BY <1>4, <2>3, <3>3 DEF OldBelow
    <3> QED
      BY <1>4, <1>6, <3>2 DEF TypeOK
  <2> QED
    BY <1>2, <2>1, <2>3 DEF OldBelow, Following, Done
<1>19. Within'
  BY <1>2, <1>4, <1>6 DEF Within, Following, TypeOK
<1>20. Matched'
  <2> SUFFICES ASSUME ~ReadErrors, Following, ~unseen, overlap = {},
                      NEW k \in attended \ missed, k \in Owners' \cup Active'
               PROVE  Shown(offset)'
    BY <1>2 DEF Matched, Following
  <2>1. k = j
    <3>1. ASSUME k \in Owners' PROVE k = j
      <4>1. PICK n \in 1..wrote'[k] : <<k, n>> \in ToSet(file')
        BY <3>1 DEF Owners
      <4>2. PICK i \in 1..Len(file') : file'[i] = <<k, n>>
        BY <1>5, <4>1 DEF ToSet
      <4>3. PICK m \in 1..wrote'[j] : file'[i] = <<j, m>>
        BY <1>16
      <4> QED
        BY <4>2, <4>3
    <3>2. Active' \subseteq {j}
      BY <1>11, <1>16
    <3> QED
      BY <3>1, <3>2
  <2>2. Shown(offset) /\ offset <= Len(file)
    BY <1>4, <1>11, <2>1 DEF Matched, Within
  <2>3. \A i \in 1..offset : i \in 1..Len(file)
    BY <1>4, <2>2 DEF TypeOK
  <2> QED
    BY <1>2, <1>16, <2>2, <2>3 DEF Shown
<1> QED
  BY <1>12, <1>13, <1>14, <1>15, <1>17, <1>18, <1>19, <1>20

(* A job that leaves the log alone, or ends.                               *)
LEMMA QuietStep ==
  ASSUME IInv, NEW j \in Jobs, RemoveOld(j) \/ Create(j) \/ Fail(j)
  PROVE  IInv'
<1> USE DEF IInv
<1>1. /\ j \in Active /\ UNCHANGED <<file, wrote, pos, overlap, attended, unseen, fpc,
                                     present, offset, size, sent, old, missed>>
      /\ \/ pc[j] = "remove" /\ pc' = [pc EXCEPT ![j] = "install"]
         \/ pc[j] = "install" /\ pc' = [pc EXCEPT ![j] = "built"]
         \/ pc' = [pc EXCEPT ![j] = "done"]
  BY DEF RemoveOld, Create, Fail, Step, followVars, Active, Inactive
<1>2. container' \in BOOLEAN
  BY DEF RemoveOld, Create, Fail, TypeOK
<1>3. /\ pc' \in [Jobs -> {"idle", "prepare", "remove", "install", "built", "done"}]
      /\ Active' \subseteq Active
      /\ pc[j] # "idle"
  BY <1>1 DEF TypeOK, Active, Inactive
<1>4. TypeOK'
  BY <1>1, <1>2, <1>3 DEF TypeOK
<1>5. Counted'
  BY <1>1 DEF Counted, TypeOK
<1>6. FileThere'
  BY <1>1, <1>3 DEF FileThere
<1>7. /\ \A c : Done(c)' <=> Done(c)
      /\ \A k, c : By(k, c)' <=> By(k, c)
      /\ Owners' = Owners
  BY <1>1 DEF Done, By, Owners
<1>8. Drawn'
  BY <1>1, <1>7 DEF Drawn
<1>9. Alone'
  BY <1>1, <1>3, <1>7 DEF Alone
<1>10. Early' /\ Within'
  BY <1>1 DEF Early, Within, Following
<1>11. OldBelow'
  BY <1>1, <1>7 DEF OldBelow, Following
<1>12. Matched'
  BY <1>1, <1>3, <1>7 DEF Matched, Following, Shown
<1> QED
  BY <1>4, <1>5, <1>6, <1>8, <1>9, <1>10, <1>11, <1>12

-----------------------------------------------------------------------------
(* The steps of the follower *)

(* What a step that leaves the log and its jobs alone need not look at.    *)
LEMMA JobsKept ==
  ASSUME IInv, UNCHANGED <<file, container, jobVars>>
  PROVE  /\ Counted' /\ Drawn'
         /\ fpc' # "read" \/ file # NoFile => FileThere'
         /\ Active' = Active /\ Owners' = Owners
         /\ \A c : Done(c)' <=> Done(c)
         /\ \A k, c : By(k, c)' <=> By(k, c)
BY DEF IInv, jobVars, Counted, FileThere, Drawn, Active, Owners, Done, By

LEMMA CheckStateStep ==
  ASSUME IInv, CheckState
  PROVE  IInv'
<1> USE DEF IInv
<1>1. /\ fpc = "state" /\ fpc' = "stat" /\ present' \in {container, TRUE}
      /\ UNCHANGED <<file, container, jobVars, offset, size, sent, old, missed, unseen>>
  BY DEF CheckState
<1>2. UNCHANGED <<pc, wrote, pos, overlap, attended>>
  BY <1>1 DEF jobVars
<1>3. TypeOK'
  BY <1>1, <1>2 DEF TypeOK
<1>4. Alone'
  BY <1>1, <1>2, JobsKept DEF Alone
<1>5. Early' /\ OldBelow' /\ Within' /\ Matched'
  BY <1>1, <1>2, JobsKept DEF Early, OldBelow, Within, Matched, Following
<1> QED
  BY <1>1, <1>3, <1>4, <1>5, JobsKept

LEMMA SkipExistingStep ==
  ASSUME IInv, SkipExisting
  PROVE  IInv'
<1> USE DEF IInv
<1>1. /\ fpc = "stat" /\ fpc' = "tick" /\ unseen' = FALSE
      /\ UNCHANGED <<file, container, jobVars, present, size, sent, missed>>
      /\ \/ file # NoFile /\ offset' = Len(file) /\ old' = ToSet(file)
         \/ offset' = offset /\ old' = old
  BY DEF SkipExisting
<1>2. UNCHANGED <<pc, wrote, pos, overlap, attended>>
  BY <1>1 DEF jobVars
<1>3. sent = <<>> /\ old = {} /\ attended = {} /\ offset = 0
  BY <1>1 DEF Early, Following
<1>4. file # NoFile => file \in Seq(Cells) /\ Len(file) \in Nat
  BY FileSeq
<1>5. file # NoFile => \A c \in ToSet(file) : \E i \in 1..Len(file) : c = file[i]
  BY <1>4 DEF ToSet
<1>6. TypeOK'
  <2>1. file # NoFile => ToSet(file) \subseteq Cells
    BY <1>4, <1>5
  <2>2. offset' \in Nat /\ old' \subseteq Cells
    BY <1>1, <1>3, <1>4, <2>1
  <2> QED
    BY <1>1, <1>2, <2>2 DEF TypeOK, Cells
<1>7. Alone'
  BY <1>1, <1>2, JobsKept DEF Alone
<1>8. Early' /\ Matched'
  BY <1>1, <1>2, <1>3 DEF Early, Following, Matched
<1>9. Within'
  BY <1>1, <1>3, <1>4 DEF Within
<1>10. OldBelow'
  <2>1. \A c \in old' \ {Hole} : Done(c)
    BY <1>1, <1>3, <1>5 DEF Drawn
  <2>2. \A i \in 1..Len(sent') : FALSE
    BY <1>1, <1>3
  <2>3. file # NoFile => \A i \in 1..Len(file) : file[i] \in old' => i <= offset' /\ offset' <= Len(file)
    BY <1>1, <1>3, <1>4
  <2> QED
    BY <1>1, <2>1, <2>2, <2>3, JobsKept DEF OldBelow
<1> QED
  BY <1>1, <1>6, <1>7, <1>8, <1>9, <1>10, JobsKept

LEMMA TickStep ==
  ASSUME IInv, Tick
  PROVE  IInv'
<1> USE DEF IInv
<1>1. /\ fpc = "tick" /\ file # NoFile /\ unseen' = FALSE /\ size' = Len(file)
      /\ missed' = IF unseen /\ offset > 0 /\ Len(file) >= offset
                   THEN missed \cup Owners ELSE missed
      /\ offset' = IF Len(file) < offset THEN 0 ELSE offset
      /\ fpc' = IF Len(file) = offset' THEN "tick" ELSE "read"
      /\ UNCHANGED <<file, container, jobVars, present, sent, old>>
  BY DEF Tick, Noticing
<1>2. UNCHANGED <<pc, wrote, pos, overlap, attended>>
  BY <1>1 DEF jobVars
<1>3. file \in Seq(Cells) /\ Len(file) \in Nat /\ offset \in Nat
  BY <1>1, FileSeq DEF TypeOK
<1>4. /\ offset' \in Nat /\ offset' <= offset /\ offset' <= Len(file) /\ size' = Len(file)
      /\ fpc' \in {"tick", "read"}
  BY <1>1, <1>3
<1>5. Owners \subseteq Jobs
  BY DEF Owners
<1>6. TypeOK'
  BY <1>1, <1>2, <1>3, <1>4, <1>5 DEF TypeOK
<1>7. Alone'
  BY <1>1, <1>2, JobsKept DEF Alone
<1>8. Early' /\ Within'
  BY <1>1, <1>3, <1>4 DEF Early, Following, Within
<1>9. OldBelow'
  <2>1. \A i \in 1..Len(file) : file[i] \in old \ {Hole} => i <= offset /\ offset <= Len(file)
    BY <1>1 DEF OldBelow, Following
  <2>2. \A i \in 1..Len(file) : file[i] \in old \ {Hole} => i <= offset'
    BY <1>1, <1>3, <2>1
  <2>3. /\ \A c \in old \ {Hole} : Done(c)
        /\ \A i \in 1..Len(sent) : sent[i] \notin old \ {Hole}
    BY DEF OldBelow
  <2> QED
    BY <1>1, <1>3, <1>4, <2>2, <2>3, JobsKept DEF OldBelow
<1>10. Matched'
  <2> SUFFICES ASSUME ~ReadErrors, overlap = {}, NEW j \in attended \ missed',
                      j \in Owners \cup Active
               PROVE  Shown(offset)'
    BY <1>1, <1>2, JobsKept DEF Matched
  <2>1. CASE ~unseen
    <3>1. offset <= Len(file) /\ offset' = offset /\ missed' = missed
      BY <1>1, <1>3, <2>1 DEF Within, Following
    <3>2. Shown(offset)
      BY <1>1, <2>1, <3>1 DEF Matched, Following
    <3> QED
      BY <1>1, <3>1, <3>2 DEF Shown
  <2>2. CASE unseen /\ offset' # 0
    <3>1. Len(file) >= offset /\ offset > 0 /\ missed' = missed \cup Owners
      BY <1>1, <1>3, <2>2
    <3>2. j \in Active /\ j \notin Owners /\ j \in Jobs
      BY <3>1 DEF Active
    <3>3. By(j, file[1]) /\ 1 \in 1..Len(file)
      BY <1>3, <3>1, <3>2 DEF Alone
    <3>4. j \in Owners
      BY <1>1, <1>3, <3>2, <3>3, OwnerFacts
    <3> QED
      BY <3>2, <3>4
  <2>3. CASE offset' = 0
    <3>1. Len(sent) \in Nat
      BY DEF TypeOK
    <3> QED
      BY <1>1, <2>3, <3>1 DEF Shown
  <2> QED
    BY <2>1, <2>2, <2>3
<1> QED
  BY <1>1, <1>6, <1>7, <1>8, <1>9, <1>10, JobsKept

LEMMA ReadStep ==
  ASSUME IInv, Read
  PROVE  IInv'
<1> DEFINE chunk == Chunk(offset, size - offset)
<1>0. \/ sent' = sent \o chunk
      \/ ReadErrors /\ UNCHANGED sent
  BY Zenon DEF Read
<1> USE DEF IInv
<1>1. /\ fpc = "read" /\ fpc' = "tick" /\ offset' = size
      /\ UNCHANGED <<file, container, jobVars, present, size, old, missed, unseen>>
  BY DEF Read
<1>2. UNCHANGED <<pc, wrote, pos, overlap, attended>>
  BY <1>1 DEF jobVars
<1>3. offset \in Nat /\ size \in Nat /\ offset <= size /\ sent \in Seq(Cells)
      /\ Len(sent) \in Nat
  BY <1>1 DEF TypeOK, OldBelow, Cells
<1>4. file # NoFile /\ file \in Seq(Cells) /\ Len(file) \in Nat
  BY <1>1, FileSeq DEF FileThere
<1> DEFINE top == IF size <= Len(file) THEN size ELSE Len(file)
<1>5. /\ chunk \in Seq(Cells)
      /\ Len(chunk) = IF offset <= top THEN top - offset ELSE 0
      /\ \A i \in 1..Len(chunk) : chunk[i] = file[offset + i] /\ offset + i \in 1..Len(file)
  BY <1>3, <1>4, ChunkFacts
<1> HIDE DEF chunk
<1>6. /\ sent \o chunk \in Seq(Cells) /\ Len(sent \o chunk) = Len(sent) + Len(chunk)
      /\ \A i \in 1..Len(sent) : (sent \o chunk)[i] = sent[i]
      /\ \A i \in 1..Len(chunk) : (sent \o chunk)[Len(sent) + i] = chunk[i]
  <2>1. /\ sent \o chunk \in Seq(Cells) /\ Len(sent \o chunk) = Len(sent) + Len(chunk)
        /\ \A i \in 1..(Len(sent) + Len(chunk)) :
             (sent \o chunk)[i] = IF i <= Len(sent) THEN sent[i] ELSE chunk[i - Len(sent)]
    BY <1>3, <1>5, ConcatProperties
  <2>2. Len(chunk) \in Nat
    BY <1>5
  <2>3. \A i \in 1..Len(sent) : i \in 1..(Len(sent) + Len(chunk)) /\ i <= Len(sent)
    BY <1>3, <2>2
  <2>4. \A i \in 1..Len(chunk) :
          /\ Len(sent) + i \in 1..(Len(sent) + Len(chunk)) /\ ~(Len(sent) + i <= Len(sent))
          /\ Len(sent) + i - Len(sent) = i
    BY <1>3, <2>2
  <2> QED
    BY <2>1, <2>3, <2>4
(* Every cell on the console was there before or lies above the offset.    *)
<1>7. \A i \in 1..Len(sent') :
        \/ i \in 1..Len(sent) /\ sent'[i] = sent[i]
        \/ \E k \in 1..Len(file) : k > offset /\ sent'[i] = file[k]
  <2> SUFFICES ASSUME sent' = sent \o chunk, NEW i \in 1..Len(sent'), i > Len(sent)
               PROVE  \E k \in 1..Len(file) : k > offset /\ sent'[i] = file[k]
    <3>1. CASE sent' = sent
      BY <3>1
    <3>2. ASSUME sent' = sent \o chunk, NEW i \in 1..Len(sent'), ~(i > Len(sent))
          PROVE  i \in 1..Len(sent) /\ sent'[i] = sent[i]
      <4>1. i \in 1..Len(sent)
        BY <1>3, <1>5, <1>6, <3>2
      <4> QED
        BY <1>6, <3>2, <4>1
    <3> QED
      BY <1>0, <3>1, <3>2
  <2>1. PICK m \in 1..Len(chunk) : i = Len(sent) + m
    <3>1. Len(chunk) \in Nat
      BY <1>5
    <3>2. i - Len(sent) \in 1..Len(chunk) /\ i = Len(sent) + (i - Len(sent))
      BY <1>3, <1>6, <3>1
    <3> QED
      BY <3>2
  <2>2. sent'[i] = file[offset + m] /\ offset + m \in 1..Len(file) /\ offset + m > offset
    BY <1>3, <1>5, <1>6, <2>1
  <2> QED
    BY <2>2
<1>8. TypeOK'
  <2>1. sent' \in Seq(Cells)
    BY <1>0, <1>3, <1>6
  <2> QED
    BY <1>1, <1>2, <1>3, <2>1 DEF TypeOK, Cells
<1>9. Alone'
  <2> SUFFICES ASSUME overlap = {} PROVE Alone'
    BY <1>2 DEF Alone
  <2>1. \A i \in 1..Len(sent) : sent[i] # Hole
    BY DEF Alone
  <2>2. \A k \in 1..Len(file) : file[k] # Hole
    BY <1>4 DEF Alone
  <2>3. \A i \in 1..Len(sent') : sent'[i] # Hole
    BY <1>7, <2>1, <2>2
  <2> QED
    BY <1>1, <1>2, <2>3, JobsKept DEF Alone
<1>10. Early'
  BY <1>1 DEF Early, Following
<1>11. Within'
  BY <1>1, <1>3, <1>4 DEF Within, Following
<1>12. OldBelow'
  <2>1. /\ \A c \in old \ {Hole} : Done(c)
        /\ \A i \in 1..Len(sent) : sent[i] \notin old \ {Hole}
        /\ \A i \in 1..Len(file) : file[i] \in old \ {Hole} =>
             i <= offset /\ offset <= Len(file) /\ size <= Len(file)
    BY <1>1, <1>4 DEF OldBelow, Following
  <2>2. \A i \in 1..Len(sent') : sent'[i] \notin old \ {Hole}
    BY <1>3, <1>7, <2>1
  <2>3. \A i \in 1..Len(file) : file[i] \in old \ {Hole} => i <= size /\ size <= Len(file)
    BY <1>3, <1>4, <2>1
  <2> QED
    BY <1>1, <2>1, <2>2, <2>3, JobsKept DEF OldBelow
<1>13. Matched'
  <2> SUFFICES ASSUME ~ReadErrors, ~unseen, overlap = {}, NEW j \in attended \ missed,
                      j \in Owners \cup Active
               PROVE  Shown(offset)'
    BY <1>1, <1>2, JobsKept DEF Matched
  <2>1. size <= Len(file) /\ Shown(offset)
    BY <1>1, <1>4 DEF Within, Matched, Following
  <2>2. offset <= Len(sent) /\ \A i \in 1..offset : sent[Len(sent) - offset + i] = file[i]
    BY <2>1 DEF Shown
  <2>3. sent' = sent \o chunk /\ Len(chunk) = size - offset
    BY <1>0, <1>3, <1>4, <1>5, <2>1
  <2>4. Len(sent') = Len(sent) + (size - offset) /\ size <= Len(sent')
    BY <1>3, <1>6, <2>2, <2>3
  <2>5. ASSUME NEW i \in 1..size PROVE sent'[Len(sent') - size + i] = file[i]
    <3>1. CASE i <= offset
      <4>1. /\ Len(sent') - size + i = Len(sent) - offset + i
            /\ Len(sent) - offset + i \in 1..Len(sent) /\ i \in 1..offset
        BY <1>3, <2>2, <2>4, <3>1
      <4> QED
        BY <1>6, <2>2, <2>3, <4>1
    <3>2. CASE i > offset
      <4>1. /\ Len(sent') - size + i = Len(sent) + (i - offset)
            /\ i - offset \in 1..(size - offset) /\ offset + (i - offset) = i
        BY <1>3, <2>4, <3>2
      <4> QED
        BY <1>5, <1>6, <2>3, <4>1
    <3> QED
      BY <1>3, <3>1, <3>2
  <2> QED
    BY <1>1, <2>4, <2>5 DEF Shown
<1> QED
  BY <1>1, <1>4, <1>8, <1>9, <1>10, <1>11, <1>12, <1>13, JobsKept

-----------------------------------------------------------------------------
(* The theorems *)

LEMMA InitIInv == Init => IInv
<1> SUFFICES ASSUME Init PROVE IInv
  OBVIOUS
<1> USE CellFacts
<1>1. Active = {}
  BY DEF Init, Active, Inactive
<1>2. <<>> \in Seq(Cells) /\ Len(<<>>) = 0
  OBVIOUS
<1>3. TypeOK
  <2>1. /\ sent \in Seq(Writes \cup {Hole})
        /\ pc \in [Jobs -> {"idle", "prepare", "remove", "install", "built", "done"}]
        /\ wrote \in [Jobs -> 0..MaxWrites] /\ pos \in [Jobs -> Nat]
    BY <1>2 DEF Init, Cells
  <2> QED
    BY <2>1, Zenon DEF Init, TypeOK
<1>4. Counted /\ FileThere /\ Drawn /\ Early /\ OldBelow /\ Within /\ Matched
  BY <1>2 DEF Init, Counted, FileThere, Drawn, Early, OldBelow, Within, Matched, Following
<1>5. Alone
  BY <1>1, <1>2 DEF Init, Alone
<1> QED
  BY <1>3, <1>4, <1>5 DEF IInv

LEMMA NextIInv == IInv /\ [Next]_vars => IInv'
<1> SUFFICES ASSUME IInv, [Next]_vars PROVE IInv'
  OBVIOUS
<1>1. ASSUME NEW j \in Jobs, JobStep(j) PROVE IInv'
  <2>1. CASE HandleCreate(j)
    BY <2>1, HandleCreateStep
  <2>2. CASE RemoveOld(j) \/ Create(j) \/ Fail(j)
    BY <2>2, QuietStep
  <2>3. wrote[j] \in 0..MaxWrites /\ MaxWrites \in Nat /\ MaxWrites > 1
    BY CellFacts DEF IInv, TypeOK
  <2>4. CASE Preparing(j)
    <3>1. wrote[j] = 0
      BY <2>4 DEF Preparing, Step, IInv, Counted
    <3> QED
      BY <2>3, <2>4, <3>1, WriteStep DEF Preparing
  <2>5. CASE Output(j)
    BY <2>3, <2>5, WriteStep DEF Output
  <2>6. CASE Complete(j)
    <3>1. wrote[j] < MaxWrites
      BY <2>6 DEF Complete, Step, IInv, Counted
    <3> QED
      BY <2>6, <3>1, WriteStep DEF Complete
  <2> QED
    BY <1>1, <2>1, <2>2, <2>4, <2>5, <2>6 DEF JobStep
<1>2. CASE UNCHANGED vars
  <2>1. UNCHANGED <<file, container, jobVars, fpc, present, offset, size, sent, old,
                    missed, unseen>>
    BY <1>2 DEF vars, followVars
  <2>2. UNCHANGED <<pc, wrote, pos, overlap, attended>>
    BY <2>1 DEF jobVars
  <2> QED
    BY <2>1, <2>2, JobsKept
      DEF IInv, TypeOK, FileThere, Alone, Early, OldBelow, Within, Matched, Following, Shown
<1> QED
  BY <1>1, <1>2, CheckStateStep, SkipExistingStep, TickStep, ReadStep DEF Next

LEMMA Invariance == Spec => []IInv
BY InitIInv, NextIInv, PTL DEF Spec

(* The variables keep their types.                                         *)
THEOREM TypeCorrect == Spec => []TypeOK
BY Invariance, PTL DEF IInv

(* Nothing of the log that was there when the follower came is sent,       *)
(* whatever is truncated and rewritten under it (ws.go:184-217).           *)
THEOREM OldSkippedHolds == Spec => []OldSkipped
<1>1. IInv => OldSkipped
  <2> SUFFICES ASSUME IInv PROVE OldSkipped
    OBVIOUS
  <2>1. DOMAIN sent = 1..Len(sent)
    BY DEF IInv, TypeOK
  <2> QED
    BY <2>1 DEF IInv, OldBelow, OldSkipped, ToSet
<1> QED
  BY <1>1, Invariance, PTL

(* Zero bytes reach the console only when installs overlapped              *)
(* (router/server.go:37).                                                  *)
THEOREM HolesNeedOverlapHolds == Spec => []HolesNeedOverlap
<1>1. IInv => HolesNeedOverlap
  <2> SUFFICES ASSUME IInv PROVE HolesNeedOverlap
    OBVIOUS
  <2>1. DOMAIN sent = 1..Len(sent)
    BY DEF IInv, TypeOK
  <2> QED
    BY <2>1 DEF IInv, Alone, HolesNeedOverlap, ToSet
<1> QED
  BY <1>1, Invariance, PTL

(* Where the log can be read, the console ends with the part of the log    *)
(* below the follower's offset: for the installs that began under its eyes *)
(* and ran alone, but for those it took for the one before                 *)
(* (ws.go:203-217).                                                        *)
THEOREM InStepHolds == ~ReadErrors /\ Spec => []InStep
<1>1. ~ReadErrors /\ IInv => InStep
  <2> SUFFICES ASSUME ~ReadErrors, IInv, fpc = "tick", ~unseen, overlap = {},
                      NEW j \in Owners \cap attended, j \notin missed
               PROVE  IsSuffix(SubSeq(file, 1, offset), sent)
    BY DEF InStep
  <2>1. file # NoFile
    BY DEF Owners
  <2>2. Shown(offset) /\ offset <= Len(file)
    BY <2>1 DEF IInv, Matched, Within, Following
  <2>3. /\ file \in Seq(Cells) /\ sent \in Seq(Cells) /\ offset \in 0..Len(file)
    BY <2>1, <2>2, FileSeq DEF IInv, TypeOK, Cells
  <2> QED
    BY <2>2, <2>3, ShownSuffix
<1>2. ASSUME ~ReadErrors PROVE Spec => []InStep
  <2>1. IInv => InStep
    BY <1>1, <1>2
  <2> QED
    BY <2>1, Invariance, PTL
<1> QED
  BY <1>2
=============================================================================
