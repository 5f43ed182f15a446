----------------------------- MODULE FilesProofs -----------------------------
(* Proofs about Files, for any tree of paths, any ways to name them, any   *)
(* number of requests and of changes by the game server.                   *)
EXTENDS Files, SequenceTheorems, TLAPS

-----------------------------------------------------------------------------
(* The tree of paths *)

Below(p, q) == IsStrictPrefix(q, p)

LEMMA PathFacts ==
  /\ Root \in Paths /\ Paths \subseteq Seq(STRING)
  /\ \A p \in Paths : Len(p) \in Nat \ {0}
  /\ \A p \in Paths : \A n \in 1..Len(p) : SubSeq(p, 1, n) \in Paths
  /\ \A p \in Paths : IsPrefix(Root, p)
<1>1. /\ Root \in Paths /\ Paths \subseteq Seq(STRING)
      /\ \A p \in Paths : \A n \in 1..Len(p) : SubSeq(p, 1, n) \in Paths
      /\ \A p \in Paths : IsPrefix(Root, p)
  BY FilesAssumption
<1>2. ASSUME NEW p \in Paths PROVE Len(p) \in Nat \ {0}
  BY <1>1 DEF IsPrefix, Root
<1> QED
  BY <1>1, <1>2

(* A prefix, name by name.                                                 *)
LEMMA PrefixByNames ==
  ASSUME NEW q \in Paths, NEW p \in Paths
  PROVE  IsPrefix(q, p) <=> Len(q) <= Len(p) /\ \A i \in 1..Len(q) : q[i] = p[i]
<1>1. q \in Seq(STRING) /\ p \in Seq(STRING)
  BY PathFacts
<1>2. ASSUME Len(q) <= Len(p)
      PROVE  /\ SubSeq(q, 1, Len(q)) = [i \in 1..Len(q) |-> q[i]]
             /\ SubSeq(p, 1, Len(q)) = [i \in 1..Len(q) |-> p[i]]
  BY <1>1, <1>2
<1> QED
  BY <1>1, <1>2 DEF IsPrefix

LEMMA SamePath ==
  ASSUME NEW q \in Paths, NEW p \in Paths, Len(q) = Len(p), \A i \in 1..Len(q) : q[i] = p[i]
  PROVE  q = p
BY PathFacts, SeqEqual

LEMMA Cut ==
  ASSUME NEW p \in Paths, NEW n \in 1..Len(p), NEW c, c = SubSeq(p, 1, n)
  PROVE  c \in Paths /\ Len(c) = n /\ \A i \in 1..n : c[i] = p[i]
<1>1. p \in Seq(STRING) /\ c \in Paths
  BY PathFacts
<1> QED
  BY <1>1

LEMMA BelowByNames ==
  ASSUME NEW q \in Paths, NEW p \in Paths
  PROVE  Below(p, q) <=> Len(q) < Len(p) /\ \A i \in 1..Len(q) : q[i] = p[i]
<1>1. Len(q) \in Nat /\ Len(p) \in Nat
  BY PathFacts
<1>2. CASE Len(q) = Len(p)
  BY <1>1, <1>2, PrefixByNames, SamePath DEF Below, IsStrictPrefix
<1>3. CASE Len(q) # Len(p)
  BY <1>1, <1>3, PrefixByNames DEF Below, IsStrictPrefix
<1> QED
  BY <1>2, <1>3

LEMMA Transitive ==
  \A p, q, s \in Paths : Below(p, q) /\ Below(q, s) => Below(p, s)
<1> SUFFICES ASSUME NEW p \in Paths, NEW q \in Paths, NEW s \in Paths, Below(p, q), Below(q, s)
             PROVE  Below(p, s)
  OBVIOUS
<1>1. Len(p) \in Nat /\ Len(q) \in Nat /\ Len(s) \in Nat
  BY PathFacts
<1>2. /\ Len(q) < Len(p) /\ \A i \in 1..Len(q) : q[i] = p[i]
      /\ Len(s) < Len(q) /\ \A i \in 1..Len(s) : s[i] = q[i]
  BY BelowByNames
<1>3. Len(s) < Len(p) /\ \A i \in 1..Len(s) : s[i] = p[i]
  BY <1>1, <1>2
<1> QED
  BY <1>3, BelowByNames

(* Everything is at the root or below it, and nothing above it.            *)
LEMMA RootOnTop ==
  /\ Root \in Paths /\ \A p \in Paths : ~Below(Root, p) /\ ~Below(p, p)
  /\ \A p, q \in Paths : p \in Under(q) <=> p = q \/ Below(p, q)
  /\ \A p, q \in Paths : q \in Ancestors(p) <=> Below(p, q)
<1>1. Root \in Paths /\ Len(Root) = 1
  BY PathFacts DEF Root
<1>2. \A p \in Paths : Len(p) \in Nat \ {0}
  BY PathFacts
<1>3. \A p \in Paths : ~Below(Root, p) /\ ~Below(p, p)
  BY <1>1, <1>2, BelowByNames
<1>4. \A p \in Paths : IsPrefix(p, p)
  BY PrefixByNames, <1>2
<1> QED
  BY <1>1, <1>3, <1>4 DEF Below, IsStrictPrefix, Under, Ancestors

(* A path's parent is the lowest one above it.                             *)
LEMMA ParentFacts ==
  ASSUME NEW p \in Paths, p # Root
  PROVE  /\ Parent(p) \in Paths /\ Below(p, Parent(p))
         /\ \A q \in Paths : Below(p, q) => q = Parent(p) \/ Below(Parent(p), q)
<1>1. Len(p) \in Nat \ {0} /\ Len(Root) = 1 /\ Root \in Paths /\ IsPrefix(Root, p)
  BY PathFacts DEF Root
<1>2. Len(p) # 1
  BY <1>1, PrefixByNames, SamePath
<1>3. PICK n : n = Len(p) - 1
  OBVIOUS
<1>4. n \in 1..Len(p)
  <2>1. \A m \in Nat \ {0} : m # 1 => m - 1 \in 1..m
    OBVIOUS
  <2> QED
    BY <1>1, <1>2, <1>3, <2>1, Zenon
<1>5. PICK c : c = SubSeq(p, 1, n)
  OBVIOUS
<1>6. c \in Paths /\ Len(c) = Len(p) - 1 /\ \A i \in 1..Len(c) : c[i] = p[i]
  <2>1. c \in Paths /\ Len(c) = n /\ \A i \in 1..n : c[i] = p[i]
    BY <1>4, <1>5, Cut, Zenon
  <2> QED
    BY <1>3, <2>1
<1>7. Parent(p) = c
  BY <1>3, <1>5 DEF Parent, Front
<1>8. Below(p, c)
  BY <1>1, <1>6, BelowByNames
<1>9. ASSUME NEW q \in Paths, Below(p, q) PROVE q = c \/ Below(c, q)
  <2>1. Len(q) \in Nat /\ Len(q) < Len(p) /\ \A i \in 1..Len(q) : q[i] = p[i]
    BY <1>9, BelowByNames, PathFacts
  <2>2. CASE Len(q) = Len(c)
    BY <1>6, <2>1, <2>2, SamePath
  <2>3. CASE Len(q) # Len(c)
    <3>1. Len(q) < Len(c) /\ \A i \in 1..Len(q) : q[i] = c[i]
      BY <1>1, <1>6, <2>1, <2>3
    <3> QED
      BY <1>6, <3>1, BelowByNames
  <2> QED
    BY <2>2, <2>3
<1> QED
  BY <1>6, <1>8, <1>9, <1>7

(* What lies below a path lies in one of its children, or is one.          *)
LEMMA ChildBetween ==
  ASSUME NEW p \in Paths, NEW q \in Paths, Below(p, q)
  PROVE  \E c \in Children(q) : c = p \/ Below(p, c)
<1>1. /\ Len(q) \in Nat \ {0} /\ Len(p) \in Nat /\ Len(q) < Len(p)
      /\ \A i \in 1..Len(q) : q[i] = p[i]
  BY BelowByNames, PathFacts
<1>2. Len(q) + 1 \in 1..Len(p)
  BY <1>1
<1>3. PICK c : c = SubSeq(p, 1, Len(q) + 1)
  OBVIOUS
<1>4. c \in Paths /\ Len(c) = Len(q) + 1 /\ \A i \in 1..(Len(q) + 1) : c[i] = p[i]
  BY <1>2, <1>3, Cut
<1>5. c # Root
  <2>1. Len(Root) = 1
    BY DEF Root
  <2>2. Len(c) # 1
    BY <1>1, <1>4
  <2> QED
    BY <2>1, <2>2
<1>6. Parent(c) = q
  <2>1. PICK d : d = Parent(c)
    OBVIOUS
  <2>2. Len(q) \in 1..Len(c) /\ Len(c) - 1 = Len(q)
    BY <1>1, <1>4
  <2>3. d \in Paths /\ Len(d) = Len(q) /\ \A i \in 1..Len(q) : d[i] = c[i]
    BY <1>4, <2>1, <2>2, Cut DEF Parent, Front
  <2>4. \A i \in 1..Len(q) : d[i] = q[i]
    BY <1>1, <1>4, <2>3
  <2> QED
    BY <2>1, <2>3, <2>4, SamePath
<1>7. c = p \/ Below(p, c)
  <2>1. CASE Len(c) = Len(p)
    BY <1>4, <2>1, SamePath
  <2>2. CASE Len(c) # Len(p)
    BY <1>1, <1>4, <2>2, BelowByNames
  <2> QED
    BY <2>1, <2>2
<1> QED
  BY <1>4, <1>5, <1>6, <1>7 DEF Children

-----------------------------------------------------------------------------
(* Types *)

Steps == Ended \cup {"idle", "makeRoot", "readDir", "stat", "readFile", "makeParents", "open",
                     "write", "remove"}
Kinds == {"none", "list", "read", "write", "delete"}

(* The operation a step belongs to, the path a request has got to, and     *)
(* what is there for a writer whose open file it is.                       *)
Placed(r) ==
  /\ pc[r] = "idle" => op[r] = "none" /\ at[r] = 1
  /\ pc[r] # "idle" => op[r] # "none" /\ at[r] \in 1..Len(paths[r])
  /\ pc[r] \in {"makeRoot", "readDir"} => op[r] = "list"
  /\ pc[r] \in {"stat", "readFile"} => op[r] = "read"
  /\ pc[r] \in {"makeParents", "open", "write"} => op[r] = "write"
  /\ pc[r] = "remove" => op[r] = "delete"
  /\ r \in linked => pc[r] \in {"write"} \cup Ended /\ op[r] = "write" /\ fs[Path(r)] \in Contents

Shaped == TypeOK /\ \A r \in Requests : Placed(r)

LEMMA Names ==
  /\ \A r \in Requests : r \notin {"none", "dir", "empty", "part", "game", "large"}
  /\ \A r \in Requests : r \in Contents
  /\ {"empty", "part", "game", "large"} \subseteq Contents
  /\ Contents \subseteq Nodes /\ "none" \in Nodes /\ "dir" \in Nodes
  /\ "none" \notin Contents /\ "dir" \notin Contents
  /\ \A x \in Nodes : x \in Contents \/ x = "none" \/ x = "dir"
BY FilesAssumption DEF Own, Contents, Nodes

LEMMA PathTypes ==
  ASSUME Shaped, NEW r \in Requests, pc[r] # "idle"
  PROVE  /\ Path(r) \in Paths /\ at[r] \in 1..Len(paths[r]) /\ paths[r] \in Seq(Paths)
         /\ Path(r) = paths[r][at[r]] /\ fs[Path(r)] \in Nodes
<1>1. at[r] \in 1..Len(paths[r]) /\ paths[r] \in Seq(Paths) /\ fs \in [Paths -> Nodes]
  BY DEF Shaped, TypeOK, Placed
<1>2. paths[r][at[r]] \in Paths
  BY <1>1, ElementOfSeq, Zenon
<1> QED
  BY <1>1, <1>2 DEF Path

(* What a step of the requests by leaves the others.                       *)
Spared(by) ==
  /\ touched \subseteq touched' /\ touched' \subseteq Requests
  /\ linked' \subseteq Requests /\ fs' \in [Paths -> Nodes]
  /\ \A d \in Requests \ by :
       /\ d \in linked' <=> d \in linked /\ fs'[Path(d)] \in Contents
       /\ d \notin touched' =>
            \A i \in 1..Len(paths[d]) : fs'[paths[d][i]] = fs[paths[d][i]]

LEMMA BecomeFacts ==
  ASSUME Shaped, NEW new \in [Paths -> Nodes], NEW by \in SUBSET Requests,
         NEW opened \in SUBSET by, Become(new, by, opened)
  PROVE  /\ fs' = new /\ Spared(by)
         /\ linked' = {w \in linked \cup opened : new[Path(w)] \in Contents}
<1>1. touched \subseteq Requests /\ linked \subseteq Requests /\ paths \in [Requests -> Seq(Paths)]
  BY DEF Shaped, TypeOK
<1>2. /\ fs' = new /\ linked' = {w \in linked \cup opened : new[Path(w)] \in Contents}
      /\ touched' = touched \cup {d \in Requests \ by : \E p \in ToSet(paths[d]) : new[p] # fs[p]}
  BY DEF Become
<1>3. \A d \in Requests : \A i \in 1..Len(paths[d]) : paths[d][i] \in ToSet(paths[d])
  BY <1>1 DEF ToSet
<1>4. \A d \in Requests \ by : d \in linked' <=> d \in linked /\ fs'[Path(d)] \in Contents
  BY <1>1, <1>2
<1> QED
  BY <1>1, <1>2, <1>3, <1>4 DEF Spared

LEMMA PutFacts ==
  ASSUME Shaped, NEW r \in Requests, NEW p \in Paths, NEW x \in Nodes, Put(r, p, x)
  PROVE  /\ fs' = [fs EXCEPT ![p] = x] /\ Spared({r})
         /\ linked' = {w \in linked : fs'[Path(w)] \in Contents}
<1>1. PICK new : new = [fs EXCEPT ![p] = x]
  OBVIOUS
<1>2. new \in [Paths -> Nodes] /\ Become(new, {r}, {})
  BY <1>1 DEF Put, Shaped, TypeOK
<1>3. /\ fs' = new /\ Spared({r})
      /\ linked' = {w \in linked \cup {} : new[Path(w)] \in Contents}
  <2>1. {r} \in SUBSET Requests /\ {} \in SUBSET {r}
    OBVIOUS
  <2> QED
    BY <1>2, <2>1, BecomeFacts, Zenon
<1> QED
  BY <1>1, <1>3

LEMMA SameFacts ==
  ASSUME Shaped, NEW by, fs' = fs, touched' = touched, linked' = linked
  PROVE  Spared(by)
<1>1. \A d \in linked : fs[Path(d)] \in Contents
  BY DEF Shaped, TypeOK, Placed
<1> QED
  BY <1>1 DEF Shaped, TypeOK, Spared

(* What a request has opened is written with contents.                     *)
LEMMA OverFacts ==
  ASSUME NEW r \in Requests, NEW x, x = fs[Path(r)], NEW c \in Over(r)
  PROVE  /\ c \in Contents /\ c # "empty" /\ c # "game"
         /\ x = "empty" => c = r
         /\ c \in {r, "part", "large"} /\ (c = "large" => x = "large")
<1>1. CASE x = "empty"
  BY <1>1, Names DEF Over
<1>2. CASE x = "large"
  BY <1>2, Names DEF Over
<1>3. CASE x # "empty" /\ x # "large"
  BY <1>3, Names DEF Over
<1> QED
  BY <1>1, <1>2, <1>3

-----------------------------------------------------------------------------
(* The steps of a request, and of the others *)

Arriving(r) == Arrivals(r)
Looking(r) == ReadDir(r) \/ Stat(r) \/ ReadFile(r) \/ NothingThere(r)
Refusing(r) == TooLarge(r) \/ RefuseRoot(r) \/ RemoveFails(r)
Changing(r) == MakeRoot(r) \/ MakeParents(r) \/ Open(r) \/ Write(r) \/ WriteFails(r) \/ RemoveLeaf(r)

LEMMA NextSteps ==
  ASSUME Next
  PROVE  \/ \E r \in Requests : Arriving(r) \/ Looking(r) \/ Refusing(r) \/ Changing(r)
         \/ Game \/ Dies
BY DEF Next, Arriving, Looking, Refusing, Changing

LEMMA ArriveFacts ==
  ASSUME Shaped, NEW r \in Requests, Arriving(r)
  PROVE  /\ pc[r] = "idle" /\ UNCHANGED <<fs, at, got, linked, changes, touched, hurt>>
         /\ \E kind \in Kinds \ {"none"}, ps \in Seq(Paths) :
              /\ op' = [op EXCEPT ![r] = kind] /\ paths' = [paths EXCEPT ![r] = ps]
              /\ pc' = [pc EXCEPT ![r] = First(kind)] /\ Len(ps) \in {1, 2}
<1>1. \A rel \in Rels : Resolve(rel) \in Paths
  BY FilesAssumption
<1>2. ASSUME NEW kind \in Kinds \ {"none"}, NEW rels, Arrive(r, kind, rels),
             (\E rel \in Rels : rels = <<rel>>) \/ \E rel1, rel2 \in Rels : rels = <<rel1, rel2>>
      PROVE  /\ pc[r] = "idle" /\ UNCHANGED <<fs, at, got, linked, changes, touched, hurt>>
             /\ \E k \in Kinds \ {"none"}, ps \in Seq(Paths) :
                  /\ op' = [op EXCEPT ![r] = k] /\ paths' = [paths EXCEPT ![r] = ps]
                  /\ pc' = [pc EXCEPT ![r] = First(k)] /\ Len(ps) \in {1, 2}
  <2>1. PICK ps : ps = [i \in DOMAIN rels |-> Resolve(rels[i])]
    OBVIOUS
  <2>2. /\ op' = [op EXCEPT ![r] = kind] /\ paths' = [paths EXCEPT ![r] = ps]
        /\ pc' = [pc EXCEPT ![r] = First(kind)]
        /\ pc[r] = "idle" /\ UNCHANGED <<fs, at, got, linked, changes, touched, hurt>>
    BY <1>2, <2>1 DEF Arrive, Goto
  <2>3. ps \in Seq(Paths) /\ Len(ps) \in {1, 2}
    <3>1. ASSUME NEW rel \in Rels, rels = <<rel>> PROVE ps \in Seq(Paths) /\ Len(ps) \in {1, 2}
      <4>1. DOMAIN rels = 1..1 /\ rels[1] = rel
        BY <3>1
      <4>2. ps = [i \in 1..1 |-> Resolve(rel)]
        BY <2>1, <4>1
      <4> QED
        BY <1>1, <4>2
    <3>2. ASSUME NEW rel1 \in Rels, NEW rel2 \in Rels, rels = <<rel1, rel2>>
          PROVE  ps \in Seq(Paths) /\ Len(ps) \in {1, 2}
      <4>1. DOMAIN rels = 1..2 /\ rels[1] = rel1 /\ rels[2] = rel2
        BY <3>2
      <4>2. \A i \in 1..2 : Resolve(rels[i]) \in Paths
        BY <1>1, <4>1
      <4>3. ps = [i \in 1..2 |-> Resolve(rels[i])]
        BY <2>1, <4>1
      <4> QED
        BY <4>2, <4>3
    <3> QED
      BY <1>2, <3>1, <3>2
  <2> QED
    BY <2>2, <2>3
<1>3. {"list", "read", "write", "delete"} = Kinds \ {"none"}
  BY DEF Kinds
<1> QED
  BY <1>2, <1>3 DEF Arriving, Arrivals

(* What the others have stays as it was.                                   *)
OthersKept(r) ==
  \A d \in Requests \ {r} : /\ op'[d] = op[d] /\ paths'[d] = paths[d] /\ at'[d] = at[d]
                            /\ got'[d] = got[d] /\ pc'[d] = pc[d]

LEMMA ShapedFrom ==
  ASSUME Shaped, NEW r \in Requests, pc[r] # "idle", NEW x \in Steps, NEW n \in 1..Len(paths[r]),
         NEW g \in {"none"} \cup Contents, op' = op, paths' = paths, changes' = changes,
         pc' = [pc EXCEPT ![r] = x], at' = [at EXCEPT ![r] = n], got' = [got EXCEPT ![r] = g],
         Spared({r}), hurt' \subseteq Paths,
         \/ x \in Ended \/ x = pc[r]
         \/ op[r] = "list" /\ x = "readDir"
         \/ op[r] = "read" /\ x = "readFile"
         \/ op[r] = "write" /\ x \in {"open", "write"},
         r \in linked' => x \in {"write"} \cup Ended /\ op[r] = "write" /\ fs'[Path(r)'] \in Contents
  PROVE  Shaped' /\ OthersKept(r)
<1>1. TypeOK'
  BY DEF Shaped, TypeOK, Spared, Steps
<1>2. OthersKept(r)
  BY DEF Shaped, TypeOK, OthersKept
<1>3. Placed(r)'
  BY DEF Shaped, TypeOK, Placed, Ended, Steps
<1>4. ASSUME NEW d \in Requests \ {r} PROVE Placed(d)'
  <2>1. Path(d)' = Path(d) /\ Placed(d)
    BY <1>2, <1>4 DEF Path, OthersKept, Shaped
  <2>2. d \in linked' => d \in linked /\ fs'[Path(d)] \in Contents
    BY <1>4 DEF Spared
  <2> QED
    BY <1>2, <1>4, <2>1, <2>2 DEF Placed, OthersKept
<1> QED
  BY <1>1, <1>2, <1>3, <1>4 DEF Shaped

(* A step that leaves the directory and the place in the paths alone.      *)
LEMMA LookFacts ==
  ASSUME Shaped, NEW r \in Requests, Looking(r) \/ Refusing(r), ~NothingThere(r)
  PROVE  Shaped' /\ OthersKept(r) /\ Spared({r})
<1>1. /\ pc[r] \notin Ended \cup {"idle"} /\ op' = op /\ paths' = paths /\ changes' = changes
      /\ at' = at /\ hurt' = hurt /\ fs' = fs /\ touched' = touched /\ linked' = linked
  BY DEF Looking, Refusing, ReadDir, Stat, ReadFile, NothingThere, TooLarge, RefuseRoot,
         RemoveFails, Removing, Ended
<1>2. Path(r) \in Paths /\ at[r] \in 1..Len(paths[r]) /\ fs[Path(r)] \in Nodes
  BY <1>1, PathTypes
<1>3. r \notin linked \/ pc[r] = "write"
  BY <1>1 DEF Shaped, Placed
<1>4. r \notin linked
  BY <1>3 DEF Looking, Refusing, ReadDir, Stat, ReadFile, NothingThere, TooLarge, RefuseRoot,
         RemoveFails, Removing
<1>5. Spared({r})
  BY <1>1, SameFacts
<1>6. \E x \in Ended \cup {"readFile"}, g \in {"none"} \cup Contents :
         /\ pc' = [pc EXCEPT ![r] = x] /\ got' = [got EXCEPT ![r] = g]
         /\ x = "readFile" => op[r] = "read"
  <2>1. got[r] \in {"none"} \cup Contents /\ got = [got EXCEPT ![r] = got[r]]
    BY DEF Shaped, TypeOK
  <2>2. Placed(r)
    BY DEF Shaped
  <2>3. CASE ReadDir(r)
    <3>1. PICK x \in {"ok", "failed"} : x = IF fs[Path(r)] = "dir" THEN "ok" ELSE "failed"
      OBVIOUS
    <3>2. pc' = [pc EXCEPT ![r] = x] /\ got' = got
      BY <2>3, <3>1 DEF ReadDir, Goto
    <3> QED
      BY <2>1, <3>2 DEF Ended
  <2>4. CASE Stat(r)
    BY <2>1, <2>2, <2>4 DEF Stat, Goto, Ended, Placed
  <2>5. CASE ReadFile(r)
    <3>1. CASE IsFile(Path(r))
      <4>1. PICK g : g = fs[Path(r)]
        OBVIOUS
      <4>2. g \in Contents /\ pc' = [pc EXCEPT ![r] = "ok"] /\ got' = [got EXCEPT ![r] = g]
        BY <2>5, <3>1, <4>1 DEF ReadFile, Goto, IsFile
      <4>3. /\ "ok" \in Ended \cup {"readFile"} /\ "ok" # "readFile"
            /\ g \in {"none"} \cup Contents
        BY <4>2 DEF Ended
      <4> QED
        BY <4>2, <4>3, Zenon
    <3>2. CASE ~IsFile(Path(r))
      BY <2>1, <2>5, <3>2 DEF ReadFile, Goto, Ended
    <3> QED
      BY <3>1, <3>2
  <2>6. CASE Refusing(r)
    BY <2>1, <2>6 DEF Refusing, TooLarge, RefuseRoot, RemoveFails, Goto, Ended
  <2> QED
    BY <2>3, <2>4, <2>5, <2>6 DEF Looking
<1>7. PICK x \in Ended \cup {"readFile"}, g \in {"none"} \cup Contents :
         /\ pc' = [pc EXCEPT ![r] = x] /\ got' = [got EXCEPT ![r] = g]
         /\ x = "readFile" => op[r] = "read"
  BY <1>6
<1>8. x \in Steps /\ at' = [at EXCEPT ![r] = at[r]] /\ hurt' \subseteq Paths
  BY <1>1 DEF Steps, Shaped, TypeOK
<1> QED
  BY <1>1, <1>2, <1>4, <1>5, <1>7, <1>8, ShapedFrom

LEMMA DeletedFacts ==
  ASSUME Shaped, NEW r \in Requests, pc[r] = "remove", Deleted(r) \/ UNCHANGED <<pc, at>>
  PROVE  \E x \in {"ok", "remove"}, n \in 1..Len(paths[r]) :
           pc' = [pc EXCEPT ![r] = x] /\ at' = [at EXCEPT ![r] = n]
<1>1. at[r] \in 1..Len(paths[r]) /\ Len(paths[r]) \in Nat
  BY PathTypes DEF Shaped, TypeOK
<1>2. pc = [pc EXCEPT ![r] = "remove"] /\ at = [at EXCEPT ![r] = at[r]]
  BY DEF Shaped, TypeOK
<1>3. CASE UNCHANGED <<pc, at>>
  BY <1>1, <1>2, <1>3
<1>4. CASE Deleted(r) /\ at[r] = Len(paths[r])
  BY <1>1, <1>2, <1>4 DEF Deleted, Goto
<1>5. CASE Deleted(r) /\ at[r] # Len(paths[r])
  <2>1. PICK n : n = at[r] + 1
    OBVIOUS
  <2>2. n \in 1..Len(paths[r]) /\ pc' = pc /\ at' = [at EXCEPT ![r] = n]
    BY <1>1, <1>5, <2>1 DEF Deleted
  <2> QED
    BY <1>2, <2>2
<1> QED
  BY <1>3, <1>4, <1>5

(* A step of a request that makes or removes something.                    *)
LEMMA ChangeFacts ==
  ASSUME Shaped, NEW r \in Requests, Changing(r) \/ NothingThere(r)
  PROVE  Shaped' /\ OthersKept(r) /\ Spared({r})
<1>1. /\ pc[r] \notin Ended \cup {"idle"} /\ op' = op /\ paths' = paths /\ changes' = changes
      /\ got' = got
  BY DEF Changing, NothingThere, MakeRoot, MakeParents, Open, Write, WriteFails, RemoveLeaf,
         Removing, Ended
<1>2. Path(r) \in Paths /\ at[r] \in 1..Len(paths[r]) /\ fs[Path(r)] \in Nodes
  BY <1>1, PathTypes
<1>3. /\ got' = [got EXCEPT ![r] = got[r]] /\ got[r] \in {"none"} \cup Contents
      /\ at = [at EXCEPT ![r] = at[r]] /\ hurt \subseteq Paths /\ fs \in [Paths -> Nodes] /\ Placed(r)
  BY <1>1 DEF Shaped, TypeOK
<1>4. ASSUME pc[r] = "remove", NothingThere(r) \/ RemoveLeaf(r)
      PROVE  Shaped' /\ OthersKept(r) /\ Spared({r})
  <2>1. Deleted(r) \/ UNCHANGED <<pc, at>>
    BY <1>4 DEF NothingThere, RemoveLeaf
  <2>2. PICK x \in {"ok", "remove"}, n \in 1..Len(paths[r]) :
          pc' = [pc EXCEPT ![r] = x] /\ at' = [at EXCEPT ![r] = n]
    BY <1>4, <2>1, DeletedFacts
  <2>3. r \notin linked
    BY <1>3, <1>4 DEF Placed, Ended
  <2>4. Spared({r}) /\ r \notin linked' /\ hurt' = hurt
    <3>1. CASE NothingThere(r)
      BY <2>3, <3>1, SameFacts DEF NothingThere
    <3>2. CASE RemoveLeaf(r)
      <4>1. PICK p \in Paths : Put(r, p, "none")
        BY <3>2 DEF RemoveLeaf, Under
      <4> QED
        BY <2>3, <3>2, <4>1, PutFacts, Names DEF RemoveLeaf
    <3> QED
      BY <1>4, <3>1, <3>2
  <2>5. x \in Steps /\ (x \in Ended \/ x = pc[r])
    BY <1>4 DEF Steps, Ended
  <2> QED
    BY <1>1, <1>3, <2>2, <2>4, <2>5, ShapedFrom
<1>5. CASE NothingThere(r) \/ RemoveLeaf(r)
  BY <1>4, <1>5 DEF NothingThere, RemoveLeaf, Removing
<1>6. ASSUME NEW x \in Ended \cup {"readDir", "open", "write"}, Goto(r, x), at' = at,
             Spared({r}), hurt' \subseteq Paths,
             \/ x \in Ended
             \/ op[r] = "list" /\ x = "readDir"
             \/ op[r] = "write" /\ x \in {"open", "write"},
             r \in linked' => x \in {"write"} \cup Ended /\ op[r] = "write" /\ fs'[Path(r)] \in Contents
      PROVE  Shaped' /\ OthersKept(r) /\ Spared({r})
  <2>1. x \in Steps /\ pc' = [pc EXCEPT ![r] = x] /\ at' = [at EXCEPT ![r] = at[r]]
    BY <1>3, <1>6 DEF Steps, Goto
  <2>2. Path(r)' = Path(r)
    BY <1>1, <1>6 DEF Path
  <2> QED
    BY <1>1, <1>2, <1>3, <1>6, <2>1, <2>2, ShapedFrom
<1>7. ASSUME Goto(r, "ok") \/ Goto(r, "failed"), at' = at, fs' = fs, touched' = touched,
              linked' = linked, hurt' \subseteq Paths
       PROVE  Shaped' /\ OthersKept(r) /\ Spared({r})
  <2>1. Spared({r})
    BY <1>7, SameFacts
  <2>2. r \in linked' => op[r] = "write" /\ fs'[Path(r)] \in Contents
    BY <1>3, <1>7 DEF Placed
  <2>3. PICK x \in Ended : Goto(r, x)
    BY <1>7 DEF Ended
  <2> QED
    BY <1>6, <1>7, <2>1, <2>2, <2>3
<1>8. CASE MakeRoot(r)
  <2>1. r \notin linked /\ op[r] = "list" /\ hurt' = hurt /\ at' = at
    BY <1>3, <1>8 DEF Placed, Ended, MakeRoot
  <2>2. CASE IsFile(Root)
    BY <1>3, <1>8, <1>7, <2>1, <2>2 DEF MakeRoot
  <2>3. CASE ~IsFile(Root)
    BY <1>3, <1>6, <1>8, <2>1, <2>3, PutFacts, Names, PathFacts DEF MakeRoot
  <2> QED
    BY <2>2, <2>3
<1>9. CASE MakeParents(r)
  <2>1. r \notin linked /\ op[r] = "write" /\ hurt' = hurt /\ at' = at
    BY <1>3, <1>9 DEF Placed, Ended, MakeParents
  <2>2. CASE \E p \in Ancestors(Path(r)) : IsFile(p)
    BY <1>3, <1>9, <1>7, <2>1, <2>2 DEF MakeParents
  <2>3. CASE ~\E p \in Ancestors(Path(r)) : IsFile(p)
    <3>1. PICK new : new = [p \in Paths |-> IF p \in Ancestors(Path(r)) THEN "dir" ELSE fs[p]]
      OBVIOUS
    <3>2. new \in [Paths -> Nodes]
      BY <1>3, <3>1, Names
    <3>3. Become(new, {r}, {}) /\ Goto(r, "open")
      BY <1>9, <2>3, <3>1 DEF MakeParents
    <3>4. {r} \in SUBSET Requests /\ {} \in SUBSET {r}
      OBVIOUS
    <3>5. Spared({r}) /\ linked' = {w \in linked \cup {} : new[Path(w)] \in Contents}
      BY <3>2, <3>3, <3>4, BecomeFacts, Zenon
    <3> QED
      BY <1>3, <1>6, <2>1, <3>3, <3>5
  <2> QED
    BY <2>2, <2>3
<1>10. CASE Open(r)
  <2>1. r \notin linked /\ op[r] = "write" /\ hurt' = hurt /\ at' = at
    BY <1>3, <1>10 DEF Placed, Ended, Open
  <2>2. CASE ~Openable(Path(r))
    BY <1>3, <1>10, <1>7, <2>1, <2>2 DEF Open
  <2>3. CASE Openable(Path(r))
    <3>1. PICK new : new = [fs EXCEPT ![Path(r)] = "empty"]
      OBVIOUS
    <3>2. new \in [Paths -> Nodes]
      BY <1>3, <3>1, Names
    <3>3. Become(new, {r}, {r}) /\ Goto(r, "write")
      BY <1>10, <2>3, <3>1 DEF Open
    <3>4. {r} \in SUBSET Requests /\ {r} \in SUBSET {r}
      OBVIOUS
    <3>5. /\ Spared({r}) /\ fs' = new
          /\ linked' = {w \in linked \cup {r} : new[Path(w)] \in Contents}
      BY <3>2, <3>3, <3>4, BecomeFacts, Zenon
    <3> QED
      BY <1>3, <1>6, <2>1, <3>3, <3>5
  <2> QED
    BY <2>2, <2>3
<1>11. CASE Write(r)
  <2>1. op[r] = "write" /\ hurt' = hurt /\ at' = at /\ Goto(r, "ok") /\ "ok" \in Ended
    BY <1>3, <1>11 DEF Placed, Ended, Write
  <2>2. CASE r \notin linked
    BY <1>3, <1>11, <1>7, <2>1, <2>2 DEF Write
  <2>3. CASE r \in linked
    <3>1. PICK c \in Over(r) : Put(r, Path(r), c)
      BY <1>11, <2>3 DEF Write
    <3>2. c \in Nodes
      BY <3>1, OverFacts, Names
    <3>3. Spared({r}) /\ linked' = {w \in linked : fs'[Path(w)] \in Contents}
      BY <1>2, <3>1, <3>2, PutFacts
    <3> QED
      BY <1>3, <1>6, <2>1, <3>3
  <2> QED
    BY <2>2, <2>3
<1>12. CASE WriteFails(r)
  <2>1. /\ op[r] = "write" /\ at' = at /\ Goto(r, "failed") /\ "failed" \in Ended
        /\ hurt' \subseteq Paths
    BY <1>2, <1>3, <1>12 DEF Placed, Ended, WriteFails
  <2>2. CASE UNCHANGED <<fs, touched, linked>>
    BY <1>7, <2>1, <2>2
  <2>3. CASE Put(r, Path(r), "part")
    <3>1. Spared({r}) /\ linked' = {w \in linked : fs'[Path(w)] \in Contents}
      BY <1>2, <2>3, PutFacts, Names
    <3> QED
      BY <1>3, <1>6, <2>1, <3>1
  <2> QED
    BY <1>12, <2>2, <2>3 DEF WriteFails
<1> QED
  BY <1>5, <1>8, <1>9, <1>10, <1>11, <1>12 DEF Changing

LEMMA ArrivingKeeps ==
  ASSUME Shaped, NEW r \in Requests, Arriving(r)
  PROVE  Shaped' /\ OthersKept(r) /\ Spared({r})
<1>1. /\ pc[r] = "idle" /\ fs' = fs /\ at' = at /\ got' = got /\ linked' = linked
      /\ changes' = changes /\ touched' = touched /\ hurt' = hurt
  BY ArriveFacts
<1>2. PICK kind \in Kinds \ {"none"}, ps \in Seq(Paths) :
        /\ op' = [op EXCEPT ![r] = kind] /\ paths' = [paths EXCEPT ![r] = ps]
        /\ pc' = [pc EXCEPT ![r] = First(kind)] /\ Len(ps) \in {1, 2}
  BY ArriveFacts
<1>3. PICK x : x = First(kind)
  OBVIOUS
<1>4. /\ kind = "list" => x = "makeRoot"
      /\ kind = "read" => x = "stat"
      /\ kind = "write" => x = "makeParents"
      /\ kind = "delete" => x = "remove"
      /\ x \in {"makeRoot", "stat", "makeParents", "remove"}
  BY <1>2, <1>3 DEF First, Kinds
<1>5. pc' = [pc EXCEPT ![r] = x]
  BY <1>2, <1>3
<1>6. Placed(r)
  BY DEF Shaped
<1>7. at[r] = 1 /\ r \notin linked
  BY <1>1, <1>6 DEF Placed, Ended
<1>8. TypeOK'
  BY <1>1, <1>2, <1>4, <1>5 DEF Shaped, TypeOK, Kinds
<1>9. OthersKept(r)
  BY <1>1, <1>2, <1>5 DEF OthersKept, Shaped, TypeOK
<1>10. Placed(r)'
  <2>1. op'[r] = kind /\ paths'[r] = ps /\ pc'[r] = x /\ at'[r] = 1 /\ r \notin linked'
    BY <1>1, <1>2, <1>5, <1>7 DEF Shaped, TypeOK
  <2>2. 1 \in 1..Len(ps) /\ kind # "none" /\ x # "idle"
    BY <1>2, <1>4 DEF Kinds
  <2> QED
    BY <1>2, <1>4, <2>1, <2>2 DEF Placed, Kinds
<1>11. ASSUME NEW d \in Requests \ {r} PROVE Placed(d)'
  <2>1. Path(d)' = Path(d) /\ Placed(d)
    BY <1>9, <1>11 DEF Path, OthersKept, Shaped
  <2> QED
    BY <1>1, <1>9, <1>11, <2>1 DEF Placed, OthersKept
<1>12. Spared({r})
  BY <1>1, SameFacts
<1> QED
  BY <1>8, <1>9, <1>10, <1>11, <1>12 DEF Shaped

(* A request as a step of somebody else leaves it: killed at most, with    *)
(* the file it was writing known to be hurt.                               *)
Bystander(d) ==
  /\ op'[d] = op[d] /\ paths'[d] = paths[d] /\ at'[d] = at[d] /\ got'[d] = got[d]
  /\ \/ pc'[d] = pc[d]
     \/ /\ pc[d] \notin Ended \cup {"idle"} /\ pc'[d] = "killed"
        /\ d \in linked /\ pc[d] = "write" => Path(d) \in hurt'
  /\ d \in linked' <=> d \in linked /\ fs'[Path(d)] \in Contents
  /\ d \notin touched' => \A i \in 1..Len(paths[d]) : fs'[paths[d][i]] = fs[paths[d][i]]

LEMMA GameFacts ==
  ASSUME Shaped, Game
  PROVE  /\ Spared({}) /\ op' = op /\ pc' = pc /\ paths' = paths /\ at' = at /\ got' = got
         /\ hurt' = hurt /\ changes' \in 0..MaxChanges
         /\ \E p \in Paths \ {Root}, x \in {"none", "dir", "game", "large"} :
              /\ fs' = [fs EXCEPT ![p] = x]
              /\ x # "none" => fs[Parent(p)] = "dir"
              /\ x = "dir" => fs[p] = "none"
              /\ x \in {"game", "large"} => fs[p] # "dir"
              /\ x = "none" => \A q \in Children(p) : fs[q] = "none"
<1>1. PICK p \in Paths \ {Root} :
        \/ \E node \in {"game", "large"} :
             fs[Parent(p)] = "dir" /\ fs[p] # "dir" /\ Become([fs EXCEPT ![p] = node], {}, {})
        \/ /\ fs[Parent(p)] = "dir" /\ fs[p] = "none"
           /\ Become([fs EXCEPT ![p] = "dir"], {}, {})
        \/ /\ fs[p] # "none" /\ \A q \in Children(p) : fs[q] = "none"
           /\ Become([fs EXCEPT ![p] = "none"], {}, {})
  BY DEF Game
<1>2. PICK x \in {"none", "dir", "game", "large"} :
        /\ Become([fs EXCEPT ![p] = x], {}, {})
        /\ x # "none" => fs[Parent(p)] = "dir"
        /\ x = "dir" => fs[p] = "none"
        /\ x \in {"game", "large"} => fs[p] # "dir"
        /\ x = "none" => \A q \in Children(p) : fs[q] = "none"
  BY <1>1
<1>3. PICK new : new = [fs EXCEPT ![p] = x]
  OBVIOUS
<1>4. new \in [Paths -> Nodes]
  BY <1>3, Names DEF Shaped, TypeOK
<1>5. {} \in SUBSET Requests /\ {} \in SUBSET {} /\ Become(new, {}, {})
  BY <1>2, <1>3
<1>6. Spared({}) /\ fs' = new
  BY <1>4, <1>5, BecomeFacts, Zenon
<1>7. /\ op' = op /\ pc' = pc /\ paths' = paths /\ at' = at /\ got' = got /\ hurt' = hurt
      /\ changes' \in 0..MaxChanges
  BY FilesAssumption DEF Game, request, Shaped, TypeOK
<1> QED
  BY <1>2, <1>3, <1>6, <1>7

LEMMA DiesFacts ==
  ASSUME Shaped, Dies
  PROVE  /\ Spared({}) /\ op' = op /\ paths' = paths /\ at' = at /\ got' = got
         /\ fs' = fs /\ linked' = linked /\ changes' = changes
         /\ pc' = [r \in Requests |-> IF r \in Active THEN "killed" ELSE pc[r]]
         /\ hurt \subseteq hurt' /\ hurt' \subseteq Paths
         /\ \A w \in linked : pc[w] = "write" => Path(w) \in hurt'
<1>1. /\ op' = op /\ paths' = paths /\ at' = at /\ got' = got /\ touched' = touched
      /\ fs' = fs /\ linked' = linked /\ changes' = changes
      /\ pc' = [r \in Requests |-> IF r \in Active THEN "killed" ELSE pc[r]]
      /\ hurt' = hurt \cup {Path(r) : r \in {w \in linked : pc[w] = "write"}}
  BY DEF Dies
<1>2. \A w \in linked : w \in Requests /\ (pc[w] = "write" => Path(w) \in Paths)
  BY PathTypes DEF Shaped, TypeOK
<1>3. hurt \subseteq Paths
  BY DEF Shaped, TypeOK
<1> QED
  BY <1>1, <1>2, <1>3, SameFacts

LEMMA SharedKeeps ==
  ASSUME Shaped, Game \/ Dies
  PROVE  /\ Shaped' /\ Spared({}) /\ hurt \subseteq hurt'
         /\ \A d \in Requests : Bystander(d)
<1>1. /\ Spared({}) /\ op' = op /\ paths' = paths /\ at' = at /\ got' = got
      /\ hurt \subseteq hurt' /\ hurt' \subseteq Paths /\ changes' \in 0..MaxChanges
  BY GameFacts, DiesFacts DEF Shaped, TypeOK
<1>2. \A d \in Requests :
        \/ pc'[d] = pc[d]
        \/ /\ pc[d] \notin Ended \cup {"idle"} /\ pc'[d] = "killed"
           /\ d \in linked /\ pc[d] = "write" => Path(d) \in hurt'
  BY GameFacts, DiesFacts DEF Active
<1>3. pc' \in [Requests -> Steps]
  BY GameFacts, DiesFacts DEF Shaped, TypeOK, Steps, Ended
<1>4. TypeOK'
  BY <1>1, <1>3 DEF Shaped, TypeOK, Spared, Steps
<1>5. ASSUME NEW d \in Requests PROVE Bystander(d)
  BY <1>1, <1>2, <1>5 DEF Bystander, Spared
<1>6. ASSUME NEW d \in Requests PROVE Placed(d)'
  <2>1. Path(d)' = Path(d) /\ Placed(d)
    BY <1>1 DEF Path, Shaped
  <2> QED
    BY <1>1, <1>5, <2>1 DEF Placed, Bystander, Ended
<1> QED
  BY <1>1, <1>4, <1>5, <1>6 DEF Shaped

(* What any step is to a request: its own, or somebody else's.             *)
LEMMA EveryStep ==
  ASSUME Shaped, [Next]_vars
  PROVE  /\ Shaped' /\ touched \subseteq touched' /\ hurt \subseteq hurt'
         /\ \A d \in Requests :
              \/ Bystander(d) \/ Arriving(d) \/ Looking(d) \/ Refusing(d) \/ Changing(d)
<1>1. CASE UNCHANGED vars
  <2>1. /\ fs' = fs /\ op' = op /\ pc' = pc /\ paths' = paths /\ at' = at /\ got' = got
        /\ linked' = linked /\ changes' = changes /\ touched' = touched /\ hurt' = hurt
    BY <1>1 DEF vars, request
  <2>2. Spared({})
    BY <2>1, SameFacts
  <2>3. ASSUME NEW d \in Requests PROVE Placed(d)' /\ Bystander(d)
    <3>1. Path(d)' = Path(d) /\ Placed(d)
      BY <2>1 DEF Path, Shaped
    <3> QED
      BY <2>1, <2>2, <3>1 DEF Placed, Bystander, Spared
  <2> QED
    BY <2>1, <2>3 DEF Shaped, TypeOK
<1>2. CASE Game \/ Dies
  BY <1>2, SharedKeeps DEF Spared
<1>3. ASSUME NEW r \in Requests, Arriving(r) \/ Looking(r) \/ Refusing(r) \/ Changing(r)
      PROVE  /\ Shaped' /\ touched \subseteq touched' /\ hurt \subseteq hurt'
             /\ \A d \in Requests :
                  \/ Bystander(d) \/ Arriving(d) \/ Looking(d) \/ Refusing(d) \/ Changing(d)
  <2>1. Shaped' /\ OthersKept(r) /\ Spared({r})
    BY <1>3, ArrivingKeeps, LookFacts, ChangeFacts
  <2>2. ASSUME NEW d \in Requests \ {r} PROVE Bystander(d)
    BY <2>1, <2>2 DEF OthersKept, Spared, Bystander
  <2>3. hurt \subseteq hurt'
    <3>1. CASE Arriving(r)
      BY <3>1, ArriveFacts
    <3> QED
      BY <1>3, <3>1 DEF Looking, Refusing, Changing, ReadDir, Stat, ReadFile, NothingThere, TooLarge,
         RefuseRoot, RemoveFails, MakeRoot, MakeParents, Open, Write, WriteFails, RemoveLeaf
  <2> QED
    BY <1>3, <2>1, <2>2, <2>3 DEF Spared
<1> QED
  BY <1>1, <1>2, <1>3, NextSteps

LEMMA ShapedInit ==
  ASSUME Init PROVE Shaped
<1>1. \A x \in {"none", "dir", "game", "large"} : x \in Nodes
  BY Names
<1>2. TypeOK
  <2>1. fs \in [Paths -> Nodes]
    BY <1>1 DEF Init
  <2>2. changes \in 0..MaxChanges
    BY FilesAssumption DEF Init
  <2>3. <<>> \in Seq(Paths)
    OBVIOUS
  <2> QED
    BY <2>1, <2>2, <2>3 DEF Init, TypeOK
<1>3. ASSUME NEW r \in Requests PROVE Placed(r)
  BY DEF Init, Placed, Ended
<1> QED
  BY <1>2, <1>3 DEF Shaped

THEOREM ShapedHolds == Spec => []Shaped
<1>1. Shaped /\ [Next]_vars => Shaped'
  BY EveryStep
<1> QED
  BY ShapedInit, <1>1, PTL DEF Spec

(* Every variable has its type.                                            *)
THEOREM TypeCorrect == Spec => []TypeOK
<1>1. Shaped => TypeOK
  BY DEF Shaped
<1> QED
  BY ShapedHolds, <1>1, PTL

-----------------------------------------------------------------------------
(* The data directory is a tree *)

(* What is there lies in directories.                                      *)
Tree == \A p, q \in Paths : Below(p, q) /\ fs[p] # "none" => fs[q] = "dir"

Made ==
  \E p \in Paths, x \in Nodes \ {"none"} :
    /\ fs' = [fs EXCEPT ![p] = x]
    /\ fs[p] # "dir" \/ x = "dir"
    /\ p = Root \/ fs[p] # "none" \/ fs[Parent(p)] = "dir"
Removed ==
  \E p \in Paths \ {Root} :
    fs' = [fs EXCEPT ![p] = "none"] /\ \A q \in Children(p) : fs[q] = "none"
MadeParents ==
  \E q \in Paths :
    /\ \A p \in Ancestors(q) : ~IsFile(p)
    /\ fs' = [p \in Paths |-> IF p \in Ancestors(q) THEN "dir" ELSE fs[p]]

LEMMA MadeIn ==
  ASSUME NEW p \in Paths, NEW x \in Nodes, x # "none", fs' = [fs EXCEPT ![p] = x],
         fs[p] # "dir" \/ x = "dir", p = Root \/ fs[p] # "none" \/ fs[Parent(p)] = "dir"
  PROVE  Made
BY DEF Made

LEMMA DirectorySteps ==
  ASSUME Shaped, [Next]_vars
  PROVE  fs' = fs \/ Made \/ Removed \/ MadeParents
<1>1. CASE UNCHANGED vars
  BY <1>1 DEF vars
<1>2. CASE Dies
  BY <1>2, DiesFacts
<1>3. CASE Game
  <2>1. PICK p \in Paths \ {Root}, x \in {"none", "dir", "game", "large"} :
          /\ fs' = [fs EXCEPT ![p] = x]
          /\ x # "none" => fs[Parent(p)] = "dir"
          /\ x = "dir" => fs[p] = "none"
          /\ x \in {"game", "large"} => fs[p] # "dir"
          /\ x = "none" => \A q \in Children(p) : fs[q] = "none"
    BY <1>3, GameFacts
  <2>2. CASE x = "none"
    BY <2>1, <2>2 DEF Removed
  <2>3. CASE x # "none"
    <3>1. x \in Nodes /\ (fs[p] # "dir" \/ x = "dir")
      BY <2>1, <2>3, Names
    <3> QED
      BY <2>1, <2>3, <3>1, MadeIn
  <2> QED
    BY <2>2, <2>3
<1>4. ASSUME NEW r \in Requests, Arriving(r) \/ Looking(r) \/ Refusing(r) PROVE fs' = fs
  <2>1. CASE Arriving(r)
    BY <2>1, ArriveFacts
  <2> QED
    BY <1>4, <2>1 DEF Looking, Refusing, ReadDir, Stat, ReadFile, NothingThere, TooLarge, RefuseRoot,
                   RemoveFails
<1>5. ASSUME NEW r \in Requests, Changing(r) PROVE fs' = fs \/ Made \/ Removed \/ MadeParents
  <2>1. /\ pc[r] # "idle" /\ Placed(r)
        /\ Path(r) \in Paths /\ Root \in Paths
    BY <1>5, PathTypes, PathFacts DEF Changing, MakeRoot, MakeParents, Open, Write, WriteFails,
       RemoveLeaf, Removing, Shaped
  <2>2. ASSUME NEW p \in Paths, NEW x \in Nodes, Put(r, p, x) PROVE fs' = [fs EXCEPT ![p] = x]
    BY <2>2, PutFacts
  <2>3. r \in linked => fs[Path(r)] # "none" /\ fs[Path(r)] # "dir"
    BY <2>1, Names DEF Placed
  <2>4. CASE MakeRoot(r)
    <3>1. CASE IsFile(Root)
      BY <2>4, <3>1 DEF MakeRoot
    <3>2. CASE ~IsFile(Root)
      <4>1. fs' = [fs EXCEPT ![Root] = "dir"] /\ "dir" \in Nodes /\ "dir" # "none"
        BY <2>1, <2>2, <2>4, <3>2, Names DEF MakeRoot
      <4> QED
        BY <2>1, <4>1, MadeIn
    <3> QED
      BY <3>1, <3>2
  <2>5. CASE MakeParents(r)
    BY <2>1, <2>5 DEF MakeParents, Become, MadeParents
  <2>6. CASE Open(r)
    <3>1. CASE ~Openable(Path(r))
      BY <2>6, <3>1 DEF Open
    <3>2. CASE Openable(Path(r))
      <4>1. fs' = [fs EXCEPT ![Path(r)] = "empty"] /\ "empty" \in Nodes /\ "empty" # "none"
        BY <2>6, <3>2, Names DEF Open, Become
      <4>2. fs[Path(r)] # "dir" /\ (Path(r) = Root \/ fs[Parent(Path(r))] = "dir")
        BY <3>2 DEF Openable
      <4> QED
        BY <2>1, <4>1, <4>2, MadeIn
    <3> QED
      BY <3>1, <3>2
  <2>7. CASE Write(r)
    <3>1. CASE r \notin linked
      BY <2>7, <3>1 DEF Write
    <3>2. CASE r \in linked
      <4>1. PICK c \in Over(r) : Put(r, Path(r), c)
        BY <2>7, <3>2 DEF Write
      <4>2. c \in Nodes /\ c # "none"
        BY <4>1, OverFacts, Names
      <4>3. fs' = [fs EXCEPT ![Path(r)] = c]
        BY <2>1, <2>2, <4>1, <4>2
      <4> QED
        BY <2>1, <2>3, <3>2, <4>2, <4>3, MadeIn
    <3> QED
      BY <3>1, <3>2
  <2>8. CASE WriteFails(r)
    <3>1. CASE fs' = fs
      BY <3>1
    <3>2. CASE fs' # fs
      <4>1. r \in linked /\ Put(r, Path(r), "part")
        BY <2>8, <3>2 DEF WriteFails
      <4>2. fs' = [fs EXCEPT ![Path(r)] = "part"] /\ "part" \in Nodes /\ "part" # "none"
        BY <2>1, <2>2, <4>1, Names
      <4> QED
        BY <2>1, <2>3, <4>1, <4>2, MadeIn
    <3> QED
      BY <3>1, <3>2
  <2>9. CASE RemoveLeaf(r)
    <3>1. PICK p \in Under(Path(r)) : (\A q \in Children(p) : fs[q] = "none") /\ Put(r, p, "none")
      BY <2>9 DEF RemoveLeaf
    <3>2. Path(r) # Root /\ p \in Paths
      BY <2>9, <3>1 DEF RemoveLeaf, Removing, Under
    <3>3. p # Root
      BY <2>1, <3>1, <3>2, RootOnTop
    <3>4. fs' = [fs EXCEPT ![p] = "none"]
      BY <2>2, <3>1, <3>2, Names
    <3> QED
      BY <3>1, <3>2, <3>3, <3>4 DEF Removed
  <2> QED
    BY <1>5, <2>4, <2>5, <2>6, <2>7, <2>8, <2>9 DEF Changing
<1> QED
  BY <1>1, <1>2, <1>3, <1>4, <1>5, NextSteps

(* A tree stays one, and its root a directory.                             *)
LEMMA TreeStep ==
  ASSUME Shaped, Tree, [Next]_vars
  PROVE  Tree' /\ (fs[Root] = "dir" => fs'[Root] = "dir")
<1>1. fs \in [Paths -> Nodes] /\ Root \in Paths
  BY PathFacts DEF Shaped, TypeOK
<1>2. CASE fs' = fs
  BY <1>2 DEF Tree
<1>3. CASE Made
  <2>1. PICK p \in Paths, x \in Nodes \ {"none"} :
          /\ fs' = [fs EXCEPT ![p] = x]
          /\ fs[p] # "dir" \/ x = "dir"
          /\ p = Root \/ fs[p] # "none" \/ fs[Parent(p)] = "dir"
    BY <1>3 DEF Made
  <2>2. fs'[p] = x /\ \A a \in Paths \ {p} : fs'[a] = fs[a]
    BY <1>1, <2>1
  <2>3. ASSUME NEW a \in Paths, NEW b \in Paths, Below(a, b), fs'[a] # "none"
        PROVE  fs'[b] = "dir"
    <3>1. a # b
      BY <2>3, RootOnTop
    <3>2. CASE b = p
      BY <2>1, <2>2, <2>3, <3>1, <3>2 DEF Tree
    <3>3. CASE b # p /\ a # p
      BY <2>2, <2>3, <3>3 DEF Tree
    <3>4. CASE b # p /\ a = p
      <4>1. p # Root
        BY <2>3, <3>4, RootOnTop
      <4>2. fs[b] = "dir"
        BY <2>1, <2>3, <3>4, <4>1, ParentFacts, Names DEF Tree
      <4> QED
        BY <2>2, <3>4, <4>2
    <3> QED
      BY <3>2, <3>3, <3>4
  <2> QED
    BY <1>1, <2>1, <2>2, <2>3 DEF Tree
<1>4. CASE Removed
  <2>1. PICK p \in Paths \ {Root} :
          fs' = [fs EXCEPT ![p] = "none"] /\ \A q \in Children(p) : fs[q] = "none"
    BY <1>4 DEF Removed
  <2>2. fs'[p] = "none" /\ \A a \in Paths \ {p} : fs'[a] = fs[a]
    BY <1>1, <2>1
  <2>3. ASSUME NEW a \in Paths, NEW b \in Paths, Below(a, b), fs'[a] # "none"
        PROVE  fs'[b] = "dir"
    <3>1. a # p /\ fs[a] # "none"
      BY <2>2, <2>3
    <3>2. b # p
      <4>1. SUFFICES ASSUME b = p PROVE FALSE
        OBVIOUS
      <4>2. PICK c \in Children(p) : c = a \/ Below(a, c)
        BY <2>3, <4>1, ChildBetween
      <4>3. c \in Paths /\ fs[c] = "none"
        BY <2>1 DEF Children
      <4> QED
        BY <3>1, <4>2, <4>3 DEF Tree
    <3> QED
      BY <2>2, <2>3, <3>1, <3>2 DEF Tree
  <2> QED
    BY <1>1, <2>2, <2>3 DEF Tree
<1>5. CASE MadeParents
  <2>1. PICK q \in Paths :
          /\ \A p \in Ancestors(q) : ~IsFile(p)
          /\ fs' = [p \in Paths |-> IF p \in Ancestors(q) THEN "dir" ELSE fs[p]]
    BY <1>5 DEF MadeParents
  <2>2. \A p \in Paths : fs'[p] = IF Below(q, p) THEN "dir" ELSE fs[p]
    BY <2>1, RootOnTop
  <2>3. ASSUME NEW a \in Paths, NEW b \in Paths, Below(a, b), fs'[a] # "none"
        PROVE  fs'[b] = "dir"
    BY <2>2, <2>3, Transitive DEF Tree
  <2> QED
    BY <1>1, <2>2, <2>3 DEF Tree
<1> QED
  BY <1>2, <1>3, <1>4, <1>5, DirectorySteps

THEOREM TreeHolds == Spec => []Tree
<1>1. Init => Tree
  BY RootOnTop DEF Init, Tree
<1>2. Shaped /\ Tree /\ [Next]_vars => Tree'
  BY TreeStep
<1> QED
  BY ShapedHolds, <1>1, <1>2, PTL DEF Spec

(* No request, whichever way it names it, and no crash takes the server's  *)
(* directory away or makes it a file (files.go:81-95, 120-134).            *)
THEOREM RootKeptHolds == Spec => RootKept
<1>1. Shaped /\ Tree /\ [Next]_vars => [fs[Root] = "dir" => fs'[Root] = "dir"]_fs
  BY TreeStep
<1> QED
  BY ShapedHolds, TreeHolds, <1>1, PTL DEF Spec, RootKept

-----------------------------------------------------------------------------
(* What a request that nobody crossed has done *)

LEMMA BystanderFacts ==
  ASSUME Shaped, NEW r \in Requests, Bystander(r), pc[r] # "idle"
  PROVE  /\ Path(r)' = Path(r)
         /\ r \notin touched' => /\ fs'[Path(r)] = fs[Path(r)]
                                 /\ r \in linked' <=> r \in linked
<1>1. /\ Path(r) = paths[r][at[r]] /\ at[r] \in 1..Len(paths[r])
      /\ r \in linked => fs[Path(r)] \in Contents
  BY PathTypes DEF Shaped, Placed
<1> QED
  BY <1>1 DEF Bystander, Path

(* The steps of a request itself, by the operation they are of.            *)
LEMMA OwnFacts ==
  ASSUME Shaped, NEW r \in Requests, Looking(r) \/ Refusing(r) \/ Changing(r)
  PROVE  /\ op' = op /\ paths' = paths /\ pc[r] \notin Ended \cup {"idle"}
         /\ op[r] # "delete" => at' = at /\ Path(r)' = Path(r)
         /\ \/ op[r] = "list"
            \/ op[r] = "read" /\ (Stat(r) \/ ReadFile(r))
            \/ op[r] = "write" /\ (MakeParents(r) \/ Open(r) \/ Write(r))
            \/ op[r] = "write" /\ (WriteFails(r) \/ TooLarge(r))
            \/ op[r] = "delete" /\ (NothingThere(r) \/ RemoveLeaf(r))
            \/ op[r] = "delete" /\ (RefuseRoot(r) \/ RemoveFails(r))
<1>1. Placed(r)
  BY DEF Shaped
<1>2. op' = op /\ paths' = paths /\ pc[r] \notin Ended \cup {"idle"}
  BY DEF Looking, Refusing, Changing, ReadDir, Stat, ReadFile, NothingThere, TooLarge,
     RefuseRoot, RemoveFails, MakeRoot, MakeParents, Open, Write, WriteFails, RemoveLeaf,
     Removing, Ended
<1>3. CASE MakeRoot(r) \/ ReadDir(r)
  BY <1>1, <1>2, <1>3 DEF Placed, MakeRoot, ReadDir, Path
<1>4. CASE Stat(r) \/ ReadFile(r)
  BY <1>1, <1>2, <1>4 DEF Placed, Stat, ReadFile, Path
<1>5. CASE MakeParents(r) \/ Open(r) \/ Write(r)
  BY <1>1, <1>2, <1>5 DEF Placed, MakeParents, Open, Write, Path
<1>6. CASE WriteFails(r) \/ TooLarge(r)
  BY <1>1, <1>2, <1>6 DEF Placed, WriteFails, TooLarge, Path
<1>7. CASE NothingThere(r) \/ RemoveLeaf(r) \/ RefuseRoot(r) \/ RemoveFails(r)
  BY <1>1, <1>2, <1>7 DEF Placed, NothingThere, RemoveLeaf, RefuseRoot, RemoveFails, Removing
<1> QED
  BY <1>3, <1>4, <1>5, <1>6, <1>7 DEF Looking, Refusing, Changing

(* A writer's file is its own and empty until it writes, and then whole.   *)
Saved ==
  \A r \in Requests \ touched :
    /\ pc[r] = "write" => r \in linked /\ fs[Path(r)] = "empty"
    /\ op[r] = "write" /\ pc[r] = "ok" => fs[Path(r)] = r

LEMMA SavedStep ==
  ASSUME Shaped, Saved, [Next]_vars
  PROVE  Saved'
<1> SUFFICES ASSUME NEW r \in Requests, r \notin touched'
             PROVE  /\ pc'[r] = "write" => r \in linked' /\ fs'[Path(r)'] = "empty"
                    /\ op'[r] = "write" /\ pc'[r] = "ok" => fs'[Path(r)'] = r
  BY DEF Saved
<1>1. /\ pc \in [Requests -> Steps] /\ fs \in [Paths -> Nodes] /\ Placed(r) /\ Shaped'
  BY EveryStep DEF Shaped, TypeOK, Steps
<1>2. /\ pc[r] = "write" => r \in linked /\ fs[Path(r)] = "empty"
      /\ op[r] = "write" /\ pc[r] = "ok" => fs[Path(r)] = r
  BY EveryStep DEF Saved
<1>3. CASE Bystander(r)
  <2>1. CASE pc[r] = "idle"
    BY <1>3, <2>1 DEF Bystander
  <2>2. CASE pc[r] # "idle"
    BY <1>2, <1>3, <2>2, BystanderFacts DEF Bystander
  <2> QED
    BY <2>1, <2>2
<1>4. CASE Arriving(r)
  <2>1. PICK kind \in Kinds \ {"none"} : pc' = [pc EXCEPT ![r] = First(kind)]
    BY <1>4, ArriveFacts
  <2>2. First(kind) \in {"makeRoot", "stat", "makeParents", "remove"}
    BY DEF First, Kinds
  <2> QED
    BY <1>1, <2>1, <2>2
<1>5. CASE Looking(r) \/ Refusing(r) \/ Changing(r)
  <2>1. CASE op[r] # "write"
    <3>1. op'[r] # "write" /\ Placed(r)'
      BY <1>1, <1>5, <2>1, OwnFacts DEF Shaped
    <3> QED
      BY <3>1 DEF Placed
  <2>2. CASE op[r] = "write"
    <3>1. /\ MakeParents(r) \/ Open(r) \/ Write(r) \/ WriteFails(r) \/ TooLarge(r)
          /\ Path(r)' = Path(r) /\ Path(r) \in Paths /\ pc[r] # "idle"
      BY <1>5, <2>2, OwnFacts, PathTypes
    <3>2. CASE MakeParents(r)
      BY <1>1, <3>2 DEF MakeParents, Goto
    <3>3. CASE WriteFails(r) \/ TooLarge(r)
      BY <1>1, <3>3 DEF WriteFails, TooLarge, Goto
    <3>4. CASE Open(r)
      <4>1. CASE ~Openable(Path(r))
        BY <1>1, <3>4, <4>1 DEF Open, Goto
      <4>2. CASE Openable(Path(r))
        <5>1. PICK new : new = [fs EXCEPT ![Path(r)] = "empty"]
          OBVIOUS
        <5>2. fs' = new /\ linked' = {w \in linked \cup {r} : new[Path(w)] \in Contents}
          BY <3>4, <4>2, <5>1 DEF Open, Become
        <5>3. new[Path(r)] = "empty" /\ "empty" \in Contents
          BY <1>1, <3>1, <5>1, Names
        <5>4. pc'[r] = "write"
          BY <1>1, <3>4, <4>2 DEF Open, Goto
        <5> QED
          BY <3>1, <5>2, <5>3, <5>4
      <4> QED
        BY <4>1, <4>2
    <3>5. CASE Write(r)
      <4>1. pc'[r] = "ok" /\ r \in linked /\ fs[Path(r)] = "empty"
        BY <1>1, <1>2, <3>5 DEF Write, Goto
      <4>2. PICK c \in Over(r) : Put(r, Path(r), c)
        BY <3>5, <4>1 DEF Write
      <4>3. c = r /\ c \in Nodes
        BY <4>1, <4>2, OverFacts, Names
      <4>4. fs' = [fs EXCEPT ![Path(r)] = c]
        BY <3>1, <4>2, <4>3, PutFacts
      <4> QED
        BY <1>1, <3>1, <4>1, <4>3, <4>4
    <3> QED
      BY <3>1, <3>2, <3>3, <3>4, <3>5
  <2> QED
    BY <2>1, <2>2
<1> QED
  BY <1>3, <1>4, <1>5, EveryStep

THEOREM SavedHolds == Spec => []Saved
<1>1. Init => Saved
  BY DEF Init, Saved
<1>2. Shaped /\ Saved /\ [Next]_vars => Saved'
  BY SavedStep
<1> QED
  BY ShapedHolds, <1>1, <1>2, PTL DEF Spec

(* A write that was answered with success, of a file nobody else changed   *)
(* since it came, is there in full, although Write makes directories,      *)
(* truncates and writes in separate steps (files.go:120-134).              *)
THEOREM SavedWholeHolds == Spec => []SavedWhole
<1>1. Saved => SavedWhole
  BY DEF Saved, SavedWhole
<1> QED
  BY SavedHolds, <1>1, PTL

(* What was found small enough is read, and is what is still there.        *)
Read ==
  \A r \in Requests \ touched :
    /\ pc[r] = "readFile" => fs[Path(r)] \in Contents /\ fs[Path(r)] # "large"
    /\ op[r] = "read" /\ pc[r] = "ok" => got[r] = fs[Path(r)] /\ fs[Path(r)] # "large"

LEMMA ReadStep ==
  ASSUME Shaped, Read, [Next]_vars
  PROVE  Read'
<1> SUFFICES ASSUME NEW r \in Requests, r \notin touched'
             PROVE  /\ pc'[r] = "readFile" =>
                         fs'[Path(r)'] \in Contents /\ fs'[Path(r)'] # "large"
                    /\ op'[r] = "read" /\ pc'[r] = "ok" =>
                         got'[r] = fs'[Path(r)'] /\ fs'[Path(r)'] # "large"
  BY DEF Read
<1>1. pc \in [Requests -> Steps] /\ got \in [Requests -> {"none"} \cup Contents] /\ Shaped'
  BY EveryStep DEF Shaped, TypeOK, Steps
<1>2. /\ pc[r] = "readFile" => fs[Path(r)] \in Contents /\ fs[Path(r)] # "large"
      /\ op[r] = "read" /\ pc[r] = "ok" => got[r] = fs[Path(r)] /\ fs[Path(r)] # "large"
  BY EveryStep DEF Read
<1>3. CASE Bystander(r)
  <2>1. CASE pc[r] = "idle"
    BY <1>3, <2>1 DEF Bystander
  <2>2. CASE pc[r] # "idle"
    BY <1>2, <1>3, <2>2, BystanderFacts DEF Bystander
  <2> QED
    BY <2>1, <2>2
<1>4. CASE Arriving(r)
  <2>1. PICK kind \in Kinds \ {"none"} : pc' = [pc EXCEPT ![r] = First(kind)]
    BY <1>4, ArriveFacts
  <2>2. First(kind) \in {"makeRoot", "stat", "makeParents", "remove"}
    BY DEF First, Kinds
  <2> QED
    BY <1>1, <2>1, <2>2
<1>5. CASE Looking(r) \/ Refusing(r) \/ Changing(r)
  <2>1. CASE op[r] # "read"
    <3>1. op'[r] # "read" /\ Placed(r)'
      BY <1>1, <1>5, <2>1, OwnFacts DEF Shaped
    <3> QED
      BY <3>1 DEF Placed
  <2>2. CASE op[r] = "read"
    <3>1. (Stat(r) \/ ReadFile(r)) /\ Path(r)' = Path(r)
      BY <1>5, <2>2, OwnFacts
    <3>2. CASE Stat(r)
      BY <1>1, <3>1, <3>2 DEF Stat, Goto, IsFile
    <3>3. CASE ReadFile(r)
      BY <1>1, <1>2, <3>1, <3>3 DEF ReadFile, Goto
    <3> QED
      BY <3>1, <3>2, <3>3
  <2> QED
    BY <2>1, <2>2
<1> QED
  BY <1>3, <1>4, <1>5, EveryStep

(* A read that was answered gives what the file holds, and not more than   *)
(* the limit its size was held against, unless others changed it meanwhile *)
(* or since (files.go:104-118).                                            *)
THEOREM ReadTrueHolds == Spec => []ReadTrue
<1>1. Init => Read
  BY DEF Init, Read
<1>2. Shaped /\ Read /\ [Next]_vars => Read'
  BY ReadStep
<1>3. Read => ReadTrue
  BY DEF Read, ReadTrue
<1> QED
  BY ShapedHolds, <1>1, <1>2, <1>3, PTL DEF Spec

(* The paths a delete is past are gone.                                    *)
Gone ==
  \A r \in Requests \ touched : op[r] = "delete" =>
    \A i \in 1..Len(paths[r]) : pc[r] = "ok" \/ i < at[r] => fs[paths[r][i]] = "none"

LEMMA GoneStep ==
  ASSUME Shaped, Gone, [Next]_vars
  PROVE  Gone'
<1> SUFFICES ASSUME NEW r \in Requests, r \notin touched', op'[r] = "delete",
                    NEW i \in 1..Len(paths'[r]), pc'[r] = "ok" \/ i < at'[r]
             PROVE  fs'[paths'[r][i]] = "none"
  BY DEF Gone
<1>1. /\ pc \in [Requests -> Steps] /\ at \in [Requests -> Nat] /\ fs \in [Paths -> Nodes]
      /\ paths \in [Requests -> Seq(Paths)] /\ op \in [Requests -> Kinds]
  BY DEF Shaped, TypeOK, Steps, Kinds
<1>2. op[r] = "delete" =>
        \A j \in 1..Len(paths[r]) : pc[r] = "ok" \/ j < at[r] => fs[paths[r][j]] = "none"
  BY EveryStep DEF Gone
<1>3. CASE Bystander(r)
  BY <1>2, <1>3 DEF Bystander
<1>4. CASE Arriving(r)
  <2>1. PICK kind \in Kinds \ {"none"} : pc' = [pc EXCEPT ![r] = First(kind)]
    BY <1>4, ArriveFacts
  <2>2. First(kind) \in {"makeRoot", "stat", "makeParents", "remove"}
    BY DEF First, Kinds
  <2>3. at'[r] = 1 /\ pc'[r] # "ok"
    BY <1>1, <1>4, <2>1, <2>2, ArriveFacts DEF Shaped, Placed
  <2>4. paths'[r] \in Seq(Paths)
    BY EveryStep DEF Shaped, TypeOK
  <2> QED
    BY <2>3, <2>4
<1>5. CASE Looking(r) \/ Refusing(r) \/ Changing(r)
  <2>1. /\ op[r] = "delete" /\ paths' = paths /\ pc[r] \notin Ended \cup {"idle"}
        /\ NothingThere(r) \/ RemoveLeaf(r) \/ RefuseRoot(r) \/ RemoveFails(r)
    BY <1>5, OwnFacts
  <2>2. /\ i \in 1..Len(paths[r]) /\ paths[r][i] \in Paths /\ Len(paths[r]) \in Nat
        /\ at[r] \in 1..Len(paths[r]) /\ Path(r) = paths[r][at[r]] /\ Path(r) \in Paths
    <3>1. /\ Path(r) \in Paths /\ at[r] \in 1..Len(paths[r]) /\ paths[r] \in Seq(Paths)
          /\ Path(r) = paths[r][at[r]]
      BY <2>1, PathTypes
    <3>2. i \in 1..Len(paths[r]) /\ Len(paths[r]) \in Nat
      BY <2>1, <3>1
    <3>3. paths[r][i] \in Paths
      BY <3>1, <3>2, ElementOfSeq, Zenon
    <3> QED
      BY <3>1, <3>2, <3>3
  <2>3. i < at[r] => fs[paths[r][i]] = "none"
    BY <1>2, <2>1, <2>2
  <2>4. CASE RefuseRoot(r) \/ RemoveFails(r)
    <3>1. i < at[r] /\ fs' = fs
      BY <1>1, <2>4 DEF RefuseRoot, RemoveFails, Goto
    <3> QED
      BY <2>1, <2>3, <3>1
  <2>5. ASSUME Deleted(r) PROVE i <= at[r]
    <3>1. CASE at[r] = Len(paths[r])
      BY <2>2, <3>1
    <3>2. CASE at[r] # Len(paths[r])
      <4>1. at'[r] = at[r] + 1 /\ pc'[r] = pc[r]
        BY <1>1, <2>5, <3>2 DEF Deleted
      <4>2. i < at[r] + 1
        BY <2>1, <4>1 DEF Ended
      <4> QED
        BY <2>2, <4>2
    <3> QED
      BY <3>1, <3>2
  <2>6. CASE NothingThere(r)
    <3>1. i <= at[r] /\ fs' = fs /\ fs[Path(r)] = "none"
      BY <2>5, <2>6 DEF NothingThere
    <3>2. i = at[r] \/ i < at[r]
      BY <2>2, <3>1
    <3> QED
      BY <2>1, <2>2, <2>3, <3>1, <3>2
  <2>7. CASE RemoveLeaf(r)
    <3>1. PICK p \in Paths : /\ Put(r, p, "none")
                             /\ IF p = Path(r) THEN Deleted(r) ELSE UNCHANGED <<pc, at>>
      BY <2>7 DEF RemoveLeaf, Under
    <3>2. fs' = [fs EXCEPT ![p] = "none"]
      BY <3>1, PutFacts, Names
    <3>3. CASE i < at[r]
      BY <1>1, <2>1, <2>2, <2>3, <3>2, <3>3
    <3>4. CASE ~(i < at[r])
      <4>1. p = Path(r) /\ i <= at[r]
        BY <2>1, <2>5, <3>1, <3>4 DEF Ended
      <4>2. i = at[r]
        BY <2>2, <3>4, <4>1
      <4> QED
        BY <1>1, <2>1, <2>2, <3>2, <4>1, <4>2
    <3> QED
      BY <3>3, <3>4
  <2> QED
    BY <2>1, <2>4, <2>6, <2>7
<1> QED
  BY <1>3, <1>4, <1>5, EveryStep

(* Of the paths of a delete, all are gone when it was answered with        *)
(* success, and all before the one it stopped at when it was not, unless   *)
(* somebody brought one back (server.go:164-169).                          *)
THEOREM DeleteGoneHolds == Spec => []DeleteGone
<1>1. Init => Gone
  BY DEF Init, Gone
<1>2. Shaped /\ Gone /\ [Next]_vars => Gone'
  BY GoneStep
<1>3. Shaped /\ Tree /\ Gone => DeleteGone
  <2> SUFFICES ASSUME Shaped, Tree, Gone, NEW r \in Requests \ touched, op[r] = "delete",
                      NEW i \in DOMAIN paths[r], pc[r] = "ok" \/ i < at[r],
                      NEW p \in Under(paths[r][i])
               PROVE  fs[p] = "none"
    BY DEF DeleteGone
  <2>1. paths[r] \in Seq(Paths) /\ i \in 1..Len(paths[r])
    BY DEF Shaped, TypeOK
  <2>2. fs[paths[r][i]] = "none" /\ paths[r][i] \in Paths /\ p \in Paths
    BY <2>1, ElementOfSeq DEF Gone, Under
  <2>3. p = paths[r][i] \/ Below(p, paths[r][i])
    BY <2>2, RootOnTop
  <2> QED
    BY <2>2, <2>3 DEF Tree
<1> QED
  BY ShapedHolds, TreeHolds, <1>1, <1>2, <1>3, PTL DEF Spec

-----------------------------------------------------------------------------
(* Who left a file half *)

Writing(w, p) == op[w] = "write" /\ Path(w) = p

Half ==
  \A p \in Paths \ hurt :
    /\ fs[p] = "empty" => \E w \in linked : Writing(w, p) /\ pc[w] = "write"
    /\ fs[p] = "part" => \E w \in touched : Writing(w, p)

(* A writer's path stays.                                                  *)
LEMMA WriterKept ==
  ASSUME Shaped, [Next]_vars, NEW w \in Requests, NEW p, Writing(w, p)
  PROVE  Writing(w, p)'
<1>1. pc[w] # "idle"
  BY DEF Shaped, Placed, Writing
<1>2. CASE Bystander(w)
  BY <1>1, <1>2, BystanderFacts DEF Bystander, Writing
<1>3. CASE Arriving(w)
  BY <1>1, <1>3, ArriveFacts
<1>4. CASE Looking(w) \/ Refusing(w) \/ Changing(w)
  BY <1>4, OwnFacts DEF Writing
<1> QED
  BY <1>2, <1>3, <1>4, EveryStep

(* While a file is empty the writer who emptied it is about to write it.   *)
LEMMA EmptyKept ==
  ASSUME Shaped, [Next]_vars, NEW w \in linked, NEW p \in Paths \ hurt',
         Writing(w, p), pc[w] = "write", fs'[p] = "empty"
  PROVE  w \in linked' /\ pc'[w] = "write"
<1>1. w \in Requests /\ Path(w) = p /\ op[w] = "write" /\ "empty" \in Contents
  BY Names DEF Shaped, TypeOK, Writing
<1>2. CASE Bystander(w)
  BY <1>1, <1>2 DEF Bystander
<1>3. CASE Arriving(w)
  BY <1>1, <1>3, ArriveFacts
<1>4. CASE Looking(w) \/ Refusing(w) \/ Changing(w)
  <2>1. Write(w) \/ WriteFails(w)
    BY <1>1, <1>4, OwnFacts DEF MakeParents, Open, TooLarge
  <2>2. CASE Write(w)
    <3>1. PICK c \in Over(w) : Put(w, Path(w), c)
      BY <2>2 DEF Write
    <3>2. c \in Nodes /\ c # "empty"
      BY <1>1, <3>1, OverFacts, Names
    <3>3. Put(w, p, c)
      BY <1>1, <3>1
    <3>4. fs' = [fs EXCEPT ![p] = c]
      BY <1>1, <3>2, <3>3, PutFacts
    <3>5. fs \in [Paths -> Nodes]
      BY DEF Shaped, TypeOK
    <3> QED
      BY <3>2, <3>4, <3>5
  <2>3. CASE WriteFails(w)
    BY <1>1, <2>3 DEF WriteFails
  <2> QED
    BY <2>1, <2>2, <2>3
<1> QED
  BY <1>1, <1>2, <1>3, <1>4, EveryStep

(* Files are emptied by Open, and written in part, other than by a failed  *)
(* write, by one who was crossed.                                          *)
LEMMA HalfMade ==
  ASSUME Shaped, Saved, [Next]_vars, NEW p \in Paths \ hurt', fs'[p] # fs[p]
  PROVE  /\ fs'[p] = "empty" => \E w \in linked' : (Writing(w, p) /\ pc[w] = "write")'
         /\ fs'[p] = "part" => \E w \in touched : Writing(w, p)
<1>1. fs \in [Paths -> Nodes] /\ pc \in [Requests -> Steps] /\ linked \subseteq Requests
  BY DEF Shaped, TypeOK, Steps
<1>2. CASE UNCHANGED vars
  BY <1>2 DEF vars
<1>3. CASE Dies
  BY <1>3, DiesFacts
<1>4. CASE Game
  <2>1. PICK q \in Paths, x \in {"none", "dir", "game", "large"} : fs' = [fs EXCEPT ![q] = x]
    BY <1>4, GameFacts
  <2> QED
    BY <1>1, <2>1
<1>5. ASSUME NEW r \in Requests, Arriving(r) PROVE FALSE
  BY <1>5, ArriveFacts
<1>6. ASSUME NEW r \in Requests, Looking(r) \/ Refusing(r) \/ Changing(r)
      PROVE  /\ fs'[p] = "empty" => \E w \in linked' : (Writing(w, p) /\ pc[w] = "write")'
             /\ fs'[p] = "part" => \E w \in touched : Writing(w, p)
  <2>1. /\ MakeRoot(r) \/ MakeParents(r) \/ Open(r) \/ Write(r) \/ WriteFails(r) \/ RemoveLeaf(r)
        /\ pc[r] # "idle"
    BY <1>6 DEF Changing, Looking, Refusing, ReadDir, Stat, ReadFile, NothingThere, TooLarge,
       RefuseRoot, RemoveFails, MakeRoot, MakeParents, Open, Write, WriteFails, RemoveLeaf, Removing
  <2>2. Path(r) \in Paths /\ Placed(r)
    BY <2>1, PathTypes DEF Shaped
  <2>3. ASSUME NEW q \in Paths, NEW x \in Nodes, Put(r, q, x) PROVE fs' = [fs EXCEPT ![q] = x]
    BY <2>3, PutFacts
  <2>4. CASE MakeRoot(r)
    <3>1. Put(r, Root, "dir")
      BY <2>4 DEF MakeRoot
    <3>2. fs' = [fs EXCEPT ![Root] = "dir"]
      BY <2>3, <3>1, PathFacts, Names
    <3> QED
      BY <1>1, <3>2
  <2>5. CASE MakeParents(r)
    <3>1. fs' = [q \in Paths |-> IF q \in Ancestors(Path(r)) THEN "dir" ELSE fs[q]]
      BY <2>5 DEF MakeParents, Become
    <3> QED
      BY <3>1
  <2>6. CASE RemoveLeaf(r)
    <3>1. PICK q \in Paths : Put(r, q, "none")
      BY <2>6 DEF RemoveLeaf, Under
    <3>2. fs' = [fs EXCEPT ![q] = "none"]
      BY <2>3, <3>1, Names
    <3> QED
      BY <1>1, <3>2
  <2>7. CASE Open(r)
    <3>1. PICK new : new = [fs EXCEPT ![Path(r)] = "empty"]
      OBVIOUS
    <3>2. /\ fs' = new /\ linked' = {w \in linked \cup {r} : new[Path(w)] \in Contents}
          /\ pc' = [pc EXCEPT ![r] = "write"]
      BY <2>7, <3>1 DEF Open, Become, Goto
    <3>3. new[Path(r)] = "empty" /\ "empty" \in Contents
      BY <1>1, <2>2, <3>1, Names
    <3>4. p = Path(r)
      BY <1>1, <3>1, <3>2
    <3>5. r \in linked' /\ pc'[r] = "write" /\ fs'[p] = "empty"
      BY <1>1, <3>2, <3>3, <3>4
    <3>6. Writing(r, p)'
      BY <2>2, <2>7, <3>4 DEF Open, Placed, Writing, Path
    <3> QED
      BY <3>5, <3>6
  <2>8. CASE Write(r)
    <3>1. r \in linked
      BY <2>8 DEF Write
    <3>2. PICK c \in Over(r) : Put(r, Path(r), c)
      BY <2>8, <3>1 DEF Write
    <3>3. c \in Nodes /\ c # "empty" /\ (fs[Path(r)] = "empty" => c = r) /\ r # "part"
      BY <3>2, OverFacts, Names
    <3>4. fs' = [fs EXCEPT ![Path(r)] = c]
      BY <2>2, <2>3, <3>2, <3>3
    <3>5. p = Path(r) /\ fs'[p] = c
      BY <1>1, <3>4
    <3>6. c = "part" => r \in touched
      BY <2>8, <3>3 DEF Write, Saved
    <3>7. Writing(r, p)
      BY <2>2, <2>8, <3>5 DEF Write, Placed, Writing
    <3> QED
      BY <3>3, <3>5, <3>6, <3>7
  <2>9. CASE WriteFails(r)
    <3>1. Put(r, Path(r), "part") /\ Path(r) \in hurt'
      BY <2>9 DEF WriteFails
    <3>2. fs' = [fs EXCEPT ![Path(r)] = "part"]
      BY <2>2, <2>3, <3>1, Names
    <3> QED
      BY <1>1, <3>1, <3>2
  <2> QED
    BY <2>1, <2>4, <2>5, <2>6, <2>7, <2>8, <2>9
<1> QED
  BY <1>2, <1>3, <1>4, <1>5, <1>6, NextSteps

LEMMA HalfStep ==
  ASSUME Shaped, Saved, Half, [Next]_vars
  PROVE  Half'
<1> SUFFICES ASSUME NEW p \in Paths \ hurt'
             PROVE  /\ fs'[p] = "empty" => \E w \in linked' : (Writing(w, p) /\ pc[w] = "write")'
                    /\ fs'[p] = "part" => \E w \in touched' : Writing(w, p)'
  BY DEF Half
<1>1. /\ hurt \subseteq hurt' /\ touched \subseteq touched'
      /\ touched \subseteq Requests /\ linked \subseteq Requests
  BY EveryStep DEF Shaped, TypeOK
<1>2. CASE fs'[p] = "empty"
  <2>1. CASE fs[p] = fs'[p]
    <3>1. PICK w \in linked : Writing(w, p) /\ pc[w] = "write"
      BY <1>1, <1>2, <2>1 DEF Half
    <3>2. w \in linked' /\ pc'[w] = "write" /\ Writing(w, p)'
      BY <1>1, <1>2, <3>1, EmptyKept, WriterKept
    <3> QED
      BY <1>2, <3>2
  <2>2. CASE fs[p] # fs'[p]
    BY <1>2, <2>2, HalfMade
  <2> QED
    BY <2>1, <2>2
<1>3. CASE fs'[p] = "part"
  <2>1. PICK w \in touched : Writing(w, p)
    <3>1. CASE fs[p] = fs'[p]
      BY <1>1, <1>3, <3>1 DEF Half
    <3>2. CASE fs[p] # fs'[p]
      BY <1>3, <3>2, HalfMade
    <3> QED
      BY <3>1, <3>2
  <2>2. Writing(w, p)'
    BY <1>1, <2>1, WriterKept
  <2> QED
    BY <1>1, <1>3, <2>1, <2>2
<1> QED
  BY <1>2, <1>3

(* A file is empty only while a write of it is between truncation and      *)
(* writing, or for ever where one failed or died; its contents are cut or  *)
(* of two only after that or after writers met (files.go:133).             *)
THEOREM HalfExplainedHolds == Spec => []HalfExplained
<1>1. Init => Half
  BY DEF Init, Half
<1>2. Shaped /\ Saved /\ Half /\ [Next]_vars => Half'
  BY HalfStep
<1>3. Shaped /\ Half => HalfExplained
  <2> SUFFICES ASSUME Shaped, Half, NEW p \in Paths \ hurt
               PROVE  LET writers == {r \in Requests : op[r] = "write" /\ Path(r) = p}
                      IN /\ fs[p] = "empty" => \E r \in writers \cap linked : pc[r] = "write"
                         /\ fs[p] = "part" => \E r \in writers : r \in touched
    BY DEF HalfExplained
  <2>1. linked \subseteq Requests /\ touched \subseteq Requests
    BY DEF Shaped, TypeOK
  <2> QED
    BY <2>1 DEF Half, Writing
<1> QED
  BY ShapedHolds, SavedHolds, <1>1, <1>2, <1>3, PTL DEF Spec
=============================================================================
