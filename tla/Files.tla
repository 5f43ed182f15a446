-------------------------------- MODULE Files --------------------------------
(***************************************************************************)
(* The file manager of one server: list, read, write and delete requests,  *)
(* which share the data directory with each other and with the game server *)
(* and lock nothing.                                                       *)
(*                                                                         *)
(* A path is a sequence of names that starts with Root.  The directory     *)
(* maps each path to what is there: nothing, a directory, or a file, known *)
(* by whose contents it holds.                                             *)
(***************************************************************************)
EXTENDS Naturals, Sequences, SequencesExt, FiniteSets

CONSTANTS
  Requests,   \* list, read, write and delete requests
  Paths,      \* the paths of interest: the root and some below it
  Rels,       \* the relative paths that requests name, with their ".."
  MaxChanges  \* bound: changes the game server makes

Root == <<"root">>

(* Nothing of the kinds of a node is a request's contents.  "large" is     *)
(* over maxReadBytes; "part" is cut short, or of two writers at once.      *)
Own == {"empty", "part", "game", "large"}
Contents == Own \cup Requests
Nodes == {"none", "dir"} \cup Contents

(* Manager.resolve: filepath.Clean("/" + rel), then joined to the root.    *)
Step(path, name) ==
  IF name # ".." THEN Append(path, name)
  ELSE IF path = <<>> THEN path ELSE Front(path)

Resolve(rel) == Root \o FoldLeft(Step, <<>>, rel)

ASSUME FilesAssumption ==
  /\ Requests \cap ({"none", "dir"} \cup Own) = {}
  /\ Root \in Paths /\ Paths \subseteq Seq(STRING)
  /\ \A p \in Paths : IsPrefix(Root, p) /\ \A n \in 1..Len(p) : SubSeq(p, 1, n) \in Paths
  /\ \A rel \in Rels : Resolve(rel) \in Paths
  /\ MaxChanges \in Nat

VARIABLES
  fs,       \* the data directory
  op,       \* what each request asks
  pc,       \* its next step, or how it ended
  paths,    \* the paths it names, resolved
  at,       \* the one it has got to
  got,      \* the contents it read
  linked,   \* the writers whose open file is the one at their path
  changes,
  touched,  \* history: requests one of whose paths others changed since it came
  hurt      \* history: paths a write failed on, or died on

request == <<op, pc, paths, at, got>>
vars == <<fs, request, linked, changes, touched, hurt>>

Ended == {"ok", "failed", "killed"}

TypeOK ==
  /\ fs \in [Paths -> Nodes]
  /\ op \in [Requests -> {"none", "list", "read", "write", "delete"}]
  /\ pc \in [Requests -> Ended \cup {"idle", "makeRoot", "readDir", "stat", "readFile",
                                     "makeParents", "open", "write", "remove"}]
  /\ paths \in [Requests -> Seq(Paths)]
  /\ at \in [Requests -> Nat]
  /\ got \in [Requests -> {"none"} \cup Contents]
  /\ linked \subseteq Requests
  /\ changes \in 0..MaxChanges
  /\ touched \subseteq Requests
  /\ hurt \subseteq Paths

Parent(p) == Front(p)
Ancestors(p) == {q \in Paths : IsStrictPrefix(q, p)}
Under(p) == {q \in Paths : IsPrefix(p, q)}
Children(p) == {q \in Paths : q # Root /\ Parent(q) = p}
IsFile(p) == fs[p] \in Contents

(* A node lies in a directory; install or a first listing makes the root.  *)
Init ==
  /\ fs \in [Paths -> {"none", "dir", "game", "large"}]
  /\ fs[Root] \in {"none", "dir"}
  /\ \A p \in Paths : fs[p] # "none" => \A q \in Ancestors(p) : fs[q] = "dir"
  /\ op = [r \in Requests |-> "none"]
  /\ pc = [r \in Requests |-> "idle"]
  /\ paths = [r \in Requests |-> <<>>]
  /\ at = [r \in Requests |-> 1]
  /\ got = [r \in Requests |-> "none"]
  /\ linked = {} /\ changes = 0 /\ touched = {} /\ hurt = {}

Goto(r, step) == pc' = [pc EXCEPT ![r] = step]
Path(r) == paths[r][at[r]]

(* The directory becomes new by a step of the requests by (or of nobody),  *)
(* opened among which have just opened their file.                         *)
Become(new, by, opened) ==
  /\ fs' = new
  /\ touched' = touched \cup {d \in Requests \ by :
                               \E p \in ToSet(paths[d]) : new[p] # fs[p]}
  /\ linked' = {w \in linked \cup opened : new[Path(w)] \in Contents}

Put(r, p, node) == Become([fs EXCEPT ![p] = node], {r}, {})

-----------------------------------------------------------------------------
(* The arrival of a request *)

(* The first step of each operation.                                       *)
First(kind) ==
  CASE kind = "list" -> "makeRoot" [] kind = "read" -> "stat"
    [] kind = "write" -> "makeParents" [] kind = "delete" -> "remove"

Arrive(r, kind, rels) ==
  /\ pc[r] = "idle"
  /\ op' = [op EXCEPT ![r] = kind]
  /\ paths' = [paths EXCEPT ![r] = [i \in DOMAIN rels |-> Resolve(rels[i])]]
  /\ Goto(r, First(kind))
  /\ UNCHANGED <<fs, at, got, linked, changes, touched, hurt>>

(* Mutant: the length is looked at when the file is open.                  *)
TooLargeLate(r) ==
  /\ pc[r] = "write"
  /\ Goto(r, "failed")
  /\ UNCHANGED <<fs, op, paths, at, got, linked, changes, touched, hurt>>

(* Contents over maxReadBytes are refused before anything is done.         *)
TooLarge(r) ==
  /\ pc[r] = "makeParents"
  /\ Goto(r, "failed")
  /\ UNCHANGED <<fs, op, paths, at, got, linked, changes, touched, hurt>>

-----------------------------------------------------------------------------
(* List *)

(* os.MkdirAll of the root, which somebody may have made a file.           *)
MakeRoot(r) ==
  /\ pc[r] = "makeRoot"
  /\ IF IsFile(Root) THEN Goto(r, "failed") /\ UNCHANGED <<fs, touched, linked>>
     ELSE Put(r, Root, "dir") /\ Goto(r, "readDir")
  /\ UNCHANGED <<op, paths, at, got, changes, hurt>>

ReadDir(r) ==
  /\ pc[r] = "readDir"
  /\ Goto(r, IF fs[Path(r)] = "dir" THEN "ok" ELSE "failed")
  /\ UNCHANGED <<fs, op, paths, at, got, linked, changes, touched, hurt>>

-----------------------------------------------------------------------------
(* Read *)

(* Mutant: no limit on the size.                                           *)
StatUnlimited(r) ==
  /\ pc[r] = "stat"
  /\ Goto(r, IF IsFile(Path(r)) THEN "readFile" ELSE "failed")
  /\ UNCHANGED <<fs, op, paths, at, got, linked, changes, touched, hurt>>

(* os.Stat: missing, a directory and a file too large are errors.          *)
Stat(r) ==
  /\ pc[r] = "stat"
  /\ Goto(r, IF IsFile(Path(r)) /\ fs[Path(r)] # "large" THEN "readFile" ELSE "failed")
  /\ UNCHANGED <<fs, op, paths, at, got, linked, changes, touched, hurt>>

(* os.ReadFile of what is there by now, whatever its size.                 *)
ReadFile(r) ==
  /\ pc[r] = "readFile"
  /\ IF IsFile(Path(r))
     THEN Goto(r, "ok") /\ got' = [got EXCEPT ![r] = fs[Path(r)]]
     ELSE Goto(r, "failed") /\ UNCHANGED got
  /\ UNCHANGED <<fs, op, paths, at, linked, changes, touched, hurt>>

-----------------------------------------------------------------------------
(* Write *)

(* os.MkdirAll of the directory it is in.                                  *)
MakeParents(r) ==
  /\ pc[r] = "makeParents"
  /\ IF \E p \in Ancestors(Path(r)) : IsFile(p)
     THEN Goto(r, "failed") /\ UNCHANGED <<fs, touched, linked>>
     ELSE /\ Become([p \in Paths |-> IF p \in Ancestors(Path(r)) THEN "dir" ELSE fs[p]],
                    {r}, {})
          /\ Goto(r, "open")
  /\ UNCHANGED <<op, paths, at, got, changes, hurt>>

(* A file can be created at p, or is there: the root's own directory is    *)
(* always there, so a missing root can become a file.                      *)
Openable(p) == fs[p] # "dir" /\ (p = Root \/ fs[Parent(p)] = "dir")

(* Mutant: what was there is not truncated.                                *)
OpenKeeping(r) ==
  /\ pc[r] = "open"
  /\ IF Openable(Path(r))
     THEN /\ Become([fs EXCEPT ![Path(r)] = IF @ = "none" THEN "empty" ELSE @], {r}, {r})
          /\ Goto(r, "write")
     ELSE Goto(r, "failed") /\ UNCHANGED <<fs, touched, linked>>
  /\ UNCHANGED <<op, paths, at, got, changes, hurt>>

(* os.WriteFile opens with O_CREATE and O_TRUNC ...                        *)
Open(r) ==
  /\ pc[r] = "open"
  /\ IF Openable(Path(r))
     THEN Become([fs EXCEPT ![Path(r)] = "empty"], {r}, {r}) /\ Goto(r, "write")
     ELSE Goto(r, "failed") /\ UNCHANGED <<fs, touched, linked>>
  /\ UNCHANGED <<op, paths, at, got, changes, hurt>>

(* What a file can hold when r has written into it from its start.         *)
Over(r) ==
  CASE fs[Path(r)] = "empty" -> {r}
    [] fs[Path(r)] = "large" -> {"large"}
    [] OTHER -> {r, "part"}

(* ... and writes in another step, into the file it opened: if that has    *)
(* been removed, or replaced, nobody will see it.                          *)
Write(r) ==
  /\ pc[r] = "write"
  /\ IF r \in linked
     THEN \E c \in Over(r) : Put(r, Path(r), c)
     ELSE UNCHANGED <<fs, touched, linked>>
  /\ Goto(r, "ok")
  /\ UNCHANGED <<op, paths, at, got, changes, hurt>>

(* The disk is full: some of the contents, or nothing, are written.        *)
WriteFails(r) ==
  /\ pc[r] = "write"
  /\ IF r \in linked
     THEN /\ \/ fs[Path(r)] # "large" /\ Put(r, Path(r), "part")
             \/ UNCHANGED <<fs, touched, linked>>
          /\ hurt' = hurt \cup {Path(r)}
     ELSE UNCHANGED <<fs, touched, linked, hurt>>
  /\ Goto(r, "failed")
  /\ UNCHANGED <<op, paths, at, got, changes>>

-----------------------------------------------------------------------------
(* Delete *)

(* The handler goes on to the next path, or is done.                       *)
Deleted(r) ==
  IF at[r] = Len(paths[r]) THEN Goto(r, "ok") /\ UNCHANGED at
  ELSE at' = [at EXCEPT ![r] = @ + 1] /\ UNCHANGED pc

(* Mutant: the root is not told from the other paths.                      *)
RemovingRoot(r) == pc[r] = "remove"

Removing(r) == pc[r] = "remove" /\ Path(r) # Root

(* The server's root is refused, and ends the loop.                        *)
RefuseRoot(r) ==
  /\ pc[r] = "remove" /\ ~Removing(r)
  /\ Goto(r, "failed")
  /\ UNCHANGED <<fs, op, paths, at, got, linked, changes, touched, hurt>>

(* os.RemoveAll: a path that is not there is no error.                     *)
NothingThere(r) ==
  /\ Removing(r)
  /\ fs[Path(r)] = "none" /\ \A p \in Ancestors(Path(r)) : ~IsFile(p)
  /\ Deleted(r)
  /\ UNCHANGED <<fs, op, paths, got, linked, changes, touched, hurt>>

(* os.RemoveAll takes the tree away from its leaves, one at a time.        *)
RemoveLeaf(r) ==
  /\ Removing(r)
  /\ \E p \in Under(Path(r)) :
       /\ fs[p] # "none" /\ \A q \in Children(p) : fs[q] = "none"
       /\ Put(r, p, "none")
       /\ IF p = Path(r) THEN Deleted(r) ELSE UNCHANGED <<pc, at>>
  /\ UNCHANGED <<op, paths, got, changes, hurt>>

(* Mutant: its error does not end the loop.                                *)
RemoveFailsOn(r) ==
  /\ Removing(r)
  /\ fs[Path(r)] # "none" \/ \E p \in Ancestors(Path(r)) : IsFile(p)
  /\ Deleted(r)
  /\ UNCHANGED <<fs, op, paths, got, linked, changes, touched, hurt>>

(* What is left cannot be removed, or lies under a file: an error, which   *)
(* ends the loop with the paths before gone and those after still there.   *)
RemoveFails(r) ==
  /\ Removing(r)
  /\ fs[Path(r)] # "none" \/ \E p \in Ancestors(Path(r)) : IsFile(p)
  /\ Goto(r, "failed")
  /\ UNCHANGED <<fs, op, paths, at, got, linked, changes, touched, hurt>>

-----------------------------------------------------------------------------
(* The others *)

(* The game server writes a file, makes a directory or removes something.  *)
Game ==
  /\ changes < MaxChanges
  /\ changes' = changes + 1
  /\ \E p \in Paths \ {Root} :
       \/ \E node \in {"game", "large"} :
            fs[Parent(p)] = "dir" /\ fs[p] # "dir" /\ Become([fs EXCEPT ![p] = node], {}, {})
       \/ /\ fs[Parent(p)] = "dir" /\ fs[p] = "none"
          /\ Become([fs EXCEPT ![p] = "dir"], {}, {})
       \/ /\ fs[p] # "none" /\ \A q \in Children(p) : fs[q] = "none"
          /\ Become([fs EXCEPT ![p] = "none"], {}, {})
  /\ UNCHANGED <<request, hurt>>

Active == {r \in Requests : pc[r] \notin Ended \cup {"idle"}}

(* The daemon dies with every request it works on.                         *)
Dies ==
  /\ Active # {}
  /\ pc' = [r \in Requests |-> IF r \in Active THEN "killed" ELSE pc[r]]
  /\ hurt' = hurt \cup {Path(r) : r \in {w \in linked : pc[w] = "write"}}
  /\ UNCHANGED <<fs, op, paths, at, got, linked, changes, touched>>

Arrivals(r) ==
  \/ \E kind \in {"list", "read", "write"}, rel \in Rels : Arrive(r, kind, <<rel>>)
  \/ \E rel \in Rels : Arrive(r, "delete", <<rel>>)
  \/ \E rel1, rel2 \in Rels : Arrive(r, "delete", <<rel1, rel2>>)

Next ==
  \/ \E r \in Requests :
       \/ Arrivals(r) \/ TooLarge(r)
       \/ MakeRoot(r) \/ ReadDir(r) \/ Stat(r) \/ ReadFile(r)
       \/ MakeParents(r) \/ Open(r) \/ Write(r) \/ WriteFails(r)
       \/ RefuseRoot(r) \/ NothingThere(r) \/ RemoveLeaf(r) \/ RemoveFails(r)
  \/ Game \/ Dies

Spec == Init /\ [][Next]_vars

-----------------------------------------------------------------------------
(* Safety *)

(* A write that was answered with success, of a file nobody else changed   *)
(* since it came, is there in full, although Write makes directories,      *)
(* truncates and writes in separate steps (files.go:120-134).              *)
SavedWhole ==
  \A r \in Requests \ touched :
    op[r] = "write" /\ pc[r] = "ok" => fs[Path(r)] = r

(* A file is empty only while a write of it is between truncation and      *)
(* writing, or for ever where one failed or died; its contents are cut or  *)
(* of two only after that or after writers met (files.go:133).             *)
HalfExplained ==
  \A p \in Paths \ hurt :
    LET writers == {r \in Requests : op[r] = "write" /\ Path(r) = p}
    IN /\ fs[p] = "empty" => \E r \in writers \cap linked : pc[r] = "write"
       /\ fs[p] = "part" => \E r \in writers : r \in touched

(* A read that was answered gives what the file holds, and not more than   *)
(* the limit its size was held against, unless others changed it meanwhile *)
(* or since (files.go:104-118).                                            *)
ReadTrue ==
  \A r \in Requests \ touched :
    op[r] = "read" /\ pc[r] = "ok" => got[r] = fs[Path(r)] /\ got[r] # "large"

(* Of the paths of a delete, all are gone when it was answered with        *)
(* success, and all before the one it stopped at when it was not, unless   *)
(* somebody brought one back (server.go:164-169).                          *)
DeleteGone ==
  \A r \in Requests \ touched : op[r] = "delete" =>
    \A i \in DOMAIN paths[r] :
      pc[r] = "ok" \/ i < at[r] => \A p \in Under(paths[r][i]) : fs[p] = "none"

(* No request, whichever way it names it, and no crash takes the server's  *)
(* directory away or makes it a file (files.go:81-95, 120-134).            *)
RootKept ==
  [][fs[Root] = "dir" => fs'[Root] = "dir"]_fs
=============================================================================
