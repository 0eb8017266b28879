---------------------------- MODULE ResultArchive ---------------------------
(* Packing OUTPUT_DIR (io/artifacts.rs): what of the tree is selected and
   what the bundle says it left out, while whatever the job left running
   still changes the tree.  A walk of the tree is one step; the files are
   read one after the other.  A write always changes a file's metadata. *)
EXTENDS Integers, FiniteSets

CONSTANTS LastPath,     \* the paths there may be, numbered in the order of a walk
          Parent,       \* the directory each is in; 0 is OUTPUT_DIR itself
          Listed,       \* bound: the files a receipt can list, in the cost of one file each
          FileLimits,   \* MAX_FILES: what one directory lists, and the entries of a walk
          MostRows,     \* bound: the rows of a list of skipped paths
          Policies,     \* the sets of required files
          Trees,        \* the trees packing may find: the kind of each path
          MaxChanges    \* bound: changes made to the tree while it is packed

Paths == 1..LastPath

\* A directory comes before its entries; Policy.validate: no more required files than a directory lists.
ASSUME ArchiveAssumption ==
    /\ LastPath \in Nat /\ Listed \in Nat /\ MostRows \in Nat /\ MaxChanges \in Nat
    /\ Parent \in [Paths -> Nat] /\ \A p \in Paths : Parent[p] < p
    /\ FileLimits \subseteq Nat
    /\ \A policy \in Policies : policy \subseteq Paths /\ \A limit \in FileLimits : Cardinality(policy) <= limit
    /\ Trees \subseteq [Paths -> {"none", "file", "directory", "link"}]

VARIABLES tree,         \* the kind of each path, and a version that every write changes
          required, most,
          packing,      \* where it is, the files still to read, those read and the version of each
          selected,     \* what the walk found, skipped and could not list
          moment        \* the tree when it was walked for the second time
archiveVars == <<tree, required, most, packing, selected, moment>>

NoSelection == [found |-> {}, entered |-> {0}, rows |-> {}, unlisted |-> 0, entries |-> 0, listed |-> 0]

ArchiveInit ==
    /\ \E kind \in Trees : tree = [p \in Paths |-> [kind |-> kind[p], version |-> 0]]
    /\ required \in Policies /\ most \in FileLimits
    /\ packing = [at |-> "select", left |-> {}, read |-> << >>, changes |-> 0]
    /\ selected = NoSelection /\ moment = << >>

IsThere(p) == tree[p].kind # "none"
EntriesOf(d) == {q \in Paths : Parent[q] = d /\ IsThere(q)}

------------
\* Skipped.add: when the rows ran out it is only counted.
AddRow(s, p) == IF Cardinality(s.rows) >= MostRows THEN [s EXCEPT !.unlisted = @ + 1]
              ELSE [s EXCEPT !.rows = @ \cup {p}]

\* first_entry_names: the first names in order, and how many more there are.
Cut(s, directory, entries) ==
    IF Cardinality(entries) <= most THEN s
    ELSE LET row == AddRow(s, directory) IN [row EXCEPT !.unlisted = @ + (Cardinality(entries) - most)]
IsListed(p) == Cardinality({q \in EntriesOf(Parent[p]) : q < p}) < most

\* Mutant: what is over the limit is passed over in silence.
LeaveSilently(s, p) == s

OverLimit(s, p) == IF p \in required THEN s ELSE AddRow(s, p)

\* Mutant: what is required gets no room of its own.
AllRoom == most

Room == most - Cardinality(required)

\* visit, of one entry: nothing it meets fails the walk.
Visit(s, p) ==
    IF Parent[p] \notin s.entered \/ ~IsThere(p) \/ ~IsListed(p) THEN s
    ELSE LET t == [s EXCEPT !.entries = @ + 1]
             kind == tree[p].kind
         IN  IF t.entries > Room \/ t.listed + 1 > Listed THEN OverLimit(t, p)
             ELSE CASE kind = "directory" -> Cut([t EXCEPT !.entered = @ \cup {p}], p, EntriesOf(p))
                    [] kind = "file" -> [t EXCEPT !.found = @ \cup {p},
                                                  !.listed = @ + IF p \in required THEN 0 ELSE 1]
                    [] OTHER -> AddRow(t, p)

CanOpen(p) == tree[p].kind = "file" /\ (Parent[p] # 0 => tree[Parent[p]].kind = "directory")

\* A required file past the limit still leaves.
WithRequired(s) == [s EXCEPT !.found = @ \cup {p \in required : CanOpen(p)}]

\* The listing of OUTPUT_DIR, with room kept for what is required.
Listing == [Cut(NoSelection, 0, EntriesOf(0)) EXCEPT !.listed = Cardinality(required)]

WalkTo[p \in 0..LastPath] == IF p = 0 THEN Listing ELSE Visit(WalkTo[p - 1], p)

Walked == WithRequired(WalkTo[LastPath])

\* The files are read in the order of the tree.
NextFile == CHOOSE p \in packing.left : \A q \in packing.left : p <= q

------------
\* pack: the selection; a required file that is not there refuses it.
Select ==
    /\ packing.at = "select" /\ selected' = Walked
    /\ packing' = IF required \subseteq Walked.found
                  THEN [packing EXCEPT !.at = "open", !.left = Walked.found]
                  ELSE [packing EXCEPT !.at = "failed"]
    /\ UNCHANGED <<tree, required, most, moment>>

Refuse == packing' = [packing EXCEPT !.at = "failed"]

OpenFile ==
    /\ packing.at = "open" /\ packing.left # {}
    /\ LET p == NextFile IN
         IF CanOpen(p) THEN packing' = [packing EXCEPT !.at = "append",
                                        !.read = [q \in DOMAIN @ \cup {p} |-> IF q = p THEN tree[p].version ELSE @[q]]]
         ELSE Refuse
    /\ UNCHANGED <<tree, required, most, selected, moment>>

\* The metadata of the open file, before and after it was read.
Stable(p) == tree[p].version = packing.read[p]

AppendFile ==
    /\ packing.at = "append"
    /\ LET p == NextFile IN
         IF Stable(p) THEN packing' = [packing EXCEPT !.at = "open", !.left = @ \ {NextFile}] ELSE Refuse
    /\ UNCHANGED <<tree, required, most, selected, moment>>

\* The archive is finished; the tree is walked again and must give the same.
WalkAgain ==
    /\ packing.at = "open" /\ packing.left = {}
    /\ moment' = tree
    /\ IF Walked = selected THEN packing' = [packing EXCEPT !.at = "hash", !.left = selected.found] ELSE Refuse
    /\ UNCHANGED <<tree, required, most, selected>>

\* Mutant: what was read is not read again.
ReadOnce(p) == TRUE

SameAgain(p) == CanOpen(p) /\ tree[p].version = packing.read[p]

HashAgain ==
    /\ packing.at = "hash"
    /\ IF packing.left = {} THEN packing' = [packing EXCEPT !.at = "packed"]
       ELSE IF SameAgain(NextFile) THEN packing' = [packing EXCEPT !.left = @ \ {NextFile}] ELSE Refuse
    /\ UNCHANGED <<tree, required, most, selected, moment>>

\* What the job left running writes, creates or removes a file.
ChangeTree(p) ==
    /\ packing.at \notin {"packed", "failed"} /\ packing.changes < MaxChanges
    /\ tree[p].kind \in {"none", "file"} /\ (Parent[p] # 0 => tree[Parent[p]].kind = "directory")
    /\ \E kind \in {"none", "file"} :
         /\ kind # "none" \/ tree[p].kind # "none"
         /\ tree' = [tree EXCEPT ![p] = [kind |-> kind, version |-> packing.changes + 1]]
    /\ packing' = [packing EXCEPT !.changes = @ + 1]
    /\ UNCHANGED <<required, most, selected, moment>>

ArchiveNext ==
    \/ Select \/ OpenFile \/ AppendFile \/ WalkAgain \/ HashAgain
    \/ \E p \in Paths : ChangeTree(p)

------------
Packed == packing.at = "packed"

(* A bundle is the tree of one moment: every file it holds was there, with
   these bytes, when the tree was walked again, however it changed since. *)
OneMoment ==
    Packed => \A p \in selected.found : moment[p].kind = "file" /\ moment[p].version = packing.read[p]

(* What a bundle leaves out it says: an entry that the walk reached and
   that is neither packed nor named by a row is counted. *)
LeftOutIsSaid ==
    Packed => Cardinality({p \in Paths : /\ moment[p].kind # "none" /\ Parent[p] \in selected.entered
                                         /\ p \notin selected.found \cup selected.rows \cup selected.entered})
                <= selected.unlisted

(* A bundle holds every required file, and never more files than a receipt
   can list: those required have their room whatever the walk met first.
   Only where they alone are too many for a receipt, there is no other. *)
RequiredHasRoom ==
    Packed => /\ required \subseteq selected.found /\ Cardinality(selected.found) <= most
              /\ Cardinality(selected.found) <= Listed \/ selected.found = required
=============================================================================
