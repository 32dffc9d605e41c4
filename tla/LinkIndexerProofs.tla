------------------------ MODULE LinkIndexerProofs ------------------------
(***************************************************************************)
(* Every property of LinkIndexer, for any number of folders and documents, *)
(* any first tree and links, and any bounds.                               *)
(*                                                                         *)
(* The inductive invariant has three layers:                               *)
(*   Typed   what the state is made of, and what the worker and the move   *)
(*           hold at each of their steps;                                  *)
(*   BInv    for every document, whether its backlinks are those of its    *)
(*           text, or what is queued or under way that will make them so;  *)
(*   FInv    for every link, whether it leads to what its author meant, or *)
(*           the rename in the worker's hands that will make it so.        *)
(* Each layer has lemmas on what single steps do, and a Step lemma with    *)
(* one step per action.                                                    *)
(***************************************************************************)
EXTENDS LinkIndexer, FiniteSetTheorems, WellFoundedInduction, TLAPS

-----------------------------------------------------------------------------
(* The inductive invariant, in layers. *)

\* What the worker's step says of its record.
WorkOK ==
  /\ work.pc = "idle" => batch = {}
  /\ work.pc \notin {"idle", "next"} => work.at \in batch
  /\ work.pc \in {"detect", "renames", "rewrite"} => work.at \in Folders
  /\ work.pc \in {"read", "write"} => work.at \in Docs
  /\ work.pc \in {"scan", "write"} => work.todo # {}
  /\ work.renames # {} => work.pc \in {"scan", "renames", "rewrite"} /\ work.at \in Folders
  /\ work.rename # None <=> work.pc = "rewrite"
  /\ work.pc \in {"next", "detect", "read"} => work.entries = {} /\ work.todo = {}
  /\ work.sources # {} => work.pc = "rewrite"
  /\ work.pc # "idle" /\ work.at \in Docs => work.todo \subseteq work.seen

\* What the move's step says of its record.
MoveOK == move.pc # "idle" => move.id \in Docs /\ move.to \in Places

\* A path has one file; a document that is queued is loaded.
Injective == \A u, v \in Docs : place[u] = place[v] /\ place[u] # None => u = v
Queued    == pending \cap Docs \subseteq loaded

Typed == TypeOK /\ WorkOK /\ MoveOK /\ Injective /\ Queued

\* The change of a folder that the pass under way may have overlooked: the
\* folder will be looked at again, for its entry outlives the pass.
Owing(f) == (f \in pending /\ f \notin fresh) \/ (move.pc = "queue" /\ f \in {move.from, move.to[1]})
Looked   == {"scan", "renames", "rewrite", "ack"}
Unlooked(f) == f \in pending /\ ~(work.at = f /\ f \in fresh /\ work.pc \in Looked)

\* Some folder has yet to be looked at.
TreeOwed == move.pc = "queue" \/ \E f \in Folders : Unlooked(f)
Afoot    == \E f \in Folders : Owing(f)
\* A document will be read again.
DocOwed(u) == u \in pending /\ ~(work.at = u /\ u \in fresh /\ work.pc \in {"scan", "write", "ack"})

\* The folders that the pass leaves out are owed.
Seen == work.pc # "idle" => \A f \in FolderDocs \ work.seen : Owing(f)
Ids0 == work.pc = "detect" => work.ids = FilesOf(work.at) \/ Afoot

\* How far the pass over a content document has come.
Recording(u) ==
  /\ work.at = u /\ u \in fresh /\ work.pc \in {"scan", "write"} /\ work.link = link[u]
  /\ work.pc = "scan" => work.entries = UNION {EntriesOf(f) : f \in work.seen \ work.todo}
  /\ work.pc = "write" =>
       /\ work.entries = AllEntries
       /\ \A f \in work.seen \ work.todo, v \in Docs :
            <<v, u>> \in backlinks[f] <=> v = Target(u) /\ v \in FilesOf(f)

\* The renames that the pass over a folder works through are those of the tree.
Renaming ==
  work.pc \in {"scan", "renames", "rewrite"} /\ work.at \in Folders /\ ~TreeOwed =>
    /\ \A r \in work.renames \cup ({work.rename} \ {None}) :
         place[r.id] = <<work.at, r.new>> /\ r.old # r.new
    /\ \A s \in work.sources : work.rename # None /\ <<work.rename.id, s>> \in backlinks[work.at]

Accounts ==
  \A u \in Docs \ missed : ~Stale(u) \/ DocOwed(u) \/ TreeOwed \/ Recording(u)

\* The pass over a content document, while nothing of it is owed again.
Reading ==
  work.pc \in {"scan", "write"} /\ work.at \in Docs /\ work.at \in fresh /\ ~TreeOwed =>
    Recording(work.at)

BInv == Seen /\ Ids0 /\ Renaming /\ Reading /\ Accounts

\* The renames that wait in the cache of a folder, or in the worker's hands.
Due(f)   == IF cache[f] = None THEN {} ELSE RenamesOf(cache[f], Snapshot(f))
Every(f) == Due(f) \cup IF work.at = f THEN work.renames \cup ({work.rename} \ {None}) ELSE {}

All == adrift = Docs

Lone ==
  \/ All
  \/ \A f, g \in Folders : \A r \in Every(f), q \in Every(g) :
       f = g /\ r = q /\ Free(<<f, r.old>>) /\ place[r.id] = <<f, r.new>>

Pictured ==
  \/ All
  \/ /\ work.pc = "scan" /\ work.at \in Folders =>
          /\ work.todo \subseteq FolderDocs
          /\ work.entries = UNION {EntriesOf(f) : f \in FolderDocs \ work.todo}
     /\ work.pc \in {"renames", "rewrite"} =>
          /\ \A d \in Docs : place[d] # None => \E e \in work.entries : e.id = d
          /\ \A e \in work.entries : place[e.id] # None /\ e.at[1] = place[e.id][1]
          /\ \A r \in work.renames \cup ({work.rename} \ {None}) :
               \E e \in work.entries : e.at = <<work.at, r.old>>

Waiting(s, u, f, r) ==
  /\ r.id = u /\ place[u] = <<f, r.new>> /\ r.old # r.new
  /\ link[s] # None /\ Leads(link[s], place[s]) = <<f, r.old>>
  /\ s \notin pending
  /\ \/ /\ r \in Due(f) /\ Unlooked(f) /\ pending \cap Folders = {f} /\ move.pc # "queue"
        /\ <<u, s>> \in backlinks[f]
     \/ work.at = f /\ r \in work.renames /\ <<u, s>> \in backlinks[f]
     \/ work.at = f /\ r = work.rename /\ s \in work.sources

Waits(s, u) == \E f \in Folders : \E r \in Every(f) : Waiting(s, u, f, r)

Tracked(s) == meant[s] # None /\ place[s] # None /\ place[meant[s]] # None

Follows == \A s \in Docs \ adrift : Tracked(s) => Target(s) = meant[s] \/ Waits(s, meant[s])

FInv == Lone /\ Pictured /\ Follows

-----------------------------------------------------------------------------
(* Ids, places and the least of a set. *)

\* What the constants are made of.
LEMMA Basics ==
  /\ Folders \subseteq Nat /\ Docs \subseteq Nat /\ Folders \cap Docs = {} /\ 1 \in Folders
  /\ Ids = Folders \cup Docs
  /\ None \notin Docs /\ None \notin Places /\ None \notin Links /\ None \notin Names
  /\ None \notin Renames /\ Here \notin Folders
  /\ None \notin [Docs -> Names \cup {None}]
BY LinkIndexerAssumption DEF Folders, Docs, Ids

\* A path is a folder and a name.
LEMMA PlaceIs ==
  /\ \A p \in Places : p[1] \in Folders /\ p[2] \in Names /\ p = <<p[1], p[2]>>
  /\ \A f \in Folders, n \in Names : <<f, n>> \in Places
BY DEF Places

\* Sets of numbers have a least one.
Below == {ss \in Nat \X Nat : ss[1] < ss[2]}

\* Any set of naturals, finite or not.
LEMMA LeastOne ==
  ASSUME NEW S \in SUBSET Nat, S # {}
  PROVE  \E x \in S : \A y \in S : x =< y
<1>1. IsWellFoundedOn(Below, Nat)
  <2>1. OpToRel(<, Nat) = Below
    BY DEF OpToRel, Below
  <2>. QED BY <2>1, NatLessThanWellFounded
<1>2. PICK x \in S : \A y \in S : ~ (<<y, x>> \in Below)
  BY <1>1, WFMin, Zenon
<1>3. \A y, z \in Nat : y < z => <<y, z>> \in Below
  BY DEF Below
<1>4. ASSUME NEW y \in S PROVE x =< y
  <2>1. x \in Nat /\ y \in Nat
    OBVIOUS
  <2>2. ~ (y < x)
    BY <1>2, <1>3, <2>1, Zenon
  <2>. QED BY <2>1, <2>2
<1>. QED BY <1>4

\* The scans take the folders from the least one on.
LEMMA MinIs ==
  ASSUME NEW S \in SUBSET Folders, S # {}
  PROVE  Min(S) \in S
<1>1. S \in SUBSET Nat
  BY Basics
<1>2. \E x \in S : \A y \in S : x =< y
  BY <1>1, LeastOne, Zenon
<1>. QED BY <1>2, Zenon DEF Min

\* A finite set of numbers has an element of every rank.
LEMMA EveryRank ==
  ASSUME NEW S \in SUBSET Nat, IsFiniteSet(S)
  PROVE  \A k \in 1..Cardinality(S) : \E e \in S : Rank(S, e) = k
<1>c. Cardinality(S) \in Nat
  BY FS_CardinalityType
<1> DEFINE Bad == {k \in 1..Cardinality(S) : ~ \E e \in S : Rank(S, e) = k}
<1>1. SUFFICES ASSUME Bad # {} PROVE FALSE
  BY Zenon
<1>2. Bad \in SUBSET Nat
  BY <1>c
<1>3. PICK k \in Bad : \A j \in Bad : k =< j
  BY <1>1, <1>2, LeastOne, Zenon
<1>4. k \in Nat /\ 1 =< k /\ k =< Cardinality(S) /\ ~ \E e \in S : Rank(S, e) = k
  BY <1>c
<1>5. \A T \in SUBSET S : IsFiniteSet(T) /\ Cardinality(T) \in Nat
  BY FS_Subset, FS_CardinalityType
<1>6. PICK T \in SUBSET S : /\ Cardinality(T) = k - 1
                            /\ \A x \in T, y \in S \ T : x < y
  <2>1. CASE k = 1
    <3>1. {} \in SUBSET S /\ Cardinality({}) = k - 1
      BY <2>1, FS_EmptySet
    <3>. QED BY <3>1
  <2>2. CASE k # 1
    <3>1. k - 1 \in 1..Cardinality(S) /\ k - 1 \notin Bad
      <4>1. k - 1 \in 1..Cardinality(S) /\ ~ (k =< k - 1)
        BY <1>4, <2>2, <1>c
      <4>. QED BY <4>1, <1>3
    <3>2. PICK e \in S : Rank(S, e) = k - 1
      BY <3>1
    <3>3. Cardinality({x \in S : x <= e}) = k - 1
      BY <3>2 DEF Rank
    <3>4. \A x \in {y \in S : y <= e}, z \in S \ {y \in S : y <= e} : x < z
      OBVIOUS
    <3>. QED BY <3>3, <3>4
  <2>. QED BY <2>1, <2>2
<1>7. S \ T # {}
  <2>1. T # S
    BY <1>4, <1>6, <1>c
  <2>. QED BY <2>1
<1>8. PICK e \in S \ T : \A y \in S \ T : e =< y
  <2>1. S \ T \in SUBSET Nat
    OBVIOUS
  <2>. QED BY <2>1, <1>7, LeastOne, Zenon
<1>9. {x \in S : x <= e} = T \cup {e}
  <2>1. ASSUME NEW x \in S, x <= e PROVE x \in T \cup {e}
    <3>1. x \in Nat /\ e \in Nat
      OBVIOUS
    <3>2. CASE x \notin T
      <4>1. e <= x
        BY <3>2, <1>8
      <4>. QED BY <4>1, <3>1, <2>1
    <3>. QED BY <3>2
  <2>2. ASSUME NEW x \in T PROVE x \in S /\ x <= e
    <3>1. x < e
      BY <1>6, <1>8
    <3>. QED BY <3>1, <2>2
  <2>3. e \in S /\ e <= e
    OBVIOUS
  <2>. QED BY <2>1, <2>2, <2>3
<1>10. Cardinality(T \cup {e}) = k
  <2>1. Cardinality(T \cup {e}) = Cardinality(T) + 1
    BY <1>5, <1>8, FS_AddElement
  <2>. QED BY <2>1, <1>6, <1>4
<1>11. Rank(S, e) = k
  BY <1>9, <1>10 DEF Rank
<1>. QED BY <1>4, <1>8, <1>11

\* The documents a move holds are documents, whatever it takes them for.
LEMMA HeldIs ==
  ASSUME NEW needed \in SUBSET Docs, loaded \subseteq Docs
  PROVE  /\ DOMAIN Held(needed) \subseteq needed
         /\ \A d \in DOMAIN Held(needed) : Held(needed)[d] \in needed \cap loaded
<1> DEFINE here == needed \cap loaded
<1>1. IsFiniteSet(Docs) /\ Docs \subseteq Nat
  <2>1. NumFolders + 1 \in Int /\ NumFolders + NumDocs \in Int
    BY LinkIndexerAssumption
  <2>. QED BY <2>1, FS_Interval, Basics DEF Docs
<1>2. IsFiniteSet(needed) /\ IsFiniteSet(here) /\ here \in SUBSET Nat /\ needed \in SUBSET Nat
  BY <1>1, FS_Subset
<1>3. ASSUME NEW d \in needed, Rank(needed, d) <= Cardinality(here)
      PROVE  \E e \in here : Rank(here, e) = Rank(needed, d)
  <2>1. Rank(needed, d) \in 1..Cardinality(here)
    <3> DEFINE T == {e \in needed : e <= d}
    <3>1. IsFiniteSet(T) /\ d \in T
      BY <1>2, FS_Subset
    <3>2. Cardinality(T) \in Nat /\ Cardinality(T) # 0
      BY <3>1, FS_CardinalityType, FS_EmptySet
    <3>3. Cardinality(here) \in Nat
      BY <1>2, FS_CardinalityType
    <3>4. Rank(needed, d) = Cardinality(T)
      BY DEF Rank
    <3>. QED BY <3>2, <3>3, <3>4, <1>3
  <2>. QED BY <2>1, <1>2, EveryRank
<1>4. ASSUME NEW d \in needed, Rank(needed, d) <= Cardinality(here)
      PROVE  (CHOOSE e \in here : Rank(here, e) = Rank(needed, d)) \in here
  BY <1>3, <1>4
<1>. QED BY <1>4 DEF Held

-----------------------------------------------------------------------------
(* The virtual tree. *)

PlaceType == place \in [Docs -> Places \cup {None}]

\* A folder's list of files, and the list of all.
LEMMA EntriesAre ==
  PlaceType =>
  /\ \A f \in Folders : EntriesOf(f) \subseteq Entries
  /\ \A f \in Folders : \A e \in EntriesOf(f) :
       e.id \in Docs /\ place[e.id] # None /\ e.at = place[e.id] /\ e.at[1] = f
  /\ \A u \in Docs : place[u] # None =>
       /\ place[u] \in Places /\ place[u][1] \in Folders /\ place[u][1] \in FolderDocs
       /\ [id |-> u, at |-> place[u]] \in EntriesOf(place[u][1])
  /\ FolderDocs \subseteq Folders
<1> SUFFICES ASSUME PlaceType PROVE
      /\ \A f \in Folders : EntriesOf(f) \subseteq Entries
      /\ \A f \in Folders : \A e \in EntriesOf(f) :
           e.id \in Docs /\ place[e.id] # None /\ e.at = place[e.id] /\ e.at[1] = f
      /\ \A u \in Docs : place[u] # None =>
           /\ place[u] \in Places /\ place[u][1] \in Folders /\ place[u][1] \in FolderDocs
           /\ [id |-> u, at |-> place[u]] \in EntriesOf(place[u][1])
      /\ FolderDocs \subseteq Folders
  OBVIOUS
<1>1. \A u \in Docs : place[u] # None => place[u] \in Places /\ place[u][1] \in Folders
  BY PlaceIs DEF PlaceType
<1>2. \A f \in Folders : \A u \in FilesOf(f) : u \in Docs /\ place[u] # None /\ place[u][1] = f
  BY DEF FilesOf
<1>3. ASSUME NEW f \in Folders, NEW e \in EntriesOf(f)
      PROVE  /\ e \in Entries
             /\ e.id \in Docs /\ place[e.id] # None /\ e.at = place[e.id] /\ e.at[1] = f
  <2>1. PICK u \in FilesOf(f) : e = [id |-> u, at |-> place[u]]
    BY DEF EntriesOf
  <2>. QED BY <2>1, <1>1, <1>2 DEF Entries
<1>4. ASSUME NEW u \in Docs, place[u] # None
      PROVE  /\ place[u][1] \in FolderDocs
             /\ [id |-> u, at |-> place[u]] \in EntriesOf(place[u][1])
  <2>1. u \in FilesOf(place[u][1])
    BY <1>4 DEF FilesOf
  <2>. QED BY <2>1, <1>1, <1>4 DEF EntriesOf, FolderDocs, IsFolderDoc
<1>. QED BY <1>1, <1>3, <1>4 DEF FolderDocs

\* The entries of the tree are the listed documents, each at its path.
LEMMA AllEntriesAre ==
  PlaceType =>
  /\ AllEntries \subseteq Entries
  /\ \A e \in AllEntries : e.id \in Docs /\ place[e.id] # None /\ e.at = place[e.id]
  /\ \A u \in Docs : place[u] # None => [id |-> u, at |-> place[u]] \in AllEntries
<1>1. SUFFICES ASSUME PlaceType PROVE
        /\ AllEntries \subseteq Entries
        /\ \A e \in AllEntries : e.id \in Docs /\ place[e.id] # None /\ e.at = place[e.id]
        /\ \A u \in Docs : place[u] # None => [id |-> u, at |-> place[u]] \in AllEntries
  OBVIOUS
<1>2. \A e \in AllEntries : \E f \in Folders : e \in EntriesOf(f)
  BY DEF AllEntries
<1>3. ASSUME NEW u \in Docs, place[u] # None
      PROVE  [id |-> u, at |-> place[u]] \in AllEntries
  BY <1>1, <1>3, EntriesAre DEF AllEntries
<1>. QED BY <1>1, <1>2, <1>3, EntriesAre

\* A path that is found in a list, and a document that is found by a link.
LEMMA PathTyped ==
  ASSUME NEW es \in SUBSET Entries, NEW u
  PROVE  PathIn(es, u) \in Places \cup {None}
BY DEF PathIn, Entries

\* A link resolves to a document, or to nothing.
LEMMA ResolveTyped ==
  ASSUME NEW es \in SUBSET Entries, NEW l, NEW from
  PROVE  Resolve(l, from, es) \in Docs \cup {None}
BY DEF Resolve, Entries

\* So does what a text holds.
LEMMA FindsTyped ==
  ASSUME PlaceType, NEW l, NEW u
  PROVE  Finds(l, u) \in Docs \cup {None}
BY AllEntriesAre, ResolveTyped DEF Finds

\* What a rewrite writes is a link.
LEMMA RelativeTyped ==
  ASSUME NEW to \in Places, NEW from
  PROVE  Relative(from, to) \in Links
BY PlaceIs DEF Relative, Links

\* What a link that is written relative to a path leads to.
LEMMA RelativeLeads ==
  ASSUME NEW to \in Places, NEW from \in Places
  PROVE  Leads(Relative(from, to), from) = to
BY PlaceIs, Basics DEF Relative, Leads

\* A link leads to a path, or nowhere.
LEMMA LeadsTyped ==
  ASSUME NEW l \in Links, NEW from \in Places \cup {None}
  PROVE  Leads(l, from) \in Places \cup {None}
BY PlaceIs, Basics DEF Leads, Links

\* What the cache takes is a name for each document, or none.
LEMMA SnapshotTyped ==
  ASSUME PlaceType, NEW f
  PROVE  Snapshot(f) \in [Docs -> Names \cup {None}]
BY PlaceIs DEF PlaceType, Snapshot, FilesOf

\* What a detection finds are renames.
LEMMA RenamesTyped ==
  ASSUME NEW old \in [Docs -> Names \cup {None}], NEW new \in [Docs -> Names \cup {None}]
  PROVE  RenamesOf(old, new) \subseteq Renames
BY DEF RenamesOf, Renames

\* Putting the renamed files back leaves entries.
LEMMA PatchedTyped ==
  ASSUME NEW es \in SUBSET Entries, work.renames \subseteq Renames,
         work.renames # {} => work.at \in Folders
  PROVE  Patched(es) \subseteq Entries
<1> SUFFICES ASSUME NEW e \in es
             PROVE  (IF \E r \in work.renames : r.id = e.id
                     THEN [e EXCEPT !.at = <<work.at, (CHOOSE r \in work.renames : r.id = e.id).old>>]
                     ELSE e) \in Entries
  BY DEF Patched
<1>1. CASE \E r \in work.renames : r.id = e.id
  <2> DEFINE r == CHOOSE r \in work.renames : r.id = e.id
  <2>1. r \in work.renames
    BY <1>1
  <2>2. <<work.at, r.old>> \in Places
    BY <2>1, PlaceIs DEF Renames
  <2>3. [e EXCEPT !.at = <<work.at, r.old>>] \in Entries
    BY <2>2 DEF Entries
  <2>. QED BY <1>1, <2>3
<1>2. CASE ~ \E r \in work.renames : r.id = e.id
  BY <1>2
<1>. QED BY <1>1, <1>2

-----------------------------------------------------------------------------
(* What the state is made of *)

\* The types hold at startup.
LEMMA InitTyped == Init => Typed
<1> SUFFICES ASSUME Init PROVE Typed
  OBVIOUS
<1>1. PlaceType /\ Injective
  BY LinkIndexerAssumption DEF Init, PlaceType, Injective
<1>2. \A u \in Docs : Target(u) \in Docs \cup {None}
  BY <1>1, FindsTyped DEF Target
<1>3. \A f \in Folders : Snapshot(f) \in [Docs -> Names \cup {None}]
  BY <1>1, SnapshotTyped
<1>4. place \in [Docs -> Places \cup {None}] /\ link \in [Docs -> Links \cup {None}] /\ loaded \subseteq Docs
  BY <1>1, LinkIndexerAssumption DEF Init, PlaceType
<1>5. backlinks \in [Folders -> SUBSET (Docs \X Docs)]
  BY DEF Init
<1>6. cache \in [Folders -> [Docs -> Names \cup {None}] \cup {None}]
  BY <1>3 DEF Init
<1>7. work \in [pc : Pcs, at : Ids, seen : SUBSET Folders, todo : SUBSET Folders,
               ids : SUBSET Docs, renames : SUBSET Renames, entries : SUBSET Entries,
               rename : Renames \cup {None}, sources : SUBSET Docs, link : Links \cup {None}]
  BY Basics DEF Init, Resting, Pcs
<1>8. move \in [pc : {"idle", "apply", "queue"}, id : Docs \cup {None},
               from : Folders, to : Places \cup {None}, needed : SUBSET Docs]
  BY Basics DEF Init, NoMove
<1>9. pending \subseteq Ids /\ fresh \subseteq batch /\ batch \subseteq pending
  BY DEF Init
<1>10. ops \in 0..MaxOps /\ panics \in 0..MaxPanics
  BY LinkIndexerAssumption DEF Init
<1>11. meant \in [Docs -> Docs \cup {None}] /\ adrift \subseteq Docs /\ missed \subseteq Docs
  BY <1>2 DEF Init
<1>12. WorkOK
  BY Basics DEF Init, Resting, WorkOK
<1>13. MoveOK /\ Queued
  BY DEF Init, NoMove, MoveOK, Queued
<1>. QED BY <1>1, <1>4, <1>5, <1>6, <1>7, <1>8, <1>9, <1>10, <1>11, <1>12, <1>13 DEF Typed, TypeOK

\* The worker's record, on its own.
WorkType ==
  work \in [pc : Pcs, at : Ids, seen : SUBSET Folders, todo : SUBSET Folders,
            ids : SUBSET Docs, renames : SUBSET Renames, entries : SUBSET Entries,
            rename : Renames \cup {None}, sources : SUBSET Docs, link : Links \cup {None}]

\* The other variables.
RestType ==
  /\ PlaceType
  /\ link \in [Docs -> Links \cup {None}]
  /\ loaded \subseteq Docs
  /\ backlinks \in [Folders -> SUBSET (Docs \X Docs)]
  /\ cache \in [Folders -> [Docs -> Names \cup {None}] \cup {None}]
  /\ pending \subseteq Ids /\ fresh \subseteq batch /\ batch \subseteq pending
  /\ move \in [pc : {"idle", "apply", "queue"}, id : Docs \cup {None},
               from : Folders, to : Places \cup {None}, needed : SUBSET Docs]
  /\ ops \in 0..MaxOps /\ panics \in 0..MaxPanics
  /\ meant \in [Docs -> Docs \cup {None}]
  /\ adrift \subseteq Docs /\ missed \subseteq Docs

\* The types, sorted by who changes what.
LEMMA TypedParts ==
  Typed <=> WorkType /\ RestType /\ WorkOK /\ MoveOK /\ Injective /\ Queued
BY DEF Typed, TypeOK, WorkType, RestType, PlaceType

\* No client breaks them,
LEMMA ClientTyped ==
  ASSUME Typed, ClientStep
  PROVE  Typed'
<1>t. WorkType /\ RestType /\ WorkOK /\ MoveOK /\ Injective /\ Queued
  BY TypedParts
<1>o. ops + 1 \in 0..MaxOps \/ ~(ops < MaxOps)
  BY <1>t, LinkIndexerAssumption DEF RestType
<1>1. ASSUME NEW u \in Docs, NEW x \in Spots, ClientPlaces(u, x) PROVE Typed'
  <2>1. x \in Places \cup {None}
    BY LinkIndexerAssumption
  <2>2. PlaceType' /\ Injective'
    BY <1>1, <1>t, <2>1 DEF ClientPlaces, PlaceType, RestType, Injective, Free
  <2> DEFINE touched == {y[1] : y \in {place[u], x} \ {None}}
  <2>3. touched \subseteq Folders
    BY <1>t, <2>1, PlaceIs DEF RestType, PlaceType
  <2>4. pending' = pending \cup touched /\ fresh' = fresh \ touched
    BY <1>1 DEF ClientPlaces, Raise
  <2>5. (pending \subseteq Ids /\ fresh \subseteq batch /\ batch \subseteq pending)' /\ Queued'
    BY <1>1, <1>t, <2>3, <2>4, Basics DEF ClientPlaces, RestType, Queued
  <2>6. (adrift \subseteq Docs)'
    BY <1>1, <1>t DEF ClientPlaces, RestType, Linking
  <2>7. RestType'
    BY <1>1, <1>t, <1>o, <2>2, <2>5, <2>6 DEF ClientPlaces, RestType, Operates
  <2>8. WorkType' /\ WorkOK' /\ MoveOK'
    BY <1>1, <1>t DEF ClientPlaces, WorkType, WorkOK, MoveOK
  <2>. QED BY <2>2, <2>5, <2>7, <2>8, TypedParts, PTL
<1>2. ASSUME NEW u \in Docs, NEW l \in Written, ClientWrites(u, l) PROVE Typed'
  <2>1. l \in Links \cup {None}
    BY LinkIndexerAssumption
  <2>2. PlaceType /\ PlaceType' /\ Injective'
    BY <1>2, <1>t DEF ClientWrites, PlaceType, RestType, Injective
  <2>3. Finds(l, u) \in Docs \cup {None}
    BY <2>2, FindsTyped
  <2>4. RestType' /\ Queued'
    BY <1>2, <1>t, <1>o, <2>1, <2>2, <2>3, Basics DEF ClientWrites, RestType, Operates, Raise, Queued
  <2>8. WorkType' /\ WorkOK' /\ MoveOK'
    BY <1>2, <1>t DEF ClientWrites, WorkType, WorkOK, MoveOK
  <2>. QED BY <2>2, <2>4, <2>8, TypedParts, PTL
<1>3. ASSUME NEW u \in Docs, Evicts(u) PROVE Typed'
  <2>1. RestType' /\ Queued' /\ Injective'
    BY <1>3, <1>t, <1>o DEF Evicts, RestType, PlaceType, Operates, Queued, Injective, workVars, histVars
  <2>8. WorkType' /\ WorkOK' /\ MoveOK'
    BY <1>3, <1>t DEF Evicts, WorkType, WorkOK, MoveOK, workVars
  <2>. QED BY <2>1, <2>8, TypedParts, PTL
<1>. QED BY <1>1, <1>2, <1>3 DEF ClientStep

\* What a move makes of links and backlinks, by type.
LEMMA MoveAppliesTyped ==
  ASSUME Typed, MoveApplies
  PROVE  Typed'
<1>t. WorkType /\ RestType /\ WorkOK /\ MoveOK /\ Injective /\ Queued
  BY TypedParts
<1> DEFINE u == move.id
<1> DEFINE old == place[u]
<1> DEFINE new == move.to
<1> DEFINE held == Held(move.needed)
<1> DEFINE entries == {e \in AllEntries : e.id # u} \cup {[id |-> u, at |-> old]}
<1> DEFINE linkers == (UNION {SourcesOf(f, u) : f \in Folders}) \cap DOMAIN held
<1> DEFINE Inward(l, from) == IF l # None /\ from # None /\ Leads(l, from) = old
                              THEN Relative(from, new) ELSE l
<1> DEFINE first == [d \in Docs |->
                 IF \E s \in linkers : held[s] = d
                 THEN Inward(link[d], PathIn(entries, CHOOSE s \in linkers : held[s] = d))
                 ELSE link[d]]
<1> DEFINE Outward(l) == IF l # None /\ Resolve(l, old, entries) # None
                         THEN Relative(new, Leads(l, old)) ELSE l
<1> DEFINE texts == IF u \in DOMAIN held THEN [first EXCEPT ![held[u]] = Outward(@)] ELSE first
<1> DEFINE moved == IF old[1] = new[1] THEN backlinks
               ELSE [backlinks EXCEPT
                      ![old[1]] = {b \in @ : b[1] # u},
                      ![new[1]] = @ \cup ({u} \X SourcesOf(old[1], u))]
<1> DEFINE placed == [d \in Docs |-> IF d = u THEN new ELSE IF place[d] = new THEN None ELSE place[d]]
<1> DEFINE after == {[id |-> d, at |-> placed[d]] : d \in {e \in Docs : placed[e] # None}}
<1> DEFINE own == texts[held[u]]
<1> DEFINE hit == IF own = None THEN None ELSE Resolve(own, new, after)
<1>a. /\ place' = placed
      /\ link' = texts
      /\ backlinks' = IF u \notin DOMAIN held THEN moved
           ELSE [f \in Folders |-> Renewed(moved[f], u,
                  IF hit # None /\ placed[hit][1] = f THEN {hit} ELSE {})]
      /\ adrift' = adrift \cup IF ~Digested THEN Docs
                              ELSE {s \in Linking(u) : s \notin linkers \/ held[s] # s}
                                   \cup {s \in {u} : s \notin DOMAIN held \/ held[s] # s}
                                   \cup {held[s] : s \in {x \in DOMAIN held : held[x] # x}}
      /\ move' = [move EXCEPT !.pc = "queue", !.needed = {}]
      /\ UNCHANGED <<loaded, cache, pending, workVars, ops, panics, meant, missed>>
      /\ move.pc = "apply" /\ InSource
  BY Zenon DEF MoveApplies
<1>1. u \in Docs /\ new \in Places /\ old \in Places
  BY <1>a, <1>t DEF MoveOK, InSource, RestType, PlaceType
<1>2. PlaceType' /\ Injective'
  <2>1. \A d \in Docs : placed[d] \in Places \cup {None}
    BY <1>1, <1>t DEF RestType, PlaceType
  <2>2. \A d, e \in Docs : placed[d] = placed[e] /\ placed[d] # None => d = e
    BY <1>1, <1>t DEF RestType, PlaceType, Injective
  <2>. HIDE DEF placed
  <2>3. placed = [d \in Docs |-> placed[d]]
    BY DEF placed
  <2>. QED BY <1>a, <2>1, <2>2, <2>3 DEF PlaceType, Injective
<1>3. /\ DOMAIN held \subseteq Docs
      /\ \A d \in DOMAIN held : held[d] \in Docs
  BY <1>t, HeldIs DEF RestType
<1>4. entries \subseteq Entries
  BY <1>1, <1>t, AllEntriesAre DEF RestType, Entries
<1>5. \A from : \A l \in Links \cup {None} : Inward(l, from) \in Links \cup {None}
  BY <1>1, RelativeTyped
<1>6. \A l \in Links \cup {None} : Outward(l) \in Links \cup {None}
  <2> SUFFICES ASSUME NEW l \in Links \cup {None}, l # None, Resolve(l, old, entries) # None
               PROVE  Relative(new, Leads(l, old)) \in Links
    OBVIOUS
  <2>1. Leads(l, old) \in Places
    <3>1. PICK e \in entries : e.at = Leads(l, old)
      BY DEF Resolve
    <3>. QED BY <3>1, <1>4 DEF Entries
  <2>. QED BY <2>1, RelativeTyped
<1>7. link' \in [Docs -> Links \cup {None}]
  <2>1. first \in [Docs -> Links \cup {None}]
    <3> SUFFICES ASSUME NEW d \in Docs
                 PROVE  (IF \E s \in linkers : held[s] = d
                         THEN Inward(link[d], PathIn(entries, CHOOSE s \in linkers : held[s] = d))
                         ELSE link[d]) \in Links \cup {None}
      OBVIOUS
    <3>1. link[d] \in Links \cup {None}
      BY <1>t DEF RestType
    <3> HIDE DEF linkers, entries, held, Inward
    <3>. QED BY <3>1, <1>5
  <2> HIDE DEF first, Outward, held
  <2>2. texts \in [Docs -> Links \cup {None}]
    <3>1. CASE u \in DOMAIN held
      <4>1. held[u] \in Docs
        BY <3>1, <1>3
      <4>2. Outward(first[held[u]]) \in Links \cup {None}
        BY <2>1, <4>1, <1>6
      <4>3. texts = [first EXCEPT ![held[u]] = Outward(first[held[u]])]
        BY <3>1
      <4>. QED BY <4>1, <4>2, <4>3, <2>1
    <3>2. CASE u \notin DOMAIN held
      BY <3>2, <2>1
    <3>. QED BY <3>1, <3>2
  <2>. QED BY <2>2, <1>a
<1>8. backlinks' \in [Folders -> SUBSET (Docs \X Docs)]
  <2>1. moved \in [Folders -> SUBSET (Docs \X Docs)]
    <3>1. old[1] \in Folders /\ new[1] \in Folders
      BY <1>1, PlaceIs
    <3>2. {b \in backlinks[old[1]] : b[1] # u} \in SUBSET (Docs \X Docs)
      BY <1>t, <3>1 DEF RestType
    <3>3. {u} \X SourcesOf(old[1], u) \in SUBSET (Docs \X Docs)
      BY <1>1 DEF SourcesOf
    <3>. QED BY <3>1, <3>2, <3>3, <1>t DEF RestType
  <2>2. \A x : hit = x /\ x # None => x \in Docs
    <3>1. after \subseteq Entries
      <4>1. \A d \in Docs : placed[d] # None => placed[d] \in Places
        BY <1>1, <1>t DEF RestType, PlaceType
      <4>. HIDE DEF placed
      <4>. QED BY <4>1 DEF Entries
    <3>. HIDE DEF after, own
    <3>2. Resolve(own, new, after) \in Docs \cup {None}
      BY <3>1, ResolveTyped
    <3>. QED BY <3>2
  <2>3. hit # None => hit \in Docs
    BY <2>2
  <2> HIDE DEF moved, hit, placed
  <2>4. \A f \in Folders : Renewed(moved[f], u, IF hit # None /\ placed[hit][1] = f THEN {hit} ELSE {})
                             \in SUBSET (Docs \X Docs)
    BY <2>1, <2>3, <1>1 DEF Renewed
  <2> HIDE DEF held, u
  <2>. QED BY <1>a, <2>1, <2>4
<1>9. (adrift \subseteq Docs)'
  <2>1. {held[s] : s \in {x \in DOMAIN held : held[x] # x}} \subseteq Docs
    BY <1>3
  <2>2. {s \in Linking(u) : s \notin linkers \/ held[s] # s} \subseteq Docs
    BY DEF Linking
  <2>3. {s \in {u} : s \notin DOMAIN held \/ held[s] # s} \subseteq Docs
    BY <1>1
  <2>4. adrift \subseteq Docs
    BY <1>t DEF RestType
  <2> HIDE DEF held, linkers
  <2>. QED BY <1>a, <2>1, <2>2, <2>3, <2>4
<1>10. move' \in [pc : {"idle", "apply", "queue"}, id : Docs \cup {None},
               from : Folders, to : Places \cup {None}, needed : SUBSET Docs] /\ MoveOK'
  BY <1>a, <1>t DEF RestType, MoveOK
<1> HIDE DEF u, old, new, held, entries, linkers, Inward, first, Outward, texts, moved, placed, after, own, hit
<1>11. RestType'
  BY <1>a, <1>t, <1>2, <1>7, <1>8, <1>9, <1>10 DEF RestType, workVars
<1>12. WorkType' /\ WorkOK' /\ Queued'
  BY <1>a, <1>t DEF WorkType, WorkOK, Queued, workVars
<1>. QED BY <1>2, <1>10, <1>11, <1>12, TypedParts, PTL

\* no move,
LEMMA MoveTyped ==
  ASSUME Typed, MoveStep
  PROVE  Typed'
<1>t. WorkType /\ RestType /\ WorkOK /\ MoveOK /\ Injective /\ Queued
  BY TypedParts
<1>o. ops + 1 \in 0..MaxOps \/ ~(ops < MaxOps)
  BY <1>t, LinkIndexerAssumption DEF RestType
<1>1. ASSUME NEW u \in Docs, NEW x \in Spots \cap Places, MoveBegins(u, x) PROVE Typed'
  <2> DEFINE needed == {u} \cup UNION {SourcesOf(f, u) : f \in FolderDocs}
  <2>1. needed \subseteq Docs
    BY DEF SourcesOf
  <2>2. place[u] \in Places /\ place[u][1] \in Folders
    BY <1>1, <1>t, PlaceIs DEF MoveBegins, RestType, PlaceType
  <2>3. /\ loaded \subseteq loaded' /\ loaded' \subseteq Docs
        /\ move' = [pc |-> "apply", id |-> u, from |-> place[u][1], to |-> x, needed |-> needed]
    BY <1>1, <1>t, <2>1 DEF MoveBegins, RestType
  <2> HIDE DEF needed
  <2>4. move' \in [pc : {"idle", "apply", "queue"}, id : Docs \cup {None},
               from : Folders, to : Places \cup {None}, needed : SUBSET Docs] /\ MoveOK'
    BY <2>1, <2>2, <2>3 DEF MoveOK
  <2>5. RestType' /\ Queued' /\ Injective'
    BY <1>1, <1>t, <1>o, <2>3, <2>4
    DEF MoveBegins, RestType, PlaceType, Operates, Queued, Injective, workVars, histVars
  <2>8. WorkType' /\ WorkOK'
    BY <1>1, <1>t DEF MoveBegins, WorkType, WorkOK, workVars
  <2>. QED BY <2>4, <2>5, <2>8, TypedParts, PTL
<1>2. ASSUME MoveFails PROVE Typed'
  <2>1. RestType' /\ Queued' /\ Injective' /\ MoveOK'
    BY <1>2, <1>t, Basics
    DEF MoveFails, NoMove, RestType, PlaceType, Queued, Injective, MoveOK, treeVars, workVars, histVars
  <2>8. WorkType' /\ WorkOK'
    BY <1>2, <1>t DEF MoveFails, WorkType, WorkOK, workVars
  <2>. QED BY <2>1, <2>8, TypedParts, PTL
<1>3. ASSUME MoveApplies PROVE Typed'
  BY <1>3, MoveAppliesTyped
<1>4. ASSUME MoveQueues PROVE Typed'
  <2>1. move.from \in Folders /\ move.to[1] \in Folders
    BY <1>4, <1>t, PlaceIs DEF MoveQueues, MoveOK, RestType
  <2>2. RestType' /\ Queued' /\ Injective' /\ MoveOK'
    BY <1>4, <1>t, <2>1, Basics
    DEF MoveQueues, Raise, NoMove, RestType, PlaceType, Queued, Injective, MoveOK, treeVars, histVars
  <2>8. WorkType' /\ WorkOK'
    BY <1>4, <1>t DEF MoveQueues, WorkType, WorkOK
  <2>. QED BY <2>2, <2>8, TypedParts, PTL
<1>. QED BY <1>1, <1>2, <1>3, <1>4 DEF MoveStep

\* Steps of the worker that leave everything else alone.
LEMMA OnlyTyped ==
  ASSUME Typed, NEW w, Only(w)
  PROVE  /\ RestType' /\ Injective' /\ MoveOK' /\ Queued'
         /\ work' = w
<1>t. WorkType /\ RestType /\ WorkOK /\ MoveOK /\ Injective /\ Queued
  BY TypedParts
<1>. QED BY <1>t DEF Only, Step, RestType, PlaceType, Injective, MoveOK, Queued, treeVars, histVars

\* no scan of a folder,
LEMMA ScansTyped ==
  ASSUME Typed, Scans
  PROVE  Typed'
<1>t. WorkType /\ RestType /\ WorkOK /\ MoveOK /\ Injective /\ Queued
  BY TypedParts
<1> DEFINE f == Min(work.todo)
<1> DEFINE todo == work.todo \ {f}
<1> DEFINE entries == work.entries \cup EntriesOf(f)
<1>1. f \in work.todo /\ f \in Folders
  BY <1>t, MinIs DEF Scans, WorkType
<1>2. entries \subseteq Entries
  BY <1>1, <1>t, EntriesAre DEF WorkType, RestType
<1>3. Patched(entries) \subseteq Entries
  BY <1>2, <1>t, PatchedTyped DEF WorkType, WorkOK
<1> HIDE DEF f, entries
<1> DEFINE w == IF todo # {} THEN [work EXCEPT !.todo = todo, !.entries = entries]
              ELSE IF work.at \in Docs
                THEN [work EXCEPT !.todo = work.seen, !.entries = entries, !.pc = "write"]
                ELSE [work EXCEPT !.todo = {}, !.entries = Patched(entries), !.pc = "renames"]
<1>4. Only(w) /\ work.pc = "scan" /\ UNCHANGED batch
  BY Zenon DEF Scans, Only, f, entries
<1> HIDE DEF w
<1>5. /\ RestType' /\ Injective' /\ MoveOK' /\ Queued' /\ work' = w
  BY <1>4, OnlyTyped, Zenon
<1> USE DEF w
<1>6. work.at \in Docs => work.seen # {}
  BY <1>1, <1>4, <1>t DEF WorkOK
<1>7. WorkType'
  BY <1>5, <1>1, <1>2, <1>3, <1>t DEF WorkType, Pcs
<1>8. WorkOK'
  BY <1>5, <1>4, <1>6, <1>1, <1>t, Basics DEF WorkOK, WorkType
<1>. QED BY <1>5, <1>7, <1>8, TypedParts, PTL

\* and no other step of the worker.
LEMMA WorkerTyped ==
  ASSUME Typed, WorkerStep
  PROVE  Typed'
<1>t. WorkType /\ RestType /\ WorkOK /\ MoveOK /\ Injective /\ Queued
  BY TypedParts
<1>1. ASSUME NEW quiet \in SUBSET pending, Takes(quiet) PROVE Typed'
  <2>1. FolderDocs \subseteq Folders /\ quiet \subseteq pending
    BY <1>t, EntriesAre DEF RestType
  <2>2. RestType' /\ Injective' /\ MoveOK' /\ Queued'
    BY <1>1, <1>t, <2>1 DEF Takes, RestType, PlaceType, Injective, MoveOK, Queued, treeVars, histVars
  <2>3. work' = [Resting EXCEPT !.pc = "next", !.seen = FolderDocs]
    BY <1>1 DEF Takes, Step
  <2>4. WorkType' /\ WorkOK'
    BY <2>1, <2>3, Basics DEF WorkType, WorkOK, Resting, Pcs
  <2>. QED BY <2>2, <2>4, TypedParts, PTL
<1>2. ASSUME NEW x \in Ids, Picks(x) PROVE Typed'
  <2>1. RestType' /\ Injective' /\ MoveOK' /\ Queued'
    BY <1>2, <1>t DEF Picks, RestType, PlaceType, Injective, MoveOK, Queued, Overlooked, treeVars
  <2>2. /\ work' = [work EXCEPT !.at = x,
                       !.pc = IF x \in Docs THEN "read" ELSE IF IsFolderDoc(x) THEN "detect" ELSE "ack",
                       !.ids = IF x \in Folders THEN FilesOf(x) ELSE {}]
        /\ batch' = batch /\ x \in batch /\ work.pc = "next"
    BY <1>2 DEF Picks, Step
  <2>3. FilesOf(x) \subseteq Docs
    BY DEF FilesOf
  <2>4. WorkType'
    BY <1>t, <2>2, <2>3 DEF WorkType, Pcs
  <2>5. WorkOK'
    <3>1. work.renames = {} /\ work.rename = None /\ work.entries = {} /\ work.todo = {}
      BY <1>t, <2>2 DEF WorkOK, WorkType
    <3>. QED BY <1>t, <2>2, <3>1, Basics DEF WorkType, WorkOK
  <2>. QED BY <2>1, <2>4, <2>5, TypedParts, PTL
<1>3. ASSUME Detects PROVE Typed'
  <2> DEFINE f == work.at
  <2> DEFINE renames == IF cache[f] = None THEN {} ELSE RenamesOf(cache[f], Snapshot(f))
  <2> DEFINE plain == cache[f] # None /\ renames = {} /\ cache[f] # Snapshot(f)
  <2>a. /\ work.pc = "detect"
        /\ cache' = [cache EXCEPT ![f] = Snapshot(f)]
        /\ Raise(IF plain THEN work.ids \cap loaded ELSE {})
        /\ missed' = missed \cup Overlooked(IF plain THEN FilesOf(f) \cap loaded ELSE {})
        /\ work' = [work EXCEPT !.pc = IF renames = {} THEN "ack" ELSE "scan", !.renames = renames,
                           !.todo = FolderDocs]
        /\ UNCHANGED <<treeVars, backlinks, batch, move, ops, panics, meant, adrift>>
    BY <1>3, Zenon DEF Detects, Step
  <2>1. f \in Folders /\ Snapshot(f) \in [Docs -> Names \cup {None}]
    BY <2>a, <1>t, SnapshotTyped DEF WorkOK, RestType
  <2>2. renames \subseteq Renames
    BY <2>1, <1>t, RenamesTyped DEF RestType
  <2>3. work.ids \subseteq Docs
    BY <1>t DEF WorkType
  <2>4. renames # {} => FolderDocs # {}
    <3>1. ASSUME NEW r \in renames PROVE \E u \in Docs : Snapshot(f)[u] # None
      <4>1. r \in RenamesOf(cache[f], Snapshot(f))
        BY <3>1
      <4>. QED BY <4>1 DEF RenamesOf
    <3>2. ASSUME NEW u \in Docs, Snapshot(f)[u] # None PROVE f \in FolderDocs
      BY <2>1, <3>2 DEF Snapshot, FolderDocs, IsFolderDoc
    <3>. QED BY <3>1, <3>2
  <2>5. FolderDocs \subseteq Folders
    BY DEF FolderDocs
  <2> HIDE DEF renames, plain
  <2>6. WorkType'
    BY <2>a, <1>t, <2>2, <2>5 DEF WorkType, Pcs
  <2>7. WorkOK'
    BY <2>a, <1>t, <2>1, <2>4, Basics DEF WorkType, WorkOK
  <2>8. pending \subseteq pending' /\ pending' \subseteq Ids /\ fresh' \subseteq fresh
    BY <2>a, <1>t, <2>3, Basics DEF Raise, RestType
  <2>9. Queued'
    BY <2>a, <1>t DEF Raise, Queued, treeVars
  <2>10. cache' \in [Folders -> [Docs -> Names \cup {None}] \cup {None}]
    BY <2>a, <1>t, <2>1 DEF RestType
  <2>11. (missed \subseteq Docs)'
    BY <2>a, <1>t DEF RestType, Overlooked
  <2>12. RestType' /\ Injective' /\ MoveOK'
    BY <2>a, <1>t, <2>8, <2>10, <2>11 DEF RestType, PlaceType, Injective, MoveOK, treeVars
  <2>. QED BY <2>6, <2>7, <2>9, <2>12, TypedParts, PTL
<1>4. ASSUME Scans PROVE Typed'
  BY <1>4, ScansTyped
<1>5. ASSUME NEW r \in work.renames, TakesRename(r) PROVE Typed'
  <2>1. /\ RestType' /\ Injective' /\ MoveOK' /\ Queued'
        /\ work' = [work EXCEPT !.renames = @ \ {r}, !.rename = r,
                       !.sources = SourcesOf(work.at, r.id), !.pc = "rewrite"]
    BY <1>5, OnlyTyped, Zenon DEF TakesRename
  <2>2. SourcesOf(work.at, r.id) \subseteq Docs /\ batch' = batch /\ work.pc = "renames"
    BY <1>5 DEF SourcesOf, TakesRename, Only
  <2>3. WorkType' /\ WorkOK'
    BY <2>1, <2>2, <1>t, Basics DEF WorkType, WorkOK, Pcs
  <2>. QED BY <2>1, <2>3, TypedParts, PTL
<1>6. ASSUME RenamesDone PROVE Typed'
  <2>1. /\ RestType' /\ Injective' /\ MoveOK' /\ Queued'
        /\ work' = [work EXCEPT !.pc = "ack"]
    BY <1>6, OnlyTyped, Zenon DEF RenamesDone
  <2>2. batch' = batch /\ work.pc = "renames" /\ work.renames = {}
    BY <1>6 DEF RenamesDone, Only
  <2>3. WorkType' /\ WorkOK'
    BY <2>1, <2>2, <1>t, Basics DEF WorkType, WorkOK, Pcs
  <2>. QED BY <2>1, <2>3, TypedParts, PTL
<1>7. ASSUME NEW s \in Docs, Rewrites(s) PROVE Typed'
  <2>1. /\ link' = IF s \in loaded
             THEN [link EXCEPT ![s] = Rewritten(link[s], PathIn(work.entries, s), work.rename)]
             ELSE link
        /\ adrift' = IF s \in loaded THEN adrift ELSE adrift \cup {s}
        /\ work' = [work EXCEPT !.sources = @ \ {s}]
        /\ UNCHANGED <<place, loaded, backlinks, cache, pending, batch, fresh, move, ops, panics,
                       meant, missed>>
        /\ work.pc = "rewrite"
    BY <1>7, <1>t DEF Rewrites, Step, RestType
  <2>2. work.rename \in Renames
    BY <2>1, <1>t DEF WorkOK, WorkType
  <2>3. \A from : \A l \in Links \cup {None} : Rewritten(l, from, work.rename) \in Links \cup {None}
    BY <2>2 DEF Rewritten, Links, Renames
  <2>4. link' \in [Docs -> Links \cup {None}]
    BY <2>1, <2>3, <1>t DEF RestType
  <2>5. RestType' /\ Injective' /\ MoveOK' /\ Queued'
    BY <2>1, <2>4, <1>t DEF RestType, PlaceType, Injective, MoveOK, Queued
  <2>6. WorkType' /\ WorkOK'
    BY <2>1, <1>t, Basics DEF WorkType, WorkOK
  <2>. QED BY <2>5, <2>6, TypedParts, PTL
<1>8. ASSUME RewritesDone PROVE Typed'
  <2>1. /\ RestType' /\ Injective' /\ MoveOK' /\ Queued'
        /\ work' = [work EXCEPT !.pc = "renames", !.rename = None]
    BY <1>8, OnlyTyped, Zenon DEF RewritesDone
  <2>2. batch' = batch /\ work.pc = "rewrite" /\ work.sources = {}
    BY <1>8 DEF RewritesDone, Only
  <2>3. WorkType' /\ WorkOK'
    BY <2>1, <2>2, <1>t, Basics DEF WorkType, WorkOK, Pcs
  <2>. QED BY <2>1, <2>3, TypedParts, PTL
<1>9. ASSUME Reads PROVE Typed'
  <2> DEFINE w == IF work.seen = {} \/ work.at \notin loaded
          THEN [work EXCEPT !.pc = "ack"]
          ELSE [work EXCEPT !.pc = "scan", !.link = link[work.at], !.todo = work.seen,
                            !.entries = {}]
  <2>a. Only(w)
    BY <1>9, Zenon DEF Reads
  <2> HIDE DEF w
  <2>1. /\ RestType' /\ Injective' /\ MoveOK' /\ Queued' /\ work' = w
    BY <2>a, OnlyTyped, Zenon
  <2> USE DEF w
  <2>2. batch' = batch /\ work.pc = "read"
    BY <1>9 DEF Reads, Only
  <2>3. work.at \in Docs /\ link[work.at] \in Links \cup {None}
    BY <1>t, <2>2 DEF WorkOK, RestType
  <2>4. WorkType'
    BY <2>1, <2>2, <2>3, <1>t DEF WorkType, Pcs
  <2>5. WorkOK'
    BY <2>1, <2>2, <2>3, <1>t, Basics DEF WorkType, WorkOK
  <2>. QED BY <2>1, <2>4, <2>5, TypedParts, PTL
<1>10. ASSUME Writes PROVE Typed'
  <2> DEFINE u == work.at
  <2> DEFINE f == Min(work.todo)
  <2> DEFINE hit == IF work.link = None THEN None
              ELSE Resolve(work.link, PathIn(work.entries, u), work.entries)
  <2> DEFINE here == {e.id : e \in {x \in work.entries : x.id = hit /\ x.at[1] = f}}
  <2>a. /\ work.pc = "write"
        /\ backlinks' = [backlinks EXCEPT ![f] = Renewed(backlinks[f], u, here)]
        /\ work' = [work EXCEPT !.todo = @ \ {f}, !.pc = IF work.todo = {f} THEN "ack" ELSE @]
        /\ UNCHANGED <<treeVars, cache, pending, batch, fresh, move, ops, panics, histVars>>
    BY <1>10, Zenon DEF Writes, Step
  <2>1. u \in Docs /\ f \in work.todo /\ f \in Folders
    BY <2>a, <1>t, MinIs DEF WorkOK, WorkType
  <2>2. here \subseteq Docs
    BY <1>t DEF WorkType, Entries
  <2> HIDE DEF here, f
  <2>3. backlinks' \in [Folders -> SUBSET (Docs \X Docs)]
    BY <2>a, <2>1, <2>2, <1>t DEF RestType, Renewed
  <2>4. RestType' /\ Injective' /\ MoveOK' /\ Queued'
    BY <2>a, <2>3, <1>t DEF RestType, PlaceType, Injective, MoveOK, Queued, treeVars, histVars
  <2>5. WorkType'
    BY <2>a, <2>1, <1>t DEF WorkType, Pcs
  <2>6. CASE work.todo = {f}
    <3>1. work'.pc = "ack" /\ work'.todo = {}
      BY <2>a, <2>6, <1>t DEF WorkType
    <3>2. WorkOK'
      BY <2>a, <2>1, <2>6, <3>1, <1>t, Basics DEF WorkType, WorkOK
    <3>. QED BY <2>4, <2>5, <3>2, TypedParts, PTL
  <2>7. CASE work.todo # {f}
    <3>1. work'.pc = "write" /\ work'.todo = work.todo \ {f} /\ work.todo \ {f} # {}
      BY <2>a, <2>1, <2>7, <1>t DEF WorkType
    <3>2. WorkOK'
      BY <2>a, <2>1, <2>7, <3>1, <1>t, Basics DEF WorkType, WorkOK
    <3>. QED BY <2>4, <2>5, <3>2, TypedParts, PTL
  <2>. QED BY <2>6, <2>7
<1>11. ASSUME Acks PROVE Typed'
  <2>1. /\ work.pc = "ack"
        /\ pending' = IF work.at \in fresh THEN pending \ {work.at} ELSE pending
        /\ batch' = batch \ {work.at} /\ fresh' = fresh \ {work.at}
        /\ work' = [Resting EXCEPT !.pc = IF batch \ {work.at} = {} THEN "idle" ELSE "next",
                              !.seen = IF batch \ {work.at} = {} THEN {} ELSE work.seen]
        /\ UNCHANGED <<treeVars, backlinks, cache, move, ops, panics, histVars>>
    BY <1>11 DEF Acks, Step
  <2>2. RestType' /\ Injective' /\ MoveOK' /\ Queued'
    BY <2>1, <1>t DEF RestType, PlaceType, Injective, MoveOK, Queued, treeVars, histVars
  <2>3. WorkType' /\ WorkOK'
    BY <2>1, <1>t, Basics DEF WorkType, WorkOK, Resting, Pcs
  <2>. QED BY <2>2, <2>3, TypedParts, PTL
<1>. QED BY <1>1, <1>2, <1>3, <1>4, <1>5, <1>6, <1>7, <1>8, <1>9, <1>10, <1>11 DEF WorkerStep

\* So no step does.
LEMMA StepTyped == Typed /\ [Next]_vars => Typed'
<1> SUFFICES ASSUME Typed, [Next]_vars PROVE Typed'
  OBVIOUS
<1>t. WorkType /\ RestType /\ WorkOK /\ MoveOK /\ Injective /\ Queued
  BY TypedParts
<1>1. CASE Panics
  <2>1. RestType' /\ Injective' /\ MoveOK' /\ Queued'
    BY <1>1, <1>t, LinkIndexerAssumption
    DEF Panics, RestType, PlaceType, Injective, MoveOK, Queued, treeVars
  <2>2. WorkType' /\ WorkOK'
    BY <1>1, <1>t, Basics DEF Panics, Step, WorkType, WorkOK, Resting, Pcs
  <2>. QED BY <2>1, <2>2, TypedParts, PTL
<1>2. CASE UNCHANGED vars
  <2>1. RestType' /\ Injective' /\ MoveOK' /\ Queued' /\ WorkType' /\ WorkOK'
    BY <1>2, <1>t DEF vars, RestType, PlaceType, Injective, MoveOK, Queued, WorkType, WorkOK,
                      treeVars, workVars, histVars
  <2>. QED BY <2>1, TypedParts, PTL
<1>. QED BY <1>1, <1>2, ClientTyped, MoveTyped, WorkerTyped DEF Next

\* Every variable keeps its type: folder documents, texts and recorded
\* backlinks, the pending map, and the records of the worker and of the move.
THEOREM TypeCorrect == Spec => []TypeOK
<1>1. Typed => TypeOK
  BY DEF Typed
<1>. QED BY <1>1, InitTyped, StepTyped, PTL DEF Spec

-----------------------------------------------------------------------------
(* What links find, and what is recorded of it *)

\* The tree is the same, and so is all that is read off it.
LEMMA SameTree ==
  ASSUME UNCHANGED place
  PROVE  /\ \A f : FilesOf(f)' = FilesOf(f) /\ EntriesOf(f)' = EntriesOf(f)
         /\ \A f : IsFolderDoc(f)' = IsFolderDoc(f) /\ Snapshot(f)' = Snapshot(f)
         /\ \A x : Free(x)' = Free(x)
         /\ FolderDocs' = FolderDocs /\ AllEntries' = AllEntries
         /\ \A l, u : Finds(l, u)' = Finds(l, u)
         /\ \A u : link'[u] = link[u] => Target(u)' = Target(u)
<1>1. \A f : FilesOf(f)' = FilesOf(f)
  BY DEF FilesOf
<1>2. \A f : EntriesOf(f)' = EntriesOf(f)
  BY <1>1 DEF EntriesOf
<1>3. \A f : IsFolderDoc(f)' = IsFolderDoc(f)
  BY <1>1 DEF IsFolderDoc
<1>4. \A f : Snapshot(f)' = Snapshot(f)
  BY <1>1 DEF Snapshot
<1>5. FolderDocs' = FolderDocs
  BY <1>3 DEF FolderDocs
<1>6. AllEntries' = AllEntries
  BY <1>2 DEF AllEntries
<1>7. \A l, u : Finds(l, u)' = Finds(l, u)
  BY <1>6 DEF Finds
<1>8. \A u : link'[u] = link[u] => Target(u)' = Target(u)
  BY <1>7 DEF Target
<1>9. \A x : Free(x)' = Free(x)
  BY DEF Free
<1>. QED BY <1>1, <1>2, <1>3, <1>4, <1>5, <1>6, <1>7, <1>8, <1>9

\* What a link finds is listed where the link leads.
LEMMA FindsIs ==
  PlaceType => \A l, u : Finds(l, u) # None =>
    /\ l # None /\ Finds(l, u) \in Docs
    /\ place[Finds(l, u)] # None /\ place[Finds(l, u)] = Leads(l, place[u])
<1> SUFFICES ASSUME PlaceType, NEW l, NEW u, Finds(l, u) # None
             PROVE  /\ l # None /\ Finds(l, u) \in Docs
                    /\ place[Finds(l, u)] # None /\ place[Finds(l, u)] = Leads(l, place[u])
  OBVIOUS
<1> DEFINE e == CHOOSE e \in AllEntries : e.at = Leads(l, place[u])
<1>1. l # None /\ Finds(l, u) = Resolve(l, place[u], AllEntries)
  BY DEF Finds
<1>2. \E x \in AllEntries : x.at = Leads(l, place[u])
  BY <1>1 DEF Resolve
<1>3. e \in AllEntries /\ e.at = Leads(l, place[u]) /\ Finds(l, u) = e.id
  BY <1>1, <1>2 DEF Resolve
<1>. QED BY <1>1, <1>3, AllEntriesAre

\* A link finds the one document that is where it leads.
LEMMA FindsIt ==
  PlaceType /\ Injective => \A l, u : \A v \in Docs :
    l # None /\ place[v] # None /\ place[v] = Leads(l, place[u]) => Finds(l, u) = v
<1> SUFFICES ASSUME PlaceType, Injective, NEW l, NEW u, NEW v \in Docs,
                    l # None, place[v] # None, place[v] = Leads(l, place[u])
             PROVE  Finds(l, u) = v
  OBVIOUS
<1>1. \E e \in AllEntries : e.at = Leads(l, place[u])
  BY AllEntriesAre
<1>2. Finds(l, u) \in Docs /\ Finds(l, u) # None
  <2> DEFINE e == CHOOSE e \in AllEntries : e.at = Leads(l, place[u])
  <2>1. e \in AllEntries /\ Finds(l, u) = e.id
    BY <1>1 DEF Finds, Resolve
  <2>. QED BY <2>1, AllEntriesAre, Basics
<1>. QED BY <1>2, FindsIs DEF Injective

BacklinksType == backlinks \in [Folders -> SUBSET (Docs \X Docs)]

\* What is recorded of a document is out of date when some folder document
\* has another document down for it than what its link finds, or none.
LEMMA StaleIs ==
  PlaceType /\ BacklinksType => \A u \in Docs :
    ~Stale(u) <=> \A v \in Docs : (\E f \in FolderDocs : <<v, u>> \in backlinks[f]) <=> v = Target(u)
<1> SUFFICES ASSUME PlaceType, BacklinksType, NEW u \in Docs
             PROVE  ~Stale(u) <=>
      \A v \in Docs : (\E f \in FolderDocs : <<v, u>> \in backlinks[f]) <=> v = Target(u)
  OBVIOUS
<1>1. FolderDocs \subseteq Folders
  BY DEF FolderDocs
<1>2. \A v : v \in Recorded(u) <=> v \in Docs /\ \E f \in FolderDocs : <<v, u>> \in backlinks[f]
  <2>1. ASSUME NEW v, v \in Recorded(u)
        PROVE  v \in Docs /\ \E f \in FolderDocs : <<v, u>> \in backlinks[f]
    <3>1. PICK f \in FolderDocs : \E b \in backlinks[f] : b[1] = v /\ b[2] = u
      BY <2>1 DEF Recorded
    <3>2. PICK b \in backlinks[f] : b[1] = v /\ b[2] = u
      BY <3>1
    <3>3. b \in Docs \X Docs
      BY <1>1 DEF BacklinksType
    <3>4. b = <<v, u>> /\ v \in Docs
      BY <3>2, <3>3
    <3>. QED BY <3>2, <3>4
  <2>2. ASSUME NEW v, NEW f \in FolderDocs, <<v, u>> \in backlinks[f]
        PROVE  v \in Recorded(u)
    <3>1. <<v, u>> \in {c \in UNION {backlinks[g] : g \in FolderDocs} : c[2] = u}
      BY <2>2
    <3>. QED BY <3>1 DEF Recorded
  <2>. QED BY <2>1, <2>2
<1>3. Target(u) \in Docs \cup {None}
  BY FindsTyped DEF Target
<1>. QED BY <1>2, <1>3, Basics DEF Stale

\* The same, after a step.
LEMMA StaleNext ==
  ASSUME PlaceType', BacklinksType'
  PROVE  \A u \in Docs : ~Stale(u)' <=>
      \A v \in Docs : (\E f \in FolderDocs' : <<v, u>> \in backlinks'[f]) <=> v = Target(u)'
<1>1. (PlaceType /\ BacklinksType => \A u \in Docs :
    ~Stale(u) <=> \A v \in Docs : (\E f \in FolderDocs : <<v, u>> \in backlinks[f]) <=> v = Target(u))'
  BY StaleIs, PTL
<1>. QED BY <1>1

\* Nothing of what makes a document's backlinks current has changed.
LEMMA StaleSame ==
  ASSUME UNCHANGED <<place, backlinks>>, NEW u, link'[u] = link[u]
  PROVE  Stale(u)' = Stale(u) /\ Recorded(u)' = Recorded(u)
<1>1. FolderDocs' = FolderDocs /\ Target(u)' = Target(u)
  BY SameTree
<1>2. Recorded(u)' = Recorded(u)
  BY <1>1 DEF Recorded
<1>. QED BY <1>1, <1>2 DEF Stale

-----------------------------------------------------------------------------
(* What is owed to the worker *)

\* A change that a folder still owes is one of the tree.
LEMMA OwingOwed == Afoot => TreeOwed
BY DEF Afoot, TreeOwed, Owing, Unlooked

\* The state of the queue, as far as folders are concerned, is the same.
LEMMA OwingSame ==
  ASSUME move' = move,
         \A f \in Folders : (f \in pending)' <=> f \in pending,
         \A f \in Folders : (f \in fresh)' <=> f \in fresh
  PROVE  /\ \A f \in Folders : Owing(f)' <=> Owing(f)
         /\ Afoot' <=> Afoot
BY DEF Owing, Afoot

\* A document that is read with every folder in view has the whole tree.
LEMMA WholeTree ==
  ASSUME Typed, Seen, ~TreeOwed, work.pc # "idle"
  PROVE  /\ FolderDocs \subseteq work.seen
         /\ UNION {EntriesOf(f) : f \in work.seen} = AllEntries
<1>t. WorkType /\ RestType
  BY TypedParts
<1>1. \A f \in Folders : ~Owing(f)
  BY OwingOwed DEF Afoot
<1>2. FolderDocs \subseteq work.seen /\ work.seen \subseteq Folders
  BY <1>1, <1>t DEF Seen, FolderDocs, WorkType
<1>3. \A f \in Folders \ FolderDocs : EntriesOf(f) = {}
  BY DEF FolderDocs, IsFolderDoc, EntriesOf
<1>4. \A e : e \in UNION {EntriesOf(f) : f \in work.seen} <=> \E f \in work.seen : e \in EntriesOf(f)
  OBVIOUS
<1>5. \A e : e \in AllEntries <=> \E f \in Folders : e \in EntriesOf(f)
  BY DEF AllEntries
<1>. QED BY <1>2, <1>3, <1>4, <1>5

-----------------------------------------------------------------------------
(* Backlinks: the second layer *)

\* As long as a folder has yet to be looked at, little is promised.
LEMMA OwedSettles == TreeOwed => Renaming /\ Reading /\ Accounts
BY DEF Renaming, Reading, Accounts

\* Startup has recorded every backlink.
LEMMA InitB == Init /\ Typed => BInv
<1> SUFFICES ASSUME Init, Typed PROVE BInv
  OBVIOUS
<1>1. work.pc = "idle"
  BY DEF Init, Resting
<1>2. PlaceType /\ BacklinksType
  BY DEF Typed, TypeOK, PlaceType, BacklinksType
<1>3. ASSUME NEW u \in Docs PROVE ~Stale(u)
  <2>1. ASSUME NEW v \in Docs, NEW f \in FolderDocs, <<v, u>> \in backlinks[f] PROVE v = Target(u)
    <3>1. f \in Folders
      BY DEF FolderDocs
    <3>. QED BY <2>1, <3>1 DEF Init
  <2>2. ASSUME NEW v \in Docs, v = Target(u)
        PROVE  \E f \in FolderDocs : <<v, u>> \in backlinks[f]
    <3>1. place[v] # None
      BY <1>2, <2>2, FindsIs, Basics DEF Target
    <3>2. place[v][1] \in FolderDocs /\ place[v][1] \in Folders
      BY <1>2, <3>1, EntriesAre
    <3>3. <<v, u>> \in backlinks[place[v][1]]
      BY <2>2, <3>2 DEF Init
    <3>. QED BY <3>2, <3>3
  <2>. QED BY <1>2, <2>1, <2>2, StaleIs
<1>. QED BY <1>1, <1>3 DEF BInv, Seen, Ids0, Renaming, Reading, Accounts

\* Clients change the tree, or a text; what they change they queue.
LEMMA ClientB ==
  ASSUME Typed, BInv, ClientStep
  PROVE  BInv'
<1>t. WorkType /\ RestType /\ WorkOK /\ MoveOK /\ Injective /\ Queued
  BY TypedParts
<1>1. ASSUME NEW u \in Docs, NEW x \in Spots, ClientPlaces(u, x) PROVE BInv'
  <2> DEFINE touched == {y[1] : y \in {place[u], x} \ {None}}
  <2>0. x \in Places \cup {None} /\ place[u] \in Places \cup {None}
    BY <1>t, LinkIndexerAssumption DEF RestType, PlaceType
  <2>1. touched \subseteq Folders
    BY <2>0, PlaceIs
  <2>2. place[u] # x /\ place' = [place EXCEPT ![u] = x]
    BY <1>1 DEF ClientPlaces
  <2>3. \E f \in touched : TRUE
    <3>1. CASE x = None
      BY <3>1, <2>2
    <3>2. CASE x # None
      BY <3>2
    <3>. QED BY <3>1, <3>2
  <2>4. /\ pending' = pending \cup touched /\ fresh' = fresh \ touched
        /\ UNCHANGED <<work, move>>
    BY <1>1 DEF ClientPlaces, Raise
  <2>5. \A f \in FolderDocs' : f \in FolderDocs \/ f \in touched
    <3>1. ASSUME NEW f \in FolderDocs', f \notin FolderDocs PROVE f \in touched
      <4>1. PICK v \in Docs : place'[v] # None /\ place'[v][1] = f
        BY DEF FolderDocs, IsFolderDoc, FilesOf
      <4>2. f \in Folders /\ ~(place[v] # None /\ place[v][1] = f)
        BY <3>1 DEF FolderDocs, IsFolderDoc, FilesOf
      <4>3. v = u /\ x # None /\ x[1] = f
        BY <4>1, <4>2, <2>2, <1>t DEF RestType, PlaceType
      <4>. QED BY <4>3
    <3>. QED BY <3>1
  <2> HIDE DEF touched
  <2>6. /\ \A f \in touched : Owing(f)'
        /\ \A f : Owing(f) => Owing(f)'
    BY <2>4 DEF Owing
  <2>7. Afoot' /\ TreeOwed'
    <3>1. Afoot'
      BY <2>3, <2>1, <2>6 DEF Afoot
    <3>. QED BY <3>1, OwingOwed, PTL
  <2>8. Seen'
    BY <2>4, <2>5, <2>6 DEF Seen, BInv, FolderDocs
  <2>9. Ids0'
    BY <2>7 DEF Ids0
  <2>10. (Renaming /\ Reading /\ Accounts)'
    BY <2>7, OwedSettles, PTL
  <2>. QED BY <2>8, <2>9, <2>10 DEF BInv
<1>2. ASSUME NEW u \in Docs, NEW l \in Written, ClientWrites(u, l) PROVE BInv'
  <2>1. /\ UNCHANGED <<place, backlinks, work, move>>
        /\ link' = [link EXCEPT ![u] = l]
        /\ missed' = missed \ {u}
        /\ pending' = pending \cup {u} /\ fresh' = fresh \ {u}
    BY <1>2 DEF ClientWrites, Raise
  <2>2. /\ \A f \in Folders : (f \in pending)' <=> f \in pending
        /\ \A f \in Folders : (f \in fresh)' <=> f \in fresh
    BY <2>1, Basics
  <2>3. (\A f \in Folders : Owing(f)' <=> Owing(f)) /\ (Afoot' <=> Afoot)
    BY <2>1, <2>2, OwingSame
  <2>4. TreeOwed' <=> TreeOwed
    BY <2>1, <2>2 DEF TreeOwed, Unlooked
  <2>5. FolderDocs' = FolderDocs /\ AllEntries' = AllEntries
        /\ \A f : FilesOf(f)' = FilesOf(f) /\ EntriesOf(f)' = EntriesOf(f)
    BY <2>1, SameTree
  <2>6. Seen' /\ Ids0'
    BY <2>1, <2>3, <2>5 DEF BInv, Seen, Ids0, FolderDocs
  <2>7. Renaming'
    BY <2>1, <2>4 DEF BInv, Renaming
  <2>8. ASSUME NEW v \in Docs, v # u
        PROVE  /\ Stale(v)' = Stale(v) /\ DocOwed(v)' = DocOwed(v)
               /\ Recording(v) => Recording(v)'
    <3>1. link'[v] = link[v]
      BY <2>1, <2>8, <1>t DEF RestType
    <3>2. Target(v)' = Target(v)
      BY <2>1, <3>1, SameTree
    <3>3. (v \in pending)' <=> v \in pending
      BY <2>1, <2>8
    <3>4. (v \in fresh)' <=> v \in fresh
      BY <2>1, <2>8
    <3>. QED BY <2>1, <2>5, <3>1, <3>2, <3>3, <3>4, StaleSame DEF DocOwed, Recording
  <2>9. Reading'
    <3>1. CASE work.at = u
      BY <2>1, <3>1 DEF Reading
    <3>2. CASE work.at # u
      BY <2>1, <2>4, <2>8, <3>2 DEF BInv, Reading
    <3>. QED BY <3>1, <3>2
  <2>10. Accounts'
    <3>1. DocOwed(u)'
      BY <2>1 DEF DocOwed
    <3>. QED BY <2>1, <2>4, <2>8, <3>1 DEF BInv, Accounts
  <2>. QED BY <2>6, <2>7, <2>9, <2>10 DEF BInv
<1>3. ASSUME NEW u \in Docs, Evicts(u) PROVE BInv'
  <2>1. UNCHANGED <<place, link, backlinks, work, move, missed, pending, fresh>>
    BY <1>3 DEF Evicts, workVars, histVars
  <2>2. /\ FolderDocs' = FolderDocs /\ AllEntries' = AllEntries
        /\ \A f : FilesOf(f)' = FilesOf(f) /\ EntriesOf(f)' = EntriesOf(f)
        /\ \A v : Stale(v)' = Stale(v) /\ Target(v)' = Target(v)
    BY <2>1, SameTree, StaleSame
  <2>3. Seen' /\ Ids0' /\ Renaming'
    BY <2>1, <2>2 DEF BInv, Seen, Ids0, Afoot, Owing, Renaming, TreeOwed, Unlooked, FolderDocs
  <2>4. \A v : Recording(v)' = Recording(v)
    BY <2>1, <2>2 DEF Recording
  <2>5. Reading' /\ Accounts'
    BY <2>1, <2>2, <2>4 DEF BInv, Reading, Accounts, TreeOwed, Unlooked, DocOwed
  <2>. QED BY <2>3, <2>5 DEF BInv
<1>. QED BY <1>1, <1>2, <1>3 DEF ClientStep

\* A step that only the bounds and the lists of documents and moves notice.
LEMMA NothingB ==
  ASSUME Typed, BInv, UNCHANGED <<place, link, backlinks, work, missed, pending, fresh>>,
         (move'.pc # "queue" /\ move.pc # "queue") \/ move' = move
  PROVE  BInv'
<1>2. /\ FolderDocs' = FolderDocs /\ AllEntries' = AllEntries
      /\ \A f : FilesOf(f)' = FilesOf(f) /\ EntriesOf(f)' = EntriesOf(f)
      /\ \A v : Stale(v)' = Stale(v) /\ Target(v)' = Target(v)
  BY SameTree, StaleSame
<1>3. Seen' /\ Ids0' /\ Renaming'
  BY <1>2 DEF BInv, Seen, Ids0, Afoot, Owing, Renaming, TreeOwed, Unlooked, FolderDocs
<1>4. \A v : Recording(v)' = Recording(v)
  BY <1>2 DEF Recording
<1>5. Reading' /\ Accounts'
  BY <1>2, <1>4 DEF BInv, Reading, Accounts, TreeOwed, Unlooked, DocOwed
<1>. QED BY <1>3, <1>5 DEF BInv

\* A move's change is owed from when it is made until its folders are queued,
\* and its folders are owed from then on.
LEMMA MoveB ==
  ASSUME Typed, BInv, MoveStep
  PROVE  BInv'
<1>t. WorkType /\ RestType /\ WorkOK /\ MoveOK /\ Injective /\ Queued
  BY TypedParts
<1>1. ASSUME NEW u \in Docs, NEW x \in Spots \cap Places, MoveBegins(u, x) PROVE BInv'
  <2>1. /\ UNCHANGED <<place, link, backlinks, work, missed, pending, fresh>>
        /\ move.pc # "queue" /\ move'.pc # "queue"
    BY <1>1 DEF MoveBegins, workVars, histVars
  <2>. QED BY <2>1, NothingB
<1>2. ASSUME MoveFails PROVE BInv'
  <2>1. /\ UNCHANGED <<place, link, backlinks, work, missed, pending, fresh>>
        /\ move.pc # "queue" /\ move'.pc # "queue"
    BY <1>2 DEF MoveFails, NoMove, treeVars, workVars, histVars
  <2>. QED BY <2>1, NothingB
<1>3. ASSUME MoveApplies PROVE BInv'
  <2>1. /\ place' = [d \in Docs |-> IF d = move.id THEN move.to
                                    ELSE IF place[d] = move.to THEN None ELSE place[d]]
        /\ move' = [move EXCEPT !.pc = "queue", !.needed = {}]
        /\ UNCHANGED <<pending, fresh, work>>
        /\ move.pc = "apply"
    BY <1>3 DEF MoveApplies, workVars
  <2>2. move'.pc = "queue" /\ move'.from = move.from /\ move'.to = move.to
    BY <2>1, <1>t DEF RestType
  <2>3. move.to \in Places /\ move.to[1] \in Folders
    BY <2>1, <1>t, PlaceIs DEF MoveOK
  <2>4. \A f \in FolderDocs' : f \in FolderDocs \/ f = move.to[1]
    <3>1. ASSUME NEW f \in FolderDocs', f \notin FolderDocs PROVE f = move.to[1]
      <4>1. PICK v \in Docs : place'[v] # None /\ place'[v][1] = f
        BY DEF FolderDocs, IsFolderDoc, FilesOf
      <4>2. f \in Folders /\ ~(place[v] # None /\ place[v][1] = f)
        BY <3>1 DEF FolderDocs, IsFolderDoc, FilesOf
      <4>. QED BY <4>1, <4>2, <2>1
    <3>. QED BY <3>1
  <2>5. \A f : Owing(f) => Owing(f)'
    BY <2>1 DEF Owing
  <2>6. Owing(move.to[1])'
    BY <2>2 DEF Owing
  <2>7. Afoot' /\ TreeOwed'
    BY <2>6, <2>3, <2>2 DEF Afoot, TreeOwed
  <2>8. Seen' /\ Ids0'
    BY <2>1, <2>4, <2>5, <2>6, <2>7 DEF BInv, Seen, Ids0, FolderDocs
  <2>10. (Renaming /\ Reading /\ Accounts)'
    BY <2>7, OwedSettles, PTL
  <2>. QED BY <2>8, <2>10 DEF BInv
<1>4. ASSUME MoveQueues PROVE BInv'
  <2>1. /\ pending' = pending \cup {move.from, move.to[1]}
        /\ fresh' = fresh \ {move.from, move.to[1]}
        /\ UNCHANGED <<place, work>> /\ move.pc = "queue"
    BY <1>4 DEF MoveQueues, Raise, treeVars
  <2>2. move.from \in Folders
    BY <1>t DEF RestType
  <2>3. \A f : Owing(f) => Owing(f)'
    BY <2>1 DEF Owing
  <2>4. \E f \in Folders : Owing(f)'
    BY <2>1, <2>2 DEF Owing
  <2>5. Afoot' /\ TreeOwed'
    <3>1. Afoot'
      BY <2>4 DEF Afoot
    <3>. QED BY <3>1, OwingOwed, PTL
  <2>6. FolderDocs' = FolderDocs
    BY <2>1, SameTree
  <2>8. Seen' /\ Ids0'
    BY <2>1, <2>3, <2>5, <2>6 DEF BInv, Seen, Ids0, FolderDocs
  <2>10. (Renaming /\ Reading /\ Accounts)'
    BY <2>5, OwedSettles, PTL
  <2>. QED BY <2>8, <2>10 DEF BInv
<1>. QED BY <1>1, <1>2, <1>3, <1>4 DEF MoveStep

\* Steps of the worker that change nothing but its record: what they leave as
\* it is of what is owed.
LEMMA WorkSame ==
  ASSUME Typed, BInv, UNCHANGED <<place, link, backlinks, missed, pending, fresh, move>>,
         work'.seen = work.seen, work.pc # "idle", work'.pc \notin {"idle", "detect"},
         \A u : (work'.at = u /\ u \in fresh /\ work'.pc \in Looked) <=>
                (work.at = u /\ u \in fresh /\ work.pc \in Looked),
         \A u \in Docs : (work'.at = u /\ u \in fresh /\ work'.pc \in {"scan", "write", "ack"}) <=>
                (work.at = u /\ u \in fresh /\ work.pc \in {"scan", "write", "ack"})
  PROVE  /\ Seen' /\ Ids0'
         /\ TreeOwed' <=> TreeOwed
         /\ \A u \in Docs : (DocOwed(u)' <=> DocOwed(u)) /\ (Stale(u)' <=> Stale(u))
<1>1. FolderDocs' = FolderDocs
  BY SameTree
<1>2. Seen' /\ Ids0'
  BY <1>1 DEF BInv, Seen, Ids0, Owing
<1>3. TreeOwed' <=> TreeOwed
  BY DEF TreeOwed, Unlooked
<1>4. \A u \in Docs : DocOwed(u)' <=> DocOwed(u)
  BY DEF DocOwed
<1>5. \A u \in Docs : Stale(u)' <=> Stale(u)
  BY StaleSame
<1>. QED BY <1>2, <1>3, <1>4, <1>5

\* A pass over a folder has no document half recorded.
LEMMA NoRecording ==
  ASSUME Typed, work.at \in Folders
  PROVE  \A u \in Docs : ~Recording(u)
BY Basics DEF Recording

\* The list is made, and the next item taken from it.
LEMMA TakesB ==
  ASSUME Typed, BInv, NEW quiet \in SUBSET pending, Takes(quiet)
  PROVE  BInv'
<1>1. /\ UNCHANGED <<place, link, backlinks, missed, pending, move>>
      /\ work.pc = "idle" /\ work'.pc = "next" /\ work'.seen = FolderDocs
  BY DEF Takes, Step, Resting, treeVars, histVars
<1>2. FolderDocs' = FolderDocs /\ \A u : Stale(u)' = Stale(u)
  BY <1>1, SameTree, StaleSame
<1>3. Seen' /\ Ids0' /\ Renaming' /\ Reading'
  BY <1>1, <1>2 DEF Seen, Ids0, Renaming, Reading
<1>4. (TreeOwed => TreeOwed') /\ \A u : DocOwed(u) => DocOwed(u)'
  BY <1>1 DEF TreeOwed, Unlooked, DocOwed, Looked
<1>5. \A u : ~Recording(u)
  BY <1>1 DEF Recording
<1>6. Accounts'
  BY <1>1, <1>2, <1>4, <1>5 DEF BInv, Accounts
<1>. QED BY <1>3, <1>6 DEF BInv

\* A folder that lists nothing is passed over; what that overlooks is missed.
LEMMA PicksB ==
  ASSUME Typed, BInv, NEW x \in Ids, Picks(x)
  PROVE  BInv'
<1>t. WorkType /\ RestType /\ WorkOK /\ MoveOK /\ Injective /\ Queued
  BY TypedParts
<1>1. /\ UNCHANGED <<place, link, backlinks, pending, fresh, move>>
      /\ work.pc = "next" /\ work'.seen = work.seen /\ work'.at = x
      /\ work'.pc = IF x \in Docs THEN "read" ELSE IF IsFolderDoc(x) THEN "detect" ELSE "ack"
      /\ work'.ids = IF x \in Folders THEN FilesOf(x) ELSE {}
      /\ missed' = IF x \in Folders /\ ~IsFolderDoc(x) THEN missed \cup Overlooked({}) ELSE missed
  BY <1>t DEF Picks, Step, WorkType, treeVars
<1>2. /\ FolderDocs' = FolderDocs /\ \A f : FilesOf(f)' = FilesOf(f)
      /\ \A u : Stale(u)' = Stale(u)
  BY <1>1, SameTree, StaleSame
<1>3. Seen'
  BY <1>1, <1>2 DEF BInv, Seen, Owing
<1>4. Ids0' /\ Renaming' /\ Reading'
  BY <1>1, <1>2, Basics DEF Ids0, Renaming, Reading
<1>5. \A u \in Docs : ~Recording(u) /\ (DocOwed(u) => DocOwed(u)') /\ (u \in pending => DocOwed(u)')
  <2>1. work'.pc = "ack" => x \notin Docs
    BY <1>1
  <2>2. work'.pc \in {"read", "detect", "ack"}
    BY <1>1
  <2>. QED BY <1>1, <2>1, <2>2 DEF Recording, DocOwed
<1>6. CASE x \in Folders /\ ~IsFolderDoc(x)
  <2>1. \A u \in Docs \ missed' : Stale(u) => u \in pending
    BY <1>1, <1>6 DEF Overlooked
  <2>2. Accounts'
    BY <1>2, <1>5, <2>1 DEF Accounts
  <2>. QED BY <1>3, <1>4, <2>2 DEF BInv
<1>7. CASE ~(x \in Folders /\ ~IsFolderDoc(x))
  <2>1. work'.pc \in {"read", "detect"} /\ missed' = missed
    BY <1>1, <1>7, Basics
  <2>2. TreeOwed => TreeOwed'
    BY <1>1, <2>1 DEF TreeOwed, Unlooked, Looked
  <2>3. Accounts'
    BY <1>2, <1>5, <2>1, <2>2 DEF BInv, Accounts
  <2>. QED BY <1>3, <1>4, <2>3 DEF BInv
<1>. QED BY <1>6, <1>7

\* A look at a folder: what it does not queue again it has overlooked.
LEMMA DetectsB ==
  ASSUME Typed, BInv, Detects
  PROVE  BInv'
<1>t. WorkType /\ RestType /\ WorkOK /\ MoveOK /\ Injective /\ Queued
  BY TypedParts
<1> DEFINE f == work.at
<1> DEFINE renames == IF cache[f] = None THEN {} ELSE RenamesOf(cache[f], Snapshot(f))
<1> DEFINE plain == cache[f] # None /\ renames = {} /\ cache[f] # Snapshot(f)
<1> DEFINE raised == IF plain THEN work.ids \cap loaded ELSE {}
<1>1. /\ work.pc = "detect"
      /\ pending' = pending \cup raised /\ fresh' = fresh \ raised
      /\ missed' = missed \cup Overlooked(IF plain THEN FilesOf(f) \cap loaded ELSE {})
      /\ work' = [work EXCEPT !.pc = IF renames = {} THEN "ack" ELSE "scan", !.renames = renames,
                         !.todo = FolderDocs]
      /\ UNCHANGED <<place, link, loaded, backlinks, move>>
  BY Zenon DEF Detects, Step, Raise, treeVars
<1>2. f \in Folders /\ raised \subseteq Docs
  BY <1>1, <1>t DEF WorkOK, WorkType
<1> DEFINE renewed == IF plain THEN FilesOf(f) \cap loaded ELSE {}
<1>3. renewed \subseteq raised \/ Afoot
  BY <1>1 DEF BInv, Ids0
<1>4. \A r \in renames : r.old # r.new /\ place[r.id] = <<f, r.new>>
  <2> SUFFICES ASSUME NEW r \in RenamesOf(cache[f], Snapshot(f))
               PROVE  r.old # r.new /\ place[r.id] = <<f, r.new>>
    OBVIOUS
  <2>1. PICK u \in Docs : /\ r = [id |-> u, old |-> cache[f][u], new |-> Snapshot(f)[u]]
                          /\ Snapshot(f)[u] # None /\ cache[f][u] # Snapshot(f)[u]
    BY DEF RenamesOf
  <2>2. u \in FilesOf(f) /\ Snapshot(f)[u] = place[u][2]
    BY <2>1 DEF Snapshot
  <2>3. place[u] \in Places /\ place[u][1] = f
    BY <2>2, <1>t DEF FilesOf, RestType, PlaceType
  <2>. QED BY <2>1, <2>2, <2>3, PlaceIs
<1> HIDE DEF f, renames, plain, raised, renewed
<1>5. /\ work'.at = f /\ work'.seen = work.seen /\ work'.renames = renames
      /\ work'.rename = work.rename /\ work'.sources = work.sources
      /\ work'.pc = IF renames = {} THEN "ack" ELSE "scan"
  BY <1>1, <1>t DEF WorkType, f
<1>6. /\ \A g \in Folders : (g \in pending)' <=> g \in pending
      /\ \A g \in Folders : (g \in fresh)' <=> g \in fresh
  BY <1>1, <1>2, Basics
<1>7. (\A g \in Folders : Owing(g)' <=> Owing(g)) /\ (Afoot' <=> Afoot)
  BY <1>1, <1>6, OwingSame
<1>8. FolderDocs' = FolderDocs /\ \A u : Stale(u)' = Stale(u)
  BY <1>1, SameTree, StaleSame
<1>9. Seen' /\ Ids0'
  BY <1>1, <1>5, <1>7, <1>8 DEF BInv, Seen, Ids0, FolderDocs
<1>10. Renaming'
  <2>1. work.rename = None /\ work.sources = {}
    BY <1>1, <1>t DEF WorkOK, WorkType
  <2>. QED BY <1>1, <1>4, <1>5, <2>1 DEF Renaming
<1>11. Reading'
  BY <1>2, <1>5, Basics DEF Reading
<1>12. Accounts'
  <2>1. ASSUME NEW u \in Docs, u \in pending \/ u \in raised PROVE DocOwed(u)'
    BY <2>1, <1>1, <1>2, <1>5, Basics DEF DocOwed
  <2>2. Afoot => TreeOwed'
    BY <1>7, OwingOwed, PTL
  <2>3. ASSUME NEW u \in Docs \ missed', Stale(u) PROVE u \in pending \/ u \in renewed
    BY <2>3, <1>1 DEF Overlooked, renewed
  <2>. QED BY <2>1, <2>2, <2>3, <1>3, <1>8 DEF Accounts
<1>. QED BY <1>9, <1>10, <1>11, <1>12 DEF BInv

\* The snapshot of the tree, and the renames in it put back.
LEMMA ScansB ==
  ASSUME Typed, BInv, Scans
  PROVE  BInv'
<1>t. WorkType /\ RestType /\ WorkOK /\ MoveOK /\ Injective /\ Queued
  BY TypedParts
<1> DEFINE f == Min(work.todo)
<1> DEFINE todo == work.todo \ {f}
<1> DEFINE entries == work.entries \cup EntriesOf(f)
<1> DEFINE w == IF todo # {} THEN [work EXCEPT !.todo = todo, !.entries = entries]
              ELSE IF work.at \in Docs
                THEN [work EXCEPT !.todo = work.seen, !.entries = entries, !.pc = "write"]
                ELSE [work EXCEPT !.todo = {}, !.entries = Patched(entries), !.pc = "renames"]
<1>1. /\ work.pc = "scan" /\ work' = w
      /\ UNCHANGED <<place, link, backlinks, missed, pending, fresh, move>>
  BY Zenon DEF Scans, Only, Step, treeVars, histVars
<1>2. f \in work.todo /\ f \in Folders
  BY <1>1, <1>t, MinIs DEF WorkOK, WorkType
<1> HIDE DEF f, entries
<1>3. /\ work'.at = work.at /\ work'.seen = work.seen /\ work'.renames = work.renames
      /\ work'.rename = work.rename /\ work'.sources = work.sources /\ work'.link = work.link
      /\ work'.pc \in {"scan", "write", "renames"}
      /\ work.at \in Docs => work'.pc \in {"scan", "write"}
      /\ work.at \notin Docs => work'.pc \in {"scan", "renames"}
      /\ work'.pc = "scan" => work'.todo = work.todo \ {f} /\ work'.entries = entries
      /\ work'.pc = "write" => work.todo \ {f} = {} /\ work'.todo = work.seen /\ work'.entries = entries
  BY <1>1, <1>t DEF WorkType
<1> HIDE DEF w
<1>4. /\ \A u : u \notin Docs =>
           ((work'.at = u /\ u \in fresh /\ work'.pc \in Looked) <=>
            (work.at = u /\ u \in fresh /\ work.pc \in Looked))
      /\ \A u \in Docs : (work'.at = u /\ u \in fresh /\ work'.pc \in {"scan", "write", "ack"}) <=>
                (work.at = u /\ u \in fresh /\ work.pc \in {"scan", "write", "ack"})
  BY <1>1, <1>3 DEF Looked
<1>5. FolderDocs' = FolderDocs /\ AllEntries' = AllEntries /\ (\A g : EntriesOf(g)' = EntriesOf(g))
      /\ \A u : Target(u)' = Target(u)
  BY <1>1, SameTree
<1>6. /\ Seen' /\ Ids0'
      /\ TreeOwed' <=> TreeOwed
      /\ \A u \in Docs : (DocOwed(u)' <=> DocOwed(u)) /\ (Stale(u)' <=> Stale(u))
  <2>1. Seen' /\ Ids0'
    BY <1>1, <1>3, <1>5 DEF BInv, Seen, Ids0, Owing
  <2>2. TreeOwed' <=> TreeOwed
    BY <1>1, <1>4, Basics DEF TreeOwed, Unlooked
  <2>3. \A u \in Docs : DocOwed(u)' <=> DocOwed(u)
    BY <1>1, <1>4 DEF DocOwed
  <2>4. \A u \in Docs : Stale(u)' <=> Stale(u)
    BY <1>1, StaleSame
  <2>. QED BY <2>1, <2>2, <2>3, <2>4
<1>7. Renaming'
  <2>1. work.rename = None /\ work.sources = {}
    BY <1>1, <1>t DEF WorkOK, WorkType
  <2>. QED BY <1>1, <1>3, <1>6, <2>1 DEF BInv, Renaming
<1>8. ASSUME NEW u \in Docs, Recording(u), ~TreeOwed PROVE Recording(u)'
  <2>1. work.at = u /\ u \in fresh /\ work.link = link[u]
        /\ work.entries = UNION {EntriesOf(g) : g \in work.seen \ work.todo}
    BY <1>1, <1>8 DEF Recording
  <2>2. work.todo \subseteq work.seen
    BY <1>1, <2>1, <1>t DEF WorkOK
  <2>3. entries = UNION {EntriesOf(g) : g \in work.seen \ (work.todo \ {f})}
    <3>1. \A e : e \in entries <=> \E g \in work.seen \ (work.todo \ {f}) : e \in EntriesOf(g)
      <4>1. \A e : e \in work.entries <=> \E g \in work.seen \ work.todo : e \in EntriesOf(g)
        BY <2>1
      <4>2. \A g : g \in work.seen \ (work.todo \ {f}) <=> g \in work.seen \ work.todo \/ g = f
        BY <1>2, <2>2
      <4>. QED BY <4>1, <4>2 DEF entries
    <3>. QED BY <3>1
  <2>4. CASE work'.pc = "scan"
    <3>1. work'.entries = UNION {EntriesOf(g) : g \in work'.seen \ work'.todo}
      BY <1>3, <2>3, <2>4
    <3>2. UNION {EntriesOf(g) : g \in work'.seen \ work'.todo}
            = UNION {EntriesOf(g)' : g \in work'.seen \ work'.todo}
      BY <1>5
    <3>. QED BY <1>1, <1>3, <2>1, <2>4, <3>1, <3>2 DEF Recording
  <2>5. CASE work'.pc = "write"
    <3>1. entries = AllEntries
      <4>1. work.seen \ (work.todo \ {f}) = work.seen
        BY <1>3, <2>5
      <4>. QED BY <2>3, <4>1, <1>1, <1>8, WholeTree DEF BInv
    <3>2. work'.seen \ work'.todo = {}
      BY <1>3, <2>5
    <3>. QED BY <1>1, <1>3, <1>5, <2>1, <2>5, <3>1, <3>2 DEF Recording
  <2>. QED BY <1>3, <2>1, <2>4, <2>5
<1>9. Reading'
  BY <1>1, <1>3, <1>6, <1>8 DEF BInv, Reading
<1>10. Accounts'
  BY <1>1, <1>6, <1>8 DEF BInv, Accounts
<1>. QED BY <1>6, <1>7, <1>9, <1>10 DEF BInv

\* The pass over a folder goes from rename to rename.
LEMMA RenamesB ==
  ASSUME Typed, BInv, (\E r \in work.renames : TakesRename(r)) \/ RenamesDone \/ RewritesDone
  PROVE  BInv'
<1>t. WorkType /\ RestType /\ WorkOK /\ MoveOK /\ Injective /\ Queued
  BY TypedParts
<1>1. /\ UNCHANGED <<place, link, backlinks, missed, pending, fresh, move>>
      /\ work.pc \in {"renames", "rewrite"}
      /\ work'.at = work.at /\ work'.seen = work.seen
      /\ work'.pc \in {"renames", "rewrite", "ack"}
  BY <1>t DEF TakesRename, RenamesDone, RewritesDone, Only, Step, WorkType, treeVars, histVars
<1>2. work.at \in Folders
  BY <1>1, <1>t DEF WorkOK
<1>3. /\ Seen' /\ Ids0'
      /\ TreeOwed' <=> TreeOwed
      /\ \A u \in Docs : (DocOwed(u)' <=> DocOwed(u)) /\ (Stale(u)' <=> Stale(u))
  BY <1>1, <1>2, Basics, WorkSame DEF Looked
<1>4. \A u \in Docs : ~Recording(u)
  BY <1>2, NoRecording
<1>5. Reading' /\ Accounts'
  BY <1>1, <1>2, <1>3, <1>4, Basics DEF BInv, Reading, Accounts
<1>6. Renaming'
  <2>1. ASSUME NEW r \in work.renames, TakesRename(r) PROVE Renaming'
    <3>1. /\ work.pc = "renames" /\ work'.renames = work.renames \ {r} /\ work'.rename = r
          /\ work'.sources = SourcesOf(work.at, r.id)
      BY <2>1, <1>t DEF TakesRename, Only, Step, WorkType
    <3>2. r # None
      BY <1>t, Basics DEF WorkType
    <3>3. \A s \in work'.sources : <<r.id, s>> \in backlinks[work.at]
      BY <3>1 DEF SourcesOf
    <3>. QED BY <1>1, <1>3, <3>1, <3>2, <3>3 DEF BInv, Renaming
  <2>2. ASSUME RenamesDone PROVE Renaming'
    <3>1. work'.pc = "ack"
      BY <2>2, <1>t DEF RenamesDone, Only, Step, WorkType
    <3>. QED BY <3>1 DEF Renaming
  <2>3. ASSUME RewritesDone PROVE Renaming'
    <3>1. /\ work.pc = "rewrite" /\ work'.renames = work.renames /\ work'.rename = None
          /\ work'.sources = {}
      BY <2>3, <1>t DEF RewritesDone, Only, Step, WorkType
    <3>. QED BY <1>1, <1>3, <3>1 DEF BInv, Renaming
  <2>. QED BY <2>1, <2>2, <2>3
<1>. QED BY <1>3, <1>5, <1>6 DEF BInv

\* A link that finds what is recorded already leads to the new name.
LEMMA RewritesB ==
  ASSUME Typed, BInv, NEW s \in Docs, Rewrites(s)
  PROVE  BInv'
<1>t. WorkType /\ RestType /\ WorkOK /\ MoveOK /\ Injective /\ Queued
  BY TypedParts
<1>1. /\ UNCHANGED <<place, loaded, backlinks, missed, pending, fresh, move>>
      /\ work.pc = "rewrite" /\ s \in work.sources
      /\ link' = IF s \in loaded
             THEN [link EXCEPT ![s] = Rewritten(link[s], PathIn(work.entries, s), work.rename)]
             ELSE link
      /\ work'.at = work.at /\ work'.seen = work.seen /\ work'.pc = work.pc
      /\ work'.renames = work.renames /\ work'.rename = work.rename
      /\ work'.sources = work.sources \ {s}
  BY <1>t DEF Rewrites, Step, WorkType, RestType
<1>2. work.at \in Folders /\ work.rename # None /\ work.rename \in Renames
  BY <1>1, <1>t DEF WorkOK, WorkType
<1>3. FolderDocs' = FolderDocs
  BY <1>1, SameTree
<1>4. Seen' /\ Ids0'
  BY <1>1, <1>3 DEF BInv, Seen, Ids0, Owing
<1>5. (TreeOwed' <=> TreeOwed) /\ \A u \in Docs : DocOwed(u)' <=> DocOwed(u)
  BY <1>1 DEF TreeOwed, Unlooked, DocOwed
<1>6. Renaming'
  BY <1>1, <1>2, <1>5 DEF BInv, Renaming
<1>7. Reading'
  BY <1>1 DEF Reading
<1>8. ASSUME ~TreeOwed, ~Stale(s) PROVE link' = link
  <2> DEFINE r == work.rename
  <2>1. place[r.id] = <<work.at, r.new>> /\ r.old # r.new /\ <<r.id, s>> \in backlinks[work.at]
    BY <1>1, <1>2, <1>8 DEF BInv, Renaming
  <2>2. r.id \in Docs /\ place[r.id] # None /\ work.at \in FolderDocs
    <3>1. r.id \in Docs /\ r.new \in Names
      BY <1>2 DEF Renames
    <3>2. place[r.id] # None
      BY <2>1, <3>1, <1>2, PlaceIs, Basics
    <3>3. place[r.id][1] = work.at
      BY <2>1
    <3>. QED BY <3>1, <3>2, <3>3, <1>t, EntriesAre DEF RestType
  <2>3. r.id = Target(s)
    BY <2>1, <2>2, <1>8, <1>t, StaleIs DEF RestType, BacklinksType
  <2>4. link[s] # None /\ Leads(link[s], place[s]) = <<work.at, r.new>>
    BY <2>1, <2>2, <2>3, <1>t, FindsIs, Basics DEF Target, RestType
  <2>5. link[s].name = r.new
    BY <2>1, <2>2, <2>4 DEF Leads
  <2> HIDE DEF r
  <2>6. Rewritten(link[s], PathIn(work.entries, s), r) = link[s]
    BY <2>1, <2>5 DEF Rewritten
  <2>. QED BY <1>1, <2>6, <1>t DEF r, RestType
<1>9. ASSUME NEW u \in Docs, ~TreeOwed, Stale(u)' PROVE Stale(u)
  <2>1. CASE u = s
    <3>1. CASE Stale(s)
      BY <2>1, <3>1
    <3>2. CASE ~Stale(s)
      <4>1. link' = link
        BY <3>2, <1>8, <1>9
      <4>. QED BY <4>1, <1>1, <1>9, StaleSame
    <3>. QED BY <3>1, <3>2
  <2>2. CASE u # s
    <3>1. link'[u] = link[u]
      BY <2>2, <1>1, <1>t DEF RestType
    <3>. QED BY <3>1, <1>1, <1>9, StaleSame
  <2>. QED BY <2>1, <2>2
<1>10. Accounts'
  <2>1. \A u \in Docs : ~Recording(u)
    BY <1>2, NoRecording
  <2>. QED BY <1>1, <1>5, <1>9, <2>1 DEF BInv, Accounts
<1>. QED BY <1>4, <1>6, <1>7, <1>10 DEF BInv

\* The text is read: nothing is recorded yet, or nothing is there to record.
LEMMA ReadsB ==
  ASSUME Typed, BInv, Reads
  PROVE  BInv'
<1>t. WorkType /\ RestType /\ WorkOK /\ MoveOK /\ Injective /\ Queued
  BY TypedParts
<1> DEFINE u == work.at
<1>1. /\ work.pc = "read" /\ UNCHANGED <<place, link, backlinks, missed, pending, fresh, move>>
      /\ work' = IF work.seen = {} \/ work.at \notin loaded
          THEN [work EXCEPT !.pc = "ack"]
          ELSE [work EXCEPT !.pc = "scan", !.link = link[work.at], !.todo = work.seen,
                            !.entries = {}]
  BY Zenon DEF Reads, Only, Step, treeVars, histVars
<1>2. u \in Docs /\ u \in pending /\ u \in loaded /\ u \notin Folders
  BY <1>1, <1>t, Basics DEF WorkOK, RestType, Queued
<1>3. /\ work'.at = u /\ work'.seen = work.seen
      /\ work'.pc = IF work.seen = {} THEN "ack" ELSE "scan"
      /\ work.seen # {} => work'.link = link[u] /\ work'.todo = work.seen /\ work'.entries = {}
  BY <1>1, <1>2, <1>t DEF WorkType
<1>4. FolderDocs' = FolderDocs /\ \A v : Stale(v)' = Stale(v)
  BY <1>1, SameTree, StaleSame
<1>5. Seen' /\ Ids0' /\ Renaming'
  BY <1>1, <1>2, <1>3, <1>4 DEF BInv, Seen, Ids0, Renaming, Owing
<1>6. TreeOwed' <=> TreeOwed
  BY <1>1, <1>2, <1>3 DEF TreeOwed, Unlooked
<1>7. ASSUME work.seen # {}, u \in fresh PROVE Recording(u)'
  <2>1. work'.seen \ work'.todo = {}
    BY <1>3, <1>7
  <2>. QED BY <1>1, <1>3, <1>7, <2>1 DEF Recording
<1>8. Reading'
  BY <1>1, <1>3, <1>7 DEF Reading
<1>9. ASSUME work.seen = {}, ~TreeOwed, NEW v \in Docs PROVE ~Stale(v)
  <2>1. FolderDocs = {}
    BY <1>1, <1>9, WholeTree DEF BInv
  <2>2. \A x \in Docs : place[x] = None
    BY <2>1, <1>t, EntriesAre DEF RestType
  <2>3. Target(v) = None
    BY <2>2, <1>t, FindsIs DEF Target, RestType
  <2>. QED BY <2>1, <2>3, <1>t, StaleIs, Basics DEF RestType, BacklinksType
<1>10. Accounts'
  <2>1. \A v \in Docs : ~Recording(v)
    BY <1>1 DEF Recording
  <2>2. \A v \in Docs : v # u => (DocOwed(v)' <=> DocOwed(v))
    BY <1>1, <1>3 DEF DocOwed
  <2>3. CASE u \notin fresh
    <3>1. DocOwed(u)'
      BY <1>1, <1>2, <2>3 DEF DocOwed
    <3>. QED BY <1>1, <1>4, <1>6, <2>1, <2>2, <3>1 DEF BInv, Accounts
  <2>4. CASE u \in fresh /\ work.seen # {}
    BY <1>1, <1>4, <1>6, <1>7, <2>1, <2>2, <2>4 DEF BInv, Accounts
  <2>5. CASE work.seen = {}
    BY <1>4, <1>6, <1>9, <2>5 DEF Accounts
  <2>. QED BY <2>3, <2>4, <2>5
<1>. QED BY <1>5, <1>8, <1>10 DEF BInv

\* The last folder's backlinks are written: none is out of date.
LEMMA WritesB ==
  ASSUME Typed, BInv, Writes
  PROVE  BInv'
<1>t. WorkType /\ RestType /\ WorkOK /\ MoveOK /\ Injective /\ Queued
  BY TypedParts
<1> DEFINE u == work.at
<1> DEFINE f == Min(work.todo)
<1> DEFINE hit == IF work.link = None THEN None
              ELSE Resolve(work.link, PathIn(work.entries, u), work.entries)
<1> DEFINE here == {e.id : e \in {x \in work.entries : x.id = hit /\ x.at[1] = f}}
<1>1. /\ work.pc = "write"
      /\ backlinks' = [backlinks EXCEPT ![f] = Renewed(backlinks[f], u, here)]
      /\ work' = [work EXCEPT !.todo = @ \ {f}, !.pc = IF work.todo = {f} THEN "ack" ELSE @]
      /\ UNCHANGED <<place, link, pending, fresh, move, missed>>
  BY Zenon DEF Writes, Step, treeVars, histVars
<1>2. u \in Docs /\ u \notin Folders /\ u \in pending /\ f \in work.todo /\ f \in Folders /\ f \in work.seen
  BY <1>1, <1>t, MinIs, Basics DEF WorkOK, WorkType, RestType
<1>b. BacklinksType /\ BacklinksType' /\ PlaceType /\ PlaceType'
  <2>1. Typed'
    BY WorkerTyped DEF WorkerStep
  <2>. QED BY <2>1, <1>t DEF RestType, PlaceType, BacklinksType, Typed, TypeOK
<1>3. /\ work'.at = u /\ work'.seen = work.seen /\ work'.link = work.link
      /\ work'.entries = work.entries /\ work'.todo = work.todo \ {f}
      /\ work'.pc = IF work.todo = {f} THEN "ack" ELSE "write"
  BY <1>1, <1>t DEF WorkType
<1>4. FolderDocs' = FolderDocs /\ AllEntries' = AllEntries /\ (\A g : FilesOf(g)' = FilesOf(g))
      /\ \A v : Target(v)' = Target(v)
  BY <1>1, SameTree
<1>5. Seen' /\ Ids0' /\ Renaming'
  BY <1>1, <1>2, <1>3, <1>4 DEF BInv, Seen, Ids0, Renaming, Owing
<1>6. TreeOwed' <=> TreeOwed
  BY <1>1, <1>2, <1>3 DEF TreeOwed, Unlooked
<1>7. \A v \in Docs : DocOwed(v)' <=> DocOwed(v)
  BY <1>1, <1>3 DEF DocOwed
<1>8. /\ \A g \in Folders, v, s \in Docs : g # f \/ s # u =>
           (<<v, s>> \in backlinks'[g] <=> <<v, s>> \in backlinks[g])
      /\ \A v \in Docs : <<v, u>> \in backlinks'[f] <=> v \in here
  <2> HIDE DEF here, f
  <2>. QED BY <1>1, <1>2, <1>b DEF BacklinksType, Renewed
<1>9. ASSUME NEW s \in Docs, s # u PROVE Stale(s)' <=> Stale(s)
  <2>1. \A v \in Docs : (\E g \in FolderDocs : <<v, s>> \in backlinks'[g])
                    <=> (\E g \in FolderDocs : <<v, s>> \in backlinks[g])
    BY <1>8, <1>9 DEF FolderDocs
  <2>2. ~Stale(s)' <=> \A v \in Docs : (\E g \in FolderDocs' : <<v, s>> \in backlinks'[g]) <=> v = Target(s)'
    BY <1>b, StaleNext
  <2>3. ~Stale(s) <=> \A v \in Docs : (\E g \in FolderDocs : <<v, s>> \in backlinks[g]) <=> v = Target(s)
    BY <1>b, StaleIs
  <2>. QED BY <2>1, <2>2, <2>3, <1>4
<1>10. ASSUME Recording(u) PROVE \A v \in Docs : v \in here <=> v = Target(u) /\ v \in FilesOf(f)
  <2>1. work.link = link[u] /\ work.entries = AllEntries
    BY <1>1, <1>10 DEF Recording
  <2>2. PathIn(AllEntries, u) = place[u]
    BY <1>b, <1>2, AllEntriesAre DEF PathIn, PlaceType
  <2>3. hit = Target(u)
    BY <2>1, <2>2 DEF Target, Finds
  <2>4. \A v : v \in here <=> \E e \in AllEntries : e.id = Target(u) /\ e.at[1] = f /\ e.id = v
    BY <2>1, <2>3
  <2> HIDE DEF here, hit
  <2>5. \A v \in Docs : v \in FilesOf(f) <=> place[v] # None /\ place[v][1] = f
    BY DEF FilesOf
  <2>. QED BY <2>4, <2>5, <1>b, AllEntriesAre
<1> HIDE DEF here, hit, f
<1>11. ASSUME Recording(u)
       PROVE  \A g \in work.seen \ (work.todo \ {f}), v \in Docs :
                <<v, u>> \in backlinks'[g] <=> v = Target(u) /\ v \in FilesOf(g)
  <2> SUFFICES ASSUME NEW g \in work.seen \ (work.todo \ {f}), NEW v \in Docs
               PROVE  <<v, u>> \in backlinks'[g] <=> v = Target(u) /\ v \in FilesOf(g)
    OBVIOUS
  <2>1. CASE g = f
    BY <2>1, <1>8, <1>10, <1>11
  <2>2. CASE g # f
    <3>1. g \in work.seen \ work.todo /\ g \in Folders
      BY <2>2, <1>t DEF WorkType
    <3>. QED BY <2>2, <3>1, <1>1, <1>2, <1>8, <1>11 DEF Recording
  <2>. QED BY <2>1, <2>2
<1>12. ASSUME Recording(u), work.todo # {f} PROVE Recording(u)'
  <2>1. \A g \in work'.seen \ work'.todo, v \in Docs :
          <<v, u>> \in backlinks'[g] <=> v = Target(u)' /\ v \in FilesOf(g)'
    BY <1>3, <1>4, <1>11, <1>12
  <2>2. work'.entries = AllEntries' /\ work'.link = link'[u] /\ u \in fresh'
    BY <1>1, <1>3, <1>4, <1>12 DEF Recording
  <2>. QED BY <1>3, <1>12, <2>1, <2>2 DEF Recording
<1>13. ASSUME Recording(u), ~TreeOwed, work.todo = {f} PROVE ~Stale(u)'
  <2>1. FolderDocs \subseteq work.seen
    BY <1>1, <1>13, WholeTree DEF BInv
  <2>2. \A g \in FolderDocs, v \in Docs : <<v, u>> \in backlinks'[g] <=> v = Target(u) /\ v \in FilesOf(g)
    BY <1>11, <1>13, <2>1
  <2>3. ASSUME NEW v \in Docs, v = Target(u) PROVE \E g \in FolderDocs : v \in FilesOf(g)
    <3>1. place[v] # None
      BY <2>3, <1>b, FindsIs, Basics DEF Target
    <3>2. place[v][1] \in FolderDocs /\ v \in FilesOf(place[v][1])
      BY <3>1, <1>b, EntriesAre DEF FilesOf
    <3>. QED BY <3>2
  <2>4. ~Stale(u)' <=> \A v \in Docs : (\E g \in FolderDocs' : <<v, u>> \in backlinks'[g]) <=> v = Target(u)'
    <3>1. \A s \in Docs : ~Stale(s)' <=>
            \A v \in Docs : (\E g \in FolderDocs' : <<v, s>> \in backlinks'[g]) <=> v = Target(s)'
      BY <1>b, StaleNext
    <3>2. u = work'.at
      BY <1>3
    <3>. QED BY <3>1, <3>2, <1>2
  <2>5. Target(u)' = Target(u)
    BY <1>3, <1>4
  <2>6. \A v \in Docs : (\E g \in FolderDocs : <<v, u>> \in backlinks'[g]) <=> v = Target(u)
    BY <2>2, <2>3
  <2>. QED BY <2>4, <2>5, <2>6, <1>4
<1>14. Reading'
  BY <1>1, <1>3, <1>6, <1>12 DEF BInv, Reading
<1>15. Accounts'
  <2>1. \A v \in Docs : v # u => ~Recording(v)
    BY DEF Recording
  <2>2. CASE DocOwed(u) \/ TreeOwed
    BY <1>1, <1>6, <1>7, <1>9, <2>1, <2>2 DEF BInv, Accounts
  <2>3. CASE ~DocOwed(u) /\ ~TreeOwed
    <3>1. u \in fresh
      BY <1>1, <1>2, <2>3 DEF DocOwed
    <3>2. Recording(u)
      BY <1>1, <1>2, <2>3, <3>1 DEF BInv, Reading
    <3>. QED BY <1>1, <1>6, <1>7, <1>9, <1>12, <1>13, <2>1, <2>3, <3>2 DEF BInv, Accounts
  <2>. QED BY <2>2, <2>3
<1>. QED BY <1>5, <1>14, <1>15 DEF BInv

\* An entry that was raised during the pass stays.
LEMMA AcksB ==
  ASSUME Typed, BInv, Acks
  PROVE  BInv'
<1>t. WorkType /\ RestType /\ WorkOK /\ MoveOK /\ Injective /\ Queued
  BY TypedParts
<1> DEFINE x == work.at
<1>1. /\ work.pc = "ack" /\ UNCHANGED <<place, link, backlinks, missed, move>>
      /\ pending' = IF x \in fresh THEN pending \ {x} ELSE pending
      /\ fresh' = fresh \ {x}
      /\ work'.pc \in {"idle", "next"}
      /\ work'.pc = "next" => work'.seen = work.seen
  BY DEF Acks, Step, Resting, treeVars, histVars
<1>2. FolderDocs' = FolderDocs /\ \A v : Stale(v)' = Stale(v)
  BY <1>1, SameTree, StaleSame
<1>3. \A g : (g \in pending /\ g \notin fresh)' <=> g \in pending /\ g \notin fresh
  BY <1>1, <1>t DEF RestType, WorkOK
<1>4. Seen' /\ Ids0' /\ Renaming' /\ Reading'
  BY <1>1, <1>2, <1>3 DEF BInv, Seen, Ids0, Renaming, Reading, Owing
<1>5. (TreeOwed' <=> TreeOwed) /\ \A v \in Docs : DocOwed(v)' <=> DocOwed(v)
  <2>1. \A g : Unlooked(g)' <=> Unlooked(g)
    BY <1>1, <1>3 DEF Unlooked, Looked
  <2>2. \A v \in Docs : DocOwed(v)' <=> DocOwed(v)
    BY <1>1, <1>3 DEF DocOwed
  <2>. QED BY <1>1, <2>1, <2>2 DEF TreeOwed
<1>6. Accounts'
  <2>1. \A v \in Docs : ~Recording(v)
    BY <1>1 DEF Recording
  <2>. QED BY <1>1, <1>2, <1>5, <2>1 DEF BInv, Accounts
<1>. QED BY <1>4, <1>6 DEF BInv

\* No step loses a change that a document's backlinks are owed.
LEMMA StepB == Typed /\ BInv /\ [Next]_vars => BInv'
<1> SUFFICES ASSUME Typed, BInv, [Next]_vars PROVE BInv'
  OBVIOUS
<1>1. CASE Panics
  <2>1. /\ UNCHANGED <<place, link, backlinks, missed, pending, move>>
        /\ work'.pc = "idle" /\ fresh' = {}
    BY <1>1 DEF Panics, Step, Resting, treeVars
  <2>2. \A v : Stale(v)' = Stale(v)
    BY <2>1, StaleSame
  <2>3. TreeOwed => TreeOwed'
    BY <2>1 DEF TreeOwed, Unlooked
  <2>4. \A v \in Docs : DocOwed(v) \/ Recording(v) => DocOwed(v)'
    BY <2>1 DEF DocOwed, Recording, Typed, TypeOK
  <2>. QED BY <2>1, <2>2, <2>3, <2>4 DEF BInv, Seen, Ids0, Renaming, Reading, Accounts
<1>2. CASE UNCHANGED vars
  <2>1. UNCHANGED <<place, link, backlinks, work, missed, pending, fresh, move>>
    BY <1>2 DEF vars, treeVars, workVars, histVars
  <2>. QED BY <2>1, NothingB
<1>3. CASE WorkerStep
  <2>1. ASSUME NEW quiet \in SUBSET pending, Takes(quiet) PROVE BInv'
    BY <2>1, TakesB
  <2>2. ASSUME NEW x \in Ids, Picks(x) PROVE BInv'
    BY <2>2, PicksB
  <2>3. ASSUME NEW s \in Docs, Rewrites(s) PROVE BInv'
    BY <2>3, RewritesB
  <2>. QED BY <1>3, <2>1, <2>2, <2>3, DetectsB, ScansB, RenamesB, ReadsB, WritesB, AcksB DEF WorkerStep
<1>. QED BY <1>1, <1>2, <1>3, ClientB, MoveB DEF Next

\* With nothing queued or under way, the backlinks on record for a document
\* that no folder pass has overlooked are those of its text, whatever stale
\* snapshots, renames, moves and panics came before.
THEOREM BacklinksFollow == Spec => []BacklinksCurrent
<1>1. BInv => BacklinksCurrent
  BY DEF BInv, BacklinksCurrent, Accounts, Quiet, DocOwed, TreeOwed, Unlooked, Recording
<1>. QED BY <1>1, InitTyped, StepTyped, InitB, StepB, PTL DEF Spec

-----------------------------------------------------------------------------
(* Links: the third layer *)

\* Where a link leads depends on the folder it is seen from, not on the name.
LEMMA LeadsFolder ==
  ASSUME NEW l, NEW x \in Places, NEW y \in Places, x[1] = y[1]
  PROVE  Leads(l, x) = Leads(l, y)
BY Basics DEF Leads

\* A link under another name leads to that name in the same folder.
LEMMA LeadsName ==
  ASSUME NEW l \in Links, NEW x \in Places, NEW f, NEW n, NEW m \in Names,
         Leads(l, x) = <<f, n>>
  PROVE  l.name = n /\ Leads([l EXCEPT !.name = m], x) = <<f, m>>
BY Basics DEF Leads, Links

\* The renames that a folder's cache has yet to learn of are those of the tree.
LEMMA DueIs ==
  Typed => \A f \in Folders : \A r \in Due(f) :
    /\ r \in Renames /\ r.id \in Docs /\ cache[f] # None
    /\ r.old = cache[f][r.id] /\ r.new = Snapshot(f)[r.id]
    /\ r.old # None /\ r.new # None /\ r.old # r.new
    /\ place[r.id] = <<f, r.new>> /\ f \in FolderDocs
<1> SUFFICES ASSUME Typed, NEW f \in Folders, NEW r \in Due(f)
             PROVE  /\ r \in Renames /\ r.id \in Docs /\ cache[f] # None
                    /\ r.old = cache[f][r.id] /\ r.new = Snapshot(f)[r.id]
                    /\ r.old # None /\ r.new # None /\ r.old # r.new
                    /\ place[r.id] = <<f, r.new>> /\ f \in FolderDocs
  OBVIOUS
<1>t. RestType
  BY TypedParts
<1>1. cache[f] # None /\ r \in RenamesOf(cache[f], Snapshot(f))
  BY DEF Due
<1>2. cache[f] \in [Docs -> Names \cup {None}] /\ Snapshot(f) \in [Docs -> Names \cup {None}]
  BY <1>1, <1>t, SnapshotTyped DEF RestType
<1>3. r \in Renames
  BY <1>1, <1>2, RenamesTyped
<1>4. PICK u \in Docs : /\ r = [id |-> u, old |-> cache[f][u], new |-> Snapshot(f)[u]]
                        /\ cache[f][u] # None /\ Snapshot(f)[u] # None /\ cache[f][u] # Snapshot(f)[u]
  BY <1>1 DEF RenamesOf
<1>5. u \in FilesOf(f) /\ Snapshot(f)[u] = place[u][2]
  BY <1>4 DEF Snapshot
<1>6. place[u] \in Places /\ place[u][1] = f
  BY <1>5, <1>t DEF FilesOf, RestType, PlaceType
<1>7. f \in FolderDocs
  BY <1>5 DEF FolderDocs, IsFolderDoc
<1>. QED BY <1>1, <1>3, <1>4, <1>5, <1>6, <1>7, PlaceIs

\* Renames in the cache or in hand are renames.
LEMMA EveryTyped == Typed => \A f \in Folders : Every(f) \subseteq Renames
<1> SUFFICES ASSUME Typed, NEW f \in Folders PROVE Every(f) \subseteq Renames
  OBVIOUS
<1>1. Due(f) \subseteq Renames
  BY DueIs
<1>2. work.renames \subseteq Renames /\ {work.rename} \ {None} \subseteq Renames
  BY TypedParts DEF WorkType
<1>. QED BY <1>1, <1>2 DEF Every

\* The worker has no rename in its hands.
NoRenames == work.renames = {} /\ work.rename = None

\* With none in hand, they are those of the caches.
LEMMA EveryIsDue ==
  NoRenames => \A f \in Folders : Every(f) = Due(f)
BY DEF NoRenames, Every

\* The same renames are under way.
LEMMA EverySame ==
  ASSUME UNCHANGED <<place, cache>>,
         \/ work'.at = work.at /\ work'.renames = work.renames /\ work'.rename = work.rename
         \/ NoRenames /\ NoRenames'
  PROVE  \A f \in Folders : Due(f)' = Due(f) /\ Every(f)' = Every(f)
<1>1. \A f : Snapshot(f)' = Snapshot(f)
  BY SameTree
<1>2. \A f \in Folders : Due(f)' = Due(f)
  BY <1>1 DEF Due
<1>3. CASE work'.at = work.at /\ work'.renames = work.renames /\ work'.rename = work.rename
  BY <1>2, <1>3 DEF Every
<1>4. CASE NoRenames /\ NoRenames'
  BY <1>2, <1>4 DEF Every, NoRenames
<1>. QED BY <1>2, <1>3, <1>4

\* Digested: nothing waits for the worker, and it is not at a folder.
LEMMA DigestedIs ==
  Typed /\ Digested =>
    /\ \A f \in Folders : Every(f) = {} /\ Due(f) = {}
    /\ work.at \in Folders => work.pc \in {"idle", "next"}
    /\ Lone /\ Pictured
    /\ \A s, u : ~Waits(s, u)
<1> SUFFICES ASSUME Typed, Digested
             PROVE  /\ \A f \in Folders : Every(f) = {} /\ Due(f) = {}
                    /\ work.at \in Folders => work.pc \in {"idle", "next"}
                    /\ Lone /\ Pictured
                    /\ \A s, u : ~Waits(s, u)
  OBVIOUS
<1>t. WorkType /\ RestType /\ WorkOK
  BY TypedParts
<1>1. ASSUME NEW f \in Folders, NEW r \in Due(f) PROVE FALSE
  BY DueIs DEF Digested
<1>2. work.at \in Folders => work.pc \in {"idle", "next"}
  BY <1>t DEF WorkOK, RestType, Digested
<1>3. ASSUME work.at \in Folders PROVE work.renames = {} /\ work.rename = None
  BY <1>2, <1>3, <1>t DEF WorkOK
<1>4. \A f \in Folders : Every(f) = {} /\ Due(f) = {}
  BY <1>1, <1>3 DEF Every
<1>5. Lone
  BY <1>4 DEF Lone
<1>6. Pictured
  BY <1>2, <1>t DEF Pictured, WorkOK
<1>7. \A s, u : ~Waits(s, u)
  BY <1>4 DEF Waits
<1>. QED BY <1>2, <1>4, <1>5, <1>6, <1>7

\* When every link is given up, nothing is promised.
LEMMA AllSettles == All => FInv
BY DEF All, FInv, Lone, Pictured, Follows

\* At startup a link means what it leads to.
LEMMA InitF == Init /\ Typed => FInv
<1> SUFFICES ASSUME Init, Typed PROVE FInv
  OBVIOUS
<1>1. Digested
  BY DEF Init, Digested, FolderDocs
<1>2. Lone /\ Pictured
  BY <1>1, DigestedIs
<1>3. Follows
  BY DEF Init, Follows
<1>. QED BY <1>2, <1>3 DEF FInv

\* The tree and the picture of it are the same.
LEMMA PicturedSame ==
  ASSUME Pictured, UNCHANGED <<place, adrift>>,
         work'.pc = work.pc, work'.at = work.at, work'.todo = work.todo,
         work'.entries = work.entries, work'.renames = work.renames, work'.rename = work.rename
  PROVE  Pictured'
<1>1. FolderDocs' = FolderDocs /\ (\A f : EntriesOf(f)' = EntriesOf(f))
  BY SameTree
<1>2. {EntriesOf(f)' : f \in FolderDocs' \ work'.todo} = {EntriesOf(f) : f \in FolderDocs \ work.todo}
  BY <1>1
<1>3. UNION {EntriesOf(f)' : f \in FolderDocs' \ work'.todo}
        = UNION {EntriesOf(f) : f \in FolderDocs \ work.todo}
  BY <1>2
<1>4. (UNION {EntriesOf(f) : f \in FolderDocs \ work.todo})'
        = UNION {EntriesOf(f) : f \in FolderDocs \ work.todo}
  BY <1>3
<1>. QED BY <1>1, <1>4 DEF Pictured, All

\* Steps that change nothing of links, tree and worker keep every promise.
LEMMA NothingF ==
  ASSUME Typed, FInv, UNCHANGED <<place, link, backlinks, cache, work, meant, adrift>>,
         \A f \in Folders : \A s \in Docs :
            Unlooked(f) /\ s \notin pending /\ pending \cap Folders = {f} /\ move.pc # "queue"
              => Unlooked(f)' /\ pending' \cap Folders = {f} /\ move'.pc # "queue",
         \A s \in Docs : s \in pending' => s \in pending
  PROVE  FInv'
<1>1. \A f \in Folders : Due(f)' = Due(f) /\ Every(f)' = Every(f)
  BY EverySame
<1>2. /\ FolderDocs' = FolderDocs /\ (\A f : EntriesOf(f)' = EntriesOf(f)) /\ (\A x : Free(x)' = Free(x))
      /\ \A u : Target(u)' = Target(u)
  BY SameTree
<1>3. Lone'
  BY <1>1, <1>2 DEF FInv, Lone, All
<1>4. Pictured'
  BY PicturedSame DEF FInv
<1>5. ASSUME NEW s \in Docs, NEW u, Waits(s, u) PROVE Waits(s, u)'
  <2>1. PICK f \in Folders : \E r \in Every(f) : Waiting(s, u, f, r)
    BY <1>5 DEF Waits
  <2>2. PICK r \in Every(f) : Waiting(s, u, f, r)
    BY <2>1
  <2>3. Waiting(s, u, f, r)'
    BY <2>2, <1>1 DEF Waiting
  <2>. QED BY <2>3, <1>1 DEF Waits
<1>6. Follows'
  BY <1>2, <1>5 DEF FInv, Follows, Tracked
<1>. QED BY <1>3, <1>4, <1>6 DEF FInv

\* The same, where the worker goes on with no rename in its hands.
LEMMA NoRenamesF ==
  ASSUME Typed, FInv, UNCHANGED <<place, link, cache, meant, adrift>>, NoRenames, NoRenames',
         work'.pc \notin {"renames", "rewrite"}, work'.pc = "scan" => work'.at \notin Folders,
         \A f \in FolderDocs : \A u, s \in Docs :
            Unlooked(f) /\ s \notin pending /\ pending \cap Folders = {f} /\ move.pc # "queue"
              /\ <<u, s>> \in backlinks[f]
            => Unlooked(f)' /\ pending' \cap Folders = {f} /\ move'.pc # "queue"
              /\ <<u, s>> \in backlinks'[f],
         \A s \in Docs : s \in pending' => s \in pending
  PROVE  FInv'
<1>1. \A f \in Folders : Due(f)' = Due(f) /\ Every(f)' = Every(f) /\ Every(f) = Due(f)
  BY EverySame, EveryIsDue
<1>2. (\A x : Free(x)' = Free(x)) /\ \A u : Target(u)' = Target(u)
  BY SameTree
<1>3. Lone'
  BY <1>1, <1>2 DEF FInv, Lone, All
<1>4. Pictured'
  BY DEF Pictured
<1>5. ASSUME NEW s \in Docs, NEW u, Waits(s, u) PROVE Waits(s, u)'
  <2>1. PICK f \in Folders : \E r \in Every(f) : Waiting(s, u, f, r)
    BY <1>5 DEF Waits
  <2>2. PICK r \in Every(f) : Waiting(s, u, f, r)
    BY <2>1
  <2>3. r \in Due(f) /\ r \notin work.renames /\ r # work.rename /\ f \in FolderDocs /\ r.id \in Docs
    BY <1>1, DueIs, Basics DEF NoRenames
  <2>4. Waiting(s, u, f, r)'
    BY <2>2, <2>3, <1>1 DEF Waiting
  <2>. QED BY <2>4, <1>1 DEF Waits
<1>6. Follows'
  BY <1>2, <1>5 DEF FInv, Follows, Tracked
<1>. QED BY <1>3, <1>4, <1>6 DEF FInv

\* One document goes to another place while all is digested: what folders
\* have yet to learn is at most its rename, and its old name is free.
LEMMA LoneAfter ==
  ASSUME Typed, Typed', Digested, NEW u \in Docs, NEW x \in Places \cup {None},
         place'[u] = x, \A d \in Docs \ {u} : place'[d] = place[d] \/ place'[d] = None,
         UNCHANGED <<cache, work>>
  PROVE  /\ Lone' /\ Pictured'
         /\ \A s, v : Waits(s, v)' => \E f \in Folders : \E r \in Due(f)' : Waiting(s, v, f, r)'
<1>t. RestType /\ WorkOK /\ Injective /\ RestType' /\ Injective'
  BY TypedParts, PTL
<1>1. /\ work.at \in Folders => work.pc \in {"idle", "next"}
      /\ work.at \in Folders => NoRenames
  BY DigestedIs, <1>t DEF WorkOK, NoRenames
<1>2. \A f \in Folders : Every(f)' = Due(f)'
  BY <1>1 DEF Every, NoRenames
<1>d. \A f \in Folders : \A r \in Due(f)' :
    /\ r \in Renames /\ r.id \in Docs /\ cache'[f] # None
    /\ r.old = cache'[f][r.id] /\ r.new = Snapshot(f)'[r.id]
    /\ r.old # None /\ r.new # None /\ r.old # r.new
    /\ place'[r.id] = <<f, r.new>> /\ f \in FolderDocs'
  <2>1. (Typed => \A f \in Folders : \A r \in Due(f) :
    /\ r \in Renames /\ r.id \in Docs /\ cache[f] # None
    /\ r.old = cache[f][r.id] /\ r.new = Snapshot(f)[r.id]
    /\ r.old # None /\ r.new # None /\ r.old # r.new
    /\ place[r.id] = <<f, r.new>> /\ f \in FolderDocs)'
    BY DueIs, PTL
  <2>. QED BY <2>1
<1>3. ASSUME NEW f \in Folders, NEW d \in Docs, d # u, place'[d] # None, place'[d][1] = f
      PROVE  place[d] = place'[d] /\ cache[f] = Snapshot(f) /\ Snapshot(f)[d] = place[d][2]
  <2>1. place[d] = place'[d] /\ d \in FilesOf(f)
    BY <1>3 DEF FilesOf
  <2>2. f \in FolderDocs
    BY <2>1 DEF FolderDocs, IsFolderDoc
  <2>. QED BY <2>1, <2>2 DEF Digested, Snapshot
<1>4. ASSUME NEW f \in Folders, NEW r \in Due(f)'
      PROVE  r.id = u /\ x = <<f, r.new>> /\ r.old = cache[f][u] /\ r \in Renames
  <2>1. CASE r.id # u
    <3>1. place'[r.id] # None /\ place'[r.id][1] = f
      <4>1. r.new \in Names
        BY <1>d, <1>4 DEF Renames
      <4>2. <<f, r.new>> \in Places /\ <<f, r.new>>[1] = f
        BY <4>1, <1>4, PlaceIs
      <4>. QED BY <4>2, <1>d, <1>4, Basics
    <3>2. r.old = place'[r.id][2]
      BY <1>3, <1>d, <1>4, <2>1, <3>1
    <3>. QED BY <3>2, <1>d, <1>4
  <2>2. CASE r.id = u
    BY <1>d, <1>4, <2>2
  <2>. QED BY <2>1, <2>2
<1>5. ASSUME NEW f \in Folders, NEW r \in Due(f)' PROVE Free(<<f, r.old>>)'
  <2> SUFFICES ASSUME NEW d \in Docs, place'[d] = <<f, r.old>> PROVE FALSE
    BY DEF Free
  <2>1. r.old \in Names /\ r.old # r.new /\ <<f, r.old>> \in Places
    BY <1>d, <1>5, PlaceIs DEF Renames
  <2>2. d # u
    BY <1>4, <1>5, <2>1
  <2>3. place'[d] # None /\ place'[d][1] = f
    BY <2>1, Basics
  <2>4. place[d] = place'[d] /\ cache[f] = Snapshot(f)
    BY <1>3, <2>2, <2>3
  <2>5. Snapshot(f)[u] = r.old /\ r.old # None
    BY <1>4, <1>5, <2>4, <1>d
  <2>6. u \in FilesOf(f) /\ place[u][2] = r.old
    BY <2>5 DEF Snapshot
  <2>7. place[u] = <<f, r.old>>
    BY <2>6, <1>t, PlaceIs DEF FilesOf, RestType, PlaceType
  <2>. QED BY <2>2, <2>3, <2>4, <2>7, <1>t DEF Injective
<1>6. Lone'
  <2>1. \A r, q \in Renames : r.id = q.id /\ r.old = q.old /\ r.new = q.new => r = q
    BY DEF Renames
  <2>2. ASSUME NEW f \in Folders, NEW g \in Folders, NEW r \in Every(f)', NEW q \in Every(g)'
        PROVE  f = g /\ r = q /\ Free(<<f, r.old>>)' /\ place'[r.id] = <<f, r.new>>
    <3>1. r \in Due(f)' /\ q \in Due(g)'
      BY <1>2, <2>2
    <3>2. f = g /\ r.new = q.new
      BY <1>4, <3>1
    <3>3. r = q
      BY <1>4, <2>1, <3>1, <3>2
    <3>. QED BY <1>5, <1>d, <3>1, <3>2, <3>3
  <2>. QED BY <2>2 DEF Lone
<1>7. Pictured'
  <2>1. work'.at \in Folders => work'.pc \in {"idle", "next"}
    BY <1>1
  <2>2. WorkOK'
    BY TypedParts, PTL
  <2>. QED BY <2>1, <2>2 DEF Pictured, WorkOK
<1>8. ASSUME NEW s, NEW v, Waits(s, v)'
      PROVE  \E f \in Folders : \E r \in Due(f)' : Waiting(s, v, f, r)'
  <2>1. PICK f \in Folders : \E r \in Every(f)' : Waiting(s, v, f, r)'
    BY <1>8 DEF Waits
  <2>. QED BY <2>1, <1>2
<1>. QED BY <1>6, <1>7, <1>8

\* A link finds the one document that is where it leads.
LEMMA LeadsFinds ==
  Typed => \A u, v \in Docs :
    link[u] # None /\ place[v] # None /\ place[v] = Leads(link[u], place[u]) => Target(u) = v
BY FindsIt DEF Target, Typed, TypeOK, PlaceType

\* After a step: a link finds the one document that is where it leads.
LEMMA FindsNext ==
  ASSUME Typed'
  PROVE  \A u, v \in Docs :
    link'[u] # None /\ place'[v] # None /\ place'[v] = Leads(link'[u], place'[u]) => Target(u)' = v
<1>1. (Typed => \A u, v \in Docs :
        link[u] # None /\ place[v] # None /\ place[v] = Leads(link[u], place[u]) => Target(u) = v)'
  BY LeadsFinds, PTL
<1>. QED BY <1>1

\* A link whose document stays in its folder, and whose target stays where it
\* is, leads there still.
LEMMA StillFinds ==
  ASSUME Typed, Typed', NEW s \in Docs, NEW v \in Docs, Target(s) = v, link'[s] = link[s],
         place[s] # None, place'[s] # None, place[v] # None,
         place'[s][1] = place[s][1], place'[v] = place[v]
  PROVE  Target(s)' = v
<1>t. RestType /\ RestType' /\ Injective'
  BY TypedParts, PTL
<1>1. link[s] # None /\ place[v] = Leads(link[s], place[s])
  BY <1>t, FindsIs, Basics DEF Target, RestType
<1>2. place[s] \in Places /\ place'[s] \in Places
  BY <1>t DEF RestType, PlaceType
<1>3. Leads(link[s], place'[s]) = Leads(link[s], place[s])
  BY <1>2, LeadsFolder
<1>4. Target(s)' = v
  BY <1>t, <1>1, <1>3, FindsNext DEF RestType
<1>. QED BY <1>4

\* A client renames, lists or takes off a file.
LEMMA PlacesF ==
  ASSUME Typed, Typed', FInv, NEW u \in Docs, NEW x \in Places \cup {None}, ClientPlaces(u, x)
  PROVE  FInv'
<1>t. RestType /\ Injective /\ RestType'
  BY TypedParts, PTL
<1> DEFINE touched == {y[1] : y \in {place[u], x} \ {None}}
<1>1. /\ place[u] # x /\ place' = [place EXCEPT ![u] = x]
      /\ pending' = pending \cup touched /\ fresh' = fresh \ touched
      /\ adrift' = adrift \cup
           IF ~Digested \/ move.pc # "idle" THEN Docs
           ELSE IF Cardinality(touched) = 1 /\ place[u] # None /\ x # None
             THEN {s \in Linking(u) : ~Kept(s, u)} ELSE {u} \cup Linking(u)
      /\ UNCHANGED <<link, loaded, backlinks, cache, work, move, meant>>
  BY Zenon DEF ClientPlaces, Raise
<1>2. CASE ~Digested \/ move.pc # "idle"
  <2>1. All'
    BY <1>1, <1>2, <1>t DEF All, RestType
  <2>. QED BY <2>1, AllSettles, PTL
<1>3. CASE Digested /\ move.pc = "idle"
  <2>1. /\ place'[u] = x /\ \A d \in Docs \ {u} : place'[d] = place[d]
    BY <1>1, <1>t DEF RestType, PlaceType
  <2>2. Lone' /\ Pictured'
    BY <1>1, <1>3, <2>1, LoneAfter
  <2> SUFFICES ASSUME NEW s \in Docs \ adrift', Tracked(s)'
               PROVE  Target(s)' = meant'[s] \/ Waits(s, meant[s])'
    BY <1>1, <2>2 DEF FInv, Follows
  <2> DEFINE m == meant[s]
  <2>3. s \notin adrift /\ m \in Docs /\ place'[s] # None /\ place'[m] # None
    BY <1>1, <1>t, Basics DEF Tracked, RestType
  <2>4. Tracked(s) => Target(s) = m
    BY <1>3, <2>3, DigestedIs DEF FInv, Follows
  <2>5. CASE Cardinality(touched) = 1 /\ place[u] # None /\ x # None
    <3>1. place[u] \in Places /\ x \in Places
      BY <2>5, <1>t DEF RestType, PlaceType
    <3>2. touched = {place[u][1], x[1]}
      BY <2>5
    <3>3. place[u][1] = x[1]
      <4>1. IsFiniteSet({place[u][1], x[1]})
        <5>1. IsFiniteSet({place[u][1]})
          BY FS_Singleton
        <5>2. IsFiniteSet({place[u][1]} \cup {x[1]})
          BY <5>1, FS_AddElement
        <5>3. {place[u][1]} \cup {x[1]} = {place[u][1], x[1]}
          OBVIOUS
        <5>. QED BY <5>2, <5>3
      <4>2. PICK y : touched = {y}
        <5> HIDE DEF touched
        <5>. QED BY <2>5, <3>2, <4>1, FS_Singleton
      <4>. QED BY <3>2, <4>2
    <3>4. PICK f \in Folders, n \in Names, o \in Names :
            place[u] = <<f, o>> /\ x = <<f, n>> /\ o # n /\ touched = {f}
      <4>1. place[u][1] \in Folders /\ x[2] \in Names /\ place[u][2] \in Names
            /\ place[u] = <<place[u][1], place[u][2]>> /\ x = <<place[u][1], x[2]>>
        BY <3>1, <3>3, PlaceIs
      <4>2. place[u][2] # x[2]
        BY <4>1, <1>1
      <4>3. touched = {place[u][1]}
        BY <3>2, <3>3
      <4>. QED BY <4>1, <4>2, <4>3
    <3>5. \A d \in Docs : place'[d] # None => place[d] # None /\ place'[d][1] = place[d][1]
      BY <2>1, <2>5, <3>3
    <3>6. Target(s) = m /\ place[s] # None /\ place[m] # None
      BY <1>1, <2>3, <2>4, <3>5, Basics DEF Tracked
    <3>7. CASE m # u
      BY <1>1, <2>1, <2>3, <3>5, <3>6, <3>7, StillFinds
    <3>8. CASE m = u
      <4>1. Kept(s, u)
        BY <1>1, <1>3, <2>5, <3>8 DEF Linking
      <4>2. s \notin pending /\ <<u, s>> \in backlinks[f]
        BY <4>1, <3>4 DEF Kept, SourcesOf
      <4> DEFINE r == [id |-> u, old |-> o, new |-> n]
      <4>3. r \in Due(f)'
        <5>1. u \in FilesOf(f) /\ u \in FilesOf(f)'
          BY <3>1, <3>4, <2>1, <2>5 DEF FilesOf
        <5>2. f \in FolderDocs /\ Snapshot(f)[u] = o /\ Snapshot(f)'[u] = n
          BY <5>1, <3>4, <2>1 DEF FolderDocs, IsFolderDoc, Snapshot
        <5>3. cache[f] = Snapshot(f)
          BY <5>2, <1>3 DEF Digested
        <5>4. cache[f] # None
          BY <5>3, <1>t, SnapshotTyped, Basics DEF RestType
        <5>. QED BY <5>2, <5>3, <5>4, <1>1, <3>4, Basics DEF Due, RenamesOf
      <4>4. Leads(link[s], place'[s]) = <<f, o>> /\ link[s] # None
        <5>1. link[s] # None /\ place[u] = Leads(link[s], place[s])
          BY <3>6, <3>8, <1>t, FindsIs, Basics DEF Target, RestType
        <5>2. place[s] \in Places /\ place'[s] \in Places /\ place'[s][1] = place[s][1]
          BY <2>3, <3>5, <3>6, <1>t DEF RestType, PlaceType
        <5>3. Leads(link[s], place'[s]) = Leads(link[s], place[s])
          BY <5>2, LeadsFolder
        <5>. QED BY <5>1, <5>3, <3>4
      <4>5. pending' \cap Folders = {f} /\ f \notin fresh' /\ f \in pending' /\ s \notin pending'
        BY <1>1, <1>3, <3>4, <4>2, Basics DEF Digested
      <4>6. Waiting(s, u, f, r)'
        BY <1>1, <1>3, <2>1, <3>4, <4>2, <4>3, <4>4, <4>5 DEF Waiting, Unlooked
      <4>7. r \in Every(f)'
        BY <4>3 DEF Every
      <4>. QED BY <1>1, <4>6, <4>7, <3>8 DEF Waits
    <3>. QED BY <3>7, <3>8
  <2>6. CASE ~(Cardinality(touched) = 1 /\ place[u] # None /\ x # None)
    <3>1. s # u /\ m # u
      BY <1>1, <1>3, <2>3, <2>6 DEF Linking
    <3>2. place'[s] = place[s] /\ place'[m] = place[m]
      BY <2>1, <2>3, <3>1
    <3>3. Target(s) = m
      BY <1>1, <2>3, <2>4, <3>2, Basics DEF Tracked
    <3>. QED BY <1>1, <2>3, <3>2, <3>3, StillFinds
  <2>. QED BY <2>5, <2>6
<1>. QED BY <1>2, <1>3

\* An author writes: while all is digested the link is known from then on.
LEMMA WritesLinkF ==
  ASSUME Typed, Typed', FInv, NEW u \in Docs, NEW l \in Links \cup {None}, ClientWrites(u, l)
  PROVE  /\ FInv'
         /\ \A s \in Docs \ adrift' : link'[s] # link[s] => Target(s)' = meant'[s]
<1>t. RestType /\ Injective /\ RestType'
  BY TypedParts, PTL
<1>1. /\ UNCHANGED <<place, backlinks, cache, work, move>>
      /\ link' = [link EXCEPT ![u] = l]
      /\ meant' = [meant EXCEPT ![u] = Finds(l, u)]
      /\ adrift' = IF Digested THEN adrift \ {u} ELSE adrift \cup {u}
      /\ pending' = pending \cup {u} /\ fresh' = fresh \ {u}
  BY DEF ClientWrites, Raise
<1>2. /\ FolderDocs' = FolderDocs /\ (\A f : Snapshot(f)' = Snapshot(f)) /\ (\A x : Free(x)' = Free(x))
      /\ \A k, v : Finds(k, v)' = Finds(k, v)
  BY <1>1, SameTree
<1>3. \A s \in Docs \ {u} : link'[s] = link[s] /\ meant'[s] = meant[s] /\ Target(s)' = Target(s)
  BY <1>1, <1>2, <1>t, SameTree DEF RestType
<1>4. \A f \in Folders : Due(f)' = Due(f) /\ Every(f)' = Every(f)
  BY <1>1, EverySame
<1>5. CASE Digested
  <2>1. Digested'
    BY <1>1, <1>2, <1>5, Basics DEF Digested
  <2>2. Lone' /\ Pictured'
    BY <2>1, DigestedIs, PTL
  <2>3. Target(u)' = meant'[u]
    <3>1. Target(u)' = Finds(l, u)
      BY <1>1, <1>2, <1>t DEF Target, RestType
    <3>. QED BY <3>1, <1>1, <1>t DEF RestType
  <2>4. \A s \in Docs \ {u} : s \notin adrift' => s \notin adrift
    BY <1>1, <1>5
  <2>5. Follows'
    <3> SUFFICES ASSUME NEW s \in Docs \ adrift', Tracked(s)'
                 PROVE  Target(s)' = meant'[s]
      BY DEF Follows
    <3>1. CASE s = u
      BY <2>3, <3>1
    <3>2. CASE s # u
      <4>1. s \notin adrift /\ Tracked(s)
        BY <1>1, <1>3, <2>4, <3>2 DEF Tracked
      <4>2. Target(s) = meant[s]
        BY <1>5, <4>1, DigestedIs DEF FInv, Follows
      <4>. QED BY <1>3, <3>2, <4>2
    <3>. QED BY <3>1, <3>2
  <2>6. \A s \in Docs \ adrift' : link'[s] # link[s] => Target(s)' = meant'[s]
    BY <1>3, <2>3
  <2>. QED BY <2>2, <2>5, <2>6 DEF FInv
<1>6. CASE ~Digested
  <2>1. adrift' = adrift \cup {u}
    BY <1>1, <1>6
  <2>2. CASE All'
    <3>1. FInv'
      BY <2>2, AllSettles, PTL
    <3>2. \A s \in Docs \ adrift' : FALSE
      BY <2>2 DEF All
    <3>. QED BY <3>1, <3>2
  <2>3. CASE ~All'
    <3>1. ~All
      BY <2>1, <2>3 DEF All
    <3>2. Lone'
      BY <1>1, <1>2, <1>4, <3>1 DEF FInv, Lone
    <3>3. Pictured'
      <4>1. {EntriesOf(f)' : f \in FolderDocs \ work.todo} = {EntriesOf(f) : f \in FolderDocs \ work.todo}
        BY <1>1, SameTree
      <4>2. (UNION {EntriesOf(f) : f \in FolderDocs \ work.todo})'
              = UNION {EntriesOf(f) : f \in FolderDocs \ work.todo}
        BY <4>1, <1>1, <1>2
      <4>. QED BY <1>1, <1>2, <3>1, <4>2 DEF FInv, Pictured
    <3>4. ASSUME NEW s \in Docs \ {u}, NEW v, Waits(s, v) PROVE Waits(s, v)'
      <4>1. PICK f \in Folders : \E r \in Every(f) : Waiting(s, v, f, r)
        BY <3>4 DEF Waits
      <4>2. PICK r \in Every(f) : Waiting(s, v, f, r)
        BY <4>1
      <4>3. Unlooked(f) => Unlooked(f)'
        BY <1>1, Basics DEF Unlooked
      <4>4. Waiting(s, v, f, r)'
        BY <1>1, <1>3, <1>4, <4>2, <4>3, Basics DEF Waiting
      <4>. QED BY <4>4, <1>4 DEF Waits
    <3>5. Follows'
      <4> SUFFICES ASSUME NEW s \in Docs \ adrift', Tracked(s)'
                   PROVE  Target(s)' = meant'[s] \/ Waits(s, meant[s])'
        BY DEF Follows
      <4>1. s # u /\ s \notin adrift
        BY <2>1
      <4>2. Tracked(s)
        BY <1>1, <1>3, <4>1 DEF Tracked
      <4>3. Target(s) = meant[s] \/ Waits(s, meant[s])
        BY <4>1, <4>2 DEF FInv, Follows
      <4>4. CASE Target(s) = meant[s]
        BY <1>3, <4>1, <4>4
      <4>5. CASE Waits(s, meant[s])
        <5>1. \A v : v = meant[s] => Waits(s, v)'
          BY <3>4, <4>1, <4>5
        <5>. QED BY <5>1, <1>3, <4>1
      <4>. QED BY <4>3, <4>4, <4>5
    <3>6. \A s \in Docs \ adrift' : link'[s] = link[s]
      BY <1>3, <2>1
    <3>. QED BY <3>2, <3>3, <3>5, <3>6 DEF FInv
  <2>. QED BY <2>2, <2>3
<1>. QED BY <1>5, <1>6

\* A move takes the links along, where it has the right documents in hand.
LEMMA MoveAppliesF ==
  ASSUME Typed, Typed', FInv, MoveApplies
  PROVE  /\ FInv'
         /\ \A s \in Docs \ adrift' : Tracked(s)' => Target(s)' = meant'[s]
<1>t. RestType /\ MoveOK /\ Injective /\ RestType' /\ Injective'
  BY TypedParts, PTL
<1> DEFINE u == move.id
<1> DEFINE old == place[u]
<1> DEFINE new == move.to
<1> DEFINE held == Held(move.needed)
<1> DEFINE entries == {e \in AllEntries : e.id # u} \cup {[id |-> u, at |-> old]}
<1> DEFINE linkers == (UNION {SourcesOf(f, u) : f \in Folders}) \cap DOMAIN held
<1> DEFINE Inward(l, from) == IF l # None /\ from # None /\ Leads(l, from) = old
                              THEN Relative(from, new) ELSE l
<1> DEFINE first == [d \in Docs |->
                 IF \E s \in linkers : held[s] = d
                 THEN Inward(link[d], PathIn(entries, CHOOSE s \in linkers : held[s] = d))
                 ELSE link[d]]
<1> DEFINE Outward(l) == IF l # None /\ Resolve(l, old, entries) # None
                         THEN Relative(new, Leads(l, old)) ELSE l
<1> DEFINE texts == IF u \in DOMAIN held THEN [first EXCEPT ![held[u]] = Outward(@)] ELSE first
<1> DEFINE misheld == {held[s] : s \in {x \in DOMAIN held : held[x] # x}}
<1>a. /\ place' = [d \in Docs |-> IF d = u THEN new ELSE IF place[d] = new THEN None ELSE place[d]]
      /\ link' = texts
      /\ adrift' = adrift \cup IF ~Digested THEN Docs
                              ELSE {s \in Linking(u) : s \notin linkers \/ held[s] # s}
                                   \cup {s \in {u} : s \notin DOMAIN held \/ held[s] # s}
                                   \cup misheld
      /\ UNCHANGED <<cache, meant, work>>
      /\ move.pc = "apply" /\ InSource
  BY Zenon DEF MoveApplies, workVars
<1>1. u \in Docs /\ new \in Places /\ old \in Places /\ new # None /\ old # None
  <2>1. u \in Docs /\ new \in Places /\ old # None
    BY <1>a, <1>t DEF MoveOK, InSource
  <2>2. old \in Places
    BY <2>1, <1>t DEF RestType, PlaceType
  <2>. QED BY <2>1, <2>2, Basics
<1>2. CASE ~Digested
  <2>1. All'
    BY <1>a, <1>2, <1>t DEF All, RestType
  <2>2. FInv'
    BY <2>1, AllSettles, PTL
  <2>3. \A s \in Docs \ adrift' : FALSE
    BY <2>1 DEF All
  <2>. QED BY <2>2, <2>3
<1>3. CASE Digested
  <2>1. place'[u] = new /\ \A d \in Docs \ {u} : place'[d] = place[d] \/ place'[d] = None
    BY <1>a, <1>1
  <2>2. Lone' /\ Pictured'
    BY <1>a, <1>1, <1>3, <2>1, LoneAfter
  <2>3. entries = AllEntries
    <3>1. [id |-> u, at |-> old] \in AllEntries
      BY <1>1, <1>t, AllEntriesAre DEF RestType
    <3>2. \A e \in AllEntries : e.id = u => e = [id |-> u, at |-> old]
      BY <1>t, AllEntriesAre DEF RestType, Entries
    <3>. QED BY <3>1, <3>2
  <2>4. ASSUME NEW s \in Docs \ adrift', Tracked(s)' PROVE Target(s)' = meant'[s]
    <3> DEFINE m == meant[s]
    <3>1. s \notin adrift /\ m \in Docs /\ place'[s] # None /\ place'[m] # None
      BY <1>a, <2>4, <1>t, Basics DEF Tracked, RestType
    <3>2. place[s] # None /\ place[m] # None /\ (m # u => place'[m] = place[m]) /\ (s # u => place'[s] = place[s])
      BY <1>1, <2>1, <3>1
    <3>3. Target(s) = m
      BY <1>3, <3>1, <3>2, DigestedIs, Basics DEF FInv, Follows, Tracked
    <3>4. link[s] # None /\ link[s] \in Links /\ place[m] = Leads(link[s], place[s])
      BY <3>1, <3>3, <1>t, FindsIs, Basics DEF Target, RestType
    <3>5. place[s] \in Places /\ place'[s] \in Places /\ place[m] \in Places
      BY <3>1, <3>2, <1>t DEF RestType, PlaceType
    <3>6. /\ s \notin misheld
          /\ m = u => s \in linkers /\ held[s] = s
          /\ s = u => u \in DOMAIN held /\ held[u] = u
      <4> HIDE DEF misheld, linkers, held
      <4>. QED BY <1>a, <1>3 DEF Linking
    <3>7. \A y \in DOMAIN held : held[y] = s => y = s
      BY <3>6
    <3>8. m # u => place[m] # old
      BY <1>1, <3>1, <3>2, <1>t DEF Injective
    \* what the pass over the backlinkers makes of the link
    <3>9. first[s] = IF m = u THEN Relative(place[s], new) ELSE link[s]
      <4>1. PathIn(entries, s) = place[s]
        BY <2>3, <3>2, <1>t, AllEntriesAre DEF PathIn, RestType
      <4>2. Inward(link[s], place[s]) = IF m = u THEN Relative(place[s], new) ELSE link[s]
        BY <3>2, <3>4, <3>8
      <4>3. ASSUME \E y \in linkers : held[y] = s
            PROVE  (CHOOSE y \in linkers : held[y] = s) = s
        <5> HIDE DEF held
        <5>1. \A y \in linkers : y \in DOMAIN held
          OBVIOUS
        <5> HIDE DEF linkers
        <5>. QED BY <4>3, <5>1, <3>7
      <4>4. m = u => \E y \in linkers : held[y] = s
        BY <3>6
      <4> HIDE DEF linkers, held, entries, Inward
      <4>5. CASE \E y \in linkers : held[y] = s
        BY <4>1, <4>2, <4>3, <4>5
      <4>6. CASE ~ \E y \in linkers : held[y] = s
        BY <4>4, <4>6
      <4>. QED BY <4>5, <4>6
    <3>10. link'[s] = IF s = u THEN Outward(first[u]) ELSE first[s]
      <4>1. u \in DOMAIN held /\ held[u] = s => s = u
        BY <3>7
      <4> HIDE DEF held, first, Outward
      <4>2. DOMAIN first = Docs
        BY DEF first
      <4>. QED BY <1>a, <3>6, <4>1, <4>2
    <3> HIDE DEF first, linkers, held, misheld, Inward, texts
    <3>11. link'[s] # None /\ Leads(link'[s], place'[s]) = place'[m]
      <4>1. CASE s # u /\ m = u
        <5>1. link'[s] = Relative(place[s], new)
          BY <3>9, <3>10, <4>1
        <5>. QED BY <5>1, <4>1, <3>2, <3>5, <2>1, <1>1, RelativeLeads, RelativeTyped, Basics
      <4>2. CASE s # u /\ m # u
        BY <3>2, <3>4, <3>9, <3>10, <4>2
      <4>3. CASE s = u /\ m = u
        <5> DEFINE l == Relative(old, new)
        <5>1. first[u] = l /\ l \in Links /\ Leads(l, old) = new
          BY <3>9, <4>3, <1>1, RelativeLeads, RelativeTyped
        <5>2. CASE Resolve(l, old, entries) # None
          <6>1. link'[s] = Relative(new, new)
            BY <3>10, <4>3, <5>1, <5>2, Basics
          <6>. QED BY <6>1, <4>3, <2>1, <1>1, RelativeLeads, RelativeTyped, Basics
        <5>3. CASE Resolve(l, old, entries) = None
          <6>1. link'[s] = l
            BY <3>10, <4>3, <5>1, <5>3
          <6>2. Leads(l, new) = new
            BY <1>1, PlaceIs, Basics DEF Leads, Relative
          <6>. QED BY <6>1, <6>2, <4>3, <5>1, <2>1, Basics
        <5>. QED BY <5>2, <5>3
      <4>4. CASE s = u /\ m # u
        <5>1. first[u] = link[u] /\ Leads(link[u], old) = place[m]
          BY <3>4, <3>9, <4>4
        <5>2. Resolve(link[u], old, entries) = m
          BY <2>3, <3>3, <3>4, <4>4 DEF Target, Finds
        <5>3. link'[s] = Relative(new, place[m])
          BY <3>1, <3>4, <3>10, <4>4, <5>1, <5>2, Basics
        <5>. QED BY <5>3, <4>4, <3>2, <3>5, <2>1, <1>1, RelativeLeads, RelativeTyped, Basics
      <4>. QED BY <4>1, <4>2, <4>3, <4>4
    <3>. QED BY <1>a, <3>1, <3>11, FindsNext
  <2>. QED BY <2>2, <2>4 DEF FInv, Follows
<1>. QED BY <1>2, <1>3

\* No client takes a link from its document,
LEMMA ClientF ==
  ASSUME Typed, Typed', FInv, ClientStep
  PROVE  FInv'
<1>1. ASSUME NEW u \in Docs, NEW x \in Spots, ClientPlaces(u, x) PROVE FInv'
  <2>1. x \in Places \cup {None}
    BY LinkIndexerAssumption
  <2>. QED BY <2>1, <1>1, PlacesF
<1>2. ASSUME NEW u \in Docs, NEW l \in Written, ClientWrites(u, l) PROVE FInv'
  <2>1. l \in Links \cup {None}
    BY LinkIndexerAssumption
  <2>. QED BY <2>1, <1>2, WritesLinkF
<1>3. ASSUME NEW u \in Docs, Evicts(u) PROVE FInv'
  <2>1. UNCHANGED <<place, link, backlinks, cache, work, meant, adrift, pending, fresh, move>>
    BY <1>3 DEF Evicts, workVars, histVars
  <2>. QED BY <2>1, NothingF DEF Unlooked
<1>. QED BY <1>1, <1>2, <1>3 DEF ClientStep

\* and no move.
LEMMA MoveF ==
  ASSUME Typed, Typed', FInv, MoveStep
  PROVE  FInv'
<1>1. ASSUME NEW u \in Docs, NEW x \in Spots \cap Places, MoveBegins(u, x) PROVE FInv'
  <2>1. UNCHANGED <<place, link, backlinks, cache, work, meant, adrift, pending, fresh>>
        /\ move'.pc # "queue"
    BY <1>1 DEF MoveBegins, workVars, histVars
  <2>. QED BY <2>1, NothingF DEF Unlooked
<1>2. ASSUME MoveFails PROVE FInv'
  <2>1. UNCHANGED <<place, link, backlinks, cache, work, meant, adrift, pending, fresh>>
        /\ move'.pc # "queue"
    BY <1>2 DEF MoveFails, NoMove, treeVars, workVars, histVars
  <2>. QED BY <2>1, NothingF DEF Unlooked
<1>3. ASSUME MoveQueues PROVE FInv'
  <2>1. /\ UNCHANGED <<place, link, backlinks, cache, work, meant, adrift>>
        /\ pending' = pending \cup {move.from, move.to[1]} /\ move.pc = "queue"
    BY <1>3 DEF MoveQueues, Raise, treeVars, histVars
  <2>2. move.from \notin Docs /\ move.to[1] \notin Docs
    <3>1. RestType /\ MoveOK
      BY TypedParts
    <3>. QED BY <2>1, <3>1, PlaceIs, Basics DEF RestType, MoveOK
  <2>. QED BY <2>1, <2>2, NothingF
<1>. QED BY <1>1, <1>2, <1>3, MoveAppliesF DEF MoveStep

\* A look at a folder takes its one rename into the worker's hands.
LEMMA DetectsF ==
  ASSUME Typed, Typed', FInv, Detects
  PROVE  FInv'
<1>t. WorkType /\ RestType /\ WorkOK
  BY TypedParts
<1> DEFINE f == work.at
<1> DEFINE renames == IF cache[f] = None THEN {} ELSE RenamesOf(cache[f], Snapshot(f))
<1> DEFINE plain == cache[f] # None /\ renames = {} /\ cache[f] # Snapshot(f)
<1> DEFINE raised == IF plain THEN work.ids \cap loaded ELSE {}
<1>1. /\ work.pc = "detect"
      /\ cache' = [cache EXCEPT ![f] = Snapshot(f)]
      /\ pending' = pending \cup raised /\ fresh' = fresh \ raised
      /\ work' = [work EXCEPT !.pc = IF renames = {} THEN "ack" ELSE "scan", !.renames = renames,
                         !.todo = FolderDocs]
      /\ UNCHANGED <<place, link, loaded, backlinks, move, meant, adrift>>
  BY Zenon DEF Detects, Step, Raise, treeVars
<1>2. f \in Folders /\ raised \subseteq Docs /\ f \in pending
  BY <1>1, <1>t DEF WorkOK, WorkType, RestType
<1>3. work.renames = {} /\ work.rename = None /\ work.entries = {}
  BY <1>1, <1>t DEF WorkOK, WorkType
<1>4. renames = Due(f)
  BY DEF Due
<1>5. renames # {} => raised = {}
  OBVIOUS
<1> HIDE DEF f, renames, plain, raised
<1>6. /\ work'.at = f /\ work'.renames = Due(f) /\ work'.rename = None /\ work'.entries = {}
      /\ work'.todo = FolderDocs
      /\ work'.pc = IF renames = {} THEN "ack" ELSE "scan"
  BY <1>1, <1>3, <1>4, <1>t DEF WorkType, f
<1>7. /\ FolderDocs' = FolderDocs /\ (\A g : Snapshot(g)' = Snapshot(g)) /\ (\A x : Free(x)' = Free(x))
      /\ \A s : Target(s)' = Target(s)
  BY <1>1, SameTree
<1>8. \A g \in Folders : g # f => Due(g)' = Due(g)
  BY <1>1, <1>2, <1>7, <1>t DEF Due, RestType
<1>9. Due(f)' = {}
  <2>1. cache'[f] = Snapshot(f)
    BY <1>1, <1>2, <1>t DEF RestType
  <2>2. RenamesOf(Snapshot(f), Snapshot(f)) = {}
    BY DEF RenamesOf
  <2>3. \A g : g = f => Due(g)' = {}
    BY <1>7, <2>1, <2>2 DEF Due
  <2>. QED BY <2>3, <1>6 DEF f
<1>10. \A g \in Folders : Every(g)' = Every(g) /\ Every(g) = Due(g)
  <2>1. \A g \in Folders : Every(g) = Due(g)
    BY <1>3, EveryIsDue DEF NoRenames
  <2>2. ASSUME NEW g \in Folders PROVE Every(g)' = Due(g)
    <3>1. CASE g = f
      <4>1. Due(g)' = {}
        BY <1>9, <3>1, <1>6 DEF f
      <4>. QED BY <3>1, <4>1, <1>6 DEF Every
    <3>2. CASE g # f
      BY <3>2, <1>6, <1>8 DEF Every
    <3>. QED BY <3>1, <3>2
  <2>. QED BY <2>1, <2>2
<1>11. Lone'
  BY <1>1, <1>7, <1>10 DEF FInv, Lone, All
<1>12. Pictured'
  <2>1. work'.todo \subseteq FolderDocs' /\ FolderDocs' \ work'.todo = {}
    BY <1>6, <1>7
  <2>2. work'.entries = UNION {EntriesOf(g)' : g \in FolderDocs' \ work'.todo}
    BY <1>6, <2>1
  <2>3. work'.pc \in {"scan", "ack"}
    BY <1>6
  <2>. QED BY <2>1, <2>2, <2>3 DEF Pictured
<1>13. ASSUME NEW s \in Docs, NEW u, Waits(s, u) PROVE Waits(s, u)'
  <2>1. PICK g \in Folders : \E r \in Every(g) : Waiting(s, u, g, r)
    BY <1>13 DEF Waits
  <2>2. PICK r \in Every(g) : Waiting(s, u, g, r)
    BY <2>1
  <2>3. r \in Due(g) /\ r \notin work.renames /\ r # work.rename
    BY <1>3, <1>10, DueIs, Basics
  <2>4. s \notin pending /\ pending \cap Folders = {g} /\ <<u, s>> \in backlinks[g]
    BY <2>2, <2>3 DEF Waiting
  <2>5. g = f
    BY <1>2, <2>4
  <2>6. s \notin pending'
    BY <1>1, <1>4, <1>5, <2>3, <2>4, <2>5
  <2>7. Waiting(s, u, g, r)'
    BY <1>1, <1>6, <2>2, <2>3, <2>4, <2>5, <2>6 DEF Waiting
  <2>. QED BY <2>2, <2>7, <1>10 DEF Waits
<1>14. Follows'
  BY <1>1, <1>7, <1>13 DEF FInv, Follows, Tracked
<1>. QED BY <1>11, <1>12, <1>14 DEF FInv

\* The snapshot of the tree has every file, the renamed one where it was.
LEMMA ScansF ==
  ASSUME Typed, Typed', FInv, Scans
  PROVE  FInv'
<1>t. WorkType /\ RestType /\ WorkOK
  BY TypedParts
<1> DEFINE g == Min(work.todo)
<1> DEFINE entries == work.entries \cup EntriesOf(g)
<1> DEFINE w == IF work.todo \ {g} # {}
              THEN [work EXCEPT !.todo = work.todo \ {g}, !.entries = entries]
              ELSE IF work.at \in Docs
                THEN [work EXCEPT !.todo = work.seen, !.entries = entries, !.pc = "write"]
                ELSE [work EXCEPT !.todo = {}, !.entries = Patched(entries), !.pc = "renames"]
<1>1. /\ work.pc = "scan" /\ work' = w
      /\ UNCHANGED <<place, link, backlinks, cache, meant, adrift, pending, fresh, move>>
  BY Zenon DEF Scans, Only, Step, treeVars, histVars
<1>2. g \in work.todo /\ g \in Folders
  BY <1>1, <1>t, MinIs DEF WorkOK, WorkType
<1> HIDE DEF g, entries
<1>3. /\ work'.at = work.at /\ work'.renames = work.renames /\ work'.rename = work.rename
      /\ work'.sources = work.sources
      /\ work.at \in Docs => work'.pc \in {"scan", "write"}
      /\ work.at \notin Docs => work'.pc \in {"scan", "renames"}
      /\ work'.pc = "scan" => work'.todo = work.todo \ {g} /\ work'.entries = entries
      /\ work'.pc = "renames" => work.todo \ {g} = {} /\ work'.entries = Patched(entries)
  BY <1>1, <1>t DEF WorkType
<1> HIDE DEF w
<1>4. CASE work.at \in Docs
  <2>1. NoRenames /\ NoRenames'
    BY <1>1, <1>3, <1>4, <1>t, Basics DEF NoRenames, WorkOK
  <2>2. \A f \in Folders : Unlooked(f) => Unlooked(f)'
    BY <1>1, <1>3, <1>4, Basics DEF Unlooked
  <2>3. work'.pc \notin {"renames", "rewrite"} /\ (work'.pc = "scan" => work'.at \notin Folders)
    BY <1>3, <1>4, Basics
  <2>4. \A f \in FolderDocs : \A u, s \in Docs :
          Unlooked(f) /\ s \notin pending /\ pending \cap Folders = {f} /\ move.pc # "queue"
            /\ <<u, s>> \in backlinks[f]
          => Unlooked(f)' /\ pending' \cap Folders = {f} /\ move'.pc # "queue"
            /\ <<u, s>> \in backlinks'[f]
    BY <1>1, <2>2 DEF FolderDocs
  <2>. QED BY <1>1, <2>1, <2>3, <2>4, NoRenamesF
<1>5. CASE work.at \notin Docs
  <2>0. work.at \in Folders
    BY <1>5, <1>t, Basics DEF WorkType
  <2>1. \A f \in Folders : Due(f)' = Due(f) /\ Every(f)' = Every(f)
    BY <1>1, <1>3, EverySame
  <2>2. /\ FolderDocs' = FolderDocs /\ (\A f : EntriesOf(f)' = EntriesOf(f))
        /\ (\A x : Free(x)' = Free(x)) /\ \A u : Target(u)' = Target(u)
    BY <1>1, SameTree
  <2>3. Lone'
    BY <1>1, <2>1, <2>2 DEF FInv, Lone, All
  <2>4. ASSUME NEW s \in Docs, NEW u, Waits(s, u) PROVE Waits(s, u)'
    <3>1. PICK f \in Folders : \E r \in Every(f) : Waiting(s, u, f, r)
      BY <2>4 DEF Waits
    <3>2. PICK r \in Every(f) : Waiting(s, u, f, r)
      BY <3>1
    <3>3. Unlooked(f) => Unlooked(f)'
      BY <1>1, <1>3, <1>5 DEF Unlooked, Looked
    <3>4. Waiting(s, u, f, r)'
      BY <1>1, <1>3, <3>2, <3>3, <2>1 DEF Waiting
    <3>. QED BY <3>4, <2>1 DEF Waits
  <2>5. Follows'
    BY <1>1, <2>2, <2>4 DEF FInv, Follows, Tracked
  <2>6. CASE All
    BY <1>1, <2>3, <2>5, <2>6 DEF FInv, Pictured, All
  <2>7. CASE ~All
    <3>1. work.todo \subseteq FolderDocs
          /\ work.entries = UNION {EntriesOf(f) : f \in FolderDocs \ work.todo}
      BY <1>1, <2>0, <2>7 DEF FInv, Pictured
    <3>2. \A e : e \in entries <=> \E f \in FolderDocs \ (work.todo \ {g}) : e \in EntriesOf(f)
      <4>1. \A e : e \in work.entries <=> \E f \in FolderDocs \ work.todo : e \in EntriesOf(f)
        BY <3>1
      <4>2. \A f : f \in FolderDocs \ (work.todo \ {g}) <=> f \in FolderDocs \ work.todo \/ f = g
        BY <1>2, <3>1
      <4>. QED BY <4>1, <4>2 DEF entries
    <3>3. CASE work'.pc = "scan"
      <4>1. entries = UNION {EntriesOf(f)' : f \in FolderDocs' \ work'.todo}
        <5>1. \A e : e \in entries <=> \E f \in FolderDocs' \ work'.todo : e \in EntriesOf(f)'
          BY <1>3, <2>2, <3>2, <3>3
        <5>. QED BY <5>1
      <4>2. work'.todo \subseteq FolderDocs' /\ work'.entries = entries
        BY <1>3, <2>2, <3>1, <3>3
      <4>3. Pictured'
        BY <3>3, <4>1, <4>2 DEF Pictured
      <4>. QED BY <2>3, <2>5, <4>3 DEF FInv
    <3>4. CASE work'.pc = "renames"
      <4>1. \A e : e \in entries <=> \E f \in FolderDocs : e \in EntriesOf(f)
        BY <1>3, <3>2, <3>4
      <4>2. \A d \in Docs : place[d] # None => [id |-> d, at |-> place[d]] \in entries
        BY <4>1, <1>t, EntriesAre DEF RestType
      <4>3. \A e \in entries : e \in Entries /\ e.id \in Docs /\ place[e.id] # None /\ e.at = place[e.id]
        BY <4>1, <1>t, EntriesAre DEF RestType, FolderDocs
      <4>4. \A r, q \in work.renames : r.id = q.id => r = q
        <5>1. work.renames \subseteq Every(work.at)
          BY <2>0 DEF Every
        <5>. QED BY <5>1, <2>0, <2>7 DEF FInv, Lone
      <4>5. \A r \in work.renames : place[r.id] = <<work.at, r.new>> /\ r \in Renames
        BY <2>0, <2>7, <1>t DEF FInv, Lone, Every, WorkType
      <4> DEFINE Put(e) == IF \E r \in work.renames : r.id = e.id
          THEN [e EXCEPT !.at = <<work.at, (CHOOSE r \in work.renames : r.id = e.id).old>>] ELSE e
      <4>6. work'.entries = {Put(e) : e \in entries} /\ work'.rename = None
        <5>1. work.rename = None
          BY <1>1, <1>t DEF WorkOK
        <5>. QED BY <1>3, <3>4, <5>1 DEF Patched
      <4>7. ASSUME NEW e \in entries, NEW r \in work.renames, r.id = e.id
            PROVE  Put(e) = [e EXCEPT !.at = <<work.at, r.old>>]
        <5>1. (CHOOSE q \in work.renames : q.id = e.id) = r
          BY <4>4, <4>7
        <5>. QED BY <5>1, <4>7
      <4>8. ASSUME NEW e \in entries
            PROVE  Put(e).id = e.id /\ Put(e).at[1] = place[e.id][1]
        <5>1. CASE \E r \in work.renames : r.id = e.id
          <6>1. PICK r \in work.renames : r.id = e.id
            BY <5>1
          <6>2. Put(e) = [e EXCEPT !.at = <<work.at, r.old>>]
            BY <4>7, <6>1
          <6>3. place[e.id][1] = work.at
            BY <4>5, <6>1
          <6> HIDE DEF Put
          <6>. QED BY <6>2, <6>3, <4>3 DEF Entries
        <5>2. CASE ~ \E r \in work.renames : r.id = e.id
          BY <5>2, <4>3
        <5>. QED BY <5>1, <5>2
      <4>9. \A d \in Docs : place[d] # None => \E e \in work'.entries : e.id = d
        <5> SUFFICES ASSUME NEW d \in Docs, place[d] # None PROVE \E e \in work'.entries : e.id = d
          OBVIOUS
        <5> HIDE DEF Put
        <5>1. [id |-> d, at |-> place[d]] \in entries
          BY <4>2
        <5>2. Put([id |-> d, at |-> place[d]]).id = d
          BY <4>8, <5>1
        <5>. QED BY <4>6, <5>1, <5>2
      <4>10. \A e \in work'.entries : place[e.id] # None /\ e.at[1] = place[e.id][1]
        <5> HIDE DEF Put
        <5>. QED BY <4>3, <4>6, <4>8
      <4>11. \A r \in work.renames : \E e \in work'.entries : e.at = <<work.at, r.old>>
        <5> SUFFICES ASSUME NEW r \in work.renames
                     PROVE  \E e \in work'.entries : e.at = <<work.at, r.old>>
          OBVIOUS
        <5>1. r.id \in Docs /\ r.new \in Names
          BY <4>5 DEF Renames
        <5>2. place[r.id] # None
          BY <2>0, <4>5, <5>1, PlaceIs, Basics
        <5> DEFINE e == [id |-> r.id, at |-> place[r.id]]
        <5>3. e \in entries /\ e.id = r.id
          BY <4>2, <5>1, <5>2
        <5>4. Put(e) = [e EXCEPT !.at = <<work.at, r.old>>]
          BY <4>7, <5>3
        <5> HIDE DEF Put
        <5>5. Put(e).at = <<work.at, r.old>>
          BY <5>4
        <5>. QED BY <4>6, <5>3, <5>5
      <4>12. Pictured'
        <5>1. \A r \in work'.renames \cup ({work'.rename} \ {None}) :
                \E e \in work'.entries : e.at = <<work'.at, r.old>>
          BY <1>3, <4>6, <4>11
        <5>2. /\ \A d \in Docs : place'[d] # None => \E e \in work'.entries : e.id = d
              /\ \A e \in work'.entries : place'[e.id] # None /\ e.at[1] = place'[e.id][1]
          BY <1>1, <4>9, <4>10
        <5>. QED BY <3>4, <5>1, <5>2 DEF Pictured
      <4>. QED BY <2>3, <2>5, <4>12 DEF FInv
    <3>. QED BY <1>3, <1>5, <3>3, <3>4
  <2>. QED BY <2>6, <2>7
<1>. QED BY <1>4, <1>5

\* The backlinkers of the one rename are rewritten one by one.
LEMMA RenamesF ==
  ASSUME Typed, Typed', FInv,
         (\E r \in work.renames : TakesRename(r)) \/ RenamesDone \/ RewritesDone
  PROVE  FInv'
<1>t. WorkType /\ RestType /\ WorkOK
  BY TypedParts
<1>1. /\ UNCHANGED <<place, link, backlinks, cache, meant, adrift, pending, fresh, move>>
      /\ work.pc \in {"renames", "rewrite"} /\ work'.at = work.at
      /\ work'.pc \in {"renames", "rewrite", "ack"} /\ work'.entries = work.entries
  BY <1>t DEF TakesRename, RenamesDone, RewritesDone, Only, Step, WorkType, treeVars, histVars
<1> DEFINE Hand  == work.renames \cup ({work.rename} \ {None})
<1>2. /\ work.at \in Folders
      /\ Hand' \subseteq Hand
      /\ work'.pc = "ack" => Hand' = {}
      /\ \A r \in work.renames : r \in work'.renames \/
           (r = work'.rename /\ work'.sources = SourcesOf(work.at, r.id))
      /\ \A r \in Hand : r = work.rename => work.pc = "rewrite"
      /\ work.pc = "rewrite" => work.sources = {}
  <2>1. ASSUME NEW r \in work.renames, TakesRename(r)
        PROVE  /\ work'.pc = "rewrite" /\ work'.renames = work.renames \ {r} /\ work'.rename = r
               /\ work'.sources = SourcesOf(work.at, r.id) /\ work.pc = "renames"
    BY <2>1, <1>t DEF TakesRename, Only, Step, WorkType
  <2>2. ASSUME RenamesDone
        PROVE  /\ work'.pc = "ack" /\ work.renames = {} /\ work.pc = "renames"
               /\ work'.renames = work.renames /\ work'.rename = work.rename
    BY <2>2, <1>t DEF RenamesDone, Only, Step, WorkType
  <2>3. ASSUME RewritesDone
        PROVE  /\ work'.pc = "renames" /\ work'.renames = work.renames /\ work'.rename = None
               /\ work.pc = "rewrite" /\ work.sources = {}
    BY <2>3, <1>t DEF RewritesDone, Only, Step, WorkType
  <2>4. None \notin work.renames /\ (work.pc = "renames" => work.rename = None)
    BY <1>t, Basics DEF WorkType, WorkOK
  <2>5. work.at \in Folders
    BY <1>1, <1>t DEF WorkOK
  <2>. QED BY <2>1, <2>2, <2>3, <2>4, <2>5
<1> HIDE DEF Hand
<1>3. \A f \in Folders : Due(f)' = Due(f) /\ Every(f)' \subseteq Every(f)
  <2>1. \A f : Snapshot(f)' = Snapshot(f)
    BY <1>1, SameTree
  <2>2. \A f \in Folders : Due(f)' = Due(f)
    BY <1>1, <2>1 DEF Due
  <2>. QED BY <1>1, <1>2, <2>2 DEF Every, Hand
<1>4. (\A x : Free(x)' = Free(x)) /\ \A u : Target(u)' = Target(u)
  BY <1>1, SameTree
<1>5. Lone'
  BY <1>1, <1>3, <1>4 DEF FInv, Lone, All
<1>6. Pictured'
  <2>1. CASE All
    BY <1>1, <2>1 DEF Pictured, All
  <2>2. CASE ~All
    <3>1. /\ \A d \in Docs : place[d] # None => \E e \in work.entries : e.id = d
          /\ \A e \in work.entries : place[e.id] # None /\ e.at[1] = place[e.id][1]
          /\ \A r \in Hand : \E e \in work.entries : e.at = <<work.at, r.old>>
      BY <1>1, <2>2 DEF FInv, Pictured, Hand
    <3>2. \A r \in Hand' : \E e \in work.entries : e.at = <<work.at, r.old>>
      BY <1>2, <3>1
    <3>. QED BY <1>1, <3>1, <3>2 DEF Pictured, Hand
  <2>. QED BY <2>1, <2>2
<1>7. ASSUME NEW s \in Docs, NEW u, Waits(s, u) PROVE Waits(s, u)'
  <2>1. PICK f \in Folders : \E r \in Every(f) : Waiting(s, u, f, r)
    BY <1>7 DEF Waits
  <2>2. PICK r \in Every(f) : Waiting(s, u, f, r)
    BY <2>1
  <2>3. Unlooked(f) => Unlooked(f)'
    BY <1>1 DEF Unlooked, Looked
  <2>4. CASE /\ r \in Due(f) /\ Unlooked(f) /\ pending \cap Folders = {f} /\ move.pc # "queue"
             /\ <<u, s>> \in backlinks[f]
    <3>1. Waiting(s, u, f, r)'
      BY <1>1, <1>3, <2>2, <2>3, <2>4 DEF Waiting
    <3>2. r \in Every(f)'
      BY <1>3, <2>4 DEF Every
    <3>. QED BY <3>1, <3>2 DEF Waits
  <2>5. CASE work.at = f /\ r \in work.renames /\ <<u, s>> \in backlinks[f]
    <3>1. CASE r \in work'.renames
      <4>1. Waiting(s, u, f, r)'
        BY <1>1, <2>2, <2>5, <3>1 DEF Waiting
      <4>2. r \in Every(f)'
        BY <1>1, <2>5, <3>1 DEF Every
      <4>. QED BY <4>1, <4>2 DEF Waits
    <3>2. CASE r = work'.rename /\ work'.sources = SourcesOf(work.at, r.id)
      <4>1. s \in work'.sources
        BY <2>2, <2>5, <3>2 DEF SourcesOf, Waiting
      <4>2. Waiting(s, u, f, r)'
        BY <1>1, <2>2, <2>5, <3>2, <4>1 DEF Waiting
      <4>3. r \in Every(f)'
        <5>1. r # None
          BY <2>5, <1>t, Basics DEF WorkType
        <5>. QED BY <1>1, <2>5, <3>2, <5>1 DEF Every
      <4>. QED BY <4>2, <4>3 DEF Waits
    <3>. QED BY <1>2, <2>5, <3>1, <3>2
  <2>6. CASE work.at = f /\ r = work.rename /\ s \in work.sources
    <3>1. work.rename # None
      BY <2>6, EveryTyped, Basics
    <3>2. r \in Hand
      BY <2>6, <3>1 DEF Hand
    <3>. QED BY <1>2, <2>6, <3>2
  <2>. QED BY <2>2, <2>4, <2>5, <2>6 DEF Waiting
<1>8. Follows'
  BY <1>1, <1>4, <1>7 DEF FInv, Follows, Tracked
<1>. QED BY <1>5, <1>6, <1>8 DEF FInv

\* A backlinker's link is rewritten when it is the one that waits, and only then.
LEMMA RewritesF ==
  ASSUME Typed, Typed', FInv, NEW s \in Docs, Rewrites(s)
  PROVE  /\ FInv'
         /\ s \notin adrift' /\ Tracked(s)' => Target(s)' = meant'[s]
<1>t. WorkType /\ RestType /\ WorkOK
  BY TypedParts
<1> DEFINE q == work.rename
<1> DEFINE from == PathIn(work.entries, s)
<1>1. /\ UNCHANGED <<place, loaded, backlinks, cache, meant, pending, fresh, move>>
      /\ work.pc = "rewrite" /\ s \in work.sources
      /\ link' = IF s \in loaded THEN [link EXCEPT ![s] = Rewritten(link[s], from, q)] ELSE link
      /\ adrift' = IF s \in loaded THEN adrift ELSE adrift \cup {s}
      /\ work'.at = work.at /\ work'.pc = work.pc /\ work'.todo = work.todo
      /\ work'.renames = work.renames /\ work'.rename = work.rename /\ work'.entries = work.entries
      /\ work'.sources = work.sources \ {s}
  BY <1>t DEF Rewrites, Step, WorkType, RestType
<1>2. work.at \in Folders /\ q # None /\ q \in Renames /\ q \in Every(work.at)
  <2>1. work.at \in Folders /\ q # None /\ q \in Renames
    BY <1>1, <1>t DEF WorkOK, WorkType
  <2>. QED BY <2>1 DEF Every
<1>3. \A f \in Folders : Due(f)' = Due(f) /\ Every(f)' = Every(f)
  BY <1>1, EverySame
<1>4. (\A x : Free(x)' = Free(x)) /\ \A u : link'[u] = link[u] => Target(u)' = Target(u)
  BY <1>1, SameTree
<1>5. CASE All'
  <2>1. FInv'
    BY <1>5, AllSettles, PTL
  <2>. QED BY <1>5, <2>1 DEF All
<1>6. CASE ~All'
  <2>1. ~All
    BY <1>1, <1>6, <1>t DEF All, RestType
  <2>2. Lone'
    BY <1>3, <1>4, <1>1, <2>1 DEF FInv, Lone
  <2>3. /\ \A d \in Docs : place[d] # None => \E e \in work.entries : e.id = d
        /\ \A e \in work.entries : place[e.id] # None /\ e.at[1] = place[e.id][1]
        /\ \E e \in work.entries : e.at = <<work.at, q.old>>
    BY <1>1, <1>2, <2>1 DEF FInv, Pictured
  <2>4. Pictured'
    <3>1. /\ \A d \in Docs : place[d] # None => \E e \in work.entries : e.id = d
          /\ \A e \in work.entries : place[e.id] # None /\ e.at[1] = place[e.id][1]
          /\ \A r \in work.renames \cup ({work.rename} \ {None}) :
               \E e \in work.entries : e.at = <<work.at, r.old>>
      BY <1>1, <2>1 DEF FInv, Pictured
    <3>. QED BY <1>1, <3>1 DEF Pictured
  <2>5. /\ \A f \in Folders : \A r \in Every(f) : f = work.at /\ r = q
        /\ Free(<<work.at, q.old>>) /\ place[q.id] = <<work.at, q.new>>
    BY <1>2, <2>1 DEF FInv, Lone
  <2>6. ASSUME NEW t \in Docs, t # s, NEW u, Waits(t, u) PROVE Waits(t, u)'
    <3>1. PICK f \in Folders : \E r \in Every(f) : Waiting(t, u, f, r)
      BY <2>6 DEF Waits
    <3>2. PICK r \in Every(f) : Waiting(t, u, f, r)
      BY <3>1
    <3>3. link'[t] = link[t]
      BY <1>1, <2>6, <1>t DEF RestType
    <3>4. Unlooked(f)' <=> Unlooked(f)
      BY <1>1 DEF Unlooked
    <3>5. Waiting(t, u, f, r)'
      BY <1>1, <1>3, <2>6, <3>2, <3>3, <3>4 DEF Waiting
    <3>. QED BY <1>3, <3>5 DEF Waits
  <2>7. ASSUME s \notin adrift', Tracked(s)' PROVE Target(s)' = meant'[s]
    <3> DEFINE m == meant[s]
    <3>1. s \in loaded /\ s \notin adrift /\ Tracked(s)
      BY <1>1, <2>7 DEF Tracked
    <3>2. m \in Docs /\ place[s] # None /\ place[m] # None /\ place[s] \in Places /\ place[m] \in Places
      BY <3>1, <1>t DEF Tracked, RestType, PlaceType
    <3>3. from \in Places /\ from[1] = place[s][1]
      <4> DEFINE e == CHOOSE e \in work.entries : e.id = s
      <4>1. \E x \in work.entries : x.id = s
        BY <2>3, <3>2
      <4>2. e \in work.entries /\ e.id = s /\ from = e.at
        BY <4>1 DEF PathIn
      <4>3. e.at \in Places
        BY <4>2, <1>t DEF WorkType, Entries
      <4>. QED BY <4>2, <4>3, <2>3
    <3>4. Leads(link[s], from) = Leads(link[s], place[s])
      BY <3>2, <3>3, LeadsFolder
    <3>5. link'[s] = Rewritten(link[s], from, q)
      BY <1>1, <3>1, <1>t DEF RestType
    <3> HIDE DEF from, q
    <3>6. CASE Target(s) = m
      <4>1. place[m] = Leads(link[s], place[s])
        BY <3>2, <3>6, <1>t, FindsIs, Basics DEF Target, RestType
      <4>2. Leads(link[s], from) # <<work.at, q.old>>
        BY <2>5, <3>2, <3>4, <4>1 DEF Free
      <4>3. link'[s] = link[s]
        BY <3>5, <4>2 DEF Rewritten
      <4>. QED BY <1>1, <1>4, <3>6, <4>3
    <3>7. CASE Waits(s, m)
      <4>1. PICK f \in Folders : \E r \in Every(f) : Waiting(s, m, f, r)
        BY <3>7 DEF Waits
      <4>2. PICK r \in Every(f) : Waiting(s, m, f, r)
        BY <4>1
      <4>3. f = work.at /\ r = q
        BY <2>5, <4>1, <4>2
      <4>4. q.id = m /\ link[s] # None /\ Leads(link[s], place[s]) = <<work.at, q.old>>
        BY <4>2, <4>3 DEF Waiting
      <4>5. link[s] \in Links /\ q.old \in Names /\ q.new \in Names
        BY <4>4, <1>2, <1>t DEF RestType, Renames, q
      <4>6. /\ link[s].name = q.old
            /\ Leads([link[s] EXCEPT !.name = q.new], place[s]) = <<work.at, q.new>>
        BY <3>2, <4>4, <4>5, LeadsName
      <4>7. Resolve(link[s], from, work.entries) # None
        <5> DEFINE e == CHOOSE e \in work.entries : e.at = Leads(link[s], from)
        <5>1. \E x \in work.entries : x.at = Leads(link[s], from)
          BY <2>3, <3>4, <4>4
        <5>2. e \in work.entries /\ Resolve(link[s], from, work.entries) = e.id
          BY <5>1 DEF Resolve
        <5>. QED BY <5>2, <1>t, Basics DEF WorkType, Entries
      <4>8. link'[s] = [link[s] EXCEPT !.name = q.new]
        BY <3>4, <3>5, <4>4, <4>6, <4>7 DEF Rewritten
      <4>9. link'[s] # None
        <5>1. [link[s] EXCEPT !.name = q.new] \in Links
          BY <4>5 DEF Links
        <5>. QED BY <4>8, <5>1, Basics
      <4>10. Leads(link'[s], place'[s]) = place'[m]
        BY <1>1, <2>5, <4>4, <4>6, <4>8
      <4>. QED BY <1>1, <3>2, <4>9, <4>10, FindsNext
    <3>. QED BY <3>1, <3>6, <3>7 DEF FInv, Follows
  <2>8. Follows'
    <3> SUFFICES ASSUME NEW t \in Docs \ adrift', Tracked(t)'
                 PROVE  Target(t)' = meant'[t] \/ Waits(t, meant[t])'
      BY DEF Follows
    <3>1. CASE t = s
      BY <2>7, <3>1
    <3>2. CASE t # s
      <4>1. t \notin adrift /\ Tracked(t) /\ link'[t] = link[t]
        BY <1>1, <3>2, <1>t DEF Tracked, RestType
      <4>2. Target(t)' = Target(t)
        BY <1>4, <4>1
      <4>3. Target(t) = meant[t] \/ Waits(t, meant[t])
        BY <4>1 DEF FInv, Follows
      <4>4. \A v : Waits(t, v) => Waits(t, v)'
        BY <2>6, <3>2
      <4>5. \A v : v = meant[t] => (Target(t) = v \/ Waits(t, v)')
        BY <4>3, <4>4
      <4>. QED BY <1>1, <4>2, <4>5
    <3>. QED BY <3>1, <3>2
  <2>. QED BY <2>2, <2>4, <2>7, <2>8 DEF FInv
<1>. QED BY <1>5, <1>6

\* The worker's other steps have no rename in hand.
LEMMA OtherF ==
  ASSUME Typed, Typed', FInv,
         \/ \E quiet \in SUBSET pending : Takes(quiet)
         \/ \E x \in Ids : Picks(x)
         \/ Reads \/ Acks \/ Writes
         \/ Panics /\ work.at \notin Folders
  PROVE  FInv'
<1>t. WorkType /\ RestType /\ WorkOK
  BY TypedParts
<1>1. ASSUME NEW quiet \in SUBSET pending, Takes(quiet) PROVE FInv'
  <2>1. /\ UNCHANGED <<place, link, backlinks, cache, meant, adrift, pending, move>>
        /\ work.pc = "idle" /\ work'.pc = "next" /\ NoRenames'
    BY <1>1 DEF Takes, Step, Resting, treeVars, histVars, NoRenames
  <2>2. NoRenames
    BY <2>1, <1>t DEF NoRenames, WorkOK
  <2>3. \A f : Unlooked(f) => Unlooked(f)'
    BY <2>1 DEF Unlooked, Looked
  <2>. QED BY <2>1, <2>2, <2>3, NoRenamesF
<1>2. ASSUME NEW x \in Ids, Picks(x) PROVE FInv'
  <2>1. /\ UNCHANGED <<place, link, backlinks, cache, meant, adrift, pending, fresh, move>>
        /\ work.pc = "next" /\ work'.at = x
        /\ work'.pc = IF x \in Docs THEN "read" ELSE IF IsFolderDoc(x) THEN "detect" ELSE "ack"
        /\ work'.renames = work.renames /\ work'.rename = work.rename
    BY <1>2, <1>t DEF Picks, Step, WorkType, treeVars
  <2>2. NoRenames /\ NoRenames'
    BY <2>1, <1>t DEF NoRenames, WorkOK
  <2>3. \A f \in FolderDocs : Unlooked(f) => Unlooked(f)'
    <3>1. ASSUME NEW f \in FolderDocs, x = f PROVE work'.pc \in {"read", "detect"}
      BY <2>1, <3>1 DEF FolderDocs
    <3>. QED BY <2>1, <3>1 DEF Unlooked, Looked
  <2>4. work'.pc \notin {"renames", "rewrite", "scan"}
    BY <2>1
  <2>. QED BY <2>1, <2>2, <2>3, <2>4, NoRenamesF
<1>3. ASSUME Reads PROVE FInv'
  <2>1. /\ UNCHANGED <<place, link, backlinks, cache, meant, adrift, pending, fresh, move>>
        /\ work.pc = "read" /\ work'.at = work.at /\ work'.pc \in {"ack", "scan"}
        /\ work'.renames = work.renames /\ work'.rename = work.rename
    BY <1>3, <1>t DEF Reads, Only, Step, WorkType, treeVars, histVars
  <2>2. work.at \in Docs /\ NoRenames /\ NoRenames'
    BY <2>1, <1>t DEF NoRenames, WorkOK
  <2>3. \A f \in FolderDocs : Unlooked(f) => Unlooked(f)'
    BY <2>1, <2>2, Basics DEF Unlooked, FolderDocs
  <2>4. work'.pc \notin {"renames", "rewrite"} /\ work'.at \notin Folders
    BY <2>1, <2>2, Basics
  <2>. QED BY <2>1, <2>2, <2>3, <2>4, NoRenamesF
<1>4. ASSUME Acks PROVE FInv'
  <2> DEFINE x == work.at
  <2>1. /\ UNCHANGED <<place, link, backlinks, cache, meant, adrift, move>>
        /\ work.pc = "ack" /\ work'.pc \in {"idle", "next"}
        /\ pending' = IF x \in fresh THEN pending \ {x} ELSE pending
        /\ fresh' = fresh \ {x} /\ NoRenames'
    BY <1>4 DEF Acks, Step, Resting, treeVars, histVars, NoRenames
  <2>2. NoRenames
    BY <2>1, <1>t DEF NoRenames, WorkOK
  <2>3. \A f \in FolderDocs : Unlooked(f) => Unlooked(f)' /\ (pending \cap Folders = {f} => pending' \cap Folders = {f})
    <3> SUFFICES ASSUME NEW f \in FolderDocs, Unlooked(f)
                 PROVE  Unlooked(f)' /\ (pending \cap Folders = {f} => pending' \cap Folders = {f})
      OBVIOUS
    <3>1. f \in pending /\ (x = f => x \notin fresh)
      BY <2>1 DEF Unlooked, Looked
    <3>2. f \in pending'
      BY <2>1, <3>1
    <3>3. pending' \subseteq pending
      BY <2>1
    <3>. QED BY <2>1, <3>2, <3>3 DEF Unlooked, Looked
  <2>4. work'.pc \notin {"renames", "rewrite", "scan"} /\ \A s : s \in pending' => s \in pending
    BY <2>1
  <2> HIDE DEF x
  <2>. QED BY <2>1, <2>2, <2>3, <2>4, NoRenamesF
<1>5. ASSUME Writes PROVE FInv'
  <2> DEFINE u == work.at
  <2> DEFINE f == Min(work.todo)
  <2> DEFINE hit == IF work.link = None THEN None
              ELSE Resolve(work.link, PathIn(work.entries, u), work.entries)
  <2> DEFINE here == {e.id : e \in {x \in work.entries : x.id = hit /\ x.at[1] = f}}
  <2>1. /\ work.pc = "write"
        /\ backlinks' = [backlinks EXCEPT ![f] = Renewed(backlinks[f], u, here)]
        /\ work' = [work EXCEPT !.todo = @ \ {f}, !.pc = IF work.todo = {f} THEN "ack" ELSE @]
        /\ UNCHANGED <<place, link, cache, pending, fresh, move, meant, adrift>>
    BY <1>5, Zenon DEF Writes, Step, treeVars, histVars
  <2>2. u \in Docs /\ u \in pending /\ f \in Folders
    BY <2>1, <1>t, MinIs DEF WorkOK, WorkType, RestType
  <2> HIDE DEF here, f
  <2>3. /\ work'.at = work.at /\ work'.pc \in {"write", "ack"}
        /\ work'.renames = work.renames /\ work'.rename = work.rename
    BY <2>1, <1>t DEF WorkType
  <2>4. NoRenames /\ NoRenames'
    BY <2>1, <2>2, <2>3, <1>t, Basics DEF NoRenames, WorkOK
  <2>5. \A g \in FolderDocs : Unlooked(g) => Unlooked(g)'
    BY <2>1, <2>2, <2>3, Basics DEF Unlooked, FolderDocs
  <2>6. \A g \in Folders, v, s \in Docs : s # u /\ <<v, s>> \in backlinks[g] => <<v, s>> \in backlinks'[g]
    BY <2>1, <2>2, <1>t DEF Renewed, RestType
  <2>7. work'.pc \notin {"renames", "rewrite", "scan"}
    BY <2>3
  <2>. QED BY <2>1, <2>2, <2>4, <2>5, <2>6, <2>7, NoRenamesF DEF FolderDocs
<1>6. ASSUME Panics, work.at \notin Folders PROVE FInv'
  <2>1. /\ UNCHANGED <<place, link, backlinks, cache, meant, adrift, pending, move>>
        /\ work'.pc = "idle" /\ NoRenames'
    BY <1>6 DEF Panics, Step, Resting, treeVars, NoRenames
  <2>2. NoRenames
    BY <1>6, <1>t DEF NoRenames, WorkOK
  <2>3. \A f : Unlooked(f) => Unlooked(f)'
    BY <2>1 DEF Unlooked, Looked
  <2>. QED BY <2>1, <2>2, <2>3, NoRenamesF
<1>. QED BY <1>1, <1>2, <1>3, <1>4, <1>5, <1>6

\* So no step does.
LEMMA StepF == Typed /\ FInv /\ [Next]_vars => FInv'
<1> SUFFICES ASSUME Typed, FInv, [Next]_vars PROVE FInv'
  OBVIOUS
<1>0. Typed'
  BY StepTyped
<1>1. CASE Panics
  <2>1. CASE work.at \in Folders
    <3>1. All'
      BY <1>0, <1>1, <2>1 DEF Panics, All, Typed, TypeOK
    <3>. QED BY <3>1, AllSettles, PTL
  <2>2. CASE work.at \notin Folders
    BY <1>0, <1>1, <2>2, OtherF
  <2>. QED BY <2>1, <2>2
<1>2. CASE UNCHANGED vars
  <2>1. UNCHANGED <<place, link, backlinks, cache, work, meant, adrift, pending, fresh, move>>
    BY <1>2 DEF vars, treeVars, workVars, histVars
  <2>. QED BY <2>1, NothingF DEF Unlooked
<1>3. CASE WorkerStep
  <2>1. ASSUME NEW s \in Docs, Rewrites(s) PROVE FInv'
    BY <1>0, <2>1, RewritesF
  <2>. QED BY <1>0, <1>3, <2>1, OtherF, DetectsF, ScansF, RenamesF DEF WorkerStep
<1>. QED BY <1>0, <1>1, <1>2, <1>3, ClientF, MoveF DEF Next

\* With nothing queued or under way, a link of a listed document leads to the
\* listed document its author meant, through renames and moves, unless the
\* tree changed while an earlier change was still undigested, the link was not
\* on record then, or the worker panicked in the middle of a folder.
THEOREM LinksAreKept == Spec => []LinksFollow
<1>1. Typed /\ FInv => LinksFollow
  <2> SUFFICES ASSUME Typed, FInv, Quiet PROVE \A s, u : ~Waits(s, u)
    BY DEF LinksFollow, FInv, Follows, Tracked
  <2>1. work.sources = {} /\ NoRenames
    BY TypedParts DEF Quiet, WorkOK, NoRenames
  <2>2. \A f : ~Unlooked(f)
    BY DEF Quiet, Unlooked
  <2>. QED BY <2>1, <2>2 DEF Waits, Waiting, NoRenames
<1>. QED BY <1>1, InitTyped, StepTyped, InitF, StepF, PTL DEF Spec

\* Whatever rewrites a link, a rename's pass or a move, with a snapshot and a
\* list of backlinkers that it took earlier, leaves it leading to the document
\* that its author meant.
THEOREM MeaningIsKept == Spec => RewritesKeepMeaning
<1> DEFINE Keeps ==
      \A u \in Docs \ adrift' :
        link'[u] # link[u] /\ meant'[u] = meant[u] /\ place'[u] # None
        /\ meant[u] # None /\ place'[meant[u]] # None => Target(u)' = meant[u]
<1>1. Typed /\ FInv /\ [Next]_vars => [Keeps]_vars
  <2> SUFFICES ASSUME Typed, FInv, [Next]_vars, NEW u \in Docs \ adrift',
                      link'[u] # link[u], meant'[u] = meant[u], place'[u] # None,
                      meant[u] # None, place'[meant[u]] # None
               PROVE  Target(u)' = meant'[u]
    OBVIOUS
  <2>0. Typed' /\ Tracked(u)'
    BY StepTyped DEF Tracked
  <2>1. CASE MoveApplies
    BY <2>0, <2>1, MoveAppliesF
  <2>2. ASSUME NEW v \in Docs, NEW l \in Written, ClientWrites(v, l) PROVE Target(u)' = meant'[u]
    <3>1. l \in Links \cup {None}
      BY LinkIndexerAssumption
    <3>. QED BY <2>0, <2>2, <3>1, WritesLinkF
  <2>3. ASSUME NEW s \in Docs, Rewrites(s) PROVE Target(u)' = meant'[u]
    <3>1. link \in [Docs -> Links \cup {None}]
      BY DEF Typed, TypeOK
    <3>2. u = s
      BY <2>3, <3>1 DEF Rewrites
    <3>. QED BY <2>0, <2>3, <3>2, RewritesF
  <2>4. CASE ClientStep
    <3>1. ASSUME NEW v \in Docs, NEW x \in Spots, ClientPlaces(v, x) PROVE UNCHANGED link
      BY <3>1 DEF ClientPlaces
    <3>2. ASSUME NEW v \in Docs, Evicts(v) PROVE UNCHANGED link
      BY <3>2 DEF Evicts
    <3>. QED BY <2>2, <2>4, <3>1, <3>2 DEF ClientStep
  <2>5. CASE MoveStep
    <3>1. (\E v \in Docs, x \in Spots \cap Places : MoveBegins(v, x)) => UNCHANGED link
      BY DEF MoveBegins
    <3>2. MoveFails \/ MoveQueues => UNCHANGED link
      BY DEF MoveFails, MoveQueues, treeVars
    <3>. QED BY <2>1, <2>5, <3>1, <3>2 DEF MoveStep
  <2>6. CASE WorkerStep
    <3>1. (\E quiet \in SUBSET pending : Takes(quiet)) => UNCHANGED link
      BY DEF Takes, treeVars
    <3>2. (\E x \in Ids : Picks(x)) => UNCHANGED link
      BY DEF Picks, treeVars
    <3>3. Detects \/ Scans \/ RenamesDone \/ RewritesDone \/ Reads \/ Writes \/ Acks => UNCHANGED link
      BY DEF Detects, Scans, RenamesDone, RewritesDone, Reads, Writes, Acks, Only, treeVars
    <3>4. (\E r \in work.renames : TakesRename(r)) => UNCHANGED link
      BY DEF TakesRename, Only, treeVars
    <3>. QED BY <2>3, <2>6, <3>1, <3>2, <3>3, <3>4 DEF WorkerStep
  <2>7. Panics \/ UNCHANGED vars => UNCHANGED link
    BY DEF Panics, vars, treeVars
  <2>. QED BY <2>4, <2>5, <2>6, <2>7 DEF Next
<1>. QED BY <1>1, InitTyped, StepTyped, InitF, StepF, PTL DEF Spec, RewritesKeepMeaning
=============================================================================
