--------------------------- MODULE FoldersProofs ---------------------------
(***************************************************************************)
(* The four invariants of Folders, for any number of folder documents,     *)
(* directories, names, documents and handlers, any bounds, and any folder  *)
(* documents at the start that handlers and clients could have left.       *)
(*                                                                         *)
(* The inductive invariant has four layers, each proved on those before:   *)
(*   Typed      what the state is made of, and what a handler holds at     *)
(*              each of its steps;                                         *)
(*   AllTraced  for every document without a race: where the folder        *)
(*              documents and their saved copies list it, what requests    *)
(*              are about to promise of it, and which saves are missing;   *)
(*   InSync     the two maps agree, in the saved copies too;               *)
(*   InRows     what the resolver still owes a folder document, by what    *)
(*              is under way there: a request that has yet to queue it,    *)
(*              a pending entry, a pass of the worker, a rebuild.          *)
(* Each layer has an Init lemma, lemmas on what single steps do, and a     *)
(* Step lemma with one step per action.                                    *)
(***************************************************************************)
EXTENDS Folders, FiniteSetTheorems, WellFoundedInduction, TLAPS

-----------------------------------------------------------------------------
(* The inductive invariant, in layers. *)

\* The handlers' records.
Records == [pc : Pcs, from : Folders, to : Folders, path : Paths \cup {None},
            id : Docs \cup {None}, type : Types, plan : SUBSET Moves, home : Folders,
            left : SUBSET Folders, after : Pcs, ok : BOOLEAN]

\* The entry of a directory that is created on the way.
DirEntry == [id |-> DirId, type |-> "folder", hash |-> 0]

\* What may stand at p, when the ids given out are ids.
EntryOK(ids, p, e) ==
  /\ e.id \in ids \cup {DirId}
  /\ e.type = "folder" <=> p \notin Files
  /\ e.type = "folder" <=> e.id = DirId

TreeOK(ids, t) == \A p \in Paths : t.meta[p] # None => EntryOK(ids, p, t.meta[p])

\* The plan of a folder move takes one directory's entries to another.
PlanOK(ids, plan) ==
  plan # {} => \E d, e \in Dirs : d # e /\ \A m \in plan :
    /\ Inside(m.src, d)
    /\ m.dst = IF m.src = <<Root, d>> THEN <<Root, e>> ELSE <<e, m.src[2]>>
    /\ EntryOK(ids, m.src, m.entry)

\* What a handler holds, by what it does next.
OpOK(ids, o) ==
  /\ o.id # None => o.id \in ids
  /\ o.pc \in {"write", "upsert", "apply"} => o.id # None /\ o.path \in Files
  /\ o.pc \in {"write", "upsert"} => /\ o.from = o.to /\ o.type # "folder"
                                     /\ o.after = "idle" /\ o.plan = {}
  /\ o.pc = "save" => o.left # {} /\ o.after \in {"idle", "queue", "clear"}
  /\ o.pc = "save" /\ o.after = "clear" => o.id = None /\ o.plan = {}
  /\ o.pc = "rebuild" => o.left # {}
  /\ o.pc \in {"clear", "rebuild"} => o.id = None /\ o.plan = {}
  /\ PlanOK(ids, o.plan)

\* The layer of types.
TreeTypes == /\ tree \in [Folders -> Trees] /\ stored \in [Folders -> Trees]
             /\ \A f \in Folders : TreeOK(born, tree[f]) /\ TreeOK(born, stored[f])
RowTypes  == /\ ResolverType
             /\ \A x \in Folders \X Paths : byPath[x] # None => byPath[x].id \in born
             /\ \A u \in Docs : pathOf[u] # None => u \in born
WorkTypes == /\ queued \subseteq Folders
             /\ work \in [at : 0..NumFolders, step : {"idle", "remove", "rebuild", "ack"},
                          again : BOOLEAN]
             /\ work.step # "idle" => work.at \in queued
OpTypes   == op \in [Handlers -> Records] /\ \A h \in Handlers : OpOK(born, op[h])
HistTypes ==
  /\ ops \in 0..MaxOps /\ crashes \in 0..MaxCrashes
  /\ born \subseteq Docs
  /\ owed \subseteq born /\ safe \subseteq owed /\ deleted \subseteq born
  /\ crossing \subseteq born \X Folders /\ contested \subseteq born /\ misfiled \subseteq born

Typed == TreeTypes /\ RowTypes /\ WorkTypes /\ OpTypes /\ HistTypes

\* Where a document is listed, and where the store has it listed.
ListedAt(f, u) == Lists(tree[f], u) # {}
KeptAt(f, u)   == Lists(stored[f], u) # {}

\* One place at most, in one folder; in the store, one place of each folder.
OnePlace(u) == \A f, g \in Folders : \A p \in Lists(tree[f], u), q \in Lists(tree[g], u) :
                 f = g /\ p = q
KeptOnce(u) == \A f \in Folders : \A p, q \in Lists(stored[f], u) : p = q

\* A request is about to promise its document, and has yet to save folders.
Promises(o) == o.pc \in {"upsert", "save", "queue"}
Unsaved(o)  == IF o.pc = "upsert" THEN {o.from} ELSE IF o.pc = "save" THEN o.left ELSE {}

\* What is or will be promised is listed.
Present(u) ==
  u \in owed \/ (u \notin deleted /\ \E h \in Handlers : op[h].id = u /\ Promises(op[h]))
  => \E f \in Folders : ListedAt(f, u)

\* The store lists a document in another folder than the tree, or in two, only
\* when it crosses between folders of which one is not saved.
Behind(u) ==
  \A f, g \in Folders : f # g /\ KeptAt(f, u) =>
    /\ ListedAt(g, u) => <<u, f>> \in crossing
    /\ KeptAt(g, u) => <<u, f>> \in crossing \/ <<u, g>> \in crossing

\* The store lists a document where the tree does, unless that folder is among
\* fs or the document has come over since the folder was saved.
SavedBut(u, fs) ==
  \A g \in Folders \ fs : ListedAt(g, u) /\ <<u, g>> \notin crossing => KeptAt(g, u)
Saved(u) ==
  /\ u \in safe => SavedBut(u, {})
  /\ \A h \in Handlers : op[h].id = u /\ Promises(op[h]) /\ op[h].ok =>
       SavedBut(u, Unsaved(op[h]))

\* A document that is being made is nowhere yet, and is nobody else's.
Fresh(u) ==
  \A h \in Handlers : op[h].pc = "write" /\ op[h].id = u =>
    /\ \A f \in Folders : ~ListedAt(f, u) /\ ~KeptAt(f, u) /\ <<u, f>> \notin crossing
    /\ \A k \in Handlers : op[k].id = u => k = h
    /\ u \notin owed

Traced(u) == OnePlace(u) /\ KeptOnce(u) /\ Present(u) /\ Behind(u) /\ Saved(u) /\ Fresh(u)
AllTraced == \A u \in Docs \ contested : Traced(u)

-----------------------------------------------------------------------------
(* Paths, numbers and folder documents. *)

\* Files are not where directories are.
LEMMA PathFacts ==
  /\ Files \subseteq Paths
  /\ \A d \in Dirs : <<Root, d>> \in Paths \ Files
  /\ \A p \in Paths : p \notin Files => \E d \in Dirs : p = <<Root, d>>
  /\ \A p \in Paths : p[1] # Root => p[1] \in Dirs /\ p[2] \in Names /\ p = <<p[1], p[2]>>
  /\ \A p \in Files : p[1] # Root => <<Root, p[1]>> \in Paths \ Files
  /\ \A d \in Dirs, n \in Names : <<d, n>> \in Files
BY FoldersAssumption DEF Paths, Files

\* Sets of numbers have a least one; so the least and the greatest of some
\* folders are among them.
Below == {ss \in Nat \X Nat : ss[1] < ss[2]}

\* Any set of naturals, finite or not.
LEMMA LeastOne ==
  ASSUME NEW S \in SUBSET Nat, S # {}
  PROVE  \E x \in S : \A y \in S : x =< y
<1>1. IsWellFoundedOn(Below, Nat)
  <2>1. OpToRel(<, Nat) = Below
    BY DEF OpToRel, Below
  <2>. QED BY <2>1, NatLessThanWellFounded
<1>2. PICK x \in S : \A y \in S : ~ (<<y, x>> \in Below)
  BY <1>1, WFMin, Zenon
<1>3. \A y, z \in Nat : y < z => <<y, z>> \in Below
  BY DEF Below
<1>4. ASSUME NEW y \in S PROVE x =< y
  <2>1. x \in Nat /\ y \in Nat
    OBVIOUS
  <2>2. ~ (y < x)
    BY <1>2, <1>3, <2>1, Zenon
  <2>. QED BY <2>1, <2>2
<1>. QED BY <1>4

LEMMA MinIs ==
  ASSUME NEW S \in SUBSET Folders, S # {}
  PROVE  Min(S) \in S
<1>1. S \in SUBSET Nat
  BY FoldersAssumption DEF Folders
<1>2. \E x \in S : \A y \in S : x =< y
  BY <1>1, LeastOne, Zenon
<1>. QED BY <1>2, Zenon DEF Min

LEMMA MaxIs ==
  ASSUME NEW S \in SUBSET Folders, S # {}
  PROVE  Max(S) \in S
<1> DEFINE T == {NumFolders - x : x \in S}
<1>1. NumFolders \in Nat /\ \A x \in S : x \in Nat /\ x =< NumFolders
  BY FoldersAssumption DEF Folders
<1>2. T \in SUBSET Nat /\ T # {}
  BY <1>1
<1>3. PICK y \in T : \A z \in T : y =< z
  BY <1>2, LeastOne, Zenon
<1>4. PICK x \in S : y = NumFolders - x
  BY <1>3
<1>5. ASSUME NEW z \in S PROVE x >= z
  <2>1. NumFolders - x =< NumFolders - z
    BY <1>3, <1>4
  <2>. QED BY <1>1, <2>1
<1>6. \E w \in S : \A z \in S : w >= z
  BY <1>5, Zenon
<1>. QED BY <1>6, Zenon DEF Max

\* What the operations on a folder document leave where.
LEMMA DropIs ==
  ASSUME NEW t \in Trees, NEW p \in Paths
  PROVE  /\ Drop(t, p) \in Trees
         /\ \A q \in Paths :
              /\ Drop(t, p).meta[q] = IF q = p THEN None ELSE t.meta[q]
              /\ Drop(t, p).docs[q] = IF q = p THEN None ELSE t.docs[q]
BY DEF Trees, Drop

LEMMA PutIs ==
  ASSUME NEW t \in Trees, NEW p \in Paths, NEW e \in Entries
  PROVE  /\ Put(t, p, e) \in Trees
         /\ \A q \in Paths :
              /\ Put(t, p, e).meta[q] = IF q = p THEN e ELSE t.meta[q]
              /\ Put(t, p, e).docs[q] = IF q = p /\ e.type # "file" THEN e.id ELSE t.docs[q]
<1>1. CASE e.type = "file"
  BY <1>1 DEF Trees, Put
<1>2. CASE e.type # "file"
  BY <1>2 DEF Trees, Put, Entries
<1>. QED BY <1>1, <1>2

LEMMA EnsureIs ==
  ASSUME NEW t \in Trees, NEW p \in Files
  PROVE  /\ EnsureAncestors(t, p) \in Trees
         /\ \A q \in Paths :
              \/ /\ EnsureAncestors(t, p).meta[q] = t.meta[q]
                 /\ EnsureAncestors(t, p).docs[q] = t.docs[q]
              \/ /\ q \notin Files /\ t.meta[q] = None
                 /\ EnsureAncestors(t, p).meta[q] = DirEntry
                 /\ EnsureAncestors(t, p).docs[q] = DirId
<1>1. CASE p[1] = Root \/ t.meta[<<Root, p[1]>>] # None
  BY <1>1 DEF EnsureAncestors
<1>2. CASE p[1] # Root /\ t.meta[<<Root, p[1]>>] = None
  <2>1. EnsureAncestors(t, p) = Put(t, <<Root, p[1]>>, DirEntry)
    BY <1>2 DEF EnsureAncestors, DirEntry
  <2>2. DirEntry \in Entries /\ DirEntry.type # "file" /\ DirEntry.id = DirId
    BY DEF Entries, Types, DirEntry
  <2>3. <<Root, p[1]>> \in Paths \ Files
    BY <1>2, PathFacts
  <2>. QED BY <1>2, <2>1, <2>2, <2>3, PutIs
<1>. QED BY <1>1, <1>2

\* Whatever is done to folder documents leaves them well placed.
LEMMA DropOK ==
  ASSUME NEW ids, NEW t \in Trees, NEW p \in Paths, TreeOK(ids, t)
  PROVE  TreeOK(ids, Drop(t, p))
BY DropIs DEF TreeOK

LEMMA PutOK ==
  ASSUME NEW ids, NEW t \in Trees, NEW p \in Paths, NEW e \in Entries,
         TreeOK(ids, t), EntryOK(ids, p, e)
  PROVE  TreeOK(ids, Put(t, p, e))
BY PutIs DEF TreeOK

LEMMA EnsureOK ==
  ASSUME NEW ids, NEW t \in Trees, NEW p \in Files, TreeOK(ids, t)
  PROVE  TreeOK(ids, EnsureAncestors(t, p))
<1>1. \A q \in Paths : q \notin Files => EntryOK(ids, q, DirEntry)
  BY DEF EntryOK, DirEntry
<1>. QED BY <1>1, EnsureIs DEF TreeOK

LEMMA TreeOKGrows ==
  ASSUME NEW ids, NEW more, ids \subseteq more, NEW t, TreeOK(ids, t)
  PROVE  TreeOK(more, t)
BY DEF TreeOK, EntryOK

LEMMA OpOKGrows ==
  ASSUME NEW ids, NEW more, ids \subseteq more, NEW o, OpOK(ids, o)
  PROVE  OpOK(more, o)
<1>1. PlanOK(more, o.plan)
  BY DEF OpOK, PlanOK, EntryOK
<1>. QED BY <1>1 DEF OpOK

\* What a file's entry is.
LEMMA FileEntry ==
  ASSUME NEW ids, NEW t \in Trees, TreeOK(ids, t), ids \subseteq Docs, NEW p \in Paths,
         t.meta[p] # None
  PROVE  /\ t.meta[p] \in Entries /\ EntryOK(ids, p, t.meta[p])
         /\ p \in Files => t.meta[p].id \in ids /\ t.meta[p].type # "folder"
         /\ p \notin Files => t.meta[p].id = DirId /\ t.meta[p].type = "folder"
BY DEF Trees, TreeOK, EntryOK

\* What the entry of a listed document is.
LEMMA ListedEntry ==
  ASSUME NEW ids, NEW t \in Trees, TreeOK(ids, t), ids \subseteq Docs, NEW u \in Docs,
         NEW p \in Lists(t, u)
  PROVE  /\ p \in Files /\ p \in Paths /\ t.meta[p] # None /\ t.meta[p] \in Entries
         /\ EntryOK(ids, p, t.meta[p]) /\ t.meta[p].id = u /\ t.meta[p].type # "folder"
         /\ u \in ids
<1>1. p \in Paths /\ t.meta[p] # None /\ t.meta[p].id = u /\ u # DirId
  BY FoldersAssumption DEF Lists
<1>2. p \in Files
  BY <1>1, FileEntry
<1>. QED BY <1>1, <1>2, FileEntry

-----------------------------------------------------------------------------
(* Types *)

\* A handler without a request.
LEMMA IdleOK == \A ids : OpOK(ids, Idle)
  BY DEF OpOK, PlanOK, Idle

LEMMA IdleTyped == Idle \in Records
  BY FoldersAssumption DEF Idle, Records, Pcs, Types, Folders

\* A handler's step replaces its own record.
LEMMA OpPut ==
  ASSUME OpTypes, NEW h \in Handlers, NEW r \in Records, OpOK(born', r),
         op' = [op EXCEPT ![h] = r], born \subseteq born'
  PROVE  OpTypes'
<1>1. op \in [Handlers -> Records] /\ \A k \in Handlers : OpOK(born, op[k])
  BY DEF OpTypes
<1>2. op' \in [Handlers -> Records]
  BY <1>1, Zenon
<1>3. ASSUME NEW k \in Handlers PROVE OpOK(born', op'[k])
  <2>1. CASE k = h
    BY <1>1, <2>1, Zenon
  <2>2. CASE k # h
    BY <1>1, <2>2, OpOKGrows, Zenon
  <2>. QED BY <2>1, <2>2
<1>. QED BY <1>2, <1>3 DEF OpTypes

\* So does a step on one folder document.
LEMMA TreePut ==
  ASSUME TreeTypes, NEW f \in Folders, NEW t \in Trees, TreeOK(born', t),
         tree' = [tree EXCEPT ![f] = t], stored' = stored, born' = born
  PROVE  TreeTypes'
BY DEF TreeTypes

\* And the save of one.
LEMMA StoredPut ==
  ASSUME TreeTypes, NEW f \in Folders,
         stored' = [stored EXCEPT ![f] = tree[f]], tree' = tree, born' = born
  PROVE  TreeTypes'
BY DEF TreeTypes

\* What is queued stays typed.
LEMMA QueueTyped ==
  ASSUME WorkTypes, NEW fs \in SUBSET Folders, Queue(fs)
  PROVE  WorkTypes'
BY DEF WorkTypes, Queue

\* Rows are of documents that have been given out.
LEMMA UpsertTyped ==
  ASSUME RowTypes, NEW u \in Docs, u \in born, NEW x \in Folders \X Paths, NEW f \in Folders,
         Upsert(u, x, [id |-> u, owner |-> f]), born' = born
  PROVE  RowTypes'
BY FoldersAssumption DEF RowTypes, ResolverType, Upsert

\* Rows of other documents only.
LEMMA UnfiledTyped ==
  ASSUME RowTypes, NEW u \in Docs, NEW x
  PROVE  Unfiled(u, x) \subseteq born
BY DEF RowTypes, ResolverType, Unfiled

\* So are entries that an insertion replaces.
LEMMA ReplacedTyped ==
  ASSUME NEW t \in Trees, TreeOK(born, t), born \subseteq Docs, NEW p \in Paths, NEW u
  PROVE  Replaced(t, p, u) \subseteq born
BY FileEntry DEF Replaced, TreeOK, EntryOK

\* One folder's files are entered, typed.
LEMMA RebuildFromTyped ==
  ASSUME Typed, NEW f \in Folders, RebuildFrom(f), born' = born
  PROVE  RowTypes'
<1>1. tree[f] \in Trees /\ TreeOK(born, tree[f]) /\ born \subseteq Docs
  BY DEF Typed, TreeTypes, HistTypes
<1>2. ASSUME NEW x \in Folders \X Paths
      PROVE  /\ byPath'[x] \in [id : Docs, owner : Folders] \cup {None}
             /\ byPath'[x] # None => byPath'[x].id \in born
  <2>1. CASE x[1] = f /\ HasFile(f, x[2])
    <3>1. x[2] \in Paths /\ tree[f].meta[x[2]] # None /\ tree[f].meta[x[2]].type # "folder"
      BY <2>1 DEF HasFile, Free
    <3>2. tree[f].meta[x[2]].id \in born
      BY <1>1, <3>1, FileEntry
    <3>3. byPath'[x] = [id |-> tree[f].meta[x[2]].id, owner |-> f]
      BY <2>1 DEF RebuildFrom
    <3>. QED BY <1>1, <3>2, <3>3
  <2>2. CASE ~(x[1] = f /\ HasFile(f, x[2]))
    <3>1. byPath'[x] = byPath[x]
      BY <2>2 DEF RebuildFrom
    <3>. QED BY <3>1 DEF Typed, RowTypes, ResolverType
  <2>. QED BY <2>1, <2>2
<1>3. ASSUME NEW u \in Docs
      PROVE  /\ pathOf'[u] \in (Folders \X Paths) \cup {None}
             /\ pathOf'[u] # None => u \in born
  <2>1. CASE Lists(tree[f], u) # {}
    <3>1. PICK p \in Lists(tree[f], u) : p = CHOOSE q \in Lists(tree[f], u) : TRUE
      BY <2>1
    <3>2. p \in Paths /\ u \in born
      BY <1>1, ListedEntry
    <3>3. pathOf'[u] = <<f, p>>
      BY <2>1, <3>1 DEF RebuildFrom
    <3>. QED BY <3>2, <3>3
  <2>2. CASE Lists(tree[f], u) = {}
    <3>1. pathOf'[u] = pathOf[u]
      BY <2>2 DEF RebuildFrom
    <3>. QED BY <3>1 DEF Typed, RowTypes, ResolverType
  <2>. QED BY <2>1, <2>2
<1>4. /\ byPath' = [x \in Folders \X Paths |-> byPath'[x]]
      /\ pathOf' = [u \in Docs |-> pathOf'[u]]
  BY DEF RebuildFrom
<1>. QED BY <1>2, <1>3, <1>4 DEF RowTypes, ResolverType

\* The resolver as it is rebuilt at a start.
LEMMA RebuiltTyped ==
  ASSUME NEW ids, ids \subseteq Docs, NEW ts \in [Folders -> Trees],
         \A f \in Folders : TreeOK(ids, ts[f])
  PROVE  /\ Rebuilt(ts) \in [Folders \X Paths -> [id : Docs, owner : Folders] \cup {None}]
         /\ \A x \in Folders \X Paths :
              Rebuilt(ts)[x] # None =>
                /\ Rebuilt(ts)[x].id \in ids /\ Rebuilt(ts)[x].owner = x[1]
                /\ x[2] \in Lists(ts[x[1]], Rebuilt(ts)[x].id)
         /\ \A u \in Docs : \A f \in Folders : \A p \in Lists(ts[f], u) :
              Rebuilt(ts)[<<f, p>>] = [id |-> u, owner |-> f]
<1>1. ASSUME NEW x \in Folders \X Paths
      PROVE  /\ Rebuilt(ts)[x] \in [id : Docs, owner : Folders] \cup {None}
             /\ Rebuilt(ts)[x] # None =>
                  /\ Rebuilt(ts)[x].id \in ids /\ Rebuilt(ts)[x].owner = x[1]
                  /\ x[2] \in Lists(ts[x[1]], Rebuilt(ts)[x].id)
  <2> DEFINE e == ts[x[1]].meta[x[2]]
  <2>1. ts[x[1]] \in Trees /\ x[2] \in Paths /\ TreeOK(ids, ts[x[1]])
    OBVIOUS
  <2>2. CASE e = None \/ (e # None /\ e.type = "folder")
    <3>1. Rebuilt(ts)[x] = None
      BY <2>2 DEF Rebuilt
    <3>. QED BY <3>1
  <2>3. CASE e # None /\ e.type # "folder"
    <3>1. Rebuilt(ts)[x] = [id |-> e.id, owner |-> x[1]]
      BY <2>3 DEF Rebuilt
    <3>2. e.id \in ids
      BY <2>1, <2>3, FileEntry
    <3>. QED BY <2>1, <2>3, <3>1, <3>2 DEF Lists
  <2>. QED BY <2>2, <2>3
<1>2. ASSUME NEW u \in Docs, NEW f \in Folders, NEW p \in Lists(ts[f], u)
      PROVE  Rebuilt(ts)[<<f, p>>] = [id |-> u, owner |-> f]
  <2>1. /\ ts[f].meta[p] # None /\ ts[f].meta[p].id = u /\ ts[f].meta[p].type # "folder"
        /\ p \in Paths
    BY ListedEntry
  <2>. QED BY <2>1 DEF Rebuilt
<1>3. Rebuilt(ts) = [x \in Folders \X Paths |-> Rebuilt(ts)[x]]
  BY DEF Rebuilt
<1>. QED BY <1>1, <1>2, <1>3

\* The way back: to a row of the document, when it has one.
LEMMA LocatedTyped ==
  ASSUME NEW rows \in [Folders \X Paths -> [id : Docs, owner : Folders] \cup {None}]
  PROVE  /\ Located(rows) \in [Docs -> (Folders \X Paths) \cup {None}]
         /\ \A u \in Docs :
              Located(rows)[u] # None => /\ rows[Located(rows)[u]] # None
                                         /\ rows[Located(rows)[u]].id = u
         /\ \A u \in Docs, x \in Folders \X Paths :
              rows[x] # None /\ rows[x].id = u => Located(rows)[u] # None
<1>1. ASSUME NEW u \in Docs
      PROVE  /\ Located(rows)[u] \in (Folders \X Paths) \cup {None}
             /\ Located(rows)[u] # None => /\ rows[Located(rows)[u]] # None
                                           /\ rows[Located(rows)[u]].id = u
             /\ \A x \in Folders \X Paths :
                  rows[x] # None /\ rows[x].id = u => Located(rows)[u] # None
  <2>1. CASE \E x \in DOMAIN rows : rows[x] # None /\ rows[x].id = u
    <3>1. PICK x \in DOMAIN rows : /\ rows[x] # None /\ rows[x].id = u
                                   /\ x = CHOOSE y \in DOMAIN rows : rows[y] # None /\ rows[y].id = u
      BY <2>1
    <3>2. Located(rows)[u] = x
      BY <2>1, <3>1 DEF Located
    <3>3. x \in Folders \X Paths /\ x # None
      BY FoldersAssumption
    <3>. QED BY <3>1, <3>2, <3>3
  <2>2. CASE ~ \E x \in DOMAIN rows : rows[x] # None /\ rows[x].id = u
    <3>1. Located(rows)[u] = None
      BY <2>2 DEF Located
    <3>. QED BY <2>2, <3>1
  <2>. QED BY <2>1, <2>2
<1>2. Located(rows) = [u \in Docs |-> Located(rows)[u]]
  BY DEF Located
<1>. QED BY <1>1, <1>2

\* Everything starts typed.
LEMMA InitTyped == Init => Typed
<1> SUFFICES ASSUME Init PROVE Typed
  OBVIOUS
<1>1. Listed0 \subseteq Docs /\ Tree0 \in [Folders -> Trees]
  BY FoldersAssumption DEF Listed0
<1>2. ASSUME NEW f \in Folders PROVE TreeOK(Listed0, Tree0[f])
  <2>1. WellPlaced(Tree0[f])
    BY Tree0Assumption
  <2>2. ASSUME NEW p \in Paths, Tree0[f].meta[p] # None
        PROVE  Tree0[f].meta[p].id \in Listed0 \cup {DirId}
    <3>1. Tree0[f].meta[p].id \in Docs \cup {DirId}
      BY <1>1, <2>2 DEF Trees, Entries
    <3>2. p \in Lists(Tree0[f], Tree0[f].meta[p].id)
      BY <2>2 DEF Lists
    <3>. QED BY <3>1, <3>2 DEF Listed0
  <2>. QED BY <2>1, <2>2 DEF TreeOK, EntryOK, WellPlaced
<1>3. TreeTypes
  BY <1>1, <1>2 DEF Init, TreeTypes
<1>4. RowTypes
  <2>1. /\ byPath \in [Folders \X Paths -> [id : Docs, owner : Folders] \cup {None}]
        /\ \A x \in Folders \X Paths : byPath[x] # None => byPath[x].id \in born
    BY <1>1, <1>2, RebuiltTyped DEF Init
  <2>2. /\ pathOf \in [Docs -> (Folders \X Paths) \cup {None}]
        /\ \A u \in Docs : pathOf[u] # None => byPath[pathOf[u]] # None /\ byPath[pathOf[u]].id = u
    BY <2>1, LocatedTyped DEF Init
  <2>. QED BY <2>1, <2>2 DEF RowTypes, ResolverType
<1>5. WorkTypes
  BY FoldersAssumption DEF Init, WorkTypes
<1>6. OpTypes
  BY IdleOK, IdleTyped DEF Init, OpTypes
<1>7. HistTypes
  BY <1>1, BoundsAssumption DEF Init, HistTypes
<1>. QED BY <1>3, <1>4, <1>5, <1>6, <1>7 DEF Typed

\* The tree that MoveApplies leaves, and its parts.
LEMMA MoveSource ==
  ASSUME Typed, NEW h \in Handlers, op[h].pc = "apply", Lists(tree[op[h].from], op[h].id) # {},
         NEW src, src = CHOOSE p \in Lists(tree[op[h].from], op[h].id) : TRUE
  PROVE  /\ op[h].id \in Docs /\ op[h].id \in born /\ op[h].path \in Files /\ op[h].path \in Paths
         /\ op[h].from \in Folders /\ op[h].to \in Folders
         /\ src \in Lists(tree[op[h].from], op[h].id) /\ src \in Files /\ src \in Paths
         /\ tree[op[h].from].meta[src] \in Entries
         /\ tree[op[h].from].meta[src].id = op[h].id
         /\ tree[op[h].from].meta[src].type # "folder"
         /\ EntryOK(born, op[h].path, tree[op[h].from].meta[src])
<1>1. op[h] \in Records /\ OpOK(born, op[h]) /\ born \subseteq Docs
  BY DEF Typed, OpTypes, HistTypes
<1>2. /\ op[h].id \in Docs /\ op[h].id \in born /\ op[h].path \in Files /\ op[h].path \in Paths
      /\ op[h].from \in Folders /\ op[h].to \in Folders
  BY <1>1, PathFacts DEF Records, OpOK
<1>3. src \in Lists(tree[op[h].from], op[h].id)
  OBVIOUS
<1>4. tree[op[h].from] \in Trees /\ TreeOK(born, tree[op[h].from])
  BY <1>2 DEF Typed, TreeTypes
<1>5. /\ src \in Files /\ src \in Paths
      /\ tree[op[h].from].meta[src] \in Entries
      /\ tree[op[h].from].meta[src].id = op[h].id
      /\ tree[op[h].from].meta[src].type # "folder"
  BY <1>1, <1>2, <1>3, <1>4, ListedEntry
<1>6. op[h].id # DirId
  BY <1>2, FoldersAssumption
<1>7. EntryOK(born, op[h].path, tree[op[h].from].meta[src])
  BY <1>2, <1>5, <1>6 DEF EntryOK
<1>. QED BY <1>2, <1>3, <1>5, <1>7

\* What MoveApplies writes: the source's own tree first, then the target's.
MovedOut(h, src) ==
  IF op[h].from = op[h].to
  THEN Put(Drop(EnsureAncestors(tree[op[h].from], op[h].path), src), op[h].path,
           tree[op[h].from].meta[src])
  ELSE Drop(tree[op[h].from], src)
MovedIn(h, src) ==
  IF op[h].from = op[h].to THEN MovedOut(h, src)
  ELSE Put(EnsureAncestors(tree[op[h].to], op[h].path), op[h].path, tree[op[h].from].meta[src])

\* What a move makes of the folder documents, source and target.
LEMMA MoveTrees ==
  ASSUME Typed, NEW h \in Handlers, MoveApplies(h),
         NEW src, src = CHOOSE p \in Lists(tree[op[h].from], op[h].id) : TRUE
  PROVE  /\ MovedOut(h, src) \in Trees /\ MovedIn(h, src) \in Trees
         /\ TreeOK(born, MovedOut(h, src)) /\ TreeOK(born, MovedIn(h, src))
         /\ tree' = [g \in Folders |-> IF g = op[h].to THEN MovedIn(h, src)
                                       ELSE IF g = op[h].from THEN MovedOut(h, src)
                                       ELSE tree[g]]
<1>1. op[h].pc = "apply" /\ Lists(tree[op[h].from], op[h].id) # {}
  BY DEF MoveApplies
<1> DEFINE f == op[h].from
           g == op[h].to
           path == op[h].path
           e == tree[f].meta[src]
<1>2. /\ f \in Folders /\ g \in Folders /\ path \in Files /\ path \in Paths
      /\ src \in Paths /\ e \in Entries /\ EntryOK(born, path, e)
  BY <1>1, MoveSource
<1>3. tree[f] \in Trees /\ tree[g] \in Trees /\ TreeOK(born, tree[f]) /\ TreeOK(born, tree[g])
  BY <1>2 DEF Typed, TreeTypes
<1>4. tree \in [Folders -> Trees]
  BY DEF Typed, TreeTypes
<1>5. tree' = IF f = g
              THEN [tree EXCEPT ![f] = Put(Drop(EnsureAncestors(tree[f], path), src), path, e)]
              ELSE [tree EXCEPT ![f] = Drop(tree[f], src),
                                ![g] = Put(EnsureAncestors(tree[g], path), path, e)]
  BY DEF MoveApplies
<1>6. CASE f = g
  <2>1. MovedOut(h, src) = Put(Drop(EnsureAncestors(tree[f], path), src), path, e)
        /\ MovedIn(h, src) = MovedOut(h, src)
    BY <1>6 DEF MovedOut, MovedIn
  <2>2. EnsureAncestors(tree[f], path) \in Trees
        /\ TreeOK(born, EnsureAncestors(tree[f], path))
    BY <1>2, <1>3, EnsureIs, EnsureOK
  <2>3. Drop(EnsureAncestors(tree[f], path), src) \in Trees
        /\ TreeOK(born, Drop(EnsureAncestors(tree[f], path), src))
    BY <1>2, <2>2, DropIs, DropOK
  <2>4. MovedOut(h, src) \in Trees /\ TreeOK(born, MovedOut(h, src))
    BY <1>2, <2>1, <2>3, PutIs, PutOK
  <2>5. tree' = [tree EXCEPT ![f] = MovedOut(h, src)]
    BY <1>5, <1>6, <2>1
  <2>. QED BY <1>4, <1>6, <2>1, <2>4, <2>5
<1>7. CASE f # g
  <2>1. MovedOut(h, src) = Drop(tree[f], src)
        /\ MovedIn(h, src) = Put(EnsureAncestors(tree[g], path), path, e)
    BY <1>7 DEF MovedOut, MovedIn
  <2>2. EnsureAncestors(tree[g], path) \in Trees
        /\ TreeOK(born, EnsureAncestors(tree[g], path))
    BY <1>2, <1>3, EnsureIs, EnsureOK
  <2>3. MovedOut(h, src) \in Trees /\ TreeOK(born, MovedOut(h, src))
    BY <1>2, <1>3, <2>1, DropIs, DropOK
  <2>4. MovedIn(h, src) \in Trees /\ TreeOK(born, MovedIn(h, src))
    BY <1>2, <2>1, <2>2, PutIs, PutOK
  <2> DEFINE A == MovedOut(h, src)
             B == MovedIn(h, src)
  <2>5. tree' = [tree EXCEPT ![f] = A, ![g] = B]
    BY <1>5, <1>7, <2>1
  <2>. HIDE DEF A, B, f, g, path, e
  <2>6. tree' = [k \in Folders |-> IF k = g THEN B ELSE IF k = f THEN A ELSE tree[k]]
    BY <1>2, <1>4, <1>7, <2>5
  <2>. USE DEF A, B, f, g
  <2>. QED BY <2>3, <2>4, <2>6
<1>. QED BY <1>6, <1>7

\* The tree that the last transaction of a folder move leaves.
Rest(h, p) == CHOOSE m \in op[h].plan : m.dst = p
Replanted(h) ==
  LET plan == op[h].plan
      old  == tree[op[h].home]
      dsts == {m.dst : m \in plan}
      srcs == {m.src : m \in plan}
  IN  [meta |-> [p \in Paths |-> IF p \in dsts THEN Rest(h, p).entry
                                 ELSE IF p \in srcs THEN None ELSE old.meta[p]],
       docs |-> [p \in Paths |-> IF p \in dsts /\ Rest(h, p).entry.type = "folder"
                                 THEN Rest(h, p).entry.id
                                 ELSE IF p \in srcs THEN None ELSE old.docs[p]]]

\* Every entry of the plan has a target of its own, a place like its own.
LEMMA PlanFacts ==
  ASSUME NEW ids, NEW plan \in SUBSET Moves, PlanOK(ids, plan)
  PROVE  /\ \A m \in plan : /\ m.src \in Paths /\ m.dst \in Paths /\ m.entry \in Entries
                            /\ EntryOK(ids, m.src, m.entry) /\ EntryOK(ids, m.dst, m.entry)
         /\ \A m, n \in plan : m.dst # n.src
         /\ \A m, n \in plan : m.dst = n.dst => m.src = n.src
<1>1. CASE plan = {}
  BY <1>1
<1>2. CASE plan # {}
  <2>1. PICK d \in Dirs, e \in Dirs :
          d # e /\ \A m \in plan :
            /\ Inside(m.src, d)
            /\ m.dst = IF m.src = <<Root, d>> THEN <<Root, e>> ELSE <<e, m.src[2]>>
            /\ EntryOK(ids, m.src, m.entry)
    BY <1>2 DEF PlanOK
  <2>2. \A m \in plan : m.src \in Paths /\ m.dst \in Paths /\ m.entry \in Entries
    BY DEF Moves
  <2>3. d # Root /\ e # Root
    BY FoldersAssumption
  <2>4. ASSUME NEW m \in plan
        PROVE  \/ m.src = <<Root, d>> /\ m.dst = <<Root, e>> /\ m.src \notin Files /\ m.dst \notin Files
               \/ /\ m.src = <<d, m.src[2]>> /\ m.dst = <<e, m.src[2]>>
                  /\ m.src \in Files /\ m.dst \in Files
    <3>1. CASE m.src = <<Root, d>>
      BY <2>1, <3>1, PathFacts
    <3>2. CASE m.src # <<Root, d>>
      <4>1. m.src[1] = d /\ m.dst = <<e, m.src[2]>>
        BY <2>1, <3>2 DEF Inside
      <4>2. m.src = <<d, m.src[2]>> /\ m.src[2] \in Names
        BY <2>2, <2>3, <4>1, PathFacts
      <4>. QED BY <4>1, <4>2, PathFacts
    <3>. QED BY <3>1, <3>2
  <2>5. \A m, n \in plan : m.dst # n.src
    BY <2>1, <2>3, <2>4
  <2>6. \A m, n \in plan : m.dst = n.dst => m.src = n.src
    BY <2>1, <2>3, <2>4
  <2>7. \A m \in plan : EntryOK(ids, m.dst, m.entry)
    BY <2>1, <2>4 DEF EntryOK
  <2>. QED BY <2>1, <2>2, <2>5, <2>6, <2>7
<1>. QED BY <1>1, <1>2

\* What the end of a folder move makes of its folder document.
LEMMA ReplantedIs ==
  ASSUME Typed, NEW h \in Handlers
  PROVE  /\ Replanted(h) \in Trees /\ TreeOK(born, Replanted(h))
         /\ \A p \in Paths :
              \/ \E m \in op[h].plan :
                   /\ m.dst = p /\ Replanted(h).meta[p] = m.entry
                   /\ Replanted(h).docs[p] = IF m.entry.type = "folder" THEN m.entry.id
                                             ELSE tree[op[h].home].docs[p]
              \/ /\ \A m \in op[h].plan : m.dst # p
                 /\ \E m \in op[h].plan : m.src = p
                 /\ Replanted(h).meta[p] = None /\ Replanted(h).docs[p] = None
              \/ /\ \A m \in op[h].plan : m.dst # p /\ m.src # p
                 /\ Replanted(h).meta[p] = tree[op[h].home].meta[p]
                 /\ Replanted(h).docs[p] = tree[op[h].home].docs[p]
<1> DEFINE plan == op[h].plan
           old  == tree[op[h].home]
<1>1. op[h] \in Records /\ OpOK(born, op[h])
  BY DEF Typed, OpTypes
<1>2. plan \in SUBSET Moves /\ PlanOK(born, plan) /\ op[h].home \in Folders
  BY <1>1 DEF Records, OpOK
<1>3. old \in Trees /\ TreeOK(born, old)
  BY <1>2 DEF Typed, TreeTypes
<1>4. ASSUME NEW p \in Paths
      PROVE  /\ \/ \E m \in plan :
                     /\ m.dst = p /\ Replanted(h).meta[p] = m.entry
                     /\ Replanted(h).docs[p] = IF m.entry.type = "folder" THEN m.entry.id
                                               ELSE old.docs[p]
                \/ /\ \A m \in plan : m.dst # p
                   /\ \E m \in plan : m.src = p
                   /\ Replanted(h).meta[p] = None /\ Replanted(h).docs[p] = None
                \/ /\ \A m \in plan : m.dst # p /\ m.src # p
                   /\ Replanted(h).meta[p] = old.meta[p]
                   /\ Replanted(h).docs[p] = old.docs[p]
             /\ Replanted(h).meta[p] \in Entries \cup {None}
             /\ Replanted(h).docs[p] \in Docs \cup {DirId, None}
             /\ Replanted(h).meta[p] # None => EntryOK(born, p, Replanted(h).meta[p])
  <2>1. CASE \E m \in plan : m.dst = p
    <3>1. Rest(h, p) \in plan /\ Rest(h, p).dst = p
      BY <2>1 DEF Rest
    <3>2. /\ Replanted(h).meta[p] = Rest(h, p).entry
          /\ Replanted(h).docs[p] = IF Rest(h, p).entry.type = "folder" THEN Rest(h, p).entry.id
                                    ELSE IF p \in {m.src : m \in plan} THEN None ELSE old.docs[p]
      BY <3>1 DEF Replanted
    <3>3. p \notin {m.src : m \in plan}
      BY <1>2, <3>1, PlanFacts
    <3>4. Rest(h, p).entry \in Entries /\ EntryOK(born, p, Rest(h, p).entry)
      BY <1>2, <3>1, PlanFacts
    <3>5. old.docs[p] \in Docs \cup {DirId, None}
      BY <1>3 DEF Trees
    <3>. QED BY <3>1, <3>2, <3>3, <3>4, <3>5 DEF Entries
  <2>2. CASE (\A m \in plan : m.dst # p) /\ \E m \in plan : m.src = p
    <3>1. Replanted(h).meta[p] = None /\ Replanted(h).docs[p] = None
      BY <2>2 DEF Replanted
    <3>. QED BY <2>2, <3>1
  <2>3. CASE \A m \in plan : m.dst # p /\ m.src # p
    <3>1. Replanted(h).meta[p] = old.meta[p] /\ Replanted(h).docs[p] = old.docs[p]
      BY <2>3 DEF Replanted
    <3>. QED BY <1>3, <2>3, <3>1 DEF Trees, TreeOK
  <2>. QED BY <2>1, <2>2, <2>3
<1>5. Replanted(h) = [meta |-> [p \in Paths |-> Replanted(h).meta[p]],
                      docs |-> [p \in Paths |-> Replanted(h).docs[p]]]
  BY DEF Replanted
<1>6. Replanted(h) \in Trees
  <2>1. [p \in Paths |-> Replanted(h).meta[p]] \in [Paths -> Entries \cup {None}]
    BY <1>4
  <2>2. [p \in Paths |-> Replanted(h).docs[p]] \in [Paths -> Docs \cup {DirId, None}]
    BY <1>4
  <2>. QED BY <1>5, <2>1, <2>2 DEF Trees
<1>. QED BY <1>4, <1>6 DEF TreeOK

\* The action writes just that.
LEMMA FolderMoveEndsIs ==
  ASSUME NEW h \in Handlers, FolderMoveEnds(h)
  PROVE  tree' = [tree EXCEPT ![op[h].home] = Replanted(h)]
BY DEF FolderMoveEnds, Replanted, Rest

\* What a handler holds is typed, with what follows from its step.
LEMMA OpFacts ==
  ASSUME Typed, NEW h \in Handlers
  PROVE  /\ op[h] \in Records /\ OpOK(born, op[h]) /\ born \subseteq Docs
         /\ op[h].from \in Folders /\ op[h].to \in Folders /\ op[h].home \in Folders
         /\ op[h].left \in SUBSET Folders /\ op[h].plan \in SUBSET Moves
         /\ tree[op[h].from] \in Trees /\ TreeOK(born, tree[op[h].from])
         /\ tree[op[h].to] \in Trees /\ TreeOK(born, tree[op[h].to])
         /\ tree[op[h].home] \in Trees /\ TreeOK(born, tree[op[h].home])
BY DEF Typed, OpTypes, HistTypes, TreeTypes, Records

\* A document's folder, and the entry that a scan for it finds.
LEMMA ListedInFacts ==
  ASSUME Typed, NEW u \in Docs, ListedIn(u) # {}
  PROVE  /\ Max(ListedIn(u)) \in ListedIn(u) /\ Max(ListedIn(u)) \in Folders
         /\ u \in born
<1>1. ListedIn(u) \in SUBSET Folders
  BY DEF ListedIn
<1>2. Max(ListedIn(u)) \in ListedIn(u)
  BY <1>1, MaxIs
<1>3. PICK p \in Lists(tree[Max(ListedIn(u))], u) : TRUE
  BY <1>2 DEF ListedIn
<1>4. tree[Max(ListedIn(u))] \in Trees /\ TreeOK(born, tree[Max(ListedIn(u))]) /\ born \subseteq Docs
  BY <1>1, <1>2 DEF Typed, TreeTypes, HistTypes
<1>. QED BY <1>1, <1>2, <1>3, <1>4, ListedEntry

\* The answer of a request adds its own document to the promises.
LEMMA AnswersTyped ==
  ASSUME Typed, NEW h \in Handlers, NEW o \in Records, OpOK(born, o), Answers(h, o),
         UNCHANGED <<boundVars, deleted, crossing, contested, misfiled>>
  PROVE  OpTypes' /\ HistTypes'
<1>1. {o.id} \ ({None} \cup deleted) \subseteq born
  BY DEF OpOK
<1>2. HistTypes'
  BY <1>1 DEF Typed, HistTypes, Answers, boundVars
<1>3. OpTypes'
  BY OpPut, IdleTyped, IdleOK DEF Typed, Answers, boundVars
<1>. QED BY <1>2, <1>3

\* Every step of a handler keeps the types.
LEMMA HandlerTyped == ASSUME Typed, NEW h \in Handlers, HandlerStep(h) PROVE Typed'
<1> DEFINE o == op[h]
<1>t. TreeTypes /\ RowTypes /\ WorkTypes /\ OpTypes /\ HistTypes
  BY DEF Typed
<1>o. /\ o \in Records /\ OpOK(born, o) /\ born \subseteq Docs
      /\ o.from \in Folders /\ o.to \in Folders /\ o.home \in Folders
      /\ o.left \in SUBSET Folders
      /\ tree[o.from] \in Trees /\ TreeOK(born, tree[o.from])
      /\ tree[o.to] \in Trees /\ TreeOK(born, tree[o.to])
      /\ tree[o.home] \in Trees /\ TreeOK(born, tree[o.home])
  BY OpFacts
<1> USE DEF treeVars, resVars, workVars, boundVars, histVars
<1>1. ASSUME NEW f \in Folders, NEW p \in Files, NEW u \in Docs,
             NEW t \in {"markdown", "file"}, CreateBegins(h, f, p, u, t)
      PROVE  Typed'
  <2> DEFINE r == [Idle EXCEPT !.pc = "write", !.from = f, !.to = f,
                               !.path = p, !.id = u, !.type = t]
  <2>1. r \in Records /\ OpOK(born', r)
    BY <1>1, PathFacts, IdleOK, IdleTyped, FoldersAssumption
       DEF CreateBegins, Idle, Records, Pcs, Types, OpOK
  <2>2. OpTypes'
    BY <1>t, <1>1, <2>1, OpPut DEF CreateBegins
  <2>3. TreeTypes'
    BY <1>t, <1>1, TreeOKGrows DEF CreateBegins, TreeTypes
  <2>4. RowTypes' /\ WorkTypes'
    BY <1>t, <1>1 DEF CreateBegins, RowTypes, ResolverType, WorkTypes
  <2>5. HistTypes'
    BY <1>t, <1>1, BoundsAssumption DEF CreateBegins, Begins, HistTypes
  <2>. QED BY <2>2, <2>3, <2>4, <2>5 DEF Typed
<1>2. ASSUME CreateFails(h) \/ MoveFails(h) PROVE Typed'
  <2>1. Fails(h)
    BY <1>2 DEF CreateFails, MoveFails
  <2>2. OpTypes'
    BY <1>t, <2>1, OpPut, IdleTyped, IdleOK DEF Fails
  <2>3. TreeTypes' /\ RowTypes' /\ WorkTypes' /\ HistTypes'
    BY <1>t, <2>1 DEF Fails, TreeTypes, RowTypes, ResolverType, WorkTypes, HistTypes
  <2>. QED BY <2>2, <2>3 DEF Typed
<1>3. ASSUME CreateWrites(h) PROVE Typed'
  <2> DEFINE e == [id |-> o.id, type |-> o.type, hash |-> 0]
             t == EnsureAncestors(tree[o.from], o.path)
  <2>1. o.pc = "write" /\ o.id \in Docs /\ o.id \in born /\ o.path \in Files /\ o.path \in Paths
    BY <1>3, <1>o, PathFacts DEF CreateWrites, OpOK, Records
  <2>2. e \in Entries /\ EntryOK(born, o.path, e)
    BY <1>o, <2>1, FoldersAssumption DEF OpOK, Entries, EntryOK, Records
  <2>3. t \in Trees /\ TreeOK(born, t)
    BY <1>o, <2>1, EnsureIs, EnsureOK
  <2>4. Put(t, o.path, e) \in Trees /\ TreeOK(born, Put(t, o.path, e))
    BY <2>1, <2>2, <2>3, PutIs, PutOK
  <2>5. TreeTypes'
    <3>1. tree' = [tree EXCEPT ![o.from] = Put(t, o.path, e)] /\ stored' = stored /\ born' = born
      BY <1>3 DEF CreateWrites
    <3>. QED BY <1>t, <1>o, <2>4, <3>1, TreePut
  <2>6. OpTypes'
    <3>1. op' = [op EXCEPT ![h] = [o EXCEPT !.pc = "upsert"]] /\ born' = born
      BY <1>3 DEF CreateWrites
    <3>2. [o EXCEPT !.pc = "upsert"] \in Records /\ OpOK(born, [o EXCEPT !.pc = "upsert"])
      BY <1>o, <2>1 DEF Records, OpOK, Pcs
    <3>. QED BY <1>t, <3>1, <3>2, OpPut
  <2>7. WorkTypes'
    <3>1. Queue({o.from})
      BY <1>3 DEF CreateWrites
    <3>. QED BY <1>t, <1>o, <3>1, QueueTyped
  <2>8. RowTypes'
    BY <1>t, <1>3 DEF CreateWrites, RowTypes, ResolverType
  <2>9. HistTypes'
    <3>1. Replaced(tree[o.from], o.path, o.id) \subseteq born
      BY <1>o, <2>1, ReplacedTyped
    <3>. QED BY <1>t, <1>3, <3>1 DEF CreateWrites, HistTypes
  <2>. QED BY <2>5, <2>6, <2>7, <2>8, <2>9 DEF Typed
<1>4. ASSUME CreateUpserts(h) PROVE Typed'
  <2> DEFINE x == <<o.from, o.path>>
             r == [o EXCEPT !.pc = "save", !.left = {o.from}]
  <2>1. /\ o.pc = "upsert" /\ o.id \in Docs /\ o.id \in born /\ o.path \in Files /\ o.path \in Paths
        /\ x \in Folders \X Paths
    BY <1>4, <1>o, PathFacts DEF CreateUpserts, OpOK, Records
  <2>2. r \in Records /\ OpOK(born, r)
    BY <1>o, <2>1 DEF Records, OpOK, Pcs
  <2>3. OpTypes'
    <3>1. op' = [op EXCEPT ![h] = r] /\ born' = born
      BY <1>4 DEF CreateUpserts
    <3>. QED BY <1>t, <2>2, <3>1, OpPut
  <2>4. TreeTypes' /\ WorkTypes'
    BY <1>t, <1>4 DEF CreateUpserts, TreeTypes, WorkTypes
  <2>5. RowTypes'
    <3>1. Upsert(o.id, x, [id |-> o.id, owner |-> o.from]) /\ born' = born
      BY <1>4 DEF CreateUpserts
    <3>. QED BY <1>t, <1>o, <2>1, <3>1, UpsertTyped
  <2>6. HistTypes'
    <3>1. /\ Replaced(tree[o.from], o.path, o.id) \subseteq born
          /\ Unfiled(o.id, x) \subseteq born
      BY <1>t, <1>o, <2>1, ReplacedTyped, UnfiledTyped
    <3>2. misfiled' \subseteq born
      BY <1>t, <1>4, <2>1, <3>1 DEF CreateUpserts, HistTypes
    <3>. QED BY <1>t, <1>4, <3>2 DEF CreateUpserts, HistTypes
  <2>. QED BY <2>3, <2>4, <2>5, <2>6 DEF Typed
<1>5. ASSUME NEW ok \in BOOLEAN, Save(h, ok) PROVE Typed'
  <2> DEFINE f == Min(o.left)
             left == o.left \ {f}
             r == [o EXCEPT !.left = left, !.ok = @ /\ ok,
                            !.pc = IF left = {} THEN o.after ELSE "save"]
  <2>1. o.pc = "save" /\ o.left # {} /\ o.after \in {"idle", "queue", "clear"}
    BY <1>5, <1>o DEF Save, OpOK
  <2>2. f \in o.left /\ f \in Folders
    BY <1>o, <2>1, MinIs
  <2>3. r \in Records
    <3>1. (o.ok /\ ok) \in BOOLEAN /\ left \in SUBSET Folders
          /\ (IF left = {} THEN o.after ELSE "save") \in Pcs
      BY <1>o, <2>1 DEF Pcs
    <3>. HIDE DEF left
    <3>. QED BY <1>o, <3>1, Zenon DEF Records
  <2>4. OpOK(born, r)
    BY <1>o, <2>1 DEF OpOK, Records
  <2>5. OpTypes' /\ HistTypes'
    <3>1. UNCHANGED <<boundVars, deleted, contested, misfiled>> /\ crossing' \subseteq crossing
      BY <1>5 DEF Save
    <3>2. CASE r.pc = "idle"
      <4>1. Answers(h, r)
        BY <1>5, <3>2 DEF Save
      <4>2. {r.id} \ ({None} \cup deleted) \subseteq born
        BY <2>4 DEF OpOK
      <4>3. HistTypes'
        BY <1>t, <3>1, <4>1, <4>2 DEF Answers, HistTypes
      <4>4. OpTypes'
        BY <1>t, <3>1, <4>1, OpPut, IdleTyped, IdleOK DEF Answers
      <4>. QED BY <4>3, <4>4
    <3>3. CASE r.pc # "idle"
      <4>1. op' = [op EXCEPT ![h] = r] /\ UNCHANGED <<owed, safe>>
        BY <1>5, <3>3 DEF Save
      <4>2. OpTypes'
        BY <1>t, <2>3, <2>4, <3>1, <4>1, OpPut
      <4>. QED BY <1>t, <3>1, <4>1, <4>2 DEF HistTypes
    <3>. QED BY <3>2, <3>3
  <2>6. TreeTypes'
    <3>1. tree' = tree /\ born' = born
          /\ (stored' = [stored EXCEPT ![f] = tree[f]] \/ stored' = stored)
      BY <1>5 DEF Save
    <3>. QED BY <1>t, <2>2, <3>1, StoredPut DEF TreeTypes
  <2>7. RowTypes' /\ WorkTypes'
    BY <1>t, <1>5 DEF Save, RowTypes, ResolverType, WorkTypes
  <2>. QED BY <2>5, <2>6, <2>7 DEF Typed
<1>6. ASSUME Queues(h) PROVE Typed'
  <2>1. o.pc = "queue" /\ Queue({o.from, o.to})
        /\ UNCHANGED <<treeVars, resVars, boundVars, deleted, crossing, contested, misfiled>>
    BY <1>6 DEF Queues
  <2>2. OpTypes' /\ HistTypes'
    <3>1. CASE o.plan # {}
      <4>1. op' = [op EXCEPT ![h] = [o EXCEPT !.pc = "next"]] /\ UNCHANGED <<owed, safe>>
        BY <1>6, <3>1 DEF Queues
      <4>2. [o EXCEPT !.pc = "next"] \in Records /\ OpOK(born, [o EXCEPT !.pc = "next"])
        BY <1>o DEF Records, OpOK, Pcs
      <4>3. OpTypes'
        BY <1>t, <2>1, <4>1, <4>2, OpPut
      <4>. QED BY <1>t, <2>1, <4>1, <4>3 DEF HistTypes
    <3>2. CASE o.plan = {}
      <4>1. Answers(h, o)
        BY <1>6, <3>2 DEF Queues
      <4>. QED BY <1>o, <2>1, <4>1, AnswersTyped
    <3>. QED BY <3>1, <3>2
  <2>3. WorkTypes'
    BY <1>t, <1>o, <2>1, QueueTyped
  <2>4. TreeTypes' /\ RowTypes'
    BY <1>t, <2>1 DEF TreeTypes, RowTypes, ResolverType
  <2>. QED BY <2>2, <2>3, <2>4 DEF Typed
<1>7. ASSUME NEW u \in Docs, NEW g \in Folders, NEW q \in Files, MoveBegins(h, u, g, q)
      PROVE  Typed'
  <2> DEFINE r == MoveTo(Idle, u, Max(ListedIn(u)), g, q)
  <2>1. ListedIn(u) # {}
    BY <1>7 DEF MoveBegins, Movable
  <2>2. Max(ListedIn(u)) \in Folders /\ u \in born
    BY <2>1, ListedInFacts
  <2>3. r \in Records /\ OpOK(born, r)
    BY <2>2, IdleOK, IdleTyped, PathFacts, FoldersAssumption
       DEF MoveTo, Idle, Records, Pcs, OpOK
  <2>4. OpTypes'
    BY <1>t, <1>7, <2>3, OpPut DEF MoveBegins
  <2>5. TreeTypes' /\ RowTypes' /\ WorkTypes'
    BY <1>t, <1>7 DEF MoveBegins, TreeTypes, RowTypes, ResolverType, WorkTypes
  <2>6. HistTypes'
    BY <1>t, <1>7, BoundsAssumption DEF MoveBegins, Begins, HistTypes
  <2>. QED BY <2>4, <2>5, <2>6 DEF Typed
<1>8. ASSUME MoveApplies(h) PROVE Typed'
  <2> DEFINE src == CHOOSE p \in Lists(tree[o.from], o.id) : TRUE
  <2>1. o.pc = "apply" /\ Lists(tree[o.from], o.id) # {}
    BY <1>8 DEF MoveApplies
  <2>2. o.id \in Docs /\ o.id \in born /\ o.path \in Files /\ o.path \in Paths
    BY <2>1, MoveSource
  <2>3. /\ MovedOut(h, src) \in Trees /\ MovedIn(h, src) \in Trees
        /\ TreeOK(born, MovedOut(h, src)) /\ TreeOK(born, MovedIn(h, src))
        /\ tree' = [g \in Folders |-> IF g = o.to THEN MovedIn(h, src)
                                      ELSE IF g = o.from THEN MovedOut(h, src) ELSE tree[g]]
    BY <1>8, MoveTrees
  <2>4. TreeTypes'
    <3>1. UNCHANGED <<stored, born>>
      BY <1>8 DEF MoveApplies
    <3>. HIDE DEF src
    <3>. QED BY <1>t, <2>3, <3>1 DEF TreeTypes
  <2>5. OpTypes'
    <3> DEFINE r == [o EXCEPT !.pc = "save", !.left = Folders, !.after = "queue"]
    <3>1. op' = [op EXCEPT ![h] = r] /\ born' = born
      BY <1>8 DEF MoveApplies
    <3>2. r \in Records /\ OpOK(born, r)
      BY <1>o, <2>1 DEF Records, OpOK, Pcs
    <3>. QED BY <1>t, <3>1, <3>2, OpPut
  <2>6. RowTypes'
    <3> DEFINE old == IF pathOf[o.id] = None THEN None ELSE byPath[pathOf[o.id]]
               own == IF old = None THEN o.from ELSE old.owner
    <3>1. own \in Folders
      BY <1>t, <1>o, <2>2 DEF RowTypes, ResolverType
    <3>2. Upsert(o.id, <<o.to, o.path>>, [id |-> o.id, owner |-> own]) /\ born' = born
      BY <1>8 DEF MoveApplies
    <3>3. <<o.to, o.path>> \in Folders \X Paths
      BY <1>o, <2>2
    <3>. HIDE DEF own
    <3>. QED BY <1>t, <2>2, <3>1, <3>2, <3>3, UpsertTyped
  <2>7. WorkTypes'
    BY <1>t, <1>8 DEF MoveApplies, WorkTypes
  <2>8. HistTypes'
    <3>1. /\ Replaced(tree[o.to], o.path, o.id) \subseteq born
          /\ Unfiled(o.id, <<o.to, o.path>>) \subseteq born
      BY <1>t, <1>o, <2>2, ReplacedTyped, UnfiledTyped
    <3>2. misfiled' \subseteq misfiled \cup Unfiled(o.id, <<o.to, o.path>>) \cup {o.id}
      BY <1>8 DEF MoveApplies
    <3>3. /\ contested' = contested \cup Replaced(tree[o.to], o.path, o.id)
          /\ crossing' \subseteq crossing \cup ({o.id} \X {o.from, o.to})
          /\ UNCHANGED <<boundVars, owed, safe, deleted>>
      BY <1>8 DEF MoveApplies
    <3>. QED BY <1>t, <1>o, <2>2, <3>1, <3>2, <3>3 DEF HistTypes
  <2>. QED BY <2>4, <2>5, <2>6, <2>7, <2>8 DEF Typed
<1>9. ASSUME NEW f \in Folders, NEW d \in Dirs, NEW e \in Dirs, FolderMoveBegins(h, f, d, e)
      PROVE  Typed'
  <2> DEFINE plan == PlanOf(f, d, e)
             r == [Idle EXCEPT !.pc = "next", !.plan = plan, !.home = f]
  <2>1. tree[f] \in Trees /\ TreeOK(born, tree[f]) /\ d # e
    BY <1>t, <1>9 DEF TreeTypes, FolderMoveBegins
  <2>2. ASSUME NEW p \in Paths, Inside(p, d), ~Free(f, p)
        PROVE  /\ tree[f].meta[p] \in Entries /\ EntryOK(born, p, tree[f].meta[p])
               /\ <<Root, e>> \in Paths
               /\ p # <<Root, d>> => <<e, p[2]>> \in Paths
    <3>1. d # Root
      BY FoldersAssumption
    <3>2. p # <<Root, d>> => p[2] \in Names
      BY <2>2, <3>1, PathFacts DEF Inside
    <3>. QED BY <2>1, <2>2, <3>2, PathFacts DEF Free, Trees, TreeOK
  <2>3. ASSUME NEW m \in plan
        PROVE  /\ m \in Moves /\ Inside(m.src, d) /\ EntryOK(born, m.src, m.entry)
               /\ m.dst = IF m.src = <<Root, d>> THEN <<Root, e>> ELSE <<e, m.src[2]>>
    <3>1. PICK p \in Paths :
            /\ Inside(p, d) /\ ~Free(f, p)
            /\ m = [src |-> p, dst |-> IF p = <<Root, d>> THEN <<Root, e>> ELSE <<e, p[2]>>,
                    entry |-> tree[f].meta[p]]
      BY DEF PlanOf
    <3>. QED BY <2>2, <3>1 DEF Moves
  <2>4. PlanOK(born, plan) /\ plan \in SUBSET Moves
    <3>. HIDE DEF plan
    <3>. QED BY <2>1, <2>3 DEF PlanOK
  <2>5. r \in Records /\ OpOK(born, r)
    <3>. HIDE DEF plan
    <3>. QED BY <2>4, IdleOK, IdleTyped, FoldersAssumption DEF Idle, Records, Pcs, OpOK
  <2>6. OpTypes'
    <3>1. op' = [op EXCEPT ![h] = r] /\ born' = born
      BY <1>9 DEF FolderMoveBegins
    <3>. HIDE DEF r
    <3>. QED BY <1>t, <2>5, <3>1, OpPut
  <2>7. TreeTypes' /\ RowTypes' /\ WorkTypes'
    BY <1>t, <1>9 DEF FolderMoveBegins, TreeTypes, RowTypes, ResolverType, WorkTypes
  <2>8. HistTypes'
    BY <1>t, <1>9, BoundsAssumption DEF FolderMoveBegins, Begins, HistTypes
  <2>. QED BY <2>6, <2>7, <2>8 DEF Typed
<1>10. ASSUME FolderMovesDoc(h) PROVE Typed'
  <2>1. PICK m \in o.plan :
          /\ o.pc = "next" /\ IsDocMove(m)
          /\ IF Movable(m.entry.id, Max(ListedIn(m.entry.id) \cup {1}), m.dst)
             THEN op' = [op EXCEPT ![h] =
                          MoveTo([o EXCEPT !.plan = o.plan \ {m}], m.entry.id,
                                 Max(ListedIn(m.entry.id)), Max(ListedIn(m.entry.id)), m.dst)]
             ELSE op' = [op EXCEPT ![h] = Idle]
          /\ UNCHANGED <<treeVars, resVars, workVars, boundVars, histVars>>
    BY <1>10, Zenon DEF FolderMovesDoc
  <2>2. OpTypes'
    <3> DEFINE u == m.entry.id
               r == MoveTo([o EXCEPT !.plan = o.plan \ {m}], u, Max(ListedIn(u)),
                           Max(ListedIn(u)), m.dst)
    <3>1. CASE Movable(u, Max(ListedIn(u) \cup {1}), m.dst)
      <4>1. m \in Moves /\ PlanOK(born, o.plan) /\ o.plan \in SUBSET Moves
        BY <1>o, OpFacts DEF OpOK
      <4>2. m.dst \in Paths /\ EntryOK(born, m.dst, m.entry) /\ m.entry \in Entries
        BY <4>1, PlanFacts
      <4>3. u \in Docs /\ m.dst \in Files
        BY <2>1, <4>2 DEF IsDocMove, EntryOK, Entries
      <4>4. Max(ListedIn(u)) \in Folders /\ u \in born
        BY <3>1, <4>3, ListedInFacts DEF Movable
      <4>5. PlanOK(born, o.plan \ {m})
        BY <4>1 DEF PlanOK
      <4>6. r \in Records
        BY <1>o, <4>1, <4>2, <4>3, <4>4 DEF MoveTo, Records, Pcs
      <4>7. OpOK(born, r)
        BY <1>o, <4>3, <4>4, <4>5, FoldersAssumption DEF MoveTo, Records, OpOK
      <4>8. op' = [op EXCEPT ![h] = r] /\ born' = born
        BY <2>1, <3>1
      <4>. HIDE DEF r
      <4>. QED BY <1>t, <4>6, <4>7, <4>8, OpPut
    <3>2. CASE ~Movable(u, Max(ListedIn(u) \cup {1}), m.dst)
      BY <1>t, <2>1, <3>2, OpPut, IdleTyped, IdleOK
    <3>. QED BY <3>1, <3>2
  <2>3. TreeTypes' /\ RowTypes' /\ WorkTypes' /\ HistTypes'
    BY <1>t, <2>1 DEF TreeTypes, RowTypes, ResolverType, WorkTypes, HistTypes
  <2>. QED BY <2>2, <2>3 DEF Typed
<1>11. ASSUME FolderMoveEnds(h) PROVE Typed'
  <2>1. o.pc = "next" /\ PlanOK(born, o.plan) /\ o.plan \in SUBSET Moves
    BY <1>11, <1>o, OpFacts DEF FolderMoveEnds, OpOK
  <2>2. TreeTypes'
    <3>1. tree' = [tree EXCEPT ![o.home] = Replanted(h)]
      BY <1>11, FolderMoveEndsIs
    <3>2. UNCHANGED <<stored, born>>
      BY <1>11 DEF FolderMoveEnds
    <3>. QED BY <1>t, <1>o, <3>1, <3>2, ReplantedIs, TreePut
  <2>3. OpTypes'
    <3> DEFINE r == [o EXCEPT !.pc = "save", !.plan = {}, !.left = {o.home},
                              !.from = o.home, !.to = o.home, !.after = "clear", !.id = None]
    <3>1. op' = [op EXCEPT ![h] = r] /\ born' = born
      BY <1>11 DEF FolderMoveEnds
    <3>2. r \in Records /\ OpOK(born, r)
      BY <1>o DEF Records, OpOK, PlanOK, Pcs
    <3>. HIDE DEF r
    <3>. QED BY <1>t, <3>1, <3>2, OpPut
  <2>4. RowTypes' /\ WorkTypes'
    BY <1>t, <1>11 DEF FolderMoveEnds, RowTypes, ResolverType, WorkTypes
  <2>5. HistTypes'
    <3> DEFINE old == tree[o.home]
    <3>1. ASSUME NEW m \in o.plan
          PROVE  /\ Replaced(old, m.dst, m.entry.id) \subseteq born
                 /\ Replaced(old, m.src, m.entry.id) \subseteq born
                 /\ {m.entry.id} \ {DirId} \subseteq born
      BY <1>o, <2>1, PlanFacts, ReplacedTyped DEF EntryOK
    <3>2. contested' = contested
           \cup (UNION {Replaced(old, m.dst, m.entry.id) : m \in o.plan})
           \cup (UNION {Replaced(old, m.src, m.entry.id) : m \in o.plan})
           \cup ({m.entry.id : m \in {n \in o.plan : old.meta[n.src] # n.entry}} \ {DirId})
      BY <1>11 DEF FolderMoveEnds
    <3>3. contested' \subseteq born
      <4> DEFINE A == UNION {Replaced(old, m.dst, m.entry.id) : m \in o.plan}
                 B == UNION {Replaced(old, m.src, m.entry.id) : m \in o.plan}
                 C == {m.entry.id : m \in {n \in o.plan : old.meta[n.src] # n.entry}} \ {DirId}
      <4>1. A \subseteq born /\ B \subseteq born /\ C \subseteq born
        BY <3>1
      <4>2. contested' = contested \cup A \cup B \cup C
        BY <3>2
      <4>. HIDE DEF A, B, C
      <4>. QED BY <1>t, <4>1, <4>2 DEF HistTypes
    <3>. QED BY <1>t, <1>11, <3>3 DEF FolderMoveEnds, HistTypes
  <2>. QED BY <2>2, <2>3, <2>4, <2>5 DEF Typed
<1>12. ASSUME NEW f \in Folders, NEW p \in Files, NEW q \in Files, FileMoves(h, f, p, q)
       PROVE  Typed'
  <2>1. p \in Paths /\ q \in Paths /\ tree[f] \in Trees /\ TreeOK(born, tree[f])
        /\ tree[f].meta[p] # None
    BY <1>t, <1>12, PathFacts DEF TreeTypes, FileMoves, Free
  <2>2. tree[f].meta[p] \in Entries /\ EntryOK(born, q, tree[f].meta[p])
    BY <1>o, <2>1, FileEntry DEF EntryOK
  <2>3. Drop(tree[f], p) \in Trees /\ TreeOK(born, Drop(tree[f], p))
    BY <2>1, DropIs, DropOK
  <2>4. /\ Put(Drop(tree[f], p), q, tree[f].meta[p]) \in Trees
        /\ TreeOK(born, Put(Drop(tree[f], p), q, tree[f].meta[p]))
    BY <2>1, <2>2, <2>3, PutIs, PutOK
  <2>5. TreeTypes'
    <3>1. tree' = [tree EXCEPT ![f] = Put(Drop(tree[f], p), q, tree[f].meta[p])]
          /\ UNCHANGED <<stored, born>>
      BY <1>12 DEF FileMoves
    <3>. QED BY <1>t, <2>4, <3>1, TreePut
  <2>6. OpTypes'
    <3> DEFINE r == [Idle EXCEPT !.pc = "save", !.from = f, !.to = f,
                                 !.left = {f}, !.after = "clear"]
    <3>1. op' = [op EXCEPT ![h] = r] /\ born' = born
      BY <1>12 DEF FileMoves
    <3>2. r \in Records /\ OpOK(born, r)
      BY IdleOK, IdleTyped DEF Idle, Records, OpOK, Pcs
    <3>. HIDE DEF r
    <3>. QED BY <1>t, <3>1, <3>2, OpPut
  <2>7. RowTypes' /\ WorkTypes'
    BY <1>t, <1>12 DEF FileMoves, RowTypes, ResolverType, WorkTypes
  <2>8. HistTypes'
    BY <1>t, <1>12, BoundsAssumption DEF FileMoves, Begins, HistTypes
  <2>. QED BY <2>5, <2>6, <2>7, <2>8 DEF Typed
<1>13. ASSUME NEW f \in Folders, NEW p \in Files, HashUpdates(h, f, p) PROVE Typed'
  <2>1. p \in Paths /\ tree[f] \in Trees /\ TreeOK(born, tree[f]) /\ tree[f].meta[p] # None
    BY <1>t, <1>13, PathFacts DEF TreeTypes, HashUpdates, Free
  <2> DEFINE e == [tree[f].meta[p] EXCEPT !.hash = @ + 1]
             t == [tree[f] EXCEPT !.meta = [@ EXCEPT ![p] = e]]
  <2>2. tree[f].meta[p] \in Entries /\ EntryOK(born, p, tree[f].meta[p])
    BY <1>o, <2>1, FileEntry
  <2>3. e \in Entries /\ EntryOK(born, p, e)
    BY <2>2 DEF Entries, EntryOK
  <2>4. t \in Trees /\ TreeOK(born, t)
    <3>. HIDE DEF e
    <3>. QED BY <2>1, <2>3 DEF Trees, TreeOK
  <2>5. TreeTypes'
    <3>1. tree' = [tree EXCEPT ![f] = t] /\ UNCHANGED <<stored, born>>
      BY <1>13 DEF HashUpdates
    <3>. HIDE DEF t
    <3>. QED BY <1>t, <2>4, <3>1, TreePut
  <2>6. OpTypes'
    <3> DEFINE r == [Idle EXCEPT !.pc = "save", !.from = f, !.to = f, !.left = {f}]
    <3>1. op' = [op EXCEPT ![h] = r] /\ born' = born
      BY <1>13 DEF HashUpdates
    <3>2. r \in Records /\ OpOK(born, r)
      BY IdleOK, IdleTyped DEF Idle, Records, OpOK, Pcs
    <3>. HIDE DEF r
    <3>. QED BY <1>t, <3>1, <3>2, OpPut
  <2>7. RowTypes'
    BY <1>t, <1>13 DEF HashUpdates, RowTypes, ResolverType
  <2>8. WorkTypes'
    BY <1>t, <1>13, QueueTyped DEF HashUpdates
  <2>9. HistTypes'
    BY <1>t, <1>13, BoundsAssumption DEF HashUpdates, Begins, HistTypes
  <2>. QED BY <2>5, <2>6, <2>7, <2>8, <2>9 DEF Typed
<1>14. ASSUME RebuildClears(h) PROVE Typed'
  <2> DEFINE left == {f \in Folders : IsFolderDoc(f)}
             r == [o EXCEPT !.pc = IF left = {} THEN "queue" ELSE "rebuild", !.left = left]
  <2>1. o.pc = "clear" /\ op' = [op EXCEPT ![h] = r] /\ born' = born
    BY <1>14 DEF RebuildClears
  <2>2. r \in Records /\ OpOK(born, r)
    BY <1>o, <2>1 DEF Records, OpOK, Pcs
  <2>3. OpTypes'
    <3>. HIDE DEF r
    <3>. QED BY <1>t, <2>1, <2>2, OpPut
  <2>4. TreeTypes' /\ WorkTypes' /\ HistTypes'
    BY <1>t, <1>14 DEF RebuildClears, TreeTypes, WorkTypes, HistTypes
  <2>5. RowTypes'
    BY <1>14 DEF RebuildClears, RowTypes, ResolverType, NoRows
  <2>. QED BY <2>3, <2>4, <2>5 DEF Typed
<1>15. ASSUME RebuildFolder(h) PROVE Typed'
  <2> DEFINE f == Min(o.left)
             r == [o EXCEPT !.left = o.left \ {f},
                            !.pc = IF o.left \ {f} = {} THEN "queue" ELSE @]
  <2>1. o.pc = "rebuild" /\ o.left # {} /\ op' = [op EXCEPT ![h] = r] /\ born' = born
    BY <1>15, <1>o DEF RebuildFolder, OpOK
  <2>2. f \in Folders
    BY <1>o, <2>1, MinIs
  <2>3. r \in Records /\ OpOK(born, r)
    BY <1>o, <2>1 DEF Records, OpOK, Pcs
  <2>4. OpTypes'
    <3>. HIDE DEF r
    <3>. QED BY <1>t, <2>1, <2>3, OpPut
  <2>5. RowTypes'
    BY <1>15, <2>1, <2>2, RebuildFromTyped DEF RebuildFolder
  <2>6. TreeTypes' /\ WorkTypes' /\ HistTypes'
    BY <1>t, <1>15 DEF RebuildFolder, TreeTypes, WorkTypes, HistTypes
  <2>. QED BY <2>4, <2>5, <2>6 DEF Typed
<1>. QED
  BY <1>1, <1>2, <1>3, <1>4, <1>5, <1>6, <1>7, <1>8, <1>9, <1>10, <1>11, <1>12, <1>13,
     <1>14, <1>15 DEF HandlerStep

\* So does every other step.
LEMMA StepTyped == Typed /\ [Next]_vars => Typed'
<1> SUFFICES ASSUME Typed, [Next]_vars PROVE Typed'
  OBVIOUS
<1>t. TreeTypes /\ RowTypes /\ WorkTypes /\ OpTypes /\ HistTypes
  BY DEF Typed
<1> USE DEF treeVars, resVars, workVars, boundVars, histVars
<1>1. ASSUME NEW h \in Handlers, HandlerStep(h) PROVE Typed'
  BY <1>1, HandlerTyped
<1>2. ASSUME NEW f \in Folders, NEW p \in Files, NEW q \in Files, ClientRenames(f, p, q)
      PROVE  Typed'
  <2>1. p \in Paths /\ q \in Paths /\ tree[f] \in Trees /\ TreeOK(born, tree[f])
        /\ tree[f].meta[p] # None /\ born \subseteq Docs
    BY <1>t, <1>2, PathFacts DEF TreeTypes, HistTypes, ClientRenames, HasFile, Free
  <2> DEFINE e == tree[f].meta[p]
             t == EnsureAncestors(Drop(tree[f], p), q)
  <2>2. e \in Entries /\ EntryOK(born, q, e)
    BY <2>1, FileEntry DEF EntryOK
  <2>3. Drop(tree[f], p) \in Trees /\ TreeOK(born, Drop(tree[f], p))
    BY <2>1, DropIs, DropOK
  <2>4. t \in Trees /\ TreeOK(born, t)
    BY <2>3, EnsureIs, EnsureOK
  <2>5. Put(t, q, e) \in Trees /\ TreeOK(born, Put(t, q, e))
    BY <2>1, <2>2, <2>4, PutIs, PutOK
  <2>6. TreeTypes'
    <3>1. tree' = [tree EXCEPT ![f] = Put(t, q, e)] /\ UNCHANGED <<stored, born>>
      BY <1>2 DEF ClientRenames
    <3>. QED BY <1>t, <2>5, <3>1, TreePut
  <2>7. RowTypes' /\ OpTypes'
    BY <1>t, <1>2 DEF ClientRenames, RowTypes, ResolverType, OpTypes
  <2>8. WorkTypes'
    BY <1>t, <1>2, QueueTyped DEF ClientRenames
  <2>9. HistTypes'
    BY <1>t, <1>2, BoundsAssumption DEF ClientRenames, HistTypes
  <2>. QED BY <2>6, <2>7, <2>8, <2>9 DEF Typed
<1>3. ASSUME NEW f \in Folders, NEW p \in Files, ClientDeletes(f, p) PROVE Typed'
  <2>1. p \in Paths /\ tree[f] \in Trees /\ TreeOK(born, tree[f])
        /\ tree[f].meta[p] # None /\ born \subseteq Docs
    BY <1>t, <1>3, PathFacts DEF TreeTypes, HistTypes, ClientDeletes, HasFile, Free
  <2>2. tree[f].meta[p].id \in born
    BY <2>1, FileEntry
  <2>3. Drop(tree[f], p) \in Trees /\ TreeOK(born, Drop(tree[f], p))
    BY <2>1, DropIs, DropOK
  <2>4. TreeTypes'
    BY <1>t, <1>3, <2>3, TreePut DEF ClientDeletes
  <2>5. RowTypes' /\ OpTypes'
    BY <1>t, <1>3 DEF ClientDeletes, RowTypes, ResolverType, OpTypes
  <2>6. WorkTypes'
    BY <1>t, <1>3, QueueTyped DEF ClientDeletes
  <2>7. HistTypes'
    BY <1>t, <1>3, <2>2, BoundsAssumption DEF ClientDeletes, HistTypes
  <2>. QED BY <2>4, <2>5, <2>6, <2>7 DEF Typed
<1>4. ASSUME NEW f \in Folders, WorkerTakes(f) PROVE Typed'
  <2>1. WorkTypes'
    BY <1>t, <1>4, FoldersAssumption DEF WorkerTakes, WorkTypes, Folders
  <2>2. TreeTypes' /\ RowTypes' /\ OpTypes' /\ HistTypes'
    BY <1>t, <1>4 DEF WorkerTakes, TreeTypes, RowTypes, ResolverType, OpTypes, HistTypes
  <2>. QED BY <2>1, <2>2 DEF Typed
<1>5. ASSUME NEW f \in Folders, BackgroundSaves(f) PROVE Typed'
  <2>1. TreeTypes'
    BY <1>t, <1>5, StoredPut DEF BackgroundSaves
  <2>2. WorkTypes' /\ RowTypes' /\ OpTypes' /\ HistTypes'
    BY <1>t, <1>5 DEF BackgroundSaves, WorkTypes, RowTypes, ResolverType, OpTypes, HistTypes
  <2>. QED BY <2>1, <2>2 DEF Typed
<1>6. ASSUME WorkerRemoves PROVE Typed'
  <2>1. RowTypes'
    BY <1>t, <1>6 DEF WorkerRemoves, RemoveFolderEntries, RowTypes, ResolverType
  <2>2. WorkTypes'
    BY <1>t, <1>6 DEF WorkerRemoves, WorkTypes
  <2>3. TreeTypes' /\ OpTypes' /\ HistTypes'
    BY <1>t, <1>6 DEF WorkerRemoves, TreeTypes, OpTypes, HistTypes
  <2>. QED BY <2>1, <2>2, <2>3 DEF Typed
<1>7. ASSUME WorkerRebuilds PROVE Typed'
  <2>1. work.at \in Folders
    BY <1>t, <1>7 DEF WorkerRebuilds, WorkTypes
  <2>2. RowTypes'
    BY <1>7, <2>1, RebuildFromTyped DEF WorkerRebuilds
  <2>3. WorkTypes'
    BY <1>t, <1>7 DEF WorkerRebuilds, WorkTypes
  <2>4. TreeTypes' /\ OpTypes' /\ HistTypes'
    BY <1>t, <1>7 DEF WorkerRebuilds, TreeTypes, OpTypes, HistTypes
  <2>. QED BY <2>2, <2>3, <2>4 DEF Typed
<1>8. ASSUME WorkerAcks PROVE Typed'
  <2>1. WorkTypes'
    BY <1>t, <1>8, FoldersAssumption DEF WorkerAcks, WorkTypes
  <2>2. TreeTypes' /\ RowTypes' /\ OpTypes' /\ HistTypes'
    BY <1>t, <1>8 DEF WorkerAcks, TreeTypes, RowTypes, ResolverType, OpTypes, HistTypes
  <2>. QED BY <2>1, <2>2 DEF Typed
<1>9. ASSUME Crash PROVE Typed'
  <2>1. TreeTypes'
    BY <1>t, <1>9 DEF Crash, TreeTypes
  <2>2. RowTypes'
    <3>1. stored \in [Folders -> Trees] /\ \A f \in Folders : TreeOK(born, stored[f])
      BY <1>t DEF TreeTypes
    <3>2. born \subseteq Docs /\ born' = born
      BY <1>t, <1>9 DEF HistTypes, Crash
    <3>3. /\ byPath' \in [Folders \X Paths -> [id : Docs, owner : Folders] \cup {None}]
          /\ \A x \in Folders \X Paths : byPath'[x] # None => byPath'[x].id \in born
      BY <1>9, <3>1, <3>2, RebuiltTyped DEF Crash
    <3>4. /\ pathOf' \in [Docs -> (Folders \X Paths) \cup {None}]
          /\ \A u \in Docs : pathOf'[u] # None =>
               byPath'[pathOf'[u]] # None /\ byPath'[pathOf'[u]].id = u
      BY <1>9, <3>3, LocatedTyped DEF Crash
    <3>. QED BY <3>2, <3>3, <3>4 DEF RowTypes, ResolverType
  <2>3. WorkTypes'
    BY <1>9, FoldersAssumption DEF Crash, WorkTypes
  <2>4. OpTypes'
    BY <1>9, IdleOK, IdleTyped DEF Crash, OpTypes
  <2>5. HistTypes'
    <3>1. ASSUME NEW u \in Docs, Torn(u) PROVE u \in born
      BY <1>t, <3>1 DEF Torn, HistTypes
    <3>. QED BY <1>t, <1>9, <3>1, BoundsAssumption DEF Crash, HistTypes
  <2>. QED BY <2>1, <2>2, <2>3, <2>4, <2>5 DEF Typed
<1>10. CASE UNCHANGED vars
  BY <1>t, <1>10 DEF vars, Typed, TreeTypes, RowTypes, ResolverType, WorkTypes, OpTypes, HistTypes
<1>. QED BY <1>1, <1>2, <1>3, <1>4, <1>5, <1>6, <1>7, <1>8, <1>9, <1>10 DEF Next

\* Every variable keeps its type: folder documents and their stored copies,
\* the resolver's rows and the handlers' records.
THEOREM TypeCorrect == Spec => []TypeOK
<1>1. Typed => TypeOK
  BY DEF Typed, TreeTypes, RowTypes, WorkTypes, OpTypes, HistTypes, TypeOK, Records
<1>. QED BY <1>1, InitTyped, StepTyped, PTL DEF Spec

-----------------------------------------------------------------------------
(* Where documents are listed *)

\* Where a document is listed after each operation on a folder document.
LEMMA ListsDrop ==
  ASSUME NEW t \in Trees, NEW p \in Paths, NEW u \in Docs
  PROVE  Lists(Drop(t, p), u) = Lists(t, u) \ {p}
BY DropIs DEF Lists

LEMMA ListsPut ==
  ASSUME NEW t \in Trees, NEW p \in Paths, NEW e \in Entries, NEW u \in Docs
  PROVE  /\ e.id = u => Lists(Put(t, p, e), u) = Lists(t, u) \cup {p}
         /\ e.id # u => Lists(Put(t, p, e), u) = Lists(t, u) \ {p}
<1>1. e # None
  BY FoldersAssumption
<1>. QED BY <1>1, PutIs DEF Lists

LEMMA ListsEnsure ==
  ASSUME NEW t \in Trees, NEW p \in Files, NEW u \in Docs
  PROVE  Lists(EnsureAncestors(t, p), u) = Lists(t, u)
<1>1. u # DirId
  BY FoldersAssumption
<1>. QED BY <1>1, EnsureIs DEF Lists, DirEntry

\* An insertion with its ancestors, and a removal before it.
LEMMA ListsPutIn ==
  ASSUME NEW t \in Trees, NEW p \in Files, NEW e \in Entries, NEW u \in Docs
  PROVE  /\ e.id = u => Lists(Put(EnsureAncestors(t, p), p, e), u) = Lists(t, u) \cup {p}
         /\ e.id # u => Lists(Put(EnsureAncestors(t, p), p, e), u) = Lists(t, u) \ {p}
<1>1. EnsureAncestors(t, p) \in Trees /\ p \in Paths
  BY EnsureIs, PathFacts
<1>2. Lists(EnsureAncestors(t, p), u) = Lists(t, u)
  BY ListsEnsure
<1>. QED BY <1>1, <1>2, ListsPut

LEMMA ListsMoved ==
  ASSUME NEW t \in Trees, NEW s \in Paths, NEW p \in Files, NEW e \in Entries, NEW u \in Docs
  PROVE  /\ e.id = u =>
              /\ Lists(Put(Drop(EnsureAncestors(t, p), s), p, e), u) = (Lists(t, u) \ {s}) \cup {p}
              /\ Lists(Put(EnsureAncestors(Drop(t, s), p), p, e), u) = (Lists(t, u) \ {s}) \cup {p}
              /\ Lists(Put(Drop(t, s), p, e), u) = (Lists(t, u) \ {s}) \cup {p}
         /\ e.id # u =>
              /\ Lists(Put(Drop(EnsureAncestors(t, p), s), p, e), u) = (Lists(t, u) \ {s}) \ {p}
              /\ Lists(Put(EnsureAncestors(Drop(t, s), p), p, e), u) = (Lists(t, u) \ {s}) \ {p}
              /\ Lists(Put(Drop(t, s), p, e), u) = (Lists(t, u) \ {s}) \ {p}
<1>1. /\ p \in Paths /\ EnsureAncestors(t, p) \in Trees /\ Drop(t, s) \in Trees
      /\ Drop(EnsureAncestors(t, p), s) \in Trees
  BY EnsureIs, DropIs, PathFacts
<1>2. Lists(Drop(EnsureAncestors(t, p), s), u) = Lists(t, u) \ {s}
  <2>1. Lists(Drop(EnsureAncestors(t, p), s), u) = Lists(EnsureAncestors(t, p), u) \ {s}
    BY <1>1, ListsDrop
  <2>2. Lists(EnsureAncestors(t, p), u) = Lists(t, u)
    BY ListsEnsure
  <2>. QED BY <2>1, <2>2
<1>3. Lists(Drop(t, s), u) = Lists(t, u) \ {s}
  BY ListsDrop
<1>. QED BY <1>1, <1>2, <1>3, ListsPut, ListsPutIn

\* An insertion that replaces no other file: another document stays listed.
LEMMA NotReplaced ==
  ASSUME NEW t \in Trees, NEW p \in Paths, NEW u \in Docs, NEW v,
         u # v, u \notin Replaced(t, p, v)
  PROVE  p \notin Lists(t, u)
BY FoldersAssumption DEF Replaced, Lists

\* What a step on folder documents does about u, unless it makes it.
Follows(u) ==
  /\ OnePlace(u)'
  /\ \A g \in Folders : ListedAt(g, u)' =>
       \E f \in Folders : ListedAt(f, u) /\ (f = g \/ {<<u, f>>, <<u, g>>} \subseteq crossing')

\* Such a step leaves the stored copies as far behind as they are.
LEMMA FollowsKeeps ==
  ASSUME NEW u \in Docs, Traced(u), Follows(u), stored' = stored, crossing \subseteq crossing'
  PROVE  /\ OnePlace(u)' /\ KeptOnce(u)' /\ Behind(u)'
         /\ \A fs \in SUBSET Folders : SavedBut(u, fs) => SavedBut(u, fs)'
<1>1. OnePlace(u)'
  BY DEF Follows
<1>2. KeptOnce(u)'
  BY DEF Traced, KeptOnce
<1>3. \A f \in Folders : KeptAt(f, u)' = KeptAt(f, u)
  BY DEF KeptAt
<1>4. \A g \in Folders : ListedAt(g, u)' =>
        \E f \in Folders : ListedAt(f, u) /\ (f = g \/ {<<u, f>>, <<u, g>>} \subseteq crossing')
  BY DEF Follows
<1>5. Behind(u)'
  BY <1>3, <1>4 DEF Traced, Behind
<1>6. ASSUME NEW fs \in SUBSET Folders, SavedBut(u, fs) PROVE SavedBut(u, fs)'
  BY <1>3, <1>4, <1>6 DEF SavedBut
<1>. QED BY <1>1, <1>2, <1>5, <1>6

\* A step that leaves u where it is in every folder document.
LEMMA SameLists ==
  ASSUME NEW u \in Docs, OnePlace(u),
         \A f \in Folders : Lists(tree'[f], u) = Lists(tree[f], u)
  PROVE  Follows(u) /\ \A f \in Folders : ListedAt(f, u)' = ListedAt(f, u)
BY DEF Follows, OnePlace, ListedAt

\* A handler's step keeps the promises about u that stand, if what it goes on
\* to promise, and what it answers, is so.
LEMMA HandlerKeeps ==
  ASSUME Typed, NEW u \in Docs, Traced(u), NEW h \in Handlers, NEW r \in Records,
         op' = [op EXCEPT ![h] = r],
         \A fs \in SUBSET Folders : SavedBut(u, fs) => SavedBut(u, fs)',
         (\E f \in Folders : ListedAt(f, u)) => (\E f \in Folders : ListedAt(f, u)'),
         deleted' = deleted,
         u \in owed' \/ (r.id = u /\ Promises(r) /\ u \notin deleted)
           => \E f \in Folders : ListedAt(f, u)',
         NEW left \in SUBSET Folders, left = Unsaved(r),
         r.id = u /\ Promises(r) /\ r.ok => SavedBut(u, left)',
         u \in safe' => SavedBut(u, {})'
  PROVE  Present(u)' /\ Saved(u)'
<1>1. Present(u) /\ Saved(u)
  BY DEF Traced
<1>2. /\ \A k \in Handlers : k # h => op'[k] = op[k]
      /\ op'[h] = r /\ op \in [Handlers -> Records]
  BY DEF Typed, OpTypes
<1>4. Present(u)'
  <2>1. ASSUME NEW k \in Handlers, op'[k].id = u, Promises(op'[k]), u \notin deleted
        PROVE  \E f \in Folders : ListedAt(f, u)'
    <3>1. CASE k = h
      BY <1>2, <2>1, <3>1
    <3>2. CASE k # h
      BY <1>1, <1>2, <2>1, <3>2 DEF Present
    <3>. QED BY <3>1, <3>2
  <2>. QED BY <2>1 DEF Present, Promises
<1>5. Saved(u)'
  <2>2. ASSUME NEW k \in Handlers, op'[k].id = u, Promises(op'[k]), op'[k].ok,
               NEW fs \in SUBSET Folders, fs = Unsaved(op'[k])
        PROVE  SavedBut(u, fs)'
    <3>1. CASE k = h
      BY <1>2, <2>2, <3>1
    <3>2. CASE k # h
      <4>1. SavedBut(u, fs)
        BY <1>1, <1>2, <2>2, <3>2 DEF Saved
      <4>. QED BY <4>1
    <3>. QED BY <3>1, <3>2
  <2>3. ASSUME NEW k \in Handlers PROVE Unsaved(op'[k]) \in SUBSET Folders
    BY <1>2 DEF Records, Unsaved
  <2>4. ASSUME NEW k \in Handlers, (op[k].id = u /\ Promises(op[k]) /\ op[k].ok)'
        PROVE  SavedBut(u, Unsaved(op[k]))'
    <3>1. op'[k].id = u /\ Promises(op'[k]) /\ op'[k].ok
      BY <2>4 DEF Promises
    <3>2. PICK fs \in SUBSET Folders : fs = Unsaved(op'[k])
      BY <2>3
    <3>3. SavedBut(u, fs)'
      BY <2>2, <3>1, <3>2
    <3>. QED BY <3>2, <3>3 DEF SavedBut, Unsaved
  <2>. QED BY <2>4, Zenon DEF Saved
<1>. QED BY <1>4, <1>5

\* It keeps fresh what is fresh.
LEMMA FreshKeeps ==
  ASSUME Typed, NEW u \in Docs, Traced(u), NEW h \in Handlers, NEW r \in Records,
         op' = [op EXCEPT ![h] = r], r.pc # "write",
         r.id = u => op[h].id = u \/ \E f \in Folders : ListedAt(f, u),
         \A f \in Folders : ListedAt(f, u)' \/ KeptAt(f, u)' \/ <<u, f>> \in crossing' =>
           \/ op[h].id = u
           \/ \E g \in Folders : ListedAt(g, u) \/ KeptAt(g, u) \/ <<u, g>> \in crossing,
         u \in owed' => u \in owed \/ op[h].id = u
  PROVE  Fresh(u)'
<1>1. Fresh(u)
  BY DEF Traced
<1>2. \A k \in Handlers : op'[k] = IF k = h THEN r ELSE op[k]
  BY DEF Typed, OpTypes
<1>3. ASSUME NEW k \in Handlers, op'[k].pc = "write", op'[k].id = u
      PROVE  /\ \A f \in Folders : ~ListedAt(f, u)' /\ ~KeptAt(f, u)' /\ <<u, f>> \notin crossing'
             /\ \A j \in Handlers : op'[j].id = u => j = k
             /\ u \notin owed'
  <2>1. k # h /\ op[k].pc = "write" /\ op[k].id = u
    BY <1>2, <1>3
  <2>2. /\ \A f \in Folders : ~ListedAt(f, u) /\ ~KeptAt(f, u) /\ <<u, f>> \notin crossing
        /\ \A j \in Handlers : op[j].id = u => j = k
        /\ u \notin owed
    BY <1>1, <2>1 DEF Fresh
  <2>3. op[h].id # u
    BY <2>1, <2>2
  <2>. QED BY <1>2, <2>2, <2>3
<1>. QED BY <1>3 DEF Fresh

\* What is listed or stored is among the ids given out.
LEMMA ListedBorn ==
  ASSUME Typed, NEW u \in Docs, NEW f \in Folders, ListedAt(f, u) \/ KeptAt(f, u)
  PROVE  u \in born
<1>1. /\ tree[f] \in Trees /\ TreeOK(born, tree[f]) /\ stored[f] \in Trees
      /\ TreeOK(born, stored[f]) /\ born \subseteq Docs
  BY DEF Typed, TreeTypes, HistTypes
<1>. QED BY <1>1, ListedEntry DEF ListedAt, KeptAt

-----------------------------------------------------------------------------
(* What each step on a folder document does about a document that is not    *)
(* contested.                                                               *)

\* The folders that list u stay the same; u may be at another place, but somewhere.
Remains(u) == \A f \in Folders : ListedAt(f, u)' = ListedAt(f, u)
Stays(u) == Follows(u) /\ ((\E f \in Folders : ListedAt(f, u)) => \E f \in Folders : ListedAt(f, u)')

\* A step within one folder document, that leaves u there where it was or at
\* another place.
LEMMA StaysIn ==
  ASSUME Typed, NEW u \in Docs, OnePlace(u), NEW f \in Folders, NEW t,
         tree' = [tree EXCEPT ![f] = t],
         \/ Lists(t, u) = Lists(tree[f], u)
         \/ Lists(tree[f], u) # {} /\ \E p : Lists(t, u) = {p}
  PROVE  Stays(u) /\ Remains(u)
<1>1. \A g \in Folders : tree'[g] = IF g = f THEN t ELSE tree[g]
  BY DEF Typed, TreeTypes
<1>2. CASE Lists(t, u) = Lists(tree[f], u)
  BY <1>1, <1>2, SameLists DEF Stays, Remains
<1>3. CASE Lists(tree[f], u) # {} /\ \E p : Lists(t, u) = {p}
  <2>1. \A g \in Folders : ListedAt(g, u)' = ListedAt(g, u)
    BY <1>1, <1>3 DEF ListedAt
  <2>2. OnePlace(u)'
    <3>1. \A g \in Folders : ListedAt(g, u) => g = f
      BY <1>3 DEF OnePlace, ListedAt
    <3>2. ASSUME NEW g \in Folders, NEW k \in Folders,
                 NEW p \in Lists(tree'[g], u), NEW q \in Lists(tree'[k], u)
          PROVE  g = k /\ p = q
      <4>1. g = f /\ k = f
        BY <2>1, <3>1 DEF ListedAt
      <4>. QED BY <1>1, <1>3, <4>1
    <3>. QED BY <3>2 DEF OnePlace
  <2>. QED BY <2>1, <2>2 DEF Stays, Remains, Follows
<1>. QED BY <1>2, <1>3

\* A creation: the document is at its path, the others where they were.
LEMMA CreateLists ==
  ASSUME Typed, NEW u \in Docs \ contested', Traced(u), NEW h \in Handlers, CreateWrites(h)
  PROVE  /\ u # op[h].id => Stays(u) /\ Remains(u)
         /\ u = op[h].id => \A g \in Folders : Lists(tree'[g], u) =
                              IF g = op[h].from THEN {op[h].path} ELSE {}
<1> DEFINE o == op[h]
           e == [id |-> o.id, type |-> o.type, hash |-> 0]
           t == EnsureAncestors(tree[o.from], o.path)
<1>1. /\ o \in Records /\ OpOK(born, o) /\ tree[o.from] \in Trees /\ TreeOK(born, tree[o.from])
      /\ o.from \in Folders
  BY OpFacts
<1>2. o.pc = "write" /\ tree' = [tree EXCEPT ![o.from] = Put(t, o.path, e)]
      /\ contested' = contested \cup Replaced(tree[o.from], o.path, o.id)
  BY DEF CreateWrites
<1>3. o.id \in Docs /\ o.path \in Files /\ o.path \in Paths
  BY <1>1, <1>2, PathFacts DEF OpOK, Records
<1>4. e \in Entries /\ e.id = o.id
  BY <1>1, <1>3 DEF Entries, Records
<1>5. /\ u = o.id => Lists(Put(t, o.path, e), u) = Lists(tree[o.from], u) \cup {o.path}
      /\ u # o.id => Lists(Put(t, o.path, e), u) = Lists(tree[o.from], u) \ {o.path}
  <2>. HIDE DEF e, o
  <2>. QED BY <1>1, <1>3, <1>4, ListsPutIn
<1>6. CASE u # o.id
  <2>1. u \notin Replaced(tree[o.from], o.path, o.id)
    BY <1>2
  <2>2. o.path \notin Lists(tree[o.from], u)
    BY <1>1, <1>3, <1>6, <2>1, NotReplaced
  <2>3. Lists(Put(t, o.path, e), u) = Lists(tree[o.from], u)
    BY <1>5, <1>6, <2>2
  <2>. QED BY <1>1, <1>2, <1>6, <2>3, StaysIn DEF Traced
<1>7. CASE u = o.id
  <2>1. \A g \in Folders : Lists(tree[g], u) = {}
    BY <1>2, <1>7 DEF Traced, Fresh, ListedAt
  <2>2. \A g \in Folders : tree'[g] = IF g = o.from THEN Put(t, o.path, e) ELSE tree[g]
    BY <1>2 DEF Typed, TreeTypes
  <2>. QED BY <1>1, <1>5, <1>7, <2>1, <2>2
<1>. QED BY <1>6, <1>7

\* A move: the document goes to its path, the others stay.
LEMMA MovedLists ==
  ASSUME NEW u \in Docs, NEW h, NEW src \in Paths,
         NEW f, f = op[h].from, NEW g, g = op[h].to, NEW q \in Files, q = op[h].path,
         NEW v \in Docs, tree[f] \in Trees, tree[g] \in Trees,
         tree[f].meta[src] \in Entries, tree[f].meta[src].id = v
  PROVE  /\ f = g /\ u = v => Lists(MovedIn(h, src), u) = (Lists(tree[f], u) \ {src}) \cup {q}
         /\ f = g /\ u # v => Lists(MovedIn(h, src), u) = (Lists(tree[f], u) \ {src}) \ {q}
         /\ f # g => Lists(MovedOut(h, src), u) = Lists(tree[f], u) \ {src}
         /\ f # g /\ u = v => Lists(MovedIn(h, src), u) = Lists(tree[g], u) \cup {q}
         /\ f # g /\ u # v => Lists(MovedIn(h, src), u) = Lists(tree[g], u) \ {q}
<1>1. CASE f = g
  <2>1. MovedIn(h, src) = Put(Drop(EnsureAncestors(tree[f], q), src), q, tree[f].meta[src])
    BY <1>1 DEF MovedIn, MovedOut
  <2>. QED BY <1>1, <2>1, ListsMoved
<1>2. CASE f # g
  <2>1. /\ MovedOut(h, src) = Drop(tree[f], src)
        /\ MovedIn(h, src) = Put(EnsureAncestors(tree[g], q), q, tree[f].meta[src])
    BY <1>2 DEF MovedIn, MovedOut
  <2>. QED BY <1>2, <2>1, ListsDrop, ListsPutIn
<1>. QED BY <1>1, <1>2

\* A move of a document: it is in the target folder only.
LEMMA MoveLists ==
  ASSUME Typed, NEW u \in Docs \ contested', Traced(u), NEW h \in Handlers, MoveApplies(h)
  PROVE  /\ Stays(u)
         /\ u # op[h].id => Remains(u)
         /\ u = op[h].id => \A g \in Folders : ListedAt(g, u)' => g = op[h].to
<1>1. op[h].pc = "apply" /\ Lists(tree[op[h].from], op[h].id) # {}
  BY DEF MoveApplies
<1>2. PICK src : src = CHOOSE p \in Lists(tree[op[h].from], op[h].id) : TRUE
  OBVIOUS
<1>3. PICK f, g, q, v : f = op[h].from /\ g = op[h].to /\ q = op[h].path /\ v = op[h].id
  OBVIOUS
<1>4. PICK out, in : out = MovedOut(h, src) /\ in = MovedIn(h, src)
  OBVIOUS
<1>5. /\ v \in Docs /\ q \in Files /\ q \in Paths /\ f \in Folders /\ g \in Folders
      /\ src \in Lists(tree[f], v) /\ src \in Paths
      /\ tree[f] \in Trees /\ tree[g] \in Trees
      /\ tree[f].meta[src] \in Entries /\ tree[f].meta[src].id = v
  BY <1>1, <1>2, <1>3, MoveSource, OpFacts
<1>6. /\ contested' = contested \cup Replaced(tree[g], q, v)
      /\ crossing' = IF f = g THEN crossing ELSE crossing \cup ({v} \X {f, g})
  BY <1>3 DEF MoveApplies
<1>7. /\ tree' = [k \in Folders |-> IF k = g THEN in ELSE IF k = f THEN out ELSE tree[k]]
      /\ tree \in [Folders -> Trees]
  BY <1>2, <1>3, <1>4, MoveTrees DEF Typed, TreeTypes
<1>8. /\ f = g /\ u = v => Lists(in, u) = (Lists(tree[f], u) \ {src}) \cup {q}
      /\ f = g /\ u # v => Lists(in, u) = (Lists(tree[f], u) \ {src}) \ {q}
      /\ f # g => Lists(out, u) = Lists(tree[f], u) \ {src}
      /\ f # g /\ u = v => Lists(in, u) = Lists(tree[g], u) \cup {q}
      /\ f # g /\ u # v => Lists(in, u) = Lists(tree[g], u) \ {q}
  BY <1>3, <1>4, <1>5, MovedLists
<1>9. CASE u # v
  <2>1. q \notin Lists(tree[g], u)
    BY <1>5, <1>6, <1>9, NotReplaced
  <2>2. src \notin Lists(tree[f], u)
    BY <1>5, <1>9 DEF Lists
  <2>3. \A k \in Folders : Lists(tree'[k], u) = Lists(tree[k], u)
    BY <1>5, <1>7, <1>8, <1>9, <2>1, <2>2
  <2>. QED BY <2>3, <1>3, <1>9, SameLists DEF Traced, Stays, Remains
<1>10. CASE u = v
  <2>1. Lists(tree[f], u) = {src} /\ \A k \in Folders \ {f} : Lists(tree[k], u) = {}
    BY <1>5, <1>10 DEF Traced, OnePlace
  <2>2. \A k \in Folders : Lists(tree'[k], u) = IF k = g THEN {q} ELSE {}
    BY <1>5, <1>7, <1>8, <1>10, <2>1
  <2>3. ListedAt(f, u) /\ (f # g => {<<u, f>>, <<u, g>>} \subseteq crossing')
    BY <1>6, <1>10, <2>1 DEF ListedAt
  <2>4. ListedAt(g, u)' /\ \A k \in Folders : ListedAt(k, u)' => k = g
    BY <1>5, <2>2 DEF ListedAt
  <2>5. OnePlace(u)'
    BY <2>2 DEF OnePlace
  <2>. QED BY <1>3, <1>5, <1>10, <2>3, <2>4, <2>5 DEF Stays, Follows
<1>. QED BY <1>9, <1>10

\* The end of a folder move: what is put back is where the plan takes it.
LEMMA EndsLists ==
  ASSUME Typed, NEW u \in Docs \ contested', Traced(u), NEW h \in Handlers, FolderMoveEnds(h)
  PROVE  Stays(u) /\ Remains(u)
<1>1. PICK plan, f, old, new :
        plan = op[h].plan /\ f = op[h].home /\ old = tree[f] /\ new = Replanted(h)
  OBVIOUS
<1>2. /\ f \in Folders /\ old \in Trees /\ plan \in SUBSET Moves /\ PlanOK(born, plan)
  BY <1>1, OpFacts DEF OpOK
<1>3. tree' = [tree EXCEPT ![f] = new]
  BY <1>1, FolderMoveEndsIs
<1>4. \A m \in plan : /\ u \notin Replaced(old, m.dst, m.entry.id)
                      /\ u \notin Replaced(old, m.src, m.entry.id)
                      /\ m.entry.id = u => old.meta[m.src] = m.entry
  <2> DEFINE o == op[h]
             t == tree[o.home]
  <2>1. contested' = contested
          \cup (UNION {Replaced(t, m.dst, m.entry.id) : m \in o.plan})
          \cup (UNION {Replaced(t, m.src, m.entry.id) : m \in o.plan})
          \cup ({m.entry.id : m \in {n \in o.plan : t.meta[n.src] # n.entry}} \ {DirId})
    BY DEF FolderMoveEnds
  <2>2. u # DirId /\ u \notin contested'
    BY FoldersAssumption
  <2>3. ASSUME NEW m \in o.plan
        PROVE  /\ u \notin Replaced(t, m.dst, m.entry.id)
               /\ u \notin Replaced(t, m.src, m.entry.id)
               /\ m.entry.id = u => t.meta[m.src] = m.entry
    BY <2>1, <2>2
  <2>. QED BY <1>1, <2>3
<1>5. \A p \in Paths :
        \/ \E m \in plan : m.dst = p /\ new.meta[p] = m.entry
        \/ /\ \A m \in plan : m.dst # p
           /\ \E m \in plan : m.src = p
           /\ new.meta[p] = None
        \/ /\ \A m \in plan : m.dst # p /\ m.src # p
           /\ new.meta[p] = old.meta[p]
  BY <1>1, ReplantedIs
<1>6. /\ \A m \in plan : m.src \in Paths /\ m.dst \in Paths /\ m.entry \in Entries
      /\ \A m, n \in plan : m.dst = n.dst => m.src = n.src
  BY <1>2, PlanFacts
<1>7. \A m \in plan : m.entry.id = u <=> m.src \in Lists(old, u)
  <2>1. ASSUME NEW m \in plan, m.entry.id = u PROVE m.src \in Lists(old, u)
    <3>1. m.entry # None
      BY <1>6, FoldersAssumption
    <3>. QED BY <1>4, <1>6, <2>1, <3>1 DEF Lists
  <2>2. ASSUME NEW m \in plan, m.src \in Lists(old, u) PROVE m.entry.id = u
    BY <1>2, <1>4, <1>6, <2>2, NotReplaced
  <2>. QED BY <2>1, <2>2
<1>8. \A m \in plan : m.entry.id # u => m.dst \notin Lists(old, u)
  BY <1>2, <1>4, <1>6, NotReplaced
<1>9. \A p, q \in Lists(old, u) : p = q
  BY <1>1, <1>2 DEF Traced, OnePlace
<1>10. CASE \E m \in plan : m.entry.id = u
  <2>1. PICK m \in plan : m.entry.id = u
    BY <1>10
  <2>2. Lists(old, u) = {m.src}
    BY <1>7, <1>9, <2>1
  <2>3. \A n \in plan : n.entry.id = u => n.src = m.src /\ n.entry = m.entry
    BY <1>4, <1>7, <2>1, <2>2
  <2>4. \A n \in plan : n.src = m.src => n.dst = m.dst
    <3>1. PICK d \in Dirs, e \in Dirs : \A n \in plan :
            n.dst = IF n.src = <<Root, d>> THEN <<Root, e>> ELSE <<e, n.src[2]>>
      BY <1>2, <2>1 DEF PlanOK
    <3>. QED BY <2>1, <3>1
  <2>5. m.entry # None
    BY <1>6, FoldersAssumption
  <2>6. \A p \in Paths : p \in Lists(new, u) <=> p = m.dst
    <3>1. ASSUME NEW p \in Paths, p \in Lists(new, u) PROVE p = m.dst
      <4>1. new.meta[p] # None /\ new.meta[p].id = u
        BY <3>1 DEF Lists
      <4>2. CASE \E n \in plan : n.dst = p /\ new.meta[p] = n.entry
        BY <2>3, <2>4, <4>1, <4>2
      <4>3. CASE \A n \in plan : n.dst # p /\ n.src # p
        <5>1. new.meta[p] = old.meta[p]
          BY <1>5, <4>3
        <5>2. p \in Lists(old, u)
          BY <4>1, <5>1 DEF Lists
        <5>. QED BY <2>1, <2>2, <4>3, <5>2
      <4>. QED BY <1>5, <4>1, <4>2, <4>3
    <3>2. m.dst \in Lists(new, u)
      <4>1. PICK n \in plan : n.dst = m.dst /\ new.meta[m.dst] = n.entry
        BY <1>5, <1>6, <2>1
      <4>2. n.src = m.src
        BY <1>6, <2>1, <4>1
      <4>3. n.entry.id = u
        BY <1>7, <2>1, <4>2
      <4>. QED BY <1>6, <2>3, <2>5, <4>1, <4>3 DEF Lists
    <3>. QED BY <3>1, <3>2
  <2>7. Lists(new, u) = {m.dst}
    BY <1>6, <2>1, <2>6 DEF Lists
  <2>8. Lists(old, u) # {} /\ \E p : Lists(new, u) = {p}
    BY <2>2, <2>7
  <2>. QED BY <1>1, <1>2, <1>3, <2>8, StaysIn DEF Traced
<1>11. CASE \A m \in plan : m.entry.id # u
  <2>1. \A p \in Paths : p \in Lists(new, u) <=> p \in Lists(old, u)
    <3>1. ASSUME NEW p \in Paths, NEW m \in plan, m.dst = p
          PROVE  p \notin Lists(new, u) /\ p \notin Lists(old, u)
      <4>1. \E n \in plan : n.dst = p /\ new.meta[p] = n.entry
        BY <1>5, <3>1
      <4>2. p \notin Lists(new, u)
        BY <1>11, <4>1 DEF Lists
      <4>. QED BY <1>8, <1>11, <3>1, <4>2
    <3>2. ASSUME NEW p \in Paths, NEW m \in plan, m.src = p, \A n \in plan : n.dst # p
          PROVE  p \notin Lists(new, u) /\ p \notin Lists(old, u)
      <4>1. new.meta[p] = None
        BY <1>5, <3>2
      <4>. QED BY <1>7, <1>11, <3>2, <4>1 DEF Lists
    <3>3. ASSUME NEW p \in Paths, \A m \in plan : m.dst # p /\ m.src # p
          PROVE  p \in Lists(new, u) <=> p \in Lists(old, u)
      <4>1. new.meta[p] = old.meta[p]
        BY <1>5, <3>3
      <4>. QED BY <4>1 DEF Lists
    <3>. QED BY <3>1, <3>2, <3>3
  <2>2. Lists(new, u) = Lists(old, u)
    BY <2>1 DEF Lists
  <2>. QED BY <1>1, <1>2, <1>3, <2>2, StaysIn DEF Traced
<1>. QED BY <1>10, <1>11

\* A rename of a file in its folder document, by a handler or by a client.
LEMMA RenameLists ==
  ASSUME Typed, NEW u \in Docs, OnePlace(u), NEW f \in Folders, NEW p \in Files, NEW q \in Files,
         ~Free(f, p), Free(f, q) \/ p = q, NEW t, tree' = [tree EXCEPT ![f] = t],
         \/ t = Put(Drop(tree[f], p), q, tree[f].meta[p])
         \/ t = Put(EnsureAncestors(Drop(tree[f], p), q), q, tree[f].meta[p])
  PROVE  Stays(u) /\ Remains(u)
<1>1. p \in Paths /\ q \in Paths /\ tree[f] \in Trees /\ TreeOK(born, tree[f]) /\ born \subseteq Docs
  BY PathFacts DEF Typed, TreeTypes, HistTypes
<1>2. PICK e : e = tree[f].meta[p]
  OBVIOUS
<1>3. e \in Entries /\ e # None
  BY <1>1, <1>2, FileEntry DEF Free
<1>4. /\ e.id = u => Lists(t, u) = (Lists(tree[f], u) \ {p}) \cup {q}
      /\ e.id # u => Lists(t, u) = (Lists(tree[f], u) \ {p}) \ {q}
  BY <1>1, <1>2, <1>3, ListsMoved
<1>5. CASE e.id = u
  <2>1. Lists(tree[f], u) = {p}
    BY <1>1, <1>2, <1>3, <1>5 DEF OnePlace, Lists
  <2>2. Lists(t, u) = {q}
    BY <1>4, <1>5, <2>1
  <2>. QED BY <2>1, <2>2, StaysIn
<1>6. CASE e.id # u
  <2>1. p \notin Lists(tree[f], u) /\ q \notin Lists(tree[f], u)
    BY <1>2, <1>6 DEF Lists, Free
  <2>2. Lists(t, u) = Lists(tree[f], u)
    BY <1>4, <1>6, <2>1
  <2>. QED BY <2>2, StaysIn
<1>. QED BY <1>5, <1>6

\* A new content of a plain file.
LEMMA HashLists ==
  ASSUME Typed, NEW u \in Docs, OnePlace(u), NEW h \in Handlers, NEW f \in Folders, NEW p \in Files,
         HashUpdates(h, f, p)
  PROVE  Stays(u) /\ Remains(u)
<1>1. p \in Paths /\ tree[f] \in Trees /\ TreeOK(born, tree[f]) /\ born \subseteq Docs
      /\ tree[f].meta[p] # None
  BY PathFacts DEF Typed, TreeTypes, HistTypes, HashUpdates, Free
<1>2. tree[f].meta[p] \in Entries
  BY <1>1, FileEntry
<1> DEFINE e == [tree[f].meta[p] EXCEPT !.hash = @ + 1]
           t == [tree[f] EXCEPT !.meta = [@ EXCEPT ![p] = e]]
<1>3. e.id = tree[f].meta[p].id /\ e \in Entries
  BY <1>2 DEF Entries
<1>4. e # None
  BY <1>3, FoldersAssumption
<1>5. tree' = [tree EXCEPT ![f] = t]
  BY DEF HashUpdates
<1>6. \A q \in Paths : t.meta[q] = IF q = p THEN e ELSE tree[f].meta[q]
  <2>. HIDE DEF e
  <2>. QED BY <1>1 DEF Trees
<1>7. Lists(t, u) = Lists(tree[f], u)
  <2>. HIDE DEF e, t
  <2>. QED BY <1>1, <1>3, <1>4, <1>6 DEF Lists
<1>. HIDE DEF t
<1>. QED BY <1>5, <1>7, StaysIn

\* A deletion: the document is nowhere, the others where they were.
LEMMA DeleteLists ==
  ASSUME Typed, NEW u \in Docs, OnePlace(u), NEW f \in Folders, NEW p \in Files,
         ClientDeletes(f, p)
  PROVE  /\ u # tree[f].meta[p].id => Stays(u) /\ Remains(u)
         /\ u = tree[f].meta[p].id => \A g \in Folders : Lists(tree'[g], u) = {}
<1>1. p \in Paths /\ tree[f] \in Trees /\ tree[f].meta[p] # None
  BY PathFacts DEF Typed, TreeTypes, ClientDeletes, HasFile, Free
<1>2. tree' = [tree EXCEPT ![f] = Drop(tree[f], p)]
  BY DEF ClientDeletes
<1>3. Lists(Drop(tree[f], p), u) = Lists(tree[f], u) \ {p}
  BY <1>1, ListsDrop
<1>4. CASE u # tree[f].meta[p].id
  <2>1. Lists(Drop(tree[f], p), u) = Lists(tree[f], u)
    BY <1>3, <1>4 DEF Lists
  <2>. QED BY <1>2, <1>4, <2>1, StaysIn
<1>5. CASE u = tree[f].meta[p].id
  <2>1. p \in Lists(tree[f], u)
    BY <1>1, <1>5 DEF Lists
  <2>2. Lists(tree[f], u) = {p} /\ \A g \in Folders \ {f} : Lists(tree[g], u) = {}
    BY <2>1 DEF OnePlace
  <2>3. Lists(Drop(tree[f], p), u) = {}
    BY <1>3, <2>2
  <2>4. \A g \in Folders : tree'[g] = IF g = f THEN Drop(tree[f], p) ELSE tree[g]
    BY <1>2 DEF Typed, TreeTypes
  <2>. QED BY <1>5, <2>2, <2>3, <2>4
<1>. QED BY <1>4, <1>5

-----------------------------------------------------------------------------
(* Every step keeps track of every document that is not contested.          *)

\* At the start every document is where the store has it.
LEMMA InitTraced == Init => AllTraced
<1> SUFFICES ASSUME Init, NEW u \in Docs PROVE Traced(u)
  BY DEF AllTraced
<1>1. /\ tree = Tree0 /\ stored = Tree0 /\ crossing = {} /\ owed = Listed0 /\ safe = Listed0
      /\ op = [h \in Handlers |-> Idle]
  BY DEF Init
<1>2. u # DirId /\ u # None
  BY FoldersAssumption
<1>3. \A f, g \in Folders : \A p \in Lists(Tree0[f], u), q \in Lists(Tree0[g], u) : f = g /\ p = q
  BY <1>2, Tree0Assumption DEF Lists
<1>4. OnePlace(u) /\ KeptOnce(u) /\ Behind(u)
  BY <1>1, <1>3 DEF OnePlace, KeptOnce, Behind, ListedAt, KeptAt
<1>5. Present(u) /\ Saved(u) /\ Fresh(u)
  BY <1>1, <1>2 DEF Present, Promises, Saved, SavedBut, Fresh, Listed0, ListedAt, KeptAt, Idle
<1>. QED BY <1>4, <1>5 DEF Traced

\* An unchanged folder document leaves a document where it is.
LEMMA Unmoved ==
  ASSUME NEW u \in Docs, OnePlace(u), tree' = tree
  PROVE  Stays(u)
BY SameLists DEF Stays

\* A handler's step that saves nothing and answers nothing.
LEMMA HandlerTraces ==
  ASSUME Typed, NEW u \in Docs, Traced(u), NEW h \in Handlers, NEW r \in Records,
         op' = [op EXCEPT ![h] = r], Stays(u), stored' = stored, crossing \subseteq crossing',
         \A f \in Folders : <<u, f>> \in crossing' => <<u, f>> \in crossing \/ op[h].id = u,
         UNCHANGED <<deleted, owed, safe>>, r.pc # "write",
         r.id = u => op[h].id = u \/ \E f \in Folders : ListedAt(f, u),
         NEW left \in SUBSET Folders, left = Unsaved(r),
         r.id = u /\ Promises(r) /\ u \notin deleted => \E f \in Folders : ListedAt(f, u),
         r.id = u /\ Promises(r) /\ r.ok => SavedBut(u, left)
  PROVE  Traced(u)'
<1>1. /\ OnePlace(u)' /\ KeptOnce(u)' /\ Behind(u)'
      /\ \A fs \in SUBSET Folders : SavedBut(u, fs) => SavedBut(u, fs)'
  BY FollowsKeeps DEF Stays
<1>2. Present(u) /\ Saved(u) /\ ((\E f \in Folders : ListedAt(f, u)) => \E f \in Folders : ListedAt(f, u)')
  BY DEF Traced, Stays
<1>3. Present(u)' /\ Saved(u)'
  <2>1. u \in owed' => \E f \in Folders : ListedAt(f, u)'
    BY <1>2 DEF Present
  <2>2. u \in safe' => SavedBut(u, {})'
    BY <1>1, <1>2 DEF Saved
  <2>. QED BY <1>1, <1>2, <2>1, <2>2, HandlerKeeps
<1>4. Fresh(u)'
  <2>1. \A f \in Folders : KeptAt(f, u)' = KeptAt(f, u)
    BY DEF KeptAt
  <2>2. \A f \in Folders : ListedAt(f, u)' => \E g \in Folders : ListedAt(g, u)
    BY DEF Stays, Follows
  <2>. QED BY <2>1, <2>2, FreshKeeps
<1>. QED BY <1>1, <1>3, <1>4 DEF Traced

\* A step of the rest of the system that saves nothing.
LEMMA OthersTrace ==
  ASSUME Typed, NEW u \in Docs, Traced(u), op' = op, Stays(u), stored' = stored,
         crossing' = crossing, u \in deleted => u \in deleted',
         u \in owed' => u \in owed, u \in safe' => u \in safe
  PROVE  Traced(u)'
<1>1. /\ OnePlace(u)' /\ KeptOnce(u)' /\ Behind(u)'
      /\ \A fs \in SUBSET Folders : SavedBut(u, fs) => SavedBut(u, fs)'
  BY FollowsKeeps DEF Stays
<1>2. Present(u)'
  BY DEF Traced, Present, Stays, Promises
<1>3. Saved(u)'
  <2>1. \A h \in Handlers : Unsaved(op[h]) \in SUBSET Folders
    BY DEF Typed, OpTypes, Records, Unsaved
  <2>2. ASSUME NEW h \in Handlers, op[h].id = u, Promises(op[h]), op[h].ok,
               NEW fs \in SUBSET Folders, fs = Unsaved(op[h])
        PROVE  SavedBut(u, fs)'
    BY <1>1, <2>2 DEF Traced, Saved
  <2>3. ASSUME NEW h \in Handlers, (op[h].id = u /\ Promises(op[h]) /\ op[h].ok)'
        PROVE  SavedBut(u, Unsaved(op[h]))'
    <3>1. PICK fs \in SUBSET Folders : fs = Unsaved(op[h])
      BY <2>1
    <3>2. SavedBut(u, fs)'
      BY <2>2, <2>3, <3>1 DEF Promises
    <3>. QED BY <3>1, <3>2 DEF SavedBut, Unsaved
  <2>4. u \in safe' => SavedBut(u, {})'
    BY <1>1 DEF Traced, Saved
  <2>. QED BY <2>3, <2>4, Zenon DEF Saved
<1>4. Fresh(u)'
  <2>1. \A f \in Folders : KeptAt(f, u)' = KeptAt(f, u)
    BY DEF KeptAt
  <2>2. \A f \in Folders : ListedAt(f, u)' => \E g \in Folders : ListedAt(g, u)
    BY DEF Stays, Follows
  <2>. QED BY <2>1, <2>2 DEF Fresh, Traced
<1>. QED BY <1>1, <1>2, <1>3, <1>4 DEF Traced

\* The save of one folder document.
LEMMA SaveKeeps ==
  ASSUME Typed, NEW u \in Docs, Traced(u), NEW f \in Folders, tree' = tree,
         stored' = [stored EXCEPT ![f] = tree[f]], crossing' = {x \in crossing : x[2] # f}
  PROVE  /\ OnePlace(u)' /\ KeptOnce(u)' /\ Behind(u)'
         /\ \A g \in Folders : ListedAt(g, u)' = ListedAt(g, u)
         /\ \A g \in Folders : KeptAt(g, u)' => KeptAt(g, u) \/ ListedAt(g, u)
         /\ \A fs \in SUBSET Folders : SavedBut(u, fs) => SavedBut(u, fs \ {f})' /\ SavedBut(u, fs)'
<1>1. \A g \in Folders : stored'[g] = IF g = f THEN tree[f] ELSE stored[g]
  BY DEF Typed, TreeTypes
<1>2. /\ \A g \in Folders : ListedAt(g, u)' = ListedAt(g, u)
      /\ \A g \in Folders : KeptAt(g, u)' = IF g = f THEN ListedAt(f, u) ELSE KeptAt(g, u)
  BY <1>1 DEF ListedAt, KeptAt
<1>3. OnePlace(u) /\ KeptOnce(u) /\ Behind(u)
  BY DEF Traced
<1>4. OnePlace(u)' /\ KeptOnce(u)'
  BY <1>1, <1>3 DEF OnePlace, KeptOnce
<1>5. \A g \in Folders : (<<u, g>> \in crossing)' <=> <<u, g>> \in crossing /\ g # f
  OBVIOUS
<1>6. \A g, k \in Folders : ListedAt(g, u) /\ ListedAt(k, u) => g = k
  BY <1>3 DEF OnePlace, ListedAt
<1>7. Behind(u)'
  BY <1>2, <1>3, <1>5, <1>6 DEF Behind
<1>8. ASSUME NEW fs \in SUBSET Folders, SavedBut(u, fs)
      PROVE  SavedBut(u, fs \ {f})' /\ SavedBut(u, fs)'
  BY <1>2, <1>5, <1>8 DEF SavedBut
<1>. QED BY <1>2, <1>4, <1>7, <1>8

\* Every step of a handler keeps track of the documents.
LEMMA HandlerTraced ==
  ASSUME Typed, AllTraced, NEW h \in Handlers, HandlerStep(h), NEW u \in Docs \ contested'
  PROVE  Traced(u)'
<1> DEFINE o == op[h]
<1>t. /\ contested \subseteq contested' /\ Typed'
      /\ o \in Records /\ OpOK(born, o) /\ o.from \in Folders /\ o.left \in SUBSET Folders
  <2>1. contested \subseteq contested'
    BY Zenon DEF HandlerStep, CreateBegins, CreateFails, Fails, CreateWrites, CreateUpserts, Save,
       Queues, MoveBegins, MoveFails, MoveApplies, FolderMoveBegins, FolderMovesDoc,
       FolderMoveEnds, FileMoves, HashUpdates, RebuildClears, RebuildFolder, histVars
  <2>. QED BY <2>1, HandlerTyped, OpFacts
<1>u. /\ Traced(u) /\ OnePlace(u) /\ Present(u) /\ Saved(u) /\ Fresh(u) /\ u # None
      /\ u \in Docs /\ Idle.id # u /\ Idle.pc # "write" /\ Idle \in Records
  BY <1>t, FoldersAssumption, IdleTyped DEF AllTraced, Traced, Idle
<1>s. Idle.id = None /\ Idle.pc = "idle"
  BY DEF Idle
<1> USE DEF treeVars, resVars, workVars, boundVars, histVars
<1>f. ASSUME Fails(h) PROVE Traced(u)'
  <2>1. op' = [op EXCEPT ![h] = Idle] /\ UNCHANGED <<tree, stored, crossing, deleted, owed, safe>>
    BY <1>f DEF Fails
  <2>2. Stays(u) /\ Unsaved(Idle) = {}
    BY <1>u, <2>1, Unmoved DEF Idle, Unsaved
  <2>. QED BY <1>u, <2>1, <2>2, HandlerTraces
<1>1. ASSUME NEW f \in Folders, NEW p \in Files, NEW v \in Docs,
             NEW t \in {"markdown", "file"}, CreateBegins(h, f, p, v, t)
      PROVE  Traced(u)'
  <2>1. PICK r : r = [Idle EXCEPT !.pc = "write", !.from = f, !.to = f,
                                  !.path = p, !.id = v, !.type = t]
    OBVIOUS
  <2>2. /\ r.pc = "write" /\ r.id = v
    BY <2>1 DEF Idle
  <2>3. /\ op' = [op EXCEPT ![h] = r] /\ op \in [Handlers -> Records]
        /\ UNCHANGED <<tree, stored, crossing, deleted, owed, safe>>
        /\ v \notin born
    BY <1>1, <2>1 DEF CreateBegins, Typed, OpTypes
  <2>4. \A k \in Handlers : op'[k] = IF k = h THEN r ELSE op[k]
    BY <2>3
  <2>5. PICK other : other = [op EXCEPT ![h] = Idle]
    OBVIOUS
  <2>6. OnePlace(u)' /\ KeptOnce(u)' /\ Behind(u)'
    BY <1>u, <2>3 DEF Traced, OnePlace, KeptOnce, Behind, ListedAt, KeptAt
  <2>7. Present(u)'
    BY <1>u, <2>2, <2>3, <2>4 DEF Present, Promises, ListedAt
  <2>8. Saved(u)'
    BY <1>u, <2>2, <2>3, <2>4 DEF Saved, SavedBut, Promises, Unsaved, ListedAt, KeptAt
  <2>9. Fresh(u)'
    <3>1. CASE v = u
      <4>1. \A g \in Folders : ~ListedAt(g, u) /\ ~KeptAt(g, u)
        BY <2>3, <3>1, ListedBorn
      <4>2. u \notin owed /\ \A g \in Folders : <<u, g>> \notin crossing
        BY <2>3, <3>1 DEF Typed, HistTypes
      <4>3. \A k \in Handlers : op[k].id # u
        BY <1>u, <2>3, <3>1 DEF Typed, OpTypes, OpOK
      <4>. QED BY <2>2, <2>3, <2>4, <4>1, <4>2, <4>3 DEF Fresh, ListedAt, KeptAt
    <3>2. CASE v # u
      BY <1>u, <2>2, <2>3, <2>4, <3>2 DEF Fresh, ListedAt, KeptAt
    <3>. QED BY <3>1, <3>2
  <2>. QED BY <2>6, <2>7, <2>8, <2>9 DEF Traced
<1>2. ASSUME CreateFails(h) PROVE Traced(u)'
  BY <1>2, <1>f DEF CreateFails
<1>3. ASSUME CreateWrites(h) PROVE Traced(u)'
  <2>1. PICK r : r = [o EXCEPT !.pc = "upsert"]
    OBVIOUS
  <2>2. r \in Records /\ r.pc = "upsert" /\ r.id = o.id /\ r.from = o.from /\ r.ok = o.ok
    BY <1>t, <2>1 DEF Records, Pcs
  <2>3. /\ op' = [op EXCEPT ![h] = r] /\ op \in [Handlers -> Records] /\ o.pc = "write"
        /\ UNCHANGED <<stored, crossing, deleted, owed, safe>>
    BY <1>3, <2>1 DEF CreateWrites, Typed, OpTypes
  <2>4. PICK left \in SUBSET Folders : left = Unsaved(r)
    BY <1>t, <2>2 DEF Unsaved
  <2>5. CASE u # o.id
    <3>1. Stays(u)
      BY <1>3, <1>u, <2>5, CreateLists
    <3>. QED BY <1>u, <2>2, <2>3, <2>4, <2>5, <3>1, HandlerTraces
  <2>6. CASE u = o.id
    <3>1. \A g \in Folders : Lists(tree'[g], u) = IF g = o.from THEN {o.path} ELSE {}
      BY <1>3, <1>u, <2>6, CreateLists
    <3>2. \A g \in Folders : /\ ListedAt(g, u)' <=> g = o.from
                             /\ ~KeptAt(g, u)' /\ <<u, g>> \notin crossing'
      BY <1>u, <2>3, <2>6, <3>1 DEF Fresh, ListedAt, KeptAt
    <3>3. u \notin owed' /\ u \notin safe' /\ \A k \in Handlers : op'[k].id = u => k = h
      <4>1. u \notin owed /\ \A k \in Handlers : op[k].id = u => k = h
        BY <1>u, <2>3, <2>6 DEF Fresh
      <4>. QED BY <2>3, <4>1 DEF Typed, HistTypes
    <3>4. OnePlace(u)'
      BY <3>1 DEF OnePlace
    <3>5. KeptOnce(u)' /\ Behind(u)'
      BY <1>u, <2>3, <3>2 DEF Traced, KeptOnce, Behind
    <3>6. Present(u)'
      BY <1>t, <3>2 DEF Present
    <3>7. op'[h] = r
      BY <2>3
    <3>8. Saved(u)'
      <4>1. Unsaved(op'[h]) = {o.from}
        BY <2>2, <3>7 DEF Unsaved
      <4>3. \A k \in Handlers : op'[k].id = u => Unsaved(op'[k]) = {o.from}
        BY <3>3, <4>1
      <4>4. \A k \in Handlers : op'[k].id = u =>
               \A g \in Folders \ Unsaved(op'[k]) : ListedAt(g, u)' => KeptAt(g, u)'
        BY <3>2, <4>3
      <4>. QED BY <3>3, <4>4 DEF Saved, SavedBut, Unsaved
    <3>9. Fresh(u)'
      BY <2>2, <3>3, <3>7 DEF Fresh
    <3>. QED BY <3>4, <3>5, <3>6, <3>8, <3>9 DEF Traced
  <2>. QED BY <2>5, <2>6
<1>4. ASSUME CreateUpserts(h) PROVE Traced(u)'
  <2>1. PICK r : r = [o EXCEPT !.pc = "save", !.left = {o.from}]
    OBVIOUS
  <2>2. /\ r \in Records /\ r.pc = "save" /\ r.id = o.id /\ r.left = {o.from} /\ r.ok = o.ok
    BY <1>t, <2>1 DEF Records, Pcs
  <2>3. /\ op' = [op EXCEPT ![h] = r] /\ o.pc = "upsert"
        /\ UNCHANGED <<tree, stored, crossing, deleted, owed, safe>>
    BY <1>4, <2>1 DEF CreateUpserts
  <2>4. PICK left \in SUBSET Folders : left = Unsaved(r)
    BY <1>t, <2>2 DEF Unsaved
  <2>5. left = Unsaved(o)
    BY <2>2, <2>3, <2>4 DEF Unsaved
  <2>6. o.id = u /\ u \notin deleted => \E f \in Folders : ListedAt(f, u)
    BY <1>u, <2>3 DEF Present, Promises
  <2>7. o.id = u /\ o.ok => SavedBut(u, left)
    BY <1>u, <2>3, <2>5 DEF Saved, Promises
  <2>8. Stays(u)
    BY <1>u, <2>3, Unmoved
  <2>. QED BY <1>u, <2>2, <2>3, <2>4, <2>6, <2>7, <2>8, HandlerTraces
<1>7. ASSUME NEW v \in Docs, NEW g \in Folders, NEW q \in Files, MoveBegins(h, v, g, q)
      PROVE  Traced(u)'
  <2>1. PICK r : r = MoveTo(Idle, v, Max(ListedIn(v)), g, q)
    OBVIOUS
  <2>2. op' = [op EXCEPT ![h] = r] /\ UNCHANGED <<tree, stored, crossing, deleted, owed, safe>>
    BY <1>7, <2>1 DEF MoveBegins
  <2>3. r.pc = "apply" /\ r.id = v
    BY <2>1 DEF MoveTo, Idle
  <2>4. ListedIn(v) # {}
    BY <1>7 DEF MoveBegins, Movable
  <2>5. \E f \in Folders : ListedAt(f, v)
    BY <2>4 DEF ListedIn, ListedAt
  <2>6. r \in Records
    <3>1. Max(ListedIn(v)) \in Folders
      BY <2>4, ListedInFacts
    <3>. QED BY <2>1, <3>1, IdleTyped, PathFacts DEF MoveTo, Idle, Records, Pcs
  <2>7. ~Promises(r) /\ Unsaved(r) = {}
    BY <2>3 DEF Promises, Unsaved
  <2>8. Stays(u)
    BY <1>u, <2>2, Unmoved
  <2>. QED BY <1>u, <2>2, <2>3, <2>5, <2>6, <2>7, <2>8, HandlerTraces
<1>8. ASSUME MoveFails(h) PROVE Traced(u)'
  BY <1>8, <1>f DEF MoveFails
<1>9. ASSUME MoveApplies(h) PROVE Traced(u)'
  <2>1. PICK r : r = [o EXCEPT !.pc = "save", !.left = Folders, !.after = "queue"]
    OBVIOUS
  <2>2. r \in Records /\ r.pc = "save" /\ r.id = o.id /\ r.left = Folders
    BY <1>t, <2>1 DEF Records, Pcs
  <2>3. /\ op' = [op EXCEPT ![h] = r] /\ UNCHANGED <<stored, deleted, owed, safe>>
        /\ Lists(tree[o.from], o.id) # {}
        /\ crossing' = IF o.from = o.to THEN crossing
                       ELSE crossing \cup ({o.id} \X {o.from, o.to})
    BY <1>9, <2>1 DEF MoveApplies
  <2>4. Unsaved(r) = Folders
    BY <2>2 DEF Unsaved
  <2>5. o.id = u => \E f \in Folders : ListedAt(f, u)
    BY <1>t, <2>3 DEF ListedAt
  <2>6. Stays(u) /\ SavedBut(u, Folders)
    BY <1>9, <1>u, MoveLists DEF SavedBut
  <2>7. crossing \subseteq crossing'
        /\ \A f \in Folders : <<u, f>> \in crossing' => <<u, f>> \in crossing \/ o.id = u
    BY <2>3
  <2>. QED BY <1>u, <2>2, <2>3, <2>4, <2>5, <2>6, <2>7, HandlerTraces
<1>10. ASSUME NEW f \in Folders, NEW d \in Dirs, NEW e \in Dirs, FolderMoveBegins(h, f, d, e)
       PROVE  Traced(u)'
  <2>1. PICK r : r = [Idle EXCEPT !.pc = "next", !.plan = PlanOf(f, d, e), !.home = f]
    OBVIOUS
  <2>2. op' = [op EXCEPT ![h] = r] /\ UNCHANGED <<tree, stored, crossing, deleted, owed, safe>>
    BY <1>10, <2>1 DEF FolderMoveBegins
  <2>3. r.pc = "next" /\ r.id = None
    BY <2>1 DEF Idle
  <2>4. r \in Records
    BY <1>t, <2>2 DEF Typed, OpTypes
  <2>5. Unsaved(r) = {} /\ Stays(u)
    BY <1>u, <2>2, <2>3, Unmoved DEF Unsaved
  <2>. QED BY <1>u, <2>2, <2>3, <2>4, <2>5, HandlerTraces
<1>11. ASSUME FolderMovesDoc(h) PROVE Traced(u)'
  <2>1. PICK m \in o.plan :
          /\ IF Movable(m.entry.id, Max(ListedIn(m.entry.id) \cup {1}), m.dst)
             THEN op' = [op EXCEPT ![h] =
                          MoveTo([o EXCEPT !.plan = o.plan \ {m}], m.entry.id,
                                 Max(ListedIn(m.entry.id)), Max(ListedIn(m.entry.id)), m.dst)]
             ELSE op' = [op EXCEPT ![h] = Idle]
          /\ UNCHANGED <<treeVars, resVars, workVars, boundVars, histVars>>
    BY <1>11, Zenon DEF FolderMovesDoc
  <2>2. CASE Movable(m.entry.id, Max(ListedIn(m.entry.id) \cup {1}), m.dst)
    <3>1. PICK r : r = MoveTo([o EXCEPT !.plan = o.plan \ {m}], m.entry.id,
                              Max(ListedIn(m.entry.id)), Max(ListedIn(m.entry.id)), m.dst)
      OBVIOUS
    <3>2. op' = [op EXCEPT ![h] = r] /\ UNCHANGED <<tree, stored, crossing, deleted, owed, safe>>
      BY <2>1, <2>2, <3>1
    <3>3. r.pc = "apply" /\ r.id = m.entry.id
      BY <1>t, <3>1 DEF MoveTo, Records
    <3>4. r \in Records
      BY <1>t, <3>2 DEF Typed, OpTypes
    <3>5. \E f \in Folders : ListedAt(f, m.entry.id)
      BY <2>2 DEF Movable, ListedIn, ListedAt
    <3>6. ~Promises(r) /\ Unsaved(r) = {} /\ Stays(u)
      BY <1>u, <3>2, <3>3, Unmoved DEF Promises, Unsaved
    <3>. QED BY <1>u, <3>2, <3>3, <3>4, <3>5, <3>6, HandlerTraces
  <2>3. CASE ~Movable(m.entry.id, Max(ListedIn(m.entry.id) \cup {1}), m.dst)
    BY <1>f, <2>1, <2>3 DEF Fails
  <2>. QED BY <2>2, <2>3
<1>12. ASSUME FolderMoveEnds(h) PROVE Traced(u)'
  <2>1. PICK r : r = [o EXCEPT !.pc = "save", !.plan = {}, !.left = {o.home},
                               !.from = o.home, !.to = o.home, !.after = "clear", !.id = None]
    OBVIOUS
  <2>2. op' = [op EXCEPT ![h] = r] /\ UNCHANGED <<stored, crossing, deleted, owed, safe>>
    BY <1>12, <2>1 DEF FolderMoveEnds
  <2>3. r.pc = "save" /\ r.id = None /\ r \in Records
    BY <1>t, <2>1, <2>2 DEF Records, Typed, OpTypes
  <2>4. PICK left \in SUBSET Folders : left = Unsaved(r)
    BY <2>3 DEF Unsaved, Records
  <2>5. Stays(u)
    BY <1>12, <1>u, EndsLists
  <2>. QED BY <1>u, <2>2, <2>3, <2>4, <2>5, HandlerTraces
<1>13. ASSUME NEW f \in Folders, NEW p \in Files, NEW q \in Files, FileMoves(h, f, p, q)
       PROVE  Traced(u)'
  <2>1. PICK r : r = [Idle EXCEPT !.pc = "save", !.from = f, !.to = f,
                                  !.left = {f}, !.after = "clear"]
    OBVIOUS
  <2>2. op' = [op EXCEPT ![h] = r] /\ UNCHANGED <<stored, crossing, deleted, owed, safe>>
    BY <1>13, <2>1 DEF FileMoves
  <2>3. r.pc = "save" /\ r.id = None /\ r \in Records /\ r.left = {f}
    BY <1>t, <2>1, <2>2 DEF Idle, Typed, OpTypes
  <2>4. Stays(u)
    BY <1>13, <1>u, RenameLists DEF FileMoves
  <2>5. PICK left \in SUBSET Folders : left = Unsaved(r)
    BY <2>3 DEF Unsaved
  <2>. QED BY <1>u, <2>2, <2>3, <2>4, <2>5, HandlerTraces
<1>14. ASSUME NEW f \in Folders, NEW p \in Files, HashUpdates(h, f, p) PROVE Traced(u)'
  <2>1. PICK r : r = [Idle EXCEPT !.pc = "save", !.from = f, !.to = f, !.left = {f}]
    OBVIOUS
  <2>2. op' = [op EXCEPT ![h] = r] /\ UNCHANGED <<stored, crossing, deleted, owed, safe>>
    BY <1>14, <2>1 DEF HashUpdates
  <2>3. r.pc = "save" /\ r.id = None /\ r \in Records /\ r.left = {f}
    BY <1>t, <2>1, <2>2 DEF Idle, Typed, OpTypes
  <2>4. Stays(u)
    BY <1>14, <1>u, HashLists
  <2>5. PICK left \in SUBSET Folders : left = Unsaved(r)
    BY <2>3 DEF Unsaved
  <2>. QED BY <1>u, <2>2, <2>3, <2>4, <2>5, HandlerTraces
<1>15. ASSUME RebuildClears(h) \/ RebuildFolder(h) PROVE Traced(u)'
  <2>1. o.id = None
    BY <1>15, <1>t DEF RebuildClears, RebuildFolder, OpOK
  <2>2. PICK r \in Records : op' = [op EXCEPT ![h] = r] /\ r.id = None
                             /\ r.pc \in {"queue", "rebuild"}
    <3>1. PICK r : /\ op' = [op EXCEPT ![h] = r]
                   /\ \E left : r = [o EXCEPT !.pc = IF left = {} THEN "queue" ELSE "rebuild",
                                              !.left = left]
      <4>1. CASE RebuildClears(h)
        BY <4>1 DEF RebuildClears
      <4>2. CASE RebuildFolder(h)
        <5>1. PICK left : left = o.left \ {Min(o.left)}
          OBVIOUS
        <5>2. o.pc = "rebuild" /\ op' = [op EXCEPT ![h] =
                [o EXCEPT !.left = left, !.pc = IF left = {} THEN "queue" ELSE o.pc]]
          BY <4>2, <5>1 DEF RebuildFolder
        <5>3. [o EXCEPT !.left = left, !.pc = IF left = {} THEN "queue" ELSE o.pc]
              = [o EXCEPT !.pc = IF left = {} THEN "queue" ELSE "rebuild", !.left = left]
          BY <1>t, <5>2 DEF Records
        <5>. QED BY <5>2, <5>3
      <4>. QED BY <1>15, <4>1, <4>2
    <3>2. r \in Records
      BY <1>t, <3>1 DEF Typed, OpTypes
    <3>3. r.id = None /\ r.pc \in {"queue", "rebuild"}
      BY <1>t, <2>1, <3>1 DEF Records
    <3>. QED BY <3>1, <3>2, <3>3
  <2>3. UNCHANGED <<tree, stored, crossing, deleted, owed, safe>>
    BY <1>15 DEF RebuildClears, RebuildFolder
  <2>4. Unsaved(r) = {} /\ Stays(u)
    BY <1>u, <2>2, <2>3, Unmoved DEF Unsaved
  <2>. QED BY <1>u, <2>2, <2>3, <2>4, HandlerTraces
<1>5. ASSUME NEW ok \in BOOLEAN, Save(h, ok) PROVE Traced(u)'
  <2>1. PICK f : f = Min(o.left)
    OBVIOUS
  <2>2. PICK r : r = [o EXCEPT !.left = o.left \ {f}, !.ok = o.ok /\ ok,
                               !.pc = IF o.left \ {f} = {} THEN o.after ELSE "save"]
    OBVIOUS
  <2>3. /\ o.pc = "save" /\ o.left # {} /\ o.after \in {"idle", "queue", "clear"}
        /\ f \in o.left /\ f \in Folders
    BY <1>5, <1>t, <2>1, MinIs DEF Save, OpOK
  <2>4. /\ tree' = tree /\ deleted' = deleted
        /\ stored' = IF ok THEN [stored EXCEPT ![f] = tree[f]] ELSE stored
        /\ crossing' = IF ok THEN {x \in crossing : x[2] # f} ELSE crossing
        /\ r.pc = "idle" => Answers(h, r)
        /\ r.pc # "idle" => op' = [op EXCEPT ![h] = r] /\ UNCHANGED <<owed, safe>>
    BY <1>5, <2>1, <2>2 DEF Save
  <2>5. /\ r.id = o.id /\ r.ok = (o.ok /\ ok) /\ r.left = o.left \ {f}
        /\ r.pc = IF o.left \ {f} = {} THEN o.after ELSE "save"
    BY <1>t, <2>2 DEF Records
  <2>6. /\ OnePlace(u)' /\ KeptOnce(u)' /\ Behind(u)'
        /\ \A g \in Folders : ListedAt(g, u)' = ListedAt(g, u)
        /\ \A g \in Folders : KeptAt(g, u)' => KeptAt(g, u) \/ ListedAt(g, u)
        /\ \A fs \in SUBSET Folders : SavedBut(u, fs) => SavedBut(u, fs)'
        /\ ok => \A fs \in SUBSET Folders : SavedBut(u, fs) => SavedBut(u, fs \ {f})'
    <3>1. CASE ok
      BY <1>u, <2>3, <2>4, <3>1, SaveKeeps
    <3>2. CASE ~ok
      <4>1. UNCHANGED <<tree, stored, crossing>>
        BY <2>4, <3>2
      <4>. QED BY <1>u, <3>2, <4>1
               DEF Traced, OnePlace, KeptOnce, Behind, ListedAt, KeptAt, SavedBut
    <3>. QED BY <3>1, <3>2
  <2>7. o.id = u /\ u \notin deleted => \E g \in Folders : ListedAt(g, u)
    BY <1>u, <2>3 DEF Present, Promises
  <2>8. PICK left \in SUBSET Folders : left = o.left
    BY <1>t
  <2>9. o.id = u /\ r.ok => SavedBut(u, left \ {f})'
    <3>1. ASSUME o.id = u, r.ok PROVE SavedBut(u, left)
      BY <1>u, <2>3, <2>5, <2>8, <3>1 DEF Saved, Promises, Unsaved
    <3>. QED BY <2>5, <2>6, <3>1
  <2>10. PICK s \in Records, rest \in SUBSET Folders :
           /\ op' = [op EXCEPT ![h] = s] /\ rest = Unsaved(s) /\ s.pc # "write"
           /\ s.id = u => o.id = u
           /\ s.id = u /\ Promises(s) /\ s.ok => SavedBut(u, rest)'
    <3>1. CASE r.pc = "idle"
      <4>1. op' = [op EXCEPT ![h] = Idle]
        BY <2>4, <3>1 DEF Answers
      <4>2. Unsaved(Idle) = {}
        BY <1>s DEF Unsaved
      <4>. QED BY <1>u, <4>1, <4>2
    <3>2. CASE r.pc # "idle"
      <4>1. op' = [op EXCEPT ![h] = r] /\ r \in Records
        BY <1>t, <2>4, <3>2 DEF Typed, OpTypes
      <4>2. Promises(r) => Unsaved(r) = left \ {f}
        BY <2>3, <2>5, <2>8 DEF Unsaved, Promises
      <4>3. Unsaved(r) \in SUBSET Folders /\ r.pc # "write"
        BY <2>3, <2>5, <2>8 DEF Unsaved
      <4>4. PICK rest \in SUBSET Folders : rest = Unsaved(r)
        BY <4>3
      <4>5. r.id = u /\ Promises(r) /\ r.ok => SavedBut(u, rest)'
        BY <2>5, <2>9, <4>2, <4>4
      <4>. QED BY <2>5, <4>1, <4>3, <4>4, <4>5
    <3>. QED BY <3>1, <3>2
  <2>11. /\ u \in owed' => u \in owed \/ (o.id = u /\ u \notin deleted)
         /\ u \in safe' => u \in safe \/ (o.id = u /\ r.ok /\ left \ {f} = {})
    <3>1. CASE r.pc = "idle"
      <4>1. r.left = {}
        BY <2>3, <2>5, <3>1
      <4>. QED BY <2>4, <2>5, <2>8, <3>1, <4>1 DEF Answers
    <3>2. CASE r.pc # "idle"
      BY <2>4, <3>2
    <3>. QED BY <3>1, <3>2
  <2>12. Present(u)' /\ Saved(u)'
    <3>1. u \in owed' \/ (s.id = u /\ Promises(s) /\ u \notin deleted)
            => \E g \in Folders : ListedAt(g, u)'
      BY <1>u, <2>6, <2>7, <2>10, <2>11 DEF Present
    <3>2. u \in safe' => SavedBut(u, {})'
      BY <1>u, <2>6, <2>9, <2>11 DEF Saved
    <3>3. (\E g \in Folders : ListedAt(g, u)) => \E g \in Folders : ListedAt(g, u)'
      BY <2>6
    <3>. QED BY <1>u, <2>4, <2>6, <2>10, <3>1, <3>2, <3>3, HandlerKeeps
  <2>13. Fresh(u)'
    <3>1. \A g \in Folders : <<u, g>> \in crossing' => <<u, g>> \in crossing
      BY <2>4
    <3>. QED BY <1>u, <2>6, <2>10, <2>11, <3>1, FreshKeeps
  <2>. QED BY <2>6, <2>12, <2>13 DEF Traced
<1>6. ASSUME Queues(h) PROVE Traced(u)'
  <2>1. /\ o.pc = "queue" /\ UNCHANGED <<tree, stored, deleted, crossing>>
        /\ o.plan # {} => op' = [op EXCEPT ![h] = [o EXCEPT !.pc = "next"]]
                          /\ UNCHANGED <<owed, safe>>
        /\ o.plan = {} => Answers(h, o)
    BY <1>6 DEF Queues
  <2>2. Stays(u)
    BY <1>u, <2>1, Unmoved
  <2>3. /\ OnePlace(u)' /\ KeptOnce(u)' /\ Behind(u)'
        /\ \A fs \in SUBSET Folders : SavedBut(u, fs) => SavedBut(u, fs)'
        /\ \A g \in Folders : (ListedAt(g, u)' = ListedAt(g, u)) /\ (KeptAt(g, u)' = KeptAt(g, u))
    BY <1>u, <2>1, <2>2, FollowsKeeps DEF Stays, ListedAt, KeptAt
  <2>4. o.id = u => /\ u \notin deleted => \E g \in Folders : ListedAt(g, u)
                    /\ o.ok => SavedBut(u, {})
    BY <1>u, <2>1 DEF Present, Saved, Promises, Unsaved
  <2>5. PICK s \in Records : /\ op' = [op EXCEPT ![h] = s] /\ s.pc \in {"next", "idle"}
                             /\ s.id = u => o.id = u
    <3>1. CASE o.plan # {}
      <4>1. [o EXCEPT !.pc = "next"] \in Records /\ [o EXCEPT !.pc = "next"].id = o.id
            /\ [o EXCEPT !.pc = "next"].pc = "next"
        BY <1>t DEF Records, Pcs
      <4>. QED BY <2>1, <3>1, <4>1
    <3>2. CASE o.plan = {}
      BY <1>u, <1>s, <2>1, <3>2 DEF Answers
    <3>. QED BY <3>1, <3>2
  <2>6. /\ u \in owed' => u \in owed \/ (o.id = u /\ u \notin deleted)
        /\ u \in safe' => u \in safe \/ (o.id = u /\ o.ok)
    BY <2>1 DEF Answers
  <2>7. Unsaved(s) = {} /\ ~Promises(s)
    BY <2>5 DEF Unsaved, Promises
  <2>8. Present(u)' /\ Saved(u)'
    <3>1. u \in owed' => \E g \in Folders : ListedAt(g, u)'
      BY <1>u, <2>3, <2>4, <2>6 DEF Present
    <3>2. u \in safe' => SavedBut(u, {})'
      BY <1>u, <2>3, <2>4, <2>6 DEF Saved
    <3>3. (\E g \in Folders : ListedAt(g, u)) => \E g \in Folders : ListedAt(g, u)'
      BY <2>3
    <3>. QED BY <1>u, <2>1, <2>3, <2>5, <2>7, <3>1, <3>2, <3>3, HandlerKeeps
  <2>9. Fresh(u)'
    BY <1>u, <2>1, <2>3, <2>5, <2>6, FreshKeeps
  <2>. QED BY <2>3, <2>8, <2>9 DEF Traced
<1>. QED
  BY <1>1, <1>2, <1>3, <1>4, <1>5, <1>6, <1>7, <1>8, <1>9, <1>10, <1>11, <1>12, <1>13,
     <1>14, <1>15 DEF HandlerStep

\* One step per action.
LEMMA StepTraced == Typed /\ AllTraced /\ [Next]_vars => AllTraced'
<1> SUFFICES ASSUME Typed, AllTraced, [Next]_vars, NEW u \in Docs \ contested' PROVE Traced(u)'
  BY DEF AllTraced
<1> USE DEF treeVars, resVars, workVars, boundVars, histVars
<1>a. ASSUME u \notin contested
      PROVE  /\ Traced(u) /\ OnePlace(u) /\ KeptOnce(u) /\ Present(u) /\ Behind(u)
             /\ Saved(u) /\ Fresh(u) /\ u \in Docs
  BY <1>a DEF AllTraced, Traced
<1>1. ASSUME NEW h \in Handlers, HandlerStep(h) PROVE Traced(u)'
  BY <1>1, HandlerTraced
<1>2. ASSUME NEW f \in Folders, NEW p \in Files, NEW q \in Files, ClientRenames(f, p, q)
      PROVE  Traced(u)'
  <2>1. /\ u \notin contested
        /\ UNCHANGED <<stored, op, crossing, deleted, owed, safe>>
    BY <1>2 DEF ClientRenames
  <2>2. Stays(u)
    BY <1>2, <1>a, <2>1, RenameLists DEF ClientRenames, HasFile
  <2>. QED BY <1>a, <2>1, <2>2, OthersTrace
<1>3. ASSUME NEW f \in Folders, NEW p \in Files, ClientDeletes(f, p) PROVE Traced(u)'
  <2>1. /\ u \notin contested /\ UNCHANGED <<stored, op, crossing>>
        /\ deleted' = deleted \cup {tree[f].meta[p].id}
        /\ owed' = owed \ {tree[f].meta[p].id} /\ safe' = safe \ {tree[f].meta[p].id}
    BY <1>3 DEF ClientDeletes
  <2>2. CASE u # tree[f].meta[p].id
    <3>1. Stays(u)
      BY <1>3, <1>a, <2>1, <2>2, DeleteLists
    <3>. QED BY <1>a, <2>1, <2>2, <3>1, OthersTrace
  <2>3. CASE u = tree[f].meta[p].id
    <3>1. \A g \in Folders : Lists(tree'[g], u) = {}
      BY <1>3, <1>a, <2>1, <2>3, DeleteLists
    <3>2. \A g \in Folders : ~ListedAt(g, u)' /\ KeptAt(g, u)' = KeptAt(g, u)
      BY <2>1, <3>1 DEF ListedAt, KeptAt
    <3>3. u \in deleted' /\ u \notin owed' /\ u \notin safe'
      BY <2>1, <2>3
    <3>4. OnePlace(u)' /\ KeptOnce(u)' /\ Behind(u)'
      BY <1>a, <2>1, <3>1, <3>2 DEF OnePlace, KeptOnce, Behind
    <3>5. Present(u)' /\ Saved(u)' /\ Fresh(u)'
      <4>1. ListedAt(f, u)
        BY <1>3, <2>3, PathFacts DEF ListedAt, Lists, ClientDeletes, HasFile, Free
      <4>. QED BY <1>a, <2>1, <3>2, <3>3, <4>1 DEF Present, Saved, SavedBut, Fresh
    <3>. QED BY <3>4, <3>5 DEF Traced
  <2>. QED BY <2>2, <2>3
<1>4. ASSUME NEW f \in Folders, BackgroundSaves(f) PROVE Traced(u)'
  <2>1. /\ u \notin contested /\ UNCHANGED <<tree, op, deleted, owed, safe>>
        /\ stored' = [stored EXCEPT ![f] = tree[f]]
        /\ crossing' = {x \in crossing : x[2] # f}
    BY <1>4 DEF BackgroundSaves
  <2>2. /\ OnePlace(u)' /\ KeptOnce(u)' /\ Behind(u)'
        /\ \A g \in Folders : ListedAt(g, u)' = ListedAt(g, u)
        /\ \A g \in Folders : KeptAt(g, u)' => KeptAt(g, u) \/ ListedAt(g, u)
        /\ \A fs \in SUBSET Folders : SavedBut(u, fs) => SavedBut(u, fs)'
    BY <1>a, <2>1, SaveKeeps
  <2>3. Present(u)'
    BY <1>a, <2>1, <2>2 DEF Present, Promises
  <2>4. Saved(u)'
    <3>1. \A h \in Handlers : Unsaved(op[h]) \in SUBSET Folders
      BY DEF Typed, OpTypes, Records, Unsaved
    <3>2. ASSUME NEW h \in Handlers, (op[h].id = u /\ Promises(op[h]) /\ op[h].ok)'
          PROVE  SavedBut(u, Unsaved(op[h]))'
      <4>1. PICK fs \in SUBSET Folders : fs = Unsaved(op[h])
        BY <3>1
      <4>2. SavedBut(u, fs)
        BY <1>a, <2>1, <3>2, <4>1 DEF Saved, Promises
      <4>3. SavedBut(u, fs)'
        BY <2>2, <4>2
      <4>. QED BY <2>1, <4>1, <4>3 DEF SavedBut, Unsaved
    <3>3. u \in safe' => SavedBut(u, {})'
      BY <1>a, <2>1, <2>2 DEF Saved
    <3>. QED BY <3>2, <3>3, Zenon DEF Saved
  <2>5. Fresh(u)'
    BY <1>a, <2>1, <2>2 DEF Fresh
  <2>. QED BY <2>2, <2>3, <2>4, <2>5 DEF Traced
<1>5. ASSUME \/ \E f \in Folders : WorkerTakes(f)
             \/ WorkerRemoves \/ WorkerRebuilds \/ WorkerAcks \/ UNCHANGED vars
      PROVE  Traced(u)'
  <2>1. UNCHANGED <<tree, stored, op, crossing, deleted, owed, safe, contested>>
    BY <1>5 DEF WorkerTakes, WorkerRemoves, WorkerRebuilds, WorkerAcks, vars
  <2>2. Stays(u)
    BY <1>a, <2>1, Unmoved
  <2>. QED BY <1>a, <2>1, <2>2, OthersTrace
<1>6. ASSUME Crash PROVE Traced(u)'
  <2>1. /\ u \notin contested /\ ~Torn(u) /\ tree' = stored /\ stored' = stored
        /\ op' = [h \in Handlers |-> Idle] /\ owed' = safe /\ safe' = safe /\ crossing' = {}
    BY <1>6 DEF Crash
  <2>2. \A f \in Folders : (ListedAt(f, u)' <=> KeptAt(f, u)) /\ (KeptAt(f, u)' <=> KeptAt(f, u))
    BY <2>1 DEF ListedAt, KeptAt
  <2>3. (\E f \in Folders : <<u, f>> \in crossing) =>
           \E f \in Folders : \A g \in Folders : KeptAt(g, u) <=> g = f
    <3>1. SUFFICES ASSUME \E f \in Folders : <<u, f>> \in crossing
                   PROVE  \E f \in Folders : \A g \in Folders : KeptAt(g, u) <=> g = f
      OBVIOUS
    <3>2. PICK S : S = {f \in Folders : Lists(stored[f], u) # {}}
      OBVIOUS
    <3>3. Cardinality(S) = 1
      BY <2>1, <3>1, <3>2 DEF Torn
    <3>4. IsFiniteSet(S)
      <4>1. IsFiniteSet(Folders)
        BY FoldersAssumption, FS_Interval DEF Folders
      <4>. QED BY <3>2, <4>1, FS_Subset
    <3>5. \E f : S = {f}
      BY <3>3, <3>4, FS_Singleton
    <3>. QED BY <3>2, <3>5 DEF KeptAt
  <2>4. \A f, g \in Folders : KeptAt(f, u) /\ KeptAt(g, u) => f = g
    BY <1>a, <2>1, <2>3 DEF Behind
  <2>5. OnePlace(u)' /\ KeptOnce(u)'
    BY <1>a, <2>1, <2>4 DEF OnePlace, KeptOnce, KeptAt
  <2>6. Behind(u)'
    BY <2>2, <2>4 DEF Behind
  <2>7. Present(u)'
    <3>1. u \in safe => \E f \in Folders : KeptAt(f, u)
      <4>1. u \in safe => SavedBut(u, {}) /\ \E f \in Folders : ListedAt(f, u)
        BY <1>a, <2>1 DEF Saved, Present, Typed, HistTypes
      <4>. QED BY <2>3, <4>1 DEF SavedBut
    <3>. QED BY <2>1, <2>2, <3>1 DEF Present, Promises, Idle
  <2>8. Saved(u)'
    BY <2>1, <2>2 DEF Saved, SavedBut, Promises, Idle
  <2>9. Fresh(u)'
    BY <2>1 DEF Fresh, Idle
  <2>. QED BY <2>5, <2>6, <2>7, <2>8, <2>9 DEF Traced
<1>. QED BY <1>1, <1>2, <1>3, <1>4, <1>5, <1>6 DEF Next

\* A document that a request was told exists, and that no client deleted, is
\* listed at one place of one folder document, unless a race or a crash that
\* the code leaves open has hit it.
THEOREM FilesAreListedOnce == Spec => []ListedOnce
<1>1. ASSUME Typed, AllTraced PROVE ListedOnce
  <2> SUFFICES ASSUME NEW u \in owed \ contested PROVE Cardinality(Places(u)) = 1
    BY DEF ListedOnce
  <2>1. u \in Docs /\ OnePlace(u) /\ Present(u)
    BY <1>1 DEF Typed, HistTypes, AllTraced, Traced
  <2>2. PICK f \in Folders : \E p : p \in Lists(tree[f], u)
    BY <2>1 DEF Present, ListedAt
  <2>3. PICK p \in Lists(tree[f], u) : TRUE
    BY <2>2
  <2>4. p \in Paths
    BY DEF Lists
  <2>5. Places(u) = {<<f, p>>}
    BY <2>1, <2>3, <2>4 DEF Places, OnePlace
  <2>. QED BY <2>5, FS_Singleton
<1>. QED BY <1>1, InitTyped, StepTyped, InitTraced, StepTraced, PTL DEF Spec

-----------------------------------------------------------------------------
(* The two maps of a folder document.                                       *)

\* The layer of the two maps: an entry of a plain file is not in the legacy map.
InSync == contested = {} => \A f \in Folders : InStep(tree[f]) /\ InStep(stored[f])

\* The operations on folder documents keep the maps in step.
LEMMA InStepDrop ==
  ASSUME NEW t \in Trees, NEW p \in Paths, InStep(t)
  PROVE  InStep(Drop(t, p))
BY DropIs DEF InStep

\* An insertion, where a plain file does not meet what the legacy map has.
LEMMA InStepPut ==
  ASSUME NEW t \in Trees, NEW p \in Paths, NEW e \in Entries, InStep(t),
         e.type = "file" => t.docs[p] = None
  PROVE  InStep(Put(t, p, e))
<1>1. e # None
  BY FoldersAssumption
<1>. QED BY <1>1, PutIs DEF InStep

LEMMA InStepEnsure ==
  ASSUME NEW t \in Trees, NEW p \in Files, InStep(t)
  PROVE  /\ InStep(EnsureAncestors(t, p))
         /\ EnsureAncestors(t, p).docs[p] = t.docs[p]
<1>1. DirEntry # None /\ DirEntry.type = "folder" /\ DirEntry.id = DirId
  <2>1. DirEntry \in Entries
    BY DEF DirEntry, Entries, Types
  <2>. QED BY <2>1, FoldersAssumption DEF DirEntry
<1>. QED BY <1>1, EnsureIs, PathFacts DEF InStep

\* An insertion that replaces nothing finds no entry, or its document's own.
LEMMA NothingReplaced ==
  ASSUME NEW t \in Trees, born \subseteq Docs, TreeOK(born, t), NEW p \in Files,
         NEW u \in Docs, Replaced(t, p, u) = {}
  PROVE  t.meta[p] = None \/ p \in Lists(t, u)
<1>1. p \in Paths
  BY PathFacts
<1>2. t.meta[p] # None => t.meta[p].id # DirId
  BY <1>1, FileEntry, FoldersAssumption
<1>. QED BY <1>1, <1>2 DEF Replaced, Lists

\* A step on one folder document keeps the maps of the others.
LEMMA SyncPut ==
  ASSUME Typed, InSync, contested' = {}, contested \subseteq contested',
         NEW f \in Folders, NEW t, tree' = [tree EXCEPT ![f] = t], stored' = stored, InStep(t)
  PROVE  InSync'
BY DEF Typed, TreeTypes, InSync

\* The start, and the steps that write folder documents.
LEMMA InitSync == Init => InSync
BY Tree0Assumption DEF Init, InSync

\* The steps of handlers that change a folder document.
LEMMA CreateSync ==
  ASSUME Typed, AllTraced, InSync, contested' = {}, NEW h \in Handlers, CreateWrites(h)
  PROVE  InSync'
<1> DEFINE o == op[h]
<1>1. PICK f, p, e, t : /\ f = o.from /\ p = o.path /\ t = tree[f]
                        /\ e = [id |-> o.id, type |-> o.type, hash |-> 0]
  OBVIOUS
<1>2. /\ o.pc = "write" /\ tree' = [tree EXCEPT ![f] = Put(EnsureAncestors(t, p), p, e)]
      /\ contested' = contested \cup Replaced(t, p, o.id) /\ stored' = stored
  BY <1>1 DEF CreateWrites
<1>3. /\ o \in Records /\ OpOK(born, o) /\ f \in Folders /\ t \in Trees /\ TreeOK(born, t)
      /\ born \subseteq Docs
  BY <1>1, OpFacts
<1>4. o.id \in Docs /\ p \in Files /\ p \in Paths /\ e \in Entries
  BY <1>1, <1>2, <1>3, PathFacts DEF OpOK, Records, Entries
<1>5. Replaced(t, p, o.id) = {} /\ contested = {} /\ InStep(t)
  BY <1>1, <1>2, <1>3 DEF InSync
<1>6. Lists(t, o.id) = {}
  BY <1>1, <1>2, <1>3, <1>4, <1>5 DEF AllTraced, Traced, Fresh, ListedAt
<1>7. t.meta[p] = None
  BY <1>3, <1>4, <1>5, <1>6, NothingReplaced
<1>8. EnsureAncestors(t, p).docs[p] = None
  BY <1>3, <1>4, <1>5, <1>7, InStepEnsure DEF InStep
<1>9. InStep(Put(EnsureAncestors(t, p), p, e))
  BY <1>3, <1>4, <1>5, <1>8, InStepEnsure, InStepPut, EnsureIs
<1>. QED BY <1>2, <1>3, <1>9, SyncPut

LEMMA MoveSync ==
  ASSUME Typed, AllTraced, InSync, contested' = {}, NEW h \in Handlers, MoveApplies(h)
  PROVE  InSync'
<1>1. op[h].pc = "apply" /\ Lists(tree[op[h].from], op[h].id) # {} /\ stored' = stored
  BY DEF MoveApplies
<1>2. PICK src : src = CHOOSE p \in Lists(tree[op[h].from], op[h].id) : TRUE
  OBVIOUS
<1>3. PICK f, g, q, v : f = op[h].from /\ g = op[h].to /\ q = op[h].path /\ v = op[h].id
  OBVIOUS
<1>4. PICK out, in : out = MovedOut(h, src) /\ in = MovedIn(h, src)
  OBVIOUS
<1>5. PICK e : e = tree[f].meta[src]
  OBVIOUS
<1>6. /\ v \in Docs /\ q \in Files /\ q \in Paths /\ f \in Folders /\ g \in Folders
      /\ src \in Lists(tree[f], v) /\ src \in Paths
      /\ tree[f] \in Trees /\ tree[g] \in Trees /\ TreeOK(born, tree[g])
      /\ e \in Entries /\ born \subseteq Docs
  BY <1>1, <1>2, <1>3, <1>5, MoveSource, OpFacts
<1>7. Replaced(tree[g], q, v) = {} /\ contested = {} /\ InStep(tree[f]) /\ InStep(tree[g])
      /\ \A k \in Folders : InStep(tree[k]) /\ InStep(stored[k])
  BY <1>3, <1>6 DEF MoveApplies, InSync
<1>8. tree' = [k \in Folders |-> IF k = g THEN in ELSE IF k = f THEN out ELSE tree[k]]
  BY <1>2, <1>3, <1>4, MoveTrees
<1>9. tree[g].meta[q] = None \/ (f = g /\ q = src)
  <2>1. tree[g].meta[q] = None \/ q \in Lists(tree[g], v)
    BY <1>6, <1>7, NothingReplaced
  <2>2. OnePlace(v)
    BY <1>6, <1>7 DEF AllTraced, Traced
  <2>. QED BY <1>6, <2>1, <2>2 DEF OnePlace
<1>10. CASE f = g
  <2>1. in = Put(Drop(EnsureAncestors(tree[f], q), src), q, e)
    BY <1>3, <1>4, <1>5, <1>10 DEF MovedIn, MovedOut
  <2>2. PICK t : t = EnsureAncestors(tree[f], q)
    OBVIOUS
  <2>3. t \in Trees /\ InStep(t) /\ t.docs[q] = tree[f].docs[q]
    BY <1>6, <1>7, <2>2, EnsureIs, InStepEnsure
  <2>4. tree[f].meta[q] = None => tree[f].docs[q] = None
    BY <1>6, <1>7 DEF InStep
  <2>5. Drop(t, src).docs[q] = None /\ Drop(t, src) \in Trees /\ InStep(Drop(t, src))
    BY <1>6, <1>9, <1>10, <2>3, <2>4, DropIs, InStepDrop
  <2>6. InStep(in)
    BY <1>6, <2>1, <2>2, <2>5, InStepPut
  <2>. QED BY <1>1, <1>7, <1>8, <1>10, <2>6 DEF InSync
<1>11. CASE f # g
  <2>1. /\ out = Drop(tree[f], src)
        /\ in = Put(EnsureAncestors(tree[g], q), q, e)
    BY <1>3, <1>4, <1>5, <1>11 DEF MovedIn, MovedOut
  <2>2. InStep(out)
    BY <1>6, <1>7, <2>1, InStepDrop
  <2>3. EnsureAncestors(tree[g], q).docs[q] = None
    BY <1>6, <1>7, <1>9, <1>11, InStepEnsure DEF InStep
  <2>4. InStep(in)
    BY <1>6, <1>7, <2>1, <2>3, InStepEnsure, InStepPut, EnsureIs
  <2>. QED BY <1>1, <1>7, <1>8, <2>2, <2>4 DEF InSync
<1>. QED BY <1>10, <1>11

LEMMA EndsSync ==
  ASSUME Typed, AllTraced, InSync, contested' = {}, NEW h \in Handlers, FolderMoveEnds(h)
  PROVE  InSync'
<1>1. PICK plan, f, old, new :
        plan = op[h].plan /\ f = op[h].home /\ old = tree[f] /\ new = Replanted(h)
  OBVIOUS
<1>2. /\ f \in Folders /\ old \in Trees /\ plan \in SUBSET Moves /\ PlanOK(born, plan)
      /\ TreeOK(born, old) /\ born \subseteq Docs
  BY <1>1, OpFacts DEF OpOK
<1>3. tree' = [tree EXCEPT ![f] = new] /\ stored' = stored
  BY <1>1, FolderMoveEndsIs DEF FolderMoveEnds
<1>4. /\ contested = {}
      /\ \A m \in plan : /\ ~IsDocMove(m)
                         /\ Replaced(old, m.dst, m.entry.id) = {}
                         /\ m.entry.id # DirId => old.meta[m.src] = m.entry
  <2> DEFINE o == op[h]
             t == tree[o.home]
  <2>1. contested' = contested
          \cup (UNION {Replaced(t, m.dst, m.entry.id) : m \in o.plan})
          \cup (UNION {Replaced(t, m.src, m.entry.id) : m \in o.plan})
          \cup ({m.entry.id : m \in {n \in o.plan : t.meta[n.src] # n.entry}} \ {DirId})
    BY DEF FolderMoveEnds
  <2>2. \A m \in o.plan : ~IsDocMove(m)
    BY DEF FolderMoveEnds
  <2>3. contested = {}
    BY <2>1
  <2>4. ASSUME NEW m \in o.plan
        PROVE  /\ Replaced(t, m.dst, m.entry.id) = {}
               /\ m.entry.id # DirId => t.meta[m.src] = m.entry
    BY <2>1
  <2>. QED BY <1>1, <2>2, <2>3, <2>4
<1>5. \A p \in Paths :
        \/ \E m \in plan : /\ m.dst = p /\ new.meta[p] = m.entry
                           /\ new.docs[p] = IF m.entry.type = "folder" THEN m.entry.id
                                            ELSE old.docs[p]
        \/ new.meta[p] = None /\ new.docs[p] = None
        \/ new.meta[p] = old.meta[p] /\ new.docs[p] = old.docs[p]
  BY <1>1, ReplantedIs, Zenon
<1>6. /\ \A m \in plan : /\ m.src \in Paths /\ m.dst \in Paths /\ m.entry \in Entries
                         /\ EntryOK(born, m.dst, m.entry) /\ m.entry # None
      /\ \A m, n \in plan : m.dst # n.src
  BY <1>2, PlanFacts, FoldersAssumption
<1>7. InStep(old)
  BY <1>1, <1>2, <1>4 DEF InSync
<1>8. ASSUME NEW m \in plan, m.entry.type # "folder"
      PROVE  m.entry.type = "file" /\ old.docs[m.dst] = None
  <2>1. m.entry.type = "file"
    BY <1>4, <1>6, <1>8 DEF IsDocMove, Entries, Types
  <2>2. m.dst \in Files /\ m.entry.id \in Docs /\ m.entry.id # DirId
    BY <1>2, <1>6, <1>8 DEF EntryOK
  <2>3. m.src \in Lists(old, m.entry.id)
    BY <1>4, <1>6, <2>2 DEF Lists
  <2>4. m.dst \notin Lists(old, m.entry.id)
    <3>1. OnePlace(m.entry.id)
      BY <1>4, <2>2 DEF AllTraced, Traced
    <3>. QED BY <1>1, <1>2, <1>6, <2>3, <3>1 DEF OnePlace
  <2>5. old.meta[m.dst] = None
    BY <1>2, <1>4, <2>2, <2>4, NothingReplaced
  <2>. QED BY <1>6, <1>7, <2>1, <2>5 DEF InStep
<1>9. InStep(new)
  <2>1. ASSUME NEW p \in Paths
        PROVE  new.docs[p] = IF new.meta[p] = None \/ new.meta[p].type = "file"
                             THEN None ELSE new.meta[p].id
    <3>1. CASE \E m \in plan : /\ m.dst = p /\ new.meta[p] = m.entry
                               /\ new.docs[p] = IF m.entry.type = "folder" THEN m.entry.id
                                                ELSE old.docs[p]
      BY <1>6, <1>8, <3>1
    <3>2. CASE new.meta[p] = None /\ new.docs[p] = None
      BY <3>2
    <3>3. CASE new.meta[p] = old.meta[p] /\ new.docs[p] = old.docs[p]
      BY <1>7, <3>3 DEF InStep
    <3>. QED BY <1>5, <3>1, <3>2, <3>3
  <2>. QED BY <2>1 DEF InStep
<1>. QED BY <1>2, <1>3, <1>4, <1>9, SyncPut

\* A rename, where the new path is free or the old one.
LEMMA RenameSync ==
  ASSUME Typed, InSync, contested' = {}, contested' = contested, stored' = stored,
         NEW f \in Folders, NEW p \in Files, NEW q \in Files,
         ~Free(f, p), Free(f, q) \/ p = q, NEW t, tree' = [tree EXCEPT ![f] = t],
         \/ t = Put(Drop(tree[f], p), q, tree[f].meta[p])
         \/ t = Put(EnsureAncestors(Drop(tree[f], p), q), q, tree[f].meta[p])
  PROVE  InSync'
<1>1. /\ p \in Paths /\ q \in Paths /\ tree[f] \in Trees /\ TreeOK(born, tree[f])
      /\ born \subseteq Docs /\ InStep(tree[f])
  BY PathFacts DEF Typed, TreeTypes, HistTypes, InSync
<1>2. PICK e, d : e = tree[f].meta[p] /\ d = Drop(tree[f], p)
  OBVIOUS
<1>3. e \in Entries /\ d \in Trees /\ InStep(d)
  BY <1>1, <1>2, FileEntry, DropIs, InStepDrop DEF Free
<1>4. d.docs[q] = None
  BY <1>1, <1>2, DropIs DEF Free, InStep
<1>5. InStep(Put(d, q, e)) /\ InStep(Put(EnsureAncestors(d, q), q, e))
  BY <1>1, <1>3, <1>4, InStepEnsure, InStepPut, EnsureIs
<1>. QED BY <1>2, <1>5, SyncPut

LEMMA HashSync ==
  ASSUME Typed, InSync, contested' = {}, NEW h \in Handlers, NEW f \in Folders, NEW p \in Files,
         HashUpdates(h, f, p)
  PROVE  InSync'
<1>1. p \in Paths /\ tree[f] \in Trees /\ TreeOK(born, tree[f]) /\ born \subseteq Docs
      /\ tree[f].meta[p] # None /\ contested' = contested /\ stored' = stored
      /\ InStep(tree[f])
  BY PathFacts DEF Typed, TreeTypes, HistTypes, HashUpdates, Free, histVars, InSync
<1>2. tree[f].meta[p] \in Entries
  BY <1>1, FileEntry
<1> DEFINE e == [tree[f].meta[p] EXCEPT !.hash = @ + 1]
           t == [tree[f] EXCEPT !.meta = [@ EXCEPT ![p] = e]]
<1>3. e.id = tree[f].meta[p].id /\ e.type = tree[f].meta[p].type /\ e \in Entries
  BY <1>2 DEF Entries
<1>4. e # None
  BY <1>3, FoldersAssumption
<1>5. tree' = [tree EXCEPT ![f] = t]
  BY DEF HashUpdates
<1>6. /\ \A q \in Paths : t.meta[q] = IF q = p THEN e ELSE tree[f].meta[q]
      /\ t.docs = tree[f].docs
  <2>. HIDE DEF e
  <2>. QED BY <1>1 DEF Trees
<1>7. InStep(t)
  <2>. HIDE DEF e, t
  <2>. QED BY <1>1, <1>3, <1>4, <1>6 DEF InStep
<1>. HIDE DEF t
<1>. QED BY <1>1, <1>5, <1>7, SyncPut

\* One step per action.
LEMMA StepSync == Typed /\ AllTraced /\ InSync /\ [Next]_vars => InSync'
<1> SUFFICES ASSUME Typed, AllTraced, InSync, [Next]_vars, contested' = {} PROVE InSync'
  BY DEF InSync
<1> USE DEF treeVars, resVars, workVars, boundVars, histVars
<1>s. ASSUME contested' = contested, tree' = tree,
             \/ stored' = stored
             \/ \E f \in Folders : stored' = [stored EXCEPT ![f] = tree[f]]
      PROVE  InSync'
  BY <1>s DEF InSync, Typed, TreeTypes
<1>1. ASSUME NEW h \in Handlers, HandlerStep(h) PROVE InSync'
  <2>1. CASE CreateWrites(h)
    BY <2>1, CreateSync
  <2>2. CASE MoveApplies(h)
    BY <2>2, MoveSync
  <2>3. CASE FolderMoveEnds(h)
    BY <2>3, EndsSync
  <2>4. CASE \E f \in Folders, p, q \in Files : FileMoves(h, f, p, q)
    <3>1. PICK f \in Folders, p \in Files, q \in Files : FileMoves(h, f, p, q)
      BY <2>4
    <3>2. /\ ~Free(f, p) /\ (Free(f, q) \/ p = q)
          /\ tree' = [tree EXCEPT ![f] = Put(Drop(tree[f], p), q, tree[f].meta[p])]
          /\ UNCHANGED <<stored, contested>>
      BY <3>1 DEF FileMoves
    <3>. QED BY <3>2, RenameSync
  <2>5. CASE \E f \in Folders, p \in Files : HashUpdates(h, f, p)
    BY <2>5, HashSync
  <2>6. CASE \E ok \in BOOLEAN : Save(h, ok)
    <3>1. Min(op[h].left) \in Folders
      BY <2>6, OpFacts, MinIs DEF Save, OpOK
    <3>. QED BY <1>s, <2>6, <3>1 DEF Save
  <2>7. CASE \/ \E f \in Folders, p \in Files, u \in Docs, t \in {"markdown", "file"} :
                  CreateBegins(h, f, p, u, t)
             \/ CreateFails(h) \/ CreateUpserts(h) \/ Queues(h)
             \/ \E u \in Docs, g \in Folders, q \in Files : MoveBegins(h, u, g, q)
             \/ MoveFails(h)
             \/ \E f \in Folders, d, e \in Dirs : FolderMoveBegins(h, f, d, e)
             \/ FolderMovesDoc(h) \/ RebuildClears(h) \/ RebuildFolder(h)
    <3>1. contested' = contested /\ tree' = tree /\ stored' = stored
      BY <2>7 DEF CreateBegins, CreateFails, MoveFails, Fails, CreateUpserts, Queues, MoveBegins,
                  FolderMoveBegins, FolderMovesDoc, RebuildClears, RebuildFolder
    <3>. QED BY <1>s, <3>1
  <2>. QED BY <1>1, <2>1, <2>2, <2>3, <2>4, <2>5, <2>6, <2>7 DEF HandlerStep
<1>2. ASSUME NEW f \in Folders, NEW p \in Files, NEW q \in Files, ClientRenames(f, p, q)
      PROVE  InSync'
  BY <1>2, RenameSync DEF ClientRenames, HasFile
<1>3. ASSUME NEW f \in Folders, NEW p \in Files, ClientDeletes(f, p) PROVE InSync'
  <2>1. tree' = [tree EXCEPT ![f] = Drop(tree[f], p)] /\ UNCHANGED <<stored, contested>>
    BY <1>3 DEF ClientDeletes
  <2>2. p \in Paths /\ tree[f] \in Trees /\ InStep(tree[f])
    BY <2>1, PathFacts DEF Typed, TreeTypes, InSync
  <2>. QED BY <2>1, <2>2, InStepDrop, SyncPut
<1>4. ASSUME NEW f \in Folders, BackgroundSaves(f) PROVE InSync'
  BY <1>4, <1>s DEF BackgroundSaves
<1>5. ASSUME \/ \E f \in Folders : WorkerTakes(f)
             \/ WorkerRemoves \/ WorkerRebuilds \/ WorkerAcks \/ UNCHANGED vars
      PROVE  InSync'
  BY <1>5, <1>s DEF WorkerTakes, WorkerRemoves, WorkerRebuilds, WorkerAcks, vars
<1>6. ASSUME Crash PROVE InSync'
  <2>1. contested = {} /\ tree' = stored /\ stored' = stored
    BY <1>6 DEF Crash
  <2>. QED BY <2>1 DEF InSync
<1>. QED BY <1>1, <1>2, <1>3, <1>4, <1>5, <1>6 DEF Next

\* The two maps of every folder document agree, as long as no race has hit a
\* document.
THEOREM MapsStayInSync == Spec => []MapsInSync
<1>1. InSync => MapsInSync
  BY DEF InSync, MapsInSync
<1>. QED BY <1>1, InitTyped, StepTyped, InitTraced, StepTraced, InitSync, StepSync, PTL DEF Spec

-----------------------------------------------------------------------------
(* The resolver.                                                            *)

\* A handler that has changed, or may have changed, folder f and has not yet
\* had it queued; one that has emptied the resolver and not filled in f yet.
Dirties(o, f) == /\ f \in {o.from, o.to}
                 /\ \/ o.pc \in {"clear", "rebuild", "queue"}
                    \/ o.pc = "save" /\ o.after \in {"queue", "clear"}
Refills(o, f) == o.pc = "rebuild" /\ f \in o.left

\* The worker's pass at f has come so far, and f has not been raised again.
Done(f, steps) == work.at = f /\ ~work.again /\ work.step \in steps

\* Nothing is under way that is yet to take rows away from f, or to fill f in.
Settled(f) == /\ \A h \in Handlers : ~Dirties(op[h], f)
              /\ f \in queued => Done(f, {"rebuild", "ack"})
Filled(f)  == /\ \A h \in Handlers : ~Dirties(op[h], f) /\ ~Refills(op[h], f)
              /\ f \in queued => Done(f, {"ack"})

RowAt(x, u) == byPath[x] # None /\ byPath[x].id = u
NoRow(u)    == pathOf[u] = None /\ \A x \in Folders \X Paths : ~RowAt(x, u)

\* The rows under a folder's paths are the folder's own, and those of a listed
\* document are in its folder; a document that is being made has none.
OwnerOK  == \A x \in Folders \X Paths :
              byPath[x] # None => byPath[x].owner = x[1] \/ byPath[x].id \in misfiled
HomeOK   == \A u \in Docs \ misfiled : \A x \in Folders \X Paths, f \in Folders :
              (pathOf[u] = x \/ RowAt(x, u)) /\ ListedAt(f, u) => f = x[1]
NoRowYet == \A h \in Handlers : op[h].pc = "write" => NoRow(op[h].id)

\* What the resolver owes a folder: no row at a free path, and the row of every
\* document that it lists, with the way back.
NoGhosts(f) == \A p \in Paths : byPath[<<f, p>>] # None =>
                 HasFile(f, p) \/ byPath[<<f, p>>].id \in misfiled
Complete(f) == \A u \in Docs \ misfiled : \A p \in Lists(tree[f], u) :
                 RowAt(<<f, p>>, u) /\ pathOf[u] = <<f, p>>
Rows(f)     == IsFolderDoc(f) => /\ Settled(f) => NoGhosts(f)
                                 /\ Filled(f) => Complete(f)

InRows == contested = {} => OwnerOK /\ HomeOK /\ NoRowYet /\ \A f \in Folders : Rows(f)

\* A handler's step, with the folders fs that it queues: what is settled after
\* it was so before, and is not among fs, nor one of those the handler dirties.
LEMMA HandlerFlags ==
  ASSUME Typed, NEW h \in Handlers, NEW r \in Records, op' = [op EXCEPT ![h] = r],
         NEW fs \in SUBSET Folders, Queue(fs),
         \A f \in Folders \ fs : /\ Dirties(op[h], f) => Dirties(r, f)
                                 /\ Refills(op[h], f) => Refills(r, f)
  PROVE  \A f \in Folders : /\ Settled(f)' => Settled(f) /\ f \notin fs /\ ~Dirties(r, f)
                            /\ Filled(f)' => Filled(f) /\ f \notin fs /\ ~Dirties(r, f)
<1>1. /\ op' \in [Handlers -> Records] /\ op'[h] = r
      /\ \A k \in Handlers : k # h => op'[k] = op[k]
  BY DEF Typed, OpTypes
<1>2. /\ queued' = queued \cup fs /\ work'.at = work.at /\ work'.step = work.step
      /\ work'.again = (work.again \/ work.at \in fs)
  BY DEF Queue, Typed, WorkTypes
<1> TAKE f \in Folders
<1>3. ASSUME NEW steps, f \in queued' => Done(f, steps)'
      PROVE  f \notin fs /\ (f \in queued => Done(f, steps))
  BY <1>2, <1>3 DEF Done
<1>4. ASSUME \A k \in Handlers : ~Dirties(op'[k], f), f \notin fs
      PROVE  /\ \A k \in Handlers : ~Dirties(op[k], f)
             /\ ~Dirties(r, f)
  BY <1>1, <1>4
<1>5. ASSUME \A k \in Handlers : ~Refills(op'[k], f), f \notin fs
      PROVE  \A k \in Handlers : ~Refills(op[k], f)
  BY <1>1, <1>5
<1>6. \A k \in Handlers : /\ Dirties(op[k], f)' <=> Dirties(op'[k], f)
                          /\ Refills(op[k], f)' <=> Refills(op'[k], f)
  BY DEF Dirties, Refills
<1>7. Settled(f)' => Settled(f) /\ f \notin fs /\ ~Dirties(r, f)
  <2>. HAVE Settled(f)'
  <2>1. f \notin fs /\ (f \in queued => Done(f, {"rebuild", "ack"}))
    BY <1>3 DEF Settled
  <2>2. \A k \in Handlers : ~Dirties(op'[k], f)
    BY <1>6 DEF Settled
  <2>. QED BY <1>4, <2>1, <2>2 DEF Settled
<1>8. Filled(f)' => Filled(f) /\ f \notin fs /\ ~Dirties(r, f)
  <2>. HAVE Filled(f)'
  <2>1. f \notin fs /\ (f \in queued => Done(f, {"ack"}))
    BY <1>3 DEF Filled
  <2>2. \A k \in Handlers : ~Dirties(op'[k], f) /\ ~Refills(op'[k], f)
    BY <1>6 DEF Filled
  <2>. QED BY <1>4, <1>5, <2>1, <2>2 DEF Filled
<1>. QED BY <1>7, <1>8

\* A step that leaves the resolver alone, and changes folder documents only
\* while something is under way there.
LEMMA RowsKeep ==
  ASSUME Typed, InRows, contested' = {}, contested \subseteq contested',
         UNCHANGED <<byPath, pathOf, misfiled>>,
         \A f \in Folders : /\ Settled(f)' => Settled(f) /\ tree'[f] = tree[f]
                            /\ Filled(f)' => Filled(f) /\ tree'[f] = tree[f],
         \A u \in Docs, f \in Folders : ListedAt(f, u)' => ListedAt(f, u) \/ NoRow(u),
         \A h \in Handlers : op'[h].pc = "write" =>
           (op[h].pc = "write" /\ op'[h].id = op[h].id) \/ NoRow(op'[h].id)
  PROVE  InRows'
<1>1. OwnerOK /\ HomeOK /\ NoRowYet /\ \A f \in Folders : Rows(f)
  BY DEF InRows
<1>2. OwnerOK'
  BY <1>1 DEF OwnerOK
<1>3. \A u : /\ NoRow(u)' <=> NoRow(u)
             /\ \A x \in Folders \X Paths : RowAt(x, u)' <=> RowAt(x, u)
  BY DEF NoRow, RowAt
<1>4. HomeOK'
  <2> SUFFICES ASSUME NEW u \in Docs \ misfiled, NEW x \in Folders \X Paths, NEW f \in Folders,
                      pathOf[u] = x \/ RowAt(x, u), ListedAt(f, u)'
               PROVE  f = x[1]
    BY <1>3 DEF HomeOK
  <2>1. ~NoRow(u)
    BY FoldersAssumption DEF NoRow
  <2>. QED BY <1>1, <2>1 DEF HomeOK
<1>5. NoRowYet'
  <2> SUFFICES ASSUME NEW h \in Handlers, op'[h].pc = "write" PROVE NoRow(op'[h].id)
    BY DEF NoRowYet, NoRow, RowAt
  <2>. QED BY <1>1 DEF NoRowYet
<1>6. ASSUME NEW f \in Folders PROVE Rows(f)'
  <2>1. CASE tree'[f] = tree[f]
    <3>1. /\ IsFolderDoc(f)' <=> IsFolderDoc(f)
          /\ NoGhosts(f)' <=> NoGhosts(f)
          /\ Complete(f)' <=> Complete(f)
      BY <2>1 DEF IsFolderDoc, Free, NoGhosts, HasFile, Complete, RowAt
    <3>. QED BY <1>1, <3>1 DEF Rows
  <2>2. CASE tree'[f] # tree[f]
    BY <2>2 DEF Rows
  <2>. QED BY <2>1, <2>2
<1>. QED BY <1>2, <1>4, <1>5, <1>6 DEF InRows

\* Where a folder document has a file, and whose.
LEMMA FileIsListed ==
  ASSUME Typed, NEW f \in Folders, NEW p \in Paths
  PROVE  /\ HasFile(f, p) => tree[f].meta[p].id \in Docs /\ p \in Lists(tree[f], tree[f].meta[p].id)
         /\ \A u \in Docs : p \in Lists(tree[f], u) <=> HasFile(f, p) /\ tree[f].meta[p].id = u
<1>1. tree[f] \in Trees /\ TreeOK(born, tree[f]) /\ born \subseteq Docs
  BY DEF Typed, TreeTypes, HistTypes
<1>2. HasFile(f, p) => tree[f].meta[p].id \in Docs
  BY <1>1, FileEntry DEF HasFile, Free
<1>3. \A u \in Docs : p \in Lists(tree[f], u) => HasFile(f, p) /\ tree[f].meta[p].id = u
  BY <1>1, ListedEntry DEF HasFile, Free
<1>. QED BY <1>2, <1>3 DEF Lists, HasFile, Free

\* One folder's files are entered.
LEMMA RefilledRows ==
  ASSUME Typed, AllTraced, contested = {}, OwnerOK, HomeOK, NEW f \in Folders, RebuildFrom(f),
         UNCHANGED <<tree, misfiled>>
  PROVE  /\ OwnerOK' /\ HomeOK' /\ Complete(f)'
         /\ \A g \in Folders : /\ NoGhosts(g) => NoGhosts(g)'
                               /\ Complete(g) => Complete(g)'
         /\ \A u \in Docs : NoRow(u) /\ (\A g \in Folders : ~ListedAt(g, u)) => NoRow(u)'
<1>1. /\ \A x \in Folders \X Paths :
           /\ x[1] = f /\ HasFile(f, x[2]) => byPath'[x] = [id |-> tree[f].meta[x[2]].id, owner |-> f]
           /\ ~(x[1] = f /\ HasFile(f, x[2])) => byPath'[x] = byPath[x]
      /\ \A u \in Docs :
           /\ Lists(tree[f], u) # {} => pathOf'[u] = <<f, CHOOSE p \in Lists(tree[f], u) : TRUE>>
           /\ Lists(tree[f], u) = {} => pathOf'[u] = pathOf[u]
  BY DEF RebuildFrom
<1>2. \A u \in Docs : OnePlace(u)
  BY DEF AllTraced, Traced
<1>3. \A u \in Docs : \A p \in Lists(tree[f], u) : pathOf'[u] = <<f, p>>
  BY <1>1, <1>2 DEF OnePlace
<1>4. ASSUME NEW x \in Folders \X Paths, x[1] = f, HasFile(f, x[2])
      PROVE  /\ byPath'[x] # None /\ byPath'[x].owner = f /\ byPath'[x].id = tree[f].meta[x[2]].id
             /\ byPath'[x].id \in Docs /\ x[2] \in Lists(tree[f], byPath'[x].id)
  <2>1. tree[f].meta[x[2]].id \in Docs /\ x[2] \in Lists(tree[f], tree[f].meta[x[2]].id)
    BY <1>4, FileIsListed
  <2>2. byPath'[x] = [id |-> tree[f].meta[x[2]].id, owner |-> f]
    BY <1>1, <1>4
  <2>3. byPath'[x] \in [id : Docs, owner : Folders]
    BY <2>1, <2>2
  <2>. QED BY <2>1, <2>2, <2>3, FoldersAssumption
<1>5. OwnerOK'
  <2> SUFFICES ASSUME NEW x \in Folders \X Paths, byPath'[x] # None
               PROVE  byPath'[x].owner = x[1] \/ byPath'[x].id \in misfiled
    BY DEF OwnerOK
  <2>1. CASE x[1] = f /\ HasFile(f, x[2])
    BY <1>4, <2>1
  <2>2. CASE ~(x[1] = f /\ HasFile(f, x[2]))
    BY <1>1, <2>2 DEF OwnerOK
  <2>. QED BY <2>1, <2>2
<1>6. HomeOK'
  <2> SUFFICES ASSUME NEW u \in Docs \ misfiled, NEW x \in Folders \X Paths, NEW g \in Folders,
                      pathOf'[u] = x \/ (byPath'[x] # None /\ byPath'[x].id = u), ListedAt(g, u)
               PROVE  g = x[1]
    BY DEF HomeOK, RowAt, ListedAt
  <2>1. PICK q \in Lists(tree[g], u) : TRUE
    BY DEF ListedAt
  <2>2. CASE byPath'[x] # None /\ byPath'[x].id = u
    <3>1. CASE x[1] = f /\ HasFile(f, x[2])
      BY <1>2, <1>4, <2>1, <2>2, <3>1 DEF OnePlace
    <3>2. CASE ~(x[1] = f /\ HasFile(f, x[2]))
      BY <1>1, <2>2, <3>2 DEF HomeOK, RowAt
    <3>. QED BY <3>1, <3>2
  <2>3. CASE pathOf'[u] = x
    <3>1. CASE \E p : p \in Lists(tree[f], u)
      BY <1>2, <1>3, <2>1, <2>3, <3>1 DEF OnePlace
    <3>2. CASE Lists(tree[f], u) = {}
      BY <1>1, <2>3, <3>2 DEF HomeOK
    <3>. QED BY <3>1, <3>2
  <2>. QED BY <2>2, <2>3
<1>7. Complete(f)'
  <2> SUFFICES ASSUME NEW u \in Docs \ misfiled, NEW p \in Lists(tree[f], u)
               PROVE  /\ byPath'[<<f, p>>] # None /\ byPath'[<<f, p>>].id = u
                      /\ pathOf'[u] = <<f, p>>
    BY DEF Complete, RowAt
  <2>1. p \in Paths
    BY DEF Lists
  <2>2. HasFile(f, p) /\ tree[f].meta[p].id = u
    BY <2>1, FileIsListed
  <2>. QED BY <1>3, <1>4, <2>1, <2>2
<1>8. ASSUME NEW g \in Folders, NoGhosts(g) PROVE NoGhosts(g)'
  <2> SUFFICES ASSUME NEW p \in Paths, byPath'[<<g, p>>] # None
               PROVE  HasFile(g, p) \/ byPath'[<<g, p>>].id \in misfiled
    BY DEF NoGhosts, HasFile, Free
  <2>. QED BY <1>1, <1>8 DEF NoGhosts
<1>9. ASSUME NEW g \in Folders, Complete(g) PROVE Complete(g)'
  <2>1. CASE g = f
    BY <1>7, <2>1
  <2>2. CASE g # f
    <3> SUFFICES ASSUME NEW u \in Docs \ misfiled, NEW p \in Lists(tree[g], u)
                 PROVE  /\ byPath'[<<g, p>>] # None /\ byPath'[<<g, p>>].id = u
                        /\ pathOf'[u] = <<g, p>>
      BY DEF Complete, RowAt
    <3>1. p \in Paths /\ Lists(tree[f], u) = {}
      BY <1>2, <2>2 DEF Lists, OnePlace
    <3>2. byPath'[<<g, p>>] = byPath[<<g, p>>] /\ pathOf'[u] = pathOf[u]
      BY <1>1, <2>2, <3>1
    <3>. QED BY <1>9, <3>2 DEF Complete, RowAt
  <2>. QED BY <2>1, <2>2
<1>10. ASSUME NEW u \in Docs, NoRow(u), \A g \in Folders : ~ListedAt(g, u) PROVE NoRow(u)'
  <2>1. pathOf'[u] = None
    BY <1>1, <1>10 DEF NoRow, ListedAt
  <2>2. ASSUME NEW x \in Folders \X Paths, byPath'[x] # None, byPath'[x].id = u PROVE FALSE
    BY <1>1, <1>4, <1>10, <2>2 DEF NoRow, ListedAt, RowAt
  <2>. QED BY <2>1, <2>2 DEF NoRow, RowAt
<1>. QED BY <1>5, <1>6, <1>7, <1>8, <1>9, <1>10

\* One document is entered, and its last row taken away.
LEMMA UpsertRows ==
  ASSUME Typed, AllTraced, contested = {}, OwnerOK, HomeOK, NEW u \in Docs,
         NEW g \in Folders, NEW q \in Paths, NEW own \in Folders,
         Upsert(u, <<g, q>>, [id |-> u, owner |-> own]),
         misfiled \cup Unfiled(u, <<g, q>>) \subseteq misfiled',
         own = g \/ u \in misfiled',
         u \notin misfiled' => ListedAt(g, u) /\ \A f \in Folders : ListedAt(f, u)' => f = g,
         \A v \in Docs \ {u}, f \in Folders : ListedAt(f, v)' => ListedAt(f, v)
  PROVE  /\ OwnerOK' /\ HomeOK'
         /\ \A v \in Docs \ {u} : NoRow(v) => NoRow(v)'
         /\ byPath'[<<g, q>>] # None /\ byPath'[<<g, q>>].id = u /\ pathOf'[u] = <<g, q>>
         /\ \A x \in (Folders \X Paths) \ {<<g, q>>} : byPath'[x] # None => byPath'[x] = byPath[x]
         /\ \A v \in Docs \ (misfiled' \cup {u}), x \in (Folders \X Paths) \ {<<g, q>>} :
              RowAt(x, v) => byPath'[x] # None /\ byPath'[x].id = v
         /\ \A v \in Docs \ {u} : pathOf'[v] = pathOf[v]
         /\ \A f \in Folders \ {g} : tree'[f] = tree[f] =>
              /\ NoGhosts(f) => NoGhosts(f)'
              /\ Complete(f) => Complete(f)'
<1> DEFINE X == <<g, q>>
<1>1. /\ X \in Folders \X Paths
      /\ byPath \in [Folders \X Paths -> [id : Docs, owner : Folders] \cup {None}]
      /\ pathOf \in [Docs -> (Folders \X Paths) \cup {None}]
  BY DEF Typed, RowTypes, ResolverType
<1>2. [id |-> u, owner |-> own] # None
  BY FoldersAssumption
<1>3. /\ byPath'[X] = [id |-> u, owner |-> own]
      /\ \A x \in (Folders \X Paths) \ {X} : x = pathOf[u] => byPath'[x] = None
      /\ \A x \in (Folders \X Paths) \ {X} : x # pathOf[u] => byPath'[x] = byPath[x]
      /\ pathOf'[u] = X /\ \A v \in Docs \ {u} : pathOf'[v] = pathOf[v]
  BY <1>1 DEF Upsert
<1>4. \A x \in (Folders \X Paths) \ {X} : byPath'[x] # None => byPath'[x] = byPath[x]
  BY <1>3
<1>5. byPath'[X] # None /\ byPath'[X].id = u /\ byPath'[X].owner = own
  BY <1>2, <1>3
<1>6. ASSUME NEW x \in (Folders \X Paths) \ {X}, NEW v \in Docs \ (misfiled' \cup {u}), RowAt(x, v)
      PROVE  byPath'[x] # None /\ byPath'[x].id = v
  <2>1. x # pathOf[u]
    BY <1>6, FoldersAssumption DEF Unfiled, RowAt
  <2>. QED BY <1>3, <1>6, <2>1 DEF RowAt
<1>7. OwnerOK'
  <2> SUFFICES ASSUME NEW x \in Folders \X Paths, byPath'[x] # None
               PROVE  byPath'[x].owner = x[1] \/ byPath'[x].id \in misfiled'
    BY DEF OwnerOK
  <2>1. CASE x = X
    BY <1>5, <2>1
  <2>2. CASE x # X
    BY <1>4, <2>2 DEF OwnerOK
  <2>. QED BY <2>1, <2>2
<1>8. HomeOK'
  <2> SUFFICES ASSUME NEW v \in Docs \ misfiled', NEW x \in Folders \X Paths, NEW f \in Folders,
                      pathOf'[v] = x \/ (byPath'[x] # None /\ byPath'[x].id = v), ListedAt(f, v)'
               PROVE  f = x[1]
    BY DEF HomeOK, RowAt
  <2>1. CASE v # u
    <3>1. ListedAt(f, v) /\ v \notin misfiled
      BY <2>1
    <3>2. pathOf[v] = x \/ RowAt(x, v)
      BY <1>3, <1>4, <1>5, <2>1 DEF RowAt
    <3>. QED BY <3>1, <3>2 DEF HomeOK
  <2>2. CASE v = u
    <3>1. f = g /\ ListedAt(g, u) /\ u \notin misfiled
      BY <2>2
    <3>2. x = X \/ RowAt(x, u)
      BY <1>3, <1>4, <2>2 DEF RowAt
    <3>3. RowAt(x, u) => g = x[1]
      BY <3>1 DEF HomeOK
    <3>. QED BY <3>1, <3>2, <3>3
  <2>. QED BY <2>1, <2>2
<1>9. ASSUME NEW v \in Docs \ {u}, NoRow(v) PROVE NoRow(v)'
  <2>1. \A x \in Folders \X Paths : ~(byPath'[x] # None /\ byPath'[x].id = v)
    BY <1>4, <1>5, <1>9 DEF NoRow, RowAt
  <2>. QED BY <1>3, <1>9, <2>1 DEF NoRow, RowAt
<1>10. ASSUME NEW f \in Folders \ {g}, tree'[f] = tree[f], NoGhosts(f) PROVE NoGhosts(f)'
  <2> SUFFICES ASSUME NEW p \in Paths, byPath'[<<f, p>>] # None
               PROVE  HasFile(f, p) \/ byPath'[<<f, p>>].id \in misfiled'
    BY <1>10 DEF NoGhosts, HasFile, Free
  <2>1. <<f, p>> \in (Folders \X Paths) \ {X}
    OBVIOUS
  <2>. QED BY <1>4, <1>10, <2>1 DEF NoGhosts
<1>11. ASSUME NEW f \in Folders \ {g}, tree'[f] = tree[f], Complete(f) PROVE Complete(f)'
  <2> SUFFICES ASSUME NEW v \in Docs \ misfiled', NEW p \in Lists(tree[f], v)
               PROVE  /\ byPath'[<<f, p>>] # None /\ byPath'[<<f, p>>].id = v
                      /\ pathOf'[v] = <<f, p>>
    BY <1>11 DEF Complete, RowAt
  <2>1. p \in Paths /\ <<f, p>> \in (Folders \X Paths) \ {X}
    BY DEF Lists
  <2>2. v # u
    BY DEF AllTraced, Traced, OnePlace, ListedAt
  <2>3. RowAt(<<f, p>>, v) /\ pathOf[v] = <<f, p>>
    BY <1>11 DEF Complete
  <2>. QED BY <1>3, <1>6, <2>1, <2>2, <2>3
<1>. QED BY <1>3, <1>4, <1>5, <1>6, <1>7, <1>8, <1>9, <1>10, <1>11

\* A step that queues nothing, as one that queues a set.
LEMMA QueueNothing ==
  ASSUME Typed, UNCHANGED <<queued, work>>
  PROVE  Queue({})
BY DEF Typed, WorkTypes, Queue

\* A handler's step that leaves the resolver alone.
LEMMA HandlerRowsKeep ==
  ASSUME Typed, InRows, contested' = {}, contested \subseteq contested',
         UNCHANGED <<byPath, pathOf, misfiled>>,
         NEW h \in Handlers, NEW r \in Records, op' = [op EXCEPT ![h] = r],
         NEW fs \in SUBSET Folders, Queue(fs),
         \A f \in Folders \ fs : /\ Dirties(op[h], f) => Dirties(r, f)
                                 /\ Refills(op[h], f) => Refills(r, f),
         \A f \in Folders : f \notin fs /\ ~Dirties(r, f) => tree'[f] = tree[f],
         \A u \in Docs, f \in Folders : ListedAt(f, u)' => ListedAt(f, u) \/ NoRow(u),
         r.pc = "write" => NoRow(r.id)
  PROVE  InRows'
<1>1. \A f \in Folders : /\ Settled(f)' => Settled(f) /\ tree'[f] = tree[f]
                         /\ Filled(f)' => Filled(f) /\ tree'[f] = tree[f]
  BY HandlerFlags
<1>2. \A k \in Handlers : op'[k].pc = "write" =>
        (op[k].pc = "write" /\ op'[k].id = op[k].id) \/ NoRow(op'[k].id)
  BY DEF Typed, OpTypes
<1>. QED BY <1>1, <1>2, RowsKeep

\* A document that is being made is nobody else's, and listed nowhere.
LEMMA NoRowYetKeeps ==
  ASSUME Typed, AllTraced, contested = {}, NoRowYet, NEW h \in Handlers, NEW r \in Records,
         op' = [op EXCEPT ![h] = r], r.pc # "write",
         \A v \in Docs \ {op[h].id} :
           NoRow(v) /\ (\A f \in Folders : ~ListedAt(f, v)) => NoRow(v)'
  PROVE  NoRowYet'
<1> SUFFICES ASSUME NEW k \in Handlers, op'[k].pc = "write", NEW v, v = op'[k].id
             PROVE  pathOf'[v] = None /\ \A x \in Folders \X Paths : ~(byPath'[x] # None /\ byPath'[x].id = v)
  BY DEF NoRowYet, NoRow, RowAt
<1>1. k # h /\ op'[k] = op[k] /\ op[k].pc = "write" /\ op[k].id = v
  BY DEF Typed, OpTypes
<1>2. v \in Docs
  <2>1. op[k] \in Records /\ OpOK(born, op[k])
    BY OpFacts
  <2>. QED BY <1>1, <2>1 DEF OpOK, Records
<1>3. v # op[h].id /\ \A f \in Folders : ~ListedAt(f, v)
  BY <1>1, <1>2 DEF AllTraced, Traced, Fresh
<1>4. NoRow(v)
  BY <1>1 DEF NoRowYet
<1>5. NoRow(v)'
  BY <1>2, <1>3, <1>4
<1>. QED BY <1>5 DEF NoRow, RowAt

\* The steps of handlers on the resolver.
LEMMA UpsertsRows ==
  ASSUME Typed, AllTraced, InRows, contested' = {}, NEW h \in Handlers, CreateUpserts(h)
  PROVE  InRows'
<1> DEFINE o == op[h]
<1>1. PICK u, f, p, t : u = o.id /\ f = o.from /\ p = o.path /\ t = tree[f]
  OBVIOUS
<1>2. PICK r : r = [o EXCEPT !.pc = "save", !.left = {o.from}]
  OBVIOUS
<1>3. /\ o.pc = "upsert" /\ Upsert(u, <<f, p>>, [id |-> u, owner |-> f])
      /\ misfiled' = misfiled \cup Unfiled(u, <<f, p>>)
           \cup (IF p \in Lists(t, u) THEN {} ELSE {u} \cup Replaced(t, p, u))
      /\ op' = [op EXCEPT ![h] = r]
      /\ UNCHANGED <<tree, queued, work, contested>>
  BY <1>1, <1>2 DEF CreateUpserts, treeVars, workVars
<1>4. /\ o \in Records /\ OpOK(born, o) /\ f \in Folders /\ t \in Trees /\ TreeOK(born, t)
      /\ born \subseteq Docs
  BY <1>1, OpFacts
<1>5. /\ u \in Docs /\ p \in Files /\ p \in Paths /\ o.after = "idle"
      /\ r \in Records /\ r.pc = "save" /\ r.after = "idle" /\ r.id = u
  BY <1>1, <1>2, <1>3, <1>4, PathFacts DEF OpOK, Records, Pcs
<1>6. /\ contested = {} /\ OwnerOK /\ HomeOK /\ NoRowYet /\ \A g \in Folders : Rows(g)
  BY <1>3 DEF InRows
<1>7. \A v \in Docs : OnePlace(v) /\ Fresh(v)
  BY <1>6 DEF AllTraced, Traced
<1>8. /\ misfiled \cup Unfiled(u, <<f, p>>) \subseteq misfiled'
      /\ u \notin misfiled' => p \in Lists(t, u)
      /\ p \in Lists(t, u) \/ Replaced(t, p, u) \subseteq misfiled'
  BY <1>3
<1>9. u \notin misfiled' => ListedAt(f, u) /\ \A g \in Folders : ListedAt(g, u)' => g = f
  BY <1>1, <1>3, <1>4, <1>5, <1>7, <1>8 DEF ListedAt, OnePlace
<1>10. \A v \in Docs \ {u}, g \in Folders : ListedAt(g, v)' => ListedAt(g, v)
  BY <1>3 DEF ListedAt
<1>11. /\ OwnerOK' /\ HomeOK'
       /\ \A v \in Docs \ {u} : NoRow(v) => NoRow(v)'
       /\ byPath'[<<f, p>>] # None /\ byPath'[<<f, p>>].id = u /\ pathOf'[u] = <<f, p>>
       /\ \A x \in (Folders \X Paths) \ {<<f, p>>} : byPath'[x] # None => byPath'[x] = byPath[x]
       /\ \A x \in (Folders \X Paths) \ {<<f, p>>}, v \in Docs \ (misfiled' \cup {u}) :
            RowAt(x, v) => byPath'[x] # None /\ byPath'[x].id = v
       /\ \A v \in Docs \ {u} : pathOf'[v] = pathOf[v]
       /\ \A g \in Folders \ {f} : tree'[g] = tree[g] =>
            /\ NoGhosts(g) => NoGhosts(g)'
            /\ Complete(g) => Complete(g)'
  BY <1>3, <1>4, <1>5, <1>6, <1>8, <1>9, <1>10, UpsertRows
<1>12. NoGhosts(f) => NoGhosts(f)'
  <2> SUFFICES ASSUME NoGhosts(f), NEW q \in Paths, byPath'[<<f, q>>] # None
               PROVE  HasFile(f, q) \/ byPath'[<<f, q>>].id \in misfiled'
    BY <1>3 DEF NoGhosts, HasFile, Free
  <2>1. CASE q = p
    <3>1. p \in Lists(t, u) => HasFile(f, p)
      BY <1>1, <1>4, <1>5, FileIsListed
    <3>. QED BY <1>8, <1>11, <2>1, <3>1
  <2>2. CASE q # p
    <3>1. <<f, q>> \in (Folders \X Paths) \ {<<f, p>>}
      BY <1>4, <2>2
    <3>. QED BY <1>8, <1>11, <3>1 DEF NoGhosts
  <2>. QED BY <2>1, <2>2
<1>13. Complete(f) => Complete(f)'
  <2> SUFFICES ASSUME Complete(f), NEW v \in Docs \ misfiled', NEW q \in Lists(t, v)
               PROVE  /\ byPath'[<<f, q>>] # None /\ byPath'[<<f, q>>].id = v
                      /\ pathOf'[v] = <<f, q>>
    BY <1>1, <1>3 DEF Complete, RowAt
  <2>1. q \in Paths /\ v \notin misfiled
    BY <1>8 DEF Lists
  <2>2. RowAt(<<f, q>>, v) /\ pathOf[v] = <<f, q>>
    BY <1>1, <2>1 DEF Complete
  <2>3. CASE v = u
    <3>1. q = p
      BY <1>1, <1>4, <1>5, <1>7, <1>8, <2>3 DEF OnePlace
    <3>. QED BY <1>11, <2>3, <3>1
  <2>4. CASE v # u
    <3>1. q # p
      <4>1. p \notin Lists(t, u) \/ p \notin Lists(t, v)
        BY <2>4 DEF Lists
      <4>2. p \in Lists(t, v) => v \in Replaced(t, p, u)
        BY <2>4, FoldersAssumption DEF Lists, Replaced
      <4>. QED BY <1>8, <4>1, <4>2
    <3>2. <<f, q>> \in (Folders \X Paths) \ {<<f, p>>}
      BY <1>4, <2>1, <3>1
    <3>. QED BY <1>11, <2>2, <2>4, <3>2
  <2>. QED BY <2>3, <2>4
<1>14. \A g \in Folders : (Settled(g)' => Settled(g)) /\ (Filled(g)' => Filled(g))
  <2>1. Queue({})
    BY <1>3, QueueNothing
  <2>2. \A g : ~Dirties(o, g) /\ ~Refills(o, g)
    BY <1>3 DEF Dirties, Refills
  <2>. QED BY <1>3, <1>5, <2>1, <2>2, HandlerFlags
<1>15. ASSUME NEW g \in Folders PROVE Rows(g)'
  <2>1. IsFolderDoc(g)' <=> IsFolderDoc(g)
    BY <1>3 DEF IsFolderDoc, Free
  <2>2. (NoGhosts(g) => NoGhosts(g)') /\ (Complete(g) => Complete(g)')
    BY <1>3, <1>11, <1>12, <1>13
  <2>. QED BY <1>6, <1>14, <2>1, <2>2 DEF Rows
<1>16. NoRowYet'
  BY <1>1, <1>3, <1>5, <1>6, <1>11, NoRowYetKeeps
<1>. QED BY <1>11, <1>15, <1>16 DEF InRows

\* A move owes both folders until it has queued them.
LEMMA MovesRows ==
  ASSUME Typed, AllTraced, InRows, contested' = {}, NEW h \in Handlers, MoveApplies(h)
  PROVE  InRows'
<1>1. op[h].pc = "apply" /\ Lists(tree[op[h].from], op[h].id) # {}
  BY DEF MoveApplies
<1>2. PICK src : src = CHOOSE p \in Lists(tree[op[h].from], op[h].id) : TRUE
  OBVIOUS
<1>3. PICK f, g, q, u : f = op[h].from /\ g = op[h].to /\ q = op[h].path /\ u = op[h].id
  OBVIOUS
<1>4. /\ u \in Docs /\ q \in Files /\ q \in Paths /\ f \in Folders /\ g \in Folders
      /\ op[h] \in Records
  BY <1>1, <1>2, <1>3, MoveSource, OpFacts
<1>5. PICK old : old = IF pathOf[u] = None THEN None ELSE byPath[pathOf[u]]
  OBVIOUS
<1>6. PICK own : own = IF old = None THEN f ELSE old.owner
  OBVIOUS
<1>7. own \in Folders
  BY <1>4, <1>5, <1>6 DEF Typed, RowTypes, ResolverType
<1>8. PICK r : r = [op[h] EXCEPT !.pc = "save", !.left = Folders, !.after = "queue"]
  OBVIOUS
<1>9. /\ op' = [op EXCEPT ![h] = r] /\ UNCHANGED <<queued, work>>
      /\ contested \subseteq contested'
      /\ Upsert(u, <<g, q>>, [id |-> u, owner |-> own])
      /\ misfiled' = misfiled \cup Unfiled(u, <<g, q>>)
                       \cup (IF f = g /\ own = g THEN {} ELSE {u})
  BY <1>3, <1>5, <1>6, <1>8 DEF MoveApplies, workVars
<1>10. \A k \in Folders : k # f /\ k # g => tree'[k] = tree[k]
  BY <1>2, <1>3, MoveTrees
<1>11. r \in Records /\ r.pc = "save" /\ r.after = "queue" /\ r.from = f /\ r.to = g /\ r.id = u
  BY <1>3, <1>4, <1>8 DEF Records, Pcs
<1>12. /\ contested = {} /\ OwnerOK /\ HomeOK /\ NoRowYet /\ \A k \in Folders : Rows(k)
  BY <1>9 DEF InRows
<1>13. \A v \in Docs : Traced(v) /\ OnePlace(v) /\ Fresh(v)
  BY <1>12 DEF AllTraced, Traced
<1>14. /\ \A v \in Docs \ {u}, k \in Folders : ListedAt(k, v)' => ListedAt(k, v)
       /\ \A k \in Folders : ListedAt(k, u)' => k = g
  BY <1>3, <1>4, <1>13, MoveLists DEF Remains
<1>15. u \notin misfiled' => f = g /\ own = g /\ ListedAt(g, u)
  BY <1>1, <1>3, <1>9 DEF ListedAt
<1>16. misfiled \cup Unfiled(u, <<g, q>>) \subseteq misfiled'
  BY <1>9
<1>17. /\ OwnerOK' /\ HomeOK'
       /\ \A v \in Docs \ {u} : NoRow(v) => NoRow(v)'
       /\ \A k \in Folders \ {g} : tree'[k] = tree[k] =>
            /\ NoGhosts(k) => NoGhosts(k)'
            /\ Complete(k) => Complete(k)'
  <2>1. own = g \/ u \in misfiled'
    BY <1>15
  <2>2. u \notin misfiled' => ListedAt(g, u) /\ \A k \in Folders : ListedAt(k, u)' => k = g
    BY <1>14, <1>15
  <2>. QED BY <1>4, <1>7, <1>9, <1>12, <1>14, <1>16, <2>1, <2>2, UpsertRows
<1>18. \A k \in Folders : /\ Settled(k)' => Settled(k) /\ k # f /\ k # g
                          /\ Filled(k)' => Filled(k) /\ k # f /\ k # g
  <2>1. Queue({})
    BY <1>9, QueueNothing
  <2>2. \A k : ~Dirties(op[h], k) /\ ~Refills(op[h], k)
    BY <1>1 DEF Dirties, Refills
  <2>3. \A k : ~Dirties(r, k) => k # f /\ k # g
    BY <1>11 DEF Dirties
  <2>4. ASSUME NEW k \in Folders
        PROVE  /\ Settled(k)' => Settled(k) /\ k # f /\ k # g
               /\ Filled(k)' => Filled(k) /\ k # f /\ k # g
    <3>1. /\ Settled(k)' => Settled(k) /\ ~Dirties(r, k)
          /\ Filled(k)' => Filled(k) /\ ~Dirties(r, k)
      BY <1>9, <1>11, <2>1, <2>2, HandlerFlags
    <3>. QED BY <2>3, <3>1
  <2>. QED BY <2>4
<1>19. ASSUME NEW k \in Folders PROVE Rows(k)'
  <2>1. CASE k = f \/ k = g
    BY <1>18, <2>1 DEF Rows
  <2>2. CASE k # f /\ k # g
    <3>1. tree'[k] = tree[k]
      BY <1>10, <2>2
    <3>2. IsFolderDoc(k)' <=> IsFolderDoc(k)
      BY <3>1 DEF IsFolderDoc, Free
    <3>3. (NoGhosts(k) => NoGhosts(k)') /\ (Complete(k) => Complete(k)')
      BY <1>17, <2>2, <3>1
    <3>. QED BY <1>12, <1>18, <3>2, <3>3 DEF Rows
  <2>. QED BY <2>1, <2>2
<1>20. NoRowYet'
  BY <1>3, <1>9, <1>11, <1>12, <1>17, NoRowYetKeeps
<1>. QED BY <1>17, <1>19, <1>20 DEF InRows

\* A rebuild owes every folder document its rows,
LEMMA ClearsRows ==
  ASSUME Typed, InRows, contested' = {}, NEW h \in Handlers, RebuildClears(h)
  PROVE  InRows'
<1> DEFINE o == op[h]
<1>1. PICK left : left = {f \in Folders : IsFolderDoc(f)}
  OBVIOUS
<1>2. PICK r : r = [o EXCEPT !.pc = IF left = {} THEN "queue" ELSE "rebuild", !.left = left]
  OBVIOUS
<1>3. /\ o.pc = "clear" /\ op' = [op EXCEPT ![h] = r]
      /\ byPath' = NoRows /\ pathOf' = [u \in Docs |-> None]
      /\ UNCHANGED <<tree, queued, work>>
  BY <1>1, <1>2 DEF RebuildClears, treeVars, workVars
<1>4. \A x \in Folders \X Paths : byPath'[x] = None
  BY <1>3 DEF NoRows
<1>5. r \in Records /\ r.from = o.from /\ r.to = o.to /\ r.left = left /\ r.pc # "write"
      /\ r.pc = IF left = {} THEN "queue" ELSE "rebuild"
  BY <1>1, <1>2, OpFacts DEF Records, Pcs
<1>6. OwnerOK'
  BY <1>4 DEF OwnerOK
<1>7. HomeOK'
  <2>1. \A u \in Docs, x \in Folders \X Paths : pathOf'[u] # x
    BY <1>3, FoldersAssumption
  <2>. QED BY <1>4, <2>1 DEF HomeOK, RowAt
<1>8. NoRowYet'
  <2>1. \A k \in Handlers : op'[k].pc = "write" => op'[k].id \in Docs
    <3>1. \A k \in Handlers : k # h => op'[k] = op[k]
      BY <1>3 DEF Typed, OpTypes
    <3>2. \A k \in Handlers : op[k].pc = "write" => op[k].id \in Docs
      BY DEF Typed, OpTypes, OpOK, Records
    <3>3. op'[h] = r
      BY <1>3 DEF Typed, OpTypes
    <3>. QED BY <1>5, <3>1, <3>2, <3>3
  <2>. QED BY <1>3, <1>4, <2>1 DEF NoRowYet, NoRow, RowAt
<1>9. ASSUME NEW f \in Folders PROVE Rows(f)'
  <2>1. NoGhosts(f)'
    BY <1>4 DEF NoGhosts
  <2>2. IsFolderDoc(f)' => ~Filled(f)'
    <3>1. IsFolderDoc(f)' => f \in left
      BY <1>1, <1>3 DEF IsFolderDoc, Free
    <3>2. f \in left => Refills(r, f)
      BY <1>5 DEF Refills
    <3>3. op'[h] = r
      BY <1>3 DEF Typed, OpTypes
    <3>. QED BY <3>1, <3>2, <3>3 DEF Filled, Refills
  <2>. QED BY <2>1, <2>2 DEF Rows
<1>. QED BY <1>6, <1>7, <1>8, <1>9 DEF InRows

\* and pays them one by one.
LEMMA RefillsRows ==
  ASSUME Typed, AllTraced, InRows, contested' = {}, NEW h \in Handlers, RebuildFolder(h)
  PROVE  InRows'
<1> DEFINE o == op[h]
<1>1. PICK f, left : f = Min(o.left) /\ left = o.left \ {f}
  OBVIOUS
<1>2. PICK r : r = [o EXCEPT !.left = left, !.pc = IF left = {} THEN "queue" ELSE o.pc]
  OBVIOUS
<1>3. /\ o.pc = "rebuild" /\ op' = [op EXCEPT ![h] = r] /\ RebuildFrom(f)
      /\ UNCHANGED <<tree, queued, work, misfiled, contested>>
  BY <1>1, <1>2 DEF RebuildFolder, treeVars, workVars, histVars
<1>4. /\ o \in Records /\ OpOK(born, o) /\ f \in Folders /\ f \in o.left
  BY <1>1, <1>3, OpFacts, MinIs DEF OpOK
<1>5. /\ r \in Records /\ r.from = o.from /\ r.to = o.to /\ r.left = left
      /\ r.pc = IF left = {} THEN "queue" ELSE "rebuild"
  BY <1>1, <1>2, <1>3, <1>4 DEF Records, Pcs
<1>6. /\ contested = {} /\ OwnerOK /\ HomeOK /\ NoRowYet /\ \A g \in Folders : Rows(g)
  BY <1>3 DEF InRows
<1>7. /\ OwnerOK' /\ HomeOK' /\ Complete(f)'
      /\ \A g \in Folders : /\ NoGhosts(g) => NoGhosts(g)'
                            /\ Complete(g) => Complete(g)'
      /\ \A u \in Docs : NoRow(u) /\ (\A g \in Folders : ~ListedAt(g, u)) => NoRow(u)'
  BY <1>3, <1>4, <1>6, RefilledRows
<1>8. NoRowYet'
  BY <1>3, <1>5, <1>6, <1>7, NoRowYetKeeps
<1>9. ASSUME NEW g \in Folders PROVE Rows(g)'
  <2>1. IsFolderDoc(g)' <=> IsFolderDoc(g)
    BY <1>3 DEF IsFolderDoc, Free
  <2>2. \A k \in Handlers : /\ Dirties(op[k], g)' <=> Dirties(op[k], g)
                            /\ Refills(op[k], g) => Refills(op[k], g)' \/ g = f
    <3>1. op'[h] = r /\ \A k \in Handlers : k # h => op'[k] = op[k]
      BY <1>3 DEF Typed, OpTypes
    <3>2. (Dirties(r, g) <=> Dirties(o, g)) /\ (Refills(o, g) => Refills(r, g) \/ g = f)
      BY <1>1, <1>3, <1>5 DEF Dirties, Refills
    <3>. QED BY <3>1, <3>2 DEF Dirties, Refills
  <2>3. Settled(g)' => Settled(g)
    BY <1>3, <2>2 DEF Settled, Done
  <2>4. Filled(g)' => Filled(g) \/ g = f
    BY <1>3, <2>2 DEF Filled, Done
  <2>. QED BY <1>6, <1>7, <2>1, <2>3, <2>4 DEF Rows
<1>. QED BY <1>7, <1>8, <1>9 DEF InRows

\* Every step of a handler keeps the resolver's debts.
LEMMA HandlerRows ==
  ASSUME Typed, AllTraced, InRows, contested' = {}, NEW h \in Handlers, HandlerStep(h)
  PROVE  InRows'
<1> DEFINE o == op[h]
<1>t. /\ contested = {} /\ contested \subseteq contested' /\ Typed'
      /\ o \in Records /\ OpOK(born, o) /\ o.from \in Folders /\ o.to \in Folders
      /\ o.home \in Folders
  <2>1. contested \subseteq contested'
    BY Zenon DEF HandlerStep, CreateBegins, CreateFails, Fails, CreateWrites, CreateUpserts, Save,
       Queues, MoveBegins, MoveFails, MoveApplies, FolderMoveBegins, FolderMovesDoc,
       FolderMoveEnds, FileMoves, HashUpdates, RebuildClears, RebuildFolder, histVars
  <2>. QED BY <2>1, HandlerTyped, OpFacts
<1>u. \A u \in Docs : Traced(u) /\ OnePlace(u) /\ u \notin contested'
  BY <1>t DEF AllTraced, Traced
<1>w. \A r : op' = [op EXCEPT ![h] = r] => r \in Records
  BY <1>t DEF Typed, OpTypes
<1> USE DEF treeVars, resVars, workVars, boundVars, histVars
\* Steps that leave the folder documents alone, too.
<1>q. ASSUME UNCHANGED <<tree, byPath, pathOf, misfiled>>,
             NEW r, op' = [op EXCEPT ![h] = r], NEW fs \in SUBSET Folders, Queue(fs),
             \A f \in Folders \ fs : (Dirties(o, f) => Dirties(r, f)) /\ ~Refills(o, f),
             r.pc = "write" => NoRow(r.id)
      PROVE  InRows'
  <2>1. \A u \in Docs, f \in Folders : ListedAt(f, u)' => ListedAt(f, u) \/ NoRow(u)
    BY <1>q DEF ListedAt
  <2>. QED BY <1>t, <1>w, <1>q, <2>1, HandlerRowsKeep
<1>f. ASSUME Fails(h), o.pc \in {"write", "apply"} PROVE InRows'
  <2>1. Queue({}) /\ UNCHANGED <<tree, byPath, pathOf, misfiled>> /\ op' = [op EXCEPT ![h] = Idle]
    BY <1>f, QueueNothing DEF Fails
  <2>2. \A f : ~Dirties(o, f) /\ ~Refills(o, f)
    BY <1>f DEF Dirties, Refills
  <2>3. Idle.pc # "write"
    BY DEF Idle
  <2>. QED BY <1>q, <2>1, <2>2, <2>3
<1>1. ASSUME NEW f \in Folders, NEW p \in Files, NEW v \in Docs,
             NEW t \in {"markdown", "file"}, CreateBegins(h, f, p, v, t)
      PROVE  InRows'
  <2>1. PICK r : r = [Idle EXCEPT !.pc = "write", !.from = f, !.to = f,
                                  !.path = p, !.id = v, !.type = t]
    OBVIOUS
  <2>2. /\ op' = [op EXCEPT ![h] = r] /\ UNCHANGED <<tree, byPath, pathOf, misfiled>>
        /\ v \notin born /\ Queue({}) /\ o.pc = "idle"
    BY <1>1, <2>1, QueueNothing DEF CreateBegins, Begins
  <2>3. \A g : ~Dirties(o, g) /\ ~Refills(o, g)
    BY <2>2 DEF Dirties, Refills
  <2>4. NoRow(v) /\ r.id = v
    BY <2>1, <2>2 DEF Typed, RowTypes, NoRow, RowAt, Idle
  <2>. QED BY <1>q, <2>2, <2>3, <2>4
<1>2. ASSUME CreateFails(h) PROVE InRows'
  BY <1>2, <1>f DEF CreateFails
<1>3. ASSUME CreateWrites(h) PROVE InRows'
  <2>1. PICK r, f : r = [o EXCEPT !.pc = "upsert"] /\ f = o.from
    OBVIOUS
  <2>0. PICK fs \in SUBSET Folders : fs = {f}
    BY <1>t, <2>1
  <2>2. /\ op' = [op EXCEPT ![h] = r] /\ UNCHANGED <<byPath, pathOf, misfiled>>
        /\ Queue(fs) /\ o.pc = "write"
    BY <1>3, <2>0, <2>1 DEF CreateWrites
  <2>3. r.pc = "upsert" /\ r \in Records /\ f \in Folders
    BY <1>t, <1>w, <2>1, <2>2 DEF Records
  <2>4. \A g : ~Dirties(o, g) /\ ~Refills(o, g)
    BY <2>2 DEF Dirties, Refills
  <2>5. \A g \in Folders : g \notin fs => tree'[g] = tree[g]
    BY <2>0, <1>3, <2>1 DEF CreateWrites, Typed, TreeTypes
  <2>6. \A u \in Docs, g \in Folders : ListedAt(g, u)' => ListedAt(g, u) \/ NoRow(u)
    <3> TAKE u \in Docs, g \in Folders
    <3>1. CASE u # o.id
      BY <1>3, <1>u, <3>1, CreateLists DEF Remains
    <3>2. CASE u = o.id
      BY <1>t, <2>2, <3>2 DEF InRows, NoRowYet
    <3>. QED BY <3>1, <3>2
  <2>. QED BY <1>t, <2>2, <2>3, <2>4, <2>5, <2>6, HandlerRowsKeep
<1>4. ASSUME CreateUpserts(h) PROVE InRows'
  BY <1>4, UpsertsRows
<1>5. ASSUME NEW ok \in BOOLEAN, Save(h, ok) PROVE InRows'
  <2>1. PICK f : f = Min(o.left)
    OBVIOUS
  <2>2. PICK r : r = [o EXCEPT !.left = o.left \ {f}, !.ok = o.ok /\ ok,
                               !.pc = IF o.left \ {f} = {} THEN o.after ELSE "save"]
    OBVIOUS
  <2>3. /\ o.pc = "save" /\ o.after \in {"idle", "queue", "clear"} /\ Queue({})
        /\ UNCHANGED <<tree, byPath, pathOf, misfiled>>
        /\ r.pc = "idle" => Answers(h, r)
        /\ r.pc # "idle" => op' = [op EXCEPT ![h] = r]
    BY <1>5, <1>t, <2>1, <2>2, QueueNothing DEF Save, OpOK
  <2>4. /\ r.from = o.from /\ r.to = o.to /\ r.after = o.after
        /\ r.pc = IF o.left \ {f} = {} THEN o.after ELSE "save"
    BY <1>t, <2>2 DEF Records
  <2>5. \A g : ~Refills(o, g)
    BY <2>3 DEF Refills
  <2>6. CASE r.pc = "idle"
    <3>1. op' = [op EXCEPT ![h] = Idle] /\ Idle.pc # "write"
      BY <2>3, <2>6 DEF Answers, Idle
    <3>2. \A g : ~Dirties(o, g)
      BY <2>3, <2>4, <2>6 DEF Dirties
    <3>. QED BY <1>q, <2>3, <2>5, <3>1, <3>2
  <2>7. CASE r.pc # "idle"
    <3>1. op' = [op EXCEPT ![h] = r] /\ r.pc # "write"
      BY <2>3, <2>4, <2>7
    <3>2. \A g : Dirties(o, g) => Dirties(r, g)
      BY <2>3, <2>4, <2>7 DEF Dirties
    <3>. QED BY <1>q, <2>3, <2>5, <3>1, <3>2
  <2>. QED BY <2>6, <2>7
<1>6. ASSUME Queues(h) PROVE InRows'
  <2>1. /\ o.pc = "queue" /\ UNCHANGED <<tree, byPath, pathOf, misfiled>>
        /\ Queue({o.from, o.to})
        /\ o.plan # {} => op' = [op EXCEPT ![h] = [o EXCEPT !.pc = "next"]]
        /\ o.plan = {} => op' = [op EXCEPT ![h] = Idle]
    BY <1>6 DEF Queues, Answers
  <2>2. PICK fs \in SUBSET Folders : fs = {o.from, o.to}
    BY <1>t
  <2>3. \A g : ~Refills(o, g) /\ (Dirties(o, g) => g \in fs)
    BY <2>1, <2>2 DEF Dirties, Refills
  <2>4. PICK r : op' = [op EXCEPT ![h] = r] /\ r.pc # "write"
    <3>1. [o EXCEPT !.pc = "next"].pc # "write" /\ Idle.pc # "write"
      BY <1>t DEF Records, Idle
    <3>. QED BY <2>1, <3>1
  <2>. QED BY <1>q, <2>1, <2>2, <2>3, <2>4
<1>7. ASSUME \/ \E v \in Docs, g \in Folders, q \in Files : MoveBegins(h, v, g, q)
             \/ \E f \in Folders, d, e \in Dirs : FolderMoveBegins(h, f, d, e)
             \/ FolderMovesDoc(h)
      PROVE  InRows'
  <2>1. /\ o.pc \in {"idle", "next"} /\ Queue({}) /\ UNCHANGED <<tree, byPath, pathOf, misfiled>>
    BY <1>7, QueueNothing DEF MoveBegins, FolderMoveBegins, FolderMovesDoc, Begins
  <2>2. \A g : ~Dirties(o, g) /\ ~Refills(o, g)
    BY <2>1 DEF Dirties, Refills
  <2>3. PICK r : op' = [op EXCEPT ![h] = r] /\ r.pc # "write"
    <3>1. CASE \E v \in Docs, g \in Folders, q \in Files : MoveBegins(h, v, g, q)
      <4>1. PICK v \in Docs, g \in Folders, q \in Files : MoveBegins(h, v, g, q)
        BY <3>1
      <4>2. MoveTo(Idle, v, Max(ListedIn(v)), g, q).pc # "write"
        BY DEF MoveTo, Idle
      <4>. QED BY <4>1, <4>2 DEF MoveBegins
    <3>2. CASE \E f \in Folders, d, e \in Dirs : FolderMoveBegins(h, f, d, e)
      <4>1. PICK f \in Folders, d \in Dirs, e \in Dirs : FolderMoveBegins(h, f, d, e)
        BY <3>2
      <4>2. [Idle EXCEPT !.pc = "next", !.plan = PlanOf(f, d, e), !.home = f].pc # "write"
        BY DEF Idle
      <4>. QED BY <4>1, <4>2 DEF FolderMoveBegins
    <3>3. CASE FolderMovesDoc(h)
      <4>1. PICK m \in o.plan :
              IF Movable(m.entry.id, Max(ListedIn(m.entry.id) \cup {1}), m.dst)
              THEN op' = [op EXCEPT ![h] =
                           MoveTo([o EXCEPT !.plan = o.plan \ {m}], m.entry.id,
                                  Max(ListedIn(m.entry.id)), Max(ListedIn(m.entry.id)), m.dst)]
              ELSE op' = [op EXCEPT ![h] = Idle]
        BY <3>3, Zenon DEF FolderMovesDoc
      <4>2. \A u, f, p : MoveTo([o EXCEPT !.plan = o.plan \ {m}], u, f, f, p).pc # "write"
        BY <1>t DEF MoveTo, Records
      <4>3. Idle.pc # "write"
        BY DEF Idle
      <4>. QED BY <4>1, <4>2, <4>3
    <3>. QED BY <1>7, <3>1, <3>2, <3>3
  <2>. QED BY <1>q, <2>1, <2>2, <2>3
<1>8. ASSUME MoveFails(h) PROVE InRows'
  BY <1>8, <1>f DEF MoveFails
<1>9. ASSUME MoveApplies(h) PROVE InRows'
  BY <1>9, MovesRows
<1>12. ASSUME FolderMoveEnds(h) PROVE InRows'
  <2>1. PICK r, f : /\ r = [o EXCEPT !.pc = "save", !.plan = {}, !.left = {o.home},
                                     !.from = o.home, !.to = o.home, !.after = "clear", !.id = None]
                    /\ f = o.home
    OBVIOUS
  <2>2. /\ op' = [op EXCEPT ![h] = r] /\ UNCHANGED <<byPath, pathOf, misfiled>>
        /\ Queue({}) /\ o.pc = "next"
    BY <1>12, <2>1, QueueNothing DEF FolderMoveEnds
  <2>3. r.pc = "save" /\ r.after = "clear" /\ r.from = f /\ r \in Records /\ f \in Folders
    BY <1>t, <1>w, <2>1, <2>2 DEF Records
  <2>4. /\ \A g : ~Dirties(o, g) /\ ~Refills(o, g)
        /\ Dirties(r, f)
    BY <2>2, <2>3 DEF Dirties, Refills
  <2>5. \A g \in Folders : ~Dirties(r, g) => tree'[g] = tree[g]
    <3>1. \A g \in Folders : g # f => tree'[g] = tree[g]
      BY <1>12, <2>1, FolderMoveEndsIs DEF Typed, TreeTypes
    <3>. QED BY <2>4, <3>1
  <2>6. \A u \in Docs, g \in Folders : ListedAt(g, u)' => ListedAt(g, u) \/ NoRow(u)
    BY <1>12, <1>u, EndsLists DEF Remains
  <2>. QED BY <1>t, <2>2, <2>3, <2>4, <2>5, <2>6, HandlerRowsKeep
<1>13. ASSUME NEW f \in Folders, NEW p \in Files, NEW q \in Files, FileMoves(h, f, p, q)
       PROVE  InRows'
  <2>1. PICK r : r = [Idle EXCEPT !.pc = "save", !.from = f, !.to = f,
                                  !.left = {f}, !.after = "clear"]
    OBVIOUS
  <2>2. /\ op' = [op EXCEPT ![h] = r] /\ UNCHANGED <<byPath, pathOf, misfiled>>
        /\ Queue({}) /\ o.pc = "idle"
    BY <1>13, <2>1, QueueNothing DEF FileMoves, Begins
  <2>3. r.pc = "save" /\ r.after = "clear" /\ r.from = f /\ r \in Records
    BY <1>t, <1>w, <2>1, <2>2 DEF Idle
  <2>4. /\ \A g : ~Dirties(o, g) /\ ~Refills(o, g)
        /\ Dirties(r, f)
    BY <2>2, <2>3 DEF Dirties, Refills
  <2>5. \A g \in Folders : ~Dirties(r, g) => tree'[g] = tree[g]
    <3>1. \A g \in Folders : g # f => tree'[g] = tree[g]
      BY <1>13 DEF FileMoves, Typed, TreeTypes
    <3>. QED BY <2>4, <3>1
  <2>6. \A u \in Docs, g \in Folders : ListedAt(g, u)' => ListedAt(g, u) \/ NoRow(u)
    BY <1>13, <1>u, RenameLists DEF FileMoves, Remains
  <2>. QED BY <1>t, <2>2, <2>3, <2>4, <2>5, <2>6, HandlerRowsKeep
<1>14. ASSUME NEW f \in Folders, NEW p \in Files, HashUpdates(h, f, p) PROVE InRows'
  <2>1. PICK r : r = [Idle EXCEPT !.pc = "save", !.from = f, !.to = f, !.left = {f}]
    OBVIOUS
  <2>0. PICK fs \in SUBSET Folders : fs = {f}
    OBVIOUS
  <2>2. /\ op' = [op EXCEPT ![h] = r] /\ UNCHANGED <<byPath, pathOf, misfiled>>
        /\ Queue(fs) /\ o.pc = "idle"
    BY <1>14, <2>0, <2>1 DEF HashUpdates, Begins
  <2>3. r.pc = "save" /\ r \in Records
    BY <1>t, <1>w, <2>1, <2>2 DEF Idle
  <2>4. \A g : ~Dirties(o, g) /\ ~Refills(o, g)
    BY <2>2 DEF Dirties, Refills
  <2>5. \A g \in Folders : g \notin fs => tree'[g] = tree[g]
    BY <2>0, <1>14 DEF HashUpdates, Typed, TreeTypes
  <2>6. \A u \in Docs, g \in Folders : ListedAt(g, u)' => ListedAt(g, u) \/ NoRow(u)
    BY <1>14, <1>u, HashLists DEF Remains
  <2>. QED BY <1>t, <2>2, <2>3, <2>4, <2>5, <2>6, HandlerRowsKeep
<1>15. ASSUME RebuildClears(h) PROVE InRows'
  BY <1>15, ClearsRows
<1>16. ASSUME RebuildFolder(h) PROVE InRows'
  BY <1>16, RefillsRows
<1>. QED
  BY <1>1, <1>2, <1>3, <1>4, <1>5, <1>6, <1>7, <1>8, <1>9, <1>12, <1>13,
     <1>14, <1>15, <1>16 DEF HandlerStep

-----------------------------------------------------------------------------
(* The resolver after a start, and after the steps of the others.           *)

\* A start: the resolver is made from the folder documents.
Restarted == /\ Typed /\ AllTraced
             /\ byPath = Rebuilt(tree) /\ pathOf = Located(Rebuilt(tree))
             /\ \A h \in Handlers : op[h].pc # "write"

\* Then nothing is owed.
LEMMA RestartedRows == Restarted => InRows
<1> SUFFICES ASSUME Restarted, contested = {}
             PROVE  OwnerOK /\ HomeOK /\ NoRowYet /\ \A f \in Folders : Rows(f)
  BY DEF InRows
<1>1. Typed /\ \A u \in Docs : OnePlace(u)
  BY DEF Restarted, AllTraced, Traced
<1>2. /\ byPath \in [Folders \X Paths -> [id : Docs, owner : Folders] \cup {None}]
      /\ \A x \in Folders \X Paths : byPath[x] # None =>
           /\ byPath[x].id \in born /\ byPath[x].owner = x[1]
           /\ x[2] \in Lists(tree[x[1]], byPath[x].id)
      /\ \A u \in Docs : \A f \in Folders : \A p \in Lists(tree[f], u) :
           byPath[<<f, p>>] = [id |-> u, owner |-> f]
  <2>1. born \subseteq Docs /\ tree \in [Folders -> Trees] /\ \A f \in Folders : TreeOK(born, tree[f])
    BY <1>1 DEF Typed, TreeTypes, HistTypes
  <2>. QED BY <2>1, RebuiltTyped DEF Restarted
<1>3. /\ pathOf \in [Docs -> (Folders \X Paths) \cup {None}]
      /\ \A u \in Docs : pathOf[u] # None => byPath[pathOf[u]] # None /\ byPath[pathOf[u]].id = u
      /\ \A u \in Docs, x \in Folders \X Paths :
           byPath[x] # None /\ byPath[x].id = u => pathOf[u] # None
  BY <1>2, LocatedTyped DEF Restarted
<1>4. born \subseteq Docs
  BY <1>1 DEF Typed, HistTypes
<1>5. \A u \in Docs, x \in Folders \X Paths : RowAt(x, u) => x[2] \in Lists(tree[x[1]], u)
  BY <1>2 DEF RowAt
<1>6. \A u \in Docs, x \in Folders \X Paths : pathOf[u] = x => RowAt(x, u)
  BY <1>3, FoldersAssumption DEF RowAt
<1>7. OwnerOK
  BY <1>2 DEF OwnerOK
<1>8. HomeOK
  <2> SUFFICES ASSUME NEW u \in Docs, NEW x \in Folders \X Paths, NEW f \in Folders,
                      pathOf[u] = x \/ RowAt(x, u), ListedAt(f, u)
               PROVE  f = x[1]
    BY DEF HomeOK
  <2>1. x[1] \in Folders /\ x[2] \in Lists(tree[x[1]], u)
    BY <1>5, <1>6
  <2>. QED BY <1>1, <2>1 DEF OnePlace, ListedAt
<1>9. NoRowYet
  BY DEF Restarted, NoRowYet
<1>10. ASSUME NEW f \in Folders PROVE NoGhosts(f) /\ Complete(f)
  <2>1. NoGhosts(f)
    <3> SUFFICES ASSUME NEW p \in Paths, byPath[<<f, p>>] # None PROVE HasFile(f, p)
      BY DEF NoGhosts
    <3>1. p \in Lists(tree[f], byPath[<<f, p>>].id) /\ byPath[<<f, p>>].id \in Docs
      BY <1>2, <1>4
    <3>. QED BY <1>1, <3>1, FileIsListed
  <2>2. Complete(f)
    <3> SUFFICES ASSUME NEW u \in Docs, NEW p \in Lists(tree[f], u)
                 PROVE  RowAt(<<f, p>>, u) /\ pathOf[u] = <<f, p>>
      BY DEF Complete
    <3>1. p \in Paths /\ <<f, p>> \in Folders \X Paths
      BY DEF Lists
    <3>2. RowAt(<<f, p>>, u)
      <4>1. [id |-> u, owner |-> f] # None /\ [id |-> u, owner |-> f].id = u
        BY FoldersAssumption
      <4>2. byPath[<<f, p>>] = [id |-> u, owner |-> f]
        BY <1>2
      <4>. QED BY <4>1, <4>2 DEF RowAt
    <3>3. pathOf[u] # None
      BY <1>3, <3>1, <3>2 DEF RowAt
    <3>4. PICK x \in Folders \X Paths : x = pathOf[u]
      BY <1>3, <3>3
    <3>5. x[1] \in Folders /\ x[2] \in Lists(tree[x[1]], u)
      BY <1>5, <1>6, <3>4
    <3>6. x[1] = f /\ x[2] = p
      BY <1>1, <3>5 DEF OnePlace
    <3>. QED BY <3>2, <3>4, <3>6
  <2>. QED BY <2>1, <2>2
<1>. QED BY <1>7, <1>8, <1>9, <1>10 DEF Rows

\* The start of the system is one.
LEMMA InitRows == Init => InRows
<1>1. Init => Restarted
  <2> HAVE Init
  <2>1. op = [h \in Handlers |-> Idle] /\ Idle.pc # "write"
    BY DEF Init, Idle
  <2>2. tree = Tree0 /\ byPath = Rebuilt(Tree0) /\ pathOf = Located(Rebuilt(Tree0))
    BY DEF Init
  <2>. QED BY <2>1, <2>2, InitTyped, InitTraced DEF Restarted
<1>. QED BY <1>1, RestartedRows

\* A step of the others that queues folder documents.
LEMMA OthersFlags ==
  ASSUME Typed, op' = op, NEW fs \in SUBSET Folders, Queue(fs)
  PROVE  \A f \in Folders : /\ Settled(f)' => Settled(f) /\ f \notin fs
                            /\ Filled(f)' => Filled(f) /\ f \notin fs
<1>1. /\ queued' = queued \cup fs /\ work'.at = work.at /\ work'.step = work.step
      /\ work'.again = (work.again \/ work.at \in fs)
  BY DEF Queue, Typed, WorkTypes
<1> TAKE f \in Folders
<1>2. ASSUME NEW steps, f \in queued' => Done(f, steps)'
      PROVE  f \notin fs /\ (f \in queued => Done(f, steps))
  BY <1>1, <1>2 DEF Done
<1>3. \A h \in Handlers : /\ Dirties(op[h], f)' <=> Dirties(op[h], f)
                          /\ Refills(op[h], f)' <=> Refills(op[h], f)
  BY DEF Dirties, Refills
<1>4. Settled(f)' => Settled(f) /\ f \notin fs
  BY <1>2, <1>3 DEF Settled
<1>5. Filled(f)' => Filled(f) /\ f \notin fs
  BY <1>2, <1>3 DEF Filled
<1>. QED BY <1>4, <1>5

\* Clients' edits.
LEMMA ClientsRows ==
  ASSUME Typed, AllTraced, InRows, contested' = {}, NEW f \in Folders, NEW p \in Files,
         (\E q \in Files : ClientRenames(f, p, q)) \/ ClientDeletes(f, p)
  PROVE  InRows'
<1>1. /\ op' = op /\ UNCHANGED <<byPath, pathOf, misfiled, contested>> /\ Queue({f})
  BY DEF ClientRenames, ClientDeletes, resVars, histVars
<1>2. PICK fs \in SUBSET Folders : fs = {f}
  OBVIOUS
<1>3. \A g \in Folders : g # f => tree'[g] = tree[g]
  BY DEF ClientRenames, ClientDeletes, Typed, TreeTypes
<1>4. \A g \in Folders : /\ Settled(g)' => Settled(g) /\ g \notin fs
                         /\ Filled(g)' => Filled(g) /\ g \notin fs
  BY <1>1, <1>2, OthersFlags
<1>5. \A g \in Folders : /\ Settled(g)' => Settled(g) /\ tree'[g] = tree[g]
                         /\ Filled(g)' => Filled(g) /\ tree'[g] = tree[g]
  BY <1>2, <1>3, <1>4
<1>6. ASSUME NEW u \in Docs, NEW g \in Folders, ListedAt(g, u)' PROVE ListedAt(g, u)
  <2>1. OnePlace(u)
    BY <1>1 DEF AllTraced, Traced
  <2>2. ASSUME NEW q \in Files, ClientRenames(f, p, q) PROVE Remains(u)
    <3>1. ~Free(f, p) /\ Free(f, q)
      BY <2>2 DEF ClientRenames, HasFile
    <3>2. PICK t : t = Put(EnsureAncestors(Drop(tree[f], p), q), q, tree[f].meta[p])
      OBVIOUS
    <3>3. tree' = [tree EXCEPT ![f] = t]
      BY <2>2, <3>2 DEF ClientRenames
    <3>. QED BY <2>1, <3>1, <3>2, <3>3, RenameLists
  <2>3. ASSUME ClientDeletes(f, p) PROVE ListedAt(g, u)
    BY <1>6, <2>1, <2>3, DeleteLists DEF Remains, ListedAt
  <2>. QED BY <1>6, <2>2, <2>3 DEF Remains
<1>7. \A h \in Handlers : op'[h].pc = "write" => op[h].pc = "write" /\ op'[h].id = op[h].id
  BY <1>1
<1>. QED BY <1>1, <1>5, <1>6, <1>7, RowsKeep

\* The worker's steps.
LEMMA TakesRows ==
  ASSUME Typed, InRows, contested' = {}, NEW f \in Folders, WorkerTakes(f)
  PROVE  InRows'
<1>1. /\ UNCHANGED <<tree, byPath, pathOf, op, misfiled, contested, queued>> /\ work.step = "idle"
      /\ work'.at = f /\ f \in queued
      /\ work'.step = IF IsFolderDoc(f) THEN "remove" ELSE "ack"
  BY DEF WorkerTakes, treeVars, resVars, histVars
<1>2. OwnerOK /\ HomeOK /\ NoRowYet /\ \A g \in Folders : Rows(g)
  BY <1>1 DEF InRows
<1>3. OwnerOK' /\ HomeOK' /\ NoRowYet'
  BY <1>1, <1>2 DEF OwnerOK, HomeOK, NoRowYet, NoRow, RowAt, ListedAt
<1>4. ASSUME NEW g \in Folders PROVE Rows(g)'
  <2>1. /\ IsFolderDoc(g)' <=> IsFolderDoc(g)
        /\ NoGhosts(g)' <=> NoGhosts(g)
        /\ Complete(g)' <=> Complete(g)
    BY <1>1 DEF IsFolderDoc, Free, NoGhosts, HasFile, Complete, RowAt
  <2>2. \A h \in Handlers : /\ Dirties(op[h], g)' <=> Dirties(op[h], g)
                            /\ Refills(op[h], g)' <=> Refills(op[h], g)
    BY <1>1 DEF Dirties, Refills
  <2>3. IsFolderDoc(g) /\ Settled(g)' => Settled(g)
    BY <1>1, <2>2 DEF Settled, Done
  <2>4. IsFolderDoc(g) /\ Filled(g)' => Filled(g)
    BY <1>1, <2>2 DEF Filled, Done
  <2>. QED BY <1>2, <2>1, <2>3, <2>4 DEF Rows
<1>. QED BY <1>3, <1>4 DEF InRows

\* The rows of the folder go: those of listed documents in other folders stay.
LEMMA RemovesRows ==
  ASSUME Typed, InRows, contested' = {}, WorkerRemoves
  PROVE  InRows'
<1>1. PICK f \in Folders : f = work.at /\ f \in queued
  BY DEF Typed, WorkTypes, WorkerRemoves
<1>2. /\ UNCHANGED <<tree, op, misfiled, contested, queued>> /\ work.step = "remove"
      /\ work'.at = f /\ work'.step = "rebuild" /\ RemoveFolderEntries(f)
  BY <1>1 DEF WorkerRemoves, treeVars, histVars, Typed, WorkTypes
<1>3. /\ \A x \in Folders \X Paths : /\ x \in RowsOf(f) => byPath'[x] = None
                                     /\ x \notin RowsOf(f) => byPath'[x] = byPath[x]
      /\ \A u \in Docs : /\ (\E x \in RowsOf(f) : byPath[x].id = u) => pathOf'[u] = None
                         /\ (\A x \in RowsOf(f) : byPath[x].id # u) => pathOf'[u] = pathOf[u]
  BY <1>2 DEF RemoveFolderEntries
<1>4. OwnerOK /\ HomeOK /\ NoRowYet /\ \A g \in Folders : Rows(g)
  BY <1>2 DEF InRows
<1>5. /\ \A x \in Folders \X Paths : byPath'[x] # None => byPath'[x] = byPath[x]
      /\ \A u \in Docs : pathOf'[u] # None => pathOf'[u] = pathOf[u]
  BY <1>3
<1>6. OwnerOK'
  BY <1>2, <1>4, <1>5 DEF OwnerOK
<1>7. HomeOK'
  <2> SUFFICES ASSUME NEW u \in Docs \ misfiled, NEW x \in Folders \X Paths, NEW g \in Folders,
                      pathOf'[u] = x \/ (byPath'[x] # None /\ byPath'[x].id = u), ListedAt(g, u)
               PROVE  g = x[1]
    BY <1>2 DEF HomeOK, RowAt, ListedAt
  <2>1. pathOf[u] = x \/ RowAt(x, u)
    BY <1>5, FoldersAssumption DEF RowAt
  <2>. QED BY <1>4, <2>1 DEF HomeOK
<1>8. NoRowYet'
  <2> SUFFICES ASSUME NEW h \in Handlers, op[h].pc = "write", NEW u, u = op[h].id
               PROVE  /\ pathOf'[u] = None
                      /\ \A x \in Folders \X Paths : ~(byPath'[x] # None /\ byPath'[x].id = u)
    BY <1>2 DEF NoRowYet, NoRow, RowAt
  <2>1. u \in Docs
    BY OpFacts DEF OpOK, Records
  <2>2. NoRow(u)
    BY <1>4 DEF NoRowYet
  <2>. QED BY <1>5, <2>1, <2>2 DEF NoRow, RowAt
<1>9. ASSUME NEW g \in Folders PROVE Rows(g)'
  <2>1. IsFolderDoc(g)' <=> IsFolderDoc(g)
    BY <1>2 DEF IsFolderDoc, Free
  <2>2. \A h \in Handlers : /\ Dirties(op[h], g)' <=> Dirties(op[h], g)
                            /\ Refills(op[h], g)' <=> Refills(op[h], g)
    BY <1>2 DEF Dirties, Refills
  <2>3. Settled(g)' => Settled(g) \/ g = f
    BY <1>1, <1>2, <2>2 DEF Settled, Done
  <2>4. Filled(g)' => Filled(g) /\ g # f
    BY <1>1, <1>2, <2>2 DEF Filled, Done
  <2>5. NoGhosts(g) \/ g = f => NoGhosts(g)'
    <3> SUFFICES ASSUME NoGhosts(g) \/ g = f, NEW p \in Paths, byPath'[<<g, p>>] # None
                 PROVE  HasFile(g, p) \/ byPath[<<g, p>>].id \in misfiled
      BY <1>2, <1>5 DEF NoGhosts, HasFile, Free
    <3>1. byPath[<<g, p>>] # None /\ <<g, p>> \notin RowsOf(f)
      BY <1>3
    <3>2. g = f => byPath[<<g, p>>].owner # g
      BY <3>1 DEF RowsOf
    <3>. QED BY <1>4, <3>1, <3>2 DEF NoGhosts, OwnerOK
  <2>6. Complete(g) /\ g # f => Complete(g)'
    <3> SUFFICES ASSUME Complete(g), g # f, NEW u \in Docs \ misfiled, NEW p \in Lists(tree[g], u)
                 PROVE  /\ byPath'[<<g, p>>] # None /\ byPath'[<<g, p>>].id = u
                        /\ pathOf'[u] = <<g, p>>
      BY <1>2 DEF Complete, RowAt
    <3>1. <<g, p>> \in Folders \X Paths /\ RowAt(<<g, p>>, u) /\ pathOf[u] = <<g, p>>
      BY DEF Complete, Lists
    <3>2. ASSUME NEW x \in RowsOf(f), byPath[x].id = u PROVE FALSE
      <4>1. x \in Folders \X Paths /\ RowAt(x, u) /\ byPath[x].owner = f
        BY <3>2 DEF RowsOf, RowAt
      <4>2. x[1] = f
        BY <1>4, <4>1 DEF OwnerOK, RowAt
      <4>3. x[1] = g
        BY <1>4, <4>1 DEF HomeOK, ListedAt
      <4>. QED BY <4>2, <4>3
    <3>3. <<g, p>> \notin RowsOf(f)
      BY <3>1, <3>2 DEF RowAt
    <3>. QED BY <1>3, <3>1, <3>2, <3>3 DEF RowAt
  <2>. QED BY <1>4, <2>1, <2>3, <2>4, <2>5, <2>6 DEF Rows
<1>. QED BY <1>6, <1>7, <1>8, <1>9 DEF InRows

\* The rows of the folder come, and its documents have their way back.
LEMMA RebuildsRows ==
  ASSUME Typed, AllTraced, InRows, contested' = {}, WorkerRebuilds
  PROVE  InRows'
<1>1. PICK f \in Folders : f = work.at /\ f \in queued
  BY DEF Typed, WorkTypes, WorkerRebuilds
<1>2. /\ UNCHANGED <<tree, op, misfiled, contested, queued>> /\ work.step = "rebuild"
      /\ work'.at = f /\ work'.step = "ack" /\ work'.again = work.again /\ RebuildFrom(f)
  BY <1>1 DEF WorkerRebuilds, treeVars, histVars, Typed, WorkTypes
<1>3. contested = {} /\ OwnerOK /\ HomeOK /\ NoRowYet /\ \A g \in Folders : Rows(g)
  BY <1>2 DEF InRows
<1>4. /\ OwnerOK' /\ HomeOK' /\ Complete(f)'
      /\ \A g \in Folders : /\ NoGhosts(g) => NoGhosts(g)'
                            /\ Complete(g) => Complete(g)'
      /\ \A u \in Docs : NoRow(u) /\ (\A g \in Folders : ~ListedAt(g, u)) => NoRow(u)'
  BY <1>2, <1>3, RefilledRows
<1>5. NoRowYet'
  <2> SUFFICES ASSUME NEW h \in Handlers, op[h].pc = "write", NEW u, u = op[h].id
               PROVE  /\ pathOf'[u] = None
                      /\ \A x \in Folders \X Paths : ~(byPath'[x] # None /\ byPath'[x].id = u)
    BY <1>2 DEF NoRowYet, NoRow, RowAt
  <2>1. u \in Docs
    BY OpFacts DEF OpOK, Records
  <2>2. NoRow(u) /\ \A g \in Folders : ~ListedAt(g, u)
    BY <1>3, <2>1 DEF NoRowYet, AllTraced, Traced, Fresh
  <2>3. NoRow(u)'
    BY <1>4, <2>1, <2>2
  <2>. QED BY <2>3 DEF NoRow, RowAt
<1>6. ASSUME NEW g \in Folders PROVE Rows(g)'
  <2>1. IsFolderDoc(g)' <=> IsFolderDoc(g)
    BY <1>2 DEF IsFolderDoc, Free
  <2>2. \A h \in Handlers : /\ Dirties(op[h], g)' <=> Dirties(op[h], g)
                            /\ Refills(op[h], g)' <=> Refills(op[h], g)
    BY <1>2 DEF Dirties, Refills
  <2>3. Settled(g)' => Settled(g)
    BY <1>1, <1>2, <2>2 DEF Settled, Done
  <2>4. Filled(g)' => Filled(g) \/ g = f
    BY <1>1, <1>2, <2>2 DEF Filled, Done
  <2>. QED BY <1>3, <1>4, <2>1, <2>3, <2>4 DEF Rows
<1>. QED BY <1>4, <1>5, <1>6 DEF InRows

\* Steps that leave the folder documents and the resolver alone.
LEMMA StillRows ==
  ASSUME Typed, InRows, contested' = {}, UNCHANGED <<tree, resVars, workVars, op, misfiled, contested>>
         \/ WorkerAcks
  PROVE  InRows'
<1>1. UNCHANGED <<tree, byPath, pathOf, op, misfiled, contested>>
  BY DEF WorkerAcks, treeVars, resVars, histVars
<1>2. ASSUME NEW f \in Folders PROVE (Settled(f)' => Settled(f)) /\ (Filled(f)' => Filled(f))
  <2>1. \A h \in Handlers : /\ Dirties(op[h], f)' <=> Dirties(op[h], f)
                            /\ Refills(op[h], f)' <=> Refills(op[h], f)
    BY <1>1 DEF Dirties, Refills
  <2>2. CASE UNCHANGED <<tree, resVars, workVars, op, misfiled, contested>>
    BY <2>1, <2>2 DEF Settled, Filled, Done, workVars
  <2>3. CASE WorkerAcks
    <3>1. /\ work.step = "ack" /\ work'.step = "idle"
          /\ queued' = queued \/ (~work.again /\ queued' = queued \ {work.at})
      BY <2>3 DEF WorkerAcks
    <3>. QED BY <2>1, <3>1 DEF Settled, Filled, Done
  <2>. QED BY <2>2, <2>3
<1>3. \A f \in Folders : /\ Settled(f)' => Settled(f) /\ tree'[f] = tree[f]
                         /\ Filled(f)' => Filled(f) /\ tree'[f] = tree[f]
  BY <1>1, <1>2
<1>4. \A u \in Docs, f \in Folders : ListedAt(f, u)' => ListedAt(f, u)
  BY <1>1 DEF ListedAt
<1>5. \A h \in Handlers : op'[h].pc = "write" => op[h].pc = "write" /\ op'[h].id = op[h].id
  BY <1>1
<1>. QED BY <1>1, <1>3, <1>4, <1>5, RowsKeep

\* One step per action; a restart is a start.
LEMMA StepRows == Typed /\ AllTraced /\ InRows /\ [Next]_vars => InRows'
<1> SUFFICES ASSUME Typed, AllTraced, InRows, [Next]_vars, contested' = {} PROVE InRows'
  BY DEF InRows
<1>1. ASSUME NEW h \in Handlers, HandlerStep(h) PROVE InRows'
  BY <1>1, HandlerRows
<1>2. ASSUME NEW f \in Folders, NEW p \in Files, NEW q \in Files, ClientRenames(f, p, q)
      PROVE  InRows'
  BY <1>2, ClientsRows
<1>3. ASSUME NEW f \in Folders, NEW p \in Files, ClientDeletes(f, p) PROVE InRows'
  BY <1>3, ClientsRows
<1>4. ASSUME NEW f \in Folders, WorkerTakes(f) PROVE InRows'
  BY <1>4, TakesRows
<1>5. ASSUME NEW f \in Folders, BackgroundSaves(f) PROVE InRows'
  BY <1>5, StillRows DEF BackgroundSaves
<1>6. CASE WorkerRemoves
  BY <1>6, RemovesRows
<1>7. CASE WorkerRebuilds
  BY <1>7, RebuildsRows
<1>8. CASE WorkerAcks
  BY <1>8, StillRows
<1>9. CASE Crash
  <2>1. Restarted'
    <3>1. Typed' /\ AllTraced'
      BY StepTyped, StepTraced
    <3>2. byPath' = Rebuilt(tree') /\ pathOf' = Located(Rebuilt(tree'))
      BY <1>9 DEF Crash
    <3>3. \A h \in Handlers : op'[h].pc # "write"
      BY <1>9 DEF Crash, Idle
    <3>. QED BY <3>1, <3>2, <3>3 DEF Restarted
  <2>. QED BY <2>1, RestartedRows, PTL
<1>10. CASE UNCHANGED vars
  BY <1>10, StillRows DEF vars, treeVars, histVars
<1>. QED BY <1>1, <1>2, <1>3, <1>4, <1>5, <1>6, <1>7, <1>8, <1>9, <1>10 DEF Next

\* What is owed is paid when nothing is under way.
LEMMA RowsAreRight == Typed /\ InRows => ResolverCurrent
<1> SUFFICES ASSUME Typed, InRows, Quiet, contested = {}, NEW f \in Folders, IsFolderDoc(f),
                    NEW p \in Paths
             PROVE  RowIsRight(f, p)
  BY DEF ResolverCurrent
<1>1. Settled(f) /\ Filled(f)
  BY DEF Quiet, Settled, Filled, Dirties, Refills
<1>2. NoGhosts(f) /\ Complete(f)
  BY <1>1 DEF InRows, Rows
<1>3. CASE HasFile(f, p)
  <2>1. PICK u \in Docs : u = tree[f].meta[p].id /\ p \in Lists(tree[f], u)
    BY <1>3, FileIsListed
  <2>2. u \notin misfiled => RowAt(<<f, p>>, u) /\ pathOf[u] = <<f, p>>
    BY <1>2, <2>1 DEF Complete
  <2>. QED BY <1>3, <2>1, <2>2 DEF RowIsRight, RowAt
<1>4. CASE ~HasFile(f, p)
  BY <1>2, <1>4 DEF NoGhosts, RowIsRight
<1>. QED BY <1>3, <1>4

(* When no request, folder document or worker's pass is under way, and no  *)
(* race has hit, the path resolver finds every document of a folder at its *)
(* path, and nothing at the paths that are free.                           *)
THEOREM ResolverFollows == Spec => []ResolverCurrent
<1>1. Init => Typed /\ AllTraced /\ InRows
  BY InitTyped, InitTraced, InitRows
<1>2. Typed /\ AllTraced /\ InRows /\ [Next]_vars => (Typed /\ AllTraced /\ InRows)'
  BY StepTyped, StepTraced, StepRows
<1>3. Typed /\ AllTraced /\ InRows => ResolverCurrent
  BY RowsAreRight
<1>. QED BY <1>1, <1>2, <1>3, PTL DEF Spec

=============================================================================
