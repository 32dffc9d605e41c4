------------------------------ MODULE Folders ------------------------------
(***************************************************************************)
(* The folder tree and the path resolver (relay/src/server.rs: the create, *)
(* move and rename handlers; y-sweet-core/src/link_indexer.rs:             *)
(* move_document; y-sweet-core/src/doc_resolver.rs).                       *)
(*                                                                         *)
(* A folder document maps paths to entries twice: `filemeta_v0`, and the   *)
(* legacy map `docs` that Obsidian reads.  A handler looks at the maps     *)
(* under a read lock, awaits a load or a store call, and writes them under *)
(* a write lock, later: other handlers, clients that edit the folder       *)
(* documents themselves, and the link indexer's worker run in between.     *)
(* Folder documents are saved one by one, and the resolver, a cache from   *)
(* paths to documents and back, is brought up to date last.                *)
(*                                                                         *)
(* A path is a pair, directory and name; directories are one level deep.   *)
(* The entries of directories carry one id, and the resolver's rows for    *)
(* them are left out.  Wikilinks are the matter of module LinkIndexer.     *)
(***************************************************************************)
EXTENDS Naturals, FiniteSets, FiniteSetsExt

CONSTANTS NumFolders,       \* folder documents, in the order of their ids
          Dirs, Names,      \* directories and names of files
          Docs,             \* the ids of files
          Handlers,         \* requests in progress at once
          Root, None, DirId,
          Tree0,            \* the folder documents at the start
          MaxOps,           \* bound: requests and client edits in a behaviour
          MaxCrashes        \* bound: restarts of the server

Folders == 1..NumFolders
Paths   == ({Root} \X (Names \cup Dirs)) \cup (Dirs \X Names)
Files   == (Dirs \cup {Root}) \X Names      \* the paths that files may have
Types   == {"markdown", "file", "folder"}
Entries == [id : Docs \cup {DirId}, type : Types, hash : Nat]
Trees   == [meta : [Paths -> Entries \cup {None}],
            docs : [Paths -> Docs \cup {DirId, None}]]
Moves   == [src : Paths, dst : Paths, entry : Entries]

ASSUME FoldersAssumption ==
  /\ NumFolders \in Nat \ {0}
  /\ IsFiniteSet(Dirs) /\ IsFiniteSet(Names)
  /\ Root \notin Dirs /\ Dirs \cap Names = {}
  /\ DirId \notin Docs /\ None \notin Docs \cup {DirId}
  /\ None \notin Entries /\ None \notin Paths /\ None \notin Folders \X Paths
  /\ None \notin [id : Docs, owner : Folders]
  /\ Tree0 \in [Folders -> Trees]

ASSUME BoundsAssumption == MaxOps \in Nat /\ MaxCrashes \in Nat

VARIABLES
  tree,      \* the folder documents: filemeta_v0 and the legacy map
  stored,    \* the copies of them that the store holds
  byPath,    \* resolver: path_to_doc
  pathOf,    \* resolver: uuid_to_path
  queued,    \* the link indexer's pending map, its folder documents
  work,      \* its worker: the folder document it is at, and the step
  op,        \* what each handler is doing
  ops, crashes, \* counters for the bounds
  born,      \* the ids that have been given out
  owed,      \* history: documents a request was told exist, and not deleted
  safe,      \* history: those of them whose saves were answered Ok
  deleted,   \* history: documents a client deleted
  crossing,  \* history: documents moved between folders, and the folders
             \* among the two that have not been saved since
  contested, \* history: documents hit by a race that the code leaves open
  misfiled   \* history: documents whose resolver row was written late, with the
             \* wrong folder, or over that of another

treeVars == <<tree, stored>>
resVars  == <<byPath, pathOf>>
workVars == <<queued, work>>
boundVars == <<ops, crashes, born>>
histVars == <<owed, safe, deleted, crossing, contested, misfiled>>
vars == <<treeVars, resVars, workVars, op, boundVars, histVars>>

-----------------------------------------------------------------------------
(* Folder documents. *)

Lists(t, u) == {p \in Paths : t.meta[p] # None /\ t.meta[p].id = u}
ListedIn(u) == {f \in Folders : Lists(tree[f], u) # {}}
Places(u)   == {x \in Folders \X Paths : x[2] \in Lists(tree[x[1]], u)}
Free(f, p)  == tree[f].meta[p] = None

\* Only a document with entries counts as a folder document.
IsFolderDoc(f) == \E p \in Paths : ~Free(f, p)

Inside(p, d) == p = <<Root, d>> \/ p[1] = d

\* Mutant: the entry leaves filemeta_v0 only.
Drop_MetaOnly(t, p) == [t EXCEPT !.meta[p] = None]

Drop(t, p) == [meta |-> [t.meta EXCEPT ![p] = None],
               docs |-> [t.docs EXCEPT ![p] = None]]

\* Plain files are not in the legacy map: an insertion leaves it alone.
Put(t, p, e) ==
  [meta |-> [t.meta EXCEPT ![p] = e],
   docs |-> IF e.type = "file" THEN t.docs ELSE [t.docs EXCEPT ![p] = e.id]]

EnsureAncestors(t, p) ==
  LET dir == <<Root, p[1]>>
  IN  IF p[1] = Root \/ t.meta[dir] # None THEN t
      ELSE Put(t, dir, [id |-> DirId, type |-> "folder", hash |-> 0])

\* The file whose entry an insertion at p replaces, if it is not u's own.
Replaced(t, p, u) ==
  IF t.meta[p] = None THEN {} ELSE {t.meta[p].id} \ {u, DirId}

-----------------------------------------------------------------------------
(* The resolver. *)

ResolverType ==
  /\ byPath \in [Folders \X Paths -> [id : Docs, owner : Folders] \cup {None}]
  /\ pathOf \in [Docs -> (Folders \X Paths) \cup {None}]

NoRows == [x \in Folders \X Paths |-> None]

Upsert(u, x, row) ==
  /\ byPath' = [y \in Folders \X Paths |->
                 IF y = x THEN row ELSE IF y = pathOf[u] THEN None ELSE byPath[y]]
  /\ pathOf' = [pathOf EXCEPT ![u] = x]

\* The document whose row goes when u is entered at x: u's last path may be
\* another's by now.
Unfiled(u, x) ==
  {byPath[y].id : y \in {z \in {pathOf[u]} \ {None, x} : byPath[z] # None}} \ {u}

RowsOf(f) == {x \in Folders \X Paths : byPath[x] # None /\ byPath[x].owner = f}

RemoveFolderEntries(f) ==
  /\ byPath' = [x \in Folders \X Paths |-> IF x \in RowsOf(f) THEN None ELSE byPath[x]]
  /\ pathOf' = [u \in Docs |->
                 IF \E x \in RowsOf(f) : byPath[x].id = u THEN None ELSE pathOf[u]]

HasFile(f, p) == ~Free(f, p) /\ tree[f].meta[p].type # "folder"

RebuildFrom(f) ==
  /\ byPath' = [x \in Folders \X Paths |->
                 IF x[1] = f /\ HasFile(f, x[2])
                   THEN [id |-> tree[f].meta[x[2]].id, owner |-> f] ELSE byPath[x]]
  /\ pathOf' = [u \in Docs |->
                 IF Lists(tree[f], u) # {}
                   THEN <<f, CHOOSE p \in Lists(tree[f], u) : TRUE>> ELSE pathOf[u]]

\* Startup and the handlers that rebuild everything.
Rebuilt(t) ==
  [x \in Folders \X Paths |->
    LET e == t[x[1]].meta[x[2]]
    IN  IF e = None \/ (e # None /\ e.type = "folder") THEN None
        ELSE [id |-> e.id, owner |-> x[1]]]

Located(rows) ==
  [u \in Docs |->
    IF \E x \in DOMAIN rows : rows[x] # None /\ rows[x].id = u
      THEN CHOOSE x \in DOMAIN rows : rows[x] # None /\ rows[x].id = u
      ELSE None]

-----------------------------------------------------------------------------
(* Handlers.  pc names what the handler does next. *)

Pcs  == {"idle", "write", "upsert", "save", "apply", "queue", "next", "final",
         "clear", "rebuild"}
Idle == [pc |-> "idle", from |-> 1, to |-> 1, path |-> None, id |-> None,
         type |-> "file", plan |-> {}, home |-> 1, left |-> {}, after |-> "idle", ok |-> TRUE]

TypeOK ==
  /\ tree \in [Folders -> Trees] /\ stored \in [Folders -> Trees]
  /\ ResolverType
  /\ queued \subseteq Folders
  /\ work \in [at : 0..NumFolders, step : {"idle", "remove", "rebuild", "ack"}, again : BOOLEAN]
  /\ op \in [Handlers ->
       [pc : Pcs, from : Folders, to : Folders, path : Paths \cup {None},
        id : Docs \cup {None}, type : Types, plan : SUBSET Moves, home : Folders,
        left : SUBSET Folders, after : Pcs, ok : BOOLEAN]]
  /\ ops \in 0..MaxOps /\ crashes \in 0..MaxCrashes
  /\ born \subseteq Docs
  /\ owed \subseteq born /\ safe \subseteq owed /\ deleted \subseteq born
  /\ crossing \subseteq born \X Folders /\ contested \subseteq born /\ misfiled \subseteq born

\* The two maps of a folder document agree.
InStep(t) ==
  \A p \in Paths : t.docs[p] = IF t.meta[p] = None \/ t.meta[p].type = "file"
                               THEN None ELSE t.meta[p].id

\* Entries of directories are where directories are, and have their id.
WellPlaced(t) ==
  \A p \in Paths : t.meta[p] # None =>
    /\ t.meta[p].type = "folder" <=> p \notin Files
    /\ t.meta[p].type = "folder" <=> t.meta[p].id = DirId

\* Folder documents as the handlers and clients leave them.
ASSUME Tree0Assumption ==
  /\ \A f \in Folders : InStep(Tree0[f]) /\ WellPlaced(Tree0[f])
  /\ \A f, g \in Folders : \A p \in Paths, q \in Paths :
       /\ Tree0[f].meta[p] # None /\ Tree0[g].meta[q] # None
       /\ Tree0[f].meta[p].id = Tree0[g].meta[q].id /\ Tree0[f].meta[p].id # DirId
       => f = g /\ p = q

Listed0 == {u \in Docs : \E f \in Folders : Lists(Tree0[f], u) # {}}

Init ==
  /\ tree = Tree0 /\ stored = Tree0
  /\ byPath = Rebuilt(Tree0) /\ pathOf = Located(Rebuilt(Tree0))
  /\ queued = {} /\ work = [at |-> 0, step |-> "idle", again |-> FALSE]
  /\ op = [h \in Handlers |-> Idle]
  /\ ops = 0 /\ crashes = 0
  /\ born = Listed0 /\ owed = Listed0 /\ safe = Listed0
  /\ deleted = {} /\ crossing = {} /\ contested = {} /\ misfiled = {}

\* A pending entry that is raised while the worker is at it outlives the pass.
Queue(fs) ==
  /\ queued' = queued \cup fs
  /\ work' = [work EXCEPT !.again = @ \/ work.at \in fs]

Begins(h) == op[h].pc = "idle" /\ ops < MaxOps /\ ops' = ops + 1

Fails(h) ==
  /\ op' = [op EXCEPT ![h] = Idle]
  /\ UNCHANGED <<treeVars, resVars, workVars, boundVars, histVars>>

(* create_document, create_document_direct, create_blob_file: the path is  *)
(* checked, then the content is made: a document is loaded and written, or *)
(* a blob put into the store.                                              *)
CreateBegins(h, f, p, u, t) ==
  /\ Begins(h)
  /\ IsFolderDoc(f) /\ Free(f, p)
  /\ u \notin born /\ born' = born \cup {u}
  /\ op' = [op EXCEPT ![h] = [Idle EXCEPT !.pc = "write", !.from = f, !.to = f,
                                           !.path = p, !.id = u, !.type = t]]
  /\ UNCHANGED <<treeVars, resVars, workVars, crashes, histVars>>

\* get_or_create_doc or the store answered with an error.
CreateFails(h) == op[h].pc = "write" /\ Fails(h)

\* One transaction; its update event queues the folder document.
CreateWrites(h) ==
  LET o == op[h]
      entry == [id |-> o.id, type |-> o.type, hash |-> 0]
  IN  /\ o.pc = "write"
      /\ tree' = [tree EXCEPT ![o.from] =
                   Put(EnsureAncestors(@, o.path), o.path, entry)]
      /\ contested' = contested \cup Replaced(tree[o.from], o.path, o.id)
      /\ Queue({o.from})
      /\ op' = [op EXCEPT ![h].pc = "upsert"]
      /\ UNCHANGED <<stored, resVars, boundVars, owed, safe, deleted, crossing, misfiled>>

CreateUpserts(h) ==
  LET o == op[h]
  IN  /\ o.pc = "upsert"
      /\ Upsert(o.id, <<o.from, o.path>>, [id |-> o.id, owner |-> o.from])
      /\ misfiled' = misfiled \cup Unfiled(o.id, <<o.from, o.path>>)
           \cup IF o.path \in Lists(tree[o.from], o.id) THEN {}
                ELSE {o.id} \cup Replaced(tree[o.from], o.path, o.id)
      /\ op' = [op EXCEPT ![h].pc = "save", ![h].left = {o.from}]
      /\ UNCHANGED <<treeVars, workVars, boundVars, owed, safe, deleted, crossing, contested>>

\* The answer: Ok, whatever the saves answered.
Answers(h, o) ==
  LET told == {o.id} \ ({None} \cup deleted)
  IN  /\ owed' = owed \cup told
      /\ safe' = IF o.ok THEN safe \cup told ELSE safe
      /\ op' = [op EXCEPT ![h] = Idle]

(* persist() of each folder document in turn; an error is only logged.     *)
Save(h, ok) ==
  LET o == op[h]
      f == Min(o.left)
      left == o.left \ {f}
      after == [o EXCEPT !.left = left, !.ok = @ /\ ok,
                         !.pc = IF left = {} THEN o.after ELSE "save"]
  IN  /\ o.pc = "save"
      /\ stored' = IF ok THEN [stored EXCEPT ![f] = tree[f]] ELSE stored
      /\ crossing' = IF ok THEN {x \in crossing : x[2] # f} ELSE crossing
      /\ IF after.pc = "idle" THEN Answers(h, after)
         ELSE op' = [op EXCEPT ![h] = after] /\ UNCHANGED <<owed, safe>>
      /\ UNCHANGED <<tree, resVars, workVars, boundVars, deleted, contested, misfiled>>

(* move_document: the folders are scanned for the document and the target  *)
(* path is checked; then the backlinkers are loaded.                       *)
MoveTo(o, u, f, g, q) ==
  [o EXCEPT !.pc = "apply", !.id = u, !.from = f, !.to = g, !.path = q]

Movable(u, g, q) == ListedIn(u) # {} /\ IsFolderDoc(g) /\ Free(g, q)

MoveBegins(h, u, g, q) ==
  /\ Begins(h)
  /\ Movable(u, g, q)
  /\ \E p \in Paths : p \in Lists(tree[Max(ListedIn(u))], u)
                      /\ tree[Max(ListedIn(u))].meta[p].type = "markdown"
  /\ op' = [op EXCEPT ![h] = MoveTo(Idle, u, Max(ListedIn(u)), g, q)]
  /\ UNCHANGED <<treeVars, resVars, workVars, crashes, born, histVars>>

\* The document has left the source folder since: an error.
MoveFails(h) == op[h].pc = "apply" /\ Lists(tree[op[h].from], op[h].id) = {} /\ Fails(h)

\* Mutant: a move into another folder leaves the entry in the source.
MoveApplies_KeepsSource(h) ==
  LET o   == op[h]
      f   == o.from
      g   == o.to
      src == CHOOSE p \in Lists(tree[f], o.id) : TRUE
      e   == tree[f].meta[src]
      own == IF f = g THEN Drop(tree[g], src) ELSE tree[g]
  IN  /\ o.pc = "apply" /\ Lists(tree[f], o.id) # {}
      /\ tree' = [tree EXCEPT ![g] = Put(EnsureAncestors(own, o.path), o.path, e)]
      /\ contested' = contested \cup Replaced(tree[g], o.path, o.id)
      /\ crossing' = IF f = g THEN crossing ELSE crossing \cup ({o.id} \X {f, g})
      /\ Upsert(o.id, <<g, o.path>>, [id |-> o.id, owner |-> f])
      /\ misfiled' = IF f = g THEN misfiled ELSE misfiled \cup {o.id}
      /\ op' = [op EXCEPT ![h].pc = "save", ![h].left = Folders, ![h].after = "queue"]
      /\ UNCHANGED <<stored, workVars, boundVars, owed, safe, deleted>>

(* Under the write locks of every folder document.  Updates with the       *)
(* indexer's own origin do not queue anything.                             *)
MoveApplies(h) ==
  LET o   == op[h]
      f   == o.from
      g   == o.to
      src == CHOOSE p \in Lists(tree[f], o.id) : TRUE
      e   == tree[f].meta[src]
      old == IF pathOf[o.id] = None THEN None ELSE byPath[pathOf[o.id]]
      own == IF old = None THEN f ELSE old.owner
  IN  /\ o.pc = "apply" /\ Lists(tree[f], o.id) # {}
      /\ tree' = IF f = g
                 THEN [tree EXCEPT ![f] = Put(Drop(EnsureAncestors(@, o.path), src), o.path, e)]
                 ELSE [tree EXCEPT ![f] = Drop(@, src),
                                   ![g] = Put(EnsureAncestors(@, o.path), o.path, e)]
      /\ contested' = contested \cup Replaced(tree[g], o.path, o.id)
      /\ crossing' = IF f = g THEN crossing ELSE crossing \cup ({o.id} \X {f, g})
      /\ Upsert(o.id, <<g, o.path>>, [id |-> o.id, owner |-> own])
      /\ misfiled' = misfiled \cup Unfiled(o.id, <<g, o.path>>)
                              \cup IF f = g /\ own = g THEN {} ELSE {o.id}
      /\ op' = [op EXCEPT ![h].pc = "save", ![h].left = Folders, ![h].after = "queue"]
      /\ UNCHANGED <<stored, workVars, boundVars, owed, safe, deleted>>

\* queue_derived_index_with_lease, for both folders; a folder move goes on.
Queues(h) ==
  LET o == op[h]
  IN  /\ o.pc = "queue"
      /\ Queue({o.from, o.to})
      /\ IF o.plan # {}
           THEN op' = [op EXCEPT ![h].pc = "next"] /\ UNCHANGED <<owed, safe>>
           ELSE Answers(h, o)
      /\ UNCHANGED <<treeVars, resVars, boundVars, deleted, crossing, contested, misfiled>>

(* move_folder_path: the plan is read under one lock; the documents are    *)
(* moved one at a time, each as above; the rest of the plan is applied in  *)
(* one transaction, as it was read.                                        *)
PlanOf(f, d, e) ==
  {[src |-> p, dst |-> IF p = <<Root, d>> THEN <<Root, e>> ELSE <<e, p[2]>>,
    entry |-> tree[f].meta[p]] : p \in {q \in Paths : Inside(q, d) /\ ~Free(f, q)}}

FolderMoveBegins(h, f, d, e) ==
  LET plan == PlanOf(f, d, e)
  IN  /\ Begins(h)
      /\ d # e /\ IsFolderDoc(f) /\ plan # {}
      /\ ~Free(f, <<Root, d>>) => tree[f].meta[<<Root, d>>].type = "folder"
      /\ Free(f, <<Root, e>>)
      /\ \A m \in plan : Free(f, m.dst)
      /\ op' = [op EXCEPT ![h] = [Idle EXCEPT !.pc = "next", !.plan = plan, !.home = f]]
      /\ UNCHANGED <<treeVars, resVars, workVars, crashes, born, histVars>>

IsDocMove(m) == m.entry.type = "markdown"

\* One document's move_document; its error ends the whole request.
FolderMovesDoc(h) ==
  \E m \in op[h].plan :
    /\ op[h].pc = "next" /\ IsDocMove(m)
    /\ LET u == m.entry.id IN
         IF Movable(u, Max(ListedIn(u) \cup {1}), m.dst)
         THEN LET f == Max(ListedIn(u)) IN
              op' = [op EXCEPT ![h] = MoveTo([op[h] EXCEPT !.plan = op[h].plan \ {m}],
                                            u, f, f, m.dst)]
         ELSE op' = [op EXCEPT ![h] = Idle]
    /\ UNCHANGED <<treeVars, resVars, workVars, boundVars, histVars>>

\* Entries that changed since the plan was read are put back as they were.
FolderMoveEnds(h) ==
  LET o    == op[h]
      plan == o.plan
      srcs == {m.src : m \in plan}
      At(p) == CHOOSE m \in plan : m.dst = p
      dsts == {m.dst : m \in plan}
      old  == tree[o.home]
  IN  /\ o.pc = "next" /\ ~\E m \in plan : IsDocMove(m)
      /\ tree' = [tree EXCEPT ![o.home] =
           [meta |-> [p \in Paths |-> IF p \in dsts THEN At(p).entry
                                      ELSE IF p \in srcs THEN None ELSE old.meta[p]],
            docs |-> [p \in Paths |->
                       IF p \in dsts /\ At(p).entry.type = "folder" THEN At(p).entry.id
                       ELSE IF p \in srcs THEN None ELSE old.docs[p]]]]
      /\ contested' = contested
           \cup (UNION {Replaced(old, m.dst, m.entry.id) : m \in plan})
           \cup (UNION {Replaced(old, m.src, m.entry.id) : m \in plan})
           \cup ({m.entry.id : m \in {n \in plan : old.meta[n.src] # n.entry}} \ {DirId})
      /\ op' = [op EXCEPT ![h].pc = "save", ![h].plan = {}, ![h].left = {o.home},
                          ![h].from = o.home, ![h].to = o.home, ![h].after = "clear",
                          ![h].id = None]
      /\ UNCHANGED <<stored, resVars, workVars, boundVars, owed, safe, deleted,
                     crossing, misfiled>>

(* move_filemeta_entry_path: the check and the write under one lock.  The  *)
(* ancestors of the new path are not created.                              *)
FileMoves(h, f, p, q) ==
  /\ Begins(h)
  /\ ~Free(f, p) /\ tree[f].meta[p].type = "file" /\ (Free(f, q) \/ p = q)
  /\ tree' = [tree EXCEPT ![f] = Put(Drop(@, p), q, tree[f].meta[p])]
  /\ op' = [op EXCEPT ![h] = [Idle EXCEPT !.pc = "save", !.from = f, !.to = f,
                                           !.left = {f}, !.after = "clear"]]
  /\ UNCHANGED <<stored, resVars, workVars, crashes, born, histVars>>

\* update_blob_hash: one transaction, whose event queues the folder document.
HashUpdates(h, f, p) ==
  /\ Begins(h)
  /\ ~Free(f, p) /\ tree[f].meta[p].type = "file"
  /\ tree' = [tree EXCEPT ![f].meta[p].hash = @ + 1]
  /\ Queue({f})
  /\ op' = [op EXCEPT ![h] = [Idle EXCEPT !.pc = "save", !.from = f, !.to = f, !.left = {f}]]
  /\ UNCHANGED <<stored, resVars, crashes, born, histVars>>

\* DocumentResolver::rebuild: both maps are emptied, then filled by folder.
RebuildClears(h) ==
  /\ op[h].pc = "clear"
  /\ byPath' = NoRows /\ pathOf' = [u \in Docs |-> None]
  /\ misfiled' = {}
  /\ LET left == {f \in Folders : IsFolderDoc(f)} IN
     op' = [op EXCEPT ![h].pc = IF left = {} THEN "queue" ELSE "rebuild", ![h].left = left]
  /\ UNCHANGED <<treeVars, workVars, boundVars, owed, safe, deleted, crossing, contested>>

RebuildFolder(h) ==
  LET left == op[h].left \ {Min(op[h].left)}
  IN  /\ op[h].pc = "rebuild"
      /\ RebuildFrom(Min(op[h].left))
      /\ op' = [op EXCEPT ![h].left = left, ![h].pc = IF left = {} THEN "queue" ELSE @]
      /\ UNCHANGED <<treeVars, workVars, boundVars, histVars>>

HandlerStep(h) ==
  \/ \E f \in Folders, p \in Files, u \in Docs, t \in {"markdown", "file"} :
       CreateBegins(h, f, p, u, t)
  \/ CreateFails(h) \/ CreateWrites(h) \/ CreateUpserts(h)
  \/ \E ok \in BOOLEAN : Save(h, ok)
  \/ Queues(h)
  \/ \E u \in Docs, g \in Folders, q \in Files : MoveBegins(h, u, g, q)
  \/ MoveFails(h) \/ MoveApplies(h)
  \/ \E f \in Folders, d, e \in Dirs : FolderMoveBegins(h, f, d, e)
  \/ FolderMovesDoc(h) \/ FolderMoveEnds(h)
  \/ \E f \in Folders, p, q \in Files : FileMoves(h, f, p, q)
  \/ \E f \in Folders, p \in Files : HashUpdates(h, f, p)
  \/ RebuildClears(h) \/ RebuildFolder(h)

-----------------------------------------------------------------------------
(* Clients write folder documents through the sync protocol, both maps in  *)
(* one transaction; the update event queues the folder document.           *)

ClientRenames(f, p, q) ==
  /\ ops < MaxOps /\ ops' = ops + 1
  /\ HasFile(f, p) /\ Free(f, q)
  /\ tree' = [tree EXCEPT ![f] = Put(EnsureAncestors(Drop(@, p), q), q, tree[f].meta[p])]
  /\ Queue({f})
  /\ UNCHANGED <<stored, resVars, op, crashes, born, histVars>>

ClientDeletes(f, p) ==
  LET u == tree[f].meta[p].id
  IN  /\ ops < MaxOps /\ ops' = ops + 1
      /\ HasFile(f, p)
      /\ tree' = [tree EXCEPT ![f] = Drop(@, p)]
      /\ deleted' = deleted \cup {u} /\ owed' = owed \ {u} /\ safe' = safe \ {u}
      /\ Queue({f})
      /\ UNCHANGED <<stored, resVars, op, crashes, born, crossing, contested, misfiled>>

(* The link indexer's worker at a folder document: resolver.update_folder, *)
(* in two steps.  A folder document that lists nothing is taken for a      *)
(* content document, and the resolver is left as it is.                    *)

WorkerTakes(f) ==
  /\ work.step = "idle" /\ f \in queued
  /\ work' = [at |-> f, step |-> IF IsFolderDoc(f) THEN "remove" ELSE "ack", again |-> FALSE]
  /\ UNCHANGED <<treeVars, resVars, queued, op, boundVars, histVars>>

WorkerRemoves ==
  /\ work.step = "remove"
  /\ RemoveFolderEntries(work.at)
  /\ work' = [work EXCEPT !.step = "rebuild"]
  /\ UNCHANGED <<treeVars, queued, op, boundVars, histVars>>

WorkerRebuilds ==
  /\ work.step = "rebuild"
  /\ RebuildFrom(work.at)
  /\ work' = [work EXCEPT !.step = "ack"]
  /\ UNCHANGED <<treeVars, queued, op, boundVars, histVars>>

\* Mutant: the entry goes although it was raised again during the pass.
WorkerAcks_Always ==
  /\ work.step = "ack"
  /\ queued' = queued \ {work.at}
  /\ work' = [at |-> 0, step |-> "idle", again |-> FALSE]
  /\ UNCHANGED <<treeVars, resVars, op, boundVars, histVars>>

WorkerAcks ==
  /\ work.step = "ack"
  /\ queued' = IF work.again THEN queued ELSE queued \ {work.at}
  /\ work' = [at |-> 0, step |-> "idle", again |-> FALSE]
  /\ UNCHANGED <<treeVars, resVars, op, boundVars, histVars>>

\* The persistence worker of a folder document; of no matter when no restart
\* is to come (MaxCrashes).
BackgroundSaves(f) ==
  /\ stored[f] # tree[f] /\ crashes < MaxCrashes
  /\ stored' = [stored EXCEPT ![f] = tree[f]]
  /\ crossing' = {x \in crossing : x[2] # f}
  /\ UNCHANGED <<tree, resVars, workVars, op, boundVars, owed, safe, deleted,
                 contested, misfiled>>

\* One of the two saves of a move across folders is missing.
Torn(u) ==
  /\ \E f \in Folders : <<u, f>> \in crossing
  /\ Cardinality({f \in Folders : Lists(stored[f], u) # {}}) # 1

(* The process ends and starts again: what was not saved is gone, and the  *)
(* resolver is rebuilt from the loaded documents.  A restart is as good as *)
(* a start, so no request follows it here.                                 *)
Crash ==
  /\ crashes < MaxCrashes /\ crashes' = crashes + 1
  /\ tree' = stored
  /\ byPath' = Rebuilt(stored) /\ pathOf' = Located(Rebuilt(stored))
  /\ queued' = {} /\ work' = [at |-> 0, step |-> "idle", again |-> FALSE]
  /\ op' = [h \in Handlers |-> Idle]
  /\ owed' = safe
  /\ contested' = contested \cup {u \in Docs : Torn(u)}
  /\ crossing' = {} /\ misfiled' = {}
  /\ ops' = MaxOps
  /\ UNCHANGED <<stored, born, safe, deleted>>

Next ==
  \/ \E h \in Handlers : HandlerStep(h)
  \/ \E f \in Folders, p, q \in Files : ClientRenames(f, p, q)
  \/ \E f \in Folders, p \in Files : ClientDeletes(f, p)
  \/ \E f \in Folders : WorkerTakes(f) \/ BackgroundSaves(f)
  \/ WorkerRemoves \/ WorkerRebuilds \/ WorkerAcks
  \/ Crash

Spec == Init /\ [][Next]_vars

-----------------------------------------------------------------------------
(* Properties. *)

(* A document that a request was told exists, and that no client deleted,  *)
(* is listed at one place, in one folder: whatever handlers, client edits, *)
(* failed saves and restarts do, unless two requests raced for one path or *)
(* a crash fell between the two saves of a move across folders.            *)
ListedOnce == \A u \in owed \ contested : Cardinality(Places(u)) = 1

(* The two maps of a folder document agree: Obsidian takes an entry that   *)
(* is in filemeta_v0 alone for an orphan.                                  *)
MapsInSync == contested = {} => \A f \in Folders : InStep(tree[f])

(* When nothing is under way, the resolver finds each document at its path *)
(* and nothing at the paths that are free, in every folder document that   *)
(* still has entries.                                                      *)
Quiet == queued = {} /\ \A h \in Handlers : op[h].pc = "idle"

RowIsRight(f, p) ==
  IF HasFile(f, p)
  THEN LET u == tree[f].meta[p].id IN
       u \notin misfiled => /\ byPath[<<f, p>>] # None /\ byPath[<<f, p>>].id = u
                            /\ pathOf[u] = <<f, p>>
  ELSE byPath[<<f, p>>] # None => byPath[<<f, p>>].id \in misfiled

ResolverCurrent ==
  Quiet /\ contested = {} =>
    \A f \in Folders : IsFolderDoc(f) => \A p \in Paths : RowIsRight(f, p)

=============================================================================
