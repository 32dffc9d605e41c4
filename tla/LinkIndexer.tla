---------------------------- MODULE LinkIndexer ----------------------------
(***************************************************************************)
(* The link indexer (y-sweet-core/src/link_indexer.rs) and the wikilinks   *)
(* part of a move (relay/src/server.rs: move_document).                    *)
(*                                                                         *)
(* A document's wikilinks are text; backlinks_v0 in each folder document   *)
(* records which documents link to which.  One worker, restarted by its    *)
(* supervisor when it panics, passes over what the update callbacks queue: *)
(* a folder document makes it look for renames, against a cache of the     *)
(* names it saw last, and rewrite the links of the recorded backlinkers; a *)
(* content document makes it record the document's links anew.  No lock is *)
(* held from one step of a pass to the next.  A move does all of it at     *)
(* once, under the write locks of all folder documents and of the          *)
(* documents it loaded before.                                             *)
(*                                                                         *)
(* Folders are flat here, every document is markdown, and a document has   *)
(* at most one link: links are treated one by one.  A link names a file in *)
(* the folder of its document (Here) or, by a path, in a given folder.     *)
(* Ids are numbers, in the order of the ids' text.                         *)
(***************************************************************************)
EXTENDS Naturals, FiniteSets, FiniteSetsExt

CONSTANTS NumFolders, NumDocs, Names,
          Here, None,
          Place0, Link0,    \* where documents are and what they link to at first
          Spots, Written,   \* bounds: where clients put files, what authors link to
          MaxOps,           \* bound: client changes and moves in a behaviour
          MaxPanics         \* bound: panics of the worker

Folders == 1..NumFolders
Docs    == (NumFolders + 1)..(NumFolders + NumDocs)
Ids     == Folders \cup Docs
Places  == Folders \X Names
Links   == [dir : Folders \cup {Here}, name : Names]
Entries == [id : Docs, at : Places]             \* VirtualEntry
Renames == [id : Docs, old : Names, new : Names]  \* RenameEvent

ASSUME LinkIndexerAssumption ==
  /\ NumFolders \in Nat \ {0} /\ NumDocs \in Nat /\ MaxOps \in Nat /\ MaxPanics \in Nat
  /\ None \notin Places \cup Links \cup Names \cup Docs \cup Renames
  /\ None \notin [Docs -> Names \cup {None}] /\ Here \notin Folders
  /\ Place0 \in [Docs -> Places \cup {None}]
  /\ \A u, v \in Docs : Place0[u] = Place0[v] /\ Place0[u] # None => u = v
  /\ Link0 \in [Docs -> Links \cup {None}]
  /\ Spots \subseteq Places \cup {None} /\ Written \subseteq Links \cup {None}

VARIABLES
  place,     \* filemeta_v0 of all folder documents
  link,      \* the wikilink in a document's text
  loaded,    \* the documents in `docs`
  backlinks, \* backlinks_v0 of each folder document: pairs target, source
  cache,     \* filemeta_cache
  pending,   \* the pending map
  batch,     \* the worker's ready list, what is left of it
  fresh,     \* those of it whose generation is still the one of the list
  work,      \* the item the worker is at, and the step
  move,      \* the move under way
  ops, panics, \* counters for the bounds
  meant,     \* history: the document that the author of a link meant
  adrift,    \* history: documents with a link the code may fail to keep
  missed     \* history: documents whose backlinks the code does not renew

treeVars == <<place, link, loaded>>
workVars == <<batch, fresh, work>>
histVars == <<meant, adrift, missed>>
vars == <<treeVars, backlinks, cache, pending, workVars, move, ops, panics, histVars>>

-----------------------------------------------------------------------------
(* The virtual tree. *)

FilesOf(f)     == {u \in Docs : place[u] # None /\ place[u][1] = f}
IsFolderDoc(f) == FilesOf(f) # {}
FolderDocs     == {f \in Folders : IsFolderDoc(f)}
Free(x)        == \A u \in Docs : place[u] # x

EntriesOf(f) == {[id |-> u, at |-> place[u]] : u \in FilesOf(f)}
AllEntries   == UNION {EntriesOf(f) : f \in Folders}

\* The entry of a document: the first one; a document in the middle of a
\* move may be in a list twice, or not at all.
PathIn(entries, u) ==
  IF \E e \in entries : e.id = u THEN (CHOOSE e \in entries : e.id = u).at ELSE None

\* Where a link leads, seen from a path.
Leads(l, from) == IF l.dir # Here THEN <<l.dir, l.name>>
                  ELSE IF from = None THEN None ELSE <<from[1], l.name>>

\* resolve_in_virtual_tree
Resolve(l, from, entries) ==
  IF \E e \in entries : e.at = Leads(l, from)
    THEN (CHOOSE e \in entries : e.at = Leads(l, from)).id ELSE None

\* The two-argument compute_relative_wikilink.
Relative(from, to) == [dir |-> IF from[1] = to[1] THEN Here ELSE to[1], name |-> to[2]]

\* What a link in a document resolves to.
Finds(l, u) == IF l = None THEN None ELSE Resolve(l, place[u], AllEntries)
Target(u)   == Finds(link[u], u)

\* apply_backlink_diff, for a source and the target found in this folder.
Renewed(pairs, u, targets) == {b \in pairs : b[2] # u} \cup (targets \X {u})

SourcesOf(f, u) == {s \in Docs : <<u, s>> \in backlinks[f]}

-----------------------------------------------------------------------------
Pcs == {"idle", "next", "detect", "scan", "renames", "rewrite", "read", "write", "ack"}
Resting == [pc |-> "idle", at |-> 1, seen |-> {}, todo |-> {}, ids |-> {}, renames |-> {},
            entries |-> {}, rename |-> None, sources |-> {}, link |-> None]
NoMove  == [pc |-> "idle", id |-> None, from |-> 1, to |-> None, needed |-> {}]

TypeOK ==
  /\ place \in [Docs -> Places \cup {None}]
  /\ link \in [Docs -> Links \cup {None}]
  /\ loaded \subseteq Docs
  /\ backlinks \in [Folders -> SUBSET (Docs \X Docs)]
  /\ cache \in [Folders -> [Docs -> Names \cup {None}] \cup {None}]
  /\ pending \subseteq Ids /\ fresh \subseteq batch /\ batch \subseteq pending
  /\ work \in [pc : Pcs, at : Ids, seen : SUBSET Folders, todo : SUBSET Folders,
               ids : SUBSET Docs, renames : SUBSET Renames, entries : SUBSET Entries,
               rename : Renames \cup {None}, sources : SUBSET Docs, link : Links \cup {None}]
  /\ move \in [pc : {"idle", "apply", "queue"}, id : Docs \cup {None},
               from : Folders, to : Places \cup {None}, needed : SUBSET Docs]
  /\ ops \in 0..MaxOps /\ panics \in 0..MaxPanics
  /\ meant \in [Docs -> Docs \cup {None}]
  /\ adrift \subseteq Docs /\ missed \subseteq Docs

Snapshot(f) == [u \in Docs |-> IF u \in FilesOf(f) THEN place[u][2] ELSE None]

(* Startup: reindex_all_backlinks over every document, and the cache of     *)
(* every document that lists something.                                     *)
Init ==
  /\ place = Place0 /\ link = Link0 /\ loaded = Docs
  /\ backlinks = [f \in Folders |->
       {b \in Docs \X Docs : Target(b[2]) = b[1] /\ place[b[1]][1] = f}]
  /\ cache = [f \in Folders |-> IF IsFolderDoc(f) THEN Snapshot(f) ELSE None]
  /\ pending = {} /\ batch = {} /\ fresh = {}
  /\ work = Resting /\ move = NoMove
  /\ ops = 0 /\ panics = 0
  /\ meant = [u \in Docs |-> Target(u)] /\ adrift = {} /\ missed = {}

\* upsert_pending_update: an entry that is raised again has a new generation.
Raise(ids) == pending' = pending \cup ids /\ fresh' = fresh \ ids

-----------------------------------------------------------------------------
(* What the code does not promise.  The indexer digests one change of the  *)
(* tree at a time: its cache holds names, not the changes in between, and  *)
(* it finds the links to rewrite in the backlinks as they were recorded    *)
(* before.                                                                 *)

\* No change of the tree waits for the worker, or is on its way.
Digested == pending \cap Folders = {} /\ \A f \in FolderDocs : cache[f] = Snapshot(f)

Linking(u) == {s \in Docs : meant[s] = u}

\* s is recorded as a backlinker of u in u's folder, where the worker looks, and
\* not going to be recorded anew.
Kept(s, u) == s \notin pending /\ s \in SourcesOf(place[u][1], u)

Recorded(u) == {b[1] : b \in {c \in UNION {backlinks[f] : f \in FolderDocs} : c[2] = u}}
Stale(u)    == Recorded(u) # {Target(u)} \ {None}

\* A pass over a folder document leaves everything but these as it is.
Overlooked(renewed) == {u \in Docs \ (pending \cup renewed) : Stale(u)}

-----------------------------------------------------------------------------
(* Clients. *)

Operates == ops < MaxOps /\ ops' = ops + 1

\* A file is renamed, listed or taken off the list by a client.
ClientPlaces(u, x) ==
  LET touched == {y[1] : y \in {place[u], x} \ {None}}
  IN  /\ Operates
      /\ place[u] # x /\ (x # None => Free(x))
      /\ place' = [place EXCEPT ![u] = x]
      /\ Raise(touched)
      /\ adrift' = adrift \cup
           IF ~Digested \/ move.pc # "idle" THEN Docs
           ELSE IF Cardinality(touched) = 1 /\ place[u] # None /\ x # None
             THEN {s \in Linking(u) : ~Kept(s, u)} ELSE {u} \cup Linking(u)
      /\ UNCHANGED <<link, loaded, backlinks, cache, batch, work, move, panics, meant, missed>>

\* An author writes the link of a document.
ClientWrites(u, l) ==
  /\ Operates
  /\ u \in loaded /\ link[u] # l
  /\ link' = [link EXCEPT ![u] = l]
  /\ meant' = [meant EXCEPT ![u] = Finds(l, u)]
  /\ adrift' = IF Digested THEN adrift \ {u} ELSE adrift \cup {u}
  /\ missed' = missed \ {u}
  /\ Raise({u})
  /\ UNCHANGED <<place, loaded, backlinks, cache, batch, work, move, panics>>

\* GC: the lease of a pending entry keeps its document.
Evicts(u) ==
  /\ Operates
  /\ u \in loaded \ pending
  /\ loaded' = loaded \ {u}
  /\ UNCHANGED <<place, link, backlinks, cache, pending, workVars, move, panics, histVars>>

-----------------------------------------------------------------------------
(* A move. *)

\* The backlinkers are read, folder by folder, and loaded.
MoveBegins(u, x) ==
  LET needed == {u} \cup UNION {SourcesOf(f, u) : f \in FolderDocs}
  IN  /\ Operates /\ move.pc = "idle"
      /\ place[u] # None /\ Free(x) /\ IsFolderDoc(x[1])
      /\ move' = [pc |-> "apply", id |-> u, from |-> place[u][1], to |-> x, needed |-> needed]
      /\ \E failed \in SUBSET (needed \ loaded) : loaded' = loaded \cup (needed \ failed)
      /\ UNCHANGED <<place, link, backlinks, cache, pending, workVars, panics, histVars>>

InSource == place[move.id] # None /\ place[move.id][1] = move.from

\* The document has left the source folder since: an error.
MoveFails ==
  /\ move.pc = "apply" /\ ~InSource
  /\ move' = NoMove
  /\ UNCHANGED <<treeVars, backlinks, cache, pending, workVars, ops, panics, histVars>>

(* The documents whose locks were taken are numbered by the list of all    *)
(* that are needed: when one of them is not in `docs`, those after it are  *)
(* taken for their neighbours.                                             *)
Rank(s, d) == Cardinality({e \in s : e <= d})
Held(needed) ==
  LET here == needed \cap loaded
  IN  [d \in {e \in needed : Rank(needed, e) <= Cardinality(here)} |->
         CHOOSE e \in here : Rank(here, e) = Rank(needed, d)]

(* link_indexer::move_document, under all the locks.  Its writes have the  *)
(* indexer's origin, which queues nothing.                                 *)
MoveApplies ==
  LET u       == move.id
      old     == place[u]
      new     == move.to
      held    == Held(move.needed)
      entries == {e \in AllEntries : e.id # u} \cup {[id |-> u, at |-> old]}
      linkers == (UNION {SourcesOf(f, u) : f \in Folders}) \cap DOMAIN held
      \* in the backlinkers, links that lead to the old path
      Inward(l, from) == IF l # None /\ from # None /\ Leads(l, from) = old
                         THEN Relative(from, new) ELSE l
      first == [d \in Docs |->
                 IF \E s \in linkers : held[s] = d
                 THEN Inward(link[d], PathIn(entries, CHOOSE s \in linkers : held[s] = d))
                 ELSE link[d]]
      \* in the moved document, links that lead to some file
      Outward(l) == IF l # None /\ Resolve(l, old, entries) # None
                    THEN Relative(new, Leads(l, old)) ELSE l
      texts == IF u \in DOMAIN held THEN [first EXCEPT ![held[u]] = Outward(@)] ELSE first
      moved == IF old[1] = new[1] THEN backlinks
               ELSE [backlinks EXCEPT
                      ![old[1]] = {b \in @ : b[1] # u},
                      ![new[1]] = @ \cup ({u} \X SourcesOf(old[1], u))]
      placed == [d \in Docs |-> IF d = u THEN new ELSE IF place[d] = new THEN None ELSE place[d]]
      after  == {[id |-> d, at |-> placed[d]] : d \in {e \in Docs : placed[e] # None}}
      own    == texts[held[u]]
      hit    == IF own = None THEN None ELSE Resolve(own, new, after)
  IN  /\ move.pc = "apply" /\ InSource
      /\ place' = placed
      /\ link' = texts
      /\ backlinks' =
           IF u \notin DOMAIN held THEN moved
           ELSE [f \in Folders |-> Renewed(moved[f], u,
                  IF hit # None /\ placed[hit][1] = f THEN {hit} ELSE {})]
      /\ adrift' = adrift \cup IF ~Digested THEN Docs
                              ELSE {s \in Linking(u) : s \notin linkers \/ held[s] # s}
                                   \cup {s \in {u} : s \notin DOMAIN held \/ held[s] # s}
                                   \cup {held[s] : s \in {x \in DOMAIN held : held[x] # x}}
      /\ move' = [move EXCEPT !.pc = "queue", !.needed = {}]
      /\ UNCHANGED <<loaded, cache, pending, workVars, ops, panics, meant, missed>>

\* The saves are over; the folders are queued.
MoveQueues ==
  /\ move.pc = "queue"
  /\ Raise({move.from, move.to[1]})
  /\ move' = NoMove
  /\ UNCHANGED <<treeVars, backlinks, cache, batch, work, ops, panics, histVars>>

-----------------------------------------------------------------------------
(* The worker. *)

Step(w) == work' = w
Only(w) == Step(w) /\ UNCHANGED <<treeVars, backlinks, cache, pending, batch, fresh,
                                   move, ops, panics, histVars>>

\* Every tick: the folder documents, and what has been quiet for a while.
Takes(quiet) ==
  LET ready == (pending \cap FolderDocs) \cup quiet
  IN  /\ work.pc = "idle" /\ quiet \subseteq pending /\ ready # {}
      /\ batch' = ready /\ fresh' = ready
      /\ Step([Resting EXCEPT !.pc = "next", !.seen = FolderDocs])
      /\ UNCHANGED <<treeVars, backlinks, cache, pending, move, ops, panics, histVars>>

\* A folder document that lists nothing is a content document without text.
Picks(x) ==
  /\ work.pc = "next" /\ x \in batch
  /\ Step([work EXCEPT !.at = x,
                       !.pc = IF x \in Docs THEN "read" ELSE IF IsFolderDoc(x) THEN "detect" ELSE "ack",
                       !.ids = IF x \in Folders THEN FilesOf(x) ELSE {}])
  /\ missed' = IF x \in Folders /\ ~IsFolderDoc(x) THEN missed \cup Overlooked({}) ELSE missed
  /\ UNCHANGED <<treeVars, backlinks, cache, pending, batch, fresh, move, ops, panics, meant, adrift>>

\* Mutant: a file that is new to the folder counts as renamed.
RenamesOf_Added(old, new) ==
  {[id |-> u, old |-> old[u], new |-> new[u]] : u \in {d \in Docs : new[d] # None /\ old[d] # new[d]}}

RenamesOf(old, new) ==
  {[id |-> u, old |-> old[u], new |-> new[u]] :
     u \in {d \in Docs : old[d] # None /\ new[d] # None /\ old[d] # new[d]}}

\* detect_changes, and queueing the documents of a folder whose membership
\* changed.  The first look at a folder only fills the cache.
Detects ==
  LET f       == work.at
      old     == cache[f]
      new     == Snapshot(f)
      renames == IF old = None THEN {} ELSE RenamesOf(old, new)
      plain   == old # None /\ renames = {} /\ old # new
  IN  /\ work.pc = "detect"
      /\ cache' = [cache EXCEPT ![f] = new]
      /\ Raise(IF plain THEN work.ids \cap loaded ELSE {})
      /\ missed' = missed \cup Overlooked(IF plain THEN FilesOf(f) \cap loaded ELSE {})
      /\ Step([work EXCEPT !.pc = IF renames = {} THEN "ack" ELSE "scan", !.renames = renames,
                           !.todo = FolderDocs])
      /\ UNCHANGED <<treeVars, backlinks, batch, move, ops, panics, meant, adrift>>

\* snapshot_folder_entries, one folder at a time; at the end of a rename's
\* scan the renamed files are put back to where they were.
\* Mutant: links are resolved in the tree as it is after the rename.
Patched_Not(entries) == entries

Patched(entries) ==
  {IF \E r \in work.renames : r.id = e.id
     THEN [e EXCEPT !.at = <<work.at, (CHOOSE r \in work.renames : r.id = e.id).old>>] ELSE e :
   e \in entries}

Scans ==
  LET f       == Min(work.todo)
      todo    == work.todo \ {f}
      entries == work.entries \cup EntriesOf(f)
  IN  /\ work.pc = "scan" /\ work.todo # {}
      /\ Only(IF todo # {} THEN [work EXCEPT !.todo = todo, !.entries = entries]
              ELSE IF work.at \in Docs
                THEN [work EXCEPT !.todo = work.seen, !.entries = entries, !.pc = "write"]
                ELSE [work EXCEPT !.todo = {}, !.entries = Patched(entries), !.pc = "renames"])

\* apply_rename_updates: the recorded backlinkers of the next renamed file.
TakesRename(r) ==
  /\ work.pc = "renames" /\ r \in work.renames
  /\ Only([work EXCEPT !.renames = @ \ {r}, !.rename = r,
                       !.sources = SourcesOf(work.at, r.id), !.pc = "rewrite"])

RenamesDone ==
  /\ work.pc = "renames" /\ work.renames = {}
  /\ Only([work EXCEPT !.pc = "ack"])

\* update_wikilinks_in_doc_resolved, under the document's lock.
Rewritten(l, from, r) ==
  IF l # None /\ l.name = r.old /\ Leads(l, from) = <<work.at, r.old>>
     /\ Resolve(l, from, work.entries) # None
    THEN [l EXCEPT !.name = r.new] ELSE l

\* Mutant: every link with the old name is taken for one to the renamed file.
Rewrites_ByName(s) ==
  /\ work.pc = "rewrite" /\ s \in work.sources
  /\ link' = IF s \in loaded /\ link[s] # None /\ link[s].name = work.rename.old
             THEN [link EXCEPT ![s].name = work.rename.new] ELSE link
  /\ adrift' = IF s \in loaded THEN adrift ELSE adrift \cup {s}
  /\ Step([work EXCEPT !.sources = @ \ {s}])
  /\ UNCHANGED <<place, loaded, backlinks, cache, pending, batch, fresh, move, ops, panics,
                 meant, missed>>

Rewrites(s) ==
  /\ work.pc = "rewrite" /\ s \in work.sources
  /\ link' = IF s \in loaded
             THEN [link EXCEPT ![s] = Rewritten(@, PathIn(work.entries, s), work.rename)]
             ELSE link
  /\ adrift' = IF s \in loaded THEN adrift ELSE adrift \cup {s}
  /\ Step([work EXCEPT !.sources = @ \ {s}])
  /\ UNCHANGED <<place, loaded, backlinks, cache, pending, batch, fresh, move, ops, panics,
                 meant, missed>>

RewritesDone ==
  /\ work.pc = "rewrite" /\ work.sources = {}
  /\ Only([work EXCEPT !.pc = "renames", !.rename = None])

\* index_document: the text, under the document's lock.
Reads ==
  /\ work.pc = "read"
  /\ Only(IF work.seen = {} \/ work.at \notin loaded
          THEN [work EXCEPT !.pc = "ack"]
          ELSE [work EXCEPT !.pc = "scan", !.link = link[work.at], !.todo = work.seen,
                            !.entries = {}])

\* The backlinks, one folder document at a time.
Writes ==
  LET u    == work.at
      f    == Min(work.todo)
      hit  == IF work.link = None THEN None
              ELSE Resolve(work.link, PathIn(work.entries, u), work.entries)
      here == {e.id : e \in {x \in work.entries : x.id = hit /\ x.at[1] = f}}
  IN  /\ work.pc = "write"
      /\ backlinks' = [backlinks EXCEPT ![f] = Renewed(@, u, here)]
      /\ Step([work EXCEPT !.todo = @ \ {f}, !.pc = IF work.todo = {f} THEN "ack" ELSE @])
      /\ UNCHANGED <<treeVars, cache, pending, batch, fresh, move, ops, panics, histVars>>

\* mark_indexed: an entry raised since the list was made stays.
\* Mutant: an entry raised during the pass is taken off as well.
Acks_Always ==
  LET left == batch \ {work.at}
  IN  /\ work.pc = "ack"
      /\ pending' = pending \ {work.at}
      /\ batch' = left /\ fresh' = fresh \ {work.at}
      /\ Step([Resting EXCEPT !.pc = IF left = {} THEN "idle" ELSE "next",
                              !.seen = IF left = {} THEN {} ELSE work.seen])
      /\ UNCHANGED <<treeVars, backlinks, cache, move, ops, panics, histVars>>

Acks ==
  LET x    == work.at
      left == batch \ {x}
  IN  /\ work.pc = "ack"
      /\ pending' = IF x \in fresh THEN pending \ {x} ELSE pending
      /\ batch' = left /\ fresh' = fresh \ {x}
      /\ Step([Resting EXCEPT !.pc = IF left = {} THEN "idle" ELSE "next",
                              !.seen = IF left = {} THEN {} ELSE work.seen])
      /\ UNCHANGED <<treeVars, backlinks, cache, move, ops, panics, histVars>>

\* The supervisor starts the worker again; the pending map is not its own.
Panics ==
  /\ panics < MaxPanics /\ panics' = panics + 1
  /\ work.pc # "idle"
  /\ batch' = {} /\ fresh' = {} /\ Step(Resting)
  /\ adrift' = IF work.at \in Folders THEN adrift \cup Docs ELSE adrift
  /\ UNCHANGED <<treeVars, backlinks, cache, pending, move, ops, meant, missed>>

WorkerStep ==
  \/ \E quiet \in SUBSET pending : Takes(quiet)
  \/ \E x \in Ids : Picks(x)
  \/ Detects \/ Scans
  \/ \E r \in work.renames : TakesRename(r)
  \/ RenamesDone
  \/ \E s \in Docs : Rewrites(s)
  \/ RewritesDone \/ Reads \/ Writes \/ Acks

ClientStep ==
  \/ \E u \in Docs, x \in Spots : ClientPlaces(u, x)
  \/ \E u \in Docs, l \in Written : ClientWrites(u, l)
  \/ \E u \in Docs : Evicts(u)

MoveStep ==
  \/ \E u \in Docs, x \in Spots \cap Places : MoveBegins(u, x)
  \/ MoveFails \/ MoveApplies \/ MoveQueues

Next == ClientStep \/ MoveStep \/ WorkerStep \/ Panics

Spec == Init /\ [][Next]_vars

-----------------------------------------------------------------------------
(* Properties. *)

Quiet == pending = {} /\ work.pc = "idle" /\ move.pc = "idle"

(* "The debounce/re-queue pipeline self-corrects: any concurrent folder    *)
(* change triggers a new indexing pass": with nothing under way, the       *)
(* backlinks recorded for a loaded, listed document are those of its text, *)
(* whatever the passes' stale snapshots and the panics in between.  Only   *)
(* what a pass over a folder does not renew is left out: after a rename,   *)
(* anything; else what is unloaded, or in another folder.                  *)
BacklinksCurrent ==
  Quiet => \A u \in Docs \ missed : place[u] # None /\ u \in loaded => ~Stale(u)

(* A link follows the document its author meant, through renames and       *)
(* moves, while other documents are edited, indexed and evicted: as long   *)
(* as changes of the tree come one at a time, the link was recorded when   *)
(* they came, and nothing panics in the middle.                            *)
LinksFollow ==
  Quiet => \A u \in Docs \ adrift :
    meant[u] # None /\ place[u] # None /\ place[meant[u]] # None => Target(u) = meant[u]

(* No rewrite, at any time, takes a link away from what it meant to reach: *)
(* what is found with a snapshot of the tree and a list of backlinkers     *)
(* taken earlier still fits the text when its lock is taken.               *)
RewritesKeepMeaning ==
  [][\A u \in Docs \ adrift' :
       link'[u] # link[u] /\ meant'[u] = meant[u] /\ place'[u] # None
       /\ meant[u] # None /\ place'[meant[u]] # None => Target(u)' = meant[u]]_vars

=============================================================================
