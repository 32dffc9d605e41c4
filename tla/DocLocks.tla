------------------------------ MODULE DocLocks ------------------------------
(***************************************************************************)
(* Who waits for whom in the relay server: the locks of the document map   *)
(* and of the documents in it, and the few threads that run all requests.  *)
(*                                                                         *)
(* `docs` is a DashMap: its shards are read-write locks, docs.get holds    *)
(* the shard for reading as long as its reference lives, insert and        *)
(* remove_if take it for writing.  Every document has its awareness lock,  *)
(* a std RwLock.  A task that waits for either blocks its thread; one that *)
(* awaits gives its thread back, and needs one again to go on.             *)
(*                                                                         *)
(* Most of the code copies the Arc of the awareness out of the map and     *)
(* lets the shard go before it locks the awareness.  Some keeps the        *)
(* reference while it waits for the awareness lock: the MCP tools, the     *)
(* HTTP handlers that read or update a document, the readers of folder     *)
(* names, the resolver's update_folder, the folder move's reads and the    *)
(* list of suggestions.  The edit tool keeps one as well while its save is *)
(* on its way.                                                             *)
(* The update callback of a subdocument looks its parent up in `docs`      *)
(* while the writer holds the subdocument's awareness lock.                *)
(*                                                                         *)
(* Whether a lock makes new readers wait behind a waiting writer is its    *)
(* library's business: every combination is a behaviour.  A document is    *)
(* its place in the order of locking; what tasks do inside a lock is left  *)
(* out.                                                                    *)
(***************************************************************************)
EXTENDS Naturals, FiniteSets

CONSTANTS Tasks,       \* requests, connections, workers, GC's blocking threads
          Docs,        \* documents, numbered as a move locks them: folders first,
                       \* each kind in the order of its ids
          Folders,     \* those that are folders
          Parent,      \* the document whose channel a document's events go to
          Shards,      \* of `docs`
          Placements,  \* the shards the documents may be in: hashes of ids
          Workers,     \* threads of the runtime
          None         \* no document

Contents == Docs \ Folders

\* Documents are few enough for any set of them to have a first and a last.
ASSUME LocksAssumption ==
  /\ Docs \subseteq Nat /\ Folders \subseteq Docs /\ None \notin Docs
  /\ \A S \in (SUBSET Docs) \ {{}} :
       (\E d \in S : \A e \in S : d <= e) /\ (\E d \in S : \A e \in S : e <= d)
  /\ Parent \in [Docs -> Docs] /\ Placements \subseteq [Docs -> Shards]
  /\ IsFiniteSet(Tasks) /\ Workers \in Nat \ {0}

VARIABLES
  shardOf,   \* the shard of each document: its hash
  queueBars, \* the kinds of lock where a waiting writer keeps new readers out
  mapped,    \* the documents in `docs`
  onWorker,  \* the tasks that occupy a thread of the runtime
  \* of each task:
  pc, kind,  \* what it is doing, and for which operation
  todo,      \* the documents it still looks up
  arcs,      \* those whose awareness it has a copy of
  locked,    \* those whose awareness it has locked
  guard      \* the one whose reference into `docs` it keeps, or None

policyVars == <<shardOf, queueBars>>
taskVars   == <<pc, kind, todo, arcs, locked, guard>>
vars == <<policyVars, mapped, onWorker, taskVars>>

\* read, write: with a copy of the Arc.  move: with several, all locked at
\* once.  look, update, edit: with the reference kept, to read, to write, to
\* write and save.  load: a document enters the map.  collect: GC takes it out.
TaskKinds == {"read", "write", "move", "look", "update", "edit", "load", "collect"}
KeepsGuard == {"look", "update", "edit"}

TaskPC == {"idle", "looking", "locking", "inside", "callback", "returning",
           "saving", "inserting", "removing"}

TypeOK ==
  /\ shardOf \in [Docs -> Shards]
  /\ queueBars \in SUBSET {"shard", "awareness"}
  /\ mapped \in SUBSET Docs
  /\ pc \in [Tasks -> TaskPC] /\ kind \in [Tasks -> TaskKinds]
  /\ todo \in [Tasks -> SUBSET Docs] /\ arcs \in [Tasks -> SUBSET Docs]
  /\ locked \in [Tasks -> SUBSET Docs]
  /\ guard \in [Tasks -> Docs \cup {None}]
  /\ onWorker = {t \in Tasks : pc[t] \notin {"idle", "saving"} /\ kind[t] # "collect"}
  /\ Cardinality(onWorker) <= Workers

\* startup_reindex has loaded every document.
Init ==
  /\ shardOf \in Placements
  /\ queueBars \in SUBSET {"shard", "awareness"}
  /\ mapped = Docs /\ onWorker = {}
  /\ pc = [t \in Tasks |-> "idle"] /\ kind = [t \in Tasks |-> "read"]
  /\ todo = [t \in Tasks |-> {}] /\ arcs = todo /\ locked = todo
  /\ guard = [t \in Tasks |-> None]

-----------------------------------------------------------------------------
(* Waiting *)

Least(S) == CHOOSE d \in S : \A e \in S : d <= e

\* Mutant: a move locks the folder its document leaves before the others.
NextToLock_SourceFirst(t) ==
  LET rest == arcs[t] \ locked[t]
      source == {Parent[c] : c \in arcs[t] \cap Contents} \cap rest
  IN  Least(IF source = {} THEN rest ELSE source)

\* The document whose awareness a task locks next: a move's are sorted.
NextToLock(t) == Least(arcs[t] \ locked[t])

AwarenessMode(t) == IF kind[t] \in {"read", "look"} THEN "read" ELSE "write"

NoRequest == [lock |-> "none", of |-> None, mode |-> "none"]
ShardRequest(d, m) == [lock |-> "shard", of |-> shardOf[d], mode |-> m]

\* The lock a task is asking for.
Request(t) ==
  CASE pc[t] = "looking"   -> ShardRequest(Least(todo[t]), "read")
    [] pc[t] = "locking"   -> [lock |-> "awareness", of |-> NextToLock(t),
                               mode |-> AwarenessMode(t)]
    [] pc[t] = "callback"  -> ShardRequest(Parent[Least(todo[t])], "read")
    [] pc[t] = "returning" -> ShardRequest(Least(todo[t]), "read")
    [] pc[t] \in {"inserting", "removing"} -> ShardRequest(Least(todo[t]), "write")
    [] OTHER -> NoRequest

\* The tasks that hold the lock of a request in a conflicting way.
Holders(r) ==
  IF r.lock = "shard"
  THEN {u \in Tasks : guard[u] # None /\ shardOf[guard[u]] = r.of /\ r.mode = "write"}
  ELSE {u \in Tasks : r.of \in locked[u] /\ "write" \in {r.mode, AwarenessMode(u)}}

\* The waiting writers that keep a new reader out.
Ahead(r) ==
  {u \in Tasks : /\ r.mode = "read" /\ r.lock \in queueBars
                 /\ Request(u).lock = r.lock /\ Request(u).of = r.of
                 /\ Request(u).mode = "write"}

\* The tasks one of which a task is waiting for: for a lock, or after an
\* await for a thread.
Blockers(t) ==
  IF pc[t] = "saving"
  THEN IF Cardinality(onWorker) >= Workers THEN onWorker ELSE {}
  ELSE IF Request(t) = NoRequest THEN {} ELSE Holders(Request(t)) \cup Ahead(Request(t))

Granted(t) == Blockers(t) = {}

-----------------------------------------------------------------------------
(* Tasks *)

\* The operation is over: everything is let go, the thread too.
Ends(t) ==
  /\ pc' = [pc EXCEPT ![t] = "idle"] /\ kind' = [kind EXCEPT ![t] = "read"]
  /\ todo' = [todo EXCEPT ![t] = {}] /\ arcs' = [arcs EXCEPT ![t] = {}]
  /\ locked' = [locked EXCEPT ![t] = {}] /\ guard' = [guard EXCEPT ![t] = None]
  /\ onWorker' = onWorker \ {t}

Begins(t, k, first, S) ==
  /\ pc[t] = "idle"
  /\ pc' = [pc EXCEPT ![t] = first] /\ kind' = [kind EXCEPT ![t] = k]
  /\ todo' = [todo EXCEPT ![t] = S]
  /\ IF k = "collect"
     THEN UNCHANGED onWorker
     ELSE Cardinality(onWorker) < Workers /\ onWorker' = onWorker \cup {t}
  /\ UNCHANGED <<policyVars, mapped, arcs, locked, guard>>

Loading(d) == \E t \in Tasks : pc[t] = "inserting" /\ d \in todo[t]

Use(t, d) ==
  \E k \in {"read", "write", "look", "update", "edit"} :
    (k = "edit" => d \in Contents) /\ Begins(t, k, "looking", {d})

Move(t, S) == S # {} /\ Begins(t, "move", "looking", Folders \cup S)

\* A load is back from the store, its parent is loaded.
Load(t, d) ==
  /\ d \notin mapped /\ ~Loading(d) /\ Parent[d] \in mapped \cup {d}
  /\ Begins(t, "load", "inserting", {d})

Collect(t, d) == d \in mapped /\ Begins(t, "collect", "removing", {d})

\* docs.get: the Arc is copied, the reference let go or kept.  A document that
\* is not there is passed over; with no other, the operation is over.
Look(t) ==
  /\ pc[t] = "looking" /\ Granted(t)
  /\ LET d == Least(todo[t])
         found == arcs[t] \cup ({d} \cap mapped)
     IN  IF todo[t] = {d} /\ found = {}
         THEN Ends(t)
         ELSE /\ todo' = [todo EXCEPT ![t] = @ \ {d}]
              /\ arcs' = [arcs EXCEPT ![t] = found]
              /\ guard' = [guard EXCEPT ![t] = IF kind[t] \in KeepsGuard THEN d ELSE @]
              /\ pc' = [pc EXCEPT ![t] = IF todo[t] = {d} THEN "locking" ELSE @]
              /\ UNCHANGED <<kind, locked, onWorker>>
  /\ UNCHANGED <<policyVars, mapped>>

\* awareness.read() or awareness.write().
Lock(t) ==
  /\ pc[t] = "locking" /\ Granted(t)
  /\ locked' = [locked EXCEPT ![t] = @ \cup {NextToLock(t)}]
  /\ pc' = [pc EXCEPT ![t] = IF locked'[t] = arcs[t] THEN "inside" ELSE @]
  /\ UNCHANGED <<policyVars, mapped, onWorker, kind, todo, arcs, guard>>

\* A transaction of a subdocument commits: its callback looks the parent up.
Commit(t, d) ==
  /\ pc[t] = "inside" /\ AwarenessMode(t) = "write"
  /\ d \in locked[t] /\ Parent[d] # d
  /\ pc' = [pc EXCEPT ![t] = "callback"] /\ todo' = [todo EXCEPT ![t] = {d}]
  /\ UNCHANGED <<policyVars, mapped, onWorker, kind, arcs, locked, guard>>

Callback(t) ==
  /\ pc[t] = "callback" /\ Granted(t)
  /\ pc' = [pc EXCEPT ![t] = "inside"] /\ todo' = [todo EXCEPT ![t] = {}]
  /\ UNCHANGED <<policyVars, mapped, onWorker, kind, arcs, locked, guard>>

\* The guards are dropped; an edit comes back to the map to save.
Leave(t) ==
  /\ pc[t] = "inside"
  /\ IF kind[t] = "edit"
     THEN /\ pc' = [pc EXCEPT ![t] = "returning"]
          /\ todo' = [todo EXCEPT ![t] = arcs[t]]
          /\ arcs' = [arcs EXCEPT ![t] = {}] /\ locked' = [locked EXCEPT ![t] = {}]
          /\ guard' = [guard EXCEPT ![t] = None]
          /\ UNCHANGED <<kind, onWorker>>
     ELSE Ends(t)
  /\ UNCHANGED <<policyVars, mapped>>

\* Mutant: the thread is blocked until the save is done.
Return_Blocks(t) ==
  /\ pc[t] = "returning" /\ Granted(t)
  /\ IF todo[t] \subseteq mapped
     THEN /\ pc' = [pc EXCEPT ![t] = "saving"]
          /\ guard' = [guard EXCEPT ![t] = Least(todo[t])]
          /\ UNCHANGED onWorker
          /\ UNCHANGED <<kind, todo, arcs, locked>>
     ELSE Ends(t)
  /\ UNCHANGED <<policyVars, mapped>>

\* docs.get(..).sync_kv().persist().await: the reference is kept, the thread
\* is not.
Return(t) ==
  /\ pc[t] = "returning" /\ Granted(t)
  /\ IF todo[t] \subseteq mapped
     THEN /\ pc' = [pc EXCEPT ![t] = "saving"]
          /\ guard' = [guard EXCEPT ![t] = Least(todo[t])]
          /\ onWorker' = onWorker \ {t}
          /\ UNCHANGED <<kind, todo, arcs, locked>>
     ELSE Ends(t)
  /\ UNCHANGED <<policyVars, mapped>>

\* The store has answered, and a thread is free to let the reference go.
Saved(t) ==
  /\ pc[t] = "saving" /\ Granted(t)
  /\ Ends(t)
  /\ UNCHANGED <<policyVars, mapped>>

\* docs.insert.
Insert(t) ==
  /\ pc[t] = "inserting" /\ Granted(t)
  /\ mapped' = mapped \cup todo[t]
  /\ Ends(t)
  /\ UNCHANGED policyVars

\* has_external_refs: somebody has a copy of the Arc, or a subdocument that is
\* loaded, or about to be, keeps its parent.
HasExternalRefs(d) ==
  \/ \E t \in Tasks : d \in arcs[t]
  \/ \E c \in Docs \ {d} : Parent[c] = d /\ (c \in mapped \/ Loading(c))

\* docs.remove_if.  Compaction then locks an awareness nobody else can reach.
Remove(t) ==
  /\ pc[t] = "removing" /\ Granted(t)
  /\ mapped' = mapped \ {d \in todo[t] : ~HasExternalRefs(d)}
  /\ Ends(t)
  /\ UNCHANGED policyVars

-----------------------------------------------------------------------------
TaskStep(t) ==
  \/ \E d \in Docs : Use(t, d) \/ Load(t, d) \/ Collect(t, d) \/ Commit(t, d)
  \/ \E S \in SUBSET Contents : Move(t, S)
  \/ Look(t) \/ Lock(t) \/ Callback(t) \/ Leave(t)
  \/ Return(t) \/ Saved(t) \/ Insert(t) \/ Remove(t)

Next == \E t \in Tasks : TaskStep(t)

Spec == Init /\ [][Next]_vars

-----------------------------------------------------------------------------
(* Properties *)

\* Tasks each of which waits for others of them, for ever: nobody in the set
\* can go on, whatever the others do.
Wedged(B) ==
  /\ B # {}
  /\ \A t \in B : /\ Blockers(t) \cap B # {}
                  /\ pc[t] = "saving" => Blockers(t) \subseteq B

\* "Readers may hold a docs shard then wait for awareness READ (AB/BA
\* deadlock)" (server.rs:3274): tasks that let the shard go before they
\* lock the awareness, and moves that lock several in their order, never wedge
\* among themselves, with loads, GC and the callback's look at `docs`, whatever
\* the locks do with waiting writers.  Every wedge has a task in it that keeps a
\* reference into `docs` while it waits for a lock, or for its save.
WedgeNeedsAReference ==
  \A B \in SUBSET Tasks : Wedged(B) => \E t \in B : guard[t] # None

\* Where a shard lets readers in ahead of waiting writers, as search_deadlock.rs
\* says of DashMap (line 478, against line 610), the callback never waits, and
\* only a reference that is kept across an await, the edit tool's while it
\* saves, can wedge the server: writers of the shard hold the threads it needs.
WedgeNeedsASave ==
  "shard" \notin queueBars =>
    \A B \in SUBSET Tasks : Wedged(B) => \E t \in B : pc[t] = "saving"
=============================================================================
