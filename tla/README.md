# Lens relay: a verification project in TLA+

This directory models the Lens relay server (`src/crates/relay`,
`src/crates/y-sweet-core`): how documents live in memory, reach the store and
are collected and loaded again; how the derived indexes, the folder tree, the
path resolver and the wikilinks follow them; how clients, events and an
assistant's edits meet them; who waits for whom; and what brings a server down
that no longer works. TLC checks the models on small instances; TLAPS proves the
safety properties of nine of them for every value of the constants.

`PROJECT.json` lists the components, the runs and the properties each checks,
the mutants that show that each property can fail, the source lines of every
definition, the findings, the hazards of the code, and the theorems.

## 1. The system

The relay is a Rust server for collaborative documents (Y.js documents, `yrs`
on the server). Editors connect over WebSockets, AI assistants over MCP, an
HTTP API creates and moves documents. A document is content (a `Y.Text`) or a
folder (a map from paths to document ids, `filemeta_v0`).

| Component | Code | State | Operations |
|---|---|---|---|
| SyncKv | `y-sweet-core/src/sync_kv.rs` | key-value data and metadata, each behind a mutex; `dirty`, `shutdown` | `upsert`, `remove`, `remove_range`, `set_metadata`, `update_metadata`, `mark_dirty`, `persist`, `shutdown` |
| Document | `doc_sync.rs` | the Y.Doc in an awareness `RwLock`, its SyncKv, the subscription between them | load, edit, `has_external_refs`, channel and subdocument metadata |
| Server: documents | `relay/src/server.rs` | `docs` map; per document a persistence worker and a GC worker; cancellation token | `get_or_create_doc`, `load_doc_with_user`, `doc_persistence_worker`, `doc_gc_worker`, `gc_compact_and_remove` |
| Search worker | `server.rs`, `search_index.rs`, `suggestions_index.rs` | pending map (generation, watermark, lease), suggestions index, full-text index | update callback, fast and heavy lane, `search_handle_content_update`, suggestion apply |
| Folder metadata | `server.rs`, `doc_resolver.rs` | `filemeta_v0` and the legacy map `docs` of each folder document; resolver rows | create, move, rename, blob files; update and rebuild of the resolver |
| Link indexer | `link_indexer.rs` | pending map, folder metadata cache, backlinks in folder documents | index a document, detect renames, rewrite links, move |
| Connections | `doc_connection.rs`, `sync/`, `handle_socket` | subscriptions, client states with clocks, outgoing channel, first client id | sync messages, presence, registration of client ids, closing |
| Events | `event.rs`, `doc_sync.rs` | debounced queues per document and user; the parent's subdocument index | enter a state vector, merge, send, query |
| MCP | `relay/src/mcp/` | sessions, which documents a session has read | initialise, tools that read and edit |
| Locks and threads | `server.rs`, `link_indexer.rs`, `doc_resolver.rs`, `mcp/tools/` | the shards of `docs`, the awareness locks, tokio's threads | look up, lock, commit, move, load, collect, edit and save |
| Supervision | `supervisor.rs`, `worker_status.rs`, watchdog in `server.rs` | panic times, alive flags, two timestamps | restart, give up, stop the process |
| Tokens, stores, configuration | `auth.rs`, `cwt.rs`, `share_token.rs`, `store/`, `stores/`, `config.rs` | none, or I/O | checks, reads, writes |

How they interact. A request finds its document in `docs` or loads it. An edit
takes the awareness write lock; the transaction's commit calls the observer,
which copies the update into the SyncKv (dirty flag, wake-up for the
persistence worker) and calls the event callback, which updates the parent's
subdocument index, dispatches an event, and queues the document for the link
indexer and the search worker, with a strong reference (a lease) that keeps GC
away. The same commit sends the update to the outgoing channels of the
document's connections. The workers poll their pending maps. The GC worker of a
document counts checkpoints at which nobody holds the awareness, then takes the
document out of the map, compacts it and shuts its SyncKv down, which ends its
persistence worker after one more save. Handlers that create and move files
change folder documents under their locks, persist them one by one, and bring
the resolver up to date last; the link indexer's worker does the same for what
clients change. The watchdog reads the timestamps of the last change and the
last save.

What is hard about it. Flags and signals that a slow write can swallow; two
tasks that persist the same document; a document loaded by two requests at once,
or again while the former instance still has something to save; counts that are
sampled and used later; acknowledgements of work that has changed meanwhile;
paths checked under one lock and written under another; a change of two
documents that is saved in two writes; names cached in one pass and used in the
next; messages that overtake an answer, or find their channel full; timers
aborted at whatever await they have reached; locks of two kinds asked for in
either order, on threads of which there are two; a store that fails, before or
after it took the snapshot. The hazards in `PROJECT.json` list these at their
lines.

## 2. Modules

| Module | What it is | Run |
|---|---|---|
| `DurableDoc` | what a document's persistence promises, with none of its machinery | |
| `SyncKv` | `sync_kv.rs` at the grain of its locks and atomics | `sync_kv`, `overlapping_persists` |
| `DocLifecycle` | one document loaded, edited, saved, collected, loaded again | `lifecycle`, `lifecycle_liveness` |
| `SearchQueue` | the pending map, the search worker, the handlers, GC's evictions | `search_queue` |
| `Folders` | folder documents, the requests that change them, the resolver, restarts | `folders` |
| `LinkIndexer` | links, backlinks, the indexing worker, the rewriting of a move | `link_indexer` |
| `Connections` | the WebSocket connections of one document, and its clients | `connections` |
| `Events` | subdocument index and debounced events of one parent | `events` |
| `Suggestions` | the edit tool on a text with suggestions in it, and its sessions | `suggestions` |
| `DocLocks` | the locks of the document map and of the documents, the threads | `locks` |
| `Supervision` | panic budget, watchdog, the end and restart of the process | `supervision` |
| `SavingProofs`, `DocLifecycleProofs`, `SearchQueueProofs`, `FoldersProofs`, `LinkIndexerProofs`, `ConnectionsProofs`, `EventsProofs`, `DocLocksProofs` | invariants, proved (`SavingProofs`: of `SyncKv` and of `Supervision`, what saves and what watches over saving) | |
| `MC...` | definitions and symmetry sets for TLC | |

### SyncKv

`content[f]` counts the changes of field `f` (the data, or the metadata);
`stored` is the content of the store's snapshot. A mutator takes the field's
mutex and changes it (`Mutate`), then runs `mark_dirty` under the mutex:
`CheckShutdown`, `RaiseDirty`, `FireCallback`, which also drops the guard.
`remove_range` is the exception, entry by entry (`RemoveEntry`). `persist()` is
`Claim` (the swap), `ClearDirty`, `TakeSnapshot` (under both mutexes),
`StoreApplies` and `StoreAnswersOk`, or `Fails` and `SignalRetry`; `Fails` may
come after the store took the snapshot. The caller is the persistence `Worker`
or one of the request `Handlers`. The worker's loop is `Call` and `Return`:
`Awake` decides `is_done` as the `select!` does (a signal: no; the timer: when
`shutdown`; the token: yes), and a worker that is done ends after that persist,
whether or not it succeeded, with its end of the channel (`Open`). `marked` is a
history variable: what `mark_dirty` has accepted. `DurableDoc` is implemented
with `mem <- content`, `promised <- marked`, `durable <- stored` and `closed` for
the end of the worker; until then the store catches up again and again.

The atomics are relaxed in the code, the model is sequentially consistent: the
flag is raised after a change made under a mutex and before the mutex is let go,
and lowered before the copy is made under the same mutex, so the mutex orders
the two. `remove_range` raises the flag outside it, but the change it reports
was made under it before; a copy that missed the change was made before it, and
so was the lowering of the flag. A SyncKv without a store, a test configuration,
is not modelled.

### DocLifecycle

One document. An *instance* is what a load makes: Y.Doc, SyncKv, subscription,
two workers. A content is the set of edits it has seen. The variables that are
functions of `Instances` are the fields of one load; `docs` is the entry of the
map, `store` the stored snapshot. `Lookup`, `Get`, `ReadStore`, `FirstPersist`,
`Insert` are the steps of `get_or_create_doc` and `load_doc_with_user` between
which other tasks run. `Wake`, `BeginSave`, `SaveOk`, `SaveFails` are the rounds
of `doc_persistence_worker`, whose `is_done` is decided when it wakes. `Sample`,
`Remove`, `Compact`, `Close` are the GC worker. `Cancel` is the server's
cancellation token. Loads overlap, as nothing in the code keeps them apart, and
none waits for a former instance's worker. Three history variables follow what
that does: `newest` is the instance put in the map last, `replaced` the ones whose
entry another load's insertion took over, and `exposed` the edits a race of loads
or a late save puts at risk (section 4).

### SearchQueue

A body is the number of changes it has seen, and an index holds the body it was
made from. `generation`, `scanned`, `leased` are the fields of a pending entry;
`older[d]` is the set of entries with an earlier `first_queued`, all that the
sort needs of it. A writer changes a document under its lock (`Change`), the
callback queues it (`Callback`), the lock is let go (`Unlock`), for the apply
endpoint after it has stored the new suggestions. A handler of the kind `write`
then indexes the document itself (`HandlerReads`, `HandlerStores`,
`HandlerAdds`). The worker's tick copies the pending map and chooses its lanes
(`Tick`), then works through them: read under the lock, store the suggestions
under the lock, the full text outside, acknowledge. Time is left out: `Tick`
chooses which entries are ready and which of them are paused, and how many slots
the folder documents leave.

### Folders

A folder document has its two maps (`meta` for `filemeta_v0`, `docs` for the
legacy map), and a stored copy. A handler is a program counter: `CreateBegins`
looks at the path and makes the content, `CreateWrites` puts the entries under
the write lock (without looking again), `Save` persists a folder document,
`CreateUpserts` writes the resolver's row after the lock is gone, `Answers` ends
the request. `MoveBegins`, `MoveApplies`, `Queues` are a move of a document; the
folder move works through a plan that it has read at its beginning
(`FolderMoveBegins`, `FolderMovesDoc`, `FolderMoveEnds`) in the folder where it
began (`home`), then rebuilds the resolver. `WorkerTakes`, `WorkerRemoves`, `WorkerRebuilds`, `WorkerAcks` are the
link indexer's worker as far as the resolver is concerned: `update_folder`
removes a folder's rows and builds them again, and readers run in between.
`BackgroundSaves` is any persistence worker, `Crash` a restart from the store.
`owed` holds the documents that a request was told exist, `safe` those whose
saves were answered `Ok`.

### LinkIndexer

A document has at most one link (links are treated one by one) and sits in a
flat folder. `Resolve` finds a link's target as `resolve_in_virtual_tree` does,
relative first, then by the folder's path; `Relative` writes the link to a file.
The worker's pass is a sequence of steps (`Takes`, detection against `cache`,
`TakesRename`, `Rewrites` of one backlinker, `Reads` the links of a content
document, `Writes` its backlinks, `Acks` by generation), and it may panic before
each. A move does everything at once under the locks it holds, after it has
loaded what it needs; `Held` numbers the locked documents as the code does.
`meant` is what the author of a link had in mind when it was written: the
document it found then. `adrift` and `missed` hold the documents of which
section 4 says that the code does not keep them; they are what a reader should
look at first, for they say where the promises end.

### Connections

`Opens` subscribes and sends the first messages of the handshake; `Handles`
takes the next message of a connection: `Answers` (SyncStep1), `Applies`
(SyncStep2, Update), `Hears` (presence), each with the broadcast that its
transaction sets off, and with the answer that goes to the channel afterwards in
a step of its own (`Replies`), so that broadcasts overtake it. A channel that is
full drops what does not fit. `Ends`, `Drops` clear the presence whose id came
first. A presence is known by the clock with which its client set it; `states`
and `clocks` are Awareness's two maps. `IsCut` breaks a connection without a
Close frame.

### Events

The callback of an update runs in its steps: `Entered` reads and writes the
parent's index, in two lock acquisitions, `Dispatches` spawns a task per event.
A task is `queue_event`, one await at a time (`Gets` a queue, `Cancels` its
timer, `Stores`, `Checks` the rate limit, `SendsNow` or `Spawns` a timer and
`Keeps` its handle); a timer sleeps, takes what is pending, sends it, marks the
time, and can be aborted at each await. `Forgets` drops an idle queue. An event
and the answer of a query may find the connection's channel full (`Sends`,
`Responds`). `Collects` is GC, with a compaction that changes the document or
not; `Restarts` leaves each document and the index at any version they have had.
The client subscribes, queries the index, and fetches what differs.

### Suggestions

A document is a sequence of spans, a plain span or a suggestion with two sides.
`merge_edit` is translated operator by operator: the segments of the range, the
regions of the word diff, the suggestions they touch, the replacement. The word
diff is external: `Diffs` is any alignment that a longest common subsequence of
words allows. `Begins` is the edit tool up to its write lock, `Applies` the rest,
with a check that the text is still there; people type, accept and reject in
between.

### DocLocks

A task is where it is in its operation (`pc`), what it keeps (`guard`, a
reference into `docs`; `arcs`, copies of the awareness; `locked`), and whether it
occupies one of `Workers` threads. `Request` is the lock it asks for, `Blockers`
the tasks that keep it waiting; every step that takes a lock needs `Granted`.
`Look` is `docs.get`, `Lock` the awareness lock, `Commit` and `Callback` the
parent's lookup inside it, `Return` and `Saved` the save of an edit, with the
reference kept and the thread given back; `Insert` and `Remove` take a shard for
writing. Which locks make readers wait behind a waiting writer (`queueBars`) is
chosen in the initial state, since the comments of the tests disagree
(`search_deadlock.rs:478`, `:610`). A set of tasks is `Wedged` when each of them
waits for another of the set, whatever the rest does. An operation is one of
`TaskKinds`; `KeepsGuard` are those that keep their reference while they wait for
the awareness: readers (`look`: the tools, `get_doc_as_update`, the readers of
folder names, `update_folder`), writers of any document (`update`: the HTTP
update), and the edit tool, which also saves (`edit`). The pending maps, the
resolver's maps and a SyncKv's mutexes are not among the locks.

### Supervision

Time goes in ticks of a checkpoint. `Panics` is `supervise`: count, window,
budget, and after the budget the exit with its delay. `DocStep` is a document's
persistence worker in a tick: it persists, fails or hangs, which raises
`lastPersist` or `lastDirty`. `Watches` is the watchdog's look, at any time of a
tick. `Restarts` is the container's restart, with every timestamp at 0 again,
which is 1970 (`Never`).

## 3. Runs

| Run | Question | Bounds |
|---|---|---|
| `sync_kv` | does the worker alone keep every promise, and implement `DurableDoc`, liveness included? | 2 writers, the worker, 2 changes per field |
| `overlapping_persists` | is a clean document stored? Not with a handler that persists beside the worker | 1 writer, the worker, 1 handler |
| `lifecycle` | does anything get lost between load, edit, save, GC and reload? | 2 clients, 1 edit, 2 instances |
| `lifecycle_liveness` | do workers end, do unused documents leave? | 1 client, 1 edit, 2 instances |
| `search_queue` | are the indexes current, monotone, fair, and does the queue drain? | 2 documents, 1 writer, 2 changes each, one slot in either lane |
| `folders` | is a file at one place, do the maps agree, is the resolver right? | 2 folders, 3 files, 2 directories, 2 handlers, 2 operations, 1 crash |
| `link_indexer` | are backlinks right, do links follow, do rewrites keep their meaning? | 2 folders, 2 documents, 2 names, 3 operations, 1 panic |
| `connections` | do documents and presences agree in the end? | 2 clients, 2 connections, channel of 4, 1 edit each, 2 presences, 2 disturbances |
| `events` | does the index follow, does a client miss anything? | 2 documents, 2 changes, 2 queues each, 3 loads, 1 query, restarts before the last load |
| `suggestions` | does an edit do what was asked, and nothing else? | 3 documents with 1 or 2 suggestions, 2 sessions, 2 edits of up to 3 characters, 1 human operation |
| `locks` | what does it take to wedge the server? | 3 tasks, 2 threads, 4 documents of which 2 folders, 2 shards |
| `supervision` | does a burst end the process and a trickle not, is a stall noticed? | 1 worker, 2 documents, budget 3, every delay 1 tick, 5 ticks |

Why these bounds are enough. *Persistence:* two changes per field let one be in
a copy and one not, on either side of every step of a persist; two writers let
one of them be between change and flag while the other is at rest. Two instances
are one generation and its successor, or two loads at once, which is all a race
of loads involves: no action reads a third. One edit is either side of every save
and load; that edits do not disturb one another is the proofs' business, as are
more instances. *Search:* two documents and one slot put one of them in the heavy
lane and leave the other to the fast lane; two changes of one of them while the
other waits show starvation if the order is wrong; one writer meets the worker and
GC, and more of them are the proofs' business. *Folders:* two handlers and
two operations make every pair of requests meet, and a request and a client; two
folders are a move's source and target; the third file is one to be displaced
or created. *Links:* two documents and two folders are a source, a target, and
a link that crosses; three operations are a change, a second one while the
worker is at the first, and a third after its pass. *Connections:* two clients
are a speaker and a listener; the channel of 4 is smaller than a handshake and
the changes of both, so that it overflows; two connections let one client come
back with the other gone. *Events:* two changes are one being sent while the other
arrives in the same queue, or one in either document, whose writes of the index
overlap; two queues are a dropped one and its successor; three loads are both
documents before a restart and one after it. More changes are the proofs' business.
*Suggestions:* the documents begin with suggestions of several words, beside each
other or with plain text between, and with pending insertions and deletions;
three characters over words and spaces let an edit begin and end inside, at the
border of, and outside two of them, and the text that is compared grows by what
they have beyond it, so that one suggestion lies in several regions of the diff.
The two exceptions occur, a word across two suggestions and a deletion in the
range. The second edit lands on what the first has made. *Locks:* three tasks are a cycle of two with a writer
that waits between them, or two on the threads and one that has saved and wants
one back; documents in one shard let one task's reference meet another's lookup.
*Supervision:* five panics are two windows of budget 3
and their overlap; proofs cover the rest.

The types of `DocLifecycle`, `Folders`, `Connections`, `Events` and `Supervision` are
proved (section 5), and left out of the runs.

Every passing run is seen to take every action and disjunct of its next-state
relation. `CHECK_DEADLOCK FALSE` is set where the system may rest: a cancelled
server whose workers have ended, or callers who have used up a bound. In `locks`
the system stops where all tasks are wedged: section 4 says that it can.

Fairness. Tasks that have been spawned are run and timers fire (weak fairness of
worker steps), the persistence worker's calls of `persist()` only until it ends;
nothing obliges a client. A store that is asked again and again
answers sooner or later (strong fairness of `StoreApplies`, `StoreAnswersOk`,
`SaveOk`): without that, nothing is ever durable. A lock that is free again and
again is granted (strong fairness of `TakeSnapshot`, and of the reads of the
search worker and the handlers). A pending document becomes ready with time and
stays so, and folders leave a slot now and then (strong fairness of `TickFor`):
the code gives folders the slots first and without debounce, so folders that
change at every poll, as many as there are slots, would break this one; the
hazards say so. The later modules state no fairness: what they promise at rest
(`Quiet`, `Settled`) is a safety property, a wedge is a set of tasks in one state,
and the deadlines of `Supervision` are counted in ticks. That every operation of
`DocLocks` ends is not claimed even where nothing is wedged: readers of a std
`RwLock` may keep a writer out for ever (`search_deadlock.rs:480`).

## 4. Where the code departs from what is promised

One run keeps a disagreement with a comment of the code on file:
`overlapping_persists` (`CleanMeansStored`): two persists of one document write
in the order opposite to their copies; the flag is down and the store lacks an
update until the next change, against `sync_kv.rs:201-203`.

The models contain the other departures met on the way. A property of a passing
run names them by an exception, so that it says exactly where the promise ends:

- *Persistence.* `persist()` answers `Ok` when another call has claimed the flag,
  before anything is stored (`sync_kv.rs:194-196`): a handler's "explicit persist
  for immediate durability" (`server.rs:5067-5069`, `edit.rs:301`) may return
  while the worker's write is under way, and that write may still fail. No
  property of `SyncKv` speaks of a handler's `Ok`; `Folders` has the early answer
  in its saves. A last save that fails is not tried again: once its worker has
  ended, a document is `closed`, and nothing is promised of it any more. Two loads at once: the second entry replaces the
  first, whose clients are alone with an instance nobody else finds and whose edits
  no longer reach the SyncKv (`replaced`). The first's GC worker lives on and may
  remove the second's entry, swapped since its samples, against
  `server.rs:3779-3782`; `MappedIsServed` says that this does no harm. A load
  between GC's removal and the old worker's last save reads the older snapshot, and
  its first persist may overwrite the compaction (`server.rs:3364`, against
  3761-3763). `exposed` names the confirmed edits at risk: those that an instance
  has still to save when the store is read for a load, those made between that
  read and the insertion or on a replaced instance, and those that the late save
  of a former instance overwrites. `EditsSurvive` says that these are all.
- *Search.* A rewrite of links moves positions of suggestions and queues nothing
  (the kind `rewrite` of writers, which the run leaves out).
- *Folders* (`contested`, `misfiled`, `Torn`). An upsert of the resolver first
  removes the row at the path that the document had last, which may be another
  document's row by now (`doc_resolver.rs:196-204`); a move inside a folder takes
  the owner from the row it finds. Two requests that race for a path
  replace an entry silently; a crash between the two saves of a move across
  folders leaves the file in both, or in none; a renamed blob's ancestors are not
  created; the end of a folder move writes back entries it has read before; a
  create's resolver row may come after the worker's pass and stay stale
  (`server.rs:1556`, against the comment at 2541).
- *Links* (`missed`, `adrift`). A change of membership queues loaded documents
  of the same folder only, and a pass with renames, an emptied or a new folder
  queue none; a name changed and changed back between two passes is not seen;
  backlinkers that are not loaded are skipped; a panic after the detection loses
  its renames; a swap of two names rewrites a link twice; the backlinks of a
  deleted source stay; a move across folders that does not find a document
  loaded rewrites its neighbours with each other's contexts (`server.rs:2455`).
  A pass over a backlinker that read the tree before a move across folders records
  its link, after the move, in the folder that the document has left
  (`link_indexer.rs:1856`), where the next rename does not look for it
  (`link_indexer.rs:1550`); `Kept` asks for a record in the document's own folder.
- *Connections* (`cut`, `lossy`, `Hidden`). A connection that breaks without a
  Close frame keeps its presence, and the server keeps the connection: the loop
  ignores the end of the stream (against `doc_connection.rs:54-55`, an expired
  token is noticed with the next message only). A client that comes back with the
  clock it left with stays hidden behind its removal. A full channel drops
  updates until the next handshake. After a restart, an edit that another client
  brings back is registered under that client's user.
- *Events* (`strays`, `outdated`, `misled`). A document routes by the channel of
  the request that loaded it (`server.rs:3195-3197`), not by its metadata
  (`docs/cwt-channel-claims.md:356`); the index is read, changed and written back
  without a lock of its own, and a query writes back what it read; a client that
  queries before it subscribes has a window between the two. The parent's worker
  saves the index and a document's worker the document, so that a crash leaves
  one behind the other; the compaction of GC changes a document and suppresses the
  callback that would enter it and tell the clients (`doc_sync.rs:85-97`): either
  way the entry is outdated until the document's next change. An event, or an
  answer, that finds the channel of 1024 messages full is dropped, with a line in
  the log (`server.rs:4619`), and no handshake brings it back. The model takes any
  earlier versions for those a restart finds, and the last save of a collected
  document to succeed. Merged events carry
  the first one's id and user; the rate limit may be passed by two tasks at once.
- *Suggestions* (`WordsApart`, `NoDeletions`). A pending deletion inside an
  edited range is dropped; a word that spans two suggestions doubles its text.
- *Locks* (`KeepsGuard`, the state `saving`). The callback looks in `docs` under
  the awareness write lock (`server.rs:3236`), against the comment of the same
  callback at 3272-3275; that is safe as long as nobody waits for an awareness
  with a reference into `docs` in hand, the rule of `permanent_user_data.rs:16-19`
  and `server.rs:3769`. Tools and handlers do: `read.rs:61`, `grep.rs:203`,
  `get_links.rs:58`, `edit.rs:249`, the HTTP handlers that read and update a
  document (`server.rs:4289-4294`, `4351-4356`), `all_folder_names` (1280-1284),
  `folder_name_for_uuid` (1300-1304), the folder move (2815, 2855), the list of
  suggestions (4871), and `update_folder` (`doc_resolver.rs:178`). One of them, a subdocument's writer in its callback, and a load or a
  collection that waits for the shard wait for each other where a shard's waiting
  writer bars readers. Where it does not, the edit tool's reference kept across
  `persist().await` (`edit.rs:303`, `389`) is enough: writers of the shard hold
  every thread, and the save that has ended has none to let go of the shard.
- *Supervision.* The windows of the panic budget do not overlap, so a burst over
  two windows may reach almost twice the budget; any loaded clean document's
  worker reports a successful persist at every checkpoint and hides a document
  that fails; a healthy server with no loaded document for more than ten minutes,
  or just started, may be stopped at the first edit before its first save.

## 5. Proofs

`SavingProofs` on `SyncKv`, for any number of writers and any bound on changes:

- `TypeCorrect` and `NoLostWakeUp` hold for any number of persisters.
- `NothingForgotten`, `CleanIsStored` and `Implementation` assume that only the
  worker persists (`OnePersister`); the violation run shows the need. The
  inductive invariant says what each step of a persist knows: between claim and
  copy everything accepted is still to be copied; after the copy, what it lacks
  has raised the flag again; the copy is never behind the store.
  `Implementation` shows that initial states map to initial states and each step
  to a step or a stutter of `DurableDoc`.

`DocLifecycleProofs`, for any number of clients, edits and loads:

- `TypeCorrect`, and `HoldersKeepTheirDoc`, `NoEditBypassesSyncKv`,
  `RequestsFindALiveDoc`, `WorkersLeaveNothing`, however loads overlap. The
  invariant adds to them what keeps the instances apart: a load has an instance of
  its own until it inserts it, once (`Loads`); an instance that was inserted is in
  the map, was replaced in it, or was taken from it by one GC worker (`Places`,
  `Takes`); only a replaced one leaves holders behind (`Holders`); its subscription
  is gone if and only if it was replaced or closed, and it is shut down only when
  closed (`Alive`); its workers end with that or with the server (`Workers`); and
  the flag with the worker's copy accounts for everything in the SyncKv (`Saves`).
- `ConfirmedEditsSurvive` follows each edit that is not `exposed`: it is in the
  newest instance, in every instance a load has read and not yet inserted, and in
  the store or owed by a worker (`Kept`). A load finds it in the store, since no
  instance owed it then; a late save has it in its copy, or exposes it.

`SearchQueueProofs`, for any number of documents, writers and changes and any
lane sizes, in layers, each inductive given those before it:

- `TypeCorrect`: types, with who holds which lock (`Places`).
- `LeaseProtocol`: a queued document is leased, hence loaded (`Leases`); it is
  what excludes that the worker acknowledges a document it did not find.
- `ForwardOnly`: what is scanned is the current body, since the lock is held
  until the scan is stored (`Readers`).
- `SuggestionsFollow`, `MarkIsTrue`, `SearchFollows` assume that no change is a
  rewrite (`NoRewrites`). The copied generations are never ahead of the pending
  map (`Copies`), so that a generation that has not moved since the copy means a
  body that has not (`Marks`, `Indexed`).
- `NobodyStarves`, where the documents are finitely many. The queue is an order
  (`older`), and a tick that passes a document over takes one that is before it.
  Who is taken waits for nobody, and is behind when it comes back: the times a
  document was passed over and the entries still before it, those in the lane
  left out, add up to less than the documents there are (`Turns`).

`FoldersProofs`, for any number of folders, files, paths, handlers and operations,
in layers (the assumptions are `FoldersAssumption`, `BoundsAssumption` and
`Tree0Assumption`, what the constants and the initial tree are):

- `TypeCorrect`: types, with what a handler holds at each of its steps (`Typed`).
- `FilesAreListedOnce`. That a file is listed once, and kept by a restart, needs
  to know where the stored copies have it as well: for every document without a
  race, where the folder documents and the copies list it, what a request is about
  to promise of it, which of its saves are missing (`AllTraced`).
- `MapsStayInSync`: the two maps agree, in the stored copies too (`InSync`).
- `ResolverFollows`. What the resolver still owes a folder depends on what is
  under way there: a request that has yet to queue it, a pending entry, a pass of
  the worker that has removed the rows and not built them, a rebuild (`InRows`).

Two steps of the proof failed because the model was wrong. A folder move kept its
folder in a field that the moves of its documents overwrite, so that it could end
in another one; the code ends in the folder it began with (`home`). And an upsert
left out that it takes away the row at the document's last path, whosever that is
by now (section 4).

`LinkIndexerProofs`, for any number of folders, documents and names, any first tree
and links, any changes and panics. The assumption (`LinkIndexerAssumption`) says
that `None` and `Here` are none of the values they stand beside, and that no two
files of the first tree share a path. Every property of the module is proved, in
layers:

- `TypeCorrect`: types, with what the worker and the move hold at each of their
  steps (`Typed`); a path has one file, and a queued document is loaded.
- `BacklinksFollow`. For every document that no pass over a folder has
  overlooked (`Accounts`): its backlinks are those of its text, or it will be read
  again (`DocOwed`), or a folder has yet to be looked at, after which it is
  overlooked or not (`TreeOwed`), or the pass under way is recording it from a
  list of entries that is still the tree, with the folders done so far already
  right (`Recording`). The pass takes its list of folders when it begins; a folder
  that has come since is owed to it (`Seen`), and a change of the tree between two
  scans of a pass leaves an entry behind that outlives the pass (`Unlooked`).
- `LinksAreKept`, `MeaningIsKept`. For every document that is not `adrift`
  (`Follows`): its link leads to what its author meant, or leads to where that was
  before the rename that the indexer has still to apply, and waits for it, in a
  folder's cache, in the worker's list, or among the sources it is rewriting
  (`Waits`). At most one rename is under way, and nothing is at its old path
  (`Lone`), which is why a link that waits leads nowhere else; and the worker's
  patched snapshot has every document, with the old path for the renamed one
  (`Pictured`), so that the rewrite knows the link when it comes to it.

What a move takes for one document's lock may be another's: that the number it
is found by always belongs to a loaded document, for any set of needed documents,
is counted once (`EveryRank`, `HeldIs`).

The proof of `LinksAreKept` failed where `Kept` accepted a record in any folder;
TLC then showed, with three folders, the move that overtakes a pass (section 4).
The small instance, of two folders, has no room for it.

`EventsProofs`, for any number of documents, updates, queues, loads and queries:

- `TypeCorrect`: types, with whose queue a task holds (`Owned`), and that only an
  update whose callback has ended has a task (`Fresh`).
- `IndexFollows`. An entry that is not outdated lacks at most the update whose
  callback has yet to write (`Entries`); a write of an older copy leaves an entry
  as it is, or makes it outdated.
- `ClientsCatchUp`. An update is the client's, or in the hands of its callback, of
  its task or of a queue (`InHand`), and stays in hand while the client is
  subscribed. A queue with updates in it has a task or a timer that will send
  them, since whoever aborts a timer sends, or starts a timer, himself
  (`Carried`). What is sent goes to the parent (`Routing`), and what was not in
  hand when the client asked is in the answer or in what it fetches (`Caught`).

`ConnectionsProofs`, for any number of clients, connections and changes, and any
capacity of the channels that has room for the two messages of the greeting
(`None` is no client and no number, `Clients` is finite):

- `TypeCorrect`: types, with the capacity of every outgoing channel.
- `EveryoneConverges`. What is on its way covers what a client and the server do
  not share (`Agrees`). A change that the client lacks is in a message to it, or
  the client's question is still to be answered (`Down`, unless the connection
  has lost a message); a question names no more than the client has (`Asking`);
  one that the server lacks is in a message to it, or the server's question is
  still to be answered (`Up`, where the client may write); and nothing is sent
  that the server does not have (`Outgoing`). So an answer that waits in `reply`
  loses nothing to the broadcasts that overtake it.
- `PresenceIsTrue`, in layers again. Nothing that is said of who is present is
  ahead of what the server knows, but for what a client says of itself
  (`Truthful`): an echo of another client's presence changes nothing. The first
  lone presence on a connection is its own client's (`Latches`), and an open
  connection without its client has the `Close` on its way (`Parts`), so whoever
  is present has a connection that will remove it (`Guarded`). Where a served
  client and the server differ on its presence, the server's removal is on its
  way to the client, which objects, or the client's setting to the server
  (`Seen`).

`DocLocksProofs`, for any number of tasks, documents, shards and threads:

- `TypeCorrect`: types, with the threads taken counted.
- `ReferencesOnly`, `SavesOnly`. The invariant says where a task may keep what
  (`TaskOK`): a reference only in the kinds of `KeepsGuard`, locks only while it locks or is inside,
  and those it has locked come before those it has yet to lock. In a wedge
  without a reference nobody keeps a shard, so no writer of a shard waits, and no
  reader behind one; all wait for awareness locks, and the one that waits for the
  last document any of them waits for is kept waiting by a task that waits for a
  later one. With readers let in nobody waits to read a shard, and writers of a
  shard wait for a task that waits for an awareness, unless it saves: the same
  argument ends it.

`SavingProofs` on `Supervision`, for any number of workers and documents and any delays with
`Grace <= Stale`:

- `BudgetIsKept`. The counter alone does not say which panics it counts. The
  invariant does: they are the last ones, all within `Window` of `first`
  (`Counted`), in the order of time (`Ordered`), and a window begins more than
  `Window` after the panic `Budget - 1` before its first (`Separate`), which is
  what bounds a burst over two windows; the last panic is the one that spends the
  budget (`Ending`).
- `WatchdogNotices`. A document that fails raises `lastDirty` in every tick in
  which its worker has looked (`Tried`); the watchdog's next look is never
  further away than its period (`Timely`), and when it comes the two timestamps
  tell (`Unlooked` before its first look, `Looked` after it).

Model-checked only: liveness under fairness and the liveness half of the
refinement, which the prover does not reach; and the properties of `Suggestions`,
which are about sequences built by folds: that is induction over data.

## 6. Not modelled

- The CRDT (`yrs`), tantivy, the word diff: libraries. Merging is union, an index
  holds the body it was given, a diff is any that is allowed.
- Token formats, signatures and share links (`auth.rs`, `cwt.rs`,
  `share_token.rs`): sequential checks without state. What an expired token and
  read-only access do to a connection is in `Connections`.
- The stores' I/O, configuration, metrics, the command line: the models use what
  `Store::set` promises.
- Webhooks: a channel, a worker and one HTTP call without a retry.
- `critic_scanner.rs` and the surgery of the apply endpoint: sequential work on
  offsets. The apply endpoint itself is an action of `SearchQueue`.
- The signing service, the Cloudflare worker, the web editor and its server:
  separate programs.
- The shards of the pending maps and of the resolver's maps, and the mutexes of a
  SyncKv, are not among the locks of `DocLocks`.
- Handlers' explicit persists in `DocLifecycle` (they are in `SyncKv`), a panic in
  the compaction, a server with GC switched off.

What would come next: an abstract document store that `DocLifecycle` implements
up to `exposed`; `SearchQueue` composed with `DocLifecycle`, leases as
holders; the pending maps among the locks of `DocLocks`.
