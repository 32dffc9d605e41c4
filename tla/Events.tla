-------------------------------- MODULE Events --------------------------------
(***************************************************************************)
(* What an update of a document sets off besides its own connections: the  *)
(* event callback of relay/src/server.rs, the index of subdocuments that   *)
(* y-sweet-core's doc_sync.rs keeps in the metadata of the parent, and the *)
(* debounced delivery of event.rs to the connections of the parent.        *)
(*                                                                         *)
(* The documents Docs are subdocuments of one parent: a document that is   *)
(* loaded with the parent as its routing channel enters its state vector   *)
(* in the parent's index and sends its events to the parent's connections. *)
(* Every event runs as a task of its own, which merges what is pending and *)
(* sends it at once or leaves that to a timer.  A task gives way wherever  *)
(* it awaits a lock.                                                       *)
(*                                                                         *)
(* A state vector is the number of updates; an update is the pair of its   *)
(* document and its number.  One client is connected to the parent; it is  *)
(* external: it subscribes, asks for the index, and fetches the documents  *)
(* whose entry differs from what it has.  The index is saved with the      *)
(* parent and every document by itself: after a restart they are of        *)
(* different ages.                                                         *)
(***************************************************************************)
EXTENDS Naturals, FiniteSets, FiniteSetsExt

CONSTANTS Docs, None,
          MaxUpdates,  \* bound: updates of one document
          MaxChanges,  \* bound: updates of all documents
          MaxQueues,   \* bound: queues made for one document
          MaxLoads,    \* bound: loads of documents; no restart after the last
          MaxQueries   \* bound: queries of the index

Updates == Docs \X (1..MaxUpdates)
Queues  == Docs \X (1..MaxQueues)
Vectors == [Docs -> 0..MaxUpdates]

Callbacks == [step : {"write", "dispatch"}, copy : Vectors]
Lookups   == [step : {"read", "write"}, answer : Vectors, copy : Vectors]

ASSUME EventsAssumption ==
  /\ None \notin Docs \cup Updates \cup Queues /\ IsFiniteSet(Docs)
  /\ None \notin Callbacks \cup Lookups
  /\ MaxUpdates \in Nat /\ MaxChanges \in Nat /\ MaxQueues \in Nat \ {0}
  /\ MaxLoads \in Nat /\ MaxQueries \in Nat

VARIABLES
  loaded,            \* documents: "no", "plain", or "routed" to the parent
  vector,            \* state vectors
  callback,          \* the event callback that runs for a document
  index,             \* the "subdocs" entry of the parent's metadata, 0 for none
  query,             \* the QuerySubdocs that is handled
  task,              \* the queue_event task of an update
  timer,             \* the timer that an update's task has spawned
  current,           \* user_queues: the number of a document's queue, or 0
  base, pending,     \* queues: base_event, pending_updates
  age,               \* queues: time since last_sent
  handle,            \* queues: debounce_handle
  subscribed, have,  \* the client: subscribed, and the updates that it has
  stale,             \* the client: documents to be fetched
  answered,          \* the client: its last query was answered
  misled,            \* history: documents that the client was not told of: the
                     \* entry was outdated when it asked, or an event got lost
                     \* afterwards
  strays,            \* history: documents that were changed unrouted
  outdated,          \* history: entries that a late write undid, that a
                     \* compaction passed by, or that a restart parted from
                     \* their document; until the document's next entry
  loads, queries     \* counters for the bounds

docVars    == <<loaded, vector, callback, strays, loads>>
indexVars  == <<index, query, outdated, queries>>
queueVars  == <<task, timer, current, base, pending, age, handle>>
clientVars == <<subscribed, have, stale, answered, misled>>
vars == <<docVars, indexVars, queueVars, clientVars>>

TaskSteps  == {"none", "get", "cancel", "store", "check", "send", "mark", "spawn", "keep", "done"}
TimerSteps == {"none", "sleep", "send", "mark", "done"}
Ages       == {"never", "recent", "second", "idle"}

TypeOK ==
  /\ loaded \in [Docs -> {"no", "plain", "routed"}]
  /\ vector \in Vectors /\ index \in Vectors
  /\ callback \in [Docs -> Callbacks \cup {None}]
  /\ query \in Lookups \cup {None}
  /\ task \in [Updates -> [step : TaskSteps, queue : Queues \cup {None}, routed : BOOLEAN]]
  /\ timer \in [Updates -> TimerSteps]
  /\ current \in [Docs -> 0..MaxQueues]
  /\ base \in [Queues -> Updates \cup {None}] /\ pending \in [Queues -> SUBSET Updates]
  /\ age \in [Queues -> Ages] /\ handle \in [Queues -> Updates \cup {None}]
  /\ subscribed \in BOOLEAN /\ answered \in BOOLEAN
  /\ have \subseteq Updates /\ stale \subseteq Docs /\ misled \subseteq Docs
  /\ strays \subseteq Docs /\ outdated \subseteq Docs
  /\ \A q \in Queues : pending[q] # {} => base[q] # None
  /\ loads \in 0..MaxLoads /\ queries \in 0..MaxQueries

NoTask == [step |-> "none", queue |-> None, routed |-> FALSE]

Init ==
  /\ loaded = [d \in Docs |-> "no"]
  /\ vector = [d \in Docs |-> 0] /\ callback = [d \in Docs |-> None]
  /\ index = [d \in Docs |-> 0] /\ query = None
  /\ task = [u \in Updates |-> NoTask] /\ timer = [u \in Updates |-> "none"]
  /\ current = [d \in Docs |-> 0]
  /\ base = [q \in Queues |-> None] /\ pending = [q \in Queues |-> {}]
  /\ age = [q \in Queues |-> "never"] /\ handle = [q \in Queues |-> None]
  /\ subscribed = FALSE /\ have = {} /\ stale = {} /\ answered = FALSE /\ misled = {}
  /\ strays = {} /\ outdated = {} /\ loads = 0 /\ queries = 0

-----------------------------------------------------------------------------
(* Documents and the event callback. *)

Ended(u) == task[u].step \in {"none", "done"} /\ timer[u] \in {"none", "done"}

\* load_doc_with_user: a document routes as the request that loads it says,
\* which may have no channel; the parent is loaded and kept along with it.
Loads(d, routed) ==
  /\ loaded[d] = "no" /\ loads < MaxLoads /\ loads' = loads + 1
  /\ loaded' = [loaded EXCEPT ![d] = IF routed THEN "routed" ELSE "plain"]
  /\ UNCHANGED <<vector, callback, strays, indexVars, queueVars, clientVars>>

\* The client is not told of an update, and does not ask any more.
Misses(d) ==
  misled' = IF answered \/ query # None THEN misled \cup {d} ELSE misled

MayChange(d) ==
  vector[d] < MaxUpdates /\ MapThenSumSet(LAMBDA e : vector[e], Docs) < MaxChanges

\* GC removes the document, which takes far longer than a debounce.  What the
\* compaction changes is saved, but neither entered in the index nor sent.
Collects(d) ==
  /\ loaded[d] # "no" /\ callback[d] = None
  /\ \A n \in 1..MaxUpdates : Ended(<<d, n>>)
  /\ loaded' = [loaded EXCEPT ![d] = "no"]
  /\ \/ UNCHANGED <<vector, outdated, misled>>
     \/ /\ MayChange(d) /\ vector' = [vector EXCEPT ![d] = @ + 1]
        /\ outdated' = outdated \cup {d} /\ Misses(d)
  /\ UNCHANGED <<callback, strays, loads, index, query, queries, queueVars,
                 subscribed, have, stale, answered>>

Earlier(versions) == {v \in Vectors : \A d \in Docs : v[d] <= versions[d]}

\* The server ends or crashes, and starts again.  Tasks, queues and connections
\* are gone; each document is what its worker saved last, and the index what
\* the parent's worker did.  Every combination of versions is that of some order
\* of the same updates and saves.  An update that the server has lost counts no
\* longer; who brings it back makes a change.
Restarts(saved, entries) ==
  /\ loads < MaxLoads
  /\ loaded' = [d \in Docs |-> "no"] /\ callback' = [d \in Docs |-> None]
  /\ vector' = saved /\ index' = entries /\ query' = None
  /\ outdated' = {d \in Docs : saved[d] # entries[d]}
  /\ task' = [u \in Updates |-> NoTask] /\ timer' = [u \in Updates |-> "none"]
  /\ current' = [d \in Docs |-> 0]
  /\ base' = [q \in Queues |-> None] /\ pending' = [q \in Queues |-> {}]
  /\ age' = [q \in Queues |-> "never"] /\ handle' = [q \in Queues |-> None]
  /\ subscribed' = FALSE /\ answered' = FALSE /\ stale' = {} /\ misled' = {}
  /\ have' = {u \in have : u[2] <= saved[u[1]]}
  /\ UNCHANGED <<strays, loads, queries>>

\* observe_update_v1, under the awareness write lock, up to the copy that
\* update_subdoc_state_vector takes of the parent's metadata.
Changes(d) ==
  /\ loaded[d] # "no" /\ callback[d] = None
  /\ MayChange(d)
  /\ vector' = [vector EXCEPT ![d] = @ + 1]
  /\ callback' = [callback EXCEPT ![d] =
       [step |-> IF loaded[d] = "routed" THEN "write" ELSE "dispatch", copy |-> index]]
  /\ strays' = IF loaded[d] = "routed" THEN strays ELSE strays \cup {d}
  /\ UNCHANGED <<loaded, loads, indexVars, queueVars, clientVars>>

\* Mutant: an entry that is there already stays.
Entered_Once(copy, d) == IF copy[d] = 0 THEN [copy EXCEPT ![d] = vector[d]] ELSE copy

Entered(copy, d) == [copy EXCEPT ![d] = vector[d]]

\* set_metadata: what others have entered since the copy was taken is undone.
Undone(copy, d) == (outdated \ {d}) \cup {e \in Docs \ {d} : copy[e] # index[e]}

WritesIndex(d) ==
  /\ callback[d] # None /\ callback[d].step = "write"
  /\ index' = Entered(callback[d].copy, d)
  /\ outdated' = Undone(callback[d].copy, d)
  /\ callback' = [callback EXCEPT ![d].step = "dispatch"]
  /\ UNCHANGED <<loaded, vector, strays, loads, query, queries, queueVars, clientVars>>

\* The dispatcher spawns the task; the write lock is given back.
Dispatches(d) ==
  /\ callback[d] # None /\ callback[d].step = "dispatch"
  /\ callback' = [callback EXCEPT ![d] = None]
  /\ task' = [task EXCEPT ![<<d, vector[d]>>] =
                [step |-> "get", queue |-> None, routed |-> loaded[d] = "routed"]]
  /\ UNCHANGED <<loaded, vector, strays, loads, indexVars, timer, current, base, pending,
                 age, handle, clientVars>>

-----------------------------------------------------------------------------
(* DebouncedSyncProtocolEventSender: queue_event, one await at a time.  A   *)
(* document has one user for its events, that of its load: the queues of a  *)
(* document are its own.                                                    *)

At(u, step) == task[u].step = step
Goes(u, step) == task' = [task EXCEPT ![u].step = step]

Gets(u) ==
  LET d == u[1]
      n == IF current[d] # 0 THEN current[d]
           ELSE Cardinality({m \in 1..MaxQueues : age[<<d, m>>] # "never" \/ base[<<d, m>>] # None
                               \/ \E v \in Updates : task[v].queue = <<d, m>>}) + 1
  IN  /\ At(u, "get") /\ n <= MaxQueues
      /\ current' = [current EXCEPT ![d] = n]
      /\ task' = [task EXCEPT ![u].step = "cancel", ![u].queue = <<d, n>>]
      /\ UNCHANGED <<docVars, indexVars, timer, base, pending, age, handle, clientVars>>

\* cancel_pending_task: the timer ends at the await where it is.
Cancels(u) ==
  LET q == task[u].queue
  IN  /\ At(u, "cancel") /\ Goes(u, "store")
      /\ handle' = [handle EXCEPT ![q] = None]
      /\ timer' = IF handle[q] = None THEN timer ELSE [timer EXCEPT ![handle[q]] = "done"]
      /\ UNCHANGED <<docVars, indexVars, current, base, pending, age, clientVars>>

\* Mutant: an update is kept only along with the event that it came with.
Stored_First(q, u) == IF base[q] = None THEN {u} ELSE pending[q]

Stored(q, u) == pending[q] \cup {u}

\* Mutant: the base event is not put back after it was taken.
Based_Never(q, u) == IF age[q] = "never" THEN u ELSE base[q]

Based(q, u) == IF base[q] = None THEN u ELSE base[q]

Stores(u) ==
  LET q == task[u].queue
  IN  /\ At(u, "store") /\ Goes(u, "check")
      /\ base' = [base EXCEPT ![q] = Based(q, u)]
      /\ pending' = [pending EXCEPT ![q] = Stored(q, u)]
      /\ UNCHANGED <<docVars, indexVars, timer, current, age, handle, clientVars>>

\* should_send_immediately
MaySend(q) == age[q] # "recent"

Checks(u) ==
  /\ At(u, "check") /\ Goes(u, IF MaySend(task[u].queue) THEN "send" ELSE "spawn")
  /\ UNCHANGED <<docVars, indexVars, timer, current, base, pending, age, handle, clientVars>>

Reaches(q) == base[q] # None /\ subscribed /\ task[base[q]].routed

\* send_merged_event: what is pending goes, in one event, where the base event
\* routes to; SyncProtocolEventSender gives it to the subscribed connections, by
\* the try_send of each: it is lost where the channel is full.
Sends(q) ==
  /\ base' = [base EXCEPT ![q] = None] /\ pending' = [pending EXCEPT ![q] = {}]
  /\ \/ ~Reaches(q) /\ UNCHANGED <<have, misled>>
     \/ Reaches(q) /\ have' = have \cup pending[q] /\ UNCHANGED misled
     \/ Reaches(q) /\ Misses(q[1]) /\ UNCHANGED have
  /\ UNCHANGED <<docVars, indexVars, current, age, handle, subscribed, stale, answered>>

SendsNow(u) == At(u, "send") /\ Goes(u, "mark") /\ Sends(task[u].queue) /\ UNCHANGED timer

Marks(q) ==
  /\ age' = [age EXCEPT ![q] = "recent"]
  /\ UNCHANGED <<docVars, indexVars, current, base, pending, handle, clientVars>>

MarksNow(u) == At(u, "mark") /\ Goes(u, "done") /\ Marks(task[u].queue) /\ UNCHANGED timer

Spawns(u) ==
  /\ At(u, "spawn") /\ Goes(u, "keep") /\ timer' = [timer EXCEPT ![u] = "sleep"]
  /\ UNCHANGED <<docVars, indexVars, current, base, pending, age, handle, clientVars>>

\* The handle of another task's timer may be lost here; that timer runs on.
Keeps(u) ==
  /\ At(u, "keep") /\ Goes(u, "done")
  /\ handle' = [handle EXCEPT ![task[u].queue] = u]
  /\ UNCHANGED <<docVars, indexVars, timer, current, base, pending, age, clientVars>>

Tick(u, from, to) == timer[u] = from /\ timer' = [timer EXCEPT ![u] = to] /\ UNCHANGED task

Wakes(u) ==
  /\ Tick(u, "sleep", "send")
  /\ UNCHANGED <<docVars, indexVars, current, base, pending, age, handle, clientVars>>

SendsLater(u) == Tick(u, "send", "mark") /\ Sends(task[u].queue)
MarksLater(u) == Tick(u, "mark", "done") /\ Marks(task[u].queue)

\* Time passes: a second, and five minutes.
Passes(q) ==
  /\ age[q] \in {"recent", "second"}
  /\ age' = [age EXCEPT ![q] = IF @ = "recent" THEN "second" ELSE "idle"]
  /\ UNCHANGED <<docVars, indexVars, task, timer, current, base, pending, handle, clientVars>>

\* cleanup_idle_queues; tasks that hold the queue go on with it.
Forgets(d) ==
  /\ current[d] # 0 /\ age[<<d, current[d]>>] = "idle"
  /\ current' = [current EXCEPT ![d] = 0]
  /\ UNCHANGED <<docVars, indexVars, task, timer, base, pending, age, handle, clientVars>>

-----------------------------------------------------------------------------
(* The parent's connection and its client. *)

Subscribes ==
  /\ ~subscribed /\ subscribed' = TRUE
  /\ UNCHANGED <<docVars, indexVars, queueVars, have, stale, answered, misled>>

\* QuerySubdocs: the answer is read, then the metadata again, for "last_seen",
\* and this copy is written back.  The answer is lost on a full channel.
Asks ==
  /\ subscribed /\ query = None /\ queries < MaxQueries /\ queries' = queries + 1
  /\ query' = [step |-> "read", answer |-> index, copy |-> index]
  /\ answered' = FALSE /\ misled' = outdated
  /\ UNCHANGED <<docVars, index, outdated, queueVars, subscribed, have, stale>>

ReadsAgain ==
  /\ query # None /\ query.step = "read"
  /\ query' = [query EXCEPT !.step = "write", !.copy = index]
  /\ UNCHANGED <<docVars, index, outdated, queries, queueVars, clientVars>>

Has(d) == {u \in have : u[1] = d}
Differs(answer, d) == answer[d] # 0 /\ Has(d) # {d} \X (1..answer[d])

Responds ==
  /\ query # None /\ query.step = "write" /\ query' = None
  /\ index' = query.copy
  /\ outdated' = outdated \cup {d \in Docs : query.copy[d] # index[d]}
  /\ \/ answered' = TRUE /\ stale' = stale \cup {d \in Docs : Differs(query.answer, d)}
     \/ UNCHANGED <<answered, stale>>
  /\ UNCHANGED <<docVars, queries, queueVars, subscribed, have, misled>>

\* The client synchronises a document over a connection of its own.
Fetches(d) ==
  /\ d \in stale /\ callback[d] = None
  /\ stale' = stale \ {d}
  /\ have' = have \cup ({d} \X (1..vector[d]))
  /\ UNCHANGED <<docVars, indexVars, queueVars, subscribed, answered, misled>>

\* The connection ends, and the client with what it has comes back later.
Leaves ==
  /\ subscribed /\ query = None
  /\ subscribed' = FALSE /\ answered' = FALSE /\ stale' = {} /\ misled' = {}
  /\ UNCHANGED <<docVars, indexVars, queueVars, have>>

TaskStep(u) == Gets(u) \/ Cancels(u) \/ Stores(u) \/ Checks(u) \/ SendsNow(u) \/ MarksNow(u)
               \/ Spawns(u) \/ Keeps(u)
TimerStep(u) == Wakes(u) \/ SendsLater(u) \/ MarksLater(u)

Next ==
  \/ \E d \in Docs : \/ \E routed \in BOOLEAN : Loads(d, routed)
                     \/ Collects(d) \/ Changes(d) \/ WritesIndex(d) \/ Dispatches(d)
                     \/ Forgets(d) \/ Fetches(d)
  \/ \E u \in Updates : TaskStep(u) \/ TimerStep(u)
  \/ \E q \in Queues : Passes(q)
  \/ \E saved, entries \in Earlier(vector) : Restarts(saved, entries)
  \/ Subscribes \/ Asks \/ ReadsAgain \/ Responds \/ Leaves

Spec == Init /\ [][Next]_vars

-----------------------------------------------------------------------------
(* Properties. *)

Settled == /\ \A d \in Docs : callback[d] = None
           /\ \A u \in Updates : Ended(u)

(* When no callback and no task is left, the parent's index has the state  *)
(* vector of every subdocument that was changed under the parent's         *)
(* channel, unless a write back of an older copy has undone the entry, a   *)
(* compaction has passed it by, or a restart has found parent and document *)
(* saved at different times; the document's next change mends that.        *)
IndexCurrent ==
  Settled => \A d \in Docs \ (strays \cup outdated) : index[d] = vector[d]

(* A client that has subscribed and then asked for the index has, once all *)
(* is quiet, every update of every subdocument: those that it missed it    *)
(* finds by the index, those that come later reach it as events, however   *)
(* their tasks, timers and queues interleave.  An entry that was outdated  *)
(* when the client asked does not tell; nor does an event that a full      *)
(* channel has dropped, or that a compaction has not made.                 *)
CaughtUp ==
  Settled /\ query = None /\ stale = {} /\ subscribed /\ answered =>
    \A d \in Docs \ (strays \cup misled) : Has(d) = {d} \X (1..vector[d])

=============================================================================
