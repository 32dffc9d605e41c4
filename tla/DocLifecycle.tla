---------------------------- MODULE DocLifecycle ----------------------------
(***************************************************************************)
(* One document's life in the relay server (relay/src/server.rs): loaded   *)
(* from the store when a request needs it, shared by the clients that hold *)
(* it, saved by its persistence worker, collected by its GC worker when    *)
(* nobody holds it, loaded again.                                          *)
(*                                                                         *)
(* Every load makes a new instance: a Y.Doc behind its awareness lock, the *)
(* SyncKv that shadows it, the subscription that copies every edit from    *)
(* the one to the other, a persistence worker and a GC worker.  `docs` is  *)
(* the server's map, for this document: it names the instance that         *)
(* requests find.  A load is not atomic: other tasks run between its look  *)
(* in the map, its read of the store and its insertion, another load of    *)
(* the document among them, since nothing keeps two loads apart.           *)
(*                                                                         *)
(* A content is the set of edits it has seen: Y.Doc updates commute, so    *)
(* the set is all that tells two contents apart.  SyncKv's claim, copy and *)
(* write are two steps here; module SyncKv shows that, with one persister, *)
(* nothing is lost between the finer ones.                                 *)
(***************************************************************************)
EXTENDS Naturals

CONSTANTS Clients,          \* requests and connections that use the document
          Edits,            \* the edits they make
          MaxInstances,     \* bound: loads in a behaviour
          StoreMayFail      \* whether store.set may answer with an error

ASSUME LifecycleAssumption ==
  /\ MaxInstances \in Nat \ {0}
  /\ StoreMayFail \in BOOLEAN
  /\ "compaction" \notin Edits

None      == 0
Instances == 1..MaxInstances
Changes   == Edits \cup {"compaction"}  \* what PUD compaction does is an edit

VARIABLES
  docs,         \* the instance in the map, or None
  store,        \* the content of the stored snapshot
  loaded,       \* how many instances have been made
  \* of each instance:
  ydoc, kv,     \* the contents of its Y.Doc and of its SyncKv
  subscribed,   \* whether the Y.Doc's updates still reach the SyncKv
  dirty, shutdown,  \* the SyncKv's flags
  signal,       \* whether its dirty channel holds a signal
  wpc, done,    \* its persistence worker, and is_done
  snap,         \* the copy the worker is writing
  saved,        \* history: the last copy the store took from the worker
  gpc,          \* its GC worker
  unreferenced, \* checkpoints_without_refs
  took,         \* history: the instance this GC worker removed
  \* of each client:
  cpc, at,      \* what it is doing, and with which instance
  \* of the server:
  cancelled,    \* the cancellation token
  acked,        \* history: edits applied for a client
  \* history of the races of loads:
  newest,       \* the instance that was put in the map last
  replaced,     \* the instances whose entry another load's insertion replaced
  exposed       \* the edits that such a race, or a late save, puts at risk

mapVars    == <<docs, store, loaded>>
instVars   == <<ydoc, kv, subscribed, dirty, shutdown, signal>>
workerVars == <<wpc, done, snap, saved>>
gcVars     == <<gpc, unreferenced, took>>
clientVars == <<cpc, at>>
serverVars == <<cancelled, acked>>
raceVars   == <<newest, replaced, exposed>>
vars == <<mapVars, instVars, workerVars, gcVars, clientVars, serverVars,
          raceVars>>

WorkerPC == {"none", "waiting", "woken", "writing", "exited"}
GcPC     == {"none", "sampling", "removing", "compacting", "closing", "exited"}
ClientPC == {"idle", "found", "loading", "read", "persisted", "holding"}

TypeOK ==
  /\ docs \in {None} \cup Instances
  /\ store \in SUBSET Changes
  /\ loaded \in 0..MaxInstances
  /\ ydoc \in [Instances -> SUBSET Changes]
  /\ kv \in [Instances -> SUBSET Changes]
  /\ subscribed \in [Instances -> BOOLEAN]
  /\ dirty \in [Instances -> BOOLEAN]
  /\ shutdown \in [Instances -> BOOLEAN]
  /\ signal \in [Instances -> BOOLEAN]
  /\ wpc \in [Instances -> WorkerPC]
  /\ done \in [Instances -> BOOLEAN]
  /\ snap \in [Instances -> SUBSET Changes]
  /\ saved \in [Instances -> SUBSET Changes]
  /\ gpc \in [Instances -> GcPC]
  /\ unreferenced \in [Instances -> 0..2]
  /\ took \in [Instances -> {None} \cup Instances]
  /\ cpc \in [Clients -> ClientPC]
  /\ at \in [Clients -> {None} \cup Instances]
  /\ cancelled \in BOOLEAN
  /\ acked \in SUBSET Edits
  /\ newest \in {None} \cup Instances
  /\ replaced \in SUBSET Instances
  /\ exposed \in SUBSET Edits

Init ==
  /\ docs = None /\ store = {} /\ loaded = 0
  /\ ydoc = [i \in Instances |-> {}]
  /\ kv = ydoc
  /\ subscribed = [i \in Instances |-> TRUE]
  /\ dirty = [i \in Instances |-> FALSE]
  /\ shutdown = dirty /\ signal = dirty
  /\ wpc = [i \in Instances |-> "none"]
  /\ done = dirty /\ snap = ydoc /\ saved = ydoc
  /\ gpc = wpc
  /\ unreferenced = [i \in Instances |-> 0]
  /\ took = [i \in Instances |-> None]
  /\ cpc = [c \in Clients |-> "idle"]
  /\ at = [c \in Clients |-> None]
  /\ cancelled = FALSE /\ acked = {}
  /\ newest = None /\ replaced = {} /\ exposed = {}

\* Mutant: an off-by-one in the count, one holder too many is needed.
HasExternalRefs_TwoHolders(i) ==
  \E c, d \in Clients : c # d /\ \A b \in {c, d} : cpc[b] = "holding" /\ at[b] = i

\* Arc::strong_count(awareness) > 1: somebody beyond the map's entry holds it.
HasExternalRefs(i) == \E c \in Clients : cpc[c] = "holding" /\ at[c] = i

\* An edit to a Y.Doc reaches its SyncKv through the observer, while there is
\* one.  mark_dirty raises the flag and signals the worker, unless the SyncKv
\* has been shut down.
Edited(i, e) ==
  LET marks == subscribed[i] /\ ~shutdown[i] IN
  /\ ydoc' = [ydoc EXCEPT ![i] = @ \cup {e}]
  /\ kv' = [kv EXCEPT ![i] = IF subscribed[i] THEN @ \cup {e} ELSE @]
  /\ dirty' = [dirty EXCEPT ![i] = @ \/ marks]
  /\ signal' = [signal EXCEPT ![i] = @ \/ marks]
  /\ UNCHANGED <<subscribed, shutdown>>

-----------------------------------------------------------------------------
(* Clients: get_or_create_doc, load_doc_with_user, edits *)

Loading(c) == cpc[c] \in {"loading", "read", "persisted"}

Becomes(c, pc, i) ==
  /\ cpc' = [cpc EXCEPT ![c] = pc]
  /\ at' = [at EXCEPT ![c] = i]

\* docs.contains_key(doc_id): the document is there, or it must be loaded.
Lookup(c) ==
  /\ cpc[c] = "idle"
  /\ IF docs # None THEN Becomes(c, "found", None) ELSE Becomes(c, "loading", None)
  /\ UNCHANGED <<mapVars, instVars, workerVars, gcVars, serverVars, raceVars>>

\* docs.get(doc_id) afterwards: the awareness is taken, unless GC removed the
\* entry in between, which is an error to the caller.
Get(c) ==
  /\ cpc[c] = "found"
  /\ IF docs = None THEN Becomes(c, "idle", None) ELSE Becomes(c, "holding", docs)
  /\ UNCHANGED <<mapVars, instVars, workerVars, gcVars, serverVars, raceVars>>

\* The instances whose worker has a copy to make, or is writing one.
Unsaved == {i \in Instances : dirty[i] \/ wpc[i] = "writing"}

\* DocWithSyncKv::new: an instance made from the stored snapshot.  It does not
\* wait for a former instance that has something to save, and may miss it.
ReadStore(c) ==
  /\ cpc[c] = "loading" /\ loaded < MaxInstances
  /\ loaded' = loaded + 1
  /\ ydoc' = [ydoc EXCEPT ![loaded'] = store]
  /\ kv' = [kv EXCEPT ![loaded'] = store]
  /\ saved' = [saved EXCEPT ![loaded'] = store]
  /\ Becomes(c, "read", loaded')
  /\ exposed' = exposed \cup (acked \cap UNION {ydoc[i] : i \in Unsaved})
  /\ UNCHANGED <<docs, store, subscribed, dirty, shutdown, signal, wpc, done,
                 snap, gcVars, serverVars, newest, replaced>>

\* The load saves the new instance before anybody can reach it: a write when
\* the request named a channel (set_channel marks it dirty), else nothing.
FirstPersist(c) ==
  /\ cpc[c] = "read"
  /\ store' \in {store, kv[at[c]]}
  /\ cpc' = [cpc EXCEPT ![c] = "persisted"]
  /\ UNCHANGED <<docs, loaded, instVars, workerVars, gcVars, at, serverVars,
                 raceVars>>

\* store.get or the first persist fails: the load is an error to the caller.
LoadFails(c) ==
  /\ StoreMayFail /\ cpc[c] \in {"loading", "read"}
  /\ Becomes(c, "idle", None)
  /\ UNCHANGED <<mapVars, instVars, workerVars, gcVars, serverVars, raceVars>>

\* The workers are spawned and the instance is put in the map, in place of
\* whatever is there: the old DocWithSyncKv is dropped, its subscription too.
Insert(c) ==
  /\ cpc[c] = "persisted"
  /\ docs' = at[c]
  /\ wpc' = [wpc EXCEPT ![at[c]] = "waiting"]
  /\ gpc' = [gpc EXCEPT ![at[c]] = "sampling"]
  /\ unreferenced' = [unreferenced EXCEPT ![at[c]] = 0]
  /\ subscribed' =
       [i \in Instances |-> IF i = docs THEN FALSE ELSE subscribed[i]]
  /\ newest' = at[c]
  /\ replaced' = IF docs = None THEN replaced ELSE replaced \cup {docs}
  /\ Becomes(c, "found", None)
  /\ UNCHANGED <<store, loaded, ydoc, kv, dirty, shutdown, signal, done, snap,
                 saved, took, serverVars, exposed>>

\* Whether a load has read the store and not yet put its instance in the map.
Reloading == \E c \in Clients : cpc[c] \in {"read", "persisted"}

\* An edit is applied under the awareness lock and confirmed to its client,
\* also when the instance is not, or will not be, what requests find.
Edit(c, e) ==
  /\ cpc[c] = "holding" /\ e \notin acked
  /\ Edited(at[c], e)
  /\ acked' = acked \cup {e}
  /\ exposed' = IF Reloading \/ at[c] \in replaced THEN exposed \cup {e}
                                                  ELSE exposed
  /\ UNCHANGED <<mapVars, workerVars, gcVars, clientVars, cancelled, newest,
                 replaced>>

\* The connection closes, the request ends: the awareness is let go.
Release(c) ==
  /\ cpc[c] = "holding"
  /\ Becomes(c, "idle", None)
  /\ UNCHANGED <<mapVars, instVars, workerVars, gcVars, serverVars, raceVars>>

-----------------------------------------------------------------------------
(* doc_persistence_worker *)

WakesWith(i, isDone) ==
  /\ wpc[i] = "waiting"
  /\ wpc' = [wpc EXCEPT ![i] = "woken"]
  /\ done' = [done EXCEPT ![i] = isDone]

\* Mutant: the timer branch does not ask for the shutdown flag.
Wake_IgnoresShutdown(i) ==
  /\ \/ WakesWith(i, FALSE) /\ signal' = [signal EXCEPT ![i] = FALSE]
     \/ cancelled /\ WakesWith(i, TRUE) /\ UNCHANGED signal
  /\ UNCHANGED <<mapVars, ydoc, kv, subscribed, dirty, shutdown, snap, saved,
                 gcVars, clientVars, serverVars, raceVars>>

\* select!, which takes any branch that is ready: a signal, whose throttle
\* drains the channel, the checkpoint timer, or the cancellation token.  The
\* branch also decides whether this save is the last.
Wake(i) ==
  /\ \/ /\ signal[i]
        /\ WakesWith(i, FALSE)
        /\ signal' = [signal EXCEPT ![i] = FALSE]
     \/ WakesWith(i, shutdown[i]) /\ UNCHANGED signal
     \/ cancelled /\ WakesWith(i, TRUE) /\ UNCHANGED signal
  /\ UNCHANGED <<mapVars, ydoc, kv, subscribed, dirty, shutdown, snap, saved,
                 gcVars, clientVars, serverVars, raceVars>>

\* After a save: the next round, or the worker's end.
Saved(i) ==
  /\ wpc' = [wpc EXCEPT ![i] = IF done[i] THEN "exited" ELSE "waiting"]
  /\ snap' = [snap EXCEPT ![i] = {}]

\* persist(): a clean instance has nothing to write; a dirty one is copied.
BeginSave(i) ==
  /\ wpc[i] = "woken"
  /\ IF dirty[i]
     THEN /\ snap' = [snap EXCEPT ![i] = kv[i]]
          /\ wpc' = [wpc EXCEPT ![i] = "writing"]
     ELSE Saved(i)
  /\ dirty' = [dirty EXCEPT ![i] = FALSE]
  /\ UNCHANGED <<mapVars, ydoc, kv, subscribed, shutdown, signal, done, saved,
                 gcVars, clientVars, serverVars, raceVars>>

\* store.set() succeeds.  The worker of an instance that another has succeeded
\* may overwrite what that one has saved.
SaveOk(i) ==
  /\ wpc[i] = "writing"
  /\ store' = snap[i]
  /\ saved' = [saved EXCEPT ![i] = snap[i]]
  /\ Saved(i)
  /\ exposed' = IF i = newest THEN exposed ELSE exposed \cup (acked \ snap[i])
  /\ UNCHANGED <<docs, loaded, instVars, done, gcVars, clientVars, serverVars,
                 newest, replaced>>

\* store.set() answers with an error: the instance is dirty again, the worker
\* signalled again.
SaveFails(i) ==
  /\ StoreMayFail /\ wpc[i] = "writing"
  /\ dirty' = [dirty EXCEPT ![i] = TRUE]
  /\ signal' = [signal EXCEPT ![i] = TRUE]
  /\ Saved(i)
  /\ UNCHANGED <<mapVars, ydoc, kv, subscribed, shutdown, done, saved, gcVars,
                 clientVars, serverVars, raceVars>>

-----------------------------------------------------------------------------
(* doc_gc_worker and gc_compact_and_remove: the worker of load g *)

\* One checkpoint of a document that is still mapped; the one that brings the
\* count to `limit` starts the removal.
Count(g, limit) ==
  IF HasExternalRefs(docs)
  THEN unreferenced' = [unreferenced EXCEPT ![g] = 0] /\ UNCHANGED gpc
  ELSE /\ unreferenced' = [unreferenced EXCEPT ![g] = @ + 1]
       /\ gpc' = [gpc EXCEPT ![g] =
                    IF unreferenced[g] + 1 >= limit THEN "removing" ELSE @]

\* Mutant: `> 2` for `>= 2` checkpoints.
Sample_OneMore(g) ==
  /\ gpc[g] = "sampling" /\ docs # None /\ Count(g, 3)
  /\ UNCHANGED <<mapVars, instVars, workerVars, took, clientVars, serverVars,
                 raceVars>>

\* A checkpoint: the second in a row without references starts the removal.
Sample(g) ==
  /\ gpc[g] = "sampling"
  /\ \/ docs # None /\ Count(g, 2)
     \/ docs = None /\ gpc' = [gpc EXCEPT ![g] = "exited"] /\ UNCHANGED unreferenced
  /\ UNCHANGED <<mapVars, instVars, workerVars, took, clientVars, serverVars,
                 raceVars>>

\* The entry is taken out of the map.
Extract(g) ==
  /\ gpc' = [gpc EXCEPT ![g] = "compacting"]
  /\ took' = [took EXCEPT ![g] = docs]
  /\ docs' = None

Declined(g, pc) ==
  /\ docs # None => HasExternalRefs(docs)
  /\ gpc' = [gpc EXCEPT ![g] = pc]
  /\ UNCHANGED <<docs, took>>

\* Mutants: remove for remove_if; a declined removal ends the GC worker;
\* shutdown() comes with the removal, before the compaction.
Remove_Unchecked(g) ==
  /\ gpc[g] = "removing" /\ docs # None /\ Extract(g)
  /\ UNCHANGED <<store, loaded, instVars, workerVars, unreferenced, clientVars,
                 serverVars, raceVars>>

Remove_GivesUp(g) ==
  /\ gpc[g] = "removing"
  /\ \/ docs # None /\ ~HasExternalRefs(docs) /\ Extract(g)
     \/ Declined(g, "exited")
  /\ UNCHANGED <<store, loaded, instVars, workerVars, unreferenced, clientVars,
                 serverVars, raceVars>>

Remove_ShutsDown(g) ==
  /\ gpc[g] = "removing" /\ docs # None /\ ~HasExternalRefs(docs) /\ Extract(g)
  /\ shutdown' = [shutdown EXCEPT ![docs] = TRUE]
  /\ signal' = [signal EXCEPT ![docs] = TRUE]
  /\ UNCHANGED <<store, loaded, ydoc, kv, subscribed, dirty, workerVars,
                 unreferenced, clientVars, serverVars, raceVars>>

\* docs.remove_if(doc_id, no external refs): the entry is extracted; or there
\* are references again and GC starts counting again; or it is already gone.
Remove(g) ==
  /\ gpc[g] = "removing"
  /\ \/ docs # None /\ ~HasExternalRefs(docs) /\ Extract(g)
     \/ docs # None /\ Declined(g, "sampling")
     \/ docs = None /\ Declined(g, "exited")
  /\ unreferenced' = [unreferenced EXCEPT ![g] = 0]
  /\ UNCHANGED <<store, loaded, instVars, workerVars, clientVars, serverVars,
                 raceVars>>

\* PUD compaction of the extracted instance, which may change it.
Compact(g) ==
  /\ gpc[g] = "compacting"
  /\ Edited(took[g], "compaction") \/ UNCHANGED instVars
  /\ gpc' = [gpc EXCEPT ![g] = "closing"]
  /\ UNCHANGED <<mapVars, workerVars, unreferenced, took, clientVars,
                 serverVars, raceVars>>

\* sync_kv.shutdown(), and the extracted DocWithSyncKv is dropped.
ShutDown(i) ==
  /\ shutdown' = [shutdown EXCEPT ![i] = TRUE]
  /\ signal' = [signal EXCEPT ![i] = TRUE]
  /\ subscribed' = [subscribed EXCEPT ![i] = FALSE]
  /\ UNCHANGED <<ydoc, kv, dirty>>

\* Mutant: the document is looked up by its id to be shut down.
Close_ById(g) ==
  /\ gpc[g] = "closing" /\ ShutDown(IF docs = None THEN took[g] ELSE docs)
  /\ gpc' = [gpc EXCEPT ![g] = "exited"]
  /\ UNCHANGED <<mapVars, workerVars, unreferenced, took, clientVars,
                 serverVars, raceVars>>

Close(g) ==
  /\ gpc[g] = "closing" /\ ShutDown(took[g])
  /\ gpc' = [gpc EXCEPT ![g] = "exited"]
  /\ UNCHANGED <<mapVars, workerVars, unreferenced, took, clientVars,
                 serverVars, raceVars>>

\* The cancellation token ends a GC worker that is not removing anything.
GcCancelled(g) ==
  /\ cancelled /\ gpc[g] = "sampling"
  /\ gpc' = [gpc EXCEPT ![g] = "exited"]
  /\ UNCHANGED <<mapVars, instVars, workerVars, unreferenced, took, clientVars,
                 serverVars, raceVars>>

\* The server is asked to stop (a signal, or a watchdog).
Cancel ==
  /\ ~cancelled
  /\ cancelled' = TRUE
  /\ UNCHANGED <<mapVars, instVars, workerVars, gcVars, clientVars, acked,
                 raceVars>>

-----------------------------------------------------------------------------
ClientStep(c) ==
  \/ Lookup(c) \/ Get(c)
  \/ ReadStore(c) \/ FirstPersist(c) \/ LoadFails(c) \/ Insert(c)
  \/ \E e \in Edits : Edit(c, e)
  \/ Release(c)

WorkerStep(i) == Wake(i) \/ BeginSave(i) \/ SaveOk(i) \/ SaveFails(i)

GcStep(g) ==
  Sample(g) \/ Remove(g) \/ Compact(g) \/ Close(g) \/ GcCancelled(g)

Next ==
  \/ \E c \in Clients : ClientStep(c)
  \/ \E i \in Instances : WorkerStep(i) \/ GcStep(i)
  \/ Cancel

(***************************************************************************)
(* The runtime runs every spawned task, timers fire, a store that is asked *)
(* again and again eventually takes a snapshot; a load that can go on does.*)
(* Clients owe nothing: a connection may stay open for ever.               *)
(***************************************************************************)
Fairness ==
  /\ \A c \in Clients : WF_vars(ReadStore(c) \/ FirstPersist(c) \/ Insert(c)
                                \/ Get(c))
  /\ \A i \in Instances :
       /\ WF_vars(Wake(i) \/ BeginSave(i))
       /\ SF_vars(SaveOk(i))
       /\ WF_vars(GcStep(i))

Spec == Init /\ [][Next]_vars
FairSpec == Spec /\ Fairness

-----------------------------------------------------------------------------
(* Properties *)

\* The instance a client holds is the one in the map: GC does not take a held
\* document away, however late the holder came.  Only another load's insertion
\* parts a holder from the map.
HeldIsMapped ==
  \A c \in Clients :
    cpc[c] = "holding" => at[c] = docs \/ at[c] \in replaced

\* Every edit of a Y.Doc is in the SyncKv that shadows it, so that the
\* persistence worker can save it: nobody edits an instance whose subscription
\* is gone, but for one that another load has replaced.
EditsReachSyncKv ==
  \A i \in Instances : ydoc[i] = kv[i] \/ i \in replaced

\* Whatever other loads and the GC workers of former entries do - one of them
\* may well remove an entry that is not its own - what requests find is never
\* an instance that was taken away or shut down: its edits are observed, its
\* flag works, and its workers run until the server stops.
MappedIsServed ==
  docs # None =>
    /\ subscribed[docs] /\ ~shutdown[docs]
    /\ \A g \in Instances : took[g] # docs
    /\ ~cancelled => /\ gpc[docs] \in {"sampling", "removing"}
                     /\ wpc[docs] # "exited"

\* A persistence worker that ends with the flag down has saved all there was,
\* the compaction that preceded the shutdown included; only edits after the
\* server began to stop can come too late for it.
NothingLeftBehind ==
  \A i \in Instances :
    wpc[i] = "exited" /\ ~dirty[i] => kv[i] \subseteq saved[i]

\* Whether a worker has yet to write an edit.
Owes(i, e) ==
  /\ e \in kv[i]
  /\ \/ dirty[i]
     \/ wpc[i] = "writing" /\ e \in snap[i]

\* Collected and loaded again, saved in between or not, with saves that fail and
\* a server that stops: what a client was told is applied is in the instance
\* that requests find, and in the store or still to be saved.  What `exposed`
\* leaves out is what a load that does not wait puts at risk: edits that an
\* instance has still to save when the store is read, edits made after that and
\* before the insertion or on a replaced instance, and edits that the late save
\* of a former instance overwrites.
EditsSurvive ==
  \A e \in acked \ exposed :
    /\ docs # None => e \in ydoc[docs]
    /\ e \in store \/ \E i \in Instances : Owes(i, e)

\* Workers end after GC: no persistence worker outlives its document.
WorkersEnd ==
  \A i \in Instances : shutdown[i] ~> wpc[i] = "exited"

\* A document nobody uses any more leaves the map.
UnusedIsCollected ==
  <>[](\A c \in Clients : cpc[c] = "idle") => <>[](docs = None \/ cancelled)
=============================================================================
