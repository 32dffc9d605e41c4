------------------------------- MODULE SyncKv -------------------------------
(***************************************************************************)
(* The in-memory copy of one document and its way to the store:            *)
(* SyncKv in y-sweet-core/src/sync_kv.rs, at the grain of its locks and    *)
(* atomics.                                                                *)
(*                                                                         *)
(* Mutators change the key-value data (or the metadata) under that part's  *)
(* mutex and then mark the document dirty, which fires a callback that     *)
(* puts a wake-up signal in a bounded channel.  Persisters - the           *)
(* document's persistence worker, and on some paths a request handler -    *)
(* claim the dirty flag, copy both parts under both mutexes and write the  *)
(* copy to the store, which may fail.  The worker ends with the persist    *)
(* before which it saw that the document was shut down or the server       *)
(* stops, whether or not that persist succeeds.                            *)
(*                                                                         *)
(* The relaxed atomics of the code are modelled as sequentially            *)
(* consistent: the flag is raised after a mutex-protected change and       *)
(* lowered before a mutex-protected copy, so the mutexes order the two.    *)
(***************************************************************************)
EXTENDS Naturals

CONSTANTS Writers,          \* tasks that change the document
          Worker,           \* the document's persistence worker
          Handlers,         \* request handlers that call persist()
          MaxVersion,       \* bound: changes per field
          Free              \* a mutex nobody holds

ASSUME FreeAssumption == Free \notin Writers
ASSUME WorkerAssumption == Worker \notin Handlers

\* The tasks that call persist().
Persisters == {Worker} \cup Handlers

Fields == {"data", "metadata"}

VARIABLES
  content,      \* data and metadata: how many changes each has seen
  lock,         \* the mutex around each of them
  stored,       \* the content of the store's latest snapshot
  dirty,        \* the `dirty` flag
  shutdown,     \* the `shutdown` flag
  stopping,     \* whether the server's cancellation token is cancelled
  signal,       \* whether the wake-up channel holds a signal
  done,         \* the worker's `is_done`
  wpc, wfield,  \* where each writer is, and the field it changes
  ppc, snap,    \* where each persister is, and the copy it writes
  marked        \* history: the content covered by a mark_dirty that took effect

writerVars    == <<wpc, wfield>>
persisterVars == <<ppc, snap, done>>
ends          == <<shutdown, stopping>>
vars == <<content, lock, stored, dirty, shutdown, stopping, signal, done, wpc,
          wfield, ppc, snap, marked>>

Content == [Fields -> Nat]
Upto(a, b) == \A f \in Fields : a[f] <= b[f]

WriterPC    == {"idle", "mutated", "removing", "live", "flagged"}
PersisterPC == {"idle", "called", "claimed", "cleared", "writing", "applied",
                "failed", "ok", "err", "ended"}

TypeOK ==
  /\ content \in Content
  /\ lock \in [Fields -> Writers \cup {Free}]
  /\ stored \in Content
  /\ dirty \in BOOLEAN /\ shutdown \in BOOLEAN /\ stopping \in BOOLEAN
  /\ signal \in BOOLEAN /\ done \in BOOLEAN
  /\ wpc \in [Writers -> WriterPC]
  /\ wfield \in [Writers -> Fields]
  /\ ppc \in [Persisters -> PersisterPC]
  /\ snap \in [Persisters -> Content]
  /\ marked \in Content

\* SyncKv::new: memory is what the store held when the document was loaded.
Init ==
  /\ content = [f \in Fields |-> 0]
  /\ lock = [f \in Fields |-> Free]
  /\ stored = content
  /\ dirty = FALSE /\ shutdown = FALSE /\ stopping = FALSE
  /\ signal = FALSE /\ done = FALSE
  /\ wpc = [w \in Writers |-> "idle"]
  /\ wfield = [w \in Writers |-> "data"]
  /\ ppc = [p \in Persisters |-> "idle"]
  /\ snap = [p \in Persisters |-> content]
  /\ marked = content

-----------------------------------------------------------------------------
(* Mutators *)

\* upsert, remove, set_metadata, update_metadata: one change, and the mutex
\* stays held until mark_dirty has returned.
Mutate(w, f) ==
  /\ wpc[w] = "idle" /\ lock[f] = Free /\ content[f] < MaxVersion
  /\ lock' = [lock EXCEPT ![f] = w]
  /\ content' = [content EXCEPT ![f] = @ + 1]
  /\ wpc' = [wpc EXCEPT ![w] = "mutated"]
  /\ wfield' = [wfield EXCEPT ![w] = f]
  /\ UNCHANGED <<stored, dirty, ends, signal, marked, persisterVars>>

\* remove_range: takes and drops the mutex for every entry, and marks the
\* document dirty once at the end, holding nothing.
RemoveEntry(w) ==
  /\ wpc[w] \in {"idle", "removing"} /\ lock["data"] = Free
  /\ content["data"] < MaxVersion
  /\ content' = [content EXCEPT !["data"] = @ + 1]
  /\ wpc' = [wpc EXCEPT ![w] = "removing"]
  /\ wfield' = [wfield EXCEPT ![w] = "data"]
  /\ UNCHANGED <<lock, stored, dirty, ends, signal, marked, persisterVars>>

\* The mutator's guard is dropped when it returns.
Unlock(w) ==
  lock' = [f \in Fields |-> IF lock[f] = w THEN Free ELSE lock[f]]

\* mark_dirty: load the shutdown flag; after shutdown nothing is marked.
CheckShutdown(w) ==
  /\ wpc[w] \in {"mutated", "removing"}
  /\ \/ /\ shutdown
        /\ wpc' = [wpc EXCEPT ![w] = "idle"]
        /\ Unlock(w)
     \/ /\ ~shutdown
        /\ wpc' = [wpc EXCEPT ![w] = "live"]
        /\ UNCHANGED lock
  /\ UNCHANGED <<content, stored, dirty, ends, signal, wfield, marked,
                 persisterVars>>

\* mark_dirty: raise the flag.
RaiseDirty(w) ==
  /\ wpc[w] = "live"
  /\ dirty' = TRUE
  /\ marked' = [marked EXCEPT ![wfield[w]] = content[wfield[w]]]
  /\ wpc' = [wpc EXCEPT ![w] = "flagged"]
  /\ UNCHANGED <<content, lock, stored, ends, signal, wfield, persisterVars>>

\* Whether a signal reaches the channel: the worker drops its end with itself.
Open == ppc[Worker] # "ended"

\* mark_dirty: the callback's try_send.  A full channel drops the signal, and
\* then holds others: what matters is whether there is one.
FireCallback(w) ==
  /\ wpc[w] = "flagged"
  /\ signal' = Open
  /\ wpc' = [wpc EXCEPT ![w] = "idle"]
  /\ Unlock(w)
  /\ UNCHANGED <<content, stored, dirty, ends, wfield, marked, persisterVars>>

\* shutdown(): from now on mark_dirty does nothing; one last signal.
Shutdown ==
  /\ ~shutdown
  /\ shutdown' = TRUE /\ signal' = Open
  /\ UNCHANGED <<content, lock, stored, dirty, stopping, marked, writerVars,
                 persisterVars>>

\* The server stops: its cancellation token tells every worker.
Cancel ==
  /\ ~stopping
  /\ stopping' = TRUE
  /\ UNCHANGED <<content, lock, stored, dirty, shutdown, signal, marked,
                 writerVars, persisterVars>>

-----------------------------------------------------------------------------
(* Callers of persist() *)

\* The worker calls persist(): because it received a signal, or its checkpoint
\* timer fired; more signals are taken while it throttles.  It is done with
\* this call when the timer finds the document shut down, or the token is
\* cancelled.
Awake ==
  \/ /\ signal \/ ~shutdown
     /\ done' = FALSE
     /\ signal' \in {signal, FALSE}
  \/ /\ shutdown \/ stopping
     /\ done' = TRUE
     /\ UNCHANGED signal

\* A persister calls persist(): the worker when it is awake, a handler because
\* its request says so.
Call(p) ==
  /\ ppc[p] = "idle"
  /\ IF p = Worker THEN Awake ELSE UNCHANGED <<signal, done>>
  /\ ppc' = [ppc EXCEPT ![p] = "called"]
  /\ UNCHANGED <<content, lock, stored, dirty, ends, marked, snap, writerVars>>

\* The caller takes persist()'s answer.  A worker that is done ends, also when
\* the persist failed, and with it its end of the channel.
Return(p) ==
  /\ ppc[p] \in {"ok", "err"}
  /\ IF p = Worker /\ done
     THEN ppc' = [ppc EXCEPT ![p] = "ended"] /\ signal' = FALSE
     ELSE ppc' = [ppc EXCEPT ![p] = "idle"] /\ UNCHANGED signal
  /\ UNCHANGED <<content, lock, stored, dirty, ends, marked, snap, done,
                 writerVars>>

-----------------------------------------------------------------------------
(* persist() *)

\* dirty.swap(false): a clean document is answered Ok without a write.
Claim(p) ==
  /\ ppc[p] = "called"
  /\ ppc' = [ppc EXCEPT ![p] = IF dirty THEN "claimed" ELSE "ok"]
  /\ dirty' = FALSE
  /\ UNCHANGED <<content, lock, stored, ends, signal, marked, snap, done,
                 writerVars>>

\* dirty.store(false), a second time, before the copy is made.
ClearDirty(p) ==
  /\ ppc[p] = "claimed"
  /\ dirty' = FALSE
  /\ ppc' = [ppc EXCEPT ![p] = "cleared"]
  /\ UNCHANGED <<content, lock, stored, ends, signal, marked, snap, done,
                 writerVars>>

\* Mutants: the snapshot has no metadata part; its metadata is the default.
TakeSnapshot_DataOnly(p) ==
  /\ ppc[p] = "cleared" /\ \A f \in Fields : lock[f] = Free
  /\ snap' = [snap EXCEPT ![p] = [f \in {"data"} |-> content[f]]]
  /\ ppc' = [ppc EXCEPT ![p] = "writing"]
  /\ UNCHANGED <<content, lock, stored, dirty, ends, signal, marked, done,
                 writerVars>>

TakeSnapshot_ForgetsMetadata(p) ==
  /\ ppc[p] = "cleared" /\ \A f \in Fields : lock[f] = Free
  /\ snap' = [snap EXCEPT ![p] = [content EXCEPT !["metadata"] = 0]]
  /\ ppc' = [ppc EXCEPT ![p] = "writing"]
  /\ UNCHANGED <<content, lock, stored, dirty, ends, signal, marked, done,
                 writerVars>>

\* Both mutexes are taken and both parts are copied into one snapshot.
TakeSnapshot(p) ==
  /\ ppc[p] = "cleared" /\ \A f \in Fields : lock[f] = Free
  /\ snap' = [snap EXCEPT ![p] = content]
  /\ ppc' = [ppc EXCEPT ![p] = "writing"]
  /\ UNCHANGED <<content, lock, stored, dirty, ends, signal, marked, done,
                 writerVars>>

\* store.set(): the snapshot replaces the store's, at some instant before the
\* store answers.
StoreApplies(p) ==
  /\ ppc[p] = "writing"
  /\ stored' = snap[p]
  /\ ppc' = [ppc EXCEPT ![p] = "applied"]
  /\ UNCHANGED <<content, lock, dirty, ends, signal, marked, snap, done,
                 writerVars>>

\* Mutant: the flag is lowered after the write instead of before the copy.
StoreAnswersOk_LowersFlag(p) ==
  /\ ppc[p] = "applied"
  /\ dirty' = FALSE
  /\ ppc' = [ppc EXCEPT ![p] = "ok"]
  /\ UNCHANGED <<content, lock, stored, ends, signal, marked, snap, done,
                 writerVars>>

StoreAnswersOk(p) ==
  /\ ppc[p] = "applied"
  /\ ppc' = [ppc EXCEPT ![p] = "ok"]
  /\ UNCHANGED <<content, lock, stored, dirty, ends, signal, marked, snap,
                 done, writerVars>>

\* Mutant: the error path without the lines that raise the flag again.
Fails_StaysClean(p) ==
  /\ \/ ppc[p] \in {"writing", "applied"}
     \/ ppc[p] = "cleared" /\ \A f \in Fields : lock[f] = Free
  /\ ppc' = [ppc EXCEPT ![p] = "failed"]
  /\ UNCHANGED <<content, lock, stored, dirty, ends, signal, marked, snap,
                 done, writerVars>>

\* The snapshot cannot be serialised, or the store answers with an error,
\* whether or not it took the snapshot: the flag goes up again.
Fails(p) ==
  /\ \/ ppc[p] \in {"writing", "applied"}
     \/ ppc[p] = "cleared" /\ \A f \in Fields : lock[f] = Free
  /\ dirty' = TRUE
  /\ ppc' = [ppc EXCEPT ![p] = "failed"]
  /\ UNCHANGED <<content, lock, stored, ends, signal, marked, snap, done,
                 writerVars>>

\* Mutant: the flag goes up again, the callback does not fire.
SignalRetry_Silent(p) ==
  /\ ppc[p] = "failed"
  /\ ppc' = [ppc EXCEPT ![p] = "err"]
  /\ UNCHANGED <<content, lock, stored, dirty, ends, signal, marked, snap,
                 done, writerVars>>

\* ... and the callback fires, so that the worker tries again.
SignalRetry(p) ==
  /\ ppc[p] = "failed"
  /\ signal' = Open
  /\ ppc' = [ppc EXCEPT ![p] = "err"]
  /\ UNCHANGED <<content, lock, stored, dirty, ends, marked, snap, done,
                 writerVars>>

-----------------------------------------------------------------------------
WriterStep(w) ==
  \/ \E f \in Fields : Mutate(w, f)
  \/ RemoveEntry(w)
  \/ CheckShutdown(w)
  \/ RaiseDirty(w)
  \/ FireCallback(w)

PersistStep(p) ==
  \/ Call(p) \/ Return(p)
  \/ Claim(p) \/ ClearDirty(p) \/ TakeSnapshot(p)
  \/ StoreApplies(p) \/ StoreAnswersOk(p)
  \/ Fails(p) \/ SignalRetry(p)

Next ==
  \/ \E w \in Writers : WriterStep(w)
  \/ Shutdown \/ Cancel
  \/ \E p \in Persisters : PersistStep(p)

(***************************************************************************)
(* A mutator that has started finishes (it waits for nothing); the worker, *)
(* until it ends, calls persist() again at the latest when its checkpoint  *)
(* timer fires; persist() runs on, for handlers too, which nothing makes   *)
(* call it; and a store that is asked again and again eventually takes the *)
(* snapshot and says so.                                                   *)
(***************************************************************************)
Fairness ==
  /\ \A w \in Writers :
       WF_vars(CheckShutdown(w) \/ RaiseDirty(w) \/ FireCallback(w))
  /\ WF_vars(Call(Worker))
  /\ \A p \in Persisters :
       /\ WF_vars(Return(p) \/ Claim(p) \/ ClearDirty(p))
       /\ WF_vars(SignalRetry(p))
       /\ SF_vars(TakeSnapshot(p))
       /\ SF_vars(StoreApplies(p))
       /\ SF_vars(StoreAnswersOk(p))

Spec == Init /\ [][Next]_vars
FairSpec == Spec /\ Fairness

-----------------------------------------------------------------------------
(* Properties *)

\* No accepted change can be forgotten: while the store lacks a change that
\* mark_dirty accepted, the flag is up or a persist that will write the
\* change is under way (persist clears the flag before it copies, sync_kv.rs).
Accounted ==
  \A f \in Fields :
    stored[f] < marked[f] =>
      \/ dirty
      \/ \E p \in Persisters :
           \/ ppc[p] \in {"claimed", "cleared"}
           \/ ppc[p] = "writing" /\ marked[f] <= snap[p][f]

\* Nobody is inside a mutator or inside persist().
Quiet ==
  /\ \A w \in Writers : wpc[w] = "idle"
  /\ \A p \in Persisters : ppc[p] \in {"idle", "called", "ok", "err", "ended"}

\* A document at rest with its flag down is exactly what the store holds:
\* nothing that changed it before shutdown slipped past the flag.
CleanMeansStored == Quiet /\ ~dirty /\ ~shutdown => stored = content

\* No lost wake-up: while the flag is up and the worker lives, a signal waits
\* in the channel, or is about to be sent, or a persister is on its way to look
\* at the flag.
DirtyIsSignalled ==
  dirty /\ Open =>
    \/ signal
    \/ \E w \in Writers : wpc[w] = "flagged"
    \/ \E p \in Persisters : ppc[p] \in {"called", "claimed", "failed"}

\* SyncKv keeps the promise of the abstract document: the store only moves
\* forward, through contents the document had, and catches up as long as the
\* worker has not ended.
Abstract == INSTANCE DurableDoc WITH mem <- content, promised <- marked,
                                     durable <- stored, closed <- ~Open
ImplementsDurableDoc == Abstract!AbsSpec
=============================================================================
