---------------------------- MODULE SearchQueue -----------------------------
(***************************************************************************)
(* How the search index and the suggestions index follow the documents:    *)
(* the pending map with its generations and leases (link_indexer.rs), the  *)
(* search worker with its two lanes (search_worker in server.rs), and the  *)
(* handlers that change a document and index it themselves.                *)
(*                                                                         *)
(* A task changes a document under its awareness write lock; the update    *)
(* callback queues the document before the lock is let go.  The worker     *)
(* copies the pending map, scans the suggestions of some of the documents  *)
(* (fast lane), indexes the oldest few of them in full (heavy lane), and   *)
(* acknowledges the generation it had copied, not the one it finds.  A     *)
(* document with a pending entry is leased: GC may not evict it.           *)
(*                                                                         *)
(* A body is the number of changes it has seen; an index holds, for each   *)
(* document, the body it was made from.  Of folder documents only the      *)
(* slots they take in the heavy lane are kept; of time, that an entry may  *)
(* or may not be ready when the worker looks.                              *)
(***************************************************************************)
EXTENDS Naturals, FiniteSets

CONSTANTS Docs,             \* content documents
          Writers,          \* requests and connections that change them
          Kinds,            \* the kinds of change they make, see AllKinds
          HeavyPerTick,     \* SEARCH_HEAVY_PER_TICK
          FastPerTick,      \* SEARCH_FAST_PER_TICK
          MaxBody,          \* bound: changes per document
          None              \* no writer, no document

\* edit: a connection's or an MCP tool's update.  apply: suggestions are
\* accepted, and rescanned under the same lock.  write: the handler indexes
\* the document afterwards.  rewrite: wikilinks are rewritten after a move or
\* rename, with LINK_INDEXER_ORIGIN.
AllKinds == {"edit", "apply", "write", "rewrite"}

ASSUME QueueAssumption ==
  /\ None \notin Writers \cup Docs
  /\ Kinds \subseteq AllKinds
  /\ HeavyPerTick \in Nat \ {0} /\ FastPerTick \in Nat

VARIABLES
  body,         \* the documents
  loaded,       \* whether they are in the docs map
  lock,         \* who holds their awareness for writing
  suggestions,  \* the suggestions index
  search,       \* the full-text index
  \* the pending map: generation (0: no entry), suggestions_scanned_generation,
  \* whether the entry holds a lease, and the entries with an older first_queued
  generation, scanned, leased, older,
  \* the worker: where it is, the copied generations, the documents each lane
  \* still has to visit, the current one, and the body read from it
  kpc, copyGen, copyScanned, fast, heavy, kdoc, kseen,
  \* the writers: where they are, the kind of change, the document, the body
  wpc, wkind, wdoc, wseen,
  waited,       \* history: ticks that left a ready document unindexed
  overtaken     \* history: documents whose index a handler set back

docVars     == <<body, loaded, lock>>
indexVars   == <<suggestions, search>>
pendingVars == <<generation, scanned, leased, older>>
workerVars  == <<kpc, copyGen, copyScanned, fast, heavy, kdoc, kseen>>
writerVars  == <<wpc, wkind, wdoc, wseen>>
historyVars == <<waited, overtaken>>
vars == <<docVars, indexVars, pendingVars, workerVars, writerVars, historyVars>>

WorkerPC == {"idle", "next", "fastScan", "fastAck", "heavyScan", "heavyAdd",
             "heavyAck"}
WriterPC == {"idle", "changed", "queued", "unlocked", "scanning", "adding"}

TypeOK ==
  /\ body \in [Docs -> Nat] /\ loaded \in [Docs -> BOOLEAN]
  /\ lock \in [Docs -> Writers \cup {None}]
  /\ suggestions \in [Docs -> Nat] /\ search \in [Docs -> Nat]
  /\ generation \in [Docs -> Nat] /\ scanned \in [Docs -> Nat]
  /\ leased \in [Docs -> BOOLEAN]
  /\ older \in [Docs -> SUBSET Docs] /\ \A d \in Docs : d \notin older[d]
  /\ kpc \in WorkerPC
  /\ copyGen \in [Docs -> Nat] /\ copyScanned \in [Docs -> Nat]
  /\ fast \in SUBSET Docs /\ heavy \in SUBSET Docs
  /\ kdoc \in Docs \cup {None} /\ kseen \in Nat
  /\ wpc \in [Writers -> WriterPC] /\ wkind \in [Writers -> AllKinds]
  /\ wdoc \in [Writers -> Docs \cup {None}] /\ wseen \in [Writers -> Nat]
  /\ waited \in [Docs -> Nat] /\ overtaken \in SUBSET Docs

\* startup_reindex has indexed every document there is.
Init ==
  /\ body = [d \in Docs |-> 0]
  /\ loaded = [d \in Docs |-> TRUE]
  /\ lock = [d \in Docs |-> None]
  /\ suggestions = [d \in Docs |-> 0] /\ search = [d \in Docs |-> 0]
  /\ generation = [d \in Docs |-> 0] /\ scanned = [d \in Docs |-> 0]
  /\ leased = [d \in Docs |-> FALSE] /\ older = [d \in Docs |-> {}]
  /\ kpc = "idle"
  /\ copyGen = [d \in Docs |-> 0] /\ copyScanned = [d \in Docs |-> 0]
  /\ fast = {} /\ heavy = {} /\ kdoc = None /\ kseen = 0
  /\ wpc = [w \in Writers |-> "idle"] /\ wkind = [w \in Writers |-> "edit"]
  /\ wdoc = [w \in Writers |-> None] /\ wseen = [w \in Writers |-> 0]
  /\ waited = [d \in Docs |-> 0] /\ overtaken = {}

Pending == {d \in Docs : generation[d] > 0}

WorkerReads(d) == kpc \in {"fastScan", "heavyScan"} /\ kdoc = d
WriterReads(w, d) == wpc[w] = "scanning" /\ wdoc[w] = d

\* Nobody holds the awareness of d for reading.
NoReaders(d) == ~WorkerReads(d) /\ \A w \in Writers : ~WriterReads(w, d)

-----------------------------------------------------------------------------
(* The pending map *)

\* upsert_pending_update: a new entry is the youngest; an old one keeps its
\* place.
Upsert(d, lease) ==
  /\ generation' = [generation EXCEPT ![d] = @ + 1]
  /\ leased' = [leased EXCEPT ![d] = @ \/ lease]
  /\ older' = IF generation[d] = 0 THEN [older EXCEPT ![d] = Pending] ELSE older
  /\ UNCHANGED scanned

\* Nobody is behind d any more.
Younger(d) == [e \in Docs |-> older[e] \ {d}]

\* Mutant: the entry that stays is put behind everybody, itself included.
Acknowledge_BehindItself(d) ==
  /\ older' = [Younger(d) EXCEPT ![d] = Pending]
  /\ UNCHANGED <<generation, scanned, leased>>

\* acknowledge_generation: the entry goes if it is still the one that was
\* copied; otherwise it stays, as the youngest.
Acknowledge(d) ==
  IF generation[d] = copyGen[d]
  THEN /\ generation' = [generation EXCEPT ![d] = 0]
       /\ scanned' = [scanned EXCEPT ![d] = 0]
       /\ leased' = [leased EXCEPT ![d] = FALSE]
       /\ older' = [Younger(d) EXCEPT ![d] = {}]
  ELSE /\ older' = [Younger(d) EXCEPT ![d] = Pending \ {d}]
       /\ UNCHANGED <<generation, scanned, leased>>

-----------------------------------------------------------------------------
(* GC and loads *)

\* GC evicts a document whose awareness nobody holds: no lease, no task.
Evict(d) ==
  /\ loaded[d] /\ ~leased[d] /\ lock[d] = None /\ NoReaders(d)
  /\ loaded' = [loaded EXCEPT ![d] = FALSE]
  /\ UNCHANGED <<body, lock, indexVars, pendingVars, workerVars, writerVars,
                 historyVars>>

Load(d) ==
  /\ ~loaded[d]
  /\ loaded' = [loaded EXCEPT ![d] = TRUE]
  /\ UNCHANGED <<body, lock, indexVars, pendingVars, workerVars, writerVars,
                 historyVars>>

-----------------------------------------------------------------------------
(* Writers *)

\* The writer's task is over, and what it had read is gone.
Idles(w) ==
  /\ wpc' = [wpc EXCEPT ![w] = "idle"]
  /\ wkind' = [wkind EXCEPT ![w] = "edit"]
  /\ wdoc' = [wdoc EXCEPT ![w] = None]
  /\ wseen' = [wseen EXCEPT ![w] = 0]

\* A transaction on the document under the awareness write lock.
Change(w, d, kind) ==
  /\ wpc[w] = "idle" /\ loaded[d] /\ lock[d] = None /\ NoReaders(d)
  /\ body[d] < MaxBody
  /\ lock' = [lock EXCEPT ![d] = w]
  /\ body' = [body EXCEPT ![d] = @ + 1]
  /\ wpc' = [wpc EXCEPT ![w] = "changed"]
  /\ wkind' = [wkind EXCEPT ![w] = kind] /\ wdoc' = [wdoc EXCEPT ![w] = d]
  /\ UNCHANGED <<loaded, indexVars, pendingVars, workerVars, wseen, historyVars>>

\* Mutant: the callback queues without a lease.
Callback_NoLease(w) ==
  /\ wpc[w] = "changed"
  /\ wpc' = [wpc EXCEPT ![w] = "queued"]
  /\ IF wkind[w] = "rewrite" THEN UNCHANGED pendingVars ELSE Upsert(wdoc[w], FALSE)
  /\ UNCHANGED <<docVars, indexVars, workerVars, wkind, wdoc, wseen, historyVars>>

\* The transaction commits: the update callback queues the document with a
\* lease, unless the change is the link indexer's own.
Callback(w) ==
  /\ wpc[w] = "changed"
  /\ wpc' = [wpc EXCEPT ![w] = "queued"]
  /\ IF wkind[w] = "rewrite" THEN UNCHANGED pendingVars ELSE Upsert(wdoc[w], TRUE)
  /\ UNCHANGED <<docVars, indexVars, workerVars, wkind, wdoc, wseen, historyVars>>

\* The lock is let go, by handle_apply_suggestions after it has rescanned.
Unlock(w) ==
  /\ wpc[w] = "queued"
  /\ lock' = [lock EXCEPT ![wdoc[w]] = None]
  /\ suggestions' = [suggestions EXCEPT ![wdoc[w]] =
                       IF wkind[w] = "apply" THEN body[wdoc[w]] ELSE @]
  /\ IF wkind[w] = "write"
     THEN wpc' = [wpc EXCEPT ![w] = "unlocked"] /\ UNCHANGED <<wkind, wdoc, wseen>>
     ELSE Idles(w)
  /\ UNCHANGED <<body, loaded, search, pendingVars, workerVars, historyVars>>

\* search_handle_content_update, called by the handler itself: the body is
\* read under the read lock, unless the document has been evicted.
HandlerReads(w) ==
  /\ wpc[w] = "unlocked" /\ lock[wdoc[w]] = None
  /\ IF loaded[wdoc[w]]
     THEN /\ wpc' = [wpc EXCEPT ![w] = "scanning"]
          /\ wseen' = [wseen EXCEPT ![w] = body[wdoc[w]]]
          /\ UNCHANGED <<wkind, wdoc>>
     ELSE Idles(w)
  /\ UNCHANGED <<docVars, indexVars, pendingVars, workerVars, historyVars>>

\* ... its suggestions are stored before the read lock is let go ...
HandlerStores(w) ==
  /\ wpc[w] = "scanning"
  /\ suggestions' = [suggestions EXCEPT ![wdoc[w]] = wseen[w]]
  /\ wpc' = [wpc EXCEPT ![w] = "adding"]
  /\ UNCHANGED <<docVars, search, pendingVars, workerVars, wkind, wdoc, wseen,
                 historyVars>>

\* ... and the full-text index gets the body afterwards, however old by then.
HandlerAdds(w) ==
  /\ wpc[w] = "adding"
  /\ search' = [search EXCEPT ![wdoc[w]] = wseen[w]]
  /\ overtaken' = IF wseen[w] < search[wdoc[w]] THEN overtaken \cup {wdoc[w]}
                                                ELSE overtaken
  /\ Idles(w)
  /\ UNCHANGED <<docVars, suggestions, pendingVars, workerVars, waited>>

-----------------------------------------------------------------------------
(* search_worker *)

\* The n oldest documents of a set.
Oldest(S, n) == {d \in S : Cardinality(older[d] \cap S) < n}

\* What a tick decides.  ready: the debounce time has passed since the last
\* update or since the entry took its place in the queue; paused: since the
\* last update; slots: what the folders leave of the heavy lane.
Plan(ready, paused, slots, lane) ==
  LET wants == {d \in paused \ lane : scanned[d] < generation[d]}
  IN  /\ kpc = "idle" /\ ready # {}
      /\ copyGen' = generation /\ copyScanned' = scanned
      /\ heavy' = lane /\ fast' = Oldest(wants, FastPerTick)
      /\ waited' = [d \in Docs |-> IF d \in ready \ lane /\ slots > 0
                                   THEN waited[d] + 1
                                   ELSE IF d \in lane THEN 0 ELSE waited[d]]
      /\ kpc' = "next"
      /\ UNCHANGED <<docVars, indexVars, pendingVars, kdoc, kseen, writerVars,
                     overtaken>>

\* Mutant: the backlog in map order, not sorted by first_queued.
Tick_AnyOrder(ready, paused, slots) ==
  \E lane \in SUBSET ready :
    Cardinality(lane) = slots /\ Plan(ready, paused, slots, lane)

\* A tick that finds ready documents: the pending map is copied, the oldest
\* go to the heavy lane, paused ones beyond it that are not scanned yet to the
\* fast lane.
Tick(ready, paused, slots) ==
  Plan(ready, paused, slots, Oldest(ready, slots))

\* The worker is done with a document.
LeavesDoc == kpc' = "next" /\ kdoc' = None /\ kseen' = 0

\* suggestions_fast_scan: the next document of the fast lane; a missing one
\* is left for another tick.
FastRead(d) ==
  /\ kpc = "next" /\ d \in fast /\ lock[d] = None
  /\ IF loaded[d]
     THEN kpc' = "fastScan" /\ kdoc' = d /\ kseen' = body[d] /\ UNCHANGED fast
     ELSE fast' = fast \ {d} /\ UNCHANGED <<kpc, kdoc, kseen>>
  /\ UNCHANGED <<docVars, indexVars, pendingVars, copyGen, copyScanned, heavy,
                 writerVars, historyVars>>

\* Its suggestions are stored under the read lock, which is then let go.
FastStore ==
  /\ kpc = "fastScan"
  /\ suggestions' = [suggestions EXCEPT ![kdoc] = kseen]
  /\ kpc' = "fastAck"
  /\ UNCHANGED <<docVars, search, pendingVars, copyGen, copyScanned, fast, heavy,
                 kdoc, kseen, writerVars, historyVars>>

\* Mutant: the watermark is set to the generation found, not the one copied.
FastAck_Newest ==
  /\ kpc = "fastAck"
  /\ scanned' = [scanned EXCEPT ![kdoc] = generation[kdoc]]
  /\ fast' = fast \ {kdoc} /\ LeavesDoc
  /\ UNCHANGED <<docVars, indexVars, generation, leased, older,
                 copyGen, copyScanned, heavy, writerVars, historyVars>>

\* acknowledge_suggestions_generation: the watermark only rises, and only on
\* an entry that is still there.
FastAck ==
  /\ kpc = "fastAck"
  /\ scanned' = [scanned EXCEPT ![kdoc] =
       IF generation[kdoc] > 0 /\ @ < copyGen[kdoc] THEN copyGen[kdoc] ELSE @]
  /\ fast' = fast \ {kdoc} /\ LeavesDoc
  /\ UNCHANGED <<docVars, indexVars, generation, leased, older,
                 copyGen, copyScanned, heavy, writerVars, historyVars>>

\* search_handle_content_update_inner: the next document of the heavy lane,
\* when the fast lane is done; one that is missing is only acknowledged.
HeavyRead(d) ==
  /\ kpc = "next" /\ fast = {} /\ d \in heavy /\ lock[d] = None
  /\ kdoc' = d /\ kseen' = body[d]
  /\ kpc' = IF loaded[d] THEN "heavyScan" ELSE "heavyAck"
  /\ UNCHANGED <<docVars, indexVars, pendingVars, copyGen, copyScanned, fast,
                 heavy, writerVars, historyVars>>

\* Mutant: the read lock is let go, and other writers pass, before the
\* suggestions are stored.
HeavyStore_Unlocked ==
  /\ kpc \in {"heavyScan", "heavyAdd"}
  /\ kpc' = IF kpc = "heavyScan" THEN "heavyAdd" ELSE "heavyAck"
  /\ suggestions' = IF kpc = "heavyAdd" /\ copyScanned[kdoc] < copyGen[kdoc]
                    THEN [suggestions EXCEPT ![kdoc] = kseen] ELSE suggestions
  /\ search' = IF kpc = "heavyAdd" THEN [search EXCEPT ![kdoc] = kseen] ELSE search
  /\ UNCHANGED <<docVars, pendingVars, copyGen, copyScanned, fast, heavy, kdoc,
                 kseen, writerVars, historyVars>>

\* Its suggestions are stored under the read lock, unless the fast lane had
\* scanned this generation; the lock is let go.
HeavyStore ==
  /\ kpc = "heavyScan"
  /\ suggestions' = IF copyScanned[kdoc] < copyGen[kdoc]
                    THEN [suggestions EXCEPT ![kdoc] = kseen] ELSE suggestions
  /\ kpc' = "heavyAdd"
  /\ UNCHANGED <<docVars, search, pendingVars, copyGen, copyScanned, fast, heavy,
                 kdoc, kseen, writerVars, historyVars>>

HeavyAdd ==
  /\ kpc = "heavyAdd"
  /\ search' = [search EXCEPT ![kdoc] = kseen]
  /\ overtaken' = overtaken \ {kdoc}
  /\ kpc' = "heavyAck"
  /\ UNCHANGED <<docVars, suggestions, pendingVars, copyGen, copyScanned, fast,
                 heavy, kdoc, kseen, writerVars, waited>>

\* Mutants: the entry goes whatever its generation; it never does, because
\* the fast lane's watermark is compared.
HeavyAck_Always ==
  /\ kpc = "heavyAck"
  /\ generation' = [generation EXCEPT ![kdoc] = 0]
  /\ scanned' = [scanned EXCEPT ![kdoc] = 0]
  /\ leased' = [leased EXCEPT ![kdoc] = FALSE]
  /\ older' = Younger(kdoc)
  /\ heavy' = heavy \ {kdoc} /\ LeavesDoc
  /\ UNCHANGED <<docVars, indexVars, copyGen, copyScanned, fast,
                 writerVars, historyVars>>

HeavyAck_Watermark ==
  /\ kpc = "heavyAck"
  /\ IF scanned[kdoc] = generation[kdoc] THEN Acknowledge(kdoc)
                                         ELSE UNCHANGED pendingVars
  /\ heavy' = heavy \ {kdoc} /\ LeavesDoc
  /\ UNCHANGED <<docVars, indexVars, copyGen, copyScanned, fast, writerVars,
                 historyVars>>

HeavyAck ==
  /\ kpc = "heavyAck"
  /\ Acknowledge(kdoc)
  /\ heavy' = heavy \ {kdoc} /\ LeavesDoc
  /\ UNCHANGED <<docVars, indexVars, copyGen, copyScanned, fast, writerVars,
                 historyVars>>

\* The tick is over, its copy is dropped.
EndTick ==
  /\ kpc = "next" /\ fast = {} /\ heavy = {}
  /\ kpc' = "idle"
  /\ copyGen' = [d \in Docs |-> 0] /\ copyScanned' = [d \in Docs |-> 0]
  /\ UNCHANGED <<docVars, indexVars, pendingVars, fast, heavy, kdoc, kseen,
                 writerVars, historyVars>>

-----------------------------------------------------------------------------
WriterStep(w) ==
  \/ \E d \in Docs, kind \in Kinds : Change(w, d, kind)
  \/ Callback(w) \/ Unlock(w)
  \/ HandlerReads(w) \/ HandlerStores(w) \/ HandlerAdds(w)

\* A tick that finds at least the documents S ready, and room for one of them.
TickFor(S, room) ==
  \E ready \in SUBSET Pending : \E paused \in SUBSET ready :
    \E slots \in room..HeavyPerTick : S \subseteq ready /\ Tick(ready, paused, slots)

WorkerReadsNext == \E d \in Docs : FastRead(d) \/ HeavyRead(d)

WorkerRuns == FastStore \/ FastAck \/ HeavyStore \/ HeavyAdd \/ HeavyAck \/ EndTick

WorkerStep == TickFor({}, 0) \/ WorkerReadsNext \/ WorkerRuns

DocStep(d) == Evict(d) \/ Load(d)

Next ==
  \/ \E w \in Writers : WriterStep(w)
  \/ WorkerStep
  \/ \E d \in Docs : DocStep(d)

(***************************************************************************)
(* A task that holds a lock goes on and lets it go, and the worker runs    *)
(* on.  A lock that is free again and again is granted.  A pending         *)
(* document becomes ready with time and stays so, and the folders leave    *)
(* room in the heavy lane now and then, so the polls of the worker go on   *)
(* finding it ready and the lane open.                                     *)
(***************************************************************************)
Fairness ==
  /\ \A w \in Writers :
       /\ WF_vars(Callback(w) \/ Unlock(w) \/ HandlerStores(w) \/ HandlerAdds(w))
       /\ SF_vars(HandlerReads(w))
  /\ WF_vars(WorkerRuns) /\ SF_vars(WorkerReadsNext)
  /\ \A d \in Docs : SF_vars(TickFor({d}, 1))

Spec == Init /\ [][Next]_vars
FairSpec == Spec /\ Fairness

-----------------------------------------------------------------------------
(* Properties *)

\* The lease protocol: a document with work pending is not evicted, so that no
\* pass of the worker finds it missing and acknowledges work it has not done.
QueuedStaysLoaded == \A d \in Docs : generation[d] > 0 => loaded[d]

\* "Kept current by the search worker": a document with nothing pending, and
\* nobody inside it, has its latest body in the suggestions index.
SuggestionsCurrent ==
  \A d \in Docs : generation[d] = 0 /\ lock[d] = None => suggestions[d] = body[d]

\* The watermark tells the truth: when it has reached the generation, the
\* heavy lane loses nothing by skipping the rescan.
WatermarkIsTrue ==
  \A d \in Docs :
    generation[d] > 0 /\ scanned[d] = generation[d] /\ lock[d] = None =>
      suggestions[d] = body[d]

\* A scan of an older body never overwrites a newer state of the suggestions
\* index: the worker's two lanes, the handlers and the apply endpoint are
\* ordered by the document's lock.
SuggestionsNeverGoBack ==
  [][\A d \in Docs : suggestions'[d] >= suggestions[d]]_vars

\* The full-text index is written outside the lock.  With nothing pending it
\* has the latest body, unless a handler that indexes by itself was overtaken
\* by the worker and put an older body back.
SearchCurrentUnlessOvertaken ==
  \A d \in Docs :
    generation[d] = 0 /\ lock[d] = None /\ d \notin overtaken =>
      search[d] = body[d]

\* "A sustained backlog can't starve any one doc": a ready document is passed
\* over at most once for each other document.
NobodyIsStarved == \A d \in Docs : waited[d] < Cardinality(Docs)

\* Whatever is queued is indexed, and leaves the queue.
QueueDrains == \A d \in Docs : generation[d] > 0 ~> generation[d] = 0
=============================================================================
