------------------------- MODULE SearchQueueProofs --------------------------
(***************************************************************************)
(* SearchQueue, proved for any documents, writers, lane sizes and number   *)
(* of changes.                                                             *)
(*                                                                         *)
(* The argument, in layers, each inductive on top of those before it.      *)
(* A writer that has changed a document holds its lock until the callback  *)
(* has queued it (Places); a queued document has a lease, so it stays in   *)
(* the map (Leases).  Whoever scans a document reads its current body,     *)
(* because the lock is not let go before the scan is stored (Readers).     *)
(* The generations the worker copied are never ahead of the pending map's  *)
(* (Copies).  A generation that has not moved since the worker copied it   *)
(* means that the body has not either, so what is marked or acknowledged   *)
(* was scanned (Marks) and indexed (Indexed).  Last, the queue is ordered, *)
(* so whoever a tick passes over is behind one that it takes: the times a  *)
(* document was passed over and the entries before it add up to less than  *)
(* the documents there are (Turns).                                        *)
(***************************************************************************)
EXTENDS SearchQueue, FiniteSetTheorems, WellFoundedInduction, TLAPS

\* Links rewritten after a move do not pass through the pending map.
NoRewrites == "rewrite" \notin Kinds

\* The types, by the group of variables.
DocsOK == body \in [Docs -> Nat] /\ loaded \in [Docs -> BOOLEAN]
          /\ lock \in [Docs -> Writers \cup {None}]
IndexOK == suggestions \in [Docs -> Nat] /\ search \in [Docs -> Nat]
PendingOK == /\ generation \in [Docs -> Nat] /\ scanned \in [Docs -> Nat]
             /\ leased \in [Docs -> BOOLEAN]
             /\ older \in [Docs -> SUBSET Docs] /\ \A d \in Docs : d \notin older[d]
WorkerOK == /\ kpc \in WorkerPC
            /\ copyGen \in [Docs -> Nat] /\ copyScanned \in [Docs -> Nat]
            /\ fast \in SUBSET Docs /\ heavy \in SUBSET Docs
            /\ kdoc \in Docs \cup {None} /\ kseen \in Nat
WriterOK == /\ wpc \in [Writers -> WriterPC] /\ wkind \in [Writers -> AllKinds]
            /\ wdoc \in [Writers -> Docs \cup {None}] /\ wseen \in [Writers -> Nat]
HistoryOK == waited \in [Docs -> Nat] /\ overtaken \in SUBSET Docs

\* A document is locked by the writer that has changed it, and by no other;
\* whoever is at work has a document.
Places ==
  /\ \A w \in Writers : wpc[w] # "idle" => wdoc[w] \in Docs
  /\ \A w \in Writers : wpc[w] \in {"changed", "queued"} => lock[wdoc[w]] = w
  /\ \A d \in Docs : lock[d] # None =>
       wpc[lock[d]] \in {"changed", "queued"} /\ wdoc[lock[d]] = d
  /\ kpc \notin {"idle", "next"} => kdoc \in Docs

\* What is queued is leased, and what is leased or locked is in the map.
Leases ==
  \A d \in Docs : /\ generation[d] > 0 => leased[d] /\ loaded[d]
                  /\ lock[d] # None => loaded[d]

\* Whoever scans reads the current body, which nobody can lock meanwhile; no
\* index entry is newer than its document.
Readers ==
  /\ \A d \in Docs : WorkerReads(d) => lock[d] = None /\ kseen = body[d]
  /\ \A d \in Docs, w \in Writers :
       WriterReads(w, d) => lock[d] = None /\ wseen[w] = body[d]
  /\ \A d \in Docs : suggestions[d] <= body[d]

\* No change of d waits for its callback.
Settled(d) == \A w \in Writers : wpc[w] = "changed" => wdoc[w] # d

\* The lanes hold entries that are still pending, no older than their copies;
\* the worker is in the lane of its current document.
Copies ==
  /\ kpc = "idle" => fast = {} /\ heavy = {}
  /\ kpc \in {"fastScan", "fastAck"} => kdoc \in fast
  /\ kpc \in {"heavyScan", "heavyAdd", "heavyAck"} => kdoc \in heavy /\ fast = {}
  /\ fast \cap heavy = {}
  /\ \A d \in fast \cup heavy : 0 < copyGen[d] /\ copyGen[d] <= generation[d]
                                /\ copyScanned[d] <= copyGen[d]
  /\ \A d \in Docs : scanned[d] <= generation[d]

\* d is in the suggestions index as it is; its copied generation is the last.
Scanned(d) == suggestions[d] = body[d]
Latest(d) == copyGen[d] = generation[d] /\ Settled(d)

\* What is marked as scanned, in the pending map or in its copy, is; so is what
\* the worker is about to mark or acknowledge.
Marks ==
  /\ \A w \in Writers : wkind[w] # "rewrite"
  /\ \A d \in Docs : scanned[d] = generation[d] /\ Settled(d) => Scanned(d)
  /\ \A d \in fast \cup heavy : copyScanned[d] = copyGen[d] /\ Latest(d) => Scanned(d)
  /\ kpc \in {"fastAck", "heavyAdd", "heavyAck"} /\ Latest(kdoc) => Scanned(kdoc)

\* What is not pending, or about to be acknowledged, is in the full-text index.
Indexed ==
  /\ \A d \in Docs : search[d] <= body[d]
  /\ \A w \in Writers : wpc[w] = "adding" => wseen[w] <= body[wdoc[w]]
  /\ kpc = "heavyAdd" => kseen <= body[kdoc] /\ (Latest(kdoc) => kseen = body[kdoc])
  /\ kpc = "heavyAck" /\ Latest(kdoc) /\ kdoc \notin overtaken =>
       search[kdoc] = body[kdoc]
  /\ \A d \in Docs : generation[d] = 0 /\ Settled(d) /\ d \notin overtaken =>
       search[d] = body[d]

-----------------------------------------------------------------------------
(* Types and places *)

\* The first layer: what every other one needs.
Base == DocsOK /\ IndexOK /\ PendingOK /\ WorkerOK /\ WriterOK /\ HistoryOK /\ Places

\* Everything starts typed, idle and unlocked.
LEMMA InitBase == Init => Base
<1> SUFFICES ASSUME Init PROVE Base
  OBVIOUS
<1>1. DocsOK
  BY Zenon DEF Init, DocsOK
<1>2. IndexOK
  BY DEF Init, IndexOK
<1>3. PendingOK
  <2>1. leased \in [Docs -> BOOLEAN]
    BY Zenon DEF Init
  <2>2. generation \in [Docs -> Nat] /\ scanned \in [Docs -> Nat]
    BY DEF Init
  <2>3. older \in [Docs -> SUBSET Docs] /\ \A d \in Docs : d \notin older[d]
    BY Zenon DEF Init
  <2>. QED BY <2>1, <2>2, <2>3 DEF PendingOK
<1>4. WorkerOK
  BY DEF Init, WorkerOK, WorkerPC
<1>5. WriterOK
  BY DEF Init, WriterOK, WriterPC, AllKinds
<1>6. HistoryOK
  BY DEF Init, HistoryOK
<1>7. Places
  BY DEF Init, Places
<1>. QED BY <1>1, <1>2, <1>3, <1>4, <1>5, <1>6, <1>7 DEF Base

\* An entry that is new or changed again keeps the pending map well formed.
LEMMA UpsertTyped ==
  ASSUME PendingOK, NEW d \in Docs, NEW lease \in BOOLEAN, Upsert(d, lease)
  PROVE  PendingOK'
<1>1. leased' \in [Docs -> BOOLEAN]
  BY Zenon DEF PendingOK, Upsert
<1>2. /\ generation' = [generation EXCEPT ![d] = @ + 1] /\ scanned' = scanned
      /\ older' = IF generation[d] = 0 THEN [older EXCEPT ![d] = Pending] ELSE older
  BY Zenon DEF Upsert
<1>3. /\ generation \in [Docs -> Nat] /\ scanned \in [Docs -> Nat]
      /\ older \in [Docs -> SUBSET Docs] /\ \A e \in Docs : e \notin older[e]
  BY Zenon DEF PendingOK
<1>4. generation' \in [Docs -> Nat] /\ scanned' \in [Docs -> Nat]
  BY <1>2, <1>3
<1>5. older' \in [Docs -> SUBSET Docs] /\ \A e \in Docs : e \notin older'[e]
  BY <1>2, <1>3 DEF Pending
<1>. QED BY <1>1, <1>4, <1>5 DEF PendingOK

\* So does an entry that is acknowledged, whether it goes or stays.
LEMMA AcknowledgeTyped ==
  ASSUME PendingOK, NEW d \in Docs, Acknowledge(d)
  PROVE  PendingOK'
<1>1. /\ generation \in [Docs -> Nat] /\ scanned \in [Docs -> Nat]
      /\ leased \in [Docs -> BOOLEAN]
      /\ older \in [Docs -> SUBSET Docs] /\ \A e \in Docs : e \notin older[e]
  BY Zenon DEF PendingOK
<1>2. /\ Younger(d) \in [Docs -> SUBSET Docs]
      /\ \A e \in Docs : e \notin Younger(d)[e]
  BY <1>1 DEF Younger
<1>3. /\ Pending \in SUBSET Docs
  BY DEF Pending
<1>4. CASE generation[d] = copyGen[d]
  <2>1. leased' \in [Docs -> BOOLEAN]
    BY <1>1, <1>4, Zenon DEF Acknowledge
  <2>2. /\ generation' = [generation EXCEPT ![d] = 0]
        /\ scanned' = [scanned EXCEPT ![d] = 0]
        /\ older' = [Younger(d) EXCEPT ![d] = {}]
    BY <1>4, Zenon DEF Acknowledge
  <2>3. generation' \in [Docs -> Nat] /\ scanned' \in [Docs -> Nat]
    BY <1>1, <2>2
  <2>4. older' \in [Docs -> SUBSET Docs] /\ \A e \in Docs : e \notin older'[e]
    BY <1>2, <2>2
  <2>. QED BY <2>1, <2>3, <2>4 DEF PendingOK
<1>5. CASE generation[d] # copyGen[d]
  <2>1. /\ older' = [Younger(d) EXCEPT ![d] = Pending \ {d}]
        /\ UNCHANGED <<generation, scanned, leased>>
    BY <1>5, Zenon DEF Acknowledge
  <2>2. older' \in [Docs -> SUBSET Docs] /\ \A e \in Docs : e \notin older'[e]
    BY <1>2, <1>3, <2>1
  <2>. QED BY <1>1, <2>1, <2>2, Zenon DEF PendingOK
<1>. QED BY <1>4, <1>5

\* Every step keeps the types and the locks.
LEMMA StepBase == Base /\ [Next]_vars => Base'
<1> SUFFICES ASSUME Base, [Next]_vars PROVE Base'
  OBVIOUS
<1> USE QueueAssumption DEF docVars, indexVars, pendingVars, workerVars, writerVars,
                            historyVars
<1>b. DocsOK /\ IndexOK /\ PendingOK /\ WorkerOK /\ WriterOK /\ HistoryOK /\ Places
  BY DEF Base
<1>1. ASSUME NEW w \in Writers, NEW d \in Docs, NEW kind \in Kinds, Change(w, d, kind)
      PROVE  Base'
  <2>1. DocsOK' /\ WriterOK'
    <3>1. DocsOK'
      BY <1>b, <1>1 DEF Change, DocsOK
    <3>2. WriterOK'
      BY <1>b, <1>1 DEF Change, WriterOK, WriterPC
    <3>. QED BY <3>1, <3>2
  <2>2. IndexOK' /\ PendingOK' /\ WorkerOK' /\ HistoryOK'
    BY <1>b, <1>1 DEF Change, IndexOK, PendingOK, WorkerOK, HistoryOK
  <2>3. Places'
    BY <1>b, <1>1 DEF Change, Places, DocsOK, WriterOK
  <2>. QED BY <2>1, <2>2, <2>3 DEF Base
<1>2. ASSUME NEW w \in Writers, Callback(w) PROVE Base'
  <2>1. DocsOK' /\ IndexOK' /\ WorkerOK' /\ HistoryOK'
    BY <1>b, <1>2 DEF Callback, DocsOK, IndexOK, WorkerOK, HistoryOK
  <2>2. WriterOK' /\ Places'
    BY <1>b, <1>2 DEF Callback, WriterOK, WriterPC, Places
  <2>3. PendingOK'
    <3>1. CASE wkind[w] = "rewrite"
      BY <1>b, <1>2, <3>1, Zenon DEF Callback, PendingOK
    <3>2. CASE wkind[w] # "rewrite"
      <4>1. wdoc[w] \in Docs /\ TRUE \in BOOLEAN
        BY <1>b, <1>2 DEF Callback, Places
      <4>2. Upsert(wdoc[w], TRUE)
        BY <1>2, <3>2, Zenon DEF Callback
      <4>. QED BY <1>b, <4>1, <4>2, UpsertTyped, Zenon
    <3>. QED BY <3>1, <3>2
  <2>. QED BY <2>1, <2>2, <2>3 DEF Base
<1>3. ASSUME NEW w \in Writers, Unlock(w) PROVE Base'
  <2>1. DocsOK' /\ IndexOK'
    BY <1>b, <1>3 DEF Unlock, DocsOK, IndexOK, Places
  <2>2. PendingOK' /\ WorkerOK' /\ HistoryOK'
    BY <1>b, <1>3 DEF Unlock, PendingOK, WorkerOK, HistoryOK
  <2>3. WriterOK'
    BY <1>b, <1>3 DEF Unlock, Idles, WriterOK, WriterPC, AllKinds
  <2>4. Places'
    BY <1>b, <1>3 DEF Unlock, Idles, WriterOK, DocsOK, Places
  <2>. QED BY <2>1, <2>2, <2>3, <2>4 DEF Base
<1>4. ASSUME NEW w \in Writers, HandlerReads(w) PROVE Base'
  <2>1. DocsOK' /\ IndexOK' /\ PendingOK' /\ WorkerOK' /\ HistoryOK'
    BY <1>b, <1>4 DEF HandlerReads, DocsOK, IndexOK, PendingOK, WorkerOK, HistoryOK
  <2>2. WriterOK'
    BY <1>b, <1>4 DEF HandlerReads, Idles, WriterOK, WriterPC, AllKinds, DocsOK, Places
  <2>3. Places'
    <3>1. CASE loaded[wdoc[w]]
      <4>1. /\ wpc[w] = "unlocked" /\ wpc' = [wpc EXCEPT ![w] = "scanning"]
            /\ UNCHANGED <<wdoc, lock, kpc, kdoc>>
        BY <1>4, <3>1 DEF HandlerReads
      <4>. QED BY <1>b, <4>1 DEF WriterOK, Places, DocsOK
    <3>2. CASE ~loaded[wdoc[w]]
      BY <1>b, <1>4, <3>2 DEF HandlerReads, Idles, WriterOK, Places, DocsOK
    <3>. QED BY <3>1, <3>2
  <2>. QED BY <2>1, <2>2, <2>3 DEF Base
<1>5. ASSUME NEW w \in Writers, HandlerStores(w) PROVE Base'
  <2>1. DocsOK' /\ PendingOK' /\ WorkerOK' /\ HistoryOK'
    BY <1>b, <1>5 DEF HandlerStores, DocsOK, PendingOK, WorkerOK, HistoryOK
  <2>2. IndexOK' /\ WriterOK'
    BY <1>b, <1>5 DEF HandlerStores, IndexOK, WriterOK, WriterPC
  <2>3. Places'
    BY <1>b, <1>5 DEF HandlerStores, WriterOK, Places
  <2>. QED BY <2>1, <2>2, <2>3 DEF Base
<1>6. ASSUME NEW w \in Writers, HandlerAdds(w) PROVE Base'
  <2>1. DocsOK' /\ PendingOK' /\ WorkerOK'
    BY <1>b, <1>6 DEF HandlerAdds, DocsOK, PendingOK, WorkerOK
  <2>2. IndexOK' /\ HistoryOK'
    BY <1>b, <1>6 DEF HandlerAdds, IndexOK, HistoryOK, WriterOK, Places
  <2>3. WriterOK'
    BY <1>b, <1>6 DEF HandlerAdds, Idles, WriterOK, WriterPC, AllKinds
  <2>4. Places'
    BY <1>b, <1>6 DEF HandlerAdds, Idles, WriterOK, Places
  <2>. QED BY <2>1, <2>2, <2>3, <2>4 DEF Base
<1>7. ASSUME NEW ready \in SUBSET Pending, NEW paused \in SUBSET ready,
             NEW slots \in 0..HeavyPerTick, Tick(ready, paused, slots)
      PROVE  Base'
  <2> USE DEF Tick, Plan
  <2>1. DocsOK' /\ IndexOK' /\ PendingOK' /\ WriterOK'
    BY <1>b, <1>7 DEF DocsOK, IndexOK, PendingOK, WriterOK
  <2>2. HistoryOK'
    BY <1>b, <1>7 DEF HistoryOK
  <2>3. WorkerOK'
    BY <1>b, <1>7 DEF WorkerOK, WorkerPC, PendingOK, Oldest, Pending
  <2>4. Places'
    BY <1>b, <1>7 DEF Places
  <2>. QED BY <2>1, <2>2, <2>3, <2>4 DEF Base
<1>8. ASSUME NEW d \in Docs, FastRead(d) \/ HeavyRead(d) PROVE Base'
  <2>1. DocsOK' /\ IndexOK' /\ PendingOK' /\ WriterOK' /\ HistoryOK'
    BY <1>b, <1>8 DEF FastRead, HeavyRead, DocsOK, IndexOK, PendingOK, WriterOK, HistoryOK
  <2>2. WorkerOK'
    BY <1>b, <1>8 DEF FastRead, HeavyRead, WorkerOK, WorkerPC, DocsOK
  <2>3. Places'
    BY <1>b, <1>8 DEF FastRead, HeavyRead, Places
  <2>. QED BY <2>1, <2>2, <2>3 DEF Base
<1>9. ASSUME FastStore \/ HeavyStore \/ HeavyAdd PROVE Base'
  <2> USE DEF FastStore, HeavyStore, HeavyAdd
  <2>1. DocsOK' /\ PendingOK' /\ WriterOK'
    BY <1>b, <1>9 DEF DocsOK, PendingOK, WriterOK
  <2>2. IndexOK' /\ HistoryOK' /\ WorkerOK'
    BY <1>b, <1>9 DEF IndexOK, HistoryOK, WorkerOK, WorkerPC
  <2>3. Places'
    BY <1>b, <1>9 DEF Places
  <2>. QED BY <2>1, <2>2, <2>3 DEF Base
<1>10. ASSUME FastAck PROVE Base'
  <2>1. DocsOK' /\ IndexOK' /\ WriterOK' /\ HistoryOK' /\ Places'
    BY <1>b, <1>10 DEF FastAck, LeavesDoc, DocsOK, IndexOK, WriterOK, HistoryOK, Places
  <2>2. WorkerOK'
    BY <1>b, <1>10 DEF FastAck, LeavesDoc, WorkerOK, WorkerPC
  <2>3. PendingOK'
    <3>1. scanned' \in [Docs -> Nat]
      BY <1>b, <1>10 DEF FastAck, PendingOK, WorkerOK, Places
    <3>2. UNCHANGED <<generation, leased, older>>
      BY <1>10, Zenon DEF FastAck
    <3>. QED BY <1>b, <3>1, <3>2, Zenon DEF PendingOK
  <2>. QED BY <2>1, <2>2, <2>3 DEF Base
<1>11. ASSUME HeavyAck PROVE Base'
  <2>1. DocsOK' /\ IndexOK' /\ WriterOK' /\ HistoryOK' /\ Places'
    BY <1>b, <1>11 DEF HeavyAck, LeavesDoc, DocsOK, IndexOK, WriterOK, HistoryOK, Places
  <2>2. WorkerOK'
    BY <1>b, <1>11 DEF HeavyAck, LeavesDoc, WorkerOK, WorkerPC
  <2>3. PendingOK'
    <3>1. Acknowledge(kdoc) /\ kdoc \in Docs
      BY <1>b, <1>11 DEF HeavyAck, Places
    <3>. QED BY <1>b, <3>1, AcknowledgeTyped, Zenon
  <2>. QED BY <2>1, <2>2, <2>3 DEF Base
<1>12. ASSUME EndTick PROVE Base'
  <2>1. DocsOK' /\ IndexOK' /\ PendingOK' /\ WriterOK' /\ HistoryOK' /\ Places'
    BY <1>b, <1>12 DEF EndTick, DocsOK, IndexOK, PendingOK, WriterOK, HistoryOK, Places
  <2>2. WorkerOK'
    BY <1>b, <1>12 DEF EndTick, WorkerOK, WorkerPC
  <2>. QED BY <2>1, <2>2 DEF Base
<1>13. ASSUME NEW d \in Docs, Evict(d) \/ Load(d) PROVE Base'
  <2>1. IndexOK' /\ PendingOK' /\ WorkerOK' /\ WriterOK' /\ HistoryOK' /\ Places'
    BY <1>b, <1>13 DEF Evict, Load, IndexOK, PendingOK, WorkerOK, WriterOK, HistoryOK, Places
  <2>2. DocsOK'
    BY <1>b, <1>13, Zenon DEF Evict, Load, DocsOK
  <2>. QED BY <2>1, <2>2 DEF Base
<1>14. CASE UNCHANGED vars
  BY <1>b, <1>14 DEF vars, Base, DocsOK, IndexOK, PendingOK, WorkerOK, WriterOK,
                     HistoryOK, Places
<1>. QED
  BY <1>1, <1>2, <1>3, <1>4, <1>5, <1>6, <1>7, <1>8, <1>9, <1>10, <1>11, <1>12, <1>13, <1>14
     DEF Next, WriterStep, WorkerStep, TickFor, WorkerReadsNext, WorkerRuns, DocStep

\* Every variable keeps its type, the locks and the pending map included.
THEOREM TypeCorrect == Spec => []TypeOK
<1>1. Base => TypeOK
  BY DEF Base, DocsOK, IndexOK, PendingOK, WorkerOK, WriterOK, HistoryOK, TypeOK
<1>. QED BY <1>1, InitBase, StepBase, PTL DEF Spec

-----------------------------------------------------------------------------
(* Leases *)

\* Nothing is pending and nothing locked at the start.
LEMMA InitLeases == Init => Leases
BY DEF Init, Leases

\* Every step keeps a queued or locked document in the map.
LEMMA StepLeases == Base /\ Leases /\ [Next]_vars => Leases'
<1> SUFFICES ASSUME Base, Leases, [Next]_vars PROVE Leases'
  OBVIOUS
<1> USE QueueAssumption DEF docVars, indexVars, pendingVars, workerVars, writerVars,
                            historyVars
<1>b. DocsOK /\ PendingOK /\ WorkerOK /\ WriterOK /\ Places
  BY DEF Base
<1>1. ASSUME NEW w \in Writers, NEW d \in Docs, NEW kind \in Kinds, Change(w, d, kind)
      PROVE  Leases'
  <2>1. /\ loaded[d] /\ \A e \in Docs : lock'[e] # None => lock[e] # None \/ e = d
        /\ UNCHANGED <<loaded, generation, leased>>
    BY <1>b, <1>1 DEF Change, DocsOK
  <2>. QED BY <2>1 DEF Leases
<1>2. ASSUME NEW w \in Writers, Callback(w) PROVE Leases'
  <2>1. wdoc[w] \in Docs /\ loaded[wdoc[w]] /\ UNCHANGED <<lock, loaded>>
    BY <1>b, <1>2 DEF Callback, Places, Leases
  <2>2. CASE wkind[w] = "rewrite"
    BY <1>2, <2>1, <2>2 DEF Callback, Leases
  <2>3. CASE wkind[w] # "rewrite"
    <3>1. /\ generation' = [generation EXCEPT ![wdoc[w]] = @ + 1]
          /\ leased' = [leased EXCEPT ![wdoc[w]] = @ \/ TRUE]
      BY <1>2, <2>3, Zenon DEF Callback, Upsert
    <3>2. /\ \A e \in Docs : e # wdoc[w] => leased'[e] = leased[e]
          /\ leased'[wdoc[w]]
      BY <1>b, <2>1, <3>1, Zenon DEF PendingOK
    <3>3. \A e \in Docs : e # wdoc[w] => generation'[e] = generation[e]
      BY <1>b, <2>1, <3>1 DEF PendingOK
    <3>. QED BY <2>1, <3>2, <3>3 DEF Leases
  <2>. QED BY <2>2, <2>3
<1>3. ASSUME NEW w \in Writers, Unlock(w) PROVE Leases'
  <2>1. /\ \A e \in Docs : lock'[e] # None => lock[e] # None
        /\ UNCHANGED <<loaded, generation, leased>>
    BY <1>b, <1>3 DEF Unlock, DocsOK
  <2>. QED BY <2>1 DEF Leases
<1>4. CASE HeavyAck
  <2>1. kdoc \in Docs /\ Acknowledge(kdoc) /\ UNCHANGED <<lock, loaded>>
    BY <1>b, <1>4 DEF HeavyAck, Places
  <2>2. CASE generation[kdoc] = copyGen[kdoc]
    <3>1. /\ generation' = [generation EXCEPT ![kdoc] = 0]
          /\ leased' = [leased EXCEPT ![kdoc] = FALSE]
      BY <2>1, <2>2, Zenon DEF Acknowledge
    <3>2. /\ generation'[kdoc] = 0
          /\ \A e \in Docs : e # kdoc => generation'[e] = generation[e]
      BY <1>b, <2>1, <3>1 DEF PendingOK
    <3>3. \A e \in Docs : e # kdoc => leased'[e] = leased[e]
      BY <1>b, <2>1, <3>1, Zenon DEF PendingOK
    <3>. QED BY <2>1, <3>2, <3>3 DEF Leases
  <2>3. CASE generation[kdoc] # copyGen[kdoc]
    BY <2>1, <2>3 DEF Acknowledge, Leases
  <2>. QED BY <2>2, <2>3
<1>5. ASSUME NEW d \in Docs, Evict(d) PROVE Leases'
  <2>1. /\ ~leased[d] /\ lock[d] = None
        /\ loaded' = [loaded EXCEPT ![d] = FALSE]
        /\ UNCHANGED <<lock, generation, leased>>
    BY <1>5, Zenon DEF Evict
  <2>2. \A e \in Docs : e # d => loaded'[e] = loaded[e]
    BY <1>b, <2>1, Zenon DEF DocsOK
  <2>. QED BY <2>1, <2>2 DEF Leases
<1>6. ASSUME NEW d \in Docs, Load(d) PROVE Leases'
  <2>1. loaded' = [loaded EXCEPT ![d] = TRUE] /\ UNCHANGED <<lock, generation, leased>>
    BY <1>6, Zenon DEF Load
  <2>2. \A e \in Docs : loaded[e] => loaded'[e]
    BY <1>b, <2>1, Zenon DEF DocsOK
  <2>. QED BY <2>1, <2>2 DEF Leases
<1>7. ASSUME UNCHANGED <<loaded, lock, generation, leased>> PROVE Leases'
  BY <1>7 DEF Leases
<1>8. ASSUME NEW w \in Writers, HandlerReads(w) \/ HandlerStores(w) \/ HandlerAdds(w)
      PROVE  Leases'
  BY <1>7, <1>8 DEF HandlerReads, HandlerStores, HandlerAdds
<1>9. ASSUME NEW ready \in SUBSET Pending, NEW paused \in SUBSET ready,
             NEW slots \in 0..HeavyPerTick, Tick(ready, paused, slots)
      PROVE  Leases'
  BY <1>7, <1>9 DEF Tick, Plan
<1>10. CASE WorkerReadsNext
  BY <1>7, <1>10 DEF WorkerReadsNext, FastRead, HeavyRead
<1>11. CASE FastStore \/ FastAck \/ HeavyStore \/ HeavyAdd \/ EndTick
  BY <1>7, <1>11 DEF FastStore, FastAck, HeavyStore, HeavyAdd, EndTick
<1>12. CASE UNCHANGED vars
  BY <1>7, <1>12 DEF vars
<1>. QED
  BY <1>1, <1>2, <1>3, <1>4, <1>5, <1>6, <1>8, <1>9, <1>10, <1>11, <1>12
     DEF Next, WriterStep, WorkerStep, TickFor, WorkerRuns, DocStep

\* GC never evicts a document whose entry the worker has still to look at:
\* the callback has leased it, and the entry's end is the lease's end.
THEOREM LeaseProtocol == Spec => []QueuedStaysLoaded
<1>1. Leases => QueuedStaysLoaded
  BY DEF Leases, QueuedStaysLoaded
<1>. QED BY <1>1, InitBase, StepBase, InitLeases, StepLeases, PTL DEF Spec

-----------------------------------------------------------------------------
(* Readers *)

\* The step of SuggestionsNeverGoBack.
NeverBack == \A d \in Docs : suggestions'[d] >= suggestions[d]

\* Nobody reads at the start, and every scan is of the first body.
LEMMA InitReaders == Init => Readers
BY DEF Init, Readers, WorkerReads, WriterReads

\* Every step keeps what is being scanned the document's body, so that no
\* scan is stored over that of a newer one.
LEMMA StepReaders == Base /\ Readers /\ [Next]_vars => Readers' /\ NeverBack
<1> SUFFICES ASSUME Base, Readers, [Next]_vars PROVE Readers' /\ NeverBack
  OBVIOUS
<1> USE QueueAssumption DEF docVars, indexVars, pendingVars, workerVars, writerVars,
                            historyVars,
                            Readers, NeverBack
<1>b. DocsOK /\ IndexOK /\ WorkerOK /\ WriterOK /\ Places
  BY DEF Base
<1>1. ASSUME NEW w \in Writers, NEW d \in Docs, NEW kind \in Kinds, Change(w, d, kind)
      PROVE  Readers' /\ NeverBack
  <2>1. /\ body' = [body EXCEPT ![d] = @ + 1] /\ lock' = [lock EXCEPT ![d] = w]
        /\ wpc' = [wpc EXCEPT ![w] = "changed"] /\ wdoc' = [wdoc EXCEPT ![w] = d]
        /\ UNCHANGED <<suggestions, kpc, kdoc, kseen, wseen>>
        /\ NoReaders(d)
    BY <1>1 DEF Change
  <2>2. \A e \in Docs : WorkerReads(e)' => lock'[e] = None /\ kseen' = body'[e]
    BY <1>b, <2>1 DEF DocsOK, WorkerReads, NoReaders
  <2>3. \A e \in Docs, v \in Writers :
          WriterReads(v, e)' => lock'[e] = None /\ wseen'[v] = body'[e]
    BY <1>b, <2>1 DEF DocsOK, WriterOK, WriterReads, NoReaders
  <2>4. \A e \in Docs : suggestions'[e] <= body'[e] /\ suggestions'[e] >= suggestions[e]
    BY <1>b, <2>1 DEF DocsOK, IndexOK
  <2>. QED BY <2>2, <2>3, <2>4
<1>2. ASSUME NEW w \in Writers, Callback(w) PROVE Readers' /\ NeverBack
  <2>1. /\ wpc' = [wpc EXCEPT ![w] = "queued"]
        /\ UNCHANGED <<body, lock, suggestions, kpc, kdoc, kseen, wdoc, wseen>>
    BY <1>2 DEF Callback
  <2>. QED BY <1>b, <2>1 DEF IndexOK, WriterOK, WorkerReads, WriterReads
<1>3. ASSUME NEW w \in Writers, Unlock(w) PROVE Readers' /\ NeverBack
  <2>1. /\ lock' = [lock EXCEPT ![wdoc[w]] = None]
        /\ suggestions' = [suggestions EXCEPT ![wdoc[w]] =
                             IF wkind[w] = "apply" THEN body[wdoc[w]] ELSE @]
        /\ UNCHANGED <<body, kpc, kdoc, kseen>>
    BY <1>3 DEF Unlock
  <2>2. \A v \in Writers, e \in Docs :
          WriterReads(v, e)' => WriterReads(v, e) /\ wseen'[v] = wseen[v]
    BY <1>b, <1>3 DEF Unlock, Idles, WriterOK, WriterReads
  <2>3. \A e \in Docs : lock[e] = None => lock'[e] = None
    BY <1>b, <2>1 DEF DocsOK
  <2>4. \A e \in Docs : suggestions'[e] <= body'[e] /\ suggestions'[e] >= suggestions[e]
    BY <1>b, <2>1 DEF DocsOK, IndexOK
  <2>5. \A e \in Docs : WorkerReads(e)' => lock'[e] = None /\ kseen' = body'[e]
    BY <2>1, <2>3 DEF WorkerReads
  <2>6. \A e \in Docs, v \in Writers :
          WriterReads(v, e)' => lock'[e] = None /\ wseen'[v] = body'[e]
    BY <2>1, <2>2, <2>3
  <2>. QED BY <2>4, <2>5, <2>6
<1>4. ASSUME NEW w \in Writers, HandlerReads(w) PROVE Readers' /\ NeverBack
  <2>1. /\ lock[wdoc[w]] = None
        /\ UNCHANGED <<body, lock, suggestions, kpc, kdoc, kseen>>
    BY <1>4 DEF HandlerReads
  <2>2. \A v \in Writers, e \in Docs : WriterReads(v, e)' =>
          \/ v # w /\ WriterReads(v, e) /\ wseen'[v] = wseen[v]
          \/ v = w /\ e = wdoc[w] /\ wseen'[v] = body[e]
    BY <1>b, <1>4 DEF HandlerReads, Idles, WriterOK, WriterReads
  <2>3. \A e \in Docs, v \in Writers :
          WriterReads(v, e)' => lock'[e] = None /\ wseen'[v] = body'[e]
    BY <2>1, <2>2
  <2>. QED BY <1>b, <2>1, <2>3 DEF IndexOK, WorkerReads
<1>5. ASSUME NEW w \in Writers, HandlerStores(w) PROVE Readers' /\ NeverBack
  <2>1. /\ suggestions' = [suggestions EXCEPT ![wdoc[w]] = wseen[w]]
        /\ wpc' = [wpc EXCEPT ![w] = "adding"]
        /\ UNCHANGED <<body, lock, kpc, kdoc, kseen, wdoc, wseen>>
    BY <1>5 DEF HandlerStores
  <2>2. wdoc[w] \in Docs /\ wseen[w] = body[wdoc[w]]
    BY <1>b, <1>5 DEF HandlerStores, Places, WriterReads
  <2>3. \A e \in Docs : suggestions'[e] <= body'[e] /\ suggestions'[e] >= suggestions[e]
    BY <1>b, <2>1, <2>2 DEF DocsOK, IndexOK
  <2>4. \A e \in Docs, v \in Writers : WriterReads(v, e)' => WriterReads(v, e)
    BY <1>b, <2>1 DEF WriterOK, WriterReads
  <2>. QED BY <2>1, <2>3, <2>4 DEF WorkerReads
<1>6. ASSUME NEW w \in Writers, HandlerAdds(w) PROVE Readers' /\ NeverBack
  <2>1. \A e \in Docs, v \in Writers :
          WriterReads(v, e)' => WriterReads(v, e) /\ wseen'[v] = wseen[v]
    BY <1>b, <1>6 DEF HandlerAdds, Idles, WriterOK, WriterReads
  <2>2. UNCHANGED <<body, lock, suggestions, kpc, kdoc, kseen>>
    BY <1>6 DEF HandlerAdds
  <2>. QED BY <1>b, <2>1, <2>2 DEF IndexOK, WorkerReads
<1>7. ASSUME UNCHANGED <<body, lock, suggestions, wpc, wdoc, wseen>>,
             \A d \in Docs : WorkerReads(d)' =>
               lock[d] = None /\ kseen' = body[d]
      PROVE  Readers' /\ NeverBack
  BY <1>b, <1>7 DEF IndexOK, WriterReads
<1>8. ASSUME NEW ready \in SUBSET Pending, NEW paused \in SUBSET ready,
             NEW slots \in 0..HeavyPerTick, Tick(ready, paused, slots)
      PROVE  Readers' /\ NeverBack
  BY <1>7, <1>8 DEF Tick, Plan, WorkerReads
<1>9. ASSUME NEW d \in Docs, FastRead(d) \/ HeavyRead(d) PROVE Readers' /\ NeverBack
  BY <1>7, <1>9 DEF FastRead, HeavyRead, WorkerReads
<1>10. CASE FastStore \/ HeavyStore
  <2>1. /\ \/ suggestions' = [suggestions EXCEPT ![kdoc] = kseen]
           \/ suggestions' = suggestions
        /\ kpc' \notin {"fastScan", "heavyScan"}
        /\ UNCHANGED <<body, lock, wpc, wdoc, wseen>>
    BY <1>10 DEF FastStore, HeavyStore
  <2>2. kdoc \in Docs /\ kseen = body[kdoc]
    BY <1>b, <1>10 DEF FastStore, HeavyStore, Places, WorkerReads
  <2>3. \A e \in Docs : suggestions'[e] <= body'[e] /\ suggestions'[e] >= suggestions[e]
    BY <1>b, <2>1, <2>2 DEF DocsOK, IndexOK
  <2>. QED BY <2>1, <2>3 DEF WorkerReads, WriterReads
<1>11. CASE FastAck \/ HeavyAdd \/ HeavyAck \/ EndTick
  BY <1>7, <1>11 DEF FastAck, HeavyAdd, HeavyAck, EndTick, LeavesDoc, WorkerReads
<1>12. ASSUME NEW d \in Docs, Evict(d) \/ Load(d) PROVE Readers' /\ NeverBack
  BY <1>7, <1>12 DEF Evict, Load, WorkerReads
<1>13. CASE UNCHANGED vars
  BY <1>7, <1>13 DEF vars, WorkerReads
<1>. QED
  BY <1>1, <1>2, <1>3, <1>4, <1>5, <1>6, <1>8, <1>9, <1>10, <1>11, <1>12, <1>13
     DEF Next, WriterStep, WorkerStep, TickFor, WorkerReadsNext, WorkerRuns, DocStep

\* The suggestions index only moves forward: the worker's lanes, the handlers
\* and the apply endpoint cannot set each other back.
THEOREM ForwardOnly == Spec => SuggestionsNeverGoBack
<1>1. NeverBack => \A d \in Docs : suggestions'[d] >= suggestions[d]
  BY DEF NeverBack
<1>. QED
  BY <1>1, InitBase, StepBase, InitReaders, StepReaders, PTL
     DEF Spec, SuggestionsNeverGoBack

-----------------------------------------------------------------------------
(* Copies *)

\* The worker starts with nothing to do.
LEMMA InitCopies == Init => Copies
BY DEF Init, Copies

\* What the worker has copied stays behind the pending map: an entry only
\* goes when the worker itself acknowledges it.
LEMMA StepCopies == Base /\ Copies /\ [Next]_vars => Copies'
<1> SUFFICES ASSUME Base, Copies, [Next]_vars PROVE Copies'
  OBVIOUS
<1> USE QueueAssumption DEF docVars, indexVars, pendingVars, workerVars, writerVars,
                            historyVars
<1>b. PendingOK /\ WorkerOK /\ WriterOK /\ Places
  BY DEF Base
<1>t. /\ generation \in [Docs -> Nat] /\ scanned \in [Docs -> Nat]
      /\ copyGen \in [Docs -> Nat] /\ copyScanned \in [Docs -> Nat]
      /\ fast \in SUBSET Docs /\ heavy \in SUBSET Docs
  BY <1>b DEF PendingOK, WorkerOK
<1>1. ASSUME NEW w \in Writers, Callback(w) PROVE Copies'
  <2>1. wdoc[w] \in Docs /\ UNCHANGED <<workerVars, scanned>>
    BY <1>b, <1>1 DEF Callback, Places, Upsert
  <2>2. generation' = generation \/ generation' = [generation EXCEPT ![wdoc[w]] = @ + 1]
    BY <1>1 DEF Callback, Upsert
  <2>3. \A d \in Docs : generation[d] <= generation'[d] /\ generation'[d] \in Nat
    BY <1>t, <2>1, <2>2
  <2>. QED BY <1>t, <2>1, <2>3 DEF Copies
<1>2. ASSUME NEW ready \in SUBSET Pending, NEW paused \in SUBSET ready,
             NEW slots \in 0..HeavyPerTick, Tick(ready, paused, slots)
      PROVE  Copies'
  <2>1. /\ copyGen' = generation /\ copyScanned' = scanned /\ kpc' = "next"
        /\ heavy' \in SUBSET Pending /\ fast' \in SUBSET Pending
        /\ fast' \cap heavy' = {}
        /\ UNCHANGED <<generation, scanned>>
    BY <1>2 DEF Tick, Plan, Oldest
  <2>. QED BY <1>t, <2>1 DEF Copies, Pending
<1>3. ASSUME NEW d \in Docs, FastRead(d) PROVE Copies'
  <2>1. /\ kpc = "next" /\ d \in fast
        /\ \/ kpc' = "fastScan" /\ kdoc' = d /\ UNCHANGED fast
           \/ fast' = fast \ {d} /\ UNCHANGED kpc
        /\ UNCHANGED <<generation, scanned, copyGen, copyScanned, heavy>>
    BY <1>3 DEF FastRead
  <2>. QED BY <1>t, <2>1 DEF Copies
<1>4. ASSUME NEW d \in Docs, HeavyRead(d) PROVE Copies'
  <2>1. /\ fast = {} /\ d \in heavy /\ kdoc' = d /\ kpc' \in {"heavyScan", "heavyAck"}
        /\ UNCHANGED <<generation, scanned, copyGen, copyScanned, fast, heavy>>
    BY <1>4 DEF HeavyRead
  <2>. QED BY <1>t, <2>1 DEF Copies
<1>5. CASE FastStore \/ HeavyStore \/ HeavyAdd
  <2>1. /\ \/ kpc = "fastScan" /\ kpc' = "fastAck"
           \/ kpc = "heavyScan" /\ kpc' = "heavyAdd"
           \/ kpc = "heavyAdd" /\ kpc' = "heavyAck"
        /\ UNCHANGED <<generation, scanned, copyGen, copyScanned, fast, heavy, kdoc>>
    BY <1>5 DEF FastStore, HeavyStore, HeavyAdd
  <2>. QED BY <1>t, <2>1 DEF Copies
<1>6. CASE FastAck
  <2>1. /\ kpc = "fastAck" /\ kpc' = "next" /\ fast' = fast \ {kdoc}
        /\ scanned' = [scanned EXCEPT ![kdoc] =
             IF generation[kdoc] > 0 /\ @ < copyGen[kdoc] THEN copyGen[kdoc] ELSE @]
        /\ UNCHANGED <<generation, copyGen, copyScanned, heavy>>
    BY <1>6 DEF FastAck, LeavesDoc
  <2>2. kdoc \in fast /\ copyGen[kdoc] <= generation[kdoc]
    BY <2>1 DEF Copies
  <2>3. \A d \in Docs : scanned'[d] <= generation[d]
    BY <1>t, <2>1, <2>2 DEF Copies
  <2>. QED BY <1>t, <2>1, <2>3 DEF Copies
<1>7. CASE HeavyAck
  <2>1. /\ kdoc \in Docs /\ kdoc \in heavy /\ fast = {} /\ Acknowledge(kdoc)
        /\ kpc' = "next" /\ heavy' = heavy \ {kdoc}
        /\ UNCHANGED <<copyGen, copyScanned, fast>>
    BY <1>b, <1>7 DEF HeavyAck, LeavesDoc, Places, Copies
  <2>2. \A d \in Docs : \/ generation'[d] = generation[d] /\ scanned'[d] = scanned[d]
                        \/ d = kdoc /\ generation'[d] = 0 /\ scanned'[d] = 0
    BY <1>t, <2>1 DEF Acknowledge
  <2>. QED BY <1>t, <2>1, <2>2 DEF Copies
<1>8. ASSUME UNCHANGED <<generation, scanned, copyGen, copyScanned, fast, heavy,
                         kpc, kdoc>>
      PROVE  Copies'
  BY <1>8 DEF Copies
<1>9. CASE EndTick
  BY <1>9, <1>t DEF EndTick, Copies
<1>10. ASSUME NEW w \in Writers, NEW d \in Docs, NEW kind \in Kinds, Change(w, d, kind)
       PROVE  Copies'
  BY <1>8, <1>10 DEF Change
<1>11. ASSUME NEW w \in Writers,
              Unlock(w) \/ HandlerReads(w) \/ HandlerStores(w) \/ HandlerAdds(w)
       PROVE  Copies'
  BY <1>8, <1>11 DEF Unlock, HandlerReads, HandlerStores, HandlerAdds
<1>12. ASSUME NEW d \in Docs, Evict(d) \/ Load(d) PROVE Copies'
  BY <1>8, <1>12 DEF Evict, Load
<1>13. CASE UNCHANGED vars
  BY <1>8, <1>13 DEF vars
<1>. QED
  BY <1>1, <1>2, <1>3, <1>4, <1>5, <1>6, <1>7, <1>9, <1>10, <1>11, <1>12, <1>13
     DEF Next, WriterStep, WorkerStep, TickFor, WorkerReadsNext, WorkerRuns, DocStep

-----------------------------------------------------------------------------
(* Marks *)

\* At the start every document is scanned.
LEMMA InitMarks == Init => Marks
BY DEF Init, Marks, Scanned

\* Without rewrites, every change goes through the pending map, and every step
\* keeps what is marked or copied as scanned scanned.
LEMMA StepMarks ==
  ASSUME NoRewrites
  PROVE  Base /\ Leases /\ Readers /\ Copies /\ Marks /\ [Next]_vars => Marks'
<1> SUFFICES ASSUME Base, Leases, Readers, Copies, Marks, [Next]_vars PROVE Marks'
  OBVIOUS
<1> USE QueueAssumption DEF docVars, indexVars, pendingVars, workerVars, writerVars,
                            historyVars,
                            Scanned, Latest
<1>b. DocsOK /\ IndexOK /\ PendingOK /\ WorkerOK /\ WriterOK /\ Places
  BY DEF Base
<1>t. /\ generation \in [Docs -> Nat] /\ scanned \in [Docs -> Nat]
      /\ copyGen \in [Docs -> Nat] /\ copyScanned \in [Docs -> Nat]
      /\ fast \in SUBSET Docs /\ heavy \in SUBSET Docs
      /\ suggestions \in [Docs -> Nat] /\ body \in [Docs -> Nat]
      /\ wpc \in [Writers -> WriterPC] /\ wdoc \in [Writers -> Docs \cup {None}]
      /\ wkind \in [Writers -> AllKinds]
  BY <1>b DEF DocsOK, IndexOK, PendingOK, WorkerOK, WriterOK
<1>1. ASSUME NEW w \in Writers, NEW d \in Docs, NEW kind \in Kinds, Change(w, d, kind)
      PROVE  Marks'
  <2>1. /\ wpc[w] = "idle" /\ body' = [body EXCEPT ![d] = @ + 1]
        /\ wpc' = [wpc EXCEPT ![w] = "changed"] /\ wdoc' = [wdoc EXCEPT ![w] = d]
        /\ wkind' = [wkind EXCEPT ![w] = kind]
        /\ UNCHANGED <<indexVars, pendingVars, workerVars>>
    BY <1>1 DEF Change
  <2>2. /\ ~Settled(d)'
        /\ \A e \in Docs : e # d /\ Settled(e)' => Settled(e) /\ body'[e] = body[e]
    BY <1>t, <2>1 DEF Settled
  <2>3. \A v \in Writers : wkind'[v] # "rewrite"
    BY <1>t, <2>1 DEF Marks, NoRewrites
  <2>4. kpc \in {"fastAck", "heavyAdd", "heavyAck"} => kdoc \in Docs
    BY <1>b DEF Places
  <2>. QED BY <1>t, <2>1, <2>2, <2>3, <2>4 DEF Marks
<1>2. ASSUME NEW w \in Writers, Callback(w) PROVE Marks'
  <2> DEFINE d == wdoc[w]
  <2>1. /\ d \in Docs /\ generation' = [generation EXCEPT ![d] = @ + 1]
        /\ wpc' = [wpc EXCEPT ![w] = "queued"]
        /\ UNCHANGED <<docVars, indexVars, scanned, workerVars, wkind, wdoc>>
    BY <1>b, <1>2 DEF Callback, Upsert, Places, Marks
  <2>2. \A e \in Docs : e # d /\ Settled(e)' => Settled(e)
    BY <1>t, <2>1 DEF Settled
  <2>3. /\ scanned[d] # generation'[d]
        /\ d \in fast \cup heavy => copyGen[d] # generation'[d]
    BY <1>t, <2>1 DEF Copies
  <2>4. \A e \in Docs : e # d => generation'[e] = generation[e]
    BY <1>t, <2>1
  <2>5. kpc \in {"fastAck", "heavyAdd", "heavyAck"} => kdoc \in fast \cup heavy
    BY DEF Copies
  <2> HIDE DEF d
  <2>. QED BY <1>t, <2>1, <2>2, <2>3, <2>4, <2>5 DEF Marks
<1>3. ASSUME \A d \in Docs : Settled(d)' => Settled(d),
             \A d \in Docs : Scanned(d) => Scanned(d)',
             \A w \in Writers : wkind'[w] # "rewrite",
             UNCHANGED <<generation, scanned, copyGen, copyScanned, fast, heavy>>,
             kpc' \in {"fastAck", "heavyAdd", "heavyAck"} => kdoc' \in Docs,
             \A d \in Docs : kpc' \in {"fastAck", "heavyAdd", "heavyAck"} /\ kdoc' = d
                            /\ Latest(d) => Scanned(d)'
      PROVE  Marks'
  BY <1>3, <1>t DEF Marks
<1>4. ASSUME NEW w \in Writers,
             Unlock(w) \/ HandlerReads(w) \/ HandlerStores(w) \/ HandlerAdds(w)
      PROVE  Marks'
  <2>1. /\ wpc[w] # "changed" /\ wpc'[w] # "changed"
        /\ \A v \in Writers : v # w => wpc'[v] = wpc[v] /\ wdoc'[v] = wdoc[v]
        /\ \A v \in Writers : wkind'[v] \in {"edit", wkind[v]}
        /\ UNCHANGED <<body, pendingVars, workerVars>>
    <3>1. CASE Unlock(w)
      BY <1>t, <3>1 DEF Unlock, Idles
    <3>2. CASE HandlerReads(w)
      BY <1>t, <3>2 DEF HandlerReads, Idles
    <3>3. CASE HandlerStores(w) \/ HandlerAdds(w)
      BY <1>t, <3>3 DEF HandlerStores, HandlerAdds, Idles
    <3>. QED BY <1>4, <3>1, <3>2, <3>3
  <2>2. \A d \in Docs : Settled(d)' => Settled(d)
    BY <2>1 DEF Settled
  <2>3. \A d \in Docs : suggestions'[d] \in {suggestions[d], body[d]}
    BY <1>b, <1>t, <1>4 DEF Unlock, HandlerReads, HandlerStores, HandlerAdds, Readers,
                            WriterReads, Places
  <2>4. \A v \in Writers : wkind'[v] # "rewrite"
    BY <2>1 DEF Marks
  <2>5. kpc \in {"fastAck", "heavyAdd", "heavyAck"} => kdoc \in Docs
    BY <1>b DEF Places
  <2>. QED BY <1>3, <2>1, <2>2, <2>3, <2>4, <2>5 DEF Marks
<1>5. ASSUME NEW ready \in SUBSET Pending, NEW paused \in SUBSET ready,
             NEW slots \in 0..HeavyPerTick, Tick(ready, paused, slots)
      PROVE  Marks'
  <2>1. /\ copyGen' = generation /\ copyScanned' = scanned /\ kpc' = "next"
        /\ heavy' \in SUBSET Docs /\ fast' \in SUBSET Docs
        /\ UNCHANGED <<body, suggestions, generation, scanned, wpc, wdoc, wkind>>
    BY <1>5 DEF Tick, Plan, Oldest, Pending
  <2>. QED BY <2>1 DEF Marks, Settled
<1>6. ASSUME NEW d \in Docs, FastRead(d) \/ HeavyRead(d) PROVE Marks'
  <2>1. HeavyRead(d) => loaded[d]
    BY <1>6, <1>t DEF HeavyRead, Copies, Leases
  <2>2. /\ kpc' \in {"next", "fastScan", "heavyScan"}
        /\ fast' \subseteq fast
        /\ UNCHANGED <<body, suggestions, generation, scanned, copyGen, copyScanned,
                       heavy, wpc, wdoc, wkind>>
    BY <1>6, <2>1 DEF FastRead, HeavyRead
  <2>. QED BY <1>t, <2>2 DEF Marks, Settled
<1>7. CASE FastStore \/ HeavyStore
  <2>1. kdoc \in Docs /\ kdoc \in fast \cup heavy /\ kseen = body[kdoc]
    BY <1>b, <1>7 DEF FastStore, HeavyStore, Places, Copies, Readers, WorkerReads
  <2>2. /\ \/ suggestions' = [suggestions EXCEPT ![kdoc] = kseen]
           \/ suggestions' = suggestions /\ ~(copyScanned[kdoc] < copyGen[kdoc])
        /\ UNCHANGED <<body, generation, scanned, copyGen, copyScanned, fast, heavy,
                       kdoc, wpc, wdoc, wkind>>
    BY <1>7 DEF FastStore, HeavyStore
  <2>3. \A d \in Docs : suggestions'[d] \in {suggestions[d], body[d]}
    BY <1>t, <2>1, <2>2
  <2>4. Latest(kdoc) => Scanned(kdoc)'
    BY <1>t, <2>1, <2>2 DEF Copies, Marks
  <2>. QED BY <1>3, <2>1, <2>2, <2>3, <2>4 DEF Marks, Settled
<1>8. CASE HeavyAdd
  <2>1. kdoc \in Docs /\ kpc = "heavyAdd"
    BY <1>b, <1>8 DEF HeavyAdd, Places
  <2>. QED BY <1>3, <1>8, <2>1 DEF HeavyAdd, Marks, Settled
<1>9. CASE FastAck
  <2>1. /\ kpc = "fastAck" /\ kpc' = "next" /\ fast' \subseteq fast
        /\ scanned' = [scanned EXCEPT ![kdoc] =
             IF generation[kdoc] > 0 /\ @ < copyGen[kdoc] THEN copyGen[kdoc] ELSE @]
        /\ UNCHANGED <<body, suggestions, generation, copyGen, copyScanned, heavy,
                       wpc, wdoc, wkind>>
    BY <1>9 DEF FastAck, LeavesDoc
  <2>2. \A d \in Docs : \/ scanned'[d] = scanned[d]
                        \/ d = kdoc /\ scanned'[d] = copyGen[d]
    BY <1>t, <2>1
  <2>. QED BY <1>t, <2>1, <2>2 DEF Marks, Settled
<1>10. CASE HeavyAck
  <2>1. /\ kpc = "heavyAck" /\ kpc' = "next" /\ kdoc \in Docs /\ kdoc \in heavy
        /\ fast = {} /\ heavy' = heavy \ {kdoc} /\ Acknowledge(kdoc)
        /\ UNCHANGED <<body, suggestions, copyGen, copyScanned, fast, wpc, wdoc, wkind>>
    BY <1>b, <1>10 DEF HeavyAck, LeavesDoc, Places, Copies
  <2>2. \A d \in Docs : \/ generation'[d] = generation[d] /\ scanned'[d] = scanned[d]
                        \/ d = kdoc /\ generation[d] = copyGen[d]
    BY <1>t, <2>1 DEF Acknowledge
  <2>3. \A d \in Docs : d # kdoc => generation'[d] = generation[d]
    BY <1>t, <2>1 DEF Acknowledge
  <2>. QED BY <1>t, <2>1, <2>2, <2>3 DEF Marks, Settled
<1>11. CASE EndTick
  BY <1>11 DEF EndTick, Marks, Settled
<1>12. ASSUME UNCHANGED <<body, suggestions, generation, scanned, copyGen, copyScanned,
                          fast, heavy, kpc, kdoc, wpc, wdoc, wkind>>
       PROVE  Marks'
  BY <1>12 DEF Marks, Settled
<1>13. ASSUME NEW d \in Docs, Evict(d) \/ Load(d) PROVE Marks'
  BY <1>12, <1>13 DEF Evict, Load
<1>14. CASE UNCHANGED vars
  BY <1>12, <1>14 DEF vars
<1>. QED
  BY <1>1, <1>2, <1>4, <1>5, <1>6, <1>7, <1>8, <1>9, <1>10, <1>11, <1>13, <1>14
     DEF Next, WriterStep, WorkerStep, TickFor, WorkerReadsNext, WorkerRuns, DocStep

\* A document whose lock nobody holds has no change waiting for its callback.
LEMMA UnlockedIsSettled ==
  ASSUME Base, NEW d \in Docs, lock[d] = None
  PROVE  Settled(d)
BY QueueAssumption DEF Base, Places, Settled

\* A document with nothing pending, and nobody inside it, is in the suggestions
\* index as it is, as long as nobody rewrites links (the run stale_suggestions
\* shows that rewrites break it).
THEOREM SuggestionsFollow == ASSUME NoRewrites PROVE Spec => []SuggestionsCurrent
<1>1. Base /\ Copies /\ Marks => SuggestionsCurrent
  BY UnlockedIsSettled
     DEF Base, PendingOK, Copies, Marks, Scanned, SuggestionsCurrent
<1>. QED
  BY <1>1, InitBase, StepBase, InitLeases, StepLeases, InitReaders, StepReaders,
     InitCopies, StepCopies, InitMarks, StepMarks, PTL DEF Spec

\* acknowledge_suggestions_generation never marks a generation that the scan
\* before it did not cover, so the heavy lane may trust the mark.
THEOREM MarkIsTrue == ASSUME NoRewrites PROVE Spec => []WatermarkIsTrue
<1>1. Base /\ Marks => WatermarkIsTrue
  BY UnlockedIsSettled DEF Marks, Scanned, WatermarkIsTrue
<1>. QED
  BY <1>1, InitBase, StepBase, InitLeases, StepLeases, InitReaders, StepReaders,
     InitCopies, StepCopies, InitMarks, StepMarks, PTL DEF Spec

-----------------------------------------------------------------------------
(* Indexed *)

\* At the start every document is indexed.
LEMMA InitIndexed == Init => Indexed
BY DEF Init, Indexed

\* Without rewrites, every step keeps a document that is acknowledged, or
\* about to be, in the full-text index as it is, unless a handler has put an
\* older body there.
LEMMA StepIndexed ==
  ASSUME NoRewrites
  PROVE  Base /\ Leases /\ Readers /\ Copies /\ Marks /\ Indexed /\ [Next]_vars
           => Indexed'
<1> SUFFICES ASSUME Base, Leases, Readers, Copies, Marks, Indexed, [Next]_vars
             PROVE  Indexed'
  OBVIOUS
<1> USE QueueAssumption DEF docVars, indexVars, pendingVars, workerVars, writerVars,
                            historyVars,
                            Latest
<1>b. DocsOK /\ IndexOK /\ PendingOK /\ WorkerOK /\ WriterOK /\ HistoryOK /\ Places
  BY DEF Base
<1>t. /\ generation \in [Docs -> Nat] /\ copyGen \in [Docs -> Nat]
      /\ heavy \in SUBSET Docs /\ kseen \in Nat
      /\ search \in [Docs -> Nat] /\ body \in [Docs -> Nat]
      /\ wpc \in [Writers -> WriterPC] /\ wdoc \in [Writers -> Docs \cup {None}]
      /\ wseen \in [Writers -> Nat] /\ overtaken \in SUBSET Docs
  BY <1>b DEF DocsOK, IndexOK, PendingOK, WorkerOK, WriterOK, HistoryOK
<1>k. /\ kpc \in {"heavyAdd", "heavyAck"} =>
           kdoc \in heavy /\ 0 < copyGen[kdoc] /\ copyGen[kdoc] <= generation[kdoc]
      /\ \A w \in Writers : wpc[w] # "idle" => wdoc[w] \in Docs
  BY <1>b DEF Copies, Places
<1>1. ASSUME NEW w \in Writers, NEW d \in Docs, NEW kind \in Kinds, Change(w, d, kind)
      PROVE  Indexed'
  <2>1. /\ wpc[w] = "idle" /\ body' = [body EXCEPT ![d] = @ + 1]
        /\ wpc' = [wpc EXCEPT ![w] = "changed"] /\ wdoc' = [wdoc EXCEPT ![w] = d]
        /\ UNCHANGED <<search, generation, copyGen, kpc, kdoc, kseen, wseen, overtaken>>
    BY <1>1 DEF Change
  <2>2. /\ ~Settled(d)'
        /\ \A e \in Docs : e # d /\ Settled(e)' => Settled(e) /\ body'[e] = body[e]
        /\ \A e \in Docs : body[e] <= body'[e] /\ body'[e] \in Nat
    BY <1>t, <2>1 DEF Settled
  <2>3. \A v \in Writers : wpc'[v] = "adding" => wpc[v] = "adding" /\ wdoc'[v] = wdoc[v]
    BY <1>t, <2>1
  <2>4. \A v \in Writers : wpc'[v] = "adding" => wseen'[v] <= body'[wdoc'[v]]
    BY <1>t, <1>k, <2>1, <2>2, <2>3 DEF Indexed
  <2>5. kpc' = "heavyAdd" =>
          kseen' <= body'[kdoc'] /\ (Latest(kdoc)' => kseen' = body'[kdoc'])
    BY <1>t, <1>k, <2>1, <2>2 DEF Indexed
  <2>. QED BY <1>t, <1>k, <2>1, <2>2, <2>4, <2>5 DEF Indexed
<1>2. ASSUME NEW w \in Writers, Callback(w) PROVE Indexed'
  <2> DEFINE d == wdoc[w]
  <2>1. /\ d \in Docs /\ generation' = [generation EXCEPT ![d] = @ + 1]
        /\ wpc' = [wpc EXCEPT ![w] = "queued"]
        /\ UNCHANGED <<body, search, copyGen, kpc, kdoc, kseen, wdoc, wseen, overtaken>>
    BY <1>b, <1>2 DEF Callback, Upsert, Places, Marks
  <2>2. \A e \in Docs : e # d /\ Settled(e)' => Settled(e)
    BY <1>t, <2>1 DEF Settled
  <2>3. /\ generation'[d] # 0
        /\ kpc \in {"heavyAdd", "heavyAck"} /\ kdoc = d => copyGen[d] # generation'[d]
        /\ \A e \in Docs : e # d => generation'[e] = generation[e]
    BY <1>t, <1>k, <2>1
  <2>4. \A v \in Writers : wpc'[v] = "adding" => wpc[v] = "adding"
    BY <1>t, <2>1
  <2> HIDE DEF d
  <2>. QED BY <1>t, <1>k, <2>1, <2>2, <2>3, <2>4 DEF Indexed
<1>3. ASSUME \A d \in Docs : Settled(d)' => Settled(d),
             \A w \in Writers : wpc'[w] = "adding" =>
               wdoc'[w] \in Docs /\ wseen'[w] <= body[wdoc'[w]],
             \A d \in Docs : search'[d] <= body[d],
             \A d \in Docs : d \notin overtaken' /\ search[d] = body[d] =>
               d \notin overtaken /\ search'[d] = body[d],
             \A d \in Docs : d \notin overtaken' => d \notin overtaken,
             UNCHANGED <<body, generation, copyGen, kpc, kdoc, kseen>>
      PROVE  Indexed'
  BY <1>3, <1>t, <1>k DEF Indexed
<1>4. ASSUME NEW w \in Writers, Unlock(w) \/ HandlerReads(w) \/ HandlerStores(w)
      PROVE  Indexed'
  <2>1. /\ wpc[w] # "changed" /\ wpc'[w] # "changed"
        /\ \A v \in Writers : v # w => /\ wpc'[v] = wpc[v] /\ wdoc'[v] = wdoc[v]
                                       /\ wseen'[v] = wseen[v]
        /\ UNCHANGED <<body, search, pendingVars, workerVars, overtaken>>
    <3>1. CASE Unlock(w)
      BY <1>t, <3>1 DEF Unlock, Idles
    <3>2. CASE HandlerReads(w)
      BY <1>t, <3>2 DEF HandlerReads, Idles
    <3>3. CASE HandlerStores(w)
      BY <1>t, <3>3 DEF HandlerStores
    <3>. QED BY <1>4, <3>1, <3>2, <3>3
  <2>2. wpc'[w] = "adding" => wdoc'[w] \in Docs /\ wseen'[w] = body[wdoc'[w]]
    BY <1>b, <1>t, <1>4 DEF Unlock, HandlerReads, HandlerStores, Idles, Readers,
                            WriterReads, Places
  <2>3. \A d \in Docs : Settled(d)' => Settled(d)
    BY <2>1 DEF Settled
  <2>4. \A v \in Writers : wpc'[v] = "adding" =>
          wdoc'[v] \in Docs /\ wseen'[v] <= body[wdoc'[v]]
    BY <1>t, <1>k, <2>1, <2>2 DEF Indexed
  <2>. QED BY <1>3, <2>1, <2>3, <2>4 DEF Indexed
<1>5. ASSUME NEW w \in Writers, HandlerAdds(w) PROVE Indexed'
  <2>1. /\ wpc[w] = "adding" /\ wdoc[w] \in Docs /\ wpc' = [wpc EXCEPT ![w] = "idle"]
        /\ wdoc' = [wdoc EXCEPT ![w] = None] /\ wseen' = [wseen EXCEPT ![w] = 0]
        /\ search' = [search EXCEPT ![wdoc[w]] = wseen[w]]
        /\ overtaken' = IF wseen[w] < search[wdoc[w]] THEN overtaken \cup {wdoc[w]}
                                                      ELSE overtaken
        /\ UNCHANGED <<body, generation, copyGen, kpc, kdoc, kseen>>
    BY <1>5, <1>k DEF HandlerAdds, Idles
  <2>2. \A d \in Docs : Settled(d)' => Settled(d)
    BY <1>t, <2>1 DEF Settled
  <2>3. \A v \in Writers : wpc'[v] = "adding" =>
          wdoc'[v] \in Docs /\ wseen'[v] <= body[wdoc'[v]]
    BY <1>t, <1>k, <2>1 DEF Indexed
  <2>4. \A d \in Docs : search'[d] <= body[d]
    BY <1>t, <2>1 DEF Indexed
  <2>5. \A d \in Docs : d \notin overtaken' /\ search[d] = body[d] =>
          d \notin overtaken /\ search'[d] = body[d]
    BY <1>t, <2>1 DEF Indexed
  <2>6. \A d \in Docs : d \notin overtaken' => d \notin overtaken
    BY <2>1
  <2>. QED BY <1>3, <2>1, <2>2, <2>3, <2>4, <2>5, <2>6
<1>6. ASSUME UNCHANGED <<body, search, generation, wpc, wdoc, wseen, overtaken>>,
             kpc' \notin {"heavyAdd", "heavyAck"}
      PROVE  Indexed'
  BY <1>6 DEF Indexed, Settled
<1>7. ASSUME NEW ready \in SUBSET Pending, NEW paused \in SUBSET ready,
             NEW slots \in 0..HeavyPerTick, Tick(ready, paused, slots)
      PROVE  Indexed'
  BY <1>6, <1>7 DEF Tick, Plan
<1>8. ASSUME NEW d \in Docs, FastRead(d) \/ HeavyRead(d) PROVE Indexed'
  <2>1. HeavyRead(d) => loaded[d]
    BY <1>8, <1>t DEF HeavyRead, Copies, Leases
  <2>. QED BY <1>6, <1>8, <2>1 DEF FastRead, HeavyRead
<1>9. CASE FastStore \/ FastAck \/ EndTick
  BY <1>6, <1>9 DEF FastStore, FastAck, EndTick, LeavesDoc
<1>10. CASE HeavyStore
  <2>1. kdoc \in Docs /\ kseen = body[kdoc]
    BY <1>b, <1>10 DEF HeavyStore, Places, Readers, WorkerReads
  <2>. QED BY <1>10, <1>t, <2>1 DEF HeavyStore, Indexed, Settled
<1>11. CASE HeavyAdd
  <2>1. /\ kpc = "heavyAdd" /\ kpc' = "heavyAck" /\ kdoc \in Docs
        /\ generation[kdoc] # 0
        /\ search' = [search EXCEPT ![kdoc] = kseen]
        /\ overtaken' = overtaken \ {kdoc}
        /\ UNCHANGED <<body, generation, copyGen, kdoc, wpc, wdoc, wseen>>
    BY <1>b, <1>t, <1>k, <1>11 DEF HeavyAdd, Places
  <2>2. \A d \in Docs : Settled(d)' <=> Settled(d)
    BY <2>1 DEF Settled
  <2>. QED BY <1>t, <2>1, <2>2 DEF Indexed
<1>12. CASE HeavyAck
  <2>1. /\ kpc = "heavyAck" /\ kpc' = "next" /\ kdoc \in Docs /\ Acknowledge(kdoc)
        /\ UNCHANGED <<body, search, copyGen, wpc, wdoc, wseen, overtaken>>
    BY <1>b, <1>12 DEF HeavyAck, LeavesDoc, Places
  <2>2. \A d \in Docs : \/ generation'[d] = generation[d]
                        \/ d = kdoc /\ generation[d] = copyGen[d]
    BY <1>t, <2>1 DEF Acknowledge
  <2>3. \A d \in Docs : Settled(d)' <=> Settled(d)
    BY <2>1 DEF Settled
  <2>. QED BY <1>t, <2>1, <2>2, <2>3 DEF Indexed
<1>13. ASSUME UNCHANGED <<body, search, generation, copyGen, kpc, kdoc, kseen,
                          wpc, wdoc, wseen, overtaken>>
       PROVE  Indexed'
  BY <1>13 DEF Indexed, Settled
<1>14. ASSUME NEW d \in Docs, Evict(d) \/ Load(d) PROVE Indexed'
  BY <1>13, <1>14 DEF Evict, Load
<1>15. CASE UNCHANGED vars
  BY <1>13, <1>15 DEF vars
<1>. QED
  BY <1>1, <1>2, <1>4, <1>5, <1>7, <1>8, <1>9, <1>10, <1>11, <1>12, <1>14, <1>15
     DEF Next, WriterStep, WorkerStep, TickFor, WorkerReadsNext, WorkerRuns, DocStep

\* With nothing pending the full-text index has the document as it is, unless
\* a handler that indexes by itself came late; nothing else can set it back.
THEOREM SearchFollows ==
  ASSUME NoRewrites PROVE Spec => []SearchCurrentUnlessOvertaken
<1>1. Base /\ Indexed => SearchCurrentUnlessOvertaken
  BY UnlockedIsSettled DEF Indexed, SearchCurrentUnlessOvertaken
<1>. QED
  BY <1>1, InitBase, StepBase, InitLeases, StepLeases, InitReaders, StepReaders,
     InitCopies, StepCopies, InitMarks, StepMarks, InitIndexed, StepIndexed, PTL
     DEF Spec

-----------------------------------------------------------------------------
(* Turns *)

\* The queue is an order of the pending documents; who is not queued, or in
\* the lane, waits for nobody; a document has been passed over at most once
\* for each of those that are neither before it still nor itself.
Turns ==
  /\ \A d \in Docs : older[d] \subseteq Pending
  /\ \A d \in Docs : \A e \in older[d] : older[e] \subseteq older[d]
  /\ \A d \in Docs : generation[d] = 0 \/ d \in heavy => waited[d] = 0
  /\ \A d \in Docs : waited[d] + Cardinality(older[d] \ heavy) < Cardinality(Docs)

\* Any set of naturals, finite or not, has a least one.
Below == {ss \in Nat \X Nat : ss[1] < ss[2]}

LEMMA LeastOne ==
  ASSUME NEW S \in SUBSET Nat, S # {}
  PROVE  \E x \in S : \A y \in S : x =< y
<1>1. IsWellFoundedOn(Below, Nat)
  <2>1. OpToRel(<, Nat) = Below
    BY DEF OpToRel, Below
  <2>. QED BY <2>1, NatLessThanWellFounded
<1>2. PICK x \in S : \A y \in S : ~ (<<y, x>> \in Below)
  BY <1>1, WFMin, Zenon
<1>3. \A y, z \in Nat : y < z => <<y, z>> \in Below
  BY DEF Below
<1>4. ASSUME NEW y \in S PROVE x =< y
  <2>1. x \in Nat /\ y \in Nat
    OBVIOUS
  <2>2. ~ (y < x)
    BY <1>2, <1>3, <2>1, Zenon
  <2>. QED BY <2>1, <2>2
<1>. QED BY <1>4

\* A set with one element less is smaller.
LEMMA Fewer ==
  ASSUME NEW T, IsFiniteSet(T), NEW S \in SUBSET T, NEW x \in T, x \notin S
  PROVE  Cardinality(S) \in Nat /\ Cardinality(T) \in Nat
         /\ Cardinality(S) < Cardinality(T)
<1>1. /\ IsFiniteSet(S) /\ Cardinality(S) <= Cardinality(T)
      /\ Cardinality(S) = Cardinality(T) => S = T
  BY FS_Subset, Zenon
<1>2. S # T
  OBVIOUS
<1>3. Cardinality(S) \in Nat /\ Cardinality(T) \in Nat
  BY <1>1, FS_CardinalityType, Zenon
<1>. QED BY <1>1, <1>2, <1>3

\* A document that a tick passes over, though it is ready and there is room,
\* is behind one that the tick takes.
LEMMA FirstInLane ==
  ASSUME IsFiniteSet(Docs), PendingOK, Turns,
         NEW ready \in SUBSET Docs, NEW slots \in Nat \ {0},
         NEW d \in ready, d \notin Oldest(ready, slots)
  PROVE  \E e \in older[d] : e \in Oldest(ready, slots)
<1> DEFINE Before(e) == older[e] \cap ready
           Sizes == {Cardinality(Before(e)) : e \in Before(d)}
<1>1. \A e \in Docs : older[e] \in SUBSET Docs /\ e \notin older[e]
  BY DEF PendingOK
<1>2. ASSUME NEW e \in Docs PROVE IsFiniteSet(Before(e)) /\ Cardinality(Before(e)) \in Nat
  <2>1. Before(e) \in SUBSET Docs
    OBVIOUS
  <2>. QED BY <2>1, FS_Subset, FS_CardinalityType, Zenon
<1>3. Before(d) # {}
  <2>1. d \in Docs /\ ~(Cardinality(Before(d)) < slots)
    BY DEF Oldest
  <2>2. Cardinality(Before(d)) # 0
    BY <2>1
  <2>. QED BY <2>2, FS_EmptySet
<1>4. \A e \in Before(d) : e \in Docs
  BY <1>1
<1>5. PICK least \in Sizes : \A n \in Sizes : least <= n
  <2>1. Sizes \in SUBSET Nat
    BY <1>2, <1>4
  <2>2. Sizes # {}
    BY <1>3
  <2>. QED BY <2>1, <2>2, LeastOne, Zenon
<1>6. PICK e \in Before(d) : least = Cardinality(Before(e))
  BY <1>5
<1>7. e \in Docs /\ e \in older[d] /\ e \in ready
  BY <1>4, <1>6
<1>8. Before(e) = {}
  <2>1. SUFFICES ASSUME NEW f \in Before(e) PROVE FALSE
    OBVIOUS
  <2>2. f \in Docs /\ f \in older[e] /\ f \in ready
    BY <1>4, <2>1
  <2>3. older[e] \subseteq older[d]
    BY <1>7 DEF Turns
  <2>4. older[f] \subseteq older[e]
    BY <1>7, <2>2 DEF Turns
  <2>5. f \in Before(d)
    BY <2>2, <2>3
  <2>6. Before(f) \in SUBSET Before(e) /\ f \notin Before(f)
    BY <1>1, <2>2, <2>4
  <2>7. /\ Cardinality(Before(f)) \in Nat /\ Cardinality(Before(e)) \in Nat
        /\ Cardinality(Before(f)) < Cardinality(Before(e))
    <3>1. IsFiniteSet(Before(e))
      BY <1>2, <1>7
    <3>. HIDE DEF Before
    <3>. QED BY <2>1, <2>6, <3>1, Fewer, Zenon
  <2>8. Cardinality(Before(f)) \in Sizes
    BY <2>5
  <2>9. Cardinality(Before(e)) <= Cardinality(Before(f))
    BY <1>5, <1>6, <2>8, Zenon
  <2>. HIDE DEF Before
  <2>. QED BY <2>7, <2>9
<1>9. Cardinality(Before(e)) < slots
  BY <1>8, FS_EmptySet
<1>10. e \in Oldest(ready, slots)
  BY <1>7, <1>9 DEF Oldest
<1>. QED BY <1>7, <1>10

\* At the start nobody waits.
LEMMA InitTurns == ASSUME IsFiniteSet(Docs) PROVE Init => Turns
<1> SUFFICES ASSUME Init PROVE Turns
  OBVIOUS
<1>1. /\ older = [d \in Docs |-> {}] /\ waited = [d \in Docs |-> 0]
  BY Zenon DEF Init
<1>2. ASSUME NEW d \in Docs PROVE waited[d] + Cardinality(older[d] \ heavy) < Cardinality(Docs)
  <2>1. older[d] \ heavy \in SUBSET Docs /\ d \notin older[d] \ heavy /\ waited[d] = 0
    BY <1>1
  <2>. QED BY <2>1, Fewer
<1>. QED BY <1>1, <1>2 DEF Turns

\* A document that has not waited has all the others at most before it.
LEMMA NotYetWaited ==
  ASSUME IsFiniteSet(Docs), NEW d \in Docs, NEW S \in SUBSET Docs, d \notin S
  PROVE  0 + Cardinality(S) < Cardinality(Docs)
BY Fewer

\* A tick takes one that is before each of those it passes over.
LEMMA TickTurns ==
  ASSUME IsFiniteSet(Docs), Base, Copies, Turns,
         NEW ready \in SUBSET Pending, NEW paused \in SUBSET ready,
         NEW slots \in 0..HeavyPerTick, Tick(ready, paused, slots)
  PROVE  Turns'
<1> DEFINE lane == Oldest(ready, slots)
<1>b. PendingOK /\ HistoryOK
  BY DEF Base
<1>t. /\ generation \in [Docs -> Nat] /\ waited \in [Docs -> Nat]
      /\ \A d \in Docs : older[d] \in SUBSET Docs /\ d \notin older[d]
      /\ slots \in Nat
  BY <1>b, QueueAssumption DEF PendingOK, HistoryOK
<1>1. /\ heavy = {} /\ heavy' = lane
      /\ UNCHANGED <<generation, older>>
      /\ waited' = [d \in Docs |-> IF d \in ready \ lane /\ slots > 0
                                   THEN waited[d] + 1
                                   ELSE IF d \in lane THEN 0 ELSE waited[d]]
  BY DEF Tick, Plan, Copies, pendingVars
<1>2. lane \in SUBSET ready /\ ready \in SUBSET Docs
  BY DEF Oldest, Pending
<1>3. ASSUME NEW d \in ready, d \notin lane, slots > 0
      PROVE  \E e \in older[d] : e \in lane
  BY <1>b, <1>t, <1>2, <1>3, FirstInLane
<1>. HIDE DEF lane
<1>4. ASSUME NEW d \in Docs PROVE waited'[d] + Cardinality(older[d] \ lane) < Cardinality(Docs)
  <2>1. CASE d \in ready \ lane /\ slots > 0
    <3>1. PICK e \in older[d] : e \in lane
      BY <1>3, <2>1
    <3>2. IsFiniteSet(older[d])
      BY <1>t, FS_Subset, Zenon
    <3>3. older[d] \ lane \in SUBSET older[d] /\ e \notin older[d] \ lane
      BY <3>1
    <3>4. /\ Cardinality(older[d] \ lane) \in Nat /\ Cardinality(older[d]) \in Nat
          /\ Cardinality(older[d] \ lane) < Cardinality(older[d])
      BY <3>1, <3>2, <3>3, Fewer, Zenon
    <3>5. older[d] \ heavy = older[d]
      BY <1>1
    <3>6. waited[d] + Cardinality(older[d]) < Cardinality(Docs)
      BY <3>5 DEF Turns
    <3>7. Cardinality(Docs) \in Nat
      BY FS_CardinalityType, Zenon
    <3>8. waited'[d] = waited[d] + 1 /\ waited[d] \in Nat
      BY <1>1, <1>t, <2>1
    <3>. QED BY <3>4, <3>6, <3>7, <3>8
  <2>2. CASE d \in lane
    <3>1. waited'[d] = 0
      BY <1>1, <2>2
    <3>2. older[d] \ lane \in SUBSET Docs /\ d \notin older[d] \ lane
      BY <1>t
    <3>. QED BY <3>1, <3>2, NotYetWaited
  <2>3. CASE ~(d \in ready \ lane /\ slots > 0) /\ d \notin lane
    <3>1. IsFiniteSet(older[d])
      BY <1>t, FS_Subset, Zenon
    <3>2. older[d] \ lane \in SUBSET older[d]
      OBVIOUS
    <3>3. IsFiniteSet(older[d] \ lane) /\ Cardinality(older[d] \ lane) <= Cardinality(older[d])
      BY <3>1, <3>2, FS_Subset, Zenon
    <3>4. Cardinality(older[d] \ lane) \in Nat /\ Cardinality(older[d]) \in Nat
          /\ Cardinality(Docs) \in Nat
      BY <3>1, <3>3, FS_CardinalityType, Zenon
    <3>5. older[d] \ heavy = older[d]
      BY <1>1
    <3>6. waited[d] + Cardinality(older[d]) < Cardinality(Docs)
      BY <3>5 DEF Turns
    <3>7. waited'[d] = waited[d] /\ waited[d] \in Nat
      BY <1>1, <1>t, <2>3
    <3>. QED BY <3>3, <3>4, <3>6, <3>7
  <2>. QED BY <2>1, <2>2, <2>3
<1>5. ASSUME NEW d \in Docs, generation[d] = 0 \/ d \in lane PROVE waited'[d] = 0
  <2>1. CASE d \in lane
    BY <1>1, <2>1
  <2>2. CASE generation[d] = 0 /\ d \notin lane
    <3>1. d \notin ready
      BY <2>2 DEF Pending
    <3>2. waited[d] = 0
      BY <2>2 DEF Turns
    <3>. QED BY <1>1, <2>2, <3>1, <3>2
  <2>. QED BY <1>5, <2>1, <2>2
<1>. QED BY <1>1, <1>4, <1>5 DEF Turns, Pending

\* A new entry goes last, and has not waited.
LEMMA UpsertTurns ==
  ASSUME IsFiniteSet(Docs), Base, Turns, NEW d \in Docs, Upsert(d, TRUE),
         UNCHANGED <<heavy, waited>>
  PROVE  Turns'
<1>b. PendingOK /\ HistoryOK
  BY DEF Base
<1>t. /\ generation \in [Docs -> Nat] /\ waited \in [Docs -> Nat]
      /\ older \in [Docs -> SUBSET Docs] /\ \A e \in Docs : e \notin older[e]
  BY <1>b DEF PendingOK, HistoryOK
<1>1. generation' = [generation EXCEPT ![d] = @ + 1]
  BY DEF Upsert
<1>2. /\ \A e \in Docs : generation'[e] = 0 => generation[e] = 0
      /\ Pending' = Pending \cup {d}
  BY <1>1, <1>t DEF Pending
<1>3. CASE generation[d] # 0
  <2>1. older' = older
    BY <1>3 DEF Upsert
  <2>. QED BY <1>2, <2>1 DEF Turns
<1>4. CASE generation[d] = 0
  <2>1. older' = [older EXCEPT ![d] = Pending] /\ d \notin Pending /\ Pending \in SUBSET Docs
    BY <1>4 DEF Upsert, Pending
  <2>2. /\ older'[d] = Pending
        /\ \A e \in Docs : e # d => older'[e] = older[e]
        /\ \A e \in Docs : older[e] \subseteq Pending
    BY <1>t, <2>1 DEF Turns
  <2>3. ASSUME NEW x \in Docs, NEW e \in older'[x] PROVE older'[e] \subseteq older'[x]
    <3>1. e # d /\ e \in Docs
      BY <2>1, <2>2, <2>3
    <3>2. older'[e] = older[e]
      BY <2>2, <3>1
    <3>3. CASE x = d
      BY <2>2, <3>1, <3>2, <3>3
    <3>4. CASE x # d
      BY <2>2, <2>3, <3>2, <3>4 DEF Turns
    <3>. QED BY <3>3, <3>4
  <2>4. ASSUME NEW x \in Docs PROVE waited[x] + Cardinality(older'[x] \ heavy) < Cardinality(Docs)
    <3>1. CASE x = d
      <4>1. waited[x] = 0
        BY <1>4, <3>1 DEF Turns
      <4>2. older'[x] \ heavy \in SUBSET Docs /\ x \notin older'[x] \ heavy
        BY <2>1, <2>2, <3>1
      <4>. QED BY <4>1, <4>2, NotYetWaited
    <3>2. CASE x # d
      BY <2>2, <3>2 DEF Turns
    <3>. QED BY <3>1, <3>2
  <2>. QED BY <1>2, <2>2, <2>3, <2>4 DEF Turns
<1>. QED BY <1>3, <1>4

\* One that leaves the queue, or goes to its end, was in the lane.
LEMMA HeavyAckTurns ==
  ASSUME IsFiniteSet(Docs), Base, Copies, Turns, HeavyAck
  PROVE  Turns'
<1>b. PendingOK /\ HistoryOK /\ Places
  BY DEF Base
<1>t. /\ generation \in [Docs -> Nat] /\ waited \in [Docs -> Nat]
      /\ older \in [Docs -> SUBSET Docs] /\ \A e \in Docs : e \notin older[e]
  BY <1>b DEF PendingOK, HistoryOK
<1>1. PICK d \in Docs : /\ d = kdoc /\ d \in heavy /\ Acknowledge(d)
                        /\ heavy' = heavy \ {d} /\ UNCHANGED waited
  BY <1>b DEF HeavyAck, Places, Copies, historyVars
<1>2. waited[d] = 0
  BY <1>1 DEF Turns
<1>3. /\ \A e \in Docs : e # d => older'[e] = older[e] \ {d} /\ generation'[e] = generation[e]
      /\ \/ older'[d] = {} /\ generation'[d] = 0
         \/ older'[d] = Pending \ {d} /\ generation'[d] = generation[d]
  BY <1>1, <1>t DEF Acknowledge, Younger
<1>4. Pending \ {d} \subseteq Pending' /\ Pending \in SUBSET Docs
  BY <1>3 DEF Pending
<1>5. \A e \in Docs : older[e] \subseteq Pending
  BY DEF Turns
<1>6. ASSUME NEW x \in Docs PROVE older'[x] \subseteq Pending \ {d}
  BY <1>3, <1>5
<1>7. ASSUME NEW x \in Docs, NEW e \in older'[x] PROVE older'[e] \subseteq older'[x]
  <2>1. e \in Docs /\ e # d /\ e \in Pending
    BY <1>4, <1>6, <1>7
  <2>2. older'[e] = older[e] \ {d}
    BY <1>3, <2>1
  <2>3. CASE x = d
    BY <1>3, <1>5, <1>7, <2>1, <2>2, <2>3
  <2>4. CASE x # d
    <3>1. older'[x] = older[x] \ {d} /\ e \in older[x]
      BY <1>3, <1>7, <2>4
    <3>2. older[e] \subseteq older[x]
      BY <3>1 DEF Turns
    <3>. QED BY <2>2, <3>1, <3>2
  <2>. QED BY <2>3, <2>4
<1>8. ASSUME NEW x \in Docs PROVE waited[x] + Cardinality(older'[x] \ heavy') < Cardinality(Docs)
  <2>1. CASE x = d
    <3>1. older'[x] \ heavy' \in SUBSET Docs /\ x \notin older'[x] \ heavy'
      BY <1>4, <1>6, <2>1
    <3>. QED BY <1>2, <2>1, <3>1, NotYetWaited
  <2>2. CASE x # d
    <3>1. older'[x] \ heavy' = older[x] \ heavy
      BY <1>1, <1>3, <2>2
    <3>. QED BY <3>1 DEF Turns
  <2>. QED BY <2>1, <2>2
<1>9. ASSUME NEW x \in Docs, generation'[x] = 0 \/ x \in heavy' PROVE waited[x] = 0
  BY <1>1, <1>2, <1>3, <1>9 DEF Turns
<1>. QED BY <1>1, <1>4, <1>6, <1>7, <1>8, <1>9 DEF Turns

\* Every step keeps the turns.
LEMMA StepTurns ==
  ASSUME IsFiniteSet(Docs) PROVE Base /\ Copies /\ Turns /\ [Next]_vars => Turns'
<1> SUFFICES ASSUME Base, Copies, Turns, [Next]_vars PROVE Turns'
  OBVIOUS
<1> USE QueueAssumption DEF docVars, indexVars, pendingVars, workerVars, writerVars,
                            historyVars
<1>1. ASSUME UNCHANGED <<generation, older, heavy, waited>> PROVE Turns'
  BY <1>1 DEF Turns, Pending
<1>2. ASSUME NEW w \in Writers, Callback(w) PROVE Turns'
  <2>1. wdoc[w] \in Docs /\ UNCHANGED <<heavy, waited>>
    BY <1>2 DEF Callback, Places, Base
  <2>2. Upsert(wdoc[w], TRUE) \/ UNCHANGED <<generation, older>>
    BY <1>2 DEF Callback
  <2>. QED BY <1>1, <2>1, <2>2, UpsertTurns
<1>3. ASSUME NEW ready \in SUBSET Pending, NEW paused \in SUBSET ready,
             NEW slots \in 0..HeavyPerTick, Tick(ready, paused, slots)
      PROVE  Turns'
  BY <1>3, TickTurns
<1>4. CASE HeavyAck
  BY <1>4, HeavyAckTurns
<1>5. ASSUME NEW w \in Writers,
             (\E d \in Docs, kind \in Kinds : Change(w, d, kind))
             \/ Unlock(w) \/ HandlerReads(w) \/ HandlerStores(w) \/ HandlerAdds(w)
      PROVE  Turns'
  BY <1>1, <1>5 DEF Change, Unlock, HandlerReads, HandlerStores, HandlerAdds
<1>6. ASSUME NEW d \in Docs, FastRead(d) \/ HeavyRead(d) PROVE Turns'
  BY <1>1, <1>6 DEF FastRead, HeavyRead
<1>7. CASE FastStore \/ FastAck \/ HeavyStore \/ HeavyAdd \/ EndTick
  BY <1>1, <1>7 DEF FastStore, FastAck, HeavyStore, HeavyAdd, EndTick
<1>8. ASSUME NEW d \in Docs, Evict(d) \/ Load(d) PROVE Turns'
  BY <1>1, <1>8 DEF Evict, Load
<1>9. CASE UNCHANGED vars
  BY <1>1, <1>9 DEF vars
<1>. QED
  BY <1>2, <1>3, <1>4, <1>5, <1>6, <1>7, <1>8, <1>9
     DEF Next, WriterStep, WorkerStep, TickFor, WorkerReadsNext, WorkerRuns, DocStep

\* No document is passed over as often as there are documents: whatever the
\* backlog, it gets its turn in the heavy lane before that.
THEOREM NobodyStarves ==
  ASSUME IsFiniteSet(Docs) PROVE Spec => []NobodyIsStarved
<1>1. Base /\ Turns => NobodyIsStarved
  <2> SUFFICES ASSUME Base, Turns, NEW d \in Docs PROVE waited[d] < Cardinality(Docs)
    BY DEF NobodyIsStarved
  <2>1. waited[d] \in Nat /\ older[d] \ heavy \in SUBSET Docs
    BY DEF Base, HistoryOK, PendingOK
  <2>2. Cardinality(older[d] \ heavy) \in Nat /\ Cardinality(Docs) \in Nat
    BY <2>1, FS_Subset, FS_CardinalityType, Zenon
  <2>3. waited[d] + Cardinality(older[d] \ heavy) < Cardinality(Docs)
    BY DEF Turns
  <2>. QED BY <2>1, <2>2, <2>3
<1>. QED
  BY <1>1, InitBase, StepBase, InitCopies, StepCopies, InitTurns, StepTurns, PTL
     DEF Spec
=============================================================================
