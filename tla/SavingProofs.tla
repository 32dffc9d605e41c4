----------------------------- MODULE SavingProofs -----------------------------
(***************************************************************************)
(* What keeps changes from being lost: the in-memory copy of a document    *)
(* with its flag and its persister (SyncKv), and the watch over a server   *)
(* whose documents are not saved or whose workers panic (Supervision).     *)
(*                                                                         *)
(* SyncKv, for any number of writers, any persisters and any bound on      *)
(* versions.  The results about the store's content need that the worker   *)
(* alone calls persist() (OnePersister), as for a document nobody edits    *)
(* through the explicit-persist paths.                                     *)
(*                                                                         *)
(* Supervision, for any number of workers and documents and any budget,    *)
(* window and delays.                                                      *)
(***************************************************************************)
EXTENDS SyncKv, Supervision, TLAPS

OnePersister == Handlers = {}

\* The store never holds more than the document, and neither does a promise.
Behind == Upto(stored, content) /\ Upto(marked, content)

\* What a persister is writing lies between what the store has and what the
\* document is.
Carried ==
  \A p \in Persisters :
    /\ ppc[p] = "writing" => Upto(stored, snap[p]) /\ Upto(snap[p], content)
    /\ ppc[p] = "applied" => stored = snap[p]

\* The inductive invariant behind Accounted.
IInv == TypeOK /\ Behind /\ Carried /\ Accounted

-----------------------------------------------------------------------------
\* The initial state is typed.
LEMMA InitTyped == Init => TypeOK
<1> SUFFICES ASSUME Init PROVE TypeOK
  OBVIOUS
<1>1. content \in Content
  BY DEF Init, Content
<1>2. stored \in Content /\ marked \in Content
  BY <1>1 DEF Init
<1>3. snap \in [Persisters -> Content]
  BY <1>1 DEF Init
<1>4. lock \in [Fields -> Writers \cup {Free}] /\ wfield \in [Writers -> Fields]
  BY DEF Init, Fields
<1>5. wpc \in [Writers -> WriterPC] /\ ppc \in [Persisters -> PersisterPC]
  BY DEF Init, WriterPC, PersisterPC
<1>6. /\ dirty \in BOOLEAN /\ shutdown \in BOOLEAN /\ stopping \in BOOLEAN
      /\ signal \in BOOLEAN /\ done \in BOOLEAN
  BY DEF Init
<1>7. QED
  BY <1>1, <1>2, <1>3, <1>4, <1>5, <1>6 DEF TypeOK

\* Every variable keeps its type, whoever calls persist().
THEOREM TypeCorrect == Spec => []TypeOK
<1>1. Init => TypeOK
  BY InitTyped
<1>2. TypeOK /\ [Next]_vars => TypeOK'
  <2> SUFFICES ASSUME TypeOK, [Next]_vars PROVE TypeOK'
    OBVIOUS
  <2> USE DEF TypeOK, Content, writerVars, persisterVars, ends
  <2>1. ASSUME NEW w \in Writers, NEW f \in Fields, Mutate(w, f) PROVE TypeOK'
    BY <2>1 DEF Mutate, WriterPC
  <2>2. ASSUME NEW w \in Writers, RemoveEntry(w) PROVE TypeOK'
    BY <2>2 DEF RemoveEntry, WriterPC, Fields
  <2>3. ASSUME NEW w \in Writers, CheckShutdown(w) PROVE TypeOK'
    BY <2>3 DEF CheckShutdown, Unlock, WriterPC
  <2>4. ASSUME NEW w \in Writers, RaiseDirty(w) PROVE TypeOK'
    BY <2>4 DEF RaiseDirty, WriterPC
  <2>5. ASSUME NEW w \in Writers, FireCallback(w) PROVE TypeOK'
    BY <2>5 DEF FireCallback, Unlock, Open, WriterPC
  <2>6. CASE Shutdown
    BY <2>6 DEF Shutdown, Open
  <2>7. ASSUME NEW p \in Persisters, Call(p) PROVE TypeOK'
    BY <2>7 DEF Call, Awake, PersisterPC
  <2>8. ASSUME NEW p \in Persisters, Return(p) PROVE TypeOK'
    BY <2>8 DEF Return, PersisterPC
  <2>9. ASSUME NEW p \in Persisters, Claim(p) PROVE TypeOK'
    BY <2>9 DEF Claim, PersisterPC
  <2>10. ASSUME NEW p \in Persisters, ClearDirty(p) PROVE TypeOK'
    BY <2>10 DEF ClearDirty, PersisterPC
  <2>11. ASSUME NEW p \in Persisters, TakeSnapshot(p) PROVE TypeOK'
    BY <2>11 DEF TakeSnapshot, PersisterPC
  <2>12. ASSUME NEW p \in Persisters, StoreApplies(p) PROVE TypeOK'
    BY <2>12 DEF StoreApplies, PersisterPC
  <2>13. ASSUME NEW p \in Persisters, StoreAnswersOk(p) PROVE TypeOK'
    BY <2>13 DEF StoreAnswersOk, PersisterPC
  <2>14. ASSUME NEW p \in Persisters, Fails(p) PROVE TypeOK'
    BY <2>14 DEF Fails, PersisterPC
  <2>15. ASSUME NEW p \in Persisters, SignalRetry(p) PROVE TypeOK'
    BY <2>15 DEF SignalRetry, Open, PersisterPC
  <2>16. CASE Cancel
    BY <2>16 DEF Cancel
  <2>17. CASE UNCHANGED vars
    BY <2>17 DEF vars
  <2>18. QED
    BY <2>1, <2>2, <2>3, <2>4, <2>5, <2>6, <2>7, <2>8, <2>9, <2>10, <2>11,
       <2>12, <2>13, <2>14, <2>15, <2>16, <2>17 DEF Next, WriterStep, PersistStep
<1>3. QED
  BY <1>1, <1>2, PTL DEF Spec

-----------------------------------------------------------------------------
\* A raised flag always has somebody coming: a signal in the channel, one
\* about to be sent, or a persister on its way to the flag - for any number
\* of persisters.
THEOREM NoLostWakeUp == Spec => []DirtyIsSignalled
<1>1. Init => DirtyIsSignalled
  BY DEF Init, DirtyIsSignalled
<1>2. TypeOK /\ DirtyIsSignalled /\ [Next]_vars => DirtyIsSignalled'
  <2> SUFFICES ASSUME TypeOK, DirtyIsSignalled, [Next]_vars
               PROVE  DirtyIsSignalled'
    OBVIOUS
  <2> USE DEF TypeOK, DirtyIsSignalled, Open, Persisters, writerVars, persisterVars,
             ends
  <2>1. ASSUME NEW w \in Writers, NEW f \in Fields, Mutate(w, f)
        PROVE  DirtyIsSignalled'
    BY <2>1 DEF Mutate
  <2>2. ASSUME NEW w \in Writers, RemoveEntry(w) PROVE DirtyIsSignalled'
    BY <2>2 DEF RemoveEntry
  <2>3. ASSUME NEW w \in Writers, CheckShutdown(w) PROVE DirtyIsSignalled'
    BY <2>3 DEF CheckShutdown
  <2>4. ASSUME NEW w \in Writers, RaiseDirty(w) PROVE DirtyIsSignalled'
    BY <2>4 DEF RaiseDirty
  <2>5. ASSUME NEW w \in Writers, FireCallback(w) PROVE DirtyIsSignalled'
    BY <2>5 DEF FireCallback
  <2>6. CASE Shutdown
    BY <2>6 DEF Shutdown, Open
  <2>7. ASSUME NEW p \in Persisters, Call(p) PROVE DirtyIsSignalled'
    BY <2>7 DEF Call, Awake
  <2>8. ASSUME NEW p \in Persisters, Return(p) PROVE DirtyIsSignalled'
    BY <2>8 DEF Return
  <2>9. ASSUME NEW p \in Persisters, Claim(p) PROVE DirtyIsSignalled'
    BY <2>9 DEF Claim
  <2>10. ASSUME NEW p \in Persisters, ClearDirty(p) PROVE DirtyIsSignalled'
    BY <2>10 DEF ClearDirty
  <2>11. ASSUME NEW p \in Persisters, TakeSnapshot(p) PROVE DirtyIsSignalled'
    BY <2>11 DEF TakeSnapshot
  <2>12. ASSUME NEW p \in Persisters, StoreApplies(p) PROVE DirtyIsSignalled'
    BY <2>12 DEF StoreApplies
  <2>13. ASSUME NEW p \in Persisters, StoreAnswersOk(p) PROVE DirtyIsSignalled'
    BY <2>13 DEF StoreAnswersOk
  <2>14. ASSUME NEW p \in Persisters, Fails(p) PROVE DirtyIsSignalled'
    BY <2>14 DEF Fails
  <2>15. ASSUME NEW p \in Persisters, SignalRetry(p) PROVE DirtyIsSignalled'
    BY <2>15 DEF SignalRetry
  <2>16. CASE Cancel
    BY <2>16 DEF Cancel
  <2>17. CASE UNCHANGED vars
    BY <2>17 DEF vars
  <2>18. QED
    BY <2>1, <2>2, <2>3, <2>4, <2>5, <2>6, <2>7, <2>8, <2>9, <2>10, <2>11,
       <2>12, <2>13, <2>14, <2>15, <2>16, <2>17 DEF Next, WriterStep, PersistStep
<1>3. QED
  BY <1>1, <1>2, TypeCorrect, PTL DEF Spec

-----------------------------------------------------------------------------
\* The store never forgets: with one persister at a time, IInv holds for ever.
LEMMA Inductive == ASSUME OnePersister PROVE Spec => []IInv
<1>1. Init => IInv
  <2>1. Init => Behind /\ Carried /\ Accounted
    BY DEF Init, Behind, Carried, Accounted, Upto
  <2>2. QED
    BY InitTyped, <2>1 DEF IInv
<1>2. TypeOK' /\ IInv /\ [Next]_vars => IInv'
  <2> SUFFICES ASSUME TypeOK', IInv, [Next]_vars
               PROVE  Behind' /\ Carried' /\ Accounted'
    BY DEF IInv
  <2> USE OnePersister DEF OnePersister, Persisters, IInv, TypeOK, Content, Behind, Carried,
          Accounted, Upto, writerVars, persisterVars, ends
  <2>1. ASSUME NEW w \in Writers, NEW f \in Fields, Mutate(w, f)
        PROVE  Behind' /\ Carried' /\ Accounted'
    BY <2>1 DEF Mutate
  <2>2. ASSUME NEW w \in Writers, RemoveEntry(w)
        PROVE  Behind' /\ Carried' /\ Accounted'
    BY <2>2 DEF RemoveEntry, Fields
  <2>3. ASSUME NEW w \in Writers, CheckShutdown(w)
        PROVE  Behind' /\ Carried' /\ Accounted'
    BY <2>3 DEF CheckShutdown
  <2>4. ASSUME NEW w \in Writers, RaiseDirty(w)
        PROVE  Behind' /\ Carried' /\ Accounted'
    BY <2>4 DEF RaiseDirty
  <2>5. ASSUME NEW w \in Writers, FireCallback(w)
        PROVE  Behind' /\ Carried' /\ Accounted'
    BY <2>5 DEF FireCallback
  <2>6. ASSUME Shutdown
        PROVE  Behind' /\ Carried' /\ Accounted'
    BY <2>6 DEF Shutdown, Open
  <2>7. ASSUME NEW p \in Persisters, Call(p)
        PROVE  Behind' /\ Carried' /\ Accounted'
    BY <2>7 DEF Call, Awake
  <2>8. ASSUME NEW p \in Persisters, Return(p)
        PROVE  Behind' /\ Carried' /\ Accounted'
    BY <2>8 DEF Return
  <2>9. ASSUME NEW p \in Persisters, Claim(p)
        PROVE  Behind' /\ Carried' /\ Accounted'
    <3>1. Behind'
      BY <2>9 DEF Claim
    <3>2. Carried'
      BY <2>9 DEF Claim
    <3>3. Accounted'
      BY <2>9 DEF Claim
    <3>. QED BY <3>1, <3>2, <3>3
  <2>10. ASSUME NEW p \in Persisters, ClearDirty(p)
        PROVE  Behind' /\ Carried' /\ Accounted'
    BY <2>10 DEF ClearDirty
  <2>11. ASSUME NEW p \in Persisters, TakeSnapshot(p)
        PROVE  Behind' /\ Carried' /\ Accounted'
    BY <2>11 DEF TakeSnapshot
  <2>12. ASSUME NEW p \in Persisters, StoreApplies(p)
        PROVE  Behind' /\ Carried' /\ Accounted'
    <3>1. Behind'
      BY <2>12 DEF StoreApplies
    <3>2. Carried'
      BY <2>12 DEF StoreApplies
    <3>3. Accounted'
      BY <2>12 DEF StoreApplies
    <3>. QED BY <3>1, <3>2, <3>3
  <2>13. ASSUME NEW p \in Persisters, StoreAnswersOk(p)
        PROVE  Behind' /\ Carried' /\ Accounted'
    BY <2>13 DEF StoreAnswersOk
  <2>14. ASSUME NEW p \in Persisters, Fails(p)
        PROVE  Behind' /\ Carried' /\ Accounted'
    BY <2>14 DEF Fails
  <2>15. ASSUME NEW p \in Persisters, SignalRetry(p)
        PROVE  Behind' /\ Carried' /\ Accounted'
    BY <2>15 DEF SignalRetry
  <2>16. CASE Cancel
    BY <2>16 DEF Cancel
  <2>17. CASE UNCHANGED vars
    BY <2>17 DEF vars
  <2>18. QED
    BY <2>1, <2>2, <2>3, <2>4, <2>5, <2>6, <2>7, <2>8, <2>9, <2>10, <2>11,
       <2>12, <2>13, <2>14, <2>15, <2>16, <2>17 DEF Next, WriterStep, PersistStep
<1>3. QED
  BY <1>1, <1>2, TypeCorrect, PTL DEF Spec

\* While the store lacks an accepted change, the flag is up or a persist that
\* will write the change is under way.
THEOREM NothingForgotten == ASSUME OnePersister PROVE Spec => []Accounted
<1>1. IInv => Accounted
  BY DEF IInv
<1>2. QED
  BY <1>1, Inductive, PTL

-----------------------------------------------------------------------------
\* A change not yet accepted has its writer still at work, or came after
\* shutdown; and only the data is removed entry by entry.
Unaccepted ==
  /\ \A f \in Fields :
       marked[f] < content[f] =>
         \/ shutdown
         \/ \E w \in Writers :
              wfield[w] = f /\ wpc[w] \in {"mutated", "removing", "live"}
  /\ \A w \in Writers : wpc[w] = "removing" => wfield[w] = "data"

\* What has been accepted for saving was changed before, and what is being
\* accepted was too.
LEMMA UnacceptedInv == Spec => []Unaccepted
<1>1. Init => Unaccepted
  BY DEF Init, Unaccepted
<1>2. TypeOK /\ Unaccepted /\ [Next]_vars => Unaccepted'
  <2> SUFFICES ASSUME TypeOK, Unaccepted, [Next]_vars PROVE Unaccepted'
    OBVIOUS
  <2> USE DEF TypeOK, Content, Unaccepted, writerVars, persisterVars, ends
  <2>1. ASSUME NEW w \in Writers, NEW f \in Fields, Mutate(w, f)
        PROVE  Unaccepted'
    BY <2>1 DEF Mutate
  <2>2. ASSUME NEW w \in Writers, RemoveEntry(w) PROVE Unaccepted'
    BY <2>2 DEF RemoveEntry, Fields
  <2>3. ASSUME NEW w \in Writers, CheckShutdown(w) PROVE Unaccepted'
    BY <2>3 DEF CheckShutdown
  <2>4. ASSUME NEW w \in Writers, RaiseDirty(w) PROVE Unaccepted'
    BY <2>4 DEF RaiseDirty
  <2>5. ASSUME NEW w \in Writers, FireCallback(w) PROVE Unaccepted'
    BY <2>5 DEF FireCallback
  <2>6. CASE Shutdown
    BY <2>6 DEF Shutdown, Open
  <2>7. ASSUME NEW p \in Persisters, PersistStep(p) PROVE Unaccepted'
    <3>1. UNCHANGED <<content, shutdown, marked, writerVars>>
      BY <2>7 DEF PersistStep, Call, Return, Claim, ClearDirty, TakeSnapshot,
                  StoreApplies, StoreAnswersOk, Fails, SignalRetry, persisterVars
    <3>. QED BY <3>1
  <2>8. CASE Cancel
    BY <2>8 DEF Cancel
  <2>9. CASE UNCHANGED vars
    BY <2>9 DEF vars
  <2>10. QED
    BY <2>1, <2>2, <2>3, <2>4, <2>5, <2>6, <2>7, <2>8, <2>9
       DEF Next, WriterStep
<1>3. QED
  BY <1>1, <1>2, TypeCorrect, PTL DEF Spec

\* A document at rest with its flag down is what the store holds.
THEOREM CleanIsStored == ASSUME OnePersister PROVE Spec => []CleanMeansStored
<1>1. IInv /\ Unaccepted => CleanMeansStored
  <2> SUFFICES ASSUME IInv, Unaccepted, Quiet, ~dirty, ~shutdown
               PROVE  stored = content
    BY DEF CleanMeansStored
  <2>1. \A f \in Fields : ~(marked[f] < content[f])
    BY DEF Unaccepted, Quiet
  <2>2. \A f \in Fields : ~(stored[f] < marked[f])
    BY DEF IInv, Accounted, Quiet
  <2>3. ASSUME NEW f \in Fields PROVE stored[f] = content[f]
    <3>1. stored[f] \in Nat /\ marked[f] \in Nat /\ content[f] \in Nat
      BY DEF IInv, TypeOK, Content
    <3>2. stored[f] <= content[f]
      BY DEF IInv, Behind, Upto
    <3>3. QED
      BY <2>1, <2>2, <3>1, <3>2
  <2>4. QED
    BY <2>3 DEF IInv, TypeOK, Content
<1>2. QED
  BY <1>1, Inductive, UnacceptedInv, PTL

-----------------------------------------------------------------------------
\* SyncKv implements the safety half of DurableDoc: the store only ever moves
\* forward, through contents the document really had.
THEOREM Implementation == ASSUME OnePersister PROVE Spec => Abstract!SafeSpec
<1>1. Init => Abstract!AbsInit
  BY DEF Init, Abstract!AbsInit, Open, Persisters
<1>2. IInv /\ IInv' /\ [Next]_vars => [Abstract!AbsNext]_(Abstract!absVars)
  <2> SUFFICES ASSUME IInv, IInv', [Next]_vars
               PROVE  Abstract!AbsNext \/ UNCHANGED Abstract!absVars
    OBVIOUS
  <2> USE DEF Abstract!absVars, writerVars, persisterVars, ends, Open
  <2>1. ASSUME NEW w \in Writers, NEW f \in Fields, Mutate(w, f)
        PROVE  Abstract!AbsNext
    BY <2>1 DEF Mutate, Abstract!AbsNext, Abstract!Change
  <2>2. ASSUME NEW w \in Writers, RemoveEntry(w) PROVE Abstract!AbsNext
    BY <2>2 DEF RemoveEntry, Fields, Abstract!AbsNext, Abstract!Change
  <2>3. ASSUME NEW w \in Writers, RaiseDirty(w) PROVE Abstract!AbsNext
    BY <2>3 DEF RaiseDirty, IInv, TypeOK, Abstract!AbsNext, Abstract!Promise
  <2>4. ASSUME NEW p \in Persisters, StoreApplies(p) PROVE Abstract!AbsNext
    <3>1. stored' \in Content /\ Upto(stored, stored') /\ Upto(stored', content)
      BY <2>4 DEF StoreApplies, IInv, TypeOK, Carried, Upto
    <3>2. QED
      BY <3>1, <2>4 DEF StoreApplies, Content, Upto, Abstract!AbsNext,
         Abstract!Save, Abstract!Content, Abstract!Upto
  <2>5. ASSUME NEW w \in Writers, CheckShutdown(w) \/ FireCallback(w)
        PROVE  UNCHANGED Abstract!absVars
    BY <2>5 DEF CheckShutdown, FireCallback
  <2>6. CASE Shutdown
    BY <2>6 DEF Shutdown, Open
  <2>7. ASSUME NEW p \in Persisters,
               \/ Call(p) \/ Claim(p) \/ ClearDirty(p) \/ TakeSnapshot(p)
               \/ StoreAnswersOk(p) \/ Fails(p) \/ SignalRetry(p)
        PROVE  UNCHANGED Abstract!absVars
    <3>1. UNCHANGED <<content, stored, marked>>
      BY <2>7 DEF Call, Claim, ClearDirty, TakeSnapshot, StoreAnswersOk, Fails,
                  SignalRetry
    <3>2. ppc[p] # "ended" /\ ppc'[p] # "ended"
      BY <2>7 DEF Call, Claim, ClearDirty, TakeSnapshot, StoreAnswersOk, Fails,
                  SignalRetry, IInv, TypeOK
    <3>3. \A q \in Persisters : q # p => ppc'[q] = ppc[q]
      BY <2>7 DEF Call, Claim, ClearDirty, TakeSnapshot, StoreAnswersOk, Fails,
                  SignalRetry, IInv, TypeOK
    <3> QED
      BY <3>1, <3>2, <3>3 DEF Persisters
  <2>8. ASSUME NEW p \in Persisters, Return(p)
        PROVE  Abstract!Close \/ UNCHANGED Abstract!absVars
    <3>1. UNCHANGED <<content, stored, marked>>
      BY <2>8 DEF Return
    <3>2. CASE p = Worker /\ done
      <4>1. ppc[Worker] # "ended" /\ ppc'[Worker] = "ended"
        BY <2>8, <3>2 DEF Return, IInv, TypeOK
      <4> QED
        BY <3>1, <4>1 DEF Abstract!Close
    <3>3. CASE ~(p = Worker /\ done)
      <4>1. \/ ppc'[Worker] # "ended" /\ ppc[Worker] # "ended"
            \/ ppc'[Worker] = ppc[Worker]
        BY <2>8, <3>3 DEF Return, IInv, TypeOK, Persisters
      <4> QED
        BY <3>1, <4>1
    <3> QED
      BY <3>2, <3>3
  <2>9. CASE Cancel
    BY <2>9 DEF Cancel
  <2>10. CASE UNCHANGED vars
    BY <2>10 DEF vars
  <2>11. QED
    BY <2>1, <2>2, <2>3, <2>4, <2>5, <2>6, <2>7, <2>8, <2>9, <2>10
       DEF Next, WriterStep, PersistStep, Abstract!AbsNext
<1>3. QED
  BY <1>1, <1>2, Inductive, PTL DEF Spec, Abstract!SafeSpec

-----------------------------------------------------------------------------
(* Supervision. *)

-----------------------------------------------------------------------------
(* Type correctness. *)

(* Every variable of the supervisor, of the watchdog and of the documents  *)
(* keeps its type; a worker's exit is set as soon as its budget is spent.  *)
THEOREM ProcessTypeCorrect == ProcessSpec => []ProcessTypeOK
<1>1. ProcessInit => ProcessTypeOK
  <2> SUFFICES ASSUME ProcessInit PROVE ProcessTypeOK
    OBVIOUS
  <2> USE SupervisionAssumption DEF ProcessInit, Times, Never
  <2>1. /\ count \in [Workers -> 0..Budget] /\ first \in [Workers -> Times]
        /\ panics \in [Workers -> Seq(Times)] /\ exit \in [Workers -> Nat \cup {None}]
    OBVIOUS
  <2>2. \A w \in Workers : exit[w] = None /\ count[w] < Budget
    <3>1. 0 < Budget
      BY SupervisionAssumption
    <3>2. \A w \in Workers : exit[w] = None
      OBVIOUS
    <3>3. \A w \in Workers : count[w] = 0
      OBVIOUS
    <3> QED
      BY <3>1, <3>2, <3>3
  <2>3. failing \in [Docs -> Times \cup {None}] /\ check \in Nat /\ now \in Times
    OBVIOUS
  <2>4. /\ unsaved \in [Docs -> BOOLEAN] /\ save \in [Docs -> BOOLEAN] /\ cancelled \in BOOLEAN
        /\ \A d \in Docs : ~unsaved[d] /\ ~save[d]
    OBVIOUS
  <2> QED
    BY <2>1, <2>2, <2>3, <2>4 DEF ProcessTypeOK
<1>2. ProcessTypeOK /\ [ProcessNext]_processVars => ProcessTypeOK'
  <2> SUFFICES ASSUME ProcessTypeOK, [ProcessNext]_processVars PROVE ProcessTypeOK'
    OBVIOUS
  <2> USE SupervisionAssumption DEF ProcessTypeOK, Times, Never
  <2>1. ASSUME NEW w \in Workers, Panics(w) PROVE ProcessTypeOK'
    <3>1. NewWindow(w).n \in 1..Budget /\ NewWindow(w).from \in Times
      BY <2>1 DEF Panics, NewWindow
    <3>2. panics' \in [Workers -> Seq(Times)]
      BY <2>1 DEF Panics
    <3>3. exit' \in [Workers -> Nat \cup {None}]
      BY <2>1 DEF Panics
    <3>4. \A v \in Workers : (exit'[v] = None) = (count'[v] < Budget)
      BY <2>1, <3>1 DEF Panics
    <3>5. count' \in [Workers -> 0..Budget] /\ first' \in [Workers -> Times]
      BY <2>1, <3>1 DEF Panics
    <3>6. UNCHANGED <<now, documents, check, cancelled>>
      BY <2>1 DEF Panics
    <3> QED
      BY <3>2, <3>3, <3>4, <3>5, <3>6 DEF documents
  <2>2. ASSUME NEW d \in Docs, DocStep(d) PROVE ProcessTypeOK'
    <3>1. CASE Loads(d)
      BY <3>1 DEF Loads, supervisor
    <3>2. CASE Collects(d)
      BY <3>2 DEF Collects, supervisor
    <3>3. CASE Edits(d)
      BY <3>3 DEF Edits, supervisor
    <3>4. CASE Persists(d)
      BY <3>4 DEF Persists, supervisor
    <3>5. CASE SaveOk(d)
      BY <3>5 DEF SaveOk, supervisor
    <3>6. CASE SaveFails(d)
      BY <3>6 DEF SaveFails, supervisor
    <3> QED
      BY <2>2, <3>1, <3>2, <3>3, <3>4, <3>5, <3>6 DEF DocStep
  <2>3. CASE Watches
    BY <2>3 DEF Watches, supervisor, documents
  <2>4. CASE Signal
    BY <2>4 DEF Signal, supervisor, documents
  <2>5. CASE Restarts
    <3> USE <2>5 DEF Restarts
    <3>1. /\ count' \in [Workers -> 0..Budget] /\ first' \in [Workers -> Times]
          /\ panics' \in [Workers -> Seq(Times)] /\ exit' \in [Workers -> Nat \cup {None}]
      OBVIOUS
    <3>2. \A w \in Workers : (exit'[w] = None) = (count'[w] < Budget)
      OBVIOUS
    <3>3. failing' \in [Docs -> Times \cup {None}] /\ check' \in Nat /\ now' \in Times
      OBVIOUS
    <3>4. due' \subseteq loaded' /\ \A d \in Docs : unsaved'[d] \/ save'[d] => d \in loaded'
      OBVIOUS
    <3>5. unsaved' \in [Docs -> BOOLEAN] /\ save' \in [Docs -> BOOLEAN] /\ cancelled' \in BOOLEAN
      OBVIOUS
    <3> QED
      BY <3>1, <3>2, <3>3, <3>4, <3>5
  <2>6. CASE Tick
    BY <2>6 DEF Tick, supervisor
  <2>7. CASE UNCHANGED processVars
    BY <2>7 DEF processVars, supervisor, documents
  <2> QED
    BY <2>1, <2>2, <2>3, <2>4, <2>5, <2>6, <2>7 DEF ProcessNext
<1> QED
  BY <1>1, <1>2, PTL DEF ProcessSpec

-----------------------------------------------------------------------------
(* The panic budget.                                                       *)
(*                                                                         *)
(* The supervisor keeps the start of the window and the number of panics   *)
(* in it; the property speaks of all the panics of the process's life.     *)
(* What connects them: the panics that count are the last ones, all of     *)
(* them within the window, and the window begins more than its length      *)
(* after whatever lies a whole budget less one before its start.           *)

Last(w) == Len(panics[w])

\* The number of the panic with which the worker's window begins.
Start(w) == Last(w) - count[w] + 1

Ordered(w) ==
  /\ \A i \in 1..Last(w) : panics[w][i] <= now
  /\ \A i, j \in 1..Last(w) : i <= j => panics[w][i] <= panics[w][j]

Counted(w) ==
  /\ count[w] <= Last(w) /\ (Last(w) > 0 => count[w] > 0)
  /\ count[w] > 0 => /\ first[w] = panics[w][Start(w)]
                     /\ panics[w][Last(w)] - first[w] <= Window

Separate(w) ==
  count[w] > 0 =>
    \A i \in 1..Last(w) :
      i + (Budget - 1) <= Start(w) => panics[w][Start(w)] - panics[w][i] > Window

\* BurstsEnd, until the budget is spent.
Ending(w) ==
  exit[w] = None =>
    \A i \in 1..Last(w) :
      i + 2 * (Budget - 1) <= Last(w) => panics[w][i + 2 * (Budget - 1)] - panics[w][i] > Window

BudgetInv == \A w \in Workers : Ordered(w) /\ Counted(w) /\ Separate(w) /\ Ending(w)

\* A worker's part of the invariant depends on its own log, window and exit,
\* and on time, which only goes on.
LEMMA OthersKeepIt ==
  ASSUME ProcessTypeOK, ProcessTypeOK', NEW w \in Workers,
         Ordered(w), Counted(w), Separate(w), Ending(w),
         panics'[w] = panics[w], count'[w] = count[w], first'[w] = first[w], exit'[w] = exit[w],
         now <= now'
  PROVE  (Ordered(w) /\ Counted(w) /\ Separate(w) /\ Ending(w))'
<1>1. /\ Last(w)' = Last(w) /\ Start(w)' = Start(w)
      /\ \A i \in 1..Last(w) : panics[w][i] \in Times
  BY DEF ProcessTypeOK, Last, Start
<1>2. \A x \in Times : x <= now => x <= now'
  BY SupervisionAssumption DEF ProcessTypeOK, Times
<1>3. Ordered(w)'
  BY <1>1, <1>2 DEF Ordered
<1>4. Counted(w)' /\ Separate(w)' /\ Ending(w)'
  BY <1>1 DEF Counted, Separate, Ending
<1> QED
  BY <1>3, <1>4

\* A panic keeps it: it belongs to the window, or begins one that is apart.
LEMMA PanicKeepsIt ==
  ASSUME ProcessTypeOK, NEW w \in Workers, Panics(w),
         Ordered(w), Counted(w), Separate(w), Ending(w)
  PROVE  (Ordered(w) /\ Counted(w) /\ Separate(w) /\ Ending(w))'
<1> DEFINE n == Last(w)
           c == count[w]
           p == panics[w]
           s == Start(w)
<1>p. p \in Seq(Times) /\ first[w] \in Times /\ exit[w] = None
  BY DEF ProcessTypeOK, Panics
<1>0. /\ n \in Nat /\ c \in 0..(Budget - 1) /\ now \in Nat
      /\ Budget \in Nat /\ Budget > 1 /\ Window \in Nat
  <2>1. c \in 0..Budget /\ c < Budget
    BY <1>p DEF ProcessTypeOK
  <2>2. Budget \in Nat /\ Budget > 1 /\ Window \in Nat
    BY SupervisionAssumption
  <2>3. c \in 0..(Budget - 1)
    BY <2>1, <2>2
  <2>4. now \in Nat
    BY SupervisionAssumption DEF ProcessTypeOK, Times
  <2>5. n \in Nat
    BY <1>p DEF Last
  <2> QED
    BY <2>2, <2>3, <2>4, <2>5
<1>1. /\ panics'[w] = Append(p, now) /\ Last(w)' = n + 1 /\ now' = now
      /\ \A i \in 1..n : panics'[w][i] = p[i]
      /\ panics'[w][n + 1] = now
  <2>1. panics'[w] = Append(p, now)
    BY DEF Panics, ProcessTypeOK
  <2>2. now' = now
    BY DEF Panics
  <2> QED
    BY <2>1, <2>2, <1>p, <1>0 DEF Last
<1>2. \A i \in 1..n : p[i] \in Nat /\ p[i] <= now
  <2>1. \A i \in 1..n : p[i] \in Times
    BY <1>p DEF Last
  <2> QED
    BY <2>1, SupervisionAssumption DEF Ordered, Times
<1>3. \A i, j \in 1..n : i <= j => p[i] <= p[j]
  BY DEF Ordered
<1>4. count'[w] = NewWindow(w).n /\ first'[w] = NewWindow(w).from
  BY DEF Panics, ProcessTypeOK
<1>5. \A i \in 1..n : i + 2 * (Budget - 1) <= n => p[i + 2 * (Budget - 1)] - p[i] > Window
  BY <1>p DEF Ending
<1>6. Ordered(w)'
  <2>1. \A i \in 1..(n + 1) : panics'[w][i] <= now
    <3> SUFFICES ASSUME NEW i \in 1..(n + 1) PROVE panics'[w][i] <= now
      OBVIOUS
    <3>1. i = n + 1 \/ i \in 1..n
      BY <1>0
    <3>2. CASE i = n + 1
      BY <3>2, <1>0, <1>1
    <3>3. CASE i \in 1..n
      BY <3>3, <1>1, <1>2
    <3> QED
      BY <3>1, <3>2, <3>3
  <2>2. ASSUME NEW i \in 1..(n + 1), NEW j \in 1..(n + 1), i <= j
        PROVE  panics'[w][i] <= panics'[w][j]
    <3>1. CASE j = n + 1
      BY <3>1, <2>1, <1>1
    <3>2. CASE j # n + 1
      <4>1. i \in 1..n /\ j \in 1..n
        BY <3>2, <2>2, <1>0
      <4> QED
        BY <4>1, <2>2, <1>1, <1>3
    <3> QED
      BY <3>1, <3>2
  <2> QED
    BY <2>1, <2>2, <1>1 DEF Ordered
<1>7. CASE c = 0 \/ now - first[w] > Window
  <2>1. count'[w] = 1 /\ first'[w] = now
    BY <1>7, <1>4 DEF NewWindow
  <2>2. Start(w)' = n + 1
    BY <2>1, <1>0, <1>1 DEF Start
  <2>3. Counted(w)'
    BY <2>1, <2>2, <1>0, <1>1 DEF Counted
  <2>4. \A i \in 1..n : i + (Budget - 1) <= n + 1 => now - p[i] > Window
    <3> SUFFICES ASSUME NEW i \in 1..n, i + (Budget - 1) <= n + 1 PROVE now - p[i] > Window
      OBVIOUS
    <3>1. c > 0 /\ first[w] = p[s] /\ s = n - c + 1 /\ c <= n
      BY <1>0 DEF Counted, Start
    <3>2. s \in 1..n /\ i <= s
      BY <3>1, <1>0
    <3>3. p[i] <= p[s]
      BY <3>2, <1>3
    <3>4. now - p[s] > Window
      BY <3>1, <1>7
    <3>5. p[i] \in Nat /\ p[s] \in Nat /\ now \in Nat /\ Window \in Nat
      BY <3>2, <1>0, <1>2
    <3>6. \A x, y \in Nat : x <= y /\ now - y > Window => now - x > Window
      BY <3>5
    <3> QED
      BY <3>3, <3>4, <3>5, <3>6
  <2>5. Separate(w)'
    <3>1. ASSUME NEW i \in 1..(n + 1), i + (Budget - 1) <= n + 1
          PROVE  panics'[w][n + 1] - panics'[w][i] > Window
      <4>1. i \in 1..n
        BY <3>1, <1>0
      <4> QED
        BY <4>1, <3>1, <2>4, <1>1
    <3> QED
      BY <3>1, <2>2, <1>1 DEF Separate
  <2>6. Ending(w)'
    <3>1. ASSUME NEW i \in 1..(n + 1), i + 2 * (Budget - 1) <= n + 1
          PROVE  panics'[w][i + 2 * (Budget - 1)] - panics'[w][i] > Window
      <4>1. i \in 1..n /\ i + (Budget - 1) <= n + 1
        BY <3>1, <1>0
      <4>2. CASE i + 2 * (Budget - 1) = n + 1
        BY <4>1, <4>2, <2>4, <1>1
      <4>3. CASE i + 2 * (Budget - 1) # n + 1
        <5>1. i + 2 * (Budget - 1) \in 1..n
          BY <4>3, <3>1, <1>0
        <5>2. p[i + 2 * (Budget - 1)] - p[i] > Window
          BY <5>1, <4>1, <1>0, <1>5
        <5> QED
          BY <5>1, <5>2, <4>1, <1>1
      <4> QED
        BY <4>2, <4>3
    <3> QED
      BY <3>1, <1>1 DEF Ending
  <2> QED
    BY <1>6, <2>3, <2>5, <2>6
<1>8. CASE ~(c = 0 \/ now - first[w] > Window)
  <2>1. count'[w] = c + 1 /\ first'[w] = first[w]
    BY <1>8, <1>4 DEF NewWindow
  <2>2. /\ c > 0 /\ c <= n /\ first[w] = p[s] /\ s = n - c + 1 /\ s \in 1..n
        /\ now - first[w] <= Window
    <3>1. c > 0 /\ c <= n /\ first[w] = p[s] /\ s = n - c + 1
      <4>1. c > 0
        BY <1>8, <1>0
      <4> QED
        BY <4>1 DEF Counted, Start
    <3>2. first[w] \in Nat
      BY <1>p, SupervisionAssumption DEF Times
    <3> QED
      BY <3>1, <3>2, <1>0, <1>8
  <2>3. Start(w)' = s
    <3>1. Start(w)' = (n + 1) - (c + 1) + 1
      BY <2>1, <1>1 DEF Start
    <3> QED
      BY <3>1, <2>2, <1>0
  <2>4. Counted(w)'
    <3>1. count'[w] <= Last(w)' /\ Last(w)' > 0 /\ count'[w] > 0
      BY <2>1, <2>2, <1>0, <1>1
    <3>2. first'[w] = panics'[w][s] /\ panics'[w][Last(w)'] - first'[w] <= Window
      BY <2>1, <2>2, <1>1
    <3> QED
      BY <3>1, <3>2, <2>3 DEF Counted
  <2>5. \A i \in 1..n : i + (Budget - 1) <= s => p[s] - p[i] > Window
    BY <2>2 DEF Separate
  <2>6. Separate(w)'
    <3>1. ASSUME NEW i \in 1..(n + 1), i + (Budget - 1) <= s
          PROVE  panics'[w][s] - panics'[w][i] > Window
      <4>1. i \in 1..n
        BY <3>1, <2>2, <1>0
      <4> QED
        BY <4>1, <3>1, <2>2, <2>5, <1>1
    <3> QED
      BY <3>1, <2>3, <1>1 DEF Separate
  <2>7. Ending(w)'
    <3>1. ASSUME NEW i \in 1..(n + 1), i + 2 * (Budget - 1) <= n + 1, exit'[w] = None
          PROVE  panics'[w][i + 2 * (Budget - 1)] - panics'[w][i] > Window
      <4>1. c + 1 < Budget
        BY <3>1, <2>1, <1>0, SupervisionAssumption DEF Panics, ProcessTypeOK
      <4>2. i \in 1..n
        BY <3>1, <1>0
      <4>3. CASE i + 2 * (Budget - 1) = n + 1
        <5>1. i + (Budget - 1) <= s
          <6>1. s = n - c + 1
            BY <2>2
          <6> QED
            BY <6>1, <4>1, <4>2, <4>3, <1>0
        <5>2. p[s] - p[i] > Window /\ p[s] \in Nat /\ p[i] \in Nat /\ p[s] <= now
          BY <5>1, <4>2, <2>5, <2>2, <1>2
        <5>3. \A x, y \in Nat : x - y > Window /\ x <= now => now - y > Window
          BY <1>0
        <5>4. now - p[i] > Window
          BY <5>2, <5>3
        <5> QED
          BY <5>4, <4>2, <4>3, <1>1
      <4>4. CASE i + 2 * (Budget - 1) # n + 1
        <5>1. i + 2 * (Budget - 1) \in 1..n
          BY <4>4, <3>1, <1>0
        <5>2. p[i + 2 * (Budget - 1)] - p[i] > Window
          BY <5>1, <4>2, <1>0, <1>5
        <5> QED
          BY <5>1, <5>2, <4>2, <1>1
      <4> QED
        BY <4>3, <4>4
    <3> QED
      BY <3>1, <1>1 DEF Ending
  <2> QED
    BY <1>6, <2>4, <2>6, <2>7
<1> QED
  BY <1>7, <1>8

(* Only a burst spends a worker's budget, and no burst of twice the budget *)
(* goes on: NewWindow and the budget of supervise are what BudgetKept says *)
(* of the whole log, for every budget and window.                          *)
THEOREM BudgetIsKept == ProcessSpec => []BudgetKept
<1>1. ProcessInit => BudgetInv
  <2> SUFFICES ASSUME ProcessInit, NEW w \in Workers
               PROVE  Ordered(w) /\ Counted(w) /\ Separate(w) /\ Ending(w)
    BY DEF BudgetInv
  <2>1. Last(w) = 0 /\ count[w] = 0
    BY DEF ProcessInit, Last
  <2> QED
    BY <2>1 DEF Ordered, Counted, Separate, Ending
<1>2. ProcessTypeOK /\ ProcessTypeOK' /\ BudgetInv /\ [ProcessNext]_processVars => BudgetInv'
  <2> SUFFICES ASSUME ProcessTypeOK, ProcessTypeOK', BudgetInv, [ProcessNext]_processVars, NEW v \in Workers
               PROVE  (Ordered(v) /\ Counted(v) /\ Separate(v) /\ Ending(v))'
    BY DEF BudgetInv
  <2>0. Ordered(v) /\ Counted(v) /\ Separate(v) /\ Ending(v) /\ now \in Nat
    BY SupervisionAssumption DEF BudgetInv, ProcessTypeOK, Times
  <2>1. ASSUME NEW w \in Workers, Panics(w)
        PROVE  (Ordered(v) /\ Counted(v) /\ Separate(v) /\ Ending(v))'
    <3>1. CASE v = w
      BY <3>1, <2>0, <2>1, PanicKeepsIt
    <3>2. CASE v # w
      <4>1. /\ panics'[v] = panics[v] /\ count'[v] = count[v] /\ first'[v] = first[v]
            /\ exit'[v] = exit[v] /\ now <= now'
        BY <3>2, <2>0, <2>1 DEF Panics, ProcessTypeOK
      <4> QED
        BY <4>1, <2>0, OthersKeepIt
    <3> QED
      BY <3>1, <3>2
  <2>2. CASE Restarts
    <3>1. Last(v)' = 0 /\ count'[v] = 0
      BY <2>2 DEF Restarts, Last
    <3> QED
      BY <3>1 DEF Ordered, Counted, Separate, Ending
  <2>3. CASE UNCHANGED supervisor /\ now <= now'
    BY <2>3, <2>0, OthersKeepIt DEF supervisor
  <2>4. (\E d \in Docs : DocStep(d)) \/ Watches \/ Signal \/ Tick \/ UNCHANGED processVars
        => UNCHANGED supervisor /\ now <= now'
    BY <2>0 DEF DocStep, Loads, Collects, Edits, Persists, SaveOk, SaveFails, Watches, Signal, Tick,
                processVars, supervisor
  <2> QED
    BY <2>1, <2>2, <2>3, <2>4 DEF ProcessNext
<1>3. ProcessTypeOK /\ BudgetInv => BudgetKept
  <2> SUFFICES ASSUME ProcessTypeOK, BudgetInv, NEW w \in Workers PROVE SpentByBurst(w) /\ BurstsEnd(w)
    BY DEF BudgetKept
  <2>0. /\ Counted(w) /\ Ending(w) /\ Last(w) \in Nat /\ DOMAIN panics[w] = 1..Last(w)
        /\ Budget \in Nat /\ Budget > 1
    BY SupervisionAssumption DEF BudgetInv, ProcessTypeOK, Last
  <2>1. SpentByBurst(w)
    <3> SUFFICES ASSUME exit[w] # None
                 PROVE  Last(w) >= Budget /\ Burst(w, Last(w) - Budget + 1, Last(w))
      BY DEF SpentByBurst, Last
    <3>1. count[w] = Budget
      <4>1. count[w] \in 0..Budget /\ ~(count[w] < Budget)
        BY DEF ProcessTypeOK
      <4> QED
        BY <4>1, <2>0
    <3> QED
      BY <3>1, <2>0 DEF Counted, Start, Burst
  <2>2. BurstsEnd(w)
    <3> SUFFICES ASSUME exit[w] = None, NEW i \in 1..Last(w), i + 2 * (Budget - 1) \in 1..Last(w)
                 PROVE  ~(panics[w][i + 2 * (Budget - 1)] - panics[w][i] <= Window)
      BY <2>0 DEF BurstsEnd, Burst
    <3>1. panics[w][i + 2 * (Budget - 1)] - panics[w][i] > Window
      BY <2>0 DEF Ending
    <3>2. panics[w][i + 2 * (Budget - 1)] \in Times /\ panics[w][i] \in Times
      BY <2>0 DEF ProcessTypeOK, Last
    <3> QED
      BY <3>1, <3>2, SupervisionAssumption DEF Times
  <2> QED
    BY <2>1, <2>2
<1> QED
  BY <1>1, <1>2, <1>3, ProcessTypeCorrect, PTL DEF ProcessSpec
-----------------------------------------------------------------------------
(* The watchdog.                                                           *)
(*                                                                         *)
(* A document that fails to save raises lastDirty in every tick, whether   *)
(* the watchdog looks before that or after it.  So at its last look, a     *)
(* Period ago at most, either nothing had failed yet or something had been *)
(* saved in time; before its first look, the process is not old enough.    *)

\* A failing document is loaded, and raises lastDirty once in a tick.
Tried ==
  \A d \in Docs : failing[d] # None =>
    /\ d \in loaded
    /\ lastDirty >= now - 1
    /\ d \notin due /\ ~save[d] => lastDirty = now

Unlooked == \A d \in Docs : failing[d] # None => failing[d] >= check - (Grace + Period)

Looked ==
  \A d \in Docs : failing[d] # None =>
    failing[d] >= check - Period \/ lastPersist >= check - Period - Stale

Timely == lastDirty <= now /\ lastPersist <= now

WatchInv ==
  /\ Tried /\ Timely
  /\ ~cancelled => /\ check >= now
                   /\ \/ check <= now + (Grace + Period) /\ Unlooked
                      \/ check <= now + Period /\ Looked

\* Integers behind the types.
LEMMA Numbers ==
  ASSUME ProcessTypeOK
  PROVE  /\ now \in Nat /\ check \in Nat /\ lastDirty \in Int /\ lastPersist \in Int
         /\ Grace \in Nat /\ Period \in Nat /\ Stale \in Nat /\ Stale > 0 /\ Grace <= Stale
         /\ \A d \in Docs : failing[d] # None => failing[d] \in Nat
  BY SupervisionAssumption DEF ProcessTypeOK, Times, Never

\* What a document's step does to the watchdog's view of it.
LEMMA DocStepsAreSeen ==
  ASSUME ProcessTypeOK, ProcessTypeOK', WatchInv, NEW d \in Docs, DocStep(d)
  PROVE  WatchInv'
<1>1. /\ now' = now /\ check' = check /\ cancelled' = cancelled
  BY DEF DocStep, Loads, Collects, Edits, Persists, SaveOk, SaveFails
<1>2. /\ now \in Nat /\ check \in Nat /\ lastDirty \in Int /\ lastPersist \in Int
      /\ Period \in Nat /\ Stale \in Nat /\ Grace \in Nat
  BY Numbers
<1>3. /\ lastDirty' \in {lastDirty, now} /\ lastPersist' \in {lastPersist, now}
  BY DEF DocStep, Loads, Collects, Edits, Persists, SaveOk, SaveFails
<1>4. Timely'
  BY <1>1, <1>2, <1>3 DEF Timely, WatchInv
<1>5. \A e \in Docs : failing'[e] # None =>
        failing'[e] = failing[e] \/ failing'[e] = now
  BY DEF DocStep, Loads, Collects, Edits, Persists, SaveOk, SaveFails, ProcessTypeOK
<1>6. ASSUME NEW e \in Docs, failing'[e] # None
      PROVE  /\ e \in loaded'
             /\ lastDirty' >= now - 1
             /\ e \notin due' /\ ~save'[e] => lastDirty' = now
  <2>1. CASE e # d
    <3>1. failing'[e] = failing[e] /\ save'[e] = save[e] /\ (e \in loaded => e \in loaded')
          /\ (e \in due => e \in due')
      BY <2>1 DEF DocStep, Loads, Collects, Edits, Persists, SaveOk, SaveFails, ProcessTypeOK
    <3>2. /\ e \in loaded /\ lastDirty >= now - 1
          /\ e \notin due /\ ~save[e] => lastDirty = now
      BY <3>1, <1>6 DEF WatchInv, Tried
    <3> QED
      BY <3>1, <3>2, <1>2, <1>3
  <2>2. CASE e = d
    <3>1. CASE Edits(d) \/ SaveFails(d)
      BY <3>1, <2>2, <1>2 DEF Edits, SaveFails, ProcessTypeOK
    <3>2. CASE Loads(d)
      BY <3>2, <2>2, <1>6 DEF Loads, WatchInv, Tried
    <3>3. CASE Collects(d) \/ SaveOk(d)
      BY <3>3, <2>2, <1>6 DEF Collects, SaveOk, ProcessTypeOK
    <3>4. CASE Persists(d)
      <4>1. unsaved[d] /\ save'[d] /\ failing'[d] = failing[d] /\ loaded' = loaded /\ lastDirty' = lastDirty
        BY <3>4, <2>2, <1>6 DEF Persists, ProcessTypeOK
      <4> QED
        BY <4>1, <2>2, <1>6 DEF WatchInv, Tried
    <3> QED
      BY <3>1, <3>2, <3>3, <3>4 DEF DocStep
  <2> QED
    BY <2>1, <2>2
<1>7. Tried'
  BY <1>1, <1>6 DEF Tried
<1>8. ASSUME ~cancelled
      PROVE  /\ check >= now
             /\ \/ check <= now + (Grace + Period) /\ Unlooked'
                \/ check <= now + Period /\ Looked'
  <2>1. check >= now
    BY <1>8 DEF WatchInv
  <2>2. CASE Unlooked /\ check <= now + (Grace + Period)
    BY <2>1, <2>2, <1>1, <1>2, <1>5 DEF Unlooked
  <2>3. CASE check <= now + Period /\ Looked
    <3>1. \A e \in Docs : failing'[e] # None =>
            failing'[e] >= check - Period \/ lastPersist' >= check - Period - Stale
      <4> SUFFICES ASSUME NEW e \in Docs, failing'[e] # None
                   PROVE  failing'[e] >= check - Period \/ lastPersist' >= check - Period - Stale
        OBVIOUS
      <4>1. CASE failing'[e] = now
        BY <4>1, <2>3, <1>2
      <4>2. CASE failing'[e] = failing[e] /\ lastPersist' = lastPersist
        BY <4>2, <2>3 DEF Looked
      <4>3. CASE lastPersist' = now
        BY <4>3, <2>3, <1>2
      <4> QED
        BY <4>1, <4>2, <4>3, <1>3, <1>5
    <3> QED
      BY <3>1, <2>1, <2>3, <1>1 DEF Looked
  <2> QED
    BY <2>1, <2>2, <2>3, <1>8 DEF WatchInv
<1> QED
  BY <1>1, <1>4, <1>7, <1>8 DEF WatchInv

\* What a look that does not end the process has seen.
LEMMA LooksAreTrue ==
  ASSUME ProcessTypeOK, WatchInv, Watches, ~cancelled'
  PROVE  Looked'
<1>1. /\ check' = now + Period /\ failing' = failing /\ lastPersist' = lastPersist
      /\ ~(lastDirty > lastPersist /\ now - lastPersist > Stale)
  BY DEF Watches, documents
<1>2. /\ now \in Nat /\ lastDirty \in Int /\ lastPersist \in Int
      /\ Period \in Nat /\ Stale \in Nat /\ Stale > 0
  BY Numbers
<1>3. ASSUME NEW d \in Docs, failing[d] # None
      PROVE  lastPersist >= now - Stale
  <2>1. lastDirty >= now - 1
    BY <1>3 DEF WatchInv, Tried
  <2> QED
    BY <2>1, <1>1, <1>2
<1>4. check' - Period = now
  BY <1>1, <1>2
<1> QED
  BY <1>1, <1>3, <1>4 DEF Looked

(* A server that fails to save is on its way down in time: persist's       *)
(* signals, the timestamps and persistence_watchdog, with any delays of    *)
(* which the first is no longer than what counts as stale.                 *)
THEOREM WatchdogNotices == ProcessSpec => []StallsAreNoticed
<1>1. ProcessTypeOK /\ ProcessInit => WatchInv
  <2> SUFFICES ASSUME ProcessTypeOK, ProcessInit PROVE WatchInv
    OBVIOUS
  <2>1. \A d \in Docs : failing[d] = None
    BY DEF ProcessInit
  <2>2. /\ now = 0 /\ check = Grace + Period /\ lastDirty = Never /\ lastPersist = Never
    BY DEF ProcessInit
  <2> QED
    BY <2>1, <2>2, Numbers DEF WatchInv, Tried, Timely, Unlooked, Never
<1>2. ProcessTypeOK /\ ProcessTypeOK' /\ WatchInv /\ [ProcessNext]_processVars => WatchInv'
  <2> SUFFICES ASSUME ProcessTypeOK, ProcessTypeOK', WatchInv, [ProcessNext]_processVars PROVE WatchInv'
    OBVIOUS
  <2>1. ASSUME NEW d \in Docs, DocStep(d) PROVE WatchInv'
    BY <2>1, DocStepsAreSeen
  <2>2. ASSUME UNCHANGED <<now, documents, check>>, cancelled => cancelled' PROVE WatchInv'
    BY <2>2 DEF documents, WatchInv, Tried, Timely, Unlooked, Looked
  <2>3. ASSUME NEW w \in Workers, Panics(w) PROVE WatchInv'
    BY <2>2, <2>3 DEF Panics
  <2>4. CASE Signal
    BY <2>2, <2>4 DEF Signal
  <2>5. CASE UNCHANGED processVars
    BY <2>2, <2>5 DEF processVars
  <2>6. CASE Watches
    <3>1. UNCHANGED <<now, documents>> /\ check' = now + Period
      BY <2>6 DEF Watches
    <3>2. Tried' /\ Timely'
      BY <3>1 DEF documents, WatchInv, Tried, Timely
    <3>3. ~cancelled' => check' >= now' /\ check' <= now' + Period /\ Looked'
      BY <2>6, <3>1, Numbers, LooksAreTrue
    <3> QED
      BY <3>2, <3>3 DEF WatchInv
  <2>7. CASE Restarts
    <3>1. /\ \A d \in Docs : failing'[d] = None
          /\ now' = now /\ check' = now + Grace + Period /\ lastDirty' = Never /\ lastPersist' = Never
      BY <2>7 DEF Restarts
    <3> QED
      BY <3>1, Numbers DEF WatchInv, Tried, Timely, Unlooked, Never
  <2>8. CASE Tick
    <3>1. /\ now' = now + 1 /\ check' = check /\ cancelled' = cancelled /\ due' = loaded
          /\ loaded' = loaded /\ lastDirty' = lastDirty /\ lastPersist' = lastPersist
          /\ check > now \/ cancelled
      BY <2>8 DEF Tick
    <3>2. \A d \in Docs : failing'[d] # None => failing'[d] = failing[d] /\ ~save[d] /\ d \notin due
      BY <2>8 DEF Tick
    <3>3. \A d \in Docs : failing'[d] # None => d \in loaded /\ lastDirty = now
      BY <3>2 DEF WatchInv, Tried
    <3>4. Tried'
      BY <3>1, <3>3, Numbers DEF Tried
    <3>5. Timely'
      BY <3>1, Numbers DEF WatchInv, Timely
    <3>6. Unlooked => Unlooked'
      BY <3>1, <3>2 DEF Unlooked
    <3>7. Looked => Looked'
      BY <3>1, <3>2 DEF Looked
    <3> QED
      BY <3>1, <3>4, <3>5, <3>6, <3>7, Numbers DEF WatchInv
  <2> QED
    BY <2>1, <2>3, <2>4, <2>5, <2>6, <2>7, <2>8 DEF ProcessNext
<1>3. ProcessTypeOK /\ WatchInv => StallsAreNoticed
  <2> SUFFICES ASSUME ProcessTypeOK, WatchInv, ~cancelled, NEW d \in Docs, failing[d] # None,
                      now - failing[d] > Stale + Period, now - lastPersist > Stale + Period
               PROVE  FALSE
    BY DEF StallsAreNoticed
  <2>1. check >= now
    BY DEF WatchInv
  <2>2. CASE Unlooked
    <3>1. failing[d] >= check - (Grace + Period)
      BY <2>2 DEF Unlooked
    <3> QED
      BY <3>1, <2>1, Numbers
  <2>3. CASE Looked
    <3>1. failing[d] >= check - Period \/ lastPersist >= check - Period - Stale
      BY <2>3 DEF Looked
    <3> QED
      BY <3>1, <2>1, Numbers
  <2> QED
    BY <2>2, <2>3 DEF WatchInv
<1> QED
  BY <1>1, <1>2, <1>3, ProcessTypeCorrect, PTL DEF ProcessSpec
=============================================================================
