------------------------ MODULE DocLifecycleProofs --------------------------
(***************************************************************************)
(* DocLifecycle, proved for any clients, edits and number of loads, loads  *)
(* that overlap included.                                                  *)
(*                                                                         *)
(* The argument.  An instance is put in the map once.  It leaves the map   *)
(* replaced by another, or taken by one GC worker, whichever (Places,      *)
(* Takes), and only the first leaves holders behind (Holders).  So an      *)
(* instance that is edited or compacted is subscribed and not shut down,   *)
(* unless it was replaced (Alive); every change of a Y.Doc reaches the     *)
(* SyncKv and raises its flag, and a lowered flag means that the worker    *)
(* has written, or is about to write, all there is (Saves).                *)
(*                                                                         *)
(* A second invariant (Kept) follows each edit from one instance through   *)
(* the store to the next.                                                  *)
(***************************************************************************)
EXTENDS DocLifecycle, TLAPS

Reading(c) == cpc[c] \in {"read", "persisted"}

\* A load that has read the store has an instance of its own, not yet inserted.
Loads ==
  /\ \A c \in Clients : Reading(c) =>
       at[c] \in Instances /\ at[c] <= loaded /\ gpc[at[c]] = "none"
  /\ \A c, d \in Clients : Reading(c) /\ Reading(d) /\ at[c] = at[d] => c = d
  /\ \A i \in Instances : i > loaded => gpc[i] = "none"

\* What is in the map, was replaced in it or taken from it, was inserted; and it
\* is one of the three.
Places ==
  /\ docs \in {None, newest}
  /\ newest # None => gpc[newest] # "none"
  /\ newest \notin replaced
  /\ \A i \in replaced : gpc[i] # "none"
  /\ \A g \in Instances : took[g] # None =>
       gpc[took[g]] # "none" /\ took[g] # docs /\ took[g] \notin replaced

Holders ==
  \A c \in Clients : cpc[c] = "holding" =>
    at[c] \in replaced \/ (docs # None /\ at[c] = docs)

\* A GC worker takes one instance, and no two take the same.
Takes ==
  /\ \A g \in Instances :
       /\ gpc[g] \in {"none", "sampling", "removing"} => took[g] = None
       /\ gpc[g] \in {"compacting", "closing"} => took[g] # None
  /\ \A g, h \in Instances : took[g] = took[h] /\ took[g] # None => g = h

\* An instance's workers begin with its insertion, and end with its shutdown,
\* when it is gone from the map, or with the server.
Workers ==
  \A i \in Instances :
    /\ wpc[i] = "none" <=> gpc[i] = "none"
    /\ gpc[i] = "none" => ~dirty[i]
    /\ wpc[i] = "exited" => shutdown[i] \/ cancelled
    /\ done[i] /\ wpc[i] \in {"woken", "writing"} => shutdown[i] \/ cancelled
    /\ gpc[i] \in {"compacting", "closing"} => docs # i
    /\ gpc[i] = "exited" /\ ~cancelled => docs # i

Closed(i) == \E g \in Instances : took[g] = i /\ gpc[g] = "exited"

Alive ==
  \A i \in Instances :
    /\ ~subscribed[i] <=> i \in replaced \/ Closed(i)
    /\ shutdown[i] => Closed(i)

Saves ==
  \A i \in Instances :
    /\ kv[i] \subseteq ydoc[i]
    /\ i \notin replaced => ydoc[i] = kv[i]
    /\ ~dirty[i] =>
         kv[i] \subseteq (IF wpc[i] = "writing" THEN snap[i] ELSE saved[i])

\* What TypeOK needs to be inductive: a load that has read the store has an
\* instance, a GC worker that has counted two checkpoints does not go on
\* sampling.
Typed ==
  /\ TypeOK
  /\ \A c \in Clients : cpc[c] \in {"read", "persisted", "holding"} => at[c] \in Instances
  /\ \A g \in Instances : gpc[g] = "sampling" => unreferenced[g] < 2

IInv == Typed /\ Loads /\ Places /\ Holders /\ Takes /\ Workers /\ Alive /\ Saves

-----------------------------------------------------------------------------
(* Types *)

\* The initial state is typed.
LEMMA InitTyped == Init => Typed
<1> SUFFICES ASSUME Init PROVE Typed
  OBVIOUS
<1>1. 0 \in 0..MaxInstances
  BY LifecycleAssumption
<1>2. dirty \in [Instances -> BOOLEAN]
  BY Zenon DEF Init
<1>3. /\ shutdown \in [Instances -> BOOLEAN] /\ signal \in [Instances -> BOOLEAN]
      /\ done \in [Instances -> BOOLEAN] /\ subscribed \in [Instances -> BOOLEAN]
  BY <1>2, Zenon DEF Init
<1>4. /\ ydoc \in [Instances -> SUBSET Changes]
      /\ wpc \in [Instances -> {"none"}]
  BY DEF Init
<1>5. /\ kv \in [Instances -> SUBSET Changes] /\ snap \in [Instances -> SUBSET Changes]
      /\ saved \in [Instances -> SUBSET Changes]
  BY <1>4, Zenon DEF Init
<1>6. gpc \in [Instances -> {"none"}]
  BY <1>4, Zenon DEF Init
<1>7. /\ docs = None /\ store = {} /\ loaded = 0
      /\ unreferenced = [i \in Instances |-> 0]
      /\ took = [i \in Instances |-> None]
      /\ cpc = [c \in Clients |-> "idle"]
      /\ at = [c \in Clients |-> None]
      /\ cancelled = FALSE /\ acked = {}
      /\ newest = None /\ replaced = {} /\ exposed = {}
  BY Zenon DEF Init
<1>8. /\ unreferenced \in [Instances -> 0..2]
      /\ took \in [Instances -> {None} \cup Instances]
      /\ cpc \in [Clients -> {"idle"}]
      /\ at \in [Clients -> {None} \cup Instances]
  BY <1>7
<1>. QED
  BY <1>1, <1>2, <1>3, <1>4, <1>5, <1>6, <1>7, <1>8
     DEF Typed, TypeOK, WorkerPC, GcPC, ClientPC

\* Every step keeps the types.
LEMMA StepTyped == Typed /\ [Next]_vars => Typed'
<1> SUFFICES ASSUME Typed, [Next]_vars PROVE Typed'
  OBVIOUS
<1> USE DEF Typed, TypeOK, mapVars, instVars, workerVars, gcVars, clientVars,
            serverVars, raceVars, Becomes
<1>1. ASSUME NEW c \in Clients, Lookup(c) PROVE Typed'
  BY <1>1 DEF Lookup, ClientPC
<1>2. ASSUME NEW c \in Clients, Get(c) PROVE Typed'
  BY <1>2 DEF Get, ClientPC
<1>3. ASSUME NEW c \in Clients, ReadStore(c) PROVE Typed'
  BY <1>3, LifecycleAssumption DEF ReadStore, ClientPC, Instances
<1>4. ASSUME NEW c \in Clients, FirstPersist(c) PROVE Typed'
  BY <1>4 DEF FirstPersist, ClientPC
<1>5. ASSUME NEW c \in Clients, LoadFails(c) PROVE Typed'
  BY <1>5 DEF LoadFails, ClientPC
<1>6. ASSUME NEW c \in Clients, Insert(c) PROVE Typed'
  <2>1. subscribed' \in [Instances -> BOOLEAN]
    BY <1>6, Zenon DEF Insert
  <2>2. /\ docs' = at[c]
        /\ wpc' = [wpc EXCEPT ![at[c]] = "waiting"]
        /\ gpc' = [gpc EXCEPT ![at[c]] = "sampling"]
        /\ unreferenced' = [unreferenced EXCEPT ![at[c]] = 0]
        /\ cpc' = [cpc EXCEPT ![c] = "found"] /\ at' = [at EXCEPT ![c] = None]
    BY <1>6, Zenon DEF Insert
  <2>3. gpc' \in [Instances -> GcPC] /\ wpc' \in [Instances -> WorkerPC]
    BY <2>2 DEF GcPC, WorkerPC
  <2>4. unreferenced' \in [Instances -> 0..2]
    <3>1. unreferenced \in [Instances -> 0..2] /\ 0 \in 0..2
      OBVIOUS
    <3>. HIDE DEF Typed, TypeOK
    <3>. QED BY <2>2, <3>1
  <2>5. \A g \in Instances : gpc'[g] = "sampling" => unreferenced'[g] < 2
    BY <2>2
  <2>6. /\ UNCHANGED <<store, loaded, ydoc, kv, dirty, shutdown, signal, done,
                       snap, saved, took, cancelled, acked, exposed>>
        /\ newest' = at[c]
        /\ replaced' = IF docs = None THEN replaced ELSE replaced \cup {docs}
    BY <1>6, Zenon DEF Insert
  <2>. QED BY <2>1, <2>2, <2>3, <2>4, <2>5, <2>6 DEF ClientPC
<1>7. ASSUME NEW c \in Clients, NEW e \in Edits, Edit(c, e) PROVE Typed'
  <2>1. dirty' \in [Instances -> BOOLEAN] /\ signal' \in [Instances -> BOOLEAN]
    BY <1>7, Zenon DEF Edit, Edited
  <2>2. /\ ydoc' = [ydoc EXCEPT ![at[c]] = @ \cup {e}]
        /\ kv' = [kv EXCEPT ![at[c]] = IF subscribed[at[c]] THEN @ \cup {e} ELSE @]
        /\ acked' = acked \cup {e}
        /\ exposed' \in {exposed, exposed \cup {e}}
        /\ UNCHANGED <<mapVars, workerVars, gcVars, clientVars, cancelled,
                       subscribed, shutdown, newest, replaced>>
    BY <1>7, Zenon DEF Edit, Edited
  <2>3. /\ ydoc' \in [Instances -> SUBSET Changes]
        /\ kv' \in [Instances -> SUBSET Changes]
    <3>1. e \in Changes /\ ydoc \in [Instances -> SUBSET Changes]
          /\ kv \in [Instances -> SUBSET Changes]
      BY DEF Changes
    <3>. HIDE DEF Typed, TypeOK
    <3>. QED BY <2>2, <3>1
  <2>. QED BY <2>1, <2>2, <2>3
<1>8. ASSUME NEW c \in Clients, Release(c) PROVE Typed'
  BY <1>8 DEF Release, ClientPC
<1>9. ASSUME NEW i \in Instances, Wake(i) PROVE Typed'
  BY <1>9 DEF Wake, WakesWith, WorkerPC
<1>10. ASSUME NEW i \in Instances, BeginSave(i) PROVE Typed'
  BY <1>10 DEF BeginSave, Saved, WorkerPC
<1>11. ASSUME NEW i \in Instances, SaveOk(i) PROVE Typed'
  BY <1>11 DEF SaveOk, Saved, WorkerPC
<1>12. ASSUME NEW i \in Instances, SaveFails(i) PROVE Typed'
  BY <1>12 DEF SaveFails, Saved, WorkerPC
<1>13. ASSUME NEW g \in Instances, Sample(g) PROVE Typed'
  BY <1>13 DEF Sample, Count, GcPC
<1>14. ASSUME NEW g \in Instances, Remove(g) PROVE Typed'
  BY <1>14 DEF Remove, Extract, Declined, GcPC
<1>15. ASSUME NEW g \in Instances, Compact(g) PROVE Typed'
  BY <1>15 DEF Compact, Edited, Changes, GcPC
<1>16. ASSUME NEW g \in Instances, Close(g) PROVE Typed'
  BY <1>16 DEF Close, ShutDown, GcPC
<1>17. ASSUME NEW g \in Instances, GcCancelled(g) PROVE Typed'
  BY <1>17 DEF GcCancelled, GcPC
<1>18. CASE Cancel
  BY <1>18 DEF Cancel
<1>19. CASE UNCHANGED vars
  BY <1>19 DEF vars
<1>. QED
  BY <1>1, <1>2, <1>3, <1>4, <1>5, <1>6, <1>7, <1>8, <1>9, <1>10, <1>11,
     <1>12, <1>13, <1>14, <1>15, <1>16, <1>17, <1>18, <1>19
     DEF Next, ClientStep, WorkerStep, GcStep

\* Every reachable state is one the variables' declarations describe: the
\* worker, GC and client program counters of the Rust tasks, the instances.
THEOREM TypeCorrect == Spec => []TypeOK
<1>1. Typed => TypeOK
  BY DEF Typed
<1>. QED BY <1>1, InitTyped, StepTyped, PTL DEF Spec

-----------------------------------------------------------------------------
(* The map *)

\* The strengthened invariant holds initially.
LEMMA InitIInv == Init => IInv
<1> SUFFICES ASSUME Init PROVE IInv
  OBVIOUS
<1>1. Typed
  BY InitTyped
<1>2. Loads /\ Places /\ Holders /\ Takes /\ Workers /\ Saves
  BY Zenon DEF Init, Loads, Reading, Places, Holders, Takes, Workers, Saves
<1>3. Alive
  BY Zenon DEF Init, Alive, Closed
<1>. QED BY <1>1, <1>2, <1>3 DEF IInv

Mapped == Loads /\ Places /\ Holders /\ Takes /\ Workers /\ Alive

\* Every step keeps what the invariant says of the map and of the workers.
LEMMA StepMapped == IInv /\ [Next]_vars => Mapped'
<1> SUFFICES ASSUME IInv, [Next]_vars PROVE Mapped'
  OBVIOUS
<1>t. Typed /\ TypeOK /\ Typed' /\ TypeOK'
  BY StepTyped DEF IInv, Typed
<1>l. Loads /\ Places /\ Holders /\ Takes /\ Workers /\ Alive
  BY DEF IInv
<1> USE <1>t, <1>l DEF mapVars, instVars, workerVars, gcVars, clientVars, serverVars,
        raceVars, Becomes, Instances, None, Loads, Places, Holders, Takes, Workers,
        Alive, Reading, Closed, TypeOK, Typed
<1>1. ASSUME NEW c \in Clients, Lookup(c) PROVE Mapped'
  BY <1>1 DEF Lookup, Mapped
<1>2. ASSUME NEW c \in Clients, Get(c) PROVE Mapped'
  <2>1. Loads'
    BY <1>2 DEF Get
  <2>2. Places'
    BY <1>2 DEF Get
  <2>3. Holders'
    BY <1>2 DEF Get
  <2>4. Takes'
    BY <1>2 DEF Get
  <2>5. Workers'
    BY <1>2 DEF Get
  <2>6. Alive'
    BY <1>2 DEF Get
  <2>. QED BY <2>1, <2>2, <2>3, <2>4, <2>5, <2>6 DEF Mapped
<1>3. ASSUME NEW c \in Clients, ReadStore(c) PROVE Mapped'
  BY <1>3 DEF ReadStore, Mapped
<1>4. ASSUME NEW c \in Clients, FirstPersist(c) PROVE Mapped'
  BY <1>4 DEF FirstPersist, Mapped
<1>5. ASSUME NEW c \in Clients, LoadFails(c) PROVE Mapped'
  BY <1>5 DEF LoadFails, Mapped
<1>6. ASSUME NEW c \in Clients, Insert(c) PROVE Mapped'
  <2>1. Loads'
    BY <1>6 DEF Insert
  <2>2. Places'
    BY <1>6 DEF Insert
  <2>3. Holders'
    BY <1>6 DEF Insert
  <2>4. Takes'
    BY <1>6 DEF Insert
  <2>5. Workers'
    BY <1>6 DEF Insert
  <2>6. Alive'
    BY <1>6 DEF Insert
  <2>. QED BY <2>1, <2>2, <2>3, <2>4, <2>5, <2>6 DEF Mapped
<1>7. ASSUME NEW c \in Clients, NEW e \in Edits, Edit(c, e) PROVE Mapped'
  <2>1. Loads'
    BY <1>7 DEF Edit, Edited
  <2>2. Places'
    BY <1>7 DEF Edit, Edited
  <2>3. Holders'
    BY <1>7 DEF Edit, Edited
  <2>4. Takes'
    BY <1>7 DEF Edit, Edited
  <2>5. Workers'
    BY <1>7 DEF Edit, Edited
  <2>6. Alive'
    BY <1>7 DEF Edit, Edited
  <2>. QED BY <2>1, <2>2, <2>3, <2>4, <2>5, <2>6 DEF Mapped
<1>8. ASSUME NEW c \in Clients, Release(c) PROVE Mapped'
  BY <1>8 DEF Release, Mapped
<1>9. ASSUME NEW i \in Instances, Wake(i) PROVE Mapped'
  BY <1>9 DEF Wake, WakesWith, Mapped
<1>10. ASSUME NEW i \in Instances, BeginSave(i) PROVE Mapped'
  BY <1>10 DEF BeginSave, Saved, Mapped
<1>11. ASSUME NEW i \in Instances, SaveOk(i) PROVE Mapped'
  BY <1>11 DEF SaveOk, Saved, Mapped
<1>12. ASSUME NEW i \in Instances, SaveFails(i) PROVE Mapped'
  BY <1>12 DEF SaveFails, Saved, Mapped
<1>13. ASSUME NEW g \in Instances, Sample(g) PROVE Mapped'
  BY <1>13 DEF Sample, Count, Mapped
<1>14. ASSUME NEW g \in Instances, Remove(g) PROVE Mapped'
  <2>1. CASE docs # None /\ Extract(g)
    <3>1. /\ gpc' = [gpc EXCEPT ![g] = "compacting"] /\ took' = [took EXCEPT ![g] = docs]
          /\ docs' = None /\ docs = newest /\ docs \in 1..MaxInstances
          /\ UNCHANGED <<loaded, cpc, at, newest, replaced>> /\ gpc[g] = "removing"
      BY <1>14, <2>1 DEF Remove, Extract
    <3>2. Loads'
      BY <3>1
    <3>3. Places'
      BY <3>1
    <3>4. Holders'
      <4>1. ~HasExternalRefs(docs)
        BY <1>14, <2>1 DEF Remove, Extract, Declined
      <4>. QED BY <3>1, <4>1 DEF HasExternalRefs
    <3>5. Takes'
      BY <1>14, <2>1 DEF Remove, Extract
    <3>6. Workers'
      BY <1>14, <2>1 DEF Remove, Extract
    <3>7. Alive'
      BY <1>14, <2>1 DEF Remove, Extract
    <3>. QED BY <3>2, <3>3, <3>4, <3>5, <3>6, <3>7 DEF Mapped
  <2>2. CASE Declined(g, "sampling") \/ (docs = None /\ Declined(g, "exited"))
    BY <1>14, <2>2 DEF Remove, Declined, Mapped
  <2>. QED BY <1>14, <2>1, <2>2 DEF Remove
<1>15. ASSUME NEW g \in Instances, Compact(g) PROVE Mapped'
  <2>1. Loads'
    BY <1>15 DEF Compact, Edited
  <2>2. Places'
    BY <1>15 DEF Compact, Edited
  <2>3. Holders'
    BY <1>15 DEF Compact, Edited
  <2>4. Takes'
    BY <1>15 DEF Compact, Edited
  <2>5. Workers'
    BY <1>15 DEF Compact, Edited
  <2>6. Alive'
    BY <1>15 DEF Compact, Edited
  <2>. QED BY <2>1, <2>2, <2>3, <2>4, <2>5, <2>6 DEF Mapped
<1>16. ASSUME NEW g \in Instances, Close(g) PROVE Mapped'
  <2>1. Loads'
    BY <1>16 DEF Close, ShutDown
  <2>2. Places'
    BY <1>16 DEF Close, ShutDown
  <2>3. Holders'
    BY <1>16 DEF Close, ShutDown
  <2>4. Takes'
    BY <1>16 DEF Close, ShutDown
  <2>5. Workers'
    BY <1>16 DEF Close, ShutDown
  <2>6. Alive'
    BY <1>16 DEF Close, ShutDown
  <2>. QED BY <2>1, <2>2, <2>3, <2>4, <2>5, <2>6 DEF Mapped
<1>17. ASSUME NEW g \in Instances, GcCancelled(g) PROVE Mapped'
  BY <1>17 DEF GcCancelled, Mapped
<1>18. CASE Cancel \/ UNCHANGED vars
  BY <1>18 DEF Cancel, vars, Mapped
<1>. QED
  BY <1>1, <1>2, <1>3, <1>4, <1>5, <1>6, <1>7, <1>8, <1>9, <1>10, <1>11,
     <1>12, <1>13, <1>14, <1>15, <1>16, <1>17, <1>18
     DEF Next, ClientStep, WorkerStep, GcStep

-----------------------------------------------------------------------------
(* The copies *)

\* A change of an instance that is observed and not shut down goes to both
\* copies and raises the flag; of a replaced one, to its Y.Doc alone.
LEMMA EditedSaves ==
  ASSUME TypeOK, Saves, Alive, NEW i \in Instances, NEW e,
         subscribed[i] => ~shutdown[i], Edited(i, e),
         UNCHANGED <<wpc, snap, saved, replaced>>,
         ~subscribed[i] => i \in replaced
  PROVE  Saves'
<1>1. dirty' = [dirty EXCEPT ![i] = dirty[i] \/ (subscribed[i] /\ ~shutdown[i])]
  BY Zenon DEF Edited
<1>2. /\ dirty \in [Instances -> BOOLEAN] /\ subscribed \in [Instances -> BOOLEAN]
      /\ ydoc \in [Instances -> SUBSET Changes] /\ kv \in [Instances -> SUBSET Changes]
  BY DEF TypeOK
<1>3. subscribed[i] => dirty'[i]
  BY <1>1, <1>2, Zenon
<1>4. ~subscribed[i] => dirty'[i] = dirty[i]
  BY <1>1, <1>2, Zenon
<1>5. \A j \in Instances : j # i => dirty'[j] = dirty[j]
  BY <1>1, <1>2, Zenon
<1>6. /\ ydoc' = [ydoc EXCEPT ![i] = @ \cup {e}]
      /\ kv' = [kv EXCEPT ![i] = IF subscribed[i] THEN @ \cup {e} ELSE @]
  BY Zenon DEF Edited
<1>7. /\ ydoc'[i] = ydoc[i] \cup {e}
      /\ kv'[i] = IF subscribed[i] THEN kv[i] \cup {e} ELSE kv[i]
      /\ \A j \in Instances : j # i => ydoc'[j] = ydoc[j] /\ kv'[j] = kv[j]
  BY <1>2, <1>6
<1>. QED
  BY <1>3, <1>4, <1>5, <1>7 DEF Saves

\* Every step keeps what the invariant says of the copies.
LEMMA StepSaves == IInv /\ [Next]_vars => Saves'
<1> SUFFICES ASSUME IInv, [Next]_vars PROVE Saves'
  OBVIOUS
<1>t. Typed /\ TypeOK
  BY DEF IInv, Typed
<1>l. Loads /\ Places /\ Holders /\ Takes /\ Workers /\ Alive /\ Saves
  BY DEF IInv
<1> USE <1>t, <1>l DEF mapVars, instVars, workerVars, gcVars, clientVars, serverVars,
        raceVars
<1>1. ASSUME NEW c \in Clients,
             Lookup(c) \/ Get(c) \/ FirstPersist(c) \/ LoadFails(c) \/ Release(c)
      PROVE  Saves'
  BY <1>1 DEF Lookup, Get, FirstPersist, LoadFails, Release, Saves
<1>2. ASSUME NEW c \in Clients, ReadStore(c) PROVE Saves'
  <2>1. loaded' \in Instances /\ gpc[loaded'] = "none" /\ ~dirty[loaded']
        /\ wpc[loaded'] = "none"
    BY <1>2, LifecycleAssumption DEF ReadStore, Loads, Workers, Instances, TypeOK
  <2>. QED BY <1>2, <2>1 DEF ReadStore, Saves, TypeOK
<1>3. ASSUME NEW c \in Clients, Insert(c) PROVE Saves'
  <2>1. at[c] \in Instances /\ gpc[at[c]] = "none" /\ wpc[at[c]] = "none"
    BY <1>3 DEF Insert, Loads, Reading, Workers
  <2>. QED BY <1>3, <2>1 DEF Insert, Saves, TypeOK
<1>4. ASSUME NEW c \in Clients, NEW e \in Edits, Edit(c, e) PROVE Saves'
  <2>1. at[c] \in Instances /\ Edited(at[c], e) /\ cpc[c] = "holding"
        /\ UNCHANGED <<wpc, snap, saved, replaced>>
    BY <1>4 DEF Edit, Typed
  <2>2. /\ ~subscribed[at[c]] => at[c] \in replaced
        /\ subscribed[at[c]] => ~shutdown[at[c]]
    BY <2>1 DEF Holders, Places, Alive, Closed
  <2>. QED BY <2>1, <2>2, EditedSaves
<1>5. ASSUME NEW i \in Instances,
             Wake(i) \/ BeginSave(i) \/ SaveOk(i) \/ SaveFails(i)
      PROVE  Saves'
  <2>1. CASE Wake(i)
    BY <2>1 DEF Wake, WakesWith, Saves, TypeOK
  <2>2. CASE BeginSave(i)
    BY <2>2 DEF BeginSave, Saved, Saves, TypeOK
  <2>3. CASE SaveOk(i)
    BY <2>3 DEF SaveOk, Saved, Saves, TypeOK
  <2>4. CASE SaveFails(i)
    BY <2>4 DEF SaveFails, Saved, Saves, TypeOK
  <2>. QED BY <1>5, <2>1, <2>2, <2>3, <2>4
<1>6. ASSUME NEW g \in Instances,
             Sample(g) \/ Remove(g) \/ Close(g) \/ GcCancelled(g)
      PROVE  Saves'
  BY <1>6 DEF Sample, Remove, Close, ShutDown, GcCancelled, Saves
<1>7. ASSUME NEW g \in Instances, Compact(g) PROVE Saves'
  <2>1. CASE Edited(took[g], "compaction")
    <3>1. took[g] \in Instances /\ gpc[g] = "compacting"
          /\ UNCHANGED <<wpc, snap, saved, replaced>>
      BY <1>7 DEF Compact, Takes, TypeOK
    <3>2. ~Closed(took[g]) /\ took[g] \notin replaced
      BY <3>1 DEF Takes, Closed, Places, None, Instances
    <3>. QED BY <2>1, <3>1, <3>2, EditedSaves DEF Alive
  <2>2. CASE UNCHANGED instVars
    BY <1>7, <2>2 DEF Compact, Saves
  <2>. QED BY <1>7, <2>1, <2>2 DEF Compact
<1>8. CASE Cancel \/ UNCHANGED vars
  BY <1>8 DEF Cancel, vars, Saves
<1>. QED
  BY <1>1, <1>2, <1>3, <1>4, <1>5, <1>6, <1>7, <1>8
     DEF Next, ClientStep, WorkerStep, GcStep

\* Everything the invariant implies, as one temporal fact.
LEMMA Always == Spec => []IInv
<1>1. IInv /\ [Next]_vars => IInv'
  BY StepTyped, StepMapped, StepSaves DEF IInv, Mapped
<1>. QED BY InitIInv, <1>1, PTL DEF Spec

\* gc_compact_and_remove never takes a document away from anybody: whoever
\* holds an instance holds the one in `docs`, however late it came, unless the
\* insertion of another load has replaced it there.
THEOREM HoldersKeepTheirDoc == Spec => []HeldIsMapped
<1>1. IInv => HeldIsMapped
  BY DEF IInv, Holders, HeldIsMapped
<1>. QED BY Always, <1>1, PTL

\* No edit bypasses SyncKv on an instance that was not replaced: compaction
\* comes before the subscription is dropped, and nobody holds what is dropped.
THEOREM NoEditBypassesSyncKv == Spec => []EditsReachSyncKv
<1>1. IInv => EditsReachSyncKv
  BY DEF IInv, Saves, EditsReachSyncKv
<1>. QED BY Always, <1>1, PTL

\* Loads that overlap and GC workers that outlive their entry leave in `docs`
\* an instance whose observer, flag and workers all work.
THEOREM RequestsFindALiveDoc == Spec => []MappedIsServed
<1>1. ASSUME IInv, docs # None PROVE docs \in Instances /\ docs = newest
  BY <1>1 DEF IInv, Typed, TypeOK, Places
<1>2. ASSUME IInv, docs # None PROVE ~Closed(docs) /\ docs \notin replaced
  BY <1>1, <1>2 DEF IInv, Places, Closed, None
<1>3. ASSUME IInv, docs # None, ~cancelled
      PROVE  gpc[docs] \in {"sampling", "removing"} /\ wpc[docs] # "exited"
  BY <1>1, <1>2, <1>3
     DEF IInv, Typed, TypeOK, GcPC, Places, Workers, Alive
<1>4. IInv => MappedIsServed
  BY <1>1, <1>2, <1>3 DEF MappedIsServed, IInv, Places, Alive, None
<1>. QED BY Always, <1>4, PTL

\* doc_persistence_worker: a worker that ends with a clean flag has saved
\* everything its instance received.
THEOREM WorkersLeaveNothing == Spec => []NothingLeftBehind
<1>1. IInv => NothingLeftBehind
  BY DEF IInv, Saves, NothingLeftBehind
<1>. QED BY Always, <1>1, PTL

-----------------------------------------------------------------------------
(* Each edit, from one instance through the store to the next *)

\* An edit that no race puts at risk is in the newest instance, in every
\* instance a load has made and not yet inserted, and in the store or owed.
Keeps(e) ==
  /\ newest # None /\ e \in kv[newest]
  /\ \A c \in Clients : Reading(c) => e \in kv[at[c]]
  /\ e \in store \/ \E i \in Instances : Owes(i, e)

Kept == \A e \in acked \ exposed : Keeps(e)

\* What a step that adds to the contents and clears no flag keeps.
LEMMA KeepsGrow ==
  ASSUME IInv, NEW e, Keeps(e), UNCHANGED <<newest, store, at, wpc, snap>>,
         \A i \in Instances : kv[i] \subseteq kv'[i] /\ (dirty[i] => dirty'[i]),
         \A c \in Clients : Reading(c)' => Reading(c)
  PROVE  Keeps(e)'
<1>1. newest # None => newest \in Instances
  BY DEF IInv, Typed, TypeOK
<1>2. \A c \in Clients : Reading(c) => at[c] \in Instances
  BY DEF IInv, Loads
<1>3. \A i \in Instances : Owes(i, e) => Owes(i, e)'
  BY DEF Owes
<1>. QED BY <1>1, <1>2, <1>3 DEF Keeps, Reading

\* Every step keeps every such edit.
LEMMA StepKept == IInv /\ Kept /\ [Next]_vars => Kept'
<1> SUFFICES ASSUME IInv, Kept, [Next]_vars, NEW e \in (acked \ exposed)'
             PROVE  Keeps(e)'
  BY DEF Kept
<1>t. Typed /\ TypeOK
  BY DEF IInv, Typed
<1>l. Loads /\ Places /\ Holders /\ Takes /\ Workers /\ Alive /\ Saves
  BY DEF IInv
<1> USE DEF mapVars, instVars, workerVars, gcVars, clientVars, serverVars, raceVars,
            Becomes
<1>k. e \in acked \ exposed => Keeps(e)
  BY DEF Kept
<1>1. ASSUME NEW c \in Clients, Lookup(c) \/ Get(c) \/ LoadFails(c) \/ Release(c)
      PROVE  Keeps(e)'
  <2>1. e \in acked \ exposed /\ UNCHANGED <<newest, store, wpc, snap, kv, dirty>>
    BY <1>1 DEF Lookup, Get, LoadFails, Release
  <2>2. \A d \in Clients : Reading(d)' => Reading(d) /\ at'[d] = at[d]
    BY <1>1, <1>t DEF Lookup, Get, LoadFails, Release, Reading, TypeOK
  <2>. QED BY <1>k, <2>1, <2>2 DEF Keeps, Owes
<1>2. ASSUME NEW c \in Clients, ReadStore(c) PROVE Keeps(e)'
  <2>1. /\ loaded' \in Instances /\ loaded' = loaded + 1 /\ loaded \in Nat
        /\ gpc[loaded'] = "none" /\ wpc[loaded'] = "none" /\ ~dirty[loaded']
    BY <1>2, <1>t, <1>l, LifecycleAssumption
       DEF ReadStore, Loads, Workers, Instances, TypeOK
  <2>2. /\ kv' = [kv EXCEPT ![loaded'] = store]
        /\ UNCHANGED <<newest, store, wpc, snap, dirty>>
        /\ cpc' = [cpc EXCEPT ![c] = "read"] /\ at' = [at EXCEPT ![c] = loaded']
        /\ e \in acked \ exposed
        /\ \A i \in Unsaved : e \notin ydoc[i]
    BY <1>2 DEF ReadStore
  <2>3. e \in store
    <3>1. \A i \in Instances : ~Owes(i, e)
      BY <2>2, <1>l DEF Unsaved, Owes, Saves
    <3>. QED BY <2>2, <3>1, <1>k DEF Keeps
  <2>4. newest # loaded' /\ newest \in Instances /\ kv'[newest] = kv[newest]
    BY <2>1, <2>2, <1>k, <1>t, <1>l DEF Keeps, Places, TypeOK
  <2>5. \A d \in Clients : Reading(d)' => e \in kv'[at'[d]]
    <3>1. ASSUME NEW d \in Clients, d # c, Reading(d)' PROVE e \in kv'[at'[d]]
      <4>1. Reading(d) /\ at'[d] = at[d] /\ at[d] \in Instances /\ at[d] <= loaded
        BY <3>1, <2>2, <1>t, <1>l DEF Reading, Loads, TypeOK
      <4>2. at[d] # loaded'
        BY <4>1, <2>1 DEF Instances
      <4>. QED BY <4>1, <4>2, <2>1, <2>2, <1>k, <1>t DEF Keeps, TypeOK
    <3>2. e \in kv'[at'[c]]
      BY <2>1, <2>2, <2>3, <1>t DEF TypeOK
    <3>. QED BY <3>1, <3>2
  <2>. QED BY <2>2, <2>3, <2>4, <2>5, <1>k DEF Keeps
<1>3. ASSUME NEW c \in Clients, FirstPersist(c) PROVE Keeps(e)'
  <2>1. /\ UNCHANGED <<newest, kv, dirty, wpc, snap, at>> /\ e \in acked \ exposed
        /\ Reading(c) /\ store' \in {store, kv[at[c]]}
    BY <1>3 DEF FirstPersist, Reading
  <2>2. \A d \in Clients : Reading(d)' => Reading(d)
    BY <1>3, <1>t DEF FirstPersist, Reading, TypeOK
  <2>3. e \in store => e \in store'
    BY <2>1, <1>k DEF Keeps
  <2>. QED BY <2>1, <2>2, <2>3, <1>k DEF Keeps, Owes, Reading
<1>4. ASSUME NEW c \in Clients, Insert(c) PROVE Keeps(e)'
  <2>1. /\ Reading(c) /\ at[c] \in Instances /\ gpc[at[c]] = "none" /\ wpc[at[c]] = "none"
    BY <1>4, <1>l DEF Insert, Loads, Reading, Workers
  <2>2. /\ newest' = at[c] /\ UNCHANGED <<store, kv, dirty, snap>>
        /\ e \in acked \ exposed /\ wpc' = [wpc EXCEPT ![at[c]] = "waiting"]
        /\ cpc' = [cpc EXCEPT ![c] = "found"] /\ at' = [at EXCEPT ![c] = None]
    BY <1>4 DEF Insert
  <2>3. \A d \in Clients : Reading(d)' => Reading(d) /\ at'[d] = at[d]
    BY <2>2, <1>t DEF Reading, TypeOK
  <2>4. \A i \in Instances : Owes(i, e) => Owes(i, e)'
    BY <2>1, <2>2, <1>t DEF Owes, TypeOK
  <2>. QED BY <2>1, <2>2, <2>3, <2>4, <1>k DEF Keeps, None, Instances
<1>5. ASSUME NEW c \in Clients, NEW f \in Edits, Edit(c, f) PROVE Keeps(e)'
  <2>1. /\ at[c] \in Instances /\ cpc[c] = "holding" /\ Edited(at[c], f)
        /\ UNCHANGED <<newest, store, at, cpc, wpc, snap>>
        /\ acked' = acked \cup {f}
        /\ exposed' = IF Reloading \/ at[c] \in replaced THEN exposed \cup {f}
                                                         ELSE exposed
    BY <1>5, <1>t DEF Edit, Typed
  <2>2. \A i \in Instances : kv[i] \subseteq kv'[i] /\ (dirty[i] => dirty'[i])
    BY <2>1, <1>t DEF Edited, TypeOK
  <2>3. CASE e # f
    <3>1. Keeps(e)
      BY <2>1, <2>3, <1>k
    <3>. QED BY <3>1, <2>1, <2>2, KeepsGrow DEF Reading
  <2>4. CASE e = f
    <3>1. ~Reloading /\ at[c] \notin replaced
      BY <2>1, <2>4
    <3>2. at[c] = newest /\ newest # None /\ subscribed[newest] /\ ~shutdown[newest]
      BY <3>1, <2>1, <1>l DEF Holders, Places, Alive, Closed
    <3>3. f \in kv'[newest] /\ dirty'[newest]
      BY <3>2, <2>1, <1>t DEF Edited, TypeOK
    <3>4. \A d \in Clients : ~Reading(d)'
      BY <3>1, <2>1 DEF Reloading, Reading
    <3>. QED BY <3>2, <3>3, <3>4, <2>1, <2>4 DEF Keeps, Owes
  <2>. QED BY <2>3, <2>4
<1>6. ASSUME NEW i \in Instances, Wake(i) PROVE Keeps(e)'
  <2>1. /\ UNCHANGED <<newest, store, kv, dirty, snap, at, cpc>>
        /\ e \in acked \ exposed
        /\ wpc[i] = "waiting" /\ \A j \in Instances : j # i => wpc'[j] = wpc[j]
    BY <1>6, <1>t DEF Wake, WakesWith, TypeOK
  <2>2. \A j \in Instances : Owes(j, e) => Owes(j, e)'
    BY <2>1 DEF Owes
  <2>. QED BY <2>1, <2>2, <1>k DEF Keeps, Reading
<1>7. ASSUME NEW i \in Instances, BeginSave(i) PROVE Keeps(e)'
  <2>1. /\ UNCHANGED <<newest, store, kv, at, cpc>> /\ e \in acked \ exposed
        /\ wpc[i] = "woken"
    BY <1>7 DEF BeginSave
  <2>2. \A j \in Instances : Owes(j, e) => Owes(j, e)'
    BY <1>7, <1>t DEF BeginSave, Saved, Owes, TypeOK
  <2>. QED BY <2>1, <2>2, <1>k DEF Keeps, Reading
<1>8. ASSUME NEW i \in Instances, SaveOk(i) PROVE Keeps(e)'
  <2>1. /\ UNCHANGED <<newest, kv, dirty, at, cpc>> /\ e \in acked \ exposed
        /\ wpc[i] = "writing" /\ store' = snap[i]
        /\ i # newest => e \in snap[i]
        /\ \A j \in Instances : j # i => wpc'[j] = wpc[j] /\ snap'[j] = snap[j]
    BY <1>8, <1>t DEF SaveOk, Saved, TypeOK
  <2>2. CASE e \in snap[i]
    BY <2>1, <2>2, <1>k DEF Keeps, Reading
  <2>3. CASE e \notin snap[i]
    <3>1. i = newest /\ e \in kv[i] /\ dirty[i]
      BY <2>1, <2>3, <1>k, <1>l DEF Keeps, Saves
    <3>2. Owes(i, e)'
      BY <3>1, <2>1 DEF Owes
    <3>. QED BY <2>1, <3>2, <1>k DEF Keeps, Reading
  <2>. QED BY <2>2, <2>3
<1>9. ASSUME NEW i \in Instances, SaveFails(i) PROVE Keeps(e)'
  <2>1. UNCHANGED <<newest, store, kv, at, cpc>> /\ e \in acked \ exposed
    BY <1>9 DEF SaveFails
  <2>2. \A j \in Instances : Owes(j, e) => Owes(j, e)'
    BY <1>9, <1>t DEF SaveFails, Saved, Owes, TypeOK
  <2>. QED BY <2>1, <2>2, <1>k DEF Keeps, Reading
<1>10. ASSUME NEW g \in Instances,
              Sample(g) \/ Remove(g) \/ Close(g) \/ GcCancelled(g)
       PROVE  Keeps(e)'
  <2>1. UNCHANGED <<newest, store, kv, dirty, wpc, snap, at, cpc>>
        /\ e \in acked \ exposed
    BY <1>10 DEF Sample, Remove, Close, ShutDown, GcCancelled
  <2>. QED BY <2>1, <1>k, KeepsGrow DEF Reading
<1>11. ASSUME NEW g \in Instances, Compact(g) PROVE Keeps(e)'
  <2>1. UNCHANGED <<newest, store, wpc, snap, at, cpc>> /\ e \in acked \ exposed
        /\ (Edited(took[g], "compaction") \/ UNCHANGED instVars)
        /\ gpc[g] = "compacting"
    BY <1>11 DEF Compact
  <2>2. took[g] \in Instances
    BY <2>1, <1>t, <1>l DEF Takes, TypeOK
  <2>3. \A i \in Instances : kv[i] \subseteq kv'[i] /\ (dirty[i] => dirty'[i])
    <3>1. CASE Edited(took[g], "compaction")
      BY <3>1, <2>2, <1>t DEF Edited, TypeOK
    <3>. QED BY <3>1, <2>1
  <2>. QED BY <2>1, <2>3, <1>k, KeepsGrow DEF Reading
<1>12. CASE Cancel \/ UNCHANGED vars
  BY <1>12, <1>k, KeepsGrow DEF Cancel, vars, Reading
<1>. QED
  BY <1>1, <1>2, <1>3, <1>4, <1>5, <1>6, <1>7, <1>8, <1>9, <1>10, <1>11, <1>12
     DEF Next, ClientStep, WorkerStep, GcStep

\* What a client was told is applied survives collection and reload, failed
\* saves and the server's stop, loads that overlap and loads that do not wait
\* for a former instance's worker: all but the edits that `exposed` names.
THEOREM ConfirmedEditsSurvive == Spec => []EditsSurvive
<1>1. Init => Kept
  BY DEF Init, Kept
<1>2. ASSUME IInv, Kept, NEW e \in acked \ exposed
      PROVE  /\ docs # None => e \in ydoc[docs]
             /\ e \in store \/ \E i \in Instances : Owes(i, e)
  BY <1>2 DEF Kept, Keeps, IInv, Places, Saves, Typed, TypeOK
<1>3. IInv /\ Kept => EditsSurvive
  BY <1>2 DEF EditsSurvive
<1>. QED BY Always, <1>1, StepKept, <1>3, PTL DEF Spec
=============================================================================
