---------------------------- MODULE DocLocksProofs ----------------------------
(***************************************************************************)
(* What it takes to wedge the server, for any number of tasks, documents,   *)
(* shards and threads.  Both theorems rest on one argument: among tasks    *)
(* that wait for awareness locks only, take one that waits for the last    *)
(* document any of them waits for; whoever keeps it waiting holds that     *)
(* document, and so waits for a later one.                                 *)
(***************************************************************************)
EXTENDS DocLocks, FiniteSetTheorems, TLAPS

\* What the fields of a task have to do with where it is: who keeps a
\* reference, who holds locks, and that they were taken in the order of ids.
TaskOK(t) ==
  /\ pc[t] = "idle" => guard[t] = None /\ arcs[t] = {}
  /\ guard[t] # None => kind[t] \in KeepsGuard
  /\ pc[t] \in {"returning", "saving"} => kind[t] = "edit"
  /\ pc[t] = "saving" => guard[t] # None
  /\ pc[t] \in {"inserting", "removing"} => guard[t] = None
  /\ pc[t] \in {"looking", "callback", "returning", "saving", "inserting", "removing"}
       => todo[t] # {}
  /\ pc[t] \in {"locking", "inside", "callback"} => arcs[t] # {}
  /\ pc[t] = "locking" => arcs[t] \ locked[t] # {}
  /\ locked[t] # {} => pc[t] \in {"locking", "inside", "callback"}
  /\ locked[t] \subseteq arcs[t]
  /\ \A d \in locked[t], e \in arcs[t] \ locked[t] : d < e

IInv == TypeOK /\ \A t \in Tasks : TaskOK(t)

-----------------------------------------------------------------------------
(* The order of documents *)

\* Any set of documents but the empty one has its least.
LEMMA LeastIs ==
  ASSUME NEW S \in SUBSET Docs, S # {}
  PROVE  Least(S) \in S /\ \A e \in S : Least(S) <= e
<1>1. \E d \in S : \A e \in S : d <= e
  BY LocksAssumption
<1> QED
  BY <1>1 DEF Least

-----------------------------------------------------------------------------
(* Steps *)

\* A step of task t leaves the others as they are, and t in order.
LEMMA OneTask ==
  ASSUME IInv, NEW t \in Tasks,
         pc' \in [Tasks -> TaskPC], kind' \in [Tasks -> TaskKinds],
         todo' \in [Tasks -> SUBSET Docs], arcs' \in [Tasks -> SUBSET Docs],
         locked' \in [Tasks -> SUBSET Docs], guard' \in [Tasks -> Docs \cup {None}],
         shardOf' = shardOf, queueBars' = queueBars, mapped' \in SUBSET Docs,
         \A u \in Tasks \ {t} :
           /\ pc'[u] = pc[u] /\ kind'[u] = kind[u] /\ todo'[u] = todo[u]
           /\ arcs'[u] = arcs[u] /\ locked'[u] = locked[u] /\ guard'[u] = guard[u],
         onWorker' = {u \in Tasks : pc'[u] \notin {"idle", "saving"} /\ kind'[u] # "collect"},
         Cardinality(onWorker') <= Workers,
         TaskOK(t)'
  PROVE  IInv'
<1>1. \A u \in Tasks \ {t} : TaskOK(u)'
  BY DEF IInv, TaskOK
<1>2. TypeOK'
  BY DEF IInv, TypeOK
<1> QED
  BY <1>1, <1>2 DEF IInv

\* Taking a thread off keeps the count within the bound.
LEMMA FewerThreads ==
  ASSUME IInv, NEW t
  PROVE  Cardinality(onWorker \ {t}) <= Workers
<1>1. IsFiniteSet(onWorker)
  BY FS_Subset, LocksAssumption DEF IInv, TypeOK
<1>2. /\ IsFiniteSet(onWorker \ {t})
      /\ Cardinality(onWorker \ {t}) <= Cardinality(onWorker)
  BY <1>1, FS_Subset, FS_CardinalityType
<1>3. Cardinality(onWorker) \in Nat /\ Cardinality(onWorker \ {t}) \in Nat
  BY <1>1, <1>2, FS_CardinalityType
<1> QED
  BY <1>2, <1>3, LocksAssumption DEF IInv, TypeOK

\* An operation that is over leaves its task in order.
LEMMA EndsOK ==
  ASSUME IInv, NEW t \in Tasks, pc[t] # "idle", Ends(t),
         shardOf' = shardOf, queueBars' = queueBars, mapped' \in SUBSET Docs
  PROVE  IInv'
<1> USE DEF IInv, TypeOK, Ends
<1>1. TaskOK(t)'
  BY DEF TaskOK, KeepsGuard
<1>2. Cardinality(onWorker') <= Workers
  BY FewerThreads
<1>3. onWorker' = {u \in Tasks : pc'[u] \notin {"idle", "saving"} /\ kind'[u] # "collect"}
  OBVIOUS
<1>4. pc' \in [Tasks -> TaskPC] /\ kind' \in [Tasks -> TaskKinds]
  BY DEF TaskPC, TaskKinds
<1>5. /\ todo' \in [Tasks -> SUBSET Docs] /\ arcs' \in [Tasks -> SUBSET Docs]
      /\ locked' \in [Tasks -> SUBSET Docs] /\ guard' \in [Tasks -> Docs \cup {None}]
  OBVIOUS
<1>6. \A u \in Tasks \ {t} :
        /\ pc'[u] = pc[u] /\ kind'[u] = kind[u] /\ todo'[u] = todo[u]
        /\ arcs'[u] = arcs[u] /\ locked'[u] = locked[u] /\ guard'[u] = guard[u]
  OBVIOUS
<1> HIDE DEF IInv, TypeOK, Ends
<1> QED
  BY <1>1, <1>2, <1>3, <1>4, <1>5, <1>6, OneTask

\* An operation that begins does so with nothing held, and on a thread of its
\* own.
LEMMA BeginsOK ==
  ASSUME IInv, NEW t \in Tasks, NEW k \in TaskKinds,
         NEW first \in {"looking", "inserting", "removing"},
         NEW S \in SUBSET Docs, S # {}, Begins(t, k, first, S)
  PROVE  IInv'
<1> USE DEF IInv, TypeOK, Begins, policyVars
<1>1. TaskOK(t) /\ pc[t] = "idle"
  OBVIOUS
<1>2. TaskOK(t)'
  BY <1>1 DEF TaskOK, KeepsGuard
<1>3. Cardinality(onWorker') <= Workers
  <2>1. IsFiniteSet(onWorker)
    BY FS_Subset, LocksAssumption
  <2>2. CASE k = "collect"
    BY <2>2
  <2>3. CASE k # "collect"
    <3>1. /\ Cardinality(onWorker) \in Nat /\ Cardinality(onWorker) < Workers
          /\ onWorker' = onWorker \cup {t}
      BY <2>1, <2>3, FS_CardinalityType
    <3>2. Cardinality(onWorker \cup {t}) \in {Cardinality(onWorker), Cardinality(onWorker) + 1}
      BY <2>1, FS_AddElement
    <3> QED
      BY <3>1, <3>2, LocksAssumption
  <2> QED
    BY <2>2, <2>3
<1>4. onWorker' = {u \in Tasks : pc'[u] \notin {"idle", "saving"} /\ kind'[u] # "collect"}
  <2>1. CASE k = "collect"
    BY <1>1, <2>1
  <2>2. CASE k # "collect"
    BY <1>1, <2>2
  <2> QED
    BY <2>1, <2>2
<1>5. pc' \in [Tasks -> TaskPC] /\ kind' \in [Tasks -> TaskKinds]
      /\ todo' \in [Tasks -> SUBSET Docs]
  BY DEF TaskPC
<1>6. \A u \in Tasks \ {t} :
        /\ pc'[u] = pc[u] /\ kind'[u] = kind[u] /\ todo'[u] = todo[u]
        /\ arcs'[u] = arcs[u] /\ locked'[u] = locked[u] /\ guard'[u] = guard[u]
  OBVIOUS
<1>7. /\ arcs' \in [Tasks -> SUBSET Docs] /\ locked' \in [Tasks -> SUBSET Docs]
      /\ guard' \in [Tasks -> Docs \cup {None}]
      /\ shardOf' = shardOf /\ queueBars' = queueBars /\ mapped' \in SUBSET Docs
  OBVIOUS
<1> HIDE DEF IInv, TypeOK, Begins, policyVars
<1> QED
  BY <1>2, <1>3, <1>4, <1>5, <1>6, <1>7, OneTask

\* A step inside an operation, that keeps the thread.
LEMMA GoesOn ==
  ASSUME IInv, NEW t \in Tasks,
         pc[t] \notin {"idle", "saving"},
         NEW next \in TaskPC \ {"idle", "saving"}, pc' = [pc EXCEPT ![t] = next],
         todo' \in [Tasks -> SUBSET Docs], arcs' \in [Tasks -> SUBSET Docs],
         locked' \in [Tasks -> SUBSET Docs], guard' \in [Tasks -> Docs \cup {None}],
         UNCHANGED <<shardOf, queueBars, mapped, onWorker, kind>>,
         \A u \in Tasks \ {t} :
           /\ todo'[u] = todo[u] /\ arcs'[u] = arcs[u]
           /\ locked'[u] = locked[u] /\ guard'[u] = guard[u],
         TaskOK(t)'
  PROVE  IInv'
<1> USE DEF IInv, TypeOK
<1>1. onWorker' = {u \in Tasks : pc'[u] \notin {"idle", "saving"} /\ kind'[u] # "collect"}
  OBVIOUS
<1>2. Cardinality(onWorker') <= Workers
  OBVIOUS
<1>3. /\ pc' \in [Tasks -> TaskPC] /\ kind' \in [Tasks -> TaskKinds]
      /\ mapped' \in SUBSET Docs
  OBVIOUS
<1>4. \A u \in Tasks \ {t} : pc'[u] = pc[u] /\ kind'[u] = kind[u]
  OBVIOUS
<1> HIDE DEF IInv, TypeOK
<1> QED
  BY <1>1, <1>2, <1>3, <1>4, OneTask

-----------------------------------------------------------------------------
(* Every step keeps the invariant *)

LEMMA InitOK == Init => IInv
<1> SUFFICES ASSUME Init PROVE IInv
  OBVIOUS
<1>1. TypeOK
  <2>1. onWorker = {} /\ Cardinality({}) = 0
    BY FS_EmptySet DEF Init
  <2> QED
    BY <2>1, LocksAssumption DEF Init, TypeOK, TaskPC, TaskKinds
<1>2. \A t \in Tasks : TaskOK(t)
  BY DEF Init, TaskOK
<1> QED
  BY <1>1, <1>2 DEF IInv

LEMMA LookOK ==
  ASSUME IInv, NEW t \in Tasks, Look(t)
  PROVE  IInv'
<1> DEFINE d == Least(todo[t])
           found == arcs[t] \cup ({d} \cap mapped)
<1>1. TaskOK(t) /\ pc[t] = "looking"
  BY DEF IInv, Look
<1>2. UNCHANGED <<shardOf, queueBars, mapped>> /\ mapped' \in SUBSET Docs
  BY DEF IInv, TypeOK, Look, policyVars
<1>3. d \in todo[t] /\ d \in Docs
  BY <1>1, LeastIs DEF IInv, TypeOK, TaskOK
<1>4. CASE todo[t] = {d} /\ found = {}
  BY <1>1, <1>2, <1>4, EndsOK DEF Look
<1>5. CASE ~(todo[t] = {d} /\ found = {})
  <2> DEFINE next == IF todo[t] = {d} THEN "locking" ELSE "looking"
  <2>1. /\ todo' = [todo EXCEPT ![t] = @ \ {d}]
        /\ arcs' = [arcs EXCEPT ![t] = found]
        /\ guard' = [guard EXCEPT ![t] = IF kind[t] \in KeepsGuard THEN d ELSE @]
        /\ pc' = [pc EXCEPT ![t] = next]
        /\ UNCHANGED <<kind, locked, onWorker>>
    BY <1>1, <1>5 DEF Look
  <2>2. /\ todo' \in [Tasks -> SUBSET Docs] /\ arcs' \in [Tasks -> SUBSET Docs]
        /\ locked' \in [Tasks -> SUBSET Docs] /\ guard' \in [Tasks -> Docs \cup {None}]
    BY <1>3, <2>1 DEF IInv, TypeOK
  <2>3. TaskOK(t)'
    <3>1. /\ pc'[t] = next /\ todo'[t] = todo[t] \ {d} /\ arcs'[t] = found
          /\ guard'[t] = (IF kind[t] \in KeepsGuard THEN d ELSE guard[t])
          /\ kind'[t] = kind[t] /\ locked'[t] = locked[t] /\ locked[t] = {}
      BY <1>1, <2>1 DEF IInv, TypeOK, TaskOK
    <3>2. next = "locking" => found # {}
      BY <1>5
    <3>3. next = "looking" => todo[t] \ {d} # {}
      BY <1>3
    <3> HIDE DEF found, d
    <3> QED
      BY <1>1, <3>1, <3>2, <3>3 DEF TaskOK
  <2>4. next \in TaskPC \ {"idle", "saving"}
    BY DEF TaskPC
  <2>5. \A u \in Tasks \ {t} :
          /\ todo'[u] = todo[u] /\ arcs'[u] = arcs[u]
          /\ locked'[u] = locked[u] /\ guard'[u] = guard[u]
    BY <2>1 DEF IInv, TypeOK
  <2> QED
    BY <1>1, <1>2, <2>1, <2>2, <2>3, <2>4, <2>5, GoesOn
<1> QED
  BY <1>4, <1>5

LEMMA LockOK ==
  ASSUME IInv, NEW t \in Tasks, Lock(t)
  PROVE  IInv'
<1> DEFINE d == NextToLock(t)
           next == IF locked[t] \cup {d} = arcs[t] THEN "inside" ELSE "locking"
<1>1. TaskOK(t) /\ pc[t] = "locking" /\ arcs[t] \in SUBSET Docs
  BY DEF IInv, TypeOK, Lock
<1>2. /\ d \in arcs[t] \ locked[t]
      /\ \A e \in arcs[t] \ locked[t] : d <= e
  BY <1>1, LeastIs DEF TaskOK, NextToLock
<1>3. /\ locked' = [locked EXCEPT ![t] = @ \cup {d}]
      /\ pc' = [pc EXCEPT ![t] = next]
      /\ UNCHANGED <<shardOf, queueBars, mapped, onWorker, kind, todo, arcs, guard>>
  BY <1>1 DEF IInv, TypeOK, Lock, policyVars
<1>4. TaskOK(t)'
  <2>1. /\ pc'[t] = next /\ locked'[t] = locked[t] \cup {d} /\ kind'[t] = kind[t]
        /\ todo'[t] = todo[t] /\ arcs'[t] = arcs[t] /\ guard'[t] = guard[t]
    BY <1>3 DEF IInv, TypeOK
  <2>2. \A a \in locked'[t], e \in arcs'[t] \ locked'[t] : a < e
    <3> SUFFICES ASSUME NEW a \in locked'[t], NEW e \in arcs'[t] \ locked'[t] PROVE a < e
      OBVIOUS
    <3>1. e \in arcs[t] \ locked[t] /\ e # d /\ d \in Nat /\ e \in Nat
      BY <1>1, <1>2, <2>1, LocksAssumption
    <3>2. CASE a = d
      BY <1>2, <3>1, <3>2
    <3>3. CASE a \in locked[t]
      BY <1>1, <3>1, <3>3 DEF TaskOK
    <3> QED
      BY <2>1, <3>2, <3>3
  <2>3. locked'[t] \subseteq arcs'[t] /\ locked'[t] # {}
    BY <1>1, <1>2, <2>1 DEF TaskOK
  <2>4. next = "locking" => arcs'[t] \ locked'[t] # {}
    BY <2>1, <2>3
  <2> HIDE DEF d
  <2> QED
    BY <1>1, <2>1, <2>2, <2>3, <2>4 DEF TaskOK
<1>5. /\ todo' \in [Tasks -> SUBSET Docs] /\ arcs' \in [Tasks -> SUBSET Docs]
      /\ locked' \in [Tasks -> SUBSET Docs] /\ guard' \in [Tasks -> Docs \cup {None}]
  BY <1>1, <1>2, <1>3 DEF IInv, TypeOK
<1>6. next \in TaskPC \ {"idle", "saving"}
  BY DEF TaskPC
<1>7. \A u \in Tasks \ {t} :
        /\ todo'[u] = todo[u] /\ arcs'[u] = arcs[u]
        /\ locked'[u] = locked[u] /\ guard'[u] = guard[u]
  BY <1>3 DEF IInv, TypeOK
<1> HIDE DEF d, next
<1> QED
  BY <1>1, <1>3, <1>4, <1>5, <1>6, <1>7, GoesOn

LEMMA CallbackOK ==
  ASSUME IInv, NEW t \in Tasks,
         Callback(t) \/ \E d \in Docs : Commit(t, d)
  PROVE  IInv'
<1>1. TaskOK(t) /\ UNCHANGED <<shardOf, queueBars, mapped, onWorker, kind, arcs, locked, guard>>
  BY DEF IInv, Callback, Commit, policyVars
<1>2. CASE Callback(t)
  <2>1. /\ pc[t] = "callback" /\ pc' = [pc EXCEPT ![t] = "inside"]
        /\ todo' = [todo EXCEPT ![t] = {}]
    BY <1>2 DEF Callback
  <2>2. TaskOK(t)'
    BY <1>1, <2>1 DEF IInv, TypeOK, TaskOK
  <2> QED
    BY <1>1, <2>1, <2>2, GoesOn DEF IInv, TypeOK, TaskPC
<1>3. CASE \E d \in Docs : Commit(t, d)
  <2>1. PICK d \in Docs : Commit(t, d)
    BY <1>3
  <2>2. /\ pc[t] = "inside" /\ pc' = [pc EXCEPT ![t] = "callback"]
        /\ todo' = [todo EXCEPT ![t] = {d}]
    BY <2>1 DEF Commit
  <2>3. TaskOK(t)'
    BY <1>1, <2>2 DEF IInv, TypeOK, TaskOK
  <2> QED
    BY <1>1, <2>2, <2>3, GoesOn DEF IInv, TypeOK, TaskPC
<1> QED
  BY <1>2, <1>3

LEMMA LeaveOK ==
  ASSUME IInv, NEW t \in Tasks, Leave(t)
  PROVE  IInv'
<1>1. TaskOK(t) /\ pc[t] = "inside" /\ UNCHANGED <<shardOf, queueBars, mapped>>
  BY DEF IInv, Leave, policyVars
<1>2. CASE kind[t] = "edit"
  <2>1. /\ pc' = [pc EXCEPT ![t] = "returning"] /\ todo' = [todo EXCEPT ![t] = arcs[t]]
        /\ arcs' = [arcs EXCEPT ![t] = {}] /\ locked' = [locked EXCEPT ![t] = {}]
        /\ guard' = [guard EXCEPT ![t] = None] /\ UNCHANGED <<kind, onWorker>>
    BY <1>2 DEF Leave
  <2>2. TaskOK(t)'
    BY <1>1, <1>2, <2>1 DEF IInv, TypeOK, TaskOK
  <2> QED
    BY <1>1, <2>1, <2>2, GoesOn DEF IInv, TypeOK, TaskPC
<1>3. CASE kind[t] # "edit"
  BY <1>1, <1>3, EndsOK DEF IInv, TypeOK, Leave
<1> QED
  BY <1>2, <1>3

LEMMA ReturnOK ==
  ASSUME IInv, NEW t \in Tasks, Return(t)
  PROVE  IInv'
<1>1. /\ TaskOK(t) /\ pc[t] = "returning" /\ mapped' \in SUBSET Docs
      /\ UNCHANGED <<shardOf, queueBars, mapped>>
  BY DEF IInv, TypeOK, Return, policyVars
<1>2. CASE todo[t] \subseteq mapped
  <2> DEFINE d == Least(todo[t])
  <2>1. /\ pc' = [pc EXCEPT ![t] = "saving"] /\ guard' = [guard EXCEPT ![t] = d]
        /\ onWorker' = onWorker \ {t} /\ UNCHANGED <<kind, todo, arcs, locked>>
    BY <1>2 DEF Return
  <2>2. d \in Docs
    BY <1>1, LeastIs DEF IInv, TypeOK, TaskOK
  <2>3. TaskOK(t)'
    <3>1. d # None
      BY <2>2, LocksAssumption
    <3>2. /\ pc'[t] = "saving" /\ guard'[t] = d /\ kind'[t] = kind[t] /\ todo'[t] = todo[t]
          /\ arcs'[t] = arcs[t] /\ locked'[t] = locked[t]
      BY <2>1 DEF IInv, TypeOK
    <3> HIDE DEF d
    <3> QED
      BY <1>1, <3>1, <3>2 DEF TaskOK, KeepsGuard
  <2>4. /\ pc' \in [Tasks -> TaskPC] /\ kind' \in [Tasks -> TaskKinds]
        /\ guard' \in [Tasks -> Docs \cup {None}]
        /\ onWorker' = {u \in Tasks : pc'[u] \notin {"idle", "saving"} /\ kind'[u] # "collect"}
    BY <2>1, <2>2 DEF IInv, TypeOK, TaskPC
  <2>5. Cardinality(onWorker') <= Workers
    BY <2>1, FewerThreads
  <2>6. \A u \in Tasks \ {t} :
          /\ pc'[u] = pc[u] /\ kind'[u] = kind[u] /\ todo'[u] = todo[u]
          /\ arcs'[u] = arcs[u] /\ locked'[u] = locked[u] /\ guard'[u] = guard[u]
    BY <2>1 DEF IInv, TypeOK
  <2>7. /\ todo' \in [Tasks -> SUBSET Docs] /\ arcs' \in [Tasks -> SUBSET Docs]
        /\ locked' \in [Tasks -> SUBSET Docs]
    BY <2>1 DEF IInv, TypeOK
  <2> HIDE DEF d
  <2> QED
    BY <1>1, <2>3, <2>4, <2>5, <2>6, <2>7, OneTask
<1>3. CASE ~(todo[t] \subseteq mapped)
  BY <1>1, <1>3, EndsOK DEF Return
<1> QED
  BY <1>2, <1>3

LEMMA OverOK ==
  ASSUME IInv, NEW t \in Tasks, Saved(t) \/ Insert(t) \/ Remove(t)
  PROVE  IInv'
<1>1. pc[t] # "idle" /\ Ends(t) /\ shardOf' = shardOf /\ queueBars' = queueBars
  BY DEF Saved, Insert, Remove, policyVars
<1>2. mapped' \in SUBSET Docs
  BY DEF IInv, TypeOK, Saved, Insert, Remove
<1> QED
  BY <1>1, <1>2, EndsOK

LEMMA StartOK ==
  ASSUME IInv, NEW t \in Tasks,
         \/ \E d \in Docs : Use(t, d) \/ Load(t, d) \/ Collect(t, d)
         \/ \E S \in SUBSET Contents : Move(t, S)
  PROVE  IInv'
<1>1. CASE \E d \in Docs : Use(t, d)
  BY <1>1, BeginsOK DEF Use, TaskKinds
<1>2. CASE \E d \in Docs : Load(t, d)
  BY <1>2, BeginsOK DEF Load, TaskKinds
<1>3. CASE \E d \in Docs : Collect(t, d)
  BY <1>3, BeginsOK DEF Collect, TaskKinds
<1>4. CASE \E S \in SUBSET Contents : Move(t, S)
  <2>1. PICK S \in SUBSET Contents : Move(t, S)
    BY <1>4
  <2>2. Folders \cup S \in SUBSET Docs /\ Folders \cup S # {}
    BY <2>1, LocksAssumption DEF Move, Contents
  <2> QED
    BY <2>1, <2>2, BeginsOK DEF Move, TaskKinds
<1> QED
  BY <1>1, <1>2, <1>3, <1>4

LEMMA NextOK == IInv /\ [Next]_vars => IInv'
<1> SUFFICES ASSUME IInv, [Next]_vars PROVE IInv'
  OBVIOUS
<1>1. CASE UNCHANGED vars
  BY <1>1 DEF vars, policyVars, taskVars, IInv, TypeOK, TaskOK
<1>2. CASE Next
  <2>1. PICK t \in Tasks : TaskStep(t)
    BY <1>2 DEF Next
  <2> QED
    BY <2>1, StartOK, LookOK, LockOK, CallbackOK, LeaveOK, ReturnOK, OverOK DEF TaskStep
<1> QED
  BY <1>1, <1>2

LEMMA Invariance == Spec => []IInv
  BY InitOK, NextOK, PTL DEF Spec

\* Every field has its type, and the runtime's threads are the ones that the
\* tasks inside an operation occupy, never more than there are.
THEOREM TypeCorrect == Spec => []TypeOK
<1>1. IInv => TypeOK
  BY DEF IInv
<1> QED
  BY <1>1, Invariance, PTL

-----------------------------------------------------------------------------
(* Waiting *)

\* Who holds what a task asks for, and who queues before it.
LEMMA ShardWaits ==
  ASSUME NEW t \in Tasks,
         pc[t] \in {"looking", "callback", "returning", "inserting", "removing"}
  PROVE  /\ Request(t).lock = "shard"
         /\ Request(t).mode =
              IF pc[t] \in {"inserting", "removing"} THEN "write" ELSE "read"
         /\ Blockers(t) = Holders(Request(t)) \cup Ahead(Request(t))
  BY DEF Request, ShardRequest, Blockers, NoRequest

LEMMA AwarenessWaits ==
  ASSUME NEW t \in Tasks, pc[t] = "locking"
  PROVE  /\ Request(t) = [lock |-> "awareness", of |-> NextToLock(t),
                          mode |-> AwarenessMode(t)]
         /\ Blockers(t) = Holders(Request(t)) \cup Ahead(Request(t))
  BY DEF Request, Blockers, NoRequest

LEMMA NobodyWaits ==
  ASSUME NEW t \in Tasks, pc[t] \in {"idle", "inside"}
  PROVE  Blockers(t) = {}
  BY DEF Request, Blockers, NoRequest

\* Tasks that wait for awareness locks do not wait for each other in a circle.
LEMMA NoCircle ==
  ASSUME IInv, NEW L \in SUBSET Tasks, L # {},
         \A t \in L : pc[t] = "locking" /\ Blockers(t) \cap L # {}
  PROVE  FALSE
<1>1. \A t \in L : /\ NextToLock(t) \in Docs
                   /\ \A d \in locked[t] : d < NextToLock(t)
  <2> SUFFICES ASSUME NEW t \in L
               PROVE  /\ NextToLock(t) \in Docs
                      /\ \A d \in locked[t] : d < NextToLock(t)
    OBVIOUS
  <2>1. TaskOK(t) /\ pc[t] = "locking" /\ arcs[t] \in SUBSET Docs
    BY DEF IInv, TypeOK
  <2>2. NextToLock(t) \in arcs[t] \ locked[t]
    BY <2>1, LeastIs DEF TaskOK, NextToLock
  <2> QED
    BY <2>1, <2>2 DEF TaskOK
<1> DEFINE D == {NextToLock(t) : t \in L}
<1>2. D \in SUBSET Docs /\ D # {}
  BY <1>1
<1>3. PICK t \in L : \A u \in L : NextToLock(u) <= NextToLock(t)
  <2>1. PICK d \in D : \A e \in D : e <= d
    <3> HIDE DEF D
    <3> QED
      BY <1>2, LocksAssumption
  <2> QED
    BY <2>1
\* A holder of that document waits for a later one.
<1>4. \A u \in L : NextToLock(t) \notin locked[u]
  <2> SUFFICES ASSUME NEW u \in L, NextToLock(t) \in locked[u] PROVE FALSE
    OBVIOUS
  <2>1. NextToLock(t) < NextToLock(u) /\ NextToLock(u) <= NextToLock(t)
    BY <1>1, <1>3
  <2>2. NextToLock(t) \in Nat /\ NextToLock(u) \in Nat
    BY <1>1, LocksAssumption
  <2> QED
    BY <2>1, <2>2
<1>5. \A u \in L : NextToLock(u) = NextToLock(t) => Holders(Request(u)) \cap L = {}
  BY <1>4, AwarenessWaits DEF Holders
\* So it is a writer in the queue that keeps t waiting; who keeps that one?
<1>6. PICK u \in L : u \in Ahead(Request(t))
  BY <1>5, AwarenessWaits
<1>7. Request(u).of = NextToLock(t) /\ Request(u).mode = "write"
  BY <1>6, AwarenessWaits DEF Ahead
<1>8. NextToLock(u) = NextToLock(t) /\ Ahead(Request(u)) = {}
  BY <1>7, AwarenessWaits DEF Ahead
<1> QED
  BY <1>5, <1>8, AwarenessWaits

\* Whoever holds a shard keeps a reference, whoever holds an awareness and
\* waits is locking another or in its callback.
LEMMA WhoHolds ==
  ASSUME IInv, NEW t \in Tasks
  PROVE  /\ Request(t).lock = "shard" /\ Request(t).mode = "read" =>
              Holders(Request(t)) = {}
         /\ Request(t).lock = "shard" =>
              \A u \in Holders(Request(t)) : guard[u] # None
         /\ Request(t).lock = "awareness" =>
              \A u \in Holders(Request(t)) : pc[u] \in {"locking", "inside", "callback"}
  BY DEF Holders, IInv, TaskOK

-----------------------------------------------------------------------------
\* Tasks that hold no reference into the map never wedge among themselves.
THEOREM ReferencesOnly == Spec => []WedgeNeedsAReference
<1>1. IInv => WedgeNeedsAReference
  <2> SUFFICES ASSUME IInv, NEW B \in SUBSET Tasks, Wedged(B),
                      \A t \in B : guard[t] = None
               PROVE  FALSE
    BY DEF WedgeNeedsAReference
  <2>1. \A t \in B : /\ TaskOK(t) /\ guard[t] = None /\ pc[t] \in TaskPC
                     /\ pc[t] # "saving"
    BY DEF IInv, TypeOK, TaskOK
  <2>2. \A t \in B : Blockers(t) \cap B # {} /\ t \in Tasks
    BY DEF Wedged
  \* Nobody in the set holds a shard, so nobody waits to write one ...
  <2>3. \A t \in B : pc[t] \notin {"inserting", "removing"}
    <3> SUFFICES ASSUME NEW t \in B, pc[t] \in {"inserting", "removing"} PROVE FALSE
      OBVIOUS
    <3>1. Request(t).lock = "shard" /\ Request(t).mode = "write"
          /\ Blockers(t) = Holders(Request(t)) \cup Ahead(Request(t))
      BY <2>2, ShardWaits
    <3>2. Ahead(Request(t)) = {}
      BY <3>1 DEF Ahead
    <3> QED
      BY <2>1, <2>2, <3>1, <3>2, WhoHolds
  \* ... nor to read one, behind a writer.
  <2>4. \A t \in B : pc[t] \notin {"looking", "callback", "returning"}
    <3> SUFFICES ASSUME NEW t \in B, pc[t] \in {"looking", "callback", "returning"}
                 PROVE  FALSE
      OBVIOUS
    <3>1. Request(t).lock = "shard" /\ Request(t).mode = "read"
          /\ Blockers(t) = Holders(Request(t)) \cup Ahead(Request(t))
      BY <2>2, ShardWaits
    <3>2. PICK u \in B : u \in Ahead(Request(t))
      BY <2>2, <3>1, WhoHolds
    <3>3. Request(u).lock = "shard" /\ Request(u).mode = "write"
      BY <3>1, <3>2 DEF Ahead
    <3>4. pc[u] \in {"locking", "idle", "inside"}
      BY <2>1, <2>3, <3>3, <2>2, ShardWaits DEF TaskPC
    <3>5. pc[u] = "locking"
      BY <2>2, <3>4, NobodyWaits
    <3> QED
      BY <2>2, <3>3, <3>5, AwarenessWaits
  <2>5. \A t \in B : pc[t] = "locking"
    BY <2>1, <2>2, <2>3, <2>4, NobodyWaits DEF TaskPC
  <2> QED
    BY <2>2, <2>5, NoCircle DEF Wedged
<1> QED
  BY <1>1, Invariance, PTL

\* With shards that let readers pass waiting writers, every wedge has a task
\* that keeps a reference while it awaits its save.
THEOREM SavesOnly == Spec => []WedgeNeedsASave
<1>1. IInv => WedgeNeedsASave
  <2> SUFFICES ASSUME IInv, "shard" \notin queueBars,
                      NEW B \in SUBSET Tasks, Wedged(B),
                      \A t \in B : pc[t] # "saving"
               PROVE  FALSE
    BY DEF WedgeNeedsASave
  <2>1. \A t \in B : t \in Tasks /\ TaskOK(t) /\ pc[t] \in TaskPC
    BY DEF IInv, TypeOK
  <2>2. \A t \in B : Blockers(t) \cap B # {}
    BY DEF Wedged
  \* Nobody waits to read a shard.
  <2>3. \A t \in B : pc[t] \notin {"looking", "callback", "returning"}
    <3> SUFFICES ASSUME NEW t \in B, pc[t] \in {"looking", "callback", "returning"}
                 PROVE  FALSE
      OBVIOUS
    <3>1. Request(t).lock = "shard" /\ Request(t).mode = "read"
          /\ Blockers(t) = Holders(Request(t)) \cup Ahead(Request(t))
      BY <2>1, ShardWaits
    <3>2. Ahead(Request(t)) = {} /\ Holders(Request(t)) = {}
      BY <2>1, <3>1, WhoHolds DEF Ahead
    <3> QED
      BY <2>2, <3>1, <3>2
  <2>4. \A t \in B : pc[t] \in {"locking", "inserting", "removing"}
    BY <2>1, <2>2, <2>3, NobodyWaits DEF TaskPC
  \* Whoever waits to write one waits for a task that is locking.
  <2> DEFINE L == {t \in B : pc[t] = "locking"}
  <2>5. L # {}
    <3> SUFFICES ASSUME NEW t \in B, pc[t] \in {"inserting", "removing"} PROVE L # {}
      BY <2>4 DEF Wedged
    <3>1. Request(t).lock = "shard" /\ Request(t).mode = "write"
          /\ Blockers(t) = Holders(Request(t)) \cup Ahead(Request(t))
      BY <2>1, ShardWaits
    <3>2. Ahead(Request(t)) = {}
      BY <3>1 DEF Ahead
    <3>3. PICK u \in B : guard[u] # None
      BY <2>1, <2>2, <3>1, <3>2, WhoHolds
    <3> QED
      BY <2>1, <2>4, <3>3 DEF TaskOK
  \* Whoever waits for an awareness waits for a task that is locking, too.
  <2>6. \A t \in L : Blockers(t) \cap L # {}
    <3> SUFFICES ASSUME NEW t \in L PROVE Blockers(t) \cap L # {}
      OBVIOUS
    <3>1. PICK u \in B : u \in Blockers(t)
      BY <2>2
    <3>2. /\ Request(t).lock = "awareness"
          /\ Blockers(t) = Holders(Request(t)) \cup Ahead(Request(t))
      BY <2>1, AwarenessWaits
    <3>3. CASE u \in Holders(Request(t))
      BY <2>1, <2>4, <3>1, <3>2, <3>3, WhoHolds
    <3>4. CASE u \in Ahead(Request(t))
      <4>1. Request(u).lock = "awareness"
        BY <3>2, <3>4 DEF Ahead
      <4>2. pc[u] \notin {"inserting", "removing"}
        BY <2>1, <4>1, ShardWaits
      <4> QED
        BY <2>4, <3>1, <4>2
    <3> QED
      BY <3>1, <3>2, <3>3, <3>4
  <2> QED
    BY <2>5, <2>6, NoCircle
<1> QED
  BY <1>1, Invariance, PTL
=============================================================================
