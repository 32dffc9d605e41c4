----------------------------- MODULE EventsProofs -----------------------------
(***************************************************************************)
(* Type correctness of Events, what the parent's index says of the         *)
(* subdocuments, and what a client has that has asked for it, for any      *)
(* number of documents, updates, queues, loads and queries.                *)
(***************************************************************************)
EXTENDS Events, FiniteSetTheorems, TLAPS

-----------------------------------------------------------------------------
(* Type correctness. *)

\* What TypeOK says of the debounced queues, and of the rest.
QueueTypes ==
  /\ task \in [Updates -> [step : TaskSteps, queue : Queues \cup {None}, routed : BOOLEAN]]
  /\ timer \in [Updates -> TimerSteps]
  /\ current \in [Docs -> 0..MaxQueues]
  /\ base \in [Queues -> Updates \cup {None}] /\ pending \in [Queues -> SUBSET Updates]
  /\ age \in [Queues -> Ages] /\ handle \in [Queues -> Updates \cup {None}]
  /\ \A q \in Queues : pending[q] # {} => base[q] # None

\* A task that has taken its queue keeps it; one that has none has no timer.
HasQueue(u) == task[u].queue \in {u[1]} \X (1..MaxQueues)

Owned ==
  /\ \A u \in Updates :
       /\ task[u].step \in {"none", "get"} => timer[u] = "none" /\ task[u].queue = None
       /\ task[u].step \notin {"none", "get"} => HasQueue(u)
  /\ \A q \in Queues : handle[q] # None => task[handle[q]].queue = q

\* An update has a task from when the callback has dispatched it.
Called == \A d \in Docs : callback[d] # None => vector[d] > 0

Undispatched(u) == \/ u[2] > vector[u[1]]
                   \/ u[2] = vector[u[1]] /\ callback[u[1]] # None

Fresh == \A u \in Updates : Undispatched(u) => task[u].step = "none"

LEMMA Steps ==
  ASSUME TypeOK, Owned, NEW u \in Updates, task[u].step \notin {"none", "get"}
  PROVE  task[u].queue \in Queues /\ task[u].queue[1] = u[1]
BY DEF Owned, HasQueue, Updates, Queues

\* What changes with the step of a task.
OnlyTask(u) ==
  /\ task' \in [Updates -> [step : TaskSteps, queue : Queues \cup {None}, routed : BOOLEAN]]
  /\ \A v \in Updates \ {u} : task'[v] = task[v]

LEMMA Going ==
  ASSUME TypeOK, NEW u \in Updates, NEW s \in TaskSteps, Goes(u, s)
  PROVE  /\ task'[u].step = s /\ task'[u].queue = task[u].queue /\ task'[u].routed = task[u].routed
         /\ OnlyTask(u)
BY DEF TypeOK, Goes, OnlyTask

\* The number of a queue that is made: the first one that was never used.
LEMMA Getting ==
  ASSUME TypeOK, Owned, NEW u \in Updates, Gets(u)
  PROVE  /\ task[u].step = "get" /\ task'[u].step = "cancel" /\ HasQueue(u)'
         /\ task'[u].routed = task[u].routed /\ OnlyTask(u)
         /\ current' \in [Docs -> 0..MaxQueues]
<1> USE EventsAssumption
<1> DEFINE d == u[1]
           made == {m \in 1..MaxQueues : age[<<d, m>>] # "never" \/ base[<<d, m>>] # None
                                           \/ \E v \in Updates : task[v].queue = <<d, m>>}
           n == IF current[d] # 0 THEN current[d] ELSE Cardinality(made) + 1
<1>1. Cardinality(made) \in Nat
  <2>1. IsFiniteSet(1..MaxQueues)
    BY FS_Interval
  <2>2. IsFiniteSet(made)
    BY <2>1, FS_Subset
  <2> QED
    BY <2>2, FS_CardinalityType
<1>2. d \in Docs /\ current[d] \in 0..MaxQueues
  BY DEF TypeOK, Updates
<1>3. At(u, "get") /\ n <= MaxQueues /\ current' = [current EXCEPT ![d] = n]
      /\ task' = [task EXCEPT ![u].step = "cancel", ![u].queue = <<d, n>>]
  BY DEF Gets
<1> HIDE DEF made
<1>4. n \in 1..MaxQueues
  BY <1>1, <1>2, <1>3
<1> HIDE DEF n
<1>5. <<d, n>> \in Queues
  BY <1>2, <1>4 DEF Queues
<1>6. <<d, n>> \in {u[1]} \X (1..MaxQueues)
  BY <1>4
<1>7. task[u] \in [step : TaskSteps, queue : Queues \cup {None}, routed : BOOLEAN]
  BY DEF TypeOK
<1>8. task' = [task EXCEPT ![u] = [task[u] EXCEPT !.step = "cancel", !.queue = <<d, n>>]]
  BY <1>3
<1> HIDE DEF d
<1>9. /\ task'[u].step = "cancel" /\ task'[u].queue = <<d, n>>
      /\ task'[u].routed = task[u].routed /\ OnlyTask(u)
  BY <1>5, <1>7, <1>8 DEF TypeOK, TaskSteps, OnlyTask
<1>10. current' \in [Docs -> 0..MaxQueues]
  BY <1>2, <1>3, <1>4 DEF TypeOK
<1> QED
  BY <1>3, <1>6, <1>9, <1>10 DEF At, HasQueue

(* Every variable keeps its type; a queue with updates in it has its base  *)
(* event, and a task that is past its first await has a queue.             *)
LEMMA Types == Spec => [](TypeOK /\ Owned /\ Called /\ Fresh)
<1> DEFINE Inv == TypeOK /\ Owned /\ Called /\ Fresh
<1>1. Init => Inv
  <2> SUFFICES ASSUME Init PROVE Inv
    OBVIOUS
  <2> USE EventsAssumption DEF Init
  <2>1. QueueTypes
    BY DEF QueueTypes, NoTask, TaskSteps, TimerSteps, Ages
  <2>2. vector \in Vectors /\ index \in Vectors
    BY DEF Vectors
  <2>3. /\ loaded \in [Docs -> {"no", "plain", "routed"}] /\ callback \in [Docs -> Callbacks \cup {None}]
        /\ query \in Lookups \cup {None} /\ subscribed \in BOOLEAN /\ answered \in BOOLEAN
        /\ have \subseteq Updates /\ stale \subseteq Docs /\ misled \subseteq Docs
        /\ strays \subseteq Docs /\ outdated \subseteq Docs
    OBVIOUS
  <2>6. loads \in 0..MaxLoads /\ queries \in 0..MaxQueries
    OBVIOUS
  <2> HIDE DEF Init
  <2>5. TypeOK
    BY <2>1, <2>2, <2>3, <2>6 DEF TypeOK, QueueTypes
  <2>4. Owned /\ Called /\ Fresh
    BY DEF Init, NoTask, Owned, Called, Fresh
  <2> QED
    BY <2>4, <2>5
<1>2. Inv /\ [Next]_vars => Inv'
  <2> SUFFICES ASSUME TypeOK, Owned, Called, Fresh, [Next]_vars PROVE Inv'
    OBVIOUS
  <2> USE EventsAssumption
  <2>1. ASSUME NEW d \in Docs, NEW routed \in BOOLEAN, Loads(d, routed) PROVE Inv'
    BY <2>1 DEF Loads, TypeOK, Owned, HasQueue, Called, Fresh, Undispatched,
                indexVars, queueVars, clientVars
  <2>2. ASSUME NEW d \in Docs, Collects(d) PROVE Inv'
    <3>1. /\ vector' \in Vectors /\ \A e \in Docs : vector'[e] \in Nat /\ vector[e] <= vector'[e]
          /\ \A e \in Docs \ {d} : vector'[e] = vector[e]
      <4>1. UNCHANGED vector \/ (vector[d] < MaxUpdates /\ vector' = [vector EXCEPT ![d] = @ + 1])
        BY <2>2 DEF Collects, MayChange
      <4> QED
        BY <4>1 DEF TypeOK, Vectors
    <3>2. /\ callback[d] = None /\ UNCHANGED <<callback, task, timer, handle>>
          /\ outdated' \subseteq Docs /\ misled' \subseteq Docs
      BY <2>2 DEF Collects, Misses, TypeOK, queueVars
    <3>3. TypeOK'
      BY <2>2, <3>1, <3>2 DEF Collects, TypeOK, queueVars
    <3>4. Called'
      BY <3>1, <3>2 DEF Called, TypeOK, Vectors
    <3>5. \A u \in Updates : Undispatched(u)' => Undispatched(u)
      BY <3>1, <3>2 DEF Undispatched, Updates, TypeOK, Vectors
    <3> QED
      BY <3>2, <3>3, <3>4, <3>5 DEF Owned, HasQueue, Fresh
  <2>3. ASSUME NEW d \in Docs, Changes(d) PROVE Inv'
    <3>1. vector' \in Vectors /\ vector'[d] = vector[d] + 1 /\ vector[d] \in Nat
      BY <2>3 DEF Changes, MayChange, TypeOK, Vectors
    <3>2. callback' \in [Docs -> Callbacks \cup {None}]
      BY <2>3 DEF Changes, TypeOK, Callbacks
    <3>3. TypeOK'
      BY <2>3, <3>1, <3>2 DEF Changes, TypeOK, indexVars, queueVars, clientVars
    <3>4. Called'
      BY <2>3, <3>1 DEF Changes, Called, TypeOK, Vectors
    <3>5. \A u \in Updates : Undispatched(u)' => Undispatched(u)
      BY <2>3, <3>1 DEF Changes, Undispatched, Updates, TypeOK, Vectors
    <3> QED
      BY <2>3, <3>3, <3>4, <3>5 DEF Changes, Owned, HasQueue, Fresh, queueVars
  <2>4. ASSUME NEW d \in Docs, WritesIndex(d) PROVE Inv'
    <3>1. callback[d] \in Callbacks
      BY <2>4 DEF WritesIndex, TypeOK
    <3>2. index' \in Vectors
      BY <2>4, <3>1 DEF WritesIndex, TypeOK, Callbacks, Entered, Vectors
    <3>3. /\ callback' \in [Docs -> Callbacks \cup {None}]
          /\ \A e \in Docs : callback'[e] # None => callback[e] # None
      BY <2>4, <3>1 DEF WritesIndex, TypeOK, Callbacks
    <3>4. outdated' \subseteq Docs
      BY <2>4 DEF WritesIndex, TypeOK, Undone
    <3>5. TypeOK'
      BY <2>4, <3>2, <3>3, <3>4 DEF WritesIndex, TypeOK, queueVars, clientVars
    <3>6. Called'
      BY <2>4, <3>3 DEF WritesIndex, Called
    <3>7. Fresh'
      BY <2>4, <3>3 DEF WritesIndex, Fresh, Undispatched, Updates, queueVars
    <3> QED
      BY <2>4, <3>5, <3>6, <3>7 DEF WritesIndex, Owned, HasQueue, queueVars
  <2>5. ASSUME NEW d \in Docs, Dispatches(d) PROVE Inv'
    <3>0. <<d, vector[d]>> \in Updates
      BY <2>5 DEF Dispatches, Called, TypeOK, Vectors, Updates
    <3>1. PICK v \in Updates : v = <<d, vector[d]>> /\ Undispatched(v)
      BY <2>5, <3>0 DEF Dispatches, Undispatched
    <3>2. task[v].step = "none" /\ timer[v] = "none"
      BY <3>1 DEF Fresh, Owned
    <3>3. /\ task' \in [Updates -> [step : TaskSteps, queue : Queues \cup {None}, routed : BOOLEAN]]
          /\ task'[v].step = "get" /\ task'[v].queue = None
          /\ \A u \in Updates \ {v} : task'[u] = task[u]
      BY <2>5, <3>1 DEF Dispatches, TypeOK, TaskSteps
    <3>4. /\ callback' \in [Docs -> Callbacks \cup {None}] /\ callback'[d] = None
          /\ \A e \in Docs \ {d} : callback'[e] = callback[e]
      BY <2>5 DEF Dispatches, TypeOK
    <3>5. TypeOK'
      BY <2>5, <3>3, <3>4 DEF Dispatches, TypeOK, indexVars, clientVars
    <3>6. Owned'
      BY <2>5, <3>2, <3>3 DEF Dispatches, Owned, HasQueue
    <3>7. Called'
      BY <2>5, <3>4 DEF Dispatches, Called
    <3>8. ~Undispatched(v)'
      BY <2>5, <3>1, <3>4 DEF Dispatches, Undispatched, TypeOK, Vectors
    <3>10. \A u \in Updates : Undispatched(u)' => Undispatched(u)
      BY <2>5, <3>4 DEF Dispatches, Undispatched, Updates
    <3>9. ASSUME NEW u \in Updates, Undispatched(u)' PROVE task'[u].step = "none"
      BY <3>3, <3>8, <3>9, <3>10 DEF Fresh
    <3> QED
      BY <3>5, <3>6, <3>7, <3>9 DEF Fresh
  <2>6. ASSUME NEW u \in Updates, TaskStep(u) PROVE Inv'
    <3> DEFINE q == task[u].queue
    <3>1. /\ QueueTypes' /\ Owned' /\ UNCHANGED <<docVars, indexVars>>
          /\ have' \subseteq Updates /\ misled' \subseteq Docs
          /\ UNCHANGED <<subscribed, stale, answered>>
          /\ task[u].step # "none" /\ OnlyTask(u)
      <4>1. CASE Gets(u)
        <5>1. timer[u] = "none" /\ UNCHANGED <<timer, base, pending, age, handle, have>>
          BY <4>1, Getting DEF OnlyTask, Gets, Owned, clientVars
        <5>2. QueueTypes'
          BY <4>1, <5>1, Getting DEF OnlyTask, QueueTypes, TypeOK
        <5>3. Owned'
          <6>1. \A r \in Queues : handle[r] # u
            BY <4>1, Getting DEF OnlyTask, Owned
          <6>2. \A r \in Queues : handle'[r] # None => task'[handle'[r]].queue = r
            BY <4>1, <5>1, <6>1, Getting DEF OnlyTask, Owned, TypeOK
          <6> QED
            BY <4>1, <5>1, <6>2, Getting DEF OnlyTask, Owned, HasQueue
        <5> QED
          BY <4>1, <5>1, <5>2, <5>3, Getting DEF OnlyTask, Gets, clientVars, TypeOK
      <4>2. ASSUME NEW s \in TaskSteps \ {"none", "get"}, Goes(u, s), task[u].step \notin {"none", "get"},
                   \A v \in Updates : timer'[v] = timer[v] \/ task[v].step \notin {"none", "get"},
                   \A r \in Queues : handle'[r] \in {handle[r], None} \/ (r = q /\ handle'[r] = u)
            PROVE  Owned' /\ q \in Queues /\ OnlyTask(u)
        <5>1. q \in Queues
          BY <4>2, Steps
        <5>2. task'[u].step = s /\ task'[u].queue = q /\ OnlyTask(u)
          BY <4>2, Going
        <5>3. \A v \in Updates : task'[v].queue = task[v].queue
          BY <5>2 DEF OnlyTask
        <5>4. handle \in [Queues -> Updates \cup {None}]
          BY DEF TypeOK
        <5>5. \A r \in Queues : handle'[r] # None => task'[handle'[r]].queue = r
          BY <4>2, <5>3, <5>4 DEF Owned
        <5>6. \A v \in Updates :
                /\ task'[v].step \in {"none", "get"} => timer'[v] = "none" /\ task'[v].queue = None
                /\ task'[v].step \notin {"none", "get"} => HasQueue(v)'
          BY <4>2, <5>2, <5>3 DEF Owned, HasQueue, OnlyTask
        <5> QED
          BY <5>1, <5>2, <5>5, <5>6 DEF Owned
      <4> USE DEF QueueTypes, TypeOK, At, TaskSteps, OnlyTask
      <4>3. CASE Cancels(u)
        <5>1. q \in Queues /\ Goes(u, "store")
          BY <4>3, Steps DEF Cancels
        <5>2. handle[q] # None => task[handle[q]].step \notin {"none", "get"}
          BY <5>1 DEF Owned, Queues
        <5>3. handle' \in [Queues -> Updates \cup {None}] /\ timer' \in [Updates -> TimerSteps]
          BY <4>3, <5>1 DEF Cancels, TimerSteps
        <5>4. \A v \in Updates : timer'[v] = timer[v] \/ task[v].step \notin {"none", "get"}
          BY <4>3, <5>2 DEF Cancels
        <5>5. \A r \in Queues : handle'[r] \in {handle[r], None}
          BY <4>3, <5>1 DEF Cancels
        <5>6. Owned' /\ OnlyTask(u)
          BY <4>3, <4>2, <5>4, <5>5 DEF Cancels
        <5> QED
          BY <4>3, <5>3, <5>6 DEF Cancels, clientVars
      <4>4. CASE Stores(u)
        <5>1. Owned' /\ q \in Queues /\ OnlyTask(u)
          BY <4>4, <4>2 DEF Stores
        <5>2. base' \in [Queues -> Updates \cup {None}] /\ pending' \in [Queues -> SUBSET Updates]
          BY <4>4, <5>1 DEF Stores, Stored, Based
        <5>3. \A r \in Queues : pending'[r] # {} => base'[r] # None
          BY <4>4, <5>1 DEF Stores, Based
        <5> QED
          BY <4>4, <5>1, <5>2, <5>3 DEF Stores, clientVars
      <4>5. CASE Checks(u)
        <5>1. Owned' /\ q \in Queues /\ OnlyTask(u)
          BY <4>5, <4>2 DEF Checks
        <5> QED
          BY <4>5, <5>1 DEF Checks, clientVars
      <4>6. CASE SendsNow(u)
        <5>1. Owned' /\ q \in Queues /\ OnlyTask(u)
          BY <4>6, <4>2 DEF SendsNow, Sends
        <5>2. /\ base' \in [Queues -> Updates \cup {None}] /\ pending' \in [Queues -> SUBSET Updates]
              /\ \A r \in Queues : pending'[r] # {} => base'[r] # None
          BY <4>6, <5>1 DEF SendsNow, Sends
        <5>3. have' \subseteq Updates /\ misled' \subseteq Docs
          BY <4>6, <5>1 DEF SendsNow, Sends, Misses, Queues
        <5> QED
          BY <4>6, <5>1, <5>2, <5>3 DEF SendsNow, Sends
      <4>7. CASE MarksNow(u)
        <5>1. Owned' /\ q \in Queues /\ OnlyTask(u)
          BY <4>7, <4>2 DEF MarksNow, Marks
        <5> QED
          BY <4>7, <5>1 DEF MarksNow, Marks, clientVars, Ages
      <4>8. CASE Spawns(u)
        <5>1. Owned' /\ q \in Queues /\ OnlyTask(u)
          BY <4>8, <4>2 DEF Spawns
        <5> QED
          BY <4>8, <5>1 DEF Spawns, TimerSteps, clientVars
      <4>9. CASE Keeps(u)
        <5>1. Owned' /\ q \in Queues /\ OnlyTask(u)
          BY <4>9, <4>2 DEF Keeps
        <5> QED
          BY <4>9, <5>1 DEF Keeps, clientVars
      <4> QED
        BY <2>6, <4>1, <4>3, <4>4, <4>5, <4>6, <4>7, <4>8, <4>9 DEF TaskStep
    <3> QED
      BY <3>1 DEF QueueTypes, TypeOK, Called, Fresh, Undispatched, OnlyTask, docVars, indexVars
  <2>7. ASSUME NEW u \in Updates, TimerStep(u) PROVE Inv'
    <3> DEFINE q == task[u].queue
    <3>1. /\ QueueTypes' /\ Owned' /\ UNCHANGED <<task, docVars, indexVars>>
          /\ have' \subseteq Updates /\ misled' \subseteq Docs
          /\ UNCHANGED <<subscribed, stale, answered>>
      <4>1. timer[u] # "none" => q \in Queues
        BY Steps DEF Owned
      <4>5. ASSUME NEW s \in TimerSteps, Tick(u, timer[u], s), timer[u] # "none", UNCHANGED handle
            PROVE  timer' \in [Updates -> TimerSteps] /\ Owned' /\ q \in Queues
        BY <4>1, <4>5 DEF Tick, TypeOK, Owned, HasQueue
      <4> USE DEF QueueTypes, TypeOK, TimerSteps
      <4>2. CASE Wakes(u)
        BY <4>2, <4>5 DEF Wakes, Tick, clientVars
      <4>3. CASE SendsLater(u)
        <5>1. timer' \in [Updates -> TimerSteps] /\ Owned' /\ q \in Queues
          BY <4>3, <4>5 DEF SendsLater, Sends, Tick
        <5>2. /\ base' \in [Queues -> Updates \cup {None}] /\ pending' \in [Queues -> SUBSET Updates]
              /\ \A r \in Queues : pending'[r] # {} => base'[r] # None
          BY <4>3, <5>1 DEF SendsLater, Sends
        <5>3. have' \subseteq Updates /\ misled' \subseteq Docs
          BY <4>3, <5>1 DEF SendsLater, Sends, Misses, Queues
        <5> QED
          BY <4>3, <5>1, <5>2, <5>3 DEF SendsLater, Sends, Tick
      <4>4. CASE MarksLater(u)
        <5>1. timer' \in [Updates -> TimerSteps] /\ Owned' /\ q \in Queues
          BY <4>4, <4>5 DEF MarksLater, Marks, Tick
        <5> QED
          BY <4>4, <5>1 DEF MarksLater, Marks, Tick, clientVars, Ages
      <4> QED
        BY <2>7, <4>2, <4>3, <4>4 DEF TimerStep
    <3> QED
      BY <3>1 DEF QueueTypes, TypeOK, Called, Fresh, Undispatched, docVars, indexVars
  <2>8. ASSUME NEW q \in Queues, Passes(q) PROVE Inv'
    BY <2>8 DEF Passes, TypeOK, Ages, Owned, HasQueue, Called, Fresh, Undispatched,
                docVars, indexVars, clientVars
  <2>9. ASSUME NEW d \in Docs, Forgets(d) PROVE Inv'
    BY <2>9 DEF Forgets, TypeOK, Owned, HasQueue, Called, Fresh, Undispatched,
                docVars, indexVars, clientVars
  <2>10. ASSUME NEW d \in Docs, Fetches(d) PROVE Inv'
    <3>1. {d} \X (1..vector[d]) \subseteq Updates
      BY DEF TypeOK, Vectors, Updates
    <3> QED
      BY <2>10, <3>1 DEF Fetches, TypeOK, Owned, HasQueue, Called, Fresh, Undispatched,
                         docVars, indexVars, queueVars
  <2>11. CASE Subscribes
    BY <2>11 DEF Subscribes, TypeOK, Owned, HasQueue, Called, Fresh, Undispatched,
                 docVars, indexVars, queueVars
  <2>12. CASE Asks
    <3>1. [step |-> "read", answer |-> index, copy |-> index] \in Lookups
      BY DEF TypeOK, Lookups
    <3>2. queries + 1 \in 0..MaxQueries
      BY <2>12 DEF Asks, TypeOK
    <3>3. TypeOK'
      BY <2>12, <3>1, <3>2 DEF Asks, TypeOK, docVars, queueVars
    <3> QED
      BY <2>12, <3>3 DEF Asks, Owned, HasQueue, Called, Fresh, Undispatched,
                 docVars, queueVars
  <2>13. CASE ReadsAgain
    BY <2>13 DEF ReadsAgain, TypeOK, Lookups, Owned, HasQueue, Called, Fresh, Undispatched,
                 docVars, queueVars, clientVars
  <2>14. CASE Responds
    BY <2>14 DEF Responds, TypeOK, Lookups, Owned, HasQueue, Called, Fresh, Undispatched,
                 docVars, queueVars
  <2>15. CASE Leaves
    BY <2>15 DEF Leaves, TypeOK, Owned, HasQueue, Called, Fresh, Undispatched,
                 docVars, indexVars, queueVars
  <2>16. CASE UNCHANGED vars
    BY <2>16 DEF vars, TypeOK, Owned, HasQueue, Called, Fresh, Undispatched,
                 docVars, indexVars, queueVars, clientVars
  <2>17. ASSUME NEW saved \in Earlier(vector), NEW entries \in Earlier(vector),
                Restarts(saved, entries)
         PROVE  Inv'
    <3>1. saved \in Vectors /\ entries \in Vectors
      BY DEF Earlier
    <3>2. /\ task' = [u \in Updates |-> NoTask] /\ timer' = [u \in Updates |-> "none"]
          /\ handle' = [q \in Queues |-> None] /\ callback' = [d \in Docs |-> None]
      BY <2>17 DEF Restarts
    <3>3. \A u \in Updates : /\ task'[u].step = "none" /\ task'[u].queue = None
                              /\ timer'[u] = "none"
      BY <3>2 DEF NoTask
    <3>4. Owned' /\ Called' /\ Fresh'
      BY <3>2, <3>3 DEF Owned, Called, Fresh
    <3>5. QueueTypes'
      BY <2>17 DEF Restarts, QueueTypes, NoTask, TaskSteps, TimerSteps, Ages
    <3>6. TypeOK'
      BY <2>17, <3>1, <3>5 DEF Restarts, QueueTypes, TypeOK
    <3> QED
      BY <3>4, <3>6
  <2> QED
    BY <2>1, <2>2, <2>3, <2>4, <2>5, <2>6, <2>7, <2>8, <2>9, <2>10, <2>11, <2>12, <2>13,
       <2>14, <2>15, <2>16, <2>17 DEF Next
<1> QED
  BY <1>1, <1>2, PTL DEF Spec

(* Every variable of the documents, the index, the queues and the client   *)
(* keeps its type, and a queue with updates in it has its base event.      *)
THEOREM TypeCorrect == Spec => []TypeOK
BY Types, PTL

-----------------------------------------------------------------------------
(* The index.                                                              *)
(*                                                                         *)
(* An entry that is not outdated lacks at most the update whose callback   *)
(* has yet to write.  A copy of the index that is written back either      *)
(* leaves an entry as it is, or makes it outdated.                         *)

Lagging(d) == callback[d] # None /\ callback[d].step = "write"

Entries ==
  \A d \in Docs \ (strays \cup outdated) :
    vector[d] = IF Lagging(d) THEN index[d] + 1 ELSE index[d]

LEMMA IndexStep ==
  ASSUME TypeOK, TypeOK', Entries, [Next]_vars
  PROVE  Entries'
<1>1. ASSUME UNCHANGED <<vector, callback, index, strays, outdated>> PROVE Entries'
  BY <1>1 DEF Entries, Lagging
<1>2. ASSUME NEW d \in Docs, Changes(d) PROVE Entries'
  <2>1. /\ vector'[d] = vector[d] + 1 /\ vector[d] \in Nat
        /\ \A e \in Docs \ {d} : vector'[e] = vector[e]
    BY <1>2 DEF Changes, MayChange, TypeOK, Vectors
  <2>2. UNCHANGED <<index, query, outdated>> /\ strays \subseteq strays'
    BY <1>2 DEF Changes, indexVars
  <2>3. /\ callback[d] = None
        /\ callback'[d].step = (IF loaded[d] = "routed" THEN "write" ELSE "dispatch")
        /\ \A e \in Docs \ {d} : callback'[e] = callback[e]
    BY <1>2 DEF Changes, TypeOK
  <2>4. callback'[d] # None
    BY <1>2, EventsAssumption DEF Changes, TypeOK, Callbacks
  <2>5. ASSUME d \notin strays' \cup outdated' PROVE Lagging(d)' /\ vector'[d] = index'[d] + 1
    <3>1. loaded[d] = "routed" /\ d \notin strays \cup outdated
      BY <1>2, <2>2, <2>5 DEF Changes
    <3>2. vector[d] = index[d]
      BY <3>1, <2>3 DEF Entries, Lagging
    <3> QED
      BY <2>1, <2>2, <2>3, <2>4, <3>1, <3>2 DEF Lagging
  <2>6. \A e \in Docs \ {d} : Lagging(e)' = Lagging(e)
    BY <2>3 DEF Lagging
  <2> QED
    BY <2>1, <2>2, <2>5, <2>6 DEF Entries
<1>3. ASSUME NEW d \in Docs, WritesIndex(d) PROVE Entries'
  <2>1. callback[d] \in Callbacks /\ callback[d] # None
    BY <1>3 DEF WritesIndex, TypeOK
  <2>2. /\ index'[d] = vector[d] /\ \A e \in Docs \ {d} : index'[e] = callback[d].copy[e]
        /\ UNCHANGED <<vector, strays, query>>
    BY <1>3, <2>1 DEF WritesIndex, Entered, Callbacks, Vectors
  <2>3. callback'[d].step = "dispatch" /\ \A e \in Docs \ {d} : callback'[e] = callback[e]
    BY <1>3, <2>1 DEF WritesIndex, TypeOK, Callbacks
  <2>4. ~Lagging(d)' /\ \A e \in Docs \ {d} : Lagging(e)' = Lagging(e)
    BY <2>3 DEF Lagging
  <2>5. ASSUME NEW e \in Docs \ {d}, e \notin outdated'
        PROVE  e \notin outdated /\ index'[e] = index[e]
    BY <1>3, <2>2, <2>5 DEF WritesIndex, Undone
  <2> QED
    BY <2>2, <2>4, <2>5 DEF Entries
<1>4. ASSUME NEW d \in Docs, Dispatches(d) PROVE Entries'
  <2>1. /\ callback[d] # None /\ callback[d].step = "dispatch" /\ callback'[d] = None
        /\ \A e \in Docs \ {d} : callback'[e] = callback[e]
        /\ UNCHANGED <<vector, index, query, strays, outdated>>
    BY <1>4 DEF Dispatches, TypeOK, indexVars
  <2> QED
    BY <2>1 DEF Entries, Lagging
<1>5. ASSUME NEW d \in Docs, Collects(d) PROVE Entries'
  <2>1. /\ UNCHANGED <<callback, index, strays>>
        /\ \/ UNCHANGED <<vector, outdated>>
           \/ /\ vector' = [vector EXCEPT ![d] = @ + 1] /\ outdated' = outdated \cup {d}
    BY <1>5 DEF Collects
  <2> QED
    BY <2>1 DEF Entries, Lagging, TypeOK, Vectors
<1>6. ASSUME NEW saved \in Earlier(vector), NEW entries \in Earlier(vector), Restarts(saved, entries)
      PROVE  Entries'
  <2>1. /\ \A d \in Docs : callback'[d] = None
        /\ vector' = saved /\ index' = entries
        /\ outdated' = {d \in Docs : saved[d] # entries[d]}
    BY <1>6 DEF Restarts
  <2> QED
    BY <2>1 DEF Entries, Lagging
<1>7. CASE Responds
  <2>1. /\ index' = query.copy /\ UNCHANGED <<vector, callback, strays>>
        /\ outdated' = outdated \cup {d \in Docs : query.copy[d] # index[d]}
    BY <1>7 DEF Responds, docVars
  <2> QED
    BY <2>1 DEF Entries, Lagging
<1>8. CASE Subscribes \/ Leaves \/ Asks \/ ReadsAgain
  BY <1>1, <1>8 DEF Subscribes, Leaves, Asks, ReadsAgain, docVars, indexVars
<1>9. ASSUME NEW u \in Updates, TaskStep(u) \/ TimerStep(u) PROVE UNCHANGED <<docVars, indexVars>>
  BY <1>9 DEF TaskStep, TimerStep, Gets, Cancels, Stores, Checks, SendsNow, MarksNow, Spawns, Keeps,
              Wakes, SendsLater, MarksLater, Sends, Marks
<1>10. ASSUME NEW d \in Docs, Forgets(d) \/ Fetches(d) PROVE Entries'
  BY <1>1, <1>10 DEF Forgets, Fetches, docVars, indexVars
<1>11. ASSUME NEW d \in Docs, NEW routed \in BOOLEAN, Loads(d, routed) PROVE Entries'
  BY <1>1, <1>11 DEF Loads, indexVars
<1>12. ASSUME NEW q \in Queues, Passes(q) PROVE Entries'
  BY <1>1, <1>12 DEF Passes, docVars, indexVars
<1>13. CASE UNCHANGED vars
  BY <1>1, <1>13 DEF vars, docVars, indexVars
<1>14. ASSUME NEW u \in Updates, TaskStep(u) \/ TimerStep(u) PROVE Entries'
  BY <1>1, <1>9, <1>14 DEF docVars, indexVars
<1> QED
  BY <1>2, <1>3, <1>4, <1>5, <1>6, <1>7, <1>8, <1>10, <1>11, <1>12, <1>13, <1>14 DEF Next

LEMMA IndexInvariant == Spec => []Entries
<1>1. Init => Entries
  BY DEF Init, Entries, Lagging
<1> QED
  BY <1>1, IndexStep, TypeCorrect, PTL DEF Spec

(* When all is quiet, the parent's index has the state vector of every     *)
(* subdocument whose entry no write back, compaction or restart has made   *)
(* outdated, however the callbacks of the others and the queries of        *)
(* clients read and wrote it.                                              *)
THEOREM IndexFollows == Spec => []IndexCurrent
<1>1. Entries => IndexCurrent
  <2> SUFFICES ASSUME Entries, Settled,
                      NEW d \in Docs \ (strays \cup outdated)
               PROVE  index[d] = vector[d]
    BY DEF IndexCurrent
  <2>1. ~Lagging(d)
    BY DEF Settled, Lagging
  <2> QED
    BY <2>1 DEF Entries
<1> QED
  BY <1>1, IndexInvariant, PTL

-----------------------------------------------------------------------------
(* Delivery.                                                               *)
(*                                                                         *)
(* An update that is neither with the client nor in a step of its own task *)
(* is in a queue, and a queue with updates in it has somebody who is going *)
(* to send them: a task or a timer.  Whoever ends a timer sends himself.   *)

LEMMA TaskFacts ==
  ASSUME TypeOK, Owned, NEW u \in Updates, TaskStep(u)
  PROVE  /\ OnlyTask(u) /\ task[u].step # "none" /\ task'[u].step \notin {"none", "get"}
         /\ task'[u].routed = task[u].routed
         /\ task[u].step # "get" => task'[u].queue = task[u].queue /\ task[u].queue \in Queues
         /\ UNCHANGED <<docVars, indexVars, subscribed, stale, answered>>
         /\ misled \subseteq misled'
<1>1. CASE Gets(u)
  BY <1>1, Getting DEF Gets, clientVars
<1>2. ASSUME NEW s \in TaskSteps \ {"none", "get"}, Goes(u, s), task[u].step \notin {"none", "get"}
      PROVE  /\ OnlyTask(u) /\ task[u].step # "none" /\ task'[u].step \notin {"none", "get"}
             /\ task'[u].routed = task[u].routed
             /\ task'[u].queue = task[u].queue /\ task[u].queue \in Queues
  BY <1>2, Going, Steps
<1>3. CASE Cancels(u)
  BY <1>2, <1>3 DEF Cancels, At, TaskSteps, clientVars
<1>4. CASE Stores(u)
  BY <1>2, <1>4 DEF Stores, At, TaskSteps, clientVars
<1>5. CASE Checks(u)
  BY <1>2, <1>5 DEF Checks, At, TaskSteps, clientVars
<1>6. CASE SendsNow(u)
  BY <1>2, <1>6 DEF SendsNow, Sends, Misses, At, TaskSteps
<1>7. CASE MarksNow(u)
  BY <1>2, <1>7 DEF MarksNow, Marks, At, TaskSteps, clientVars
<1>8. CASE Spawns(u)
  BY <1>2, <1>8 DEF Spawns, At, TaskSteps, clientVars
<1>9. CASE Keeps(u)
  BY <1>2, <1>9 DEF Keeps, At, TaskSteps, clientVars
<1> QED
  BY <1>1, <1>3, <1>4, <1>5, <1>6, <1>7, <1>8, <1>9 DEF TaskStep

\* What was made while its document routes to the parent goes there.
RoutedCallbacks == \A d \in Docs \ strays : callback[d] # None => loaded[d] = "routed"
RoutedTasks ==
  \A u \in Updates : u[1] \notin strays /\ task[u].step # "none" => task[u].routed
OwnBase ==
  \A q \in Queues : base[q] # None => base[q][1] = q[1] /\ task[base[q]].step # "none"
OwnUpdates ==
  \A q \in Queues : \A u \in pending[q] : u[1] = q[1] /\ u[2] <= vector[u[1]]

Routing == RoutedCallbacks /\ RoutedTasks /\ OwnBase /\ OwnUpdates

LEMMA RoutingStep ==
  ASSUME TypeOK, TypeOK', Owned, Called, Fresh, Routing, [Next]_vars
  PROVE  Routing'
<1> USE DEF Routing
<1>1. ASSUME UNCHANGED <<loaded, vector, callback, strays, task, base, pending>> PROVE Routing'
  BY <1>1 DEF RoutedCallbacks, RoutedTasks, OwnBase, OwnUpdates
<1>2. ASSUME NEW d \in Docs, NEW routed \in BOOLEAN, Loads(d, routed) PROVE Routing'
  <2>1. /\ loaded[d] = "no" /\ \A e \in Docs \ {d} : loaded'[e] = loaded[e]
        /\ UNCHANGED <<vector, callback, strays, task, base, pending>>
    BY <1>2 DEF Loads, TypeOK, queueVars
  <2> QED
    BY <2>1 DEF RoutedCallbacks, RoutedTasks, OwnBase, OwnUpdates
<1>3. ASSUME NEW d \in Docs, Collects(d) PROVE Routing'
  <2>1. /\ callback[d] = None /\ \A e \in Docs \ {d} : loaded'[e] = loaded[e]
        /\ UNCHANGED <<callback, strays, task, base, pending>>
    BY <1>3 DEF Collects, TypeOK, queueVars
  <2>2. \A e \in Docs : vector[e] \in Nat /\ vector'[e] \in Nat /\ vector[e] <= vector'[e]
    BY <1>3 DEF Collects, TypeOK, Vectors
  <2>3. OwnUpdates'
    <3> SUFFICES ASSUME NEW q \in Queues, NEW u \in pending[q]
                 PROVE  u[1] = q[1] /\ u[2] <= vector'[u[1]]
      BY <2>1 DEF OwnUpdates
    <3>1. u[1] \in Docs /\ u[2] \in Nat /\ u[1] = q[1] /\ u[2] <= vector[u[1]]
      BY DEF OwnUpdates, TypeOK, Updates
    <3> QED
      BY <2>2, <3>1
  <2> QED
    BY <2>1, <2>3 DEF RoutedCallbacks, RoutedTasks, OwnBase
<1>4. ASSUME NEW d \in Docs, Changes(d) PROVE Routing'
  <2>1. /\ \A e \in Docs \ {d} : callback'[e] = callback[e] /\ vector'[e] = vector[e]
        /\ vector'[d] = vector[d] + 1 /\ vector[d] \in Nat
        /\ strays' = IF loaded[d] = "routed" THEN strays ELSE strays \cup {d}
        /\ UNCHANGED <<loaded, task, base, pending>>
    BY <1>4 DEF Changes, MayChange, TypeOK, Vectors, queueVars
  <2>2. RoutedCallbacks' /\ RoutedTasks' /\ OwnBase'
    BY <2>1 DEF RoutedCallbacks, RoutedTasks, OwnBase
  <2>3. ASSUME NEW q \in Queues, NEW u \in pending'[q] PROVE u[1] = q[1] /\ u[2] <= vector'[u[1]]
    <3>1. u \in pending[q] /\ u \in Updates
      BY <2>1 DEF TypeOK
    <3>2. u[1] \in Docs /\ u[2] \in Nat /\ vector[u[1]] \in Nat
      BY <3>1 DEF Updates, TypeOK, Vectors
    <3>3. u[1] = q[1] /\ u[2] <= vector[u[1]]
      BY <3>1 DEF OwnUpdates
    <3> QED
      BY <2>1, <3>2, <3>3
  <2> QED
    BY <2>2, <2>3 DEF OwnUpdates
<1>5. ASSUME NEW d \in Docs, WritesIndex(d) PROVE Routing'
  <2>1. /\ \A e \in Docs : callback'[e] # None => callback[e] # None
        /\ UNCHANGED <<loaded, vector, strays, task, base, pending>>
    BY <1>5 DEF WritesIndex, TypeOK, queueVars
  <2> QED
    BY <2>1 DEF RoutedCallbacks, RoutedTasks, OwnBase, OwnUpdates
<1>6. ASSUME NEW d \in Docs, Dispatches(d) PROVE Routing'
  <2>1. <<d, vector[d]>> \in Updates
    BY <1>6 DEF Dispatches, Called, TypeOK, Vectors, Updates
  <2>2. PICK v \in Updates : v = <<d, vector[d]>>
    BY <2>1
  <2>3. /\ task'[v] = [step |-> "get", queue |-> None, routed |-> loaded[d] = "routed"]
        /\ \A u \in Updates \ {v} : task'[u] = task[u]
        /\ \A e \in Docs : callback'[e] # None => callback[e] # None
        /\ UNCHANGED <<loaded, vector, strays, base, pending>>
    BY <1>6, <2>2 DEF Dispatches, TypeOK
  <2>4. d \notin strays => task'[v].routed
    <3> SUFFICES ASSUME d \notin strays PROVE task'[v].routed
      OBVIOUS
    <3>1. loaded[d] = "routed"
      BY <1>6 DEF Dispatches, RoutedCallbacks
    <3>2. (loaded[d] = "routed") = TRUE
      BY <3>1
    <3>3. task'[v] = [step |-> "get", queue |-> None, routed |-> TRUE]
      BY <2>3, <3>2, Zenon
    <3> QED
      BY <3>3
  <2>5. RoutedTasks'
    BY <2>2, <2>3, <2>4 DEF RoutedTasks
  <2>6. \A u \in Updates : task[u].step # "none" => task'[u].step # "none"
    BY <2>3
  <2>7. OwnBase'
    BY <2>3, <2>6 DEF OwnBase, TypeOK
  <2> QED
    BY <2>3, <2>5, <2>7 DEF RoutedCallbacks, OwnUpdates
<1>7. ASSUME NEW u \in Updates, TaskStep(u),
             \A q \in Queues : /\ base'[q] \in {base[q], None} \/ (q[1] = u[1] /\ base'[q] = u)
                               /\ pending'[q] \subseteq pending[q] \cup (IF q[1] = u[1] THEN {u} ELSE {})
      PROVE  Routing'
  <2>1. UNCHANGED docVars /\ OnlyTask(u) /\ task[u].step # "none" /\ task'[u].step # "none"
        /\ task'[u].routed = task[u].routed
    BY <1>7, TaskFacts
  <2>2. RoutedCallbacks' /\ RoutedTasks'
    BY <2>1 DEF RoutedCallbacks, RoutedTasks, OnlyTask, docVars
  <2>3. u[2] <= vector[u[1]]
    BY <2>1 DEF Fresh, Undispatched, Updates, TypeOK, Vectors
  <2>4. OwnBase'
    <3>1. \A v \in Updates : task[v].step # "none" \/ v = u => task'[v].step # "none"
      BY <2>1 DEF OnlyTask
    <3>2. base \in [Queues -> Updates \cup {None}]
      BY DEF TypeOK
    <3> SUFFICES ASSUME NEW q \in Queues, base'[q] # None
                 PROVE  base'[q][1] = q[1] /\ task'[base'[q]].step # "none"
      BY DEF OwnBase
    <3>3. CASE base'[q] = base[q]
      BY <3>1, <3>2, <3>3 DEF OwnBase
    <3>4. CASE q[1] = u[1] /\ base'[q] = u
      BY <3>1, <3>4
    <3> QED
      BY <1>7, <3>3, <3>4
  <2>5. OwnUpdates'
    BY <1>7, <2>1, <2>3 DEF OwnUpdates, docVars
  <2> QED
    BY <2>2, <2>4, <2>5
<1>8. ASSUME NEW u \in Updates, TaskStep(u) PROVE Routing'
  <2>1. task[u].step # "get" => task[u].queue \in Queues /\ task[u].queue[1] = u[1]
    BY <1>8, TaskFacts, Steps
  <2>2. CASE Gets(u) \/ Cancels(u) \/ Checks(u) \/ MarksNow(u) \/ Spawns(u) \/ Keeps(u)
    BY <1>7, <1>8, <2>2 DEF Gets, Cancels, Checks, MarksNow, Marks, Spawns, Keeps
  <2>3. CASE Stores(u)
    <3>1. \A q \in Queues : /\ base'[q] = base[q] \/ (q[1] = u[1] /\ base'[q] = u)
                            /\ pending'[q] \subseteq pending[q] \cup (IF q[1] = u[1] THEN {u} ELSE {})
      BY <2>1, <2>3 DEF Stores, At, Stored, Based, TypeOK
    <3> QED
      BY <1>7, <1>8, <3>1
  <2>4. CASE SendsNow(u)
    <3>1. \A q \in Queues : base'[q] \in {base[q], None} /\ pending'[q] \subseteq pending[q]
      BY <2>4 DEF SendsNow, Sends, TypeOK
    <3> QED
      BY <1>7, <1>8, <3>1
  <2> QED
    BY <1>8, <2>2, <2>3, <2>4 DEF TaskStep
<1>9. ASSUME NEW u \in Updates, TimerStep(u) PROVE Routing'
  <2>1. CASE Wakes(u) \/ MarksLater(u)
    BY <1>1, <2>1 DEF Wakes, MarksLater, Marks, Tick, docVars
  <2>2. CASE SendsLater(u)
    <3>1. \A q \in Queues : base'[q] \in {base[q], None} /\ pending'[q] \subseteq pending[q]
      BY <2>2 DEF SendsLater, Sends, TypeOK
    <3>2. UNCHANGED <<docVars, task>>
      BY <2>2 DEF SendsLater, Sends, Tick
    <3> QED
      BY <3>1, <3>2 DEF RoutedCallbacks, RoutedTasks, OwnBase, OwnUpdates, docVars
  <2> QED
    BY <1>9, <2>1, <2>2 DEF TimerStep
<1>10. ASSUME NEW d \in Docs, Forgets(d) \/ Fetches(d) PROVE Routing'
  BY <1>1, <1>10 DEF Forgets, Fetches, docVars, queueVars
<1>11. ASSUME NEW q \in Queues, Passes(q) PROVE Routing'
  BY <1>1, <1>11 DEF Passes, docVars
<1>12. CASE Subscribes \/ Asks \/ ReadsAgain \/ Responds \/ Leaves
  BY <1>1, <1>12 DEF Subscribes, Asks, ReadsAgain, Responds, Leaves, docVars, queueVars
<1>13. CASE UNCHANGED vars
  BY <1>1, <1>13 DEF vars, docVars, queueVars
<1>14. ASSUME NEW saved \in Earlier(vector), NEW entries \in Earlier(vector), Restarts(saved, entries)
       PROVE  Routing'
  <2>1. /\ \A u \in Updates : task'[u].step = "none"
        /\ \A d \in Docs : callback'[d] = None
        /\ \A q \in Queues : base'[q] = None /\ pending'[q] = {}
    BY <1>14 DEF Restarts, NoTask
  <2> QED
    BY <2>1 DEF RoutedCallbacks, RoutedTasks, OwnBase, OwnUpdates
<1> QED
  BY <1>2, <1>3, <1>4, <1>5, <1>6, <1>8, <1>9, <1>10, <1>11, <1>12, <1>13, <1>14 DEF Next

\* A task or a timer that is going to send what its queue holds.
Sees(u) == \/ task[u].step \in {"cancel", "store", "check", "send", "spawn"}
           \/ timer[u] \in {"sleep", "send"}
Carried == \A q \in Queues : pending[q] # {} => \E u \in Updates : task[u].queue = q /\ Sees(u)

LEMMA CarriedStep ==
  ASSUME TypeOK, Owned, Called, Fresh, Carried, [Next]_vars
  PROVE  Carried'
<1>1. ASSUME UNCHANGED <<task, timer, pending>> PROVE Carried'
  BY <1>1 DEF Carried, Sees
<1>2. ASSUME NEW d \in Docs, Dispatches(d) PROVE Carried'
  <2>1. <<d, vector[d]>> \in Updates
    BY <1>2 DEF Dispatches, Called, TypeOK, Vectors, Updates
  <2>2. PICK v \in Updates : v = <<d, vector[d]>>
    BY <2>1
  <2>3. task[v].queue = None
    BY <1>2, <2>2 DEF Dispatches, Fresh, Undispatched, Owned
  <2>4. UNCHANGED <<timer, pending>> /\ \A u \in Updates \ {v} : task'[u] = task[u]
    BY <1>2, <2>2 DEF Dispatches, TypeOK
  <2> QED
    BY <2>3, <2>4, EventsAssumption DEF Carried, Sees
<1>3. ASSUME NEW u \in Updates, TaskStep(u) PROVE Carried'
  <2> DEFINE q == task[u].queue
  <2>1. OnlyTask(u)
    BY <1>3, TaskFacts
  <2>2. CASE Gets(u)
    <3>1. task[u].queue = None /\ UNCHANGED <<timer, pending>>
      BY <2>2, Getting DEF Gets, Owned
    <3> QED
      BY <2>1, <3>1, EventsAssumption DEF Carried, Sees, OnlyTask
  <2>3. ASSUME ~Gets(u),
               \A v \in Updates \ {u} : timer'[v] = timer[v] \/ task[v].queue = q,
               \A r \in Queues \ {q} : pending'[r] = pending[r],
               pending'[q] = {} \/ Sees(u)' \/ (pending'[q] = pending[q] /\ (Sees(u) => Sees(u)') /\ UNCHANGED timer)
        PROVE  Carried'
    <3>1. task'[u].queue = q /\ q \in Queues
      BY <1>3, <2>3, TaskFacts DEF TaskStep, Cancels, Stores, Checks, SendsNow, MarksNow, Spawns, Keeps, At
    <3>2. ASSUME NEW r \in Queues \ {q}, pending'[r] # {}
          PROVE  \E v \in Updates : task'[v].queue = r /\ Sees(v)'
      <4>1. PICK v \in Updates : task[v].queue = r /\ Sees(v)
        BY <2>3, <3>2 DEF Carried
      <4> QED
        BY <2>1, <2>3, <4>1 DEF OnlyTask, Sees
    <3>3. ASSUME pending'[q] # {} PROVE \E v \in Updates : task'[v].queue = q /\ Sees(v)'
      <4>1. CASE Sees(u)'
        BY <3>1, <4>1
      <4>2. CASE pending[q] # {} /\ (Sees(u) => Sees(u)') /\ UNCHANGED timer
        <5>1. PICK v \in Updates : task[v].queue = q /\ Sees(v)
          BY <3>1, <4>2 DEF Carried
        <5> QED
          BY <2>1, <3>1, <4>2, <5>1 DEF OnlyTask, Sees
      <4> QED
        BY <2>3, <3>3, <4>1, <4>2
    <3> QED
      BY <3>1, <3>2, <3>3 DEF Carried
  <2>4. ASSUME NEW s \in TaskSteps, Goes(u, s) PROVE task'[u].step = s
    BY <2>4, Going
  <2>5. CASE Cancels(u)
    <3>1. ~Gets(u) /\ Sees(u)' /\ UNCHANGED pending
      BY <2>4, <2>5 DEF Cancels, Gets, At, Sees, TaskSteps
    <3>2. q \in Queues
      BY <2>5, Steps DEF Cancels, At
    <3>3. \A v \in Updates \ {u} : timer'[v] = timer[v] \/ task[v].queue = q
      BY <2>5, <3>2 DEF Cancels, Owned, TypeOK
    <3> QED
      BY <2>3, <3>1, <3>3
  <2>6. CASE Stores(u)
    <3>1. ~Gets(u) /\ Sees(u)' /\ UNCHANGED timer /\ \A r \in Queues \ {q} : pending'[r] = pending[r]
      BY <2>4, <2>6 DEF Stores, Gets, At, Sees, TaskSteps, TypeOK
    <3> QED
      BY <2>3, <3>1
  <2>7. CASE Checks(u)
    <3>1. ~Gets(u) /\ Sees(u)' /\ UNCHANGED <<timer, pending>>
      BY <2>4, <2>7 DEF Checks, Gets, At, Sees, TaskSteps
    <3> QED
      BY <2>3, <3>1
  <2>8. CASE SendsNow(u)
    <3>1. q \in Queues
      BY <2>8, Steps DEF SendsNow, At
    <3>2. ~Gets(u) /\ UNCHANGED timer /\ pending'[q] = {} /\ \A r \in Queues \ {q} : pending'[r] = pending[r]
      BY <2>8, <3>1 DEF SendsNow, Sends, Gets, At, TypeOK
    <3> QED
      BY <2>3, <3>2
  <2>9. CASE MarksNow(u)
    <3>1. ~Gets(u) /\ UNCHANGED <<timer, pending>> /\ (Sees(u) => Sees(u)')
      BY <2>9 DEF MarksNow, Marks, Gets, At, Sees
    <3> QED
      BY <2>3, <3>1
  <2>10. CASE Spawns(u)
    <3>1. ~Gets(u) /\ UNCHANGED pending /\ Sees(u)' /\ \A v \in Updates \ {u} : timer'[v] = timer[v]
      BY <2>10 DEF Spawns, Gets, At, Sees, TypeOK
    <3> QED
      BY <2>3, <3>1
  <2>11. CASE Keeps(u)
    <3>1. ~Gets(u) /\ UNCHANGED <<timer, pending>> /\ (Sees(u) => Sees(u)')
      BY <2>11 DEF Keeps, Gets, At, Sees
    <3> QED
      BY <2>3, <3>1
  <2> QED
    BY <1>3, <2>2, <2>5, <2>6, <2>7, <2>8, <2>9, <2>10, <2>11 DEF TaskStep
<1>4. ASSUME NEW u \in Updates, TimerStep(u) PROVE Carried'
  <2>1. UNCHANGED task /\ \A v \in Updates \ {u} : timer'[v] = timer[v]
    BY <1>4 DEF TimerStep, Wakes, SendsLater, MarksLater, Tick, TypeOK
  <2>2. CASE Wakes(u) \/ MarksLater(u)
    <3>1. UNCHANGED pending /\ (Sees(u) => Sees(u)')
      BY <2>2 DEF Wakes, MarksLater, Marks, Tick, Sees, TypeOK
    <3> QED
      BY <2>1, <3>1 DEF Carried, Sees
  <2>3. CASE SendsLater(u)
    <3>1. task[u].queue \in Queues
      BY <2>3, Steps DEF SendsLater, Tick, Owned
    <3>2. /\ pending'[task[u].queue] = {}
          /\ \A r \in Queues \ {task[u].queue} : pending'[r] = pending[r]
      BY <2>3, <3>1 DEF SendsLater, Sends, TypeOK
    <3> QED
      BY <2>1, <3>2 DEF Carried, Sees
  <2> QED
    BY <1>4, <2>2, <2>3 DEF TimerStep
<1>5. ASSUME NEW d \in Docs, Collects(d) \/ Changes(d) \/ WritesIndex(d) \/ Forgets(d) \/ Fetches(d)
      PROVE  Carried'
  BY <1>1, <1>5 DEF Collects, Changes, WritesIndex, Forgets, Fetches, queueVars
<1>6. ASSUME NEW d \in Docs, NEW routed \in BOOLEAN, Loads(d, routed) PROVE Carried'
  BY <1>1, <1>6 DEF Loads, queueVars
<1>7. ASSUME NEW q \in Queues, Passes(q) PROVE Carried'
  BY <1>1, <1>7 DEF Passes
<1>8. CASE Subscribes \/ Asks \/ ReadsAgain \/ Responds \/ Leaves
  BY <1>1, <1>8 DEF Subscribes, Asks, ReadsAgain, Responds, Leaves, queueVars
<1>9. CASE UNCHANGED vars
  BY <1>1, <1>9 DEF vars, queueVars
<1>10. ASSUME NEW saved \in Earlier(vector), NEW entries \in Earlier(vector), Restarts(saved, entries)
       PROVE  Carried'
  BY <1>10 DEF Restarts, Carried
<1> QED
  BY <1>2, <1>3, <1>4, <1>5, <1>6, <1>7, <1>8, <1>9, <1>10 DEF Next

-----------------------------------------------------------------------------
(* The client.                                                             *)
(*                                                                         *)
(* Once it has asked, an update that is in hand stays so until the client  *)
(* has it, or is misled about the document.  What was not in hand when it  *)
(* asked is in the index that it got, and what it lacks of that it fetches.*)

InHand(u) == \/ u \in have
             \/ callback[u[1]] # None /\ u[2] = vector[u[1]]
             \/ task[u].step \in {"get", "cancel", "store"}
             \/ \E q \in Queues : u \in pending[q]

Known == \A u \in have : u[2] <= vector[u[1]]

Caught ==
  /\ query # None \/ answered => subscribed
  /\ subscribed =>
       \A u \in Updates : u[1] \notin strays \cup misled /\ u[2] <= vector[u[1]] =>
         /\ query # None => u[2] <= query.answer[u[1]] \/ InHand(u)
         /\ answered => u[1] \in stale \/ InHand(u)

LEMMA Delivered ==
  ASSUME TypeOK, Routing, subscribed, NEW q \in Queues, Sends(q),
         answered \/ query # None, NEW v \in pending[q], v[1] \notin strays
  PROVE  v \in have' \/ v[1] \in misled'
<1>1. base[q] # None /\ base[q] \in Updates
  BY DEF TypeOK
<1>2. v[1] = q[1] /\ base[q][1] = q[1] /\ task[base[q]].step # "none"
  BY <1>1 DEF Routing, OwnUpdates, OwnBase
<1>3. task[base[q]].routed
  BY <1>1, <1>2 DEF Routing, RoutedTasks
<1> QED
  BY <1>1, <1>2, <1>3 DEF Sends, Reaches, Misses

LEMMA InHandStep ==
  ASSUME TypeOK, Owned, Called, Fresh, Routing, subscribed, answered \/ query # None, subscribed',
         [Next]_vars, NEW v \in Updates, v[1] \notin strays, InHand(v)
  PROVE  InHand(v)' \/ v[1] \in misled'
<1>1. ASSUME UNCHANGED <<vector, callback, task, pending>>, have \subseteq have' PROVE InHand(v)'
  BY <1>1 DEF InHand
<1>2. ASSUME NEW d \in Docs, Changes(d) PROVE InHand(v)'
  <2>1. /\ callback[d] = None /\ UNCHANGED <<task, pending, have>>
        /\ \A e \in Docs \ {d} : callback'[e] = callback[e] /\ vector'[e] = vector[e]
    BY <1>2 DEF Changes, TypeOK, Vectors, queueVars, clientVars
  <2> QED
    BY <2>1 DEF InHand, Updates
<1>3. ASSUME NEW d \in Docs, WritesIndex(d) PROVE InHand(v)'
  <2>1. callback[d] \in Callbacks
    BY <1>3 DEF WritesIndex, TypeOK
  <2>2. /\ \A e \in Docs \ {d} : callback'[e] = callback[e]
        /\ callback'[d] \in Callbacks
        /\ UNCHANGED <<vector, task, pending, have>>
    BY <1>3, <2>1 DEF WritesIndex, TypeOK, Callbacks, queueVars, clientVars
  <2>3. \A e \in Docs : callback[e] # None => callback'[e] # None
    BY <2>2, EventsAssumption
  <2> QED
    BY <2>2, <2>3 DEF InHand, Updates
<1>4. ASSUME NEW d \in Docs, Dispatches(d) PROVE InHand(v)'
  <2>1. /\ \A e \in Docs \ {d} : callback'[e] = callback[e]
        /\ UNCHANGED <<vector, pending, have>>
        /\ v # <<d, vector[d]>> => task'[v] = task[v]
        /\ v = <<d, vector[d]>> => task'[v].step = "get"
    BY <1>4 DEF Dispatches, TypeOK, clientVars
  <2>2. v[1] \in Docs /\ v = <<v[1], v[2]>>
    BY DEF Updates
  <2> QED
    BY <2>1, <2>2 DEF InHand
<1>5. ASSUME NEW u \in Updates, TaskStep(u) PROVE InHand(v)' \/ v[1] \in misled'
  <2> DEFINE q == task[u].queue
  <2>1. OnlyTask(u) /\ UNCHANGED <<vector, callback>>
    BY <1>5, TaskFacts DEF docVars
  <2>2. task[u].step # "get" => q \in Queues
    BY <1>5, TaskFacts
  <2>3. ASSUME NEW s \in TaskSteps, Goes(u, s) PROVE task'[u].step = s
    BY <2>3, Going
  <2>4. CASE Gets(u)
    BY <2>1, <2>4, Getting DEF Gets, InHand, OnlyTask, clientVars
  <2>5. CASE Cancels(u)
    <3>1. task'[u].step = "store" /\ UNCHANGED <<pending, have>>
      BY <2>3, <2>5 DEF Cancels, TaskSteps, clientVars
    <3> QED
      BY <2>1, <3>1 DEF InHand, OnlyTask
  <2>6. CASE Stores(u)
    <3>1. UNCHANGED have /\ u \in pending'[q] /\ \A r \in Queues : pending[r] \subseteq pending'[r]
      BY <2>2, <2>6 DEF Stores, At, Stored, TypeOK, clientVars
    <3> QED
      BY <2>1, <2>2, <2>6, <3>1 DEF InHand, OnlyTask, Stores, At
  <2>7. CASE SendsNow(u)
    <3>1. q \in Queues /\ Sends(q) /\ task[u].step = "send"
      BY <2>2, <2>7 DEF SendsNow, At
    <3>2. have \subseteq have' /\ \A r \in Queues \ {q} : pending'[r] = pending[r]
      BY <3>1 DEF Sends, TypeOK
    <3>3. v \in pending[q] => v \in have' \/ v[1] \in misled'
      BY <3>1, Delivered
    <3> QED
      BY <2>1, <3>1, <3>2, <3>3 DEF InHand, OnlyTask
  <2>8. CASE Checks(u) \/ MarksNow(u) \/ Spawns(u) \/ Keeps(u)
    <3>1. task[u].step \notin {"get", "cancel", "store"} /\ UNCHANGED <<pending, have>>
      BY <2>8 DEF Checks, MarksNow, Marks, Spawns, Keeps, At, clientVars
    <3> QED
      BY <2>1, <3>1 DEF InHand, OnlyTask
  <2> QED
    BY <1>5, <2>4, <2>5, <2>6, <2>7, <2>8 DEF TaskStep
<1>6. ASSUME NEW u \in Updates, TimerStep(u) PROVE InHand(v)' \/ v[1] \in misled'
  <2> DEFINE q == task[u].queue
  <2>1. CASE Wakes(u) \/ MarksLater(u)
    BY <1>1, <2>1 DEF Wakes, MarksLater, Marks, Tick, docVars, clientVars
  <2>2. CASE SendsLater(u)
    <3>1. q \in Queues /\ Sends(q) /\ UNCHANGED <<vector, callback, task>>
      BY <2>2, Steps DEF SendsLater, Sends, Tick, Owned, docVars
    <3>2. have \subseteq have' /\ \A r \in Queues \ {q} : pending'[r] = pending[r]
      BY <3>1 DEF Sends, TypeOK
    <3>3. v \in pending[q] => v \in have' \/ v[1] \in misled'
      BY <3>1, Delivered
    <3> QED
      BY <3>1, <3>2, <3>3 DEF InHand
  <2> QED
    BY <1>6, <2>1, <2>2 DEF TimerStep
<1>7. ASSUME NEW d \in Docs, Forgets(d) \/ Fetches(d) PROVE InHand(v)'
  BY <1>1, <1>7 DEF Forgets, Fetches, docVars, queueVars, clientVars
<1>12. ASSUME NEW d \in Docs, Collects(d) PROVE InHand(v)'
  <2>1. /\ callback[d] = None /\ \A e \in Docs \ {d} : vector'[e] = vector[e]
        /\ UNCHANGED <<callback, task, pending, have>>
    BY <1>12 DEF Collects, TypeOK, Vectors, queueVars
  <2> QED
    BY <2>1 DEF InHand, Updates
<1>13. ASSUME NEW saved \in Earlier(vector), NEW entries \in Earlier(vector)
       PROVE  ~Restarts(saved, entries)
  BY DEF Restarts
<1>8. ASSUME NEW d \in Docs, NEW routed \in BOOLEAN, Loads(d, routed) PROVE InHand(v)'
  BY <1>1, <1>8 DEF Loads, queueVars, clientVars
<1>9. ASSUME NEW q \in Queues, Passes(q) PROVE InHand(v)'
  BY <1>1, <1>9 DEF Passes, docVars, clientVars
<1>10. CASE Subscribes \/ Asks \/ ReadsAgain \/ Responds \/ Leaves
  BY <1>1, <1>10 DEF Subscribes, Asks, ReadsAgain, Responds, Leaves, docVars, queueVars, clientVars
<1>11. CASE UNCHANGED vars
  BY <1>1, <1>11 DEF vars, docVars, queueVars, clientVars
<1> QED
  BY <1>2, <1>3, <1>4, <1>5, <1>6, <1>7, <1>8, <1>9, <1>10, <1>11, <1>12, <1>13 DEF Next

\* Only a change and a compaction make updates: the one is in hand at once, of
\* the other the client is not told.
LEMMA MadeInHand ==
  ASSUME TypeOK, [Next]_vars, NEW v \in Updates, v[2] <= vector'[v[1]], ~(v[2] <= vector[v[1]])
  PROVE  /\ InHand(v)' \/ v[1] \in misled' \/ ~(answered \/ query # None)
         /\ UNCHANGED <<query, subscribed, answered, stale>>
<1>4. v[1] \in Docs /\ v[2] \in Nat
  BY DEF Updates
<1>5. ASSUME NEW saved \in Earlier(vector), NEW entries \in Earlier(vector)
      PROVE  ~Restarts(saved, entries)
  <2>1. saved[v[1]] \in Nat /\ vector[v[1]] \in Nat /\ saved[v[1]] <= vector[v[1]]
    BY <1>4 DEF Earlier, TypeOK, Vectors
  <2>. QED BY <1>4, <2>1 DEF Restarts
<1>6. PICK d \in Docs : Changes(d) \/ Collects(d)
  BY <1>5 DEF Next, vars, docVars, Loads, WritesIndex, Dispatches, Forgets, Fetches, TaskStep,
         TimerStep, Gets, Cancels, Stores, Checks, SendsNow, MarksNow, Spawns, Keeps, Wakes,
         SendsLater, MarksLater, Sends, Marks, Passes, Subscribes, Asks, ReadsAgain, Responds, Leaves
<1>7. CASE Collects(d)
  <2>1. \/ UNCHANGED vector
        \/ vector' = [vector EXCEPT ![d] = @ + 1] /\ Misses(d)
    BY <1>7 DEF Collects
  <2>2. v[1] = d /\ Misses(d)
    BY <2>1, <1>4 DEF TypeOK, Vectors
  <2> QED
    BY <1>7, <2>2 DEF Collects, Misses
<1> SUFFICES ASSUME Changes(d) PROVE InHand(v)' /\ UNCHANGED <<query, subscribed, answered, stale>>
  BY <1>6, <1>7
<1>1. Changes(d)
  OBVIOUS
<1>2. /\ vector'[d] = vector[d] + 1 /\ \A e \in Docs \ {d} : vector'[e] = vector[e]
      /\ callback'[d] \in Callbacks /\ vector[d] \in Nat
  BY <1>1 DEF Changes, MayChange, TypeOK, Vectors, Callbacks
<1>3. v[1] = d /\ v[2] = vector'[d]
  BY <1>2 DEF Updates
<1> QED
  BY <1>1, <1>2, <1>3, EventsAssumption DEF InHand, Changes, indexVars, clientVars

LEMMA KnownStep ==
  ASSUME TypeOK, TypeOK', Owned, OwnUpdates, Known, [Next]_vars
  PROVE  Known'
<1>1. \A u \in Updates : u[1] \in Docs /\ u[2] \in Nat
  BY DEF Updates
<1>2. ASSUME UNCHANGED vector, have' \subseteq have PROVE Known'
  BY <1>2 DEF Known
<1>3. ASSUME NEW q \in Queues, Sends(q) PROVE Known'
  <2>1. have' \subseteq have \cup pending[q] /\ UNCHANGED vector
    BY <1>3 DEF Sends, docVars
  <2> QED
    BY <2>1 DEF Known, OwnUpdates
<1>4. ASSUME NEW d \in Docs, Changes(d) PROVE Known'
  <2>1. UNCHANGED have /\ vector'[d] = vector[d] + 1 /\ \A e \in Docs \ {d} : vector'[e] = vector[e]
    BY <1>4 DEF Changes, MayChange, TypeOK, Vectors, clientVars
  <2> SUFFICES ASSUME NEW u \in have PROVE u[2] <= vector'[u[1]]
    BY <2>1 DEF Known
  <2>2. u[1] \in Docs /\ u[2] \in Nat /\ u[2] <= vector[u[1]] /\ vector[u[1]] \in Nat
    BY <1>1 DEF Known, TypeOK, Vectors
  <2> QED
    BY <2>1, <2>2
<1>5. ASSUME NEW d \in Docs, Fetches(d) PROVE Known'
  <2>1. UNCHANGED vector /\ have' = have \cup ({d} \X (1..vector[d]))
    BY <1>5 DEF Fetches, docVars
  <2>2. vector[d] \in Nat
    BY DEF TypeOK, Vectors
  <2>3. \A u \in {d} \X (1..vector[d]) : u[2] <= vector[u[1]]
    BY <2>2
  <2> QED
    BY <2>1, <2>3 DEF Known
<1>6. ASSUME NEW d \in Docs, NEW routed \in BOOLEAN, Loads(d, routed) PROVE Known'
  BY <1>2, <1>6 DEF Loads, clientVars
<1>12. ASSUME NEW d \in Docs, Collects(d) PROVE Known'
  <2>1. /\ UNCHANGED have
        /\ \A e \in Docs : vector[e] \in Nat /\ vector'[e] \in Nat /\ vector[e] <= vector'[e]
    BY <1>12 DEF Collects, TypeOK, Vectors
  <2> SUFFICES ASSUME NEW u \in have PROVE u[2] <= vector'[u[1]]
    BY <2>1 DEF Known
  <2>2. u[1] \in Docs /\ u[2] \in Nat /\ u[2] <= vector[u[1]]
    BY <1>1 DEF Known, TypeOK
  <2> QED
    BY <2>1, <2>2
<1>13. ASSUME NEW saved \in Earlier(vector), NEW entries \in Earlier(vector), Restarts(saved, entries)
       PROVE  Known'
  BY <1>13 DEF Restarts, Known
<1>7. ASSUME NEW d \in Docs, WritesIndex(d) \/ Dispatches(d) \/ Forgets(d) PROVE Known'
  BY <1>2, <1>7 DEF WritesIndex, Dispatches, Forgets, docVars, clientVars
<1>8. ASSUME NEW u \in Updates, TaskStep(u) PROVE Known'
  <2>1. CASE SendsNow(u)
    <3>1. task[u].queue \in Queues
      BY <2>1, Steps DEF SendsNow, At
    <3> QED
      BY <1>3, <2>1, <3>1 DEF SendsNow
  <2>2. CASE Gets(u) \/ Cancels(u) \/ Stores(u) \/ Checks(u) \/ MarksNow(u) \/ Spawns(u) \/ Keeps(u)
    BY <1>2, <2>2 DEF Gets, Cancels, Stores, Checks, MarksNow, Marks, Spawns, Keeps, docVars, clientVars
  <2> QED
    BY <1>8, <2>1, <2>2 DEF TaskStep
<1>9. ASSUME NEW u \in Updates, TimerStep(u) PROVE Known'
  <2>1. CASE SendsLater(u)
    <3>1. task[u].queue \in Queues
      BY <2>1, Steps DEF SendsLater, Tick, Owned
    <3> QED
      BY <1>3, <2>1, <3>1 DEF SendsLater
  <2>2. CASE Wakes(u) \/ MarksLater(u)
    BY <1>2, <2>2 DEF Wakes, MarksLater, Marks, docVars, clientVars
  <2> QED
    BY <1>9, <2>1, <2>2 DEF TimerStep
<1>10. ASSUME NEW q \in Queues, Passes(q) PROVE Known'
  BY <1>2, <1>10 DEF Passes, docVars, clientVars
<1>11. CASE Subscribes \/ Asks \/ ReadsAgain \/ Responds \/ Leaves \/ UNCHANGED vars
  BY <1>2, <1>11 DEF Subscribes, Asks, ReadsAgain, Responds, Leaves, vars, docVars, clientVars
<1> QED
  BY <1>4, <1>5, <1>6, <1>7, <1>8, <1>9, <1>10, <1>11, <1>12, <1>13 DEF Next

LEMMA CaughtStep ==
  ASSUME TypeOK, TypeOK', Owned, Called, Fresh, Routing, Entries, Caught, [Next]_vars
  PROVE  Caught'
<1>1. strays \subseteq strays'
  BY DEF Next, vars, docVars, Loads, Collects, Restarts, Changes, WritesIndex, Dispatches, Forgets,
         Fetches, TaskStep, TimerStep, Gets, Cancels, Stores, Checks, SendsNow, MarksNow, Spawns, Keeps, Wakes,
         SendsLater, MarksLater, Sends, Marks, Passes, Subscribes, Asks, ReadsAgain, Responds, Leaves
<1>2. ASSUME subscribed, answered \/ query # None, subscribed', NEW v \in Updates,
             v[1] \notin strays' \cup misled', InHand(v)
      PROVE  InHand(v)'
  BY <1>1, <1>2, InHandStep
<1>3. ASSUME UNCHANGED <<query, subscribed, answered>>, misled \subseteq misled',
             stale \subseteq stale'
      PROVE  Caught'
  <2> SUFFICES ASSUME subscribed', NEW u \in Updates, u[1] \notin strays' \cup misled',
                      u[2] <= vector'[u[1]]
               PROVE  /\ query' # None => u[2] <= query'.answer[u[1]] \/ InHand(u)'
                      /\ answered' => u[1] \in stale' \/ InHand(u)'
    BY <1>3 DEF Caught
  <2>1. CASE u[2] <= vector[u[1]]
    BY <1>1, <1>2, <1>3, <2>1 DEF Caught
  <2>2. CASE ~(u[2] <= vector[u[1]])
    BY <2>2, MadeInHand
  <2> QED
    BY <2>1, <2>2
<1>4. ASSUME NEW d \in Docs, NEW routed \in BOOLEAN, Loads(d, routed) PROVE Caught'
  BY <1>3, <1>4 DEF Loads, indexVars, clientVars
<1>5. ASSUME NEW d \in Docs, Collects(d) \/ Changes(d) \/ WritesIndex(d) \/ Dispatches(d) \/ Forgets(d)
      PROVE  Caught'
  BY <1>3, <1>5 DEF Collects, Misses, Changes, WritesIndex, Dispatches, Forgets, indexVars, clientVars
<1>16. ASSUME NEW saved \in Earlier(vector), NEW entries \in Earlier(vector), Restarts(saved, entries)
       PROVE  Caught'
  BY <1>16 DEF Restarts, Caught
<1>6. ASSUME NEW u \in Updates, TaskStep(u) PROVE Caught'
  BY <1>3, <1>6, TaskFacts DEF indexVars
<1>7. ASSUME NEW u \in Updates, TimerStep(u) PROVE Caught'
  BY <1>3, <1>7 DEF TimerStep, Wakes, SendsLater, MarksLater, Sends, Misses, Marks, indexVars, clientVars
<1>8. ASSUME NEW q \in Queues, Passes(q) PROVE Caught'
  BY <1>3, <1>8 DEF Passes, indexVars, clientVars
<1>9. ASSUME NEW d \in Docs, Fetches(d) PROVE Caught'
  <2>1. /\ UNCHANGED <<vector, strays, query, subscribed, answered, misled>>
        /\ stale \subseteq stale' \cup {d}
    BY <1>9 DEF Fetches, docVars, indexVars
  <2>2. ASSUME NEW u \in Updates, u[1] = d, u[2] <= vector[d] PROVE InHand(u)'
    <3>1. u[2] \in 1..vector[d] /\ u = <<d, u[2]>>
      BY <2>2 DEF Updates, TypeOK, Vectors
    <3> QED
      BY <1>9, <3>1 DEF Fetches, InHand
  <2>3. query' # None \/ answered' => subscribed'
    BY <2>1 DEF Caught
  <2>4. ASSUME subscribed', NEW u \in Updates, u[1] \notin strays' \cup misled', u[2] <= vector'[u[1]]
        PROVE  /\ query' # None => u[2] <= query'.answer[u[1]] \/ InHand(u)'
               /\ answered' => u[1] \in stale' \/ InHand(u)'
    <3>1. InHand(u) /\ (answered \/ query # None) => InHand(u)'
      BY <1>2, <2>1, <2>4
    <3>2. /\ query # None => u[2] <= query.answer[u[1]] \/ InHand(u)
          /\ answered => u[1] \in stale \/ InHand(u)
      BY <2>1, <2>4 DEF Caught
    <3> QED
      BY <2>1, <2>2, <2>4, <3>1, <3>2
  <2> QED
    BY <2>3, <2>4 DEF Caught
<1>10. CASE Subscribes
  <2>1. query' = None /\ ~answered' /\ subscribed'
    BY <1>10 DEF Subscribes, indexVars, Caught
  <2> QED
    BY <2>1 DEF Caught
<1>11. CASE Asks
  <2>1. /\ subscribed
        /\ query' # None => query'.answer = index
        /\ misled' = outdated /\ query = None /\ ~answered'
        /\ UNCHANGED <<vector, callback, strays, have, task, pending, subscribed, stale>>
    BY <1>11 DEF Asks, docVars, queueVars
  <2>2. \A u \in Updates : InHand(u) => InHand(u)'
    BY <2>1 DEF InHand
  <2>3. ASSUME NEW u \in Updates, u[1] \notin strays' \cup misled', u[2] <= vector[u[1]], ~(u[2] <= index[u[1]])
        PROVE  InHand(u)
    <3>1. u[1] \in Docs \ (strays \cup outdated) /\ u[2] \in Nat /\ vector[u[1]] \in Nat /\ index[u[1]] \in Nat
      BY <2>1, <2>3 DEF Updates, TypeOK, Vectors
    <3>2. Lagging(u[1]) /\ u[2] = vector[u[1]]
      BY <2>3, <3>1 DEF Entries
    <3> QED
      BY <3>2 DEF Lagging, InHand
  <2>4. ASSUME NEW u \in Updates, u[1] \notin strays' \cup misled', u[2] <= vector'[u[1]]
        PROVE  /\ query' # None => u[2] <= query'.answer[u[1]] \/ InHand(u)'
               /\ answered' => u[1] \in stale' \/ InHand(u)'
    <3>1. InHand(u) => InHand(u)'
      BY <2>2
    <3>2. u[2] <= index[u[1]] \/ InHand(u)
      BY <2>1, <2>3, <2>4
    <3> QED
      BY <2>1, <3>1, <3>2
  <2> QED
    BY <2>1, <2>4 DEF Caught
<1>12. CASE ReadsAgain
  <2>1. /\ query # None /\ query'.answer = query.answer
        /\ UNCHANGED <<vector, strays, misled, subscribed, answered, stale>>
    BY <1>12 DEF ReadsAgain, TypeOK, Lookups, docVars, clientVars
  <2> QED
    BY <1>2, <2>1 DEF Caught
<1>13. CASE Responds
  <2>1. /\ query # None /\ query' = None /\ subscribed
        /\ UNCHANGED <<vector, strays, have, misled, subscribed>>
    BY <1>13 DEF Responds, Caught, docVars
  <2>2. CASE UNCHANGED <<answered, stale>>
    BY <1>2, <2>1, <2>2 DEF Caught
  <2>3. CASE stale' = stale \cup {d \in Docs : Differs(query.answer, d)}
    <3>1. ASSUME NEW u \in Updates, u[2] <= query.answer[u[1]], u[1] \notin stale' PROVE u \in have
      <4>1. u[1] \in Docs /\ u[2] \in Nat \ {0} /\ query.answer[u[1]] \in Nat /\ u = <<u[1], u[2]>>
        BY <2>1 DEF Updates, TypeOK, Lookups, Vectors
      <4>2. Has(u[1]) = {u[1]} \X (1..query.answer[u[1]])
        BY <2>3, <3>1, <4>1 DEF Differs
      <4> QED
        BY <3>1, <4>1, <4>2 DEF Has
    <3>2. ASSUME NEW u \in Updates, u[1] \notin strays' \cup misled', u[2] <= vector'[u[1]]
          PROVE  u[1] \in stale' \/ InHand(u)'
      <4>1. u[2] <= query.answer[u[1]] \/ InHand(u)
        BY <2>1, <3>2 DEF Caught
      <4>2. u \in have => InHand(u)
        BY DEF InHand
      <4> QED
        BY <1>2, <2>1, <3>1, <3>2, <4>1, <4>2
    <3> QED
      BY <2>1, <3>2 DEF Caught
  <2> QED
    BY <1>13, <2>2, <2>3 DEF Responds
<1>14. CASE Leaves
  BY <1>14 DEF Leaves, Caught, indexVars
<1>15. CASE UNCHANGED vars
  BY <1>3, <1>15 DEF vars, indexVars, clientVars
<1> QED
  BY <1>4, <1>5, <1>6, <1>7, <1>8, <1>9, <1>10, <1>11, <1>12, <1>13, <1>14, <1>15, <1>16 DEF Next

LEMMA DeliveryInvariant == Spec => [](Routing /\ Carried /\ Known /\ Caught)
<1>1. Init => Routing /\ Carried /\ Known /\ Caught
  BY DEF Init, NoTask, Routing, RoutedCallbacks, RoutedTasks, OwnBase, OwnUpdates, Carried, Known, Caught
<1>2. TypeOK /\ TypeOK' /\ Owned /\ Called /\ Fresh /\ Entries /\ Routing /\ Carried /\ Known /\ Caught
      /\ [Next]_vars => (Routing /\ Carried /\ Known /\ Caught)'
  BY RoutingStep, CarriedStep, KnownStep, CaughtStep DEF Routing
<1> QED
  BY <1>1, <1>2, Types, IndexInvariant, PTL DEF Spec

(* A client that has subscribed and then got the index has, once all is    *)
(* quiet, every update of every subdocument, but for those whose entry was *)
(* outdated when it asked, or whose event a full channel has dropped or a  *)
(* compaction has not made: no update falls between the index and the      *)
(* events, none is lost with a timer that is aborted or a queue that is    *)
(* dropped.                                                                *)
THEOREM ClientsCatchUp == Spec => []CaughtUp
<1>1. TypeOK /\ Called /\ Carried /\ Known /\ Caught => CaughtUp
  <2> SUFFICES ASSUME TypeOK, Carried, Known, Caught, Settled, query = None, stale = {}, subscribed,
                      answered, NEW d \in Docs \ (strays \cup misled)
               PROVE  Has(d) = {d} \X (1..vector[d])
    BY DEF CaughtUp
  <2>1. \A q \in Queues : pending[q] = {}
    BY DEF Settled, Ended, Carried, Sees
  <2>2. \A u \in Updates : InHand(u) => u \in have
    BY <2>1 DEF InHand, Settled, Ended, Updates
  <2>5. d \in Docs /\ vector[d] \in 0..MaxUpdates
    BY DEF TypeOK, Vectors
  <2>3. ASSUME NEW n \in 1..vector[d] PROVE <<d, n>> \in have
    <3>1. <<d, n>> \in Updates /\ n <= vector[d]
      BY <2>5, EventsAssumption DEF Updates
    <3> QED
      BY <2>2, <3>1 DEF Caught
  <2>4. ASSUME NEW u \in have, u[1] = d PROVE u \in {d} \X (1..vector[d])
    <3>1. u \in Updates /\ u[2] <= vector[d]
      BY <2>4 DEF TypeOK, Known
    <3> QED
      BY <2>4, <3>1 DEF Updates, TypeOK, Vectors
  <2> QED
    BY <2>3, <2>4 DEF Has
<1> QED
  BY <1>1, Types, DeliveryInvariant, PTL
=============================================================================
