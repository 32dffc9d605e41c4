----------------------------- MODULE Supervision -----------------------------
(***************************************************************************)
(* What brings the relay down when it no longer works, so that its         *)
(* container starts it again: relay/src/supervisor.rs, which restarts a    *)
(* worker that panics and gives up after too many panics, and              *)
(* Server::persistence_watchdog, which stops a server that cannot save.    *)
(*                                                                         *)
(* Time goes in ticks of one checkpoint interval.  Within a tick, the      *)
(* persistence worker of each loaded document looks once at its document,  *)
(* before the watchdog or after it, and edits come whenever they like.     *)
(***************************************************************************)
EXTENDS Integers, Sequences

CONSTANTS Workers, Docs, None,
          Budget, Window,  \* PANIC_BUDGET, PANIC_WINDOW
          PreExit,         \* WORKER_PRE_EXIT_DELAY
          Grace, Period,   \* the watchdog's first sleep, and that of its loop
          Stale,           \* ten minutes without a successful persist
          MaxClock,        \* bound: ticks
          MaxPanics        \* bound: panics of a worker in one life of the process

ASSUME SupervisionAssumption ==
  /\ Budget \in Nat /\ Budget > 1 /\ Window \in Nat /\ PreExit \in Nat
  /\ Grace \in Nat /\ Period \in Nat \ {0} /\ Stale \in Nat \ {0} /\ Grace <= Stale
  /\ MaxClock \in Nat /\ MaxPanics \in Nat
  /\ None \notin Nat

VARIABLES
  now,
  count, first,  \* supervise: panic_count and first_panic_at of each worker
  panics,        \* WorkerStatusMap: when each worker panicked
  exit,          \* workers whose budget is spent, and when the process exits for it
  loaded,        \* documents with a persistence worker
  unsaved, save,   \* SyncKv's flag; whether a persist waits for the store
  due,           \* documents whose worker has yet to look in this tick
  failing,       \* history: since when a document fails to save in every tick
  lastDirty, lastPersist,
  check,         \* when the watchdog looks next
  cancelled      \* the cancellation token

supervisor == <<count, first, panics, exit>>
documents  == <<loaded, unsaved, save, due, failing, lastDirty, lastPersist>>
processVars == <<now, supervisor, documents, check, cancelled>>

Times == 0..MaxClock

\* The timestamp 0, which is 1970: longer ago than anything that counts.
Never == -(Stale + 1)

ProcessTypeOK ==
  /\ now \in Times
  /\ count \in [Workers -> 0..Budget] /\ first \in [Workers -> Times]
  /\ panics \in [Workers -> Seq(Times)]
  /\ exit \in [Workers -> Nat \cup {None}]
  /\ \A w \in Workers : (exit[w] = None) = (count[w] < Budget)
  /\ loaded \subseteq Docs
  /\ unsaved \in [Docs -> BOOLEAN] /\ save \in [Docs -> BOOLEAN]
  /\ due \subseteq loaded /\ \A d \in Docs : unsaved[d] \/ save[d] => d \in loaded
  /\ failing \in [Docs -> Times \cup {None}]
  /\ lastDirty \in Times \cup {Never} /\ lastPersist \in Times \cup {Never}
  /\ check \in Nat /\ cancelled \in BOOLEAN

\* A process that starts, as new(), startup and the spawned tasks leave it.
ProcessInit ==
  /\ now = 0
  /\ count = [w \in Workers |-> 0] /\ first = [w \in Workers |-> 0]
  /\ panics = [w \in Workers |-> <<>>] /\ exit = [w \in Workers |-> None]
  /\ loaded = {} /\ due = {}
  /\ unsaved = [d \in Docs |-> FALSE] /\ save = [d \in Docs |-> FALSE]
  /\ failing = [d \in Docs |-> None]
  /\ lastDirty = Never /\ lastPersist = Never
  /\ check = Grace + Period /\ cancelled = FALSE

-----------------------------------------------------------------------------
(* Supervised workers. *)

\* Mutant: the window starts anew with every panic.
NewWindow_Slides(w) ==
  [n |-> IF count[w] = 0 \/ now - first[w] > Window THEN 1 ELSE count[w] + 1, from |-> now]

\* The window that a panic counts in.
NewWindow(w) ==
  IF count[w] = 0 \/ now - first[w] > Window THEN [n |-> 1, from |-> now]
  ELSE [n |-> count[w] + 1, from |-> first[w]]

\* The worker panics and is restarted, or its budget is spent.
Panics(w) ==
  /\ exit[w] = None /\ Len(panics[w]) < MaxPanics
  /\ count' = [count EXCEPT ![w] = NewWindow(w).n]
  /\ first' = [first EXCEPT ![w] = NewWindow(w).from]
  /\ panics' = [panics EXCEPT ![w] = Append(@, now)]
  /\ exit' = [exit EXCEPT ![w] = IF count'[w] >= Budget THEN now + PreExit ELSE None]
  /\ UNCHANGED <<now, documents, check, cancelled>>

-----------------------------------------------------------------------------
(* Documents. *)

\* load_doc, which persists by itself, and GC of a document that is saved.
Loads(d) ==
  /\ d \notin loaded /\ ~cancelled /\ loaded' = loaded \cup {d}
  /\ UNCHANGED <<now, supervisor, unsaved, save, due, failing, lastDirty, lastPersist, check, cancelled>>

Collects(d) ==
  /\ d \in loaded /\ ~unsaved[d] /\ ~save[d]
  /\ loaded' = loaded \ {d} /\ due' = due \ {d} /\ failing' = [failing EXCEPT ![d] = None]
  /\ UNCHANGED <<now, supervisor, unsaved, save, lastDirty, lastPersist, check, cancelled>>

\* mark_dirty, with the callback of load_doc.
Edits(d) ==
  /\ d \in loaded /\ unsaved' = [unsaved EXCEPT ![d] = TRUE] /\ lastDirty' = now
  /\ UNCHANGED <<now, supervisor, loaded, save, due, failing, lastPersist, check, cancelled>>

\* The worker looks: a document that is clean counts as saved.
Persists(d) ==
  /\ d \in due /\ ~save[d] /\ due' = due \ {d}
  /\ unsaved' = [unsaved EXCEPT ![d] = FALSE] /\ save' = [save EXCEPT ![d] = unsaved[d]]
  /\ IF unsaved[d] THEN UNCHANGED <<failing, lastPersist>>
     ELSE failing' = [failing EXCEPT ![d] = None] /\ lastPersist' = now
  /\ UNCHANGED <<now, supervisor, loaded, lastDirty, check, cancelled>>

SaveOk(d) ==
  /\ save[d] /\ save' = [save EXCEPT ![d] = FALSE]
  /\ lastPersist' = now /\ failing' = [failing EXCEPT ![d] = None]
  /\ UNCHANGED <<now, supervisor, loaded, unsaved, due, lastDirty, check, cancelled>>

\* Mutant: the flag goes up again, and nobody is told.
SaveFails_Silent(d) ==
  /\ save[d] /\ save' = [save EXCEPT ![d] = FALSE] /\ unsaved' = [unsaved EXCEPT ![d] = TRUE]
  /\ failing' = [failing EXCEPT ![d] = IF @ = None THEN now ELSE @]
  /\ UNCHANGED <<now, supervisor, loaded, due, lastDirty, lastPersist, check, cancelled>>

SaveFails(d) ==
  /\ save[d] /\ save' = [save EXCEPT ![d] = FALSE]
  /\ unsaved' = [unsaved EXCEPT ![d] = TRUE] /\ lastDirty' = now
  /\ failing' = [failing EXCEPT ![d] = IF @ = None THEN now ELSE @]
  /\ UNCHANGED <<now, supervisor, loaded, due, lastPersist, check, cancelled>>

-----------------------------------------------------------------------------
(* The watchdog and the end of the process. *)

Watches ==
  /\ now = check /\ ~cancelled /\ check' = now + Period
  /\ cancelled' = (lastDirty > lastPersist /\ now - lastPersist > Stale)
  /\ UNCHANGED <<now, supervisor, documents>>

\* SIGTERM.
Signal == ~cancelled /\ cancelled' = TRUE /\ UNCHANGED <<now, supervisor, documents, check>>

MustExit == \E w \in Workers : exit[w] # None /\ (exit[w] = now \/ cancelled)

\* The process exits, and its container starts it again.
Restarts ==
  /\ cancelled \/ MustExit
  /\ count' = [w \in Workers |-> 0] /\ first' = [w \in Workers |-> now]
  /\ panics' = [w \in Workers |-> <<>>] /\ exit' = [w \in Workers |-> None]
  /\ loaded' = {} /\ due' = {}
  /\ unsaved' = [d \in Docs |-> FALSE] /\ save' = [d \in Docs |-> FALSE]
  /\ failing' = [d \in Docs |-> None]
  /\ lastDirty' = Never /\ lastPersist' = Never
  /\ check' = now + Grace + Period /\ cancelled' = FALSE
  /\ now' = now

\* Nobody is late; a call to the store may take many ticks.
Tick ==
  /\ now < MaxClock /\ now' = now + 1
  /\ \A d \in due : save[d]
  /\ ~MustExit /\ (check > now \/ cancelled)
  /\ due' = loaded
  /\ failing' = [d \in Docs |-> IF save[d] THEN None ELSE failing[d]]
  /\ UNCHANGED <<supervisor, loaded, unsaved, save, lastDirty, lastPersist, check, cancelled>>

DocStep(d) == Loads(d) \/ Collects(d) \/ Edits(d) \/ Persists(d) \/ SaveOk(d) \/ SaveFails(d)

ProcessNext ==
  \/ \E w \in Workers : Panics(w)
  \/ \E d \in Docs : DocStep(d)
  \/ Watches \/ Signal \/ Restarts \/ Tick

ProcessSpec == ProcessInit /\ [][ProcessNext]_processVars

-----------------------------------------------------------------------------
(* Properties. *)

\* The panics number i to j of a worker are within one window.
Burst(w, i, j) == panics[w][j] - panics[w][i] <= Window

(* A worker's budget is spent by a burst, never by panics spread over time. *)
SpentByBurst(w) ==
  exit[w] # None =>
    /\ Len(panics[w]) >= Budget
    /\ Burst(w, Len(panics[w]) - Budget + 1, Len(panics[w]))

(* No burst goes on for long: the windows of the supervisor do not overlap, *)
(* and a burst over two of them has almost twice the budget.                *)
BurstsEnd(w) ==
  exit[w] = None =>
    \A i \in DOMAIN panics[w] :
      i + 2 * (Budget - 1) \in DOMAIN panics[w] => ~Burst(w, i, i + 2 * (Budget - 1))

(* The supervisor tells a worker that is broken from one that has a bad    *)
(* moment now and then.                                                    *)
BudgetKept == \A w \in Workers : SpentByBurst(w) /\ BurstsEnd(w)

(* A server with a document that fails to save, and no other that saves,   *)
(* is on its way down after ten minutes and one more look of the watchdog, *)
(* however edits, saves and looks fall in between.                         *)
StallsAreNoticed ==
  \A d \in Docs :
    failing[d] # None /\ now - failing[d] > Stale + Period /\ now - lastPersist > Stale + Period
    => cancelled
=============================================================================
