----------------------------- MODULE Connections -----------------------------
(***************************************************************************)
(* The WebSocket connections of one document: y-sweet-core's               *)
(* doc_connection.rs, sync/mod.rs and sync/awareness.rs, and handle_socket *)
(* of relay/src/server.rs.                                                 *)
(*                                                                         *)
(* A connection subscribes to the document under the awareness write lock  *)
(* and sends its side of the handshake.  Messages of a client are handled  *)
(* one by one; what a transaction or a change of presence produces goes to *)
(* the outgoing channel of every subscribed connection, and is dropped     *)
(* where that channel is full.  A connection that ends takes the presence  *)
(* with it that it has seen first.                                         *)
(*                                                                         *)
(* The document is the set of the changes in it: merging is union.  The    *)
(* changes that client c makes are <<c, 1>>, <<c, 2>>, ...; <<c, 0>> is    *)
(* the entry of c in the "users" map, made by the server.  A presence is   *)
(* known by the clock with which its client has set it.  The clients are   *)
(* external: they follow the Yjs protocols as the server's half expects.   *)
(***************************************************************************)
EXTENDS Naturals, Sequences, SequencesExt, FiniteSets, FiniteSetsExt

CONSTANTS Clients,
          None,
          Capacity,    \* of the outgoing channel
          MaxConns,    \* bound: connections in a behaviour
          MaxEdits,    \* bound: changes of one client
          MaxClock,    \* bound: times that a client sets its presence
          MaxOps       \* bound: what clients do, read-only connections, restarts

Items == Clients \X (0..MaxEdits)
Conns == 1..MaxConns

ASSUME ConnectionsAssumption ==
  /\ None \notin Clients /\ None \notin Nat /\ IsFiniteSet(Clients)
  /\ Capacity \in Nat \ {0, 1} /\ MaxConns \in Nat /\ MaxEdits \in Nat
  /\ MaxClock \in Nat /\ MaxOps \in Nat

VARIABLES
  doc, saved,     \* the server's document, and the store's
  states, clocks, \* Awareness: states (None, the text "null" as 0, or the clock
                  \* of the setting), meta
  conn,           \* the connections
  inbox, outbox,  \* messages on their way to the server, and from it
  reply,          \* the answer that send() is about to hand to the channel
  have,           \* clients: the document
  clock,          \* clients: the clock of the own presence
  at,             \* clients: the connection, or 0
  used, ops       \* counters for the bounds

serverVars == <<doc, saved, states, clocks>>
wireVars   == <<conn, inbox, outbox, reply>>
clientVars == <<have, clock, at>>
vars == <<serverVars, wireVars, clientVars, used, ops>>

Sync(kind, items) == [kind |-> kind, items |-> items, states |-> <<>>]
Aware(s)          == [kind |-> "aware", items |-> {}, states |-> s]
Close             == [kind |-> "close", items |-> {}, states |-> <<>>]

Presences == [state : {None} \cup Nat, clock : Nat]
IsMessage(m) ==
  /\ m.kind \in {"step1", "step2", "update", "aware", "close"}
  /\ m.items \subseteq Items
  /\ DOMAIN m.states \subseteq Clients /\ \A c \in DOMAIN m.states : m.states[c] \in Presences

Phases == {"unused", "open", "ending", "dropped"}

TypeOK ==
  /\ saved \subseteq Items /\ doc \subseteq Items
  /\ states \in [Clients -> {None} \cup Nat] /\ clocks \in [Clients -> Nat]
  /\ conn \in [Conns -> [phase : Phases, client : Clients \cup {None}, id : Clients \cup {None},
                          writes : BOOLEAN, lossy : BOOLEAN, cut : BOOLEAN]]
  /\ \A k \in Conns : /\ Len(outbox[k]) <= Capacity
                      /\ \A i \in DOMAIN outbox[k] : IsMessage(outbox[k][i])
                      /\ \A i \in DOMAIN inbox[k] : IsMessage(inbox[k][i])
                      /\ Len(reply[k]) <= 1
  /\ have \in [Clients -> SUBSET Items] /\ clock \in [Clients -> Nat \ {0}]
  /\ at \in [Clients -> Conns \cup {0}]
  /\ used \in 0..MaxConns /\ ops \in 0..MaxOps

Unused == [phase |-> "unused", client |-> None, id |-> None, writes |-> TRUE,
           lossy |-> FALSE, cut |-> FALSE]

Init ==
  /\ doc = {} /\ saved = {}
  /\ states = [c \in Clients |-> None] /\ clocks = [c \in Clients |-> 0]
  /\ conn = [k \in Conns |-> Unused]
  /\ inbox = [k \in Conns |-> <<>>] /\ outbox = [k \in Conns |-> <<>>]
  /\ reply = [k \in Conns |-> <<>>]
  /\ have = [c \in Clients |-> {}] /\ clock = [c \in Clients |-> 1]
  /\ at = [c \in Clients |-> 0]
  /\ used = 0 /\ ops = 0

-----------------------------------------------------------------------------
(* The outgoing channels.  Nobody reads the channel of a client that left. *)

Live(k)  == conn[k].phase = "open" /\ conn[k].client # None
Reads(k) == conn[k].client # None /\ at[conn[k].client] = k

\* Mutant: the channel takes whatever comes.
Fits_Always(k, msgs) == msgs

Fits(k, msgs) == SubSeq(msgs, 1, Min({Len(msgs), Capacity - Len(outbox[k])}))

\* try_send of each message, for each of some connections.
Sends(ks, msgs) ==
  LET reading == {k \in ks : Reads(k)}
  IN  /\ outbox' = [k \in Conns |-> IF k \in reading THEN outbox[k] \o Fits(k, msgs) ELSE outbox[k]]
      /\ conn' = [k \in Conns |->
                   IF k \in reading /\ Len(outbox[k]) + Len(msgs) > Capacity
                   THEN [conn[k] EXCEPT !.lossy = TRUE] ELSE conn[k]]

Subscribed == {k \in Conns : conn[k].phase = "open"}

-----------------------------------------------------------------------------
(* Awareness. *)

Entry(c) == [state |-> states[c], clock |-> clocks[c]]

\* Awareness::update
Everyone == [c \in {d \in Clients : states[d] # None} |-> Entry(c)]

\* Awareness::apply_update, for one entry; 0 is the text "null".  The server
\* has no presence of its own among the clients'.
IsNew(c, e) == clocks[c] < e.clock
Removed(c, e) == clocks[c] = e.clock /\ e.state = 0 /\ states[c] # None
Vacant(c) == clocks[c] = 0

\* Mutant: the clock of an entry is not looked at.
Accepts_Any(c, e) == TRUE

Accepts(c, e) == Vacant(c) \/ IsNew(c, e) \/ Removed(c, e)

Applied(c, e) == IF e.state = 0 /\ ~Vacant(c) THEN None ELSE e.state

\* What update_with_clients makes of a client: a state that is gone is "null".
Told(s, n) == [state |-> IF s = None THEN 0 ELSE s, clock |-> n]

\* Mutant: the id that came last and alone.
Latched_Last(k, m) ==
  IF Cardinality(DOMAIN m.states) # 1 THEN conn[k].id ELSE CHOOSE c \in DOMAIN m.states : TRUE

\* The id that the connection's end will remove: the first one that came alone.
Latched(k, m) ==
  IF conn[k].id # None \/ Cardinality(DOMAIN m.states) # 1 THEN conn[k].id
  ELSE CHOOSE c \in DOMAIN m.states : TRUE

-----------------------------------------------------------------------------
(* The server. *)

\* DocConnection::new_inner, under the awareness write lock.  The client sends
\* its own half of the handshake meanwhile.
Opens(c, writes) ==
  LET k == used + 1
  IN  /\ used < MaxConns /\ used' = k
      /\ ops' = IF writes THEN ops ELSE ops + 1
      /\ ops' <= MaxOps
      /\ at[c] = 0 /\ at' = [at EXCEPT ![c] = k]
      /\ outbox' = [outbox EXCEPT ![k] = <<Sync("step1", doc), Aware(Everyone)>>]
      /\ inbox' = [inbox EXCEPT ![k] = <<Sync("step1", have[c]),
                    Aware([d \in {c} |-> [state |-> clock[c], clock |-> clock[c]]])>>]
      /\ conn' = [conn EXCEPT ![k] = [Unused EXCEPT !.phase = "open", !.client = c, !.writes = writes]]
      /\ UNCHANGED <<serverVars, reply, have, clock>>

Handles(k, kinds) ==
  /\ conn[k].phase = "open" /\ reply[k] = <<>>
  /\ inbox[k] # <<>> /\ Head(inbox[k]).kind \in kinds
  /\ inbox' = [inbox EXCEPT ![k] = Tail(@)]

\* SyncStep1: the missing part is computed under the read lock, and handed to
\* the channel after it.
Answers(k) ==
  /\ Handles(k, {"step1"})
  /\ reply' = [reply EXCEPT ![k] = <<Sync("step2", doc \ Head(inbox[k]).items)>>]
  /\ UNCHANGED <<serverVars, conn, outbox, clientVars, used, ops>>

Replies(k) ==
  /\ reply[k] # <<>> /\ Sends({k}, reply[k])
  /\ reply' = [reply EXCEPT ![k] = <<>>]
  /\ UNCHANGED <<serverVars, inbox, clientVars, used, ops>>

\* Who is new in the state vector, and in no entry of "users" yet.
Authors(items)     == {x[1] : x \in items}
Registered(before, after) == {c \in Authors(after) \ Authors(before) : <<c, 0>> \notin after}

(* SyncStep2 and Update: one transaction, then one for each client id that *)
(* is registered, all under the write lock; each is an update of its own.  *)
Updates(new, ids) == <<Sync("update", new)>>
                     \o [i \in 1..Cardinality(ids) |-> Sync("update", {<<SetToSeq(ids)[i], 0>>})]

\* Mutant: what a client brings in the handshake is not passed on.
Applies_Quietly(k) ==
  LET m == Head(inbox[k])
  IN  /\ Handles(k, {"step2", "update"})
      /\ doc' = IF conn[k].writes THEN doc \cup m.items ELSE doc
      /\ IF m.kind = "update" THEN Sends(Subscribed, <<Sync("update", m.items)>>)
         ELSE UNCHANGED <<conn, outbox>>
      /\ UNCHANGED <<saved, states, clocks, reply, clientVars, used, ops>>

Applies(k) ==
  LET m   == Head(inbox[k])
      new == IF conn[k].writes THEN m.items \ doc ELSE {}
      ids == Registered(doc, doc \cup new)
  IN  /\ Handles(k, {"step2", "update"})
      /\ doc' = doc \cup new \cup (ids \X {0})
      /\ IF new = {} THEN UNCHANGED <<conn, outbox>> ELSE Sends(Subscribed, Updates(new, ids))
      /\ UNCHANGED <<saved, states, clocks, reply, clientVars, used, ops>>

\* Awareness: every subscriber is told what changed.
Hears(k) ==
  LET m       == Head(inbox[k])
      changed == {c \in DOMAIN m.states : Accepts(c, m.states[c])}
      After(c) == IF c \in changed THEN Applied(c, m.states[c]) ELSE states[c]
  IN  /\ Handles(k, {"aware"})
      /\ states' = [c \in Clients |-> After(c)]
      /\ clocks' = [c \in Clients |-> IF c \in changed THEN m.states[c].clock ELSE clocks[c]]
      /\ LET told == Aware([c \in changed |-> Told(After(c), m.states[c].clock)])
             to   == IF changed = {} THEN {} ELSE {j \in Subscribed : Reads(j)}
         IN  /\ outbox' = [j \in Conns |-> IF j \in to THEN outbox[j] \o Fits(j, <<told>>) ELSE outbox[j]]
             /\ conn' = [j \in Conns |->
                  [conn[j] EXCEPT !.id = IF j = k THEN Latched(k, m) ELSE @,
                                  !.lossy = @ \/ (j \in to /\ Len(outbox[j]) = Capacity)]]
      /\ UNCHANGED <<doc, saved, reply, clientVars, used, ops>>

\* The loop of handle_socket is left.
Ends(k) ==
  /\ inbox' = [inbox EXCEPT ![k] = <<>>]
  /\ conn' = [conn EXCEPT ![k].phase = "ending"]
  /\ UNCHANGED <<serverVars, outbox, reply, clientVars, used>>

Closes(k) ==
  /\ conn[k].phase = "open" /\ reply[k] = <<>> /\ inbox[k] # <<>>
  /\ Head(inbox[k]).kind = "close"
  /\ Ends(k) /\ UNCHANGED ops

\* Drop of the connection, with Awareness::remove_state under the write lock.
Drops(k) ==
  LET c == conn[k].id
      others == {j \in Subscribed : Reads(j)}
      told == <<Aware([d \in {c} |-> [state |-> 0, clock |-> clocks[d] + 1]])>>
  IN  /\ conn[k].phase = "ending"
      /\ states' = IF c = None THEN states ELSE [states EXCEPT ![c] = None]
      /\ clocks' = IF c = None THEN clocks ELSE [clocks EXCEPT ![c] = @ + 1]
      /\ LET to == IF c = None THEN {} ELSE IF states[c] = None THEN {} ELSE others
         IN  /\ outbox' = [j \in Conns |-> IF j \in to THEN outbox[j] \o Fits(j, told) ELSE outbox[j]]
             /\ conn' = [j \in Conns |->
                  [conn[j] EXCEPT !.phase = IF j = k THEN "dropped" ELSE @,
                                  !.lossy = @ \/ (j \in to /\ Len(outbox[j]) = Capacity)]]
      /\ UNCHANGED <<doc, saved, inbox, reply, clientVars, used, ops>>

\* The persistence worker; of no matter when no restart is to come.
Saves ==
  /\ saved # doc /\ ops < MaxOps /\ saved' = doc
  /\ UNCHANGED <<doc, states, clocks, wireVars, clientVars, used, ops>>

Operates == ops < MaxOps /\ ops' = ops + 1

\* Any message after the token has expired ends the connection.
Expires(k) ==
  /\ Operates
  /\ conn[k].phase = "open" /\ inbox[k] # <<>> /\ reply[k] = <<>>
  /\ Ends(k)

\* The server ends and starts again.
Restarts ==
  /\ Operates
  /\ doc' = saved /\ UNCHANGED saved
  /\ states' = [c \in Clients |-> None] /\ clocks' = [c \in Clients |-> 0]
  /\ conn' = [k \in Conns |-> [conn[k] EXCEPT !.phase = IF k <= used THEN "dropped" ELSE @]]
  /\ inbox' = [k \in Conns |-> <<>>] /\ outbox' = [k \in Conns |-> <<>>]
  /\ reply' = [k \in Conns |-> <<>>]
  /\ at' = [c \in Clients |-> 0]
  /\ UNCHANGED <<have, clock, used>>

-----------------------------------------------------------------------------
(* The clients. *)

\* What a client sends while it has a connection.
Posts(c, msgs) ==
  inbox' = IF at[c] = 0 \/ conn[at[c]].phase # "open" THEN inbox
           ELSE [inbox EXCEPT ![at[c]] = @ \o msgs]

Edits(c) ==
  LET n == Cardinality({x \in have[c] : x[1] = c /\ x[2] > 0}) + 1
  IN  /\ Operates /\ n <= MaxEdits
      /\ have' = [have EXCEPT ![c] = @ \cup {<<c, n>>}]
      /\ Posts(c, <<Sync("update", {<<c, n>>})>>)
      /\ UNCHANGED <<serverVars, conn, outbox, reply, clock, at, used>>

Sets(c) ==
  /\ Operates /\ clock[c] < MaxClock
  /\ clock' = [clock EXCEPT ![c] = @ + 1]
  /\ Posts(c, <<Aware([d \in {c} |-> [state |-> clock[c] + 1, clock |-> clock[c] + 1]])>>)
  /\ UNCHANGED <<serverVars, conn, outbox, reply, have, at, used>>

\* What a client sends back of the presences it is told; who is told that it
\* has gone itself says that it has not.
Returns(c, m) ==
  LET others == DOMAIN m.states \ {c}
      echo   == IF others = {} THEN <<>> ELSE <<Aware([d \in others |-> m.states[d]])>>
      own    == c \in DOMAIN m.states /\ m.states[c].state = 0 /\ m.states[c].clock >= clock[c]
  IN  /\ clock' = IF own THEN [clock EXCEPT ![c] = m.states[c].clock + 1] ELSE clock
      /\ Posts(c, echo \o IF own
                THEN <<Aware([d \in {c} |-> [state |-> m.states[c].clock + 1,
                                              clock |-> m.states[c].clock + 1]])>> ELSE <<>>)

Receives(c) ==
  LET k == at[c]
      m == Head(outbox[k])
      lacking == have[c] \ m.items
  IN  /\ k # 0 /\ outbox[k] # <<>>
      /\ outbox' = [outbox EXCEPT ![k] = Tail(@)]
      /\ have' = IF m.kind \in {"step2", "update"} THEN [have EXCEPT ![c] = @ \cup m.items] ELSE have
      /\ CASE m.kind = "step1" -> /\ Posts(c, IF lacking = {} THEN <<>> ELSE <<Sync("step2", lacking)>>)
                                  /\ UNCHANGED clock
           [] m.kind = "aware" -> Returns(c, m)
           [] OTHER -> UNCHANGED <<inbox, clock>>
      /\ UNCHANGED <<serverVars, conn, reply, at, used, ops>>

Leaves(c) ==
  /\ Operates /\ at[c] # 0
  /\ Posts(c, <<Close>>)
  /\ at' = [at EXCEPT ![c] = 0]
  /\ outbox' = [outbox EXCEPT ![at[c]] = <<>>]
  /\ UNCHANGED <<serverVars, conn, reply, have, clock, used>>

\* The server has ended the connection.
Learns(c) ==
  /\ at[c] # 0 /\ conn[at[c]].phase \in {"ending", "dropped"} /\ outbox[at[c]] = <<>>
  /\ at' = [at EXCEPT ![c] = 0]
  /\ UNCHANGED <<serverVars, wireVars, have, clock, used, ops>>

\* The connection breaks without a Close frame: the stream yields an error,
\* which is skipped, and then ends, which handle_socket's select ignores.
IsCut(c) ==
  /\ Operates /\ at[c] # 0
  /\ at' = [at EXCEPT ![c] = 0]
  /\ outbox' = [outbox EXCEPT ![at[c]] = <<>>]
  /\ conn' = [conn EXCEPT ![at[c]].cut = TRUE]
  /\ UNCHANGED <<serverVars, inbox, reply, have, clock, used>>

ServerStep(k) == Answers(k) \/ Replies(k) \/ Applies(k) \/ Hears(k) \/ Closes(k) \/ Drops(k)

Next ==
  \/ \E k \in Conns : ServerStep(k) \/ Expires(k)
  \/ \E c \in Clients :
       \/ \E writes \in BOOLEAN : Opens(c, writes)
       \/ Edits(c) \/ Sets(c) \/ Receives(c) \/ Leaves(c) \/ Learns(c) \/ IsCut(c)
  \/ Saves \/ Restarts

Spec == Init /\ [][Next]_vars

-----------------------------------------------------------------------------
(* Properties. *)

Quiet == \A k \in Conns : /\ conn[k].phase # "ending"
                          /\ conn[k].phase = "open" => inbox[k] = <<>> /\ reply[k] = <<>>
                          /\ Reads(k) => outbox[k] = <<>>

Served(c) == at[c] # 0 /\ ~conn[at[c]].lossy /\ conn[at[c]].phase = "open"

(* With nothing on its way, a client whose connection lost no message has  *)
(* the server's document, and the server has everything of a client that   *)
(* may write: whatever was changed between the halves of the handshake,    *)
(* missed on a former connection, or lost in a restart.                    *)
Converged ==
  Quiet => \A c \in Clients : Served(c) =>
    /\ doc \subseteq have[c]
    /\ conn[at[c]].writes => have[c] \subseteq doc

(* Then, too, the presence of a connected client is the last one that it   *)
(* set, unless its clock has not passed the one that its removal has left; *)
(* and nobody is present who is gone, unless the connection was cut.       *)
Hidden(c) == states[c] = None /\ clocks[c] >= clock[c]

PresenceTrue ==
  Quiet => \A c \in Clients :
    /\ Served(c) => states[c] = clock[c] \/ Hidden(c)
    /\ at[c] = 0 /\ states[c] \notin {None, 0} =>
         \E k \in Conns : conn[k].phase = "open" /\ conn[k].cut /\ conn[k].client = c

=============================================================================
