--------------------------- MODULE ConnectionsProofs ---------------------------
(***************************************************************************)
(* Type correctness of Connections, that clients and server converge, and  *)
(* that the presences are true, for any number of clients, connections and *)
(* changes, and any capacity of the outgoing channels that has room for    *)
(* the greeting.                                                           *)
(***************************************************************************)
EXTENDS Connections, FiniteSetTheorems, SequenceTheorems, TLAPS

-----------------------------------------------------------------------------
(* Messages in channels: what is told apart is which messages there are.   *)

Kinds    == {"step1", "step2", "update", "aware", "close"}
Messages == [kind : Kinds, items : SUBSET Items, states : UNION {[D -> Presences] : D \in SUBSET Clients}]

LEMMA Joined ==
  ASSUME NEW S, NEW s \in Seq(S), NEW t \in Seq(S)
  PROVE  s \o t \in Seq(S) /\ ToSet(s \o t) = ToSet(s) \cup ToSet(t)
<1>1. /\ s \o t \in Seq(S) /\ Len(s \o t) = Len(s) + Len(t)
      /\ \A i \in 1..Len(s) : (s \o t)[i] = s[i]
      /\ \A i \in 1..Len(t) : (s \o t)[Len(s) + i] = t[i]
  OBVIOUS
<1>2. ToSet(s \o t) \subseteq ToSet(s) \cup ToSet(t)
  <2> SUFFICES ASSUME NEW i \in 1..(Len(s) + Len(t)) PROVE (s \o t)[i] \in ToSet(s) \cup ToSet(t)
    BY <1>1 DEF ToSet
  <2>1. CASE i <= Len(s)
    BY <1>1, <2>1 DEF ToSet
  <2>2. CASE i > Len(s)
    <3>1. i - Len(s) \in 1..Len(t) /\ i = Len(s) + (i - Len(s))
      BY <2>2
    <3> QED
      BY <1>1, <3>1 DEF ToSet
  <2> QED
    BY <2>1, <2>2
<1>3. ToSet(s) \subseteq ToSet(s \o t)
  BY <1>1 DEF ToSet
<1>4. ASSUME NEW i \in 1..Len(t) PROVE t[i] \in ToSet(s \o t)
  <2>1. Len(s) + i \in 1..Len(s \o t)
    BY <1>1
  <2> QED
    BY <1>1, <2>1 DEF ToSet
<1>5. ToSet(t) \subseteq ToSet(s \o t)
  <2>1. DOMAIN t = 1..Len(t)
    OBVIOUS
  <2>2. ASSUME NEW x \in ToSet(t) PROVE \E i \in 1..Len(t) : t[i] = x
    BY <2>1, <2>2 DEF ToSet
  <2> QED
    BY <1>4, <2>2
<1> QED
  BY <1>1, <1>2, <1>3, <1>5

LEMMA Taken ==
  ASSUME NEW S, NEW s \in Seq(S), s # <<>>
  PROVE  /\ Head(s) \in S /\ Tail(s) \in Seq(S) /\ Head(s) \in ToSet(s) /\ Len(Tail(s)) = Len(s) - 1
         /\ ToSet(s) = {Head(s)} \cup ToSet(Tail(s))
<1> DEFINE t == Tail(s)
           h == Head(s)
<1>1. /\ h \in S /\ t \in Seq(S) /\ Len(t) = Len(s) - 1 /\ h = s[1] /\ Len(s) \in Nat \ {0}
      /\ \A i \in 1..Len(t) : t[i] = s[i + 1]
  OBVIOUS
<1> HIDE DEF t, h
<1>2. DOMAIN t = 1..(Len(s) - 1) /\ DOMAIN s = 1..Len(s)
  BY <1>1
<1>3. \A i \in DOMAIN s : i # 1 => i - 1 \in DOMAIN t /\ s[i] = t[i - 1]
  BY <1>1, <1>2
<1>4. \A i \in DOMAIN t : i + 1 \in DOMAIN s /\ t[i] = s[i + 1]
  BY <1>1, <1>2
<1>5. h \in ToSet(s)
  BY <1>1, <1>2 DEF ToSet
<1>6. ToSet(s) \subseteq {h} \cup ToSet(t)
  BY <1>1, <1>3 DEF ToSet
<1>7. ToSet(t) \subseteq ToSet(s)
  BY <1>4 DEF ToSet
<1>8. ToSet(s) = {h} \cup ToSet(t)
  BY <1>5, <1>6, <1>7
<1> QED
  BY <1>1, <1>5, <1>8 DEF t, h

LEMMA Shown ==
  ASSUME NEW S, NEW s \in Seq(S)
  PROVE  /\ ToSet(s) \subseteq S /\ Len(s) \in Nat /\ DOMAIN s = 1..Len(s)
         /\ \A i \in DOMAIN s : s[i] \in ToSet(s)
         /\ s = <<>> <=> ToSet(s) = {}
BY DEF ToSet

LEMMA Singles ==
  ASSUME NEW S, NEW a \in S
  PROVE  <<a>> \in Seq(S) /\ ToSet(<<a>>) = {a} /\ Len(<<a>>) = 1
BY DEF ToSet

LEMMA Nothing == ASSUME NEW S PROVE <<>> \in Seq(S) /\ ToSet(<<>>) = {} /\ Len(<<>>) = 0
BY DEF ToSet

LEMMA Least ==
  ASSUME NEW a \in Nat, NEW b \in Nat
  PROVE  /\ Min({a, b}) \in Nat /\ Min({a, b}) <= a /\ Min({a, b}) <= b
         /\ a <= b => Min({a, b}) = a
<1>1. PICK x \in {a, b} : \A y \in {a, b} : x <= y
  BY \A p, q \in Nat : p <= q \/ q <= p
<1>2. Min({a, b}) \in {a, b} /\ \A y \in {a, b} : Min({a, b}) <= y
  BY <1>1 DEF Min
<1> HIDE DEF Min
<1> QED
  BY <1>2

\* What is put into a channel: all of it, unless the connection is lossy now.
LEMMA Fitting ==
  ASSUME NEW msgs \in Seq(Messages), NEW k \in Conns, outbox[k] \in Seq(Messages),
         Len(outbox[k]) <= Capacity
  PROVE  /\ Fits(k, msgs) \in Seq(Messages) /\ ToSet(Fits(k, msgs)) \subseteq ToSet(msgs)
         /\ Len(outbox[k] \o Fits(k, msgs)) <= Capacity
         /\ Len(outbox[k]) + Len(msgs) <= Capacity => Fits(k, msgs) = msgs
<1>0. Capacity - Len(outbox[k]) \in Nat
  BY ConnectionsAssumption
<1>1. PICK room \in Nat : room = Capacity - Len(outbox[k])
  BY <1>0
<1>2. PICK n : n = Min({Len(msgs), room})
  OBVIOUS
<1>3. n \in Nat /\ n <= Len(msgs) /\ n <= room /\ (Len(msgs) <= room => n = Len(msgs))
  BY <1>2, Least
<1>4. PICK t : t = SubSeq(msgs, 1, n)
  OBVIOUS
<1>5. /\ t \in Seq(Messages) /\ Len(t) = n /\ DOMAIN t = 1..n
      /\ \A i \in 1..n : t[i] = msgs[i]
  BY <1>3, <1>4
<1>6. ToSet(t) \subseteq ToSet(msgs)
  BY <1>3, <1>5 DEF ToSet
<1>7. Len(outbox[k] \o t) <= Capacity
  <2>1. Len(outbox[k] \o t) = Len(outbox[k]) + n
    BY <1>5, ConcatProperties
  <2> QED
    BY <1>1, <1>3, <2>1, ConnectionsAssumption
<1>8. ASSUME Len(outbox[k]) + Len(msgs) <= Capacity PROVE t = msgs
  <2>1. n = Len(msgs)
    BY <1>1, <1>3, <1>8, ConnectionsAssumption
  <2> QED
    BY <1>5, <2>1
<1> QED
  BY <1>1, <1>2, <1>4, <1>5, <1>6, <1>7, <1>8 DEF Fits

-----------------------------------------------------------------------------
(* Types.                                                                  *)

ConnTypes ==
  conn \in [Conns -> [phase : Phases, client : Clients \cup {None}, id : Clients \cup {None},
                      writes : BOOLEAN, lossy : BOOLEAN, cut : BOOLEAN]]

Channels ==
  /\ inbox \in [Conns -> Seq(Messages)] /\ outbox \in [Conns -> Seq(Messages)]
  /\ reply \in [Conns -> Seq(Messages)]
  /\ \A k \in Conns : Len(outbox[k]) <= Capacity /\ Len(reply[k]) <= 1

OwnTypes ==
  /\ have \in [Clients -> SUBSET Items] /\ clock \in [Clients -> Nat \ {0}]
  /\ at \in [Clients -> Conns \cup {0}]
  /\ used \in 0..MaxConns /\ ops \in 0..MaxOps

ServerTypes ==
  /\ saved \subseteq Items /\ doc \subseteq Items
  /\ states \in [Clients -> {None} \cup Nat] /\ clocks \in [Clients -> Nat]

Typed == ConnTypes /\ Channels /\ OwnTypes /\ ServerTypes

LEMMA SyncTyped ==
  ASSUME NEW kind \in Kinds, NEW items \in SUBSET Items
  PROVE  Sync(kind, items) \in Messages /\ Sync(kind, items).kind = kind
         /\ Sync(kind, items).items = items
<1>1. <<>> = [d \in {} |-> 0]
  OBVIOUS
<1>2. [d \in {} |-> 0] \in [{} -> Presences]
  OBVIOUS
<1> QED
  BY <1>1, <1>2 DEF Sync, Messages

LEMMA AwareTyped ==
  ASSUME NEW D \in SUBSET Clients, NEW s \in [D -> Presences]
  PROVE  Aware(s) \in Messages /\ Aware(s).kind = "aware" /\ Aware(s).items = {} /\ Aware(s).states = s
BY DEF Aware, Messages, Kinds

LEMMA CloseTyped == Close \in Messages /\ Close.kind = "close" /\ Close.items = {}
<1>1. <<>> = [d \in {} |-> 0]
  OBVIOUS
<1>2. [d \in {} |-> 0] \in [{} -> Presences]
  OBVIOUS
<1> QED
  BY <1>1, <1>2 DEF Close, Messages, Kinds

LEMMA MessageParts ==
  ASSUME NEW m \in Messages
  PROVE  /\ m.kind \in Kinds /\ m.items \subseteq Items
         /\ DOMAIN m.states \subseteq Clients
         /\ \A c \in DOMAIN m.states : m.states[c] \in Presences
         /\ IsMessage(m)
<1>1. PICK D \in SUBSET Clients : m.states \in [D -> Presences]
  BY DEF Messages
<1> QED
  BY <1>1 DEF Messages, IsMessage, Kinds

LEMMA TypedIsTypeOK == Typed => TypeOK
<1> SUFFICES ASSUME Typed PROVE TypeOK
  OBVIOUS
<1>1. ASSUME NEW k \in Conns
      PROVE  /\ Len(outbox[k]) <= Capacity
             /\ \A i \in DOMAIN outbox[k] : IsMessage(outbox[k][i])
             /\ \A i \in DOMAIN inbox[k] : IsMessage(inbox[k][i])
             /\ Len(reply[k]) <= 1
  <2>1. outbox[k] \in Seq(Messages) /\ inbox[k] \in Seq(Messages)
    BY DEF Typed, Channels
  <2>2. \A i \in DOMAIN outbox[k] : outbox[k][i] \in Messages
    BY <2>1
  <2>3. \A i \in DOMAIN inbox[k] : inbox[k][i] \in Messages
    BY <2>1
  <2> QED
    BY <2>2, <2>3, MessageParts DEF Typed, Channels
<1> QED
  BY <1>1 DEF Typed, ConnTypes, OwnTypes, ServerTypes, TypeOK

\* What a broadcast does to the outgoing channels.
Given(to, msgs) ==
  outbox' = [j \in Conns |-> IF j \in to THEN outbox[j] \o Fits(j, msgs) ELSE outbox[j]]

LEMMA Giving ==
  ASSUME Typed, NEW to, NEW msgs \in Seq(Messages), Given(to, msgs)
  PROVE  /\ outbox' \in [Conns -> Seq(Messages)]
         /\ \A j \in Conns :
              /\ Len(outbox'[j]) <= Capacity
              /\ ToSet(outbox[j]) \subseteq ToSet(outbox'[j])
              /\ ToSet(outbox'[j]) \subseteq ToSet(outbox[j]) \cup ToSet(msgs)
              /\ j \in to /\ Len(outbox[j]) + Len(msgs) <= Capacity =>
                   ToSet(msgs) \subseteq ToSet(outbox'[j])
<1>1. ASSUME NEW j \in Conns
      PROVE  /\ outbox'[j] \in Seq(Messages) /\ Len(outbox'[j]) <= Capacity
             /\ ToSet(outbox[j]) \subseteq ToSet(outbox'[j])
             /\ ToSet(outbox'[j]) \subseteq ToSet(outbox[j]) \cup ToSet(msgs)
             /\ j \in to /\ Len(outbox[j]) + Len(msgs) <= Capacity =>
                  ToSet(msgs) \subseteq ToSet(outbox'[j])
  <2>1. outbox[j] \in Seq(Messages) /\ Len(outbox[j]) <= Capacity
    BY DEF Typed, Channels
  <2>2. CASE j \in to
    <3>1. outbox'[j] = outbox[j] \o Fits(j, msgs)
      BY <2>2 DEF Given
    <3>2. Fits(j, msgs) \in Seq(Messages) /\ ToSet(Fits(j, msgs)) \subseteq ToSet(msgs)
          /\ Len(outbox[j] \o Fits(j, msgs)) <= Capacity
          /\ (Len(outbox[j]) + Len(msgs) <= Capacity => Fits(j, msgs) = msgs)
      BY <2>1, Fitting
    <3>3. /\ outbox[j] \o Fits(j, msgs) \in Seq(Messages)
          /\ ToSet(outbox[j] \o Fits(j, msgs)) = ToSet(outbox[j]) \cup ToSet(Fits(j, msgs))
      BY <2>1, <3>2, Joined
    <3> QED
      BY <3>1, <3>2, <3>3
  <2>3. CASE j \notin to
    <3>1. outbox'[j] = outbox[j]
      BY <2>3 DEF Given
    <3> QED
      BY <2>1, <2>3, <3>1
  <2> QED
    BY <2>2, <2>3
<1>2. outbox' = [j \in Conns |-> outbox'[j]]
  BY DEF Given
<1> QED
  BY <1>1, <1>2

LEMMA Sending ==
  ASSUME Typed, NEW ks, NEW msgs \in Seq(Messages), Sends(ks, msgs)
  PROVE  /\ Given({k \in ks : Reads(k)}, msgs) /\ ConnTypes'
         /\ \A j \in Conns :
              /\ conn'[j] = [conn[j] EXCEPT !.lossy = conn'[j].lossy]
              /\ conn[j].lossy => conn'[j].lossy
              /\ j \in ks /\ Reads(j) /\ ~conn'[j].lossy => Len(outbox[j]) + Len(msgs) <= Capacity
<1> DEFINE reading == {k \in ks : Reads(k)}
           drops(k) == k \in reading /\ Len(outbox[k]) + Len(msgs) > Capacity
<1>1. Given(reading, msgs)
  BY DEF Sends, Given
<1>2. conn' = [k \in Conns |-> IF drops(k) THEN [conn[k] EXCEPT !.lossy = TRUE] ELSE conn[k]]
  BY DEF Sends
<1>3. \A j \in Conns : Len(outbox[j]) \in Nat /\ Len(msgs) \in Nat /\ Capacity \in Nat
  BY ConnectionsAssumption DEF Typed, Channels
<1>4. \A j \in Conns :
         /\ conn'[j] = [conn[j] EXCEPT !.lossy = conn'[j].lossy]
         /\ conn[j].lossy => conn'[j].lossy
         /\ drops(j) => conn'[j].lossy
  <2> HIDE DEF drops
  <2> QED
    BY <1>2 DEF Typed, ConnTypes
<1>5. ConnTypes'
  <2> HIDE DEF drops
  <2> QED
    BY <1>2 DEF Typed, ConnTypes
<1> QED
  BY <1>1, <1>3, <1>4, <1>5

LEMMA Posting ==
  ASSUME Typed, NEW c \in Clients, NEW msgs \in Seq(Messages), Posts(c, msgs)
  PROVE  /\ inbox' \in [Conns -> Seq(Messages)]
         /\ \A k \in Conns : /\ k # at[c] => inbox'[k] = inbox[k]
                             /\ ToSet(inbox[k]) \subseteq ToSet(inbox'[k])
                             /\ ToSet(inbox'[k]) \subseteq ToSet(inbox[k]) \cup ToSet(msgs)
         /\ at[c] # 0 /\ conn[at[c]].phase = "open" =>
              ToSet(inbox'[at[c]]) = ToSet(inbox[at[c]]) \cup ToSet(msgs)
<1>1. CASE at[c] = 0 \/ conn[at[c]].phase # "open"
  BY <1>1 DEF Posts, Typed, Channels
<1>2. CASE ~(at[c] = 0 \/ conn[at[c]].phase # "open")
  <2>1. inbox' = [inbox EXCEPT ![at[c]] = inbox[at[c]] \o msgs] /\ at[c] \in Conns
    BY <1>2 DEF Posts, Typed, OwnTypes
  <2>2. /\ inbox[at[c]] \o msgs \in Seq(Messages)
        /\ ToSet(inbox[at[c]] \o msgs) = ToSet(inbox[at[c]]) \cup ToSet(msgs)
    BY <2>1, Joined DEF Typed, Channels
  <2> QED
    BY <2>1, <2>2 DEF Typed, Channels
<1> QED
  BY <1>1, <1>2

LEMMA Enumerated ==
  ASSUME NEW S, IsFiniteSet(S)
  PROVE  /\ Cardinality(S) \in Nat /\ SetToSeq(S) \in [1..Cardinality(S) -> S]
         /\ \A x \in S : \E i \in 1..Cardinality(S) : SetToSeq(S)[i] = x
<1>1. PICK n \in Nat : n = Cardinality(S) /\ IsFiniteSet(1..n) /\ Cardinality(1..n) = n
  BY FS_CardinalityType, FS_Interval
<1>2. Bijection(1..n, S) # {}
  BY <1>1, FS_CardinalityType DEF ExistsBijection
<1>3. \E f \in [1..n -> S] : IsInjective(f)
  BY <1>2 DEF Bijection, Injection
<1>4. SetToSeq(S) \in [1..n -> S] /\ IsInjective(SetToSeq(S))
  BY <1>1, <1>3 DEF SetToSeq
<1>5. SetToSeq(S) \in Injection(1..n, S)
  BY <1>4 DEF Injection
<1>6. SetToSeq(S) \in Surjection(1..n, S)
  BY <1>1, <1>5, FS_Injection
<1> QED
  BY <1>1, <1>4, <1>6 DEF Surjection

\* What Applies sends: all that is new, and all that it has registered.
LEMMA Updating ==
  ASSUME NEW new \in SUBSET Items, NEW ids \in SUBSET Clients
  PROVE  /\ Updates(new, ids) \in Seq(Messages)
         /\ \A m \in ToSet(Updates(new, ids)) : m.kind = "update" /\ m.items \subseteq new \cup (ids \X {0})
         /\ \A x \in new \cup (ids \X {0}) : \E m \in ToSet(Updates(new, ids)) : x \in m.items
<1> DEFINE n == Cardinality(ids)
           f == SetToSeq(ids)
           one == Sync("update", new)
           each(i) == Sync("update", {<<f[i], 0>>})
           rest == [i \in 1..n |-> each(i)]
<1>1. n \in Nat /\ f \in [1..n -> ids] /\ \A x \in ids : \E i \in 1..n : f[i] = x
  BY Enumerated, FS_Subset, ConnectionsAssumption
<1>2. one \in Messages /\ one.kind = "update" /\ one.items = new
  BY SyncTyped DEF Kinds
<1>3. ASSUME NEW i \in 1..n
      PROVE  each(i) \in Messages /\ each(i).kind = "update" /\ each(i).items = {<<f[i], 0>>}
  <2>1. {<<f[i], 0>>} \in SUBSET Items
    BY <1>1, <1>3, ConnectionsAssumption DEF Items
  <2> QED
    BY <2>1, SyncTyped DEF Kinds
<1> HIDE DEF f, each, one, n
<1>4. rest \in Seq(Messages)
  BY <1>1, <1>3
<1>5. ToSet(rest) = {each(i) : i \in 1..n}
  BY DEF ToSet
<1>6. Updates(new, ids) = <<one>> \o rest
  BY DEF Updates, one, rest, each, f, n
<1> HIDE DEF rest
<1>7. <<one>> \in Seq(Messages) /\ ToSet(<<one>>) = {one}
  BY <1>2, Singles
<1>8. Updates(new, ids) \in Seq(Messages) /\ ToSet(Updates(new, ids)) = {one} \cup {each(i) : i \in 1..n}
  <2>1. PICK first : first = <<one>>
    OBVIOUS
  <2>2. first \in Seq(Messages) /\ ToSet(first) = {one} /\ Updates(new, ids) = first \o rest
    BY <1>6, <1>7, <2>1
  <2>3. first \o rest \in Seq(Messages) /\ ToSet(first \o rest) = ToSet(first) \cup ToSet(rest)
    BY <1>4, <2>2, Joined
  <2> QED
    BY <1>5, <2>2, <2>3
<1>9. \A m \in ToSet(Updates(new, ids)) : m.kind = "update" /\ m.items \subseteq new \cup (ids \X {0})
  BY <1>1, <1>2, <1>3, <1>8
<1>10. ASSUME NEW x \in new \cup (ids \X {0}) PROVE \E m \in ToSet(Updates(new, ids)) : x \in m.items
  <2>1. CASE x \in new
    BY <1>2, <1>8, <2>1
  <2>2. CASE x \in ids \X {0}
    <3>1. PICK i \in 1..n : <<f[i], 0>> = x
      BY <1>1, <2>2
    <3> QED
      BY <1>3, <1>8, <3>1
  <2> QED
    BY <2>1, <2>2
<1> QED
  BY <1>8, <1>9, <1>10

-----------------------------------------------------------------------------
(* What the actions do, in terms of the messages in the channels.          *)

Data(m) == m.kind \in {"step2", "update"}

\* The message that is handled is gone; what is left was there before.
LEMMA Handling ==
  ASSUME Typed, NEW k \in Conns, NEW kinds, Handles(k, kinds)
  PROVE  /\ Head(inbox[k]) \in Messages /\ Head(inbox[k]).kind \in kinds /\ reply[k] = <<>>
         /\ conn[k].phase = "open" /\ inbox' \in [Conns -> Seq(Messages)]
         /\ \A j \in Conns \ {k} : inbox'[j] = inbox[j]
         /\ ToSet(inbox[k]) = {Head(inbox[k])} \cup ToSet(inbox'[k])
<1>1. inbox[k] \in Seq(Messages) /\ inbox[k] # <<>>
  BY DEF Typed, Channels, Handles
<1>2. /\ Head(inbox[k]) \in Messages /\ Tail(inbox[k]) \in Seq(Messages)
      /\ ToSet(inbox[k]) = {Head(inbox[k])} \cup ToSet(Tail(inbox[k]))
  BY <1>1, Taken
<1>3. inbox' = [inbox EXCEPT ![k] = Tail(inbox[k])]
  BY DEF Handles
<1>4. inbox' \in [Conns -> Seq(Messages)] /\ inbox'[k] = Tail(inbox[k])
      /\ \A j \in Conns \ {k} : inbox'[j] = inbox[j]
  BY <1>2, <1>3 DEF Typed, Channels
<1> QED
  BY <1>2, <1>4 DEF Handles

LEMMA EntryTyped == ASSUME Typed, NEW c \in Clients PROVE Entry(c) \in Presences
BY DEF Entry, Presences, Typed, ServerTypes

LEMMA EveryoneTyped ==
  ASSUME Typed PROVE Aware(Everyone) \in Messages /\ Aware(Everyone).kind = "aware"
                     /\ Aware(Everyone).items = {}
<1> DEFINE D == {d \in Clients : states[d] # None}
<1>1. D \in SUBSET Clients /\ Everyone \in [D -> Presences]
  BY EntryTyped DEF Everyone
<1> QED
  BY <1>1, AwareTyped

\* One presence in a message.
One(c, s, n) == Aware([d \in {c} |-> [state |-> s, clock |-> n]])

LEMMA OneTyped ==
  ASSUME NEW c \in Clients, NEW s \in {None} \cup Nat, NEW n \in Nat
  PROVE  One(c, s, n) \in Messages /\ One(c, s, n).kind = "aware" /\ One(c, s, n).items = {}
<1>1. {c} \in SUBSET Clients /\ [d \in {c} |-> [state |-> s, clock |-> n]] \in [{c} -> Presences]
  BY DEF Presences
<1> QED
  BY <1>1, AwareTyped DEF One

LEMMA Opening ==
  ASSUME Typed, NEW c \in Clients, NEW writes \in BOOLEAN, Opens(c, writes)
  PROVE  LET k == used + 1
         IN  /\ k \in Conns /\ used' = k /\ ops' \in 0..MaxOps
             /\ at[c] = 0 /\ at' = [at EXCEPT ![c] = k]
             /\ conn' = [conn EXCEPT ![k] = [Unused EXCEPT !.phase = "open", !.client = c, !.writes = writes]]
             /\ outbox' \in [Conns -> Seq(Messages)] /\ Len(outbox'[k]) <= Capacity
             /\ \A j \in Conns \ {k} : outbox'[j] = outbox[j] /\ inbox'[j] = inbox[j]
             /\ \A m \in ToSet(outbox'[k]) : m.items \subseteq doc
             /\ \E m \in ToSet(outbox'[k]) : m.kind = "step1"
             /\ inbox' \in [Conns -> Seq(Messages)]
             /\ \A m \in ToSet(inbox'[k]) : m.kind = "step1" => m.items \subseteq have[c]
             /\ \E m \in ToSet(inbox'[k]) : m.kind = "step1"
             /\ ToSet(outbox'[k]) = {Sync("step1", doc), Aware(Everyone)}
             /\ inbox'[k] = <<Sync("step1", have[c]), One(c, clock[c], clock[c])>>
             /\ UNCHANGED <<serverVars, reply, have, clock>>
<1> DEFINE k == used + 1
           hello == <<Sync("step1", doc), Aware(Everyone)>>
           a     == One(c, clock[c], clock[c])
           half  == <<Sync("step1", have[c]), a>>
<1>1. k \in Conns /\ ops' \in 0..MaxOps
  BY ConnectionsAssumption DEF Opens, Typed, OwnTypes, Conns
<1>2. /\ Sync("step1", doc) \in Messages /\ Sync("step1", doc).kind = "step1"
      /\ Sync("step1", doc).items = doc
  BY SyncTyped DEF Kinds, Typed, ServerTypes
<1>3. /\ Sync("step1", have[c]) \in Messages /\ Sync("step1", have[c]).kind = "step1"
      /\ Sync("step1", have[c]).items = have[c]
  BY SyncTyped DEF Kinds, Typed, OwnTypes
<1>4. clock[c] \in Nat
  BY DEF Typed, OwnTypes
<1>5. a \in Messages /\ a.kind = "aware" /\ a.items = {}
  BY <1>4, OneTyped
<1>6. /\ hello \in Seq(Messages) /\ Len(hello) = 2
      /\ ToSet(hello) = {Sync("step1", doc), Aware(Everyone)}
  BY <1>2, EveryoneTyped DEF ToSet
<1> HIDE DEF a
<1>7. half \in Seq(Messages) /\ ToSet(half) = {Sync("step1", have[c]), a}
  BY <1>3, <1>5 DEF ToSet
<1> HIDE DEF hello, half
<1>8. /\ outbox' = [outbox EXCEPT ![k] = hello] /\ inbox' = [inbox EXCEPT ![k] = half]
      /\ at[c] = 0 /\ at' = [at EXCEPT ![c] = k] /\ used' = k
      /\ conn' = [conn EXCEPT ![k] = [Unused EXCEPT !.phase = "open", !.client = c, !.writes = writes]]
      /\ UNCHANGED <<serverVars, reply, have, clock>>
  BY DEF Opens, hello, half, a, One
<1> HIDE DEF k
<1>9. /\ outbox' \in [Conns -> Seq(Messages)] /\ outbox'[k] = hello
      /\ inbox' \in [Conns -> Seq(Messages)] /\ inbox'[k] = half
      /\ \A j \in Conns \ {k} : outbox'[j] = outbox[j] /\ inbox'[j] = inbox[j]
  BY <1>1, <1>6, <1>7, <1>8 DEF Typed, Channels
<1>10. Len(outbox'[k]) <= Capacity
  <2>1. 2 <= Capacity
    BY ConnectionsAssumption
  <2>2. Len(outbox'[k]) = 2
    BY <1>6, <1>9
  <2> QED
    BY <2>1, <2>2
<1>11. /\ \A m \in ToSet(outbox'[k]) : m.items \subseteq doc
       /\ \E m \in ToSet(outbox'[k]) : m.kind = "step1"
  BY <1>2, <1>6, <1>9, EveryoneTyped
<1>12. /\ \A m \in ToSet(inbox'[k]) : m.kind = "step1" => m.items \subseteq have[c]
       /\ \E m \in ToSet(inbox'[k]) : m.kind = "step1"
  BY <1>3, <1>5, <1>7, <1>9
<1>13. inbox'[k] = <<Sync("step1", have[c]), One(c, clock[c], clock[c])>>
  BY <1>9 DEF half, a
<1> QED
  BY <1>1, <1>6, <1>8, <1>9, <1>10, <1>11, <1>12, <1>13 DEF k

\* A broadcast: what each channel gains, and which connections lose by it.
Broadcast(Is(_)) ==
  /\ outbox' \in [Conns -> Seq(Messages)]
  /\ \A j \in Conns : /\ Len(outbox'[j]) <= Capacity
                      /\ ToSet(outbox[j]) \subseteq ToSet(outbox'[j])
                      /\ \A m \in ToSet(outbox'[j]) \ ToSet(outbox[j]) : Is(m)

SameConns ==
  /\ ConnTypes'
  /\ \A j \in Conns : /\ conn'[j].client = conn[j].client /\ conn'[j].writes = conn[j].writes
                      /\ conn'[j].phase = "open" => conn[j].phase = "open"
                      /\ conn[j].lossy => conn'[j].lossy

LEMMA Answering ==
  ASSUME Typed, NEW k \in Conns, Answers(k)
  PROVE  \E a \in Messages : /\ reply' = [reply EXCEPT ![k] = <<a>>] /\ a.kind = "step2"
                             /\ a.items = doc \ Head(inbox[k]).items
<1>1. doc \ Head(inbox[k]).items \in SUBSET Items
  BY DEF Typed, ServerTypes
<1>2. PICK a \in Messages : /\ a = Sync("step2", doc \ Head(inbox[k]).items)
                           /\ a.kind = "step2" /\ a.items = doc \ Head(inbox[k]).items
  BY <1>1, SyncTyped DEF Kinds
<1> QED
  BY <1>2 DEF Answers

LEMMA Replying ==
  ASSUME Typed, NEW k \in Conns, Replies(k)
  PROVE  /\ outbox' \in [Conns -> Seq(Messages)] /\ SameConns
         /\ \A j \in Conns : ToSet(outbox[j]) \subseteq ToSet(outbox'[j])
         /\ \A j \in Conns \ {k} : outbox'[j] = outbox[j] /\ reply'[j] = reply[j]
         /\ ToSet(outbox'[k]) \subseteq ToSet(outbox[k]) \cup ToSet(reply[k])
         /\ Reads(k) /\ ~conn'[k].lossy => ToSet(reply[k]) \subseteq ToSet(outbox'[k])
         /\ ToSet(reply'[k]) = {}
<1>1. reply[k] \in Seq(Messages) /\ Sends({k}, reply[k]) /\ reply' = [reply EXCEPT ![k] = <<>>]
  BY DEF Replies, Typed, Channels
<1>2. PICK to : /\ to = {j \in {k} : Reads(j)} /\ Given(to, reply[k]) /\ ConnTypes'
                /\ \A j \in Conns :
                     /\ conn'[j] = [conn[j] EXCEPT !.lossy = conn'[j].lossy]
                     /\ conn[j].lossy => conn'[j].lossy
                     /\ j \in {k} /\ Reads(j) /\ ~conn'[j].lossy => Len(outbox[j]) + Len(reply[k]) <= Capacity
  BY <1>1, Sending
<1>3. SameConns
  <2>1. \A j \in Conns : /\ conn[j] \in [phase : Phases, client : Clients \cup {None}, id : Clients \cup {None},
                                         writes : BOOLEAN, lossy : BOOLEAN, cut : BOOLEAN]
                         /\ conn'[j] = [conn[j] EXCEPT !.lossy = conn'[j].lossy]
    BY <1>2 DEF Typed, ConnTypes
  <2>2. \A j \in Conns : /\ conn'[j].client = conn[j].client /\ conn'[j].writes = conn[j].writes
                         /\ conn'[j].phase = conn[j].phase
    BY <2>1
  <2> QED
    BY <1>2, <2>2 DEF SameConns
<1>4. /\ outbox' \in [Conns -> Seq(Messages)]
      /\ \A j \in Conns : /\ ToSet(outbox[j]) \subseteq ToSet(outbox'[j])
                          /\ ToSet(outbox'[j]) \subseteq ToSet(outbox[j]) \cup ToSet(reply[k])
                          /\ j \in to /\ Len(outbox[j]) + Len(reply[k]) <= Capacity =>
                               ToSet(reply[k]) \subseteq ToSet(outbox'[j])
  BY <1>1, <1>2, Giving
<1>5. \A j \in Conns \ {k} : outbox'[j] = outbox[j] /\ reply'[j] = reply[j]
  BY <1>1, <1>2 DEF Given, Typed, Channels
<1>6. ToSet(reply'[k]) = {}
  BY <1>1, Nothing DEF Typed, Channels
<1>7. Reads(k) /\ ~conn'[k].lossy => ToSet(reply[k]) \subseteq ToSet(outbox'[k])
  BY <1>2, <1>4
<1> QED
  BY <1>3, <1>4, <1>5, <1>6, <1>7

LEMMA Applying ==
  ASSUME Typed, NEW k \in Conns, Applies(k)
  PROVE  /\ doc \subseteq doc' /\ doc' \subseteq Items
         /\ conn[k].writes => Head(inbox[k]).items \subseteq doc'
         /\ Broadcast(LAMBDA m : m.kind = "update" /\ m.items \subseteq doc') /\ SameConns
         /\ \A j \in Conns : conn'[j].phase = "open" /\ Reads(j) /\ ~conn'[j].lossy =>
              \A x \in doc' \ doc : \E m \in ToSet(outbox'[j]) : Data(m) /\ x \in m.items
<1> DEFINE new == IF conn[k].writes THEN Head(inbox[k]).items \ doc ELSE {}
           ids == Registered(doc, doc \cup new)
<1>1. doc \subseteq Items /\ new \in SUBSET Items
  BY Handling, MessageParts DEF Applies, Typed, ServerTypes
<1>2. ids \in SUBSET Clients
  BY <1>1 DEF Registered, Authors, Items
<1>3. doc' = doc \cup new \cup (ids \X {0})
  BY DEF Applies
<1>4. IF new = {} THEN UNCHANGED <<conn, outbox>> ELSE Sends(Subscribed, Updates(new, ids))
  BY DEF Applies
<1>5. conn[k].writes => Head(inbox[k]).items \subseteq doc'
  BY <1>3
<1>6. new = {} => ids = {}
  BY DEF Registered
<1> HIDE DEF new, ids
<1>7. doc \subseteq doc' /\ doc' \subseteq Items
  <2>1. ids \X {0} \subseteq Items
    BY <1>2, ConnectionsAssumption DEF Items
  <2> QED
    BY <1>1, <1>3, <2>1
<1>8. CASE new = {}
  <2>1. doc' = doc /\ UNCHANGED <<conn, outbox>>
    BY <1>3, <1>4, <1>6, <1>8
  <2> QED
    BY <1>5, <1>7, <2>1 DEF Broadcast, SameConns, Typed, ConnTypes, Channels
<1>9. CASE new # {}
  <2> DEFINE msgs == Updates(new, ids)
  <2>1. msgs \in Seq(Messages)
        /\ (\A m \in ToSet(msgs) : m.kind = "update" /\ m.items \subseteq doc')
        /\ (\A x \in doc' \ doc : \E m \in ToSet(msgs) : x \in m.items)
    BY <1>1, <1>2, <1>3, Updating
  <2>2. Sends(Subscribed, msgs)
    BY <1>4, <1>9
  <2> HIDE DEF msgs
  <2>3. /\ Given({j \in Subscribed : Reads(j)}, msgs) /\ ConnTypes'
        /\ \A j \in Conns :
             /\ conn'[j] = [conn[j] EXCEPT !.lossy = conn'[j].lossy]
             /\ conn[j].lossy => conn'[j].lossy
             /\ j \in Subscribed /\ Reads(j) /\ ~conn'[j].lossy => Len(outbox[j]) + Len(msgs) <= Capacity
    BY <2>1, <2>2, Sending
  <2>4. SameConns
    BY <2>3 DEF SameConns, Typed, ConnTypes
  <2>5. /\ outbox' \in [Conns -> Seq(Messages)]
        /\ \A j \in Conns :
             /\ Len(outbox'[j]) <= Capacity
             /\ ToSet(outbox[j]) \subseteq ToSet(outbox'[j])
             /\ ToSet(outbox'[j]) \subseteq ToSet(outbox[j]) \cup ToSet(msgs)
             /\ j \in Subscribed /\ Reads(j) /\ Len(outbox[j]) + Len(msgs) <= Capacity =>
                  ToSet(msgs) \subseteq ToSet(outbox'[j])
    <3>1. PICK to : Given(to, msgs) /\ \A j \in Conns : j \in Subscribed /\ Reads(j) => j \in to
      BY <2>3
    <3> QED
      BY <2>1, <3>1, Giving
  <2>6. Broadcast(LAMBDA m : m.kind = "update" /\ m.items \subseteq doc')
    BY <2>1, <2>5 DEF Broadcast
  <2>7. ASSUME NEW j \in Conns, conn'[j].phase = "open", Reads(j), ~conn'[j].lossy, NEW x \in doc' \ doc
        PROVE  \E m \in ToSet(outbox'[j]) : Data(m) /\ x \in m.items
    <3>1. j \in Subscribed
      BY <2>4, <2>7 DEF SameConns, Subscribed
    <3>2. ToSet(msgs) \subseteq ToSet(outbox'[j])
      BY <2>3, <2>5, <2>7, <3>1
    <3> QED
      BY <2>1, <3>2 DEF Data
  <2> QED
    BY <1>5, <1>7, <2>4, <2>6, <2>7
<1> QED
  BY <1>8, <1>9

LEMMA Hearing ==
  ASSUME Typed, NEW k \in Conns, Hears(k)
  PROVE  /\ states' \in [Clients -> {None} \cup Nat] /\ clocks' \in [Clients -> Nat]
         /\ Broadcast(LAMBDA m : m.kind = "aware" /\ m.items = {}) /\ SameConns
<1> DEFINE m == Head(inbox[k])
           changed == {c \in DOMAIN m.states : Accepts(c, m.states[c])}
           After(c) == IF c \in changed THEN Applied(c, m.states[c]) ELSE states[c]
           s == [c \in changed |-> Told(After(c), m.states[c].clock)]
           told == Aware(s)
           to == IF changed = {} THEN {} ELSE {j \in Subscribed : Reads(j)}
<1>1. m \in Messages
  BY Handling DEF Hears
<1>2. changed \in SUBSET Clients /\ \A c \in changed : m.states[c].clock \in Nat /\ m.states[c].state \in {None} \cup Nat
  BY <1>1, MessageParts DEF Presences
<1>3. \A c \in Clients : After(c) \in {None} \cup Nat
  BY <1>2 DEF Applied, Typed, ServerTypes
<1>4. states' = [c \in Clients |-> After(c)]
      /\ clocks' = [c \in Clients |-> IF c \in changed THEN m.states[c].clock ELSE clocks[c]]
  BY DEF Hears
<1>5. /\ outbox' = [j \in Conns |-> IF j \in to THEN outbox[j] \o Fits(j, <<told>>) ELSE outbox[j]]
      /\ conn' = [j \in Conns |->
           [conn[j] EXCEPT !.id = IF j = k THEN Latched(k, m) ELSE @,
                           !.lossy = @ \/ (j \in to /\ Len(outbox[j]) = Capacity)]]
  BY DEF Hears
<1>6. Latched(k, m) \in Clients \cup {None}
  <2>1. CASE conn[k].id # None \/ Cardinality(DOMAIN m.states) # 1
    BY <2>1 DEF Latched, Typed, ConnTypes
  <2>2. CASE ~(conn[k].id # None \/ Cardinality(DOMAIN m.states) # 1)
    <3>1. DOMAIN m.states # {}
      BY <2>2, FS_EmptySet
    <3>2. Latched(k, m) \in DOMAIN m.states
      BY <2>2, <3>1 DEF Latched
    <3> QED
      BY <1>1, <3>2, MessageParts
  <2> QED
    BY <2>1, <2>2
<1> HIDE DEF m, changed
<1>7. s \in [changed -> Presences]
  BY <1>2, <1>3 DEF Told, Presences
<1> HIDE DEF After, s
<1>8. told \in Messages /\ told.kind = "aware" /\ told.items = {}
  BY <1>2, <1>7, AwareTyped
<1> HIDE DEF told, to
<1>9. SameConns
  <2>1. ConnTypes'
    <3>1. ASSUME NEW j \in Conns
          PROVE  conn'[j] \in [phase : Phases, client : Clients \cup {None}, id : Clients \cup {None},
                               writes : BOOLEAN, lossy : BOOLEAN, cut : BOOLEAN]
      <4>1. PICK i \in Clients \cup {None}, l \in BOOLEAN :
              conn'[j] = [conn[j] EXCEPT !.id = i, !.lossy = l]
        BY <1>5, <1>6 DEF Typed, ConnTypes
      <4> QED
        BY <4>1 DEF Typed, ConnTypes
    <3>2. conn' = [j \in Conns |-> conn'[j]]
      BY <1>5
    <3> QED
      BY <3>1, <3>2 DEF ConnTypes
  <2>2. \A j \in Conns : /\ conn'[j].client = conn[j].client /\ conn'[j].writes = conn[j].writes
                         /\ conn'[j].phase = conn[j].phase /\ (conn[j].lossy => conn'[j].lossy)
    BY <1>5 DEF Typed, ConnTypes
  <2> QED
    BY <2>1, <2>2 DEF SameConns
<1>10. <<told>> \in Seq(Messages) /\ ToSet(<<told>>) = {told}
  BY <1>8, Singles
<1>11. Given(to, <<told>>)
  BY <1>5 DEF Given
<1>12. Broadcast(LAMBDA x : x.kind = "aware" /\ x.items = {})
  <2>1. PICK msgs \in Seq(Messages) : Given(to, msgs) /\ ToSet(msgs) = {told}
    BY <1>10, <1>11
  <2> QED
    BY <1>8, <2>1, Giving DEF Broadcast
<1>13. states' \in [Clients -> {None} \cup Nat] /\ clocks' \in [Clients -> Nat]
  BY <1>2, <1>3, <1>4 DEF Typed, ServerTypes
<1> QED
  BY <1>9, <1>12, <1>13

LEMMA Dropping ==
  ASSUME Typed, NEW k \in Conns, Drops(k)
  PROVE  /\ states' \in [Clients -> {None} \cup Nat] /\ clocks' \in [Clients -> Nat]
         /\ Broadcast(LAMBDA m : m.kind = "aware" /\ m.items = {}) /\ SameConns
<1> DEFINE c == conn[k].id
           others == {j \in Subscribed : Reads(j)}
           one == One(c, 0, clocks[c] + 1)
           to == IF c = None THEN {} ELSE IF states[c] = None THEN {} ELSE others
<1>1. c \in Clients \cup {None}
  BY DEF Typed, ConnTypes
<1>2. /\ states' = IF c = None THEN states ELSE [states EXCEPT ![c] = None]
      /\ clocks' = IF c = None THEN clocks ELSE [clocks EXCEPT ![c] = @ + 1]
  BY DEF Drops
<1>3. states' \in [Clients -> {None} \cup Nat] /\ clocks' \in [Clients -> Nat]
  BY <1>1, <1>2 DEF Typed, ServerTypes
<1>4. one = Aware([d \in {c} |-> [state |-> 0, clock |-> clocks[d] + 1]])
  BY DEF One
<1>5. /\ outbox' = [j \in Conns |-> IF j \in to THEN outbox[j] \o Fits(j, <<one>>) ELSE outbox[j]]
      /\ conn' = [j \in Conns |->
           [conn[j] EXCEPT !.phase = IF j = k THEN "dropped" ELSE @,
                           !.lossy = @ \/ (j \in to /\ Len(outbox[j]) = Capacity)]]
  BY <1>4 DEF Drops
<1>6. SameConns
  <2> HIDE DEF to
  <2>1. ConnTypes'
    <3>1. ASSUME NEW j \in Conns
          PROVE  conn'[j] \in [phase : Phases, client : Clients \cup {None}, id : Clients \cup {None},
                               writes : BOOLEAN, lossy : BOOLEAN, cut : BOOLEAN]
      <4>1. PICK p \in Phases, l \in BOOLEAN :
              conn'[j] = [conn[j] EXCEPT !.phase = p, !.lossy = l]
        BY <1>5 DEF Typed, ConnTypes, Phases
      <4> QED
        BY <4>1 DEF Typed, ConnTypes
    <3>2. conn' = [j \in Conns |-> conn'[j]]
      BY <1>5
    <3> QED
      BY <3>1, <3>2 DEF ConnTypes
  <2>2. \A j \in Conns : /\ conn'[j].client = conn[j].client /\ conn'[j].writes = conn[j].writes
                         /\ conn'[j].phase \in {conn[j].phase, "dropped"}
                         /\ (conn[j].lossy => conn'[j].lossy)
    BY <1>5 DEF Typed, ConnTypes
  <2> QED
    BY <2>1, <2>2 DEF SameConns
<1>7. Broadcast(LAMBDA m : m.kind = "aware" /\ m.items = {})
  <2>1. CASE c = None
    <3>1. outbox' = outbox
      BY <1>5, <2>1 DEF Typed, Channels
    <3> QED
      BY <3>1 DEF Broadcast, Typed, Channels
  <2>2. CASE c # None
    <3>1. one \in Messages /\ one.kind = "aware" /\ one.items = {}
      <4>1. c \in Clients /\ clocks[c] + 1 \in Nat
        BY <1>1, <2>2 DEF Typed, ServerTypes
      <4> QED
        BY <4>1, OneTyped
    <3> HIDE DEF one, to
    <3>2. PICK msgs \in Seq(Messages) : Given(to, msgs) /\ ToSet(msgs) = {one}
      BY <1>5, <3>1, Singles DEF Given
    <3> QED
      BY <3>1, <3>2, Giving DEF Broadcast
  <2> QED
    BY <2>1, <2>2
<1> QED
  BY <1>3, <1>6, <1>7

LEMMA Returning ==
  ASSUME Typed, NEW c \in Clients, NEW m \in Messages, m.kind = "aware", Returns(c, m)
  PROVE  /\ clock' \in [Clients -> Nat \ {0}]
         /\ \E msgs \in Seq(Messages) : /\ Posts(c, msgs)
                                        /\ \A x \in ToSet(msgs) : x.kind = "aware" /\ x.items = {}
<1> DEFINE others == DOMAIN m.states \ {c}
           echo == IF others = {} THEN <<>> ELSE <<Aware([d \in others |-> m.states[d]])>>
           own == c \in DOMAIN m.states /\ m.states[c].state = 0 /\ m.states[c].clock >= clock[c]
           n == m.states[c].clock + 1
           back == IF own THEN <<One(c, n, n)>> ELSE <<>>
<1>1. /\ clock' = IF own THEN [clock EXCEPT ![c] = n] ELSE clock
      /\ Posts(c, echo \o back)
  BY DEF Returns, One
<1>2. others \in SUBSET Clients /\ [d \in others |-> m.states[d]] \in [others -> Presences]
  BY MessageParts
<1>3. own => n \in Nat \ {0}
  <2> SUFFICES ASSUME own PROVE m.states[c].clock \in Nat
    OBVIOUS
  <2> QED
    BY MessageParts DEF Presences
<1> HIDE DEF others, own, n
<1>4. echo \in Seq(Messages) /\ \A x \in ToSet(echo) : x.kind = "aware" /\ x.items = {}
  <2>1. CASE others = {}
    BY <2>1, Nothing
  <2>2. CASE others # {}
    <3>1. PICK a \in Messages : a = Aware([d \in others |-> m.states[d]]) /\ a.kind = "aware" /\ a.items = {}
      BY <1>2, AwareTyped
    <3>2. echo = <<a>>
      BY <2>2, <3>1
    <3> QED
      BY <3>1, <3>2, Singles
  <2> QED
    BY <2>1, <2>2
<1>5. back \in Seq(Messages) /\ \A x \in ToSet(back) : x.kind = "aware" /\ x.items = {}
  <2>1. CASE ~own
    BY <2>1, Nothing
  <2>2. CASE own
    <3>1. PICK a \in Messages : a = One(c, n, n) /\ a.kind = "aware" /\ a.items = {}
      <4>1. n \in Nat
        BY <1>3, <2>2
      <4> QED
        BY <4>1, OneTyped
    <3>2. back = <<a>>
      BY <2>2, <3>1
    <3> QED
      BY <3>1, <3>2, Singles
  <2> QED
    BY <2>1, <2>2
<1> HIDE DEF echo, back
<1>6. echo \o back \in Seq(Messages) /\ ToSet(echo \o back) = ToSet(echo) \cup ToSet(back)
  BY <1>4, <1>5, Joined
<1>7. clock' \in [Clients -> Nat \ {0}]
  BY <1>1, <1>3 DEF Typed, OwnTypes
<1>8. PICK msgs : msgs = echo \o back
  OBVIOUS
<1> QED
  BY <1>1, <1>4, <1>5, <1>6, <1>7, <1>8

LEMMA Receiving ==
  ASSUME Typed, NEW c \in Clients, Receives(c)
  PROVE  LET k == at[c]
             m == Head(outbox[k])
         IN  /\ k \in Conns /\ m \in Messages
             /\ outbox' \in [Conns -> Seq(Messages)] /\ ToSet(outbox[k]) = {m} \cup ToSet(outbox'[k])
             /\ \A j \in Conns : Len(outbox'[j]) <= Capacity
             /\ \A j \in Conns \ {k} : outbox'[j] = outbox[j] /\ inbox'[j] = inbox[j]
             /\ have' = [have EXCEPT ![c] = IF Data(m) THEN @ \cup m.items ELSE @]
             /\ clock' \in [Clients -> Nat \ {0}] /\ inbox' \in [Conns -> Seq(Messages)]
             /\ ToSet(inbox[k]) \subseteq ToSet(inbox'[k])
             /\ \A x \in ToSet(inbox'[k]) \ ToSet(inbox[k]) : x.kind # "step1"
             /\ m.kind = "step1" /\ conn[k].phase = "open" =>
                  \A i \in have[c] \ m.items : \E x \in ToSet(inbox'[k]) : Data(x) /\ i \in x.items
             /\ UNCHANGED <<serverVars, conn, reply, at, used, ops>>
<1> DEFINE k == at[c]
           m == Head(outbox[k])
           lacking == have[c] \ m.items
<1>1. k \in Conns /\ outbox[k] \in Seq(Messages) /\ outbox[k] # <<>> /\ Len(outbox[k]) <= Capacity
  BY DEF Receives, Typed, OwnTypes, Channels
<1>2. /\ m \in Messages /\ Tail(outbox[k]) \in Seq(Messages) /\ Len(Tail(outbox[k])) = Len(outbox[k]) - 1
      /\ ToSet(outbox[k]) = {m} \cup ToSet(Tail(outbox[k]))
  BY <1>1, Taken
<1>3. /\ outbox' = [outbox EXCEPT ![k] = Tail(outbox[k])]
      /\ have' = IF m.kind \in {"step2", "update"} THEN [have EXCEPT ![c] = @ \cup m.items] ELSE have
      /\ CASE m.kind = "step1" -> /\ Posts(c, IF lacking = {} THEN <<>> ELSE <<Sync("step2", lacking)>>)
                                  /\ UNCHANGED clock
           [] m.kind = "aware" -> Returns(c, m)
           [] OTHER -> UNCHANGED <<inbox, clock>>
      /\ UNCHANGED <<serverVars, conn, reply, at, used, ops>>
  BY DEF Receives
<1> HIDE DEF k
<1>4. have' = [have EXCEPT ![c] = IF Data(m) THEN @ \cup m.items ELSE @]
  BY <1>3 DEF Data, Typed, OwnTypes
<1>5. lacking \in SUBSET Items
  BY DEF Typed, OwnTypes
<1> HIDE DEF m, lacking
<1>6. /\ outbox' \in [Conns -> Seq(Messages)] /\ outbox'[k] = Tail(outbox[k])
      /\ \A j \in Conns \ {k} : outbox'[j] = outbox[j]
  BY <1>1, <1>2, <1>3 DEF Typed, Channels
<1>7. \A j \in Conns : Len(outbox'[j]) <= Capacity
  <2>1. Len(outbox'[k]) <= Capacity
    BY <1>1, <1>2, <1>6, ConnectionsAssumption
  <2> QED
    BY <1>6, <2>1 DEF Typed, Channels
<1>8. /\ clock' \in [Clients -> Nat \ {0}] /\ inbox' \in [Conns -> Seq(Messages)]
      /\ \A j \in Conns \ {k} : inbox'[j] = inbox[j]
      /\ ToSet(inbox[k]) \subseteq ToSet(inbox'[k])
      /\ \A x \in ToSet(inbox'[k]) \ ToSet(inbox[k]) : x.kind # "step1"
      /\ m.kind = "step1" /\ conn[k].phase = "open" =>
           \A i \in lacking : \E x \in ToSet(inbox'[k]) : Data(x) /\ i \in x.items
  <2>1. CASE m.kind = "step1"
    <3>1. PICK msgs : msgs = (IF lacking = {} THEN <<>> ELSE <<Sync("step2", lacking)>>)
      OBVIOUS
    <3>2. /\ msgs \in Seq(Messages) /\ \A x \in ToSet(msgs) : x.kind = "step2"
          /\ \A i \in lacking : \E x \in ToSet(msgs) : Data(x) /\ i \in x.items
      <4>1. CASE lacking = {}
        BY <3>1, <4>1, Nothing
      <4>2. CASE lacking # {}
        <5>1. PICK a \in Messages : a = Sync("step2", lacking) /\ a.kind = "step2" /\ a.items = lacking
          BY <1>5, SyncTyped DEF Kinds
        <5>2. msgs = <<a>>
          BY <3>1, <4>2, <5>1
        <5> QED
          BY <5>1, <5>2, Singles DEF Data
      <4> QED
        BY <4>1, <4>2
    <3>3. Posts(c, msgs) /\ UNCHANGED clock
      BY <1>3, <2>1, <3>1
    <3>4. at[c] \in Conns /\ at[c] # 0 /\ k = at[c]
      BY <1>1 DEF k, Receives
    <3>5. /\ inbox' \in [Conns -> Seq(Messages)]
          /\ \A j \in Conns : /\ j # at[c] => inbox'[j] = inbox[j]
                              /\ ToSet(inbox[j]) \subseteq ToSet(inbox'[j])
                              /\ ToSet(inbox'[j]) \subseteq ToSet(inbox[j]) \cup ToSet(msgs)
          /\ conn[at[c]].phase = "open" =>
               ToSet(inbox'[at[c]]) = ToSet(inbox[at[c]]) \cup ToSet(msgs)
      BY <3>2, <3>3, <3>4, Posting
    <3>6. clock' \in [Clients -> Nat \ {0}]
      BY <3>3 DEF Typed, OwnTypes
    <3>7. \A x \in ToSet(inbox'[k]) \ ToSet(inbox[k]) : x.kind # "step1"
      BY <3>2, <3>4, <3>5
    <3> QED
      BY <3>2, <3>4, <3>5, <3>6, <3>7
  <2>2. CASE m.kind = "aware"
    <3>1. Returns(c, m)
      BY <1>3, <2>2
    <3>2. PICK msgs \in Seq(Messages) : Posts(c, msgs) /\ \A x \in ToSet(msgs) : x.kind = "aware"
      BY <1>2, <2>2, <3>1, Returning
    <3>3. clock' \in [Clients -> Nat \ {0}]
      BY <1>2, <2>2, <3>1, Returning
    <3> QED
      BY <1>1, <2>2, <3>2, <3>3, Posting DEF k
  <2>3. CASE m.kind \notin {"step1", "aware"}
    BY <1>3, <2>3 DEF Typed, Channels, OwnTypes
  <2> QED
    BY <2>1, <2>2, <2>3
<1> QED
  BY <1>1, <1>2, <1>3, <1>4, <1>6, <1>7, <1>8 DEF k, m, lacking

LEMMA Editing ==
  ASSUME Typed, NEW c \in Clients, Edits(c)
  PROVE  \E i \in Items, a \in Messages :
           /\ have' = [have EXCEPT ![c] = @ \cup {i}] /\ Posts(c, <<a>>)
           /\ a.kind = "update" /\ a.items = {i}
<1> DEFINE own == {x \in have[c] : x[1] = c /\ x[2] > 0}
           n == Cardinality(own) + 1
<1>1. IsFiniteSet(Items)
  <2>1. IsFiniteSet(0..MaxEdits) /\ IsFiniteSet(Clients)
    BY FS_Interval, ConnectionsAssumption
  <2> QED
    BY <2>1, FS_Product DEF Items
<1>2. own \subseteq Items
  BY DEF Typed, OwnTypes
<1>3. IsFiniteSet(own)
  BY <1>1, <1>2, FS_Subset
<1>4. n \in Nat
  BY <1>3, FS_CardinalityType
<1>5. /\ n <= MaxEdits /\ have' = [have EXCEPT ![c] = @ \cup {<<c, n>>}]
      /\ Posts(c, <<Sync("update", {<<c, n>>})>>)
  BY DEF Edits
<1> HIDE DEF n
<1>6. <<c, n>> \in Items
  BY <1>4, <1>5, ConnectionsAssumption DEF Items
<1>7. PICK i \in Items : i = <<c, n>>
  BY <1>6
<1>8. PICK a \in Messages : a = Sync("update", {i}) /\ a.kind = "update" /\ a.items = {i}
  BY <1>7, SyncTyped DEF Kinds
<1> QED
  BY <1>5, <1>7, <1>8

LEMMA Emptying ==
  ASSUME Typed, NEW k, outbox' = [outbox EXCEPT ![k] = <<>>]
  PROVE  outbox' \in [Conns -> Seq(Messages)] /\ \A j \in Conns : Len(outbox'[j]) <= Capacity
<1>1. 0 <= Capacity
  BY ConnectionsAssumption
<1>2. \A j \in Conns : outbox'[j] = IF j = k THEN <<>> ELSE outbox[j]
  BY DEF Typed, Channels
<1>3. ASSUME NEW j \in Conns PROVE Len(outbox'[j]) <= Capacity
  BY <1>1, <1>2, Nothing DEF Typed, Channels
<1>4. outbox' \in [Conns -> Seq(Messages)]
  BY Nothing DEF Typed, Channels
<1> QED
  BY <1>3, <1>4

LEMMA TypedStep ==
  ASSUME Typed, [Next]_vars
  PROVE  Typed'
<1>1. ASSUME NEW k \in Conns, Answers(k) PROVE Typed'
  <2>1. PICK a \in Messages : reply' = [reply EXCEPT ![k] = <<a>>]
    <3>1. doc \ Head(inbox[k]).items \subseteq Items
      BY DEF Typed, ServerTypes
    <3> QED
      BY <1>1, <3>1, SyncTyped DEF Answers, Kinds
  <2>2. <<a>> \in Seq(Messages) /\ Len(<<a>>) <= 1
    BY Singles
  <2>3. inbox' \in [Conns -> Seq(Messages)]
    BY <1>1, Handling DEF Answers
  <2> QED
    BY <1>1, <2>1, <2>2, <2>3 DEF Answers, Typed, ConnTypes, Channels, OwnTypes, ServerTypes, serverVars, clientVars
<1>2. ASSUME NEW k \in Conns, Replies(k) PROVE Typed'
  <2>1. reply[k] \in Seq(Messages) /\ Sends({k}, reply[k])
    BY <1>2 DEF Replies, Typed, Channels
  <2>2. ConnTypes' /\ \E to : Given(to, reply[k])
    BY <2>1, Sending
  <2>3. outbox' \in [Conns -> Seq(Messages)] /\ \A j \in Conns : Len(outbox'[j]) <= Capacity
    BY <2>1, <2>2, Giving
  <2>4. reply' \in [Conns -> Seq(Messages)] /\ \A j \in Conns : Len(reply'[j]) <= 1
    BY <1>2, Nothing DEF Replies, Typed, Channels
  <2> QED
    BY <1>2, <2>2, <2>3, <2>4 DEF Replies, Typed, ConnTypes, Channels, OwnTypes, ServerTypes, serverVars, clientVars
<1>3. ASSUME NEW k \in Conns, Applies(k) PROVE Typed'
  <2>1. inbox' \in [Conns -> Seq(Messages)]
    BY <1>3, Handling DEF Applies
  <2> QED
    BY <1>3, <2>1, Applying DEF Applies, Broadcast, SameConns, Typed, ConnTypes, Channels, OwnTypes, ServerTypes, clientVars
<1>4. ASSUME NEW k \in Conns, Hears(k) PROVE Typed'
  <2>1. inbox' \in [Conns -> Seq(Messages)]
    BY <1>4, Handling DEF Hears
  <2> QED
    BY <1>4, <2>1, Hearing DEF Hears, Broadcast, SameConns, Typed, ConnTypes, Channels, OwnTypes, ServerTypes, clientVars
<1>5. ASSUME NEW k \in Conns, Ends(k), ops' \in 0..MaxOps PROVE Typed'
  <2>1. inbox' \in [Conns -> Seq(Messages)]
    BY <1>5, Nothing DEF Ends, Typed, Channels
  <2>2. ConnTypes'
    BY <1>5 DEF Ends, Typed, ConnTypes, Phases
  <2> QED
    BY <1>5, <2>1, <2>2 DEF Ends, Typed, Channels, OwnTypes, ServerTypes, serverVars, clientVars
<1>6. ASSUME NEW k \in Conns, Drops(k) PROVE Typed'
  BY <1>6, Dropping DEF Drops, Broadcast, SameConns, Typed, ConnTypes, Channels, OwnTypes, ServerTypes, clientVars
<1>7. Operates => ops' \in 0..MaxOps
  BY ConnectionsAssumption DEF Operates, Typed, OwnTypes
<1>8. CASE Saves
  BY <1>8 DEF Saves, Typed, ConnTypes, Channels, OwnTypes, ServerTypes, wireVars, clientVars
<1>9. CASE Restarts
  <2>1. conn' \in [Conns -> [phase : Phases, client : Clients \cup {None}, id : Clients \cup {None},
                             writes : BOOLEAN, lossy : BOOLEAN, cut : BOOLEAN]]
    BY <1>9 DEF Restarts, Typed, ConnTypes, Phases
  <2>2. Channels'
    BY <1>9, Nothing, ConnectionsAssumption DEF Restarts, Channels
  <2> QED
    BY <1>7, <1>9, <2>1, <2>2 DEF Restarts, Typed, ConnTypes, OwnTypes, ServerTypes
<1>10. ASSUME NEW c \in Clients, NEW writes \in BOOLEAN, Opens(c, writes) PROVE Typed'
  <2>1. ConnTypes'
    <3>1. [Unused EXCEPT !.phase = "open", !.client = c, !.writes = writes]
            \in [phase : Phases, client : Clients \cup {None}, id : Clients \cup {None},
                 writes : BOOLEAN, lossy : BOOLEAN, cut : BOOLEAN]
      BY DEF Unused, Phases
    <3>2. PICK k : conn' = [conn EXCEPT ![k] = [Unused EXCEPT !.phase = "open", !.client = c, !.writes = writes]]
      BY <1>10, Opening
    <3> QED
      BY <3>1, <3>2 DEF Typed, ConnTypes
  <2>2. PICK k \in Conns : /\ used' = k /\ at' = [at EXCEPT ![c] = k] /\ ops' \in 0..MaxOps
                           /\ outbox' \in [Conns -> Seq(Messages)] /\ Len(outbox'[k]) <= Capacity
                           /\ \A j \in Conns \ {k} : outbox'[j] = outbox[j]
                           /\ inbox' \in [Conns -> Seq(Messages)]
                           /\ UNCHANGED <<serverVars, reply, have, clock>>
    BY <1>10, Opening
  <2>3. used' \in 0..MaxConns
    BY <2>2, ConnectionsAssumption DEF Conns
  <2>4. \A j \in Conns : Len(outbox'[j]) <= Capacity
    BY <2>2 DEF Typed, Channels
  <2>5. at' \in [Clients -> Conns \cup {0}]
    BY <2>2 DEF Typed, OwnTypes
  <2>6. Channels'
    BY <2>2, <2>4 DEF Typed, Channels
  <2>7. OwnTypes' /\ ServerTypes'
    BY <2>2, <2>3, <2>5 DEF Typed, OwnTypes, ServerTypes, serverVars
  <2> QED
    BY <2>1, <2>6, <2>7 DEF Typed
<1>11. ASSUME NEW c \in Clients, Edits(c) PROVE Typed'
  <2>1. PICK i \in Items, a \in Messages : have' = [have EXCEPT ![c] = @ \cup {i}] /\ Posts(c, <<a>>)
    BY <1>11, Editing
  <2>2. inbox' \in [Conns -> Seq(Messages)]
    <3>1. PICK msgs \in Seq(Messages) : Posts(c, msgs)
      BY <2>1, Singles
    <3> QED
      BY <3>1, Posting
  <2>3. have' \in [Clients -> SUBSET Items]
    BY <2>1 DEF Typed, OwnTypes
  <2>4. Operates /\ UNCHANGED <<serverVars, conn, outbox, reply, clock, at, used>>
    BY <1>11 DEF Edits
  <2> QED
    BY <1>7, <2>2, <2>3, <2>4 DEF Typed, ConnTypes, Channels, OwnTypes, ServerTypes, serverVars
<1>12. ASSUME NEW c \in Clients, Sets(c) PROVE Typed'
  <2>1. clock[c] + 1 \in Nat \ {0} /\ clock' = [clock EXCEPT ![c] = @ + 1]
    BY <1>12 DEF Sets, Typed, OwnTypes
  <2>2. inbox' \in [Conns -> Seq(Messages)]
    <3>1. Posts(c, <<One(c, clock[c] + 1, clock[c] + 1)>>)
      BY <1>12 DEF Sets, One
    <3>2. PICK msgs \in Seq(Messages) : Posts(c, msgs)
      BY <2>1, <3>1, OneTyped, Singles
    <3> QED
      BY <3>2, Posting
  <2> QED
    BY <1>7, <1>12, <2>1, <2>2 DEF Sets, Typed, ConnTypes, Channels, OwnTypes, ServerTypes, serverVars
<1>13. ASSUME NEW c \in Clients, Receives(c) PROVE Typed'
  <2>1. PICK items \in SUBSET Items : have' = [have EXCEPT ![c] = @ \cup items]
    <3>1. PICK m \in Messages : have' = [have EXCEPT ![c] = IF Data(m) THEN @ \cup m.items ELSE @]
      BY <1>13, Receiving
    <3>2. m.items \subseteq Items
      BY MessageParts
    <3>3. CASE Data(m)
      BY <3>1, <3>2, <3>3
    <3>4. CASE ~Data(m)
      <4>1. have' = [have EXCEPT ![c] = @ \cup {}]
        BY <3>1, <3>4
      <4> QED
        BY <4>1
    <3> QED
      BY <3>3, <3>4
  <2>2. /\ outbox' \in [Conns -> Seq(Messages)] /\ \A j \in Conns : Len(outbox'[j]) <= Capacity
        /\ clock' \in [Clients -> Nat \ {0}] /\ inbox' \in [Conns -> Seq(Messages)]
        /\ UNCHANGED <<serverVars, conn, reply, at, used, ops>>
    BY <1>13, Receiving
  <2> QED
    BY <2>1, <2>2 DEF Typed, ConnTypes, Channels, OwnTypes, ServerTypes, serverVars
<1>14. ASSUME NEW c \in Clients, Leaves(c) PROVE Typed'
  <2>1. inbox' \in [Conns -> Seq(Messages)]
    <3>1. PICK msgs \in Seq(Messages) : Posts(c, msgs)
      BY <1>14, CloseTyped, Singles DEF Leaves
    <3> QED
      BY <3>1, Posting
  <2>2. outbox' \in [Conns -> Seq(Messages)] /\ \A j \in Conns : Len(outbox'[j]) <= Capacity
    <3>1. outbox' = [outbox EXCEPT ![at[c]] = <<>>]
      BY <1>14 DEF Leaves
    <3> QED
      BY <3>1, Emptying
  <2> QED
    BY <1>7, <1>14, <2>1, <2>2 DEF Leaves, Typed, ConnTypes, Channels, OwnTypes, ServerTypes, serverVars
<1>15. ASSUME NEW c \in Clients, Learns(c) PROVE Typed'
  BY <1>15 DEF Learns, Typed, ConnTypes, Channels, OwnTypes, ServerTypes, serverVars, wireVars
<1>16. ASSUME NEW c \in Clients, IsCut(c) PROVE Typed'
  <2>1. outbox' \in [Conns -> Seq(Messages)] /\ \A j \in Conns : Len(outbox'[j]) <= Capacity
    <3>1. outbox' = [outbox EXCEPT ![at[c]] = <<>>]
      BY <1>16 DEF IsCut
    <3> QED
      BY <3>1, Emptying
  <2>2. ConnTypes'
    <3>1. conn' = [conn EXCEPT ![at[c]].cut = TRUE] /\ at[c] \in Conns
      BY <1>16 DEF IsCut, Typed, OwnTypes
    <3> QED
      BY <3>1 DEF Typed, ConnTypes
  <2>3. at' \in [Clients -> Conns \cup {0}]
    BY <1>16 DEF IsCut, Typed, OwnTypes
  <2> QED
    BY <1>7, <1>16, <2>1, <2>2, <2>3 DEF IsCut, Typed, Channels, OwnTypes, ServerTypes, serverVars
<1>17. CASE UNCHANGED vars
  BY <1>17 DEF vars, serverVars, wireVars, clientVars, Typed, ConnTypes, Channels, OwnTypes, ServerTypes
<1>18. ASSUME NEW k \in Conns, Closes(k) \/ Expires(k) PROVE Typed'
  <2>1. Ends(k) /\ ops' \in 0..MaxOps
    BY <1>7, <1>18 DEF Closes, Expires, Typed, OwnTypes
  <2> QED
    BY <1>5, <2>1
<1> QED
  BY <1>1, <1>2, <1>3, <1>4, <1>6, <1>8, <1>9, <1>10, <1>11, <1>12, <1>13, <1>14, <1>15, <1>16, <1>17,
     <1>18 DEF Next, ServerStep

LEMMA Types == Spec => []Typed
<1>1. Init => Typed
  <2> SUFFICES ASSUME Init PROVE Typed
    OBVIOUS
  <2>1. ConnTypes
    BY DEF Init, ConnTypes, Unused, Phases
  <2>2. Channels
    BY Nothing, ConnectionsAssumption DEF Init, Channels
  <2>3. OwnTypes /\ ServerTypes
    BY ConnectionsAssumption DEF Init, OwnTypes, ServerTypes
  <2> QED
    BY <2>1, <2>2, <2>3 DEF Typed
<1> QED
  BY <1>1, TypedStep, PTL DEF Spec

(* Every variable keeps its type, and no outgoing channel ever holds more  *)
(* than its capacity, whoever broadcasts: what does not fit is dropped.    *)
THEOREM TypeCorrect == Spec => []TypeOK
BY Types, TypedIsTypeOK, PTL

-----------------------------------------------------------------------------
(* Convergence.                                                            *)
(*                                                                         *)
(* What is on its way between the server and a client whose connection is  *)
(* open covers what the two do not share: a change that the client lacks   *)
(* is in a message to it, or will be in the answer to its question; one    *)
(* that the server lacks is in a message from the client, or will be in    *)
(* its answer to the server's.                                             *)

Linked(c) == at[c] # 0 /\ conn[at[c]].phase = "open"

Attached == \A c \in Clients : at[c] # 0 => at[c] <= used /\ conn[at[c]].client = c

Outgoing == \A k \in Conns : \A m \in ToSet(outbox[k]) \cup ToSet(reply[k]) : m.items \subseteq doc

Asking(c) == \A m \in ToSet(inbox[at[c]]) : m.kind = "step1" => m.items \subseteq have[c]

Coming(c, x) == \E m \in ToSet(outbox[at[c]]) \cup ToSet(reply[at[c]]) : Data(m) /\ x \in m.items

Down(c) ==
  \A x \in doc : \/ x \in have[c]
                 \/ Coming(c, x)
                 \/ \E m \in ToSet(inbox[at[c]]) : m.kind = "step1"

Up(c) ==
  \A x \in have[c] :
    \/ x \in doc
    \/ \E m \in ToSet(inbox[at[c]]) : Data(m) /\ x \in m.items
    \/ \E m \in ToSet(outbox[at[c]]) : m.kind = "step1"

Agrees(c) == Linked(c) => /\ Asking(c)
                          /\ ~conn[at[c]].lossy => Down(c)
                          /\ conn[at[c]].writes => Up(c)

Agreed == \A c \in Clients : Agrees(c)

LEMMA AttachedStep ==
  ASSUME Typed, Typed', Attached, [Next]_vars
  PROVE  Attached'
<1>1. ASSUME used <= used', \A k \in 1..used : conn'[k].client = conn[k].client,
             \A c \in Clients : at'[c] \in {0, at[c]}
      PROVE  Attached'
  <2> SUFFICES ASSUME NEW c \in Clients, at'[c] # 0
               PROVE  at'[c] <= used' /\ conn'[at'[c]].client = c
    BY DEF Attached
  <2>1. /\ at'[c] = at[c] /\ at[c] <= used /\ conn[at[c]].client = c /\ at[c] \in 1..MaxConns
        /\ used \in Nat /\ used' \in Nat
    BY <1>1, ConnectionsAssumption DEF Attached, Typed, OwnTypes, Conns
  <2>2. at[c] \in 1..used
    BY <2>1, ConnectionsAssumption
  <2> QED
    BY <1>1, <2>1, <2>2, ConnectionsAssumption
<1>2. 1..used \subseteq Conns /\ used \in Nat
  BY ConnectionsAssumption DEF Typed, OwnTypes, Conns
<1>3. ASSUME SameConns, UNCHANGED <<used, at>> PROVE Attached'
  BY <1>1, <1>2, <1>3 DEF SameConns
<1>4. ASSUME NEW k \in Conns, ServerStep(k) \/ Expires(k) PROVE Attached'
  <2>1. UNCHANGED <<used, at>>
    BY <1>4 DEF ServerStep, Answers, Replies, Applies, Hears, Closes, Expires, Ends, Drops, clientVars
  <2>2. CASE Answers(k)
    BY <1>1, <1>2, <2>1, <2>2 DEF Answers
  <2>4. CASE Replies(k) \/ Applies(k) \/ Hears(k) \/ Drops(k)
    BY <1>3, <2>1, <2>4, Replying, Applying, Hearing, Dropping
  <2>5. CASE Closes(k) \/ Expires(k)
    BY <1>1, <1>2, <2>1, <2>5 DEF Closes, Expires, Ends, Typed, ConnTypes
  <2> QED
    BY <1>4, <2>2, <2>4, <2>5 DEF ServerStep
<1>5. ASSUME NEW c \in Clients, NEW writes \in BOOLEAN, Opens(c, writes) PROVE Attached'
  <2>1. PICK k \in Conns : /\ k = used + 1 /\ used' = k /\ at' = [at EXCEPT ![c] = k]
                           /\ conn' = [conn EXCEPT ![k] = [Unused EXCEPT !.phase = "open", !.client = c, !.writes = writes]]
    BY <1>5, Opening
  <2>2. conn'[k].client = c /\ \A j \in Conns \ {k} : conn'[j] = conn[j]
    BY <2>1 DEF Typed, ConnTypes, Unused
  <2>3. at'[c] = k /\ \A d \in Clients \ {c} : at'[d] = at[d]
    BY <2>1 DEF Typed, OwnTypes
  <2>4. ASSUME NEW d \in Clients \ {c}, at[d] # 0 PROVE at[d] <= used' /\ conn'[at[d]].client = d
    <3>1. at[d] <= used /\ conn[at[d]].client = d /\ at[d] \in Conns
      BY <2>4 DEF Attached, Typed, OwnTypes
    <3>2. at[d] # k /\ at[d] <= used'
      BY <1>2, <2>1, <3>1, ConnectionsAssumption DEF Conns
    <3> QED
      BY <2>2, <3>1, <3>2
  <2>5. k <= used'
    BY <1>2, <2>1
  <2> QED
    BY <2>2, <2>3, <2>4, <2>5 DEF Attached
<1>6. CASE Restarts
  <2>1. UNCHANGED used /\ at' = [c \in Clients |-> 0]
    BY <1>6 DEF Restarts
  <2> QED
    BY <2>1 DEF Attached
<1>7. ASSUME NEW c \in Clients, Edits(c) \/ Sets(c) \/ Receives(c) \/ Leaves(c) \/ Learns(c) \/ IsCut(c)
      PROVE  Attached'
  <2>1. used' = used /\ at' \in {at, [at EXCEPT ![c] = 0]}
    BY <1>7 DEF Edits, Sets, Receives, Leaves, Learns, IsCut
  <2>2. conn' \in {conn, [conn EXCEPT ![at[c]].cut = TRUE]}
    BY <1>7 DEF Edits, Sets, Receives, Leaves, Learns, IsCut, wireVars
  <2>3. \A k \in 1..used : conn'[k].client = conn[k].client
    BY <1>2, <2>2 DEF Typed, ConnTypes
  <2>4. \A d \in Clients : at'[d] \in {0, at[d]}
    BY <2>1 DEF Typed, OwnTypes
  <2> QED
    BY <1>1, <1>2, <2>1, <2>3, <2>4
<1>8. CASE Saves \/ UNCHANGED vars
  BY <1>1, <1>2, <1>8 DEF Saves, vars, wireVars, clientVars
<1> QED
  BY <1>4, <1>5, <1>6, <1>7, <1>8 DEF Next

LEMMA OutgoingStep ==
  ASSUME Typed, Typed', Outgoing, [Next]_vars
  PROVE  Outgoing'
<1>1. ASSUME doc \subseteq doc',
             \A k \in Conns : \A m \in ToSet(outbox'[k]) \cup ToSet(reply'[k]) :
               m \in ToSet(outbox[k]) \cup ToSet(reply[k]) \/ m.items \subseteq doc'
      PROVE  Outgoing'
  BY <1>1 DEF Outgoing
<1>2. ASSUME NEW k \in Conns, Answers(k) PROVE Outgoing'
  <2>1. PICK a \in Messages : reply' = [reply EXCEPT ![k] = <<a>>] /\ a.items = doc \ Head(inbox[k]).items
    BY <1>2, Answering
  <2>2. UNCHANGED <<doc, outbox>>
    BY <1>2 DEF Answers, serverVars
  <2>3. \A j \in Conns : \A m \in ToSet(reply'[j]) : m \in ToSet(reply[j]) \/ m = a
    BY <2>1, Singles DEF Typed, Channels
  <2> QED
    BY <1>1, <2>1, <2>2, <2>3
<1>3. ASSUME NEW k \in Conns, Replies(k) PROVE Outgoing'
  <2>1. UNCHANGED doc
    BY <1>3 DEF Replies, serverVars
  <2> QED
    BY <1>1, <1>3, <2>1, Replying
<1>4. ASSUME NEW k \in Conns, Applies(k) \/ Hears(k) \/ Drops(k) PROVE Outgoing'
  <2>1. UNCHANGED reply
    BY <1>4 DEF Applies, Hears, Drops
  <2>2. CASE Applies(k)
    BY <1>1, <2>1, <2>2, Applying DEF Broadcast
  <2>3. CASE Hears(k) \/ Drops(k)
    <3>1. doc' = doc
      BY <2>3 DEF Hears, Drops
    <3> QED
      BY <1>1, <2>1, <2>3, <3>1, Hearing, Dropping DEF Broadcast
  <2> QED
    BY <1>4, <2>2, <2>3
<1>5. ASSUME NEW k \in Conns, Closes(k) \/ Expires(k) PROVE Outgoing'
  BY <1>1, <1>5 DEF Closes, Expires, Ends, serverVars
<1>6. CASE Restarts
  <2>1. \A k \in Conns : ToSet(outbox'[k]) = {} /\ ToSet(reply'[k]) = {}
    BY <1>6, Nothing DEF Restarts
  <2> QED
    BY <2>1 DEF Outgoing
<1>7. ASSUME NEW c \in Clients, NEW writes \in BOOLEAN, Opens(c, writes) PROVE Outgoing'
  <2>1. PICK k \in Conns : /\ \A j \in Conns \ {k} : outbox'[j] = outbox[j]
                           /\ \A m \in ToSet(outbox'[k]) : m.items \subseteq doc
                           /\ UNCHANGED <<serverVars, reply>>
    BY <1>7, Opening
  <2> QED
    BY <1>1, <2>1 DEF serverVars
<1>8. ASSUME NEW c \in Clients, Receives(c) PROVE Outgoing'
  <2>1. PICK k \in Conns : /\ \A j \in Conns \ {k} : outbox'[j] = outbox[j]
                           /\ ToSet(outbox'[k]) \subseteq ToSet(outbox[k])
                           /\ UNCHANGED <<serverVars, reply>>
    BY <1>8, Receiving
  <2> QED
    BY <1>1, <2>1 DEF serverVars
<1>9. ASSUME NEW c \in Clients, Leaves(c) \/ IsCut(c) PROVE Outgoing'
  <2>1. outbox' = [outbox EXCEPT ![at[c]] = <<>>] /\ UNCHANGED <<doc, reply>>
    BY <1>9 DEF Leaves, IsCut, serverVars
  <2>2. \A j \in Conns : ToSet(outbox'[j]) \subseteq ToSet(outbox[j])
    BY <2>1, Nothing DEF Typed, Channels
  <2> QED
    BY <1>1, <2>1, <2>2
<1>10. ASSUME NEW c \in Clients, Edits(c) \/ Sets(c) \/ Learns(c) PROVE Outgoing'
  BY <1>1, <1>10 DEF Edits, Sets, Learns, serverVars, wireVars
<1>11. CASE Saves \/ UNCHANGED vars
  BY <1>1, <1>11 DEF Saves, vars, serverVars, wireVars
<1> QED
  BY <1>2, <1>3, <1>4, <1>5, <1>6, <1>7, <1>8, <1>9, <1>10, <1>11 DEF Next, ServerStep

\* A step that does not take what is on its way, or takes it to where it goes.
Keeps(c) ==
  /\ \A m \in ToSet(inbox'[at[c]]) : m \in ToSet(inbox[at[c]]) \/ m.kind # "step1"
  /\ \A m \in ToSet(inbox[at[c]]) :
       \/ m \in ToSet(inbox'[at[c]])
       \/ /\ Data(m) /\ conn[at[c]].writes => m.items \subseteq doc'
          /\ m.kind = "step1" => \A x \in doc : x \in have[c] \/ Coming(c, x)'
  /\ ToSet(outbox[at[c]]) \subseteq ToSet(outbox'[at[c]])
  /\ ~conn'[at[c]].lossy =>
       /\ ToSet(reply[at[c]]) \subseteq ToSet(outbox'[at[c]]) \cup ToSet(reply'[at[c]])
       /\ \A x \in doc' \ doc : Coming(c, x)'

LEMMA Kept ==
  ASSUME Typed, NEW c \in Clients, Agrees(c), at'[c] = at[c], have'[c] = have[c], SameConns,
         doc \subseteq doc', Linked(c)' => Keeps(c)
  PROVE  Agrees(c)'
<1> SUFFICES ASSUME Linked(c)'
             PROVE  /\ Asking(c)'
                    /\ ~conn'[at'[c]].lossy => Down(c)'
                    /\ conn'[at'[c]].writes => Up(c)'
  BY DEF Agrees
<1>1. /\ at[c] \in Conns /\ Linked(c) /\ Keeps(c) /\ Asking(c)
      /\ ~conn'[at[c]].lossy => Down(c)
      /\ conn'[at[c]].writes => Up(c) /\ conn[at[c]].writes
  BY DEF Agrees, Linked, SameConns, Typed, OwnTypes
<1>2. Asking(c)'
  BY <1>1 DEF Asking, Keeps
<1>3. ASSUME ~conn'[at[c]].lossy, NEW x \in doc'
      PROVE  \/ x \in have'[c]
             \/ Coming(c, x)'
             \/ \E m \in ToSet(inbox'[at'[c]]) : m.kind = "step1"
  <2>1. CASE x \notin doc
    BY <1>1, <1>3, <2>1 DEF Keeps
  <2>2. CASE x \in have[c]
    BY <2>2
  <2>3. CASE Coming(c, x)
    BY <1>1, <1>3, <2>3 DEF Keeps, Coming
  <2>4. ASSUME NEW m \in ToSet(inbox[at[c]]), m.kind = "step1", x \in doc
        PROVE  \/ x \in have'[c]
               \/ Coming(c, x)'
               \/ \E n \in ToSet(inbox'[at'[c]]) : n.kind = "step1"
    BY <1>1, <2>4 DEF Keeps
  <2> QED
    BY <1>1, <1>3, <2>1, <2>2, <2>3, <2>4 DEF Down
<1>4. ASSUME conn'[at[c]].writes, NEW x \in have[c]
      PROVE  \/ x \in doc'
             \/ \E m \in ToSet(inbox'[at'[c]]) : Data(m) /\ x \in m.items
             \/ \E m \in ToSet(outbox'[at'[c]]) : m.kind = "step1"
  <2>1. CASE x \in doc
    BY <2>1
  <2>2. ASSUME NEW m \in ToSet(inbox[at[c]]), Data(m), x \in m.items
        PROVE  x \in doc' \/ m \in ToSet(inbox'[at[c]])
    BY <1>1, <1>4, <2>2 DEF Keeps
  <2>3. ASSUME NEW m \in ToSet(outbox[at[c]]), m.kind = "step1"
        PROVE  m \in ToSet(outbox'[at[c]])
    BY <1>1, <2>3 DEF Keeps
  <2> QED
    BY <1>1, <1>4, <2>1, <2>2, <2>3 DEF Up
<1> QED
  BY <1>2, <1>3, <1>4 DEF Down, Up

\* The actions that take a message of the client whose connection they serve.
LEMMA Serving ==
  ASSUME Typed, Typed', Attached, Outgoing, NEW k \in Conns, ServerStep(k) \/ Expires(k),
         NEW c \in Clients, Agrees(c)
  PROVE  Agrees(c)'
<1>1. UNCHANGED <<at, have>>
  BY DEF ServerStep, Answers, Replies, Applies, Hears, Closes, Expires, Ends, Drops, clientVars
<1>2. at[c] # 0 => at[c] \in Conns /\ Reads(at[c])
  BY ConnectionsAssumption DEF Typed, OwnTypes, Attached, Reads
<1>3. at[c] = k => Reads(k)
  BY <1>2, ConnectionsAssumption DEF Conns
<1>4. CASE Answers(k)
  <2>1. PICK a \in Messages : /\ reply' = [reply EXCEPT ![k] = <<a>>] /\ a.kind = "step2"
                             /\ a.items = doc \ Head(inbox[k]).items
    BY <1>4, Answering
  <2>2. UNCHANGED <<doc, conn, outbox>>
    BY <1>4 DEF Answers, serverVars
  <2>3. SameConns
    BY <2>2 DEF SameConns, Typed
  <2>4. /\ Head(inbox[k]).kind = "step1" /\ reply[k] = <<>>
        /\ \A j \in Conns \ {k} : inbox'[j] = inbox[j]
        /\ ToSet(inbox[k]) = {Head(inbox[k])} \cup ToSet(inbox'[k])
    <3>1. Handles(k, {"step1"})
      BY <1>4 DEF Answers
    <3>2. Head(inbox[k]).kind \in {"step1"}
      BY <3>1, Handling
    <3> QED
      BY <3>1, <3>2, Handling
  <2>5. ToSet(reply'[k]) = {a} /\ ToSet(reply[k]) = {} /\ \A j \in Conns \ {k} : reply'[j] = reply[j]
    BY <2>1, <2>4, Singles, Nothing DEF Typed, Channels
  <2>6. ASSUME Linked(c)' PROVE Keeps(c)
    <3>1. at[c] \in Conns
      BY <1>1, <1>2, <2>6 DEF Linked
    <3>2. CASE at[c] = k
      <4>1. Head(inbox[k]).items \subseteq have[c]
        BY <1>1, <2>2, <2>4, <2>6, <3>2 DEF Agrees, Linked, Asking
      <4>2. \A x \in doc : x \in have[c] \/ Coming(c, x)'
        BY <1>1, <2>1, <2>5, <3>2, <4>1 DEF Coming, Data
      <4> QED
        BY <2>2, <2>4, <2>5, <3>2, <4>2 DEF Keeps, Data
    <3>3. CASE at[c] # k
      BY <2>2, <2>4, <2>5, <3>1, <3>3 DEF Keeps
    <3> QED
      BY <3>2, <3>3
  <2> QED
    BY <1>1, <2>2, <2>3, <2>6, Kept
<1>5. CASE Replies(k)
  <2>1. /\ SameConns
        /\ \A j \in Conns : ToSet(outbox[j]) \subseteq ToSet(outbox'[j])
        /\ \A j \in Conns \ {k} : reply'[j] = reply[j]
        /\ Reads(k) /\ ~conn'[k].lossy => ToSet(reply[k]) \subseteq ToSet(outbox'[k])
    BY <1>5, Replying
  <2>2. UNCHANGED <<doc, inbox>>
    BY <1>5 DEF Replies, serverVars
  <2>3. ASSUME Linked(c)' PROVE Keeps(c)
    <3>1. at[c] \in Conns
      BY <1>1, <1>2, <2>3 DEF Linked
    <3> QED
      BY <1>3, <2>1, <2>2, <3>1 DEF Keeps
  <2> QED
    BY <1>1, <2>1, <2>2, <2>3, Kept
<1>6. CASE Applies(k)
  <2>1. /\ doc \subseteq doc' /\ SameConns
        /\ conn[k].writes => Head(inbox[k]).items \subseteq doc'
        /\ \A j \in Conns : ToSet(outbox[j]) \subseteq ToSet(outbox'[j])
        /\ \A j \in Conns : conn'[j].phase = "open" /\ Reads(j) /\ ~conn'[j].lossy =>
             \A x \in doc' \ doc : \E m \in ToSet(outbox'[j]) : Data(m) /\ x \in m.items
    BY <1>6, Applying DEF Broadcast
  <2>2. UNCHANGED reply
    BY <1>6 DEF Applies
  <2>3. /\ Head(inbox[k]).kind # "step1"
        /\ \A j \in Conns \ {k} : inbox'[j] = inbox[j]
        /\ ToSet(inbox[k]) = {Head(inbox[k])} \cup ToSet(inbox'[k])
    <3>1. Handles(k, {"step2", "update"})
      BY <1>6 DEF Applies
    <3>2. Head(inbox[k]).kind \in {"step2", "update"}
      BY <3>1, Handling
    <3> QED
      BY <3>1, <3>2, Handling
  <2>4. ASSUME Linked(c)' PROVE Keeps(c)
    <3>1. at[c] \in Conns /\ Reads(at[c]) /\ conn'[at[c]].phase = "open"
      BY <1>1, <1>2, <2>4 DEF Linked
    <3>2. ~conn'[at[c]].lossy => \A x \in doc' \ doc : Coming(c, x)'
      BY <1>1, <2>1, <3>1 DEF Coming
    <3>3. \A m \in ToSet(inbox'[at[c]]) : m \in ToSet(inbox[at[c]])
      BY <2>3, <3>1
    <3>4. \A m \in ToSet(inbox[at[c]]) :
            m \in ToSet(inbox'[at[c]]) \/ (m = Head(inbox[k]) /\ at[c] = k)
      BY <2>3, <3>1
    <3> QED
      BY <2>1, <2>2, <2>3, <3>1, <3>2, <3>3, <3>4 DEF Keeps
  <2> QED
    BY <1>1, <2>1, <2>4, Kept
<1>7. CASE Hears(k) \/ Drops(k)
  <2>1. SameConns /\ \A j \in Conns : ToSet(outbox[j]) \subseteq ToSet(outbox'[j])
    BY <1>7, Hearing, Dropping DEF Broadcast
  <2>2. UNCHANGED <<doc, reply>>
    BY <1>7 DEF Hears, Drops
  <2>3. \A j \in Conns : /\ ToSet(inbox'[j]) \subseteq ToSet(inbox[j])
                         /\ \A m \in ToSet(inbox[j]) : m \in ToSet(inbox'[j]) \/ m.kind = "aware"
    <3>1. CASE Hears(k)
      <4>1. /\ Head(inbox[k]).kind = "aware"
            /\ \A j \in Conns \ {k} : inbox'[j] = inbox[j]
            /\ ToSet(inbox[k]) = {Head(inbox[k])} \cup ToSet(inbox'[k])
        <5>1. Handles(k, {"aware"})
          BY <3>1 DEF Hears
        <5>2. Head(inbox[k]).kind \in {"aware"}
          BY <5>1, Handling
        <5> QED
          BY <5>1, <5>2, Handling
      <4> QED
        BY <4>1
    <3>2. CASE Drops(k)
      BY <3>2 DEF Drops
    <3> QED
      BY <1>7, <3>1, <3>2
  <2>4. ASSUME Linked(c)' PROVE Keeps(c)
    <3>1. at[c] \in Conns
      BY <1>1, <1>2, <2>4 DEF Linked
    <3> QED
      BY <2>1, <2>2, <2>3, <3>1 DEF Keeps, Data
  <2> QED
    BY <1>1, <2>1, <2>2, <2>4, Kept
<1>8. CASE Closes(k) \/ Expires(k)
  <2>1. /\ inbox' = [inbox EXCEPT ![k] = <<>>] /\ conn' = [conn EXCEPT ![k].phase = "ending"]
        /\ UNCHANGED <<doc, outbox, reply>>
    BY <1>8 DEF Closes, Expires, Ends, serverVars
  <2>2. SameConns
    BY <2>1 DEF SameConns, Typed, ConnTypes
  <2>3. ASSUME Linked(c)' PROVE Keeps(c)
    <3>1. at[c] \in Conns
      BY <1>1, <1>2, <2>3 DEF Linked
    <3>2. at[c] # k
      BY <1>1, <2>1, <2>3 DEF Linked, Typed, ConnTypes
    <3>3. inbox'[at[c]] = inbox[at[c]]
      BY <2>1, <3>1, <3>2 DEF Typed, Channels
    <3> QED
      BY <2>1, <3>3 DEF Keeps
  <2> QED
    BY <1>1, <2>1, <2>2, <2>3, Kept
<1> QED
  BY <1>4, <1>5, <1>6, <1>7, <1>8 DEF ServerStep

\* A step that leaves a client and its connection alone.
LEMMA Untouched ==
  ASSUME NEW c \in Clients, Agrees(c), at'[c] = at[c], have'[c] = have[c], UNCHANGED doc,
         conn'[at[c]] = conn[at[c]], inbox'[at[c]] = inbox[at[c]], outbox'[at[c]] = outbox[at[c]],
         reply'[at[c]] = reply[at[c]]
  PROVE  Agrees(c)'
<1>1. Asking(c)' = Asking(c)
  BY DEF Asking
<1>2. Down(c)' = Down(c)
  BY DEF Down, Coming
<1>3. Up(c)' = Up(c)
  BY DEF Up
<1> QED
  BY <1>1, <1>2, <1>3 DEF Agrees, Linked

LEMMA OpensAgreed ==
  ASSUME Typed, Typed', Attached, Outgoing, NEW d \in Clients, NEW writes \in BOOLEAN, Opens(d, writes),
         NEW c \in Clients, Agrees(c)
  PROVE  Agrees(c)'
<1>1. PICK k \in Conns :
        /\ k = used + 1 /\ at' = [at EXCEPT ![d] = k]
        /\ conn' = [conn EXCEPT ![k] = [Unused EXCEPT !.phase = "open", !.client = d, !.writes = writes]]
        /\ \A j \in Conns \ {k} : outbox'[j] = outbox[j] /\ inbox'[j] = inbox[j]
        /\ \E m \in ToSet(outbox'[k]) : m.kind = "step1"
        /\ \A m \in ToSet(inbox'[k]) : m.kind = "step1" => m.items \subseteq have[d]
        /\ \E m \in ToSet(inbox'[k]) : m.kind = "step1"
        /\ UNCHANGED <<doc, reply, have>>
  BY Opening DEF serverVars
<1>2. CASE c = d
  <2>1. at'[c] = k
    BY <1>1, <1>2 DEF Typed, OwnTypes
  <2>2. Asking(c)' /\ Down(c)' /\ Up(c)'
    <3>1. Asking(c)'
      BY <1>1, <1>2, <2>1 DEF Asking
    <3>2. Down(c)' /\ Up(c)'
      BY <1>1, <2>1 DEF Down, Up
    <3> QED
      BY <3>1, <3>2
  <2> QED
    BY <2>2 DEF Agrees
<1>3. CASE c # d
  <2>1. at'[c] = at[c]
    BY <1>1, <1>3 DEF Typed, OwnTypes
  <2>2. CASE at[c] = 0
    BY <2>1, <2>2 DEF Agrees, Linked
  <2>3. CASE at[c] # 0
    <3>1. at[c] \in Conns /\ at[c] # k
      BY <1>1, <2>3, ConnectionsAssumption DEF Attached, Typed, OwnTypes, Conns
    <3>2. /\ conn'[at[c]] = conn[at[c]] /\ outbox'[at[c]] = outbox[at[c]]
          /\ inbox'[at[c]] = inbox[at[c]]
      BY <1>1, <3>1 DEF Typed, ConnTypes
    <3> QED
      BY <1>1, <2>1, <3>2, Untouched
  <2> QED
    BY <2>2, <2>3
<1> QED
  BY <1>2, <1>3

\* Where a client has no open connection there is nothing to agree on.
LEMMA Unlinked ==
  ASSUME NEW c, at'[c] = 0
  PROVE  Agrees(c)'
BY DEF Agrees, Linked

\* What another client sends does not reach this one's connection.
LEMMA Apart ==
  ASSUME Typed, Attached, NEW c \in Clients, NEW d \in Clients \ {c}, at[c] # 0
  PROVE  at[c] \in Conns /\ at[c] # at[d]
BY DEF Typed, OwnTypes, Attached

LEMMA EditsAgreed ==
  ASSUME Typed, Typed', Attached, NEW d \in Clients, Edits(d), NEW c \in Clients, Agrees(c)
  PROVE  Agrees(c)'
<1>1. PICK i \in Items, a \in Messages :
        /\ have' = [have EXCEPT ![d] = @ \cup {i}] /\ Posts(d, <<a>>)
        /\ a.kind = "update" /\ a.items = {i}
  BY Editing
<1>2. UNCHANGED <<doc, conn, outbox, reply, at>>
  BY DEF Edits, serverVars
<1>3. PICK msgs \in Seq(Messages) : Posts(d, msgs) /\ ToSet(msgs) = {a}
  BY <1>1, Singles
<1>4. /\ \A k \in Conns : /\ k # at[d] => inbox'[k] = inbox[k]
                          /\ ToSet(inbox[k]) \subseteq ToSet(inbox'[k])
                          /\ ToSet(inbox'[k]) \subseteq ToSet(inbox[k]) \cup {a}
      /\ at[d] # 0 /\ conn[at[d]].phase = "open" =>
           ToSet(inbox'[at[d]]) = ToSet(inbox[at[d]]) \cup {a}
  BY <1>3, Posting
<1>5. CASE c = d
  <2>1. have'[c] = have[c] \cup {i}
    BY <1>1, <1>5 DEF Typed, OwnTypes
  <2>2. SUFFICES ASSUME Linked(c)
                 PROVE  /\ Asking(c)'
                        /\ ~conn[at[c]].lossy => Down(c)'
                        /\ conn[at[c]].writes => Up(c)'
    BY <1>2 DEF Agrees, Linked
  <2>3. /\ at[c] \in Conns /\ ToSet(inbox'[at[c]]) = ToSet(inbox[at[c]]) \cup {a}
        /\ Asking(c) /\ (~conn[at[c]].lossy => Down(c)) /\ (conn[at[c]].writes => Up(c))
    BY <1>4, <1>5, <2>2 DEF Agrees, Linked, Typed, OwnTypes
  <2>4. Asking(c)'
    BY <1>1, <1>2, <2>1, <2>3 DEF Asking
  <2>5. ASSUME Down(c) PROVE Down(c)'
    BY <1>2, <2>1, <2>3, <2>5 DEF Down, Coming
  <2>6. ASSUME Up(c) PROVE Up(c)'
    BY <1>1, <1>2, <2>1, <2>3, <2>6 DEF Up, Data
  <2> QED
    BY <2>3, <2>4, <2>5, <2>6
<1>6. CASE c # d
  <2>1. have'[c] = have[c]
    BY <1>1, <1>6 DEF Typed, OwnTypes
  <2>2. CASE at[c] = 0
    BY <1>2, <2>2, Unlinked
  <2>3. CASE at[c] # 0
    <3>1. inbox'[at[c]] = inbox[at[c]]
      BY <1>4, <1>6, <2>3, Apart
    <3> QED
      BY <1>2, <2>1, <3>1, Untouched
  <2> QED
    BY <2>2, <2>3
<1> QED
  BY <1>5, <1>6

LEMMA ReceivesAgreed ==
  ASSUME Typed, Typed', Attached, Outgoing, NEW d \in Clients, Receives(d), NEW c \in Clients, Agrees(c)
  PROVE  Agrees(c)'
<1>1. PICK k, m : k = at[d] /\ m = Head(outbox[k])
  OBVIOUS
<1>2. /\ k \in Conns /\ m \in Messages /\ ToSet(outbox[k]) = {m} \cup ToSet(outbox'[k])
      /\ \A j \in Conns \ {k} : outbox'[j] = outbox[j] /\ inbox'[j] = inbox[j]
      /\ have' = [have EXCEPT ![d] = IF Data(m) THEN @ \cup m.items ELSE @]
      /\ ToSet(inbox[k]) \subseteq ToSet(inbox'[k])
      /\ \A x \in ToSet(inbox'[k]) \ ToSet(inbox[k]) : x.kind # "step1"
      /\ m.kind = "step1" /\ conn[k].phase = "open" =>
           \A i \in have[d] \ m.items : \E x \in ToSet(inbox'[k]) : Data(x) /\ i \in x.items
      /\ UNCHANGED <<doc, conn, reply, at>>
  BY <1>1, Receiving DEF serverVars
<1>3. m.items \subseteq doc
  BY <1>2 DEF Outgoing
<1>4. CASE c = d
  <2>1. have[c] \subseteq have'[c] /\ have'[c] \subseteq have[c] \cup m.items /\ (Data(m) => m.items \subseteq have'[c])
    BY <1>2, <1>4 DEF Typed, OwnTypes
  <2>2. SUFFICES ASSUME Linked(c)
                 PROVE  /\ Asking(c)'
                        /\ ~conn[k].lossy => Down(c)'
                        /\ conn[k].writes => Up(c)'
    BY <1>1, <1>2, <1>4 DEF Agrees, Linked
  <2>3. /\ at[c] = k /\ at'[c] = k /\ conn[k].phase = "open"
        /\ Asking(c) /\ (~conn[k].lossy => Down(c)) /\ (conn[k].writes => Up(c))
    BY <1>1, <1>2, <1>4, <2>2 DEF Agrees, Linked
  <2>4. Asking(c)'
    BY <1>2, <2>1, <2>3 DEF Asking
  <2>5. ASSUME Down(c), NEW x \in doc
        PROVE  \/ x \in have'[c]
               \/ Coming(c, x)'
               \/ \E n \in ToSet(inbox'[k]) : n.kind = "step1"
    <3>1. CASE x \in have[c]
      BY <2>1, <3>1
    <3>2. CASE Coming(c, x)
      BY <1>2, <2>1, <2>3, <3>2 DEF Coming
    <3>3. CASE \E n \in ToSet(inbox[k]) : n.kind = "step1"
      BY <1>2, <3>3
    <3> QED
      BY <2>3, <2>5, <3>1, <3>2, <3>3 DEF Down
  <2>6. ASSUME Up(c), NEW x \in have'[c]
        PROVE  \/ x \in doc
               \/ \E n \in ToSet(inbox'[k]) : Data(n) /\ x \in n.items
               \/ \E n \in ToSet(outbox'[k]) : n.kind = "step1"
    <3>1. CASE x \in m.items
      BY <1>3, <3>1
    <3>2. CASE x \notin m.items
      <4>1. x \in have[c]
        BY <2>1, <2>6, <3>2
      <4>2. ASSUME NEW n \in ToSet(outbox[k]), n.kind = "step1"
            PROVE  \/ \E y \in ToSet(inbox'[k]) : Data(y) /\ x \in y.items
                   \/ \E y \in ToSet(outbox'[k]) : y.kind = "step1"
        BY <1>2, <1>4, <2>3, <3>2, <4>1, <4>2
      <4> QED
        BY <1>2, <2>3, <2>6, <4>1, <4>2 DEF Up
    <3> QED
      BY <3>1, <3>2
  <2>7. Down(c) => Down(c)'
    BY <1>2, <2>3, <2>5 DEF Down
  <2>8. Up(c) => Up(c)'
    BY <1>2, <2>3, <2>6 DEF Up
  <2> QED
    BY <2>3, <2>4, <2>7, <2>8
<1>5. CASE c # d
  <2>1. have'[c] = have[c]
    BY <1>2, <1>5 DEF Typed, OwnTypes
  <2>2. CASE at[c] = 0
    BY <1>2, <2>2, Unlinked
  <2>3. CASE at[c] # 0
    <3>1. at[c] \in Conns \ {k}
      BY <1>1, <1>5, <2>3, Apart
    <3> QED
      BY <1>2, <2>1, <3>1, Untouched
  <2> QED
    BY <2>2, <2>3
<1> QED
  BY <1>4, <1>5

LEMMA SetsAgreed ==
  ASSUME Typed, Typed', Attached, NEW d \in Clients, Sets(d), NEW c \in Clients, Agrees(c)
  PROVE  Agrees(c)'
<1>1. PICK a \in Messages : Posts(d, <<a>>) /\ a.kind = "aware"
  <2>1. clock[d] + 1 \in Nat /\ Posts(d, <<One(d, clock[d] + 1, clock[d] + 1)>>)
    BY DEF Sets, One, Typed, OwnTypes
  <2> QED
    BY <2>1, OneTyped
<1>2. PICK msgs \in Seq(Messages) : Posts(d, msgs) /\ ToSet(msgs) = {a}
  BY <1>1, Singles
<1>3. \A k \in Conns : /\ ToSet(inbox[k]) \subseteq ToSet(inbox'[k])
                       /\ ToSet(inbox'[k]) \subseteq ToSet(inbox[k]) \cup {a}
  BY <1>2, Posting
<1>4. UNCHANGED <<doc, conn, outbox, reply, have, at>>
  BY DEF Sets, serverVars
<1>5. SameConns
  BY <1>4 DEF SameConns, Typed
<1>6. ASSUME Linked(c)' PROVE Keeps(c)
  <2>1. at[c] \in Conns
    BY <1>4, <1>6 DEF Linked, Typed, OwnTypes
  <2> QED
    BY <1>1, <1>3, <1>4, <2>1 DEF Keeps
<1> QED
  BY <1>4, <1>5, <1>6, Kept

LEMMA PartsAgreed ==
  ASSUME Typed, Typed', Attached, NEW d \in Clients, Leaves(d) \/ Learns(d) \/ IsCut(d),
         NEW c \in Clients, Agrees(c)
  PROVE  Agrees(c)'
<1>1. at' = [at EXCEPT ![d] = 0] /\ UNCHANGED <<doc, have, reply>>
  BY DEF Leaves, Learns, IsCut, serverVars, wireVars
<1>2. CASE at'[c] = 0
  BY <1>2, Unlinked
<1>3. CASE at'[c] # 0
  <2>1. c # d /\ at'[c] = at[c] /\ at[c] # 0
    BY <1>1, <1>3 DEF Typed, OwnTypes
  <2>2. at[c] \in Conns /\ at[c] # at[d]
    BY <2>1, Apart
  <2>3. outbox'[at[c]] = outbox[at[c]]
    <3>1. outbox' \in {outbox, [outbox EXCEPT ![at[d]] = <<>>]}
      BY DEF Leaves, Learns, IsCut, wireVars
    <3> QED
      BY <2>2, <3>1 DEF Typed, Channels
  <2>4. inbox'[at[c]] = inbox[at[c]]
    <3>1. CASE Leaves(d)
      <4>1. PICK msgs \in Seq(Messages) : Posts(d, msgs)
        BY <3>1, CloseTyped, Singles DEF Leaves
      <4> QED
        BY <2>2, <4>1, Posting
    <3>2. CASE Learns(d) \/ IsCut(d)
      BY <3>2 DEF Learns, IsCut, wireVars
    <3> QED
      BY <3>1, <3>2
  <2>5. conn'[at[c]] = conn[at[c]]
    <3>1. conn' \in {conn, [conn EXCEPT ![at[d]].cut = TRUE]}
      BY DEF Leaves, Learns, IsCut, wireVars
    <3> QED
      BY <2>2, <3>1 DEF Typed, ConnTypes
  <2> QED
    BY <1>1, <2>1, <2>3, <2>4, <2>5, Untouched
<1> QED
  BY <1>2, <1>3

LEMMA AgreedStep ==
  ASSUME Typed, Typed', Attached, Outgoing, Agreed, [Next]_vars
  PROVE  Agreed'
<1> SUFFICES ASSUME NEW c \in Clients PROVE Agrees(c)'
  BY DEF Agreed
<1>1. Agrees(c)
  BY DEF Agreed
<1>2. ASSUME NEW k \in Conns, ServerStep(k) \/ Expires(k) PROVE Agrees(c)'
  BY <1>1, <1>2, Serving
<1>3. ASSUME NEW d \in Clients, NEW writes \in BOOLEAN, Opens(d, writes) PROVE Agrees(c)'
  BY <1>1, <1>3, OpensAgreed
<1>4. ASSUME NEW d \in Clients, Edits(d) \/ Sets(d) \/ Receives(d) \/ Leaves(d) \/ Learns(d) \/ IsCut(d)
      PROVE  Agrees(c)'
  BY <1>1, <1>4, EditsAgreed, SetsAgreed, ReceivesAgreed, PartsAgreed
<1>5. CASE Restarts
  <2>1. at'[c] = 0
    BY <1>5 DEF Restarts
  <2> QED
    BY <2>1, Unlinked
<1>6. CASE Saves \/ UNCHANGED vars
  <2>1. UNCHANGED <<doc, conn, inbox, outbox, reply, have, at>>
    BY <1>6 DEF Saves, vars, serverVars, wireVars, clientVars
  <2> QED
    BY <1>1, <2>1, Untouched
<1> QED
  BY <1>2, <1>3, <1>4, <1>5, <1>6 DEF Next

LEMMA Covers == Spec => [](Attached /\ Outgoing /\ Agreed)
<1>1. Init => Attached /\ Outgoing /\ Agreed
  <2> SUFFICES ASSUME Init PROVE Attached /\ Outgoing /\ Agreed
    OBVIOUS
  <2>1. \A k \in Conns : ToSet(outbox[k]) = {} /\ ToSet(reply[k]) = {}
    BY Nothing DEF Init
  <2>2. \A c \in Clients : at[c] = 0
    BY DEF Init
  <2> QED
    BY <2>1, <2>2 DEF Attached, Outgoing, Agreed, Agrees, Linked
<1>2. Typed /\ Typed' /\ (Attached /\ Outgoing /\ Agreed) /\ [Next]_vars => (Attached /\ Outgoing /\ Agreed)'
  BY AttachedStep, OutgoingStep, AgreedStep
<1> QED
  BY <1>1, <1>2, Types, PTL DEF Spec

(* With nothing on its way, a client whose connection lost no message has  *)
(* the server's document, and the server all that a writing client has:    *)
(* whichever changes were made between the halves of the handshake, in     *)
(* whatever order the answer and the broadcasts reach the channel.         *)
THEOREM EveryoneConverges == Spec => []Converged
<1>1. Typed /\ Attached /\ Agreed => Converged
  <2> SUFFICES ASSUME Typed, Attached, Agreed, Quiet, NEW c \in Clients, Served(c)
               PROVE  doc \subseteq have[c] /\ (conn[at[c]].writes => have[c] \subseteq doc)
    BY DEF Converged
  <2> DEFINE k == at[c]
  <2>1. /\ k \in Conns /\ Linked(c) /\ ~conn[k].lossy
        /\ Down(c) /\ (conn[k].writes => Up(c))
    BY DEF Agreed, Agrees, Linked, Served, Typed, OwnTypes
  <2>2. Reads(k)
    BY <2>1, ConnectionsAssumption DEF Attached, Linked, Reads
  <2>3. inbox[k] = <<>> /\ reply[k] = <<>> /\ outbox[k] = <<>>
    BY <2>1, <2>2 DEF Quiet, Linked
  <2>4. ToSet(inbox[k]) = {} /\ ToSet(reply[k]) = {} /\ ToSet(outbox[k]) = {}
    BY <2>3, Nothing
  <2> QED
    BY <2>1, <2>4 DEF Down, Up, Coming
<1> QED
  BY <1>1, Types, Covers, PTL

-----------------------------------------------------------------------------
(* Presence.                                                               *)
(*                                                                         *)
(* Truthful: nothing that is said of who is present is ahead of what is    *)
(* known, except what a client says of itself.  Latches and Parts: every   *)
(* connection has or will have the id of its own client, and is open       *)
(* without it only as long as its Close is on the way.  Guarded, with the  *)
(* two: who is present has a connection that removes it.  Seen: where the  *)
(* server and a client differ on the client's presence, a message is on    *)
(* its way that will make them agree.                                      *)

\* What is told of a client that is present is what it has set, and not newer
\* than what the server knows, except from the client itself.
Sound(e, c) == e.state = 0 \/ (e.state = e.clock /\ e.clock <= clock[c])

OutTrue(m) ==
  m.kind = "aware" => \A c \in DOMAIN m.states :
    Sound(m.states[c], c) /\ (m.states[c].state # 0 => m.states[c].clock <= clocks[c])

InTrue(m, k) ==
  m.kind = "aware" => \A c \in DOMAIN m.states :
    /\ Sound(m.states[c], c)
    /\ m.states[c].state # 0 /\ conn[k].client # c => m.states[c].clock <= clocks[c]

Known(c) == states[c] \in {None, 0} \/ (states[c] = clocks[c] /\ clocks[c] <= clock[c])

Truthful ==
  /\ \A c \in Clients : Known(c)
  /\ \A k \in Conns : /\ \A m \in ToSet(inbox[k]) : InTrue(m, k)
                      /\ \A m \in ToSet(outbox[k]) : OutTrue(m)
                      /\ \A m \in ToSet(reply[k]) : m.kind # "aware"

\* A client first says who it is, so that its connection removes it, and no
\* other, when it ends; one that leaves has said so.
Own(m, c) == m.kind = "aware" /\ DOMAIN m.states = {c}

Greets(s, c) ==
  /\ s # <<>>
  /\ \/ Own(s[1], c)
     \/ s[1].kind = "step1" /\ Len(s) >= 2 /\ Own(s[2], c)

Latches(k) ==
  /\ k > used => conn[k].phase = "unused"
  /\ conn[k].phase = "open" =>
       /\ conn[k].client # None
       /\ conn[k].id = conn[k].client \/ (conn[k].id = None /\ Greets(inbox[k], conn[k].client))
  /\ conn[k].phase = "ending" => conn[k].id \in {None, conn[k].client}

Parts(k) ==
  conn[k].phase = "open" /\ ~conn[k].cut /\ at[conn[k].client] # k =>
    \E m \in ToSet(inbox[k]) : m.kind = "close"

\* Whoever is present has a connection that will remove it.
Holds(k, c) == conn[k].phase \in {"open", "ending"} /\ conn[k].client = c /\ conn[k].id = c

Guarded(c) == states[c] \notin {None, 0} => \E k \in Conns : Holds(k, c)

\* A presence that the server does not have yet is on its way to it; one that
\* it holds to be gone is on its way to the client, which will object.
Says(m, c, s, n) ==
  m.kind = "aware" /\ c \in DOMAIN m.states /\ m.states[c].state = s /\ m.states[c].clock = n

Seen(c) ==
  Served(c) =>
    /\ states[c] = 0 /\ clocks[c] >= clock[c] =>
         \E m \in ToSet(outbox[at[c]]) : Says(m, c, 0, clocks[c])
    /\ clocks[c] < clock[c] =>
         \E m \in ToSet(inbox[at[c]]) : Says(m, c, clock[c], clock[c])

Present == /\ Truthful
           /\ \A k \in Conns : Latches(k) /\ Parts(k)
           /\ \A c \in Clients : Guarded(c) /\ Seen(c)

\* What the two actions do that change the presences: the message, what the
\* others are told of it, whom it is about, and who is told.
Heard(k, m, told, changed, to) ==
  /\ m = Head(inbox[k]) /\ m.kind = "aware"
  /\ \A c \in Clients : c \in changed <=> c \in DOMAIN m.states /\ Accepts(c, m.states[c])
  /\ \A c \in Clients \ changed : states'[c] = states[c] /\ clocks'[c] = clocks[c]
  /\ \A c \in changed : /\ states'[c] = Applied(c, m.states[c])
                        /\ clocks'[c] = m.states[c].clock
  /\ told.kind = "aware" /\ DOMAIN told.states = changed
  /\ \A c \in changed : told.states[c] = Told(states'[c], clocks'[c])
  /\ Given(to, <<told>>)
  /\ changed # {} => \A j \in Conns : conn[j].phase = "open" /\ Reads(j) => j \in to
  /\ \A j \in Conns :
       conn'[j] = [conn[j] EXCEPT !.id = IF j = k THEN Latched(k, m) ELSE @,
                     !.lossy = @ \/ (j \in to /\ Len(outbox[j]) = Capacity)]

LEMMA HearsThis ==
  ASSUME Typed, NEW k \in Conns, Hears(k)
  PROVE  \E m \in Messages, told \in Messages, changed \in SUBSET Clients, to \in SUBSET Conns :
           Heard(k, m, told, changed, to)
<1> DEFINE m == Head(inbox[k])
           changed == {c \in DOMAIN m.states : Accepts(c, m.states[c])}
           After(c) == IF c \in changed THEN Applied(c, m.states[c]) ELSE states[c]
           s == [c \in changed |-> Told(After(c), m.states[c].clock)]
           told == Aware(s)
           to == IF changed = {} THEN {} ELSE {j \in Subscribed : Reads(j)}
<1>1. m \in Messages /\ m.kind = "aware"
  <2>1. Handles(k, {"aware"})
    BY DEF Hears
  <2>2. m \in Messages /\ m.kind \in {"aware"}
    BY <2>1, Handling
  <2> QED
    BY <2>2
<1>2. changed \in SUBSET Clients /\ \A c \in changed : m.states[c].clock \in Nat /\ m.states[c].state \in {None} \cup Nat
  BY <1>1, MessageParts DEF Presences
<1>3. \A c \in Clients : After(c) \in {None} \cup Nat
  BY <1>2 DEF Applied, Typed, ServerTypes
<1>4. states' = [c \in Clients |-> After(c)]
      /\ clocks' = [c \in Clients |-> IF c \in changed THEN m.states[c].clock ELSE clocks[c]]
  BY DEF Hears
<1>5. /\ outbox' = [j \in Conns |-> IF j \in to THEN outbox[j] \o Fits(j, <<told>>) ELSE outbox[j]]
      /\ conn' = [j \in Conns |->
           [conn[j] EXCEPT !.id = IF j = k THEN Latched(k, m) ELSE @,
                           !.lossy = @ \/ (j \in to /\ Len(outbox[j]) = Capacity)]]
  BY DEF Hears
<1>6. /\ to \in SUBSET Conns
      /\ changed # {} => \A j \in Conns : conn[j].phase = "open" /\ Reads(j) => j \in to
  BY DEF Subscribed
<1>7. \A c \in Clients : c \in changed <=> c \in DOMAIN m.states /\ Accepts(c, m.states[c])
  OBVIOUS
<1>8. \A c \in changed : After(c) = Applied(c, m.states[c])
  OBVIOUS
<1>9. \A c \in Clients \ changed : After(c) = states[c]
  OBVIOUS
<1> HIDE DEF m, changed
<1>10. /\ \A c \in Clients \ changed : states'[c] = states[c] /\ clocks'[c] = clocks[c]
       /\ \A c \in changed : /\ states'[c] = Applied(c, m.states[c])
                             /\ clocks'[c] = m.states[c].clock
                             /\ states'[c] = After(c)
  <2> HIDE DEF After
  <2> QED
    BY <1>2, <1>4, <1>8, <1>9
<1>11. s \in [changed -> Presences]
  BY <1>2, <1>3 DEF Told, Presences
<1>12. \A c \in changed : s[c] = Told(states'[c], clocks'[c])
  <2> HIDE DEF After
  <2> QED
    BY <1>10
<1> HIDE DEF After, s
<1>13. told \in Messages /\ told.kind = "aware" /\ told.states = s
  BY <1>2, <1>11, AwareTyped
<1>14. DOMAIN told.states = changed /\ \A c \in changed : told.states[c] = Told(states'[c], clocks'[c])
  BY <1>11, <1>12, <1>13
<1> HIDE DEF told, to
<1>15. Given(to, <<told>>)
  BY <1>5 DEF Given
<1>16. \A j \in Conns :
         conn'[j] = [conn[j] EXCEPT !.id = IF j = k THEN Latched(k, m) ELSE @,
                       !.lossy = @ \/ (j \in to /\ Len(outbox[j]) = Capacity)]
  BY <1>5
<1>17. m = Head(inbox[k])
  BY DEF m
<1>18. m \in Messages /\ told \in Messages /\ changed \in SUBSET Clients /\ to \in SUBSET Conns
  BY <1>1, <1>2, <1>6, <1>13
<1>19. Heard(k, m, told, changed, to)
  BY <1>1, <1>6, <1>7, <1>10, <1>13, <1>14, <1>15, <1>16, <1>17 DEF Heard
<1> QED
  BY <1>18, <1>19, Zenon

LEMMA DropsThis ==
  ASSUME Typed, NEW k \in Conns, Drops(k)
  PROVE  /\ conn[k].phase = "ending"
         /\ \A c \in Clients : IF c = conn[k].id THEN states'[c] = None /\ clocks'[c] = clocks[c] + 1
                                                 ELSE states'[c] = states[c] /\ clocks'[c] = clocks[c]
         /\ outbox' \in [Conns -> Seq(Messages)]
         /\ \A j \in Conns : /\ ToSet(outbox[j]) \subseteq ToSet(outbox'[j])
                             /\ \A m \in ToSet(outbox'[j]) \ ToSet(outbox[j]) :
                                  \A c \in DOMAIN m.states : m.states[c].state = 0
         /\ \A j \in Conns : \E l \in BOOLEAN :
              /\ conn[j].lossy => l
              /\ conn'[j] = [conn[j] EXCEPT !.phase = IF j = k THEN "dropped" ELSE @, !.lossy = l]
         /\ UNCHANGED <<inbox, reply, have, clock, at, used>>
<1> DEFINE c == conn[k].id
           others == {j \in Subscribed : Reads(j)}
           one == One(c, 0, clocks[c] + 1)
           to == IF c = None THEN {} ELSE IF states[c] = None THEN {} ELSE others
<1>1. c \in Clients \cup {None}
  BY DEF Typed, ConnTypes
<1>2. /\ states' = IF c = None THEN states ELSE [states EXCEPT ![c] = None]
      /\ clocks' = IF c = None THEN clocks ELSE [clocks EXCEPT ![c] = @ + 1]
      /\ conn[k].phase = "ending" /\ UNCHANGED <<inbox, reply, have, clock, at, used>>
  BY DEF Drops, clientVars
<1>3. one = Aware([d \in {c} |-> [state |-> 0, clock |-> clocks[d] + 1]])
  BY DEF One
<1>4. /\ outbox' = [j \in Conns |-> IF j \in to THEN outbox[j] \o Fits(j, <<one>>) ELSE outbox[j]]
      /\ conn' = [j \in Conns |->
           [conn[j] EXCEPT !.phase = IF j = k THEN "dropped" ELSE @,
                           !.lossy = @ \/ (j \in to /\ Len(outbox[j]) = Capacity)]]
  BY <1>3 DEF Drops
<1>5. \A d \in Clients : IF d = c THEN states'[d] = None /\ clocks'[d] = clocks[d] + 1
                                  ELSE states'[d] = states[d] /\ clocks'[d] = clocks[d]
  BY <1>1, <1>2, ConnectionsAssumption DEF Typed, ServerTypes
<1>6. \A j \in Conns : \E l \in BOOLEAN :
        /\ conn[j].lossy => l
        /\ conn'[j] = [conn[j] EXCEPT !.phase = IF j = k THEN "dropped" ELSE @, !.lossy = l]
  <2> HIDE DEF to
  <2> SUFFICES ASSUME NEW j \in Conns
               PROVE  \E l \in BOOLEAN :
                        /\ conn[j].lossy => l
                        /\ conn'[j] = [conn[j] EXCEPT !.phase = IF j = k THEN "dropped" ELSE @, !.lossy = l]
    OBVIOUS
  <2>1. PICK l \in BOOLEAN : l = (conn[j].lossy \/ (j \in to /\ Len(outbox[j]) = Capacity))
    OBVIOUS
  <2> QED
    BY <1>4, <2>1
<1>7. /\ outbox' \in [Conns -> Seq(Messages)]
      /\ \A j \in Conns : /\ ToSet(outbox[j]) \subseteq ToSet(outbox'[j])
                          /\ \A m \in ToSet(outbox'[j]) \ ToSet(outbox[j]) :
                               \A d \in DOMAIN m.states : m.states[d].state = 0
  <2>1. CASE c = None
    <3>1. outbox' = outbox
      BY <1>4, <2>1 DEF Typed, Channels
    <3> QED
      BY <3>1 DEF Typed, Channels
  <2>2. CASE c # None
    <3>1. one \in Messages /\ \A d \in DOMAIN one.states : one.states[d].state = 0
      <4>1. c \in Clients /\ clocks[c] + 1 \in Nat
        BY <1>1, <2>2 DEF Typed, ServerTypes
      <4>2. one.states = [d \in {c} |-> [state |-> 0, clock |-> clocks[c] + 1]]
        BY DEF One, Aware
      <4>3. \A d \in DOMAIN one.states : one.states[d].state = 0
        BY <4>2
      <4>4. PICK n \in Nat : n = clocks[c] + 1
        BY <4>1
      <4>5. One(c, 0, n) \in Messages
        BY <4>1, OneTyped
      <4> QED
        BY <4>3, <4>4, <4>5
    <3> HIDE DEF one, to
    <3>2. PICK msgs \in Seq(Messages) : Given(to, msgs) /\ ToSet(msgs) = {one}
      BY <1>4, <3>1, Singles DEF Given
    <3> QED
      BY <3>1, <3>2, Giving
  <2> QED
    BY <2>1, <2>2
<1> QED
  BY <1>2, <1>5, <1>6, <1>7

\* A client's answer to what it is told of presences.
LEMMA ReturnsThis ==
  ASSUME Typed, NEW c \in Clients, NEW m \in Messages, m.kind = "aware", Returns(c, m)
  PROVE  /\ clock' = clock \/ (\E n \in Nat : clock' = [clock EXCEPT ![c] = n] /\ clock[c] < n)
         /\ c \in DOMAIN m.states /\ m.states[c].state = 0 /\ m.states[c].clock >= clock[c] =>
              clock'[c] = m.states[c].clock + 1
         /\ \E msgs \in Seq(Messages) :
              /\ Posts(c, msgs)
              /\ \A x \in ToSet(msgs) :
                   /\ x.kind = "aware"
                   /\ \A d \in DOMAIN x.states :
                        \/ d \in DOMAIN m.states /\ x.states[d] = m.states[d]
                        \/ d = c /\ x.states[d].state = clock'[c] /\ x.states[d].clock = clock'[c]
              /\ clock' # clock => \E x \in ToSet(msgs) : Says(x, c, clock'[c], clock'[c])
<1> DEFINE others == DOMAIN m.states \ {c}
           echo == IF others = {} THEN <<>> ELSE <<Aware([d \in others |-> m.states[d]])>>
           own == c \in DOMAIN m.states /\ m.states[c].state = 0 /\ m.states[c].clock >= clock[c]
           n == m.states[c].clock + 1
           back == IF own THEN <<One(c, n, n)>> ELSE <<>>
<1>1. /\ clock' = IF own THEN [clock EXCEPT ![c] = n] ELSE clock
      /\ Posts(c, echo \o back)
  BY DEF Returns, One
<1>2. others \in SUBSET Clients /\ [d \in others |-> m.states[d]] \in [others -> Presences]
      /\ others \subseteq DOMAIN m.states
  BY MessageParts
<1>3. own => n \in Nat /\ clock[c] < n
  <2> SUFFICES ASSUME own PROVE m.states[c].clock \in Nat /\ clock[c] \in Nat
    OBVIOUS
  <2> QED
    BY MessageParts DEF Presences, Typed, OwnTypes
<1>4. own => clock'[c] = n
  BY <1>1 DEF Typed, OwnTypes
<1>5. c \in DOMAIN m.states /\ m.states[c].state = 0 /\ m.states[c].clock >= clock[c] =>
        clock'[c] = m.states[c].clock + 1
  BY <1>4
<1> HIDE DEF others, own, n
<1>6. /\ echo \in Seq(Messages)
      /\ \A x \in ToSet(echo) :
           x.kind = "aware" /\ \A d \in DOMAIN x.states : d \in DOMAIN m.states /\ x.states[d] = m.states[d]
  <2>1. CASE others = {}
    BY <2>1, Nothing
  <2>2. CASE others # {}
    <3>1. PICK a \in Messages : /\ a = Aware([d \in others |-> m.states[d]]) /\ a.kind = "aware"
                                /\ a.states = [d \in others |-> m.states[d]]
      BY <1>2, AwareTyped
    <3>2. echo = <<a>>
      BY <2>2, <3>1
    <3>3. \A d \in DOMAIN a.states : d \in DOMAIN m.states /\ a.states[d] = m.states[d]
      BY <1>2, <3>1
    <3>4. echo \in Seq(Messages) /\ ToSet(echo) = {a}
      BY <3>2, Singles
    <3> HIDE DEF echo
    <3> QED
      BY <3>1, <3>3, <3>4
  <2> QED
    BY <2>1, <2>2
<1>7. /\ back \in Seq(Messages)
      /\ \A x \in ToSet(back) :
           x.kind = "aware" /\ \A d \in DOMAIN x.states :
             d = c /\ x.states[d].state = clock'[c] /\ x.states[d].clock = clock'[c]
      /\ own => \E x \in ToSet(back) : Says(x, c, clock'[c], clock'[c])
  <2>1. CASE ~own
    BY <2>1, Nothing
  <2>2. CASE own
    <3>1. PICK a \in Messages : a = One(c, n, n) /\ a.kind = "aware"
      <4>1. n \in Nat
        BY <1>3, <2>2
      <4> QED
        BY <4>1, OneTyped
    <3>2. a.states = [d \in {c} |-> [state |-> n, clock |-> n]]
      BY <3>1 DEF One, Aware
    <3>3. back = <<a>>
      BY <2>2, <3>1
    <3>4. back \in Seq(Messages) /\ ToSet(back) = {a}
      BY <3>3, Singles
    <3>5. \A d \in DOMAIN a.states : d = c /\ a.states[d].state = n /\ a.states[d].clock = n
      BY <3>2
    <3>6. Says(a, c, n, n)
      BY <3>1, <3>2 DEF Says
    <3>7. clock'[c] = n
      BY <1>4, <2>2
    <3> HIDE DEF back
    <3> QED
      BY <3>1, <3>4, <3>5, <3>6, <3>7
  <2> QED
    BY <2>1, <2>2
<1> HIDE DEF echo, back
<1>8. echo \o back \in Seq(Messages) /\ ToSet(echo \o back) = ToSet(echo) \cup ToSet(back)
  BY <1>6, <1>7, Joined
<1>9. PICK msgs : msgs = echo \o back
  OBVIOUS
<1>10. clock' = clock \/ (\E i \in Nat : clock' = [clock EXCEPT ![c] = i] /\ clock[c] < i)
  BY <1>1, <1>3
<1>11. clock' # clock => own
  BY <1>1
<1>12. /\ msgs \in Seq(Messages) /\ Posts(c, msgs) /\ ToSet(msgs) = ToSet(echo) \cup ToSet(back)
  BY <1>1, <1>8, <1>9
<1>13. \A x \in ToSet(msgs) :
         /\ x.kind = "aware"
         /\ \A d \in DOMAIN x.states :
              \/ d \in DOMAIN m.states /\ x.states[d] = m.states[d]
              \/ d = c /\ x.states[d].state = clock'[c] /\ x.states[d].clock = clock'[c]
  BY <1>6, <1>7, <1>12
<1>14. clock' # clock => \E x \in ToSet(msgs) : Says(x, c, clock'[c], clock'[c])
  BY <1>7, <1>11, <1>12
<1> QED
  BY <1>5, <1>10, <1>12, <1>13, <1>14

\* What a client does with a message m of its connection k: it sends msgs.
Received(c, k, m, msgs) ==
  /\ k = at[c] /\ m = Head(outbox[k])
  /\ ToSet(outbox[k]) = {m} \cup ToSet(outbox'[k])
  /\ \A j \in Conns \ {k} : outbox'[j] = outbox[j]
  /\ Posts(c, msgs)
  /\ clock' = clock \/ (\E n \in Nat : clock' = [clock EXCEPT ![c] = n] /\ clock[c] < n)
  /\ Says(m, c, 0, m.states[c].clock) /\ m.states[c].clock >= clock[c] =>
       clock'[c] = m.states[c].clock + 1
  /\ \A x \in ToSet(msgs) : x.kind = "aware" =>
       /\ m.kind = "aware"
       /\ \A d \in DOMAIN x.states :
            \/ d \in DOMAIN m.states /\ x.states[d] = m.states[d]
            \/ d = c /\ x.states[d].state = clock'[c] /\ x.states[d].clock = clock'[c]
  /\ clock' # clock => \E x \in ToSet(msgs) : Says(x, c, clock'[c], clock'[c])
  /\ UNCHANGED <<serverVars, conn, reply, at, used, ops>>

LEMMA ReceivesThis ==
  ASSUME Typed, NEW c \in Clients, Receives(c)
  PROVE  \E k \in Conns, m \in Messages, msgs \in Seq(Messages) : Received(c, k, m, msgs)
<1>1. PICK k, m : k = at[c] /\ m = Head(outbox[k])
  OBVIOUS
<1>2. /\ k \in Conns /\ m \in Messages /\ ToSet(outbox[k]) = {m} \cup ToSet(outbox'[k])
      /\ \A j \in Conns \ {k} : outbox'[j] = outbox[j]
      /\ UNCHANGED <<serverVars, conn, reply, at, used, ops>>
  BY <1>1, Receiving
<1>3. LET lacking == have[c] \ m.items
      IN  CASE m.kind = "step1" -> /\ Posts(c, IF lacking = {} THEN <<>> ELSE <<Sync("step2", lacking)>>)
                                   /\ UNCHANGED clock
            [] m.kind = "aware" -> Returns(c, m)
            [] OTHER -> UNCHANGED <<inbox, clock>>
  BY <1>1 DEF Receives
<1>4. CASE m.kind = "aware"
  <2>1. Returns(c, m)
    BY <1>3, <1>4
  <2>2. /\ clock' = clock \/ (\E n \in Nat : clock' = [clock EXCEPT ![c] = n] /\ clock[c] < n)
        /\ Says(m, c, 0, m.states[c].clock) /\ m.states[c].clock >= clock[c] =>
             clock'[c] = m.states[c].clock + 1
    BY <1>2, <1>4, <2>1, ReturnsThis DEF Says
  <2>3. PICK msgs \in Seq(Messages) :
          /\ Posts(c, msgs)
          /\ \A x \in ToSet(msgs) :
               /\ x.kind = "aware"
               /\ \A d \in DOMAIN x.states :
                    \/ d \in DOMAIN m.states /\ x.states[d] = m.states[d]
                    \/ d = c /\ x.states[d].state = clock'[c] /\ x.states[d].clock = clock'[c]
          /\ clock' # clock => \E x \in ToSet(msgs) : Says(x, c, clock'[c], clock'[c])
    BY <1>2, <1>4, <2>1, ReturnsThis, Zenon
  <2>4. Received(c, k, m, msgs)
    BY <1>1, <1>2, <1>4, <2>2, <2>3 DEF Received
  <2> QED
    BY <1>2, <2>4, Zenon
<1>5. CASE m.kind = "step1"
  <2>1. PICK lacking \in SUBSET Items : lacking = have[c] \ m.items
    BY DEF Typed, OwnTypes
  <2>2. PICK msgs : msgs = (IF lacking = {} THEN <<>> ELSE <<Sync("step2", lacking)>>)
    OBVIOUS
  <2>3. Posts(c, msgs) /\ UNCHANGED clock
    BY <1>3, <1>5, <2>1, <2>2
  <2>4. msgs \in Seq(Messages) /\ \A x \in ToSet(msgs) : x.kind = "step2"
    <3>1. CASE lacking = {}
      BY <2>2, <3>1, Nothing
    <3>2. CASE lacking # {}
      <4>1. PICK a \in Messages : a = Sync("step2", lacking) /\ a.kind = "step2"
        BY SyncTyped DEF Kinds
      <4>2. msgs = <<a>>
        BY <2>2, <3>2, <4>1
      <4> QED
        BY <4>1, <4>2, Singles
    <3> QED
      BY <3>1, <3>2
  <2> QED
    BY <1>1, <1>2, <1>5, <2>3, <2>4 DEF Says, Received
<1>6. CASE m.kind \notin {"step1", "aware"}
  <2>1. UNCHANGED <<inbox, clock>>
    BY <1>3, <1>6
  <2>2. PICK msgs \in Seq(Messages) : msgs = <<>> /\ ToSet(msgs) = {}
    BY Nothing
  <2>3. Posts(c, msgs)
    <3>1. \A k1 \in Conns : inbox[k1] \o <<>> = inbox[k1]
      BY DEF Typed, Channels
    <3>2. at[c] # 0 => [inbox EXCEPT ![at[c]] = @ \o <<>>] = inbox
      BY <3>1 DEF Typed, Channels, OwnTypes
    <3> QED
      BY <2>1, <2>2, <3>2 DEF Posts
  <2> QED
    BY <1>1, <1>2, <1>6, <2>1, <2>2, <2>3 DEF Says, Received
<1> QED
  BY <1>4, <1>5, <1>6

\* What is true stays true while the clocks only rise, and new messages are.
LEMMA StaysTrue ==
  ASSUME Typed, Typed', Truthful,
         \A c \in Clients : Known(c)' /\ clocks[c] <= clocks'[c] /\ clock[c] <= clock'[c],
         \A k \in Conns : \A m \in ToSet(inbox'[k]) :
           (m \in ToSet(inbox[k]) /\ conn'[k].client = conn[k].client) \/ InTrue(m, k)',
         \A k \in Conns : \A m \in ToSet(outbox'[k]) : m \in ToSet(outbox[k]) \/ OutTrue(m)',
         \A k \in Conns : \A m \in ToSet(reply'[k]) : m \in ToSet(reply[k]) \/ m.kind # "aware"
  PROVE  Truthful'
<1>t. \A c \in Clients : clocks[c] \in Nat /\ clocks'[c] \in Nat /\ clock[c] \in Nat /\ clock'[c] \in Nat
  BY DEF Typed, OwnTypes, ServerTypes
<1>m. ASSUME NEW m \in Messages, NEW c \in DOMAIN m.states
      PROVE  c \in Clients /\ m.states[c].clock \in Nat
  BY <1>m, MessageParts DEF Presences
<1>1. ASSUME NEW k \in Conns, NEW m \in ToSet(inbox'[k]) PROVE InTrue(m, k)'
  <2>1. CASE m \in ToSet(inbox[k]) /\ conn'[k].client = conn[k].client
    <3>1. m \in Messages
      BY <2>1, Shown DEF Typed, Channels
    <3>2. InTrue(m, k)
      BY <2>1 DEF Truthful
    <3> SUFFICES ASSUME m.kind = "aware", NEW c \in DOMAIN m.states
                 PROVE  /\ Sound(m.states[c], c)'
                        /\ m.states[c].state # 0 /\ conn'[k].client # c => m.states[c].clock <= clocks'[c]
      BY DEF InTrue
    <3>3. /\ Sound(m.states[c], c)
          /\ m.states[c].state # 0 /\ conn'[k].client # c => m.states[c].clock <= clocks[c]
      BY <2>1, <3>2 DEF InTrue
    <3>4. c \in Clients /\ m.states[c].clock \in Nat
      BY <1>m, <3>1
    <3> QED
      BY <1>t, <3>3, <3>4 DEF Sound
  <2> QED
    BY <1>1, <2>1
<1>2. ASSUME NEW k \in Conns, NEW m \in ToSet(outbox'[k]) PROVE OutTrue(m)'
  <2>1. CASE m \in ToSet(outbox[k])
    <3>1. m \in Messages
      BY <2>1, Shown DEF Typed, Channels
    <3>2. OutTrue(m)
      BY <2>1 DEF Truthful
    <3> SUFFICES ASSUME m.kind = "aware", NEW c \in DOMAIN m.states
                 PROVE  /\ Sound(m.states[c], c)'
                        /\ m.states[c].state # 0 => m.states[c].clock <= clocks'[c]
      BY DEF OutTrue
    <3>3. /\ Sound(m.states[c], c)
          /\ m.states[c].state # 0 => m.states[c].clock <= clocks[c]
      BY <3>2 DEF OutTrue
    <3>4. c \in Clients /\ m.states[c].clock \in Nat
      BY <1>m, <3>1
    <3> QED
      BY <1>t, <3>3, <3>4 DEF Sound
  <2> QED
    BY <1>2, <2>1
<1>3. \A k \in Conns : \A m \in ToSet(reply'[k]) : m.kind # "aware"
  BY DEF Truthful
<1> QED
  BY <1>1, <1>2, <1>3 DEF Truthful

\* A step that leaves the presences alone, and only says what is true.
LEMMA PresencesAlone ==
  ASSUME Typed, Typed', Truthful, UNCHANGED <<states, clocks, clock>>
  PROVE  \A c \in Clients : Known(c)' /\ clocks[c] <= clocks'[c] /\ clock[c] <= clock'[c]
<1>1. ASSUME NEW c \in Clients PROVE Known(c)'
  BY DEF Truthful, Known
<1>2. \A c \in Clients : clocks[c] \in Nat /\ clock[c] \in Nat
  BY DEF Typed, OwnTypes, ServerTypes
<1> QED
  BY <1>1, <1>2

LEMMA HearsTrue ==
  ASSUME Typed, Typed', Truthful, NEW k \in Conns, Hears(k)
  PROVE  /\ Truthful' /\ \A c \in Clients : clocks[c] <= clocks'[c]
<1>1. PICK m \in Messages, told \in Messages, changed \in SUBSET Clients, to \in SUBSET Conns :
        Heard(k, m, told, changed, to)
  BY HearsThis
<1>2. /\ \A j \in Conns \ {k} : inbox'[j] = inbox[j]
      /\ ToSet(inbox[k]) = {m} \cup ToSet(inbox'[k])
  BY <1>1, Handling DEF Hears, Heard
<1>3. UNCHANGED <<reply, clock>>
  BY DEF Hears, clientVars
<1>4. InTrue(m, k) /\ m.kind = "aware"
  BY <1>1, <1>2 DEF Truthful, Heard
<1>t. \A c \in Clients : /\ clocks[c] \in Nat /\ clocks'[c] \in Nat /\ clock[c] \in Nat
                         /\ states[c] \in {None} \cup Nat
  BY DEF Typed, OwnTypes, ServerTypes
<1>5. ASSUME NEW c \in changed
      PROVE  /\ Known(c)' /\ clocks[c] <= clocks'[c]
             /\ Sound(told.states[c], c)'
             /\ told.states[c].state # 0 => told.states[c].clock <= clocks'[c]
  <2>1. PICK e : e = m.states[c]
    OBVIOUS
  <2>2. /\ c \in Clients /\ c \in DOMAIN m.states /\ Accepts(c, e)
        /\ states'[c] = Applied(c, e) /\ clocks'[c] = e.clock
        /\ told.states[c] = Told(states'[c], clocks'[c])
    BY <1>1, <2>1 DEF Heard
  <2>3. Sound(e, c) /\ e.clock \in Nat
    BY <1>4, <2>1, <2>2, MessageParts DEF InTrue, Presences
  <2>4. clocks[c] <= clocks'[c]
    BY <1>t, <2>2, <2>3 DEF Accepts, Vacant, IsNew, Removed
  <2>5. states'[c] \in {None, 0} \/ (states'[c] = clocks'[c] /\ clocks'[c] <= clock[c])
    BY <2>2, <2>3 DEF Applied, Sound
  <2>6. told.states[c].clock = clocks'[c] /\ told.states[c].state \in {0, states'[c]}
        /\ (states'[c] = None => told.states[c].state = 0)
    BY <2>2 DEF Told
  <2>7. Known(c)'
    BY <1>3, <2>5 DEF Known
  <2>8. Sound(told.states[c], c)'
    BY <1>3, <2>5, <2>6 DEF Sound
  <2> QED
    BY <1>t, <2>2, <2>4, <2>6, <2>7, <2>8
<1>6. ASSUME NEW c \in Clients PROVE Known(c)' /\ clocks[c] <= clocks'[c]
  <2>1. CASE c \in changed
    BY <1>5, <2>1
  <2>2. CASE c \notin changed
    <3>1. states'[c] = states[c] /\ clocks'[c] = clocks[c]
      BY <1>1, <2>2 DEF Heard
    <3> QED
      BY <1>t, <1>3, <3>1 DEF Truthful, Known
  <2> QED
    BY <2>1, <2>2
<1>7. OutTrue(told)'
  BY <1>1, <1>5 DEF OutTrue, Heard
<1>8. \A j \in Conns : \A x \in ToSet(outbox'[j]) : x \in ToSet(outbox[j]) \/ x = told
  <2>1. Given(to, <<told>>) /\ <<told>> \in Seq(Messages) /\ ToSet(<<told>>) = {told}
    BY <1>1, Singles DEF Heard
  <2>2. PICK msgs \in Seq(Messages) : Given(to, msgs) /\ ToSet(msgs) = {told}
    BY <2>1
  <2> QED
    BY <2>2, Giving
<1>9. \A j \in Conns : conn'[j].client = conn[j].client
  BY <1>1 DEF Heard, Typed, ConnTypes
<1>10. \A c \in Clients : clock[c] <= clock'[c]
  BY <1>t, <1>3
<1>11. \A j \in Conns : ToSet(inbox'[j]) \subseteq ToSet(inbox[j])
  BY <1>2
<1>12. Truthful'
  BY <1>3, <1>6, <1>7, <1>8, <1>9, <1>10, <1>11, StaysTrue
<1> QED
  BY <1>6, <1>12

LEMMA DropsTrue ==
  ASSUME Typed, Typed', Truthful, NEW k \in Conns, Drops(k)
  PROVE  Truthful'
<1>1. /\ \A c \in Clients : IF c = conn[k].id THEN states'[c] = None /\ clocks'[c] = clocks[c] + 1
                                              ELSE states'[c] = states[c] /\ clocks'[c] = clocks[c]
      /\ \A j \in Conns : /\ ToSet(outbox[j]) \subseteq ToSet(outbox'[j])
                          /\ \A m \in ToSet(outbox'[j]) \ ToSet(outbox[j]) :
                               \A c \in DOMAIN m.states : m.states[c].state = 0
      /\ UNCHANGED <<inbox, reply, clock>>
  BY DropsThis
<1>2. \A j \in Conns : conn'[j].client = conn[j].client
  BY Dropping DEF SameConns
<1>t. \A c \in Clients : clocks[c] \in Nat /\ clock[c] \in Nat
  BY DEF Typed, OwnTypes, ServerTypes
<1>3. ASSUME NEW c \in Clients PROVE Known(c)' /\ clocks[c] <= clocks'[c] /\ clock[c] <= clock'[c]
  BY <1>1, <1>t DEF Truthful, Known
<1>4. ASSUME NEW j \in Conns, NEW m \in ToSet(outbox'[j]), m \notin ToSet(outbox[j]) PROVE OutTrue(m)'
  BY <1>1, <1>4 DEF OutTrue, Sound
<1> QED
  BY <1>1, <1>2, <1>3, <1>4, StaysTrue

LEMMA OpensTrue ==
  ASSUME Typed, Typed', Truthful, NEW c \in Clients, NEW writes \in BOOLEAN, Opens(c, writes)
  PROVE  Truthful'
<1>1. PICK k \in Conns :
        /\ k = used + 1
        /\ conn' = [conn EXCEPT ![k] = [Unused EXCEPT !.phase = "open", !.client = c, !.writes = writes]]
        /\ \A j \in Conns \ {k} : outbox'[j] = outbox[j] /\ inbox'[j] = inbox[j]
        /\ ToSet(outbox'[k]) = {Sync("step1", doc), Aware(Everyone)}
        /\ inbox'[k] = <<Sync("step1", have[c]), One(c, clock[c], clock[c])>>
        /\ UNCHANGED <<serverVars, reply, have, clock>>
  BY Opening
<1>2. \A d \in Clients : Known(d)' /\ clocks[d] <= clocks'[d] /\ clock[d] <= clock'[d]
  BY <1>1, PresencesAlone DEF serverVars
<1>t. \A d \in Clients : clocks[d] \in Nat /\ clock[d] \in Nat \ {0}
  BY DEF Typed, OwnTypes, ServerTypes
<1>3. conn'[k].client = c /\ \A j \in Conns \ {k} : conn'[j] = conn[j]
  BY <1>1 DEF Typed, ConnTypes, Unused
<1>4. ASSUME NEW m \in ToSet(outbox'[k]) PROVE OutTrue(m)'
  <2>1. CASE m = Sync("step1", doc)
    BY <2>1 DEF Sync, OutTrue
  <2>2. CASE m = Aware(Everyone)
    <3>1. m.states = Everyone
      BY <2>2 DEF Aware
    <3>2. ASSUME NEW d \in DOMAIN m.states
          PROVE  Sound(m.states[d], d)' /\ (m.states[d].state # 0 => m.states[d].clock <= clocks'[d])
      <4>1. d \in Clients /\ states[d] # None /\ m.states[d] = Entry(d)
        BY <3>1, <3>2 DEF Everyone
      <4>2. m.states[d].state = states[d] /\ m.states[d].clock = clocks[d]
        BY <4>1 DEF Entry
      <4>3. Known(d) /\ UNCHANGED <<clocks, clock>>
        BY <1>1, <4>1 DEF Truthful, serverVars
      <4> QED
        BY <1>t, <4>1, <4>2, <4>3 DEF Known, Sound
    <3> QED
      BY <3>2 DEF OutTrue
  <2> QED
    BY <1>1, <2>1, <2>2
<1>5. ASSUME NEW m \in ToSet(inbox'[k]) PROVE InTrue(m, k)'
  <2>1. m = Sync("step1", have[c]) \/ m = One(c, clock[c], clock[c])
    BY <1>1 DEF ToSet
  <2>2. CASE m = Sync("step1", have[c])
    BY <2>2 DEF Sync, InTrue
  <2>3. CASE m = One(c, clock[c], clock[c])
    <3>1. m.states = [d \in {c} |-> [state |-> clock[c], clock |-> clock[c]]]
      BY <2>3 DEF One, Aware
    <3> QED
      BY <1>1, <1>t, <1>3, <3>1 DEF InTrue, Sound
  <2> QED
    BY <2>1, <2>2, <2>3
<1>6. UNCHANGED reply
  BY <1>1
<1>7. \A j \in Conns : \A m \in ToSet(inbox'[j]) :
        (m \in ToSet(inbox[j]) /\ conn'[j].client = conn[j].client) \/ InTrue(m, j)'
  BY <1>1, <1>3, <1>5
<1>8. \A j \in Conns : \A m \in ToSet(outbox'[j]) : m \in ToSet(outbox[j]) \/ OutTrue(m)'
  BY <1>1, <1>4
<1> QED
  BY <1>2, <1>6, <1>7, <1>8, StaysTrue

LEMMA ReceivesTrue ==
  ASSUME Typed, Typed', Attached, Truthful, NEW c \in Clients, Receives(c)
  PROVE  Truthful'
<1>1. PICK k \in Conns, m \in Messages, msgs \in Seq(Messages) : Received(c, k, m, msgs)
  BY ReceivesThis
<1>2. /\ UNCHANGED <<states, clocks, conn, reply>>
      /\ \A j \in Conns : ToSet(outbox'[j]) \subseteq ToSet(outbox[j])
      /\ m \in ToSet(outbox[k]) /\ conn[k].client = c /\ at[c] = k /\ k # 0
  BY <1>1, ConnectionsAssumption DEF Received, serverVars, Attached, Conns
<1>t. \A d \in Clients : clocks[d] \in Nat /\ clock[d] \in Nat /\ clock'[d] \in Nat \ {0}
  BY DEF Typed, OwnTypes, ServerTypes
<1>3. ASSUME NEW d \in Clients PROVE clock[d] <= clock'[d]
  <2>1. clock' = clock \/ (\E n \in Nat : clock' = [clock EXCEPT ![c] = n] /\ clock[c] < n)
    BY <1>1 DEF Received
  <2>2. CASE clock' = clock
    BY <1>t, <2>2
  <2>3. ASSUME NEW n \in Nat, clock' = [clock EXCEPT ![c] = n], clock[c] < n
        PROVE  clock[d] <= clock'[d]
    <3>1. clock'[d] = IF d = c THEN n ELSE clock[d]
      BY <2>3 DEF Typed, OwnTypes
    <3> QED
      BY <1>t, <2>3, <3>1
  <2> QED
    BY <2>1, <2>2, <2>3
<1>4. ASSUME NEW d \in Clients PROVE Known(d)' /\ clocks[d] <= clocks'[d] /\ clock[d] <= clock'[d]
  BY <1>2, <1>t, <1>3 DEF Truthful, Known
<1>5. \A j \in Conns : /\ j # k => inbox'[j] = inbox[j]
                       /\ ToSet(inbox'[j]) \subseteq ToSet(inbox[j]) \cup ToSet(msgs)
  BY <1>1, <1>2, Posting DEF Received
<1>6. ASSUME NEW x \in ToSet(msgs) PROVE InTrue(x, k)'
  <2> SUFFICES ASSUME x.kind = "aware", NEW d \in DOMAIN x.states
               PROVE  /\ Sound(x.states[d], d)'
                      /\ x.states[d].state # 0 /\ conn'[k].client # d => x.states[d].clock <= clocks'[d]
    BY DEF InTrue
  <2>1. x \in Messages
    BY <1>6, Shown
  <2>2. d \in Clients /\ x.states[d].clock \in Nat
    BY <2>1, MessageParts DEF Presences
  <2>3. m.kind = "aware"
        /\ \/ d \in DOMAIN m.states /\ x.states[d] = m.states[d]
           \/ d = c /\ x.states[d].state = clock'[c] /\ x.states[d].clock = clock'[c]
    BY <1>1, <1>6 DEF Received
  <2>4. CASE d \in DOMAIN m.states /\ x.states[d] = m.states[d]
    <3>1. Sound(x.states[d], d) /\ (x.states[d].state # 0 => x.states[d].clock <= clocks[d])
      BY <1>2, <2>3, <2>4 DEF Truthful, OutTrue
    <3> QED
      BY <1>2, <1>t, <1>3, <2>2, <3>1 DEF Sound
  <2>5. CASE d = c /\ x.states[d].state = clock'[c] /\ x.states[d].clock = clock'[c]
    BY <1>2, <1>t, <2>2, <2>5 DEF Sound
  <2> QED
    BY <2>3, <2>4, <2>5
<1>7. \A j \in Conns : \A x \in ToSet(inbox'[j]) :
        (x \in ToSet(inbox[j]) /\ conn'[j].client = conn[j].client) \/ InTrue(x, j)'
  BY <1>2, <1>5, <1>6
<1> QED
  BY <1>2, <1>4, <1>7, StaysTrue

LEMMA TruthfulStep ==
  ASSUME Typed, Typed', Attached, Truthful, [Next]_vars
  PROVE  Truthful'
<1>1. ASSUME UNCHANGED <<states, clocks, clock>>,
             \A k \in Conns : \A m \in ToSet(inbox'[k]) :
               (m \in ToSet(inbox[k]) \/ InTrue(m, k)') /\ conn'[k].client = conn[k].client,
             \A k \in Conns : \A m \in ToSet(outbox'[k]) : m \in ToSet(outbox[k]) \/ m.kind # "aware",
             \A k \in Conns : \A m \in ToSet(reply'[k]) : m \in ToSet(reply[k]) \/ m.kind # "aware"
      PROVE  Truthful'
  <2>1. \A k \in Conns : \A m \in ToSet(outbox'[k]) : m \in ToSet(outbox[k]) \/ OutTrue(m)'
    BY <1>1 DEF OutTrue
  <2> QED
    BY <1>1, <2>1, PresencesAlone, StaysTrue
<1>2. ASSUME NEW k \in Conns, Answers(k) PROVE Truthful'
  <2>1. PICK a \in Messages : reply' = [reply EXCEPT ![k] = <<a>>] /\ a.kind = "step2"
    BY <1>2, Answering
  <2>2. \A j \in Conns : \A m \in ToSet(reply'[j]) : m \in ToSet(reply[j]) \/ m = a
    BY <2>1, Singles DEF Typed, Channels
  <2>3. UNCHANGED <<states, clocks, clock, conn, outbox>>
    BY <1>2 DEF Answers, serverVars, clientVars
  <2>4. \A j \in Conns : ToSet(inbox'[j]) \subseteq ToSet(inbox[j])
    BY <1>2, Handling DEF Answers
  <2> QED
    BY <1>1, <2>1, <2>2, <2>3, <2>4
<1>3. ASSUME NEW k \in Conns, Replies(k) PROVE Truthful'
  <2>1. UNCHANGED <<states, clocks, clock, inbox>>
    BY <1>3 DEF Replies, serverVars, clientVars
  <2>2. /\ \A j \in Conns : conn'[j].client = conn[j].client
        /\ \A j \in Conns \ {k} : outbox'[j] = outbox[j] /\ reply'[j] = reply[j]
        /\ ToSet(outbox'[k]) \subseteq ToSet(outbox[k]) \cup ToSet(reply[k])
        /\ ToSet(reply'[k]) = {}
    BY <1>3, Replying DEF SameConns
  <2>3. \A j \in Conns : \A m \in ToSet(outbox'[j]) : m \in ToSet(outbox[j]) \/ m.kind # "aware"
    BY <2>2 DEF Truthful
  <2>4. \A j \in Conns : \A m \in ToSet(reply'[j]) : m \in ToSet(reply[j])
    BY <2>2
  <2> QED
    BY <1>1, <2>1, <2>2, <2>3, <2>4
<1>4. ASSUME NEW k \in Conns, Applies(k) PROVE Truthful'
  <2>1. UNCHANGED <<states, clocks, clock, reply>>
    BY <1>4 DEF Applies, clientVars
  <2>2. /\ \A j \in Conns : conn'[j].client = conn[j].client
        /\ \A j \in Conns : \A m \in ToSet(outbox'[j]) \ ToSet(outbox[j]) : m.kind = "update"
    BY <1>4, Applying DEF SameConns, Broadcast
  <2>3. \A j \in Conns : ToSet(inbox'[j]) \subseteq ToSet(inbox[j])
    BY <1>4, Handling DEF Applies
  <2> QED
    BY <1>1, <2>1, <2>2, <2>3
<1>5. ASSUME NEW k \in Conns, Closes(k) \/ Expires(k) PROVE Truthful'
  <2>1. /\ UNCHANGED <<states, clocks, clock, outbox, reply>>
        /\ inbox' = [inbox EXCEPT ![k] = <<>>] /\ conn' = [conn EXCEPT ![k].phase = "ending"]
    BY <1>5 DEF Closes, Expires, Ends, serverVars, clientVars
  <2>2. \A j \in Conns : ToSet(inbox'[j]) \subseteq ToSet(inbox[j])
    BY <2>1, Nothing DEF Typed, Channels
  <2>3. \A j \in Conns : conn'[j].client = conn[j].client
    BY <2>1 DEF Typed, ConnTypes
  <2> QED
    BY <1>1, <2>1, <2>2, <2>3
<1>6. CASE Restarts
  <2>1. \A k \in Conns : ToSet(inbox'[k]) = {} /\ ToSet(outbox'[k]) = {} /\ ToSet(reply'[k]) = {}
    BY <1>6, Nothing DEF Restarts
  <2>2. \A c \in Clients : Known(c)'
    BY <1>6 DEF Restarts, Known
  <2> QED
    BY <2>1, <2>2 DEF Truthful
<1>7. ASSUME NEW c \in Clients, NEW writes \in BOOLEAN, Opens(c, writes) PROVE Truthful'
  BY <1>7, OpensTrue
<1>8. ASSUME NEW c \in Clients, Receives(c) PROVE Truthful'
  BY <1>8, ReceivesTrue
<1>9. ASSUME NEW c \in Clients, Edits(c) PROVE Truthful'
  <2>1. PICK a \in Messages : Posts(c, <<a>>) /\ a.kind = "update"
    BY <1>9, Editing
  <2>2. PICK msgs \in Seq(Messages) : Posts(c, msgs) /\ ToSet(msgs) = {a}
    BY <2>1, Singles
  <2>3. \A k \in Conns : ToSet(inbox'[k]) \subseteq ToSet(inbox[k]) \cup {a}
    BY <2>2, Posting
  <2>4. UNCHANGED <<states, clocks, clock, conn, outbox, reply>>
    BY <1>9 DEF Edits, serverVars
  <2>5. \A k \in Conns : InTrue(a, k)'
    BY <2>1 DEF InTrue
  <2> QED
    BY <1>1, <2>3, <2>4, <2>5
<1>10. ASSUME NEW c \in Clients, Sets(c) PROVE Truthful'
  <2>1. PICK n \in Nat : n = clock[c] + 1
    BY DEF Typed, OwnTypes
  <2>2. /\ clock' = [clock EXCEPT ![c] = n] /\ Posts(c, <<One(c, n, n)>>)
        /\ UNCHANGED <<states, clocks, conn, outbox, reply, at>>
    BY <1>10, <2>1 DEF Sets, One, serverVars
  <2>3. PICK a \in Messages : a = One(c, n, n)
    BY OneTyped
  <2>4. PICK msgs \in Seq(Messages) : Posts(c, msgs) /\ ToSet(msgs) = {a}
    BY <2>2, <2>3, Singles
  <2>5. \A k \in Conns : /\ k # at[c] => inbox'[k] = inbox[k]
                         /\ ToSet(inbox'[k]) \subseteq ToSet(inbox[k]) \cup {a}
    BY <2>4, Posting
  <2>6. ASSUME NEW k \in Conns, k = at[c] PROVE InTrue(a, k)'
    <3>1. a.states = [d \in {c} |-> [state |-> n, clock |-> n]]
      BY <2>3 DEF One, Aware
    <3>2. conn'[k].client = c
      BY <2>2, <2>6, ConnectionsAssumption DEF Attached, Conns
    <3>3. clock'[c] = n
      BY <2>2 DEF Typed, OwnTypes
    <3> QED
      BY <3>1, <3>2, <3>3 DEF InTrue, Sound
  <2>7. ASSUME NEW d \in Clients PROVE Known(d)' /\ clocks[d] <= clocks'[d] /\ clock[d] <= clock'[d]
    <3>1. clock[d] \in Nat /\ clocks[d] \in Nat /\ clock[d] <= clock'[d] /\ clock'[d] \in Nat
      BY <2>1, <2>2 DEF Typed, OwnTypes, ServerTypes
    <3> QED
      BY <2>2, <3>1 DEF Truthful, Known
  <2>8. \A k \in Conns : \A m \in ToSet(inbox'[k]) :
          (m \in ToSet(inbox[k]) /\ conn'[k].client = conn[k].client) \/ InTrue(m, k)'
    BY <2>2, <2>5, <2>6
  <2> QED
    BY <2>2, <2>7, <2>8, StaysTrue
<1>11. ASSUME NEW c \in Clients, Leaves(c) \/ Learns(c) \/ IsCut(c) PROVE Truthful'
  <2>1. UNCHANGED <<states, clocks, clock, reply>>
    BY <1>11 DEF Leaves, Learns, IsCut, serverVars, wireVars
  <2>2. \A k \in Conns : ToSet(outbox'[k]) \subseteq ToSet(outbox[k])
    <3>1. outbox' \in {outbox, [outbox EXCEPT ![at[c]] = <<>>]}
      BY <1>11 DEF Leaves, Learns, IsCut, wireVars
    <3> QED
      BY <3>1, Nothing DEF Typed, Channels
  <2>3. \A k \in Conns : ToSet(inbox'[k]) \subseteq ToSet(inbox[k]) \cup {Close}
    <3>1. CASE Leaves(c)
      <4>1. PICK msgs \in Seq(Messages) : Posts(c, msgs) /\ ToSet(msgs) = {Close}
        BY <3>1, CloseTyped, Singles DEF Leaves
      <4> QED
        BY <4>1, Posting
    <3>2. CASE Learns(c) \/ IsCut(c)
      BY <3>2 DEF Learns, IsCut, wireVars
    <3> QED
      BY <1>11, <3>1, <3>2
  <2>4. \A k \in Conns : conn'[k].client = conn[k].client
    <3>1. conn' \in {conn, [conn EXCEPT ![at[c]].cut = TRUE]}
      BY <1>11 DEF Leaves, Learns, IsCut, wireVars
    <3> QED
      BY <3>1 DEF Typed, ConnTypes
  <2>5. \A k \in Conns : InTrue(Close, k)'
    BY CloseTyped DEF InTrue
  <2> QED
    BY <1>1, <2>1, <2>2, <2>3, <2>4, <2>5
<1>12. CASE Saves \/ UNCHANGED vars
  BY <1>1, <1>12 DEF Saves, vars, serverVars, wireVars, clientVars
<1>13. ASSUME NEW k \in Conns, Hears(k) \/ Drops(k) PROVE Truthful'
  BY <1>13, HearsTrue, DropsTrue
<1> QED
  BY <1>2, <1>3, <1>4, <1>5, <1>6, <1>7, <1>8, <1>9, <1>10, <1>11, <1>12, <1>13 DEF Next, ServerStep

\* A connection that is still what it was, whatever it has lost.
Alike(k) == conn'[k].phase = conn[k].phase /\ conn'[k].client = conn[k].client
            /\ conn'[k].id = conn[k].id /\ conn'[k].cut = conn[k].cut

LEMMA BoundKept ==
  ASSUME NEW k, Latches(k), Parts(k), Alike(k), k > used' => k > used,
         \A c : Greets(inbox[k], c) => Greets(inbox'[k], c),
         conn[k].phase = "open" /\ at'[conn[k].client] # k => at[conn[k].client] # k,
         \A m \in ToSet(inbox[k]) : m.kind = "close" => m \in ToSet(inbox'[k])
  PROVE  Latches(k)' /\ Parts(k)'
<1>1. Latches(k)'
  BY DEF Latches, Alike
<1>2. Parts(k)'
  BY DEF Parts, Alike
<1> QED
  BY <1>1, <1>2

\* What is sent to a connection comes after what was.
LEMMA PostsAfter ==
  ASSUME Typed, NEW c \in Clients, NEW msgs \in Seq(Messages), Posts(c, msgs), NEW k \in Conns, NEW d
  PROVE  Greets(inbox[k], d) => Greets(inbox'[k], d)
<1>1. inbox[k] \in Seq(Messages)
  BY DEF Typed, Channels
<1>2. inbox'[k] = inbox[k] \/ inbox'[k] = inbox[k] \o msgs
  BY DEF Posts, Typed, Channels, OwnTypes
<1>3. CASE inbox'[k] = inbox[k] \o msgs
  <2> SUFFICES ASSUME Greets(inbox[k], d) PROVE Greets(inbox'[k], d)
    OBVIOUS
  <2>1. PICK s \in Seq(Messages) : s = inbox[k]
    BY <1>1
  <2>2. s # <<>> /\ (Own(s[1], d) \/ (s[1].kind = "step1" /\ Len(s) >= 2 /\ Own(s[2], d)))
    BY <2>1 DEF Greets
  <2>3. /\ s \o msgs # <<>> /\ (s \o msgs)[1] = s[1]
        /\ Len(s) >= 2 => Len(s \o msgs) >= 2 /\ (s \o msgs)[2] = s[2]
    BY <2>2
  <2>4. inbox'[k] = s \o msgs
    BY <1>3, <2>1
  <2> QED
    BY <2>2, <2>3, <2>4 DEF Greets
<1> QED
  BY <1>2, <1>3

\* Handling another message leaves the greeting first.
LEMMA HandlesBefore ==
  ASSUME Typed, NEW k \in Conns, NEW kinds, Handles(k, kinds), "aware" \notin kinds, NEW d
  PROVE  Greets(inbox[k], d) => Greets(inbox'[k], d)
<1> SUFFICES ASSUME Greets(inbox[k], d) PROVE Greets(inbox'[k], d)
  OBVIOUS
<1>1. PICK s \in Seq(Messages) : s = inbox[k]
  BY DEF Typed, Channels
<1>2. inbox'[k] = Tail(s) /\ s # <<>> /\ Head(s).kind \in kinds /\ Head(s) = s[1]
  BY <1>1 DEF Handles, Typed, Channels
<1>3. s[1].kind = "step1" /\ Len(s) >= 2 /\ Own(s[2], d)
  BY <1>1, <1>2 DEF Greets, Own
<1>4. Tail(s) # <<>> /\ Tail(s)[1] = s[2]
  BY <1>2, <1>3
<1> QED
  BY <1>2, <1>3, <1>4 DEF Greets

LEMMA HearsWho ==
  ASSUME Typed, NEW k \in Conns, Latches(k), Hears(k), NEW m, m = Head(inbox[k])
  PROVE  Latched(k, m) = conn[k].client
<1>1. conn[k].phase = "open" /\ m.kind = "aware" /\ inbox[k] \in Seq(Messages) /\ inbox[k] # <<>>
  BY DEF Hears, Handles, Typed, Channels
<1>2. CASE conn[k].id # None
  BY <1>1, <1>2 DEF Latches, Latched
<1>3. CASE conn[k].id = None
  <2>1. Greets(inbox[k], conn[k].client) /\ m = inbox[k][1]
    BY <1>1, <1>3 DEF Latches
  <2>2. DOMAIN m.states = {conn[k].client}
    BY <1>1, <2>1 DEF Greets, Own
  <2>3. Cardinality(DOMAIN m.states) = 1
    BY <2>2, FS_Singleton
  <2>4. Latched(k, m) \in DOMAIN m.states
    BY <1>3, <2>2, <2>3 DEF Latched
  <2> QED
    BY <2>2, <2>4
<1> QED
  BY <1>2, <1>3

\* A broadcast changes nothing of a connection but that it may have lost.
LEMMA SendsAlike ==
  ASSUME Typed, NEW ks, NEW msgs, Sends(ks, msgs), NEW k \in Conns
  PROVE  Alike(k)
<1>1. conn'[k] = conn[k] \/ conn'[k] = [conn[k] EXCEPT !.lossy = TRUE]
  BY DEF Sends
<1> QED
  BY <1>1 DEF Alike, Typed, ConnTypes

LEMMA BoundStep ==
  ASSUME Typed, Typed', Attached, \A k \in Conns : Latches(k) /\ Parts(k), [Next]_vars
  PROVE  \A k \in Conns : Latches(k)' /\ Parts(k)'
<1> SUFFICES ASSUME NEW k \in Conns PROVE Latches(k)' /\ Parts(k)'
  OBVIOUS
<1>0. Latches(k) /\ Parts(k) /\ k \in Nat \ {0} /\ used \in Nat
  BY ConnectionsAssumption DEF Conns, Typed, OwnTypes
<1>1. ASSUME Alike(k), UNCHANGED <<used, at>>, inbox'[k] = inbox[k]
      PROVE  Latches(k)' /\ Parts(k)'
  BY <1>0, <1>1, BoundKept
<1>2. ASSUME NEW kinds, Handles(k, kinds), "aware" \notin kinds, "close" \notin kinds,
             Alike(k), UNCHANGED <<used, at>>
      PROVE  Latches(k)' /\ Parts(k)'
  <2>1. \A c : Greets(inbox[k], c) => Greets(inbox'[k], c)
    BY <1>2, HandlesBefore
  <2>2. /\ Head(inbox[k]).kind \in kinds
        /\ ToSet(inbox[k]) = {Head(inbox[k])} \cup ToSet(inbox'[k])
    BY <1>2, Handling
  <2>3. \A m \in ToSet(inbox[k]) : m.kind = "close" => m \in ToSet(inbox'[k])
    BY <1>2, <2>2
  <2> QED
    BY <1>0, <1>2, <2>1, <2>3, BoundKept
<1>3. ASSUME NEW j \in Conns, Answers(j) PROVE Latches(k)' /\ Parts(k)'
  <2>1. Handles(j, {"step1"}) /\ UNCHANGED <<conn, used, at>>
    BY <1>3 DEF Answers, clientVars
  <2>2. Alike(k)
    BY <2>1 DEF Alike
  <2>3. CASE j = k
    BY <1>2, <2>1, <2>2, <2>3
  <2>4. CASE j # k
    BY <1>1, <2>1, <2>2, <2>4, Handling
  <2> QED
    BY <2>3, <2>4
<1>4. ASSUME NEW j \in Conns, Replies(j) PROVE Latches(k)' /\ Parts(k)'
  <2>1. Sends({j}, reply[j]) /\ UNCHANGED <<inbox, used, at>>
    BY <1>4 DEF Replies, clientVars
  <2> QED
    BY <1>1, <2>1, SendsAlike
<1>5. ASSUME NEW j \in Conns, Applies(j) PROVE Latches(k)' /\ Parts(k)'
  <2>1. Handles(j, {"step2", "update"}) /\ UNCHANGED <<used, at>>
    BY <1>5 DEF Applies, clientVars
  <2>2. UNCHANGED conn \/ \E msgs : Sends(Subscribed, msgs)
    BY <1>5 DEF Applies
  <2>3. Alike(k)
    BY <2>2, SendsAlike DEF Alike
  <2>4. CASE j = k
    BY <1>2, <2>1, <2>3, <2>4
  <2>5. CASE j # k
    BY <1>1, <2>1, <2>3, <2>5, Handling
  <2> QED
    BY <2>4, <2>5
<1>6. ASSUME NEW j \in Conns, Hears(j) PROVE Latches(k)' /\ Parts(k)'
  <2>1. PICK m \in Messages, told \in Messages, changed \in SUBSET Clients, to \in SUBSET Conns :
          Heard(j, m, told, changed, to)
    BY <1>6, HearsThis
  <2>2. /\ m = Head(inbox[j]) /\ m.kind = "aware" /\ UNCHANGED <<used, at>>
        /\ Handles(j, {"aware"})
    BY <1>6, <2>1 DEF Hears, Heard, clientVars
  <2>3. /\ conn'[k].phase = conn[k].phase /\ conn'[k].client = conn[k].client
        /\ conn'[k].cut = conn[k].cut
        /\ conn'[k].id = IF k = j THEN Latched(j, m) ELSE conn[k].id
    BY <2>1 DEF Heard, Typed, ConnTypes
  <2>4. CASE j = k
    <3>1. Latched(k, m) = conn[k].client /\ conn[k].phase = "open"
      BY <1>0, <1>6, <2>2, <2>4, HearsWho DEF Handles
    <3>2. Latches(k)'
      BY <1>0, <2>2, <2>3, <2>4, <3>1 DEF Latches
    <3>3. \A x \in ToSet(inbox[k]) : x.kind = "close" => x \in ToSet(inbox'[k])
      BY <2>2, <2>4, Handling
    <3>4. Parts(k)'
      BY <1>0, <2>2, <2>3, <3>3 DEF Parts
    <3> QED
      BY <3>2, <3>4
  <2>5. CASE j # k
    <3>1. Alike(k)
      BY <2>3, <2>5 DEF Alike
    <3> QED
      BY <1>1, <2>2, <2>5, <3>1, Handling
  <2> QED
    BY <2>4, <2>5
<1>7. ASSUME NEW j \in Conns, Closes(j) \/ Expires(j) PROVE Latches(k)' /\ Parts(k)'
  <2>1. /\ conn[j].phase = "open" /\ inbox' = [inbox EXCEPT ![j] = <<>>]
        /\ conn' = [conn EXCEPT ![j].phase = "ending"] /\ UNCHANGED <<used, at>>
    BY <1>7 DEF Closes, Expires, Ends, clientVars
  <2>2. CASE j = k
    <3>1. /\ conn'[k].phase = "ending" /\ conn'[k].client = conn[k].client
          /\ conn'[k].id = conn[k].id /\ used' = used
      BY <2>1, <2>2 DEF Typed, ConnTypes
    <3> QED
      BY <1>0, <2>1, <2>2, <3>1 DEF Latches, Parts
  <2>3. CASE j # k
    <3>1. Alike(k) /\ inbox'[k] = inbox[k]
      BY <2>1, <2>3 DEF Alike, Typed, ConnTypes, Channels
    <3> QED
      BY <1>1, <2>1, <3>1
  <2> QED
    BY <2>2, <2>3
<1>8. ASSUME NEW j \in Conns, Drops(j) PROVE Latches(k)' /\ Parts(k)'
  <2>0. \A i \in Conns : \E l \in BOOLEAN :
          /\ conn[i].lossy => l
          /\ conn'[i] = [conn[i] EXCEPT !.phase = IF i = j THEN "dropped" ELSE @, !.lossy = l]
    BY <1>8, DropsThis, Zenon
  <2>1. /\ conn[j].phase = "ending" /\ UNCHANGED <<inbox, used, at>>
        /\ \E l \in BOOLEAN :
             conn'[k] = [conn[k] EXCEPT !.phase = IF k = j THEN "dropped" ELSE @, !.lossy = l]
    <3>1. UNCHANGED <<inbox, used, at>> /\ conn[j].phase = "ending"
      BY <1>8 DEF Drops, clientVars
    <3> QED
      BY <2>0, <3>1
  <2>2. /\ conn'[k].phase = IF k = j THEN "dropped" ELSE conn[k].phase
        /\ conn'[k].client = conn[k].client /\ conn'[k].id = conn[k].id /\ conn'[k].cut = conn[k].cut
    BY <2>1 DEF Typed, ConnTypes
  <2>3. CASE j = k
    BY <1>0, <2>1, <2>2, <2>3 DEF Latches, Parts
  <2>4. CASE j # k
    BY <1>1, <2>1, <2>2, <2>4 DEF Alike
  <2> QED
    BY <2>3, <2>4
<1>9. CASE Restarts
  <2>1. /\ conn'[k].phase = IF k <= used THEN "dropped" ELSE conn[k].phase
        /\ UNCHANGED used
    BY <1>9 DEF Restarts, Typed, ConnTypes
  <2> QED
    BY <1>0, <2>1 DEF Latches, Parts
<1>10. ASSUME NEW c \in Clients, NEW writes \in BOOLEAN, Opens(c, writes) PROVE Latches(k)' /\ Parts(k)'
  <2>1. PICK j \in Conns :
          /\ j = used + 1 /\ used' = j /\ at[c] = 0 /\ at' = [at EXCEPT ![c] = j]
          /\ conn' = [conn EXCEPT ![j] = [Unused EXCEPT !.phase = "open", !.client = c, !.writes = writes]]
          /\ \A i \in Conns \ {j} : inbox'[i] = inbox[i]
          /\ inbox'[j] = <<Sync("step1", have[c]), One(c, clock[c], clock[c])>>
    BY <1>10, Opening
  <2>2. CASE k = j
    <3>1. conn'[k].phase = "open" /\ conn'[k].client = c /\ conn'[k].id = None
      BY <2>1, <2>2 DEF Typed, ConnTypes, Unused
    <3>2. at'[c] = k
      BY <2>1, <2>2 DEF Typed, OwnTypes
    <3>3. Own(One(c, clock[c], clock[c]), c) /\ Sync("step1", have[c]).kind = "step1"
      BY DEF Own, One, Aware, Sync
    <3>4. Greets(inbox'[k], c)
      BY <2>1, <2>2, <3>3 DEF Greets
    <3> QED
      BY <1>0, <2>1, <2>2, <3>1, <3>2, <3>4, ConnectionsAssumption DEF Latches, Parts
  <2>3. CASE k # j
    <3>1. Alike(k) /\ inbox'[k] = inbox[k]
      BY <2>1, <2>3 DEF Alike, Typed, ConnTypes
    <3>2. k > used' => k > used
      BY <1>0, <2>1
    <3>3. conn[k].phase = "open" => conn[k].client \in Clients
      BY <1>0 DEF Latches, Typed, ConnTypes
    <3>4. conn[k].phase = "open" /\ at'[conn[k].client] # k => at[conn[k].client] # k
      BY <1>0, <2>1, <2>3, <3>3 DEF Typed, OwnTypes
    <3> QED
      BY <1>0, <3>1, <3>2, <3>4, BoundKept
  <2> QED
    BY <2>2, <2>3
<1>11. ASSUME NEW c \in Clients, NEW msgs \in Seq(Messages), Posts(c, msgs), UNCHANGED <<conn, at, used>>
       PROVE  Latches(k)' /\ Parts(k)'
  <2>1. \A d : Greets(inbox[k], d) => Greets(inbox'[k], d)
    BY <1>11, PostsAfter
  <2>2. \A m \in ToSet(inbox[k]) : m \in ToSet(inbox'[k])
    BY <1>11, Posting
  <2>3. Alike(k)
    BY <1>11 DEF Alike
  <2> QED
    BY <1>0, <1>11, <2>1, <2>2, <2>3, BoundKept
<1>12. ASSUME NEW c \in Clients, Edits(c) PROVE Latches(k)' /\ Parts(k)'
  <2>1. PICK a \in Messages : Posts(c, <<a>>)
    BY <1>12, Editing
  <2> QED
    BY <1>11, <1>12, <2>1, Singles DEF Edits
<1>13. ASSUME NEW c \in Clients, Sets(c) PROVE Latches(k)' /\ Parts(k)'
  <2>1. clock[c] + 1 \in Nat
    BY DEF Typed, OwnTypes
  <2>2. PICK a \in Messages : a = One(c, clock[c] + 1, clock[c] + 1)
    BY <2>1, OneTyped
  <2>3. Posts(c, <<a>>)
    BY <1>13, <2>2 DEF Sets, One
  <2> QED
    BY <1>11, <1>13, <2>3, Singles DEF Sets
<1>14. ASSUME NEW c \in Clients, Receives(c) PROVE Latches(k)' /\ Parts(k)'
  <2>1. PICK j \in Conns, m \in Messages, msgs \in Seq(Messages) : Received(c, j, m, msgs)
    BY <1>14, ReceivesThis
  <2> QED
    BY <1>11, <2>1 DEF Received
<1>15. ASSUME NEW c \in Clients, Leaves(c) \/ Learns(c) \/ IsCut(c) PROVE Latches(k)' /\ Parts(k)'
  <2>1. /\ at[c] \in Conns /\ at[c] # 0 /\ at' = [at EXCEPT ![c] = 0] /\ UNCHANGED used
        /\ conn[at[c]].client = c
    BY <1>15 DEF Leaves, Learns, IsCut, Attached, Typed, OwnTypes
  <2>2. /\ \A d : Greets(inbox[k], d) => Greets(inbox'[k], d)
        /\ \A m \in ToSet(inbox[k]) : m \in ToSet(inbox'[k])
    <3>1. CASE Leaves(c)
      <4>1. PICK msgs \in Seq(Messages) : Posts(c, msgs)
        BY <3>1, CloseTyped, Singles DEF Leaves
      <4> QED
        BY <4>1, PostsAfter, Posting
    <3>2. CASE Learns(c) \/ IsCut(c)
      BY <3>2 DEF Learns, IsCut, wireVars
    <3> QED
      BY <1>15, <3>1, <3>2
  <2>3. CASE k # at[c]
    <3>1. Alike(k)
      <4>1. conn' \in {conn, [conn EXCEPT ![at[c]].cut = TRUE]}
        BY <1>15 DEF Leaves, Learns, IsCut, wireVars
      <4> QED
        BY <2>1, <2>3, <4>1 DEF Alike, Typed, ConnTypes
    <3>2. conn[k].phase = "open" => conn[k].client \in Clients
      BY <1>0 DEF Latches, Typed, ConnTypes
    <3>3. conn[k].phase = "open" /\ at'[conn[k].client] # k => at[conn[k].client] # k
      BY <2>1, <2>3, <3>2 DEF Typed, OwnTypes
    <3> QED
      BY <1>0, <2>1, <2>2, <3>1, <3>3, BoundKept
  <2>4. CASE k = at[c]
    <3>1. conn'[k].phase = conn[k].phase /\ conn'[k].client = conn[k].client /\ conn'[k].id = conn[k].id
      <4>1. conn' \in {conn, [conn EXCEPT ![at[c]].cut = TRUE]}
        BY <1>15 DEF Leaves, Learns, IsCut, wireVars
      <4> QED
        BY <2>1, <2>4, <4>1 DEF Typed, ConnTypes
    <3>2. Latches(k)'
      BY <1>0, <2>1, <2>2, <3>1 DEF Latches
    <3>3. CASE Leaves(c)
      <4>1. PICK msgs \in Seq(Messages) : Posts(c, msgs) /\ ToSet(msgs) = {Close}
        BY <3>3, CloseTyped, Singles DEF Leaves
      <4>2. ASSUME conn[k].phase = "open" PROVE Close \in ToSet(inbox'[k])
        <5>1. ToSet(inbox'[at[c]]) = ToSet(inbox[at[c]]) \cup ToSet(msgs)
          BY <2>1, <2>4, <4>1, <4>2, Posting
        <5> QED
          BY <2>4, <4>1, <5>1
      <4> QED
        BY <3>1, <3>2, <4>2, CloseTyped DEF Parts
    <3>4. CASE Learns(c)
      <4>1. conn[k].phase # "open"
        BY <2>4, <3>4 DEF Learns
      <4> QED
        BY <3>1, <3>2, <4>1 DEF Parts
    <3>5. CASE IsCut(c)
      <4>1. conn'[k].cut
        BY <2>1, <2>4, <3>5 DEF IsCut, Typed, ConnTypes
      <4> QED
        BY <3>2, <4>1 DEF Parts
    <3> QED
      BY <1>15, <3>3, <3>4, <3>5
  <2> QED
    BY <2>3, <2>4
<1>16. CASE Saves \/ UNCHANGED vars
  <2>1. UNCHANGED <<conn, inbox, used, at>>
    BY <1>16 DEF Saves, vars, wireVars, clientVars
  <2> QED
    BY <1>1, <2>1 DEF Alike
<1> QED
  BY <1>3, <1>4, <1>5, <1>6, <1>7, <1>8, <1>9, <1>10, <1>12, <1>13, <1>14, <1>15, <1>16
     DEF Next, ServerStep

\* Who is guarded stays so while nobody comes, and no holder goes.
LEMMA GuardKept ==
  ASSUME NEW c, Guarded(c), states'[c] \in {states[c], None, 0},
         \A k \in Conns : Holds(k, c) => Holds(k, c)'
  PROVE  Guarded(c)'
BY DEF Guarded

LEMMA AlikeHolds ==
  ASSUME NEW k, NEW c, Alike(k)
  PROVE  Holds(k, c) => Holds(k, c)'
BY DEF Alike, Holds

\* Nobody comes but on the own connection, which knows then whom it is for.
LEMMA HearsGuarded ==
  ASSUME Typed, Typed', Truthful, NEW k \in Conns, Latches(k), Hears(k), NEW c \in Clients, Guarded(c)
  PROVE  Guarded(c)'
<1>1. PICK m \in Messages, told \in Messages, changed \in SUBSET Clients, to \in SUBSET Conns :
        Heard(k, m, told, changed, to)
  BY HearsThis
<1>2. m = Head(inbox[k]) /\ conn[k].phase = "open" /\ m \in ToSet(inbox[k]) /\ m.kind = "aware"
  <2>1. Handles(k, {"aware"}) /\ m = Head(inbox[k]) /\ m.kind = "aware"
    BY <1>1 DEF Hears, Heard
  <2>2. ToSet(inbox[k]) = {Head(inbox[k])} \cup ToSet(inbox'[k]) /\ conn[k].phase = "open"
    BY <2>1, Handling
  <2> QED
    BY <2>1, <2>2
<1>3. Latched(k, m) = conn[k].client
  BY <1>2, HearsWho
<1>4. \A j \in Conns : /\ conn'[j].phase = conn[j].phase /\ conn'[j].client = conn[j].client
                       /\ conn'[j].id = IF j = k THEN Latched(k, m) ELSE conn[j].id
  BY <1>1 DEF Heard, Typed, ConnTypes
<1>5. \A j \in Conns : Holds(j, c) => Holds(j, c)'
  BY <1>3, <1>4 DEF Holds
<1>6. CASE c \notin changed
  <2>1. states'[c] = states[c]
    BY <1>1, <1>6 DEF Heard
  <2> QED
    BY <1>5, <2>1, GuardKept
<1>7. CASE conn[k].client = c
  <2>1. Holds(k, c)'
    BY <1>2, <1>3, <1>4, <1>7 DEF Holds
  <2> QED
    BY <2>1 DEF Guarded
<1>8. CASE c \in changed /\ conn[k].client # c
  <2>1. PICK e : e = m.states[c]
    OBVIOUS
  <2>2. c \in DOMAIN m.states /\ Accepts(c, e) /\ states'[c] = Applied(c, e)
    BY <1>1, <1>8, <2>1 DEF Heard
  <2>3. Sound(e, c) /\ (e.state # 0 => e.clock <= clocks[c])
    <3>1. InTrue(m, k)
      BY <1>2 DEF Truthful
    <3> QED
      BY <1>2, <1>8, <2>1, <2>2, <3>1 DEF InTrue
  <2>4. e.clock \in Nat /\ clocks[c] \in Nat
    BY <2>1, <2>2, MessageParts DEF Presences, Typed, ServerTypes
  <2>5. e.state = 0
    BY <2>2, <2>3, <2>4 DEF Sound, Accepts, Vacant, IsNew, Removed
  <2>6. states'[c] \in {None, 0}
    BY <2>2, <2>5 DEF Applied
  <2> QED
    BY <1>5, <2>6, GuardKept
<1> QED
  BY <1>6, <1>7, <1>8

LEMMA GuardedStep ==
  ASSUME Typed, Typed', Attached, Truthful, \A k \in Conns : Latches(k), [Next]_vars,
         NEW c \in Clients, Guarded(c)
  PROVE  Guarded(c)'
<1>1. ASSUME UNCHANGED states, \A k \in Conns : Alike(k) PROVE Guarded(c)'
  BY <1>1, AlikeHolds, GuardKept
<1>2. ASSUME NEW k \in Conns, Answers(k) \/ Replies(k) \/ Applies(k) PROVE Guarded(c)'
  <2>1. UNCHANGED states /\ (UNCHANGED conn \/ \E ks, msgs : Sends(ks, msgs))
    BY <1>2 DEF Answers, Replies, Applies, serverVars
  <2>2. \A j \in Conns : Alike(j)
    BY <2>1, SendsAlike DEF Alike
  <2> QED
    BY <1>1, <2>1, <2>2
<1>3. ASSUME NEW k \in Conns, Hears(k) PROVE Guarded(c)'
  BY <1>3, HearsGuarded
<1>4. ASSUME NEW k \in Conns, Closes(k) \/ Expires(k) PROVE Guarded(c)'
  <2>1. /\ UNCHANGED states /\ conn' = [conn EXCEPT ![k].phase = "ending"]
    BY <1>4 DEF Closes, Expires, Ends, serverVars
  <2>2. \A j \in Conns : Holds(j, c) => Holds(j, c)'
    BY <2>1 DEF Holds, Typed, ConnTypes
  <2> QED
    BY <2>1, <2>2, GuardKept
<1>5. ASSUME NEW k \in Conns, Drops(k) PROVE Guarded(c)'
  <2>0. \A i \in Conns : \E l \in BOOLEAN :
          /\ conn[i].lossy => l
          /\ conn'[i] = [conn[i] EXCEPT !.phase = IF i = k THEN "dropped" ELSE @, !.lossy = l]
    BY <1>5, DropsThis, Zenon
  <2>1. \A d \in Clients : IF d = conn[k].id THEN states'[d] = None /\ clocks'[d] = clocks[d] + 1
                                             ELSE states'[d] = states[d] /\ clocks'[d] = clocks[d]
    BY <1>5, DropsThis, Zenon
  <2>2. states'[c] = IF c = conn[k].id THEN None ELSE states[c]
    BY <2>1
  <2>3. CASE c = conn[k].id
    BY <2>2, <2>3 DEF Guarded
  <2>4. CASE c # conn[k].id
    <3>1. \A j \in Conns : /\ conn'[j].phase = IF j = k THEN "dropped" ELSE conn[j].phase
                           /\ conn'[j].client = conn[j].client /\ conn'[j].id = conn[j].id
      <4> SUFFICES ASSUME NEW j \in Conns
                   PROVE  /\ conn'[j].phase = IF j = k THEN "dropped" ELSE conn[j].phase
                          /\ conn'[j].client = conn[j].client /\ conn'[j].id = conn[j].id
        OBVIOUS
      <4>1. PICK l \in BOOLEAN :
              conn'[j] = [conn[j] EXCEPT !.phase = IF j = k THEN "dropped" ELSE @, !.lossy = l]
        BY <2>0
      <4> QED
        BY <4>1 DEF Typed, ConnTypes
    <3>2. \A j \in Conns : Holds(j, c) => Holds(j, c)'
      BY <2>4, <3>1 DEF Holds
    <3> QED
      BY <2>2, <2>4, <3>2, GuardKept
  <2> QED
    BY <2>3, <2>4
<1>6. CASE Restarts
  BY <1>6 DEF Restarts, Guarded
<1>7. ASSUME NEW d \in Clients, NEW writes \in BOOLEAN, Opens(d, writes) PROVE Guarded(c)'
  <2>1. PICK k \in Conns :
          /\ k = used + 1 /\ UNCHANGED states
          /\ conn' = [conn EXCEPT ![k] = [Unused EXCEPT !.phase = "open", !.client = d, !.writes = writes]]
    BY <1>7, Opening DEF serverVars
  <2>2. ~Holds(k, c)
    <3>1. k > used
      BY <2>1 DEF Typed, OwnTypes
    <3> QED
      BY <3>1 DEF Latches, Holds
  <2>3. \A j \in Conns : Holds(j, c) => Holds(j, c)'
    <3>1. \A j \in Conns \ {k} : conn'[j] = conn[j]
      BY <2>1 DEF Typed, ConnTypes
    <3> QED
      BY <2>2, <3>1 DEF Holds
  <2> QED
    BY <2>1, <2>3, GuardKept
<1>8. ASSUME NEW d \in Clients, Edits(d) \/ Sets(d) \/ Receives(d) PROVE Guarded(c)'
  BY <1>1, <1>8 DEF Edits, Sets, Receives, serverVars, Alike
<1>9. ASSUME NEW d \in Clients, Leaves(d) \/ Learns(d) \/ IsCut(d) PROVE Guarded(c)'
  <2>1. UNCHANGED states /\ conn' \in {conn, [conn EXCEPT ![at[d]].cut = TRUE]}
    BY <1>9 DEF Leaves, Learns, IsCut, serverVars, wireVars
  <2>2. \A j \in Conns : Holds(j, c) => Holds(j, c)'
    BY <2>1 DEF Holds, Typed, ConnTypes
  <2> QED
    BY <2>1, <2>2, GuardKept
<1>10. CASE Saves \/ UNCHANGED vars
  BY <1>1, <1>10 DEF Saves, vars, serverVars, wireVars, Alike
<1> QED
  BY <1>2, <1>3, <1>4, <1>5, <1>6, <1>7, <1>8, <1>9, <1>10 DEF Next, ServerStep

\* What is on its way stays, and a served client has been served before.
LEMMA SeenKept ==
  ASSUME NEW c, Seen(c), Served(c)' => Served(c),
         at'[c] = at[c], clock'[c] = clock[c], states'[c] = states[c], clocks'[c] = clocks[c],
         Served(c) => /\ \A m \in ToSet(inbox[at[c]]) : m.kind = "aware" => m \in ToSet(inbox'[at[c]])
                      /\ \A m \in ToSet(outbox[at[c]]) : m \in ToSet(outbox'[at[c]])
  PROVE  Seen(c)'
<1> SUFFICES ASSUME Served(c)'
             PROVE  /\ states[c] = 0 /\ clocks[c] >= clock[c] =>
                         \E m \in ToSet(outbox'[at[c]]) : Says(m, c, 0, clocks[c])
                    /\ clocks[c] < clock[c] =>
                         \E m \in ToSet(inbox'[at[c]]) : Says(m, c, clock[c], clock[c])
  BY DEF Seen
<1>1. /\ states[c] = 0 /\ clocks[c] >= clock[c] =>
           \E m \in ToSet(outbox[at[c]]) : Says(m, c, 0, clocks[c])
      /\ clocks[c] < clock[c] =>
           \E m \in ToSet(inbox[at[c]]) : Says(m, c, clock[c], clock[c])
  BY DEF Seen
<1> QED
  BY <1>1 DEF Says

LEMMA ServedBefore ==
  ASSUME Typed, NEW c \in Clients, SameConns, at'[c] = at[c]
  PROVE  Served(c)' => Served(c) /\ at[c] \in Conns
BY DEF SameConns, Served, Typed, OwnTypes

\* What the server hears of a client it passes on to it, too.
LEMMA HearsSeen ==
  ASSUME Typed, Typed', Attached, Truthful, NEW k \in Conns, Hears(k), NEW c \in Clients, Seen(c)
  PROVE  Seen(c)'
<1>1. PICK m \in Messages, told \in Messages, changed \in SUBSET Clients, to \in SUBSET Conns :
        Heard(k, m, told, changed, to)
  BY HearsThis
<1>2. /\ \A j \in Conns \ {k} : inbox'[j] = inbox[j]
      /\ ToSet(inbox[k]) = {m} \cup ToSet(inbox'[k])
  BY <1>1, Handling DEF Hears, Heard
<1>3. UNCHANGED <<clock, at>>
  BY DEF Hears, clientVars
<1>4. SameConns /\ clocks[c] <= clocks'[c]
  BY Hearing, HearsTrue
<1>5. PICK msgs \in Seq(Messages) : Given(to, msgs) /\ ToSet(msgs) = {told} /\ Len(msgs) = 1
  BY <1>1, Singles DEF Heard
<1>6. \A j \in Conns : /\ ToSet(outbox[j]) \subseteq ToSet(outbox'[j])
                       /\ j \in to /\ Len(outbox[j]) + Len(msgs) <= Capacity =>
                            ToSet(msgs) \subseteq ToSet(outbox'[j])
  BY <1>5, Giving
<1> SUFFICES ASSUME Served(c)'
             PROVE  /\ states'[c] = 0 /\ clocks'[c] >= clock[c] =>
                         \E x \in ToSet(outbox'[at[c]]) : Says(x, c, 0, clocks'[c])
                    /\ clocks'[c] < clock[c] =>
                         \E x \in ToSet(inbox'[at[c]]) : Says(x, c, clock[c], clock[c])
  BY <1>3 DEF Seen
<1>7. PICK j \in Conns : j = at[c] /\ Served(c)
  BY <1>3, <1>4, ServedBefore
<1>8. /\ states[c] = 0 /\ clocks[c] >= clock[c] =>
           \E x \in ToSet(outbox[j]) : Says(x, c, 0, clocks[c])
      /\ clocks[c] < clock[c] =>
           \E x \in ToSet(inbox[j]) : Says(x, c, clock[c], clock[c])
  BY <1>7 DEF Seen
<1>t. clocks[c] \in Nat /\ clocks'[c] \in Nat /\ clock[c] \in Nat
  BY DEF Typed, OwnTypes, ServerTypes
<1>9. ASSUME states'[c] = 0, clocks'[c] >= clock[c]
      PROVE  \E x \in ToSet(outbox'[j]) : Says(x, c, 0, clocks'[c])
  <2>1. CASE c \notin changed
    <3>1. states'[c] = states[c] /\ clocks'[c] = clocks[c]
      BY <1>1, <2>1 DEF Heard
    <3> QED
      BY <1>6, <1>8, <1>9, <3>1
  <2>2. CASE c \in changed
    <3>1. conn[j].phase = "open" /\ Reads(j)
      BY <1>7, ConnectionsAssumption DEF Served, Attached, Reads, Conns
    <3>2. j \in to
      BY <1>1, <2>2, <3>1 DEF Heard
    <3>3. Len(outbox[j]) # Capacity
      <4>1. conn'[j] = [conn[j] EXCEPT !.id = IF j = k THEN Latched(k, m) ELSE @,
                          !.lossy = @ \/ (j \in to /\ Len(outbox[j]) = Capacity)]
        BY <1>1 DEF Heard
      <4>2. ~conn'[j].lossy
        BY <1>3, <1>7 DEF Served
      <4>3. conn'[j].lossy = (conn[j].lossy \/ (j \in to /\ Len(outbox[j]) = Capacity))
        BY <4>1 DEF Typed, ConnTypes
      <4> QED
        BY <3>2, <4>2, <4>3
    <3>4. Len(outbox[j]) + Len(msgs) <= Capacity
      <4>1. Len(outbox[j]) \in Nat /\ Len(outbox[j]) <= Capacity /\ Capacity \in Nat
        BY ConnectionsAssumption DEF Typed, Channels
      <4> QED
        BY <1>5, <3>3, <4>1
    <3>5. told \in ToSet(outbox'[j])
      BY <1>5, <1>6, <3>2, <3>4
    <3>6. told.kind = "aware" /\ c \in DOMAIN told.states /\ told.states[c] = Told(0, clocks'[c])
      BY <1>1, <1>9, <2>2 DEF Heard
    <3>7. Says(told, c, 0, clocks'[c])
      BY <3>6, ConnectionsAssumption DEF Says, Told
    <3> QED
      BY <3>5, <3>7
  <2> QED
    BY <2>1, <2>2
<1>10. ASSUME clocks'[c] < clock[c]
       PROVE  \E x \in ToSet(inbox'[j]) : Says(x, c, clock[c], clock[c])
  <2>1. clocks[c] < clock[c]
    BY <1>t, <1>4, <1>10
  <2>2. PICK x \in ToSet(inbox[j]) : Says(x, c, clock[c], clock[c])
    BY <1>8, <2>1
  <2>3. ASSUME x = m PROVE FALSE
    <3>1. c \in DOMAIN m.states /\ m.states[c].clock = clock[c]
      BY <2>2, <2>3 DEF Says
    <3>2. Accepts(c, m.states[c])
      BY <2>1, <3>1 DEF Accepts, IsNew
    <3>3. c \in changed /\ (c \in changed => clocks'[c] = m.states[c].clock)
      BY <1>1, <3>1, <3>2 DEF Heard
    <3> QED
      BY <1>t, <1>10, <3>1, <3>3
  <2>4. x \in ToSet(inbox'[j])
    BY <1>2, <2>2, <2>3
  <2> QED
    BY <2>2, <2>4
<1> QED
  BY <1>7, <1>9, <1>10

LEMMA DropsSeen ==
  ASSUME Typed, NEW k \in Conns, Drops(k), NEW c \in Clients, Seen(c)
  PROVE  Seen(c)'
<1>1. \A d \in Clients : IF d = conn[k].id THEN states'[d] = None /\ clocks'[d] = clocks[d] + 1
                                           ELSE states'[d] = states[d] /\ clocks'[d] = clocks[d]
  BY DropsThis, Zenon
<1>2. \A j \in Conns : ToSet(outbox[j]) \subseteq ToSet(outbox'[j])
  BY DropsThis
<1>3. UNCHANGED <<inbox, clock, at>> /\ SameConns
  BY Dropping DEF Drops, clientVars
<1>4. Served(c)' => Served(c) /\ at[c] \in Conns
  BY <1>3, ServedBefore
<1>t. clocks[c] \in Nat /\ clock[c] \in Nat
  BY DEF Typed, OwnTypes, ServerTypes
<1>5. CASE c = conn[k].id
  <2>1. states'[c] = None /\ clocks'[c] = clocks[c] + 1
    BY <1>1, <1>5
  <2>2. states'[c] # 0 /\ (clocks'[c] < clock'[c] => clocks[c] < clock[c])
    BY <1>3, <1>t, <2>1, ConnectionsAssumption
  <2> QED
    BY <1>3, <1>4, <2>2 DEF Seen
<1>6. CASE c # conn[k].id
  <2>1. states'[c] = states[c] /\ clocks'[c] = clocks[c]
    BY <1>1, <1>6
  <2>2. Served(c) => at[c] \in Conns
    BY DEF Served, Typed, OwnTypes
  <2> QED
    BY <1>2, <1>3, <1>4, <2>1, <2>2, SeenKept
<1> QED
  BY <1>5, <1>6

LEMMA OpensSeen ==
  ASSUME Typed, Typed', Attached, NEW d \in Clients, NEW writes \in BOOLEAN, Opens(d, writes),
         NEW c \in Clients, Seen(c)
  PROVE  Seen(c)'
<1>1. PICK k \in Conns :
        /\ k = used + 1 /\ at' = [at EXCEPT ![d] = k]
        /\ conn' = [conn EXCEPT ![k] = [Unused EXCEPT !.phase = "open", !.client = d, !.writes = writes]]
        /\ \A j \in Conns \ {k} : outbox'[j] = outbox[j] /\ inbox'[j] = inbox[j]
        /\ ToSet(outbox'[k]) = {Sync("step1", doc), Aware(Everyone)}
        /\ inbox'[k] = <<Sync("step1", have[d]), One(d, clock[d], clock[d])>>
        /\ UNCHANGED <<serverVars, clock>>
  BY Opening
<1>2. UNCHANGED <<states, clocks, clock>>
  BY <1>1 DEF serverVars
<1>3. CASE c = d
  <2>1. at'[c] = k
    BY <1>1, <1>3 DEF Typed, OwnTypes
  <2>2. ASSUME states[c] = 0 PROVE Says(Aware(Everyone), c, 0, clocks[c])
    <3>1. states[c] # None
      BY <2>2, ConnectionsAssumption
    <3>2. PICK D : D = {d1 \in Clients : states[d1] # None}
      OBVIOUS
    <3>3. Everyone = [d1 \in D |-> Entry(d1)] /\ c \in D
      BY <3>1, <3>2 DEF Everyone
    <3>4. c \in DOMAIN Everyone /\ Everyone[c] = Entry(c)
      BY <3>3
    <3>5. Aware(Everyone).kind = "aware" /\ Aware(Everyone).states = Everyone
      BY DEF Aware
    <3>6. Entry(c).state = 0 /\ Entry(c).clock = clocks[c]
      BY <2>2 DEF Entry
    <3> QED
      BY <3>4, <3>5, <3>6 DEF Says
  <2>3. Says(One(c, clock[c], clock[c]), c, clock[c], clock[c])
    <3>1. /\ One(c, clock[c], clock[c]).kind = "aware"
          /\ One(c, clock[c], clock[c]).states = [e \in {c} |-> [state |-> clock[c], clock |-> clock[c]]]
      BY DEF One, Aware
    <3> QED
      BY <3>1 DEF Says
  <2>4. One(c, clock[c], clock[c]) \in ToSet(inbox'[k]) /\ Aware(Everyone) \in ToSet(outbox'[k])
    <3>1. inbox'[k] = <<Sync("step1", have[c]), One(c, clock[c], clock[c])>>
      BY <1>1, <1>3
    <3>2. 2 \in DOMAIN inbox'[k] /\ inbox'[k][2] = One(c, clock[c], clock[c])
      BY <3>1
    <3>3. One(c, clock[c], clock[c]) \in ToSet(inbox'[k])
      BY <3>2 DEF ToSet
    <3> QED
      BY <1>1, <3>3
  <2> QED
    BY <1>2, <2>1, <2>2, <2>3, <2>4 DEF Seen
<1>4. CASE c # d
  <2>1. at'[c] = at[c]
    BY <1>1, <1>4 DEF Typed, OwnTypes
  <2>2. ASSUME at[c] # 0
        PROVE  at[c] \in Conns \ {k}
    BY <1>1, <2>2, ConnectionsAssumption DEF Attached, Typed, OwnTypes, Conns
  <2>3. at[c] # 0 => /\ conn'[at[c]] = conn[at[c]] /\ inbox'[at[c]] = inbox[at[c]]
                     /\ outbox'[at[c]] = outbox[at[c]]
    BY <1>1, <2>2 DEF Typed, ConnTypes
  <2>4. Served(c)' => Served(c)
    BY <2>1, <2>3 DEF Served
  <2> QED
    BY <1>2, <2>1, <2>3, <2>4, SeenKept DEF Served
<1> QED
  BY <1>3, <1>4

\* What another client does, in which the server has no part.
LEMMA OthersSeen ==
  ASSUME Typed, Attached, NEW d \in Clients, NEW c \in Clients \ {d}, Seen(c),
         Sets(d) \/ Edits(d) \/ Receives(d) \/ Leaves(d) \/ Learns(d) \/ IsCut(d)
  PROVE  Seen(c)'
<1>1. UNCHANGED <<states, clocks>> /\ at'[c] = at[c]
  BY DEF Sets, Edits, Receives, Leaves, Learns, IsCut, serverVars, Typed, OwnTypes
<1>2. clock'[c] = clock[c]
  <2>1. CASE Receives(d)
    <3>1. PICK k \in Conns, m \in Messages, msgs \in Seq(Messages) : Received(d, k, m, msgs)
      BY <2>1, ReceivesThis
    <3>2. clock' = clock \/ (\E n \in Nat : clock' = [clock EXCEPT ![d] = n])
      BY <3>1 DEF Received
    <3> QED
      BY <3>2 DEF Typed, OwnTypes
  <2>2. CASE ~Receives(d)
    BY <2>2 DEF Sets, Edits, Leaves, Learns, IsCut, Typed, OwnTypes
  <2> QED
    BY <2>1, <2>2
<1>3. ASSUME at[c] # 0
      PROVE  /\ conn'[at[c]] = conn[at[c]] /\ inbox'[at[c]] = inbox[at[c]]
             /\ outbox'[at[c]] = outbox[at[c]]
  <2>1. at[c] \in Conns /\ at[c] # at[d]
    BY <1>3, Apart
  <2>2. conn'[at[c]] = conn[at[c]]
    <3>1. conn' \in {conn, [conn EXCEPT ![at[d]].cut = TRUE]}
      BY DEF Sets, Edits, Receives, Leaves, Learns, IsCut, wireVars
    <3> QED
      BY <2>1, <3>1 DEF Typed, ConnTypes
  <2>3. outbox'[at[c]] = outbox[at[c]]
    <3>1. outbox' \in {outbox, [outbox EXCEPT ![at[d]] = <<>>], [outbox EXCEPT ![at[d]] = Tail(@)]}
      BY DEF Sets, Edits, Receives, Leaves, Learns, IsCut, wireVars
    <3> QED
      BY <2>1, <3>1 DEF Typed, Channels
  <2>4. inbox'[at[c]] = inbox[at[c]]
    <3>1. CASE Leaves(d) \/ Learns(d) \/ IsCut(d)
      <4>1. inbox' = inbox \/ Posts(d, <<Close>>)
        BY <3>1 DEF Leaves, Learns, IsCut, wireVars
      <4> QED
        BY <2>1, <4>1 DEF Posts, Typed, Channels
    <3>2. CASE Sets(d)
      BY <2>1, <3>2 DEF Sets, Posts, Typed, Channels
    <3>3. CASE Edits(d)
      BY <2>1, <3>3 DEF Edits, Posts, Typed, Channels
    <3>4. CASE Receives(d)
      <4>1. PICK k \in Conns, m \in Messages, msgs \in Seq(Messages) : Received(d, k, m, msgs)
        BY <3>4, ReceivesThis
      <4> QED
        BY <2>1, <4>1 DEF Received, Posts, Typed, Channels
    <3> QED
      BY <3>1, <3>2, <3>3, <3>4
  <2> QED
    BY <2>2, <2>3, <2>4
<1>4. Served(c)' => Served(c)
  BY <1>1, <1>3 DEF Served
<1> QED
  BY <1>1, <1>2, <1>3, <1>4, SeenKept DEF Served

\* A client that is told that it has gone sets its presence again.
LEMMA ReceivesSeen ==
  ASSUME Typed, Typed', Attached, NEW c \in Clients, Receives(c), Seen(c)
  PROVE  Seen(c)'
<1>1. PICK k \in Conns, m \in Messages, msgs \in Seq(Messages) : Received(c, k, m, msgs)
  BY ReceivesThis
<1>2. /\ UNCHANGED <<states, clocks, conn, at>> /\ k = at[c]
      /\ ToSet(outbox[k]) = {m} \cup ToSet(outbox'[k])
  BY <1>1 DEF Received, serverVars
<1> SUFFICES ASSUME Served(c)'
             PROVE  /\ states[c] = 0 /\ clocks[c] >= clock'[c] =>
                         \E x \in ToSet(outbox'[k]) : Says(x, c, 0, clocks[c])
                    /\ clocks[c] < clock'[c] =>
                         \E x \in ToSet(inbox'[k]) : Says(x, c, clock'[c], clock'[c])
  BY <1>2 DEF Seen
<1>3. Served(c)
  BY <1>2 DEF Served
<1>4. /\ states[c] = 0 /\ clocks[c] >= clock[c] =>
           \E x \in ToSet(outbox[k]) : Says(x, c, 0, clocks[c])
      /\ clocks[c] < clock[c] =>
           \E x \in ToSet(inbox[k]) : Says(x, c, clock[c], clock[c])
  BY <1>2, <1>3 DEF Seen
<1>t. clocks[c] \in Nat /\ clock[c] \in Nat /\ clock'[c] \in Nat
  BY DEF Typed, OwnTypes, ServerTypes
<1>5. ToSet(inbox'[k]) = ToSet(inbox[k]) \cup ToSet(msgs)
  BY <1>1, <1>2, <1>3, Posting DEF Received, Served
<1>6. clock[c] <= clock'[c]
  <2>1. clock' = clock \/ (\E n \in Nat : clock' = [clock EXCEPT ![c] = n] /\ clock[c] < n)
    BY <1>1 DEF Received
  <2>2. ASSUME NEW n \in Nat, clock' = [clock EXCEPT ![c] = n], clock[c] < n
        PROVE  clock[c] <= clock'[c]
    <3>1. clock'[c] = n
      BY <2>2 DEF Typed, OwnTypes
    <3> QED
      BY <1>t, <2>2, <3>1
  <2> QED
    BY <1>t, <2>1, <2>2
<1>7. ASSUME states[c] = 0, clocks[c] >= clock'[c]
      PROVE  \E x \in ToSet(outbox'[k]) : Says(x, c, 0, clocks[c])
  <2>1. clocks[c] >= clock[c]
    BY <1>t, <1>6, <1>7
  <2>2. PICK x \in ToSet(outbox[k]) : Says(x, c, 0, clocks[c])
    BY <1>4, <1>7, <2>1
  <2>3. x # m
    <3> SUFFICES ASSUME x = m PROVE FALSE
      OBVIOUS
    <3>1. Says(m, c, 0, clocks[c]) /\ m.states[c].clock = clocks[c]
      BY <2>2 DEF Says
    <3>2. Says(m, c, 0, m.states[c].clock) /\ m.states[c].clock >= clock[c] =>
            clock'[c] = m.states[c].clock + 1
      BY <1>1 DEF Received
    <3>3. clock'[c] = clocks[c] + 1
      BY <2>1, <3>1, <3>2
    <3> QED
      BY <1>t, <1>7, <3>3
  <2> QED
    BY <1>2, <2>2, <2>3
<1>8. ASSUME clocks[c] < clock'[c]
      PROVE  \E x \in ToSet(inbox'[k]) : Says(x, c, clock'[c], clock'[c])
  <2>1. CASE clock' = clock
    BY <1>4, <1>5, <1>8, <2>1
  <2>2. CASE clock' # clock
    <3>1. \E x \in ToSet(msgs) : Says(x, c, clock'[c], clock'[c])
      BY <1>1, <2>2 DEF Received
    <3> QED
      BY <1>5, <3>1
  <2> QED
    BY <2>1, <2>2
<1> QED
  BY <1>7, <1>8

LEMMA SetsSeen ==
  ASSUME Typed, Typed', NEW c \in Clients, Sets(c), Seen(c)
  PROVE  Seen(c)'
<1>1. PICK n \in Nat : n = clock[c] + 1
  BY DEF Typed, OwnTypes
<1>2. /\ clock' = [clock EXCEPT ![c] = n] /\ Posts(c, <<One(c, n, n)>>)
      /\ UNCHANGED <<states, clocks, conn, outbox, at>>
  BY <1>1 DEF Sets, One, serverVars
<1>3. PICK a \in Messages : a = One(c, n, n)
  BY OneTyped
<1>4. PICK msgs \in Seq(Messages) : Posts(c, msgs) /\ ToSet(msgs) = {a}
  BY <1>2, <1>3, Singles
<1>5. clock'[c] = n /\ clocks[c] \in Nat /\ clock[c] \in Nat
  BY <1>2 DEF Typed, OwnTypes, ServerTypes
<1> SUFFICES ASSUME Served(c)'
             PROVE  /\ states[c] = 0 /\ clocks[c] >= n =>
                         \E x \in ToSet(outbox[at[c]]) : Says(x, c, 0, clocks[c])
                    /\ clocks[c] < n =>
                         \E x \in ToSet(inbox'[at[c]]) : Says(x, c, n, n)
  BY <1>2, <1>5 DEF Seen
<1>6. Served(c)
  BY <1>2 DEF Served
<1>7. states[c] = 0 /\ clocks[c] >= n => \E x \in ToSet(outbox[at[c]]) : Says(x, c, 0, clocks[c])
  <2>1. clocks[c] >= n => clocks[c] >= clock[c]
    BY <1>1, <1>5
  <2> QED
    BY <1>6, <2>1 DEF Seen
<1>8. a \in ToSet(inbox'[at[c]])
  <2>1. ToSet(inbox'[at[c]]) = ToSet(inbox[at[c]]) \cup ToSet(msgs)
    BY <1>4, <1>6, Posting DEF Served
  <2> QED
    BY <1>4, <2>1
<1>9. Says(a, c, n, n)
  <2>1. a.kind = "aware" /\ a.states = [d \in {c} |-> [state |-> n, clock |-> n]]
    BY <1>3 DEF One, Aware
  <2> QED
    BY <2>1 DEF Says
<1> QED
  BY <1>7, <1>8, <1>9

LEMMA SeenStep ==
  ASSUME Typed, Typed', Attached, Truthful, [Next]_vars, NEW c \in Clients, Seen(c)
  PROVE  Seen(c)'
<1>0. Served(c) => at[c] \in Conns
  BY DEF Served, Typed, OwnTypes
<1>1. ASSUME SameConns, UNCHANGED <<states, clocks, clock, at>>,
             \A k \in Conns : conn'[k].phase = "open" =>
               \A m \in ToSet(inbox[k]) : m.kind = "aware" => m \in ToSet(inbox'[k]),
             \A k \in Conns : \A m \in ToSet(outbox[k]) : m \in ToSet(outbox'[k])
      PROVE  Seen(c)'
  <2>1. CASE Served(c)'
    <3>1. Served(c) /\ at[c] \in Conns
      BY <1>1, <2>1, ServedBefore
    <3>2. conn'[at[c]].phase = "open"
      BY <1>1, <2>1 DEF Served
    <3> QED
      BY <1>1, <3>1, <3>2, SeenKept
  <2>2. CASE ~Served(c)'
    BY <2>2 DEF Seen
  <2> QED
    BY <2>1, <2>2
<1>2. ASSUME NEW k \in Conns, Answers(k) PROVE Seen(c)'
  <2>1. UNCHANGED <<states, clocks, clock, at, conn, outbox>> /\ Handles(k, {"step1"})
    BY <1>2 DEF Answers, serverVars, clientVars
  <2>2. /\ Head(inbox[k]).kind = "step1" /\ \A j \in Conns \ {k} : inbox'[j] = inbox[j]
        /\ ToSet(inbox[k]) = {Head(inbox[k])} \cup ToSet(inbox'[k])
    <3>1. Head(inbox[k]).kind \in {"step1"}
      BY <2>1, Handling
    <3> QED
      BY <2>1, <3>1, Handling
  <2>3. SameConns
    BY <2>1 DEF SameConns, Typed
  <2>4. \A j \in Conns : \A m \in ToSet(inbox[j]) : m.kind = "aware" => m \in ToSet(inbox'[j])
    BY <2>2
  <2> QED
    BY <1>1, <2>1, <2>3, <2>4
<1>3. ASSUME NEW k \in Conns, Replies(k) PROVE Seen(c)'
  <2>1. UNCHANGED <<states, clocks, clock, at, inbox>>
    BY <1>3 DEF Replies, serverVars, clientVars
  <2>2. SameConns /\ \A j \in Conns : ToSet(outbox[j]) \subseteq ToSet(outbox'[j])
    BY <1>3, Replying
  <2> QED
    BY <1>1, <2>1, <2>2
<1>4. ASSUME NEW k \in Conns, Applies(k) PROVE Seen(c)'
  <2>1. UNCHANGED <<states, clocks, clock, at>> /\ Handles(k, {"step2", "update"})
    BY <1>4 DEF Applies, clientVars
  <2>2. SameConns /\ \A j \in Conns : ToSet(outbox[j]) \subseteq ToSet(outbox'[j])
    BY <1>4, Applying DEF Broadcast
  <2>3. /\ Head(inbox[k]).kind \in {"step2", "update"} /\ \A j \in Conns \ {k} : inbox'[j] = inbox[j]
        /\ ToSet(inbox[k]) = {Head(inbox[k])} \cup ToSet(inbox'[k])
    BY <2>1, Handling
  <2>4. \A j \in Conns : \A m \in ToSet(inbox[j]) : m.kind = "aware" => m \in ToSet(inbox'[j])
    BY <2>3
  <2> QED
    BY <1>1, <2>1, <2>2, <2>4
<1>5. ASSUME NEW k \in Conns, Hears(k) \/ Drops(k) PROVE Seen(c)'
  BY <1>5, HearsSeen, DropsSeen
<1>6. ASSUME NEW k \in Conns, Closes(k) \/ Expires(k) PROVE Seen(c)'
  <2>1. /\ inbox' = [inbox EXCEPT ![k] = <<>>] /\ conn' = [conn EXCEPT ![k].phase = "ending"]
        /\ UNCHANGED <<states, clocks, clock, at, outbox>>
    BY <1>6 DEF Closes, Expires, Ends, serverVars, clientVars
  <2>2. SameConns
    BY <2>1 DEF SameConns, Typed, ConnTypes
  <2>3. \A j \in Conns : conn'[j].phase = "open" => inbox'[j] = inbox[j]
    BY <2>1 DEF Typed, ConnTypes, Channels
  <2> QED
    BY <1>1, <2>1, <2>2, <2>3
<1>7. ASSUME at'[c] = 0 PROVE Seen(c)'
  BY <1>7 DEF Seen, Served
<1>8. CASE Restarts
  BY <1>7, <1>8 DEF Restarts
<1>9. ASSUME NEW d \in Clients, NEW writes \in BOOLEAN, Opens(d, writes) PROVE Seen(c)'
  BY <1>9, OpensSeen
<1>10. ASSUME NEW d \in Clients \ {c},
              Sets(d) \/ Edits(d) \/ Receives(d) \/ Leaves(d) \/ Learns(d) \/ IsCut(d)
       PROVE  Seen(c)'
  BY <1>10, OthersSeen
<1>11. CASE Sets(c) \/ Receives(c)
  BY <1>11, SetsSeen, ReceivesSeen
<1>12. CASE Edits(c)
  <2>1. PICK a \in Messages : Posts(c, <<a>>)
    BY <1>12, Editing
  <2>2. \A k \in Conns : ToSet(inbox[k]) \subseteq ToSet(inbox'[k])
    BY <2>1, Singles, Posting
  <2>3. UNCHANGED <<states, clocks, clock, at, conn, outbox>>
    BY <1>12 DEF Edits, serverVars
  <2>4. SameConns
    BY <2>3 DEF SameConns, Typed
  <2> QED
    BY <1>1, <2>2, <2>3, <2>4
<1>13. CASE Leaves(c) \/ Learns(c) \/ IsCut(c)
  <2>1. at'[c] = 0
    BY <1>13 DEF Leaves, Learns, IsCut, Typed, OwnTypes
  <2> QED
    BY <1>7, <2>1
<1>14. CASE Saves \/ UNCHANGED vars
  <2>1. UNCHANGED <<states, clocks, clock, at, conn, inbox, outbox>>
    BY <1>14 DEF Saves, vars, serverVars, wireVars, clientVars
  <2>2. SameConns
    BY <2>1 DEF SameConns, Typed
  <2> QED
    BY <1>1, <2>1, <2>2
<1>15. ASSUME NEW d \in Clients,
              Sets(d) \/ Edits(d) \/ Receives(d) \/ Leaves(d) \/ Learns(d) \/ IsCut(d)
       PROVE  Seen(c)'
  BY <1>10, <1>11, <1>12, <1>13, <1>15
<1> QED
  BY <1>2, <1>3, <1>4, <1>5, <1>6, <1>8, <1>9, <1>14, <1>15 DEF Next, ServerStep

LEMMA Presence == Spec => []Present
<1>1. Init => Present
  <2> SUFFICES ASSUME Init PROVE Present
    OBVIOUS
  <2>1. \A k \in Conns : ToSet(inbox[k]) = {} /\ ToSet(outbox[k]) = {} /\ ToSet(reply[k]) = {}
    BY Nothing DEF Init
  <2>2. \A c \in Clients : states[c] = None /\ at[c] = 0
    BY DEF Init
  <2>3. Truthful
    BY <2>1, <2>2 DEF Truthful, Known
  <2>4. \A k \in Conns : conn[k].phase = "unused"
    BY DEF Init, Unused
  <2>5. \A k \in Conns : Latches(k) /\ Parts(k)
    BY <2>4 DEF Latches, Parts
  <2>6. \A c \in Clients : Guarded(c) /\ Seen(c)
    BY <2>2 DEF Guarded, Seen, Served
  <2> QED
    BY <2>3, <2>5, <2>6 DEF Present
<1>2. Typed /\ Typed' /\ Attached /\ Present /\ [Next]_vars => Present'
  <2> SUFFICES ASSUME Typed, Typed', Attached, Present, [Next]_vars PROVE Present'
    OBVIOUS
  <2>1. Truthful'
    BY TruthfulStep DEF Present
  <2>2. \A k \in Conns : Latches(k)' /\ Parts(k)'
    BY BoundStep DEF Present
  <2>3. \A c \in Clients : Guarded(c)'
    BY GuardedStep DEF Present
  <2>4. \A c \in Clients : Seen(c)'
    BY SeenStep DEF Present
  <2> QED
    BY <2>1, <2>2, <2>3, <2>4 DEF Present
<1> QED
  BY <1>1, <1>2, Types, Covers, PTL DEF Spec

(* With nothing on its way, a served client's presence is the last one     *)
(* that it set, unless its removal has left a clock that it has not passed *)
(* yet; and nobody is present who has no connection, unless the server     *)
(* still takes a connection for open that was cut: whatever the order in   *)
(* which clients come, go and come back, and whichever removals and        *)
(* settings cross (awareness.rs, doc_connection.rs).                       *)
THEOREM PresenceIsTrue == Spec => []PresenceTrue
<1>1. Typed /\ Attached /\ Present => PresenceTrue
  <2> SUFFICES ASSUME Typed, Attached, Present, Quiet, NEW c \in Clients
               PROVE  /\ Served(c) => states[c] = clock[c] \/ Hidden(c)
                      /\ at[c] = 0 /\ states[c] \notin {None, 0} =>
                           \E k \in Conns : conn[k].phase = "open" /\ conn[k].cut /\ conn[k].client = c
    BY DEF PresenceTrue
  <2>t. clocks[c] \in Nat /\ clock[c] \in Nat \ {0}
    BY DEF Typed, OwnTypes, ServerTypes
  <2>1. ASSUME Served(c) PROVE states[c] = clock[c] \/ Hidden(c)
    <3>1. PICK k \in Conns : k = at[c] /\ conn[k].phase = "open" /\ Reads(k)
      BY <2>1, ConnectionsAssumption DEF Served, Attached, Reads, Typed, OwnTypes
    <3>2. ToSet(inbox[k]) = {} /\ ToSet(outbox[k]) = {}
      BY <3>1, Nothing DEF Quiet
    <3>3. Seen(c) /\ Known(c)
      BY DEF Present, Truthful
    <3>4. ~(states[c] = 0 /\ clocks[c] >= clock[c]) /\ ~(clocks[c] < clock[c])
      BY <2>1, <3>1, <3>2, <3>3 DEF Seen
    <3>5. clocks[c] >= clock[c]
      BY <2>t, <3>4
    <3>6. states[c] # 0
      BY <3>4, <3>5
    <3> QED
      BY <2>t, <3>3, <3>5, <3>6 DEF Known, Hidden
  <2>2. ASSUME at[c] = 0, states[c] \notin {None, 0}
        PROVE  \E k \in Conns : conn[k].phase = "open" /\ conn[k].cut /\ conn[k].client = c
    <3>1. PICK k \in Conns : Holds(k, c)
      BY <2>2 DEF Present, Guarded
    <3>2. conn[k].phase = "open" /\ conn[k].client = c
      BY <3>1 DEF Quiet, Holds
    <3>3. ToSet(inbox[k]) = {}
      BY <3>2, Nothing DEF Quiet
    <3>4. at[c] # k
      BY <2>2, ConnectionsAssumption DEF Conns
    <3>5. conn[k].cut
      BY <3>2, <3>3, <3>4 DEF Present, Parts
    <3> QED
      BY <3>2, <3>5
  <2> QED
    BY <2>1, <2>2
<1> QED
  BY <1>1, Types, Covers, Presence, PTL
=============================================================================
