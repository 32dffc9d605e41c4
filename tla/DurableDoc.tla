----------------------------- MODULE DurableDoc -----------------------------
(***************************************************************************)
(* What a document's persistence layer promises, with none of its          *)
(* machinery: a document is a set of fields that change, a change that has *)
(* been accepted is promised to the store, and the store only ever moves   *)
(* forward, through contents the document really had, until it holds       *)
(* everything that was promised - or the document is given up: its         *)
(* persistence worker has ended, and nobody saves it any more.             *)
(*                                                                         *)
(* A content is a function from fields to version numbers: the number of   *)
(* changes the field has seen.                                             *)
(***************************************************************************)
EXTENDS Naturals

CONSTANT Fields             \* the separately locked parts of a document

VARIABLES mem,              \* the content in memory
          promised,         \* the content whose changes have been accepted
          durable,          \* the content the store holds
          closed            \* whether the document is given up

absVars == <<mem, promised, durable, closed>>

Content == [Fields -> Nat]

\* Content a is at least as old as content b, in every field.
Upto(a, b) == \A f \in Fields : a[f] <= b[f]

AbsInit ==
  /\ mem = [f \in Fields |-> 0]
  /\ promised = mem
  /\ durable = mem
  /\ closed = FALSE

\* A field changes in memory.
Change(f) ==
  /\ mem' = [mem EXCEPT ![f] = @ + 1]
  /\ UNCHANGED <<promised, durable, closed>>

\* The changes made to a field so far are accepted for saving.
Promise(f) ==
  /\ promised' = [promised EXCEPT ![f] = mem[f]]
  /\ UNCHANGED <<mem, durable, closed>>

\* The store moves forward, never past what is in memory.
Save ==
  /\ durable' \in Content
  /\ Upto(durable, durable')
  /\ Upto(durable', mem)
  /\ UNCHANGED <<mem, promised, closed>>

\* The document is given up, whatever the store holds.
Close ==
  /\ ~closed /\ closed' = TRUE
  /\ UNCHANGED <<mem, promised, durable>>

AbsNext ==
  \/ \E f \in Fields : Change(f) \/ Promise(f)
  \/ Save \/ Close

SafeSpec == AbsInit /\ [][AbsNext]_absVars

(***************************************************************************)
(* Until the document is given up the store catches up again and again: no *)
(* promise stays open for ever.                                            *)
(***************************************************************************)
AlwaysCatchesUp == []<>(closed \/ Upto(promised, durable))

AbsSpec == SafeSpec /\ AlwaysCatchesUp
=============================================================================
