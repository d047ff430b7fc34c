----------------------------- MODULE LogStream -----------------------------
(***************************************************************************)
(* What a StagingBuffer promises its two users, the logging thread that    *)
(* owns it and the backend worker that drains it: a first-in first-out     *)
(* stream of log entries that together stay strictly below the capacity of *)
(* the buffer, and that is destroyed only after its thread has ended and   *)
(* every entry was taken.  StagingBuffer.tla is shown to implement this,   *)
(* and each buffer of Backend.tla to be one.                               *)
(***************************************************************************)
EXTENDS Integers, Sequences

CONSTANTS
  Capacity,     \* kSTAGING_BUFFER_SIZE, in bytes
  Sizes,        \* the entry sizes that may be asked for
  MaxEntries    \* bound on the number of entries ever published

VARIABLES
  queue,        \* published entries that were not taken yet, oldest first
  held,         \* the bytes of these entries
  sent,         \* number of entries published so far; names the next one
  owner         \* "alive", "ended" (its thread is gone), "freed"

streamVars == <<queue, held, sent, owner>>

Init ==
  /\ queue = <<>>
  /\ held = 0
  /\ sent = 0
  /\ owner = "alive"

\* reserveProducerSpace(n) followed by finishReservation(n).
Publish(n) ==
  /\ owner = "alive"
  /\ sent < MaxEntries
  /\ held + n < Capacity
  /\ queue' = Append(queue, [id |-> sent, len |-> n])
  /\ held' = held + n
  /\ sent' = sent + 1
  /\ UNCHANGED owner

\* consume() of the entry that peek() showed.
Take ==
  /\ owner # "freed"
  /\ queue # <<>>
  /\ queue' = Tail(queue)
  /\ held' = held - Head(queue).len
  /\ UNCHANGED <<sent, owner>>

\* The owning thread ends.
End ==
  /\ owner = "alive"
  /\ owner' = "ended"
  /\ UNCHANGED <<queue, held, sent>>

\* checkCanDelete() is true and the worker deletes the buffer.
Free ==
  /\ owner = "ended"
  /\ queue = <<>>
  /\ owner' = "freed"
  /\ UNCHANGED <<queue, held, sent>>

Next == (\E n \in Sizes : Publish(n)) \/ Take \/ End \/ Free

Spec == Init /\ [][Next]_streamVars
=============================================================================
