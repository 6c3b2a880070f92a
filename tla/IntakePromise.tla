---------------------------- MODULE IntakePromise ----------------------------
(***************************************************************************)
(* What a lane promises about the events of a provider, whatever becomes   *)
(* of the driver, its connections and the daemon: an event is recorded     *)
(* once, with its attachments in storage, under the next number; its       *)
(* message becomes a turn once, of a recorded event; and an acceptance     *)
(* names the row of the event, after the turn was queued, or else after a  *)
(* handler stopped between the two databases.                              *)
(***************************************************************************)
EXTENDS Naturals

CONSTANTS Inbound, MessageOf, Blob, BlobsOf

VARIABLES stored,   \* attachments in storage
          rows,     \* recorded events: [id, key]
          next,     \* the number of the next row
          turns,    \* queued messages: [message, row]
          stopped,  \* events a handler recorded and did not queue
          accepted  \* rows the driver was told of

vars == <<stored, rows, next, turns, stopped, accepted>>

Init == stored = {} /\ rows = {} /\ next = 1 /\ turns = {} /\ stopped = {} /\ accepted = {}

Queued(e) == \E t \in turns : t.message = MessageOf[e]

Store(b) == /\ stored' = stored \cup {b}
            /\ UNCHANGED <<rows, next, turns, stopped, accepted>>

Record(e) == /\ BlobsOf[e] \subseteq stored
             /\ \A r \in rows : r.key # e
             /\ rows' = rows \cup {[id |-> next, key |-> e]} /\ next' = next + 1
             /\ UNCHANGED <<stored, turns, stopped, accepted>>

Queue(r) == /\ ~Queued(r.key)
            /\ turns' = turns \cup {[message |-> MessageOf[r.key], row |-> r.id]}
            /\ UNCHANGED <<stored, rows, next, stopped, accepted>>

Stop(R) == /\ stopped' = stopped \cup {r.key : r \in R}
           /\ UNCHANGED <<stored, rows, next, turns, accepted>>

Accept(r) == /\ Queued(r.key) \/ r.key \in stopped
             /\ accepted' = accepted \cup {r}
             /\ UNCHANGED <<stored, rows, next, turns, stopped>>

Next == \/ \E b \in Blob : Store(b)
        \/ \E e \in Inbound : Record(e)
        \/ \E r \in rows : Queue(r) \/ Accept(r)
        \/ \E R \in SUBSET rows : Stop(R)

\* The promise.
Spec == Init /\ [][Next]_vars
=============================================================================
