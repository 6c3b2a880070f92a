---------------------------- MODULE AuditDelivery ----------------------------
(***************************************************************************)
(* What the lane outbox promises about one audit event, whatever the       *)
(* worker, the network, the Hub and the process do: an event that was      *)
(* recorded is never forgotten, it counts as delivered only once the Hub   *)
(* accepted it, delivery is final, and a refused event is quarantined      *)
(* until an operator queues it again.                                      *)
(***************************************************************************)
CONSTANT Event

VARIABLES status,   \* what became of each event on this lane
          accepted  \* the events the Hub has accepted

vars == <<status, accepted>>

Status == {"absent", "queued", "delivered", "quarantined"}

\* The types of the promise: a status for each event, and a set of events.
TypeOK == /\ status \in [Event -> Status]
          /\ accepted \subseteq Event

Init == /\ status = [e \in Event |-> "absent"]
        /\ accepted = {}

Enqueue(e) == /\ status[e] = "absent"
              /\ status' = [status EXCEPT ![e] = "queued"]
              /\ UNCHANGED accepted

\* The Hub may accept a request the lane has already given up on.
Accept(e) == /\ status[e] # "absent"
             /\ accepted' = accepted \cup {e}
             /\ UNCHANGED status

Deliver(e) == /\ status[e] = "queued"
              /\ e \in accepted
              /\ status' = [status EXCEPT ![e] = "delivered"]
              /\ UNCHANGED accepted

Quarantine(e) == /\ status[e] = "queued"
                 /\ status' = [status EXCEPT ![e] = "quarantined"]
                 /\ UNCHANGED accepted

Requeue(E) == /\ status' = [e \in Event |->
                    IF e \in E /\ status[e] = "quarantined" THEN "queued"
                                                            ELSE status[e]]
              /\ UNCHANGED accepted

Next == \/ \E e \in Event : \/ Enqueue(e) \/ Accept(e)
                            \/ Deliver(e) \/ Quarantine(e)
        \/ \E E \in SUBSET Event : Requeue(E)

\* The promise.
Spec == Init /\ [][Next]_vars
=============================================================================
