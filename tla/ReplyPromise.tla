----------------------------- MODULE ReplyPromise -----------------------------
(***************************************************************************)
(* What a lane promises about the turns of its channels and their replies, *)
(* whatever the worker, the drain, the driver and the process do: one turn *)
(* runs at a time; the first intent to reply is kept for good and comes    *)
(* before any message; a reply counts as delivered only after a message,   *)
(* and for good; and a turn is completed together with the record of its   *)
(* outcome, and only when its reply was delivered.                         *)
(***************************************************************************)
CONSTANTS Reply, Text, NoText

VARIABLES state,     \* what became of each turn: a later answer may still
                     \* complete one that failed, and the reverse
          intent,    \* the text of the recorded intent
          posts,     \* the texts the provider took
          delivered, \* replies the lane knows to be delivered
          audited    \* replies whose outcome is on record

vars == <<state, intent, posts, delivered, audited>>

Init == /\ state = [r \in Reply |-> "queued"]
        /\ intent = [r \in Reply |-> NoText]
        /\ posts = [r \in Reply |-> {}]
        /\ delivered = {} /\ audited = {}

Take(r) == /\ state[r] = "queued" /\ \A s \in Reply : state[s] # "running"
           /\ state' = [state EXCEPT ![r] = "running"]
           /\ UNCHANGED <<intent, posts, delivered, audited>>

Intend(r, x) == /\ state[r] # "queued" /\ intent[r] = NoText
                /\ intent' = [intent EXCEPT ![r] = x]
                /\ UNCHANGED <<state, posts, delivered, audited>>

Post(r, x) == /\ intent[r] # NoText
              /\ posts' = [posts EXCEPT ![r] = @ \cup {x}]
              /\ UNCHANGED <<state, intent, delivered, audited>>

Deliver(r) == /\ posts[r] # {}
              /\ delivered' = delivered \cup {r}
              /\ UNCHANGED <<state, intent, posts, audited>>

Complete(r) == /\ r \in delivered
               /\ state' = [state EXCEPT ![r] = "completed"]
               /\ audited' = audited \cup {r}
               /\ UNCHANGED <<intent, posts, delivered>>

\* A sender that gives up does not know of the other one.
Fail(r) == /\ state[r] \in {"running", "completed"}
           /\ state' = [state EXCEPT ![r] = "failed"]
           /\ UNCHANGED <<intent, posts, delivered, audited>>

Restart == /\ state' = [r \in Reply |-> IF state[r] = "running" THEN "queued" ELSE state[r]]
           /\ UNCHANGED <<intent, posts, delivered, audited>>

Next == \/ Restart
        \/ \E r \in Reply : Take(r) \/ Deliver(r) \/ Complete(r) \/ Fail(r)
        \/ \E r \in Reply, x \in Text : Intend(r, x) \/ Post(r, x)

\* The promise.
Spec == Init /\ [][Next]_vars
=============================================================================
