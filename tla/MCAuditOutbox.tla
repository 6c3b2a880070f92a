---------------------------- MODULE MCAuditOutbox ----------------------------
(* Model-checking instances of AuditOutbox, and its liveness. *)
EXTENDS AuditOutbox, TLC

CONSTANTS MaySlow,    \* events the Hub may never answer in time
          MaxMishaps  \* bound: discarded blobs and crashes of a behaviour that
                      \* records all NEvents

VARIABLE slow     \* those it never answers in this behaviour

mcvars == <<vars, slow>>

BlobSymmetry == Permutations(Blob)

MCInit == Init /\ slow \in SUBSET MaySlow

MCSpec == MCInit /\ [][/\ Next /\ UNCHANGED slow
                       /\ recorded' = NEvents => crashes' + forgets' <= MaxMishaps]_mcvars

Fails == \/ PrepareFails \/ AppendFails
         \/ \E b \in Blob : PutFails(b)
Replays == \E e \in Event : state[e] = "DEAD_LETTER" /\ state'[e] # "DEAD_LETTER"

\* The worker loop, timers and the call timeouts always run on, the mesh
\* reconnects, and outages end: from some time on the calls for an event that is
\* not slow succeed.  Of a slow event only the timeouts are certain.  Nothing
\* obliges a crash, a refusal, a discarded blob, a new event or an operator, who
\* does not replay the same events for ever.
Fairness ==
  /\ WF_mcvars((ListDue \/ \E e \in Event : Begin(e)) /\ UNCHANGED slow)
  /\ WF_mcvars(Processing /\ UNCHANGED slow)
  /\ WF_mcvars(cur \notin slow /\ HubAnswers /\ UNCHANGED slow)
  /\ \A e \in Event : WF_mcvars(BecomeDue(e) /\ UNCHANGED slow)
  /\ <>[][~Replays /\ (Fails => cur \in slow)]_mcvars

FairSpec == MCSpec /\ Fairness

\* An event at its append lacks a confirmed blob, and of the events that share
\* it the only ones that would upload it are quarantined or never answered.
Blocked(e) ==
  /\ Waiting(e) /\ Phase(e) = "PENDING_APPEND"
  /\ \E b \in attach[e] \ confirmed :
       LET others == {f \in Event \ {e} : b \in attach[f]}
       IN  /\ \E f \in others : state[f] = "DEAD_LETTER" \/ f \in slow
           /\ \A f \in others \ slow : Waiting(f) => Phase(f) = "PENDING_APPEND"

\* Older events that are never answered, or blocked, fill every batch.
Crowded(e) ==
  Cardinality({d \in Event : d < e /\ Waiting(d) /\ (d \in slow \/ Blocked(d))}) >= BatchLimit

\* Every recorded event the Hub answers is acknowledged or quarantined in the
\* end, over retries, restarts, replays, discarded blobs and neighbours that
\* are never answered, unless it is blocked by one of them or older ones fill
\* every batch (audit-worker.ts, #run and #process; lane-outbox.ts:326-335;
\* AUD-002).
AnsweredSettle ==
  \A e \in Event :
    state[e] # "NONE" /\ e \notin slow ~> Settled(e) \/ Blocked(e) \/ Crowded(e)
=============================================================================
