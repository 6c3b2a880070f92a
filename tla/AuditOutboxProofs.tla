-------------------------- MODULE AuditOutboxProofs --------------------------
(***************************************************************************)
(* Proofs about AuditOutbox, for any number of events, blobs, crashes and  *)
(* discarded blobs and any batch limit.                                    *)
(***************************************************************************)
EXTENDS AuditOutbox, TLAPS

-----------------------------------------------------------------------------
USE DEF Event, Phases, States

\* A freshly created outbox satisfies the inductive invariant.
LEMMA InitIInv == Init => IInv
  BY OutboxAssumption
  DEF Init, IInv, TypeOK, RowsExist, CurrentWaits, UploadProgress, AnswerTrue,
      AckedAtHub, SnapshotHolds, UnconfirmedHasUploader, Waiting, Phase,
      BlobsConfirmed

\* No handler, crash or restart breaks the inductive invariant.
LEMMA StepIInv == IInv /\ [Next]_vars => IInv'
  <1> SUFFICES ASSUME IInv, [Next]_vars PROVE IInv'
    OBVIOUS
  <1> USE OutboxAssumption
  <1> USE DEF IInv, TypeOK, RowsExist, CurrentWaits, UploadProgress, AnswerTrue,
      AckedAtHub, SnapshotHolds, UnconfirmedHasUploader, Waiting, Phase,
      BlobsConfirmed, durable, worker, hub, Rest, Done, Transition,
      MarkPendingAppend, MarkRetry, MarkDeadLetter, MarkAcked, GiveUpFor, GiveUpForGood
  <1>1. CASE Record
    <2>1. TypeOK' BY <1>1 DEF Record
    <2>2. RowsExist' BY <1>1 DEF Record
    <2>3. CurrentWaits' BY <1>1 DEF Record
    <2>4. UploadProgress' BY <1>1 DEF Record
    <2>5. AnswerTrue' BY <1>1 DEF Record
    <2>6. AckedAtHub' BY <1>1 DEF Record
    <2>7. SnapshotHolds' BY <1>1 DEF Record
    <2>8. UnconfirmedHasUploader' BY <1>1 DEF Record
    <2> QED BY <2>1, <2>2, <2>3, <2>4, <2>5, <2>6, <2>7, <2>8
  <1>2. ASSUME NEW E \in SUBSET Event, Replay(E) PROVE IInv'
    <2>1. TypeOK' BY <1>2 DEF Replay
    <2>2. RowsExist' BY <1>2 DEF Replay
    <2>3. CurrentWaits' BY <1>2 DEF Replay
    <2>4. UploadProgress' BY <1>2 DEF Replay
    <2>5. AnswerTrue' BY <1>2 DEF Replay
    <2>6. AckedAtHub' BY <1>2 DEF Replay
    <2>7. SnapshotHolds' BY <1>2 DEF Replay
    <2>8. UnconfirmedHasUploader' BY <1>2 DEF Replay
    <2> QED BY <2>1, <2>2, <2>3, <2>4, <2>5, <2>6, <2>7, <2>8
  <1>3. CASE ListDue BY <1>3 DEF ListDue, FirstDue, Due
  <1>4. ASSUME NEW e \in Event, Begin(e) PROVE IInv'
    <2>1. TypeOK' BY <1>4 DEF Begin
    <2>2. RowsExist' BY <1>4 DEF Begin
    <2>3. CurrentWaits' BY <1>4 DEF Begin
    <2>4. UploadProgress' BY <1>4 DEF Begin
    <2>5. AnswerTrue' BY <1>4 DEF Begin
    <2>6. AckedAtHub' BY <1>4 DEF Begin
    <2>7. SnapshotHolds' BY <1>4 DEF Begin
    <2>8. UnconfirmedHasUploader' BY <1>4 DEF Begin
    <2> QED BY <2>1, <2>2, <2>3, <2>4, <2>5, <2>6, <2>7, <2>8
  <1>5. CASE Prepared BY <1>5 DEF Prepared
  <1>6. CASE PrepareFails
    <2>1. TypeOK' BY <1>6 DEF PrepareFails
    <2>2. RowsExist' BY <1>6 DEF PrepareFails
    <2>3. CurrentWaits' BY <1>6 DEF PrepareFails
    <2>4. UploadProgress' BY <1>6 DEF PrepareFails
    <2>5. AnswerTrue' BY <1>6 DEF PrepareFails
    <2>6. AckedAtHub' BY <1>6 DEF PrepareFails
    <2>7. SnapshotHolds' BY <1>6 DEF PrepareFails
    <2>8. UnconfirmedHasUploader' BY <1>6 DEF PrepareFails
    <2> QED BY <2>1, <2>2, <2>3, <2>4, <2>5, <2>6, <2>7, <2>8
  <1>7. CASE PrepareRefused BY <1>7 DEF PrepareRefused
  <1>8. ASSUME NEW b \in Blob, BlobPresent(b) PROVE IInv' BY <1>8 DEF BlobPresent, Confirm
  <1>9. ASSUME NEW b \in Blob, Put(b) PROVE IInv' BY <1>9 DEF Put, Confirm
  <1>10. ASSUME NEW b \in Blob, PutFails(b) PROVE IInv' BY <1>10 DEF PutFails
  <1>11. ASSUME NEW b \in Blob, PutRefused(b) PROVE IInv' BY <1>11 DEF PutRefused
  <1>12. CASE Uploaded BY <1>12 DEF Uploaded
  <1>13. CASE SendAppend BY <1>13 DEF SendAppend
  <1>14. CASE SendBlocked
    <2>1. TypeOK' BY <1>14 DEF SendBlocked
    <2>2. RowsExist' BY <1>14 DEF SendBlocked
    <2>3. CurrentWaits' BY <1>14 DEF SendBlocked
    <2>4. UploadProgress' BY <1>14 DEF SendBlocked
    <2>5. AnswerTrue' BY <1>14 DEF SendBlocked
    <2>6. AckedAtHub' BY <1>14 DEF SendBlocked
    <2>7. SnapshotHolds' BY <1>14 DEF SendBlocked
    <2>8. UnconfirmedHasUploader' BY <1>14 DEF SendBlocked
    <2> QED BY <2>1, <2>2, <2>3, <2>4, <2>5, <2>6, <2>7, <2>8
  <1>15. CASE Acked
    <2>1. TypeOK' BY <1>15 DEF Acked
    <2>2. RowsExist' BY <1>15 DEF Acked
    <2>3. CurrentWaits' BY <1>15 DEF Acked
    <2>4. UploadProgress' BY <1>15 DEF Acked
    <2>5. AnswerTrue' BY <1>15 DEF Acked
    <2>6. AckedAtHub' BY <1>15 DEF Acked
    <2>7. SnapshotHolds' BY <1>15 DEF Acked
    <2>8. UnconfirmedHasUploader' BY <1>15 DEF Acked
    <2> QED BY <2>1, <2>2, <2>3, <2>4, <2>5, <2>6, <2>7, <2>8
  <1>16. CASE BlobsMissing BY <1>16 DEF BlobsMissing
  <1>17. CASE Refused BY <1>17 DEF Refused
  <1>18. CASE AppendFails
    <2>1. TypeOK' BY <1>18 DEF AppendFails, Unanswered
    <2>2. RowsExist' BY <1>18 DEF AppendFails, Unanswered
    <2>3. CurrentWaits' BY <1>18 DEF AppendFails, Unanswered
    <2>4. UploadProgress' BY <1>18 DEF AppendFails, Unanswered
    <2>5. AnswerTrue' BY <1>18 DEF AppendFails, Unanswered
    <2>6. AckedAtHub' BY <1>18 DEF AppendFails, Unanswered
    <2>7. SnapshotHolds' BY <1>18 DEF AppendFails, Unanswered
    <2>8. UnconfirmedHasUploader' BY <1>18 DEF AppendFails, Unanswered
    <2> QED BY <2>1, <2>2, <2>3, <2>4, <2>5, <2>6, <2>7, <2>8
  <1>19. CASE HubAnswers BY <1>19 DEF HubAnswers
  <1>20. CASE HubRefuses BY <1>20 DEF HubRefuses
  <1>21. ASSUME NEW e \in Event, LateAppend(e) PROVE IInv' BY <1>21 DEF LateAppend
  <1>22. ASSUME NEW e \in Event, BecomeDue(e) PROVE IInv' BY <1>22 DEF BecomeDue
  <1>23. ASSUME NEW b \in Blob, HubForgets(b) PROVE IInv' BY <1>23 DEF HubForgets
  <1>24. CASE Crash BY <1>24 DEF Crash, Unanswered
  <1>25. CASE UNCHANGED vars BY <1>25 DEF vars
  <1>26. QED
    BY <1>1, <1>2, <1>3, <1>4, <1>5, <1>6, <1>7, <1>8, <1>9, <1>10, <1>11, <1>12,
       <1>13, <1>14, <1>15, <1>16, <1>17, <1>18, <1>19, <1>20, <1>21, <1>22, <1>23,
       <1>24, <1>25 DEF Next, Processing, Environment

\* The inductive invariant holds of every behaviour.
THEOREM OutboxInvariant == Spec => []IInv
  <1>1. Init => IInv BY InitIInv
  <1>2. IInv /\ [Next]_vars => IInv' BY StepIInv
  <1> QED BY <1>1, <1>2, PTL DEF Spec

\* The rows and the locals of the worker keep their types; in particular no row
\* is ever left with a resume_state it cannot resume at.
THEOREM OutboxTypes == Spec => []TypeOK
  <1>1. IInv => TypeOK BY DEF IInv
  <1> QED BY <1>1, OutboxInvariant, PTL

\* No row is marked ACKED that the Hub does not hold.
THEOREM AckedOnlyAtHub == Spec => []AckedAtHub
  <1>1. IInv => AckedAtHub BY DEF IInv
  <1> QED BY <1>1, OutboxInvariant, PTL

\* The stale batch #run works through still describes the rows it names.
THEOREM SnapshotNeverStale == Spec => []SnapshotHolds
  <1>1. IInv => SnapshotHolds BY DEF IInv
  <1> QED BY <1>1, OutboxInvariant, PTL

\* A blob the Hub lost always has an event that uploads it again, if only
\* after an operator's replay.
THEOREM UploaderRemains == Spec => []UnconfirmedHasUploader
  <1>1. IInv => UnconfirmedHasUploader BY DEF IInv
  <1> QED BY <1>1, OutboxInvariant, PTL
-----------------------------------------------------------------------------
(* The outbox implements AuditDelivery. *)

\* A fresh outbox is a fresh delivery service.
LEMMA InitRefines == Init => Delivery!Init
  BY DEF Init, Delivery!Init, Status

\* From a state of the invariant, each step of the worker is a step of
\* AuditDelivery or changes no status.
LEMMA StepRefines == IInv /\ [Next]_vars => [Delivery!Next]_(Delivery!vars)
  <1> SUFFICES ASSUME IInv, [Next]_vars
               PROVE  Delivery!Next \/ UNCHANGED <<Status, hubEvents>>
    BY DEF Delivery!vars
  <1> USE OutboxAssumption DEF IInv, TypeOK
  <1>a. ASSUME NEW s \in Phases \cup {"RETRY_WAIT"}, NEW r, NEW now,
               Transition(cur, s, r, now), pc # "idle"
        PROVE  UNCHANGED Status
    BY <1>a DEF Transition, CurrentWaits, Waiting, Status
  <1>b. ASSUME MarkDeadLetter(cur), pc # "idle", UNCHANGED hubEvents
        PROVE  Delivery!Next
    <2>1. cur \in Event /\ Status[cur] = "queued"
      BY <1>b DEF CurrentWaits, Waiting, Status
    <2>2. Status' = [Status EXCEPT ![cur] = "quarantined"]
      BY <1>b, <2>1 DEF MarkDeadLetter, Transition, Status
    <2> QED BY <1>b, <2>1, <2>2 DEF Delivery!Next, Delivery!Quarantine
  <1>1. CASE Record
    <2>1. recorded + 1 \in Event /\ Status[recorded + 1] = "absent"
      BY <1>1 DEF Record, RowsExist, Status
    <2>2. Status' = [Status EXCEPT ![recorded + 1] = "queued"]
      BY <1>1, <2>1 DEF Record, Status
    <2>3. UNCHANGED hubEvents BY <1>1 DEF Record, hub
    <2> QED BY <2>1, <2>2, <2>3 DEF Delivery!Next, Delivery!Enqueue
  <1>2. ASSUME NEW E \in SUBSET Event, Replay(E)
        PROVE  Delivery!Next
    <2>1. Status' = [e \in Event |-> IF e \in E /\ Status[e] = "quarantined"
                                       THEN "queued" ELSE Status[e]]
      BY <1>2 DEF Replay, Status
    <2>2. UNCHANGED hubEvents BY <1>2 DEF Replay, hub
    <2> QED BY <2>1, <2>2 DEF Delivery!Next, Delivery!Requeue
  <1>3. CASE Acked
    <2>1. cur \in Event /\ Status[cur] = "queued" /\ cur \in hubEvents
      BY <1>3 DEF Acked, CurrentWaits, AnswerTrue, Waiting, Status
    <2>2. Status' = [Status EXCEPT ![cur] = "delivered"]
      BY <1>3, <2>1 DEF Acked, MarkAcked, Status
    <2>3. UNCHANGED hubEvents BY <1>3 DEF Acked, hub
    <2> QED BY <2>1, <2>2, <2>3 DEF Delivery!Next, Delivery!Deliver
  <1>4. CASE PrepareRefused \/ Refused
    BY <1>4, <1>b DEF PrepareRefused, Refused, GiveUpForGood, hub
  <1>5. ASSUME NEW b \in Blob, PutRefused(b) PROVE Delivery!Next
    BY <1>5, <1>b DEF PutRefused, GiveUpForGood, hub
  <1>c. ASSUME NEW e \in Event, state[e] # "NONE", UNCHANGED state,
               hubEvents' \in {hubEvents, hubEvents \cup {e}}
        PROVE  Delivery!Next \/ UNCHANGED <<Status, hubEvents>>
    <2>1. UNCHANGED Status /\ Status[e] # "absent" BY <1>c DEF Status
    <2> QED BY <1>c, <2>1 DEF Delivery!Next, Delivery!Accept
  <1>6. CASE HubAnswers
    BY <1>6, <1>c DEF HubAnswers, CurrentWaits, Waiting, durable
  <1>7. ASSUME NEW e \in Event, LateAppend(e)
        PROVE  Delivery!Next \/ UNCHANGED <<Status, hubEvents>>
    BY <1>7, <1>c DEF LateAppend, RowsExist, durable
  <1>8. CASE PrepareFails \/ SendBlocked \/ AppendFails \/ BlobsMissing \/ Uploaded
    BY <1>8, <1>a DEF PrepareFails, SendBlocked, AppendFails, BlobsMissing, Uploaded,
       GiveUpFor, MarkRetry, MarkPendingAppend, hub
  <1>9. ASSUME NEW b \in Blob, PutFails(b) PROVE UNCHANGED <<Status, hubEvents>>
    BY <1>9, <1>a DEF PutFails, GiveUpFor, MarkRetry
  <1>10. ASSUME NEW b \in Blob, BlobPresent(b) \/ Put(b) \/ HubForgets(b)
         PROVE  UNCHANGED <<Status, hubEvents>>
    BY <1>10 DEF BlobPresent, Put, Confirm, HubForgets, durable, Status
  <1>11. ASSUME NEW e \in Event, Begin(e) \/ BecomeDue(e)
         PROVE  UNCHANGED <<Status, hubEvents>>
    BY <1>11 DEF Begin, BecomeDue, durable, hub, Status
  <1>12. CASE ListDue \/ Prepared \/ SendAppend \/ HubRefuses \/ Crash \/ UNCHANGED vars
    BY <1>12 DEF ListDue, Prepared, SendAppend, HubRefuses, Crash, vars, durable, hub, Status
  <1> QED
    BY <1>1, <1>2, <1>3, <1>4, <1>5, <1>6, <1>7, <1>8, <1>9, <1>10, <1>11, <1>12
       DEF Next, Processing, Environment

\* The lane outbox keeps the promise of AuditDelivery: no recorded event is
\* forgotten, delivery is final and only what the Hub accepted is delivered.
THEOREM OutboxRefinesDelivery == Spec => DeliverySpec
  <1>1. Init => Delivery!Init BY InitRefines
  <1>2. IInv /\ [Next]_vars => [Delivery!Next]_(Delivery!vars) BY StepRefines
  <1> QED BY <1>1, <1>2, OutboxInvariant, PTL DEF Spec, DeliverySpec, Delivery!Spec
=============================================================================
