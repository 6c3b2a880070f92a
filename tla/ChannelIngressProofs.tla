------------------------- MODULE ChannelIngressProofs -------------------------
(***************************************************************************)
(* Proofs about ChannelIngress, for any number of connections, provider    *)
(* events, messages and attachments, however the events share the latter.  *)
(***************************************************************************)
EXTENDS ChannelIngress, TLAPS

-----------------------------------------------------------------------------
\* An empty outbox with idle handlers satisfies the inductive invariant.
LEMMA InitIInv == Init => IInv
  BY IngressAssumption
  DEF Init, IInv, TypeOK, RowId, FoundIsCommitted, OneRowPerEvent, RowsHaveBlobs,
      IngestProgress, RowsPublished, RepliesPublished, AcceptedIsDurable,
      TurnIsAudited, OneTurnPerMessage, AcceptedHasTurnUnlessBroken

\* The transaction that ends record() keeps the invariant when the attachments
\* are in the spool: the key is new, so are the row and its number.
LEMMA InsertStep ==
  ASSUME IInv, NEW c \in Conn, Insert(c), BlobsOf[req[c]] \subseteq spool,
         UNCHANGED <<spool, turns, req, todo, answered, broken, sends, crashes>>
  PROVE  IInv'
  <1> USE DEF IInv, TypeOK, RowId, Row, Insert, Proceed, FindByDedupKey
  <1>1. TypeOK'
    BY DEF Turn, Answer
  <1>2. FoundIsCommitted'
    BY DEF FoundIsCommitted
  <1>3. OneRowPerEvent'
    BY DEF OneRowPerEvent
  <1>4. RowsHaveBlobs' /\ IngestProgress'
    BY DEF RowsHaveBlobs, IngestProgress
  <1>5. RowsPublished' /\ RepliesPublished'
    BY DEF RowsPublished, RepliesPublished, Published, HasTurn
  <1>6. AcceptedIsDurable' /\ AcceptedHasTurnUnlessBroken'
    BY DEF AcceptedIsDurable, AcceptedHasTurnUnlessBroken, HasTurn
  <1>7. TurnIsAudited' /\ OneTurnPerMessage'
    BY DEF TurnIsAudited, OneTurnPerMessage
  <1> QED BY <1>1, <1>2, <1>3, <1>4, <1>5, <1>6, <1>7 DEF IInv

\* A handler that is not between the two databases may stop at any point.
LEMMA LeaveStep ==
  ASSUME IInv, NEW c \in Conn, Leave(c), pc[c] # "committed",
         UNCHANGED <<durable, req, answered, broken, sends, crashes>>
  PROVE  IInv'
  BY DEF IInv, TypeOK, Leave, Proceed, durable, FoundIsCommitted, OneRowPerEvent,
         RowsHaveBlobs, IngestProgress, RowsPublished, RepliesPublished, Published,
         HasTurn, AcceptedIsDurable, TurnIsAudited, OneTurnPerMessage,
         AcceptedHasTurnUnlessBroken

\* A row is the record of its number and its key.
LEMMA RowShape ==
  TypeOK => \A r \in rows : /\ r.id \in RowId /\ r.key \in Inbound
                            /\ r = [id |-> r.id, key |-> r.key]
  BY DEF TypeOK, Row

\* A row that was committed for a provider event has its two fields.
LEMMA RowFields ==
  ASSUME TypeOK, NEW i, NEW p, [id |-> i, key |-> p] \in rows
  PROVE  i \in RowId /\ p \in Inbound
  BY DEF TypeOK, Row

\* The part of TypeOK that a move of a handler touches, after the step.
HandlerTypes ==
  /\ pc' \in [Conn -> {"idle", "capacity", "ingest", "committed", "reply"}]
  /\ found' \in [Conn -> Nat] /\ dup' \in [Conn -> BOOLEAN]

\* Wherever a handler goes on to, its locals keep their types.
LEMMA ProceedTypes ==
  ASSUME TypeOK, NEW c \in Conn, NEW id \in Nat, NEW d \in BOOLEAN,
         NEW at \in {"idle", "capacity", "ingest", "committed", "reply"},
         Proceed(c, at, id, d)
  PROVE  HandlerTypes
  BY DEF TypeOK, Proceed, HandlerTypes

\* enqueueChannel forgets no turn, and leaves one for the message.
LEMMA EnqueueTurns ==
  ASSUME NEW c \in Conn, Enqueue(c)
  PROVE  /\ turns \subseteq turns'
         /\ \E t \in turns' : t.message = MessageOf[req[c]]
         /\ \A t \in turns' \ turns :
              t.row = found[c] /\ t.message = MessageOf[req[c]]
  <1>1. CASE \E t \in turns : t.message = MessageOf[req[c]]
    BY <1>1 DEF Enqueue
  <1>2. CASE ~\E t \in turns : t.message = MessageOf[req[c]]
    <2>1. turns' = turns \cup {[message |-> MessageOf[req[c]], row |-> found[c]]}
      BY <1>2 DEF Enqueue
    <2>2. [message |-> MessageOf[req[c]], row |-> found[c]] \in turns'
      BY <2>1
    <2>3. turns \subseteq turns'
      BY <2>1
    <2>4. \A t \in turns' \ turns :
            t = [message |-> MessageOf[req[c]], row |-> found[c]]
      BY <2>1
    <2> QED BY <2>2, <2>3, <2>4
  <1> QED BY <1>1, <1>2

\* No frame, await or crash breaks the inductive invariant.
LEMMA StepIInv == IInv /\ [Next]_vars => IInv'
  <1> SUFFICES ASSUME IInv, [Next]_vars PROVE IInv'
    OBVIOUS
  <1>1. ASSUME NEW c \in Conn, HasCapacity(c), Insert(c) PROVE IInv'
    <2>1. BlobsOf[req[c]] = {} /\ UNCHANGED todo
      BY <1>1 DEF IInv, TypeOK, HasCapacity, Insert, Proceed
    <2> QED BY <1>1, <2>1, InsertStep DEF HasCapacity
  <1>2. ASSUME NEW c \in Conn, Commit(c) PROVE IInv'
    <2>1. BlobsOf[req[c]] \subseteq spool
      BY <1>2 DEF Commit, IInv, IngestProgress
    <2> QED BY <1>2, <2>1, InsertStep DEF Commit
  <1>3. ASSUME NEW c \in Conn, CommitConflicts(c) \/ RecordFails(c) \/ ReplyLost(c)
        PROVE  IInv'
    BY <1>3, LeaveStep DEF CommitConflicts, RecordFails, ReplyLost
  <1> USE IngressAssumption
  <1>0. \A r \in rows : /\ r.id \in RowId /\ r.key \in Inbound
                          /\ r = [id |-> r.id, key |-> r.key]
    BY RowShape DEF IInv
  <1>4a. ASSUME NEW c \in Conn, NEW p \in Inbound, Receive(c, p)
        PROVE  HandlerTypes
    <2>1. CASE Proceed(c, "capacity", 0, FALSE)
      BY <2>1, ProceedTypes DEF IInv
    <2>2. ASSUME NEW r \in rows, Proceed(c, "reply", r.id, TRUE)
          PROVE  HandlerTypes
      BY <2>2, <1>0, ProceedTypes DEF IInv, RowId
    <2> QED BY <1>4a, <2>1, <2>2 DEF Receive, FindByDedupKey
  <1>5a. ASSUME NEW c \in Conn, HasCapacity(c), ~Insert(c)
        PROVE  HandlerTypes
    <2>1. CASE Proceed(c, "ingest", 0, FALSE)
      BY <2>1, ProceedTypes DEF IInv
    <2>2. ASSUME NEW r \in rows, Proceed(c, "committed", r.id, FALSE)
          PROVE  HandlerTypes
      BY <2>2, <1>0, ProceedTypes DEF IInv, RowId
    <2> QED BY <1>5a, <2>1, <2>2 DEF HasCapacity, FindByDedupKey
  <1> USE DEF IInv, TypeOK, RowId, FoundIsCommitted, OneRowPerEvent, RowsHaveBlobs,
      IngestProgress, RowsPublished, RepliesPublished, Published, HasTurn,
      AcceptedIsDurable, TurnIsAudited, OneTurnPerMessage,
      AcceptedHasTurnUnlessBroken, durable, Proceed, FindByDedupKey
  <1>4. ASSUME NEW c \in Conn, NEW p \in Inbound, Receive(c, p) PROVE IInv'
    <2>a. HandlerTypes
      BY <1>4, <1>4a
    <2>b. /\ sends' \in 0..MaxSends /\ req' \in [Conn -> Inbound]
          /\ UNCHANGED <<durable, todo, answered, broken, crashes>>
      BY <1>4 DEF Receive
    <2>1. TypeOK'
      BY <2>a, <2>b DEF HandlerTypes
    <2>2. FoundIsCommitted' /\ OneRowPerEvent'
      BY <1>4, <1>0 DEF Receive
    <2>3. RowsHaveBlobs' /\ IngestProgress'
      BY <1>4, <1>0 DEF Receive
    <2>4. RowsPublished' /\ RepliesPublished'
      BY <1>4, <1>0 DEF Receive
    <2>5. AcceptedIsDurable' /\ AcceptedHasTurnUnlessBroken'
      BY <1>4, <1>0 DEF Receive
    <2>6. TurnIsAudited' /\ OneTurnPerMessage'
      BY <1>4, <1>0 DEF Receive
    <2> QED BY <2>1, <2>2, <2>3, <2>4, <2>5, <2>6
  <1>5. ASSUME NEW c \in Conn, HasCapacity(c), ~Insert(c) PROVE IInv'
    <2>a. /\ todo' \in [Conn -> SUBSET Blob]
          /\ UNCHANGED <<rows, nextRow, spool, turns, req, answered, broken, sends,
                         crashes>>
      BY <1>5 DEF HasCapacity
    <2>b. HandlerTypes
      BY <1>5, <1>5a
    <2>1. TypeOK'
      BY <2>a, <2>b DEF HandlerTypes
    <2>2. FoundIsCommitted' /\ OneRowPerEvent'
      BY <1>5, <1>0 DEF HasCapacity
    <2>3. RowsHaveBlobs' /\ IngestProgress'
      BY <1>5, <1>0 DEF HasCapacity
    <2>4. RowsPublished' /\ RepliesPublished'
      BY <1>5, <1>0 DEF HasCapacity
    <2>5. AcceptedIsDurable' /\ AcceptedHasTurnUnlessBroken'
      BY <1>5, <1>0 DEF HasCapacity
    <2>6. TurnIsAudited' /\ OneTurnPerMessage'
      BY <1>5, <1>0 DEF HasCapacity
    <2> QED BY <2>1, <2>2, <2>3, <2>4, <2>5, <2>6
  <1>6. ASSUME NEW c \in Conn, NEW b \in Blob, Ingest(c, b) PROVE IInv'
    BY <1>6 DEF Ingest
  <1>7. ASSUME NEW c \in Conn, Enqueue(c) PROVE IInv'
    <2>0. [id |-> found[c], key |-> req[c]] \in rows
      BY <1>7 DEF Enqueue
    <2>a. found[c] \in RowId /\ req[c] \in Inbound
      BY <2>0, RowFields
    <2>1. TypeOK'
      BY <1>7, <2>0, <2>a DEF Enqueue, Row, Turn, Answer
    <2>2. FoundIsCommitted' /\ OneRowPerEvent'
      BY <1>7 DEF Enqueue
    <2>3. RowsHaveBlobs' /\ IngestProgress'
      BY <1>7 DEF Enqueue
    <2>b. /\ turns \subseteq turns'
          /\ \E t \in turns' : t.message = MessageOf[req[c]]
      BY <1>7, EnqueueTurns
    <2>4. RowsPublished' /\ RepliesPublished'
      BY <1>7, <2>b DEF Enqueue
    <2>5. AcceptedIsDurable' /\ AcceptedHasTurnUnlessBroken'
      BY <1>7 DEF Enqueue
    <2>6. TurnIsAudited'
      BY <1>7, <2>0, EnqueueTurns DEF Enqueue
    <2>7. OneTurnPerMessage'
      BY <1>7 DEF Enqueue
    <2> QED BY <2>1, <2>2, <2>3, <2>4, <2>5, <2>6, <2>7
  <1>8. ASSUME NEW c \in Conn, EnqueueFails(c) PROVE IInv'
    BY <1>8 DEF EnqueueFails, Leave
  <1>9. ASSUME NEW c \in Conn, Reply(c) PROVE IInv'
    <2>0. [id |-> found[c], key |-> req[c]] \in rows
      BY <1>9 DEF Reply
    <2>a. found[c] \in RowId /\ req[c] \in Inbound
      BY <2>0, RowFields
    <2>1. TypeOK'
      BY <1>9, <2>0, <2>a DEF Reply, Leave, Row, Turn, Answer
    <2>2. FoundIsCommitted' /\ OneRowPerEvent'
      BY <1>9, <2>0, <2>a DEF Reply, Leave
    <2>3. RowsHaveBlobs' /\ IngestProgress'
      BY <1>9, <2>0, <2>a DEF Reply, Leave
    <2>4. RowsPublished' /\ RepliesPublished'
      BY <1>9, <2>0, <2>a DEF Reply, Leave
    <2>5. AcceptedIsDurable' /\ AcceptedHasTurnUnlessBroken'
      BY <1>9, <2>0, <2>a DEF Reply, Leave
    <2>6. TurnIsAudited' /\ OneTurnPerMessage'
      BY <1>9, <2>0, <2>a DEF Reply, Leave
    <2> QED BY <2>1, <2>2, <2>3, <2>4, <2>5, <2>6
  <1>10. CASE Crash
    BY <1>10 DEF Crash
  <1>11. CASE UNCHANGED vars
    BY <1>11 DEF vars, handler
  <1> QED
    BY <1>1, <1>2, <1>3, <1>4, <1>5, <1>6, <1>7, <1>8, <1>9, <1>10, <1>11
    DEF Next, Handle

\* The inductive invariant holds of every behaviour.
THEOREM IngressInvariant == Spec => []IInv
  BY InitIInv, StepIInv, PTL DEF Spec

\* Rows, turns and the locals of the handlers keep their types; in particular
\* every answer names a row.
THEOREM IngressTypes == Spec => []TypeOK
  BY IngressInvariant, PTL DEF IInv

\* What a driver was told is accepted is on disk, attachments included.
THEOREM AcceptedStaysDurable == Spec => []AcceptedIsDurable
  BY IngressInvariant, PTL DEF IInv

\* Redeliveries of a provider event are answered with one and the same row.
THEOREM RedeliveriesAgree == Spec => []SameAnswer
  <1>1. IInv => SameAnswer
    BY DEF IInv, TypeOK, Answer, AcceptedIsDurable, OneRowPerEvent, SameAnswer
  <1> QED BY <1>1, IngressInvariant, PTL

\* A provider message becomes at most one turn of the runtime.
THEOREM AtMostOneTurn == Spec => []OneTurnPerMessage
  BY IngressInvariant, PTL DEF IInv

\* The runtime works on audited messages only.
THEOREM TurnsAreAudited == Spec => []TurnIsAudited
  BY IngressInvariant, PTL DEF IInv

\* The only way to lose an accepted message is a handler that stopped between
\* the two databases.
THEOREM LostOnlyInTheGap == Spec => []AcceptedHasTurnUnlessBroken
  BY IngressInvariant, PTL DEF IInv
-----------------------------------------------------------------------------
(* ChannelIngress implements IntakePromise. *)

Told == {[id |-> a.row, key |-> a.key] : a \in answered}

\* Steps that change nothing the promise speaks of.
LEMMA NothingSaid == UNCHANGED <<durable, broken, answered>> => UNCHANGED Promise!vars
  BY DEF durable, Promise!vars

\* A handler that moves on says nothing: a look-up, an error, a lost answer.
LEMMA HandlerQuiet ==
  ASSUME NEW c \in Conn,
         \/ \E p \in Inbound : Receive(c, p)
         \/ HasCapacity(c) /\ UNCHANGED <<rows, nextRow>>
         \/ CommitConflicts(c) \/ RecordFails(c) \/ ReplyLost(c)
  PROVE  UNCHANGED Promise!vars
  <1>1. UNCHANGED <<rows, spool, turns, nextRow, broken, answered>>
    BY DEF Receive, HasCapacity, CommitConflicts, RecordFails, ReplyLost, durable
  <1> QED BY <1>1, NothingSaid DEF durable

\* The transaction that ends record() records the event of the request.
LEMMA InsertPromised ==
  ASSUME IInv, NEW c \in Conn, Insert(c), BlobsOf[req[c]] \subseteq spool,
         UNCHANGED <<spool, turns, answered, broken>>
  PROVE  Promise!Next
  <1>1. req[c] \in Inbound
    BY DEF IInv, TypeOK
  <1>2. Promise!Record(req[c])
    BY DEF Insert, FindByDedupKey, Promise!Record
  <1> QED BY <1>1, <1>2 DEF Promise!Next

\* onAccepted queues the message of the event, unless another event of it was
\* queued before.
LEMMA EnqueuePromised ==
  ASSUME IInv, NEW c \in Conn, Enqueue(c)
  PROVE  Promise!Next \/ UNCHANGED Promise!vars
  <1> DEFINE r == [id |-> found[c], key |-> req[c]]
  <1>1. r \in rows /\ r.id = found[c] /\ r.key = req[c]
    BY DEF Enqueue, IInv, FoundIsCommitted
  <1>2. UNCHANGED <<rows, spool, nextRow, answered, broken>>
    BY DEF Enqueue
  <1>3. CASE \E t \in turns : t.message = MessageOf[req[c]]
    <2>1. UNCHANGED turns
      BY <1>3 DEF Enqueue
    <2> QED BY <1>2, <2>1, NothingSaid DEF durable
  <1>4. CASE ~ \E t \in turns : t.message = MessageOf[req[c]]
    <2>1. turns' = turns \cup {[message |-> MessageOf[r.key], row |-> r.id]}
      BY <1>1, <1>4 DEF Enqueue
    <2>2. Promise!Queue(r)
      BY <1>1, <1>2, <1>4, <2>1 DEF Promise!Queue, Promise!Queued
    <2> QED BY <1>1, <2>2 DEF Promise!Next
  <1> QED BY <1>3, <1>4

\* The driver is told of the row of its event.
LEMMA ReplyPromised ==
  ASSUME IInv, NEW c \in Conn, Reply(c)
  PROVE  Promise!Next
  <1>1. PICK r \in rows : r = [id |-> found[c], key |-> req[c]]
    BY DEF Reply, IInv, FoundIsCommitted
  <1>2. Promise!Queued(r.key) \/ r.key \in broken
    BY <1>1 DEF Reply, IInv, RepliesPublished, Published, HasTurn, Promise!Queued
  <1>3. Told' = Told \cup {r}
    <2> DEFINE a == [key |-> req[c], row |-> found[c], duplicate |-> dup[c]]
    <2>1. answered' = answered \cup {a} /\ [id |-> a.row, key |-> a.key] = r
      BY <1>1 DEF Reply
    <2> HIDE DEF a
    <2>2. \A x : x \in Told' <=> \E b \in answered \cup {a} : x = [id |-> b.row, key |-> b.key]
      BY <2>1 DEF Told
    <2>3. \A x : x \in Told <=> \E b \in answered : x = [id |-> b.row, key |-> b.key]
      BY DEF Told
    <2> QED BY <2>1, <2>2, <2>3
  <1>4. UNCHANGED <<spool, rows, nextRow, turns, broken>>
    BY DEF Reply, durable
  <1>5. Promise!Accept(r)
    BY <1>1, <1>2, <1>3, <1>4 DEF Promise!Accept, Told
  <1> QED BY <1>5 DEF Promise!Next

\* A crash, or an inbox that cannot be written, stops the handlers that were
\* between the two databases.
LEMMA StopPromised ==
  ASSUME IInv, NEW C \in SUBSET Conn, \A c \in C : pc[c] = "committed",
         broken' = broken \cup {req[c] : c \in C},
         UNCHANGED <<spool, rows, nextRow, turns, answered>>
  PROVE  Promise!Next
  <1> DEFINE R == {[id |-> found[c], key |-> req[c]] : c \in C}
  <1>1. R \in SUBSET rows
    BY DEF IInv, FoundIsCommitted
  <1>2. {r.key : r \in R} = {req[c] : c \in C}
    <2>1. ASSUME NEW r \in R PROVE r.key \in {req[c] : c \in C}
      BY <2>1
    <2>2. ASSUME NEW c \in C PROVE req[c] \in {r.key : r \in R}
      <3>1. [id |-> found[c], key |-> req[c]] \in R /\ [id |-> found[c], key |-> req[c]].key = req[c]
        BY <2>2
      <3> HIDE DEF R
      <3> QED BY <3>1
    <2> QED BY <2>1, <2>2
  <1>3. Promise!Stop(R)
    BY <1>2 DEF Promise!Stop
  <1> QED BY <1>1, <1>3 DEF Promise!Next

\* Every step of a handler, and a crash, is one of the promise or changes
\* nothing it speaks of.
LEMMA StepPromised == IInv /\ [Next]_vars => [Promise!Next]_(Promise!vars)
  <1> SUFFICES ASSUME IInv, [Next]_vars PROVE Promise!Next \/ UNCHANGED Promise!vars
    OBVIOUS
  <1>1. ASSUME NEW c \in Conn, HasCapacity(c) PROVE Promise!Next \/ UNCHANGED Promise!vars
    <2>1. CASE UNCHANGED <<rows, nextRow>>
      BY <1>1, <2>1, HandlerQuiet
    <2>2. CASE BlobsOf[req[c]] = {} /\ Insert(c)
      BY <1>1, <2>2, InsertPromised DEF HasCapacity
    <2> QED BY <1>1, <2>1, <2>2 DEF HasCapacity
  <1>2. ASSUME NEW c \in Conn, Commit(c) PROVE Promise!Next
    <2>1. BlobsOf[req[c]] \subseteq spool
      BY <1>2 DEF Commit, IInv, IngestProgress
    <2> QED BY <1>2, <2>1, InsertPromised DEF Commit
  <1>3. ASSUME NEW c \in Conn, NEW b \in Blob, Ingest(c, b) PROVE Promise!Next
    <2>1. Promise!Store(b)
      BY <1>3 DEF Ingest, Promise!Store
    <2> QED BY <2>1 DEF Promise!Next
  <1>4. ASSUME NEW c \in Conn, EnqueueFails(c) PROVE Promise!Next
    <2>1. /\ {c} \in SUBSET Conn /\ \A d \in {c} : pc[d] = "committed"
          /\ broken' = broken \cup {req[d] : d \in {c}}
          /\ UNCHANGED <<spool, rows, nextRow, turns, answered>>
      BY <1>4 DEF EnqueueFails, durable
    <2> QED BY <2>1, StopPromised
  <1>5. CASE Crash
    <2> DEFINE C == {d \in Conn : pc[d] = "committed"}
    <2>1. /\ C \in SUBSET Conn /\ \A d \in C : pc[d] = "committed"
          /\ broken' = broken \cup {req[d] : d \in C}
          /\ UNCHANGED <<spool, rows, nextRow, turns, answered>>
      BY <1>5 DEF Crash, durable
    <2> QED BY <2>1, StopPromised
  <1>6. CASE UNCHANGED vars
    BY <1>6, NothingSaid DEF vars
  <1>7. ASSUME NEW c \in Conn, \/ \E p \in Inbound : Receive(c, p)
                               \/ CommitConflicts(c) \/ RecordFails(c) \/ ReplyLost(c)
        PROVE  UNCHANGED Promise!vars
    BY <1>7, HandlerQuiet
  <1> QED BY <1>1, <1>2, <1>3, <1>4, <1>5, <1>6, <1>7, EnqueuePromised, ReplyPromised DEF Next, Handle

\* A lane keeps the promise of IntakePromise, for any number of connections,
\* events, messages and attachments (channel-handler.ts, lane-outbox.ts, inbox.ts).
THEOREM IngressKeepsPromise == Spec => IntakeSpec
  <1>1. Init => Promise!Init
    BY DEF Init, Promise!Init
  <1> QED BY <1>1, StepPromised, IngressInvariant, PTL DEF Spec, IntakeSpec, Promise!Spec
=============================================================================
