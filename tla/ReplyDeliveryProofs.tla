------------------------- MODULE ReplyDeliveryProofs -------------------------
(***************************************************************************)
(* Theorems about ReplyDelivery, for any number of turns, answers, slots,  *)
(* losses and restarts.                                                    *)
(***************************************************************************)
EXTENDS ReplyDelivery, TLAPS

\* The two databases, the driver's table and what the provider took.
TableTypes ==
  /\ requested \in [Turn -> Text \cup {NoText}]
  /\ outcome \in [Turn -> Text \cup {NoText}]
  /\ action \in [Turn -> {"NONE", "PENDING", "SUCCEEDED"}]
  /\ stored \in [Turn -> Text \cup {NoText}]
  /\ aged \in [Turn -> BOOLEAN]
  /\ driver \in [Turn -> {"NONE", "PENDING", "SUCCEEDED"}]
  /\ posts \in [Turn -> SUBSET Text] /\ twice \subseteq Turn

\* The driver records a success after the post; a reservation follows its intent.
RowsAgree ==
  \A t \in Turn :
    /\ driver[t] = "SUCCEEDED" => posts[t] # {}
    /\ action[t] # "NONE" => requested[t] # NoText /\ stored[t] \in Text

TableInv == TableTypes /\ AuditedAround /\ RowsAgree

WorkerTypes ==
  /\ turn \in [Turn -> {"PENDING", "RUNNING", "COMPLETED", "FAILED"}]
  /\ response \in [Turn -> Text \cup {NoText}]
  /\ wpc \in {"idle", "run", "record", "reserve", "wait", "confirm"}
  /\ item \in 0..NTurns /\ text \in Text \cup {NoText}

\* How far the worker's reply is, by the await it is at.
WorkerAt ==
  /\ wpc # "idle" => item \in Turn /\ turn[item] # "PENDING"
  /\ wpc = "idle" => ~apology
  /\ apology => turn[item] # "RUNNING"
  /\ wpc \in {"record", "reserve", "wait", "confirm"} => text \in Text
  /\ wpc \in {"reserve", "wait", "confirm"} => requested[item] # NoText
  /\ wpc = "wait" => action[item] # "NONE"
  /\ wpc = "confirm" => action[item] = "SUCCEEDED"

WorkerInv == WorkerTypes /\ WorkerAt /\ RunningIsWorked /\ CompletedWasPosted

\* What the drain has listed was reserved; what it confirms has succeeded.
DrainInv ==
  /\ dpc \in {"idle", "wait", "confirm"} /\ list \subseteq Turn
  /\ \A t \in list : action[t] # "NONE"
  /\ dpc = "confirm" => \A t \in list : IsFirst(t, list) => action[t] = "SUCCEEDED"

\* A request is of a reserved action, and tells the truth of it; each sender
\* waits for one at most, which is for the turn it is at.
CallInv ==
  /\ calls \in [Slot -> Call]
  /\ \A k \in Slot : calls[k].at # "free" =>
       /\ action[calls[k].turn] # "NONE"
       /\ calls[k].at = "posted" => posts[calls[k].turn] # {}
       /\ calls[k].at = "ok" => driver[calls[k].turn] = "SUCCEEDED"
       /\ calls[k].for = "worker" => wpc = "wait" /\ calls[k].turn = item
       /\ calls[k].for = "drain" => dpc = "wait" /\ IsFirst(calls[k].turn, list)
  /\ \A j, k \in Slot : calls[j].for = calls[k].for /\ calls[k].for # "nobody" => j = k

BoundTypes == losses \in 0..MaxLosses /\ restarts \in 0..MaxRestarts

FlagTypes == apology \in BOOLEAN /\ stopping \in BOOLEAN /\ connected \in BOOLEAN

ReplyInv == TableInv /\ WorkerInv /\ DrainInv /\ CallInv /\ BoundTypes /\ FlagTypes

-----------------------------------------------------------------------------
\* What a slot holds: nothing, or a request of a turn of the lane.
LEMMA CallFields ==
  ASSUME NEW c \in Call
  PROVE  /\ c.at \in {"free", "sent", "post", "posted", "ok", "error"}
         /\ c.for \in {"worker", "drain", "nobody"}
         /\ c.at = "free" <=> c = Free
         /\ c.at = "free" => c.for = "nobody"
         /\ c.at # "free" => c.turn \in Turn /\ c.text \in Text
         /\ c.at \in {"ok", "error"} => c.for # "nobody"
BY DEF Call, Free

\* A request goes on, or loses its sender.
LEMMA CallGoesOn ==
  ASSUME NEW c \in Call, c.at # "free"
  PROVE  /\ \A x \in {"sent", "post", "posted"} : [c EXCEPT !.at = x] \in Call
         /\ c.for # "nobody" => \A x \in {"ok", "error"} : [c EXCEPT !.at = x] \in Call
         /\ c.at \notin {"ok", "error"} => [c EXCEPT !.for = "nobody"] \in Call
BY DEF Call, Free

\* The empty outbox, the first turns and a driver that was asked nothing satisfy
\* the invariant.
LEMMA ReplyInitInv == Init => ReplyInv
<1> SUFFICES ASSUME Init PROVE ReplyInv
  OBVIOUS
<1>1. TableInv
  BY ReplyAssumption DEF Init, TableInv, TableTypes, AuditedAround, RowsAgree
<1>2. WorkerInv
  <2>1. WorkerTypes
    BY ReplyAssumption DEF Init, WorkerTypes
  <2>2. WorkerAt
    BY DEF Init, WorkerAt
  <2>3. RunningIsWorked /\ CompletedWasPosted
    BY DEF Init, RunningIsWorked, CompletedWasPosted
  <2> QED BY <2>1, <2>2, <2>3 DEF WorkerInv
<1>3. DrainInv /\ BoundTypes /\ FlagTypes
  <2>1. DrainInv
    BY DEF Init, DrainInv
  <2>2. BoundTypes
    BY ReplyAssumption DEF Init, BoundTypes
  <2>3. FlagTypes
    BY DEF Init, FlagTypes
  <2> QED BY <2>1, <2>2, <2>3
<1>4. CallInv
  BY ReplyAssumption DEF Init, CallInv, Free, Call
<1> QED BY <1>1, <1>2, <1>3, <1>4 DEF ReplyInv

\* The catch block of a turn leaves a worker at rest or at the record of the
\* error reply.
LEMMA GiveUpKeeps ==
  ASSUME WorkerInv, wpc # "idle", GiveUp, UNCHANGED posts
  PROVE  WorkerInv' /\ wpc' \in {"idle", "record"}
<1> USE ReplyAssumption DEF WorkerInv, WorkerTypes, WorkerAt, RunningIsWorked, CompletedWasPosted,
        GiveUp, Rest, SetTurn, Text
<1>1. CASE apology
  BY <1>1
<1>2. CASE ~apology /\ stopping
  BY <1>2
<1>3. CASE ~apology /\ ~stopping
  BY <1>3
<1> QED BY <1>1, <1>2, <1>3

\* A sender that leaves nobody waiting for it may go anywhere.
LEMMA SkipKeeps ==
  ASSUME DrainInv, Skip, UNCHANGED action
  PROVE  DrainInv'
BY DEF DrainInv, Skip

\* What the tables say once is said for good.
TablesGrow ==
  \A t \in Turn : /\ action[t] # "NONE" => action'[t] # "NONE"
                  /\ posts[t] # {} => posts'[t] # {}
                  /\ driver[t] = "SUCCEEDED" => driver'[t] = "SUCCEEDED"

\* Requests that go on, lose their sender or end keep the invariant, when those
\* that have a sender leave it where it is.
LEMMA CallsFollow ==
  ASSUME CallInv, TablesGrow, calls' \in [Slot -> Call],
         \A k \in Slot : calls'[k].at # "free" =>
           /\ calls[k].at # "free" /\ calls'[k].turn = calls[k].turn
           /\ calls'[k].for \in {calls[k].for, "nobody"}
           /\ calls'[k].at = "posted" => calls[k].at = "posted" \/ posts'[calls[k].turn] # {}
           /\ calls'[k].at = "ok" => calls[k].at = "ok" \/ driver'[calls[k].turn] = "SUCCEEDED"
           /\ calls'[k].for = "worker" => wpc' = wpc /\ item' = item
           /\ calls'[k].for = "drain" => dpc' = dpc /\ list' = list
  PROVE  CallInv'
<1>1. \A k \in Slot : calls[k] \in Call /\ calls'[k] \in Call
  BY DEF CallInv
<1>2. \A k \in Slot : calls[k].at # "free" => calls[k].turn \in Turn
  BY <1>1, CallFields
<1>3. \A k \in Slot : calls'[k].at = "free" => calls'[k].for = "nobody"
  BY <1>1, CallFields
<1>4. ASSUME NEW k \in Slot, calls'[k].at # "free"
      PROVE  /\ action'[calls'[k].turn] # "NONE"
             /\ calls'[k].at = "posted" => posts'[calls'[k].turn] # {}
             /\ calls'[k].at = "ok" => driver'[calls'[k].turn] = "SUCCEEDED"
             /\ calls'[k].for = "worker" => wpc' = "wait" /\ calls'[k].turn = item'
             /\ calls'[k].for = "drain" => dpc' = "wait" /\ IsFirst(calls'[k].turn, list')
  BY <1>2, <1>4 DEF CallInv, TablesGrow
<1>5. \A j, k \in Slot : calls'[j].for = calls'[k].for /\ calls'[k].for # "nobody" => j = k
  BY <1>3 DEF CallInv
<1> QED BY <1>4, <1>5 DEF CallInv, IsFirst

\* The same when no request changes: a sender that waits stays.
LEMMA CallsRest ==
  ASSUME CallInv, TablesGrow, UNCHANGED calls,
         wpc = "wait" => wpc' = wpc /\ item' = item,
         dpc = "wait" => dpc' = dpc /\ list' = list
  PROVE  CallInv'
BY CallsFollow DEF CallInv

\* A new request of the worker or of the drain, which had none.
LEMMA IssueKeeps ==
  ASSUME CallInv, TablesGrow, NEW who \in {"worker", "drain"}, NEW t \in Turn, NEW x \in Text,
         Issue(who, t, x), \A k \in Slot : calls[k].for # who, action'[t] # "NONE",
         who = "worker" => wpc' = "wait" /\ item' = t /\ UNCHANGED drain,
         who = "drain" => dpc' = "wait" /\ IsFirst(t, list') /\ UNCHANGED <<wpc, item>>
  PROVE  CallInv'
<1> DEFINE new == [at |-> "sent", turn |-> t, text |-> x, for |-> who]
<1>1. PICK k \in Slot : calls[k] = Free /\ calls' = [calls EXCEPT ![k] = new]
  BY DEF Issue
<1>2. new \in Call
  BY DEF Call
<1>3. calls' \in [Slot -> Call] /\ calls'[k] = new /\ \A j \in Slot \ {k} : calls'[j] = calls[j]
  BY <1>1, <1>2 DEF CallInv
<1>4. \A j \in Slot : calls[j].at # "free" => calls[j].turn \in Turn
  BY CallFields DEF CallInv
<1>5. ASSUME NEW j \in Slot, calls'[j].at # "free"
      PROVE  /\ action'[calls'[j].turn] # "NONE"
             /\ calls'[j].at = "posted" => posts'[calls'[j].turn] # {}
             /\ calls'[j].at = "ok" => driver'[calls'[j].turn] = "SUCCEEDED"
             /\ calls'[j].for = "worker" => wpc' = "wait" /\ calls'[j].turn = item'
             /\ calls'[j].for = "drain" => dpc' = "wait" /\ IsFirst(calls'[j].turn, list')
  <2>1. CASE j = k
    BY <2>1, <1>3
  <2>2. CASE j # k
    BY <2>2, <1>3, <1>4, <1>5 DEF CallInv, TablesGrow, drain
  <2> QED BY <2>1, <2>2
<1>6. ASSUME NEW i \in Slot, NEW j \in Slot, calls'[i].for = calls'[j].for,
             calls'[j].for # "nobody"
      PROVE  i = j
  BY <1>3, <1>6 DEF CallInv
<1> QED BY <1>3, <1>5, <1>6 DEF CallInv, IsFirst

\* Only a sender that waits has a request.
LEMMA NoRequest ==
  ASSUME CallInv
  PROVE  /\ wpc # "wait" => \A k \in Slot : calls[k].for # "worker"
         /\ dpc # "wait" => \A k \in Slot : calls[k].for # "drain"
BY CallFields DEF CallInv

\* Parts of the invariant that a step leaves alone.
LEMMA TableRests == ASSUME TableInv, UNCHANGED <<Outbox, outside>> PROVE TableInv'
BY DEF TableInv, TableTypes, AuditedAround, RowsAgree, Outbox, outside

LEMMA WorkerRests ==
  ASSUME WorkerInv, UNCHANGED <<turn, response, worker>>, TablesGrow,
         \A t \in Turn : /\ requested[t] # NoText => requested'[t] # NoText
                         /\ action[t] = "SUCCEEDED" => action'[t] = "SUCCEEDED"
  PROVE  WorkerInv'
BY DEF WorkerInv, WorkerTypes, WorkerAt, RunningIsWorked, CompletedWasPosted, worker, TablesGrow

LEMMA DrainRests ==
  ASSUME DrainInv, UNCHANGED drain, TablesGrow,
         \A t \in Turn : action[t] = "SUCCEEDED" => action'[t] = "SUCCEEDED"
  PROVE  DrainInv'
BY DEF DrainInv, TablesGrow, IsFirst, drain

\* Tables that a step leaves alone do not shrink.
LEMMA TablesStay == ASSUME UNCHANGED <<action, posts, driver>> PROVE TablesGrow
BY DEF TablesGrow

Core == TableInv /\ WorkerInv /\ DrainInv /\ CallInv

\* A worker that gives up with no request under way.
LEMMA GiveUpRests ==
  ASSUME Core, wpc \notin {"idle", "wait"}, GiveUp, UNCHANGED <<Outbox, calls, drain, outside>>
  PROVE  Core'
<1>1. TableInv' /\ DrainInv'
  BY TableRests, DrainRests, TablesStay DEF Core, Outbox, outside
<1>2. WorkerInv'
  BY GiveUpKeeps DEF Core, outside
<1>3. CallInv'
  <2>1. \A k \in Slot : calls[k].for # "worker"
    BY NoRequest DEF Core
  <2>2. TablesGrow /\ calls \in [Slot -> Call]
    BY TablesStay DEF Outbox, outside, Core, CallInv
  <2> QED BY <2>1, <2>2, CallsFollow DEF Core, drain
<1> QED BY <1>1, <1>2, <1>3 DEF Core

\* The worker up to the reservation.
LEMMA StartKeeps == ASSUME Core, Start \/ (\E a \in Answer : Runs(a)) PROVE Core'
<1>1. UNCHANGED <<Outbox, calls, drain, outside>> /\ wpc # "wait"
  BY DEF Start, Runs, Others
<1>2. TableInv' /\ DrainInv' /\ CallInv'
  BY <1>1, TableRests, DrainRests, TablesStay, CallsRest DEF Core, Outbox, outside, drain
<1>3. WorkerInv'
  <2> USE ReplyAssumption DEF Core, WorkerInv, WorkerTypes, WorkerAt, RunningIsWorked,
          CompletedWasPosted, Outbox, Others, outside
  <2>1. CASE Start
    BY <2>1 DEF Start, SetTurn, IsFirst, Turn
  <2>2. CASE \E a \in Answer : Runs(a)
    BY <2>2 DEF Runs, Text
  <2> QED BY <2>1, <2>2
<1> QED BY <1>2, <1>3 DEF Core

LEMMA RecordKeeps == ASSUME Core, RecordRequest PROVE Core'
<1>1. UNCHANGED <<outcome, action, stored, aged, calls, drain, outside, turn, response, item, text, apology>>
  BY DEF RecordRequest, Others
<1>2. wpc = "record" /\ wpc' = "reserve" /\ item \in Turn /\ text \in Text /\ text # NoText
  BY ReplyAssumption DEF RecordRequest, Core, WorkerInv, WorkerAt
<1>3. requested' = [requested EXCEPT ![item] = IF @ = NoText THEN text ELSE @]
  BY DEF RecordRequest
<1>4. TableInv'
  BY <1>1, <1>2, <1>3 DEF Core, TableInv, TableTypes, AuditedAround, RowsAgree, outside
<1>5. WorkerInv'
  BY <1>1, <1>2, <1>3 DEF Core, WorkerInv, WorkerTypes, WorkerAt, RunningIsWorked, CompletedWasPosted,
     TableInv, TableTypes, outside
<1>6. DrainInv' /\ CallInv'
  BY <1>1, <1>2, DrainRests, TablesStay, CallsRest DEF Core, outside, drain
<1> QED BY <1>4, <1>5, <1>6 DEF Core

\* The reservation, and the request that follows unless there is a result.
LEMMA ReserveKeeps == ASSUME Core, Reserve PROVE Core'
<1>1. wpc = "reserve" /\ item \in Turn /\ text \in Text /\ requested[item] # NoText
  BY DEF Reserve, Core, WorkerInv, WorkerAt
<1>2. UNCHANGED <<requested, outcome, aged, drain, outside>>
  BY DEF Reserve, Others
<1>3. /\ action' \in [Turn -> {"NONE", "PENDING", "SUCCEEDED"}]
      /\ stored' \in [Turn -> Text \cup {NoText}]
      /\ action'[item] # "NONE" /\ stored'[item] \in Text
      /\ \A t \in Turn \ {item} : action'[t] = action[t] /\ stored'[t] = stored[t]
      /\ \A t \in Turn : action[t] # "NONE" => action'[t] = action[t]
      /\ action'[item] = "SUCCEEDED" => action[item] = "SUCCEEDED"
  BY <1>1 DEF Reserve, Core, TableInv, TableTypes, RowsAgree, AuditedAround
<1>4. TablesGrow
  BY <1>2, <1>3 DEF TablesGrow, outside
<1>5. TableInv'
  BY <1>1, <1>2, <1>3 DEF Core, TableInv, TableTypes, AuditedAround, RowsAgree, outside
<1>6. DrainInv'
  BY <1>2, <1>3, <1>4, DrainRests DEF Core
<1>7. \A k \in Slot : calls[k].for # "worker"
  BY <1>1, NoRequest DEF Core
<1>8. CASE Request /\ Reachable(item)
  <2>1. /\ Issue("worker", item, text) /\ wpc' = "wait"
        /\ UNCHANGED <<turn, response, item, text, apology>>
    BY <1>8 DEF Request
  <2>2. WorkerInv'
    BY <1>1, <1>2, <1>3, <2>1 DEF Core, WorkerInv, WorkerTypes, WorkerAt, RunningIsWorked,
       CompletedWasPosted, outside
  <2>3. CallInv'
    BY <1>1, <1>2, <1>3, <1>4, <1>7, <2>1, IssueKeeps DEF Core, drain
  <2> QED BY <1>5, <1>6, <2>2, <2>3 DEF Core
<1>9. CASE Request /\ ~Reachable(item)
  <2>1. GiveUp /\ UNCHANGED calls
    BY <1>9 DEF Request
  <2>2. WorkerInv'
    BY <1>1, <1>2, <2>1, GiveUpKeeps DEF Core, outside
  <2>3. CallInv'
    BY <1>2, <1>4, <1>7, <2>1, CallsFollow DEF Core, CallInv, drain
  <2> QED BY <1>5, <1>6, <2>2, <2>3 DEF Core
<1>10. CASE /\ action[item] = "SUCCEEDED" /\ wpc' = "confirm"
            /\ UNCHANGED <<turn, response, item, text, apology, calls, action, stored>>
  <2>1. WorkerInv'
    BY <1>1, <1>2, <1>10 DEF Core, WorkerInv, WorkerTypes, WorkerAt, RunningIsWorked,
       CompletedWasPosted, outside
  <2>2. CallInv'
    BY <1>1, <1>2, <1>4, <1>10, CallsRest DEF Core, drain
  <2> QED BY <1>5, <1>6, <2>1, <2>2 DEF Core
<1> QED BY <1>8, <1>9, <1>10 DEF Reserve

\* An answered request of the worker or the drain makes room; it was the only one
\* of its sender.
LEMMA SlotFreed ==
  ASSUME CallInv, TablesGrow, NEW who \in {"worker", "drain"}, NEW k \in Slot,
         calls[k].for = who, calls' = [calls EXCEPT ![k] = Free],
         who = "worker" => UNCHANGED drain,
         who = "drain" => UNCHANGED <<wpc, item>>
  PROVE  CallInv'
<1>1. Free \in Call /\ Free.at = "free"
  BY DEF Call, Free
<1>2. calls' \in [Slot -> Call]
  BY <1>1 DEF CallInv
<1>3. \A j \in Slot : calls'[j].at # "free" => j # k /\ calls'[j] = calls[j] /\ calls[j].for # who
  BY <1>1 DEF CallInv
<1> QED BY <1>2, <1>3, CallsFollow, CallFields DEF CallInv, drain

LEMMA WorkerAnsweredKeeps == ASSUME Core, WorkerAnswered PROVE Core'
<1>1. PICK k \in Slot : /\ calls[k].for = "worker" /\ calls[k].at = "ok"
                       /\ calls' = [calls EXCEPT ![k] = Free]
  BY DEF WorkerAnswered, Awaited
<1>2. /\ wpc = "wait" /\ wpc' = "confirm" /\ action' = [action EXCEPT ![item] = "SUCCEEDED"]
      /\ UNCHANGED <<turn, response, requested, outcome, stored, aged, item, text, apology,
                     drain, outside>>
  BY DEF WorkerAnswered, Others
<1>3. item \in Turn /\ driver[item] = "SUCCEEDED" /\ requested[item] # NoText /\ action[item] # "NONE"
  BY <1>1, <1>2 DEF Core, CallInv, WorkerInv, WorkerAt
<1>4. TablesGrow
  BY <1>2, <1>3 DEF TablesGrow, outside, Core, TableInv, TableTypes
<1>5. TableInv'
  BY <1>2, <1>3 DEF Core, TableInv, TableTypes, AuditedAround, RowsAgree, outside
<1>6. WorkerInv'
  BY <1>2, <1>3 DEF Core, WorkerInv, WorkerTypes, WorkerAt, RunningIsWorked, CompletedWasPosted,
     TableInv, TableTypes, outside
<1>7. DrainInv'
  BY <1>2, <1>4, DrainRests DEF Core, TableInv, TableTypes
<1>8. CallInv'
  BY <1>1, <1>2, <1>4, SlotFreed DEF Core
<1> QED BY <1>5, <1>6, <1>7, <1>8 DEF Core

\* The worker is refused, or waits no longer.
LEMMA WorkerRefusedKeeps == ASSUME Core, WorkerRefused PROVE Core'
<1>1. PICK k \in Slot : calls[k].for = "worker" /\ calls' = [calls EXCEPT ![k] = Free]
  BY DEF WorkerRefused, Awaited
<1>2. wpc = "wait" /\ GiveUp /\ UNCHANGED <<Outbox, drain, outside>>
  BY DEF WorkerRefused, Others
<1>3. TablesGrow
  BY <1>2, TablesStay DEF Outbox, outside
<1>4. TableInv' /\ DrainInv'
  BY <1>2, <1>3, TableRests, DrainRests DEF Core, Outbox
<1>5. WorkerInv'
  BY <1>2, GiveUpKeeps DEF Core, outside
<1>6. CallInv'
  BY <1>1, <1>2, <1>3, SlotFreed DEF Core
<1> QED BY <1>4, <1>5, <1>6 DEF Core

\* A sender that forgets its request leaves nobody waiting for it.
LEMMA ForgetKeeps ==
  ASSUME CallInv, TablesGrow, NEW who \in {"worker", "drain"}, calls' = Forget(who),
         who = "worker" => UNCHANGED drain,
         who = "drain" => UNCHANGED <<wpc, item>>
  PROVE  CallInv'
<1>1. Free \in Call /\ Free.at = "free"
  BY DEF Call, Free
<1>2. ASSUME NEW k \in Slot
      PROVE  /\ calls'[k] \in Call
             /\ calls'[k].at # "free" =>
                  /\ calls[k].at # "free" /\ calls'[k].turn = calls[k].turn
                  /\ calls'[k].at = calls[k].at
                  /\ calls'[k].for \in {calls[k].for, "nobody"} /\ calls'[k].for # who
  <2> DEFINE c == calls[k]
  <2>1. c \in Call
    BY DEF CallInv
  <2>2. CASE c.for # who
    BY <2>1, <2>2 DEF Forget
  <2>3. CASE c.for = who /\ c.at \in {"ok", "error"}
    BY <1>1, <2>3 DEF Forget
  <2>4. CASE c.for = who /\ c.at \notin {"ok", "error"}
    <3>1. calls'[k] = [c EXCEPT !.for = "nobody"] /\ c.at # "free"
      BY <2>1, <2>4, CallFields DEF Forget
    <3>2. calls'[k] \in Call
      BY <2>1, <2>4, <3>1, CallGoesOn
    <3> QED BY <2>1, <3>1, <3>2 DEF Call, Free
  <2> QED BY <2>2, <2>3, <2>4
<1>3. calls' \in [Slot -> Call]
  BY <1>2 DEF Forget
<1> QED BY <1>2, <1>3, CallsFollow DEF drain

LEMMA WorkerTimesOutKeeps == ASSUME Core, WorkerTimesOut PROVE Core'
<1>1. /\ wpc = "wait" /\ GiveUp /\ calls' = Forget("worker")
      /\ UNCHANGED <<Outbox, drain, outside>>
  BY DEF WorkerTimesOut
<1>2. TablesGrow
  BY <1>1, TablesStay DEF Outbox, outside
<1>3. TableInv' /\ DrainInv'
  BY <1>1, <1>2, TableRests, DrainRests DEF Core, Outbox
<1>4. WorkerInv'
  BY <1>1, GiveUpKeeps DEF Core, outside
<1>5. CallInv'
  BY <1>1, <1>2, ForgetKeeps DEF Core
<1> QED BY <1>3, <1>4, <1>5 DEF Core

\* The outcome is audited and the turn completed.
LEMMA WorkerConfirmsKeeps == ASSUME Core, WorkerConfirms PROVE Core'
<1>1. /\ wpc = "confirm" /\ wpc' = "idle" /\ item' = 0 /\ text' = NoText /\ apology' = FALSE
      /\ outcome' = [outcome EXCEPT ![item] = IF @ = NoText THEN text ELSE @]
      /\ UNCHANGED <<requested, action, stored, aged, calls, drain, outside>>
  BY DEF WorkerConfirms, Rest, AuditOutcome, Others
<1>2. /\ item \in Turn /\ text \in Text /\ text # NoText
      /\ action[item] = "SUCCEEDED" /\ posts[item] # {}
  BY <1>1, ReplyAssumption DEF Core, WorkerInv, WorkerAt, TableInv, AuditedAround, RowsAgree
<1>3. TableInv'
  BY <1>1, <1>2 DEF Core, TableInv, TableTypes, AuditedAround, RowsAgree, outside
<1>4. \/ turn' = turn /\ response' = response /\ turn[item] # "RUNNING"
      \/ SetTurn(item, "COMPLETED", text)
  BY DEF WorkerConfirms
<1>5. WorkerInv'
  BY <1>1, <1>2, <1>4, ReplyAssumption DEF Core, WorkerInv, WorkerTypes, WorkerAt, RunningIsWorked,
     CompletedWasPosted, SetTurn, outside
<1>6. DrainInv' /\ CallInv'
  BY <1>1, DrainRests, TablesStay, CallsRest DEF Core, outside, drain
<1> QED BY <1>3, <1>5, <1>6 DEF Core

-----------------------------------------------------------------------------
\* The drain: what it lists is pending, what it leaves is of no matter.
LEMMA DrainQuiet ==
  ASSUME Core, DrainLists \/ DrainConfirmFails PROVE Core'
<1>1. UNCHANGED <<Outbox, calls, outside, turn, response, worker>> /\ dpc # "wait"
  BY DEF DrainLists, DrainConfirmFails, Rest2, durable, Outbox
<1>2. TableInv' /\ WorkerInv' /\ CallInv'
  BY <1>1, TableRests, WorkerRests, TablesStay, CallsRest DEF Core, Outbox, outside, worker
<1>3. DrainInv'
  <2>1. CASE DrainLists
    BY <1>1, <2>1 DEF DrainLists, Core, DrainInv, Oldest, Overdue, Outbox
  <2>2. CASE DrainConfirmFails
    BY <1>1, <2>2, SkipKeeps DEF DrainConfirmFails, Core, Outbox
  <2> QED BY <2>1, <2>2
<1> QED BY <1>2, <1>3 DEF Core

LEMMA DrainSendsKeeps == ASSUME Core, DrainSends PROVE Core'
<1>1. UNCHANGED <<Outbox, outside, turn, response, worker>> /\ dpc = "idle"
  BY DEF DrainSends, Rest2, durable, Outbox
<1>2. TablesGrow
  BY <1>1, TablesStay DEF Outbox, outside
<1>3. TableInv' /\ WorkerInv'
  BY <1>1, <1>2, TableRests, WorkerRests DEF Core, Outbox
<1>4. PICK t \in list :
        /\ IsFirst(t, list)
        /\ \/ Issue("drain", t, stored[t]) /\ dpc' = "wait" /\ UNCHANGED list
           \/ list' = list \ {t} /\ UNCHANGED <<dpc, calls>>
  BY DEF DrainSends
<1>5. t \in Turn /\ action[t] # "NONE" /\ stored[t] \in Text
  BY DEF Core, DrainInv, TableInv, RowsAgree
<1>6. DrainInv'
  BY <1>1, <1>4 DEF Core, DrainInv, Outbox
<1>7. CASE Issue("drain", t, stored[t]) /\ dpc' = "wait" /\ UNCHANGED list
  <2>1. \A k \in Slot : calls[k].for # "drain"
    BY <1>1, NoRequest DEF Core
  <2>2. action'[t] # "NONE" /\ IsFirst(t, list') /\ UNCHANGED <<wpc, item>>
    BY <1>1, <1>4, <1>5, <1>7 DEF Outbox, worker
  <2>3. CallInv'
    BY <1>2, <1>5, <1>7, <2>1, <2>2, IssueKeeps DEF Core
  <2> QED BY <1>3, <1>6, <2>3 DEF Core
<1>8. CASE list' = list \ {t} /\ UNCHANGED <<dpc, calls>>
  <2>1. CallInv'
    BY <1>1, <1>2, <1>8, CallsRest DEF Core, worker
  <2> QED BY <1>3, <1>6, <2>1 DEF Core
<1> QED BY <1>4, <1>7, <1>8

LEMMA DrainAnsweredKeeps == ASSUME Core, DrainAnswered PROVE Core'
<1>1. PICK k \in Slot : /\ calls[k].for = "drain" /\ calls[k].at = "ok"
                       /\ calls' = [calls EXCEPT ![k] = Free]
  BY DEF DrainAnswered, Awaited
<1>2. PICK t \in list : IsFirst(t, list) /\ action' = [action EXCEPT ![t] = "SUCCEEDED"]
  BY DEF DrainAnswered
<1>3. /\ dpc = "wait" /\ dpc' = "confirm"
      /\ UNCHANGED <<turn, response, requested, outcome, stored, aged, list, worker, outside>>
  BY DEF DrainAnswered, Rest2
<1>4. IsFirst(calls[k].turn, list) /\ driver[calls[k].turn] = "SUCCEEDED"
  BY <1>1, CallFields DEF Core, CallInv
<1>5. t \in Turn /\ calls[k].turn = t /\ driver[t] = "SUCCEEDED" /\ action[t] # "NONE"
  <2>1. t \in Turn /\ action[t] # "NONE" /\ calls[k].turn \in Turn
    BY <1>4 DEF Core, DrainInv, IsFirst
  <2>2. t <= calls[k].turn /\ calls[k].turn <= t
    BY <1>2, <1>4 DEF IsFirst
  <2>3. \A u, v \in Turn : u <= v /\ v <= u => u = v
    BY ReplyAssumption DEF Turn
  <2> QED BY <1>4, <2>1, <2>2, <2>3
<1>6. TablesGrow
  BY <1>2, <1>3, <1>5 DEF TablesGrow, outside, Core, TableInv, TableTypes
<1>7. TableInv'
  BY <1>2, <1>3, <1>5 DEF Core, TableInv, TableTypes, AuditedAround, RowsAgree, outside
<1>8. WorkerInv'
  BY <1>2, <1>3, <1>6, WorkerRests DEF Core, TableInv, TableTypes
<1>9. DrainInv'
  <2>1. list' = list /\ action'[t] = "SUCCEEDED" /\ \A u \in Turn : u # t => action'[u] = action[u]
    BY <1>2, <1>3, <1>5 DEF Core, TableInv, TableTypes
  <2>2. \A u \in list : IsFirst(u, list) => u = t
    BY <1>2 DEF Core, DrainInv, IsFirst, Turn
  <2>3. \A u \in list' : action'[u] # "NONE" /\ (IsFirst(u, list') => action'[u] = "SUCCEEDED")
    BY <2>1, <2>2 DEF Core, DrainInv
  <2> QED BY <1>3, <2>1, <2>3 DEF Core, DrainInv, IsFirst
<1>10. CallInv'
  BY <1>1, <1>3, <1>6, SlotFreed DEF Core, worker
<1> QED BY <1>7, <1>8, <1>9, <1>10 DEF Core

\* The drain goes on to its next action.
LEMMA DrainSkips ==
  ASSUME Core, dpc = "wait", Skip, UNCHANGED <<Outbox, outside, turn, response, worker>>,
         \/ calls' = Forget("drain")
         \/ \E k \in Slot : calls[k].for = "drain" /\ calls' = [calls EXCEPT ![k] = Free]
  PROVE  Core'
<1>1. TablesGrow
  BY TablesStay DEF Outbox, outside
<1>2. TableInv' /\ WorkerInv'
  BY <1>1, TableRests, WorkerRests DEF Core, Outbox
<1>3. DrainInv'
  BY SkipKeeps DEF Core, Outbox
<1>4. CallInv'
  BY <1>1, ForgetKeeps, SlotFreed DEF Core, worker
<1> QED BY <1>2, <1>3, <1>4 DEF Core

LEMMA DrainConfirmsKeeps == ASSUME Core, DrainConfirms PROVE Core'
<1>1. PICK t \in list : /\ IsFirst(t, list) /\ AuditOutcome(t, stored[t])
                       /\ IF turn[t] = "COMPLETED" THEN UNCHANGED Inbox
                          ELSE SetTurn(t, "COMPLETED", stored[t])
  BY DEF DrainConfirms
<1>2. /\ dpc = "confirm" /\ Skip
      /\ UNCHANGED <<requested, action, stored, aged, calls, worker, outside>>
  BY DEF DrainConfirms, Rest2
<1>3. /\ t \in Turn /\ action[t] = "SUCCEEDED" /\ posts[t] # {}
      /\ stored[t] \in Text /\ stored[t] # NoText
  BY <1>1, <1>2, ReplyAssumption DEF Core, DrainInv, TableInv, AuditedAround, RowsAgree
<1>4. TableInv'
  BY <1>1, <1>2, <1>3 DEF Core, TableInv, TableTypes, AuditedAround, RowsAgree, AuditOutcome, outside
<1>5. WorkerInv'
  BY <1>1, <1>2, <1>3 DEF Core, WorkerInv, WorkerTypes, WorkerAt, RunningIsWorked, CompletedWasPosted,
     SetTurn, Inbox, worker, outside
<1>6. DrainInv'
  BY <1>2, SkipKeeps DEF Core
<1>7. CallInv'
  BY <1>2, TablesStay, CallsRest DEF Core, worker, outside
<1> QED BY <1>4, <1>5, <1>6, <1>7 DEF Core

-----------------------------------------------------------------------------
\* One request goes on at the driver, or ends there.
LEMMA OneCall ==
  ASSUME CallInv, TablesGrow, NEW k \in Slot, calls[k].at # "free", NEW c \in Call,
         calls' = [calls EXCEPT ![k] = c], UNCHANGED <<worker, drain>>,
         c.at # "free" =>
           /\ c.turn = calls[k].turn /\ c.for = calls[k].for
           /\ c.at = "posted" => posts'[calls[k].turn] # {}
           /\ c.at = "ok" => driver'[calls[k].turn] = "SUCCEEDED"
  PROVE  CallInv'
<1>1. calls' \in [Slot -> Call]
  BY DEF CallInv
<1>2. \A j \in Slot : calls'[j] = IF j = k THEN c ELSE calls[j]
  BY DEF CallInv
<1> QED BY <1>1, <1>2, CallsFollow DEF worker, drain

\* What becomes of a request that is answered.
LEMMA AnsweredCall ==
  ASSUME NEW f \in [Slot -> Call], NEW k \in Slot, f[k].at # "free", NEW x \in {"ok", "error"}
  PROVE  LET c == IF f[k].for = "nobody" THEN Free ELSE [f[k] EXCEPT !.at = x]
         IN  /\ c \in Call
             /\ c.at # "free" => c.turn = f[k].turn /\ c.for = f[k].for /\ c.at = x
<1> DEFINE d == f[k]
<1>1. d \in Call /\ d.at # "free"
  OBVIOUS
<1>2. CASE d.for = "nobody"
  BY <1>2 DEF Call, Free
<1>3. CASE d.for # "nobody"
  <2>1. [d EXCEPT !.at = x] \in Call
    BY <1>1, <1>3, CallGoesOn
  <2>2. /\ [d EXCEPT !.at = x].turn = d.turn /\ [d EXCEPT !.at = x].for = d.for
        /\ [d EXCEPT !.at = x].at = x
    BY <1>1 DEF Call, Free
  <2> QED BY <1>3, <2>1, <2>2
<1> QED BY <1>2, <1>3

\* The steps of a request at the driver.
LEMMA DriverKeeps ==
  ASSUME Core, NEW k \in Slot, DriverStep(k) \/ PostFails(k)
  PROVE  Core'
<1> DEFINE d == calls[k]
           t == calls[k].turn
           Ans(x) == IF d.for = "nobody" THEN Free ELSE [d EXCEPT !.at = x]
<1>1. d \in Call /\ d.at # "free" /\ calls \in [Slot -> Call]
  BY DEF Core, CallInv, DriverStep, Arrive, ProviderPosts, PostReturns, PostFails
<1>2. t \in Turn /\ d.text \in Text /\ action[t] # "NONE"
  BY <1>1, CallFields DEF Core, CallInv
<1>3. UNCHANGED <<turn, response, requested, outcome, action, stored, aged, worker, drain>>
  BY DEF DriverStep, Arrive, ProviderPosts, PostReturns, PostFails, Daemon, durable
<1>4. PICK c \in Call :
        /\ calls' = [calls EXCEPT ![k] = c]
        /\ c.at # "free" =>
             /\ c.turn = t /\ c.for = d.for
             /\ c.at = "posted" => posts'[t] # {}
             /\ c.at = "ok" => driver'[t] = "SUCCEEDED"
  <2>1. \A x \in {"ok", "error"} :
          Ans(x) \in Call /\ (Ans(x).at # "free" => Ans(x).turn = t /\ Ans(x).for = d.for /\ Ans(x).at = x)
    BY <1>1, AnsweredCall
  <2>2. \A x \in {"post", "posted"} :
          LET e == [d EXCEPT !.at = x] IN e \in Call /\ e.turn = t /\ e.for = d.for /\ e.at = x
    BY <1>1, CallGoesOn DEF Call, Free
  <2>3. CASE Arrive(k) /\ driver[t] = "SUCCEEDED"
    <3>1. calls' = [calls EXCEPT ![k] = Ans("ok")] /\ driver' = driver
      BY <2>3 DEF Arrive
    <3> QED BY <2>1, <2>3, <3>1
  <2>4. CASE Arrive(k) /\ driver[t] # "SUCCEEDED"
    <3>1. calls' = [calls EXCEPT ![k] = [d EXCEPT !.at = "post"]]
      BY <2>4 DEF Arrive
    <3> QED BY <2>2, <3>1
  <2>5. CASE ProviderPosts(k)
    <3>1. calls' = [calls EXCEPT ![k] = [d EXCEPT !.at = "posted"]] /\ posts'[t] # {}
      BY <1>2, <2>5 DEF ProviderPosts, Core, TableInv, TableTypes
    <3> QED BY <2>2, <3>1
  <2>6. CASE PostReturns(k)
    <3>1. calls' = [calls EXCEPT ![k] = Ans("ok")] /\ driver'[t] = "SUCCEEDED"
      BY <1>2, <2>6 DEF PostReturns, Answered, Core, TableInv, TableTypes
    <3> QED BY <2>1, <3>1
  <2>7. CASE PostFails(k)
    <3>1. calls' = [calls EXCEPT ![k] = Ans("error")]
      BY <2>7 DEF PostFails, Answered
    <3> QED BY <2>1, <3>1
  <2> QED BY <2>3, <2>4, <2>5, <2>6, <2>7 DEF DriverStep
<1>5. /\ driver' \in [Turn -> {"NONE", "PENDING", "SUCCEEDED"}]
      /\ posts' \in [Turn -> SUBSET Text] /\ twice' \subseteq Turn
      /\ \A u \in Turn : driver[u] = "SUCCEEDED" => driver'[u] = "SUCCEEDED"
      /\ \A u \in Turn : driver'[u] = "SUCCEEDED" => driver[u] = "SUCCEEDED" \/ (u = t /\ posts'[t] # {})
      /\ \A u \in Turn : posts[u] # {} => posts'[u] # {}
      /\ \A u \in Turn : posts'[u] # {} => posts[u] # {} \/ u = t
  <2> USE <1>1, <1>2 DEF Core, TableInv, TableTypes
  <2>1. CASE Arrive(k)
    BY <2>1 DEF Arrive
  <2>2. CASE ProviderPosts(k)
    BY <2>2 DEF ProviderPosts
  <2>3. CASE PostReturns(k)
    BY <2>3 DEF PostReturns, CallInv
  <2>4. CASE PostFails(k)
    BY <2>4 DEF PostFails, outside
  <2> QED BY <2>1, <2>2, <2>3, <2>4 DEF DriverStep
<1>6. TablesGrow
  BY <1>3, <1>5 DEF TablesGrow
<1>7. TableInv'
  BY <1>2, <1>3, <1>5 DEF Core, TableInv, TableTypes, AuditedAround, RowsAgree
<1>8. WorkerInv' /\ DrainInv'
  BY <1>3, <1>6, WorkerRests, DrainRests DEF Core
<1>9. CallInv'
  BY <1>1, <1>3, <1>4, <1>6, OneCall DEF Core
<1> QED BY <1>7, <1>8, <1>9 DEF Core

-----------------------------------------------------------------------------
\* Nobody waits for a request whose connection was cut.
LEMMA CutKeeps ==
  ASSUME CallInv, TablesGrow, NEW L, calls' = Cut(L) \/ calls' = [k \in Slot |-> Free]
  PROVE  CallInv'
<1>1. Free \in Call /\ Free.at = "free"
  BY DEF Call, Free
<1>2. ASSUME NEW k \in Slot
      PROVE  /\ calls'[k] \in Call
             /\ calls'[k].at # "free" =>
                  /\ calls[k].at # "free" /\ calls'[k].turn = calls[k].turn
                  /\ calls'[k].at = calls[k].at /\ calls'[k].for = "nobody"
  <2> DEFINE c == calls[k]
  <2>1. c \in Call
    BY DEF CallInv
  <2>2. CASE calls'[k] = Free
    BY <1>1, <2>2
  <2>3. CASE calls'[k] # Free
    <3>1. c # Free /\ c.at \notin {"ok", "error"} /\ calls'[k] = [c EXCEPT !.for = "nobody"]
      BY <2>3 DEF Cut
    <3>2. c.at # "free"
      BY <2>1, <3>1, CallFields
    <3>3. calls'[k] \in Call
      BY <2>1, <3>1, <3>2, CallGoesOn
    <3> QED BY <2>1, <3>1, <3>2, <3>3 DEF Call, Free
  <2> QED BY <2>2, <2>3
<1>3. calls' \in [Slot -> Call]
  BY <1>2 DEF Cut
<1> QED BY <1>2, <1>3, CallsFollow

\* The connection of the driver is lost, or the driver is.
LEMMA LossKeeps ==
  ASSUME Core, DriverCrash \/ \E L \in SUBSET Slot : Disconnect(L)
  PROVE  Core'
<1>1. UNCHANGED <<Outbox, outside>> /\ SendersFail
  BY DEF DriverCrash, Disconnect
<1>2. TablesGrow
  BY <1>1, TablesStay DEF Outbox, outside
<1>3. TableInv'
  BY <1>1, TableRests DEF Core
<1>4. WorkerInv'
  <2>1. CASE wpc = "wait"
    BY <1>1, <2>1, GiveUpKeeps DEF SendersFail, Core, outside
  <2>2. CASE wpc # "wait"
    BY <1>1, <1>2, <2>2, WorkerRests DEF SendersFail, Core, Outbox
  <2> QED BY <2>1, <2>2
<1>5. DrainInv'
  BY <1>1, <1>2, SkipKeeps, DrainRests DEF SendersFail, Core, Outbox
<1>6. CallInv'
  BY <1>2, CutKeeps DEF DriverCrash, Disconnect, Core
<1> QED BY <1>3, <1>4, <1>5, <1>6 DEF Core

\* A new daemon process.
LEMMA ReopenKeeps == ASSUME Core, NEW L, Reopen(L) PROVE Core'
<1>1. UNCHANGED <<Outbox, outside, response>>
  BY DEF Reopen
<1>2. TablesGrow
  BY <1>1, TablesStay DEF Outbox, outside
<1>3. TableInv' /\ CallInv'
  BY <1>1, <1>2, TableRests, CutKeeps DEF Core, Reopen
<1>4. WorkerInv'
  <2> USE DEF Core, WorkerInv, Reopen, Rest
  <2>1. WorkerTypes'
    BY <1>1, ReplyAssumption DEF WorkerTypes
  <2>2. WorkerAt'
    BY DEF WorkerAt
  <2>3. RunningIsWorked' /\ CompletedWasPosted'
    BY <1>1 DEF WorkerTypes, RunningIsWorked, CompletedWasPosted, outside
  <2> QED BY <2>1, <2>2, <2>3
<1>5. DrainInv'
  BY DEF Reopen, DrainInv
<1> QED BY <1>3, <1>4, <1>5 DEF Core

\* Steps that only pass time, or change a flag.
LEMMA IdleKeeps ==
  ASSUME Core, Stop \/ Reconnect \/ (\E t \in Turn : Age(t)) \/ UNCHANGED vars
  PROVE  Core'
<1>1. UNCHANGED <<requested, outcome, action, stored, outside, turn, response, worker, drain, calls>>
  BY DEF Stop, Reconnect, Age, vars, durable, Daemon
<1>2. aged' \in [Turn -> BOOLEAN]
  <2>1. CASE \E t \in Turn : Age(t)
    BY <2>1 DEF Age, Core, TableInv, TableTypes
  <2>2. CASE Stop \/ Reconnect \/ UNCHANGED vars
    BY <2>2 DEF Stop, Reconnect, vars, Daemon, Core, TableInv, TableTypes
  <2> QED BY <2>1, <2>2
<1>3. TableInv'
  BY <1>1, <1>2 DEF Core, TableInv, TableTypes, AuditedAround, RowsAgree, outside
<1>4. WorkerInv' /\ DrainInv' /\ CallInv'
  BY <1>1, WorkerRests, DrainRests, CallsRest, TablesStay DEF Core, outside, worker, drain
<1> QED BY <1>3, <1>4 DEF Core

\* Counters stay within their bounds, and flags are flags.
LEMMA BoundsKeep == ASSUME BoundTypes, [Next]_vars PROVE BoundTypes'
<1> USE ReplyAssumption DEF BoundTypes, bounds
<1>1. CASE WorkerStep
  BY <1>1 DEF WorkerStep, Start, Runs, RunFails, RecordRequest, RecordFails, Reserve, WorkerAnswered,
     WorkerRefused, WorkerConfirms, WorkerConfirmFails, Others
<1>2. CASE DrainStep
  BY <1>2 DEF DrainStep, DrainLists, DrainSends, DrainAnswered, DrainRefused, DrainConfirms,
     DrainConfirmFails
<1>3. CASE Trouble
  BY <1>3 DEF Trouble, WorkerTimesOut, DrainTimesOut, DriverCrash, Stop, PostFails, Disconnect, Crash,
     Stopped, Reopen, Lose
<1>4. CASE Reconnect \/ \E t \in Turn : Age(t)
  BY <1>4 DEF Reconnect, Age
<1>5. CASE \E k \in Slot : DriverStep(k)
  BY <1>5 DEF DriverStep, Arrive, ProviderPosts, PostReturns
<1>6. CASE UNCHANGED vars
  BY <1>6 DEF vars
<1> QED BY <1>1, <1>2, <1>3, <1>4, <1>5, <1>6 DEF Next

LEMMA FlagsKeep == ASSUME FlagTypes, [Next]_vars PROVE FlagTypes'
<1> USE DEF FlagTypes
<1>1. CASE WorkerStep
  BY <1>1 DEF WorkerStep, Start, Runs, RunFails, RecordRequest, RecordFails, Reserve, WorkerAnswered,
     WorkerRefused, WorkerConfirms, WorkerConfirmFails, Others, GiveUp, Request, Rest
<1>2. CASE DrainStep
  BY <1>2 DEF DrainStep, DrainLists, DrainSends, DrainAnswered, DrainRefused, DrainConfirms,
     DrainConfirmFails, Rest2, worker
<1>3. CASE Trouble
  BY <1>3 DEF Trouble, WorkerTimesOut, DrainTimesOut, DriverCrash, Stop, PostFails, Disconnect, Crash,
     Stopped, Reopen, SendersFail, GiveUp, Rest, Rest2, worker, Daemon
<1>4. CASE Reconnect \/ \E t \in Turn : Age(t)
  BY <1>4 DEF Reconnect, Age, Daemon, worker
<1>5. CASE \E k \in Slot : DriverStep(k)
  BY <1>5 DEF DriverStep, Arrive, ProviderPosts, PostReturns, Daemon, worker
<1>6. CASE UNCHANGED vars
  BY <1>6 DEF vars, worker
<1> QED BY <1>1, <1>2, <1>3, <1>4, <1>5, <1>6 DEF Next

\* Every step keeps the invariant.
LEMMA ReplyStep == ASSUME ReplyInv, [Next]_vars PROVE ReplyInv'
<1> USE DEF ReplyInv, Core
<1>1. CASE WorkerStep
  <2>1. CASE Start \/ \E a \in Answer : Runs(a)
    BY <2>1, StartKeeps, BoundsKeep, FlagsKeep
  <2>2. CASE RunFails \/ RecordFails \/ WorkerConfirmFails
    <3>1. wpc \notin {"idle", "wait"} /\ GiveUp /\ UNCHANGED <<Outbox, calls, drain, outside>>
      BY <2>2 DEF RunFails, RecordFails, WorkerConfirmFails, Others
    <3> QED BY <3>1, GiveUpRests, BoundsKeep, FlagsKeep
  <2>3. CASE RecordRequest \/ Reserve
    BY <2>3, RecordKeeps, ReserveKeeps, BoundsKeep, FlagsKeep
  <2>4. CASE WorkerAnswered \/ WorkerRefused \/ WorkerConfirms
    BY <2>4, WorkerAnsweredKeeps, WorkerRefusedKeeps, WorkerConfirmsKeeps, BoundsKeep, FlagsKeep
  <2> QED BY <1>1, <2>1, <2>2, <2>3, <2>4 DEF WorkerStep
<1>2. CASE DrainStep
  <2>1. CASE DrainRefused
    <3>1. \E k \in Slot : calls[k].for = "drain" /\ calls' = [calls EXCEPT ![k] = Free]
      BY <2>1 DEF DrainRefused, Awaited
    <3>2. dpc = "wait" /\ Skip /\ UNCHANGED <<Outbox, outside, turn, response, worker>>
      BY <2>1 DEF DrainRefused, Rest2, durable, Outbox
    <3> QED BY <3>1, <3>2, DrainSkips, BoundsKeep, FlagsKeep
  <2>2. CASE DrainLists \/ DrainConfirmFails \/ DrainSends \/ DrainAnswered \/ DrainConfirms
    BY <2>2, DrainQuiet, DrainSendsKeeps, DrainAnsweredKeeps, DrainConfirmsKeeps, BoundsKeep, FlagsKeep
  <2> QED BY <1>2, <2>1, <2>2 DEF DrainStep
<1>3. CASE Trouble
  <2>1. CASE WorkerTimesOut \/ DriverCrash \/ Stop \/ (\E L \in SUBSET Slot : Disconnect(L))
    BY <2>1, WorkerTimesOutKeeps, LossKeeps, IdleKeeps, BoundsKeep, FlagsKeep
  <2>2. CASE DrainTimesOut
    <3>1. /\ dpc = "wait" /\ Skip /\ calls' = Forget("drain")
          /\ UNCHANGED <<Outbox, outside, turn, response, worker>>
      BY <2>2 DEF DrainTimesOut, Rest2, durable, Outbox
    <3> QED BY <3>1, DrainSkips, BoundsKeep, FlagsKeep
  <2>3. CASE \E k \in Slot : PostFails(k)
    BY <2>3, DriverKeeps, BoundsKeep, FlagsKeep
  <2>4. CASE \E L \in SUBSET Slot : Crash(L) \/ Stopped(L)
    BY <2>4, ReopenKeeps, BoundsKeep, FlagsKeep DEF Crash, Stopped
  <2> QED BY <1>3, <2>1, <2>2, <2>3, <2>4 DEF Trouble
<1>4. CASE Reconnect \/ (\E t \in Turn : Age(t)) \/ UNCHANGED vars
  BY <1>4, IdleKeeps, BoundsKeep, FlagsKeep
<1>5. CASE \E k \in Slot : DriverStep(k)
  BY <1>5, DriverKeeps, BoundsKeep, FlagsKeep
<1> QED BY <1>1, <1>2, <1>3, <1>4, <1>5 DEF Next

-----------------------------------------------------------------------------
\* The inductive invariant of the worker, the drain and the driver holds in every
\* behaviour.
THEOREM ReplyInvariant == Spec => []ReplyInv
<1>1. ReplyInv /\ [Next]_vars => ReplyInv'
  BY ReplyStep
<1> QED BY ReplyInitInv, <1>1, PTL DEF Spec

\* Tables, locals and requests keep their types.
THEOREM ReplyTypes == Spec => []TypeOK
<1>1. ReplyInv => TypeOK
  BY DEF ReplyInv, TypeOK, TableInv, TableTypes, WorkerInv, WorkerTypes, DrainInv, CallInv,
     BoundTypes, FlagTypes
<1> QED BY <1>1, ReplyInvariant, PTL

\* A turn that agent-mesh-daemon.ts:397 or worker.ts:91 completes was posted.
THEOREM CompletedWerePosted == Spec => []CompletedWasPosted
<1>1. ReplyInv => CompletedWasPosted
  BY DEF ReplyInv, WorkerInv
<1> QED BY <1>1, ReplyInvariant, PTL

\* The intent is recorded before a post and the outcome after it.
THEOREM AuditFramesDelivery == Spec => []AuditedAround
<1>1. ReplyInv => AuditedAround
  BY DEF ReplyInv, TableInv
<1> QED BY <1>1, ReplyInvariant, PTL

\* No turn is RUNNING but the one in the worker's hands.
THEOREM NobodyElseRuns == Spec => []RunningIsWorked
<1>1. ReplyInv => RunningIsWorked
  BY DEF ReplyInv, WorkerInv
<1> QED BY <1>1, ReplyInvariant, PTL

\* A request begins to post only as it arrives, and not if the driver knows of a
\* success.
LEMMA PostsOnArrival ==
  ASSUME ReplyInv, [Next]_vars, NEW k \in Slot, calls[k].at # "post", calls'[k].at = "post"
  PROVE  Arrive(k) /\ driver[calls[k].turn] # "SUCCEEDED"
<1>1. \A j \in Slot : calls[j] \in Call
  BY DEF ReplyInv, CallInv
<1>2. ASSUME NEW j \in Slot, NEW c, calls' = [calls EXCEPT ![j] = c], c.at # "post" PROVE FALSE
  <2>1. calls'[k] = IF k = j THEN c ELSE calls[k]
    BY <1>2 DEF ReplyInv, CallInv
  <2> QED BY <1>2, <2>1
<1>3. Free.at # "post"
  BY DEF Free
<1>4. calls' # calls
  OBVIOUS
<1>5. ASSUME NEW who, NEW t, NEW x, Issue(who, t, x) PROVE FALSE
  BY <1>2, <1>5 DEF Issue
<1>6. ~WorkerStep
  <2>1. ~Reserve
    BY <1>4, <1>5 DEF Reserve, Request
  <2>2. ~(WorkerAnswered \/ WorkerRefused)
    BY <1>2, <1>3 DEF WorkerAnswered, WorkerRefused, Awaited
  <2>3. ~(Start \/ RunFails \/ RecordRequest \/ RecordFails \/ WorkerConfirms \/ WorkerConfirmFails
          \/ \E a \in Answer : Runs(a))
    BY <1>4 DEF Start, Runs, RunFails, RecordRequest, RecordFails, WorkerConfirms, WorkerConfirmFails
  <2> QED BY <2>1, <2>2, <2>3 DEF WorkerStep
<1>7. ~DrainStep
  <2>1. ~DrainSends
    BY <1>4, <1>5 DEF DrainSends
  <2>2. ~(DrainAnswered \/ DrainRefused)
    BY <1>2, <1>3 DEF DrainAnswered, DrainRefused, Awaited
  <2>3. ~(DrainLists \/ DrainConfirms \/ DrainConfirmFails)
    BY <1>4 DEF DrainLists, DrainConfirms, DrainConfirmFails
  <2> QED BY <2>1, <2>2, <2>3 DEF DrainStep
<1>8. ASSUME NEW who PROVE calls' # Forget(who)
  <2>1. SUFFICES ASSUME calls' = Forget(who) PROVE FALSE
    OBVIOUS
  <2>2. calls'[k].at = "post" => calls[k].at = "post"
    BY <1>1, <1>3, <2>1 DEF Forget, Call, Free
  <2> QED BY <2>2
<1>9. ASSUME NEW L PROVE calls' # Cut(L)
  <2>1. SUFFICES ASSUME calls' = Cut(L) PROVE FALSE
    OBVIOUS
  <2>2. calls'[k].at = "post" => calls[k].at = "post"
    BY <1>1, <1>3, <2>1 DEF Cut, Call, Free
  <2> QED BY <2>2
<1>10. ASSUME NEW j \in Slot, NEW x \in {"ok", "error"}, calls[j].at # "free", Answered(j, x) PROVE FALSE
  <2> DEFINE c == IF calls[j].for = "nobody" THEN Free ELSE [calls[j] EXCEPT !.at = x]
  <2>1. c.at # "post"
    BY <1>1, <1>3 DEF Call, Free
  <2> QED BY <1>2, <1>10, <2>1 DEF Answered
<1>11. ~Trouble
  <2>1. ~(WorkerTimesOut \/ DrainTimesOut \/ Stop)
    BY <1>4, <1>8 DEF WorkerTimesOut, DrainTimesOut, Stop
  <2>2. ~DriverCrash
    BY <1>3 DEF DriverCrash
  <2>3. ~ \E j \in Slot : PostFails(j)
    BY <1>10 DEF PostFails
  <2>4. ~ \E L \in SUBSET Slot : Disconnect(L) \/ Crash(L) \/ Stopped(L)
    BY <1>9 DEF Disconnect, Crash, Stopped, Reopen
  <2> QED BY <2>1, <2>2, <2>3, <2>4 DEF Trouble
<1>12. ~(Reconnect \/ (\E t \in Turn : Age(t)) \/ UNCHANGED vars)
  BY <1>4 DEF Reconnect, Age, vars
<1>13. PICK j \in Slot : DriverStep(j)
  BY <1>6, <1>7, <1>11, <1>12 DEF Next
<1>14. ~PostReturns(j) /\ ~ProviderPosts(j)
  <2>1. ~PostReturns(j)
    BY <1>10 DEF PostReturns
  <2>2. ASSUME ProviderPosts(j) PROVE FALSE
    <3>1. [calls[j] EXCEPT !.at = "posted"].at # "post"
      BY <1>1, <2>2 DEF ProviderPosts, Call, Free
    <3> QED BY <1>2, <2>2, <3>1 DEF ProviderPosts
  <2> QED BY <2>1, <2>2
<1>15. Arrive(j) /\ driver[calls[j].turn] # "SUCCEEDED"
  <2>1. Arrive(j)
    BY <1>13, <1>14 DEF DriverStep
  <2>2. ASSUME driver[calls[j].turn] = "SUCCEEDED" PROVE FALSE
    <3>1. Answered(j, "ok") /\ calls[j].at # "free"
      BY <2>1, <2>2 DEF Arrive, Answered
    <3> QED BY <1>10, <3>1
  <2> QED BY <2>1, <2>2
<1>16. k = j
  BY <1>15 DEF Arrive, ReplyInv, CallInv
<1> QED BY <1>15, <1>16

\* Once a success is recorded, no request begins to post (agent-mesh-daemon.ts:413
\* against discord.ts:373).
THEOREM NoPostAfterSuccess == Spec => SilentAfterSuccess
<1> DEFINE Silent == \A k \in Slot : calls[k].at # "post" /\ calls'[k].at = "post" =>
                       action[calls[k].turn] # "SUCCEEDED"
<1>1. ASSUME ReplyInv, [Next]_vars PROVE [Silent]_vars
  <2>1. ASSUME NEW k \in Slot, calls[k].at # "post", calls'[k].at = "post"
        PROVE  action[calls[k].turn] # "SUCCEEDED"
    <3>1. driver[calls[k].turn] # "SUCCEEDED" /\ calls[k].at = "sent"
      BY <1>1, <2>1, PostsOnArrival DEF Arrive
    <3>2. calls[k].turn \in Turn
      BY <1>1, <3>1, CallFields DEF ReplyInv, CallInv
    <3> QED BY <1>1, <3>1, <3>2 DEF ReplyInv, TableInv, AuditedAround
  <2> QED BY <2>1
<1> QED BY <1>1, ReplyInvariant, PTL DEF Spec, SilentAfterSuccess
-----------------------------------------------------------------------------
(* ReplyDelivery implements ReplyPromise. *)

\* Steps that change nothing the promise speaks of.
LEMMA NothingSaid ==
  ASSUME UNCHANGED <<turn, requested, posts>>, UNCHANGED <<Delivered, Audited>>
  PROVE  UNCHANGED Promise!vars
BY DEF Promise!vars, Fates

\* A change of the state of one turn.
LEMMA FateSet ==
  ASSUME WorkerTypes, NEW t \in Turn, NEW s, NEW x, SetTurn(t, s, x)
  PROVE  /\ s = "RUNNING"   => Fates' = [Fates EXCEPT ![t] = "running"]
         /\ s = "COMPLETED" => Fates' = [Fates EXCEPT ![t] = "completed"]
         /\ s = "FAILED"    => Fates' = [Fates EXCEPT ![t] = "failed"]
BY DEF WorkerTypes, SetTurn, Fates

LEMMA FateStays ==
  ASSUME WorkerTypes, NEW t \in Turn, turn[t] = "COMPLETED", UNCHANGED turn
  PROVE  Fates' = [Fates EXCEPT ![t] = "completed"]
<1>1. UNCHANGED Fates /\ Fates[t] = "completed"
  BY DEF Fates
<1>2. Fates \in [Turn -> {"queued", "running", "completed", "failed"}]
  BY DEF Fates, WorkerTypes
<1> HIDE DEF Fates
<1>3. Fates = [Fates EXCEPT ![t] = Fates[t]]
  BY <1>2
<1> QED BY <1>1, <1>3

\* The catch block fails the turn, which ran or was completed by the drain.
LEMMA GiveUpPromised ==
  ASSUME ReplyInv, wpc # "idle", GiveUp, UNCHANGED <<requested, posts>>,
         UNCHANGED <<Delivered, Audited>>
  PROVE  Promise!Next \/ UNCHANGED Promise!vars
<1> USE DEF ReplyInv, WorkerInv
<1>1. CASE apology
  BY <1>1, NothingSaid DEF GiveUp
<1>2. CASE ~apology
  <2>1. SetTurn(item, "FAILED", NoText) /\ item \in Turn /\ turn[item] # "PENDING"
    BY <1>2 DEF GiveUp, WorkerAt
  <2>2. Fates' = [Fates EXCEPT ![item] = "failed"]
    BY <2>1, FateSet
  <2>3. CASE turn[item] = "FAILED"
    <3>1. UNCHANGED turn
      BY <2>1, <2>3 DEF SetTurn, WorkerTypes
    <3> QED BY <3>1, NothingSaid
  <2>4. CASE turn[item] # "FAILED"
    <3>1. Fates[item] \in {"running", "completed"}
      BY <2>1, <2>4 DEF Fates, WorkerTypes
    <3> QED BY <2>1, <2>2, <3>1 DEF Promise!Next, Promise!Fail
  <2> QED BY <2>3, <2>4
<1> QED BY <1>1, <1>2

\* What a step of the worker says of a turn is a step of the promise.
LEMMA WorkerPromised ==
  ASSUME ReplyInv, WorkerStep
  PROVE  Promise!Next \/ UNCHANGED Promise!vars
<1> USE DEF ReplyInv
<1>1. CASE Start
  <2>1. PICK t \in Turn : turn[t] = "PENDING" /\ SetTurn(t, "RUNNING", NoText)
    BY <1>1 DEF Start, IsFirst
  <2>2. Fates[t] = "queued" /\ \A u \in Turn : Fates[u] # "running"
    BY <1>1, <2>1 DEF Start, WorkerInv, WorkerTypes, RunningIsWorked, Fates
  <2>3. Fates' = [Fates EXCEPT ![t] = "running"]
    BY <2>1, FateSet DEF WorkerInv
  <2>4. UNCHANGED <<requested, posts, Delivered, Audited>>
    BY <1>1 DEF Start, Outbox, Others, outside, Delivered, Audited
  <2> QED BY <2>2, <2>3, <2>4 DEF Promise!Next, Promise!Take
<1>2. CASE \E a \in Answer : Runs(a)
  BY <1>2, NothingSaid DEF Runs, Outbox, Others, outside, Delivered, Audited
<1>3. CASE RunFails \/ RecordFails \/ WorkerRefused \/ WorkerConfirmFails
  <2>1. UNCHANGED <<requested, posts>> /\ UNCHANGED <<Delivered, Audited>>
    BY <1>3 DEF RunFails, RecordFails, WorkerRefused, WorkerConfirmFails, Outbox, Others, outside,
       Delivered, Audited
  <2> QED BY <1>3, <2>1, GiveUpPromised DEF RunFails, RecordFails, WorkerRefused, WorkerConfirmFails
<1>4. CASE RecordRequest
  <2>1. item \in Turn /\ text \in Text /\ turn[item] # "PENDING"
    BY <1>4 DEF RecordRequest, WorkerInv, WorkerAt
  <2>2. UNCHANGED <<turn, posts, Delivered, Audited>>
    BY <1>4 DEF RecordRequest, Others, outside, Delivered, Audited
  <2>3. UNCHANGED Fates /\ Fates[item] # "queued"
    BY <2>1, <2>2 DEF Fates, WorkerInv, WorkerTypes
  <2>4. CASE requested[item] = NoText
    <3>1. requested' = [requested EXCEPT ![item] = text]
      BY <1>4, <2>4 DEF RecordRequest
    <3> QED BY <2>1, <2>2, <2>3, <2>4, <3>1 DEF Promise!Next, Promise!Intend
  <2>5. CASE requested[item] # NoText
    <3>1. UNCHANGED requested
      BY <1>4, <2>1, <2>5 DEF RecordRequest, TableInv, TableTypes
    <3> QED BY <2>2, <3>1, NothingSaid
  <2> QED BY <2>4, <2>5
<1>5. CASE Reserve
  <2>1. UNCHANGED <<requested, posts, Audited>> /\ item \in Turn
    BY <1>5 DEF Reserve, Others, outside, Audited, WorkerInv, WorkerAt
  <2>2. UNCHANGED Delivered
    BY <1>5, <2>1 DEF Reserve, Delivered, TableInv, TableTypes
  <2>3. GiveUp \/ UNCHANGED turn
    BY <1>5 DEF Reserve, Request
  <2> QED BY <1>5, <2>1, <2>2, <2>3, GiveUpPromised, NothingSaid DEF Reserve
<1>6. CASE WorkerAnswered
  <2>1. PICK k \in Slot : calls[k].for = "worker" /\ calls[k].at = "ok"
    BY <1>6 DEF WorkerAnswered, Awaited
  <2>2. item \in Turn /\ posts[item] # {}
    BY <1>6, <2>1 DEF WorkerAnswered, CallInv, TableInv, RowsAgree, WorkerInv, WorkerAt
  <2>3. Delivered' = Delivered \cup {item}
    BY <1>6, <2>2 DEF WorkerAnswered, Delivered, TableInv, TableTypes
  <2>4. UNCHANGED <<Fates, requested, posts, Audited>>
    BY <1>6 DEF WorkerAnswered, Others, outside, Fates, Audited
  <2> QED BY <2>2, <2>3, <2>4 DEF Promise!Next, Promise!Deliver
<1>7. CASE WorkerConfirms
  <2>1. item \in Turn /\ item \in Delivered /\ text # NoText
    BY <1>7, ReplyAssumption DEF WorkerConfirms, WorkerInv, WorkerAt, Delivered
  <2>2. Audited' = Audited \cup {item}
    BY <1>7, <2>1 DEF WorkerConfirms, AuditOutcome, Audited, TableInv, TableTypes
  <2>3. Fates' = [Fates EXCEPT ![item] = "completed"]
    <3>1. CASE SetTurn(item, "COMPLETED", text)
      BY <2>1, <3>1, FateSet DEF WorkerInv
    <3>2. CASE turn[item] = "COMPLETED" /\ UNCHANGED turn
      BY <2>1, <3>2, FateStays DEF WorkerInv
    <3> QED BY <1>7, <3>1, <3>2 DEF WorkerConfirms
  <2>4. UNCHANGED <<requested, posts, Delivered>>
    BY <1>7 DEF WorkerConfirms, Others, outside, Delivered
  <2> QED BY <2>1, <2>2, <2>3, <2>4 DEF Promise!Next, Promise!Complete
<1> QED BY <1>1, <1>2, <1>3, <1>4, <1>5, <1>6, <1>7 DEF WorkerStep

\* So is what a step of the drain says.
LEMMA DrainPromised ==
  ASSUME ReplyInv, DrainStep
  PROVE  Promise!Next \/ UNCHANGED Promise!vars
<1> USE DEF ReplyInv
<1>1. CASE DrainLists \/ DrainSends \/ DrainRefused \/ DrainConfirmFails
  BY <1>1, NothingSaid DEF DrainLists, DrainSends, DrainRefused, DrainConfirmFails, durable, Rest2, outside,
     Delivered, Audited
<1>2. CASE DrainAnswered
  <2>1. PICK t \in list : IsFirst(t, list) /\ action' = [action EXCEPT ![t] = "SUCCEEDED"]
    BY <1>2 DEF DrainAnswered
  <2>2. PICK k \in Slot : calls[k].for = "drain" /\ calls[k].at = "ok"
    BY <1>2 DEF DrainAnswered, Awaited
  <2>3. IsFirst(calls[k].turn, list) /\ driver[calls[k].turn] = "SUCCEEDED"
    BY <2>2 DEF CallInv
  <2>4. t \in Turn /\ calls[k].turn \in Turn /\ t = calls[k].turn
    <3> DEFINE u == calls[k].turn
    <3>1. t \in list /\ u \in list /\ t <= u /\ u <= t
      BY <2>1, <2>3 DEF IsFirst
    <3>2. list \subseteq Turn /\ Turn \subseteq Nat
      BY ReplyAssumption DEF DrainInv, Turn
    <3> HIDE DEF u
    <3>3. t \in Turn /\ u \in Turn /\ t = u
      BY <3>1, <3>2
    <3> QED BY <3>3 DEF u
  <2>5. posts[t] # {}
    BY <2>3, <2>4 DEF TableInv, RowsAgree
  <2>6. Delivered' = Delivered \cup {t}
    BY <2>1, <2>4 DEF Delivered, TableInv, TableTypes
  <2>7. UNCHANGED <<Fates, requested, posts, Audited>>
    BY <1>2 DEF DrainAnswered, Rest2, outside, Fates, Audited
  <2> QED BY <2>4, <2>5, <2>6, <2>7 DEF Promise!Next, Promise!Deliver
<1>3. CASE DrainConfirms
  <2>1. PICK t \in list : /\ IsFirst(t, list) /\ AuditOutcome(t, stored[t])
                          /\ IF turn[t] = "COMPLETED" THEN UNCHANGED Inbox
                             ELSE SetTurn(t, "COMPLETED", stored[t])
    BY <1>3 DEF DrainConfirms
  <2>2. t \in Turn /\ t \in Delivered /\ stored[t] # NoText
    BY <1>3, <2>1, ReplyAssumption DEF DrainConfirms, DrainInv, Delivered, TableInv, RowsAgree
  <2>3. Audited' = Audited \cup {t}
    BY <2>1, <2>2 DEF AuditOutcome, Audited, TableInv, TableTypes
  <2>4. Fates' = [Fates EXCEPT ![t] = "completed"]
    <3>1. CASE SetTurn(t, "COMPLETED", stored[t])
      BY <2>2, <3>1, FateSet DEF WorkerInv
    <3>2. CASE turn[t] = "COMPLETED" /\ UNCHANGED turn
      BY <2>2, <3>2, FateStays DEF WorkerInv
    <3> QED BY <2>1, <3>1, <3>2 DEF Inbox
  <2>5. UNCHANGED <<requested, posts, Delivered>>
    BY <1>3 DEF DrainConfirms, Rest2, outside, Delivered
  <2> QED BY <2>2, <2>3, <2>4, <2>5 DEF Promise!Next, Promise!Complete
<1> QED BY <1>1, <1>2, <1>3 DEF DrainStep

\* A message of the driver follows the intent of its reply.
LEMMA PostPromised ==
  ASSUME ReplyInv, NEW k \in Slot, ProviderPosts(k)
  PROVE  Promise!Next
<1> DEFINE t == calls[k].turn
<1>1. t \in Turn /\ calls[k].text \in Text
  BY CallFields DEF ProviderPosts, ReplyInv, CallInv
<1>2. requested[t] # NoText
  BY <1>1 DEF ProviderPosts, ReplyInv, CallInv, TableInv, RowsAgree
<1>3. posts' = [posts EXCEPT ![t] = @ \cup {calls[k].text}]
  BY DEF ProviderPosts
<1>4. UNCHANGED <<Fates, requested, Delivered, Audited>>
  BY DEF ProviderPosts, Daemon, durable, Fates, Delivered, Audited
<1> QED BY <1>1, <1>2, <1>3, <1>4 DEF Promise!Next, Promise!Post

\* A lost connection, a timeout or a restart says nothing, fails the turn of
\* the worker or queues it again.
LEMMA TroublePromised ==
  ASSUME ReplyInv, Trouble
  PROVE  Promise!Next \/ UNCHANGED Promise!vars
<1> USE DEF ReplyInv
<1>1. CASE WorkerTimesOut
  BY <1>1, GiveUpPromised DEF WorkerTimesOut, Outbox, outside, Delivered, Audited
<1>2. CASE DrainTimesOut \/ Stop \/ \E k \in Slot : PostFails(k)
  <2>1. UNCHANGED <<durable, posts>>
    BY <1>2 DEF DrainTimesOut, Stop, PostFails, Rest2, outside, Daemon
  <2> QED BY <2>1, NothingSaid DEF durable, Delivered, Audited
<1>3. CASE DriverCrash \/ \E L \in SUBSET Slot : Disconnect(L)
  <2>1. SendersFail /\ UNCHANGED <<Outbox, outside>>
    BY <1>3 DEF DriverCrash, Disconnect
  <2>2. UNCHANGED <<requested, posts>> /\ UNCHANGED <<Delivered, Audited>>
    BY <2>1 DEF Outbox, outside, Delivered, Audited
  <2> QED BY <2>1, <2>2, GiveUpPromised, NothingSaid DEF SendersFail
<1>4. ASSUME NEW L, Reopen(L) PROVE Promise!Next
  <2>1. Fates' = [t \in Turn |-> IF Fates[t] = "running" THEN "queued" ELSE Fates[t]]
    BY <1>4 DEF Reopen, Fates, WorkerInv, WorkerTypes
  <2>2. UNCHANGED <<requested, posts, Delivered, Audited>>
    BY <1>4 DEF Reopen, Outbox, outside, Delivered, Audited
  <2> QED BY <2>1, <2>2 DEF Promise!Next, Promise!Restart
<1> QED BY <1>1, <1>2, <1>3, <1>4 DEF Trouble, Crash, Stopped

\* An empty inbox and outbox are where the promise begins.
LEMMA PromiseBegins == Init => Promise!Init
BY DEF Init, Promise!Init, Fates, Delivered, Audited

\* Every step of the worker, the drain, the driver and of whatever befalls them
\* is one of the promise, or changes nothing it speaks of.
LEMMA StepPromised == ReplyInv /\ [Next]_vars => [Promise!Next]_(Promise!vars)
<1> SUFFICES ASSUME ReplyInv, [Next]_vars PROVE Promise!Next \/ UNCHANGED Promise!vars
  OBVIOUS
<1>1. CASE WorkerStep \/ DrainStep \/ Trouble
  BY <1>1, WorkerPromised, DrainPromised, TroublePromised
<1>2. CASE Reconnect \/ (\E t \in Turn : Age(t)) \/ UNCHANGED vars
  BY <1>2, NothingSaid DEF Reconnect, Age, vars, Daemon, durable, outside, Delivered, Audited
<1>3. ASSUME NEW k \in Slot, DriverStep(k) PROVE Promise!Next \/ UNCHANGED Promise!vars
  BY <1>3, PostPromised, NothingSaid
  DEF DriverStep, Arrive, PostReturns, Daemon, durable, Delivered, Audited
<1> QED BY <1>1, <1>2, <1>3 DEF Next

\* The lane keeps the promise of ReplyPromise for any number of turns, answers,
\* slots, losses and restarts (agent-mesh-daemon.ts:300-420, worker.ts, discord.ts).
THEOREM RepliesKeepPromise == Spec => ReplySpec
<1> QED BY PromiseBegins, StepPromised, ReplyInvariant, PTL DEF Spec, ReplySpec, Promise!Spec
=============================================================================
