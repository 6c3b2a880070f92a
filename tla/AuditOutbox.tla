----------------------------- MODULE AuditOutbox -----------------------------
(***************************************************************************)
(* The durable audit outbox of one lane (outbox/lane-outbox.ts), the       *)
(* worker that drains it to the Hub (hub/audit-worker.ts), and the Hub as  *)
(* far as the worker's calls reveal it.                                    *)
(*                                                                         *)
(* The daemon is one JavaScript event loop, so code runs atomically        *)
(* between two awaits; every await of AuditWorker.#process is a place of   *)
(* `pc`, and so is the gap between two SQLite writes that a crash can      *)
(* fall into.                                                              *)
(*                                                                         *)
(* The rows of the `events` table are numbered in the order of created_at. *)
(* A disconnected mesh is not a variable: it delays ListDue and fails the  *)
(* calls in flight.  Attempt counts and back-off lengths are abstracted to *)
(* `due`, the truth of next_attempt_at <= now.                             *)
(***************************************************************************)
EXTENDS Naturals, FiniteSets

CONSTANTS NEvents,     \* bound: rows ever recorded
          Blob,        \* attachment contents, by blob key
          BatchLimit,  \* LIMIT of listDue, 20 in the code
          Rejectable,  \* events the Hub may refuse for good
          MaxForgets,  \* bound: blobs the Hub discards
          MaxCrashes   \* bound: restarts of the daemon

Event == 1..NEvents

ASSUME OutboxAssumption ==
  /\ NEvents \in Nat
  /\ BatchLimit \in Nat \ {0}
  /\ Rejectable \subseteq Event
  /\ MaxForgets \in Nat
  /\ MaxCrashes \in Nat

VARIABLES
  (* SQLite: the events and blobs tables *)
  recorded,   \* rows 1..recorded exist
  attach,     \* attachment_blob_keys of each row
  state,      \* state column
  resume,     \* resume_state column
  due,        \* next_attempt_at <= now
  confirmed,  \* blobs with hub_confirmed = 1 and a hub_blob_key
  (* the worker, lost in a crash *)
  pc,         \* the await #process is at
  snap,       \* the rest of the batch listDue returned: phase of each event
  cur,        \* the event in #process, 0 when none
  from,       \* the local resumeState of #process
  todo,       \* prepared blobs not gone through yet
  missing,    \* those of them the Hub asked to be uploaded
  answer,     \* what the Hub said to the append in flight
  (* the Hub and the network *)
  hubBlobs, hubEvents,
  late,       \* appends given up on that may still reach the Hub
  forgets, crashes

durable == <<recorded, attach, state, resume, due, confirmed>>
worker  == <<pc, snap, cur, from, todo, missing, answer>>
hub     == <<hubBlobs, hubEvents, late>>
vars    == <<durable, worker, hub, forgets, crashes>>

Phases == {"PENDING_BLOBS", "PENDING_APPEND"}
States == Phases \cup {"NONE", "RETRY_WAIT", "ACKED", "DEAD_LETTER"}

\* Every variable has the shape of its column or local; resume_state is only ever
\* a state that can be resumed.
TypeOK ==
  /\ recorded \in 0..NEvents
  /\ attach \in [Event -> SUBSET Blob]
  /\ state \in [Event -> States]
  /\ resume \in [Event -> Phases]
  /\ due \in [Event -> BOOLEAN]
  /\ confirmed \subseteq Blob
  /\ pc \in {"idle", "prepare", "upload", "send", "append"}
  /\ snap \in [Event -> Phases \cup {"none"}]
  /\ cur \in 0..NEvents
  /\ from \in Phases
  /\ todo \subseteq Blob
  /\ missing \subseteq Blob
  /\ answer \in {"none", "ok", "missing", "reject"}
  /\ hubBlobs \subseteq Blob
  /\ hubEvents \subseteq Event
  /\ late \subseteq Event
  /\ forgets \in 0..MaxForgets
  /\ crashes \in 0..MaxCrashes

Init ==
  /\ recorded = 0
  /\ attach = [e \in Event |-> {}]
  /\ state = [e \in Event |-> "NONE"]
  /\ resume = [e \in Event |-> "PENDING_BLOBS"]
  /\ due = [e \in Event |-> FALSE]
  /\ confirmed = {}
  /\ pc = "idle" /\ snap = [e \in Event |-> "none"] /\ cur = 0
  /\ from = "PENDING_BLOBS" /\ todo = {} /\ missing = {} /\ answer = "none"
  /\ hubBlobs = {} /\ hubEvents = {} /\ late = {}
  /\ forgets = 0 /\ crashes = 0
-----------------------------------------------------------------------------
(* Queries and writes of lane-outbox.ts *)

Waiting(e) == state[e] \in Phases \cup {"RETRY_WAIT"}

BlobsConfirmed(e) == attach[e] \subseteq confirmed

\* Where #process resumes an event it was handed.
Phase(e) == IF state[e] = "RETRY_WAIT" THEN resume[e]
            ELSE IF state[e] = "PENDING_APPEND" THEN "PENDING_APPEND"
            ELSE "PENDING_BLOBS"

Due == {e \in Event : state[e] \in Phases \/ (state[e] = "RETRY_WAIT" /\ due[e])}

\* Mutant: the limit is off by one.
FirstDueShort == {e \in Due : Cardinality({d \in Due : d < e}) < BatchLimit - 1}

\* ORDER BY created_at ASC LIMIT BatchLimit
FirstDue == {e \in Due : Cardinality({d \in Due : d < e}) < BatchLimit}

\* markPendingAppend, markRetry and markDeadLetter, all through #transition.
Transition(e, s, r, now) ==
  /\ state' = [state EXCEPT ![e] = s]
  /\ resume' = [resume EXCEPT ![e] = r]
  /\ due' = [due EXCEPT ![e] = now]
  /\ UNCHANGED <<recorded, attach>>

MarkPendingAppend(e) == Transition(e, "PENDING_APPEND", "PENDING_APPEND", TRUE)
MarkRetry(e, r)      == Transition(e, "RETRY_WAIT", r, FALSE)
\* Mutant: the state is written to resume_state too.
MarkDeadLetterTwice(e) == Transition(e, "DEAD_LETTER", "DEAD_LETTER", TRUE)
MarkDeadLetter(e)    == Transition(e, "DEAD_LETTER", "PENDING_APPEND", TRUE)

\* Unconditional in the code: whatever the row's state is.
MarkAcked(e) == /\ state' = [state EXCEPT ![e] = "ACKED"]
                /\ UNCHANGED <<recorded, attach, resume, due>>

\* The transaction that ends LaneOutbox.record: row, blobs and references.
Record ==
  /\ recorded < NEvents
  /\ recorded' = recorded + 1
  /\ \E A \in SUBSET Blob : attach' = [attach EXCEPT ![recorded + 1] = A]
  /\ state' = [state EXCEPT ![recorded + 1] = "PENDING_BLOBS"]
  /\ resume' = [resume EXCEPT ![recorded + 1] = "PENDING_BLOBS"]
  /\ due' = [due EXCEPT ![recorded + 1] = TRUE]
  /\ UNCHANGED <<confirmed, worker, hub, forgets, crashes>>

\* Mutant: replay does not look at the state of the row.
ReplayAny(E) ==
  LET To(e) == IF BlobsConfirmed(e) THEN "PENDING_APPEND" ELSE "PENDING_BLOBS"
      back  == {e \in E : state[e] # "NONE"}
  IN  /\ state' = [e \in Event |-> IF e \in back THEN To(e) ELSE state[e]]
      /\ resume' = [e \in Event |-> IF e \in back THEN To(e) ELSE resume[e]]
      /\ due' = [e \in Event |-> IF e \in back THEN TRUE ELSE due[e]]
      /\ UNCHANGED <<recorded, attach, confirmed, worker, hub, forgets, crashes>>

\* Mutant: replay resumes at the resume_state markDeadLetter left behind.
ReplayToAppend(E) ==
  LET back == {e \in E : state[e] = "DEAD_LETTER"}
  IN  /\ back # {}
      /\ state' = [e \in Event |-> IF e \in back THEN resume[e] ELSE state[e]]
      /\ due' = [e \in Event |-> IF e \in back THEN TRUE ELSE due[e]]
      /\ UNCHANGED <<recorded, attach, resume, confirmed, worker, hub, forgets, crashes>>

\* The operator's outbox.replay of the events E, or of all of them.
Replay(E) ==
  LET back == {e \in E : state[e] = "DEAD_LETTER"}
      To(e) == IF BlobsConfirmed(e) THEN "PENDING_APPEND" ELSE "PENDING_BLOBS"
  IN  /\ back # {}
      /\ state' = [e \in Event |-> IF e \in back THEN To(e) ELSE state[e]]
      /\ resume' = [e \in Event |-> IF e \in back THEN To(e) ELSE resume[e]]
      /\ due' = [e \in Event |-> IF e \in back THEN TRUE ELSE due[e]]
      /\ UNCHANGED <<recorded, attach, confirmed, worker, hub, forgets, crashes>>

\* The clock reaches next_attempt_at.
BecomeDue(e) ==
  /\ state[e] = "RETRY_WAIT" /\ ~due[e]
  /\ due' = [due EXCEPT ![e] = TRUE]
  /\ UNCHANGED <<recorded, attach, state, resume, confirmed, worker, hub,
                 forgets, crashes>>
-----------------------------------------------------------------------------
(* AuditWorker *)

Rest == UNCHANGED <<forgets, crashes>>

\* #process returns: the loop takes the next event of the batch.
Done == /\ pc' = "idle" /\ cur' = 0 /\ answer' = "none"
        /\ todo' = {} /\ missing' = {} /\ from' = "PENDING_BLOBS"
        /\ UNCHANGED snap

GiveUpFor(r)   == MarkRetry(cur, r) /\ Done     \* transient failure
GiveUpForGood  == MarkDeadLetter(cur) /\ Done   \* permanent failure

ListDue ==
  /\ pc = "idle" /\ \A e \in Event : snap[e] = "none"
  /\ FirstDue # {}
  /\ snap' = [e \in Event |-> IF e \in FirstDue THEN Phase(e) ELSE "none"]
  /\ UNCHANGED <<durable, pc, cur, from, todo, missing, answer, hub>> /\ Rest

\* #process starts on the next event of the snapshot.
Begin(e) ==
  /\ pc = "idle"
  /\ snap[e] # "none"
  /\ \A d \in Event : snap[d] # "none" => e <= d
  /\ cur' = e /\ from' = snap[e] /\ snap' = [snap EXCEPT ![e] = "none"]
  /\ pc' = IF snap[e] = "PENDING_APPEND" THEN "send"
           ELSE IF attach[e] = {} THEN "upload" ELSE "prepare"
  /\ UNCHANGED <<durable, todo, missing, answer, hub>> /\ Rest

\* mesh.audit.prepare_blobs returns.
Prepared ==
  /\ pc = "prepare"
  /\ pc' = "upload"
  /\ todo' = attach[cur]
  /\ missing' = attach[cur] \ hubBlobs
  /\ UNCHANGED <<durable, snap, cur, from, answer, hub>> /\ Rest

\* It fails, or the capability check before it does.
PrepareFails   == pc = "prepare" /\ GiveUpFor(from)
                  /\ UNCHANGED <<confirmed, hub>> /\ Rest
PrepareRefused == pc = "prepare" /\ cur \in Rejectable /\ GiveUpForGood
                  /\ UNCHANGED <<confirmed, hub>> /\ Rest

Confirm(b) == /\ confirmed' = confirmed \cup {b}
              /\ todo' = todo \ {b}
              /\ UNCHANGED <<recorded, attach, state, resume, due, pc, snap, cur,
                             from, missing, answer, hubEvents, late>>

\* The Hub already holds the blob.
BlobPresent(b) == /\ pc = "upload" /\ b \in todo \ missing
                  /\ Confirm(b) /\ UNCHANGED hubBlobs /\ Rest

Put(b) == /\ pc = "upload" /\ b \in todo \cap missing
          /\ Confirm(b) /\ hubBlobs' = hubBlobs \cup {b} /\ Rest

\* The upload is refused, times out, or its response is lost.
PutFails(b) == /\ pc = "upload" /\ b \in todo \cap missing
               /\ GiveUpFor(from)
               /\ hubBlobs' \in {hubBlobs, hubBlobs \cup {b}}
               /\ UNCHANGED <<confirmed, hubEvents, late>> /\ Rest

PutRefused(b) == /\ pc = "upload" /\ b \in todo \cap missing
                 /\ cur \in Rejectable /\ GiveUpForGood
                 /\ UNCHANGED <<confirmed, hub>> /\ Rest

Uploaded == /\ pc = "upload" /\ todo = {}
            /\ pc' = "send"
            /\ MarkPendingAppend(cur)
            /\ UNCHANGED <<confirmed, snap, cur, from, todo, missing, answer, hub>>
            /\ Rest

SendAppend == /\ pc = "send" /\ BlobsConfirmed(cur)
              /\ pc' = "append" /\ answer' = "none"
              /\ UNCHANGED <<durable, snap, cur, from, todo, missing, hub>> /\ Rest

\* #append throws "Blob was not confirmed" before it sends anything.
SendBlocked == /\ pc = "send" /\ ~BlobsConfirmed(cur)
               /\ GiveUpFor(from)
               /\ UNCHANGED <<confirmed, hub>> /\ Rest

Acked == /\ pc = "append" /\ answer = "ok"
         /\ MarkAcked(cur) /\ Done
         /\ UNCHANGED <<confirmed, hub>> /\ Rest

\* Mutant: the event resumes where it was.
BlobsMissingResumes == /\ pc = "append" /\ answer = "missing"
                       /\ confirmed' = confirmed \ attach[cur]
                       /\ GiveUpFor(from)
                       /\ UNCHANGED hub /\ Rest

\* AUDIT_MISSING_BLOBS: forget what was confirmed and upload again.
BlobsMissing == /\ pc = "append" /\ answer = "missing"
                /\ confirmed' = confirmed \ attach[cur]
                /\ GiveUpFor("PENDING_BLOBS")
                /\ UNCHANGED hub /\ Rest

Refused == /\ pc = "append" /\ answer = "reject"
           /\ GiveUpForGood
           /\ UNCHANGED <<confirmed, hub>> /\ Rest

\* A timeout, a lost connection or a transient error code.  The Hub may have
\* answered already, or may still get to the request.
Unanswered == IF pc = "append" /\ answer = "none" THEN {cur} ELSE {}

\* Mutant: a request that was sent counts as accepted.
AppendFailsAcks == /\ pc = "append"
                   /\ MarkAcked(cur) /\ Done
                   /\ late' = late \cup Unanswered
                   /\ UNCHANGED <<confirmed, hubBlobs, hubEvents>> /\ Rest

AppendFails == /\ pc = "append"
               /\ GiveUpFor(from)
               /\ late' = late \cup Unanswered
               /\ UNCHANGED <<confirmed, hubBlobs, hubEvents>> /\ Rest

\* The process dies and a new one opens the same database.  A PUT under way
\* may have reached the Hub.
Crash ==
  /\ crashes < MaxCrashes
  /\ crashes' = crashes + 1
  /\ late' = late \cup Unanswered
  /\ \/ UNCHANGED hubBlobs
     \/ \E b \in todo \cap missing : hubBlobs' = hubBlobs \cup {b}
  /\ pc' = "idle" /\ snap' = [e \in Event |-> "none"] /\ cur' = 0
  /\ from' = "PENDING_BLOBS" /\ todo' = {} /\ missing' = {} /\ answer' = "none"
  /\ UNCHANGED <<durable, hubEvents, forgets>>
-----------------------------------------------------------------------------
(* The Hub, as the worker's calls reveal it *)

\* Appending is idempotent by event id and needs every blob.
HubTakes(e) == e \in hubEvents \/ attach[e] \subseteq hubBlobs

HubAnswers ==
  /\ pc = "append" /\ answer = "none"
  /\ answer' = IF HubTakes(cur) THEN "ok" ELSE "missing"
  /\ hubEvents' = IF HubTakes(cur) THEN hubEvents \cup {cur} ELSE hubEvents
  /\ UNCHANGED <<durable, pc, snap, cur, from, todo, missing, hubBlobs, late>>
  /\ Rest

HubRefuses ==
  /\ pc = "append" /\ answer = "none" /\ cur \in Rejectable
  /\ answer' = "reject"
  /\ UNCHANGED <<durable, pc, snap, cur, from, todo, missing, hub>> /\ Rest

LateAppend(e) ==
  /\ e \in late
  /\ late' = late \ {e}
  /\ hubEvents' = IF HubTakes(e) THEN hubEvents \cup {e} ELSE hubEvents
  /\ UNCHANGED <<durable, worker, hubBlobs, forgets, crashes>>

\* A blob no accepted event references may go.
HubForgets(b) ==
  /\ forgets < MaxForgets
  /\ b \in hubBlobs /\ \A e \in hubEvents : b \notin attach[e]
  /\ forgets' = forgets + 1
  /\ hubBlobs' = hubBlobs \ {b}
  /\ UNCHANGED <<durable, worker, hubEvents, late, crashes>>
-----------------------------------------------------------------------------
\* What the lane does with its current event.
Processing ==
  \/ Prepared \/ PrepareFails \/ PrepareRefused
  \/ \E b \in Blob : BlobPresent(b) \/ Put(b) \/ PutFails(b) \/ PutRefused(b)
  \/ Uploaded \/ SendAppend \/ SendBlocked
  \/ Acked \/ BlobsMissing \/ Refused \/ AppendFails

Environment ==
  \/ HubAnswers \/ HubRefuses
  \/ \E e \in Event : LateAppend(e) \/ BecomeDue(e)
  \/ \E b \in Blob : HubForgets(b)
  \/ Crash

Next == \/ Record
        \/ \E E \in SUBSET Event : Replay(E)
        \/ ListDue
        \/ \E e \in Event : Begin(e)
        \/ Processing
        \/ Environment

Spec == Init /\ [][Next]_vars
-----------------------------------------------------------------------------
(* Properties *)

\* An event is marked ACKED only once the Hub holds it (outbox.md, section 4:
\* only the final ACK moves a row to ACKED).
AckedAtHub == \A e \in Event : state[e] = "ACKED" => e \in hubEvents

\* listDue hands out a snapshot that is worked off over many awaits, and the
\* writes of #transition do not look at the row they overwrite.  What the
\* snapshot said of an event still holds when its turn comes.
SnapshotHolds ==
  \A e \in Event : snap[e] # "none" => Waiting(e) /\ Phase(e) = snap[e]

\* An AUDIT_MISSING_BLOBS answer to one event unconfirms blobs that other
\* events share.  An event that will not upload again itself, because it
\* resumes at its append, has another event that will, or that an operator
\* can make do so.
UnconfirmedHasUploader ==
  \A e \in Event : \A b \in attach[e] \ confirmed :
    Waiting(e) /\ Phase(e) = "PENDING_APPEND" =>
      \E f \in Event : /\ b \in attach[f]
                       /\ \/ Waiting(f) /\ Phase(f) = "PENDING_BLOBS"
                          \/ state[f] = "DEAD_LETTER"

Settled(e) == state[e] \in {"ACKED", "DEAD_LETTER"}

\* Every recorded event is acknowledged or quarantined in the end (AUD-002:
\* events that were not acknowledged are sent again after a Hub outage).
EverySettles == \A e \in Event : state[e] # "NONE" ~> Settled(e)

\* The rows implement the promise of AuditDelivery.
Status == [e \in Event |-> IF state[e] = "NONE" THEN "absent"
                           ELSE IF state[e] = "ACKED" THEN "delivered"
                           ELSE IF state[e] = "DEAD_LETTER" THEN "quarantined"
                           ELSE "queued"]

Delivery == INSTANCE AuditDelivery WITH status <- Status, accepted <- hubEvents

DeliverySpec == Delivery!Spec
-----------------------------------------------------------------------------
(* The inductive strengthening.  What is not in the checked invariants is   *)
(* what the local variables of #process say of the rows while it awaits.    *)

\* Rows are numbered 1..recorded, and the Hub only hears of rows.
RowsExist == /\ \A e \in Event : state[e] = "NONE" <=> e > recorded
             /\ hubEvents \cup late \subseteq 1..recorded

\* The event in #process is still waiting, in the phase #process is in, and
\* is not handed out a second time by the same batch.
CurrentWaits ==
  IF pc = "idle" THEN cur = 0
  ELSE /\ cur \in 1..recorded
       /\ Waiting(cur)
       /\ snap[cur] = "none"
       /\ IF pc \in {"prepare", "upload"}
            THEN Phase(cur) = "PENDING_BLOBS" /\ from = "PENDING_BLOBS"
            ELSE Phase(cur) = "PENDING_APPEND"

\* A blob that #uploadBlobs went through is confirmed; when it went through
\* all of them in this very pass, the append finds them confirmed.
UploadProgress ==
  /\ pc = "upload" => attach[cur] \ todo \subseteq confirmed
  /\ pc \in {"send", "append"} /\ from = "PENDING_BLOBS" => BlobsConfirmed(cur)

\* A success the worker is about to act on is the Hub's.
AnswerTrue == answer = "ok" => pc = "append" /\ cur \in hubEvents

IInv == /\ TypeOK /\ RowsExist /\ CurrentWaits /\ UploadProgress /\ AnswerTrue
        /\ AckedAtHub /\ SnapshotHolds /\ UnconfirmedHasUploader
=============================================================================
