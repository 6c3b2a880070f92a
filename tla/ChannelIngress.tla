--------------------------- MODULE ChannelIngress ---------------------------
(***************************************************************************)
(* How a provider message enters a lane: the driver's                      *)
(* channel.message.received over the lane socket, DurableChannelHandler,   *)
(* LaneOutbox.record with its blob spool, and RuntimeInbox.enqueueChannel. *)
(*                                                                         *)
(* One connection handles its frames one after the other; a driver that    *)
(* registers again leaves its previous connection draining, so two         *)
(* handlers of the same driver may be under way.  The outbox and the       *)
(* runtime inbox are two SQLite files: no transaction spans them.          *)
(***************************************************************************)
EXTENDS Naturals, FiniteSets

CONSTANTS Conn,       \* connections of the driver
          Inbound,    \* provider events, by dedup key
          Message,    \* provider messages
          MessageOf,  \* the message each provider event is about
          Blob,
          BlobsOf,    \* the attachments of each provider event
          MaxSends,   \* bound: requests the driver makes
          MaxCrashes, \* bound: restarts of the daemon
          InboxFails  \* may the write to runtime.sqlite3 fail

ASSUME IngressAssumption ==
  /\ MessageOf \in [Inbound -> Message]
  /\ BlobsOf \in [Inbound -> SUBSET Blob]
  /\ MaxSends \in Nat /\ MaxCrashes \in Nat
  /\ InboxFails \in BOOLEAN

VARIABLES
  rows,      \* outbox events: [id, key]
  spool,     \* blobs linked under their content key
  turns,     \* runtime turns: [message, row]
  nextRow,
  pc,        \* the await each connection's handler is at
  req,       \* the provider event it handles
  todo,      \* attachments not ingested yet
  found,     \* the row it is about to answer with, 0 when none
  dup,       \* the `duplicate` it is about to answer
  answered,  \* accepted responses the driver received
  broken,    \* history: events whose handler stopped between the two databases
  sends, crashes

durable == <<rows, spool, turns, nextRow>>
handler == <<pc, req, todo, found, dup>>
vars    == <<durable, handler, answered, broken, sends, crashes>>

RowId  == Nat \ {0}
Row    == [id : RowId, key : Inbound]
Turn   == [message : Message, row : RowId]
Answer == [key : Inbound, row : RowId, duplicate : BOOLEAN]

\* Every variable has the shape of its table, frame or local; what is answered
\* names a row by its number, never no row.
TypeOK ==
  /\ rows \subseteq Row /\ spool \subseteq Blob /\ turns \subseteq Turn
  /\ nextRow \in RowId
  /\ pc \in [Conn -> {"idle", "capacity", "ingest", "committed", "reply"}]
  /\ req \in [Conn -> Inbound]
  /\ todo \in [Conn -> SUBSET Blob]
  /\ found \in [Conn -> Nat]
  /\ dup \in [Conn -> BOOLEAN]
  /\ answered \subseteq Answer /\ broken \subseteq Inbound
  /\ sends \in 0..MaxSends /\ crashes \in 0..MaxCrashes

Init ==
  /\ rows = {} /\ spool = {} /\ turns = {} /\ nextRow = 1
  /\ pc = [c \in Conn |-> "idle"] /\ req \in [Conn -> Inbound]
  /\ \A c, d \in Conn : req[c] = req[d]
  /\ todo = [c \in Conn |-> {}] /\ found = [c \in Conn |-> 0]
  /\ dup = [c \in Conn |-> FALSE]
  /\ answered = {} /\ broken = {} /\ sends = 0 /\ crashes = 0
-----------------------------------------------------------------------------
FindByDedupKey(p) == {r \in rows : r.key = p}

\* The handler of c goes on to `at`, to answer with row id and duplicate d.
Proceed(c, at, id, d) == /\ pc' = [pc EXCEPT ![c] = at]
                         /\ found' = [found EXCEPT ![c] = id]
                         /\ dup' = [dup EXCEPT ![c] = d]

\* The handler answers with an error, or nobody hears its answer.
Leave(c) == Proceed(c, "idle", 0, FALSE) /\ todo' = [todo EXCEPT ![c] = {}]

\* Mutant: the duplicate is answered without the row it is of.
ReceiveForgetsRow(c, p) ==
  /\ pc[c] = "idle" /\ sends < MaxSends
  /\ \A d \in Conn : pc[d] # "committed"
  /\ sends' = sends + 1
  /\ req' = [req EXCEPT ![c] = p]
  /\ \/ FindByDedupKey(p) # {} /\ Proceed(c, "reply", 0, TRUE)
     \/ FindByDedupKey(p) = {} /\ Proceed(c, "capacity", 0, FALSE)
  /\ UNCHANGED <<durable, todo, answered, broken, crashes>>

\* handle() up to its first await.  Between the commit and onAccepted there is
\* no I/O to wait for, so no frame comes in there (but a crash may).
Receive(c, p) ==
  /\ pc[c] = "idle" /\ sends < MaxSends
  /\ \A d \in Conn : pc[d] # "committed"
  /\ sends' = sends + 1
  /\ req' = [req EXCEPT ![c] = p]
  /\ \/ \E r \in FindByDedupKey(p) : Proceed(c, "reply", r.id, TRUE)
     \/ FindByDedupKey(p) = {} /\ Proceed(c, "capacity", 0, FALSE)
  /\ UNCHANGED <<durable, todo, answered, broken, crashes>>

\* Mutant: dedup_key is not UNIQUE.
InsertAnyway(c) ==
  /\ rows' = rows \cup {[id |-> nextRow, key |-> req[c]]}
  /\ nextRow' = nextRow + 1
  /\ Proceed(c, "committed", nextRow, FALSE)

\* The transaction that ends record(); dedup_key is UNIQUE.
Insert(c) ==
  /\ FindByDedupKey(req[c]) = {}
  /\ rows' = rows \cup {[id |-> nextRow, key |-> req[c]]}
  /\ nextRow' = nextRow + 1
  /\ Proceed(c, "committed", nextRow, FALSE)

\* Mutant: the row is committed before the attachments are in the spool.
HasCapacityFirst(c) ==
  /\ pc[c] = "capacity"
  /\ \/ /\ \E r \in FindByDedupKey(req[c]) : Proceed(c, "committed", r.id, FALSE)
        /\ UNCHANGED <<rows, nextRow>>
     \/ Insert(c)
  /\ UNCHANGED <<spool, turns, req, todo, answered, broken, sends, crashes>>

\* record() after the await of summary(): the key is looked up once more.
HasCapacity(c) ==
  /\ pc[c] = "capacity"
  /\ \/ /\ \E r \in FindByDedupKey(req[c]) : Proceed(c, "committed", r.id, FALSE)
        /\ UNCHANGED <<rows, nextRow, todo>>
     \/ /\ BlobsOf[req[c]] = {} /\ Insert(c)
        /\ UNCHANGED todo
     \/ /\ BlobsOf[req[c]] # {} /\ FindByDedupKey(req[c]) = {}
        /\ todo' = [todo EXCEPT ![c] = BlobsOf[req[c]]]
        /\ Proceed(c, "ingest", 0, FALSE)
        /\ UNCHANGED <<rows, nextRow>>
  /\ UNCHANGED <<spool, turns, req, answered, broken, sends, crashes>>

\* One await of BlobSpool.ingest, which links the flushed copy.
Ingest(c, b) ==
  /\ pc[c] = "ingest" /\ b \in todo[c]
  /\ spool' = spool \cup {b}
  /\ todo' = [todo EXCEPT ![c] = @ \ {b}]
  /\ UNCHANGED <<rows, turns, nextRow, pc, req, found, dup, answered, broken,
                 sends, crashes>>

Commit(c) ==
  /\ pc[c] = "ingest" /\ todo[c] = {}
  /\ Insert(c)
  /\ UNCHANGED <<spool, turns, req, todo, answered, broken, sends, crashes>>

\* The same event was committed over the other connection meanwhile.
CommitConflicts(c) ==
  /\ pc[c] = "ingest" /\ todo[c] = {}
  /\ FindByDedupKey(req[c]) # {}
  /\ Leave(c)
  /\ UNCHANGED <<durable, req, answered, broken, sends, crashes>>

\* Capacity reached, an attachment refused, or the disk failing.
RecordFails(c) ==
  /\ pc[c] \in {"capacity", "ingest"}
  /\ Leave(c)
  /\ UNCHANGED <<durable, req, answered, broken, sends, crashes>>

\* Mutant: a turn is queued for every event.
EnqueueEach(c) ==
  /\ pc[c] = "committed"
  /\ Proceed(c, "reply", found[c], FALSE)
  /\ turns' = turns \cup {[message |-> MessageOf[req[c]], row |-> found[c]]}
  /\ UNCHANGED <<rows, spool, nextRow, req, todo, answered, broken, sends, crashes>>

\* Mutant: the event is published before it is committed.
EnqueueEarly(c) ==
  /\ pc[c] \in {"ingest", "committed"}
  /\ Proceed(c, IF pc[c] = "ingest" THEN "ingest" ELSE "reply", found[c], FALSE)
  /\ turns' = IF \E t \in turns : t.message = MessageOf[req[c]] THEN turns
              ELSE turns \cup {[message |-> MessageOf[req[c]], row |-> nextRow]}
  /\ UNCHANGED <<rows, spool, nextRow, req, todo, answered, broken, sends, crashes>>

\* onAccepted: enqueueChannel, one turn for each provider message.
Enqueue(c) ==
  /\ pc[c] = "committed"
  /\ Proceed(c, "reply", found[c], FALSE)
  /\ turns' = IF \E t \in turns : t.message = MessageOf[req[c]] THEN turns
              ELSE turns \cup {[message |-> MessageOf[req[c]], row |-> found[c]]}
  /\ UNCHANGED <<rows, spool, nextRow, req, todo, answered, broken, sends, crashes>>

\* Mutant: a turn that could not be queued does not fail the request.
EnqueueFailsUnseen(c) ==
  /\ InboxFails /\ pc[c] = "committed"
  /\ Proceed(c, "reply", found[c], FALSE)
  /\ UNCHANGED <<durable, req, todo, answered, broken, sends, crashes>>

\* The inbox cannot be written: the driver hears DURABILITY_FAILED, but the
\* row stays committed.
EnqueueFails(c) ==
  /\ InboxFails /\ pc[c] = "committed"
  /\ Leave(c)
  /\ broken' = broken \cup {req[c]}
  /\ UNCHANGED <<durable, req, answered, sends, crashes>>

Reply(c) ==
  /\ pc[c] = "reply"
  /\ answered' = answered \cup
       {[key |-> req[c], row |-> found[c], duplicate |-> dup[c]]}
  /\ Leave(c)
  /\ UNCHANGED <<durable, req, broken, sends, crashes>>

ReplyLost(c) ==
  /\ pc[c] = "reply"
  /\ Leave(c)
  /\ UNCHANGED <<durable, req, answered, broken, sends, crashes>>

Crash ==
  /\ crashes < MaxCrashes
  /\ crashes' = crashes + 1
  /\ broken' = broken \cup {req[c] : c \in {d \in Conn : pc[d] = "committed"}}
  /\ pc' = [c \in Conn |-> "idle"] /\ todo' = [c \in Conn |-> {}]
  /\ found' = [c \in Conn |-> 0] /\ dup' = [c \in Conn |-> FALSE]
  /\ UNCHANGED <<durable, req, answered, sends>>

\* What the handler of c does once it has a request.
Handle(c) == \/ HasCapacity(c) \/ Commit(c) \/ CommitConflicts(c)
             \/ RecordFails(c) \/ Enqueue(c) \/ EnqueueFails(c)
             \/ Reply(c) \/ ReplyLost(c)
             \/ \E b \in Blob : Ingest(c, b)

Next == \/ \E c \in Conn : Handle(c) \/ \E p \in Inbound : Receive(c, p)
        \/ Crash

Spec == Init /\ [][Next]_vars

\* A handler that started runs on; drivers and crashes are not obliged.
FairSpec == Spec /\ \A c \in Conn : WF_vars(Handle(c))
-----------------------------------------------------------------------------
HasTurn(p) == \E t \in turns : t.message = MessageOf[p]

\* CHAN-003: an accepted message, attachments included, is in durable storage,
\* whatever crashed or raced since.
AcceptedIsDurable ==
  \A a \in answered : /\ [id |-> a.row, key |-> a.key] \in rows
                      /\ BlobsOf[a.key] \subseteq spool

\* Every acceptance of a provider event names the same audit event, over both
\* connections and across restarts (local-channel-protocol.md, section 5).
SameAnswer == \A a, b \in answered : a.key = b.key => a.row = b.row

\* No provider message becomes two runtime turns, though its events have
\* different dedup keys and the two databases check different ones.
OneTurnPerMessage == \A t, u \in turns : t.message = u.message => t = u

\* A turn's reply target is the correlation of an audited message: the runtime
\* never works on a message that is not in the outbox.
TurnIsAudited ==
  \A t \in turns : \E r \in rows : r.id = t.row /\ MessageOf[r.key] = t.message

\* A message the driver was told is accepted has its turn, unless a handler
\* stopped between the two databases.
AcceptedHasTurnUnlessBroken ==
  \A a \in answered : HasTurn(a.key) \/ a.key \in broken

\* The parts of the inductive invariant.  The row a handler is about to answer
\* with is the row of its request.
FoundIsCommitted ==
  \A c \in Conn : pc[c] \in {"committed", "reply"} =>
    [id |-> found[c], key |-> req[c]] \in rows

\* Two look-ups and the UNIQUE key leave one row for each provider event.
OneRowPerEvent == \A r, s \in rows : r.key = s.key => r = s

\* A row names only files that are in the spool, and what record() still has to
\* ingest is all that may be missing.
RowsHaveBlobs == \A r \in rows : BlobsOf[r.key] \subseteq spool
IngestProgress ==
  \A c \in Conn : pc[c] = "ingest" => BlobsOf[req[c]] \ todo[c] \subseteq spool

\* A committed event has its turn, or a handler is just about to queue it, or
\* stopped between the two databases; one that answers is past that point.
Published(p) == HasTurn(p) \/ p \in broken
RowsPublished ==
  \A r \in rows : \/ Published(r.key)
                  \/ \E c \in Conn : pc[c] = "committed" /\ req[c] = r.key
RepliesPublished == \A c \in Conn : pc[c] = "reply" => Published(req[c])

\* Inductive: implies the safety properties above.
IInv ==
  /\ TypeOK
  /\ FoundIsCommitted /\ OneRowPerEvent
  /\ RowsHaveBlobs /\ IngestProgress
  /\ RowsPublished /\ RepliesPublished
  /\ AcceptedIsDurable /\ TurnIsAudited /\ OneTurnPerMessage
  /\ AcceptedHasTurnUnlessBroken

\* The two databases and the spool keep the promise of IntakePromise: a row and
\* a turn are made once, in this order, after the attachments, and what the
\* driver is told comes last.
Promise == INSTANCE IntakePromise
  WITH stored <- spool, next <- nextRow, stopped <- broken,
       accepted <- {[id |-> a.row, key |-> a.key] : a \in answered}
IntakeSpec == Promise!Spec

\* An accepted message is published to the runtime queue (outbox.md, section 4,
\* step 7, which follows the acceptance of step 6).
AcceptedReachesRuntime ==
  \A p \in Inbound : (\E a \in answered : a.key = p) ~> HasTurn(p)
=============================================================================
