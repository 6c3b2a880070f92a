---------------------------- MODULE ReplyDelivery ----------------------------
(***************************************************************************)
(* How a runtime's reply reaches the provider: RuntimeWorker takes a turn  *)
(* of the inbox, AgentMeshDaemon.#reply audits and reserves the action and *)
(* asks the driver to post it, a timer sends the actions that stayed       *)
(* pending once more, and the Discord driver posts.                        *)
(*                                                                         *)
(* The worker and the drain share one event loop: a step is what runs      *)
(* between two awaits.  The driver is a process of its own with its own    *)
(* action table.  Turns are the channel turns of one lane, in the order of *)
(* created_at, their actions (act-<turn id>) in the same order.            *)
(***************************************************************************)
EXTENDS Naturals, FiniteSets

CONSTANTS NTurns,      \* bound: turns of the lane
          Answer,      \* what the runtime may answer
          ErrorText,   \* the text sent when it fails
          NoText,
          DrainLimit,  \* LIMIT of listPendingActions, 20 in the code
          Dead,        \* turns whose driver was removed
          NSlots,      \* bound: requests at the driver at one time
          MaxLosses,   \* bound: timeouts, lost connections, failed posts
          MaxRestarts, \* bound: stops and crashes of the daemon
          AuditFails   \* may record() refuse (capacity) or fail

Turn == 1..NTurns
Slot == 1..NSlots
Text == Answer \cup {ErrorText}

ASSUME ReplyAssumption ==
  /\ NTurns \in Nat /\ NSlots \in Nat \ {0} /\ DrainLimit \in Nat \ {0}
  /\ ErrorText \notin Answer /\ NoText \notin Text
  /\ Dead \subseteq Turn
  /\ MaxLosses \in Nat /\ MaxRestarts \in Nat /\ AuditFails \in BOOLEAN

VARIABLES
  turn, response,     \* runtime.sqlite3: state and response of each turn
  requested,          \* outbox: text of the channel.outbound.requested event
  outcome,            \* outbox: text of the channel.outbound.succeeded event
  action, stored,     \* delivery_outcomes: state and text of request_json
  aged,               \* its updated_at is 5 s ago
  wpc, item, text,    \* the worker: the await it is at, its turn, its reply
  apology,            \* ... which is the error reply
  stopping,           \* worker.stop() was called
  dpc, list,          \* the drain: the await it is at, the rest of its list
  calls,              \* requests at the driver, and for whom they are
  driver,             \* the driver's own table: state of each action
  posts,              \* texts the provider accepted for each action ...
  twice,              \* ... and the actions it accepted more than once
  connected,
  losses, restarts

durable == <<turn, response, requested, outcome, action, stored>>
worker  == <<wpc, item, text, apology>>
drain   == <<dpc, list>>
outside == <<driver, posts, twice>>
bounds  == <<losses, restarts>>
vars    == <<durable, aged, worker, stopping, drain, calls, outside, connected, bounds>>

Free == [at |-> "free", turn |-> 0, text |-> NoText, for |-> "nobody"]
\* An answer that nobody waits for any more does not wait either.
Call == [at : {"sent", "post", "posted"}, turn : Turn, text : Text,
         for : {"worker", "drain", "nobody"}]
   \cup [at : {"ok", "error"}, turn : Turn, text : Text, for : {"worker", "drain"}]
   \cup {Free}

\* Every variable has the shape of its table or local, and an answer is kept only
\* for a sender that still waits (#pending of the lane server).
TypeOK ==
  /\ turn \in [Turn -> {"PENDING", "RUNNING", "COMPLETED", "FAILED"}]
  /\ response \in [Turn -> Text \cup {NoText}]
  /\ requested \in [Turn -> Text \cup {NoText}]
  /\ outcome \in [Turn -> Text \cup {NoText}]
  /\ action \in [Turn -> {"NONE", "PENDING", "SUCCEEDED"}]
  /\ stored \in [Turn -> Text \cup {NoText}]
  /\ aged \in [Turn -> BOOLEAN]
  /\ wpc \in {"idle", "run", "record", "reserve", "wait", "confirm"}
  /\ item \in 0..NTurns /\ text \in Text \cup {NoText}
  /\ apology \in BOOLEAN /\ stopping \in BOOLEAN
  /\ dpc \in {"idle", "wait", "confirm"} /\ list \subseteq Turn
  /\ calls \in [Slot -> Call]
  /\ driver \in [Turn -> {"NONE", "PENDING", "SUCCEEDED"}]
  /\ posts \in [Turn -> SUBSET Text] /\ twice \subseteq Turn
  /\ connected \in BOOLEAN
  /\ losses \in 0..MaxLosses /\ restarts \in 0..MaxRestarts

Init ==
  /\ turn = [t \in Turn |-> "PENDING"] /\ response = [t \in Turn |-> NoText]
  /\ requested = [t \in Turn |-> NoText] /\ outcome = [t \in Turn |-> NoText]
  /\ action = [t \in Turn |-> "NONE"] /\ stored = [t \in Turn |-> NoText]
  /\ aged = [t \in Turn |-> FALSE]
  /\ wpc = "idle" /\ item = 0 /\ text = NoText /\ apology = FALSE
  /\ stopping = FALSE /\ dpc = "idle" /\ list = {}
  /\ calls = [k \in Slot |-> Free]
  /\ driver = [t \in Turn |-> "NONE"] /\ posts = [t \in Turn |-> {}]
  /\ twice = {} /\ connected = TRUE /\ losses = 0 /\ restarts = 0
-----------------------------------------------------------------------------
(* LaneServer.requestDriver *)

IsFirst(t, T) == t \in T /\ \A u \in T : t <= u

\* getDriver answers: the driver of t's channel is registered.
Reachable(t) == connected /\ t \notin Dead

Issue(who, t, x) ==
  \E k \in Slot :
    /\ calls[k] = Free /\ \A j \in Slot : j < k => calls[j] # Free
    /\ calls' = [calls EXCEPT
         ![k] = [at |-> "sent", turn |-> t, text |-> x, for |-> who]]

Awaited(who, at) == {k \in Slot : calls[k].for = who /\ calls[k].at = at}

Lose == losses < MaxLosses /\ losses' = losses + 1 /\ UNCHANGED restarts
-----------------------------------------------------------------------------
(* RuntimeWorker.#runTurn with AgentMeshDaemon.#reply *)

SetTurn(t, s, x) == /\ turn' = [turn EXCEPT ![t] = s]
                    /\ response' = [response EXCEPT ![t] = x]

Rest == wpc' = "idle" /\ item' = 0 /\ text' = NoText /\ apology' = FALSE

\* The catch block: fail the turn and send the error reply, unless this is the
\* error reply or the worker is stopping.
GiveUp ==
  IF apology THEN Rest /\ UNCHANGED <<turn, response>>
  ELSE /\ SetTurn(item, "FAILED", NoText)
       /\ IF stopping THEN Rest
          ELSE /\ wpc' = "record" /\ text' = ErrorText /\ apology' = TRUE
               /\ UNCHANGED item

Outbox == <<requested, outcome, action, stored, aged>>
Others == <<stopping, drain, outside, connected, bounds>>

Start ==
  /\ wpc = "idle" /\ ~stopping
  /\ \E t \in Turn : /\ IsFirst(t, {u \in Turn : turn[u] = "PENDING"})
                    /\ SetTurn(t, "RUNNING", NoText) /\ item' = t
  /\ wpc' = "run"
  /\ UNCHANGED <<text, apology, Outbox, calls, Others>>

Runs(a) ==
  /\ wpc = "run" /\ text' = a /\ wpc' = "record"
  /\ UNCHANGED <<turn, response, item, apology, Outbox, calls, Others>>

\* The adapter throws, times out, is stopped, or answers nothing.
RunFails == wpc = "run" /\ GiveUp /\ UNCHANGED <<Outbox, calls, Others>>

\* Mutant: the intent of the last run is the one on record.
RecordLatest ==
  /\ wpc = "record" /\ wpc' = "reserve"
  /\ requested' = [requested EXCEPT ![item] = text]
  /\ UNCHANGED <<turn, response, outcome, action, stored, aged, item, text,
                 apology, calls, Others>>

\* record() of the intent, by the key runtime-reply:<turn id>.
RecordRequest ==
  /\ wpc = "record" /\ wpc' = "reserve"
  /\ requested' = [requested EXCEPT ![item] = IF @ = NoText THEN text ELSE @]
  /\ UNCHANGED <<turn, response, outcome, action, stored, aged, item, text,
                 apology, calls, Others>>

RecordFails == AuditFails /\ wpc = "record" /\ GiveUp /\ UNCHANGED <<Outbox, calls, Others>>

\* requestDriver, or its refusal when no driver is registered.
Request == IF Reachable(item)
             THEN /\ Issue("worker", item, text) /\ wpc' = "wait"
                  /\ UNCHANGED <<turn, response, item, text, apology>>
             ELSE GiveUp /\ UNCHANGED calls

\* Mutant: a reservation starts over.
ReserveAfresh ==
  /\ wpc = "reserve"
  /\ action' = [action EXCEPT ![item] = "PENDING"]
  /\ stored' = [stored EXCEPT ![item] = text]
  /\ aged' = [aged EXCEPT ![item] = FALSE]
  /\ Request
  /\ UNCHANGED <<requested, outcome, Others>>

\* reserveAction: a new action is sent, so is one that has no result yet, and
\* one that has a result is only confirmed.
Reserve ==
  /\ wpc = "reserve"
  /\ \/ /\ action[item] = "NONE"
        /\ action' = [action EXCEPT ![item] = "PENDING"]
        /\ stored' = [stored EXCEPT ![item] = text]
        /\ Request
     \/ /\ action[item] = "PENDING"
        /\ Request
        /\ UNCHANGED <<action, stored>>
     \/ /\ action[item] = "SUCCEEDED"
        /\ wpc' = "confirm"
        /\ UNCHANGED <<turn, response, item, text, apology, calls, action, stored>>
  /\ UNCHANGED <<requested, outcome, aged, Others>>

WorkerAnswered ==
  /\ wpc = "wait"
  /\ \E k \in Awaited("worker", "ok") : calls' = [calls EXCEPT ![k] = Free]
  /\ action' = [action EXCEPT ![item] = "SUCCEEDED"]
  /\ wpc' = "confirm"
  /\ UNCHANGED <<turn, response, requested, outcome, stored, aged, item, text,
                 apology, Others>>

WorkerRefused ==
  /\ wpc = "wait"
  /\ \E k \in Awaited("worker", "error") : calls' = [calls EXCEPT ![k] = Free]
  /\ GiveUp /\ UNCHANGED <<Outbox, Others>>

\* The 30 s are over; what the driver answers later is dropped.
Forget(who) == [k \in Slot |-> IF calls[k].for # who THEN calls[k]
                               ELSE IF calls[k].at \in {"ok", "error"} THEN Free
                               ELSE [calls[k] EXCEPT !.for = "nobody"]]

WorkerTimesOut ==
  /\ wpc = "wait" /\ Lose /\ calls' = Forget("worker") /\ GiveUp
  /\ UNCHANGED <<Outbox, stopping, drain, outside, connected>>

\* record() of the outcome, by the key delivery-success:<action id>.
AuditOutcome(t, x) ==
  outcome' = [outcome EXCEPT ![t] = IF @ = NoText THEN x ELSE @]

WorkerConfirms ==
  /\ wpc = "confirm" /\ AuditOutcome(item, text) /\ Rest
  /\ IF apology /\ turn[item] = "COMPLETED" THEN UNCHANGED <<turn, response>>
     ELSE SetTurn(item, "COMPLETED", text)
  /\ UNCHANGED <<requested, action, stored, aged, calls, Others>>

WorkerConfirmFails ==
  AuditFails /\ wpc = "confirm" /\ GiveUp /\ UNCHANGED <<Outbox, calls, Others>>
-----------------------------------------------------------------------------
(* AgentMeshDaemon.#drainPendingDeliveries *)

Inbox == <<turn, response>>
Rest2 == <<stopping, worker, outside, connected>>

\* Five seconds pass since updated_at.
Age(t) == /\ action[t] = "PENDING" /\ ~aged[t]
          /\ aged' = [aged EXCEPT ![t] = TRUE]
          /\ UNCHANGED <<durable, worker, stopping, drain, calls, outside,
                         connected, bounds>>

Overdue == {t \in Turn : action[t] = "PENDING" /\ aged[t]}

\* Mutant: the limit is off by one.
OldestShort == {t \in Overdue : Cardinality({u \in Overdue : u < t}) < DrainLimit - 1}

\* ORDER BY created_at LIMIT DrainLimit
Oldest == {t \in Overdue : Cardinality({u \in Overdue : u < t}) < DrainLimit}

DrainLists ==
  /\ dpc = "idle" /\ list = {} /\ ~stopping
  /\ Oldest # {} /\ list' = Oldest
  /\ UNCHANGED <<durable, aged, dpc, calls, Rest2, bounds>>

DrainSends ==
  /\ dpc = "idle"
  /\ \E t \in list :
       /\ IsFirst(t, list)
       /\ IF Reachable(t) THEN Issue("drain", t, stored[t]) /\ dpc' = "wait"
                               /\ UNCHANGED list
          ELSE list' = list \ {t} /\ UNCHANGED <<dpc, calls>>
  /\ UNCHANGED <<durable, aged, Rest2, bounds>>

Skip == dpc' = "idle" /\ \E t \in list : IsFirst(t, list) /\ list' = list \ {t}

DrainAnswered ==
  /\ dpc = "wait"
  /\ \E k \in Awaited("drain", "ok") : calls' = [calls EXCEPT ![k] = Free]
  /\ \E t \in list : IsFirst(t, list) /\ action' = [action EXCEPT ![t] = "SUCCEEDED"]
  /\ dpc' = "confirm"
  /\ UNCHANGED <<turn, response, requested, outcome, stored, aged, list, Rest2, bounds>>

DrainRefused ==
  /\ dpc = "wait"
  /\ \E k \in Awaited("drain", "error") : calls' = [calls EXCEPT ![k] = Free]
  /\ Skip /\ UNCHANGED <<durable, aged, Rest2, bounds>>

DrainTimesOut ==
  /\ dpc = "wait" /\ Lose /\ calls' = Forget("drain") /\ Skip
  /\ UNCHANGED <<durable, aged, Rest2>>

\* Mutant: a turn that failed meanwhile stays failed.
DrainConfirmsRunning ==
  /\ dpc = "confirm"
  /\ \E t \in list :
       /\ IsFirst(t, list) /\ AuditOutcome(t, stored[t])
       /\ IF turn[t] # "RUNNING" THEN UNCHANGED Inbox
          ELSE SetTurn(t, "COMPLETED", stored[t])
  /\ Skip
  /\ UNCHANGED <<requested, action, stored, aged, calls, Rest2, bounds>>

DrainConfirms ==
  /\ dpc = "confirm"
  /\ \E t \in list :
       /\ IsFirst(t, list) /\ AuditOutcome(t, stored[t])
       /\ IF turn[t] = "COMPLETED" THEN UNCHANGED Inbox
          ELSE SetTurn(t, "COMPLETED", stored[t])
  /\ Skip
  /\ UNCHANGED <<requested, action, stored, aged, calls, Rest2, bounds>>

DrainConfirmFails ==
  AuditFails /\ dpc = "confirm" /\ Skip /\ UNCHANGED <<durable, aged, calls, Rest2, bounds>>
-----------------------------------------------------------------------------
(* The driver, DiscordDriver.#handleLaneRequest, and the provider *)

Daemon == <<durable, aged, worker, stopping, drain>>

\* Mutant: receiving an action again makes it pending again.
ArriveResets(k) ==
  /\ calls[k].at = "sent"
  /\ driver' = [driver EXCEPT ![calls[k].turn] = "PENDING"]
  /\ calls' = [calls EXCEPT ![k].at = "post"]
  /\ UNCHANGED <<Daemon, posts, twice, connected, bounds>>

\* Only an action that has SUCCEEDED is a duplicate.
Arrive(k) ==
  /\ calls[k].at = "sent"
  /\ LET t == calls[k].turn
     IN  IF driver[t] = "SUCCEEDED"
           THEN /\ calls' = [calls EXCEPT
                     ![k] = IF @.for = "nobody" THEN Free ELSE [@ EXCEPT !.at = "ok"]]
                /\ UNCHANGED driver
           ELSE /\ calls' = [calls EXCEPT ![k].at = "post"]
                /\ driver' = [driver EXCEPT ![t] = "PENDING"]
  /\ UNCHANGED <<Daemon, posts, twice, connected, bounds>>

ProviderPosts(k) ==
  /\ calls[k].at = "post"
  /\ calls' = [calls EXCEPT ![k].at = "posted"]
  /\ LET t == calls[k].turn
     IN  /\ posts' = [posts EXCEPT ![t] = @ \cup {calls[k].text}]
         /\ twice' = IF posts[t] # {} THEN twice \cup {t} ELSE twice
  /\ UNCHANGED <<Daemon, driver, connected, bounds>>

\* Mutant: the answer is kept for a sender that gave up.
AnsweredAlways(k, at) == calls' = [calls EXCEPT ![k].at = at]

Answered(k, at) == calls' = [calls EXCEPT
  ![k] = IF @.for = "nobody" THEN Free ELSE [@ EXCEPT !.at = at]]

PostReturns(k) ==
  /\ calls[k].at = "posted"
  /\ driver' = [driver EXCEPT ![calls[k].turn] = "SUCCEEDED"]
  /\ Answered(k, "ok")
  /\ UNCHANGED <<Daemon, posts, twice, connected, bounds>>

\* Mutant: a post that fails is not reported.
PostFailsQuietly(k) ==
  /\ calls[k].at \in {"post", "posted"} /\ Lose
  /\ Answered(k, "ok")
  /\ UNCHANGED <<Daemon, outside, connected>>

\* The provider refuses, its response is lost, or a later part fails.
PostFails(k) ==
  /\ calls[k].at \in {"post", "posted"} /\ Lose
  /\ Answered(k, "error")
  /\ UNCHANGED <<Daemon, outside, connected>>
-----------------------------------------------------------------------------
(* Lost connections and restarts *)

\* What the requests become when the socket closes: frames that had not been
\* read may be lost, answers are, and handlers that started go on.
Cut(L) == [k \in Slot |->
  IF calls[k].at \in {"ok", "error"} \/ (calls[k].at = "sent" /\ k \in L) THEN Free
  ELSE IF calls[k] = Free THEN Free ELSE [calls[k] EXCEPT !.for = "nobody"]]

SendersFail ==
  /\ IF wpc = "wait" THEN GiveUp ELSE UNCHANGED <<turn, response, worker>>
  /\ IF dpc = "wait" THEN Skip ELSE UNCHANGED drain

Disconnect(L) ==
  /\ connected /\ connected' = FALSE /\ Lose
  /\ calls' = Cut(L) /\ SendersFail
  /\ UNCHANGED <<Outbox, stopping, outside>>

DriverCrash ==
  /\ connected /\ connected' = FALSE /\ Lose
  /\ calls' = [k \in Slot |-> Free] /\ SendersFail
  /\ UNCHANGED <<Outbox, stopping, outside>>

Reconnect == /\ ~connected /\ connected' = TRUE
             /\ UNCHANGED <<Daemon, calls, outside, bounds>>

\* Mutant: initialize() leaves the turns of the last run alone.
ReopenAsIs(L) ==
  /\ wpc' = "idle" /\ item' = 0 /\ text' = NoText /\ apology' = FALSE
  /\ dpc' = "idle" /\ list' = {}
  /\ stopping' = FALSE /\ connected' = FALSE /\ calls' = Cut(L)
  /\ UNCHANGED <<durable, aged, outside, losses>>

\* A new daemon process opens the databases; RuntimeInbox.initialize queues
\* the turns that were running.
Reopen(L) ==
  /\ Rest /\ dpc' = "idle" /\ list' = {}
  /\ stopping' = FALSE /\ connected' = FALSE /\ calls' = Cut(L)
  /\ turn' = [t \in Turn |-> IF turn[t] = "RUNNING" THEN "PENDING" ELSE turn[t]]
  /\ UNCHANGED <<response, Outbox, outside, losses>>

Crash(L) == restarts < MaxRestarts /\ restarts' = restarts + 1 /\ Reopen(L)

Stop == /\ ~stopping /\ restarts < MaxRestarts
        /\ stopping' = TRUE /\ restarts' = restarts + 1
        /\ UNCHANGED <<durable, aged, worker, drain, calls, outside, connected, losses>>

\* stop() waited for the worker; the drain is cut off wherever it is.
Stopped(L) == stopping /\ wpc = "idle" /\ Reopen(L) /\ UNCHANGED restarts
-----------------------------------------------------------------------------
WorkerStep == \/ Start \/ RunFails \/ RecordRequest \/ RecordFails \/ Reserve
              \/ WorkerAnswered \/ WorkerRefused
              \/ WorkerConfirms \/ WorkerConfirmFails
              \/ \E a \in Answer : Runs(a)

DrainStep == \/ DrainLists \/ DrainSends \/ DrainAnswered \/ DrainRefused
             \/ DrainConfirms \/ DrainConfirmFails

DriverStep(k) == Arrive(k) \/ ProviderPosts(k) \/ PostReturns(k)

Trouble == \/ WorkerTimesOut \/ DrainTimesOut \/ DriverCrash \/ Stop
           \/ \E k \in Slot : PostFails(k)
           \/ \E L \in SUBSET Slot : Disconnect(L) \/ Crash(L) \/ Stopped(L)

Next == \/ WorkerStep \/ DrainStep \/ Trouble \/ Reconnect
        \/ \E t \in Turn : Age(t)
        \/ \E k \in Slot : DriverStep(k)

Spec == Init /\ [][Next]_vars

\* Both loops, the clock and the driver run on, the driver reconnects
\* (ChannelProcessSupervisor and the driver's own loop see to it) and a daemon
\* that stops is started again.
Fairness ==
  /\ WF_vars(WorkerStep) /\ WF_vars(DrainStep) /\ WF_vars(Reconnect)
  /\ WF_vars(\E L \in SUBSET Slot : Stopped(L))
  /\ \A t \in Turn : WF_vars(Age(t))
  /\ \A k \in Slot : WF_vars(DriverStep(k))
-----------------------------------------------------------------------------
(* Properties *)

\* A turn is COMPLETED only when the provider took a message for it, whoever
\* of the worker and the drain completed it, before or after whatever restart.
CompletedWasPosted == \A t \in Turn : turn[t] = "COMPLETED" => posts[t] # {}

\* The intent is in the outbox and the action is reserved before the provider
\* hears of it, and an outcome is audited only for an action that succeeded at
\* the driver (local-channel-protocol.md, section 6).
AuditedAround ==
  \A t \in Turn :
    /\ posts[t] # {} => requested[t] # NoText /\ action[t] # "NONE"
    /\ outcome[t] # NoText => action[t] = "SUCCEEDED"
    /\ action[t] = "SUCCEEDED" => driver[t] = "SUCCEEDED"

\* No turn is left RUNNING by a restart, a stop or a drain that raced: only
\* the turn in the worker's hands is RUNNING.
RunningIsWorked == \A t \in Turn : turn[t] = "RUNNING" => item = t /\ wpc # "idle"

\* Once the daemon has recorded the success of an action, no request for it
\* (of a stale drain list, of a turn that runs again after a restart, of one
\* given up and still under way) begins another post; those that were posting
\* by then may end.
SilentAfterSuccess ==
  [][\A k \in Slot : calls[k].at # "post" /\ calls'[k].at = "post" =>
        action[calls[k].turn] # "SUCCEEDED"]_vars

\* Every turn is completed or failed in the end.
TurnSettles ==
  \A t \in Turn : turn[t] = "PENDING" ~> turn[t] \in {"COMPLETED", "FAILED"}

\* The actions of removed drivers stay pending.  They fill the list of the drain
\* before t, as soon as there are DrainLimit of them (lane-outbox.ts:510-521).
Starved(t) == Cardinality({u \in Dead : u < t /\ action[u] = "PENDING"}) >= DrainLimit

\* An action that was reserved is delivered in the end, by the worker or by the
\* drain, over lost connections and restarts and behind others that fill the
\* list and that nobody can deliver: unless its driver was removed, or those
\* leave no room for it.
DeliveredInTheEnd ==
  \A t \in Turn \ Dead : action[t] = "PENDING" ~> action[t] = "SUCCEEDED" \/ Starved(t)

\* Unless the daemon is restarted in between, and where audits do not fail, a
\* turn whose action was delivered is completed in the end, even after the
\* worker gave up waiting and failed it.
DeliveredIsCompleted ==
  \A t \in Turn :
    action[t] = "SUCCEEDED" ~> turn[t] = "COMPLETED" \/ restarts > 0

\* What became of each turn, and of its reply.
Fates == [t \in Turn |->
  CASE turn[t] = "PENDING"   -> "queued"    [] turn[t] = "RUNNING" -> "running"
    [] turn[t] = "COMPLETED" -> "completed" [] turn[t] = "FAILED"  -> "failed"]
Delivered == {t \in Turn : action[t] = "SUCCEEDED"}
Audited == {t \in Turn : outcome[t] # NoText}

\* The inbox, the outbox, the driver and the provider keep the promise of
\* ReplyPromise: the first intent stays on record and precedes every message,
\* a success is final and follows a message, a turn is completed with its
\* outcome, and one turn runs at a time, over every race and restart.
Promise == INSTANCE ReplyPromise
  WITH Reply <- Turn, state <- Fates, intent <- requested, delivered <- Delivered,
       audited <- Audited
ReplySpec == Promise!Spec

\* The provider takes one message for an action however often it is sent
\* (CHAN-004; local-channel-protocol.md, section 6).
OneMessagePerAction == twice = {}
=============================================================================
