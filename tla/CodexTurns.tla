----------------------------- MODULE CodexTurns -----------------------------
(***************************************************************************)
(* CodexAppServerAdapter on a unix socket, driven by one RuntimeWorker:    *)
(* the child, its WebSocket, the #ready promise that warmUp() and run()    *)
(* share or replace, the requests with their timers, and the one active    *)
(* turn that notifications are matched against.  An operator attached to   *)
(* an app-server runs turns on the same threads.                           *)
(*                                                                         *)
(* A connection is named by the caller whose start opened it and by its    *)
(* server.  What a server sends on one connection arrives in order.        *)
(***************************************************************************)
EXTENDS Naturals

CONSTANTS Job,       \* turns of the inbox the worker runs
          ContextOf, \* the context key of each
          Context,
          Server,    \* processes the app-server may run as
          Thread,
          Operator,  \* stands for the turn id of an operator's turn
          Null,
          MaxBreaks, \* bound: exits of a server and closes of its socket
          MaxOperatorTurns \* bound

Caller == {"warmUp", "run"}
Conn   == Caller \X Server

ASSUME CodexAssumption ==
  /\ ContextOf \in [Job -> Context]
  /\ Operator \notin Job /\ Null \notin Job \cup {Operator} \cup Server \cup Thread \cup Conn
  /\ "failed" \notin Job \cup {Operator, Null}
  /\ MaxBreaks \in Nat /\ MaxOperatorTurns \in Nat

VARIABLES
  server,   \* free, spawned, live (its socket file is bound), dead (exit event not run)
  codex,    \* #child
  path,     \* whose socket file is at the path
  linked,   \* connections, as long as their close is not heard
  socket,   \* #socket
  ready,    \* #ready: none, the start of a caller, or ok
  start,    \* what the #start of each caller waits for
  via,      \* the connection each caller's upgrade or request is under way on
  run,      \* the await of run() and of the worker above it
  warming,  \* the await of warmUp()
  job, thread,  \* what run() works on
  warm,     \* #warmThread
  conv,     \* runtime_conversations
  threads,  \* threads opened
  active,   \* #active: its turn id, lastAgentMessage, and what it was resolved with
  playing,  \* turns that servers run
  outcome,  \* what run() returned for each job
  early,    \* history: jobs that took a message of another turn for theirs
            \* while their turn id was not known
  breaks, operators

appServer == <<server, codex, path, linked, socket>>
starts    == <<ready, start, via, warming>>
runner    == <<run, job, thread, active, outcome, early, conv>>
world     == <<warm, threads, playing, breaks, operators>>
codexVars == <<appServer, starts, runner, world>>

Idle == [on |-> FALSE, id |-> Null, last |-> Null, got |-> Null]
Answers == Job \cup {Operator}

\* Every variable has the shape of its field, promise or map.
CodexTypeOK ==
  /\ server \in [Server -> {"free", "spawned", "live", "dead"}]
  /\ codex \in Server \cup {Null} /\ path \in Server \cup {Null}
  /\ linked \subseteq Conn /\ socket \in Conn \cup {Null}
  /\ ready \in Caller \cup {"none", "ok"}
  /\ start \in [Caller -> {"none", "spawn", "bind", "upgrade", "init"}]
  /\ via \in [Caller -> Conn \cup {Null}]
  /\ run \in {"idle", "ready", "resume", "pick", "start", "turn", "accepted", "answered",
              "await", "interrupt", "reply"}
  /\ warming \in {"off", "ready", "start", "done"}
  /\ job \in Job \cup {Null} /\ thread \in Thread \cup {Null}
  /\ warm \in Thread \cup {Null} /\ threads \subseteq Thread
  /\ conv \in [Context -> Thread \cup {Null}]
  /\ active \in [on : BOOLEAN, id : Job \cup {Null}, last : Answers \cup {Null},
                 got : Answers \cup {Null, "failed"}]
  /\ playing \subseteq [turn : Answers, thread : Thread, on : Server]
  /\ outcome \in [Job -> Answers \cup {Null, "failed"}]
  /\ early \subseteq Job
  /\ breaks \in 0..MaxBreaks /\ operators \in 0..MaxOperatorTurns

CodexInit ==
  /\ server = [s \in Server |-> "free"] /\ codex = Null /\ path = Null
  /\ linked = {} /\ socket = Null
  /\ ready = "none" /\ start = [c \in Caller |-> "none"] /\ via = [c \in Caller |-> Null]
  /\ run = "idle" /\ warming = "off"
  /\ job = Null /\ thread = Null /\ warm = Null /\ threads = {}
  /\ conv = [k \in Context |-> Null] /\ active = Idle /\ playing = {}
  /\ outcome = [j \in Job |-> Null] /\ early = {} /\ breaks = 0 /\ operators = 0
-----------------------------------------------------------------------------
\* #write: to the socket; without one to a pipe that nobody reads; without a
\* child it throws.
Written == IF codex = Null THEN Null ELSE socket

\* What is under way for c can be answered.
Answerable(c) == via[c] \in linked /\ server[via[c][2]] = "live"

\* run() ends for its job with what x says, and the worker goes on to reply;
\* #active is cleared.
Finishes(x) ==
  /\ outcome' = [outcome EXCEPT ![job] = x]
  /\ IF x = "failed" THEN run' = "idle" /\ job' = Null /\ thread' = Null
                     ELSE run' = "reply" /\ UNCHANGED <<job, thread>>
  /\ active' = Idle
  /\ UNCHANGED <<early, conv>>

\* A rejected request: of thread/resume, run() goes on; of turn/interrupt, it
\* is the deadline that counts; of any other, run() throws.
Rejected == \/ run = "resume" /\ run' = "pick"
               /\ UNCHANGED <<job, thread, active, outcome, early, conv>>
            \/ run \in {"start", "turn", "accepted", "interrupt"} /\ Finishes("failed")

\* run() waits for the start of c: for its own, or else for that of warmUp().
RunWaits(c) == run = "ready" /\ (c = "run" \/ start["run"] = "none")

\* The start of c rejects, and whoever waits for it fails; #ready is cleared,
\* be it another start by now or one that is over.
StartFails(c) ==
  /\ start' = [start EXCEPT ![c] = "none"] /\ ready' = "none"
  /\ via' = [via EXCEPT ![c] = Null]
  /\ warming' = IF c = "warmUp" THEN "done" ELSE warming
  /\ IF RunWaits(c) THEN Finishes("failed") ELSE UNCHANGED runner

\* #failAll: every pending request rejects, the `initialize` of a start among
\* them, and the active turn ends as failed.  After its thread/resume warmUp()
\* goes on to thread/start.  The starts in C are over too; cleared says that
\* #ready is none already, lost are the starts whose upgrade nobody can answer.
FailAll(C, cleared, lost) ==
  LET gone == C \cup {c \in Caller : start[c] = "init"} IN
  /\ start' = [c \in Caller |-> IF c \in gone THEN "none" ELSE start[c]]
  /\ ready' = IF cleared \/ gone # {} THEN "none" ELSE ready
  /\ \/ warming' = IF "warmUp" \in gone \/ warming = "start" THEN "done" ELSE warming
     \/ warming = "start" /\ UNCHANGED warming
  /\ via' = [c \in Caller |-> IF start[c] = "upgrade" /\ c \notin lost THEN via[c]
                              ELSE IF c = "warmUp" /\ warming' = "start" THEN Written' ELSE Null]
  /\ IF run \in {"resume", "start", "turn", "accepted", "interrupt"} THEN Rejected
     ELSE IF \E c \in gone : RunWaits(c) THEN Finishes("failed")
     ELSE /\ active' = IF active.on /\ active.got = Null
                       THEN [active EXCEPT !.got = "failed"] ELSE active
          /\ UNCHANGED <<run, job, thread, outcome, early, conv>>
-----------------------------------------------------------------------------
\* start() of the worker warms the app-server up and enters the loop.
StartWorker ==
  /\ warming = "off" /\ warming' = "ready"
  /\ ready' = "warmUp" /\ start' = [start EXCEPT !["warmUp"] = "spawn"]
  /\ UNCHANGED <<appServer, runner, world, via>>

\* Once the app-server is ready: back to the stored thread of the context.
StageOf(j) == IF conv[ContextOf[j]] # Null THEN "resume" ELSE "pick"
Request(j) == IF StageOf(j) = "resume" THEN Written ELSE Null

\* The worker takes its next turn; run() goes on, waits for the start there is,
\* or makes one of its own.
Begin(j) ==
  /\ run = "idle" /\ warming # "off" /\ outcome[j] = Null /\ job' = j
  /\ run' = IF ready = "ok" THEN StageOf(j) ELSE "ready"
  /\ via' = IF ready = "ok" THEN [via EXCEPT !["run"] = Request(j)] ELSE via
  /\ IF ready = "none" THEN ready' = "run" /\ start' = [start EXCEPT !["run"] = "spawn"]
                       ELSE UNCHANGED <<ready, start>>
  /\ UNCHANGED <<appServer, world, warming, thread, active, outcome, early, conv>>

\* #start: unlinks the path and spawns.  A server of an earlier start runs on.
Boot(c, s) ==
  /\ start[c] = "spawn" /\ server[s] = "free" /\ ~ \E k \in linked : k[2] = s
  /\ server' = [server EXCEPT ![s] = "spawned"]
  /\ codex' = s /\ path' = Null /\ start' = [start EXCEPT ![c] = "bind"]
  /\ UNCHANGED <<linked, socket, ready, via, warming, runner, world>>

\* The executable cannot be started: the error event, and a child that is not
\* running in #child.
SpawnFails(c) ==
  /\ start[c] = "spawn" /\ codex' = Null /\ path' = Null
  /\ UNCHANGED <<server, linked, socket, world>> /\ FailAll({c}, FALSE, {})

Serves(s) ==
  /\ server[s] = "spawned" /\ path = Null
  /\ server' = [server EXCEPT ![s] = "live"] /\ path' = s
  /\ UNCHANGED <<codex, linked, socket, starts, runner, world>>

\* #connectSocket finds a file at the path, whoever bound it, and connects.
Bind(c) ==
  /\ start[c] = "bind" /\ path # Null /\ server[path] = "live"
  /\ start' = [start EXCEPT ![c] = "upgrade"] /\ via' = [via EXCEPT ![c] = <<c, path>>]
  /\ UNCHANGED <<appServer, ready, warming, runner, world>>

\* 15 s without a file, or one that a dead server left.
BindFails(c) == start[c] = "bind" /\ StartFails(c) /\ UNCHANGED <<appServer, world>>

\* The app-server answers the upgrade; `initialize` is sent, or throws.
Upgrade(c) ==
  /\ start[c] = "upgrade" /\ via[c] # Null /\ server[via[c][2]] = "live"
  /\ linked' = linked \cup {via[c]} /\ socket' = via[c]
  /\ IF codex = Null THEN StartFails(c)
     ELSE start' = [start EXCEPT ![c] = "init"] /\ UNCHANGED <<ready, via, warming, runner>>
  /\ UNCHANGED <<server, codex, path, world>>

\* It refuses, or the socket breaks with an error.  One that says nothing or
\* just closes the connection is waited for.
UpgradeFails(c) == start[c] = "upgrade" /\ StartFails(c) /\ UNCHANGED <<appServer, world>>

\* The start resolves, for warmUp() and run() alike; #ready stays what it is if
\* it is another one by now, or none.
Initialize(c) ==
  /\ start[c] = "init" /\ Answerable(c)
  /\ start' = [start EXCEPT ![c] = "none"] /\ ready' = IF ready = c THEN "ok" ELSE ready
  /\ warming' = IF c = "warmUp" THEN "start" ELSE warming
  /\ run' = IF RunWaits(c) THEN StageOf(job) ELSE run
  /\ via' = [x \in Caller |-> IF x = "run" /\ RunWaits(c) THEN Request(job)
                              ELSE IF x = c THEN Written ELSE via[x]]
  /\ UNCHANGED <<appServer, world, job, thread, active, outcome, early, conv>>

\* 30 s without an answer, or an error.
InitializeTimesOut(c) == start[c] = "init" /\ StartFails(c) /\ UNCHANGED <<appServer, world>>
-----------------------------------------------------------------------------
\* warmUp(): the thread it opens or brings back, or none.
Warmed(th) ==
  /\ warming = "start" /\ Answerable("warmUp") /\ th \notin threads
  /\ warming' = "done" /\ via' = [via EXCEPT !["warmUp"] = Null]
  /\ warm' = th /\ threads' = threads \cup {th}
  /\ UNCHANGED <<appServer, ready, start, runner, playing, breaks, operators>>

\* Its thread/start fails, or its thread/resume, after which it opens one.
WarmFails ==
  /\ warming = "start"
  /\ \/ warming' = "done" /\ via' = [via EXCEPT !["warmUp"] = Null]
     \/ UNCHANGED warming /\ via' = [via EXCEPT !["warmUp"] = Written]
  /\ UNCHANGED <<appServer, ready, start, runner, world>>

\* run() goes on to `at`, where it waits for v.
Step(at, v) == /\ run' = at /\ via' = [via EXCEPT !["run"] = v]
               /\ UNCHANGED <<job, outcome, early, conv, ready, start, warming>>
Rest        == UNCHANGED <<appServer, world>>

TurnStart(th) == Step("turn", Written) /\ thread' = th /\ active' = [Idle EXCEPT !.on = TRUE]

Resumed == run = "resume" /\ Answerable("run") /\ TurnStart(conv[ContextOf[job]]) /\ Rest

\* The warm thread, before another is opened.
Pick ==
  /\ run = "pick"
  /\ IF warm # Null THEN TurnStart(warm) ELSE Step("start", Written) /\ UNCHANGED <<thread, active>>
  /\ Rest

Opened(th) ==
  /\ run = "start" /\ Answerable("run") /\ th \notin threads
  /\ TurnStart(th) /\ threads' = threads \cup {th}
  /\ UNCHANGED <<appServer, warm, playing, breaks, operators>>

\* The app-server begins the turn; its response is under way, and is read
\* before anything of the turn.
Plays ==
  /\ run = "turn" /\ Answerable("run") /\ Step("accepted", via["run"])
  /\ playing' = playing \cup {[turn |-> job, thread |-> thread, on |-> via["run"][2]]}
  /\ UNCHANGED <<appServer, thread, active, warm, threads, breaks, operators>>

Responds ==
  /\ run = "accepted" /\ Answerable("run") /\ Step("answered", Null)
  /\ UNCHANGED <<thread, active>> /\ Rest

\* run() goes on, after whatever else came with the response.
Started ==
  /\ run = "answered" /\ Step("await", Null)
  /\ active' = [active EXCEPT !.id = job] /\ UNCHANGED thread /\ Rest

Rejects == /\ Rejected /\ via' = [via EXCEPT !["run"] = Null]
           /\ UNCHANGED <<ready, start, warming>> /\ Rest

\* Mutant: a request has no timer: it fails only with its connection.
RequestWaits == ~Answerable("run") /\ Rejects

\* 30 s without an answer, an error, or nobody to write to.
RequestFails == Rejects

OperatorPlays(th, s) ==
  /\ server[s] = "live" /\ th \in threads /\ operators < MaxOperatorTurns
  /\ operators' = operators + 1
  /\ playing' = playing \cup {[turn |-> Operator, thread |-> th, on |-> s]}
  /\ UNCHANGED <<appServer, starts, runner, warm, threads, breaks>>

\* A notification about p is read while the turn of run() is open.  That turn
\* itself sends none before its response is read.
Notified(p) ==
  /\ \E c \in Caller : <<c, p.on>> \in linked
  /\ active.on /\ active.got = Null /\ (p.turn = job => run # "accepted")

\* Taking p for the own turn, before the id of that is known.
Mistaken(p) == IF active.id = Null /\ p.turn # job THEN early \cup {job} ELSE early

Ours(p) == p.thread = thread /\ active.id \in {Null, p.turn}

\* item/completed with an agent message: of the thread and, once it is known,
\* of the turn.
ItemCompleted(p) ==
  /\ Notified(p) /\ Ours(p)
  /\ active' = [active EXCEPT !.last = p.turn] /\ early' = Mistaken(p)
  /\ UNCHANGED <<appServer, starts, run, job, thread, outcome, conv, world>>

\* turn/completed resolves the active turn when m says it is about it: with the
\* agent message it carries, else the last one read, or with a failure.
Completion(p, m) ==
  /\ playing' = playing \ {p} /\ (p.turn = job => run # "accepted")
  /\ IF Notified(p) /\ m
     THEN /\ \E x \in {p.turn, "failed", IF active.last = Null THEN "failed" ELSE active.last} :
               active' = [active EXCEPT !.got = x]
          /\ early' = Mistaken(p)
     ELSE UNCHANGED <<active, early>>
  /\ UNCHANGED <<appServer, starts, run, job, thread, outcome, conv, warm, threads,
                 breaks, operators>>

\* Mutant: a notification is matched by its thread alone.
CompletedOfThread(p) == Completion(p, p.thread = thread)

Completed(p) == Completion(p, Ours(p))

\* The race of withAbort: the completion, or the abort once its request is over.
Returns ==
  /\ run \in {"await", "interrupt"} /\ active.got # Null
  /\ Finishes(active.got) /\ via' = [via EXCEPT !["run"] = Null]
  /\ UNCHANGED <<ready, start, warming>> /\ Rest

Deadline ==
  /\ run = "await" /\ active.got = Null
  /\ Step("interrupt", Written) /\ UNCHANGED <<thread, active>> /\ Rest

\* The answer to turn/interrupt.  The end of the turn may come after it.
Interrupted ==
  /\ run = "interrupt" /\ Answerable("run")
  /\ playing' \in {playing, {p \in playing : p.turn # job}}
  /\ Finishes("failed") /\ via' = [via EXCEPT !["run"] = Null]
  /\ UNCHANGED <<appServer, ready, start, warming, warm, threads, breaks, operators>>

\* The worker keeps the conversation once the reply went through.
Replies(sent) ==
  /\ run = "reply" /\ run' = "idle" /\ job' = Null /\ thread' = Null
  /\ conv' = IF sent THEN [conv EXCEPT ![ContextOf[job]] = thread] ELSE conv
  /\ UNCHANGED <<starts, active, outcome, early>> /\ Rest
-----------------------------------------------------------------------------
Exit(s) ==
  /\ server[s] \in {"spawned", "live"} /\ breaks < MaxBreaks /\ breaks' = breaks + 1
  /\ server' = [server EXCEPT ![s] = "dead"]
  /\ playing' = {p \in playing : p.on # s}
  /\ UNCHANGED <<codex, path, linked, socket, starts, runner, warm, threads, operators>>

\* The exit event.  A start that waits for the file polls on; one that waits for
\* the upgrade goes on waiting, with nobody at the other end.
ExitEvent(s) ==
  LET abandoned == {c \in Caller : start[c] = "upgrade" /\ via[c] = <<c, s>>} IN
  /\ server[s] = "dead" /\ server' = [server EXCEPT ![s] = "free"]
  /\ codex' = IF codex = s THEN Null ELSE codex
  /\ path' = IF path = s THEN Null ELSE path
  /\ UNCHANGED <<linked, socket, world>>
  /\ FailAll({}, codex = s, abandoned)

\* The socket closes: with its server, or under a server that goes on.  Either
\* way #socket is cleared, whichever connection it is.
SocketCloses(k) ==
  /\ k \in linked
  /\ \/ server[k[2]] # "live" /\ UNCHANGED breaks
     \/ server[k[2]] = "live" /\ breaks < MaxBreaks /\ breaks' = breaks + 1
  /\ linked' = linked \ {k} /\ socket' = Null
  /\ UNCHANGED <<server, codex, path, warm, threads, playing, operators>>
  /\ FailAll({}, FALSE, {})

CodexNext ==
  \/ StartWorker \/ WarmFails \/ Resumed \/ Pick \/ Plays \/ Responds \/ Started
  \/ RequestFails \/ Returns \/ Deadline \/ Interrupted \/ Replies(TRUE) \/ Replies(FALSE)
  \/ \E j \in Job : Begin(j)
  \/ \E c \in Caller : \/ SpawnFails(c) \/ Bind(c) \/ BindFails(c) \/ Upgrade(c) \/ UpgradeFails(c)
                        \/ Initialize(c) \/ InitializeTimesOut(c)
                        \/ \E s \in Server : Boot(c, s)
  \/ \E s \in Server : Serves(s) \/ Exit(s) \/ ExitEvent(s)
  \/ \E k \in linked : SocketCloses(k)
  \/ \E th \in Thread : Warmed(th) \/ Opened(th) \/ \E s \in Server : OperatorPlays(th, s)
  \/ \E p \in playing : ItemCompleted(p) \/ Completed(p)

CodexSpec == CodexInit /\ [][CodexNext]_codexVars

\* Every request has a timer, a turn a deadline and the polling of the path an
\* end; an exit is heard.  That anything succeeds is never assumed, nor that an
\* upgrade is answered: nothing limits it (ws-unix-client.ts:111-152).
CodexFairness ==
  /\ \A c \in Caller :
       /\ WF_codexVars(SpawnFails(c) \/ \E s \in Server : Boot(c, s))
       /\ WF_codexVars(Bind(c) \/ BindFails(c))
       /\ WF_codexVars(Initialize(c) \/ InitializeTimesOut(c))
  /\ \A s \in Server : WF_codexVars(ExitEvent(s))
  /\ WF_codexVars(Pick) /\ WF_codexVars(Responds \/ RequestFails) /\ WF_codexVars(Started)
  /\ WF_codexVars(Returns) /\ WF_codexVars(Deadline) /\ WF_codexVars(Replies(TRUE) \/ Replies(FALSE))
-----------------------------------------------------------------------------
\* What run() returns for a turn is the answer of that turn, and never that of
\* an operator's turn or of one that timed out, on whatever thread they run,
\* while its connection is replaced, closed or answers late: unless a message
\* or the end of the other turn came before its own turn id was known
\* (codex-app-server.ts:369 and 392), in which case even its own completion may
\* return the other's message (402).
AnswerIsOwn == \A j \in Job : outcome[j] \in Answers => outcome[j] = j \/ j \in early

\* run() waits for an upgrade, of its own start or of that of warmUp().
Unanswered == \E c \in Caller : start[c] = "upgrade" /\ RunWaits(c)

\* A turn the worker took comes to an end, whatever servers and sockets do,
\* and the loop takes the next: unless some server leaves the WebSocket upgrade
\* unanswered for ever, which no timer of the adapter or the worker ends.
RunEnds == []<>(run = "idle") \/ <>[]Unanswered
=============================================================================
