---------------------------- MODULE RuntimeProofs ----------------------------
(***************************************************************************)
(* For any finite number of turns, any texts and any number of faults: the *)
(* types of ClaudeTurns and CompletedIsKept.  For any number of turns,     *)
(* contexts, threads and processes of the app-server: the types of         *)
(* CodexTurns and AnswerIsOwn; there a step is looked at for the           *)
(* app-server, the starts, the threads, and run() (RunnerInv).             *)
(***************************************************************************)
EXTENDS ClaudeTurns, CodexTurns, FiniteSetTheorems, TLAPS

\* What the Hub keeps, and what is on its way to it, was given by Claude.
CallsWereGiven == \A c \in calls : c.text \in given[c.turn]
KeptWasGiven   == \A t \in Turn : kept[t] # NoText => kept[t] \in given[t]

\* A completed turn has an answer at the Hub and one of Claude's on record.
CompletedHasBoth == \A t \in Turn :
  row[t] = "COMPLETED" => kept[t] # NoText /\ recorded[t] \in given[t]

TurnsInv == /\ TurnsTypeOK /\ CallsWereGiven /\ KeptWasGiven /\ CompletedHasBoth

\* The inductive invariant holds at the start.
LEMMA TurnsInitInv == TurnsInit => TurnsInv
BY TurnsAssumption DEF TurnsInit, TurnsInv, TurnsTypeOK, RowState, CallsWereGiven, KeptWasGiven,
   CompletedHasBoth

\* Every step of the inbox, the control methods, the session and the Hub keeps it.
LEMMA TurnsStep == TurnsInv /\ [TurnsNext]_turnsVars => TurnsInv'
<1> SUFFICES ASSUME TurnsInv, [TurnsNext]_turnsVars PROVE TurnsInv'
  OBVIOUS
<1> USE TurnsAssumption DEF TurnsInv, TurnsTypeOK, RowState, CallsWereGiven, KeptWasGiven,
        CompletedHasBoth, inbox, replies
<1>1. ASSUME NEW t \in Turn, Arrive(t) PROVE TurnsInv'
  <2>1. Cardinality({u \in Turn : row[u] # "none"}) \in Nat
    BY FS_Subset, FS_CardinalityType
  <2> QED BY <1>1, <2>1 DEF Arrive
<1>2. ASSUME NEW t \in Turn, Claim(t) PROVE TurnsInv'
  BY <1>2 DEF Claim
<1>3. ASSUME NEW t \in Turn, Tell(t) PROVE TurnsInv'
  BY <1>3 DEF Tell
<1>4. ASSUME NEW t \in Turn, Fail(t) PROVE TurnsInv'
  BY <1>4 DEF Fail
<1>5. ASSUME NEW t \in Turn, NEW x \in Text, Reply(t, x) PROVE TurnsInv'
  BY <1>5 DEF Reply
<1>6. ASSUME NEW c \in calls, HubKeeps(c) PROVE TurnsInv'
  BY <1>6 DEF HubKeeps
<1>7. ASSUME NEW c \in calls, Sent(c) PROVE TurnsInv'
  BY <1>7 DEF Sent, Complete
<1>8. ASSUME NEW c \in calls, SendFails(c) PROVE TurnsInv'
  BY <1>8 DEF SendFails
<1>9. CASE GatesEnd \/ PersonAnswers
  BY <1>9 DEF GatesEnd, PersonAnswers
<1>10. CASE SessionExits \/ RuntimeStart
  BY <1>10 DEF SessionExits, RuntimeStart, AfterStart, Loses
<1>11. CASE RestartDaemon
  BY <1>11 DEF RestartDaemon, DaemonRestarts, AfterStart
<1>12. CASE UNCHANGED turnsVars
  BY <1>12 DEF turnsVars
<1> QED BY <1>1, <1>2, <1>3, <1>4, <1>5, <1>6, <1>7, <1>8, <1>9, <1>10, <1>11, <1>12 DEF TurnsNext

\* The inductive invariant holds for any finite number of turns, of texts,
\* faults and replies under way (agent-mesh-daemon.ts:581-685, inbox.ts:134).
THEOREM TurnsInvariant == TurnsSpec => []TurnsInv
<1>1. TurnsInit => TurnsInv
  BY TurnsInitInv
<1>2. TurnsInv /\ [TurnsNext]_turnsVars => TurnsInv'
  BY TurnsStep
<1> QED BY <1>1, <1>2, PTL DEF TurnsSpec

\* The inbox, the requests under way and the session keep their types.
THEOREM TurnsTypes == TurnsSpec => []TurnsTypeOK
<1>1. TurnsInv => TurnsTypeOK
  BY DEF TurnsInv
<1> QED BY <1>1, TurnsInvariant, PTL

\* A turn is completed only with an answer the Hub keeps, the recorded one if
\* Claude gave no other, whatever is retried, failed or restarted in between.
THEOREM CompletedStaysKept == TurnsSpec => []CompletedIsKept
<1>1. TurnsInv => CompletedIsKept
  BY DEF TurnsInv, CompletedHasBoth, KeptWasGiven, CompletedIsKept
<1> QED BY <1>1, TurnsInvariant, PTL
-----------------------------------------------------------------------------
Stages == {"idle", "ready", "resume", "pick", "start", "turn", "accepted", "answered",
           "await", "interrupt", "reply"}

AppTypes ==
  /\ server \in [Server -> {"free", "spawned", "live", "dead"}]
  /\ codex \in Server \cup {Null} /\ path \in Server \cup {Null}
  /\ linked \subseteq Conn /\ socket \in Conn \cup {Null}

StartTypes ==
  /\ ready \in Caller \cup {"none", "ok"}
  /\ start \in [Caller -> {"none", "spawn", "bind", "upgrade", "init"}]
  /\ via \in [Caller -> Conn \cup {Null}]
  /\ warming \in {"off", "ready", "start", "done"}

WorldTypes ==
  /\ warm \in Thread \cup {Null} /\ threads \subseteq Thread
  /\ playing \subseteq [turn : Answers, thread : Thread, on : Server]
  /\ breaks \in 0..MaxBreaks /\ operators \in 0..MaxOperatorTurns

RunnerTypes ==
  /\ run \in Stages
  /\ job \in Job \cup {Null} /\ thread \in Thread \cup {Null}
  /\ conv \in [Context -> Thread \cup {Null}]
  /\ active \in [on : BOOLEAN, id : Job \cup {Null}, last : Answers \cup {Null},
                 got : Answers \cup {Null, "failed"}]
  /\ outcome \in [Job -> Answers \cup {Null, "failed"}]
  /\ early \subseteq Job

\* run() has a job, and the thread its stage needs; before the first and after
\* the end of a run() there is no active turn.
RunnerWorks ==
  /\ run \in {"idle", "reply"} => active = Idle
  /\ run # "idle" => job \in Job
  /\ run = "resume" => conv[ContextOf[job]] # Null
  /\ run = "turn" => thread # Null

\* The active turn is matched by the id of the job; what was read of it, and
\* what it was resolved with, is the job's, or was taken for the job's before
\* the id was known.
ActiveIsOwn ==
  /\ active.id \in {Null, job}
  /\ active.last \in Answers => active.last = job \/ job \in early
  /\ active.got \in Answers => active.got = job \/ job \in early

RunnerInv == RunnerTypes /\ RunnerWorks /\ ActiveIsOwn /\ AnswerIsOwn

CodexInv == AppTypes /\ StartTypes /\ WorldTypes /\ RunnerInv
-----------------------------------------------------------------------------
\* An adapter that nothing was asked of satisfies the invariant.
LEMMA CodexInitInv == CodexInit => CodexInv
BY CodexAssumption
DEF CodexInit, CodexInv, AppTypes, StartTypes, WorldTypes, RunnerInv, RunnerTypes, RunnerWorks,
    ActiveIsOwn, AnswerIsOwn, Stages, Idle, Answers, Caller

\* run() ends with a failure or with what its active turn was resolved with.
LEMMA FinishKeeps ==
  ASSUME RunnerInv, NEW x, x \in {"failed", active.got}, x # Null, run # "idle", Finishes(x)
  PROVE  RunnerInv'
BY CodexAssumption
DEF RunnerInv, RunnerTypes, RunnerWorks, ActiveIsOwn, AnswerIsOwn, Stages, Idle, Answers, Finishes

\* A rejected request leads on to a new thread, or ends run() as failed.
LEMMA RejectedKeeps ==
  ASSUME RunnerInv, Rejected
  PROVE  RunnerInv'
<1>1. CASE run = "resume" /\ run' = "pick" /\ UNCHANGED <<job, thread, active, outcome, early, conv>>
  BY <1>1 DEF RunnerInv, RunnerTypes, RunnerWorks, ActiveIsOwn, AnswerIsOwn, Stages
<1>2. CASE run \in {"start", "turn", "accepted", "interrupt"} /\ Finishes("failed")
  BY <1>2, FinishKeeps, CodexAssumption
<1> QED BY <1>1, <1>2 DEF Rejected

\* The steps that leave run() alone.
LEMMA RunnerRests == ASSUME RunnerInv, UNCHANGED runner PROVE RunnerInv'
BY DEF RunnerInv, RunnerTypes, RunnerWorks, ActiveIsOwn, AnswerIsOwn, runner

\* The end of a server or of a socket fails what is under way, and nothing else.
LEMMA FailAllKeeps ==
  ASSUME RunnerInv, NEW C, NEW cleared, NEW lost, FailAll(C, cleared, lost)
  PROVE  RunnerInv'
<1> DEFINE gone == C \cup {c \in Caller : start[c] = "init"}
<1>1. CASE run \in {"resume", "start", "turn", "accepted", "interrupt"}
  BY <1>1, RejectedKeeps DEF FailAll
<1>2. CASE run \notin {"resume", "start", "turn", "accepted", "interrupt"} /\ \E c \in gone : RunWaits(c)
  BY <1>2, FinishKeeps, CodexAssumption DEF FailAll, RunWaits
<1>3. CASE run \notin {"resume", "start", "turn", "accepted", "interrupt"} /\ ~ \E c \in gone : RunWaits(c)
  <2>1. /\ active' = IF active.on /\ active.got = Null THEN [active EXCEPT !.got = "failed"] ELSE active
        /\ UNCHANGED <<run, job, thread, outcome, early, conv>>
    BY <1>3 DEF FailAll
  <2>2. CASE active' = active
    BY <2>1, <2>2, RunnerRests DEF runner
  <2>3. CASE active.on /\ active' = [active EXCEPT !.got = "failed"]
    BY <2>1, <2>3, CodexAssumption
    DEF RunnerInv, RunnerTypes, RunnerWorks, ActiveIsOwn, AnswerIsOwn, Stages, Idle, Answers
  <2> QED BY <2>1, <2>2, <2>3
<1> QED BY <1>1, <1>2, <1>3

\* A failed start ends run() if run() waits for it.
LEMMA StartFailsKeeps ==
  ASSUME RunnerInv, NEW c \in Caller, StartFails(c)
  PROVE  RunnerInv'
<1>1. CASE RunWaits(c)
  BY <1>1, FinishKeeps, CodexAssumption DEF StartFails, RunWaits
<1>2. CASE ~RunWaits(c)
  BY <1>2, RunnerRests DEF StartFails
<1> QED BY <1>1, <1>2

\* A turn begins on a thread, with nothing known of it yet.
LEMMA TurnStartKeeps ==
  ASSUME RunnerInv, run \notin {"idle", "reply"}, NEW th \in Thread, TurnStart(th)
  PROVE  RunnerInv'
BY CodexAssumption
DEF TurnStart, Step, RunnerInv, RunnerTypes, RunnerWorks, ActiveIsOwn, AnswerIsOwn, Stages, Idle, Answers
-----------------------------------------------------------------------------
\* What is written goes to the socket, or nowhere.
LEMMA WrittenType == ASSUME AppTypes PROVE Written \in Conn \cup {Null}
BY DEF AppTypes, Written

\* A failed start, and the end of a server or of a socket, keep the types of the
\* starts and of what they wait for.
LEMMA StartFailsTypes == ASSUME StartTypes, NEW c \in Caller, StartFails(c) PROVE StartTypes'
BY DEF StartTypes, StartFails

LEMMA FailAllTypes ==
  ASSUME StartTypes, AppTypes', NEW C, NEW cleared, NEW lost, FailAll(C, cleared, lost)
  PROVE  StartTypes'
<1>1. Written' \in Conn \cup {Null}
  BY DEF AppTypes, Written
<1> QED BY <1>1 DEF StartTypes, FailAll

\* No step leaves the types of the servers, sockets and their files.
LEMMA AppStep == ASSUME CodexInv, [CodexNext]_codexVars PROVE AppTypes'
<1> USE DEF CodexInv, AppTypes, appServer, Rest
<1>1. CASE \/ StartWorker \/ WarmFails \/ Resumed \/ Pick \/ Plays \/ Responds \/ Started
           \/ RequestFails \/ Returns \/ Deadline \/ Interrupted \/ Replies(TRUE) \/ Replies(FALSE)
           \/ \E j \in Job : Begin(j)
           \/ \E th \in Thread : Warmed(th) \/ Opened(th) \/ \E s \in Server : OperatorPlays(th, s)
           \/ \E p \in playing : ItemCompleted(p) \/ Completed(p)
           \/ \E c \in Caller : Bind(c) \/ BindFails(c) \/ UpgradeFails(c) \/ Initialize(c)
                                \/ InitializeTimesOut(c)
           \/ UNCHANGED codexVars
  BY <1>1
  DEF StartWorker, WarmFails, Resumed, Pick, Plays, Responds, Started, RequestFails, Rejects, Returns,
      Deadline, Interrupted, Replies, Begin, Warmed, Opened, OperatorPlays, ItemCompleted, Completed,
      Completion, Bind, BindFails, UpgradeFails, Initialize, InitializeTimesOut, codexVars
<1>2. ASSUME NEW c \in Caller, SpawnFails(c) PROVE AppTypes'
  BY <1>2 DEF SpawnFails
<1>3. ASSUME NEW c \in Caller, Upgrade(c) PROVE AppTypes'
  BY <1>3 DEF Upgrade, StartTypes
<1>4. ASSUME NEW c \in Caller, NEW s \in Server, Boot(c, s) PROVE AppTypes'
  BY <1>4 DEF Boot
<1>5. ASSUME NEW s \in Server, Serves(s) \/ Exit(s) \/ ExitEvent(s) PROVE AppTypes'
  BY <1>5 DEF Serves, Exit, ExitEvent
<1>6. ASSUME NEW k \in linked, SocketCloses(k) PROVE AppTypes'
  BY <1>6 DEF SocketCloses
<1> QED BY <1>1, <1>2, <1>3, <1>4, <1>5, <1>6 DEF CodexNext

\* No step leaves the types of the starts and of the requests.
LEMMA StartStep == ASSUME CodexInv, [CodexNext]_codexVars PROVE StartTypes'
<1>1. StartTypes /\ AppTypes /\ Written \in Conn \cup {Null} /\ AppTypes'
  BY AppStep, WrittenType DEF CodexInv
<1>2. \A j \in Job : Request(j) \in Conn \cup {Null}
  BY <1>1 DEF Request
<1> USE <1>1 DEF Caller
<1>3. CASE \/ Replies(TRUE) \/ Replies(FALSE)
           \/ \E s \in Server : Exit(s) \/ Serves(s)
           \/ \E th \in Thread, s \in Server : OperatorPlays(th, s)
           \/ \E p \in playing : ItemCompleted(p) \/ Completed(p)
           \/ UNCHANGED codexVars
  BY <1>3 DEF StartTypes, Serves, Replies, Exit, OperatorPlays, ItemCompleted, Completed, Completion,
              starts, codexVars
<1>4. CASE StartWorker \/ WarmFails \/ RequestFails \/ Returns \/ Interrupted
  BY <1>4 DEF StartTypes, StartWorker, WarmFails, RequestFails, Rejects, Returns, Interrupted
<1>5. CASE Resumed \/ Pick \/ Plays \/ Responds \/ Started \/ Deadline \/ \E th \in Thread : Opened(th)
  BY <1>5 DEF StartTypes, Resumed, Pick, Plays, Responds, Started, Deadline, Opened, TurnStart, Step
<1>6. ASSUME NEW j \in Job, Begin(j) PROVE StartTypes'
  BY <1>2, <1>6 DEF StartTypes, Begin
<1>7. ASSUME NEW c \in Caller, BindFails(c) \/ UpgradeFails(c) \/ InitializeTimesOut(c) PROVE StartTypes'
  BY <1>7, StartFailsTypes DEF BindFails, UpgradeFails, InitializeTimesOut
<1>8. ASSUME NEW c \in Caller, SpawnFails(c) PROVE StartTypes'
  BY <1>8, FailAllTypes DEF SpawnFails
<1>9. ASSUME NEW c \in Caller, Bind(c) PROVE StartTypes'
  <2>1. <<c, path>> \in Conn
    BY <1>9 DEF Bind, AppTypes, Conn
  <2> QED BY <1>9, <2>1 DEF StartTypes, Bind
<1>10. ASSUME NEW c \in Caller, Upgrade(c) PROVE StartTypes'
  BY <1>10, StartFailsTypes DEF StartTypes, Upgrade
<1>11. ASSUME NEW c \in Caller, Initialize(c) PROVE StartTypes'
  <2>1. RunWaits(c) => job \in Job
    BY DEF CodexInv, RunnerInv, RunnerWorks, RunWaits
  <2> QED BY <1>2, <1>11, <2>1 DEF StartTypes, Initialize
<1>12. ASSUME NEW c \in Caller, NEW s \in Server, Boot(c, s) PROVE StartTypes'
  BY <1>12 DEF StartTypes, Boot
<1>13. ASSUME NEW s \in Server, ExitEvent(s) PROVE StartTypes'
  BY <1>13, FailAllTypes DEF ExitEvent
<1>14. ASSUME NEW k \in linked, SocketCloses(k) PROVE StartTypes'
  BY <1>14, FailAllTypes DEF SocketCloses
<1>15. ASSUME NEW th \in Thread, Warmed(th) PROVE StartTypes'
  BY <1>15 DEF StartTypes, Warmed
<1> QED BY <1>3, <1>4, <1>5, <1>6, <1>7, <1>8, <1>9, <1>10, <1>11, <1>12, <1>13, <1>14, <1>15
        DEF CodexNext

\* No step leaves the types of the threads and turns of the servers.
LEMMA WorldStep == ASSUME CodexInv, [CodexNext]_codexVars PROVE WorldTypes'
<1> USE CodexAssumption DEF CodexInv, WorldTypes, world, Rest
<1>1. CASE \/ StartWorker \/ WarmFails \/ Resumed \/ Pick \/ Responds \/ Started
           \/ RequestFails \/ Returns \/ Deadline \/ Replies(TRUE) \/ Replies(FALSE)
           \/ \E j \in Job : Begin(j)
           \/ \E c \in Caller : \/ SpawnFails(c) \/ Bind(c) \/ BindFails(c) \/ Upgrade(c)
                                \/ UpgradeFails(c) \/ Initialize(c) \/ InitializeTimesOut(c)
                                \/ \E s \in Server : Boot(c, s)
           \/ \E s \in Server : Serves(s) \/ ExitEvent(s)
           \/ UNCHANGED codexVars
  BY <1>1
  DEF StartWorker, WarmFails, Resumed, Pick, Responds, Started, RequestFails, Rejects, Returns,
      Deadline, Replies, Begin, SpawnFails, Bind, BindFails, Upgrade, UpgradeFails, Initialize,
      InitializeTimesOut, Boot, Serves, ExitEvent, codexVars
<1>2. CASE Plays
  <2>1. via["run"] \in Caller \X Server /\ job \in Job /\ thread \in Thread
    BY <1>2 DEF Plays, Answerable, AppTypes, Conn, RunnerInv, RunnerTypes, RunnerWorks
  <2>2. [turn |-> job, thread |-> thread, on |-> via["run"][2]]
          \in [turn : Answers, thread : Thread, on : Server]
    BY <2>1 DEF Answers
  <2> QED BY <1>2, <2>2 DEF Plays
<1>3. CASE Interrupted
  BY <1>3 DEF Interrupted
<1>4. ASSUME NEW s \in Server, Exit(s) PROVE WorldTypes'
  <2>1. breaks' \in 0..MaxBreaks
    BY <1>4 DEF Exit
  <2> QED BY <1>4, <2>1 DEF Exit
<1>5. ASSUME NEW k \in linked, SocketCloses(k) PROVE WorldTypes'
  <2>1. breaks' \in 0..MaxBreaks
    BY <1>5 DEF SocketCloses
  <2> QED BY <1>5, <2>1 DEF SocketCloses
<1>6. ASSUME NEW th \in Thread, Warmed(th) \/ Opened(th) PROVE WorldTypes'
  BY <1>6 DEF Warmed, Opened
<1>7. ASSUME NEW th \in Thread, NEW s \in Server, OperatorPlays(th, s) PROVE WorldTypes'
  <2>1. operators' \in 0..MaxOperatorTurns
    BY <1>7 DEF OperatorPlays
  <2> QED BY <1>7, <2>1 DEF OperatorPlays, Answers
<1>8. ASSUME NEW p \in playing, ItemCompleted(p) \/ Completed(p) PROVE WorldTypes'
  BY <1>8 DEF ItemCompleted, Completed, Completion
<1> QED BY <1>1, <1>2, <1>3, <1>4, <1>5, <1>6, <1>7, <1>8 DEF CodexNext

\* No step lets run() take the answer of another turn for its own, once the id
\* of its turn is known.
LEMMA RunnerStep == ASSUME CodexInv, [CodexNext]_codexVars PROVE RunnerInv'
<1> USE DEF CodexInv
<1>1. CASE \/ StartWorker \/ WarmFails
           \/ \E c \in Caller : Bind(c) \/ \E s \in Server : Boot(c, s)
           \/ \E s \in Server : Serves(s) \/ Exit(s)
           \/ \E th \in Thread : Warmed(th) \/ \E s \in Server : OperatorPlays(th, s)
           \/ UNCHANGED codexVars
  BY <1>1, RunnerRests
  DEF StartWorker, WarmFails, Bind, Boot, Serves, Exit, Warmed, OperatorPlays, codexVars
<1>2. ASSUME NEW c \in Caller, BindFails(c) \/ UpgradeFails(c) \/ InitializeTimesOut(c) PROVE RunnerInv'
  BY <1>2, StartFailsKeeps DEF BindFails, UpgradeFails, InitializeTimesOut
<1>3. ASSUME NEW c \in Caller, SpawnFails(c) PROVE RunnerInv'
  BY <1>3, FailAllKeeps DEF SpawnFails
<1>4. ASSUME NEW c \in Caller, Upgrade(c) PROVE RunnerInv'
  BY <1>4, StartFailsKeeps, RunnerRests DEF Upgrade
<1>5. ASSUME NEW c \in Caller, Initialize(c) PROVE RunnerInv'
  BY <1>5
  DEF Initialize, RunWaits, StageOf, RunnerInv, RunnerTypes, RunnerWorks, ActiveIsOwn, AnswerIsOwn, Stages
<1>6. CASE Resumed
  <2>1. conv[ContextOf[job]] \in Thread
    BY <1>6, CodexAssumption DEF Resumed, RunnerInv, RunnerTypes, RunnerWorks
  <2> QED BY <1>6, <2>1, TurnStartKeeps DEF Resumed
<1>7. CASE Pick
  <2>1. CASE warm # Null
    BY <1>7, <2>1, TurnStartKeeps DEF Pick, WorldTypes
  <2>2. CASE warm = Null
    BY <1>7, <2>2
    DEF Pick, Step, RunnerInv, RunnerTypes, RunnerWorks, ActiveIsOwn, AnswerIsOwn, Stages
  <2> QED BY <2>1, <2>2
<1>8. CASE Plays \/ Responds \/ Deadline
  BY <1>8 DEF Plays, Responds, Deadline, Step, RunnerInv, RunnerTypes, RunnerWorks, ActiveIsOwn,
              AnswerIsOwn, Stages
<1>9. CASE Started
  BY <1>9 DEF Started, Step, RunnerInv, RunnerTypes, RunnerWorks, ActiveIsOwn, AnswerIsOwn, Stages
<1>10. CASE RequestFails
  BY <1>10, RejectedKeeps DEF RequestFails, Rejects
<1>11. CASE Returns \/ Interrupted
  BY <1>11, FinishKeeps, CodexAssumption DEF Returns, Interrupted
<1>12. CASE Replies(TRUE) \/ Replies(FALSE)
  BY <1>12, CodexAssumption
  DEF Replies, RunnerInv, RunnerTypes, RunnerWorks, ActiveIsOwn, AnswerIsOwn, Stages, Idle, Answers
<1>13. ASSUME NEW j \in Job, Begin(j) PROVE RunnerInv'
  BY <1>13, CodexAssumption
  DEF Begin, StageOf, RunnerInv, RunnerTypes, RunnerWorks, ActiveIsOwn, AnswerIsOwn, Stages, Idle, Answers
<1>14. ASSUME NEW s \in Server, ExitEvent(s) PROVE RunnerInv'
  BY <1>14, FailAllKeeps DEF ExitEvent
<1>15. ASSUME NEW k \in linked, SocketCloses(k) PROVE RunnerInv'
  BY <1>15, FailAllKeeps DEF SocketCloses
<1>16. ASSUME NEW th \in Thread, Opened(th) PROVE RunnerInv'
  BY <1>16, TurnStartKeeps DEF Opened
<1>17. ASSUME NEW p \in playing, ItemCompleted(p) PROVE RunnerInv'
  <2>1. p.turn \in Answers /\ job \in Job
    BY <1>17 DEF ItemCompleted, Notified, WorldTypes, RunnerInv, RunnerTypes, RunnerWorks, Idle
  <2> QED
    BY <1>17, <2>1, CodexAssumption
    DEF ItemCompleted, Notified, Ours, Mistaken, RunnerInv, RunnerTypes, RunnerWorks, ActiveIsOwn,
        AnswerIsOwn, Stages, Idle, Answers
<1>18. ASSUME NEW p \in playing, Completed(p) PROVE RunnerInv'
  <2>1. CASE Notified(p) /\ Ours(p)
    <3>1. p.turn \in Answers /\ job \in Job
      BY <2>1 DEF Notified, WorldTypes, RunnerInv, RunnerTypes, RunnerWorks, Idle
    <3>2. /\ early' = Mistaken(p) /\ UNCHANGED <<run, job, thread, outcome, conv>>
          /\ \E x \in {p.turn, "failed", IF active.last = Null THEN "failed" ELSE active.last} :
               active' = [active EXCEPT !.got = x]
      BY <1>18, <2>1 DEF Completed, Completion
    <3>3. PICK x \in {p.turn, "failed", IF active.last = Null THEN "failed" ELSE active.last} :
            active' = [active EXCEPT !.got = x]
      BY <3>2
    <3>4. job \in early \/ p.turn = job \/ early' = early \cup {job}
      BY <2>1, <3>1, <3>2, CodexAssumption DEF Ours, Mistaken, RunnerInv, ActiveIsOwn, Answers
    <3>5. early \subseteq early' /\ early' \subseteq Job
      BY <3>1, <3>2 DEF Mistaken, RunnerInv, RunnerTypes
    <3> QED
      BY <2>1, <3>1, <3>2, <3>3, <3>4, <3>5, CodexAssumption
      DEF Notified, RunnerInv, RunnerTypes, RunnerWorks, ActiveIsOwn, AnswerIsOwn, Stages, Idle, Answers
  <2>2. CASE ~(Notified(p) /\ Ours(p))
    BY <1>18, <2>2, RunnerRests DEF Completed, Completion, runner
  <2> QED BY <2>1, <2>2
<1> QED BY <1>1, <1>2, <1>3, <1>4, <1>5, <1>6, <1>7, <1>8, <1>9, <1>10, <1>11, <1>12, <1>13, <1>14,
           <1>15, <1>16, <1>17, <1>18 DEF CodexNext
-----------------------------------------------------------------------------
\* The invariant holds for any number of turns, threads, processes, connections,
\* exits and operators' turns.
THEOREM CodexInvariant == CodexSpec => []CodexInv
<1>1. CodexInit => CodexInv
  BY CodexInitInv
<1>2. CodexInv /\ [CodexNext]_codexVars => CodexInv'
  BY AppStep, StartStep, WorldStep, RunnerStep DEF CodexInv
<1> QED BY <1>1, <1>2, PTL DEF CodexSpec

\* The fields, promises and maps of the adapter keep their types.
THEOREM CodexTypes == CodexSpec => []CodexTypeOK
<1>1. CodexInv => CodexTypeOK
  BY DEF CodexInv, AppTypes, StartTypes, WorldTypes, RunnerInv, RunnerTypes, Stages, CodexTypeOK
<1> QED BY <1>1, CodexInvariant, PTL

\* run() never answers one turn with the text of another, neither by its end nor
\* by a message kept of it, unless that was read before the id of its own turn
\* was known (codex-app-server.ts:362-409).
THEOREM AnswersAreOwn == CodexSpec => []AnswerIsOwn
<1>1. CodexInv => AnswerIsOwn
  BY DEF CodexInv, RunnerInv
<1> QED BY <1>1, CodexInvariant, PTL
=============================================================================
