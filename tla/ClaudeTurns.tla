---------------------------- MODULE ClaudeTurns -----------------------------
(***************************************************************************)
(* The turns of a Claude lane that come from the mesh: RuntimeInbox, the   *)
(* control methods runtime.start, claim, reply and fail, ClaudeSupervisor  *)
(* and its tmux session, the MCP server that polls for turns and tells     *)
(* Claude of them, and the reply the Hub keeps under the client id         *)
(* `runtime-<turn>`.                                                       *)
(*                                                                         *)
(* Every control request has a connection of its own, so the handlers of   *)
(* two requests interleave at their awaits; a handler goes on when the     *)
(* process that asked is gone.                                             *)
(***************************************************************************)
EXTENDS Naturals, FiniteSets

CONSTANTS Turn,      \* messages of the mesh, and the turns they become
          IsAnswer,  \* those with a reply_to
          Text,      \* what Claude may answer
          NoText,    \* null
          MaxFaults  \* bound: ends of a session, restarts, calls of runtime.fail

ASSUME TurnsAssumption ==
  /\ IsFiniteSet(Turn) /\ IsAnswer \subseteq Turn /\ NoText \notin Text
  /\ MaxFaults \in Nat

VARIABLES
  session,   \* in tmux: none, gates (the daemon watches it start), asking
             \* (for an answer nobody gives), on
  row,       \* state of the row, "none" before it is inserted
  born,      \* created_at
  recorded,  \* response
  claimed,   \* rows whose runtime.claim is not answered yet
  notified,  \* turns the session was notified of
  calls,     \* runtime.reply handlers at their await: [turn, text]
  kept,      \* the text the Hub keeps for the turn
  given,     \* history: texts accepted for the turn
  abandoned, \* history: RUNNING turns whose session ended
  faults

inbox     == <<row, born, recorded>>
replies   == <<calls, kept, given>>
turnsVars == <<session, inbox, claimed, notified, replies, abandoned, faults>>

RowState == {"none", "PENDING", "OBSERVED", "RUNNING", "COMPLETED", "FAILED"}

\* Every variable has the shape of its column, map or request.
TurnsTypeOK ==
  /\ session \in {"none", "gates", "asking", "on"}
  /\ row \in [Turn -> RowState] /\ born \in [Turn -> Nat]
  /\ recorded \in [Turn -> Text \cup {NoText}]
  /\ claimed \subseteq Turn /\ notified \subseteq Turn
  /\ calls \subseteq [turn : Turn, text : Text]
  /\ kept \in [Turn -> Text \cup {NoText}] /\ given \in [Turn -> SUBSET Text]
  /\ abandoned \subseteq Turn
  /\ faults \in 0..MaxFaults

TurnsInit ==
  /\ session = "on"
  /\ row = [t \in Turn |-> "none"] /\ born = [t \in Turn |-> 0]
  /\ recorded = [t \in Turn |-> NoText]
  /\ claimed = {} /\ notified = {} /\ calls = {} /\ abandoned = {}
  /\ kept = [t \in Turn |-> NoText] /\ given = [t \in Turn |-> {}]
  /\ faults = 0
-----------------------------------------------------------------------------
\* mesh.message; one that comes again finds its row.  An answer is only kept.
Arrive(t) ==
  /\ row[t] = "none"
  /\ row' = [row EXCEPT ![t] = IF t \in IsAnswer THEN "OBSERVED" ELSE "PENDING"]
  /\ born' = [born EXCEPT ![t] = Cardinality({u \in Turn : row[u] # "none"})]
  /\ UNCHANGED <<session, recorded, claimed, notified, replies, abandoned, faults>>

Claimable(t) == row[t] = "PENDING" /\ \A u \in Turn : row[u] = "PENDING" => born[t] <= born[u]

\* runtime.claim of a poll: the oldest PENDING turn, in one transaction.
Claim(t) ==
  /\ session = "on" /\ Claimable(t)
  /\ row' = [row EXCEPT ![t] = "RUNNING"]
  /\ claimed' = claimed \cup {t}
  /\ UNCHANGED <<session, born, recorded, notified, replies, abandoned, faults>>

\* The answer of the claim, and the notification of Claude.
Tell(t) ==
  /\ t \in claimed
  /\ claimed' = claimed \ {t} /\ notified' = notified \cup {t}
  /\ UNCHANGED <<session, inbox, replies, abandoned, faults>>

Complete(t, x) == /\ row' = [row EXCEPT ![t] = "COMPLETED"]
                  /\ recorded' = [recorded EXCEPT ![t] = x]

\* Mutant: the turn is completed before its answer is sent.
ReplyCompletes(t, x) ==
  /\ session = "on" /\ t \in notified /\ row[t] = "RUNNING" /\ Complete(t, x)
  /\ calls' = calls \cup {[turn |-> t, text |-> x]}
  /\ given' = [given EXCEPT ![t] = @ \cup {x}]
  /\ UNCHANGED <<session, born, claimed, notified, kept, abandoned, faults>>

\* runtime.reply up to its await.  A COMPLETED turn answers `duplicate`, any
\* other but a RUNNING one is refused: neither changes anything.
Reply(t, x) ==
  /\ session = "on" /\ t \in notified /\ row[t] = "RUNNING"
  /\ calls' = calls \cup {[turn |-> t, text |-> x]}
  /\ given' = [given EXCEPT ![t] = @ \cup {x}]
  /\ UNCHANGED <<session, inbox, claimed, notified, kept, abandoned, faults>>

\* mesh.send: the Hub keeps the first text under a client id.
HubKeeps(c) ==
  /\ c \in calls /\ kept[c.turn] = NoText
  /\ kept' = [kept EXCEPT ![c.turn] = c.text]
  /\ UNCHANGED <<session, inbox, claimed, notified, calls, given, abandoned, faults>>

\* It answers, with what it keeps: whatever the row is by now, it is completed.
Sent(c) ==
  /\ c \in calls /\ kept[c.turn] # NoText
  /\ Complete(c.turn, c.text) /\ calls' = calls \ {c}
  /\ abandoned' = abandoned \ {c.turn}
  /\ UNCHANGED <<session, born, claimed, notified, kept, given, faults>>

\* The send fails, before or after the Hub kept it: Claude is told so.
SendFails(c) ==
  /\ c \in calls /\ calls' = calls \ {c}
  /\ UNCHANGED <<session, inbox, claimed, notified, kept, given, abandoned, faults>>

\* runtime.fail looks at no state, and drops the response.
Fail(t) ==
  /\ row[t] # "none" /\ faults < MaxFaults /\ faults' = faults + 1
  /\ row' = [row EXCEPT ![t] = "FAILED"]
  /\ recorded' = [recorded EXCEPT ![t] = NoText]
  /\ UNCHANGED <<session, born, claimed, notified, replies, abandoned>>
-----------------------------------------------------------------------------
\* What start() leaves: of a session that is there already it answers nothing;
\* a new one may fail to start.
AfterStart(s) == CASE s = "none"  -> {"none", "gates"}
                   [] s = "gates" -> {"asking"}
                   [] OTHER       -> {s}

\* The prompts of a new session are answered one after the other.  One that
\* comes when nothing was asked for a while, or after 30 s, is left to a person.
GatesEnd ==
  /\ session = "gates" /\ session' \in {"on", "asking"}
  /\ UNCHANGED <<inbox, claimed, notified, replies, abandoned, faults>>

PersonAnswers ==
  /\ session = "asking" /\ session' = "on"
  /\ UNCHANGED <<inbox, claimed, notified, replies, abandoned, faults>>

\* Nothing gives back what the session held.
Loses == /\ abandoned' = abandoned \cup {t \in claimed \cup notified : row[t] = "RUNNING"}
         /\ claimed' = {} /\ notified' = {}

SessionExits ==
  /\ session # "none" /\ faults < MaxFaults /\ faults' = faults + 1
  /\ session' = "none" /\ Loses
  /\ UNCHANGED <<inbox, replies>>

\* runtime.start: the session is ended, if there is one, and another started.
RuntimeStart ==
  /\ faults < MaxFaults /\ faults' = faults + 1
  /\ session' \in AfterStart("none") /\ Loses
  /\ UNCHANGED <<inbox, replies>>

\* The daemon dies and starts again, with the session as it was; or stop() ends
\* the session with it.
DaemonRestarts ==
  /\ faults < MaxFaults /\ faults' = faults + 1
  /\ \/ session' \in AfterStart(session) /\ UNCHANGED notified
     \/ session' \in AfterStart("none") /\ notified' = {}
  /\ claimed' = {} /\ calls' = {} /\ abandoned' = {}
  /\ UNCHANGED <<born, recorded, kept, given>>

\* Mutant: initialize() leaves the turns that were RUNNING.
RestartKeepsRunning == DaemonRestarts /\ UNCHANGED row

RestartDaemon ==
  /\ DaemonRestarts
  /\ row' = [t \in Turn |-> IF row[t] = "RUNNING" THEN "PENDING" ELSE row[t]]

TurnsNext ==
  \/ GatesEnd \/ PersonAnswers \/ SessionExits \/ RuntimeStart \/ RestartDaemon
  \/ \E t \in Turn : Arrive(t) \/ Claim(t) \/ Tell(t) \/ Fail(t)
                     \/ \E x \in Text : Reply(t, x)
  \/ \E c \in calls : HubKeeps(c) \/ Sent(c) \/ SendFails(c)

TurnsSpec == TurnsInit /\ [][TurnsNext]_turnsVars

\* The MCP server polls every 500 ms; Claude answers what it is told of; an
\* outage of the Hub ends.
TurnsFairness ==
  /\ \A t \in Turn :
       /\ WF_turnsVars(Claim(t)) /\ WF_turnsVars(Tell(t))
       /\ WF_turnsVars(\E x \in Text : Reply(t, x))
       /\ WF_turnsVars(\E x \in Text : HubKeeps([turn |-> t, text |-> x]))
       /\ WF_turnsVars(\E x \in Text : Sent([turn |-> t, text |-> x]))
  /\ WF_turnsVars(GatesEnd)
  /\ <>[][\A c \in calls : ~SendFails(c)]_turnsVars
-----------------------------------------------------------------------------
\* A turn is COMPLETED only when the Hub keeps an answer to it, and that answer
\* is the recorded one when Claude gave no other: a lost answer, a retry, a
\* restart or a reply that is still under way when the turn is failed do not
\* change that (agent-mesh-daemon.ts:658-668).
CompletedIsKept ==
  \A t \in Turn : row[t] = "COMPLETED" =>
    /\ kept[t] # NoText
    /\ (\E x \in Text : given[t] = {x}) => kept[t] = recorded[t]

\* A turn that waits is finished in the end, across sessions that are started
\* again and restarts of the daemon, unless its session ended while it had it
\* (agent-mesh-daemon.ts:642, inbox.ts:134), or there is none, or one that waits
\* for a person (claude-supervisor.ts:120,263).
TurnEnds == \A t \in Turn :
  row[t] = "PENDING" ~> \/ row[t] \in {"COMPLETED", "FAILED"} \/ t \in abandoned
                        \/ session \in {"none", "asking"}
=============================================================================
