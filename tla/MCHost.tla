------------------------------- MODULE MCHost -------------------------------
(* One instance for the parts of a host that TLC need not combine: a       *)
(* behaviour is one of the driver link, of the turns of a Claude lane, of a *)
(* Codex worker or of the configuration, and leaves the others as they are. *)
EXTENDS DriverLink, ClaudeTurns, CodexTurns, ConfigReload, TLC

CONSTANTS j1, j2, k1, u1, d1

VARIABLE part

Rest3(a, b, c) == UNCHANGED <<part, a, b, c>>

hostVars == <<part, linkVars, turnsVars, codexVars, reloadVars>>

\* Two conversations of one context.
MCContextOf == (j1 :> k1) @@ (j2 :> k1)

\* The documents a behaviour begins with.
MCFiles == {[hub |-> u1, core |-> c, channel |-> d1] : c \in Core}

HostInit ==
  /\ part \in {"link", "turns", "codex", "reload"}
  /\ LinkInit /\ TurnsInit /\ CodexInit /\ ReloadInit /\ file \in MCFiles

\* Bound: a break or a turn of an operator, and that beside one job.
CodexBound ==
  /\ breaks' + operators' <= 1
  /\ operators' = 1 => \E j \in Job : \A i \in Job \ {j} : i # job' /\ outcome'[i] = Null

\* Bound: of a daemon in which two requests met, about which the invariants say
\* nothing, only the end is followed, and then the next one.
ReloadBound == overlapped => ~overlapped'

HostNext ==
  \/ part = "link"   /\ LinkNext   /\ Rest3(turnsVars, codexVars, reloadVars)
  \/ part = "turns"  /\ TurnsNext  /\ Rest3(linkVars, codexVars, reloadVars)
  \/ part = "codex"  /\ CodexNext  /\ CodexBound  /\ Rest3(linkVars, turnsVars, reloadVars)
  \/ part = "reload" /\ ReloadNext /\ ReloadBound /\ Rest3(linkVars, turnsVars, codexVars)

\* A part that has not begun owes nothing: none of its fair actions is enabled.
HostSpec ==
  /\ HostInit /\ [][HostNext]_hostVars
  /\ LinkFairness /\ TurnsFairness /\ CodexFairness

\* Every variable of the four modules has the shape of what it stands for.
HostTypeOK == LinkTypeOK /\ TurnsTypeOK /\ CodexTypeOK /\ ReloadTypeOK
=============================================================================
