------------------------------ MODULE HostProofs ------------------------------
(***************************************************************************)
(* A behaviour of MCHost is one of each of its parts, for any number of    *)
(* processes, connections, turns, servers, threads and writers: what is    *)
(* proved of a part holds of the host that runs it beside the others.      *)
(***************************************************************************)
EXTENDS MCHost, DriverLinkProofs, RuntimeProofs, ConfigReloadProofs

\* Every part of a host starts and goes on as it does alone: the driver link
\* (DriverLink), the turns of a Claude lane (ClaudeTurns), those of a Codex
\* worker (CodexTurns) and the configuration (ConfigReload).
THEOREM HostRunsItsParts == HostSpec => LinkSpec /\ TurnsSpec /\ CodexSpec /\ ReloadSpec
<1>1. HostInit => LinkInit /\ TurnsInit /\ CodexInit /\ ReloadInit
  BY DEF HostInit
<1>2. [HostNext]_hostVars => [LinkNext]_linkVars
  BY DEF HostNext, Rest3, hostVars
<1>3. [HostNext]_hostVars => [TurnsNext]_turnsVars
  BY DEF HostNext, Rest3, hostVars
<1>4. [HostNext]_hostVars => [CodexNext]_codexVars
  BY DEF HostNext, Rest3, hostVars
<1>5. [HostNext]_hostVars => [ReloadNext]_reloadVars
  BY DEF HostNext, Rest3, hostVars
<1> QED BY <1>1, <1>2, <1>3, <1>4, <1>5, PTL DEF HostSpec, LinkSpec, TurnsSpec, CodexSpec, ReloadSpec

\* Every field, map, row and continuation of a host keeps its type, whatever parts
\* run and whatever its operators ask for while it is busy.
THEOREM HostTypes == HostSpec => []HostTypeOK
<1>1. ReloadSpec => []ReloadTypeOK
  BY ReloadTypes
<1>2. LinkTypeOK /\ TurnsTypeOK /\ CodexTypeOK /\ ReloadTypeOK => HostTypeOK
  BY DEF HostTypeOK
<1> QED BY <1>1, <1>2, HostRunsItsParts, LinkTypes, TurnsTypes, CodexTypes, PTL

\* The host as a whole: the newest connection of a driver is the one requests go
\* to and no child is lost (supervisor.ts, lane-server.ts), a completed turn has
\* its answer at the Hub (claude-supervisor.ts), run() returns the answer of its
\* own turn when its turn says what it is (codex-app-server.ts), and what runs is
\* what the file says until two requests meet (agent-mesh-daemon.ts).
THEOREM HostIsSafe ==
  HostSpec => [](/\ NewestIsActive /\ OneChild /\ CompletedIsKept /\ AnswerIsOwn
                 /\ ReloadApplies /\ NothingStray)
<1>1. ReloadSpec => []ReloadApplies /\ []NothingStray
  BY FileIsApplied, NothingIsLost
<1> QED BY <1>1, HostRunsItsParts, NewestStaysActive, NoChildIsLost, CompletedStaysKept,
           AnswersAreOwn, PTL
=============================================================================
