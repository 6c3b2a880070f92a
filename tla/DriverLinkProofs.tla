--------------------------- MODULE DriverLinkProofs ---------------------------
(***************************************************************************)
(* For any number of driver processes, connections, exits and restarts:    *)
(* the types of DriverLink, NewestIsActive and OneChild.  Together they    *)
(* are inductive; a step of the supervisor leaves the lane alone, and most *)
(* steps of the server leave the processes alone.                          *)
(***************************************************************************)
EXTENDS DriverLink, TLAPS

LinkInv == LinkTypeOK /\ NewestIsActive /\ OneChild

-----------------------------------------------------------------------------
\* A channel that nobody serves yet satisfies the invariant.
LEMMA LinkInitInv == LinkInit => LinkInv
BY LinkAssumption DEF LinkInit, LinkInv, LinkTypeOK, Stage, NewestIsActive, OneChild

\* A process that is gone takes nothing but its own connections with it.
LEMMA GoneKeeps ==
  ASSUME LinkInv, NEW p \in Proc, Gone(p),
         UNCHANGED <<up, supervisor>>,
         ends' \in 0..MaxEnds, exits' \in 0..MaxExits
  PROVE  LinkInv'
BY LinkAssumption DEF LinkInv, LinkTypeOK, Stage, NewestIsActive, OneChild, Gone, supervisor

\* Every step of the supervisor keeps the invariant.
LEMMA SupervisorStep == LinkInv /\ SupervisorNext => LinkInv'
<1> SUFFICES ASSUME LinkInv, SupervisorNext PROVE LinkInv'
  OBVIOUS
<1> USE LinkAssumption DEF LinkInv, LinkTypeOK, Stage, NewestIsActive, OneChild, process, lane
<1>1. CASE Maintain
  BY <1>1 DEF Maintain, Spawn, AfterStatus
<1>2. CASE ReadStatus
  BY <1>2 DEF ReadStatus, AfterStatus
<1>3. CASE BackoffEnds
  BY <1>3 DEF BackoffEnds
<1>4. CASE StopDaemon
  <2>1. ends' \in 0..MaxEnds
    BY <1>4 DEF StopDaemon
  <2> QED BY <1>4, <2>1 DEF StopDaemon
<1>5. ASSUME NEW p \in Proc, ExitHeard(p) PROVE LinkInv'
  BY <1>5 DEF ExitHeard
<1>6. ASSUME NEW p \in Proc, Kill(p) PROVE LinkInv'
  BY <1>6, GoneKeeps DEF Kill
<1> QED BY <1>1, <1>2, <1>3, <1>4, <1>5, <1>6 DEF SupervisorNext

\* Every step of the lane server, and of the daemon around it, keeps it.
LEMMA LaneServerStep == LinkInv /\ ServerNext => LinkInv'
<1> SUFFICES ASSUME LinkInv, ServerNext PROVE LinkInv'
  OBVIOUS
<1> USE LinkAssumption
        DEF LinkInv, LinkTypeOK, Stage, NewestIsActive, OneChild, supervisor, process, lane
<1>1. CASE StartDaemon
  BY <1>1 DEF StartDaemon
<1>2. CASE StopServer
  BY <1>2 DEF StopServer
<1>3. CASE ServerClosed
  BY <1>3 DEF ServerClosed
<1>4. CASE CrashDaemon
  <2>1. ends' \in 0..MaxEnds
    BY <1>4 DEF CrashDaemon
  <2> QED BY <1>4, <2>1 DEF CrashDaemon
<1>5. ASSUME NEW l \in Link, Register(l) PROVE LinkInv'
  BY <1>5 DEF Register
<1>6. ASSUME NEW l \in Link, CloseHeard(l) PROVE LinkInv'
  BY <1>6 DEF CloseHeard
<1> QED BY <1>1, <1>2, <1>3, <1>4, <1>5, <1>6 DEF ServerNext

\* The steps of a driver between its dial and its end, of which only the loop
\* of the driver, and perhaps its socket, changes.
LEMMA LoopKeeps ==
  ASSUME LinkInv, NEW p \in Proc,
         loop' \in [Proc -> Stage], sock' \in [Proc -> Link \cup {Absent}],
         UNCHANGED <<up, supervisor, proc, lane, ends, exits>>
  PROVE  LinkInv'
BY DEF LinkInv, LinkTypeOK, NewestIsActive, OneChild, supervisor, lane

\* Every step of a driver keeps it.
LEMMA DriverStep == LinkInv /\ DriverNext => LinkInv'
<1> SUFFICES ASSUME LinkInv, NEW p \in Proc,
      \/ DialAgain(p) \/ DialFails(p) \/ (\E l \in Link : Dial(p, l))
      \/ Registered(p) \/ RegisterTimesOut(p) \/ Disconnected(p)
      \/ GatewayOpens(p) \/ GatewayFails(p) \/ SessionEnds(p)
      \/ InboundLost(p) \/ InboundRefused(p) \/ RetryDelayOver(p)
      \/ DriverExit(p) \/ Abort(p) \/ AbortLate(p) \/ StuckEnds(p)
    PROVE LinkInv'
  BY DEF DriverNext
<1>1. CASE \/ DialAgain(p) \/ DialFails(p) \/ Registered(p) \/ RegisterTimesOut(p)
           \/ Disconnected(p) \/ GatewayOpens(p) \/ GatewayFails(p) \/ SessionEnds(p)
           \/ InboundLost(p) \/ InboundRefused(p) \/ RetryDelayOver(p)
  <2>1. loop' \in [Proc -> Stage] /\ sock' \in [Proc -> Link \cup {Absent}]
    BY <1>1 DEF LinkInv, LinkTypeOK, Stage, DialAgain, DialFails, Registered, RegisterTimesOut,
       Disconnected, GatewayOpens, GatewayFails, SessionEnds, InboundLost, InboundRefused,
       RetryDelayOver
  <2>2. UNCHANGED <<up, supervisor, proc, lane, ends, exits>>
    BY <1>1 DEF DialAgain, DialFails, Registered, RegisterTimesOut, Disconnected, GatewayOpens,
       GatewayFails, SessionEnds, InboundLost, InboundRefused, RetryDelayOver
  <2> QED BY <2>1, <2>2, LoopKeeps
<1>2. ASSUME NEW l \in Link, Dial(p, l) PROVE LinkInv'
  BY <1>2, LinkAssumption
  DEF Dial, Running, FreeLink, LinkInv, LinkTypeOK, Stage, NewestIsActive, OneChild, supervisor
<1>3. CASE DriverExit(p)
  <2>1. exits' \in 0..MaxExits /\ ends' \in 0..MaxEnds
    BY <1>3, LinkAssumption DEF DriverExit, LinkInv, LinkTypeOK
  <2> QED BY <1>3, <2>1, GoneKeeps DEF DriverExit
<1>4. CASE Abort(p) \/ StuckEnds(p)
  <2>1. exits' \in 0..MaxExits /\ ends' \in 0..MaxEnds
    BY <1>4 DEF Abort, StuckEnds, LinkInv, LinkTypeOK
  <2> QED BY <1>4, <2>1, GoneKeeps DEF Abort, StuckEnds
<1>5. CASE AbortLate(p)
  BY <1>5, LinkAssumption
  DEF AbortLate, LinkInv, LinkTypeOK, Stage, NewestIsActive, OneChild, supervisor
<1> QED BY <1>1, <1>2, <1>3, <1>4, <1>5

-----------------------------------------------------------------------------
\* The invariant holds for any number of processes and connections, of exits,
\* crashes and stops.
THEOREM LinkInvariant == LinkSpec => []LinkInv
<1>1. LinkInit => LinkInv
  BY LinkInitInv
<1>2. LinkInv /\ [LinkNext]_linkVars => LinkInv'
  <2>1. LinkInv /\ UNCHANGED linkVars => LinkInv'
    BY DEF LinkInv, LinkTypeOK, NewestIsActive, OneChild, linkVars, supervisor, process, lane
  <2> QED BY <2>1, SupervisorStep, LaneServerStep, DriverStep DEF LinkNext
<1> QED BY <1>1, <1>2, PTL DEF LinkSpec

\* The fields of the supervisor, the client and the server keep their types.
THEOREM LinkTypes == LinkSpec => []LinkTypeOK
<1>1. LinkInv => LinkTypeOK
  BY DEF LinkInv
<1> QED BY <1>1, LinkInvariant, PTL

\* The newest registration is the active connection for as long as it is open
\* (lane-server.ts:404,459).
THEOREM NewestStaysActive == LinkSpec => []NewestIsActive
<1>1. LinkInv => NewestIsActive
  BY DEF LinkInv
<1> QED BY <1>1, LinkInvariant, PTL

\* A daemon never loses a live child of a channel (supervisor.ts:49,111).
THEOREM NoChildIsLost == LinkSpec => []OneChild
<1>1. LinkInv => OneChild
  BY DEF LinkInv
<1> QED BY <1>1, LinkInvariant, PTL
=============================================================================
