----------------------------- MODULE DriverLink -----------------------------
(***************************************************************************)
(* One channel of a lane: ChannelProcessSupervisor, the driver processes   *)
(* it spawns, ChannelDriverClient, the gateway session of DiscordDriver,   *)
(* and the connections LaneServer holds for that driver instance.          *)
(*                                                                         *)
(* Each end of a connection hears of its end on its own; the exit of a     *)
(* child reaches the supervisor both as exitCode and, later, as the        *)
(* callback of child.exited.  A daemon that crashes leaves its children    *)
(* running: a driver never looks at the process that spawned it.           *)
(***************************************************************************)
EXTENDS Naturals

CONSTANTS Proc,     \* processes the driver may run as
          Link,     \* connections to the lane socket
          Absent,   \* no process, no connection: null
          MaxEnds,  \* bound: times the daemon crashes or is stopped
          MaxExits  \* bound: times a driver process dies by itself

ASSUME LinkAssumption ==
  /\ Absent \notin Proc \cup Link
  /\ MaxEnds \in Nat /\ MaxExits \in Nat

VARIABLES
  up,       \* the daemon: down, up, stopping (supervisors), closing (server)
  child,    \* #child of the supervisor
  due,      \* now >= #nextStartAt
  kin,      \* processes this daemon has spawned
  proc,     \* free, running, told (SIGTERM), exited (callback not run)
  loop,     \* where DiscordDriver.#run is
  sock,     \* #socket of the client; null once the client heard of its end
  wire,     \* up, or cut
  owner,    \* the process that dialled
  served,   \* the server's DriverConnection: no, new, registered
  drivers,  \* #drivers.get(instance)
  latest,   \* history: the connection that registered last
  ends, exits

supervisor == <<child, due, kin>>
process    == <<proc, loop, sock>>
lane       == <<wire, owner, served, drivers, latest>>
linkVars   == <<up, supervisor, process, lane, ends, exits>>

Stage == {"top", "register", "rest", "session", "wait", "stuck"}

\* Every variable has the shape of its field, map or event.
LinkTypeOK ==
  /\ up \in {"down", "up", "stopping", "closing"}
  /\ child \in Proc \cup {Absent} /\ due \in BOOLEAN /\ kin \subseteq Proc
  /\ proc \in [Proc -> {"free", "running", "told", "exited"}]
  /\ loop \in [Proc -> Stage]
  /\ sock \in [Proc -> Link \cup {Absent}]
  /\ wire \in [Link -> {"up", "cut"}]
  /\ owner \in [Link -> Proc \cup {Absent}]
  /\ served \in [Link -> {"no", "new", "registered"}]
  /\ drivers \in Link \cup {Absent} /\ latest \in Link \cup {Absent}
  /\ ends \in 0..MaxEnds /\ exits \in 0..MaxExits

LinkInit ==
  /\ up = "down" /\ child = Absent /\ due = TRUE /\ kin = {}
  /\ proc = [p \in Proc |-> "free"] /\ loop = [p \in Proc |-> "top"]
  /\ sock = [p \in Proc |-> Absent]
  /\ wire = [l \in Link |-> "cut"] /\ owner = [l \in Link |-> Absent]
  /\ served = [l \in Link |-> "no"]
  /\ drivers = Absent /\ latest = Absent /\ ends = 0 /\ exits = 0
-----------------------------------------------------------------------------
\* The process p is gone, and with it its end of its connections; the exit is
\* still to be heard by the daemon that spawned it.
Gone(p) ==
  /\ proc' = [proc EXCEPT ![p] = IF p \in kin THEN "exited" ELSE "free"]
  /\ loop' = [loop EXCEPT ![p] = "top"]
  /\ sock' = [sock EXCEPT ![p] = Absent]
  /\ wire' = [l \in Link |-> IF owner[l] = p THEN "cut" ELSE wire[l]]
  /\ UNCHANGED <<owner, served, drivers, latest>>

StartDaemon ==
  /\ up = "down" /\ up' = "up"
  /\ child' = Absent /\ due' = TRUE /\ kin' = {}
  /\ UNCHANGED <<process, lane, ends, exits>>

\* start(): nothing while there is a child, while stopping or before its time.
Spawn(p) ==
  /\ due /\ proc[p] = "free"
  /\ child' = p /\ kin' = kin \cup {p}
  /\ proc' = [proc EXCEPT ![p] = "running"]
  /\ loop' = [loop EXCEPT ![p] = "top"]
  /\ UNCHANGED <<due, sock>>

\* What the getter `status` leaves in #child: it drops one that has exited.
AfterStatus == IF child # Absent /\ proc[child] = "exited" THEN Absent ELSE child

\* maintain(), every second.
Maintain ==
  /\ up = "up" /\ AfterStatus = Absent
  /\ \E p \in Proc : Spawn(p)
  /\ UNCHANGED <<up, lane, ends, exits>>

\* The getter alone: maintain() before its time, or the status of a channel.
ReadStatus ==
  /\ up = "up" /\ child # AfterStatus
  /\ child' = AfterStatus
  /\ UNCHANGED <<up, due, kin, process, lane, ends, exits>>

\* Mutant: the callback does not look whose exit it hears.
ExitHeardOfAny(p) ==
  /\ up # "down" /\ p \in kin /\ proc[p] = "exited"
  /\ proc' = [proc EXCEPT ![p] = "free"]
  /\ child' = Absent /\ due' = (up # "up")
  /\ UNCHANGED <<up, kin, loop, sock, lane, ends, exits>>

\* child.exited: only the exit of the current child sets the back-off.
ExitHeard(p) ==
  /\ up # "down" /\ p \in kin /\ proc[p] = "exited"
  /\ proc' = [proc EXCEPT ![p] = "free"]
  /\ IF child = p THEN child' = Absent /\ due' = (up # "up")
                  ELSE UNCHANGED <<child, due>>
  /\ UNCHANGED <<up, kin, loop, sock, lane, ends, exits>>

BackoffEnds ==
  /\ ~due /\ due' = TRUE
  /\ UNCHANGED <<up, child, kin, process, lane, ends, exits>>

\* The process fails by itself: no token, no REST, an uncaught error.
DriverExit(p) ==
  /\ proc[p] = "running" /\ exits < MaxExits /\ exits' = exits + 1
  /\ Gone(p)
  /\ UNCHANGED <<up, supervisor, ends>>
-----------------------------------------------------------------------------
Running(p, s) == proc[p] = "running" /\ loop[p] = s

\* connect() with a socket that is not destroyed returns at once, without a
\* word to the server.
DialAgain(p) ==
  /\ Running(p, "top") /\ sock[p] # Absent
  /\ loop' = [loop EXCEPT ![p] = "rest"]
  /\ UNCHANGED <<up, supervisor, proc, sock, lane, ends, exits>>

FreeLink(l) == wire[l] = "cut" /\ served[l] = "no" /\ \A p \in Proc : sock[p] # l

Dial(p, l) ==
  /\ Running(p, "top") /\ sock[p] = Absent
  /\ up \in {"up", "stopping"} /\ FreeLink(l)
  /\ wire' = [wire EXCEPT ![l] = "up"] /\ owner' = [owner EXCEPT ![l] = p]
  /\ served' = [served EXCEPT ![l] = "new"]
  /\ sock' = [sock EXCEPT ![p] = l]
  /\ loop' = [loop EXCEPT ![p] = "register"]
  /\ latest' = IF latest = l THEN Absent ELSE latest
  /\ UNCHANGED <<up, supervisor, proc, drivers, ends, exits>>

DialFails(p) ==
  /\ Running(p, "top") /\ sock[p] = Absent /\ up \in {"down", "closing"}
  /\ loop' = [loop EXCEPT ![p] = "wait"]
  /\ UNCHANGED <<up, supervisor, proc, sock, lane, ends, exits>>

\* channel.register: the newest connection of the instance becomes the active
\* one, and the one before it is ended.
Register(l) ==
  /\ up # "down" /\ served[l] = "new"
  /\ served' = [served EXCEPT ![l] = "registered"]
  /\ drivers' = l /\ latest' = l
  /\ wire' = IF drivers = Absent THEN wire ELSE [wire EXCEPT ![drivers] = "cut"]
  /\ UNCHANGED <<up, supervisor, process, owner, ends, exits>>

Registered(p) ==
  /\ Running(p, "register") /\ sock[p] # Absent /\ served[sock[p]] = "registered"
  /\ loop' = [loop EXCEPT ![p] = "rest"]
  /\ UNCHANGED <<up, supervisor, proc, sock, lane, ends, exits>>

\* No answer within 30 s: connect() rejects and leaves the connection open.
RegisterTimesOut(p) ==
  /\ Running(p, "register")
  /\ loop' = [loop EXCEPT ![p] = "wait"]
  /\ UNCHANGED <<up, supervisor, proc, sock, lane, ends, exits>>

\* Mutant: the close of a connection unregisters the instance whoever holds it.
CloseHeardDeletes(l) ==
  /\ served[l] # "no" /\ wire[l] = "cut"
  /\ served' = [served EXCEPT ![l] = "no"]
  /\ drivers' = IF served[l] = "registered" THEN Absent ELSE drivers
  /\ UNCHANGED <<up, supervisor, process, wire, owner, latest, ends, exits>>

\* The server's close handler deletes the entry only while it is its own.
CloseHeard(l) ==
  /\ served[l] # "no" /\ wire[l] = "cut"
  /\ served' = [served EXCEPT ![l] = "no"]
  /\ drivers' = IF drivers = l THEN Absent ELSE drivers
  /\ UNCHANGED <<up, supervisor, process, wire, owner, latest, ends, exits>>

\* The client hears: the call it waits for rejects; a session does not notice.
Disconnected(p) ==
  /\ sock[p] # Absent /\ wire[sock[p]] = "cut"
  /\ sock' = [sock EXCEPT ![p] = Absent]
  /\ loop' = IF loop[p] = "register" THEN [loop EXCEPT ![p] = "wait"] ELSE loop
  /\ UNCHANGED <<up, supervisor, proc, lane, ends, exits>>
-----------------------------------------------------------------------------
GatewayOpens(p) ==
  /\ Running(p, "rest")
  /\ loop' = [loop EXCEPT ![p] = "session"]
  /\ UNCHANGED <<up, supervisor, proc, sock, lane, ends, exits>>

\* The REST call or the open fails.
GatewayFails(p) ==
  /\ Running(p, "rest")
  /\ loop' = [loop EXCEPT ![p] = "wait"]
  /\ UNCHANGED <<up, supervisor, proc, sock, lane, ends, exits>>

\* Discord ends the session, or asks for another one.
SessionEnds(p) ==
  /\ Running(p, "session")
  /\ loop' = [loop EXCEPT ![p] = "wait"]
  /\ UNCHANGED <<up, supervisor, proc, sock, lane, ends, exits>>

\* Mutant: a message that cannot be handed over is only logged.
InboundLogged(p) ==
  /\ Running(p, "session") /\ sock[p] = Absent
  /\ UNCHANGED linkVars

\* MESSAGE_CREATE while there is no lane connection: the call throws, the
\* message is dropped with its staged files, gatewaySession() rejects and #run
\* goes round.  Nothing closes the WebSocket of that session: its messages go on
\* being handed over, beside those of the next (they are told apart by their id).
InboundLost(p) ==
  /\ Running(p, "session") /\ sock[p] = Absent
  /\ loop' = [loop EXCEPT ![p] = "wait"]
  /\ UNCHANGED <<up, supervisor, proc, sock, lane, ends, exits>>

\* The same when the download fails or the lane refuses or loses the call.
InboundRefused(p) ==
  /\ Running(p, "session") /\ sock[p] # Absent
  /\ loop' = [loop EXCEPT ![p] = "wait"]
  /\ UNCHANGED <<up, supervisor, proc, sock, lane, ends, exits>>

RetryDelayOver(p) ==
  /\ Running(p, "wait") /\ loop' = [loop EXCEPT ![p] = "top"]
  /\ UNCHANGED <<up, supervisor, proc, sock, lane, ends, exits>>
-----------------------------------------------------------------------------
\* stop() of the daemon: first the supervisor, which tells its child.
StopDaemon ==
  /\ up = "up" /\ ends < MaxEnds /\ ends' = ends + 1
  /\ up' = "stopping" /\ child' = Absent
  /\ proc' = IF child # Absent /\ proc[child] = "running"
             THEN [proc EXCEPT ![child] = "told"] ELSE proc
  /\ UNCHANGED <<due, kin, loop, sock, lane, exits>>

\* SIGTERM: every await of the loop is aborted, but a REST call for the
\* gateway; the listener that would end the session after it comes too late.
Abort(p) ==
  /\ proc[p] = "told" /\ loop[p] \notin {"rest", "stuck"} /\ Gone(p)
  /\ UNCHANGED <<up, supervisor, ends, exits>>

AbortLate(p) ==
  /\ proc[p] = "told" /\ loop[p] = "rest"
  /\ loop' = [loop EXCEPT ![p] = "stuck"]
  /\ sock' = [sock EXCEPT ![p] = Absent]
  /\ wire' = [l \in Link |-> IF owner[l] = p THEN "cut" ELSE wire[l]]
  /\ UNCHANGED <<up, supervisor, proc, owner, served, drivers, latest, ends, exits>>

StuckEnds(p) ==
  /\ proc[p] = "told" /\ loop[p] = "stuck" /\ Gone(p)
  /\ UNCHANGED <<up, supervisor, ends, exits>>

\* 5 s after SIGTERM.
Kill(p) ==
  /\ up = "stopping" /\ p \in kin /\ proc[p] = "told" /\ Gone(p)
  /\ UNCHANGED <<up, supervisor, ends, exits>>

\* LaneServer.stop() destroys what is registered ...
StopServer ==
  /\ up = "stopping" /\ \A p \in kin : proc[p] # "told"
  /\ up' = "closing"
  /\ wire' = IF drivers = Absent THEN wire ELSE [wire EXCEPT ![drivers] = "cut"]
  /\ drivers' = Absent
  /\ UNCHANGED <<supervisor, process, owner, served, latest, ends, exits>>

\* ... and server.close() waits for every connection, registered or not.
ServerClosed ==
  /\ up = "closing" /\ \A l \in Link : served[l] = "no"
  /\ up' = "down" /\ kin' = {}
  /\ proc' = [p \in Proc |-> IF proc[p] = "exited" THEN "free" ELSE proc[p]]
  /\ latest' = Absent
  /\ UNCHANGED <<child, due, loop, sock, wire, owner, served, drivers, ends, exits>>

\* The daemon dies, or is killed while it waits in stop().
CrashDaemon ==
  /\ \/ up = "up" /\ ends < MaxEnds /\ ends' = ends + 1
     \/ up \in {"stopping", "closing"} /\ UNCHANGED ends
  /\ up' = "down" /\ child' = Absent /\ kin' = {}
  /\ proc' = [p \in Proc |-> IF proc[p] = "exited" THEN "free" ELSE proc[p]]
  /\ wire' = [l \in Link |-> "cut"] /\ served' = [l \in Link |-> "no"]
  /\ drivers' = Absent /\ latest' = Absent
  /\ UNCHANGED <<due, loop, sock, owner, exits>>
-----------------------------------------------------------------------------
SupervisorNext ==
  \/ Maintain \/ ReadStatus \/ BackoffEnds \/ StopDaemon
  \/ \E p \in Proc : ExitHeard(p) \/ Kill(p)

ServerNext ==
  \/ StartDaemon \/ StopServer \/ ServerClosed \/ CrashDaemon
  \/ \E l \in Link : Register(l) \/ CloseHeard(l)

DriverNext ==
  \E p \in Proc :
    \/ DialAgain(p) \/ DialFails(p) \/ (\E l \in Link : Dial(p, l))
    \/ Registered(p) \/ RegisterTimesOut(p) \/ Disconnected(p)
    \/ GatewayOpens(p) \/ GatewayFails(p) \/ SessionEnds(p)
    \/ InboundLost(p) \/ InboundRefused(p) \/ RetryDelayOver(p)
    \/ DriverExit(p) \/ Abort(p) \/ AbortLate(p) \/ StuckEnds(p)

LinkNext == SupervisorNext \/ ServerNext \/ DriverNext

LinkSpec == LinkInit /\ [][LinkNext]_linkVars

\* Timers fire, the server serves and hears, the loop of the driver goes on.
\* Messages keep coming while a session is open; that a session ends, a REST
\* call succeeds or a process dies is never assumed.
LinkFairness ==
  /\ WF_linkVars(Maintain) /\ WF_linkVars(BackoffEnds)
  /\ WF_linkVars(StopServer)
  /\ \A l \in Link : WF_linkVars(Register(l)) /\ WF_linkVars(CloseHeard(l))
  /\ \A p \in Proc :
       /\ WF_linkVars(ExitHeard(p)) /\ WF_linkVars(Disconnected(p))
       /\ WF_linkVars(Kill(p)) /\ WF_linkVars(Abort(p) \/ AbortLate(p))
       /\ WF_linkVars(RetryDelayOver(p))
       /\ WF_linkVars(DialAgain(p) \/ DialFails(p) \/ \E l \in Link : Dial(p, l))
       /\ WF_linkVars(Registered(p) \/ RegisterTimesOut(p))
       /\ WF_linkVars(GatewayOpens(p) \/ GatewayFails(p))
       /\ WF_linkVars(InboundLost(p))
-----------------------------------------------------------------------------
\* The connection that registered last is the active one for as long as it is
\* open, and no other ever is, however late its predecessors are heard to end
\* (the guard at lane-server.ts:404).
NewestIsActive ==
  /\ drivers # Absent => drivers = latest /\ served[drivers] = "registered"
  /\ latest # Absent /\ wire[latest] = "up" => drivers = latest

\* A daemon never has two live children of one channel, and none it does not
\* know of: neither a status read before the exit callback nor a restart makes
\* it lose one (supervisor.ts:49,111).
OneChild == \A p \in kin : proc[p] = "running" => p = child

\* While the daemon is up, the channel's driver is registered again and again,
\* whatever ended its connection: a message that finds no connection makes it
\* dial (discord.ts:160-177,196).
DriverReturns == (up = "up") ~> (drivers # Absent \/ up # "up")
=============================================================================
