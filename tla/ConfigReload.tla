---------------------------- MODULE ConfigReload ----------------------------
(***************************************************************************)
(* The configuration file and the daemon that runs it, for one lane with   *)
(* one channel.  A writer is an agent-mesh command or a screen of the TUI: *)
(* it loads the file, changes it, saves it and asks the daemon for a       *)
(* config.reload.  start(), stop() and every reload() run from one await   *)
(* to the next and share the daemon's maps; nothing keeps one from going   *)
(* on between the awaits of another.                                       *)
(***************************************************************************)
EXTENDS Naturals, FiniteSets

CONSTANTS Writer,
          Main,       \* the start() and stop() of the daemon
          HubUrl, Channel,
          Core,       \* the configuration of a lane without its channels
          ClaudeCore, \* those of a Claude runtime
          Off,        \* absent or disabled
          MaxEdits, MaxFailures \* bounds

Op     == Writer \cup {Main}
Doc    == [hub : HubUrl, core : Core \cup {Off}, channel : Channel \cup {Off}]
LaneOf == [core : Core, channel : Channel \cup {Off}]

\* What a lane is made of, in the order it is taken down.
Parts == <<"worker", "claude", "driver", "lane", "hub">>
Part  == {Parts[i] : i \in 1..5}
Thing == [part : Part, of : HubUrl \cup Core \cup Channel, n : Nat]

ASSUME ReloadAssumption ==
  /\ Main \notin Writer /\ Off \notin HubUrl \cup Core \cup Channel \cup LaneOf \cup Thing
  /\ ClaudeCore \subseteq Core /\ IsFiniteSet(Writer)
  /\ MaxEdits \in Nat /\ MaxFailures \in Nat

VARIABLES
  file,    \* the document on disk
  at,      \* the await each operation is at
  doc,     \* the document it works with
  held,    \* the thing whose end it awaits
  daemon,  \* hub: of #config; lane: the controller; entry: the maps of the
           \* daemon and the lanes of the host; things: what really runs;
           \* broken: history, the last creation of the lane failed
  control, \* the control socket is open
  told,    \* history: the daemon read the file since it was last written
  overlapped, \* history: this daemon was asked for a reload or to stop while
              \* it was busy with another request or its start
  edits, failures

reloadVars == <<file, at, doc, held, daemon, control, told, overlapped, edits, failures>>

NewDaemon == [hub |-> file.hub, lane |-> Off, entry |-> [k \in Part |-> Off],
              things |-> {}, broken |-> FALSE]

\* Every variable has the shape of its file, map or continuation.
ReloadTypeOK ==
  /\ file \in Doc /\ doc \in [Op -> Doc]
  /\ at \in [Op -> Part \cup {"idle", "edit", "ask", "read", "loaded", "create", "listen", "add",
                              "spawn", "sync", "up", "closing", "half"}]
  /\ held \in [Op -> Thing \cup {Off}]
  /\ daemon \in [hub : HubUrl, lane : LaneOf \cup {Off}, entry : [Part -> Thing \cup {Off}],
                 things : SUBSET Thing, broken : BOOLEAN]
  /\ {control, told, overlapped} \subseteq BOOLEAN
  /\ edits \in 0..MaxEdits /\ failures \in 0..MaxFailures

ReloadInit ==
  /\ file \in Doc /\ at = [p \in Op |-> "idle"] /\ doc = [p \in Op |-> file]
  /\ held = [p \in Op |-> Off] /\ daemon = NewDaemon /\ control = FALSE
  /\ told = FALSE /\ overlapped = FALSE /\ edits = 0 /\ failures = 0
-----------------------------------------------------------------------------
Busy(p) == at[p] \notin {"idle", "edit", "ask", "up", "half"}

\* A request the daemon takes at once, whatever else it is busy with.
Requested == overlapped' = (overlapped \/ \E q \in Op : Busy(q))

\* p goes on with the daemon as d: to an await, of h if it is the end of one.
Awaits(p, x, h, d) ==
  at' = [at EXCEPT ![p] = x] /\ held' = [held EXCEPT ![p] = h] /\ daemon' = d
Ends(p, d) == Awaits(p, IF p = Main THEN "up" ELSE "idle", Off, d)

\* d with a new thing under its key, whatever was there.
Adding(d, k, x) ==
  LET used == {t.n : t \in {u \in daemon.things \cup {held[p] : p \in Op} : u # Off}}
      new  == [part |-> k, of |-> x, n |-> CHOOSE n \in 0..Cardinality(used) : n \notin used]
  IN  [d EXCEPT !.things = @ \cup {new}, !.entry[k] = new]
Without(d, k, t) == [d EXCEPT !.things = @ \ {t}, !.entry[k] = Off]
-----------------------------------------------------------------------------
\* What may be made of the file: the Hub is set, a lane is added without
\* channels or enabled with those it has, disabled or removed with them, and a
\* channel is added, enabled, disabled or removed.
HubSet  == {[file EXCEPT !.hub = x] : x \in HubUrl}
LaneOn  == {[file EXCEPT !.core = x, !.channel = k] :
              x \in {y \in Core : file.core = Off}, k \in {file.channel, Off}}
LaneOff == {[file EXCEPT !.core = Off, !.channel = k] : k \in {file.channel, Off}}
ChannelSet == {[file EXCEPT !.channel = x] : x \in Channel \cup {Off}}

\* A writer loads the file and changes it; a screen of the TUI keeps what it
\* loaded while it asks its questions.
Load(w) ==
  /\ at[w] = "idle" /\ edits < MaxEdits /\ edits' = edits + 1
  /\ \E d \in (HubSet \cup LaneOn \cup LaneOff \cup ChannelSet) \ {file} :
       doc' = [doc EXCEPT ![w] = d]
  /\ Awaits(w, "edit", Off, daemon)
  /\ UNCHANGED <<file, control, told, overlapped, failures>>

\* agent-mesh daemon reload.
AskAgain(w) ==
  /\ at[w] = "idle" /\ edits < MaxEdits /\ edits' = edits + 1
  /\ Awaits(w, "ask", Off, daemon)
  /\ UNCHANGED <<file, doc, control, told, overlapped, failures>>

\* The revision is not compared: the last to save wins.
Save(w) ==
  /\ at[w] = "edit" /\ Awaits(w, "ask", Off, daemon)
  /\ file' = doc[w] /\ told' = FALSE
  /\ UNCHANGED <<doc, control, overlapped, edits, failures>>

\* The file cannot be written; or what follows the rename fails, and the edit
\* is saved without a reload.
SaveFails(w) ==
  /\ at[w] = "edit" /\ Awaits(w, "idle", Off, daemon)
  /\ \/ UNCHANGED <<file, told>>
     \/ file' = doc[w] /\ told' = FALSE
  /\ UNCHANGED <<doc, control, overlapped, edits, failures>>

\* Without a daemon there is no reload.
Ask(w) ==
  /\ at[w] = "ask" /\ Awaits(w, IF control THEN "read" ELSE "idle", Off, daemon)
  /\ IF control THEN Requested ELSE UNCHANGED overlapped
  /\ UNCHANGED <<file, doc, control, told, edits, failures>>

Reads(w) ==
  /\ at[w] = "read" /\ Awaits(w, "loaded", Off, daemon)
  /\ doc' = [doc EXCEPT ![w] = file] /\ told' = TRUE
  /\ UNCHANGED <<file, control, overlapped, edits, failures>>
-----------------------------------------------------------------------------
\* Mutant: the driver of a channel that is off is started too.
WithDriverAlways(d) == IF d.lane # Off THEN Adding(d, "driver", d.lane.channel) ELSE d

\* #startChannelSupervisors and the end of #syncChannelSupervisors.
WithDriver(d) == IF d.lane # Off /\ d.lane.channel # Off
                 THEN Adding(d, "driver", d.lane.channel) ELSE d

\* The channels of a lane that stays; its driver runs, or is started.
Synced(p, d) ==
  LET l == [d EXCEPT !.lane = IF @ = Off THEN Off ELSE [@ EXCEPT !.channel = doc[p].channel]]
  IN  Ends(p, IF d.entry["driver"] = Off THEN WithDriver(l) ELSE l)

\* The second half of reload(): the lane is created or brought up to date.
Applies(p, d) ==
  LET driver == d.entry["driver"] IN
  \/ doc[p].core = Off /\ Ends(p, [d EXCEPT !.broken = FALSE])
  \/ doc[p].core # Off /\ d.lane = Off /\ Awaits(p, "create", Off, d)
  \/ /\ doc[p].core # Off /\ d.lane # Off
     /\ IF driver # Off /\ driver.of # doc[p].channel
        THEN Awaits(p, "sync", driver, d) ELSE Synced(p, d)

\* Mutant: the drivers of the lane are left to themselves.
AwaitedButDrivers(d, i) ==
  {j \in i..5 : Parts[j] = "lane" \/ (Parts[j] # "driver" /\ d.entry[Parts[j]] # Off)}

\* The parts from i on whose end is awaited: those there are, and removeLane.
Awaited(d, i) == {j \in i..5 : Parts[j] = "lane" \/ d.entry[Parts[j]] # Off}

\* Taking down goes on at part i; the entry of the lane goes before its end.
TakesDown(p, d, i) ==
  LET left == Awaited(d, i)
      j == CHOOSE j \in left : \A k \in left : j <= k
  IN  IF left # {}
      THEN Awaits(p, Parts[j], d.entry[Parts[j]],
                  IF Parts[j] = "lane" THEN [d EXCEPT !.entry["lane"] = Off] ELSE d)
      ELSE IF p = Main THEN Awaits(p, "idle", Off, [d EXCEPT !.lane = Off])
      ELSE Applies(p, [d EXCEPT !.lane = Off, !.hub = doc[p].hub])

\* Mutant: the Hub of the new document is not compared.
ReplacesByCore(w) == daemon.lane # Off /\ doc[w].core # daemon.lane.core

\* Whether reload() takes the lane down before it creates it again.
Replaces(w) == /\ daemon.lane # Off
               /\ doc[w].hub # daemon.hub \/ doc[w].core # daemon.lane.core

Decides(w) ==
  /\ at[w] = "loaded"
  /\ IF Replaces(w) THEN TakesDown(w, daemon, 1)
                    ELSE Applies(w, [daemon EXCEPT !.hub = doc[w].hub])
  /\ UNCHANGED <<file, doc, control, told, overlapped, edits, failures>>

\* What p awaits the end of has ended.  stop() goes on only when the control
\* connections are closed too.
Stopped(p, i) ==
  LET d == Without(daemon, Parts[i], held[p])
      l == [daemon EXCEPT !.things = @ \ {held[p]}] IN
  /\ at[p] = Parts[i]
  /\ IF Parts[i] # "lane" THEN TakesDown(p, d, i + 1) /\ UNCHANGED control
     ELSE IF p = Main THEN Awaits(p, "closing", Off, l) /\ control' = FALSE
     ELSE TakesDown(p, l, i + 1) /\ UNCHANGED control
  /\ UNCHANGED <<file, doc, told, overlapped, edits, failures>>

SyncStopped(w) ==
  /\ at[w] = "sync" /\ Synced(w, Without(daemon, "driver", held[w]))
  /\ UNCHANGED <<file, doc, control, told, overlapped, edits, failures>>
-----------------------------------------------------------------------------
\* #createController: its databases are open, the connection to the Hub starts.
Created(p) ==
  /\ at[p] = "create"
  /\ Awaits(p, IF p = Main THEN "listen" ELSE "add", Off,
            Adding([daemon EXCEPT !.lane = [core |-> doc[p].core, channel |-> doc[p].channel]],
                   "hub", daemon.hub))
  /\ UNCHANGED <<file, doc, control, told, overlapped, edits, failures>>

\* host.start() listens before it adds the lanes.
Listens ==
  /\ at[Main] = "listen" /\ control' = TRUE
  /\ IF doc[Main].core = Off THEN Ends(Main, daemon) ELSE Awaits(Main, "add", Off, daemon)
  /\ UNCHANGED <<file, doc, told, overlapped, edits, failures>>

\* The runtime of the lane, once its socket listens; that of a Claude lane is
\* awaited.  reload() throws when the lane is gone by then.
Added(p) ==
  LET d == Adding(daemon, "lane", doc[p].core)
      c == daemon.lane.core IN
  /\ at[p] = "add" /\ daemon.entry["lane"] = Off
  /\ IF daemon.lane = Off THEN Ends(p, d)
     ELSE IF c \in ClaudeCore THEN Awaits(p, "spawn", Off, Adding(d, "claude", c))
     ELSE Ends(p, [WithDriver(IF d.entry["worker"] # Off THEN d ELSE Adding(d, "worker", c))
                   EXCEPT !.broken = FALSE])
  /\ UNCHANGED <<file, doc, control, told, overlapped, edits, failures>>

Spawned(p) ==
  /\ at[p] = "spawn" /\ Ends(p, [WithDriver(daemon) EXCEPT !.broken = FALSE])
  /\ UNCHANGED <<file, doc, control, told, overlapped, edits, failures>>

\* The databases do not open, or the lane has a socket already.  A start that
\* fails closes the control socket and leaves the connections to the Hub.
CreateFails(p) ==
  /\ \/ /\ at[p] \in {"create", "add"} /\ failures < MaxFailures
        /\ failures' = failures + 1
     \/ at[p] = "add" /\ daemon.entry["lane"] # Off /\ UNCHANGED failures
  /\ Awaits(p, IF p # Main THEN "idle" ELSE IF at[p] = "create" THEN "idle" ELSE "half", Off,
            [daemon EXCEPT !.broken = TRUE])
  /\ control' = (control /\ p # Main)
  /\ UNCHANGED <<file, doc, told, overlapped, edits>>
-----------------------------------------------------------------------------
Start ==
  /\ at[Main] = "idle" /\ ~ \E p \in Writer : Busy(p)
  /\ Awaits(Main, IF file.core = Off THEN "listen" ELSE "create", Off, NewDaemon)
  /\ doc' = [doc EXCEPT ![Main] = file] /\ told' = TRUE /\ overlapped' = FALSE
  /\ UNCHANGED <<file, control, edits, failures>>

Stop ==
  /\ at[Main] = "up" /\ Requested /\ TakesDown(Main, daemon, 1)
  /\ UNCHANGED <<file, doc, control, told, edits, failures>>

\* host.stop() ends when the control connections have.
Closed ==
  /\ at[Main] = "closing" /\ ~ \E w \in Writer : Busy(w)
  /\ TakesDown(Main, daemon, 5)
  /\ UNCHANGED <<file, doc, control, told, overlapped, edits, failures>>

\* The process is killed; the calls it was asked for fail.
KillDaemon ==
  /\ at[Main] # "idle"
  /\ at' = [p \in Op |-> IF p = Main \/ Busy(p) THEN "idle" ELSE at[p]]
  /\ held' = [p \in Op |-> Off] /\ daemon' = NewDaemon /\ control' = FALSE
  /\ overlapped' = FALSE
  /\ UNCHANGED <<file, doc, told, edits, failures>>

ReloadNext ==
  \/ Listens \/ Start \/ Stop \/ Closed \/ KillDaemon
  \/ \E w \in Writer : \/ Load(w) \/ AskAgain(w) \/ Save(w) \/ SaveFails(w)
                       \/ Ask(w) \/ Reads(w) \/ Decides(w) \/ SyncStopped(w)
  \/ \E p \in Op : \/ Created(p) \/ Added(p) \/ Spawned(p) \/ CreateFails(p)
                   \/ \E i \in 1..5 : Stopped(p, i)

ReloadSpec == ReloadInit /\ [][ReloadNext]_reloadVars
-----------------------------------------------------------------------------
\* What runs for the document d.
Wanted(d) ==
  IF d.core = Off THEN {}
  ELSE {<<"hub", d.hub>>, <<"lane", d.core>>,
        <<IF d.core \in ClaudeCore THEN "claude" ELSE "worker", d.core>>}
       \cup IF d.channel = Off THEN {} ELSE {<<"driver", d.channel>>}

\* Once the daemon has read what was last saved and is done with it, exactly
\* what the file asks for runs, whatever ran before and however the writers
\* took turns at the file; a lane that could not be created is created by the
\* next reload that takes it down (OPS-003).
Applied ==
  (/\ at[Main] = "up" /\ told /\ ~daemon.broken /\ ~ \E p \in Op : Busy(p))
  => {<<t.part, t.of>> : t \in daemon.things} = Wanted(file)

\* So it is until two requests meet in one daemon; the next start sets it right.
ReloadApplies == overlapped \/ Applied

\* Nothing runs that the daemon has lost sight of, and that no reload and no
\* stop() would ever end, at whatever await one is, fails or is killed: until
\* two requests meet.
NothingStray ==
  overlapped \/ daemon.things \subseteq {daemon.entry[k] : k \in Part} \cup {held[p] : p \in Op}

\* The result of a reload is what the file says (control-plane.md:17).  Violated
\* when a reload meets another request, or the start.
FileAlwaysApplied == Applied
=============================================================================
