-------------------------- MODULE ConfigReloadProofs --------------------------
(***************************************************************************)
(* Theorems about ConfigReload, for any number of writers, documents,      *)
(* edits and failures: whatever start, stop and the reloads do to one      *)
(* another, everything keeps its type; and from a start until two requests *)
(* meet in that daemon, exactly what the file asks for runs and nothing is *)
(* lost sight of.                                                          *)
(***************************************************************************)
EXTENDS ConfigReload, FiniteSetTheorems, TLAPS

Starting == {"create", "listen", "add", "spawn"}

DaemonType == [hub : HubUrl, lane : LaneOf \cup {Off}, entry : [Part -> Thing \cup {Off}],
               things : SUBSET Thing, broken : BOOLEAN]

\* What runs is what the maps of the daemon d name, each part under its own key,
\* and the thing h whose end is awaited.
Known(d, h) ==
  /\ d.things = ({d.entry[k] : k \in Part} \cup {h}) \ {Off}
  /\ \A k \in Part : d.entry[k] # Off => d.entry[k].part = k

Cleared(d, K) == \A k \in K : d.entry[k] = Off
Has(d, k, x)  == d.entry[k] # Off /\ d.entry[k].of = x

\* A lane that was created runs with all its parts, and without a lane nothing does.
WholeButDriver(d) ==
  /\ d.lane = Off => Cleared(d, Part)
  /\ d.lane # Off /\ ~d.broken =>
       /\ Has(d, "hub", d.hub) /\ Has(d, "lane", d.lane.core)
       /\ IF d.lane.core \in ClaudeCore
          THEN Has(d, "claude", d.lane.core) /\ d.entry["worker"] = Off
          ELSE Has(d, "worker", d.lane.core) /\ d.entry["claude"] = Off

Whole(d) ==
  /\ WholeButDriver(d)
  /\ d.lane # Off /\ ~d.broken =>
       IF d.lane.channel = Off THEN d.entry["driver"] = Off
                               ELSE Has(d, "driver", d.lane.channel)

LaneFor(m) == IF m.core = Off THEN Off ELSE [core |-> m.core, channel |-> m.channel]

\* The lane of the document m has its controller, and nothing else yet but K.
Begun(d, m, K) == /\ m.core # Off /\ d.hub = m.hub /\ d.lane = LaneFor(m)
                  /\ Has(d, "hub", m.hub) /\ Cleared(d, Part \ ({"hub"} \cup K))

\* How far an operation is that works with the document m, by its await.
Progress(p, a, h, d, m) ==
  /\ Known(d, h)
  /\ a \in {"read", "loaded", "sync"} => p \in Writer /\ Whole(d)
  /\ a \notin Part \cup {"sync"} => h = Off
  /\ a = "sync" => /\ h = d.entry["driver"] /\ h # Off
                   /\ d.lane # Off /\ d.lane.core = m.core /\ d.hub = m.hub
  /\ a = "create" => m.core # Off /\ d.hub = m.hub /\ d.lane = Off /\ Cleared(d, Part)
  /\ a = "listen" => /\ p = Main
                     /\ m.core = Off => d.hub = m.hub /\ d.lane = Off /\ Cleared(d, Part)
                     /\ m.core # Off => Begun(d, m, {})
  /\ a = "add" => Begun(d, m, {})
  /\ a = "spawn" => /\ m.core \in ClaudeCore /\ Begun(d, m, {"lane", "claude"})
                    /\ Has(d, "lane", m.core) /\ Has(d, "claude", m.core)
  /\ a = "closing" => p = Main /\ Cleared(d, Part \ {"hub"})
  /\ \A i \in 1..5 : a = Parts[i] => Cleared(d, {Parts[j] : j \in 1..(i - 1)})
  /\ a = "lane" => d.entry["lane"] = Off /\ (h # Off => h.part = "lane")
  /\ a \in Part \ {"lane"} => h = d.entry[a] /\ h # Off

\* One operation at a time; the rest wait for nothing.
Sequential ==
  /\ \A p, q \in Op : Busy(p) /\ Busy(q) => p = q
  /\ \A p \in Op : ~Busy(p) => held[p] = Off
  /\ \A p \in Op : Busy(p) => Progress(p, at[p], held[p], daemon, doc[p])
  /\ (\A p \in Op : ~Busy(p)) => Known(daemon, Off) /\ Whole(daemon)

\* The lane that runs is that of the document m, or it could not be created.
Fits(d, m) == ~d.broken => d.hub = m.hub /\ d.lane = LaneFor(m)

\* What has been read and not written since is what an operation works with, and
\* what runs once no operation goes on.
Heard ==
  told =>
    /\ \A p \in Op : at[p] \in Starting \/ (p \in Writer /\ Busy(p) /\ at[p] # "read")
                       => doc[p] = file
    /\ at[Main] = "up" /\ (\A p \in Op : ~Busy(p)) => Fits(daemon, file)

Phase == Part \cup {"idle", "edit", "ask", "read", "loaded", "create", "listen", "add",
                   "spawn", "sync", "up", "closing", "half"}
Resting == {"idle", "edit", "ask", "up", "half"}

\* Types, with the numbers in use finitely many and a lane to create for whoever
\* creates one.  This much no overlap disturbs.
ReloadTyped ==
  /\ ReloadTypeOK /\ IsFiniteSet(daemon.things)
  /\ \A p \in Op : at[p] \in {"create", "add"} => doc[p].core # Off
  /\ \A p \in Op : ~Busy(p) => held[p] = Off

FineDaemon == {d \in DaemonType : IsFiniteSet(d.things)}

\* p goes on with whatever daemon.
Goes(p, m) ==
  \E x \in Phase, h \in Thing \cup {Off}, e \in FineDaemon :
    /\ Awaits(p, x, h, e)
    /\ x \in {"create", "add"} => m.core # Off
    /\ x \in Resting => h = Off

\* p goes on to an await that is right for the document m, or ends with what m
\* asks for; a stop() ends with nothing.
Lands(p, m) ==
  \E x \in Phase, h \in Thing \cup {Off}, e \in DaemonType :
    /\ Awaits(p, x, h, e)
    /\ IF x \notin Resting THEN Progress(p, x, h, e, m)
       ELSE /\ h = Off /\ Known(e, Off) /\ Whole(e)
            /\ p \in Writer \/ x = "up" => Fits(e, m)

\* Until two requests meet in the daemon that runs.
ReloadInv == ReloadTyped /\ (overlapped \/ (Sequential /\ Heard))
-----------------------------------------------------------------------------
\* The parts of a lane, by name.
LEMMA PartNames ==
  /\ Part = {"worker", "claude", "driver", "lane", "hub"}
  /\ Parts[1] = "worker" /\ Parts[2] = "claude" /\ Parts[3] = "driver"
  /\ Parts[4] = "lane" /\ Parts[5] = "hub"
<1>1. /\ Parts[1] = "worker" /\ Parts[2] = "claude" /\ Parts[3] = "driver"
      /\ Parts[4] = "lane" /\ Parts[5] = "hub"
  BY DEF Parts
<1>2. 1..5 = {1, 2, 3, 4, 5}
  OBVIOUS
<1> QED BY <1>1, <1>2 DEF Part

\* A finite set leaves one of 0 to its size for a new number.
LEMMA FreeNumber ==
  ASSUME NEW used, IsFiniteSet(used)
  PROVE  \E n \in 0..Cardinality(used) : n \notin used
<1> DEFINE c == Cardinality(used)
<1>1. c \in Nat
  BY FS_CardinalityType
<1> HIDE DEF c
<1>2. Cardinality(0..c) = c + 1
  BY <1>1, FS_Interval
<1>3. 0..c \subseteq used => Cardinality(0..c) <= c
  BY FS_Subset DEF c
<1>4. ~ (0..c \subseteq used)
  BY <1>1, <1>2, <1>3
<1> QED BY <1>4 DEF c

\* The numbers in use are finitely many.
LEMMA NumberLeft ==
  ASSUME ReloadTyped
  PROVE  LET used == {t.n : t \in {u \in daemon.things \cup {held[p] : p \in Op} : u # Off}}
         IN  \E n \in 0..Cardinality(used) : n \notin used
<1> DEFINE H    == {held[p] : p \in Op}
           S    == {u \in daemon.things \cup H : u # Off}
           used == {t.n : t \in S}
           f    == [t \in S |-> t.n]
<1>1. IsFiniteSet(Op)
  BY ReloadAssumption, FS_Singleton, FS_Union DEF Op
<1>2. held \in Surjection(Op, H)
  BY DEF ReloadTyped, ReloadTypeOK, Surjection
<1> HIDE DEF H
<1>3. IsFiniteSet(H)
  BY <1>1, <1>2, FS_Surjection
<1>4. IsFiniteSet(S)
  <2>1. IsFiniteSet(daemon.things \cup H)
    BY <1>3, FS_Union DEF ReloadTyped
  <2> QED BY <2>1, FS_Subset
<1> HIDE DEF S
<1>5. f \in Surjection(S, used)
  BY DEF Surjection
<1>6. IsFiniteSet(used)
  BY <1>4, <1>5, FS_Surjection
<1> HIDE DEF used
<1>7. \E n \in 0..Cardinality(used) : n \notin used
  BY <1>6, FreeNumber
<1> QED BY <1>7 DEF used, S, H

\* What is added is a thing with a number of its own.
LEMMA AddingTyped ==
  ASSUME ReloadTyped, NEW d \in DaemonType, NEW k \in Part, NEW x \in HubUrl \cup Core \cup Channel
  PROVE  LET e == Adding(d, k, x) IN
         /\ e \in DaemonType
         /\ IsFiniteSet(d.things) => IsFiniteSet(e.things)
         /\ e.hub = d.hub /\ e.lane = d.lane /\ e.broken = d.broken
         /\ e.entry[k] \in Thing /\ e.entry[k].part = k /\ e.entry[k].of = x
         /\ e.things = d.things \cup {e.entry[k]}
         /\ \A j \in Part \ {k} : e.entry[j] = d.entry[j]
<1> DEFINE used == {t.n : t \in {u \in daemon.things \cup {held[p] : p \in Op} : u # Off}}
           n    == CHOOSE m \in 0..Cardinality(used) : m \notin used
           new  == [part |-> k, of |-> x, n |-> n]
           e    == Adding(d, k, x)
<1>1. n \in 0..Cardinality(used)
  BY NumberLeft
<1>2. e = [d EXCEPT !.things = @ \cup {new}, !.entry[k] = new]
  BY DEF Adding
<1> HIDE DEF n, e
<1>3. new \in Thing /\ new.part = k /\ new.of = x
  BY <1>1 DEF Thing
<1> HIDE DEF new
<1>4. /\ e.hub = d.hub /\ e.lane = d.lane /\ e.broken = d.broken /\ e \in DaemonType
      /\ e.things = d.things \cup {new} /\ e.entry = [d.entry EXCEPT ![k] = new]
  BY <1>2, <1>3 DEF DaemonType
<1>5. IsFiniteSet(d.things) => IsFiniteSet(e.things)
  BY <1>4, FS_AddElement
<1>6. e.entry[k] = new /\ \A j \in Part \ {k} : e.entry[j] = d.entry[j]
  BY <1>4 DEF DaemonType
<1> QED BY <1>3, <1>4, <1>5, <1>6 DEF e

\* A finite set of places has a first one.
LEMMA FirstPlace ==
  ASSUME NEW S, S \subseteq 1..5, S # {}
  PROVE  \E j \in S : \A k \in S : j <= k
<1>1. CASE 1 \in S
  BY <1>1
<1>2. CASE 1 \notin S /\ 2 \in S
  BY <1>2
<1>3. CASE 1 \notin S /\ 2 \notin S /\ 3 \in S
  BY <1>3
<1>4. CASE 1 \notin S /\ 2 \notin S /\ 3 \notin S /\ 4 \in S
  BY <1>4
<1>5. CASE 1 \notin S /\ 2 \notin S /\ 3 \notin S /\ 4 \notin S
  <2>1. PICK x : x \in S
    OBVIOUS
  <2>2. \A k \in S : k = 5
    BY <1>5
  <2> QED BY <2>1, <2>2
<1> QED BY <1>1, <1>2, <1>3, <1>4, <1>5

-----------------------------------------------------------------------------
\* A daemon with one thing more, or none, is a daemon.
LEMMA WithDriverTyped ==
  ASSUME ReloadTyped, NEW d \in FineDaemon
  PROVE  WithDriver(d) \in FineDaemon
<1>1. "driver" \in Part /\ (d.lane # Off /\ d.lane.channel # Off => d.lane.channel \in Channel)
  BY PartNames DEF FineDaemon, DaemonType, LaneOf
<1> QED BY <1>1, AddingTyped DEF WithDriver, FineDaemon

LEMMA SyncedGoes ==
  ASSUME ReloadTyped, NEW p \in Op, NEW d \in FineDaemon, Synced(p, d)
  PROVE  Goes(p, doc[p])
<1> DEFINE l == [d EXCEPT !.lane = IF @ = Off THEN Off ELSE [@ EXCEPT !.channel = doc[p].channel]]
           e == IF d.entry["driver"] = Off THEN WithDriver(l) ELSE l
           x == IF p = Main THEN "up" ELSE "idle"
<1>1. doc[p].channel \in Channel \cup {Off}
  BY DEF ReloadTyped, ReloadTypeOK, Doc
<1>2. l \in FineDaemon
  BY <1>1 DEF FineDaemon, DaemonType, LaneOf
<1>3. Awaits(p, x, Off, e)
  BY DEF Synced, Ends
<1> HIDE DEF l
<1>4. e \in FineDaemon
  BY <1>2, WithDriverTyped
<1> QED BY <1>3, <1>4 DEF Goes, Phase, Resting

LEMMA AppliesGoes ==
  ASSUME ReloadTyped, NEW p \in Op, NEW d \in FineDaemon, Applies(p, d)
  PROVE  Goes(p, doc[p])
<1>1. CASE doc[p].core = Off /\ Ends(p, [d EXCEPT !.broken = FALSE])
  <2>1. [d EXCEPT !.broken = FALSE] \in FineDaemon
    BY DEF FineDaemon, DaemonType
  <2> QED BY <1>1, <2>1 DEF Ends, Goes, Phase, Resting
<1>2. CASE doc[p].core # Off /\ Awaits(p, "create", Off, d)
  BY <1>2 DEF Goes, Phase, Resting
<1>3. CASE Awaits(p, "sync", d.entry["driver"], d)
  <2>1. d.entry["driver"] \in Thing \cup {Off}
    BY PartNames DEF FineDaemon, DaemonType
  <2> QED BY <1>3, <2>1 DEF Goes, Phase, Resting
<1>4. CASE Synced(p, d)
  BY <1>4, SyncedGoes
<1> QED BY <1>1, <1>2, <1>3, <1>4 DEF Applies

LEMMA TakesDownGoes ==
  ASSUME ReloadTyped, NEW p \in Op, NEW d \in FineDaemon, NEW i \in 1..6, TakesDown(p, d, i)
  PROVE  Goes(p, doc[p])
<1> DEFINE left == Awaited(d, i)
           j == CHOOSE j \in left : \A k \in left : j <= k
<1>1. CASE left # {}
  <2> DEFINE e == IF Parts[j] = "lane" THEN [d EXCEPT !.entry["lane"] = Off] ELSE d
             h == d.entry[Parts[j]]
  <2>1. left \subseteq 1..5
    BY DEF Awaited
  <2>2. j \in left
    <3> HIDE DEF left
    <3> QED BY <1>1, <2>1, FirstPlace
  <2>3. Awaits(p, Parts[j], h, e)
    BY <1>1 DEF TakesDown
  <2> HIDE DEF j
  <2>4. Parts[j] \in Part
    BY <2>1, <2>2 DEF Part
  <2>5. h \in Thing \cup {Off} /\ e \in FineDaemon
    BY <2>4 DEF FineDaemon, DaemonType
  <2>6. Parts[j] \in Phase /\ Parts[j] \notin Resting \cup {"create", "add"}
    BY <2>4, PartNames DEF Phase, Resting
  <2> QED BY <2>3, <2>5, <2>6 DEF Goes
<1>2. CASE left = {} /\ p = Main
  <2>1. [d EXCEPT !.lane = Off] \in FineDaemon
    BY DEF FineDaemon, DaemonType
  <2>2. Awaits(p, "idle", Off, [d EXCEPT !.lane = Off])
    BY <1>2 DEF TakesDown
  <2> QED BY <2>1, <2>2 DEF Goes, Phase, Resting
<1>3. CASE left = {} /\ p # Main
  <2>1. doc[p].hub \in HubUrl
    BY DEF ReloadTyped, ReloadTypeOK, Doc
  <2>2. [d EXCEPT !.lane = Off, !.hub = doc[p].hub] \in FineDaemon
    BY <2>1 DEF FineDaemon, DaemonType
  <2>3. Applies(p, [d EXCEPT !.lane = Off, !.hub = doc[p].hub])
    BY <1>3 DEF TakesDown
  <2> QED BY <2>2, <2>3, AppliesGoes
<1> QED BY <1>1, <1>2, <1>3

\* What one operation goes on to leaves the others as they are.
LEMMA GoesKeeps ==
  ASSUME ReloadTyped, NEW p \in Op, Goes(p, doc'[p]),
         doc' \in [Op -> Doc], \A q \in Op : q # p => doc'[q] = doc[q],
         file' \in Doc, {control', told', overlapped'} \subseteq BOOLEAN,
         edits' \in 0..MaxEdits, failures' \in 0..MaxFailures
  PROVE  ReloadTyped'
<1>1. PICK x \in Phase, h \in Thing \cup {Off}, e \in FineDaemon :
        /\ Awaits(p, x, h, e)
        /\ x \in {"create", "add"} => doc'[p].core # Off
        /\ x \in Resting => h = Off
  BY DEF Goes
<1>2. at \in [Op -> Phase] /\ held \in [Op -> Thing \cup {Off}]
  BY DEF ReloadTyped, ReloadTypeOK, Phase
<1>3. /\ at' = [at EXCEPT ![p] = x] /\ held' = [held EXCEPT ![p] = h] /\ daemon' = e
      /\ at'[p] = x /\ held'[p] = h
      /\ \A q \in Op : q # p => at'[q] = at[q] /\ held'[q] = held[q]
  BY <1>1, <1>2 DEF Awaits
<1>4. at' \in [Op -> Phase] /\ held' \in [Op -> Thing \cup {Off}] /\ daemon' \in FineDaemon
  BY <1>2, <1>3
<1>5. \A q \in Op : at'[q] \in {"create", "add"} => doc'[q].core # Off
  BY <1>1, <1>3 DEF ReloadTyped
<1>6. \A q \in Op : ~Busy(q)' => held'[q] = Off
  BY <1>1, <1>3 DEF ReloadTyped, Busy, Resting
<1> QED BY <1>4, <1>5, <1>6 DEF ReloadTyped, ReloadTypeOK, Phase, FineDaemon, DaemonType

\* What a writer makes of a file is a file.
LEMMA EditsAreDocs ==
  ASSUME file \in Doc
  PROVE  HubSet \cup LaneOn \cup LaneOff \cup ChannelSet \subseteq Doc
<1>1. HubSet \subseteq Doc /\ ChannelSet \subseteq Doc
  BY DEF HubSet, ChannelSet, Doc
<1> DEFINE On(x, k) == [file EXCEPT !.core = x, !.channel = k]
<1>2. \A x \in Core \cup {Off}, k \in Channel \cup {Off} : On(x, k) \in Doc
  BY DEF Doc
<1>3. file.channel \in Channel \cup {Off}
  BY DEF Doc
<1> HIDE DEF On
<1>4. LaneOn \subseteq Doc
  <2>1. LaneOn = {On(x, k) : x \in {y \in Core : file.core = Off}, k \in {file.channel, Off}}
    BY DEF LaneOn, On
  <2> QED BY <1>2, <1>3, <2>1
<1>5. LaneOff \subseteq Doc
  <2>1. LaneOff = {On(Off, k) : k \in {file.channel, Off}}
    BY Zenon DEF LaneOff, On
  <2> QED BY <1>2, <1>3, <2>1
<1> QED BY <1>1, <1>4, <1>5

\* No step of a writer, of a reload, of start() or of stop() disturbs the types,
\* in whatever order they come.
LEMMA TypedStep ==
  ASSUME ReloadTyped, [ReloadNext]_reloadVars
  PROVE  ReloadTyped'
<1> USE ReloadAssumption
<1>0. /\ doc \in [Op -> Doc] /\ file \in Doc /\ daemon \in FineDaemon
      /\ at \in [Op -> Phase] /\ held \in [Op -> Thing \cup {Off}]
      /\ {control, told, overlapped} \subseteq BOOLEAN
      /\ edits \in 0..MaxEdits /\ failures \in 0..MaxFailures
      /\ Main \in Op /\ Writer \subseteq Op /\ Part \subseteq Phase
  BY DEF ReloadTyped, ReloadTypeOK, FineDaemon, DaemonType, Phase, Op
<1>a. ASSUME NEW p \in Op, Goes(p, doc[p]), UNCHANGED <<file, doc, edits>>,
             {control', told', overlapped'} \subseteq BOOLEAN, failures' \in 0..MaxFailures
      PROVE  ReloadTyped'
  BY <1>0, <1>a, GoesKeeps
<1>1. ASSUME NEW w \in Writer, Load(w) \/ AskAgain(w) \/ Save(w) \/ SaveFails(w) \/ Ask(w) \/ Reads(w)
      PROVE  ReloadTyped'
  <2>1. \E x \in {"idle", "edit", "ask", "read", "loaded"} : Awaits(w, x, Off, daemon)
    BY <1>1 DEF Load, AskAgain, Save, SaveFails, Ask, Reads
  <2>2. Goes(w, doc'[w])
    BY <1>0, <2>1 DEF Goes, Phase, Resting
  <2>3. doc' \in [Op -> Doc] /\ \A q \in Op : q # w => doc'[q] = doc[q]
    BY <1>0, <1>1, EditsAreDocs DEF Load, AskAgain, Save, SaveFails, Ask, Reads
  <2>4. file' \in Doc /\ edits' \in 0..MaxEdits /\ failures' \in 0..MaxFailures
    BY <1>0, <1>1 DEF Load, AskAgain, Save, SaveFails, Ask, Reads
  <2>5. control' \in BOOLEAN /\ told' \in BOOLEAN /\ overlapped' \in BOOLEAN
    BY <1>0, <1>1 DEF Load, AskAgain, Save, SaveFails, Ask, Reads, Requested
  <2> QED BY <1>0, <2>2, <2>3, <2>4, <2>5, GoesKeeps
<1>2. ASSUME NEW w \in Writer, Decides(w)
      PROVE  ReloadTyped'
  <2>1. [daemon EXCEPT !.hub = doc[w].hub] \in FineDaemon
    BY <1>0 DEF FineDaemon, DaemonType, Doc
  <2>2. Goes(w, doc[w])
    BY <1>0, <1>2, <2>1, TakesDownGoes, AppliesGoes DEF Decides
  <2> QED BY <1>0, <1>2, <1>a, <2>2 DEF Decides
<1>b. \A p \in Op, k \in Part : Without(daemon, k, held[p]) \in FineDaemon
  <2> SUFFICES ASSUME NEW p \in Op, NEW k \in Part PROVE Without(daemon, k, held[p]) \in FineDaemon
    OBVIOUS
  <2>1. IsFiniteSet(daemon.things \ {held[p]})
    BY <1>0, FS_RemoveElement DEF FineDaemon
  <2> QED BY <1>0, <2>1 DEF Without, FineDaemon, DaemonType
<1>3. ASSUME NEW w \in Writer, SyncStopped(w)
      PROVE  ReloadTyped'
  <2>1. Goes(w, doc[w])
    BY <1>0, <1>3, <1>b, SyncedGoes, PartNames DEF SyncStopped
  <2> QED BY <1>0, <1>3, <1>a, <2>1 DEF SyncStopped
<1>4. ASSUME NEW p \in Op, NEW i \in 1..5, Stopped(p, i)
      PROVE  ReloadTyped'
  <2> DEFINE l == [daemon EXCEPT !.things = @ \ {held[p]}]
  <2>1. l \in FineDaemon
    <3>1. IsFiniteSet(daemon.things \ {held[p]})
      BY <1>0, FS_RemoveElement DEF FineDaemon
    <3> QED BY <1>0, <3>1 DEF FineDaemon, DaemonType
  <2>2. /\ TakesDown(p, Without(daemon, Parts[i], held[p]), i + 1)
           \/ TakesDown(p, l, i + 1) \/ Awaits(p, "closing", Off, l)
        /\ UNCHANGED <<file, doc, told, overlapped, edits, failures>>
        /\ control' \in BOOLEAN
    BY <1>0, <1>4 DEF Stopped
  <2>3. Parts[i] \in Part /\ i + 1 \in 1..6
    BY DEF Part
  <2>4. Goes(p, doc[p])
    <3>1. CASE Awaits(p, "closing", Off, l)
      BY <2>1, <3>1 DEF Goes, Phase, Resting
    <3> HIDE DEF l
    <3> QED BY <1>b, <2>1, <2>2, <2>3, <3>1, TakesDownGoes
  <2> QED BY <1>0, <1>a, <2>2, <2>4
<1>5. ASSUME NEW p \in Op, Created(p)
      PROVE  ReloadTyped'
  <2> DEFINE l == [daemon EXCEPT !.lane = [core |-> doc[p].core, channel |-> doc[p].channel]]
             x == IF p = Main THEN "listen" ELSE "add"
  <2>1. doc[p].core # Off /\ "hub" \in Part /\ daemon.hub \in HubUrl
    BY <1>0, <1>5, PartNames DEF Created, ReloadTyped, FineDaemon, DaemonType
  <2>2. l \in FineDaemon
    BY <1>0, <2>1 DEF FineDaemon, DaemonType, LaneOf, Doc
  <2>3. Awaits(p, x, Off, Adding(l, "hub", daemon.hub))
    BY <1>5 DEF Created
  <2> HIDE DEF l
  <2>4. Adding(l, "hub", daemon.hub) \in FineDaemon
    BY <2>1, <2>2, AddingTyped DEF FineDaemon
  <2>5. Goes(p, doc[p])
    BY <2>1, <2>3, <2>4 DEF Goes, Phase, Resting
  <2> QED BY <1>0, <1>5, <1>a, <2>5 DEF Created
<1>6. CASE Listens
  <2>1. \/ Awaits(Main, "up", Off, daemon)
        \/ doc[Main].core # Off /\ Awaits(Main, "add", Off, daemon)
    BY <1>6 DEF Listens, Ends
  <2>2. Goes(Main, doc[Main])
    BY <1>0, <2>1 DEF Goes, Phase, Resting
  <2> QED BY <1>0, <1>6, <1>a, <2>2 DEF Listens
<1>7. ASSUME NEW p \in Op, Added(p)
      PROVE  ReloadTyped'
  <2> DEFINE d == Adding(daemon, "lane", doc[p].core)
             c == daemon.lane.core
             g == IF d.entry["worker"] # Off THEN d ELSE Adding(d, "worker", c)
  <2>1. doc[p].core \in Core /\ {"lane", "claude", "worker"} \subseteq Part
    BY <1>0, <1>7, PartNames DEF Added, ReloadTyped, Doc
  <2>2. d \in FineDaemon
    BY <1>0, <2>1, AddingTyped DEF FineDaemon
  <2>3. \/ Ends(p, d)
        \/ daemon.lane # Off /\ Awaits(p, "spawn", Off, Adding(d, "claude", c))
        \/ daemon.lane # Off /\ Ends(p, [WithDriver(g) EXCEPT !.broken = FALSE])
    BY <1>7 DEF Added
  <2>4. daemon.lane # Off => c \in Core
    BY <1>0 DEF FineDaemon, DaemonType, LaneOf
  <2> HIDE DEF d, c
  <2>5. daemon.lane # Off => Adding(d, "claude", c) \in FineDaemon /\ g \in FineDaemon
    BY <2>1, <2>2, <2>4, AddingTyped DEF FineDaemon
  <2> HIDE DEF g
  <2>6. daemon.lane # Off => [WithDriver(g) EXCEPT !.broken = FALSE] \in FineDaemon
    BY <2>5, WithDriverTyped DEF FineDaemon, DaemonType
  <2>7. Goes(p, doc[p])
    BY <2>2, <2>3, <2>5, <2>6 DEF Goes, Ends, Phase, Resting
  <2> QED BY <1>0, <1>7, <1>a, <2>7 DEF Added
<1>8. ASSUME NEW p \in Op, Spawned(p)
      PROVE  ReloadTyped'
  <2>1. [WithDriver(daemon) EXCEPT !.broken = FALSE] \in FineDaemon
    BY <1>0, WithDriverTyped DEF FineDaemon, DaemonType
  <2>2. Goes(p, doc[p])
    BY <1>8, <2>1 DEF Spawned, Goes, Ends, Phase, Resting
  <2> QED BY <1>0, <1>8, <1>a, <2>2 DEF Spawned
<1>9. ASSUME NEW p \in Op, CreateFails(p)
      PROVE  ReloadTyped'
  <2>1. [daemon EXCEPT !.broken = TRUE] \in FineDaemon
    BY <1>0 DEF FineDaemon, DaemonType
  <2>2. \E x \in {"idle", "half"} : Awaits(p, x, Off, [daemon EXCEPT !.broken = TRUE])
    BY <1>9 DEF CreateFails
  <2>3. Goes(p, doc[p])
    BY <2>1, <2>2 DEF Goes, Phase, Resting
  <2>4. control' \in BOOLEAN /\ failures' \in 0..MaxFailures
    BY <1>0, <1>9 DEF CreateFails
  <2> QED BY <1>0, <1>9, <1>a, <2>3, <2>4 DEF CreateFails
<1>10. NewDaemon \in FineDaemon
  BY <1>0, FS_EmptySet DEF NewDaemon, FineDaemon, DaemonType, Doc
<1>11. CASE Start
  <2>1. /\ doc' = [doc EXCEPT ![Main] = file] /\ told' = TRUE /\ overlapped' = FALSE
        /\ UNCHANGED <<file, control, edits, failures>>
        /\ Awaits(Main, IF file.core = Off THEN "listen" ELSE "create", Off, NewDaemon)
    BY <1>11 DEF Start
  <2>2. doc' \in [Op -> Doc] /\ doc'[Main] = file /\ \A q \in Op : q # Main => doc'[q] = doc[q]
    BY <1>0, <2>1
  <2>3. Goes(Main, doc'[Main])
    BY <1>10, <2>1, <2>2 DEF Goes, Phase, Resting
  <2> QED BY <1>0, <2>1, <2>2, <2>3, GoesKeeps
<1>12. CASE Stop \/ Closed
  <2>1. /\ TakesDown(Main, daemon, 1) \/ TakesDown(Main, daemon, 5)
        /\ UNCHANGED <<file, doc, control, told, edits, failures>> /\ overlapped' \in BOOLEAN
    BY <1>0, <1>12 DEF Stop, Closed, Requested
  <2>2. Goes(Main, doc[Main])
    BY <1>0, <2>1, TakesDownGoes
  <2> QED BY <1>0, <1>a, <2>1, <2>2
<1>13. CASE KillDaemon
  <2>1. /\ at' = [q \in Op |-> IF q = Main \/ Busy(q) THEN "idle" ELSE at[q]]
        /\ held' = [q \in Op |-> Off] /\ daemon' = NewDaemon /\ control' = FALSE
        /\ overlapped' = FALSE /\ UNCHANGED <<file, doc, told, edits, failures>>
    BY <1>13 DEF KillDaemon
  <2>2. /\ at' \in [Op -> Phase] /\ held' \in [Op -> Thing \cup {Off}]
        /\ \A q \in Op : at'[q] \notin {"create", "add"} /\ held'[q] = Off
    BY <1>0, <2>1 DEF Busy, Phase
  <2> QED BY <1>0, <1>10, <2>1, <2>2 DEF ReloadTyped, ReloadTypeOK, Phase, FineDaemon, DaemonType
<1>14. CASE UNCHANGED reloadVars
  <2>1. \A p \in Op : Busy(p)' <=> Busy(p)
    BY <1>14 DEF reloadVars, Busy
  <2> QED BY <1>14, <2>1 DEF reloadVars, ReloadTyped, ReloadTypeOK
<1> QED BY <1>1, <1>2, <1>3, <1>4, <1>5, <1>6, <1>7, <1>8, <1>9, <1>11, <1>12, <1>13, <1>14 DEF ReloadNext
-----------------------------------------------------------------------------
\* What is added runs under its key, which was free.
LEMMA AddingKeeps ==
  ASSUME NEW d \in DaemonType, NEW k \in Part, NEW x \in HubUrl \cup Core \cup Channel,
         Known(d, Off), d.entry[k] = Off, ReloadTyped
  PROVE  LET e == Adding(d, k, x) IN
         /\ e \in DaemonType /\ Known(e, Off)
         /\ e.hub = d.hub /\ e.lane = d.lane /\ e.broken = d.broken
         /\ Has(e, k, x) /\ \A j \in Part \ {k} : e.entry[j] = d.entry[j]
<1> USE ReloadAssumption
<1> DEFINE e == Adding(d, k, x)
<1>1. /\ e.hub = d.hub /\ e.lane = d.lane /\ e.broken = d.broken /\ e \in DaemonType
      /\ e.entry[k] \in Thing /\ e.entry[k].part = k /\ e.entry[k].of = x
      /\ e.things = d.things \cup {e.entry[k]}
      /\ \A j \in Part \ {k} : e.entry[j] = d.entry[j]
  BY AddingTyped
<1> HIDE DEF e
<1>2. Has(e, k, x)
  BY <1>1 DEF Has
<1>3. Known(e, Off)
  BY <1>1 DEF Known, DaemonType
<1> QED BY <1>1, <1>2, <1>3 DEF e

\* What has ended is neither run nor named any more.
LEMMA WithoutKeeps ==
  ASSUME NEW d \in DaemonType, NEW k \in Part, NEW h \in Thing,
         Known(d, h), h = d.entry[k]
  PROVE  LET e == Without(d, k, h) IN
         /\ e \in DaemonType /\ Known(e, Off)
         /\ e.hub = d.hub /\ e.lane = d.lane /\ e.broken = d.broken
         /\ e.entry[k] = Off /\ \A j \in Part \ {k} : e.entry[j] = d.entry[j]
<1> USE ReloadAssumption
<1> DEFINE e == Without(d, k, h)
<1>1. /\ e.hub = d.hub /\ e.lane = d.lane /\ e.broken = d.broken
      /\ e.things = d.things \ {h} /\ e.entry = [d.entry EXCEPT ![k] = Off]
      /\ e \in DaemonType
  BY DEF DaemonType, Without
<1> HIDE DEF e
<1>2. e.entry[k] = Off /\ \A j \in Part \ {k} : e.entry[j] = d.entry[j]
  BY <1>1 DEF DaemonType
<1>3. Known(e, Off)
  BY <1>1, <1>2 DEF Known, DaemonType
<1> QED BY <1>1, <1>2, <1>3 DEF e

\* A driver is started for the channel of the lane, if it is on.
LEMMA WithDriverKeeps ==
  ASSUME NEW d \in DaemonType, Known(d, Off), ReloadTyped, d.lane # Off, d.entry["driver"] = Off
  PROVE  LET e == WithDriver(d) IN
         /\ e \in DaemonType /\ Known(e, Off)
         /\ e.hub = d.hub /\ e.lane = d.lane /\ e.broken = d.broken
         /\ IF d.lane.channel = Off THEN e.entry["driver"] = Off ELSE Has(e, "driver", d.lane.channel)
         /\ \A j \in Part \ {"driver"} : e.entry[j] = d.entry[j]
<1>1. CASE d.lane.channel = Off
  BY <1>1 DEF WithDriver
<1>2. CASE d.lane.channel # Off
  <2>1. d.lane.channel \in HubUrl \cup Core \cup Channel /\ "driver" \in Part
    BY <1>2, PartNames DEF DaemonType, LaneOf
  <2> QED BY <1>2, <2>1, AddingKeeps DEF WithDriver
<1> QED BY <1>1, <1>2

\* A lane that stays gets the driver its channel asks for.
LEMMA SyncedLands ==
  ASSUME NEW w \in Writer, NEW d \in DaemonType, Known(d, Off), WholeButDriver(d), ReloadTyped,
         doc \in [Op -> Doc], d.lane # Off, d.lane.core = doc[w].core, d.hub = doc[w].hub,
         Has(d, "driver", doc[w].channel) \/ d.entry["driver"] = Off,
         Synced(w, d)
  PROVE  Lands(w, doc[w])
<1> USE ReloadAssumption
<1> DEFINE m == doc[w]
           l == [d EXCEPT !.lane = IF @ = Off THEN Off ELSE [@ EXCEPT !.channel = m.channel]]
           e == IF d.entry["driver"] = Off THEN WithDriver(l) ELSE l
<1>1. m \in Doc /\ w \in Op /\ w # Main
  BY DEF Op
<1> HIDE DEF m
<1>2. d.lane \in LaneOf /\ m.core \in Core /\ m.core # Off
  BY <1>1 DEF DaemonType, LaneOf, m
<1>3. /\ l \in DaemonType /\ l.hub = d.hub /\ l.entry = d.entry /\ l.things = d.things
      /\ l.broken = d.broken /\ l.lane = [core |-> m.core, channel |-> m.channel] /\ l.lane # Off
  BY <1>1, <1>2 DEF DaemonType, LaneOf, Doc, m
<1> HIDE DEF l
<1>4. Known(l, Off)
  BY <1>3 DEF Known
<1>5. /\ e \in DaemonType /\ Known(e, Off) /\ e.hub = d.hub /\ e.lane = l.lane /\ e.broken = d.broken
      /\ \A j \in Part \ {"driver"} : e.entry[j] = d.entry[j]
      /\ IF m.channel = Off THEN e.entry["driver"] = Off ELSE Has(e, "driver", m.channel)
  <2>1. CASE d.entry["driver"] = Off
    BY <1>3, <1>4, <2>1, WithDriverKeeps
  <2>2. CASE d.entry["driver"] # Off
    <3>1. d.entry["driver"] \in Thing
      BY <2>2, PartNames DEF DaemonType
    <3>2. m.channel # Off
      BY <2>2, <3>1 DEF Has, Thing, m
    <3> QED BY <1>3, <1>4, <2>2, <3>2 DEF Has, m
  <2> QED BY <2>1, <2>2
<1>6. Awaits(w, "idle", Off, e)
  BY <1>1 DEF Synced, Ends, l, m
<1> HIDE DEF e
<1>7. Whole(e)
  BY <1>3, <1>5, PartNames DEF Whole, WholeButDriver, Has, m
<1>8. Fits(e, m)
  BY <1>2, <1>3, <1>5 DEF Fits, LaneFor, m
<1> QED BY <1>5, <1>6, <1>7, <1>8 DEF Lands, Phase, Resting, m

\* The second half of reload() ends, or begins to create the lane or to take its
\* driver down.
LEMMA AppliesLands ==
  ASSUME NEW w \in Writer, NEW d \in DaemonType, Known(d, Off), Whole(d), ReloadTyped,
         doc \in [Op -> Doc], d.hub = doc[w].hub, d.lane # Off => d.lane.core = doc[w].core,
         Applies(w, d)
  PROVE  Lands(w, doc[w])
<1> USE ReloadAssumption
<1>1. w \in Op /\ w # Main /\ doc[w] \in Doc
  BY DEF Op
<1>2. CASE doc[w].core = Off /\ Ends(w, [d EXCEPT !.broken = FALSE])
  <2> DEFINE e == [d EXCEPT !.broken = FALSE]
  <2>1. /\ e \in DaemonType /\ e.hub = d.hub /\ e.lane = d.lane /\ e.entry = d.entry
        /\ e.things = d.things
    BY DEF DaemonType
  <2>2. Awaits(w, "idle", Off, e)
    BY <1>1, <1>2 DEF Ends
  <2> HIDE DEF e
  <2>3. d.lane = Off
    BY <1>2 DEF DaemonType, LaneOf
  <2>4. Known(e, Off) /\ Whole(e) /\ Fits(e, doc[w])
    BY <1>2, <2>1, <2>3 DEF Known, Whole, WholeButDriver, Fits, LaneFor, Cleared
  <2> QED BY <2>1, <2>2, <2>4 DEF Lands, Phase, Resting
<1>3. CASE doc[w].core # Off /\ d.lane = Off /\ Awaits(w, "create", Off, d)
  <2>1. Progress(w, "create", Off, d, doc[w])
    BY <1>3, PartNames DEF Progress, Whole, WholeButDriver
  <2> QED BY <1>3, <2>1 DEF Lands, Phase, Resting
<1>4. CASE /\ d.lane # Off /\ Awaits(w, "sync", d.entry["driver"], d)
           /\ d.entry["driver"] # Off
  <2>1. d.entry["driver"] \in Thing
    BY <1>4, PartNames DEF DaemonType
  <2>2. Known(d, d.entry["driver"])
    BY PartNames DEF Known
  <2>3. Progress(w, "sync", d.entry["driver"], d, doc[w])
    BY <1>4, <2>2, PartNames DEF Progress
  <2> QED BY <1>4, <2>1, <2>3 DEF Lands, Phase, Resting
<1>5. CASE /\ d.lane # Off /\ Synced(w, d)
           /\ ~ (d.entry["driver"] # Off /\ d.entry["driver"].of # doc[w].channel)
  BY <1>5, SyncedLands DEF Has, Whole
<1> QED BY <1>2, <1>3, <1>4, <1>5 DEF Applies

\* Taking down goes on to the next part there is, or ends: of a stop() with
\* nothing, of a reload with what is applied next.
LEMMA TakesDownLands ==
  ASSUME NEW p \in Op, NEW i \in 1..6, NEW d \in DaemonType, Known(d, Off),
         Cleared(d, {Parts[j] : j \in 1..(i - 1)}), ReloadTyped,
         TakesDown(p, d, i)
  PROVE  Lands(p, doc[p])
<1> USE ReloadAssumption
<1> DEFINE left == Awaited(d, i)
           j == CHOOSE j \in left : \A k \in left : j <= k
<1>1. CASE left # {}
  <2> DEFINE h == d.entry[Parts[j]]
             e == IF Parts[j] = "lane" THEN [d EXCEPT !.entry["lane"] = Off] ELSE d
  <2>1. left \subseteq 1..5
    BY DEF Awaited
  <2>2. j \in left /\ \A k \in left : j <= k
    <3> HIDE DEF left
    <3> QED BY <1>1, <2>1, FirstPlace
  <2>3. Awaits(p, Parts[j], h, e)
    BY <1>1 DEF TakesDown
  <2> HIDE DEF j
  <2>4. j \in 1..5 /\ Parts[j] \in Part /\ h \in Thing \cup {Off}
    BY <2>1, <2>2 DEF Part, DaemonType
  <2>5. Parts[j] # "lane" => h # Off
    BY <2>2 DEF Awaited
  <2>6. \A k \in 1..(j - 1) : d.entry[Parts[k]] = Off
    <3> SUFFICES ASSUME NEW k \in 1..(j - 1) PROVE d.entry[Parts[k]] = Off
      OBVIOUS
    <3>1. CASE k < i
      BY <3>1, <2>4 DEF Cleared
    <3>2. CASE k >= i
      <4>1. k \in i..5 /\ k \notin left
        BY <2>2, <2>4, <3>2
      <4> QED BY <4>1 DEF Awaited
    <3> QED BY <2>4, <3>1, <3>2
  <2>7. /\ e \in DaemonType /\ e.things = d.things
        /\ Parts[j] # "lane" => e = d
        /\ Parts[j] = "lane" => e.entry = [d.entry EXCEPT !["lane"] = Off]
    BY DEF DaemonType
  <2> HIDE DEF h, e
  <2>8. Known(e, h)
    <3>1. \A k \in Part : e.entry[k] # Off => e.entry[k].part = k
      BY <2>7, <2>4 DEF Known, DaemonType
    <3>2. {e.entry[k] : k \in Part} \cup {h, Off} = {d.entry[k] : k \in Part} \cup {Off}
      BY <2>7, <2>4 DEF DaemonType, h
    <3> QED BY <2>7, <3>1, <3>2 DEF Known
  <2>9. Progress(p, Parts[j], h, e, doc[p])
    <3>1. \A k \in 1..5 : Parts[j] = Parts[k] => Cleared(e, {Parts[l] : l \in 1..(k - 1)})
      <4>1. \A k \in 1..5 : Parts[j] = Parts[k] => j = k
        BY <2>4, PartNames
      <4>2. \A k \in 1..(j - 1) : e.entry[Parts[k]] = Off
        BY <2>4, <2>6, <2>7 DEF DaemonType, Part
      <4> QED BY <4>1, <4>2, <2>4 DEF Cleared
    <3>2. Parts[j] = "lane" => e.entry["lane"] = Off /\ (h # Off => h.part = "lane")
      BY <2>4, <2>7 DEF DaemonType, Known, h
    <3>3. Parts[j] # "lane" => h = e.entry[Parts[j]] /\ h # Off
      BY <2>5, <2>7 DEF h
    <3>4. Parts[j] \notin {"read", "loaded", "sync", "create", "listen", "add", "spawn", "closing"}
      BY <2>4, PartNames
    <3> QED BY <2>4, <2>8, <3>1, <3>2, <3>3, <3>4 DEF Progress
  <2>10. Parts[j] \in Phase /\ Parts[j] \notin Resting
    BY <2>4, PartNames DEF Phase, Resting
  <2> QED BY <2>3, <2>4, <2>7, <2>9, <2>10 DEF Lands
<1>2. CASE left = {}
  <2>1. Cleared(d, Part)
    <3> SUFFICES ASSUME NEW k \in 1..5 PROVE d.entry[Parts[k]] = Off
      BY DEF Cleared, Part
    <3>1. CASE k < i
      BY <3>1 DEF Cleared
    <3>2. CASE k >= i
      BY <1>2, <3>2 DEF Awaited
    <3> QED BY <3>1, <3>2
  <2>2. CASE p = Main
    <3> DEFINE e == [d EXCEPT !.lane = Off]
    <3>1. /\ e \in DaemonType /\ e.lane = Off /\ e.entry = d.entry /\ e.things = d.things
      BY DEF DaemonType
    <3>2. Awaits(p, "idle", Off, e)
      BY <1>2, <2>2 DEF TakesDown
    <3> HIDE DEF e
    <3>3. Known(e, Off) /\ Whole(e)
      BY <2>1, <3>1 DEF Known, Whole, WholeButDriver, Cleared
    <3> QED BY <2>2, <3>1, <3>2, <3>3 DEF Lands, Phase, Resting
  <2>3. CASE p # Main
    <3> DEFINE e == [d EXCEPT !.lane = Off, !.hub = doc[p].hub]
    <3>1. p \in Writer /\ doc[p] \in Doc
      BY <2>3 DEF Op, ReloadTyped, ReloadTypeOK
    <3>2. /\ e \in DaemonType /\ e.lane = Off /\ e.entry = d.entry /\ e.things = d.things
          /\ e.hub = doc[p].hub
      BY <3>1 DEF DaemonType, Doc
    <3>3. Applies(p, e)
      BY <1>2, <2>3 DEF TakesDown
    <3> HIDE DEF e
    <3>4. Known(e, Off) /\ Whole(e)
      BY <2>1, <3>2 DEF Known, Whole, WholeButDriver, Cleared
    <3> QED BY <3>1, <3>2, <3>3, <3>4, AppliesLands DEF ReloadTyped, ReloadTypeOK
  <2> QED BY <2>2, <2>3
<1> QED BY <1>1, <1>2

\* While p is the only operation under way, what it goes on to keeps the daemon
\* known, one operation at a time, and the file heard.
LEMMA LandsKeeps ==
  ASSUME ReloadTyped, NEW p \in Op, \A q \in Op : Busy(q) => q = p,
         Lands(p, doc'[p]), \A q \in Op : q # p => doc'[q] = doc[q],
         told' /\ at'[p] # "read" /\ (p \in Writer \/ at'[p] \in Starting \cup {"up"}) => doc'[p] = file'
  PROVE  Sequential' /\ Heard'
<1> USE ReloadAssumption
<1>1. PICK x \in Phase, h \in Thing \cup {Off}, e \in DaemonType :
        /\ Awaits(p, x, h, e)
        /\ IF x \notin Resting THEN Progress(p, x, h, e, doc'[p])
           ELSE /\ h = Off /\ Known(e, Off) /\ Whole(e)
                /\ p \in Writer \/ x = "up" => Fits(e, doc'[p])
  BY DEF Lands
<1>2. at \in [Op -> Phase] /\ held \in [Op -> Thing \cup {Off}]
  BY DEF ReloadTyped, ReloadTypeOK, Phase
<1>3. /\ at' = [at EXCEPT ![p] = x] /\ held' = [held EXCEPT ![p] = h] /\ daemon' = e
      /\ at'[p] = x /\ held'[p] = h
      /\ \A q \in Op : q # p => at'[q] = at[q] /\ held'[q] = held[q]
  BY <1>1, <1>2 DEF Awaits
<1>5. /\ Busy(p)' <=> x \notin Resting
      /\ \A q \in Op : q # p => ~Busy(q)' /\ at'[q] \in Resting
  BY <1>3, <1>2 DEF Busy, Resting
<1>6. Sequential'
  <2>1. \A q, r \in Op : Busy(q)' /\ Busy(r)' => q = r
    BY <1>5
  <2>2. \A q \in Op : ~Busy(q)' => held'[q] = Off
    BY <1>1, <1>3, <1>5 DEF ReloadTyped
  <2>3. \A q \in Op : Busy(q)' => Progress(q, at'[q], held'[q], daemon', doc'[q])
    BY <1>1, <1>3, <1>5
  <2>4. (\A q \in Op : ~Busy(q)') => Known(daemon', Off) /\ Whole(daemon')
    BY <1>1, <1>3, <1>5
  <2> QED BY <2>1, <2>2, <2>3, <2>4 DEF Sequential
<1>7. Heard'
  <2> SUFFICES ASSUME told' PROVE
        /\ \A q \in Op : at'[q] \in Starting \/ (q \in Writer /\ Busy(q)' /\ at'[q] # "read")
                            => doc'[q] = file'
        /\ at'[Main] = "up" /\ (\A q \in Op : ~Busy(q)') => Fits(daemon', file')
    BY DEF Heard
  <2>1. ASSUME NEW q \in Op, at'[q] \in Starting \/ (q \in Writer /\ Busy(q)' /\ at'[q] # "read")
        PROVE  doc'[q] = file'
    <3>1. q = p
      BY <1>5, <2>1 DEF Starting, Resting
    <3> QED BY <2>1, <3>1 DEF Starting
  <2>2. ASSUME at'[Main] = "up", \A q \in Op : ~Busy(q)' PROVE Fits(daemon', file')
    <3>1. x \in Resting /\ (p \in Writer \/ x = "up")
      BY <1>3, <1>5, <2>2 DEF Op
    <3>2. at'[p] # "read" /\ (at'[p] = "up" \/ p \in Writer)
      BY <1>3, <3>1 DEF Resting
    <3> QED BY <1>1, <1>3, <3>1, <3>2
  <2> QED BY <2>1, <2>2
<1> QED BY <1>6, <1>7

\* A writer that edits the file or waits at its prompt disturbs nothing.
LEMMA QuietKeeps ==
  ASSUME ReloadTyped, Sequential, Heard, NEW w \in Writer, ~Busy(w),
         NEW x \in {"idle", "edit", "ask"}, Awaits(w, x, Off, daemon),
         \A q \in Op : q # w => doc'[q] = doc[q], told' => told /\ UNCHANGED file
  PROVE  Sequential' /\ Heard'
<1> USE ReloadAssumption
<1>1. /\ at \in [Op -> Phase] /\ held \in [Op -> Thing \cup {Off}] /\ daemon \in DaemonType
      /\ w \in Op /\ w # Main /\ Main \in Op
  BY DEF ReloadTyped, ReloadTypeOK, Phase, Op, DaemonType
<1>2. /\ at' = [at EXCEPT ![w] = x] /\ held' = [held EXCEPT ![w] = Off] /\ UNCHANGED daemon
  BY DEF Awaits
<1>3. /\ x \in Phase /\ x \in Resting /\ at'[w] = x /\ ~Busy(w)'
      /\ \A q \in Op : q # w => at'[q] = at[q] /\ (Busy(q)' <=> Busy(q))
  BY <1>1, <1>2 DEF Busy, Phase, Resting
<1>4. held' = held
  BY <1>1, <1>2 DEF ReloadTyped
<1>5. \A q \in Op : (Busy(q)' <=> Busy(q)) /\ (Busy(q) => at'[q] = at[q] /\ doc'[q] = doc[q])
  BY <1>3
<1>6. Sequential'
  BY <1>2, <1>4, <1>5 DEF Sequential
<1>7. Heard'
  <2> SUFFICES ASSUME told' PROVE Heard'
    BY DEF Heard
  <2>1. told /\ file' = file
    OBVIOUS
  <2>2. \A q \in Op : at'[q] \in Starting \/ (q \in Writer /\ Busy(q)' /\ at'[q] # "read") => doc'[q] = file'
    <3> SUFFICES ASSUME NEW q \in Op, at'[q] \in Starting \/ (q \in Writer /\ Busy(q)' /\ at'[q] # "read")
                 PROVE  doc'[q] = file'
      OBVIOUS
    <3>1. q # w
      BY <1>3 DEF Starting
    <3> QED BY <1>3, <2>1, <3>1 DEF Heard
  <2>3. at'[Main] = "up" /\ (\A q \in Op : ~Busy(q)') => Fits(daemon', file')
    BY <1>1, <1>2, <1>3, <1>5, <2>1 DEF Heard
  <2> QED BY <2>2, <2>3 DEF Heard
<1> QED BY <1>6, <1>7

\* The steps of a writer, and of the reload() it asked for, when the daemon is
\* asked for nothing else meanwhile.
LEMMA WriterStep ==
  ASSUME ReloadTyped, Sequential, Heard, ~overlapped', NEW w \in Writer,
         \/ Load(w) \/ AskAgain(w) \/ Save(w) \/ SaveFails(w)
         \/ Ask(w) \/ Reads(w) \/ Decides(w) \/ SyncStopped(w)
  PROVE  Sequential' /\ Heard'
<1> USE ReloadAssumption
<1>0. /\ w \in Op /\ w # Main /\ doc \in [Op -> Doc] /\ file \in Doc /\ doc[w] \in Doc
      /\ at \in [Op -> Phase] /\ held \in [Op -> Thing \cup {Off}] /\ daemon \in DaemonType
  BY DEF ReloadTyped, ReloadTypeOK, Op, Phase, DaemonType
<1>b. ASSUME Busy(w), UNCHANGED file, Lands(w, doc'[w]),
             \A q \in Op : q # w => doc'[q] = doc[q],
             told' /\ at'[w] # "read" => doc'[w] = file
      PROVE  Sequential' /\ Heard'
  <2>1. \A q \in Op : Busy(q) => q = w
    BY <1>b, <1>0 DEF Sequential
  <2> QED BY <1>b, <1>0, <2>1, LandsKeeps
<1>1. CASE Load(w)
  <2>1. /\ ~Busy(w) /\ Awaits(w, "edit", Off, daemon) /\ UNCHANGED <<file, told>>
        /\ \A q \in Op : q # w => doc'[q] = doc[q]
    BY <1>0, <1>1 DEF Load, Busy
  <2> QED BY <2>1, QuietKeeps
<1>2. CASE AskAgain(w)
  <2>1. ~Busy(w) /\ Awaits(w, "ask", Off, daemon) /\ UNCHANGED <<file, doc, told>>
    BY <1>2 DEF AskAgain, Busy
  <2> QED BY <2>1, QuietKeeps
<1>3. CASE Save(w) \/ SaveFails(w)
  <2>1. /\ ~Busy(w) /\ UNCHANGED doc
        /\ \E x \in {"idle", "edit", "ask"} : Awaits(w, x, Off, daemon)
        /\ told' => told /\ UNCHANGED file
    BY <1>3 DEF Save, SaveFails, Busy
  <2> QED BY <2>1, QuietKeeps
<1>4. CASE Ask(w)
  <2>1. ~Busy(w) /\ UNCHANGED <<file, doc, told>>
    BY <1>4 DEF Ask, Busy
  <2>2. CASE ~control
    <3>1. Awaits(w, "idle", Off, daemon)
      BY <1>4, <2>2 DEF Ask
    <3> QED BY <2>1, <3>1, QuietKeeps
  <2>3. CASE control
    <3>1. Awaits(w, "read", Off, daemon) /\ \A q \in Op : ~Busy(q)
      BY <1>4, <2>3 DEF Ask, Requested
    <3>2. Progress(w, "read", Off, daemon, doc[w])
      BY <1>0, <3>1, PartNames DEF Sequential, Progress
    <3>3. Lands(w, doc'[w])
      BY <2>1, <3>1, <3>2, <1>0 DEF Lands, Phase, Resting
    <3>4. at'[w] = "read"
      BY <1>0, <3>1 DEF Awaits
    <3> QED BY <1>0, <2>1, <3>1, <3>3, <3>4, LandsKeeps DEF Starting
  <2> QED BY <2>2, <2>3
<1>5. CASE Reads(w)
  <2>1. /\ Busy(w) /\ at[w] = "read" /\ Awaits(w, "loaded", Off, daemon)
        /\ doc' = [doc EXCEPT ![w] = file] /\ told' = TRUE /\ UNCHANGED file
    BY <1>5 DEF Reads, Busy
  <2>2. Progress(w, "loaded", Off, daemon, doc'[w])
    <3>1. Known(daemon, Off) /\ Whole(daemon)
      BY <1>0, <2>1, PartNames DEF Sequential, Progress
    <3> QED BY <3>1, PartNames DEF Progress
  <2>3. Lands(w, doc'[w])
    BY <1>0, <2>1, <2>2 DEF Lands, Phase, Resting
  <2> QED BY <1>b, <1>0, <2>1, <2>3
<1>6. CASE Decides(w)
  <2>1. /\ Busy(w) /\ at[w] = "loaded" /\ UNCHANGED <<file, doc, told>>
    BY <1>6 DEF Decides, Busy
  <2>2. Known(daemon, Off) /\ Whole(daemon)
    BY <1>0, <2>1, PartNames DEF Sequential, Progress
  <2>4. CASE Replaces(w)
    <3>1. TakesDown(w, daemon, 1) /\ Cleared(daemon, {Parts[j] : j \in 1..(1 - 1)})
      BY <1>6, <2>4 DEF Decides, Cleared
    <3>2. Lands(w, doc[w])
      BY <1>0, <2>2, <3>1, TakesDownLands
    <3> QED BY <1>b, <1>0, <2>1, <3>2 DEF Heard
  <2>5. CASE ~Replaces(w)
    <3> DEFINE d == [daemon EXCEPT !.hub = doc[w].hub]
    <3>1. Applies(w, d)
      BY <1>6, <2>5 DEF Decides
    <3>2. /\ d \in DaemonType /\ d.hub = doc[w].hub /\ d.lane = daemon.lane
          /\ d.entry = daemon.entry /\ d.things = daemon.things /\ d.broken = daemon.broken
      BY <1>0 DEF DaemonType, Doc
    <3> HIDE DEF d
    <3>3. daemon.lane # Off => d.hub = daemon.hub /\ d.lane.core = doc[w].core
      BY <2>5, <3>2 DEF Replaces
    <3>4. Known(d, Off) /\ Whole(d)
      BY <2>2, <3>2, <3>3 DEF Known, Whole, WholeButDriver, Has, Cleared
    <3>5. Lands(w, doc[w])
      BY <1>0, <3>1, <3>2, <3>3, <3>4, AppliesLands
    <3> QED BY <1>b, <1>0, <2>1, <3>5 DEF Heard
  <2> QED BY <2>4, <2>5
<1>7. CASE SyncStopped(w)
  <2> DEFINE h == held[w]
             d == Without(daemon, "driver", h)
  <2>1. /\ Busy(w) /\ at[w] = "sync" /\ Synced(w, d) /\ UNCHANGED <<file, doc, told>>
    BY <1>7 DEF SyncStopped, Busy
  <2>2. /\ Known(daemon, h) /\ Whole(daemon) /\ h = daemon.entry["driver"] /\ h \in Thing
        /\ daemon.lane # Off /\ daemon.lane.core = doc[w].core /\ daemon.hub = doc[w].hub
        /\ "driver" \in Part
    BY <1>0, <2>1, PartNames DEF Sequential, Progress
  <2>3. /\ d \in DaemonType /\ Known(d, Off) /\ d.hub = daemon.hub /\ d.lane = daemon.lane
        /\ d.broken = daemon.broken /\ d.entry["driver"] = Off
        /\ \A j \in Part \ {"driver"} : d.entry[j] = daemon.entry[j]
    BY <1>0, <2>2, WithoutKeeps
  <2>6. WholeButDriver(d)
    BY <2>2, <2>3, PartNames DEF Whole, WholeButDriver, Has
  <2> HIDE DEF d
  <2>5. Lands(w, doc[w])
    BY <1>0, <2>1, <2>2, <2>3, <2>6, SyncedLands
  <2> QED BY <1>b, <1>0, <2>1, <2>5 DEF Heard
<1> QED BY <1>1, <1>2, <1>3, <1>4, <1>5, <1>6, <1>7

\* The steps that create a lane, of start() or of a reload.
LEMMA CreationStep ==
  ASSUME ReloadTyped, Sequential, Heard, NEW p \in Op,
         Created(p) \/ (p = Main /\ Listens) \/ Added(p) \/ Spawned(p) \/ CreateFails(p)
  PROVE  Sequential' /\ Heard'
<1> USE ReloadAssumption
<1>0. /\ doc \in [Op -> Doc] /\ file \in Doc /\ doc[p] \in Doc
      /\ at \in [Op -> Phase] /\ held \in [Op -> Thing \cup {Off}] /\ daemon \in DaemonType
      /\ daemon.hub \in HubUrl
  BY DEF ReloadTyped, ReloadTypeOK, Phase, DaemonType
<1> DEFINE m == doc[p]
<1>1. Busy(p) /\ at[p] \in Starting /\ UNCHANGED <<file, doc, told>>
  BY DEF Created, Listens, Added, Spawned, CreateFails, Busy, Starting
<1>a. ASSUME Lands(p, m) PROVE Sequential' /\ Heard'
  <2>1. \A q \in Op : Busy(q) => q = p
    BY <1>1 DEF Sequential
  <2>2. told' => doc'[p] = file'
    BY <1>1 DEF Heard
  <2> QED BY <1>0, <1>1, <1>a, <2>1, <2>2, LandsKeeps
<1>2. /\ held[p] = Off /\ Known(daemon, Off) /\ Progress(p, at[p], Off, daemon, m)
  BY <1>1, PartNames DEF Sequential, Progress, Starting
<1>4. {"hub", "lane", "claude", "worker", "driver"} = Part
  BY PartNames
<1> HIDE DEF m
<1>b. ASSUME NEW e \in DaemonType, Ends(p, e), Known(e, Off), Whole(e), Fits(e, m)
      PROVE  Lands(p, m)
  BY <1>b DEF Ends, Lands, Phase, Resting, Op
<1>5. CASE Created(p)
  <2> DEFINE l == [daemon EXCEPT !.lane = [core |-> m.core, channel |-> m.channel]]
             e == Adding(l, "hub", daemon.hub)
             x == IF p = Main THEN "listen" ELSE "add"
  <2>1. /\ at[p] = "create" /\ Awaits(p, x, Off, e)
    BY <1>5 DEF Created, m
  <2>2. m.core # Off /\ daemon.hub = m.hub /\ daemon.lane = Off /\ Cleared(daemon, Part)
    BY <1>2, <2>1 DEF Progress
  <2>3. LaneFor(m) \in LaneOf /\ LaneFor(m) = [core |-> m.core, channel |-> m.channel]
    BY <1>0, <2>2 DEF Doc, LaneOf, LaneFor, m
  <2>4. /\ l \in DaemonType /\ l.hub = daemon.hub /\ l.lane = LaneFor(m)
        /\ l.entry = daemon.entry /\ l.things = daemon.things
    BY <1>0, <2>3 DEF DaemonType
  <2> HIDE DEF l
  <2>5. Known(l, Off) /\ l.entry["hub"] = Off
    BY <1>2, <1>4, <2>2, <2>4 DEF Known, Cleared
  <2>6. /\ e \in DaemonType /\ Known(e, Off) /\ e.hub = l.hub /\ e.lane = l.lane
        /\ Has(e, "hub", daemon.hub) /\ \A j \in Part \ {"hub"} : e.entry[j] = l.entry[j]
    BY <1>0, <1>4, <2>4, <2>5, AddingKeeps
  <2> HIDE DEF e
  <2>7. Begun(e, m, {})
    BY <2>2, <2>4, <2>6 DEF Begun, Cleared
  <2>8. Progress(p, x, Off, e, m)
    BY <2>2, <2>6, <2>7, PartNames DEF Progress
  <2> QED BY <1>a, <2>1, <2>6, <2>8 DEF Lands, Phase, Resting
<1>6. CASE p = Main /\ Listens
  <2>1. /\ at[Main] = "listen"
        /\ IF m.core = Off THEN Ends(Main, daemon) ELSE Awaits(Main, "add", Off, daemon)
    BY <1>6 DEF Listens, m
  <2>2. CASE m.core = Off
    <3>1. daemon.hub = m.hub /\ daemon.lane = Off /\ Cleared(daemon, Part)
      BY <1>2, <1>6, <2>1, <2>2 DEF Progress
    <3>2. Whole(daemon) /\ Fits(daemon, m)
      BY <2>2, <3>1 DEF Whole, WholeButDriver, Fits, LaneFor
    <3> QED BY <1>0, <1>2, <1>6, <1>a, <1>b, <2>1, <2>2, <3>2
  <2>3. CASE m.core # Off
    <3>1. Progress(Main, "add", Off, daemon, m)
      BY <1>2, <1>6, <2>1, <2>3, PartNames DEF Progress
    <3> QED BY <1>0, <1>a, <1>6, <2>1, <2>3, <3>1 DEF Lands, Phase, Resting
  <2> QED BY <2>2, <2>3
<1>7. CASE Added(p)
  <2> DEFINE d == Adding(daemon, "lane", m.core)
  <2>1. at[p] = "add" /\ Begun(daemon, m, {})
    BY <1>2, <1>7 DEF Added, Progress
  <2>2. /\ m.core \in Core /\ m.core # Off /\ daemon.lane = LaneFor(m) /\ daemon.lane \in LaneOf
        /\ daemon.lane.core = m.core /\ daemon.lane.channel = m.channel
        /\ daemon.lane # Off /\ daemon.hub = m.hub /\ Has(daemon, "hub", m.hub)
        /\ Cleared(daemon, Part \ {"hub"})
    BY <1>0, <2>1 DEF Begun, LaneFor, LaneOf, Doc, m
  <2>3. /\ d \in DaemonType /\ Known(d, Off) /\ d.hub = daemon.hub /\ d.lane = daemon.lane
        /\ d.broken = daemon.broken
        /\ Has(d, "lane", m.core) /\ \A j \in Part \ {"lane"} : d.entry[j] = daemon.entry[j]
    <3>1. daemon.entry["lane"] = Off
      BY <1>4, <2>2 DEF Cleared
    <3> QED BY <1>0, <1>2, <1>4, <2>2, <3>1, AddingKeeps
  <2>4. IF m.core \in ClaudeCore THEN Awaits(p, "spawn", Off, Adding(d, "claude", m.core))
        ELSE Ends(p, [WithDriver(IF d.entry["worker"] # Off THEN d ELSE Adding(d, "worker", m.core))
                      EXCEPT !.broken = FALSE])
    BY <1>7, <2>2 DEF Added, m
  <2> HIDE DEF d
  <2>5. /\ d.entry["worker"] = Off /\ d.entry["claude"] = Off /\ d.entry["driver"] = Off
        /\ Has(d, "hub", m.hub)
    BY <1>4, <2>2, <2>3 DEF Cleared, Has
  <2>6. CASE m.core \in ClaudeCore
    <3> DEFINE e == Adding(d, "claude", m.core)
    <3>1. /\ e \in DaemonType /\ Known(e, Off) /\ e.hub = d.hub /\ e.lane = d.lane
          /\ Has(e, "claude", m.core) /\ \A j \in Part \ {"claude"} : e.entry[j] = d.entry[j]
      BY <1>0, <1>4, <2>2, <2>3, <2>5, AddingKeeps
    <3>2. Awaits(p, "spawn", Off, e)
      BY <2>4, <2>6
    <3> HIDE DEF e
    <3>3. Begun(e, m, {"lane", "claude"}) /\ Has(e, "lane", m.core)
      BY <1>4, <2>2, <2>3, <2>5, <3>1 DEF Begun, Has, Cleared
    <3>4. Progress(p, "spawn", Off, e, m)
      BY <2>6, <3>1, <3>3, PartNames DEF Progress
    <3> QED BY <1>a, <3>1, <3>2, <3>4 DEF Lands, Phase, Resting
  <2>7. CASE m.core \notin ClaudeCore
    <3> DEFINE g == Adding(d, "worker", m.core)
               f == WithDriver(g)
               e == [f EXCEPT !.broken = FALSE]
    <3>1. /\ g \in DaemonType /\ Known(g, Off) /\ g.hub = d.hub /\ g.lane = d.lane
          /\ Has(g, "worker", m.core) /\ \A j \in Part \ {"worker"} : g.entry[j] = d.entry[j]
      BY <1>0, <1>4, <2>2, <2>3, <2>5, AddingKeeps
    <3>2. Ends(p, e)
      BY <2>4, <2>5, <2>7
    <3> HIDE DEF g
    <3>3. /\ f \in DaemonType /\ Known(f, Off) /\ f.hub = g.hub /\ f.lane = g.lane
          /\ IF m.channel = Off THEN f.entry["driver"] = Off ELSE Has(f, "driver", m.channel)
          /\ \A j \in Part \ {"driver"} : f.entry[j] = g.entry[j]
      BY <1>4, <2>2, <2>3, <2>5, <3>1, WithDriverKeeps
    <3> HIDE DEF f
    <3>4. /\ e \in DaemonType /\ e.hub = f.hub /\ e.lane = f.lane /\ e.entry = f.entry
          /\ e.things = f.things
      BY <3>3 DEF DaemonType
    <3> HIDE DEF e
    <3>5. Known(e, Off)
      BY <3>3, <3>4 DEF Known
    <3>6. Whole(e) /\ Fits(e, m)
      BY <1>4, <2>2, <2>3, <2>5, <2>7, <3>1, <3>3, <3>4 DEF Whole, WholeButDriver, Fits, Has
    <3> QED BY <1>a, <1>b, <3>2, <3>4, <3>5, <3>6
  <2> QED BY <2>6, <2>7
<1>8. CASE Spawned(p)
  <2> DEFINE f == WithDriver(daemon)
             e == [f EXCEPT !.broken = FALSE]
  <2>1. at[p] = "spawn" /\ Ends(p, e)
    BY <1>8 DEF Spawned
  <2>2. /\ m.core \in ClaudeCore /\ Begun(daemon, m, {"lane", "claude"})
        /\ Has(daemon, "lane", m.core) /\ Has(daemon, "claude", m.core)
    BY <1>2, <2>1 DEF Progress
  <2>3. /\ m.core # Off /\ daemon.lane = LaneFor(m) /\ daemon.lane \in LaneOf
        /\ daemon.lane.core = m.core /\ daemon.lane.channel = m.channel
        /\ daemon.lane # Off /\ daemon.hub = m.hub /\ Has(daemon, "hub", m.hub)
        /\ daemon.entry["driver"] = Off /\ daemon.entry["worker"] = Off
    BY <1>0, <1>4, <2>2 DEF Begun, LaneFor, LaneOf, Doc, m, Cleared
  <2>4. /\ f \in DaemonType /\ Known(f, Off) /\ f.hub = daemon.hub /\ f.lane = daemon.lane
        /\ IF m.channel = Off THEN f.entry["driver"] = Off ELSE Has(f, "driver", m.channel)
        /\ \A j \in Part \ {"driver"} : f.entry[j] = daemon.entry[j]
    BY <1>0, <1>2, <2>3, WithDriverKeeps
  <2> HIDE DEF f
  <2>5. /\ e \in DaemonType /\ e.hub = f.hub /\ e.lane = f.lane /\ e.entry = f.entry
        /\ e.things = f.things
    BY <2>4 DEF DaemonType
  <2> HIDE DEF e
  <2>6. Known(e, Off)
    BY <2>4, <2>5 DEF Known
  <2>7. Whole(e) /\ Fits(e, m)
    BY <1>4, <2>2, <2>3, <2>4, <2>5 DEF Whole, WholeButDriver, Fits, Has
  <2> QED BY <1>a, <1>b, <2>1, <2>5, <2>6, <2>7
<1>9. CASE CreateFails(p)
  <2> DEFINE x == IF p # Main THEN "idle" ELSE IF at[p] = "create" THEN "idle" ELSE "half"
             e == [daemon EXCEPT !.broken = TRUE]
  <2>1. at[p] \in {"create", "add"} /\ Awaits(p, x, Off, e)
    BY <1>9 DEF CreateFails
  <2>2. /\ e \in DaemonType /\ e.lane = daemon.lane /\ e.entry = daemon.entry
        /\ e.things = daemon.things /\ e.broken = TRUE
    BY <1>0 DEF DaemonType
  <2> HIDE DEF e
  <2>3. daemon.lane = Off => Cleared(daemon, Part)
    BY <1>0, <1>2, <2>1 DEF Progress, Begun, LaneFor, LaneOf, Doc, m
  <2>4. Known(e, Off) /\ Whole(e) /\ Fits(e, m)
    BY <1>2, <2>2, <2>3 DEF Known, Whole, WholeButDriver, Fits, Cleared
  <2> QED BY <1>a, <2>1, <2>2, <2>4 DEF Lands, Phase, Resting
<1> QED BY <1>5, <1>6, <1>7, <1>8, <1>9

\* The steps that take a lane down, and those of the daemon as a whole.
LEMMA StopStep ==
  ASSUME ReloadTyped, Sequential, Heard, ~overlapped', NEW p \in Op,
         (\E i \in 1..5 : Stopped(p, i)) \/ (p = Main /\ (Stop \/ Closed))
  PROVE  Sequential' /\ Heard'
<1> USE ReloadAssumption
<1>0. /\ doc \in [Op -> Doc] /\ file \in Doc /\ doc[p] \in Doc
      /\ at \in [Op -> Phase] /\ held \in [Op -> Thing \cup {Off}] /\ daemon \in DaemonType
      /\ Main \in Op
  BY DEF ReloadTyped, ReloadTypeOK, Phase, DaemonType, Op
<1>b. ASSUME Lands(p, doc[p]), \A q \in Op : Busy(q) => q = p, UNCHANGED <<file, doc, told>>,
             told /\ p \in Writer => doc[p] = file,
             at'[p] \in Starting \cup {"up"} => p \in Writer
      PROVE  Sequential' /\ Heard'
  BY <1>0, <1>b, LandsKeeps
\* A stop() never begins to create.
<1>c. ASSUME p = Main, NEW i \in 1..6, NEW d, TakesDown(Main, d, i)
      PROVE  at'[p] \notin Starting \cup {"up"}
  <2>1. \A j \in Awaited(d, i) : j \in 1..5
    BY DEF Awaited
  <2>2. CASE Awaited(d, i) = {}
    BY <1>0, <1>c, <2>2 DEF TakesDown, Awaits, Starting
  <2>3. CASE Awaited(d, i) # {}
    <3> DEFINE j == CHOOSE j \in Awaited(d, i) : \A k \in Awaited(d, i) : j <= k
    <3>1. j \in 1..5
      BY <2>1, <2>3, FirstPlace
    <3>2. at'[p] = Parts[j]
      BY <1>0, <1>c, <2>3 DEF TakesDown, Awaits
    <3> HIDE DEF j
    <3>3. Parts[j] \in Part
      BY <3>1 DEF Part
    <3> QED BY <3>2, <3>3, PartNames DEF Starting
  <2> QED BY <2>2, <2>3
<1>1. ASSUME NEW i \in 1..5, Stopped(p, i)
      PROVE  Sequential' /\ Heard'
  <2> DEFINE h == held[p]
             d == Without(daemon, Parts[i], h)
             l == [daemon EXCEPT !.things = @ \ {h}]
  <2>1. /\ at[p] = Parts[i] /\ Parts[i] \in Part /\ UNCHANGED <<file, doc, told>>
    BY <1>1 DEF Stopped, Part
  <2>2. Busy(p) /\ Progress(p, Parts[i], h, daemon, doc[p]) /\ at[p] \notin Starting
    BY <1>0, <2>1, PartNames DEF Busy, Sequential, Starting
  <2>3. \A q \in Op : Busy(q) => q = p
    BY <2>2 DEF Sequential
  <2>4. told /\ p \in Writer => doc[p] = file
    BY <2>1, <2>2, PartNames DEF Heard
  <2>5. /\ Known(daemon, h) /\ Cleared(daemon, {Parts[j] : j \in 1..(i - 1)})
        /\ Parts[i] = "lane" => daemon.entry["lane"] = Off /\ (h # Off => h.part = "lane")
        /\ Parts[i] # "lane" => h = daemon.entry[Parts[i]] /\ h # Off
    BY <2>1, <2>2 DEF Progress
  <2>6. CASE Parts[i] # "lane"
    <3>1. TakesDown(p, d, i + 1)
      BY <1>1, <2>6 DEF Stopped
    <3>2. h \in Thing /\ h = daemon.entry[Parts[i]]
      BY <1>0, <2>5, <2>6
    <3>3. /\ d \in DaemonType /\ Known(d, Off) /\ d.entry[Parts[i]] = Off
          /\ \A j \in Part \ {Parts[i]} : d.entry[j] = daemon.entry[j]
      BY <1>0, <2>1, <2>5, <3>2, WithoutKeeps
    <3> HIDE DEF d
    <3>4. Cleared(d, {Parts[j] : j \in 1..((i + 1) - 1)})
      <4> SUFFICES ASSUME NEW j \in 1..i PROVE d.entry[Parts[j]] = Off
        BY DEF Cleared
      <4>1. CASE j = i
        BY <3>3, <4>1
      <4>2. CASE j # i
        <5>1. j \in 1..(i - 1) /\ Parts[j] \in Part
          BY <4>2 DEF Part
        <5> QED BY <2>5, <3>3, <5>1 DEF Cleared
      <4> QED BY <4>1, <4>2
    <3>5. i + 1 \in 1..6 /\ Lands(p, doc[p])
      BY <1>0, <3>1, <3>3, <3>4, TakesDownLands
    <3>6. p = Main => at'[p] \notin Starting \cup {"up"}
      BY <1>c, <3>1, <3>5
    <3> QED BY <1>b, <2>1, <2>3, <2>4, <3>5, <3>6 DEF Op
  <2>7. CASE Parts[i] = "lane"
    <3>1. i = 4
      BY <2>7, PartNames
    <3>2. /\ l \in DaemonType /\ l.entry = daemon.entry /\ l.things = daemon.things \ {h}
      BY <1>0 DEF DaemonType
    <3>3. Known(l, Off)
      <4>1. \A k \in Part : daemon.entry[k] # Off => daemon.entry[k] # h
        BY <2>5, <2>7 DEF Known
      <4> QED BY <2>5, <3>2, <4>1 DEF Known
    <3>4. \A j \in 1..4 : l.entry[Parts[j]] = Off
      <4> SUFFICES ASSUME NEW j \in 1..4 PROVE l.entry[Parts[j]] = Off
        OBVIOUS
      <4>1. CASE j = 4
        BY <2>5, <3>1, <3>2, <4>1, PartNames
      <4>2. CASE j # 4
        <5>1. j \in 1..(i - 1)
          BY <3>1, <4>2
        <5> QED BY <2>5, <3>2, <5>1 DEF Cleared
      <4> QED BY <4>1, <4>2
    <3>5. CASE p = Main
      <4>1. Awaits(p, "closing", Off, l)
        BY <1>1, <2>7, <3>5 DEF Stopped
      <4> HIDE DEF l
      <4>2. Cleared(l, Part \ {"hub"})
        BY <3>4, PartNames DEF Cleared
      <4>3. Progress(p, "closing", Off, l, doc[p])
        BY <3>3, <3>5, <4>2, PartNames DEF Progress
      <4>4. at'[p] = "closing"
        BY <1>0, <4>1 DEF Awaits
      <4>5. Lands(p, doc[p])
        BY <3>2, <4>1, <4>3 DEF Lands, Phase, Resting
      <4> QED BY <1>b, <2>1, <2>3, <2>4, <4>4, <4>5 DEF Starting
    <3>6. CASE p # Main
      <4>1. TakesDown(p, l, 5)
        BY <1>1, <2>7, <3>1, <3>6 DEF Stopped
      <4> HIDE DEF l
      <4>2. Cleared(l, {Parts[j] : j \in 1..(5 - 1)})
        BY <3>4 DEF Cleared
      <4>3. Lands(p, doc[p])
        BY <1>0, <3>2, <3>3, <4>1, <4>2, TakesDownLands
      <4> QED BY <1>b, <2>1, <2>3, <2>4, <3>6, <4>3 DEF Op
    <3> QED BY <3>5, <3>6
  <2> QED BY <2>6, <2>7
<1>2. CASE p = Main /\ Stop
  <2>1. /\ TakesDown(Main, daemon, 1) /\ UNCHANGED <<file, doc, told>>
        /\ \A q \in Op : ~Busy(q)
    BY <1>2 DEF Stop, Requested
  <2>2. Known(daemon, Off) /\ Cleared(daemon, {Parts[j] : j \in 1..(1 - 1)})
    BY <2>1 DEF Sequential, Cleared
  <2>3. Lands(p, doc[p])
    BY <1>0, <1>2, <2>1, <2>2, TakesDownLands
  <2>4. at'[p] \notin Starting \cup {"up"}
    BY <1>c, <1>2, <2>1
  <2> QED BY <1>b, <1>2, <2>1, <2>3, <2>4
<1>3. CASE p = Main /\ Closed
  <2>1. /\ at[p] = "closing" /\ TakesDown(Main, daemon, 5)
        /\ UNCHANGED <<file, doc, told>>
        /\ \A q \in Op : Busy(q) => q = p
    BY <1>3 DEF Closed, Op
  <2>2. Busy(p)
    BY <2>1 DEF Busy
  <2>3. Known(daemon, Off) /\ Cleared(daemon, Part \ {"hub"})
    BY <2>1, <2>2, PartNames DEF Sequential, Progress
  <2>4. Cleared(daemon, {Parts[j] : j \in 1..(5 - 1)})
    <3> SUFFICES ASSUME NEW j \in 1..4 PROVE daemon.entry[Parts[j]] = Off
      BY DEF Cleared
    <3> QED BY <2>3, PartNames DEF Cleared
  <2>5. Lands(p, doc[p])
    BY <1>0, <1>3, <2>1, <2>3, <2>4, TakesDownLands
  <2>6. at'[p] \notin Starting \cup {"up"}
    BY <1>c, <1>3, <2>1
  <2> QED BY <1>b, <1>3, <2>1, <2>5, <2>6
<1> QED BY <1>1, <1>2, <1>3

\* A daemon that starts, or is killed, begins anew, whatever went on before.
LEMMA FreshStep ==
  ASSUME ReloadTyped, Start \/ KillDaemon
  PROVE  Sequential' /\ Heard'
<1> USE ReloadAssumption
<1>0. /\ doc \in [Op -> Doc] /\ file \in Doc /\ at \in [Op -> Phase] /\ Main \in Op
      /\ held \in [Op -> Thing \cup {Off}]
  BY DEF ReloadTyped, ReloadTypeOK, Phase, Op
<1>1. /\ NewDaemon \in DaemonType /\ Known(NewDaemon, Off) /\ Cleared(NewDaemon, Part)
      /\ NewDaemon.hub = file.hub /\ NewDaemon.lane = Off /\ Whole(NewDaemon)
  BY <1>0 DEF NewDaemon, DaemonType, Known, Cleared, Doc, Whole, WholeButDriver
<1>2. CASE Start
  <2> DEFINE x == IF file.core = Off THEN "listen" ELSE "create"
  <2>1. /\ Awaits(Main, x, Off, NewDaemon) /\ doc' = [doc EXCEPT ![Main] = file]
        /\ UNCHANGED file /\ \A q \in Op : ~Busy(q)
    BY <1>2 DEF Start, Busy, Op
  <2>2. doc'[Main] = file /\ \A q \in Op : q # Main => doc'[q] = doc[q]
    BY <1>0, <2>1
  <2>3. Progress(Main, x, Off, NewDaemon, file)
    BY <1>1, PartNames DEF Progress
  <2>4. Lands(Main, doc'[Main])
    BY <1>1, <2>1, <2>2, <2>3 DEF Lands, Phase, Resting
  <2> QED BY <1>0, <2>1, <2>2, <2>4, LandsKeeps
<1>3. CASE KillDaemon
  <2>1. /\ at' = [q \in Op |-> IF q = Main \/ Busy(q) THEN "idle" ELSE at[q]]
        /\ held' = [q \in Op |-> Off] /\ daemon' = NewDaemon
    BY <1>3 DEF KillDaemon
  <2>2. /\ \A q \in Op : ~Busy(q)' /\ at'[q] \notin Starting /\ held'[q] = Off
        /\ at'[Main] = "idle"
    BY <1>0, <2>1 DEF Busy, Phase, Starting
  <2> QED BY <1>1, <2>1, <2>2 DEF Sequential, Heard
<1> QED BY <1>2, <1>3

\* The inductive invariant holds before the first start.
LEMMA ReloadInitInv == ReloadInit => ReloadInv
<1> SUFFICES ASSUME ReloadInit PROVE ReloadInv
  OBVIOUS
<1> USE ReloadAssumption DEF ReloadInit
<1>1. \A p \in Op : at[p] = "idle" /\ ~Busy(p) /\ held[p] = Off
  BY DEF Busy
<1>2. NewDaemon \in FineDaemon /\ Known(NewDaemon, Off) /\ Whole(NewDaemon)
  BY FS_EmptySet DEF NewDaemon, FineDaemon, DaemonType, Known, Cleared, Doc, Whole, WholeButDriver
<1>3. ReloadTyped
  <2>1. doc \in [Op -> Doc] /\ held \in [Op -> Thing \cup {Off}] /\ daemon \in FineDaemon
    BY <1>2
  <2>2. edits = 0 /\ failures = 0 /\ control = FALSE /\ told = FALSE /\ overlapped = FALSE
    OBVIOUS
  <2>3. edits \in 0..MaxEdits /\ failures \in 0..MaxFailures
    BY <2>2
  <2> QED BY <1>1, <2>1, <2>2, <2>3 DEF ReloadTyped, ReloadTypeOK, FineDaemon, DaemonType
<1>4. Sequential /\ Heard
  BY <1>1, <1>2 DEF Sequential, Heard
<1> QED BY <1>3, <1>4 DEF ReloadInv

\* Every step of a writer, a reload, start() and stop() keeps it: one that meets
\* another request is remembered, and a new daemon begins in order.
LEMMA ReloadStep == ReloadInv /\ [ReloadNext]_reloadVars => ReloadInv'
<1> SUFFICES ASSUME ReloadInv, [ReloadNext]_reloadVars PROVE ReloadInv'
  OBVIOUS
<1>0. Main \in Op /\ Writer \subseteq Op
  BY DEF Op
<1>1. ReloadTyped /\ ReloadTyped'
  BY TypedStep DEF ReloadInv
<1>2. CASE Start \/ KillDaemon
  BY <1>1, <1>2, FreshStep DEF ReloadInv
<1>3. CASE overlapped'
  BY <1>1, <1>3 DEF ReloadInv
<1>4. CASE ~overlapped' /\ ~(Start \/ KillDaemon)
  <2>1. ~overlapped
    BY <1>4 DEF ReloadNext, reloadVars, Load, AskAgain, Save, SaveFails, Ask, Reads, Decides,
                SyncStopped, Stopped, Created, Listens, Added, Spawned, CreateFails, Stop, Closed,
                Requested
  <2>2. Sequential /\ Heard
    BY <2>1 DEF ReloadInv
  <2>3. CASE \E w \in Writer : \/ Load(w) \/ AskAgain(w) \/ Save(w) \/ SaveFails(w)
                               \/ Ask(w) \/ Reads(w) \/ Decides(w) \/ SyncStopped(w)
    BY <1>1, <1>4, <2>2, <2>3, WriterStep DEF ReloadInv
  <2>4. CASE \/ Listens
             \/ \E p \in Op : Created(p) \/ Added(p) \/ Spawned(p) \/ CreateFails(p)
    BY <1>0, <1>1, <2>2, <2>4, CreationStep DEF ReloadInv
  <2>5. CASE Stop \/ Closed \/ \E p \in Op : \E i \in 1..5 : Stopped(p, i)
    BY <1>0, <1>1, <1>4, <2>2, <2>5, StopStep DEF ReloadInv
  <2>6. CASE UNCHANGED reloadVars
    <3>1. \A p \in Op : Busy(p)' <=> Busy(p)
      BY <2>6 DEF reloadVars, Busy
    <3>2. Sequential' /\ Heard'
      BY <2>2, <2>6, <3>1 DEF reloadVars, Sequential, Heard
    <3> QED BY <1>1, <3>2 DEF ReloadInv
  <2> QED BY <1>4, <2>3, <2>4, <2>5, <2>6 DEF ReloadNext
<1> QED BY <1>2, <1>3, <1>4

\* The invariant of the daemon's maps, for any number of writers, edits and
\* failures: types whatever meets whatever, and order from a start until two
\* requests meet in that daemon (agent-mesh-daemon.ts:110-330).
THEOREM ReloadInvariant == ReloadSpec => []ReloadInv
<1>1. ReloadInit => ReloadInv
  BY ReloadInitInv
<1>2. ReloadInv /\ [ReloadNext]_reloadVars => ReloadInv'
  BY ReloadStep
<1> QED BY <1>1, <1>2, PTL DEF ReloadSpec

\* The file, the operations and the maps keep their types, overlaps or not.
THEOREM ReloadTypes == ReloadSpec => []ReloadTypeOK
<1>1. ReloadInv => ReloadTypeOK
  BY DEF ReloadInv, ReloadTyped
<1> QED BY <1>1, ReloadInvariant, PTL

\* What runs when nothing goes on is exactly what a whole daemon names.
LEMMA WholeRunsWanted ==
  ASSUME daemon \in DaemonType, file \in Doc, Known(daemon, Off), Whole(daemon),
         ~daemon.broken, Fits(daemon, file)
  PROVE  {<<t.part, t.of>> : t \in daemon.things} = Wanted(file)
<1> USE ReloadAssumption
<1> DEFINE n == daemon.entry
<1>0. /\ daemon.things = {n[k] : k \in Part} \ {Off}
      /\ \A k \in Part : n[k] # Off => n[k].part = k
      /\ daemon.hub = file.hub /\ daemon.lane = LaneFor(file)
  BY DEF Known, Fits
<1>1. CASE file.core = Off
  <2>1. daemon.things = {}
    BY <1>0, <1>1 DEF LaneFor, Whole, WholeButDriver, Cleared
  <2> QED BY <1>1, <2>1 DEF Wanted
<1>2. CASE file.core # Off
  <2> DEFINE R == {<<t.part, t.of>> : t \in daemon.things}
             K == IF file.core \in ClaudeCore THEN "claude" ELSE "worker"
  <2>1. daemon.lane = [core |-> file.core, channel |-> file.channel] /\ daemon.lane # Off
    BY <1>0, <1>2 DEF LaneFor, LaneOf, Doc
  <2>2. /\ Has(daemon, "hub", file.hub) /\ Has(daemon, "lane", file.core)
        /\ Has(daemon, K, file.core)
        /\ daemon.entry[IF file.core \in ClaudeCore THEN "worker" ELSE "claude"] = Off
        /\ IF file.channel = Off THEN daemon.entry["driver"] = Off
                                 ELSE Has(daemon, "driver", file.channel)
    BY <1>0, <2>1 DEF Whole, WholeButDriver
  <2>3. R = {<<k, n[k].of>> : k \in {j \in Part : n[j] # Off}}
    BY <1>0
  <2>4. {j \in Part : n[j] # Off} =
          {"hub", "lane", K} \cup IF file.channel = Off THEN {} ELSE {"driver"}
    BY <2>2, PartNames DEF Has
  <2> QED BY <1>2, <2>2, <2>3, <2>4 DEF Wanted, Has
<1> QED BY <1>1, <1>2

\* Until two requests meet, once the daemon has read what was saved last and is
\* done with it, exactly what the file asks for runs, whatever ran before, failed,
\* was killed or met another request in an earlier daemon
\* (OPS-003; agent-mesh-daemon.ts:118-200).
THEOREM FileIsApplied == ReloadSpec => []ReloadApplies
<1>1. ReloadInv => ReloadApplies
  BY WholeRunsWanted
  DEF ReloadInv, ReloadTyped, ReloadTypeOK, DaemonType, Sequential, Heard, ReloadApplies, Applied
<1> QED BY <1>1, ReloadInvariant, PTL

\* Until two requests meet, nothing runs that the daemon has lost sight of, at any
\* await of any operation (agent-mesh-daemon.ts:118-330).
THEOREM NothingIsLost == ReloadSpec => []NothingStray
<1>1. ReloadInv => NothingStray
  <2> SUFFICES ASSUME ReloadInv, ~overlapped PROVE NothingStray
    BY DEF NothingStray
  <2>1. CASE \E p \in Op : Busy(p)
    <3>1. PICK p \in Op : Known(daemon, held[p])
      BY <2>1 DEF ReloadInv, Sequential, Progress
    <3> QED BY <3>1 DEF Known, NothingStray
  <2>2. CASE \A p \in Op : ~Busy(p)
    BY <2>2 DEF ReloadInv, Sequential, Known, NothingStray
  <2> QED BY <2>1, <2>2
<1> QED BY <1>1, ReloadInvariant, PTL
=============================================================================
