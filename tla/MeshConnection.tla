---------------------------- MODULE MeshConnection ----------------------------
(***************************************************************************)
(* A lane's connection to the Hub: LaneHubConnection.#run with the key of  *)
(* the identity (IdentityKeyManager, SecretStore), its registration        *)
(* (provisioning.ts) and the WebSocket under MeshClient.                   *)
(*                                                                         *)
(* MeshClient has one #socket, one #status and one #pending, but more than *)
(* one WebSocket may be alive: one being closed, one whose opening was     *)
(* given up, and the one in use.  All their listeners write to the same    *)
(* three.  Any call may be lost and any socket may die at any time.        *)
(***************************************************************************)
EXTENDS Naturals

CONSTANTS NSockets,     \* bound: WebSockets alive together
          Caller,       \* users of MeshClient.call besides #run
          MaxRestarts,  \* bound: restarts of the daemon
          MaxDiskFaults \* bound: failures of SecretStore.set

ASSUME ConnectionAssumption ==
  NSockets \in Nat \ {0} /\ MaxRestarts \in Nat /\ MaxDiskFaults \in Nat

Socket == 1..NSockets
Key    == 1..(MaxRestarts + 1)  \* a process generates at most one

\* Who holds the identity at the Hub, if not one of this host's keys.
Nobody   == 0
Stranger == MaxRestarts + 2
Deleted  == MaxRestarts + 3

VARIABLES
  disk,      \* the key file, 0 when there is none
  record,    \* IdentityKeyManager.#record
  stray,     \* a temporary file of this process is in the way of the next set()
  unsaved,   \* history: a set() failed
  keys,      \* keys generated so far
  holder,    \* whose key the Hub has recorded for the identity
  approved,  \* and whether it is approved
  pc,        \* the await #run is at
  aborted,   \* stop() was called
  mine,      \* the WebSocket of the last connect()
  mesh,      \* MeshClient.#status.state
  socket,    \* MeshClient.#socket, 0 for null
  sock,      \* the state of each WebSocket
  heard,     \* those with listeners for messages and close
  call,      \* the WebSocket each caller awaits an answer on, 0 for none
  restarts, faults

keyfile == <<disk, record, stray, unsaved, keys, faults>>
hub     == <<holder, approved>>
client  == <<mine, mesh, socket, sock, heard>>
vars    == <<keyfile, hub, pc, aborted, client, call, restarts>>

\* Every variable is of the type of the field or the file it stands for.
TypeOK ==
  /\ disk \in {0} \cup Key /\ record \in {0} \cup Key /\ keys \in {0} \cup Key
  /\ stray \in BOOLEAN /\ unsaved \in BOOLEAN
  /\ holder \in {Nobody, Stranger, Deleted} \cup Key /\ approved \in BOOLEAN
  /\ pc \in {"start", "saving", "lookup", "provision", "confirm", "remember",
             "opening", "hello", "watching", "retry", "conflict", "ended"}
  /\ aborted \in BOOLEAN
  /\ mesh \in {"disconnected", "connecting", "connected", "approval", "failed"}
  /\ mine \in {0} \cup Socket /\ socket \in {0} \cup Socket
  /\ sock \in [Socket -> {"opening", "open", "closing", "closed"}]
  /\ heard \in [Socket -> BOOLEAN]
  /\ call \in [Caller -> {0} \cup Socket]
  /\ restarts \in 0..MaxRestarts /\ faults \in 0..MaxDiskFaults

Init ==
  /\ disk = 0 /\ record = 0 /\ stray = FALSE /\ unsaved = FALSE /\ keys = 0
  /\ holder \in {Nobody, Stranger, Deleted} /\ approved = FALSE
  /\ pc = "start" /\ aborted = FALSE
  /\ mine = 0 /\ mesh = "disconnected" /\ socket = 0
  /\ sock = [s \in Socket |-> "closed"] /\ heard = [s \in Socket |-> FALSE]
  /\ call = [c \in Caller |-> 0]
  /\ restarts = 0 /\ faults = 0
-----------------------------------------------------------------------------
(* IdentityKeyManager.ensure, SecretStore.set *)

At(from, to) == pc = from /\ pc' = to

EnsureLoads ==
  /\ record # 0 \/ disk # 0
  /\ At("start", "lookup")
  /\ record' = IF record # 0 THEN record ELSE disk
  /\ UNCHANGED <<disk, stray, unsaved, keys, faults, hub, aborted, client, call,
                 restarts>>

\* Mutant: the new key is used before it is written.
EnsureCreatesUnsaved ==
  /\ record = 0 /\ disk = 0
  /\ At("start", "lookup")
  /\ record' = keys + 1 /\ keys' = keys + 1
  /\ UNCHANGED <<disk, stray, unsaved, faults, hub, aborted, client, call, restarts>>

\* Mutant: every attempt generates a key.
EnsureCreatesAgain ==
  /\ At("start", "saving")
  /\ record' = keys + 1 /\ keys' = keys + 1
  /\ UNCHANGED <<disk, stray, unsaved, faults, hub, aborted, client, call, restarts>>

\* #record is set before the file is written.
EnsureCreates ==
  /\ record = 0 /\ disk = 0
  /\ At("start", "saving")
  /\ record' = keys + 1 /\ keys' = keys + 1
  /\ UNCHANGED <<disk, stray, unsaved, faults, hub, aborted, client, call, restarts>>

\* #socket is there and its readyState is OPEN.
IsOpen == \E s \in Socket : s = socket /\ sock[s] = "open"

\* Numbers of WebSockets that nothing refers to any more.
Unused == {s \in Socket : sock[s] = "closed" /\ \A c \in Caller : call[c] # s}

\* connect() up to its await.  A #socket that is open is kept, whoever opened it.
Connect ==
  \/ /\ IsOpen
     /\ pc' = "watching"
     /\ UNCHANGED client
  \/ /\ ~IsOpen
     /\ \E s \in Unused :
          /\ \A t \in Unused : s <= t
          /\ mine' = s /\ socket' = s
          /\ sock' = [sock EXCEPT ![s] = "opening"]
          /\ heard' = [heard EXCEPT ![s] = FALSE]
     /\ mesh' = "connecting"
     /\ pc' = "opening"

Save ==
  /\ ~stray
  /\ \/ At("saving", "lookup") /\ UNCHANGED client
     \/ pc = "remember" /\ Connect
  /\ disk' = record
  /\ UNCHANGED <<record, stray, unsaved, keys, faults, hub, aborted, call, restarts>>

\* A failed write leaves its temporary file, which a later set() of the same
\* process cannot create again; a failed chmod comes after the rename.
SaveFails ==
  /\ pc \in {"saving", "remember"} /\ pc' = "retry"
  /\ unsaved' = TRUE
  /\ \/ stray /\ UNCHANGED <<disk, stray, faults>>
     \/ /\ ~stray /\ faults < MaxDiskFaults /\ faults' = faults + 1
        /\ \/ stray' \in BOOLEAN /\ UNCHANGED disk
           \/ disk' = record /\ UNCHANGED stray
  /\ UNCHANGED <<record, keys, hub, aborted, client, call, restarts>>
-----------------------------------------------------------------------------
(* lookupAgentIdentity, provisionAgent *)

Registration == <<keyfile, hub, aborted, call, restarts>>

Lookup ==
  /\ pc = "lookup"
  /\ \/ holder = Nobody /\ pc' = "provision" /\ UNCHANGED client
     \/ holder = record /\ Connect
     \/ holder \notin {Nobody, record} /\ pc' = "conflict" /\ UNCHANGED client
  /\ UNCHANGED Registration

LookupFails == /\ pc \in {"lookup", "confirm"} /\ pc' = "retry"
               /\ UNCHANGED <<Registration, client>>

\* create_only: the Hub records the key of an identity nobody has.
ProvisionRecorded ==
  /\ pc = "provision" /\ holder = Nobody
  /\ holder' = record /\ approved' = FALSE
  /\ pc' \in {"confirm", "retry"}  \* retry: the answer is lost
  /\ UNCHANGED <<keyfile, aborted, client, call, restarts>>

\* A Hub that knows the fingerprint answers 2xx and records nothing.
ProvisionIgnored == At("provision", "confirm") /\ UNCHANGED <<Registration, client>>

ProvisionRefused == /\ holder # Nobody /\ At("provision", "conflict")
                    /\ UNCHANGED <<Registration, client>>

ProvisionFails == At("provision", "retry") /\ UNCHANGED <<Registration, client>>

\* Mutant: a 2xx answer is taken as proof, and not read back.
ConfirmTrusts ==
  /\ pc = "confirm"
  /\ pc' = "remember" /\ UNCHANGED client
  /\ UNCHANGED Registration

\* The read-back; a key file that names its type already is not written again.
Confirm ==
  /\ pc = "confirm"
  /\ \/ holder = record /\ pc' = "remember" /\ UNCHANGED client
     \/ holder = record /\ disk = record /\ Connect
     \/ holder # record /\ pc' = "conflict" /\ UNCHANGED client
  /\ UNCHANGED Registration
-----------------------------------------------------------------------------
(* MeshClient *)

Rest == <<keyfile, hub, aborted, restarts>>

Awaited(s) == pc = "opening" /\ mine = s

\* The open event.  connect() hangs its listeners and sends mesh.connect over
\* #socket, unless that is null by now.  Once connect() has given up nobody
\* listens; if #socket is another one too, the WebSocket does nothing any more.
Opens(s) ==
  /\ sock[s] = "opening"
  /\ \/ /\ Awaited(s) /\ socket = s
        /\ sock' = [sock EXCEPT ![s] = "open"] /\ heard' = [heard EXCEPT ![s] = TRUE]
        /\ pc' = "hello" /\ UNCHANGED mesh
     \/ /\ Awaited(s) /\ socket # s
        /\ sock' = [sock EXCEPT ![s] = "closing"] /\ heard' = [heard EXCEPT ![s] = TRUE]
        /\ pc' = "retry" /\ mesh' = "failed"
     \/ /\ ~Awaited(s)
        /\ sock' = [sock EXCEPT ![s] = IF socket = s THEN "open" ELSE "closed"]
        /\ UNCHANGED <<heard, pc, mesh>>
  /\ UNCHANGED <<Rest, mine, socket, call>>

\* The error event of a WebSocket that does not open, or the unheard close of
\* one that close() was called on.
OpenFails(s) ==
  /\ sock[s] = "opening" \/ (sock[s] = "closing" /\ ~heard[s])
  /\ sock' = [sock EXCEPT ![s] = "closed"]
  /\ pc' = IF Awaited(s) THEN "retry" ELSE pc
  /\ UNCHANGED <<Rest, mine, mesh, socket, heard, call>>

\* 15 s are over; the WebSocket goes on opening and #status stays "connecting".
OpenTimesOut == At("opening", "retry") /\ UNCHANGED <<Rest, client, call>>

HelloAccepted ==
  /\ At("hello", "watching") /\ holder = record /\ approved
  /\ mesh' = "connected"
  /\ UNCHANGED <<Rest, mine, socket, sock, heard, call>>

\* The catch block of connect().
HelloEnds(state) ==
  /\ At("hello", "retry")
  /\ mesh' = state
  /\ sock' = [sock EXCEPT ![mine] = "closing"]
  /\ UNCHANGED <<Rest, mine, socket, heard, call>>

HelloRefused == ~approved /\ HelloEnds("approval")
HelloFails   == HelloEnds("failed")

\* #rejectPending: a pending mesh.connect fails too, and connect() closes its
\* WebSocket; it leaves `state` when there is none.
RejectPending(state) ==
  /\ call' = [c \in Caller |-> 0]
  /\ IF pc = "hello" THEN mesh' = "failed" /\ pc' = "retry"
                     ELSE mesh' = state /\ UNCHANGED pc

Closing(s) == pc = "hello" /\ s = mine /\ sock[s] = "open"

\* Mutant: the pending calls are left to their timers.
HandleCloseKeepsPending(s) ==
  /\ socket' = 0
  /\ mesh' = IF mesh = "approval" THEN mesh ELSE "disconnected"
  /\ UNCHANGED <<call, pc>>
  /\ sock' = [sock EXCEPT ![s] = "closed"]

\* Mutant: the status is left to #run.
HandleCloseKeepsStatus(s) ==
  /\ socket' = 0
  /\ RejectPending(mesh)
  /\ sock' = [t \in Socket |-> IF t = s THEN "closed"
                               ELSE IF Closing(t) THEN "closing" ELSE sock[t]]

\* The close listener, which does not look whose close it is.
HandleClose(s) ==
  /\ socket' = 0
  /\ RejectPending(IF mesh = "approval" THEN mesh ELSE "disconnected")
  /\ sock' = [t \in Socket |-> IF t = s THEN "closed"
                               ELSE IF Closing(t) THEN "closing" ELSE sock[t]]

CloseEvent(s) ==
  /\ sock[s] \in {"open", "closing"} /\ heard[s]
  /\ HandleClose(s)
  /\ UNCHANGED <<Rest, mine, heard>>

UnheardClose(s) ==
  /\ sock[s] = "open" /\ ~heard[s]
  /\ sock' = [sock EXCEPT ![s] = "closed"]
  /\ UNCHANGED <<Rest, pc, mine, mesh, socket, heard, call>>

Call(c) ==
  /\ call[c] = 0 /\ IsOpen
  /\ call' = [call EXCEPT ![c] = socket]
  /\ UNCHANGED <<Rest, pc, client>>

\* The answer arrives, or the 30 s are over.
CallEnds(c) == /\ call[c] # 0 /\ call' = [call EXCEPT ![c] = 0]
               /\ UNCHANGED <<Rest, pc, client>>
-----------------------------------------------------------------------------
(* LaneHubConnection *)

\* Mutant: the watch looks for the abort only.
WatchEndsAborted == /\ aborted
                    /\ At("watching", "retry") /\ UNCHANGED <<Rest, client, call>>

\* The look once a second.
WatchEnds == /\ aborted \/ mesh # "connected"
             /\ At("watching", "retry") /\ UNCHANGED <<Rest, client, call>>

\* Mutant: the loop does not look at the abort.
RetryForever == /\ pc = "retry" /\ pc' = "start"
                /\ UNCHANGED <<Rest, client, call>>

\* The back-off, and the condition of the loop.
Retry == /\ pc = "retry" /\ pc' = IF aborted THEN "ended" ELSE "start"
         /\ UNCHANGED <<Rest, client, call>>

ConflictEnds == /\ aborted /\ At("conflict", "ended")
                /\ UNCHANGED <<Rest, client, call>>

\* stop() up to `await this.#loop`: abort, then MeshClient.close().
Stop ==
  /\ ~aborted /\ aborted' = TRUE
  /\ sock' = [s \in Socket |->
                IF Closing(s) \/ (s = socket /\ sock[s] \in {"opening", "open"})
                THEN "closing" ELSE sock[s]]
  /\ socket' = 0
  /\ RejectPending("disconnected")
  /\ UNCHANGED <<keyfile, hub, mine, heard, restarts>>

\* The process is replaced; files and the Hub stay.
Restart ==
  /\ restarts < MaxRestarts /\ restarts' = restarts + 1
  /\ record' = 0 /\ stray' = FALSE
  /\ pc' = "start" /\ aborted' = FALSE
  /\ mine' = 0 /\ mesh' = "disconnected" /\ socket' = 0
  /\ sock' = [s \in Socket |-> "closed"] /\ heard' = [s \in Socket |-> FALSE]
  /\ call' = [c \in Caller |-> 0]
  /\ UNCHANGED <<disk, unsaved, keys, faults, hub>>
-----------------------------------------------------------------------------
(* The Hub: another host claims the identity, an operator reviews the key *)

Claim  == /\ holder = Nobody /\ holder' = Stranger
          /\ UNCHANGED <<keyfile, approved, pc, aborted, client, call, restarts>>

Review == /\ holder \in Key /\ approved' = ~approved
          /\ UNCHANGED <<keyfile, holder, pc, aborted, client, call, restarts>>
-----------------------------------------------------------------------------
\* #run, when what it asks for is answered.
Loop == \/ EnsureLoads \/ EnsureCreates \/ Save \/ SaveFails
        \/ Lookup \/ ProvisionRecorded \/ ProvisionIgnored \/ ProvisionRefused
        \/ Confirm \/ HelloAccepted \/ HelloRefused
        \/ WatchEnds \/ Retry \/ ConflictEnds

Next ==
  \/ Loop \/ LookupFails \/ ProvisionFails \/ OpenTimesOut \/ HelloFails
  \/ \E s \in Socket : Opens(s) \/ OpenFails(s) \/ CloseEvent(s) \/ UnheardClose(s)
  \/ \E c \in Caller : Call(c) \/ CallEnds(c)
  \/ Stop \/ Restart \/ Claim \/ Review

Spec == Init /\ [][Next]_vars

\* A call or a connection is lost, or a close takes longer than the back-off.
Outage ==
  \/ LookupFails \/ ProvisionFails \/ OpenTimesOut \/ HelloFails
  \/ \E s \in Socket : \/ sock[s] = "opening" /\ OpenFails(s)
                       \/ sock[s] = "open" /\ CloseEvent(s)
                       \/ UnheardClose(s)
                       \/ sock[s] = "closing" /\ Retry

\* The loop, the timers and the WebSockets run on, and outages end.
FairSpec ==
  /\ Spec
  /\ WF_vars(Loop)
  /\ \A c \in Caller : WF_vars(CallEnds(c))
  /\ \A s \in Socket : /\ WF_vars(Opens(s))
                       /\ WF_vars(sock[s] = "closing" /\ (OpenFails(s) \/ CloseEvent(s)))
  /\ <>[][~Outage]_vars
-----------------------------------------------------------------------------
(* Properties *)

\* The watch trusts #status, so "connected" is never left behind by a socket
\* that is closed, being closed, or not listened to.
ConnectedIsAlive ==
  mesh = "connected" => IsOpen /\ heard[socket]

\* No caller waits for its timer on a socket whose close was heard.
NobodyWaitsOnClosed ==
  \A c \in Caller : call[c] # 0 /\ heard[call[c]] => sock[call[c]] # "closed"

\* SEC-005: the lane connects only with the key the Hub has recorded for this
\* identity, whoever else claimed it meanwhile and whatever the answer said.
ConnectsWithOwnKey ==
  pc \in {"opening", "hello", "watching"} => holder = record /\ record # 0

\* The key the Hub holds is on this host's disk, over restarts at any point,
\* unless a write of it failed.
KeyIsKept == holder \in Key => disk = holder \/ unsaved

\* A private key that is on the disk is never overwritten by another, however
\* saves fail, restarts cut in and later processes go on from what is left.
KeyIsNeverReplaced == [][disk # 0 => disk' = disk]_vars

\* The parts of the inductive invariant.  A process generates one key at most.
OneKeyPerProcess == keys <= restarts + 1 /\ (record = 0 => keys <= restarts)

\* Whatever #run does after ensure(), it does with a key: a new one replaces no
\* other on the disk, one in use is the one on the disk, if there is one, and
\* there is one unless a write failed.
HasKey ==
  /\ pc \in {"saving", "lookup", "provision", "confirm", "remember"} => record # 0
  /\ disk # 0 => record \in {0, disk}
  /\ IF pc = "saving" THEN disk = 0 ELSE record = 0 \/ disk = record \/ unsaved
  /\ pc = "remember" => holder = record

\* connect() awaits the answer on the current socket, and what it opened was
\* never called on before.
HelloIsCurrent ==
  /\ pc \in {"opening", "hello"} => mine \in Socket
  /\ pc = "hello" => socket = mine /\ sock[mine] = "open" /\ heard[mine]
CalledWasOpen == \A c \in Caller : call[c] # 0 => sock[call[c]] # "opening"

\* Inductive: implies the safety properties above.
IInv ==
  /\ TypeOK
  /\ OneKeyPerProcess /\ HasKey /\ ConnectsWithOwnKey /\ KeyIsKept
  /\ HelloIsCurrent /\ ConnectedIsAlive
  /\ CalledWasOpen /\ NobodyWaitsOnClosed

\* A connection that opened after connect() had given it up is in the way.
Mute == IsOpen /\ ~heard[socket]

\* After the last outage an approved lane is connected for good, unless it was
\* stopped, its identity is taken, or a mute connection is in the way.
ConnectsUnlessMute ==
  <>[]approved => <>[](mesh = "connected" \/ aborted \/ pc = "conflict" \/ Mute)

\* stop() returns, wherever the loop is.
StopReturns == aborted ~> pc = "ended" \/ ~aborted

\* AUD-002, AT-007: what the outbox keeps during an outage is delivered after
\* it, for which the lane must be connected again.
ConnectsAfterOutage ==
  <>[]approved => <>[](mesh = "connected" \/ aborted \/ pc = "conflict")
=============================================================================
