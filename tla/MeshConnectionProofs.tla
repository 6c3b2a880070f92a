------------------------ MODULE MeshConnectionProofs ------------------------
(***************************************************************************)
(* Proofs about MeshConnection, for any number of WebSockets, callers,     *)
(* restarts and disk failures.  A step is looked at three times, once for  *)
(* each group of variables the invariant relates.                          *)
(***************************************************************************)
EXTENDS MeshConnection, TLAPS

-----------------------------------------------------------------------------
USE DEF Socket, Key, Nobody, Stranger, Deleted

\* A new host satisfies the inductive invariant.
LEMMA InitIInv == Init => IInv
  <1> SUFFICES ASSUME Init PROVE IInv
    OBVIOUS
  <1>1. /\ sock \in [Socket -> {"opening", "open", "closing", "closed"}]
        /\ heard \in [Socket -> BOOLEAN]
        /\ call \in [Caller -> {0} \cup Socket]
    BY Zenon DEF Init
  <1>2. /\ disk = 0 /\ record = 0 /\ keys = 0 /\ mine = 0 /\ socket = 0
        /\ stray = FALSE /\ unsaved = FALSE /\ approved = FALSE /\ aborted = FALSE
        /\ holder \in {Nobody, Stranger, Deleted} /\ pc = "start"
        /\ mesh = "disconnected" /\ restarts = 0 /\ faults = 0
    BY DEF Init
  <1>3. TypeOK
    <2>1. restarts \in 0..MaxRestarts /\ faults \in 0..MaxDiskFaults
      BY <1>2, ConnectionAssumption
    <2> QED
      BY <1>1, <1>2, <2>1, Zenon DEF TypeOK
  <1>4. OneKeyPerProcess /\ HasKey /\ ConnectsWithOwnKey /\ KeyIsKept
    BY <1>2, ConnectionAssumption
    DEF OneKeyPerProcess, HasKey, ConnectsWithOwnKey, KeyIsKept
  <1>5. HelloIsCurrent /\ ConnectedIsAlive /\ CalledWasOpen /\ NobodyWaitsOnClosed
    BY DEF Init, HelloIsCurrent, ConnectedIsAlive, CalledWasOpen, NobodyWaitsOnClosed
  <1> QED
    BY <1>3, <1>4, <1>5 DEF IInv

\* What MeshClient keeps, and where connect() leaves #run.
ClientTypes ==
  /\ mesh \in {"disconnected", "connecting", "connected", "approval", "failed"}
  /\ mine \in {0} \cup Socket /\ socket \in {0} \cup Socket
  /\ sock \in [Socket -> {"opening", "open", "closing", "closed"}]
  /\ heard \in [Socket -> BOOLEAN]

\* connect() keeps the types, and starts to open or to watch.
LEMMA ConnectTypes ==
  ASSUME TypeOK, Connect
  PROVE  ClientTypes' /\ pc' \in {"opening", "watching"}
  <1>1. CASE UNCHANGED client /\ pc' = "watching"
    BY <1>1 DEF TypeOK, ClientTypes, client
  <1>2. ASSUME NEW s \in Socket, mine' = s, socket' = s, mesh' = "connecting",
               sock' = [sock EXCEPT ![s] = "opening"],
               heard' = [heard EXCEPT ![s] = FALSE], pc' = "opening"
        PROVE  ClientTypes' /\ pc' \in {"opening", "watching"}
    BY <1>2 DEF TypeOK, ClientTypes
  <1> QED
    BY <1>1, <1>2 DEF Connect, Unused

\* No step leaves the types; a hello that ends has a WebSocket to close.
LEMMA TypeStep ==
  ASSUME TypeOK, HelloIsCurrent, OneKeyPerProcess, [Next]_vars
  PROVE  TypeOK'
  <1> USE ConnectionAssumption
  <1> USE DEF TypeOK, HelloIsCurrent, OneKeyPerProcess,
      keyfile, hub, client, Rest, Registration, At
  <1>1. CASE EnsureLoads
    BY <1>1 DEF EnsureLoads
  <1>2. CASE EnsureCreates
    BY <1>2 DEF EnsureCreates
  <1>3. CASE Save
    <2>1. ClientTypes' /\ pc' \in {"lookup", "opening", "watching"}
      BY <1>3, ConnectTypes DEF Save, ClientTypes
    <2> QED
      BY <1>3, <2>1 DEF Save, ClientTypes
  <1>4. CASE SaveFails
    BY <1>4 DEF SaveFails
  <1>5. CASE Lookup
    <2>1. /\ ClientTypes'
          /\ pc' \in {"provision", "conflict", "opening", "watching"}
      BY <1>5, ConnectTypes DEF Lookup, ClientTypes
    <2> QED
      BY <1>5, <2>1 DEF Lookup, ClientTypes
  <1>6. CASE LookupFails
    BY <1>6 DEF LookupFails
  <1>7. CASE ProvisionRecorded
    BY <1>7 DEF ProvisionRecorded
  <1>8. CASE ProvisionIgnored
    BY <1>8 DEF ProvisionIgnored
  <1>9. CASE ProvisionRefused
    BY <1>9 DEF ProvisionRefused
  <1>10. CASE ProvisionFails
    BY <1>10 DEF ProvisionFails
  <1>11. CASE Confirm
    <2>1. /\ ClientTypes'
          /\ pc' \in {"remember", "conflict", "opening", "watching"}
      BY <1>11, ConnectTypes DEF Confirm, ClientTypes
    <2> QED
      BY <1>11, <2>1 DEF Confirm, ClientTypes
  <1>12. CASE OpenTimesOut
    BY <1>12 DEF OpenTimesOut
  <1>13. CASE HelloAccepted
    BY <1>13 DEF HelloAccepted
  <1>14. CASE HelloRefused
    BY <1>14 DEF HelloRefused, HelloEnds
  <1>15. CASE HelloFails
    BY <1>15 DEF HelloFails, HelloEnds
  <1>16. CASE WatchEnds
    BY <1>16 DEF WatchEnds
  <1>17. CASE Retry
    BY <1>17 DEF Retry
  <1>18. CASE ConflictEnds
    BY <1>18 DEF ConflictEnds
  <1>19. CASE Stop
    BY <1>19 DEF Stop, RejectPending, Closing
  <1>20. CASE Restart
    <2>1. /\ sock' \in [Socket -> {"opening", "open", "closing", "closed"}]
          /\ heard' \in [Socket -> BOOLEAN]
          /\ call' \in [Caller -> {0} \cup Socket]
      BY <1>20, Zenon DEF Restart
    <2>2. /\ restarts' \in 0..MaxRestarts /\ record' = 0 /\ stray' = FALSE
          /\ pc' = "start" /\ aborted' = FALSE
          /\ mine' = 0 /\ mesh' = "disconnected" /\ socket' = 0
          /\ UNCHANGED <<disk, unsaved, keys, faults, hub>>
      BY <1>20 DEF Restart
    <2> QED
      BY <2>1, <2>2
  <1>21. CASE Claim
    BY <1>21 DEF Claim
  <1>22. CASE Review
    BY <1>22 DEF Review
  <1>23. ASSUME NEW s \in Socket, Opens(s) PROVE TypeOK'
    <2>1. /\ sock' \in [Socket -> {"opening", "open", "closing", "closed"}]
          /\ heard' \in [Socket -> BOOLEAN]
      BY <1>23 DEF Opens
    <2>2. /\ pc' \in {pc, "hello", "retry"} /\ mesh' \in {mesh, "failed"}
          /\ UNCHANGED <<Rest, mine, socket, call>>
      BY <1>23 DEF Opens
    <2> QED
      BY <2>1, <2>2
  <1>24. ASSUME NEW s \in Socket, OpenFails(s) PROVE TypeOK'
    BY <1>24 DEF OpenFails, Awaited
  <1>25. ASSUME NEW s \in Socket, CloseEvent(s) PROVE TypeOK'
    BY <1>25 DEF CloseEvent, HandleClose, RejectPending, Closing
  <1>26. ASSUME NEW s \in Socket, UnheardClose(s) PROVE TypeOK'
    BY <1>26 DEF UnheardClose
  <1>27. ASSUME NEW c \in Caller, Call(c) PROVE TypeOK'
    BY <1>27 DEF Call
  <1>28. ASSUME NEW c \in Caller, CallEnds(c) PROVE TypeOK'
    BY <1>28 DEF CallEnds
  <1>29. CASE UNCHANGED vars
    BY <1>29 DEF vars
  <1> QED
    BY <1>1, <1>2, <1>3, <1>4, <1>5, <1>6, <1>7, <1>8, <1>9, <1>10, <1>11,
       <1>12, <1>13, <1>14, <1>15, <1>16, <1>17, <1>18, <1>19, <1>20, <1>21,
       <1>22, <1>23, <1>24, <1>25, <1>26, <1>27, <1>28, <1>29
    DEF Next, Loop

\* No step loses the key, or connects with another one.
LEMMA KeyStep ==
  ASSUME TypeOK, OneKeyPerProcess, HasKey, ConnectsWithOwnKey, KeyIsKept, [Next]_vars
  PROVE  (OneKeyPerProcess /\ HasKey /\ ConnectsWithOwnKey /\ KeyIsKept)'
  <1> USE ConnectionAssumption
  <1> USE DEF TypeOK, OneKeyPerProcess, HasKey, ConnectsWithOwnKey, KeyIsKept,
      keyfile, hub, client, Rest, Registration, At
  <1>1. CASE EnsureLoads
    BY <1>1 DEF EnsureLoads
  <1>2. CASE EnsureCreates
    BY <1>2 DEF EnsureCreates
  <1>3. CASE Save
    <2>1. /\ disk' = record
          /\ UNCHANGED <<record, unsaved, keys, holder, restarts>>
          /\ \/ pc = "saving" /\ pc' = "lookup"
             \/ pc = "remember" /\ pc' \in {"opening", "watching"}
      BY <1>3 DEF Save, Connect
    <2>2. OneKeyPerProcess'
      BY <2>1
    <2>3. HasKey'
      BY <2>1
    <2>4. ConnectsWithOwnKey'
      BY <2>1
    <2>5. KeyIsKept'
      BY <2>1
    <2> QED
      BY <2>2, <2>3, <2>4, <2>5
  <1>4. CASE SaveFails
    BY <1>4 DEF SaveFails
  <1>5. CASE Lookup
    BY <1>5 DEF Lookup, Connect, Unused
  <1>6. CASE LookupFails
    BY <1>6 DEF LookupFails
  <1>7. CASE ProvisionRecorded
    BY <1>7 DEF ProvisionRecorded
  <1>8. CASE ProvisionIgnored
    BY <1>8 DEF ProvisionIgnored
  <1>9. CASE ProvisionRefused
    BY <1>9 DEF ProvisionRefused
  <1>10. CASE ProvisionFails
    BY <1>10 DEF ProvisionFails
  <1>11. CASE Confirm
    BY <1>11 DEF Confirm, Connect, Unused
  <1>12. CASE OpenTimesOut
    BY <1>12 DEF OpenTimesOut
  <1>13. CASE HelloAccepted
    BY <1>13 DEF HelloAccepted
  <1>14. CASE HelloRefused
    BY <1>14 DEF HelloRefused, HelloEnds
  <1>15. CASE HelloFails
    BY <1>15 DEF HelloFails, HelloEnds
  <1>16. CASE WatchEnds
    BY <1>16 DEF WatchEnds
  <1>17. CASE Retry
    BY <1>17 DEF Retry
  <1>18. CASE ConflictEnds
    BY <1>18 DEF ConflictEnds
  <1>19. CASE Stop
    BY <1>19 DEF Stop, RejectPending, Closing
  <1>20. CASE Restart
    BY <1>20 DEF Restart
  <1>21. CASE Claim
    BY <1>21 DEF Claim
  <1>22. CASE Review
    BY <1>22 DEF Review
  <1>23. ASSUME NEW s \in Socket, Opens(s) PROVE (OneKeyPerProcess /\ HasKey /\ ConnectsWithOwnKey /\ KeyIsKept)'
    BY <1>23 DEF Opens, Awaited
  <1>24. ASSUME NEW s \in Socket, OpenFails(s) PROVE (OneKeyPerProcess /\ HasKey /\ ConnectsWithOwnKey /\ KeyIsKept)'
    BY <1>24 DEF OpenFails, Awaited
  <1>25. ASSUME NEW s \in Socket, CloseEvent(s) PROVE (OneKeyPerProcess /\ HasKey /\ ConnectsWithOwnKey /\ KeyIsKept)'
    BY <1>25 DEF CloseEvent, HandleClose, RejectPending, Closing
  <1>26. ASSUME NEW s \in Socket, UnheardClose(s) PROVE (OneKeyPerProcess /\ HasKey /\ ConnectsWithOwnKey /\ KeyIsKept)'
    BY <1>26 DEF UnheardClose
  <1>27. ASSUME NEW c \in Caller, Call(c) PROVE (OneKeyPerProcess /\ HasKey /\ ConnectsWithOwnKey /\ KeyIsKept)'
    BY <1>27 DEF Call
  <1>28. ASSUME NEW c \in Caller, CallEnds(c) PROVE (OneKeyPerProcess /\ HasKey /\ ConnectsWithOwnKey /\ KeyIsKept)'
    BY <1>28 DEF CallEnds
  <1>29. CASE UNCHANGED vars
    BY <1>29 DEF vars
  <1> QED
    BY <1>1, <1>2, <1>3, <1>4, <1>5, <1>6, <1>7, <1>8, <1>9, <1>10, <1>11,
       <1>12, <1>13, <1>14, <1>15, <1>16, <1>17, <1>18, <1>19, <1>20, <1>21,
       <1>22, <1>23, <1>24, <1>25, <1>26, <1>27, <1>28, <1>29
    DEF Next, Loop

\* No listener of one WebSocket makes the client believe in a dead one.
LEMMA SocketStep ==
  ASSUME TypeOK, HelloIsCurrent, ConnectedIsAlive, CalledWasOpen,
         NobodyWaitsOnClosed, [Next]_vars
  PROVE  (HelloIsCurrent /\ ConnectedIsAlive /\ CalledWasOpen /\ NobodyWaitsOnClosed)'
  <1> USE ConnectionAssumption
  <1> USE DEF TypeOK, HelloIsCurrent, ConnectedIsAlive, CalledWasOpen, NobodyWaitsOnClosed,
      IsOpen, keyfile, hub, client, Rest, Registration, At
  <1>1. CASE EnsureLoads
    BY <1>1 DEF EnsureLoads
  <1>2. CASE EnsureCreates
    BY <1>2 DEF EnsureCreates
  <1>3. CASE Save
    BY <1>3 DEF Save, Connect, Unused
  <1>4. CASE SaveFails
    BY <1>4 DEF SaveFails
  <1>5. CASE Lookup
    BY <1>5 DEF Lookup, Connect, Unused
  <1>6. CASE LookupFails
    BY <1>6 DEF LookupFails
  <1>7. CASE ProvisionRecorded
    BY <1>7 DEF ProvisionRecorded
  <1>8. CASE ProvisionIgnored
    BY <1>8 DEF ProvisionIgnored
  <1>9. CASE ProvisionRefused
    BY <1>9 DEF ProvisionRefused
  <1>10. CASE ProvisionFails
    BY <1>10 DEF ProvisionFails
  <1>11. CASE Confirm
    BY <1>11 DEF Confirm, Connect, Unused
  <1>12. CASE OpenTimesOut
    BY <1>12 DEF OpenTimesOut
  <1>13. CASE HelloAccepted
    BY <1>13 DEF HelloAccepted
  <1>14. CASE HelloRefused
    BY <1>14 DEF HelloRefused, HelloEnds
  <1>15. CASE HelloFails
    BY <1>15 DEF HelloFails, HelloEnds
  <1>16. CASE WatchEnds
    BY <1>16 DEF WatchEnds
  <1>17. CASE Retry
    BY <1>17 DEF Retry
  <1>18. CASE ConflictEnds
    BY <1>18 DEF ConflictEnds
  <1>19. CASE Stop
    BY <1>19 DEF Stop, RejectPending, Closing
  <1>20. CASE Restart
    BY <1>20 DEF Restart
  <1>21. CASE Claim
    BY <1>21 DEF Claim
  <1>22. CASE Review
    BY <1>22 DEF Review
  <1>23. ASSUME NEW s \in Socket, Opens(s) PROVE (HelloIsCurrent /\ ConnectedIsAlive /\ CalledWasOpen /\ NobodyWaitsOnClosed)'
    BY <1>23 DEF Opens, Awaited
  <1>24. ASSUME NEW s \in Socket, OpenFails(s) PROVE (HelloIsCurrent /\ ConnectedIsAlive /\ CalledWasOpen /\ NobodyWaitsOnClosed)'
    BY <1>24 DEF OpenFails, Awaited
  <1>25. ASSUME NEW s \in Socket, CloseEvent(s) PROVE (HelloIsCurrent /\ ConnectedIsAlive /\ CalledWasOpen /\ NobodyWaitsOnClosed)'
    BY <1>25 DEF CloseEvent, HandleClose, RejectPending, Closing
  <1>26. ASSUME NEW s \in Socket, UnheardClose(s) PROVE (HelloIsCurrent /\ ConnectedIsAlive /\ CalledWasOpen /\ NobodyWaitsOnClosed)'
    BY <1>26 DEF UnheardClose
  <1>27. ASSUME NEW c \in Caller, Call(c) PROVE (HelloIsCurrent /\ ConnectedIsAlive /\ CalledWasOpen /\ NobodyWaitsOnClosed)'
    BY <1>27 DEF Call
  <1>28. ASSUME NEW c \in Caller, CallEnds(c) PROVE (HelloIsCurrent /\ ConnectedIsAlive /\ CalledWasOpen /\ NobodyWaitsOnClosed)'
    BY <1>28 DEF CallEnds
  <1>29. CASE UNCHANGED vars
    BY <1>29 DEF vars
  <1> QED
    BY <1>1, <1>2, <1>3, <1>4, <1>5, <1>6, <1>7, <1>8, <1>9, <1>10, <1>11,
       <1>12, <1>13, <1>14, <1>15, <1>16, <1>17, <1>18, <1>19, <1>20, <1>21,
       <1>22, <1>23, <1>24, <1>25, <1>26, <1>27, <1>28, <1>29
    DEF Next, Loop

-----------------------------------------------------------------------------
\* The inductive invariant holds of every behaviour.
THEOREM ConnectionInvariant == Spec => []IInv
  <1>1. IInv /\ [Next]_vars => IInv'
    BY TypeStep, KeyStep, SocketStep DEF IInv
  <1> QED BY InitIInv, <1>1, PTL DEF Spec

\* The fields, files and WebSockets keep their types.
THEOREM ConnectionTypes == Spec => []TypeOK
  BY ConnectionInvariant, PTL DEF IInv

\* The status the watch trusts is never "connected" without a live socket.
THEOREM ConnectedStaysAlive == Spec => []ConnectedIsAlive
  BY ConnectionInvariant, PTL DEF IInv

\* A close that is heard fails every call that waits on the WebSocket.
THEOREM ClosedFailsCalls == Spec => []NobodyWaitsOnClosed
  BY ConnectionInvariant, PTL DEF IInv

\* SEC-005 for any number of claims, restarts and answers.
THEOREM OwnKeyOnly == Spec => []ConnectsWithOwnKey
  BY ConnectionInvariant, PTL DEF IInv

\* The registered key outlives the process unless a write failed.
THEOREM KeySurvives == Spec => []KeyIsKept
  BY ConnectionInvariant, PTL DEF IInv

\* No step writes another key over one on the disk (key-manager.ts:82-102,
\* secrets.ts:18-33), for any number of restarts and failed writes.
THEOREM KeyStays == Spec => KeyIsNeverReplaced
  <1>1. IInv /\ [Next]_vars => [disk # 0 => disk' = disk]_vars
    <2> SUFFICES ASSUME IInv, Next, disk # 0 PROVE disk' = disk
      OBVIOUS
    <2>1. record \in {0, disk}
      BY DEF IInv, HasKey
    <2>2. CASE Save \/ SaveFails
      <3>1. record # 0
        BY <2>2 DEF Save, SaveFails, At, IInv, HasKey
      <3> QED BY <2>1, <2>2, <3>1 DEF Save, SaveFails
    <2>3. CASE Loop /\ ~Save /\ ~SaveFails
      BY <2>3 DEF Loop, EnsureLoads, EnsureCreates, Lookup, ProvisionRecorded, ProvisionIgnored,
         ProvisionRefused, Confirm, HelloAccepted, HelloRefused, HelloEnds, WatchEnds, Retry,
         ConflictEnds, Rest, Registration, keyfile
    <2>4. CASE \/ LookupFails \/ ProvisionFails \/ OpenTimesOut \/ HelloFails
               \/ Stop \/ Restart \/ Claim \/ Review
      BY <2>4 DEF LookupFails, ProvisionFails, OpenTimesOut, HelloFails, HelloEnds, Stop, Restart,
         Claim, Review, Rest, Registration, keyfile
    <2>5. CASE \/ \E s \in Socket : Opens(s) \/ OpenFails(s) \/ CloseEvent(s) \/ UnheardClose(s)
               \/ \E c \in Caller : Call(c) \/ CallEnds(c)
      BY <2>5 DEF Opens, OpenFails, CloseEvent, UnheardClose, Call, CallEnds, Rest, keyfile
    <2> QED BY <2>2, <2>3, <2>4, <2>5 DEF Next
  <1> QED BY <1>1, ConnectionInvariant, PTL DEF Spec, KeyIsNeverReplaced
=============================================================================
