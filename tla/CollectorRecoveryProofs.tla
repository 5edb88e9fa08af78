---------------------- MODULE CollectorRecoveryProofs ----------------------
(***************************************************************************)
(* What a new process makes of what the last one left: the devices in the  *)
(* table are loaded and the sessions left open are ended, in whatever order *)
(* the loop serves the queues and wherever the earlier process died.       *)
(*                                                                         *)
(* Both properties say that something is done, or that the request to do   *)
(* it is still queued, so the lemmas on queues come first.                 *)
(***************************************************************************)
EXTENDS CollectorSafetyProofs, SequenceTheorems

-----------------------------------------------------------------------------
(* Queues.                                                                 *)

Members(q) == {q[i] : i \in DOMAIN q}

LEMMA AppendMembers ==
    ASSUME NEW S, NEW q \in Seq(S), NEW e
    PROVE  Members(Append(q, e)) = Members(q) \cup {e}
<1>1. q \in Seq(S \cup {e}) /\ e \in S \cup {e}
  BY SeqMonotonic
<1>2. /\ DOMAIN Append(q, e) = 1..(Len(q) + 1)
      /\ DOMAIN q = 1..Len(q)
      /\ Len(q) \in Nat
      /\ \A i \in 1..Len(q) : Append(q, e)[i] = q[i]
      /\ Append(q, e)[Len(q) + 1] = e
  BY <1>1
<1>3. 1..(Len(q) + 1) = 1..Len(q) \cup {Len(q) + 1}
  BY <1>2
<1>4. QED
  BY <1>2, <1>3 DEF Members

LEMMA ConcatMembers ==
    ASSUME NEW S, NEW q \in Seq(S), NEW r \in Seq(S)
    PROVE  \A x \in Members(q) : x \in Members(q \o r)
<1>1. /\ q \o r \in Seq(S)
      /\ Len(q \o r) = Len(q) + Len(r)
      /\ \A i \in 1..Len(q) + Len(r) : (q \o r)[i] = IF i <= Len(q) THEN q[i] ELSE r[i - Len(q)]
  BY ConcatProperties
<1>2. Len(q) \in Nat /\ Len(r) \in Nat /\ DOMAIN q = 1..Len(q)
  OBVIOUS
<1>3. DOMAIN (q \o r) = 1..(Len(q) + Len(r))
  BY <1>1
<1>4. \A i \in DOMAIN q : i \in DOMAIN (q \o r) /\ (q \o r)[i] = q[i]
  BY <1>1, <1>2, <1>3
<1>5. QED
  BY <1>4 DEF Members

LEMMA PopMembers ==
    ASSUME NEW S, NEW q \in Seq(S), q # <<>>, NEW r \in Seq(S)
    PROVE  /\ \A x \in Members(q) : x = Head(q) \/ x \in Members(Tail(q) \o r)
           /\ Members(r) \subseteq Members(Tail(q) \o r)
<1> DEFINE t == Tail(q)
           s == t \o r
<1>1. /\ t \in Seq(S)
      /\ Len(q) \in Nat
      /\ Len(t) = Len(q) - 1
      /\ DOMAIN q = 1..Len(q)
      /\ Head(q) = q[1]
      /\ \A i \in 1..Len(t) : t[i] = q[i + 1]
  OBVIOUS
<1>2. /\ DOMAIN s = 1..(Len(t) + Len(r))
      /\ DOMAIN r = 1..Len(r)
      /\ Len(t) \in Nat /\ Len(r) \in Nat
      /\ \A i \in 1..Len(t) : s[i] = t[i]
      /\ \A i \in 1..Len(r) : s[Len(t) + i] = r[i]
  <2> HIDE DEF t
  <2>1. /\ s \in Seq(S)
        /\ Len(s) = Len(t) + Len(r)
        /\ \A i \in 1..(Len(t) + Len(r)) : s[i] = IF i <= Len(t) THEN t[i] ELSE r[i - Len(t)]
    BY <1>1, ConcatProperties
  <2>2. Len(t) \in Nat /\ Len(r) \in Nat
    BY <1>1
  <2>3. \A i \in 1..Len(r) :
           Len(t) + i \in 1..(Len(t) + Len(r)) /\ ~(Len(t) + i <= Len(t)) /\ (Len(t) + i) - Len(t) = i
    BY <2>2
  <2>4. \A i \in 1..Len(t) : i \in 1..(Len(t) + Len(r)) /\ i <= Len(t)
    BY <2>2
  <2>5. DOMAIN s = 1..(Len(t) + Len(r)) /\ DOMAIN r = 1..Len(r)
    BY <2>1
  <2> HIDE DEF s
  <2>6. \A i \in 1..Len(r) : s[Len(t) + i] = r[i]
    BY <2>1, <2>3
  <2>7. \A i \in 1..Len(t) : s[i] = t[i]
    BY <2>1, <2>4
  <2>8. QED
    BY <2>2, <2>5, <2>6, <2>7
<1> HIDE DEF t, s
<1>3. ASSUME NEW i \in DOMAIN q, i # 1
      PROVE  q[i] \in Members(s)
  <2>1. i - 1 \in 1..Len(t) /\ (i - 1) + 1 = i
    BY <1>1, <1>3
  <2>2. q[i] = s[i - 1] /\ i - 1 \in DOMAIN s
    BY <1>1, <1>2, <2>1
  <2>3. QED
    BY <2>2 DEF Members
<1>4. ASSUME NEW i \in DOMAIN r
      PROVE  r[i] \in Members(s)
  <2>1. Len(t) + i \in DOMAIN s /\ s[Len(t) + i] = r[i]
    BY <1>2
  <2>2. QED
    BY <2>1 DEF Members
<1>5. QED
  BY <1>1, <1>3, <1>4 DEF Members, s, t

LEMMA QueuedMembers ==
    /\ \A a : InDatabaseQueue(a) <=> \E rq \in Members(dbQueue) : rq.action = a
    /\ QuitQueued <=> \E rq \in Members(dispatcherQueue) : rq.action = "Quit"
BY DEF InDatabaseQueue, QuitQueued, Members

LEMMA QueuedMembersNext ==
    /\ \A a : InDatabaseQueue(a)' <=> \E rq \in Members(dbQueue)' : rq.action = a
    /\ QuitQueued' <=> \E rq \in Members(dispatcherQueue)' : rq.action = "Quit"
BY DEF InDatabaseQueue, QuitQueued, Members

LEMMA TailMembers ==
    ASSUME NEW S, NEW q \in Seq(S), q # <<>>
    PROVE  \A x \in Members(q) : x = Head(q) \/ x \in Members(Tail(q))
<1>1. <<>> \in Seq(S) /\ Tail(q) \in Seq(S)
  OBVIOUS
<1>2. Tail(q) \o <<>> = Tail(q)
  BY <1>1, ConcatEmptySeq
<1>3. QED
  BY <1>1, <1>2, PopMembers

\* Only the database takes requests off its queue.
LEMMA DatabaseQueueGrows ==
    ASSUME TypeOK, [Next]_vars, ~DatabaseStep, ~Restart
    PROVE  \A rq \in Members(dbQueue) : rq \in Members(dbQueue')
<1>1. dbQueue' = dbQueue \/ \E rq : dbQueue' = Append(dbQueue, rq)
  <2>1. ASSUME NEW d \in Devices, DeviceStep(d)
        PROVE  dbQueue' = dbQueue \/ \E rq : dbQueue' = Append(dbQueue, rq)
    BY <2>1
    DEF DeviceStep, DeviceHandler, Device_doConnect, Device_doConnectUnresolved, Device_doSendDescriptor,
        Device_doRequestSession, Device_doSetSession, Device_doDisconnect, Device_doStartStream,
        Device_doStopStream, Device_doStartCollecting, Device_doStopCollecting, Device_doProcessData,
        Device_doStatus, NullDereference, disconnect, updateState, queueVars
  <2>2. ASSUME NEW d \in Devices, ConnectionStep(d) \/ FinalizeStep(d) \/ TickStep(d)
        PROVE  dbQueue' = dbQueue \/ \E rq : dbQueue' = Append(dbQueue, rq)
    BY <2>2
    DEF ConnectionStep, ConnectionEvent, Connection_readSetSession, Connection_readData,
        Connection_readStatus, Connection_readFails, FinalizeStep, Connection_finalize, TickStep, Lane_tick,
        NullDereference, disconnect, updateState, queueVars
  <2>3. CASE DispatcherStep
    BY <2>3
    DEF DispatcherStep, DispatcherHandler, Dispatcher_toDatabase, Dispatcher_toDevice,
        Dispatcher_doQuitCollector, Dispatcher_doQuit, Dispatcher_doSendStatus, queueVars
  <2>4. CASE ClientStep \/ Terminate \/ UNCHANGED vars
    BY <2>4
    DEF ClientStep, ClientEvent, ControlClient_request, ControlClient_doRequestSession, Terminate, vars,
        queueVars
  <2>5. QED
    BY <2>1, <2>2, <2>3, <2>4 DEF Next
<1>2. dbQueue \in Seq(RequestsOf(DatabaseActions))
  BY DEF TypeOK, BaseTypeOK
<1>3. ASSUME NEW rq, dbQueue' = Append(dbQueue, rq)
      PROVE  \A x \in Members(dbQueue) : x \in Members(dbQueue')
  <2>1. Members(Append(dbQueue, rq)) = Members(dbQueue) \cup {rq}
    BY <1>2, AppendMembers
  <2>2. QED
    BY <1>3, <2>1
<1>4. QED
  BY <1>1, <1>3

\* A queued Quit stays queued until the process is gone.
LEMMA QuitStays ==
    ASSUME TypeOK, [Next]_vars, ~Restart, QuitQueued
    PROVE  QuitQueued'
<1> DEFINE Kept == dispatcherQueue' = dispatcherQueue
           Pushes == \E rq : dispatcherQueue' = Append(dispatcherQueue, rq)
           Pops == /\ dispatcherQueue # <<>>
                   /\ Head(dispatcherQueue).action # "Quit"
                   /\ \/ dispatcherQueue' = Tail(dispatcherQueue)
                      \/ \E rq : dispatcherQueue' = Append(Tail(dispatcherQueue), rq)
<1>1. Kept \/ Pushes \/ Pops
  <2>1. ASSUME NEW d \in Devices, DeviceStep(d)
        PROVE  Kept \/ Pushes
    BY <2>1
    DEF DeviceStep, DeviceHandler, Device_doConnect, Device_doConnectUnresolved, Device_doSendDescriptor,
        Device_doRequestSession, Device_doSetSession, Device_doDisconnect, Device_doStartStream,
        Device_doStopStream, Device_doStartCollecting, Device_doStopCollecting, Device_doProcessData,
        Device_doStatus, NullDereference, Reply, queueVars
  <2>2. ASSUME NEW d \in Devices, ConnectionStep(d) \/ FinalizeStep(d) \/ TickStep(d)
        PROVE  Kept
    BY <2>2
    DEF ConnectionStep, ConnectionEvent, Connection_readSetSession, Connection_readData,
        Connection_readStatus, Connection_readFails, FinalizeStep, Connection_finalize, TickStep, Lane_tick,
        NullDereference, queueVars
  <2>3. CASE DispatcherStep
    BY <2>3
    DEF DispatcherStep, DispatcherHandler, Dispatcher_toDatabase, Dispatcher_toDevice,
        Dispatcher_doQuitCollector, Dispatcher_doQuit, Dispatcher_doSendStatus, DispatcherHandles, queueVars
  <2>4. CASE ClientStep \/ Terminate \/ UNCHANGED vars
    BY <2>4
    DEF ClientStep, ClientEvent, ControlClient_request, ControlClient_doRequestSession, Terminate, vars,
        Reply, queueVars
  <2>5. CASE DatabaseStep
    BY <2>5
    DEF DatabaseStep, DatabaseHandler, DB_doCheckDatabase, DB_doInitDatabase, DB_doLoadDevices,
        DB_doCleanSessions, DB_doGetDevices, DB_doGetSessions, DB_doAddDevice, DB_doRemoveDevice,
        DB_doAddSession, DB_doRemSession, DB_doEndSession, DB_doAddData, Reply
  <2>6. QED
    BY <2>1, <2>2, <2>3, <2>4, <2>5 DEF Next
<1>2. dispatcherQueue \in Seq(RequestsOf(DispatcherActions))
  BY DEF TypeOK, BaseTypeOK
<1>3. PICK quit \in Members(dispatcherQueue) : quit.action = "Quit"
  BY QueuedMembers
<1>4. CASE Kept
  BY <1>3, <1>4, QueuedMembersNext
<1>5. CASE Pushes
  BY <1>2, <1>3, <1>5, AppendMembers, QueuedMembersNext
<1>6. CASE Pops
  <2>1. Tail(dispatcherQueue) \in Seq(RequestsOf(DispatcherActions))
    BY <1>2, <1>6
  <2>2. quit \in Members(Tail(dispatcherQueue))
    BY <1>2, <1>3, <1>6, TailMembers
  <2>3. quit \in Members(dispatcherQueue')
    <3>1. CASE dispatcherQueue' = Tail(dispatcherQueue)
      BY <2>2, <3>1
    <3>2. ASSUME NEW rq, dispatcherQueue' = Append(Tail(dispatcherQueue), rq)
          PROVE  quit \in Members(dispatcherQueue')
      <4>1. Members(Append(Tail(dispatcherQueue), rq)) = Members(Tail(dispatcherQueue)) \cup {rq}
        BY <2>1, AppendMembers
      <4>2. QED
        BY <2>2, <3>2, <4>1
    <3>3. QED
      BY <1>6, <3>1, <3>2
  <2>4. QED
    BY <1>3, <2>3, QueuedMembersNext
<1>7. QED
  BY <1>1, <1>4, <1>5, <1>6

LEMMA DatabaseQueueHead ==
    ASSUME TypeOK, DatabaseStep
    PROVE  dbQueue \in Seq(RequestsOf(DatabaseActions)) /\ dbQueue # <<>>
BY DEF TypeOK, BaseTypeOK, DatabaseStep, DatabaseHandler, DatabaseHandles,
       DB_doCheckDatabase, DB_doInitDatabase, DB_doLoadDevices, DB_doCleanSessions, DB_doGetDevices,
       DB_doGetSessions, DB_doAddDevice, DB_doRemoveDevice, DB_doAddSession, DB_doRemSession,
       DB_doEndSession, DB_doAddData

\* The database takes only the head off its queue.
LEMMA DatabaseQueueKeeps ==
    ASSUME TypeOK, DatabaseStep
    PROVE  \A x \in Members(dbQueue) : x = Head(dbQueue) \/ x \in Members(dbQueue')
<1> DEFINE S == RequestsOf(DatabaseActions)
           Keeps == \A x \in Members(dbQueue) : x = Head(dbQueue) \/ x \in Members(dbQueue')
<1>1. dbQueue \in Seq(S) /\ dbQueue # <<>>
  BY DatabaseQueueHead
<1>2. CASE dbQueue' = Tail(dbQueue)
  BY <1>1, <1>2, TailMembers
<1>3. ASSUME NEW rqs \in Seq(S), dbQueue' = Tail(dbQueue) \o rqs
      PROVE  Keeps
  BY <1>1, <1>3, PopMembers
<1>4. CASE DB_doCleanSessions
  <2>1. CASE \E rows \in Bijection(1..Cardinality(OpenSessions), OpenSessions) :
                dbQueue' = Tail(dbQueue) \o EndRequests(rows)
    BY <1>3, <2>1, EndRequestsType DEF TypeOK
  <2>2. QED
    BY <1>2, <1>4, <2>1 DEF DB_doCleanSessions
<1>5. CASE DB_doAddDevice
  <2>1. <<>> \in Seq(S) /\ <<loadDevices>> \in Seq(S)
    <3>1. loadDevices \in S
      BY InternalType DEF loadDevices, DatabaseActions
    <3>2. QED
      BY <3>1
  <2>2. dbQueue' = Tail(dbQueue) \o <<>> \/ dbQueue' = Tail(dbQueue) \o <<loadDevices>>
    BY <1>5 DEF DB_doAddDevice
  <2>3. QED
    BY <1>3, <2>1, <2>2
<1>6. CASE DatabaseStep /\ ~DB_doCleanSessions /\ ~DB_doAddDevice
  <2>1. dbQueue' = Tail(dbQueue)
    BY <1>6
    DEF DatabaseStep, DatabaseHandler, DB_doCheckDatabase, DB_doInitDatabase, DB_doLoadDevices,
        DB_doGetDevices, DB_doGetSessions, DB_doRemoveDevice, DB_doAddSession, DB_doRemSession,
        DB_doEndSession, DB_doAddData
  <2>2. QED
    BY <1>2, <2>1
<1>7. QED
  BY <1>4, <1>5, <1>6

LEMMA DatabaseNeverRestarts == DatabaseStep => ~Restart
BY DEF Restart, DatabaseStep, DatabaseHandler, DB_doCheckDatabase, DB_doInitDatabase, DB_doLoadDevices,
       DB_doCleanSessions, DB_doGetDevices, DB_doGetSessions, DB_doAddDevice, DB_doRemoveDevice,
       DB_doAddSession, DB_doRemSession, DB_doEndSession, DB_doAddData, DatabaseHandles

\* A process that has its database loads the devices and cleans the sessions;
\* one that has none quits.
LEMMA BootMembers ==
    ASSUME NEW opened \in BOOLEAN, NEW started \in BOOLEAN, NEW erase \in BOOLEAN
    PROVE  \/ /\ \E rq \in Members(BootDatabaseQueue(opened, erase)) : rq.action = "LoadDevices"
              /\ \E rq \in Members(BootDatabaseQueue(opened, erase)) : rq.action = "CleanSessions"
           \/ \E rq \in Members(BootDispatcherQueue(opened, started)) : rq.action = "Quit"
<1>1. CASE opened
  <2> DEFINE first == <<Internal("CheckDatabase"), loadDevices, cleanSessions>>
             rest == IF erase THEN <<[Internal("InitDatabase") EXCEPT !.arg = "forced"]>> ELSE <<>>
  <2>1. loadDevices.action = "LoadDevices" /\ cleanSessions.action = "CleanSessions"
    BY DEF loadDevices, cleanSessions, Internal, Request
  <2>2. PICK S : first \in Seq(S) /\ rest \in Seq(S)
    <3>1. \A S, x, y, z : x \in S /\ y \in S /\ z \in S => <<x, y, z>> \in Seq(S)
      OBVIOUS
    <3>2. \A S, x : x \in S => <<x>> \in Seq(S) /\ <<>> \in Seq(S)
      OBVIOUS
    <3>3. PICK S : /\ Internal("CheckDatabase") \in S /\ loadDevices \in S /\ cleanSessions \in S
                   /\ [Internal("InitDatabase") EXCEPT !.arg = "forced"] \in S
      <4>1. \A w, x, y, z : w \in {w, x, y, z} /\ x \in {w, x, y, z} /\ y \in {w, x, y, z} /\ z \in {w, x, y, z}
        OBVIOUS
      <4>2. QED
        BY <4>1, Zenon
    <3>4. first \in Seq(S)
      BY <3>1, <3>3
    <3>5. rest \in Seq(S)
      BY <3>2, <3>3
    <3>6. QED
      BY <3>4, <3>5
  <2>3. loadDevices \in Members(first) /\ cleanSessions \in Members(first)
    <3>1. \A x, y, z : y \in Members(<<x, y, z>>) /\ z \in Members(<<x, y, z>>)
      BY DEF Members
    <3>2. QED
      BY <3>1
  <2> HIDE DEF first, rest
  <2>4. loadDevices \in Members(first \o rest) /\ cleanSessions \in Members(first \o rest)
    BY <2>2, <2>3, ConcatMembers
  <2>5. BootDatabaseQueue(opened, erase) = first \o rest
    BY <1>1 DEF BootDatabaseQueue, first, rest
  <2>6. QED
    BY <2>1, <2>4, <2>5
<1>2. CASE ~opened
  <2> DEFINE q == Internal("Quit")
             rest == IF started THEN <<>> ELSE <<q>>
  <2>1. q.action = "Quit"
    BY DEF Internal, Request
  <2>2. BootDispatcherQueue(opened, started) = <<q>> \o rest
    BY <1>2 DEF BootDispatcherQueue
  <2> HIDE DEF q
  <2>3. <<q>> \in Seq({q}) /\ rest \in Seq({q})
    <3>1. \A S, x : x \in S => <<x>> \in Seq(S) /\ <<>> \in Seq(S)
      OBVIOUS
    <3>2. q \in {q}
      OBVIOUS
    <3>3. <<q>> \in Seq({q}) /\ <<>> \in Seq({q})
      BY <3>1, <3>2
    <3>4. QED
      BY <3>3
  <2>4. q \in Members(<<q>>)
    BY DEF Members
  <2>5. q \in Members(<<q>> \o rest)
    BY <2>3, <2>4, ConcatMembers
  <2>6. QED
    BY <2>1, <2>2, <2>5
<1>3. QED
  BY <1>1, <1>2

-----------------------------------------------------------------------------
(* Without tables there are no rows.                                       *)

NothingWithoutTables == ~tables => devices = {} /\ sessions = {}

LEMMA TablesStep ==
    ASSUME "query" \notin Faults, NothingWithoutTables, [Next]_vars
    PROVE  NothingWithoutTables'
<1> USE DEF NothingWithoutTables
<1>1. CASE DB_doInitDatabase
  <2>1. tables' = TRUE
    BY <1>1, ReliableQueries DEF DB_doInitDatabase
  <2>2. QED
    BY <2>1
<1>2. CASE DB_doAddDevice
  <2>1. tables' = tables
    BY <1>2 DEF DB_doAddDevice
  <2>2. ~tables => devices' = devices /\ sessions' = sessions
    BY <1>2 DEF DB_doAddDevice, DeviceAdded, Runs
  <2>3. QED
    BY <2>1, <2>2
<1>3. CASE DB_doAddSession
  <2>1. tables' = tables /\ devices' = devices
    BY <1>3 DEF DB_doAddSession
  <2>2. ~tables => sessions' = sessions \ {}
    BY <1>3 DEF DB_doAddSession, InsertSession, Runs
  <2>3. QED
    BY <2>1, <2>2
<1>4. CASE DB_doRemoveDevice \/ DB_doRemSession \/ DB_doEndSession
  BY <1>4 DEF DB_doRemoveDevice, DB_doRemSession, DB_doEndSession, Runs
<1>5. CASE DatabaseStep /\ ~DB_doInitDatabase /\ ~DB_doAddDevice /\ ~DB_doAddSession
           /\ ~(DB_doRemoveDevice \/ DB_doRemSession \/ DB_doEndSession)
  BY <1>5
  DEF DatabaseStep, DatabaseHandler, DB_doCheckDatabase, DB_doLoadDevices, DB_doCleanSessions,
      DB_doGetDevices, DB_doGetSessions, DB_doAddData, dbVars
<1>6. CASE ~DatabaseStep
  BY <1>6, OnlyDatabaseWrites DEF dbVars
<1>7. QED
  BY <1>1, <1>2, <1>3, <1>4, <1>5, <1>6

-----------------------------------------------------------------------------
(* Devices.                                                                *)

\* Both queues are the new ones, of a process that boots.
Boots(dbq, dq) ==
    \E opened, started, erase \in BOOLEAN :
        dbq = BootDatabaseQueue(opened, erase) /\ dq = BootDispatcherQueue(opened, started)

LEMMA BootQueued ==
    ASSUME NEW dbq, NEW dq, Boots(dbq, dq)
    PROVE  \/ /\ \E rq \in Members(dbq) : rq.action = "LoadDevices"
              /\ \E rq \in Members(dbq) : rq.action = "CleanSessions"
           \/ \E rq \in Members(dq) : rq.action = "Quit"
BY BootMembers DEF Boots

LEMMA BootOutcomes == Outcomes("boot") \subseteq BOOLEAN /\ Erase \subseteq BOOLEAN
BY OutcomesType, CollectorAssumption

LEMMA RestartBoots == Restart => Boots(dbQueue, dispatcherQueue)'
<1>1. SUFFICES ASSUME Restart
               PROVE  Boots(dbQueue, dispatcherQueue)'
  OBVIOUS
<1>2. PICK opened, started \in Outcomes("boot"), erase \in Erase :
         /\ dispatcherQueue' = BootDispatcherQueue(opened, started)
         /\ dbQueue' = BootDatabaseQueue(opened, erase)
  BY <1>1, Zenon DEF Restart
<1>3. QED
  BY <1>2, BootOutcomes, Zenon DEF Boots

LEMMA InitBoots == Init => Boots(dbQueue, dispatcherQueue)
<1>1. SUFFICES ASSUME Init
               PROVE  Boots(dbQueue, dispatcherQueue)
  OBVIOUS
<1>2. PICK opened, started \in Outcomes("boot"), erase \in Erase :
         /\ dispatcherQueue = BootDispatcherQueue(opened, started)
         /\ dbQueue = BootDatabaseQueue(opened, erase)
  BY <1>1, Zenon DEF Init
<1>3. QED
  BY <1>2, BootOutcomes, Zenon DEF Boots

LEMMA DevicesLoadedStep ==
    ASSUME "query" \notin Faults, TypeOK, NothingWithoutTables, DevicesLoaded, [Next]_vars
    PROVE  DevicesLoaded'
<1> USE DEF DevicesLoaded
<1>1. CASE Restart
  <2>1. PICK dbq, dq : dbq = dbQueue' /\ dq = dispatcherQueue'
    OBVIOUS
  <2>2. Boots(dbq, dq)
    BY <1>1, <2>1, RestartBoots
  <2>3. InDatabaseQueue("LoadDevices")' \/ QuitQueued'
    BY <2>1, <2>2, BootQueued, QueuedMembersNext
  <2>4. QED
    BY <2>3
<1>2. CASE ~Restart /\ QuitQueued
  BY <1>2, QuitStays
<1>3. CASE ~Restart /\ ~DatabaseStep
  <2>1. devices' = devices
    BY <1>3, OnlyDatabaseWrites DEF dbVars
  <2>2. managed' = managed
    BY <1>3
    DEF Next, DeviceStep, ConnectionStep, FinalizeStep, TickStep, DispatcherStep, ClientStep, Terminate, vars
  <2>3. InDatabaseQueue("LoadDevices") => InDatabaseQueue("LoadDevices")'
    BY <1>3, DatabaseQueueGrows, QueuedMembers, QueuedMembersNext
  <2>4. QED
    BY <1>2, <1>3, <2>1, <2>2, <2>3
<1>4. CASE DatabaseStep
  <2>1. CASE DB_doLoadDevices
    <3>1. devices' = devices /\ tables' = tables
      BY <2>1 DEF DB_doLoadDevices, dbVars
    <3>2. tables => \A r \in devices : r.device \in managed'
      BY <2>1, ReliableQueries DEF DB_doLoadDevices, addDevices, Runs
    <3>3. QED
      BY <3>1, <3>2 DEF NothingWithoutTables
  <2>2. CASE DB_doAddDevice /\ ~(devices' \subseteq devices)
    <3>1. dbQueue' = Tail(dbQueue) \o <<loadDevices>> /\ dbQueue # <<>>
      BY <2>2 DEF DB_doAddDevice, DatabaseHandles
    <3>2. <<loadDevices>> \in Seq(RequestsOf(DatabaseActions)) /\ dbQueue \in Seq(RequestsOf(DatabaseActions))
      <4>1. loadDevices \in RequestsOf(DatabaseActions)
        BY InternalType DEF loadDevices, DatabaseActions
      <4>2. QED
        BY <4>1 DEF TypeOK, BaseTypeOK
    <3>3. loadDevices \in Members(dbQueue')
      <4>1. loadDevices \in Members(<<loadDevices>>)
        BY DEF Members
      <4>2. QED
        BY <3>1, <3>2, <4>1, PopMembers
    <3>4. loadDevices.action = "LoadDevices"
      BY DEF loadDevices, Internal, Request
    <3>5. InDatabaseQueue("LoadDevices")'
      BY <3>3, <3>4, QueuedMembersNext
    <3>6. QED
      BY <3>5
  <2>3. CASE ~DB_doLoadDevices /\ devices' \subseteq devices
    <3>1. managed' = managed
      BY <1>4, <2>3
      DEF DatabaseStep, DatabaseHandler, DB_doCheckDatabase, DB_doInitDatabase, DB_doCleanSessions,
          DB_doGetDevices, DB_doGetSessions, DB_doAddDevice, DB_doRemoveDevice, DB_doAddSession,
          DB_doRemSession, DB_doEndSession, DB_doAddData
    <3>2. Head(dbQueue).action # "LoadDevices"
      BY <1>4, <2>3
      DEF DatabaseStep, DatabaseHandler, DB_doCheckDatabase, DB_doInitDatabase, DB_doCleanSessions,
          DB_doGetDevices, DB_doGetSessions, DB_doAddDevice, DB_doRemoveDevice, DB_doAddSession,
          DB_doRemSession, DB_doEndSession, DB_doAddData, DatabaseHandles
    <3>3. InDatabaseQueue("LoadDevices") => InDatabaseQueue("LoadDevices")'
      BY <1>4, <3>2, DatabaseQueueKeeps, QueuedMembers, QueuedMembersNext
    <3>4. ~Restart
      BY <1>4, DatabaseNeverRestarts
    <3>5. QED
      BY <1>2, <2>3, <3>1, <3>3, <3>4
  <2>4. DB_doLoadDevices \/ DB_doAddDevice \/ devices' \subseteq devices
    BY <1>4
    DEF DatabaseStep, DatabaseHandler, DB_doCheckDatabase, DB_doInitDatabase, DB_doCleanSessions,
        DB_doGetDevices, DB_doGetSessions, DB_doRemoveDevice, DB_doAddSession,
        DB_doRemSession, DB_doEndSession, DB_doAddData, RemDevices, dbVars
  <2>5. DB_doAddDevice => ~DB_doLoadDevices
    BY DEF DB_doAddDevice, DB_doLoadDevices, DatabaseHandles
  <2>6. QED
    BY <2>1, <2>2, <2>3, <2>4, <2>5
<1>5. QED
  BY <1>1, <1>3, <1>4

\* Wherever a process dies and whatever is added or removed meanwhile, a device
\* of the table is known to the manager or about to be, when queries succeed.
THEOREM DevicesLoadedSafe ==
    ASSUME "query" \notin Faults
    PROVE  Spec => []DevicesLoaded
<1>1. Init => DevicesLoaded /\ NothingWithoutTables
  <2>1. Init => InDatabaseQueue("LoadDevices") \/ QuitQueued
    BY InitBoots, BootQueued, QueuedMembers
  <2>2. QED
    BY <2>1 DEF Init, DatabaseInit, DevicesLoaded, NothingWithoutTables
<1>2. TypeOK /\ NothingWithoutTables /\ DevicesLoaded /\ [Next]_vars
          => NothingWithoutTables' /\ DevicesLoaded'
  BY DevicesLoadedStep, TablesStep
<1>3. QED
  BY <1>1, <1>2, TypeCorrect, PTL DEF Spec

-----------------------------------------------------------------------------
(* Sessions an earlier process left.                                       *)

EndQueued(h) == \E i \in DOMAIN dbQueue : IsEnd(dbQueue[i], h)

LEMMA EndMembers ==
    /\ \A h : EndQueued(h) <=> \E rq \in Members(dbQueue) : IsEnd(rq, h)
    /\ \A h : EndQueued(h)' <=> \E rq \in Members(dbQueue)' : IsEnd(rq, h)
BY DEF EndQueued, Members

\* What is asked of a session of an earlier process.
Handled(r) == r.ended \/ InDatabaseQueue("CleanSessions") \/ EndQueued(r.hash) \/ QuitQueued

\* cleanSessions() finds every open session.
LEMMA CleanedSessions ==
    ASSUME TypeOK, NothingWithoutTables, "query" \notin Faults, DB_doCleanSessions
    PROVE  \A r \in sessions' : r.ended \/ EndQueued(r.hash)'
<1>1. sessions' = sessions
  BY DEF DB_doCleanSessions, dbVars
<1>2. CASE ~tables
  BY <1>1, <1>2 DEF NothingWithoutTables
<1>3. CASE tables
  <2> DEFINE N == Cardinality(OpenSessions)
  <2>1. PICK rows \in Bijection(1..N, OpenSessions) : dbQueue' = Tail(dbQueue) \o EndRequests(rows)
    BY <1>3, ReliableQueries DEF DB_doCleanSessions, Runs
  <2>2. rows \in [1..N -> OpenSessions] /\ \A r \in OpenSessions : \E i \in 1..N : rows[i] = r
    BY DEF Bijection, Injection, Surjection
  <2>3. ASSUME NEW r \in sessions, ~r.ended
        PROVE  \E rq \in Members(dbQueue)' : IsEnd(rq, r.hash)
    <3>1. PICK i \in 1..N : rows[i] = r
      BY <2>2, <2>3 DEF OpenSessions
    <3> DEFINE rq == Request("EndSession", NoClient, NoDevice, r.hash)
    <3>2. IsEnd(rq, r.hash)
      BY DEF IsEnd, Request
    <3>3. i \in DOMAIN EndRequests(rows) /\ EndRequests(rows)[i] = rq
      BY <2>2, <3>1 DEF EndRequests
    <3> HIDE DEF rq
    <3>4. rq \in Members(EndRequests(rows))
      BY <3>3 DEF Members
    <3>5. dbQueue \in Seq(RequestsOf(DatabaseActions)) /\ dbQueue # <<>>
      BY DEF TypeOK, BaseTypeOK, DB_doCleanSessions, DatabaseHandles
    <3>6. EndRequests(rows) \in Seq(RequestsOf(DatabaseActions))
      BY EndRequestsType DEF TypeOK
    <3>7. rq \in Members(Tail(dbQueue) \o EndRequests(rows))
      BY <3>4, <3>5, <3>6, PopMembers
    <3>8. QED
      BY <2>1, <3>2, <3>7
  <2>4. QED
    BY <1>1, <2>3, EndMembers
<1>4. QED
  BY <1>2, <1>3

\* endSession() leaves no session of the hash without an end.
LEMMA EndedSessions ==
    ASSUME TypeOK, NothingWithoutTables, "query" \notin Faults, DB_doEndSession
    PROVE  \A r \in sessions' : r.ended \/ (r \in sessions /\ r.hash # Head(dbQueue).session)
<1> DEFINE h == Head(dbQueue).session
           ended == {[r EXCEPT !.ended = TRUE] : r \in SessionsOf(h)}
<1>1. CASE ~tables
  <2>1. sessions' = sessions
    BY <1>1 DEF DB_doEndSession, Runs
  <2>2. QED
    BY <1>1, <2>1 DEF NothingWithoutTables
<1>2. CASE tables
  <2>1. sessions' = (sessions \ SessionsOf(h)) \cup ended
    BY <1>2, ReliableQueries DEF DB_doEndSession, Runs
  <2>2. ASSUME NEW x \in ended
        PROVE  x.ended
    <3>1. PICK r \in SessionsOf(h) : x = [r EXCEPT !.ended = TRUE]
      OBVIOUS
    <3>2. r \in SessionRows
      BY DEF TypeOK, DatabaseTypeOK, SessionsOf
    <3>3. x.ended = TRUE
      BY <3>1, <3>2 DEF SessionRows
    <3>4. QED
      BY <3>3
  <2>3. \A x \in sessions \ SessionsOf(h) : x \in sessions /\ x.hash # h
    BY DEF SessionsOf
  <2>4. QED
    BY <2>1, <2>2, <2>3
<1>3. QED
  BY <1>1, <1>2

LEMMA StaleSessionsStep ==
    ASSUME "query" \notin Faults, TypeOK, NothingWithoutTables, StaleSessionsEnded, [Next]_vars
    PROVE  StaleSessionsEnded'
<1> DEFINE Waiting == InDatabaseQueue("CleanSessions")
<1>1. /\ StaleSessionsEnded <=> \A r \in sessions : r.started < epoch => Handled(r)
      /\ StaleSessionsEnded' <=> \A r \in sessions' : r.started < epoch' => Handled(r)'
  BY DEF StaleSessionsEnded, Handled, EndQueued
<1>2. CASE Restart
  <2>1. PICK dbq, dq : dbq = dbQueue' /\ dq = dispatcherQueue'
    OBVIOUS
  <2>2. Boots(dbq, dq)
    BY <1>2, <2>1, RestartBoots
  <2>3. Waiting' \/ QuitQueued'
    BY <2>1, <2>2, BootQueued, QueuedMembersNext
  <2>4. QED
    BY <2>3 DEF StaleSessionsEnded
<1>3. CASE ~Restart /\ QuitQueued
  BY <1>3, QuitStays DEF StaleSessionsEnded
<1>4. CASE ~Restart /\ ~DatabaseStep /\ ~QuitQueued
  <2>1. sessions' = sessions
    BY <1>4, OnlyDatabaseWrites DEF dbVars
  <2>2. epoch' = epoch
    BY <1>4
    DEF Next, DeviceStep, ConnectionStep, FinalizeStep, TickStep, DispatcherStep, ClientStep, Terminate,
        vars, processVars
  <2>3. Waiting => Waiting'
    BY <1>4, DatabaseQueueGrows, QueuedMembers, QueuedMembersNext
  <2>4. \A h : EndQueued(h) => EndQueued(h)'
    BY <1>4, DatabaseQueueGrows, EndMembers
  <2>5. QED
    BY <1>1, <1>4, <2>1, <2>2, <2>3, <2>4 DEF Handled
<1>5. CASE DatabaseStep /\ ~QuitQueued
  <2>1. epoch' = epoch
    BY <1>5 DEF DatabaseStep, processVars
  <2>2. CASE DB_doCleanSessions
    BY <2>2, <1>1, CleanedSessions DEF Handled
  <2>3. CASE DB_doEndSession
    <3>1. Head(dbQueue).action = "EndSession"
      BY <2>3 DEF DB_doEndSession, DatabaseHandles
    <3>2. Waiting => Waiting'
      BY <1>5, <3>1, DatabaseQueueKeeps, QueuedMembers, QueuedMembersNext
    <3>3. \A h : h # Head(dbQueue).session /\ EndQueued(h) => EndQueued(h)'
      BY <1>5, DatabaseQueueKeeps, EndMembers DEF IsEnd
    <3>4. ASSUME NEW r \in sessions', r.started < epoch'
          PROVE  Handled(r)'
      <4>1. CASE r.ended
        BY <4>1 DEF Handled
      <4>2. CASE r \in sessions /\ r.hash # Head(dbQueue).session
        BY <1>1, <1>5, <2>1, <3>2, <3>3, <3>4, <4>2 DEF Handled
      <4>3. QED
        BY <2>3, <4>1, <4>2, EndedSessions
    <3>5. QED
      BY <1>1, <3>4
  <2>4. CASE ~DB_doCleanSessions /\ ~DB_doEndSession
    <3>1. Head(dbQueue).action \notin {"CleanSessions", "EndSession"}
      BY <1>5, <2>4
      DEF DatabaseStep, DatabaseHandler, DB_doCheckDatabase, DB_doInitDatabase, DB_doLoadDevices,
          DB_doGetDevices, DB_doGetSessions, DB_doAddDevice, DB_doRemoveDevice, DB_doAddSession,
          DB_doRemSession, DB_doAddData, DatabaseHandles
    <3>2. Waiting => Waiting'
      BY <1>5, <3>1, DatabaseQueueKeeps, QueuedMembers, QueuedMembersNext
    <3>3. \A h : EndQueued(h) => EndQueued(h)'
      BY <1>5, <3>1, DatabaseQueueKeeps, EndMembers DEF IsEnd
    <3>4. \A r \in sessions' : r \in sessions \/ r.started = epoch
      <4>1. CASE DB_doAddSession
        <5> DEFINE rq == Head(dbQueue)
        <5>1. PICK checked, removed, added \in QueryOutcomes :
                 LET gone == IF Runs(checked) /\ removed THEN Colliding(rq.session) ELSE {}
                 IN  InsertSession(rq.session, rq.device, sessions \ gone, added)
          BY <4>1 DEF DB_doAddSession
        <5>2. PICK left : left \subseteq sessions /\ InsertSession(rq.session, rq.device, left, added)
          BY <5>1
        <5>3. sessions' = left \/ \E x : x.started = epoch /\ sessions' = left \cup {x}
          BY <5>2 DEF InsertSession
        <5>4. QED
          BY <5>2, <5>3
      <4>2. CASE ~DB_doAddSession
        BY <1>5, <2>4, <4>2
        DEF DatabaseStep, DatabaseHandler, DB_doCheckDatabase, DB_doInitDatabase, DB_doLoadDevices,
            DB_doGetDevices, DB_doGetSessions, DB_doAddDevice, DB_doRemoveDevice, DB_doRemSession,
            DB_doAddData, RemDevices, RemSessions, dbVars
      <4>3. QED
        BY <4>1, <4>2
    <3>5. epoch \in Nat
      BY DEF TypeOK, BaseTypeOK
    <3>6. ASSUME NEW r \in sessions', r.started < epoch'
          PROVE  Handled(r)'
      <4>1. r \in sessions /\ r.started < epoch
        BY <2>1, <3>4, <3>5, <3>6
      <4>2. QED
        BY <1>1, <1>5, <3>2, <3>3, <4>1 DEF Handled
    <3>7. QED
      BY <1>1, <3>6
  <2>5. QED
    BY <2>2, <2>3, <2>4
<1>6. QED
  BY <1>2, <1>3, <1>4, <1>5, DatabaseNeverRestarts

\* A session that any earlier process left open, however that process ended, is
\* ended by the new one or about to be, when queries succeed.
THEOREM StaleSessionsSafe ==
    ASSUME "query" \notin Faults
    PROVE  Spec => []StaleSessionsEnded
<1>1. Init => StaleSessionsEnded /\ NothingWithoutTables
  BY DEF Init, DatabaseInit, StaleSessionsEnded, NothingWithoutTables
<1>2. TypeOK /\ NothingWithoutTables /\ StaleSessionsEnded /\ [Next]_vars
          => NothingWithoutTables' /\ StaleSessionsEnded'
  BY StaleSessionsStep, TablesStep
<1>3. QED
  BY <1>1, <1>2, TypeCorrect, PTL DEF Spec
=============================================================================
