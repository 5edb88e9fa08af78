---------------------------- MODULE MonitorDevice ----------------------------
(***************************************************************************)
(* A monitored device (MonitorDevice), its connection to the monitor that  *)
(* runs on the target (Connection) and the timers that ask for data        *)
(* (the update lanes).  One action per request handler, one per message    *)
(* read, one for the removal of the connection and one for a timer.        *)
(*                                                                         *)
(* A connection is "none" when m_connection is null, "active" while the    *)
(* event loop polls it and "removing" from the moment its callback returns *)
(* false, or remEventSource() is called, until the loop finalizes it.      *)
(***************************************************************************)
EXTENDS CollectorBase

CONSTANTS
    Issues,       \* Issues[d]: the session hashes the monitor of d may issue
    FreshHashes,  \* TRUE: a monitor never issues a hash twice
    MaxBacklog    \* bound: a monitor answers while the queues are shorter than this

ASSUME DeviceAssumption ==
    /\ Issues \in [Devices -> SUBSET Hashes]
    /\ FreshHashes \in BOOLEAN
    /\ MaxBacklog \in Nat

VARIABLES
    state,          \* DeviceData.state; "Unknown" while no MonitorDevice exists
    connection,     \* m_connection
    sessionHash,    \* m_sessionData.hash
    lanes,          \* the timers the device points at are armed
    orphanLanes,    \* armed timer sets the device no longer points at
    wantSession,    \* the monitor: CreateSession requests not answered yet
    askedData,      \* the monitor: a data request not answered yet
    monitorSession, \* the monitor: the session of this connection
    issued          \* the monitors: hashes issued so far

deviceVars == <<state, connection, sessionHash, lanes, orphanLanes>>
monitorVars == <<wantSession, askedData, monitorSession, issued>>

States == {"Unknown", "Loaded", "Disconnected", "Connected", "SessionSet", "Collecting", "Idle"}

DeviceTypeOK ==
    /\ state \in [Devices -> States]
    /\ connection \in [Devices -> {"none", "active", "removing"}]
    /\ sessionHash \in [Devices -> Hashes \cup {NoHash}]
    /\ lanes \in [Devices -> BOOLEAN]
    /\ orphanLanes \in [Devices -> Nat]
    /\ wantSession \in [Devices -> Nat]
    /\ askedData \in [Devices -> BOOLEAN]
    /\ monitorSession \in [Devices -> Hashes \cup {NoHash}]
    /\ issued \subseteq Hashes

DeviceInit ==
    /\ state = [d \in Devices |-> "Unknown"]
    /\ connection = [d \in Devices |-> "none"]
    /\ sessionHash = [d \in Devices |-> NoHash]
    /\ lanes = [d \in Devices |-> FALSE]
    /\ orphanLanes = [d \in Devices |-> 0]
    /\ wantSession = [d \in Devices |-> 0]
    /\ askedData = [d \in Devices |-> FALSE]
    /\ monitorSession = [d \in Devices |-> NoHash]

-----------------------------------------------------------------------------
(* Helpers of MonitorDevice.                                               *)

\* Faulty variant: a session is taken to last only while it is collecting.
EndsSession_collecting(d, s) == s = "Disconnected" /\ state[d] = "Collecting"

\* The condition under which updateState() ends the session.
EndsSession(d, s) == s = "Disconnected" /\ sessionHash[d] # NoHash

\* updateState(): a device that disconnects asks for the end of its session.
updateState(d, s) ==
    /\ state' = [state EXCEPT ![d] = s]
    /\ dbQueue' = IF EndsSession(d, s)
                  THEN Append(dbQueue, Request("EndSession", NoClient, NoDevice, sessionHash[d]))
                  ELSE dbQueue

\* startUpdateLanes() makes new timers whatever became of the old ones.
startUpdateLanes(d) ==
    /\ orphanLanes' = [orphanLanes EXCEPT ![d] = IF lanes[d] THEN @ + 1 ELSE @]
    /\ lanes' = [lanes EXCEPT ![d] = TRUE]

stopUpdateLanes(d) ==
    /\ lanes' = [lanes EXCEPT ![d] = FALSE]
    /\ UNCHANGED orphanLanes

\* Faulty variant: the connection goes without a word.
disconnect_silent(d) == UNCHANGED <<state, dbQueue>>

\* Connection::disconnect(), as the destructor calls it.
disconnect(d) == updateState(d, "Disconnected")

\* Faulty variant: the last request pushed is the first handled.
Pushed_first(queue, rq) == <<rq>> \o queue

\* pushRequest(): requests are handled in the order they are pushed.
Pushed(queue, rq) == Append(queue, rq)

\* The process dies of a null pointer: a call through m_connection, or the
\* answer of gethostbyname(), that nothing has checked.
NullDereference ==
    /\ process' = "crashed"
    /\ UNCHANGED <<queueVars, deviceVars, monitorVars>>

-----------------------------------------------------------------------------
(* Request handlers.                                                       *)

\* A second connection is refused.  A connection attempt that fails deletes
\* the connection it made, whose destructor reports the device disconnected.
Device_doConnect(d) ==
    LET rq == Head(deviceQueue[d]) IN
    /\ DeviceHandles(d, "Connect")
    /\ \/ /\ connection[d] # "none"
          /\ Reply(rq.client, "Error")
          /\ deviceQueue' = PopDevice(d, <<>>)
          /\ UNCHANGED <<dbQueue, process, deviceVars>>
       \/ /\ connection[d] = "none"
          /\ FALSE \in Outcomes("connect")
          /\ disconnect(d)
          /\ stopUpdateLanes(d)
          /\ Reply(rq.client, "Error")
          /\ deviceQueue' = PopDevice(d, <<>>)
          /\ UNCHANGED <<process, connection, sessionHash>>
       \/ /\ connection[d] = "none"
          /\ connection' = [connection EXCEPT ![d] = "active"]
          /\ deviceQueue' = PopDevice(d, <<Request("SendDescriptor", rq.client, d, NoHash)>>)
          /\ UNCHANGED <<dispatcherQueue, dbQueue, process, state, sessionHash, lanes, orphanLanes>>
    /\ UNCHANGED monitorVars

\* gethostbyname() knows no such host and returns null.
Device_doConnectUnresolved(d) ==
    /\ DeviceHandles(d, "Connect")
    /\ connection[d] = "none"
    /\ FALSE \in Outcomes("resolve")
    /\ NullDereference

\* The device is connected once the descriptor is sent; when it cannot be
\* sent the client is told, and the connection stays.
Device_doSendDescriptor(d) ==
    LET rq == Head(deviceQueue[d]) IN
    /\ DeviceHandles(d, "SendDescriptor")
    /\ \/ connection[d] = "none" /\ NullDereference
       \/ /\ connection[d] # "none"
          /\ \E sent \in Outcomes("descriptor") :
                /\ Reply(rq.client, IF sent THEN "Okay" ELSE "Error")
                /\ IF sent THEN updateState(d, "Connected") ELSE UNCHANGED <<state, dbQueue>>
          /\ deviceQueue' = PopDevice(d, <<>>)
          /\ UNCHANGED <<process, connection, sessionHash, lanes, orphanLanes, monitorVars>>

Device_doRequestSession(d) ==
    /\ DeviceHandles(d, "RequestSession")
    /\ \/ connection[d] = "none" /\ NullDereference
       \/ /\ connection[d] # "none"
          /\ wantSession' = [wantSession EXCEPT ![d] = @ + 1]
          /\ deviceQueue' = PopDevice(d, <<>>)
          /\ UNCHANGED <<dispatcherQueue, dbQueue, process, deviceVars,
                         askedData, monitorSession, issued>>

Device_doSetSession(d) ==
    LET rq == Head(deviceQueue[d]) IN
    /\ DeviceHandles(d, "SetSession")
    /\ sessionHash' = [sessionHash EXCEPT ![d] = rq.session]
    /\ state' = [state EXCEPT ![d] = "SessionSet"]
    /\ dbQueue' = Append(dbQueue, Request("AddSession", NoClient, d, rq.session))
    /\ deviceQueue' = PopDevice(d, <<Internal("StartStream")>>)
    /\ UNCHANGED <<dispatcherQueue, process, connection, lanes, orphanLanes, monitorVars>>

\* Only the state is looked at, never whether there is a connection.
Device_doDisconnect(d) ==
    LET rq == Head(deviceQueue[d]) IN
    /\ DeviceHandles(d, "Disconnect")
    /\ \/ /\ state[d] = "Disconnected"
          /\ Reply(rq.client, "Error")
          /\ deviceQueue' = PopDevice(d, <<>>)
          /\ UNCHANGED <<dbQueue, process, deviceVars, monitorVars>>
       \/ /\ state[d] # "Disconnected"
          /\ connection[d] # "none"
          /\ connection' = [connection EXCEPT ![d] = "removing"]
          /\ Reply(rq.client, "Okay")
          /\ deviceQueue' = PopDevice(d, <<>>)
          /\ UNCHANGED <<dbQueue, process, state, sessionHash, lanes, orphanLanes, monitorVars>>
       \/ /\ state[d] # "Disconnected"
          /\ connection[d] = "none"
          /\ NullDereference

Device_doStartStream(d) ==
    /\ DeviceHandles(d, "StartStream")
    /\ state' = [state EXCEPT ![d] = "Collecting"]
    /\ startUpdateLanes(d)
    /\ deviceQueue' = PopDevice(d, <<>>)
    /\ UNCHANGED <<dispatcherQueue, dbQueue, process, connection, sessionHash, monitorVars>>

Device_doStopStream(d) ==
    /\ DeviceHandles(d, "StopStream")
    /\ stopUpdateLanes(d)
    /\ state' = [state EXCEPT ![d] = "Idle"]
    /\ deviceQueue' = PopDevice(d, <<>>)
    /\ UNCHANGED <<dispatcherQueue, dbQueue, process, connection, sessionHash, monitorVars>>

\* Faulty variant: the follow-up request keeps the client, who is answered twice.
StartRequests_keepClient(d) ==
    IF state[d] \in {"Connected", "Idle"}
    THEN <<Request("RequestSession", Head(deviceQueue[d]).client, NoDevice, NoHash)>>
    ELSE <<>>

\* Faulty variant: a refused request is answered and tried again.
StartRequests_retried(d) ==
    IF state[d] \in {"Connected", "Idle"} THEN <<Internal("RequestSession")>>
    ELSE IF state[d] = "SessionSet" THEN <<Internal("StartStream")>>
    ELSE <<Head(deviceQueue[d])>>

\* The request a StartCollecting turns into, by the state it finds.
StartRequests(d) ==
    IF state[d] \in {"Connected", "Idle"} THEN <<Internal("RequestSession")>>
    ELSE IF state[d] = "SessionSet" THEN <<Internal("StartStream")>>
    ELSE <<>>

Device_doStartCollecting(d) ==
    LET rq == Head(deviceQueue[d]) IN
    /\ DeviceHandles(d, "StartCollecting")
    /\ deviceQueue' = PopDevice(d, StartRequests(d))
    /\ Reply(rq.client, IF state[d] \in {"Connected", "Idle", "SessionSet"} THEN "Okay" ELSE "Error")
    /\ UNCHANGED <<dbQueue, process, deviceVars, monitorVars>>

Device_doStopCollecting(d) ==
    LET rq == Head(deviceQueue[d]) IN
    /\ DeviceHandles(d, "StopCollecting")
    /\ deviceQueue' = PopDevice(d, IF state[d] = "Collecting" THEN <<Internal("StopStream")>> ELSE <<>>)
    /\ Reply(rq.client, IF state[d] = "Collecting" THEN "Okay" ELSE "Error")
    /\ UNCHANGED <<dbQueue, process, deviceVars, monitorVars>>

\* The data is filed under the session the device has now.
Device_doProcessData(d) ==
    LET rq == Head(deviceQueue[d]) IN
    /\ DeviceHandles(d, "ProcessData")
    /\ dbQueue' = Append(dbQueue, [Request("AddData", NoClient, NoDevice, sessionHash[d])
                                     EXCEPT !.payload = rq.payload])
    /\ deviceQueue' = PopDevice(d, <<>>)
    /\ UNCHANGED <<dispatcherQueue, process, deviceVars, monitorVars>>

\* doStatus() only logs.
Device_doStatus(d) ==
    /\ DeviceHandles(d, "Status")
    /\ deviceQueue' = PopDevice(d, <<>>)
    /\ UNCHANGED <<dispatcherQueue, dbQueue, process, deviceVars, monitorVars>>

-----------------------------------------------------------------------------
(* The connection's callback: one action per message read.  Messages of    *)
(* another origin are skipped and change nothing.                          *)

Readable(d) == process = "up" /\ connection[d] = "active"

\* The monitor answers a CreateSession with a session hash.
Connection_readSetSession(d, h) ==
    /\ Readable(d)
    /\ wantSession[d] > 0
    /\ FreshHashes => h \notin issued
    /\ wantSession' = [wantSession EXCEPT ![d] = @ - 1]
    /\ monitorSession' = [monitorSession EXCEPT ![d] = h]
    /\ issued' = issued \cup {h}
    /\ deviceQueue' = [deviceQueue EXCEPT ![d] = Pushed(@, Request("SetSession", NoClient, d, h))]
    /\ UNCHANGED <<dispatcherQueue, dbQueue, process, deviceVars, askedData>>

\* The monitor answers a data request, for the session of this connection.
Connection_readData(d) ==
    /\ Readable(d)
    /\ askedData[d]
    /\ Len(deviceQueue[d]) + Len(dbQueue) < MaxBacklog
    /\ askedData' = [askedData EXCEPT ![d] = FALSE]
    /\ deviceQueue' = [deviceQueue EXCEPT ![d] =
                         Pushed(@, [Internal("ProcessData") EXCEPT !.payload = monitorSession[d]])]
    /\ UNCHANGED <<dispatcherQueue, dbQueue, process, deviceVars, wantSession, monitorSession, issued>>

\* The monitor refuses a CreateSession or a data request.
Connection_readStatus(d) ==
    /\ Readable(d)
    /\ \/ /\ wantSession[d] > 0
          /\ wantSession' = [wantSession EXCEPT ![d] = @ - 1]
          /\ UNCHANGED askedData
       \/ /\ askedData[d]
          /\ Len(deviceQueue[d]) + Len(dbQueue) < MaxBacklog
          /\ askedData' = [askedData EXCEPT ![d] = FALSE]
          /\ UNCHANGED wantSession
    /\ deviceQueue' = [deviceQueue EXCEPT ![d] = Pushed(@, Internal("Status"))]
    /\ UNCHANGED <<dispatcherQueue, dbQueue, process, deviceVars, monitorSession, issued>>

\* End of file, a read error or an unknown message: the callback returns false.
Connection_readFails(d) ==
    /\ Readable(d)
    /\ FALSE \in Outcomes("eof")
    /\ connection' = [connection EXCEPT ![d] = "removing"]
    /\ UNCHANGED <<queueVars, process, state, sessionHash, lanes, orphanLanes, monitorVars>>

\* The event loop drops the source: the finalizer deletes the connection of
\* the device and the last reference runs ~Connection(), which disconnects.
Connection_finalize(d) ==
    /\ process = "up"
    /\ connection[d] = "removing"
    /\ connection' = [connection EXCEPT ![d] = "none"]
    /\ stopUpdateLanes(d)
    /\ disconnect(d)
    /\ wantSession' = [wantSession EXCEPT ![d] = 0]
    /\ askedData' = [askedData EXCEPT ![d] = FALSE]
    /\ monitorSession' = [monitorSession EXCEPT ![d] = NoHash]
    /\ UNCHANGED <<dispatcherQueue, deviceQueue, process, sessionHash, issued>>

\* An armed timer asks for data through whatever connection there is.  A tick
\* while an answer is outstanding adds nothing.
Lane_tick(d) ==
    /\ process = "up"
    /\ lanes[d] \/ orphanLanes[d] > 0
    /\ \/ connection[d] = "none" /\ NullDereference
       \/ /\ connection[d] # "none"
          /\ ~askedData[d]
          /\ askedData' = [askedData EXCEPT ![d] = TRUE]
          /\ UNCHANGED <<queueVars, process, deviceVars, wantSession, monitorSession, issued>>

-----------------------------------------------------------------------------
\* A handler of the device's queue.
DeviceHandler(d) ==
    \/ Device_doConnect(d)
    \/ Device_doConnectUnresolved(d)
    \/ Device_doSendDescriptor(d)
    \/ Device_doRequestSession(d)
    \/ Device_doSetSession(d)
    \/ Device_doDisconnect(d)
    \/ Device_doStartStream(d)
    \/ Device_doStopStream(d)
    \/ Device_doStartCollecting(d)
    \/ Device_doStopCollecting(d)
    \/ Device_doProcessData(d)
    \/ Device_doStatus(d)

\* What the monitor and the network make the connection's callback do.
ConnectionEvent(d) ==
    \/ \E h \in Issues[d] : Connection_readSetSession(d, h)
    \/ Connection_readData(d)
    \/ Connection_readStatus(d)
    \/ Connection_readFails(d)
=============================================================================
