----------------------- MODULE CollectorSafetyProofs -----------------------
(***************************************************************************)
(* Type correctness of the collector, for every set of devices and hashes, *)
(* every bound, every kind of failure and both backends, and the safety    *)
(* theorems that need little more.  For the type each kind of step has a   *)
(* lemma of its own, and NextType puts them together.  Each of the other   *)
(* theorems is proved the same way: the property holds initially, every    *)
(* step from a state of the right type keeps it, and PTL puts the two      *)
(* together.                                                               *)
(***************************************************************************)
EXTENDS CollectorProperties, FiniteSetTheorems, TLAPS

USE BaseAssumption, DeviceAssumption, DatabaseAssumption, DispatcherAssumption, CollectorAssumption

-----------------------------------------------------------------------------
(* The types of requests and of queues.                                    *)

LEMMA RequestType ==
    ASSUME NEW actions, NEW a \in actions, NEW c \in Clients,
           NEW d \in Devices \cup {NoDevice}, NEW h \in Hashes \cup {NoHash},
           a = "AddDevice" => d \in Devices, a # "SendStatus"
    PROVE  Request(a, c, d, h) \in RequestsOf(actions)
BY DEF Request, RequestsOf, RequestFields, Args

LEMMA InternalType ==
    ASSUME NEW actions, NEW a \in actions, a \notin {"AddDevice", "SendStatus"}
    PROVE  Internal(a) \in RequestsOf(actions)
BY DEF Internal, Request, RequestsOf, RequestFields, Args, Clients, NoClient

LEMMA StatusRequestType ==
    ASSUME NEW c \in Clients, NEW s \in {"Okay", "Error"}
    PROVE  StatusRequest(c, s) \in RequestsOf(DispatcherActions)
BY DEF StatusRequest, RequestsOf, RequestFields, Args, DispatcherActions

LEMMA NullClient == NoClient \in Clients
BY DEF NoClient, Clients

LEMMA EndSessionType ==
    ASSUME NEW h \in Hashes \cup {NoHash}
    PROVE  Request("EndSession", NoClient, NoDevice, h) \in RequestsOf(DatabaseActions)
<1>1. "EndSession" \in DatabaseActions
  BY DEF DatabaseActions
<1>2. QED
  BY <1>1, RequestType, NullClient

LEMMA FieldsType ==
    ASSUME NEW actions, NEW rq \in RequestsOf(actions)
    PROVE  /\ rq.action \in actions
           /\ rq.client \in Clients
           /\ rq.device \in Devices \cup {NoDevice}
           /\ rq.session \in Hashes \cup {NoHash}
           /\ rq.payload \in Hashes \cup {NoHash}
           /\ rq.arg \in Args
           /\ rq.action = "AddDevice" => rq.device \in Devices
           /\ rq.action = "SendStatus" => rq.arg \in {"Okay", "Error"}
BY DEF RequestsOf, RequestFields

LEMMA PayloadType ==
    ASSUME NEW actions, NEW rq \in RequestsOf(actions), NEW h \in Hashes \cup {NoHash}
    PROVE  [rq EXCEPT !.payload = h] \in RequestsOf(actions)
BY DEF RequestsOf, RequestFields

LEMMA ActionType ==
    ASSUME NEW actions, NEW others, NEW rq \in RequestsOf(actions), NEW a \in others,
           a = "AddDevice" => rq.device \in Devices, a # "SendStatus"
    PROVE  [rq EXCEPT !.action = a] \in RequestsOf(others)
BY DEF RequestsOf, RequestFields

LEMMA PopType ==
    ASSUME NEW S, NEW q \in Seq(S), q # <<>>
    PROVE  Head(q) \in S /\ Tail(q) \in Seq(S)
OBVIOUS

LEMMA PopPushType ==
    ASSUME NEW S, NEW q \in Seq(S), q # <<>>, NEW rqs \in Seq(S)
    PROVE  Tail(q) \o rqs \in Seq(S)
OBVIOUS

LEMMA ReplyType ==
    ASSUME dispatcherQueue \in Seq(RequestsOf(DispatcherActions)),
           NEW c \in Clients, NEW s \in {"Okay", "Error"}, Reply(c, s)
    PROVE  dispatcherQueue' \in Seq(RequestsOf(DispatcherActions))
BY StatusRequestType DEF Reply
LEMMA PopDeviceType ==
    ASSUME deviceQueue \in [Devices -> Seq(RequestsOf(DeviceActions))],
           NEW d \in Devices, deviceQueue[d] # <<>>,
           NEW rqs \in Seq(RequestsOf(DeviceActions))
    PROVE  PopDevice(d, rqs) \in [Devices -> Seq(RequestsOf(DeviceActions))]
BY PopPushType DEF PopDevice

LEMMA HeadType ==
    ASSUME BaseTypeOK, NEW d \in Devices, deviceQueue[d] # <<>>
    PROVE  Head(deviceQueue[d]) \in RequestsOf(DeviceActions)
BY PopType DEF BaseTypeOK

-----------------------------------------------------------------------------
(* Type correctness, one lemma for each kind of step.                      *)

ProcessStates == {"up", "exited", "crashed"}

LEMMA UpdateStateType ==
    ASSUME BaseTypeOK, DeviceTypeOK, NEW d \in Devices, NEW s \in States, updateState(d, s)
    PROVE  /\ state' \in [Devices -> States]
           /\ dbQueue' \in Seq(RequestsOf(DatabaseActions))
<1>1. Request("EndSession", NoClient, NoDevice, sessionHash[d]) \in RequestsOf(DatabaseActions)
  BY EndSessionType DEF DeviceTypeOK
<1>2. state' \in [Devices -> States]
  BY DEF updateState, DeviceTypeOK
<1>3. dbQueue' \in Seq(RequestsOf(DatabaseActions))
  <2>1. Append(dbQueue, Request("EndSession", NoClient, NoDevice, sessionHash[d]))
            \in Seq(RequestsOf(DatabaseActions))
    BY <1>1 DEF BaseTypeOK
  <2>2. QED
    BY <2>1 DEF updateState, BaseTypeOK
<1>4. QED
  BY <1>2, <1>3

LEMMA LanesType ==
    ASSUME DeviceTypeOK, NEW d \in Devices, startUpdateLanes(d) \/ stopUpdateLanes(d)
    PROVE  /\ lanes' \in [Devices -> BOOLEAN]
           /\ orphanLanes' \in [Devices -> Nat]
<1>1. lanes' \in [Devices -> BOOLEAN]
  BY DEF DeviceTypeOK, startUpdateLanes, stopUpdateLanes
<1>2. orphanLanes' \in [Devices -> Nat]
  <2>1. CASE stopUpdateLanes(d)
    BY <2>1 DEF DeviceTypeOK, stopUpdateLanes
  <2>2. CASE startUpdateLanes(d)
    <3>1. orphanLanes[d] \in Nat /\ orphanLanes[d] + 1 \in Nat
      BY DEF DeviceTypeOK
    <3>2. orphanLanes' = [orphanLanes EXCEPT ![d] = orphanLanes[d] + 1]
          \/ orphanLanes' = [orphanLanes EXCEPT ![d] = orphanLanes[d]]
      BY <2>2, Zenon DEF startUpdateLanes
    <3>3. QED
      BY <3>1, <3>2 DEF DeviceTypeOK
  <2>3. QED
    BY <2>1, <2>2
<1>3. QED
  BY <1>1, <1>2

QueueTypeOK ==
    /\ dispatcherQueue \in Seq(RequestsOf(DispatcherActions))
    /\ dbQueue \in Seq(RequestsOf(DatabaseActions))
    /\ deviceQueue \in [Devices -> Seq(RequestsOf(DeviceActions))]
    /\ process \in ProcessStates

LEMMA NullDereferenceType ==
    ASSUME BaseTypeOK, DeviceTypeOK, NullDereference
    PROVE  QueueTypeOK' /\ DeviceTypeOK'
BY DEF BaseTypeOK, DeviceTypeOK, NullDereference, queueVars, deviceVars, monitorVars,
       QueueTypeOK, ProcessStates

\* Requests a device pushes on its own queue.
LEMMA DeviceRequestType ==
    ASSUME NEW c \in Clients, NEW d \in Devices, NEW h \in Hashes \cup {NoHash}
    PROVE  /\ Request("SendDescriptor", c, d, NoHash) \in RequestsOf(DeviceActions)
           /\ Request("SetSession", NoClient, d, h) \in RequestsOf(DeviceActions)
           /\ Internal("RequestSession") \in RequestsOf(DeviceActions)
           /\ Internal("StartStream") \in RequestsOf(DeviceActions)
           /\ Internal("StopStream") \in RequestsOf(DeviceActions)
           /\ Internal("ProcessData") \in RequestsOf(DeviceActions)
           /\ Internal("Status") \in RequestsOf(DeviceActions)
<1>1. {"SendDescriptor", "SetSession", "RequestSession", "StartStream", "StopStream",
       "ProcessData", "Status"} \subseteq DeviceActions
  BY DEF DeviceActions
<1>2. QED
  BY <1>1, RequestType, InternalType, NullClient

LEMMA PopTypes ==
    ASSUME BaseTypeOK, NEW d \in Devices, deviceQueue[d] # <<>>
    PROVE  /\ PopDevice(d, <<>>) \in [Devices -> Seq(RequestsOf(DeviceActions))]
           /\ \A rq \in RequestsOf(DeviceActions) :
                 PopDevice(d, <<rq>>) \in [Devices -> Seq(RequestsOf(DeviceActions))]
<1>1. \A rqs \in Seq(RequestsOf(DeviceActions)) :
        PopDevice(d, rqs) \in [Devices -> Seq(RequestsOf(DeviceActions))]
  BY PopDeviceType DEF BaseTypeOK
<1>2. <<>> \in Seq(RequestsOf(DeviceActions))
  OBVIOUS
<1>3. \A rq \in RequestsOf(DeviceActions) : <<rq>> \in Seq(RequestsOf(DeviceActions))
  OBVIOUS
<1>4. QED
  BY <1>1, <1>2, <1>3

LEMMA doConnectType ==
    ASSUME BaseTypeOK, DeviceTypeOK, NEW d \in Devices, Device_doConnect(d)
    PROVE  QueueTypeOK' /\ DeviceTypeOK'
<1> DEFINE rq == Head(deviceQueue[d])
<1>1. deviceQueue[d] # <<>>
  BY DEF Device_doConnect, DeviceHandles
<1>2. rq.client \in Clients
  BY <1>1, HeadType, FieldsType
<1>3. CASE connection[d] # "none"
  <2>1. Reply(rq.client, "Error") /\ deviceQueue' = PopDevice(d, <<>>)
        /\ UNCHANGED <<dbQueue, process, deviceVars, monitorVars>>
    BY <1>3 DEF Device_doConnect
  <2>2. QED
    BY <1>1, <1>2, <2>1, ReplyType, PopTypes
    DEF BaseTypeOK, DeviceTypeOK, QueueTypeOK, ProcessStates, deviceVars, monitorVars
<1>4. CASE /\ disconnect(d)
           /\ stopUpdateLanes(d)
           /\ Reply(rq.client, "Error")
           /\ deviceQueue' = PopDevice(d, <<>>)
           /\ UNCHANGED <<process, connection, sessionHash, monitorVars>>
  <2>1. "Disconnected" \in States
    BY DEF States
  <2>2. QED
    BY <1>1, <1>2, <1>4, <2>1, ReplyType, PopTypes, UpdateStateType, LanesType
    DEF BaseTypeOK, DeviceTypeOK, QueueTypeOK, ProcessStates, monitorVars, disconnect
<1>5. CASE /\ connection' = [connection EXCEPT ![d] = "active"]
           /\ deviceQueue' = PopDevice(d, <<Request("SendDescriptor", rq.client, d, NoHash)>>)
           /\ UNCHANGED <<dispatcherQueue, dbQueue, process, state, sessionHash, lanes,
                          orphanLanes, monitorVars>>
  <2>1. Request("SendDescriptor", rq.client, d, NoHash) \in RequestsOf(DeviceActions)
    BY <1>2, DeviceRequestType
  <2>2. QED
    BY <1>1, <1>5, <2>1, PopTypes
    DEF BaseTypeOK, DeviceTypeOK, QueueTypeOK, ProcessStates, monitorVars
<1>6. QED
  BY <1>3, <1>4, <1>5 DEF Device_doConnect

LEMMA doSendDescriptorType ==
    ASSUME BaseTypeOK, DeviceTypeOK, NEW d \in Devices, Device_doSendDescriptor(d)
    PROVE  QueueTypeOK' /\ DeviceTypeOK'
<1> DEFINE rq == Head(deviceQueue[d])
<1>1. CASE NullDereference
  BY <1>1, NullDereferenceType
<1>2. CASE ~NullDereference
  <2>1. PICK sent \in Outcomes("descriptor") :
           /\ Reply(rq.client, IF sent THEN "Okay" ELSE "Error")
           /\ IF sent THEN updateState(d, "Connected") ELSE UNCHANGED <<state, dbQueue>>
    BY <1>2 DEF Device_doSendDescriptor
  <2>2. /\ deviceQueue[d] # <<>>
        /\ deviceQueue' = PopDevice(d, <<>>)
        /\ UNCHANGED <<process, connection, sessionHash, lanes, orphanLanes, monitorVars>>
    BY <1>2 DEF Device_doSendDescriptor, DeviceHandles
  <2>3. rq.client \in Clients
    BY <2>2, HeadType, FieldsType
  <2>4. dispatcherQueue' \in Seq(RequestsOf(DispatcherActions))
    <3>1. (IF sent THEN "Okay" ELSE "Error") \in {"Okay", "Error"}
      OBVIOUS
    <3>2. QED
      BY <2>1, <2>3, <3>1, ReplyType DEF BaseTypeOK
  <2>5. state' \in [Devices -> States] /\ dbQueue' \in Seq(RequestsOf(DatabaseActions))
    <3>1. "Connected" \in States
      BY DEF States
    <3>2. CASE updateState(d, "Connected")
      BY <3>1, <3>2, UpdateStateType
    <3>3. CASE UNCHANGED <<state, dbQueue>>
      BY <3>3 DEF BaseTypeOK, DeviceTypeOK
    <3>4. QED
      BY <2>1, <3>2, <3>3
  <2>6. QED
    BY <2>2, <2>4, <2>5, PopTypes
    DEF BaseTypeOK, DeviceTypeOK, QueueTypeOK, ProcessStates, monitorVars
<1>3. QED
  BY <1>1, <1>2

LEMMA doRequestSessionType ==
    ASSUME BaseTypeOK, DeviceTypeOK, NEW d \in Devices, Device_doRequestSession(d)
    PROVE  QueueTypeOK' /\ DeviceTypeOK'
<1>1. CASE NullDereference
  BY <1>1, NullDereferenceType
<1>2. CASE ~NullDereference
  <2>1. deviceQueue' \in [Devices -> Seq(RequestsOf(DeviceActions))]
    BY <1>2, PopTypes DEF Device_doRequestSession, DeviceHandles
  <2>2. wantSession' \in [Devices -> Nat]
    <3>1. wantSession' = [wantSession EXCEPT ![d] = @ + 1]
      BY <1>2 DEF Device_doRequestSession
    <3>2. wantSession \in [Devices -> Nat] /\ wantSession[d] + 1 \in Nat
      BY DEF DeviceTypeOK
    <3>3. QED
      BY <3>1, <3>2
  <2>3. UNCHANGED <<dispatcherQueue, dbQueue, process, deviceVars, askedData, monitorSession, issued>>
    BY <1>2 DEF Device_doRequestSession
  <2>4. QED
    BY <2>1, <2>2, <2>3 DEF BaseTypeOK, DeviceTypeOK, QueueTypeOK, ProcessStates, deviceVars
<1>3. QED
  BY <1>1, <1>2

LEMMA doSetSessionType ==
    ASSUME BaseTypeOK, DeviceTypeOK, NEW d \in Devices, Device_doSetSession(d)
    PROVE  QueueTypeOK' /\ DeviceTypeOK'
<1> DEFINE rq == Head(deviceQueue[d])
<1>1. deviceQueue[d] # <<>> /\ rq \in RequestsOf(DeviceActions)
  BY HeadType DEF Device_doSetSession, DeviceHandles
<1>2. rq.session \in Hashes \cup {NoHash}
  BY <1>1, FieldsType
<1>3. Request("AddSession", NoClient, d, rq.session) \in RequestsOf(DatabaseActions)
  <2>1. "AddSession" \in DatabaseActions
    BY DEF DatabaseActions
  <2>2. QED
    BY <1>2, <2>1, RequestType, NullClient
<1>4. Internal("StartStream") \in RequestsOf(DeviceActions)
  BY <1>2, DeviceRequestType, NullClient
<1>5. "SessionSet" \in States
  BY DEF States
<1>6. QED
  BY <1>1, <1>2, <1>3, <1>4, <1>5, PopTypes
  DEF Device_doSetSession, BaseTypeOK, DeviceTypeOK, QueueTypeOK, ProcessStates, monitorVars

LEMMA doDisconnectType ==
    ASSUME BaseTypeOK, DeviceTypeOK, NEW d \in Devices, Device_doDisconnect(d)
    PROVE  QueueTypeOK' /\ DeviceTypeOK'
<1> DEFINE rq == Head(deviceQueue[d])
<1>1. CASE NullDereference
  BY <1>1, NullDereferenceType
<1>2. CASE ~NullDereference
  <2>1. deviceQueue[d] # <<>> /\ rq.client \in Clients
    BY HeadType, FieldsType DEF Device_doDisconnect, DeviceHandles
  <2>2. /\ \E s \in {"Okay", "Error"} : Reply(rq.client, s)
        /\ deviceQueue' = PopDevice(d, <<>>)
        /\ connection' = connection \/ connection' = [connection EXCEPT ![d] = "removing"]
        /\ UNCHANGED <<dbQueue, process, state, sessionHash, lanes, orphanLanes, monitorVars>>
    BY <1>2 DEF Device_doDisconnect, deviceVars
  <2>3. dispatcherQueue' \in Seq(RequestsOf(DispatcherActions))
    BY <2>1, <2>2, ReplyType DEF BaseTypeOK
  <2>4. connection' \in [Devices -> {"none", "active", "removing"}]
    BY <2>2 DEF DeviceTypeOK
  <2>5. deviceQueue' \in [Devices -> Seq(RequestsOf(DeviceActions))]
    BY <2>1, <2>2, PopTypes
  <2>6. QED
    BY <2>2, <2>3, <2>4, <2>5
    DEF BaseTypeOK, DeviceTypeOK, QueueTypeOK, ProcessStates, monitorVars
<1>3. QED
  BY <1>1, <1>2

LEMMA StreamType ==
    ASSUME BaseTypeOK, DeviceTypeOK, NEW d \in Devices,
           Device_doStartStream(d) \/ Device_doStopStream(d)
    PROVE  QueueTypeOK' /\ DeviceTypeOK'
<1>1. "Collecting" \in States /\ "Idle" \in States
  BY DEF States
<1>2. startUpdateLanes(d) \/ stopUpdateLanes(d)
  BY DEF Device_doStartStream, Device_doStopStream
<1>3. deviceQueue' \in [Devices -> Seq(RequestsOf(DeviceActions))]
  BY PopTypes DEF Device_doStartStream, Device_doStopStream, DeviceHandles
<1>4. state' \in [Devices -> States]
  <2>1. PICK s \in States : state' = [state EXCEPT ![d] = s]
    BY <1>1 DEF Device_doStartStream, Device_doStopStream
  <2>2. QED
    BY <2>1 DEF DeviceTypeOK
<1>5. lanes' \in [Devices -> BOOLEAN] /\ orphanLanes' \in [Devices -> Nat]
  BY <1>2, LanesType
<1>6. UNCHANGED <<dispatcherQueue, dbQueue, process, connection, sessionHash, monitorVars>>
  BY DEF Device_doStartStream, Device_doStopStream
<1>7. QED
  BY <1>3, <1>4, <1>5, <1>6
  DEF BaseTypeOK, DeviceTypeOK, QueueTypeOK, ProcessStates, monitorVars

LEMMA CollectingType ==
    ASSUME BaseTypeOK, DeviceTypeOK, NEW d \in Devices,
           Device_doStartCollecting(d) \/ Device_doStopCollecting(d)
    PROVE  QueueTypeOK' /\ DeviceTypeOK'
<1> DEFINE rq == Head(deviceQueue[d])
<1>1. deviceQueue[d] # <<>> /\ rq.client \in Clients
  BY HeadType, FieldsType DEF Device_doStartCollecting, Device_doStopCollecting, DeviceHandles
<1>2. \E r \in {<<>>, <<Internal("RequestSession")>>, <<Internal("StartStream")>>,
                <<Internal("StopStream")>>} : deviceQueue' = PopDevice(d, r)
  BY DEF Device_doStartCollecting, Device_doStopCollecting, StartRequests
<1>3. deviceQueue' \in [Devices -> Seq(RequestsOf(DeviceActions))]
  BY <1>1, <1>2, PopTypes, DeviceRequestType
<1>4. \E s \in {"Okay", "Error"} : Reply(rq.client, s)
  BY DEF Device_doStartCollecting, Device_doStopCollecting
<1>5. QED
  BY <1>1, <1>3, <1>4, ReplyType
  DEF Device_doStartCollecting, Device_doStopCollecting,
      BaseTypeOK, DeviceTypeOK, QueueTypeOK, ProcessStates, deviceVars, monitorVars

LEMMA doProcessDataType ==
    ASSUME BaseTypeOK, DeviceTypeOK, NEW d \in Devices, Device_doProcessData(d)
    PROVE  QueueTypeOK' /\ DeviceTypeOK'
<1> DEFINE rq == Head(deviceQueue[d])
           add == Request("AddData", NoClient, NoDevice, sessionHash[d])
<1>1. deviceQueue[d] # <<>> /\ rq.payload \in Hashes \cup {NoHash}
  BY HeadType, FieldsType DEF Device_doProcessData, DeviceHandles
<1>2. add \in RequestsOf(DatabaseActions)
  <2>1. "AddData" \in DatabaseActions
    BY DEF DatabaseActions
  <2>2. QED
    BY <2>1, RequestType, NullClient DEF DeviceTypeOK
<1>3. [add EXCEPT !.payload = rq.payload] \in RequestsOf(DatabaseActions)
  BY <1>1, <1>2, PayloadType
<1>4. QED
  BY <1>1, <1>3, PopTypes
  DEF Device_doProcessData, BaseTypeOK, DeviceTypeOK, QueueTypeOK, ProcessStates,
      deviceVars, monitorVars

\* Every handler of a device's queue keeps the types.
LEMMA DeviceHandlerType ==
    ASSUME BaseTypeOK, DeviceTypeOK, NEW d \in Devices, DeviceHandler(d)
    PROVE  QueueTypeOK' /\ DeviceTypeOK'
<1>1. CASE Device_doConnectUnresolved(d)
  BY <1>1, NullDereferenceType DEF Device_doConnectUnresolved
<1>2. CASE Device_doStatus(d)
  BY <1>2, PopTypes
  DEF Device_doStatus, DeviceHandles, BaseTypeOK, DeviceTypeOK, QueueTypeOK, ProcessStates,
      deviceVars, monitorVars
<1>3. QED
  BY <1>1, <1>2, doConnectType, doSendDescriptorType, doRequestSessionType, doSetSessionType,
     doDisconnectType, StreamType, CollectingType, doProcessDataType
  DEF DeviceHandler

LEMMA PushDeviceType ==
    ASSUME BaseTypeOK, NEW d \in Devices, NEW rq \in RequestsOf(DeviceActions),
           deviceQueue' = [deviceQueue EXCEPT ![d] = Pushed(@, rq)]
    PROVE  deviceQueue' \in [Devices -> Seq(RequestsOf(DeviceActions))]
BY DEF BaseTypeOK, Pushed

\* Everything that is read from a connection keeps the types.
LEMMA ConnectionEventType ==
    ASSUME BaseTypeOK, DeviceTypeOK, NEW d \in Devices, ConnectionEvent(d)
    PROVE  QueueTypeOK' /\ DeviceTypeOK'
<1>1. ASSUME NEW h \in Issues[d], Connection_readSetSession(d, h)
      PROVE  QueueTypeOK' /\ DeviceTypeOK'
  <2>1. h \in Hashes
    BY <1>1, DeviceAssumption DEF DeviceAssumption
  <2>2. deviceQueue' \in [Devices -> Seq(RequestsOf(DeviceActions))]
    BY <1>1, <2>1, PushDeviceType, DeviceRequestType, NullClient DEF Connection_readSetSession
  <2>3. wantSession' \in [Devices -> Nat]
    <3>1. wantSession[d] \in Nat /\ wantSession[d] > 0
      BY <1>1 DEF Connection_readSetSession, DeviceTypeOK
    <3>2. wantSession[d] - 1 \in Nat
      BY <3>1
    <3>3. QED
      BY <1>1, <3>2 DEF Connection_readSetSession, DeviceTypeOK
  <2>4. monitorSession' \in [Devices -> Hashes \cup {NoHash}] /\ issued' \subseteq Hashes
    BY <1>1, <2>1 DEF Connection_readSetSession, DeviceTypeOK
  <2>5. UNCHANGED <<dispatcherQueue, dbQueue, process, deviceVars, askedData>>
    BY <1>1 DEF Connection_readSetSession
  <2>6. QED
    BY <2>2, <2>3, <2>4, <2>5 DEF BaseTypeOK, DeviceTypeOK, QueueTypeOK, ProcessStates, deviceVars
<1>2. CASE Connection_readData(d)
  <2>1. [Internal("ProcessData") EXCEPT !.payload = monitorSession[d]] \in RequestsOf(DeviceActions)
    <3>1. monitorSession[d] \in Hashes \cup {NoHash}
      BY DEF DeviceTypeOK
    <3>2. Internal("ProcessData") \in RequestsOf(DeviceActions)
      BY <3>1, DeviceRequestType, NullClient
    <3>3. QED
      BY <3>1, <3>2, PayloadType
  <2>2. deviceQueue' \in [Devices -> Seq(RequestsOf(DeviceActions))]
    BY <1>2, <2>1, PushDeviceType DEF Connection_readData
  <2>3. askedData' \in [Devices -> BOOLEAN]
    BY <1>2 DEF Connection_readData, DeviceTypeOK
  <2>4. UNCHANGED <<dispatcherQueue, dbQueue, process, deviceVars, wantSession, monitorSession, issued>>
    BY <1>2 DEF Connection_readData
  <2>5. QED
    BY <2>2, <2>3, <2>4 DEF BaseTypeOK, DeviceTypeOK, QueueTypeOK, ProcessStates, deviceVars
<1>3. CASE Connection_readStatus(d)
  <2>1. Internal("Status") \in RequestsOf(DeviceActions)
    BY DeviceRequestType, NullClient DEF DeviceTypeOK
  <2>2. deviceQueue' \in [Devices -> Seq(RequestsOf(DeviceActions))]
    BY <1>3, <2>1, PushDeviceType DEF Connection_readStatus
  <2>3. askedData' \in [Devices -> BOOLEAN]
    BY <1>3 DEF Connection_readStatus, DeviceTypeOK
  <2>4. wantSession' \in [Devices -> Nat]
    <3>1. CASE wantSession' = wantSession
      BY <3>1 DEF DeviceTypeOK
    <3>2. CASE wantSession[d] > 0 /\ wantSession' = [wantSession EXCEPT ![d] = @ - 1]
      <4>1. wantSession[d] - 1 \in Nat
        BY <3>2 DEF DeviceTypeOK
      <4>2. QED
        BY <3>2, <4>1 DEF DeviceTypeOK
    <3>3. QED
      BY <1>3, <3>1, <3>2 DEF Connection_readStatus
  <2>5. UNCHANGED <<dispatcherQueue, dbQueue, process, deviceVars, monitorSession, issued>>
    BY <1>3 DEF Connection_readStatus
  <2>6. QED
    BY <2>2, <2>3, <2>4, <2>5 DEF BaseTypeOK, DeviceTypeOK, QueueTypeOK, ProcessStates, deviceVars
<1>4. CASE Connection_readFails(d)
  BY <1>4 DEF Connection_readFails, BaseTypeOK, DeviceTypeOK, QueueTypeOK, ProcessStates,
              queueVars, monitorVars
<1>5. QED
  BY <1>1, <1>2, <1>3, <1>4 DEF ConnectionEvent

LEMMA FinalizeType ==
    ASSUME BaseTypeOK, DeviceTypeOK, NEW d \in Devices, Connection_finalize(d)
    PROVE  QueueTypeOK' /\ DeviceTypeOK'
<1>1. "Disconnected" \in States
  BY DEF States
<1>2. state' \in [Devices -> States] /\ dbQueue' \in Seq(RequestsOf(DatabaseActions))
  BY <1>1, UpdateStateType DEF Connection_finalize, disconnect
<1>3. lanes' \in [Devices -> BOOLEAN] /\ orphanLanes' \in [Devices -> Nat]
  BY LanesType DEF Connection_finalize
<1>4. /\ connection' \in [Devices -> {"none", "active", "removing"}]
      /\ askedData' \in [Devices -> BOOLEAN]
      /\ monitorSession' \in [Devices -> Hashes \cup {NoHash}]
  BY DEF Connection_finalize, DeviceTypeOK
<1>5. wantSession' \in [Devices -> Nat]
  BY DEF Connection_finalize, DeviceTypeOK
<1>6. UNCHANGED <<dispatcherQueue, deviceQueue, process, sessionHash, issued>>
  BY DEF Connection_finalize
<1>7. QED
  BY <1>2, <1>3, <1>4, <1>5, <1>6 DEF BaseTypeOK, DeviceTypeOK, QueueTypeOK, ProcessStates

LEMMA TickType ==
    ASSUME BaseTypeOK, DeviceTypeOK, NEW d \in Devices, Lane_tick(d)
    PROVE  QueueTypeOK' /\ DeviceTypeOK'
<1>1. CASE NullDereference
  BY <1>1, NullDereferenceType
<1>2. CASE ~NullDereference
  <2>1. askedData' \in [Devices -> BOOLEAN]
    BY <1>2 DEF Lane_tick, DeviceTypeOK
  <2>2. UNCHANGED <<queueVars, process, deviceVars, wantSession, monitorSession, issued>>
    BY <1>2 DEF Lane_tick
  <2>3. QED
    BY <2>1, <2>2
    DEF BaseTypeOK, DeviceTypeOK, QueueTypeOK, ProcessStates, queueVars, deviceVars
<1>3. QED
  BY <1>1, <1>2

-----------------------------------------------------------------------------
(* The database.                                                           *)

DatabaseStepTypeOK ==
    /\ dispatcherQueue \in Seq(RequestsOf(DispatcherActions))
    /\ dbQueue \in Seq(RequestsOf(DatabaseActions))
    /\ deviceQueue \in [Devices -> Seq(RequestsOf(DeviceActions))]
    /\ state \in [Devices -> States]
    /\ ManagerTypeOK
    /\ DatabaseTypeOK

LEMMA DatabaseHeadType ==
    ASSUME BaseTypeOK, dbQueue # <<>>
    PROVE  /\ Tail(dbQueue) \in Seq(RequestsOf(DatabaseActions))
           /\ Head(dbQueue).client \in Clients
           /\ Head(dbQueue).device \in Devices \cup {NoDevice}
           /\ Head(dbQueue).session \in Hashes \cup {NoHash}
           /\ Head(dbQueue).payload \in Hashes \cup {NoHash}
           /\ Head(dbQueue).action = "AddDevice" => Head(dbQueue).device \in Devices
<1>1. Head(dbQueue) \in RequestsOf(DatabaseActions)
  BY PopType DEF BaseTypeOK
<1>2. QED
  BY <1>1, FieldsType, PopType DEF BaseTypeOK

LEMMA NoRows == IsFiniteSet({})
BY FS_EmptySet

LEMMA NewKeyType ==
    ASSUME NEW rows, \A r \in rows : r.id \in Nat, NEW serial \in Nat, NEW k \in NewKeys(rows, serial)
    PROVE  k \in Nat
BY DEF NewKeys

\* Deleting rows keeps the types of the tables.
LEMMA DataWithoutType ==
    ASSUME DatabaseTypeOK, NEW gone
    PROVE  /\ DataWithout(gone) \subseteq DataRows
           /\ sessions \ gone \subseteq SessionRows
           /\ IsFiniteSet(sessions \ gone)
BY FS_Difference DEF DatabaseTypeOK, DataWithout

LEMMA doInitDatabaseType ==
    ASSUME TypeOK, DB_doInitDatabase
    PROVE  DatabaseStepTypeOK'
<1> USE DEF TypeOK
<1>1. PICK dropped, created \in QueryOutcomes :
         /\ tables' = (created \/ (tables /\ ~(Head(dbQueue).arg = "forced" /\ dropped)))
         /\ IF Head(dbQueue).arg = "forced" /\ dropped
            THEN /\ devices' = {}
                 /\ sessions' = {}
                 /\ data' = {}
                 /\ deviceSerial' = 0
                 /\ sessionSerial' = 0
            ELSE UNCHANGED <<devices, sessions, data, deviceSerial, sessionSerial>>
         /\ Reply(Head(dbQueue).client, IF created THEN "Okay" ELSE "Error")
  BY DEF DB_doInitDatabase
<1>2. /\ dbQueue # <<>>
      /\ dbQueue' = Tail(dbQueue)
      /\ UNCHANGED <<deviceQueue, state, managed>>
  BY DEF DB_doInitDatabase, DatabaseHandles
<1>3. tables' \in BOOLEAN
  BY <1>1
<1>4. /\ devices' \subseteq DeviceRows
      /\ sessions' \subseteq SessionRows
      /\ IsFiniteSet(sessions')
      /\ data' \subseteq DataRows
      /\ deviceSerial' \in Nat
      /\ sessionSerial' \in Nat
  <2>1. CASE /\ devices' = {}
             /\ sessions' = {}
             /\ data' = {}
             /\ deviceSerial' = 0
             /\ sessionSerial' = 0
    BY <2>1, NoRows
  <2>2. CASE UNCHANGED <<devices, sessions, data, deviceSerial, sessionSerial>>
    BY <2>2 DEF DatabaseTypeOK
  <2>3. QED
    BY <1>1, <2>1, <2>2
<1>5. dispatcherQueue' \in Seq(RequestsOf(DispatcherActions))
  <2>1. Head(dbQueue).client \in Clients
    BY <1>2, DatabaseHeadType
  <2>2. (IF created THEN "Okay" ELSE "Error") \in {"Okay", "Error"}
    OBVIOUS
  <2>3. QED
    BY <1>1, <2>1, <2>2, ReplyType DEF BaseTypeOK
<1>6. QED
  BY <1>2, <1>3, <1>4, <1>5, DatabaseHeadType
  DEF DatabaseStepTypeOK, BaseTypeOK, DeviceTypeOK, ManagerTypeOK, DatabaseTypeOK

LEMMA addDevicesType ==
    ASSUME TypeOK, NEW loaded \in SUBSET Devices, addDevices(loaded)
    PROVE  managed' \subseteq Devices /\ state' \in [Devices -> States]
BY DEF TypeOK, DeviceTypeOK, ManagerTypeOK, addDevices, States

LEMMA doLoadDevicesType ==
    ASSUME TypeOK, DB_doLoadDevices
    PROVE  DatabaseStepTypeOK'
<1> USE DEF TypeOK
<1>1. managed' \subseteq Devices /\ state' \in [Devices -> States]
  <2>1. {r.device : r \in devices} \in SUBSET Devices
    BY DEF DatabaseTypeOK, DeviceRows
  <2>2. CASE addDevices({r.device : r \in devices})
    BY <2>1, <2>2, addDevicesType
  <2>3. CASE UNCHANGED <<managed, state>>
    BY <2>3 DEF DeviceTypeOK, ManagerTypeOK
  <2>4. QED
    BY <2>2, <2>3 DEF DB_doLoadDevices
<1>2. /\ dbQueue # <<>>
      /\ dbQueue' = Tail(dbQueue)
      /\ UNCHANGED <<dispatcherQueue, deviceQueue, dbVars>>
  BY DEF DB_doLoadDevices, DatabaseHandles
<1>3. QED
  BY <1>1, <1>2, DatabaseHeadType
  DEF DatabaseStepTypeOK, BaseTypeOK, ManagerTypeOK, DatabaseTypeOK, dbVars

LEMMA EndRequestsType ==
    ASSUME DatabaseTypeOK, NEW rows \in Bijection(1..Cardinality(OpenSessions), OpenSessions)
    PROVE  EndRequests(rows) \in Seq(RequestsOf(DatabaseActions))
<1>1. Cardinality(OpenSessions) \in Nat
  BY FS_Subset, FS_CardinalityType DEF DatabaseTypeOK, OpenSessions
<1>2. rows \in [1..Cardinality(OpenSessions) -> OpenSessions]
  BY DEF Bijection, Injection
<1>3. \A i \in 1..Cardinality(OpenSessions) : rows[i].hash \in Hashes \cup {NoHash}
  BY <1>2 DEF DatabaseTypeOK, SessionRows, OpenSessions
<1>4. \A i \in 1..Cardinality(OpenSessions) :
        Request("EndSession", NoClient, NoDevice, rows[i].hash) \in RequestsOf(DatabaseActions)
  BY <1>3, EndSessionType
<1>5. QED
  BY <1>1, <1>2, <1>4 DEF EndRequests

LEMMA doCleanSessionsType ==
    ASSUME TypeOK, DB_doCleanSessions
    PROVE  DatabaseStepTypeOK'
<1> USE DEF TypeOK
<1>1. /\ dbQueue # <<>>
      /\ UNCHANGED <<dispatcherQueue, deviceQueue, state, managed, dbVars>>
  BY DEF DB_doCleanSessions, DatabaseHandles
<1>2. dbQueue' \in Seq(RequestsOf(DatabaseActions))
  <2>1. Tail(dbQueue) \in Seq(RequestsOf(DatabaseActions))
    BY <1>1, DatabaseHeadType
  <2>2. CASE dbQueue' = Tail(dbQueue)
    BY <2>1, <2>2
  <2>3. ASSUME NEW rows \in Bijection(1..Cardinality(OpenSessions), OpenSessions),
               dbQueue' = Tail(dbQueue) \o EndRequests(rows)
        PROVE  dbQueue' \in Seq(RequestsOf(DatabaseActions))
    BY <2>1, <2>3, EndRequestsType
  <2>4. QED
    BY <2>2, <2>3 DEF DB_doCleanSessions
<1>3. QED
  BY <1>1, <1>2
  DEF DatabaseStepTypeOK, BaseTypeOK, DeviceTypeOK, ManagerTypeOK, DatabaseTypeOK, dbVars

LEMMA ListType ==
    ASSUME TypeOK, DB_doGetDevices \/ DB_doGetSessions \/ DB_doCheckDatabase
    PROVE  DatabaseStepTypeOK'
<1> USE DEF TypeOK
<1>1. /\ dbQueue # <<>>
      /\ dbQueue' = Tail(dbQueue)
      /\ UNCHANGED <<deviceQueue, state, managed, dbVars>>
  BY DEF DB_doGetDevices, DB_doGetSessions, DB_doCheckDatabase, DatabaseHandles
<1>2. dispatcherQueue' = dispatcherQueue
      \/ \E s \in {"Okay", "Error"} : Reply(Head(dbQueue).client, s)
  BY DEF DB_doGetDevices, DB_doGetSessions, DB_doCheckDatabase
<1>3. dispatcherQueue' \in Seq(RequestsOf(DispatcherActions))
  BY <1>1, <1>2, DatabaseHeadType, ReplyType DEF BaseTypeOK
<1>4. QED
  BY <1>1, <1>3, DatabaseHeadType
  DEF DatabaseStepTypeOK, BaseTypeOK, DeviceTypeOK, ManagerTypeOK, DatabaseTypeOK, dbVars

LEMMA InsertDeviceType ==
    ASSUME DatabaseTypeOK, NEW d \in Devices, NEW rows \in SUBSET devices, InsertDevice(d, rows)
    PROVE  devices' \subseteq DeviceRows /\ deviceSerial' \in Nat
<1>1. PICK k \in NewKeys(rows, deviceSerial) :
         /\ devices' = rows \cup {[id |-> k, device |-> d]}
         /\ deviceSerial' = IF Backend = "pqsql" THEN k ELSE deviceSerial
  BY DEF InsertDevice
<1>2. k \in Nat
  <2>1. \A r \in rows : r.id \in Nat
    BY DEF DatabaseTypeOK, DeviceRows
  <2>2. QED
    BY <2>1, NewKeyType DEF DatabaseTypeOK
<1>3. QED
  BY <1>1, <1>2 DEF DatabaseTypeOK, DeviceRows

LEMMA doAddDeviceType ==
    ASSUME TypeOK, DB_doAddDevice
    PROVE  DatabaseStepTypeOK'
<1> USE DEF TypeOK
<1> DEFINE rq == Head(dbQueue)
           d == rq.device
           forced == rq.arg = "forced"
<1>1. PICK checked, removed, added \in QueryOutcomes :
         LET removes == Runs(checked) /\ forced /\ removed
             adds == DeviceAdded(forced, HasDevice(d), Runs(checked), removed, added)
         IN
         /\ IF removes
            THEN /\ sessions' = sessions \ CascadeOf(d)
                 /\ data' = DataWithout(CascadeOf(d))
            ELSE UNCHANGED <<sessions, data>>
         /\ LET left == IF removes THEN devices \ DevicesOf(d) ELSE devices
            IN  IF adds THEN InsertDevice(d, left) ELSE devices' = left /\ UNCHANGED deviceSerial
         /\ Reply(rq.client, IF adds THEN "Okay" ELSE "Error")
         /\ dbQueue' = Tail(dbQueue) \o (IF adds THEN <<loadDevices>> ELSE <<>>)
  BY DEF DB_doAddDevice
<1> DEFINE removes == Runs(checked) /\ forced /\ removed
           adds == DeviceAdded(forced, HasDevice(d), Runs(checked), removed, added)
           left == IF removes THEN devices \ DevicesOf(d) ELSE devices
<1>2. /\ dbQueue # <<>>
      /\ UNCHANGED <<deviceQueue, state, managed, tables, sessionSerial>>
  BY DEF DB_doAddDevice, DatabaseHandles
<1>3. sessions' \subseteq SessionRows /\ IsFiniteSet(sessions') /\ data' \subseteq DataRows
  BY <1>1, DataWithoutType DEF DatabaseTypeOK
<1>4. devices' \subseteq DeviceRows /\ deviceSerial' \in Nat
  <2>1. left \in SUBSET devices
    OBVIOUS
  <2>2. CASE InsertDevice(d, left)
    <3>1. d \in Devices
      BY <1>2, DatabaseHeadType DEF DB_doAddDevice, DatabaseHandles
    <3>2. QED
      BY <2>1, <2>2, <3>1, InsertDeviceType
  <2>3. CASE devices' = left /\ UNCHANGED deviceSerial
    BY <2>1, <2>3 DEF DatabaseTypeOK
  <2>4. QED
    BY <1>1, <2>2, <2>3
<1>5. dispatcherQueue' \in Seq(RequestsOf(DispatcherActions))
  <2>1. Head(dbQueue).client \in Clients
    BY <1>2, DatabaseHeadType
  <2>2. (IF adds THEN "Okay" ELSE "Error") \in {"Okay", "Error"}
    OBVIOUS
  <2>3. Reply(rq.client, IF adds THEN "Okay" ELSE "Error")
    BY <1>1
  <2>4. QED
    BY <2>1, <2>2, <2>3, ReplyType DEF BaseTypeOK
<1>6. dbQueue' \in Seq(RequestsOf(DatabaseActions))
  <2>1. "LoadDevices" \in DatabaseActions
    BY DEF DatabaseActions
  <2>2. loadDevices \in RequestsOf(DatabaseActions)
    BY <2>1, InternalType DEF loadDevices
  <2>3. Tail(dbQueue) \in Seq(RequestsOf(DatabaseActions))
    BY <1>2, DatabaseHeadType
  <2>4. (IF adds THEN <<loadDevices>> ELSE <<>>) \in Seq(RequestsOf(DatabaseActions))
    BY <2>2
  <2>5. dbQueue' = Tail(dbQueue) \o (IF adds THEN <<loadDevices>> ELSE <<>>)
    BY <1>1
  <2>6. QED
    BY <2>3, <2>4, <2>5
<1>7. QED
  BY <1>2, <1>3, <1>4, <1>5, <1>6
  DEF DatabaseStepTypeOK, BaseTypeOK, DeviceTypeOK, ManagerTypeOK, DatabaseTypeOK

LEMMA doRemoveType ==
    ASSUME TypeOK, DB_doRemoveDevice \/ DB_doRemSession
    PROVE  DatabaseStepTypeOK'
<1> USE DEF TypeOK
<1>1. /\ dbQueue # <<>>
      /\ dbQueue' = Tail(dbQueue)
      /\ UNCHANGED <<deviceQueue, state, managed, tables, deviceSerial, sessionSerial>>
  BY DEF DB_doRemoveDevice, DB_doRemSession, DatabaseHandles
<1>2. /\ devices' \subseteq DeviceRows
      /\ sessions' \subseteq SessionRows
      /\ IsFiniteSet(sessions')
      /\ data' \subseteq DataRows
  <2>1. (\E gone : sessions' = sessions \ gone /\ data' = DataWithout(gone))
        \/ UNCHANGED <<sessions, data>>
    BY DEF DB_doRemoveDevice, DB_doRemSession, RemDevices, RemSessions
  <2>2. devices' \subseteq devices
    BY DEF DB_doRemoveDevice, DB_doRemSession, RemDevices
  <2>3. QED
    BY <2>1, <2>2, DataWithoutType DEF DatabaseTypeOK
<1>3. dispatcherQueue' \in Seq(RequestsOf(DispatcherActions))
  <2>1. \E s \in {"Okay", "Error"} : Reply(Head(dbQueue).client, s)
    BY DEF DB_doRemoveDevice, DB_doRemSession
  <2>2. QED
    BY <1>1, <2>1, DatabaseHeadType, ReplyType DEF BaseTypeOK
<1>4. QED
  BY <1>1, <1>2, <1>3, DatabaseHeadType
  DEF DatabaseStepTypeOK, BaseTypeOK, DeviceTypeOK, ManagerTypeOK, DatabaseTypeOK

LEMMA doAddSessionType ==
    ASSUME TypeOK, DB_doAddSession
    PROVE  DatabaseStepTypeOK'
<1> USE DEF TypeOK
<1> DEFINE rq == Head(dbQueue)
<1>1. /\ dbQueue # <<>>
      /\ dbQueue' = Tail(dbQueue)
      /\ UNCHANGED <<dispatcherQueue, deviceQueue, state, managed, tables, devices, deviceSerial>>
  BY DEF DB_doAddSession, DatabaseHandles
<1>2. PICK gone, ok : data' = DataWithout(gone)
                      /\ InsertSession(rq.session, rq.device, sessions \ gone, ok)
  BY DEF DB_doAddSession
<1>3. /\ data' \subseteq DataRows
      /\ sessions \ gone \subseteq SessionRows
      /\ IsFiniteSet(sessions \ gone)
  BY <1>2, DataWithoutType
<1>4. sessions' \subseteq SessionRows /\ IsFiniteSet(sessions') /\ sessionSerial' \in Nat
  <2>1. CASE sessions' = sessions \ gone /\ UNCHANGED sessionSerial
    BY <1>3, <2>1 DEF DatabaseTypeOK
  <2>2. ASSUME NEW k \in NewKeys(sessions \ gone, sessionSerial),
               NEW r \in SubSelect(DevicesOf(rq.device)),
               sessions' = (sessions \ gone) \cup
                   {[id |-> k, hash |-> rq.session, device |-> r.id,
                     ended |-> FALSE, started |-> epoch]},
               sessionSerial' = IF Backend = "pqsql" THEN k ELSE sessionSerial
        PROVE  sessions' \subseteq SessionRows /\ IsFiniteSet(sessions') /\ sessionSerial' \in Nat
    <3>1. k \in Nat
      <4>1. \A x \in sessions \ gone : x.id \in Nat
        BY <1>3 DEF SessionRows
      <4>2. QED
        BY <2>2, <4>1, NewKeyType DEF DatabaseTypeOK
    <3>2. r.id \in Nat
      BY <2>2 DEF SubSelect, DevicesOf, DatabaseTypeOK, DeviceRows
    <3>3. rq.session \in Hashes \cup {NoHash}
      BY <1>1, DatabaseHeadType
    <3>4. [id |-> k, hash |-> rq.session, device |-> r.id,
           ended |-> FALSE, started |-> epoch] \in SessionRows
      BY <3>1, <3>2, <3>3 DEF SessionRows, BaseTypeOK
    <3>5. QED
      BY <1>3, <2>2, <3>1, <3>4, FS_AddElement DEF DatabaseTypeOK
  <2>3. QED
    BY <1>2, <2>1, <2>2 DEF InsertSession
<1>5. QED
  BY <1>1, <1>3, <1>4, DatabaseHeadType
  DEF DatabaseStepTypeOK, BaseTypeOK, DeviceTypeOK, ManagerTypeOK, DatabaseTypeOK

LEMMA EndedType ==
    ASSUME DatabaseTypeOK, NEW h
    PROVE  LET ended == {[r EXCEPT !.ended = TRUE] : r \in SessionsOf(h)}
           IN  ended \subseteq SessionRows /\ IsFiniteSet(ended)
<1> DEFINE ended == {[r EXCEPT !.ended = TRUE] : r \in SessionsOf(h)}
           f == [r \in SessionsOf(h) |-> [r EXCEPT !.ended = TRUE]]
<1>1. ended \subseteq SessionRows
  <2>1. ASSUME NEW r \in SessionRows
        PROVE  [r EXCEPT !.ended = TRUE] \in SessionRows
    BY DEF SessionRows
  <2>2. SessionsOf(h) \subseteq SessionRows
    BY DEF DatabaseTypeOK, SessionsOf
  <2>3. QED
    BY <2>1, <2>2
<1>2. IsFiniteSet(SessionsOf(h))
  BY FS_Subset DEF DatabaseTypeOK, SessionsOf
<1>3. f \in Surjection(SessionsOf(h), ended)
  BY DEF Surjection
<1>4. QED
  BY <1>1, <1>2, <1>3, FS_Surjection

LEMMA doEndSessionType ==
    ASSUME TypeOK, DB_doEndSession
    PROVE  DatabaseStepTypeOK'
<1> USE DEF TypeOK
<1> DEFINE h == Head(dbQueue).session
           ended == {[r EXCEPT !.ended = TRUE] : r \in SessionsOf(h)}
<1>1. /\ dbQueue # <<>>
      /\ dbQueue' = Tail(dbQueue)
      /\ UNCHANGED <<dispatcherQueue, deviceQueue, state, managed,
                     tables, devices, data, deviceSerial, sessionSerial>>
  BY DEF DB_doEndSession, DatabaseHandles
<1>2. sessions' = sessions \/ sessions' = (sessions \ SessionsOf(h)) \cup ended
  BY DEF DB_doEndSession
<1>3. sessions' \subseteq SessionRows /\ IsFiniteSet(sessions')
  <2>1. ended \subseteq SessionRows /\ IsFiniteSet(ended)
    BY EndedType
  <2>2. IsFiniteSet(sessions \ SessionsOf(h)) /\ sessions \ SessionsOf(h) \subseteq SessionRows
    BY DataWithoutType
  <2>3. IsFiniteSet((sessions \ SessionsOf(h)) \cup ended)
    BY <2>1, <2>2, FS_Union
  <2>4. QED
    BY <1>2, <2>1, <2>2, <2>3 DEF DatabaseTypeOK
<1>4. QED
  BY <1>1, <1>3, DatabaseHeadType
  DEF DatabaseStepTypeOK, BaseTypeOK, DeviceTypeOK, ManagerTypeOK, DatabaseTypeOK

LEMMA SubSelectRows ==
    ASSUME NEW rows
    PROVE  SubSelect(rows) \subseteq rows
BY DEF SubSelect

LEMMA doAddDataType ==
    ASSUME TypeOK, DB_doAddData
    PROVE  DatabaseStepTypeOK'
<1> USE DEF TypeOK
<1> DEFINE rq == Head(dbQueue)
           target == SubSelect(SessionsOf(rq.session) \cap OpenSessions)
<1>1. /\ dbQueue # <<>>
      /\ dbQueue' = Tail(dbQueue)
      /\ UNCHANGED <<dispatcherQueue, deviceQueue, state, managed,
                     tables, devices, sessions, deviceSerial, sessionSerial>>
  BY DEF DB_doAddData, DatabaseHandles
<1>2. data' = data \/ \E r \in target : data' = data \cup {[session |-> r.id, payload |-> rq.payload]}
  BY DEF DB_doAddData
<1>3. \A r \in target : r.id \in Nat
  <2>1. target \subseteq sessions
    BY SubSelectRows DEF SessionsOf
  <2>2. QED
    BY <2>1 DEF DatabaseTypeOK, SessionRows
<1>4. rq.payload \in Hashes \cup {NoHash}
  BY <1>1, DatabaseHeadType
<1>5. data' \subseteq DataRows
  <2>1. CASE data' = data
    BY <2>1 DEF DatabaseTypeOK
  <2>2. ASSUME NEW r \in target, data' = data \cup {[session |-> r.id, payload |-> rq.payload]}
        PROVE  data' \subseteq DataRows
    <3>1. [session |-> r.id, payload |-> rq.payload] \in DataRows
      BY <1>3, <1>4 DEF DataRows
    <3>2. QED
      BY <2>2, <3>1 DEF DatabaseTypeOK
  <2>3. QED
    BY <1>2, <2>1, <2>2
<1>6. QED
  BY <1>1, <1>5, DatabaseHeadType
  DEF DatabaseStepTypeOK, BaseTypeOK, DeviceTypeOK, ManagerTypeOK, DatabaseTypeOK

\* Every handler of the database keeps the types.
LEMMA DatabaseHandlerType ==
    ASSUME TypeOK, DatabaseHandler
    PROVE  DatabaseStepTypeOK'
BY ListType, doInitDatabaseType, doLoadDevicesType, doCleanSessionsType, doAddDeviceType,
   doRemoveType, doAddSessionType, doEndSessionType, doAddDataType
DEF DatabaseHandler

-----------------------------------------------------------------------------
(* The dispatcher and the clients.                                         *)

DispatcherStepTypeOK == QueueTypeOK /\ DispatcherTypeOK

LEMMA DispatcherHeadType ==
    ASSUME BaseTypeOK, dispatcherQueue # <<>>
    PROVE  /\ Tail(dispatcherQueue) \in Seq(RequestsOf(DispatcherActions))
           /\ Head(dispatcherQueue) \in RequestsOf(DispatcherActions)
BY PopType DEF BaseTypeOK

LEMMA toDatabaseType ==
    ASSUME TypeOK, Dispatcher_toDatabase
    PROVE  DispatcherStepTypeOK'
<1> USE DEF TypeOK
<1> DEFINE rq == Head(dispatcherQueue)
<1>1. PICK a \in {"InitDatabase", "GetDevices", "GetSessions", "RemoveSession", "AddDevice", "RemoveDevice"} :
         /\ dispatcherQueue # <<>>
         /\ rq.action = a
         /\ dbQueue' = Append(dbQueue, [rq EXCEPT !.action = DatabaseAction(a)])
  BY DEF Dispatcher_toDatabase, DispatcherHandles
<1>2. DatabaseAction(a) \in DatabaseActions /\ DatabaseAction(a) # "SendStatus"
  BY DEF DatabaseAction, DatabaseActions
<1>3. DatabaseAction(a) = "AddDevice" => rq.device \in Devices
  <2>1. DatabaseAction(a) = "AddDevice" => a = "AddDevice"
    BY DEF DatabaseAction
  <2>2. QED
    BY <1>1, <2>1, DispatcherHeadType, FieldsType
<1>4. [rq EXCEPT !.action = DatabaseAction(a)] \in RequestsOf(DatabaseActions)
  BY <1>1, <1>2, <1>3, DispatcherHeadType, ActionType
<1>5. dbQueue' \in Seq(RequestsOf(DatabaseActions))
  BY <1>1, <1>4 DEF BaseTypeOK
<1>6. dispatcherQueue' \in Seq(RequestsOf(DispatcherActions))
  BY <1>1, DispatcherHeadType DEF Dispatcher_toDatabase
<1>7. UNCHANGED <<deviceQueue, process, clientVars>>
  BY DEF Dispatcher_toDatabase
<1>8. QED
  BY <1>5, <1>6, <1>7
  DEF DispatcherStepTypeOK, QueueTypeOK, ProcessStates, DispatcherTypeOK, BaseTypeOK, clientVars

LEMMA toDeviceType ==
    ASSUME TypeOK, Dispatcher_toDevice
    PROVE  DispatcherStepTypeOK'
<1> USE DEF TypeOK
<1> DEFINE rq == Head(dispatcherQueue)
<1>1. PICK a \in {"ConnectDevice", "DisconnectDevice", "StartCollecting", "StopCollecting"} :
         /\ dispatcherQueue # <<>>
         /\ IF Manages(rq.device)
            THEN /\ deviceQueue' = [deviceQueue EXCEPT ![rq.device] =
                                      Append(@, [rq EXCEPT !.action = DeviceAction(a)])]
                 /\ dispatcherQueue' = Tail(dispatcherQueue)
            ELSE /\ dispatcherQueue' = Append(Tail(dispatcherQueue), StatusRequest(rq.client, "Error"))
                 /\ UNCHANGED deviceQueue
  BY DEF Dispatcher_toDevice, DispatcherHandles
<1>2. UNCHANGED <<dbQueue, process, clientVars>>
  BY DEF Dispatcher_toDevice
<1>3. CASE Manages(rq.device)
  <2>1. rq.device \in Devices
    BY <1>3 DEF Manages, ManagerTypeOK
  <2>2. DeviceAction(a) \in DeviceActions /\ DeviceAction(a) \notin {"AddDevice", "SendStatus"}
    BY DEF DeviceAction, DeviceActions
  <2>3. [rq EXCEPT !.action = DeviceAction(a)] \in RequestsOf(DeviceActions)
    BY <1>1, <2>2, DispatcherHeadType, ActionType
  <2>4. deviceQueue' \in [Devices -> Seq(RequestsOf(DeviceActions))]
    <3>1. PICK forwarded \in RequestsOf(DeviceActions) :
             deviceQueue' = [deviceQueue EXCEPT ![rq.device] = Append(@, forwarded)]
      BY <1>1, <1>3, <2>3
    <3>2. QED
      BY <2>1, <3>1 DEF BaseTypeOK
  <2>5. QED
    BY <1>1, <1>2, <1>3, <2>4, DispatcherHeadType
    DEF DispatcherStepTypeOK, QueueTypeOK, ProcessStates, DispatcherTypeOK, BaseTypeOK, clientVars
<1>4. CASE ~Manages(rq.device)
  <2>1. StatusRequest(rq.client, "Error") \in RequestsOf(DispatcherActions)
    BY <1>1, DispatcherHeadType, FieldsType, StatusRequestType
  <2>2. dispatcherQueue' \in Seq(RequestsOf(DispatcherActions))
    BY <1>1, <1>4, <2>1, DispatcherHeadType
  <2>3. QED
    BY <1>1, <1>2, <1>4, <2>2
    DEF DispatcherStepTypeOK, QueueTypeOK, ProcessStates, DispatcherTypeOK, BaseTypeOK, clientVars
<1>5. QED
  BY <1>3, <1>4

LEMMA doSendStatusType ==
    ASSUME TypeOK, Dispatcher_doSendStatus
    PROVE  DispatcherStepTypeOK'
<1> USE DEF TypeOK
<1> DEFINE rq == Head(dispatcherQueue)
<1>1. /\ dispatcherQueue # <<>>
      /\ rq.action = "SendStatus"
      /\ dispatcherQueue' = Tail(dispatcherQueue)
      /\ UNCHANGED <<dbQueue, deviceQueue, process, requested>>
  BY DEF Dispatcher_doSendStatus, DispatcherHandles
<1>2. rq.client \in Clients /\ rq.arg \in {"Okay", "Error"}
  BY <1>1, DispatcherHeadType, FieldsType
<1>3. replies' \in [RequestIds -> Seq({"Okay", "Error"})]
  <2>1. CASE rq.client = NoClient
    BY <2>1 DEF Dispatcher_doSendStatus, DispatcherTypeOK
  <2>2. CASE rq.client # NoClient
    <3>1. rq.client \in RequestIds
      BY <1>2, <2>2 DEF Clients, RequestIds, NoClient
    <3>2. PICK status \in {"Okay", "Error"} : replies' = [replies EXCEPT ![rq.client] = Append(@, status)]
      BY <1>2, <2>2 DEF Dispatcher_doSendStatus
    <3>3. QED
      BY <3>1, <3>2 DEF DispatcherTypeOK
  <2>3. QED
    BY <2>1, <2>2
<1>4. QED
  BY <1>1, <1>3, DispatcherHeadType
  DEF DispatcherStepTypeOK, QueueTypeOK, ProcessStates, DispatcherTypeOK, BaseTypeOK

\* Every handler of the dispatcher keeps the types.
LEMMA DispatcherHandlerType ==
    ASSUME TypeOK, DispatcherHandler
    PROVE  DispatcherStepTypeOK'
<1> USE DEF TypeOK
<1>1. CASE Dispatcher_doQuitCollector
  <2>1. "Quit" \in DispatcherActions
    BY DEF DispatcherActions
  <2>2. Internal("Quit") \in RequestsOf(DispatcherActions)
    BY <2>1, InternalType
  <2>3. dispatcherQueue' \in Seq(RequestsOf(DispatcherActions))
    BY <1>1, <2>2, DispatcherHeadType DEF Dispatcher_doQuitCollector, DispatcherHandles
  <2>4. QED
    BY <1>1, <2>3
    DEF Dispatcher_doQuitCollector, DispatcherStepTypeOK, QueueTypeOK, ProcessStates,
        DispatcherTypeOK, BaseTypeOK, clientVars
<1>2. CASE Dispatcher_doQuit
  BY <1>2
  DEF Dispatcher_doQuit, DispatcherStepTypeOK, QueueTypeOK, ProcessStates,
      DispatcherTypeOK, BaseTypeOK, clientVars, queueVars
<1>3. QED
  BY <1>1, <1>2, toDatabaseType, toDeviceType, doSendStatusType DEF DispatcherHandler

LEMMA ClientRequestType ==
    ASSUME NEW c \in Clients, NEW rq \in Plain(c) \cup OnDatabase(c) \cup OnDevice(c)
    PROVE  rq \in RequestFields(DispatcherActions)
           /\ rq.action # "SendStatus" /\ (rq.action = "AddDevice" => rq.device \in Devices)
<1> USE DEF RequestFields, Request, DispatcherActions, Args
<1>1. CASE rq \in Plain(c)
  BY <1>1 DEF Plain
<1>2. CASE rq \in OnDevice(c)
  BY <1>2 DEF OnDevice
<1>3. CASE rq \in OnDatabase(c)
  <2>1. CASE rq \in MaybeForced(Request("InitDatabase", c, NoDevice, NoHash))
    BY <2>1 DEF MaybeForced
  <2>2. CASE \E d \in Devices : rq \in MaybeForced(Request("AddDevice", c, d, NoHash))
    BY <2>2 DEF MaybeForced
  <2>3. CASE rq \in {Request("RemoveDevice", c, d, NoHash) : d \in Devices}
    BY <2>3
  <2>4. CASE rq \in {Request("RemoveSession", c, NoDevice, h) : h \in Hashes}
    BY <2>4
  <2>5. CASE rq \in {Request("GetSessions", c, d, NoHash) : d \in Devices \cup {NoDevice}}
    BY <2>5
  <2>6. QED
    BY <1>3, <2>1, <2>2, <2>3, <2>4, <2>5 DEF OnDatabase
<1>4. QED
  BY <1>1, <1>2, <1>3

LEMMA ClientEventType ==
    ASSUME TypeOK, ClientEvent
    PROVE  /\ dispatcherQueue' \in Seq(RequestsOf(DispatcherActions))
           /\ requested' \in 0..MaxRequests
<1> USE DEF TypeOK
<1>1. requested' \in 0..MaxRequests
  BY DEF ClientEvent, ControlClient_request, ControlClient_doRequestSession, DispatcherTypeOK
<1>2. PICK c \in Clients : c = requested'
  BY <1>1 DEF Clients
<1>3. CASE ControlClient_request
  <2>1. PICK rq \in Plain(c) \cup OnDatabase(c) \cup OnDevice(c) :
           dispatcherQueue' = Append(dispatcherQueue, rq)
    BY <1>2, <1>3 DEF ControlClient_request
  <2>2. rq \in RequestsOf(DispatcherActions)
    BY <2>1, ClientRequestType DEF RequestsOf
  <2>3. QED
    BY <1>1, <2>1, <2>2 DEF BaseTypeOK
<1>4. CASE ControlClient_doRequestSession
  <2>1. PICK s \in {"Okay", "Error"} : Reply(c, s)
    BY <1>2, <1>4 DEF ControlClient_doRequestSession
  <2>2. QED
    BY <1>1, <2>1, ReplyType DEF BaseTypeOK
<1>5. QED
  BY <1>1, <1>3, <1>4 DEF ClientEvent

-----------------------------------------------------------------------------
(* Boot and the whole process.                                             *)

LEMMA BootType ==
    ASSUME NEW opened \in BOOLEAN, NEW started \in BOOLEAN, NEW erase \in BOOLEAN
    PROVE  /\ BootDispatcherQueue(opened, started) \in Seq(RequestsOf(DispatcherActions))
           /\ BootDatabaseQueue(opened, erase) \in Seq(RequestsOf(DatabaseActions))
           /\ BootProcess(opened, erase) \in ProcessStates
<1>1. BootDispatcherQueue(opened, started) \in Seq(RequestsOf(DispatcherActions))
  <2>1. "Quit" \in DispatcherActions
    BY DEF DispatcherActions
  <2>2. Internal("Quit") \in RequestsOf(DispatcherActions)
    BY <2>1, InternalType
  <2>3. QED
    BY <2>2 DEF BootDispatcherQueue
<1>2. BootDatabaseQueue(opened, erase) \in Seq(RequestsOf(DatabaseActions))
  <2>1. {"CheckDatabase", "LoadDevices", "CleanSessions", "InitDatabase"} \subseteq DatabaseActions
    BY DEF DatabaseActions
  <2>2. /\ Internal("CheckDatabase") \in RequestsOf(DatabaseActions)
        /\ loadDevices \in RequestsOf(DatabaseActions)
        /\ cleanSessions \in RequestsOf(DatabaseActions)
    BY <2>1, InternalType DEF loadDevices, cleanSessions
  <2>3. [Internal("InitDatabase") EXCEPT !.arg = "forced"] \in RequestsOf(DatabaseActions)
    BY <2>1
    DEF Internal, Request, RequestsOf, RequestFields, Args, Clients, NoClient
  <2>4. QED
    BY <2>2, <2>3 DEF BootDatabaseQueue
<1>3. BootProcess(opened, erase) \in ProcessStates
  BY DEF BootProcess, ProcessStates
<1>4. QED
  BY <1>1, <1>2, <1>3

LEMMA OutcomesType ==
    ASSUME NEW kind
    PROVE  Outcomes(kind) \subseteq BOOLEAN
BY DEF Outcomes

LEMMA DatabaseInitType ==
    ASSUME DatabaseInit
    PROVE  DatabaseTypeOK
<1>1. Cardinality(Provisioned) \in Nat
  BY FS_CardinalityType DEF CollectorAssumption
<1>2. devices \subseteq DeviceRows
  <2>1. CASE devices = {}
    BY <2>1
  <2>2. ASSUME NEW key \in Bijection(Provisioned, 1..Cardinality(Provisioned)),
               devices = {[id |-> key[d], device |-> d] : d \in Provisioned}
        PROVE  devices \subseteq DeviceRows
    <3>1. \A d \in Provisioned : key[d] \in Nat
      BY <1>1, <2>2 DEF Bijection, Injection
    <3>2. QED
      BY <2>2, <3>1 DEF DeviceRows, CollectorAssumption
  <2>3. QED
    BY <2>1, <2>2 DEF DatabaseInit
<1>3. deviceSerial \in Nat
  BY <1>1 DEF DatabaseInit
<1>4. QED
  BY <1>2, <1>3, NoRows DEF DatabaseInit, DatabaseTypeOK

LEMMA InitType == Init => TypeOK
<1> SUFFICES ASSUME Init
             PROVE  TypeOK
  OBVIOUS
<1>1. BaseTypeOK
  <2>1. PICK opened \in Outcomes("boot"), started \in Outcomes("boot"), erase \in Erase :
           /\ dispatcherQueue = BootDispatcherQueue(opened, started)
           /\ dbQueue = BootDatabaseQueue(opened, erase)
           /\ process = BootProcess(opened, erase)
    BY DEF Init
  <2>2. opened \in BOOLEAN /\ started \in BOOLEAN /\ erase \in BOOLEAN
    BY OutcomesType DEF CollectorAssumption
  <2>3. deviceQueue \in [Devices -> Seq(RequestsOf(DeviceActions))] /\ epoch \in Nat
    BY DEF Init
  <2>4. QED
    BY <2>1, <2>2, <2>3, BootType DEF BaseTypeOK, ProcessStates
<1>2. DeviceTypeOK /\ ManagerTypeOK /\ DispatcherTypeOK
  BY DEF Init, DeviceInit, DeviceTypeOK, States, ManagerTypeOK, DispatcherInit, DispatcherTypeOK
<1>3. DatabaseTypeOK
  BY DatabaseInitType DEF Init
<1>4. QED
  BY <1>1, <1>2, <1>3 DEF TypeOK

LEMMA RestartType ==
    ASSUME TypeOK, Restart
    PROVE  TypeOK'
<1>1. BaseTypeOK'
  <2>1. PICK opened \in Outcomes("boot"), started \in Outcomes("boot"), erase \in Erase :
           /\ dispatcherQueue' = BootDispatcherQueue(opened, started)
           /\ dbQueue' = BootDatabaseQueue(opened, erase)
           /\ process' = BootProcess(opened, erase)
    BY DEF Restart
  <2>2. opened \in BOOLEAN /\ started \in BOOLEAN /\ erase \in BOOLEAN
    BY OutcomesType DEF CollectorAssumption
  <2>3. deviceQueue' \in [Devices -> Seq(RequestsOf(DeviceActions))] /\ epoch' \in Nat
    BY DEF Restart, TypeOK, BaseTypeOK
  <2>4. QED
    BY <2>1, <2>2, <2>3, BootType DEF BaseTypeOK, ProcessStates
<1>2. (DeviceTypeOK /\ ManagerTypeOK /\ DispatcherTypeOK)'
  BY DEF Restart, TypeOK, DeviceTypeOK, States, ManagerTypeOK, DispatcherTypeOK
<1>3. DatabaseTypeOK'
  BY DEF Restart, TypeOK, DatabaseTypeOK, dbVars
<1>4. QED
  BY <1>1, <1>2, <1>3 DEF TypeOK

LEMMA NextType == TypeOK /\ [Next]_vars => TypeOK'
<1> SUFFICES ASSUME TypeOK, [Next]_vars
             PROVE  TypeOK'
  OBVIOUS
<1> USE DEF TypeOK
<1>1. ASSUME NEW d \in Devices,
             DeviceStep(d) \/ ConnectionStep(d) \/ FinalizeStep(d) \/ TickStep(d)
      PROVE  TypeOK'
  <2>1. QueueTypeOK' /\ DeviceTypeOK'
    BY <1>1, DeviceHandlerType, ConnectionEventType, FinalizeType, TickType
    DEF DeviceStep, ConnectionStep, FinalizeStep, TickStep
  <2>2. UNCHANGED <<epoch, managed, dbVars, clientVars>>
    BY <1>1 DEF DeviceStep, ConnectionStep, FinalizeStep, TickStep
  <2>3. QED
    BY <2>1, <2>2
    DEF QueueTypeOK, ProcessStates, BaseTypeOK, ManagerTypeOK, DatabaseTypeOK, DispatcherTypeOK,
        dbVars, clientVars
<1>2. CASE DatabaseStep
  <2>1. DatabaseStepTypeOK'
    BY <1>2, DatabaseHandlerType DEF DatabaseStep
  <2>2. UNCHANGED <<processVars, connection, sessionHash, lanes, orphanLanes, monitorVars, clientVars>>
    BY <1>2 DEF DatabaseStep
  <2>3. QED
    BY <2>1, <2>2
    DEF DatabaseStepTypeOK, BaseTypeOK, DeviceTypeOK, DispatcherTypeOK, processVars, monitorVars,
        clientVars
<1>3. CASE DispatcherStep
  <2>1. DispatcherStepTypeOK'
    BY <1>3, DispatcherHandlerType DEF DispatcherStep
  <2>2. UNCHANGED <<epoch, deviceVars, monitorVars, managed, dbVars>>
    BY <1>3 DEF DispatcherStep
  <2>3. QED
    BY <2>1, <2>2
    DEF DispatcherStepTypeOK, QueueTypeOK, ProcessStates, BaseTypeOK, DeviceTypeOK, ManagerTypeOK,
        DatabaseTypeOK, deviceVars, monitorVars, dbVars
<1>4. CASE ClientStep
  <2>1. dispatcherQueue' \in Seq(RequestsOf(DispatcherActions)) /\ requested' \in 0..MaxRequests
    BY <1>4, ClientEventType DEF ClientStep
  <2>2. UNCHANGED <<dbQueue, deviceQueue, replies, processVars, deviceVars, monitorVars, managed, dbVars>>
    BY <1>4 DEF ClientStep, ClientEvent, ControlClient_request, ControlClient_doRequestSession
  <2>3. QED
    BY <2>1, <2>2
    DEF BaseTypeOK, DeviceTypeOK, ManagerTypeOK, DatabaseTypeOK, DispatcherTypeOK,
        processVars, deviceVars, monitorVars, dbVars
<1>5. CASE Terminate
  BY <1>5
  DEF Terminate, BaseTypeOK, DeviceTypeOK, ManagerTypeOK, DatabaseTypeOK, DispatcherTypeOK,
      queueVars, deviceVars, monitorVars, dbVars, clientVars
<1>6. CASE Restart
  BY <1>6, RestartType
<1>7. CASE UNCHANGED vars
  BY <1>7
  DEF vars, BaseTypeOK, DeviceTypeOK, ManagerTypeOK, DatabaseTypeOK, DispatcherTypeOK,
      queueVars, processVars, deviceVars, monitorVars, dbVars, clientVars
<1>8. QED
  BY <1>1, <1>2, <1>3, <1>4, <1>5, <1>6, <1>7 DEF Next

\* Every variable has its type in every reachable state: in particular no queue
\* ever holds a request its handler does not know, a request to add a device
\* names one, and what a client reads is a status.
THEOREM TypeCorrect == Spec => []TypeOK
<1>1. QED
  BY InitType, NextType, PTL DEF Spec

-----------------------------------------------------------------------------
(* A connected device has a connection.                                    *)

LEMMA ConnectedStep ==
    ASSUME TypeOK, ConnectedHasConnection, [Next]_vars
    PROVE  ConnectedHasConnection'
<1> USE DEF ConnectedHasConnection
<1>1. ASSUME NEW d \in Devices, DeviceStep(d)
      PROVE  ConnectedHasConnection'
  <2>1. state \in [Devices -> States] /\ connection \in [Devices -> {"none", "active", "removing"}]
    BY DEF TypeOK, DeviceTypeOK
  <2>2. CASE UNCHANGED <<state, connection>>
    BY <2>2
  <2>3. CASE /\ connection[d] # "none"
             /\ connection' = connection
             /\ \E s \in States : state' = [state EXCEPT ![d] = s]
    BY <2>1, <2>3
  <2>4. CASE /\ connection' = connection
             /\ \E s \in States \ {"Connected"} : state' = [state EXCEPT ![d] = s]
    BY <2>1, <2>4
  <2>5. CASE /\ state' = state
             /\ connection' = [connection EXCEPT ![d] = "active"] \/ connection' = [connection EXCEPT ![d] = "removing"]
    BY <2>1, <2>5
  <2>6. QED
    <3>1. CASE NullDereference
      BY <2>2, <3>1 DEF NullDereference, deviceVars
    <3>2. CASE Device_doConnect(d)
      BY <2>2, <2>4, <2>5, <3>2 DEF Device_doConnect, deviceVars, disconnect, updateState, States
    <3>3. CASE Device_doSendDescriptor(d) /\ ~NullDereference
      BY <2>2, <2>3, <3>3 DEF Device_doSendDescriptor, updateState, States
    <3>4. CASE Device_doRequestSession(d) /\ ~NullDereference
      BY <2>2, <3>4 DEF Device_doRequestSession, deviceVars
    <3>5. CASE Device_doSetSession(d)
      BY <2>4, <3>5 DEF Device_doSetSession, States
    <3>6. CASE Device_doDisconnect(d) /\ ~NullDereference
      BY <2>2, <2>5, <3>6 DEF Device_doDisconnect, deviceVars
    <3>7. CASE Device_doStartStream(d) \/ Device_doStopStream(d)
      BY <2>4, <3>7 DEF Device_doStartStream, Device_doStopStream, States
    <3>8. CASE Device_doStartCollecting(d) \/ Device_doStopCollecting(d)
               \/ Device_doProcessData(d) \/ Device_doStatus(d)
      BY <2>2, <3>8
      DEF Device_doStartCollecting, Device_doStopCollecting, Device_doProcessData, Device_doStatus,
          deviceVars
    <3>9. CASE Device_doConnectUnresolved(d)
      BY <3>1, <3>9 DEF Device_doConnectUnresolved
    <3>10. QED
      BY <1>1, <3>1, <3>2, <3>3, <3>4, <3>5, <3>6, <3>7, <3>8, <3>9 DEF DeviceStep, DeviceHandler
<1>2. ASSUME NEW d \in Devices, ConnectionStep(d)
      PROVE  ConnectedHasConnection'
  <2>1. state' = state
    BY <1>2
    DEF ConnectionStep, ConnectionEvent, Connection_readSetSession, Connection_readData,
        Connection_readStatus, Connection_readFails, deviceVars
  <2>2. connection' = connection \/ connection' = [connection EXCEPT ![d] = "removing"]
    BY <1>2
    DEF ConnectionStep, ConnectionEvent, Connection_readSetSession, Connection_readData,
        Connection_readStatus, Connection_readFails, deviceVars
  <2>3. QED
    BY <2>1, <2>2 DEF TypeOK, DeviceTypeOK
<1>3. ASSUME NEW d \in Devices, FinalizeStep(d)
      PROVE  ConnectedHasConnection'
  <2>1. /\ state' = [state EXCEPT ![d] = "Disconnected"]
        /\ connection' = [connection EXCEPT ![d] = "none"]
    BY <1>3 DEF FinalizeStep, Connection_finalize, disconnect, updateState
  <2>2. QED
    BY <2>1 DEF TypeOK, DeviceTypeOK
<1>4. ASSUME NEW d \in Devices, TickStep(d)
      PROVE  ConnectedHasConnection'
  BY <1>4 DEF TickStep, Lane_tick, NullDereference, deviceVars
<1>5. CASE DatabaseStep
  <2>1. connection' = connection
    BY <1>5 DEF DatabaseStep
  <2>2. \A d \in Devices : state'[d] = state[d] \/ state'[d] = "Loaded"
    <3>1. CASE DB_doLoadDevices
      BY <3>1 DEF DB_doLoadDevices, addDevices
    <3>2. CASE ~DB_doLoadDevices
      BY <1>5, <3>2
      DEF DatabaseStep, DatabaseHandler, DB_doCheckDatabase, DB_doInitDatabase, DB_doCleanSessions,
          DB_doGetDevices, DB_doGetSessions, DB_doAddDevice, DB_doRemoveDevice, DB_doAddSession,
          DB_doRemSession, DB_doEndSession, DB_doAddData
    <3>3. QED
      BY <3>1, <3>2
  <2>3. QED
    BY <2>1, <2>2
<1>6. CASE DispatcherStep \/ ClientStep \/ Terminate \/ UNCHANGED vars
  BY <1>6 DEF DispatcherStep, ClientStep, Terminate, vars, deviceVars
<1>7. CASE Restart
  BY <1>7 DEF Restart
<1>8. QED
  BY <1>1, <1>2, <1>3, <1>4, <1>5, <1>6, <1>7 DEF Next

\* A device never reports Connected without a connection object: whichever of
\* Connect, Disconnect, the descriptor and the finalizer come in which order.
THEOREM ConnectedSafe == Spec => []ConnectedHasConnection
<1>1. Init => ConnectedHasConnection
  BY DEF Init, DeviceInit, ConnectedHasConnection
<1>2. TypeOK /\ ConnectedHasConnection /\ [Next]_vars => ConnectedHasConnection'
  BY ConnectedStep
<1>3. QED
  BY <1>1, <1>2, TypeCorrect, PTL DEF Spec

-----------------------------------------------------------------------------
(* The tables.                                                             *)

LEMMA OnlyDatabaseWrites ==
    ASSUME [Next]_vars, ~DatabaseStep
    PROVE  UNCHANGED dbVars
BY DEF Next, DeviceStep, ConnectionStep, FinalizeStep, TickStep, DispatcherStep, ClientStep,
       Terminate, Restart, vars, dbVars

LEMMA ReliableQueries ==
    ASSUME "query" \notin Faults, NEW ok \in QueryOutcomes
    PROVE  ok = TRUE
BY DEF QueryOutcomes, Outcomes

LEMMA EndedHash ==
    ASSUME TypeOK, NEW h, NEW r \in SessionsOf(h)
    PROVE  [r EXCEPT !.ended = TRUE].hash = h
<1>1. r \in SessionRows /\ r.hash = h
  BY DEF TypeOK, DatabaseTypeOK, SessionsOf
<1>2. QED
  BY <1>1 DEF SessionRows

LEMMA SessionHashStep ==
    ASSUME "query" \notin Faults, TypeOK, SessionHashUnique, [Next]_vars
    PROVE  SessionHashUnique'
<1> USE DEF SessionHashUnique
<1>1. CASE sessions' \subseteq sessions
  BY <1>1
<1>2. CASE DB_doEndSession
  <2> DEFINE h == Head(dbQueue).session
             ended == {[r EXCEPT !.ended = TRUE] : r \in SessionsOf(h)}
  <2>1. sessions' = sessions \/ sessions' = (sessions \ SessionsOf(h)) \cup ended
    BY <1>2 DEF DB_doEndSession
  <2>2. SUFFICES ASSUME sessions' = (sessions \ SessionsOf(h)) \cup ended,
                        NEW r \in sessions', NEW s \in sessions', r.hash = s.hash
                 PROVE  r = s
    BY <1>1, <2>1
  <2>3. ASSUME NEW x \in sessions'
        PROVE  \/ x \in ended /\ x.hash = h
               \/ x \in sessions /\ x.hash # h
    <3>1. CASE x \in ended
      <4>1. PICK y \in SessionsOf(h) : x = [y EXCEPT !.ended = TRUE]
        BY <3>1
      <4>2. QED
        BY <3>1, <4>1, EndedHash
    <3>2. CASE x \in sessions \ SessionsOf(h)
      BY <3>2 DEF SessionsOf
    <3>3. QED
      BY <2>2, <2>3, <3>1, <3>2
  <2>4. CASE r \in ended /\ s \in ended
    BY <2>4 DEF SessionsOf
  <2>5. QED
    BY <2>2, <2>3, <2>4
<1>3. CASE DB_doAddSession
  <2> DEFINE rq == Head(dbQueue)
  <2>1. PICK checked, removed, added \in QueryOutcomes :
           LET gone == IF Runs(checked) /\ removed THEN Colliding(rq.session) ELSE {}
           IN  InsertSession(rq.session, rq.device, sessions \ gone, added)
    BY <1>3 DEF DB_doAddSession
  <2>2. checked = TRUE /\ removed = TRUE /\ added = TRUE
    BY ReliableQueries
  <2>3. CASE ~tables
    BY <2>1, <2>2, <2>3, <1>1 DEF InsertSession, Runs
  <2>4. CASE tables
    <3> DEFINE left == sessions \ SessionsOf(rq.session)
    <3>1. InsertSession(rq.session, rq.device, left, TRUE)
      BY <2>1, <2>2, <2>4 DEF Runs, Colliding
    <3>2. sessions' = left \/ \E x : x.hash = rq.session /\ sessions' = left \cup {x}
      BY <3>1 DEF InsertSession
    <3>3. \A r \in left : r.hash # rq.session
      BY DEF SessionsOf
    <3>4. QED
      BY <3>2, <3>3
  <2>5. QED
    BY <2>3, <2>4
<1>4. CASE DatabaseStep /\ ~DB_doEndSession /\ ~DB_doAddSession
  BY <1>1, <1>4
  DEF DatabaseStep, DatabaseHandler, DB_doCheckDatabase, DB_doInitDatabase, DB_doLoadDevices,
      DB_doCleanSessions, DB_doGetDevices, DB_doGetSessions, DB_doAddDevice, DB_doRemoveDevice,
      DB_doRemSession, DB_doAddData, RemDevices, RemSessions, dbVars
<1>5. CASE ~DatabaseStep
  BY <1>1, <1>5, OnlyDatabaseWrites DEF dbVars
<1>6. QED
  BY <1>2, <1>3, <1>4, <1>5

\* However a monitor repeats its hashes and whatever the process dies of, the
\* sessions table never has two rows for one session hash, when queries succeed.
THEOREM SessionHashSafe ==
    ASSUME "query" \notin Faults
    PROVE  Spec => []SessionHashUnique
<1>1. Init => SessionHashUnique
  BY DEF Init, DatabaseInit, SessionHashUnique
<1>2. TypeOK /\ SessionHashUnique /\ [Next]_vars => SessionHashUnique'
  BY SessionHashStep
<1>3. QED
  BY <1>1, <1>2, TypeCorrect, PTL DEF Spec

LEMMA DeviceRowStep ==
    ASSUME Backend = "pqsql" \/ "query" \notin Faults, DeviceRowUnique, [Next]_vars
    PROVE  DeviceRowUnique'
<1> USE DEF DeviceRowUnique
<1>1. CASE devices' \subseteq devices
  BY <1>1
<1>2. CASE DB_doAddDevice
  <2> DEFINE d == Head(dbQueue).device
             forced == Head(dbQueue).arg = "forced"
  <2>1. PICK checked, removed, added \in QueryOutcomes :
           LET removes == Runs(checked) /\ forced /\ removed
               adds == DeviceAdded(forced, HasDevice(d), Runs(checked), removed, added)
               left == IF removes THEN devices \ DevicesOf(d) ELSE devices
           IN  IF adds THEN InsertDevice(d, left) ELSE devices' = left /\ UNCHANGED deviceSerial
    BY <1>2 DEF DB_doAddDevice
  <2> DEFINE removes == Runs(checked) /\ forced /\ removed
             adds == DeviceAdded(forced, HasDevice(d), Runs(checked), removed, added)
             left == IF removes THEN devices \ DevicesOf(d) ELSE devices
  <2>2. CASE ~adds
    BY <1>1, <2>1, <2>2
  <2>3. CASE adds
    <3>1. \A r \in left : r \in devices /\ r.device # d
      <4>1. CASE removes
        BY <4>1 DEF DevicesOf
      <4>2. CASE ~HasDevice(d)
        BY <4>2 DEF HasDevice, DevicesOf
      <4>3. HasDevice(d) => removes
        <5>1. HasDevice(d) => forced /\ Runs(checked)
          BY <2>3 DEF DeviceAdded
        <5>2. forced => removed
          BY <2>3, ReliableQueries DEF DeviceAdded
        <5>3. QED
          BY <5>1, <5>2
      <4>4. QED
        BY <4>1, <4>2, <4>3
    <3>2. \E x : x.device = d /\ devices' = left \cup {x}
      BY <2>1, <2>3 DEF InsertDevice
    <3>3. QED
      BY <3>1, <3>2
  <2>4. QED
    BY <2>2, <2>3
<1>3. CASE DatabaseStep /\ ~DB_doAddDevice
  BY <1>1, <1>3
  DEF DatabaseStep, DatabaseHandler, DB_doCheckDatabase, DB_doInitDatabase, DB_doLoadDevices,
      DB_doCleanSessions, DB_doGetDevices, DB_doGetSessions, DB_doRemoveDevice, DB_doAddSession,
      DB_doRemSession, DB_doEndSession, DB_doAddData, RemDevices, dbVars
<1>4. CASE ~DatabaseStep
  BY <1>1, <1>4, OnlyDatabaseWrites DEF dbVars
<1>5. QED
  BY <1>2, <1>3, <1>4

\* The devices table never has two rows for one device: on PostgreSQL whatever
\* queries fail, on SQLite when they succeed.
THEOREM DeviceRowSafe ==
    ASSUME Backend = "pqsql" \/ "query" \notin Faults
    PROVE  Spec => []DeviceRowUnique
<1>1. Init => DeviceRowUnique
  BY DEF Init, DatabaseInit, DeviceRowUnique
<1>2. DeviceRowUnique /\ [Next]_vars => DeviceRowUnique'
  BY DeviceRowStep
<1>3. QED
  BY <1>1, <1>2, PTL DEF Spec
=============================================================================
