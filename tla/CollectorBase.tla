---------------------------- MODULE CollectorBase ----------------------------
(***************************************************************************)
(* What the components of tkmcollector share: the requests, the queues     *)
(* they travel in, and the process.                                        *)
(*                                                                         *)
(* The collector is one thread running an event loop.  The dispatcher, the *)
(* database and every device own an AsyncQueue; a handler runs to          *)
(* completion, pops one request and may push requests on any queue.  The   *)
(* loop serves its sources in no fixed order, so the interleavings are     *)
(* those of the handlers, never of the statements inside one.              *)
(***************************************************************************)
EXTENDS Integers, Sequences, FiniteSets

CONSTANTS
    Devices,      \* device hashes (DeviceData.hash)
    NoDevice,     \* a request that names no device
    Hashes,       \* session hashes a monitor may issue
    NoHash,       \* the empty session hash of a device that has had no session
    MaxRequests,  \* bound: requests the clients send in one life of the process
    Faults        \* the failures of the environment that a model enables

FaultKinds == {"query", "boot", "connect", "resolve", "descriptor", "write", "eof", "signal"}

ASSUME BaseAssumption ==
    /\ NoDevice \notin Devices
    /\ NoHash \notin Hashes
    /\ MaxRequests \in Nat
    /\ Faults \subseteq FaultKinds

\* Every request of a client is answered on the client's connection, so the
\* request number stands for both; 0 is the null client of internal requests.
NoClient == 0
RequestIds == 1..MaxRequests
Clients == 0..MaxRequests

\* The outcomes of a call into the environment that may fail.
Outcomes(kind) == IF kind \in Faults THEN BOOLEAN ELSE {TRUE}

-----------------------------------------------------------------------------
(* Requests: the action, the client to answer, and what args and bulkData  *)
(* carry of the device, the session and the collected data.  "arg" is the  *)
(* Forced argument or the Status argument, absent otherwise.               *)

DispatcherActions ==
    {"InitDatabase", "QuitCollector", "GetDevices", "GetSessions", "RemoveSession",
     "AddDevice", "RemoveDevice", "ConnectDevice", "DisconnectDevice",
     "StartCollecting", "StopCollecting", "SendStatus", "Quit"}

DatabaseActions ==
    {"CheckDatabase", "InitDatabase", "LoadDevices", "CleanSessions", "GetDevices",
     "GetSessions", "AddDevice", "RemoveDevice", "AddSession", "RemSession",
     "EndSession", "AddData"}

DeviceActions ==
    {"Connect", "Disconnect", "SendDescriptor", "RequestSession", "SetSession",
     "StartCollecting", "StopCollecting", "StartStream", "StopStream",
     "ProcessData", "Status"}

Args == {"none", "forced", "Okay", "Error"}

RequestFields(actions) ==
    [action  : actions,
     client  : Clients,
     device  : Devices \cup {NoDevice},
     session : Hashes \cup {NoHash},
     payload : Hashes \cup {NoHash},  \* the session the monitor collected the data for
     arg     : Args]

\* A request to add a device names it, and a request to send a status has one.
RequestsOf(actions) ==
    {rq \in RequestFields(actions) :
        /\ rq.action = "AddDevice" => rq.device \in Devices
        /\ rq.action = "SendStatus" => rq.arg \in {"Okay", "Error"}}

Request(action, client, device, session) ==
    [action |-> action, client |-> client, device |-> device, session |-> session,
     payload |-> NoHash, arg |-> "none"]

Internal(action) == Request(action, NoClient, NoDevice, NoHash)

\* Faulty variant: the answer forgets whom it is for.
StatusRequest_noClient(client, status) ==
    [action |-> "SendStatus", client |-> NoClient, device |-> NoDevice, session |-> NoHash,
     payload |-> NoHash, arg |-> status]

StatusRequest(client, status) ==
    [action |-> "SendStatus", client |-> client, device |-> NoDevice, session |-> NoHash,
     payload |-> NoHash, arg |-> status]

-----------------------------------------------------------------------------
VARIABLES
    dispatcherQueue,  \* Dispatcher::m_queue
    dbQueue,          \* IDatabase::m_queue
    deviceQueue,      \* MonitorDevice::m_queue, for each device
    process,          \* "up", "exited" or "crashed"
    epoch             \* which life of the process this is

queueVars == <<dispatcherQueue, dbQueue, deviceQueue>>
processVars == <<process, epoch>>

BaseTypeOK ==
    /\ dispatcherQueue \in Seq(RequestsOf(DispatcherActions))
    /\ dbQueue \in Seq(RequestsOf(DatabaseActions))
    /\ deviceQueue \in [Devices -> Seq(RequestsOf(DeviceActions))]
    /\ process \in {"up", "exited", "crashed"}
    /\ epoch \in Nat

\* The request a handler is called with.
DispatcherHandles(action) ==
    /\ process = "up"
    /\ dispatcherQueue # <<>>
    /\ Head(dispatcherQueue).action = action

DatabaseHandles(action) ==
    /\ process = "up"
    /\ dbQueue # <<>>
    /\ Head(dbQueue).action = action

DeviceHandles(d, action) ==
    /\ process = "up"
    /\ deviceQueue[d] # <<>>
    /\ Head(deviceQueue[d]).action = action

\* pushRequest() on the queue of the dispatcher, by a handler of another queue.
Reply(client, status) ==
    dispatcherQueue' = Append(dispatcherQueue, StatusRequest(client, status))

\* The device's queue once its handler has popped a request and pushed rqs.
PopDevice(d, rqs) == [deviceQueue EXCEPT ![d] = Tail(@) \o rqs]
=============================================================================
