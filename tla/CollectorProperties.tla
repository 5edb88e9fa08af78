------------------------ MODULE CollectorProperties ------------------------
(***************************************************************************)
(* What the collector should guarantee, over the state of the whole        *)
(* process.  Each property says under which assumptions on the environment *)
(* it is meant; the MC modules and the proofs make them precise.           *)
(***************************************************************************)
EXTENDS Collector

InDatabaseQueue(action) == \E i \in DOMAIN dbQueue : dbQueue[i].action = action

\* The process is on its way out: a Quit is queued for the dispatcher.
QuitQueued == \E i \in DOMAIN dispatcherQueue : dispatcherQueue[i].action = "Quit"

-----------------------------------------------------------------------------
(* Requests.                                                               *)

\* The places of a queue where a request of client c is.
InQueue(name, q, c) == {<<name, i>> : i \in {j \in DOMAIN q : q[j].client = c}}

\* The places where a request of client c, or its answer, is.
Places(c) ==
    InQueue("dispatcher", dispatcherQueue, c)
    \cup InQueue("database", dbQueue, c)
    \cup (UNION {InQueue(d, deviceQueue[d], c) : d \in Devices})
    \cup {<<"replied", i>> : i \in DOMAIN replies[c]}

\* Every request a client sends (ControlClient, Dispatcher, the do* handlers of
\* the database and the devices) is, as long as the process lives, either in
\* one queue or answered, and never twice: no handler drops the client, none
\* answers and also forwards.  Only QuitCollector is not answered.
RequestAnsweredOnce ==
    \A c \in RequestIds :
        /\ Cardinality(Places(c)) <= 1
        /\ (c <= requested /\ Places(c) = {}) => QuitQueued

-----------------------------------------------------------------------------
(* The promise to the clients.                                             *)

Service == INSTANCE ControlService
           WITH Requests <- RequestIds, Statuses <- {"Okay", "Error"},
                asked <- 1..requested, answers <- replies, alive <- process = "up"

\* The collector keeps the promise of ControlService, step by step: whichever
\* queues a request goes through, whatever fails on the way and however the
\* process ends, a client sees its request answered once, by the process that
\* received it, or not at all (Dispatcher, the do* handlers of all components).
ImplementsService == Service!ServiceSpec

-----------------------------------------------------------------------------
(* Sessions.                                                               *)

IsAdd(rq, h) == rq.action = "AddSession" /\ rq.session = h
IsEnd(rq, h) == rq.action = "EndSession" /\ rq.session = h

\* The database will be asked to end session h after anything that opens it.
EndComes(h) ==
    \E i \in DOMAIN dbQueue :
        /\ IsEnd(dbQueue[i], h)
        /\ \A j \in DOMAIN dbQueue : j > i => ~IsAdd(dbQueue[j], h)

\* Session h is not open and nothing queued will open it.
StaysEnded(h) ==
    /\ \A i \in DOMAIN dbQueue : ~IsAdd(dbQueue[i], h)
    /\ \A r \in sessions : r.hash = h => r.ended

\* A device that is disconnected (updateState, however it lost its connection)
\* has its last session ended, or the request that ends it is queued behind
\* every request that opens it.  For reliable queries and monitors that do not
\* share hashes.
DisconnectedSessionEnded ==
    \A d \in Devices :
        (state[d] = "Disconnected" /\ sessionHash[d] # NoHash)
            => (EndComes(sessionHash[d]) \/ StaysEnded(sessionHash[d]))

\* A session that an earlier process left open (it crashed, quit or was killed)
\* is ended by the new one: cleanSessions() is still queued, or the EndSession it
\* pushed is.  For reliable queries.
StaleSessionsEnded ==
    \A r \in sessions :
        (~r.ended /\ r.started < epoch)
            => \/ InDatabaseQueue("CleanSessions")
               \/ \E i \in DOMAIN dbQueue : IsEnd(dbQueue[i], r.hash)
               \/ QuitQueued

\* doAddSession() keeps at most one session under a hash.  For reliable queries.
SessionHashUnique == \A r, s \in sessions : r.hash = s.hash => r = s

\* Data a monitor collected for a session is filed under that session, although
\* doProcessData() uses the hash the device has when the data is handled and
\* addData() looks the row up later still.
DataAttribution ==
    \A x \in data, s \in sessions :
        (x.session = s.id /\ x.payload # NoHash) => x.payload = s.hash

-----------------------------------------------------------------------------
(* Devices.                                                                *)

\* A device in the table is known to the manager, or a LoadDevices that will
\* make it known is queued (boot, doAddDevice).  For reliable queries.
DevicesLoaded ==
    \A r \in devices : r.device \in managed \/ InDatabaseQueue("LoadDevices") \/ QuitQueued

\* The devices table has one row per device, whatever queries fail.  doAddDevice
\* of PQDatabase gives up when the removal fails; for that backend only.
DeviceRowUnique == \A r, s \in devices : r.device = s.device => r = s

\* A device reports Connected only while it has a connection object: no path
\* deletes m_connection and leaves the state behind.
ConnectedHasConnection == \A d \in Devices : state[d] = "Connected" => connection[d] # "none"

-----------------------------------------------------------------------------
(* Progress, under the fairness of the event loop.                         *)

\* Every request is answered, unless the process goes away first.
RequestEventuallyAnswered == \A c \in RequestIds : Service!Prompt(c)

\* The open session of a device whose connection goes is eventually ended.
SessionEventuallyEnded ==
    \A d \in Devices, h \in Hashes :
        (process = "up" /\ connection[d] = "removing" /\ sessionHash[d] = h)
            ~> (process # "up" \/ \A r \in SessionsOf(h) : r.ended)

-----------------------------------------------------------------------------
(* What the repository says of the program and the program does not do.    *)

\* doDisconnect() answers "Device not connected" for a device that has no
\* connection (MonitorDevice.cpp).
DisconnectSurvives == [][\A d \in Devices : Device_doDisconnect(d) => process' = "up"]_vars
=============================================================================
