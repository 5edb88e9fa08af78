------------------------------ MODULE Database ------------------------------
(***************************************************************************)
(* The database component: the request handlers of SQLiteDatabase and      *)
(* PQDatabase, which differ only where Backend is named, over the tables   *)
(* that Query::createTables() declares.                                    *)
(*                                                                         *)
(* Both backends declare the foreign keys ON DELETE CASCADE.  PostgreSQL   *)
(* enforces them; SQLite does so only after "PRAGMA foreign_keys = ON",    *)
(* which the program never runs.  PostgreSQL draws keys from a sequence;   *)
(* an SQLite INTEGER PRIMARY KEY takes the largest key in use plus one.    *)
(***************************************************************************)
EXTENDS DeviceManager, Functions

CONSTANT Backend  \* "sqlite3" or "pqsql"

ASSUME DatabaseAssumption == Backend \in {"sqlite3", "pqsql"}

VARIABLES
    tables,         \* the tables exist
    devices,        \* rows of the devices table
    sessions,       \* rows of the sessions table
    data,           \* rows of the data tables
    deviceSerial,   \* PostgreSQL: last key drawn for a device
    sessionSerial   \* PostgreSQL: last key drawn for a session

dbVars == <<tables, devices, sessions, data, deviceSerial, sessionSerial>>

DeviceRows == [id : Nat, device : Devices]
\* EndTimestamp is kept as whether it is set, StartTimestamp as the life of the
\* process that wrote the row.
SessionRows == [id : Nat, hash : Hashes \cup {NoHash}, device : Nat, ended : BOOLEAN, started : Nat]
\* A data row and, of its content, the session the monitor collected it for.
DataRows == [session : Nat, payload : Hashes \cup {NoHash}]

DatabaseTypeOK ==
    /\ tables \in BOOLEAN
    /\ devices \subseteq DeviceRows
    /\ sessions \subseteq SessionRows
    /\ IsFiniteSet(sessions)
    /\ data \subseteq DataRows
    /\ deviceSerial \in Nat
    /\ sessionSerial \in Nat

-----------------------------------------------------------------------------
(* Queries.                                                                *)

\* A query runs when the tables exist and nothing else goes wrong.
Runs(ok) == tables /\ ok

QueryOutcomes == Outcomes("query")

DevicesOf(d) == {r \in devices : r.device = d}
SessionsOf(h) == {r \in sessions : r.hash = h}
OpenSessions == {r \in sessions : ~r.ended}

\* hasDevice(), hasSession()
HasDevice(d) == DevicesOf(d) # {}
HasSession(h) == SessionsOf(h) # {}

\* A sub-select used as a value: PostgreSQL refuses more than one row.
SubSelect(rows) ==
    IF Backend = "pqsql" /\ (\E r, s \in rows : r # s) THEN {} ELSE rows

\* The key the next inserted row gets.
NewKeys(rows, serial) ==
    IF Backend = "pqsql"
    THEN {serial + 1}
    ELSE {k \in {1} \cup {r.id + 1 : r \in rows} : \A r \in rows : r.id < k}

\* The rows left when gone is deleted from the sessions.
DataWithout(gone) ==
    IF Backend = "pqsql" THEN {x \in data : \A r \in gone : x.session # r.id} ELSE data

\* remSession()
RemSessions(h) ==
    /\ sessions' = sessions \ SessionsOf(h)
    /\ data' = DataWithout(SessionsOf(h))

\* The sessions that go with the rows of device d.
CascadeOf(d) ==
    IF Backend = "pqsql" THEN {s \in sessions : \E r \in DevicesOf(d) : s.device = r.id} ELSE {}

\* remDevice()
RemDevices(d) ==
    /\ devices' = devices \ DevicesOf(d)
    /\ sessions' = sessions \ CascadeOf(d)
    /\ data' = DataWithout(CascadeOf(d))

-----------------------------------------------------------------------------
(* Request handlers.                                                       *)

\* doCheckDatabase() does nothing.
DB_doCheckDatabase ==
    /\ DatabaseHandles("CheckDatabase")
    /\ dbQueue' = Tail(dbQueue)
    /\ UNCHANGED <<dispatcherQueue, deviceQueue, state, managed, dbVars>>

\* A failure to drop the tables is logged and ignored.
DB_doInitDatabase ==
    LET rq == Head(dbQueue) IN
    /\ DatabaseHandles("InitDatabase")
    /\ \E dropped, created \in QueryOutcomes :
          /\ tables' = (created \/ (tables /\ ~(rq.arg = "forced" /\ dropped)))
          /\ IF rq.arg = "forced" /\ dropped
             THEN /\ devices' = {}
                  /\ sessions' = {}
                  /\ data' = {}
                  /\ deviceSerial' = 0
                  /\ sessionSerial' = 0
             ELSE UNCHANGED <<devices, sessions, data, deviceSerial, sessionSerial>>
          /\ Reply(rq.client, IF created THEN "Okay" ELSE "Error")
    /\ dbQueue' = Tail(dbQueue)
    /\ UNCHANGED <<deviceQueue, state, managed>>

DB_doLoadDevices ==
    /\ DatabaseHandles("LoadDevices")
    /\ \E ok \in QueryOutcomes :
          IF Runs(ok) THEN addDevices({r.device : r \in devices}) ELSE UNCHANGED <<managed, state>>
    /\ dbQueue' = Tail(dbQueue)
    /\ UNCHANGED <<dispatcherQueue, deviceQueue, dbVars>>

\* Faulty variant: the last session of the list is missed.
EndRequests_butLast(rows) ==
    [i \in 1..(Cardinality(DOMAIN rows) - 1) |-> Request("EndSession", NoClient, NoDevice, rows[i].hash)]

\* One EndSession for each session without an end, in the order of the rows.
EndRequests(rows) == [i \in DOMAIN rows |-> Request("EndSession", NoClient, NoDevice, rows[i].hash)]

DB_doCleanSessions ==
    /\ DatabaseHandles("CleanSessions")
    /\ \E ok \in QueryOutcomes :
          IF Runs(ok)
          THEN \E rows \in Bijection(1..Cardinality(OpenSessions), OpenSessions) :
                  dbQueue' = Tail(dbQueue) \o EndRequests(rows)
          ELSE dbQueue' = Tail(dbQueue)
    /\ UNCHANGED <<dispatcherQueue, deviceQueue, state, managed, dbVars>>

\* GetDevices sends a list to the client and changes nothing.
DB_doGetDevices ==
    /\ DatabaseHandles("GetDevices")
    /\ \E ok \in QueryOutcomes : Reply(Head(dbQueue).client, IF Runs(ok) THEN "Okay" ELSE "Error")
    /\ dbQueue' = Tail(dbQueue)
    /\ UNCHANGED <<deviceQueue, state, managed, dbVars>>

\* So does GetSessions, for all devices or for one.  PostgreSQL has no LIKE
\* between the two integers the query for one device compares.
DB_doGetSessions ==
    LET rq == Head(dbQueue) IN
    /\ DatabaseHandles("GetSessions")
    /\ \E ok \in QueryOutcomes :
          LET listed == Runs(ok) /\ (Backend = "pqsql" => rq.device = NoDevice)
          IN  Reply(rq.client, IF listed THEN "Okay" ELSE "Error")
    /\ dbQueue' = Tail(dbQueue)
    /\ UNCHANGED <<deviceQueue, state, managed, dbVars>>

\* The rows after addDevice(), given the ones that survived the forced removal.
InsertDevice(d, rows) ==
    \E k \in NewKeys(rows, deviceSerial) :
        /\ devices' = rows \cup {[id |-> k, device |-> d]}
        /\ deviceSerial' = IF Backend = "pqsql" THEN k ELSE deviceSerial

\* Faulty variant: the outcome of the forced removal is not looked at.
DeviceAdded_anyway(forced, known, checked, removed, added) ==
    checked /\ (known => forced) /\ added

\* Whether doAddDevice() gets to insert the row and does: an existing device is
\* refused unless forced; SQLite goes on when the forced removal failed.
DeviceAdded(forced, known, checked, removed, added) ==
    /\ checked
    /\ known => forced
    /\ added
    /\ (forced /\ Backend = "pqsql") => removed

\* Forced replaces the row, with what hangs on it.
DB_doAddDevice ==
    LET rq == Head(dbQueue)
        d == rq.device
        forced == rq.arg = "forced"
    IN
    /\ DatabaseHandles("AddDevice")
    /\ \E checked, removed, added \in QueryOutcomes :
          LET removes == Runs(checked) /\ forced /\ removed
              adds == DeviceAdded(forced, HasDevice(d), Runs(checked), removed, added)
          IN
          /\ IF removes
             THEN /\ sessions' = sessions \ CascadeOf(d)
                  /\ data' = DataWithout(CascadeOf(d))
             ELSE UNCHANGED <<sessions, data>>
          /\ LET left == IF removes THEN devices \ DevicesOf(d) ELSE devices
             IN  IF adds THEN InsertDevice(d, left) ELSE devices' = left /\ UNCHANGED deviceSerial
          /\ Reply(rq.client, IF adds THEN "Okay" ELSE "Error")
          /\ dbQueue' = Tail(dbQueue) \o (IF adds THEN <<loadDevices>> ELSE <<>>)
    /\ UNCHANGED <<deviceQueue, state, managed, tables, sessionSerial>>

\* The row goes; the manager keeps the device.
DB_doRemoveDevice ==
    LET rq == Head(dbQueue) IN
    /\ DatabaseHandles("RemoveDevice")
    /\ \E checked, removed \in QueryOutcomes :
          /\ IF Runs(checked) /\ removed
             THEN RemDevices(rq.device)
             ELSE UNCHANGED <<devices, sessions, data>>
          /\ Reply(rq.client, IF Runs(checked) /\ removed /\ HasDevice(rq.device) THEN "Okay" ELSE "Error")
    /\ dbQueue' = Tail(dbQueue)
    /\ UNCHANGED <<deviceQueue, state, managed, tables, deviceSerial, sessionSerial>>

\* addSession(): the row refers to the row of the device, which must be there.
InsertSession(h, d, rows, ok) ==
    IF Runs(ok) /\ SubSelect(DevicesOf(d)) # {}
    THEN \E k \in NewKeys(rows, sessionSerial), r \in SubSelect(DevicesOf(d)) :
            /\ sessions' = rows \cup {[id |-> k, hash |-> h, device |-> r.id,
                                       ended |-> FALSE, started |-> epoch]}
            /\ sessionSerial' = IF Backend = "pqsql" THEN k ELSE sessionSerial
    ELSE sessions' = rows /\ UNCHANGED sessionSerial

\* Faulty variant: only a session that has ended is taken for a collision.
Colliding_ended(h) == {r \in SessionsOf(h) : r.ended}

\* The sessions a new session with hash h replaces.
Colliding(h) == SessionsOf(h)

\* A session with the same hash is removed first; every failure is logged and
\* the next query is tried.
DB_doAddSession ==
    LET rq == Head(dbQueue) IN
    /\ DatabaseHandles("AddSession")
    /\ \E checked, removed, added \in QueryOutcomes :
          LET gone == IF Runs(checked) /\ removed THEN Colliding(rq.session) ELSE {}
          IN  /\ data' = DataWithout(gone)
              /\ InsertSession(rq.session, rq.device, sessions \ gone, added)
    /\ dbQueue' = Tail(dbQueue)
    /\ UNCHANGED <<dispatcherQueue, deviceQueue, state, managed, tables, devices, deviceSerial>>

DB_doRemSession ==
    LET rq == Head(dbQueue) IN
    /\ DatabaseHandles("RemSession")
    /\ \E checked, removed \in QueryOutcomes :
          /\ IF Runs(checked) /\ removed
             THEN RemSessions(rq.session)
             ELSE UNCHANGED <<sessions, data>>
          /\ Reply(rq.client, IF Runs(checked) /\ removed /\ HasSession(rq.session) THEN "Okay" ELSE "Error")
    /\ dbQueue' = Tail(dbQueue)
    /\ UNCHANGED <<deviceQueue, state, managed, tables, devices, deviceSerial, sessionSerial>>

\* endSession() stamps every row of the hash, ended before or not.
DB_doEndSession ==
    LET rq == Head(dbQueue) IN
    /\ DatabaseHandles("EndSession")
    /\ \E ok \in QueryOutcomes :
          sessions' = IF Runs(ok)
                      THEN (sessions \ SessionsOf(rq.session))
                             \cup {[r EXCEPT !.ended = TRUE] : r \in SessionsOf(rq.session)}
                      ELSE sessions
    /\ dbQueue' = Tail(dbQueue)
    /\ UNCHANGED <<dispatcherQueue, deviceQueue, state, managed,
                   tables, devices, data, deviceSerial, sessionSerial>>

\* addData(): the row refers to the session with this hash that has no end.
DB_doAddData ==
    LET rq == Head(dbQueue)
        target == SubSelect(SessionsOf(rq.session) \cap OpenSessions)
    IN
    /\ DatabaseHandles("AddData")
    /\ \E ok \in QueryOutcomes :
          IF Runs(ok) /\ target # {}
          THEN \E r \in target : data' = data \cup {[session |-> r.id, payload |-> rq.payload]}
          ELSE UNCHANGED data
    /\ dbQueue' = Tail(dbQueue)
    /\ UNCHANGED <<dispatcherQueue, deviceQueue, state, managed,
                   tables, devices, sessions, deviceSerial, sessionSerial>>

-----------------------------------------------------------------------------
DatabaseHandler ==
    \/ DB_doCheckDatabase
    \/ DB_doInitDatabase
    \/ DB_doLoadDevices
    \/ DB_doCleanSessions
    \/ DB_doGetDevices
    \/ DB_doGetSessions
    \/ DB_doAddDevice
    \/ DB_doRemoveDevice
    \/ DB_doAddSession
    \/ DB_doRemSession
    \/ DB_doEndSession
    \/ DB_doAddData
=============================================================================
