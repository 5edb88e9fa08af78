------------------------------ MODULE Recording ------------------------------
(***************************************************************************)
(* From the update lanes to the tables, statement by statement.  A request *)
(* to the database becomes a script of SQL statements (Query); PostgreSQL  *)
(* runs a script in one transaction, SQLite commits each statement by      *)
(* itself and stops at the first that fails.  The module Database has a    *)
(* script as one query; here a script is seen to stop in the middle.       *)
(*                                                                         *)
(* One device, one connection, and a hash of its own for each session.     *)
(***************************************************************************)
EXTENDS UpdateLanes, Functions, SequencesExt

CONSTANTS
    Backends,      \* the databases the configuration may name: "sqlite3", "pqsql"
    MaxAdmin,      \* bound: requests of the administrator
    Forced,        \* whether these force a database to be dropped: a subset of BOOLEAN
    Breaks         \* bound: the numbers of statements after which a script may
                   \* fail for a reason of its own; {}: it does not

ASSUME RecordingAssumption ==
    /\ Backends \subseteq {"sqlite3", "pqsql"}
    /\ MaxAdmin \in Nat
    /\ Forced \subseteq BOOLEAN
    /\ Breaks \subseteq Nat

\* In the order of createTables().
CreateOrder ==
    <<"devices", "sessions", "procEvent", "sysProcStat", "sysProcMemInfo", "sysProcDiskStats",
      "sysProcPressure", "sysProcVMStat", "procAcct", "procInfo", "contextInfo",
      "sysProcBuddyInfo", "sysProcWireless">>

\* In the order of dropTables().
DropOrder ==
    <<"devices", "sessions", "sysProcStat", "sysProcMemInfo", "sysProcDiskStats",
      "sysProcPressure", "sysProcBuddyInfo", "sysProcWireless", "sysProcVMStat",
      "procAcct", "procInfo", "procEvent", "contextInfo">>

Tables == ToSet(CreateOrder)
DataTables == Tables \ {"devices", "sessions"}

VARIABLES
    backend,     \* the database of this process
    dbRequests,  \* IDatabase::m_queue
    tables,      \* tables that exist
    rows,        \* the rows of each table
    sampled,     \* bound: what the monitor has sent data of, by source and session
    admin,       \* requests of the administrator so far
    initialized  \* the status of the last InitDatabase; "none" before

storeVars == <<backend, tables, rows>>
vars == <<laneVars, dbRequests, storeVars, sampled, admin, initialized>>

DBRequests ==
    [action : {"InitDatabase"}, forced : BOOLEAN]
    \cup [action : {"AddDevice"}]
    \cup [action : {"AddSession", "EndSession"}, hash : 0..MaxSessions]
    \cup [action : {"AddData"}, hash : 0..MaxSessions, sample : Samples]

RowsOf(t) ==
    CASE t = "devices" -> [id : Nat]
      [] t = "sessions" -> [id : Nat, hash : 0..MaxSessions, open : BOOLEAN]
      [] OTHER -> [session : Nat, sample : Samples, entry : Nat]

TypeOK ==
    /\ LanesTypeOK
    /\ backend \in Backends
    /\ dbRequests \in Seq(DBRequests)
    /\ tables \subseteq Tables
    /\ DOMAIN rows = Tables
    /\ \A t \in Tables : rows[t] \subseteq RowsOf(t) /\ IsFiniteSet(rows[t])
    /\ sampled \subseteq (DataSources \X (0..MaxSessions))
    /\ admin \in 0..MaxAdmin
    /\ initialized \in {"none", "Okay", "Error"}

\* The tables exist and the device is in its table.
Init ==
    /\ LanesInit
    /\ backend \in Backends
    /\ dbRequests = <<>>
    /\ tables = Tables
    /\ rows = [t \in Tables |-> IF t = "devices" THEN {[id |-> 1]} ELSE {}]
    /\ sampled = {}
    /\ admin = 0
    /\ initialized = "none"

-----------------------------------------------------------------------------
(* Scripts.  A row of the sessions table has a key, the hash and whether it  *)
(* has no end; a row of a data table has the key of its session, and what it *)
(* is a row of.                                                            *)

Statement(op, table, row) == [op |-> op, table |-> table, row |-> row]

Statements(op, order) == [i \in DOMAIN order |-> Statement(op, order[i], {})]

\* Faulty variant: the table of the newest data source is forgotten.
createTables_noVMStat ==
    Statements("create", SelectSeq(CreateOrder, LAMBDA t : t # "sysProcVMStat"))

createTables == Statements("create", CreateOrder)

dropTables == Statements("drop", DropOrder)

\* Row number n of a sample, for whatever session the sub-select finds.
Insert(table, sample, n) == Statement("insert", table, [sample |-> sample, entry |-> n])

OneRow(table, sample) == <<Insert(table, sample, 1)>>
RowPerEntry(table, sample) == [n \in 1..sample.entries |-> Insert(table, sample, n)]

\* The overloads of addData().
addProcEvent(sample) == OneRow("procEvent", sample)
addProcAcct(sample) == OneRow("procAcct", sample)
addMemInfo(sample) == OneRow("sysProcMemInfo", sample)
addPressure(sample) == OneRow("sysProcPressure", sample)
addVMStat(sample) == OneRow("sysProcVMStat", sample)
addDiskStats(sample) == RowPerEntry("sysProcDiskStats", sample)
addBuddyInfo(sample) == RowPerEntry("sysProcBuddyInfo", sample)
addWireless(sample) == RowPerEntry("sysProcWireless", sample)
addProcInfo(sample) == RowPerEntry("procInfo", sample)
addContextInfo(sample) == RowPerEntry("contextInfo", sample)

\* The processor as a whole, then each core.
addProcStat(sample) ==
    OneRow("sysProcStat", sample) \o [n \in 1..sample.entries |-> Insert("sysProcStat", sample, n + 1)]

\* Faulty variant: the wireless statistics are written as buddy information.
AddDataScript_mixed(sample) ==
    CASE sample.source \in {"SysProcBuddyInfo", "SysProcWireless"} -> addBuddyInfo(sample)
      [] sample.source = "SysProcStat" -> addProcStat(sample)
      [] OTHER -> <<>>

\* doAddData(): the overload for what the data is.
AddDataScript(sample) ==
    CASE sample.source = "ProcEvent" -> addProcEvent(sample)
      [] sample.source = "ProcAcct" -> addProcAcct(sample)
      [] sample.source = "ProcInfo" -> addProcInfo(sample)
      [] sample.source = "ContextInfo" -> addContextInfo(sample)
      [] sample.source = "SysProcStat" -> addProcStat(sample)
      [] sample.source = "SysProcBuddyInfo" -> addBuddyInfo(sample)
      [] sample.source = "SysProcWireless" -> addWireless(sample)
      [] sample.source = "SysProcMemInfo" -> addMemInfo(sample)
      [] sample.source = "SysProcPressure" -> addPressure(sample)
      [] sample.source = "SysProcDiskStats" -> addDiskStats(sample)
      [] sample.source = "SysProcVMStat" -> addVMStat(sample)

-----------------------------------------------------------------------------
(* Running a script on a database: the tables and their rows.              *)

Store == [tables |-> tables, rows |-> rows]

\* Faulty variant: the end of a session is not asked for.
OpenSession_any(db, hash) == {r \in db.rows["sessions"] : r.hash = hash}

\* The sub-select of addData(): the session with this hash that has no end.
OpenSession(db, hash) == {r \in db.rows["sessions"] : r.hash = hash /\ r.open}

\* A data row needs its table and its session, which may not be null.
CanRun(db, st, hash) ==
    st.op = "insert" => st.table \in db.tables /\ OpenSession(db, hash) # {}

\* The row an insertion writes for a session.
RowFor(st, r) == [session |-> r.id, sample |-> st.row.sample, entry |-> st.row.entry]

\* What one statement does.
Effect(db, st, hash) ==
    CASE st.op = "create" -> [db EXCEPT !.tables = @ \cup {st.table}]
      [] st.op = "drop" -> [tables |-> db.tables \ {st.table},
                            rows |-> [db.rows EXCEPT ![st.table] = {}]]
      [] st.op = "insert" ->
            [db EXCEPT !.rows[st.table] = @ \cup {RowFor(st, r) : r \in OpenSession(db, hash)}]

Of(done, op, t) == {st \in done : st.op = op /\ st.table = t}

Inserted(db, done, t, hash) == {RowFor(st, r) : st \in Of(done, "insert", t), r \in OpenSession(db, hash)}

\* What several statements do, if all create, all drop or all insert data.
Effects(db, done, hash) ==
    [tables |-> {t \in Tables : Of(done, "drop", t) = {} /\ (t \in db.tables \/ Of(done, "create", t) # {})},
     rows |-> [t \in Tables |->
                 IF Of(done, "drop", t) # {} THEN {} ELSE db.rows[t] \cup Inserted(db, done, t, hash)]]

\* Faulty variant: the statements after the one that fails run all the same.
After_passedOver(db, script, n, hash) ==
    Effects(db, {script[i] : i \in DOMAIN script \ {n + 1}}, hash)

\* The database after the first n statements.
After(db, script, n, hash) == Effects(db, {script[i] : i \in 1..n}, hash)

\* How many statements run, unless one of them fails for a reason of its own.
Runnable(db, script, hash) ==
    IF \A i \in DOMAIN script : CanRun(db, script[i], hash) THEN Len(script) ELSE 0

\* Faulty variant: every statement is committed by itself.
Kept_each(script, n) == n

\* How many of the statements that ran are kept: the transaction of PostgreSQL
\* is rolled back, what sqlite3_exec() has done stays done.
Kept(script, n) == IF backend = "pqsql" /\ n < Len(script) THEN 0 ELSE n

\* The statements of a script that may be kept, by where it stops.
Outcomes(db, script, hash) ==
    LET most == Runnable(db, script, hash)
    IN  {Kept(script, n) : n \in {most} \cup {b \in Breaks : b < most}}

NewKey(ids) == IF ids = {} THEN 1 ELSE 1 + CHOOSE k \in ids : \A j \in ids : j <= k

-----------------------------------------------------------------------------
(* Request handlers of the database.                                       *)

DBHandles(action) == dbRequests # <<>> /\ Head(dbRequests).action = action

\* A failure to drop the tables is logged and ignored.
DB_doInitDatabase ==
    /\ DBHandles("InitDatabase")
    /\ LET forced == Head(dbRequests).forced
           drop == IF forced THEN dropTables ELSE <<>>
       IN  \E n \in Outcomes(Store, drop, 0) :
               LET dropped == After(Store, drop, n, 0) IN
               \E k \in Outcomes(dropped, createTables, 0) :
                   LET created == After(dropped, createTables, k, 0) IN
                   /\ tables' = created.tables
                   /\ rows' = created.rows
                   /\ initialized' = IF k = Len(createTables) THEN "Okay" ELSE "Error"
    /\ dbRequests' = Tail(dbRequests)
    /\ UNCHANGED <<laneVars, backend, sampled, admin>>

\* The device is inserted when it is not there.
DB_doAddDevice ==
    /\ DBHandles("AddDevice")
    /\ \E ok \in {TRUE, Breaks = {}} :
          rows' = IF ok /\ "devices" \in tables /\ rows["devices"] = {}
                  THEN [rows EXCEPT !["devices"] = {[id |-> 1]}]
                  ELSE rows
    /\ dbRequests' = Tail(dbRequests)
    /\ UNCHANGED <<laneVars, backend, tables, sampled, admin, initialized>>

DB_doAddSession ==
    /\ DBHandles("AddSession")
    /\ \E ok \in {TRUE, Breaks = {}} :
          rows' = IF ok /\ {"devices", "sessions"} \subseteq tables /\ rows["devices"] # {}
                  THEN [rows EXCEPT !["sessions"] =
                          @ \cup {[id |-> NewKey({r.id : r \in @}),
                                   hash |-> Head(dbRequests).hash, open |-> TRUE]}]
                  ELSE rows
    /\ dbRequests' = Tail(dbRequests)
    /\ UNCHANGED <<laneVars, backend, tables, sampled, admin, initialized>>

DB_doEndSession ==
    /\ DBHandles("EndSession")
    /\ \E ok \in {TRUE, Breaks = {}} :
          rows' = IF ok
                  THEN [rows EXCEPT !["sessions"] =
                          {IF r.hash = Head(dbRequests).hash THEN [r EXCEPT !.open = FALSE] ELSE r : r \in @}]
                  ELSE rows
    /\ dbRequests' = Tail(dbRequests)
    /\ UNCHANGED <<laneVars, backend, tables, sampled, admin, initialized>>

DB_doAddData ==
    /\ DBHandles("AddData")
    /\ LET hash == Head(dbRequests).hash
           script == AddDataScript(Head(dbRequests).sample)
       IN  \E n \in Outcomes(Store, script, hash) : rows' = After(Store, script, n, hash).rows
    /\ dbRequests' = Tail(dbRequests)
    /\ UNCHANGED <<laneVars, backend, tables, sampled, admin, initialized>>

-----------------------------------------------------------------------------
(* The device.                                                             *)

DeviceSetsSession ==
    /\ doSetSession
    /\ dbRequests' = Append(dbRequests, [action |-> "AddSession", hash |-> session'])
    /\ UNCHANGED <<storeVars, sampled, admin, initialized>>

\* ~Connection() ends the session the device was last set.
DeviceDisconnects ==
    /\ Connection_finalize
    /\ dbRequests' = IF session = 0 THEN dbRequests
                     ELSE Append(dbRequests, [action |-> "EndSession", hash |-> session])
    /\ UNCHANGED <<storeVars, sampled, admin, initialized>>

\* The monitor answers a data request, for the session it has set: with data
\* once for each session, later with a status, which is only logged.
Connection_readData(s) ==
    /\ connected
    /\ s \in asked
    /\ asked' = asked \ {s}
    /\ \/ /\ <<s, MonitorSession>> \notin sampled
          /\ sampled' = sampled \cup {<<s, MonitorSession>>}
          /\ \E n \in EntryCounts :
                requests' = Append(requests, [action |-> "ProcessData",
                                              sample |-> [source |-> s, entries |-> n, of |-> MonitorSession]])
       \/ /\ <<s, MonitorSession>> \in sampled
          /\ UNCHANGED <<sampled, requests>>
    /\ UNCHANGED <<deviceState, connected, session, plan, dataSources, armed, current,
                   dbRequests, storeVars, admin, initialized>>

\* The data goes to the session the device has when it is handled.
doProcessData ==
    /\ Handles("ProcessData")
    /\ dbRequests' = Append(dbRequests, [action |-> "AddData", hash |-> session,
                                         sample |-> Head(requests).sample])
    /\ requests' = Tail(requests)
    /\ UNCHANGED <<deviceState, connected, session, plan, dataSources, armed, current, asked,
                   storeVars, sampled, admin, initialized>>

\* The administrator initializes the database, or adds the device again.
Administrate ==
    /\ admin < MaxAdmin
    /\ admin' = admin + 1
    /\ \E rq \in {[action |-> "AddDevice"]} \cup [action : {"InitDatabase"}, forced : Forced] :
          dbRequests' = Append(dbRequests, rq)
    /\ UNCHANGED <<laneVars, storeVars, sampled, initialized>>

-----------------------------------------------------------------------------
DatabaseStep ==
    DB_doInitDatabase \/ DB_doAddDevice \/ DB_doAddSession \/ DB_doEndSession \/ DB_doAddData

DeviceStep ==
    \/ DeviceSetsSession
    \/ doProcessData
    \/ (doStartStream \/ doStopStream) /\ UNCHANGED <<dbRequests, storeVars, sampled, admin, initialized>>

TickStep(l) == Timer_tick(l) /\ UNCHANGED <<dbRequests, storeVars, sampled, admin, initialized>>

Next ==
    \/ DatabaseStep
    \/ DeviceStep
    \/ DeviceDisconnects
    \/ \E l \in Lanes : TickStep(l)
    \/ \E s \in DataSources : Connection_readData(s)
    \/ /\ Connection_readSetSession \/ doStartStopCollecting
       /\ UNCHANGED <<dbRequests, storeVars, sampled, admin, initialized>>
    \/ Administrate

Spec == Init /\ [][Next]_vars

\* The event loop serves its queues, an armed timer goes off again and again,
\* and a monitor that is connected answers.
Fairness ==
    /\ WF_vars(DatabaseStep)
    /\ WF_vars(DeviceStep)
    /\ \A l \in Lanes : WF_vars(TickStep(l))
    /\ \A s \in DataSources : WF_vars(Connection_readData(s))

FairSpec == Spec /\ Fairness
=============================================================================
