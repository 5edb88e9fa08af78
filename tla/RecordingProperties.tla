------------------------ MODULE RecordingProperties ------------------------
(***************************************************************************)
(* What the tables say of the data a monitor sent.                         *)
(***************************************************************************)
EXTENDS Recording

\* The rows of one answer of the monitor are all there or none is, whatever
\* fails and wherever (runTransaction, Query::addData).  For PostgreSQL.
SampleWhole ==
    backend = "pqsql" =>
    \A t \in DataTables : \A r \in rows[t] :
        {q.entry : q \in {x \in rows[t] : x.sample = r.sample}} = 1..Len(AddDataScript(r.sample))

\* Where scripts stop in the middle an answer has its first rows and no others:
\* a core is never recorded without the ones before it.  For both backends.
SamplePrefix ==
    \A t \in DataTables : \A r \in rows[t] :
        {q.entry : q \in {x \in rows[t] : x.sample = r.sample}}
            \in {1..n : n \in 1..Len(AddDataScript(r.sample))}

\* Two kinds of data never end up in one table (the callbacks of
\* configUpdateLanes, the switch of doAddData, the overloads of addData).
TablesNotShared ==
    \A t \in DataTables : \A r, q \in rows[t] : r.sample.source = q.sample.source

\* A data row refers to a session that is in its table and is the one the
\* monitor collected the data for: keys start again when the sessions table is
\* dropped, and a drop that fails half way would leave rows for the next
\* session to take over (doInitDatabase, dropTables).  For PostgreSQL.
RowsKeepSession ==
    backend = "pqsql" =>
    \A t \in DataTables : \A r \in rows[t] :
        /\ \E s \in rows["sessions"] : s.id = r.session
        /\ \A s \in rows["sessions"] : s.id = r.session => s.hash = r.sample.of

\* An InitDatabase that was answered Okay leaves every table in place, whatever
\* the drop before has left of them.  For both backends.
InitComplete == initialized = "Okay" => tables = Tables

-----------------------------------------------------------------------------
(* The promise of the database.                                            *)

\* The sessions of the table, and the rows of the tables of data, without keys.
KnownSessions == {[hash |-> r.hash, open |-> r.open] : r \in rows["sessions"]}
RecordedRows == {[sample |-> r.sample, entry |-> r.entry] : r \in UNION {rows[t] : t \in DataTables}}

Promise == INSTANCE SampleStore
           WITH Hashes <- 0..MaxSessions, Rows <- [a \in Samples |-> Len(AddDataScript(a))],
                atomic <- backend = "pqsql", sessions <- KnownSessions, recorded <- RecordedRows

\* The database keeps the promise of SampleStore, step by step: wherever a script
\* stops and whatever is queued, data gets in only while its own session is open
\* and stays until a forced InitDatabase, and an ended session is not opened
\* again (DB_doAddSession, DB_doEndSession, DB_doAddData, DB_doInitDatabase).
StoreKept == Promise!Spec

-----------------------------------------------------------------------------
\* What a session asks for is recorded: while the device is collecting from a
\* monitor, a row of each source of the plan gets into a table.  For sources that can be asked
\* for, answers that are not empty, reliable queries and no administration.
EventuallyRecorded ==
    \A s \in Configured :
        (deviceState = "Collecting" /\ connected /\ \E l \in Lanes : s \in plan[l])
            ~> (deviceState # "Collecting" \/ ~connected \/ \E t \in DataTables : \E r \in rows[t] : r.sample.source = s)
=============================================================================
