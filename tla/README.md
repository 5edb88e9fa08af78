# A verification of tkmcollector

`tkmcollector` keeps performance data of many devices in a database. On every
device runs a *monitor* (taskmonitor); the collector connects to it over TCP,
asks for a session, polls for data on three timers and files what comes back.
An operator drives it with `tkmcontrol` over a UNIX socket.

These modules model the collector process as a whole, the client that drives
it, and three parts in more detail: the connection to PostgreSQL, the way of the
data from the timers to the tables, and the command line. TLC checks them on
small instances; TLAPS proves the theorems listed at the end for every
instance. Paths below are relative to `src/`.

## The program

One thread runs the event loop of bswinfra (a git submodule, not part of the
repository). The loop polls *sources*: queues, sockets, timers. Three kinds of
component own an `AsyncQueue` of requests, `Dispatcher`, `IDatabase` and each
`MonitorDevice`; a handler pops one request, runs to completion and may push
requests on any queue. Components share no other state, except that a handler
of one may call `getDevice()` or dereference a device's connection.

| Component | State it keeps | Operations | Interaction |
|---|---|---|---|
| `MonitorDevice` (`source/MonitorDevice.cpp`) | state, session hash, connection, three timers, list of data sources | Connect, Disconnect, SendDescriptor, RequestSession, SetSession, StartCollecting, StopCollecting, StartStream, StopStream, ProcessData, Status | pushes to itself, to the database (AddSession, EndSession, AddData), to the dispatcher (SendStatus) |
| `Connection` (`source/Connection.cpp`) | socket, whether the loop polls it | connect, read a message, finalize, destructor | pushes to its device; its destructor sets the device's state |
| update lanes (`MonitorDevice.cpp:95-455`, `DataSource.h`) | armed timers, data sources | start, stop, tick | write requests on the device's connection |
| `DeviceManager` (`source/DeviceManager.cpp`) | list of devices | addDevice, getDevice, loadDevices, cleanSessions | pushes LoadDevices and CleanSessions |
| `SQLiteDatabase`, `PQDatabase`, `Query` | tables; PostgreSQL: the connection | twelve requests | pushes to the dispatcher, to itself, creates devices |
| `Dispatcher` (`source/Dispatcher.cpp`) | nothing but its queue | thirteen requests | forwards to the database or a device, writes answers to clients |
| connection of `PQDatabase` (`PQDatabase.cpp:66-130`) | `pqxx::connection`, open or not | reconnect, runTransaction | every handler of `PQDatabase` runs on it |
| `UDSServer`, `ControlClient`, `IClient` | sockets, a reference from every request in flight | accept, read the descriptor, read a command, hang up | pushes to the dispatcher, reads the descriptor with the loop blocked |
| `Application`, `Main` | options | boot, signals, erase option | pushes Quit and InitDatabase |
| `tkmcontrol`: `main()` (`control/Main.cpp`) | flags and pointers of the options | getopt, checks, requests | hands its requests to `Command` |
| `tkmcontrol`: `Dispatcher`, `Connection`, `Command` | its own loop and queue, a socket, an event that fires with the session | connect, descriptor, session, one command, print, quit | the peer of `UDSServer` and `ControlClient` |

### What is hard in it

* **Requests in flight outlive what they were decided on.** A StartCollecting
  looks at the state and pushes RequestSession, Connect pushes SendDescriptor, a
  read pushes SetSession; the connection may be gone when they are handled.
  Some handlers then dereference a null pointer, one of them (SetSession)
  brings the device back to life without a connection.
* **A session is known in four places**: the monitor, the device's session
  hash, the rows of the table, and the requests queued between them. Which
  session data belongs to, and who ends it, depends on their order.
* **Sessions outlive the process.** A process that crashes, quits or is killed
  leaves them open; the next one cleans up while it already serves clients.
* **Queries fail one by one.** A handler runs up to three, each its own
  transaction, and reacts to each failure differently, and differently in the
  two backends.
* **The schema means different things** to SQLite and PostgreSQL: foreign keys,
  cascades, keys of new rows, sub-selects, and what is left of a script that
  fails in the middle.
* **A connection that is lost does not say so.** The PostgreSQL connection is
  believed open until a transaction fails on it, and only InitDatabase replaces
  it; a commit may succeed and its answer be lost.
* **Two event loops and a socket.** `tkmcontrol` waits for a session before it
  sends its command, and quits at the first status; either end may go at any
  step, with messages still in the socket. The requests in the collector keep
  the client object of a peer that has hung up.
* **One loop, blocked.** The descriptor of a new client is read on the loop's
  thread.
* **The same fact in many places.** A source of data is a case in a switch for
  each lane, a callback, a message, a case of `doAddData`, an overload of
  `addData`; an option of `tkmcontrol` is in two tables and eleven lists.

### What makes each component correct

* device: the connection and the state agree; the last session of a device that
  disconnected is ended; data is filed under the session it was collected for;
  a device that stopped asks for nothing
* manager: every device in the table is known
* database: one row per device, one row per session hash, each request answered
  whatever query fails
* dispatcher and clients: each request is answered exactly once and eventually
* process: what a dead process left open is closed by the next
* recording: what was sent is in the right table, whole, under its own session
* lanes: what the session asks for is polled, and nothing else
* PostgreSQL connection: Okay means committed; a lost connection can be repaired
* `tkmcontrol`: the command is sent once, its answer is printed, the run ends
* command line: one command is sent, from values that were given

## The modules

| Module | Models | State |
|---|---|---|
| `CollectorBase` | requests, the three kinds of queue, the process | `dispatcherQueue`, `dbQueue`, `deviceQueue`, `process`, `epoch` |
| `MonitorDevice` | device, connection, timers, and the monitor at the other end | `state`, `connection`, `sessionHash`, `lanes`, `orphanLanes`; monitor: `wantSession`, `askedData`, `monitorSession`, `issued` |
| `DeviceManager` | the list of devices | `managed` |
| `Database` | the handlers of both backends over the tables | `tables`, `devices`, `sessions`, `data`, two serials |
| `Dispatcher` | dispatcher and control clients | `requested`, `replies` |
| `Collector` | composition, boot, death, restart, fairness | |
| `CollectorProperties` | the properties, and the refinement of `ControlService` | |
| `ControlService` | the abstract promise of the control interface: a request is asked, answered once, or the process ends | `asked`, `answers`, `alive` |
| `Control` | `tkmcontrol`: its dispatcher, `Connection`, `Command`, and the socket | `control`, `command`, `queue`, `trigger`, `source`, `output`; socket: `link`, `toCollector`, `toControl`, `backlog`, `server`, `socketPath` |
| `ControlSocket` | `UDSServer`, `ControlClient`, and the composition with a collector that is `ControlService` | `boots`, `listed`, and those of `ControlService` |
| `ControlProperties` | the properties | |
| `UpdateLanes` | the three timers, what the session names for them, `configUpdateLanes` | `plan`, `dataSources`, `armed`, `current`, `asked`, `session`, `requests` |
| `Recording` | composition with the database as scripts of statements | `backend`, `dbRequests`, `tables`, `rows` |
| `RecordingProperties` | the properties, and the refinement of `SampleStore` | |
| `SampleStore` | the abstract promise of the database: a session is opened once and ended once, data is recorded while its own session is open, and stays | `atomic`, `sessions`, `recorded` |
| `PQConnection` | server, connection, transactions, reconnection; with its properties | `server`, `connection`, `process`, `queue`, `answers`, `committed` |
| `CommandLine` | `main()` of `tkmcontrol`; with its properties | `line`, `rest`, `given`, `value`, `outcome`, `requests` |
| `MCCollector`, `MCControl`, `MCRecording`, `MCConnection`, `MCCommandLine` | constants for TLC | |
| `CollectorSafetyProofs`, `CollectorRecoveryProofs`, `CollectorSessionProofs`, `CollectorServiceProofs`, `ControlProofs`, `RecordingProofs`, `PQConnectionProofs`, `CommandLineProofs` | theorems | |

By `EXTENDS`: `CollectorBase` ← `MonitorDevice` ← `DeviceManager` ← `Database`,
`Dispatcher` ← `Collector` ← `CollectorProperties`; `Control` ← `ControlSocket`
← `ControlProperties`; `UpdateLanes` ← `Recording` ← `RecordingProperties`.
`ControlService` is in between: `CollectorProperties` has it as
`INSTANCE ControlService WITH asked <- ..., answers <- ..., alive <- ...`, and
`Collector` implements it (`ImplementsService`); `Control` has it as its
environment. So what `tkmcontrol` is proved to do rests on what the collector is
proved to promise, and neither model contains the other. In the same way
`RecordingProperties` has `INSTANCE SampleStore WITH atomic <- ...,
sessions <- ..., recorded <- ...`, and `Recording` implements it (`StoreKept`): the
keys, the thirteen tables, the scripts and the two queues are gone from the
promise, what is left is which rows of which sample there are and which sessions
are open.

### How they correspond to the code

*Steps.* A request handler is one action (`Device_doConnect`,
`DB_doAddDevice`, ...), from the pop of its request to its last push: the loop
is single threaded and never leaves a handler half way. A message read from a
connection is one action; the loop may read several in one callback, which is
several such actions in a row. A timer that fires is one action. Any order of
actions of different sources is possible, the order within a queue is not
changed.

*Requests.* A request keeps the action, the client, the device, the session
hash, the Forced or Status argument and, for collected data, which session the
monitor collected it for (`payload`, a ghost that no handler reads). The number
of a client's request stands for its client: `tkmcontrol` sends one command per
run. Faulty variants of some operators stand before them (`Pushed_first` before
`Pushed`): they are the bugs each property is tested against, and nothing else
uses them.

*Connection.* `none`: `m_connection` is null. `active`: the loop polls it.
`removing`: its callback returned false or `remEventSource()` was called, and
the loop has not finalized it; nothing is read any more, but handlers can still
write to it. `Connection_finalize` runs the finalizer (`deleteConnection`, which
stops the timers) and the destructor (`updateState(Disconnected)`).

*Timers.* `lanes` says whether the timers the device points at are armed;
`orphanLanes` counts armed sets it no longer points at.

*Crashes.* A call through the null connection, the unchecked answer of
`gethostbyname()` and the erase option without a database end the process:
`process = "crashed"`. The properties speak of what the process guarantees
while it lives, and of what the next one repairs.

*Database.* Rows keep their key, hash, owner and whether they ended. `started`
is the life of the process that wrote a session, the model's StartTimestamp.
The eleven data tables are one. Every query can fail when `"query"` is in
`Faults`, and fails when the tables do not exist. `Backend` chooses what the
two engines do differently: cascades, keys, sub-selects, the order of checks in
`doAddDevice`, and the query for the sessions of one device, which compares
integers with LIKE and never succeeds on PostgreSQL.

*Environment* (external, modelled from its use): the monitor answers each
CreateSession with one of `Issues[d]` or with an error, and each data request
with data of the connection's session or with an error; a connection can fail,
break or not resolve; a descriptor may not be sent; a database may not open; a
signal may arrive. `Faults` says which of these a model enables.

*tkmcontrol.* Each run has a queue and a loop of its own; a handler is one
action, and so is one message read. The eleven command handlers build a message
and write it: one action, `Control_doCommand`. A message is named by what it
asks or says. The port of an AddDevice is read with `std::stoi()`, which may throw
and end the run (`Control_doAddDeviceThrows`). `source` is the `Connection` in the loop: its finalizer pushes
Quit. `link` is the collector's end: in the backlog of `listen()`, being read a
descriptor from (`reading`: every other action of the collector is disabled), a
`ControlClient`, dropped by the loop and kept by its requests (`detached`), or
closed. A socket delivers what was written before the end of file, in order. A
write to a closed socket fails or kills the writer: `tkmcontrol` does not ignore
SIGPIPE (the collector does, `source/Main.cpp:185`), and whether the writer of
the submodule does cannot be seen here. A handler that returns false is modelled
as one that returns true, for the same reason: `AsyncQueue` is external. A
`UDSServer::start()` that fails is in `Collector` (the boot faults); `ControlSocket`
has it only as a collector that ends before it accepts anybody.

*PostgreSQL connection.* `stale` is a connection that is lost and says it is
open. A transaction on an open connection returns, or the server goes in the
middle of it, before or after the commit; on any other it throws. What a handler
runs is its `Script`: one transaction, several of which each needs the one before
(`Then`: a check and an insertion for AddDevice, with a removal in between when it
is forced), or two regardless (a forced InitDatabase); a check may turn the request
down (`TurnedDown`). `CannotReconnect` is the constructor
of `pqxx::connection` that throws out of the handler, the loop and `main()`.

*Recording.* A request becomes a sequence of statements, as `Query` writes them.
A script stops in the middle for a reason of its own (`Breaks`) or because a
statement cannot run; PostgreSQL keeps nothing of it, SQLite what ran before. A
row carries the sample it came from, a ghost. `After` says of the first n
statements of a script at once what they do to the tables: the statements of one
script all create, all drop or all insert, so their order only decides which of
them ran (`StatementByStatement`). `createTables` and `dropTables` have an order each
(`CreateOrder`, `DropOrder`). `Configured` are the sources `configUpdateLanes` has
a case for: all but SysProcVMStat. `Configuration` replaces the list of sources at
once; the code removes each entry while it walks over the list and commits after
it (`source/MonitorDevice.cpp:308-311`), in a container of the submodule that is
taken to remove what it is told to.

*Command line.* A word is an option, long or short, or anything else. The four
`getopt_*` actions are the turns of its loop, `main` the checks in their order
and the requests; the outcome is refused, help or run. Other forms `getopt_long()`
takes (`--opt=value`, abbreviated names, letters run together, `--`) are not words
of the model. `Listed` and `HelpLine` are the lines of the help text
(`control/Main.cpp:244-274`): an option, its parameters, with `--force` or without;
`--config` may stand in any line and is left out of them.

## The runs

`CHECK_DEADLOCK FALSE` everywhere: a collector whose clients have sent all their
requests rightly waits for ever, a process that exited in its last life stops,
and so does a run of `tkmcontrol` and a line that is parsed.

| Run | Configuration | Asks | Result |
|---|---|---|---|
| `sessions` | 1 device, 2 hashes, 4 requests, PostgreSQL; connect, descriptor, eof faults | `TypeOK`, `RequestAnsweredOnce`, `DisconnectedSessionEnded`, `DataAttribution`, `ConnectedHasConnection` | holds |
| `recovery` | SQLite, 2 hashes that repeat, 3 requests, 2 lives; boot, eof, signal | `StaleSessionsEnded`, `SessionHashUnique`, `ImplementsService` | holds |
| `administration` | every command, 3 requests, PostgreSQL; query, write, resolve faults, erase option | `RequestAnsweredOnce`, `DeviceRowUnique`, `ImplementsService` | holds |
| `liveness` | 2 devices, 1 hash, SQLite, 2 requests, 2 lives; boot, descriptor, eof, signal; `FairSpec` | `DevicesLoaded`, `RequestEventuallyAnswered`, `SessionEventuallyEnded` | holds |
| `control` | 2 runs of `tkmcontrol` with GetDevices or QuitCollector, 2 starts of the collector; accept, signal, end | `TypeOK`, `CommandSentOnce`, `AnswerPrinted`, `PendingKeepsSocket` | holds |
| `control_live` | 2 runs with AddDevice or QuitCollector; silent; `FairSpec` | `ControlEnds`, `QuitDelivered`, `SocketsClosed` | holds |
| `recording` | both backends, 2 sessions with data of the same source or of none, 2 starts, answers of 2 entries, 1 request of the administrator, scripts that break after 0, 1 or 4 statements | `TypeOK`, `SampleWhole`, `SamplePrefix`, `RowsKeepSession`, `InitComplete`, `PlanFollowed`, `StoreKept` | holds |
| `recorded` | every source on every lane, every two sources on one, 1 session, PostgreSQL; `FairSpec` | `TablesNotShared`, `EventuallyRecorded` | holds |
| `connection` | 4 requests of every kind, 2 outages, 1 restart; `FairSpec` | `TypeOK`, `OkayIsCommitted`, `TwoInitsReconnect`, `AnsweredOrDown` | holds |
| `command_line` | every line of up to 3 words, the lines of the help text with each of two words for each parameter, every two commands together | `TypeOK`, `OneCommandOnly`, `NoNullArgument`, `ShortLinesRun` | holds |
| `disconnect_loaded` | 1 request | `DisconnectSurvives` | violated |
| `long_lines` | the lines of the help text | `LongLinesRun` | violated |

**Bounds.** `MaxRequests` 3 or 4: connect, start, stop or lose, and once more,
is the longest sequence that reaches every state of a device and every pair of
sessions; longer ones repeat. Two hashes are a session and its successor. Two
devices matter where they share something, the manager and the devices table;
sessions of different devices share only hashes, and a collision of hashes is
in `recovery` between sessions of one device. Two lives are the one that
leaves sessions and the one that finds them. `MaxBacklog` bounds only how far a
monitor's data answers run ahead of the collector. Hashes are symmetric in
`sessions` and `recovery`, which have no liveness property.

Two runs of `tkmcontrol` are the one that asks and the one that ends the
collector or blocks its loop; GetDevices stands for the two commands with a
list, AddDevice for those without, and no other difference between commands
reaches the sockets. `MaxBoots` 2 is a collector that ends and comes back while
runs of its former life go on. Two sessions and `MaxStarts` 2 give one change of the
lanes while the earlier timers are armed, from a source to none or back, or data
of both sessions in one table; answers of two entries make scripts of two
statements, so that one breaks before, in and after its middle, and the scripts
of tables break after the fourth, with sessions and some of the tables of data
dropped and others not; one request of the administrator at any moment is one
forced initialization between any two steps of a session. Which table a source
has is asked of every two sources in `recorded`. `recorded` enables no failure: what it
claims is not promised with one. Four requests are a loss, the one that finds
out, the one that repairs and one more; two outages let the server go during the
repair. Three words reach every option with its argument and a third; pairs of
whole commands reach the checks that exclude each other.

**Fairness.** `Collector!FairSpec` is weakly fair to the database's queue, the
dispatcher's queue, each device's queue and the finalization of a source: the
loop serves every ready source and drops every source it was told to. Nothing
is assumed of clients, monitors, timers and signals. `ControlSocket!FairSpec`
is weakly fair to what either loop serves for each run, to `accept()` and to a
QuitCollector that was read; a receive timeout passes (`source/UDSServer.cpp:45` sets
SO_RCVTIMEO). Starting, stopping and interrupting programs is up to the user.
`Recording!FairSpec` is fair to the queues, to each lane's timers, which are
armed until they are removed and go off again and again, and to the answer of a
connected monitor. `PQConnection!FairSpec` is fair to the request at the head of
the queue; the server need never return.

### What the violated runs show

* `disconnect_loaded`: `doDisconnect` looks at the state only. A loaded device
  has no connection, and the process dies where "Device not connected"
  (`source/MonitorDevice.cpp:632`) would be the answer.
* `long_lines`: `longopts` gives connect, disconnect, startCollecting and
  stopCollecting a required argument, the string of letters gives them none, and
  so does the help text. `--connect --Id x` takes `--Id` for the argument and is
  refused; `-c -I x` runs. `command_line` shows that the short forms make the
  requests the help says, with one exception that `ShortLinesRun` states: `-q` on
  its own.

Seen while modelling and not given a run:

* The help text lists `--quit, -q <noarg>` and requires nothing of it
  (`control/Main.cpp:244`); `main()` refuses it without `--force`
  (`control/Main.cpp:210-215`). `ShortLinesRun` and `LongLinesRun` ask for that
  refusal, and for the request when `--force` is there.
* The comment in `doAddSession` (`source/SQLiteDatabase.cpp:553-554`) promises
  that the device is disconnected when a hash is there already; the code
  replaces the row.
* `ON DELETE CASCADE` is off in SQLite without a pragma the program does not
  run, and keys are used again: with `Backend = "sqlite3"` and RemoveSession
  among the commands, `DataAttribution` does not hold. `RowsKeepSession` is
  claimed for PostgreSQL for the same reason.
* Two StartCollecting before the first SetSession leave a set of timers nobody
  can stop (`source/MonitorDevice.cpp:112`); they poll what the present session
  names (`PlanFollowed`).
* SysProcVMStat has a table and an overload of `addData`, and no lane has a case
  for it (`source/MonitorDevice.cpp:313`).
* `doGetSessions` for one device never succeeds on PostgreSQL
  (`source/Query.cpp:752-758` compares integers with LIKE).
* A device that disconnects while it has two open sessions leaves the earlier
  one to the next start of the process.
* A failed `accept()` takes the server out of the loop while its socket goes on
  listening (`source/UDSServer.cpp:35`): clients that come later wait for ever.
  `ControlEnds` and `SocketsClosed` are claimed for an `accept()` that does not
  fail.

## The proofs

Assumptions on the constants are the named `ASSUME`s of the modules: the null
values are not members of the sets they extend, bounds are naturals, the
provisioned devices are finitely many. They say nothing of how many devices,
hashes, requests or lives there are, which faults occur or which backend is used.

| Theorem | States | Under | Argument |
|---|---|---|---|
| `TypeCorrect` | `Spec => []TypeOK` | | `TypeOK` is inductive. What makes it so is in `RequestsOf`: a request to add a device names one (else the devices table would get a row without a device) and a SendStatus has a status (else a client could read something else). |
| `ConnectedSafe` | `Spec => []ConnectedHasConnection` | | Inductive with `TypeOK`: the state becomes Connected only where the connection is there, and the finalizer sets connection and state together. |
| `SessionHashSafe` | `Spec => []SessionHashUnique` | reliable queries | Only the database writes its tables; an insertion happens after the removal of every row with the hash; ending rows keeps their hashes apart. |
| `DeviceRowSafe` | `Spec => []DeviceRowUnique` | PostgreSQL, or reliable queries | An insertion happens only where no row of the device is left. |
| `DevicesLoadedSafe` | `Spec => []DevicesLoaded` | reliable queries | With `NothingWithoutTables` (no tables, no rows), which reliable queries keep: a LoadDevices that finds no tables has nothing to load. A queued LoadDevices leaves the queue only as its head, and is behind every insertion. |
| `StaleSessionsSafe` | `Spec => []StaleSessionsEnded` | reliable queries | With `NothingWithoutTables`. CleanSessions leaves the queue only by putting an EndSession there for every open session, an EndSession only by ending every row of its hash; rows of this life are not stale; a boot queues CleanSessions or a Quit, and a Quit stays until the process is gone. |
| `DisconnectedSessionSafe` | `Spec => []DisconnectedSessionEnded` | reliable queries, `OwnHashes`: two monitors never issue the same hash | With `NothingWithoutTables` and `HashesOwned`: the hash of a device, and of every SetSession in its queue, was issued by its own monitor. So an AddSession pushed behind an EndSession of the same hash comes from the device itself, which is then in state SessionSet. Positions in the queue matter: `EndsAfterAppend` and `EndsAfterPop` say what pushing and popping do to "an end with no opening behind it". |
| `DataAttributionSafe` | `Spec => []DataAttribution` | PostgreSQL | Inductive with `DevicesInSession`: in a device's queue, data is of the session that the last SetSession before it set, or of the device's own; `QueueFiled`: an AddData in the database's queue names the session it was collected for; `KeysDrawn`: keys are below the serial, so no row gets one that was used. Any fault may happen. |
| `RequestAnsweredOnceSafe` | `Spec => []RequestAnsweredOnce` | | A request is followed by its client. `ServiceInv` = `TypeOK` and, for each request, one of: not sent, in exactly one place of one queue, answered once, lost with the process. Every step has one of a few shapes: it answers, passes on, absorbs what has no client, hears a client, or leaves the queues alone; one lemma for each shape. |
| `ServiceImplemented` | `Spec => ImplementsService` | | From the same invariant: each shape is an Ask, an Answer, an End or a Boot of `ControlService`, or a stutter. |
| `PQConnectionProofs!TypeCorrect`, `OkayIsCommittedSafe`, `TwoInitsSafe` | `TypeOK`, `OkayIsCommitted`, `TwoInitsReconnect` | | `Transacted` relates the world before and after a transaction, and is shown of every outcome of every script; a transaction that returned has committed, one that fails closes the connection, and a connection that is closed at an InitDatabase is replaced. |
| `ControlProofs!TypeCorrect`, `CommandSentOnceSafe`, `PendingKeepsSocketSafe`, `AnswerPrintedSafe` | `TypeOK`, `CommandSentOnce`, `PendingKeepsSocket`, `AnswerPrinted` | | A run is at one of eight stages at a time (new, opening, asking, granted, fired, queued, sent, asked), on its way through two queues and two directions of a socket; every step takes it to the next or loses it. That needs `DescriptorFirst`: what `UDSServer` reads first is the descriptor and no other follows, else a command could be read for one. `NothingAsked`: only a `ControlClient` has made requests. For the answers, `AnswerInv`: what the collector wrote is in the run's queue ahead of any Quit, or still to be read while no Quit is queued (`Coming`); a run has a reason to quit (`MayQuit`): its status is printed, its command is QuitCollector, or its socket is closed; and it sees the end of the file only when everything is read (`ReadOut`). |
| `CommandLineProofs!TypeCorrect`, `OneCommandSafe`, `NoNullArgumentSafe` | `TypeOK`, `OneCommandOnly`, `NoNullArgument` | lines of words the model knows, of any length | `main()` makes every request in one step, from the flags and values at the end of the line. Ten of the eleven lists of excluded options are complete: of two top level options at least one excludes the other (`OneTopLevel`). |
| `ShortLinesRunSafe` | `Spec => []ShortLinesRun`: a line of the help text in short form, with `-f` or not, makes the request it is for; `-q` alone is refused | | `HelpFollowed`: a line of the help text is at its start, or so many of its parameters have been read and what is left of the line are the others and perhaps `-f` (`Past`), or it has been run as its command (`-q` alone: refused). Each turn of the loop takes it one value further. |
| `StatementByStatement` | the tables after n + 1 statements of a script are those after n of them, and the effect of the next | | Statements of one kind: `AfterCreates`, `AfterDrops` and `AfterInserts` then say what a whole script leaves, wherever it stops. |
| `RecordingProofs!TypeCorrect` | `Spec => []TypeOK` | | `TypeInv`, which is inductive, adds to the types that the SetSession requests in a device's queue are numbered from its session on (`Numbered`), so that no session is counted beyond the bound; that the starts made and the starts still to come are within theirs; and that every row of a table has its kind. |
| `PlanFollowedSafe` | `Spec => []PlanFollowed` | | A device becomes collecting only by a start, which configures the lanes from the plan there is; a plan comes with a new state, and with another start. |
| `TablesNotSharedSafe` | `Spec => []TablesNotShared` | | `RowsFiled`: a row is in the table of its sample's source, and no two sources have the same. |
| `SamplePrefixSafe`, `SampleWholeSafe` | `SamplePrefix`, `SampleWhole` | | `RowsFirst`: the rows of a sample are the first n of its script, all of them with PostgreSQL. A second insertion of the same sample adds rows from the first on; a drop empties a table or leaves it. |
| `RowsKeepSessionSafe` | `Spec => []RowsKeepSession` | PostgreSQL | `SessionInv`: data queued for a session is of it (`DataOfSession`; `Numbered` says so of the device's queue, where it comes from); keys of the sessions table are unique, as a new one is larger than all (`Largest`); and with PostgreSQL a row refers to a session of its hash, as tables are dropped all together. |
| `StoreKeptSafe` | `Spec => StoreKept` | | Every step is an `Open`, an `End`, a `Record` or a `Forget` of `SampleStore`, or a stutter, from `SessionInv`, `RowsFirst` and `OpenedOnce`: the AddSession requests in the database's queue open sessions in the order of their numbers, each above those in the table, so that none is opened a second time (every session has a hash of its own here; what `doAddSession` does about a hash that repeats is in `Database`). `QueueMoves` says that every step leaves the queue alone, takes its head or pushes one request. Rows are added only when the sub-select finds the session open; they are named by `DataOfSession` for the session they were collected for. A forced InitDatabase that drops a table of data has dropped the sessions before: the order of `dropTables` makes any part of it a `Forget`. |
| `InitCompleteSafe` | `Spec => []InitComplete` | | Creating is never undone but by the InitDatabase that drops, and an Okay is the end of a whole script of creations. |

`OwnHashes` is needed: without it another device may open the session again
behind its end, and only that device's own disconnection ends it. Reliable
queries are needed: every failure in a database handler is logged and dropped.

`CollectorSafetyProofs` has one lemma for each kind of step, then one for each
property. `CollectorRecoveryProofs` starts with what appending and
popping do to the members of a queue, then who may take what off which queue
(`DatabaseQueueGrows`, `DatabaseQueueKeeps`, `QuitStays`); `CollectorSessionProofs`
adds the order of the requests in a queue, `CollectorServiceProofs` their
clients. `ControlProofs` has one lemma for what each program may do to a run's
stage and one that steps of a run leave the others alone.

Every invariant and every action property the passing runs check is proved. Out
of the prover's reach, and checked by TLC only, are the liveness properties:
`RequestEventuallyAnswered`, `SessionEventuallyEnded`, `ControlEnds`,
`QuitDelivered`, `SocketsClosed`, `EventuallyRecorded` and `AnsweredOrDown` need
fairness, and so ENABLED.

## What is not modelled

* Partial messages: a message arrives whole. `EnvelopeReader` and
  `EnvelopeWriter` are in a submodule that is not part of the repository.
* The lengths of the intervals: a timer may go off at any time.
* The statements of one query in `Database`: there, creating and dropping the
  tables happen or fail as a whole with either backend. `Recording` has them
  statement by statement.
* Two devices with the same hash: the hash is taken over the address and the
  port written one after the other (`shared/Helpers.cpp:30`); a device is its
  hash in every module.
* The configuration file, the collector's own options, the daemon mode, the
  watchdog, logging, packaging: no state a property could be about. The tests
  in `tests/` are stubs of another program.
* The content of data and sessions beyond what the properties tell apart.

## Plan

1. *(done)* The collector: `CollectorBase` to `CollectorProperties`, type
   correctness and the safety theorems.
2. *(done)* `ControlService`, and `Collector` implements it; `Control` and
   `ControlSocket` on top of it; `UpdateLanes` and `Recording`; `PQConnection`;
   `CommandLine`; their runs.
3. *(done)* Theorems: the refinement, `RequestAnsweredOnce`, the connection, the
   sockets and the answers of `tkmcontrol`, the command line and the attribution
   of data.
4. *(done)* Theorems: the recording, its scripts of statements, the lanes, and
   the lines of the help text; `SampleStore`, and `Recording` implements it.
5. An abstract specification of the sessions of `Collector` with its refinement,
   as `SampleStore` is one of the data of `Recording`.
