------------------------------ MODULE Control ------------------------------
(***************************************************************************)
(* tkmcontrol and the control socket.  Each run of tkmcontrol is a process *)
(* with an event loop of its own: it connects, sends a descriptor, asks    *)
(* for a session, sends the one command it was started with and quits when *)
(* the status of that command is printed.  At the other end UDSServer      *)
(* accepts the connection, reads the descriptor without going back to the  *)
(* loop, and hands the socket to a ControlClient.  What the rest of the    *)
(* collector does with a request is the promise of ControlService.         *)
(*                                                                         *)
(* A socket delivers what was written before the end of file, in order,    *)
(* whichever end was closed.  A message is named by what it asks or says.  *)
(***************************************************************************)
EXTENDS Integers, Sequences, FiniteSets

CONSTANTS
    Controls,      \* runs of tkmcontrol
    Commands,      \* the commands they may be started with
    MaxBoots,      \* bound: times the collector is started
    SocketFaults   \* the failures of the environment that a model enables

CommandActions ==
    {"InitDatabase", "QuitCollector", "GetDevices", "GetSessions", "RemoveSession",
     "AddDevice", "RemoveDevice", "ConnectDevice", "DisconnectDevice",
     "StartCollecting", "StopCollecting"}

\* "accept": accept() fails; "silent": a client connects and stops; "signal": a
\* client is interrupted; "end": the collector exits or crashes on its own.
ASSUME ControlAssumption ==
    /\ IsFiniteSet(Controls) /\ Cardinality(Controls) <= 10  \* the backlog of listen()
    /\ Commands \subseteq CommandActions
    /\ MaxBoots \in Nat
    /\ SocketFaults \subseteq {"accept", "silent", "signal", "end"}

Listing == {"GetDevices", "GetSessions"}

VARIABLES
    control,      \* the process of each run: how far it has come, how it ended
    command,      \* the command the run was started with
    queue,        \* its Dispatcher::m_queue
    trigger,      \* its Command event: "waiting", "fired" or "done"
    source,       \* its Connection in its event loop
    output,       \* what it printed
    link,         \* the collector's end of its socket
    toCollector,  \* bytes written by the run and not read by the collector
    toControl,    \* bytes written by the collector and not read by the run
    backlog,      \* connections accept() has not returned yet
    server,       \* the UDSServer source: "absent", "listening" or "removed"
    socketPath,   \* the socket's file exists
    boots,        \* times the collector was started
    listed,       \* runs whose list was written
    asked, answers, alive  \* ControlService

controlVars == <<control, command, queue, trigger, source, output>>
socketVars == <<link, toCollector, toControl, backlog, server, socketPath>>
collectorVars == <<boots, listed, asked, answers, alive>>
vars == <<controlVars, socketVars, collectorVars>>

Requests == Controls \X {"session", "command"}

Service == INSTANCE ControlService WITH Statuses <- {"Okay", "Error"}

ControlActions ==
    CommandActions \cup
    {"Connect", "SendDescriptor", "RequestSession", "SetSession", "CollectorStatus",
     "SessionStatus", "List", "Quit"}

\* What goes over a socket in either direction, and what a run prints.
Sent == CommandActions \cup {"Descriptor", "RequestSession"}
Said == {"SetSession", "SessionStatus", "CollectorStatus", "List"}
Printed == {"Requested", "Requested failed", "CollectorStatus", "List", "Connection failed"}

ControlsTyped ==
    /\ control \in [Controls -> {"new", "running", "stopped", "exited", "failed", "killed"}]
    /\ command \in [Controls -> Commands]
    /\ queue \in [Controls -> Seq(ControlActions)]
    /\ trigger \in [Controls -> {"waiting", "fired", "done"}]
    /\ source \in [Controls -> {"idle", "ready", "removing", "removed"}]
    /\ output \in [Controls -> Seq(Printed)]

SocketsTyped ==
    /\ link \in [Controls -> {"none", "backlog", "reading", "client", "detached", "closed"}]
    /\ toCollector \in [Controls -> Seq(Sent)]
    /\ toControl \in [Controls -> Seq(Said)]
    /\ backlog \in Seq(Controls)
    /\ server \in {"absent", "listening", "removed"}
    /\ socketPath \in BOOLEAN

CollectorTyped ==
    /\ boots \in Nat
    /\ listed \subseteq Controls
    /\ Service!ServiceTypeOK

TypeOK == ControlsTyped /\ SocketsTyped /\ CollectorTyped

\* A collector runs, or ran and left its socket behind, or never ran here.
Init ==
    /\ control = [c \in Controls |-> "new"]
    /\ command \in [Controls -> Commands]
    /\ queue = [c \in Controls |-> <<>>]
    /\ trigger = [c \in Controls |-> "waiting"]
    /\ source = [c \in Controls |-> "idle"]
    /\ output = [c \in Controls |-> <<>>]
    /\ link = [c \in Controls |-> "none"]
    /\ toCollector = [c \in Controls |-> <<>>]
    /\ toControl = [c \in Controls |-> <<>>]
    /\ backlog = <<>>
    /\ listed = {}
    /\ Service!ServiceInit
    /\ boots = IF alive THEN 1 ELSE 0
    /\ server = IF alive THEN "listening" ELSE "absent"
    /\ socketPath \in {alive, TRUE}

-----------------------------------------------------------------------------
(* tkmcontrol.                                                             *)

HasEnded(c) == control[c] \in {"exited", "failed", "killed"}

\* The request the dispatcher of run c handles next.
Handles(c, action) ==
    /\ control[c] = "running"
    /\ queue[c] # <<>>
    /\ Head(queue[c]) = action

\* The handler has popped its request and pushed actions.
Pop(c, actions) == queue' = [queue EXCEPT ![c] = Tail(@) \o actions]

Push(c, action) == queue' = [queue EXCEPT ![c] = Append(@, action)]

\* Faulty variant: the request is sent by the name it has in the queue.
Write_action(c, message) ==
    toCollector' = IF link[c] = "closed" THEN toCollector
                   ELSE [toCollector EXCEPT ![c] = Append(@, Head(queue[c]))]

\* Nothing written to a socket whose other end is closed arrives.
Write(c, message) ==
    toCollector' = IF link[c] = "closed" THEN toCollector
                   ELSE [toCollector EXCEPT ![c] = Append(@, message)]

\* A write to a closed socket fails, or raises SIGPIPE.
WriteEnds(c) ==
    control' \in {control} \cup (IF link[c] = "closed" THEN {[control EXCEPT ![c] = "killed"]} ELSE {})

\* main(): the connection is requested before the loop runs.
Control_start(c) ==
    /\ control[c] = "new"
    /\ control' = [control EXCEPT ![c] = "running"]
    /\ Push(c, "Connect")
    /\ UNCHANGED <<command, trigger, source, output, socketVars, collectorVars>>

\* Without the socket's file connect() throws and main() reports the failure;
\* a socket nobody listens on is a failed connection.
Control_doConnect(c) ==
    /\ Handles(c, "Connect")
    /\ \/ /\ ~socketPath
          /\ control' = [control EXCEPT ![c] = "failed"]
          /\ UNCHANGED <<queue, source, output, socketVars>>
       \/ /\ socketPath /\ server = "absent"
          /\ output' = [output EXCEPT ![c] = Append(@, "Connection failed")]
          /\ Pop(c, <<"Quit">>)
          /\ UNCHANGED <<control, source, socketVars>>
       \/ /\ socketPath /\ server # "absent"
          /\ source' = [source EXCEPT ![c] = "ready"]
          /\ link' = [link EXCEPT ![c] = "backlog"]
          /\ backlog' = Append(backlog, c)
          /\ Pop(c, <<"SendDescriptor">>)
          /\ UNCHANGED <<control, output, toCollector, toControl, server, socketPath>>
    /\ UNCHANGED <<command, trigger, collectorVars>>

Control_doSendDescriptor(c) ==
    /\ Handles(c, "SendDescriptor")
    /\ Write(c, "Descriptor")
    /\ WriteEnds(c)
    /\ IF link[c] = "closed" THEN Pop(c, <<"Quit">>) ELSE Pop(c, <<"RequestSession">>)
    /\ UNCHANGED <<command, trigger, source, output,
                   link, toControl, backlog, server, socketPath, collectorVars>>

Control_doRequestSession(c) ==
    /\ Handles(c, "RequestSession")
    /\ Write(c, "RequestSession")
    /\ WriteEnds(c)
    /\ Pop(c, <<>>)
    /\ UNCHANGED <<command, trigger, source, output,
                   link, toControl, backlog, server, socketPath, collectorVars>>

\* The session is what the command waits for.
Control_doSetSession(c) ==
    /\ Handles(c, "SetSession")
    /\ trigger' = [trigger EXCEPT ![c] = "fired"]
    /\ Pop(c, <<>>)
    /\ UNCHANGED <<control, command, source, output, socketVars, collectorVars>>

\* Faulty variant: the callback asks to be kept in the event loop.
TriggerAfter_kept(c) == "fired"

\* The callback of Command returns false: the loop drops it.
TriggerAfter(c) == "done"

\* The event's callback pushes the stored request.
Command_callback(c) ==
    /\ control[c] = "running"
    /\ trigger[c] = "fired"
    /\ trigger' = [trigger EXCEPT ![c] = TriggerAfter(c)]
    /\ Push(c, command[c])
    /\ UNCHANGED <<control, command, source, output, socketVars, collectorVars>>

\* Nobody waits for the answer to a QuitCollector.
Control_doCommand(c) ==
    /\ Handles(c, command[c])
    /\ Write(c, command[c])
    /\ WriteEnds(c)
    /\ IF command[c] = "QuitCollector"
       THEN /\ \/ output' = [output EXCEPT ![c] = Append(@, "Requested")]
               \/ /\ link[c] = "closed"
                  /\ output' = [output EXCEPT ![c] = Append(@, "Requested failed")]
            /\ Pop(c, <<"Quit">>)
       ELSE /\ Pop(c, <<>>)
            /\ UNCHANGED output
    /\ UNCHANGED <<command, trigger, source,
                   link, toControl, backlog, server, socketPath, collectorVars>>

\* The port of an AddDevice that is no number: std::stoi() throws, and main()
\* reports the failure.
Control_doAddDeviceThrows(c) ==
    /\ Handles(c, command[c])
    /\ command[c] = "AddDevice"
    /\ control' = [control EXCEPT ![c] = "failed"]
    /\ UNCHANGED <<command, queue, trigger, source, output, socketVars, collectorVars>>

\* Faulty variant: any status ends the run.
Final_any(status) == TRUE

\* The status of the session request is not what the user waits for.
Final(status) == status = "CollectorStatus"

Control_doCollectorStatus(c) ==
    /\ \E status \in {"CollectorStatus", "SessionStatus"} :
          /\ Handles(c, status)
          /\ IF Final(status)
             THEN /\ output' = [output EXCEPT ![c] = Append(@, "CollectorStatus")]
                  /\ Pop(c, <<"Quit">>)
             ELSE /\ Pop(c, <<>>)
                  /\ UNCHANGED output
    /\ UNCHANGED <<control, command, trigger, source, socketVars, collectorVars>>

\* doDeviceList(), doSessionList()
Control_doList(c) ==
    /\ Handles(c, "List")
    /\ output' = [output EXCEPT ![c] = Append(@, "List")]
    /\ Pop(c, <<>>)
    /\ UNCHANGED <<control, command, trigger, source, socketVars, collectorVars>>

Control_doQuit(c) ==
    /\ Handles(c, "Quit")
    /\ control' = [control EXCEPT ![c] = "exited"]
    /\ UNCHANGED <<command, queue, trigger, source, output, socketVars, collectorVars>>

\* The callback of Connection: a message becomes a request; at the end of the
\* file, after all of them, the source is removed.
Connection_read(c) ==
    /\ control[c] = "running"
    /\ source[c] = "ready"
    /\ \/ /\ toControl[c] # <<>>
          /\ Push(c, Head(toControl[c]))
          /\ toControl' = [toControl EXCEPT ![c] = Tail(@)]
          /\ UNCHANGED source
       \/ /\ toControl[c] = <<>> /\ link[c] = "closed"
          /\ source' = [source EXCEPT ![c] = "removing"]
          /\ UNCHANGED <<queue, toControl>>
    /\ UNCHANGED <<control, command, trigger, output,
                   link, toCollector, backlog, server, socketPath, collectorVars>>

\* Faulty variant: losing the connection is noticed and nothing done about it.
OnClose_stay(c) == UNCHANGED queue

\* "If the event is removed we stop the main application."
OnClose(c) == Push(c, "Quit")

Connection_finalize(c) ==
    /\ control[c] = "running"
    /\ source[c] = "removing"
    /\ source' = [source EXCEPT ![c] = "removed"]
    /\ OnClose(c)
    /\ UNCHANGED <<control, command, trigger, output, socketVars, collectorVars>>

\* terminate() of tkmcontrol.
Control_interrupt(c) ==
    /\ "signal" \in SocketFaults
    /\ control[c] \in {"running", "stopped"}
    /\ control' = [control EXCEPT ![c] = "killed"]
    /\ UNCHANGED <<command, queue, trigger, source, output, socketVars, collectorVars>>

\* A client that is connected and never sends its descriptor.
Control_stop(c) ==
    /\ "silent" \in SocketFaults
    /\ Handles(c, "SendDescriptor")
    /\ control' = [control EXCEPT ![c] = "stopped"]
    /\ UNCHANGED <<command, queue, trigger, source, output, socketVars, collectorVars>>
=============================================================================
