---------------------------- MODULE ControlSocket ----------------------------
(***************************************************************************)
(* The collector's end of the control socket (UDSServer, ControlClient),   *)
(* and the composition: any number of runs of tkmcontrol, the sockets, and *)
(* a collector that keeps the promise of ControlService.                   *)
(*                                                                         *)
(* The descriptor of an accepted connection is read with a blocking call   *)
(* on the thread of the event loop: while one is being read nothing else   *)
(* in the collector runs.                                                  *)
(***************************************************************************)
EXTENDS Control

\* The loop's thread is waiting for a descriptor.
Blocked == \E c \in Controls : link[c] = "reading"

\* The event loop of the collector is free to serve a source or a queue.
Serving == alive /\ ~Blocked

\* Requests of run c the collector holds, with them the ControlClient.
Pending(c) == {r \in asked : r[1] = c /\ answers[r] = <<>>}

\* What the collector writes to run c; a client that has gone reads nothing.
ToControl(c, message) ==
    toControl' = IF HasEnded(c) THEN toControl ELSE [toControl EXCEPT ![c] = Append(@, message)]

-----------------------------------------------------------------------------
(* UDSServer.                                                              *)

\* A failed accept() makes the callback return false: the loop drops the
\* server, the socket goes on listening.
UDSServer_accept ==
    /\ Serving
    /\ server = "listening"
    /\ backlog # <<>>
    /\ \/ /\ link' = [link EXCEPT ![Head(backlog)] = "reading"]
          /\ backlog' = Tail(backlog)
          /\ UNCHANGED server
       \/ /\ "accept" \in SocketFaults
          /\ server' = "removed"
          /\ UNCHANGED <<link, backlog>>
    /\ UNCHANGED <<controlVars, toCollector, toControl, socketPath, collectorVars>>

\* Faulty variant: the receive timeout is not set.
GivesUp_never(c) == HasEnded(c)

\* recv() returns short: the client is gone, or SO_RCVTIMEO has passed.
GivesUp(c) == TRUE

\* A client that sends a descriptor becomes a ControlClient, another one is
\* closed and the server goes on.
UDSServer_readDescriptor(c) ==
    /\ alive
    /\ link[c] = "reading"
    /\ \/ /\ toCollector[c] # <<>>
          /\ toCollector' = [toCollector EXCEPT ![c] = Tail(@)]
          /\ link' = [link EXCEPT ![c] = "client"]
       \/ /\ toCollector[c] = <<>>
          /\ GivesUp(c)
          /\ link' = [link EXCEPT ![c] = "closed"]
          /\ UNCHANGED toCollector
    /\ UNCHANGED <<controlVars, toControl, backlog, server, socketPath, collectorVars>>

-----------------------------------------------------------------------------
(* ControlClient.                                                          *)

\* RequestSession is answered with a SetSession here and a status later; every
\* other request goes to the dispatcher.
ControlClient_read(c) ==
    /\ Serving
    /\ link[c] = "client"
    /\ toCollector[c] # <<>>
    /\ toCollector' = [toCollector EXCEPT ![c] = Tail(@)]
    /\ \/ /\ Head(toCollector[c]) = "RequestSession"
          /\ asked' = asked \cup {<<c, "session">>}
          /\ ToControl(c, "SetSession")
       \/ /\ Head(toCollector[c]) # "RequestSession"
          /\ asked' = asked \cup {<<c, "command">>}
          /\ UNCHANGED toControl
    /\ UNCHANGED <<controlVars, link, backlog, server, socketPath, boots, listed, answers, alive>>

\* Faulty variant: a client that hangs up is dropped with what it has sent.
Drained_early(c) == TRUE

\* The end of the file comes after everything that was sent.
Drained(c) == toCollector[c] = <<>>

\* Faulty variant: the socket is closed whatever is still to be answered.
LinkAtEnd_closed(c) == "closed"

\* The requests on their way hold the client, and with it the socket.
LinkAtEnd(c) == IF Pending(c) = {} THEN "closed" ELSE "detached"

\* The client has hung up: the source is removed.
ControlClient_end(c) ==
    /\ Serving
    /\ link[c] = "client"
    /\ HasEnded(c)
    /\ Drained(c)
    /\ link' = [link EXCEPT ![c] = LinkAtEnd(c)]
    /\ UNCHANGED <<controlVars, toCollector, toControl, backlog, server, socketPath, collectorVars>>

\* Faulty variant: the socket of a client that is gone is kept for good.
LinkAfter_kept(c, r) == link[c]

\* The last request of a client whose source is gone takes the client with it.
LinkAfter(c, r) ==
    IF link[c] = "detached" /\ Pending(c) \subseteq {r} THEN "closed" ELSE link[c]

-----------------------------------------------------------------------------
(* The rest of the collector, as ControlService promises it.               *)

\* The list a listing command asks for goes out before its status.
Collector_list(c) ==
    /\ Serving
    /\ command[c] \in Listing
    /\ <<c, "command">> \in Pending(c)
    /\ c \notin listed
    /\ listed' = listed \cup {c}
    /\ ToControl(c, "List")
    /\ UNCHANGED <<controlVars, link, toCollector, backlog, server, socketPath,
                   boots, asked, answers, alive>>

\* The status of a request; Okay to a listing command only after the list.
Collector_answer(c) ==
    /\ Serving
    /\ \E r \in Pending(c), s \in {"Okay", "Error"} :
          /\ r[2] = "command" => command[c] # "QuitCollector"
          /\ (r[2] = "command" /\ command[c] \in Listing /\ s = "Okay") => c \in listed
          /\ Service!Answer(r, s)
          /\ ToControl(c, IF r[2] = "command" THEN "CollectorStatus" ELSE "SessionStatus")
          /\ link' = [link EXCEPT ![c] = LinkAfter(c, r)]
    /\ UNCHANGED <<controlVars, toCollector, backlog, server, socketPath, boots, listed>>

\* exit(): every socket is closed, accepted or not; the socket's file stays.
CollectorGoes ==
    /\ Service!End
    /\ link' = [c \in Controls |-> IF link[c] = "none" THEN "none" ELSE "closed"]
    /\ backlog' = <<>>
    /\ server' = "absent"
    /\ UNCHANGED <<controlVars, toCollector, toControl, socketPath, boots, listed>>

Collector_quit ==
    /\ Serving
    /\ \E c \in Controls : <<c, "command">> \in asked /\ command[c] = "QuitCollector"
    /\ CollectorGoes

\* A signal, a Quit of its own making, a crash.
Collector_end == "end" \in SocketFaults /\ CollectorGoes

\* UDSServer::start() replaces the socket an earlier process left.  One that fails
\* (bind(), listen()) is Collector!Restart with a fault, and here a collector that
\* ends before it has accepted anybody.
Collector_boot ==
    /\ boots < MaxBoots
    /\ Service!Boot
    /\ alive'
    /\ boots' = boots + 1
    /\ server' = "listening"
    /\ socketPath' = TRUE
    /\ listed' = {}
    /\ UNCHANGED <<controlVars, link, toCollector, toControl, backlog>>

-----------------------------------------------------------------------------
\* What the event loop of run c serves.
ControlStep(c) ==
    \/ Control_doConnect(c)
    \/ Control_doSendDescriptor(c)
    \/ Control_doRequestSession(c)
    \/ Control_doSetSession(c)
    \/ Control_doCommand(c)
    \/ Control_doAddDeviceThrows(c)
    \/ Control_doCollectorStatus(c)
    \/ Control_doList(c)
    \/ Control_doQuit(c)
    \/ Command_callback(c)
    \/ Connection_read(c)
    \/ Connection_finalize(c)

\* What the event loop of the collector serves for run c.
ClientStep(c) ==
    \/ UDSServer_readDescriptor(c)
    \/ ControlClient_read(c)
    \/ ControlClient_end(c)
    \/ Collector_list(c)
    \/ Collector_answer(c)

Next ==
    \/ \E c \in Controls :
          ControlStep(c) \/ ClientStep(c) \/ Control_start(c) \/ Control_interrupt(c) \/ Control_stop(c)
    \/ UDSServer_accept
    \/ Collector_quit
    \/ Collector_end
    \/ Collector_boot

Spec == Init /\ [][Next]_vars

\* Both event loops serve whatever is ready, accept() fails rarely enough not
\* to be counted on, and a receive timeout passes.  Starting, stopping and
\* killing programs is up to the user.
Fairness ==
    /\ \A c \in Controls : WF_vars(ControlStep(c)) /\ WF_vars(ClientStep(c))
    /\ WF_vars(UDSServer_accept)
    /\ WF_vars(Collector_quit)

FairSpec == Spec /\ Fairness
=============================================================================
