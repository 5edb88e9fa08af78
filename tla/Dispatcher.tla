----------------------------- MODULE Dispatcher -----------------------------
(***************************************************************************)
(* The dispatcher and the control clients it answers.  A client's request  *)
(* becomes a request on the dispatcher's queue, is forwarded to the        *)
(* database or to a device, and comes back as a SendStatus request.        *)
(***************************************************************************)
EXTENDS DeviceManager

CONSTANT Commands  \* the requests the clients of a model send

ASSUME DispatcherAssumption == Commands \subseteq DispatcherActions \cup {"RequestSession"}

VARIABLES
    requested,  \* requests the clients have sent in this life of the process
    replies     \* the status messages written to each client

clientVars == <<requested, replies>>

DispatcherTypeOK ==
    /\ requested \in 0..MaxRequests
    /\ replies \in [RequestIds -> Seq({"Okay", "Error"})]

DispatcherInit ==
    /\ requested = 0
    /\ replies = [c \in RequestIds |-> <<>>]

-----------------------------------------------------------------------------
(* ControlClient: the requests client c may push, by command.              *)

\* InitDatabase and AddDevice are the requests whose Forced argument is read.
Plain(c) == {Request(a, c, NoDevice, NoHash) : a \in {"QuitCollector", "GetDevices"}}
MaybeForced(rq) == {rq, [rq EXCEPT !.arg = "forced"]}

OnDatabase(c) ==
    UNION {MaybeForced(Request("InitDatabase", c, NoDevice, NoHash)),
           UNION {MaybeForced(Request("AddDevice", c, d, NoHash)) : d \in Devices},
           {Request("RemoveDevice", c, d, NoHash) : d \in Devices},
           {Request("RemoveSession", c, NoDevice, h) : h \in Hashes},
           {Request("GetSessions", c, d, NoHash) : d \in Devices \cup {NoDevice}}}

OnDevice(c) ==
    {Request(a, c, d, NoHash) :
        a \in {"ConnectDevice", "DisconnectDevice", "StartCollecting", "StopCollecting"},
        d \in Devices}

\* Every request but RequestSession goes to the dispatcher as it is.
ControlClient_request ==
    /\ process = "up"
    /\ requested < MaxRequests
    /\ requested' = requested + 1
    /\ \E rq \in Plain(requested') \cup OnDatabase(requested') \cup OnDevice(requested') :
          /\ rq.action \in Commands
          /\ dispatcherQueue' = Append(dispatcherQueue, rq)
    /\ UNCHANGED <<dbQueue, deviceQueue, replies>>

\* RequestSession is answered by the client object itself.
ControlClient_doRequestSession ==
    /\ process = "up"
    /\ "RequestSession" \in Commands
    /\ requested < MaxRequests
    /\ requested' = requested + 1
    /\ \E written \in Outcomes("write") : Reply(requested', IF written THEN "Okay" ELSE "Error")
    /\ UNCHANGED <<dbQueue, deviceQueue, replies>>

-----------------------------------------------------------------------------
(* Dispatcher: request handlers.                                           *)

\* The database request a dispatcher request is forwarded as.
DatabaseAction(a) == IF a = "RemoveSession" THEN "RemSession" ELSE a

Dispatcher_toDatabase ==
    LET rq == Head(dispatcherQueue) IN
    /\ \E a \in {"InitDatabase", "GetDevices", "GetSessions", "RemoveSession", "AddDevice", "RemoveDevice"} :
          /\ DispatcherHandles(a)
          /\ dbQueue' = Append(dbQueue, [rq EXCEPT !.action = DatabaseAction(a)])
    /\ dispatcherQueue' = Tail(dispatcherQueue)
    /\ UNCHANGED <<deviceQueue, process, clientVars>>

\* Faulty variant: the action is passed on as the dispatcher names it.
DeviceAction_same(a) == a

\* The device request a dispatcher request is forwarded as.
DeviceAction(a) ==
    CASE a = "ConnectDevice" -> "Connect"
      [] a = "DisconnectDevice" -> "Disconnect"
      [] OTHER -> a

\* A device the manager does not have is answered at once.
Dispatcher_toDevice ==
    LET rq == Head(dispatcherQueue) IN
    /\ \E a \in {"ConnectDevice", "DisconnectDevice", "StartCollecting", "StopCollecting"} :
          /\ DispatcherHandles(a)
          /\ IF Manages(rq.device)
             THEN /\ deviceQueue' = [deviceQueue EXCEPT ![rq.device] =
                                       Append(@, [rq EXCEPT !.action = DeviceAction(a)])]
                  /\ dispatcherQueue' = Tail(dispatcherQueue)
             ELSE /\ dispatcherQueue' = Append(Tail(dispatcherQueue), StatusRequest(rq.client, "Error"))
                  /\ UNCHANGED deviceQueue
    /\ UNCHANGED <<dbQueue, process, clientVars>>

\* The client that asked is not answered.
Dispatcher_doQuitCollector ==
    /\ DispatcherHandles("QuitCollector")
    /\ dispatcherQueue' = Append(Tail(dispatcherQueue), Internal("Quit"))
    /\ UNCHANGED <<dbQueue, deviceQueue, process, clientVars>>

\* exit(): whatever is queued is lost.
Dispatcher_doQuit ==
    /\ DispatcherHandles("Quit")
    /\ process' = "exited"
    /\ UNCHANGED <<queueVars, clientVars>>

Dispatcher_doSendStatus ==
    LET rq == Head(dispatcherQueue) IN
    /\ DispatcherHandles("SendStatus")
    /\ replies' = IF rq.client = NoClient
                  THEN replies
                  ELSE [replies EXCEPT ![rq.client] = Append(@, rq.arg)]
    /\ dispatcherQueue' = Tail(dispatcherQueue)
    /\ UNCHANGED <<dbQueue, deviceQueue, process, requested>>

-----------------------------------------------------------------------------
ClientEvent == ControlClient_request \/ ControlClient_doRequestSession

DispatcherHandler ==
    \/ Dispatcher_toDatabase
    \/ Dispatcher_toDevice
    \/ Dispatcher_doQuitCollector
    \/ Dispatcher_doQuit
    \/ Dispatcher_doSendStatus
=============================================================================
