----------------------------- MODULE UpdateLanes -----------------------------
(***************************************************************************)
(* How a device that is collecting asks for data.  The session a monitor   *)
(* sets names data sources for three lanes; startUpdateLanes() turns the   *)
(* names into DataSource objects and arms three timers, each of which asks *)
(* the monitor for the data of the sources on its lane.  The module        *)
(* MonitorDevice has the timers of one start as one; here they are three,  *)
(* and each has the sources it polls.                                      *)
(***************************************************************************)
EXTENDS Integers, Sequences, FiniteSets

CONSTANTS
    Plans,        \* the lanes a monitor may set: Plans \subseteq [Lanes -> SUBSET DataSources]
    EntryCounts,  \* entries a monitor may put into one answer
    MaxSessions,  \* bound: sessions the monitor sets
    MaxStarts     \* bound: times the lanes are started

Lanes == {"Fast", "Pace", "Slow"}

DataSources ==
    {"ProcInfo", "ProcAcct", "ProcEvent", "ContextInfo", "SysProcStat", "SysProcBuddyInfo",
     "SysProcWireless", "SysProcMemInfo", "SysProcPressure", "SysProcDiskStats", "SysProcVMStat"}

ASSUME LanesAssumption ==
    /\ Plans \subseteq [Lanes -> SUBSET DataSources]
    /\ EntryCounts \subseteq Nat
    /\ MaxSessions \in Nat
    /\ MaxStarts \in Nat

VARIABLES
    deviceState,  \* DeviceData.state, as far as the session goes
    connected,    \* whether m_connection is set
    session,      \* the number of the session the device was last set; 0 before
    plan,         \* m_sessionInfo: the sources of each lane
    requests,     \* the device's queue
    dataSources,  \* m_dataSources
    armed,        \* timers in the event loop: a lane and the start that made it
    current,      \* the start whose timers the device points at; 0 for none
    asked         \* data requests the monitor has not answered

laneVars == <<deviceState, connected, session, plan, requests, dataSources, armed, current, asked>>

Entries == [lane : Lanes, source : DataSources]

\* One answer of the monitor: what it is data of, how many entries it has, and
\* the number of the session it was collected for.
Samples == [source : DataSources, entries : EntryCounts, of : 0..MaxSessions]

LaneRequests ==
    [action : {"SetSession"}, plan : [Lanes -> SUBSET DataSources], session : 0..MaxSessions]
    \cup [action : {"StartStream", "StopStream"}]
    \cup [action : {"ProcessData"}, sample : Samples]

LanesTypeOK ==
    /\ deviceState \in {"Connected", "SessionSet", "Collecting", "Idle", "Disconnected"}
    /\ connected \in BOOLEAN
    /\ session \in 0..MaxSessions
    /\ plan \in [Lanes -> SUBSET DataSources]
    /\ requests \in Seq(LaneRequests)
    /\ dataSources \subseteq Entries
    /\ armed \subseteq Lanes \X (1..MaxStarts)
    /\ current \in 0..MaxStarts
    /\ asked \subseteq DataSources

LanesInit ==
    /\ deviceState = "Connected"
    /\ connected = TRUE
    /\ session = 0
    /\ plan = [l \in Lanes |-> {}]
    /\ requests = <<>>
    /\ dataSources = {}
    /\ armed = {}
    /\ current = 0
    /\ asked = {}

Handles(action) == requests # <<>> /\ Head(requests).action = action

-----------------------------------------------------------------------------
(* Configuration.                                                          *)

\* The sources configUpdateLanes() has a case for; the others are passed over.
Configured == DataSources \ {"SysProcVMStat"}

\* Faulty variant: the slow lane is filled from the list of the pace lane.
Configuration_slowPace(p) ==
    {e \in Entries : e.source \in Configured /\ e.source \in p[IF e.lane = "Slow" THEN "Pace" ELSE e.lane]}

\* One entry for each source of each lane, in place of whatever was there.
Configuration(p) == {e \in Entries : e.source \in Configured /\ e.source \in p[e.lane]}

\* Faulty variant: the sources of the last session are kept.
startUpdateLanes_keep ==
    /\ dataSources' = IF dataSources = {} THEN Configuration(plan) ELSE dataSources
    /\ current' = current + 1
    /\ armed' = armed \cup (Lanes \X {current'})

\* Faulty variant: the timers started are those of the start before.
startUpdateLanes_early ==
    /\ dataSources' = Configuration(plan)
    /\ current' = current + 1
    /\ armed' = armed \cup (Lanes \X {current})

\* New timers, whatever became of the old ones.
startUpdateLanes ==
    /\ dataSources' = Configuration(plan)
    /\ current' = current + 1
    /\ armed' = armed \cup (Lanes \X {current'})

\* The timers the device points at; earlier ones stay armed.
stopUpdateLanes == armed' = armed \ (Lanes \X {current})

-----------------------------------------------------------------------------
(* Request handlers.                                                       *)

\* The lanes follow with the StartStream that is pushed.
doSetSession ==
    /\ Handles("SetSession")
    /\ session' = Head(requests).session
    /\ plan' = Head(requests).plan
    /\ deviceState' = "SessionSet"
    /\ requests' = Append(Tail(requests), [action |-> "StartStream"])
    /\ UNCHANGED <<connected, dataSources, armed, current, asked>>

doStartStream ==
    /\ Handles("StartStream")
    /\ deviceState' = "Collecting"
    /\ startUpdateLanes
    /\ requests' = Tail(requests)
    /\ UNCHANGED <<connected, session, plan, asked>>

doStopStream ==
    /\ Handles("StopStream")
    /\ deviceState' = "Idle"
    /\ stopUpdateLanes
    /\ requests' = Tail(requests)
    /\ UNCHANGED <<connected, session, plan, dataSources, current, asked>>

-----------------------------------------------------------------------------
(* Clients, the monitor and the timers.                                    *)

\* How many of the first n requests of a queue are of some kinds.
Count(q, actions, n) == Cardinality({i \in 1..n : q[i].action \in actions})

Queued(actions) == Count(requests, actions, Len(requests))

\* The session the monitor has set last, on its side of the connection.
MonitorSession == session + Queued({"SetSession"})

\* The bound on starts leaves room for those that are already to come.
StartsLeft == current + Queued({"SetSession", "StartStream"}) < MaxStarts

\* The monitor answers a CreateSession; doStartCollecting asked for one.
Connection_readSetSession ==
    /\ connected
    /\ MonitorSession < MaxSessions
    /\ StartsLeft
    /\ \E p \in Plans :
          requests' = Append(requests, [action |-> "SetSession", plan |-> p,
                                        session |-> MonitorSession + 1])
    /\ UNCHANGED <<deviceState, connected, session, plan, dataSources, armed, current, asked>>

\* A client stops the collecting, or starts it while the session is only set.
\* One such request at a time: a bound.
doStartStopCollecting ==
    /\ \A i \in DOMAIN requests : requests[i].action \notin {"StartStream", "StopStream"}
    /\ \/ /\ deviceState = "Collecting"
          /\ requests' = Append(requests, [action |-> "StopStream"])
       \/ /\ deviceState = "SessionSet"
          /\ StartsLeft
          /\ requests' = Append(requests, [action |-> "StartStream"])
    /\ UNCHANGED <<deviceState, connected, session, plan, dataSources, armed, current, asked>>

\* The connection goes, and with it the device's timers.  What is queued stays:
\* a StartStream makes the device Collecting again.
Connection_finalize ==
    /\ connected
    /\ connected' = FALSE
    /\ deviceState' = "Disconnected"
    /\ stopUpdateLanes
    /\ asked' = {}
    /\ UNCHANGED <<session, plan, requests, dataSources, current>>

\* Faulty variant: two callbacks are mixed up.
Asks_mixed(source) == IF source = "ProcAcct" THEN "ProcInfo" ELSE source

\* The data the callback of an entry asks for.
Asks(source) == source

\* A timer goes through the entries of its lane.  Without a connection that is
\* the null pointer of MonitorDevice!Lane_tick.
Timer_tick(lane) ==
    /\ connected
    /\ \E n \in 1..MaxStarts : <<lane, n>> \in armed
    /\ asked' = asked \cup {Asks(e.source) : e \in {x \in dataSources : x.lane = lane}}
    /\ UNCHANGED <<deviceState, connected, session, plan, requests, dataSources, armed, current>>

-----------------------------------------------------------------------------
\* What the lanes poll is what the session asked for and can be asked for,
\* whichever session that is and whatever was polled before (configUpdateLanes,
\* startUpdateLanes, doSetSession).
PlanFollowed ==
    deviceState = "Collecting" =>
        \A l \in Lanes, s \in Configured :
            s \in plan[l] <=> [lane |-> l, source |-> s] \in dataSources
=============================================================================
