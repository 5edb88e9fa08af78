----------------------------- MODULE Collector -----------------------------
(***************************************************************************)
(* tkmcollector: the components on one event loop, and the life of the     *)
(* process - how it boots (Application, Main), how it ends, and what a new *)
(* process finds: the tables, and nothing else.                            *)
(***************************************************************************)
EXTENDS Database, Dispatcher

CONSTANTS
    Provisioned,  \* devices already in the database at the start
    MaxEpochs,    \* bound: lives of the process
    Erase         \* the values of the command line's erase option

ASSUME CollectorAssumption ==
    /\ Provisioned \subseteq Devices /\ IsFiniteSet(Provisioned)
    /\ MaxEpochs \in Nat
    /\ Erase \subseteq BOOLEAN

vars == <<queueVars, processVars, deviceVars, monitorVars, managed, dbVars, clientVars>>

TypeOK ==
    /\ BaseTypeOK
    /\ DeviceTypeOK
    /\ ManagerTypeOK
    /\ DatabaseTypeOK
    /\ DispatcherTypeOK

-----------------------------------------------------------------------------
(* Boot.  A database that does not open, or a control socket that does not *)
(* start, makes the dispatcher quit.  The erase option makes Main push a   *)
(* forced InitDatabase; without a database that is a null pointer.         *)

BootDispatcherQueue(opened, started) ==
    (IF opened THEN <<>> ELSE <<Internal("Quit")>>) \o
    (IF started THEN <<>> ELSE <<Internal("Quit")>>)

\* Faulty variant: the sessions are cleaned, the devices never loaded.
BootDatabaseQueue_noLoad(opened, erase) ==
    IF opened THEN <<Internal("CheckDatabase"), cleanSessions>> ELSE <<>>

BootDatabaseQueue(opened, erase) ==
    IF ~opened THEN <<>>
    ELSE <<Internal("CheckDatabase"), loadDevices, cleanSessions>> \o
         (IF erase THEN <<[Internal("InitDatabase") EXCEPT !.arg = "forced"]>> ELSE <<>>)

BootProcess(opened, erase) == IF ~opened /\ erase THEN "crashed" ELSE "up"

\* The tables hold the provisioned devices, each under a key of its own, or
\* do not exist yet.
DatabaseInit ==
    /\ data = {}
    /\ sessions = {}
    /\ sessionSerial = 0
    /\ \/ /\ tables = FALSE
          /\ devices = {}
          /\ deviceSerial = 0
       \/ /\ tables = TRUE
          /\ deviceSerial = Cardinality(Provisioned)
          /\ \E key \in Bijection(Provisioned, 1..Cardinality(Provisioned)) :
                devices = {[id |-> key[d], device |-> d] : d \in Provisioned}

Init ==
    /\ \E opened, started \in Outcomes("boot"), erase \in Erase :
          /\ dispatcherQueue = BootDispatcherQueue(opened, started)
          /\ dbQueue = BootDatabaseQueue(opened, erase)
          /\ process = BootProcess(opened, erase)
    /\ deviceQueue = [d \in Devices |-> <<>>]
    /\ epoch = 1
    /\ managed = {}
    /\ issued = {}
    /\ DeviceInit
    /\ DispatcherInit
    /\ DatabaseInit

\* A new process: the queues, devices and clients of the old one are gone.
Restart ==
    /\ process # "up"
    /\ epoch < MaxEpochs
    /\ epoch' = epoch + 1
    /\ \E opened, started \in Outcomes("boot"), erase \in Erase :
          /\ dispatcherQueue' = BootDispatcherQueue(opened, started)
          /\ dbQueue' = BootDatabaseQueue(opened, erase)
          /\ process' = BootProcess(opened, erase)
    /\ deviceQueue' = [d \in Devices |-> <<>>]
    /\ managed' = {}
    /\ state' = [d \in Devices |-> "Unknown"]
    /\ connection' = [d \in Devices |-> "none"]
    /\ sessionHash' = [d \in Devices |-> NoHash]
    /\ lanes' = [d \in Devices |-> FALSE]
    /\ orphanLanes' = [d \in Devices |-> 0]
    /\ wantSession' = [d \in Devices |-> 0]
    /\ askedData' = [d \in Devices |-> FALSE]
    /\ monitorSession' = [d \in Devices |-> NoHash]
    /\ requested' = 0
    /\ replies' = [c \in RequestIds |-> <<>>]
    /\ UNCHANGED <<issued, dbVars>>

\* terminate(): SIGINT or SIGTERM.
Terminate ==
    /\ process = "up"
    /\ FALSE \in Outcomes("signal")
    /\ process' = "exited"
    /\ UNCHANGED <<queueVars, epoch, deviceVars, monitorVars, managed, dbVars, clientVars>>

-----------------------------------------------------------------------------
DeviceStep(d) == DeviceHandler(d) /\ UNCHANGED <<epoch, managed, dbVars, clientVars>>

ConnectionStep(d) == ConnectionEvent(d) /\ UNCHANGED <<epoch, managed, dbVars, clientVars>>

FinalizeStep(d) == Connection_finalize(d) /\ UNCHANGED <<epoch, managed, dbVars, clientVars>>

TickStep(d) == Lane_tick(d) /\ UNCHANGED <<epoch, managed, dbVars, clientVars>>

DatabaseStep ==
    /\ DatabaseHandler
    /\ UNCHANGED <<processVars, connection, sessionHash, lanes, orphanLanes, monitorVars, clientVars>>

DispatcherStep == DispatcherHandler /\ UNCHANGED <<epoch, deviceVars, monitorVars, managed, dbVars>>

ClientStep == ClientEvent /\ UNCHANGED <<processVars, deviceVars, monitorVars, managed, dbVars>>

Next ==
    \/ \E d \in Devices : DeviceStep(d) \/ ConnectionStep(d) \/ FinalizeStep(d) \/ TickStep(d)
    \/ DatabaseStep
    \/ DispatcherStep
    \/ ClientStep
    \/ Terminate
    \/ Restart

Spec == Init /\ [][Next]_vars

\* The event loop serves every ready queue and every source it has to drop.
\* Clients, monitors, timers and signals come when they come.
Fairness ==
    /\ WF_vars(DatabaseStep)
    /\ WF_vars(DispatcherStep)
    /\ \A d \in Devices : WF_vars(DeviceStep(d)) /\ WF_vars(FinalizeStep(d))

FairSpec == Spec /\ Fairness
=============================================================================
