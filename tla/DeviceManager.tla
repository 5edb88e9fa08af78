---------------------------- MODULE DeviceManager ----------------------------
(***************************************************************************)
(* The list of devices the collector works with (DeviceManager).  Devices  *)
(* enter it when the database loads them; no code path takes one out       *)
(* (remDevice() has no caller).                                            *)
(***************************************************************************)
EXTENDS MonitorDevice

VARIABLE managed  \* m_devices

ManagerTypeOK == managed \subseteq Devices

\* getDevice() finds the device.
Manages(d) == d \in managed

\* addDevice() for each device of a loaded row that the manager does not know
\* yet: a new MonitorDevice in state Loaded, its queue added to the loop.
addDevices(loaded) ==
    /\ managed' = managed \cup loaded
    /\ state' = [d \in Devices |-> IF d \in loaded \ managed THEN "Loaded" ELSE state[d]]

\* The requests loadDevices() and cleanSessions() push on the database's queue.
loadDevices == Internal("LoadDevices")
cleanSessions == Internal("CleanSessions")
=============================================================================
