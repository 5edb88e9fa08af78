---------------------------- MODULE MCCollector ----------------------------
(* Constants for model checking the collector.                             *)
EXTENDS CollectorProperties, TLC

CONSTANTS d1, d2, h1, h2

\* The monitors may issue every hash.
SharedIssues == [d \in Devices |-> Hashes]

DeviceCommands == {"ConnectDevice", "DisconnectDevice", "StartCollecting", "StopCollecting"}
RecoveryCommands == {"ConnectDevice", "StartCollecting", "StopCollecting", "RemoveSession"}
AdministrationCommands == (DispatcherActions \ {"SendStatus", "Quit"}) \cup {"RequestSession"}
LifeCommands ==
    {"InitDatabase", "AddDevice", "ConnectDevice", "DisconnectDevice", "StartCollecting", "QuitCollector"}
DisconnectOnly == {"DisconnectDevice"}

\* The hashes of one monitor are interchangeable.
HashSymmetry == Permutations(Hashes)
=============================================================================
