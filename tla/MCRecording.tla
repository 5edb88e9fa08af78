---------------------------- MODULE MCRecording ----------------------------
(* Constants for model checking the update lanes and the recording of data.  *)
EXTENDS RecordingProperties

\* The lanes of a session: the sources of the fast, the pace and the slow lane.
Plan(fast, pace, slow) == [l \in Lanes |-> CASE l = "Fast" -> fast [] l = "Pace" -> pace [] OTHER -> slow]

\* A session that asks for data of the same source as any other, or for none; an
\* answer has as many rows as entries.
SomeOrNone == {Plan({"SysProcBuddyInfo"}, {}, {}), Plan({}, {}, {})}

\* Every source on every lane, and every two sources on one.
AnyPlan ==
    {[l \in Lanes |-> IF l = lane THEN {s} ELSE {}] : lane \in Lanes, s \in Configured}
    \cup {Plan({s, r}, {}, {}) : s \in Configured, r \in Configured}
=============================================================================
