---------------------------- MODULE SampleStore ----------------------------
(***************************************************************************)
(* What the database promises of the data of sessions, whatever tables,    *)
(* scripts and queues it is made of: a session is opened once and ended    *)
(* once, a sample is recorded while its own session is open, from its      *)
(* first row on, and what is recorded stays until the database is          *)
(* initialized by force.  A database that is atomic records a sample whole *)
(* and forgets everything together; one that is not may record the         *)
(* beginning of a sample, and leave some of the samples behind.            *)
(*                                                                         *)
(* The module Recording implements this one (RecordingProperties!Promise). *)
(***************************************************************************)
EXTENDS Integers

CONSTANTS
    Samples,  \* what may be recorded; sample.of is the session it was collected for
    Hashes,   \* the sessions
    Rows      \* the rows of a sample: Rows \in [Samples -> Nat]

VARIABLES
    atomic,    \* whether the database is
    sessions,  \* the sessions there are, and which of them are open
    recorded   \* the rows there are, of which sample each

storeVars == <<atomic, sessions, recorded>>

Init ==
    /\ atomic \in BOOLEAN
    /\ sessions = {}
    /\ recorded = {}

-----------------------------------------------------------------------------
Session(h, open) == [hash |-> h, open |-> open]

\* A session is not opened again.
Open(h) ==
    /\ \A s \in sessions : s.hash # h
    /\ sessions' = sessions \cup {Session(h, TRUE)}
    /\ UNCHANGED <<atomic, recorded>>

End(h) ==
    /\ Session(h, TRUE) \in sessions
    /\ sessions' = (sessions \ {Session(h, TRUE)}) \cup {Session(h, FALSE)}
    /\ UNCHANGED <<atomic, recorded>>

\* The first n rows of a sample, all of them if the database is atomic.
Record(a, n) ==
    /\ Session(a.of, TRUE) \in sessions
    /\ n \in 1..Rows[a]
    /\ atomic => n = Rows[a]
    /\ recorded' = recorded \cup {[sample |-> a, entry |-> i] : i \in 1..n}
    /\ UNCHANGED <<atomic, sessions>>

\* The sessions are forgotten, and samples: all of them if the database is atomic.
Forget ==
    /\ sessions' = {}
    /\ \E gone \in SUBSET {r.sample : r \in recorded} :
          recorded' = {r \in recorded : r.sample \notin gone}
    /\ atomic => recorded' = {}
    /\ UNCHANGED atomic

Next ==
    \/ \E h \in Hashes : Open(h) \/ End(h)
    \/ \E a \in Samples : \E n \in 1..Rows[a] : Record(a, n)
    \/ Forget

Spec == Init /\ [][Next]_storeVars
=============================================================================
