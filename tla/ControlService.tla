--------------------------- MODULE ControlService ---------------------------
(***************************************************************************)
(* What tkmcollector promises the programs that talk to its control        *)
(* socket, whatever happens inside: a request that was received is         *)
(* answered with one status, a request that was not is never answered, and *)
(* the only other way out is the end of the process.  Nothing survives a   *)
(* process but its database, which is no part of the promise.              *)
(*                                                                         *)
(* The module Collector implements this one (CollectorProperties!Service), *)
(* and the module Control relies on it for the far end of its sockets.     *)
(***************************************************************************)
EXTENDS Sequences

CONSTANTS
    Requests,  \* what the clients may ask
    Statuses   \* what they may be answered

VARIABLES
    asked,    \* requests the process has received
    answers,  \* the statuses written for each request
    alive     \* the process runs

serviceVars == <<asked, answers, alive>>

ServiceTypeOK ==
    /\ asked \subseteq Requests
    /\ answers \in [Requests -> Seq(Statuses)]
    /\ alive \in BOOLEAN

Unanswered == [r \in Requests |-> <<>>]

\* A process may fail before it hears anybody.
ServiceInit ==
    /\ asked = {}
    /\ answers = Unanswered
    /\ alive \in BOOLEAN

-----------------------------------------------------------------------------
Ask(r) ==
    /\ alive
    /\ r \notin asked
    /\ asked' = asked \cup {r}
    /\ UNCHANGED <<answers, alive>>

\* The one status of a request: the request is known, nothing was said of it.
Answer(r, s) ==
    /\ alive
    /\ r \in asked
    /\ answers[r] = <<>>
    /\ answers' = [answers EXCEPT ![r] = <<s>>]
    /\ UNCHANGED <<asked, alive>>

End ==
    /\ alive
    /\ alive' = FALSE
    /\ UNCHANGED <<asked, answers>>

\* A new process has heard nobody.
Boot ==
    /\ ~alive
    /\ alive' \in BOOLEAN
    /\ asked' = {}
    /\ answers' = Unanswered

ServiceNext ==
    \/ \E r \in Requests : Ask(r) \/ \E s \in Statuses : Answer(r, s)
    \/ End
    \/ Boot

ServiceSpec == ServiceInit /\ [][ServiceNext]_serviceVars

-----------------------------------------------------------------------------
\* A request is answered unless the process ends first.
Prompt(r) == (alive /\ r \in asked) ~> (~alive \/ answers[r] # <<>>)

FairServiceSpec == ServiceSpec /\ \A r \in Requests : Prompt(r)
=============================================================================
