------------------------- MODULE ControlProperties -------------------------
(***************************************************************************)
(* What a user of tkmcontrol may expect, and what the collector may expect *)
(* of its clients.                                                         *)
(***************************************************************************)
EXTENDS ControlSocket

Occurrences(x, seq) == {i \in DOMAIN seq : seq[i] = x}

\* A run asks for its command at most once, and only when the collector has set
\* its session: the command is in the dispatcher's queue, on the socket or
\* received, and until the session's event has fired in none of them (Command,
\* doSetSession and the command handlers of the dispatcher of tkmcontrol).
CommandSentOnce ==
    \A c \in Controls :
        LET copies == Cardinality(Occurrences(command[c], queue[c]))
                      + Cardinality(Occurrences(command[c], toCollector[c]))
                      + (IF <<c, "command">> \in asked THEN 1 ELSE 0)
        IN  copies <= IF trigger[c] = "done" THEN 1 ELSE 0

\* No answer is lost: a run that ended by itself has printed the status of its
\* command if the collector ever wrote one, and the list that came before it,
\* even when the collector has closed the socket or ended since (Connection,
\* doCollectorStatus, doDeviceList, doSessionList and doQuit of tkmcontrol).
AnswerPrinted ==
    \A c \in Controls :
        (control[c] = "exited" /\ answers[<<c, "command">>] # <<>>)
            => /\ Occurrences("CollectorStatus", output[c]) # {}
               /\ c \in listed => Occurrences("List", output[c]) # {}

\* The collector writes to a socket only while it has not closed it: a request
\* that is waiting for its answer keeps the ControlClient, although the loop has
\* dropped its source (IClient, Dispatcher::Request::client).
PendingKeepsSocket ==
    alive => \A c \in Controls : Pending(c) # {} => link[c] \in {"client", "detached"}

-----------------------------------------------------------------------------
(* Progress, under the fairness of both event loops.                       *)

\* Every run of tkmcontrol comes to an end, whatever other clients do: a client
\* that sends no descriptor holds the collector's loop only until the timeout
\* (UDSServer), and a collector that goes away ends the run (Connection).  For
\* an accept() that does not fail.
ControlEnds == \A c \in Controls : (control[c] = "running") ~> (control[c] # "running")

\* "Requested" is no empty promise: the run does not wait, and the collector
\* still reads the QuitCollector it was sent and ends (ControlClient,
\* doQuitCollector of both programs).
QuitDelivered ==
    \A c \in Controls : (Occurrences("Requested", output[c]) # {}) ~> ~alive

\* The collector closes the socket of every client that has ended, however it
\* ended and whatever it had asked (ControlClient, IClient).  For an accept()
\* that does not fail.
SocketsClosed ==
    \A c \in Controls : (HasEnded(c) /\ link[c] # "none") ~> (link[c] = "closed")
=============================================================================
