---------------------------- MODULE PQConnection ----------------------------
(***************************************************************************)
(* The connection to the PostgreSQL server and what a lost one does to the *)
(* requests.  Every handler of PQDatabase runs its statements as           *)
(* transactions on one connection, made when the collector starts.  When   *)
(* the server goes the connection still says it is open, until a           *)
(* transaction fails on it; it is opened again by an InitDatabase only,    *)
(* and an attempt that fails is an exception nobody catches.               *)
(***************************************************************************)
EXTENDS Naturals, Sequences

CONSTANTS
    RequestIds,  \* requests of clients to the database
    MaxOutages,  \* bound: times the server goes
    MaxBoots     \* bound: times the collector is started again

ASSUME ConnectionAssumption == MaxOutages \in Nat /\ MaxBoots \in Nat

VARIABLES
    server,      \* the PostgreSQL server is "up" or "away"
    connection,  \* "open"; "stale", open as far as it knows; "closed"
    process,     \* the collector: "up", "down" or "crashed"
    queue,       \* the requests of the database: an id and a kind
    answers,     \* the statuses each request was answered with
    committed,   \* requests whose last transaction the server has committed
    outages,     \* times the server went
    boots,       \* times the collector was started again
    inits        \* InitDatabase handled since the server or the collector came
                 \* or went, without a gap in between

serverVars == <<server, connection, outages>>
vars == <<serverVars, process, queue, answers, committed, boots, inits>>

\* A listing is one transaction, the handlers that write look first, a forced
\* AddDevice removes the device in between, and a forced InitDatabase drops the
\* tables before it creates them.
Kinds == {"Get", "Write", "ForcedAdd", "Init", "ForcedInit"}

TypeOK ==
    /\ server \in {"up", "away"}
    /\ connection \in {"open", "stale", "closed"}
    /\ connection = "open" => server = "up"
    /\ process \in {"up", "down", "crashed"}
    /\ queue \in Seq([id : RequestIds, kind : Kinds])
    /\ answers \in [RequestIds -> Seq({"Okay", "Error"})]
    /\ committed \subseteq RequestIds
    /\ outages \in 0..MaxOutages
    /\ boots \in 0..MaxBoots
    /\ inits \in Nat

Init ==
    /\ server = "up"
    /\ connection = "open"
    /\ process = "up"
    /\ queue = <<>>
    /\ answers = [r \in RequestIds |-> <<>>]
    /\ committed = {}
    /\ outages = 0
    /\ boots = 0
    /\ inits = 0

-----------------------------------------------------------------------------
(* Transactions.  A world is a server and a connection, and how the last   *)
(* transaction went: whether it returned and whether it was committed.     *)

World(s, c, n, ok, done) == [server |-> s, connection |-> c, outages |-> n, ok |-> ok, done |-> done]

Now == World(server, connection, outages, TRUE, FALSE)

\* Faulty variant: a failed transaction leaves the connection as it was.
runTransaction_unnoticed(w) ==
    IF w.connection = "open"
    THEN {[w EXCEPT !.ok = TRUE, !.done = TRUE]}
    ELSE {[w EXCEPT !.ok = FALSE, !.done = FALSE]}

\* On a connection that works the server may go in the middle, before or after
\* it has committed; on any other the transaction throws.
runTransaction(w) ==
    IF w.connection = "open"
    THEN {[w EXCEPT !.ok = TRUE, !.done = TRUE]}
         \cup (IF w.outages < MaxOutages
               THEN {World("away", "closed", w.outages + 1, FALSE, done) : done \in BOOLEAN}
               ELSE {})
    ELSE {[w EXCEPT !.connection = "closed", !.ok = FALSE, !.done = FALSE]}

\* One more transaction, only if the last returned.
Then(worlds) ==
    UNION {IF v.ok THEN runTransaction(v) ELSE {[v EXCEPT !.done = FALSE]} : v \in worlds}

\* What the check found turns the request down: a device that is there is not
\* added, one that is not there is removed all the same.
TurnedDown(w) ==
    {[v EXCEPT !.ok = FALSE, !.done = FALSE] : v \in runTransaction(w)}
    \cup {[v EXCEPT !.ok = FALSE] : v \in Then(runTransaction(w))}

\* Two transactions, whatever became of the first.
Regardless(w) == UNION {runTransaction(v) : v \in runTransaction(w)}

Script(kind, w) ==
    CASE kind \in {"Get", "Init"} -> runTransaction(w)
      [] kind = "Write" -> Then(runTransaction(w)) \cup TurnedDown(w)
      [] kind = "ForcedAdd" -> Then(Then(runTransaction(w)))
      [] kind = "ForcedInit" -> Regardless(w)

\* Faulty variant: a failed query is logged and the status stays as it was.
StatusOf_okay(w) == "Okay"

StatusOf(w) == IF w.ok THEN "Okay" ELSE "Error"

\* Faulty variant: the handler returns from the catch block.
Answered_okayOnly(rq, w) == IF w.ok THEN [answers EXCEPT ![rq.id] = Append(@, "Okay")] ELSE answers

Answered(rq, w) == [answers EXCEPT ![rq.id] = Append(@, StatusOf(w))]

-----------------------------------------------------------------------------
(* Request handlers.                                                       *)

IsInit(rq) == rq.kind \in {"Init", "ForcedInit"}

\* Faulty variant: a connection that was lost is left as it is.
Reconnected_never(w) == w

\* is_open() and reconnect(): a connection that knows it is closed is replaced.
Reconnected(w) == IF w.connection = "closed" THEN [w EXCEPT !.connection = "open"] ELSE w

\* The constructor of pqxx::connection throws when there is no server.
CannotReconnect(rq) == IsInit(rq) /\ connection = "closed" /\ server = "away"

\* The handler runs its transactions and answers.
Handle ==
    /\ process = "up"
    /\ queue # <<>>
    /\ LET rq == Head(queue) IN
       /\ ~CannotReconnect(rq)
       /\ \E w \in Script(rq.kind, IF IsInit(rq) THEN Reconnected(Now) ELSE Now) :
             /\ server' = w.server
             /\ connection' = w.connection
             /\ outages' = w.outages
             /\ answers' = Answered(rq, w)
             /\ committed' = IF w.done THEN committed \cup {rq.id} ELSE committed
             /\ inits' = IF IsInit(rq) /\ w.server = "up" THEN inits + 1 ELSE 0
    /\ queue' = Tail(queue)
    /\ UNCHANGED <<process, boots>>

\* The exception leaves the handler, the event loop and main().
HandleThrows ==
    /\ process = "up"
    /\ queue # <<>>
    /\ CannotReconnect(Head(queue))
    /\ process' = "crashed"
    /\ queue' = <<>>
    /\ inits' = 0
    /\ UNCHANGED <<serverVars, answers, committed, boots>>

-----------------------------------------------------------------------------
(* Clients, the server and the process.                                    *)

Asked == {r \in RequestIds : answers[r] # <<>> \/ \E i \in DOMAIN queue : queue[i].id = r}

\* The id of a request that a crash has lost is free again.
Ask(r, kind) ==
    /\ process = "up"
    /\ r \notin Asked
    /\ queue' = Append(queue, [id |-> r, kind |-> kind])
    /\ UNCHANGED <<serverVars, process, answers, committed, boots, inits>>

\* Faulty variant: nothing is cut.
Cut_kept(c) == c

Cut(c) == IF c = "open" THEN "stale" ELSE c

Server_goes ==
    /\ server = "up"
    /\ outages < MaxOutages
    /\ server' = "away"
    /\ connection' = Cut(connection)
    /\ outages' = outages + 1
    /\ inits' = 0
    /\ UNCHANGED <<process, queue, answers, committed, boots>>

\* A connection from before does not come back with the server.
Server_returns ==
    /\ server = "away"
    /\ server' = "up"
    /\ inits' = 0
    /\ UNCHANGED <<connection, outages, process, queue, answers, committed, boots>>

\* Without a server the constructor throws and the application quits.
Collector_boot ==
    /\ process # "up"
    /\ boots < MaxBoots
    /\ boots' = boots + 1
    /\ \/ /\ server = "up"
          /\ process' = "up"
          /\ connection' = "open"
       \/ /\ server = "away"
          /\ process' = "down"
          /\ UNCHANGED connection
    /\ inits' = 0
    /\ UNCHANGED <<server, outages, queue, answers, committed>>

-----------------------------------------------------------------------------
Next ==
    \/ Handle
    \/ HandleThrows
    \/ \E r \in RequestIds, k \in Kinds : Ask(r, k)
    \/ Server_goes
    \/ Server_returns
    \/ Collector_boot

Spec == Init /\ [][Next]_vars

\* The event loop serves the queue; servers and clients do as they like.
FairSpec == Spec /\ WF_vars(Handle \/ HandleThrows)

-----------------------------------------------------------------------------
\* A request that was answered Okay is in the database, wherever the server went
\* in the middle of its handler.  (The converse does not hold: a transaction may
\* be committed and its Okay lost with the server.)  runTransaction, the catch
\* blocks of the handlers.
OkayIsCommitted == \A r \in RequestIds : answers[r] = <<"Okay">> => r \in committed

\* Two requests of InitDatabase in a row, with the server up, are enough to have a
\* working connection again, whatever was lost before: the first finds out, the
\* second connects.  One is not.  (doInitDatabase, reconnect)
TwoInitsReconnect == (process = "up" /\ inits >= 2) => connection = "open"

\* Every request gets one answer in the end, or the collector goes down with it.
\* (All handlers of PQDatabase.)
AnsweredOrDown ==
    \A r \in RequestIds :
        (\E i \in DOMAIN queue : queue[i].id = r) ~> (Len(answers[r]) = 1 \/ process # "up")
=============================================================================
