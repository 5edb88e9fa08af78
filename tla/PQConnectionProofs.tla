------------------------- MODULE PQConnectionProofs -------------------------
(***************************************************************************)
(* For any number of requests, outages and restarts: the types of          *)
(* PQConnection, an Okay that is never a lie, and the two initializations  *)
(* that bring a lost connection back.                                      *)
(***************************************************************************)
EXTENDS PQConnection, TLAPS

Worlds ==
    [server : {"up", "away"}, connection : {"open", "stale", "closed"},
     outages : 0..MaxOutages, ok : BOOLEAN, done : BOOLEAN]

\* A world in which the connection is open only to a server that is there.
Sound(w) == w \in Worlds /\ (w.connection = "open" => w.server = "up")

\* What a transaction makes of a sound world: it returns only when it has
\* committed, the connection knows whether it is closed, and where the server
\* has stayed it is open if it was.
Transacted(w, v) ==
    /\ Sound(v)
    /\ v.ok => v.done
    /\ v.connection \in {"open", "closed"}
    /\ v.server = "up" => w.server = "up"
    /\ v.server = "up" => (v.connection = "open" <=> w.connection = "open")

\* Every outcome of one transaction (runTransaction of PQDatabase).
LEMMA TransactionOutcome ==
    ASSUME NEW w, Sound(w), NEW v \in runTransaction(w)
    PROVE  Transacted(w, v)
<1>. USE ConnectionAssumption
<1>1. CASE w.connection = "open"
  <2>1. CASE v = [w EXCEPT !.ok = TRUE, !.done = TRUE]
    BY <1>1, <2>1 DEF Sound, Worlds, Transacted
  <2>2. CASE w.outages < MaxOutages /\ v \in {World("away", "closed", w.outages + 1, FALSE, done) : done \in BOOLEAN}
    <3>1. PICK done \in BOOLEAN : v = World("away", "closed", w.outages + 1, FALSE, done)
      BY <2>2
    <3>2. w.outages + 1 \in 0..MaxOutages
      BY <2>2 DEF Sound, Worlds
    <3>. QED  BY <3>1, <3>2 DEF Sound, Worlds, Transacted, World
  <2>. QED  BY <1>1, <2>1, <2>2 DEF runTransaction
<1>2. CASE w.connection # "open"
  <2>1. v = [w EXCEPT !.connection = "closed", !.ok = FALSE, !.done = FALSE]
    BY <1>2 DEF runTransaction
  <2>. QED  BY <1>2, <2>1 DEF Sound, Worlds, Transacted
<1>. QED  BY <1>1, <1>2

\* The same of several, of which the later ones may be left out.
LEMMA ThenOutcome ==
    ASSUME NEW w, NEW worlds, \A u \in worlds : Transacted(w, u), NEW v \in Then(worlds)
    PROVE  Transacted(w, v)
<1>1. PICK u \in worlds : v \in IF u.ok THEN runTransaction(u) ELSE {[u EXCEPT !.done = FALSE]}
  BY DEF Then
<1>2. Transacted(w, u)
  OBVIOUS
<1>3. CASE u.ok
  <2>1. v \in runTransaction(u) /\ Sound(u)
    BY <1>1, <1>2, <1>3 DEF Transacted
  <2>2. Transacted(u, v)
    BY <2>1, TransactionOutcome
  <2>. QED  BY <1>2, <2>2 DEF Transacted
<1>4. CASE ~u.ok
  <2>1. v = [u EXCEPT !.done = FALSE]
    BY <1>1, <1>4
  <2>. QED  BY <1>2, <1>4, <2>1 DEF Transacted, Sound, Worlds
<1>. QED  BY <1>3, <1>4

\* And of a request that is turned down after them.
LEMMA TurnedDownOutcome ==
    ASSUME NEW w, Sound(w), NEW v \in TurnedDown(w)
    PROVE  Transacted(w, v)
<1>1. PICK u : /\ Transacted(w, u)
               /\ v \in {[u EXCEPT !.ok = FALSE, !.done = FALSE], [u EXCEPT !.ok = FALSE]}
  <2>1. CASE v \in {[u EXCEPT !.ok = FALSE, !.done = FALSE] : u \in runTransaction(w)}
    BY <2>1, TransactionOutcome
  <2>2. CASE v \in {[u EXCEPT !.ok = FALSE] : u \in Then(runTransaction(w))}
    <3>1. \A u \in Then(runTransaction(w)) : Transacted(w, u)
      BY TransactionOutcome, ThenOutcome
    <3>. QED  BY <2>2, <3>1
  <2>. QED  BY <2>1, <2>2 DEF TurnedDown
<1>. QED  BY <1>1 DEF Transacted, Sound, Worlds

\* Every script, of one, two or three transactions.
LEMMA ScriptOutcome ==
    ASSUME NEW w, Sound(w), NEW kind \in Kinds, NEW v \in Script(kind, w)
    PROVE  Transacted(w, v)
<1>1. \A u \in runTransaction(w) : Transacted(w, u)
  BY TransactionOutcome
<1>2. \A u \in Then(runTransaction(w)) : Transacted(w, u)
  BY <1>1, ThenOutcome
<1>3. CASE kind \in {"Get", "Init"}
  <2>1. v \in runTransaction(w)
    BY <1>3 DEF Script
  <2>. QED  BY <1>1, <2>1
<1>4. CASE kind = "Write"
  <2>1. v \in Then(runTransaction(w)) \cup TurnedDown(w)
    BY <1>4 DEF Script
  <2>. QED  BY <1>2, <2>1, TurnedDownOutcome
<1>5. CASE kind = "ForcedAdd"
  <2>1. v \in Then(Then(runTransaction(w)))
    BY <1>5 DEF Script
  <2>. QED  BY <1>2, <2>1, ThenOutcome
<1>6. CASE kind = "ForcedInit"
  <2>1. v \in Regardless(w)
    BY <1>6 DEF Script
  <2>2. PICK u \in runTransaction(w) : v \in runTransaction(u)
    BY <2>1 DEF Regardless
  <2>3. Transacted(w, u)
    BY <1>1
  <2>4. Transacted(u, v)
    BY <2>2, <2>3, TransactionOutcome DEF Transacted
  <2>. QED  BY <2>3, <2>4 DEF Transacted
<1>. QED  BY <1>3, <1>4, <1>5, <1>6 DEF Kinds

-----------------------------------------------------------------------------
\* The head of a queue is one of its requests.
LEMMA HeadType == ASSUME NEW S, NEW q \in Seq(S), q # <<>> PROVE Head(q) \in S
  OBVIOUS

\* What a handler does: the world it leaves is one its transactions reached
\* from the present one, with the connection replaced if an InitDatabase found
\* it closed (Handle).
LEMMA HandleMeans ==
    ASSUME TypeOK, Handle
    PROVE  \E rq \in [id : RequestIds, kind : Kinds], u \in Worlds, w \in Worlds :
              /\ rq = Head(queue)
              /\ Transacted(u, w)
              /\ u.connection = "closed" => ~IsInit(rq)
              /\ u.connection = "stale" => connection = "stale"
              /\ (IsInit(rq) /\ connection \in {"open", "closed"}) => u.connection = "open"
              /\ server' = w.server /\ connection' = w.connection /\ outages' = w.outages
              /\ answers' = Answered(rq, w)
              /\ committed' = IF w.done THEN committed \cup {rq.id} ELSE committed
              /\ inits' = IF IsInit(rq) /\ w.server = "up" THEN inits + 1 ELSE 0
              /\ queue' = Tail(queue)
<1>. DEFINE rq == Head(queue)
            u == IF IsInit(rq) THEN Reconnected(Now) ELSE Now
<1>1. rq \in [id : RequestIds, kind : Kinds]
  <2>1. queue # <<>>
    BY DEF Handle
  <2>2. queue \in Seq([id : RequestIds, kind : Kinds])
    BY DEF TypeOK
  <2>. QED  BY <2>1, <2>2, HeadType
<1>2. Sound(Now)
  BY DEF TypeOK, Now, World, Sound, Worlds
<1>3. ~CannotReconnect(rq)
  BY DEF Handle
<1>4. Sound(u)
  BY <1>2, <1>3 DEF Sound, Worlds, Reconnected, CannotReconnect, Now, World, TypeOK
<1>5. PICK w \in Script(rq.kind, u) :
          /\ server' = w.server /\ connection' = w.connection /\ outages' = w.outages
          /\ answers' = Answered(rq, w)
          /\ committed' = IF w.done THEN committed \cup {rq.id} ELSE committed
          /\ inits' = IF IsInit(rq) /\ w.server = "up" THEN inits + 1 ELSE 0
  BY DEF Handle
<1>6. Transacted(u, w)
  <2>1. rq.kind \in Kinds
    BY <1>1
  <2>. HIDE DEF rq, u
  <2>. QED  BY <1>4, <1>5, <2>1, ScriptOutcome
<1>7. u \in Worlds /\ w \in Worlds
  BY <1>4, <1>6 DEF Sound, Transacted
<1>8. /\ u.connection = "closed" => ~IsInit(rq)
      /\ u.connection = "stale" => connection = "stale"
      /\ (IsInit(rq) /\ connection \in {"open", "closed"}) => u.connection = "open"
  BY DEF Reconnected, Now, World
<1>9. queue' = Tail(queue)
  BY DEF Handle
<1>10. rq = Head(queue)
  OBVIOUS
<1>. HIDE DEF rq, u
<1>. QED  BY <1>1, <1>5, <1>6, <1>7, <1>8, <1>9, <1>10

\* Every variable of PQConnection has its type, whatever the server does.
LEMMA TypeNext == TypeOK /\ [Next]_vars => TypeOK'
<1>. SUFFICES ASSUME TypeOK, [Next]_vars PROVE TypeOK'
  OBVIOUS
<1>. USE ConnectionAssumption
<1>1. CASE Handle
  <2>1. PICK rq \in [id : RequestIds, kind : Kinds], u \in Worlds, w \in Worlds :
              /\ Transacted(u, w)
              /\ server' = w.server /\ connection' = w.connection /\ outages' = w.outages
              /\ answers' = Answered(rq, w)
              /\ committed' = IF w.done THEN committed \cup {rq.id} ELSE committed
              /\ inits' = IF IsInit(rq) /\ w.server = "up" THEN inits + 1 ELSE 0
              /\ queue' = Tail(queue)
    BY <1>1, HandleMeans
  <2>2. /\ server' \in {"up", "away"}
        /\ connection' \in {"open", "stale", "closed"}
        /\ connection' = "open" => server' = "up"
        /\ outages' \in 0..MaxOutages
    BY <2>1 DEF Transacted, Sound, Worlds
  <2>3. answers' \in [RequestIds -> Seq({"Okay", "Error"})]
    BY <2>1 DEF Answered, StatusOf, TypeOK
  <2>4. queue' \in Seq([id : RequestIds, kind : Kinds])
    BY <1>1, <2>1 DEF Handle, TypeOK
  <2>5. committed' \subseteq RequestIds /\ inits' \in Nat
    BY <2>1 DEF TypeOK
  <2>. QED  BY <1>1, <2>2, <2>3, <2>4, <2>5 DEF TypeOK, Handle
<1>2. CASE HandleThrows
  BY <1>2 DEF TypeOK, HandleThrows, serverVars
<1>3. ASSUME NEW r \in RequestIds, NEW k \in Kinds, Ask(r, k) PROVE TypeOK'
  <2>1. queue' \in Seq([id : RequestIds, kind : Kinds])
    BY <1>3 DEF TypeOK, Ask
  <2>. QED  BY <1>3, <2>1 DEF TypeOK, Ask, serverVars
<1>4. CASE Server_goes
  BY <1>4 DEF TypeOK, Server_goes, Cut
<1>5. CASE Server_returns
  BY <1>5 DEF TypeOK, Server_returns
<1>6. CASE Collector_boot
  BY <1>6 DEF TypeOK, Collector_boot
<1>7. CASE UNCHANGED vars
  BY <1>7 DEF TypeOK, vars, serverVars
<1>. QED  BY <1>1, <1>2, <1>3, <1>4, <1>5, <1>6, <1>7 DEF Next

\* The types of PQConnection hold in every reachable state.
THEOREM TypeCorrect == Spec => []TypeOK
<1>1. Init => TypeOK
  BY ConnectionAssumption DEF Init, TypeOK
<1>. QED  BY <1>1, TypeNext, PTL DEF Spec

-----------------------------------------------------------------------------
\* A request that was answered Okay is committed, wherever in the middle of its
\* handler the server went (the catch blocks of PQDatabase's handlers).
THEOREM OkayIsCommittedSafe == Spec => []OkayIsCommitted
<1>1. Init => OkayIsCommitted
  BY DEF Init, OkayIsCommitted
<1>2. TypeOK /\ OkayIsCommitted /\ [Next]_vars => OkayIsCommitted'
  <2>. SUFFICES ASSUME TypeOK, OkayIsCommitted, [Next]_vars PROVE OkayIsCommitted'
    OBVIOUS
  <2>1. CASE Handle
    <3>1. PICK rq \in [id : RequestIds, kind : Kinds], u \in Worlds, w \in Worlds :
              /\ Transacted(u, w)
              /\ answers' = Answered(rq, w)
              /\ committed' = IF w.done THEN committed \cup {rq.id} ELSE committed
      BY <2>1, HandleMeans
    <3>. SUFFICES ASSUME NEW r \in RequestIds, answers'[r] = <<"Okay">> PROVE r \in committed'
      BY DEF OkayIsCommitted
    <3>2. CASE r # rq.id
      <4>1. answers'[r] = answers[r]
        BY <3>1, <3>2 DEF Answered, TypeOK
      <4>. QED  BY <3>1, <4>1 DEF OkayIsCommitted
    <3>3. CASE r = rq.id
      <4>1. answers'[r] = Append(answers[r], StatusOf(w)) /\ answers[r] \in Seq({"Okay", "Error"})
        BY <3>1, <3>3 DEF Answered, TypeOK
      <4>2. answers'[r][Len(answers[r]) + 1] = StatusOf(w) /\ Len(answers'[r]) = Len(answers[r]) + 1
        BY <4>1 DEF StatusOf
      <4>3. StatusOf(w) = "Okay"
        BY <4>2
      <4>4. w.done
        BY <3>1, <4>3 DEF StatusOf, Transacted
      <4>. QED  BY <3>1, <3>3, <4>4
    <3>. QED  BY <3>2, <3>3
  <2>2. CASE UNCHANGED <<answers, committed>>
    BY <2>2 DEF OkayIsCommitted
  <2>. QED  BY <2>1, <2>2 DEF Next, HandleThrows, Ask, Server_goes, Server_returns,
                              Collector_boot, vars
<1>. QED  BY <1>1, <1>2, TypeCorrect, PTL DEF Spec

-----------------------------------------------------------------------------
\* What the first of two initializations leaves for the second: the server is
\* there and the connection knows whether it is closed.
InitsProgress ==
    /\ inits >= 1 => server = "up" /\ connection \in {"open", "closed"}
    /\ inits >= 2 => connection = "open"

\* Two requests of InitDatabase in a row bring the connection back, whatever was
\* lost before (doInitDatabase, reconnect).
THEOREM TwoInitsSafe == Spec => []TwoInitsReconnect
<1>1. Init => InitsProgress
  BY DEF Init, InitsProgress
<1>2. TypeOK /\ InitsProgress /\ [Next]_vars => InitsProgress'
  <2>. SUFFICES ASSUME TypeOK, InitsProgress, [Next]_vars PROVE InitsProgress'
    OBVIOUS
  <2>1. CASE Handle
    <3>1. PICK rq \in [id : RequestIds, kind : Kinds], u \in Worlds, w \in Worlds :
              /\ Transacted(u, w)
              /\ (IsInit(rq) /\ connection \in {"open", "closed"}) => u.connection = "open"
              /\ server' = w.server /\ connection' = w.connection
              /\ inits' = IF IsInit(rq) /\ w.server = "up" THEN inits + 1 ELSE 0
      BY <2>1, HandleMeans
    <3>2. CASE IsInit(rq) /\ w.server = "up"
      <4>1. server' = "up" /\ connection' \in {"open", "closed"}
        BY <3>1, <3>2 DEF Transacted
      <4>2. ASSUME inits' >= 2 PROVE connection' = "open"
        <5>1. inits >= 1
          BY <3>1, <3>2, <4>2 DEF TypeOK
        <5>2. connection \in {"open", "closed"}
          BY <5>1 DEF InitsProgress
        <5>. QED  BY <3>1, <3>2, <5>2 DEF Transacted
      <4>. QED  BY <4>1, <4>2 DEF InitsProgress
    <3>3. CASE ~(IsInit(rq) /\ w.server = "up")
      BY <3>1, <3>3 DEF InitsProgress
    <3>. QED  BY <3>2, <3>3
  <2>2. CASE HandleThrows \/ Server_goes \/ Server_returns \/ Collector_boot
    BY <2>2 DEF HandleThrows, Server_goes, Server_returns, Collector_boot, InitsProgress
  <2>3. CASE UNCHANGED <<serverVars, inits>>
    BY <2>3 DEF InitsProgress, serverVars
  <2>. QED  BY <2>1, <2>2, <2>3 DEF Next, Ask, vars
<1>3. InitsProgress => TwoInitsReconnect
  BY DEF InitsProgress, TwoInitsReconnect
<1>. QED  BY <1>1, <1>2, <1>3, TypeCorrect, PTL DEF Spec
=============================================================================
