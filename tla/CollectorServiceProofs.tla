----------------------- MODULE CollectorServiceProofs -----------------------
(***************************************************************************)
(* What the collector promises its clients, for any number of clients,     *)
(* devices and lives of the process, whatever fails: a request is in one   *)
(* queue or answered, never both and never twice (RequestAnsweredOnce), so *)
(* that the collector implements ControlService (ImplementsService).       *)
(*                                                                         *)
(* A request is followed by its client.  First what popping and pushing do *)
(* to the clients of a queue, then the few shapes a step can have, then    *)
(* one lemma for each shape.                                               *)
(***************************************************************************)
EXTENDS CollectorRecoveryProofs

-----------------------------------------------------------------------------
(* The clients of a queue.                                                 *)

\* A request of client c is in queue q.
Has(q, c) == \E i \in DOMAIN q : q[i].client = c

\* Not more than one is.
Once(q, c) == \A i, j \in DOMAIN q : (q[i].client = c /\ q[j].client = c) => i = j

Quiet(q) == \A i \in DOMAIN q : q[i].client = NoClient

LEMMA TailClients ==
    ASSUME NEW S, NEW q \in Seq(S), q # <<>>, NEW c
    PROVE  /\ Has(q, c) <=> (Head(q).client = c \/ Has(Tail(q), c))
           /\ Once(q, c) => Once(Tail(q), c)
           /\ (Once(q, c) /\ Head(q).client = c) => ~Has(Tail(q), c)
<1>. DEFINE t == Tail(q)
<1>1. /\ Len(q) \in Nat /\ Len(q) >= 1
      /\ Len(t) = Len(q) - 1
      /\ DOMAIN q = 1..Len(q)
      /\ DOMAIN t = 1..(Len(q) - 1)
      /\ Head(q) = q[1]
      /\ \A i \in 1..(Len(q) - 1) : t[i] = q[i + 1]
  OBVIOUS
<1>. HIDE DEF t
<1>2. ASSUME NEW i \in DOMAIN t PROVE i + 1 \in DOMAIN q /\ i + 1 # 1 /\ t[i] = q[i + 1]
  BY <1>1
<1>3. ASSUME NEW i \in DOMAIN q, i # 1 PROVE i - 1 \in DOMAIN t /\ t[i - 1] = q[i]
  <2>1. i - 1 \in 1..(Len(q) - 1) /\ (i - 1) + 1 = i
    BY <1>1, <1>3
  <2>. QED  BY <1>1, <2>1
<1>4. 1 \in DOMAIN q
  BY <1>1
<1>5. Has(q, c) <=> (Head(q).client = c \/ Has(t, c))
  <2>1. ASSUME Has(q, c) PROVE Head(q).client = c \/ Has(t, c)
    <3>1. PICK i \in DOMAIN q : q[i].client = c
      BY <2>1 DEF Has
    <3>. QED  BY <1>1, <1>3, <3>1 DEF Has
  <2>2. ASSUME Has(t, c) PROVE Has(q, c)
    <3>1. PICK i \in DOMAIN t : t[i].client = c
      BY <2>2 DEF Has
    <3>. QED  BY <1>2, <3>1 DEF Has
  <2>3. Head(q).client = c => Has(q, c)
    BY <1>1, <1>4 DEF Has
  <2>. QED  BY <2>1, <2>2, <2>3
<1>6. Once(q, c) => Once(t, c)
  <2>. SUFFICES ASSUME Once(q, c), NEW i \in DOMAIN t, NEW j \in DOMAIN t,
                       t[i].client = c, t[j].client = c
                PROVE  i = j
    BY DEF Once
  <2>1. i + 1 = j + 1
    BY <1>2 DEF Once
  <2>. QED  BY <1>1, <2>1
<1>7. (Once(q, c) /\ Head(q).client = c) => ~Has(t, c)
  <2>. SUFFICES ASSUME Once(q, c), Head(q).client = c, NEW i \in DOMAIN t, t[i].client = c
                PROVE  FALSE
    BY DEF Has
  <2>. QED  BY <1>1, <1>2, <1>4 DEF Once
<1>. QED  BY <1>5, <1>6, <1>7 DEF t

LEMMA AppendClients ==
    ASSUME NEW S, NEW q \in Seq(S), NEW e \in S, NEW c
    PROVE  /\ Has(Append(q, e), c) <=> (Has(q, c) \/ e.client = c)
           /\ (Once(q, c) /\ ~(Has(q, c) /\ e.client = c)) => Once(Append(q, e), c)
<1>. DEFINE s == Append(q, e)
<1>1. /\ Len(q) \in Nat
      /\ DOMAIN q = 1..Len(q)
      /\ DOMAIN s = 1..(Len(q) + 1)
      /\ s[Len(q) + 1] = e
      /\ \A i \in 1..Len(q) : s[i] = q[i]
  OBVIOUS
<1>. HIDE DEF s
<1>2. ASSUME NEW i \in DOMAIN q PROVE i \in DOMAIN s /\ s[i] = q[i]
  BY <1>1
<1>3. ASSUME NEW i \in DOMAIN s PROVE i \in DOMAIN q \/ i = Len(q) + 1
  BY <1>1
<1>4. Len(q) + 1 \in DOMAIN s
  BY <1>1
<1>5. Has(s, c) <=> (Has(q, c) \/ e.client = c)
  BY <1>1, <1>2, <1>3, <1>4 DEF Has
<1>6. (Once(q, c) /\ ~(Has(q, c) /\ e.client = c)) => Once(s, c)
  BY <1>1, <1>2, <1>3 DEF Has, Once
<1>. QED  BY <1>5, <1>6 DEF s

\* Requests without a client change nothing for a client.
LEMMA QuietClients ==
    ASSUME NEW S, NEW q \in Seq(S), NEW r \in Seq(S), Quiet(r), NEW c, c # NoClient
    PROVE  /\ Has(q \o r, c) <=> Has(q, c)
           /\ Once(q, c) => Once(q \o r, c)
<1>. DEFINE s == q \o r
<1>1. /\ s \in Seq(S)
      /\ Len(s) = Len(q) + Len(r)
      /\ \A i \in 1..Len(q) + Len(r) : s[i] = IF i <= Len(q) THEN q[i] ELSE r[i - Len(q)]
  BY ConcatProperties
<1>2. Len(q) \in Nat /\ Len(r) \in Nat /\ DOMAIN q = 1..Len(q) /\ DOMAIN r = 1..Len(r)
  OBVIOUS
<1>3. DOMAIN s = 1..(Len(q) + Len(r))
  BY <1>1
<1>. HIDE DEF s
<1>4. ASSUME NEW i \in DOMAIN q PROVE i \in DOMAIN s /\ s[i] = q[i]
  BY <1>1, <1>2, <1>3
<1>5. ASSUME NEW i \in DOMAIN s, s[i].client = c PROVE i \in DOMAIN q /\ s[i] = q[i]
  <2>1. CASE i <= Len(q)
    BY <1>1, <1>2, <1>3, <2>1
  <2>2. CASE ~(i <= Len(q))
    <3>1. i - Len(q) \in DOMAIN r /\ s[i] = r[i - Len(q)]
      BY <1>1, <1>2, <1>3, <2>2
    <3>. QED  BY <1>5, <3>1 DEF Quiet
  <2>. QED  BY <2>1, <2>2
<1>6. Has(s, c) <=> Has(q, c)
  BY <1>4, <1>5 DEF Has
<1>7. Once(q, c) => Once(s, c)
  BY <1>5 DEF Once
<1>. QED  BY <1>6, <1>7 DEF s

\* What a handler that pops its request and pushes internal ones does.
LEMMA PopClients ==
    ASSUME NEW S, NEW q \in Seq(S), q # <<>>, NEW r \in Seq(S), Quiet(r), NEW c, c # NoClient
    PROVE  /\ Has(q, c) <=> (Head(q).client = c \/ Has(Tail(q) \o r, c))
           /\ Once(q, c) => Once(Tail(q) \o r, c)
           /\ (Once(q, c) /\ Head(q).client = c) => ~Has(Tail(q) \o r, c)
<1>1. Tail(q) \in Seq(S)
  OBVIOUS
<1>2. /\ Has(Tail(q) \o r, c) <=> Has(Tail(q), c)
      /\ Once(Tail(q), c) => Once(Tail(q) \o r, c)
  BY <1>1, QuietClients
<1>. QED  BY <1>2, TailClients

\* What a handler that pushes its request on does.
LEMMA ForwardClients ==
    ASSUME NEW S, NEW q \in Seq(S), q # <<>>, NEW e \in S, e.client = Head(q).client, NEW c
    PROVE  /\ Has(Tail(q) \o <<e>>, c) <=> Has(q, c)
           /\ Once(q, c) => Once(Tail(q) \o <<e>>, c)
<1>1. Tail(q) \in Seq(S)
  OBVIOUS
<1>2. Tail(q) \o <<e>> = Append(Tail(q), e)
  BY <1>1, AppendIsConcat
<1>3. /\ Has(Append(Tail(q), e), c) <=> (Has(Tail(q), c) \/ e.client = c)
      /\ (Once(Tail(q), c) /\ ~(Has(Tail(q), c) /\ e.client = c)) => Once(Append(Tail(q), e), c)
  BY <1>1, AppendClients
<1>4. /\ Has(q, c) <=> (Head(q).client = c \/ Has(Tail(q), c))
      /\ Once(q, c) => Once(Tail(q), c)
      /\ (Once(q, c) /\ Head(q).client = c) => ~Has(Tail(q), c)
  BY TailClients
<1>. QED  BY <1>2, <1>3, <1>4

-----------------------------------------------------------------------------
(* The clients of all devices together.                                    *)

InDevices(queues, c) == \E d \in Devices : Has(queues[d], c)

OnceInDevices(queues, c) ==
    /\ \A d \in Devices : Once(queues[d], c)
    /\ \A d, e \in Devices : (Has(queues[d], c) /\ Has(queues[e], c)) => d = e

\* A queue that gets no client it did not have.
LEMMA DeviceKeepsClients ==
    ASSUME NEW S, NEW V \in [Devices -> Seq(S)], NEW d \in Devices, NEW q \in Seq(S), NEW c,
           Has(q, c) => Has(V[d], c), Once(V[d], c) => Once(q, c)
    PROVE  LET W == [V EXCEPT ![d] = q] IN
           /\ OnceInDevices(V, c) => OnceInDevices(W, c)
           /\ InDevices(W, c) => InDevices(V, c)
           /\ (InDevices(V, c) /\ ~Has(V[d], c)) => InDevices(W, c)
           /\ Has(q, c) => InDevices(W, c)
           /\ (OnceInDevices(V, c) /\ Has(V[d], c) /\ ~Has(q, c)) => ~InDevices(W, c)
<1>. DEFINE W == [V EXCEPT ![d] = q]
<1>1. W[d] = q /\ \A e \in Devices : e # d => W[e] = V[e]
  OBVIOUS
<1>. HIDE DEF W
<1>2. OnceInDevices(V, c) => OnceInDevices(W, c)
  BY <1>1 DEF OnceInDevices
<1>3. InDevices(W, c) => InDevices(V, c)
  BY <1>1 DEF InDevices
<1>4. (InDevices(V, c) /\ ~Has(V[d], c)) => InDevices(W, c)
  BY <1>1 DEF InDevices
<1>5. Has(q, c) => InDevices(W, c)
  BY <1>1 DEF InDevices
<1>6. (OnceInDevices(V, c) /\ Has(V[d], c) /\ ~Has(q, c)) => ~InDevices(W, c)
  BY <1>1 DEF InDevices, OnceInDevices
<1>. QED  BY <1>2, <1>3, <1>4, <1>5, <1>6 DEF W

\* A request that is pushed on the queue of a device.
LEMMA DevicePushClients ==
    ASSUME NEW S, NEW V \in [Devices -> Seq(S)], NEW d \in Devices, NEW e \in S, NEW c
    PROVE  LET W == [V EXCEPT ![d] = Append(@, e)] IN
           /\ InDevices(W, c) <=> (InDevices(V, c) \/ e.client = c)
           /\ (OnceInDevices(V, c) /\ ~(InDevices(V, c) /\ e.client = c)) => OnceInDevices(W, c)
<1>. DEFINE q == Append(V[d], e)
            W == [V EXCEPT ![d] = q]
<1>1. W[d] = q /\ \A x \in Devices : x # d => W[x] = V[x]
  OBVIOUS
<1>2. V[d] \in Seq(S)
  OBVIOUS
<1>3. /\ Has(q, c) <=> (Has(V[d], c) \/ e.client = c)
      /\ (Once(V[d], c) /\ ~(Has(V[d], c) /\ e.client = c)) => Once(q, c)
  BY <1>2, AppendClients
<1>. HIDE DEF W, q
<1>4. InDevices(W, c) <=> (InDevices(V, c) \/ e.client = c)
  BY <1>1, <1>3 DEF InDevices
<1>5. ASSUME OnceInDevices(V, c), ~(InDevices(V, c) /\ e.client = c) PROVE OnceInDevices(W, c)
  <2>1. CASE e.client = c
    <3>1. \A x \in Devices : ~Has(V[x], c)
      BY <1>5, <2>1 DEF InDevices
    <3>. QED  BY <1>1, <1>3, <1>5, <3>1 DEF OnceInDevices
  <2>2. CASE e.client # c
    BY <1>1, <1>3, <1>5, <2>2 DEF OnceInDevices
  <2>. QED  BY <2>1, <2>2
<1>. QED  BY <1>4, <1>5 DEF W, q

\* A device's handler that pops its request and pushes internal ones.
LEMMA DevicePopClients ==
    ASSUME NEW S, NEW V \in [Devices -> Seq(S)], NEW d \in Devices, V[d] # <<>>,
           NEW r \in Seq(S), Quiet(r), NEW c, c # NoClient
    PROVE  LET W == [V EXCEPT ![d] = Tail(@) \o r] IN
           /\ InDevices(V, c) <=> (Head(V[d]).client = c \/ InDevices(W, c))
           /\ OnceInDevices(V, c) => OnceInDevices(W, c)
           /\ (OnceInDevices(V, c) /\ Head(V[d]).client = c) => ~InDevices(W, c)
<1>. DEFINE q == Tail(V[d]) \o r
<1>1. V[d] \in Seq(S)
  OBVIOUS
<1>2. q \in Seq(S)
  BY <1>1, PopPushType
<1>3. /\ Has(V[d], c) <=> (Head(V[d]).client = c \/ Has(q, c))
      /\ Once(V[d], c) => Once(q, c)
      /\ (Once(V[d], c) /\ Head(V[d]).client = c) => ~Has(q, c)
  BY <1>1, PopClients
<1>. HIDE DEF q
<1>4. LET W == [V EXCEPT ![d] = q] IN
      /\ OnceInDevices(V, c) => OnceInDevices(W, c)
      /\ InDevices(W, c) => InDevices(V, c)
      /\ (InDevices(V, c) /\ ~Has(V[d], c)) => InDevices(W, c)
      /\ Has(q, c) => InDevices(W, c)
      /\ (OnceInDevices(V, c) /\ Has(V[d], c) /\ ~Has(q, c)) => ~InDevices(W, c)
  BY <1>2, <1>3, DeviceKeepsClients
<1>5. Has(V[d], c) => InDevices(V, c)
  BY DEF InDevices
<1>6. OnceInDevices(V, c) => Once(V[d], c)
  BY DEF OnceInDevices
<1>. QED  BY <1>3, <1>4, <1>5, <1>6 DEF q

\* A device's handler that pushes its request on to the device itself.
LEMMA DeviceForwardClients ==
    ASSUME NEW S, NEW V \in [Devices -> Seq(S)], NEW d \in Devices, V[d] # <<>>,
           NEW e \in S, e.client = Head(V[d]).client, NEW c
    PROVE  LET W == [V EXCEPT ![d] = Tail(@) \o <<e>>] IN
           /\ InDevices(W, c) <=> InDevices(V, c)
           /\ OnceInDevices(V, c) => OnceInDevices(W, c)
<1>. DEFINE q == Tail(V[d]) \o <<e>>
<1>1. V[d] \in Seq(S)
  OBVIOUS
<1>2. q \in Seq(S)
  BY <1>1, PopPushType
<1>3. /\ Has(q, c) <=> Has(V[d], c)
      /\ Once(V[d], c) => Once(q, c)
  BY <1>1, ForwardClients
<1>. HIDE DEF q
<1>4. LET W == [V EXCEPT ![d] = q] IN
      /\ OnceInDevices(V, c) => OnceInDevices(W, c)
      /\ InDevices(W, c) => InDevices(V, c)
      /\ (InDevices(V, c) /\ ~Has(V[d], c)) => InDevices(W, c)
      /\ Has(q, c) => InDevices(W, c)
  BY <1>2, <1>3, DeviceKeepsClients
<1>. QED  BY <1>3, <1>4 DEF q

-----------------------------------------------------------------------------
(* Requests that are handled without an answer have no client.             *)

QuietDatabaseActions == {"CheckDatabase", "LoadDevices", "CleanSessions", "AddSession", "EndSession", "AddData"}
QuietDeviceActions == {"RequestSession", "SetSession", "StartStream", "StopStream", "ProcessData", "Status"}

DatabaseRequests ==
    {rq \in RequestsOf(DatabaseActions) : rq.action \in QuietDatabaseActions => rq.client = NoClient}
DeviceRequests ==
    {rq \in RequestsOf(DeviceActions) : rq.action \in QuietDeviceActions => rq.client = NoClient}

QuietIn(S) == {rq \in S : rq.client = NoClient}

RequestsTyped ==
    /\ dbQueue \in Seq(DatabaseRequests)
    /\ deviceQueue \in [Devices -> Seq(DeviceRequests)]

LEMMA QuietSequence ==
    ASSUME NEW S, NEW r \in Seq(QuietIn(S))
    PROVE  r \in Seq(S) /\ Quiet(r)
<1>1. QuietIn(S) \subseteq S
  BY DEF QuietIn
<1>2. r \in Seq(S)
  BY <1>1, SeqMonotonic
<1>3. \A i \in DOMAIN r : r[i] \in QuietIn(S)
  OBVIOUS
<1>. QED  BY <1>2, <1>3 DEF Quiet, QuietIn

\* The requests the handlers make up.
LEMMA DatabaseRequestType ==
    ASSUME NEW d \in Devices \cup {NoDevice}, NEW h \in Hashes \cup {NoHash}, NEW p \in Hashes \cup {NoHash}
    PROVE  /\ Request("EndSession", NoClient, NoDevice, h) \in QuietIn(DatabaseRequests)
           /\ Request("AddSession", NoClient, d, h) \in QuietIn(DatabaseRequests)
           /\ [Request("AddData", NoClient, NoDevice, h) EXCEPT !.payload = p] \in QuietIn(DatabaseRequests)
           /\ loadDevices \in QuietIn(DatabaseRequests)
<1>1. /\ Request("EndSession", NoClient, NoDevice, h) \in RequestsOf(DatabaseActions)
      /\ Request("AddSession", NoClient, d, h) \in RequestsOf(DatabaseActions)
      /\ Request("AddData", NoClient, NoDevice, h) \in RequestsOf(DatabaseActions)
      /\ loadDevices \in RequestsOf(DatabaseActions)
  BY RequestType, InternalType, NullClient DEF DatabaseActions, loadDevices
<1>2. [Request("AddData", NoClient, NoDevice, h) EXCEPT !.payload = p] \in RequestsOf(DatabaseActions)
  BY <1>1, PayloadType
<1>3. /\ Request("EndSession", NoClient, NoDevice, h).client = NoClient
      /\ Request("AddSession", NoClient, d, h).client = NoClient
      /\ [Request("AddData", NoClient, NoDevice, h) EXCEPT !.payload = p].client = NoClient
      /\ loadDevices.client = NoClient
  BY DEF Request, Internal, loadDevices
<1>. QED  BY <1>1, <1>2, <1>3 DEF DatabaseRequests, QuietIn

LEMMA OwnRequestType ==
    ASSUME NEW c \in Clients, NEW d \in Devices, NEW h \in Hashes \cup {NoHash}, NEW p \in Hashes \cup {NoHash}
    PROVE  /\ Request("SendDescriptor", c, d, NoHash) \in DeviceRequests
           /\ Request("SendDescriptor", c, d, NoHash).client = c
           /\ \A a \in QuietDeviceActions : Internal(a) \in QuietIn(DeviceRequests)
           /\ Request("SetSession", NoClient, d, h) \in QuietIn(DeviceRequests)
           /\ [Internal("ProcessData") EXCEPT !.payload = p] \in QuietIn(DeviceRequests)
<1>1. QuietDeviceActions \subseteq DeviceActions /\ {"SendDescriptor", "SetSession"} \subseteq DeviceActions
  BY DEF DeviceActions, QuietDeviceActions
<1>2. /\ Request("SendDescriptor", c, d, NoHash) \in RequestsOf(DeviceActions)
      /\ Request("SetSession", NoClient, d, h) \in RequestsOf(DeviceActions)
  BY <1>1, RequestType, NullClient
<1>3. \A a \in QuietDeviceActions : Internal(a) \in RequestsOf(DeviceActions)
  BY <1>1, InternalType DEF QuietDeviceActions
<1>4. [Internal("ProcessData") EXCEPT !.payload = p] \in RequestsOf(DeviceActions)
  BY <1>3, PayloadType DEF QuietDeviceActions
<1>5. /\ Request("SendDescriptor", c, d, NoHash).client = c
      /\ Request("SendDescriptor", c, d, NoHash).action = "SendDescriptor"
      /\ Request("SetSession", NoClient, d, h).client = NoClient
      /\ \A a : Internal(a).client = NoClient
      /\ [Internal("ProcessData") EXCEPT !.payload = p].client = NoClient
  BY DEF Request, Internal
<1>6. "SendDescriptor" \notin QuietDeviceActions
  BY DEF QuietDeviceActions
<1>. QED  BY <1>2, <1>3, <1>4, <1>5, <1>6 DEF DeviceRequests, QuietIn

-----------------------------------------------------------------------------
(* The shapes of a step.                                                   *)

PushesQuietly == dbQueue' = dbQueue \/ \E e \in QuietIn(DatabaseRequests) : dbQueue' = Append(dbQueue, e)

\* Device d takes the request and pushes internal ones.
Takes(d) ==
    /\ deviceQueue[d] # <<>>
    /\ PushesQuietly
    /\ \E r \in Seq(QuietIn(DeviceRequests)) : deviceQueue' = PopDevice(d, r)

Answers(d) == Takes(d) /\ \E s \in {"Okay", "Error"} : Reply(Head(deviceQueue[d]).client, s)

Absorbs(d) == Takes(d) /\ Head(deviceQueue[d]).client = NoClient /\ UNCHANGED dispatcherQueue

PassesOn(d) ==
    /\ deviceQueue[d] # <<>>
    /\ UNCHANGED <<dispatcherQueue, dbQueue>>
    /\ \E e \in DeviceRequests :
          e.client = Head(deviceQueue[d]).client /\ deviceQueue' = PopDevice(d, <<e>>)

LEMMA TakesNone ==
    ASSUME NEW d \in Devices, deviceQueue[d] # <<>>, deviceQueue' = PopDevice(d, <<>>), PushesQuietly
    PROVE  Takes(d)
<1>1. <<>> \in Seq(QuietIn(DeviceRequests))
  OBVIOUS
<1>. QED  BY <1>1 DEF Takes

LEMMA TakesOne ==
    ASSUME NEW d \in Devices, deviceQueue[d] # <<>>, NEW a \in QuietDeviceActions,
           deviceQueue' = PopDevice(d, <<Internal(a)>>), PushesQuietly
    PROVE  Takes(d)
<1>1. NoHash \in Hashes \cup {NoHash}
  OBVIOUS
<1>2. Internal(a) \in QuietIn(DeviceRequests)
  BY <1>1, OwnRequestType, NullClient
<1>3. <<Internal(a)>> \in Seq(QuietIn(DeviceRequests))
  BY <1>2
<1>. QED  BY <1>3 DEF Takes

LEMMA UpdateStateQuiet ==
    ASSUME TypeOK, NEW d \in Devices, NEW s, updateState(d, s)
    PROVE  PushesQuietly
<1>1. sessionHash[d] \in Hashes \cup {NoHash}
  BY DEF TypeOK, DeviceTypeOK
<1>2. Request("EndSession", NoClient, NoDevice, sessionHash[d]) \in QuietIn(DatabaseRequests)
  BY <1>1, DatabaseRequestType
<1>. QED  BY <1>2 DEF updateState, PushesQuietly

LEMMA DeviceHeadQuiet ==
    ASSUME TypeOK, RequestsTyped, NEW d \in Devices, deviceQueue[d] # <<>>,
           Head(deviceQueue[d]).action \in QuietDeviceActions
    PROVE  Head(deviceQueue[d]).client = NoClient
<1>1. deviceQueue[d] \in Seq(DeviceRequests)
  BY DEF RequestsTyped
<1>2. Head(deviceQueue[d]) \in DeviceRequests
  BY <1>1, PopType
<1>. QED  BY <1>2 DEF DeviceRequests

LEMMA DeviceShapes ==
    ASSUME TypeOK, RequestsTyped, NEW d \in Devices, DeviceHandler(d)
    PROVE  UNCHANGED queueVars \/ Answers(d) \/ Absorbs(d) \/ PassesOn(d)
<1>. DEFINE rq == Head(deviceQueue[d])
            Shaped == UNCHANGED queueVars \/ Answers(d) \/ Absorbs(d) \/ PassesOn(d)
<1>1. CASE Device_doConnectUnresolved(d)
  BY <1>1 DEF Device_doConnectUnresolved, NullDereference
<1>2. CASE Device_doConnect(d)
  <2>1. deviceQueue[d] # <<>>
    BY <1>2 DEF Device_doConnect, DeviceHandles
  <2>2. CASE /\ dbQueue' = dbQueue \/ disconnect(d)
             /\ Reply(rq.client, "Error")
             /\ deviceQueue' = PopDevice(d, <<>>)
    <3>1. PushesQuietly
      BY <2>2, UpdateStateQuiet DEF disconnect, PushesQuietly
    <3>2. Takes(d)
      BY <2>1, <2>2, <3>1, TakesNone
    <3>. QED  BY <2>2, <3>2 DEF Answers
  <2>3. CASE /\ UNCHANGED <<dispatcherQueue, dbQueue>>
             /\ deviceQueue' = PopDevice(d, <<Request("SendDescriptor", rq.client, d, NoHash)>>)
    <3>1. rq.client \in Clients
      BY <2>1, HeadType, FieldsType DEF TypeOK
    <3>2. /\ Request("SendDescriptor", rq.client, d, NoHash) \in DeviceRequests
          /\ Request("SendDescriptor", rq.client, d, NoHash).client = rq.client
      <4>1. NoHash \in Hashes \cup {NoHash}
        OBVIOUS
      <4>. QED  BY <3>1, <4>1, OwnRequestType
    <3>. QED  BY <2>1, <2>3, <3>2 DEF PassesOn
  <2>. QED  BY <1>2, <2>2, <2>3 DEF Device_doConnect
<1>3. CASE Device_doSendDescriptor(d)
  <2>1. CASE NullDereference
    BY <2>1 DEF NullDereference
  <2>2. CASE ~NullDereference
    <3>1. PICK sent \in Outcomes("descriptor") :
             /\ Reply(rq.client, IF sent THEN "Okay" ELSE "Error")
             /\ IF sent THEN updateState(d, "Connected") ELSE UNCHANGED <<state, dbQueue>>
      BY <1>3, <2>2 DEF Device_doSendDescriptor
    <3>2. deviceQueue[d] # <<>> /\ deviceQueue' = PopDevice(d, <<>>)
      BY <1>3, <2>2 DEF Device_doSendDescriptor, DeviceHandles
    <3>3. PushesQuietly
      BY <3>1, UpdateStateQuiet DEF PushesQuietly
    <3>4. \E s \in {"Okay", "Error"} : Reply(rq.client, s)
      BY <3>1
    <3>. QED  BY <3>2, <3>3, <3>4, TakesNone DEF Answers
  <2>. QED  BY <2>1, <2>2
<1>4. CASE Device_doDisconnect(d)
  <2>1. CASE NullDereference
    BY <2>1 DEF NullDereference
  <2>2. CASE ~NullDereference
    <3>1. deviceQueue[d] # <<>> /\ deviceQueue' = PopDevice(d, <<>>) /\ dbQueue' = dbQueue
      BY <1>4, <2>2 DEF Device_doDisconnect, DeviceHandles, deviceVars
    <3>2. \E s \in {"Okay", "Error"} : Reply(rq.client, s)
      BY <1>4, <2>2 DEF Device_doDisconnect
    <3>. QED  BY <3>1, <3>2, TakesNone DEF Answers, PushesQuietly
  <2>. QED  BY <2>1, <2>2
<1>5. CASE Device_doStartCollecting(d) \/ Device_doStopCollecting(d)
  <2>1. deviceQueue[d] # <<>> /\ dbQueue' = dbQueue
    BY <1>5 DEF Device_doStartCollecting, Device_doStopCollecting, DeviceHandles
  <2>2. \E s \in {"Okay", "Error"} : Reply(rq.client, s)
    BY <1>5 DEF Device_doStartCollecting, Device_doStopCollecting
  <2>3. \/ deviceQueue' = PopDevice(d, <<>>)
        \/ \E a \in {"RequestSession", "StartStream", "StopStream"} : deviceQueue' = PopDevice(d, <<Internal(a)>>)
    BY <1>5 DEF Device_doStartCollecting, Device_doStopCollecting, StartRequests
  <2>4. Takes(d)
    BY <2>1, <2>3, TakesNone, TakesOne DEF PushesQuietly, QuietDeviceActions
  <2>. QED  BY <2>2, <2>4 DEF Answers
<1>6. CASE Device_doRequestSession(d)
  <2>1. CASE NullDereference
    BY <2>1 DEF NullDereference
  <2>2. CASE ~NullDereference
    <3>1. /\ deviceQueue[d] # <<>> /\ deviceQueue' = PopDevice(d, <<>>)
          /\ UNCHANGED <<dispatcherQueue, dbQueue>>
          /\ rq.action \in QuietDeviceActions
      BY <1>6, <2>2 DEF Device_doRequestSession, DeviceHandles, QuietDeviceActions
    <3>. QED  BY <3>1, TakesNone, DeviceHeadQuiet DEF Absorbs, PushesQuietly
  <2>. QED  BY <2>1, <2>2
<1>7. CASE Device_doSetSession(d)
  <2>1. /\ deviceQueue[d] # <<>>
        /\ deviceQueue' = PopDevice(d, <<Internal("StartStream")>>)
        /\ UNCHANGED dispatcherQueue
        /\ dbQueue' = Append(dbQueue, Request("AddSession", NoClient, d, rq.session))
        /\ rq.action \in QuietDeviceActions
    BY <1>7 DEF Device_doSetSession, DeviceHandles, QuietDeviceActions
  <2>2. rq.session \in Hashes \cup {NoHash} /\ d \in Devices \cup {NoDevice}
    BY <2>1, HeadType, FieldsType DEF TypeOK
  <2>3. Request("AddSession", NoClient, d, rq.session) \in QuietIn(DatabaseRequests)
    BY <2>2, DatabaseRequestType
  <2>4. PushesQuietly
    BY <2>1, <2>3 DEF PushesQuietly
  <2>5. "StartStream" \in QuietDeviceActions
    BY DEF QuietDeviceActions
  <2>. QED  BY <2>1, <2>4, <2>5, TakesOne, DeviceHeadQuiet DEF Absorbs
<1>8. CASE Device_doStartStream(d) \/ Device_doStopStream(d) \/ Device_doStatus(d)
  <2>1. /\ deviceQueue[d] # <<>> /\ deviceQueue' = PopDevice(d, <<>>)
        /\ UNCHANGED <<dispatcherQueue, dbQueue>>
        /\ rq.action \in QuietDeviceActions
    BY <1>8
    DEF Device_doStartStream, Device_doStopStream, Device_doStatus, DeviceHandles, QuietDeviceActions
  <2>. QED  BY <2>1, TakesNone, DeviceHeadQuiet DEF Absorbs, PushesQuietly
<1>9. CASE Device_doProcessData(d)
  <2>. DEFINE add == [Request("AddData", NoClient, NoDevice, sessionHash[d]) EXCEPT !.payload = rq.payload]
  <2>1. /\ deviceQueue[d] # <<>> /\ deviceQueue' = PopDevice(d, <<>>)
        /\ UNCHANGED dispatcherQueue
        /\ dbQueue' = Append(dbQueue, add)
        /\ rq.action \in QuietDeviceActions
    BY <1>9 DEF Device_doProcessData, DeviceHandles, QuietDeviceActions
  <2>2. rq.payload \in Hashes \cup {NoHash} /\ sessionHash[d] \in Hashes \cup {NoHash}
    BY <2>1, HeadType, FieldsType DEF TypeOK, DeviceTypeOK
  <2>3. add \in QuietIn(DatabaseRequests)
    BY <2>2, DatabaseRequestType
  <2>. HIDE DEF add
  <2>4. PushesQuietly
    BY <2>1, <2>3 DEF PushesQuietly
  <2>. QED  BY <2>1, <2>4, TakesNone, DeviceHeadQuiet DEF Absorbs
<1>. QED  BY <1>1, <1>2, <1>3, <1>4, <1>5, <1>6, <1>7, <1>8, <1>9 DEF DeviceHandler

-----------------------------------------------------------------------------
\* What is read from a connection becomes an internal request of its device.
Hears(d) ==
    /\ UNCHANGED <<dispatcherQueue, dbQueue>>
    /\ \E e \in QuietIn(DeviceRequests) : deviceQueue' = [deviceQueue EXCEPT ![d] = Append(@, e)]

LEMMA ConnectionShapes ==
    ASSUME TypeOK, NEW d \in Devices, ConnectionEvent(d) \/ Connection_finalize(d) \/ Lane_tick(d)
    PROVE  \/ UNCHANGED queueVars
           \/ PushesQuietly /\ UNCHANGED <<dispatcherQueue, deviceQueue>>
           \/ Hears(d)
<1>1. ASSUME NEW h \in Issues[d], Connection_readSetSession(d, h) PROVE Hears(d)
  <2>1. h \in Hashes \cup {NoHash}
    BY DeviceAssumption
  <2>2. Request("SetSession", NoClient, d, h) \in QuietIn(DeviceRequests)
    BY <2>1, OwnRequestType, NullClient
  <2>. QED  BY <1>1, <2>2 DEF Connection_readSetSession, Pushed, Hears
<1>2. CASE Connection_readData(d)
  <2>1. monitorSession[d] \in Hashes \cup {NoHash}
    BY DEF TypeOK, DeviceTypeOK
  <2>2. [Internal("ProcessData") EXCEPT !.payload = monitorSession[d]] \in QuietIn(DeviceRequests)
    BY <2>1, OwnRequestType, NullClient
  <2>. QED  BY <1>2, <2>2 DEF Connection_readData, Pushed, Hears
<1>3. CASE Connection_readStatus(d)
  <2>1. NoHash \in Hashes \cup {NoHash} /\ "Status" \in QuietDeviceActions
    BY DEF QuietDeviceActions
  <2>2. Internal("Status") \in QuietIn(DeviceRequests)
    BY <2>1, OwnRequestType, NullClient
  <2>. QED  BY <1>3, <2>2 DEF Connection_readStatus, Pushed, Hears
<1>4. CASE Connection_readFails(d)
  BY <1>4 DEF Connection_readFails
<1>5. CASE Connection_finalize(d)
  <2>1. PushesQuietly
    BY <1>5, UpdateStateQuiet DEF Connection_finalize, disconnect
  <2>. QED  BY <1>5, <2>1 DEF Connection_finalize
<1>6. CASE Lane_tick(d)
  BY <1>6 DEF Lane_tick, NullDereference
<1>. QED  BY <1>1, <1>2, <1>3, <1>4, <1>5, <1>6 DEF ConnectionEvent

-----------------------------------------------------------------------------
\* The database takes a request, answers it or not, and pushes internal ones.
Serves ==
    /\ dbQueue # <<>>
    /\ UNCHANGED deviceQueue
    /\ \E r \in Seq(QuietIn(DatabaseRequests)) : dbQueue' = Tail(dbQueue) \o r
    /\ \/ \E s \in {"Okay", "Error"} : Reply(Head(dbQueue).client, s)
       \/ Head(dbQueue).client = NoClient /\ UNCHANGED dispatcherQueue

LEMMA QuietEndRequests ==
    ASSUME TypeOK, NEW rows \in Bijection(1..Cardinality(OpenSessions), OpenSessions)
    PROVE  EndRequests(rows) \in Seq(QuietIn(DatabaseRequests))
<1>1. Cardinality(OpenSessions) \in Nat
  BY FS_Subset, FS_CardinalityType DEF TypeOK, DatabaseTypeOK, OpenSessions
<1>2. rows \in [1..Cardinality(OpenSessions) -> OpenSessions]
  BY DEF Bijection, Injection
<1>3. \A i \in 1..Cardinality(OpenSessions) : rows[i].hash \in Hashes \cup {NoHash}
  BY <1>2 DEF TypeOK, DatabaseTypeOK, SessionRows, OpenSessions
<1>4. \A i \in 1..Cardinality(OpenSessions) :
        Request("EndSession", NoClient, NoDevice, rows[i].hash) \in QuietIn(DatabaseRequests)
  BY <1>3, DatabaseRequestType
<1>. QED  BY <1>1, <1>2, <1>4 DEF EndRequests

LEMMA DatabaseShapes ==
    ASSUME TypeOK, RequestsTyped, DatabaseStep
    PROVE  Serves
<1>. DEFINE rq == Head(dbQueue)
            Replies == \E s \in {"Okay", "Error"} : Reply(rq.client, s)
<1>1. dbQueue # <<>> /\ dbQueue \in Seq(DatabaseRequests)
  BY DatabaseQueueHead DEF RequestsTyped
<1>2. rq \in DatabaseRequests /\ Tail(dbQueue) \in Seq(DatabaseRequests)
  BY <1>1, PopType
<1>3. rq.action \in QuietDatabaseActions => rq.client = NoClient
  BY <1>2 DEF DatabaseRequests
<1>4. <<>> \in Seq(QuietIn(DatabaseRequests)) /\ Tail(dbQueue) = Tail(dbQueue) \o <<>>
  BY <1>2, ConcatEmptySeq
<1>5. CASE DB_doAddDevice
  <2>1. loadDevices \in QuietIn(DatabaseRequests)
    BY DatabaseRequestType
  <2>2. <<loadDevices>> \in Seq(QuietIn(DatabaseRequests))
    BY <2>1
  <2>3. dbQueue' = Tail(dbQueue) \o <<loadDevices>> \/ dbQueue' = Tail(dbQueue) \o <<>>
    BY <1>5 DEF DB_doAddDevice
  <2>4. UNCHANGED deviceQueue /\ Replies
    BY <1>5 DEF DB_doAddDevice
  <2>. QED  BY <1>1, <1>4, <2>2, <2>3, <2>4 DEF Serves
<1>6. CASE DB_doCleanSessions
  <2>1. UNCHANGED deviceQueue /\ UNCHANGED dispatcherQueue /\ rq.client = NoClient
    BY <1>3, <1>6 DEF DB_doCleanSessions, DatabaseHandles, QuietDatabaseActions
  <2>2. CASE dbQueue' = Tail(dbQueue)
    BY <1>1, <1>4, <2>1, <2>2 DEF Serves
  <2>3. ASSUME NEW rows \in Bijection(1..Cardinality(OpenSessions), OpenSessions),
               dbQueue' = Tail(dbQueue) \o EndRequests(rows)
        PROVE  Serves
    BY <1>1, <2>1, <2>3, QuietEndRequests DEF Serves
  <2>. QED  BY <1>6, <2>2, <2>3 DEF DB_doCleanSessions
<1>7. CASE DB_doCheckDatabase \/ DB_doLoadDevices \/ DB_doAddSession \/ DB_doEndSession \/ DB_doAddData
  <2>1. UNCHANGED <<dispatcherQueue, deviceQueue>> /\ dbQueue' = Tail(dbQueue)
    BY <1>7 DEF DB_doCheckDatabase, DB_doLoadDevices, DB_doAddSession, DB_doEndSession, DB_doAddData
  <2>2. rq.client = NoClient
    BY <1>3, <1>7
    DEF DB_doCheckDatabase, DB_doLoadDevices, DB_doAddSession, DB_doEndSession, DB_doAddData,
        DatabaseHandles, QuietDatabaseActions
  <2>. QED  BY <1>1, <1>4, <2>1, <2>2 DEF Serves
<1>8. CASE DB_doInitDatabase \/ DB_doGetDevices \/ DB_doGetSessions \/ DB_doRemoveDevice \/ DB_doRemSession
  <2>1. UNCHANGED deviceQueue /\ dbQueue' = Tail(dbQueue)
    BY <1>8 DEF DB_doInitDatabase, DB_doGetDevices, DB_doGetSessions, DB_doRemoveDevice, DB_doRemSession
  <2>2. Replies
    BY <1>8 DEF DB_doInitDatabase, DB_doGetDevices, DB_doGetSessions, DB_doRemoveDevice, DB_doRemSession
  <2>. QED  BY <1>1, <1>4, <2>1, <2>2 DEF Serves
<1>. QED  BY <1>5, <1>6, <1>7, <1>8 DEF DatabaseStep, DatabaseHandler

-----------------------------------------------------------------------------
(* The dispatcher and the clients.                                         *)

ToDatabase ==
    /\ dispatcherQueue # <<>>
    /\ UNCHANGED deviceQueue
    /\ dispatcherQueue' = Tail(dispatcherQueue)
    /\ \E e \in DatabaseRequests :
          e.client = Head(dispatcherQueue).client /\ dbQueue' = Append(dbQueue, e)

ToDevice ==
    /\ dispatcherQueue # <<>>
    /\ UNCHANGED dbQueue
    /\ dispatcherQueue' = Tail(dispatcherQueue)
    /\ \E d \in Devices, e \in DeviceRequests :
          e.client = Head(dispatcherQueue).client /\ deviceQueue' = [deviceQueue EXCEPT ![d] = Append(@, e)]

NoSuchDevice ==
    /\ dispatcherQueue # <<>>
    /\ UNCHANGED <<dbQueue, deviceQueue>>
    /\ dispatcherQueue' = Append(Tail(dispatcherQueue), StatusRequest(Head(dispatcherQueue).client, "Error"))

LEMMA ForwardShapes ==
    ASSUME TypeOK, Dispatcher_toDatabase \/ Dispatcher_toDevice
    PROVE  ToDatabase \/ ToDevice \/ NoSuchDevice
<1>. DEFINE rq == Head(dispatcherQueue)
<1>1. CASE Dispatcher_toDatabase
  <2>1. PICK a \in {"InitDatabase", "GetDevices", "GetSessions", "RemoveSession", "AddDevice", "RemoveDevice"} :
           /\ dispatcherQueue # <<>>
           /\ rq.action = a
           /\ dbQueue' = Append(dbQueue, [rq EXCEPT !.action = DatabaseAction(a)])
    BY <1>1 DEF Dispatcher_toDatabase, DispatcherHandles
  <2>2. rq \in RequestsOf(DispatcherActions)
    BY <2>1, DispatcherHeadType DEF TypeOK
  <2>. DEFINE b == DatabaseAction(a)
              e == [rq EXCEPT !.action = b]
  <2>3. b \in DatabaseActions /\ b \notin QuietDatabaseActions /\ b # "SendStatus" /\ (b = "AddDevice" => a = "AddDevice")
    BY DEF DatabaseAction, DatabaseActions, QuietDatabaseActions
  <2>4. rq.action = "AddDevice" => rq.device \in Devices
    BY <2>2, FieldsType
  <2>. HIDE DEF b
  <2>5. e \in RequestsOf(DatabaseActions)
    BY <2>1, <2>2, <2>3, <2>4, ActionType
  <2>6. e.action = b /\ e.client = rq.client
    BY <2>2 DEF RequestsOf, RequestFields
  <2>. HIDE DEF e
  <2>7. e \in DatabaseRequests
    BY <2>3, <2>5, <2>6 DEF DatabaseRequests
  <2>8. dbQueue' = Append(dbQueue, e)
    BY <2>1 DEF e, b
  <2>9. UNCHANGED deviceQueue /\ dispatcherQueue' = Tail(dispatcherQueue)
    BY <1>1 DEF Dispatcher_toDatabase
  <2>. QED  BY <2>1, <2>6, <2>7, <2>8, <2>9 DEF ToDatabase
<1>2. CASE Dispatcher_toDevice
  <2>1. PICK a \in {"ConnectDevice", "DisconnectDevice", "StartCollecting", "StopCollecting"} :
           /\ dispatcherQueue # <<>>
           /\ rq.action = a
           /\ IF Manages(rq.device)
              THEN /\ deviceQueue' = [deviceQueue EXCEPT ![rq.device] =
                                        Append(@, [rq EXCEPT !.action = DeviceAction(a)])]
                   /\ dispatcherQueue' = Tail(dispatcherQueue)
              ELSE /\ dispatcherQueue' = Append(Tail(dispatcherQueue), StatusRequest(rq.client, "Error"))
                   /\ UNCHANGED deviceQueue
    BY <1>2 DEF Dispatcher_toDevice, DispatcherHandles
  <2>2. UNCHANGED dbQueue
    BY <1>2 DEF Dispatcher_toDevice
  <2>3. CASE ~Manages(rq.device)
    BY <2>1, <2>2, <2>3 DEF NoSuchDevice
  <2>4. CASE Manages(rq.device)
    <3>1. rq.device \in Devices
      BY <2>4 DEF Manages, TypeOK, ManagerTypeOK
    <3>2. rq \in RequestsOf(DispatcherActions)
      BY <2>1, DispatcherHeadType DEF TypeOK
    <3>. DEFINE b == DeviceAction(a)
                e == [rq EXCEPT !.action = b]
    <3>3. b \in DeviceActions /\ b \notin QuietDeviceActions /\ b # "SendStatus"
      BY DEF DeviceAction, DeviceActions, QuietDeviceActions
    <3>. HIDE DEF b
    <3>4. e \in RequestsOf(DeviceActions)
      BY <3>1, <3>2, <3>3, ActionType
    <3>5. e.action = b /\ e.client = rq.client
      BY <3>2 DEF RequestsOf, RequestFields
    <3>. HIDE DEF e
    <3>6. e \in DeviceRequests
      BY <3>3, <3>4, <3>5 DEF DeviceRequests
    <3>7. deviceQueue' = [deviceQueue EXCEPT ![rq.device] = Append(@, e)] /\ dispatcherQueue' = Tail(dispatcherQueue)
      BY <2>1, <2>4 DEF e, b
    <3>. QED  BY <2>1, <2>2, <3>1, <3>5, <3>6, <3>7 DEF ToDevice
  <2>. QED  BY <2>3, <2>4
<1>. QED  BY <1>1, <1>2

-----------------------------------------------------------------------------
(* The invariant: where the one place of a request is.                     *)

Answered(c) == replies[c] # <<>>

Solo(c) ==
    /\ Once(dispatcherQueue, c)
    /\ Once(dbQueue, c)
    /\ OnceInDevices(deviceQueue, c)
    /\ Answered(c) => \E s \in {"Okay", "Error"} : replies[c] = <<s>>
    /\ Has(dispatcherQueue, c) => (~Has(dbQueue, c) /\ ~InDevices(deviceQueue, c) /\ ~Answered(c))
    /\ Has(dbQueue, c) => (~InDevices(deviceQueue, c) /\ ~Answered(c))
    /\ InDevices(deviceQueue, c) => ~Answered(c)

Somewhere(c) ==
    Has(dispatcherQueue, c) \/ Has(dbQueue, c) \/ InDevices(deviceQueue, c) \/ Answered(c)

\* Only what was asked is somewhere, and all of it, unless the process quits.
Accounted(c) ==
    /\ Somewhere(c) => c <= requested
    /\ c <= requested => (Somewhere(c) \/ QuitQueued)

FollowedUp == \A c \in RequestIds : RequestsTyped /\ Solo(c) /\ Accounted(c)

ServiceInv == TypeOK /\ FollowedUp

LEMMA RealClient == \A c \in RequestIds : c # NoClient /\ c \in Clients
BY BaseAssumption DEF RequestIds, NoClient, Clients

\* A request goes on: what most steps do to the place of every request.
GoesOn(c) == Solo(c)' /\ (Somewhere(c)' <=> Somewhere(c))

LEMMA QuietPushKeeps ==
    ASSUME RequestsTyped, PushesQuietly, NEW c \in RequestIds
    PROVE  /\ dbQueue' \in Seq(DatabaseRequests)
           /\ Has(dbQueue', c) <=> Has(dbQueue, c)
           /\ Once(dbQueue, c) => Once(dbQueue', c)
<1>1. dbQueue \in Seq(DatabaseRequests)
  BY DEF RequestsTyped
<1>2. ASSUME NEW e \in QuietIn(DatabaseRequests), dbQueue' = Append(dbQueue, e)
      PROVE  /\ dbQueue' \in Seq(DatabaseRequests)
             /\ Has(dbQueue', c) <=> Has(dbQueue, c)
             /\ Once(dbQueue, c) => Once(dbQueue', c)
  <2>1. e \in DatabaseRequests /\ e.client # c
    BY RealClient DEF QuietIn
  <2>2. Append(dbQueue, e) \in Seq(DatabaseRequests)
    BY <1>1, <2>1
  <2>3. /\ Has(Append(dbQueue, e), c) <=> (Has(dbQueue, c) \/ e.client = c)
        /\ (Once(dbQueue, c) /\ ~(Has(dbQueue, c) /\ e.client = c)) => Once(Append(dbQueue, e), c)
    BY <1>1, <2>1, AppendClients
  <2>. QED  BY <1>2, <2>1, <2>2, <2>3
<1>3. CASE dbQueue' = dbQueue
  BY <1>1, <1>3
<1>. QED  BY <1>2, <1>3 DEF PushesQuietly

LEMMA ReplyClients ==
    ASSUME TypeOK, NEW k \in Clients, NEW s \in {"Okay", "Error"}, Reply(k, s), NEW c \in RequestIds
    PROVE  /\ Has(dispatcherQueue', c) <=> (Has(dispatcherQueue, c) \/ k = c)
           /\ (Once(dispatcherQueue, c) /\ ~(Has(dispatcherQueue, c) /\ k = c)) => Once(dispatcherQueue', c)
<1>. DEFINE e == StatusRequest(k, s)
<1>1. e \in RequestsOf(DispatcherActions) /\ dispatcherQueue \in Seq(RequestsOf(DispatcherActions))
  BY StatusRequestType DEF TypeOK, BaseTypeOK
<1>2. e.client = k
  BY DEF StatusRequest
<1>3. dispatcherQueue' = Append(dispatcherQueue, e)
  BY DEF Reply
<1>. HIDE DEF e
<1>4. /\ Has(Append(dispatcherQueue, e), c) <=> (Has(dispatcherQueue, c) \/ e.client = c)
      /\ (Once(dispatcherQueue, c) /\ ~(Has(dispatcherQueue, c) /\ e.client = c))
            => Once(Append(dispatcherQueue, e), c)
  BY <1>1, AppendClients
<1>. QED  BY <1>2, <1>3, <1>4

LEMMA TakesClients ==
    ASSUME TypeOK, RequestsTyped, NEW d \in Devices, Takes(d), NEW c \in RequestIds
    PROVE  /\ deviceQueue' \in [Devices -> Seq(DeviceRequests)]
           /\ InDevices(deviceQueue, c) <=> (Head(deviceQueue[d]).client = c \/ InDevices(deviceQueue', c))
           /\ OnceInDevices(deviceQueue, c) => OnceInDevices(deviceQueue', c)
           /\ (OnceInDevices(deviceQueue, c) /\ Head(deviceQueue[d]).client = c) => ~InDevices(deviceQueue', c)
<1>1. PICK r \in Seq(QuietIn(DeviceRequests)) : deviceQueue' = PopDevice(d, r)
  BY DEF Takes
<1>2. r \in Seq(DeviceRequests) /\ Quiet(r)
  BY QuietSequence
<1>3. deviceQueue \in [Devices -> Seq(DeviceRequests)] /\ deviceQueue[d] # <<>>
  BY DEF RequestsTyped, Takes
<1>4. deviceQueue' = [deviceQueue EXCEPT ![d] = Tail(@) \o r]
  BY <1>1 DEF PopDevice
<1>5. deviceQueue[d] \in Seq(DeviceRequests)
  BY <1>3
<1>6. Tail(deviceQueue[d]) \o r \in Seq(DeviceRequests)
  BY <1>2, <1>3, <1>5, PopPushType
<1>7. LET W == [deviceQueue EXCEPT ![d] = Tail(@) \o r] IN
      /\ InDevices(deviceQueue, c) <=> (Head(deviceQueue[d]).client = c \/ InDevices(W, c))
      /\ OnceInDevices(deviceQueue, c) => OnceInDevices(W, c)
      /\ (OnceInDevices(deviceQueue, c) /\ Head(deviceQueue[d]).client = c) => ~InDevices(W, c)
  BY <1>2, <1>3, RealClient, DevicePopClients
<1>. QED  BY <1>3, <1>4, <1>6, <1>7

LEMMA DeviceGoesOn ==
    ASSUME TypeOK, RequestsTyped, NEW d \in Devices, Answers(d) \/ Absorbs(d) \/ PassesOn(d),
           NEW c \in RequestIds, Solo(c), UNCHANGED replies
    PROVE  RequestsTyped' /\ GoesOn(c)
<1>. DEFINE rq == Head(deviceQueue[d])
<1>1. deviceQueue[d] # <<>>
  BY DEF Answers, Absorbs, PassesOn, Takes
<1>2. rq.client \in Clients
  BY <1>1, HeadType, FieldsType DEF TypeOK
<1>3. (Answered(c)' <=> Answered(c)) /\ replies' = replies
  BY DEF Answered
<1>4. ASSUME Answers(d) \/ Absorbs(d) PROVE RequestsTyped' /\ GoesOn(c)
  <2>1. Takes(d) /\ PushesQuietly
    BY <1>4 DEF Answers, Absorbs, Takes
  <2>2. /\ dbQueue' \in Seq(DatabaseRequests)
        /\ Has(dbQueue', c) <=> Has(dbQueue, c)
        /\ Once(dbQueue, c) => Once(dbQueue', c)
    BY <2>1, QuietPushKeeps
  <2>3. /\ deviceQueue' \in [Devices -> Seq(DeviceRequests)]
        /\ InDevices(deviceQueue, c) <=> (rq.client = c \/ InDevices(deviceQueue', c))
        /\ OnceInDevices(deviceQueue, c) => OnceInDevices(deviceQueue', c)
        /\ (OnceInDevices(deviceQueue, c) /\ rq.client = c) => ~InDevices(deviceQueue', c)
    BY <2>1, TakesClients
  <2>4. RequestsTyped'
    BY <2>2, <2>3 DEF RequestsTyped
  <2>5. CASE Answers(d)
    <3>1. PICK s \in {"Okay", "Error"} : Reply(rq.client, s)
      BY <2>5 DEF Answers
    <3>2. /\ Has(dispatcherQueue', c) <=> (Has(dispatcherQueue, c) \/ rq.client = c)
          /\ (Once(dispatcherQueue, c) /\ ~(Has(dispatcherQueue, c) /\ rq.client = c)) => Once(dispatcherQueue', c)
      BY <1>2, <3>1, ReplyClients
    <3>. HIDE DEF rq
    <3>. QED  BY <1>3, <2>2, <2>3, <2>4, <3>2 DEF GoesOn, Solo, Somewhere
  <2>6. CASE Absorbs(d)
    <3>1. dispatcherQueue' = dispatcherQueue /\ rq.client # c
      BY <2>6, RealClient DEF Absorbs
    <3>. HIDE DEF rq
    <3>. QED  BY <1>3, <2>2, <2>3, <2>4, <3>1 DEF GoesOn, Solo, Somewhere
  <2>. QED  BY <1>4, <2>5, <2>6
<1>5. ASSUME PassesOn(d) PROVE RequestsTyped' /\ GoesOn(c)
  <2>1. PICK e \in DeviceRequests : e.client = rq.client /\ deviceQueue' = PopDevice(d, <<e>>)
    BY <1>5 DEF PassesOn
  <2>2. deviceQueue \in [Devices -> Seq(DeviceRequests)]
    BY DEF RequestsTyped
  <2>3. deviceQueue[d] \in Seq(DeviceRequests) /\ <<e>> \in Seq(DeviceRequests)
    BY <2>1, <2>2
  <2>4. Tail(deviceQueue[d]) \o <<e>> \in Seq(DeviceRequests)
    BY <1>1, <2>3, PopPushType
  <2>5. deviceQueue' = [deviceQueue EXCEPT ![d] = Tail(@) \o <<e>>]
    BY <2>1 DEF PopDevice
  <2>6. LET W == [deviceQueue EXCEPT ![d] = Tail(@) \o <<e>>] IN
        /\ InDevices(W, c) <=> InDevices(deviceQueue, c)
        /\ OnceInDevices(deviceQueue, c) => OnceInDevices(W, c)
    BY <1>1, <2>1, <2>2, DeviceForwardClients
  <2>7. /\ InDevices(deviceQueue', c) <=> InDevices(deviceQueue, c)
        /\ OnceInDevices(deviceQueue, c) => OnceInDevices(deviceQueue', c)
    BY <2>5, <2>6
  <2>8. dispatcherQueue' = dispatcherQueue /\ dbQueue' = dbQueue
    BY <1>5 DEF PassesOn
  <2>9. RequestsTyped'
    BY <2>2, <2>4, <2>5, <2>8 DEF RequestsTyped
  <2>. QED  BY <1>3, <2>7, <2>8, <2>9 DEF GoesOn, Solo, Somewhere
<1>. QED  BY <1>4, <1>5

LEMMA ConnectionGoesOn ==
    ASSUME TypeOK, RequestsTyped, NEW d \in Devices,
           Hears(d) \/ (PushesQuietly /\ UNCHANGED <<dispatcherQueue, deviceQueue>>),
           NEW c \in RequestIds, Solo(c), UNCHANGED replies
    PROVE  RequestsTyped' /\ GoesOn(c)
<1>1. (Answered(c)' <=> Answered(c)) /\ replies' = replies /\ dispatcherQueue' = dispatcherQueue
  BY DEF Answered, Hears
<1>2. deviceQueue \in [Devices -> Seq(DeviceRequests)] /\ dbQueue \in Seq(DatabaseRequests)
  BY DEF RequestsTyped
<1>3. CASE Hears(d)
  <2>1. PICK e \in QuietIn(DeviceRequests) : deviceQueue' = [deviceQueue EXCEPT ![d] = Append(@, e)]
    BY <1>3 DEF Hears
  <2>2. e \in DeviceRequests /\ e.client # c
    BY <2>1, RealClient DEF QuietIn
  <2>3. LET W == [deviceQueue EXCEPT ![d] = Append(@, e)] IN
        /\ InDevices(W, c) <=> (InDevices(deviceQueue, c) \/ e.client = c)
        /\ (OnceInDevices(deviceQueue, c) /\ ~(InDevices(deviceQueue, c) /\ e.client = c)) => OnceInDevices(W, c)
    BY <1>2, <2>2, DevicePushClients
  <2>4. /\ InDevices(deviceQueue', c) <=> InDevices(deviceQueue, c)
        /\ OnceInDevices(deviceQueue, c) => OnceInDevices(deviceQueue', c)
    BY <2>1, <2>2, <2>3
  <2>5. dbQueue' = dbQueue
    BY <1>3 DEF Hears
  <2>6. Append(deviceQueue[d], e) \in Seq(DeviceRequests)
    BY <1>2, <2>2
  <2>7. RequestsTyped'
    BY <1>2, <2>1, <2>5, <2>6 DEF RequestsTyped
  <2>. QED  BY <1>1, <2>4, <2>5, <2>7 DEF GoesOn, Solo, Somewhere
<1>4. CASE PushesQuietly /\ UNCHANGED <<dispatcherQueue, deviceQueue>>
  <2>1. /\ dbQueue' \in Seq(DatabaseRequests)
        /\ Has(dbQueue', c) <=> Has(dbQueue, c)
        /\ Once(dbQueue, c) => Once(dbQueue', c)
    BY <1>4, QuietPushKeeps
  <2>2. RequestsTyped'
    BY <1>2, <1>4, <2>1 DEF RequestsTyped
  <2>. QED  BY <1>1, <1>4, <2>1, <2>2 DEF GoesOn, Solo, Somewhere
<1>. QED  BY <1>3, <1>4

LEMMA DatabaseGoesOn ==
    ASSUME TypeOK, RequestsTyped, Serves, NEW c \in RequestIds, Solo(c), UNCHANGED replies
    PROVE  RequestsTyped' /\ GoesOn(c)
<1>. DEFINE rq == Head(dbQueue)
<1>1. (Answered(c)' <=> Answered(c)) /\ replies' = replies /\ deviceQueue' = deviceQueue
  BY DEF Answered, Serves
<1>2. dbQueue \in Seq(DatabaseRequests) /\ dbQueue # <<>>
  BY DEF RequestsTyped, Serves
<1>3. rq.client \in Clients
  BY <1>2, DatabaseHeadType DEF TypeOK
<1>4. PICK r \in Seq(QuietIn(DatabaseRequests)) : dbQueue' = Tail(dbQueue) \o r
  BY DEF Serves
<1>5. r \in Seq(DatabaseRequests) /\ Quiet(r)
  BY QuietSequence
<1>6. /\ Has(dbQueue, c) <=> (rq.client = c \/ Has(Tail(dbQueue) \o r, c))
      /\ Once(dbQueue, c) => Once(Tail(dbQueue) \o r, c)
      /\ (Once(dbQueue, c) /\ rq.client = c) => ~Has(Tail(dbQueue) \o r, c)
  BY <1>2, <1>5, RealClient, PopClients
<1>7. /\ Has(dbQueue, c) <=> (rq.client = c \/ Has(dbQueue', c))
      /\ Once(dbQueue, c) => Once(dbQueue', c)
      /\ (Once(dbQueue, c) /\ rq.client = c) => ~Has(dbQueue', c)
  BY <1>4, <1>6
<1>8. RequestsTyped'
  <2>1. Tail(dbQueue) \o r \in Seq(DatabaseRequests)
    BY <1>2, <1>5, PopPushType
  <2>. QED  BY <1>1, <1>4, <2>1 DEF RequestsTyped
<1>9. CASE \E s \in {"Okay", "Error"} : Reply(rq.client, s)
  <2>1. PICK s \in {"Okay", "Error"} : Reply(rq.client, s)
    BY <1>9
  <2>2. /\ Has(dispatcherQueue', c) <=> (Has(dispatcherQueue, c) \/ rq.client = c)
        /\ (Once(dispatcherQueue, c) /\ ~(Has(dispatcherQueue, c) /\ rq.client = c)) => Once(dispatcherQueue', c)
    BY <1>3, <2>1, ReplyClients
  <2>. HIDE DEF rq
  <2>. QED  BY <1>1, <1>7, <1>8, <2>2 DEF GoesOn, Solo, Somewhere
<1>10. CASE rq.client = NoClient /\ UNCHANGED dispatcherQueue
  <2>1. dispatcherQueue' = dispatcherQueue /\ rq.client # c
    BY <1>10, RealClient
  <2>. HIDE DEF rq
  <2>. QED  BY <1>1, <1>7, <1>8, <2>1 DEF GoesOn, Solo, Somewhere
<1>. QED  BY <1>9, <1>10 DEF Serves

LEMMA ForwardGoesOn ==
    ASSUME TypeOK, RequestsTyped, ToDatabase \/ ToDevice \/ NoSuchDevice,
           NEW c \in RequestIds, Solo(c), UNCHANGED replies
    PROVE  RequestsTyped' /\ GoesOn(c)
<1>. DEFINE rq == Head(dispatcherQueue)
            q == Tail(dispatcherQueue)
            S == RequestsOf(DispatcherActions)
<1>1. (Answered(c)' <=> Answered(c)) /\ replies' = replies
  BY DEF Answered
<1>2. dispatcherQueue \in Seq(S) /\ dispatcherQueue # <<>>
  BY DEF TypeOK, BaseTypeOK, ToDatabase, ToDevice, NoSuchDevice
<1>3. rq \in S /\ q \in Seq(S)
  BY <1>2, PopType
<1>4. rq.client \in Clients
  BY <1>3, FieldsType
<1>. HIDE DEF S
<1>5. /\ Has(dispatcherQueue, c) <=> (rq.client = c \/ Has(q, c))
      /\ Once(dispatcherQueue, c) => Once(q, c)
      /\ (Once(dispatcherQueue, c) /\ rq.client = c) => ~Has(q, c)
  BY <1>2, TailClients
<1>6. deviceQueue \in [Devices -> Seq(DeviceRequests)] /\ dbQueue \in Seq(DatabaseRequests)
  BY DEF RequestsTyped
<1>7. CASE ToDatabase
  <2>1. PICK e \in DatabaseRequests : e.client = rq.client /\ dbQueue' = Append(dbQueue, e)
    BY <1>7 DEF ToDatabase
  <2>2. /\ Has(Append(dbQueue, e), c) <=> (Has(dbQueue, c) \/ e.client = c)
        /\ (Once(dbQueue, c) /\ ~(Has(dbQueue, c) /\ e.client = c)) => Once(Append(dbQueue, e), c)
    BY <1>6, <2>1, AppendClients
  <2>3. /\ Has(dbQueue', c) <=> (Has(dbQueue, c) \/ rq.client = c)
        /\ (Once(dbQueue, c) /\ ~(Has(dbQueue, c) /\ rq.client = c)) => Once(dbQueue', c)
    BY <2>1, <2>2
  <2>4. dispatcherQueue' = q /\ deviceQueue' = deviceQueue
    BY <1>7 DEF ToDatabase
  <2>5. RequestsTyped'
    <3>1. Append(dbQueue, e) \in Seq(DatabaseRequests)
      BY <1>6, <2>1
    <3>. QED  BY <1>6, <2>1, <2>4, <3>1 DEF RequestsTyped
  <2>. HIDE DEF rq, q
  <2>. QED  BY <1>1, <1>5, <2>3, <2>4, <2>5 DEF GoesOn, Solo, Somewhere
<1>8. CASE ToDevice
  <2>1. PICK d \in Devices, e \in DeviceRequests :
           e.client = rq.client /\ deviceQueue' = [deviceQueue EXCEPT ![d] = Append(@, e)]
    BY <1>8 DEF ToDevice
  <2>2. LET W == [deviceQueue EXCEPT ![d] = Append(@, e)] IN
        /\ InDevices(W, c) <=> (InDevices(deviceQueue, c) \/ e.client = c)
        /\ (OnceInDevices(deviceQueue, c) /\ ~(InDevices(deviceQueue, c) /\ e.client = c)) => OnceInDevices(W, c)
    BY <1>6, <2>1, DevicePushClients
  <2>3. /\ InDevices(deviceQueue', c) <=> (InDevices(deviceQueue, c) \/ rq.client = c)
        /\ (OnceInDevices(deviceQueue, c) /\ ~(InDevices(deviceQueue, c) /\ rq.client = c))
              => OnceInDevices(deviceQueue', c)
    BY <2>1, <2>2
  <2>4. dispatcherQueue' = q /\ dbQueue' = dbQueue
    BY <1>8 DEF ToDevice
  <2>5. RequestsTyped'
    <3>1. Append(deviceQueue[d], e) \in Seq(DeviceRequests)
      BY <1>6, <2>1
    <3>. QED  BY <1>6, <2>1, <2>4, <3>1 DEF RequestsTyped
  <2>. HIDE DEF rq, q
  <2>. QED  BY <1>1, <1>5, <2>3, <2>4, <2>5 DEF GoesOn, Solo, Somewhere
<1>9. CASE NoSuchDevice
  <2>. DEFINE e == StatusRequest(rq.client, "Error")
  <2>1. e \in S /\ e.client = rq.client
    BY <1>4, StatusRequestType DEF S, StatusRequest
  <2>2. dispatcherQueue' = Append(q, e) /\ deviceQueue' = deviceQueue /\ dbQueue' = dbQueue
    BY <1>9 DEF NoSuchDevice
  <2>. HIDE DEF rq, q, e
  <2>3. /\ Has(Append(q, e), c) <=> (Has(q, c) \/ e.client = c)
        /\ (Once(q, c) /\ ~(Has(q, c) /\ e.client = c)) => Once(Append(q, e), c)
    BY <1>3, <2>1, AppendClients
  <2>4. RequestsTyped'
    BY <1>6, <2>2 DEF RequestsTyped
  <2>. QED  BY <1>1, <1>5, <2>1, <2>2, <2>3, <2>4 DEF GoesOn, Solo, Somewhere
<1>. QED  BY <1>7, <1>8, <1>9

LEMMA SendStatusGoesOn ==
    ASSUME TypeOK, RequestsTyped, Dispatcher_doSendStatus, NEW c \in RequestIds, Solo(c)
    PROVE  RequestsTyped' /\ GoesOn(c)
<1>. DEFINE rq == Head(dispatcherQueue)
            q == Tail(dispatcherQueue)
            S == RequestsOf(DispatcherActions)
<1>1. dispatcherQueue \in Seq(S) /\ dispatcherQueue # <<>>
  BY DEF TypeOK, BaseTypeOK, Dispatcher_doSendStatus, DispatcherHandles
<1>2. rq \in S
  BY <1>1, PopType
<1>3. rq.client \in Clients /\ rq.arg \in {"Okay", "Error"}
  BY <1>2, FieldsType DEF Dispatcher_doSendStatus, DispatcherHandles
<1>. HIDE DEF S
<1>4. /\ Has(dispatcherQueue, c) <=> (rq.client = c \/ Has(q, c))
      /\ Once(dispatcherQueue, c) => Once(q, c)
      /\ (Once(dispatcherQueue, c) /\ rq.client = c) => ~Has(q, c)
  BY <1>1, TailClients
<1>5. dispatcherQueue' = q /\ deviceQueue' = deviceQueue /\ dbQueue' = dbQueue
  BY DEF Dispatcher_doSendStatus
<1>6. RequestsTyped'
  BY <1>5 DEF RequestsTyped
<1>7. replies \in [RequestIds -> Seq({"Okay", "Error"})]
  BY DEF TypeOK, DispatcherTypeOK
<1>8. CASE rq.client # c
  <2>1. replies'[c] = replies[c]
    BY <1>3, <1>7, <1>8, RealClient DEF Dispatcher_doSendStatus, Clients, RequestIds, NoClient
  <2>2. (Answered(c)' <=> Answered(c)) /\ replies[c]' = replies[c]
    BY <2>1 DEF Answered
  <2>. HIDE DEF rq, q
  <2>. QED  BY <1>4, <1>5, <1>6, <1>8, <2>2 DEF GoesOn, Solo, Somewhere
<1>9. CASE rq.client = c
  <2>1. replies' = [replies EXCEPT ![c] = Append(@, rq.arg)]
    BY <1>9, RealClient DEF Dispatcher_doSendStatus
  <2>2. ~Answered(c) /\ ~Has(dbQueue, c) /\ ~InDevices(deviceQueue, c)
    BY <1>4, <1>9 DEF Solo
  <2>3. replies[c] = <<>>
    BY <2>2 DEF Answered
  <2>4. replies[c]' = <<rq.arg>>
    BY <1>7, <2>1, <2>3
  <2>5. Answered(c)'
    BY <2>4 DEF Answered
  <2>6. \E s \in {"Okay", "Error"} : replies[c]' = <<s>>
    BY <1>3, <2>4
  <2>. HIDE DEF rq, q
  <2>. QED  BY <1>4, <1>5, <1>6, <1>9, <2>2, <2>5, <2>6 DEF GoesOn, Solo, Somewhere
<1>. QED  BY <1>8, <1>9

\* A request whose queues and answer stay as they are.
LEMMA StillGoesOn ==
    ASSUME RequestsTyped, NEW c \in RequestIds, Solo(c), UNCHANGED <<queueVars, replies>>
    PROVE  RequestsTyped' /\ GoesOn(c)
<1>1. dispatcherQueue' = dispatcherQueue /\ dbQueue' = dbQueue /\ deviceQueue' = deviceQueue /\ replies' = replies
  BY DEF queueVars
<1>. QED  BY <1>1 DEF RequestsTyped, GoesOn, Solo, Somewhere, Answered

\* A request to quit is the only one that is forgotten: the process goes with it.
LEMMA QuitCollectorKeeps ==
    ASSUME TypeOK, RequestsTyped, Dispatcher_doQuitCollector, NEW c \in RequestIds, Solo(c), Accounted(c)
    PROVE  RequestsTyped' /\ Solo(c)' /\ Accounted(c)'
<1>. DEFINE rq == Head(dispatcherQueue)
            q == Tail(dispatcherQueue)
            S == RequestsOf(DispatcherActions)
            e == Internal("Quit")
<1>1. dispatcherQueue \in Seq(S) /\ dispatcherQueue # <<>>
  BY DEF TypeOK, BaseTypeOK, Dispatcher_doQuitCollector, DispatcherHandles
<1>2. q \in Seq(S)
  BY <1>1, PopType
<1>3. e \in S /\ e.client # c /\ e.action = "Quit"
  <2>1. e.client = NoClient /\ e.action = "Quit"
    BY DEF Internal, Request
  <2>2. e \in S
    BY InternalType DEF DispatcherActions
  <2>. QED  BY <2>1, <2>2, RealClient
<1>4. /\ dispatcherQueue' = Append(q, e)
      /\ dbQueue' = dbQueue /\ deviceQueue' = deviceQueue /\ replies' = replies /\ requested' = requested
  BY DEF Dispatcher_doQuitCollector, clientVars
<1>. HIDE DEF S, e
<1>5. /\ Has(dispatcherQueue, c) <=> (rq.client = c \/ Has(q, c))
      /\ Once(dispatcherQueue, c) => Once(q, c)
  BY <1>1, TailClients
<1>6. /\ Has(Append(q, e), c) <=> (Has(q, c) \/ e.client = c)
      /\ (Once(q, c) /\ ~(Has(q, c) /\ e.client = c)) => Once(Append(q, e), c)
  BY <1>2, <1>3, AppendClients
<1>7. QuitQueued'
  <2>1. Members(Append(q, e)) = Members(q) \cup {e}
    BY <1>2, AppendMembers
  <2>2. e \in Members(dispatcherQueue')
    BY <1>4, <2>1
  <2>. QED  BY <1>3, <2>2, QueuedMembersNext
<1>8. Answered(c)' <=> Answered(c)
  BY <1>4 DEF Answered
<1>. HIDE DEF rq, q
<1>9. RequestsTyped' /\ Solo(c)' /\ (Somewhere(c)' => Somewhere(c))
  BY <1>3, <1>4, <1>5, <1>6, <1>8 DEF RequestsTyped, Solo, Somewhere
<1>. QED  BY <1>4, <1>7, <1>9 DEF Accounted

\* A new request is nowhere yet, and then in the dispatcher's queue.
LEMMA ClientKeeps ==
    ASSUME TypeOK, RequestsTyped, ClientEvent, NEW c \in RequestIds, Solo(c), Accounted(c), QuitQueued => QuitQueued'
    PROVE  RequestsTyped' /\ Solo(c)' /\ Accounted(c)'
<1>. DEFINE S == RequestsOf(DispatcherActions)
<1>1. /\ requested' = requested + 1 /\ requested < MaxRequests
      /\ dbQueue' = dbQueue /\ deviceQueue' = deviceQueue /\ replies' = replies
  BY DEF ClientEvent, ControlClient_request, ControlClient_doRequestSession
<1>2. requested \in 0..MaxRequests /\ requested + 1 \in RequestIds /\ requested + 1 \in Clients
  BY <1>1, BaseAssumption DEF TypeOK, DispatcherTypeOK, RequestIds, Clients
<1>3. dispatcherQueue \in Seq(S)
  BY DEF TypeOK, BaseTypeOK
<1>4. PICK e \in S : e.client = requested + 1 /\ dispatcherQueue' = Append(dispatcherQueue, e)
  <2>1. CASE ControlClient_request
    <3>1. PICK e \in Plain(requested') \cup OnDatabase(requested') \cup OnDevice(requested') :
             dispatcherQueue' = Append(dispatcherQueue, e)
      BY <2>1 DEF ControlClient_request
    <3>. DEFINE n == requested + 1
    <3>2. e \in Plain(n) \cup OnDatabase(n) \cup OnDevice(n)
      BY <1>1, <3>1
    <3>. HIDE DEF n
    <3>3. e.client = n
      <4>1. \A a, d, h : Request(a, n, d, h).client = n /\ [Request(a, n, d, h) EXCEPT !.arg = "forced"].client = n
        BY DEF Request
      <4>2. e \in Plain(n) => e.client = n
        BY <4>1 DEF Plain
      <4>3. e \in OnDevice(n) => e.client = n
        BY <4>1 DEF OnDevice
      <4>4. e \in OnDatabase(n) => e.client = n
        <5>1. ASSUME NEW a, NEW d, NEW h, e \in MaybeForced(Request(a, n, d, h))
              PROVE  e.client = n
          BY <4>1, <5>1 DEF MaybeForced
        <5>2. CASE e \in MaybeForced(Request("InitDatabase", n, NoDevice, NoHash))
          BY <5>1, <5>2
        <5>3. CASE \E d \in Devices : e \in MaybeForced(Request("AddDevice", n, d, NoHash))
          BY <5>1, <5>3
        <5>4. CASE e \in {Request("RemoveDevice", n, d, NoHash) : d \in Devices}
          BY <4>1, <5>4
        <5>5. CASE e \in {Request("RemoveSession", n, NoDevice, h) : h \in Hashes}
          BY <4>1, <5>5
        <5>6. CASE e \in {Request("GetSessions", n, d, NoHash) : d \in Devices \cup {NoDevice}}
          BY <4>1, <5>6
        <5>. QED  BY <5>2, <5>3, <5>4, <5>5, <5>6 DEF OnDatabase
      <4>. QED  BY <3>2, <4>2, <4>3, <4>4
    <3>4. n \in Clients
      BY <1>2 DEF n
    <3>5. /\ e \in RequestFields(DispatcherActions)
          /\ e.action # "SendStatus" /\ (e.action = "AddDevice" => e.device \in Devices)
      BY <3>2, <3>4, ClientRequestType
    <3>6. e \in S
      BY <3>5 DEF RequestsOf
    <3>. QED  BY <3>1, <3>3, <3>6 DEF n
  <2>2. CASE ControlClient_doRequestSession
    <3>1. PICK written \in Outcomes("write") : Reply(requested', IF written THEN "Okay" ELSE "Error")
      BY <2>2 DEF ControlClient_doRequestSession
    <3>2. PICK s \in {"Okay", "Error"} : Reply(requested', s)
      BY <3>1
    <3>3. dispatcherQueue' = Append(dispatcherQueue, StatusRequest(requested + 1, s))
      BY <1>1, <3>2 DEF Reply
    <3>4. StatusRequest(requested + 1, s).client = requested + 1
      BY DEF StatusRequest
    <3>5. StatusRequest(requested + 1, s) \in S
      BY <1>2, StatusRequestType
    <3>. QED  BY <3>3, <3>4, <3>5
  <2>. QED  BY <2>1, <2>2 DEF ClientEvent
<1>. HIDE DEF S
<1>5. /\ Has(Append(dispatcherQueue, e), c) <=> (Has(dispatcherQueue, c) \/ e.client = c)
      /\ (Once(dispatcherQueue, c) /\ ~(Has(dispatcherQueue, c) /\ e.client = c))
            => Once(Append(dispatcherQueue, e), c)
  BY <1>3, <1>4, AppendClients
<1>6. Answered(c)' <=> Answered(c)
  BY <1>1 DEF Answered
<1>7. RequestsTyped'
  BY <1>1 DEF RequestsTyped
<1>8. CASE e.client # c
  <2>1. Solo(c)' /\ (Somewhere(c)' <=> Somewhere(c))
    BY <1>1, <1>4, <1>5, <1>6, <1>8 DEF Solo, Somewhere
  <2>2. c # requested + 1
    BY <1>4, <1>8
  <2>3. c <= requested' <=> c <= requested
    BY <1>1, <1>2, <2>2 DEF RequestIds
  <2>. QED  BY <1>7, <2>1, <2>3 DEF Accounted
<1>9. CASE e.client = c
  <2>1. ~(c <= requested) /\ c <= requested'
    BY <1>1, <1>2, <1>4, <1>9
  <2>2. ~Somewhere(c)
    BY <2>1 DEF Accounted
  <2>3. Solo(c)' /\ Somewhere(c)'
    BY <1>1, <1>4, <1>5, <1>6, <1>9, <2>2 DEF Solo, Somewhere
  <2>. QED  BY <1>7, <2>1, <2>3 DEF Accounted
<1>. QED  BY <1>8, <1>9

-----------------------------------------------------------------------------
(* Boot: there are no clients yet.                                         *)

LEMMA BootQueues ==
    ASSUME NEW opened \in BOOLEAN, NEW started \in BOOLEAN, NEW erase \in BOOLEAN, NEW c \in RequestIds
    PROVE  /\ BootDatabaseQueue(opened, erase) \in Seq(DatabaseRequests)
           /\ ~Has(BootDatabaseQueue(opened, erase), c) /\ Once(BootDatabaseQueue(opened, erase), c)
           /\ ~Has(BootDispatcherQueue(opened, started), c) /\ Once(BootDispatcherQueue(opened, started), c)
<1>1. \A r : (r \in Seq(QuietIn(DatabaseRequests)) \/ r \in Seq(QuietIn(RequestsOf(DispatcherActions))))
                => ~Has(r, c) /\ Once(r, c)
  <2>1. \A r : Quiet(r) => ~Has(r, c) /\ Once(r, c)
    BY RealClient DEF Quiet, Has, Once
  <2>. QED  BY <2>1, QuietSequence
<1>2. \A a : /\ Internal(a).client = NoClient /\ [Internal(a) EXCEPT !.arg = "forced"].client = NoClient
  BY DEF Internal, Request
<1>3. BootDatabaseQueue(opened, erase) \in Seq(QuietIn(DatabaseRequests))
  <2>. DEFINE S == QuietIn(DatabaseRequests)
              forced == [Internal("InitDatabase") EXCEPT !.arg = "forced"]
              first == <<Internal("CheckDatabase"), loadDevices, cleanSessions>>
              rest == IF erase THEN <<forced>> ELSE <<>>
  <2>1. /\ Internal("CheckDatabase") \in RequestsOf(DatabaseActions)
        /\ loadDevices \in RequestsOf(DatabaseActions) /\ cleanSessions \in RequestsOf(DatabaseActions)
        /\ Internal("InitDatabase") \in RequestsOf(DatabaseActions)
    BY InternalType DEF DatabaseActions, loadDevices, cleanSessions
  <2>2. forced \in RequestsOf(DatabaseActions)
    BY <2>1 DEF RequestsOf, RequestFields, Args, Internal, Request
  <2>3. Internal("CheckDatabase") \in S /\ loadDevices \in S /\ cleanSessions \in S /\ forced \in S
    BY <1>2, <2>1, <2>2 DEF QuietIn, DatabaseRequests, loadDevices, cleanSessions
  <2>. HIDE DEF S, forced
  <2>4. first \in Seq(S) /\ rest \in Seq(S)
    <3>1. \A x, y, z : x \in S /\ y \in S /\ z \in S => <<x, y, z>> \in Seq(S)
      OBVIOUS
    <3>2. <<forced>> \in Seq(S) /\ <<>> \in Seq(S)
      BY <2>3
    <3>. QED  BY <2>3, <3>1, <3>2
  <2>. HIDE DEF first, rest
  <2>5. first \o rest \in Seq(S) /\ <<>> \in Seq(S)
    BY <2>4
  <2>6. BootDatabaseQueue(opened, erase) \in {<<>>, first \o rest}
    BY DEF BootDatabaseQueue, first, rest, forced
  <2>. QED  BY <2>5, <2>6 DEF S
<1>4. BootDispatcherQueue(opened, started) \in Seq(QuietIn(RequestsOf(DispatcherActions)))
  <2>. DEFINE S == QuietIn(RequestsOf(DispatcherActions))
              q == Internal("Quit")
  <2>1. q \in S
    BY <1>2, InternalType DEF QuietIn, DispatcherActions
  <2>. HIDE DEF S, q
  <2>2. <<q>> \in Seq(S) /\ <<>> \in Seq(S)
    BY <2>1
  <2>3. \A x, y \in {<<>>, <<q>>} : x \o y \in Seq(S)
    <3>1. \A x, y \in Seq(S) : x \o y \in Seq(S)
      OBVIOUS
    <3>. QED  BY <2>2, <3>1
  <2>4. \E x, y \in {<<>>, <<q>>} : BootDispatcherQueue(opened, started) = x \o y
    BY DEF BootDispatcherQueue, q
  <2>. QED  BY <2>3, <2>4 DEF S
<1>5. BootDatabaseQueue(opened, erase) \in Seq(DatabaseRequests)
  BY <1>3, QuietSequence
<1>. QED  BY <1>1, <1>3, <1>4, <1>5

\* A life of the process begins with nobody having asked anything.
Fresh(opened, started, erase) ==
    /\ dispatcherQueue = BootDispatcherQueue(opened, started)
    /\ dbQueue = BootDatabaseQueue(opened, erase)
    /\ deviceQueue = [d \in Devices |-> <<>>]
    /\ requested = 0
    /\ replies = [c \in RequestIds |-> <<>>]

FreshFollowedUp == \A opened, started, erase \in BOOLEAN : Fresh(opened, started, erase) => FollowedUp

LEMMA FreshInv == FreshFollowedUp
<1>. SUFFICES ASSUME NEW opened \in BOOLEAN, NEW started \in BOOLEAN, NEW erase \in BOOLEAN,
                     Fresh(opened, started, erase), NEW c \in RequestIds
              PROVE  RequestsTyped /\ Solo(c) /\ Accounted(c)
  BY DEF FreshFollowedUp, FollowedUp
<1>1. /\ dbQueue \in Seq(DatabaseRequests)
      /\ ~Has(dbQueue, c) /\ Once(dbQueue, c)
      /\ ~Has(dispatcherQueue, c) /\ Once(dispatcherQueue, c)
  BY BootQueues DEF Fresh
<1>2. \A d \in Devices : deviceQueue[d] = <<>>
  BY DEF Fresh
<1>3. \A d \in Devices : ~Has(deviceQueue[d], c) /\ Once(deviceQueue[d], c)
  <2>1. ~Has(<<>>, c) /\ Once(<<>>, c)
    BY DEF Has, Once
  <2>. QED  BY <1>2, <2>1
<1>4. ~InDevices(deviceQueue, c) /\ OnceInDevices(deviceQueue, c)
  BY <1>3 DEF InDevices, OnceInDevices
<1>5. ~Answered(c)
  BY DEF Answered, Fresh
<1>6. ~(c <= requested)
  BY BaseAssumption DEF Fresh, RequestIds
<1>7. RequestsTyped
  <2>1. deviceQueue \in [Devices -> Seq(DeviceRequests)]
    BY DEF Fresh
  <2>. QED  BY <1>1, <2>1 DEF RequestsTyped
<1>. QED  BY <1>1, <1>4, <1>5, <1>6, <1>7 DEF Solo, Accounted, Somewhere

LEMMA InitServiceInv == Init => ServiceInv
<1>. SUFFICES ASSUME Init PROVE ServiceInv
  OBVIOUS
<1>1. TypeOK
  BY InitType
<1>2. PICK opened \in BOOLEAN, started \in BOOLEAN, erase \in BOOLEAN : Fresh(opened, started, erase)
  BY OutcomesType, CollectorAssumption DEF Init, DispatcherInit, Fresh
<1>. QED  BY <1>1, <1>2, FreshInv DEF ServiceInv, FreshFollowedUp

LEMMA RestartServiceInv ==
    ASSUME TypeOK', Restart
    PROVE  ServiceInv'
<1>1. FreshFollowedUp'
  BY FreshInv, PTL
<1>2. PICK opened \in BOOLEAN, started \in BOOLEAN, erase \in BOOLEAN : Fresh(opened, started, erase)'
  BY OutcomesType, CollectorAssumption DEF Restart, Fresh
<1>3. FollowedUp'
  BY <1>1, <1>2 DEF FreshFollowedUp
<1>. QED  BY <1>3 DEF ServiceInv

-----------------------------------------------------------------------------
\* Every step is one that lets a request go on, hears of one or quits.
LEMMA NextGoesOn ==
    ASSUME ServiceInv, [Next]_vars, ~Restart, ~ClientStep, ~Dispatcher_doQuitCollector, NEW c \in RequestIds
    PROVE  RequestsTyped' /\ GoesOn(c) /\ UNCHANGED requested
<1>1. TypeOK /\ RequestsTyped /\ Solo(c)
  BY DEF ServiceInv, FollowedUp
<1>2. ASSUME NEW d \in Devices, DeviceStep(d)
      PROVE  RequestsTyped' /\ GoesOn(c) /\ UNCHANGED requested
  <2>1. DeviceHandler(d) /\ replies' = replies /\ requested' = requested
    BY <1>2 DEF DeviceStep, clientVars
  <2>. QED  BY <1>1, <2>1, DeviceShapes, DeviceGoesOn, StillGoesOn
<1>3. ASSUME NEW d \in Devices, ConnectionStep(d) \/ FinalizeStep(d) \/ TickStep(d)
      PROVE  RequestsTyped' /\ GoesOn(c) /\ UNCHANGED requested
  <2>1. /\ ConnectionEvent(d) \/ Connection_finalize(d) \/ Lane_tick(d)
        /\ replies' = replies /\ requested' = requested
    BY <1>3 DEF ConnectionStep, FinalizeStep, TickStep, clientVars
  <2>. QED  BY <1>1, <2>1, ConnectionShapes, ConnectionGoesOn, StillGoesOn
<1>4. CASE DatabaseStep
  <2>1. replies' = replies /\ requested' = requested
    BY <1>4 DEF DatabaseStep, clientVars
  <2>. QED  BY <1>1, <1>4, <2>1, DatabaseShapes, DatabaseGoesOn
<1>5. CASE DispatcherStep
  <2>1. CASE Dispatcher_toDatabase \/ Dispatcher_toDevice
    <3>1. replies' = replies /\ requested' = requested
      BY <2>1 DEF Dispatcher_toDatabase, Dispatcher_toDevice, clientVars
    <3>. QED  BY <1>1, <2>1, <3>1, ForwardShapes, ForwardGoesOn
  <2>2. CASE Dispatcher_doQuit
    <3>1. UNCHANGED <<queueVars, replies>> /\ requested' = requested
      BY <2>2 DEF Dispatcher_doQuit, clientVars
    <3>. QED  BY <1>1, <3>1, StillGoesOn
  <2>3. CASE Dispatcher_doSendStatus
    <3>1. requested' = requested
      BY <2>3 DEF Dispatcher_doSendStatus
    <3>. QED  BY <1>1, <2>3, <3>1, SendStatusGoesOn
  <2>. QED  BY <1>5, <2>1, <2>2, <2>3 DEF DispatcherStep, DispatcherHandler
<1>6. CASE Terminate \/ UNCHANGED vars
  <2>1. UNCHANGED <<queueVars, replies>> /\ requested' = requested
    BY <1>6 DEF Terminate, vars, clientVars
  <2>. QED  BY <1>1, <2>1, StillGoesOn
<1>. QED  BY <1>2, <1>3, <1>4, <1>5, <1>6 DEF Next

LEMMA NextServiceInv ==
    ASSUME ServiceInv, [Next]_vars
    PROVE  ServiceInv'
<1>1. TypeOK /\ FollowedUp /\ TypeOK'
  BY NextType DEF ServiceInv
<1>2. CASE Restart
  BY <1>1, <1>2, RestartServiceInv
<1>3. CASE ~Restart
  <2>1. QuitQueued => QuitQueued'
    BY <1>1, <1>3, QuitStays
  <2>2. ASSUME NEW c \in RequestIds PROVE RequestsTyped' /\ Solo(c)' /\ Accounted(c)'
    <3>. RequestsTyped /\ Solo(c) /\ Accounted(c)
      BY <1>1 DEF FollowedUp
    <3>1. CASE ClientStep
      BY <1>1, <2>1, <2>2, <3>1, ClientKeeps DEF ClientStep
    <3>2. CASE Dispatcher_doQuitCollector
      BY <1>1, <2>2, <3>2, QuitCollectorKeeps
    <3>3. CASE ~ClientStep /\ ~Dispatcher_doQuitCollector
      <4>1. RequestsTyped' /\ GoesOn(c) /\ requested' = requested
        BY <1>3, <2>2, <3>3, NextGoesOn
      <4>. QED  BY <1>1, <2>1, <2>2, <4>1 DEF GoesOn, Accounted
    <3>. QED  BY <3>1, <3>2, <3>3
  <2>. QED  BY <1>1, <2>2 DEF ServiceInv, FollowedUp
<1>. QED  BY <1>2, <1>3

LEMMA Followed == Spec => []ServiceInv
<1>1. ServiceInv /\ [Next]_vars => ServiceInv'
  BY NextServiceInv
<1>. QED  BY <1>1, InitServiceInv, PTL DEF Spec

-----------------------------------------------------------------------------
(* What follows from the invariant.                                        *)

LEMMA OncePlaces ==
    ASSUME NEW name, NEW q, NEW c
    PROVE  /\ InQueue(name, q, c) = {} <=> ~Has(q, c)
           /\ Once(q, c) => \A x, y \in InQueue(name, q, c) : x = y
BY DEF InQueue, Has, Once

LEMMA OnePlace ==
    ASSUME NEW c \in RequestIds, Solo(c)
    PROVE  /\ \A x, y \in Places(c) : x = y
           /\ Places(c) = {} => ~Somewhere(c)
<1>. DEFINE A == InQueue("dispatcher", dispatcherQueue, c)
            B == InQueue("database", dbQueue, c)
            V == UNION {InQueue(d, deviceQueue[d], c) : d \in Devices}
            R == {<<"replied", i>> : i \in DOMAIN replies[c]}
<1>1. Places(c) = A \cup B \cup V \cup R
  BY DEF Places
<1>2. /\ A = {} <=> ~Has(dispatcherQueue, c)
      /\ \A x, y \in A : x = y
      /\ B = {} <=> ~Has(dbQueue, c)
      /\ \A x, y \in B : x = y
  BY OncePlaces DEF Solo
<1>3. V = {} <=> ~InDevices(deviceQueue, c)
  <2>1. V = {} <=> \A d \in Devices : InQueue(d, deviceQueue[d], c) = {}
    OBVIOUS
  <2>2. \A d \in Devices : InQueue(d, deviceQueue[d], c) = {} <=> ~Has(deviceQueue[d], c)
    BY OncePlaces
  <2>. QED  BY <2>1, <2>2 DEF InDevices
<1>4. ASSUME NEW x \in V, NEW y \in V PROVE x = y
  <2>1. PICK d \in Devices, e \in Devices :
           x \in InQueue(d, deviceQueue[d], c) /\ y \in InQueue(e, deviceQueue[e], c)
    OBVIOUS
  <2>2. Has(deviceQueue[d], c) /\ Has(deviceQueue[e], c)
    BY <2>1, OncePlaces
  <2>3. d = e /\ Once(deviceQueue[d], c)
    BY <2>2 DEF Solo, OnceInDevices
  <2>. QED  BY <2>1, <2>3, OncePlaces
<1>5. /\ R = {} <=> ~Answered(c)
      /\ \A x, y \in R : x = y
  <2>1. CASE Answered(c)
    <3>1. PICK s \in {"Okay", "Error"} : replies[c] = <<s>>
      BY <2>1 DEF Solo
    <3>2. DOMAIN replies[c] = {1}
      BY <3>1
    <3>. QED  BY <2>1, <3>2
  <2>2. CASE ~Answered(c)
    <3>1. DOMAIN replies[c] = {}
      BY <2>2 DEF Answered
    <3>. QED  BY <2>2, <3>1
  <2>. QED  BY <2>1, <2>2
<1>. HIDE DEF A, B, V, R
<1>6. /\ A # {} => (B = {} /\ V = {} /\ R = {})
      /\ B # {} => (V = {} /\ R = {})
      /\ V # {} => R = {}
  BY <1>2, <1>3, <1>5 DEF Solo
<1>7. \A x, y \in Places(c) : x = y
  BY <1>1, <1>2, <1>4, <1>5, <1>6
<1>8. Places(c) = {} => ~Somewhere(c)
  BY <1>1, <1>2, <1>3, <1>5 DEF Somewhere
<1>. QED  BY <1>7, <1>8

LEMMA AtMostOne ==
    ASSUME NEW S, \A x, y \in S : x = y
    PROVE  Cardinality(S) <= 1
<1>1. CASE S = {}
  BY <1>1, FS_EmptySet
<1>2. CASE S # {}
  <2>1. PICK x : S = {x}
    BY <1>2
  <2>. QED  BY <2>1, FS_Singleton
<1>. QED  BY <1>1, <1>2

\* A request is in one queue or answered, as long as the process does not quit:
\* the handlers of the dispatcher, the database and the devices pass it on or
\* answer it, and never both.
THEOREM RequestAnsweredOnceSafe == Spec => []RequestAnsweredOnce
<1>1. ServiceInv => RequestAnsweredOnce
  <2>1. ASSUME ServiceInv, NEW c \in RequestIds
        PROVE  /\ Cardinality(Places(c)) <= 1
               /\ (c <= requested /\ Places(c) = {}) => QuitQueued
    <3>1. Solo(c) /\ Accounted(c)
      BY <2>1 DEF ServiceInv, FollowedUp
    <3>2. (\A x, y \in Places(c) : x = y) /\ (Places(c) = {} => ~Somewhere(c))
      BY <2>1, <3>1, OnePlace
    <3>3. Cardinality(Places(c)) <= 1
      BY <3>2, AtMostOne
    <3>. QED  BY <3>1, <3>2, <3>3 DEF Accounted
  <2>. QED  BY <2>1 DEF RequestAnsweredOnce
<1>. QED  BY <1>1, Followed, PTL

-----------------------------------------------------------------------------
(* The refinement: every step of the collector is a step of the service.   *)

LEMMA InitService == Init => Service!ServiceInit
BY DEF Init, DispatcherInit, Service!ServiceInit, Service!Unanswered

\* Steps that ask nothing, answer nothing and end nothing.
Unseen == requested' = requested /\ replies' = replies /\ process' = process

\* The process ends, however.
Ends == requested' = requested /\ replies' = replies /\ process = "up" /\ process' # "up"

LEMMA StepsUnseen ==
    ASSUME NEW d \in Devices, DeviceStep(d) \/ ConnectionStep(d) \/ FinalizeStep(d) \/ TickStep(d)
    PROVE  Unseen \/ Ends
<1>1. requested' = requested /\ replies' = replies
  BY DEF DeviceStep, ConnectionStep, FinalizeStep, TickStep, clientVars
<1>2. process = "up"
  BY DEF DeviceStep, ConnectionStep, FinalizeStep, TickStep, DeviceHandler, ConnectionEvent,
         Device_doConnect, Device_doConnectUnresolved, Device_doSendDescriptor, Device_doRequestSession,
         Device_doSetSession, Device_doDisconnect, Device_doStartStream, Device_doStopStream,
         Device_doStartCollecting, Device_doStopCollecting, Device_doProcessData, Device_doStatus,
         DeviceHandles, Connection_readSetSession, Connection_readData, Connection_readStatus,
         Connection_readFails, Readable, Connection_finalize, Lane_tick
<1>. QED  BY <1>1, <1>2 DEF Unseen, Ends

LEMMA AskStep ==
    ASSUME ServiceInv, ClientStep
    PROVE  \E c \in RequestIds : Service!Ask(c)
<1>1. /\ process = "up" /\ process' = process
      /\ requested' = requested + 1 /\ requested < MaxRequests /\ replies' = replies
  BY DEF ClientStep, ClientEvent, ControlClient_request, ControlClient_doRequestSession, processVars
<1>2. requested \in 0..MaxRequests /\ requested + 1 \in RequestIds
  BY <1>1, BaseAssumption DEF ServiceInv, TypeOK, DispatcherTypeOK, RequestIds
<1>3. requested + 1 \notin 1..requested /\ 1..(requested + 1) = 1..requested \cup {requested + 1}
  BY <1>2
<1>4. 1..requested' = 1..requested \cup {requested + 1}
  BY <1>1, <1>3
<1>. QED  BY <1>1, <1>2, <1>3, <1>4 DEF Service!Ask

LEMMA AnswerStep ==
    ASSUME ServiceInv, DispatcherStep, Dispatcher_doSendStatus
    PROVE  Unseen \/ \E c \in RequestIds, s \in {"Okay", "Error"} : Service!Answer(c, s)
<1>. DEFINE rq == Head(dispatcherQueue)
<1>1. /\ process = "up" /\ process' = process /\ requested' = requested
      /\ dispatcherQueue # <<>> /\ rq.action = "SendStatus"
      /\ replies' = IF rq.client = NoClient THEN replies ELSE [replies EXCEPT ![rq.client] = Append(@, rq.arg)]
  BY DEF Dispatcher_doSendStatus, DispatcherHandles
<1>2. rq \in RequestsOf(DispatcherActions) /\ dispatcherQueue \in Seq(RequestsOf(DispatcherActions))
  BY <1>1, DispatcherHeadType DEF ServiceInv, TypeOK, BaseTypeOK
<1>3. rq.client \in Clients /\ rq.arg \in {"Okay", "Error"}
  BY <1>1, <1>2, FieldsType
<1>4. CASE rq.client = NoClient
  BY <1>1, <1>4 DEF Unseen
<1>5. CASE rq.client # NoClient
  <2>1. rq.client \in RequestIds
    BY <1>3, <1>5, BaseAssumption DEF RequestIds, Clients, NoClient
  <2>2. Solo(rq.client) /\ Accounted(rq.client)
    BY <2>1 DEF ServiceInv, FollowedUp
  <2>3. Has(dispatcherQueue, rq.client)
    <3>. DEFINE c == rq.client
    <3>1. Has(dispatcherQueue, c) <=> (rq.client = c \/ Has(Tail(dispatcherQueue), c))
      BY <1>1, <1>2, TailClients
    <3>. QED  BY <3>1
  <2>4. replies[rq.client] = <<>> /\ rq.client <= requested
    BY <2>2, <2>3 DEF Solo, Accounted, Somewhere, Answered
  <2>5. rq.client \in 1..requested
    BY <2>1, <2>4, BaseAssumption DEF ServiceInv, TypeOK, DispatcherTypeOK, RequestIds
  <2>6. replies' = [replies EXCEPT ![rq.client] = <<rq.arg>>]
    <3>1. Append(replies[rq.client], rq.arg) = <<rq.arg>>
      BY <2>4
    <3>. QED  BY <1>1, <1>5, <3>1
  <2>7. Service!Answer(rq.client, rq.arg)
    BY <1>1, <2>4, <2>5, <2>6 DEF Service!Answer
  <2>. QED  BY <1>3, <2>1, <2>7
<1>. QED  BY <1>4, <1>5

LEMMA NextService ==
    ASSUME ServiceInv, [Next]_vars
    PROVE  [Service!ServiceNext]_(Service!serviceVars)
<1>. DEFINE Stutters == UNCHANGED Service!serviceVars
<1>1. ASSUME Unseen PROVE Stutters
  BY <1>1 DEF Unseen, Service!serviceVars
<1>2. ASSUME Ends PROVE Service!ServiceNext
  BY <1>2 DEF Ends, Service!ServiceNext, Service!End
<1>3. CASE \E d \in Devices : DeviceStep(d) \/ ConnectionStep(d) \/ FinalizeStep(d) \/ TickStep(d)
  BY <1>1, <1>2, <1>3, StepsUnseen
<1>4. CASE DatabaseStep
  BY <1>1, <1>4 DEF DatabaseStep, processVars, clientVars, Unseen
<1>5. CASE DispatcherStep
  <2>1. CASE Dispatcher_doSendStatus
    BY <1>1, <1>5, <2>1, AnswerStep DEF Service!ServiceNext
  <2>2. CASE Dispatcher_doQuit
    BY <1>2, <2>2 DEF Dispatcher_doQuit, DispatcherHandles, clientVars, Ends
  <2>3. CASE Dispatcher_toDatabase \/ Dispatcher_toDevice \/ Dispatcher_doQuitCollector
    BY <1>1, <2>3 DEF Dispatcher_toDatabase, Dispatcher_toDevice, Dispatcher_doQuitCollector, clientVars, Unseen
  <2>. QED  BY <1>5, <2>1, <2>2, <2>3 DEF DispatcherStep, DispatcherHandler
<1>6. CASE ClientStep
  BY <1>6, AskStep DEF Service!ServiceNext
<1>7. CASE Terminate
  BY <1>2, <1>7 DEF Terminate, clientVars, Ends
<1>8. CASE Restart
  <2>1. process # "up" /\ requested' = 0 /\ replies' = [c \in RequestIds |-> <<>>]
    BY <1>8 DEF Restart
  <2>2. 1..requested' = {}
    BY <2>1
  <2>. QED  BY <2>1, <2>2 DEF Service!ServiceNext, Service!Boot, Service!Unanswered
<1>9. CASE UNCHANGED vars
  BY <1>1, <1>9 DEF vars, processVars, clientVars, Unseen
<1>. QED  BY <1>3, <1>4, <1>5, <1>6, <1>7, <1>8, <1>9 DEF Next

\* The collector implements ControlService, for any number of devices, clients
\* and lives of the process: what its handlers do to queues and tables, and how
\* it ends, is nothing a client can tell from a service that answers once.
THEOREM ServiceImplemented == Spec => ImplementsService
<1>1. ServiceInv /\ [Next]_vars => [Service!ServiceNext]_(Service!serviceVars)
  BY NextService
<1>. QED  BY <1>1, InitService, Followed, PTL DEF Spec, ImplementsService, Service!ServiceSpec
=============================================================================
