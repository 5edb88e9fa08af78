----------------------- MODULE CollectorSessionProofs -----------------------
(***************************************************************************)
(* The end of a session, and the data filed under it.                      *)
(*                                                                         *)
(* Whichever way a device loses its connection, its session is ended,      *)
(* although the request that opens it may still be queued when the         *)
(* request that ends it is pushed.                                         *)
(*                                                                         *)
(* The invariant that makes it so is about who owns a hash: the hash of a  *)
(* device, and every SetSession on its way to it, was issued by its own    *)
(* monitor.  No other device can then open the session again behind its    *)
(* end, and the device itself, when it does, is not disconnected.          *)
(*                                                                         *)
(* Data is filed right because requests are handled in the order they are  *)
(* pushed: the second part follows the sessions through two queues.        *)
(***************************************************************************)
EXTENDS CollectorRecoveryProofs

-----------------------------------------------------------------------------
(* Queues.                                                                 *)

\* EndComes and the first part of StaysEnded, of any queue.
EndsIn(q, h) ==
    \E i \in DOMAIN q : IsEnd(q[i], h) /\ \A j \in DOMAIN q : j > i => ~IsAdd(q[j], h)

NeverAdds(q, h) == \A i \in DOMAIN q : ~IsAdd(q[i], h)

LEMMA AppendShape ==
    ASSUME NEW S, NEW q \in Seq(S), NEW e
    PROVE  /\ Len(q) \in Nat
           /\ DOMAIN q = 1..Len(q)
           /\ DOMAIN Append(q, e) = 1..(Len(q) + 1)
           /\ \A i \in 1..Len(q) : Append(q, e)[i] = q[i]
           /\ Append(q, e)[Len(q) + 1] = e
<1>1. q \in Seq(S \cup {e}) /\ e \in S \cup {e}
  BY SeqMonotonic
<1>2. QED
  BY <1>1

LEMMA PopShape ==
    ASSUME NEW S, NEW q \in Seq(S), q # <<>>, NEW r \in Seq(S)
    PROVE  /\ Len(q) \in Nat \ {0} /\ Len(r) \in Nat
           /\ DOMAIN q = 1..Len(q) /\ DOMAIN r = 1..Len(r)
           /\ DOMAIN (Tail(q) \o r) = 1..(Len(q) - 1 + Len(r))
           /\ Head(q) = q[1]
           /\ \A i \in 1..(Len(q) - 1 + Len(r)) :
                 (Tail(q) \o r)[i] = IF i <= Len(q) - 1 THEN q[i + 1] ELSE r[i - (Len(q) - 1)]
<1> DEFINE t == Tail(q)
           s == t \o r
<1>1. /\ t \in Seq(S)
      /\ Len(q) \in Nat \ {0}
      /\ Len(t) = Len(q) - 1
      /\ Head(q) = q[1]
      /\ DOMAIN q = 1..Len(q)
      /\ \A i \in 1..Len(t) : t[i] = q[i + 1]
  OBVIOUS
<1>2. Len(r) \in Nat /\ DOMAIN r = 1..Len(r)
  OBVIOUS
<1> HIDE DEF t
<1>3. /\ s \in Seq(S)
      /\ Len(s) = Len(t) + Len(r)
      /\ \A i \in 1..(Len(t) + Len(r)) : s[i] = IF i <= Len(t) THEN t[i] ELSE r[i - Len(t)]
  BY <1>1, ConcatProperties
<1>4. DOMAIN s = 1..(Len(t) + Len(r))
  BY <1>3
<1> HIDE DEF s
<1>5. \A i \in 1..(Len(q) - 1 + Len(r)) : s[i] = IF i <= Len(q) - 1 THEN q[i + 1] ELSE r[i - (Len(q) - 1)]
  BY <1>1, <1>2, <1>3
<1>6. QED
  BY <1>1, <1>2, <1>4, <1>5 DEF s, t

LEMMA EndsAfterAppend ==
    ASSUME NEW S, NEW q \in Seq(S), NEW e, NEW h
    PROVE  /\ EndsIn(q, h) /\ ~IsAdd(e, h) => EndsIn(Append(q, e), h)
           /\ IsEnd(e, h) => EndsIn(Append(q, e), h)
           /\ NeverAdds(q, h) /\ ~IsAdd(e, h) => NeverAdds(Append(q, e), h)
<1> DEFINE s == Append(q, e)
<1>1. /\ Len(q) \in Nat
      /\ DOMAIN q = 1..Len(q)
      /\ DOMAIN s = 1..(Len(q) + 1)
      /\ \A i \in 1..Len(q) : s[i] = q[i]
      /\ s[Len(q) + 1] = e
  BY AppendShape
<1> HIDE DEF s
<1>2. \A i \in DOMAIN s : i \in DOMAIN q \/ i = Len(q) + 1
  BY <1>1
<1>3. ASSUME EndsIn(q, h), ~IsAdd(e, h)
      PROVE  EndsIn(s, h)
  <2>1. PICK i \in DOMAIN q : IsEnd(q[i], h) /\ \A j \in DOMAIN q : j > i => ~IsAdd(q[j], h)
    BY <1>3 DEF EndsIn
  <2>2. i \in DOMAIN s /\ IsEnd(s[i], h)
    BY <1>1, <2>1
  <2>3. \A j \in DOMAIN s : j > i => ~IsAdd(s[j], h)
    BY <1>1, <1>2, <1>3, <2>1
  <2>4. QED
    BY <2>2, <2>3 DEF EndsIn
<1>4. ASSUME IsEnd(e, h)
      PROVE  EndsIn(s, h)
  <2>1. Len(q) + 1 \in DOMAIN s /\ IsEnd(s[Len(q) + 1], h)
    BY <1>1, <1>4
  <2>2. \A j \in DOMAIN s : ~(j > Len(q) + 1)
    BY <1>1
  <2>3. QED
    BY <2>1, <2>2 DEF EndsIn
<1>5. ASSUME NeverAdds(q, h), ~IsAdd(e, h)
      PROVE  NeverAdds(s, h)
  BY <1>1, <1>2, <1>5 DEF NeverAdds
<1>6. QED
  BY <1>3, <1>4, <1>5 DEF s

LEMMA EndsAfterPop ==
    ASSUME NEW S, NEW q \in Seq(S), q # <<>>, NEW r \in Seq(S), NEW h, NeverAdds(r, h)
    PROVE  /\ NeverAdds(q, h) => NeverAdds(Tail(q) \o r, h)
           /\ EndsIn(q, h) => \/ EndsIn(Tail(q) \o r, h)
                              \/ IsEnd(Head(q), h) /\ NeverAdds(Tail(q) \o r, h)
<1> DEFINE s == Tail(q) \o r
           n == Len(q) - 1
<1>1. /\ n \in Nat /\ Len(r) \in Nat
      /\ DOMAIN q = 1..(n + 1) /\ DOMAIN r = 1..Len(r)
      /\ DOMAIN s = 1..(n + Len(r))
      /\ Head(q) = q[1]
      /\ \A i \in 1..(n + Len(r)) : s[i] = IF i <= n THEN q[i + 1] ELSE r[i - n]
  BY PopShape
<1> HIDE DEF s, n
<1>2. ASSUME NEW j \in DOMAIN s
      PROVE  \/ j + 1 \in DOMAIN q /\ s[j] = q[j + 1]
             \/ ~IsAdd(s[j], h)
  <2>1. CASE j <= n
    BY <1>1, <2>1
  <2>2. CASE ~(j <= n)
    <3>1. j - n \in DOMAIN r /\ s[j] = r[j - n]
      BY <1>1, <2>2
    <3>2. QED
      BY <3>1 DEF NeverAdds
  <2>3. QED
    BY <2>1, <2>2
<1>3. ASSUME NeverAdds(q, h)
      PROVE  NeverAdds(s, h)
  BY <1>2, <1>3 DEF NeverAdds
<1>4. ASSUME EndsIn(q, h)
      PROVE  EndsIn(s, h) \/ (IsEnd(Head(q), h) /\ NeverAdds(s, h))
  <2>1. PICK i \in DOMAIN q : IsEnd(q[i], h) /\ \A j \in DOMAIN q : j > i => ~IsAdd(q[j], h)
    BY <1>4 DEF EndsIn
  <2>2. CASE i = 1
    <3>1. \A j \in DOMAIN s : j + 1 > 1
      BY <1>1
    <3>2. \A j \in DOMAIN s : ~IsAdd(s[j], h)
      BY <1>2, <2>1, <2>2, <3>1
    <3>3. QED
      BY <1>1, <2>1, <2>2, <3>2 DEF NeverAdds
  <2>3. CASE i # 1
    <3>1. i - 1 \in DOMAIN s /\ s[i - 1] = q[i]
      BY <1>1, <2>1, <2>3
    <3>2. \A j \in DOMAIN s : j > i - 1 => j + 1 > i
      BY <1>1, <2>1
    <3>3. \A j \in DOMAIN s : j > i - 1 => ~IsAdd(s[j], h)
      BY <1>2, <2>1, <3>2
    <3>4. QED
      BY <2>1, <3>1, <3>3 DEF EndsIn
  <2>4. QED
    BY <2>2, <2>3
<1>5. QED
  BY <1>3, <1>4 DEF s

-----------------------------------------------------------------------------
(* Who owns a hash.                                                        *)

\* Every SetSession in q was issued by the monitor of d.
OwnIssues(q, d) == \A i \in DOMAIN q : q[i].action = "SetSession" => q[i].session \in Issues[d]

HashesOwned ==
    \A d \in Devices :
        /\ sessionHash[d] \in Issues[d] \cup {NoHash}
        /\ OwnIssues(deviceQueue[d], d)

LEMMA OwnAfterAppend ==
    ASSUME NEW S, NEW q \in Seq(S), NEW e, NEW d, OwnIssues(q, d),
           e.action = "SetSession" => e.session \in Issues[d]
    PROVE  OwnIssues(Append(q, e), d)
<1> DEFINE s == Append(q, e)
<1>1. /\ Len(q) \in Nat
      /\ DOMAIN q = 1..Len(q)
      /\ DOMAIN s = 1..(Len(q) + 1)
      /\ \A i \in 1..Len(q) : s[i] = q[i]
      /\ s[Len(q) + 1] = e
  BY AppendShape
<1> HIDE DEF s
<1>2. \A i \in DOMAIN s : i \in DOMAIN q \/ i = Len(q) + 1
  BY <1>1
<1>3. OwnIssues(s, d)
  BY <1>1, <1>2 DEF OwnIssues
<1>4. QED
  BY <1>3 DEF s

LEMMA OwnAfterPop ==
    ASSUME NEW S, NEW q \in Seq(S), q # <<>>, NEW d, OwnIssues(q, d)
    PROVE  /\ OwnIssues(Tail(q) \o <<>>, d)
           /\ \A e : e.action # "SetSession" => OwnIssues(Tail(q) \o <<e>>, d)
<1>1. OwnIssues(Tail(q), d)
  <2>1. /\ Len(Tail(q)) \in Nat
        /\ DOMAIN Tail(q) = 1..Len(Tail(q))
        /\ \A i \in 1..Len(Tail(q)) : i + 1 \in DOMAIN q /\ Tail(q)[i] = q[i + 1]
    OBVIOUS
  <2>2. QED
    BY <2>1 DEF OwnIssues
<1>2. Tail(q) \in Seq(S)
  OBVIOUS
<1>3. Tail(q) \o <<>> = Tail(q)
  BY <1>2, ConcatEmptySeq
<1>4. ASSUME NEW e, e.action # "SetSession"
      PROVE  OwnIssues(Tail(q) \o <<e>>, d)
  <2>1. Tail(q) \in Seq(S \cup {e}) /\ e \in S \cup {e}
    BY <1>2, SeqMonotonic
  <2>2. Append(Tail(q), e) = Tail(q) \o <<e>>
    BY <2>1, AppendIsConcat
  <2>3. QED
    BY <1>1, <1>2, <1>4, <2>2, OwnAfterAppend
<1>5. QED
  BY <1>1, <1>3, <1>4

\* The requests the connection pushes for what it reads.
FromMonitor == {"SetSession", "ProcessData"}

\* A device's handler pops one request and pushes neither a SetSession nor data.
LEMMA DeviceStepQueue ==
    ASSUME NEW d \in Devices, DeviceStep(d)
    PROVE  \/ deviceQueue' = deviceQueue
           \/ /\ deviceQueue[d] # <<>>
              /\ \/ deviceQueue' = PopDevice(d, <<>>)
                 \/ \E e : e.action \notin FromMonitor /\ deviceQueue' = PopDevice(d, <<e>>)
<1> DEFINE Goal == \/ deviceQueue' = deviceQueue
                   \/ /\ deviceQueue[d] # <<>>
                      /\ \/ deviceQueue' = PopDevice(d, <<>>)
                         \/ \E e : e.action \notin FromMonitor /\ deviceQueue' = PopDevice(d, <<e>>)
<1>1. \A a, c, f, h : a \notin FromMonitor => Request(a, c, f, h).action \notin FromMonitor
  BY DEF Request
<1>2. \A a : a \notin FromMonitor => Internal(a).action \notin FromMonitor
  BY <1>1 DEF Internal
<1>3. CASE Device_doConnect(d)
  <2> DEFINE e == Request("SendDescriptor", Head(deviceQueue[d]).client, d, NoHash)
  <2>1. deviceQueue[d] # <<>>
        /\ (deviceQueue' = PopDevice(d, <<>>) \/ deviceQueue' = PopDevice(d, <<e>>))
    BY <1>3 DEF Device_doConnect, DeviceHandles
  <2>2. e.action \notin FromMonitor
    BY DEF Request, FromMonitor
  <2> HIDE DEF e
  <2>3. QED
    BY <2>1, <2>2
<1>4. CASE Device_doSetSession(d)
  BY <1>2, <1>4 DEF Device_doSetSession, DeviceHandles, FromMonitor
<1>5. CASE Device_doStartCollecting(d)
  <2>1. StartRequests(d) \in {<<>>, <<Internal("RequestSession")>>, <<Internal("StartStream")>>}
    BY DEF StartRequests
  <2>2. deviceQueue[d] # <<>> /\ deviceQueue' = PopDevice(d, StartRequests(d))
    BY <1>5 DEF Device_doStartCollecting, DeviceHandles
  <2>3. Internal("RequestSession").action \notin FromMonitor /\ Internal("StartStream").action \notin FromMonitor
    BY <1>2 DEF FromMonitor
  <2>4. QED
    BY <2>1, <2>2, <2>3
<1>6. CASE Device_doStopCollecting(d)
  <2>1. deviceQueue[d] # <<>>
        /\ (deviceQueue' = PopDevice(d, <<>>) \/ deviceQueue' = PopDevice(d, <<Internal("StopStream")>>))
    BY <1>6 DEF Device_doStopCollecting, DeviceHandles
  <2>2. QED
    BY <1>2, <2>1 DEF FromMonitor
<1>7. CASE ~(Device_doConnect(d) \/ Device_doSetSession(d) \/ Device_doStartCollecting(d)
             \/ Device_doStopCollecting(d))
  BY <1>7
  DEF DeviceStep, DeviceHandler, Device_doConnectUnresolved, Device_doSendDescriptor, Device_doRequestSession,
      Device_doDisconnect, Device_doStartStream, Device_doStopStream, Device_doProcessData, Device_doStatus,
      NullDereference, queueVars, DeviceHandles
<1>8. QED
  BY <1>3, <1>4, <1>5, <1>6, <1>7

LEMMA RenamedAction ==
    ASSUME NEW actions, NEW rq \in RequestsOf(actions), NEW a
    PROVE  [rq EXCEPT !.action = a].action = a
BY DEF RequestsOf, RequestFields

LEMMA HashesOwnedStep ==
    ASSUME TypeOK, HashesOwned, [Next]_vars
    PROVE  HashesOwned'
<1> DEFINE Same == deviceQueue' = deviceQueue /\ sessionHash' = sessionHash
           Pushes(d) == /\ sessionHash' = sessionHash
                        /\ \E e : /\ e.action = "SetSession" => e.session \in Issues[d]
                                  /\ deviceQueue' = [deviceQueue EXCEPT ![d] = Append(@, e)]
<1>1. /\ deviceQueue \in [Devices -> Seq(RequestsOf(DeviceActions))]
      /\ sessionHash \in [Devices -> Hashes \cup {NoHash}]
  BY DEF TypeOK, BaseTypeOK, DeviceTypeOK
<1>2. CASE Same
  BY <1>2 DEF HashesOwned
<1>3. ASSUME NEW d \in Devices, Pushes(d)
      PROVE  HashesOwned'
  <2>1. PICK e : /\ e.action = "SetSession" => e.session \in Issues[d]
                 /\ deviceQueue' = [deviceQueue EXCEPT ![d] = Append(deviceQueue[d], e)]
    BY <1>3
  <2>2. PICK q : q = deviceQueue[d]
    OBVIOUS
  <2>3. OwnIssues(Append(q, e), d)
    BY <1>1, <2>1, <2>2, OwnAfterAppend DEF HashesOwned
  <2>4. ASSUME NEW x \in Devices
        PROVE  deviceQueue'[x] = IF x = d THEN Append(q, e) ELSE deviceQueue[x]
    BY <1>1, <2>1, <2>2
  <2>5. QED
    BY <1>3, <2>3, <2>4 DEF HashesOwned
<1>4. ASSUME NEW d \in Devices, DeviceStep(d)
      PROVE  HashesOwned'
  <2>1. \A x \in Devices : OwnIssues(deviceQueue'[x], x)
    <3>1. CASE deviceQueue' = deviceQueue
      BY <3>1 DEF HashesOwned
    <3>2. ASSUME NEW rqs, deviceQueue[d] # <<>>, deviceQueue' = PopDevice(d, rqs),
                 rqs = <<>> \/ \E e : e.action # "SetSession" /\ rqs = <<e>>
          PROVE  \A x \in Devices : OwnIssues(deviceQueue'[x], x)
      <4>1. PICK q : q = deviceQueue[d]
        OBVIOUS
      <4>2. q \in Seq(RequestsOf(DeviceActions)) /\ q # <<>> /\ OwnIssues(q, d)
        BY <1>1, <3>2, <4>1 DEF HashesOwned
      <4>3. OwnIssues(Tail(q) \o rqs, d)
        BY <3>2, <4>2, OwnAfterPop
      <4>4. ASSUME NEW x \in Devices
            PROVE  deviceQueue'[x] = IF x = d THEN Tail(q) \o rqs ELSE deviceQueue[x]
        BY <1>1, <3>2, <4>1 DEF PopDevice
      <4>5. QED
        BY <4>3, <4>4 DEF HashesOwned
    <3>3. QED
      BY <1>4, <3>1, <3>2, DeviceStepQueue DEF FromMonitor
  <2>2. \A x \in Devices : sessionHash'[x] \in Issues[x] \cup {NoHash}
    <3>1. CASE sessionHash' = sessionHash
      BY <3>1 DEF HashesOwned
    <3>2. CASE Device_doSetSession(d)
      <4>1. /\ deviceQueue[d] # <<>>
            /\ Head(deviceQueue[d]).action = "SetSession"
            /\ sessionHash' = [sessionHash EXCEPT ![d] = Head(deviceQueue[d]).session]
        BY <3>2 DEF Device_doSetSession, DeviceHandles
      <4>2. 1 \in DOMAIN deviceQueue[d] /\ Head(deviceQueue[d]) = deviceQueue[d][1]
        BY <1>1, <4>1
      <4>3. Head(deviceQueue[d]).session \in Issues[d]
        BY <4>1, <4>2 DEF HashesOwned, OwnIssues
      <4>4. QED
        BY <1>1, <4>1, <4>3 DEF HashesOwned
    <3>3. sessionHash' = sessionHash \/ Device_doSetSession(d)
      BY <1>4
      DEF DeviceStep, DeviceHandler, Device_doConnect, Device_doConnectUnresolved, Device_doSendDescriptor,
          Device_doRequestSession, Device_doDisconnect, Device_doStartStream, Device_doStopStream,
          Device_doStartCollecting, Device_doStopCollecting, Device_doProcessData, Device_doStatus,
          NullDereference, deviceVars
    <3>4. QED
      BY <3>1, <3>2, <3>3
  <2>3. QED
    BY <2>1, <2>2 DEF HashesOwned
<1>5. ASSUME NEW d \in Devices, ConnectionStep(d)
      PROVE  HashesOwned'
  <2>1. CASE \E h \in Issues[d] : Connection_readSetSession(d, h)
    BY <1>3, <2>1 DEF Connection_readSetSession, Pushed, Request, deviceVars
  <2>2. CASE Connection_readData(d)
    BY <1>3, <2>2 DEF Connection_readData, Pushed, Internal, Request, deviceVars
  <2>3. CASE Connection_readStatus(d)
    BY <1>3, <2>3 DEF Connection_readStatus, Pushed, Internal, Request, deviceVars
  <2>4. CASE Connection_readFails(d)
    BY <1>2, <2>4 DEF Connection_readFails, queueVars
  <2>5. QED
    BY <1>5, <2>1, <2>2, <2>3, <2>4 DEF ConnectionStep, ConnectionEvent
<1>6. ASSUME NEW d \in Devices, FinalizeStep(d) \/ TickStep(d)
      PROVE  HashesOwned'
  BY <1>2, <1>6
  DEF FinalizeStep, Connection_finalize, TickStep, Lane_tick, NullDereference, queueVars, deviceVars
<1>7. CASE DatabaseStep
  BY <1>2, <1>7
  DEF DatabaseStep, DatabaseHandler, DB_doCheckDatabase, DB_doInitDatabase, DB_doLoadDevices,
      DB_doCleanSessions, DB_doGetDevices, DB_doGetSessions, DB_doAddDevice, DB_doRemoveDevice,
      DB_doAddSession, DB_doRemSession, DB_doEndSession, DB_doAddData
<1>8. CASE DispatcherStep
  <2>1. sessionHash' = sessionHash
    BY <1>8 DEF DispatcherStep, deviceVars
  <2>2. CASE Dispatcher_toDevice
    <3> DEFINE rq == Head(dispatcherQueue)
    <3>1. CASE deviceQueue' = deviceQueue
      BY <1>2, <2>1, <3>1
    <3>2. PICK a \in {"ConnectDevice", "DisconnectDevice", "StartCollecting", "StopCollecting"} :
             \/ deviceQueue' = deviceQueue
             \/ /\ Manages(rq.device)
                /\ deviceQueue' = [deviceQueue EXCEPT ![rq.device] =
                                     Append(@, [rq EXCEPT !.action = DeviceAction(a)])]
      BY <2>2 DEF Dispatcher_toDevice
    <3>3. rq \in RequestsOf(DispatcherActions)
      BY <2>2, DispatcherHeadType DEF Dispatcher_toDevice, DispatcherHandles, TypeOK
    <3>4. [rq EXCEPT !.action = DeviceAction(a)].action = DeviceAction(a)
      BY <3>3, RenamedAction
    <3>5. DeviceAction(a) # "SetSession"
      BY DEF DeviceAction
    <3>6. Manages(rq.device) => rq.device \in Devices
      BY DEF Manages, TypeOK, ManagerTypeOK
    <3>7. CASE deviceQueue' # deviceQueue
      <4> DEFINE d == rq.device
                 e == [rq EXCEPT !.action = DeviceAction(a)]
      <4>1. d \in Devices /\ deviceQueue' = [deviceQueue EXCEPT ![d] = Append(@, e)]
        BY <3>2, <3>6, <3>7
      <4>2. e.action # "SetSession"
        BY <3>4, <3>5
      <4> HIDE DEF d, e
      <4>3. PICK x, y :
               x \in Devices /\ y.action # "SetSession" /\ deviceQueue' = [deviceQueue EXCEPT ![x] = Append(@, y)]
        BY <4>1, <4>2, Zenon
      <4>4. Pushes(x)
        BY <2>1, <4>3, Zenon
      <4>5. QED
        BY <1>3, <4>3, <4>4
    <3>8. QED
      BY <3>1, <3>7
  <2>3. CASE ~Dispatcher_toDevice
    <3>1. deviceQueue' = deviceQueue
      BY <1>8, <2>3
      DEF DispatcherStep, DispatcherHandler, Dispatcher_toDatabase, Dispatcher_doQuitCollector,
          Dispatcher_doQuit, Dispatcher_doSendStatus, queueVars
    <3>2. QED
      BY <1>2, <2>1, <3>1
  <2>4. QED
    BY <2>2, <2>3
<1>9. CASE ClientStep \/ Terminate \/ UNCHANGED vars
  BY <1>2, <1>9
  DEF ClientStep, ClientEvent, ControlClient_request, ControlClient_doRequestSession, Terminate, vars,
      queueVars, deviceVars
<1>10. CASE Restart
  <2>1. /\ deviceQueue' = [d \in Devices |-> <<>>]
        /\ sessionHash' = [d \in Devices |-> NoHash]
    BY <1>10 DEF Restart
  <2>2. QED
    BY <2>1 DEF HashesOwned, OwnIssues
<1>11. QED
  BY <1>4, <1>5, <1>6, <1>7, <1>8, <1>9, <1>10 DEF Next

-----------------------------------------------------------------------------
(* Once a session is to end, no step keeps it open.                        *)

Settled(h) == EndComes(h) \/ StaysEnded(h)

LEMMA SettledMeans ==
    ASSUME NEW h
    PROVE  /\ Settled(h) <=> \/ EndsIn(dbQueue, h)
                             \/ NeverAdds(dbQueue, h) /\ \A r \in sessions : r.hash = h => r.ended
           /\ Settled(h)' <=> \/ EndsIn(dbQueue', h)
                              \/ NeverAdds(dbQueue', h) /\ \A r \in sessions' : r.hash = h => r.ended
BY DEF Settled, EndComes, StaysEnded, EndsIn, NeverAdds

LEMMA PushSettles ==
    ASSUME TypeOK, sessions' = sessions, NEW h, NEW e, dbQueue' = Append(dbQueue, e),
           IsEnd(e, h) \/ (Settled(h) /\ ~IsAdd(e, h))
    PROVE  Settled(h)'
<1>1. dbQueue \in Seq(RequestsOf(DatabaseActions))
  BY DEF TypeOK, BaseTypeOK
<1>2. /\ EndsIn(dbQueue, h) /\ ~IsAdd(e, h) => EndsIn(dbQueue', h)
      /\ IsEnd(e, h) => EndsIn(dbQueue', h)
      /\ NeverAdds(dbQueue, h) /\ ~IsAdd(e, h) => NeverAdds(dbQueue', h)
  BY <1>1, EndsAfterAppend
<1>3. QED
  BY <1>2, SettledMeans

\* What the database asks of itself.
OwnRequests(q) == \A i \in DOMAIN q : q[i].action \in {"EndSession", "LoadDevices"}

LEMMA DatabasePushes ==
    ASSUME TypeOK, DatabaseStep
    PROVE  \E rqs \in Seq(RequestsOf(DatabaseActions)) :
              dbQueue' = Tail(dbQueue) \o rqs /\ OwnRequests(rqs)
<1> DEFINE S == RequestsOf(DatabaseActions)
<1>1. dbQueue \in Seq(S) /\ dbQueue # <<>>
  BY DatabaseQueueHead
<1>2. CASE dbQueue' = Tail(dbQueue)
  <2>1. <<>> \in Seq(S) /\ OwnRequests(<<>>) /\ Tail(dbQueue) \in Seq(S)
    BY <1>1 DEF OwnRequests
  <2>2. Tail(dbQueue) \o <<>> = Tail(dbQueue)
    BY <2>1, ConcatEmptySeq
  <2>3. QED
    BY <1>2, <2>1, <2>2
<1>3. CASE DB_doCleanSessions
  <2>1. ASSUME NEW rows \in Bijection(1..Cardinality(OpenSessions), OpenSessions),
               dbQueue' = Tail(dbQueue) \o EndRequests(rows)
        PROVE  OwnRequests(EndRequests(rows)) /\ EndRequests(rows) \in Seq(S)
    <3>1. EndRequests(rows) \in Seq(S)
      BY EndRequestsType DEF TypeOK
    <3>2. \A i \in DOMAIN EndRequests(rows) : EndRequests(rows)[i].action = "EndSession"
      BY DEF EndRequests, Request
    <3>3. QED
      BY <3>1, <3>2 DEF OwnRequests
  <2>2. QED
    BY <1>2, <1>3, <2>1 DEF DB_doCleanSessions
<1>4. CASE DB_doAddDevice
  <2>1. loadDevices \in S /\ loadDevices.action = "LoadDevices"
    BY InternalType DEF loadDevices, DatabaseActions, Internal, Request
  <2>2. <<loadDevices>> \in Seq(S) /\ OwnRequests(<<loadDevices>>)
    BY <2>1 DEF OwnRequests
  <2>3. <<>> \in Seq(S) /\ OwnRequests(<<>>)
    BY DEF OwnRequests
  <2>4. dbQueue' = Tail(dbQueue) \o <<>> \/ dbQueue' = Tail(dbQueue) \o <<loadDevices>>
    BY <1>4 DEF DB_doAddDevice
  <2>5. QED
    BY <2>2, <2>3, <2>4
<1>5. CASE ~DB_doCleanSessions /\ ~DB_doAddDevice
  <2>1. dbQueue' = Tail(dbQueue)
    BY <1>5
    DEF DatabaseStep, DatabaseHandler, DB_doCheckDatabase, DB_doInitDatabase, DB_doLoadDevices,
        DB_doGetDevices, DB_doGetSessions, DB_doRemoveDevice, DB_doAddSession, DB_doRemSession,
        DB_doEndSession, DB_doAddData
  <2>2. QED
    BY <1>2, <2>1
<1>6. QED
  BY <1>3, <1>4, <1>5

\* The database never asks itself to open a session.
LEMMA DatabaseNeverAdds ==
    ASSUME TypeOK, DatabaseStep, NEW h
    PROVE  \E rqs \in Seq(RequestsOf(DatabaseActions)) :
              dbQueue' = Tail(dbQueue) \o rqs /\ NeverAdds(rqs, h)
BY DatabasePushes DEF OwnRequests, NeverAdds, IsAdd

LEMMA DatabaseSettles ==
    ASSUME "query" \notin Faults, TypeOK, NothingWithoutTables, DatabaseStep, NEW h, Settled(h)
    PROVE  Settled(h)'
<1> DEFINE S == RequestsOf(DatabaseActions)
           head == Head(dbQueue)
           Ended(rows) == \A r \in rows : r.hash = h => r.ended
<1>1. dbQueue \in Seq(S) /\ dbQueue # <<>>
  BY DatabaseQueueHead
<1>2. PICK rqs \in Seq(S) : dbQueue' = Tail(dbQueue) \o rqs /\ NeverAdds(rqs, h)
  BY DatabaseNeverAdds
<1>3. /\ NeverAdds(dbQueue, h) => NeverAdds(dbQueue', h)
      /\ EndsIn(dbQueue, h) => EndsIn(dbQueue', h) \/ (IsEnd(head, h) /\ NeverAdds(dbQueue', h))
  BY <1>1, <1>2, EndsAfterPop
<1>4. ASSUME NeverAdds(dbQueue, h), Ended(sessions)
      PROVE  Ended(sessions')
  <2>1. CASE DB_doEndSession
    BY <1>4, <2>1, EndedSessions
  <2>2. CASE DB_doAddSession
    <3>1. head.action = "AddSession"
      BY <2>2 DEF DB_doAddSession, DatabaseHandles
    <3>2. 1 \in DOMAIN dbQueue /\ head = dbQueue[1]
      BY <1>1
    <3>3. head.session # h
      BY <1>4, <3>1, <3>2 DEF NeverAdds, IsAdd
    <3>4. PICK checked, removed, added \in QueryOutcomes :
             LET gone == IF Runs(checked) /\ removed THEN Colliding(head.session) ELSE {}
             IN  InsertSession(head.session, head.device, sessions \ gone, added)
      BY <2>2 DEF DB_doAddSession
    <3>5. PICK left : left \subseteq sessions /\ InsertSession(head.session, head.device, left, added)
      BY <3>4
    <3>6. sessions' = left \/ \E x : x.hash = head.session /\ sessions' = left \cup {x}
      BY <3>5 DEF InsertSession
    <3>7. QED
      BY <1>4, <3>3, <3>5, <3>6
  <2>3. CASE ~DB_doEndSession /\ ~DB_doAddSession
    <3>1. sessions' \subseteq sessions
      BY <2>3
      DEF DatabaseStep, DatabaseHandler, DB_doCheckDatabase, DB_doInitDatabase, DB_doLoadDevices,
          DB_doCleanSessions, DB_doGetDevices, DB_doGetSessions, DB_doAddDevice, DB_doRemoveDevice,
          DB_doRemSession, DB_doAddData, RemDevices, RemSessions, dbVars
    <3>2. QED
      BY <1>4, <3>1
  <2>4. QED
    BY <2>1, <2>2, <2>3
<1>5. ASSUME IsEnd(head, h)
      PROVE  Ended(sessions')
  <2>1. DB_doEndSession
    BY <1>5
    DEF IsEnd, DatabaseStep, DatabaseHandler, DB_doCheckDatabase, DB_doInitDatabase, DB_doLoadDevices,
        DB_doCleanSessions, DB_doGetDevices, DB_doGetSessions, DB_doAddDevice, DB_doRemoveDevice,
        DB_doAddSession, DB_doRemSession, DB_doAddData, DatabaseHandles
  <2>2. QED
    BY <1>5, <2>1, EndedSessions DEF IsEnd
<1>6. QED
  BY <1>3, <1>4, <1>5, SettledMeans

-----------------------------------------------------------------------------
(* A disconnected device.                                                  *)

\* Monitors do not share hashes.
OwnHashes == \A d, e \in Devices : d # e => Issues[d] \cap Issues[e] = {}

\* A step that neither disconnects a device, nor gives it a hash, nor opens a
\* session.
Neutral ==
    /\ sessions' = sessions
    /\ sessionHash' = sessionHash
    /\ \A d \in Devices : state'[d] = "Disconnected" => state[d] = "Disconnected"
    /\ dbQueue' = dbQueue \/ \E e : e.action # "AddSession" /\ dbQueue' = Append(dbQueue, e)

LEMMA DisconnectedMeans ==
    /\ DisconnectedSessionEnded
         <=> \A d \in Devices : \A h :
                state[d] = "Disconnected" /\ sessionHash[d] = h /\ h # NoHash => Settled(h)
    /\ DisconnectedSessionEnded'
         <=> \A d \in Devices : \A h :
                state'[d] = "Disconnected" /\ sessionHash'[d] = h /\ h # NoHash => Settled(h)'
BY DEF DisconnectedSessionEnded, Settled, EndComes, StaysEnded

LEMMA NeutralStep ==
    ASSUME TypeOK, DisconnectedSessionEnded, Neutral
    PROVE  DisconnectedSessionEnded'
<1>1. SUFFICES ASSUME NEW d \in Devices, NEW h,
                      state'[d] = "Disconnected", sessionHash'[d] = h, h # NoHash
               PROVE  Settled(h)'
  BY DisconnectedMeans
<1>2. Settled(h)
  BY <1>1, DisconnectedMeans DEF Neutral
<1>3. CASE dbQueue' = dbQueue
  BY <1>2, <1>3, SettledMeans DEF Neutral
<1>4. ASSUME NEW e, e.action # "AddSession", dbQueue' = Append(dbQueue, e)
      PROVE  Settled(h)'
  BY <1>2, <1>4, PushSettles DEF Neutral, IsAdd
<1>5. QED
  BY <1>3, <1>4 DEF Neutral

\* A device that disconnects pushes the end of its session last.
LEMMA DisconnectStep ==
    ASSUME TypeOK, DisconnectedSessionEnded, NEW d \in Devices, disconnect(d),
           sessions' = sessions, sessionHash' = sessionHash
    PROVE  DisconnectedSessionEnded'
<1> DEFINE e == Request("EndSession", NoClient, NoDevice, sessionHash[d])
<1>1. SUFFICES ASSUME NEW x \in Devices, NEW h,
                      state'[x] = "Disconnected", sessionHash'[x] = h, h # NoHash
               PROVE  Settled(h)'
  BY DisconnectedMeans
<1>2. state' = [state EXCEPT ![d] = "Disconnected"]
      /\ dbQueue' = IF sessionHash[d] # NoHash THEN Append(dbQueue, e) ELSE dbQueue
  BY DEF disconnect, updateState, EndsSession
<1>3. e.action = "EndSession" /\ e.session = sessionHash[d]
  BY DEF Request
<1> HIDE DEF e
<1>4. CASE x = d
  <2>1. dbQueue' = Append(dbQueue, e) /\ IsEnd(e, h)
    BY <1>1, <1>2, <1>3, <1>4 DEF IsEnd
  <2>2. QED
    BY <2>1, PushSettles
<1>5. CASE x # d
  <2>1. state[x] = "Disconnected"
    BY <1>1, <1>2, <1>5 DEF TypeOK, DeviceTypeOK
  <2>2. Settled(h) /\ ~IsAdd(e, h)
    BY <1>1, <1>3, <2>1, DisconnectedMeans DEF IsAdd
  <2>3. QED
    BY <1>2, <2>2, PushSettles, SettledMeans
<1>6. QED
  BY <1>4, <1>5

\* A session opened behind its end belongs to the device that opens it, which
\* is not disconnected then.
LEMMA SetSessionStep ==
    ASSUME OwnHashes, TypeOK, HashesOwned, DisconnectedSessionEnded,
           NEW d \in Devices, Device_doSetSession(d), sessions' = sessions
    PROVE  DisconnectedSessionEnded'
<1> DEFINE rq == Head(deviceQueue[d])
           e == Request("AddSession", NoClient, d, rq.session)
<1>1. SUFFICES ASSUME NEW x \in Devices, NEW h,
                      state'[x] = "Disconnected", sessionHash'[x] = h, h # NoHash
               PROVE  Settled(h)'
  BY DisconnectedMeans
<1>2. /\ deviceQueue[d] # <<>> /\ rq.action = "SetSession"
      /\ sessionHash' = [sessionHash EXCEPT ![d] = rq.session]
      /\ state' = [state EXCEPT ![d] = "SessionSet"]
      /\ dbQueue' = Append(dbQueue, e)
  BY DEF Device_doSetSession, DeviceHandles
<1>3. x # d /\ state[x] = "Disconnected" /\ sessionHash[x] = h
  BY <1>1, <1>2 DEF TypeOK, DeviceTypeOK
<1>4. rq.session \in Issues[d]
  <2>1. deviceQueue[d] \in Seq(RequestsOf(DeviceActions))
    BY DEF TypeOK, BaseTypeOK
  <2>2. 1 \in DOMAIN deviceQueue[d] /\ rq = deviceQueue[d][1]
    BY <1>2, <2>1
  <2>3. QED
    BY <1>2, <2>2 DEF HashesOwned, OwnIssues
<1>5. h \in Issues[x] /\ Settled(h)
  BY <1>1, <1>3, DisconnectedMeans DEF HashesOwned
<1>6. rq.session # h
  BY <1>3, <1>4, <1>5 DEF OwnHashes
<1>7. ~IsAdd(e, h)
  BY <1>6 DEF IsAdd, Request
<1> HIDE DEF e
<1>8. QED
  BY <1>2, <1>5, <1>7, PushSettles

LEMMA DeviceKeepsEnds ==
    ASSUME OwnHashes, TypeOK, HashesOwned, DisconnectedSessionEnded, NEW d \in Devices, DeviceStep(d)
    PROVE  DisconnectedSessionEnded'
<1>1. sessions' = sessions /\ DeviceHandler(d)
  BY DEF DeviceStep, dbVars
<1>2. \A s \in States : s # "Disconnected" /\ state' = [state EXCEPT ![d] = s]
          => \A x \in Devices : state'[x] = "Disconnected" => state[x] = "Disconnected"
  BY DEF TypeOK, DeviceTypeOK
<1>3. CASE Device_doConnect(d)
  <2>1. sessionHash' = sessionHash
    BY <1>3 DEF Device_doConnect, deviceVars
  <2>2. disconnect(d) \/ (state' = state /\ dbQueue' = dbQueue)
    BY <1>3 DEF Device_doConnect, deviceVars
  <2>3. QED
    BY <1>1, <2>1, <2>2, DisconnectStep, NeutralStep DEF Neutral
<1>4. CASE Device_doSendDescriptor(d)
  <2>1. sessionHash' = sessionHash /\ dbQueue' = dbQueue
    BY <1>4
    DEF Device_doSendDescriptor, NullDereference, updateState, EndsSession, queueVars, deviceVars
  <2>2. state' = state \/ state' = [state EXCEPT ![d] = "Connected"]
    BY <1>4 DEF Device_doSendDescriptor, NullDereference, updateState, deviceVars
  <2>3. QED
    BY <1>1, <1>2, <2>1, <2>2, NeutralStep DEF Neutral, States
<1>5. CASE Device_doSetSession(d)
  BY <1>1, <1>5, SetSessionStep
<1>6. CASE Device_doStartStream(d) \/ Device_doStopStream(d)
  <2>1. sessionHash' = sessionHash /\ dbQueue' = dbQueue
    BY <1>6 DEF Device_doStartStream, Device_doStopStream
  <2>2. state' = [state EXCEPT ![d] = "Collecting"] \/ state' = [state EXCEPT ![d] = "Idle"]
    BY <1>6 DEF Device_doStartStream, Device_doStopStream
  <2>3. QED
    BY <1>1, <1>2, <2>1, <2>2, NeutralStep DEF Neutral, States
<1>7. CASE Device_doProcessData(d)
  <2> DEFINE e == [Request("AddData", NoClient, NoDevice, sessionHash[d])
                     EXCEPT !.payload = Head(deviceQueue[d]).payload]
  <2>1. e.action = "AddData"
    BY DEF Request
  <2>2. state' = state /\ sessionHash' = sessionHash /\ dbQueue' = Append(dbQueue, e)
    BY <1>7 DEF Device_doProcessData, deviceVars
  <2> HIDE DEF e
  <2>3. Neutral
    BY <1>1, <2>1, <2>2 DEF Neutral
  <2>4. QED
    BY <2>3, NeutralStep
<1>8. CASE \/ Device_doConnectUnresolved(d) \/ Device_doRequestSession(d) \/ Device_doDisconnect(d)
           \/ Device_doStartCollecting(d) \/ Device_doStopCollecting(d) \/ Device_doStatus(d)
  <2>1. state' = state /\ sessionHash' = sessionHash /\ dbQueue' = dbQueue
    BY <1>8
    DEF Device_doConnectUnresolved, Device_doRequestSession, Device_doDisconnect, Device_doStartCollecting,
        Device_doStopCollecting, Device_doStatus, NullDereference, queueVars, deviceVars
  <2>2. QED
    BY <1>1, <2>1, NeutralStep DEF Neutral
<1>9. QED
  BY <1>1, <1>3, <1>4, <1>5, <1>6, <1>7, <1>8 DEF DeviceHandler

LEMMA DisconnectedStep ==
    ASSUME "query" \notin Faults, OwnHashes, TypeOK, NothingWithoutTables, HashesOwned,
           DisconnectedSessionEnded, [Next]_vars
    PROVE  DisconnectedSessionEnded'
<1>1. ASSUME NEW d \in Devices, DeviceStep(d)
      PROVE  DisconnectedSessionEnded'
  BY <1>1, DeviceKeepsEnds
<1>2. ASSUME NEW d \in Devices, ConnectionStep(d) \/ TickStep(d)
      PROVE  DisconnectedSessionEnded'
  <2>1. /\ state' = state /\ sessionHash' = sessionHash
        /\ dbQueue' = dbQueue /\ sessions' = sessions
    BY <1>2
    DEF ConnectionStep, ConnectionEvent, Connection_readSetSession, Connection_readData,
        Connection_readStatus, Connection_readFails, TickStep, Lane_tick, NullDereference,
        queueVars, deviceVars, dbVars
  <2>2. QED
    BY <2>1, NeutralStep DEF Neutral
<1>3. ASSUME NEW d \in Devices, FinalizeStep(d)
      PROVE  DisconnectedSessionEnded'
  BY <1>3, DisconnectStep DEF FinalizeStep, Connection_finalize, dbVars
<1>4. CASE DatabaseStep
  <2>1. SUFFICES ASSUME NEW d \in Devices, NEW h,
                        state'[d] = "Disconnected", sessionHash'[d] = h, h # NoHash
                 PROVE  Settled(h)'
    BY DisconnectedMeans
  <2>2. sessionHash[d] = h
    BY <1>4, <2>1 DEF DatabaseStep
  <2>3. state[d] = "Disconnected"
    <3>1. CASE DB_doLoadDevices
      BY <2>1, <3>1 DEF DB_doLoadDevices, addDevices
    <3>2. CASE ~DB_doLoadDevices
      BY <1>4, <2>1, <3>2
      DEF DatabaseStep, DatabaseHandler, DB_doCheckDatabase, DB_doInitDatabase, DB_doCleanSessions,
          DB_doGetDevices, DB_doGetSessions, DB_doAddDevice, DB_doRemoveDevice, DB_doAddSession,
          DB_doRemSession, DB_doEndSession, DB_doAddData
    <3>3. QED
      BY <3>1, <3>2
  <2>4. Settled(h)
    BY <2>1, <2>2, <2>3, DisconnectedMeans
  <2>5. QED
    BY <1>4, <2>4, DatabaseSettles
<1>5. CASE DispatcherStep
  <2>1. state' = state /\ sessionHash' = sessionHash /\ sessions' = sessions
    BY <1>5 DEF DispatcherStep, deviceVars, dbVars
  <2>2. CASE Dispatcher_toDatabase
    <3> DEFINE rq == Head(dispatcherQueue)
    <3>1. PICK a \in {"InitDatabase", "GetDevices", "GetSessions", "RemoveSession", "AddDevice",
                      "RemoveDevice"} :
             dispatcherQueue # <<>> /\ dbQueue' = Append(dbQueue, [rq EXCEPT !.action = DatabaseAction(a)])
      BY <2>2 DEF Dispatcher_toDatabase, DispatcherHandles
    <3>2. rq \in RequestsOf(DispatcherActions)
      BY <3>1, DispatcherHeadType DEF TypeOK
    <3>3. [rq EXCEPT !.action = DatabaseAction(a)].action = DatabaseAction(a)
      BY <3>2, RenamedAction
    <3>4. DatabaseAction(a) # "AddSession"
      BY DEF DatabaseAction
    <3>5. \E e : e.action # "AddSession" /\ dbQueue' = Append(dbQueue, e)
      BY <3>1, <3>3, <3>4
    <3>6. QED
      BY <2>1, <3>5, NeutralStep DEF Neutral
  <2>3. CASE ~Dispatcher_toDatabase
    <3>1. dbQueue' = dbQueue
      BY <1>5, <2>3
      DEF DispatcherStep, DispatcherHandler, Dispatcher_toDevice, Dispatcher_doQuitCollector,
          Dispatcher_doQuit, Dispatcher_doSendStatus, queueVars
    <3>2. QED
      BY <2>1, <3>1, NeutralStep DEF Neutral
  <2>4. QED
    BY <2>2, <2>3
<1>6. CASE ClientStep \/ Terminate \/ UNCHANGED vars
  <2>1. /\ state' = state /\ sessionHash' = sessionHash
        /\ dbQueue' = dbQueue /\ sessions' = sessions
    BY <1>6
    DEF ClientStep, ClientEvent, ControlClient_request, ControlClient_doRequestSession, Terminate, vars,
        queueVars, deviceVars, dbVars
  <2>2. QED
    BY <2>1, NeutralStep DEF Neutral
<1>7. CASE Restart
  BY <1>7 DEF Restart, DisconnectedSessionEnded
<1>8. QED
  BY <1>1, <1>2, <1>3, <1>4, <1>5, <1>6, <1>7 DEF Next

\* A device that is disconnected, however it lost its connection, has its
\* session ended or about to be, when queries succeed and monitors do not share
\* hashes.  A monitor may repeat its own.
THEOREM DisconnectedSessionSafe ==
    ASSUME "query" \notin Faults, OwnHashes
    PROVE  Spec => []DisconnectedSessionEnded
<1> DEFINE Inv == NothingWithoutTables /\ HashesOwned /\ DisconnectedSessionEnded
<1>1. Init => Inv
  <2>1. Init => /\ NothingWithoutTables
                /\ DisconnectedSessionEnded
    BY DEF Init, DatabaseInit, DeviceInit, NothingWithoutTables, DisconnectedSessionEnded
  <2>2. Init => HashesOwned
    BY DEF Init, DeviceInit, HashesOwned, OwnIssues
  <2>3. QED
    BY <2>1, <2>2
<1>2. TypeOK /\ Inv /\ [Next]_vars => Inv'
  BY TablesStep, HashesOwnedStep, DisconnectedStep
<1>3. Inv => DisconnectedSessionEnded
  OBVIOUS
<1> HIDE DEF Inv
<1>4. QED
  BY <1>1, <1>2, <1>3, TypeCorrect, PTL DEF Spec

-----------------------------------------------------------------------------
(* The session data is filed under.                                        *)
(*                                                                         *)
(* Data waits on the device's queue and then on the database's, and a new  *)
(* session may begin between any two of these steps.  It is filed right    *)
(* because the queues keep the order of the connection: the session a      *)
(* request of data is handled in is the one announced last before it.      *)

NoSession(q, i) == \A k \in 1..(i - 1) : q[k].action # "SetSession"

\* The session of a device with hash h when it has handled the requests before
\* the i-th of its queue is p.
InSession(q, h, i, p) ==
    /\ NoSession(q, i) => p = h
    /\ \A j \in 1..(i - 1) :
          (q[j].action = "SetSession" /\ \A k \in (j + 1)..(i - 1) : q[k].action # "SetSession")
              => p = q[j].session

\* Queued data is handled in the session it was collected for, and so is what
\* the monitor of session m sends next.
QueueInSession(q, h, m) ==
    /\ \A i \in 1..Len(q) :
          (q[i].action = "ProcessData" /\ q[i].payload # NoHash) => InSession(q, h, i, q[i].payload)
    /\ m # NoHash => InSession(q, h, Len(q) + 1, m)

DevicesInSession ==
    \A d \in Devices : QueueInSession(deviceQueue[d], sessionHash[d], monitorSession[d])

\* Data on its way to the database names the session it was collected for.
FiledIn(rq) == (rq.action = "AddData" /\ rq.payload # NoHash) => rq.session = rq.payload

QueueFiled == \A i \in DOMAIN dbQueue : FiledIn(dbQueue[i])

\* Rows refer to keys that were drawn, and a key belongs to one hash.
KeysDrawn ==
    /\ \A r \in sessions : r.id <= sessionSerial
    /\ \A x \in data : x.session <= sessionSerial
    /\ \A r, s \in sessions : r.id = s.id => r.hash = s.hash

LEMMA InSessionAppend ==
    ASSUME NEW S, NEW q \in Seq(S), NEW e, NEW h, NEW i \in 1..(Len(q) + 1), NEW p,
           InSession(q, h, i, p)
    PROVE  /\ InSession(Append(q, e), h, i, p)
           /\ i = Len(q) + 1 /\ e.action # "SetSession" => InSession(Append(q, e), h, i + 1, p)
<1> DEFINE s == Append(q, e)
           n == Len(q)
<1>1. /\ n \in Nat
      /\ \A k \in 1..n : s[k] = q[k]
      /\ s[n + 1] = e
  BY AppendShape
<1> HIDE DEF s, n
<1>2. i \in 1..(n + 1)
  BY DEF n
<1>3. \A k \in 1..(i - 1) : s[k] = q[k]
  BY <1>1, <1>2
<1>4. \A j \in 1..(i - 1) : \A k \in (j + 1)..(i - 1) : k \in 1..(i - 1)
  BY <1>1, <1>2
<1>5. InSession(s, h, i, p)
  BY <1>3, <1>4 DEF InSession, NoSession
<1>6. ASSUME i = n + 1, e.action # "SetSession"
      PROVE  InSession(s, h, i + 1, p)
  <2>1. (i + 1) - 1 = i /\ s[i] = e
    BY <1>1, <1>2, <1>6
  <2>2. \A k \in 1..(i - 1) : k \in 1..i
    BY <1>1, <1>2
  <2>3. \A j \in 1..i : j \in 1..(i - 1) \/ j = i
    BY <1>1, <1>2
  <2>4. \A j \in 1..(i - 1) : \A k \in (j + 1)..(i - 1) : k \in (j + 1)..i
    BY <1>1, <1>2
  <2>5. NoSession(s, i + 1) => p = h
    BY <1>5, <2>1, <2>2 DEF InSession, NoSession
  <2>6. ASSUME NEW j \in 1..i, s[j].action = "SetSession",
               \A k \in (j + 1)..i : s[k].action # "SetSession"
        PROVE  p = s[j].session
    BY <1>5, <1>6, <2>1, <2>3, <2>4, <2>6 DEF InSession
  <2>7. QED
    BY <2>1, <2>5, <2>6 DEF InSession
<1>7. QED
  BY <1>5, <1>6 DEF s, n

\* Once a SetSession is queued, what follows it is in its session.
LEMMA InSessionSet ==
    ASSUME NEW S, NEW q \in Seq(S), NEW e, NEW h, e.action = "SetSession"
    PROVE  InSession(Append(q, e), h, Len(q) + 2, e.session)
<1> DEFINE s == Append(q, e)
           n == Len(q)
<1>1. n \in Nat /\ s[n + 1] = e
  BY AppendShape
<1> HIDE DEF s, n
<1>2. (n + 2) - 1 = n + 1 /\ n + 1 \in 1..(n + 1)
  BY <1>1
<1>3. \A j \in 1..(n + 1) : j = n + 1 \/ n + 1 \in (j + 1)..(n + 1)
  BY <1>1
<1>4. ~NoSession(s, n + 2)
  BY <1>1, <1>2 DEF NoSession
<1>5. \A j \in 1..(n + 1) :
         (s[j].action = "SetSession" /\ \A k \in (j + 1)..(n + 1) : s[k].action # "SetSession")
             => e.session = s[j].session
  BY <1>1, <1>3
<1>6. InSession(s, h, n + 2, e.session)
  BY <1>2, <1>4, <1>5 DEF InSession
<1>7. QED
  BY <1>6 DEF s, n

SessionAfter(rq, h) == IF rq.action = "SetSession" THEN rq.session ELSE h

\* Handling the first request of a queue.
LEMMA InSessionTail ==
    ASSUME NEW S, NEW q \in Seq(S), q # <<>>, NEW h, NEW i \in 2..(Len(q) + 1), NEW p,
           InSession(q, h, i, p)
    PROVE  InSession(Tail(q), SessionAfter(Head(q), h), i - 1, p)
<1> DEFINE t == Tail(q)
           n == Len(q)
           g == SessionAfter(Head(q), h)
<1>1. /\ n \in Nat /\ n >= 1
      /\ Head(q) = q[1]
      /\ \A k \in 1..(n - 1) : t[k] = q[k + 1]
  OBVIOUS
<1> HIDE DEF t, n
<1>2. i \in 2..(n + 1)
  BY DEF n
<1>3. \A k \in 1..((i - 1) - 1) : t[k] = q[k + 1] /\ k + 1 \in 1..(i - 1)
  BY <1>1, <1>2
<1>4. NoSession(t, i - 1) => \A k \in 2..(i - 1) : q[k].action # "SetSession"
  <2>1. \A k \in 2..(i - 1) : k - 1 \in 1..((i - 1) - 1) /\ t[k - 1] = q[k]
    BY <1>1, <1>2
  <2>2. QED
    BY <2>1 DEF NoSession
<1>5. NoSession(t, i - 1) => p = g
  <2>1. CASE Head(q).action = "SetSession"
    <3>1. 1 \in 1..(i - 1) /\ 1 + 1 = 2
      BY <1>2
    <3>2. g = q[1].session /\ q[1].action = "SetSession"
      BY <1>1, <2>1 DEF SessionAfter
    <3>3. QED
      BY <1>4, <3>1, <3>2 DEF InSession
  <2>2. CASE Head(q).action # "SetSession"
    <3>1. g = h /\ q[1].action # "SetSession"
      BY <1>1, <2>2 DEF SessionAfter
    <3>2. \A k \in 1..(i - 1) : k = 1 \/ k \in 2..(i - 1)
      BY <1>2
    <3>3. NoSession(t, i - 1) => NoSession(q, i)
      BY <1>4, <3>1, <3>2 DEF NoSession
    <3>4. QED
      BY <3>1, <3>3 DEF InSession
  <2>3. QED
    BY <2>1, <2>2
<1> HIDE DEF g
<1>6. ASSUME NEW j \in 1..((i - 1) - 1), t[j].action = "SetSession",
             \A k \in (j + 1)..((i - 1) - 1) : t[k].action # "SetSession"
      PROVE  p = t[j].session
  <2>1. j + 1 \in 1..(i - 1) /\ t[j] = q[j + 1]
    BY <1>3
  <2>2. \A k \in ((j + 1) + 1)..(i - 1) : k - 1 \in (j + 1)..((i - 1) - 1) /\ t[k - 1] = q[k]
    BY <1>1, <1>2
  <2>3. \A k \in ((j + 1) + 1)..(i - 1) : q[k].action # "SetSession"
    BY <1>6, <2>2
  <2>4. QED
    BY <1>6, <2>1, <2>3 DEF InSession
<1>7. InSession(t, g, i - 1, p)
  BY <1>5, <1>6 DEF InSession
<1>8. QED
  BY <1>7 DEF t, g

LEMMA QueuePush ==
    ASSUME NEW S, NEW q \in Seq(S), NEW e, NEW h, NEW m, QueueInSession(q, h, m)
    PROVE  /\ e.action \notin FromMonitor => QueueInSession(Append(q, e), h, m)
           /\ e.action = "ProcessData" /\ e.payload = m => QueueInSession(Append(q, e), h, m)
           /\ e.action = "SetSession" => QueueInSession(Append(q, e), h, e.session)
<1> DEFINE s == Append(q, e)
           n == Len(q)
           Data(r, i) == r[i].action = "ProcessData" /\ r[i].payload # NoHash
<1>1. /\ n \in Nat
      /\ \A k \in 1..n : s[k] = q[k]
      /\ s[n + 1] = e
      /\ Len(s) = n + 1
  BY AppendShape
<1>2. /\ \A i \in 1..n : Data(q, i) => InSession(q, h, i, q[i].payload)
      /\ m # NoHash => InSession(q, h, n + 1, m)
  BY DEF QueueInSession
<1>3. \A i \in 1..(n + 1) : \A p :
         InSession(q, h, i, p)
             => /\ InSession(s, h, i, p)
                /\ i = n + 1 /\ e.action # "SetSession" => InSession(s, h, i + 1, p)
  BY InSessionAppend
<1>4. e.action = "SetSession" => InSession(s, h, n + 2, e.session)
  BY InSessionSet
<1> HIDE DEF s, n
<1>5. (n + 1) + 1 = n + 2 /\ n + 1 \in 1..(n + 1) /\ \A i \in 1..(n + 1) : i \in 1..n \/ i = n + 1
  BY <1>1
<1>6. \A i \in 1..n : i \in 1..(n + 1)
  BY <1>1
<1>7. \A i \in 1..n : Data(s, i) => InSession(s, h, i, s[i].payload)
  BY <1>1, <1>2, <1>3, <1>6
<1>8. m # NoHash => InSession(s, h, n + 1, m)
  BY <1>2, <1>3, <1>5
<1>9. e.action # "SetSession" /\ m # NoHash => InSession(s, h, n + 2, m)
  BY <1>2, <1>3, <1>5
<1>10. (e.action = "ProcessData" => e.payload = m)
          => \A i \in 1..(n + 1) : Data(s, i) => InSession(s, h, i, s[i].payload)
  BY <1>1, <1>5, <1>7, <1>8
<1> HIDE DEF Data
<1>11. \A x : QueueInSession(s, h, x)
                <=> /\ \A i \in 1..(n + 1) : Data(s, i) => InSession(s, h, i, s[i].payload)
                    /\ x # NoHash => InSession(s, h, n + 2, x)
  BY <1>1, <1>5 DEF QueueInSession, Data
<1>12. e.action \notin FromMonitor => QueueInSession(s, h, m)
  BY <1>9, <1>10, <1>11 DEF FromMonitor
<1>13. e.action = "ProcessData" /\ e.payload = m => QueueInSession(s, h, m)
  BY <1>9, <1>10, <1>11
<1>14. e.action = "SetSession" => QueueInSession(s, h, e.session)
  BY <1>4, <1>10, <1>11
<1>15. QED
  BY <1>12, <1>13, <1>14 DEF s

LEMMA QueuePop ==
    ASSUME NEW S, NEW q \in Seq(S), q # <<>>, NEW h, NEW m, QueueInSession(q, h, m)
    PROVE  QueueInSession(Tail(q), SessionAfter(Head(q), h), m)
<1> DEFINE t == Tail(q)
           n == Len(q)
           g == SessionAfter(Head(q), h)
<1>1. /\ n \in Nat /\ n >= 1
      /\ Len(t) = n - 1
      /\ \A k \in 1..(n - 1) : t[k] = q[k + 1]
  OBVIOUS
<1>2. \A i \in 2..(n + 1) : \A p : InSession(q, h, i, p) => InSession(t, g, i - 1, p)
  BY InSessionTail
<1>3. /\ \A i \in 1..n :
             (q[i].action = "ProcessData" /\ q[i].payload # NoHash) => InSession(q, h, i, q[i].payload)
      /\ m # NoHash => InSession(q, h, n + 1, m)
  BY DEF QueueInSession
<1> HIDE DEF t, n, g
<1>4. \A i \in 1..(n - 1) : i + 1 \in 1..n /\ i + 1 \in 2..(n + 1) /\ (i + 1) - 1 = i
  BY <1>1
<1>5. n + 1 \in 2..(n + 1) /\ (n + 1) - 1 = (n - 1) + 1
  BY <1>1
<1>6. ASSUME NEW i \in 1..(n - 1), t[i].action = "ProcessData", t[i].payload # NoHash
      PROVE  InSession(t, g, i, t[i].payload)
  BY <1>1, <1>2, <1>3, <1>4, <1>6
<1>7. m # NoHash => InSession(t, g, (n - 1) + 1, m)
  BY <1>2, <1>3, <1>5
<1>8. QueueInSession(t, g, m)
  BY <1>1, <1>6, <1>7 DEF QueueInSession
<1>9. QED
  BY <1>8 DEF t, g

\* A device's handler gives the device the hash of the SetSession it pops, and
\* no other.
LEMMA DeviceStepSession ==
    ASSUME TypeOK, NEW d \in Devices, DeviceStep(d)
    PROVE  /\ monitorSession' = monitorSession
           /\ Device_doSetSession(d) \/ sessionHash' = sessionHash
           /\ \/ deviceQueue' = deviceQueue /\ sessionHash' = sessionHash
              \/ \A x \in Devices :
                    sessionHash'[x] = IF x = d THEN SessionAfter(Head(deviceQueue[d]), sessionHash[d])
                                               ELSE sessionHash[x]
<1> DEFINE head == Head(deviceQueue[d])
<1>1. CASE Device_doSetSession(d)
  BY <1>1 DEF Device_doSetSession, DeviceHandles, SessionAfter, monitorVars, TypeOK, DeviceTypeOK
<1>2. CASE ~Device_doSetSession(d)
  <2>1. monitorSession' = monitorSession /\ sessionHash' = sessionHash
    BY <1>2
    DEF DeviceStep, DeviceHandler, Device_doConnect, Device_doConnectUnresolved, Device_doSendDescriptor,
        Device_doRequestSession, Device_doDisconnect, Device_doStartStream, Device_doStopStream,
        Device_doStartCollecting, Device_doStopCollecting, Device_doProcessData, Device_doStatus,
        NullDereference, deviceVars, monitorVars
  <2>2. deviceQueue' = deviceQueue \/ head.action # "SetSession"
    BY <1>2
    DEF DeviceStep, DeviceHandler, Device_doConnect, Device_doConnectUnresolved, Device_doSendDescriptor,
        Device_doRequestSession, Device_doDisconnect, Device_doStartStream, Device_doStopStream,
        Device_doStartCollecting, Device_doStopCollecting, Device_doProcessData, Device_doStatus,
        NullDereference, DeviceHandles, queueVars
  <2>3. QED
    BY <2>1, <2>2 DEF SessionAfter
<1>3. QED
  BY <1>1, <1>2

\* One device changes, and keeps to its session.
LEMMA OneInSession ==
    ASSUME DevicesInSession, NEW d \in Devices, NEW q, NEW h, NEW m, QueueInSession(q, h, m),
           \A x \in Devices :
               /\ deviceQueue'[x] = IF x = d THEN q ELSE deviceQueue[x]
               /\ sessionHash'[x] = IF x = d THEN h ELSE sessionHash[x]
               /\ monitorSession'[x] = IF x = d THEN m ELSE monitorSession[x]
    PROVE  DevicesInSession'
<1>1. ASSUME NEW x \in Devices
      PROVE  QueueInSession(deviceQueue'[x], sessionHash'[x], monitorSession'[x])
  BY DEF DevicesInSession
<1>2. QED
  BY <1>1 DEF DevicesInSession

\* The dispatcher sends a device nothing a monitor sends.
LEMMA DispatcherPushes ==
    ASSUME TypeOK, DispatcherStep
    PROVE  \/ deviceQueue' = deviceQueue
           \/ \E d \in Devices : \E e : /\ e.action \notin FromMonitor
                                       /\ deviceQueue' = [deviceQueue EXCEPT ![d] = Append(@, e)]
<1> DEFINE rq == Head(dispatcherQueue)
<1>1. CASE Dispatcher_toDevice /\ deviceQueue' # deviceQueue
  <2>1. PICK a \in {"ConnectDevice", "DisconnectDevice", "StartCollecting", "StopCollecting"} :
           /\ Manages(rq.device)
           /\ deviceQueue' = [deviceQueue EXCEPT ![rq.device] =
                                Append(@, [rq EXCEPT !.action = DeviceAction(a)])]
    BY <1>1 DEF Dispatcher_toDevice
  <2>2. rq \in RequestsOf(DispatcherActions)
    BY <1>1, DispatcherHeadType DEF Dispatcher_toDevice, DispatcherHandles, TypeOK
  <2>3. [rq EXCEPT !.action = DeviceAction(a)].action = DeviceAction(a)
    BY <2>2, RenamedAction
  <2>4. DeviceAction(a) \notin FromMonitor
    BY DEF DeviceAction, FromMonitor
  <2>5. rq.device \in Devices
    BY <2>1 DEF Manages, TypeOK, ManagerTypeOK
  <2> DEFINE d == rq.device
             e == [rq EXCEPT !.action = DeviceAction(a)]
  <2>6. d \in Devices /\ e.action \notin FromMonitor
        /\ deviceQueue' = [deviceQueue EXCEPT ![d] = Append(@, e)]
    BY <2>1, <2>3, <2>4, <2>5
  <2> HIDE DEF d, e
  <2>7. QED
    BY <2>6, Zenon
<1>2. CASE ~Dispatcher_toDevice
  BY <1>2
  DEF DispatcherStep, DispatcherHandler, Dispatcher_toDatabase, Dispatcher_doQuitCollector,
      Dispatcher_doQuit, Dispatcher_doSendStatus, queueVars
<1>3. QED
  BY <1>1, <1>2

LEMMA DevicesInSessionStep ==
    ASSUME TypeOK, DevicesInSession, [Next]_vars
    PROVE  DevicesInSession'
<1> DEFINE S == RequestsOf(DeviceActions)
<1>1. /\ deviceQueue \in [Devices -> Seq(S)]
      /\ sessionHash \in [Devices -> Hashes \cup {NoHash}]
      /\ monitorSession \in [Devices -> Hashes \cup {NoHash}]
  BY DEF TypeOK, BaseTypeOK, DeviceTypeOK
<1>2. ASSUME deviceQueue' = deviceQueue, sessionHash' = sessionHash, monitorSession' = monitorSession
      PROVE  DevicesInSession'
  BY <1>2 DEF DevicesInSession
\* A request pushed by another component, or a message the connection reads.
<1>3. ASSUME NEW d \in Devices, NEW e, NEW m,
             sessionHash' = sessionHash,
             deviceQueue' = [deviceQueue EXCEPT ![d] = Append(@, e)],
             monitorSession' = [monitorSession EXCEPT ![d] = m],
             \/ e.action \notin FromMonitor /\ m = monitorSession[d]
             \/ e.action = "ProcessData" /\ e.payload = monitorSession[d] /\ m = monitorSession[d]
             \/ e.action = "SetSession" /\ m = e.session
      PROVE  DevicesInSession'
  <2>1. QueueInSession(deviceQueue[d], sessionHash[d], monitorSession[d])
    BY DEF DevicesInSession
  <2>2. QueueInSession(Append(deviceQueue[d], e), sessionHash[d], m)
    BY <1>1, <1>3, <2>1, QueuePush
  <2>3. ASSUME NEW x \in Devices
        PROVE  /\ deviceQueue'[x] = IF x = d THEN Append(deviceQueue[d], e) ELSE deviceQueue[x]
               /\ sessionHash'[x] = IF x = d THEN sessionHash[d] ELSE sessionHash[x]
               /\ monitorSession'[x] = IF x = d THEN m ELSE monitorSession[x]
    BY <1>1, <1>3
  <2>4. QED
    BY <2>2, <2>3, OneInSession
<1>4. ASSUME NEW d \in Devices, DeviceStep(d)
      PROVE  DevicesInSession'
  <2>1. QueueInSession(deviceQueue[d], sessionHash[d], monitorSession[d])
    BY DEF DevicesInSession
  <2>2. CASE deviceQueue' = deviceQueue /\ sessionHash' = sessionHash
    BY <1>2, <1>4, <2>2, DeviceStepSession
  <2>3. ASSUME NEW rqs, deviceQueue[d] # <<>>, deviceQueue' = PopDevice(d, rqs),
               rqs = <<>> \/ \E e : e.action \notin FromMonitor /\ rqs = <<e>>
        PROVE  DevicesInSession'
    <3> DEFINE q == deviceQueue[d]
               t == Tail(q)
               g == SessionAfter(Head(q), sessionHash[d])
    <3>1. t \in Seq(S) /\ QueueInSession(t, g, monitorSession[d])
      BY <1>1, <2>1, <2>3, QueuePop
    <3>2. t \o <<>> = t
      BY <3>1, ConcatEmptySeq
    <3>3. ASSUME NEW e
          PROVE  t \o <<e>> = Append(t, e)
      <4>1. t \in Seq(S \cup {e}) /\ e \in S \cup {e}
        BY <3>1, SeqMonotonic
      <4>2. QED
        BY <4>1, AppendIsConcat
    <3>4. QueueInSession(t \o rqs, g, monitorSession[d])
      <4>1. CASE rqs = <<>>
        BY <3>1, <3>2, <4>1
      <4>2. ASSUME NEW e, e.action \notin FromMonitor, rqs = <<e>>
            PROVE  QueueInSession(t \o rqs, g, monitorSession[d])
        <5>1. QueueInSession(Append(t, e), g, monitorSession[d])
          BY <3>1, <4>2, QueuePush
        <5>2. QED
          BY <3>3, <4>2, <5>1
      <4>3. QED
        BY <2>3, <4>1, <4>2
    <3>5. deviceQueue' = deviceQueue \/ \A x \in Devices :
             sessionHash'[x] = IF x = d THEN g ELSE sessionHash[x]
      BY <1>4, DeviceStepSession
    <3>6. monitorSession' = monitorSession
      BY <1>4, DeviceStepSession
    <3>7. \A x \in Devices : deviceQueue'[x] = IF x = d THEN t \o rqs ELSE deviceQueue[x]
      BY <1>1, <2>3 DEF PopDevice
    <3> HIDE DEF t, g
    <3>8. CASE \A x \in Devices : sessionHash'[x] = IF x = d THEN g ELSE sessionHash[x]
      <4>1. \A x \in Devices : monitorSession'[x] = IF x = d THEN monitorSession[d] ELSE monitorSession[x]
        BY <3>6
      <4>2. QED
        BY <3>4, <3>7, <3>8, <4>1, OneInSession
    <3>9. QED
      BY <2>2, <1>4, <3>8, DeviceStepSession DEF g
  <2>4. CASE Device_doSetSession(d)
    <3>1. /\ deviceQueue[d] # <<>>
          /\ deviceQueue' = PopDevice(d, <<Internal("StartStream")>>)
      BY <2>4 DEF Device_doSetSession, DeviceHandles
    <3>2. Internal("StartStream").action \notin FromMonitor
      BY DEF Internal, Request, FromMonitor
    <3>3. QED
      BY <2>3, <3>1, <3>2
  <2>5. CASE ~Device_doSetSession(d)
    <3>1. sessionHash' = sessionHash
      BY <1>4, <2>5, DeviceStepSession
    <3>2. ASSUME NEW e, e.action \notin FromMonitor, deviceQueue[d] # <<>>, deviceQueue' = PopDevice(d, <<e>>)
          PROVE  DevicesInSession'
      BY <2>3, <3>2
    <3>3. QED
      BY <1>4, <2>2, <2>3, <3>1, <3>2, DeviceStepQueue
  <2>6. QED
    BY <2>4, <2>5
<1>5. ASSUME NEW d \in Devices, ConnectionStep(d)
      PROVE  DevicesInSession'
  <2>1. sessionHash' = sessionHash
    BY <1>5
    DEF ConnectionStep, ConnectionEvent, Connection_readSetSession, Connection_readData,
        Connection_readStatus, Connection_readFails, deviceVars
  <2>2. [monitorSession EXCEPT ![d] = monitorSession[d]] = monitorSession
    BY <1>1
  <2>3. ASSUME NEW h \in Issues[d], Connection_readSetSession(d, h)
        PROVE  DevicesInSession'
    <3> DEFINE e == Request("SetSession", NoClient, d, h)
    <3>1. e.action = "SetSession" /\ e.session = h
      BY DEF Request
    <3>2. /\ deviceQueue' = [deviceQueue EXCEPT ![d] = Append(@, e)]
          /\ monitorSession' = [monitorSession EXCEPT ![d] = h]
      BY <2>3 DEF Connection_readSetSession, Pushed
    <3> HIDE DEF e
    <3>3. QED
      BY <1>3, <2>1, <3>1, <3>2
  <2>4. CASE Connection_readData(d)
    <3> DEFINE e == [Internal("ProcessData") EXCEPT !.payload = monitorSession[d]]
    <3>1. e.action = "ProcessData" /\ e.payload = monitorSession[d]
      BY DEF Internal, Request
    <3>2. /\ deviceQueue' = [deviceQueue EXCEPT ![d] = Append(@, e)]
          /\ monitorSession' = [monitorSession EXCEPT ![d] = monitorSession[d]]
      BY <2>2, <2>4 DEF Connection_readData, Pushed
    <3> HIDE DEF e
    <3>3. QED
      BY <1>3, <2>1, <3>1, <3>2
  <2>5. CASE Connection_readStatus(d)
    <3> DEFINE e == Internal("Status")
    <3>1. e.action \notin FromMonitor
      BY DEF Internal, Request, FromMonitor
    <3>2. /\ deviceQueue' = [deviceQueue EXCEPT ![d] = Append(@, e)]
          /\ monitorSession' = [monitorSession EXCEPT ![d] = monitorSession[d]]
      BY <2>2, <2>5 DEF Connection_readStatus, Pushed
    <3> HIDE DEF e
    <3>3. QED
      BY <1>3, <2>1, <3>1, <3>2
  <2>6. CASE Connection_readFails(d)
    BY <1>2, <2>1, <2>6 DEF Connection_readFails, queueVars, monitorVars
  <2>7. QED
    BY <1>5, <2>3, <2>4, <2>5, <2>6 DEF ConnectionStep, ConnectionEvent
<1>6. ASSUME NEW d \in Devices, FinalizeStep(d)
      PROVE  DevicesInSession'
  <2>1. /\ deviceQueue' = deviceQueue /\ sessionHash' = sessionHash
        /\ monitorSession' = [monitorSession EXCEPT ![d] = NoHash]
    BY <1>6 DEF FinalizeStep, Connection_finalize
  <2>2. QueueInSession(deviceQueue[d], sessionHash[d], NoHash)
    BY DEF DevicesInSession, QueueInSession
  <2>3. ASSUME NEW x \in Devices
        PROVE  /\ deviceQueue'[x] = IF x = d THEN deviceQueue[d] ELSE deviceQueue[x]
               /\ sessionHash'[x] = IF x = d THEN sessionHash[d] ELSE sessionHash[x]
               /\ monitorSession'[x] = IF x = d THEN NoHash ELSE monitorSession[x]
    BY <1>1, <2>1
  <2>4. QED
    BY <2>2, <2>3, OneInSession
<1>7. ASSUME NEW d \in Devices, TickStep(d)
      PROVE  DevicesInSession'
  BY <1>2, <1>7 DEF TickStep, Lane_tick, NullDereference, queueVars, deviceVars, monitorVars
<1>8. CASE DatabaseStep
  BY <1>2, <1>8
  DEF DatabaseStep, DatabaseHandler, DB_doCheckDatabase, DB_doInitDatabase, DB_doLoadDevices,
      DB_doCleanSessions, DB_doGetDevices, DB_doGetSessions, DB_doAddDevice, DB_doRemoveDevice,
      DB_doAddSession, DB_doRemSession, DB_doEndSession, DB_doAddData, monitorVars
<1>9. CASE DispatcherStep
  <2>1. sessionHash' = sessionHash /\ monitorSession' = monitorSession
    BY <1>9 DEF DispatcherStep, deviceVars, monitorVars
  <2>2. ASSUME NEW d \in Devices, NEW e, e.action \notin FromMonitor,
               deviceQueue' = [deviceQueue EXCEPT ![d] = Append(@, e)]
        PROVE  DevicesInSession'
    <3>1. monitorSession' = [monitorSession EXCEPT ![d] = monitorSession[d]]
      BY <1>1, <2>1
    <3>2. QED
      BY <1>3, <2>1, <2>2, <3>1
  <2>3. QED
    BY <1>2, <1>9, <2>1, <2>2, DispatcherPushes
<1>10. CASE ClientStep \/ Terminate \/ UNCHANGED vars
  BY <1>2, <1>10
  DEF ClientStep, ClientEvent, ControlClient_request, ControlClient_doRequestSession, Terminate, vars,
      queueVars, deviceVars, monitorVars
<1>11. CASE Restart
  <2>1. /\ deviceQueue' = [d \in Devices |-> <<>>]
        /\ monitorSession' = [d \in Devices |-> NoHash]
    BY <1>11 DEF Restart
  <2>2. QED
    BY <2>1 DEF DevicesInSession, QueueInSession
<1>12. QED
  BY <1>4, <1>5, <1>6, <1>7, <1>8, <1>9, <1>10, <1>11 DEF Next

LEMMA BootFiled ==
    ASSUME NEW opened, NEW erase
    PROVE  LET q == BootDatabaseQueue(opened, erase) IN \A i \in DOMAIN q : FiledIn(q[i])
<1> DEFINE check == Internal("CheckDatabase")
           init == [Internal("InitDatabase") EXCEPT !.arg = "forced"]
           first == <<check, loadDevices, cleanSessions>>
           S == {check, loadDevices, cleanSessions, init}
           q == BootDatabaseQueue(opened, erase)
<1>1. FiledIn(check) /\ FiledIn(loadDevices) /\ FiledIn(cleanSessions) /\ FiledIn(init)
  BY DEF FiledIn, loadDevices, cleanSessions, Internal, Request
<1>2. q \in {<<>>, first \o <<>>, first \o <<init>>}
  BY DEF BootDatabaseQueue
<1> HIDE DEF check, init
<1>3. first \in Seq(S) /\ <<init>> \in Seq(S) /\ <<>> \in Seq(S)
  <2>1. \A x, y, z \in S : <<x, y, z>> \in Seq(S)
    OBVIOUS
  <2>2. QED
    BY <2>1
<1>4. \A x \in S : FiledIn(x)
  BY <1>1
<1> HIDE DEF first, S, q
<1>5. q \in Seq(S)
  <2>1. \A x, y \in Seq(S) : x \o y \in Seq(S)
    OBVIOUS
  <2>2. QED
    BY <1>2, <1>3, <2>1
<1>6. \A i \in DOMAIN q : q[i] \in S
  BY <1>5
<1>7. QED
  BY <1>4, <1>6 DEF q

\* Requests of the clients are no data.
LEMMA ForwardedNoData ==
    ASSUME TypeOK, Dispatcher_toDatabase
    PROVE  \E e : FiledIn(e) /\ dbQueue' = Append(dbQueue, e)
<1> DEFINE rq == Head(dispatcherQueue)
<1>1. PICK a \in {"InitDatabase", "GetDevices", "GetSessions", "RemoveSession", "AddDevice", "RemoveDevice"} :
         dispatcherQueue # <<>> /\ dbQueue' = Append(dbQueue, [rq EXCEPT !.action = DatabaseAction(a)])
  BY DEF Dispatcher_toDatabase, DispatcherHandles
<1>2. rq \in RequestsOf(DispatcherActions)
  BY <1>1, DispatcherHeadType DEF TypeOK
<1>3. [rq EXCEPT !.action = DatabaseAction(a)].action = DatabaseAction(a)
  BY <1>2, RenamedAction
<1>4. DatabaseAction(a) # "AddData"
  BY DEF DatabaseAction
<1>5. FiledIn([rq EXCEPT !.action = DatabaseAction(a)])
  BY <1>3, <1>4 DEF FiledIn
<1>6. QED
  BY <1>1, <1>5

LEMMA UpdateStateFiled ==
    ASSUME NEW d, NEW s, updateState(d, s)
    PROVE  dbQueue' = dbQueue \/ \E e : FiledIn(e) /\ dbQueue' = Append(dbQueue, e)
<1>1. FiledIn(Request("EndSession", NoClient, NoDevice, sessionHash[d]))
  BY DEF FiledIn, Request
<1>2. QED
  BY <1>1 DEF updateState

\* A device files its data under the session it is in.
LEMMA DeviceFiles ==
    ASSUME TypeOK, DevicesInSession, NEW d \in Devices, DeviceStep(d)
    PROVE  dbQueue' = dbQueue \/ \E e : FiledIn(e) /\ dbQueue' = Append(dbQueue, e)
<1> DEFINE Goal == dbQueue' = dbQueue \/ \E e : FiledIn(e) /\ dbQueue' = Append(dbQueue, e)
<1>1. CASE Device_doProcessData(d)
  <2> DEFINE q == deviceQueue[d]
             rq == Head(q)
             e == [Request("AddData", NoClient, NoDevice, sessionHash[d]) EXCEPT !.payload = rq.payload]
  <2>1. /\ q \in Seq(RequestsOf(DeviceActions)) /\ q # <<>>
        /\ rq.action = "ProcessData"
        /\ dbQueue' = Append(dbQueue, e)
    BY <1>1 DEF Device_doProcessData, DeviceHandles, TypeOK, BaseTypeOK
  <2>2. 1 \in 1..Len(q) /\ rq = q[1]
    BY <2>1
  <2>3. rq.payload # NoHash => InSession(q, sessionHash[d], 1, rq.payload)
    BY <2>1, <2>2 DEF DevicesInSession, QueueInSession
  <2>4. NoSession(q, 1)
    BY DEF NoSession
  <2>5. rq.payload # NoHash => rq.payload = sessionHash[d]
    BY <2>3, <2>4 DEF InSession
  <2>6. e.session = sessionHash[d] /\ e.payload = rq.payload
    BY DEF Request
  <2>7. FiledIn(e)
    BY <2>5, <2>6 DEF FiledIn
  <2>8. QED
    BY <2>1, <2>7
<1>2. CASE Device_doConnect(d)
  <2>1. CASE disconnect(d)
    BY <2>1, UpdateStateFiled DEF disconnect
  <2>2. CASE ~disconnect(d)
    BY <1>2, <2>2 DEF Device_doConnect
  <2>3. QED
    BY <2>1, <2>2
<1>3. CASE Device_doSendDescriptor(d)
  BY <1>3, UpdateStateFiled DEF Device_doSendDescriptor, NullDereference, queueVars
<1>4. CASE Device_doSetSession(d)
  <2>1. FiledIn(Request("AddSession", NoClient, d, Head(deviceQueue[d]).session))
    BY DEF FiledIn, Request
  <2>2. QED
    BY <1>4, <2>1 DEF Device_doSetSession
<1>5. CASE ~(Device_doProcessData(d) \/ Device_doConnect(d) \/ Device_doSendDescriptor(d) \/ Device_doSetSession(d))
  BY <1>5
  DEF DeviceStep, DeviceHandler, Device_doConnectUnresolved, Device_doRequestSession, Device_doDisconnect,
      Device_doStartStream, Device_doStopStream, Device_doStartCollecting, Device_doStopCollecting,
      Device_doStatus, NullDereference, queueVars
<1>6. QED
  BY <1>1, <1>2, <1>3, <1>4, <1>5

LEMMA QueueFiledStep ==
    ASSUME TypeOK, DevicesInSession, QueueFiled, [Next]_vars
    PROVE  QueueFiled'
<1> DEFINE S == RequestsOf(DatabaseActions)
<1>1. dbQueue \in Seq(S)
  BY DEF TypeOK, BaseTypeOK
<1>2. CASE dbQueue' = dbQueue
  BY <1>2 DEF QueueFiled
<1>3. ASSUME NEW e, FiledIn(e), dbQueue' = Append(dbQueue, e)
      PROVE  QueueFiled'
  <2>1. /\ DOMAIN dbQueue = 1..Len(dbQueue)
        /\ DOMAIN dbQueue' = 1..(Len(dbQueue) + 1)
        /\ \A i \in 1..Len(dbQueue) : dbQueue'[i] = dbQueue[i]
        /\ dbQueue'[Len(dbQueue) + 1] = e
        /\ Len(dbQueue) \in Nat
    BY <1>1, <1>3, AppendShape
  <2>2. \A i \in DOMAIN dbQueue' : i \in 1..Len(dbQueue) \/ i = Len(dbQueue) + 1
    BY <2>1
  <2>3. \A i \in DOMAIN dbQueue' : FiledIn(dbQueue'[i])
    BY <1>3, <2>1, <2>2 DEF QueueFiled
  <2>4. QED
    BY <2>3 DEF QueueFiled
<1>4. ASSUME NEW d \in Devices, DeviceStep(d)
      PROVE  QueueFiled'
  BY <1>2, <1>3, <1>4, DeviceFiles
<1>5. ASSUME NEW d \in Devices, ConnectionStep(d) \/ TickStep(d)
      PROVE  QueueFiled'
  BY <1>2, <1>5
  DEF ConnectionStep, ConnectionEvent, Connection_readSetSession, Connection_readData,
      Connection_readStatus, Connection_readFails, TickStep, Lane_tick, NullDereference, queueVars
<1>6. ASSUME NEW d \in Devices, FinalizeStep(d)
      PROVE  QueueFiled'
  BY <1>2, <1>3, <1>6, UpdateStateFiled DEF FinalizeStep, Connection_finalize, disconnect
<1>7. CASE DatabaseStep
  <2>1. PICK rqs \in Seq(S) : dbQueue' = Tail(dbQueue) \o rqs /\ OwnRequests(rqs)
    BY <1>7, DatabasePushes
  <2> DEFINE n == Len(dbQueue) - 1
  <2>2. /\ Len(rqs) \in Nat /\ n \in Nat
        /\ DOMAIN dbQueue = 1..(n + 1) /\ DOMAIN rqs = 1..Len(rqs)
        /\ DOMAIN dbQueue' = 1..(n + Len(rqs))
        /\ \A i \in 1..(n + Len(rqs)) : dbQueue'[i] = IF i <= n THEN dbQueue[i + 1] ELSE rqs[i - n]
    BY <1>1, <1>7, <2>1, DatabaseQueueHead, PopShape
  <2> HIDE DEF n
  <2>3. ASSUME NEW i \in DOMAIN dbQueue'
        PROVE  FiledIn(dbQueue'[i])
    <3>1. CASE i <= n
      <4>1. i + 1 \in DOMAIN dbQueue /\ dbQueue'[i] = dbQueue[i + 1]
        BY <2>2, <2>3, <3>1
      <4>2. QED
        BY <4>1 DEF QueueFiled
    <3>2. CASE ~(i <= n)
      <4>1. i - n \in DOMAIN rqs /\ dbQueue'[i] = rqs[i - n]
        BY <2>2, <2>3, <3>2
      <4>2. QED
        BY <2>1, <4>1 DEF OwnRequests, FiledIn
    <3>3. QED
      BY <3>1, <3>2
  <2>4. QED
    BY <2>3 DEF QueueFiled
<1>8. CASE DispatcherStep
  <2>1. CASE Dispatcher_toDatabase
    BY <1>3, <2>1, ForwardedNoData
  <2>2. CASE ~Dispatcher_toDatabase
    BY <1>2, <1>8, <2>2
    DEF DispatcherStep, DispatcherHandler, Dispatcher_toDevice, Dispatcher_doQuitCollector,
        Dispatcher_doQuit, Dispatcher_doSendStatus, queueVars
  <2>3. QED
    BY <2>1, <2>2
<1>9. CASE ClientStep \/ Terminate \/ UNCHANGED vars
  BY <1>2, <1>9
  DEF ClientStep, ClientEvent, ControlClient_request, ControlClient_doRequestSession, Terminate, vars, queueVars
<1>10. CASE Restart
  <2>1. PICK opened, erase : dbQueue' = BootDatabaseQueue(opened, erase)
    BY <1>10 DEF Restart
  <2>2. QED
    BY <2>1, BootFiled DEF QueueFiled
<1>11. QED
  BY <1>4, <1>5, <1>6, <1>7, <1>8, <1>9, <1>10 DEF Next

\* The rows keep their keys and hashes: what every query but three does.
LEMMA RowsKept ==
    ASSUME KeysDrawn, DataAttribution, data' \subseteq data, sessionSerial' = sessionSerial,
           \A r \in sessions' : \E s \in sessions : s.id = r.id /\ s.hash = r.hash
    PROVE  (KeysDrawn /\ DataAttribution)'
<1>1. KeysDrawn'
  BY DEF KeysDrawn
<1>2. DataAttribution'
  BY DEF DataAttribution
<1>3. QED
  BY <1>1, <1>2

LEMMA RowsStep ==
    ASSUME Backend = "pqsql", TypeOK, QueueFiled, KeysDrawn, DataAttribution, [Next]_vars
    PROVE  (KeysDrawn /\ DataAttribution)'
<1>1. sessionSerial \in Nat /\ sessions \subseteq SessionRows /\ data \subseteq DataRows
  BY DEF TypeOK, DatabaseTypeOK
<1>2. \A gone : DataWithout(gone) \subseteq data
  BY DEF DataWithout
<1>3. CASE DB_doInitDatabase
  <2>1. CASE sessions' = {} /\ data' = {}
    BY <2>1 DEF KeysDrawn, DataAttribution
  <2>2. CASE UNCHANGED <<sessions, data, sessionSerial>>
    BY <2>2, RowsKept
  <2>3. QED
    BY <1>3, <2>1, <2>2 DEF DB_doInitDatabase
<1>4. CASE DB_doAddSession
  <2> DEFINE h == Head(dbQueue).session
  <2>1. PICK left, d, ok : /\ left \subseteq sessions
                           /\ data' \subseteq data
                           /\ InsertSession(h, d, left, ok)
    BY <1>2, <1>4 DEF DB_doAddSession
  <2>2. CASE sessions' = left /\ sessionSerial' = sessionSerial
    BY <2>1, <2>2, RowsKept
  <2>3. ASSUME NEW x, x.id = sessionSerial + 1, sessions' = left \cup {x}, sessionSerial' = sessionSerial + 1
        PROVE  (KeysDrawn /\ DataAttribution)'
    <3>1. \A r \in left : r.id \in Nat /\ r.id <= sessionSerial
      BY <1>1, <2>1 DEF KeysDrawn, SessionRows
    <3>2. \A y \in data' : y.session \in Nat /\ y.session <= sessionSerial
      BY <1>1, <2>1 DEF KeysDrawn, DataRows
    <3>3. /\ \A k \in Nat : k <= sessionSerial => k <= sessionSerial + 1 /\ k # sessionSerial + 1
          /\ sessionSerial + 1 <= sessionSerial + 1
      BY <1>1
    <3>4. KeysDrawn'
      <4>1. \A r \in sessions' : r.id <= sessionSerial'
        BY <2>3, <3>1, <3>3
      <4>2. \A y \in data' : y.session <= sessionSerial'
        BY <2>3, <3>2, <3>3
      <4>3. \A r, s \in sessions' : r.id = s.id => r.hash = s.hash
        BY <2>1, <2>3, <3>1, <3>3 DEF KeysDrawn
      <4>4. QED
        BY <4>1, <4>2, <4>3 DEF KeysDrawn
    <3>5. DataAttribution'
      BY <2>1, <2>3, <3>2, <3>3 DEF DataAttribution
    <3>6. QED
      BY <3>4, <3>5
  <2>4. CASE \E k \in NewKeys(left, sessionSerial), r \in SubSelect(DevicesOf(d)) :
                /\ sessions' = left \cup {[id |-> k, hash |-> h, device |-> r.id,
                                           ended |-> FALSE, started |-> epoch]}
                /\ sessionSerial' = k
    <3>1. NewKeys(left, sessionSerial) = {sessionSerial + 1}
      BY DEF NewKeys
    <3>2. PICK r : /\ sessions' = left \cup {[id |-> sessionSerial + 1, hash |-> h, device |-> r.id,
                                              ended |-> FALSE, started |-> epoch]}
                   /\ sessionSerial' = sessionSerial + 1
      BY <2>4, <3>1
    <3>3. QED
      BY <2>3, <3>2
  <2>5. QED
    BY <2>1, <2>2, <2>4 DEF InsertSession
<1>5. CASE DB_doAddData
  <2> DEFINE rq == Head(dbQueue)
  <2>1. /\ dbQueue # <<>> /\ rq.action = "AddData"
        /\ sessions' = sessions /\ sessionSerial' = sessionSerial
        /\ \/ data' = data
           \/ \E r \in SubSelect(SessionsOf(rq.session) \cap OpenSessions) :
                 data' = data \cup {[session |-> r.id, payload |-> rq.payload]}
    BY <1>5 DEF DB_doAddData, DatabaseHandles
  <2>2. FiledIn(rq)
    <3>1. 1 \in DOMAIN dbQueue /\ rq = dbQueue[1]
      BY <2>1 DEF TypeOK, BaseTypeOK
    <3>2. QED
      BY <3>1 DEF QueueFiled
  <2>3. CASE data' = data
    BY <2>1, <2>3, RowsKept
  <2>4. ASSUME NEW r \in SubSelect(SessionsOf(rq.session) \cap OpenSessions),
               data' = data \cup {[session |-> r.id, payload |-> rq.payload]}
        PROVE  (KeysDrawn /\ DataAttribution)'
    <3>1. r \in sessions /\ r.hash = rq.session
      BY SubSelectRows DEF SessionsOf
    <3>2. rq.payload # NoHash => r.hash = rq.payload
      BY <2>1, <2>2, <3>1 DEF FiledIn
    <3>3. \A x \in data' : x \in data \/ (x.session = r.id /\ x.payload = rq.payload)
      BY <2>4
    <3>4. KeysDrawn'
      BY <2>1, <3>1, <3>3 DEF KeysDrawn
    <3>5. DataAttribution'
      BY <2>1, <3>1, <3>2, <3>3 DEF DataAttribution, KeysDrawn
    <3>6. QED
      BY <3>4, <3>5
  <2>5. QED
    BY <2>1, <2>3, <2>4
<1>6. CASE DB_doEndSession
  <2> DEFINE h == Head(dbQueue).session
  <2>1. /\ data' = data /\ sessionSerial' = sessionSerial
        /\ \/ sessions' = sessions
           \/ sessions' = (sessions \ SessionsOf(h)) \cup {[r EXCEPT !.ended = TRUE] : r \in SessionsOf(h)}
    BY <1>6 DEF DB_doEndSession
  <2>2. \A r \in SessionsOf(h) : /\ r \in sessions
                                 /\ [r EXCEPT !.ended = TRUE].id = r.id
                                 /\ [r EXCEPT !.ended = TRUE].hash = r.hash
    BY <1>1 DEF SessionsOf, SessionRows
  <2>3. \A r \in sessions' : \E s \in sessions : s.id = r.id /\ s.hash = r.hash
    <3>1. ASSUME NEW r \in sessions'
          PROVE  r \in sessions \/ \E s \in SessionsOf(h) : r = [s EXCEPT !.ended = TRUE]
      BY <2>1
    <3>2. QED
      BY <2>2, <3>1
  <2>4. QED
    BY <2>1, <2>3, RowsKept
<1>7. CASE DB_doAddDevice \/ DB_doRemoveDevice \/ DB_doRemSession
  <2>1. sessions' \subseteq sessions /\ data' \subseteq data /\ sessionSerial' = sessionSerial
    BY <1>2, <1>7 DEF DB_doAddDevice, DB_doRemoveDevice, DB_doRemSession, RemDevices, RemSessions
  <2>2. QED
    BY <2>1, RowsKept
<1>8. CASE ~DatabaseStep
  <2>1. sessions' = sessions /\ data' = data /\ sessionSerial' = sessionSerial
    BY <1>8
    DEF Next, DeviceStep, ConnectionStep, FinalizeStep, TickStep, DispatcherStep, ClientStep, Terminate,
        Restart, vars, dbVars
  <2>2. QED
    BY <2>1, RowsKept
<1>9. CASE \/ DB_doCheckDatabase \/ DB_doLoadDevices \/ DB_doCleanSessions \/ DB_doGetDevices
           \/ DB_doGetSessions
  <2>1. sessions' = sessions /\ data' = data /\ sessionSerial' = sessionSerial
    BY <1>9
    DEF DB_doCheckDatabase, DB_doLoadDevices, DB_doCleanSessions, DB_doGetDevices, DB_doGetSessions, dbVars
  <2>2. QED
    BY <2>1, RowsKept
<1>10. QED
  BY <1>3, <1>4, <1>5, <1>6, <1>7, <1>8, <1>9 DEF DatabaseStep, DatabaseHandler

\* Data is filed under the session it was collected for, whatever fails and
\* although devices change their sessions while it waits.  For PostgreSQL, which
\* never draws a key again: SQLite leaves the data of a removed session behind
\* for the next one that gets its key.
THEOREM DataAttributionSafe ==
    ASSUME Backend = "pqsql"
    PROVE  Spec => []DataAttribution
<1> DEFINE Inv == DevicesInSession /\ QueueFiled /\ KeysDrawn /\ DataAttribution
<1>1. Init => Inv
  <2>1. Init => KeysDrawn /\ DataAttribution
    BY DEF Init, DatabaseInit, KeysDrawn, DataAttribution
  <2>2. Init => DevicesInSession
    BY DEF Init, DeviceInit, DevicesInSession, QueueInSession
  <2>3. Init => QueueFiled
    <3>1. Init => \E opened, erase : dbQueue = BootDatabaseQueue(opened, erase)
      BY DEF Init
    <3>2. QED
      BY <3>1, BootFiled DEF QueueFiled
  <2>4. QED
    BY <2>1, <2>2, <2>3
<1>2. TypeOK /\ Inv /\ [Next]_vars => Inv'
  BY DevicesInSessionStep, QueueFiledStep, RowsStep
<1>3. Inv => DataAttribution
  OBVIOUS
<1> HIDE DEF Inv
<1>4. QED
  BY <1>1, <1>2, <1>3, TypeCorrect, PTL DEF Spec
=============================================================================
