---------------------------- MODULE ControlProofs ----------------------------
(***************************************************************************)
(* For any number of runs of tkmcontrol, restarts of the collector and     *)
(* failures: a command is sent once and only in a session                  *)
(* (CommandSentOnce), the collector never writes to a socket it has closed *)
(* (PendingKeepsSocket), and no answer is lost (AnswerPrinted).            *)
(*                                                                         *)
(* What a run wants is at one stage at a time, on its way through two      *)
(* queues and two directions of a socket; every step takes it from one     *)
(* stage to the next, or loses it.  What the collector said is ahead of    *)
(* everything that makes the run quit.                                     *)
(***************************************************************************)
EXTENDS ControlProperties, FiniteSetTheorems, SequenceTheorems, TLAPS

-----------------------------------------------------------------------------
(* Types.                                                                  *)

LEMMA TypeInit == Init => TypeOK
<1>. SUFFICES ASSUME Init PROVE TypeOK
  OBVIOUS
<1>1. alive \in BOOLEAN /\ socketPath \in BOOLEAN
  BY Zenon DEF Init, Service!ServiceInit
<1>2. ControlsTyped
  BY DEF Init, ControlsTyped
<1>3. SocketsTyped
  <2>1. server \in {"absent", "listening", "removed"}
    BY DEF Init
  <2>. QED  BY <1>1, <2>1 DEF Init, SocketsTyped
<1>4. CollectorTyped
  <2>1. boots \in Nat
    BY DEF Init
  <2>2. answers \in [Requests -> Seq({"Okay", "Error"})] /\ asked \subseteq Requests
    BY DEF Init, Service!ServiceInit, Service!Unanswered
  <2>3. Service!ServiceTypeOK
    BY <1>1, <2>2 DEF Service!ServiceTypeOK
  <2>. QED  BY <2>1, <2>3 DEF Init, CollectorTyped
<1>. QED  BY <1>2, <1>3, <1>4 DEF TypeOK

\* Variables that do not change keep their types.
LEMMA ControlsStay == ControlsTyped /\ UNCHANGED controlVars => ControlsTyped'
  BY DEF ControlsTyped, controlVars

LEMMA SocketsStay == SocketsTyped /\ UNCHANGED socketVars => SocketsTyped'
<1>. SUFFICES ASSUME SocketsTyped, UNCHANGED socketVars PROVE SocketsTyped'
  OBVIOUS
<1>1. socketPath' \in BOOLEAN
  BY Zenon DEF SocketsTyped, socketVars
<1>. QED  BY <1>1 DEF SocketsTyped, socketVars

LEMMA CollectorStays == CollectorTyped /\ UNCHANGED collectorVars => CollectorTyped'
<1>. SUFFICES ASSUME CollectorTyped, UNCHANGED collectorVars PROVE CollectorTyped'
  OBVIOUS
<1>1. alive' \in BOOLEAN
  BY Zenon DEF CollectorTyped, collectorVars, Service!ServiceTypeOK
<1>. QED  BY <1>1 DEF CollectorTyped, collectorVars, Service!ServiceTypeOK

\* Popping a request and pushing at most one.
LEMMA PopType ==
    ASSUME NEW S, NEW q \in Seq(S), q # <<>>, NEW e
    PROVE  /\ Tail(q) \o <<>> = Tail(q) /\ Tail(q) \in Seq(S)
           /\ e \in S => Tail(q) \o <<e>> = Append(Tail(q), e) /\ Append(Tail(q), e) \in Seq(S)
           /\ Head(q) \in S
<1>1. Tail(q) \in Seq(S) /\ Head(q) \in S
  OBVIOUS
<1>2. Tail(q) \o <<>> = Tail(q)
  BY <1>1, ConcatEmptySeq
<1>3. ASSUME e \in S PROVE Tail(q) \o <<e>> = Append(Tail(q), e) /\ Append(Tail(q), e) \in Seq(S)
  BY <1>1, <1>3, AppendIsConcat
<1>. QED  BY <1>1, <1>2, <1>3

\* The queue of a run after a handler.
LEMMA QueueType ==
    ASSUME TypeOK, NEW c \in Controls, queue[c] # <<>>, NEW e \in ControlActions,
           Pop(c, <<>>) \/ Pop(c, <<e>>)
    PROVE  queue' \in [Controls -> Seq(ControlActions)]
<1>1. queue \in [Controls -> Seq(ControlActions)] /\ queue[c] \in Seq(ControlActions)
  BY DEF TypeOK, ControlsTyped
<1>2. Tail(queue[c]) \o <<>> \in Seq(ControlActions) /\ Tail(queue[c]) \o <<e>> \in Seq(ControlActions)
  BY <1>1, PopType
<1>. QED  BY <1>1, <1>2 DEF Pop

LEMMA WriteType ==
    ASSUME TypeOK, NEW c \in Controls, NEW m \in Sent, Write(c, m)
    PROVE  toCollector' \in [Controls -> Seq(Sent)]
  BY DEF TypeOK, SocketsTyped, Write

LEMMA ToControlType ==
    ASSUME TypeOK, NEW c \in Controls, NEW m \in Said, ToControl(c, m)
    PROVE  toControl' \in [Controls -> Seq(Said)]
  BY DEF TypeOK, SocketsTyped, ToControl

\* The messages are distinct from the commands.
LEMMA Messages ==
    /\ CommandActions \subseteq Sent /\ {"Descriptor", "RequestSession"} \subseteq Sent
    /\ Said \subseteq ControlActions
    /\ CommandActions \subseteq ControlActions
    /\ {"Connect", "SendDescriptor", "RequestSession", "SetSession", "Quit"} \subseteq ControlActions
    /\ Commands \subseteq CommandActions
  BY ControlAssumption DEF Sent, Said, ControlActions

\* Appending to the sequence of one run.
LEMMA AppendAt ==
    ASSUME NEW S, NEW V \in [Controls -> Seq(S)], NEW c \in Controls, NEW e \in S
    PROVE  [V EXCEPT ![c] = Append(@, e)] \in [Controls -> Seq(S)]
<1>1. Append(V[c], e) \in Seq(S)
  OBVIOUS
<1>. QED  BY <1>1

\* What a run prints, and nothing printed.
LEMMA PrintType ==
    ASSUME TypeOK, NEW c \in Controls,
           NEW m \in {"Requested", "Requested failed", "CollectorStatus", "List", "Connection failed"},
           output' = output \/ output' = [output EXCEPT ![c] = Append(@, m)]
    PROVE  output' \in [Controls -> Seq(Printed)]
<1>1. output \in [Controls -> Seq(Printed)]
  BY DEF TypeOK, ControlsTyped
<1>2. [output EXCEPT ![c] = Append(@, m)] \in [Controls -> Seq(Printed)]
  <2>1. m \in Printed
    BY DEF Printed
  <2>. QED  BY <1>1, <2>1, AppendAt
<1>. QED  BY <1>1, <1>2

\* A run that writes goes on or is killed, and the others are left alone.
LEMMA WriteEnded ==
    ASSUME TypeOK, NEW c \in Controls, WriteEnds(c)
    PROVE  /\ control' \in [Controls -> {"new", "running", "stopped", "exited", "failed", "killed"}]
           /\ control'[c] \in {control[c], "killed"}
           /\ \A d \in Controls : d # c => control'[d] = control[d]
  BY DEF TypeOK, ControlsTyped, WriteEnds

LEMMA TypeControl ==
    ASSUME TypeOK, NEW c \in Controls, ControlStep(c) \/ Control_start(c) \/ Control_interrupt(c) \/ Control_stop(c)
    PROVE  TypeOK'
<1>. USE DEF Handles
<1>0. ControlsTyped /\ SocketsTyped /\ CollectorTyped
  BY DEF TypeOK
<1>1. CASE Control_doConnect(c)
  <2>1. queue' \in [Controls -> Seq(ControlActions)]
    <3>1. Pop(c, <<"Quit">>) \/ Pop(c, <<"SendDescriptor">>) \/ UNCHANGED queue
      BY <1>1 DEF Control_doConnect
    <3>2. queue[c] # <<>>
      BY <1>1 DEF Control_doConnect
    <3>. QED  BY <1>0, <3>1, <3>2, QueueType, Messages DEF ControlsTyped
  <2>2. ControlsTyped'
    <3>1. control' \in [Controls -> {"new", "running", "stopped", "exited", "failed", "killed"}]
      BY <1>0, <1>1 DEF Control_doConnect, ControlsTyped
    <3>2. output' \in [Controls -> Seq(Printed)]
      <4>1. output' = output \/ output' = [output EXCEPT ![c] = Append(@, "Connection failed")]
        BY <1>1 DEF Control_doConnect
      <4>. QED  BY <4>1, PrintType
    <3>3. source' \in [Controls -> {"idle", "ready", "removing", "removed"}]
      BY <1>0, <1>1 DEF Control_doConnect, ControlsTyped, socketVars
    <3>. QED  BY <1>0, <1>1, <2>1, <3>1, <3>2, <3>3 DEF Control_doConnect, ControlsTyped
  <2>3. SocketsTyped'
    <3>1. CASE UNCHANGED socketVars
      BY <1>0, <3>1, SocketsStay
    <3>2. CASE /\ link' = [link EXCEPT ![c] = "backlog"]
               /\ backlog' = Append(backlog, c)
               /\ UNCHANGED <<control, output, toCollector, toControl, server, socketPath>>
      <4>1. socketPath' \in BOOLEAN
        BY <1>0, <3>2, Zenon DEF SocketsTyped
      <4>. QED  BY <1>0, <3>2, <4>1 DEF SocketsTyped
    <3>. QED  BY <1>1, <3>1, <3>2 DEF Control_doConnect
  <2>4. CollectorTyped'
    BY <1>0, <1>1, CollectorStays DEF Control_doConnect
  <2>. QED  BY <2>2, <2>3, <2>4 DEF TypeOK
<1>2. CASE Control_doSendDescriptor(c)
  <2>1. queue' \in [Controls -> Seq(ControlActions)]
    BY <1>2, QueueType, Messages DEF Control_doSendDescriptor
  <2>2. toCollector' \in [Controls -> Seq(Sent)]
    BY <1>2, WriteType, Messages DEF Control_doSendDescriptor
  <2>3. ControlsTyped'
    BY <1>0, <1>2, <2>1, WriteEnded DEF Control_doSendDescriptor, ControlsTyped
  <2>4. socketPath' \in BOOLEAN
    BY <1>0, <1>2, Zenon DEF SocketsTyped, Control_doSendDescriptor
  <2>5. SocketsTyped'
    BY <1>0, <1>2, <2>2, <2>4 DEF Control_doSendDescriptor, SocketsTyped
  <2>. QED  BY <1>0, <1>2, <2>3, <2>5, CollectorStays DEF Control_doSendDescriptor, TypeOK
<1>3. CASE Control_doRequestSession(c)
  <2>1. queue' \in [Controls -> Seq(ControlActions)]
    BY <1>3, QueueType, Messages DEF Control_doRequestSession
  <2>2. toCollector' \in [Controls -> Seq(Sent)]
    BY <1>3, WriteType, Messages DEF Control_doRequestSession
  <2>3. ControlsTyped'
    BY <1>0, <1>3, <2>1, WriteEnded DEF Control_doRequestSession, ControlsTyped
  <2>4. socketPath' \in BOOLEAN
    BY <1>0, <1>3, Zenon DEF SocketsTyped, Control_doRequestSession
  <2>5. SocketsTyped'
    BY <1>0, <1>3, <2>2, <2>4 DEF Control_doRequestSession, SocketsTyped
  <2>. QED  BY <1>0, <1>3, <2>3, <2>5, CollectorStays DEF Control_doRequestSession, TypeOK
<1>4. CASE Control_doSetSession(c)
  <2>1. queue' \in [Controls -> Seq(ControlActions)]
    BY <1>4, QueueType, Messages DEF Control_doSetSession
  <2>2. ControlsTyped'
    BY <1>0, <1>4, <2>1 DEF Control_doSetSession, ControlsTyped
  <2>. QED  BY <1>0, <1>4, <2>2, SocketsStay, CollectorStays DEF Control_doSetSession, TypeOK
<1>5. CASE Control_doCommand(c)
  <2>1. queue' \in [Controls -> Seq(ControlActions)]
    BY <1>5, QueueType, Messages DEF Control_doCommand
  <2>2. command[c] \in Sent
    BY <1>0, Messages DEF ControlsTyped
  <2>3. toCollector' \in [Controls -> Seq(Sent)]
    BY <1>5, <2>2, WriteType DEF Control_doCommand
  <2>4. output' \in [Controls -> Seq(Printed)]
    <3>1. PICK m \in {"Requested", "Requested failed"} :
            output' = output \/ output' = [output EXCEPT ![c] = Append(@, m)]
      BY <1>5 DEF Control_doCommand
    <3>. QED  BY <3>1, PrintType
  <2>5. ControlsTyped'
    BY <1>0, <1>5, <2>1, <2>4, WriteEnded DEF Control_doCommand, ControlsTyped
  <2>6. socketPath' \in BOOLEAN
    BY <1>0, <1>5, Zenon DEF SocketsTyped, Control_doCommand
  <2>7. SocketsTyped'
    BY <1>0, <1>5, <2>3, <2>6 DEF Control_doCommand, SocketsTyped
  <2>. QED  BY <1>0, <1>5, <2>5, <2>7, CollectorStays DEF Control_doCommand, TypeOK
<1>6. CASE Control_doCollectorStatus(c)
  <2>1. /\ queue[c] # <<>> /\ (Pop(c, <<>>) \/ Pop(c, <<"Quit">>))
        /\ output' = output \/ output' = [output EXCEPT ![c] = Append(@, "CollectorStatus")]
        /\ UNCHANGED <<control, command, trigger, source, socketVars, collectorVars>>
    BY <1>6 DEF Control_doCollectorStatus
  <2>2. queue' \in [Controls -> Seq(ControlActions)]
    BY <2>1, QueueType, Messages
  <2>3. ControlsTyped'
    <3>1. output' \in [Controls -> Seq(Printed)]
      BY <2>1, PrintType
    <3>. QED  BY <1>0, <2>1, <2>2, <3>1 DEF ControlsTyped
  <2>. QED  BY <1>0, <2>1, <2>3, SocketsStay, CollectorStays DEF TypeOK
<1>7. CASE Control_doList(c)
  <2>1. queue' \in [Controls -> Seq(ControlActions)]
    BY <1>7, QueueType, Messages DEF Control_doList
  <2>2. ControlsTyped'
    <3>1. output' \in [Controls -> Seq(Printed)]
      BY <1>7, PrintType DEF Control_doList
    <3>. QED  BY <1>0, <1>7, <2>1, <3>1 DEF Control_doList, ControlsTyped
  <2>. QED  BY <1>0, <1>7, <2>2, SocketsStay, CollectorStays DEF Control_doList, TypeOK
<1>8. CASE Control_doQuit(c) \/ Control_doAddDeviceThrows(c)
  <2>1. ControlsTyped'
    BY <1>0, <1>8 DEF Control_doQuit, Control_doAddDeviceThrows, ControlsTyped
  <2>. QED  BY <1>0, <1>8, <2>1, SocketsStay, CollectorStays
         DEF Control_doQuit, Control_doAddDeviceThrows, TypeOK
<1>9. CASE Command_callback(c)
  <2>1. command[c] \in ControlActions
    BY <1>0, Messages DEF ControlsTyped
  <2>2. ControlsTyped'
    BY <1>0, <1>9, <2>1 DEF Command_callback, ControlsTyped, Push, TriggerAfter
  <2>. QED  BY <1>0, <1>9, <2>2, SocketsStay, CollectorStays DEF Command_callback, TypeOK
<1>10. CASE Connection_read(c)
  <2>1. ASSUME toControl[c] # <<>>
        PROVE  Head(toControl[c]) \in Said /\ Tail(toControl[c]) \in Seq(Said)
    <3>1. toControl[c] \in Seq(Said)
      BY <1>0 DEF SocketsTyped
    <3>. QED  BY <2>1, <3>1
  <2>2. queue' \in [Controls -> Seq(ControlActions)] /\ toControl' \in [Controls -> Seq(Said)]
    <3>1. CASE toControl[c] # <<>> /\ Push(c, Head(toControl[c])) /\ toControl' = [toControl EXCEPT ![c] = Tail(@)]
      <4>1. Head(toControl[c]) \in ControlActions
        BY <2>1, <3>1, Messages
      <4>2. queue' \in [Controls -> Seq(ControlActions)]
        BY <1>0, <3>1, <4>1, AppendAt DEF Push, ControlsTyped
      <4>. QED  BY <1>0, <2>1, <3>1, <4>2 DEF SocketsTyped
    <3>2. CASE UNCHANGED <<queue, toControl>>
      BY <1>0, <3>2 DEF ControlsTyped, SocketsTyped
    <3>. QED  BY <1>10, <3>1, <3>2 DEF Connection_read
  <2>3. ControlsTyped'
    BY <1>0, <1>10, <2>2 DEF Connection_read, ControlsTyped
  <2>4. socketPath' \in BOOLEAN
    BY <1>0, <1>10, Zenon DEF SocketsTyped, Connection_read
  <2>5. SocketsTyped'
    BY <1>0, <1>10, <2>2, <2>4 DEF Connection_read, SocketsTyped
  <2>. QED  BY <1>0, <1>10, <2>3, <2>5, CollectorStays DEF Connection_read, TypeOK
<1>11. CASE Connection_finalize(c)
  <2>1. ControlsTyped'
    BY <1>0, <1>11, Messages DEF Connection_finalize, OnClose, Push, ControlsTyped
  <2>. QED  BY <1>0, <1>11, <2>1, SocketsStay, CollectorStays DEF Connection_finalize, TypeOK
<1>12. CASE Control_start(c)
  <2>1. ControlsTyped'
    BY <1>0, <1>12, Messages DEF Control_start, Push, ControlsTyped
  <2>. QED  BY <1>0, <1>12, <2>1, SocketsStay, CollectorStays DEF Control_start, TypeOK
<1>13. CASE Control_interrupt(c) \/ Control_stop(c)
  <2>1. ControlsTyped'
    BY <1>0, <1>13 DEF Control_interrupt, Control_stop, ControlsTyped
  <2>. QED  BY <1>0, <1>13, <2>1, SocketsStay, CollectorStays DEF Control_interrupt, Control_stop, TypeOK
<1>. QED  BY <1>1, <1>2, <1>3, <1>4, <1>5, <1>6, <1>7, <1>8, <1>9, <1>10, <1>11, <1>12, <1>13
          DEF ControlStep

LEMMA TypeClient ==
    ASSUME TypeOK, NEW c \in Controls, ClientStep(c)
    PROVE  TypeOK'
<1>0. ControlsTyped /\ SocketsTyped /\ CollectorTyped
  BY DEF TypeOK
<1>1. CASE UDSServer_readDescriptor(c)
  <2>1. ASSUME toCollector[c] # <<>> PROVE Tail(toCollector[c]) \in Seq(Sent)
    <3>1. toCollector[c] \in Seq(Sent)
      BY <1>0 DEF SocketsTyped
    <3>. QED  BY <2>1, <3>1
  <2>2. socketPath' \in BOOLEAN
    BY <1>0, <1>1, Zenon DEF SocketsTyped, UDSServer_readDescriptor
  <2>3. SocketsTyped'
    BY <1>0, <1>1, <2>1, <2>2 DEF UDSServer_readDescriptor, SocketsTyped
  <2>. QED  BY <1>0, <1>1, <2>3, ControlsStay, CollectorStays DEF UDSServer_readDescriptor, TypeOK
<1>2. CASE ControlClient_read(c)
  <2>1. toControl' \in [Controls -> Seq(Said)]
    BY <1>0, <1>2, ToControlType DEF ControlClient_read, SocketsTyped, Said
  <2>2. asked' \subseteq Requests
    BY <1>0, <1>2 DEF ControlClient_read, CollectorTyped, Requests, Service!ServiceTypeOK
  <2>3. Tail(toCollector[c]) \in Seq(Sent)
    <3>1. toCollector[c] \in Seq(Sent) /\ toCollector[c] # <<>>
      BY <1>0, <1>2 DEF SocketsTyped, ControlClient_read
    <3>. QED  BY <3>1
  <2>4. socketPath' \in BOOLEAN /\ alive' \in BOOLEAN
    BY <1>0, <1>2, Zenon DEF SocketsTyped, CollectorTyped, Service!ServiceTypeOK, ControlClient_read
  <2>5. SocketsTyped'
    BY <1>0, <1>2, <2>1, <2>3, <2>4 DEF ControlClient_read, SocketsTyped
  <2>6. CollectorTyped'
    BY <1>0, <1>2, <2>2, <2>4 DEF ControlClient_read, CollectorTyped, Service!ServiceTypeOK
  <2>. QED  BY <1>0, <1>2, <2>5, <2>6, ControlsStay DEF ControlClient_read, TypeOK
<1>3. CASE ControlClient_end(c)
  <2>1. socketPath' \in BOOLEAN
    BY <1>0, <1>3, Zenon DEF SocketsTyped, ControlClient_end
  <2>2. SocketsTyped'
    BY <1>0, <1>3, <2>1 DEF ControlClient_end, LinkAtEnd, SocketsTyped
  <2>. QED  BY <1>0, <1>3, <2>2, ControlsStay, CollectorStays DEF ControlClient_end, TypeOK
<1>4. CASE Collector_list(c)
  <2>1. toControl' \in [Controls -> Seq(Said)]
    BY <1>4, ToControlType DEF Collector_list, Said
  <2>2. socketPath' \in BOOLEAN /\ alive' \in BOOLEAN
    BY <1>0, <1>4, Zenon DEF SocketsTyped, CollectorTyped, Service!ServiceTypeOK, Collector_list
  <2>3. SocketsTyped'
    BY <1>0, <1>4, <2>1, <2>2 DEF Collector_list, SocketsTyped
  <2>4. CollectorTyped'
    BY <1>0, <1>4, <2>2 DEF Collector_list, CollectorTyped, Service!ServiceTypeOK
  <2>. QED  BY <1>0, <1>4, <2>3, <2>4, ControlsStay DEF Collector_list, TypeOK
<1>5. CASE Collector_answer(c)
  <2>1. PICK r \in Pending(c), s \in {"Okay", "Error"} :
          /\ Service!Answer(r, s)
          /\ ToControl(c, IF r[2] = "command" THEN "CollectorStatus" ELSE "SessionStatus")
          /\ link' = [link EXCEPT ![c] = LinkAfter(c, r)]
    BY <1>5 DEF Collector_answer
  <2>2. toControl' \in [Controls -> Seq(Said)]
    BY <2>1, ToControlType DEF Said
  <2>3. answers' \in [Requests -> Seq({"Okay", "Error"})]
    BY <1>0, <2>1 DEF Service!Answer, CollectorTyped, Service!ServiceTypeOK
  <2>4. link' \in [Controls -> {"none", "backlog", "reading", "client", "detached", "closed"}]
    BY <1>0, <2>1 DEF LinkAfter, SocketsTyped
  <2>5. socketPath' \in BOOLEAN /\ alive' \in BOOLEAN
    BY <1>0, <1>5, <2>1, Zenon
       DEF SocketsTyped, CollectorTyped, Service!ServiceTypeOK, Service!Answer, Collector_answer
  <2>6. SocketsTyped'
    BY <1>0, <1>5, <2>2, <2>4, <2>5 DEF Collector_answer, SocketsTyped
  <2>7. CollectorTyped'
    BY <1>0, <1>5, <2>1, <2>3, <2>5
       DEF Collector_answer, CollectorTyped, Service!ServiceTypeOK, Service!Answer
  <2>. QED  BY <1>0, <1>5, <2>6, <2>7, ControlsStay DEF Collector_answer, TypeOK
<1>. QED  BY <1>1, <1>2, <1>3, <1>4, <1>5 DEF ClientStep

LEMMA TypeServer ==
    ASSUME TypeOK, UDSServer_accept \/ CollectorGoes \/ Collector_boot
    PROVE  TypeOK'
<1>0. ControlsTyped /\ SocketsTyped /\ CollectorTyped
  BY DEF TypeOK
<1>1. CASE UDSServer_accept
  <2>1. socketPath' \in BOOLEAN
    BY <1>0, <1>1, Zenon DEF SocketsTyped, UDSServer_accept
  <2>2. Head(backlog) \in Controls /\ Tail(backlog) \in Seq(Controls)
    <3>1. backlog \in Seq(Controls) /\ backlog # <<>>
      BY <1>0, <1>1 DEF SocketsTyped, UDSServer_accept
    <3>. QED  BY <3>1
  <2>3. SocketsTyped'
    BY <1>0, <1>1, <2>1, <2>2 DEF UDSServer_accept, SocketsTyped
  <2>. QED  BY <1>0, <1>1, <2>3, ControlsStay, CollectorStays DEF UDSServer_accept, TypeOK
<1>2. CASE CollectorGoes
  <2>1. socketPath' \in BOOLEAN /\ alive' \in BOOLEAN
    BY <1>0, <1>2, Zenon DEF SocketsTyped, CollectorGoes, Service!End
  <2>2. SocketsTyped'
    BY <1>0, <1>2, <2>1 DEF CollectorGoes, SocketsTyped
  <2>3. CollectorTyped'
    BY <1>0, <1>2, <2>1 DEF CollectorGoes, Service!End, CollectorTyped, Service!ServiceTypeOK
  <2>. QED  BY <1>0, <1>2, <2>2, <2>3, ControlsStay DEF CollectorGoes, TypeOK
<1>3. CASE Collector_boot
  <2>1. socketPath' \in BOOLEAN /\ alive' \in BOOLEAN
    BY <1>0, <1>3, Zenon DEF SocketsTyped, Collector_boot, Service!Boot
  <2>2. SocketsTyped'
    BY <1>0, <1>3, <2>1 DEF Collector_boot, SocketsTyped
  <2>3. answers' \in [Requests -> Seq({"Okay", "Error"})] /\ asked' \subseteq Requests
    BY <1>3 DEF Collector_boot, Service!Boot, Service!Unanswered
  <2>4. CollectorTyped'
    BY <1>0, <1>3, <2>1, <2>3 DEF Collector_boot, CollectorTyped, Service!ServiceTypeOK
  <2>. QED  BY <1>0, <1>3, <2>2, <2>4, ControlsStay DEF Collector_boot, TypeOK
<1>. QED  BY <1>1, <1>2, <1>3

LEMMA TypeStep == TypeOK /\ [Next]_vars => TypeOK'
<1>. SUFFICES ASSUME TypeOK, [Next]_vars PROVE TypeOK'
  OBVIOUS
<1>1. CASE UNCHANGED vars
  BY <1>1, ControlsStay, SocketsStay, CollectorStays DEF vars, TypeOK
<1>2. CASE Next
  BY <1>2, TypeControl, TypeClient, TypeServer DEF Next, Collector_quit, Collector_end
<1>. QED  BY <1>1, <1>2

\* Every variable has its type: messages are the ones the two programs know,
\* and answers are those of ControlService.
THEOREM TypeCorrect == Spec => []TypeOK
<1>. QED  BY TypeInit, TypeStep, PTL DEF Spec

-----------------------------------------------------------------------------
(* The inductive invariant.                                                *)

\* A sequence has an element of S; it has not more than one.
Has(q, S) == \E i \in DOMAIN q : q[i] \in S
Once(q, S) == \A i, j \in DOMAIN q : (q[i] \in S /\ q[j] \in S) => i = j

\* The requests of a run before it has a session.
Opening == {"Connect", "SendDescriptor", "RequestSession", "SetSession"}

\* How far run c is from the command it was started with: not started, opening
\* the connection, asking for a session, granted one, told so, and with the
\* command in its queue, on the socket, and received.
Stages(c) ==
    {s \in {"new", "opening", "asking", "granted", "fired", "queued", "sent", "asked"} :
        \/ s = "new" /\ control[c] = "new"
        \/ s = "opening" /\ Has(queue[c], Opening)
        \/ s = "asking" /\ Has(toCollector[c], {"RequestSession"})
        \/ s = "granted" /\ Has(toControl[c], {"SetSession"})
        \/ s = "fired" /\ trigger[c] = "fired"
        \/ s = "queued" /\ Has(queue[c], {command[c]})
        \/ s = "sent" /\ Has(toCollector[c], {command[c]})
        \/ s = "asked" /\ <<c, "command">> \in asked}

Late == {"fired", "queued", "sent", "asked"}

\* A run is at one stage, and once, and sends no command but its own.
OneStage(c) ==
    /\ \A s, t \in Stages(c) : s = t
    /\ Once(queue[c], Opening) /\ Once(queue[c], {command[c]})
    /\ Once(toCollector[c], {"RequestSession"}) /\ Once(toCollector[c], {command[c]})
    /\ Once(toControl[c], {"SetSession"})
    /\ ~Has(toCollector[c], CommandActions \ {command[c]})
    /\ trigger[c] = "waiting" => Stages(c) \cap Late = {}

\* What was sent begins with a descriptor, and has no other.
Introduced(q) == q # <<>> /\ Head(q) = "Descriptor" /\ ~Has(Tail(q), {"Descriptor"})

\* The descriptor comes first: what a ControlClient reads are requests.
DescriptorFirst(c) ==
    /\ (control[c] = "new" \/ Has(queue[c], {"Connect"})) => link[c] = "none" /\ toCollector[c] = <<>>
    /\ Has(queue[c], {"SendDescriptor"}) => link[c] \in {"backlog", "reading", "closed"} /\ toCollector[c] = <<>>
    /\ link[c] \in {"backlog", "reading"} => Has(queue[c], {"SendDescriptor"}) \/ Introduced(toCollector[c])
    /\ link[c] \in {"client", "detached"} => ~Has(toCollector[c], {"Descriptor"})

\* Only a ControlClient has made requests.
NothingAsked(c) == link[c] \in {"none", "backlog", "reading"} => \A r \in asked : r[1] # c

\* The connections in the backlog are different and are nothing else.
BacklogKept ==
    /\ \A i \in DOMAIN backlog : link[backlog[i]] = "backlog"
    /\ \A i, j \in DOMAIN backlog : backlog[i] = backlog[j] => i = j

RunInv(c) == OneStage(c) /\ DescriptorFirst(c) /\ NothingAsked(c)

-----------------------------------------------------------------------------
(* Sequences that grow at one end and shrink at the other.                 *)

\* p has elements of S only where q has, and not more of them.
Less(p, q, S) == (Has(p, S) => Has(q, S)) /\ (Once(q, S) => Once(p, S))

LEMMA TailHas ==
    ASSUME NEW M, NEW q \in Seq(M), q # <<>>, NEW S
    PROVE  /\ Has(q, S) <=> (Head(q) \in S \/ Has(Tail(q), S))
           /\ Less(Tail(q), q, S)
           /\ (Once(q, S) /\ Head(q) \in S) => ~Has(Tail(q), S)
<1>. DEFINE t == Tail(q)
<1>1. /\ Len(q) \in Nat /\ Len(q) >= 1
      /\ Len(t) = Len(q) - 1
      /\ DOMAIN q = 1..Len(q)
      /\ DOMAIN t = 1..(Len(q) - 1)
      /\ Head(q) = q[1]
      /\ \A i \in 1..(Len(q) - 1) : t[i] = q[i + 1]
  OBVIOUS
<1>. HIDE DEF t
<1>2. ASSUME NEW i \in DOMAIN t PROVE i + 1 \in DOMAIN q /\ i + 1 # 1 /\ t[i] = q[i + 1]
  BY <1>1
<1>3. ASSUME NEW i \in DOMAIN q, i # 1 PROVE i - 1 \in DOMAIN t /\ t[i - 1] = q[i]
  <2>1. i - 1 \in 1..(Len(q) - 1) /\ (i - 1) + 1 = i
    BY <1>1, <1>3
  <2>. QED  BY <1>1, <2>1
<1>4. 1 \in DOMAIN q
  BY <1>1
<1>5. ASSUME Has(q, S) PROVE Head(q) \in S \/ Has(t, S)
  <2>1. PICK i \in DOMAIN q : q[i] \in S
    BY <1>5 DEF Has
  <2>. QED  BY <1>1, <1>3, <2>1 DEF Has
<1>6. ASSUME Has(t, S) PROVE Has(q, S)
  <2>1. PICK i \in DOMAIN t : t[i] \in S
    BY <1>6 DEF Has
  <2>. QED  BY <1>2, <2>1 DEF Has
<1>7. Head(q) \in S => Has(q, S)
  BY <1>1, <1>4 DEF Has
<1>8. ASSUME Once(q, S), NEW i \in DOMAIN t, NEW j \in DOMAIN t, t[i] \in S, t[j] \in S
      PROVE  i = j
  <2>1. i + 1 = j + 1
    BY <1>2, <1>8 DEF Once
  <2>. QED  BY <1>1, <2>1
<1>9. ASSUME Once(q, S), Head(q) \in S, NEW i \in DOMAIN t, t[i] \in S
      PROVE  FALSE
  BY <1>1, <1>2, <1>4, <1>9 DEF Once
<1>10. Once(q, S) => Once(t, S)
  BY <1>8 DEF Once
<1>11. (Once(q, S) /\ Head(q) \in S) => ~Has(t, S)
  BY <1>9 DEF Has
<1>. QED  BY <1>5, <1>6, <1>7, <1>10, <1>11 DEF t, Less

LEMMA AppendHas ==
    ASSUME NEW M, NEW q \in Seq(M), NEW e \in M, NEW S
    PROVE  /\ Has(Append(q, e), S) <=> (Has(q, S) \/ e \in S)
           /\ e \notin S => Less(Append(q, e), q, S)
           /\ ~Has(q, S) => Once(Append(q, e), S)
<1>. DEFINE s == Append(q, e)
<1>1. /\ Len(q) \in Nat
      /\ DOMAIN q = 1..Len(q)
      /\ DOMAIN s = 1..(Len(q) + 1)
      /\ s[Len(q) + 1] = e
      /\ \A i \in 1..Len(q) : s[i] = q[i]
  OBVIOUS
<1>. HIDE DEF s
<1>2. ASSUME NEW i \in DOMAIN q PROVE i \in DOMAIN s /\ s[i] = q[i]
  BY <1>1
<1>3. ASSUME NEW i \in DOMAIN s PROVE i \in DOMAIN q \/ i = Len(q) + 1
  BY <1>1
<1>4. Len(q) + 1 \in DOMAIN s
  BY <1>1
<1>5. Has(s, S) <=> (Has(q, S) \/ e \in S)
  BY <1>1, <1>2, <1>3, <1>4 DEF Has
<1>6. ASSUME e \notin S, Once(q, S) PROVE Once(s, S)
  BY <1>1, <1>2, <1>3, <1>6 DEF Once
<1>7. ASSUME ~Has(q, S) PROVE Once(s, S)
  BY <1>1, <1>2, <1>3, <1>7 DEF Has, Once
<1>. QED  BY <1>5, <1>6, <1>7 DEF s, Less

LEMMA Nothing == ASSUME NEW S PROVE ~Has(<<>>, S)
  BY DEF Has

\* A handler that pops its request and pushes nothing.
LEMMA PopNone ==
    ASSUME NEW M, NEW q \in Seq(M), q # <<>>, NEW S
    PROVE  LET p == Tail(q) \o <<>> IN
           /\ Less(p, q, S)
           /\ (Once(q, S) /\ Head(q) \in S) => ~Has(p, S)
           /\ Head(q) \in S => Has(q, S)
           /\ (Has(q, S) /\ Head(q) \notin S) => Has(p, S)
<1>1. Tail(q) \o <<>> = Tail(q)
  BY PopType
<1>. QED  BY <1>1, TailHas

\* A handler that pops its request and pushes one.
LEMMA PopOne ==
    ASSUME NEW M, NEW q \in Seq(M), q # <<>>, NEW e \in M, NEW S
    PROVE  LET p == Tail(q) \o <<e>> IN
           /\ e \notin S => Less(p, q, S)
           /\ Head(q) \in S => Less(p, q, S)
           /\ (Once(q, S) /\ Head(q) \in S /\ e \notin S) => ~Has(p, S)
           /\ Head(q) \in S => Has(q, S)
           /\ (Has(q, S) /\ Head(q) \notin S) => Has(p, S)
<1>1. /\ Tail(q) \o <<e>> = Append(Tail(q), e)
      /\ Tail(q) \in Seq(M)
  BY PopType
<1>2. /\ Has(q, S) <=> (Head(q) \in S \/ Has(Tail(q), S))
      /\ Less(Tail(q), q, S)
      /\ (Once(q, S) /\ Head(q) \in S) => ~Has(Tail(q), S)
  BY TailHas
<1>3. /\ Has(Append(Tail(q), e), S) <=> (Has(Tail(q), S) \/ e \in S)
      /\ e \notin S => Less(Append(Tail(q), e), Tail(q), S)
      /\ ~Has(Tail(q), S) => Once(Append(Tail(q), e), S)
  BY <1>1, AppendHas
<1>. QED  BY <1>1, <1>2, <1>3 DEF Less

LEMMA LessSame == ASSUME NEW q, NEW S PROVE Less(q, q, S)
  BY DEF Less

-----------------------------------------------------------------------------
(* Stages.                                                                 *)

\* A step that takes run c nowhere, or loses what it wants.
LEMMA StageKept ==
    ASSUME NEW c \in Controls, OneStage(c),
           command'[c] = command[c],
           control'[c] = "new" => control[c] = "new",
           \A S \in {Opening, {command[c]}} : Less(queue'[c], queue[c], S),
           \A S \in {{"RequestSession"}, {command[c]}, CommandActions \ {command[c]}} : Less(toCollector'[c], toCollector[c], S),
           Less(toControl'[c], toControl[c], {"SetSession"}),
           trigger'[c] = trigger[c],
           <<c, "command">> \in asked' => <<c, "command">> \in asked
    PROVE  OneStage(c)'
<1>1. Stages(c)' \subseteq Stages(c)
  BY DEF Stages, Less
<1>2. /\ Less(queue'[c], queue[c], Opening) /\ Less(queue'[c], queue[c], {command[c]})
      /\ Less(toCollector'[c], toCollector[c], {"RequestSession"})
      /\ Less(toCollector'[c], toCollector[c], {command[c]})
      /\ Less(toCollector'[c], toCollector[c], CommandActions \ {command[c]})
  OBVIOUS
<1>3. /\ Once(queue[c], Opening)' /\ Once(queue[c], {command[c]})'
      /\ Once(toCollector[c], {"RequestSession"})' /\ Once(toCollector[c], {command[c]})'
      /\ Once(toControl[c], {"SetSession"})'
      /\ (~Has(toCollector[c], CommandActions \ {command[c]}))'
  BY <1>2 DEF OneStage, Less, Opening
<1>4. (trigger[c] = "waiting")' => (Stages(c) \cap Late = {})'
  BY <1>1 DEF OneStage, Late
<1>. QED  BY <1>1, <1>3, <1>4 DEF OneStage

\* A step that takes it from stage s to stage t.
LEMMA StageMoved ==
    ASSUME NEW c \in Controls, OneStage(c), NEW s \in Stages(c), NEW t,
           Stages(c)' \subseteq (Stages(c) \ {s}) \cup {t},
           Once(queue[c], Opening)', Once(queue[c], {command[c]})',
           Once(toCollector[c], {"RequestSession"})', Once(toCollector[c], {command[c]})',
           Once(toControl[c], {"SetSession"})',
           (~Has(toCollector[c], CommandActions \ {command[c]}))',
           trigger'[c] = "waiting" => (trigger[c] = "waiting" /\ t \notin Late)
    PROVE  OneStage(c)'
<1>1. \A x, y \in Stages(c)' : x = y
  BY DEF OneStage
<1>2. (trigger[c] = "waiting")' => (Stages(c) \cap Late = {})'
  BY DEF OneStage, Late
<1>. QED  BY <1>1, <1>2 DEF OneStage

\* What another run does changes nothing for run c.
LEMMA OthersStay ==
    ASSUME NEW c \in Controls, OneStage(c), DescriptorFirst(c), NothingAsked(c),
           control'[c] = control[c], command'[c] = command[c], queue'[c] = queue[c],
           trigger'[c] = trigger[c], link'[c] = link[c], toCollector'[c] = toCollector[c],
           toControl'[c] = toControl[c],
           \A r : r[1] = c => (r \in asked' <=> r \in asked)
    PROVE  RunInv(c)'
<1>1. <<c, "command">> \in asked' => <<c, "command">> \in asked
  OBVIOUS
<1>2. OneStage(c)'
  BY <1>1, LessSame, StageKept
<1>3. DescriptorFirst(c)'
  BY DEF DescriptorFirst
<1>4. NothingAsked(c)'
  BY DEF NothingAsked
<1>. QED  BY <1>2, <1>3, <1>4 DEF RunInv

-----------------------------------------------------------------------------
(* The steps of tkmcontrol.                                                *)

\* What is in the queues of a run, and how it differs from its command.
LEMMA RunTypes ==
    ASSUME TypeOK, NEW c \in Controls
    PROVE  /\ queue[c] \in Seq(ControlActions)
           /\ toCollector[c] \in Seq(Sent)
           /\ toControl[c] \in Seq(Said)
           /\ command[c] \in CommandActions
           /\ command[c] \notin Opening \cup Said \cup {"Quit", "Descriptor", "RequestSession"}
<1>1. command[c] \in CommandActions
  BY Messages DEF TypeOK, ControlsTyped
<1>2. command[c] \notin Opening \cup Said \cup {"Quit", "Descriptor", "RequestSession"}
  BY <1>1 DEF CommandActions, Opening, Said
<1>. QED  BY <1>1, <1>2 DEF TypeOK, ControlsTyped, SocketsTyped

\* The queue after a handler that pushes nothing a stage depends on.
LEMMA QueueLess ==
    ASSUME TypeOK, NEW c \in Controls, queue[c] # <<>>, NEW S,
           NEW e \in ControlActions, e \notin S \/ Head(queue[c]) \in S,
           Pop(c, <<>>) \/ Pop(c, <<e>>)
    PROVE  /\ Less(queue'[c], queue[c], S)
           /\ (Once(queue[c], S) /\ Head(queue[c]) \in S /\ e \notin S) => ~Has(queue'[c], S)
           /\ Head(queue[c]) \in S => Has(queue[c], S)
           /\ (Has(queue[c], S) /\ Head(queue[c]) \notin S) => Has(queue'[c], S)
<1>1. queue[c] \in Seq(ControlActions) /\ queue \in [Controls -> Seq(ControlActions)]
  BY DEF TypeOK, ControlsTyped
<1>2. CASE Pop(c, <<>>)
  <2>1. queue'[c] = Tail(queue[c]) \o <<>>
    BY <1>1, <1>2 DEF Pop
  <2>. QED  BY <1>1, <2>1, PopNone
<1>3. CASE Pop(c, <<e>>)
  <2>1. queue'[c] = Tail(queue[c]) \o <<e>>
    BY <1>1, <1>3 DEF Pop
  <2>. QED  BY <1>1, <2>1, PopOne
<1>. QED  BY <1>2, <1>3

\* What is pushed on the queue of a run.
LEMMA PushHas ==
    ASSUME TypeOK, NEW c \in Controls, NEW S, NEW e \in ControlActions, Push(c, e)
    PROVE  /\ Has(queue'[c], S) <=> (Has(queue[c], S) \/ e \in S)
           /\ e \notin S => Less(queue'[c], queue[c], S)
           /\ ~Has(queue[c], S) => Once(queue'[c], S)
<1>1. queue[c] \in Seq(ControlActions) /\ queue \in [Controls -> Seq(ControlActions)]
  BY DEF TypeOK, ControlsTyped
<1>2. queue'[c] = Append(queue[c], e)
  BY <1>1 DEF Push
<1>. QED  BY <1>1, <1>2, AppendHas

\* What a run writes to its socket.
LEMMA WriteHas ==
    ASSUME TypeOK, NEW c \in Controls, NEW S, NEW m \in Sent, Write(c, m)
    PROVE  /\ Has(toCollector'[c], S) => (Has(toCollector[c], S) \/ m \in S)
           /\ m \notin S => Less(toCollector'[c], toCollector[c], S)
           /\ ~Has(toCollector[c], S) => Once(toCollector'[c], S)
<1>1. toCollector[c] \in Seq(Sent) /\ toCollector \in [Controls -> Seq(Sent)]
  BY DEF TypeOK, SocketsTyped
<1>2. CASE toCollector' = toCollector
  BY <1>2, LessSame DEF Has, Once
<1>3. CASE toCollector'[c] = Append(toCollector[c], m)
  BY <1>1, <1>3, AppendHas
<1>. QED  BY <1>1, <1>2, <1>3 DEF Write

\* The stages of a run under the steps of its own loop.
LEMMA OwnStages ==
    ASSUME TypeOK, NEW c \in Controls, OneStage(c),
           ControlStep(c) \/ Control_start(c) \/ Control_interrupt(c) \/ Control_stop(c)
    PROVE  OneStage(c)'
<1>. USE DEF Handles
<1>0. /\ queue[c] \in Seq(ControlActions)
      /\ toCollector[c] \in Seq(Sent)
      /\ toControl[c] \in Seq(Said)
      /\ command[c] \in CommandActions
      /\ command[c] \notin Opening \cup Said \cup {"Quit", "Descriptor", "RequestSession"}
  BY RunTypes
<1>00. control \in [Controls -> {"new", "running", "stopped", "exited", "failed", "killed"}]
       /\ trigger \in [Controls -> {"waiting", "fired", "done"}]
       /\ toControl \in [Controls -> Seq(Said)]
  BY DEF TypeOK, ControlsTyped, SocketsTyped
<1>a. \A S : /\ Less(queue[c], queue[c], S)
             /\ Less(toCollector[c], toCollector[c], S)
             /\ Less(toControl[c], toControl[c], S)
  BY LessSame
<1>1. CASE Control_doConnect(c)
  <2>1. queue[c] # <<>> /\ Head(queue[c]) = "Connect" /\ command' = command /\ trigger' = trigger
        /\ toCollector' = toCollector /\ toControl' = toControl /\ asked' = asked
    BY <1>1 DEF Control_doConnect, socketVars, collectorVars
  <2>2. control'[c] = "new" => control[c] = "new"
    BY <1>1, <1>00 DEF Control_doConnect
  <2>3. \A S \in {Opening, {command[c]}} : Less(queue'[c], queue[c], S)
    <3>1. CASE UNCHANGED queue
      BY <1>a, <3>1
    <3>2. CASE Pop(c, <<"Quit">>)
      BY <1>0, <2>1, <3>2, QueueLess, Messages DEF Opening
    <3>3. CASE Pop(c, <<"SendDescriptor">>)
      BY <1>0, <2>1, <3>3, QueueLess, Messages DEF Opening
    <3>. QED  BY <1>1, <3>1, <3>2, <3>3 DEF Control_doConnect
  <2>. QED  BY <1>a, <2>1, <2>2, <2>3, StageKept
<1>2. CASE Control_doSendDescriptor(c)
  <2>1. queue[c] # <<>> /\ Head(queue[c]) = "SendDescriptor" /\ command' = command /\ trigger' = trigger
        /\ Write(c, "Descriptor") /\ toControl' = toControl /\ asked' = asked
        /\ (Pop(c, <<"RequestSession">>) \/ Pop(c, <<"Quit">>))
    BY <1>2 DEF Control_doSendDescriptor, collectorVars
  <2>2. control'[c] = "new" => control[c] = "new"
    BY <1>2, WriteEnded DEF Control_doSendDescriptor
  <2>3. \A S \in {Opening, {command[c]}} : Less(queue'[c], queue[c], S)
    <3>2. CASE Pop(c, <<"Quit">>)
      BY <1>0, <2>1, <3>2, QueueLess, Messages DEF Opening
    <3>3. CASE Pop(c, <<"RequestSession">>)
      BY <1>0, <2>1, <3>3, QueueLess, Messages DEF Opening
    <3>. QED  BY <2>1, <3>2, <3>3
  <2>4. \A S \in {{"RequestSession"}, {command[c]}, CommandActions \ {command[c]}} : Less(toCollector'[c], toCollector[c], S)
    BY <1>0, <2>1, WriteHas, Messages DEF CommandActions
  <2>. QED  BY <1>a, <2>1, <2>2, <2>3, <2>4, StageKept
<1>3. CASE Control_doRequestSession(c)
  <2>1. queue[c] # <<>> /\ Head(queue[c]) = "RequestSession" /\ command' = command /\ trigger' = trigger
        /\ Write(c, "RequestSession") /\ toControl' = toControl /\ asked' = asked
        /\ (control'[c] = "new" => control[c] = "new") /\ Pop(c, <<>>)
    BY <1>3, WriteEnded DEF Control_doRequestSession, collectorVars
  <2>2. /\ Less(queue'[c], queue[c], Opening) /\ Less(queue'[c], queue[c], {command[c]})
        /\ ~Has(queue'[c], Opening) /\ Has(queue[c], Opening)
    <3>1. \A S \in {Opening, {command[c]}} :
            /\ Less(queue'[c], queue[c], S)
            /\ (Once(queue[c], S) /\ Head(queue[c]) \in S /\ "Quit" \notin S) => ~Has(queue'[c], S)
            /\ Head(queue[c]) \in S => Has(queue[c], S)
      BY <1>0, <2>1, QueueLess, Messages DEF Opening
    <3>2. Head(queue[c]) \in Opening /\ "Quit" \notin Opening /\ Once(queue[c], Opening)
      BY <2>1 DEF Opening, OneStage
    <3>. QED  BY <3>1, <3>2
  <2>3. /\ Less(toCollector'[c], toCollector[c], {command[c]})
        /\ Less(toCollector'[c], toCollector[c], CommandActions \ {command[c]})
        /\ ~Has(toCollector[c], {"RequestSession"}) => Once(toCollector'[c], {"RequestSession"})
    <3>1. "RequestSession" \in Sent
      BY Messages
    <3>2. "RequestSession" \notin {command[c]} /\ "RequestSession" \notin CommandActions \ {command[c]}
      BY <1>0 DEF CommandActions
    <3>. QED  BY <2>1, <3>1, <3>2, WriteHas
  <2>4. "opening" \in Stages(c)
    BY <2>2 DEF Stages
  <2>5. ~Has(toCollector[c], {"RequestSession"})
    BY <2>4 DEF OneStage, Stages
  <2>6. Stages(c)' \subseteq (Stages(c) \ {"opening"}) \cup {"asking"}
    BY <2>1, <2>2, <2>3 DEF Stages, Less
  <2>7. /\ Once(queue[c], Opening)' /\ Once(queue[c], {command[c]})'
        /\ Once(toCollector[c], {"RequestSession"})' /\ Once(toCollector[c], {command[c]})'
        /\ Once(toControl[c], {"SetSession"})'
        /\ (~Has(toCollector[c], CommandActions \ {command[c]}))'
    BY <2>1, <2>2, <2>3, <2>5 DEF OneStage, Less, Opening
  <2>. QED  BY <2>1, <2>4, <2>6, <2>7, StageMoved DEF Late
<1>4. CASE Control_doSetSession(c)
  <2>1. queue[c] # <<>> /\ Head(queue[c]) = "SetSession" /\ command' = command /\ control' = control
        /\ toCollector' = toCollector /\ toControl' = toControl /\ asked' = asked
        /\ trigger'[c] = "fired" /\ Pop(c, <<>>)
    BY <1>4, <1>00 DEF Control_doSetSession, socketVars, collectorVars
  <2>2. /\ Less(queue'[c], queue[c], Opening) /\ Less(queue'[c], queue[c], {command[c]})
        /\ ~Has(queue'[c], Opening) /\ Has(queue[c], Opening)
    <3>1. \A S \in {Opening, {command[c]}} :
            /\ Less(queue'[c], queue[c], S)
            /\ (Once(queue[c], S) /\ Head(queue[c]) \in S /\ "Quit" \notin S) => ~Has(queue'[c], S)
            /\ Head(queue[c]) \in S => Has(queue[c], S)
      BY <1>0, <2>1, QueueLess, Messages DEF Opening
    <3>2. Head(queue[c]) \in Opening /\ "Quit" \notin Opening /\ Once(queue[c], Opening)
      BY <2>1 DEF Opening, OneStage
    <3>. QED  BY <3>1, <3>2
  <2>3. "opening" \in Stages(c)
    BY <2>2 DEF Stages
  <2>4. Stages(c)' \subseteq (Stages(c) \ {"opening"}) \cup {"fired"}
    BY <2>1, <2>2 DEF Stages, Less
  <2>5. /\ Once(queue[c], Opening)' /\ Once(queue[c], {command[c]})'
        /\ Once(toCollector[c], {"RequestSession"})' /\ Once(toCollector[c], {command[c]})'
        /\ Once(toControl[c], {"SetSession"})'
        /\ (~Has(toCollector[c], CommandActions \ {command[c]}))'
    BY <2>1, <2>2 DEF OneStage, Less, Opening
  <2>. QED  BY <2>1, <2>3, <2>4, <2>5, StageMoved
<1>5. CASE Control_doCommand(c)
  <2>1. queue[c] # <<>> /\ Head(queue[c]) = command[c] /\ command' = command /\ trigger' = trigger
        /\ Write(c, command[c]) /\ toControl' = toControl /\ asked' = asked
        /\ (control'[c] = "new" => control[c] = "new") /\ (Pop(c, <<>>) \/ Pop(c, <<"Quit">>))
    BY <1>5, WriteEnded DEF Control_doCommand, collectorVars
  <2>2. /\ Less(queue'[c], queue[c], Opening) /\ Less(queue'[c], queue[c], {command[c]})
        /\ ~Has(queue'[c], {command[c]}) /\ Has(queue[c], {command[c]})
    <3>1. \A S \in {Opening, {command[c]}} :
            /\ Less(queue'[c], queue[c], S)
            /\ (Once(queue[c], S) /\ Head(queue[c]) \in S /\ "Quit" \notin S) => ~Has(queue'[c], S)
            /\ Head(queue[c]) \in S => Has(queue[c], S)
      BY <1>0, <2>1, QueueLess, Messages DEF Opening
    <3>2. Head(queue[c]) \in {command[c]} /\ "Quit" \notin {command[c]} /\ Once(queue[c], {command[c]})
      BY <1>0, <2>1 DEF OneStage
    <3>. QED  BY <3>1, <3>2
  <2>3. /\ Less(toCollector'[c], toCollector[c], {"RequestSession"})
        /\ Less(toCollector'[c], toCollector[c], CommandActions \ {command[c]})
        /\ ~Has(toCollector[c], {command[c]}) => Once(toCollector'[c], {command[c]})
    BY <1>0, <2>1, WriteHas, Messages DEF CommandActions
  <2>4. "queued" \in Stages(c)
    BY <2>2 DEF Stages
  <2>5. ~Has(toCollector[c], {command[c]}) /\ trigger[c] # "waiting"
    BY <2>4 DEF OneStage, Stages, Late
  <2>6. Stages(c)' \subseteq (Stages(c) \ {"queued"}) \cup {"sent"}
    BY <2>1, <2>2, <2>3 DEF Stages, Less
  <2>7. /\ Once(queue[c], Opening)' /\ Once(queue[c], {command[c]})'
        /\ Once(toCollector[c], {"RequestSession"})' /\ Once(toCollector[c], {command[c]})'
        /\ Once(toControl[c], {"SetSession"})'
        /\ (~Has(toCollector[c], CommandActions \ {command[c]}))'
    BY <2>1, <2>2, <2>3, <2>5 DEF OneStage, Less, Opening
  <2>. QED  BY <2>1, <2>4, <2>5, <2>6, <2>7, StageMoved
<1>6. CASE Control_doCollectorStatus(c) \/ Control_doList(c)
  <2>1. queue[c] # <<>> /\ command' = command /\ control' = control /\ trigger' = trigger
        /\ toCollector' = toCollector /\ toControl' = toControl /\ asked' = asked
        /\ (Pop(c, <<>>) \/ Pop(c, <<"Quit">>))
    BY <1>6 DEF Control_doCollectorStatus, Control_doList, socketVars, collectorVars
  <2>2. \A S \in {Opening, {command[c]}} : Less(queue'[c], queue[c], S)
    BY <1>0, <2>1, QueueLess, Messages DEF Opening
  <2>. QED  BY <1>a, <2>1, <2>2, StageKept
<1>7. CASE Control_doQuit(c) \/ Control_doAddDeviceThrows(c) \/ Control_interrupt(c) \/ Control_stop(c)
  <2>1. command' = command /\ queue' = queue /\ trigger' = trigger
        /\ toCollector' = toCollector /\ toControl' = toControl /\ asked' = asked
    BY <1>7 DEF Control_doQuit, Control_doAddDeviceThrows, Control_interrupt, Control_stop,
         socketVars, collectorVars
  <2>2. control'[c] = "new" => control[c] = "new"
    BY <1>7, <1>00 DEF Control_doQuit, Control_doAddDeviceThrows, Control_interrupt, Control_stop
  <2>. QED  BY <1>a, <2>1, <2>2, StageKept
<1>8. CASE Command_callback(c)
  <2>1. trigger[c] = "fired" /\ command' = command /\ control' = control
        /\ toCollector' = toCollector /\ toControl' = toControl /\ asked' = asked
        /\ trigger'[c] = "done" /\ Push(c, command[c])
    BY <1>8, <1>00 DEF Command_callback, TriggerAfter, socketVars, collectorVars
  <2>2. "fired" \in Stages(c)
    BY <2>1 DEF Stages
  <2>3. ~Has(queue[c], {command[c]})
    BY <2>2 DEF OneStage, Stages
  <2>4. /\ Less(queue'[c], queue[c], Opening)
        /\ Once(queue'[c], {command[c]})
    <3>1. command[c] \in ControlActions
      BY <1>0, Messages
    <3>. QED  BY <1>0, <2>1, <2>3, <3>1, PushHas
  <2>5. Stages(c)' \subseteq (Stages(c) \ {"fired"}) \cup {"queued"}
    BY <2>1, <2>4 DEF Stages, Less
  <2>6. /\ Once(queue[c], Opening)' /\ Once(queue[c], {command[c]})'
        /\ Once(toCollector[c], {"RequestSession"})' /\ Once(toCollector[c], {command[c]})'
        /\ Once(toControl[c], {"SetSession"})'
        /\ (~Has(toCollector[c], CommandActions \ {command[c]}))'
    BY <2>1, <2>4 DEF OneStage, Less, Opening
  <2>. QED  BY <2>1, <2>2, <2>5, <2>6, StageMoved
<1>9. CASE Connection_read(c)
  <2>1. command' = command /\ control' = control /\ trigger' = trigger
        /\ toCollector' = toCollector /\ asked' = asked
    BY <1>9 DEF Connection_read, collectorVars
  <2>2. CASE UNCHANGED <<queue, toControl>>
    BY <1>a, <2>1, <2>2, StageKept
  <2>3. CASE /\ toControl[c] # <<>> /\ Push(c, Head(toControl[c]))
             /\ toControl' = [toControl EXCEPT ![c] = Tail(@)]
    <3>1. Head(toControl[c]) \in Said /\ Head(toControl[c]) \in ControlActions
          /\ Head(toControl[c]) \notin {command[c]}
      BY <1>0, <2>3, Messages
    <3>2. toControl'[c] = Tail(toControl[c])
      BY <1>00, <2>3
    <3>3. Less(queue'[c], queue[c], {command[c]})
      BY <2>3, <3>1, PushHas
    <3>4. Less(toControl'[c], toControl[c], {"SetSession"})
      BY <1>0, <2>3, <3>2, TailHas
    <3>5. CASE Head(toControl[c]) = "SetSession"
      <4>1. Has(toControl[c], {"SetSession"}) /\ ~Has(toControl'[c], {"SetSession"})
        BY <1>0, <2>3, <3>2, <3>5, TailHas DEF OneStage
      <4>2. "granted" \in Stages(c)
        BY <4>1 DEF Stages
      <4>3. ~Has(queue[c], Opening)
        BY <4>2 DEF OneStage, Stages
      <4>4. Once(queue'[c], Opening)
        BY <2>3, <3>1, <4>3, PushHas
      <4>5. Stages(c)' \subseteq (Stages(c) \ {"granted"}) \cup {"opening"}
        BY <2>1, <3>3, <4>1 DEF Stages, Less
      <4>6. /\ Once(queue[c], Opening)' /\ Once(queue[c], {command[c]})'
            /\ Once(toCollector[c], {"RequestSession"})' /\ Once(toCollector[c], {command[c]})'
            /\ Once(toControl[c], {"SetSession"})'
            /\ (~Has(toCollector[c], CommandActions \ {command[c]}))'
        BY <2>1, <3>3, <3>4, <4>4 DEF OneStage, Less, Opening
      <4>. QED  BY <2>1, <4>2, <4>5, <4>6, StageMoved DEF Late
    <3>6. CASE Head(toControl[c]) # "SetSession"
      <4>1. Head(toControl[c]) \notin Opening
        BY <3>1, <3>6 DEF Opening, Said
      <4>2. Less(queue'[c], queue[c], Opening)
        BY <2>3, <3>1, <4>1, PushHas
      <4>. QED  BY <1>a, <2>1, <3>3, <3>4, <4>2, StageKept
    <3>. QED  BY <3>5, <3>6
  <2>. QED  BY <1>9, <2>2, <2>3 DEF Connection_read
<1>10. CASE Connection_finalize(c)
  <2>1. command' = command /\ control' = control /\ trigger' = trigger /\ Push(c, "Quit")
        /\ toCollector' = toCollector /\ toControl' = toControl /\ asked' = asked
    BY <1>10 DEF Connection_finalize, OnClose, socketVars, collectorVars
  <2>2. \A S \in {Opening, {command[c]}} : Less(queue'[c], queue[c], S)
    BY <1>0, <2>1, PushHas, Messages DEF Opening
  <2>. QED  BY <1>a, <2>1, <2>2, StageKept
<1>11. CASE Control_start(c)
  <2>1. command' = command /\ control[c] = "new" /\ control'[c] = "running" /\ trigger' = trigger
        /\ toCollector' = toCollector /\ toControl' = toControl /\ asked' = asked /\ Push(c, "Connect")
    BY <1>11, <1>00 DEF Control_start, socketVars, collectorVars
  <2>2. "new" \in Stages(c)
    BY <2>1 DEF Stages
  <2>3. ~Has(queue[c], Opening)
    BY <2>2 DEF OneStage, Stages
  <2>4. Once(queue'[c], Opening) /\ Less(queue'[c], queue[c], {command[c]})
    BY <1>0, <2>1, <2>3, PushHas, Messages DEF Opening
  <2>5. Stages(c)' \subseteq (Stages(c) \ {"new"}) \cup {"opening"}
    BY <2>1, <2>4 DEF Stages, Less
  <2>6. /\ Once(queue[c], Opening)' /\ Once(queue[c], {command[c]})'
        /\ Once(toCollector[c], {"RequestSession"})' /\ Once(toCollector[c], {command[c]})'
        /\ Once(toControl[c], {"SetSession"})'
        /\ (~Has(toCollector[c], CommandActions \ {command[c]}))'
    BY <2>1, <2>4 DEF OneStage, Less, Opening
  <2>. QED  BY <2>1, <2>2, <2>5, <2>6, StageMoved DEF Late
<1>. QED  BY <1>1, <1>2, <1>3, <1>4, <1>5, <1>6, <1>7, <1>8, <1>9, <1>10, <1>11 DEF ControlStep

\* Of a larger set a sequence has at least as much.
LEMMA HasMore == ASSUME NEW q, NEW S, NEW T, S \subseteq T, Has(q, S) PROVE Has(q, T)
  BY DEF Has

\* What follows the descriptor leaves it the first and the only one.
LEMMA IntroducedStays ==
    ASSUME NEW q \in Seq(Sent), Introduced(q), NEW m \in Sent, m # "Descriptor"
    PROVE  Introduced(Append(q, m))
<1>1. q # <<>> /\ Tail(q) \in Seq(Sent)
  BY DEF Introduced
<1>2. /\ Append(q, m) # <<>>
      /\ Head(Append(q, m)) = Head(q)
      /\ Tail(Append(q, m)) = Append(Tail(q), m)
  BY <1>1
<1>3. Has(Append(Tail(q), m), {"Descriptor"}) <=> (Has(Tail(q), {"Descriptor"}) \/ m \in {"Descriptor"})
  BY <1>1, AppendHas
<1>. QED  BY <1>2, <1>3 DEF Introduced

\* A step that neither opens the connection nor writes to it.
LEMMA DescriptorKept ==
    ASSUME NEW c \in Controls, DescriptorFirst(c),
           control'[c] = "new" => control[c] = "new",
           Has(queue'[c], {"Connect"}) => Has(queue[c], {"Connect"}),
           Has(queue'[c], {"SendDescriptor"}) <=> Has(queue[c], {"SendDescriptor"}),
           link'[c] = link[c], toCollector'[c] = toCollector[c]
    PROVE  DescriptorFirst(c)'
  BY DEF DescriptorFirst

\* A step that writes a request, after the connection was opened.
LEMMA RequestWritten ==
    ASSUME TypeOK, NEW c \in Controls, DescriptorFirst(c), NEW m \in Sent, m # "Descriptor", Write(c, m),
           control'[c] # "new", ~Has(queue[c], {"SendDescriptor"}), ~Has(queue'[c], Opening),
           link'[c] = link[c]
    PROVE  DescriptorFirst(c)'
<1>1. toCollector[c] \in Seq(Sent) /\ toCollector \in [Controls -> Seq(Sent)]
  BY DEF TypeOK, SocketsTyped
<1>2. ~Has(queue'[c], {"Connect"}) /\ ~Has(queue'[c], {"SendDescriptor"})
  BY HasMore DEF Opening
<1>3. CASE toCollector' = toCollector
  BY <1>2, <1>3 DEF DescriptorFirst
<1>4. CASE toCollector'[c] = Append(toCollector[c], m)
  <2>1. link[c] \in {"backlog", "reading"} => Introduced(toCollector'[c])
    BY <1>1, <1>4, IntroducedStays DEF DescriptorFirst
  <2>2. link[c] \in {"client", "detached"} => ~Has(toCollector'[c], {"Descriptor"})
    BY <1>1, <1>4, AppendHas DEF DescriptorFirst
  <2>. QED  BY <1>2, <2>1, <2>2 DEF DescriptorFirst
<1>. QED  BY <1>1, <1>3, <1>4 DEF Write

\* The descriptor under the steps of a run's own loop.
LEMMA OwnDescriptor ==
    ASSUME TypeOK, NEW c \in Controls, OneStage(c), DescriptorFirst(c),
           ControlStep(c) \/ Control_start(c) \/ Control_interrupt(c) \/ Control_stop(c)
    PROVE  DescriptorFirst(c)'
<1>. USE DEF Handles
<1>0. /\ queue[c] \in Seq(ControlActions)
      /\ toCollector[c] \in Seq(Sent)
      /\ toControl[c] \in Seq(Said)
      /\ command[c] \in CommandActions
      /\ command[c] \notin Opening \cup Said \cup {"Quit", "Descriptor", "RequestSession"}
  BY RunTypes
<1>00. control \in [Controls -> {"new", "running", "stopped", "exited", "failed", "killed"}]
       /\ link \in [Controls -> {"none", "backlog", "reading", "client", "detached", "closed"}]
       /\ toCollector \in [Controls -> Seq(Sent)]
  BY DEF TypeOK, ControlsTyped, SocketsTyped
\* Once something else of the opening is handled, the rest of it is past.
<1>a. ASSUME queue[c] # <<>>, Head(queue[c]) \in Opening, Pop(c, <<>>) \/ Pop(c, <<"Quit">>)
      PROVE  ~Has(queue'[c], Opening)
  BY <1>a, QueueLess, Messages DEF Opening, OneStage
<1>b. ASSUME queue[c] # <<>>, Head(queue[c]) \notin {"Connect", "SendDescriptor"},
             Pop(c, <<>>) \/ Pop(c, <<"Quit">>)
      PROVE  /\ Has(queue'[c], {"Connect"}) => Has(queue[c], {"Connect"})
             /\ Has(queue'[c], {"SendDescriptor"}) <=> Has(queue[c], {"SendDescriptor"})
  <2>1. \A S \in {{"Connect"}, {"SendDescriptor"}} :
          /\ Less(queue'[c], queue[c], S)
          /\ (Has(queue[c], S) /\ Head(queue[c]) \notin S) => Has(queue'[c], S)
    BY <1>b, QueueLess, Messages
  <2>. QED  BY <1>b, <2>1 DEF Less
<1>1. CASE Control_doConnect(c)
  <2>1. queue[c] # <<>> /\ Head(queue[c]) = "Connect" /\ toCollector' = toCollector
        /\ control[c] = "running"
    BY <1>1 DEF Control_doConnect, socketVars
  <2>2. control'[c] # "new"
    BY <1>1, <1>00, <2>1 DEF Control_doConnect
  <2>3. Has(queue[c], {"Connect"}) /\ Has(queue[c], Opening)
    BY <1>0, <2>1, TailHas DEF Opening
  <2>4. link[c] = "none" /\ toCollector[c] = <<>>
    BY <2>3 DEF DescriptorFirst
  <2>5. CASE UNCHANGED queue /\ UNCHANGED link
    BY <2>1, <2>2, <2>5, DescriptorKept
  <2>6. CASE Pop(c, <<"Quit">>) /\ UNCHANGED link
    <3>1. ~Has(queue'[c], Opening)
      BY <1>a, <2>1, <2>6 DEF Opening
    <3>2. ~Has(queue'[c], {"Connect"}) /\ ~Has(queue'[c], {"SendDescriptor"})
      BY <3>1, HasMore DEF Opening
    <3>. QED  BY <2>1, <2>2, <2>4, <2>6, <3>2 DEF DescriptorFirst
  <2>7. CASE Pop(c, <<"SendDescriptor">>) /\ link'[c] = "backlog"
    <3>1. Once(queue[c], {"Connect"})
      BY DEF OneStage, Once, Opening
    <3>2. ~Has(queue'[c], {"Connect"})
      BY <2>1, <2>7, <3>1, QueueLess, Messages
    <3>3. Has(queue'[c], {"SendDescriptor"})
      <4>1. Tail(queue[c]) \o <<"SendDescriptor">> = Append(Tail(queue[c]), "SendDescriptor")
            /\ Tail(queue[c]) \in Seq(ControlActions)
        BY <1>0, <2>1, PopType, Messages
      <4>2. queue'[c] = Append(Tail(queue[c]), "SendDescriptor")
        BY <2>7, <4>1 DEF Pop, TypeOK, ControlsTyped
      <4>3. "SendDescriptor" \in ControlActions
        BY Messages
      <4>4. Has(Append(Tail(queue[c]), "SendDescriptor"), {"SendDescriptor"})
        BY <4>1, <4>3, AppendHas
      <4>. QED  BY <4>2, <4>4
    <3>. QED  BY <2>1, <2>2, <2>4, <2>7, <3>2, <3>3 DEF DescriptorFirst
  <2>8. \/ UNCHANGED queue /\ UNCHANGED link
        \/ Pop(c, <<"Quit">>) /\ UNCHANGED link
        \/ Pop(c, <<"SendDescriptor">>) /\ link'[c] = "backlog"
    BY <1>1, <1>00 DEF Control_doConnect, socketVars
  <2>. QED  BY <2>5, <2>6, <2>7, <2>8
<1>2. CASE Control_doSendDescriptor(c)
  <2>1. queue[c] # <<>> /\ Head(queue[c]) = "SendDescriptor" /\ Write(c, "Descriptor")
        /\ link' = link /\ control[c] = "running"
        /\ (Pop(c, <<"RequestSession">>) \/ Pop(c, <<"Quit">>))
    BY <1>2 DEF Control_doSendDescriptor
  <2>2. control'[c] # "new"
    BY <1>2, <2>1, WriteEnded DEF Control_doSendDescriptor
  <2>3. Has(queue[c], {"SendDescriptor"})
    BY <1>0, <2>1, TailHas
  <2>4. link[c] \in {"backlog", "reading", "closed"} /\ toCollector[c] = <<>>
    BY <2>3 DEF DescriptorFirst
  <2>5. ~Has(queue[c], {"Connect"})
    BY <2>4 DEF DescriptorFirst
  <2>6. ~Has(queue'[c], {"Connect"}) /\ ~Has(queue'[c], {"SendDescriptor"})
    <3>1. Once(queue[c], {"SendDescriptor"})
      BY DEF OneStage, Once, Opening
    <3>2. PICK e \in {"RequestSession", "Quit"} : Pop(c, <<e>>)
      BY <2>1
    <3>3. \A S \in {{"Connect"}, {"SendDescriptor"}} :
            /\ Less(queue'[c], queue[c], S)
            /\ (Once(queue[c], S) /\ Head(queue[c]) \in S /\ e \notin S) => ~Has(queue'[c], S)
      BY <2>1, <3>2, QueueLess, Messages
    <3>. QED  BY <2>1, <2>5, <3>1, <3>3 DEF Less
  <2>7. CASE link[c] = "closed"
    BY <2>1, <2>2, <2>6, <2>7 DEF DescriptorFirst
  <2>8. CASE link[c] # "closed"
    <3>1. toCollector'[c] = Append(<<>>, "Descriptor")
      BY <1>00, <2>1, <2>4, <2>8 DEF Write
    <3>2. /\ toCollector'[c] # <<>>
          /\ Head(toCollector'[c]) = "Descriptor"
          /\ Tail(toCollector'[c]) = <<>>
      BY <3>1
    <3>3. Introduced(toCollector'[c])
      BY <3>2, Nothing DEF Introduced
    <3>. QED  BY <2>1, <2>2, <2>4, <2>6, <2>8, <3>3 DEF DescriptorFirst
  <2>. QED  BY <2>7, <2>8
<1>3. CASE Control_doRequestSession(c)
  <2>1. queue[c] # <<>> /\ Head(queue[c]) = "RequestSession" /\ Write(c, "RequestSession")
        /\ link' = link /\ control[c] = "running" /\ control'[c] # "new" /\ Pop(c, <<>>)
    BY <1>3, WriteEnded DEF Control_doRequestSession
  <2>2. ~Has(queue'[c], Opening)
    BY <1>a, <2>1 DEF Opening
  <2>3. ~Has(queue[c], {"SendDescriptor"})
    BY <1>b, <2>1, <2>2, HasMore DEF Opening
  <2>4. "RequestSession" \in Sent
    BY Messages
  <2>. QED  BY <2>1, <2>2, <2>3, <2>4, RequestWritten
<1>4. CASE Control_doCommand(c)
  <2>1. queue[c] # <<>> /\ Head(queue[c]) = command[c] /\ Write(c, command[c])
        /\ link' = link /\ control[c] = "running" /\ control'[c] # "new"
        /\ (Pop(c, <<>>) \/ Pop(c, <<"Quit">>))
    BY <1>4, WriteEnded DEF Control_doCommand
  <2>2. Has(queue[c], {command[c]})
    BY <1>0, <2>1, TailHas
  <2>3. ~Has(queue[c], Opening)
    BY <2>2 DEF OneStage, Stages
  <2>4. ~Has(queue'[c], Opening)
    <3>1. Less(queue'[c], queue[c], Opening)
      BY <1>0, <2>1, QueueLess, Messages DEF Opening
    <3>. QED  BY <2>3, <3>1 DEF Less
  <2>5. ~Has(queue[c], {"SendDescriptor"})
    BY <2>3, HasMore DEF Opening
  <2>6. command[c] \in Sent /\ command[c] # "Descriptor"
    BY <1>0, Messages
  <2>. QED  BY <2>1, <2>4, <2>5, <2>6, RequestWritten
<1>5. CASE Control_doSetSession(c) \/ Control_doCollectorStatus(c) \/ Control_doList(c)
  <2>1. queue[c] # <<>> /\ Head(queue[c]) \notin {"Connect", "SendDescriptor"}
        /\ toCollector' = toCollector /\ link' = link /\ control' = control
        /\ (Pop(c, <<>>) \/ Pop(c, <<"Quit">>))
    BY <1>5 DEF Control_doSetSession, Control_doCollectorStatus, Control_doList, socketVars
  <2>. QED  BY <1>b, <2>1, DescriptorKept
<1>6. CASE Control_doQuit(c) \/ Control_doAddDeviceThrows(c) \/ Control_interrupt(c) \/ Control_stop(c)
  <2>1. queue' = queue /\ toCollector' = toCollector /\ link' = link
    BY <1>6 DEF Control_doQuit, Control_doAddDeviceThrows, Control_interrupt, Control_stop, socketVars
  <2>2. control'[c] = "new" => control[c] = "new"
    BY <1>6, <1>00 DEF Control_doQuit, Control_doAddDeviceThrows, Control_interrupt, Control_stop
  <2>. QED  BY <2>1, <2>2, DescriptorKept
<1>7. CASE Command_callback(c) \/ Connection_read(c) \/ Connection_finalize(c)
  <2>1. toCollector' = toCollector /\ link' = link /\ control' = control
    BY <1>7 DEF Command_callback, Connection_read, Connection_finalize, socketVars
  <2>2. UNCHANGED queue \/ \E e \in ControlActions : Push(c, e) /\ e \notin {"Connect", "SendDescriptor"}
    <3>1. CASE Command_callback(c)
      BY <1>0, <3>1, Messages DEF Command_callback, Opening
    <3>2. CASE Connection_read(c)
      <4>1. toControl[c] # <<>> => Head(toControl[c]) \in Said
        BY <1>0
      <4>2. \A m \in Said : m \in ControlActions /\ m \notin {"Connect", "SendDescriptor"}
        BY Messages DEF Said
      <4>. QED  BY <3>2, <4>1, <4>2 DEF Connection_read
    <3>3. CASE Connection_finalize(c)
      BY <3>3, Messages DEF Connection_finalize, OnClose
    <3>. QED  BY <1>7, <3>1, <3>2, <3>3
  <2>3. /\ Has(queue'[c], {"Connect"}) => Has(queue[c], {"Connect"})
        /\ Has(queue'[c], {"SendDescriptor"}) <=> Has(queue[c], {"SendDescriptor"})
    <3>1. CASE UNCHANGED queue
      BY <3>1
    <3>2. ASSUME NEW e \in ControlActions, Push(c, e), e \notin {"Connect", "SendDescriptor"}
          PROVE  \A S \in {{"Connect"}, {"SendDescriptor"}} : Has(queue'[c], S) <=> Has(queue[c], S)
      BY <3>2, PushHas
    <3>. QED  BY <2>2, <3>1, <3>2
  <2>. QED  BY <2>1, <2>3, DescriptorKept
<1>8. CASE Control_start(c)
  <2>1. control[c] = "new" /\ toCollector' = toCollector /\ link' = link /\ Push(c, "Connect")
        /\ control'[c] = "running"
    BY <1>8, <1>00 DEF Control_start, socketVars
  <2>2. link[c] = "none" /\ toCollector[c] = <<>>
    BY <2>1 DEF DescriptorFirst
  <2>3. ~Has(queue[c], {"SendDescriptor"})
    BY <2>2 DEF DescriptorFirst
  <2>4. ~Has(queue'[c], {"SendDescriptor"})
    BY <2>1, <2>3, PushHas, Messages
  <2>. QED  BY <2>1, <2>2, <2>4 DEF DescriptorFirst
<1>. QED  BY <1>1, <1>2, <1>3, <1>4, <1>5, <1>6, <1>7, <1>8 DEF ControlStep

\* A run makes no requests by itself, and a connection it opens is a new one.
LEMMA OwnAsked ==
    ASSUME TypeOK, NEW c \in Controls, DescriptorFirst(c), NothingAsked(c),
           ControlStep(c) \/ Control_start(c) \/ Control_interrupt(c) \/ Control_stop(c)
    PROVE  NothingAsked(c)' /\ asked' = asked /\ answers' = answers /\ alive' = alive
<1>1. asked' = asked /\ answers' = answers /\ alive' = alive
  BY DEF ControlStep, Control_doConnect, Control_doSendDescriptor, Control_doRequestSession,
         Control_doSetSession, Control_doCommand, Control_doCollectorStatus, Control_doList,
         Control_doQuit, Control_doAddDeviceThrows, Command_callback, Connection_read,
         Connection_finalize, Control_start, Control_interrupt, Control_stop, collectorVars
<1>2. CASE Control_doConnect(c)
  <2>1. link[c] = "none"
    <3>1. queue[c] \in Seq(ControlActions) /\ queue[c] # <<>> /\ Head(queue[c]) = "Connect"
      BY <1>2, RunTypes DEF Control_doConnect, Handles
    <3>2. Has(queue[c], {"Connect"})
      BY <3>1, TailHas
    <3>. QED  BY <3>2 DEF DescriptorFirst
  <2>. QED  BY <1>1, <2>1 DEF NothingAsked
<1>3. CASE link' = link
  BY <1>1, <1>3 DEF NothingAsked
<1>4. Control_doConnect(c) \/ link' = link
  BY DEF ControlStep, Control_doSendDescriptor, Control_doRequestSession,
         Control_doSetSession, Control_doCommand, Control_doCollectorStatus, Control_doList,
         Control_doQuit, Control_doAddDeviceThrows, Command_callback, Connection_read,
         Connection_finalize, Control_start, Control_interrupt, Control_stop, socketVars
<1>. QED  BY <1>1, <1>2, <1>3, <1>4

\* A run leaves the others alone.
LEMMA OwnFrame ==
    ASSUME TypeOK, NEW c \in Controls, NEW d \in Controls, c # d,
           ControlStep(c) \/ Control_start(c) \/ Control_interrupt(c) \/ Control_stop(c)
    PROVE  /\ control'[d] = control[d] /\ command'[d] = command[d] /\ queue'[d] = queue[d]
           /\ trigger'[d] = trigger[d] /\ link'[d] = link[d]
           /\ toCollector'[d] = toCollector[d] /\ toControl'[d] = toControl[d]
<1>. USE DEF Pop, Push, Write, socketVars
<1>0. ControlsTyped /\ SocketsTyped
  BY DEF TypeOK
<1>1. CASE Control_doConnect(c)
  <2>1. /\ command' = command /\ trigger' = trigger /\ toCollector' = toCollector /\ toControl' = toControl
        /\ control'[d] = control[d] /\ link'[d] = link[d]
    BY <1>0, <1>1 DEF Control_doConnect, ControlsTyped, SocketsTyped
  <2>2. queue'[d] = queue[d]
    BY <1>0, <1>1 DEF Control_doConnect, ControlsTyped
  <2>. QED  BY <2>1, <2>2
<1>2. CASE Control_doSendDescriptor(c)
  BY <1>0, <1>2, WriteEnded DEF Control_doSendDescriptor, ControlsTyped, SocketsTyped
<1>3. CASE Control_doRequestSession(c)
  BY <1>0, <1>3, WriteEnded DEF Control_doRequestSession, ControlsTyped, SocketsTyped
<1>4. CASE Control_doSetSession(c)
  BY <1>0, <1>4 DEF Control_doSetSession, ControlsTyped, SocketsTyped
<1>5. CASE Control_doCommand(c)
  BY <1>0, <1>5, WriteEnded DEF Control_doCommand, ControlsTyped, SocketsTyped
<1>6. CASE Control_doCollectorStatus(c) \/ Control_doList(c)
  BY <1>0, <1>6 DEF Control_doCollectorStatus, Control_doList, ControlsTyped, SocketsTyped
<1>7. CASE Control_doQuit(c) \/ Control_doAddDeviceThrows(c) \/ Control_interrupt(c) \/ Control_stop(c)
  BY <1>0, <1>7 DEF Control_doQuit, Control_doAddDeviceThrows, Control_interrupt, Control_stop,
     ControlsTyped, SocketsTyped
<1>8. CASE Command_callback(c) \/ Connection_finalize(c) \/ Control_start(c)
  BY <1>0, <1>8 DEF Command_callback, Connection_finalize, OnClose, Control_start, ControlsTyped, SocketsTyped
<1>9. CASE Connection_read(c)
  BY <1>0, <1>9 DEF Connection_read, ControlsTyped, SocketsTyped
<1>. QED  BY <1>1, <1>2, <1>3, <1>4, <1>5, <1>6, <1>7, <1>8, <1>9 DEF ControlStep

LEMMA OwnSteps ==
    ASSUME TypeOK, \A x \in Controls : RunInv(x), NEW c \in Controls,
           ControlStep(c) \/ Control_start(c) \/ Control_interrupt(c) \/ Control_stop(c)
    PROVE  \A x \in Controls : RunInv(x)'
<1>1. RunInv(c)'
  BY OwnStages, OwnDescriptor, OwnAsked DEF RunInv
<1>2. ASSUME NEW d \in Controls, d # c PROVE RunInv(d)'
  BY <1>2, OwnFrame, OwnAsked, OthersStay DEF RunInv
<1>. QED  BY <1>1, <1>2

-----------------------------------------------------------------------------
(* The steps of the collector.                                             *)

\* What the collector writes to a run.
LEMMA ToControlHas ==
    ASSUME TypeOK, NEW c \in Controls, NEW S, NEW m \in Said, ToControl(c, m)
    PROVE  /\ Has(toControl'[c], S) => (Has(toControl[c], S) \/ m \in S)
           /\ m \notin S => Less(toControl'[c], toControl[c], S)
           /\ ~Has(toControl[c], S) => Once(toControl'[c], S)
           /\ \A d \in Controls : d # c => toControl'[d] = toControl[d]
<1>1. toControl[c] \in Seq(Said) /\ toControl \in [Controls -> Seq(Said)]
  BY DEF TypeOK, SocketsTyped
<1>2. CASE toControl' = toControl
  BY <1>2, LessSame DEF Has, Once
<1>3. CASE toControl' = [toControl EXCEPT ![c] = Append(@, m)]
  <2>1. toControl'[c] = Append(toControl[c], m)
    BY <1>1, <1>3
  <2>. QED  BY <1>1, <1>3, <2>1, AppendHas
<1>. QED  BY <1>2, <1>3 DEF ToControl

\* The read of a descriptor, or its timeout.
LEMMA ReadDescriptorKeeps ==
    ASSUME TypeOK, NEW c \in Controls, RunInv(c), UDSServer_readDescriptor(c)
    PROVE  RunInv(c)'
<1>0. /\ toCollector[c] \in Seq(Sent) /\ toCollector \in [Controls -> Seq(Sent)]
      /\ link \in [Controls -> {"none", "backlog", "reading", "client", "detached", "closed"}]
  BY DEF TypeOK, SocketsTyped
<1>1. /\ control' = control /\ command' = command /\ queue' = queue /\ trigger' = trigger
      /\ toControl' = toControl /\ asked' = asked /\ link[c] = "reading"
  BY DEF UDSServer_readDescriptor, controlVars, collectorVars
<1>2. ~(control[c] = "new" \/ Has(queue[c], {"Connect"}))
  BY <1>1 DEF RunInv, DescriptorFirst
<1>3. \A S : Less(queue[c], queue[c], S) /\ Less(toControl[c], toControl[c], S)
  BY LessSame
<1>4. CASE /\ toCollector[c] # <<>>
           /\ toCollector' = [toCollector EXCEPT ![c] = Tail(@)]
           /\ link' = [link EXCEPT ![c] = "client"]
  <2>1. toCollector'[c] = Tail(toCollector[c]) /\ link'[c] = "client"
    BY <1>0, <1>4
  <2>2. ~Has(queue[c], {"SendDescriptor"})
    BY <1>4 DEF RunInv, DescriptorFirst
  <2>3. Introduced(toCollector[c])
    BY <1>1, <2>2 DEF RunInv, DescriptorFirst
  <2>4. \A S : Less(toCollector'[c], toCollector[c], S)
    BY <1>0, <1>4, <2>1, TailHas
  <2>5. OneStage(c)'
    BY <1>1, <1>3, <2>4, StageKept DEF RunInv
  <2>6. DescriptorFirst(c)'
    BY <1>1, <1>2, <2>1, <2>2, <2>3 DEF DescriptorFirst, Introduced
  <2>. QED  BY <2>1, <2>5, <2>6 DEF RunInv, NothingAsked
<1>5. CASE toCollector' = toCollector /\ link' = [link EXCEPT ![c] = "closed"]
           /\ toCollector[c] = <<>>
  <2>1. link'[c] = "closed"
    BY <1>0, <1>5
  <2>2. \A S : Less(toCollector'[c], toCollector[c], S)
    BY <1>5, LessSame
  <2>3. OneStage(c)'
    BY <1>1, <1>3, <2>2, StageKept DEF RunInv
  <2>4. DescriptorFirst(c)'
    BY <1>1, <1>2, <1>5, <2>1 DEF DescriptorFirst
  <2>. QED  BY <2>1, <2>3, <2>4 DEF RunInv, NothingAsked
<1>. QED  BY <1>4, <1>5 DEF UDSServer_readDescriptor

\* The read of a request.
LEMMA ReadRequestKeeps ==
    ASSUME TypeOK, NEW c \in Controls, RunInv(c), ControlClient_read(c)
    PROVE  RunInv(c)'
<1>0. /\ toCollector[c] \in Seq(Sent) /\ toCollector \in [Controls -> Seq(Sent)]
      /\ command[c] \notin Opening \cup Said \cup {"Quit", "Descriptor", "RequestSession"}
  BY RunTypes DEF TypeOK, SocketsTyped
<1>1. /\ control' = control /\ command' = command /\ queue' = queue /\ trigger' = trigger
      /\ link' = link /\ link[c] = "client" /\ toCollector[c] # <<>>
      /\ toCollector' = [toCollector EXCEPT ![c] = Tail(@)]
  BY DEF ControlClient_read, controlVars
<1>2. toCollector'[c] = Tail(toCollector[c])
  BY <1>0, <1>1
<1>3. \A S : /\ Has(toCollector[c], S) <=> (Head(toCollector[c]) \in S \/ Has(toCollector'[c], S))
             /\ Less(toCollector'[c], toCollector[c], S)
             /\ (Once(toCollector[c], S) /\ Head(toCollector[c]) \in S) => ~Has(toCollector'[c], S)
  BY <1>0, <1>1, <1>2, TailHas
<1>4. DescriptorFirst(c)'
  BY <1>1, <1>3 DEF RunInv, DescriptorFirst, Less
<1>5. NothingAsked(c)'
  BY <1>1 DEF NothingAsked
<1>6. Head(toCollector[c]) \in {"RequestSession", command[c]}
  <2>1. Head(toCollector[c]) \in Sent
    BY <1>0, <1>1
  <2>2. Head(toCollector[c]) \notin {"Descriptor"}
    BY <1>1, <1>3 DEF RunInv, DescriptorFirst
  <2>3. Head(toCollector[c]) \notin CommandActions \ {command[c]}
    BY <1>3 DEF RunInv, OneStage
  <2>. QED  BY <2>1, <2>2, <2>3 DEF Sent
<1>7. /\ Once(queue[c], Opening)' /\ Once(queue[c], {command[c]})'
      /\ Once(toCollector[c], {"RequestSession"})' /\ Once(toCollector[c], {command[c]})'
      /\ (~Has(toCollector[c], CommandActions \ {command[c]}))'
  BY <1>1, <1>3 DEF RunInv, OneStage, Less, Opening
<1>8. CASE Head(toCollector[c]) = "RequestSession"
  <2>1. asked' = asked \cup {<<c, "session">>} /\ ToControl(c, "SetSession")
    BY <1>8 DEF ControlClient_read
  <2>2. Has(toCollector[c], {"RequestSession"}) /\ ~Has(toCollector'[c], {"RequestSession"})
    BY <1>3, <1>8 DEF RunInv, OneStage
  <2>3. "asking" \in Stages(c)
    BY <2>2 DEF Stages
  <2>4. ~Has(toControl[c], {"SetSession"})
    BY <2>3 DEF RunInv, OneStage, Stages
  <2>5. Once(toControl'[c], {"SetSession"})
    BY <2>1, <2>4, ToControlHas DEF Said
  <2>6. Stages(c)' \subseteq (Stages(c) \ {"asking"}) \cup {"granted"}
    BY <1>1, <1>3, <2>1, <2>2 DEF Stages, Less
  <2>7. OneStage(c)'
    BY <1>1, <1>7, <2>3, <2>5, <2>6, StageMoved DEF RunInv, Late
  <2>. QED  BY <1>4, <1>5, <2>7 DEF RunInv
<1>9. CASE Head(toCollector[c]) = command[c]
  <2>1. asked' = asked \cup {<<c, "command">>} /\ toControl' = toControl
    BY <1>0, <1>9 DEF ControlClient_read
  <2>2. Has(toCollector[c], {command[c]}) /\ ~Has(toCollector'[c], {command[c]})
    BY <1>3, <1>9 DEF RunInv, OneStage
  <2>3. "sent" \in Stages(c)
    BY <2>2 DEF Stages
  <2>4. trigger[c] # "waiting"
    BY <2>3 DEF RunInv, OneStage, Late
  <2>5. Once(toControl'[c], {"SetSession"})
    BY <2>1 DEF RunInv, OneStage
  <2>6. Stages(c)' \subseteq (Stages(c) \ {"sent"}) \cup {"asked"}
    BY <1>1, <1>3, <2>1, <2>2 DEF Stages, Less
  <2>7. OneStage(c)'
    BY <1>1, <1>7, <2>3, <2>4, <2>5, <2>6, StageMoved DEF RunInv
  <2>. QED  BY <1>4, <1>5, <2>7 DEF RunInv
<1>. QED  BY <1>6, <1>8, <1>9

\* The end of a client, and what the rest of the collector writes to one.
LEMMA AnswersKeep ==
    ASSUME TypeOK, NEW c \in Controls, RunInv(c),
           ControlClient_end(c) \/ Collector_list(c) \/ Collector_answer(c)
    PROVE  RunInv(c)'
<1>0. /\ link \in [Controls -> {"none", "backlog", "reading", "client", "detached", "closed"}]
      /\ toControl \in [Controls -> Seq(Said)]
  BY DEF TypeOK, SocketsTyped
<1>1. /\ control' = control /\ command' = command /\ queue' = queue /\ trigger' = trigger
      /\ toCollector' = toCollector /\ asked' = asked
  BY DEF ControlClient_end, Collector_list, Collector_answer, Service!Answer, controlVars, collectorVars
<1>2. Less(toControl'[c], toControl[c], {"SetSession"})
  <2>1. CASE ControlClient_end(c)
    BY <2>1, LessSame DEF ControlClient_end
  <2>2. CASE Collector_list(c)
    BY <2>2, ToControlHas DEF Collector_list, Said
  <2>3. CASE Collector_answer(c)
    <3>1. PICK m \in {"CollectorStatus", "SessionStatus"} : ToControl(c, m)
      BY <2>3 DEF Collector_answer
    <3>. QED  BY <3>1, ToControlHas DEF Said
  <2>. QED  BY <2>1, <2>2, <2>3
<1>3. link'[c] = link[c] \/ (link[c] \in {"client", "detached"} /\ link'[c] \in {"detached", "closed"})
  <2>1. CASE ControlClient_end(c)
    BY <1>0, <2>1 DEF ControlClient_end, LinkAtEnd
  <2>2. CASE Collector_list(c)
    BY <2>2 DEF Collector_list
  <2>3. CASE Collector_answer(c)
    <3>1. PICK r : link' = [link EXCEPT ![c] = LinkAfter(c, r)]
      BY <2>3 DEF Collector_answer
    <3>. QED  BY <1>0, <3>1 DEF LinkAfter
  <2>. QED  BY <2>1, <2>2, <2>3
<1>4. \A S : Less(queue[c], queue[c], S) /\ Less(toCollector[c], toCollector[c], S)
  BY LessSame
<1>5. OneStage(c)'
  BY <1>1, <1>2, <1>4, StageKept DEF RunInv
<1>6. DescriptorFirst(c)'
  BY <1>1, <1>3 DEF RunInv, DescriptorFirst
<1>7. NothingAsked(c)'
  BY <1>1, <1>3 DEF RunInv, NothingAsked
<1>. QED  BY <1>5, <1>6, <1>7 DEF RunInv

\* What the collector does for a run leaves the others alone.
LEMMA ClientFrame ==
    ASSUME TypeOK, NEW c \in Controls, NEW d \in Controls, c # d, ClientStep(c)
    PROVE  /\ control'[d] = control[d] /\ command'[d] = command[d] /\ queue'[d] = queue[d]
           /\ trigger'[d] = trigger[d] /\ link'[d] = link[d]
           /\ toCollector'[d] = toCollector[d] /\ toControl'[d] = toControl[d]
           /\ \A r : r[1] = d => (r \in asked' <=> r \in asked)
<1>0. SocketsTyped
  BY DEF TypeOK
<1>1. control' = control /\ command' = command /\ queue' = queue /\ trigger' = trigger
  BY DEF ClientStep, UDSServer_readDescriptor, ControlClient_read, ControlClient_end, Collector_list,
         Collector_answer, controlVars
<1>2. CASE UDSServer_readDescriptor(c)
  BY <1>0, <1>1, <1>2 DEF UDSServer_readDescriptor, SocketsTyped, collectorVars
<1>3. CASE ControlClient_read(c)
  <2>1. link' = link /\ toCollector'[d] = toCollector[d]
    BY <1>0, <1>3 DEF ControlClient_read, SocketsTyped
  <2>2. toControl'[d] = toControl[d]
    BY <1>0, <1>3 DEF ControlClient_read, ToControl, SocketsTyped
  <2>3. \E r : r[1] = c /\ asked' = asked \cup {r}
    BY <1>3 DEF ControlClient_read
  <2>. QED  BY <1>1, <2>1, <2>2, <2>3
<1>4. CASE ControlClient_end(c)
  BY <1>0, <1>1, <1>4 DEF ControlClient_end, SocketsTyped, collectorVars
<1>5. CASE Collector_list(c)
  BY <1>0, <1>1, <1>5 DEF Collector_list, ToControl, SocketsTyped
<1>6. CASE Collector_answer(c)
  <2>1. toCollector' = toCollector /\ asked' = asked
    BY <1>6 DEF Collector_answer, Service!Answer
  <2>2. PICK r, m : link' = [link EXCEPT ![c] = LinkAfter(c, r)] /\ ToControl(c, m)
    BY <1>6 DEF Collector_answer
  <2>. QED  BY <1>0, <1>1, <2>1, <2>2 DEF ToControl, SocketsTyped
<1>. QED  BY <1>2, <1>3, <1>4, <1>5, <1>6 DEF ClientStep

LEMMA ClientSteps ==
    ASSUME TypeOK, \A x \in Controls : RunInv(x), NEW c \in Controls, ClientStep(c)
    PROVE  \A x \in Controls : RunInv(x)'
<1>1. RunInv(c)'
  BY ReadDescriptorKeeps, ReadRequestKeeps, AnswersKeep DEF ClientStep
<1>2. ASSUME NEW d \in Controls, d # c PROVE RunInv(d)'
  BY <1>2, ClientFrame, OthersStay DEF RunInv
<1>. QED  BY <1>1, <1>2

\* The server and the process.
LEMMA ServerSteps ==
    ASSUME TypeOK, \A x \in Controls : RunInv(x), BacklogKept,
           UDSServer_accept \/ CollectorGoes \/ Collector_boot
    PROVE  \A x \in Controls : RunInv(x)'
<1>. SUFFICES ASSUME NEW c \in Controls PROVE RunInv(c)'
  OBVIOUS
<1>0. link \in [Controls -> {"none", "backlog", "reading", "client", "detached", "closed"}]
      /\ backlog \in Seq(Controls)
  BY DEF TypeOK, SocketsTyped
<1>1. /\ control' = control /\ command' = command /\ queue' = queue /\ trigger' = trigger
      /\ toCollector' = toCollector /\ toControl' = toControl
  BY DEF UDSServer_accept, CollectorGoes, Collector_boot, controlVars
<1>2. asked' = asked \/ asked' = {}
  BY DEF UDSServer_accept, CollectorGoes, Collector_boot, Service!End, Service!Boot, collectorVars
<1>3. \A S : /\ Less(queue[c], queue[c], S) /\ Less(toCollector[c], toCollector[c], S)
             /\ Less(toControl[c], toControl[c], S)
  BY LessSame
<1>4. OneStage(c)'
  BY <1>1, <1>2, <1>3, StageKept DEF RunInv
<1>5. \/ link'[c] = link[c]
      \/ link[c] = "backlog" /\ link'[c] = "reading"
      \/ link[c] # "none" /\ link'[c] = "closed"
  <2>1. CASE UDSServer_accept
    <3>1. backlog # <<>> /\ Head(backlog) = backlog[1] /\ 1 \in DOMAIN backlog
      BY <1>0, <2>1 DEF UDSServer_accept
    <3>2. link[Head(backlog)] = "backlog"
      BY <3>1 DEF BacklogKept
    <3>3. link' = link \/ link' = [link EXCEPT ![Head(backlog)] = "reading"]
      BY <2>1 DEF UDSServer_accept
    <3>. QED  BY <1>0, <3>2, <3>3
  <2>2. CASE CollectorGoes
    BY <2>2 DEF CollectorGoes
  <2>3. CASE Collector_boot
    BY <2>3 DEF Collector_boot
  <2>. QED  BY <2>1, <2>2, <2>3
<1>6. DescriptorFirst(c)'
  BY <1>1, <1>5 DEF RunInv, DescriptorFirst
<1>7. NothingAsked(c)'
  BY <1>2, <1>5 DEF RunInv, NothingAsked
<1>. QED  BY <1>4, <1>6, <1>7 DEF RunInv

-----------------------------------------------------------------------------
(* The backlog.                                                            *)

LEMMA BacklogOwn ==
    ASSUME TypeOK, \A x \in Controls : RunInv(x), BacklogKept, NEW c \in Controls,
           ControlStep(c) \/ Control_start(c) \/ Control_interrupt(c) \/ Control_stop(c)
    PROVE  BacklogKept'
<1>0. link \in [Controls -> {"none", "backlog", "reading", "client", "detached", "closed"}]
      /\ backlog \in Seq(Controls)
  BY DEF TypeOK, SocketsTyped
<1>1. CASE UNCHANGED <<link, backlog>>
  BY <1>1 DEF BacklogKept
<1>2. CASE Control_doConnect(c) /\ link' = [link EXCEPT ![c] = "backlog"] /\ backlog' = Append(backlog, c)
  <2>1. link[c] = "none"
    <3>1. queue[c] \in Seq(ControlActions) /\ queue[c] # <<>> /\ Head(queue[c]) = "Connect"
      BY <1>2, RunTypes DEF Control_doConnect, Handles
    <3>2. Has(queue[c], {"Connect"})
      BY <3>1, TailHas
    <3>. QED  BY <3>2 DEF RunInv, DescriptorFirst
  <2>. DEFINE s == Append(backlog, c)
  <2>2. /\ Len(backlog) \in Nat
        /\ DOMAIN backlog = 1..Len(backlog)
        /\ DOMAIN s = 1..(Len(backlog) + 1)
        /\ s[Len(backlog) + 1] = c
        /\ \A i \in 1..Len(backlog) : s[i] = backlog[i] /\ backlog[i] \in Controls
    BY <1>0
  <2>. HIDE DEF s
  <2>3. \A i \in DOMAIN backlog : backlog[i] # c
    BY <2>1 DEF BacklogKept
  <2>4. \A i \in DOMAIN s : (i \in DOMAIN backlog /\ s[i] = backlog[i]) \/ (i = Len(backlog) + 1 /\ s[i] = c)
    BY <2>2
  <2>5. ASSUME NEW i \in DOMAIN s PROVE link'[s[i]] = "backlog"
    <3>1. CASE i \in DOMAIN backlog /\ s[i] = backlog[i]
      <4>1. backlog[i] \in Controls /\ backlog[i] # c /\ link[backlog[i]] = "backlog"
        BY <2>2, <2>3, <3>1 DEF BacklogKept
      <4>. QED  BY <1>0, <1>2, <3>1, <4>1
    <3>2. CASE s[i] = c
      BY <1>0, <1>2, <3>2
    <3>. QED  BY <2>4, <3>1, <3>2
  <2>6. \A i, j \in DOMAIN s : s[i] = s[j] => i = j
    BY <2>3, <2>4 DEF BacklogKept
  <2>. QED  BY <1>2, <2>5, <2>6 DEF BacklogKept, s
<1>3. \/ UNCHANGED <<link, backlog>>
      \/ Control_doConnect(c) /\ link' = [link EXCEPT ![c] = "backlog"] /\ backlog' = Append(backlog, c)
  <2>1. CASE Control_doConnect(c)
    BY <2>1 DEF Control_doConnect, socketVars
  <2>2. CASE ~Control_doConnect(c)
    BY <2>2 DEF ControlStep, Control_doSendDescriptor, Control_doRequestSession,
         Control_doSetSession, Control_doCommand, Control_doCollectorStatus, Control_doList,
         Control_doQuit, Control_doAddDeviceThrows, Command_callback, Connection_read,
         Connection_finalize, Control_start, Control_interrupt, Control_stop, socketVars
  <2>. QED  BY <2>1, <2>2
<1>. QED  BY <1>1, <1>2, <1>3

LEMMA BacklogClient ==
    ASSUME TypeOK, BacklogKept, NEW c \in Controls, ClientStep(c)
    PROVE  BacklogKept'
<1>0. link \in [Controls -> {"none", "backlog", "reading", "client", "detached", "closed"}]
      /\ backlog \in Seq(Controls)
  BY DEF TypeOK, SocketsTyped
<1>1. backlog' = backlog
  BY DEF ClientStep, UDSServer_readDescriptor, ControlClient_read, ControlClient_end, Collector_list,
         Collector_answer
<1>2. link' = link \/ (link[c] # "backlog" /\ \E l : link' = [link EXCEPT ![c] = l])
  <2>1. CASE UDSServer_readDescriptor(c)
    BY <2>1 DEF UDSServer_readDescriptor
  <2>2. CASE ControlClient_read(c) \/ Collector_list(c)
    BY <2>2 DEF ControlClient_read, Collector_list
  <2>3. CASE ControlClient_end(c)
    BY <2>3 DEF ControlClient_end
  <2>4. CASE Collector_answer(c)
    <3>1. PICK r : link' = [link EXCEPT ![c] = LinkAfter(c, r)]
      BY <2>4 DEF Collector_answer
    <3>2. link[c] = "backlog" => LinkAfter(c, r) = link[c]
      BY DEF LinkAfter
    <3>. QED  BY <1>0, <3>1, <3>2
  <2>. QED  BY <2>1, <2>2, <2>3, <2>4 DEF ClientStep
<1>3. ASSUME NEW i \in DOMAIN backlog PROVE link'[backlog[i]] = "backlog"
  <2>1. backlog[i] \in Controls /\ link[backlog[i]] = "backlog"
    BY <1>0 DEF BacklogKept
  <2>. QED  BY <1>0, <1>2, <2>1
<1>. QED  BY <1>1, <1>3 DEF BacklogKept

LEMMA BacklogServer ==
    ASSUME TypeOK, BacklogKept, UDSServer_accept \/ CollectorGoes \/ Collector_boot
    PROVE  BacklogKept'
<1>0. link \in [Controls -> {"none", "backlog", "reading", "client", "detached", "closed"}]
      /\ backlog \in Seq(Controls)
  BY DEF TypeOK, SocketsTyped
<1>1. CASE UNCHANGED <<link, backlog>>
  BY <1>1 DEF BacklogKept
<1>2. CASE backlog' = <<>>
  BY <1>2 DEF BacklogKept
<1>3. CASE backlog # <<>> /\ link' = [link EXCEPT ![Head(backlog)] = "reading"] /\ backlog' = Tail(backlog)
  <2>. DEFINE t == Tail(backlog)
  <2>1. /\ Len(backlog) \in Nat
        /\ DOMAIN backlog = 1..Len(backlog)
        /\ DOMAIN t = 1..(Len(backlog) - 1)
        /\ Head(backlog) = backlog[1] /\ 1 \in DOMAIN backlog
        /\ \A i \in 1..(Len(backlog) - 1) : t[i] = backlog[i + 1]
        /\ \A i \in DOMAIN backlog : backlog[i] \in Controls
    BY <1>0, <1>3
  <2>. HIDE DEF t
  <2>2. ASSUME NEW i \in DOMAIN t PROVE i + 1 \in DOMAIN backlog /\ i + 1 # 1 /\ t[i] = backlog[i + 1]
    BY <2>1
  <2>3. ASSUME NEW i \in DOMAIN t PROVE link'[t[i]] = "backlog"
    <3>1. t[i] \in Controls /\ t[i] # Head(backlog) /\ link[t[i]] = "backlog"
      BY <2>1, <2>2 DEF BacklogKept
    <3>. QED  BY <1>0, <1>3, <3>1
  <2>4. ASSUME NEW i \in DOMAIN t, NEW j \in DOMAIN t, t[i] = t[j] PROVE i = j
    <3>1. i + 1 = j + 1
      BY <2>2, <2>4 DEF BacklogKept
    <3>. QED  BY <2>1, <3>1
  <2>. QED  BY <1>3, <2>3, <2>4 DEF BacklogKept, t
<1>. QED  BY <1>1, <1>2, <1>3 DEF UDSServer_accept, CollectorGoes, Collector_boot

-----------------------------------------------------------------------------
(* The socket of a request that is waiting.                                *)

LEMMA PendingOwn ==
    ASSUME TypeOK, \A x \in Controls : RunInv(x), PendingKeepsSocket, NEW c \in Controls,
           ControlStep(c) \/ Control_start(c) \/ Control_interrupt(c) \/ Control_stop(c)
    PROVE  PendingKeepsSocket'
<1>1. asked' = asked /\ answers' = answers /\ alive' = alive
  BY OwnAsked DEF RunInv
<1>2. SUFFICES ASSUME NEW d \in Controls, alive, Pending(d) # {} PROVE link'[d] \in {"client", "detached"}
  BY <1>1 DEF PendingKeepsSocket, Pending
<1>3. link[d] \in {"client", "detached"}
  BY <1>2 DEF PendingKeepsSocket
<1>4. CASE Control_doConnect(c)
  <2>1. link[c] = "none"
    <3>1. queue[c] \in Seq(ControlActions) /\ queue[c] # <<>> /\ Head(queue[c]) = "Connect"
      BY <1>4, RunTypes DEF Control_doConnect, Handles
    <3>2. Has(queue[c], {"Connect"})
      BY <3>1, TailHas
    <3>. QED  BY <3>2 DEF RunInv, DescriptorFirst
  <2>2. d # c
    BY <1>3, <2>1
  <2>. QED  BY <1>3, <2>2, OwnFrame
<1>5. CASE ~Control_doConnect(c)
  <2>1. link' = link
    BY <1>5 DEF ControlStep, Control_doSendDescriptor, Control_doRequestSession,
         Control_doSetSession, Control_doCommand, Control_doCollectorStatus, Control_doList,
         Control_doQuit, Control_doAddDeviceThrows, Command_callback, Connection_read,
         Connection_finalize, Control_start, Control_interrupt, Control_stop, socketVars
  <2>. QED  BY <1>3, <2>1
<1>. QED  BY <1>4, <1>5

LEMMA PendingClient ==
    ASSUME TypeOK, \A x \in Controls : RunInv(x), PendingKeepsSocket, NEW c \in Controls, ClientStep(c)
    PROVE  PendingKeepsSocket'
<1>0. /\ link \in [Controls -> {"none", "backlog", "reading", "client", "detached", "closed"}]
      /\ answers \in [Requests -> Seq({"Okay", "Error"})] /\ asked \subseteq Requests
  BY DEF TypeOK, SocketsTyped, CollectorTyped, Service!ServiceTypeOK
<1>1. alive' = alive
  BY DEF ClientStep, UDSServer_readDescriptor, ControlClient_read, ControlClient_end, Collector_list,
         Collector_answer, Service!Answer, collectorVars
<1>2. CASE UDSServer_readDescriptor(c)
  <2>1. asked' = asked /\ answers' = answers /\ link[c] = "reading"
    BY <1>2 DEF UDSServer_readDescriptor, collectorVars
  <2>2. Pending(c) = {} /\ \A d \in Controls : Pending(d)' = Pending(d)
    BY <2>1 DEF RunInv, NothingAsked, Pending
  <2>3. \A d \in Controls : d # c => link'[d] = link[d]
    BY <1>2, ClientFrame DEF ClientStep
  <2>. QED  BY <1>1, <2>2, <2>3 DEF PendingKeepsSocket
<1>3. CASE ControlClient_read(c)
  <2>1. link' = link /\ link[c] = "client" /\ answers' = answers
    BY <1>3 DEF ControlClient_read
  <2>2. \A d \in Controls : d # c => Pending(d)' = Pending(d)
    BY <1>3, <2>1, ClientFrame DEF ClientStep, Pending
  <2>. QED  BY <1>1, <2>1, <2>2 DEF PendingKeepsSocket
<1>4. CASE ControlClient_end(c)
  <2>1. asked' = asked /\ answers' = answers /\ link' = [link EXCEPT ![c] = LinkAtEnd(c)]
    BY <1>4 DEF ControlClient_end, collectorVars
  <2>2. \A d \in Controls : Pending(d)' = Pending(d)
    BY <2>1 DEF Pending
  <2>3. Pending(c) # {} => link'[c] = "detached"
    BY <1>0, <2>1 DEF LinkAtEnd
  <2>4. \A d \in Controls : d # c => link'[d] = link[d]
    BY <1>0, <2>1
  <2>. QED  BY <1>1, <2>2, <2>3, <2>4 DEF PendingKeepsSocket
<1>5. CASE Collector_list(c)
  <2>1. asked' = asked /\ answers' = answers /\ link' = link
    BY <1>5 DEF Collector_list
  <2>. QED  BY <1>1, <2>1 DEF PendingKeepsSocket, Pending
<1>6. CASE Collector_answer(c)
  <2>1. PICK r \in Pending(c), s \in {"Okay", "Error"} :
          Service!Answer(r, s) /\ link' = [link EXCEPT ![c] = LinkAfter(c, r)]
    BY <1>6 DEF Collector_answer
  <2>2. asked' = asked /\ r \in Requests /\ answers' = [answers EXCEPT ![r] = <<s>>]
    BY <1>0, <2>1 DEF Service!Answer, Pending
  <2>3. answers'[r] # <<>> /\ \A q \in Requests : q # r => answers'[q] = answers[q]
    BY <1>0, <2>2
  <2>4. \A d \in Controls : Pending(d)' = Pending(d) \ {r}
    BY <1>0, <2>2, <2>3 DEF Pending
  <2>5. link[c] \in {"client", "detached"} \/ ~alive
    BY <2>1 DEF PendingKeepsSocket
  <2>6. Pending(c) \ {r} # {} => link'[c] = link[c]
    BY <1>0, <2>1 DEF LinkAfter
  <2>7. \A d \in Controls : d # c => link'[d] = link[d]
    BY <1>0, <2>1
  <2>8. ASSUME NEW d \in Controls, alive, Pending(d) \ {r} # {} PROVE link'[d] \in {"client", "detached"}
    BY <2>5, <2>6, <2>7, <2>8 DEF PendingKeepsSocket
  <2>. QED  BY <1>1, <2>4, <2>8 DEF PendingKeepsSocket
<1>. QED  BY <1>2, <1>3, <1>4, <1>5, <1>6 DEF ClientStep

LEMMA PendingServer ==
    ASSUME TypeOK, \A x \in Controls : RunInv(x), BacklogKept, PendingKeepsSocket,
           UDSServer_accept \/ CollectorGoes \/ Collector_boot
    PROVE  PendingKeepsSocket'
<1>0. link \in [Controls -> {"none", "backlog", "reading", "client", "detached", "closed"}]
      /\ backlog \in Seq(Controls)
  BY DEF TypeOK, SocketsTyped
<1>1. CASE UDSServer_accept
  <2>1. asked' = asked /\ answers' = answers /\ alive' = alive
    BY <1>1 DEF UDSServer_accept, collectorVars
  <2>2. backlog # <<>> /\ Head(backlog) = backlog[1] /\ 1 \in DOMAIN backlog /\ Head(backlog) \in Controls
    BY <1>0, <1>1 DEF UDSServer_accept
  <2>3. link[Head(backlog)] = "backlog"
    BY <2>2 DEF BacklogKept
  <2>4. link' = link \/ link' = [link EXCEPT ![Head(backlog)] = "reading"]
    BY <1>1 DEF UDSServer_accept
  <2>5. \A d \in Controls : link[d] \in {"client", "detached"} => link'[d] = link[d]
    BY <1>0, <2>2, <2>3, <2>4
  <2>. QED  BY <2>1, <2>5 DEF PendingKeepsSocket, Pending
<1>2. CASE CollectorGoes
  <2>1. ~alive'
    BY <1>2 DEF CollectorGoes, Service!End
  <2>. QED  BY <2>1 DEF PendingKeepsSocket
<1>3. CASE Collector_boot
  <2>1. asked' = {}
    BY <1>3 DEF Collector_boot, Service!Boot
  <2>. QED  BY <2>1 DEF PendingKeepsSocket, Pending
<1>. QED  BY <1>1, <1>2, <1>3

-----------------------------------------------------------------------------
(* The theorems.                                                           *)

ControlInv ==
    TypeOK /\ BacklogKept /\ PendingKeepsSocket /\ \A c \in Controls : RunInv(c)

LEMMA ControlInit == Init => ControlInv
<1>. SUFFICES ASSUME Init PROVE ControlInv
  OBVIOUS
<1>1. TypeOK
  BY TypeInit
<1>2. BacklogKept
  BY DEF Init, BacklogKept
<1>3. asked = {}
  BY DEF Init, Service!ServiceInit
<1>4. PendingKeepsSocket
  BY <1>3 DEF PendingKeepsSocket, Pending
<1>5. ASSUME NEW c \in Controls PROVE RunInv(c)
  <2>1. /\ queue[c] = <<>> /\ toCollector[c] = <<>> /\ toControl[c] = <<>>
        /\ trigger[c] = "waiting" /\ control[c] = "new" /\ link[c] = "none"
    BY DEF Init
  <2>2. \A S : ~Has(<<>>, S) /\ Once(<<>>, S)
    BY DEF Has, Once
  <2>3. Stages(c) \subseteq {"new"}
    BY <1>3, <2>1, <2>2 DEF Stages
  <2>4. OneStage(c)
    BY <2>1, <2>2, <2>3 DEF OneStage, Late
  <2>5. DescriptorFirst(c) /\ NothingAsked(c)
    BY <1>3, <2>1, <2>2 DEF DescriptorFirst, NothingAsked
  <2>. QED  BY <2>4, <2>5 DEF RunInv
<1>. QED  BY <1>1, <1>2, <1>4, <1>5 DEF ControlInv

LEMMA ControlInductive == ControlInv /\ [Next]_vars => ControlInv'
<1>. SUFFICES ASSUME ControlInv, [Next]_vars PROVE ControlInv'
  OBVIOUS
<1>0. TypeOK /\ BacklogKept /\ PendingKeepsSocket /\ \A c \in Controls : RunInv(c)
  BY DEF ControlInv
<1>1. TypeOK'
  BY <1>0, TypeStep
<1>2. CASE UNCHANGED vars
  <2>1. /\ control' = control /\ command' = command /\ queue' = queue /\ trigger' = trigger
        /\ link' = link /\ toCollector' = toCollector /\ toControl' = toControl /\ backlog' = backlog
        /\ asked' = asked /\ answers' = answers /\ alive' = alive
    BY <1>2 DEF vars, controlVars, socketVars, collectorVars
  <2>2. ASSUME NEW c \in Controls PROVE RunInv(c)'
    BY <1>0, <2>1, OthersStay DEF RunInv
  <2>3. BacklogKept' /\ PendingKeepsSocket'
    BY <1>0, <2>1 DEF BacklogKept, PendingKeepsSocket, Pending
  <2>. QED  BY <1>1, <2>2, <2>3 DEF ControlInv
<1>3. ASSUME NEW c \in Controls,
             ControlStep(c) \/ Control_start(c) \/ Control_interrupt(c) \/ Control_stop(c)
      PROVE  ControlInv'
  BY <1>0, <1>1, <1>3, OwnSteps, BacklogOwn, PendingOwn DEF ControlInv
<1>4. ASSUME NEW c \in Controls, ClientStep(c)
      PROVE  ControlInv'
  BY <1>0, <1>1, <1>4, ClientSteps, BacklogClient, PendingClient DEF ControlInv
<1>5. CASE UDSServer_accept \/ CollectorGoes \/ Collector_boot
  BY <1>0, <1>1, <1>5, ServerSteps, BacklogServer, PendingServer DEF ControlInv
<1>. QED  BY <1>2, <1>3, <1>4, <1>5 DEF Next, Collector_quit, Collector_end

\* The occurrences of a command that is there at most once.
LEMMA OccurrencesOnce ==
    ASSUME NEW q, NEW x
    PROVE  /\ ~Has(q, {x}) => Cardinality(Occurrences(x, q)) = 0
           /\ Once(q, {x}) => Cardinality(Occurrences(x, q)) \in {0, 1}
<1>1. ASSUME ~Has(q, {x}) PROVE Cardinality(Occurrences(x, q)) = 0
  <2>1. Occurrences(x, q) = {}
    BY <1>1 DEF Has, Occurrences
  <2>. QED  BY <2>1, FS_EmptySet
<1>2. ASSUME Once(q, {x}), Has(q, {x}) PROVE Cardinality(Occurrences(x, q)) = 1
  <2>1. PICK i \in DOMAIN q : q[i] \in {x}
    BY <1>2 DEF Has
  <2>2. Occurrences(x, q) = {i}
    BY <1>2, <2>1 DEF Once, Occurrences
  <2>. QED  BY <2>2, FS_Singleton
<1>. QED  BY <1>1, <1>2

LEMMA SentOnce == ControlInv => CommandSentOnce
<1>. SUFFICES ASSUME ControlInv, NEW c \in Controls
              PROVE  Cardinality(Occurrences(command[c], queue[c]))
                      + Cardinality(Occurrences(command[c], toCollector[c]))
                      + (IF <<c, "command">> \in asked THEN 1 ELSE 0)
                        <= IF trigger[c] = "done" THEN 1 ELSE 0
  BY DEF CommandSentOnce
<1>1. OneStage(c)
  BY DEF ControlInv, RunInv
<1>. DEFINE inQueue == Cardinality(Occurrences(command[c], queue[c]))
            onSocket == Cardinality(Occurrences(command[c], toCollector[c]))
            isAsked == IF <<c, "command">> \in asked THEN 1 ELSE 0
<1>2. /\ ~Has(queue[c], {command[c]}) => inQueue = 0
      /\ inQueue \in {0, 1}
      /\ ~Has(toCollector[c], {command[c]}) => onSocket = 0
      /\ onSocket \in {0, 1}
  BY <1>1, OccurrencesOnce DEF OneStage
<1>3. trigger[c] \in {"waiting", "fired", "done"}
  BY DEF ControlInv, TypeOK, ControlsTyped
<1>4. CASE trigger[c] # "done"
  <2>1. "queued" \notin Stages(c) /\ "sent" \notin Stages(c) /\ "asked" \notin Stages(c)
    <3>1. CASE trigger[c] = "waiting"
      BY <1>1, <3>1 DEF OneStage, Late
    <3>2. CASE trigger[c] = "fired"
      <4>1. "fired" \in Stages(c)
        BY <3>2 DEF Stages
      <4>. QED  BY <1>1, <4>1 DEF OneStage
    <3>. QED  BY <1>3, <1>4, <3>1, <3>2
  <2>2. ~Has(queue[c], {command[c]}) /\ ~Has(toCollector[c], {command[c]}) /\ isAsked = 0
    BY <2>1 DEF Stages
  <2>3. inQueue = 0 /\ onSocket = 0
    BY <1>2, <2>2
  <2>. HIDE DEF inQueue, onSocket, isAsked
  <2>4. inQueue + onSocket + isAsked <= 0
    BY <2>2, <2>3
  <2>. QED  BY <1>4, <2>4 DEF inQueue, onSocket, isAsked
<1>5. CASE trigger[c] = "done"
  <2>1. /\ ~(inQueue = 1 /\ onSocket = 1)
        /\ ~(inQueue = 1 /\ isAsked = 1)
        /\ ~(onSocket = 1 /\ isAsked = 1)
    <3>1. inQueue = 1 => "queued" \in Stages(c)
      BY <1>2 DEF Stages
    <3>2. onSocket = 1 => "sent" \in Stages(c)
      BY <1>2 DEF Stages
    <3>3. isAsked = 1 => "asked" \in Stages(c)
      BY DEF Stages
    <3>. HIDE DEF inQueue, onSocket, isAsked
    <3>. QED  BY <1>1, <3>1, <3>2, <3>3 DEF OneStage
  <2>2. isAsked \in {0, 1}
    OBVIOUS
  <2>. HIDE DEF inQueue, onSocket, isAsked
  <2>3. inQueue + onSocket + isAsked <= 1
    BY <1>2, <2>1, <2>2
  <2>. QED  BY <1>5, <2>3 DEF inQueue, onSocket, isAsked
<1>. QED  BY <1>4, <1>5

\* A run sends its command at most once and only in a session, for any number of
\* runs and whatever fails: the stages of a run exclude each other.
THEOREM CommandSentOnceSafe == Spec => []CommandSentOnce
<1>1. Spec => []ControlInv
  BY ControlInit, ControlInductive, PTL DEF Spec
<1>. QED  BY <1>1, SentOnce, PTL

\* A request that is waiting for its answer has a socket to be answered on, for
\* any number of clients that come, hang up and are killed.
THEOREM PendingKeepsSocketSafe == Spec => []PendingKeepsSocket
<1>1. Spec => []ControlInv
  BY ControlInit, ControlInductive, PTL DEF Spec
<1>2. ControlInv => PendingKeepsSocket
  BY DEF ControlInv
<1>. QED  BY <1>1, <1>2, PTL

-----------------------------------------------------------------------------
(* The answer on its way.                                                  *)

Status == "CollectorStatus"

\* An element of S comes before every element of T.
Ahead(q, S, T) == \E i \in DOMAIN q : q[i] \in S /\ \A j \in DOMAIN q : j <= i => q[j] \notin T

\* Run c will handle the message before anything of T: it is in the queue ahead
\* of T, or it is to be read and nothing of T is in the queue.
Coming(c, message, T) ==
    \/ Ahead(queue[c], {message}, T)
    \/ ~Has(queue[c], T) /\ Ahead(toControl[c], {message}, T)

\* The status of the command was written: it is to be read, to be handled, or
\* printed.
StatusOut(c) == Has(toControl[c], {Status}) \/ Has(queue[c], {Status}) \/ Has(output[c], {Status})

\* A status that was written will be printed before the run quits.
StatusComes(c) ==
    answers[<<c, "command">>] # <<>> =>
        /\ <<c, "command">> \in asked /\ command[c] # "QuitCollector"
        /\ control[c] = "running" => Has(output[c], {Status}) \/ Coming(c, Status, {"Quit"})
        /\ control[c] = "exited" => Has(output[c], {Status})

\* A list that was written will be printed before the status.
ListComes(c) ==
    c \in listed =>
        /\ <<c, "command">> \in asked
        /\ control[c] = "running" => Has(output[c], {"List"}) \/ Coming(c, "List", {"Quit", Status})
        /\ control[c] = "exited" => Has(output[c], {"List"})

\* Nothing is left of a run that has its status, but the command that was read.
StatusLast(c) == StatusOut(c) => Stages(c) \subseteq {"asked"} /\ <<c, "command">> \notin Pending(c)

\* Why a run may end.
MayQuit(c) ==
    \/ Has(output[c], {Status})
    \/ command[c] = "QuitCollector"
    \/ link[c] \in {"none", "closed"} /\ ~Has(queue[c], {"Connect"})

QuitReason(c) == (control[c] = "exited" \/ Has(queue[c], {"Quit"})) => MayQuit(c)

\* The end of the file is seen when everything is read.
ReadOut(c) == source[c] \in {"removing", "removed"} => toControl[c] = <<>> /\ link[c] = "closed"

EmptyBefore(c) == control[c] = "new" => queue[c] = <<>>

AnswerInv(c) ==
    /\ StatusComes(c) /\ ListComes(c) /\ StatusLast(c)
    /\ QuitReason(c) /\ ReadOut(c) /\ EmptyBefore(c)

-----------------------------------------------------------------------------
(* What comes first in a sequence.                                         *)

LEMMA AheadAppend ==
    ASSUME NEW M, NEW q \in Seq(M), NEW e \in M, NEW S, NEW T
    PROVE  /\ Ahead(q, S, T) => Ahead(Append(q, e), S, T)
           /\ (~Has(q, T) /\ e \in S /\ e \notin T) => Ahead(Append(q, e), S, T)
<1>. DEFINE s == Append(q, e)
<1>1. /\ Len(q) \in Nat
      /\ DOMAIN q = 1..Len(q)
      /\ DOMAIN s = 1..(Len(q) + 1)
      /\ s[Len(q) + 1] = e
      /\ \A i \in 1..Len(q) : s[i] = q[i]
  OBVIOUS
<1>. HIDE DEF s
<1>2. ASSUME Ahead(q, S, T) PROVE Ahead(s, S, T)
  <2>1. PICK i \in DOMAIN q : q[i] \in S /\ \A j \in DOMAIN q : j <= i => q[j] \notin T
    BY <1>2 DEF Ahead
  <2>2. i \in DOMAIN s /\ s[i] \in S
    BY <1>1, <2>1
  <2>3. ASSUME NEW j \in DOMAIN s, j <= i PROVE s[j] \notin T
    <3>1. j \in DOMAIN q /\ s[j] = q[j]
      BY <1>1, <2>3
    <3>. QED  BY <2>1, <2>3, <3>1
  <2>. QED  BY <2>2, <2>3 DEF Ahead
<1>3. ASSUME ~Has(q, T), e \in S, e \notin T PROVE Ahead(s, S, T)
  <2>1. Len(q) + 1 \in DOMAIN s /\ s[Len(q) + 1] \in S
    BY <1>1, <1>3
  <2>2. ASSUME NEW j \in DOMAIN s PROVE s[j] \notin T
    <3>1. (j \in DOMAIN q /\ s[j] = q[j]) \/ s[j] = e
      BY <1>1
    <3>. QED  BY <1>3, <3>1 DEF Has
  <2>. QED  BY <2>1, <2>2 DEF Ahead
<1>. QED  BY <1>2, <1>3 DEF s

LEMMA AheadTail ==
    ASSUME NEW M, NEW q \in Seq(M), NEW S, NEW T, Ahead(q, S, T)
    PROVE  /\ q # <<>> /\ Head(q) \notin T
           /\ Head(q) \notin S => Ahead(Tail(q), S, T)
<1>1. PICK i \in DOMAIN q : q[i] \in S /\ \A j \in DOMAIN q : j <= i => q[j] \notin T
  BY DEF Ahead
<1>2. q # <<>> /\ 1 \in DOMAIN q /\ 1 <= i /\ Head(q) = q[1]
  OBVIOUS
<1>. DEFINE t == Tail(q)
<1>3. /\ Len(q) \in Nat /\ DOMAIN q = 1..Len(q)
      /\ DOMAIN t = 1..(Len(q) - 1)
      /\ \A j \in 1..(Len(q) - 1) : t[j] = q[j + 1]
  BY <1>2
<1>. HIDE DEF t
<1>4. ASSUME Head(q) \notin S PROVE Ahead(t, S, T)
  <2>1. i # 1
    BY <1>1, <1>2, <1>4
  <2>2. i - 1 \in DOMAIN t /\ t[i - 1] = q[i]
    <3>1. i - 1 \in 1..(Len(q) - 1) /\ (i - 1) + 1 = i
      BY <1>3, <2>1
    <3>. QED  BY <1>3, <3>1
  <2>3. ASSUME NEW j \in DOMAIN t, j <= i - 1 PROVE t[j] \notin T
    <3>1. j + 1 \in DOMAIN q /\ j + 1 <= i /\ t[j] = q[j + 1]
      BY <1>3, <2>3
    <3>. QED  BY <1>1, <3>1
  <2>. QED  BY <1>1, <2>2, <2>3 DEF Ahead
<1>. QED  BY <1>1, <1>2, <1>4 DEF t

\* What is coming is handled, or is still coming.
LEMMA PopComing ==
    ASSUME TypeOK, NEW c \in Controls, queue[c] # <<>>, NEW m, NEW T, Coming(c, m, T),
           Pop(c, <<>>), UNCHANGED toControl
    PROVE  Head(queue[c]) \notin T /\ (Head(queue[c]) # m => Coming(c, m, T)')
<1>1. queue[c] \in Seq(ControlActions) /\ queue \in [Controls -> Seq(ControlActions)]
  BY DEF TypeOK, ControlsTyped
<1>2. queue'[c] = Tail(queue[c])
  BY <1>1, PopType DEF Pop
<1>3. CASE Ahead(queue[c], {m}, T)
  BY <1>1, <1>2, <1>3, AheadTail DEF Coming
<1>4. CASE ~Has(queue[c], T) /\ Ahead(toControl[c], {m}, T)
  <2>1. Head(queue[c]) \notin T /\ ~Has(queue'[c], T)
    BY <1>1, <1>2, <1>4, TailHas
  <2>. QED  BY <1>4, <2>1 DEF Coming
<1>. QED  BY <1>3, <1>4 DEF Coming

\* What is coming stays so if what is pushed or written is behind it.
LEMMA ReadComing ==
    ASSUME TypeOK, NEW c \in Controls, toControl[c] # <<>>, NEW m, NEW T, m \notin T, Coming(c, m, T),
           Push(c, Head(toControl[c])), toControl' = [toControl EXCEPT ![c] = Tail(@)]
    PROVE  Coming(c, m, T)'
<1>. DEFINE e == Head(toControl[c])
<1>1. /\ queue[c] \in Seq(ControlActions) /\ toControl[c] \in Seq(Said)
      /\ e \in ControlActions
      /\ queue'[c] = Append(queue[c], e)
      /\ toControl'[c] = Tail(toControl[c])
  BY Messages DEF TypeOK, ControlsTyped, SocketsTyped, Push
<1>2. CASE Ahead(queue[c], {m}, T)
  BY <1>1, <1>2, AheadAppend DEF Coming
<1>3. CASE ~Has(queue[c], T) /\ Ahead(toControl[c], {m}, T)
  <2>1. e \notin T /\ (e \notin {m} => Ahead(toControl'[c], {m}, T))
    BY <1>1, <1>3, AheadTail
  <2>2. ~Has(queue'[c], T)
    BY <1>1, <1>3, <2>1, AppendHas
  <2>3. e \in {m} => Ahead(queue'[c], {m}, T)
    BY <1>1, <1>3, <2>1, AheadAppend
  <2>. QED  BY <2>1, <2>2, <2>3 DEF Coming
<1>. QED  BY <1>2, <1>3 DEF Coming

LEMMA WriteComing ==
    ASSUME TypeOK, NEW c \in Controls, NEW m, NEW T, NEW e \in Said, ToControl(c, e), queue' = queue
    PROVE  /\ Coming(c, m, T) => Coming(c, m, T)'
           /\ (e = m /\ m \notin T /\ ~Has(queue[c], T) /\ ~Has(toControl[c], T) /\ ~HasEnded(c)) => Coming(c, m, T)'
<1>1. toControl[c] \in Seq(Said) /\ toControl \in [Controls -> Seq(Said)]
  BY DEF TypeOK, SocketsTyped
<1>2. CASE HasEnded(c)
  BY <1>2 DEF ToControl, Coming
<1>3. CASE ~HasEnded(c)
  <2>1. toControl'[c] = Append(toControl[c], e)
    BY <1>1, <1>3 DEF ToControl
  <2>. QED  BY <1>1, <2>1, AheadAppend DEF Coming
<1>. QED  BY <1>2, <1>3

-----------------------------------------------------------------------------
(* The answer under the steps of tkmcontrol.                               *)

\* A run that has not been heard yet has no answer.
LEMMA NotHeard ==
    ASSUME NEW c \in Controls, OneStage(c), AnswerInv(c), NEW s \in Stages(c), s # "asked"
    PROVE  <<c, "command">> \notin asked /\ answers[<<c, "command">>] = <<>> /\ c \notin listed /\ ~StatusOut(c)
<1>1. "asked" \notin Stages(c)
  BY DEF OneStage
<1>2. <<c, "command">> \notin asked
  BY <1>1 DEF Stages
<1>. QED  BY <1>2 DEF AnswerInv, StatusComes, ListComes, StatusLast

\* A step of it leaves it without one.
LEMMA NotHeardKept ==
    ASSUME NEW c \in Controls, answers'[<<c, "command">>] = <<>>, c \notin listed', ~StatusOut(c)',
           QuitReason(c)', ReadOut(c)', EmptyBefore(c)'
    PROVE  AnswerInv(c)'
  BY DEF AnswerInv, StatusComes, ListComes, StatusLast

\* What keeps a reason to quit.
LEMMA ReasonKept ==
    ASSUME NEW c \in Controls, QuitReason(c),
           control'[c] = "exited" => (control[c] = "exited" \/ Has(queue[c], {"Quit"})),
           Has(queue'[c], {"Quit"}) => Has(queue[c], {"Quit"}),
           command'[c] = command[c],
           Has(output[c], {Status}) => Has(output'[c], {Status}),
           Has(queue'[c], {"Connect"}) => Has(queue[c], {"Connect"}),
           \/ link'[c] \in {link[c], "closed"}
           \/ link[c] \notin {"none", "closed"}
           \/ Has(queue[c], {"Connect"})
    PROVE  QuitReason(c)'
  BY DEF QuitReason, MayQuit

\* The steps of a run that has not been heard.
LEMMA OwnReason ==
    ASSUME TypeOK, NEW c \in Controls, OneStage(c), DescriptorFirst(c), AnswerInv(c),
           NEW e \in ControlActions,
           \/ queue' = queue
           \/ queue[c] # <<>> /\ (Pop(c, <<>>) \/ Pop(c, <<e>>))
           \/ Push(c, e),
           e # Status, e \notin {"Quit", "Connect"},
           control'[c] \in {control[c], "killed", "failed"},
           command' = command,
           Has(output[c], {Status}) => Has(output'[c], {Status}),
           \/ link'[c] = link[c]
           \/ Has(queue[c], {"Connect"})
    PROVE  QuitReason(c)'
<1>1. ASSUME NEW S \in {{"Quit"}, {"Connect"}} PROVE Less(queue'[c], queue[c], S)
  <2>1. e \notin S
    OBVIOUS
  <2>2. CASE queue' = queue
    BY <2>2, LessSame
  <2>3. CASE queue[c] # <<>> /\ (Pop(c, <<>>) \/ Pop(c, <<e>>))
    BY <2>1, <2>3, QueueLess
  <2>4. CASE Push(c, e)
    BY <2>1, <2>4, PushHas
  <2>. QED  BY <2>2, <2>3, <2>4
<1>2. /\ Has(queue'[c], {"Quit"}) => Has(queue[c], {"Quit"})
      /\ Has(queue'[c], {"Connect"}) => Has(queue[c], {"Connect"})
  BY <1>1 DEF Less
<1>. QED  BY <1>2, ReasonKept DEF AnswerInv

\* What a handler prints.
LEMMA PrintHas ==
    ASSUME TypeOK, NEW c \in Controls, NEW m \in Printed,
           output' = output \/ output' = [output EXCEPT ![c] = Append(@, m)]
    PROVE  \A S : /\ Has(output[c], S) => Has(output'[c], S)
                  /\ Has(output'[c], S) => (Has(output[c], S) \/ m \in S)
                  /\ (output' # output /\ m \in S) => Has(output'[c], S)
<1>1. output \in [Controls -> Seq(Printed)] /\ output[c] \in Seq(Printed)
  BY DEF TypeOK, ControlsTyped
<1>2. CASE output' = output
  BY <1>2
<1>3. CASE output' = [output EXCEPT ![c] = Append(@, m)]
  <2>1. output'[c] = Append(output[c], m)
    BY <1>1, <1>3
  <2>. QED  BY <1>1, <2>1, AppendHas
<1>. QED  BY <1>2, <1>3

\* Nothing of the status appears without being written.
LEMMA StatusNotOut ==
    ASSUME TypeOK, NEW c \in Controls, ~StatusOut(c), toControl'[c] = toControl[c],
           NEW e \in ControlActions, e # Status,
           \/ queue' = queue
           \/ queue[c] # <<>> /\ (Pop(c, <<>>) \/ Pop(c, <<e>>))
           \/ Push(c, e),
           NEW m \in Printed, m # Status,
           output' = output \/ output' = [output EXCEPT ![c] = Append(@, m)]
    PROVE  ~StatusOut(c)'
<1>1. ~Has(queue'[c], {Status})
  <2>1. e \notin {Status} /\ ~Has(queue[c], {Status})
    BY DEF StatusOut
  <2>2. CASE queue' = queue
    BY <2>1, <2>2
  <2>3. CASE queue[c] # <<>> /\ (Pop(c, <<>>) \/ Pop(c, <<e>>))
    <3>1. Less(queue'[c], queue[c], {Status})
      BY <2>1, <2>3, QueueLess
    <3>. QED  BY <2>1, <3>1 DEF Less
  <2>4. CASE Push(c, e)
    BY <2>1, <2>4, PushHas
  <2>. QED  BY <2>2, <2>3, <2>4
<1>2. ~Has(output'[c], {Status})
  BY PrintHas DEF StatusOut
<1>. QED  BY <1>1, <1>2 DEF StatusOut

\* Before a run is heard, its steps are no answer's business.
LEMMA OwnUnheard ==
    ASSUME TypeOK, NEW c \in Controls, RunInv(c), AnswerInv(c),
           \/ Control_start(c) \/ Control_doConnect(c) \/ Control_doSendDescriptor(c)
           \/ Control_doRequestSession(c) \/ Control_doSetSession(c)
           \/ Command_callback(c) \/ Control_doCommand(c)
    PROVE  AnswerInv(c)'
<1>. USE DEF Handles, RunInv
<1>0. /\ queue[c] \in Seq(ControlActions)
      /\ command[c] \in CommandActions
      /\ command[c] \notin Opening \cup Said \cup {"Quit", "Descriptor", "RequestSession"}
  BY RunTypes
<1>00. control \in [Controls -> {"new", "running", "stopped", "exited", "failed", "killed"}]
       /\ source \in [Controls -> {"idle", "ready", "removing", "removed"}]
       /\ link \in [Controls -> {"none", "backlog", "reading", "client", "detached", "closed"}]
       /\ trigger \in [Controls -> {"waiting", "fired", "done"}]
  BY DEF TypeOK, ControlsTyped, SocketsTyped
<1>a. answers' = answers /\ listed' = listed /\ command' = command /\ toControl' = toControl
  BY DEF Control_start, Control_doConnect, Control_doSendDescriptor, Control_doRequestSession,
         Control_doSetSession, Command_callback, Control_doCommand, socketVars, collectorVars
<1>b. {"Connection failed", "Requested", "Requested failed"} \subseteq Printed /\ Status \in Printed
      /\ Status \notin {"Connection failed", "Requested", "Requested failed", "Quit", "SendDescriptor", "RequestSession", "Connect"}
      /\ command[c] # Status
      /\ {"Quit", "SendDescriptor", "RequestSession", "Connect", command[c]} \subseteq ControlActions
  BY <1>0, Messages DEF Printed, Status, Said
\* What has not been heard has no answer, and the step brings none.
<1>c. ASSUME NEW s \in Stages(c), s # "asked",
             NEW e \in ControlActions, e # Status,
             \/ queue' = queue
             \/ queue[c] # <<>> /\ (Pop(c, <<>>) \/ Pop(c, <<e>>))
             \/ Push(c, e),
             NEW m \in Printed, m # Status,
             output' = output \/ output' = [output EXCEPT ![c] = Append(@, m)],
             QuitReason(c)', ReadOut(c)', control'[c] # "new"
      PROVE  AnswerInv(c)'
  <2>1. answers[<<c, "command">>] = <<>> /\ c \notin listed /\ ~StatusOut(c)
    BY <1>c, NotHeard
  <2>2. ~StatusOut(c)'
    BY <1>a, <1>c, <2>1, StatusNotOut
  <2>. QED  BY <1>a, <1>c, <2>1, <2>2, NotHeardKept DEF EmptyBefore
\* A handler that prints nothing and pushes no Quit.
<1>d. ASSUME NEW s \in Stages(c), s # "asked",
             NEW e \in ControlActions, e # Status, e \notin {"Quit", "Connect"},
             \/ queue[c] # <<>> /\ (Pop(c, <<>>) \/ Pop(c, <<e>>))
             \/ Push(c, e),
             output' = output, control'[c] \in {control[c], "killed"}, control[c] = "running",
             source' = source, link' = link
      PROVE  AnswerInv(c)'
  <2>1. QuitReason(c)'
    BY <1>a, <1>d, OwnReason
  <2>2. ReadOut(c)'
    BY <1>a, <1>d DEF AnswerInv, ReadOut
  <2>. QED  BY <1>b, <1>c, <1>d, <2>1, <2>2
<1>1. CASE Control_start(c)
  <2>1. control[c] = "new" /\ control'[c] = "running" /\ Push(c, "Connect")
        /\ output' = output /\ source' = source /\ link' = link
    BY <1>00, <1>1 DEF Control_start, socketVars
  <2>2. "new" \in Stages(c)
    BY <2>1 DEF Stages
  <2>3. ~Has(queue[c], {"Quit"})
    BY <2>1, Nothing DEF AnswerInv, EmptyBefore
  <2>4. ~Has(queue'[c], {"Quit"})
    BY <1>b, <2>1, <2>3, PushHas
  <2>5. QuitReason(c)'
    BY <2>1, <2>4 DEF QuitReason
  <2>6. ReadOut(c)'
    BY <1>a, <2>1 DEF AnswerInv, ReadOut
  <2>. QED  BY <1>b, <1>c, <2>1, <2>2, <2>5, <2>6
<1>2. CASE Control_doConnect(c)
  <2>1. queue[c] # <<>> /\ Head(queue[c]) = "Connect" /\ control[c] = "running"
    BY <1>2 DEF Control_doConnect
  <2>2. Has(queue[c], {"Connect"}) /\ Has(queue[c], Opening)
    BY <1>0, <2>1, TailHas DEF Opening
  <2>3. "opening" \in Stages(c)
    BY <2>2 DEF Stages
  <2>4. link[c] = "none"
    BY <2>2 DEF DescriptorFirst
  <2>5. source[c] \notin {"removing", "removed"}
    BY <2>4 DEF AnswerInv, ReadOut
  <2>6. CASE control' = [control EXCEPT ![c] = "failed"] /\ UNCHANGED <<queue, source, output, socketVars>>
    <3>1. QuitReason(c)'
      BY <1>00, <1>a, <2>6, ReasonKept DEF AnswerInv, socketVars
    <3>2. ReadOut(c)'
      BY <2>5, <2>6 DEF ReadOut
    <3>. QED  BY <1>00, <1>b, <1>c, <2>3, <2>6, <3>1, <3>2
  <2>7. CASE /\ output' = [output EXCEPT ![c] = Append(@, "Connection failed")]
             /\ Pop(c, <<"Quit">>) /\ UNCHANGED <<control, source, socketVars>>
    <3>1. ~Has(queue'[c], {"Connect"})
      <4>1. Once(queue[c], {"Connect"})
        BY DEF OneStage, Once, Opening
      <4>. QED  BY <1>b, <2>1, <2>7, <4>1, QueueLess
    <3>2. QuitReason(c)'
      BY <2>4, <2>7, <3>1 DEF QuitReason, MayQuit, socketVars
    <3>3. ReadOut(c)'
      BY <2>5, <2>7 DEF ReadOut
    <3>. QED  BY <1>b, <1>c, <2>1, <2>3, <2>7, <3>2, <3>3
  <2>8. CASE /\ source' = [source EXCEPT ![c] = "ready"]
             /\ Pop(c, <<"SendDescriptor">>) /\ UNCHANGED <<control, output>>
    <3>1. QuitReason(c)'
      BY <1>a, <1>b, <2>1, <2>2, <2>8, OwnReason
    <3>2. ReadOut(c)'
      BY <1>00, <2>8 DEF ReadOut
    <3>. QED  BY <1>b, <1>c, <2>1, <2>3, <2>8, <3>1, <3>2
  <2>. QED  BY <1>2, <2>6, <2>7, <2>8 DEF Control_doConnect
<1>3. CASE Control_doSendDescriptor(c)
  <2>1. queue[c] # <<>> /\ Head(queue[c]) = "SendDescriptor" /\ control[c] = "running"
        /\ output' = output /\ source' = source /\ link' = link /\ control'[c] \in {control[c], "killed"}
    BY <1>3, WriteEnded DEF Control_doSendDescriptor
  <2>2. Has(queue[c], {"SendDescriptor"}) /\ Has(queue[c], Opening)
    BY <1>0, <2>1, TailHas DEF Opening
  <2>3. "opening" \in Stages(c)
    BY <2>2 DEF Stages
  <2>4. CASE link[c] # "closed"
    <3>1. Pop(c, <<"RequestSession">>)
      BY <1>3, <2>4 DEF Control_doSendDescriptor
    <3>. QED  BY <1>b, <1>d, <2>1, <2>3, <3>1
  <2>5. CASE link[c] = "closed"
    <3>1. Pop(c, <<"Quit">>)
      BY <1>3, <2>5 DEF Control_doSendDescriptor
    <3>2. ~Has(queue[c], {"Connect"})
      BY <2>5 DEF DescriptorFirst
    <3>3. ~Has(queue'[c], {"Connect"})
      <4>1. Less(queue'[c], queue[c], {"Connect"})
        BY <1>b, <2>1, <3>1, QueueLess
      <4>. QED  BY <3>2, <4>1 DEF Less
    <3>4. QuitReason(c)'
      BY <2>1, <2>5, <3>3 DEF QuitReason, MayQuit
    <3>5. ReadOut(c)'
      BY <1>a, <2>1 DEF AnswerInv, ReadOut
    <3>. QED  BY <1>b, <1>c, <2>1, <2>3, <3>1, <3>4, <3>5
  <2>. QED  BY <2>4, <2>5
<1>4. CASE Control_doRequestSession(c) \/ Control_doSetSession(c)
  <2>1. queue[c] # <<>> /\ Head(queue[c]) \in Opening /\ control[c] = "running" /\ Pop(c, <<>>)
        /\ output' = output /\ source' = source /\ link' = link /\ control'[c] \in {control[c], "killed"}
    BY <1>4, WriteEnded DEF Control_doRequestSession, Control_doSetSession, socketVars, Opening
  <2>2. Has(queue[c], Opening)
    BY <1>0, <2>1, TailHas
  <2>3. "opening" \in Stages(c)
    BY <2>2 DEF Stages
  <2>. QED  BY <1>b, <1>d, <2>1, <2>3
<1>5. CASE Command_callback(c)
  <2>1. trigger[c] = "fired" /\ control[c] = "running" /\ Push(c, command[c])
        /\ output' = output /\ source' = source /\ link' = link /\ control' = control
    BY <1>5 DEF Command_callback, socketVars
  <2>2. "fired" \in Stages(c)
    BY <2>1 DEF Stages
  <2>3. command[c] \notin {"Quit", "Connect"}
    BY <1>0 DEF Opening
  <2>. QED  BY <1>b, <1>d, <2>1, <2>2, <2>3
<1>6. CASE Control_doCommand(c)
  <2>1. queue[c] # <<>> /\ Head(queue[c]) = command[c] /\ control[c] = "running"
        /\ source' = source /\ link' = link /\ control'[c] \in {control[c], "killed"}
    BY <1>6, WriteEnded DEF Control_doCommand
  <2>2. Has(queue[c], {command[c]})
    BY <1>0, <2>1, TailHas
  <2>3. "queued" \in Stages(c)
    BY <2>2 DEF Stages
  <2>4. CASE command[c] # "QuitCollector"
    BY <1>6, <1>b, <1>d, <2>1, <2>3, <2>4 DEF Control_doCommand
  <2>5. CASE command[c] = "QuitCollector"
    <3>1. PICK m \in {"Requested", "Requested failed"} : output' = [output EXCEPT ![c] = Append(@, m)]
      BY <1>6, <2>5 DEF Control_doCommand
    <3>2. Pop(c, <<"Quit">>)
      BY <1>6, <2>5 DEF Control_doCommand
    <3>3. QuitReason(c)'
      BY <1>a, <2>5 DEF QuitReason, MayQuit
    <3>4. ReadOut(c)'
      BY <1>a, <2>1 DEF AnswerInv, ReadOut
    <3>. QED  BY <1>b, <1>c, <2>1, <2>3, <3>1, <3>2, <3>3, <3>4
  <2>. QED  BY <2>4, <2>5
<1>. QED  BY <1>1, <1>2, <1>3, <1>4, <1>5, <1>6

\* A step that adds nothing a stage depends on.
LEMMA StagesLess ==
    ASSUME NEW c \in Controls, command'[c] = command[c],
           control'[c] = "new" => control[c] = "new",
           \A S \in {Opening, {command[c]}} : Less(queue'[c], queue[c], S),
           \A S \in {{"RequestSession"}, {command[c]}} : Less(toCollector'[c], toCollector[c], S),
           Less(toControl'[c], toControl[c], {"SetSession"}),
           trigger'[c] = trigger[c],
           <<c, "command">> \in asked' => <<c, "command">> \in asked
    PROVE  Stages(c)' \subseteq Stages(c)
  BY DEF Stages, Less

LEMMA PendingCommand ==
    ASSUME NEW c
    PROVE  <<c, "command">> \in Pending(c) <=> (<<c, "command">> \in asked /\ answers[<<c, "command">>] = <<>>)
  BY DEF Pending

\* A step that leaves what was said on its way, or prints it.
LEMMA AnswerKept ==
    ASSUME NEW c \in Controls, AnswerInv(c),
           answers'[<<c, "command">>] = answers[<<c, "command">>],
           c \in listed' <=> c \in listed,
           <<c, "command">> \in asked' <=> <<c, "command">> \in asked,
           command'[c] = command[c],
           control'[c] \in {control[c], "killed", "stopped", "failed"},
           \A S : Has(output[c], S) => Has(output'[c], S),
           control[c] = "running" =>
               /\ Coming(c, Status, {"Quit"}) => Has(output'[c], {Status}) \/ Coming(c, Status, {"Quit"})'
               /\ Coming(c, "List", {"Quit", Status}) => Has(output'[c], {"List"}) \/ Coming(c, "List", {"Quit", Status})',
           StatusOut(c)' => StatusOut(c),
           Stages(c)' \subseteq Stages(c),
           QuitReason(c)', ReadOut(c)', EmptyBefore(c)'
    PROVE  AnswerInv(c)'
<1>1. StatusComes(c)'
  BY DEF AnswerInv, StatusComes
<1>2. ListComes(c)'
  BY DEF AnswerInv, ListComes
<1>3. StatusLast(c)'
  <2>1. <<c, "command">> \in Pending(c)' => <<c, "command">> \in Pending(c)
    BY DEF Pending
  <2>. QED  BY <2>1 DEF AnswerInv, StatusLast
<1>. QED  BY <1>1, <1>2, <1>3 DEF AnswerInv

\* The handlers of what the collector said.
LEMMA OwnPrints ==
    ASSUME TypeOK, NEW c \in Controls, RunInv(c), AnswerInv(c), Control_doCollectorStatus(c) \/ Control_doList(c)
    PROVE  AnswerInv(c)'
<1>. USE DEF Handles, RunInv
<1>0. /\ queue[c] \in Seq(ControlActions)
      /\ command[c] \notin Opening \cup Said \cup {"Quit", "Descriptor", "RequestSession"}
  BY RunTypes
<1>1. /\ answers' = answers /\ listed' = listed /\ asked' = asked /\ command' = command /\ control' = control
      /\ trigger' = trigger /\ source' = source /\ link' = link /\ toCollector' = toCollector
      /\ toControl' = toControl /\ control[c] = "running" /\ queue[c] # <<>>
      /\ (Pop(c, <<>>) \/ Pop(c, <<"Quit">>))
  BY DEF Control_doCollectorStatus, Control_doList, socketVars, collectorVars
<1>2. ASSUME NEW S, "Quit" \notin S PROVE Less(queue'[c], queue[c], S)
  BY <1>1, <1>2, QueueLess, Messages
<1>3. Stages(c)' \subseteq Stages(c)
  <2>1. \A S \in {Opening, {command[c]}} : Less(queue'[c], queue[c], S)
    BY <1>0, <1>2 DEF Opening
  <2>2. \A S : Less(toCollector'[c], toCollector[c], S) /\ Less(toControl'[c], toControl[c], S)
    BY <1>1, LessSame
  <2>. QED  BY <1>1, <2>1, <2>2, StagesLess
<1>4. ReadOut(c)' /\ EmptyBefore(c)'
  BY <1>1 DEF AnswerInv, ReadOut, EmptyBefore
<1>5. Has(queue'[c], {"Connect"}) => Has(queue[c], {"Connect"})
  BY <1>2 DEF Less
<1>6. Status # "List" /\ {Status, "List"} \subseteq Printed
  BY DEF Status, Printed
<1>7. CASE Head(queue[c]) = Status
  <2>1. output' = [output EXCEPT ![c] = Append(@, Status)]
    BY <1>7 DEF Control_doCollectorStatus, Control_doList, Final, Status
  <2>2. \A S : Has(output[c], S) => Has(output'[c], S)
    BY <1>6, <2>1, PrintHas
  <2>3. Has(output'[c], {Status})
    <3>1. output'[c] = Append(output[c], Status) /\ output[c] \in Seq(Printed)
      BY <2>1 DEF TypeOK, ControlsTyped
    <3>. QED  BY <1>6, <3>1, AppendHas
  <2>4. ~Coming(c, "List", {"Quit", Status})
    <3>1. Has(queue[c], {"Quit", Status})
      BY <1>0, <1>1, <1>7, TailHas
    <3>2. ~Ahead(queue[c], {"List"}, {"Quit", Status})
      BY <1>0, <1>7, AheadTail
    <3>. QED  BY <3>1, <3>2 DEF Coming
  <2>5. QuitReason(c)'
    BY <2>3 DEF QuitReason, MayQuit
  <2>6. StatusOut(c)
    BY <1>0, <1>1, <1>7, TailHas DEF StatusOut
  <2>. QED  BY <1>1, <1>3, <1>4, <2>2, <2>3, <2>4, <2>5, <2>6, AnswerKept
<1>8. CASE Head(queue[c]) # Status
  <2>1. PICK m \in {"List"} : (Head(queue[c]) = m /\ output' = [output EXCEPT ![c] = Append(@, m)])
                              \/ (Head(queue[c]) = "SessionStatus" /\ output' = output)
    BY <1>8 DEF Control_doCollectorStatus, Control_doList, Final, Status
  <2>2. Pop(c, <<>>)
    BY <1>8 DEF Control_doCollectorStatus, Control_doList, Final, Status
  <2>3. \A S : /\ Has(output[c], S) => Has(output'[c], S)
               /\ Has(output'[c], S) => (Has(output[c], S) \/ m \in S)
    BY <1>6, <2>1, PrintHas
  <2>4. Head(queue[c]) = "List" => Has(output'[c], {"List"})
    <3>1. ASSUME Head(queue[c]) = "List" PROVE Has(output'[c], {"List"})
      <4>1. output' = [output EXCEPT ![c] = Append(@, "List")]
        BY <2>1, <3>1
      <4>2. output'[c] = Append(output[c], "List") /\ output[c] \in Seq(Printed)
        BY <4>1 DEF TypeOK, ControlsTyped
      <4>. QED  BY <1>6, <4>2, AppendHas
    <3>. QED  BY <3>1
  <2>5. /\ Coming(c, Status, {"Quit"}) => Coming(c, Status, {"Quit"})'
        /\ Coming(c, "List", {"Quit", Status}) =>
              Has(output'[c], {"List"}) \/ Coming(c, "List", {"Quit", Status})'
    BY <1>1, <1>8, <2>2, <2>4, PopComing
  <2>6. Less(queue'[c], queue[c], {"Quit"}) /\ Less(queue'[c], queue[c], {Status})
    <3>1. "SetSession" \in ControlActions /\ "SetSession" \notin {"Quit"} /\ "SetSession" \notin {Status}
      BY Messages DEF Status
    <3>. QED  BY <1>1, <2>2, <3>1, QueueLess
  <2>7. QuitReason(c)'
    BY <1>1, <1>5, <2>3, <2>6, ReasonKept DEF AnswerInv, Less
  <2>8. StatusOut(c)' => StatusOut(c)
    BY <1>1, <1>6, <2>3, <2>6 DEF StatusOut, Less
  <2>. QED  BY <1>1, <1>3, <1>4, <2>3, <2>5, <2>7, <2>8, AnswerKept
<1>. QED  BY <1>7, <1>8

\* A run that quits has printed what was written for it.
LEMMA OwnQuits ==
    ASSUME TypeOK, NEW c \in Controls, AnswerInv(c), Control_doQuit(c)
    PROVE  AnswerInv(c)'
<1>1. /\ answers' = answers /\ listed' = listed /\ asked' = asked /\ command' = command /\ queue' = queue
      /\ trigger' = trigger /\ source' = source /\ link' = link /\ toCollector' = toCollector
      /\ toControl' = toControl /\ output' = output /\ control[c] = "running"
      /\ queue[c] # <<>> /\ Head(queue[c]) = "Quit" /\ queue[c] \in Seq(ControlActions)
      /\ control'[c] = "exited"
  BY RunTypes DEF Control_doQuit, Handles, socketVars, collectorVars, TypeOK, ControlsTyped
<1>2. Has(queue[c], {"Quit"}) /\ Has(queue[c], {"Quit", Status})
  BY <1>1, TailHas
<1>3. ~Ahead(queue[c], {Status}, {"Quit"}) /\ ~Ahead(queue[c], {"List"}, {"Quit", Status})
  BY <1>1, AheadTail
<1>4. ~Coming(c, Status, {"Quit"}) /\ ~Coming(c, "List", {"Quit", Status})
  BY <1>2, <1>3 DEF Coming
<1>5. StatusComes(c)' /\ ListComes(c)'
  BY <1>1, <1>4 DEF AnswerInv, StatusComes, ListComes
<1>6. StatusLast(c)'
  <2>1. Stages(c)' \subseteq Stages(c) /\ Pending(c)' = Pending(c)
    BY <1>1 DEF Stages, Pending
  <2>. QED  BY <1>1, <2>1 DEF AnswerInv, StatusLast, StatusOut
<1>7. QuitReason(c)' /\ ReadOut(c)' /\ EmptyBefore(c)'
  BY <1>1, <1>2 DEF AnswerInv, QuitReason, MayQuit, ReadOut, EmptyBefore
<1>. QED  BY <1>5, <1>6, <1>7 DEF AnswerInv

\* The callback of Connection: what was to be read is to be handled, and the end
\* of the file comes when nothing is to be read.
LEMMA OwnReads ==
    ASSUME TypeOK, NEW c \in Controls, RunInv(c), AnswerInv(c), Connection_read(c) \/ Connection_finalize(c)
    PROVE  AnswerInv(c)'
<1>. USE DEF RunInv
<1>0. /\ queue[c] \in Seq(ControlActions) /\ toControl[c] \in Seq(Said)
      /\ command[c] \notin Opening \cup Said \cup {"Quit", "Descriptor", "RequestSession"}
      /\ toControl \in [Controls -> Seq(Said)]
      /\ source \in [Controls -> {"idle", "ready", "removing", "removed"}]
  BY RunTypes DEF TypeOK, ControlsTyped, SocketsTyped
<1>1. /\ answers' = answers /\ listed' = listed /\ asked' = asked /\ command' = command /\ control' = control
      /\ trigger' = trigger /\ link' = link /\ toCollector' = toCollector
      /\ output' = output /\ control[c] = "running"
  BY DEF Connection_read, Connection_finalize, socketVars, collectorVars
<1>2. EmptyBefore(c)' /\ (\A S : Less(toCollector'[c], toCollector[c], S) /\ Less(toControl[c], toControl[c], S)
                                 /\ Less(queue[c], queue[c], S))
  BY <1>1, LessSame DEF EmptyBefore
<1>3. CASE /\ toControl[c] # <<>> /\ Push(c, Head(toControl[c]))
           /\ toControl' = [toControl EXCEPT ![c] = Tail(@)] /\ source' = source /\ source[c] = "ready"
  <2>. DEFINE e == Head(toControl[c])
  <2>1. e \in Said /\ e \in ControlActions /\ e \notin {"Quit", "Connect", command[c]}
    <3>1. e \in Said
      BY <1>0, <1>3
    <3>2. e \notin {"Quit", "Connect"}
      BY <3>1 DEF Said
    <3>. QED  BY <1>0, <3>1, <3>2, Messages
  <2>2. \A S : /\ Has(queue'[c], S) <=> (Has(queue[c], S) \/ e \in S)
               /\ e \notin S => Less(queue'[c], queue[c], S)
    BY <1>3, <2>1, PushHas
  <2>3. \A S : /\ Has(toControl[c], S) <=> (e \in S \/ Has(toControl'[c], S))
               /\ Less(toControl'[c], toControl[c], S)
    <3>1. toControl'[c] = Tail(toControl[c])
      BY <1>0, <1>3
    <3>. QED  BY <1>0, <1>3, <3>1, TailHas
  <2>. HIDE DEF e
  <2>4. QuitReason(c)'
    <3>1. /\ Has(queue'[c], {"Quit"}) => Has(queue[c], {"Quit"})
          /\ Has(queue'[c], {"Connect"}) => Has(queue[c], {"Connect"})
      BY <2>1, <2>2
    <3>. QED  BY <1>1, <3>1, ReasonKept DEF AnswerInv
  <2>5. ReadOut(c)'
    BY <1>3 DEF ReadOut
  <2>6. StatusOut(c)' => StatusOut(c)
    BY <1>1, <2>2, <2>3 DEF StatusOut
  <2>7. CASE e # "SetSession"
    <3>1. e \notin Opening
      BY <2>1, <2>7 DEF Said, Opening
    <3>2. Stages(c)' \subseteq Stages(c)
      <4>1. \A S \in {Opening, {command[c]}} : Less(queue'[c], queue[c], S)
        BY <2>1, <2>2, <3>1
      <4>. QED  BY <1>1, <1>2, <2>3, <4>1, StagesLess
    <3>3. /\ Coming(c, Status, {"Quit"}) => Coming(c, Status, {"Quit"})'
          /\ Coming(c, "List", {"Quit", Status}) => Coming(c, "List", {"Quit", Status})'
      <4>1. Status \notin {"Quit"} /\ "List" \notin {"Quit", Status}
        BY DEF Status
      <4>. QED  BY <1>3, <4>1, ReadComing
    <3>. QED  BY <1>1, <1>2, <2>4, <2>5, <2>6, <3>2, <3>3, AnswerKept
  <2>8. CASE e = "SetSession"
    <3>1. Has(toControl[c], {"SetSession"})
      BY <2>3, <2>8
    <3>2. "granted" \in Stages(c)
      BY <3>1 DEF Stages
    <3>3. answers[<<c, "command">>] = <<>> /\ c \notin listed /\ ~StatusOut(c)
      BY <3>2, NotHeard
    <3>. QED  BY <1>1, <1>2, <2>4, <2>5, <2>6, <3>3, NotHeardKept
  <2>. QED  BY <2>7, <2>8
<1>4. CASE UNCHANGED <<queue, toControl>> /\ source' = [source EXCEPT ![c] = "removing"]
           /\ toControl[c] = <<>> /\ link[c] = "closed"
  <2>1. Stages(c)' \subseteq Stages(c)
    BY <1>1, <1>4 DEF Stages
  <2>2. ReadOut(c)'
    BY <1>1, <1>4 DEF ReadOut
  <2>3. QuitReason(c)' /\ (StatusOut(c)' => StatusOut(c))
    BY <1>1, <1>4 DEF AnswerInv, QuitReason, MayQuit, StatusOut
  <2>4. \A m, T : Coming(c, m, T) => Coming(c, m, T)'
    BY <1>4 DEF Coming
  <2>. QED  BY <1>1, <1>2, <2>1, <2>2, <2>3, <2>4, AnswerKept
<1>5. CASE Connection_finalize(c)
  <2>1. source[c] = "removing" /\ source'[c] = "removed" /\ Push(c, "Quit") /\ toControl' = toControl
    BY <1>0, <1>5 DEF Connection_finalize, OnClose, socketVars
  <2>2. toControl[c] = <<>> /\ link[c] = "closed"
    BY <2>1 DEF AnswerInv, ReadOut
  <2>3. ~Has(queue[c], {"Connect"})
    BY <2>2 DEF DescriptorFirst
  <2>4. \A S : "Quit" \notin S => (Has(queue'[c], S) <=> Has(queue[c], S)) /\ Less(queue'[c], queue[c], S)
    BY <2>1, PushHas, Messages
  <2>5. Stages(c)' \subseteq Stages(c)
    <3>1. \A S \in {Opening, {command[c]}} : Less(queue'[c], queue[c], S)
      BY <1>0, <2>4 DEF Opening
    <3>. QED  BY <1>1, <1>2, <2>1, <3>1, StagesLess
  <2>6. QuitReason(c)' /\ ReadOut(c)'
    BY <1>1, <2>1, <2>2, <2>3, <2>4 DEF QuitReason, MayQuit, ReadOut
  <2>7. StatusOut(c)' => StatusOut(c)
    BY <1>1, <2>1, <2>4 DEF StatusOut, Status
  <2>8. ASSUME NEW m, NEW T, Coming(c, m, T) PROVE Coming(c, m, T)'
    <3>1. ~Ahead(toControl[c], {m}, T)
      BY <2>2 DEF Ahead
    <3>2. Ahead(queue[c], {m}, T)
      BY <2>8, <3>1 DEF Coming
    <3>3. queue'[c] = Append(queue[c], "Quit")
      BY <2>1 DEF Push, TypeOK, ControlsTyped
    <3>. QED  BY <1>0, <3>2, <3>3, AheadAppend, Messages DEF Coming
  <2>. QED  BY <1>1, <1>2, <2>5, <2>6, <2>7, <2>8, AnswerKept
<1>. QED  BY <1>3, <1>4, <1>5 DEF Connection_read

\* A run that is interrupted, that stops or that ends on a bad port prints
\* nothing any more.
LEMMA OwnStops ==
    ASSUME TypeOK, NEW c \in Controls, AnswerInv(c),
           Control_interrupt(c) \/ Control_stop(c) \/ Control_doAddDeviceThrows(c)
    PROVE  AnswerInv(c)'
<1>1. /\ answers' = answers /\ listed' = listed /\ asked' = asked /\ command' = command /\ queue' = queue
      /\ trigger' = trigger /\ source' = source /\ link' = link /\ toCollector' = toCollector
      /\ toControl' = toControl /\ output' = output /\ control'[c] \in {"killed", "stopped", "failed"}
  BY DEF Control_interrupt, Control_stop, Control_doAddDeviceThrows, socketVars, collectorVars,
     TypeOK, ControlsTyped
<1>2. Stages(c)' \subseteq Stages(c) /\ (StatusOut(c)' => StatusOut(c))
  BY <1>1 DEF Stages, StatusOut
<1>3. QuitReason(c)' /\ ReadOut(c)' /\ EmptyBefore(c)'
  BY <1>1 DEF AnswerInv, QuitReason, MayQuit, ReadOut, EmptyBefore
<1>4. \A m, T : Coming(c, m, T) => Coming(c, m, T)'
  BY <1>1 DEF Coming
<1>. QED  BY <1>1, <1>2, <1>3, <1>4, AnswerKept

-----------------------------------------------------------------------------
(* The answer under the steps of the collector.                            *)

\* What a step of another run leaves alone.
LEMMA AnswerOther ==
    ASSUME NEW c \in Controls, AnswerInv(c),
           control'[c] = control[c], command'[c] = command[c], queue'[c] = queue[c],
           trigger'[c] = trigger[c], link'[c] = link[c], toCollector'[c] = toCollector[c],
           toControl'[c] = toControl[c], output'[c] = output[c], source'[c] = source[c],
           c \in listed' <=> c \in listed,
           <<c, "command">> \in asked' <=> <<c, "command">> \in asked,
           answers'[<<c, "command">>] = answers[<<c, "command">>]
    PROVE  AnswerInv(c)'
<1>1. Stages(c)' \subseteq Stages(c) /\ (StatusOut(c)' => StatusOut(c))
  BY DEF Stages, StatusOut
<1>2. QuitReason(c)' /\ ReadOut(c)' /\ EmptyBefore(c)'
  BY DEF AnswerInv, QuitReason, MayQuit, ReadOut, EmptyBefore
<1>3. \A m, T : Coming(c, m, T) => Coming(c, m, T)'
  BY DEF Coming
<1>. QED  BY <1>1, <1>2, <1>3, AnswerKept

\* A request of c that waits for its answer: nobody has made c quit, and it has
\* not been told.
LEMMA WaitingRun ==
    ASSUME NEW c \in Controls, OneStage(c), AnswerInv(c), PendingKeepsSocket, alive,
           <<c, "command">> \in Pending(c), command[c] # "QuitCollector"
    PROVE  /\ control[c] # "exited" /\ ~Has(queue[c], {"Quit"}) /\ ~StatusOut(c)
           /\ Stages(c) \subseteq {"asked"}
           /\ link[c] \in {"client", "detached"}
<1>1. link[c] \in {"client", "detached"}
  BY DEF PendingKeepsSocket
<1>2. ~StatusOut(c)
  BY DEF AnswerInv, StatusLast
<1>3. ~MayQuit(c)
  BY <1>1, <1>2 DEF MayQuit, StatusOut
<1>4. Stages(c) \subseteq {"asked"}
  <2>1. "asked" \in Stages(c)
    BY PendingCommand DEF Stages
  <2>. QED  BY <2>1 DEF OneStage
<1>. QED  BY <1>1, <1>2, <1>3, <1>4 DEF AnswerInv, QuitReason

\* A reader of what the collector has to say is not there before it has a socket.
LEMMA ClientReads ==
    ASSUME TypeOK, NEW c \in Controls, RunInv(c), AnswerInv(c), UDSServer_readDescriptor(c) \/ ControlClient_read(c)
    PROVE  AnswerInv(c)'
<1>. USE DEF RunInv
<1>0. /\ toCollector[c] \in Seq(Sent) /\ toCollector \in [Controls -> Seq(Sent)]
      /\ command[c] \notin Opening \cup Said \cup {"Quit", "Descriptor", "RequestSession"}
      /\ link \in [Controls -> {"none", "backlog", "reading", "client", "detached", "closed"}]
  BY RunTypes DEF TypeOK, SocketsTyped
<1>1. /\ control' = control /\ command' = command /\ queue' = queue /\ trigger' = trigger
      /\ source' = source /\ output' = output /\ answers' = answers /\ listed' = listed
      /\ link[c] \in {"reading", "client"}
  BY DEF UDSServer_readDescriptor, ControlClient_read, controlVars, collectorVars
<1>2. source[c] \notin {"removing", "removed"}
  BY <1>1 DEF AnswerInv, ReadOut
<1>3. ReadOut(c)' /\ EmptyBefore(c)' /\ QuitReason(c)'
  BY <1>1, <1>2, ReasonKept DEF AnswerInv, ReadOut, EmptyBefore
<1>4. CASE UDSServer_readDescriptor(c)
  <2>1. toControl' = toControl /\ asked' = asked /\ link[c] = "reading"
    BY <1>4 DEF UDSServer_readDescriptor, collectorVars
  <2>2. \A S : Less(toCollector'[c], toCollector[c], S)
    <3>1. CASE toCollector' = toCollector
      BY <3>1, LessSame
    <3>2. CASE toCollector[c] # <<>> /\ toCollector' = [toCollector EXCEPT ![c] = Tail(@)]
      <4>1. toCollector'[c] = Tail(toCollector[c])
        BY <1>0, <3>2
      <4>. QED  BY <1>0, <3>2, <4>1, TailHas
    <3>. QED  BY <1>4, <3>1, <3>2 DEF UDSServer_readDescriptor
  <2>3. Stages(c)' \subseteq Stages(c)
    BY <1>1, <2>1, <2>2, LessSame, StagesLess
  <2>4. /\ StatusOut(c)' => StatusOut(c)
        /\ \A m, T : Coming(c, m, T) => Coming(c, m, T)'
    BY <1>1, <2>1 DEF StatusOut, Coming
  <2>. QED  BY <1>1, <1>3, <2>1, <2>3, <2>4, AnswerKept
<1>5. CASE ControlClient_read(c)
  <2>1. toCollector[c] # <<>> /\ link[c] = "client"
    BY <1>5 DEF ControlClient_read
  <2>2. \A S : Head(toCollector[c]) \in S => Has(toCollector[c], S)
    BY <1>0, <2>1, TailHas
  <2>3. Head(toCollector[c]) \in {"RequestSession", command[c]}
    <3>1. Head(toCollector[c]) \in Sent
      BY <1>0, <2>1
    <3>2. Head(toCollector[c]) \notin {"Descriptor"}
      BY <2>1, <2>2 DEF DescriptorFirst
    <3>3. Head(toCollector[c]) \notin CommandActions \ {command[c]}
      BY <2>2 DEF OneStage
    <3>. QED  BY <3>1, <3>2, <3>3 DEF Sent
  <2>4. PICK s \in {"asking", "sent"} : s \in Stages(c)
    <3>1. Has(toCollector[c], {"RequestSession"}) \/ Has(toCollector[c], {command[c]})
      BY <2>2, <2>3
    <3>. QED  BY <3>1 DEF Stages
  <2>5. answers[<<c, "command">>] = <<>> /\ c \notin listed /\ ~StatusOut(c)
    BY <2>4, NotHeard
  <2>6. ~Has(toControl'[c], {Status})
    <3>1. toControl' = toControl \/ ToControl(c, "SetSession")
      BY <1>5 DEF ControlClient_read
    <3>2. "SetSession" \in Said /\ "SetSession" \notin {Status}
      BY DEF Said, Status
    <3>3. ~Has(toControl[c], {Status})
      BY <2>5 DEF StatusOut
    <3>. QED  BY <3>1, <3>2, <3>3, ToControlHas
  <2>7. ~StatusOut(c)'
    BY <1>1, <2>5, <2>6 DEF StatusOut
  <2>. QED  BY <1>1, <1>3, <2>5, <2>7, NotHeardKept
<1>. QED  BY <1>4, <1>5

\* The loop drops a client that has ended: there is nothing it could miss.
LEMMA ClientEnds ==
    ASSUME TypeOK, NEW c \in Controls, AnswerInv(c), ControlClient_end(c)
    PROVE  AnswerInv(c)'
<1>1. /\ control' = control /\ command' = command /\ queue' = queue /\ trigger' = trigger
      /\ source' = source /\ output' = output /\ answers' = answers /\ listed' = listed /\ asked' = asked
      /\ toCollector' = toCollector /\ toControl' = toControl /\ link[c] = "client"
  BY DEF ControlClient_end, controlVars, collectorVars
<1>2. Stages(c)' \subseteq Stages(c) /\ (StatusOut(c)' => StatusOut(c))
  BY <1>1 DEF Stages, StatusOut
<1>3. ReadOut(c)' /\ EmptyBefore(c)' /\ QuitReason(c)'
  BY <1>1, ReasonKept DEF AnswerInv, ReadOut, EmptyBefore
<1>4. \A m, T : Coming(c, m, T) => Coming(c, m, T)'
  BY <1>1 DEF Coming
<1>. QED  BY <1>1, <1>2, <1>3, <1>4, AnswerKept

\* The list is written to a run that has neither quit nor been told a status.
LEMMA ListWritten ==
    ASSUME TypeOK, NEW c \in Controls, OneStage(c), AnswerInv(c), PendingKeepsSocket, Collector_list(c)
    PROVE  AnswerInv(c)'
<1>1. /\ control' = control /\ command' = command /\ queue' = queue /\ trigger' = trigger
      /\ source' = source /\ output' = output /\ answers' = answers /\ listed' = listed \cup {c} /\ asked' = asked
      /\ toCollector' = toCollector /\ link' = link /\ ToControl(c, "List")
      /\ <<c, "command">> \in Pending(c) /\ alive
  BY DEF Collector_list, Serving, controlVars
<1>2. command[c] # "QuitCollector"
  BY DEF Collector_list, Listing
<1>3. /\ control[c] # "exited" /\ ~Has(queue[c], {"Quit"}) /\ ~StatusOut(c)
      /\ Stages(c) \subseteq {"asked"}
      /\ link[c] \in {"client", "detached"}
  BY <1>1, <1>2, WaitingRun
<1>4. <<c, "command">> \in asked /\ answers[<<c, "command">>] = <<>>
  BY <1>1, PendingCommand
<1>5. "List" \in Said /\ "List" \notin {Status} /\ "List" \notin {"Quit", Status} /\ "List" \notin {"SetSession"}
  BY DEF Said, Status
<1>6. ~StatusOut(c)'
  <2>1. ~Has(toControl'[c], {Status})
    BY <1>1, <1>3, <1>5, ToControlHas DEF StatusOut
  <2>. QED  BY <1>1, <1>3, <2>1 DEF StatusOut
<1>7. control[c] = "running" => Coming(c, "List", {"Quit", Status})'
  <2>1. ~Has(queue[c], {"Quit", Status})
    BY <1>3 DEF Has, StatusOut
  <2>2. ~Has(toControl[c], {"Quit", Status})
    <3>1. \A i \in DOMAIN toControl[c] : toControl[c][i] # "Quit"
      <4>1. toControl[c] \in Seq(Said)
        BY RunTypes
      <4>2. \A i \in DOMAIN toControl[c] : toControl[c][i] \in Said
        BY <4>1
      <4>. QED  BY <4>2 DEF Said
    <3>. QED  BY <1>3, <3>1 DEF Has, StatusOut
  <2>3. control[c] = "running" => ~HasEnded(c)
    BY DEF HasEnded
  <2>. QED  BY <1>1, <1>5, <2>1, <2>2, <2>3, WriteComing
<1>8. StatusComes(c)' /\ ListComes(c)' /\ StatusLast(c)'
  BY <1>1, <1>3, <1>4, <1>6, <1>7 DEF StatusComes, ListComes, StatusLast
<1>9. QuitReason(c)' /\ ReadOut(c)' /\ EmptyBefore(c)'
  BY <1>1, <1>3 DEF AnswerInv, QuitReason, MayQuit, ReadOut, EmptyBefore
<1>. QED  BY <1>8, <1>9 DEF AnswerInv

\* So is the status, behind the list.
LEMMA AnswerWritten ==
    ASSUME TypeOK, NEW c \in Controls, OneStage(c), AnswerInv(c), PendingKeepsSocket, Collector_answer(c)
    PROVE  AnswerInv(c)'
<1>0. /\ answers \in [Requests -> Seq({"Okay", "Error"})] /\ asked \subseteq Requests
      /\ link \in [Controls -> {"none", "backlog", "reading", "client", "detached", "closed"}]
  BY DEF TypeOK, SocketsTyped, CollectorTyped, Service!ServiceTypeOK
<1>1. PICK r \in Pending(c), s \in {"Okay", "Error"} :
        /\ r[2] = "command" => command[c] # "QuitCollector"
        /\ Service!Answer(r, s)
        /\ ToControl(c, IF r[2] = "command" THEN "CollectorStatus" ELSE "SessionStatus")
        /\ link' = [link EXCEPT ![c] = LinkAfter(c, r)]
  BY DEF Collector_answer
<1>2. /\ control' = control /\ command' = command /\ queue' = queue /\ trigger' = trigger
      /\ source' = source /\ output' = output /\ listed' = listed /\ toCollector' = toCollector /\ alive
  BY DEF Collector_answer, Serving, controlVars
<1>3. asked' = asked /\ r \in Requests /\ answers' = [answers EXCEPT ![r] = <<s>>] /\ r[1] = c
  BY <1>0, <1>1 DEF Service!Answer, Pending
<1>4. link[c] \in {"client", "detached"} /\ link'[c] \in {"client", "detached", "closed"}
  <2>1. link[c] \in {"client", "detached"}
    BY <1>1, <1>2 DEF PendingKeepsSocket
  <2>. QED  BY <1>0, <1>1, <2>1 DEF LinkAfter
<1>5. ReadOut(c)' /\ EmptyBefore(c)' /\ QuitReason(c)'
  <2>1. source[c] \notin {"removing", "removed"}
    BY <1>4 DEF AnswerInv, ReadOut
  <2>2. QuitReason(c)'
    BY <1>2, <1>4, ReasonKept DEF AnswerInv
  <2>. QED  BY <1>2, <2>1, <2>2 DEF AnswerInv, ReadOut, EmptyBefore
<1>6. CASE r[2] # "command"
  <2>1. ToControl(c, "SessionStatus") /\ "SessionStatus" \in Said /\ "SessionStatus" \notin {Status}
    BY <1>1, <1>6 DEF Said, Status
  <2>2. r # <<c, "command">> /\ <<c, "command">> \in Requests
    BY <1>6 DEF Requests
  <2>3. answers'[<<c, "command">>] = answers[<<c, "command">>]
    BY <1>0, <1>3, <2>2
  <2>4. StatusOut(c)' => StatusOut(c)
    <3>1. Has(toControl'[c], {Status}) => Has(toControl[c], {Status})
      BY <2>1, ToControlHas
    <3>. QED  BY <1>2, <3>1 DEF StatusOut
  <2>5. \A m, T : Coming(c, m, T) => Coming(c, m, T)'
    BY <1>2, <2>1, WriteComing
  <2>6. Stages(c)' \subseteq Stages(c)
    <3>1. Less(toControl'[c], toControl[c], {"SetSession"})
      <4>1. "SessionStatus" \notin {"SetSession"}
        OBVIOUS
      <4>. QED  BY <2>1, <4>1, ToControlHas
    <3>. QED  BY <1>2, <1>3, <3>1, LessSame, StagesLess
  <2>. QED  BY <1>2, <1>3, <1>5, <2>3, <2>4, <2>5, <2>6, AnswerKept
<1>7. CASE r[2] = "command"
  <2>1. r = <<c, "command">> /\ command[c] # "QuitCollector" /\ ToControl(c, Status) /\ Status \in Said
    BY <1>1, <1>3, <1>7 DEF Requests, Said, Status
  <2>2. /\ control[c] # "exited" /\ ~Has(queue[c], {"Quit"}) /\ ~StatusOut(c)
        /\ Stages(c) \subseteq {"asked"}
    BY <1>1, <1>2, <2>1, WaitingRun
  <2>3. <<c, "command">> \in asked /\ answers'[<<c, "command">>] # <<>>
    <3>1. <<c, "command">> \in asked
      BY <1>1, <2>1, PendingCommand
    <3>2. answers'[<<c, "command">>] = <<s>>
      BY <1>0, <1>3, <2>1
    <3>. QED  BY <3>1, <3>2
  <2>4. control[c] = "running" => Coming(c, Status, {"Quit"})'
    <3>1. ~Has(toControl[c], {"Quit"}) /\ Status \notin {"Quit"}
      <4>1. toControl[c] \in Seq(Said)
        BY RunTypes
      <4>2. \A i \in DOMAIN toControl[c] : toControl[c][i] \in Said
        BY <4>1
      <4>. QED  BY <4>2 DEF Said, Has, Status
    <3>2. control[c] = "running" => ~HasEnded(c)
      BY DEF HasEnded
    <3>. QED  BY <1>2, <2>1, <2>2, <3>1, <3>2, WriteComing
  <2>5. StatusComes(c)'
    BY <1>2, <1>3, <2>1, <2>2, <2>3, <2>4 DEF StatusComes
  <2>6. ListComes(c)'
    <3>1. Coming(c, "List", {"Quit", Status}) => Coming(c, "List", {"Quit", Status})'
      BY <1>2, <2>1, WriteComing
    <3>. QED  BY <1>2, <1>3, <3>1 DEF AnswerInv, ListComes
  <2>7. StatusLast(c)'
    <3>1. <<c, "command">> \notin Pending(c)'
      BY <2>3 DEF Pending
    <3>2. Stages(c)' \subseteq Stages(c)
      <4>1. Less(toControl'[c], toControl[c], {"SetSession"})
        <5>1. Status \notin {"SetSession"}
          BY DEF Status
        <5>. QED  BY <2>1, <5>1, ToControlHas
      <4>. QED  BY <1>2, <1>3, <4>1, LessSame, StagesLess
    <3>. QED  BY <2>2, <3>1, <3>2 DEF StatusLast
  <2>. QED  BY <1>5, <2>5, <2>6, <2>7 DEF AnswerInv
<1>. QED  BY <1>6, <1>7

\* The server and the process: a socket that is closed stays readable, and a new
\* process has answered nobody.
LEMMA ServerAnswers ==
    ASSUME TypeOK, NEW c \in Controls, AnswerInv(c), BacklogKept,
           UDSServer_accept \/ CollectorGoes \/ Collector_boot
    PROVE  AnswerInv(c)'
<1>0. link \in [Controls -> {"none", "backlog", "reading", "client", "detached", "closed"}]
      /\ backlog \in Seq(Controls)
  BY DEF TypeOK, SocketsTyped
<1>1. /\ control' = control /\ command' = command /\ queue' = queue /\ trigger' = trigger
      /\ source' = source /\ output' = output /\ toCollector' = toCollector /\ toControl' = toControl
  BY DEF UDSServer_accept, CollectorGoes, Collector_boot, controlVars
<1>2. \/ link'[c] = link[c]
      \/ link[c] = "backlog" /\ link'[c] = "reading"
      \/ link[c] # "none" /\ link'[c] = "closed"
  <2>1. CASE UDSServer_accept
    <3>1. backlog # <<>> /\ Head(backlog) = backlog[1] /\ 1 \in DOMAIN backlog
      BY <1>0, <2>1 DEF UDSServer_accept
    <3>2. link[Head(backlog)] = "backlog"
      BY <3>1 DEF BacklogKept
    <3>3. link' = link \/ link' = [link EXCEPT ![Head(backlog)] = "reading"]
      BY <2>1 DEF UDSServer_accept
    <3>. QED  BY <1>0, <3>2, <3>3
  <2>2. CASE CollectorGoes
    BY <2>2 DEF CollectorGoes
  <2>3. CASE Collector_boot
    BY <2>3 DEF Collector_boot
  <2>. QED  BY <2>1, <2>2, <2>3
<1>3. ReadOut(c)' /\ EmptyBefore(c)' /\ QuitReason(c)'
  <2>1. QuitReason(c)'
    BY <1>1, <1>2, ReasonKept DEF AnswerInv
  <2>. QED  BY <1>1, <1>2, <2>1 DEF AnswerInv, ReadOut, EmptyBefore
<1>4. (StatusOut(c)' => StatusOut(c)) /\ (\A m, T : Coming(c, m, T) => Coming(c, m, T)')
  BY <1>1 DEF StatusOut, Coming
<1>5. CASE UDSServer_accept \/ CollectorGoes
  <2>1. asked' = asked /\ answers' = answers /\ listed' = listed
    BY <1>5 DEF UDSServer_accept, CollectorGoes, Service!End, collectorVars
  <2>2. Stages(c)' \subseteq Stages(c)
    BY <1>1, <2>1 DEF Stages
  <2>. QED  BY <1>1, <1>3, <1>4, <2>1, <2>2, AnswerKept
<1>6. CASE Collector_boot
  <2>1. asked' = {} /\ listed' = {} /\ answers' = [r \in Requests |-> <<>>]
    BY <1>6 DEF Collector_boot, Service!Boot, Service!Unanswered
  <2>2. <<c, "command">> \in Requests
    BY DEF Requests
  <2>3. answers'[<<c, "command">>] = <<>>
    BY <2>1, <2>2
  <2>4. Stages(c)' \subseteq Stages(c) /\ <<c, "command">> \notin Pending(c)'
    BY <1>1, <2>1 DEF Stages, Pending
  <2>5. StatusComes(c)' /\ ListComes(c)' /\ StatusLast(c)'
    BY <1>4, <2>1, <2>3, <2>4 DEF AnswerInv, StatusComes, ListComes, StatusLast
  <2>. QED  BY <1>3, <2>5 DEF AnswerInv
<1>. QED  BY <1>5, <1>6

-----------------------------------------------------------------------------
\* Every run: its own steps, and those of others.
AnswersInv == \A c \in Controls : AnswerInv(c)

LEMMA AnswersOwn ==
    ASSUME ControlInv, AnswersInv, NEW c \in Controls,
           ControlStep(c) \/ Control_start(c) \/ Control_interrupt(c) \/ Control_stop(c)
    PROVE  AnswersInv'
<1>0. TypeOK /\ RunInv(c) /\ \A d \in Controls : AnswerInv(d)
  BY DEF ControlInv, AnswersInv
<1>1. AnswerInv(c)'
  BY <1>0, OwnUnheard, OwnPrints, OwnQuits, OwnReads, OwnStops DEF ControlStep
<1>2. ASSUME NEW d \in Controls, d # c PROVE AnswerInv(d)'
  <2>1. /\ control'[d] = control[d] /\ command'[d] = command[d] /\ queue'[d] = queue[d]
        /\ trigger'[d] = trigger[d] /\ link'[d] = link[d]
        /\ toCollector'[d] = toCollector[d] /\ toControl'[d] = toControl[d]
    BY <1>0, <1>2, OwnFrame
  <2>2. asked' = asked /\ answers' = answers /\ listed' = listed
    BY DEF ControlStep, Control_doConnect, Control_doSendDescriptor, Control_doRequestSession,
         Control_doSetSession, Control_doCommand, Control_doCollectorStatus, Control_doList,
         Control_doQuit, Control_doAddDeviceThrows, Command_callback, Connection_read,
         Connection_finalize, Control_start, Control_interrupt, Control_stop, collectorVars
  <2>3. /\ output' = output \/ \E m : output' = [output EXCEPT ![c] = m]
        /\ source' = source \/ \E x : source' = [source EXCEPT ![c] = x]
    BY DEF ControlStep, Control_doConnect, Control_doSendDescriptor, Control_doRequestSession,
         Control_doSetSession, Control_doCommand, Control_doCollectorStatus, Control_doList,
         Control_doQuit, Control_doAddDeviceThrows, Command_callback, Connection_read,
         Connection_finalize, Control_start, Control_interrupt, Control_stop
  <2>4. output'[d] = output[d] /\ source'[d] = source[d]
    BY <1>0, <1>2, <2>3 DEF TypeOK, ControlsTyped
  <2>. QED  BY <1>0, <2>1, <2>2, <2>4, AnswerOther
<1>. QED  BY <1>1, <1>2 DEF AnswersInv

LEMMA AnswersClient ==
    ASSUME ControlInv, AnswersInv, NEW c \in Controls, ClientStep(c)
    PROVE  AnswersInv'
<1>0. TypeOK /\ RunInv(c) /\ PendingKeepsSocket /\ \A d \in Controls : AnswerInv(d)
  BY DEF ControlInv, AnswersInv
<1>1. AnswerInv(c)'
  BY <1>0, ClientReads, ClientEnds, ListWritten, AnswerWritten DEF ClientStep, RunInv
<1>2. ASSUME NEW d \in Controls, d # c PROVE AnswerInv(d)'
  <2>1. /\ control'[d] = control[d] /\ command'[d] = command[d] /\ queue'[d] = queue[d]
        /\ trigger'[d] = trigger[d] /\ link'[d] = link[d]
        /\ toCollector'[d] = toCollector[d] /\ toControl'[d] = toControl[d]
        /\ <<d, "command">> \in asked' <=> <<d, "command">> \in asked
    <3>1. \A r : r[1] = d => (r \in asked' <=> r \in asked)
      BY <1>0, <1>2, ClientFrame
    <3>. QED  BY <1>0, <1>2, <3>1, ClientFrame
  <2>2. source' = source /\ output' = output
    BY DEF ClientStep, UDSServer_readDescriptor, ControlClient_read, ControlClient_end, Collector_list,
           Collector_answer, controlVars
  <2>3. d \in listed' <=> d \in listed
    BY <1>2 DEF ClientStep, UDSServer_readDescriptor, ControlClient_read, ControlClient_end, Collector_list,
           Collector_answer, collectorVars
  <2>4. answers'[<<d, "command">>] = answers[<<d, "command">>]
    <3>1. CASE Collector_answer(c)
      <4>1. PICK r \in Pending(c), s \in {"Okay", "Error"} : Service!Answer(r, s)
        BY <3>1 DEF Collector_answer
      <4>2. r # <<d, "command">>
        BY <1>2 DEF Pending
      <4>3. answers \in [Requests -> Seq({"Okay", "Error"})] /\ <<d, "command">> \in Requests
        BY <1>0 DEF TypeOK, CollectorTyped, Service!ServiceTypeOK, Requests
      <4>. QED  BY <4>1, <4>2, <4>3 DEF Service!Answer
    <3>2. CASE ~Collector_answer(c)
      BY <3>2 DEF ClientStep, UDSServer_readDescriptor, ControlClient_read, ControlClient_end, Collector_list,
           collectorVars
    <3>. QED  BY <3>1, <3>2
  <2>. QED  BY <1>0, <2>1, <2>2, <2>3, <2>4, AnswerOther
<1>. QED  BY <1>1, <1>2 DEF AnswersInv

LEMMA AnswersInit == Init => AnswersInv
<1>. SUFFICES ASSUME Init, NEW c \in Controls PROVE AnswerInv(c)
  BY DEF AnswersInv
<1>1. /\ queue[c] = <<>> /\ toControl[c] = <<>> /\ output[c] = <<>> /\ control[c] = "new"
      /\ source[c] = "idle" /\ listed = {} /\ answers = [r \in Requests |-> <<>>]
  BY DEF Init, Service!ServiceInit, Service!Unanswered
<1>2. answers[<<c, "command">>] = <<>>
  BY <1>1 DEF Requests
<1>3. \A S : ~Has(<<>>, S)
  BY Nothing
<1>4. StatusComes(c) /\ ListComes(c) /\ StatusLast(c)
  BY <1>1, <1>2, <1>3 DEF StatusComes, ListComes, StatusLast, StatusOut
<1>5. QuitReason(c) /\ ReadOut(c) /\ EmptyBefore(c)
  BY <1>1, <1>3 DEF QuitReason, ReadOut, EmptyBefore
<1>. QED  BY <1>4, <1>5 DEF AnswerInv

LEMMA AnswersNext == ControlInv /\ AnswersInv /\ [Next]_vars => AnswersInv'
<1>. SUFFICES ASSUME ControlInv, AnswersInv, [Next]_vars PROVE AnswersInv'
  OBVIOUS
<1>1. CASE UNCHANGED vars
  <2>1. /\ control' = control /\ command' = command /\ queue' = queue /\ trigger' = trigger
        /\ source' = source /\ output' = output /\ listed' = listed
        /\ link' = link /\ toCollector' = toCollector /\ toControl' = toControl
        /\ asked' = asked /\ answers' = answers
    BY <1>1 DEF vars, controlVars, socketVars, collectorVars
  <2>. QED  BY <2>1, AnswerOther DEF AnswersInv
<1>2. ASSUME NEW c \in Controls,
             ControlStep(c) \/ Control_start(c) \/ Control_interrupt(c) \/ Control_stop(c)
      PROVE  AnswersInv'
  BY <1>2, AnswersOwn
<1>3. ASSUME NEW c \in Controls, ClientStep(c) PROVE AnswersInv'
  BY <1>3, AnswersClient
<1>4. CASE UDSServer_accept \/ CollectorGoes \/ Collector_boot
  BY <1>4, ServerAnswers DEF ControlInv, AnswersInv
<1>. QED  BY <1>1, <1>2, <1>3, <1>4 DEF Next, Collector_quit, Collector_end

\* No answer is lost: a run that quits has printed the status the collector wrote
\* for it and the list before it, for any number of runs and whatever fails, for
\* both are ahead of everything that makes a run quit.
THEOREM AnswerPrintedSafe == Spec => []AnswerPrinted
<1>1. Spec => [](ControlInv /\ AnswersInv)
  BY ControlInit, ControlInductive, AnswersInit, AnswersNext, PTL DEF Spec
<1>2. AnswersInv => AnswerPrinted
  <2>. SUFFICES ASSUME AnswersInv, NEW c \in Controls, control[c] = "exited", answers[<<c, "command">>] # <<>>
                PROVE  /\ Occurrences("CollectorStatus", output[c]) # {}
                       /\ c \in listed => Occurrences("List", output[c]) # {}
    BY DEF AnswerPrinted
  <2>1. Has(output[c], {Status}) /\ (c \in listed => Has(output[c], {"List"}))
    BY DEF AnswersInv, AnswerInv, StatusComes, ListComes
  <2>. QED  BY <2>1 DEF Has, Occurrences, Status
<1>. QED  BY <1>1, <1>2, PTL
=============================================================================
