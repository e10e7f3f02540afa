----------------------------- MODULE WsHubProofs -----------------------------
(***************************************************************************)
(* The hub never sends on a closed channel, waits for ever only for        *)
(* clients whose other end is gone and gives each listener every event in  *)
(* order, for any number of clients and events.                            *)
(***************************************************************************)
EXTENDS WsHub, SequenceTheorems, TLAPS

(* Only connections that have been registered are in the map or closed, so *)
(* none is registered again; a broadcast that is going on has an event and *)
(* a registered client.                                                    *)
Registered == \A c \in clients \cup closed : conn[c] \in {"registered", "served"}
Serving == hub # Selecting => hub.event \in Sender /\ hub.to \in clients

IInv == HubInv /\ Registered /\ Serving

(* The next client of a broadcast is one of those still to be served.      *)
LEMMA ServeNext ==
  ASSUME NEW event \in Sender, NEW rest \in SUBSET Client, Serve(event, rest)
  PROVE  \/ hub' = Selecting
         \/ \E c \in rest : hub' = [event |-> event, to |-> c, rest |-> rest \ {c}]
  BY DEF Serve

LEMMA HubInit == Init => IInv
  BY DEF Init, IInv, HubInv, TypeOK, NoSendOnClosed, Registered, Serving, Selecting

LEMMA RegisterStep ==
  ASSUME IInv, NEW c \in Client, HubRegister(c)
  PROVE  IInv'
<1> USE DEF IInv, HubInv, TypeOK, NoSendOnClosed, Registered, Serving, Selecting, HubRegister, HubSelects, sockets
<1>1. Len(log) \in Nat
  OBVIOUS
<1>2. TypeOK'
  BY <1>1
<1>3. c \notin closed
  OBVIOUS
<1> QED
  BY <1>2, <1>3

LEMMA UnregisterStep ==
  ASSUME IInv, NEW c \in Client, HubUnregister(c)
  PROVE  IInv'
<1> USE DEF IInv, HubInv, TypeOK, NoSendOnClosed, Registered, Serving, Selecting, HubUnregister, HubSelects, history
<1>1. TypeOK'
  OBVIOUS
<1>2. NoSendOnClosed'
  OBVIOUS
<1> QED
  BY <1>1, <1>2

LEMMA BroadcastStep ==
  ASSUME IInv, NEW s \in Sender, HubBroadcast(s)
  PROVE  IInv'
<1>1. \/ hub' = Selecting
      \/ \E c \in clients : hub' = [event |-> s, to |-> c, rest |-> clients \ {c}]
  BY ServeNext DEF HubBroadcast, IInv, HubInv, TypeOK
<1>2. /\ UNCHANGED <<clients, closed, conn, writer, reader, open, peer, since, got>>
      /\ sender' = [sender EXCEPT ![s] = "done"]
      /\ log' = Append(log, s)
  BY DEF HubBroadcast, sockets
<1>3. log' \in Seq(Sender)
  BY <1>2 DEF IInv, HubInv, TypeOK
<1>4. hub' \in [event : Sender \cup {None}, to : Client \cup {None}, rest : SUBSET Client]
  BY <1>1 DEF IInv, HubInv, TypeOK, Selecting
<1>5. TypeOK'
  BY <1>2, <1>3, <1>4 DEF IInv, HubInv, TypeOK
<1>6. NoSendOnClosed' /\ Serving'
  BY <1>1, <1>2 DEF IInv, HubInv, NoSendOnClosed, Selecting, Serving
<1>7. Registered'
  BY <1>2 DEF IInv, Registered
<1> QED
  BY <1>5, <1>6, <1>7 DEF IInv, HubInv

LEMMA SendStep ==
  ASSUME IInv, HubSends
  PROVE  IInv'
<1>1. hub.event \in Sender /\ hub.to \in clients /\ hub.rest \in SUBSET Client /\ hub.rest \subseteq clients
  BY DEF IInv, HubInv, TypeOK, NoSendOnClosed, Serving, HubSends, HubSelects
<1>2. \/ hub' = Selecting
      \/ \E c \in hub.rest : hub' = [event |-> hub.event, to |-> c, rest |-> hub.rest \ {c}]
  BY <1>1, ServeNext DEF HubSends
<1>3. /\ UNCHANGED <<clients, closed, conn, reader, sender, open, peer, log, since>>
      /\ writer[hub.to] = "ready"
      /\ writer' = [writer EXCEPT ![hub.to] = "writing"]
      /\ got' = [got EXCEPT ![hub.to] = Append(@, hub.event)]
  BY DEF HubSends, sockets
<1>4. hub' \in [event : Sender \cup {None}, to : Client \cup {None}, rest : SUBSET Client]
  BY <1>1, <1>2 DEF IInv, HubInv, TypeOK, Selecting
<1>5. got' \in [Client -> Seq(Sender)]
  <2>1. hub.to \in Client /\ got \in [Client -> Seq(Sender)]
    BY <1>1 DEF IInv, HubInv, TypeOK
  <2>2. Append(got[hub.to], hub.event) \in Seq(Sender)
    BY <1>1, <2>1
  <2> QED
    BY <1>3, <2>1, <2>2
<1>6. TypeOK'
  BY <1>1, <1>3, <1>4, <1>5 DEF IInv, HubInv, TypeOK
<1>7. NoSendOnClosed' /\ Serving'
  BY <1>1, <1>2, <1>3 DEF IInv, HubInv, NoSendOnClosed, Selecting, Serving
<1>8. Registered'
  BY <1>3 DEF IInv, Registered
<1> QED
  BY <1>6, <1>7, <1>8 DEF IInv, HubInv

LEMMA ClientStepKeeps ==
  ASSUME IInv, NEW c \in Client, Connect(c) \/ ClientStep(c) \/ PeerGone(c)
  PROVE  IInv'
<1> USE DEF IInv, HubInv, TypeOK, NoSendOnClosed, Registered, Serving, Selecting, sockets, history, goroutines
<1>1. CASE Connect(c)
  BY <1>1 DEF Connect
<1>2. CASE StartClient(c)
  BY <1>2 DEF StartClient
<1>3. CASE Write(c)
  BY <1>3 DEF Write
<1>4. CASE WriteFails(c) \/ PingFails(c) \/ ChannelClosed(c)
  <2>1. writer[c] \in {"ready", "writing"} /\ WriterEnds(c)
    BY <1>4 DEF WriteFails, PingFails, ChannelClosed
  <2> QED
    BY <2>1 DEF WriterEnds
<1>5. CASE ReadFails(c)
  BY <1>5 DEF ReadFails
<1>6. CASE PeerGone(c)
  BY <1>6 DEF PeerGone
<1> QED
  BY <1>1, <1>2, <1>3, <1>4, <1>5, <1>6 DEF ClientStep, WriterStep

LEMMA EventStep ==
  ASSUME IInv, NEW s \in Sender, Send(s)
  PROVE  IInv'
  BY DEF IInv, HubInv, TypeOK, NoSendOnClosed, Registered, Serving, Selecting, Send, sockets, history

LEMMA IInvHolds == Spec => []IInv
<1>1. Init => IInv
  BY HubInit
<1>2. IInv /\ [Next]_vars => IInv'
  <2> SUFFICES ASSUME IInv, [Next]_vars PROVE IInv'
    OBVIOUS
  <2>1. CASE Next
    BY <2>1, RegisterStep, UnregisterStep, BroadcastStep, SendStep, ClientStepKeeps, EventStep DEF Next, HubStep
  <2>2. CASE UNCHANGED vars
    BY <2>2 DEF vars, goroutines, sockets, history, IInv, HubInv, TypeOK, NoSendOnClosed, Registered, Serving
  <2> QED
    BY <2>1, <2>2
<1> QED
  BY <1>1, <1>2, PTL DEF Spec

(* Whatever clients come and go, whoever the hub is sending to is          *)
(* registered, and whoever is registered has an open channel.              *)
THEOREM HubIsSafe == Spec => []HubInv
<1>1. IInv => HubInv
  BY DEF IInv
<1> QED
  BY <1>1, IInvHolds, PTL

-----------------------------------------------------------------------------
(* Whom the hub waits for                                                  *)

(* A connection has no goroutines yet until it is served and is open as    *)
(* long as it has none.  A registered client whose other end is there is   *)
(* open, and its writer has not ended.                                     *)
NotServed == \A c \in Client : conn[c] # "served" => writer[c] = "none" /\ reader[c] = "none"
OpenAtFirst == \A c \in Client : conn[c] \in {"registering", "registered"} => c \in open
ServedWhileThere == \A c \in clients \cap peer : c \in open /\ writer[c] # "ended"

WaitInv == NotServed /\ OpenAtFirst /\ ServedWhileThere

(* An ending writer is that of a client that is gone or unregistered.      *)
LEMMA WriterEndsKeeps ==
  ASSUME IInv, WaitInv, NEW c \in Client, WriteFails(c) \/ PingFails(c) \/ ChannelClosed(c)
  PROVE  WaitInv'
<1>1. /\ writer[c] \in {"ready", "writing"} /\ WriterEnds(c) /\ (c \notin open \cap peer \/ c \in closed)
  BY DEF WriteFails, PingFails, ChannelClosed
<1>2. c \notin clients \cap peer /\ conn[c] = "served"
  BY <1>1 DEF IInv, HubInv, NoSendOnClosed, TypeOK, WaitInv, NotServed, ServedWhileThere
<1> QED
  BY <1>1, <1>2 DEF WaitInv, NotServed, OpenAtFirst, ServedWhileThere, WriterEnds, IInv, HubInv, TypeOK

LEMMA WaitKept ==
  ASSUME IInv, WaitInv, [Next]_vars
  PROVE  WaitInv'
<1> USE DEF WaitInv, NotServed, OpenAtFirst, ServedWhileThere
<1>1. ASSUME NEW c \in Client, HubRegister(c) PROVE WaitInv'
  BY <1>1 DEF HubRegister, sockets, IInv, HubInv, TypeOK
<1>2. ASSUME NEW c \in Client, HubUnregister(c) PROVE WaitInv'
  BY <1>2 DEF HubUnregister, IInv, HubInv, TypeOK
<1>3. ASSUME NEW s \in Sender, HubBroadcast(s) PROVE WaitInv'
  BY <1>3 DEF HubBroadcast, sockets
<1>4. CASE HubSends
  BY <1>4 DEF HubSends, HubSelects, Serving, sockets, IInv, HubInv, TypeOK
<1>5. ASSUME NEW c \in Client, Connect(c) PROVE WaitInv'
  BY <1>5 DEF Connect, IInv, HubInv, TypeOK, Registered
<1>6. ASSUME NEW c \in Client, StartClient(c) PROVE WaitInv'
  BY <1>6 DEF StartClient, sockets, IInv, HubInv, TypeOK
<1>7. ASSUME NEW c \in Client, Write(c) PROVE WaitInv'
  BY <1>7 DEF Write, sockets, IInv, HubInv, TypeOK
<1>8. ASSUME NEW c \in Client, WriteFails(c) \/ PingFails(c) \/ ChannelClosed(c) PROVE WaitInv'
  BY <1>8, WriterEndsKeeps
<1>9. ASSUME NEW c \in Client, ReadFails(c) PROVE WaitInv'
  BY <1>9 DEF ReadFails, sockets, IInv, HubInv, TypeOK
<1>10. ASSUME NEW c \in Client, PeerGone(c) PROVE WaitInv'
  BY <1>10 DEF PeerGone, goroutines
<1>11. ASSUME NEW s \in Sender, Send(s) PROVE WaitInv'
  BY <1>11 DEF Send, sockets
<1>12. CASE UNCHANGED vars
  BY <1>12 DEF vars, goroutines, sockets
<1> QED
  BY <1>1, <1>2, <1>3, <1>4, <1>5, <1>6, <1>7, <1>8, <1>9, <1>10, <1>11, <1>12 DEF Next, HubStep, ClientStep, WriterStep

(* Only a client whose other end is gone can make the hub wait for ever:   *)
(* any other that is registered has a writer that will receive.            *)
THEOREM HubWaitsForLost == Spec => []OnlyLostClientsBlock
<1>1. Init => WaitInv
  BY DEF Init, WaitInv, NotServed, OpenAtFirst, ServedWhileThere
<1>2. IInv /\ WaitInv => OnlyLostClientsBlock
  BY DEF IInv, HubInv, NoSendOnClosed, WaitInv, ServedWhileThere, OnlyLostClientsBlock, HubStuck
<1> QED
  BY <1>1, <1>2, IInvHolds, WaitKept, PTL DEF Spec

-----------------------------------------------------------------------------
(* What listeners get                                                      *)

Pending(c) == hub # Selecting /\ c \in hub.rest \cup {hub.to}

(* Before it is registered a client has nothing.                           *)
NothingBefore == \A c \in Client : conn[c] \in {"none", "registering"} => got[c] = <<>>

(* What a client got is the log from its registration on, ...              *)
InOrder ==
  \A c \in Client :
    /\ since[c] + Len(got[c]) <= Len(log)
    /\ \A i \in 1..Len(got[c]) : got[c][i] = log[since[c] + i]

(* ... up to the last event, unless that is the one it is still to get.    *)
UpToDate ==
  \A c \in clients :
    IF Pending(c) THEN since[c] + Len(got[c]) + 1 = Len(log) /\ log[Len(log)] = hub.event
    ELSE since[c] + Len(got[c]) = Len(log)

OncePerEvent == hub # Selecting => hub.to \notin hub.rest

DeliveryInv == NothingBefore /\ InOrder /\ UpToDate /\ OncePerEvent

(* Steps in which no event moves and no client is registered or forgotten. *)
LEMMA NoEventMoves ==
  ASSUME IInv, DeliveryInv, UNCHANGED <<hub, log, since, got>>, clients' \subseteq clients,
         \A c \in Client : conn'[c] \in {"none", "registering"} => conn[c] \in {"none", "registering"}
  PROVE  DeliveryInv'
  BY DEF DeliveryInv, NothingBefore, InOrder, UpToDate, OncePerEvent, Pending

LEMMA RegisterDelivers ==
  ASSUME IInv, DeliveryInv, NEW c \in Client, HubRegister(c)
  PROVE  DeliveryInv'
<1>1. /\ hub = Selecting /\ hub' = hub /\ log' = log /\ got' = got /\ clients' = clients \cup {c}
      /\ since' = [since EXCEPT ![c] = Len(log)] /\ conn' = [conn EXCEPT ![c] = "registered"] /\ conn[c] = "registering"
      /\ since \in [Client -> Nat] /\ conn \in [Client -> {"none", "registering", "registered", "served"}] /\ clients \subseteq Client
  BY DEF HubRegister, HubSelects, IInv, HubInv, TypeOK
<1>2. got[c] = <<>> /\ Len(got[c]) = 0 /\ Len(log) \in Nat
  BY <1>1 DEF DeliveryInv, NothingBefore, IInv, HubInv, TypeOK
<1>3. NothingBefore'
  BY <1>1 DEF DeliveryInv, NothingBefore
<1>4. InOrder'
  BY <1>1, <1>2 DEF DeliveryInv, InOrder
<1>5. UpToDate'
  BY <1>1, <1>2 DEF DeliveryInv, UpToDate, Pending
<1>6. OncePerEvent'
  BY <1>1 DEF OncePerEvent
<1> QED
  BY <1>3, <1>4, <1>5, <1>6 DEF DeliveryInv

LEMMA BroadcastDelivers ==
  ASSUME IInv, DeliveryInv, NEW s \in Sender, HubBroadcast(s)
  PROVE  DeliveryInv'
<1>1. \/ hub' = Selecting /\ clients = {}
      \/ \E c \in clients : hub' = [event |-> s, to |-> c, rest |-> clients \ {c}]
  BY DEF HubBroadcast, Serve
<1>2. /\ hub = Selecting /\ UNCHANGED <<clients, conn, since, got>> /\ log' = Append(log, s)
      /\ log \in Seq(Sender) /\ got \in [Client -> Seq(Sender)] /\ since \in [Client -> Nat] /\ clients \subseteq Client
  BY DEF HubBroadcast, HubSelects, IInv, HubInv, TypeOK
<1>3. /\ Len(log') = Len(log) + 1 /\ Len(log) \in Nat /\ log'[Len(log')] = s
      /\ \A i \in 1..Len(log) : log'[i] = log[i]
  BY <1>2
<1>4. \A c \in Client : Len(got[c]) \in Nat /\ since[c] \in Nat
  BY <1>2
<1>5. NothingBefore'
  BY <1>2 DEF DeliveryInv, NothingBefore
<1>6. InOrder'
  <2> SUFFICES ASSUME NEW c \in Client
               PROVE  /\ since[c] + Len(got[c]) <= Len(log')
                      /\ \A i \in 1..Len(got[c]) : got[c][i] = log'[since[c] + i]
    BY <1>2 DEF InOrder
  <2>1. since[c] + Len(got[c]) <= Len(log) /\ \A i \in 1..Len(got[c]) : got[c][i] = log[since[c] + i]
    BY DEF DeliveryInv, InOrder
  <2>2. since[c] + Len(got[c]) <= Len(log')
    BY <1>3, <1>4, <2>1
  <2>3. ASSUME NEW i \in 1..Len(got[c]) PROVE got[c][i] = log'[since[c] + i]
    <3>1. since[c] + i \in 1..Len(log)
      BY <1>3, <1>4, <2>1
    <3>2. log'[since[c] + i] = log[since[c] + i]
      BY <1>3, <3>1
    <3> QED
      BY <2>1, <3>2
  <2> QED
    BY <2>2, <2>3
<1>7. UpToDate'
  <2>1. \A c \in clients : since[c] + Len(got[c]) = Len(log)
    BY <1>2 DEF DeliveryInv, UpToDate, Pending
  <2>2. CASE clients = {}
    BY <1>2, <2>2 DEF UpToDate
  <2>3. CASE \E c \in clients : hub' = [event |-> s, to |-> c, rest |-> clients \ {c}]
    <3>1. hub'.event = s /\ clients \subseteq hub'.rest \cup {hub'.to} /\ hub' # Selecting
      BY <2>3, <1>2, HubAssumption DEF Selecting
    <3> QED
      BY <1>2, <1>3, <2>1, <3>1 DEF UpToDate, Pending
  <2> QED
    BY <1>1, <2>2, <2>3
<1>8. OncePerEvent'
  BY <1>1 DEF OncePerEvent
<1> QED
  BY <1>5, <1>6, <1>7, <1>8 DEF DeliveryInv

LEMMA SendDelivers ==
  ASSUME IInv, DeliveryInv, HubSends
  PROVE  DeliveryInv'
<1> DEFINE w == hub.to
<1>1. \/ hub' = Selecting /\ hub.rest = {}
      \/ \E c \in hub.rest : hub' = [event |-> hub.event, to |-> c, rest |-> hub.rest \ {c}]
  BY DEF HubSends, Serve
<1>2. /\ hub # Selecting /\ UNCHANGED <<clients, conn, since, log>> /\ got' = [got EXCEPT ![w] = Append(got[w], hub.event)]
      /\ log \in Seq(Sender) /\ got \in [Client -> Seq(Sender)] /\ since \in [Client -> Nat] /\ clients \subseteq Client
      /\ w \in clients /\ w \in Client /\ hub.event \in Sender /\ hub.rest \subseteq clients
      /\ writer[w] = "ready" /\ conn[w] \in {"registered", "served"}
  <2>1. /\ hub # Selecting /\ UNCHANGED <<clients, conn, since, log>> /\ got' = [got EXCEPT ![w] = Append(got[w], hub.event)]
        /\ writer[w] = "ready"
    BY DEF HubSends, HubSelects
  <2>2. /\ log \in Seq(Sender) /\ got \in [Client -> Seq(Sender)] /\ since \in [Client -> Nat] /\ clients \subseteq Client
        /\ hub.rest \subseteq clients
    BY DEF IInv, HubInv, TypeOK, NoSendOnClosed
  <2>3. w \in clients /\ hub.event \in Sender
    BY <2>1 DEF IInv, Serving
  <2>4. conn[w] \in {"registered", "served"}
    BY <2>3 DEF IInv, Registered
  <2> QED
    BY <2>1, <2>2, <2>3, <2>4
<1> HIDE DEF w
<1>3. /\ Len(log) \in Nat /\ \A c \in Client : Len(got[c]) \in Nat /\ since[c] \in Nat
  BY <1>2
<1>4. since[w] + Len(got[w]) + 1 = Len(log) /\ log[Len(log)] = hub.event
  BY <1>2 DEF DeliveryInv, UpToDate, Pending, w
<1>5. /\ Len(got'[w]) = Len(got[w]) + 1 /\ got'[w][Len(got[w]) + 1] = hub.event
      /\ \A i \in 1..Len(got[w]) : got'[w][i] = got[w][i]
      /\ \A c \in Client \ {w} : got'[c] = got[c]
  <2>1. got'[w] = Append(got[w], hub.event) /\ got[w] \in Seq(Sender)
    BY <1>2
  <2>2. \A c \in Client \ {w} : got'[c] = got[c]
    BY <1>2
  <2> QED
    BY <1>2, <2>1, <2>2
<1>6. NothingBefore'
  BY <1>2, <1>5 DEF DeliveryInv, NothingBefore
<1>7. InOrder'
  <2>1. ASSUME NEW c \in Client \ {w}
        PROVE  /\ since[c] + Len(got'[c]) <= Len(log)
               /\ \A i \in 1..Len(got'[c]) : got'[c][i] = log[since[c] + i]
    BY <1>5 DEF DeliveryInv, InOrder
  <2>2. since[w] + Len(got'[w]) <= Len(log)
    BY <1>2, <1>3, <1>4, <1>5
  <2>3. ASSUME NEW i \in 1..Len(got'[w]) PROVE got'[w][i] = log[since[w] + i]
    <3>1. CASE i \in 1..Len(got[w])
      BY <1>2, <1>5, <3>1 DEF DeliveryInv, InOrder
    <3>2. CASE i = Len(got[w]) + 1
      BY <1>2, <1>3, <1>4, <1>5, <3>2
    <3> QED
      BY <1>2, <1>3, <1>5, <2>3, <3>1, <3>2
  <2> QED
    BY <1>2, <2>1, <2>2, <2>3 DEF InOrder
<1>8. UpToDate'
  <2> SUFFICES ASSUME NEW c \in clients
               PROVE  IF Pending(c)' THEN since[c] + Len(got'[c]) + 1 = Len(log) /\ log[Len(log)] = hub'.event
                      ELSE since[c] + Len(got'[c]) = Len(log)
    BY <1>2 DEF UpToDate
  <2>1. w \notin hub.rest
    BY <1>2 DEF DeliveryInv, OncePerEvent, w
  <2>2. Pending(c)' <=> c \in hub.rest
    <3>1. CASE hub' = Selecting /\ hub.rest = {}
      BY <3>1 DEF Pending
    <3>2. ASSUME NEW k \in hub.rest, hub' = [event |-> hub.event, to |-> k, rest |-> hub.rest \ {k}]
          PROVE  Pending(c)' <=> c \in hub.rest
      <4>1. hub'.event = hub.event /\ hub'.to = k /\ hub'.rest = hub.rest \ {k}
        BY <3>2
      <4>2. hub' # Selecting
        BY <1>2, <4>1, HubAssumption DEF Selecting
      <4> QED
        BY <3>2, <4>1, <4>2 DEF Pending
    <3> QED
      BY <1>1, <3>1, <3>2
  <2>3. c \in hub.rest => hub'.event = hub.event
    BY <1>1
  <2>4. CASE c = w
    <3>1. ~Pending(c)'
      BY <2>1, <2>2, <2>4
    <3>2. since[w] \in Nat /\ Len(got[w]) \in Nat
      BY <1>2, <1>3
    <3>3. since[w] + Len(got'[w]) = Len(log)
      BY <1>3, <1>4, <1>5, <3>2
    <3> QED
      BY <2>4, <3>1, <3>3
  <2>5. CASE c # w
    <3>1. Pending(c) <=> c \in hub.rest
      BY <1>2, <2>5 DEF Pending, w
    <3> QED
      BY <1>2, <1>5, <2>2, <2>3, <2>5, <3>1 DEF DeliveryInv, UpToDate
  <2> QED
    BY <2>4, <2>5
<1>9. OncePerEvent'
  BY <1>1 DEF OncePerEvent
<1> QED
  BY <1>6, <1>7, <1>8, <1>9 DEF DeliveryInv

LEMMA DeliveryKept ==
  ASSUME IInv, DeliveryInv, [Next]_vars
  PROVE  DeliveryInv'
<1>1. ASSUME NEW c \in Client, HubUnregister(c) PROVE DeliveryInv'
  BY <1>1, NoEventMoves DEF HubUnregister, history
<1>2. ASSUME NEW c \in Client, Connect(c) \/ ClientStep(c) \/ PeerGone(c) PROVE DeliveryInv'
  <2>1. /\ UNCHANGED <<clients, hub, log, since, got>>
        /\ \A k \in Client : conn'[k] \in {"none", "registering"} => conn[k] \in {"none", "registering"}
    <3> USE DEF history, goroutines, IInv, HubInv, TypeOK
    <3>1. CASE Connect(c)
      BY <3>1 DEF Connect
    <3>2. CASE StartClient(c)
      BY <3>2 DEF StartClient
    <3>3. CASE WriterStep(c) \/ ReadFails(c) \/ PeerGone(c)
      BY <3>3 DEF WriterStep, Write, WriteFails, PingFails, ChannelClosed, WriterEnds, ReadFails, PeerGone
    <3> QED
      BY <1>2, <3>1, <3>2, <3>3 DEF ClientStep
  <2> QED
    BY <2>1, NoEventMoves
<1>3. ASSUME NEW s \in Sender, Send(s) PROVE DeliveryInv'
  BY <1>3, NoEventMoves DEF Send, history
<1>4. CASE UNCHANGED vars
  BY <1>4, NoEventMoves DEF vars, goroutines, history
<1> QED
  BY <1>1, <1>2, <1>3, <1>4, RegisterDelivers, BroadcastDelivers, SendDelivers DEF Next, HubStep

(* A listener gets every event since its registration, once and in the     *)
(* order the hub took them, whoever else comes and goes.                   *)
THEOREM ListenersMissNothing == Spec => []GaplessDelivery
<1>1. Init => DeliveryInv
  BY DEF Init, DeliveryInv, NothingBefore, InOrder, UpToDate, OncePerEvent
<1>2. IInv /\ DeliveryInv => GaplessDelivery
  <2> SUFFICES ASSUME IInv, DeliveryInv, NEW c \in Client
               PROVE  /\ got[c] = SubSeq(log, since[c] + 1, since[c] + Len(got[c]))
                      /\ c \in clients /\ c \notin hub.rest \cup {hub.to} => since[c] + Len(got[c]) = Len(log)
    BY DEF GaplessDelivery
  <2>1. log \in Seq(Sender) /\ got[c] \in Seq(Sender) /\ since[c] \in Nat /\ Len(got[c]) \in Nat /\ Len(log) \in Nat
    BY DEF IInv, HubInv, TypeOK
  <2>2. since[c] + Len(got[c]) <= Len(log) /\ \A i \in 1..Len(got[c]) : got[c][i] = log[since[c] + i]
    BY DEF DeliveryInv, InOrder
  <2> DEFINE m == since[c] + 1
             n == since[c] + Len(got[c])
             part == SubSeq(log, m, n)
  <2>3. m \in Int /\ n \in Int /\ \A i \in m..n : log[i] \in Sender
    BY <2>1, <2>2
  <2> HIDE DEF m, n
  <2>4. part \in Seq(Sender) /\ Len(part) = (IF m <= n THEN n - m + 1 ELSE 0) /\ \A i \in 1..(n - m + 1) : part[i] = log[m + i - 1]
    BY <2>3, SubSeqProperties
  <2> HIDE DEF part
  <2>5. Len(part) = Len(got[c]) /\ \A i \in 1..Len(got[c]) : part[i] = log[since[c] + i]
    <3>1. m = since[c] + 1 /\ n = since[c] + Len(got[c])
      BY DEF m, n
    <3>2. n - m + 1 = Len(got[c]) /\ (m <= n <=> Len(got[c]) # 0)
      <4>1. \A a, b \in Nat : (a + b) - (a + 1) + 1 = b /\ (a + 1 <= a + b <=> b # 0)
        OBVIOUS
      <4> QED
        BY <4>1, <2>1, <3>1, SMTT(60)
    <3>3. \A i \in 1..Len(got[c]) : m + i - 1 = since[c] + i
      BY <2>1, <3>1
    <3> QED
      BY <2>1, <2>4, <3>2, <3>3
  <2>6. got[c] = part
    <3>1. \A i \in 1..Len(got[c]) : got[c][i] = part[i]
      BY <2>2, <2>5
    <3>2. got[c] \in Seq(Sender) /\ part \in Seq(Sender) /\ Len(part) = Len(got[c])
      BY <2>1, <2>4, <2>5
    <3> QED
      BY <3>1, <3>2, SeqEqual
  <2>7. c \in clients /\ c \notin hub.rest \cup {hub.to} => since[c] + Len(got[c]) = Len(log)
    BY DEF DeliveryInv, UpToDate, Pending
  <2> QED
    BY <2>6, <2>7 DEF part, m, n
<1> QED
  BY <1>1, <1>2, IInvHolds, DeliveryKept, PTL DEF Spec

=============================================================================
