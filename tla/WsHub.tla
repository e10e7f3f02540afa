-------------------------------- MODULE WsHub --------------------------------
(***************************************************************************)
(* The hub of the status server: one goroutine that hands every event to   *)
(* every websocket client, the two goroutines of each client and the       *)
(* goroutines that report events (send2ws).                                *)
(*                                                                         *)
(* All channels are unbuffered: a send and its receive are one step, and   *)
(* who has no partner waits.  A goroutine in its select is "ready".        *)
(***************************************************************************)
EXTENDS Naturals, SequencesExt

CONSTANTS
  Client,   \* websocket connections
  Sender,   \* goroutines that report an event each; the event has its name
  None

ASSUME HubAssumption == None \notin Client \cup Sender

VARIABLES
  clients,   \* wsHub.clients
  hub,       \* the broadcast going on: event, client being sent to, clients still to serve
  closed,    \* clients whose send channel is closed
  conn,      \* [Client -> stage of initWS]
  writer,    \* [Client -> stage of write2ws]
  reader,    \* [Client -> stage of read4ws]
  open,      \* clients whose connection is not closed at this end
  peer,      \* clients whose other end is there
  sender,    \* [Sender -> stage of send2ws]
  log,       \* events in the order the hub took them (history)
  since,     \* [Client -> length of log when the client was registered] (history)
  got        \* [Client -> events its writer received] (history)

goroutines == <<conn, writer, reader, sender>>
sockets == <<open, peer>>
history == <<log, since, got>>
vars == <<clients, hub, closed, goroutines, sockets, history>>

Selecting == [event |-> None, to |-> None, rest |-> {}]

TypeOK ==
  /\ clients \subseteq Client
  /\ hub \in [event : Sender \cup {None}, to : Client \cup {None}, rest : SUBSET Client]
  /\ closed \subseteq Client
  /\ conn \in [Client -> {"none", "registering", "registered", "served"}]
  /\ writer \in [Client -> {"none", "ready", "writing", "ended"}]
  /\ reader \in [Client -> {"none", "reading", "unregistering", "ended"}]
  /\ \A c \in Client : conn[c] = "served" <=> writer[c] # "none" /\ reader[c] # "none"
  /\ open \subseteq Client
  /\ peer \subseteq Client
  /\ sender \in [Sender -> {"idle", "sending", "done"}]
  /\ log \in Seq(Sender)
  /\ since \in [Client -> Nat]
  /\ got \in [Client -> Seq(Sender)]

Init ==
  /\ clients = {}
  /\ hub = Selecting
  /\ closed = {}
  /\ conn = [c \in Client |-> "none"]
  /\ writer = [c \in Client |-> "none"]
  /\ reader = [c \in Client |-> "none"]
  /\ open = {}
  /\ peer = {}
  /\ sender = [s \in Sender |-> "idle"]
  /\ log = <<>>
  /\ since = [c \in Client |-> 0]
  /\ got = [c \in Client |-> <<>>]

-----------------------------------------------------------------------------
(* The hub *)

HubSelects == hub = Selecting

HubRegister(c) ==
  /\ HubSelects
  /\ conn[c] = "registering"
  /\ clients' = clients \cup {c}
  /\ conn' = [conn EXCEPT ![c] = "registered"]
  /\ since' = [since EXCEPT ![c] = Len(log)]
  /\ UNCHANGED <<hub, closed, writer, reader, sender, sockets, log, got>>

(* Mutant: the client stays in the map.                                    *)
HubClosesOnly(c) ==
  /\ HubSelects
  /\ reader[c] = "unregistering"
  /\ closed' = closed \cup {c}
  /\ reader' = [reader EXCEPT ![c] = "ended"]
  /\ open' = open \ {c}
  /\ UNCHANGED <<clients, hub, conn, writer, sender, peer, history>>

(* unregister <- c, then read4ws closes the connection and returns.        *)
HubUnregister(c) ==
  /\ HubSelects
  /\ reader[c] = "unregistering"
  /\ clients' = clients \ {c}
  /\ closed' = IF c \in clients THEN closed \cup {c} ELSE closed
  /\ reader' = [reader EXCEPT ![c] = "ended"]
  /\ open' = open \ {c}
  /\ UNCHANGED <<hub, conn, writer, sender, peer, history>>

(* The loop over the map takes the clients in any order, and waits for the *)
(* one it took.                                                            *)
Serve(event, rest) ==
  IF rest = {} THEN hub' = Selecting
  ELSE \E c \in rest : hub' = [event |-> event, to |-> c, rest |-> rest \ {c}]

HubBroadcast(s) ==
  /\ HubSelects
  /\ sender[s] = "sending"
  /\ sender' = [sender EXCEPT ![s] = "done"]
  /\ log' = Append(log, s)
  /\ Serve(s, clients)
  /\ UNCHANGED <<clients, closed, conn, writer, reader, sockets, since, got>>

(* Mutant: who is not ready is left out.                                   *)
HubSendsOrSkips ==
  /\ ~HubSelects
  /\ Serve(hub.event, hub.rest)
  /\ IF writer[hub.to] = "ready"
       THEN /\ writer' = [writer EXCEPT ![hub.to] = "writing"]
            /\ got' = [got EXCEPT ![hub.to] = Append(@, hub.event)]
       ELSE UNCHANGED <<writer, got>>
  /\ UNCHANGED <<clients, closed, conn, reader, sender, sockets, log, since>>

HubSends ==
  /\ ~HubSelects
  /\ writer[hub.to] = "ready"
  /\ writer' = [writer EXCEPT ![hub.to] = "writing"]
  /\ got' = [got EXCEPT ![hub.to] = Append(@, hub.event)]
  /\ Serve(hub.event, hub.rest)
  /\ UNCHANGED <<clients, closed, conn, reader, sender, sockets, log, since>>

-----------------------------------------------------------------------------
(* A client's goroutines *)

Connect(c) ==
  /\ conn[c] = "none"
  /\ conn' = [conn EXCEPT ![c] = "registering"]
  /\ open' = open \cup {c}
  /\ peer' = peer \cup {c}
  /\ UNCHANGED <<clients, hub, closed, writer, reader, sender, history>>

(* Mutant: the reader is not started in a goroutine of its own.            *)
StartReaderOnly(c) ==
  /\ conn[c] = "registered"
  /\ conn' = [conn EXCEPT ![c] = "served"]
  /\ reader' = [reader EXCEPT ![c] = "reading"]
  /\ UNCHANGED <<clients, hub, closed, writer, sender, sockets, history>>

StartClient(c) ==
  /\ conn[c] = "registered"
  /\ conn' = [conn EXCEPT ![c] = "served"]
  /\ reader' = [reader EXCEPT ![c] = "reading"]
  /\ writer' = [writer EXCEPT ![c] = "ready"]
  /\ UNCHANGED <<clients, hub, closed, sender, sockets, history>>

Write(c) ==
  /\ writer[c] = "writing"
  /\ c \in open
  /\ writer' = [writer EXCEPT ![c] = "ready"]
  /\ UNCHANGED <<clients, hub, closed, conn, reader, sender, sockets, history>>

(* write2ws returns: initWS closes the connection.                         *)
WriterEnds(c) ==
  /\ writer' = [writer EXCEPT ![c] = "ended"]
  /\ open' = open \ {c}
  /\ UNCHANGED <<clients, hub, closed, conn, reader, sender, peer, history>>

(* The deadline of a write passes, a write or a ping meets an error.       *)
WriteFails(c) ==
  /\ writer[c] = "writing"
  /\ c \notin open \cap peer
  /\ WriterEnds(c)

PingFails(c) ==
  /\ writer[c] = "ready"
  /\ c \notin open \cap peer
  /\ WriterEnds(c)

ChannelClosed(c) ==
  /\ writer[c] = "ready"
  /\ c \in closed
  /\ WriterEnds(c)

(* Mutants: any message ends the reader, which closes the connection       *)
(* first; it returns without a word to the hub.                            *)
ReaderClosesFirst(c) ==
  /\ reader[c] = "reading"
  /\ reader' = [reader EXCEPT ![c] = "unregistering"]
  /\ open' = open \ {c}
  /\ UNCHANGED <<clients, hub, closed, conn, writer, sender, peer, history>>

ReaderReturns(c) ==
  /\ reader[c] = "reading"
  /\ c \notin open \cap peer
  /\ reader' = [reader EXCEPT ![c] = "ended"]
  /\ open' = open \ {c}
  /\ UNCHANGED <<clients, hub, closed, conn, writer, sender, peer, history>>

ReadFails(c) ==
  /\ reader[c] = "reading"
  /\ c \notin open \cap peer
  /\ reader' = [reader EXCEPT ![c] = "unregistering"]
  /\ UNCHANGED <<clients, hub, closed, conn, writer, sender, sockets, history>>

(* The browser goes away, or stops answering.                              *)
PeerGone(c) ==
  /\ c \in peer
  /\ peer' = peer \ {c}
  /\ UNCHANGED <<clients, hub, closed, goroutines, open, history>>

(* A handler calls send2ws.                                                *)
Send(s) ==
  /\ sender[s] = "idle"
  /\ sender' = [sender EXCEPT ![s] = "sending"]
  /\ UNCHANGED <<clients, hub, closed, conn, writer, reader, sockets, history>>

-----------------------------------------------------------------------------
HubStep ==
  \/ \E c \in Client : HubRegister(c) \/ HubUnregister(c)
  \/ \E s \in Sender : HubBroadcast(s)
  \/ HubSends

WriterStep(c) == Write(c) \/ WriteFails(c) \/ PingFails(c) \/ ChannelClosed(c)
ClientStep(c) == StartClient(c) \/ WriterStep(c) \/ ReadFails(c)

Next ==
  \/ HubStep
  \/ \E c \in Client : Connect(c) \/ ClientStep(c) \/ PeerGone(c)
  \/ \E s \in Sender : Send(s)

Spec == Init /\ [][Next]_vars

(* Every goroutine is scheduled.  Clients and events are finitely many, so *)
(* the hub's select cannot prefer one channel to another for ever.         *)
Fairness ==
  /\ WF_vars(HubStep)
  /\ \A c \in Client : WF_vars(StartClient(c)) /\ WF_vars(WriterStep(c)) /\ WF_vars(ReadFails(c))

FairSpec == Spec /\ Fairness

-----------------------------------------------------------------------------
(* Properties *)

(* The hub waits for a client whose writer is no more.                     *)
HubStuck == hub.to # None /\ writer[hub.to] = "ended"

(* The hub never sends on a closed channel, which would end the process:   *)
(* whoever it is going to serve is registered, and whoever is registered   *)
(* has an open channel.                                                    *)
NoSendOnClosed ==
  /\ clients \cap closed = {}
  /\ hub.rest \subseteq clients
  /\ hub.to \in clients \cup {None}

HubInv == TypeOK /\ NoSendOnClosed

(* A listener sees every event since its registration, once and in the     *)
(* order in which all listeners see them.                                  *)
GaplessDelivery ==
  \A c \in Client :
    /\ got[c] = SubSeq(log, since[c] + 1, since[c] + Len(got[c]))
    /\ c \in clients /\ c \notin hub.rest \cup {hub.to} => since[c] + Len(got[c]) = Len(log)

(* A client whose other end is there never makes the hub wait for ever,    *)
(* however it is connected, served and disconnected.                       *)
OnlyLostClientsBlock == HubStuck => hub.to \notin peer

(* Apart from that, who reports an event is never held up for ever.        *)
EventsPass == \A s \in Sender : sender[s] = "sending" ~> (sender[s] = "done" \/ HubStuck)

(* A connection whose other end went away is forgotten, its goroutines end *)
(* with it.                                                                *)
LostClientIsForgotten ==
  \A c \in Client :
    (conn[c] = "served" /\ c \notin peer)
      ~> ((c \notin clients /\ writer[c] = "ended" /\ reader[c] = "ended") \/ HubStuck)

=============================================================================
