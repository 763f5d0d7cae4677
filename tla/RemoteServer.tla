---------------------------- MODULE RemoteServer ----------------------------
(***************************************************************************)
(* A Remote server: the window thread that starts and terminates it, the   *)
(* ListenThread of every start, the ServerInputRecvThread of every client  *)
(* and the threads of the screen stream.  ClientsInformation, nConnected,  *)
(* isOnline and sktListen are shared by all of them and guarded by nothing *)
(* but the mutex of the condition variable.                                *)
(*                                                                         *)
(* A handle is what socket() or accept() returns and may return again once *)
(* it was closed, by whomever.  What the receivers do with the bytes of a  *)
(* client is the subject of InputChannel.                                  *)
(*                                                                         *)
(* Operators marked FAULTY are variants with one plausible mistake; no     *)
(* behaviour uses them.                                                    *)
(***************************************************************************)
EXTENDS Integers, FiniteSetsExt

CONSTANTS
  Handles,      \* that socket() and accept() can return
  Invalid,      \* INVALID_SOCKET
  Slots,        \* MAX_CLIENTS, the size of ClientsInformation
  MaxClients,   \* Server.maxClients, from the configuration file
  MaxStarts,    \* bound: how often the user clicks on Start
  MaxArrivals,  \* bound: connections that clients make
  MaxStreams    \* bound: connections to the stream port

ASSUME RemoteServerAssumption ==
  /\ Invalid \notin Handles
  /\ {Slots, MaxStarts} \subseteq Nat \ {0}
  /\ {MaxClients, MaxArrivals, MaxStreams} \subseteq Nat

VARIABLES
  ui,          \* what the window thread is doing
  online,      \* Server.isOnline
  slots,       \* the sockets in Server.ClientsInformation
  nConnected,  \* Server.nConnected
  sktListen,   \* Server.sktListen; Invalid if it is not bound
  sock,        \* what a handle stands for
  backlog,     \* connections that wait to be accepted, at most one: listen(.., 1)
  gone,        \* sockets whose client has left
  lt,          \* what the ListenThread of the n-th start is doing
  found,       \* its socket_found
  index,       \* its index
  asock,       \* the socket it accepts on
  held,        \* what accept has returned
  count,       \* nConnected as ++ has read it
  receivers,   \* ServerInputRecvThreads that receive from a socket
  failing,     \* those that are about to close it
  stream,      \* the threads of the screen stream
  streamPort,  \* does the stream listener run
  active,      \* g_screenStreamActive
  starts,      \* history: number of starts
  arrivals,    \* history: number of connections
  calm         \* history: has every start found all threads of earlier ones
               \* ended, and no ListenThread woken without a notification

server == <<online, slots, nConnected, sktListen>>
sockets == <<sock, backlog, gone>>
listeners == <<lt, found, index, asock, held, count>>
inputs == <<receivers, failing>>
streams == <<stream, streamPort, active>>
vars == <<ui, server, sockets, listeners, inputs, streams, starts, arrivals, calm>>

Listeners == 1 .. MaxStarts
Streams == 1 .. MaxStreams

Init ==
  /\ ui = "idle" /\ online = FALSE /\ nConnected = 0 /\ sktListen = Invalid
  /\ slots = [i \in 1 .. Slots |-> Invalid]
  /\ sock = [h \in Handles |-> "closed"]
  /\ backlog = [h \in Handles |-> 0] /\ gone = {}
  /\ lt = [n \in Listeners |-> "none"]
  /\ found = [n \in Listeners |-> FALSE]
  /\ index = [n \in Listeners |-> 1]
  /\ asock = [n \in Listeners |-> Invalid]
  /\ held = [n \in Listeners |-> Invalid]
  /\ count = [n \in Listeners |-> 0]
  /\ receivers = [h \in Handles |-> 0] /\ failing = [h \in Handles |-> 0]
  /\ stream = [s \in Streams |-> "none"]
  /\ streamPort = FALSE /\ active = FALSE
  /\ starts = 0 /\ arrivals = 0 /\ calm = TRUE

Clients == {h \in Handles : sock[h] = "client"}

Close(closed) ==
  /\ sock' = [h \in Handles |-> IF h \in closed THEN "closed" ELSE sock[h]]
  /\ backlog' = [h \in Handles |-> IF h \in closed THEN 0 ELSE backlog[h]]
  /\ gone' = gone \ closed

-----------------------------------------------------------------------------
(* The window thread: ServerStart and ServerTerminate.                     *)

Quiet ==
  /\ \A n \in Listeners : lt[n] \in {"none", "ended"}
  /\ \A h \in Handles : receivers[h] = 0 /\ failing[h] = 0
  /\ Clients = {} /\ nConnected = 0

PortInUse == \E h \in Handles : sock[h] \in {"bound", "listening"}

\* InitializeServer writes to sktListen before it knows whether bind works.
StartFails ==
  /\ ui = "idle" /\ ~online /\ starts < MaxStarts
  /\ starts' = starts + 1
  /\ sktListen' = Invalid
  /\ UNCHANGED <<ui, online, slots, nConnected, sockets, listeners, inputs,
                 streams, arrivals, calm>>

StartBinds ==
  /\ ui = "idle" /\ ~online /\ starts < MaxStarts /\ ~PortInUse
  /\ ui' = "bound"
  /\ starts' = starts + 1
  /\ calm' = (calm /\ Quiet)
  /\ \E h \in Handles :
       /\ sock[h] = "closed"
       /\ sock' = [sock EXCEPT ![h] = "bound"]
       /\ sktListen' = h
  /\ UNCHANGED <<online, slots, nConnected, backlog, gone, listeners, inputs,
                 streams, arrivals>>

\* The slots are cleared, whatever is in them, and the listeners start.  The
\* stream listener of an earlier start still holds its port, so that a second
\* one does not start.
StartGoesOnline ==
  /\ ui = "bound" /\ ui' = "idle"
  /\ slots' = [i \in 1 .. Slots |-> Invalid]
  /\ online' = TRUE
  /\ lt' = [lt EXCEPT ![starts] = "test"]
  /\ streamPort' = TRUE
  /\ UNCHANGED <<nConnected, sktListen, sockets, found, index, asock, held, count,
                 inputs, stream, active, starts, arrivals, calm>>

\* FAULTY: sktListen stays open.
TerminateClosesClients ==
  /\ ui = "idle" /\ online
  /\ ui' = "closed"
  /\ Close({h \in Handles : \E i \in 1 .. Slots : slots[i] = h})
  /\ UNCHANGED <<server, listeners, inputs, streams, starts, arrivals, calm>>

\* TerminateServer closes whatever handles the slots have at this moment.
TerminateCloses ==
  /\ ui = "idle" /\ online
  /\ ui' = "closed"
  /\ Close({h \in Handles : h = sktListen \/ \E i \in 1 .. Slots : slots[i] = h})
  /\ UNCHANGED <<server, listeners, inputs, streams, starts, arrivals, calm>>

\* notify_all without the mutex.
TerminateGoesOffline ==
  /\ ui = "closed" /\ ui' = "offline"
  /\ nConnected' = 0 /\ online' = FALSE
  /\ lt' = [n \in Listeners |-> IF lt[n] = "wait" THEN "select" ELSE lt[n]]
  /\ UNCHANGED <<slots, sktListen, sockets, found, index, asock, held, count,
                 inputs, streams, starts, arrivals, calm>>

TerminateStopsStream ==
  /\ ui = "offline" /\ ui' = "idle"
  /\ active' = FALSE
  /\ UNCHANGED <<server, sockets, listeners, inputs, stream, streamPort, starts,
                 arrivals, calm>>

Finish == StartGoesOnline \/ TerminateGoesOffline \/ TerminateStopsStream

-----------------------------------------------------------------------------
(* ListenThread.  A local variable that is not read again goes back to its *)
(* first value.                                                            *)

ListenTests(n) ==
  /\ lt[n] = "test"
  /\ lt' = [lt EXCEPT ![n] = IF online THEN "check" ELSE "ended"]
  /\ found' = [found EXCEPT ![n] = @ /\ online]
  /\ index' = [index EXCEPT ![n] = IF online THEN @ ELSE 1]
  /\ UNCHANGED <<ui, server, sockets, asock, held, count, inputs, streams, starts,
                 arrivals, calm>>

\* FAULTY: one client too few.
ListenChecksBelow(n) ==
  /\ lt[n] = "check"
  /\ lt' = [lt EXCEPT ![n] = IF nConnected + 1 >= MaxClients THEN "sleep" ELSE "select"]
  /\ UNCHANGED <<ui, server, sockets, found, index, asock, held, count, inputs,
                 streams, starts, arrivals, calm>>

\* FAULTY: one client too many.
ListenChecksAbove(n) ==
  /\ lt[n] = "check"
  /\ lt' = [lt EXCEPT ![n] = IF nConnected > MaxClients THEN "sleep" ELSE "select"]
  /\ UNCHANGED <<ui, server, sockets, found, index, asock, held, count, inputs,
                 streams, starts, arrivals, calm>>

ListenChecks(n) ==
  /\ lt[n] = "check"
  /\ lt' = [lt EXCEPT ![n] = IF nConnected >= MaxClients THEN "sleep" ELSE "select"]
  /\ UNCHANGED <<ui, server, sockets, found, index, asock, held, count, inputs,
                 streams, starts, arrivals, calm>>

\* The mutex is held up to here, but TerminateGoesOffline does not take it.
ListenWaits(n) ==
  /\ lt[n] = "sleep"
  /\ lt' = [lt EXCEPT ![n] = "wait"]
  /\ UNCHANGED <<ui, server, sockets, found, index, asock, held, count, inputs,
                 streams, starts, arrivals, calm>>

\* Nothing is tested again after the wait.
SpuriousWake(n) ==
  /\ lt[n] = "wait"
  /\ lt' = [lt EXCEPT ![n] = "select"]
  /\ calm' = FALSE
  /\ UNCHANGED <<ui, server, sockets, found, index, asock, held, count, inputs,
                 streams, starts, arrivals>>

\* FAULTY: the loop's variable is used when no slot is free.
SelectEnd(n) ==
  LET free == {i \in 1 .. Slots : slots[i] = Invalid} IN
  /\ lt[n] = "select"
  /\ lt' = [lt EXCEPT ![n] = "listen"]
  /\ index' = [index EXCEPT ![n] = IF found[n] THEN @
                                   ELSE IF free = {} THEN Slots + 1 ELSE Max(free)]
  /\ found' = [found EXCEPT ![n] = @ \/ free # {}]
  /\ UNCHANGED <<ui, server, sockets, asock, held, count, inputs, streams,
                 starts, arrivals, calm>>

\* FAULTY: the slot found last is used for ever.
SelectOnce(n) ==
  LET free == {i \in 1 .. Slots : slots[i] = Invalid} IN
  /\ lt[n] = "select"
  /\ lt' = [lt EXCEPT ![n] = "listen"]
  /\ index' = [index EXCEPT ![n] = IF found[n] \/ free = {} THEN @ ELSE Slots]
  /\ found' = [found EXCEPT ![n] = @ \/ free # {}]
  /\ UNCHANGED <<ui, server, sockets, asock, held, count, inputs, streams,
                 starts, arrivals, calm>>

\* The last free slot; the old index if none is free.
Select(n) ==
  LET free == {i \in 1 .. Slots : slots[i] = Invalid} IN
  /\ lt[n] = "select"
  /\ lt' = [lt EXCEPT ![n] = "listen"]
  /\ index' = [index EXCEPT ![n] = IF found[n] \/ free = {} THEN @ ELSE Max(free)]
  /\ found' = [found EXCEPT ![n] = @ \/ free # {}]
  /\ UNCHANGED <<ui, server, sockets, asock, held, count, inputs, streams,
                 starts, arrivals, calm>>

\* An error of listen is only logged.
Listen(n) ==
  /\ lt[n] = "listen"
  /\ lt' = [lt EXCEPT ![n] = "accept"]
  /\ asock' = [asock EXCEPT ![n] = sktListen]
  /\ sock' = [h \in Handles |->
                IF h = sktListen /\ sock[h] = "bound" THEN "listening" ELSE sock[h]]
  /\ UNCHANGED <<ui, server, backlog, gone, found, index, held, count, inputs,
                 streams, starts, arrivals, calm>>

Accept(n) ==
  /\ lt[n] = "accept"
  /\ \E h, c \in Handles :
       /\ h = asock[n] /\ sock[h] = "listening" /\ backlog[h] > 0
       /\ sock[c] = "closed"
       /\ sock' = [sock EXCEPT ![c] = "client"]
       /\ backlog' = [backlog EXCEPT ![h] = @ - 1]
       /\ held' = [held EXCEPT ![n] = c]
  /\ asock' = [asock EXCEPT ![n] = Invalid]
  /\ lt' = [lt EXCEPT ![n] = "store"]
  /\ UNCHANGED <<ui, server, gone, found, index, count, inputs, streams, starts,
                 arrivals, calm>>

AcceptFails(n) ==
  /\ lt[n] = "accept"
  /\ asock[n] \notin {h \in Handles : sock[h] = "listening"}
  /\ asock' = [asock EXCEPT ![n] = Invalid]
  /\ held' = [held EXCEPT ![n] = Invalid]
  /\ lt' = [lt EXCEPT ![n] = "store"]
  /\ UNCHANGED <<ui, server, sockets, found, index, count, inputs, streams, starts,
                 arrivals, calm>>

Store(n) ==
  /\ lt[n] = "store"
  /\ slots' = [slots EXCEPT ![index[n]] = held[n]]
  /\ held' = [held EXCEPT ![n] = Invalid]
  /\ lt' = [lt EXCEPT ![n] = IF held[n] = Invalid THEN "test" ELSE "count"]
  /\ UNCHANGED <<ui, online, nConnected, sktListen, sockets, found, index, asock,
                 count, inputs, streams, starts, arrivals, calm>>

Count(n) ==
  /\ lt[n] = "count"
  /\ count' = [count EXCEPT ![n] = nConnected]
  /\ lt' = [lt EXCEPT ![n] = "spawn"]
  /\ UNCHANGED <<ui, server, sockets, found, index, asock, held, inputs, streams,
                 starts, arrivals, calm>>

\* FAULTY: no receiver starts.
SpawnNobody(n) ==
  /\ lt[n] = "spawn"
  /\ nConnected' = count[n] + 1
  /\ count' = [count EXCEPT ![n] = 0]
  /\ found' = [found EXCEPT ![n] = FALSE]
  /\ lt' = [lt EXCEPT ![n] = "test"]
  /\ UNCHANGED <<ui, online, slots, sktListen, sockets, index, asock, held,
                 inputs, streams, starts, arrivals, calm>>

\* The receiver gets what the slot has now; for INVALID_SOCKET it ends at once.
Spawn(n) ==
  LET h == slots[index[n]] IN
  /\ lt[n] = "spawn"
  /\ nConnected' = count[n] + 1
  /\ count' = [count EXCEPT ![n] = 0]
  /\ receivers' = [x \in Handles |-> receivers[x] + IF x = h THEN 1 ELSE 0]
  /\ found' = [found EXCEPT ![n] = FALSE]
  /\ lt' = [lt EXCEPT ![n] = "test"]
  /\ UNCHANGED <<ui, online, slots, sktListen, sockets, index, asock, held,
                 failing, streams, starts, arrivals, calm>>

ListenThread(n) ==
  \/ ListenTests(n) \/ ListenChecks(n) \/ ListenWaits(n) \/ Select(n) \/ Listen(n)
  \/ Accept(n) \/ AcceptFails(n) \/ Store(n) \/ Count(n) \/ Spawn(n)

-----------------------------------------------------------------------------
(* Clients and their ServerInputRecvThreads.                               *)

Arrive(h) ==
  /\ sock[h] = "listening" /\ backlog[h] = 0 /\ arrivals < MaxArrivals
  /\ arrivals' = arrivals + 1
  /\ backlog' = [backlog EXCEPT ![h] = 1]
  /\ UNCHANGED <<ui, server, sock, gone, listeners, inputs, streams, starts, calm>>

Leave(h) ==
  /\ sock[h] = "client" /\ h \notin gone
  /\ gone' = gone \cup {h}
  /\ UNCHANGED <<ui, server, sock, backlog, listeners, inputs, streams, starts,
                 arrivals, calm>>

\* recv returns 0 or an error.
ReceiverFails(h) ==
  /\ receivers[h] > 0 /\ (sock[h] # "client" \/ h \in gone)
  /\ receivers' = [receivers EXCEPT ![h] = @ - 1]
  /\ failing' = [failing EXCEPT ![h] = @ + 1]
  /\ UNCHANGED <<ui, server, sockets, listeners, streams, starts, arrivals, calm>>

\* FAULTY: a receiver closes its socket twice.
ReceiverClosesTwice(h) ==
  /\ failing[h] > 0
  /\ \/ failing' = [failing EXCEPT ![h] = @ - 1] \/ UNCHANGED failing
  /\ Close({h})
  /\ UNCHANGED <<ui, server, listeners, receivers, streams, starts, arrivals, calm>>

\* The handle is closed whatever it stands for by now; the slot keeps it.
ReceiverCloses(h) ==
  /\ failing[h] > 0
  /\ failing' = [failing EXCEPT ![h] = @ - 1]
  /\ Close({h})
  /\ UNCHANGED <<ui, server, listeners, receivers, streams, starts, arrivals, calm>>

Receiver(h) == ReceiverFails(h) \/ ReceiverCloses(h)

-----------------------------------------------------------------------------
(* The screen stream: its listener never ends.  Every thread sets the flag *)
(* when it starts and clears it when it ends, whether by the flag or       *)
(* because its client has left.                                            *)

StreamArrives(s) ==
  /\ streamPort /\ stream[s] = "none"
  /\ stream' = [stream EXCEPT ![s] = "accepted"]
  /\ UNCHANGED <<ui, server, sockets, listeners, inputs, streamPort, active, starts,
                 arrivals, calm>>

StreamStarts(s) ==
  /\ stream[s] = "accepted"
  /\ stream' = [stream EXCEPT ![s] = "streaming"]
  /\ active' = TRUE
  /\ UNCHANGED <<ui, server, sockets, listeners, inputs, streamPort, starts,
                 arrivals, calm>>

StreamStops(s) ==
  /\ stream[s] = "streaming" /\ ~active
  /\ stream' = [stream EXCEPT ![s] = "ending"]
  /\ UNCHANGED <<ui, server, sockets, listeners, inputs, streamPort, active, starts,
                 arrivals, calm>>

StreamLeft(s) ==
  /\ stream[s] = "streaming"
  /\ stream' = [stream EXCEPT ![s] = "ending"]
  /\ UNCHANGED <<ui, server, sockets, listeners, inputs, streamPort, active, starts,
                 arrivals, calm>>

StreamEnds(s) ==
  /\ stream[s] = "ending"
  /\ stream' = [stream EXCEPT ![s] = "ended"]
  /\ active' = FALSE
  /\ UNCHANGED <<ui, server, sockets, listeners, inputs, streamPort, starts,
                 arrivals, calm>>

StreamThread(s) == StreamStarts(s) \/ StreamStops(s) \/ StreamEnds(s)

-----------------------------------------------------------------------------
Next ==
  \/ StartFails \/ StartBinds \/ TerminateCloses \/ Finish
  \/ \E n \in Listeners : ListenThread(n) \/ SpuriousWake(n)
  \/ \E h \in Handles : Arrive(h) \/ Leave(h) \/ Receiver(h)
  \/ \E s \in Streams : StreamArrives(s) \/ StreamThread(s) \/ StreamLeft(s)

Spec == Init /\ [][Next]_vars

\* The scheduler runs every thread that can run.  Nobody has to start or
\* terminate a server, to come or to go.
FairSpec ==
  /\ Spec
  /\ WF_vars(Finish)
  /\ \A n \in Listeners : WF_vars(ListenThread(n))
  /\ \A h \in Handles : WF_vars(Receiver(h))
  /\ \A s \in Streams : WF_vars(StreamThread(s))

-----------------------------------------------------------------------------
(* Properties.                                                             *)

\* Every variable keeps its type; the slot of a ListenThread is one of the
\* vector's even when none was free, and no count leaves the number of clients.
TypeOK ==
  /\ ui \in {"idle", "bound", "closed", "offline"} /\ online \in BOOLEAN
  /\ slots \in [1 .. Slots -> Handles \cup {Invalid}]
  /\ nConnected \in 0 .. MaxArrivals
  /\ sktListen \in Handles \cup {Invalid}
  /\ sock \in [Handles -> {"closed", "bound", "listening", "client"}]
  /\ backlog \in [Handles -> 0 .. 1] /\ gone \subseteq Clients
  /\ lt \in [Listeners -> {"none", "test", "check", "sleep", "wait", "select",
                           "listen", "accept", "store", "count", "spawn", "ended"}]
  /\ found \in [Listeners -> BOOLEAN] /\ index \in [Listeners -> 1 .. Slots]
  /\ asock \in [Listeners -> Handles \cup {Invalid}]
  /\ held \in [Listeners -> Handles \cup {Invalid}]
  /\ count \in [Listeners -> 0 .. MaxArrivals]
  /\ receivers \in [Handles -> 0 .. MaxArrivals]
  /\ failing \in [Handles -> 0 .. MaxArrivals]
  /\ stream \in [Streams -> {"none", "accepted", "streaming", "ending", "ended"}]
  /\ streamPort \in BOOLEAN /\ active \in BOOLEAN
  /\ starts \in 0 .. MaxStarts /\ arrivals \in 0 .. MaxArrivals
  /\ calm \in BOOLEAN

\* A ListenThread that has accepted a client and not counted it yet.
Uncounted(n) ==
  (lt[n] = "store" /\ held[n] # Invalid) \/ lt[n] \in {"count", "spawn"}

\* A calm server never has more clients than the configuration allows: the
\* count stays within the limit, and is never behind the clients by more than
\* the one that was just accepted.  The limit is tested before the wait and
\* not after it, and the count is reset by another thread.
AtMostMaxClients ==
  calm =>
    /\ nConnected <= MaxClients
    /\ online /\ ui # "closed" =>
         Cardinality(Clients)
           <= nConnected + Cardinality({n \in Listeners : Uncounted(n)})

\* ServerTerminate can reach every client: in a calm server whose limit does
\* not exceed the slots, a client is in a slot, or its ListenThread is about
\* to put it there.
SlotsKnowClients ==
  calm /\ online /\ ui # "closed" /\ MaxClients <= Slots =>
    \A h \in Clients :
      \/ \E i \in 1 .. Slots : slots[i] = h
      \/ \E n \in Listeners : lt[n] = "store" /\ held[n] = h

\* In a calm server every client has one receiver from the moment it is
\* counted until its socket is closed, although the receiver's socket is read
\* from the slot a second time: no client is deaf, and no socket is closed by
\* two of them.
ReceiverPerClient ==
  calm =>
    \A h \in Clients :
      \/ receivers[h] + failing[h] = 1
      \/ \E n \in Listeners :
           /\ receivers[h] + failing[h] = 0
           /\ \/ lt[n] = "store" /\ held[n] = h
              \/ lt[n] \in {"count", "spawn"} /\ slots[index[n]] = h

\* A client loses its connection because it left or the server is terminated.
\* ServerTerminate and the receiver both close the socket, and the handle may
\* be in use again: only in a calm server never by another client.
ClosedForAReason ==
  [][\A h \in Handles :
       sock[h] = "client" /\ sock'[h] = "closed" =>
         h \in gone \/ ui' = "closed" \/ ~calm]_vars

\* A connection that waits is accepted unless the limit is reached.  nConnected
\* never falls, so that after MaxClients connections nobody is accepted again.
WaitingAccepted ==
  (\E h \in Handles : backlog[h] > 0) /\ calm ~>
    ((\A h \in Handles : backlog[h] = 0) \/ nConnected >= MaxClients \/ ~calm)

\* In a calm server every ListenThread ends after a ServerTerminate, unless it
\* has missed the notification between its test and its wait.
ListenersEnd ==
  ~online ~>
    (online \/ ~calm \/ \A n \in Listeners : lt[n] \in {"none", "wait", "ended"})

\* "Also stop screen streaming": when ServerTerminate has returned, the flag
\* that keeps streams alive is clear, and stays so.
StreamingStopped == ~online /\ ui = "idle" => ~active
=============================================================================
