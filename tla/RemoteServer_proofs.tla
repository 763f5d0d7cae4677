------------------------ MODULE RemoteServer_proofs ------------------------
(***************************************************************************)
(* What a server keeps for every size of the limit, of the slots and of    *)
(* the set of handles, however often it is started and terminated and      *)
(* however the threads interleave: as long as every start finds the        *)
(* threads of earlier ones ended and no wait ends by itself (calm).  The   *)
(* types hold in any case.                                                 *)
(*                                                                         *)
(* The invariant is Shape, Window and, in a calm server, five parts that   *)
(* need one another.  One: at most one ListenThread is alive.  Limit: it   *)
(* is past its test only below the limit, and what ++ has read is still    *)
(* nConnected unless ServerTerminate has come between.  Counted: clients   *)
(* that are open are counted, but for the last.  SlotInv: below the limit  *)
(* there is a free slot, and the one that was found stays free until the   *)
(* client is put there.  ReceiverInv: a client is pending with its         *)
(* ListenThread or has one receiver, and a receiver that fails belongs to  *)
(* a client that has left.                                                 *)
(*                                                                         *)
(* Arrived bounds the counts, calm or not: each of them grows by one only  *)
(* when a connection that was made for it is counted, and a connection is  *)
(* in the backlog, with one ListenThread, or counted, never in two places. *)
(***************************************************************************)
EXTENDS RemoteServer, FiniteSetTheorems, WellFoundedInduction, TLAPS

LtStates == {"none", "test", "check", "sleep", "wait", "select", "listen", "accept",
             "store", "count", "spawn", "ended"}

\* The types of what the other parts speak of.
Shape ==
  /\ ui \in {"idle", "bound", "closed", "offline"}
  /\ {online, streamPort, active, calm} \subseteq BOOLEAN
  /\ slots \in [1 .. Slots -> Handles \cup {Invalid}]
  /\ nConnected \in Nat
  /\ sktListen \in Handles \cup {Invalid}
  /\ sock \in [Handles -> {"closed", "bound", "listening", "client"}]
  /\ backlog \in [Handles -> 0 .. 1] /\ gone \subseteq Clients
  /\ lt \in [Listeners -> LtStates]
  /\ found \in [Listeners -> BOOLEAN] /\ index \in [Listeners -> 1 .. Slots]
  /\ asock \in [Listeners -> Handles \cup {Invalid}]
  /\ held \in [Listeners -> Handles \cup {Invalid}]
  /\ count \in [Listeners -> Nat]
  /\ receivers \in [Handles -> Nat] /\ failing \in [Handles -> Nat]
  /\ starts \in 0 .. MaxStarts

\* The server is online and is not being terminated.
Open == online /\ ui = "idle"

\* Where the window thread is, the port that is bound and the starts to come.
Window ==
  /\ ui = "closed" => online
  /\ ui \in {"bound", "offline"} => ~online
  /\ \A h \in Handles :
       sock[h] \in {"bound", "listening"} =>
         h = sktListen /\ (ui = "bound" \/ Open)
  /\ ui = "bound" => starts \in Listeners
  /\ \A n \in Listeners :
       /\ n > starts \/ (ui = "bound" /\ n = starts) => lt[n] = "none"
       /\ lt[n] = "none" => ~found[n]

\* A ListenThread that has started and not ended.
Alive(n) == lt[n] \notin {"none", "ended"}

\* What a start that finds everything ended leaves alone until it is done.
One ==
  /\ \A n, m \in Listeners : Alive(n) /\ Alive(m) => n = m
  /\ ui = "bound" => Quiet

\* Nobody goes beyond the limit; what ++ has read does not grow old while the
\* server is open.
Limit ==
  /\ nConnected <= MaxClients
  /\ \A n \in Listeners :
       /\ Uncounted(n) => nConnected < MaxClients
       /\ lt[n] = "spawn" => count[n] < MaxClients /\ (Open => count[n] = nConnected)
       /\ Open /\ lt[n] \in {"select", "listen", "accept"} => nConnected < MaxClients

\* The clients of a server that is open are counted, but for the last one.
Counted ==
  /\ IsFiniteSet(Clients)
  /\ Open =>
       Cardinality(Clients)
         <= nConnected + (IF \E n \in Listeners : Uncounted(n) THEN 1 ELSE 0)

\* The slots that are not free.
Taken == {i \in 1 .. Slots : slots[i] # Invalid}

\* If the limit fits, the slot that was found stays free until the client is in
\* it, and every client is in a slot or about to be.
SlotInv ==
  Open /\ MaxClients <= Slots =>
    /\ Cardinality(Taken) <= nConnected + 1
    /\ (\A n \in Listeners : lt[n] \notin {"count", "spawn"}) =>
         Cardinality(Taken) <= nConnected
    /\ \A n \in Listeners :
         /\ lt[n] \in {"listen", "accept", "store"} => found[n]
         /\ found[n] /\ lt[n] \notin {"count", "spawn", "ended"} =>
              slots[index[n]] = Invalid
    /\ \A h \in Clients :
         \/ \E i \in 1 .. Slots : slots[i] = h
         \/ \E n \in Listeners : lt[n] = "store" /\ held[n] = h

\* The receivers that have not closed the socket yet.
Users(h) == receivers[h] + failing[h]

\* The ListenThread is about to start a receiver for the socket.
Pending(n, h) ==
  \/ lt[n] = "store" /\ held[n] = h
  \/ lt[n] \in {"count", "spawn"} /\ slots[index[n]] = h

\* A client waits for its receiver or has one; in a server that is open, nobody
\* else has.
ReceiverInv ==
  /\ \A n \in Listeners : lt[n] \in {"count", "spawn"} => slots[index[n]] # Invalid
  /\ Open =>
       \A h \in Handles :
         /\ h \notin Clients => Users(h) = 0
         /\ \A n \in Listeners : Pending(n, h) => h \in Clients
  /\ \A h \in Clients :
       /\ (\E n \in Listeners : Pending(n, h)) => Users(h) = 0
       /\ (\A n \in Listeners : ~Pending(n, h)) => Users(h) = 1
       /\ failing[h] > 0 => h \in gone

Calm == calm => One /\ Limit /\ Counted /\ SlotInv /\ ReceiverInv

IInv == Shape /\ Window /\ Calm

-----------------------------------------------------------------------------
(* The steps, one by one.                                                  *)

\* A step that none of the invariants but Shape notices.
Aside ==
  /\ UNCHANGED <<ui, server, sock, gone, listeners, inputs, starts, calm>>
  /\ backlog' \in [Handles -> 0 .. 1]
  /\ streamPort' \in BOOLEAN /\ active' \in BOOLEAN

\* Of the streams and of clients that only wait the invariants say nothing.
LEMMA AsideSteps ==
  ASSUME Shape,
         \/ \E h \in Handles : Arrive(h)
         \/ \E s \in Streams : StreamArrives(s) \/ StreamThread(s) \/ StreamLeft(s)
         \/ UNCHANGED vars
  PROVE  Aside
<1> USE DEF Shape, server, sockets, listeners, inputs, streams, vars, Aside
<1>1. ASSUME NEW h \in Handles, Arrive(h) PROVE Aside
  BY <1>1 DEF Arrive
<1>2. ASSUME NEW s \in Streams,
             StreamArrives(s) \/ StreamThread(s) \/ StreamLeft(s)
      PROVE  Aside
  BY <1>2 DEF StreamArrives, StreamThread, StreamStarts, StreamStops, StreamEnds, StreamLeft
<1> QED
  BY <1>1, <1>2

\* A step is one of these.
LEMMA Steps ==
  ASSUME Shape, [Next]_vars
  PROVE  \/ StartFails \/ StartBinds \/ StartGoesOnline
         \/ TerminateCloses \/ TerminateGoesOffline \/ TerminateStopsStream
         \/ \E n \in Listeners :
              \/ ListenTests(n) \/ ListenChecks(n) \/ ListenWaits(n) \/ Select(n)
              \/ Listen(n) \/ Accept(n) \/ AcceptFails(n) \/ Store(n) \/ Count(n)
              \/ Spawn(n) \/ SpuriousWake(n)
         \/ \E h \in Handles : Leave(h) \/ ReceiverFails(h) \/ ReceiverCloses(h)
         \/ Aside
<1>1. CASE Next
  BY <1>1, AsideSteps DEF Next, Finish, ListenThread, Receiver
<1>2. CASE UNCHANGED vars
  BY <1>2, AsideSteps
<1> QED
  BY <1>1, <1>2

\* The largest of the free slots is a free slot.
LEMMA MaxOfSlots ==
  ASSUME NEW S \in SUBSET (1 .. Slots), S # {}
  PROVE  Max(S) \in S
<1> DEFINE T == {Slots - i : i \in S}
<1>0. Slots \in Nat /\ \A i \in S : i \in Nat /\ i <= Slots
  BY RemoteServerAssumption
<1>1. T \subseteq Nat /\ T # {}
  <2>1. \A i \in S : Slots - i \in Nat
    BY <1>0
  <2> QED
    BY <2>1
<1>2. PICK x \in T : \A y \in T : ~(<<y, x>> \in OpToRel(<, Nat))
  <2> HIDE DEF T
  <2> QED
    BY <1>1, WFMin, NatLessThanWellFounded, Zenon
<1>3. \A y \in T : ~(y < x)
  BY <1>1, <1>2 DEF OpToRel
<1>4. PICK i \in S : x = Slots - i
  OBVIOUS
<1>5. ASSUME NEW j \in S PROVE i >= j
  <2>1. Slots - j \in T
    OBVIOUS
  <2>2. ~(Slots - j < Slots - i)
    BY <2>1, <1>3, <1>4
  <2> QED
    BY <2>2, <1>0
<1> QED
  BY <1>4, <1>5 DEF Max

\* Every step keeps the types.
LEMMA ShapeStep ==
  ASSUME Shape, [Next]_vars
  PROVE  Shape'
<1> USE DEF Shape, LtStates, Clients
<1>1. CASE StartFails
  <2>1. starts' \in 0 .. MaxStarts
    BY <1>1, RemoteServerAssumption DEF StartFails
  <2> QED
    BY <1>1, <2>1 DEF StartFails, server, sockets, listeners, inputs, streams
<1>2. CASE StartBinds
  <2>1. starts' \in 0 .. MaxStarts /\ calm' \in BOOLEAN /\ ui' = "bound"
    BY <1>2, RemoteServerAssumption DEF StartBinds, Quiet
  <2>2. PICK h \in Handles : /\ sock[h] = "closed" /\ sktListen' = h
                            /\ sock' = [sock EXCEPT ![h] = "bound"]
    BY <1>2 DEF StartBinds
  <2>3. /\ sock' \in [Handles -> {"closed", "bound", "listening", "client"}]
        /\ gone \subseteq Clients'
    BY <2>2
  <2>4. UNCHANGED <<online, slots, nConnected, backlog, gone, listeners, inputs, streams>>
    BY <1>2 DEF StartBinds
  <2> QED
    BY <2>1, <2>2, <2>3, <2>4 DEF listeners, inputs, streams
<1>3. CASE StartGoesOnline
  BY <1>3 DEF StartGoesOnline, server, sockets, listeners, inputs, streams
<1>4. CASE TerminateCloses
  BY <1>4 DEF TerminateCloses, Close, server, sockets, listeners, inputs, streams
<1>5. CASE TerminateGoesOffline
  BY <1>5 DEF TerminateGoesOffline, server, sockets, listeners, inputs, streams
<1>6. CASE TerminateStopsStream
  BY <1>6 DEF TerminateStopsStream, server, sockets, listeners, inputs, streams
<1>7. ASSUME NEW n \in Listeners, ListenTests(n) PROVE Shape'
  <2>1. /\ lt' \in [Listeners -> LtStates] /\ found' \in [Listeners -> BOOLEAN]
        /\ index' \in [Listeners -> 1 .. Slots]
    BY <1>7, RemoteServerAssumption DEF ListenTests
  <2>2. UNCHANGED <<ui, server, sockets, asock, held, count, inputs, streams, starts, calm>>
    BY <1>7 DEF ListenTests
  <2> QED
    BY <2>1, <2>2 DEF server, sockets, listeners, inputs, streams
<1>8. ASSUME NEW n \in Listeners, ListenChecks(n) PROVE Shape'
  BY <1>8 DEF ListenChecks, server, sockets, listeners, inputs, streams
<1>9. ASSUME NEW n \in Listeners, ListenWaits(n) PROVE Shape'
  BY <1>9 DEF ListenWaits, server, sockets, listeners, inputs, streams
<1>10. ASSUME NEW n \in Listeners, Select(n) PROVE Shape'
  <2> DEFINE free == {i \in 1 .. Slots : slots[i] = Invalid}
  <2>0. free \in SUBSET (1 .. Slots)
    OBVIOUS
  <2>1. free = {} \/ Max(free) \in 1 .. Slots
    <3> HIDE DEF free
    <3> QED
      BY <2>0, MaxOfSlots
  <2>2. /\ lt' \in [Listeners -> LtStates] /\ found' \in [Listeners -> BOOLEAN]
        /\ index' \in [Listeners -> 1 .. Slots]
    BY <1>10, <2>1 DEF Select
  <2> QED
    BY <1>10, <2>2 DEF Select, server, sockets, listeners, inputs, streams
<1>11. ASSUME NEW n \in Listeners, Listen(n) PROVE Shape'
  BY <1>11 DEF Listen, server, sockets, listeners, inputs, streams
<1>12. ASSUME NEW n \in Listeners, Accept(n) PROVE Shape'
  BY <1>12, SMTT(30) DEF Accept, server, sockets, listeners, inputs, streams
<1>13. ASSUME NEW n \in Listeners, AcceptFails(n) PROVE Shape'
  BY <1>13 DEF AcceptFails, server, sockets, listeners, inputs, streams
<1>14. ASSUME NEW n \in Listeners, Store(n) PROVE Shape'
  BY <1>14 DEF Store, server, sockets, listeners, inputs, streams
<1>15. ASSUME NEW n \in Listeners, Count(n) PROVE Shape'
  BY <1>15 DEF Count, server, sockets, listeners, inputs, streams
<1>16. ASSUME NEW n \in Listeners, Spawn(n) PROVE Shape'
  BY <1>16 DEF Spawn, server, sockets, listeners, inputs, streams
<1>17. ASSUME NEW n \in Listeners, SpuriousWake(n) PROVE Shape'
  BY <1>17 DEF SpuriousWake, server, sockets, listeners, inputs, streams
<1>18. ASSUME NEW h \in Handles, Leave(h) PROVE Shape'
  BY <1>18 DEF Leave, server, sockets, listeners, inputs, streams
<1>19. ASSUME NEW h \in Handles, ReceiverFails(h) PROVE Shape'
  BY <1>19 DEF ReceiverFails, server, sockets, listeners, inputs, streams
<1>20. ASSUME NEW h \in Handles, ReceiverCloses(h) PROVE Shape'
  BY <1>20 DEF ReceiverCloses, Close, server, sockets, listeners, inputs, streams
<1>21. CASE Aside
  BY <1>21 DEF Aside, server, sockets, listeners, inputs, streams
<1> QED
  BY <1>1, <1>2, <1>3, <1>4, <1>5, <1>6, <1>7, <1>8, <1>9, <1>10, <1>11, <1>12, <1>13, <1>14,
     <1>15, <1>16, <1>17, <1>18, <1>19, <1>20, <1>21, Steps

\* Every step keeps Window.
LEMMA WindowKept ==
  ASSUME Shape, Window, [Next]_vars
  PROVE  Window'
<1> USE DEF Shape, Window, LtStates, Open
<1>1. CASE StartFails
  <2>1. starts \in Nat /\ starts' = starts + 1 /\ ui = "idle" /\ ~online
    BY <1>1 DEF StartFails
  <2>2. UNCHANGED <<ui, online, sock, lt, found>>
    BY <1>1 DEF StartFails, sockets, listeners
  <2>3. \A h \in Handles : sock'[h] \notin {"bound", "listening"}
    BY <2>1, <2>2
  <2>4. \A n \in Listeners : n > starts' => n > starts
    BY <2>1 DEF Listeners
  <2> QED
    BY <2>1, <2>2, <2>3, <2>4
<1>2. CASE StartBinds
  <2>1. /\ starts \in Nat /\ starts' = starts + 1 /\ starts' \in Listeners
        /\ ui = "idle" /\ ~online /\ ui' = "bound" /\ ~online'
    BY <1>2, RemoteServerAssumption DEF StartBinds, Listeners
  <2>2. \A h \in Handles : sock'[h] \in {"bound", "listening"} => h = sktListen'
    BY <1>2 DEF StartBinds, PortInUse
  <2>3. UNCHANGED <<lt, found>>
    BY <1>2 DEF StartBinds, listeners
  <2>4. \A n \in Listeners : n > starts' \/ n = starts' => n > starts
    BY <2>1 DEF Listeners
  <2> QED
    BY <2>1, <2>2, <2>3, <2>4
<1>3. CASE StartGoesOnline
  BY <1>3 DEF StartGoesOnline, server, sockets, listeners, inputs, streams
<1>4. CASE TerminateCloses
  BY <1>4 DEF TerminateCloses, Close, server, sockets, listeners, inputs, streams
<1>5. CASE TerminateGoesOffline
  BY <1>5 DEF TerminateGoesOffline, server, sockets, listeners, inputs, streams
<1>6. CASE TerminateStopsStream
  BY <1>6 DEF TerminateStopsStream, server, sockets, listeners, inputs, streams
<1>7. ASSUME NEW n \in Listeners, ListenTests(n) PROVE Window'
  BY <1>7 DEF ListenTests, server, sockets, listeners, inputs, streams
<1>8. ASSUME NEW n \in Listeners, ListenChecks(n) PROVE Window'
  BY <1>8 DEF ListenChecks, server, sockets, listeners, inputs, streams
<1>9. ASSUME NEW n \in Listeners, ListenWaits(n) PROVE Window'
  BY <1>9 DEF ListenWaits, server, sockets, listeners, inputs, streams
<1>10. ASSUME NEW n \in Listeners, Select(n) PROVE Window'
  BY <1>10 DEF Select, server, sockets, listeners, inputs, streams
<1>11. ASSUME NEW n \in Listeners, Listen(n) PROVE Window'
  BY <1>11 DEF Listen, server, sockets, listeners, inputs, streams
<1>12. ASSUME NEW n \in Listeners, Accept(n) PROVE Window'
  BY <1>12 DEF Accept, server, sockets, listeners, inputs, streams
<1>13. ASSUME NEW n \in Listeners, AcceptFails(n) PROVE Window'
  BY <1>13 DEF AcceptFails, server, sockets, listeners, inputs, streams
<1>14. ASSUME NEW n \in Listeners, Store(n) PROVE Window'
  BY <1>14 DEF Store, server, sockets, listeners, inputs, streams
<1>15. ASSUME NEW n \in Listeners, Count(n) PROVE Window'
  BY <1>15 DEF Count, server, sockets, listeners, inputs, streams
<1>16. ASSUME NEW n \in Listeners, Spawn(n) PROVE Window'
  BY <1>16 DEF Spawn, server, sockets, listeners, inputs, streams
<1>17. ASSUME NEW n \in Listeners, SpuriousWake(n) PROVE Window'
  BY <1>17 DEF SpuriousWake, server, sockets, listeners, inputs, streams
<1>18. ASSUME NEW h \in Handles, Leave(h) PROVE Window'
  BY <1>18 DEF Leave, server, sockets, listeners, inputs, streams
<1>19. ASSUME NEW h \in Handles, ReceiverFails(h) PROVE Window'
  BY <1>19 DEF ReceiverFails, server, sockets, listeners, inputs, streams
<1>20. ASSUME NEW h \in Handles, ReceiverCloses(h) PROVE Window'
  BY <1>20 DEF ReceiverCloses, Close, server, sockets, listeners, inputs, streams
<1>21. CASE Aside
  BY <1>21 DEF Aside, server, sockets, listeners, inputs, streams
<1> QED
  BY <1>1, <1>2, <1>3, <1>4, <1>5, <1>6, <1>7, <1>8, <1>9, <1>10, <1>11, <1>12, <1>13, <1>14,
     <1>15, <1>16, <1>17, <1>18, <1>19, <1>20, <1>21, Steps

\* A calm step keeps One.
LEMMA OneStep ==
  ASSUME Shape, Window, One, calm', [Next]_vars
  PROVE  One'
<1> USE DEF Shape, Window, One, Open, Quiet, Clients, Alive, LtStates
<1>1. CASE StartFails
  BY <1>1 DEF StartFails, server, sockets, listeners, inputs, streams
<1>2. CASE StartBinds
  BY <1>2 DEF StartBinds, Quiet, PortInUse, server, sockets, listeners, inputs, streams
<1>3. CASE StartGoesOnline
  BY <1>3 DEF StartGoesOnline, server, sockets, listeners, inputs, streams
<1>4. CASE TerminateCloses
  BY <1>4 DEF TerminateCloses, Close, server, sockets, listeners, inputs, streams
<1>5. CASE TerminateGoesOffline
  BY <1>5 DEF TerminateGoesOffline, server, sockets, listeners, inputs, streams
<1>6. CASE TerminateStopsStream
  BY <1>6 DEF TerminateStopsStream, server, sockets, listeners, inputs, streams
<1>7. ASSUME NEW n \in Listeners, ListenTests(n) PROVE One'
  BY <1>7 DEF ListenTests, server, sockets, listeners, inputs, streams
<1>8. ASSUME NEW n \in Listeners, ListenChecks(n) PROVE One'
  BY <1>8 DEF ListenChecks, server, sockets, listeners, inputs, streams
<1>9. ASSUME NEW n \in Listeners, ListenWaits(n) PROVE One'
  BY <1>9 DEF ListenWaits, server, sockets, listeners, inputs, streams
<1>10. ASSUME NEW n \in Listeners, Select(n) PROVE One'
  BY <1>10 DEF Select, server, sockets, listeners, inputs, streams
<1>11. ASSUME NEW n \in Listeners, Listen(n) PROVE One'
  BY <1>11 DEF Listen, server, sockets, listeners, inputs, streams
<1>12. ASSUME NEW n \in Listeners, Accept(n) PROVE One'
  BY <1>12 DEF Accept, server, sockets, listeners, inputs, streams
<1>13. ASSUME NEW n \in Listeners, AcceptFails(n) PROVE One'
  BY <1>13 DEF AcceptFails, server, sockets, listeners, inputs, streams
<1>14. ASSUME NEW n \in Listeners, Store(n) PROVE One'
  BY <1>14 DEF Store, server, sockets, listeners, inputs, streams
<1>15. ASSUME NEW n \in Listeners, Count(n) PROVE One'
  BY <1>15 DEF Count, server, sockets, listeners, inputs, streams
<1>16. ASSUME NEW n \in Listeners, Spawn(n) PROVE One'
  BY <1>16 DEF Spawn, server, sockets, listeners, inputs, streams
<1>17. ASSUME NEW n \in Listeners, SpuriousWake(n) PROVE One'
  BY <1>17 DEF SpuriousWake, server, sockets, listeners, inputs, streams
<1>18. ASSUME NEW h \in Handles, Leave(h) PROVE One'
  BY <1>18 DEF Leave, server, sockets, listeners, inputs, streams
<1>19. ASSUME NEW h \in Handles, ReceiverFails(h) PROVE One'
  BY <1>19 DEF ReceiverFails, server, sockets, listeners, inputs, streams
<1>20. ASSUME NEW h \in Handles, ReceiverCloses(h) PROVE One'
  BY <1>20 DEF ReceiverCloses, Close, server, sockets, listeners, inputs, streams
<1>21. CASE Aside
  BY <1>21 DEF Aside, server, sockets, listeners, inputs, streams
<1> QED
  BY <1>1, <1>2, <1>3, <1>4, <1>5, <1>6, <1>7, <1>8, <1>9, <1>10, <1>11, <1>12, <1>13, <1>14,
     <1>15, <1>16, <1>17, <1>18, <1>19, <1>20, <1>21, Steps

\* A calm step keeps the limit.
LEMMA LimitStep ==
  ASSUME Shape, Window, One, Limit, calm', [Next]_vars
  PROVE  Limit'
<1> USE DEF Shape, Window, One, Open, Quiet, Clients, Alive, LtStates, Limit, Uncounted
<1>1. CASE StartFails
  BY <1>1 DEF StartFails, server, sockets, listeners, inputs, streams
<1>2. CASE StartBinds
  BY <1>2 DEF StartBinds, Quiet, PortInUse, server, sockets, listeners, inputs, streams
<1>3. CASE StartGoesOnline
  BY <1>3 DEF StartGoesOnline, server, sockets, listeners, inputs, streams
<1>4. CASE TerminateCloses
  BY <1>4 DEF TerminateCloses, Close, server, sockets, listeners, inputs, streams
<1>5. CASE TerminateGoesOffline
  <2>1. /\ ui' = "offline" /\ nConnected' = 0 /\ UNCHANGED <<held, count>>
        /\ lt' = [n \in Listeners |-> IF lt[n] = "wait" THEN "select" ELSE lt[n]]
    BY <1>5 DEF TerminateGoesOffline
  <2>2. MaxClients \in Nat
    BY RemoteServerAssumption
  <2>3. ASSUME NEW n \in Listeners, Uncounted(n)' PROVE nConnected' < MaxClients
    <3>1. Uncounted(n)
      BY <2>1, <2>3
    <3> QED
      BY <3>1, <2>1, <2>2
  <2>4. ASSUME NEW n \in Listeners, lt'[n] = "spawn" PROVE count'[n] < MaxClients
    BY <2>1, <2>4
  <2> QED
    BY <2>1, <2>2, <2>3, <2>4
<1>6. CASE TerminateStopsStream
  BY <1>6 DEF TerminateStopsStream, server, sockets, listeners, inputs, streams
<1>7. ASSUME NEW n \in Listeners, ListenTests(n) PROVE Limit'
  BY <1>7 DEF ListenTests, server, sockets, listeners, inputs, streams
<1>8. ASSUME NEW n \in Listeners, ListenChecks(n) PROVE Limit'
  <2>1. MaxClients \in Nat
    BY RemoteServerAssumption
  <2> QED
    BY <1>8, <2>1 DEF ListenChecks, server, sockets, listeners, inputs, streams
<1>9. ASSUME NEW n \in Listeners, ListenWaits(n) PROVE Limit'
  BY <1>9 DEF ListenWaits, server, sockets, listeners, inputs, streams
<1>10. ASSUME NEW n \in Listeners, Select(n) PROVE Limit'
  BY <1>10 DEF Select, server, sockets, listeners, inputs, streams
<1>11. ASSUME NEW n \in Listeners, Listen(n) PROVE Limit'
  BY <1>11 DEF Listen, server, sockets, listeners, inputs, streams
<1>12. ASSUME NEW n \in Listeners, Accept(n) PROVE Limit'
  BY <1>12 DEF Accept, server, sockets, listeners, inputs, streams
<1>13. ASSUME NEW n \in Listeners, AcceptFails(n) PROVE Limit'
  BY <1>13 DEF AcceptFails, server, sockets, listeners, inputs, streams
<1>14. ASSUME NEW n \in Listeners, Store(n) PROVE Limit'
  BY <1>14 DEF Store, server, sockets, listeners, inputs, streams
<1>15. ASSUME NEW n \in Listeners, Count(n) PROVE Limit'
  BY <1>15 DEF Count, server, sockets, listeners, inputs, streams
<1>16. ASSUME NEW n \in Listeners, Spawn(n) PROVE Limit'
  <2>1. MaxClients \in Nat /\ count[n] \in Nat /\ count[n] < MaxClients
    BY <1>16, RemoteServerAssumption DEF Spawn
  <2>2. /\ nConnected' = count[n] + 1 /\ lt' = [lt EXCEPT ![n] = "test"]
        /\ \A m \in Listeners : m # n => lt'[m] \in {"none", "ended"}
    BY <1>16 DEF Spawn
  <2>3. \A m \in Listeners :
          lt'[m] \notin {"store", "count", "spawn", "select", "listen", "accept"}
    BY <2>2
  <2>4. nConnected' <= MaxClients
    BY <2>1, <2>2
  <2> QED
    BY <2>3, <2>4
<1>17. ASSUME NEW n \in Listeners, SpuriousWake(n) PROVE Limit'
  BY <1>17 DEF SpuriousWake, server, sockets, listeners, inputs, streams
<1>18. ASSUME NEW h \in Handles, Leave(h) PROVE Limit'
  BY <1>18 DEF Leave, server, sockets, listeners, inputs, streams
<1>19. ASSUME NEW h \in Handles, ReceiverFails(h) PROVE Limit'
  BY <1>19 DEF ReceiverFails, server, sockets, listeners, inputs, streams
<1>20. ASSUME NEW h \in Handles, ReceiverCloses(h) PROVE Limit'
  BY <1>20 DEF ReceiverCloses, Close, server, sockets, listeners, inputs, streams
<1>21. CASE Aside
  BY <1>21 DEF Aside, server, sockets, listeners, inputs, streams
<1> QED
  BY <1>1, <1>2, <1>3, <1>4, <1>5, <1>6, <1>7, <1>8, <1>9, <1>10, <1>11, <1>12, <1>13, <1>14,
     <1>15, <1>16, <1>17, <1>18, <1>19, <1>20, <1>21, Steps

\* A calm step keeps the receivers and their clients together.
LEMMA ReceiverStep ==
  ASSUME Shape, Window, One, ReceiverInv, calm', [Next]_vars
  PROVE  ReceiverInv'
<1> USE DEF Shape, Window, One, Open, Quiet, Clients, Alive, LtStates, ReceiverInv, Users, Pending
<1>1. CASE StartFails
  BY <1>1 DEF StartFails, server, sockets, listeners, inputs, streams
<1>2. CASE StartBinds
  BY <1>2 DEF StartBinds, Quiet, PortInUse, server, sockets, listeners, inputs, streams
<1>3. CASE StartGoesOnline
  <2>1. Quiet
    BY <1>3 DEF StartGoesOnline
  <2>2. \A n \in Listeners : lt'[n] \in {"none", "ended", "test"}
    BY <1>3, <2>1 DEF StartGoesOnline
  <2>3. /\ Clients' = {}
        /\ \A h \in Handles : Users(h)' = 0
    BY <1>3, <2>1 DEF StartGoesOnline, sockets, inputs
  <2>4. \A n \in Listeners : \A h : ~Pending(n, h)'
    BY <2>2
  <2> HIDE DEF Pending, Users, Clients, Open, Shape, Window, One, Quiet, Alive, LtStates
  <2> QED
    BY <2>2, <2>3, <2>4
<1>4. CASE TerminateCloses
  BY <1>4 DEF TerminateCloses, Close, server, sockets, listeners, inputs, streams
<1>5. CASE TerminateGoesOffline
  <2>1. /\ ~Open' /\ UNCHANGED <<sock, gone, slots, held, index, receivers, failing>>
        /\ \A n \in Listeners :
             lt'[n] = lt[n] \/ (lt[n] = "wait" /\ lt'[n] = "select")
    BY <1>5 DEF TerminateGoesOffline, sockets, inputs
  <2>2. \A n \in Listeners : \A h : Pending(n, h)' <=> Pending(n, h)
    BY <2>1
  <2>3. /\ Clients' = Clients /\ \A h \in Handles : Users(h)' = Users(h)
        /\ Clients \subseteq Handles
        /\ \A n \in Listeners :
             lt'[n] \in {"count", "spawn"} => slots'[index'[n]] # Invalid
    BY <2>1
  <2> HIDE DEF Pending, Users, Clients, Open, Shape, Window, One, Quiet, Alive, LtStates
  <2> QED
    BY <2>1, <2>2, <2>3
<1>6. CASE TerminateStopsStream
  BY <1>6 DEF TerminateStopsStream, server, sockets, listeners, inputs, streams
<1>7. ASSUME NEW n \in Listeners, ListenTests(n) PROVE ReceiverInv'
  <2>1. /\ UNCHANGED <<ui, online, slots, sock, gone, held, receivers, failing>>
        /\ \E z \in {"check", "ended"} : lt[n] = "test" /\ lt' = [lt EXCEPT ![n] = z]
        /\ \E z : index' = [index EXCEPT ![n] = z]
    BY <1>7 DEF ListenTests, server, sockets, inputs
  <2>2. \A m \in Listeners : \A h : Pending(m, h)' <=> Pending(m, h)
    BY <2>1
  <2>3. /\ Clients' = Clients /\ \A h \in Handles : Users(h)' = Users(h)
        /\ Clients \subseteq Handles /\ (Open' <=> Open)
    BY <2>1
  <2>4. \A m \in Listeners :
          lt'[m] \in {"count", "spawn"} => slots'[index'[m]] # Invalid
    BY <2>1
  <2> HIDE DEF Pending, Users, Clients, Open, Shape, Window, One, Quiet, Alive, LtStates
  <2> QED
    BY <2>1, <2>2, <2>3, <2>4
<1>8. ASSUME NEW n \in Listeners, ListenChecks(n) PROVE ReceiverInv'
  <2>1. /\ UNCHANGED <<ui, online, slots, sock, gone, held, receivers, failing>>
        /\ \E z \in {"sleep", "select"} : lt[n] = "check" /\ lt' = [lt EXCEPT ![n] = z]
        /\ index' = index
    BY <1>8 DEF ListenChecks, server, sockets, inputs
  <2>2. \A m \in Listeners : \A h : Pending(m, h)' <=> Pending(m, h)
    BY <2>1
  <2>3. /\ Clients' = Clients /\ \A h \in Handles : Users(h)' = Users(h)
        /\ Clients \subseteq Handles /\ (Open' <=> Open)
    BY <2>1
  <2>4. \A m \in Listeners :
          lt'[m] \in {"count", "spawn"} => slots'[index'[m]] # Invalid
    BY <2>1
  <2> HIDE DEF Pending, Users, Clients, Open, Shape, Window, One, Quiet, Alive, LtStates
  <2> QED
    BY <2>1, <2>2, <2>3, <2>4
<1>9. ASSUME NEW n \in Listeners, ListenWaits(n) PROVE ReceiverInv'
  <2>1. /\ UNCHANGED <<ui, online, slots, sock, gone, held, receivers, failing>>
        /\ lt[n] = "sleep" /\ lt' = [lt EXCEPT ![n] = "wait"]
        /\ index' = index
    BY <1>9 DEF ListenWaits, server, sockets, inputs
  <2>2. \A m \in Listeners : \A h : Pending(m, h)' <=> Pending(m, h)
    BY <2>1
  <2>3. /\ Clients' = Clients /\ \A h \in Handles : Users(h)' = Users(h)
        /\ Clients \subseteq Handles /\ (Open' <=> Open)
    BY <2>1
  <2>4. \A m \in Listeners :
          lt'[m] \in {"count", "spawn"} => slots'[index'[m]] # Invalid
    BY <2>1
  <2> HIDE DEF Pending, Users, Clients, Open, Shape, Window, One, Quiet, Alive, LtStates
  <2> QED
    BY <2>1, <2>2, <2>3, <2>4
<1>10. ASSUME NEW n \in Listeners, Select(n) PROVE ReceiverInv'
  <2>1. /\ UNCHANGED <<ui, online, slots, sock, gone, held, receivers, failing>>
        /\ lt[n] = "select" /\ lt' = [lt EXCEPT ![n] = "listen"]
        /\ \E z : index' = [index EXCEPT ![n] = z]
    BY <1>10 DEF Select, server, sockets, inputs
  <2>2. \A m \in Listeners : \A h : Pending(m, h)' <=> Pending(m, h)
    BY <2>1
  <2>3. /\ Clients' = Clients /\ \A h \in Handles : Users(h)' = Users(h)
        /\ Clients \subseteq Handles /\ (Open' <=> Open)
    BY <2>1
  <2>4. \A m \in Listeners :
          lt'[m] \in {"count", "spawn"} => slots'[index'[m]] # Invalid
    BY <2>1
  <2> HIDE DEF Pending, Users, Clients, Open, Shape, Window, One, Quiet, Alive, LtStates
  <2> QED
    BY <2>1, <2>2, <2>3, <2>4
<1>11. ASSUME NEW n \in Listeners, Listen(n) PROVE ReceiverInv'
  BY <1>11, ZenonT(60) DEF Listen, server, sockets, listeners, inputs, streams
<1>12. ASSUME NEW n \in Listeners, Accept(n) PROVE ReceiverInv'
  <2>1. PICK p, c \in Handles :
          /\ p = asock[n] /\ sock[p] = "listening" /\ sock[c] = "closed"
          /\ sock' = [sock EXCEPT ![c] = "client"]
          /\ held' = [held EXCEPT ![n] = c]
    <3> HIDE DEF Pending, Users, Clients, Open, Shape, Window, One, Quiet, Alive, LtStates, ReceiverInv
    <3> QED
      BY <1>12 DEF Accept
  <2>2. /\ lt[n] = "accept" /\ lt' = [lt EXCEPT ![n] = "store"]
        /\ UNCHANGED <<ui, online, slots, gone, index, receivers, failing>>
    BY <1>12 DEF Accept, server, inputs
  <2>3. Open
    BY <2>1, <2>2
  <2>4. \A m \in Listeners : m # n => lt[m] \in {"none", "ended"}
    BY <2>2
  <2>5. \A m \in Listeners : \A h :
          ~Pending(m, h) /\ (Pending(m, h)' <=> m = n /\ h = c)
    BY <2>1, <2>2, <2>4
  <2>6. Clients' = Clients \cup {c} /\ c \notin Clients
    BY <2>1
  <2>7. \A h \in Handles : Users(h)' = Users(h)
    BY <2>2
  <2>10. Users(c) = 0
    <3> HIDE DEF Pending, Users, Clients, Open, Shape, Window, One, Quiet, Alive, LtStates
    <3> QED
      BY <2>3, <2>6
  <2>8. \A m \in Listeners : lt'[m] \notin {"count", "spawn"}
    BY <2>2, <2>4
  <2>9. failing[c] = 0 /\ (Open' <=> Open) /\ Clients \subseteq Handles
    BY <2>2, <2>10
  <2> HIDE DEF Pending, Users, Clients, Open, Shape, Window, One, Quiet, Alive, LtStates
  <2> QED
    BY <2>1, <2>2, <2>3, <2>5, <2>6, <2>7, <2>8, <2>9, <2>10
<1>13. ASSUME NEW n \in Listeners, AcceptFails(n) PROVE ReceiverInv'
  <2>1. /\ lt[n] = "accept" /\ lt' = [lt EXCEPT ![n] = "store"]
        /\ held' = [held EXCEPT ![n] = Invalid]
        /\ UNCHANGED <<ui, online, slots, sock, gone, index, receivers, failing>>
    BY <1>13 DEF AcceptFails, server, inputs, sockets
  <2>2. \A m \in Listeners : m # n => lt[m] \in {"none", "ended"}
    BY <2>1
  <2>3. \A m \in Listeners : \A h \in Handles : ~Pending(m, h) /\ ~Pending(m, h)'
    BY <2>1, <2>2, RemoteServerAssumption
  <2>4. \A m \in Listeners : lt'[m] \notin {"count", "spawn"}
    BY <2>1, <2>2
  <2>5. /\ Clients' = Clients /\ \A h \in Handles : Users(h)' = Users(h)
        /\ (Open' <=> Open) /\ Clients \subseteq Handles
    BY <2>1
  <2> HIDE DEF Pending, Users, Clients, Open, Shape, Window, One, Quiet, Alive, LtStates
  <2> QED
    BY <2>1, <2>3, <2>4, <2>5
<1>14. ASSUME NEW n \in Listeners, Store(n) PROVE ReceiverInv'
  <2>1. /\ lt[n] = "store" /\ slots' = [slots EXCEPT ![index[n]] = held[n]]
        /\ held' = [held EXCEPT ![n] = Invalid]
        /\ lt' = [lt EXCEPT ![n] = IF held[n] = Invalid THEN "test" ELSE "count"]
        /\ UNCHANGED <<ui, online, sock, gone, index, receivers, failing>>
    BY <1>14 DEF Store, sockets, inputs
  <2>2. \A m \in Listeners : m # n => lt[m] \in {"none", "ended"}
    BY <2>1
  <2>3. index[n] \in 1 .. Slots /\ slots'[index[n]] = held[n]
    BY <2>1
  <2>4. \A m \in Listeners : \A h \in Handles : Pending(m, h)' <=> Pending(m, h)
    <3>1. \A m \in Listeners : m # n => \A h : ~Pending(m, h) /\ ~Pending(m, h)'
      BY <2>1, <2>2
    <3>2. \A h : Pending(n, h) <=> h = held[n]
      BY <2>1
    <3>3. \A h : Pending(n, h)' <=> h = held[n] /\ held[n] # Invalid
      BY <2>1, <2>3
    <3> HIDE DEF Pending, Users, Clients, Open, Shape, Window, One, Quiet, Alive, LtStates, ReceiverInv
    <3>4. \A h \in Handles : Pending(n, h)' <=> Pending(n, h)
      BY <3>2, <3>3, RemoteServerAssumption
    <3> QED
      BY <3>1, <3>4
  <2>5. \A m \in Listeners :
          lt'[m] \in {"count", "spawn"} => slots'[index'[m]] # Invalid
    BY <2>1, <2>2, <2>3
  <2>6. /\ Clients' = Clients /\ \A h \in Handles : Users(h)' = Users(h)
        /\ (Open' <=> Open) /\ Clients \subseteq Handles
    BY <2>1
  <2> HIDE DEF Pending, Users, Clients, Open, Shape, Window, One, Quiet, Alive, LtStates
  <2> QED
    BY <2>1, <2>4, <2>5, <2>6
<1>15. ASSUME NEW n \in Listeners, Count(n) PROVE ReceiverInv'
  BY <1>15, SMTT(30) DEF Count, server, sockets, listeners, inputs, streams
<1>16. ASSUME NEW n \in Listeners, Spawn(n) PROVE ReceiverInv'
  <2> DEFINE s == slots[index[n]]
  <2>1. /\ lt[n] = "spawn" /\ lt' = [lt EXCEPT ![n] = "test"]
        /\ receivers' = [x \in Handles |-> receivers[x] + IF x = s THEN 1 ELSE 0]
        /\ UNCHANGED <<ui, online, slots, sock, gone, index, held, failing>>
    BY <1>16 DEF Spawn, sockets
  <2>2. \A m \in Listeners : m # n => lt[m] \in {"none", "ended"}
    BY <2>1
  <2>3. s \in Handles
    BY <2>1
  <2>4. \A m \in Listeners : \A h : (Pending(m, h) <=> m = n /\ h = s) /\ ~Pending(m, h)'
    BY <2>1, <2>2
  <2>5. \A m \in Listeners : lt'[m] \notin {"count", "spawn"}
    BY <2>1, <2>2
  <2>6. \A h \in Handles : /\ h # s => Users(h)' = Users(h)
                           /\ h = s /\ Users(h) = 0 => Users(h)' = 1
    BY <2>1, <2>3
  <2>7. Clients' = Clients /\ (Open' <=> Open) /\ Clients \subseteq Handles
    BY <2>1
  <2> HIDE DEF Pending, Users, Clients, Open, s, Shape, Window, One, Quiet, Alive, LtStates
  <2>8. ASSUME NEW h \in Clients PROVE Users(h)' = 1
    <3>1. CASE h = s
      <4>1. Pending(n, s)
        BY <2>4
      <4>2. Users(s) = 0
        BY <3>1, <4>1
      <4> QED
        BY <3>1, <4>2, <2>6, <2>7
    <3>2. CASE h # s
      <4>1. \A m \in Listeners : ~Pending(m, h)
        BY <2>4, <3>2
      <4>2. Users(h) = 1
        BY <4>1
      <4> QED
        BY <3>2, <4>2, <2>6, <2>7
    <3> QED
      BY <3>1, <3>2
  <2>9. Open => \A h \in Handles \ Clients : Users(h)' = 0
    BY <2>3, <2>4, <2>6, <2>7
  <2> QED
    BY <2>1, <2>4, <2>5, <2>7, <2>8, <2>9
<1>17. ASSUME NEW n \in Listeners, SpuriousWake(n) PROVE ReceiverInv'
  BY <1>17 DEF SpuriousWake, server, sockets, listeners, inputs, streams
<1>18. ASSUME NEW h \in Handles, Leave(h) PROVE ReceiverInv'
  BY <1>18 DEF Leave, server, sockets, listeners, inputs, streams
<1>19. ASSUME NEW h \in Handles, ReceiverFails(h) PROVE ReceiverInv'
  BY <1>19 DEF ReceiverFails, server, sockets, listeners, inputs, streams
<1>20. ASSUME NEW h \in Handles, ReceiverCloses(h) PROVE ReceiverInv'
  <2>1. /\ failing[h] > 0 /\ failing' = [failing EXCEPT ![h] = @ - 1]
        /\ sock' = [x \in Handles |-> IF x = h THEN "closed" ELSE sock[x]]
        /\ gone' = gone \ {h}
        /\ UNCHANGED <<ui, online, slots, lt, index, held, receivers>>
    BY <1>20 DEF ReceiverCloses, Close, server, listeners
  <2>2. Clients' = Clients \ {h} /\ Clients \subseteq Handles /\ (Open' <=> Open)
    BY <2>1
  <2>3. \A m \in Listeners : \A x : Pending(m, x)' <=> Pending(m, x)
    BY <2>1
  <2>4. /\ Users(h) > 0 /\ Users(h)' = Users(h) - 1
        /\ \A x \in Handles \ {h} : Users(x)' = Users(x) /\ failing'[x] = failing[x]
    BY <2>1
  <2>5. h \in Clients => Users(h) = 1 /\ \A m \in Listeners : ~Pending(m, h)
    <3> HIDE DEF Pending, Users, Clients, Open, Shape, Window, One, Quiet, Alive, LtStates
    <3> QED
      BY <2>4
  <2> HIDE DEF Pending, Users, Clients, Open, Shape, Window, One, Quiet, Alive, LtStates
  <2> QED
    BY <2>1, <2>2, <2>3, <2>4, <2>5
<1>21. CASE Aside
  BY <1>21 DEF Aside, server, sockets, listeners, inputs, streams
<1> QED
  BY <1>1, <1>2, <1>3, <1>4, <1>5, <1>6, <1>7, <1>8, <1>9, <1>10, <1>11, <1>12, <1>13, <1>14,
     <1>15, <1>16, <1>17, <1>18, <1>19, <1>20, <1>21, Steps

\* A calm step keeps the count.
LEMMA CountedStep ==
  ASSUME Shape, Window, One, Limit, Counted, calm', [Next]_vars
  PROVE  Counted'
<1> USE DEF Shape, Window, One, Open, Quiet, Clients, Alive, LtStates, Limit, Counted, Uncounted
<1>0. nConnected \in Nat /\ Cardinality(Clients) \in Nat
  BY FS_CardinalityType
<1>1. CASE StartFails
  <2>1. Clients' = Clients /\ ~Open'
    BY <1>1 DEF StartFails, sockets
  <2> QED
    BY <2>1
<1>2. CASE StartBinds
  <2>1. Clients' = Clients /\ ~Open'
    BY <1>2 DEF StartBinds
  <2> QED
    BY <2>1
<1>3. CASE StartGoesOnline
  <2>1. Clients' = {} /\ nConnected' \in Nat
    BY <1>3 DEF StartGoesOnline, sockets
  <2> HIDE DEF Clients, Uncounted, Shape, Window, One, Limit, Quiet, Alive, LtStates, Open
  <2>2. IsFiniteSet(Clients') /\ Cardinality(Clients') = 0
    BY <2>1, FS_EmptySet
  <2> QED
    BY <2>1, <2>2
<1>4. CASE TerminateCloses
  <2>1. Clients' \in SUBSET Clients /\ ~Open'
    BY <1>4 DEF TerminateCloses, Close
  <2> QED
    BY <2>1, FS_Subset
<1>5. CASE TerminateGoesOffline
  <2>1. Clients' = Clients /\ ~Open'
    BY <1>5 DEF TerminateGoesOffline, server, sockets
  <2> QED
    BY <2>1
<1>6. CASE TerminateStopsStream
  <2>1. Clients' = Clients /\ ~Open'
    BY <1>6 DEF TerminateStopsStream, server, sockets
  <2> QED
    BY <2>1
<1>7. ASSUME NEW n \in Listeners, ListenTests(n) PROVE Counted'
  BY <1>7 DEF ListenTests, server, sockets, listeners, inputs, streams
<1>8. ASSUME NEW n \in Listeners, ListenChecks(n) PROVE Counted'
  BY <1>8 DEF ListenChecks, server, sockets, listeners, inputs, streams
<1>9. ASSUME NEW n \in Listeners, ListenWaits(n) PROVE Counted'
  BY <1>9 DEF ListenWaits, server, sockets, listeners, inputs, streams
<1>10. ASSUME NEW n \in Listeners, Select(n) PROVE Counted'
  BY <1>10 DEF Select, server, sockets, listeners, inputs, streams
<1>11. ASSUME NEW n \in Listeners, Listen(n) PROVE Counted'
  BY <1>11 DEF Listen, server, sockets, listeners, inputs, streams
<1>12. ASSUME NEW n \in Listeners, Accept(n) PROVE Counted'
  <2>1. PICK p, c \in Handles :
          /\ p = asock[n] /\ sock[p] = "listening" /\ sock[c] = "closed"
          /\ sock' = [sock EXCEPT ![c] = "client"]
          /\ held' = [held EXCEPT ![n] = c]
    <3> HIDE DEF Clients, Uncounted, Shape, Window, One, Limit, Counted, Quiet, Alive, LtStates, Open
    <3> QED
      BY <1>12 DEF Accept
  <2>2. /\ lt[n] = "accept" /\ lt' = [lt EXCEPT ![n] = "store"]
        /\ UNCHANGED <<ui, online, nConnected>>
    BY <1>12 DEF Accept, server
  <2>3. Open /\ \A m \in Listeners : ~Uncounted(m)
    BY <2>1, <2>2
  <2>4. Uncounted(n)'
    BY <2>1, <2>2, RemoteServerAssumption
  <2>5. Clients' = Clients \cup {c} /\ c \notin Clients
    BY <2>1
  <2>6. IsFiniteSet(Clients') /\ Cardinality(Clients') = Cardinality(Clients) + 1
    <3>1. IsFiniteSet(Clients)
      OBVIOUS
    <3> HIDE DEF Clients, Uncounted, Shape, Window, One, Limit, Counted, Quiet, Alive, LtStates, Open
    <3> QED
      BY <2>5, <3>1, FS_AddElement
  <2>7. Cardinality(Clients) <= nConnected
    BY <2>3, <1>0
  <2> QED
    BY <1>0, <2>2, <2>4, <2>6, <2>7
<1>13. ASSUME NEW n \in Listeners, AcceptFails(n) PROVE Counted'
  BY <1>13 DEF AcceptFails, server, sockets, listeners, inputs, streams
<1>14. ASSUME NEW n \in Listeners, Store(n) PROVE Counted'
  BY <1>14 DEF Store, server, sockets, listeners, inputs, streams
<1>15. ASSUME NEW n \in Listeners, Count(n) PROVE Counted'
  BY <1>15 DEF Count, server, sockets, listeners, inputs, streams
<1>16. ASSUME NEW n \in Listeners, Spawn(n) PROVE Counted'
  <2>1. /\ lt[n] = "spawn" /\ lt' = [lt EXCEPT ![n] = "test"]
        /\ nConnected' = count[n] + 1 /\ UNCHANGED <<ui, online, sock>>
    BY <1>16 DEF Spawn, sockets
  <2>2. Clients' = Clients /\ (Open' <=> Open)
    BY <2>1
  <2>3. Open => nConnected' = nConnected + 1
    BY <2>1
  <2>4. \A m \in Listeners : ~Uncounted(m)'
    BY <2>1, ZenonT(60)
  <2>5. Uncounted(n)
    BY <2>1
  <2> HIDE DEF Clients, Uncounted, Shape, Window, One, Limit, Quiet, Alive, LtStates, Open
  <2>6. IsFiniteSet(Clients) /\ (Open => Cardinality(Clients) <= nConnected + 1)
    BY <2>5
  <2> QED
    BY <1>0, <2>2, <2>3, <2>4, <2>6
<1>17. ASSUME NEW n \in Listeners, SpuriousWake(n) PROVE Counted'
  BY <1>17 DEF SpuriousWake, server, sockets, listeners, inputs, streams
<1>18. ASSUME NEW h \in Handles, Leave(h) PROVE Counted'
  BY <1>18 DEF Leave, server, sockets, listeners, inputs, streams
<1>19. ASSUME NEW h \in Handles, ReceiverFails(h) PROVE Counted'
  BY <1>19 DEF ReceiverFails, server, sockets, listeners, inputs, streams
<1>20. ASSUME NEW h \in Handles, ReceiverCloses(h) PROVE Counted'
  <2>1. /\ sock' = [x \in Handles |-> IF x = h THEN "closed" ELSE sock[x]]
        /\ UNCHANGED <<ui, online, nConnected, lt, held>>
    BY <1>20 DEF ReceiverCloses, Close, server, listeners
  <2>2. Clients' \in SUBSET Clients
    BY <2>1
  <2>3. /\ IsFiniteSet(Clients') /\ Cardinality(Clients') <= Cardinality(Clients)
        /\ Cardinality(Clients') \in Nat
    BY <2>2, FS_Subset, FS_CardinalityType
  <2> QED
    BY <1>0, <2>1, <2>3
<1>21. CASE Aside
  BY <1>21 DEF Aside, server, sockets, listeners, inputs, streams
<1> QED
  BY <1>1, <1>2, <1>3, <1>4, <1>5, <1>6, <1>7, <1>8, <1>9, <1>10, <1>11, <1>12, <1>13, <1>14,
     <1>15, <1>16, <1>17, <1>18, <1>19, <1>20, <1>21, Steps

\* A calm step keeps the slots.
LEMMA SlotStep ==
  ASSUME Shape, Window, One, Limit, SlotInv, calm', [Next]_vars
  PROVE  SlotInv'
<1> USE DEF Shape, Window, One, Open, Quiet, Clients, Alive, LtStates, SlotInv, Taken
<1>1. CASE StartFails
  BY <1>1 DEF StartFails, server, sockets, listeners, inputs, streams
<1>2. CASE StartBinds
  BY <1>2 DEF StartBinds, Quiet, PortInUse, server, sockets, listeners, inputs, streams
<1>3. CASE StartGoesOnline
  <2>1. Quiet /\ ui = "bound"
    BY <1>3 DEF StartGoesOnline
  <2>2. /\ \A n \in Listeners : lt'[n] \in {"none", "ended", "test"}
        /\ \A n \in Listeners : found'[n] = found[n] /\ (lt'[n] = "test" => ~found[n] \/ lt[n] = "ended")
        /\ slots' = [i \in 1 .. Slots |-> Invalid] /\ index' = index
        /\ nConnected' = nConnected /\ nConnected \in Nat
    BY <1>3, <2>1 DEF StartGoesOnline
  <2>3. Clients' = {} /\ Taken' = {}
    BY <1>3, <2>1, <2>2 DEF StartGoesOnline, sockets
  <2>4. \A n \in Listeners : slots'[index'[n]] = Invalid
    BY <2>2
  <2> HIDE DEF Taken, Clients, Open, Shape, Window, One, Quiet, Alive, LtStates
  <2> HIDE DEF SlotInv
  <2>5. Cardinality(Taken') = 0
    BY <2>3, FS_EmptySet
  <2>6. Cardinality(Taken') <= nConnected' /\ Cardinality(Taken') <= nConnected' + 1
    <3>1. nConnected' = nConnected /\ nConnected \in Nat
      BY <2>2
    <3> QED
      BY <2>5, <3>1
  <2>7. \A n \in Listeners : lt'[n] \notin {"listen", "accept", "store"}
    BY <2>2
  <2> QED
    BY <2>3, <2>4, <2>6, <2>7 DEF SlotInv
<1>4. CASE TerminateCloses
  BY <1>4 DEF TerminateCloses, Close, server, sockets, listeners, inputs, streams
<1>5. CASE TerminateGoesOffline
  BY <1>5 DEF TerminateGoesOffline, server, sockets, listeners, inputs, streams
<1>6. CASE TerminateStopsStream
  BY <1>6 DEF TerminateStopsStream, server, sockets, listeners, inputs, streams
<1>7. ASSUME NEW n \in Listeners, ListenTests(n) PROVE SlotInv'
  <2>1. /\ lt[n] = "test" /\ lt' = [lt EXCEPT ![n] = IF online THEN "check" ELSE "ended"]
        /\ found' = [found EXCEPT ![n] = @ /\ online]
        /\ index' = [index EXCEPT ![n] = IF online THEN @ ELSE 1]
        /\ UNCHANGED <<ui, online, slots, nConnected, sock, held>>
    BY <1>7 DEF ListenTests, server, sockets, listeners, inputs, streams
  <2>2. /\ Taken' = Taken /\ Clients' = Clients /\ (Open' <=> Open)
        /\ nConnected' = nConnected
        /\ \A m \in Listeners : lt'[m] \in {"count", "spawn"} <=> lt[m] \in {"count", "spawn"}
    BY <2>1
  <2> HIDE DEF Taken, Clients, Window, One, Quiet, Alive
  <2>3. ASSUME Open, MaxClients <= Slots, NEW m \in Listeners
        PROVE  /\ lt'[m] \in {"listen", "accept", "store"} => found'[m]
               /\ found'[m] /\ lt'[m] \notin {"count", "spawn", "ended"} =>
                    slots'[index'[m]] = Invalid
    BY <2>1, <2>3
  <2>4. ASSUME Open, MaxClients <= Slots, NEW x \in Clients
        PROVE  \/ \E i \in 1 .. Slots : slots'[i] = x
               \/ \E m \in Listeners : lt'[m] = "store" /\ held'[m] = x
    <3>1. \A m \in Listeners : lt[m] = "store" => lt'[m] = "store" /\ held'[m] = held[m]
      BY <2>1
    <3> HIDE DEF Shape, LtStates
    <3> QED
      BY <2>1, <2>4, <3>1
  <2> HIDE DEF Shape, Open, LtStates
  <2>5. ASSUME Open, MaxClients <= Slots
        PROVE  /\ Cardinality(Taken') <= nConnected' + 1
               /\ (\A m \in Listeners : lt'[m] \notin {"count", "spawn"}) =>
                    Cardinality(Taken') <= nConnected'
    BY <2>2, <2>5
  <2>6. Clients' = Clients /\ (Open' <=> Open)
    BY <2>2
  <2> QED
    BY <2>3, <2>4, <2>5, <2>6
<1>8. ASSUME NEW n \in Listeners, ListenChecks(n) PROVE SlotInv'
  <2>1. /\ lt[n] = "check" /\ \E z \in {"sleep", "select"} : lt' = [lt EXCEPT ![n] = z]
        /\ UNCHANGED <<ui, online, slots, nConnected, sock, held, found, index>>
    BY <1>8 DEF ListenChecks, server, sockets, listeners, inputs, streams
  <2>2. /\ Taken' = Taken /\ Clients' = Clients /\ (Open' <=> Open)
        /\ nConnected' = nConnected
        /\ \A m \in Listeners : lt'[m] \in {"count", "spawn"} <=> lt[m] \in {"count", "spawn"}
    BY <2>1
  <2> HIDE DEF Taken, Clients, Window, One, Quiet, Alive
  <2>3. ASSUME Open, MaxClients <= Slots, NEW m \in Listeners
        PROVE  /\ lt'[m] \in {"listen", "accept", "store"} => found'[m]
               /\ found'[m] /\ lt'[m] \notin {"count", "spawn", "ended"} =>
                    slots'[index'[m]] = Invalid
    BY <2>1, <2>3
  <2>4. ASSUME Open, MaxClients <= Slots, NEW x \in Clients
        PROVE  \/ \E i \in 1 .. Slots : slots'[i] = x
               \/ \E m \in Listeners : lt'[m] = "store" /\ held'[m] = x
    <3>1. \A m \in Listeners : lt[m] = "store" => lt'[m] = "store" /\ held'[m] = held[m]
      BY <2>1
    <3> HIDE DEF Shape, LtStates
    <3> QED
      BY <2>1, <2>4, <3>1
  <2> HIDE DEF Shape, Open, LtStates
  <2>5. ASSUME Open, MaxClients <= Slots
        PROVE  /\ Cardinality(Taken') <= nConnected' + 1
               /\ (\A m \in Listeners : lt'[m] \notin {"count", "spawn"}) =>
                    Cardinality(Taken') <= nConnected'
    BY <2>2, <2>5
  <2>6. Clients' = Clients /\ (Open' <=> Open)
    BY <2>2
  <2> QED
    BY <2>3, <2>4, <2>5, <2>6
<1>9. ASSUME NEW n \in Listeners, ListenWaits(n) PROVE SlotInv'
  <2>1. /\ lt[n] = "sleep" /\ lt' = [lt EXCEPT ![n] = "wait"]
        /\ UNCHANGED <<ui, online, slots, nConnected, sock, held, found, index>>
    BY <1>9 DEF ListenWaits, server, sockets, listeners, inputs, streams
  <2>2. /\ Taken' = Taken /\ Clients' = Clients /\ (Open' <=> Open)
        /\ nConnected' = nConnected
        /\ \A m \in Listeners : lt'[m] \in {"count", "spawn"} <=> lt[m] \in {"count", "spawn"}
    BY <2>1
  <2> HIDE DEF Taken, Clients, Window, One, Quiet, Alive
  <2>3. ASSUME Open, MaxClients <= Slots, NEW m \in Listeners
        PROVE  /\ lt'[m] \in {"listen", "accept", "store"} => found'[m]
               /\ found'[m] /\ lt'[m] \notin {"count", "spawn", "ended"} =>
                    slots'[index'[m]] = Invalid
    BY <2>1, <2>3
  <2>4. ASSUME Open, MaxClients <= Slots, NEW x \in Clients
        PROVE  \/ \E i \in 1 .. Slots : slots'[i] = x
               \/ \E m \in Listeners : lt'[m] = "store" /\ held'[m] = x
    <3>1. \A m \in Listeners : lt[m] = "store" => lt'[m] = "store" /\ held'[m] = held[m]
      BY <2>1
    <3> HIDE DEF Shape, LtStates
    <3> QED
      BY <2>1, <2>4, <3>1
  <2> HIDE DEF Shape, Open, LtStates
  <2>5. ASSUME Open, MaxClients <= Slots
        PROVE  /\ Cardinality(Taken') <= nConnected' + 1
               /\ (\A m \in Listeners : lt'[m] \notin {"count", "spawn"}) =>
                    Cardinality(Taken') <= nConnected'
    BY <2>2, <2>5
  <2>6. Clients' = Clients /\ (Open' <=> Open)
    BY <2>2
  <2> QED
    BY <2>3, <2>4, <2>5, <2>6
<1>10. ASSUME NEW n \in Listeners, Select(n) PROVE SlotInv'
  <2> DEFINE free == {i \in 1 .. Slots : slots[i] = Invalid}
  <2>1. /\ lt[n] = "select" /\ lt' = [lt EXCEPT ![n] = "listen"]
        /\ index' = [index EXCEPT ![n] = IF found[n] \/ free = {} THEN @ ELSE Max(free)]
        /\ found' = [found EXCEPT ![n] = @ \/ free # {}]
        /\ UNCHANGED <<ui, online, slots, nConnected, sock, held>>
    BY <1>10 DEF Select, server, sockets, listeners, inputs, streams
  <2>0. \A m \in Listeners : m # n => lt[m] \in {"none", "ended"} /\ lt'[m] = lt[m]
    <3> HIDE DEF SlotInv
    <3> QED
      BY <2>1
  <2>2. /\ Taken' = Taken /\ Clients' = Clients /\ (Open' <=> Open)
        /\ \A m \in Listeners : lt'[m] \notin {"count", "spawn"} /\ lt[m] \notin {"count", "spawn"}
    <3> HIDE DEF One, Window, SlotInv, free
    <3> QED
      BY <2>0, <2>1
  <2>3. ASSUME Open, MaxClients <= Slots PROVE free # {}
    <3>1. nConnected < MaxClients
      BY <2>1, <2>3 DEF Limit
    <3>2. Slots \in Nat /\ MaxClients \in Nat /\ nConnected \in Nat
      BY RemoteServerAssumption
    <3>3. free = {} => Taken = 1 .. Slots
      OBVIOUS
    <3>4. Cardinality(1 .. Slots) = Slots
      BY <3>2, FS_Interval
    <3> HIDE DEF free, Taken, Clients, Shape, Window, One, Quiet, Alive, LtStates
    <3>5. Cardinality(Taken) <= nConnected
      BY <2>2, <2>3, <3>2
    <3> QED
      BY <2>3, <3>1, <3>2, <3>3, <3>4, <3>5
  <2>4. free # {} => Max(free) \in free
    <3>1. free \in SUBSET (1 .. Slots)
      OBVIOUS
    <3> HIDE DEF free
    <3> QED
      BY <3>1, MaxOfSlots
  <2> HIDE DEF Taken, Clients, Window, One, Quiet, Alive
  <2>5. ASSUME Open, MaxClients <= Slots, NEW m \in Listeners
        PROVE  /\ lt'[m] \in {"listen", "accept", "store"} => found'[m]
               /\ found'[m] /\ lt'[m] \notin {"count", "spawn", "ended"} =>
                    slots'[index'[m]] = Invalid
    <3>1. slots[Max(free)] = Invalid
      BY <2>3, <2>4, <2>5
    <3>2. found'[n] /\ index'[n] = IF found[n] THEN index[n] ELSE Max(free)
      BY <2>1, <2>3, <2>5, ZenonT(60)
    <3>3. found[n] => slots[index[n]] = Invalid
      BY <2>1, <2>5
    <3> HIDE DEF free
    <3> QED
      BY <2>1, <2>5, <3>1, <3>2, <3>3
  <2>6. ASSUME Open, MaxClients <= Slots, NEW x \in Clients
        PROVE  \/ \E i \in 1 .. Slots : slots'[i] = x
               \/ \E m \in Listeners : lt'[m] = "store" /\ held'[m] = x
    <3> HIDE DEF free
    <3> QED
      BY <2>1, <2>6, SMTT(30)
  <2> HIDE DEF Shape, Open, LtStates, free
  <2> QED
    BY <2>1, <2>2, <2>5, <2>6
<1>11. ASSUME NEW n \in Listeners, Listen(n) PROVE SlotInv'
  <2>1. /\ lt[n] = "listen" /\ lt' = [lt EXCEPT ![n] = "accept"]
        /\ sock' = [h \in Handles |->
                       IF h = sktListen /\ sock[h] = "bound" THEN "listening" ELSE sock[h]]
        /\ UNCHANGED <<ui, online, slots, nConnected, held, found, index>>
    BY <1>11 DEF Listen, server, sockets, listeners, inputs, streams
  <2>2. /\ Taken' = Taken /\ Clients' = Clients /\ (Open' <=> Open)
        /\ nConnected' = nConnected
        /\ \A m \in Listeners : lt'[m] \in {"count", "spawn"} <=> lt[m] \in {"count", "spawn"}
    BY <2>1
  <2> HIDE DEF Taken, Clients, Window, One, Quiet, Alive
  <2>3. ASSUME Open, MaxClients <= Slots, NEW m \in Listeners
        PROVE  /\ lt'[m] \in {"listen", "accept", "store"} => found'[m]
               /\ found'[m] /\ lt'[m] \notin {"count", "spawn", "ended"} =>
                    slots'[index'[m]] = Invalid
    BY <2>1, <2>3
  <2>4. ASSUME Open, MaxClients <= Slots, NEW x \in Clients
        PROVE  \/ \E i \in 1 .. Slots : slots'[i] = x
               \/ \E m \in Listeners : lt'[m] = "store" /\ held'[m] = x
    <3>1. \A m \in Listeners : lt[m] = "store" => lt'[m] = "store" /\ held'[m] = held[m]
      BY <2>1
    <3> HIDE DEF Shape, LtStates
    <3> QED
      BY <2>1, <2>4, <3>1
  <2> HIDE DEF Shape, Open, LtStates
  <2>5. ASSUME Open, MaxClients <= Slots
        PROVE  /\ Cardinality(Taken') <= nConnected' + 1
               /\ (\A m \in Listeners : lt'[m] \notin {"count", "spawn"}) =>
                    Cardinality(Taken') <= nConnected'
    BY <2>2, <2>5
  <2>6. Clients' = Clients /\ (Open' <=> Open)
    BY <2>2
  <2> QED
    BY <2>3, <2>4, <2>5, <2>6
<1>12. ASSUME NEW n \in Listeners, Accept(n) PROVE SlotInv'
  <2>1. PICK p, c \in Handles :
          /\ p = asock[n] /\ sock[p] = "listening" /\ sock[c] = "closed"
          /\ sock' = [sock EXCEPT ![c] = "client"]
          /\ held' = [held EXCEPT ![n] = c]
    <3> HIDE DEF Taken, Clients, Open, Shape, Window, One, Quiet, Alive, LtStates, SlotInv
    <3> QED
      BY <1>12 DEF Accept
  <2>2. /\ lt[n] = "accept" /\ lt' = [lt EXCEPT ![n] = "store"]
        /\ UNCHANGED <<ui, online, slots, nConnected, found, index>>
    BY <1>12 DEF Accept, server
  <2>3. /\ Taken' = Taken /\ Clients' = Clients \cup {c} /\ (Open' <=> Open)
        /\ \A m \in Listeners : lt'[m] \in {"count", "spawn"} <=> lt[m] \in {"count", "spawn"}
    BY <2>1, <2>2
  <2>4. lt'[n] = "store" /\ held'[n] = c
    BY <2>1, <2>2
  <2> HIDE DEF Taken, Clients, Window, One, Quiet, Alive
  <2>5. ASSUME Open, MaxClients <= Slots, NEW m \in Listeners
        PROVE  /\ lt'[m] \in {"listen", "accept", "store"} => found'[m]
               /\ found'[m] /\ lt'[m] \notin {"count", "spawn", "ended"} =>
                    slots'[index'[m]] = Invalid
    BY <2>2, <2>5
  <2>6. ASSUME Open, MaxClients <= Slots, NEW x \in Clients
        PROVE  \/ \E i \in 1 .. Slots : slots'[i] = x
               \/ \E m \in Listeners : lt'[m] = "store" /\ held'[m] = x
    <3>1. \A m \in Listeners : lt[m] = "store" => lt'[m] = "store" /\ held'[m] = held[m]
      BY <2>1, <2>2
    <3> HIDE DEF Shape, LtStates
    <3> QED
      BY <2>2, <2>6, <3>1
  <2> HIDE DEF Shape, Open, LtStates
  <2> QED
    BY <2>2, <2>3, <2>4, <2>5, <2>6
<1>13. ASSUME NEW n \in Listeners, AcceptFails(n) PROVE SlotInv'
  <2>1. /\ lt[n] = "accept" /\ lt' = [lt EXCEPT ![n] = "store"]
        /\ held' = [held EXCEPT ![n] = Invalid]
        /\ UNCHANGED <<ui, online, slots, nConnected, sock, found, index>>
    BY <1>13 DEF AcceptFails, server, sockets, listeners, inputs, streams
  <2>2. /\ Taken' = Taken /\ Clients' = Clients /\ (Open' <=> Open)
        /\ nConnected' = nConnected
        /\ \A m \in Listeners : lt'[m] \in {"count", "spawn"} <=> lt[m] \in {"count", "spawn"}
    BY <2>1
  <2> HIDE DEF Taken, Clients, Window, One, Quiet, Alive
  <2>3. ASSUME Open, MaxClients <= Slots, NEW m \in Listeners
        PROVE  /\ lt'[m] \in {"listen", "accept", "store"} => found'[m]
               /\ found'[m] /\ lt'[m] \notin {"count", "spawn", "ended"} =>
                    slots'[index'[m]] = Invalid
    BY <2>1, <2>3
  <2>4. ASSUME Open, MaxClients <= Slots, NEW x \in Clients
        PROVE  \/ \E i \in 1 .. Slots : slots'[i] = x
               \/ \E m \in Listeners : lt'[m] = "store" /\ held'[m] = x
    <3>1. \A m \in Listeners : lt[m] = "store" => lt'[m] = "store" /\ held'[m] = held[m]
      BY <2>1
    <3> HIDE DEF Shape, LtStates
    <3> QED
      BY <2>1, <2>4, <3>1
  <2> HIDE DEF Shape, Open, LtStates
  <2>5. ASSUME Open, MaxClients <= Slots
        PROVE  /\ Cardinality(Taken') <= nConnected' + 1
               /\ (\A m \in Listeners : lt'[m] \notin {"count", "spawn"}) =>
                    Cardinality(Taken') <= nConnected'
    BY <2>2, <2>5
  <2>6. Clients' = Clients /\ (Open' <=> Open)
    BY <2>2
  <2> QED
    BY <2>3, <2>4, <2>5, <2>6
<1>14. ASSUME NEW n \in Listeners, Store(n) PROVE SlotInv'
  <2>1. /\ lt[n] = "store" /\ slots' = [slots EXCEPT ![index[n]] = held[n]]
        /\ held' = [held EXCEPT ![n] = Invalid]
        /\ lt' = [lt EXCEPT ![n] = IF held[n] = Invalid THEN "test" ELSE "count"]
        /\ UNCHANGED <<ui, online, nConnected, sock, found, index>>
    BY <1>14 DEF Store, sockets
  <2>2. \A m \in Listeners : m # n => lt[m] \in {"none", "ended"} /\ lt'[m] = lt[m]
    BY <2>1
  <2>3. \A m \in Listeners : m # n => ~found'[m] \/ lt'[m] = "ended"
    BY <2>1, <2>2
  <2>4. SUFFICES ASSUME Open, MaxClients <= Slots PROVE SlotInv'
    BY <2>1
  <2>5. found[n] /\ index[n] \in 1 .. Slots /\ slots[index[n]] = Invalid
    BY <2>1, <2>4
  <2>6. Taken' = IF held[n] = Invalid THEN Taken ELSE Taken \cup {index[n]}
    BY <2>1, <2>5
  <2>7. index[n] \notin Taken /\ Clients' = Clients /\ Clients \subseteq Handles
    BY <2>1, <2>5
  <2>8. Taken \in SUBSET (1 .. Slots) /\ Slots \in Nat /\ nConnected \in Nat
    BY RemoteServerAssumption
  <2> HIDE DEF Taken, Clients, Window, One, Quiet, Alive, Limit
  <2>9. /\ IsFiniteSet(Taken) /\ Cardinality(Taken) \in Nat
        /\ Cardinality(Taken \cup {index[n]}) = Cardinality(Taken) + 1
    <3> HIDE DEF Shape, LtStates, SlotInv, Open
    <3>1. IsFiniteSet(1 .. Slots)
      BY <2>8, FS_Interval
    <3>2. IsFiniteSet(Taken)
      BY <2>8, <3>1, FS_Subset
    <3> QED
      BY <2>7, <3>2, FS_CardinalityType, FS_AddElement
  <2>10. Cardinality(Taken) <= nConnected
    <3>1. \A m \in Listeners : lt[m] \notin {"count", "spawn"}
      BY <2>1, <2>2
    <3> HIDE DEF Shape, LtStates, Open
    <3> QED
      BY <2>4, <2>8, <3>1
  <2>11. /\ Cardinality(Taken') <= nConnected' + 1
         /\ (\A m \in Listeners : lt'[m] \notin {"count", "spawn"}) =>
              Cardinality(Taken') <= nConnected'
    <3>1. held[n] # Invalid => lt'[n] = "count"
      BY <2>1
    <3> HIDE DEF Shape, LtStates, Open, SlotInv
    <3> QED
      BY <2>1, <2>6, <2>8, <2>9, <2>10, <3>1
  <2>12. \A m \in Listeners :
           /\ lt'[m] \in {"listen", "accept", "store"} => found'[m]
           /\ found'[m] /\ lt'[m] \notin {"count", "spawn", "ended"} =>
                slots'[index'[m]] = Invalid
    <3>1. lt'[n] = "count" \/ (lt'[n] = "test" /\ slots'[index'[n]] = Invalid)
      <4>1. held[n] = Invalid => lt'[n] = "test" /\ slots'[index[n]] = Invalid
        BY <2>1, <2>5
      <4>2. held[n] # Invalid => lt'[n] = "count"
        BY <2>1
      <4>3. index' = index
        BY <2>1
      <4> HIDE DEF Shape, LtStates, Open, SlotInv
      <4> QED
        BY <4>1, <4>2, <4>3
    <3> HIDE DEF Shape, LtStates, Open, SlotInv
    <3> QED
      BY <2>2, <2>3, <3>1
  <2>13. ASSUME NEW x \in Clients
         PROVE  \E i \in 1 .. Slots : slots'[i] = x
    <3>1. CASE \E i \in 1 .. Slots : slots[i] = x
      <4>1. PICK i \in 1 .. Slots : slots[i] = x
        BY <3>1
      <4>2. i # index[n]
        BY <4>1, <2>5, <2>7, <2>13, RemoteServerAssumption
      <4>3. slots'[i] = x
        BY <2>1, <4>1, <4>2
      <4> QED
        BY <4>3
    <3>2. CASE \E m \in Listeners : lt[m] = "store" /\ held[m] = x
      <4>1. held[n] = x
        BY <3>2, <2>2
      <4>2. slots'[index[n]] = x
        BY <2>1, <2>5, <4>1
      <4> QED
        BY <2>5, <4>2
    <3> QED
      BY <2>4, <2>13, <3>1, <3>2
  <2> HIDE DEF Shape, Open, LtStates
  <2> QED
    BY <2>7, <2>11, <2>12, <2>13
<1>15. ASSUME NEW n \in Listeners, Count(n) PROVE SlotInv'
  <2>1. /\ lt[n] = "count" /\ lt' = [lt EXCEPT ![n] = "spawn"]
        /\ UNCHANGED <<ui, online, slots, nConnected, sock, held, found, index>>
    BY <1>15 DEF Count, server, sockets, listeners, inputs, streams
  <2>2. /\ Taken' = Taken /\ Clients' = Clients /\ (Open' <=> Open)
        /\ nConnected' = nConnected
        /\ \A m \in Listeners : lt'[m] \in {"count", "spawn"} <=> lt[m] \in {"count", "spawn"}
    BY <2>1
  <2> HIDE DEF Taken, Clients, Window, One, Quiet, Alive
  <2>3. ASSUME Open, MaxClients <= Slots, NEW m \in Listeners
        PROVE  /\ lt'[m] \in {"listen", "accept", "store"} => found'[m]
               /\ found'[m] /\ lt'[m] \notin {"count", "spawn", "ended"} =>
                    slots'[index'[m]] = Invalid
    BY <2>1, <2>3
  <2>4. ASSUME Open, MaxClients <= Slots, NEW x \in Clients
        PROVE  \/ \E i \in 1 .. Slots : slots'[i] = x
               \/ \E m \in Listeners : lt'[m] = "store" /\ held'[m] = x
    <3>1. \A m \in Listeners : lt[m] = "store" => lt'[m] = "store" /\ held'[m] = held[m]
      BY <2>1
    <3> HIDE DEF Shape, LtStates
    <3> QED
      BY <2>1, <2>4, <3>1
  <2> HIDE DEF Shape, Open, LtStates
  <2>5. ASSUME Open, MaxClients <= Slots
        PROVE  /\ Cardinality(Taken') <= nConnected' + 1
               /\ (\A m \in Listeners : lt'[m] \notin {"count", "spawn"}) =>
                    Cardinality(Taken') <= nConnected'
    BY <2>2, <2>5
  <2>6. Clients' = Clients /\ (Open' <=> Open)
    BY <2>2
  <2> QED
    BY <2>3, <2>4, <2>5, <2>6
<1>16. ASSUME NEW n \in Listeners, Spawn(n) PROVE SlotInv'
  <2>1. /\ lt[n] = "spawn" /\ lt' = [lt EXCEPT ![n] = "test"]
        /\ nConnected' = count[n] + 1 /\ found' = [found EXCEPT ![n] = FALSE]
        /\ UNCHANGED <<ui, online, slots, sock, index, held>>
    BY <1>16 DEF Spawn, sockets
  <2>2. \A m \in Listeners : m # n => lt[m] \in {"none", "ended"} /\ lt'[m] = lt[m]
    <3> HIDE DEF SlotInv
    <3> QED
      BY <2>1
  <2>3. \A m \in Listeners : lt'[m] \in {"none", "ended", "test"} /\ (~found'[m] \/ lt'[m] = "ended")
    BY <2>1, <2>2
  <2>4. /\ Taken' = Taken /\ Clients' = Clients /\ (Open' <=> Open)
        /\ slots' = slots
        /\ \A m \in Listeners : lt[m] # "store"
    BY <2>1, <2>2
  <2>5. Open => nConnected' = nConnected + 1 /\ nConnected \in Nat
    BY <2>1 DEF Limit
  <2>6. lt[n] \in {"count", "spawn"} /\ \A m \in Listeners : lt'[m] \notin {"count", "spawn"}
    BY <2>1, <2>3
  <2>8. IsFiniteSet(Taken)
    <3>1. IsFiniteSet(1 .. Slots)
      BY RemoteServerAssumption, FS_Interval
    <3> QED
      BY <3>1, FS_Subset
  <2> HIDE DEF Taken, Clients, Open, Shape, Window, One, Quiet, Alive, LtStates
  <2>7. ASSUME Open, MaxClients <= Slots
        PROVE  Cardinality(Taken') <= nConnected' /\ Cardinality(Taken') <= nConnected' + 1
    <3>1. /\ nConnected' = nConnected + 1 /\ nConnected \in Nat /\ Taken' = Taken
          /\ Cardinality(Taken) <= nConnected + 1
      BY <2>4, <2>5, <2>7
    <3>2. Cardinality(Taken) \in Nat
      BY <2>8, FS_CardinalityType
    <3> QED
      BY <3>1, <3>2
  <2> QED
    BY <2>3, <2>4, <2>6, <2>7
<1>17. ASSUME NEW n \in Listeners, SpuriousWake(n) PROVE SlotInv'
  BY <1>17 DEF SpuriousWake, server, sockets, listeners, inputs, streams
<1>18. ASSUME NEW h \in Handles, Leave(h) PROVE SlotInv'
  <2>1. UNCHANGED <<ui, online, slots, nConnected, sock, held, lt, found, index>>
    BY <1>18 DEF Leave, server, sockets, listeners, inputs, streams
  <2>2. Taken' = Taken /\ Clients' = Clients /\ (Open' <=> Open)
    BY <2>1
  <2> HIDE DEF Taken, Clients, Open, Shape, Window, One, Quiet, Alive, LtStates
  <2> QED
    BY <2>1, <2>2
<1>19. ASSUME NEW h \in Handles, ReceiverFails(h) PROVE SlotInv'
  <2>1. UNCHANGED <<ui, online, slots, nConnected, sock, held, lt, found, index>>
    BY <1>19 DEF ReceiverFails, server, sockets, listeners, inputs, streams
  <2>2. Taken' = Taken /\ Clients' = Clients /\ (Open' <=> Open)
    BY <2>1
  <2> HIDE DEF Taken, Clients, Open, Shape, Window, One, Quiet, Alive, LtStates
  <2> QED
    BY <2>1, <2>2
<1>20. ASSUME NEW h \in Handles, ReceiverCloses(h) PROVE SlotInv'
  <2>1. UNCHANGED <<ui, online, slots, nConnected, held, lt, found, index>>
    BY <1>20 DEF ReceiverCloses, server, listeners
  <2>2. Taken' = Taken /\ Clients' \subseteq Clients /\ (Open' <=> Open)
    BY <1>20, <2>1 DEF ReceiverCloses, Close
  <2> HIDE DEF Taken, Clients, Open, Shape, Window, One, Quiet, Alive, LtStates
  <2> QED
    BY <2>1, <2>2
<1>21. CASE Aside
  BY <1>21 DEF Aside, server, sockets, listeners, inputs, streams
<1> QED
  BY <1>1, <1>2, <1>3, <1>4, <1>5, <1>6, <1>7, <1>8, <1>9, <1>10, <1>11, <1>12, <1>13, <1>14,
     <1>15, <1>16, <1>17, <1>18, <1>19, <1>20, <1>21, Steps

\* Whatever ends the calm, no step restores it.
LEMMA CalmStays ==
  ASSUME Shape, [Next]_vars, calm'
  PROVE  calm
<1> USE DEF Shape
<1>1. CASE StartFails \/ StartBinds \/ StartGoesOnline
  BY <1>1 DEF StartFails, StartBinds, StartGoesOnline
<1>2. CASE TerminateCloses \/ TerminateGoesOffline \/ TerminateStopsStream
  BY <1>2 DEF TerminateCloses, TerminateGoesOffline, TerminateStopsStream
<1>3. ASSUME NEW n \in Listeners,
             ListenTests(n) \/ ListenChecks(n) \/ ListenWaits(n) \/ Select(n) \/ Listen(n)
      PROVE  calm
  BY <1>3 DEF ListenTests, ListenChecks, ListenWaits, Select, Listen
<1>4. ASSUME NEW n \in Listeners,
             Accept(n) \/ AcceptFails(n) \/ Store(n) \/ Count(n) \/ Spawn(n) \/ SpuriousWake(n)
      PROVE  calm
  BY <1>4 DEF Accept, AcceptFails, Store, Count, Spawn, SpuriousWake
<1>5. ASSUME NEW h \in Handles, Leave(h) \/ ReceiverFails(h) \/ ReceiverCloses(h)
      PROVE  calm
  BY <1>5 DEF Leave, ReceiverFails, ReceiverCloses
<1>6. CASE Aside
  BY <1>6 DEF Aside
<1> QED
  BY <1>1, <1>2, <1>3, <1>4, <1>5, <1>6, Steps

-----------------------------------------------------------------------------
(* The theorems.                                                           *)

\* The invariant holds at the beginning, when there is nothing.
LEMMA InitIInv == Init => IInv
<1> SUFFICES ASSUME Init PROVE IInv
  OBVIOUS
<1> USE DEF Init
<1>0. 1 \in 1 .. Slots /\ 0 \in 0 .. MaxStarts
  BY RemoteServerAssumption
<1>1. /\ starts \in 0 .. MaxStarts /\ Clients = {}
      /\ index \in [Listeners -> 1 .. Slots]
      /\ \A n \in Listeners : lt[n] = "none"
  BY <1>0 DEF Clients
<1>2. Shape
  <2>1. /\ slots \in [1 .. Slots -> Handles \cup {Invalid}]
        /\ sock \in [Handles -> {"closed", "bound", "listening", "client"}]
        /\ backlog \in [Handles -> 0 .. 1] /\ gone \subseteq Clients
    OBVIOUS
  <2>2. /\ lt \in [Listeners -> LtStates] /\ found \in [Listeners -> BOOLEAN]
        /\ asock \in [Listeners -> Handles \cup {Invalid}]
        /\ held \in [Listeners -> Handles \cup {Invalid}]
    BY DEF LtStates
  <2>3. /\ count \in [Listeners -> Nat]
        /\ receivers \in [Handles -> Nat] /\ failing \in [Handles -> Nat]
    OBVIOUS
  <2> QED
    BY <1>1, <2>1, <2>2, <2>3 DEF Shape
<1>3. Window
  BY DEF Window
<1>4. One /\ Limit /\ ReceiverInv
  BY <1>1, RemoteServerAssumption
  DEF One, Alive, Limit, Uncounted, ReceiverInv, Users, Pending, Open
<1>5. Counted /\ SlotInv
  BY <1>1, FS_EmptySet DEF Counted, SlotInv, Open
<1> QED
  BY <1>2, <1>3, <1>4, <1>5 DEF IInv, Calm

\* Every step keeps the invariant.
LEMMA NextIInv ==
  ASSUME IInv, [Next]_vars
  PROVE  IInv'
<1>1. Shape' /\ Window'
  BY ShapeStep, WindowKept DEF IInv
<1>2. ASSUME calm' PROVE One' /\ Limit' /\ Counted' /\ SlotInv' /\ ReceiverInv'
  <2>1. One /\ Limit /\ Counted /\ SlotInv /\ ReceiverInv
    BY <1>2, CalmStays DEF IInv, Calm
  <2> QED
    BY <2>1, <1>2, OneStep, LimitStep, CountedStep, SlotStep, ReceiverStep DEF IInv
<1> QED
  BY <1>1, <1>2 DEF IInv, Calm

LEMMA Always == Spec => []IInv
  BY InitIInv, NextIInv, PTL DEF Spec

\* However a server is started, terminated and used, it never counts more
\* clients than the configuration allows, nor has it more than it counts but
\* for the one just accepted, as long as the starts find all threads of
\* earlier ones ended.
THEOREM LimitAlways == Spec => []AtMostMaxClients
<1>1. IInv => AtMostMaxClients
  <2> SUFFICES ASSUME IInv, calm PROVE AtMostMaxClients
    BY DEF AtMostMaxClients
  <2> DEFINE late == {n \in Listeners : Uncounted(n)}
  <2>1. nConnected <= MaxClients /\ nConnected \in Nat
    BY DEF IInv, Calm, Limit, Shape
  <2>2. online /\ ui # "closed" => Open
    BY DEF IInv, Shape, Window, Open
  <2>3. CASE \E n \in Listeners : Uncounted(n)
    <3>1. PICK n \in Listeners : Uncounted(n)
      BY <2>3
    <3>2. late = {n}
      BY <3>1 DEF IInv, Calm, One, Alive, Uncounted
    <3>3. Cardinality(late) = 1
      BY <3>2, FS_Singleton
    <3>4. Open => Cardinality(Clients) <= nConnected + 1
      BY <2>3 DEF IInv, Calm, Counted
    <3> HIDE DEF late
    <3> QED
      BY <2>1, <2>2, <3>3, <3>4 DEF AtMostMaxClients, late
  <2>4. CASE ~\E n \in Listeners : Uncounted(n)
    <3>1. Cardinality(late) = 0
      <4>1. late = {}
        BY <2>4
      <4> QED
        BY <4>1, FS_EmptySet
    <3>2. Open => Cardinality(Clients) <= nConnected + 0
      BY <2>4, <2>1 DEF IInv, Calm, Counted
    <3> HIDE DEF late
    <3> QED
      BY <2>1, <2>2, <3>1, <3>2 DEF AtMostMaxClients, late
  <2> QED
    BY <2>3, <2>4
<1> QED
  BY <1>1, Always, PTL

\* TerminateServer finds the socket of every client in the slots: the slot that
\* ListenThread overwrites is free, although it is looked up long before.
THEOREM SlotsAlways == Spec => []SlotsKnowClients
<1>1. IInv => SlotsKnowClients
  BY DEF IInv, Calm, Shape, Window, Open, SlotInv, SlotsKnowClients
<1> QED
  BY <1>1, Always, PTL

\* Every client has exactly one receiver, or its ListenThread is about to start
\* the one.
THEOREM ReceiverAlways == Spec => []ReceiverPerClient
<1>1. ASSUME IInv, calm, NEW h \in Clients
      PROVE  \/ receivers[h] + failing[h] = 1
             \/ \E n \in Listeners :
                  /\ receivers[h] + failing[h] = 0
                  /\ \/ lt[n] = "store" /\ held[n] = h
                     \/ lt[n] \in {"count", "spawn"} /\ slots[index[n]] = h
  <2>1. CASE \E n \in Listeners : Pending(n, h)
    <3>1. Users(h) = 0
      BY <1>1, <2>1 DEF IInv, Calm, ReceiverInv
    <3> QED
      BY <2>1, <3>1 DEF Users, Pending
  <2>2. CASE \A n \in Listeners : ~Pending(n, h)
    <3>1. Users(h) = 1
      BY <1>1, <2>2 DEF IInv, Calm, ReceiverInv
    <3> QED
      BY <3>1 DEF Users
  <2> QED
    BY <2>1, <2>2
<1>2. IInv => ReceiverPerClient
  BY <1>1 DEF ReceiverPerClient
<1> QED
  BY <1>2, Always, PTL

\* No step takes the connection from a client that stays, unless it terminates
\* the server: a receiver that closes a handle closes its own client's.
THEOREM ClosedAlwaysForAReason == Spec => ClosedForAReason
<1>1. ASSUME IInv, [Next]_vars, NEW h \in Handles,
             sock[h] = "client", sock'[h] = "closed"
      PROVE  h \in gone \/ ui' = "closed" \/ ~calm
  <2> USE <1>1 DEF IInv, Shape
  <2>1. CASE StartFails \/ StartBinds \/ StartGoesOnline
    BY <2>1 DEF StartFails, StartBinds, StartGoesOnline, sockets
  <2>2. CASE TerminateCloses \/ TerminateGoesOffline \/ TerminateStopsStream
    BY <2>2 DEF TerminateCloses, TerminateGoesOffline, TerminateStopsStream, sockets
  <2>3. ASSUME NEW n \in Listeners,
               \/ ListenTests(n) \/ ListenChecks(n) \/ ListenWaits(n) \/ Select(n)
               \/ AcceptFails(n) \/ Store(n) \/ Count(n) \/ Spawn(n) \/ SpuriousWake(n)
        PROVE  FALSE
    BY <2>3 DEF ListenTests, ListenChecks, ListenWaits, Select, AcceptFails, Store,
                Count, Spawn, SpuriousWake, sockets
  <2>4. ASSUME NEW n \in Listeners, Listen(n) \/ Accept(n)
        PROVE  FALSE
    BY <2>4 DEF Listen, Accept
  <2>5. ASSUME NEW x \in Handles, Leave(x) \/ ReceiverFails(x)
        PROVE  FALSE
    BY <2>5 DEF Leave, ReceiverFails, sockets
  <2>6. ASSUME NEW x \in Handles, ReceiverCloses(x)
        PROVE  h \in gone \/ ~calm
    <3>1. x = h /\ failing[h] > 0
      BY <2>6 DEF ReceiverCloses, Close
    <3>2. calm => h \in gone
      BY <3>1 DEF Calm, ReceiverInv, Clients
    <3> QED
      BY <3>2
  <2>7. CASE Aside
    BY <2>7 DEF Aside
  <2> QED
    BY <2>1, <2>2, <2>3, <2>4, <2>5, <2>6, <2>7, Steps
<1>2. IInv /\ [Next]_vars =>
        [\A h \in Handles :
           sock[h] = "client" /\ sock'[h] = "closed" =>
             h \in gone \/ ui' = "closed" \/ ~calm]_vars
  BY <1>1
<1> QED
  BY <1>2, Always, PTL DEF Spec, ClosedForAReason

-----------------------------------------------------------------------------
(* The counts, calm or not: what a connection leaves in them.              *)

\* The sockets on which a connection waits, and the ListenThreads that have
\* accepted one and not counted it: each of them is one arrival.
Waiting == {h \in Handles : backlog[h] > 0}
Accepted == {n \in Listeners : Uncounted(n)}
Load == Cardinality(Accepted) + Cardinality(Waiting)

StreamStates == {"none", "accepted", "streaming", "ending", "ended"}

\* Whatever ++ has read, and however often the count was reset under it, no
\* count and no receiver is there without an arrival of its own.
Arrived ==
  /\ stream \in [Streams -> StreamStates]
  /\ arrivals \in 0 .. MaxArrivals
  /\ IsFiniteSet(Waiting)
  /\ nConnected + Load <= arrivals
  /\ \A n \in Listeners : count[n] + Load <= arrivals
  /\ \A h \in Handles : Users(h) + Load <= arrivals

\* The load is a number, and one less without one of the sockets or threads.
LEMMA LoadType ==
  ASSUME IsFiniteSet(Waiting)
  PROVE  /\ IsFiniteSet(Accepted) /\ Load \in Nat
         /\ Cardinality(Accepted) \in Nat /\ Cardinality(Waiting) \in Nat
<1>1. MaxStarts \in Nat
  BY RemoteServerAssumption
<1>2. IsFiniteSet(Listeners)
  BY <1>1, FS_Interval DEF Listeners
<1>3. IsFiniteSet(Accepted)
  BY <1>2, FS_Subset DEF Accepted
<1>4. Cardinality(Accepted) \in Nat /\ Cardinality(Waiting) \in Nat
  BY <1>3, FS_CardinalityType
<1> QED BY <1>3, <1>4 DEF Load

\* Nobody joins: the load does not grow.
LEMMA LoadLess ==
  ASSUME IsFiniteSet(Waiting), Waiting' \subseteq Waiting, Accepted' \subseteq Accepted
  PROVE  IsFiniteSet(Waiting') /\ Load' \in Nat /\ Load' <= Load
<1>1. IsFiniteSet(Waiting')
  BY FS_Subset
<1>2. /\ Cardinality(Waiting') \in Nat /\ Cardinality(Waiting) \in Nat
      /\ Cardinality(Accepted') \in Nat /\ Cardinality(Accepted) \in Nat
      /\ IsFiniteSet(Accepted)
  <2>1. MaxStarts \in Nat
    BY RemoteServerAssumption
  <2>2. IsFiniteSet(Listeners)
    BY <2>1, FS_Interval DEF Listeners
  <2>3. Accepted' \subseteq Listeners
    BY DEF Accepted
  <2>4. IsFiniteSet(Accepted')
    BY <2>2, <2>3, FS_Subset
  <2>5. Cardinality(Waiting') \in Nat /\ Cardinality(Accepted') \in Nat
    BY <1>1, <2>4, FS_CardinalityType
  <2> QED BY <2>5, LoadType
<1>3. Cardinality(Waiting') <= Cardinality(Waiting)
  BY FS_Subset
<1>4. Cardinality(Accepted') <= Cardinality(Accepted)
  BY <1>2, FS_Subset
<1> QED BY <1>1, <1>2, <1>3, <1>4 DEF Load

\* A step that counts nobody, and after which nobody waits who did not before.
LEMMA NobodyArrives ==
  ASSUME Shape, Shape', Arrived, stream' \in [Streams -> StreamStates], arrivals' = arrivals,
         Waiting' \subseteq Waiting, Accepted' \subseteq Accepted,
         nConnected' = nConnected \/ nConnected' = 0,
         \A n \in Listeners : count'[n] \in {count[n], nConnected},
         \A h \in Handles : Users(h)' <= Users(h)
  PROVE  Arrived'
<1>1. IsFiniteSet(Waiting') /\ Load' \in Nat /\ Load \in Nat /\ Load' <= Load
  BY LoadLess, LoadType DEF Arrived
<1>2. arrivals \in Nat /\ nConnected \in Nat /\ nConnected + Load <= arrivals
  BY RemoteServerAssumption DEF Arrived, Shape
<1>3. nConnected' + Load' <= arrivals
  BY <1>1, <1>2
<1>4. ASSUME NEW n \in Listeners PROVE count'[n] + Load' <= arrivals
  <2>1. count[n] \in Nat /\ count[n] + Load <= arrivals
    BY DEF Shape, Arrived
  <2> QED BY <1>1, <1>2, <2>1
<1>5. ASSUME NEW h \in Handles PROVE Users(h)' + Load' <= arrivals
  <2>a. receivers[h] \in Nat /\ failing[h] \in Nat
    BY DEF Shape
  <2>1. Users(h) \in Nat
    BY <2>a DEF Users
  <2>2. receivers'[h] \in Nat /\ failing'[h] \in Nat
    BY DEF Shape
  <2>3. Users(h)' \in Nat /\ Users(h)' <= Users(h)
    BY <2>2 DEF Users
  <2>4. Users(h) + Load <= arrivals
    BY DEF Arrived
  <2> QED BY <1>1, <1>2, <2>1, <2>3, <2>4
<1> QED BY <1>1, <1>3, <1>4, <1>5 DEF Arrived

\* Accept takes a connection out of the backlog and holds it: the load stays.
LEMMA AcceptArrived ==
  ASSUME Shape, Shape', Arrived, NEW n \in Listeners, Accept(n)
  PROVE  Arrived'
<1>1. PICK h \in Handles, c \in Handles :
        /\ backlog[h] > 0 /\ backlog' = [backlog EXCEPT ![h] = backlog[h] - 1]
        /\ held' = [held EXCEPT ![n] = c]
  BY DEF Accept
<1>2. /\ lt[n] = "accept" /\ lt' = [lt EXCEPT ![n] = "store"]
      /\ UNCHANGED <<nConnected, count, receivers, failing, stream, arrivals>>
  BY DEF Accept, server, inputs, streams
<1>3. Waiting' = Waiting \ {h} /\ h \in Waiting
  <2>1. h \in Waiting /\ backlog[h] = 1 /\ backlog'[h] = 0
    BY <1>1 DEF Shape, Waiting
  <2>2. \A x \in Handles \ {h} : backlog'[x] = backlog[x]
    BY <1>1 DEF Shape
  <2> QED BY <2>1, <2>2 DEF Waiting
<1>4. Accepted' = Accepted \cup {n} /\ n \notin Accepted
  <2>1. n \notin Accepted
    BY <1>2 DEF Accepted, Uncounted
  <2>2. lt'[n] = "store" /\ held'[n] = c /\ c # Invalid
    BY <1>1, <1>2, RemoteServerAssumption DEF Shape
  <2>3. \A m \in Listeners \ {n} : lt'[m] = lt[m] /\ held'[m] = held[m]
    BY <1>1, <1>2 DEF Shape
  <2> QED BY <2>1, <2>2, <2>3 DEF Accepted, Uncounted
<1>5. IsFiniteSet(Waiting) /\ IsFiniteSet(Accepted)
  BY LoadType DEF Arrived
<1>6. /\ Cardinality(Waiting') = Cardinality(Waiting) - 1 /\ IsFiniteSet(Waiting')
  BY <1>3, <1>5, FS_RemoveElement
<1>7. Cardinality(Accepted') = Cardinality(Accepted) + 1
  BY <1>4, <1>5, FS_AddElement
<1>8. Load' = Load
  <2>1. Cardinality(Accepted) \in Nat /\ Cardinality(Waiting) \in Nat
    BY <1>5, LoadType
  <2> QED BY <1>6, <1>7, <2>1 DEF Load
<1> QED BY <1>2, <1>6, <1>8 DEF Arrived, Users

\* Spawn counts the connection and starts its receiver: the load is one less.
LEMMA SpawnArrived ==
  ASSUME Shape, Shape', Arrived, NEW n \in Listeners, Spawn(n)
  PROVE  Arrived'
<1>1. /\ lt[n] = "spawn" /\ lt' = [lt EXCEPT ![n] = "test"]
      /\ nConnected' = count[n] + 1 /\ count' = [count EXCEPT ![n] = 0]
      /\ UNCHANGED <<backlog, held, failing, stream, arrivals>>
  BY DEF Spawn, sockets, streams
<1>2. \A h \in Handles : receivers'[h] \in {receivers[h], receivers[h] + 1}
  <2>1. PICK x : x = slots[index[n]]
    OBVIOUS
  <2>2. receivers' = [h \in Handles |-> receivers[h] + IF h = x THEN 1 ELSE 0]
    BY <2>1 DEF Spawn
  <2> QED BY <2>2 DEF Shape
<1>3. Waiting' = Waiting
  BY <1>1 DEF Waiting
<1>4. Accepted' = Accepted \ {n} /\ n \in Accepted
  <2>1. n \in Accepted /\ lt'[n] = "test"
    BY <1>1 DEF Accepted, Uncounted, Shape
  <2>2. \A m \in Listeners \ {n} : lt'[m] = lt[m]
    BY <1>1 DEF Shape
  <2> QED BY <1>1, <2>1, <2>2 DEF Accepted, Uncounted
<1>5. IsFiniteSet(Accepted) /\ Load \in Nat
  BY LoadType DEF Arrived
<1>6. Cardinality(Accepted') = Cardinality(Accepted) - 1
  BY <1>4, <1>5, FS_RemoveElement
<1>7. Load' = Load - 1
  <2>1. Cardinality(Accepted) \in Nat /\ Cardinality(Waiting) \in Nat
    BY LoadType DEF Arrived
  <2> QED BY <1>3, <1>6, <2>1 DEF Load
<1>8. arrivals \in Nat
  BY RemoteServerAssumption DEF Arrived
<1>9. nConnected' + Load' <= arrivals
  <2>1. count[n] \in Nat /\ count[n] + Load <= arrivals
    BY DEF Shape, Arrived
  <2> QED BY <1>1, <1>5, <1>7, <1>8, <2>1
<1>10. ASSUME NEW m \in Listeners PROVE count'[m] + Load' <= arrivals
  <2>1. count[m] \in Nat /\ count[m] + Load <= arrivals
    BY DEF Shape, Arrived
  <2>2. count'[m] = count[m] \/ count'[m] = 0
    BY <1>1 DEF Shape
  <2> QED BY <1>5, <1>7, <1>8, <2>1, <2>2
<1>11. ASSUME NEW h \in Handles PROVE Users(h)' + Load' <= arrivals
  <2>1. receivers[h] \in Nat /\ failing[h] \in Nat /\ receivers[h] + failing[h] + Load <= arrivals
    BY DEF Shape, Arrived, Users
  <2>2. failing'[h] = failing[h] /\ receivers'[h] \in {receivers[h], receivers[h] + 1}
    BY <1>1, <1>2
  <2>3. receivers'[h] + failing'[h] + Load' <= arrivals
    BY <1>5, <1>7, <1>8, <2>1, <2>2
  <2> QED BY <2>3 DEF Users
<1>12. IsFiniteSet(Waiting')
  BY <1>3 DEF Arrived
<1> QED BY <1>1, <1>9, <1>10, <1>11, <1>12 DEF Arrived

\* An arrival that waits is one more of both.
LEMMA ArriveArrived ==
  ASSUME Shape, Shape', Arrived, NEW h \in Handles, Arrive(h)
  PROVE  Arrived'
<1>1. /\ backlog[h] = 0 /\ backlog' = [backlog EXCEPT ![h] = 1]
      /\ arrivals < MaxArrivals /\ arrivals' = arrivals + 1
      /\ UNCHANGED <<nConnected, lt, held, count, receivers, failing, stream>>
  BY DEF Arrive, server, listeners, inputs, streams
<1>2. Waiting' = Waiting \cup {h} /\ h \notin Waiting
  <2>1. h \notin Waiting /\ backlog'[h] = 1
    BY <1>1 DEF Shape, Waiting
  <2>2. \A x \in Handles \ {h} : backlog'[x] = backlog[x]
    BY <1>1 DEF Shape
  <2> QED BY <2>1, <2>2 DEF Waiting
<1>3. Accepted' = Accepted
  BY <1>1 DEF Accepted, Uncounted
<1>4. IsFiniteSet(Waiting) /\ Load \in Nat
  BY LoadType DEF Arrived
<1>5. Cardinality(Waiting') = Cardinality(Waiting) + 1 /\ IsFiniteSet(Waiting')
  BY <1>2, <1>4, FS_AddElement
<1>6. Load' = Load + 1
  <2>1. Cardinality(Accepted) \in Nat /\ Cardinality(Waiting) \in Nat
    BY LoadType DEF Arrived
  <2> QED BY <1>3, <1>5, <2>1 DEF Load
<1>7. arrivals \in Nat /\ arrivals' \in 0 .. MaxArrivals
  BY <1>1, RemoteServerAssumption DEF Arrived
<1>8. nConnected' + Load' <= arrivals'
  BY <1>1, <1>4, <1>6, <1>7 DEF Arrived, Shape
<1>9. ASSUME NEW n \in Listeners PROVE count'[n] + Load' <= arrivals'
  <2>1. count[n] \in Nat /\ count[n] + Load <= arrivals
    BY DEF Shape, Arrived
  <2> QED BY <1>1, <1>4, <1>6, <1>7, <2>1
<1>10. ASSUME NEW x \in Handles PROVE Users(x)' + Load' <= arrivals'
  <2>1. Users(x) \in Nat /\ Users(x) + Load <= arrivals /\ Users(x)' = Users(x)
    BY <1>1, SMTT(30) DEF Shape, Arrived, Users
  <2> QED BY <1>1, <1>4, <1>6, <1>7, <2>1
<1> QED BY <1>1, <1>5, <1>7, <1>8, <1>9, <1>10 DEF Arrived

\* Every step keeps the counts.
LEMMA ArrivedStep ==
  ASSUME Shape, Shape', Arrived, [Next]_vars
  PROVE  Arrived'
<1> USE DEF server, sockets, listeners, inputs, streams
<1>0. stream \in [Streams -> StreamStates]
  BY DEF Arrived
<1>1. CASE StartFails \/ StartBinds \/ StartGoesOnline \/ TerminateStopsStream
  <2>1. UNCHANGED <<nConnected, count, receivers, failing, stream, arrivals, backlog, held>>
    BY <1>1 DEF StartFails, StartBinds, StartGoesOnline, TerminateStopsStream
  <2>2. \A n \in Listeners : lt'[n] = lt[n] \/ lt'[n] = "test"
    BY <1>1 DEF StartFails, StartBinds, StartGoesOnline, TerminateStopsStream, Shape
  <2>3. Waiting' = Waiting /\ Accepted' \subseteq Accepted
    BY <2>1, <2>2 DEF Waiting, Accepted, Uncounted
  <2>4. \A h \in Handles : Users(h)' <= Users(h)
    BY <2>1 DEF Users, Shape
  <2> QED BY <1>0, <2>1, <2>3, <2>4, NobodyArrives
<1>2. CASE TerminateCloses
  <2>1. UNCHANGED <<nConnected, count, receivers, failing, stream, arrivals, lt, held>>
    BY <1>2 DEF TerminateCloses
  <2>2. \A h \in Handles : backlog'[h] = backlog[h] \/ backlog'[h] = 0
    BY <1>2 DEF TerminateCloses, Close
  <2>3. Waiting' \subseteq Waiting /\ Accepted' = Accepted
    BY <2>1, <2>2 DEF Waiting, Accepted, Uncounted
  <2>4. \A h \in Handles : Users(h)' <= Users(h)
    BY <2>1 DEF Users, Shape
  <2> QED BY <1>0, <2>1, <2>3, <2>4, NobodyArrives
<1>3. CASE TerminateGoesOffline
  <2>1. /\ UNCHANGED <<count, receivers, failing, stream, arrivals, backlog, held>>
        /\ nConnected' = 0
    BY <1>3 DEF TerminateGoesOffline
  <2>2. \A n \in Listeners : lt'[n] = lt[n] \/ lt'[n] = "select"
    BY <1>3 DEF TerminateGoesOffline
  <2>3. Waiting' = Waiting /\ Accepted' \subseteq Accepted
    BY <2>1, <2>2 DEF Waiting, Accepted, Uncounted
  <2>4. \A h \in Handles : Users(h)' <= Users(h)
    BY <2>1 DEF Users, Shape
  <2> QED BY <1>0, <2>1, <2>3, <2>4, NobodyArrives
<1>4. ASSUME NEW n \in Listeners,
             \/ ListenTests(n) \/ ListenChecks(n) \/ ListenWaits(n) \/ Select(n)
             \/ Listen(n) \/ AcceptFails(n) \/ Store(n) \/ SpuriousWake(n)
      PROVE  Arrived'
  <2>1. UNCHANGED <<nConnected, count, receivers, failing, stream, arrivals, backlog>>
    BY <1>4 DEF ListenTests, ListenChecks, ListenWaits, Select, Listen, AcceptFails,
       Store, SpuriousWake
  <2>2. \A m \in Listeners \ {n} : lt'[m] = lt[m] /\ held'[m] = held[m]
    BY <1>4, SMTT(30) DEF ListenTests, ListenChecks, ListenWaits, Select, Listen, AcceptFails,
       Store, SpuriousWake, Shape
  <2>3. Uncounted(n)' => Uncounted(n)
    BY <1>4, SMTT(30) DEF ListenTests, ListenChecks, ListenWaits, Select, Listen, AcceptFails,
       Store, SpuriousWake, Shape, Uncounted
  <2>4. Accepted' \subseteq Accepted
    <3>1. \A m \in Listeners \ {n} : Uncounted(m)' => Uncounted(m)
      BY <2>2 DEF Uncounted
    <3> QED BY <2>3, <3>1 DEF Accepted
  <2>5. Waiting' = Waiting
    BY <2>1 DEF Waiting
  <2>6. \A h \in Handles : Users(h)' <= Users(h)
    BY <2>1 DEF Users, Shape
  <2> QED BY <1>0, <2>1, <2>4, <2>5, <2>6, NobodyArrives
<1>5. ASSUME NEW n \in Listeners, Count(n) PROVE Arrived'
  <2>1. /\ UNCHANGED <<nConnected, receivers, failing, stream, arrivals, backlog, held>>
        /\ \A m \in Listeners : count'[m] \in {count[m], nConnected}
        /\ lt[n] = "count" /\ \A m \in Listeners \ {n} : lt'[m] = lt[m]
    BY <1>5 DEF Count, Shape
  <2>2. Waiting' = Waiting
    BY <2>1 DEF Waiting
  <2>3. Accepted' \subseteq Accepted
    BY <2>1 DEF Accepted, Uncounted
  <2>4. \A h \in Handles : Users(h)' <= Users(h)
    BY <2>1 DEF Users, Shape
  <2> QED BY <1>0, <2>1, <2>2, <2>3, <2>4, NobodyArrives
<1>6. ASSUME NEW n \in Listeners, Accept(n) \/ Spawn(n) PROVE Arrived'
  BY <1>6, AcceptArrived, SpawnArrived
<1>7. ASSUME NEW h \in Handles, Arrive(h) PROVE Arrived'
  BY <1>7, ArriveArrived
<1>8. ASSUME NEW h \in Handles, Leave(h) \/ ReceiverFails(h) \/ ReceiverCloses(h)
      PROVE  Arrived'
  <2>1. UNCHANGED <<nConnected, count, stream, arrivals, lt, held>>
    BY <1>8 DEF Leave, ReceiverFails, ReceiverCloses
  <2>2. \A x \in Handles : backlog'[x] = backlog[x] \/ backlog'[x] = 0
    BY <1>8 DEF Leave, ReceiverFails, ReceiverCloses, Close
  <2>3. Waiting' \subseteq Waiting /\ Accepted' = Accepted
    BY <2>1, <2>2 DEF Waiting, Accepted, Uncounted
  <2>4. \A x \in Handles : Users(x)' <= Users(x)
    <3>1. CASE Leave(h)
      BY <3>1 DEF Leave, Users, Shape
    <3>2. CASE ReceiverFails(h)
      BY <3>2 DEF ReceiverFails, Users, Shape
    <3>3. CASE ReceiverCloses(h)
      BY <3>3 DEF ReceiverCloses, Users, Shape
    <3> QED BY <1>8, <3>1, <3>2, <3>3
  <2> QED BY <1>0, <2>1, <2>3, <2>4, NobodyArrives
<1>9. CASE \/ \E s \in Streams : StreamArrives(s) \/ StreamThread(s) \/ StreamLeft(s)
           \/ UNCHANGED vars
  <2>1. UNCHANGED <<nConnected, count, receivers, failing, arrivals, lt, held, backlog>>
    BY <1>9 DEF StreamArrives, StreamThread, StreamStarts, StreamStops, StreamEnds,
       StreamLeft, vars
  <2>2. stream' \in [Streams -> StreamStates]
    BY <1>0, <1>9 DEF StreamArrives, StreamThread, StreamStarts, StreamStops, StreamEnds,
       StreamLeft, vars, StreamStates
  <2>3. Waiting' = Waiting /\ Accepted' = Accepted
    BY <2>1 DEF Waiting, Accepted, Uncounted
  <2>4. \A h \in Handles : Users(h)' <= Users(h)
    BY <2>1 DEF Users, Shape
  <2> QED BY <2>1, <2>2, <2>3, <2>4, NobodyArrives
<1>10. CASE Next
  BY <1>10, <1>1, <1>2, <1>3, <1>4, <1>5, <1>6, <1>7, <1>8, <1>9
     DEF Next, Finish, ListenThread, Receiver
<1> QED BY <1>9, <1>10

LEMMA InitArrived == Init => Arrived
<1> SUFFICES ASSUME Init PROVE Arrived
  OBVIOUS
<1> USE DEF Init
<1>1. Waiting = {} /\ Accepted = {}
  BY DEF Waiting, Accepted, Uncounted
<1>2. Load = 0 /\ IsFiniteSet(Waiting)
  BY <1>1, FS_EmptySet DEF Load
<1>3. 0 \in 0 .. MaxArrivals
  BY RemoteServerAssumption
<1>4. stream \in [Streams -> StreamStates]
  BY DEF StreamStates
<1> QED BY <1>2, <1>3, <1>4 DEF Arrived, Users

LEMMA ArrivedAlways == Spec => [](IInv /\ Arrived)
<1>1. Init => IInv /\ Arrived
  BY InitIInv, InitArrived
<1>2. (IInv /\ Arrived) /\ [Next]_vars => (IInv /\ Arrived)'
  BY NextIInv, ArrivedStep DEF IInv
<1> QED BY <1>1, <1>2, PTL DEF Spec

\* Every variable keeps its type, however the server is started on top of
\* threads of an earlier one: the slot of a ListenThread is one of the vector's
\* even when none was free, and neither nConnected, although it is read, reset
\* and written by different threads, nor the receivers of a handle are ever
\* more than the connections that clients have made.
THEOREM TypesHold == Spec => []TypeOK
<1>1. IInv /\ Arrived => TypeOK
  <2> SUFFICES ASSUME IInv, Arrived PROVE TypeOK
    OBVIOUS
  <2>1. Load \in Nat /\ arrivals \in Nat /\ MaxArrivals \in Nat /\ arrivals <= MaxArrivals
    BY LoadType, RemoteServerAssumption DEF Arrived
  <2>2. nConnected \in 0 .. MaxArrivals
    BY <2>1 DEF IInv, Shape, Arrived
  <2>3. count \in [Listeners -> 0 .. MaxArrivals]
    <3>1. ASSUME NEW n \in Listeners PROVE count[n] \in 0 .. MaxArrivals
      BY <2>1 DEF IInv, Shape, Arrived
    <3> QED BY <3>1 DEF IInv, Shape
  <2>4. /\ receivers \in [Handles -> 0 .. MaxArrivals]
        /\ failing \in [Handles -> 0 .. MaxArrivals]
    <3>1. ASSUME NEW h \in Handles
          PROVE  receivers[h] \in 0 .. MaxArrivals /\ failing[h] \in 0 .. MaxArrivals
      <4>1. /\ receivers[h] \in Nat /\ failing[h] \in Nat
            /\ receivers[h] + failing[h] + Load <= arrivals
        BY DEF IInv, Shape, Arrived, Users
      <4> QED BY <2>1, <4>1
    <3> QED BY <3>1 DEF IInv, Shape
  <2> QED BY <2>2, <2>3, <2>4 DEF IInv, Shape, Arrived, LtStates, StreamStates, TypeOK
<1> QED BY <1>1, ArrivedAlways, PTL
=============================================================================
