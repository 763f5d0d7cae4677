------------------------ MODULE RemoteClient_proofs ------------------------
(***************************************************************************)
(* What a client keeps for every number of connections and records,        *)
(* however recv cuts them and whatever threads of earlier connections are  *)
(* doing: why a connection ends, that nobody can connect on top of it, and *)
(* that records are injected once, in order and without a gap.             *)
(*                                                                         *)
(* Shape has the types that this needs.  Buttons says in which modes the   *)
(* window thread connects.  Alone is the invariant behind EndsForAReason:  *)
(* if Connect was never clicked while threads were about, then a thread    *)
(* receives from the socket of the present connection, there is none, and  *)
(* no message from one, while a connection is being made, and none has     *)
(* failed unless the server has ended it.                                  *)
(*                                                                         *)
(* Typed, Points, Unborn and FewPosted complete the types.  Balance is     *)
(* QueueConserved for every record.  The order of the records needs five   *)
(* more parts: SocketsKept and Lonely, which sockets and threads there     *)
(* are; Kept, that the queue is first in, first out; Streamed, where the   *)
(* bytes of the present connection are; Order, what gets into the queue.   *)
(***************************************************************************)
EXTENDS RemoteClient, FiniteSetTheorems, TLAPS

RxStates == {"none", "test", "call", "recv", "rest", "store", "push", "failed",
             "post", "ended"}

Shape ==
  /\ ui \in {"idle", "connecting", "connected"}
  /\ posted \in Nat /\ isConnected \in BOOLEAN /\ overlapped \in BOOLEAN
  /\ sktServer \in Handles \cup {Invalid}
  /\ ui = "connecting" => sktServer \in Handles
  /\ open \in [Handles -> {"closed", "connecting", "open", "eof", "reset"}]
  /\ rx \in [Threads -> RxStates]
  /\ rsock \in [Threads -> Handles \cup {Invalid}]
  /\ ox \in [Threads -> {"none", "test", "lock", "wait", "inject", "ended"}]

Buttons ==
  /\ ButtonsFollow
  /\ ui # "idle" => mode = "client"
  /\ ui = "connecting" => ~isConnected

\* What a socket is while its connection is up.
Up == {"open", "eof", "reset"}

Alone ==
  ~overlapped =>
    /\ ui # "idle" => posted = 0 /\ \A n \in Threads : ~Alive(n)
    /\ \A n \in Threads : rx[n] \in {"recv", "rest"} => rsock[n] = sktServer
    /\ isConnected =>
         /\ posted = 0
         /\ sktServer \in Handles /\ open[sktServer] \in Up
         /\ \A n \in Threads :
              /\ rx[n] # "post"
              /\ rx[n] = "failed" => open[sktServer] \in {"eof", "reset"}

IInv == Shape /\ Buttons /\ Alone

-----------------------------------------------------------------------------
(* The steps, one by one.                                                  *)

\* A step is one of the window thread, of a server, or of a thread.
LEMMA Steps ==
  ASSUME [Next]_vars
  PROVE  \/ ClickConnect \/ ConnectFails \/ Connected \/ Started
         \/ HandleDisconnect \/ ClickDisconnect \/ ClickServer \/ ClickClient
         \/ \E h \in Handles : ServerSends(h) \/ ServerCloses(h)
         \/ \E n \in Threads :
              \/ ReceiveTests(n) \/ CallReceive(n) \/ Receive(n)
              \/ ReceiveFails(n) \/ RestFails(n) \/ Store(n) \/ Push(n)
              \/ GiveUp(n) \/ PostDisconnect(n)
         \/ \E n \in Threads :
              \/ OutputTests(n) \/ OutputWaits(n) \/ OutputTakes(n) \/ Inject(n)
              \/ SpuriousWake(n)
         \/ UNCHANGED vars
  BY DEF Next, WindowStep, Click, ReceiveThread, OutputThread

\* What notify_all makes of the OutputThreads.
LEMMA WokenTypes ==
  ASSUME Shape
  PROVE  Woken \in [Threads -> {"none", "test", "lock", "wait", "inject", "ended"}]
  BY DEF Shape, Woken

\* Every step keeps the types.
LEMMA ShapeStep ==
  ASSUME Shape, [Next]_vars
  PROVE  Shape'
<1> USE DEF Shape, RxStates
<1>1. CASE ClickConnect
  BY <1>1 DEF ClickConnect, Idle, Alive, window, sockets, receivers, outputs
<1>2. CASE ConnectFails
  BY <1>2 DEF ConnectFails, window, sockets, receivers, outputs
<1>3. CASE Connected
  BY <1>3 DEF Connected, window, sockets, receivers, outputs
<1>4. CASE Started
  BY <1>4 DEF Started, window, sockets, receivers, outputs
<1>5. CASE HandleDisconnect
  <2>1. posted' \in Nat
    BY <1>5 DEF HandleDisconnect
  <2>2. /\ open' \in [Handles -> {"closed", "connecting", "open", "eof", "reset"}]
        /\ ox' \in [Threads -> {"none", "test", "lock", "wait", "inject", "ended"}]
        /\ isConnected' \in BOOLEAN
    BY <1>5, WokenTypes DEF HandleDisconnect, Disconnect
  <2>3. UNCHANGED <<ui, overlapped, sktServer, rx, rsock>>
    BY <1>5 DEF HandleDisconnect, receivers
  <2> QED
    BY <2>1, <2>2, <2>3
<1>6. CASE ClickDisconnect
  BY <1>6, WokenTypes DEF ClickDisconnect, Disconnect, window, sockets, receivers, outputs
<1>7. CASE ClickServer
  BY <1>7 DEF ClickServer, Idle, window, sockets, receivers, outputs
<1>8. CASE ClickClient
  BY <1>8 DEF ClickClient, Idle, window, sockets, receivers, outputs
<1>9. CASE \E h \in Handles : ServerSends(h)
  BY <1>9 DEF ServerSends, window, sockets, receivers, outputs
<1>10. CASE \E h \in Handles : ServerCloses(h)
  BY <1>10 DEF ServerCloses, window, sockets, receivers, outputs
<1>11. CASE \E n \in Threads : ReceiveTests(n)
  BY <1>11 DEF ReceiveTests, window, sockets, receivers, outputs
<1>12. CASE \E n \in Threads : CallReceive(n)
  BY <1>12 DEF CallReceive, window, sockets, receivers, outputs
<1>13. CASE \E n \in Threads : Receive(n)
  BY <1>13 DEF Receive, window, sockets, receivers, outputs
<1>14. CASE \E n \in Threads : ReceiveFails(n)
  BY <1>14 DEF ReceiveFails, window, sockets, receivers, outputs
<1>15. CASE \E n \in Threads : RestFails(n)
  BY <1>15 DEF RestFails, window, sockets, receivers, outputs
<1>16. CASE \E n \in Threads : Store(n)
  BY <1>16 DEF Store, window, sockets, receivers, outputs
<1>17. CASE \E n \in Threads : Push(n)
  BY <1>17, WokenTypes DEF Push, window, sockets, receivers, outputs
<1>18. CASE \E n \in Threads : GiveUp(n)
  BY <1>18 DEF GiveUp, window, sockets, receivers, outputs
<1>19. CASE \E n \in Threads : PostDisconnect(n)
  BY <1>19 DEF PostDisconnect, window, sockets, receivers, outputs
<1>20. CASE \E n \in Threads : OutputTests(n)
  BY <1>20 DEF OutputTests, window, sockets, receivers, outputs
<1>21. CASE \E n \in Threads : OutputWaits(n)
  BY <1>21 DEF OutputWaits, window, sockets, receivers, outputs
<1>22. CASE \E n \in Threads : OutputTakes(n)
  BY <1>22 DEF OutputTakes, window, sockets, receivers, outputs
<1>23. CASE \E n \in Threads : Inject(n)
  BY <1>23 DEF Inject, window, sockets, receivers, outputs
<1>24. CASE \E n \in Threads : SpuriousWake(n)
  BY <1>24 DEF SpuriousWake, window, sockets, receivers, outputs
<1>25. CASE UNCHANGED vars
  BY <1>25 DEF vars, window, sockets, receivers, outputs
<1> QED
  BY <1>1, <1>2, <1>3, <1>4, <1>5, <1>6, <1>7, <1>8, <1>9, <1>10, <1>11,
     <1>12, <1>13, <1>14, <1>15, <1>16, <1>17, <1>18, <1>19, <1>20, <1>21,
     <1>22, <1>23, <1>24, <1>25, Steps

\* Every step keeps the buttons and the mode in order.
LEMMA ButtonsStep ==
  ASSUME Shape, Buttons, [Next]_vars
  PROVE  Buttons'
<1> USE DEF Shape, Buttons, ButtonsFollow
<1>1. CASE ClickConnect
  BY <1>1 DEF ClickConnect, Idle, Alive, window, sockets, receivers, outputs
<1>2. CASE ConnectFails
  BY <1>2 DEF ConnectFails, window, sockets, receivers, outputs
<1>3. CASE Connected
  BY <1>3 DEF Connected, window, sockets, receivers, outputs
<1>4. CASE Started
  BY <1>4 DEF Started, window, sockets, receivers, outputs
<1>5. CASE HandleDisconnect
  BY <1>5 DEF HandleDisconnect, Disconnect, Woken, window, sockets, receivers, outputs
<1>6. CASE ClickDisconnect
  BY <1>6 DEF ClickDisconnect, Disconnect, Woken, Idle, window, sockets, receivers, outputs
<1>7. CASE ClickServer
  BY <1>7 DEF ClickServer, Idle, window, sockets, receivers, outputs
<1>8. CASE ClickClient
  BY <1>8 DEF ClickClient, Idle, window, sockets, receivers, outputs
<1>9. CASE \E h \in Handles : ServerSends(h)
  BY <1>9 DEF ServerSends, window, sockets, receivers, outputs
<1>10. CASE \E h \in Handles : ServerCloses(h)
  BY <1>10 DEF ServerCloses, window, sockets, receivers, outputs
<1>11. CASE \E n \in Threads : ReceiveTests(n)
  BY <1>11 DEF ReceiveTests, window, sockets, receivers, outputs
<1>12. CASE \E n \in Threads : CallReceive(n)
  BY <1>12 DEF CallReceive, window, sockets, receivers, outputs
<1>13. CASE \E n \in Threads : Receive(n)
  BY <1>13 DEF Receive, window, sockets, receivers, outputs
<1>14. CASE \E n \in Threads : ReceiveFails(n)
  BY <1>14 DEF ReceiveFails, window, sockets, receivers, outputs
<1>15. CASE \E n \in Threads : RestFails(n)
  BY <1>15 DEF RestFails, window, sockets, receivers, outputs
<1>16. CASE \E n \in Threads : Store(n)
  BY <1>16 DEF Store, window, sockets, receivers, outputs
<1>17. CASE \E n \in Threads : Push(n)
  BY <1>17 DEF Push, Woken, window, sockets, receivers, outputs
<1>18. CASE \E n \in Threads : GiveUp(n)
  BY <1>18 DEF GiveUp, window, sockets, receivers, outputs
<1>19. CASE \E n \in Threads : PostDisconnect(n)
  BY <1>19 DEF PostDisconnect, window, sockets, receivers, outputs
<1>20. CASE \E n \in Threads : OutputTests(n)
  BY <1>20 DEF OutputTests, window, sockets, receivers, outputs
<1>21. CASE \E n \in Threads : OutputWaits(n)
  BY <1>21 DEF OutputWaits, window, sockets, receivers, outputs
<1>22. CASE \E n \in Threads : OutputTakes(n)
  BY <1>22 DEF OutputTakes, window, sockets, receivers, outputs
<1>23. CASE \E n \in Threads : Inject(n)
  BY <1>23 DEF Inject, window, sockets, receivers, outputs
<1>24. CASE \E n \in Threads : SpuriousWake(n)
  BY <1>24 DEF SpuriousWake, window, sockets, receivers, outputs
<1>25. CASE UNCHANGED vars
  BY <1>25 DEF vars, window, sockets, receivers, outputs
<1> QED
  BY <1>1, <1>2, <1>3, <1>4, <1>5, <1>6, <1>7, <1>8, <1>9, <1>10, <1>11,
     <1>12, <1>13, <1>14, <1>15, <1>16, <1>17, <1>18, <1>19, <1>20, <1>21,
     <1>22, <1>23, <1>24, <1>25, Steps

\* Every step keeps Alone.
LEMMA AloneStep ==
  ASSUME IInv, [Next]_vars
  PROVE  Alone'
<1> USE DEF IInv, Shape, Buttons, ButtonsFollow, Alone, Up, Alive
<1>1. CASE ClickConnect
  <2>1. posted = 0 /\ ~isConnected
    BY <1>1 DEF ClickConnect, Idle
  <2>2. UNCHANGED <<posted, isConnected, rx, rsock, ox>>
    BY <1>1 DEF ClickConnect, receivers, outputs
  <2>3. ~overlapped' => \A n \in Threads : ~Alive(n)
    BY <1>1 DEF ClickConnect
  <2>4. ~overlapped' => \A n \in Threads : ~Alive(n)' /\ rx'[n] \notin {"recv", "rest"}
    BY <2>2, <2>3
  <2> QED
    BY <2>1, <2>2, <2>4
<1>2. CASE ConnectFails
  <2>1. ~overlapped => \A n \in Threads : rx[n] \in {"none", "ended"}
    BY <1>2 DEF ConnectFails
  <2>2. ~isConnected' /\ ui' = "idle" /\ UNCHANGED <<rx, ox, overlapped>>
    BY <1>2 DEF ConnectFails, window, receivers, outputs
  <2>3. ~overlapped' => \A n \in Threads : rx'[n] \notin {"recv", "rest"}
    BY <2>1, <2>2
  <2> QED
    BY <2>2, <2>3
<1>3. CASE Connected
  BY <1>3 DEF Connected, window, sockets, receivers, outputs
<1>4. CASE Started
  BY <1>4 DEF Started, window, sockets, receivers, outputs
<1>5. CASE HandleDisconnect
  BY <1>5 DEF HandleDisconnect, Disconnect, Woken, window, sockets, receivers, outputs
<1>6. CASE ClickDisconnect
  BY <1>6 DEF ClickDisconnect, Disconnect, Woken, Idle, window, sockets, receivers, outputs
<1>7. CASE ClickServer
  BY <1>7 DEF ClickServer, Idle, window, sockets, receivers, outputs
<1>8. CASE ClickClient
  BY <1>8 DEF ClickClient, Idle, window, sockets, receivers, outputs
<1>9. CASE \E h \in Handles : ServerSends(h)
  BY <1>9 DEF ServerSends, window, sockets, receivers, outputs
<1>10. CASE \E h \in Handles : ServerCloses(h)
  BY <1>10 DEF ServerCloses, window, sockets, receivers, outputs
<1>11. CASE \E n \in Threads : ReceiveTests(n)
  BY <1>11 DEF ReceiveTests, window, sockets, receivers, outputs
<1>12. CASE \E n \in Threads : CallReceive(n)
  BY <1>12 DEF CallReceive, window, sockets, receivers, outputs
<1>13. CASE \E n \in Threads : Receive(n)
  BY <1>13 DEF Receive, window, sockets, receivers, outputs
<1>14. CASE \E n \in Threads : ReceiveFails(n)
  BY <1>14 DEF ReceiveFails, Fails, AtEnd, window, sockets, receivers, outputs
<1>15. CASE \E n \in Threads : RestFails(n)
  BY <1>15 DEF RestFails, window, sockets, receivers, outputs
<1>16. CASE \E n \in Threads : Store(n)
  BY <1>16 DEF Store, window, sockets, receivers, outputs
<1>17. CASE \E n \in Threads : Push(n)
  BY <1>17 DEF Push, Woken, window, sockets, receivers, outputs
<1>18. CASE \E n \in Threads : GiveUp(n)
  BY <1>18 DEF GiveUp, window, sockets, receivers, outputs
<1>19. CASE \E n \in Threads : PostDisconnect(n)
  BY <1>19 DEF PostDisconnect, window, sockets, receivers, outputs
<1>20. CASE \E n \in Threads : OutputTests(n)
  BY <1>20 DEF OutputTests, window, sockets, receivers, outputs
<1>21. CASE \E n \in Threads : OutputWaits(n)
  BY <1>21 DEF OutputWaits, window, sockets, receivers, outputs
<1>22. CASE \E n \in Threads : OutputTakes(n)
  BY <1>22 DEF OutputTakes, window, sockets, receivers, outputs
<1>23. CASE \E n \in Threads : Inject(n)
  BY <1>23 DEF Inject, window, sockets, receivers, outputs
<1>24. CASE \E n \in Threads : SpuriousWake(n)
  BY <1>24 DEF SpuriousWake, window, sockets, receivers, outputs
<1>25. CASE UNCHANGED vars
  BY <1>25 DEF vars, window, sockets, receivers, outputs
<1> QED
  BY <1>1, <1>2, <1>3, <1>4, <1>5, <1>6, <1>7, <1>8, <1>9, <1>10, <1>11,
     <1>12, <1>13, <1>14, <1>15, <1>16, <1>17, <1>18, <1>19, <1>20, <1>21,
     <1>22, <1>23, <1>24, <1>25, Steps

-----------------------------------------------------------------------------
(* The theorems.                                                           *)

\* The invariant holds at the beginning.
LEMMA InitIInv == Init => IInv
<1> SUFFICES ASSUME Init PROVE IInv
  OBVIOUS
<1>1. Shape
  BY DEF Init, Shape, RxStates
<1>2. Buttons
  BY DEF Init, Buttons, ButtonsFollow
<1>3. Alone
  BY DEF Init, Alone, Alive
<1> QED
  BY <1>1, <1>2, <1>3 DEF IInv

\* Every step keeps it.
LEMMA NextIInv == IInv /\ [Next]_vars => IInv'
<1> SUFFICES ASSUME IInv, [Next]_vars PROVE IInv'
  OBVIOUS
<1>1. Shape'
  BY ShapeStep DEF IInv
<1>2. Buttons'
  BY ButtonsStep DEF IInv
<1> QED
  BY <1>1, <1>2, AloneStep DEF IInv

\* It always holds.
LEMMA Always == Spec => []IInv
  BY InitIInv, NextIInv, PTL DEF Spec

\* While the window is idle, nobody can connect or change the mode on top of a
\* connection that is up, in whatever order the threads that nothing joins and
\* the messages they have posted get there (UpdateGuiControls).
THEOREM ButtonsAlways == Spec => []ButtonsFollow
<1>1. IInv => ButtonsFollow
  BY DEF IInv, Buttons
<1> QED
  BY <1>1, Always, PTL

\* A step that ends a connection of which EndsForAReason speaks.
LEMMA Ends ==
  ASSUME IInv, [Next]_vars, isConnected, ~isConnected'
  PROVE  \/ ClickDisconnect \/ overlapped
         \/ open[sktServer] \in {"eof", "reset"}
<1>1. CASE HandleDisconnect
  BY <1>1 DEF HandleDisconnect, IInv, Alone
<1>2. CASE \E n \in Threads : GiveUp(n)
  BY <1>2 DEF GiveUp, IInv, Alone
<1>3. \/ ClickDisconnect \/ HandleDisconnect
      \/ \E n \in Threads : GiveUp(n)
  BY Steps DEF vars, window, sockets, receivers, outputs, ClickConnect, ConnectFails, Connected,
     Started, ClickServer, ClickClient, ServerSends, ServerCloses,
     ReceiveTests, CallReceive, Receive, ReceiveFails, RestFails, Store, Push,
     PostDisconnect, OutputTests, OutputWaits, OutputTakes, Inject, SpuriousWake
<1> QED
  BY <1>1, <1>2, <1>3

\* A connection ends because the user or the server ends it, or because Connect
\* was clicked while threads of an older connection, whose message closes
\* whatever there is (ClientDisconnect), were still about.
THEOREM EndsAlwaysForAReason == Spec => EndsForAReason
<1>1. IInv /\ [Next]_vars =>
        [isConnected /\ ~isConnected' =>
           \/ ClickDisconnect \/ overlapped
           \/ open[sktServer] \in {"eof", "reset"}]_vars
  BY Ends
<1> QED
  BY <1>1, Always, PTL DEF Spec, EndsForAReason

-----------------------------------------------------------------------------
(* Types: all of what a thread has is a byte that was sent, or Junk.       *)

SentRecords == [1 .. RecordSize -> 1 .. sent \cup {Junk}]

Typed ==
  /\ enabled \subseteq {"connect", "disconnect", "mode"}
  /\ mode \in {"client", "server"} /\ cut \in BOOLEAN
  /\ sent \in 0 .. MaxSent /\ base \in 0 .. sent
  /\ connects \in 0 .. MaxConnections /\ (ui # "idle" => connects > 0)
  /\ wire \in [Handles -> Seq(1 .. sent)]
  /\ rgot \in [Threads -> -1 .. RecordSize]
  /\ rbuf \in [Threads -> SentRecords] /\ recvBuff \in SentRecords
  /\ queue \in Seq(SentRecords) /\ injected \in Seq(SentRecords)
  /\ pushed \in Seq(SentRecords) /\ batch \in [Threads -> Seq(SentRecords)]

\* What a thread has at a certain point: a record that is not complete has no
\* last byte, and only a thread that is about to inject has a batch.
Points ==
  \A n \in Threads :
    /\ rx[n] = "recv" => rgot[n] = 0 /\ rbuf[n] = NoBytes
    /\ rx[n] = "rest" => rgot[n] \in 0 .. RecordSize - 1 /\ rbuf[n][RecordSize] = Junk
    /\ ox[n] # "inject" => batch[n] = <<>>

\* The rest of a sequence, and its beginning.
LEMMA Rest ==
  ASSUME NEW S, NEW s \in Seq(S), NEW k \in 0 .. Len(s)
  PROVE  /\ SubSeq(s, k + 1, Len(s)) \in Seq(S)
         /\ Len(SubSeq(s, k + 1, Len(s))) = Len(s) - k
         /\ \A i \in 1 .. Len(s) - k : SubSeq(s, k + 1, Len(s))[i] = s[k + i]
         /\ SubSeq(s, 1, k) \in Seq(S) /\ Len(SubSeq(s, 1, k)) = k
         /\ \A i \in 1 .. k : SubSeq(s, 1, k)[i] = s[i]
OBVIOUS

\* Two sequences, one behind the other.
LEMMA Joined ==
  ASSUME NEW S, NEW s \in Seq(S), NEW u \in Seq(S)
  PROVE  /\ s \o u \in Seq(S) /\ Len(s \o u) = Len(s) + Len(u)
         /\ \A i \in 1 .. Len(s) : (s \o u)[i] = s[i]
         /\ \A i \in 1 .. Len(u) : (s \o u)[Len(s) + i] = u[i]
         /\ \A i \in 1 .. Len(s) + Len(u) :
              (s \o u)[i] = IF i <= Len(s) THEN s[i] ELSE u[i - Len(s)]
OBVIOUS

\* What is at one of its places.
LEMMA Element ==
  ASSUME NEW S, NEW s \in Seq(S), NEW i \in 1 .. Len(s)
  PROVE  s[i] \in S
OBVIOUS

\* A sequence with one more element.
LEMMA OneMore ==
  ASSUME NEW S, NEW s \in Seq(S), NEW e \in S
  PROVE  /\ Append(s, e) \in Seq(S) /\ Len(Append(s, e)) = Len(s) + 1
         /\ \A i \in 1 .. Len(s) : Append(s, e)[i] = s[i]
         /\ Append(s, e)[Len(s) + 1] = e
OBVIOUS

\* A sequence over a set is one over a larger set.
LEMMA Wider ==
  ASSUME NEW S, NEW T, S \subseteq T
  PROVE  Seq(S) \subseteq Seq(T)
OBVIOUS

\* A socket from which a recv returns bytes is one of the handles.
LEMMA Receives ==
  ASSUME Shape, Typed, NEW n \in Threads, Receive(n)
  PROVE  \E h \in Handles, k \in Nat \ {0} :
           /\ h = rsock[n] /\ rx[n] \in {"recv", "rest"} /\ wire[h] # <<>>
           /\ wire[h] \in Seq(1 .. sent)
           /\ k <= RecordSize - rgot[n] /\ k <= Len(wire[h])
           /\ rgot[n] \in -1 .. RecordSize
           /\ rbuf' = [rbuf EXCEPT ![n] = [i \in 1 .. RecordSize |->
                         IF i \in rgot[n] + 1 .. rgot[n] + k THEN wire[h][i - rgot[n]]
                         ELSE rbuf[n][i]]]
           /\ wire' = [wire EXCEPT ![h] = SubSeq(wire[h], k + 1, Len(wire[h]))]
           /\ rgot' = [rgot EXCEPT ![n] = rgot[n] + k]
           /\ rx' = [rx EXCEPT ![n] = IF rgot[n] + k = RecordSize THEN "store" ELSE "rest"]
<1>1. rsock[n] \in Handles
  BY DEF Receive, Shape
<1>2. PICK k \in 1 .. RecordSize - rgot[n] :
       /\ k <= Len(wire[rsock[n]])
       /\ rbuf' = [rbuf EXCEPT ![n] = [i \in 1 .. RecordSize |->
                     IF i \in rgot[n] + 1 .. rgot[n] + k THEN wire[rsock[n]][i - rgot[n]]
                     ELSE @[i]]]
       /\ wire' = [wire EXCEPT ![rsock[n]] = SubSeq(@, k + 1, Len(@))]
       /\ rgot' = [rgot EXCEPT ![n] = @ + k]
       /\ rx' = [rx EXCEPT ![n] = IF rgot[n] + k = RecordSize THEN "store"
                                  ELSE "rest"]
  BY DEF Receive
<1>3. rgot[n] \in -1 .. RecordSize /\ RecordSize \in Nat
  BY RemoteClientAssumption DEF Typed
<1>4. k \in Nat \ {0} /\ k <= RecordSize - rgot[n]
  BY <1>2, <1>3
<1>5. wire[rsock[n]] \in Seq(1 .. sent)
  BY <1>1 DEF Typed
<1>6. rx[n] \in {"recv", "rest"} /\ wire[rsock[n]] # <<>>
  BY DEF Receive
<1> QED
  BY <1>1, <1>2, <1>3, <1>4, <1>5, <1>6

\* The steps that touch no byte, no batch and none of the counters.
Quiet ==
  UNCHANGED <<wire, sent, rgot, rbuf, recvBuff, queue, batch, injected, pushed, base>>

LEMMA QuietSteps ==
  ASSUME \/ ClickConnect \/ ConnectFails \/ Started \/ ClickServer \/ ClickClient
         \/ \E n \in Threads : ReceiveTests(n) \/ ReceiveFails(n)
         \/ \E n \in Threads : GiveUp(n) \/ PostDisconnect(n)
         \/ \E n \in Threads : OutputTests(n) \/ OutputWaits(n) \/ SpuriousWake(n)
         \/ UNCHANGED vars
  PROVE  Quiet
<1> USE DEF Quiet, window, sockets, receivers, outputs
<1>1. CASE ClickConnect \/ ConnectFails \/ Started \/ ClickServer \/ ClickClient
  BY <1>1 DEF ClickConnect, ConnectFails, Started, ClickServer, ClickClient
<1>2. CASE \E n \in Threads : ReceiveTests(n) \/ ReceiveFails(n)
  BY <1>2 DEF ReceiveTests, ReceiveFails
<1>3. CASE \E n \in Threads : GiveUp(n) \/ PostDisconnect(n)
  BY <1>3 DEF GiveUp, PostDisconnect
<1>4. CASE \E n \in Threads : OutputTests(n) \/ OutputWaits(n) \/ SpuriousWake(n)
  BY <1>4 DEF OutputTests, OutputWaits, SpuriousWake
<1>5. CASE UNCHANGED vars
  BY <1>5 DEF vars
<1> QED BY <1>1, <1>2, <1>3, <1>4, <1>5

\* A thread has bytes, and the window its controls.
Controls ==
  /\ enabled \subseteq {"connect", "disconnect", "mode"}
  /\ mode \in {"client", "server"} /\ cut \in BOOLEAN
  /\ connects \in 0 .. MaxConnections /\ (ui # "idle" => connects > 0)

LEMMA ControlsStep ==
  ASSUME Controls, [Next]_vars
  PROVE  Controls'
<1> USE DEF Controls, window, sockets, receivers, outputs
<1>1. CASE ClickConnect
  <2>1. connects' \in 0 .. MaxConnections /\ connects' > 0
    BY <1>1, RemoteClientAssumption DEF ClickConnect
  <2> QED BY <1>1, <2>1 DEF ClickConnect
<1>2. CASE ConnectFails \/ Connected \/ Started
  BY <1>2 DEF ConnectFails, Connected, Started
<1>3. CASE HandleDisconnect \/ ClickDisconnect
  BY <1>3 DEF HandleDisconnect, ClickDisconnect, Disconnect
<1>4. CASE ClickServer \/ ClickClient
  BY <1>4 DEF ClickServer, ClickClient
<1>5. CASE \E h \in Handles : ServerSends(h) \/ ServerCloses(h)
  BY <1>5 DEF ServerSends, ServerCloses
<1>6. CASE \E n \in Threads :
              \/ ReceiveTests(n) \/ CallReceive(n) \/ Receive(n)
              \/ ReceiveFails(n) \/ RestFails(n)
  BY <1>6 DEF ReceiveTests, CallReceive, Receive, ReceiveFails, RestFails
<1>7. CASE \E n \in Threads : Store(n) \/ Push(n) \/ GiveUp(n) \/ PostDisconnect(n)
  BY <1>7 DEF Store, Push, GiveUp, PostDisconnect
<1>8. CASE \E n \in Threads :
              \/ OutputTests(n) \/ OutputWaits(n) \/ OutputTakes(n) \/ Inject(n)
              \/ SpuriousWake(n)
  BY <1>8 DEF OutputTests, OutputWaits, OutputTakes, Inject, SpuriousWake
<1>9. CASE UNCHANGED vars
  BY <1>9 DEF vars
<1> QED
  BY <1>1, <1>2, <1>3, <1>4, <1>5, <1>6, <1>7, <1>8, <1>9, Steps

LEMMA TypedStep ==
  ASSUME Shape, Typed, Points, [Next]_vars
  PROVE  Typed'
<1>0. Controls'
  BY ControlsStep DEF Controls, Typed
<1> USE DEF window, sockets, receivers, outputs
<1>1. ASSUME Quiet PROVE Typed'
  BY <1>0, <1>1 DEF Quiet, Typed, SentRecords, Controls
<1>2. CASE Connected
  BY <1>0, <1>2 DEF Connected, Typed, SentRecords, Controls
<1>3. CASE HandleDisconnect \/ ClickDisconnect
  <2>1. wire' \in [Handles -> Seq(1 .. sent)]
    <3>1. <<>> \in Seq(1 .. sent)
      OBVIOUS
    <3>2. wire' = [h \in Handles |-> IF h = sktServer THEN <<>> ELSE wire[h]]
      BY <1>3 DEF HandleDisconnect, ClickDisconnect, Disconnect
    <3> QED BY <3>1, <3>2 DEF Typed
  <2>2. UNCHANGED <<sent, rgot, rbuf, recvBuff, queue, batch, injected, pushed, base>>
    BY <1>3 DEF HandleDisconnect, ClickDisconnect
  <2> QED BY <1>0, <2>1, <2>2 DEF Typed, SentRecords, Controls
<1>4. ASSUME NEW h \in Handles, ServerSends(h) PROVE Typed'
  <2>1. sent' = sent + 1 /\ sent' \in 0 .. MaxSent /\ sent \in Nat
    BY <1>4, RemoteClientAssumption DEF ServerSends, Typed
  <2>2. 1 .. sent \subseteq 1 .. sent' /\ SentRecords \subseteq SentRecords'
    BY <2>1 DEF SentRecords
  <2>3. Seq(1 .. sent) \subseteq Seq(1 .. sent') /\ Seq(SentRecords) \subseteq Seq(SentRecords')
    BY <2>2, Wider
  <2>4. wire' \in [Handles -> Seq(1 .. sent')]
    <3>1. PICK k \in 1 .. RecordSize :
            wire' = [wire EXCEPT ![h] = @ \o SubSeq(Record(sent + 1), 1, k)]
      BY <1>4 DEF ServerSends
    <3>2. Record(sent + 1) \in Seq(1 .. sent') /\ Len(Record(sent + 1)) = RecordSize
      BY <2>1, RemoteClientAssumption DEF Record
    <3>3. SubSeq(Record(sent + 1), 1, k) \in Seq(1 .. sent')
      <4>1. k \in 0 .. Len(Record(sent + 1))
        BY <3>1, <3>2, RemoteClientAssumption
      <4> QED BY <3>2, <4>1, Rest
    <3>4. wire \in [Handles -> Seq(1 .. sent')]
      BY <2>3 DEF Typed
    <3>5. wire[h] \o SubSeq(Record(sent + 1), 1, k) \in Seq(1 .. sent')
      BY <3>3, <3>4, Joined
    <3> QED BY <3>1, <3>4, <3>5
  <2>5. UNCHANGED <<rgot, rbuf, recvBuff, queue, batch, injected, pushed, base>>
    BY <1>4 DEF ServerSends
  <2>6. /\ rbuf \in [Threads -> SentRecords'] /\ recvBuff \in SentRecords'
        /\ queue \in Seq(SentRecords') /\ injected \in Seq(SentRecords')
        /\ pushed \in Seq(SentRecords') /\ batch \in [Threads -> Seq(SentRecords')]
    BY <2>2, <2>3 DEF Typed
  <2>7. base \in 0 .. sent'
    BY <2>1 DEF Typed
  <2> QED BY <1>0, <2>1, <2>4, <2>5, <2>6, <2>7 DEF Typed, Controls
<1>5. CASE \E h \in Handles : ServerCloses(h)
  <2>1. wire' \in [Handles -> Seq(1 .. sent)]
    <3>1. <<>> \in Seq(1 .. sent)
      OBVIOUS
    <3>2. wire \in [Handles -> Seq(1 .. sent)]
      BY DEF Typed
    <3>3. \/ UNCHANGED wire \/ \E h \in Handles : wire' = [wire EXCEPT ![h] = <<>>]
      BY <1>5 DEF ServerCloses
    <3> QED BY <3>1, <3>2, <3>3
  <2>2. UNCHANGED <<sent, rgot, rbuf, recvBuff, queue, batch, injected, pushed, base>>
    BY <1>5 DEF ServerCloses
  <2> QED BY <1>0, <2>1, <2>2 DEF Typed, SentRecords, Controls
<1>6. ASSUME NEW n \in Threads, CallReceive(n) PROVE Typed'
  <2>1. NoBytes \in SentRecords
    BY DEF NoBytes, SentRecords
  <2>2. rbuf' \in [Threads -> SentRecords] /\ rgot' \in [Threads -> -1 .. RecordSize]
    BY <1>6, <2>1, RemoteClientAssumption DEF CallReceive, Typed
  <2>3. UNCHANGED <<wire, sent, recvBuff, queue, batch, injected, pushed, base>>
    BY <1>6 DEF CallReceive
  <2> QED BY <1>0, <2>2, <2>3 DEF Typed, SentRecords, Controls
<1>7. ASSUME NEW n \in Threads, Receive(n) PROVE Typed'
  <2>1. PICK h \in Handles, k \in Nat \ {0} :
           /\ wire[h] \in Seq(1 .. sent)
           /\ k <= RecordSize - rgot[n] /\ k <= Len(wire[h])
           /\ rgot[n] \in -1 .. RecordSize
           /\ rbuf' = [rbuf EXCEPT ![n] = [i \in 1 .. RecordSize |->
                         IF i \in rgot[n] + 1 .. rgot[n] + k THEN wire[h][i - rgot[n]]
                         ELSE rbuf[n][i]]]
           /\ wire' = [wire EXCEPT ![h] = SubSeq(wire[h], k + 1, Len(wire[h]))]
           /\ rgot' = [rgot EXCEPT ![n] = rgot[n] + k]
    BY <1>7, Receives
  <2>2. wire' \in [Handles -> Seq(1 .. sent)]
    <3>1. k \in 0 .. Len(wire[h])
      BY <2>1
    <3>2. SubSeq(wire[h], k + 1, Len(wire[h])) \in Seq(1 .. sent)
      BY <2>1, <3>1, Rest
    <3> QED BY <2>1, <3>2 DEF Typed
  <2>3. rgot' \in [Threads -> -1 .. RecordSize]
    <3>1. rgot[n] + k \in -1 .. RecordSize
      BY <2>1, RemoteClientAssumption
    <3> QED BY <2>1, <3>1 DEF Typed
  <2>4. rbuf' \in [Threads -> SentRecords]
    <3>1. \A i \in rgot[n] + 1 .. rgot[n] + k : wire[h][i - rgot[n]] \in 1 .. sent
      <4> SUFFICES ASSUME NEW i \in rgot[n] + 1 .. rgot[n] + k
                   PROVE  wire[h][i - rgot[n]] \in 1 .. sent
        OBVIOUS
      <4>1. i - rgot[n] \in 1 .. Len(wire[h])
        BY <2>1
      <4> QED BY <2>1, <4>1, Element
    <3>2. rbuf[n] \in SentRecords
      BY DEF Typed
    <3>3. [i \in 1 .. RecordSize |->
             IF i \in rgot[n] + 1 .. rgot[n] + k THEN wire[h][i - rgot[n]]
             ELSE rbuf[n][i]] \in SentRecords
      BY <3>1, <3>2 DEF SentRecords
    <3> QED BY <2>1, <3>3 DEF Typed
  <2>5. UNCHANGED <<sent, recvBuff, queue, batch, injected, pushed, base>>
    BY <1>7 DEF Receive
  <2> QED BY <1>0, <2>2, <2>3, <2>4, <2>5 DEF Typed, SentRecords, Controls
<1>8. ASSUME NEW n \in Threads, RestFails(n) PROVE Typed'
  <2>1. rgot' \in [Threads -> -1 .. RecordSize]
    <3>1. rgot[n] - 1 \in -1 .. RecordSize
      BY <1>8, RemoteClientAssumption DEF RestFails, Points
    <3> QED BY <1>8, <3>1 DEF RestFails, Typed
  <2>2. UNCHANGED <<wire, sent, rbuf, recvBuff, queue, batch, injected, pushed, base>>
    BY <1>8 DEF RestFails
  <2> QED BY <1>0, <2>1, <2>2 DEF Typed, SentRecords, Controls
<1>9. ASSUME NEW n \in Threads, Store(n) PROVE Typed'
  <2>1. recvBuff' \in SentRecords
    BY <1>9 DEF Store, Typed
  <2>2. UNCHANGED <<wire, sent, rgot, rbuf, queue, batch, injected, pushed, base>>
    BY <1>9 DEF Store
  <2> QED BY <1>0, <2>1, <2>2 DEF Typed, SentRecords, Controls
<1>10. ASSUME NEW n \in Threads, Push(n) PROVE Typed'
  <2>1. queue' \in Seq(SentRecords) /\ pushed' \in Seq(SentRecords)
    BY <1>10, OneMore DEF Push, Typed
  <2>2. UNCHANGED <<wire, sent, rgot, rbuf, recvBuff, batch, injected, base>>
    BY <1>10 DEF Push
  <2> QED BY <1>0, <2>1, <2>2 DEF Typed, SentRecords, Controls
<1>11. ASSUME NEW n \in Threads, OutputTakes(n) PROVE Typed'
  <2>1. queue' \in Seq(SentRecords) /\ batch' \in [Threads -> Seq(SentRecords)]
    BY <1>11 DEF OutputTakes, Typed
  <2>2. UNCHANGED <<wire, sent, rgot, rbuf, recvBuff, injected, pushed, base>>
    BY <1>11 DEF OutputTakes
  <2> QED BY <1>0, <2>1, <2>2 DEF Typed, SentRecords, Controls
<1>12. ASSUME NEW n \in Threads, Inject(n) PROVE Typed'
  <2>1. injected' \in Seq(SentRecords)
    BY <1>12, Joined DEF Inject, Typed
  <2>2. batch' \in [Threads -> Seq(SentRecords)]
    BY <1>12 DEF Inject, Typed
  <2>3. UNCHANGED <<wire, sent, rgot, rbuf, recvBuff, queue, pushed, base>>
    BY <1>12 DEF Inject
  <2> QED BY <1>0, <2>1, <2>2, <2>3 DEF Typed, SentRecords, Controls
<1> QED
  BY <1>1, <1>2, <1>3, <1>4, <1>5, <1>6, <1>7, <1>8, <1>9, <1>10, <1>11, <1>12, Steps,
     QuietSteps

\* A byte that a recv did not return is what it was.
LEMMA NotYet ==
  ASSUME Shape, Typed, Points, NEW n \in Threads, Receive(n), rx'[n] = "rest"
  PROVE  rgot'[n] \in 0 .. RecordSize - 1 /\ rbuf'[n][RecordSize] = Junk
<1>1. PICK h \in Handles, k \in Nat \ {0} :
           /\ rx[n] \in {"recv", "rest"}
           /\ k <= RecordSize - rgot[n]
           /\ rbuf' = [rbuf EXCEPT ![n] = [i \in 1 .. RecordSize |->
                         IF i \in rgot[n] + 1 .. rgot[n] + k THEN wire[h][i - rgot[n]]
                         ELSE rbuf[n][i]]]
           /\ rgot' = [rgot EXCEPT ![n] = rgot[n] + k]
           /\ rx' = [rx EXCEPT ![n] = IF rgot[n] + k = RecordSize THEN "store" ELSE "rest"]
  BY Receives
<1>2. RecordSize \in Nat \ {0} /\ RecordSize \in 1 .. RecordSize
  BY RemoteClientAssumption
<1>3. rgot[n] \in 0 .. RecordSize - 1 /\ rbuf[n][RecordSize] = Junk
  BY <1>1, <1>2 DEF Points, NoBytes
<1>4. rgot[n] + k # RecordSize
  BY <1>1 DEF Shape
<1>5. rgot[n] + k \in 0 .. RecordSize - 1
  BY <1>1, <1>2, <1>3, <1>4
<1>6. RecordSize \notin rgot[n] + 1 .. rgot[n] + k
  BY <1>2, <1>3, <1>5
<1>7. rbuf'[n][RecordSize] = rbuf[n][RecordSize]
  BY <1>1, <1>2, <1>6 DEF Typed
<1> QED BY <1>1, <1>3, <1>5, <1>7 DEF Typed

\* The threads of a connection start when it is there.
Unborn ==
  \A n \in Threads :
    n > connects \/ (n = connects /\ ui # "idle") => rx[n] = "none" /\ ox[n] = "none"

LEMMA UnbornStep ==
  ASSUME Shape, Controls, Unborn, [Next]_vars
  PROVE  Unborn'
<1> USE DEF window, sockets, receivers, outputs
<1>0. connects \in Nat /\ \A n \in Threads : n \in Nat
  BY RemoteClientAssumption DEF Controls, Threads
<1>1. CASE ClickConnect
  BY <1>0, <1>1 DEF ClickConnect, Idle, Unborn
<1>2. CASE ConnectFails \/ Connected
  BY <1>0, <1>2 DEF ConnectFails, Connected, Unborn
<1>3. CASE Started
  BY <1>0, <1>3 DEF Started, Unborn, Shape
<1>4. CASE HandleDisconnect \/ ClickDisconnect
  BY <1>4 DEF HandleDisconnect, ClickDisconnect, Disconnect, Woken, Unborn
<1>5. CASE ClickServer \/ ClickClient
  BY <1>5 DEF ClickServer, ClickClient, Unborn
<1>6. CASE \E h \in Handles : ServerSends(h) \/ ServerCloses(h)
  BY <1>6 DEF ServerSends, ServerCloses, Unborn
<1>7. CASE \E n \in Threads :
              ReceiveTests(n) \/ CallReceive(n) \/ Receive(n) \/ ReceiveFails(n)
  BY <1>7 DEF ReceiveTests, CallReceive, Receive, ReceiveFails, Unborn, Shape
<1>8. CASE \E n \in Threads : RestFails(n) \/ Store(n) \/ GiveUp(n) \/ PostDisconnect(n)
  BY <1>8 DEF RestFails, Store, GiveUp, PostDisconnect, Unborn, Shape
<1>9. CASE \E n \in Threads : Push(n)
  BY <1>9 DEF Push, Woken, Unborn, Shape
<1>10. CASE \E n \in Threads :
              \/ OutputTests(n) \/ OutputWaits(n) \/ OutputTakes(n) \/ Inject(n)
              \/ SpuriousWake(n)
  BY <1>10 DEF OutputTests, OutputWaits, OutputTakes, Inject, SpuriousWake, Unborn, Shape
<1>11. CASE UNCHANGED vars
  BY <1>11 DEF vars, Unborn
<1> QED
  BY <1>1, <1>2, <1>3, <1>4, <1>5, <1>6, <1>7, <1>8, <1>9, <1>10, <1>11, Steps

LEMMA PointsStep ==
  ASSUME Shape, Typed, Points, Unborn, [Next]_vars
  PROVE  Points'
<1> USE DEF window, sockets, receivers, outputs
<1>1. CASE ClickConnect \/ ConnectFails \/ Connected \/ ClickServer \/ ClickClient
  BY <1>1 DEF ClickConnect, ConnectFails, Connected, ClickServer, ClickClient, Points,
              NoBytes
<1>2. CASE Started
  <2>1. batch[connects] = <<>> \/ connects \notin Threads
    BY <1>2 DEF Started, Unborn, Points
  <2> QED BY <1>2, <2>1 DEF Started, Points, NoBytes, Shape
<1>3. CASE HandleDisconnect \/ ClickDisconnect \/ \E n \in Threads : Push(n)
  <2>1. ox' = Woken /\ UNCHANGED <<rgot, rbuf, batch>>
    BY <1>3 DEF HandleDisconnect, ClickDisconnect, Disconnect, Push
  <2>2. \A n \in Threads : rx'[n] = rx[n] \/ rx'[n] = "test"
    BY <1>3 DEF HandleDisconnect, ClickDisconnect, Push, Shape
  <2>3. \A n \in Threads : ox'[n] = "inject" <=> ox[n] = "inject"
    BY <2>1 DEF Woken
  <2> QED BY <2>1, <2>2, <2>3 DEF Points, NoBytes
<1>4. CASE \E h \in Handles : ServerSends(h) \/ ServerCloses(h)
  BY <1>4, ZenonT(60) DEF ServerSends, ServerCloses, Points, NoBytes
<1>5. CASE \E n \in Threads : ReceiveTests(n) \/ ReceiveFails(n)
  BY <1>5, ZenonT(60) DEF ReceiveTests, ReceiveFails, Points, NoBytes, Shape
<1>6. CASE \E n \in Threads : CallReceive(n)
  BY <1>6 DEF CallReceive, Points, NoBytes, Shape, Typed
<1>7. ASSUME NEW n \in Threads, Receive(n) PROVE Points'
  <2>1. rx'[n] = "rest" => rgot'[n] \in 0 .. RecordSize - 1 /\ rbuf'[n][RecordSize] = Junk
    BY <1>7, NotYet
  <2>2. rx'[n] \in {"rest", "store"}
    BY <1>7 DEF Receive, Shape
  <2>3. UNCHANGED <<ox, batch>>
    BY <1>7 DEF Receive
  <2>4. \A m \in Threads \ {n} : rx'[m] = rx[m] /\ rgot'[m] = rgot[m] /\ rbuf'[m] = rbuf[m]
    BY <1>7, Receives DEF Shape, Typed
  <2> QED BY <2>1, <2>2, <2>3, <2>4 DEF Points, NoBytes
<1>8. ASSUME NEW n \in Threads, RestFails(n) PROVE Points'
  <2>1. rgot[n] \in 0 .. RecordSize - 1
    BY <1>8 DEF RestFails, Points
  <2>2. rgot[n] # 0 => rgot[n] - 1 \in 0 .. RecordSize - 1
    BY <2>1, RemoteClientAssumption
  <2>3. /\ rx'[n] = IF rgot[n] = 0 THEN "store" ELSE "rest"
        /\ rgot'[n] = rgot[n] - 1
    BY <1>8 DEF RestFails, Shape, Typed
  <2>4. rx'[n] = "rest" => rgot'[n] \in 0 .. RecordSize - 1
    BY <2>2, <2>3
  <2>5. UNCHANGED <<rbuf, ox, batch>> /\ rx[n] = "rest"
    BY <1>8 DEF RestFails
  <2>6. \A m \in Threads \ {n} : rx'[m] = rx[m] /\ rgot'[m] = rgot[m]
    BY <1>8 DEF RestFails, Shape, Typed
  <2> QED BY <2>3, <2>4, <2>5, <2>6 DEF Points, NoBytes
<1>9. CASE \E n \in Threads : Store(n) \/ GiveUp(n) \/ PostDisconnect(n)
  <2>1. \A n \in Threads : rx'[n] = rx[n] \/ rx'[n] \in {"push", "post", "test"}
    BY <1>9 DEF Store, GiveUp, PostDisconnect, Shape
  <2>2. UNCHANGED <<rgot, rbuf, ox, batch>>
    BY <1>9 DEF Store, GiveUp, PostDisconnect
  <2> QED BY <2>1, <2>2 DEF Points, NoBytes
<1>10. CASE \E n \in Threads : OutputTests(n) \/ OutputWaits(n) \/ SpuriousWake(n)
  BY <1>10, ZenonT(60) DEF OutputTests, OutputWaits, SpuriousWake, Points, NoBytes, Shape
<1>11. ASSUME NEW n \in Threads, OutputTakes(n) \/ Inject(n) PROVE Points'
  <2>1. ox'[n] = "inject" \/ batch'[n] = <<>>
    BY <1>11 DEF OutputTakes, Inject, Shape, Typed
  <2>2. \A m \in Threads \ {n} : ox'[m] = ox[m] /\ batch'[m] = batch[m]
    BY <1>11 DEF OutputTakes, Inject, Shape, Typed
  <2>3. UNCHANGED receivers
    BY <1>11 DEF OutputTakes, Inject
  <2> QED BY <2>1, <2>2, <2>3 DEF Points, NoBytes
<1>12. CASE UNCHANGED vars
  BY <1>12 DEF vars, Points, NoBytes
<1> QED
  BY <1>1, <1>2, <1>3, <1>4, <1>5, <1>6, <1>7, <1>8, <1>9, <1>10, <1>11, <1>12, Steps

-----------------------------------------------------------------------------
(* How many messages there can be in the queue of the window: a thread     *)
(* posts one when it has given up, and only a connection that is up sets a *)
(* thread to work.                                                         *)

Working == {n \in Threads :
              rx[n] \in {"call", "recv", "rest", "store", "push", "failed", "post"}}
Posting == {n \in Threads : rx[n] = "post"}

FewPosted ==
  /\ posted + Cardinality(Working) <= 2 * MaxConnections
  /\ ui = "connecting" =>
       posted + MaxConnections + Cardinality(Working) <= 2 * MaxConnections
  /\ isConnected =>
       posted + MaxConnections + Cardinality(Posting) <= 2 * MaxConnections

\* A set of threads, and one that has one of them less.
LEMMA SomeThreads ==
  ASSUME NEW A, NEW B, A \subseteq B, B \subseteq Threads
  PROVE  /\ IsFiniteSet(B) /\ Cardinality(A) \in Nat /\ Cardinality(B) \in Nat
         /\ Cardinality(A) <= Cardinality(B) /\ Cardinality(B) <= MaxConnections
         /\ \A n \in B : n \notin A => Cardinality(A) + 1 <= Cardinality(B)
<1>1. IsFiniteSet(Threads) /\ Cardinality(Threads) = MaxConnections
  BY RemoteClientAssumption, FS_Interval DEF Threads
<1>2. /\ IsFiniteSet(B) /\ Cardinality(B) \in Nat /\ Cardinality(B) <= MaxConnections
  BY <1>1, FS_Subset, FS_CardinalityType
<1>3. /\ IsFiniteSet(A) /\ Cardinality(A) \in Nat /\ Cardinality(A) <= Cardinality(B)
  BY <1>2, FS_Subset, FS_CardinalityType
<1>4. ASSUME NEW n \in B, n \notin A PROVE Cardinality(A) + 1 <= Cardinality(B)
  <2>1. IsFiniteSet(B \ {n}) /\ Cardinality(B \ {n}) = Cardinality(B) - 1
    BY <1>2, FS_RemoveElement
  <2>2. A \subseteq B \ {n}
    BY <1>4
  <2>3. Cardinality(A) <= Cardinality(B \ {n})
    BY <2>1, <2>2, FS_Subset
  <2> QED BY <1>2, <1>3, <2>1, <2>3
<1> QED BY <1>2, <1>3, <1>4

\* No step that leaves the number of messages alone, and sets no thread to
\* work or to post, can make too many of them.
LEMMA NoMore ==
  ASSUME Shape, FewPosted, Shape', Working' \subseteq Working, posted' \in 0 .. posted,
         Posting' \subseteq Posting \/ ~isConnected',
         ui' = "connecting" => ui = "connecting", isConnected' => isConnected
  PROVE  FewPosted'
<1>1. Working \subseteq Threads /\ Posting \subseteq Threads /\ MaxConnections \in Nat
  BY RemoteClientAssumption DEF Working, Posting
<1>2. /\ Cardinality(Working) \in Nat /\ Cardinality(Working') \in Nat
      /\ Cardinality(Working') <= Cardinality(Working)
  BY <1>1, SomeThreads
<1>3. ~isConnected' \/ /\ Cardinality(Posting) \in Nat /\ Cardinality(Posting') \in Nat
                       /\ Cardinality(Posting') <= Cardinality(Posting)
  BY <1>1, SomeThreads
<1>4. posted \in Nat /\ posted' \in Nat /\ posted' <= posted
  BY DEF Shape
<1>5. posted' + Cardinality(Working') <= 2 * MaxConnections
  BY <1>1, <1>2, <1>4 DEF FewPosted
<1>6. ui' = "connecting" =>
        posted' + MaxConnections + Cardinality(Working') <= 2 * MaxConnections
  BY <1>1, <1>2, <1>4 DEF FewPosted
<1>7. isConnected' =>
        posted' + MaxConnections + Cardinality(Posting') <= 2 * MaxConnections
  BY <1>1, <1>3, <1>4 DEF FewPosted
<1> QED BY <1>5, <1>6, <1>7 DEF FewPosted

LEMMA FewPostedStep ==
  ASSUME Shape, Buttons, Unborn, FewPosted, Shape', [Next]_vars
  PROVE  FewPosted'
<1> USE DEF window, sockets, receivers, outputs
<1>0. /\ Working \subseteq Threads /\ Posting \subseteq Working /\ MaxConnections \in Nat
      /\ Working' \subseteq Threads /\ Posting' \subseteq Working' /\ posted \in Nat
  BY RemoteClientAssumption DEF Working, Posting, Shape
<1>a. /\ Cardinality(Working) \in Nat /\ Cardinality(Posting) \in Nat
      /\ Cardinality(Posting) <= Cardinality(Working)
      /\ Cardinality(Working) <= MaxConnections
  BY <1>0, SomeThreads
<1>b. /\ Cardinality(Working') \in Nat /\ Cardinality(Posting') \in Nat
      /\ Cardinality(Posting') <= Cardinality(Working')
      /\ Cardinality(Working') <= MaxConnections
  BY <1>0, SomeThreads
<1>1. CASE ClickConnect
  <2>1. posted' = 0 /\ posted = 0 /\ UNCHANGED <<isConnected, rx>>
    BY <1>1 DEF ClickConnect, Idle
  <2>2. Working' = Working /\ Posting' = Posting
    BY <2>1 DEF Working, Posting
  <2> QED BY <1>0, <1>a, <2>1, <2>2 DEF FewPosted
<1>2. CASE ConnectFails \/ ClickServer \/ ClickClient
  <2>1. UNCHANGED <<posted, isConnected, rx>> /\ (ui' = "connecting" => ui = "connecting")
    BY <1>2 DEF ConnectFails, ClickServer, ClickClient
  <2>2. Working' \subseteq Working /\ Posting' \subseteq Posting
    BY <2>1 DEF Working, Posting
  <2>3. posted' \in 0 .. posted /\ (isConnected' => isConnected)
    BY <1>0, <2>1
  <2> QED BY <2>1, <2>2, <2>3, NoMore
<1>3. CASE Connected
  <2>1. UNCHANGED <<posted, rx>> /\ ui = "connecting" /\ ui' = "connected"
    BY <1>3 DEF Connected
  <2>2. Working' = Working /\ Posting' = Posting
    BY <2>1 DEF Working, Posting
  <2> QED BY <1>0, <1>a, <2>1, <2>2 DEF FewPosted
<1>4. CASE Started
  <2>1. UNCHANGED <<posted, isConnected>> /\ ui' = "idle"
    BY <1>4 DEF Started
  <2>2. Working' \subseteq Working /\ Posting' \subseteq Posting
    BY <1>4 DEF Started, Working, Posting, Shape
  <2>3. posted' \in 0 .. posted
    BY <1>0, <2>1
  <2> QED BY <2>1, <2>2, <2>3, NoMore
<1>5. CASE HandleDisconnect \/ ClickDisconnect
  <2>1. posted' \in 0 .. posted /\ ~isConnected' /\ UNCHANGED <<ui, rx>>
    BY <1>0, <1>5 DEF HandleDisconnect, ClickDisconnect, Disconnect
  <2>2. Working' \subseteq Working
    BY <2>1 DEF Working
  <2> QED BY <2>1, <2>2, NoMore
<1>6. CASE \E h \in Handles : ServerSends(h) \/ ServerCloses(h)
  <2>1. UNCHANGED <<ui, posted, isConnected, rx>>
    BY <1>6 DEF ServerSends, ServerCloses
  <2>2. Working' = Working /\ Posting' = Posting
    BY <2>1 DEF Working, Posting
  <2> QED BY <2>1, <2>2 DEF FewPosted
<1>7. ASSUME NEW n \in Threads, ReceiveTests(n) PROVE FewPosted'
  <2>1. UNCHANGED <<ui, posted, isConnected>>
    BY <1>7 DEF ReceiveTests
  <2>2. CASE ~isConnected
    <3>1. Working' \subseteq Working
      BY <1>7, <2>2 DEF ReceiveTests, GoOn, Working, Shape
    <3>2. posted' \in 0 .. posted /\ ~isConnected'
      BY <1>0, <2>1, <2>2
    <3> QED BY <2>1, <3>1, <3>2, NoMore
  <2>3. CASE isConnected
    <3>1. Posting' = Posting
      BY <1>7 DEF ReceiveTests, Posting, Shape
    <3>2. ui # "connecting"
      BY <2>3 DEF Buttons
    <3>3. posted <= MaxConnections
      BY <1>0, <1>a, <2>3 DEF FewPosted
    <3> QED BY <1>0, <1>a, <1>b, <2>1, <2>3, <3>1, <3>2, <3>3 DEF FewPosted
  <2> QED BY <2>2, <2>3
<1>8. CASE \E n \in Threads :
              \/ CallReceive(n) \/ Receive(n) \/ ReceiveFails(n) \/ RestFails(n)
              \/ Store(n) \/ Push(n)
  <2>1. UNCHANGED <<ui, posted, isConnected>>
    BY <1>8 DEF CallReceive, Receive, ReceiveFails, RestFails, Store, Push
  <2>2. PICK n \in Threads :
          /\ rx[n] \in {"call", "recv", "rest", "store", "push"}
          /\ \E v \in RxStates \ {"post"} : rx' = [rx EXCEPT ![n] = v]
    BY <1>8 DEF CallReceive, Receive, ReceiveFails, RestFails, Store, Push, RxStates
  <2>3. Working' \subseteq Working /\ Posting' \subseteq Posting
    BY <2>2 DEF Working, Posting, Shape
  <2>4. posted' \in 0 .. posted
    BY <1>0, <2>1
  <2> QED BY <2>1, <2>3, <2>4, NoMore
<1>9. CASE \E n \in Threads : GiveUp(n)
  <2>1. UNCHANGED <<ui, posted>> /\ ~isConnected'
    BY <1>9 DEF GiveUp
  <2>2. Working' \subseteq Working
    BY <1>9 DEF GiveUp, Working, Shape
  <2>3. posted' \in 0 .. posted
    BY <1>0, <2>1
  <2> QED BY <2>1, <2>2, <2>3, NoMore
<1>10. ASSUME NEW n \in Threads, PostDisconnect(n) PROVE FewPosted'
  <2>1. posted' = posted + 1 /\ UNCHANGED <<ui, isConnected>>
    BY <1>10 DEF PostDisconnect
  <2>2. /\ Working' \subseteq Working /\ n \in Working /\ n \notin Working'
        /\ Posting' \subseteq Posting /\ n \in Posting /\ n \notin Posting'
    BY <1>10 DEF PostDisconnect, Working, Posting, Shape
  <2>3. /\ Cardinality(Working') + 1 <= Cardinality(Working)
        /\ Cardinality(Posting') + 1 <= Cardinality(Posting)
    BY <1>0, <2>2, SomeThreads
  <2> QED BY <1>0, <1>a, <1>b, <2>1, <2>3 DEF FewPosted
<1>11. CASE \/ \E n \in Threads :
                 \/ OutputTests(n) \/ OutputWaits(n) \/ OutputTakes(n) \/ Inject(n)
                 \/ SpuriousWake(n)
            \/ UNCHANGED vars
  <2>1. UNCHANGED <<ui, posted, isConnected, rx>>
    BY <1>11 DEF OutputTests, OutputWaits, OutputTakes, Inject, SpuriousWake, vars
  <2>2. Working' = Working /\ Posting' = Posting
    BY <2>1 DEF Working, Posting
  <2> QED BY <2>1, <2>2 DEF FewPosted
<1> QED
  BY <1>1, <1>2, <1>3, <1>4, <1>5, <1>6, <1>7, <1>8, <1>9, <1>10, <1>11, Steps

\* The types, with what they need.
TInv == IInv /\ Typed /\ Points /\ Unborn /\ FewPosted

LEMMA InitTInv == Init => TInv
<1> SUFFICES ASSUME Init PROVE TInv
  OBVIOUS
<1> USE DEF Init
<1>1. NoBytes \in SentRecords /\ <<>> \in Seq(SentRecords) /\ <<>> \in Seq(1 .. sent)
  BY DEF NoBytes, SentRecords
<1>2. Typed
  <2>1. MaxConnections \in Nat /\ RecordSize \in Nat /\ MaxSent \in Nat
    BY RemoteClientAssumption
  <2>2. rgot \in [Threads -> -1 .. RecordSize] /\ connects \in 0 .. MaxConnections
    BY <2>1
  <2>3. sent \in 0 .. MaxSent /\ base \in 0 .. sent
    BY <2>1
  <2>4. /\ wire \in [Handles -> Seq(1 .. sent)] /\ rbuf \in [Threads -> SentRecords]
        /\ batch \in [Threads -> Seq(SentRecords)]
    BY <1>1
  <2> QED BY <1>1, <2>2, <2>3, <2>4 DEF Typed
<1>3. Points /\ Unborn
  BY DEF Points, Unborn
<1>4. Working = {} /\ MaxConnections \in Nat
  BY RemoteClientAssumption DEF Working
<1>5. Cardinality(Working) = 0
  BY <1>4, FS_EmptySet
<1>6. FewPosted
  BY <1>4, <1>5 DEF FewPosted
<1> QED BY <1>2, <1>3, <1>6, InitIInv DEF TInv

LEMMA NextTInv == TInv /\ [Next]_vars => TInv'
<1> SUFFICES ASSUME TInv, [Next]_vars PROVE TInv'
  OBVIOUS
<1>1. IInv'
  BY NextIInv DEF TInv
<1>2. Typed' /\ Points'
  BY TypedStep, PointsStep DEF TInv, IInv
<1>3. Unborn'
  BY UnbornStep DEF TInv, IInv, Typed, Controls
<1>4. FewPosted'
  BY <1>1, FewPostedStep DEF TInv, IInv
<1> QED BY <1>1, <1>2, <1>3, <1>4 DEF TInv

LEMMA TypedAlways == Spec => []TInv
  BY InitTInv, NextTInv, PTL DEF Spec

\* Every variable keeps its type for any number of connections and records:
\* bytes_rec stays in the INPUT that is being received, or is the -1 that ends
\* the loop, and there are never more BTN_DISCONNECT messages than twice the
\* connections that there may be.
THEOREM TypesHold == Spec => []TypeOK
<1>1. TInv => TypeOK
  <2> SUFFICES ASSUME TInv PROVE TypeOK
    OBVIOUS
  <2>1. SentRecords \subseteq Records /\ 1 .. sent \subseteq 1 .. MaxSent
    BY RemoteClientAssumption DEF SentRecords, Records, Bytes, TInv, Typed
  <2>2. Seq(SentRecords) \subseteq Seq(Records) /\ Seq(1 .. sent) \subseteq Seq(1 .. MaxSent)
    BY <2>1, Wider
  <2>3. posted \in 0 .. 2 * MaxConnections
    <3>1. Cardinality(Working) \in Nat /\ MaxConnections \in Nat
      BY SomeThreads, RemoteClientAssumption DEF Working
    <3> QED BY <3>1 DEF TInv, FewPosted, IInv, Shape
  <2>4. \A n \in Threads : rgot[n] = -1 => rx[n] # "rest"
    BY RemoteClientAssumption DEF TInv, Points
  <2>5. /\ wire \in [Handles -> Seq(1 .. MaxSent)]
        /\ rbuf \in [Threads -> Records] /\ recvBuff \in Records
        /\ {queue, injected, pushed} \subseteq Seq(Records)
        /\ batch \in [Threads -> Seq(Records)]
    BY <2>1, <2>2 DEF TInv, Typed
  <2> QED BY <2>3, <2>4, <2>5 DEF TInv, IInv, Shape, RxStates, Typed, TypeOK
<1> QED BY <1>1, TypedAlways, PTL

-----------------------------------------------------------------------------
(* Where the records are: what a step moves from one sequence to another   *)
(* is there once as before.                                                *)

\* The places of a record in a sequence are finitely many.
LEMMA WhereFinite ==
  ASSUME NEW S, NEW s \in Seq(S), NEW r
  PROVE  /\ IsFiniteSet(Where(r, s)) /\ Occurrences(r, s) \in Nat
         /\ Where(r, s) \subseteq 1 .. Len(s)
<1>1. Where(r, s) \subseteq 1 .. Len(s)
  BY DEF Where
<1>2. IsFiniteSet(1 .. Len(s))
  BY FS_Interval
<1>3. IsFiniteSet(Where(r, s))
  BY <1>1, <1>2, FS_Subset
<1> QED BY <1>1, <1>3, FS_CardinalityType DEF Occurrences

\* None is in the empty sequence.
LEMMA NowhereInEmpty ==
  ASSUME NEW r
  PROVE  Occurrences(r, <<>>) = 0
<1>1. Where(r, <<>>) = {}
  BY DEF Where
<1> QED BY <1>1, FS_EmptySet DEF Occurrences

\* One more element is one more occurrence of it, and none of another one.
LEMMA OccurrencesAppend ==
  ASSUME NEW S, NEW s \in Seq(S), NEW e \in S, NEW r
  PROVE  Occurrences(r, Append(s, e)) = Occurrences(r, s) + (IF e = r THEN 1 ELSE 0)
<1>1. /\ DOMAIN Append(s, e) = 1 .. Len(s) + 1 /\ Len(s) \in Nat
      /\ \A i \in 1 .. Len(s) : Append(s, e)[i] = s[i]
      /\ Append(s, e)[Len(s) + 1] = e
  OBVIOUS
<1>2. IsFiniteSet(Where(r, s)) /\ Where(r, s) \subseteq 1 .. Len(s)
  BY WhereFinite
<1>3. DOMAIN s = 1 .. Len(s)
  OBVIOUS
<1>4. 1 .. Len(s) + 1 = 1 .. Len(s) \cup {Len(s) + 1}
  BY <1>1
<1>5. Len(s) + 1 \notin Where(r, s)
  BY <1>1, <1>2
<1>6. CASE e = r
  <2>1. Where(r, Append(s, e)) = Where(r, s) \cup {Len(s) + 1}
    BY <1>1, <1>3, <1>4, <1>6 DEF Where
  <2> QED BY <1>2, <1>5, <1>6, <2>1, FS_AddElement, FS_CardinalityType DEF Occurrences
<1>7. CASE e # r
  <2>1. Where(r, Append(s, e)) = Where(r, s)
    BY <1>1, <1>3, <1>4, <1>7 DEF Where
  <2> QED BY <1>2, <1>7, <2>1, FS_CardinalityType DEF Occurrences
<1> QED BY <1>6, <1>7

\* Two finite sets with nothing in common have as many elements as both.
LEMMA Apart ==
  ASSUME NEW A, NEW B, IsFiniteSet(A), IsFiniteSet(B), A \cap B = {}
  PROVE  Cardinality(A \cup B) = Cardinality(A) + Cardinality(B)
<1>1. Cardinality(A \cup B) = Cardinality(A) + Cardinality(B) - Cardinality(A \cap B)
  BY FS_Union
<1>2. Cardinality(A \cap B) = 0
  BY FS_EmptySet
<1>3. Cardinality(A) \in Nat /\ Cardinality(B) \in Nat
  BY FS_CardinalityType
<1> QED BY <1>1, <1>2, <1>3

\* Two sequences, one behind the other, have the occurrences of both.
LEMMA OccurrencesJoined ==
  ASSUME NEW S, NEW s \in Seq(S), NEW u \in Seq(S), NEW r
  PROVE  Occurrences(r, s \o u) = Occurrences(r, s) + Occurrences(r, u)
<1> DEFINE A == Where(r, s)
           B == Where(r, u)
           C == {i \in Len(s) + 1 .. Len(s) + Len(u) : u[i - Len(s)] = r}
           f == [i \in B |-> Len(s) + i]
<1>1. /\ IsFiniteSet(A) /\ IsFiniteSet(B)
      /\ A \subseteq 1 .. Len(s) /\ B \subseteq 1 .. Len(u)
  BY WhereFinite
<1>2. Len(s) \in Nat /\ Len(u) \in Nat /\ DOMAIN s = 1 .. Len(s) /\ DOMAIN u = 1 .. Len(u)
  OBVIOUS
<1>3. /\ DOMAIN (s \o u) = 1 .. Len(s) + Len(u)
      /\ \A i \in 1 .. Len(s) + Len(u) :
           (s \o u)[i] = IF i <= Len(s) THEN s[i] ELSE u[i - Len(s)]
  BY Joined
<1>4. Where(r, s \o u) = A \cup C
  BY <1>2, <1>3 DEF Where
<1>5. A \cap C = {}
  BY <1>1, <1>2
<1>6. f \in Bijection(B, C)
  <2>1. f \in [B -> C]
    BY <1>1, <1>2 DEF Where
  <2>2. \A i, j \in B : f[i] = f[j] => i = j
    BY <1>1, <1>2
  <2>3. \A c \in C : \E i \in B : f[i] = c
    <3> SUFFICES ASSUME NEW c \in C PROVE c - Len(s) \in B /\ f[c - Len(s)] = c
      OBVIOUS
    <3> QED BY <1>1, <1>2 DEF Where
  <2> QED BY <2>1, <2>2, <2>3 DEF Bijection, Injection, Surjection, IsInjective
<1> HIDE DEF f, A, B, C
<1>7. IsFiniteSet(C) /\ Cardinality(C) = Cardinality(B)
  BY <1>1, <1>6, FS_Bijection DEF ExistsBijection
<1>8. Cardinality(A \cup C) = Cardinality(A) + Cardinality(C)
  BY <1>1, <1>5, <1>7, Apart
<1> QED BY <1>4, <1>7, <1>8 DEF Occurrences, A, B

\* The places of a record in some batches.
Held(r, b) == UNION {{n} \X Where(r, b[n]) : n \in Threads}

LEMMA HeldFinite ==
  ASSUME NEW S, NEW b \in [Threads -> Seq(S)], NEW r
  PROVE  IsFiniteSet(Held(r, b)) /\ Cardinality(Held(r, b)) \in Nat
<1> DEFINE f == [n \in Threads |-> {n} \X Where(r, b[n])]
           Parts == {{n} \X Where(r, b[n]) : n \in Threads}
<1>1. IsFiniteSet(Threads)
  BY SomeThreads
<1>2. f \in Surjection(Threads, Parts)
  BY DEF Surjection
<1>3. IsFiniteSet(Parts)
  BY <1>1, <1>2, FS_Surjection
<1>4. \A T \in Parts : IsFiniteSet(T)
  <2> SUFFICES ASSUME NEW n \in Threads PROVE IsFiniteSet({n} \X Where(r, b[n]))
    OBVIOUS
  <2>1. b[n] \in Seq(S)
    OBVIOUS
  <2> QED BY <2>1, WhereFinite, FS_Singleton, FS_Product
<1>5. IsFiniteSet(UNION Parts)
  BY <1>3, <1>4, FS_UNION
<1> QED BY <1>5, FS_CardinalityType DEF Held

\* A batch that was empty adds what is in it.
LEMMA HeldMore ==
  ASSUME NEW S, NEW b \in [Threads -> Seq(S)], NEW m \in Threads, NEW q \in Seq(S),
         b[m] = <<>>, NEW r
  PROVE  Cardinality(Held(r, [b EXCEPT ![m] = q])) =
           Cardinality(Held(r, b)) + Occurrences(r, q)
<1> DEFINE W == {m} \X Where(r, q)
<1>1. Where(r, <<>>) = {}
  BY DEF Where
<1>2. Held(r, [b EXCEPT ![m] = q]) = Held(r, b) \cup W
  <2>1. \A x : x \in Held(r, b) <=> \E n \in Threads : x \in {n} \X Where(r, b[n])
    BY DEF Held
  <2>2. \A x : x \in Held(r, [b EXCEPT ![m] = q]) <=>
          \E n \in Threads : x \in {n} \X Where(r, [b EXCEPT ![m] = q][n])
    BY DEF Held
  <2>3. \A x : x \notin {m} \X Where(r, b[m])
    BY <1>1
  <2>4. \A n \in Threads \ {m} : [b EXCEPT ![m] = q][n] = b[n]
    OBVIOUS
  <2>5. [b EXCEPT ![m] = q][m] = q
    OBVIOUS
  <2> QED BY <2>1, <2>2, <2>3, <2>4, <2>5, Zenon
<1>3. Held(r, b) \cap W = {}
  <2>1. ASSUME NEW x \in Held(r, b), x \in W PROVE FALSE
    <3>1. PICK n \in Threads : x \in {n} \X Where(r, b[n])
      BY <2>1 DEF Held
    <3>2. x[1] = n /\ x[1] = m
      BY <2>1, <3>1
    <3> QED BY <1>1, <3>1, <3>2
  <2> QED BY <2>1
<1>4. /\ IsFiniteSet(W) /\ Cardinality(W) = Occurrences(r, q)
  <2>1. IsFiniteSet(Where(r, q)) /\ Occurrences(r, q) \in Nat
    BY WhereFinite
  <2>2. IsFiniteSet({m}) /\ Cardinality({m}) = 1
    BY FS_Singleton
  <2>3. IsFiniteSet(W) /\ Cardinality(W) = Cardinality({m}) * Cardinality(Where(r, q))
    BY <2>1, <2>2, FS_Product
  <2> QED BY <2>1, <2>2, <2>3 DEF Occurrences
<1> HIDE DEF W
<1>5. IsFiniteSet(Held(r, b)) /\ Cardinality(Held(r, b)) \in Nat
  BY HeldFinite
<1>6. Cardinality(Held(r, b) \cup W) = Cardinality(Held(r, b)) + Cardinality(W)
  BY <1>3, <1>4, <1>5, Apart
<1> QED BY <1>2, <1>4, <1>6

\* A batch that is emptied takes away what was in it.
LEMMA HeldLess ==
  ASSUME NEW S, NEW b \in [Threads -> Seq(S)], NEW m \in Threads, NEW r
  PROVE  Cardinality(Held(r, b)) =
           Cardinality(Held(r, [b EXCEPT ![m] = <<>>])) + Occurrences(r, b[m])
<1> DEFINE c == [b EXCEPT ![m] = <<>>]
<1>1. <<>> \in Seq(S) /\ b[m] \in Seq(S)
  OBVIOUS
<1>2. c \in [Threads -> Seq(S)] /\ c[m] = <<>>
  BY <1>1
<1>3. [c EXCEPT ![m] = b[m]] = b
  BY <1>2
<1> HIDE DEF c
<1>4. Cardinality(Held(r, [c EXCEPT ![m] = b[m]])) =
        Cardinality(Held(r, c)) + Occurrences(r, b[m])
  BY <1>1, <1>2, HeldMore, ZenonT(60)
<1> QED BY <1>3, <1>4 DEF c

\* What was put into the queue is there, in a batch, or injected, as often.
Balance ==
  \A r \in Records :
    Occurrences(r, pushed) =
      Occurrences(r, injected) + InBatches(r) + Occurrences(r, queue)

LEMMA BatchesHeld == \A r : InBatches(r) = Cardinality(Held(r, batch))
BY DEF InBatches, Held

LEMMA BalanceStep ==
  ASSUME TInv, Balance, TInv', [Next]_vars
  PROVE  Balance'
<1> SUFFICES ASSUME NEW r \in Records
             PROVE  Occurrences(r, pushed') =
                      Occurrences(r, injected') + Cardinality(Held(r, batch'))
                        + Occurrences(r, queue')
  BY DEF Balance, InBatches, Held, Records, Bytes
<1>1. Occurrences(r, pushed) =
        Occurrences(r, injected) + Cardinality(Held(r, batch)) + Occurrences(r, queue)
  BY BatchesHeld DEF Balance
<1>2. /\ batch \in [Threads -> Seq(SentRecords)] /\ queue \in Seq(SentRecords)
      /\ injected \in Seq(SentRecords) /\ pushed \in Seq(SentRecords)
      /\ recvBuff \in SentRecords
  BY DEF TInv, Typed
<1>3. /\ Occurrences(r, pushed) \in Nat /\ Occurrences(r, injected) \in Nat
      /\ Occurrences(r, queue) \in Nat /\ Cardinality(Held(r, batch)) \in Nat
  BY <1>2, WhereFinite, HeldFinite
<1>4. ASSUME NEW n \in Threads, Push(n)
      PROVE  Occurrences(r, pushed') =
               Occurrences(r, injected') + Cardinality(Held(r, batch'))
                 + Occurrences(r, queue')
  <2>1. /\ queue' = Append(queue, recvBuff) /\ pushed' = Append(pushed, recvBuff)
        /\ UNCHANGED <<injected, batch>>
    BY <1>4 DEF Push
  <2>2. \E x \in Nat : /\ Occurrences(r, queue') = Occurrences(r, queue) + x
                       /\ Occurrences(r, pushed') = Occurrences(r, pushed) + x
    BY <1>2, <2>1, OccurrencesAppend
  <2> QED BY <1>1, <1>3, <2>1, <2>2
<1>5. ASSUME NEW n \in Threads, OutputTakes(n)
      PROVE  Occurrences(r, pushed') =
               Occurrences(r, injected') + Cardinality(Held(r, batch'))
                 + Occurrences(r, queue')
  <2>1. /\ batch' = [batch EXCEPT ![n] = queue] /\ queue' = <<>>
        /\ UNCHANGED <<injected, pushed>> /\ ox[n] = "lock"
    BY <1>5 DEF OutputTakes, outputs
  <2>2. batch[n] = <<>>
    BY <2>1 DEF TInv, Points
  <2>3. Cardinality(Held(r, batch')) = Cardinality(Held(r, batch)) + Occurrences(r, queue)
    BY <1>2, <2>1, <2>2, HeldMore
  <2>4. Occurrences(r, queue') = 0
    BY <2>1, NowhereInEmpty
  <2> QED BY <1>1, <1>3, <2>1, <2>3, <2>4
<1>6. ASSUME NEW n \in Threads, Inject(n)
      PROVE  Occurrences(r, pushed') =
               Occurrences(r, injected') + Cardinality(Held(r, batch'))
                 + Occurrences(r, queue')
  <2>1. /\ batch' = [batch EXCEPT ![n] = <<>>] /\ injected' = injected \o batch[n]
        /\ UNCHANGED <<queue, pushed>>
    BY <1>6 DEF Inject, outputs
  <2>2. batch[n] \in Seq(SentRecords) /\ Occurrences(r, batch[n]) \in Nat
    BY <1>2, WhereFinite
  <2>3. Occurrences(r, injected') = Occurrences(r, injected) + Occurrences(r, batch[n])
    BY <1>2, <2>1, <2>2, OccurrencesJoined
  <2>4. Cardinality(Held(r, batch)) = Cardinality(Held(r, batch')) + Occurrences(r, batch[n])
    BY <1>2, <2>1, HeldLess
  <2>5. Cardinality(Held(r, batch')) \in Nat
    BY HeldFinite DEF TInv, Typed
  <2> QED BY <1>1, <1>3, <2>1, <2>2, <2>3, <2>4, <2>5
<1>7. CASE UNCHANGED <<pushed, injected, batch, queue>>
  BY <1>1, <1>7
<1>8. \/ \E n \in Threads : Push(n) \/ OutputTakes(n) \/ Inject(n)
      \/ UNCHANGED <<pushed, injected, batch, queue>>
  BY Steps, ZenonT(60) DEF vars, window, sockets, receivers, outputs, ClickConnect, ConnectFails,
     Connected, Started, HandleDisconnect, ClickDisconnect, ClickServer, ClickClient,
     ServerSends, ServerCloses, ReceiveTests, CallReceive, Receive, ReceiveFails,
     RestFails, Store, GiveUp, PostDisconnect, OutputTests, OutputWaits, SpuriousWake
<1> QED BY <1>4, <1>5, <1>6, <1>7, <1>8

LEMMA InitBalance == Init => Balance
<1> SUFFICES ASSUME Init, NEW r \in Records
             PROVE  Occurrences(r, pushed) =
                      Occurrences(r, injected) + InBatches(r) + Occurrences(r, queue)
  BY DEF Balance
<1>1. pushed = <<>> /\ injected = <<>> /\ queue = <<>> /\ \A n \in Threads : batch[n] = <<>>
  BY DEF Init
<1>2. Where(r, <<>>) = {}
  BY DEF Where
<1>3. Held(r, batch) = {}
  BY <1>1, <1>2 DEF Held
<1>4. InBatches(r) = 0
  BY <1>3, BatchesHeld, FS_EmptySet
<1>5. Occurrences(r, pushed) = 0 /\ Occurrences(r, injected) = 0 /\ Occurrences(r, queue) = 0
  BY <1>1, NowhereInEmpty
<1> QED BY <1>4, <1>5

LEMMA Balanced == Spec => []Balance
<1>1. Init => Balance
  BY InitBalance
<1>2. TInv /\ TInv' /\ Balance /\ [Next]_vars => Balance'
  BY BalanceStep
<1> QED BY <1>1, <1>2, TypedAlways, PTL DEF Spec

\* What ReceiveThreads have put into the queue is there, in one batch of an
\* OutputThread, or injected, and only once, for any number of connections and
\* however many threads of older ones are still at work on the same queue.
THEOREM QueueAlwaysConserved == Spec => []QueueConserved
<1>1. TInv /\ Balance => QueueConserved
  <2> SUFFICES ASSUME TInv, Balance, NEW i \in DOMAIN pushed
               PROVE  Occurrences(pushed[i], pushed) =
                        Occurrences(pushed[i], injected) + InBatches(pushed[i])
                          + Occurrences(pushed[i], queue)
    BY DEF QueueConserved
  <2>1. pushed \in Seq(SentRecords)
    BY DEF TInv, Typed
  <2>2. pushed[i] \in SentRecords
    BY <2>1, Element
  <2>3. pushed[i] \in Records
    BY <2>2, RemoteClientAssumption DEF SentRecords, Records, Bytes, TInv, Typed
  <2> QED BY <2>3 DEF Balance
<1> QED BY <1>1, TypedAlways, Balanced, PTL

-----------------------------------------------------------------------------
(* Which sockets and threads there are.                                    *)

\* There is something to receive only from a socket that was connected.
SocketsKept ==
  /\ \A h \in Handles : open[h] \notin {"open", "eof"} => wire[h] = <<>>
  /\ ui = "connecting" => open[sktServer] = "connecting"

\* If Connect was never clicked while older threads ran, only the last
\* connection has threads and a socket, and the socket is closed unless the
\* connection is up, being made, or about to be closed by a message.
Lonely ==
  ~overlapped =>
    /\ ui = "connected" => isConnected
    /\ \A n \in Threads : n # connects => ~Alive(n)
    /\ \A h \in Handles : open[h] # "closed" =>
         /\ h = sktServer /\ connects > 0
         /\ ui # "idle" \/ isConnected \/ posted > 0 \/ \E n \in Threads : rx[n] = "post"

LEMMA SocketsKeptStep ==
  ASSUME TInv, SocketsKept, [Next]_vars
  PROVE  SocketsKept'
<1> USE DEF window, sockets, receivers, outputs
<1>0. Shape /\ Typed
  BY DEF TInv, IInv
<1>1. CASE ClickConnect
  BY <1>0, <1>1 DEF ClickConnect, Idle, SocketsKept, Shape
<1>2. CASE ConnectFails
  BY <1>0, <1>2 DEF ConnectFails, SocketsKept, Shape
<1>3. CASE Connected
  BY <1>0, <1>3 DEF Connected, SocketsKept, Shape
<1>4. CASE HandleDisconnect \/ ClickDisconnect
  <2>1. /\ open' = [h \in Handles |-> IF h = sktServer THEN "closed" ELSE open[h]]
        /\ wire' = [h \in Handles |-> IF h = sktServer THEN <<>> ELSE wire[h]]
        /\ ui' = "idle"
    BY <1>4 DEF HandleDisconnect, ClickDisconnect, Disconnect, Idle
  <2> QED BY <2>1 DEF SocketsKept
<1>5. ASSUME NEW g \in Handles, ServerSends(g) \/ ServerCloses(g) PROVE SocketsKept'
  <2>1. /\ open[g] = "open" /\ UNCHANGED <<ui, sktServer>>
        /\ \A h \in Handles \ {g} : open'[h] = open[h] /\ wire'[h] = wire[h]
        /\ open'[g] \in {"open", "eof"} \/ (open'[g] = "reset" /\ wire'[g] = <<>>)
    BY <1>0, <1>5 DEF ServerSends, ServerCloses, Shape, Typed
  <2> QED BY <1>0, <2>1 DEF SocketsKept, Shape
<1>6. ASSUME NEW n \in Threads, Receive(n) PROVE SocketsKept'
  <2>1. PICK g \in Handles :
          wire[g] # <<>> /\ \A h \in Handles \ {g} : wire'[h] = wire[h]
    BY <1>0, <1>6, Receives DEF Typed
  <2>2. UNCHANGED <<ui, sktServer, open>>
    BY <1>6 DEF Receive
  <2> QED BY <2>1, <2>2 DEF SocketsKept
<1>7. CASE Started \/ ClickServer \/ ClickClient
  BY <1>7 DEF Started, ClickServer, ClickClient, SocketsKept
<1>8. CASE \E n \in Threads :
              \/ ReceiveTests(n) \/ CallReceive(n) \/ ReceiveFails(n) \/ RestFails(n)
              \/ Store(n) \/ Push(n) \/ GiveUp(n) \/ PostDisconnect(n)
  BY <1>8 DEF ReceiveTests, CallReceive, ReceiveFails, RestFails, Store, Push, GiveUp,
     PostDisconnect, SocketsKept
<1>9. CASE \/ \E n \in Threads :
                \/ OutputTests(n) \/ OutputWaits(n) \/ OutputTakes(n) \/ Inject(n)
                \/ SpuriousWake(n)
           \/ UNCHANGED vars
  BY <1>9 DEF OutputTests, OutputWaits, OutputTakes, Inject, SpuriousWake, vars, SocketsKept
<1> QED
  BY <1>1, <1>2, <1>3, <1>4, <1>5, <1>6, <1>7, <1>8, <1>9, Steps

LEMMA LonelyStep ==
  ASSUME TInv, SocketsKept, Lonely, [Next]_vars
  PROVE  Lonely'
<1> USE DEF window, sockets, receivers, outputs
<1>0. Shape /\ Typed /\ Buttons /\ Alone /\ Unborn
  BY DEF TInv, IInv
<1>a. connects \in Nat /\ posted \in Nat
  BY <1>0, RemoteClientAssumption DEF Shape, Typed
<1>1. CASE ClickConnect
  <2> SUFFICES ASSUME ~overlapped' PROVE Lonely'
    BY DEF Lonely
  <2>a. ~overlapped /\ \A n \in Threads : ~Alive(n)
    BY <1>1 DEF ClickConnect
  <2>b. ~isConnected /\ posted = 0 /\ ui = "idle"
    BY <1>0, <1>1 DEF ClickConnect, Idle, Buttons, ButtonsFollow
  <2>c. UNCHANGED <<rx, ox>> /\ connects' = connects + 1 /\ ui' # "connected"
    BY <1>1 DEF ClickConnect, Idle
  <2>1. /\ ~overlapped /\ ~isConnected /\ posted = 0 /\ ui = "idle"
        /\ \A n \in Threads : ~Alive(n)
        /\ UNCHANGED <<rx, ox>> /\ connects' = connects + 1 /\ ui' # "connected"
    BY <2>a, <2>b, <2>c
  <2>2. \A h \in Handles : open[h] = "closed"
    BY <2>1 DEF Lonely, Alive
  <2>3. \A h \in Handles : open'[h] # "closed" => h = sktServer' /\ ui' # "idle"
    BY <1>0, <1>1, <2>2 DEF ClickConnect, Shape
  <2>4. \A n \in Threads : ~Alive(n)'
    BY <2>1 DEF Alive
  <2> QED BY <1>a, <2>1, <2>3, <2>4 DEF Lonely
<1>2. CASE ConnectFails
  <2>1. /\ UNCHANGED <<overlapped, rx, ox, connects>> /\ ui' = "idle"
        /\ open' = [open EXCEPT ![sktServer] = "closed"]
    BY <1>2 DEF ConnectFails
  <2>2. ~overlapped => \A h \in Handles : open'[h] = "closed"
    BY <1>0, <2>1 DEF Lonely, Shape
  <2> QED BY <2>1, <2>2 DEF Lonely, Alive
<1>3. CASE Connected
  <2>1. /\ UNCHANGED <<overlapped, rx, ox, connects, sktServer>> /\ isConnected'
        /\ open' = [open EXCEPT ![sktServer] = "open"] /\ ui = "connecting"
    BY <1>3 DEF Connected
  <2>2. connects > 0
    BY <1>0, <2>1 DEF Typed
  <2>3. ~overlapped => \A h \in Handles : open'[h] # "closed" => h = sktServer
    BY <1>0, <2>1 DEF Lonely, Shape
  <2> QED BY <2>1, <2>2, <2>3 DEF Lonely, Alive
<1>4. CASE Started
  <2>1. /\ UNCHANGED <<overlapped, isConnected, open, sktServer, connects>>
        /\ ui = "connected" /\ ui' = "idle"
        /\ \A n \in Threads : n # connects => rx'[n] = rx[n] /\ ox'[n] = ox[n]
    BY <1>0, <1>4 DEF Started, Shape
  <2> QED BY <2>1 DEF Lonely, Alive
<1>5. CASE HandleDisconnect \/ ClickDisconnect
  <2>1. /\ open' = [h \in Handles |-> IF h = sktServer THEN "closed" ELSE open[h]]
        /\ ui' = "idle" /\ ox' = Woken
        /\ UNCHANGED <<overlapped, sktServer, connects, rx>>
    BY <1>5 DEF HandleDisconnect, ClickDisconnect, Disconnect, Idle
  <2>2. \A n \in Threads : Alive(n)' <=> Alive(n)
    BY <2>1 DEF Alive, Woken
  <2>3. ~overlapped' => \A h \in Handles : open'[h] = "closed"
    BY <2>1 DEF Lonely
  <2> QED BY <2>1, <2>2, <2>3 DEF Lonely
<1>6. CASE ClickServer \/ ClickClient
  BY <1>6 DEF ClickServer, ClickClient, Lonely, Alive
<1>7. CASE \E h \in Handles : ServerSends(h) \/ ServerCloses(h)
  <2>1. UNCHANGED <<overlapped, ui, isConnected, sktServer, connects, posted, rx, ox>>
    BY <1>7 DEF ServerSends, ServerCloses
  <2>2. \A h \in Handles : open'[h] # "closed" => open[h] # "closed"
    BY <1>0, <1>7 DEF ServerSends, ServerCloses, Shape
  <2> QED BY <2>1, <2>2 DEF Lonely, Alive
<1>8. ASSUME NEW n \in Threads,
             \/ ReceiveTests(n) \/ CallReceive(n) \/ Receive(n) \/ ReceiveFails(n)
             \/ RestFails(n) \/ Store(n) \/ Push(n)
      PROVE  Lonely'
  <2>1. UNCHANGED <<overlapped, ui, isConnected, sktServer, connects, posted, open>>
    BY <1>8 DEF ReceiveTests, CallReceive, Receive, ReceiveFails, RestFails, Store, Push
  <2>2. /\ rx[n] \notin {"none", "ended", "post"}
        /\ \A m \in Threads \ {n} : rx'[m] = rx[m]
    BY <1>0, <1>8 DEF ReceiveTests, CallReceive, Receive, ReceiveFails, RestFails,
       Store, Push, Shape
  <2>3. ox' = ox \/ ox' = Woken
    BY <1>8 DEF ReceiveTests, CallReceive, Receive, ReceiveFails, RestFails, Store, Push
  <2>4. \A m \in Threads : Alive(m)' => Alive(m)
    BY <2>2, <2>3 DEF Alive, Woken
  <2>5. \A m \in Threads : rx[m] = "post" => rx'[m] = "post"
    BY <2>2
  <2> QED BY <2>1, <2>4, <2>5 DEF Lonely
<1>9. ASSUME NEW n \in Threads, GiveUp(n) PROVE Lonely'
  <2>1. UNCHANGED <<overlapped, ui, sktServer, connects, posted, open, ox>>
    BY <1>9 DEF GiveUp
  <2>2. rx'[n] = "post" /\ rx[n] = "failed" /\ \A m \in Threads \ {n} : rx'[m] = rx[m]
    BY <1>0, <1>9 DEF GiveUp, Shape
  <2>3. ~overlapped => ui = "idle"
    BY <1>0, <2>2 DEF Alone, Alive
  <2>4. \A m \in Threads : Alive(m)' => Alive(m)
    BY <2>1, <2>2 DEF Alive
  <2> QED BY <2>1, <2>2, <2>3, <2>4 DEF Lonely
<1>10. ASSUME NEW n \in Threads, PostDisconnect(n) PROVE Lonely'
  <2>1. /\ UNCHANGED <<overlapped, ui, isConnected, sktServer, connects, open, ox>>
        /\ posted' > 0
    BY <1>a, <1>10 DEF PostDisconnect
  <2>2. rx[n] = "post" /\ \A m \in Threads \ {n} : rx'[m] = rx[m]
    BY <1>0, <1>10 DEF PostDisconnect, Shape
  <2>4. \A m \in Threads : Alive(m)' => Alive(m)
    BY <2>1, <2>2 DEF Alive
  <2> QED BY <2>1, <2>4 DEF Lonely
<1>11. ASSUME NEW n \in Threads,
              \/ OutputTests(n) \/ OutputWaits(n) \/ OutputTakes(n) \/ Inject(n)
              \/ SpuriousWake(n)
       PROVE  Lonely'
  <2>1. UNCHANGED <<overlapped, ui, isConnected, sktServer, connects, posted, open, rx>>
    BY <1>11 DEF OutputTests, OutputWaits, OutputTakes, Inject, SpuriousWake
  <2>2. ox[n] \notin {"none", "ended"} /\ \A m \in Threads \ {n} : ox'[m] = ox[m]
    BY <1>0, <1>11 DEF OutputTests, OutputWaits, OutputTakes, Inject, SpuriousWake, Shape
  <2>4. \A m \in Threads : Alive(m)' => Alive(m)
    BY <2>1, <2>2 DEF Alive
  <2> QED BY <2>1, <2>4 DEF Lonely
<1>12. CASE UNCHANGED vars
  BY <1>12 DEF vars, Lonely, Alive
<1> QED
  BY <1>1, <1>2, <1>3, <1>4, <1>5, <1>6, <1>7, <1>8, <1>9, <1>10, <1>11, <1>12, Steps

-----------------------------------------------------------------------------
(* Sequences once more, and the division that finds the record of a byte.  *)

\* Sequences are the same if they are as long, and the same at every place.
LEMMA SameSeq ==
  ASSUME NEW S, NEW s \in Seq(S), NEW u \in Seq(S), Len(s) = Len(u),
         \A i \in 1 .. Len(s) : s[i] = u[i]
  PROVE  s = u
OBVIOUS

LEMMA JoinedEmpty ==
  ASSUME NEW S, NEW s \in Seq(S)
  PROVE  s \o <<>> = s /\ <<>> \o s = s
OBVIOUS

LEMMA Quotient ==
  ASSUME NEW R \in Nat \ {0}, NEW q \in Int, NEW y \in Int, q * R <= y, y < q * R + R
  PROVE  y \div R = q
OBVIOUS

LEMMA FirstQuotient ==
  ASSUME NEW R \in Nat \ {0}, NEW x \in Int, 0 <= x, x < R
  PROVE  x \div R = 0
OBVIOUS

LEMMA NextQuotient ==
  ASSUME NEW R \in Nat \ {0}, NEW x \in Nat
  PROVE  (R + x) \div R = x \div R + 1
OBVIOUS

-----------------------------------------------------------------------------
(* What was put into the queue, in the order in which it was put there.    *)

\* The batch of the present connection's OutputThread.
Hand == IF connects \in Threads THEN batch[connects] ELSE <<>>

\* If Connect was never clicked while older threads ran, what was put into the
\* queue was injected, is in that batch, or still there, in this order.
Kept == ~overlapped => pushed = (injected \o Hand) \o queue

LEMMA HandType ==
  ASSUME Typed
  PROVE  Hand \in Seq(SentRecords)
<1>1. <<>> \in Seq(SentRecords)
  OBVIOUS
<1> QED BY <1>1 DEF Hand, Typed

LEMMA KeptStep ==
  ASSUME TInv, Lonely, Kept, [Next]_vars
  PROVE  Kept'
<1> USE DEF window, sockets, receivers, outputs
<1>0. Shape /\ Typed /\ Points /\ Unborn
  BY DEF TInv, IInv
<1>a. /\ batch \in [Threads -> Seq(SentRecords)] /\ queue \in Seq(SentRecords)
      /\ injected \in Seq(SentRecords) /\ pushed \in Seq(SentRecords)
      /\ recvBuff \in SentRecords /\ Hand \in Seq(SentRecords)
      /\ injected \o Hand \in Seq(SentRecords)
  BY <1>0, HandType, Joined DEF Typed
<1>b. connects \in Nat
  BY <1>0, RemoteClientAssumption DEF Typed
<1>1. CASE ClickConnect
  <2> SUFFICES ASSUME ~overlapped' PROVE pushed' = (injected' \o Hand') \o queue'
    BY DEF Kept
  <2>1. /\ ~overlapped /\ \A n \in Threads : ~Alive(n)
    BY <1>1 DEF ClickConnect
  <2>2. UNCHANGED <<pushed, injected, batch, queue>>
    BY <1>1 DEF ClickConnect
  <2>3. \A n \in Threads : batch[n] = <<>>
    BY <1>0, <2>1 DEF Alive, Points
  <2>4. Hand = <<>> /\ Hand' = <<>>
    BY <2>2, <2>3 DEF Hand
  <2> QED BY <2>1, <2>2, <2>4 DEF Kept
<1>2. ASSUME NEW n \in Threads, Push(n) PROVE Kept'
  <2>1. UNCHANGED <<overlapped, injected, batch, connects>>
    BY <1>2 DEF Push
  <2>2. queue' = Append(queue, recvBuff) /\ pushed' = Append(pushed, recvBuff)
    BY <1>2 DEF Push
  <2>3. Hand' = Hand
    BY <2>1 DEF Hand
  <2>4. Append((injected \o Hand) \o queue, recvBuff)
          = (injected \o Hand) \o Append(queue, recvBuff)
    <3>1. PICK a \in Seq(SentRecords), q \in Seq(SentRecords), e \in SentRecords :
            a = injected \o Hand /\ q = queue /\ e = recvBuff
      BY <1>a
    <3>2. Append(a \o q, e) = a \o Append(q, e)
      OBVIOUS
    <3> QED BY <3>1, <3>2
  <2> QED BY <2>1, <2>2, <2>3, <2>4 DEF Kept
<1>3. ASSUME NEW n \in Threads, OutputTakes(n) PROVE Kept'
  <2> SUFFICES ASSUME ~overlapped PROVE pushed' = (injected' \o Hand') \o queue'
    BY <1>3 DEF Kept, OutputTakes
  <2>1. UNCHANGED <<injected, pushed, connects>> /\ ox[n] = "lock"
    BY <1>3 DEF OutputTakes
  <2>2. queue' = <<>> /\ batch' = [batch EXCEPT ![n] = queue]
    BY <1>3 DEF OutputTakes
  <2>3. n = connects
    BY <2>1 DEF Lonely, Alive
  <2>4. Hand = <<>> /\ Hand' = queue
    BY <1>0, <1>a, <2>1, <2>2, <2>3 DEF Hand, Points
  <2>5. pushed = injected \o queue
    BY <1>a, <2>4, JoinedEmpty DEF Kept
  <2>6. injected \o queue \in Seq(SentRecords)
    BY <1>a, Joined
  <2>7. (injected \o queue) \o <<>> = injected \o queue
    BY <2>6, JoinedEmpty
  <2> QED BY <2>1, <2>2, <2>4, <2>5, <2>7
<1>4. ASSUME NEW n \in Threads, Inject(n) PROVE Kept'
  <2> SUFFICES ASSUME ~overlapped PROVE pushed' = (injected' \o Hand') \o queue'
    BY <1>4 DEF Kept, Inject
  <2>1. UNCHANGED <<queue, pushed, connects>> /\ ox[n] = "inject"
    BY <1>4 DEF Inject
  <2>2. injected' = injected \o batch[n] /\ batch' = [batch EXCEPT ![n] = <<>>]
    BY <1>4 DEF Inject
  <2>3. n = connects
    BY <2>1 DEF Lonely, Alive
  <2>4. injected' = injected \o Hand /\ Hand' = <<>>
    BY <1>a, <2>1, <2>2, <2>3 DEF Hand
  <2>5. injected' \o <<>> = injected'
    BY <1>a, <2>4, JoinedEmpty
  <2> QED BY <2>1, <2>4, <2>5 DEF Kept
<1>5. CASE UNCHANGED <<pushed, injected, batch, queue, overlapped, connects>>
  BY <1>5 DEF Kept, Hand
<1>6. \/ ClickConnect \/ \E n \in Threads : Push(n) \/ OutputTakes(n) \/ Inject(n)
      \/ UNCHANGED <<pushed, injected, batch, queue, overlapped, connects>>
  BY Steps, ZenonT(60) DEF vars, ConnectFails, Connected, Started, HandleDisconnect, ClickDisconnect,
     ClickServer, ClickClient, ServerSends, ServerCloses, ReceiveTests, CallReceive, Receive,
     ReceiveFails, RestFails, Store, GiveUp, PostDisconnect, OutputTests, OutputWaits,
     SpuriousWake
<1> QED BY <1>1, <1>2, <1>3, <1>4, <1>5, <1>6

-----------------------------------------------------------------------------
(* The stream of the present connection.                                   *)

AnyByte == Nat \cup {Junk}

\* The last d of these records are the first d of a stream that began when b
\* records had been sent, and what is before them is older.
Took(ps, d, b) ==
  /\ \A i \in 1 .. Len(ps) - d : \A k \in 1 .. RecordSize : ps[i][k] = Junk \/ ps[i][k] <= b
  /\ \A i \in 1 .. d : ps[Len(ps) - d + i] = Record(b + i)

\* These bytes are that stream without its first d records.
Runs(bytes, d, b) ==
  \A i \in 1 .. Len(bytes) : bytes[i] = b + d + (i - 1) \div RecordSize + 1

\* The bytes of the present connection that are not in the queue yet.
Coming == UnderWay(connects) \o wire[sktServer]

\* There is a connection whose bytes can be received.
Present ==
  ~overlapped /\ sktServer \in Handles /\ open[sktServer] \in {"open", "eof"}

At(d) ==
  /\ Took(pushed, d, base) /\ Runs(Coming, d, base)
  /\ open[sktServer] = "open" =>
       d * RecordSize + Len(Coming) = (sent - base) * RecordSize

Streamed == Present => \E d \in 0 .. Len(pushed) : At(d)

\* What a thread has of a record.
LEMMA UnderWayType ==
  ASSUME Typed, Points, NEW n \in Threads
  PROVE  /\ UnderWay(n) \in Seq(1 .. sent \cup {Junk})
         /\ rx[n] = "rest" => Len(UnderWay(n)) = rgot[n]
         /\ rx[n] \in {"store", "push"} => Len(UnderWay(n)) = RecordSize
<1>1. RecordSize \in Nat
  BY RemoteClientAssumption
<1>2. \A r \in SentRecords : r \in Seq(1 .. sent \cup {Junk}) /\ Len(r) = RecordSize
  BY <1>1 DEF SentRecords
<1>3. CASE rx[n] = "rest"
  <2>1. PICK g \in 0 .. RecordSize : g = rgot[n]
    BY <1>1, <1>3 DEF Points
  <2>2. rbuf[n] \in Seq(1 .. sent \cup {Junk}) /\ Len(rbuf[n]) = RecordSize
    BY <1>2 DEF Typed
  <2>3. SubSeq(rbuf[n], 1, g) \in Seq(1 .. sent \cup {Junk}) /\ Len(SubSeq(rbuf[n], 1, g)) = g
    BY <2>1, <2>2, Rest
  <2> QED BY <1>3, <2>1, <2>3 DEF UnderWay
<1>4. CASE rx[n] = "store"
  BY <1>2, <1>4 DEF UnderWay, Typed
<1>5. CASE rx[n] = "push"
  BY <1>2, <1>5 DEF UnderWay, Typed
<1>6. CASE rx[n] \notin {"rest", "store", "push"}
  <2>1. <<>> \in Seq(1 .. sent \cup {Junk})
    OBVIOUS
  <2> QED BY <1>6, <2>1 DEF UnderWay
<1> QED BY <1>3, <1>4, <1>5, <1>6

\* The bytes of a connection that is there.
LEMMA ComingType ==
  ASSUME TInv, Lonely, Present
  PROVE  /\ connects \in Threads /\ UnderWay(connects) \in Seq(1 .. sent \cup {Junk})
         /\ wire[sktServer] \in Seq(1 .. sent \cup {Junk})
         /\ Coming \in Seq(1 .. sent \cup {Junk})
         /\ Len(Coming) = Len(UnderWay(connects)) + Len(wire[sktServer])
<1>1. connects \in Threads
  BY RemoteClientAssumption DEF TInv, Typed, Lonely, Present, Threads
<1>2. UnderWay(connects) \in Seq(1 .. sent \cup {Junk})
  BY <1>1, UnderWayType DEF TInv
<1>3. Seq(1 .. sent) \subseteq Seq(1 .. sent \cup {Junk})
  BY Wider
<1>4. wire[sktServer] \in Seq(1 .. sent \cup {Junk})
  BY <1>3 DEF Present, TInv, Typed
<1> QED BY <1>1, <1>2, <1>4, Joined DEF Coming

\* A new connection begins with none of its stream, and everything is older.
LEMMA Begins ==
  ASSUME TInv
  PROVE  Took(pushed, 0, sent) /\ Runs(<<>>, 0, sent)
<1>1. pushed \in Seq(SentRecords) /\ Len(pushed) \in Nat
  BY DEF TInv, Typed
<1>2. ASSUME NEW i \in 1 .. Len(pushed), NEW k \in 1 .. RecordSize
      PROVE  pushed[i][k] = Junk \/ pushed[i][k] <= sent
  <2>1. pushed[i] \in SentRecords
    BY <1>1, Element
  <2>2. pushed[i][k] \in 1 .. sent \cup {Junk}
    BY <2>1 DEF SentRecords
  <2> QED BY <2>2
<1> QED BY <1>1, <1>2 DEF Took, Runs

\* What the server sends next goes on with the stream.
Repeats(more, k, e) ==
  more \in Seq(AnyByte) /\ Len(more) = k /\ \A i \in 1 .. k : more[i] = e

LEMMA GoesOn ==
  ASSUME NEW bytes \in Seq(AnyByte), NEW d \in Nat, NEW b \in Nat, NEW s \in Nat,
         Runs(bytes, d, b), d * RecordSize + Len(bytes) = (s - b) * RecordSize,
         NEW k \in 0 .. RecordSize, NEW more, Repeats(more, k, s + 1)
  PROVE  Runs(bytes \o more, d, b) /\ Len(bytes \o more) = Len(bytes) + k
<1>0. more \in Seq(AnyByte) /\ Len(more) = k /\ \A i \in 1 .. k : more[i] = s + 1
  BY DEF Repeats
<1>1. RecordSize \in Nat \ {0} /\ Len(bytes) \in Nat
  BY RemoteClientAssumption
<1>2. /\ Len(bytes \o more) = Len(bytes) + k
      /\ \A i \in 1 .. Len(bytes) + k :
           (bytes \o more)[i] = IF i <= Len(bytes) THEN bytes[i] ELSE more[i - Len(bytes)]
  <2>1. more \in Seq(AnyByte)
    BY <1>0
  <2>2. /\ Len(bytes \o more) = Len(bytes) + Len(more)
        /\ \A i \in 1 .. Len(bytes) + Len(more) :
             (bytes \o more)[i] = IF i <= Len(bytes) THEN bytes[i] ELSE more[i - Len(bytes)]
    BY <2>1, Joined
  <2> QED BY <1>0, <2>2
<1>3. ASSUME NEW i \in 1 .. k
      PROVE  b + d + (Len(bytes) + i - 1) \div RecordSize + 1 = s + 1
  <2>1. PICK l \in Nat : l = Len(bytes)
    BY <1>1
  <2>2. l = (s - b - d) * RecordSize
    BY <1>1, <2>1
  <2>3. s - b - d \in Int /\ l + i - 1 \in Int /\ i - 1 >= 0 /\ i - 1 < RecordSize
    BY <1>1, <2>1
  <2>a. (s - b - d) * RecordSize <= l + i - 1 /\ l + i - 1 < (s - b - d) * RecordSize + RecordSize
    BY <1>1, <2>2, <2>3
  <2>4. (l + i - 1) \div RecordSize = s - b - d
    BY <1>1, <2>3, <2>a, Quotient
  <2> QED BY <2>1, <2>4
<1>4. ASSUME NEW i \in 1 .. Len(bytes) + k
      PROVE  (bytes \o more)[i] = b + d + (i - 1) \div RecordSize + 1
  <2>1. CASE i <= Len(bytes)
    BY <1>2, <2>1 DEF Runs
  <2>2. CASE ~(i <= Len(bytes))
    <3>1. i - Len(bytes) \in 1 .. k
      BY <1>1, <2>2
    <3>2. (bytes \o more)[i] = s + 1
      BY <1>0, <1>2, <2>2, <3>1
    <3>3. b + d + (Len(bytes) + (i - Len(bytes)) - 1) \div RecordSize + 1 = s + 1
      BY <1>3, <3>1
    <3>4. Len(bytes) + (i - Len(bytes)) - 1 = i - 1
      BY <1>1
    <3> QED BY <3>2, <3>3, <3>4
  <2> QED BY <2>1, <2>2
<1> QED BY <1>2, <1>4 DEF Runs

\* The first record of the stream, and the stream behind it.
LEMMA FirstRecord ==
  ASSUME NEW S, NEW r \in Seq(S), NEW w \in Seq(S), NEW d \in Nat, NEW b \in Nat,
         Len(r) = RecordSize, Runs(r \o w, d, b)
  PROVE  r = Record(b + d + 1) /\ Runs(w, d + 1, b)
<1>1. RecordSize \in Nat \ {0} /\ Len(w) \in Nat
  BY RemoteClientAssumption
<1>2. /\ Len(r \o w) = RecordSize + Len(w)
      /\ \A i \in 1 .. RecordSize : (r \o w)[i] = r[i]
      /\ \A i \in 1 .. Len(w) : (r \o w)[RecordSize + i] = w[i]
  <2>1. /\ Len(r \o w) = Len(r) + Len(w)
        /\ \A i \in 1 .. Len(r) : (r \o w)[i] = r[i]
        /\ \A i \in 1 .. Len(w) : (r \o w)[Len(r) + i] = w[i]
    BY SMTT(30)
  <2> QED BY <2>1
<1>3. ASSUME NEW i \in 1 .. RecordSize PROVE r[i] = b + d + 1
  <2>1. i \in 1 .. RecordSize + Len(w) /\ i - 1 \in Int /\ 0 <= i - 1 /\ i - 1 < RecordSize
    BY <1>1
  <2>2. (i - 1) \div RecordSize = 0
    BY <1>1, <2>1, FirstQuotient
  <2>3. (r \o w)[i] = b + d + (i - 1) \div RecordSize + 1
    BY <1>2, <2>1 DEF Runs
  <2> QED BY <1>2, <2>2, <2>3
<1>4. ASSUME NEW i \in 1 .. Len(w) PROVE w[i] = b + (d + 1) + (i - 1) \div RecordSize + 1
  <2>1. RecordSize + i \in 1 .. RecordSize + Len(w) /\ i - 1 \in Nat
    BY <1>1
  <2>2. (r \o w)[RecordSize + i] = b + d + (RecordSize + i - 1) \div RecordSize + 1
    BY <1>2, <2>1, SMTT(30) DEF Runs
  <2>3. RecordSize + i - 1 = RecordSize + (i - 1)
    BY <1>1
  <2>4. (RecordSize + (i - 1)) \div RecordSize = (i - 1) \div RecordSize + 1
    BY <1>1, <2>1, NextQuotient
  <2>5. PICK q \in Int : q = (i - 1) \div RecordSize
    BY <1>1, <2>1
  <2>6. w[i] = b + d + (q + 1) + 1
    BY <1>2, <2>2, <2>3, <2>4, <2>5
  <2> QED BY <2>5, <2>6
<1>5. r \in [1 .. RecordSize -> S]
  BY <1>1
<1>6. r = Record(b + d + 1)
  BY <1>3, <1>5 DEF Record
<1> QED BY <1>4, <1>6 DEF Runs

\* One more record of the stream is in the queue.
LEMMA TookOneMore ==
  ASSUME NEW S, NEW ps \in Seq(S), NEW d \in 0 .. Len(ps), NEW b \in Nat,
         Took(ps, d, b), NEW r \in S, r = Record(b + d + 1)
  PROVE  Took(Append(ps, r), d + 1, b) /\ d + 1 \in 0 .. Len(Append(ps, r))
<1>1. /\ Len(ps) \in Nat /\ Len(Append(ps, r)) = Len(ps) + 1
      /\ \A i \in 1 .. Len(ps) : Append(ps, r)[i] = ps[i]
      /\ Append(ps, r)[Len(ps) + 1] = r
  BY OneMore
<1>2. Len(ps) + 1 - (d + 1) = Len(ps) - d /\ d + 1 \in 0 .. Len(ps) + 1
  BY <1>1
<1>3. \A i \in 1 .. Len(ps) - d : \A k \in 1 .. RecordSize :
        Append(ps, r)[i][k] = Junk \/ Append(ps, r)[i][k] <= b
  BY <1>1 DEF Took
<1>4. ASSUME NEW i \in 1 .. d + 1
      PROVE  Append(ps, r)[Len(ps) - d + i] = Record(b + i)
  <2>1. CASE i \in 1 .. d
    <3>1. Len(ps) - d + i \in 1 .. Len(ps)
      BY <1>1, <2>1
    <3> QED BY <1>1, <2>1, <3>1 DEF Took
  <2>2. CASE i = d + 1
    <3>1. Len(ps) - d + i = Len(ps) + 1 /\ b + i = b + d + 1
      BY <1>1, <2>2
    <3> QED BY <1>1, <3>1
  <2> QED BY <2>1, <2>2
<1>5. Len(Append(ps, r)) - (d + 1) = Len(ps) - d
  BY <1>1, <1>2
<1>6. Took(Append(ps, r), d + 1, b)
  BY <1>3, <1>4, <1>5 DEF Took
<1> QED BY <1>1, <1>2, <1>6

\* The buffer after a recv of k bytes.
Filled(buf, g, w, k) ==
  [i \in 1 .. RecordSize |-> IF i \in g + 1 .. g + k THEN w[i - g] ELSE buf[i]]

\* What is there of a record and behind it.
Joint(buf, g, w) == SubSeq(buf, 1, g) \o w

\* It moves bytes from the socket to the buffer, and none is lost.
LEMMA FilledMoves ==
  ASSUME NEW buf \in [1 .. RecordSize -> AnyByte], NEW g \in 0 .. RecordSize,
         NEW w \in Seq(AnyByte), NEW k \in Nat, g + k <= RecordSize, k <= Len(w)
  PROVE  /\ Filled(buf, g, w, k) \in [1 .. RecordSize -> AnyByte]
         /\ Joint(Filled(buf, g, w, k), g + k, SubSeq(w, k + 1, Len(w)))
              = Joint(buf, g, w)
<1>0. PICK new : new = Filled(buf, g, w, k)
  OBVIOUS
<1>e. \A i \in g + 1 .. g + k : w[i - g] \in AnyByte
  <2> SUFFICES ASSUME NEW i \in g + 1 .. g + k PROVE w[i - g] \in AnyByte
    OBVIOUS
  <2>1. i - g \in 1 .. Len(w)
    OBVIOUS
  <2> QED BY <2>1, Element
<1>d. new \in [1 .. RecordSize -> AnyByte]
  BY <1>0, <1>e DEF Filled
<1>f. \A i \in 1 .. RecordSize :
        new[i] = IF i \in g + 1 .. g + k THEN w[i - g] ELSE buf[i]
  BY <1>0 DEF Filled
<1>1. RecordSize \in Nat /\ Len(w) \in Nat /\ k \in 0 .. Len(w) /\ g + k \in 0 .. RecordSize
  BY RemoteClientAssumption
<1>2. /\ buf \in Seq(AnyByte) /\ Len(buf) = RecordSize
      /\ new \in Seq(AnyByte) /\ Len(new) = RecordSize
  BY <1>1, <1>d
<1>3. PICK a : a = SubSeq(new, 1, g + k)
  OBVIOUS
<1>4. a \in Seq(AnyByte) /\ Len(a) = g + k
  BY <1>1, <1>2, <1>3, Rest
<1>a. \A i \in 1 .. g + k : a[i] = new[i]
  BY <1>1, <1>2, <1>3, Rest
<1>5. PICK c : c = SubSeq(buf, 1, g)
  OBVIOUS
<1>6. c \in Seq(AnyByte) /\ Len(c) = g
  BY <1>1, <1>2, <1>5, Rest
<1>b. \A i \in 1 .. g : c[i] = buf[i]
  BY <1>1, <1>2, <1>5, Rest
<1>7. PICK e : e = SubSeq(w, k + 1, Len(w))
  OBVIOUS
<1>8. e \in Seq(AnyByte) /\ Len(e) = Len(w) - k
  BY <1>1, <1>7, Rest
<1>c. \A i \in 1 .. Len(w) - k : e[i] = w[k + i]
  BY <1>1, <1>7, Rest
<1>9. /\ a \o e \in Seq(AnyByte) /\ c \o w \in Seq(AnyByte)
      /\ Len(a \o e) = g + Len(w) /\ Len(c \o w) = g + Len(w)
  <2>0. a \in Seq(AnyByte) /\ e \in Seq(AnyByte)
    BY <1>4, <1>8
  <2>1. a \o e \in Seq(AnyByte) /\ Len(a \o e) = Len(a) + Len(e)
    BY <2>0
  <2>2. c \o w \in Seq(AnyByte) /\ Len(c \o w) = Len(c) + Len(w)
    BY <1>6
  <2> QED BY <1>1, <1>4, <1>6, <1>8, <2>1, <2>2
<1>10. ASSUME NEW i \in 1 .. g + Len(w) PROVE (a \o e)[i] = (c \o w)[i]
  <2>1. (a \o e)[i] = IF i <= g + k THEN a[i] ELSE e[i - (g + k)]
    BY <1>1, <1>4, <1>8
  <2>2. (c \o w)[i] = IF i <= g THEN c[i] ELSE w[i - g]
    BY <1>1, <1>6
  <2>3. CASE i \in 1 .. g
    <3>1. (a \o e)[i] = a[i] /\ (c \o w)[i] = c[i] /\ i \in 1 .. g + k
      BY <1>1, <2>1, <2>2, <2>3
    <3>2. i \in 1 .. RecordSize /\ i \notin g + 1 .. g + k
      BY <1>1, <2>3
    <3>3. new[i] = buf[i]
      BY <1>f, <3>2
    <3> QED BY <1>a, <1>b, <2>3, <3>1, <3>3
  <2>4. CASE i \in g + 1 .. g + k
    <3>1. (a \o e)[i] = a[i] /\ (c \o w)[i] = w[i - g] /\ i \in 1 .. g + k
      BY <1>1, <2>1, <2>2, <2>4
    <3>2. i \in 1 .. RecordSize
      BY <1>1, <2>4
    <3>3. new[i] = w[i - g]
      BY <1>f, <2>4, <3>2
    <3> QED BY <1>a, <3>1, <3>3
  <2>5. CASE i \in g + k + 1 .. g + Len(w)
    <3>1. (a \o e)[i] = e[i - (g + k)] /\ (c \o w)[i] = w[i - g]
      BY <1>1, <2>1, <2>2, <2>5
    <3>2. i - (g + k) \in 1 .. Len(w) - k /\ k + (i - (g + k)) = i - g
      BY <1>1, <2>5
    <3> QED BY <1>c, <3>1, <3>2
  <2>6. PICK l \in Nat : l = Len(w)
    BY <1>1
  <2>7. i \in 1 .. g \/ i \in g + 1 .. g + k \/ i \in g + k + 1 .. g + l
    BY <2>6
  <2> QED BY <2>3, <2>4, <2>5, <2>6, <2>7
<1>11. a \o e = c \o w
  BY <1>9, <1>10, SameSeq
<1> QED BY <1>0, <1>d, <1>3, <1>5, <1>7, <1>11 DEF Joint

\* Nothing changes if all that is on its way stays there.
LEMMA StreamSame ==
  ASSUME Streamed, Present' => Present, UNCHANGED <<pushed, base, sent, sktServer>>,
         Present' => Coming' = Coming,
         Present' => (open'[sktServer] = "open" => open[sktServer] = "open")
  PROVE  Streamed'
<1> SUFFICES ASSUME Present' PROVE (\E d \in 0 .. Len(pushed) : At(d))'
  BY DEF Streamed
<1>1. PICK d \in 0 .. Len(pushed) : At(d)
  BY DEF Streamed
<1>2. Coming' = Coming /\ (open'[sktServer] = "open" => open[sktServer] = "open")
  OBVIOUS
<1>3. At(d)'
  BY <1>1, <1>2 DEF At
<1> QED BY <1>1, <1>3

\* A recv of the only thread takes from the only socket.
LEMMA ReceiveKeeps ==
  ASSUME TInv, SocketsKept, Lonely, NEW n \in Threads, Receive(n), Present'
  PROVE  Present /\ Coming' = Coming
<1>0. Shape /\ Typed /\ Points /\ Alone /\ RecordSize \in Nat
  BY RemoteClientAssumption DEF TInv, IInv
<1>1. UNCHANGED <<open, sktServer, overlapped, connects, recvBuff, sent>>
  BY DEF Receive, window
<1>2. Present
  BY <1>1 DEF Present
<1>3. n = connects /\ rsock[n] = sktServer /\ sktServer \in Handles
  BY <1>0, <1>2 DEF Receive, Lonely, Alone, Alive, Present
<1>4. PICK h \in Handles, k \in Nat \ {0} :
           /\ h = rsock[n] /\ rx[n] \in {"recv", "rest"}
           /\ wire[h] \in Seq(1 .. sent)
           /\ k <= RecordSize - rgot[n] /\ k <= Len(wire[h])
           /\ rbuf' = [rbuf EXCEPT ![n] = [i \in 1 .. RecordSize |->
                         IF i \in rgot[n] + 1 .. rgot[n] + k THEN wire[h][i - rgot[n]]
                         ELSE rbuf[n][i]]]
           /\ wire' = [wire EXCEPT ![h] = SubSeq(wire[h], k + 1, Len(wire[h]))]
           /\ rgot' = [rgot EXCEPT ![n] = rgot[n] + k]
           /\ rx' = [rx EXCEPT ![n] = IF rgot[n] + k = RecordSize THEN "store" ELSE "rest"]
  BY <1>0, Receives, ZenonT(60)
<1>5. PICK g \in 0 .. RecordSize : g = rgot[n]
  BY <1>0, <1>4 DEF Points
<1>a. 1 .. sent \subseteq AnyByte /\ 1 .. sent \cup {Junk} \subseteq AnyByte
  BY DEF AnyByte
<1>b. wire[h] \in Seq(AnyByte)
  BY <1>4, <1>a, Wider
<1>c. rbuf[n] \in [1 .. RecordSize -> AnyByte]
  BY <1>0, <1>a DEF Typed, SentRecords
<1>6. PICK w : w = wire[h] /\ w \in Seq(AnyByte)
  BY <1>b
<1>7. PICK buf : buf = rbuf[n] /\ buf \in [1 .. RecordSize -> AnyByte]
  BY <1>c
<1>8. PICK new : new = Filled(buf, g, w, k)
  OBVIOUS
<1>9. g + k <= RecordSize /\ k <= Len(w) /\ k \in Nat
  BY <1>0, <1>4, <1>5, <1>6
<1>10. new \in [1 .. RecordSize -> AnyByte]
  BY <1>5, <1>6, <1>7, <1>8, <1>9, FilledMoves
<1>11. /\ rbuf'[n] = new /\ rgot'[n] = g + k
       /\ rx'[n] = IF g + k = RecordSize THEN "store" ELSE "rest"
       /\ wire'[h] = SubSeq(w, k + 1, Len(w))
  BY <1>0, <1>4, <1>5, <1>6, <1>7, <1>8 DEF Shape, Typed, Filled
<1>12. SubSeq(new, 1, g + k) \o SubSeq(w, k + 1, Len(w)) = SubSeq(buf, 1, g) \o w
  <2>1. Joint(new, g + k, SubSeq(w, k + 1, Len(w))) = Joint(buf, g, w)
    BY <1>5, <1>6, <1>7, <1>8, <1>9, FilledMoves
  <2> QED BY <2>1 DEF Joint
<1>13. UnderWay(n) = SubSeq(buf, 1, g)
  <2>1. CASE rx[n] = "rest"
    BY <1>5, <1>7, <2>1 DEF UnderWay
  <2>2. CASE rx[n] = "recv"
    <3>1. g = 0 /\ UnderWay(n) = <<>>
      BY <1>0, <1>5, <2>2 DEF Points, UnderWay
    <3>2. SubSeq(buf, 1, 0) = <<>>
      BY <1>0
    <3> QED BY <3>1, <3>2
  <2> QED BY <1>4, <2>1, <2>2
<1>14. UnderWay(n)' = SubSeq(new, 1, g + k)
  <2>1. CASE g + k = RecordSize
    <3>1. UnderWay(n)' = new
      BY <1>11, <2>1 DEF UnderWay
    <3>2. new \in Seq(AnyByte) /\ Len(new) = RecordSize
      BY <1>0, <1>10
    <3>3. SubSeq(new, 1, Len(new)) = new
      BY <3>2
    <3> QED BY <2>1, <3>1, <3>2, <3>3
  <2>2. CASE g + k # RecordSize
    BY <1>11, <2>2 DEF UnderWay
  <2> QED BY <2>1, <2>2
<1>15. Coming' = UnderWay(n)' \o wire'[h] /\ Coming = UnderWay(n) \o wire[h]
  BY <1>1, <1>3, <1>4 DEF Coming
<1> QED BY <1>2, <1>6, <1>11, <1>12, <1>13, <1>14, <1>15

\* The server of the connection sends (a part of) its next record.
LEMMA ServerGoesOn ==
  ASSUME TInv, SocketsKept, Lonely, Streamed, NEW g \in Handles, ServerSends(g), Present'
  PROVE  (\E d \in 0 .. Len(pushed) : At(d))'
<1>0. /\ Shape /\ Typed /\ RecordSize \in Nat \ {0}
      /\ base \in Nat /\ sent \in Nat /\ pushed \in Seq(SentRecords) /\ Len(pushed) \in Nat
  BY RemoteClientAssumption DEF TInv, IInv, Typed
<1>1. /\ UNCHANGED <<ui, posted, sktServer, overlapped, connects, pushed, base, rx, rgot,
                     rbuf, recvBuff>>
      /\ open[g] = "open" /\ sent' = sent + 1
  BY DEF ServerSends, window, receivers
<1>2. g = sktServer /\ Present /\ sktServer \in Handles
  BY <1>1 DEF Lonely, Present
<1>3. PICK d \in 0 .. Len(pushed) : At(d)
  BY <1>2 DEF Streamed
<1>4. /\ Took(pushed, d, base) /\ Runs(Coming, d, base)
      /\ d * RecordSize + Len(Coming) = (sent - base) * RecordSize
  BY <1>1, <1>2, <1>3 DEF At
<1>5. PICK k \in 1 .. RecordSize :
       /\ wire' = [wire EXCEPT ![g] = @ \o SubSeq(Record(sent + 1), 1, k)]
       /\ open' = IF k = RecordSize THEN open ELSE [open EXCEPT ![g] = "eof"]
  BY DEF ServerSends
<1>6. PICK more : more = SubSeq(Record(sent + 1), 1, k)
  OBVIOUS
<1>7. more \in Seq(AnyByte) /\ Len(more) = k /\ \A i \in 1 .. k : more[i] = sent + 1
  <2>1. PICK rec : rec = Record(sent + 1)
    OBVIOUS
  <2>2. /\ rec \in Seq(AnyByte) /\ Len(rec) = RecordSize
        /\ \A i \in 1 .. RecordSize : rec[i] = sent + 1
    BY <1>0, <2>1 DEF Record, AnyByte
  <2>3. k \in 0 .. Len(rec) /\ k <= RecordSize
    BY <1>0, <1>5, <2>2
  <2>4. /\ SubSeq(rec, 1, k) \in Seq(AnyByte) /\ Len(SubSeq(rec, 1, k)) = k
        /\ \A i \in 1 .. k : SubSeq(rec, 1, k)[i] = rec[i]
    BY <2>2, <2>3, Rest
  <2> QED BY <1>0, <1>5, <1>6, <2>1, <2>2, <2>3, <2>4
<1>8. wire'[g] = wire[g] \o more
  BY <1>0, <1>5, <1>6 DEF Typed
<1>9. PICK u, w : u = UnderWay(connects) /\ w = wire[g]
  OBVIOUS
<1>10. u \in Seq(AnyByte) /\ w \in Seq(AnyByte)
  <2>1. 1 .. sent \cup {Junk} \subseteq AnyByte
    BY DEF AnyByte
  <2>2. Seq(1 .. sent \cup {Junk}) \subseteq Seq(AnyByte)
    BY <2>1, Wider
  <2> QED BY <1>2, <1>9, <2>2, ComingType
<1>11. Coming = u \o w /\ Coming' = u \o (w \o more)
  BY <1>1, <1>2, <1>8, <1>9 DEF Coming, UnderWay
<1>12. u \o (w \o more) = (u \o w) \o more /\ u \o w \in Seq(AnyByte)
  <2>1. more \in Seq(AnyByte)
    BY <1>7
  <2> QED BY <1>10, <2>1
<1>13. PICK bytes : bytes = u \o w
  OBVIOUS
<1>14. bytes \in Seq(AnyByte) /\ Coming = bytes /\ Coming' = bytes \o more
  BY <1>11, <1>12, <1>13
<1>15. Runs(bytes \o more, d, base) /\ Len(bytes \o more) = Len(bytes) + k
  <2>1. Repeats(more, k, sent + 1)
    BY <1>7 DEF Repeats
  <2>2. k \in 0 .. RecordSize
    BY <1>0, <1>5
  <2>3. PICK s \in Nat, b \in Nat, e \in Nat : s = sent /\ b = base /\ e = d
    BY <1>0, <1>3
  <2>4. Runs(bytes, e, b) /\ e * RecordSize + Len(bytes) = (s - b) * RecordSize
    BY <1>4, <1>14, <2>3
  <2>5. bytes \in Seq(AnyByte)
    BY <1>14
  <2>6. Runs(bytes \o more, e, b) /\ Len(bytes \o more) = Len(bytes) + k
    BY <2>1, <2>2, <2>3, <2>4, <2>5, GoesOn
  <2> QED BY <2>3, <2>6
<1>16. open'[sktServer'] = "open" =>
         d * RecordSize + Len(Coming') = (sent' - base') * RecordSize
  <2> SUFFICES ASSUME open'[sktServer'] = "open"
               PROVE  d * RecordSize + Len(Coming') = (sent' - base') * RecordSize
    OBVIOUS
  <2>1. k = RecordSize
    BY <1>0, <1>1, <1>2, <1>5 DEF Shape
  <2>2. PICK l \in Nat : l = Len(bytes)
    BY <1>14
  <2>3. d * RecordSize + l = (sent - base) * RecordSize
    BY <1>4, <1>14, <2>2
  <2>4. (sent + 1 - base) * RecordSize = (sent - base) * RecordSize + RecordSize
    BY <1>0
  <2>5. d * RecordSize + (l + RecordSize) = (sent + 1 - base) * RecordSize
    BY <1>0, <1>3, <2>3, <2>4
  <2>6. Len(Coming') = l + RecordSize
    BY <1>14, <1>15, <2>1, <2>2
  <2>7. sent' - base' = sent + 1 - base
    BY <1>0, <1>1
  <2>8. d * RecordSize + Len(Coming') = (sent + 1 - base) * RecordSize
    BY <2>5, <2>6
  <2> QED BY <2>7, <2>8
<1>17. Took(pushed', d, base') /\ Runs(Coming', d, base')
  BY <1>1, <1>4, <1>14, <1>15 DEF Took, Runs
<1>18. At(d)'
  BY <1>16, <1>17 DEF At
<1> QED BY <1>1, <1>3, <1>18

\* The complete record goes from the thread to the queue.
LEMMA PushGoesOn ==
  ASSUME TInv, SocketsKept, Lonely, Streamed, NEW n \in Threads, Push(n), Present'
  PROVE  (\E d \in 0 .. Len(pushed) : At(d))'
<1>0. /\ Shape /\ Typed /\ RecordSize \in Nat \ {0}
      /\ base \in Nat /\ sent \in Nat /\ pushed \in Seq(SentRecords) /\ Len(pushed) \in Nat
      /\ recvBuff \in SentRecords
  BY RemoteClientAssumption DEF TInv, IInv, Typed
<1>1. /\ UNCHANGED <<sktServer, overlapped, connects, base, sent, open, wire, recvBuff>>
      /\ rx[n] = "push" /\ pushed' = Append(pushed, recvBuff) /\ rx'[n] = "test"
  BY <1>0 DEF Push, window, sockets, Shape
<1>2. n = connects /\ Present
  BY <1>1 DEF Lonely, Present, Alive
<1>3. PICK d \in 0 .. Len(pushed) : At(d)
  BY <1>2 DEF Streamed
<1>4. /\ Took(pushed, d, base) /\ Runs(Coming, d, base)
      /\ open[sktServer] = "open" =>
           d * RecordSize + Len(Coming) = (sent - base) * RecordSize
  BY <1>3 DEF At
<1>5. UnderWay(n) = recvBuff /\ UnderWay(n)' = <<>>
  BY <1>1 DEF UnderWay
<1>6. PICK r, w : r = recvBuff /\ w = wire[sktServer]
  OBVIOUS
<1>7. r \in Seq(AnyByte) /\ Len(r) = RecordSize /\ w \in Seq(AnyByte)
  <2>1. 1 .. sent \cup {Junk} \subseteq AnyByte
    BY DEF AnyByte
  <2>2. Seq(1 .. sent \cup {Junk}) \subseteq Seq(AnyByte)
    BY <2>1, Wider
  <2>3. r \in Seq(1 .. sent \cup {Junk}) /\ Len(r) = RecordSize
    BY <1>0, <1>6 DEF SentRecords
  <2> QED BY <1>2, <1>6, <2>2, <2>3, ComingType
<1>8. Coming = r \o w /\ Coming' = w
  <2>1. Coming = r \o w /\ Coming' = <<>> \o w
    BY <1>1, <1>2, <1>5, <1>6 DEF Coming
  <2>2. <<>> \o w = w
    BY <1>7, JoinedEmpty
  <2> QED BY <2>1, <2>2
<1>9. r = Record(base + d + 1) /\ Runs(w, d + 1, base)
  BY <1>0, <1>3, <1>4, <1>7, <1>8, FirstRecord
<1>10. Took(pushed', d + 1, base) /\ d + 1 \in 0 .. Len(pushed')
  BY <1>0, <1>1, <1>3, <1>4, <1>6, <1>9, TookOneMore
<1>11. ASSUME open[sktServer] = "open"
       PROVE  (d + 1) * RecordSize + Len(w) = (sent - base) * RecordSize
  <2>1. PICK l \in Nat : l = Len(w)
    BY <1>7
  <2>2. Len(Coming) = RecordSize + l
    BY <1>7, <1>8, <2>1, Joined
  <2>3. d * RecordSize + (RecordSize + l) = (sent - base) * RecordSize
    BY <1>4, <1>11, <2>2
  <2>4. (d + 1) * RecordSize = d * RecordSize + RecordSize
    BY <1>0, <1>3
  <2> QED BY <1>0, <1>3, <2>1, <2>3, <2>4
<1>12. At(d + 1)'
  BY <1>1, <1>8, <1>9, <1>10, <1>11 DEF At, Runs, Took
<1> QED BY <1>10, <1>12

LEMMA StreamedStep ==
  ASSUME TInv, TInv', SocketsKept, Lonely, Streamed, [Next]_vars
  PROVE  Streamed'
<1> USE DEF window, sockets, receivers, outputs
<1>0. Shape /\ Typed /\ Points /\ Unborn /\ Alone
  BY DEF TInv, IInv
<1>1. CASE ClickConnect
  <2>1. ~Present'
    BY <1>0, <1>1, RemoteClientAssumption DEF ClickConnect, Present, Shape
  <2> QED BY <2>1 DEF Streamed
<1>2. CASE ConnectFails
  <2>1. ~Present'
    BY <1>2, RemoteClientAssumption DEF ConnectFails, Present
  <2> QED BY <2>1 DEF Streamed
<1>3. CASE Connected
  <2>1. /\ UNCHANGED <<pushed, sent, sktServer, connects, wire, rx, rbuf, rgot, recvBuff>>
        /\ base' = sent /\ ui = "connecting"
    BY <1>3 DEF Connected
  <2>2. sktServer \in Handles /\ wire[sktServer] = <<>>
    BY <1>0, <2>1 DEF Shape, SocketsKept
  <2>3. connects \in Threads /\ rx[connects] = "none"
    BY <1>0, <2>1, RemoteClientAssumption DEF Typed, Unborn, Threads
  <2>4. Coming' = <<>>
    <3>1. UnderWay(connects)' = <<>> /\ wire'[sktServer'] = <<>>
      BY <2>1, <2>2, <2>3 DEF UnderWay
    <3>2. <<>> \o <<>> = <<>>
      OBVIOUS
    <3> QED BY <3>1, <3>2 DEF Coming
  <2>5. Took(pushed, 0, sent) /\ Runs(<<>>, 0, sent)
    BY Begins
  <2>6. 0 \in 0 .. Len(pushed)
    BY <1>0 DEF Typed
  <2>7. 0 * RecordSize + Len(<<>>) = (sent - sent) * RecordSize
    BY <1>0, RemoteClientAssumption DEF Typed
  <2>8. At(0)'
    BY <2>1, <2>4, <2>5, <2>7 DEF At, Took, Runs
  <2> QED BY <2>1, <2>6, <2>8 DEF Streamed
<1>4. CASE Started
  <2>1. UNCHANGED <<overlapped, pushed, base, sent, sktServer, open, wire, connects, rbuf, rgot,
                    recvBuff>>
    BY <1>4 DEF Started
  <2>2. Present' => Present
    BY <2>1 DEF Present
  <2>3. ASSUME Present' PROVE Coming' = Coming
    <3>1. connects \in Threads
      BY <2>2, <2>3, ComingType
    <3>2. rx[connects] = "none" /\ rx'[connects] = "test"
      BY <1>0, <1>4, <3>1 DEF Started, Unborn, Shape
    <3>3. UnderWay(connects)' = UnderWay(connects)
      BY <2>1, <3>2 DEF UnderWay
    <3> QED BY <2>1, <3>3 DEF Coming
  <2> QED BY <2>1, <2>2, <2>3, StreamSame
<1>5. CASE HandleDisconnect \/ ClickDisconnect
  <2>1. ~Present'
    BY <1>5 DEF HandleDisconnect, ClickDisconnect, Disconnect, Present
  <2> QED BY <2>1 DEF Streamed
<1>6. ASSUME NEW g \in Handles, ServerSends(g) PROVE Streamed'
  BY <1>6, ServerGoesOn DEF Streamed
<1>7. ASSUME NEW g \in Handles, ServerCloses(g) PROVE Streamed'
  <2>1. UNCHANGED <<overlapped, pushed, base, sent, sktServer, connects, rx, rbuf, rgot, recvBuff>>
    BY <1>7 DEF ServerCloses
  <2>2. /\ open[g] = "open" /\ open'[g] \in {"eof", "reset"}
        /\ \A h \in Handles \ {g} : open'[h] = open[h] /\ wire'[h] = wire[h]
        /\ open'[g] = "eof" => wire'[g] = wire[g]
    BY <1>0, <1>7 DEF ServerCloses, Shape, Typed
  <2>3. Present' => Present /\ wire'[sktServer] = wire[sktServer]
    BY <2>1, <2>2 DEF Present
  <2>4. Present' => Coming' = Coming
    BY <2>1, <2>3 DEF Coming, UnderWay
  <2>5. Present' => (open'[sktServer] = "open" => open[sktServer] = "open")
    BY <2>1, <2>2 DEF Present
  <2> QED BY <2>1, <2>3, <2>4, <2>5, StreamSame
<1>8. ASSUME NEW n \in Threads,
             \/ ReceiveTests(n) \/ CallReceive(n) \/ ReceiveFails(n) \/ GiveUp(n)
             \/ PostDisconnect(n)
      PROVE  Streamed'
  <2>1. UNCHANGED <<overlapped, pushed, base, sent, sktServer, connects, open, wire, recvBuff>>
    BY <1>8 DEF ReceiveTests, CallReceive, ReceiveFails, GiveUp, PostDisconnect
  <2>2. /\ {rx[n], rx'[n]} \cap {"rest", "store", "push"} = {}
        /\ \A m \in Threads \ {n} : rx'[m] = rx[m] /\ rbuf'[m] = rbuf[m] /\ rgot'[m] = rgot[m]
    BY <1>0, <1>8 DEF ReceiveTests, CallReceive, ReceiveFails, GiveUp, PostDisconnect,
       Shape, Typed
  <2>3. \A m \in Threads : UnderWay(m)' = UnderWay(m)
    BY <2>1, <2>2 DEF UnderWay
  <2>4. Present' => Present
    BY <2>1 DEF Present
  <2>5. ASSUME Present' PROVE Coming' = Coming
    <3>1. connects \in Threads
      BY <2>4, <2>5, ComingType
    <3>2. UnderWay(connects)' = UnderWay(connects)
      BY <2>1, <2>3, <3>1 DEF UnderWay
    <3> QED BY <2>1, <3>2 DEF Coming
  <2> QED BY <2>1, <2>4, <2>5, StreamSame
<1>9. ASSUME NEW n \in Threads, Receive(n) PROVE Streamed'
  <2>1. UNCHANGED <<pushed, base, sent, sktServer, open>>
    BY <1>9 DEF Receive
  <2>2. Present' => Present /\ Coming' = Coming
    BY <1>9, ReceiveKeeps
  <2> QED BY <2>1, <2>2, StreamSame
<1>10. ASSUME NEW n \in Threads, RestFails(n) PROVE Streamed'
  <2>1. UNCHANGED <<overlapped, sktServer, open>>
    BY <1>10 DEF RestFails
  <2>2. ~Present'
    BY <1>0, <1>10, <2>1 DEF RestFails, Fails, Alone, Present
  <2> QED BY <2>2 DEF Streamed
<1>11. ASSUME NEW n \in Threads, Store(n) PROVE Streamed'
  <2>1. UNCHANGED <<overlapped, pushed, base, sent, sktServer, connects, open, wire, rbuf>>
    BY <1>11 DEF Store
  <2>2. rx[n] = "store" /\ rx'[n] = "push" /\ recvBuff' = rbuf[n]
    BY <1>0, <1>11 DEF Store, Shape
  <2>3. UnderWay(n)' = UnderWay(n)
    BY <2>1, <2>2 DEF UnderWay
  <2>4. Present' => Present
    BY <2>1 DEF Present
  <2>5. Present' => n = connects
    BY <2>2, <2>4 DEF Lonely, Alive, Present
  <2>6. Present' => Coming' = Coming
    BY <2>1, <2>3, <2>5 DEF Coming
  <2> QED BY <2>1, <2>4, <2>6, StreamSame
<1>12. ASSUME NEW n \in Threads, Push(n) PROVE Streamed'
  BY <1>12, PushGoesOn DEF Streamed
<1>13. CASE \/ ClickServer \/ ClickClient
            \/ \E n \in Threads :
                 \/ OutputTests(n) \/ OutputWaits(n) \/ OutputTakes(n) \/ Inject(n)
                 \/ SpuriousWake(n)
            \/ UNCHANGED vars
  <2>1. UNCHANGED <<overlapped, pushed, base, sent, sktServer, connects, open, wire, rx, rbuf,
                    rgot, recvBuff>>
    BY <1>13 DEF ClickServer, ClickClient, OutputTests, OutputWaits, OutputTakes, Inject,
       SpuriousWake, vars
  <2>2. Coming' = Coming /\ (Present' => Present)
    BY <2>1 DEF Coming, UnderWay, Present
  <2> QED BY <2>1, <2>2, StreamSame
<1> QED
  BY <1>1, <1>2, <1>3, <1>4, <1>5, <1>6, <1>7, <1>8, <1>9, <1>10, <1>11, <1>12, <1>13, Steps

-----------------------------------------------------------------------------
(* The order of the records.                                               *)

\* A whole record that is not in the queue yet was sent after those that are.
Later(r) ==
  IsWhole(r) => \A i \in 1 .. Len(pushed) : IsWhole(pushed[i]) => pushed[i][1] < r[1]

\* If Connect was never clicked while older threads ran, records get into the
\* queue in the order in which they were sent, and only a thread whose recv has
\* failed in the middle of one puts anything else there.
Order ==
  ~overlapped =>
    /\ \A i, j \in 1 .. Len(pushed) :
         i < j /\ IsWhole(pushed[i]) /\ IsWhole(pushed[j]) => pushed[i][1] < pushed[j][1]
    /\ ~cut => \A i \in 1 .. Len(pushed) : IsWhole(pushed[i])
    /\ \A n \in Threads :
         /\ rx[n] = "store" => Later(rbuf[n]) /\ (~cut => IsWhole(rbuf[n]))
         /\ rx[n] = "push" => Later(recvBuff) /\ (~cut => IsWhole(recvBuff))

\* What a record that is whole begins and ends with.
LEMMA Whole ==
  ASSUME NEW r, IsWhole(r)
  PROVE  \E id \in 1 .. MaxSent : r = Record(id) /\ r[1] = id /\ r[RecordSize] = id
<1>1. PICK id \in 1 .. MaxSent : r = Record(id)
  BY DEF IsWhole
<1>2. 1 \in 1 .. RecordSize /\ RecordSize \in 1 .. RecordSize
  BY RemoteClientAssumption
<1> QED BY <1>1, <1>2 DEF Record

\* A record that comes next in the stream was sent after those in the queue.
LEMMA NextIsLater ==
  ASSUME NEW S, NEW ps \in Seq(S), NEW d \in 0 .. Len(ps), NEW b \in Nat, Took(ps, d, b),
         NEW i \in 1 .. Len(ps), IsWhole(ps[i])
  PROVE  ps[i][1] < b + d + 1
<1>1. Len(ps) \in Nat /\ MaxSent \in Nat /\ 1 \in 1 .. RecordSize
  BY RemoteClientAssumption
<1>2. PICK id \in 1 .. MaxSent : ps[i] = Record(id) /\ ps[i][1] = id
  BY Whole
<1>3. CASE i \in 1 .. Len(ps) - d
  <2>1. ps[i][1] = Junk \/ ps[i][1] <= b
    BY <1>1, <1>3 DEF Took
  <2>2. id # Junk /\ id \in Nat
    BY <1>1, <1>2, RemoteClientAssumption
  <2>3. id <= b
    BY <1>2, <2>1, <2>2
  <2>4. id < b + d + 1
    BY <2>2, <2>3
  <2> QED BY <1>2, <2>4
<1>4. CASE i \notin 1 .. Len(ps) - d
  <2>1. PICK j \in 1 .. d : i = Len(ps) - d + j
    <3>1. i - (Len(ps) - d) \in 1 .. d /\ i = Len(ps) - d + (i - (Len(ps) - d))
      BY <1>1, <1>4
    <3> QED BY <3>1
  <2>2. ps[i] = Record(b + j)
    BY <2>1 DEF Took
  <2>3. ps[i][1] = b + j
    BY <1>1, <2>2 DEF Record
  <2>4. b + j < b + d + 1
    BY <2>1
  <2> QED BY <2>3, <2>4
<1> QED BY <1>3, <1>4

\* A record that is complete is the next one of the stream.
LEMMA ReceivedIsNext ==
  ASSUME TInv, TInv', SocketsKept, Lonely, Streamed, ~overlapped,
         NEW n \in Threads, Receive(n), rx'[n] = "store"
  PROVE  (Later(rbuf[n]) /\ IsWhole(rbuf[n]))'
<1>0. /\ Shape /\ Typed /\ Alone /\ RecordSize \in Nat \ {0}
      /\ base \in Nat /\ sent \in Nat /\ pushed \in Seq(SentRecords)
  <2>1. Shape /\ Typed /\ Alone
    BY DEF TInv, IInv
  <2>2. RecordSize \in Nat \ {0}
    BY RemoteClientAssumption
  <2>3. base \in Nat /\ sent \in Nat /\ pushed \in Seq(SentRecords)
    BY <2>1, SMTT(30) DEF Typed
  <2> QED BY <2>1, <2>2, <2>3
<1>1. UNCHANGED <<overlapped, sktServer, connects, open, pushed, base, sent>>
  BY DEF Receive, window
<1>2. rsock[n] = sktServer /\ sktServer \in Handles /\ wire[sktServer] # <<>> /\ n = connects
  BY <1>0 DEF Receive, Shape, Alone, Lonely, Alive
<1>3. Present /\ Present'
  BY <1>1, <1>2 DEF SocketsKept, Present
<1>4. PICK d \in 0 .. Len(pushed) : At(d)
  BY <1>3 DEF Streamed
<1>5. Runs(Coming', d, base) /\ Took(pushed, d, base)
  BY <1>3, <1>4, ReceiveKeeps DEF At
<1>6. PICK r, w : r = rbuf'[n] /\ w = wire'[sktServer]
  OBVIOUS
<1>7. Coming' = r \o w
  <2>1. UnderWay(n)' = rbuf'[n]
    BY DEF UnderWay
  <2> QED BY <1>1, <1>2, <1>6, <2>1 DEF Coming
<1>8. r \in [1 .. RecordSize -> 1 .. sent \cup {Junk}] /\ w \in Seq(1 .. sent)
  BY <1>1, <1>2, <1>6 DEF TInv, Typed, SentRecords
<1>9. r \in Seq(AnyByte) /\ Len(r) = RecordSize /\ w \in Seq(AnyByte)
  <2>1. 1 .. sent \cup {Junk} \subseteq AnyByte /\ 1 .. sent \subseteq AnyByte
    BY DEF AnyByte
  <2>2. w \in Seq(AnyByte)
    BY <1>8, <2>1, Wider
  <2>3. r \in Seq(1 .. sent \cup {Junk}) /\ Len(r) = RecordSize
    BY <1>0, <1>8
  <2>4. r \in Seq(AnyByte)
    BY <2>1, <2>3, Wider
  <2> QED BY <2>2, <2>3, <2>4
<1>10. r = Record(base + d + 1)
  BY <1>0, <1>4, <1>5, <1>7, <1>9, FirstRecord
<1>11. base + d + 1 \in 1 .. MaxSent /\ r[1] = base + d + 1
  <2>1. 1 \in 1 .. RecordSize
    BY <1>0
  <2>2. r[1] = base + d + 1 /\ r[1] \in 1 .. sent \cup {Junk}
    BY <1>8, <1>10, <2>1 DEF Record
  <2>3. base + d + 1 \in Nat /\ base + d + 1 # Junk
    BY <1>0, <1>4, RemoteClientAssumption
  <2>4. sent <= MaxSent
    BY <1>0, RemoteClientAssumption DEF Typed
  <2>5. base + d + 1 \in 1 .. sent
    BY <2>2, <2>3
  <2> QED BY <1>0, <2>2, <2>4, <2>5, RemoteClientAssumption
<1>12. IsWhole(r)
  BY <1>10, <1>11 DEF IsWhole
<1>13. ASSUME NEW i \in 1 .. Len(pushed), IsWhole(pushed[i]) PROVE pushed[i][1] < r[1]
  BY <1>0, <1>4, <1>5, <1>11, <1>13, NextIsLater
<1> QED BY <1>1, <1>6, <1>12, <1>13 DEF Later, IsWhole

LEMMA OrderStep ==
  ASSUME TInv, TInv', SocketsKept, Lonely, Streamed, Order, [Next]_vars
  PROVE  Order'
<1> USE DEF window, sockets, receivers, outputs
<1>0. Shape /\ Typed /\ Points /\ Unborn /\ pushed \in Seq(SentRecords)
  BY DEF TInv, IInv, Typed
<1>1. CASE /\ UNCHANGED <<pushed, recvBuff, cut>>
           /\ overlapped => overlapped'
           /\ \A n \in Threads :
                rx'[n] \in {"store", "push"} => rx'[n] = rx[n] /\ rbuf'[n] = rbuf[n]
  <2> SUFFICES ASSUME ~overlapped' PROVE Order'
    BY DEF Order
  <2>2. ASSUME NEW n \in Threads, rx'[n] = "store"
        PROVE  Later(rbuf[n])' /\ (~cut' => IsWhole(rbuf[n])')
    <3>1. rx[n] = "store" /\ rbuf'[n] = rbuf[n]
      BY <1>1, <2>2
    <3>2. Later(rbuf[n]) /\ (~cut => IsWhole(rbuf[n]))
      BY <1>1, <3>1 DEF Order
    <3> QED BY <1>1, <3>1, <3>2 DEF Later, IsWhole
  <2>3. ASSUME NEW n \in Threads, rx'[n] = "push"
        PROVE  Later(recvBuff)' /\ (~cut' => IsWhole(recvBuff)')
    <3>1. rx[n] = "push"
      BY <1>1, <2>3
    <3>2. Later(recvBuff) /\ (~cut => IsWhole(recvBuff))
      BY <1>1, <3>1 DEF Order
    <3> QED BY <1>1, <3>2 DEF Later, IsWhole
  <2>4. (\A i, j \in 1 .. Len(pushed) :
           i < j /\ IsWhole(pushed[i]) /\ IsWhole(pushed[j]) => pushed[i][1] < pushed[j][1])'
    BY <1>1 DEF Order, IsWhole
  <2>5. (~cut => \A i \in 1 .. Len(pushed) : IsWhole(pushed[i]))'
    BY <1>1 DEF Order, IsWhole
  <2> QED BY <2>2, <2>3, <2>4, <2>5 DEF Order
<1>2. CASE \/ ClickConnect \/ ConnectFails \/ Connected \/ Started \/ HandleDisconnect
           \/ ClickDisconnect \/ ClickServer \/ ClickClient
           \/ \E h \in Handles : ServerSends(h) \/ ServerCloses(h)
  <2>1. UNCHANGED <<pushed, rbuf, recvBuff, cut>>
    BY <1>2 DEF ClickConnect, ConnectFails, Connected, Started, HandleDisconnect,
       ClickDisconnect, ClickServer, ClickClient, ServerSends, ServerCloses
  <2>3. overlapped => overlapped'
    <3>1. CASE ClickConnect
      BY <3>1 DEF ClickConnect
    <3>2. CASE UNCHANGED overlapped
      BY <3>2
    <3>3. ClickConnect \/ UNCHANGED overlapped
      BY <1>2 DEF ConnectFails, Connected, Started, HandleDisconnect, ClickDisconnect,
         ClickServer, ClickClient, ServerSends, ServerCloses
    <3> QED BY <3>1, <3>2, <3>3
  <2>2. \A n \in Threads : rx'[n] = rx[n] \/ rx'[n] \notin {"store", "push"}
    BY <1>0, <1>2 DEF ClickConnect, ConnectFails, Connected, Started, HandleDisconnect,
       ClickDisconnect, ClickServer, ClickClient, ServerSends, ServerCloses, Shape
  <2> QED BY <1>1, <2>1, <2>2, <2>3
<1>3. CASE \E n \in Threads :
             ReceiveTests(n) \/ ReceiveFails(n) \/ GiveUp(n) \/ PostDisconnect(n)
  <2>1. UNCHANGED <<pushed, rbuf, recvBuff, cut, overlapped>>
    BY <1>3 DEF ReceiveTests, ReceiveFails, GiveUp, PostDisconnect
  <2>2. \A n \in Threads : rx'[n] = rx[n] \/ rx'[n] \notin {"store", "push"}
    BY <1>0, <1>3 DEF ReceiveTests, ReceiveFails, GiveUp, PostDisconnect, Shape
  <2> QED BY <1>1, <2>1, <2>2
<1>4. CASE \/ \E n \in Threads :
                \/ OutputTests(n) \/ OutputWaits(n) \/ OutputTakes(n) \/ Inject(n)
                \/ SpuriousWake(n)
           \/ UNCHANGED vars
  <2>1. UNCHANGED <<pushed, rbuf, recvBuff, cut, overlapped, rx>>
    BY <1>4 DEF OutputTests, OutputWaits, OutputTakes, Inject, SpuriousWake, vars
  <2> QED BY <1>1, <2>1
<1>5. ASSUME NEW n \in Threads, CallReceive(n) PROVE Order'
  <2>1. UNCHANGED <<pushed, recvBuff, cut, overlapped>>
    BY <1>5 DEF CallReceive
  <2>2. /\ rx'[n] = "recv"
        /\ \A m \in Threads \ {n} : rx'[m] = rx[m] /\ rbuf'[m] = rbuf[m]
    BY <1>0, <1>5 DEF CallReceive, Shape, Typed
  <2> QED BY <1>1, <2>1, <2>2
<1>6. ASSUME NEW n \in Threads, Receive(n) PROVE Order'
  <2>1. UNCHANGED <<pushed, recvBuff, cut, overlapped>>
    BY <1>6 DEF Receive
  <2>2. /\ rx'[n] \in {"store", "rest"}
        /\ \A m \in Threads \ {n} : rx'[m] = rx[m] /\ rbuf'[m] = rbuf[m]
    BY <1>0, <1>6, Receives DEF Shape, Typed
  <2>3. ~overlapped /\ rx'[n] = "store" => Later(rbuf[n])' /\ IsWhole(rbuf[n])'
    BY <1>6, ReceivedIsNext
  <2> QED BY <2>1, <2>2, <2>3 DEF Order, Later, IsWhole
<1>7. ASSUME NEW n \in Threads, RestFails(n) PROVE Order'
  <2>1. UNCHANGED <<pushed, recvBuff, overlapped, rbuf>> /\ cut'
    BY <1>7 DEF RestFails
  <2>2. /\ rx[n] = "rest" /\ rx'[n] \in {"store", "rest"}
        /\ \A m \in Threads \ {n} : rx'[m] = rx[m]
    BY <1>0, <1>7 DEF RestFails, Shape
  <2>3. ~IsWhole(rbuf[n])
    <3>1. rbuf[n][RecordSize] = Junk
      BY <1>0, <2>2 DEF Points
    <3>2. Junk \notin 1 .. MaxSent
      BY RemoteClientAssumption
    <3> QED BY <3>1, <3>2, Whole
  <2> QED BY <2>1, <2>2, <2>3 DEF Order, Later, IsWhole
<1>8. ASSUME NEW n \in Threads, Store(n) PROVE Order'
  <2> SUFFICES ASSUME ~overlapped PROVE Order'
    BY <1>8 DEF Store, Order
  <2>1. UNCHANGED <<pushed, rbuf, cut, overlapped>> /\ recvBuff' = rbuf[n]
    BY <1>8 DEF Store
  <2>2. /\ rx[n] = "store" /\ rx'[n] = "push"
        /\ \A m \in Threads \ {n} : rx'[m] = rx[m]
    BY <1>0, <1>8 DEF Store, Shape
  <2>3. \A m \in Threads \ {n} : rx[m] \notin {"store", "push"}
    BY <2>2 DEF Lonely, Alive
  <2> QED BY <2>1, <2>2, <2>3 DEF Order, Later, IsWhole
<1>9. ASSUME NEW n \in Threads, Push(n) PROVE Order'
  <2> SUFFICES ASSUME ~overlapped PROVE Order'
    BY <1>9 DEF Push, Order
  <2>1. UNCHANGED <<cut, overlapped>> /\ pushed' = Append(pushed, recvBuff)
    BY <1>9 DEF Push
  <2>2. /\ rx[n] = "push" /\ rx'[n] = "test"
        /\ \A m \in Threads \ {n} : rx'[m] = rx[m]
    BY <1>0, <1>9 DEF Push, Shape
  <2>3. \A m \in Threads : rx'[m] \notin {"store", "push"}
    BY <2>2 DEF Lonely, Alive
  <2>4. /\ Len(pushed') = Len(pushed) + 1 /\ Len(pushed) \in Nat
        /\ \A i \in 1 .. Len(pushed) : pushed'[i] = pushed[i]
        /\ pushed'[Len(pushed) + 1] = recvBuff
    <3>1. recvBuff \in SentRecords
      BY <1>0 DEF Typed
    <3> QED BY <1>0, <2>1, <3>1, OneMore
  <2>5. Later(recvBuff) /\ (~cut => IsWhole(recvBuff))
    BY <2>2 DEF Order
  <2>6. ASSUME NEW i \in 1 .. Len(pushed'), NEW j \in 1 .. Len(pushed'), i < j,
               IsWhole(pushed'[i]), IsWhole(pushed'[j])
        PROVE  pushed'[i][1] < pushed'[j][1]
    <3>1. i \in 1 .. Len(pushed)
      BY <2>4, <2>6
    <3>2. CASE j \in 1 .. Len(pushed)
      BY <2>4, <2>6, <3>1, <3>2 DEF Order
    <3>3. CASE j = Len(pushed) + 1
      BY <2>4, <2>5, <2>6, <3>1, <3>3 DEF Later
    <3> QED BY <2>4, <3>2, <3>3
  <2>7. ASSUME ~cut, NEW i \in 1 .. Len(pushed') PROVE IsWhole(pushed'[i])
    <3>1. CASE i \in 1 .. Len(pushed)
      BY <2>4, <2>7, <3>1 DEF Order
    <3>2. CASE i = Len(pushed) + 1
      BY <2>4, <2>5, <2>7, <3>2
    <3> QED BY <2>4, <3>1, <3>2
  <2> QED BY <2>1, <2>3, <2>6, <2>7 DEF Order, IsWhole
<1> QED
  BY <1>2, <1>3, <1>4, <1>5, <1>6, <1>7, <1>8, <1>9, Steps

-----------------------------------------------------------------------------
(* What is injected, and what is on its way.                               *)

OInv == TInv /\ SocketsKept /\ Lonely /\ Kept /\ Streamed /\ Order

LEMMA InitOInv == Init => OInv
<1> SUFFICES ASSUME Init PROVE OInv
  OBVIOUS
<1>1. TInv
  BY InitTInv
<1>2. pushed = <<>> /\ injected = <<>> /\ queue = <<>> /\ batch = [n \in Threads |-> <<>>]
  BY DEF Init
<1>3. /\ ui = "idle" /\ sktServer = Invalid /\ Invalid \notin Handles
      /\ \A h \in Handles : open[h] = "closed" /\ wire[h] = <<>>
      /\ \A n \in Threads : rx[n] = "none" /\ ox[n] = "none"
  BY RemoteClientAssumption DEF Init
<1>4. SocketsKept /\ Lonely
  BY <1>3 DEF SocketsKept, Lonely, Alive
<1>5. Kept
  <2>1. Hand = <<>>
    BY <1>2 DEF Hand
  <2>2. (<<>> \o <<>>) \o <<>> = <<>>
    OBVIOUS
  <2> QED BY <1>2, <2>1, <2>2 DEF Kept
<1>6. Streamed
  BY <1>3 DEF Streamed, Present
<1>7. Order
  <2>1. Len(pushed) = 0
    BY <1>2
  <2>2. 1 .. Len(pushed) = {}
    BY <2>1
  <2>3. \A n \in Threads : rx[n] \notin {"store", "push"}
    BY <1>3
  <2> QED BY <2>2, <2>3 DEF Order
<1> QED BY <1>1, <1>4, <1>5, <1>6, <1>7 DEF OInv

LEMMA NextOInv == OInv /\ [Next]_vars => OInv'
<1> SUFFICES ASSUME OInv, [Next]_vars PROVE OInv'
  OBVIOUS
<1>1. TInv /\ SocketsKept /\ Lonely /\ Kept /\ Streamed /\ Order
  BY DEF OInv
<1>2. TInv'
  BY <1>1, NextTInv
<1>3. SocketsKept' /\ Lonely'
  BY <1>1, SocketsKeptStep, LonelyStep
<1>4. Kept'
  BY <1>1, KeptStep
<1>5. Streamed' /\ Order'
  BY <1>1, <1>2, StreamedStep, OrderStep
<1> QED BY <1>2, <1>3, <1>4, <1>5 DEF OInv

LEMMA OrderAlways == Spec => []OInv
  BY InitOInv, NextOInv, PTL DEF Spec

\* What was injected is the beginning of what was put into the queue.
LEMMA InjectedFirst ==
  ASSUME Typed, Kept, ~overlapped
  PROVE  /\ Len(injected) \in Nat /\ Len(pushed) \in Nat /\ Len(injected) <= Len(pushed)
         /\ \A i \in 1 .. Len(injected) : injected[i] = pushed[i]
<1>1. PICK a \in Seq(SentRecords), b \in Seq(SentRecords), c \in Seq(SentRecords) :
        a = injected /\ b = Hand /\ c = queue
  BY HandType DEF Typed
<1>2. pushed = (a \o b) \o c
  BY <1>1 DEF Kept
<1>3. /\ Len((a \o b) \o c) = Len(a) + Len(b) + Len(c)
      /\ Len(a) \in Nat /\ Len(b) \in Nat /\ Len(c) \in Nat
  OBVIOUS
<1>4. \A i \in 1 .. Len(a) : ((a \o b) \o c)[i] = a[i]
  OBVIOUS
<1>5. Len(a) + Len(b) + Len(c) \in Nat /\ Len(a) <= Len(a) + Len(b) + Len(c)
  BY <1>3
<1> QED BY <1>1, <1>2, <1>3, <1>4, <1>5

\* The queue is first in, first out through three hands: if Connect was never
\* clicked while older threads ran, what ReceiveThreads have put into it was
\* injected, is in the batch of the present OutputThread, or still there, in
\* exactly this order.
THEOREM FirstInFirstOut == Spec => []Kept
<1>1. OInv => Kept
  BY DEF OInv
<1> QED BY <1>1, OrderAlways, PTL

\* However recv cuts the stream, however the threads interleave, and over any
\* number of connections: if Connect was never clicked while older threads ran,
\* records are injected in the order in which the servers sent them, none
\* twice; and unless a disconnect has cut a record in two, nothing else is.
THEOREM InjectedAlwaysInOrder == Spec => []InjectedInOrder
<1>1. OInv => InjectedInOrder
  <2> SUFFICES ASSUME OInv, ~overlapped
               PROVE  /\ \A i, j \in DOMAIN injected :
                           i < j /\ IsWhole(injected[i]) /\ IsWhole(injected[j]) =>
                             injected[i][1] < injected[j][1]
                      /\ ~cut => \A i \in DOMAIN injected : IsWhole(injected[i])
    BY DEF InjectedInOrder
  <2>1. Typed /\ Kept /\ Order /\ injected \in Seq(SentRecords)
    BY DEF OInv, TInv, Typed
  <2>2. DOMAIN injected = 1 .. Len(injected)
    BY <2>1
  <2>3. \A i \in 1 .. Len(injected) : i \in 1 .. Len(pushed) /\ injected[i] = pushed[i]
    BY <2>1, InjectedFirst
  <2>4. /\ \A i, j \in 1 .. Len(pushed) :
             i < j /\ IsWhole(pushed[i]) /\ IsWhole(pushed[j]) => pushed[i][1] < pushed[j][1]
        /\ ~cut => \A i \in 1 .. Len(pushed) : IsWhole(pushed[i])
    BY <2>1 DEF Order
  <2> QED BY <2>2, <2>3, <2>4
<1> QED BY <1>1, OrderAlways, PTL

\* A record that a server has sent is not lost while its connection is there:
\* with what is injected, in the batch of the connection's OutputThread and in
\* the queue, what ReceiveThread holds and what the socket holds continue the
\* stream without a gap; nothing of an older connection comes behind it; and as
\* long as the server has not left, all that it has sent is accounted for.
THEOREM NothingEverSkipped == Spec => []NothingSkipped
<1>1. OInv => NothingSkipped
  <2> SUFFICES ASSUME OInv, ~overlapped, isConnected, open[sktServer] # "reset",
                      connects > 0
               PROVE  \E d \in 0 .. Len((injected \o batch[connects]) \o queue) :
                        LET whole == (injected \o batch[connects]) \o queue
                            bytes == UnderWay(connects) \o wire[sktServer]
                        IN  /\ \A i \in 1 .. Len(whole) - d : \A k \in 1 .. RecordSize :
                                 whole[i][k] = Junk \/ whole[i][k] <= base
                            /\ \A i \in 1 .. d : whole[Len(whole) - d + i] = Record(base + i)
                            /\ IsStream(bytes, d)
                            /\ open[sktServer] = "open" =>
                                 d * RecordSize + Len(bytes) = (sent - base) * RecordSize
    BY DEF NothingSkipped
  <2>1. TInv /\ Alone /\ Lonely /\ Kept /\ Streamed
    BY DEF OInv, TInv, IInv
  <2>2. Present
    BY <2>1 DEF Alone, Up, Present
  <2>3. PICK d \in 0 .. Len(pushed) : At(d)
    BY <2>1, <2>2 DEF Streamed
  <2>4. connects \in Threads /\ Coming \in Seq(1 .. sent \cup {Junk})
    BY <2>1, <2>2, ComingType
  <2>5. pushed = (injected \o batch[connects]) \o queue
    BY <2>1, <2>4 DEF Kept, Hand
  <2>6. IsStream(Coming, d)
    <3>1. DOMAIN Coming = 1 .. Len(Coming)
      BY <2>4
    <3>2. Runs(Coming, d, base)
      BY <2>3 DEF At
    <3> QED BY <3>1, <3>2 DEF IsStream, Runs
  <2>7. /\ \A i \in 1 .. Len(pushed) - d : \A k \in 1 .. RecordSize :
             pushed[i][k] = Junk \/ pushed[i][k] <= base
        /\ \A i \in 1 .. d : pushed[Len(pushed) - d + i] = Record(base + i)
        /\ open[sktServer] = "open" =>
             d * RecordSize + Len(Coming) = (sent - base) * RecordSize
    BY <2>3 DEF At, Took
  <2>8. Coming = UnderWay(connects) \o wire[sktServer]
    BY DEF Coming
  <2> QED BY <2>3, <2>5, <2>6, <2>7, <2>8
<1> QED BY <1>1, OrderAlways, PTL
=============================================================================
