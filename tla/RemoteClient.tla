---------------------------- MODULE RemoteClient ----------------------------
(***************************************************************************)
(* The input connection of a Remote client: the window thread that         *)
(* connects and disconnects, and the ReceiveThread and OutputThread that   *)
(* every connection starts and nothing ever joins.                         *)
(*                                                                         *)
(* The n-th connection's threads are thread n.  A handle is the number     *)
(* that socket() returns and may return again once it was closed.  The     *)
(* server sends INPUT records of RecordSize bytes, all of them the number  *)
(* of the record; a connection is a sequence of bytes, of which a recv     *)
(* returns as many as it likes.                                            *)
(*                                                                         *)
(* Operators marked FAULTY are variants with one plausible mistake; no     *)
(* behaviour uses them.                                                    *)
(***************************************************************************)
EXTENDS Integers, SequencesExt

CONSTANTS
  Handles,         \* that socket() can return
  Invalid,         \* INVALID_SOCKET
  MaxConnections,  \* bound: how often the user clicks on Connect
  MaxSent,         \* bound: records that servers send
  RecordSize,      \* sizeof(INPUT)
  Junk             \* a byte nobody has written

ASSUME RemoteClientAssumption ==
  /\ Invalid \notin Handles
  /\ {MaxConnections, RecordSize} \subseteq Nat \ {0}
  /\ MaxSent \in Nat
  /\ Junk \notin Nat

VARIABLES
  ui,           \* what the window thread is doing
  posted,       \* BTN_DISCONNECT messages in the queue of the window
  enabled,      \* the buttons that are enabled; "mode" is both mode buttons
  mode,         \* Data.nMode
  isConnected,  \* Client.isConnected
  sktServer,    \* Client.sktServer
  open,         \* what a handle stands for
  wire,         \* bytes that can be received from it
  rx,           \* what a ReceiveThread is doing
  rsock,        \* sktConn of its ReceiveServer
  rgot,         \* bytes_rec of it
  rbuf,         \* *buff of it
  recvBuff,     \* Client.recvBuff
  queue,        \* Client.inputQueue
  ox,           \* what an OutputThread is doing
  batch,        \* its tInputs
  injected,     \* records given to SendInput
  pushed,       \* history: records put into the queue
  sent,         \* history: number of records sent
  base,         \* history: their number when the last connection began
  connects,     \* history: number of clicks on Connect
  overlapped,   \* history: was Connect clicked while older threads ran
  cut           \* history: did a recv fail in the middle of a record

window == <<ui, posted, enabled, mode, connects, overlapped>>
sockets == <<open, wire, sent>>
receivers == <<rx, rsock, rgot, rbuf>>
outputs == <<ox, batch, injected>>
vars == <<window, isConnected, sktServer, sockets, receivers, recvBuff, queue,
          outputs, pushed, base, cut>>

Threads == 1 .. MaxConnections

Alive(n) == rx[n] \notin {"none", "ended"} \/ ox[n] \notin {"none", "ended"}

NoBytes == [i \in 1 .. RecordSize |-> Junk]

\* A program in client mode that has not been connected yet.
Init ==
  /\ ui = "idle" /\ posted = 0 /\ enabled = {"connect", "mode"}
  /\ mode = "client" /\ isConnected = FALSE /\ sktServer = Invalid
  /\ open = [h \in Handles |-> "closed"]
  /\ wire = [h \in Handles |-> <<>>]
  /\ rx = [n \in Threads |-> "none"]
  /\ rsock = [n \in Threads |-> Invalid]
  /\ rgot = [n \in Threads |-> 0]
  /\ rbuf = [n \in Threads |-> NoBytes]
  /\ recvBuff = NoBytes /\ queue = <<>>
  /\ ox = [n \in Threads |-> "none"]
  /\ batch = [n \in Threads |-> <<>>]
  /\ injected = <<>> /\ pushed = <<>>
  /\ sent = 0 /\ base = 0 /\ connects = 0
  /\ overlapped = FALSE /\ cut = FALSE

\* notify_all
Woken == [n \in Threads |-> IF ox[n] = "wait" THEN "test" ELSE ox[n]]

-----------------------------------------------------------------------------
(* The window thread.  A message that was posted is retrieved before a     *)
(* click.                                                                  *)

Idle == ui = "idle" /\ posted = 0

\* socket() writes to sktServer, whatever was in it.
ClickConnect ==
  /\ Idle /\ mode = "client" /\ "connect" \in enabled
  /\ connects < MaxConnections
  /\ connects' = connects + 1
  /\ overlapped' = (overlapped \/ \E n \in Threads : Alive(n))
  /\ \/ \E h \in Handles :
          /\ open[h] = "closed"
          /\ open' = [open EXCEPT ![h] = "connecting"]
          /\ sktServer' = h /\ ui' = "connecting"
     \/ sktServer' = Invalid /\ UNCHANGED <<open, ui>>
  /\ UNCHANGED <<posted, enabled, mode, isConnected, wire, sent, receivers,
                 recvBuff, queue, outputs, pushed, base, cut>>

ConnectFails ==
  /\ ui = "connecting" /\ ui' = "idle"
  /\ open' = [open EXCEPT ![sktServer] = "closed"]
  /\ sktServer' = Invalid
  /\ UNCHANGED <<posted, enabled, mode, connects, overlapped, isConnected, wire,
                 sent, receivers, recvBuff, queue, outputs, pushed, base, cut>>

Connected ==
  /\ ui = "connecting" /\ ui' = "connected"
  /\ open' = [open EXCEPT ![sktServer] = "open"]
  /\ isConnected' = TRUE
  /\ base' = sent
  /\ UNCHANGED <<posted, enabled, mode, connects, overlapped, sktServer, wire,
                 sent, receivers, recvBuff, queue, outputs, pushed, cut>>

\* FAULTY: the buttons do not follow.
StartedButtonsStay ==
  /\ ui = "connected" /\ ui' = "idle"
  /\ rx' = [rx EXCEPT ![connects] = "test"]
  /\ ox' = [ox EXCEPT ![connects] = "test"]
  /\ UNCHANGED <<posted, enabled, mode, connects, overlapped, isConnected,
                 sktServer, sockets, rsock, rgot, rbuf, recvBuff, queue, batch,
                 injected, pushed, base, cut>>

\* UpdateGuiControls looks at isConnected, which a ReceiveThread may have
\* cleared again.
Started ==
  /\ ui = "connected" /\ ui' = "idle"
  /\ enabled' = IF isConnected THEN {"disconnect"} ELSE enabled
  /\ rx' = [rx EXCEPT ![connects] = "test"]
  /\ ox' = [ox EXCEPT ![connects] = "test"]
  /\ UNCHANGED <<posted, mode, connects, overlapped, isConnected, sktServer,
                 sockets, rsock, rgot, rbuf, recvBuff, queue, batch, injected,
                 pushed, base, cut>>

\* FAULTY: the socket is not closed, so that a recv goes on waiting.
DisconnectKeepsSocket ==
  /\ isConnected' = FALSE /\ ox' = Woken
  /\ enabled' = (enabled \ {"disconnect"}) \cup {"connect", "mode"}
  /\ UNCHANGED <<open, wire>>

\* ClientDisconnect.  sktServer keeps its value.
Disconnect ==
  /\ open' = [h \in Handles |-> IF h = sktServer THEN "closed" ELSE open[h]]
  /\ wire' = [h \in Handles |-> IF h = sktServer THEN <<>> ELSE wire[h]]
  /\ isConnected' = FALSE /\ ox' = Woken
  /\ enabled' = (enabled \ {"disconnect"}) \cup {"connect", "mode"}

ClickDisconnect ==
  /\ Idle /\ mode = "client" /\ "disconnect" \in enabled
  /\ Disconnect
  /\ UNCHANGED <<ui, posted, mode, connects, overlapped, sktServer, sent,
                 receivers, recvBuff, queue, batch, injected, pushed, base, cut>>

\* The message that ReceiveThread has posted; no button is looked at.
HandleDisconnect ==
  /\ ui = "idle" /\ posted > 0 /\ posted' = posted - 1
  /\ Disconnect
  /\ UNCHANGED <<ui, mode, connects, overlapped, sktServer, sent, receivers,
                 recvBuff, queue, batch, injected, pushed, base, cut>>

ClickServer ==
  /\ Idle /\ mode = "client" /\ "mode" \in enabled
  /\ mode' = "server"
  /\ enabled' = enabled \ {"connect", "disconnect"}
  /\ UNCHANGED <<ui, posted, connects, overlapped, isConnected, sktServer,
                 sockets, receivers, recvBuff, queue, outputs, pushed, base, cut>>

ClickClient ==
  /\ Idle /\ mode = "server" /\ "mode" \in enabled
  /\ mode' = "client"
  /\ enabled' = IF isConnected THEN {"disconnect"}
                ELSE (enabled \ {"disconnect"}) \cup {"connect"}
  /\ UNCHANGED <<ui, posted, connects, overlapped, isConnected, sktServer,
                 sockets, receivers, recvBuff, queue, outputs, pushed, base, cut>>

WindowStep == ConnectFails \/ Connected \/ Started \/ HandleDisconnect

Click == ClickConnect \/ ClickDisconnect \/ ClickServer \/ ClickClient

-----------------------------------------------------------------------------
(* The server: any program that speaks the protocol, such as SendThread of *)
(* the older revision.  It may leave in the middle of a record, with or    *)
(* without a reset.                                                        *)

Record(id) == [i \in 1 .. RecordSize |-> id]

ServerSends(h) ==
  /\ open[h] = "open" /\ sent < MaxSent
  /\ sent' = sent + 1
  /\ \E k \in 1 .. RecordSize :
       /\ wire' = [wire EXCEPT ![h] = @ \o SubSeq(Record(sent + 1), 1, k)]
       /\ open' = IF k = RecordSize THEN open ELSE [open EXCEPT ![h] = "eof"]
  /\ UNCHANGED <<window, isConnected, sktServer, receivers, recvBuff, queue,
                 outputs, pushed, base, cut>>

ServerCloses(h) ==
  /\ open[h] = "open"
  /\ \/ open' = [open EXCEPT ![h] = "eof"] /\ UNCHANGED wire
     \/ open' = [open EXCEPT ![h] = "reset"] /\ wire' = [wire EXCEPT ![h] = <<>>]
  /\ UNCHANGED <<window, isConnected, sktServer, sent, receivers, recvBuff,
                 queue, outputs, pushed, base, cut>>

-----------------------------------------------------------------------------
(* ReceiveThread.                                                          *)

GoOn == isConnected /\ mode = "client"

ReceiveTests(n) ==
  /\ rx[n] = "test"
  /\ rx' = [rx EXCEPT ![n] = IF GoOn THEN "call" ELSE "ended"]
  /\ UNCHANGED <<window, isConnected, sktServer, sockets, rsock, rgot, rbuf,
                 recvBuff, queue, outputs, pushed, base, cut>>

\* ReceiveServer is called with the socket of this moment and a new INPUT.
CallReceive(n) ==
  /\ rx[n] = "call"
  /\ rx' = [rx EXCEPT ![n] = "recv"]
  /\ rsock' = [rsock EXCEPT ![n] = sktServer]
  /\ rgot' = [rgot EXCEPT ![n] = 0]
  /\ rbuf' = [rbuf EXCEPT ![n] = NoBytes]
  /\ UNCHANGED <<window, isConnected, sktServer, sockets, recvBuff, queue,
                 outputs, pushed, base, cut>>

\* FAULTY: the rest of a record is not waited for.
ReceiveOnce(n) ==
  LET h == rsock[n] IN
  /\ rx[n] = "recv" /\ h # Invalid /\ wire[h] # <<>>
  /\ \E k \in 1 .. RecordSize :
       /\ k <= Len(wire[h])
       /\ rbuf' = [rbuf EXCEPT ![n] = [i \in 1 .. RecordSize |->
                     IF i <= k THEN wire[h][i] ELSE @[i]]]
       /\ wire' = [wire EXCEPT ![h] = SubSeq(@, k + 1, Len(@))]
  /\ rx' = [rx EXCEPT ![n] = "store"]
  /\ UNCHANGED <<window, isConnected, sktServer, open, sent, rsock, rgot,
                 recvBuff, queue, outputs, pushed, base, cut>>

\* FAULTY: a record that comes in pieces is taken for an error.
ReceiveWholeOnly(n) ==
  LET h == rsock[n] IN
  /\ rx[n] = "recv" /\ h # Invalid /\ wire[h] # <<>>
  /\ \E k \in 1 .. RecordSize :
       /\ k <= Len(wire[h])
       /\ rbuf' = [rbuf EXCEPT ![n] = [i \in 1 .. RecordSize |->
                     IF i <= k THEN wire[h][i] ELSE @[i]]]
       /\ wire' = [wire EXCEPT ![h] = SubSeq(@, k + 1, Len(@))]
       /\ rx' = [rx EXCEPT ![n] = IF k = RecordSize THEN "store" ELSE "failed"]
  /\ UNCHANGED <<window, isConnected, sktServer, open, sent, rsock, rgot,
                 recvBuff, queue, outputs, pushed, base, cut>>

\* A recv, the first one or one of the loop that completes a record, has
\* returned k bytes.
Receive(n) ==
  LET h == rsock[n] IN
  /\ rx[n] \in {"recv", "rest"} /\ h # Invalid /\ wire[h] # <<>>
  /\ \E k \in 1 .. RecordSize - rgot[n] :
       /\ k <= Len(wire[h])
       /\ rbuf' = [rbuf EXCEPT ![n] = [i \in 1 .. RecordSize |->
                     IF i \in rgot[n] + 1 .. rgot[n] + k THEN wire[h][i - rgot[n]]
                     ELSE @[i]]]
       /\ wire' = [wire EXCEPT ![h] = SubSeq(@, k + 1, Len(@))]
       /\ rgot' = [rgot EXCEPT ![n] = @ + k]
       /\ rx' = [rx EXCEPT ![n] = IF rgot[n] + k = RecordSize THEN "store"
                                  ELSE "rest"]
  /\ UNCHANGED <<window, isConnected, sktServer, open, sent, rsock, recvBuff,
                 queue, outputs, pushed, base, cut>>

\* A recv of a socket returns -1, or 0.
Fails(h) == h \notin {x \in Handles : open[x] \in {"open", "eof"}}
AtEnd(h) == h \in {x \in Handles : open[x] = "eof" /\ wire[x] = <<>>}

\* The first recv has returned 0 or -1.
ReceiveFails(n) ==
  /\ rx[n] = "recv" /\ (Fails(rsock[n]) \/ AtEnd(rsock[n]))
  /\ rx' = [rx EXCEPT ![n] = "failed"]
  /\ UNCHANGED <<window, isConnected, sktServer, sockets, rsock, rgot, rbuf,
                 recvBuff, queue, outputs, pushed, base, cut>>

\* FAULTY: the comparison is signed.
RestFailsSigned(n) ==
  /\ rx[n] = "rest" /\ Fails(rsock[n])
  /\ rgot' = [rgot EXCEPT ![n] = @ - 1]
  /\ cut' = TRUE
  /\ UNCHANGED <<window, isConnected, sktServer, sockets, rx, rsock, rbuf,
                 recvBuff, queue, outputs, pushed, base>>

\* A recv of the loop has returned -1, which is added to bytes_rec.  At -1 the
\* comparison with sizeof(INPUT), which is unsigned, ends the loop.  A 0 (the
\* server has closed) is added as well, so that the loop runs without a step
\* here until the socket is closed on this side.
RestFails(n) ==
  /\ rx[n] = "rest" /\ Fails(rsock[n])
  /\ rgot' = [rgot EXCEPT ![n] = @ - 1]
  /\ rx' = [rx EXCEPT ![n] = IF rgot[n] = 0 THEN "store" ELSE "rest"]
  /\ cut' = TRUE
  /\ UNCHANGED <<window, isConnected, sktServer, sockets, rsock, rbuf,
                 recvBuff, queue, outputs, pushed, base>>

\* data = *buff: all ReceiveThreads share recvBuff.
Store(n) ==
  /\ rx[n] = "store"
  /\ rx' = [rx EXCEPT ![n] = "push"]
  /\ recvBuff' = rbuf[n]
  /\ UNCHANGED <<window, isConnected, sktServer, sockets, rsock, rgot, rbuf,
                 queue, outputs, pushed, base, cut>>

\* FAULTY: nobody is notified.
PushQuietly(n) ==
  /\ rx[n] = "push"
  /\ rx' = [rx EXCEPT ![n] = "test"]
  /\ queue' = Append(queue, recvBuff)
  /\ pushed' = Append(pushed, recvBuff)
  /\ UNCHANGED <<window, isConnected, sktServer, sockets, rsock, rgot, rbuf,
                 recvBuff, outputs, base, cut>>

Push(n) ==
  /\ rx[n] = "push"
  /\ rx' = [rx EXCEPT ![n] = "test"]
  /\ queue' = Append(queue, recvBuff)
  /\ pushed' = Append(pushed, recvBuff)
  /\ ox' = Woken
  /\ UNCHANGED <<window, isConnected, sktServer, sockets, rsock, rgot, rbuf,
                 recvBuff, batch, injected, base, cut>>

GiveUp(n) ==
  /\ rx[n] = "failed"
  /\ rx' = [rx EXCEPT ![n] = "post"]
  /\ isConnected' = FALSE
  /\ UNCHANGED <<window, sktServer, sockets, rsock, rgot, rbuf, recvBuff, queue,
                 outputs, pushed, base, cut>>

PostDisconnect(n) ==
  /\ rx[n] = "post"
  /\ rx' = [rx EXCEPT ![n] = "test"]
  /\ posted' = posted + 1
  /\ UNCHANGED <<ui, enabled, mode, connects, overlapped, isConnected, sktServer,
                 sockets, rsock, rgot, rbuf, recvBuff, queue, outputs, pushed,
                 base, cut>>

ReceiveThread(n) ==
  \/ ReceiveTests(n) \/ CallReceive(n) \/ Receive(n) \/ ReceiveFails(n)
  \/ RestFails(n) \/ Store(n) \/ Push(n) \/ GiveUp(n) \/ PostDisconnect(n)

-----------------------------------------------------------------------------
(* OutputThread.  A waiting thread that is woken tests its condition again.*)

OutputTests(n) ==
  /\ ox[n] = "test"
  /\ ox' = [ox EXCEPT ![n] = IF GoOn THEN "lock" ELSE "ended"]
  /\ UNCHANGED <<window, isConnected, sktServer, sockets, receivers, recvBuff,
                 queue, batch, injected, pushed, base, cut>>

OutputWaits(n) ==
  /\ ox[n] = "lock" /\ queue = <<>>
  /\ ox' = [ox EXCEPT ![n] = "wait"]
  /\ UNCHANGED <<window, isConnected, sktServer, sockets, receivers, recvBuff,
                 queue, batch, injected, pushed, base, cut>>

\* FAULTY: the queue keeps what was taken.
OutputCopies(n) ==
  /\ ox[n] = "lock" /\ queue # <<>>
  /\ ox' = [ox EXCEPT ![n] = "inject"]
  /\ batch' = [batch EXCEPT ![n] = queue]
  /\ queue' = Tail(queue)
  /\ UNCHANGED <<window, isConnected, sktServer, sockets, receivers, recvBuff,
                 injected, pushed, base, cut>>

OutputTakes(n) ==
  /\ ox[n] = "lock" /\ queue # <<>>
  /\ ox' = [ox EXCEPT ![n] = "inject"]
  /\ batch' = [batch EXCEPT ![n] = queue]
  /\ queue' = <<>>
  /\ UNCHANGED <<window, isConnected, sktServer, sockets, receivers, recvBuff,
                 injected, pushed, base, cut>>

\* FAULTY: only the first record of the batch is injected.
InjectFirst(n) ==
  /\ ox[n] = "inject"
  /\ ox' = [ox EXCEPT ![n] = "test"]
  /\ injected' = Append(injected, batch[n][1])
  /\ batch' = [batch EXCEPT ![n] = <<>>]
  /\ UNCHANGED <<window, isConnected, sktServer, sockets, receivers, recvBuff,
                 queue, pushed, base, cut>>

Inject(n) ==
  /\ ox[n] = "inject"
  /\ ox' = [ox EXCEPT ![n] = "test"]
  /\ injected' = injected \o batch[n]
  /\ batch' = [batch EXCEPT ![n] = <<>>]
  /\ UNCHANGED <<window, isConnected, sktServer, sockets, receivers, recvBuff,
                 queue, pushed, base, cut>>

SpuriousWake(n) ==
  /\ ox[n] = "wait"
  /\ ox' = [ox EXCEPT ![n] = "test"]
  /\ UNCHANGED <<window, isConnected, sktServer, sockets, receivers, recvBuff,
                 queue, batch, injected, pushed, base, cut>>

OutputThread(n) ==
  OutputTests(n) \/ OutputWaits(n) \/ OutputTakes(n) \/ Inject(n)

-----------------------------------------------------------------------------
Next ==
  \/ WindowStep \/ Click
  \/ \E h \in Handles : ServerSends(h) \/ ServerCloses(h)
  \/ \E n \in Threads : ReceiveThread(n) \/ OutputThread(n) \/ SpuriousWake(n)

Spec == Init /\ [][Next]_vars

\* The scheduler runs every thread that can run.  Nobody has to click, no
\* server has to send, and condition variables need not wake by themselves.
FairSpec ==
  /\ Spec
  /\ WF_vars(WindowStep)
  /\ \A n \in Threads : WF_vars(ReceiveThread(n)) /\ WF_vars(OutputThread(n))

-----------------------------------------------------------------------------
(* Properties.                                                             *)

Bytes == 1 .. MaxSent \cup {Junk}
Records == [1 .. RecordSize -> Bytes]

\* Every variable keeps its type; bytes_rec stays in the buffer, or is the -1
\* that ends the loop, and more than one message is only posted by as many
\* threads.
TypeOK ==
  /\ ui \in {"idle", "connecting", "connected"}
  /\ posted \in 0 .. 2 * MaxConnections
  /\ enabled \subseteq {"connect", "disconnect", "mode"}
  /\ mode \in {"client", "server"} /\ isConnected \in BOOLEAN
  /\ sktServer \in Handles \cup {Invalid}
  /\ open \in [Handles -> {"closed", "connecting", "open", "eof", "reset"}]
  /\ wire \in [Handles -> Seq(1 .. MaxSent)]
  /\ rx \in [Threads -> {"none", "test", "call", "recv", "rest", "store", "push",
                         "failed", "post", "ended"}]
  /\ rsock \in [Threads -> Handles \cup {Invalid}]
  /\ rgot \in [Threads -> -1 .. RecordSize]
  /\ \A n \in Threads : rgot[n] = -1 => rx[n] # "rest"
  /\ rbuf \in [Threads -> Records] /\ recvBuff \in Records
  /\ {queue, injected, pushed} \subseteq Seq(Records)
  /\ ox \in [Threads -> {"none", "test", "lock", "wait", "inject", "ended"}]
  /\ batch \in [Threads -> Seq(Records)]
  /\ sent \in 0 .. MaxSent /\ base \in 0 .. sent
  /\ connects \in 0 .. MaxConnections
  /\ overlapped \in BOOLEAN /\ cut \in BOOLEAN

Where(r, s) == {i \in DOMAIN s : s[i] = r}
Occurrences(r, s) == Cardinality(Where(r, s))

InBatches(r) == Cardinality(UNION {{n} \X Where(r, batch[n]) : n \in Threads})

\* What ReceiveThreads have put into the queue is there, in one batch of an
\* OutputThread, or injected, and only once, however many threads of older
\* connections are still at work on the same queue.
QueueConserved ==
  \A i \in DOMAIN pushed :
    LET r == pushed[i] IN
    Occurrences(r, pushed) =
      Occurrences(r, injected) + InBatches(r)
        + Occurrences(r, queue)

IsWhole(r) == \E id \in 1 .. MaxSent : r = Record(id)

\* If Connect was never clicked while older threads ran, records are injected
\* in the order in which they were sent and only once, over all connections,
\* those that an older connection has left in the queue included; and nothing
\* else is injected unless a record was cut in two by a disconnect.
InjectedInOrder ==
  ~overlapped =>
    /\ \A i, j \in DOMAIN injected :
         i < j /\ IsWhole(injected[i]) /\ IsWhole(injected[j]) =>
           injected[i][1] < injected[j][1]
    /\ ~cut => \A i \in DOMAIN injected : IsWhole(injected[i])

\* What ReceiveThread n has received of a record that is not in the queue yet.
UnderWay(n) ==
  IF rx[n] = "rest" THEN SubSeq(rbuf[n], 1, rgot[n])
  ELSE IF rx[n] = "store" THEN rbuf[n]
  ELSE IF rx[n] = "push" THEN recvBuff
  ELSE <<>>

\* The stream of the present connection without its first d records.
IsStream(bytes, d) ==
  \A i \in DOMAIN bytes : bytes[i] = base + d + (i - 1) \div RecordSize + 1

\* If Connect was never clicked while older threads ran, what the server of
\* the present connection has sent is injected or on its way, in order and
\* without a gap, at every moment of the connection.
NothingSkipped ==
  ~overlapped /\ isConnected /\ open[sktServer] # "reset" /\ connects > 0 =>
    LET whole == injected \o batch[connects] \o queue
        bytes == UnderWay(connects) \o wire[sktServer]
    IN \E d \in 0 .. Len(whole) :
         /\ \A i \in 1 .. Len(whole) - d : \A k \in 1 .. RecordSize :
              whole[i][k] = Junk \/ whole[i][k] <= base
         /\ \A i \in 1 .. d : whole[Len(whole) - d + i] = Record(base + i)
         /\ IsStream(bytes, d)
         /\ open[sktServer] = "open" =>
              d * RecordSize + Len(bytes) = (sent - base) * RecordSize

\* The buttons follow the connection whatever order the threads and the late
\* disconnect messages come in: while the window is idle, nobody can connect
\* or change the mode on top of a connection that is up.
ButtonsFollow ==
  ui = "idle" /\ isConnected => enabled = {"disconnect"} /\ mode = "client"

\* A connection ends because the user or the server ends it.  A thread of an
\* older connection, or the message it has posted, can only end it if it was
\* still there when Connect was clicked.
EndsForAReason ==
  [][isConnected /\ ~isConnected' =>
       \/ ClickDisconnect \/ overlapped
       \/ open[sktServer] \in {"eof", "reset"}]_vars

\* After a disconnect every ReceiveThread ends, or goes on with the next
\* connection: none keeps waiting in a recv, on a socket that was replaced or
\* in the middle of a record.
ReceiveThreadsEnd ==
  ~isConnected ~>
    (isConnected \/ \A n \in Threads : rx[n] \in {"none", "ended"})

\* What is in the queue is taken while the connection lasts.
QueueDrains == queue # <<>> ~> (queue = <<>> \/ ~isConnected)

\* "Ending receive thread": after ClientDisconnect has notified cond_input the
\* OutputThreads end as well.
ClientThreadsEnd ==
  ~isConnected ~>
    (isConnected \/ \A n \in Threads : ox[n] \in {"none", "ended"})
=============================================================================
