---------------------------- MODULE InputChannel ----------------------------
(***************************************************************************)
(* The input stream of one client: the stream window and the main window   *)
(* send INPUT records into a TCP connection, and a ServerInputRecvThread   *)
(* takes whatever a recv returns for one record.                           *)
(*                                                                         *)
(* A byte of the stream is known by its number: record e has the bytes     *)
(* (e - 1) * InputSize + 1 to e * InputSize.  What a byte holds matters    *)
(* only when two of them are taken for a RemoteCtrlMsg.                    *)
(*                                                                         *)
(* Operators marked FAULTY are variants with one plausible mistake; no     *)
(* behaviour uses them.                                                    *)
(***************************************************************************)
EXTENDS Integers, Sequences

CONSTANTS
  InputSize,  \* sizeof(INPUT): 28 or 40
  FirstFps,   \* SCREEN_STREAM_FPS or the value of the configuration file
  Unset,      \* g_streamingQuality before any message
  Stray,      \* what is in memory behind the array levels
  MaxSent     \* bound: records that are sent

\* A RemoteCtrlMsg has two bytes.
CtrlSize == 2

ASSUME InputChannelAssumption ==
  /\ InputSize \in Nat /\ InputSize > CtrlSize
  /\ FirstFps \in 5 .. 60
  /\ MaxSent \in Nat

VARIABLES
  open,       \* does the client hold the connection
  menuFps,    \* client: the rate that is checked in the menu
  sent,       \* history: records that were sent
  stream,     \* bytes that were sent and not received
  receiving,  \* does the server's thread run
  injected,   \* history: what was given to SendInput
  fps,        \* server: g_streamingFps
  quality,    \* server: g_streamingQuality
  cut         \* history: has a recv returned less than a record

client == <<open, menuFps, sent>>
server == <<receiving, injected, fps, quality, cut>>
vars == <<client, stream, server>>

MenuRates == {5, 10, 20, 30, 40, 60}

Record(e) == [k \in 1 .. InputSize |-> (e - 1) * InputSize + k]

Init ==
  /\ open = TRUE /\ menuFps = FirstFps /\ sent = 0
  /\ stream = <<>>
  /\ receiving = TRUE /\ injected = <<>> /\ cut = FALSE
  /\ fps = FirstFps /\ quality = Unset

-----------------------------------------------------------------------------
(* The client.                                                             *)

\* A mouse or key message of the stream window, or a WM_INPUT of the main
\* window: both send one record to the same socket.
SendEvent ==
  /\ open /\ sent < MaxSent
  /\ sent' = sent + 1
  /\ stream' = stream \o Record(sent + 1)
  /\ UNCHANGED <<open, menuFps, server>>

\* FAULTY: the menu reaches the input socket, as it is meant to.
ChooseFpsSends ==
  /\ open
  /\ menuFps' \in MenuRates
  /\ stream' = stream \o <<0, 0>>
  /\ UNCHANGED <<open, sent, server>>

\* The menu changes what the client shows and no more: the handler takes the
\* ScreenBitmapState of the window for a pointer to the socket, and a send to
\* what it finds there fails.  So do the quality levels and key combinations.
ChooseFps ==
  /\ open
  /\ menuFps' \in MenuRates
  /\ UNCHANGED <<open, sent, stream, server>>

\* The client disconnects; what it has sent still arrives.
ClientCloses ==
  /\ open /\ open' = FALSE
  /\ UNCHANGED <<menuFps, sent, stream, server>>

\* The connection is reset: what was on the way is lost.
ConnectionLost ==
  /\ open /\ open' = FALSE /\ stream' = <<>>
  /\ UNCHANGED <<menuFps, sent, server>>

-----------------------------------------------------------------------------
(* The server.                                                             *)

Least(a, b) == IF a < b THEN a ELSE b

\* levels has the five elements 20, 40, 60, 80 and 100.
Level(q) == IF q = 5 THEN Stray ELSE 20 * (q + 1)

\* FAULTY: any rate is taken.
SetFpsUnfiltered ==
  /\ fps' \in 0 .. 255 /\ quality' = quality

SetFps ==
  /\ fps' \in MenuRates /\ quality' = quality

SetQuality ==
  /\ \E q \in 1 .. 5 : quality' = Level(q)
  /\ fps' = fps

\* Two bytes are taken for a message.  The first ones of a record are the low
\* half of INPUT.type, 0 or 1: at most a quality of 0, which is refused.  Other
\* bytes can be anything.
Control(data) ==
  \/ UNCHANGED <<fps, quality>>
  \/ data[1] % InputSize # 1 /\ (SetFps \/ SetQuality)

\* FAULTY: whatever is neither the end nor a message is injected.
HandleAny(data) ==
  IF Len(data) = CtrlSize
  THEN Control(data) /\ UNCHANGED injected
  ELSE injected' = Append(injected, data) /\ UNCHANGED <<fps, quality>>

\* A whole record is injected, and anything else dropped.
Handle(data) ==
  \/ /\ Len(data) = CtrlSize
     /\ Control(data) /\ UNCHANGED injected
  \/ /\ Len(data) = InputSize
     /\ injected' = Append(injected, data) /\ UNCHANGED <<fps, quality>>
  \/ /\ Len(data) \notin {CtrlSize, InputSize}
     /\ UNCHANGED <<injected, fps, quality>>

\* A recv returns some of the bytes that wait, and no more than the buffer holds.
Received(n) ==
  /\ Handle(SubSeq(stream, 1, n))
  /\ stream' = SubSeq(stream, n + 1, Len(stream))
  /\ cut' = (cut \/ n < InputSize)

Receive ==
  /\ receiving
  /\ \E n \in 1 .. Least(InputSize, Len(stream)) : Received(n)
  /\ UNCHANGED <<client, receiving>>

\* recv returns 0 or an error, and the thread closes its socket.
ReceiveEnd ==
  /\ receiving /\ ~open /\ stream = <<>>
  /\ receiving' = FALSE
  /\ UNCHANGED <<client, stream, injected, fps, quality, cut>>

\* ServerTerminate closes the socket, and recv fails.  What waits stays unread.
ServerCloses ==
  /\ receiving /\ open
  /\ receiving' = FALSE
  /\ UNCHANGED <<client, stream, injected, fps, quality, cut>>

-----------------------------------------------------------------------------
Next ==
  \/ SendEvent \/ ChooseFps \/ ClientCloses \/ ConnectionLost
  \/ Receive \/ ReceiveEnd \/ ServerCloses

Spec == Init /\ [][Next]_vars

-----------------------------------------------------------------------------
(* Properties.                                                             *)

\* Every variable keeps its type.  ScreenStreamServerThread divides 1000 by fps:
\* whatever is taken for a RemoteCtrlMsg, it never becomes 0.
TypeOK ==
  /\ {open, receiving, cut} \subseteq BOOLEAN
  /\ menuFps \in MenuRates \cup {FirstFps} /\ fps \in MenuRates \cup {FirstFps}
  /\ quality \in {Unset, Stray} \cup {Level(q) : q \in 1 .. 4}
  /\ sent \in 0 .. MaxSent
  /\ stream \in Seq(Nat) /\ injected \in Seq(Seq(Nat))

\* As long as no recv returns less than a record, the records that were injected
\* are the first ones that were sent, and what waits are the whole records that
\* follow, from which only a reset takes some.
InStep ==
  ~cut =>
    /\ Len(injected) <= sent
    /\ \A i \in DOMAIN injected : injected[i] = Record(i)
    /\ stream = <<>> \/ Len(stream) = (sent - Len(injected)) * InputSize
    /\ \A p \in DOMAIN stream : stream[p] = Len(injected) * InputSize + p

\* However recv splits the stream, what is injected are InputSize bytes that were
\* sent one after the other, and no byte is injected twice or out of order.
InjectedContiguous ==
  \A i \in DOMAIN injected :
    /\ Len(injected[i]) = InputSize
    /\ \A k \in 1 .. InputSize : injected[i][k] = injected[i][1] + k - 1
    /\ i > 1 => injected[i - 1][InputSize] < injected[i][1]
=============================================================================
