------------------------ MODULE InputChannel_proofs ------------------------
(***************************************************************************)
(* What an input stream keeps, whatever the size of a record and however   *)
(* recv splits the stream.                                                 *)
(*                                                                         *)
(* Waiting says that the waiting bytes are the last ones that were sent,   *)
(* so that whatever recv returns has consecutive numbers; Ordered, that    *)
(* what was injected has been sent before them; Whole, that without a cut  *)
(* nothing but whole records has left the stream.                          *)
(***************************************************************************)
EXTENDS InputChannel, TLAPS

Bytes(n) == n * InputSize

Waiting ==
  /\ Len(stream) <= Bytes(sent)
  /\ \A p \in DOMAIN stream : stream[p] = Bytes(sent) - Len(stream) + p

Ordered ==
  /\ InjectedContiguous
  /\ \A i \in DOMAIN injected :
       injected[i][InputSize] <= Bytes(sent) - Len(stream)

Whole ==
  ~cut =>
    /\ Len(injected) <= sent
    /\ \A i \in DOMAIN injected : injected[i] = Record(i)
    /\ \/ Len(stream) = Bytes(sent) - Bytes(Len(injected))
       \/ ~open /\ stream = <<>>

IInv == TypeOK /\ Waiting /\ Ordered /\ Whole

-----------------------------------------------------------------------------
(* Arithmetic of records.                                                  *)

\* The bytes of the first n records are a number, and one more record adds
\* InputSize of them.
LEMMA BytesStep ==
  \A n \in Nat : /\ Bytes(n) \in Nat
                 /\ Bytes(n + 1) = Bytes(n) + InputSize
                 /\ Bytes(n + 1 - 1) = Bytes(n)
<1>1. InputSize \in Nat
  BY InputChannelAssumption
<1> QED
  BY <1>1, SMT DEF Bytes

\* The bytes of a record are consecutive numbers.
LEMMA RecordBytes ==
  ASSUME NEW n \in Nat
  PROVE  /\ Record(n + 1) \in Seq(Nat)
         /\ Len(Record(n + 1)) = InputSize
         /\ \A k \in 1 .. InputSize : Record(n + 1)[k] = Bytes(n) + k
<1>1. InputSize \in Nat /\ Bytes(n) \in Nat /\ (n + 1 - 1) * InputSize = Bytes(n)
  BY InputChannelAssumption, BytesStep DEF Bytes
<1>2. Record(n + 1) = [k \in 1 .. InputSize |-> Bytes(n) + k]
  BY <1>1 DEF Record
<1> QED
  BY <1>1, <1>2

\* Fewer records have fewer bytes.
LEMMA BytesMonotone ==
  ASSUME NEW m \in Nat, NEW n \in Nat, Bytes(m) < Bytes(n)
  PROVE  m + 1 <= n
<1>1. InputSize \in Nat /\ InputSize > 0
  BY InputChannelAssumption DEF CtrlSize
<1>2. SUFFICES ASSUME n <= m PROVE FALSE
  OBVIOUS
<1>3. PICK d \in Nat : m = n + d
  BY <1>2, m - n \in Nat
<1>4. m * InputSize = n * InputSize + d * InputSize /\ d * InputSize \in Nat
  BY <1>1, <1>3
<1>5. n * InputSize \in Nat
  BY <1>1
<1> QED
  BY <1>4, <1>5 DEF Bytes

-----------------------------------------------------------------------------
(* A send and a recv.                                                      *)

\* What a send leaves behind what waits.
LEMMA Concatenation ==
  ASSUME NEW s \in Seq(Nat), NEW t \in Seq(Nat)
  PROVE  /\ Len(s \o t) = Len(s) + Len(t) /\ Len(s) \in Nat
         /\ \A p \in 1 .. Len(s) : (s \o t)[p] = s[p]
         /\ \A k \in 1 .. Len(t) : (s \o t)[Len(s) + k] = t[k]
OBVIOUS

\* What a recv takes and what it leaves.
LEMMA Splits ==
  ASSUME NEW n \in 1 .. Len(stream), TypeOK
  PROVE  LET data == SubSeq(stream, 1, n)
             rest == SubSeq(stream, n + 1, Len(stream)) IN
         /\ data \in Seq(Nat) /\ Len(data) = n
         /\ \A k \in 1 .. n : data[k] = stream[k]
         /\ rest \in Seq(Nat) /\ Len(rest) = Len(stream) - n
         /\ \A k \in 1 .. Len(rest) : rest[k] = stream[k + n]
BY DEF TypeOK

-----------------------------------------------------------------------------
(* The types.                                                              *)

\* A message leaves the settings of the server in their types: a rate that is
\* not offered is refused, so that 1000 / fps is always defined.
LEMMA ControlTypes ==
  ASSUME TypeOK, NEW data \in Seq(Nat), Control(data)
  PROVE  /\ fps' \in MenuRates \cup {FirstFps}
         /\ quality' \in {Unset, Stray} \cup {Level(q) : q \in 1 .. 4}
<1>1. CASE UNCHANGED <<fps, quality>>
  BY <1>1 DEF TypeOK
<1>2. CASE SetFps
  BY <1>2 DEF TypeOK, SetFps
<1>3. CASE SetQuality
  <2>1. PICK q \in 1 .. 5 : quality' = Level(q) /\ fps' = fps
    BY <1>3 DEF SetQuality
  <2>2. CASE q = 5
    BY <2>1, <2>2 DEF TypeOK, Level
  <2>3. CASE q # 5
    BY <2>1, <2>3 DEF TypeOK
  <2> QED
    BY <2>2, <2>3
<1> QED
  BY <1>1, <1>2, <1>3 DEF Control

\* What is handled is injected or not, and the settings keep their types.
LEMMA HandleTypes ==
  ASSUME TypeOK, NEW data \in Seq(Nat), Handle(data)
  PROVE  /\ injected' \in Seq(Seq(Nat))
         /\ fps' \in MenuRates \cup {FirstFps}
         /\ quality' \in {Unset, Stray} \cup {Level(q) : q \in 1 .. 4}
         /\ \/ injected' = injected
            \/ Len(data) = InputSize /\ injected' = Append(injected, data)
<1>1. CASE Len(data) = CtrlSize /\ Control(data) /\ UNCHANGED injected
  BY <1>1, ControlTypes DEF TypeOK
<1>2. CASE /\ Len(data) = InputSize
           /\ injected' = Append(injected, data) /\ UNCHANGED <<fps, quality>>
  BY <1>2 DEF TypeOK
<1>3. CASE UNCHANGED <<injected, fps, quality>>
  BY <1>3 DEF TypeOK
<1> QED
  BY <1>1, <1>2, <1>3 DEF Handle

\* The types hold at first, and every step keeps them.
LEMMA InitTypes == Init => TypeOK
<1> SUFFICES ASSUME Init PROVE TypeOK
  OBVIOUS
<1>1. stream \in Seq(Nat) /\ injected \in Seq(Seq(Nat))
  BY DEF Init
<1>2. sent \in 0 .. MaxSent
  BY InputChannelAssumption DEF Init
<1> QED
  BY <1>1, <1>2 DEF Init, TypeOK

LEMMA NextTypes ==
  ASSUME TypeOK, [Next]_vars
  PROVE  TypeOK'
<1>1. CASE SendEvent
  <2>1. stream' \in Seq(Nat)
    <3>1. sent \in Nat /\ stream' = stream \o Record(sent + 1)
      BY <1>1, InputChannelAssumption DEF TypeOK, SendEvent
    <3> QED
      BY <3>1, RecordBytes DEF TypeOK
  <2>2. sent' \in 0 .. MaxSent
    BY <1>1, InputChannelAssumption DEF TypeOK, SendEvent
  <2> QED
    BY <1>1, <2>1, <2>2 DEF TypeOK, SendEvent, server
<1>2. CASE ChooseFps
  BY <1>2 DEF TypeOK, ChooseFps, server
<1>3. CASE ClientCloses
  BY <1>3 DEF TypeOK, ClientCloses, server
<1>4. CASE ConnectionLost
  <2>1. stream' \in Seq(Nat)
    BY <1>4 DEF ConnectionLost
  <2> QED
    BY <1>4, <2>1 DEF TypeOK, ConnectionLost, server
<1>5. CASE Receive
  <2>1. PICK n \in 1 .. Least(InputSize, Len(stream)) : Received(n)
    BY <1>5 DEF Receive
  <2>2. n \in 1 .. Len(stream)
    BY InputChannelAssumption DEF TypeOK, Least
  <2>3. SubSeq(stream, 1, n) \in Seq(Nat) /\ stream' \in Seq(Nat)
    BY <2>1, <2>2, Splits DEF Received
  <2>4. cut' \in BOOLEAN
    BY <2>1 DEF Received
  <2>5. Handle(SubSeq(stream, 1, n))
    BY <2>1 DEF Received
  <2> QED
    BY <1>5, <2>3, <2>4, <2>5, HandleTypes DEF TypeOK, Receive, client
<1>6. CASE ReceiveEnd
  BY <1>6 DEF TypeOK, ReceiveEnd, client
<1>7. CASE ServerCloses
  BY <1>7 DEF TypeOK, ServerCloses, client
<1>8. CASE UNCHANGED vars
  BY <1>8 DEF TypeOK, vars, client, server
<1> QED
  BY <1>1, <1>2, <1>3, <1>4, <1>5, <1>6, <1>7, <1>8 DEF Next

\* Type correctness, and with it that the frame rate is never 0.
THEOREM TypeCorrect == Spec => []TypeOK
BY InitTypes, NextTypes, PTL DEF Spec

-----------------------------------------------------------------------------
(* The invariant.                                                          *)

LEMMA InitIInv == Init => IInv
<1> SUFFICES ASSUME Init PROVE IInv
  OBVIOUS
<1>1. TypeOK
  BY InitTypes
<1>2. Bytes(0) = 0 /\ Len(stream) = 0 /\ Len(injected) = 0
  BY InputChannelAssumption DEF Init, Bytes
<1>3. Waiting
  BY <1>2 DEF Init, Waiting
<1>4. Ordered
  BY DEF Init, Ordered, InjectedContiguous
<1>5. Whole
  BY <1>2 DEF Init, Whole
<1> QED
  BY <1>1, <1>3, <1>4, <1>5 DEF IInv

\* What was injected is whole records.
LEMMA Injected ==
  ASSUME IInv, NEW i \in DOMAIN injected
  PROVE  /\ injected[i] \in Seq(Nat) /\ Len(injected[i]) = InputSize
         /\ injected[i][InputSize] \in Nat
<1>1. injected \in Seq(Seq(Nat))
  BY DEF IInv, TypeOK
<1>2. injected[i] \in Seq(Nat)
  BY <1>1
<1>3. Len(injected[i]) = InputSize
  BY DEF IInv, Ordered, InjectedContiguous
<1>4. InputSize \in Nat /\ InputSize > 0
  BY InputChannelAssumption DEF CtrlSize
<1> QED
  BY <1>2, <1>3, <1>4

\* A record that is sent goes behind what waits.
LEMMA SendKeeps ==
  ASSUME IInv, SendEvent
  PROVE  (Waiting /\ Ordered /\ Whole)'
<1> DEFINE size == InputSize
<1>1. /\ sent \in Nat /\ sent' = sent + 1 /\ size \in Nat
      /\ stream \in Seq(Nat) /\ injected \in Seq(Seq(Nat))
      /\ stream' = stream \o Record(sent + 1)
      /\ open /\ open' = open /\ injected' = injected /\ cut' = cut
  BY InputChannelAssumption DEF IInv, TypeOK, SendEvent, server
<1>2. Bytes(sent) \in Nat /\ Bytes(sent') = Bytes(sent) + size
  BY <1>1, BytesStep
<1>3. /\ Record(sent + 1) \in Seq(Nat) /\ Len(Record(sent + 1)) = size
      /\ \A k \in 1 .. size : Record(sent + 1)[k] = Bytes(sent) + k
  BY <1>1, RecordBytes
<1>4. /\ Len(stream') = Len(stream) + size /\ Len(stream) \in Nat
      /\ \A p \in 1 .. Len(stream) : stream'[p] = stream[p]
      /\ \A k \in 1 .. size : stream'[Len(stream) + k] = Bytes(sent) + k
  <2> DEFINE more == Record(sent + 1)
  <2>1. stream \in Seq(Nat) /\ more \in Seq(Nat) /\ stream' = stream \o more
    BY <1>1, <1>3
  <2>2. Len(more) = size /\ \A k \in 1 .. size : more[k] = Bytes(sent) + k
    BY <1>3
  <2> HIDE DEF more
  <2> QED
    BY <2>1, <2>2, Concatenation
<1>5. Waiting'
  <2>1. size \in Nat /\ Len(stream) \in Nat
    BY <1>1, <1>4
  <2>2. /\ Len(stream) <= Bytes(sent)
        /\ \A p \in 1 .. Len(stream) : stream[p] = Bytes(sent) - Len(stream) + p
    BY <1>1 DEF IInv, Waiting
  <2>3. ASSUME NEW p \in 1 .. Len(stream) + size
        PROVE  stream'[p] = Bytes(sent) - Len(stream) + p
    <3>1. CASE p <= Len(stream)
      BY <1>4, <2>1, <2>2, <2>3, <3>1
    <3>2. CASE p > Len(stream)
      <4>1. p - Len(stream) \in 1 .. size /\ p = Len(stream) + (p - Len(stream))
        BY <2>1, <2>3, <3>2
      <4>2. stream'[p] = Bytes(sent) + (p - Len(stream))
        BY <1>4, <4>1
      <4> QED
        BY <1>2, <2>1, <4>2
    <3> QED
      BY <2>1, <3>1, <3>2
  <2>4. DOMAIN stream' = 1 .. Len(stream) + size
    <3>1. stream' \in Seq(Nat)
      BY NextTypes DEF IInv, Next, TypeOK
    <3> QED
      BY <1>4, <3>1
  <2>5. Bytes(sent') - Len(stream') = Bytes(sent) - Len(stream)
    BY <1>2, <1>4, <2>1
  <2>6. Len(stream') <= Bytes(sent')
    BY <1>2, <1>4, <2>1, <2>2
  <2> QED
    BY <2>3, <2>4, <2>5, <2>6 DEF Waiting
<1>6. Ordered'
  BY <1>1, <1>2, <1>4 DEF IInv, Ordered, InjectedContiguous
<1>7. Whole'
  <2> SUFFICES ASSUME ~cut
               PROVE  /\ Len(injected) <= sent + 1
                      /\ \A i \in DOMAIN injected : injected[i] = Record(i)
                      /\ Len(stream') = Bytes(sent') - Bytes(Len(injected))
    BY <1>1 DEF Whole
  <2>1. /\ Len(injected) <= sent
        /\ \A i \in DOMAIN injected : injected[i] = Record(i)
        /\ Len(stream) = Bytes(sent) - Bytes(Len(injected))
    BY <1>1 DEF IInv, Whole
  <2>2. Len(injected) \in Nat
    BY <1>1
  <2>3. Bytes(Len(injected)) \in Nat
    BY <2>2, BytesStep
  <2> QED
    BY <1>1, <1>2, <1>4, <2>1, <2>2, <2>3
<1> QED
  BY <1>5, <1>6, <1>7

\* A recv takes the first bytes that wait, and injects a whole record only.
LEMMA ReceiveKeeps ==
  ASSUME IInv, Receive
  PROVE  (Waiting /\ Ordered /\ Whole)'
<1> DEFINE size == InputSize
           len == Len(stream)
<1>1. PICK n \in 1 .. Least(InputSize, Len(stream)) : Received(n)
  BY DEF Receive
<1> DEFINE data == SubSeq(stream, 1, n)
<1>2. /\ sent \in Nat /\ sent' = sent /\ open' = open
      /\ size \in Nat /\ size > 2 /\ Bytes(sent) \in Nat
      /\ stream \in Seq(Nat) /\ injected \in Seq(Seq(Nat))
      /\ len \in Nat /\ n \in 1 .. len /\ n <= size
      /\ cut' = (cut \/ n < size) /\ cut \in BOOLEAN
  <2>1. sent \in Nat /\ stream \in Seq(Nat) /\ injected \in Seq(Seq(Nat))
    BY InputChannelAssumption DEF IInv, TypeOK
  <2>2. size \in Nat /\ size > 2 /\ len \in Nat
    BY <2>1, InputChannelAssumption DEF CtrlSize
  <2>3. n \in 1 .. len /\ n <= size
    BY <2>2 DEF Least
  <2>4. sent' = sent /\ open' = open
    BY DEF Receive, client
  <2>5. cut' = (cut \/ n < size) /\ cut \in BOOLEAN
    BY <1>1 DEF Received, IInv, TypeOK
  <2> QED
    BY <2>1, <2>2, <2>3, <2>4, <2>5, BytesStep
<1>sizes. size \in Nat /\ size > 2 /\ len \in Nat /\ n \in 1 .. len /\ n <= size
  BY <1>2
<1>bytes. Bytes(sent) \in Nat /\ Bytes(sent') = Bytes(sent)
  BY <1>2
<1>3. /\ data \in Seq(Nat) /\ Len(data) = n
      /\ \A k \in 1 .. n : data[k] = stream[k]
  BY <1>2, Splits DEF IInv
<1>4. /\ stream' \in Seq(Nat) /\ Len(stream') = len - n
      /\ \A k \in 1 .. len - n : stream'[k] = stream[k + n]
  BY <1>1, <1>2, Splits DEF IInv, Received
<1>5. /\ len <= Bytes(sent)
      /\ \A p \in 1 .. len : stream[p] = Bytes(sent) - len + p
  BY <1>2 DEF IInv, Waiting
<1>6. \/ injected' = injected /\ n # size
      \/ n = size /\ injected' = Append(injected, data)
  BY <1>1, <1>2, <1>3 DEF Received, Handle, CtrlSize
<1>7. Waiting'
  <2>1. Bytes(sent') = Bytes(sent) /\ DOMAIN stream' = 1 .. len - n
    BY <1>2, <1>4
  <2>2. \A p \in 1 .. len - n : stream'[p] = Bytes(sent) - len + (p + n)
    BY <1>2, <1>4, <1>5
  <2> QED
    <3>1. Len(stream') <= Bytes(sent')
      BY <1>4, <1>5, <1>sizes, <1>bytes
    <3>2. ASSUME NEW p \in 1 .. len - n
          PROVE  stream'[p] = Bytes(sent') - Len(stream') + p
      <4>1. Len(stream') = len - n /\ stream'[p] = Bytes(sent) - len + (p + n)
        BY <1>4, <2>2, <3>2
      <4> QED
        BY <1>sizes, <1>bytes, <3>2, <4>1
    <3> QED
      BY <2>1, <3>1, <3>2 DEF Waiting
<1>8. ASSUME n = size PROVE \A k \in 1 .. size : data[k] = Bytes(sent) - len + k
  BY <1>2, <1>3, <1>5, <1>8
<1>9. Ordered'
  <2>1. CASE injected' = injected
    <3>1. InjectedContiguous'
      BY <2>1 DEF IInv, Ordered, InjectedContiguous
    <3>2. ASSUME NEW i \in DOMAIN injected
          PROVE  injected[i][size] <= Bytes(sent') - Len(stream')
      <4>2. injected[i][size] \in Nat
        BY <3>2, Injected
      <4>3. injected[i][size] <= Bytes(sent) - len
        BY <3>2 DEF IInv, Ordered
      <4> QED
        <5>1. Len(stream') = len - n
          BY <1>4
        <5> QED
          BY <1>sizes, <1>bytes, <4>2, <4>3, <5>1
    <3> QED
      BY <2>1, <3>1, <3>2 DEF Ordered
  <2>2. CASE n = size /\ injected' = Append(injected, data)
    <3> DEFINE last == Len(injected) + 1
    <3>1. /\ Len(injected) \in Nat /\ DOMAIN injected' = 1 .. last
          /\ injected'[last] = data
          /\ \A i \in DOMAIN injected : injected'[i] = injected[i]
      <4> HIDE DEF data
      <4>1. injected \in Seq(Seq(Nat)) /\ data \in Seq(Nat)
        BY <1>2, <1>3
      <4>2. injected' = Append(injected, data)
        BY <2>2
      <4> QED
        BY <4>1, <4>2
    <3>2. data[size] = Bytes(sent) - len + size /\ data[1] = Bytes(sent) - len + 1
      BY <1>2, <1>8, <2>2
    <3>3. ASSUME NEW i \in 1 .. last
          PROVE  /\ Len(injected'[i]) = size
                 /\ \A k \in 1 .. size : injected'[i][k] = injected'[i][1] + k - 1
                 /\ i > 1 => injected'[i - 1][size] < injected'[i][1]
                 /\ injected'[i][size] <= Bytes(sent') - Len(stream')
      <4>1. CASE i = last
        <5>1. \A k \in 1 .. size : data[k] = data[1] + k - 1
          BY <1>2, <1>5, <1>8, <2>2, <3>2
        <5>2. ASSUME i > 1 PROVE injected'[i - 1][size] < injected'[i][1]
          <6>1. i - 1 \in DOMAIN injected /\ injected[i - 1][size] \in Nat
            <7>1. i - 1 \in DOMAIN injected
              BY <1>2, <3>1, <4>1, <5>2
            <7> QED
              BY <7>1, Injected
          <6>2. injected[i - 1][size] <= Bytes(sent) - len
            BY <6>1 DEF IInv, Ordered
          <6> QED
            <7>1. injected'[i - 1] = injected[i - 1] /\ injected'[i] = data
              BY <3>1, <4>1, <6>1
            <7> QED
              BY <1>sizes, <1>bytes, <3>2, <6>1, <6>2, <7>1
        <5>3. injected'[i] = data /\ Len(data) = size
          BY <1>3, <2>2, <3>1, <4>1
        <5>4. data[size] <= Bytes(sent') - Len(stream')
          BY <1>2, <1>4, <2>2, <3>2
        <5> QED
          BY <5>1, <5>2, <5>3, <5>4
      <4>2. CASE i # last
        <5>1. /\ i \in DOMAIN injected /\ injected'[i] = injected[i]
              /\ i > 1 => i - 1 \in DOMAIN injected
                          /\ injected'[i - 1] = injected[i - 1]
          BY <1>2, <3>1, <3>3, <4>2
        <5>2. Len(injected[i]) = size /\ injected[i][size] \in Nat
          BY <5>1, Injected
        <5>3. injected[i][size] <= Bytes(sent) - len /\ injected[i][size] \in Nat
          BY <5>1, <5>2 DEF IInv, Ordered
        <5>4. /\ \A k \in 1 .. size : injected[i][k] = injected[i][1] + k - 1
              /\ i > 1 => injected[i - 1][size] < injected[i][1]
          BY <5>1 DEF IInv, Ordered, InjectedContiguous
        <5> QED
          <6>1. injected[i][size] <= Bytes(sent') - Len(stream')
            <7>1. Len(stream') = len - n
              BY <1>4
            <7> QED
              BY <1>sizes, <1>bytes, <5>3, <7>1
          <6> QED
            BY <5>1, <5>2, <5>4, <6>1
      <4> QED
        BY <4>1, <4>2
    <3> QED
      BY <3>1, <3>3 DEF Ordered, InjectedContiguous
  <2> QED
    BY <1>6, <2>1, <2>2
<1>10. Whole'
  <2> SUFFICES ASSUME ~cut'
               PROVE  /\ Len(injected') <= sent
                      /\ \A i \in DOMAIN injected' : injected'[i] = Record(i)
                      /\ Len(stream') = Bytes(sent) - Bytes(Len(injected'))
    BY <1>2 DEF Whole
  <2>1. ~cut /\ n = size /\ injected' = Append(injected, data)
    <3>1. ~cut /\ ~(n < size)
      BY <1>2
    <3>2. n = size
      BY <1>sizes, <3>1
    <3> QED
      BY <1>6, <3>1, <3>2
  <2> DEFINE m == Len(injected)
  <2>2. /\ m \in Nat /\ m <= sent /\ len = Bytes(sent) - Bytes(m)
        /\ \A i \in DOMAIN injected : injected[i] = Record(i)
        /\ Bytes(m) \in Nat /\ Bytes(m + 1) = Bytes(m) + size
    <3>1. m \in Nat
      BY <1>2
    <3>2. Bytes(m) \in Nat /\ Bytes(m + 1) = Bytes(m) + size
      BY <3>1, BytesStep
    <3>3. /\ m <= sent
          /\ \A i \in DOMAIN injected : injected[i] = Record(i)
          /\ len = Bytes(sent) - Bytes(m) \/ stream = <<>>
      BY <2>1 DEF IInv, Whole
    <3>4. stream # <<>>
      BY <1>sizes
    <3> QED
      BY <3>1, <3>2, <3>3, <3>4
  <2>3. m + 1 <= sent
    BY <1>2, <2>1, <2>2, BytesMonotone
  <2>4. data = Record(m + 1)
    <3>1. /\ Record(m + 1) \in Seq(Nat) /\ Len(Record(m + 1)) = size
          /\ \A k \in 1 .. size : Record(m + 1)[k] = Bytes(m) + k
      BY <2>2, RecordBytes
    <3>2. \A k \in 1 .. size : data[k] = Bytes(m) + k
      BY <1>2, <1>8, <2>1, <2>2
    <3> QED
      BY <1>2, <1>3, <2>1, <3>1, <3>2
  <2>5. /\ Len(injected') = m + 1
        /\ \A i \in 1 .. m : injected'[i] = injected[i]
        /\ injected'[m + 1] = data /\ DOMAIN injected' = 1 .. m + 1
    BY <1>2, <1>3, <2>1
  <2> QED
    <3>1. Len(stream') = Bytes(sent) - Bytes(m + 1)
      BY <1>2, <1>4, <2>1, <2>2
    <3>2. \A i \in 1 .. m + 1 : injected'[i] = Record(i)
      BY <2>2, <2>4, <2>5
    <3> QED
      BY <2>3, <2>5, <3>1, <3>2
<1> QED
  BY <1>7, <1>9, <1>10

\* The other steps move no byte, but for a reset, which takes all of them.
LEMMA NextIInv ==
  ASSUME IInv, [Next]_vars
  PROVE  IInv'
<1>1. TypeOK'
  BY NextTypes DEF IInv
<1>2. CASE SendEvent
  BY <1>1, <1>2, SendKeeps DEF IInv
<1>3. CASE Receive
  BY <1>1, <1>3, ReceiveKeeps DEF IInv
<1>4. CASE ConnectionLost
  <2>1. /\ sent \in Nat /\ Bytes(sent) \in Nat /\ sent' = sent
        /\ stream' = <<>> /\ injected' = injected /\ cut' = cut /\ open' = FALSE
        /\ stream \in Seq(Nat) /\ injected \in Seq(Seq(Nat)) /\ InputSize \in Nat
        /\ InputSize > 0
    <3>1. sent \in Nat /\ stream \in Seq(Nat) /\ injected \in Seq(Seq(Nat))
      BY InputChannelAssumption DEF IInv, TypeOK
    <3>2. InputSize \in Nat /\ InputSize > 0
      BY InputChannelAssumption DEF CtrlSize
    <3>3. /\ sent' = sent /\ stream' = <<>> /\ injected' = injected
          /\ cut' = cut /\ open' = FALSE
      BY <1>4 DEF ConnectionLost, server
    <3> QED
      BY <3>1, <3>2, <3>3, BytesStep
  <2>2. Waiting'
    BY <2>1 DEF Waiting
  <2>3. Ordered'
    <3>1. ASSUME NEW i \in DOMAIN injected
          PROVE  injected[i][InputSize] <= Bytes(sent)
      <4>2. /\ injected[i][InputSize] \in Nat
            /\ injected[i][InputSize] <= Bytes(sent) - Len(stream)
        BY <3>1, Injected DEF IInv, Ordered
      <4>3. Len(stream) \in Nat
        BY <2>1
      <4> QED
        BY <2>1, <4>2, <4>3
    <3>2. InjectedContiguous'
      BY <2>1 DEF IInv, Ordered, InjectedContiguous
    <3> QED
      BY <2>1, <3>1, <3>2 DEF Ordered
  <2>4. Whole'
    BY <2>1 DEF IInv, Whole
  <2> QED
    BY <1>1, <2>2, <2>3, <2>4 DEF IInv
<1>5. CASE ClientCloses
  BY <1>1, <1>5
  DEF ClientCloses, server, IInv, Waiting, Ordered, InjectedContiguous, Whole
<1>6. CASE ChooseFps
  BY <1>1, <1>6
  DEF ChooseFps, server, IInv, Waiting, Ordered, InjectedContiguous, Whole
<1>7. CASE ReceiveEnd
  BY <1>1, <1>7
  DEF ReceiveEnd, client, IInv, Waiting, Ordered, InjectedContiguous, Whole
<1>8. CASE ServerCloses
  BY <1>1, <1>8
  DEF ServerCloses, client, IInv, Waiting, Ordered, InjectedContiguous, Whole
<1>9. CASE UNCHANGED vars
  BY <1>1, <1>9
  DEF vars, client, server, IInv, Waiting, Ordered, InjectedContiguous, Whole
<1> QED
  BY <1>2, <1>3, <1>4, <1>5, <1>6, <1>7, <1>8, <1>9 DEF Next

-----------------------------------------------------------------------------
(* The theorems.                                                           *)

\* However recv splits the stream, consecutive bytes are injected, none of them
\* twice or out of order.
THEOREM ContiguousAlways == Spec => []InjectedContiguous
<1>1. IInv => InjectedContiguous
  BY DEF IInv, Ordered
<1> QED
  BY <1>1, InitIInv, NextIInv, PTL DEF Spec

\* Until a recv returns less than a record, the server injects the records that
\* were sent, in their order, and the stream waits at the border of one.
THEOREM InStepAlways == Spec => []InStep
<1>1. ASSUME IInv PROVE InStep
  <2> SUFFICES ASSUME ~cut
               PROVE  /\ Len(injected) <= sent
                      /\ \A i \in DOMAIN injected : injected[i] = Record(i)
                      /\ \/ stream = <<>>
                         \/ Len(stream) = (sent - Len(injected)) * InputSize
                      /\ \A p \in DOMAIN stream :
                           stream[p] = Len(injected) * InputSize + p
    BY DEF InStep
  <2>1. /\ sent \in Nat /\ Len(injected) \in Nat /\ InputSize \in Nat
        /\ stream \in Seq(Nat)
    BY <1>1, InputChannelAssumption DEF IInv, TypeOK
  <2>2. Bytes(sent) \in Nat /\ Bytes(Len(injected)) \in Nat
    BY <2>1, BytesStep
  <2>3. (sent - Len(injected)) * InputSize = Bytes(sent) - Bytes(Len(injected))
    BY <2>1 DEF Bytes
  <2>4. Bytes(Len(injected)) = Len(injected) * InputSize
    BY DEF Bytes
  <2>5. CASE stream = <<>>
    BY <1>1, <2>5 DEF IInv, Whole
  <2>6. CASE Len(stream) = Bytes(sent) - Bytes(Len(injected))
    <3>1. ASSUME NEW p \in DOMAIN stream
          PROVE  stream[p] = Len(injected) * InputSize + p
      <4>1. stream[p] = Bytes(sent) - Len(stream) + p
        BY <1>1, <3>1 DEF IInv, Waiting
      <4> QED
        BY <2>1, <2>2, <2>4, <2>6, <3>1, <4>1
    <3> QED
      BY <1>1, <2>3, <2>6, <3>1 DEF IInv, Whole
  <2> QED
    BY <1>1, <2>5, <2>6 DEF IInv, Whole
<1> QED
  BY <1>1, InitIInv, NextIInv, PTL DEF Spec
=============================================================================
