------------------------- MODULE ScreenStream_proofs -------------------------
(***************************************************************************)
(* What a screen stream keeps for screens of every size: its types, that   *)
(* client and server agree on where a frame ends, and that no old tile is  *)
(* shown for good.                                                         *)
(***************************************************************************)
EXTENDS ScreenStream, FiniteSetTheorems, TLAPS

-----------------------------------------------------------------------------
(* The inductive invariant.                                                *)

\* As long as the sizes allow it.
Agreed == Tiles(size) = Tiles(ClientSize) /\ ~resized

Corner(s) == <<s[1] - 1, s[2] - 1>>

IsTile(i) == wire[i].kind = "tile"
IsMask(i) == wire[i].kind = "mask"

\* Behind position p there are n tiles, and then a mask or the end.
Follows(p, n) ==
  /\ p + n <= Len(wire)
  /\ \A q \in p + 1 .. p + n : IsTile(q)
  /\ p + n < Len(wire) => IsMask(p + n + 1)

\* The tiles of the server's screen that a mask asks for.
Asked(mask) == mask \cap 0 .. Tiles(size) - 1

\* Every mask is followed by its tiles, and what the client still expects is
\* at the head of the stream.
Framed ==
  /\ Follows(0, due)
  /\ \A p \in DOMAIN wire :
       /\ IsMask(p) => /\ Follows(p, Cardinality(Asked(wire[p].mask)))
                       /\ wire[p].bits >= Tiles(size)
       /\ IsTile(p) => wire[p].at \in Places(size)

\* The bitmap gets the size of the server's screen with the last tile of the
\* first frame.
Sized ==
  \/ img = size
  \/ img = <<0, 0>> /\ due = 0 /\ wire = <<>> /\ first
  \/ /\ img = <<0, 0>> /\ due = 0 /\ wire # <<>> /\ ~first
     /\ IsMask(1) /\ Asked(wire[1].mask) = 0 .. Tiles(size) - 1
     /\ wire[1 + Tiles(size)].at = Corner(size)
  \/ /\ due > 0 /\ ~first /\ img[1] <= size[1] /\ img[2] <= size[2]
     /\ wire[due].at = Corner(size)

SteppedInv == Agreed => ~confused /\ Framed /\ Sized

TileFor(i, t) == IsTile(i) /\ wire[i].at = t
LastFor(i, t) ==
  TileFor(i, t) /\ \A j \in DOMAIN wire : i < j => ~TileFor(j, t)

\* What arrives last at a place is what the server has there, and so is what
\* the picture has if nothing arrives.
TrueAt(t) ==
  /\ \A i \in DOMAIN wire : LastFor(i, t) => wire[i].colour = prev[t]
  /\ \/ \E i \in DOMAIN wire : TileFor(i, t)
     \/ t \notin Places(img)
     \/ picture[t] \in {prev[t], Blank}

TrueInv == ~confused => \A t \in Places(prevSize) : TrueAt(t)

-----------------------------------------------------------------------------
(* Numbers, and how a screen is divided.                                   *)

\* Induction: a set of numbers that is not empty has a least one.
LEMMA Least ==
  ASSUME NEW T \in SUBSET Nat, T # {}
  PROVE  \E x \in T : \A y \in T : x <= y
<1>1. PICK x \in T : \A y \in T : <<y, x>> \notin OpToRel(<, Nat)
  BY NatLessThanWellFounded, WFMin
<1>2. \A y \in T : ~(y < x)
  BY <1>1 DEF OpToRel
<1> QED BY <1>2

\* The numbers up to a bound have a greatest one, which is what Max returns.
LEMMA Greatest ==
  ASSUME NEW n \in Nat, NEW T \in SUBSET (0 .. n), T # {}
  PROVE  Max(T) \in T /\ \A y \in T : Max(T) >= y
<1>1. PICK x \in {n - y : y \in T} : \A z \in {n - y : y \in T} : x <= z
  BY Least, {n - y : y \in T} \in SUBSET Nat, {n - y : y \in T} # {}
<1>2. PICK y \in T : x = n - y
  BY <1>1
<1>3. \A z \in T : y >= z
  BY <1>1, <1>2
<1> QED BY <1>3 DEF Max

\* The larger one of two numbers.
LEMMA MaxOfTwo ==
  ASSUME NEW a \in Nat, NEW b \in Nat
  PROVE  Max({a, b}) = IF a >= b THEN a ELSE b
<1>1. PICK x \in {a, b} : \A y \in {a, b} : x >= y
  OBVIOUS
<1>2. Max({a, b}) \in {a, b} /\ \A y \in {a, b} : Max({a, b}) >= y
  BY <1>1 DEF Max
<1> QED BY <1>2

\* A screen has at least one tile.
LEMMA TilesPositive ==
  ASSUME NEW s \in (Nat \ {0}) \X (Nat \ {0})
  PROVE  Tiles(s) \in Nat \ {0}
<1>1. ASSUME NEW w \in Nat \ {0}, NEW h \in Nat \ {0} PROVE w * h \in Nat \ {0}
  OBVIOUS
<1> QED BY <1>1 DEF Tiles

\* A remainder is smaller than the divisor.
LEMMA RemainderRange ==
  ASSUME NEW n \in Nat, NEW w \in Nat \ {0}
  PROVE  n % w \in 0 .. w - 1
OBVIOUS

\* The i-th tile is on the screen.
LEMMA AtOnScreen ==
  ASSUME NEW s \in (Nat \ {0}) \X (Nat \ {0}), NEW i \in 0 .. Tiles(s) - 1
  PROVE  At(i, s) \in Places(s)
<1>1. ASSUME NEW w \in Nat \ {0}, NEW h \in Nat \ {0}, NEW n \in 0 .. w * h - 1
      PROVE  n % w \in 0 .. w - 1 /\ n \div w \in 0 .. h - 1
  <2>1. n \div w \in 0 .. h - 1
    OBVIOUS
  <2>2. n \in Nat
    OBVIOUS
  <2>3. n % w \in 0 .. w - 1
    BY <2>2, RemainderRange
  <2> QED BY <2>1, <2>3
<1> QED BY <1>1 DEF At, Places, Tiles

\* Every place of the screen is that of a tile.
LEMMA AtCovers ==
  ASSUME NEW s \in (Nat \ {0}) \X (Nat \ {0}), NEW t \in Places(s)
  PROVE  \E i \in 0 .. Tiles(s) - 1 : At(i, s) = t
<1>1. PICK w \in Nat \ {0}, h \in Nat \ {0} : s = <<w, h>>
  OBVIOUS
<1>2. PICK a \in 0 .. w - 1, b \in 0 .. h - 1 : t = <<a, b>>
  BY <1>1 DEF Places
<1>3. (b * w + a) % w = a /\ (b * w + a) \div w = b /\ b * w + a \in Nat
  OBVIOUS
<1>4. b * w <= (h - 1) * w
  OBVIOUS
<1>5. b * w + a \in 0 .. w * h - 1
  BY <1>3, <1>4
<1>6. At(b * w + a, s) = t
  BY <1>1, <1>2, <1>3 DEF At
<1>7. 0 .. Tiles(s) - 1 = 0 .. w * h - 1
  BY <1>1 DEF Tiles
<1> QED BY <1>5, <1>6, <1>7

\* The last tile is in the corner.
LEMMA AtLast ==
  ASSUME NEW s \in (Nat \ {0}) \X (Nat \ {0})
  PROVE  At(Tiles(s) - 1, s) = Corner(s)
<1>1. ASSUME NEW w \in Nat \ {0}, NEW h \in Nat \ {0}
      PROVE  (w * h - 1) % w = w - 1 /\ (w * h - 1) \div w = h - 1
  OBVIOUS
<1> QED BY <1>1 DEF At, Corner, Tiles

\* A multiple of u that is rounded up.
LEMMA RoundedUp ==
  ASSUME NEW t \in Nat \ {0}, NEW u \in Nat \ {0}
  PROVE  ((t + u - 1) \div u) * u >= t /\ ((t + u - 1) \div u) * u \in Nat
<1>1. ((t + u - 1) \div u) * u >= t
  OBVIOUS
<1>2. (t + u - 1) \div u \in Nat
  OBVIOUS
<1> QED BY <1>1, <1>2

\* The mask has a bit for every tile.
LEMMA MaskBitsEnough ==
  ASSUME NEW s \in (Nat \ {0}) \X (Nat \ {0})
  PROVE  MaskBits(s) \in Nat /\ MaskBits(s) >= Tiles(s)
<1>1. Tiles(s) \in Nat \ {0} /\ MaskUnit \in Nat \ {0}
  BY TilesPositive, ScreenStreamAssumption
<1> QED BY <1>1, RoundedUp DEF MaskBits

\* The order in which tiles are sent leaves none out and repeats none.
LEMMA AscendingOnto ==
  ASSUME NEW S \in SUBSET Nat, IsFiniteSet(S), NEW order \in Ascending(S)
  PROVE  /\ order \in Injection(1 .. Cardinality(S), S)
         /\ order \in Surjection(1 .. Cardinality(S), S)
<1>1. PICK n \in Nat : n = Cardinality(S)
  BY FS_CardinalityType
<1>2. IsFiniteSet(1 .. n) /\ Cardinality(1 .. n) = n
  BY FS_Interval
<1>3. order \in [1 .. n -> S] /\ \A i, j \in 1 .. n : i < j => order[i] < order[j]
  BY <1>1 DEF Ascending
<1>4. ASSUME NEW i \in 1 .. n, NEW j \in 1 .. n, order[i] = order[j] PROVE i = j
  <2>1. order[i] \in S /\ order[i] \in Nat
    BY <1>3
  <2>2. ~(order[i] < order[j]) /\ ~(order[j] < order[i])
    BY <1>4, <2>1
  <2>3. ~(i < j) /\ ~(j < i)
    BY <1>3, <2>2
  <2> QED BY <2>3
<1>5. order \in Injection(1 .. n, S)
  BY <1>3, <1>4 DEF Injection, IsInjective
<1>6. order \in Surjection(1 .. n, S)
  BY <1>1, <1>2, <1>5, FS_Injection
<1> QED BY <1>1, <1>5, <1>6

\* Such an order exists, so that a frame can always be sent: the greatest number
\* follows those that are smaller.
LEMMA AscendingExists ==
  ASSUME NEW n \in Nat, NEW S \in SUBSET (0 .. n - 1)
  PROVE  Ascending(S) # {}
<1> DEFINE Bad == {m \in Nat : \E U \in SUBSET (0 .. m - 1) : Ascending(U) = {}}
<1>1. SUFFICES ASSUME Bad # {} PROVE FALSE
  OBVIOUS
<1>2. PICK m \in Bad : \A y \in Bad : m <= y
  BY <1>1, Least, Bad \in SUBSET Nat
<1>3. PICK U \in SUBSET (0 .. m - 1) : Ascending(U) = {}
  BY <1>2
<1>4. m \in Nat /\ m - 1 \notin Bad
  <2>1. m \in Nat
    BY <1>2
  <2>2. ~(m <= m - 1)
    BY <2>1
  <2> HIDE DEF Bad
  <2> QED BY <2>1, <2>2, <1>2
<1> HIDE DEF Bad
<1>5. CASE U = {}
  <2>1. Cardinality(U) = 0
    BY <1>5, FS_EmptySet
  <2>2. [k \in 1 .. 0 |-> 0] \in Ascending(U)
    BY <2>1 DEF Ascending
  <2> QED BY <2>2, <1>3
<1>6. CASE U # {} /\ m - 1 \notin U
  <2>1. m # 0 /\ U \in SUBSET (0 .. (m - 1) - 1)
    <3>1. \A x \in U : x \in 0 .. m - 1 /\ x # m - 1
      BY <1>3, <1>6
    <3>2. \A x \in U : x \in 0 .. (m - 1) - 1
      BY <3>1, <1>4
    <3>3. PICK x : x \in U
      BY <1>6
    <3> QED BY <3>1, <3>2, <3>3, <1>4
  <2> QED BY <2>1, <1>3, <1>4 DEF Bad
<1>7. CASE m - 1 \in U
  <2> DEFINE V == U \ {m - 1}
  <2>1. m # 0 /\ V \in SUBSET (0 .. (m - 1) - 1)
    BY <1>3, <1>4, <1>7
  <2>2. PICK f : f \in Ascending(V)
    BY <2>1, <1>4 DEF Bad
  <2>3. IsFiniteSet(U) /\ IsFiniteSet(V)
    <3>1. IsFiniteSet(0 .. m - 1)
      BY <1>4, FS_Interval
    <3> QED BY <3>1, <1>3, FS_Subset
  <2>4. PICK c \in Nat : c = Cardinality(V) /\ Cardinality(U) = c + 1
    BY <2>3, <1>7, FS_CardinalityType, FS_RemoveElement
  <2>5. f \in [1 .. c -> V] /\ \A i, j \in 1 .. c : i < j => f[i] < f[j]
    BY <2>2, <2>4 DEF Ascending
  <2> DEFINE g == [k \in 1 .. c + 1 |-> IF k = c + 1 THEN m - 1 ELSE f[k]]
  <2>6. g \in [1 .. c + 1 -> U]
    <3>1. \A k \in 1 .. c + 1 : k # c + 1 => k \in 1 .. c
      BY <2>4
    <3> QED BY <3>1, <2>5, <1>7
  <2>7. ASSUME NEW i \in 1 .. c + 1, NEW j \in 1 .. c + 1, i < j PROVE g[i] < g[j]
    <3>0. i \in 1 .. c /\ i # c + 1
      BY <2>4, <2>7
    <3>1. i \in 1 .. c /\ g[i] = f[i] /\ f[i] \in V
      BY <3>0, <2>5
    <3>2. f[i] \in 0 .. (m - 1) - 1
      BY <3>1, <2>1
    <3>3. CASE j = c + 1
      BY <3>1, <3>2, <3>3, <1>4
    <3>4. CASE j # c + 1
      <4>1. j \in 1 .. c /\ g[j] = f[j]
        BY <3>4, <2>4
      <4> QED BY <4>1, <3>1, <2>5, <2>7
    <3> QED BY <3>3, <3>4
  <2>8. g \in Ascending(U)
    <3> HIDE DEF g, V
    <3> QED BY <2>4, <2>6, <2>7 DEF Ascending
  <2> QED BY <2>8, <1>3
<1> QED BY <1>5, <1>6, <1>7

-----------------------------------------------------------------------------
(* A frame.                                                                *)

\* Two sequences, one behind the other.
LEMMA Joined ==
  ASSUME NEW S, NEW s \in Seq(S), NEW u \in Seq(S)
  PROVE  /\ s \o u \in Seq(S) /\ Len(s \o u) = Len(s) + Len(u)
         /\ \A p \in DOMAIN s : p \in DOMAIN (s \o u) /\ (s \o u)[p] = s[p]
         /\ \A k \in 1 .. Len(u) : (s \o u)[Len(s) + k] = u[k]
OBVIOUS

\* What remains behind the first element of a sequence.
LEMMA Behind ==
  ASSUME NEW S, NEW s \in Seq(S), s # <<>>
  PROVE  /\ Len(s) \in Nat \ {0} /\ Head(s) = s[1] /\ s[1] \in S
         /\ Tail(s) \in Seq(S) /\ Len(Tail(s)) = Len(s) - 1
         /\ DOMAIN Tail(s) = 1 .. Len(s) - 1 /\ DOMAIN s = 1 .. Len(s)
         /\ \A k \in 1 .. Len(s) - 1 : Tail(s)[k] = s[k + 1]
OBVIOUS

\* A screen has rows and columns.
LEMMA ScreenSize ==
  ASSUME TypeOK
  PROVE  /\ size \in (Nat \ {0}) \X (Nat \ {0})
         /\ \A i \in 0 .. Tiles(size) - 1 : At(i, size) \in Places(size)
         /\ Tiles(size) \in Nat \ {0}
         /\ MaskBits(size) \in Nat /\ MaskBits(size) >= Tiles(size)
<1>1. size \in (Nat \ {0}) \X (Nat \ {0})
  BY ScreenStreamAssumption DEF TypeOK
<1> QED BY <1>1, AtOnScreen, TilesPositive, MaskBitsEnough

\* A mask asks for the tiles that are dirty, of which there are finitely many.
LEMMA MaskAsksDirty ==
  ASSUME TypeOK
  PROVE  /\ Asked(Mask) = Dirty /\ Mask \in SUBSET Nat
         /\ Dirty \in SUBSET (0 .. Tiles(size) - 1)
         /\ IsFiniteSet(Dirty) /\ Cardinality(Dirty) \in Nat
         /\ Full => Dirty = 0 .. Tiles(size) - 1 /\ Cardinality(Dirty) = Tiles(size)
<1>1. Dirty \in SUBSET (0 .. Tiles(size) - 1)
  BY DEF Dirty
<1>2. Full => Dirty = 0 .. Tiles(size) - 1
  BY DEF Dirty
<1>3. Tiles(size) \in Nat \ {0} /\ MaskBits(size) \in Nat /\ MaskBits(size) >= Tiles(size)
  BY ScreenSize
<1>4. IsFiniteSet(0 .. Tiles(size) - 1) /\ Cardinality(0 .. Tiles(size) - 1) = Tiles(size)
  <2>1. PICK t \in Nat \ {0} : t = Tiles(size)
    BY <1>3
  <2>2. IsFiniteSet(0 .. t - 1) /\ Cardinality(0 .. t - 1) = t
    <3>1. PICK b \in Nat : b = t - 1
      BY <2>1
    <3>2. IsFiniteSet(0 .. b) /\ Cardinality(0 .. b) = b + 1
      BY <3>1, FS_Interval, ~(0 > b)
    <3> QED BY <2>1, <3>1, <3>2
  <2> QED BY <2>1, <2>2
<1>5. IsFiniteSet(Dirty) /\ Cardinality(Dirty) \in Nat
  BY <1>1, <1>4, FS_Subset, FS_CardinalityType
<1>6. Asked(Mask) = Dirty /\ Mask \in SUBSET Nat
  <2>1. PICK t \in Nat \ {0}, b \in Nat : t = Tiles(size) /\ b = MaskBits(size) /\ b >= t
    BY <1>3
  <2>2. CASE Full
    <3>1. Mask = 0 .. b - 1 /\ Dirty = 0 .. t - 1
      BY <2>1, <2>2, <1>2 DEF Mask
    <3>2. (0 .. b - 1) \cap (0 .. t - 1) = 0 .. t - 1
      BY <2>1
    <3> QED BY <2>1, <3>1, <3>2 DEF Asked
  <2>3. CASE ~Full
    <3>1. Mask = Dirty /\ Dirty \subseteq 0 .. t - 1
      BY <2>1, <2>3, <1>1 DEF Mask
    <3>2. 0 .. t - 1 \subseteq Nat
      BY <2>1
    <3>3. Dirty \cap 0 .. t - 1 = Dirty /\ Dirty \subseteq Nat
      BY <3>1, <3>2, Zenon
    <3> QED BY <2>1, <3>1, <3>3 DEF Asked
  <2> QED BY <2>2, <2>3
<1> QED BY <1>1, <1>2, <1>4, <1>5, <1>6

\* What a frame adds to the stream: a mask and then the n dirty tiles, the last
\* one last.
LEMMA FrameSent ==
  ASSUME TypeOK, Capture
  PROVE  \E n \in Nat, order \in Ascending(Dirty) :
           /\ n = Cardinality(Dirty) /\ order \in [1 .. n -> Dirty]
           /\ \A i \in Dirty : \E k \in 1 .. n : order[k] = i
           /\ \A k \in 1 .. n : order[k] <= order[n]
           /\ wire' \in Seq(Messages)
           /\ Len(wire') = Len(wire) + 1 + n
           /\ \A p \in DOMAIN wire : p \in DOMAIN wire' /\ wire'[p] = wire[p]
           /\ wire'[Len(wire) + 1] = MaskMessage(Mask)
           /\ \A k \in 1 .. n : wire'[Len(wire) + 1 + k] = TileMessage(order[k])
<1>1. PICK order \in Ascending(Dirty) : wire' = wire \o Frame(Mask, order)
  BY DEF Capture, SendsFrame
<1>2. PICK n \in Nat : n = Cardinality(Dirty)
  BY MaskAsksDirty
<1>3. /\ order \in [1 .. n -> Dirty]
      /\ \A i, j \in 1 .. n : i < j => order[i] < order[j]
  BY <1>1, <1>2 DEF Ascending
<1>4. \A i \in Dirty : \E k \in 1 .. n : order[k] = i
  <2>1. Dirty \in SUBSET Nat /\ IsFiniteSet(Dirty)
    BY MaskAsksDirty
  <2> QED BY <1>1, <1>2, <2>1, AscendingOnto DEF Surjection
<1>5. \A k \in 1 .. n : order[k] <= order[n]
  <2>1. Dirty \in SUBSET Nat
    BY MaskAsksDirty
  <2> SUFFICES ASSUME NEW k \in 1 .. n PROVE order[k] <= order[n]
    OBVIOUS
  <2>2. n \in 1 .. n
    BY <1>2
  <2> HIDE DEF Dirty
  <2>4. order[k] \in Dirty /\ order[n] \in Dirty
    BY <2>2, <1>3
  <2>3. k = n \/ k < n
    OBVIOUS
  <2>5. order[k] \in Nat /\ order[n] \in Nat
    BY <2>1, <2>4
  <2>6. CASE k = n
    BY <2>5, <2>6
  <2>7. CASE k < n
    <3>1. order[k] < order[n]
      BY <2>2, <2>7, <1>3
    <3> QED BY <3>1, <2>5
  <2> QED BY <2>3, <2>6, <2>7
<1>6. MaskMessage(Mask) \in Messages
  BY MaskAsksDirty, ScreenSize DEF MaskMessage, Messages
<1>7. \A i \in Dirty : TileMessage(i) \in Messages
  <2> SUFFICES ASSUME NEW i \in Dirty PROVE TileMessage(i) \in Messages
    OBVIOUS
  <2>1. At(i, size) \in Places(size)
    BY MaskAsksDirty, ScreenSize
  <2>2. At(i, size) \in Nat \X Nat
    BY <2>1, ScreenSize DEF Places
  <2>3. screen[At(i, size)] \in Colours
    BY <2>1 DEF TypeOK
  <2> QED BY <2>2, <2>3 DEF TileMessage, Messages
<1>8. [k \in 1 .. n |-> TileMessage(order[k])] \in Seq(Messages)
  BY <1>3, <1>7
<1>9. /\ Frame(Mask, order) \in Seq(Messages)
      /\ Len(Frame(Mask, order)) = 1 + n
      /\ Frame(Mask, order)[1] = MaskMessage(Mask)
      /\ \A k \in 1 .. n : Frame(Mask, order)[1 + k] = TileMessage(order[k])
  <2>1. PICK ts : ts = [k \in 1 .. n |-> TileMessage(order[k])]
    OBVIOUS
  <2>2. Frame(Mask, order) = <<MaskMessage(Mask)>> \o ts
    BY <1>3, <2>1 DEF Frame
  <2>3. ts \in Seq(Messages) /\ Len(ts) = n
    BY <2>1, <1>8
  <2> QED BY <2>1, <2>2, <2>3, <1>6
<1>10. wire \in Seq(Messages)
  BY DEF TypeOK
<1> HIDE DEF Frame
<1>11. PICK f \in Seq(Messages) : f = Frame(Mask, order)
  BY <1>9
<1>12. /\ wire' \in Seq(Messages) /\ Len(wire') = Len(wire) + Len(f)
       /\ \A p \in DOMAIN wire : p \in DOMAIN wire' /\ wire'[p] = wire[p]
       /\ \A k \in 1 .. Len(f) : wire'[Len(wire) + k] = f[k]
  BY <1>1, <1>10, <1>11, Joined
<1>13. /\ Len(wire') = Len(wire) + 1 + n
       /\ wire'[Len(wire) + 1] = MaskMessage(Mask)
  <2>1. Len(f) = 1 + n /\ 1 \in 1 .. Len(f) /\ f[1] = MaskMessage(Mask)
    BY <1>2, <1>9, <1>11
  <2>2. Len(wire) \in Nat
    BY <1>10
  <2> QED BY <1>2, <1>12, <2>1, <2>2
<1>14. \A k \in 1 .. n : wire'[Len(wire) + 1 + k] = TileMessage(order[k])
  <2> SUFFICES ASSUME NEW k \in 1 .. n
               PROVE  wire'[Len(wire) + 1 + k] = TileMessage(order[k])
    OBVIOUS
  <2>1. 1 + k \in 1 .. Len(f) /\ Len(wire) + 1 + k = Len(wire) + (1 + k)
    BY <1>2, <1>9, <1>10, <1>11
  <2> QED BY <2>1, <1>9, <1>11, <1>12
<1> QED BY <1>1, <1>2, <1>3, <1>4, <1>5, <1>12, <1>13, <1>14

-----------------------------------------------------------------------------
(* Types.                                                                  *)

\* What the client does with a message keeps the types.
LEMMA PatchTyped ==
  ASSUME TypeOK, NEW at \in Nat \X Nat, NEW colour \in Colours, Patch(at, colour)
  PROVE  /\ img' \in Nat \X Nat /\ picture' \in [Places(img') -> Colours \cup {Blank}]
         /\ img' = <<IF img[1] >= at[1] + 1 THEN img[1] ELSE at[1] + 1,
                     IF img[2] >= at[2] + 1 THEN img[2] ELSE at[2] + 1>>
         /\ picture' = [t \in Places(img') |->
                          IF t = at THEN colour
                          ELSE IF img' = img THEN picture[t] ELSE Blank]
         /\ at \in Places(img')
<1>1. img \in Nat \X Nat /\ picture \in [Places(img) -> Colours \cup {Blank}]
  BY DEF TypeOK
<1>2. /\ Max({img[1], at[1] + 1}) = IF img[1] >= at[1] + 1 THEN img[1] ELSE at[1] + 1
      /\ Max({img[2], at[2] + 1}) = IF img[2] >= at[2] + 1 THEN img[2] ELSE at[2] + 1
  BY <1>1, MaxOfTwo, at[1] + 1 \in Nat, at[2] + 1 \in Nat
<1>3. img' = <<Max({img[1], at[1] + 1}), Max({img[2], at[2] + 1})>>
  BY DEF Patch
<1>4. picture' = [t \in Places(img') |->
                    IF t = at THEN colour
                    ELSE IF img' = img THEN picture[t] ELSE Blank]
  BY <1>3 DEF Patch
<1>5. img' \in Nat \X Nat /\ at[1] < img'[1] /\ at[2] < img'[2]
  BY <1>1, <1>2, <1>3
<1>6. at \in Places(img')
  BY <1>5 DEF Places
<1>7. picture' \in [Places(img') -> Colours \cup {Blank}]
  <2>1. \A t \in Places(img') : img' = img => picture[t] \in Colours \cup {Blank}
    BY <1>1
  <2> QED BY <1>4, <2>1
<1> QED BY <1>2, <1>3, <1>4, <1>5, <1>6, <1>7

LEMMA TypeInit == Init => TypeOK
<1> SUFFICES ASSUME Init PROVE TypeOK
  OBVIOUS
<1>1. Places(<<0, 0>>) = {}
  BY DEF Places
<1>2. <<>> \in [{} -> Colours] /\ <<>> \in [{} -> Colours \cup {Blank}]
  OBVIOUS
<1>3. <<>> \in Seq(Messages)
  OBVIOUS
<1>4. 0 \in 0 .. MaxChanges /\ 0 \in 0 .. MaxOther
  BY ScreenStreamAssumption
<1> QED BY <1>1, <1>2, <1>3, <1>4 DEF Init, TypeOK

LEMMA TypeStep == TypeOK /\ [Next]_vars => TypeOK'
<1> SUFFICES ASSUME TypeOK, [Next]_vars PROVE TypeOK'
  OBVIOUS
<1> USE DEF source, sender, receiver
<1>1. CASE ScreenChanges
  <2>1. changes' \in 0 .. MaxChanges
    BY <1>1, ScreenStreamAssumption DEF ScreenChanges, TypeOK
  <2>2. screen' \in [Places(size) -> Colours]
    BY <1>1 DEF ScreenChanges, TypeOK
  <2> QED BY <1>1, <2>1, <2>2 DEF ScreenChanges, TypeOK
<1>2. CASE ScreenResizes
  <2>1. changes' \in 0 .. MaxChanges
    BY <1>2, ScreenStreamAssumption DEF ScreenResizes, TypeOK
  <2> QED BY <1>2, <2>1 DEF ScreenResizes, TypeOK
<1>3. ASSUME NEW n \in 0 .. FullEvery - 1 PROVE NextFrame(n) \in 0 .. FullEvery - 1
  <2>1. n + 1 \in Nat /\ FullEvery \in Nat \ {0}
    BY ScreenStreamAssumption
  <2> QED BY <2>1, RemainderRange DEF NextFrame
<1>4. CASE Capture
  <2>1. wire' \in Seq(Messages)
    BY <1>4, FrameSent
  <2>2. frameCounter' \in 0 .. FullEvery - 1
    BY <1>3, <1>4 DEF Capture, Captures, TypeOK
  <2>3. prevSize' = size /\ prev' = screen /\ first' = FALSE
    BY <1>4 DEF Capture, Captures
  <2>4. UNCHANGED <<source, streaming, other, receiver>>
    BY <1>4 DEF Capture, Captures
  <2> QED BY <2>1, <2>2, <2>3, <2>4 DEF TypeOK
<1>5. CASE OtherCaptures
  <2>1. frameCounter' \in 0 .. FullEvery - 1
    BY <1>3, <1>5 DEF OtherCaptures, TypeOK
  <2>2. other' \in 0 .. MaxOther
    BY <1>5, ScreenStreamAssumption DEF OtherCaptures, TypeOK
  <2> QED BY <1>5, <2>1, <2>2 DEF OtherCaptures, TypeOK
<1>6. CASE StreamEnds
  BY <1>6 DEF StreamEnds, TypeOK
<1>7. CASE ReceiveMask
  <2>1. wire' \in Seq(Messages)
    BY <1>7, Behind DEF ReceiveMask, TypeOK
  <2>2. PICK e \in Nat : e = Expected
    <3>1. ASSUME NEW a \in Nat, NEW b \in Nat PROVE a * b \in Nat
      OBVIOUS
    <3> QED BY <3>1, ScreenStreamAssumption DEF Expected, Tiles, TypeOK
  <2>3. PICK stray \in SUBSET (Head(wire).bits .. Expected - 1) :
          due' = Cardinality((Head(wire).mask \cap 0 .. Expected - 1) \cup stray)
    BY <1>7 DEF ReceiveMask
  <2>4. Head(wire) \in Messages /\ Head(wire).kind = "mask"
    BY <1>7, Behind DEF ReceiveMask, TypeOK
  <2>5. Head(wire).bits \in Nat
    BY <2>4 DEF Messages
  <2>6. (Head(wire).mask \cap 0 .. e - 1) \cup stray \subseteq 0 .. e - 1
    <3>1. Head(wire).bits .. e - 1 \subseteq 0 .. e - 1
      BY <2>2, <2>5
    <3> QED BY <2>2, <2>3, <3>1
  <2>7. IsFiniteSet(0 .. e - 1)
    <3>1. e - 1 \in Int
      BY <2>2
    <3> QED BY <3>1, FS_Interval
  <2>8. due' \in Nat
    BY <2>2, <2>3, <2>6, <2>7, FS_Subset, FS_CardinalityType
  <2>9. UNCHANGED <<source, sender, img, picture, receiving, confused>>
    BY <1>7 DEF ReceiveMask
  <2> QED BY <2>1, <2>8, <2>9 DEF TypeOK
<1>8. CASE ReceiveTile
  <2>1. Head(wire) \in Messages /\ Head(wire).kind = "tile" /\ wire' \in Seq(Messages)
    BY <1>8, Behind DEF ReceiveTile, TypeOK
  <2>2. Head(wire).at \in Nat \X Nat /\ Head(wire).colour \in Colours
    BY <2>1 DEF Messages
  <2>3. img' \in Nat \X Nat /\ picture' \in [Places(img') -> Colours \cup {Blank}]
    BY <1>8, <2>2, PatchTyped DEF ReceiveTile
  <2>4. due' \in Nat /\ UNCHANGED <<source, sender, receiving, confused>>
    BY <1>8 DEF ReceiveTile, TypeOK
  <2> QED BY <2>1, <2>3, <2>4 DEF TypeOK
<1>9. CASE Confuse
  BY <1>9 DEF Confuse, TypeOK
<1>10. CASE ReceiveEnd
  BY <1>10 DEF ReceiveEnd, TypeOK
<1>11. CASE UNCHANGED vars
  BY <1>11 DEF vars, TypeOK
<1> QED BY <1>1, <1>2, <1>4, <1>5, <1>6, <1>7, <1>8, <1>9, <1>10, <1>11 DEF Next, Receive

\* Every variable keeps its type, and the bitmap has the size that imgW and imgH
\* tell, for screens of every size.
THEOREM TypesHold == Spec => []TypeOK
BY TypeInit, TypeStep, PTL DEF Spec

-----------------------------------------------------------------------------
(* No old tile is shown for good.                                          *)

\* What arrives last says all: TilesTrue follows from the invariant.
LEMMA TrueEnough ==
  ASSUME TypeOK, TrueInv
  PROVE  TilesTrue
<1> SUFFICES ASSUME ~confused, NEW t \in Places(prevSize)
             PROVE  Arriving(t) \in {prev[t], Blank}
  BY DEF TilesTrue
<1> DEFINE sent == {i \in DOMAIN wire : wire[i].kind = "tile" /\ wire[i].at = t}
<1>1. TrueAt(t)
  BY DEF TrueInv
<1>2. wire \in Seq(Messages)
  BY DEF TypeOK
<1>3. CASE sent # {}
  <2>1. sent \in SUBSET (0 .. Len(wire)) /\ Len(wire) \in Nat
    BY <1>2
  <2>2. Max(sent) \in sent /\ \A j \in sent : Max(sent) >= j
    BY <1>3, <2>1, Greatest
  <2>3. PICK m \in sent : m = Max(sent) /\ \A j \in sent : m >= j
    BY <2>2
  <2>4. \A j \in DOMAIN wire : m < j => ~TileFor(j, t)
    <3> SUFFICES ASSUME NEW j \in DOMAIN wire, m < j, TileFor(j, t) PROVE FALSE
      OBVIOUS
    <3>1. j \in sent
      BY DEF TileFor, IsTile
    <3>2. m \in Nat /\ j \in Nat
      BY <2>1, <2>3, <3>1
    <3> QED BY <2>3, <3>1, <3>2
  <2>5. LastFor(m, t)
    BY <2>3, <2>4 DEF LastFor, TileFor, IsTile
  <2>6. wire[m].colour = prev[t]
    BY <1>1, <2>3, <2>5 DEF TrueAt
  <2> QED BY <1>3, <2>3, <2>6 DEF Arriving
<1>4. CASE sent = {}
  <2>1. t \notin Places(img) \/ picture[t] \in {prev[t], Blank}
    BY <1>1, <1>4 DEF TrueAt, TileFor, IsTile
  <2> QED BY <1>4, <2>1 DEF Arriving
<1> QED BY <1>3, <1>4

LEMMA TrueInit == Init => TrueInv
<1>1. Places(<<0, 0>>) = {}
  BY DEF Places
<1> QED BY <1>1 DEF Init, TrueInv

\* A frame sends a tile, or the server already has it as it is.
LEMMA TrueCapture ==
  ASSUME TypeOK, TrueInv, Capture
  PROVE  TrueInv'
<1> SUFFICES ASSUME ~confused, NEW t \in Places(size) PROVE TrueAt(t)'
  BY DEF TrueInv, Capture, Captures, receiver
<1>1. PICK n \in Nat, order \in Ascending(Dirty) :
        /\ order \in [1 .. n -> Dirty]
        /\ \A i \in Dirty : \E k \in 1 .. n : order[k] = i
        /\ wire' \in Seq(Messages)
        /\ Len(wire') = Len(wire) + 1 + n
        /\ \A p \in DOMAIN wire : p \in DOMAIN wire' /\ wire'[p] = wire[p]
        /\ wire'[Len(wire) + 1] = MaskMessage(Mask)
        /\ \A k \in 1 .. n : wire'[Len(wire) + 1 + k] = TileMessage(order[k])
  BY FrameSent
<1>2. prevSize' = size /\ prev' = screen /\ UNCHANGED <<img, picture>>
  BY DEF Capture, Captures, receiver
<1>3. wire \in Seq(Messages) /\ Len(wire) \in Nat /\ DOMAIN wire = 1 .. Len(wire)
  BY DEF TypeOK
<1>4. DOMAIN wire' = 1 .. Len(wire) + 1 + n
  BY <1>1
<1>5. ASSUME NEW j \in DOMAIN wire', j \notin DOMAIN wire, TileFor(j, t)'
      PROVE  wire'[j].colour = screen[t]
  <2>1. j # Len(wire) + 1
    BY <1>1, <1>5 DEF TileFor, IsTile, MaskMessage
  <2>2. PICK k \in 1 .. n : j = Len(wire) + 1 + k
    <3>1. j - (Len(wire) + 1) \in 1 .. n /\ j = Len(wire) + 1 + (j - (Len(wire) + 1))
      BY <1>1, <1>3, <1>4, <1>5, <2>1
    <3> QED BY <3>1
  <2>3. wire'[j] = TileMessage(order[k])
    BY <1>1, <2>2
  <2> QED BY <1>5, <2>3 DEF TileFor, TileMessage
<1>6. PICK i \in 0 .. Tiles(size) - 1 : At(i, size) = t
  BY ScreenSize, AtCovers
<1>7. CASE i \in Dirty
  <2>1. PICK k \in 1 .. n : order[k] = i
    BY <1>1, <1>7
  <2>2. PICK q \in DOMAIN wire' : q = Len(wire) + 1 + k
    BY <1>1, <1>3, <1>4, <2>1
  <2>3. TileFor(q, t)'
    <3>1. wire'[q] = TileMessage(i)
      BY <1>1, <2>1, <2>2
    <3>2. wire'[q].kind = "tile" /\ wire'[q].at = t
      BY <1>6, <3>1 DEF TileMessage
    <3> QED BY <3>2 DEF TileFor, IsTile
  <2>4. ASSUME NEW j \in DOMAIN wire', LastFor(j, t)' PROVE wire'[j].colour = screen[t]
    <3>1. TileFor(j, t)' /\ ~(j < q)
      BY <2>2, <2>3, <2>4 DEF LastFor
    <3>2. j \notin DOMAIN wire
      BY <1>1, <1>3, <1>4, <2>1, <2>2, <3>1
    <3> QED BY <1>5, <3>1, <3>2
  <2> QED BY <1>2, <2>2, <2>3, <2>4 DEF TrueAt
<1>8. CASE i \notin Dirty
  <2>1. prevSize = size /\ prev[t] = screen[t]
    BY <1>6, <1>8 DEF Dirty, Full
  <2>2. TrueAt(t)
    BY <2>1 DEF TrueInv
  <2>3. ASSUME NEW j \in DOMAIN wire', LastFor(j, t)' PROVE wire'[j].colour = screen[t]
    <3>1. CASE j \notin DOMAIN wire
      BY <1>5, <2>3, <3>1 DEF LastFor
    <3>2. CASE j \in DOMAIN wire
      <4>1. TileFor(j, t) /\ wire'[j] = wire[j]
        BY <1>1, <2>3, <3>2 DEF LastFor, TileFor, IsTile
      <4>2. \A k \in DOMAIN wire : j < k => ~TileFor(k, t)
        BY <1>1, <2>3 DEF LastFor, TileFor, IsTile
      <4>3. wire[j].colour = prev[t]
        BY <2>2, <3>2, <4>1, <4>2 DEF LastFor, TrueAt
      <4> QED BY <2>1, <4>1, <4>3
    <3> QED BY <3>1, <3>2
  <2>4. (\E j \in DOMAIN wire : TileFor(j, t)) => \E j \in DOMAIN wire' : TileFor(j, t)'
    BY <1>1 DEF TileFor, IsTile
  <2> QED BY <1>2, <2>1, <2>2, <2>3, <2>4 DEF TrueAt
<1> QED BY <1>7, <1>8

\* When the first message is received the others move up.
LEMMA MoveUp ==
  ASSUME TypeOK, wire # <<>>, wire' = Tail(wire), NEW t
  PROVE  /\ \A j \in DOMAIN wire' : LastFor(j, t)' =>
               j + 1 \in DOMAIN wire /\ LastFor(j + 1, t) /\ wire'[j] = wire[j + 1]
         /\ \A k \in DOMAIN wire :
               TileFor(k, t) => k = 1 \/ \E j \in DOMAIN wire' : TileFor(j, t)'
<1>2. /\ Len(wire) \in Nat \ {0}
      /\ DOMAIN wire' = 1 .. Len(wire) - 1 /\ DOMAIN wire = 1 .. Len(wire)
      /\ \A k \in 1 .. Len(wire) - 1 : wire'[k] = wire[k + 1]
  BY Behind DEF TypeOK
<1>4. \A j \in DOMAIN wire' : j + 1 \in DOMAIN wire /\ (TileFor(j, t)' <=> TileFor(j + 1, t))
  BY <1>2 DEF TileFor, IsTile
<1>5. \A k \in DOMAIN wire : k # 1 => k - 1 \in DOMAIN wire' /\ k = (k - 1) + 1
  BY <1>2
<1>6. ASSUME NEW j \in DOMAIN wire', LastFor(j, t)'
      PROVE  j + 1 \in DOMAIN wire /\ LastFor(j + 1, t) /\ wire'[j] = wire[j + 1]
  <2>1. TileFor(j + 1, t) /\ j \in Nat \ {0}
    BY <1>2, <1>4, <1>6 DEF LastFor
  <2>2. ASSUME NEW k \in DOMAIN wire, j + 1 < k, TileFor(k, t) PROVE FALSE
    <3>1. k - 1 \in DOMAIN wire' /\ j < k - 1 /\ TileFor(k - 1, t)'
      BY <1>2, <1>4, <1>5, <2>1, <2>2
    <3> QED BY <1>6, <3>1 DEF LastFor
  <2> QED BY <1>2, <1>4, <2>1, <2>2 DEF LastFor
<1> QED BY <1>4, <1>5, <1>6

\* A mask that is received changes no tile.
LEMMA TrueReceiveMask ==
  ASSUME TypeOK, TrueInv, ReceiveMask
  PROVE  TrueInv'
<1>1. UNCHANGED <<img, picture, prevSize, prev, confused>>
  BY DEF ReceiveMask, sender
<1> SUFFICES ASSUME ~confused, NEW t \in Places(prevSize) PROVE TrueAt(t)'
  BY <1>1 DEF TrueInv
<1>2. wire # <<>> /\ wire' = Tail(wire) /\ ~TileFor(1, t)
  BY Behind DEF ReceiveMask, TypeOK, TileFor, IsTile
<1>3. TrueAt(t)
  BY DEF TrueInv
<1> QED BY <1>1, <1>2, <1>3, MoveUp DEF TrueAt

\* A tile that is received is shown; a bitmap that is replaced is blank.
LEMMA TrueReceiveTile ==
  ASSUME TypeOK, TrueInv, ReceiveTile
  PROVE  TrueInv'
<1>1. UNCHANGED <<prevSize, prev, confused>>
  BY DEF ReceiveTile, sender
<1> SUFFICES ASSUME ~confused, NEW t \in Places(prevSize) PROVE TrueAt(t)'
  BY <1>1 DEF TrueInv
<1>2. /\ wire # <<>> /\ wire' = Tail(wire) /\ 1 \in DOMAIN wire
      /\ wire[1] \in Messages /\ wire[1].kind = "tile" /\ Head(wire) = wire[1]
  BY Behind DEF ReceiveTile, TypeOK
<1>3. PICK at \in Nat \X Nat, colour \in Colours : at = wire[1].at /\ colour = wire[1].colour
  BY <1>2 DEF Messages
<1>4. /\ picture' = [u \in Places(img') |->
                       IF u = at THEN colour
                       ELSE IF img' = img THEN picture[u] ELSE Blank]
  BY <1>2, <1>3, PatchTyped DEF ReceiveTile
<1>5. TrueAt(t)
  BY DEF TrueInv
<1>6. \A j \in DOMAIN wire' : LastFor(j, t)' => wire'[j].colour = prev'[t]
  BY <1>1, <1>2, <1>5, MoveUp DEF TrueAt
<1>7. ASSUME ~\E j \in DOMAIN wire' : TileFor(j, t)', t \in Places(img')
      PROVE  picture'[t] \in {prev[t], Blank}
  <2>1. \A k \in DOMAIN wire : TileFor(k, t) => k = 1
    BY <1>2, <1>7, MoveUp
  <2>2. CASE t = at
    <3>1. TileFor(1, t)
      BY <1>2, <1>3, <2>2 DEF TileFor, IsTile
    <3>2. LastFor(1, t)
      BY <2>1, <3>1 DEF LastFor
    <3>3. colour = prev[t]
      BY <1>2, <1>3, <1>5, <3>2 DEF TrueAt
    <3> QED BY <1>4, <1>7, <2>2, <3>3
  <2>3. CASE t # at
    <3>1. ~TileFor(1, t)
      BY <1>3, <2>3 DEF TileFor
    <3>2. ~\E k \in DOMAIN wire : TileFor(k, t)
      BY <2>1, <3>1
    <3>3. t \notin Places(img) \/ picture[t] \in {prev[t], Blank}
      BY <1>5, <3>2 DEF TrueAt
    <3> QED BY <1>4, <1>7, <2>3, <3>3
  <2> QED BY <2>2, <2>3
<1> QED BY <1>1, <1>6, <1>7 DEF TrueAt

LEMMA TrueStep == TypeOK /\ TrueInv /\ [Next]_vars => TrueInv'
<1> SUFFICES ASSUME TypeOK, TrueInv, [Next]_vars PROVE TrueInv'
  OBVIOUS
<1>1. ASSUME UNCHANGED <<prevSize, prev, wire, img, picture>>, confused => confused'
      PROVE  TrueInv'
  <2> SUFFICES ASSUME ~confused', NEW t \in Places(prevSize) PROVE TrueAt(t)'
    BY <1>1 DEF TrueInv
  <2>1. TrueAt(t)
    BY <1>1 DEF TrueInv
  <2> QED BY <1>1, <2>1 DEF TrueAt, LastFor, TileFor, IsTile
<1>2. ASSUME ScreenChanges \/ ScreenResizes \/ OtherCaptures \/ StreamEnds
             \/ Confuse \/ ReceiveEnd \/ UNCHANGED vars
      PROVE  TrueInv'
  BY <1>1, <1>2 DEF ScreenChanges, ScreenResizes, OtherCaptures, StreamEnds, Confuse,
     ReceiveEnd, vars, source, sender, receiver
<1> QED BY <1>2, TrueCapture, TrueReceiveMask, TrueReceiveTile DEF Next, Receive

\* No old tile is shown for good: what is not on the way any more is in the
\* picture as the server believes, or blank.  The sizes may change meanwhile.
THEOREM TilesTrueHolds == Spec => []TilesTrue
<1>1. Spec => []TrueInv
  BY TypesHold, TrueInit, TrueStep, PTL DEF Spec
<1>2. TypeOK /\ TrueInv => TilesTrue
  BY TrueEnough
<1> QED BY <1>1, <1>2, TypesHold, PTL

-----------------------------------------------------------------------------
(* Client and server agree on where a frame ends.                          *)

\* A mask asks for a number of tiles.
LEMMA AskedCount ==
  ASSUME TypeOK
  PROVE  /\ \A mask : Cardinality(Asked(mask)) \in Nat
         /\ Cardinality(0 .. Tiles(size) - 1) = Tiles(size)
<1>1. PICK t \in Nat \ {0} : t = Tiles(size)
  BY ScreenSize
<1>2. PICK b \in Nat : b = t - 1
  BY <1>1
<1>3. IsFiniteSet(0 .. b) /\ Cardinality(0 .. b) = b + 1
  BY <1>2, FS_Interval, ~(0 > b)
<1>4. ASSUME NEW mask PROVE Cardinality(Asked(mask)) \in Nat
  <2>1. Asked(mask) \in SUBSET (0 .. b)
    BY <1>1, <1>2 DEF Asked
  <2> QED BY <2>1, <1>3, FS_Subset, FS_CardinalityType
<1> QED BY <1>1, <1>2, <1>3, <1>4

\* With the first message gone, what followed a position is one further ahead.
LEMMA FollowsUp ==
  ASSUME TypeOK, wire # <<>>, wire' = Tail(wire), NEW p \in Nat, NEW n \in Nat,
         Follows(p + 1, n)
  PROVE  Follows(p, n)'
<1>1. /\ Len(wire) \in Nat \ {0} /\ Len(wire') = Len(wire) - 1
      /\ \A k \in 1 .. Len(wire) - 1 : wire'[k] = wire[k + 1]
  BY Behind DEF TypeOK
<1>2. (p + 1) + n <= Len(wire)
  BY DEF Follows
<1>3. p + n <= Len(wire')
  BY <1>1, <1>2
<1>4. ASSUME NEW q \in p + 1 .. p + n PROVE IsTile(q)'
  <2>1. q \in 1 .. Len(wire) - 1 /\ q + 1 \in (p + 1) + 1 .. (p + 1) + n
    BY <1>1, <1>2
  <2>2. IsTile(q + 1) /\ wire'[q] = wire[q + 1]
    BY <1>1, <2>1 DEF Follows
  <2> QED BY <2>2 DEF IsTile
<1>5. ASSUME p + n < Len(wire') PROVE IsMask(p + n + 1)'
  <2>1. (p + 1) + n < Len(wire) /\ p + n + 1 \in 1 .. Len(wire) - 1
        /\ (p + n + 1) + 1 = (p + 1) + n + 1
    BY <1>1, <1>5
  <2>2. IsMask((p + 1) + n + 1) /\ wire'[p + n + 1] = wire[(p + n + 1) + 1]
    BY <1>1, <2>1 DEF Follows
  <2> QED BY <2>1, <2>2 DEF IsMask
<1> QED BY <1>3, <1>4, <1>5 DEF Follows

\* Of the tiles that are expected all but the first follow the first.
LEMMA FollowsRest ==
  ASSUME NEW d \in Nat, Follows(0, d + 1)
  PROVE  Follows(0 + 1, d)
<1>1. /\ 0 + (d + 1) = d + 1 /\ (0 + 1) + d = d + 1
      /\ \A q \in (0 + 1) + 1 .. (0 + 1) + d : q \in 0 + 1 .. 0 + (d + 1)
  OBVIOUS
<1> QED BY <1>1, Zenon DEF Follows

\* What is not smaller than a bound is the bound.
LEMMA LessOrEqual == \A a, b \in Nat : a <= b => a < b \/ a = b
OBVIOUS

\* A frame at the end of the stream takes nothing from what is before it.
LEMMA FollowsOn ==
  ASSUME TypeOK, NEW n \in Nat, Len(wire') = Len(wire) + 1 + n,
         \A k \in DOMAIN wire : wire'[k] = wire[k],
         wire'[Len(wire) + 1].kind = "mask",
         NEW p \in Nat, NEW m \in Nat, Follows(p, m)
  PROVE  Follows(p, m)'
<1>1. Len(wire) \in Nat /\ DOMAIN wire = 1 .. Len(wire)
  BY DEF TypeOK
<1>2. p + m <= Len(wire)
  BY DEF Follows
<1>3. p + m <= Len(wire')
  BY <1>1, <1>2
<1>4. ASSUME NEW q \in p + 1 .. p + m PROVE IsTile(q)'
  <2>1. q \in DOMAIN wire
    BY <1>1, <1>2
  <2> QED BY <2>1 DEF Follows, IsTile
<1>5. ASSUME p + m < Len(wire') PROVE IsMask(p + m + 1)'
  <2>1. CASE p + m < Len(wire)
    <3>1. p + m + 1 \in DOMAIN wire
      BY <1>1, <2>1
    <3> QED BY <2>1, <3>1 DEF Follows, IsMask
  <2>2. CASE p + m = Len(wire)
    <3>1. p + m + 1 = Len(wire) + 1
      BY <1>1, <2>2
    <3>2. wire'[p + m + 1].kind = "mask"
      BY <3>1
    <3> QED BY <3>2 DEF IsMask
  <2>3. p + m < Len(wire) \/ p + m = Len(wire)
    BY <1>1, <1>2, LessOrEqual, p + m \in Nat
  <2> QED BY <2>1, <2>2, <2>3
<1> QED BY <1>3, <1>4, <1>5 DEF Follows

LEMMA SteppedInit == Init => SteppedInv
<1> SUFFICES ASSUME Init PROVE ~confused /\ Framed /\ Sized
  BY DEF SteppedInv
<1>1. wire = <<>> /\ due = 0 /\ img = <<0, 0>> /\ first /\ ~confused
  BY DEF Init
<1>2. Follows(0, 0)
  BY <1>1 DEF Follows
<1> QED BY <1>1, <1>2 DEF Framed, Sized

\* The sender puts whole frames on the stream, the first of them full.
LEMMA SteppedCapture ==
  ASSUME TypeOK, SteppedInv, Capture
  PROVE  SteppedInv'
<1>1. PICK n \in Nat, order \in Ascending(Dirty) :
        /\ n = Cardinality(Dirty) /\ order \in [1 .. n -> Dirty]
        /\ \A i \in Dirty : \E k \in 1 .. n : order[k] = i
        /\ \A k \in 1 .. n : order[k] <= order[n]
        /\ wire' \in Seq(Messages)
        /\ Len(wire') = Len(wire) + 1 + n
        /\ \A p \in DOMAIN wire : p \in DOMAIN wire' /\ wire'[p] = wire[p]
        /\ wire'[Len(wire) + 1] = MaskMessage(Mask)
        /\ \A k \in 1 .. n : wire'[Len(wire) + 1 + k] = TileMessage(order[k])
  BY FrameSent
<1>2. UNCHANGED <<size, resized, img, due, confused>> /\ first' = FALSE
  BY DEF Capture, Captures, source, receiver
<1> SUFFICES ASSUME Agreed PROVE Framed' /\ Sized' /\ ~confused
  BY <1>2 DEF SteppedInv, Agreed
<1>3. ~confused /\ Framed /\ Sized
  BY DEF SteppedInv
<1>4. Len(wire) \in Nat /\ DOMAIN wire = 1 .. Len(wire) /\ DOMAIN wire' = 1 .. Len(wire')
      /\ due \in Nat
  BY <1>1 DEF TypeOK
<1>5. wire'[Len(wire) + 1].kind = "mask"
  BY <1>1 DEF MaskMessage
<1>6. \A p, m \in Nat : Follows(p, m) => Follows(p, m)'
  BY <1>1, <1>5, FollowsOn
<1>7. Framed'
  <2>1. Follows(0, due)'
    <3>1. PICK d \in Nat : d = due
      BY <1>4
    <3>2. Follows(0, d)'
      BY <1>3, <1>6, <3>1 DEF Framed
    <3> QED BY <1>2, <3>1, <3>2 DEF Follows
  <2>2. ASSUME NEW p \in DOMAIN wire', IsMask(p)'
        PROVE  /\ Follows(p, Cardinality(Asked(wire[p].mask)))'
               /\ wire'[p].bits >= Tiles(size)
    <3>1. CASE p \in DOMAIN wire
      <4>1. wire'[p] = wire[p] /\ IsMask(p)
        BY <1>1, <2>2, <3>1 DEF IsMask
      <4>2. PICK m \in Nat : m = Cardinality(Asked(wire[p].mask))
        BY AskedCount
      <4>3. Follows(p, m)' /\ wire[p].bits >= Tiles(size)
        BY <1>3, <1>4, <1>6, <3>1, <4>1, <4>2 DEF Framed
      <4>4. m = Cardinality(Asked(wire[p].mask))'
        BY <1>2, <4>1, <4>2 DEF Asked
      <4> QED BY <4>1, <4>3, <4>4 DEF Follows
    <3>2. CASE p = Len(wire) + 1
      <4>1. wire'[p].mask = Mask /\ wire'[p].bits = MaskBits(size)
        BY <1>1, <3>2 DEF MaskMessage
      <4>2. n = Cardinality(Asked(wire[p].mask))'
        BY <1>1, <1>2, <4>1, MaskAsksDirty DEF Asked
      <4>3. \A q \in p + 1 .. p + n : IsTile(q)'
        <5> SUFFICES ASSUME NEW q \in p + 1 .. p + n PROVE IsTile(q)'
          OBVIOUS
        <5>1. q - (Len(wire) + 1) \in 1 .. n /\ q = Len(wire) + 1 + (q - (Len(wire) + 1))
          BY <1>1, <1>4, <3>2
        <5>2. PICK k \in 1 .. n : q = Len(wire) + 1 + k
          BY <5>1
        <5>3. wire'[q] = TileMessage(order[k])
          BY <1>1, <5>2
        <5> QED BY <5>3 DEF IsTile, TileMessage
      <4>4. p + n <= Len(wire') /\ ~(p + n < Len(wire'))
        BY <1>1, <1>4, <3>2
      <4>5. Follows(p, n)'
        BY <4>3, <4>4 DEF Follows
      <4> QED BY <4>1, <4>2, <4>5, ScreenSize DEF Follows
    <3>3. CASE p \notin DOMAIN wire /\ p # Len(wire) + 1
      <4>1. PICK k \in 1 .. n : p = Len(wire) + 1 + k
        <5>1. p - (Len(wire) + 1) \in 1 .. n /\ p = Len(wire) + 1 + (p - (Len(wire) + 1))
          BY <1>1, <1>4, <3>3
        <5> QED BY <5>1
      <4>2. wire'[p] = TileMessage(order[k])
        BY <1>1, <4>1
      <4> QED BY <2>2, <4>2 DEF IsMask, TileMessage
    <3> QED BY <3>1, <3>2, <3>3
  <2>3. ASSUME NEW p \in DOMAIN wire', IsTile(p)'
        PROVE  wire'[p].at \in Places(size)
    <3>1. CASE p \in DOMAIN wire
      BY <1>1, <1>3, <2>3, <3>1 DEF IsTile, Framed
    <3>2. CASE p = Len(wire) + 1
      BY <1>5, <2>3, <3>2 DEF IsTile
    <3>3. CASE p \notin DOMAIN wire /\ p # Len(wire) + 1
      <4>1. PICK k \in 1 .. n : p = Len(wire) + 1 + k
        <5>1. p - (Len(wire) + 1) \in 1 .. n /\ p = Len(wire) + 1 + (p - (Len(wire) + 1))
          BY <1>1, <1>4, <3>3
        <5> QED BY <5>1
      <4>2. wire'[p] = TileMessage(order[k]) /\ order[k] \in 0 .. Tiles(size) - 1
        BY <1>1, <4>1, MaskAsksDirty
      <4> QED BY <4>2, ScreenSize DEF TileMessage
    <3> QED BY <3>1, <3>2, <3>3
  <2> QED BY <1>2, <2>1, <2>2, <2>3 DEF Framed
<1>8. Sized'
  <2>1. CASE img = size
    BY <1>2, <2>1 DEF Sized
  <2>2. CASE img = <<0, 0>> /\ due = 0 /\ wire = <<>> /\ first
    <3>1. Full /\ Len(wire) = 0
      BY <2>2 DEF Full, Forced
    <3>2. PICK t \in Nat \ {0} : t = Tiles(size)
      BY ScreenSize
    <3>3. Dirty = 0 .. t - 1 /\ n = t
      BY <1>1, <3>1, <3>2, MaskAsksDirty
    <3>4. wire' # <<>> /\ wire'[1] = MaskMessage(Mask)
      BY <1>1, <3>1
    <3>5. order[t] = t - 1
      <4>1. PICK k \in 1 .. t : order[k] = t - 1
        <5>1. t - 1 \in Dirty
          BY <3>2, <3>3
        <5> HIDE DEF Dirty
        <5> QED BY <1>1, <3>3, <5>1
      <4>2. order[t] \in 0 .. t - 1
        BY <1>1, <3>2, <3>3
      <4>3. order[k] <= order[t]
        BY <1>1, <3>3, <4>1
      <4> QED BY <3>2, <4>1, <4>2, <4>3
    <3>6. wire'[1 + t] = TileMessage(t - 1)
      <4>1. 1 + t = Len(wire) + 1 + t /\ t \in 1 .. n
        BY <3>1, <3>2, <3>3
      <4> QED BY <1>1, <3>5, <4>1
    <3>7. wire'[1 + t].at = Corner(size)
      BY <3>2, <3>6, ScreenSize, AtLast DEF TileMessage
    <3>8. Asked(wire[1].mask)' = 0 .. t - 1
      BY <1>2, <3>3, <3>4, MaskAsksDirty DEF Asked, MaskMessage
    <3> QED BY <1>2, <2>2, <3>2, <3>4, <3>7, <3>8 DEF Sized, IsMask, MaskMessage
  <2>3. CASE /\ img = <<0, 0>> /\ due = 0 /\ wire # <<>> /\ ~first
             /\ IsMask(1) /\ Asked(wire[1].mask) = 0 .. Tiles(size) - 1
             /\ wire[1 + Tiles(size)].at = Corner(size)
    <3>1. 1 \in DOMAIN wire
      BY <1>4, <2>3 DEF TypeOK
    <3>2. Follows(1, Tiles(size))
      BY <1>3, <2>3, <3>1, AskedCount DEF Framed
    <3>3. 1 + Tiles(size) \in DOMAIN wire
      BY <1>4, <3>2, ScreenSize DEF Follows
    <3>4. wire'[1] = wire[1] /\ wire'[1 + Tiles(size)] = wire[1 + Tiles(size)] /\ wire' # <<>>
      BY <1>1, <3>1, <3>3
    <3> QED BY <1>2, <2>3, <3>4 DEF Sized, IsMask, Asked
  <2>4. CASE /\ due > 0 /\ ~first /\ img[1] <= size[1] /\ img[2] <= size[2]
             /\ wire[due].at = Corner(size)
    <3>1. due \in DOMAIN wire
      BY <1>3, <1>4, <2>4 DEF Framed, Follows
    <3> QED BY <1>1, <1>2, <2>4, <3>1 DEF Sized
  <2> QED BY <1>3, <2>1, <2>2, <2>3, <2>4 DEF Sized
<1> QED BY <1>3, <1>7, <1>8

\* The client takes a mask for what it is and expects the tiles that follow it.
LEMMA SteppedReceiveMask ==
  ASSUME TypeOK, SteppedInv, ReceiveMask
  PROVE  SteppedInv'
<1>1. /\ UNCHANGED <<size, resized, img, confused, first>>
      /\ due = 0 /\ wire # <<>> /\ wire' = Tail(wire)
  BY DEF ReceiveMask, source, sender
<1> SUFFICES ASSUME Agreed PROVE Framed' /\ Sized' /\ ~confused
  BY <1>1 DEF SteppedInv, Agreed
<1>2. ~confused /\ Framed /\ Sized
  BY DEF SteppedInv
<1>3. PICK t \in Nat \ {0} : t = Tiles(size)
  BY ScreenSize
<1>4. /\ Len(wire) \in Nat \ {0} /\ Head(wire) = wire[1] /\ IsMask(1)
      /\ DOMAIN wire' = 1 .. Len(wire) - 1 /\ DOMAIN wire = 1 .. Len(wire)
      /\ \A k \in 1 .. Len(wire) - 1 : wire'[k] = wire[k + 1]
      /\ wire[1] \in Messages /\ wire[1].bits \in Nat
  BY Behind DEF ReceiveMask, TypeOK, IsMask, Messages
<1>5. Expected = t
  BY <1>1, <1>2, <1>3 DEF Sized, Expected, Agreed
<1>6. PICK d \in Nat : d = due' /\ d = Cardinality(Asked(wire[1].mask))
  <2>1. PICK stray \in SUBSET (wire[1].bits .. t - 1) :
          due' = Cardinality((wire[1].mask \cap 0 .. t - 1) \cup stray)
    BY <1>4, <1>5 DEF ReceiveMask
  <2>2. wire[1].bits >= t
    BY <1>2, <1>3, <1>4 DEF Framed
  <2>3. wire[1].bits .. t - 1 = {}
    BY <1>3, <1>4, <2>2
  <2>4. (wire[1].mask \cap 0 .. t - 1) \cup stray = Asked(wire[1].mask)
    BY <1>3, <2>1, <2>3 DEF Asked
  <2> QED BY <2>1, <2>4, AskedCount
<1>7. \A p, m \in Nat : Follows(p + 1, m) => Follows(p, m)'
  BY <1>1, FollowsUp
<1>8. Framed'
  <2>1. Follows(0, d)'
    <3>1. Follows(0 + 1, d)
      BY <1>2, <1>4, <1>6 DEF Framed
    <3> QED BY <1>7, <3>1
  <2>2. ASSUME NEW p \in DOMAIN wire'
        PROVE  /\ IsMask(p)' => /\ Follows(p, Cardinality(Asked(wire[p].mask)))'
                                /\ wire'[p].bits >= Tiles(size)
               /\ IsTile(p)' => wire'[p].at \in Places(size)
    <3>1. p \in Nat /\ p + 1 \in DOMAIN wire /\ wire'[p] = wire[p + 1]
      BY <1>4
    <3>2. PICK m \in Nat : m = Cardinality(Asked(wire[p + 1].mask))
      BY AskedCount
    <3>3. m = Cardinality(Asked(wire[p].mask))'
      BY <1>1, <3>1, <3>2 DEF Asked
    <3>4. IsMask(p)' => Follows(p + 1, m) /\ wire[p + 1].bits >= Tiles(size)
      BY <1>2, <3>1, <3>2 DEF Framed, IsMask
    <3>5. IsMask(p)' => Follows(p, m)'
      BY <1>7, <3>1, <3>4
    <3>6. IsTile(p)' => wire[p + 1].at \in Places(size)
      BY <1>2, <3>1 DEF Framed, IsTile
    <3> QED BY <3>1, <3>3, <3>4, <3>5, <3>6 DEF Follows
  <2> QED BY <1>1, <1>6, <2>1, <2>2 DEF Framed, Follows
<1>9. Sized'
  <2>1. CASE img = size
    BY <1>1, <2>1 DEF Sized
  <2>2. CASE /\ img = <<0, 0>> /\ due = 0 /\ wire # <<>> /\ ~first
             /\ IsMask(1) /\ Asked(wire[1].mask) = 0 .. Tiles(size) - 1
             /\ wire[1 + Tiles(size)].at = Corner(size)
    <3>1. d = t
      BY <1>3, <1>6, <2>2, AskedCount
    <3>2. Follows(1, t)
      <4>1. Follows(1, Cardinality(Asked(wire[1].mask)))
        BY <1>2, <1>4 DEF Framed
      <4> QED BY <1>6, <3>1, <4>1
    <3>3. t \in 1 .. Len(wire) - 1
      BY <1>3, <1>4, <3>2 DEF Follows
    <3>4. wire'[t].at = Corner(size)
      BY <1>3, <1>4, <2>2, <3>3
    <3>5. img[1] <= size[1] /\ img[2] <= size[2]
      BY <2>2, ScreenSize
    <3>6. d > 0 /\ wire'[d].at = Corner(size)
      BY <1>3, <3>1, <3>4
    <3>7. due' > 0 /\ wire'[due'].at = Corner(size)
      BY <1>6, <3>6
    <3> QED BY <1>1, <2>2, <3>5, <3>7 DEF Sized
  <2>3. img = size \/ (/\ img = <<0, 0>> /\ due = 0 /\ wire # <<>> /\ ~first
                      /\ IsMask(1) /\ Asked(wire[1].mask) = 0 .. Tiles(size) - 1
                      /\ wire[1 + Tiles(size)].at = Corner(size))
    <3>1. ~(due > 0)
      BY <1>1
    <3> QED BY <1>1, <1>2, <3>1 DEF Sized
  <2> QED BY <2>1, <2>2, <2>3
<1> QED BY <1>2, <1>8, <1>9

\* The client takes a tile for what it is; the last one makes its bitmap as large
\* as the screen.
LEMMA SteppedReceiveTile ==
  ASSUME TypeOK, SteppedInv, ReceiveTile
  PROVE  SteppedInv'
<1>1. /\ UNCHANGED <<size, resized, confused, first>>
      /\ due > 0 /\ due' = due - 1 /\ wire # <<>> /\ wire' = Tail(wire)
  BY DEF ReceiveTile, source, sender
<1> SUFFICES ASSUME Agreed PROVE Framed' /\ Sized' /\ ~confused
  BY <1>1 DEF SteppedInv, Agreed
<1>2. ~confused /\ Framed /\ Sized
  BY DEF SteppedInv
<1>3. PICK d \in Nat : d = due' /\ due = d + 1
  BY <1>1 DEF TypeOK
<1>4. /\ Len(wire) \in Nat \ {0} /\ Head(wire) = wire[1] /\ IsTile(1)
      /\ DOMAIN wire' = 1 .. Len(wire) - 1 /\ DOMAIN wire = 1 .. Len(wire)
      /\ \A k \in 1 .. Len(wire) - 1 : wire'[k] = wire[k + 1]
      /\ wire[1] \in Messages
  BY Behind DEF ReceiveTile, TypeOK, IsTile
<1>5. PICK at \in Nat \X Nat, colour \in Colours : at = wire[1].at /\ colour = wire[1].colour
  BY <1>4 DEF Messages, IsTile
<1>6. img' = <<IF img[1] >= at[1] + 1 THEN img[1] ELSE at[1] + 1,
               IF img[2] >= at[2] + 1 THEN img[2] ELSE at[2] + 1>>
  BY <1>4, <1>5, PatchTyped DEF ReceiveTile
<1>7. at[1] < size[1] /\ at[2] < size[2]
  <2>1. at \in Places(size)
    BY <1>2, <1>4, <1>5 DEF Framed
  <2> QED BY <2>1, ScreenSize DEF Places
<1>8. \A p, m \in Nat : Follows(p + 1, m) => Follows(p, m)'
  BY <1>1, FollowsUp
<1>9. Framed'
  <2>1. Follows(0, d)'
    <3>1. Follows(0, d + 1)
      BY <1>2, <1>3 DEF Framed
    <3>2. Follows(0 + 1, d)
      BY <3>1, FollowsRest
    <3> QED BY <1>8, <3>2
  <2>2. ASSUME NEW p \in DOMAIN wire'
        PROVE  /\ IsMask(p)' => /\ Follows(p, Cardinality(Asked(wire[p].mask)))'
                                /\ wire'[p].bits >= Tiles(size)
               /\ IsTile(p)' => wire'[p].at \in Places(size)
    <3>1. p \in Nat /\ p + 1 \in DOMAIN wire /\ wire'[p] = wire[p + 1]
      BY <1>4
    <3>2. PICK m \in Nat : m = Cardinality(Asked(wire[p + 1].mask))
      BY AskedCount
    <3>3. m = Cardinality(Asked(wire[p].mask))'
      BY <1>1, <3>1, <3>2 DEF Asked
    <3>4. IsMask(p)' => Follows(p + 1, m) /\ wire[p + 1].bits >= Tiles(size)
      BY <1>2, <3>1, <3>2 DEF Framed, IsMask
    <3>5. IsMask(p)' => Follows(p, m)'
      BY <1>8, <3>1, <3>4
    <3>6. IsTile(p)' => wire[p + 1].at \in Places(size)
      BY <1>2, <3>1 DEF Framed, IsTile
    <3> QED BY <3>1, <3>3, <3>4, <3>5, <3>6 DEF Follows
  <2> QED BY <1>1, <1>3, <2>1, <2>2 DEF Framed, Follows
<1>10. Sized'
  <2>1. PICK i1 \in Nat, i2 \in Nat : img = <<i1, i2>>
    BY DEF TypeOK
  <2>2. PICK w \in Nat \ {0}, h \in Nat \ {0} : size = <<w, h>>
    BY ScreenSize
  <2>3. CASE img = size
    <3>1. img' = size
      BY <1>5, <1>6, <1>7, <2>2, <2>3
    <3> QED BY <1>1, <3>1 DEF Sized
  <2>4. CASE /\ img[1] <= size[1] /\ img[2] <= size[2] /\ ~first
             /\ wire[due].at = Corner(size)
    <3>1. CASE d = 0
      <4>1. at = <<w - 1, h - 1>>
        BY <1>3, <1>5, <2>2, <2>4, <3>1 DEF Corner
      <4>2. img' = size
        BY <1>6, <2>1, <2>2, <2>4, <4>1
      <4> QED BY <1>1, <4>2 DEF Sized
    <3>2. CASE d > 0
      <4>1. d + 1 <= Len(wire)
        BY <1>2, <1>3 DEF Framed, Follows
      <4>2. wire'[d] = wire[due]
        <5>1. d \in 1 .. Len(wire) - 1
          BY <1>3, <1>4, <3>2, <4>1
        <5> QED BY <1>3, <1>4, <5>1
      <4>3. img'[1] <= size[1] /\ img'[2] <= size[2]
        BY <1>5, <1>6, <1>7, <2>1, <2>2, <2>4
      <4> QED BY <1>1, <1>3, <2>4, <3>2, <4>2, <4>3 DEF Sized
    <3> QED BY <1>3, <3>1, <3>2
  <2>5. ~(due = 0)
    BY <1>1
  <2> QED BY <1>2, <2>3, <2>4, <2>5 DEF Sized
<1> QED BY <1>2, <1>9, <1>10

LEMMA SteppedStep == TypeOK /\ SteppedInv /\ [Next]_vars => SteppedInv'
<1> SUFFICES ASSUME TypeOK, SteppedInv, [Next]_vars PROVE SteppedInv'
  OBVIOUS
<1>1. ASSUME ScreenChanges \/ OtherCaptures \/ StreamEnds \/ ReceiveEnd \/ UNCHANGED vars
      PROVE  SteppedInv'
  <2>1. UNCHANGED <<size, resized, first, wire, img, due, confused>>
    BY <1>1 DEF ScreenChanges, OtherCaptures, StreamEnds, ReceiveEnd, vars, source, sender,
       receiver
  <2> QED BY <2>1 DEF SteppedInv, Agreed, Framed, Sized, Follows, IsTile, IsMask, Asked
<1>2. CASE ScreenResizes
  BY <1>2 DEF ScreenResizes, SteppedInv, Agreed
<1>3. CASE Confuse
  <2> SUFFICES ASSUME Agreed PROVE FALSE
    BY <1>3 DEF Confuse, SteppedInv, Agreed, source
  <2>1. Framed /\ due \in Nat
    BY DEF SteppedInv, TypeOK
  <2>2. Len(wire) \in Nat \ {0} /\ Head(wire) = wire[1]
    BY <1>3, Behind DEF Confuse, TypeOK
  <2>3. CASE due = 0
    BY <1>3, <2>1, <2>2, <2>3 DEF Framed, Follows, Confuse, IsMask
  <2>4. CASE due > 0
    <3>1. 1 \in 0 + 1 .. 0 + due
      BY <2>1, <2>4
    <3> QED BY <1>3, <2>1, <2>2, <2>4, <3>1 DEF Framed, Follows, Confuse, IsTile
  <2> QED BY <2>1, <2>3, <2>4
<1> QED BY <1>1, <1>2, <1>3, SteppedCapture, SteppedReceiveMask, SteppedReceiveTile
    DEF Next, Receive

\* Server and client agree on where a frame ends as long as the server's screen
\* keeps a size with as many tiles as the client's own screen.
THEOREM InStepHolds == Spec => []InStep
<1>1. Spec => []SteppedInv
  BY TypesHold, SteppedInit, SteppedStep, PTL DEF Spec
<1>2. SteppedInv => InStep
  BY DEF SteppedInv, InStep, Agreed
<1> QED BY <1>1, <1>2, PTL
=============================================================================
