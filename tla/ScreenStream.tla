---------------------------- MODULE ScreenStream ----------------------------
(***************************************************************************)
(* One screen stream: a ScreenStreamServerThread that sends the tiles of   *)
(* its screen that have changed, and the ScreenRecvThread that patches     *)
(* them into a picture.                                                    *)
(*                                                                         *)
(* A size is a pair of tiles across and down, and a tile has one colour.   *)
(* The stream is a sequence of two kinds of messages, the mask of a frame  *)
(* and a tile with its place.  The compression of both (ViteMap, QOI) is   *)
(* vendored code and taken to be lossless.  A frame is sent in one step:   *)
(* the receiver cannot tell, and the next one is captured only when there  *)
(* is room for it.                                                         *)
(*                                                                         *)
(* Operators marked FAULTY are variants with one plausible mistake; no     *)
(* behaviour uses them.                                                    *)
(***************************************************************************)
EXTENDS Integers, SequencesExt

CONSTANTS
  Sizes,       \* of the server's screen
  ClientSize,  \* of the client's own screen
  Colours,
  Blank,       \* what a new bitmap holds
  MaskUnit,    \* bits in a byte of the mask: 8
  FullEvery,   \* a full frame is forced every 60 frames
  MaxQueued,   \* bound: messages that may wait when a frame is captured
  MaxChanges,  \* bound: changes of the screen
  MaxOther     \* bound: frames that other streams capture

ASSUME ScreenStreamAssumption ==
  /\ Sizes \cup {ClientSize} \subseteq (Nat \ {0}) \X (Nat \ {0})
  /\ Blank \notin Colours
  /\ {MaskUnit, FullEvery} \subseteq Nat \ {0}
  /\ {MaxQueued, MaxChanges, MaxOther} \subseteq Nat

VARIABLES
  size,          \* of the server's screen
  screen,        \* what it shows
  changes,       \* history: how often it has changed
  resized,       \* history: has its size changed
  streaming,     \* does the server's thread run
  first,         \* its first
  prevSize,      \* the size of its prevBmp
  prev,          \* its prevBmp
  frameCounter,  \* static, modulo FullEvery
  other,         \* history: frames of other streams
  wire,          \* messages that were sent and not received
  img,           \* imgW and imgH of the client's bitmap, in tiles
  picture,       \* the client's bitmap
  due,           \* tiles of the present frame that the client still expects
  receiving,     \* does the client's thread run
  confused       \* has it taken a message for one of the other kind

source == <<size, screen, changes, resized>>
sender == <<streaming, first, prevSize, prev, frameCounter, other>>
receiver == <<img, picture, due, receiving, confused>>
vars == <<source, sender, wire, receiver>>

Places(s) == (0 .. s[1] - 1) \X (0 .. s[2] - 1)
Tiles(s) == s[1] * s[2]
At(i, s) == <<i % s[1], i \div s[1]>>

\* The mask has whole bytes.
MaskBits(s) == ((Tiles(s) + MaskUnit - 1) \div MaskUnit) * MaskUnit

Init ==
  /\ size \in Sizes /\ screen \in [Places(size) -> Colours]
  /\ changes = 0 /\ resized = FALSE
  /\ streaming = TRUE /\ first = TRUE /\ prevSize = <<0, 0>> /\ prev = <<>>
  /\ frameCounter \in 0 .. FullEvery - 1
  /\ other = 0 /\ wire = <<>>
  /\ img = <<0, 0>> /\ picture = <<>> /\ due = 0
  /\ receiving = TRUE /\ confused = FALSE

-----------------------------------------------------------------------------
(* The server.                                                             *)

ScreenChanges ==
  /\ changes < MaxChanges /\ changes' = changes + 1
  /\ \E t \in Places(size) : \E c \in Colours \ {screen[t]} :
       screen' = [screen EXCEPT ![t] = c]
  /\ UNCHANGED <<size, resized, sender, wire, receiver>>

ScreenResizes ==
  /\ changes < MaxChanges /\ changes' = changes + 1
  /\ size' \in Sizes \ {size} /\ screen' \in [Places(size') -> Colours]
  /\ resized' = TRUE
  /\ UNCHANGED <<sender, wire, receiver>>

NextFrame(n) == (n + 1) % FullEvery

Forced == first \/ NextFrame(frameCounter) = 0

\* Everything when forced or when the size has changed, else the tiles that
\* differ from prevBmp.
Full == Forced \/ prevSize # size
Dirty == {i \in 0 .. Tiles(size) - 1 :
            Full \/ prev[At(i, size)] # screen[At(i, size)]}
Mask == IF Full THEN 0 .. MaskBits(size) - 1 ELSE Dirty

MaskMessage(mask) == [kind |-> "mask", mask |-> mask, bits |-> MaskBits(size)]
TileMessage(i) ==
  [kind |-> "tile", at |-> At(i, size), colour |-> screen[At(i, size)]]

\* The sequences that list the numbers of S from left to right: there is one.
Ascending(S) ==
  {f \in [1 .. Cardinality(S) -> S] : \A i, j \in DOMAIN f : i < j => f[i] < f[j]}

Frame(mask, order) ==
  <<MaskMessage(mask)>> \o [k \in DOMAIN order |-> TileMessage(order[k])]

SendsFrame(mask, dirty) ==
  \E order \in Ascending(dirty) : wire' = wire \o Frame(mask, order)

Captures ==
  /\ streaming /\ Len(wire) <= MaxQueued
  /\ first' = FALSE
  /\ frameCounter' = NextFrame(frameCounter)
  /\ UNCHANGED <<source, streaming, other, receiver>>

\* FAULTY: the mask is filled but only tiles that differ are sent.
CaptureFillsMask ==
  /\ Captures
  /\ SendsFrame(Mask, {i \in Dirty : prevSize # size
                                   \/ prev[At(i, size)] # screen[At(i, size)]})
  /\ prevSize' = size /\ prev' = screen

\* FAULTY: prevBmp is kept unless the frame was full.
CaptureKeepsPrev ==
  /\ Captures
  /\ SendsFrame(Mask, Dirty)
  /\ prevSize' = size /\ prev' = IF Full THEN screen ELSE prev

\* FAULTY: only the first frame is forced to be full.
CaptureForcesFirst ==
  /\ Captures
  /\ LET dirty == {i \in Dirty : first \/ prevSize # size
                                  \/ prev[At(i, size)] # screen[At(i, size)]}
     IN SendsFrame(IF first THEN Mask ELSE dirty, dirty)
  /\ prevSize' = size /\ prev' = screen

\* One round of the loop.
Capture ==
  /\ Captures
  /\ SendsFrame(Mask, Dirty)
  /\ prevSize' = size /\ prev' = screen

\* The counter is shared by all streams.
OtherCaptures ==
  /\ other < MaxOther /\ other' = other + 1
  /\ frameCounter' = NextFrame(frameCounter)
  /\ UNCHANGED <<source, streaming, first, prevSize, prev, wire, receiver>>

\* g_screenStreamActive was cleared, by whomever.
StreamEnds ==
  /\ streaming /\ streaming' = FALSE
  /\ UNCHANGED <<source, first, prevSize, prev, frameCounter, other, wire, receiver>>

-----------------------------------------------------------------------------
(* The client.                                                             *)

\* The tiles it expects: of its picture, or of its own screen before it has one.
Expected == IF img = <<0, 0>> THEN Tiles(ClientSize) ELSE Tiles(img)

\* Bits behind the end of the mask are whatever is in memory there.
ReceiveMask ==
  /\ receiving /\ ~confused /\ due = 0 /\ wire # <<>>
  /\ Head(wire).kind = "mask"
  /\ \E stray \in SUBSET (Head(wire).bits .. Expected - 1) :
       due' = Cardinality((Head(wire).mask \cap 0 .. Expected - 1) \cup stray)
  /\ wire' = Tail(wire)
  /\ UNCHANGED <<source, sender, img, picture, receiving, confused>>

\* FAULTY: imgW and imgH are forgotten.
PatchKeepsSize(at, colour) ==
  LET need == <<Max({img[1], at[1] + 1}), Max({img[2], at[2] + 1})>> IN
  /\ img' = IF img = <<0, 0>> THEN need ELSE img
  /\ picture' = [t \in Places(need) |->
                   IF t = at THEN colour
                   ELSE IF need = img THEN picture[t] ELSE Blank]

\* A bitmap that is too small is replaced, and its tiles are lost.
Patch(at, colour) ==
  LET need == <<Max({img[1], at[1] + 1}), Max({img[2], at[2] + 1})>> IN
  /\ img' = need
  /\ picture' = [t \in Places(need) |->
                   IF t = at THEN colour
                   ELSE IF need = img THEN picture[t] ELSE Blank]

ReceiveTile ==
  /\ receiving /\ ~confused /\ due > 0 /\ wire # <<>>
  /\ Head(wire).kind = "tile"
  /\ Patch(Head(wire).at, Head(wire).colour)
  /\ due' = due - 1
  /\ wire' = Tail(wire)
  /\ UNCHANGED <<source, sender, receiving, confused>>

\* Client and server do not agree on where a frame ends.  What the client makes
\* of the rest of the stream is anybody's guess and not followed.
Confuse ==
  /\ receiving /\ ~confused /\ wire # <<>>
  /\ Head(wire).kind = IF due = 0 THEN "tile" ELSE "mask"
  /\ confused' = TRUE
  /\ UNCHANGED <<source, sender, wire, img, picture, due, receiving>>

\* recv returns 0; an expected tile does not come.
ReceiveEnd ==
  /\ receiving /\ ~confused /\ wire = <<>> /\ ~streaming
  /\ receiving' = FALSE
  /\ UNCHANGED <<source, sender, wire, img, picture, due, confused>>

Receive == ReceiveMask \/ ReceiveTile \/ Confuse \/ ReceiveEnd

-----------------------------------------------------------------------------
Next ==
  \/ ScreenChanges \/ ScreenResizes \/ Capture \/ OtherCaptures \/ StreamEnds
  \/ Receive

Spec == Init /\ [][Next]_vars

\* Both threads run.  The screen need not change and the stream need not end.
FairSpec == Spec /\ WF_vars(Capture) /\ WF_vars(Receive)

-----------------------------------------------------------------------------
(* Properties.                                                             *)

Messages ==
  [kind : {"mask"}, mask : SUBSET Nat, bits : Nat]
    \cup [kind : {"tile"}, at : Nat \X Nat, colour : Colours]

\* Every variable keeps its type; the bitmap has the size that imgW and imgH
\* tell, which the painting thread relies on.
TypeOK ==
  /\ size \in Sizes /\ screen \in [Places(size) -> Colours]
  /\ prevSize \in Sizes \cup {<<0, 0>>} /\ prev \in [Places(prevSize) -> Colours]
  /\ wire \in Seq(Messages)
  /\ img \in Nat \X Nat /\ picture \in [Places(img) -> Colours \cup {Blank}]
  /\ changes \in 0 .. MaxChanges /\ other \in 0 .. MaxOther
  /\ frameCounter \in 0 .. FullEvery - 1 /\ due \in Nat
  /\ {resized, streaming, first, receiving, confused} \subseteq BOOLEAN

\* Server and client agree on where a frame ends as long as the server's screen
\* keeps a size with as many tiles as the client's own screen.
InStep == Tiles(size) = Tiles(ClientSize) /\ ~resized => ~confused

\* The picture once all that is on the way has arrived.
Arriving(t) ==
  LET sent == {i \in DOMAIN wire : wire[i].kind = "tile" /\ wire[i].at = t} IN
  IF sent # {} THEN wire[Max(sent)].colour
  ELSE IF t \in Places(img) THEN picture[t] ELSE Blank

\* The client never shows an old tile for good: when everything that is on the
\* way has arrived, a tile is what the server believes it to be (prevBmp, with
\* which it finds out what has changed), or it is blank.
TilesTrue ==
  ~confused => \A t \in Places(prevSize) : Arriving(t) \in {prev[t], Blank}

Shown ==
  \A t \in Places(size) : t \in Places(img) /\ picture[t] = screen[t]

\* The picture becomes the screen when that does not change any more.  The tiles
\* lost in the first frame come back with the next full one only, which other
\* streams can delay but, when they stop, not prevent.
PictureCompletes == []<>(Shown \/ confused \/ ~streaming)
=============================================================================
