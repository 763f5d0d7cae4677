---------------------------- MODULE DiskIo_proofs ---------------------------
(***************************************************************************)
(* Theorems about DiskIo, for every number of processors, every size of a  *)
(* disk and every request.                                                 *)
(***************************************************************************)
EXTENDS DiskIo, TLAPS

LEMMA Remainder ==
  ASSUME NEW a \in Int, NEW b \in Nat \ {0}
  PROVE  a % b \in 0 .. b - 1
BY SMT

\* The size of a disk is a ULONG's worth of blocks.
LEMMA SizeInRange ==
  ASSUME NEW mb \in Nat PROVE SizeOf(mb) \in 0 .. BlocksPerUlong - 1
<1>1. mb * BlocksPerMB \in Int
  BY DiskIoAssumption
<1>2. BlocksPerUlong \in Nat \ {0}
  BY DiskIoAssumption
<1> QED
  BY <1>1, <1>2, Remainder DEF SizeOf

\* READ_CAPACITY tells a block of the disk, if the disk has any.
LEMMA LastBlockOnDisk ==
  ASSUME NEW size \in 1 .. BlocksPerUlong - 1
  PROVE  LastBlockOf(size) \in 0 .. size - 1
<1> DEFINE last == (size - 1) % UlongRange
<1> USE DiskIoAssumption
<1>1. last = size - 1
  <2>1. size - 1 \in 0 .. UlongRange - 1
    OBVIOUS
  <2> QED
    BY <2>1, SMT
<1>2. last % CapacityStep \in 0 .. CapacityStep - 1
  <2>1. last \in Int
    BY <1>1
  <2>2. CapacityStep \in Nat \ {0}
    OBVIOUS
  <2> HIDE DEF last
  <2> QED
    BY <2>1, <2>2, Remainder
<1>3. last % CapacityStep <= last
  BY <1>1, SMT
<1> QED
  BY <1>1, <1>2, <1>3 DEF LastBlockOf

LEMMA LastBlockNat ==
  ASSUME NEW size \in Nat PROVE LastBlockOf(size) \in Nat
<1> DEFINE last == (size - 1) % UlongRange
<1>1. last \in Nat
  <2>1. size - 1 \in Int /\ UlongRange \in Nat \ {0}
    BY DiskIoAssumption
  <2> QED
    BY <2>1, Remainder
<1>2. CapacityStep \in Nat \ {0}
  BY DiskIoAssumption
<1> HIDE DEF last
<1>3. last % CapacityStep \in Nat /\ last % CapacityStep <= last
  BY <1>1, <1>2, SMT
<1>4. last - (last % CapacityStep) \in Nat
  BY <1>1, <1>3
<1> QED
  BY <1>4 DEF LastBlockOf, last

(***************************************************************************)
(* Types.  A processor that is idle has copied nothing, and the indices of *)
(* a copy are blocks of the disk because a transfer stays on it.  The data *)
(* of a WRITE has a tag, and buffer is a function.                         *)
(***************************************************************************)
Fresh ==
  \A p \in Processors :
    state[p] = "idle" => cdb[p] = NoRequest /\ next[p] = 0 /\ length[p] = 0

Shapes ==
  /\ buffer = [p \in Processors |-> buffer[p]]
  /\ \A p \in Processors : cdb[p].kind = "write" => cdb[p].tag \in Tags

IInv == TypeOK /\ Fresh /\ Shapes /\ CopyOnDisk

LEMMA SizeNat == TypeOK => Size \in Nat
BY SizeInRange, DiskIoAssumption DEF TypeOK, Size

LEMMA InitIInv == Init => IInv
<1> SUFFICES ASSUME Init PROVE IInv
  OBVIOUS
<1> USE DEF Init, NoRequest
<1>1. TypeOK
  BY DEF TypeOK, Contents, Requests, States, Statuses, Nothing
<1> QED
  BY <1>1 DEF IInv, Fresh, Shapes, CopyOnDisk, Copying

\* What a request becomes when it has to be cut.
LEMMA CutOnDisk ==
  ASSUME TypeOK, NEW r \in Requests, r.first <= Size
  PROVE  Cut(r) \in Nat /\ r.first + Cut(r) <= Size
BY SizeNat DEF Cut, Requests

LEMMA TransfersAreRequests ==
  ASSUME NEW kind \in {"read", "write"}, NEW r \in Transfers(kind)
  PROVE  /\ r \in Requests /\ r.kind = kind
         /\ kind = "write" => r.tag \in Tags
BY DiskIoAssumption DEF Transfers, Requests

LEMMA BeginTransferIInv ==
  ASSUME IInv, NEW p \in Processors, NEW r \in Requests,
         NEW copy \in {"copyOut", "copyIn"},
         r.kind = IF copy = "copyOut" THEN "read" ELSE "write",
         r.kind = "write" => r.tag \in Tags,
         BeginTransfer(p, r, copy)
  PROVE  IInv'
<1> USE DEF IInv, BeginTransfer, Accept, Fresh
<1>1. r.room \in Nat /\ r.first \in Nat
  BY DEF Requests
<1>2. /\ next[p] = 0 /\ cdb[p].kind = "other"
      /\ next' = next /\ asked' = asked /\ Size' = Size
  BY DEF NoRequest, Size
<1>3. /\ state'[p] # "idle"
      /\ \A q \in Processors \ {p} :
           state'[q] = state[q] /\ cdb'[q] = cdb[q] /\ length'[q] = length[q]
  BY DEF StartCopy, Complete, TypeOK
<1>4. Fresh' /\ Shapes'
  BY <1>3, <1>2 DEF Shapes, TypeOK
<1>5. CASE StartCopy(p, r, copy)
  <2>1. Cut(r) \in Nat /\ r.first + Cut(r) <= Size
    BY <1>5, CutOnDisk DEF StartCopy
  <2>2. TypeOK'
    BY <1>1, <1>2, <1>5, <2>1 DEF StartCopy, TypeOK, States
  <2>3. CopyOnDisk'
    BY <1>2, <1>5, <2>1 DEF StartCopy, CopyOnDisk, Copying, TypeOK
  <2> QED
    BY <1>4, <2>2, <2>3
<1>6. CASE ~StartCopy(p, r, copy)
  <2>1. state' = [state EXCEPT ![p] = "done"] /\ length' = length
    BY <1>6 DEF Complete
  <2>2. status' \in [Processors -> Statuses] /\ moved' \in [Processors -> Nat]
    BY <1>6, <1>1 DEF Complete, TypeOK, Statuses
  <2>3. TypeOK'
    BY <1>2, <2>1, <2>2 DEF TypeOK, States
  <2>4. CopyOnDisk'
    BY <1>2, <2>1 DEF CopyOnDisk, Copying, TypeOK
  <2> QED
    BY <1>4, <2>3, <2>4
<1> QED
  BY <1>5, <1>6

\* What the commands have in common that are answered at once.
LEMMA ServeIInv ==
  ASSUME IInv, NEW p \in Processors, NEW room \in Rooms,
         NEW srbStatus \in Statuses, NEW n \in Nat,
         Serve(p, room), Complete(p, srbStatus, n), told' \in Nat \cup {None}
  PROVE  IInv'
<1> USE DEF IInv, Serve, Accept, Complete, Fresh, Size
<1>1. Other(room) \in Requests /\ Other(room).kind = "other"
  BY DiskIoAssumption DEF Other, NoRequest, Requests
<1>2. cdb[p].kind = "other"
  BY DEF NoRequest
<1>3. Fresh' /\ Shapes'
  BY <1>1 DEF Shapes, TypeOK
<1>4. TypeOK'
  BY <1>1, <1>2 DEF TypeOK, States
<1>5. CopyOnDisk'
  BY DEF CopyOnDisk, Copying, TypeOK
<1> QED
  BY <1>3, <1>4, <1>5

LEMMA NextIInv == IInv /\ [Next]_vars => IInv'
<1> SUFFICES ASSUME IInv, [Next]_vars PROVE IInv'
  OBVIOUS
<1> USE DEF IInv
<1>1. ASSUME NEW p \in Processors, Read(p) PROVE IInv'
  <2>1. PICK r \in Transfers("read") : BeginTransfer(p, r, "copyOut")
    BY <1>1 DEF Read
  <2> QED
    BY <2>1, TransfersAreRequests, BeginTransferIInv
<1>2. ASSUME NEW p \in Processors, Write(p) PROVE IInv'
  <2>1. PICK r \in Transfers("write") : BeginTransfer(p, r, "copyIn")
    BY <1>2 DEF Write
  <2> QED
    BY <2>1, TransfersAreRequests, BeginTransferIInv
<1>3. ASSUME NEW p \in Processors, CopyOut(p) PROVE IInv'
  <2> USE <1>3 DEF CopyOut
  <2>1. /\ next[p] \in Nat /\ length[p] \in Nat /\ cdb[p].first \in Nat
        /\ cdb[p].kind = "read"
    BY DEF TypeOK, Requests
  <2>2. cdb[p].first + next[p] \in 0 .. Size - 1
    BY <2>1, SizeNat DEF CopyOnDisk, Copying
  <2>3. disk[cdb[p].first + next[p]] \in Contents
    BY <2>2 DEF TypeOK
  <2>4. buffer[p] \in [0 .. next[p] - 1 -> Contents]
    BY <2>1 DEF TypeOK
  <2>5. buffer'[p] \in [0 .. next'[p] - 1 -> Contents]
    <3>1. buffer'[p] = [i \in 0 .. next[p] |->
             IF i = next[p] THEN disk[cdb[p].first + i] ELSE buffer[p][i]]
      BY DEF Shapes
    <3>2. \A i \in 0 .. next[p] : i # next[p] => buffer[p][i] \in Contents
      BY <2>1, <2>4
    <3>3. next'[p] - 1 = next[p]
      BY <2>1 DEF TypeOK
    <3> QED
      BY <2>3, <3>1, <3>2, <3>3
  <2>6. TypeOK'
    BY <2>1, <2>5 DEF TypeOK, Shapes, Size
  <2>7. Fresh' /\ Shapes' /\ CopyOnDisk'
    BY DEF Fresh, Shapes, CopyOnDisk, Copying, Size, TypeOK
  <2> QED
    BY <2>6, <2>7
<1>4. ASSUME NEW p \in Processors, CopyIn(p) PROVE IInv'
  <2> USE <1>4 DEF CopyIn
  <2>1. /\ next[p] \in Nat /\ length[p] \in Nat /\ cdb[p].first \in Nat
        /\ cdb[p].kind = "write"
    BY DEF TypeOK, Requests
  <2>2. disk' \in [0 .. Size - 1 -> Contents]
    <3>1. PICK content \in {<<cdb[p].tag, next[p]>>, Blank} :
            disk' = [disk EXCEPT ![cdb[p].first + next[p]] = content]
      OBVIOUS
    <3>2. content \in Contents
      BY <2>1 DEF Contents, Blank, Shapes
    <3> QED
      BY <3>1, <3>2 DEF TypeOK
  <2>3. TypeOK'
    BY <2>1, <2>2 DEF TypeOK, Size
  <2>4. Fresh' /\ Shapes' /\ CopyOnDisk'
    BY DEF Fresh, Shapes, CopyOnDisk, Copying, Size, TypeOK
  <2> QED
    BY <2>3, <2>4
<1>5. ASSUME NEW p \in Processors, CopyEnds(p) \/ CopyFaults(p) PROVE IInv'
  <2>1. PICK srbStatus \in Statuses, n \in Nat : Complete(p, srbStatus, n)
    BY <1>5 DEF CopyEnds, CopyFaults, Statuses, TypeOK, Requests
  <2>2. UNCHANGED <<asked, disk, cdb, length, next, buffer, told>>
    BY <1>5 DEF CopyEnds, CopyFaults
  <2> USE <2>1, <2>2 DEF Complete
  <2>3. TypeOK'
    BY DEF TypeOK, Size, States
  <2>4. Fresh' /\ Shapes' /\ CopyOnDisk'
    BY DEF Fresh, Shapes, CopyOnDisk, Copying, Size, TypeOK
  <2> QED
    BY <2>3, <2>4
<1>6. ASSUME NEW p \in Processors,
             AlwaysReady(p) \/ Refuse(p) \/ Inquiry(p) \/ ModeSense(p)
      PROVE  IInv'
  <2>1. PICK room \in Rooms, srbStatus \in Statuses, n \in Nat :
          Serve(p, room) /\ Complete(p, srbStatus, n) /\ told' = told
    BY <1>6, DiskIoAssumption
    DEF AlwaysReady, Refuse, Inquiry, ModeSense, ProcessScsiCommandError, Statuses
  <2> QED
    BY <2>1, ServeIInv DEF TypeOK
<1>7. ASSUME NEW p \in Processors, ReadCapacity(p) PROVE IInv'
  <2>1. PICK room \in Rooms, srbStatus \in Statuses :
          /\ Serve(p, room) /\ Complete(p, srbStatus, room)
          /\ told' = told \/ told' = LastBlockOf(Size)
    BY <1>7 DEF ReadCapacity, Statuses
  <2>2. LastBlockOf(Size) \in Nat
    BY SizeNat, LastBlockNat
  <2> QED
    BY <2>1, <2>2, ServeIInv, DiskIoAssumption DEF TypeOK
<1>8. ASSUME NEW p \in Processors, Return(p) PROVE IInv'
  <2> USE <1>8 DEF Return, NoRequest
  <2>1. NoRequest \in Requests
    BY DEF Requests
  <2>2. buffer'[p] = Nothing /\ Nothing \in [0 .. 0 - 1 -> Contents]
    BY DEF Shapes, Nothing
  <2>3. TypeOK'
    BY <2>1, <2>2 DEF TypeOK, Shapes, Size, States, Statuses
  <2>4. Fresh' /\ Shapes' /\ CopyOnDisk'
    BY DEF Fresh, Shapes, CopyOnDisk, Copying, Size, TypeOK
  <2> QED
    BY <2>3, <2>4
<1>9. CASE UNCHANGED vars
  BY <1>9 DEF vars, TypeOK, Fresh, Shapes, CopyOnDisk, Copying, Size
<1> QED
  BY <1>1, <1>2, <1>3, <1>4, <1>5, <1>6, <1>7, <1>8, <1>9 DEF Next

LEMMA AlwaysIInv == Spec => []IInv
<1> QED
  BY InitIInv, NextIInv, PTL DEF Spec

\* Every variable keeps its type; in particular no copy has an index that is
\* not a block of the disk.
THEOREM TypeCorrect == Spec => []TypeOK
<1>1. IInv => TypeOK
  BY DEF IInv
<1> QED
  BY <1>1, AlwaysIInv, PTL

\* No READ or WRITE reaches behind the end of the disk: the bounds tests of
\* OsrUserReadData and OsrUserWriteData are enough for every size, wrapped or
\* not, and every request.
THEOREM CopyStaysOnDisk == Spec => []CopyOnDisk
<1>1. IInv => CopyOnDisk
  BY DEF IInv
<1> QED
  BY <1>1, AlwaysIInv, PTL

(***************************************************************************)
(* What a transfer has moved.  The length of a copy is that of its request *)
(* as far as the disk goes, until it is reported; the capacity told is     *)
(* that of the disk, whose size never changes.                             *)
(***************************************************************************)
ToldInv == told \in {None, LastBlockOf(Size)}

CutAt(p) ==
  /\ Copying(p) => length[p] = Cut(cdb[p])
  /\ state[p] = "done" /\ cdb[p].kind # "other" =>
       /\ status[p] = "success" => moved[p] = Cut(cdb[p])
       /\ status[p] = "badLength" => cdb[p].first > Size

CutInv == \A p \in Processors : CutAt(p)

CapacityInv == IInv /\ ToldInv /\ CutInv

LEMMA InitCapacityInv == Init => CapacityInv
BY InitIInv DEF Init, CapacityInv, ToldInv, CutInv, CutAt, Copying

\* A step of p leaves the requests of the others as they were.
LEMMA OthersCut ==
  ASSUME CutInv, NEW p \in Processors, asked' = asked,
         \A q \in Processors \ {p} :
           /\ state'[q] = state[q] /\ cdb'[q] = cdb[q] /\ length'[q] = length[q]
           /\ status'[q] = status[q] /\ moved'[q] = moved[q],
         CutAt(p)'
  PROVE  CutInv'
BY DEF CutInv, CutAt, Copying, Cut, Size


LEMMA NextCapacityInv == CapacityInv /\ [Next]_vars => CapacityInv'
<1> SUFFICES ASSUME CapacityInv, [Next]_vars PROVE CapacityInv'
  OBVIOUS
<1> USE DEF CapacityInv
<1>1. IInv'
  BY NextIInv
<1>2. asked' = asked
  BY DEF Next, Read, Write, BeginTransfer, CopyOut, CopyIn, CopyEnds, CopyFaults,
         AlwaysReady, Refuse, Inquiry, ModeSense, ReadCapacity, Serve, Return, vars
<1>3. ToldInv'
  BY <1>2 DEF ToldInv, Size, Next, Read, Write, BeginTransfer, CopyOut, CopyIn,
              CopyEnds, CopyFaults, AlwaysReady, Refuse, Inquiry, ModeSense,
              ReadCapacity, Return, vars
<1>4. ASSUME NEW p \in Processors, NEW r \in Requests,
             NEW copy \in {"copyOut", "copyIn"}, BeginTransfer(p, r, copy)
      PROVE  CutInv'
  <2> USE <1>4 DEF BeginTransfer, Accept, StartCopy, Complete, IInv, TypeOK
  <2>1. cdb'[p] = r
    OBVIOUS
  <2>2. CutAt(p)'
    BY <1>2, <2>1 DEF CutAt, Copying, Cut, Size
  <2> QED
    BY <1>2, <2>2, OthersCut
<1>5. ASSUME NEW p \in Processors, CopyOut(p) \/ CopyIn(p) PROVE CutInv'
  BY <1>2, <1>5 DEF CopyOut, CopyIn, CutInv, CutAt, Copying, Cut, Size
<1>6. ASSUME NEW p \in Processors, CopyEnds(p) \/ CopyFaults(p) PROVE CutInv'
  <2>1. CutAt(p)'
    BY <1>2, <1>6 DEF CopyEnds, CopyFaults, Complete, CutInv, CutAt, Copying, Cut,
                      Size, IInv, TypeOK
  <2> QED
    BY <1>2, <1>6, <2>1, OthersCut DEF CopyEnds, CopyFaults, Complete, IInv, TypeOK
<1>7. ASSUME NEW p \in Processors, NEW room, NEW srbStatus, NEW n,
             Serve(p, room), Complete(p, srbStatus, n)
      PROVE  CutInv'
  <2> USE <1>7 DEF Serve, Accept, Complete, IInv, TypeOK
  <2>1. CutAt(p)'
    BY DEF CutAt, Copying, Other, NoRequest
  <2> QED
    BY <1>2, <2>1, OthersCut
<1>8. ASSUME NEW p \in Processors, Return(p) PROVE CutInv'
  <2> USE <1>8 DEF Return, IInv, TypeOK
  <2>1. CutAt(p)'
    BY DEF CutAt, Copying
  <2> QED
    BY <1>2, <2>1, OthersCut
<1>9. ASSUME UNCHANGED vars PROVE CutInv'
  BY <1>9 DEF vars, CutInv, CutAt, Copying, Cut, Size
<1>10. CutInv'
  <2>1. ASSUME NEW p \in Processors, Read(p) \/ Write(p) PROVE CutInv'
    BY <1>4, <2>1, TransfersAreRequests DEF Read, Write
  <2>2. ASSUME NEW p \in Processors,
               \/ AlwaysReady(p) \/ Refuse(p) \/ Inquiry(p) \/ ModeSense(p)
               \/ ReadCapacity(p)
        PROVE  CutInv'
    BY <1>7, <2>2 DEF AlwaysReady, Refuse, Inquiry, ModeSense, ReadCapacity,
                      ProcessScsiCommandError
  <2> QED
    BY <1>5, <1>6, <1>8, <1>9, <2>1, <2>2 DEF Next
<1> QED
  BY <1>1, <1>3, <1>10

\* READ and WRITE keep what READ_CAPACITY has told, for every size of a disk
\* that does not wrap to nothing.
THEOREM CapacityKept == Spec => []CapacityHonoured
<1>1. CapacityInv => CapacityHonoured
  <2> SUFFICES ASSUME CapacityInv, NEW p \in Processors,
                      Size > 0, told # None, state[p] = "done",
                      cdb[p].kind # "other",
                      cdb[p].first + cdb[p].count - 1 <= told
               PROVE  /\ status[p] # "badLength"
                      /\ status[p] = "success" => moved[p] = cdb[p].count
    BY DEF CapacityHonoured
  <2>1. Size \in 1 .. BlocksPerUlong - 1
    BY SizeInRange, DiskIoAssumption DEF CapacityInv, IInv, TypeOK, Size
  <2>2. told \in 0 .. Size - 1
    BY <2>1, LastBlockOnDisk DEF CapacityInv, ToldInv
  <2>3. cdb[p].first \in Nat /\ cdb[p].count \in Nat
    BY DEF CapacityInv, IInv, TypeOK, Requests
  <2>4. cdb[p].first + cdb[p].count <= Size
    BY <2>1, <2>2, <2>3, DiskIoAssumption
  <2>5. Cut(cdb[p]) = cdb[p].count /\ ~(cdb[p].first > Size)
    BY <2>1, <2>3, <2>4, DiskIoAssumption DEF Cut
  <2> QED
    BY <2>5 DEF CapacityInv, CutInv, CutAt
<1> QED
  BY <1>1, InitCapacityInv, NextCapacityInv, PTL DEF Spec

(***************************************************************************)
(* Callers whose buffers are long enough: no copy goes over their ends, so *)
(* that WRITE puts nothing on the disk but what it was given.              *)
(***************************************************************************)
RoomAt(p) == Copying(p) => length[p] <= cdb[p].room

RoomInv == IInv /\ \A p \in Processors : RoomAt(p)

LEMMA OthersRoom ==
  ASSUME RoomInv, NEW p \in Processors, IInv', RoomAt(p)',
         \A q \in Processors \ {p} :
           state'[q] = state[q] /\ cdb'[q] = cdb[q] /\ length'[q] = length[q]
  PROVE  RoomInv'
BY DEF RoomInv, RoomAt, Copying

LEMMA NextRoomInv == ~ShortBuffers /\ RoomInv /\ [Next]_vars => RoomInv'
<1> SUFFICES ASSUME ~ShortBuffers, RoomInv, [Next]_vars PROVE RoomInv'
  OBVIOUS
<1>1. IInv'
  BY NextIInv DEF RoomInv
<1> USE DEF RoomInv
<1>2. ASSUME NEW p \in Processors, NEW r \in Requests, r.room >= r.count,
             NEW copy \in {"copyOut", "copyIn"}, BeginTransfer(p, r, copy)
      PROVE  RoomInv'
  <2> USE <1>2 DEF BeginTransfer, Accept, StartCopy, Complete, IInv, TypeOK
  <2>1. cdb'[p] = r /\ r.room \in Nat /\ r.count \in Nat /\ r.first \in Nat
    BY DEF Requests
  <2>2. Cut(r) <= r.room
    BY <2>1, SizeNat DEF Cut
  <2>3. RoomAt(p)'
    BY <2>1, <2>2 DEF RoomAt, Copying
  <2> QED
    BY <1>1, <2>3, OthersRoom
<1>3. ASSUME NEW p \in Processors, Read(p) \/ Write(p) PROVE RoomInv'
  <2>1. \A kind \in {"read", "write"} :
          \A r \in Transfers(kind) : r \in Requests /\ r.room >= r.count
    BY TransfersAreRequests DEF Transfers
  <2> QED
    BY <1>2, <1>3, <2>1 DEF Read, Write
<1>4. ASSUME NEW p \in Processors, CopyOut(p) \/ CopyIn(p) PROVE RoomInv'
  BY <1>1, <1>4 DEF CopyOut, CopyIn, RoomAt, Copying
<1>5. ASSUME NEW p \in Processors, NEW srbStatus, NEW n,
             Complete(p, srbStatus, n),
             \A q \in Processors \ {p} : cdb'[q] = cdb[q], length' = length
      PROVE  RoomInv'
  <2> USE <1>5 DEF Complete, IInv, TypeOK
  <2>1. RoomAt(p)'
    BY DEF RoomAt, Copying
  <2> QED
    BY <1>1, <2>1, OthersRoom
<1>6. ASSUME NEW p \in Processors,
             \/ CopyEnds(p) \/ CopyFaults(p) \/ AlwaysReady(p) \/ Refuse(p)
             \/ Inquiry(p) \/ ModeSense(p) \/ ReadCapacity(p)
      PROVE  RoomInv'
  <2>1. \E srbStatus, n : Complete(p, srbStatus, n)
    BY <1>6 DEF CopyEnds, CopyFaults, AlwaysReady, Refuse, Inquiry, ModeSense,
                ReadCapacity, ProcessScsiCommandError
  <2>2. (\A q \in Processors \ {p} : cdb'[q] = cdb[q]) /\ length' = length
    BY <1>6 DEF CopyEnds, CopyFaults, AlwaysReady, Refuse, Inquiry, ModeSense,
                ReadCapacity, Serve, Accept, IInv, TypeOK
  <2> QED
    BY <1>5, <2>1, <2>2
<1>7. ASSUME NEW p \in Processors, Return(p) PROVE RoomInv'
  <2> USE <1>7 DEF Return, IInv, TypeOK
  <2>1. RoomAt(p)'
    BY DEF RoomAt, Copying
  <2> QED
    BY <1>1, <2>1, OthersRoom
<1>8. CASE UNCHANGED vars
  BY <1>1, <1>8 DEF vars, RoomAt, Copying
<1> QED
  BY <1>3, <1>4, <1>6, <1>7, <1>8 DEF Next

(***************************************************************************)
(* The refinement of BlockStore, step by step.  Copies of READ are Take,   *)
(* those of WRITE Put, and their end Succeed; an error is Fail, wherever   *)
(* it comes from; Return is Forget; the commands that are no transfers     *)
(* leave the store as it is.                                               *)
(***************************************************************************)

\* Nothing of another processor changes.
OnlyAt(p) ==
  \A q \in Processors \ {p} :
    /\ state'[q] = state[q] /\ cdb'[q] = cdb[q] /\ length'[q] = length[q]
    /\ next'[q] = next[q] /\ buffer'[q] = buffer[q] /\ status'[q] = status[q]

LEMMA MapFrame ==
  ASSUME NEW p \in Processors, OnlyAt(p)
  PROVE  /\ [q \in Processors |-> Job(q)']
              = [[q \in Processors |-> Job(q)] EXCEPT ![p] = Job(p)']
         /\ [q \in Processors |-> Todo(q)']
              = [[q \in Processors |-> Todo(q)] EXCEPT ![p] = Todo(p)']
         /\ [q \in Processors |-> Got(q)']
              = [[q \in Processors |-> Got(q)] EXCEPT ![p] = Got(p)']
<1>1. ASSUME NEW q \in Processors \ {p} PROVE Job(q)' = Job(q)
  BY DEF OnlyAt, Job
<1>2. ASSUME NEW q \in Processors \ {p} PROVE Todo(q)' = Todo(q)
  BY DEF OnlyAt, Todo, Copying
<1>3. ASSUME NEW q \in Processors \ {p} PROVE Got(q)' = Got(q)
  BY <1>1 DEF OnlyAt, Got
<1> QED
  BY <1>1, <1>2, <1>3

\* A step that changes nothing of the mapping.
LEMMA MapStutter ==
  ASSUME NEW p \in Processors, OnlyAt(p), disk' = disk,
         Job(p)' = Job(p), Todo(p)' = Todo(p), Got(p)' = Got(p)
  PROVE  UNCHANGED Abstract!vars
BY MapFrame DEF Abstract!vars

\* An error before or during a transfer.
LEMMA MapFail ==
  ASSUME NEW p \in Processors, OnlyAt(p), disk' = disk,
         Job(p).kind \in {"none", "read", "write"},
         Job(p)' = [kind |-> "failed"], Todo(p)' = {}, Got(p)' = Nothing
  PROVE  Abstract!Fail(p)
BY MapFrame DEF Abstract!Fail, Abstract!Failed, Abstract!Nothing, Nothing

\* What the steps need to know of the mapping before them.
LEMMA IdleMap ==
  ASSUME IInv, NEW p \in Processors, state[p] = "idle"
  PROVE  /\ Job(p) = [kind |-> "none"] /\ Todo(p) = {} /\ Got(p) = Nothing
         /\ next[p] = 0 /\ cdb[p] = NoRequest
         /\ buffer[p] = Nothing
<1>1. Job(p) = [kind |-> "none"] /\ Todo(p) = {}
  BY DEF Job, Todo, Copying
<1>2. next[p] = 0 /\ cdb[p] = NoRequest
  BY DEF IInv, Fresh
<1>3. buffer[p] = Nothing
  <2>1. buffer[p] \in [0 .. 0 - 1 -> Contents]
    BY <1>2 DEF IInv, TypeOK, NoRequest
  <2>2. 0 .. 0 - 1 = {}
    OBVIOUS
  <2> QED
    BY <2>1, <2>2 DEF Nothing
<1> QED
  BY <1>1, <1>2, <1>3 DEF Got

LEMMA BeginMaps ==
  ASSUME IInv, NEW p \in Processors, NEW r \in Requests,
         r.first \in Starts, r.count \in Counts,
         NEW copy \in {"copyOut", "copyIn"},
         r.kind = IF copy = "copyOut" THEN "read" ELSE "write",
         r.kind = "write" => r.tag \in Tags,
         BeginTransfer(p, r, copy)
  PROVE  [Abstract!Next]_(Abstract!vars)
<1> USE DEF BeginTransfer, Accept, StartCopy, Complete
<1>1. OnlyAt(p) /\ disk' = disk /\ cdb'[p] = r /\ next'[p] = 0 /\ buffer'[p] = Nothing
      /\ asked' = asked
  BY IdleMap DEF OnlyAt, IInv, TypeOK
<1>2. /\ Job(p) = [kind |-> "none"] /\ Todo(p) = {} /\ Got(p) = Nothing
  BY IdleMap
<1>3. Got(p)' = Nothing
  BY <1>1 DEF Got, Nothing
<1>4. CASE StartCopy(p, r, copy)
  <2>1. state'[p] = copy /\ length'[p] = Cut(r)
    BY <1>4 DEF IInv, TypeOK
  <2>2. Cut(r) \in Nat /\ r.first + Cut(r) <= Size /\ r.first \in Nat /\ r.count \in Nat
    BY <1>4, CutOnDisk DEF IInv, Requests
  <2>3. Todo(p)' = r.first .. r.first + Cut(r) - 1
    BY <1>1, <2>1, <2>2 DEF Todo, Copying
  <2>4. DOMAIN disk = 0 .. Size - 1 /\ Size \in Nat
    BY SizeNat DEF IInv, TypeOK
  <2>5. Todo(p)' = Abstract!OnDisk(r.first, r.count)
    BY <2>2, <2>3, <2>4 DEF Abstract!OnDisk, Cut
  <2>6. Job(p)' = IF copy = "copyOut" THEN Abstract!Reading
                                      ELSE Abstract!Writing(r.first, r.tag)
    BY <1>1, <2>1 DEF Job, Abstract!Reading, Abstract!Writing
  <2>7. Abstract!Begin(p, r.first, r.count)
    BY <1>1, <1>2, <1>3, <2>5, <2>6, MapFrame DEF Abstract!Begin, Abstract!NoJob
  <2> QED
    BY <2>7 DEF Abstract!Next
<1>5. CASE ~StartCopy(p, r, copy)
  <2>1. state'[p] = "done" /\ status'[p] # "success"
    BY <1>5 DEF IInv, TypeOK
  <2>2. Job(p)' = [kind |-> "failed"] /\ Todo(p)' = {}
    BY <1>1, <2>1 DEF Job, Todo, Copying
  <2>3. Abstract!Fail(p)
    BY <1>1, <1>2, <1>3, <2>2, MapFail
  <2> QED
    BY <2>3 DEF Abstract!Next
<1> QED
  BY <1>4, <1>5

LEMMA CopyOutMaps ==
  ASSUME IInv, NEW p \in Processors, CopyOut(p)
  PROVE  [Abstract!Next]_(Abstract!vars)
<1> DEFINE b == cdb[p].first + next[p]
<1> USE DEF CopyOut
<1>1. /\ OnlyAt(p) /\ disk' = disk /\ cdb'[p] = cdb[p] /\ state'[p] = "copyOut"
      /\ length'[p] = length[p] /\ next'[p] = next[p] + 1 /\ state[p] = "copyOut"
  BY DEF OnlyAt, IInv, TypeOK, Shapes
<1>2. /\ next[p] \in Nat /\ length[p] \in Nat /\ cdb[p].first \in Nat
      /\ cdb[p].kind = "read" /\ next[p] < length[p]
  BY DEF IInv, TypeOK, Requests
<1>3. Job(p) = Abstract!Reading /\ Job(p)' = Abstract!Reading
  BY <1>1, <1>2 DEF Job, Abstract!Reading
<1>4. b \in Todo(p) /\ Todo(p)' = Todo(p) \ {b}
  BY <1>1, <1>2 DEF Todo, Copying
<1>5. b \in DOMAIN disk
  BY <1>1, <1>2, SizeNat DEF IInv, TypeOK, CopyOnDisk, Copying
<1>6. /\ buffer[p] \in [0 .. next[p] - 1 -> Contents]
      /\ buffer'[p] = [i \in 0 .. next[p] |->
                         IF i = next[p] THEN disk[cdb[p].first + i] ELSE buffer[p][i]]
  BY <1>2 DEF IInv, TypeOK, Shapes
<1>7. Got(p)' = [d \in DOMAIN Got(p) \cup {b} |->
                   IF d = b THEN disk[b] ELSE Got(p)[d]]
  <2> DEFINE Blocks(n) == {cdb[p].first + i : i \in 0 .. n}
  <2>1. DOMAIN buffer[p] = 0 .. next[p] - 1 /\ DOMAIN buffer'[p] = 0 .. next[p]
    BY <1>6
  <2>2. Job(p).kind = "read" /\ Job(p)'.kind = "read"
    BY <1>3 DEF Abstract!Reading
  <2>3. Got(p) = [d \in Blocks(next[p] - 1) |-> buffer[p][d - cdb[p].first]]
    BY <2>1, <2>2 DEF Got
  <2>4. Got(p)' = [d \in Blocks(next[p]) |-> buffer'[p][d - cdb[p].first]]
    <3>1. Got(p)' = [d \in {cdb'[p].first + i : i \in DOMAIN buffer'[p]} |->
                       buffer'[p][d - cdb'[p].first]]
      BY <2>2 DEF Got
    <3>2. cdb'[p] = cdb[p]
      BY <1>1
    <3>3. {cdb[p].first + i : i \in DOMAIN buffer'[p]} = Blocks(next[p])
      BY <2>1
    <3> HIDE DEF Blocks
    <3> QED
      BY <3>1, <3>2, <3>3, ZenonT(60)
  <2>5. Blocks(next[p]) = Blocks(next[p] - 1) \cup {b}
    BY <1>2
  <2>6. ASSUME NEW d \in Blocks(next[p])
        PROVE  buffer'[p][d - cdb[p].first] = IF d = b THEN disk[b] ELSE Got(p)[d]
    <3>1. PICK i \in 0 .. next[p] : d = cdb[p].first + i
      OBVIOUS
    <3>2. d - cdb[p].first = i /\ (d = b <=> i = next[p])
      BY <1>2, <3>1
    <3>3. CASE i = next[p]
      BY <1>6, <3>2, <3>3
    <3>4. CASE i # next[p]
      <4>1. d \in Blocks(next[p] - 1)
        BY <1>2, <3>1, <3>4
      <4>2. Got(p)[d] = buffer[p][i]
        BY <2>3, <3>2, <4>1
      <4> QED
        BY <1>6, <3>2, <3>4, <4>2
    <3> QED
      BY <3>3, <3>4
  <2>7. DOMAIN Got(p) \cup {b} = Blocks(next[p])
    BY <2>3, <2>5
  <2> HIDE DEF Blocks, b
  <2>8. [d \in Blocks(next[p]) |-> buffer'[p][d - cdb[p].first]]
          = [d \in Blocks(next[p]) |-> IF d = b THEN disk[b] ELSE Got(p)[d]]
    BY <2>6
  <2> QED
    BY <2>4, <2>7, <2>8
<1> HIDE DEF b
<1>8. Abstract!Take(p, b)
  <2> DEFINE got == [q \in Processors |-> Got(q)]
             todo == [q \in Processors |-> Todo(q)]
  <2>1. got[p] = Got(p) /\ todo[p] = Todo(p)
    OBVIOUS
  <2>2. UNCHANGED <<disk, [q \in Processors |-> Job(q)]>>
    BY <1>1, <1>3, MapFrame
  <2>3. todo' = [todo EXCEPT ![p] = @ \ {b}]
    BY <1>1, <1>4, <2>1, MapFrame
  <2>4. got' = [got EXCEPT ![p] = Got(p)']
    BY <1>1, MapFrame
  <2>5. got' = [got EXCEPT ![p] = [d \in DOMAIN got[p] \cup {b} |->
                                     IF d = b THEN disk[b] ELSE got[p][d]]]
    BY <1>7, <2>1, <2>4
  <2>6. [q \in Processors |-> Job(q)][p] = Abstract!Reading /\ b \in todo[p]
    BY <1>3, <1>4, <2>1
  <2> QED
    BY <2>2, <2>3, <2>5, <2>6 DEF got, todo, Abstract!Take
<1> QED
  BY <1>5, <1>8 DEF Abstract!Next

LEMMA CopyInMaps ==
  ASSUME IInv, RoomInv, NEW p \in Processors, CopyIn(p)
  PROVE  [Abstract!Next]_(Abstract!vars)
<1> DEFINE b == cdb[p].first + next[p]
<1> USE DEF CopyIn
<1>1. /\ OnlyAt(p) /\ cdb'[p] = cdb[p] /\ state'[p] = "copyIn" /\ buffer' = buffer
      /\ length'[p] = length[p] /\ next'[p] = next[p] + 1 /\ state[p] = "copyIn"
  BY DEF OnlyAt, IInv, TypeOK
<1>2. /\ next[p] \in Nat /\ length[p] \in Nat /\ cdb[p].first \in Nat
      /\ cdb[p].kind = "write" /\ next[p] < length[p] /\ length[p] <= cdb[p].room
      /\ cdb[p].room \in Nat
  BY DEF IInv, TypeOK, Requests, RoomInv, RoomAt, Copying
<1>3. /\ Job(p) = Abstract!Writing(cdb[p].first, cdb[p].tag)
      /\ Job(p)' = Abstract!Writing(cdb[p].first, cdb[p].tag)
  BY <1>1, <1>2 DEF Job, Abstract!Writing
<1>4. b \in Todo(p) /\ Todo(p)' = Todo(p) \ {b}
  BY <1>1, <1>2 DEF Todo, Copying
<1>5. b \in DOMAIN disk
  BY <1>1, <1>2, SizeNat DEF IInv, TypeOK, CopyOnDisk, Copying
<1>6. Got(p)' = Got(p)
  BY <1>1, <1>3 DEF Got, Abstract!Writing
<1>7. disk' = [disk EXCEPT ![b] = <<cdb[p].tag, b - cdb[p].first>>]
  <2>1. PICK content \in {<<cdb[p].tag, next[p]>>, Blank} :
          /\ content = Blank => next[p] >= cdb[p].room
          /\ disk' = [disk EXCEPT ![b] = content]
    OBVIOUS
  <2>2. content = <<cdb[p].tag, next[p]>>
    BY <1>2, <2>1
  <2>3. b - cdb[p].first = next[p]
    BY <1>2
  <2> QED
    BY <2>1, <2>2, <2>3
<1> HIDE DEF b
<1>8. Abstract!Put(p, b)
  <2> DEFINE job == [q \in Processors |-> Job(q)]
  <2>1. /\ job[p].kind = "write" /\ job[p].tag = cdb[p].tag
        /\ job[p].start = cdb[p].first
    BY <1>3 DEF Abstract!Writing
  <2>2. disk' = [disk EXCEPT ![b] = <<job[p].tag, b - job[p].start>>]
    BY <1>7, <2>1
  <2>3. UNCHANGED <<job, [q \in Processors |-> Got(q)]>>
    BY <1>1, <1>3, <1>6, MapFrame
  <2>4. [q \in Processors |-> Todo(q)]'
          = [[q \in Processors |-> Todo(q)] EXCEPT ![p] = @ \ {b}]
    BY <1>1, <1>4, MapFrame
  <2>5. b \in [q \in Processors |-> Todo(q)][p]
    BY <1>4
  <2> QED
    BY <2>1, <2>2, <2>3, <2>4, <2>5 DEF Abstract!Put
<1> QED
  BY <1>5, <1>8 DEF Abstract!Next

LEMMA CopyEndMaps ==
  ASSUME IInv, NEW p \in Processors, CopyEnds(p) \/ CopyFaults(p)
  PROVE  [Abstract!Next]_(Abstract!vars)
<1> USE DEF CopyEnds, CopyFaults, Complete
<1>1. /\ OnlyAt(p) /\ disk' = disk /\ cdb'[p] = cdb[p] /\ state'[p] = "done"
      /\ buffer' = buffer
  BY DEF OnlyAt, IInv, TypeOK
<1>2. /\ next[p] \in Nat /\ length[p] \in Nat /\ cdb[p].first \in Nat
      /\ state[p] = "copyOut" => cdb[p].kind = "read"
      /\ state[p] = "copyIn" => cdb[p].kind = "write"
  BY DEF IInv, TypeOK, Requests
<1>3. cdb[p].kind # "other" /\ Job(p).kind \in {"read", "write"}
  BY <1>2 DEF Copying, Job
<1>4. Todo(p)' = {}
  BY <1>1 DEF Todo, Copying
<1>5. CASE CopyEnds(p)
  <2>1. status'[p] = "success" /\ next[p] = length[p]
    BY <1>5 DEF IInv, TypeOK
  <2>2. Job(p)' = Abstract!Done
    BY <1>1, <1>3, <2>1 DEF Job, Abstract!Done
  <2>3. Todo(p) = {}
    BY <1>2, <2>1 DEF Todo
  <2>4. Got(p)' = Got(p)
    <3>1. CASE Job(p).kind = "read"
      BY <1>1, <2>2, <3>1 DEF Got, Abstract!Done
    <3>2. CASE Job(p).kind = "write"
      <4>1. cdb[p].kind = "write"
        BY <1>2, <1>5, <3>2 DEF Job, Copying
      <4>2. buffer[p] \in [0 .. 0 - 1 -> Contents]
        BY <4>1 DEF IInv, TypeOK
      <4>3. DOMAIN buffer[p] = {}
        BY <4>2
      <4>4. Got(p)' = Nothing
        BY <1>1, <4>3 DEF Got, Nothing
      <4> QED
        BY <3>2, <4>4 DEF Got
    <3> QED
      BY <1>3, <3>1, <3>2
  <2>5. Abstract!Succeed(p)
    <3> USE MapFrame
    <3>1. UNCHANGED <<[q \in Processors |-> Todo(q)], [q \in Processors |-> Got(q)]>>
      <4>1. Todo(p)' = Todo(p) /\ OnlyAt(p)
        BY <1>1, <1>4, <2>3
      <4>2. [q \in Processors |-> Todo(q)'] = [q \in Processors |-> Todo(q)]
        BY <4>1
      <4>3. [q \in Processors |-> Got(q)'] = [q \in Processors |-> Got(q)]
        BY <2>4, <4>1
      <4> QED
        BY <4>2, <4>3
    <3>2. [q \in Processors |-> Job(q)]'
            = [[q \in Processors |-> Job(q)] EXCEPT ![p] = Abstract!Done]
      BY <1>1, <2>2, MapFrame
    <3>3. /\ [q \in Processors |-> Job(q)][p].kind \in {"read", "write"}
          /\ [q \in Processors |-> Todo(q)][p] = {}
      BY <1>3, <2>3
    <3> QED
      BY <1>1, <3>1, <3>2, <3>3 DEF Abstract!Succeed
  <2> QED
    BY <2>5 DEF Abstract!Next
<1>6. CASE CopyFaults(p)
  <2>1. status'[p] = "pending"
    BY <1>6 DEF IInv, TypeOK
  <2>2. Job(p)' = [kind |-> "failed"]
    BY <1>1, <1>3, <2>1 DEF Job
  <2>3. Got(p)' = Nothing
    BY <2>2 DEF Got
  <2>4. Abstract!Fail(p)
    BY <1>1, <1>3, <1>4, <2>2, <2>3, MapFail
  <2> QED
    BY <2>4 DEF Abstract!Next
<1> QED
  BY <1>5, <1>6

LEMMA ServeMaps ==
  ASSUME IInv, NEW p \in Processors, NEW room, NEW srbStatus, NEW n,
         Serve(p, room), Complete(p, srbStatus, n)
  PROVE  [Abstract!Next]_(Abstract!vars)
<1> USE DEF Serve, Accept, Complete
<1>1. OnlyAt(p) /\ disk' = disk /\ state'[p] = "done" /\ cdb'[p].kind = "other"
  BY DEF OnlyAt, IInv, TypeOK, Other, NoRequest
<1>2. Job(p)' = [kind |-> "none"] /\ Todo(p)' = {}
  BY <1>1 DEF Job, Todo, Copying
<1>3. Got(p)' = Nothing
  BY <1>2 DEF Got
<1> QED
  BY <1>1, <1>2, <1>3, IdleMap, MapStutter

LEMMA ReturnMaps ==
  ASSUME IInv, NEW p \in Processors, Return(p)
  PROVE  [Abstract!Next]_(Abstract!vars)
<1> USE DEF Return
<1>1. OnlyAt(p) /\ disk' = disk /\ state'[p] = "idle" /\ state[p] = "done"
  BY DEF OnlyAt, IInv, TypeOK, Shapes
<1>2. Job(p)' = [kind |-> "none"] /\ Todo(p)' = {} /\ Todo(p) = {}
  BY <1>1 DEF Job, Todo, Copying
<1>3. Got(p)' = Nothing
  BY <1>2 DEF Got
<1>4. CASE cdb[p].kind = "other"
  <2>1. Job(p) = [kind |-> "none"]
    BY <1>4 DEF Job
  <2>2. Got(p) = Nothing
    BY <2>1 DEF Got
  <2> QED
    BY <1>1, <1>2, <1>3, <2>1, <2>2, MapStutter
<1>5. CASE cdb[p].kind # "other"
  <2>1. Job(p).kind \in {"done", "failed"}
    BY <1>1, <1>5 DEF Job
  <2>2. Abstract!Forget(p)
    BY <1>1, <1>2, <1>3, <2>1, MapFrame
    DEF Abstract!Forget, Abstract!NoJob, Abstract!Nothing, Nothing
  <2> QED
    BY <2>2 DEF Abstract!Next
<1> QED
  BY <1>4, <1>5

LEMMA NextMaps ==
  IInv /\ RoomInv /\ [Next]_vars => [Abstract!Next]_(Abstract!vars)
<1> SUFFICES ASSUME IInv, RoomInv, [Next]_vars
             PROVE  [Abstract!Next]_(Abstract!vars)
  OBVIOUS
<1>1. ASSUME NEW p \in Processors, Read(p) \/ Write(p)
      PROVE  [Abstract!Next]_(Abstract!vars)
  <2>1. \A kind \in {"read", "write"} : \A r \in Transfers(kind) :
          r.first \in Starts /\ r.count \in Counts
    BY DEF Transfers
  <2> QED
    BY <1>1, <2>1, TransfersAreRequests, BeginMaps DEF Read, Write
<1>2. ASSUME NEW p \in Processors,
             \/ AlwaysReady(p) \/ Refuse(p) \/ Inquiry(p) \/ ModeSense(p)
             \/ ReadCapacity(p)
      PROVE  [Abstract!Next]_(Abstract!vars)
  BY <1>2, ServeMaps DEF AlwaysReady, Refuse, Inquiry, ModeSense, ReadCapacity,
                         ProcessScsiCommandError
<1>3. CASE UNCHANGED vars
  BY <1>3 DEF vars, Abstract!vars, Job, Todo, Got, Copying
<1> QED
  BY <1>1, <1>2, <1>3, CopyOutMaps, CopyInMaps, CopyEndMaps, ReturnMaps DEF Next

\* Processors that read and write the disk at once, without a lock, implement
\* the block store: each block is transferred at one moment and once, success
\* means that all of them were, and nothing else changes a block.  Callers are
\* those whose buffers are long enough.
THEOREM Refinement ==
  ASSUME ~ShortBuffers PROVE Spec => ImplementsBlockStore
<1>1. Init => Abstract!Init
  <2> SUFFICES ASSUME Init PROVE Abstract!Init
    OBVIOUS
  <2>1. \A p \in Processors :
          Job(p) = [kind |-> "none"] /\ Todo(p) = {} /\ Got(p) = Nothing
    BY InitIInv, IdleMap DEF Init
  <2> QED
    BY <2>1 DEF Init, Size, Abstract!Init, Abstract!NoJob, Abstract!Nothing,
                Nothing, Blank
<1>2. Init => RoomInv
  BY InitIInv DEF Init, RoomInv, RoomAt, Copying
<1>3. RoomInv /\ [Next]_vars => RoomInv'
  BY NextRoomInv
<1>4. RoomInv /\ [Next]_vars => [Abstract!Next]_(Abstract!vars)
  BY NextMaps DEF RoomInv
<1> QED
  BY <1>1, <1>2, <1>3, <1>4, PTL DEF Spec, ImplementsBlockStore, Abstract!Spec
=============================================================================
