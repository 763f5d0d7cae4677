------------------------------- MODULE DiskIo -------------------------------
(***************************************************************************)
(* The SCSI commands of one virtual disk: OsrUserHandleSrb and what it     *)
(* calls, run by several processors at once without a lock.                *)
(*                                                                         *)
(* Lengths are in logical blocks: DiskSize is a multiple of one, and READ  *)
(* and WRITE multiply the block numbers and counts of their CDB by         *)
(* LOGICAL_BLOCK_SIZE before they use them, 64 and 32 bits wide, which 32  *)
(* and 16 bits times the size of a block do not overflow.  A block is      *)
(* copied in one step.                                                     *)
(*                                                                         *)
(* Operators marked FAULTY are variants with one plausible mistake; no     *)
(* behaviour uses them.                                                    *)
(***************************************************************************)
EXTENDS Integers

CONSTANTS
  Processors,     \* that execute SRBs of this disk
  DiskSizes,      \* values of PConnectInfo->DiskSizeMB
  BlocksPerMB,    \* 1024 * 1024 bytes: 2048 blocks of 512
  BlocksPerUlong, \* blocks in 2^32 bytes, where DiskSize wraps
  UlongRange,     \* 2^32
  CapacityStep,   \* what the mask 0xFFFFFF00 rounds a block number to: 256
  InquirySize,    \* INQUIRYDATABUFFERSIZE
  Starts,         \* LogicalBlock of a CDB
  Counts,         \* TransferBlocks of a CDB
  Rooms,          \* DataTransferLength of an SRB
  ShortBuffers,   \* is it ever less than READ or WRITE asks for
  Tags,           \* the data of a WRITE: its i-th block is <<tag, i>>
  None            \* no data, no answer

ASSUME DiskIoAssumption ==
  /\ DiskSizes \subseteq Nat
  /\ {BlocksPerMB, BlocksPerUlong, UlongRange, CapacityStep} \subseteq Nat \ {0}
  /\ BlocksPerUlong <= UlongRange
  /\ InquirySize \in Nat
  /\ Starts \subseteq Nat /\ Counts \subseteq Nat /\ Rooms \subseteq Nat
  /\ ShortBuffers \in BOOLEAN
  /\ None \notin Nat

VARIABLES
  asked,      \* DiskSizeMB of the disk
  disk,       \* the blocks at DiskBaseAddress
  state,      \* what a processor is doing
  cdb,        \* the request it does it for
  length,     \* readLength or writeLength, after it was cut
  next,       \* blocks copied so far
  buffer,     \* what a READ has put into the caller's buffer
  status,     \* PSrb->SrbStatus
  moved,      \* PSrb->DataTransferLength at completion
  told        \* the last block READ_CAPACITY has reported

vars == <<asked, disk, state, cdb, length, next, buffer, status, moved, told>>

\* pEntry->DiskSize, a ULONG.
SizeOf(mb) == (mb * BlocksPerMB) % BlocksPerUlong

Size == SizeOf(asked)

\* FAULTY: a number of blocks instead of the last one.
BlocksOf(size) ==
  LET last == size % UlongRange IN last - (last % CapacityStep)

\* OsrUserGetDiskCapacity.
LastBlockOf(size) ==
  LET last == (size - 1) % UlongRange IN last - (last % CapacityStep)

Blank == <<None, 0>>

Contents == {Blank} \cup (Tags \X Nat)

Requests == [kind : {"read", "write", "other"}, first : Nat, count : Nat,
             room : Nat, tag : Tags \cup {None}]

NoRequest ==
  [kind |-> "other", first |-> 0, count |-> 0, room |-> 0, tag |-> None]

Other(room) == [NoRequest EXCEPT !.room = room]

\* The READ or WRITE requests a processor may be given.
Transfers(kind) ==
  {r \in [kind : {kind}, first : Starts, count : Counts, room : Rooms,
          tag : IF kind = "write" THEN Tags ELSE {None}] :
     ShortBuffers \/ r.room >= r.count}

Nothing == [i \in {} |-> Blank]

States == {"idle", "copyOut", "copyIn", "done"}

Statuses ==
  {"pending", "success", "error", "autosense", "aborted", "timeout", "badLength"}

Copying(p) == state[p] \in {"copyOut", "copyIn"}

\* The buffer of a READ holds the blocks copied so far, that of others nothing.
TypeOK ==
  /\ asked \in DiskSizes
  /\ disk \in [0 .. Size - 1 -> Contents]
  /\ state \in [Processors -> States]
  /\ cdb \in [Processors -> Requests]
  /\ length \in [Processors -> Nat]
  /\ next \in [Processors -> Nat]
  /\ \A p \in Processors :
       /\ next[p] <= length[p]
       /\ state[p] = "copyOut" => cdb[p].kind = "read"
       /\ state[p] = "copyIn" => cdb[p].kind = "write"
       /\ LET n == IF cdb[p].kind = "read" THEN next[p] ELSE 0
          IN buffer[p] \in [0 .. n - 1 -> Contents]
  /\ status \in [Processors -> Statuses]
  /\ moved \in [Processors -> Nat]
  /\ told \in Nat \cup {None}

\* CreateConnection has made a disk of zeros.
Init ==
  /\ asked \in DiskSizes
  /\ disk = [b \in 0 .. Size - 1 |-> Blank]
  /\ state = [p \in Processors |-> "idle"]
  /\ cdb = [p \in Processors |-> NoRequest]
  /\ length = [p \in Processors |-> 0]
  /\ next = [p \in Processors |-> 0]
  /\ buffer = [p \in Processors |-> Nothing]
  /\ status = [p \in Processors |-> "pending"]
  /\ moved = [p \in Processors |-> 0]
  /\ told = None

-----------------------------------------------------------------------------
(* READ and WRITE.                                                         *)

Accept(p, r) ==
  /\ state[p] = "idle"
  /\ cdb' = [cdb EXCEPT ![p] = r]

\* The SRB goes back with this SrbStatus and DataTransferLength n.
Complete(p, srbStatus, n) ==
  /\ state' = [state EXCEPT ![p] = "done"]
  /\ status' = [status EXCEPT ![p] = srbStatus]
  /\ moved' = [moved EXCEPT ![p] = n]

\* FAULTY: one block too many at the end.
CutLate(r) ==
  IF r.first + r.count > Size + 1 THEN Size - r.first ELSE r.count

\* What is left of a transfer that would go off the end of the disk.
Cut(r) == IF r.first + r.count > Size THEN Size - r.first ELSE r.count

\* FAULTY: a transfer may start anywhere.
StartCopyAnywhere(p, r, copy) ==
  /\ state' = [state EXCEPT ![p] = copy]
  /\ length' = [length EXCEPT ![p] = Cut(r)]
  /\ UNCHANGED <<status, moved>>

StartCopy(p, r, copy) ==
  /\ r.first <= Size
  /\ state' = [state EXCEPT ![p] = copy]
  /\ length' = [length EXCEPT ![p] = Cut(r)]
  /\ UNCHANGED <<status, moved>>

\* Common to READ and WRITE.  The transfer is refused when the caller's buffer
\* is longer than it or StorPort has no MDL for it (ABORTED), the MDL cannot be
\* mapped (TIMEOUT), or the first block lies behind the end (BAD_LENGTH).
BeginTransfer(p, r, copy) ==
  /\ Accept(p, r)
  /\ \/ Complete(p, "aborted", r.room) /\ UNCHANGED length
     \/ /\ r.count >= r.room
        /\ \/ Complete(p, "timeout", r.room) /\ UNCHANGED length
           \/ r.first > Size /\ Complete(p, "badLength", r.room) /\ UNCHANGED length
           \/ StartCopy(p, r, copy)
  /\ UNCHANGED <<asked, disk, next, buffer, told>>

Read(p) == \E r \in Transfers("read") : BeginTransfer(p, r, "copyOut")

Write(p) == \E r \in Transfers("write") : BeginTransfer(p, r, "copyIn")

\* RtlCopyMemory of READ copies the next block.
CopyOut(p) ==
  /\ state[p] = "copyOut"
  /\ next[p] < length[p]
  /\ next' = [next EXCEPT ![p] = @ + 1]
  /\ buffer' = [buffer EXCEPT ![p] =
                  [i \in 0 .. next[p] |->
                     IF i = next[p] THEN disk[cdb[p].first + i] ELSE @[i]]]
  /\ UNCHANGED <<asked, disk, state, cdb, length, status, moved, told>>

\* FAULTY: the offset is forgotten.
CopyInAtZero(p) ==
  /\ state[p] = "copyIn"
  /\ next[p] < length[p]
  /\ next' = [next EXCEPT ![p] = @ + 1]
  /\ disk' = [disk EXCEPT ![next[p]] = <<cdb[p].tag, next[p]>>]
  /\ UNCHANGED <<asked, state, cdb, length, buffer, status, moved, told>>

\* RtlCopyMemory of WRITE copies the next block.  Behind the end of a short
\* buffer it finds other memory.
CopyIn(p) ==
  /\ state[p] = "copyIn"
  /\ next[p] < length[p]
  /\ next' = [next EXCEPT ![p] = @ + 1]
  /\ \E content \in {<<cdb[p].tag, next[p]>>, Blank} :
       /\ content = Blank => next[p] >= cdb[p].room
       /\ disk' = [disk EXCEPT ![cdb[p].first + next[p]] = content]
  /\ UNCHANGED <<asked, state, cdb, length, buffer, status, moved, told>>

\* All is copied: SRB_STATUS_SUCCESS, DataTransferLength is what was copied.
CopyEnds(p) ==
  /\ Copying(p)
  /\ next[p] = length[p]
  /\ Complete(p, "success", length[p])
  /\ UNCHANGED <<asked, disk, cdb, length, next, buffer, told>>

\* The copy raises an exception: the handler returns the NTSTATUS, which
\* OsrVmExecuteScsi drops, and leaves SrbStatus as StorPort sent it.
CopyFaults(p) ==
  /\ Copying(p)
  /\ Complete(p, "pending", cdb[p].room)
  /\ UNCHANGED <<asked, disk, cdb, length, next, buffer, told>>

-----------------------------------------------------------------------------
(* The other commands touch no block of the disk.                          *)

Serve(p, room) ==
  /\ Accept(p, Other(room))
  /\ UNCHANGED <<asked, disk, length, next, buffer>>

\* TEST_UNIT_READY, FORMAT_UNIT and VERIFY.
AlwaysReady(p) ==
  \E room \in Rooms :
    Serve(p, room) /\ Complete(p, "success", room) /\ UNCHANGED told

\* Nothing is moved; there is sense data if the SRB has a buffer for it.
ProcessScsiCommandError(p) ==
  \E srbStatus \in {"autosense", "error"} : Complete(p, srbStatus, 0)

\* What a disk does not do.
Refuse(p) ==
  \E room \in Rooms :
    Serve(p, room) /\ ProcessScsiCommandError(p) /\ UNCHANGED told

\* INQUIRY: no buffer or a short one, a request for a page that there is not,
\* or the inquiry data.
Inquiry(p) ==
  \E room \in Rooms :
    /\ Serve(p, room)
    /\ \/ Complete(p, "error", room)
       \/ /\ room >= InquirySize
          /\ ProcessScsiCommandError(p) \/ Complete(p, "success", InquirySize)
    /\ UNCHANGED told

\* MODE_SENSE, which fails without a buffer or by an exception.
ModeSense(p) ==
  \E room \in Rooms, srbStatus \in {"success", "error"} :
    Serve(p, room) /\ Complete(p, srbStatus, room) /\ UNCHANGED told

\* READ_CAPACITY.
ReadCapacity(p) ==
  \E room \in Rooms :
    /\ Serve(p, room)
    /\ \/ Complete(p, "success", room) /\ told' = LastBlockOf(Size)
       \/ Complete(p, "error", room) /\ UNCHANGED told

\* OsrVmExecuteScsi gives the SRB back to StorPort.
Return(p) ==
  /\ state[p] = "done"
  /\ state' = [state EXCEPT ![p] = "idle"]
  /\ cdb' = [cdb EXCEPT ![p] = NoRequest]
  /\ length' = [length EXCEPT ![p] = 0]
  /\ next' = [next EXCEPT ![p] = 0]
  /\ buffer' = [buffer EXCEPT ![p] = Nothing]
  /\ status' = [status EXCEPT ![p] = "pending"]
  /\ moved' = [moved EXCEPT ![p] = 0]
  /\ UNCHANGED <<asked, disk, told>>

Next ==
  \E p \in Processors :
    \/ Read(p) \/ Write(p)
    \/ CopyOut(p) \/ CopyIn(p) \/ CopyEnds(p) \/ CopyFaults(p)
    \/ AlwaysReady(p) \/ Refuse(p) \/ Inquiry(p) \/ ModeSense(p)
    \/ ReadCapacity(p)
    \/ Return(p)

Spec == Init /\ [][Next]_vars

-----------------------------------------------------------------------------
(* Properties.                                                             *)

\* A copy never reaches behind the end of the disk, wherever the transfer
\* starts, however long it is and whatever the size was cut to
\* (OsrUserReadData: "Make sure that the read does not go off the end").
CopyOnDisk ==
  \A p \in Processors : Copying(p) => cdb[p].first + length[p] <= Size

\* What READ_CAPACITY has promised, READ and WRITE keep: a transfer that ends
\* at or before the block told is not found too long, and if it succeeds it
\* has moved all its blocks.  Sizes that wrap to nothing are left out:
\* there the capacity is that of 2^32 blocks and every WRITE of block 0 succeeds
\* without moving anything.
CapacityHonoured ==
  \A p \in Processors :
    /\ Size > 0 /\ told # None /\ state[p] = "done"
    /\ cdb[p].kind # "other"
    /\ cdb[p].first + cdb[p].count - 1 <= told
    => /\ status[p] # "badLength"
       /\ status[p] = "success" => moved[p] = cdb[p].count

-----------------------------------------------------------------------------
(* The disk implements the abstract store of blocks.                       *)

Job(p) ==
  CASE state[p] = "idle" \/ cdb[p].kind = "other" -> [kind |-> "none"]
    [] state[p] = "copyOut" -> [kind |-> "read"]
    [] state[p] = "copyIn" ->
         [kind |-> "write", start |-> cdb[p].first, tag |-> cdb[p].tag]
    [] OTHER -> [kind |-> IF status[p] = "success" THEN "done" ELSE "failed"]

Todo(p) ==
  IF Copying(p) THEN cdb[p].first + next[p] .. cdb[p].first + length[p] - 1
                ELSE {}

Got(p) ==
  IF Job(p).kind \in {"read", "done"}
  THEN [b \in {cdb[p].first + i : i \in DOMAIN buffer[p]} |->
          buffer[p][b - cdb[p].first]]
  ELSE Nothing

Abstract == INSTANCE BlockStore
  WITH Clients <- Processors, Sizes <- {SizeOf(mb) : mb \in DiskSizes},
       store <- disk, job <- [p \in Processors |-> Job(p)],
       todo <- [p \in Processors |-> Todo(p)],
       got <- [p \in Processors |-> Got(p)]

\* Overlapping READs and WRITEs transfer each block that the disk has at one
\* moment and once, tell success when all are transferred and only then, and
\* change nothing else.
ImplementsBlockStore == Abstract!Spec
=============================================================================
