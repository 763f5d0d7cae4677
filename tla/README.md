# A TLA+ model of CopilotStorage

The repository holds two programs and a number of vendored or recorded files:

* the OSR **virtual StorPort miniport** (`osrstorpt*.cpp`), a Windows driver
  that makes RAM disks: one IOCTL creates a disk, another one removes it, and
  StorPort sends it SCSI requests in between;
* **Remote** (`main.cpp`), a remote desktop program with a server, a client and
  a screen stream.

Both are modelled and checked here. Every safety property that a run of the
models finds to hold is also proved for every value of the constants. Almost all of the 1.6 million lines of the repository are
neither: they are the headers and libraries of a vendored tool chain (`RosBE`),
of which nothing is modelled. The program's own code is about 10000 lines, some
of them older copies of others.

## Inventory

### Miniport

| part | state | operations | source |
|---|---|---|---|
| connection table | `ConnectionList`, `ConnectionCount`, `ConnectionMutex`, the list entries and their disk memory | CONNECT, DISCONNECT, GETACTIVELIST | `osrstorptuserintf.cpp`, `osrstorptuserutil.cpp` |
| SCSI ids | `ScsiBitMapHeader` | find and set a bit, clear a bit | `osrstorptuserutil.cpp` |
| device list | `DeviceList`; `Missing`, `ReportedMissing`, `OutstandingIoCount` of a device | create, set removable, find | `osrstorptusercallback.cpp`, `osrstorptdevice.cpp` |
| SRB dispatch | none of its own | `OsrVmExecuteScsi` | `osrstorptscsi.cpp` |
| SCSI commands | the bytes of the disks | `OsrUserHandleSrb`, `OsrUserReadData`, `OsrUserWriteData` | `osrstorptuserintf.cpp`, `osrstorptuserutil.cpp` |
| entry points | none | IOCTL and PnP queries | `osrstorptioctrl.cpp`, `osrstorptpnp.cpp` |
| not in the repository | LU extensions, the delete event | StorPort, the PnP manager, the `DeleteDevicesThread` of `osrstorpt.cpp` | used by the files above |

IOCTL threads share the connection table under `ConnectionMutex` and spin locks.
SRBs run at DISPATCH_LEVEL on any processor and share the device list with them.
A DISCONNECT only marks a device `Missing`. The next SRB that finds it there
reports it and sets the event of the `DeleteDevicesThread`, which takes it off
the device list and frees it through `OsrUserDeleteLocalInformation`, which also
frees the entry and the disk that CONNECT allocated. So four actors free or use
the same memory, with three different locks and one count between them. This is
the hard part of the program and the core of the model.

### Remote

| part | state | operations | source (`main.cpp`) |
|---|---|---|---|
| server listener | `ClientsInformation`, `nConnected`, `isOnline`, `sktListen` | start, terminate, accept | 437-515, 2144-2215, 2279-2320 |
| input receiver | a socket, `g_streamingFps`, `g_streamingQuality` | take a message, inject a record | 2323-2364 |
| client connection | `isConnected`, `sktServer`, `recvBuff`, `inputQueue` | connect, disconnect, change the mode, receive, inject | 540-605, 2092-2277, 2365-2415 |
| screen stream | `g_screenStreamActive`, `frameCounter`, the previous bitmap; the client's bitmap | capture, send, patch | 76-94, 612-830 |
| windows, menus, configuration | `config.txt`, buttons, menus | - | 1100-2140 |

Every part runs in threads of its own that nothing joins, shares plain variables
with the window thread, and ends because a socket it uses is closed by somebody
else. Correct means here: records are injected once and in order; every thread
ends with its connection and ends no other; a client is in a slot, has one
receiver and counts as long as it is connected; both ends of a stream agree where
a record or a frame ends; the picture becomes the screen.

The hazards of both programs are listed with their lines in `PROJECT.json`.

## Modules

| module | what it is |
|---|---|
| `ScsiIds` | the arithmetic between a bit of the id map and an address |
| `VirtualMiniport` | the miniport: IOCTL threads, SRB threads and the state they share |
| `DiskService` | the abstract specification: names, the life of a disk, requests in progress |
| `DiskIo` | the SCSI commands of one disk, its bytes included |
| `BlockStore` | the abstract specification of a disk's blocks |
| `RemoteClient` | a client's connection: window thread, receive and output threads, queue |
| `RemoteServer` | the server: window thread, listeners, slots, receivers, stream threads |
| `InputChannel` | the bytes from a client's windows to the server's `SendInput` |
| `ScreenStream` | the tiles from a server's screen to a client's bitmap |
| `MCVirtualMiniport`, `MCDiskIo`, `MCRemoteClient`, `MCRemoteServer`, `MCInputChannel`, `MCScreenStream` | constants, symmetry and constraints for TLC |
| `VirtualMiniport_proofs` | types, names, the count of outstanding I/O |
| `VirtualMiniport_memory_proofs` | the other safety invariants of `VirtualMiniport` |
| `VirtualMiniport_refinement_proofs` | `VirtualMiniport` implements `DiskService` |
| `DiskIo_proofs` | types, bounds, capacity and the refinement of `BlockStore` |
| `InputChannel_proofs` | types, framing and contiguity of the input stream |
| `RemoteClient_proofs` | types, the records on their way, buttons and the reasons for the end of a connection |
| `RemoteServer_proofs` | types, limit, slots, receivers and the reasons for the end of a client |
| `ScreenStream_proofs` | types, frames in step, no old tile for good |

`DiskService` and `BlockStore` are what the two halves of the driver promise:
`VirtualMiniport implements DiskService`, `DiskIo implements BlockStore`. The two
detailed modules meet in `OsrUserHandleSrb`: `HandleSrb` of the first is one step
that needs the disk's memory; `DiskIo` is what happens to that memory in the
meantime. It takes the memory to be there, and `NothingFreedInUse` is how far
that is so: what was there when the SRB was counted stays until it ends.

A disk of `DiskService` is reserved by a CONNECT, visible to requests before that
CONNECT completes, then connected, missing and deleted; a CONNECT that fails late
leaves an orphan without a name. A request finds a disk and begins on it later.
Only a request that has begun keeps its disk from being deleted, and the disk
it begins on may be deleted already: this is what the driver does, and the abstract
specification says so.

The modules of Remote meet at sockets. `RemoteServer` has the life of a socket and
of the receiver that uses it, `InputChannel` what goes through it and what that
receiver does with it. `ScreenStream` is one stream, `RemoteServer` has the flag
that all streams share; there `ScreenStream`'s `StreamEnds` is `StreamStops` or
`StreamLeft`, and its `OtherCaptures` a `Capture` of another stream.

### How `VirtualMiniport` corresponds to the code

Each successful allocation of a `CONNECTION_LIST_ENTRY` gets the next number.
The entry, its disk, inquiry data, `USER_INSTANCE_INFORMATION` and
`OSR_VM_DEVICE` share that number, and every pointer between them is left out:
`cur`, `dev`, `luDevice` are numbers, and `heap`, `handle`, `initialised`,
`published` say which allocations and which of the pointers exist. Both lists
grow at the tail only and under the mutex, so a list is the set of numbers on it
and its order is the order of the numbers (`FindOsrVmDevice` stops at the lowest).

A step is the code between two points at which another thread can see or change
what it uses. Under the mutex that is rarely every line: `AllocResources` takes
disk, uuid, inquiry data, id and local info together, because no other thread
touches them before the device is on its list. The windows that matter are steps
of their own:

* `CheckName` / `AllocEntry`: look-up and insertion;
* `CreateScsiDevice` / `Publish`: the device is on its list before its local
  info points to the entry;
* `CheckRemovable` / `MarkMissing` / `Unlink`: the test of the count, the flag,
  and the removal of the entry;
* `FindDevice` / `Increment` / `HandleSrb`: the look-up under the spin lock, the
  count without it, the use of the memory.

An SRB whose device was deleted between `FindDevice` and `Increment` goes on with
the freed memory: it finds the pointer to the local info NULL (`LocalInfoGone`), or
it is counted and handled like any other (`Increment`, `HandleSrb`), or the access
stops the system (`UseFreedFaults`). The last may also happen while it is handled,
whenever something the handler uses is freed or was never set (`Intact`).
`Unlink` of a freed entry and `CheckRemovableFaults` with a NULL handle are the same
kind of step: they set `bugcheck`, after which nothing moves, or go on from what
is still there. Freed memory is taken to hold what it did or to fault; that
another allocation gets it and is written to through the old pointer is not
followed.

Operators marked FAULTY are variants of the action after them with one plausible
mistake. No behaviour uses them; each exists to see that a property notices it.

The arithmetic of `ScsiIds` is taken as it stands: the bus of a bit is divided by
the number of buses, and the bit that is cleared multiplied by the number of
targets. The two agree for ids on bus 0 only (bits below `SCSI_MAXIMUM_BUSES`),
which is why `AddressNotShared` speaks of bus 0.

### How `DiskIo` corresponds to the code

A processor that executes an SRB is `idle`, in one of the two `RtlCopyMemory`, or
`done` with a status and a `DataTransferLength` until `OsrVmExecuteScsi` hands the
SRB back. Nothing is locked, so the copies of two processors interleave block by
block (within a block they may too, which is left out). Every exit of READ and
WRITE is a disjunct of `BeginTransfer`, `CopyEnds` or `CopyFaults`; the other
commands are answered in one step and share `Serve`.

Lengths are counted in blocks. The numbers that matter keep their width:
`DiskSizeMB * 1024 * 1024` wraps at 32 bits (`SizeOf`), and the block number of
READ_CAPACITY wraps and is rounded by its mask (`LastBlockOf`). `first` is at most
2^32 blocks and the offset 64 bits wide, so it does not wrap.

READ_CAPACITY tells the last block rounded down to a multiple of 256, so that
the last 255 blocks of every disk are never used. `OsrUserGetDiskCapacity` calls
this value "number of blocks on this disk" in its header.

### How `RemoteClient` corresponds to the code

The n-th click on Connect that succeeds starts a `ReceiveThread` and an
`OutputThread`, which are thread n of `rx` and `ox`. The window thread is `ui`; the
long calls it makes (`connect`, the creation of threads) are split so that other
threads run in between. Messages that were posted are retrieved before a click,
as `GetMessage` does. Handles are used again after they were closed, so that a
thread of an old connection may hold the socket of a new one. A record has
`RecordSize` bytes and a `recv` returns any number of those that have arrived; the
loop that completes a record adds whatever `recv` returns, also -1 (`RestFails`).

`isConnected` and `nMode` are read without a lock, each at a step of its own.
Two ghosts say what went before: `overlapped`, that Connect was clicked while
threads of an older connection still ran (the button is enabled again at once),
and `cut`, that a record was cut in two by the end of a connection.

The server a client receives from is not in `main.cpp` any more: the protocol is
that of `SendThread` of the older revision (`main_4.cpp`), and any program that
speaks it may also stop in the middle of a record.

### How `RemoteServer` corresponds to the code

The n-th start has `ListenThread` n; a receiver is known by the handle of its
socket. `nConnected++` is a read and a write (`Count`, `Spawn`), because
`ServerTerminate` sets the variable to 0 without the mutex. `closesocket` (`Close`)
closes the handle whatever it stands for by then, and what waits there is lost.

The ghost `calm` says that every start has found the threads of earlier ones ended
and that no `ListenThread` woke without a notification. Nothing in the code
sees to that: after a quick Terminate and Start a receiver of the first server
closes a handle that the second one has given to another client, and an old
`ListenThread` fills slots of the new one. That the properties need `calm` says
so; `OnlyCalm` keeps TLC from following what comes after. A calm server
may still be terminated at any moment while its own threads are anywhere.

A slot is never cleared when its client leaves and `nConnected` never falls, so
that a server accepts `maxClients` connections between two starts and no more;
`WaitingAccepted` says that it accepts those.

### How `InputChannel` corresponds to the code

A byte is known by its number in the stream. The menu of the stream window
should send two-byte messages between the records, but its handlers take
`GWLP_USERDATA` for a pointer to the socket, which it is not: nothing is sent
(`ChooseFps`). The receiver tells a record from a message by the number of bytes
that `recv` has returned. Records alone are in step as long as no `recv` cuts one;
if the menu worked they would not be (the variant `ChooseFpsSends`). Two bytes of
a cut record are taken for a message, which is why `TypeOK` says that no such
message sets a rate of 0, by which the stream thread divides.

### How `ScreenStream` corresponds to the code

A tile has a colour and a size is counted in tiles. The mask has whole bytes, and a
full frame sets all of their bits, those behind the last tile included; the client
counts the bits of as many tiles as it believes the server to have: those of its
bitmap, or of its own screen before it has one. If the numbers differ it waits for
tiles that do not come or takes a tile for a mask (`Confuse`). What it makes of
the bytes then is not followed: `confused` is the end of the client here.

A bitmap that is too small for a tile is replaced by an empty one, so the first
frame loses all but the tiles after the last growth; they come back with the next
full frame or when they change.

The loop that sends the tiles of a frame goes through their numbers from left to
right; `Ascending` says that of the order of the messages, and there is exactly one
such order (`AscendingExists`).

ViteMap and QOI are vendored and taken to be lossless.

### What is assumed of code outside `src`

`ScanBus`, `Rescan`, `DropLogicalUnit` and `DeleteDevice` are external. StorPort
makes a LU extension and sends an INQUIRY when it scans an address, and drops
the LU extension after SRB_STATUS_NO_DEVICE once no other SRB of the address is
in progress. The `DeleteDevicesThread` deletes a reported device when no I/O is
outstanding; if it did not wait for that, `NothingFreedInUse` could not hold
whatever `src` does.

## Runs

All constants are model values or small numbers. The bounds are those that a
module's CONSTANTS call bounds: connections, starts, clients, records, changes.

| run | instance | question |
|---|---|---|
| `threads` | 2 IOCTL threads, 2 SRB threads, 2 names, 2 connections, 2 buses x 2 targets | names, counts and memory under every interleaving, and the refinement of `DiskService` |
| `reuse` | 1 IOCTL thread, 1 SRB thread, 2 names, 3 connections, 1 id; the third one fails after its device exists; fair | list, count and entries after a CONNECT that fails with its device listed; ids run out, come back and are given out again; requests return; what a scan that was asked for meets is found or deleted; the refinement again, with an orphan |
| `store` | 2 processors, disks of 2 blocks and of 0 (wrapped), 2 tags, starts 0..3, counts 0..2 | bounds, capacity, lengths and the refinement of `BlockStore` |
| `client` | 2 handles, 2 connections, 2 records of 2 bytes | what is injected, and why a connection ends |
| `client_ends` | the same with 1 record, fair | receive threads end, the queue is taken |
| `server` | 3 handles, 2 slots, limit 2, 2 starts, 3 clients, 1 stream, fair | slots, counts and receivers agree; clients are accepted; listeners end |
| `stream` | screens of 2x1, 1x2 and 3x1 tiles, 2 colours, masks of 2 bits, every 3rd frame full, 2 changes, 1 other frame, fair | frames in step, no old tile for good, the picture completes |
| `channel` | 4 records of 4 bytes | framing under every split |
| `no_outstanding_when_marked`, `local_info_valid`, `client_threads_end`, `streaming_stopped` | one of everything (2 SRB threads for `local_info_valid`) | what an assertion or a remark in the code says, and the code does not do |

Two threads of each kind are enough for every race between two of them; a third
thread of a kind brings no new shared state, since IOCTL threads exclude each
other by the mutex and SRB threads only share a count. Two connections put two
devices on the lists; the third one of `reuse` is needed for an id to be given
out, freed, given out again and be refused to a third.
Ids of bus 1, for which another bit is cleared than was set, are left to the proof
(`OtherBitKept`).

For `DiskIo`, a block that two processors transfer at once is the only state they
share, and two blocks let a transfer start on, at and behind the end. The
numbers are the real ones scaled down: 2 blocks to the megabyte instead of 2048,
8 blocks to 2^32 bytes instead of 8388608, capacities rounded to 2 instead of 256.

A client needs a second connection for the threads and messages of the first one to
meet it, two bytes for a record to be cut, and two records for an order. A server
needs two starts for handles to come back, and more clients than it allows. A
stream needs three sizes: one with as many tiles as the client's screen in
another shape, and a larger one; with masks of two bits a third tile
leaves bits behind the end. A record of four bytes can be cut so that two bytes are
left, in front and behind, and pieces of two records make four bytes only if
the stream allowed it, which the property denies.

Symmetry is used in runs without liveness only (threads, names and handles are
compared for equality, never ordered).

### Properties

* `UniqueNames`, `CountIsConnected`, `FoundEntryHasLocalInfo`: the connection
  table stays consistent over concurrent requests and half-way failures.
* `OutstandingIsInFlight`: as long as a device is listed, its count is the number
  of requests on it. `NothingFreedInUse`: from the moment a request is counted,
  nothing it uses is freed that was still there, but for the entry of a CONNECT
  that fails after its device exists. What was freed before the request was
  counted stays freed (`LocalInfoValid` does not hold, see the findings).
* `UninitialisedOnlyInConnect`: the one way to a device that is not filled in.
* `ListedEntryAllocated`: nothing on the connection list is freed memory, except in
  the window between `MarkMissing` and `Unlink`.
* `AddressNotShared`: an id on bus 0 has one present device, also when no id is left.
* `RequestsReturn`, `MissingDeleted`, `ConnectedDiskFound`: see the fairness they need,
  below. The last two are about devices that a scan which the driver asked
  for is still to reach and that are first at their address. A disk that stands
  behind a missing device of the same address may stay unfound: that takes
  another scan, which nothing in the driver asks for.
* `ImplementsDiskService`: the refinement. `threads` has two SRB threads, so that one
  can begin on a disk whose departure the other has reported; `reuse` has the
  disk of a CONNECT that fails.
* `CopyOnDisk`: no copy leaves the disk; `CapacityHonoured`: what READ_CAPACITY
  has told, READ and WRITE keep.
* `ImplementsBlockStore`: overlapping READs and WRITEs transfer each block once
  and at one moment, and success means that all were.
* `QueueConserved`: a record that is in the queue is taken once and injected once,
  with any number of threads on the same queue. It begins where a record is put
  there: two `ReceiveThread`s that overlap share `recvBuff`, and may lose or double a
  record before.
* `InjectedInOrder`, `NothingSkipped`: no record is lost, doubled or reordered between
  the server's `send` and the client's `SendInput`, if Connect was never clicked while
  threads of an older connection ran (`overlapped`). A record that a disconnect has
  cut in two may be injected as it is (`cut`).
* `ButtonsFollow`, `EndsForAReason`: late messages and old threads neither open a
  connection to a second click nor close it. The second needs that Connect was
  not clicked while old threads ran: the message that an old thread posts closes
  whatever connection there is then.
* `AtMostMaxClients`, `SlotsKnowClients`, `ReceiverPerClient`, `ClosedForAReason`: the
  limit, the slots, the receivers and the sockets agree through handles that are used
  again and counts that are reset.
* `InStep` and `TilesTrue` of `ScreenStream`: both sides agree where a frame ends, and
  what the server believes the client shows is what it shows, or nothing.
* `InStep` and `InjectedContiguous` of `InputChannel`: what framing by the length of a
  `recv` keeps, with and without cuts.
* `ReceiveThreadsEnd`, `QueueDrains`, `WaitingAccepted`, `ListenersEnd`,
  `PictureCompletes`: see the fairness they need, below.

### Fairness

`FairSpec` asks for weak fairness of the IOCTL and SRB threads (the scheduler
runs a thread that can run), strong fairness of `Acquire` (a kernel mutex serves
its waiters in turn) and of the scan of each address that the driver has asked
for (it waits for a free processor again and again), and weak fairness of the
`DeleteDevicesThread`. Nobody has to issue a request, and nobody has to scan the
bus on his own account: `Rescan` may happen and need not.

In Remote every thread that can run runs: weak fairness of the window thread, of each
`ReceiveThread`, `OutputThread`, `ListenThread`, receiver and stream thread, and of
one round of a stream's loop (which sleeps for a fixed time). Nobody has to
click, send, change the screen, come or go, and a condition variable does not have to
wake by itself. `ListenersEnd` lets a `ListenThread` sleep for ever that missed
the notification between its test and its wait: that can happen, as it can to
the `OutputThread` (see the finding). `PictureCompletes` needs the other
streams to stop counting, which they do here because `MaxOther` bounds them: two
streams at the same pace can share the counter so that one never gets a full frame.

### Findings

* `OSRASSERT(!pOsrDevice->OutstandingIoCount)` can fail
  (`NoOutstandingWhenMarked`): the count is incremented after the list lock is
  released, and tested without it.
* `USER_INSTANCE_VALID(pIInfo)` in `OsrUserHandleSrb` can fail (`LocalInfoValid`), for
  the same reason: until the count is incremented nothing keeps the
  `DeleteDevicesThread` from freeing the device that was found. The macro is not in
  the repository; it is taken to say that the local info is there.
* "Ending receive thread" (`ClientThreadsEnd`): the notification can come between
  the `OutputThread`'s test of `isConnected` and its wait, and it sleeps for ever.
* "Also stop screen streaming" (`StreamingStopped`): a stream accepted before (or
  long after: the stream listener never ends) sets the flag again.

### Remarks from reading

These are not runs; a look at the lines is enough, and the models have them as they
are.

* "Okay, we've got a PDO" (`osrstorptuserutil.cpp:307`): the code tests the local info
  where it should test the handle. A CONNECT at an address whose LU extension
  StorPort still holds succeeds without a disk (`CreateScsiDeviceFails`), and its
  DISCONNECT reads through NULL (`CheckRemovableFaults`).
* "This memory is not leaked" (`osrstorptuserutil.cpp:204`): the inquiry data is,
  when the ids are used up or the local info cannot be allocated (268, 283).
* "Make sure the buffer length input can hold all the data"
  (`osrstorptuserintf.cpp:723`): the test is the wrong way round, so longer buffers
  are refused and shorter ones overrun. `DiskIo` has it behind `ShortBuffers`.
* The size in megabytes wraps at 4 GB (`osrstorptuserutil.cpp:180`); the capacity told
  is that of what is left (`SizeOf`).
* `main.cpp`: the disconnect message of an old thread closes a new connection
  (2382); slots and `nConnected` are never given back (2286); the menu of the stream
  window sends nothing (245), and the configuration saves the server's
  rate where the client's choice was meant; the entry for quality 5 has no
  case there and indexes `levels` behind its end (2344); the key combinations
  release Delete three times and never Ctrl and Alt (254-292), which nobody has
  noticed because they are not sent either.

## Proofs

Everything here is proved for every value of the constants that satisfies the
assumptions of the module in question (sets of requests and sizes are sets of
naturals, limits are positive, sentinels are no ordinary values). Nothing else
is assumed, but for the long enough buffers that the refinement of `BlockStore`
names.

### VirtualMiniport

All invariants of the runs `threads` and `reuse`, `NothingFreedInUse` and the
refinement are theorems, and so is `DeletedDeviceFreed`, which no run checks. Each
rests on an inductive invariant that is stated beside it; each line uses those above it:

| invariant | what it says | theorems |
|---|---|---|
| `TypeInv` | `TypeOK`, and a thread in the middle of its work has a connection or device | `TypeCorrect` |
| `MutexInv`, `NamesInv` | the thread that is past `Acquire` holds the mutex; the name of an entry to come is free | `NamesAreUnique` |
| `OutstandingInv` | the count is the number of SRB threads between increment and decrement | `OutstandingCorrect` |
| `EntryInv` | what CONNECT and DISCONNECT at work have on the connection list; an entry without its local info is that of a CONNECT at work | `LocalInfoOfFoundEntry`, `CountCorrect` |
| `DeviceInv`, `DeviceWasMade` | in which stages a device is listed, initialised or missing; what an SRB has found was a device once | `UninitialisedInConnect` |
| `HeapInv` | a listed device has its memory, one that is off the list has none, the stages of CONNECT have what they allocated | `ListedAllocated`, `DeletedFreed`, `NothingFreed` |
| `AddressInv` | every holder of an address on bus 0 has its bit set, and two holders have two addresses | `AddressesDiffer` |

`NothingFreed` is an action property. Only two steps free anything. `CleanupAfterError`
frees its entry; an SRB has only what was a device once (`DeviceWasMade`), and that
has such a CONNECT only if the signature did not fit, which is the exception.
`DeleteDevice` frees everything, but needs a count of 0, and by `OutstandingInv` the
count of a listed device is that of the SRBs on it.
`AddressInv` has to call a device a
holder from the moment its id is taken until DISCONNECT clears the bit, which is
not when the device is on the list. On bus 0 the bit that was set is the bit that
is cleared and no address of another bus clears it (`OtherBitKept`); on other
buses that is false, and `AddressNotShared` stops there.

At most one IOCTL thread is at work (`OneAtWork`), so what its steps find in `cur`
nobody else changes. Steps of other threads are dealt with once, by frame lemmas
(`OutsideFrame`, `OutsideStates`): a step that is not of the IOCTL thread at work
leaves its variables alone.

`RefinesDiskService` is the refinement of `DiskService`, for CONNECTs that fail at
any point. `MapInv` is all of the invariants above, with the names of the entries on
the list (`NamedInv`) and with the mapping spelled out without CHOOSE and CASE
(`OwnerMap`, `PhaseMap`). `AllocEntry` is `Reserve`, which needs that the name is
still free; `CreateScsiDevice` is `Appear`; if the device is there, `Publish` is `Complete` and
`CleanupAfterError` `Abandon`, and if not, they are no step and `Release`; `MarkMissing` is `Leave`,
which needs that the device it found is still listed, and `Unlink` `Release`.
`DeleteDevice` is `Delete`, which needs that no request is served. `FindDevice`,
`Increment`, `LocalInfoGone` and `HandleSrb` are `Find`, `Begin`, `GiveUp` and `End`, and
every other step is none.

### DiskIo

* `TypeCorrect` and `CopyStaysOnDisk` are proved together: that a copy has an
  index on the disk is what makes its step well typed, and the types are what
  makes the arithmetic of the bounds tests add up.
* `CapacityKept`: the length of a copy is `Cut` of its request from start to
  report (`CutInv`), what was told is `LastBlockOf` the size (`ToldInv`), and
  that is a block of the disk if there is one (`LastBlockOnDisk`).
* `Refinement` assumes `~ShortBuffers`: with short buffers it is false, see the
  remark. `Refinement` maps every step to the step of
  `BlockStore` named in its comment, or to none; `MapFrame` says that a step of
  one processor moves nothing of the others.

### InputChannel

For every size of a record and any number of them. The invariant is `TypeOK`;
`Waiting`, that the bytes that wait are the last that were sent, in order; `Ordered`,
that what was injected has been sent before them; and `Whole`, that without a cut
nothing but whole records has left the stream.

* `TypeCorrect`: the frame rate is never 0, whatever is taken for a message.
* `ContiguousAlways`, `InStepAlways`: the two properties of framing. `Concatenation` and
  `Splits` say what `recv` and `send` do to a sequence of consecutive numbers.

### RemoteClient

For any number of connections, handles and records, records of any length, and
messages that come as late as they like. All six safety properties of the run
`client` are theorems. The invariant grows in three layers, and each was checked by
TLC on the instance of `client` first.

`IInv` has three parts: `Shape`, the types; `Buttons`, in which modes the window
thread connects; and `Alone`: if Connect was never clicked while threads of an
older connection ran, then whoever receives does so from the present socket, no
message waits while a connection is made, and no thread has failed unless the
server has ended the connection. Without the last two, `EndsForAReason` is not
inductive: the step that closes the socket does not know why the message was
posted.

* `ButtonsAlways`: `ButtonsFollow`, in every case.
* `EndsAlwaysForAReason`: the action property `EndsForAReason`. `Ends` finds the only
  two steps that can end a connection against it, and `Alone` excludes them.

`TInv` adds what the types need. `Points`: a record that is not complete has
`bytes_rec` below its size and no last byte, and only a thread about to inject has a
batch. `Unborn`: threads of connections to come do not run. `FewPosted`: the messages
that wait and the threads at work are at most twice the connections there may be.
A thread goes to work only while a connection is up, and a connection is made only
when no message waits; that leaves room for one message of every thread.

* `TypesHold`: `TypeOK`, `bytes_rec` and the number of messages included.
* `QueueAlwaysConserved`: `Balance` is `QueueConserved` for every record, whether it
  was ever in the queue or not. `OccurrencesAppend` and `OccurrencesJoined` count what
  a step moves; the batches are disjoint sets (`Held`, `HeldMore`, `HeldLess`).

`OInv` adds the order. `SocketsKept` and `Lonely`: what there is to receive belongs to
a socket that was connected, and if nothing overlaps there is one such socket and one
pair of threads. `Kept`: what was put into the queue is `injected`, then the batch,
then the queue. `Streamed`: the last `d` records that were put into the queue are the
first `d` of the present connection, those before them are older, the bytes that
`ReceiveThread` holds and those in the socket continue the stream, and while the
server is there they end with what it has sent last. `Order`: whole records in the
queue ascend, and a whole record about to be pushed comes after all of them.

* `FirstInFirstOut`: `Kept`.
* `InjectedAlwaysInOrder`: from `Kept` and `Order`. `Order` needs `Streamed` at one step,
  the `recv` that completes a record: it is number `base + d + 1` (`FirstRecord`), which
  is more than what any record in the queue begins with (`NextIsLater`).
* `NothingEverSkipped`: `Streamed`, with the first part of the queue spelled out by
  `Kept`. `FilledMoves` says that a `recv` of any length moves bytes from the
  socket to the buffer without changing the two put together, `GoesOn` that what
  the server sends continues the stream, `TookOneMore` that a record that is pushed
  does. The place of a byte in its record is a quotient (`Quotient`, `NextQuotient`).

### RemoteServer

For every number of starts, handles, slots and clients, and any limit, also one
that exceeds the slots. In a calm server five invariants need one another:
`One`, a single `ListenThread` is alive; `Limit`, which the thread keeps although it
tests long before it counts; `Counted`; `SlotInv`, that below the limit a slot is
free and stays so from the moment it is found, also through a failed `accept`;
and `ReceiverInv`, that a client is pending with the `ListenThread` or has one
receiver, and that a receiver closes a socket only after its client has left. The
induction is by one lemma for each part with one step for each action; `CalmStays`
says that a calm step starts in a calm state, so that all of them may be
assumed. Cardinalities change only in `Accept`, `Store` and where sockets close.
`Select` finds a slot because the taken ones are no more than the counted clients.

* `LimitAlways`, `SlotsAlways`, `ReceiverAlways`: `AtMostMaxClients`,
  `SlotsKnowClients`, `ReceiverPerClient`.
* `ClosedAlwaysForAReason`: the action property `ClosedForAReason`.

The types hold without calm. `Shape` has all but the bounds of the counts, which are
those of `Arrived`: a connection is in the backlog, with a `ListenThread`, or counted.
`Load` is the number of those that are not counted yet, and `nConnected`, whatever a
thread has read of it, and the receivers of a handle, each with `Load`, never exceed
the arrivals. So the lost update of `nConnected++` and the reset by
`ServerTerminate` make the count too small but never too large.

* `TypesHold`: `TypeOK`.

### ScreenStream

For screens and bitmaps of every size, every length of a mask's unit and of the
interval between full frames.

* `TypesHold`: `TypeOK` is inductive once the arithmetic of tiles is there: a number
  below `Tiles` is a place (`AtOnScreen`), every place has a number (`AtCovers`), and
  the mask has a bit for every tile (`MaskBitsEnough`).
* `TilesTrueHolds`: `TrueInv` says of every place of the previous bitmap that the last
  tile on its way has the colour the server believes, and that without one the picture
  has it, or nothing. `FrameSent` describes the stream after a frame; a tile that
  is not in the frame has not changed since the last one, which is what the
  comparison with `prevBmp` is for. A bitmap that is replaced by a larger one only
  gets blanks.
* `InStepHolds`: `SteppedInv` has `Framed`, that every mask is followed by as many tiles
  as bits that the server's screen has, and what the client still expects is at
  the head of the stream; and `Sized`: the bitmap has the size of the screen, or there
  was no frame, or the first frame waits in front, or the corner tile is the last of
  those still expected. Without `Sized` nothing says that the second mask is
  counted with the right number of tiles: the bitmap grows tile by tile.

### Only model-checked

The liveness properties (`RequestsReturn`, `MissingDeleted`, `ConnectedDiskFound`,
`ReceiveThreadsEnd`, `QueueDrains`, `WaitingAccepted`, `ListenersEnd`,
`PictureCompletes`): they are about fairness, and so about ENABLED, which the prover
does not handle. And of course the four findings, which are counterexamples.

What a recursive operator computes for every input is out of reach as well, since
the folds of the community modules, `SelectSeq` and `FlattenSeq` cannot be unfolded
by induction. No property or action of a module that is proved about uses one:
occurrences are counted as places (`Where`), order is stated with indices, a frame
with `Ascending`. Induction on numbers is possible where it is needed, in the form
of a least element (`Least`, from `WFMin`).

## What is not modelled

* The texts that INQUIRY and MODE_SENSE return. `OsrUserHandleSrb` never returns
  STATUS_PENDING in this source, so the pending branch of `OsrVmExecuteScsi` is
  dead.
* Requests that are refused before anything is touched (short buffers, empty
  names), GETACTIVELIST, PnP queries: no state changes.
* The registry: `AddConnectionsToRegistry` is always FALSE.
* `OsrUserDeleteGlobalInformation`: frees the global information when the driver
  unloads; src has no caller.
* `AllocResources` says nothing of the size of the disk; `DiskIo` starts after it.
* Remote: drawing, layout, logs, the configuration file (written as a whole and read
  once), the deletion of the stream window's state by WM_DESTROY while its thread
  still runs, `HandleClose`, and the codecs.
* The older cut-up revision of Remote (`main_1.cpp` to `main_4.cpp`), except the
  `SendThread` that a client's server is; `udfs_crash_repro.cpp`; recorded logs; the
  vendored tool chain, which is nearly the whole repository by lines.

## Plan

1. Done: the miniport (`ScsiIds`, `VirtualMiniport`, `DiskService`, `DiskIo`,
   `BlockStore`), its runs, the theorems about its safety properties, and both
   refinements.
2. Done: Remote (`RemoteClient`, `RemoteServer`, `InputChannel`, `ScreenStream`), its
   runs, and the theorems about all its safety properties.
3. Left: the life of the stream window's state (WM_DESTROY against
   `ScreenRecvThread`).
