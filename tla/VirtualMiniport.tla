--------------------------- MODULE VirtualMiniport --------------------------
(***************************************************************************)
(* The OSR virtual StorPort miniport: the threads that create and delete   *)
(* connections (IOCTLs), the threads that execute SRBs, and the state they *)
(* share.                                                                  *)
(*                                                                         *)
(* Every successful allocation of a CONNECTION_LIST_ENTRY starts a new     *)
(* connection, numbered in the order of those allocations.  The entry, its *)
(* disk memory, its inquiry data, its USER_INSTANCE_INFORMATION and its    *)
(* OSR_VM_DEVICE all carry that number.  ConnectionList and DeviceList     *)
(* only grow at their tails and only under ConnectionMutex, so the order   *)
(* of each list is the order of the numbers in it, and a list is the set   *)
(* of the numbers on it.                                                   *)
(*                                                                         *)
(* A step is the code between two points at which another thread can see   *)
(* or change what it uses: a critical section of a spin lock, one          *)
(* interlocked operation, or, under ConnectionMutex, the code between two  *)
(* of them.  StorPort and the DeleteDevicesThread are not part of src;     *)
(* their actions are at the end and say what is assumed of them.           *)
(***************************************************************************)
EXTENDS Naturals, FiniteSets, ScsiIds

CONSTANTS
  IoctlThreads,    \* threads that call OsrUserProcessIoCtl
  SrbThreads,      \* processors that run OsrVmExecuteScsi concurrently
  Names,           \* instance names of connections
  Scanned,         \* addresses StorPort scans when the bus changes
  MaxConnections,  \* bound: pool memory for this many list entries, ever
  Fitting,         \* connections whose AsciiSignature holds what is printed
  None             \* no thread, no name, no address

ASSUME VirtualMiniportAssumption ==
  /\ IsFiniteSet(SrbThreads)
  /\ Scanned \subseteq Addresses
  /\ MaxConnections \in Nat
  /\ None \notin IoctlThreads
  /\ None \notin Names
  /\ None \notin Addresses

Connections == 1 .. MaxConnections

\* The pool allocations of a connection, apart from its device.
Kinds == {"entry", "disk", "inquiry", "local"}

VARIABLES
  mutex,            \* owner of ConnectionMutex
  ioctl,            \* where each IOCTL thread is
  arg,              \* the InstanceName of its request
  cur,              \* the connection it works on, 0 for none
  created,          \* connections numbered so far
  connectionList,   \* PGInfo->ConnectionList
  connectionCount,  \* PGInfo->ConnectionCount
  instanceName,     \* pEntry->ConnectionInfo.InstanceName
  published,        \* entries whose PIInfo, address and Connected are set
  scsiIds,          \* bits that are set in ScsiBitMapHeader
  heap,             \* <<kind, connection>> allocated and not freed
  address,          \* BusIndex and TargetIndex of a connection
  handle,           \* local infos whose OsrSPLocalHandle is not NULL
  initialised,      \* local infos whose ConnectionInformation is set
  deviceList,       \* PDevExt->DeviceList
  missing,          \* devices with Missing
  reported,         \* devices with ReportedMissing
  outstanding,      \* OutstandingIoCount of a device
  workEvent,        \* DeleteDevicesThreadWorkEvent
  luPresent,        \* addresses for which StorPort has a LU extension
  luDevice,         \* LuExt->OsrVmDevice, 0 for NULL
  rescan,           \* addresses StorPort has still to scan
  srb,              \* where each SRB thread is
  at,               \* the address of its SRB
  dev,              \* pOsrDevice, 0 for none
  bugcheck          \* the system has stopped

ioctlVars  == <<mutex, ioctl, arg, cur>>
tableVars  == <<created, connectionList, connectionCount, instanceName,
                published, scsiIds>>
memoryVars == <<heap, address, handle, initialised>>
deviceVars == <<deviceList, missing, reported, outstanding, workEvent>>
portVars   == <<luPresent, luDevice, rescan>>
srbVars    == <<srb, at, dev>>
vars == <<ioctlVars, tableVars, memoryVars, deviceVars, portVars, srbVars,
          bugcheck>>

IoctlStates == {"idle", "connectWait", "check", "alloc", "resources",
                "device", "publish", "cleanup", "disconnectWait", "find",
                "removable", "mark", "unlink"}

\* Where a thread holds ConnectionMutex.
Locked == IoctlStates \ {"idle", "connectWait", "disconnectWait"}

SrbStates == {"idle", "find", "increment", "handle", "noDevice"}

TypeOK ==
  /\ mutex \in IoctlThreads \cup {None}
  /\ ioctl \in [IoctlThreads -> IoctlStates]
  /\ arg \in [IoctlThreads -> Names \cup {None}]
  /\ cur \in [IoctlThreads -> Connections \cup {0}]
  /\ created \in Connections \cup {0}
  /\ connectionList \subseteq Connections
  /\ connectionCount \in Int
  /\ instanceName \in [Connections -> Names \cup {None}]
  /\ published \subseteq Connections
  /\ scsiIds \subseteq Bits
  /\ heap \subseteq Kinds \X Connections
  /\ address \in [Connections -> Addresses \cup {None}]
  /\ handle \subseteq Connections
  /\ initialised \subseteq Connections
  /\ deviceList \subseteq Connections
  /\ missing \subseteq deviceList
  /\ reported \subseteq missing
  /\ outstanding \in [Connections -> Int]
  /\ workEvent \in BOOLEAN
  /\ luPresent \subseteq Addresses
  /\ luDevice \in [Addresses -> Connections \cup {0}]
  /\ rescan \subseteq Scanned
  /\ srb \in [SrbThreads -> SrbStates]
  /\ at \in [SrbThreads -> Addresses \cup {None}]
  /\ dev \in [SrbThreads -> Connections \cup {0}]
  /\ bugcheck \in BOOLEAN

\* OsrUserInitialize, before any IOCTL or SRB, with an empty adapter.
Init ==
  /\ mutex = None
  /\ ioctl = [t \in IoctlThreads |-> "idle"]
  /\ arg = [t \in IoctlThreads |-> None]
  /\ cur = [t \in IoctlThreads |-> 0]
  /\ created = 0
  /\ connectionList = {}
  /\ connectionCount = 0
  /\ instanceName = [c \in Connections |-> None]
  /\ published = {}
  /\ scsiIds = {}
  /\ heap = {}
  /\ address = [c \in Connections |-> None]
  /\ handle = {}
  /\ initialised = {}
  /\ deviceList = {}
  /\ missing = {}
  /\ reported = {}
  /\ outstanding = [c \in Connections |-> 0]
  /\ workEvent = FALSE
  /\ luPresent = {}
  /\ luDevice = [a \in Addresses |-> 0]
  /\ rescan = {}
  /\ srb = [s \in SrbThreads |-> "idle"]
  /\ at = [s \in SrbThreads |-> None]
  /\ dev = [s \in SrbThreads |-> 0]
  /\ bugcheck = FALSE

-----------------------------------------------------------------------------
(* IOCTL_OSRVMPORT_CONNECT and IOCTL_OSRVMPORT_DISCONNECT.  A request with *)
(* a short buffer or an empty name is refused before anything is touched   *)
(* and is not a step; neither is GETACTIVELIST, which changes nothing.     *)

GoTo(t, state) == ioctl' = [ioctl EXCEPT ![t] = state]

\* KeReleaseMutex and the return to the caller.
Return(t) ==
  /\ GoTo(t, "idle")
  /\ arg' = [arg EXCEPT ![t] = None]
  /\ cur' = [cur EXCEPT ![t] = 0]
  /\ mutex' = None

Request(t, name, state) ==
  /\ ioctl[t] = "idle"
  /\ GoTo(t, state)
  /\ arg' = [arg EXCEPT ![t] = name]
  /\ UNCHANGED <<mutex, cur, tableVars, memoryVars, deviceVars, portVars,
                 srbVars, bugcheck>>

Connect(t, name) == Request(t, name, "connectWait")

Disconnect(t, name) == Request(t, name, "disconnectWait")

\* FAULTY: the wait does not keep a second thread out.
AcquireAtOnce(t) ==
  /\ \/ ioctl[t] = "connectWait" /\ GoTo(t, "check")
     \/ ioctl[t] = "disconnectWait" /\ GoTo(t, "find")
  /\ mutex' = t
  /\ UNCHANGED <<arg, cur, tableVars, memoryVars, deviceVars, portVars,
                 srbVars, bugcheck>>

\* KeWaitForMutexObject.
Acquire(t) ==
  /\ mutex = None
  /\ \/ ioctl[t] = "connectWait" /\ GoTo(t, "check")
     \/ ioctl[t] = "disconnectWait" /\ GoTo(t, "find")
  /\ mutex' = t
  /\ UNCHANGED <<arg, cur, tableVars, memoryVars, deviceVars, portVars,
                 srbVars, bugcheck>>

\* FindConnectionMatch: the entries of the list with the given name.
ConnectionMatch(name) == {c \in connectionList : instanceName[c] = name}

\* The two look-ups before an entry is made, in OsrUserProcessIoCtl
\* (STATUS_FILES_OPEN) and in CreateConnection (STATUS_OBJECT_NAME_COLLISION).
CheckName(t) ==
  /\ ioctl[t] = "check"
  /\ \/ /\ ConnectionMatch(arg[t]) # {}
        /\ Return(t)
     \/ /\ ConnectionMatch(arg[t]) = {}
        /\ GoTo(t, "alloc")
        /\ UNCHANGED <<mutex, arg, cur>>
  /\ UNCHANGED <<tableVars, memoryVars, deviceVars, portVars, srbVars,
                 bugcheck>>

\* The entry is allocated and inserted at the tail of the list.
AllocEntry(t) ==
  /\ ioctl[t] = "alloc"
  /\ created < MaxConnections
  /\ LET c == created + 1 IN
       /\ created' = c
       /\ connectionList' = connectionList \cup {c}
       /\ instanceName' = [instanceName EXCEPT ![c] = arg[t]]
       /\ heap' = heap \cup {<<"entry", c>>}
       /\ cur' = [cur EXCEPT ![t] = c]
  /\ GoTo(t, "resources")
  /\ UNCHANGED <<mutex, arg, connectionCount, published, scsiIds, address,
                 handle, initialised, deviceVars, portVars, srbVars, bugcheck>>

\* ExAllocatePoolWithTag of the entry fails (STATUS_INSUFFICIENT_RESOURCES).
AllocEntryFails(t) ==
  /\ ioctl[t] = "alloc"
  /\ Return(t)
  /\ UNCHANGED <<tableVars, memoryVars, deviceVars, portVars, srbVars,
                 bugcheck>>

\* FAULTY: RtlFindClearBits in the place of RtlFindClearBitsAndSet.
AllocResourcesFindOnly(t) ==
  /\ ioctl[t] = "resources"
  /\ \E bit \in Bits :
       /\ IsLowestClearBit(bit, scsiIds)
       /\ address' = [address EXCEPT ![cur[t]] = AddressOf(bit)]
  /\ heap' = heap \cup ({"disk", "inquiry", "local"} \X {cur[t]})
  /\ GoTo(t, "device")
  /\ UNCHANGED <<mutex, arg, cur, tableVars, handle, initialised, deviceVars,
                 portVars, srbVars, bugcheck>>

\* Disk memory, uuid, inquiry data, SCSI id and local info are all there.
AllocResources(t) ==
  /\ ioctl[t] = "resources"
  /\ \E bit \in Bits :
       /\ IsLowestClearBit(bit, scsiIds)
       /\ scsiIds' = scsiIds \cup {bit}
       /\ address' = [address EXCEPT ![cur[t]] = AddressOf(bit)]
  /\ heap' = heap \cup ({"disk", "inquiry", "local"} \X {cur[t]})
  /\ GoTo(t, "device")
  /\ UNCHANGED <<mutex, arg, cur, created, connectionList, connectionCount,
                 instanceName, published, handle, initialised, deviceVars,
                 portVars, srbVars, bugcheck>>

\* One of them fails, after those in got were allocated: the disk memory;
\* ExUuidCreate or the inquiry data, with the disk there; the SCSI id (no
\* clear bit), with the inquiry data there too.
AllocResourcesFails(t) ==
  /\ ioctl[t] = "resources"
  /\ \E got \in {{}, {"disk"}, {"disk", "inquiry"}} :
       /\ got = {"disk", "inquiry"} => Bits \subseteq scsiIds
       /\ heap' = heap \cup (got \X {cur[t]})
  /\ GoTo(t, "cleanup")
  /\ UNCHANGED <<mutex, arg, cur, tableVars, address, handle, initialised,
                 deviceVars, portVars, srbVars, bugcheck>>

\* The local info cannot be allocated: the bit stays set.
AllocLocalFails(t) ==
  /\ ioctl[t] = "resources"
  /\ \E bit \in Bits :
       /\ IsLowestClearBit(bit, scsiIds)
       /\ scsiIds' = scsiIds \cup {bit}
  /\ heap' = heap \cup ({"disk", "inquiry"} \X {cur[t]})
  /\ GoTo(t, "cleanup")
  /\ UNCHANGED <<mutex, arg, cur, created, connectionList, connectionCount,
                 instanceName, published, address, handle, initialised,
                 deviceVars, portVars, srbVars, bugcheck>>

\* OsrSPCreateScsiDevice: from here on SRBs can find the device, although
\* CreateConnection has not yet filled in its local info.
CreateScsiDevice(t) ==
  /\ ioctl[t] = "device"
  /\ address[cur[t]] \notin luPresent
  /\ deviceList' = deviceList \cup {cur[t]}
  /\ handle' = handle \cup {cur[t]}
  /\ GoTo(t, "publish")
  /\ UNCHANGED <<mutex, arg, cur, tableVars, heap, address, initialised,
                 missing, reported, outstanding, workEvent, portVars,
                 srbVars, bugcheck>>

\* OsrSPCreateScsiDevice returns NULL: StorPort still has a LU extension for
\* the address, or the device cannot be allocated.  CreateConnection tests
\* pLocalInfo, not the handle, and goes on.
CreateScsiDeviceFails(t) ==
  /\ ioctl[t] = "device"
  /\ GoTo(t, "publish")
  /\ UNCHANGED <<mutex, arg, cur, tableVars, memoryVars, deviceVars, portVars,
                 srbVars, bugcheck>>

\* FAULTY: ConnectionInformation is not set.
PublishUninitialised(t) ==
  /\ ioctl[t] = "publish"
  /\ cur[t] \in Fitting
  /\ published' = published \cup {cur[t]}
  /\ connectionCount' = connectionCount + 1
  /\ rescan' = Scanned
  /\ Return(t)
  /\ UNCHANGED <<created, connectionList, instanceName, scsiIds, memoryVars,
                 deviceVars, luPresent, luDevice, srbVars, bugcheck>>

\* The local info and the entry are filled in, the arrival is announced, the
\* caller gets STATUS_SUCCESS.
Publish(t) ==
  /\ ioctl[t] = "publish"
  /\ cur[t] \in Fitting
  /\ initialised' = initialised \cup {cur[t]}
  /\ published' = published \cup {cur[t]}
  /\ connectionCount' = connectionCount + 1
  /\ rescan' = Scanned
  /\ Return(t)
  /\ UNCHANGED <<created, connectionList, instanceName, scsiIds, heap,
                 address, handle, deviceVars, luPresent, luDevice, srbVars,
                 bugcheck>>

\* FAULTY: the entry is filled in before the print that may fail.
PublishFailsFilled(t) ==
  /\ ioctl[t] = "publish"
  /\ cur[t] \notin Fitting
  /\ initialised' = initialised \cup {cur[t]}
  /\ published' = published \cup {cur[t]}
  /\ GoTo(t, "cleanup")
  /\ UNCHANGED <<mutex, arg, cur, created, connectionList, connectionCount,
                 instanceName, scsiIds, heap, address, handle, deviceVars,
                 portVars, srbVars, bugcheck>>

\* RtlStringCbPrintfA fails, after ConnectionInformation was set.
PublishFails(t) ==
  /\ ioctl[t] = "publish"
  /\ cur[t] \notin Fitting
  /\ initialised' = initialised \cup {cur[t]}
  /\ GoTo(t, "cleanup")
  /\ UNCHANGED <<mutex, arg, cur, tableVars, heap, address, handle,
                 deviceVars, portVars, srbVars, bugcheck>>

\* FAULTY: the count is lowered for an entry that was never counted.
CleanupCounts(t) ==
  /\ ioctl[t] = "cleanup"
  /\ connectionList' = connectionList \ {cur[t]}
  /\ connectionCount' = connectionCount - 1
  /\ heap' = heap \ {<<"entry", cur[t]>>}
  /\ Return(t)
  /\ UNCHANGED <<created, instanceName, published, scsiIds, address, handle,
                 initialised, deviceVars, portVars, srbVars, bugcheck>>

\* FAULTY: the entry is freed while it is still on the list.
CleanupKeepsLink(t) ==
  /\ ioctl[t] = "cleanup"
  /\ heap' = heap \ {<<"entry", cur[t]>>}
  /\ Return(t)
  /\ UNCHANGED <<tableVars, address, handle, initialised, deviceVars,
                 portVars, srbVars, bugcheck>>

\* cleanupAfterError: only the entry is taken off its list and freed.
CleanupAfterError(t) ==
  /\ ioctl[t] = "cleanup"
  /\ connectionList' = connectionList \ {cur[t]}
  /\ heap' = heap \ {<<"entry", cur[t]>>}
  /\ Return(t)
  /\ UNCHANGED <<created, connectionCount, instanceName, published, scsiIds,
                 address, handle, initialised, deviceVars, portVars, srbVars,
                 bugcheck>>

\* The look-ups of OsrUserProcessIoCtl and DeleteConnection.
FindToDelete(t) ==
  /\ ioctl[t] = "find"
  /\ \/ /\ ConnectionMatch(arg[t]) = {}
        /\ Return(t)
     \/ /\ \E c \in ConnectionMatch(arg[t]) :
             /\ \A d \in ConnectionMatch(arg[t]) : c <= d
             /\ cur' = [cur EXCEPT ![t] = c]
        /\ GoTo(t, "removable")
        /\ UNCHANGED <<mutex, arg>>
  /\ UNCHANGED <<tableVars, memoryVars, deviceVars, portVars, srbVars,
                 bugcheck>>

\* FAULTY: the error return of a device in use keeps the mutex.
CheckRemovableKeepsMutex(t) ==
  /\ ioctl[t] = "removable"
  /\ cur[t] \in handle
  /\ \/ outstanding[cur[t]] # 0 /\ GoTo(t, "idle")
     \/ outstanding[cur[t]] = 0 /\ GoTo(t, "mark")
  /\ UNCHANGED <<mutex, arg, cur, tableVars, memoryVars, deviceVars, portVars,
                 srbVars, bugcheck>>

\* OsrSPSetDeviceRemovable(handle, FALSE) up to its test of the count.
\* STATUS_UNABLE_TO_UNLOAD_MEDIA when I/O is outstanding.
CheckRemovable(t) ==
  /\ ioctl[t] = "removable"
  /\ cur[t] \in handle
  /\ \/ /\ outstanding[cur[t]] # 0
        /\ Return(t)
     \/ /\ outstanding[cur[t]] = 0
        /\ GoTo(t, "mark")
        /\ UNCHANGED <<mutex, arg, cur>>
  /\ UNCHANGED <<tableVars, memoryVars, deviceVars, portVars, srbVars,
                 bugcheck>>

\* The same with a NULL handle: OutstandingIoCount is read through NULL.
CheckRemovableFaults(t) ==
  /\ ioctl[t] = "removable"
  /\ cur[t] \notin handle
  /\ bugcheck' = TRUE
  /\ UNCHANGED <<ioctlVars, tableVars, memoryVars, deviceVars, portVars,
                 srbVars>>

\* FAULTY: the departure is announced, but the device is not made Missing.
MarkNothing(t) ==
  /\ ioctl[t] = "mark"
  /\ rescan' = Scanned
  /\ GoTo(t, "unlink")
  /\ UNCHANGED <<mutex, arg, cur, tableVars, memoryVars, deviceVars, luPresent,
                 luDevice, srbVars, bugcheck>>

\* The device becomes Missing, then OsrSPAnnounceDeparture.
MarkMissing(t) ==
  /\ ioctl[t] = "mark"
  /\ missing' = missing \cup ({cur[t]} \cap deviceList)
  /\ rescan' = Scanned
  /\ GoTo(t, "unlink")
  /\ UNCHANGED <<mutex, arg, cur, tableVars, memoryVars, deviceList, reported,
                 outstanding, workEvent, luPresent, luDevice, srbVars,
                 bugcheck>>

\* DeleteConnectionEntry, RtlClearBits, ConnectionCount, STATUS_SUCCESS.  If
\* the entry is no longer allocated, RemoveEntryList reads freed memory: it
\* may still find the old links there, or stop the system.
Unlink(t) ==
  /\ ioctl[t] = "unlink"
  /\ bugcheck' \in {b \in BOOLEAN : b => <<"entry", cur[t]>> \notin heap}
  /\ connectionList' = connectionList \ {cur[t]}
  /\ scsiIds' = scsiIds \ {BitToClear(address[cur[t]])}
  /\ connectionCount' = connectionCount - 1
  /\ Return(t)
  /\ UNCHANGED <<created, instanceName, published, memoryVars, deviceVars,
                 portVars, srbVars>>

-----------------------------------------------------------------------------
(* OsrVmExecuteScsi.                                                       *)

SrbGoTo(s, state) == srb' = [srb EXCEPT ![s] = state]

SrbDone(s) ==
  /\ SrbGoTo(s, "idle")
  /\ at' = [at EXCEPT ![s] = None]
  /\ dev' = [dev EXCEPT ![s] = 0]

\* An SRB for an address StorPort has a LU extension for.  Without one the
\* SRB is completed with SRB_STATUS_NO_DEVICE and nothing changes.
StartSrb(s, a) ==
  /\ srb[s] = "idle"
  /\ a \in luPresent
  /\ SrbGoTo(s, "find")
  /\ at' = [at EXCEPT ![s] = a]
  /\ UNCHANGED <<dev, ioctlVars, tableVars, memoryVars, deviceVars, portVars,
                 bugcheck>>

DevicesAt(a) == {d \in deviceList : address[d] = a}

\* The search of FindOsrVmDevice stops at the first device of the address.
IsFirstAt(d, a) == d \in DevicesAt(a) /\ \A e \in DevicesAt(a) : d <= e

\* FindOsrVmDevice finds no device, SRB_STATUS_NO_DEVICE.
FindNothing(s) ==
  /\ srb[s] = "find"
  /\ DevicesAt(at[s]) = {}
  /\ SrbGoTo(s, "noDevice")
  /\ UNCHANGED <<at, dev, ioctlVars, tableVars, memoryVars, deviceVars,
                 portVars, bugcheck>>

\* FAULTY: the LU extension does not remember the device.
FindDeviceUncached(s) ==
  /\ srb[s] = "find"
  /\ \E d \in deviceList \ missing :
       /\ IsFirstAt(d, at[s])
       /\ dev' = [dev EXCEPT ![s] = d]
  /\ SrbGoTo(s, "increment")
  /\ UNCHANGED <<at, ioctlVars, tableVars, memoryVars, deviceVars, portVars,
                 bugcheck>>

\* FindOsrVmDevice finds a device that is not missing and remembers the first
\* one it finds in the LU extension.
FindDevice(s) ==
  /\ srb[s] = "find"
  /\ \E d \in deviceList \ missing :
       /\ IsFirstAt(d, at[s])
       /\ dev' = [dev EXCEPT ![s] = d]
       /\ luDevice' = IF luDevice[at[s]] = 0
                      THEN [luDevice EXCEPT ![at[s]] = d]
                      ELSE luDevice
  /\ SrbGoTo(s, "increment")
  /\ UNCHANGED <<at, ioctlVars, tableVars, memoryVars, deviceVars, luPresent,
                 rescan, bugcheck>>

\* FAULTY: the test of Missing is left out.
FindAnyMissing(s) ==
  /\ srb[s] = "find"
  /\ \E d \in deviceList :
       /\ IsFirstAt(d, at[s])
       /\ reported' = reported \cup {d}
       /\ workEvent' = (workEvent \/ d \notin reported)
  /\ SrbGoTo(s, "noDevice")
  /\ UNCHANGED <<at, dev, ioctlVars, tableVars, memoryVars, deviceList,
                 missing, outstanding, portVars, bugcheck>>

\* FAULTY: the DeleteDevicesThread is not woken up.
FindMissingSilently(s) ==
  /\ srb[s] = "find"
  /\ \E d \in missing :
       /\ IsFirstAt(d, at[s])
       /\ reported' = reported \cup {d}
  /\ SrbGoTo(s, "noDevice")
  /\ UNCHANGED <<at, dev, ioctlVars, tableVars, memoryVars, deviceList,
                 missing, outstanding, workEvent, portVars, bugcheck>>

\* FindOsrVmDevice stops at a missing device, reports it once to the
\* DeleteDevicesThread and returns NULL, SRB_STATUS_NO_DEVICE.
FindMissing(s) ==
  /\ srb[s] = "find"
  /\ \E d \in missing :
       /\ IsFirstAt(d, at[s])
       /\ reported' = reported \cup {d}
       /\ workEvent' = (workEvent \/ d \notin reported)
  /\ SrbGoTo(s, "noDevice")
  /\ UNCHANGED <<at, dev, ioctlVars, tableVars, memoryVars, deviceList,
                 missing, outstanding, portVars, bugcheck>>

\* FAULTY: the request is not counted.
IncrementForgotten(s) ==
  /\ srb[s] = "increment"
  /\ SrbGoTo(s, "handle")
  /\ UNCHANGED <<at, dev, ioctlVars, tableVars, memoryVars, deviceVars,
                 portVars, bugcheck>>

\* InterlockedIncrement of OutstandingIoCount, after the list lock was
\* released.  The device may have been freed since: its memory may still hold
\* what it did, and the SRB goes on with it all the same.
Increment(s) ==
  /\ srb[s] = "increment"
  /\ outstanding' = [outstanding EXCEPT ![dev[s]] = @ + 1]
  /\ SrbGoTo(s, "handle")
  /\ UNCHANGED <<at, dev, ioctlVars, tableVars, memoryVars, deviceList,
                 missing, reported, workEvent, portVars, bugcheck>>

\* A device that was freed in between: PUserLocalInformation reads as NULL.
LocalInfoGone(s) ==
  /\ srb[s] = "increment"
  /\ dev[s] \notin deviceList
  /\ SrbGoTo(s, "noDevice")
  /\ UNCHANGED <<at, dev, ioctlVars, tableVars, memoryVars, deviceVars,
                 portVars, bugcheck>>

\* All that OsrUserHandleSrb follows from the device is allocated and set.
Intact(d) ==
  /\ d \in deviceList \cap initialised
  /\ Kinds \X {d} \subseteq heap

\* Reading what was freed or never set stops the system instead.
UseFreedFaults(s) ==
  /\ \/ srb[s] = "increment" /\ dev[s] \notin deviceList
     \/ srb[s] = "handle" /\ ~Intact(dev[s])
  /\ bugcheck' = TRUE
  /\ UNCHANGED <<ioctlVars, tableVars, memoryVars, deviceVars, portVars,
                 srbVars>>

\* FAULTY: the request stays counted, as a pending one would.
HandleSrbStaysCounted(s) ==
  /\ srb[s] = "handle"
  /\ SrbDone(s)
  /\ UNCHANGED <<ioctlVars, tableVars, memoryVars, deviceVars, portVars,
                 bugcheck>>

\* OsrUserHandleSrb, which never returns STATUS_PENDING, and
\* InterlockedDecrement, on whatever memory the device has by now.
HandleSrb(s) ==
  /\ srb[s] = "handle"
  /\ outstanding' = [outstanding EXCEPT ![dev[s]] = @ - 1]
  /\ SrbDone(s)
  /\ UNCHANGED <<ioctlVars, tableVars, memoryVars, deviceList, missing,
                 reported, workEvent, portVars, bugcheck>>

-----------------------------------------------------------------------------
(* Outside src: StorPort and the DeleteDevicesThread of osrstorpt.cpp.     *)

\* After BusChangeDetected StorPort scans every address once: it makes a LU
\* extension where there is none and sends an INQUIRY.
ScanBus(s, a) ==
  /\ srb[s] = "idle"
  /\ a \in rescan
  /\ rescan' = rescan \ {a}
  /\ luPresent' = luPresent \cup {a}
  /\ SrbGoTo(s, "find")
  /\ at' = [at EXCEPT ![s] = a]
  /\ UNCHANGED <<dev, luDevice, ioctlVars, tableVars, memoryVars, deviceVars,
                 bugcheck>>

\* The PnP manager asks StorPort for another scan on its own account.
Rescan ==
  /\ rescan = {}
  /\ rescan' = Scanned
  /\ UNCHANGED <<luPresent, luDevice, ioctlVars, tableVars, memoryVars,
                 deviceVars, srbVars, bugcheck>>

\* StorPort takes SRB_STATUS_NO_DEVICE and drops the LU extension once no
\* other SRB for the address is in progress.
DropLogicalUnit(s) ==
  /\ srb[s] = "noDevice"
  /\ IF \E r \in SrbThreads \ {s} : at[r] = at[s]
     THEN UNCHANGED <<luPresent, luDevice>>
     ELSE /\ luPresent' = luPresent \ {at[s]}
          /\ luDevice' = [luDevice EXCEPT ![at[s]] = 0]
  /\ SrbDone(s)
  /\ UNCHANGED <<rescan, ioctlVars, tableVars, memoryVars, deviceVars,
                 bugcheck>>

\* What OsrUserDeleteLocalInformation frees: the inquiry data and the local
\* info, and through ConnectionInformation the disk and the list entry.
FreedWith(d) ==
  {<<"inquiry", d>>, <<"local", d>>}
    \cup IF d \in initialised THEN {<<"disk", d>>, <<"entry", d>>} ELSE {}

\* The DeleteDevicesThread wakes up and deletes a device that was reported
\* missing.  It is given credit for waiting until no I/O is outstanding.
DeleteDevice(d) ==
  /\ workEvent
  /\ d \in reported
  /\ outstanding[d] = 0
  /\ deviceList' = deviceList \ {d}
  /\ missing' = missing \ {d}
  /\ reported' = reported \ {d}
  /\ workEvent' = (reported # {d})
  /\ heap' = heap \ FreedWith(d)
  /\ UNCHANGED <<outstanding, address, handle, initialised, ioctlVars,
                 tableVars, portVars, srbVars, bugcheck>>

-----------------------------------------------------------------------------
IoctlStep(t) ==
  \/ CheckName(t)
  \/ AllocEntry(t)
  \/ AllocEntryFails(t)
  \/ AllocResources(t)
  \/ AllocResourcesFails(t)
  \/ AllocLocalFails(t)
  \/ CreateScsiDevice(t)
  \/ CreateScsiDeviceFails(t)
  \/ Publish(t)
  \/ PublishFails(t)
  \/ CleanupAfterError(t)
  \/ FindToDelete(t)
  \/ CheckRemovable(t)
  \/ CheckRemovableFaults(t)
  \/ MarkMissing(t)
  \/ Unlink(t)

SrbStep(s) ==
  \/ FindNothing(s)
  \/ FindDevice(s)
  \/ FindMissing(s)
  \/ Increment(s)
  \/ LocalInfoGone(s)
  \/ UseFreedFaults(s)
  \/ HandleSrb(s)
  \/ DropLogicalUnit(s)

Running ==
  /\ ~bugcheck
  /\ \/ \E t \in IoctlThreads, name \in Names :
          Connect(t, name) \/ Disconnect(t, name)
     \/ \E t \in IoctlThreads : Acquire(t) \/ IoctlStep(t)
     \/ \E s \in SrbThreads, a \in Addresses : StartSrb(s, a) \/ ScanBus(s, a)
     \/ \E s \in SrbThreads : SrbStep(s)
     \/ \E d \in Connections : DeleteDevice(d)
     \/ Rescan

Stopped == bugcheck /\ UNCHANGED vars

Next == Running \/ Stopped

Spec == Init /\ [][Next]_vars
(***************************************************************************)
(* Fairness.  A thread that can run gets to run: IOCTL threads and SRB     *)
(* processors take their next step, the DeleteDevicesThread deletes what   *)
(* was reported, StorPort ends the scan the driver asked for.  A kernel    *)
(* mutex serves its waiters in turn, which is strong fairness of Acquire.  *)
(* Nobody has to connect, disconnect, read a disk or ask for another scan: *)
(* Rescan is not fair.                                                     *)
(***************************************************************************)
Fairness ==
  /\ \A t \in IoctlThreads :
       /\ SF_vars(~bugcheck /\ Acquire(t))
       /\ WF_vars(~bugcheck /\ IoctlStep(t))
  /\ \A s \in SrbThreads : WF_vars(~bugcheck /\ SrbStep(s))
  /\ \A a \in Addresses :
       SF_vars(~bugcheck /\ \E s \in SrbThreads : ScanBus(s, a))
  /\ \A d \in Connections : WF_vars(~bugcheck /\ DeleteDevice(d))

FairSpec == Spec /\ Fairness

-----------------------------------------------------------------------------
(* The disks as DiskService sees them.                                     *)

OwnerOf(name) ==
  IF ConnectionMatch(name) = {} THEN 0
  ELSE CHOOSE c \in ConnectionMatch(name) : TRUE

Present == deviceList \ missing

PhaseOf(c) ==
  CASE c \in missing                                 -> "missing"
    [] c \in Present \cap published                  -> "connected"
    [] c \in (Present \cap connectionList) \ published
                                                     -> "visible"
    [] c \in Present \ (connectionList \cup published)
                                                     -> "orphan"
    [] c \in handle \ deviceList                     -> "deleted"
    [] c > created                                   -> "none"
    [] OTHER                                         -> "reserved"

\* The device an SRB has, if the SRB is where state says, else 0.
DeviceIn(state, s) == IF srb[s] = state THEN dev[s] ELSE 0

Service == INSTANCE DiskService WITH
  Disks <- Connections,
  Requests <- SrbThreads,
  owner <- [name \in Names |-> OwnerOf(name)],
  phase <- [c \in Connections |-> PhaseOf(c)],
  found <- [s \in SrbThreads |-> DeviceIn("increment", s)],
  serving <- [s \in SrbThreads |-> DeviceIn("handle", s)]

\* The miniport implements the disk service: a name has one owner, a disk
\* moves through its life once and in order, a disk that has left is never
\* found again, its name is free only after it left or as its CONNECT fails,
\* and a disk is not deleted while it serves a request.  A request may still
\* begin on a disk that was deleted since it was found.
ImplementsDiskService == Service!Spec

-----------------------------------------------------------------------------
\* No two entries of the connection list have the same instance name: the
\* look-ups of two concurrent CONNECTs cannot both miss the other's entry.
UniqueNames ==
  \A c, d \in connectionList : instanceName[c] = instanceName[d] => c = d

\* ConnectionCount is the number of connected entries of the list, whatever
\* fails on the way of a CONNECT and however DISCONNECTs interleave.
CountIsConnected == connectionCount = Cardinality(connectionList \cap published)

\* An entry that DeleteConnection finds has its local info: OSRASSERT(PIInfo)
\* holds although CreateConnection lists the entry long before it sets PIInfo.
FoundEntryHasLocalInfo ==
  \A t \in IoctlThreads :
    ioctl[t] \in {"removable", "mark", "unlink"} => cur[t] \in published

\* OutstandingIoCount of a device is the number of SRBs being handled on it.
InFlight(d) == {s \in SrbThreads : srb[s] = "handle" /\ dev[s] = d}

OutstandingIsInFlight ==
  \A d \in deviceList : outstanding[d] = Cardinality(InFlight(d))

\* No step frees what an SRB that is being handled uses: not its device, not
\* the inquiry data, local info, disk or entry, if they were still there when
\* the SRB was counted.  The one exception is the entry of a CONNECT that
\* fails after it has made its device, which is freed under the SRB.
NothingFreedInUse ==
  [][\A s \in SrbThreads : srb[s] = "handle" /\ srb'[s] = "handle" =>
       /\ dev[s] \in deviceList => dev[s] \in deviceList'
       /\ \A kind \in Kinds : <<kind, dev[s]>> \in heap =>
            \/ <<kind, dev[s]>> \in heap'
            \/ kind = "entry" /\ dev[s] \notin Fitting]_vars

\* An SRB meets a device without ConnectionInformation only while the
\* CONNECT that made the device is between OsrSPCreateScsiDevice and the
\* assignment of ConnectionInformation.
UninitialisedOnlyInConnect ==
  \A s \in SrbThreads :
    srb[s] = "handle" /\ dev[s] \notin initialised =>
      \E t \in IoctlThreads : ioctl[t] = "publish" /\ cur[t] = dev[s]

\* An entry of the connection list is freed memory only between the moment
\* its DISCONNECT marked the device missing and its removal from the list.
ListedEntryAllocated ==
  \A c \in connectionList :
    \/ <<"entry", c>> \in heap
    \/ \E t \in IoctlThreads : ioctl[t] = "unlink" /\ cur[t] = c

\* A device on bus 0 shares its address with no other device that is present:
\* its SCSI id is not given out again before it is missing.
AddressNotShared ==
  \A d, e \in deviceList \ missing :
    d # e /\ address[d].bus = 0 => address[d] # address[e]

\* Nothing of a connection is left behind once its device was deleted.
DeletedDeviceFreed ==
  \A c \in handle \ deviceList : heap \cap (Kinds \X {c}) = {}

\* Every request returns to its caller, unless the system stops.
RequestsReturn ==
  \A t \in IoctlThreads : ioctl[t] # "idle" ~> (ioctl[t] = "idle" \/ bugcheck)

\* A missing device that a scan is still to look for is deleted in the end,
\* unless an older device of the same address stands before it in the list.
MissingDeleted ==
  \A d \in Connections :
    (d \in missing /\ address[d] \in rescan /\ IsFirstAt(d, address[d]))
      ~> (d \notin deviceList \/ bugcheck)

\* A connected disk that a scan is still to look for is found there in the
\* end, unless it goes missing.  One that stands behind an older device of
\* its address need not be: the scan meets that device.
ConnectedDiskFound ==
  \A d \in Connections :
    (/\ d \in published \cap deviceList
     /\ address[d] \in rescan
     /\ IsFirstAt(d, address[d]))
      ~> \/ bugcheck
         \/ d \notin deviceList \ missing
         \/ luDevice[address[d]] = d

\* OSRASSERT(!pOsrDevice->OutstandingIoCount) of OsrSPSetDeviceRemovable.
NoOutstandingWhenMarked ==
  \A t \in IoctlThreads : ioctl[t] = "mark" => outstanding[cur[t]] = 0

\* USER_INSTANCE_VALID(pIInfo) of OsrUserHandleSrb: the local info is there
\* when an SRB is handled.
LocalInfoValid ==
  \A s \in SrbThreads : srb[s] = "handle" => <<"local", dev[s]>> \in heap
=============================================================================
