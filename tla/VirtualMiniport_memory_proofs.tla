-------------------- MODULE VirtualMiniport_memory_proofs -------------------
(***************************************************************************)
(* Theorems about the connection table, the device list and the memory of  *)
(* VirtualMiniport.  They rest on mutual exclusion: an IOCTL thread that   *)
(* holds ConnectionMutex is the only one in the middle of a CONNECT or a   *)
(* DISCONNECT, so what the invariants say of such threads is said of it.   *)
(***************************************************************************)
EXTENDS VirtualMiniport_proofs

\* Where a thread works on an entry that is not, or is, connected.
Connecting == {"resources", "device", "publish", "cleanup"}
Deleting == {"removable", "mark", "unlink"}

LEMMA OneAtWork ==
  ASSUME TypeInv, MutexInv, NEW t \in IoctlThreads, IoctlStep(t)
  PROVE  \A u \in IoctlThreads \ {t} :
           ioctl[u] \notin Locked /\ ioctl'[u] = ioctl[u] /\ cur'[u] = cur[u]
<1> USE DEF TypeInv, TypeOK, GoTo, Return
<1>1. ioctl[t] \in Locked
  BY DEF Locked, IoctlStates, IoctlStep, CheckName, AllocEntry, AllocEntryFails,
     AllocResources, AllocResourcesFails, AllocLocalFails, CreateScsiDevice,
     CreateScsiDeviceFails, Publish, PublishFails, CleanupAfterError,
     FindToDelete, CheckRemovable, CheckRemovableFaults, MarkMissing, Unlink
<1>2. \A u \in IoctlThreads \ {t} : ioctl[u] \notin Locked
  BY <1>1 DEF MutexInv
<1>3. \A u \in IoctlThreads \ {t} : ioctl'[u] = ioctl[u] /\ cur'[u] = cur[u]
  <2>1. CASE CheckName(t) \/ AllocEntryFails(t) \/ FindToDelete(t)
    BY <2>1 DEF CheckName, AllocEntryFails, FindToDelete
  <2>2. CASE AllocEntry(t)
    BY <2>2 DEF AllocEntry
  <2>3. CASE AllocResources(t) \/ AllocResourcesFails(t) \/ AllocLocalFails(t)
    BY <2>3 DEF AllocResources, AllocResourcesFails, AllocLocalFails
  <2>4. CASE CreateScsiDevice(t) \/ CreateScsiDeviceFails(t)
    BY <2>4 DEF CreateScsiDevice, CreateScsiDeviceFails
  <2>5. CASE Publish(t) \/ PublishFails(t) \/ CleanupAfterError(t)
    BY <2>5 DEF Publish, PublishFails, CleanupAfterError
  <2>6. CASE CheckRemovable(t) \/ CheckRemovableFaults(t)
    BY <2>6 DEF CheckRemovable, CheckRemovableFaults, ioctlVars
  <2>7. CASE MarkMissing(t) \/ Unlink(t)
    BY <2>7 DEF MarkMissing, Unlink
  <2> QED
    BY <2>1, <2>2, <2>3, <2>4, <2>5, <2>6, <2>7 DEF IoctlStep
<1> QED
  BY <1>2, <1>3

LEMMA OutsideFrame ==
  ASSUME NEW t \in IoctlThreads,
         Acquire(t) \/ \E name \in Names : Connect(t, name) \/ Disconnect(t, name)
  PROVE  UNCHANGED <<cur, tableVars, memoryVars, deviceList, missing>>
BY DEF Acquire, Connect, Disconnect, Request, deviceVars

\* Outside of IoctlStep a thread is before or after its work.
LEMMA OutsideStates ==
  ASSUME TypeInv, NEW t \in IoctlThreads,
         Acquire(t) \/ \E name \in Names : Connect(t, name) \/ Disconnect(t, name)
  PROVE  /\ \A u \in IoctlThreads \ {t} : ioctl'[u] = ioctl[u]
         /\ {ioctl[t], ioctl'[t]} \subseteq
              {"idle", "connectWait", "disconnectWait", "check", "find"}
<1> USE DEF TypeInv, TypeOK, GoTo
<1>1. CASE Acquire(t)
  BY <1>1 DEF Acquire
<1>2. ASSUME NEW name \in Names, Connect(t, name) \/ Disconnect(t, name)
      PROVE  /\ \A u \in IoctlThreads \ {t} : ioctl'[u] = ioctl[u]
             /\ {ioctl[t], ioctl'[t]} \subseteq
                  {"idle", "connectWait", "disconnectWait", "check", "find"}
  BY <1>2 DEF Connect, Disconnect, Request
<1> QED
  BY <1>1, <1>2

(***************************************************************************)
(* The connection list.  An entry is numbered once, is on the list without *)
(* its local info only while its CONNECT is at work, and is taken off by   *)
(* its CONNECT or by one DISCONNECT.                                       *)
(***************************************************************************)
EntryInv ==
  /\ \A c \in connectionList \cup published : c <= created
  /\ \A c \in connectionList \ published :
       \E t \in IoctlThreads : ioctl[t] \in Connecting /\ cur[t] = c
  /\ \A t \in IoctlThreads :
       /\ ioctl[t] \in Connecting => cur[t] \in connectionList \ published
       /\ ioctl[t] \in Deleting => cur[t] \in connectionList \cap published

LEMMA InitEntryInv == Init => EntryInv
BY DEF Init, EntryInv, Connecting, Deleting

LEMMA NextEntryInv == TypeInv /\ MutexInv /\ EntryInv /\ [Next]_vars => EntryInv'
<1> SUFFICES ASSUME TypeInv, MutexInv, EntryInv, [Next]_vars PROVE EntryInv'
  OBVIOUS
<1>1. ASSUME NEW t \in IoctlThreads, IoctlSide(t) PROVE EntryInv'
  <2>1. CASE Acquire(t) \/ \E name \in Names : Connect(t, name) \/ Disconnect(t, name)
    BY <2>1, OutsideFrame, OutsideStates
       DEF EntryInv, Connecting, Deleting, tableVars
  <2>2. ASSUME IoctlStep(t) PROVE EntryInv'
    <3>0. \A u \in IoctlThreads \ {t} :
            ioctl[u] \notin Locked /\ ioctl'[u] = ioctl[u] /\ cur'[u] = cur[u]
      BY <2>2, OneAtWork
    <3>a. ASSUME UNCHANGED <<created, connectionList, published>>,
                 ioctl[t] \in Connecting =>
                   ioctl'[t] \in Connecting /\ cur'[t] = cur[t],
                 ioctl'[t] \in Connecting =>
                   cur'[t] \in connectionList \ published,
                 ioctl'[t] \in Deleting =>
                   cur'[t] \in connectionList \cap published
          PROVE  EntryInv'
      BY <3>0, <3>a DEF EntryInv
    <3>b. ASSUME ioctl'[t] = "idle", ioctl[t] \in Connecting \cup Deleting,
                 created' = created, published' \in {published, published \cup {cur[t]}},
                 connectionList' \in {connectionList, connectionList \ {cur[t]}},
                 cur[t] \in connectionList' => cur[t] \in published'
          PROVE  EntryInv'
      <4>1. \A u \in IoctlThreads : ioctl'[u] \notin Connecting \cup Deleting
        BY <3>0, <3>b DEF Connecting, Deleting, Locked, IoctlStates
      <4>2. \A c \in connectionList \ published : c = cur[t]
        BY <3>0 DEF EntryInv, Connecting, Locked, IoctlStates
      <4>3. cur[t] \in connectionList
        BY <3>b DEF EntryInv
      <4> QED
        BY <3>b, <4>1, <4>2, <4>3 DEF EntryInv
    <3> USE DEF TypeInv, TypeOK, GoTo, Return, tableVars
    <3>1. CASE CheckName(t) \/ AllocEntryFails(t)
      BY <3>1, <3>a DEF CheckName, AllocEntryFails, Connecting, Deleting
    <3>2. CASE AllocEntry(t)
      <4> DEFINE c == created + 1
      <4>1. /\ created' = c /\ connectionList' = connectionList \cup {c}
            /\ published' = published /\ cur'[t] = c /\ ioctl'[t] = "resources"
            /\ created \in Nat /\ ioctl[t] = "alloc"
        BY <3>2, VirtualMiniportAssumption DEF AllocEntry, Connections
      <4>2. connectionList \subseteq Nat /\ published \subseteq Nat
        BY DEF Connections
      <4> HIDE DEF TypeInv, TypeOK
      <4>3. \A u \in IoctlThreads \ {t} : ioctl'[u] \notin Connecting \cup Deleting
        BY <3>0 DEF Connecting, Deleting, Locked, IoctlStates
      <4>4. connectionList \subseteq published
        BY <3>0, <4>1 DEF EntryInv, Connecting, Locked, IoctlStates
      <4>5. c \notin published
        BY <4>1, <4>2 DEF EntryInv
      <4>6. \A x \in (connectionList \cup published)' : x <= created'
        BY <4>1, <4>2 DEF EntryInv
      <4>7. \A x \in (connectionList \ published)' : x = cur'[t]
        BY <4>1, <4>4
      <4>8. cur'[t] \in (connectionList \ published)'
        BY <4>1, <4>5
      <4>9. ioctl'[t] \in Connecting \ Deleting
        BY <4>1 DEF Connecting, Deleting
      <4> QED
        BY <4>3, <4>6, <4>7, <4>8, <4>9 DEF EntryInv
    <3>3. CASE AllocResources(t) \/ AllocResourcesFails(t) \/ AllocLocalFails(t)
      BY <3>3, <3>a DEF AllocResources, AllocResourcesFails, AllocLocalFails,
         EntryInv, Connecting, Deleting
    <3>4. CASE CreateScsiDevice(t) \/ CreateScsiDeviceFails(t) \/ PublishFails(t)
      BY <3>4, <3>a DEF CreateScsiDevice, CreateScsiDeviceFails, PublishFails,
         EntryInv, Connecting, Deleting
    <3>5. CASE Publish(t)
      BY <3>5, <3>b DEF Publish, Connecting
    <3>6. CASE CleanupAfterError(t)
      BY <3>6, <3>b DEF CleanupAfterError, Connecting
    <3>7. CASE FindToDelete(t)
      <4>1. connectionList \subseteq published
        BY <3>0, <3>7 DEF EntryInv, FindToDelete, Connecting, Locked, IoctlStates
      <4>2. ConnectionMatch(arg[t]) \subseteq connectionList
        BY DEF ConnectionMatch
      <4> QED
        BY <3>7, <3>a, <4>1, <4>2 DEF FindToDelete, Connecting, Deleting
    <3>8. CASE CheckRemovable(t) \/ CheckRemovableFaults(t) \/ MarkMissing(t)
      BY <3>8, <3>a DEF CheckRemovable, CheckRemovableFaults, MarkMissing,
         ioctlVars, EntryInv, Connecting, Deleting
    <3>9. CASE Unlink(t)
      BY <3>9, <3>b DEF Unlink, Deleting
    <3> QED
      BY <2>2, <3>1, <3>2, <3>3, <3>4, <3>5, <3>6, <3>7, <3>8, <3>9
         DEF IoctlStep
  <2> QED
    BY <1>1, <2>1, <2>2 DEF IoctlSide
<1> USE DEF EntryInv, ioctlVars, tableVars
<1>2. ASSUME NEW s \in SrbThreads, SrbSide(s) PROVE EntryInv'
  BY <1>2, SrbSideFrame
<1>3. ASSUME NEW d \in Connections, DeleteDevice(d) PROVE EntryInv'
  BY <1>3 DEF DeleteDevice
<1>4. CASE Rescan \/ UNCHANGED vars
  BY <1>4 DEF Rescan, vars
<1> QED
  BY <1>1, <1>2, <1>3, <1>4, NextSides

TableInv == TypeInv /\ MutexInv /\ EntryInv

LEMMA InitTableInv == Init => TableInv
BY InitTypeInv, InitNamesInv, InitEntryInv DEF TableInv, NamesInv

LEMMA NextTableInv == TableInv /\ [Next]_vars => TableInv'
BY NextTypeInv, NextMutexInv, NextEntryInv DEF TableInv

\* A DISCONNECT never works on an entry whose local info its CONNECT has not
\* set: OSRASSERT(PIInfo) of DeleteConnection holds.
THEOREM LocalInfoOfFoundEntry == Spec => []FoundEntryHasLocalInfo
<1>1. TableInv => FoundEntryHasLocalInfo
  BY DEF TableInv, EntryInv, Deleting, FoundEntryHasLocalInfo
<1> QED
  BY <1>1, InitTableInv, NextTableInv, PTL DEF Spec

(***************************************************************************)
(* ConnectionCount.                                                        *)
(***************************************************************************)
LEMMA ConnectedFinite ==
  ASSUME TypeInv
  PROVE  /\ IsFiniteSet(connectionList \cap published)
         /\ Cardinality(connectionList \cap published) \in Nat
<1>1. IsFiniteSet(Connections)
  BY VirtualMiniportAssumption, FS_Interval DEF Connections
<1>2. (connectionList \cap published) \subseteq Connections
  BY DEF TypeInv, TypeOK
<1> QED
  BY <1>1, <1>2, FS_Subset, FS_CardinalityType

LEMMA InitCount == Init => CountIsConnected
<1> SUFFICES ASSUME Init PROVE CountIsConnected
  OBVIOUS
<1>1. connectionList \cap published = {} /\ connectionCount = 0
  BY DEF Init
<1> QED
  BY <1>1, FS_EmptySet DEF CountIsConnected

LEMMA NextCount == TableInv /\ CountIsConnected /\ [Next]_vars => CountIsConnected'
<1> SUFFICES ASSUME TableInv, CountIsConnected, [Next]_vars
             PROVE  CountIsConnected'
  OBVIOUS
<1> USE DEF tableVars
<1>1. ASSUME UNCHANGED <<connectionCount, connectionList \cap published>>
      PROVE  CountIsConnected'
  BY <1>1 DEF CountIsConnected
<1>2. ASSUME NEW t \in IoctlThreads, IoctlSide(t) PROVE CountIsConnected'
  <2>1. CASE Acquire(t) \/ \E name \in Names : Connect(t, name) \/ Disconnect(t, name)
    BY <1>1, <2>1, OutsideFrame
  <2>2. CASE CheckName(t) \/ AllocEntryFails(t)
    BY <1>1, <2>2 DEF CheckName, AllocEntryFails
  <2>3. CASE AllocEntry(t)
    <3>1. published' = published /\ connectionCount' = connectionCount
      BY <2>3 DEF AllocEntry
    <3>2. connectionList' = connectionList \cup {created + 1}
      BY <2>3 DEF AllocEntry
    <3>3. created \in Nat
      BY VirtualMiniportAssumption DEF TableInv, TypeInv, TypeOK, Connections
    <3>4. created + 1 \notin published
      BY <3>3 DEF TableInv, EntryInv
    <3> QED
      BY <1>1, <3>1, <3>2, <3>4
  <2>4. CASE AllocResources(t) \/ AllocResourcesFails(t) \/ AllocLocalFails(t)
    BY <1>1, <2>4 DEF AllocResources, AllocResourcesFails, AllocLocalFails
  <2>5. CASE CreateScsiDevice(t) \/ CreateScsiDeviceFails(t) \/ PublishFails(t)
    BY <1>1, <2>5 DEF CreateScsiDevice, CreateScsiDeviceFails, PublishFails
  <2>6. CASE Publish(t)
    <3> DEFINE S == connectionList \cap published
    <3>1. cur[t] \in connectionList \ published
      BY <2>6 DEF Publish, TableInv, EntryInv, Connecting
    <3>2. (connectionList \cap published)' = S \cup {cur[t]}
      BY <2>6, <3>1 DEF Publish
    <3>3. Cardinality(S \cup {cur[t]}) = Cardinality(S) + 1
      BY <3>1, ConnectedFinite, FS_AddElement DEF TableInv
    <3> QED
      BY <2>6, <3>2, <3>3 DEF Publish, CountIsConnected
  <2>7. CASE CleanupAfterError(t)
    <3>1. cur[t] \notin published
      BY <2>7 DEF CleanupAfterError, TableInv, EntryInv, Connecting
    <3> QED
      BY <1>1, <2>7, <3>1 DEF CleanupAfterError
  <2>8. CASE FindToDelete(t) \/ CheckRemovable(t) \/ CheckRemovableFaults(t)
               \/ MarkMissing(t)
    BY <1>1, <2>8 DEF FindToDelete, CheckRemovable, CheckRemovableFaults, MarkMissing
  <2>9. CASE Unlink(t)
    <3> DEFINE S == connectionList \cap published
    <3>1. cur[t] \in S
      BY <2>9 DEF Unlink, TableInv, EntryInv, Deleting
    <3>2. (connectionList \cap published)' = S \ {cur[t]}
      BY <2>9 DEF Unlink
    <3>3. Cardinality(S \ {cur[t]}) = Cardinality(S) - 1
      BY <3>1, ConnectedFinite, FS_RemoveElement DEF TableInv
    <3> QED
      BY <2>9, <3>2, <3>3 DEF Unlink, CountIsConnected
  <2> QED
    BY <1>2, <2>1, <2>2, <2>3, <2>4, <2>5, <2>6, <2>7, <2>8, <2>9
       DEF IoctlSide, IoctlStep
<1>3. ASSUME NEW s \in SrbThreads, SrbSide(s) PROVE CountIsConnected'
  BY <1>1, <1>3, SrbSideFrame
<1>4. ASSUME NEW d \in Connections, DeleteDevice(d) PROVE CountIsConnected'
  BY <1>1, <1>4 DEF DeleteDevice
<1>5. CASE Rescan \/ UNCHANGED vars
  BY <1>1, <1>5 DEF Rescan, vars
<1> QED
  BY <1>2, <1>3, <1>4, <1>5, NextSides

\* ConnectionCount is the number of connected entries, whatever fails on the
\* way of a CONNECT and however DISCONNECTs interleave.
THEOREM CountCorrect == Spec => []CountIsConnected
<1>1. Init => TableInv /\ CountIsConnected
  BY InitTableInv, InitCount
<1>2. TableInv /\ CountIsConnected /\ [Next]_vars => (TableInv /\ CountIsConnected)'
  BY NextTableInv, NextCount
<1> QED
  BY <1>1, <1>2, PTL DEF Spec

(***************************************************************************)
(* The device list.  A device comes with its CONNECT, is initialised when  *)
(* its CONNECT leaves "publish", and goes missing by its DISCONNECT.       *)
(***************************************************************************)
Unlinking(c) == \E t \in IoctlThreads : ioctl[t] = "unlink" /\ cur[t] = c

DeviceSets ==
  /\ deviceList \subseteq handle
  /\ \A d \in handle : d <= created
  /\ published \cup missing \subseteq initialised

ThreadDevice ==
  \A t \in IoctlThreads :
    /\ ioctl[t] \in {"resources", "device"} => cur[t] \notin handle
    /\ cur[t] \in Fitting /\ ioctl[t] = "cleanup" => cur[t] \notin handle
    /\ ioctl[t] \in {"mark", "unlink"} => cur[t] \in handle

InConnect ==
  \A d \in handle \ initialised :
    \E t \in IoctlThreads : ioctl[t] = "publish" /\ cur[t] = d

ListedDevice ==
  /\ \A c \in connectionList \cap missing : Unlinking(c)
  /\ \A c \in connectionList \cap handle : c \in deviceList \/ Unlinking(c)

DeviceInv == DeviceSets /\ ThreadDevice /\ InConnect /\ ListedDevice

LEMMA InitDeviceInv == Init => DeviceInv
BY DEF Init, DeviceInv, DeviceSets, ThreadDevice, InConnect, ListedDevice

LEMMA NextDeviceInv == TableInv /\ DeviceInv /\ [Next]_vars => DeviceInv'
<1> SUFFICES ASSUME TableInv, DeviceInv, [Next]_vars PROVE DeviceInv'
  OBVIOUS
<1> USE DEF DeviceInv, tableVars, memoryVars
<1>1. ASSUME NEW t \in IoctlThreads, IoctlSide(t) PROVE DeviceInv'
  <2>1. CASE Acquire(t) \/ \E name \in Names : Connect(t, name) \/ Disconnect(t, name)
    <3>1. /\ \A u \in IoctlThreads \ {t} : ioctl'[u] = ioctl[u]
          /\ {ioctl[t], ioctl'[t]} \subseteq
               {"idle", "connectWait", "disconnectWait", "check", "find"}
      BY <2>1, OutsideStates DEF TableInv
    <3>2. UNCHANGED <<cur, tableVars, memoryVars, deviceList, missing>>
      BY <2>1, OutsideFrame
    <3> QED
      BY <3>1, <3>2 DEF DeviceSets, ThreadDevice, InConnect, ListedDevice, Unlinking
  <2>2. ASSUME IoctlStep(t) PROVE DeviceInv'
    <3>0. \A u \in IoctlThreads \ {t} :
            /\ ioctl[u] \notin Locked
            /\ ioctl'[u] = ioctl[u] /\ cur'[u] = cur[u]
      BY <2>2, OneAtWork DEF TableInv
    <3> USE DEF Locked, IoctlStates, GoTo, Return
    <3>t. ioctl \in [IoctlThreads -> IoctlStates] /\ DOMAIN cur = IoctlThreads
      BY DEF TableInv, TypeInv, TypeOK
    <3>s. UNCHANGED <<created, deviceList, missing, handle, initialised,
                      published>> => DeviceSets'
      BY DEF DeviceSets
    <3>i. ASSUME UNCHANGED <<handle, initialised>>, ioctl[t] # "publish"
          PROVE  InConnect'
      BY <3>0, <3>i DEF InConnect
    <3>l. ASSUME UNCHANGED <<missing, deviceList, handle>>,
                 connectionList' \subseteq connectionList, ioctl[t] # "unlink"
          PROVE  ListedDevice'
      BY <3>0, <3>l DEF ListedDevice, Unlinking
    <3>1. CASE CheckName(t) \/ AllocEntryFails(t) \/ FindToDelete(t)
      <4>1. ThreadDevice'
        BY <3>0, <3>1, <3>t DEF CheckName, AllocEntryFails, FindToDelete, ThreadDevice
      <4> QED
        BY <3>1, <3>s, <3>i, <3>l, <4>1
           DEF CheckName, AllocEntryFails, FindToDelete, deviceVars
    <3>2. CASE AllocEntry(t)
      <4> DEFINE c == created + 1
      <4>1. /\ created' = c /\ created \in Nat
            /\ connectionList' = connectionList \cup {c}
            /\ UNCHANGED <<deviceList, missing, handle, initialised, published>>
            /\ ioctl[t] = "alloc" /\ ioctl'[t] = "resources" /\ cur'[t] = c
        BY <3>2, VirtualMiniportAssumption
           DEF AllocEntry, TableInv, TypeInv, TypeOK, Connections, deviceVars
      <4>2. c \notin handle /\ c \notin missing
        BY <4>1 DEF DeviceSets, TableInv, TypeInv, TypeOK, Connections
      <4>3. DeviceSets'
        <5>1. handle \subseteq Nat
          BY DEF TableInv, TypeInv, TypeOK, Connections
        <5> QED
          BY <4>1, <5>1 DEF DeviceSets
      <4>4. ThreadDevice'
        BY <3>0, <4>1, <4>2 DEF ThreadDevice
      <4>5. InConnect'
        BY <3>i, <4>1
      <4>6. ListedDevice'
        BY <3>0, <4>1, <4>2 DEF ListedDevice, Unlinking
      <4> QED
        BY <4>3, <4>4, <4>5, <4>6
    <3>3. CASE AllocResources(t) \/ AllocResourcesFails(t) \/ AllocLocalFails(t)
      <4>1. ThreadDevice'
        BY <3>0, <3>3, <3>t
           DEF AllocResources, AllocResourcesFails, AllocLocalFails, ThreadDevice
      <4> QED
        BY <3>3, <3>s, <3>i, <3>l, <4>1
           DEF AllocResources, AllocResourcesFails, AllocLocalFails, deviceVars
    <3>4. CASE CreateScsiDevice(t)
      <4>1. /\ UNCHANGED <<created, connectionList, missing, initialised, published>>
            /\ deviceList' = deviceList \cup {cur[t]}
            /\ handle' = handle \cup {cur[t]}
            /\ ioctl'[t] = "publish" /\ cur'[t] = cur[t]
            /\ ioctl[t] = "device"
        BY <3>4, <3>t DEF CreateScsiDevice
      <4>2. cur[t] \in connectionList /\ cur[t] <= created
        BY <4>1 DEF TableInv, EntryInv, Connecting
      <4>3. DeviceSets'
        BY <4>1, <4>2 DEF DeviceSets
      <4>4. ThreadDevice'
        BY <3>0, <4>1 DEF ThreadDevice
      <4>5. InConnect'
        BY <3>0, <4>1 DEF InConnect
      <4>6. ListedDevice'
        BY <3>0, <4>1 DEF ListedDevice, Unlinking
      <4> QED
        BY <4>3, <4>4, <4>5, <4>6
    <3>5. CASE CreateScsiDeviceFails(t)
      <4>1. ThreadDevice'
        BY <3>0, <3>5, <3>t DEF CreateScsiDeviceFails, ThreadDevice
      <4> QED
        BY <3>5, <3>s, <3>i, <3>l, <4>1 DEF CreateScsiDeviceFails, deviceVars
    <3>6. CASE Publish(t) \/ PublishFails(t)
      <4>1. /\ UNCHANGED <<created, connectionList, deviceList, missing, handle>>
            /\ initialised' = initialised \cup {cur[t]}
            /\ published' \subseteq published \cup {cur[t]}
            /\ ioctl[t] = "publish" /\ ioctl'[t] \in {"idle", "cleanup"}
            /\ ioctl'[t] = "cleanup" => cur'[t] \notin Fitting
        BY <3>6, <3>t DEF Publish, PublishFails, deviceVars
      <4>3. DeviceSets'
        BY <4>1 DEF DeviceSets
      <4>4. ThreadDevice'
        BY <3>0, <4>1 DEF ThreadDevice
      <4>5. InConnect'
        BY <3>0, <4>1 DEF InConnect
      <4> QED
        BY <3>l, <4>1, <4>3, <4>4, <4>5
    <3>7. CASE CleanupAfterError(t)
      <4>1. ThreadDevice'
        BY <3>0, <3>7, <3>t DEF CleanupAfterError, ThreadDevice
      <4> QED
        BY <3>7, <3>s, <3>i, <3>l, <4>1 DEF CleanupAfterError, deviceVars
    <3>8. CASE CheckRemovable(t) \/ CheckRemovableFaults(t)
      <4>1. ThreadDevice'
        BY <3>0, <3>8, <3>t
           DEF CheckRemovable, CheckRemovableFaults, ThreadDevice, ioctlVars
      <4> QED
        BY <3>8, <3>s, <3>i, <3>l, <4>1
           DEF CheckRemovable, CheckRemovableFaults, deviceVars
    <3>9. CASE MarkMissing(t)
      <4>1. /\ UNCHANGED <<created, connectionList, published, initialised,
                           deviceList, handle>>
            /\ missing' = missing \cup ({cur[t]} \cap deviceList)
            /\ ioctl[t] = "mark" /\ ioctl'[t] = "unlink" /\ cur'[t] = cur[t]
        BY <3>9, <3>t DEF MarkMissing
      <4>2. cur[t] \in published
        BY <4>1 DEF TableInv, EntryInv, Deleting
      <4>3. DeviceSets'
        BY <4>1, <4>2 DEF DeviceSets
      <4>4. ThreadDevice'
        BY <3>0, <4>1 DEF ThreadDevice
      <4>5. ListedDevice'
        BY <3>0, <4>1 DEF ListedDevice, Unlinking
      <4> QED
        BY <3>i, <4>1, <4>3, <4>4, <4>5
    <3>10. CASE Unlink(t)
      <4>1. /\ UNCHANGED <<created, published, initialised, deviceList, handle,
                           missing>>
            /\ connectionList' = connectionList \ {cur[t]}
            /\ ioctl[t] = "unlink" /\ ioctl'[t] = "idle"
        BY <3>10, <3>t DEF Unlink, deviceVars
      <4>2. ThreadDevice'
        BY <3>0, <4>1 DEF ThreadDevice
      <4>3. ListedDevice'
        BY <3>0, <4>1 DEF ListedDevice, Unlinking
      <4> QED
        BY <3>s, <3>i, <4>1, <4>2, <4>3
    <3> QED
      BY <2>2, <3>1, <3>2, <3>3, <3>4, <3>5, <3>6, <3>7, <3>8, <3>9, <3>10
         DEF IoctlStep
  <2> QED
    BY <1>1, <2>1, <2>2 DEF IoctlSide
<1> USE DEF DeviceSets, ThreadDevice, InConnect, ListedDevice, Unlinking
<1>2. ASSUME NEW s \in SrbThreads, SrbSide(s) PROVE DeviceInv'
  BY <1>2, SrbSideFrame DEF ioctlVars
<1>3. ASSUME NEW d \in Connections, DeleteDevice(d) PROVE DeviceInv'
  <2>1. /\ UNCHANGED <<ioctlVars, tableVars, handle, initialised>>
        /\ deviceList' = deviceList \ {d} /\ missing' = missing \ {d}
        /\ d \in missing
    BY <1>3 DEF DeleteDevice, TableInv, TypeInv, TypeOK
  <2> QED
    BY <2>1 DEF ioctlVars
<1>4. CASE Rescan \/ UNCHANGED vars
  BY <1>4 DEF Rescan, vars, deviceVars, ioctlVars
<1> QED
  BY <1>1, <1>2, <1>3, <1>4, NextSides

(***************************************************************************)
(* SRBs and devices.  An SRB has a device that was made.  Whether it is    *)
(* still listed is another matter: until the SRB is counted, the           *)
(* DeleteDevicesThread may take the device off the list and free it.       *)
(***************************************************************************)
DeviceWasMade ==
  \A s \in SrbThreads : srb[s] \in {"increment", "handle"} => dev[s] \in handle

CoreInv == TableInv /\ OutstandingInv /\ DeviceInv /\ DeviceWasMade

LEMMA InitCoreInv == Init => CoreInv
<1>1. Init => DeviceWasMade
  BY DEF Init, DeviceWasMade
<1> QED
  BY <1>1, InitTableInv, InitOutstandingInv, InitDeviceInv DEF CoreInv

LEMMA HandleGrows ==
  ASSUME NEW t \in IoctlThreads, IoctlSide(t)
  PROVE  handle \subseteq handle' /\ deviceList \subseteq deviceList'
<1>1. CASE Acquire(t) \/ \E name \in Names : Connect(t, name) \/ Disconnect(t, name)
  BY <1>1, OutsideFrame DEF memoryVars
<1>2. CASE IoctlStep(t)
  BY <1>2 DEF IoctlStep, CheckName, AllocEntry, AllocEntryFails,
     AllocResources, AllocResourcesFails, AllocLocalFails,
     CreateScsiDevice, CreateScsiDeviceFails, Publish, PublishFails,
     CleanupAfterError, FindToDelete, CheckRemovable,
     CheckRemovableFaults, MarkMissing, Unlink, memoryVars, deviceVars
<1> QED
  BY <1>1, <1>2 DEF IoctlSide

LEMMA NextCoreInv == CoreInv /\ [Next]_vars => CoreInv'
<1> SUFFICES ASSUME CoreInv, [Next]_vars PROVE DeviceWasMade'
  BY NextTableInv, NextOutstandingInv, NextDeviceInv DEF CoreInv, TableInv
<1>1. ASSUME NEW t \in IoctlThreads, IoctlSide(t) PROVE DeviceWasMade'
  BY <1>1, HandleGrows, IoctlSideFrame DEF CoreInv, DeviceWasMade
<1>2. ASSUME NEW s \in SrbThreads, SrbSide(s) PROVE DeviceWasMade'
  <2> USE DEF CoreInv, TableInv, TypeInv, TypeOK, DeviceWasMade, SrbGoTo, SrbDone
  <2>0. handle' = handle
    BY <1>2, SrbSideFrame DEF memoryVars
  <2>1. ASSUME NEW a \in Addresses, StartSrb(s, a) \/ ScanBus(s, a)
        PROVE  DeviceWasMade'
    BY <2>0, <2>1 DEF StartSrb, ScanBus
  <2>2. CASE FindNothing(s) \/ FindMissing(s) \/ LocalInfoGone(s)
    BY <2>0, <2>2 DEF FindNothing, FindMissing, LocalInfoGone
  <2>3. CASE FindDevice(s)
    <3>1. deviceList \subseteq handle
      BY DEF DeviceInv, DeviceSets
    <3> QED
      BY <2>0, <2>3, <3>1 DEF FindDevice
  <2>4. CASE Increment(s)
    BY <2>0, <2>4 DEF Increment
  <2>5. CASE UseFreedFaults(s) \/ HandleSrb(s) \/ DropLogicalUnit(s)
    BY <2>0, <2>5 DEF UseFreedFaults, HandleSrb, DropLogicalUnit, srbVars
  <2> QED
    BY <1>2, <2>1, <2>2, <2>3, <2>4, <2>5 DEF SrbSide, SrbStep
<1>3. ASSUME NEW d \in Connections, DeleteDevice(d) PROVE DeviceWasMade'
  BY <1>3 DEF DeleteDevice, srbVars, CoreInv, DeviceWasMade
<1>4. CASE Rescan \/ UNCHANGED vars
  BY <1>4 DEF Rescan, vars, memoryVars, srbVars, CoreInv, DeviceWasMade
<1> QED
  BY <1>1, <1>2, <1>3, <1>4, NextSides

\* An SRB meets a device without ConnectionInformation only while the CONNECT
\* that made the device has still to set it.
THEOREM UninitialisedInConnect == Spec => []UninitialisedOnlyInConnect
<1>1. CoreInv => UninitialisedOnlyInConnect
  BY DEF CoreInv, DeviceInv, InConnect, DeviceWasMade, UninitialisedOnlyInConnect
<1> QED
  BY <1>1, InitCoreInv, NextCoreInv, PTL DEF Spec

(***************************************************************************)
(* The pool.  A device on the list has its memory, a deleted one has none, *)
(* and an entry on the connection list loses its memory only to the        *)
(* DeleteDevicesThread, while its DISCONNECT is about to take it off.      *)
(***************************************************************************)
DeviceHeap ==
  \A d \in deviceList :
    /\ <<"local", d>> \in heap /\ <<"inquiry", d>> \in heap
    /\ d \in Fitting => <<"disk", d>> \in heap /\ <<"entry", d>> \in heap

ThreadHeap ==
  \A t \in IoctlThreads :
    /\ ioctl[t] = "device" => \A k \in Kinds : <<k, cur[t]>> \in heap
    /\ ioctl[t] = "resources" => <<"entry", cur[t]>> \in heap

NoLeak == \A c \in handle \ deviceList, k \in Kinds : <<k, c>> \notin heap

HeapInv == DeviceHeap /\ ThreadHeap /\ NoLeak /\ ListedEntryAllocated

LEMMA InitHeapInv == Init => HeapInv
BY DEF Init, HeapInv, DeviceHeap, ThreadHeap, NoLeak, ListedEntryAllocated

LEMMA NextHeapInv == CoreInv /\ HeapInv /\ [Next]_vars => HeapInv'
<1> SUFFICES ASSUME CoreInv, HeapInv, [Next]_vars PROVE HeapInv'
  OBVIOUS
<1> USE DEF HeapInv, tableVars, memoryVars
<1>1. ASSUME NEW t \in IoctlThreads, IoctlSide(t) PROVE HeapInv'
  <2>1. CASE Acquire(t) \/ \E name \in Names : Connect(t, name) \/ Disconnect(t, name)
    <3>1. /\ \A u \in IoctlThreads \ {t} : ioctl'[u] = ioctl[u]
          /\ {ioctl[t], ioctl'[t]} \subseteq
               {"idle", "connectWait", "disconnectWait", "check", "find"}
      BY <2>1, OutsideStates DEF CoreInv, TableInv
    <3>2. UNCHANGED <<cur, tableVars, memoryVars, deviceList, missing>>
      BY <2>1, OutsideFrame
    <3> QED
      BY <3>1, <3>2 DEF DeviceHeap, ThreadHeap, NoLeak, ListedEntryAllocated
  <2>2. ASSUME IoctlStep(t) PROVE HeapInv'
    <3>0. \A u \in IoctlThreads \ {t} :
            /\ ioctl[u] \notin Locked
            /\ ioctl'[u] = ioctl[u] /\ cur'[u] = cur[u]
      BY <2>2, OneAtWork DEF CoreInv, TableInv
    <3> USE DEF Locked, IoctlStates, GoTo, Return
    <3>t. ioctl \in [IoctlThreads -> IoctlStates] /\ DOMAIN cur = IoctlThreads
      BY DEF CoreInv, TableInv, TypeInv, TypeOK
    <3>a. ASSUME UNCHANGED <<heap, deviceList, handle>>,
                 connectionList' \subseteq connectionList,
                 ioctl'[t] \notin {"resources", "device"},
                 ioctl[t] = "unlink" => cur[t] \notin connectionList'
          PROVE  HeapInv'
      BY <3>0, <3>a DEF DeviceHeap, ThreadHeap, NoLeak, ListedEntryAllocated
    <3>b. ASSUME UNCHANGED <<connectionList, deviceList, handle>>,
                 ioctl[t] = "resources", cur'[t] = cur[t],
                 heap \subseteq heap', heap' \subseteq heap \cup (Kinds \X {cur[t]}),
                 ioctl'[t] # "resources",
                 ioctl'[t] = "device" => \A k \in Kinds : <<k, cur[t]>> \in heap'
          PROVE  HeapInv'
      <4>1. cur[t] \notin handle
        BY <3>b DEF CoreInv, DeviceInv, ThreadDevice
      <4>2. NoLeak'
        BY <3>b, <4>1 DEF NoLeak
      <4>3. DeviceHeap' /\ ThreadHeap' /\ ListedEntryAllocated'
        BY <3>0, <3>b DEF DeviceHeap, ThreadHeap, ListedEntryAllocated
      <4> QED
        BY <4>2, <4>3
    <3>1. CASE CheckName(t) \/ AllocEntryFails(t) \/ FindToDelete(t)
      BY <3>1, <3>t, <3>a DEF CheckName, AllocEntryFails, FindToDelete, deviceVars
    <3>2. CASE AllocEntry(t)
      <4> DEFINE c == created + 1
      <4>1. /\ connectionList' = connectionList \cup {c}
            /\ heap' = heap \cup {<<"entry", c>>}
            /\ UNCHANGED <<deviceList, handle>>
            /\ ioctl[t] = "alloc" /\ ioctl'[t] = "resources" /\ cur'[t] = c
        BY <3>2, <3>t DEF AllocEntry, deviceVars
      <4>2. c \notin handle
        BY VirtualMiniportAssumption DEF CoreInv, DeviceInv, DeviceSets,
           TableInv, TypeInv, TypeOK, Connections
      <4>3. DeviceHeap'
        BY <4>1 DEF DeviceHeap
      <4>4. ThreadHeap'
        BY <3>0, <4>1 DEF ThreadHeap
      <4>5. NoLeak'
        BY <4>1, <4>2 DEF NoLeak
      <4>6. ListedEntryAllocated'
        BY <3>0, <4>1 DEF ListedEntryAllocated
      <4> QED
        BY <4>3, <4>4, <4>5, <4>6
    <3>3. CASE AllocResources(t)
      <4>1. <<"entry", cur[t]>> \in heap
        BY <3>3 DEF AllocResources, ThreadHeap
      <4>2. heap' = heap \cup ({"disk", "inquiry", "local"} \X {cur[t]})
        BY <3>3 DEF AllocResources
      <4>3. \A k \in Kinds : <<k, cur[t]>> \in heap'
        BY <4>1, <4>2 DEF Kinds
      <4> QED
        BY <3>3, <3>b, <3>t, <4>2, <4>3 DEF AllocResources, deviceVars, Kinds
    <3>4. CASE AllocResourcesFails(t) \/ AllocLocalFails(t)
      BY <3>4, <3>b, <3>t
         DEF AllocResourcesFails, AllocLocalFails, deviceVars, Kinds
    <3>5. CASE CreateScsiDevice(t)
      <4>1. /\ UNCHANGED <<connectionList, heap>>
            /\ deviceList' = deviceList \cup {cur[t]}
            /\ handle' = handle \cup {cur[t]}
            /\ ioctl[t] = "device" /\ ioctl'[t] = "publish" /\ cur'[t] = cur[t]
        BY <3>5, <3>t DEF CreateScsiDevice
      <4>2. \A k \in Kinds : <<k, cur[t]>> \in heap
        BY <4>1 DEF ThreadHeap
      <4>3. DeviceHeap'
        BY <4>1, <4>2 DEF DeviceHeap, Kinds
      <4>4. ThreadHeap' /\ NoLeak' /\ ListedEntryAllocated'
        BY <3>0, <4>1 DEF ThreadHeap, NoLeak, ListedEntryAllocated
      <4> QED
        BY <4>3, <4>4
    <3>6. CASE CreateScsiDeviceFails(t) \/ Publish(t) \/ PublishFails(t)
      BY <3>6, <3>a, <3>t
         DEF CreateScsiDeviceFails, Publish, PublishFails, deviceVars
    <3>7. CASE CleanupAfterError(t)
      <4>1. /\ UNCHANGED <<deviceList, handle>>
            /\ connectionList' = connectionList \ {cur[t]}
            /\ heap' = heap \ {<<"entry", cur[t]>>}
            /\ ioctl[t] = "cleanup" /\ ioctl'[t] = "idle"
        BY <3>7, <3>t DEF CleanupAfterError, deviceVars
      <4>2. cur[t] \in Fitting => cur[t] \notin deviceList
        BY <4>1 DEF CoreInv, DeviceInv, ThreadDevice, DeviceSets
      <4>3. DeviceHeap'
        BY <4>1, <4>2 DEF DeviceHeap
      <4>4. ThreadHeap' /\ NoLeak'
        BY <3>0, <4>1 DEF ThreadHeap, NoLeak
      <4>5. ListedEntryAllocated'
        BY <3>0, <4>1 DEF ListedEntryAllocated
      <4> QED
        BY <4>3, <4>4, <4>5
    <3>8. CASE CheckRemovable(t) \/ CheckRemovableFaults(t) \/ MarkMissing(t)
      BY <3>8, <3>a, <3>t
         DEF CheckRemovable, CheckRemovableFaults, MarkMissing, ioctlVars, deviceVars
    <3>9. CASE Unlink(t)
      BY <3>9, <3>a, <3>t DEF Unlink, deviceVars
    <3> QED
      BY <2>2, <3>1, <3>2, <3>3, <3>4, <3>5, <3>6, <3>7, <3>8, <3>9 DEF IoctlStep
  <2> QED
    BY <1>1, <2>1, <2>2 DEF IoctlSide
<1>2. ASSUME NEW s \in SrbThreads, SrbSide(s) PROVE HeapInv'
  BY <1>2, SrbSideFrame
     DEF DeviceHeap, ThreadHeap, NoLeak, ListedEntryAllocated, ioctlVars
<1>3. ASSUME NEW d \in Connections, DeleteDevice(d) PROVE HeapInv'
  <2>1. /\ UNCHANGED <<ioctl, cur, connectionList, handle>>
        /\ deviceList' = deviceList \ {d}
        /\ heap' = heap \ FreedWith(d)
        /\ d \in missing /\ d \in deviceList
    BY <1>3 DEF DeleteDevice, CoreInv, TableInv, TypeInv, TypeOK, ioctlVars
  <2>2. FreedWith(d) = {<<"inquiry", d>>, <<"local", d>>, <<"disk", d>>, <<"entry", d>>}
    BY <2>1 DEF FreedWith, CoreInv, DeviceInv, DeviceSets
  <2>3. d \in handle
    BY <2>1 DEF CoreInv, DeviceInv, DeviceSets
  <2>4. DeviceHeap'
    BY <2>1, <2>2 DEF DeviceHeap
  <2>5. ThreadHeap'
    <3>1. \A t \in IoctlThreads : ioctl[t] \in {"resources", "device"} => cur[t] # d
      BY <2>3 DEF CoreInv, DeviceInv, ThreadDevice
    <3> QED
      BY <2>1, <2>2, <3>1 DEF ThreadHeap
  <2>6. NoLeak'
    BY <2>1, <2>2 DEF NoLeak, Kinds
  <2>7. ListedEntryAllocated'
    <3>1. d \in connectionList => \E t \in IoctlThreads : ioctl[t] = "unlink" /\ cur[t] = d
      BY <2>1 DEF CoreInv, DeviceInv, ListedDevice, Unlinking
    <3> QED
      BY <2>1, <2>2, <3>1 DEF ListedEntryAllocated
  <2> QED
    BY <2>4, <2>5, <2>6, <2>7
<1>4. CASE Rescan \/ UNCHANGED vars
  BY <1>4 DEF Rescan, vars, deviceVars, ioctlVars, DeviceHeap, ThreadHeap,
     NoLeak, ListedEntryAllocated
<1> QED
  BY <1>1, <1>2, <1>3, <1>4, NextSides

LEMMA HeapAlways == Spec => [](CoreInv /\ HeapInv)
<1>1. Init => CoreInv /\ HeapInv
  BY InitCoreInv, InitHeapInv
<1>2. CoreInv /\ HeapInv /\ [Next]_vars => (CoreInv /\ HeapInv)'
  BY NextCoreInv, NextHeapInv
<1> QED
  BY <1>1, <1>2, PTL DEF Spec

(***************************************************************************)
(* What an SRB uses.  Only two steps free anything: CleanupAfterError, the *)
(* entry of its own CONNECT, whose device exists only if the signature did *)
(* not fit; and DeleteDevice, when no SRB is counted, and so none handled. *)
(***************************************************************************)
LEMMA IoctlFrees ==
  ASSUME CoreInv, NEW t \in IoctlThreads, IoctlSide(t)
  PROVE  \/ heap \subseteq heap'
         \/ /\ heap' = heap \ {<<"entry", cur[t]>>}
            /\ cur[t] \in handle => cur[t] \notin Fitting
<1>1. CASE Acquire(t) \/ \E name \in Names : Connect(t, name) \/ Disconnect(t, name)
  BY <1>1, OutsideFrame DEF memoryVars
<1>2. CASE CleanupAfterError(t)
  BY <1>2 DEF CleanupAfterError, CoreInv, DeviceInv, ThreadDevice
<1>3. CASE IoctlStep(t) /\ ~CleanupAfterError(t)
  BY <1>3 DEF IoctlStep, CheckName, AllocEntry, AllocEntryFails,
     AllocResources, AllocResourcesFails, AllocLocalFails,
     CreateScsiDevice, CreateScsiDeviceFails, Publish, PublishFails,
     FindToDelete, CheckRemovable, CheckRemovableFaults, MarkMissing, Unlink,
     memoryVars
<1> QED
  BY <1>1, <1>2, <1>3 DEF IoctlSide

KeptFor(d) ==
  /\ d \in deviceList => d \in deviceList'
  /\ \A kind \in Kinds : <<kind, d>> \in heap =>
       \/ <<kind, d>> \in heap'
       \/ kind = "entry" /\ d \notin Fitting

LEMMA StepFreesNothingInUse ==
  ASSUME CoreInv, [Next]_vars, NEW s \in SrbThreads, srb[s] = "handle"
  PROVE  KeptFor(dev[s])
<1> USE DEF KeptFor
<1>1. ASSUME NEW t \in IoctlThreads, IoctlSide(t) PROVE KeptFor(dev[s])
  <2>1. dev[s] \in handle
    BY DEF CoreInv, DeviceWasMade
  <2>2. deviceList \subseteq deviceList'
    BY <1>1, HandleGrows
  <2>3. CASE heap \subseteq heap'
    BY <2>2, <2>3
  <2>4. CASE /\ heap' = heap \ {<<"entry", cur[t]>>}
             /\ cur[t] \in handle => cur[t] \notin Fitting
    BY <2>1, <2>2, <2>4
  <2> QED
    BY <1>1, <2>3, <2>4, IoctlFrees
<1>2. ASSUME NEW r \in SrbThreads, SrbSide(r) PROVE KeptFor(dev[s])
  BY <1>2, SrbSideFrame DEF memoryVars
<1>3. ASSUME NEW d \in Connections, DeleteDevice(d) PROVE KeptFor(dev[s])
  <2>1. Cardinality(InFlight(d)) = 0
    BY <1>3 DEF DeleteDevice, CoreInv, OutstandingInv
  <2>2. InFlight(d) = {}
    BY <2>1, InFlightFinite, FS_EmptySet
  <2>3. dev[s] # d
    BY <2>2 DEF InFlight
  <2> QED
    BY <1>3, <2>3 DEF DeleteDevice, FreedWith
<1>4. CASE Rescan \/ UNCHANGED vars
  BY <1>4 DEF Rescan, vars, deviceVars, memoryVars
<1> QED
  BY <1>1, <1>2, <1>3, <1>4, NextSides

\* Once an SRB is counted nothing that was there for it is freed: not by a
\* DISCONNECT, whose test of the count is too early, not by the
\* DeleteDevicesThread, and by a CONNECT only if it fails after its device
\* exists.  That the memory was there to begin with is not part of this.
THEOREM NothingFreed == Spec => NothingFreedInUse
<1>1. Init => CoreInv
  BY InitCoreInv
<1>2. CoreInv /\ [Next]_vars => CoreInv'
  BY NextCoreInv
<1>3. CoreInv /\ [Next]_vars =>
        [\A s \in SrbThreads : srb[s] = "handle" /\ srb'[s] = "handle" =>
           /\ dev[s] \in deviceList => dev[s] \in deviceList'
           /\ \A kind \in Kinds : <<kind, dev[s]>> \in heap =>
                \/ <<kind, dev[s]>> \in heap'
                \/ kind = "entry" /\ dev[s] \notin Fitting]_vars
  BY StepFreesNothingInUse DEF KeptFor
<1> QED
  BY <1>1, <1>2, <1>3, PTL DEF Spec, NothingFreedInUse

\* An entry that a look-up can find is allocated, but for the moment between
\* MarkMissing and Unlink of its DISCONNECT.
THEOREM ListedAllocated == Spec => []ListedEntryAllocated
<1>1. CoreInv /\ HeapInv => ListedEntryAllocated
  BY DEF HeapInv
<1> QED
  BY <1>1, HeapAlways, PTL

\* A device that was deleted leaves no memory behind.
THEOREM DeletedFreed == Spec => []DeletedDeviceFreed
<1>1. CoreInv /\ HeapInv => DeletedDeviceFreed
  BY DEF HeapInv, NoLeak, DeletedDeviceFreed
<1> QED
  BY <1>1, HeapAlways, PTL

(***************************************************************************)
(* SCSI ids.  On bus 0 the two directions of the arithmetic agree: the bit *)
(* of an address is its target, so DISCONNECT clears the bit of its own    *)
(* address and no other.  The holders of an address are the devices that   *)
(* are present, and the connections whose bit is set on their behalf: those *)
(* of a CONNECT that has still to make its device, and of a DISCONNECT     *)
(* that has marked its device but not yet cleared the bit.                 *)
(***************************************************************************)
LEMMA BusZero ==
  ASSUME NEW bit \in Bits, BusOf(bit) = 0
  PROVE  TargetOf(bit) = bit
<1>1. bit \in Nat /\ MaxBuses \in Nat \ {0} /\ MaxTargets \in Nat \ {0}
  BY ScsiLimitsAssumption DEF Bits
<1>2. bit < MaxBuses
  BY <1>1 DEF BusOf
<1>3. bit < MaxTargets
  BY <1>1, <1>2, ScsiLimitsAssumption
<1> QED
  BY <1>1, <1>3 DEF TargetOf

LEMMA AddressParts ==
  ASSUME NEW a \in Addresses
  PROVE  /\ a.bus \in Nat /\ a.target \in Nat
         /\ a = [bus |-> a.bus, target |-> a.target]
         /\ a.bus = 0 => a = AddressOf(a.target)
<1>1. PICK bit \in Bits : a = AddressOf(bit)
  BY DEF Addresses
<1>2. bit \in Nat /\ MaxBuses \in Nat \ {0} /\ MaxTargets \in Nat \ {0}
  BY ScsiLimitsAssumption DEF Bits
<1>3. BusOf(bit) \in Nat /\ TargetOf(bit) \in Nat
  BY <1>2 DEF BusOf, TargetOf
<1>4. a.bus = BusOf(bit) /\ a.target = TargetOf(bit)
  BY <1>1 DEF AddressOf
<1>5. a.bus = 0 => a = AddressOf(a.target)
  BY <1>1, <1>4, BusZero
<1> QED
  BY <1>1, <1>3, <1>4, <1>5 DEF AddressOf

\* Clearing the bit of one address does not clear that of another on bus 0.
LEMMA OtherBitKept ==
  ASSUME NEW a \in Addresses, NEW b \in Addresses, a.bus = 0, a # b
  PROVE  BitToClear(b) # a.target
<1>1. /\ a.target \in Nat /\ b.target \in Nat /\ b.bus \in Nat
      /\ a = [bus |-> a.bus, target |-> a.target]
      /\ b = [bus |-> b.bus, target |-> b.target]
  BY AddressParts
<1>2. PICK bit \in Bits : a = AddressOf(bit)
  BY DEF Addresses
<1>3. a.target < MaxTargets
  BY <1>2, ScsiLimitsAssumption DEF AddressOf, TargetOf, Bits
<1>4. CASE b.bus = 0
  BY <1>1, <1>4, ScsiLimitsAssumption DEF BitToClear
<1>5. CASE b.bus # 0
  <2>1. b.bus * MaxTargets >= MaxTargets
    BY <1>1, <1>5, ScsiLimitsAssumption
  <2> QED
    BY <1>1, <1>3, <2>1, ScsiLimitsAssumption DEF BitToClear
<1> QED
  BY <1>4, <1>5

Holders ==
  (deviceList \ missing)
    \cup {c \in Connections : \E t \in IoctlThreads :
            cur[t] = c /\ ioctl[t] \in {"device", "unlink"}}

HoldersDiffer ==
  /\ \A c \in Holders : address[c] \in Addresses
  /\ \A c \in Holders : address[c].bus = 0 => address[c].target \in scsiIds
  /\ \A c, d \in Holders : c # d /\ address[c].bus = 0 => address[c] # address[d]

UnlinkedMissing ==
  \A t \in IoctlThreads : ioctl[t] = "unlink" => cur[t] \notin deviceList \ missing

AddressInv == HoldersDiffer /\ UnlinkedMissing

LEMMA InitAddressInv == Init => AddressInv
BY DEF Init, AddressInv, HoldersDiffer, UnlinkedMissing, Holders

LEMMA HoldersKept ==
  ASSUME HoldersDiffer, Holders' \subseteq Holders, address' = address,
         scsiIds \subseteq scsiIds'
  PROVE  HoldersDiffer'
BY DEF HoldersDiffer

LEMMA NextAddressInv == CoreInv /\ AddressInv /\ [Next]_vars => AddressInv'
<1> SUFFICES ASSUME CoreInv, AddressInv, [Next]_vars PROVE AddressInv'
  OBVIOUS
<1> USE DEF AddressInv, tableVars, memoryVars
<1>1. ASSUME NEW t \in IoctlThreads, IoctlSide(t) PROVE AddressInv'
  <2>1. CASE Acquire(t) \/ \E name \in Names : Connect(t, name) \/ Disconnect(t, name)
    <3>1. /\ \A u \in IoctlThreads \ {t} : ioctl'[u] = ioctl[u]
          /\ {ioctl[t], ioctl'[t]} \subseteq
               {"idle", "connectWait", "disconnectWait", "check", "find"}
      BY <2>1, OutsideStates DEF CoreInv, TableInv
    <3>2. UNCHANGED <<cur, tableVars, memoryVars, deviceList, missing>>
      BY <2>1, OutsideFrame
    <3>3. Holders' \subseteq Holders
      BY <3>1, <3>2 DEF Holders
    <3> QED
      BY <3>1, <3>2, <3>3, HoldersKept DEF UnlinkedMissing
  <2>2. ASSUME IoctlStep(t) PROVE AddressInv'
    <3>0. \A u \in IoctlThreads \ {t} :
            /\ ioctl[u] \notin Locked
            /\ ioctl'[u] = ioctl[u] /\ cur'[u] = cur[u]
      BY <2>2, OneAtWork DEF CoreInv, TableInv
    <3> USE DEF Locked, IoctlStates, GoTo, Return
    <3>t. /\ ioctl \in [IoctlThreads -> IoctlStates] /\ DOMAIN cur = IoctlThreads
          /\ cur \in [IoctlThreads -> Connections \cup {0}]
          /\ address \in [Connections -> Addresses \cup {None}]
      BY DEF CoreInv, TableInv, TypeInv, TypeOK
    <3>a. ASSUME UNCHANGED <<address, deviceList, missing>>,
                 scsiIds \subseteq scsiIds',
                 ioctl'[t] \notin {"device", "unlink"}
          PROVE  AddressInv'
      <4>1. Holders' \subseteq Holders
        BY <3>0, <3>a DEF Holders
      <4> QED
        BY <3>0, <3>a, <4>1, HoldersKept DEF UnlinkedMissing
    <3>1. CASE CheckName(t) \/ AllocEntryFails(t) \/ FindToDelete(t)
      BY <3>1, <3>t, <3>a DEF CheckName, AllocEntryFails, FindToDelete, deviceVars
    <3>2. CASE AllocEntry(t)
      BY <3>2, <3>t, <3>a DEF AllocEntry, deviceVars
    <3>3. CASE AllocResources(t)
      <4>1. PICK bit \in Bits \ scsiIds :
              /\ scsiIds' = scsiIds \cup {bit}
              /\ address' = [address EXCEPT ![cur[t]] = AddressOf(bit)]
        BY <3>3 DEF AllocResources, IsLowestClearBit
      <4>2. /\ UNCHANGED <<deviceList, missing>>
            /\ ioctl[t] = "resources" /\ ioctl'[t] = "device" /\ cur'[t] = cur[t]
        BY <3>3, <3>t DEF AllocResources, deviceVars
      <4>3. PICK c \in Connections : c = cur[t]
        BY <4>2 DEF CoreInv, TableInv, TypeInv, AtWork, HasConnection
      <4>4. c \notin Holders
        BY <3>0, <4>2, <4>3
           DEF Holders, CoreInv, DeviceInv, ThreadDevice, DeviceSets
      <4>5. Holders' \subseteq Holders \cup {c}
        BY <3>0, <4>2, <4>3 DEF Holders
      <4>6. /\ address'[c] = AddressOf(bit) /\ AddressOf(bit) \in Addresses
            /\ \A d \in Holders : address'[d] = address[d]
        BY <3>t, <4>1, <4>3, <4>4 DEF Addresses
      <4>7. /\ AddressOf(bit).bus = BusOf(bit)
            /\ AddressOf(bit).target = TargetOf(bit)
            /\ BusOf(bit) = 0 => TargetOf(bit) = bit
        BY BusZero DEF AddressOf
      <4>8. \A d \in Holders :
              address[d].bus = 0 \/ BusOf(bit) = 0 => address[d] # AddressOf(bit)
        BY <4>1, <4>7 DEF HoldersDiffer
      <4>9. HoldersDiffer'
        BY <4>1, <4>5, <4>6, <4>7, <4>8 DEF HoldersDiffer
      <4>10. UnlinkedMissing'
        BY <3>0, <4>2 DEF UnlinkedMissing
      <4> QED
        BY <4>9, <4>10
    <3>4. CASE AllocResourcesFails(t) \/ AllocLocalFails(t)
      BY <3>4, <3>t, <3>a DEF AllocResourcesFails, AllocLocalFails, deviceVars
    <3>5. CASE CreateScsiDevice(t)
      <4>1. /\ UNCHANGED <<address, missing, scsiIds>>
            /\ deviceList' = deviceList \cup {cur[t]}
            /\ ioctl[t] = "device" /\ ioctl'[t] = "publish" /\ cur'[t] = cur[t]
        BY <3>5, <3>t DEF CreateScsiDevice
      <4>2. cur[t] \in Holders
        BY <4>1 DEF Holders, CoreInv, TableInv, TypeInv, AtWork, HasConnection
      <4>3. Holders' \subseteq Holders
        BY <3>0, <4>1, <4>2 DEF Holders
      <4>4. UnlinkedMissing'
        BY <3>0, <4>1 DEF UnlinkedMissing
      <4> QED
        BY <4>1, <4>3, <4>4, HoldersKept
    <3>6. CASE CreateScsiDeviceFails(t) \/ Publish(t) \/ PublishFails(t)
                 \/ CleanupAfterError(t)
      BY <3>6, <3>t, <3>a
         DEF CreateScsiDeviceFails, Publish, PublishFails, CleanupAfterError, deviceVars
    <3>7. CASE CheckRemovable(t)
      BY <3>7, <3>t, <3>a DEF CheckRemovable, deviceVars
    <3>8. CASE CheckRemovableFaults(t)
      BY <3>8 DEF CheckRemovableFaults, ioctlVars, deviceVars, HoldersDiffer,
         Holders, UnlinkedMissing
    <3>9. CASE MarkMissing(t)
      <4>1. /\ UNCHANGED <<address, scsiIds, deviceList>>
            /\ missing' = missing \cup ({cur[t]} \cap deviceList)
            /\ ioctl[t] = "mark" /\ ioctl'[t] = "unlink" /\ cur'[t] = cur[t]
        BY <3>9, <3>t DEF MarkMissing
      <4>2. cur[t] \in connectionList /\ cur[t] \in handle
        BY <4>1 DEF CoreInv, TableInv, EntryInv, Deleting, DeviceInv, ThreadDevice
      <4>3. ~Unlinking(cur[t])
        BY <3>0, <4>1 DEF Unlinking
      <4>4. cur[t] \in Holders
        BY <4>2, <4>3 DEF Holders, CoreInv, DeviceInv, ListedDevice
      <4>5. Holders' \subseteq Holders
        BY <3>0, <4>1, <4>4 DEF Holders
      <4>6. UnlinkedMissing'
        BY <3>0, <4>1 DEF UnlinkedMissing
      <4> QED
        BY <4>1, <4>5, <4>6, HoldersKept
    <3>10. CASE Unlink(t)
      <4>1. /\ UNCHANGED <<address, deviceList, missing>>
            /\ scsiIds' = scsiIds \ {BitToClear(address[cur[t]])}
            /\ ioctl[t] = "unlink" /\ ioctl'[t] = "idle"
        BY <3>10, <3>t DEF Unlink, deviceVars
      <4>2. cur[t] \in Holders
        BY <4>1 DEF Holders, CoreInv, TableInv, TypeInv, AtWork, HasConnection
      <4>3. Holders' \subseteq Holders \ {cur[t]}
        BY <3>0, <4>1 DEF Holders, UnlinkedMissing
      <4>4. \A d \in Holders' : address[d].bus = 0 =>
              BitToClear(address[cur[t]]) # address[d].target
        BY <4>2, <4>3, OtherBitKept DEF HoldersDiffer
      <4>5. HoldersDiffer'
        BY <4>1, <4>3, <4>4 DEF HoldersDiffer
      <4>6. UnlinkedMissing'
        BY <3>0, <4>1 DEF UnlinkedMissing
      <4> QED
        BY <4>5, <4>6
    <3> QED
      BY <2>2, <3>1, <3>2, <3>3, <3>4, <3>5, <3>6, <3>7, <3>8, <3>9, <3>10
         DEF IoctlStep
  <2> QED
    BY <1>1, <2>1, <2>2 DEF IoctlSide
<1> USE DEF HoldersDiffer, UnlinkedMissing, Holders
<1>2. ASSUME NEW s \in SrbThreads, SrbSide(s) PROVE AddressInv'
  BY <1>2, SrbSideFrame DEF ioctlVars
<1>3. ASSUME NEW d \in Connections, DeleteDevice(d) PROVE AddressInv'
  <2>1. /\ UNCHANGED <<ioctl, cur, address, scsiIds>>
        /\ (deviceList \ missing)' = deviceList \ missing
    BY <1>3 DEF DeleteDevice, CoreInv, TableInv, TypeInv, TypeOK, ioctlVars
  <2> QED
    BY <2>1
<1>4. CASE Rescan \/ UNCHANGED vars
  BY <1>4 DEF Rescan, vars, deviceVars, ioctlVars
<1> QED
  BY <1>1, <1>2, <1>3, <1>4, NextSides

\* A device on bus 0 shares its address with no other device that is present,
\* although ids are given back while devices of their address are still listed.
THEOREM AddressesDiffer == Spec => []AddressNotShared
<1>1. Init => CoreInv /\ AddressInv
  BY InitCoreInv, InitAddressInv
<1>2. CoreInv /\ AddressInv /\ [Next]_vars => (CoreInv /\ AddressInv)'
  BY NextCoreInv, NextAddressInv
<1>3. AddressInv => AddressNotShared
  BY DEF AddressInv, HoldersDiffer, Holders, AddressNotShared
<1> QED
  BY <1>1, <1>2, <1>3, PTL DEF Spec
=============================================================================
