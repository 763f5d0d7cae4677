----------------- MODULE VirtualMiniport_refinement_proofs -----------------
(***************************************************************************)
(* VirtualMiniport implements DiskService, also when a CONNECT fails after *)
(* its device was made, and when an SRB goes on with a device that was     *)
(* freed since it was found.  Each step of the miniport is matched with    *)
(* the step of the disk service that it makes, or with none.               *)
(***************************************************************************)
EXTENDS VirtualMiniport_memory_proofs

(***************************************************************************)
(* Requests and the entries they make have a name.                         *)
(***************************************************************************)
NamedInv ==
  /\ \A t \in IoctlThreads : ioctl[t] # "idle" => arg[t] \in Names
  /\ \A c \in connectionList : instanceName[c] \in Names

LEMMA InitNamedInv == Init => NamedInv
BY DEF Init, NamedInv

LEMMA NextNamedInv == TypeInv /\ NamedInv /\ [Next]_vars => NamedInv'
<1> SUFFICES ASSUME TypeInv, NamedInv, [Next]_vars PROVE NamedInv'
  OBVIOUS
<1> USE DEF NamedInv, ioctlVars, tableVars
<1>1. ASSUME NEW t \in IoctlThreads, IoctlSide(t) PROVE NamedInv'
  <2> USE DEF TypeInv, TypeOK, GoTo, Return
  <2>1. ASSUME NEW name \in Names, Connect(t, name) \/ Disconnect(t, name)
        PROVE  NamedInv'
    BY <2>1 DEF Connect, Disconnect, Request
  <2>2. CASE Acquire(t)
    BY <2>2 DEF Acquire
  <2>3. CASE CheckName(t) \/ AllocEntryFails(t)
    BY <2>3 DEF CheckName, AllocEntryFails
  <2>4. CASE AllocEntry(t)
    <3>1. arg[t] \in Names /\ created + 1 \in Connections
      BY <2>4, VirtualMiniportAssumption DEF AllocEntry, Connections
    <3> QED
      BY <2>4, <3>1 DEF AllocEntry
  <2>5. CASE AllocResources(t) \/ AllocResourcesFails(t) \/ AllocLocalFails(t)
    BY <2>5 DEF AllocResources, AllocResourcesFails, AllocLocalFails
  <2>6. CASE CreateScsiDevice(t) \/ CreateScsiDeviceFails(t)
    BY <2>6 DEF CreateScsiDevice, CreateScsiDeviceFails
  <2>7. CASE Publish(t) \/ PublishFails(t) \/ CleanupAfterError(t)
    BY <2>7 DEF Publish, PublishFails, CleanupAfterError
  <2>8. CASE FindToDelete(t)
    BY <2>8 DEF FindToDelete
  <2>9. CASE CheckRemovable(t) \/ CheckRemovableFaults(t)
    BY <2>9 DEF CheckRemovable, CheckRemovableFaults
  <2>10. CASE MarkMissing(t) \/ Unlink(t)
    BY <2>10 DEF MarkMissing, Unlink
  <2> QED
    BY <1>1, <2>1, <2>2, <2>3, <2>4, <2>5, <2>6, <2>7, <2>8, <2>9, <2>10
       DEF IoctlSide, IoctlStep
<1>2. ASSUME NEW s \in SrbThreads, SrbSide(s) PROVE NamedInv'
  BY <1>2, SrbSideFrame
<1>3. ASSUME NEW d \in Connections, DeleteDevice(d) PROVE NamedInv'
  BY <1>3 DEF DeleteDevice
<1>4. CASE Rescan \/ UNCHANGED vars
  BY <1>4 DEF Rescan, vars
<1> QED
  BY <1>1, <1>2, <1>3, <1>4, NextSides

(***************************************************************************)
(* The mapping, without CHOOSE and CASE: who owns a name, how far a disk   *)
(* has come, and which disk a request has.                                 *)
(***************************************************************************)
Owner == [name \in Names |-> OwnerOf(name)]
Phase == [c \in Connections |-> PhaseOf(c)]
Found == [s \in SrbThreads |-> DeviceIn("increment", s)]
Serving == [s \in SrbThreads |-> DeviceIn("handle", s)]

OwnerMap ==
  \A name \in Names :
    /\ OwnerOf(name) \in Connections \cup {0}
    /\ \A c \in Connections :
         OwnerOf(name) = c <=> c \in connectionList /\ instanceName[c] = name

PhaseMap ==
  \A c \in Connections :
    /\ c \in missing => PhaseOf(c) = "missing"
    /\ c \in Present \cap published => PhaseOf(c) = "connected"
    /\ c \in (Present \cap connectionList) \ published => PhaseOf(c) = "visible"
    /\ c \in Present \ (connectionList \cup published) => PhaseOf(c) = "orphan"
    /\ c \in handle \ deviceList => PhaseOf(c) = "deleted"
    /\ c \notin handle /\ c > created => PhaseOf(c) = "none"
    /\ c \notin handle /\ c <= created => PhaseOf(c) = "reserved"

MapInv == CoreInv /\ AddressInv /\ NamesInv /\ NamedInv /\ OwnerMap /\ PhaseMap

LEMMA OwnerMapHolds == TypeInv /\ UniqueNames => OwnerMap
<1> SUFFICES ASSUME TypeInv, UniqueNames, NEW name \in Names
             PROVE  /\ OwnerOf(name) \in Connections \cup {0}
                    /\ \A c \in Connections : OwnerOf(name) = c <=>
                         c \in connectionList /\ instanceName[c] = name
  BY DEF OwnerMap
<1>1. connectionList \subseteq Connections /\ 0 \notin Connections
  BY DEF TypeInv, TypeOK, Connections
<1>2. CASE ConnectionMatch(name) = {}
  BY <1>1, <1>2 DEF OwnerOf, ConnectionMatch
<1>3. CASE ConnectionMatch(name) # {}
  <2>1. OwnerOf(name) \in ConnectionMatch(name)
    BY <1>3 DEF OwnerOf
  <2> QED
    BY <1>1, <2>1 DEF ConnectionMatch, UniqueNames
<1> QED
  BY <1>2, <1>3

LEMMA PhaseMapHolds == TypeInv /\ DeviceSets => PhaseMap
<1> SUFFICES ASSUME TypeInv, DeviceSets, NEW c \in Connections
             PROVE  /\ c \in missing => PhaseOf(c) = "missing"
                    /\ c \in Present \cap published => PhaseOf(c) = "connected"
                    /\ c \in (Present \cap connectionList) \ published => PhaseOf(c) = "visible"
                    /\ c \in Present \ (connectionList \cup published) => PhaseOf(c) = "orphan"
                    /\ c \in handle \ deviceList => PhaseOf(c) = "deleted"
                    /\ c \notin handle /\ c > created => PhaseOf(c) = "none"
                    /\ c \notin handle /\ c <= created => PhaseOf(c) = "reserved"
  BY DEF PhaseMap
<1>1. /\ missing \subseteq deviceList /\ deviceList \subseteq handle
      /\ Present \subseteq deviceList /\ Present \cap missing = {}
      /\ c \in handle => ~(c > created)
      /\ c <= created => ~(c > created)
  BY VirtualMiniportAssumption
     DEF TypeInv, TypeOK, DeviceSets, Connections, Present
<1>2. c \in missing => PhaseOf(c) = "missing"
  BY <1>1, Zenon DEF PhaseOf
<1>3. c \in Present \cap published => PhaseOf(c) = "connected"
  BY <1>1, Zenon DEF PhaseOf
<1>4. c \in (Present \cap connectionList) \ published => PhaseOf(c) = "visible"
  BY <1>1, Zenon DEF PhaseOf
<1>5. c \in Present \ (connectionList \cup published) => PhaseOf(c) = "orphan"
  BY <1>1, Zenon DEF PhaseOf
<1>6. c \in handle \ deviceList => PhaseOf(c) = "deleted"
  BY <1>1, Zenon DEF PhaseOf
<1>7. c \notin handle /\ c > created => PhaseOf(c) = "none"
  BY <1>1, Zenon DEF PhaseOf
<1>8. c \notin handle /\ c <= created => PhaseOf(c) = "reserved"
  BY <1>1, Zenon DEF PhaseOf
<1> QED
  BY <1>2, <1>3, <1>4, <1>5, <1>6, <1>7, <1>8

LEMMA MapInvAlways == Spec => []MapInv
<1> DEFINE Inv == CoreInv /\ AddressInv /\ NamesInv /\ NamedInv
<1>1. Init => Inv
  BY InitCoreInv, InitAddressInv, InitNamesInv, InitNamedInv
<1>2. Inv /\ [Next]_vars => Inv'
  BY NextCoreInv, NextAddressInv, NextNamesInv, NextNamedInv DEF CoreInv, TableInv
<1>3. Inv => MapInv
  BY OwnerMapHolds, PhaseMapHolds DEF MapInv, CoreInv, TableInv, DeviceInv, NamesInv
<1> QED
  BY <1>1, <1>2, <1>3, PTL DEF Spec

LEMMA OwnerKept ==
  ASSUME OwnerMap, OwnerMap', UNCHANGED <<connectionList, instanceName>>
  PROVE  Owner' = Owner
<1>1. ASSUME NEW name \in Names PROVE OwnerOf(name)' = OwnerOf(name)
  BY <1>1 DEF OwnerMap
<1> QED
  BY <1>1 DEF Owner

\* Only the disk that takes the step comes further.
LEMMA OnePhase ==
  ASSUME MapInv, PhaseMap', NEW d \in Connections, NEW p,
         PhaseOf(d)' = p,
         \A c \in Connections \ {d} :
           /\ c \in missing' <=> c \in missing
           /\ c \in deviceList' <=> c \in deviceList
           /\ c \in handle' <=> c \in handle
           /\ c \in published' <=> c \in published
           /\ c \in connectionList' <=> c \in connectionList
           /\ c <= created' <=> c <= created
           /\ c > created' <=> c > created
  PROVE  Phase' = [Phase EXCEPT ![d] = p]
<1>1. ASSUME NEW c \in Connections \ {d} PROVE PhaseOf(c)' = PhaseOf(c)
  <2>1. /\ missing \subseteq deviceList /\ deviceList \subseteq handle
        /\ c <= created \/ c > created
    BY VirtualMiniportAssumption DEF MapInv, CoreInv, TableInv, TypeInv, TypeOK,
       Connections, DeviceInv, DeviceSets
  <2> QED
    BY <1>1, <2>1 DEF MapInv, PhaseMap, Present
<1> QED
  BY <1>1 DEF Phase

LEMMA PhaseKept ==
  ASSUME MapInv, PhaseMap',
         UNCHANGED <<created, handle, deviceList, missing, published,
                     connectionList>>
  PROVE  Phase' = Phase
<1>1. ASSUME NEW c \in Connections PROVE PhaseOf(c)' = PhaseOf(c)
  <2>1. /\ missing \subseteq deviceList /\ deviceList \subseteq handle
        /\ c <= created \/ c > created
    BY VirtualMiniportAssumption DEF MapInv, CoreInv, TableInv, TypeInv, TypeOK,
       Connections, DeviceInv, DeviceSets
  <2> QED
    BY <1>1, <2>1 DEF MapInv, PhaseMap, Present
<1> QED
  BY <1>1 DEF Phase

LEMMA RequestsKept ==
  ASSUME UNCHANGED <<srb, dev>>
  PROVE  UNCHANGED <<Found, Serving>>
BY DEF Found, Serving, DeviceIn

\* Only the request that takes the step has another disk.
LEMMA OneRequest ==
  ASSUME NEW s \in SrbThreads,
         \A r \in SrbThreads \ {s} : srb'[r] = srb[r] /\ dev'[r] = dev[r]
  PROVE  /\ Found' = [Found EXCEPT ![s] = DeviceIn("increment", s)']
         /\ Serving' = [Serving EXCEPT ![s] = DeviceIn("handle", s)']
BY DEF Found, Serving, DeviceIn

\* The disk of a CONNECT or DISCONNECT at work, before it is marked, is on the
\* device list and not missing.
LEMMA WorkedOnPresent ==
  ASSUME MapInv, NEW t \in IoctlThreads, IoctlStep(t), ioctl[t] # "unlink",
         cur[t] \in connectionList \cap handle
  PROVE  cur[t] \in Present
<1>1. \A u \in IoctlThreads \ {t} : ioctl[u] \notin Locked
  BY OneAtWork DEF MapInv, CoreInv, TableInv
<1>2. ~Unlinking(cur[t])
  BY <1>1 DEF Unlinking, Locked, IoctlStates
<1> QED
  BY <1>2 DEF MapInv, CoreInv, DeviceInv, ListedDevice, Present

(***************************************************************************)
(* The steps.                                                              *)
(***************************************************************************)
LEMMA Stutters ==
  ASSUME MapInv, MapInv',
         UNCHANGED <<created, connectionList, instanceName, published, handle,
                     deviceList, missing, srb, dev>>
  PROVE  UNCHANGED Service!vars
<1>1. Owner' = Owner
  BY OwnerKept DEF MapInv
<1>2. Phase' = Phase
  BY PhaseKept DEF MapInv
<1> QED
  BY <1>1, <1>2, RequestsKept DEF Service!vars, Owner, Phase, Found, Serving

\* The name a CONNECT found free belongs to its entry.
LEMMA AllocReserves ==
  ASSUME MapInv, MapInv', NEW t \in IoctlThreads, AllocEntry(t)
  PROVE  Service!Next
<1>a. PICK c \in Connections : c = created + 1
  BY VirtualMiniportAssumption DEF AllocEntry, MapInv, CoreInv, TableInv,
     TypeInv, TypeOK, Connections
<1>b. PICK name \in Names : name = arg[t]
  BY DEF AllocEntry, MapInv, NamedInv
<1>1. /\ created' = c /\ connectionList' = connectionList \cup {c}
      /\ instanceName' = [instanceName EXCEPT ![c] = name]
      /\ UNCHANGED <<published, handle, deviceList, missing, srb, dev>>
  BY <1>a, <1>b DEF AllocEntry, deviceVars, srbVars
<1>2. /\ ConnectionMatch(name) = {}
      /\ created \in Nat /\ Connections \subseteq Nat /\ 0 \notin Connections
      /\ instanceName \in [Connections -> Names \cup {None}]
      /\ connectionList \subseteq Connections
  BY <1>b, VirtualMiniportAssumption DEF AllocEntry, MapInv, NamesInv, NameIsFree,
     CoreInv, TableInv, TypeInv, TypeOK, Connections
<1>3. c \notin connectionList /\ c \notin handle /\ c > created /\ c <= c
  BY <1>a, <1>2 DEF MapInv, CoreInv, TableInv, EntryInv, DeviceInv, DeviceSets
<1>4. OwnerOf(name) = 0
  BY <1>1, <1>2 DEF MapInv, OwnerMap, ConnectionMatch
<1>5. Owner' = [Owner EXCEPT ![name] = c]
  <2>1. OwnerOf(name)' = c
    BY <1>1, <1>2 DEF MapInv, OwnerMap
  <2>2. ASSUME NEW n \in Names \ {name} PROVE OwnerOf(n)' = OwnerOf(n)
    BY <1>1, <1>2, <1>3, <2>2 DEF MapInv, OwnerMap
  <2> QED
    BY <1>1, <2>1, <2>2 DEF Owner
<1>6. PhaseOf(c) = "none" /\ PhaseOf(c)' = "reserved"
  BY <1>1, <1>3 DEF MapInv, PhaseMap
<1>7. \A d \in Connections \ {c} :
        (d <= created' <=> d <= created) /\ (d > created' <=> d > created)
  BY <1>a, <1>1, <1>2
<1>8. Phase' = [Phase EXCEPT ![c] = "reserved"]
  BY <1>1, <1>6, <1>7, OnePhase DEF MapInv
<1>9. Service!Reserve(name, c)
  BY <1>1, <1>4, <1>5, <1>6, <1>8, RequestsKept
     DEF Service!Reserve, Service!Advance, Owner, Phase, Found, Serving
<1> QED
  BY <1>9 DEF Service!Next

\* An entry that goes off the list gives its name back.
LEMMA NameFreed ==
  ASSUME MapInv, MapInv', NEW c \in Connections, c \in connectionList,
         connectionList' = connectionList \ {c}, instanceName' = instanceName,
         NEW name \in Names, name = instanceName[c]
  PROVE  OwnerOf(name) = c /\ Owner' = [Owner EXCEPT ![name] = 0]
<1>1. 0 \notin Connections
  BY DEF Connections
<1>2. OwnerOf(name) = c
  BY DEF MapInv, OwnerMap
<1>3. OwnerOf(name)' = 0
  BY <1>1, <1>2 DEF MapInv, OwnerMap
<1>4. ASSUME NEW n \in Names \ {name} PROVE OwnerOf(n)' = OwnerOf(n)
  BY <1>1, <1>4 DEF MapInv, OwnerMap
<1> QED
  BY <1>2, <1>3, <1>4 DEF Owner

\* If its disk is not present, that is all that happens.
LEMMA UnlistReleases ==
  ASSUME MapInv, MapInv', NEW c \in Connections, c \in connectionList,
         connectionList' = connectionList \ {c}, c \notin Present,
         UNCHANGED <<created, instanceName, published, handle, deviceList,
                     missing, srb, dev>>
  PROVE  Service!Next
<1>a. PICK name \in Names : name = instanceName[c]
  BY DEF MapInv, NamedInv
<1>1. 0 \notin Connections
  BY DEF Connections
<1>2. OwnerOf(name) = c /\ Owner' = [Owner EXCEPT ![name] = 0]
  BY <1>a, NameFreed
<1>3. c <= created
  BY DEF MapInv, CoreInv, TableInv, EntryInv
<1>4. PhaseOf(c) \in {"reserved", "missing", "deleted"} /\ PhaseOf(c)' = PhaseOf(c)
  BY <1>3 DEF MapInv, PhaseMap, Present
<1>5. Phase' = [Phase EXCEPT ![c] = PhaseOf(c)]
  BY <1>4, OnePhase DEF MapInv
<1>6. Phase' = Phase
  BY <1>5 DEF Phase
<1>7. Service!Release(name)
  BY <1>1, <1>2, <1>4, <1>6, RequestsKept
     DEF Service!Release, Owner, Phase, Found, Serving
<1> QED
  BY <1>7 DEF Service!Next

\* If it is, its CONNECT has failed and leaves it behind.
LEMMA UnlistAbandons ==
  ASSUME MapInv, MapInv', NEW c \in Connections, c \in connectionList,
         connectionList' = connectionList \ {c}, c \in Present \ published,
         UNCHANGED <<created, instanceName, published, handle, deviceList,
                     missing, srb, dev>>
  PROVE  Service!Next
<1>a. PICK name \in Names : name = instanceName[c]
  BY DEF MapInv, NamedInv
<1>1. 0 \notin Connections
  BY DEF Connections
<1>2. OwnerOf(name) = c /\ Owner' = [Owner EXCEPT ![name] = 0]
  BY <1>a, NameFreed
<1>3. PhaseOf(c) = "visible" /\ PhaseOf(c)' = "orphan"
  BY DEF MapInv, PhaseMap, Present
<1>4. Phase' = [Phase EXCEPT ![c] = "orphan"]
  BY <1>3, OnePhase DEF MapInv
<1>5. Service!Abandon(name)
  BY <1>1, <1>2, <1>3, <1>4, RequestsKept
     DEF Service!Abandon, Service!Advance, Owner, Phase, Found, Serving
<1> QED
  BY <1>5 DEF Service!Next

\* The device of a CONNECT is new to the system.
LEMMA DeviceAppears ==
  ASSUME MapInv, MapInv', NEW t \in IoctlThreads, CreateScsiDevice(t)
  PROVE  Service!Next
<1>a. PICK c \in Connections : c = cur[t]
  BY DEF CreateScsiDevice, MapInv, CoreInv, TableInv, TypeInv, AtWork, HasConnection
<1>1. /\ deviceList' = deviceList \cup {c} /\ handle' = handle \cup {c}
      /\ UNCHANGED <<created, connectionList, instanceName, published, missing,
                     srb, dev>>
      /\ ioctl[t] = "device"
  BY <1>a DEF CreateScsiDevice, tableVars, srbVars
<1>2. c <= created /\ c \notin handle /\ c \in connectionList \ published
  BY <1>a, <1>1 DEF MapInv, CoreInv, TableInv, EntryInv, Connecting, DeviceInv,
     ThreadDevice
<1>3. c \notin missing
  BY <1>2 DEF MapInv, CoreInv, TableInv, TypeInv, TypeOK, DeviceInv, DeviceSets
<1>4. PhaseOf(c) = "reserved" /\ PhaseOf(c)' = "visible"
  BY <1>1, <1>2, <1>3 DEF MapInv, PhaseMap, Present
<1>5. Phase' = [Phase EXCEPT ![c] = "visible"]
  BY <1>1, <1>4, OnePhase DEF MapInv
<1>6. Owner' = Owner
  BY <1>1, OwnerKept DEF MapInv
<1>7. Service!Appear(c)
  BY <1>1, <1>4, <1>5, <1>6, RequestsKept
     DEF Service!Appear, Service!Advance, Owner, Phase, Found, Serving
<1> QED
  BY <1>7 DEF Service!Next

\* A CONNECT that succeeds has connected its disk, if it has one.
LEMMA PublishCompletes ==
  ASSUME MapInv, MapInv', NEW t \in IoctlThreads, Publish(t)
  PROVE  [Service!Next]_(Service!vars)
<1>a. PICK c \in Connections : c = cur[t]
  BY DEF Publish, MapInv, CoreInv, TableInv, TypeInv, AtWork, HasConnection
<1>1. /\ published' = published \cup {c}
      /\ UNCHANGED <<created, connectionList, instanceName, handle, deviceList,
                     missing, srb, dev>>
      /\ ioctl[t] = "publish"
  BY <1>a DEF Publish, deviceVars, srbVars
<1>2. c <= created /\ c \in connectionList \ published
  BY <1>a, <1>1 DEF MapInv, CoreInv, TableInv, EntryInv, Connecting
<1>3. Owner' = Owner
  BY <1>1, OwnerKept DEF MapInv
<1>4. CASE c \in handle
  <2>1. c \in Present
    BY <1>a, <1>1, <1>2, <1>4, WorkedOnPresent DEF IoctlStep
  <2>2. PhaseOf(c) = "visible" /\ PhaseOf(c)' = "connected"
    BY <1>1, <1>2, <2>1 DEF MapInv, PhaseMap, Present
  <2>3. Phase' = [Phase EXCEPT ![c] = "connected"]
    BY <1>1, <2>2, OnePhase DEF MapInv
  <2>4. Service!Complete(c)
    BY <1>1, <1>3, <2>2, <2>3, RequestsKept
       DEF Service!Complete, Service!Advance, Owner, Phase, Found, Serving
  <2> QED
    BY <2>4 DEF Service!Next
<1>5. CASE c \notin handle
  <2>1. PhaseOf(c) = "reserved" /\ PhaseOf(c)' = "reserved"
    BY <1>1, <1>2, <1>5 DEF MapInv, PhaseMap
  <2>2. Phase' = [Phase EXCEPT ![c] = "reserved"]
    BY <1>1, <2>1, OnePhase DEF MapInv
  <2>3. Phase' = Phase
    BY <2>1, <2>2 DEF Phase
  <2> QED
    BY <1>1, <1>3, <2>3, RequestsKept
       DEF Service!vars, Owner, Phase, Found, Serving
<1> QED
  BY <1>4, <1>5

\* The disk a DISCONNECT found is still present when it is marked.
LEMMA DeviceLeaves ==
  ASSUME MapInv, MapInv', NEW t \in IoctlThreads, MarkMissing(t)
  PROVE  Service!Next
<1>a. PICK c \in Connections : c = cur[t]
  BY DEF MarkMissing, MapInv, CoreInv, TableInv, TypeInv, AtWork, HasConnection
<1>1. /\ missing' = missing \cup ({c} \cap deviceList)
      /\ UNCHANGED <<created, connectionList, instanceName, published, handle,
                     deviceList, srb, dev>>
      /\ ioctl[t] = "mark"
  BY <1>a DEF MarkMissing, tableVars, memoryVars, srbVars
<1>2. c \in connectionList \cap published /\ c \in handle
  BY <1>a, <1>1 DEF MapInv, CoreInv, TableInv, EntryInv, Deleting, DeviceInv,
     ThreadDevice
<1>3. c \in Present
  BY <1>a, <1>1, <1>2, WorkedOnPresent DEF IoctlStep
<1>4. PhaseOf(c) = "connected" /\ PhaseOf(c)' = "missing"
  BY <1>1, <1>2, <1>3 DEF MapInv, PhaseMap, Present
<1>5. Phase' = [Phase EXCEPT ![c] = "missing"]
  BY <1>1, <1>4, OnePhase DEF MapInv
<1>6. Owner' = Owner
  BY <1>1, OwnerKept DEF MapInv
<1>7. Service!Leave(c)
  BY <1>1, <1>4, <1>5, <1>6, RequestsKept
     DEF Service!Leave, Service!Advance, Owner, Phase, Found, Serving
<1> QED
  BY <1>7 DEF Service!Next

\* A thread with an IOCTL makes the steps of names and of the life of a disk.
LEMMA IoctlSideMaps ==
  ASSUME MapInv, MapInv', NEW t \in IoctlThreads, IoctlSide(t)
  PROVE  [Service!Next]_(Service!vars)
<1>0. UNCHANGED <<srb, dev>>
  BY IoctlSideFrame
<1>1. CASE Acquire(t) \/ \E name \in Names : Connect(t, name) \/ Disconnect(t, name)
  BY <1>0, <1>1, OutsideFrame, Stutters DEF tableVars, memoryVars
<1>2. CASE \/ CheckName(t) \/ AllocEntryFails(t) \/ AllocResources(t)
           \/ AllocResourcesFails(t) \/ AllocLocalFails(t)
           \/ CreateScsiDeviceFails(t) \/ PublishFails(t)
           \/ FindToDelete(t) \/ CheckRemovable(t) \/ CheckRemovableFaults(t)
  <2>1. UNCHANGED <<created, connectionList, instanceName, published, handle,
                    deviceList, missing>>
    BY <1>2
       DEF CheckName, AllocEntryFails, AllocResources, AllocResourcesFails,
           AllocLocalFails, CreateScsiDeviceFails, PublishFails,
           FindToDelete, CheckRemovable, CheckRemovableFaults, tableVars,
           memoryVars, deviceVars
  <2> QED
    BY <1>0, <2>1, Stutters
<1>3. CASE AllocEntry(t)
  BY <1>3, AllocReserves
<1>4. CASE CreateScsiDevice(t)
  BY <1>4, DeviceAppears
<1>5. CASE Publish(t)
  BY <1>5, PublishCompletes
<1>6. CASE MarkMissing(t)
  BY <1>6, DeviceLeaves
<1>7. CASE CleanupAfterError(t) \/ Unlink(t)
  <2>1. ioctl[t] \in {"cleanup", "unlink"}
    BY <1>7 DEF CleanupAfterError, Unlink
  <2>2. PICK c \in Connections : c = cur[t]
    BY <2>1 DEF MapInv, CoreInv, TableInv, TypeInv, AtWork, HasConnection
  <2>3. c \in connectionList
    BY <2>1, <2>2 DEF MapInv, CoreInv, TableInv, EntryInv, Connecting, Deleting
  <2>4. /\ connectionList' = connectionList \ {c}
        /\ UNCHANGED <<created, instanceName, published, handle, deviceList,
                       missing>>
    BY <1>7, <2>2 DEF CleanupAfterError, Unlink, memoryVars, deviceVars
  <2>5. CASE c \in Present
    <3>1. ioctl[t] = "cleanup"
      BY <2>1, <2>2, <2>5 DEF MapInv, AddressInv, UnlinkedMissing, Present
    <3>2. c \notin published
      BY <2>2, <3>1 DEF MapInv, CoreInv, TableInv, EntryInv, Connecting
    <3> QED
      BY <1>0, <2>3, <2>4, <2>5, <3>2, UnlistAbandons
  <2>6. CASE c \notin Present
    BY <1>0, <2>3, <2>4, <2>6, UnlistReleases
  <2> QED
    BY <2>5, <2>6
<1> QED
  BY <1>1, <1>2, <1>3, <1>4, <1>5, <1>6, <1>7 DEF IoctlSide, IoctlStep

\* An SRB finds its disk, begins, gives up or ends.
LEMMA SrbSideMaps ==
  ASSUME MapInv, MapInv', NEW s \in SrbThreads, SrbSide(s)
  PROVE  [Service!Next]_(Service!vars)
<1>0. UNCHANGED <<created, connectionList, instanceName, published, handle,
                  deviceList, missing>>
  BY SrbSideFrame DEF tableVars, memoryVars
<1>1. Owner' = Owner /\ Phase' = Phase
  BY <1>0, OwnerKept, PhaseKept DEF MapInv
<1>t. /\ srb \in [SrbThreads -> SrbStates]
      /\ dev \in [SrbThreads -> Connections \cup {0}]
      /\ 0 \notin Connections
  BY DEF MapInv, CoreInv, TableInv, TypeInv, TypeOK, Connections
<1> USE DEF SrbGoTo, SrbDone
<1>2. CASE \/ \E a \in Addresses : StartSrb(s, a) \/ ScanBus(s, a)
           \/ FindNothing(s) \/ FindMissing(s) \/ DropLogicalUnit(s)
  <2>1. /\ \A r \in SrbThreads \ {s} : srb'[r] = srb[r] /\ dev'[r] = dev[r]
        /\ {srb[s], srb'[s]} \subseteq {"idle", "find", "noDevice"}
    BY <1>2, <1>t DEF StartSrb, ScanBus, FindNothing, FindMissing, DropLogicalUnit
  <2>2. Found' = Found /\ Serving' = Serving
    BY <2>1 DEF Found, Serving, DeviceIn
  <2> QED
    BY <1>1, <2>2 DEF Service!vars, Owner, Phase, Found, Serving
<1>3. CASE UseFreedFaults(s)
  BY <1>0, <1>3, Stutters DEF UseFreedFaults, srbVars
<1>4. CASE FindDevice(s)
  <2>1. PICK d \in deviceList \ missing : dev' = [dev EXCEPT ![s] = d]
    BY <1>4 DEF FindDevice
  <2>2. srb[s] = "find" /\ srb' = [srb EXCEPT ![s] = "increment"]
    BY <1>4 DEF FindDevice
  <2>3. d \in Connections
    BY DEF MapInv, CoreInv, TableInv, TypeInv, TypeOK
  <2>4. PhaseOf(d) \in {"visible", "connected", "orphan"}
    BY <2>3 DEF MapInv, PhaseMap, Present
  <2>5. DeviceIn("increment", s) = 0 /\ DeviceIn("handle", s) = 0
    BY <2>2 DEF DeviceIn
  <2>6. DeviceIn("increment", s)' = d /\ DeviceIn("handle", s)' = 0
    BY <1>t, <2>1, <2>2 DEF DeviceIn
  <2>7. Found' = [Found EXCEPT ![s] = d] /\ Serving' = [Serving EXCEPT ![s] = 0]
    BY <1>t, <2>1, <2>2, <2>6, OneRequest
  <2>8. Serving' = Serving
    BY <2>5, <2>7 DEF Serving
  <2>9. Service!Find(s, d)
    BY <1>1, <2>3, <2>4, <2>5, <2>7, <2>8
       DEF Service!Find, Owner, Phase, Found, Serving
  <2> QED
    BY <2>3, <2>9 DEF Service!Next
<1>5. CASE Increment(s) \/ LocalInfoGone(s)
  <2>1. PICK d \in Connections : d = dev[s] /\ srb[s] = "increment"
    BY <1>5 DEF Increment, LocalInfoGone, MapInv, CoreInv, TableInv, TypeInv, AtWork
  <2>2. d # 0 /\ DeviceIn("increment", s) = d /\ DeviceIn("handle", s) = 0
    BY <1>t, <2>1 DEF DeviceIn
  <2>3. CASE Increment(s)
    <3>1. dev' = dev /\ srb' = [srb EXCEPT ![s] = "handle"]
      BY <2>3 DEF Increment
    <3>2. DeviceIn("increment", s)' = 0 /\ DeviceIn("handle", s)' = d
      BY <1>t, <2>1, <3>1 DEF DeviceIn
    <3>3. Found' = [Found EXCEPT ![s] = 0] /\ Serving' = [Serving EXCEPT ![s] = d]
      BY <1>t, <3>1, <3>2, OneRequest
    <3>4. Service!Begin(s)
      BY <1>1, <2>2, <3>3 DEF Service!Begin, Owner, Phase, Found, Serving
    <3> QED
      BY <3>4 DEF Service!Next
  <2>4. CASE LocalInfoGone(s)
    <3>1. dev' = dev /\ srb' = [srb EXCEPT ![s] = "noDevice"] /\ d \notin deviceList
      BY <2>1, <2>4 DEF LocalInfoGone
    <3>2. DeviceIn("increment", s)' = 0 /\ DeviceIn("handle", s)' = 0
      BY <1>t, <2>1, <3>1 DEF DeviceIn
    <3>3. Found' = [Found EXCEPT ![s] = 0] /\ Serving' = [Serving EXCEPT ![s] = 0]
      BY <1>t, <3>1, <3>2, OneRequest
    <3>4. Serving' = Serving
      BY <2>2, <3>3 DEF Serving
    <3>5. PhaseOf(d) = "deleted"
      BY <2>1, <3>1 DEF MapInv, CoreInv, DeviceWasMade, PhaseMap
    <3>6. Service!GiveUp(s)
      BY <1>1, <2>2, <3>3, <3>4, <3>5
         DEF Service!GiveUp, Owner, Phase, Found, Serving
    <3> QED
      BY <3>6 DEF Service!Next
  <2> QED
    BY <1>5, <2>3, <2>4
<1>6. CASE HandleSrb(s)
  <2>1. PICK d \in Connections : d = dev[s] /\ srb[s] = "handle"
    BY <1>6 DEF HandleSrb, MapInv, CoreInv, TableInv, TypeInv, AtWork
  <2>2. dev' = [dev EXCEPT ![s] = 0] /\ srb' = [srb EXCEPT ![s] = "idle"]
    BY <1>6 DEF HandleSrb
  <2>3. d # 0 /\ DeviceIn("increment", s) = 0 /\ DeviceIn("handle", s) = d
    BY <1>t, <2>1 DEF DeviceIn
  <2>4. DeviceIn("increment", s)' = 0 /\ DeviceIn("handle", s)' = 0
    BY <1>t, <2>2 DEF DeviceIn
  <2>5. Found' = [Found EXCEPT ![s] = 0] /\ Serving' = [Serving EXCEPT ![s] = 0]
    BY <1>t, <2>2, <2>4, OneRequest
  <2>6. Found' = Found
    BY <2>3, <2>5 DEF Found
  <2>7. Service!End(s)
    BY <1>1, <2>3, <2>5, <2>6 DEF Service!End, Owner, Phase, Found, Serving
  <2> QED
    BY <2>7 DEF Service!Next
<1> QED
  BY <1>2, <1>3, <1>4, <1>5, <1>6 DEF SrbSide, SrbStep

\* The DeleteDevicesThread deletes a missing disk that serves no request.
LEMMA DeleteMaps ==
  ASSUME MapInv, MapInv', NEW d \in Connections, DeleteDevice(d)
  PROVE  Service!Next
<1>1. /\ d \in missing /\ d \in deviceList /\ d \in handle /\ outstanding[d] = 0
      /\ deviceList' = deviceList \ {d} /\ missing' = missing \ {d}
      /\ UNCHANGED <<created, connectionList, instanceName, published, handle,
                     srb, dev>>
  BY DEF DeleteDevice, MapInv, CoreInv, TableInv, TypeInv, TypeOK, DeviceInv,
     DeviceSets, tableVars, srbVars
<1>2. PhaseOf(d) = "missing" /\ PhaseOf(d)' = "deleted"
  BY <1>1 DEF MapInv, PhaseMap
<1>3. Phase' = [Phase EXCEPT ![d] = "deleted"]
  BY <1>1, <1>2, OnePhase DEF MapInv
<1>4. Owner' = Owner
  BY <1>1, OwnerKept DEF MapInv
<1>5. \A r \in SrbThreads : Serving[r] # d
  <2>1. InFlight(d) = {}
    BY <1>1, InFlightFinite, FS_EmptySet DEF MapInv, CoreInv, OutstandingInv
  <2>2. d # 0
    BY DEF Connections
  <2> QED
    BY <2>1, <2>2 DEF InFlight, Serving, DeviceIn
<1>6. Service!Delete(d)
  BY <1>1, <1>2, <1>3, <1>4, <1>5, RequestsKept
     DEF Service!Delete, Service!Advance, Owner, Phase, Found, Serving
<1> QED
  BY <1>6 DEF Service!Next

LEMMA InitMaps == Init /\ MapInv => Service!Init
<1> SUFFICES ASSUME Init, MapInv PROVE Service!Init
  OBVIOUS
<1>1. ASSUME NEW name \in Names PROVE OwnerOf(name) = 0
  BY <1>1 DEF Init, MapInv, OwnerMap
<1>2. ASSUME NEW c \in Connections PROVE PhaseOf(c) = "none"
  BY <1>2 DEF Init, MapInv, PhaseMap, Connections
<1>3. ASSUME NEW s \in SrbThreads
      PROVE  DeviceIn("increment", s) = 0 /\ DeviceIn("handle", s) = 0
  BY <1>3 DEF Init, DeviceIn
<1> QED
  BY <1>1, <1>2, <1>3 DEF Service!Init

\* However many threads connect, disconnect and execute SRBs, and whether or
\* not CONNECTs fail: a name has one owner, a disk moves through its life once
\* and in order, one that has left is not found again, and a disk is not
\* deleted while it serves a request.
THEOREM RefinesDiskService == Spec => ImplementsDiskService
<1>1. MapInv /\ MapInv' /\ [Next]_vars => [Service!Next]_(Service!vars)
  <2> SUFFICES ASSUME MapInv, MapInv', [Next]_vars
               PROVE  [Service!Next]_(Service!vars)
    OBVIOUS
  <2>1. ASSUME NEW t \in IoctlThreads, IoctlSide(t)
        PROVE  [Service!Next]_(Service!vars)
    BY <2>1, IoctlSideMaps
  <2>2. ASSUME NEW s \in SrbThreads, SrbSide(s)
        PROVE  [Service!Next]_(Service!vars)
    BY <2>2, SrbSideMaps
  <2>3. ASSUME NEW d \in Connections, DeleteDevice(d)
        PROVE  [Service!Next]_(Service!vars)
    BY <2>3, DeleteMaps
  <2>4. CASE Rescan \/ UNCHANGED vars
    <3>1. UNCHANGED <<created, connectionList, instanceName, published, handle,
                      deviceList, missing, srb, dev>>
      BY <2>4 DEF Rescan, vars, tableVars, memoryVars, deviceVars, srbVars
    <3> QED
      BY <3>1, Stutters
  <2> QED
    BY <2>1, <2>2, <2>3, <2>4, NextSides
<1>2. MapInv /\ MapInv' /\ [Next]_vars
        => [UNCHANGED Service!vars \/ Service!Next]_(Service!vars)
  BY <1>1
<1> QED
  BY <1>2, InitMaps, MapInvAlways, PTL
     DEF Spec, ImplementsDiskService, Service!Spec
=============================================================================
