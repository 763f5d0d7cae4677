------------------------ MODULE VirtualMiniport_proofs ----------------------
(***************************************************************************)
(* Theorems about VirtualMiniport, for every number of threads, names,     *)
(* connections, buses and targets.                                         *)
(***************************************************************************)
EXTENDS VirtualMiniport, FiniteSetTheorems, TLAPS

(***************************************************************************)
(* Types.  TypeOK needs to know that a thread in the middle of its work    *)
(* has a connection or a device to work on.                                *)
(***************************************************************************)
HasConnection == {"resources", "device", "publish", "cleanup", "removable",
                  "mark", "unlink"}

AtWork ==
  /\ \A t \in IoctlThreads : ioctl[t] \in HasConnection => cur[t] \in Connections
  /\ \A s \in SrbThreads :
       srb[s] \in {"increment", "handle"} => dev[s] \in Connections

TypeInv == TypeOK /\ AtWork

LEMMA InitTypeInv == Init => TypeInv
<1> SUFFICES ASSUME Init PROVE TypeInv
  OBVIOUS
<1> USE VirtualMiniportAssumption DEF Init
<1>1. created \in Connections \cup {0} /\ connectionCount \in Int
  OBVIOUS
<1>2. outstanding \in [Connections -> Int]
  OBVIOUS
<1>3. TypeOK
  BY <1>1, <1>2 DEF TypeOK, IoctlStates, SrbStates
<1>4. AtWork
  BY DEF AtWork, HasConnection
<1> QED
  BY <1>3, <1>4 DEF TypeInv

LEMMA NextTypeInv == TypeInv /\ [Next]_vars => TypeInv'
<1> SUFFICES ASSUME TypeInv, [Next]_vars PROVE TypeInv'
  OBVIOUS
<1> USE VirtualMiniportAssumption
    DEF TypeInv, TypeOK, AtWork, HasConnection, IoctlStates, SrbStates,
        ioctlVars, tableVars, memoryVars, deviceVars, portVars, srbVars,
        GoTo, Return, SrbGoTo, SrbDone
<1>1. ASSUME NEW t \in IoctlThreads, NEW name \in Names, Connect(t, name)
      PROVE  TypeInv'
  BY <1>1 DEF Connect, Request
<1>2. ASSUME NEW t \in IoctlThreads, NEW name \in Names, Disconnect(t, name)
      PROVE  TypeInv'
  BY <1>2 DEF Disconnect, Request
<1>3. ASSUME NEW t \in IoctlThreads, Acquire(t) PROVE TypeInv'
  BY <1>3 DEF Acquire
<1>4. ASSUME NEW t \in IoctlThreads, IoctlStep(t) PROVE TypeInv'
  <2>1. CASE CheckName(t)
    BY <2>1 DEF CheckName
  <2>2. CASE AllocEntry(t)
    <3> DEFINE c == created + 1
    <3>1. c \in Connections
      BY <2>2 DEF AllocEntry, Connections
    <3>2. <<"entry", c>> \in Kinds \X Connections
      BY <3>1 DEF Kinds
    <3> QED
      BY <2>2, <3>1, <3>2 DEF AllocEntry
  <2>3. CASE AllocEntryFails(t)
    BY <2>3 DEF AllocEntryFails
  <2>4. CASE AllocResources(t)
    BY <2>4 DEF AllocResources, Kinds, IsLowestClearBit, Addresses
  <2>5. CASE AllocResourcesFails(t)
    BY <2>5 DEF AllocResourcesFails, Kinds
  <2>6. CASE AllocLocalFails(t)
    BY <2>6 DEF AllocLocalFails, Kinds, IsLowestClearBit
  <2>7. CASE CreateScsiDevice(t)
    BY <2>7 DEF CreateScsiDevice
  <2>8. CASE CreateScsiDeviceFails(t)
    BY <2>8 DEF CreateScsiDeviceFails
  <2>9. CASE Publish(t)
    BY <2>9 DEF Publish
  <2>10. CASE PublishFails(t)
    BY <2>10 DEF PublishFails
  <2>11. CASE CleanupAfterError(t)
    BY <2>11 DEF CleanupAfterError
  <2>12. CASE FindToDelete(t)
    BY <2>12 DEF FindToDelete, ConnectionMatch
  <2>13. CASE CheckRemovable(t)
    BY <2>13 DEF CheckRemovable
  <2>14. CASE CheckRemovableFaults(t)
    BY <2>14 DEF CheckRemovableFaults
  <2>15. CASE MarkMissing(t)
    BY <2>15 DEF MarkMissing
  <2>16. CASE Unlink(t)
    BY <2>16 DEF Unlink
  <2> QED
    BY <1>4, <2>1, <2>2, <2>3, <2>4, <2>5, <2>6, <2>7, <2>8, <2>9, <2>10,
       <2>11, <2>12, <2>13, <2>14, <2>15, <2>16 DEF IoctlStep
<1>5. ASSUME NEW s \in SrbThreads, NEW a \in Addresses, StartSrb(s, a)
      PROVE  TypeInv'
  BY <1>5 DEF StartSrb
<1>6. ASSUME NEW s \in SrbThreads, NEW a \in Addresses, ScanBus(s, a)
      PROVE  TypeInv'
  BY <1>6 DEF ScanBus
<1>7. ASSUME NEW s \in SrbThreads, SrbStep(s) PROVE TypeInv'
  <2>1. CASE FindNothing(s)
    BY <2>1 DEF FindNothing
  <2>2. CASE FindDevice(s)
    <3>1. PICK d \in deviceList \ missing :
            /\ dev' = [dev EXCEPT ![s] = d]
            /\ luDevice' = IF luDevice[at[s]] = 0
                           THEN [luDevice EXCEPT ![at[s]] = d]
                           ELSE luDevice
      BY <2>2 DEF FindDevice
    <3>2. luDevice' \in [Addresses -> Connections \cup {0}]
      BY <3>1
    <3>3. dev' \in [SrbThreads -> Connections \cup {0}] /\ dev'[s] \in Connections
      BY <3>1
    <3> QED
      BY <2>2, <3>1, <3>2, <3>3 DEF FindDevice
  <2>3. CASE FindMissing(s)
    BY <2>3 DEF FindMissing
  <2>4. CASE Increment(s)
    BY <2>4 DEF Increment
  <2>5. CASE LocalInfoGone(s) \/ UseFreedFaults(s)
    BY <2>5 DEF LocalInfoGone, UseFreedFaults
  <2>6. CASE HandleSrb(s)
    BY <2>6 DEF HandleSrb
  <2>7. CASE DropLogicalUnit(s)
    BY <2>7 DEF DropLogicalUnit
  <2> QED
    BY <1>7, <2>1, <2>2, <2>3, <2>4, <2>5, <2>6, <2>7 DEF SrbStep
<1>8. ASSUME NEW d \in Connections, DeleteDevice(d) PROVE TypeInv'
  BY <1>8 DEF DeleteDevice
<1>9. CASE Rescan
  BY <1>9 DEF Rescan
<1>10. CASE UNCHANGED vars
  BY <1>10 DEF vars
<1> QED
  BY <1>1, <1>2, <1>3, <1>4, <1>5, <1>6, <1>7, <1>8, <1>9, <1>10
     DEF Next, Running, Stopped

\* Every variable keeps its type: in particular a device is missing, and
\* reported missing, only while it is on the device list.
THEOREM TypeCorrect == Spec => []TypeOK
<1>1. Init => TypeInv
  BY InitTypeInv
<1>2. TypeInv /\ [Next]_vars => TypeInv'
  BY NextTypeInv
<1>3. TypeInv => TypeOK
  BY DEF TypeInv
<1> QED
  BY <1>1, <1>2, <1>3, PTL DEF Spec
(***************************************************************************)
(* The step of a system of which one thread moves.  What the other side    *)
(* leaves alone is stated once.                                            *)
(***************************************************************************)
IoctlSide(t) ==
  \/ \E name \in Names : Connect(t, name) \/ Disconnect(t, name)
  \/ Acquire(t)
  \/ IoctlStep(t)

SrbSide(s) ==
  \/ \E a \in Addresses : StartSrb(s, a) \/ ScanBus(s, a)
  \/ SrbStep(s)

LEMMA NextSides ==
  ASSUME [Next]_vars
  PROVE  \/ \E t \in IoctlThreads : IoctlSide(t)
         \/ \E s \in SrbThreads : SrbSide(s)
         \/ \E d \in Connections : DeleteDevice(d)
         \/ Rescan
         \/ UNCHANGED vars
BY DEF Next, Running, Stopped, IoctlSide, SrbSide

LEMMA IoctlSideFrame ==
  ASSUME NEW t \in IoctlThreads, IoctlSide(t)
  PROVE  UNCHANGED <<srb, dev, outstanding, reported>>
<1> USE DEF srbVars, deviceVars
<1>1. ASSUME NEW name \in Names, Connect(t, name) \/ Disconnect(t, name)
      PROVE  UNCHANGED <<srb, dev, outstanding, reported>>
  BY <1>1 DEF Connect, Disconnect, Request
<1>2. CASE Acquire(t)
  BY <1>2 DEF Acquire
<1>3. CASE IoctlStep(t)
  BY <1>3 DEF IoctlStep, CheckName, AllocEntry, AllocEntryFails,
       AllocResources, AllocResourcesFails, AllocLocalFails, CreateScsiDevice,
       CreateScsiDeviceFails, Publish, PublishFails, CleanupAfterError,
       FindToDelete, CheckRemovable, CheckRemovableFaults, MarkMissing, Unlink
<1> QED
  BY <1>1, <1>2, <1>3 DEF IoctlSide

LEMMA SrbSideFrame ==
  ASSUME NEW s \in SrbThreads, SrbSide(s)
  PROVE  UNCHANGED <<ioctlVars, tableVars, memoryVars, deviceList, missing>>
<1> USE DEF deviceVars
<1>1. ASSUME NEW a \in Addresses, StartSrb(s, a) \/ ScanBus(s, a)
      PROVE  UNCHANGED <<ioctlVars, tableVars, memoryVars, deviceList, missing>>
  BY <1>1 DEF StartSrb, ScanBus
<1>2. CASE SrbStep(s)
  BY <1>2 DEF SrbStep, FindNothing, FindDevice, FindMissing, Increment,
       LocalInfoGone, UseFreedFaults, HandleSrb, DropLogicalUnit
<1> QED
  BY <1>1, <1>2 DEF SrbSide

(***************************************************************************)
(* Mutual exclusion of the IOCTL threads, and the names of the connection  *)
(* list, which rest on it: a thread that found its name free knows that it *)
(* stays free until it has inserted its entry.                             *)
(***************************************************************************)
MutexInv == \A t \in IoctlThreads : ioctl[t] \in Locked <=> mutex = t

NameIsFree ==
  \A t \in IoctlThreads : ioctl[t] = "alloc" => ConnectionMatch(arg[t]) = {}

NamesInv == MutexInv /\ UniqueNames /\ NameIsFree

LEMMA InitNamesInv == Init => NamesInv
BY VirtualMiniportAssumption
   DEF Init, NamesInv, MutexInv, UniqueNames, NameIsFree, Locked, IoctlStates

LEMMA NextMutexInv == TypeInv /\ MutexInv /\ [Next]_vars => MutexInv'
<1> SUFFICES ASSUME TypeInv, MutexInv, [Next]_vars PROVE MutexInv'
  OBVIOUS
<1>1. ASSUME NEW t \in IoctlThreads, IoctlSide(t) PROVE MutexInv'
  <2> USE VirtualMiniportAssumption
      DEF TypeInv, TypeOK, MutexInv, Locked, IoctlStates, GoTo, Return, ioctlVars
  <2>1. ASSUME NEW name \in Names, Connect(t, name) \/ Disconnect(t, name)
        PROVE  MutexInv'
    BY <2>1 DEF Connect, Disconnect, Request
  <2>2. CASE Acquire(t)
    BY <2>2 DEF Acquire
  <2>3. CASE CheckName(t) \/ AllocEntry(t) \/ AllocEntryFails(t)
    BY <2>3 DEF CheckName, AllocEntry, AllocEntryFails
  <2>4. CASE AllocResources(t) \/ AllocResourcesFails(t) \/ AllocLocalFails(t)
    BY <2>4 DEF AllocResources, AllocResourcesFails, AllocLocalFails
  <2>5. CASE CreateScsiDevice(t) \/ CreateScsiDeviceFails(t)
    BY <2>5 DEF CreateScsiDevice, CreateScsiDeviceFails
  <2>6. CASE Publish(t) \/ PublishFails(t) \/ CleanupAfterError(t)
    BY <2>6 DEF Publish, PublishFails, CleanupAfterError
  <2>7. CASE FindToDelete(t)
    BY <2>7 DEF FindToDelete
  <2>8. CASE CheckRemovable(t) \/ CheckRemovableFaults(t)
    BY <2>8 DEF CheckRemovable, CheckRemovableFaults
  <2>9. CASE MarkMissing(t) \/ Unlink(t)
    BY <2>9 DEF MarkMissing, Unlink
  <2> QED
    BY <1>1, <2>1, <2>2, <2>3, <2>4, <2>5, <2>6, <2>7, <2>8, <2>9
       DEF IoctlSide, IoctlStep
<1>2. ASSUME NEW s \in SrbThreads, SrbSide(s) PROVE MutexInv'
  BY <1>2, SrbSideFrame DEF MutexInv, ioctlVars
<1>3. ASSUME NEW d \in Connections, DeleteDevice(d) PROVE MutexInv'
  BY <1>3 DEF DeleteDevice, MutexInv, ioctlVars
<1>4. CASE Rescan \/ UNCHANGED vars
  BY <1>4 DEF Rescan, vars, MutexInv, ioctlVars
<1> QED
  BY <1>1, <1>2, <1>3, <1>4, NextSides

LEMMA NextNamesInv == TypeInv /\ NamesInv /\ [Next]_vars => NamesInv'
<1> SUFFICES ASSUME TypeInv, NamesInv, [Next]_vars
             PROVE  (UniqueNames /\ NameIsFree)'
  BY NextMutexInv DEF NamesInv
<1>1. ASSUME NEW t \in IoctlThreads, IoctlSide(t)
      PROVE  (UniqueNames /\ NameIsFree)'
  <2> USE DEF TypeInv, TypeOK, NamesInv, UniqueNames, NameIsFree,
              ConnectionMatch, GoTo, Return, ioctlVars, tableVars
  <2>1. ASSUME NEW name \in Names, Connect(t, name) \/ Disconnect(t, name)
        PROVE  (UniqueNames /\ NameIsFree)'
    BY <2>1 DEF Connect, Disconnect, Request
  <2>2. CASE Acquire(t)
    BY <2>2 DEF Acquire
  <2>3. CASE CheckName(t) \/ AllocEntryFails(t)
    BY <2>3 DEF CheckName, AllocEntryFails
  <2>4. CASE AllocEntry(t)
    <3> DEFINE c == created + 1
    <3>1. c \in Connections /\ cur' = [cur EXCEPT ![t] = c]
      BY <2>4, VirtualMiniportAssumption DEF AllocEntry, Connections
    <3>2. \A u \in IoctlThreads : ioctl'[u] # "alloc"
      BY <2>4 DEF AllocEntry, MutexInv, Locked, IoctlStates
    <3>3. /\ connectionList' = connectionList \cup {c}
          /\ instanceName' = [instanceName EXCEPT ![c] = arg[t]]
          /\ \A d \in connectionList : instanceName[d] # arg[t]
      BY <2>4 DEF AllocEntry
    <3>4. UniqueNames'
      BY <3>1, <3>3
    <3> QED
      BY <3>2, <3>4
  <2>5. CASE AllocResources(t) \/ AllocResourcesFails(t) \/ AllocLocalFails(t)
    BY <2>5 DEF AllocResources, AllocResourcesFails, AllocLocalFails
  <2>6. CASE CreateScsiDevice(t) \/ CreateScsiDeviceFails(t)
    BY <2>6 DEF CreateScsiDevice, CreateScsiDeviceFails
  <2>7. CASE Publish(t) \/ PublishFails(t) \/ CleanupAfterError(t)
    BY <2>7 DEF Publish, PublishFails, CleanupAfterError
  <2>8. CASE FindToDelete(t)
    BY <2>8 DEF FindToDelete
  <2>9. CASE CheckRemovable(t) \/ CheckRemovableFaults(t)
    BY <2>9 DEF CheckRemovable, CheckRemovableFaults
  <2>10. CASE MarkMissing(t) \/ Unlink(t)
    BY <2>10 DEF MarkMissing, Unlink
  <2> QED
    BY <1>1, <2>1, <2>2, <2>3, <2>4, <2>5, <2>6, <2>7, <2>8, <2>9, <2>10
       DEF IoctlSide, IoctlStep
<1> USE DEF NamesInv, UniqueNames, NameIsFree, ConnectionMatch, ioctlVars,
            tableVars
<1>2. ASSUME NEW s \in SrbThreads, SrbSide(s)
      PROVE  (UniqueNames /\ NameIsFree)'
  BY <1>2, SrbSideFrame
<1>3. ASSUME NEW d \in Connections, DeleteDevice(d)
      PROVE  (UniqueNames /\ NameIsFree)'
  BY <1>3 DEF DeleteDevice
<1>4. CASE Rescan \/ UNCHANGED vars
  BY <1>4 DEF Rescan, vars
<1> QED
  BY <1>1, <1>2, <1>3, <1>4, NextSides

\* Two entries of the connection list never have the same instance name,
\* however many CONNECTs and DISCONNECTs of that name are under way.
THEOREM NamesAreUnique == Spec => []UniqueNames
<1>1. Init => TypeInv /\ NamesInv
  BY InitTypeInv, InitNamesInv
<1>2. TypeInv /\ NamesInv /\ [Next]_vars => (TypeInv /\ NamesInv)'
  BY NextTypeInv, NextNamesInv
<1>3. NamesInv => UniqueNames
  BY DEF NamesInv
<1> QED
  BY <1>1, <1>2, <1>3, PTL DEF Spec

(***************************************************************************)
(* OutstandingIoCount.                                                     *)
(***************************************************************************)
OutstandingInv ==
  \A d \in Connections : outstanding[d] = Cardinality(InFlight(d))

LEMMA InFlightFinite ==
  ASSUME NEW d
  PROVE  IsFiniteSet(InFlight(d)) /\ Cardinality(InFlight(d)) \in Nat
BY VirtualMiniportAssumption, FS_Subset, FS_CardinalityType DEF InFlight

LEMMA InitOutstandingInv == Init => OutstandingInv
<1> SUFFICES ASSUME Init, NEW d \in Connections
             PROVE  outstanding[d] = Cardinality(InFlight(d))
  BY DEF OutstandingInv
<1>1. InFlight(d) = {}
  BY DEF Init, InFlight
<1> QED
  BY <1>1, FS_EmptySet DEF Init

LEMMA NextOutstandingInv ==
  TypeInv /\ OutstandingInv /\ [Next]_vars => OutstandingInv'
<1> SUFFICES ASSUME TypeInv, OutstandingInv, [Next]_vars PROVE OutstandingInv'
  OBVIOUS
<1>1. ASSUME UNCHANGED <<srb, dev, outstanding>> PROVE OutstandingInv'
  BY <1>1 DEF OutstandingInv, InFlight
<1>2. ASSUME NEW s \in SrbThreads, SrbSide(s) PROVE OutstandingInv'
  <2> USE DEF TypeInv, TypeOK, AtWork, SrbGoTo, SrbDone, deviceVars
  <2>1. CASE /\ srb[s] # "handle" /\ srb'[s] # "handle"
             /\ \A r \in SrbThreads \ {s} : srb'[r] = srb[r] /\ dev'[r] = dev[r]
             /\ outstanding' = outstanding
    <3>1. \A d : InFlight(d)' = InFlight(d)
      BY <2>1 DEF InFlight
    <3> QED
      BY <2>1, <3>1 DEF OutstandingInv
  <2>2. ASSUME NEW a \in Addresses, StartSrb(s, a) \/ ScanBus(s, a)
        PROVE  OutstandingInv'
    BY <2>1, <2>2 DEF StartSrb, ScanBus
  <2>3. CASE FindNothing(s) \/ FindDevice(s) \/ FindMissing(s)
    BY <2>1, <2>3 DEF FindNothing, FindDevice, FindMissing
  <2>4. CASE LocalInfoGone(s) \/ UseFreedFaults(s) \/ DropLogicalUnit(s)
    BY <1>1, <2>1, <2>4 DEF LocalInfoGone, UseFreedFaults, DropLogicalUnit,
       srbVars
  <2>5. CASE Increment(s)
    <3>0. PICK e \in Connections : e = dev[s]
      BY <2>5 DEF Increment
    <3>1. s \notin InFlight(e)
      BY <2>5, <3>0 DEF Increment, InFlight
    <3>2. InFlight(e)' = InFlight(e) \cup {s}
      BY <2>5, <3>0 DEF Increment, InFlight
    <3>3. Cardinality(InFlight(e)') = Cardinality(InFlight(e)) + 1
      BY <3>1, <3>2, InFlightFinite, FS_AddElement
    <3>4. \A d \in Connections \ {e} : InFlight(d)' = InFlight(d)
      BY <2>5, <3>0 DEF Increment, InFlight
    <3>5. \A d \in Connections \ {e} : outstanding'[d] = outstanding[d]
      BY <2>5, <3>0 DEF Increment
    <3>6. outstanding'[e] = outstanding[e] + 1
      BY <2>5, <3>0 DEF Increment
    <3> QED
      BY <3>3, <3>4, <3>5, <3>6 DEF OutstandingInv
  <2>6. CASE HandleSrb(s)
    <3>0. PICK e \in Connections : e = dev[s]
      BY <2>6 DEF HandleSrb
    <3>1. s \in InFlight(e)
      BY <2>6, <3>0 DEF HandleSrb, InFlight
    <3>2. InFlight(e)' = InFlight(e) \ {s}
      BY <2>6, <3>0 DEF HandleSrb, InFlight
    <3>3. Cardinality(InFlight(e)') = Cardinality(InFlight(e)) - 1
      BY <3>1, <3>2, InFlightFinite, FS_RemoveElement
    <3>4. \A d \in Connections \ {e} : InFlight(d)' = InFlight(d)
      BY <2>6, <3>0 DEF HandleSrb, InFlight
    <3>5. \A d \in Connections \ {e} : outstanding'[d] = outstanding[d]
      BY <2>6, <3>0 DEF HandleSrb
    <3>6. outstanding'[e] = outstanding[e] - 1
      BY <2>6, <3>0 DEF HandleSrb
    <3> QED
      BY <3>3, <3>4, <3>5, <3>6 DEF OutstandingInv
  <2> QED
    BY <1>2, <2>2, <2>3, <2>4, <2>5, <2>6 DEF SrbSide, SrbStep
<1> QED
  BY <1>1, <1>2, NextSides, IoctlSideFrame
     DEF DeleteDevice, Rescan, vars, srbVars, deviceVars

\* OutstandingIoCount of a device on the list is the number of processors
\* that handle an SRB on it.
THEOREM OutstandingCorrect == Spec => []OutstandingIsInFlight
<1>1. Init => TypeInv /\ OutstandingInv
  BY InitTypeInv, InitOutstandingInv
<1>2. TypeInv /\ OutstandingInv /\ [Next]_vars => (TypeInv /\ OutstandingInv)'
  BY NextTypeInv, NextOutstandingInv
<1>3. TypeInv /\ OutstandingInv => OutstandingIsInFlight
  BY DEF TypeInv, TypeOK, OutstandingInv, OutstandingIsInFlight
<1> QED
  BY <1>1, <1>2, <1>3, PTL DEF Spec
=============================================================================
