------------------------------ MODULE ScsiIds ------------------------------
(***************************************************************************)
(* The arithmetic between a bit of the SCSI id bitmap (ScsiBitMapHeader of *)
(* osrstorptuserutil.cpp) and the address of a virtual disk.               *)
(*                                                                         *)
(* CreateConnection turns the bit it found into a target and a bus with    *)
(* the constants SCSI_MAXIMUM_TARGETS_PER_BUS and SCSI_MAXIMUM_BUSES, and  *)
(* DeleteConnection turns the target and the bus back into the bit it      *)
(* clears.  The two directions are not inverses of each other: the first   *)
(* divides by the number of buses, the second multiplies by the number of  *)
(* targets.                                                                *)
(***************************************************************************)
EXTENDS Integers

CONSTANTS
  MaxBuses,     \* SCSI_MAXIMUM_BUSES (8 in the DDK header)
  MaxTargets    \* SCSI_MAXIMUM_TARGETS_PER_BUS (128 in the DDK header)

ASSUME ScsiLimitsAssumption ==
  /\ MaxBuses \in Nat \ {0}
  /\ MaxTargets \in Nat \ {0}
  /\ MaxBuses <= MaxTargets

\* The bits of the map, InitializeScsiIds makes one per target of every bus.
Bits == 0 .. MaxBuses * MaxTargets - 1

TargetOf(bit) == bit % MaxTargets

BusOf(bit) == bit \div MaxBuses

\* The path and target of the device made for a bit; the LUN is always 0.
AddressOf(bit) == [bus |-> BusOf(bit), target |-> TargetOf(bit)]

Addresses == {AddressOf(bit) : bit \in Bits}

\* The bit DeleteConnection clears for a device at address a.  It may be
\* outside Bits: RtlClearBits then writes behind the map.
BitToClear(a) == a.target + a.bus * MaxTargets

\* What RtlFindClearBitsAndSet(&ScsiBitMapHeader, 1, 0) returns: the lowest
\* bit that is clear in map.
IsLowestClearBit(bit, map) ==
  /\ bit \in Bits \ map
  /\ \A other \in Bits \ map : bit <= other
=============================================================================
