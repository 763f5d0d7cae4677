------------------------- MODULE MCVirtualMiniport -------------------------
(***************************************************************************)
(* Values for the constants of VirtualMiniport.                            *)
(***************************************************************************)
EXTENDS VirtualMiniport, TLC

\* StorPort scans the addresses of the first two bits.
FirstTwo == {AddressOf(0), AddressOf(1)}

\* StorPort scans every address.
AllAddresses == Addresses

\* Threads and names are only compared for equality.
Symmetry == Permutations(IoctlThreads) \cup Permutations(SrbThreads)
              \cup Permutations(Names)
=============================================================================
