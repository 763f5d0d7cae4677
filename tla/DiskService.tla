---------------------------- MODULE DiskService ----------------------------
(***************************************************************************)
(* What the virtual miniport promises about its disks, without threads,    *)
(* locks or memory.  A disk owns a name from the CONNECT that reserves it  *)
(* to the DISCONNECT that releases it.  It is visible to requests before   *)
(* its CONNECT completes; if that CONNECT fails after the disk has         *)
(* appeared, the disk stays behind as an orphan without a name.            *)
(*                                                                         *)
(* A request first finds a disk and then begins to be served by it.        *)
(* Nothing keeps the disk between the two: only a request that has begun   *)
(* keeps its disk from being deleted.                                      *)
(***************************************************************************)
EXTENDS Naturals

CONSTANTS
  Disks,     \* the numbers disks get, positive
  Names,     \* the names they can own
  Requests   \* the requests that can be in progress at once

VARIABLES
  owner,     \* the disk that owns a name, 0 if it is free
  phase,     \* how far a disk has come
  found,     \* the disk a request found and has not begun on, 0 for none
  serving    \* the disk that serves a request, 0 for none

vars == <<owner, phase, found, serving>>

Phases == {"none", "reserved", "visible", "connected", "orphan", "missing",
           "deleted"}

TypeOK ==
  /\ owner \in [Names -> Disks \cup {0}]
  /\ phase \in [Disks -> Phases]
  /\ found \in [Requests -> Disks \cup {0}]
  /\ serving \in [Requests -> Disks \cup {0}]

Init ==
  /\ owner = [name \in Names |-> 0]
  /\ phase = [d \in Disks |-> "none"]
  /\ found = [r \in Requests |-> 0]
  /\ serving = [r \in Requests |-> 0]

Advance(d, from, to) ==
  /\ phase[d] = from
  /\ phase' = [phase EXCEPT ![d] = to]

\* A disk is made for a name nobody owns.
Reserve(name, d) ==
  /\ owner[name] = 0
  /\ Advance(d, "none", "reserved")
  /\ owner' = [owner EXCEPT ![name] = d]
  /\ UNCHANGED <<found, serving>>

Appear(d) ==
  /\ Advance(d, "reserved", "visible")
  /\ UNCHANGED <<owner, found, serving>>

\* The CONNECT of a disk that requests can already see succeeds ...
Complete(d) ==
  /\ Advance(d, "visible", "connected")
  /\ UNCHANGED <<owner, found, serving>>

\* ... or fails: the name is free again, the disk stays where it is.
Abandon(name) ==
  /\ owner[name] # 0
  /\ Advance(owner[name], "visible", "orphan")
  /\ owner' = [owner EXCEPT ![name] = 0]
  /\ UNCHANGED <<found, serving>>

Leave(d) ==
  /\ Advance(d, "connected", "missing")
  /\ UNCHANGED <<owner, found, serving>>

\* A name is otherwise released only by a disk that nobody can find: one
\* that never appeared, or one that has left.
Release(name) ==
  /\ owner[name] # 0
  /\ phase[owner[name]] \in {"reserved", "missing", "deleted"}
  /\ owner' = [owner EXCEPT ![name] = 0]
  /\ UNCHANGED <<phase, found, serving>>

\* A disk is deleted after it has left and while it serves no request.
Delete(d) ==
  /\ \A r \in Requests : serving[r] # d
  /\ Advance(d, "missing", "deleted")
  /\ UNCHANGED <<owner, found, serving>>

Find(r, d) ==
  /\ found[r] = 0
  /\ serving[r] = 0
  /\ phase[d] \in {"visible", "connected", "orphan"}
  /\ found' = [found EXCEPT ![r] = d]
  /\ UNCHANGED <<owner, phase, serving>>

\* By now the disk may be missing, or deleted.
Begin(r) ==
  /\ found[r] # 0
  /\ found' = [found EXCEPT ![r] = 0]
  /\ serving' = [serving EXCEPT ![r] = found[r]]
  /\ UNCHANGED <<owner, phase>>

\* The request notices that the disk it found was deleted.
GiveUp(r) ==
  /\ found[r] # 0
  /\ phase[found[r]] = "deleted"
  /\ found' = [found EXCEPT ![r] = 0]
  /\ UNCHANGED <<owner, phase, serving>>

End(r) ==
  /\ serving[r] # 0
  /\ serving' = [serving EXCEPT ![r] = 0]
  /\ UNCHANGED <<owner, phase, found>>

Next ==
  \/ \E name \in Names, d \in Disks : Reserve(name, d)
  \/ \E name \in Names : Abandon(name) \/ Release(name)
  \/ \E d \in Disks : Appear(d) \/ Complete(d) \/ Leave(d) \/ Delete(d)
  \/ \E r \in Requests, d \in Disks : Find(r, d)
  \/ \E r \in Requests : Begin(r) \/ GiveUp(r) \/ End(r)

\* Most steps of an implementation leave the service alone.  That they are
\* allowed is what _vars says; named first, they are what TLC tries first.
Spec == Init /\ [][UNCHANGED vars \/ Next]_vars
=============================================================================
