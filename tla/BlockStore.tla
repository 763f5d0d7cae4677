----------------------------- MODULE BlockStore -----------------------------
(***************************************************************************)
(* What a virtual disk promises about its blocks.  A request asks for a    *)
(* range of blocks.  Those that the disk has are transferred one by one,   *)
(* each of them at one moment and once; a request succeeds when all of     *)
(* them are transferred and may fail at any time before.  Requests overlap *)
(* in any way.  Nothing else changes a block.                              *)
(***************************************************************************)
EXTENDS Integers

CONSTANTS
  Clients,   \* who sends requests, one at a time
  Sizes,     \* numbers of blocks a disk may have
  Starts,    \* first blocks asked for
  Counts,    \* numbers of blocks asked for
  Tags,      \* what a WRITE writes: its block number i gets <<tag, i>>
  Blank      \* what a block holds before it is written

VARIABLES
  store,     \* the blocks of the disk
  job,       \* the request of a client
  todo,      \* blocks still to be transferred
  got        \* blocks a READ has received

vars == <<store, job, todo, got>>

NoJob == [kind |-> "none"]
Reading == [kind |-> "read"]
Writing(start, tag) == [kind |-> "write", start |-> start, tag |-> tag]
Done == [kind |-> "done"]
Failed == [kind |-> "failed"]

\* The blocks of a range that are on the disk.
OnDisk(start, count) == {b \in DOMAIN store : start <= b /\ b < start + count}

Nothing == [b \in {} |-> Blank]

Init ==
  /\ \E size \in Sizes : store = [b \in 0 .. size - 1 |-> Blank]
  /\ job = [c \in Clients |-> NoJob]
  /\ todo = [c \in Clients |-> {}]
  /\ got = [c \in Clients |-> Nothing]

Begin(c, start, count) ==
  /\ job[c] = NoJob
  /\ \/ job' = [job EXCEPT ![c] = Reading]
     \/ \E tag \in Tags : job' = [job EXCEPT ![c] = Writing(start, tag)]
  /\ todo' = [todo EXCEPT ![c] = OnDisk(start, count)]
  /\ UNCHANGED <<store, got>>

Take(c, b) ==
  /\ job[c] = Reading
  /\ b \in todo[c]
  /\ todo' = [todo EXCEPT ![c] = @ \ {b}]
  /\ got' = [got EXCEPT ![c] =
               [d \in DOMAIN @ \cup {b} |-> IF d = b THEN store[b] ELSE @[d]]]
  /\ UNCHANGED <<store, job>>

Put(c, b) ==
  /\ job[c].kind = "write"
  /\ b \in todo[c]
  /\ todo' = [todo EXCEPT ![c] = @ \ {b}]
  /\ store' = [store EXCEPT ![b] = <<job[c].tag, b - job[c].start>>]
  /\ UNCHANGED <<job, got>>

\* The client learns that the blocks it got are all there are.
Succeed(c) ==
  /\ job[c].kind \in {"read", "write"}
  /\ todo[c] = {}
  /\ job' = [job EXCEPT ![c] = Done]
  /\ UNCHANGED <<store, todo, got>>

Fail(c) ==
  /\ job[c].kind \in {"none", "read", "write"}
  /\ job' = [job EXCEPT ![c] = Failed]
  /\ todo' = [todo EXCEPT ![c] = {}]
  /\ got' = [got EXCEPT ![c] = Nothing]
  /\ UNCHANGED store

Forget(c) ==
  /\ job[c].kind \in {"done", "failed"}
  /\ job' = [job EXCEPT ![c] = NoJob]
  /\ got' = [got EXCEPT ![c] = Nothing]
  /\ UNCHANGED <<store, todo>>

Next ==
  \E c \in Clients :
    \/ \E start \in Starts, count \in Counts : Begin(c, start, count)
    \/ \E b \in DOMAIN store : Take(c, b) \/ Put(c, b)
    \/ Succeed(c)
    \/ Fail(c)
    \/ Forget(c)

Spec == Init /\ [][Next]_vars
=============================================================================
