------------------------------ MODULE AtomicDisk ------------------------------
(***************************************************************************)
(* What the logging layer promises to the file system: a set of blocks     *)
(* that system calls update in place, of which a crash keeps exactly the   *)
(* last committed version.  A version is committed only when no system     *)
(* call is half done, so a crash never exposes part of one.  The detailed  *)
(* specification, Log, implements this one.                                *)
(***************************************************************************)
CONSTANTS Procs,   \* processes that make file system calls
          Blocks,  \* home blocks of the file system
          Values   \* contents of a block

VARIABLES mem,     \* what a read returns now
          stable,  \* what a read returns after a crash
          active,  \* processes between begin_op and end_op
          busy     \* a commit is in progress

avars == <<mem, stable, active, busy>>

AInit ==
  /\ mem \in [Blocks -> Values]
  /\ stable = mem
  /\ active = {}
  /\ busy = FALSE

(* A system call starts; never while a commit is in progress. *)
ABegin(p) ==
  /\ p \notin active
  /\ ~busy
  /\ active' = active \union {p}
  /\ UNCHANGED <<mem, stable, busy>>

(* A system call in progress updates one block. *)
AWrite(p, b, v) ==
  /\ p \in active
  /\ mem' = [mem EXCEPT ![b] = v]
  /\ UNCHANGED <<stable, active, busy>>

(* A system call ends; the last one to end starts the commit. *)
AEnd(p) ==
  /\ p \in active
  /\ active' = active \ {p}
  /\ busy' = (active' = {})
  /\ UNCHANGED <<mem, stable>>

(* Every update made so far becomes durable, all of them at one instant. *)
ACommit ==
  /\ busy
  /\ stable' = mem
  /\ UNCHANGED <<mem, active, busy>>

(* The commit is over, and only once its updates are durable. *)
AFinish ==
  /\ busy
  /\ stable = mem
  /\ busy' = FALSE
  /\ UNCHANGED <<mem, stable, active>>

(* A crash loses everything since the last commit and nothing before it. *)
ACrash ==
  /\ mem' = stable
  /\ active' = {}
  /\ busy' = FALSE
  /\ UNCHANGED stable

ANext ==
  \/ \E p \in Procs : ABegin(p) \/ AEnd(p)
  \/ \E p \in Procs, b \in Blocks, v \in Values : AWrite(p, b, v)
  \/ ACommit
  \/ AFinish
  \/ ACrash

ASpec == AInit /\ [][ANext]_avars
===============================================================================
