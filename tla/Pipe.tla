--------------------------------- MODULE Pipe ---------------------------------
(***************************************************************************)
(* One pipe of kernel/pipe.c between processes that hold its two ends:     *)
(* pipewrite, piperead, the closing of an end (fileclose, then pipeclose), *)
(* and kill, which interrupts a sleeping reader or writer.                 *)
(*                                                                         *)
(* pi->lock is held from the start of a call to its end, except in sleep.  *)
(* The steps of a call are those between which another process can act:    *)
(* kill takes only p->lock, so it can fall between any two of them.  The   *)
(* counters nread and nwrite wrap at WRAP, as a uint does at 2^32.         *)
(***************************************************************************)
EXTENDS Integers, Sequences, FiniteSets

CONSTANTS Readers, Writers,  \* processes that hold the one end or the other
          Killable,          \* processes that kill may name
          Bytes, PIPESIZE,
          WRAP,              \* 2^32: the range of a uint
          MaxN,              \* bound on the byte count of one call
          None

Procs == Readers \union Writers

ASSUME PipeConstants ==
  /\ Readers \intersect Writers = {}
  /\ Killable \subseteq Procs
  /\ PIPESIZE \in Nat \ {0} /\ WRAP \in Nat /\ MaxN \in Nat
  /\ WRAP > PIPESIZE /\ WRAP % PIPESIZE = 0
  /\ None \notin Procs \union Bytes

VARIABLES
  data, nread, nwrite, readopen, writeopen,  \* struct pipe
  lock,    \* holder of pi->lock
  freed,   \* the page of the pipe has been given to kfree
  open,    \* processes whose file for their end is still open
  killed,  \* p->killed
  pc,      \* where each process is
  left,    \* n - i: bytes the call still has to transfer
  got      \* the byte that the last copyout delivered

vars == <<data, nread, nwrite, readopen, writeopen, lock, freed, open, killed,
          pc, left, got>>
pipeVars == <<data, nread, nwrite, readopen, writeopen, freed, open, got>>

Init ==
  /\ \E v \in Bytes : data = [k \in 0..PIPESIZE-1 |-> v]
  /\ nread = 0 /\ nwrite = 0
  /\ readopen = TRUE /\ writeopen = TRUE
  /\ lock = None
  /\ freed = FALSE
  /\ open = Procs
  /\ killed = [p \in Procs |-> FALSE]
  /\ pc = [p \in Procs |-> "user"]
  /\ left = [p \in Procs |-> 0]
  /\ got = None

(* Variant of WakeReaders: nobody is woken. *)
WakeReadersNot(f) == f

-------------------------------------------------------------------------------
(* wakeup(&pi->nread) finds the readers asleep, wakeup(&pi->nwrite) the    *)
(* writers.  A woken process takes pi->lock again before it goes on.       *)
WakeReaders(f) ==
  [p \in Procs |-> IF f[p] = "read_asleep" THEN "read_lock" ELSE f[p]]
WakeWriters(f) ==
  [p \in Procs |-> IF f[p] = "write_asleep" THEN "write_lock" ELSE f[p]]

Goto(p, l) == [pc EXCEPT ![p] = l]

(* write(fd, addr, n) and read(fd, addr, n) reach the pipe.  A killed      *)
(* process enters no system call but exits, which closes its file.         *)
Call(p, n) ==
  /\ pc[p] = "user"
  /\ p \in open
  /\ ~killed[p]
  /\ left' = [left EXCEPT ![p] = n]
  /\ pc' = Goto(p, IF p \in Writers THEN "write_lock" ELSE "read_lock")
  /\ UNCHANGED <<pipeVars, lock, killed>>

(* acquire(&pi->lock), on entry and on return from sleep. *)
Acquire(p) ==
  /\ pc[p] \in {"write_lock", "read_lock"}
  /\ lock = None
  /\ lock' = p
  /\ pc' = Goto(p, IF pc[p] = "write_lock" THEN "write" ELSE "read")
  /\ UNCHANGED <<pipeVars, killed, left>>

(* Variant of Full: one byte too many fits. *)
FullTooLate == nwrite = (nread + PIPESIZE + 1) % WRAP

Full == nwrite = (nread + PIPESIZE) % WRAP

-------------------------------------------------------------------------------
(* One turn of the loop of pipewrite that returns -1: there is no reader,  *)
(* or the writer has been killed.  No reader is woken.                     *)
WriteFails(p) ==
  /\ pc[p] = "write"
  /\ left[p] > 0
  /\ ~readopen \/ killed[p]
  /\ lock' = None
  /\ pc' = Goto(p, "user")
  /\ left' = [left EXCEPT ![p] = 0]
  /\ UNCHANGED <<pipeVars, killed>>

(* The pipe is full: wake the readers, then sleep. *)
WriteWaits(p) ==
  /\ pc[p] = "write"
  /\ left[p] > 0
  /\ readopen /\ ~killed[p]
  /\ Full
  /\ pc' = WakeReaders(Goto(p, "write_sleep"))
  /\ UNCHANGED <<pipeVars, lock, killed, left>>

(* sleep: p->lock is taken before pi->lock is released. *)
FallAsleep(p) ==
  /\ pc[p] \in {"write_sleep", "read_sleep"}
  /\ lock' = None
  /\ pc' = Goto(p, IF pc[p] = "write_sleep" THEN "write_asleep" ELSE "read_asleep")
  /\ UNCHANGED <<pipeVars, killed, left>>

(* Variant of WriteByte: the loop runs while i <= n. *)
WriteByteOneMore(p, v) ==
  /\ pc[p] = "write"
  /\ readopen /\ ~killed[p]
  /\ ~Full
  /\ data' = [data EXCEPT ![nwrite % PIPESIZE] = v]
  /\ nwrite' = (nwrite + 1) % WRAP
  /\ left' = [left EXCEPT ![p] = @ - 1]
  /\ UNCHANGED <<nread, readopen, writeopen, freed, open, got, lock, killed, pc>>

WriteByte(p, v) ==
  /\ pc[p] = "write"
  /\ left[p] > 0
  /\ readopen /\ ~killed[p]
  /\ ~Full
  /\ data' = [data EXCEPT ![nwrite % PIPESIZE] = v]
  /\ nwrite' = (nwrite + 1) % WRAP
  /\ left' = [left EXCEPT ![p] = @ - 1]
  /\ UNCHANGED <<nread, readopen, writeopen, freed, open, got, lock, killed, pc>>

(* The loop ends, because all is written or because copyin fails. *)
WriteEnds(p) ==
  /\ pc[p] = "write"
  /\ left[p] > 0 => readopen /\ ~killed[p] /\ ~Full
  /\ pc' = WakeReaders(Goto(p, "user"))
  /\ lock' = None
  /\ left' = [left EXCEPT ![p] = 0]
  /\ UNCHANGED <<pipeVars, killed>>

-------------------------------------------------------------------------------
Empty == nread = nwrite

(* The loop of piperead while the pipe is empty and a writer may come. *)
ReadFails(p) ==
  /\ pc[p] = "read"
  /\ Empty /\ writeopen
  /\ killed[p]
  /\ lock' = None
  /\ pc' = Goto(p, "user")
  /\ left' = [left EXCEPT ![p] = 0]
  /\ UNCHANGED <<pipeVars, killed>>

ReadWaits(p) ==
  /\ pc[p] = "read"
  /\ Empty /\ writeopen
  /\ ~killed[p]
  /\ pc' = Goto(p, "read_sleep")
  /\ UNCHANGED <<pipeVars, lock, killed, left>>

ReadStarts(p) ==
  /\ pc[p] = "read"
  /\ ~(Empty /\ writeopen)
  /\ pc' = Goto(p, "copy")
  /\ UNCHANGED <<pipeVars, lock, killed, left>>

(* One turn of the copying loop: a byte is taken once it is delivered. *)
ReadByte(p) ==
  /\ pc[p] = "copy"
  /\ left[p] > 0
  /\ ~Empty
  /\ got' = data[nread % PIPESIZE]
  /\ nread' = (nread + 1) % WRAP
  /\ left' = [left EXCEPT ![p] = @ - 1]
  /\ UNCHANGED <<data, nwrite, readopen, writeopen, freed, open, lock, killed, pc>>

(* The copying ends: all is read, the pipe is empty, or copyout fails. *)
ReadEnds(p) ==
  /\ pc[p] = "copy"
  /\ pc' = WakeWriters(Goto(p, "user"))
  /\ lock' = None
  /\ left' = [left EXCEPT ![p] = 0]
  /\ UNCHANGED <<pipeVars, killed>>

-------------------------------------------------------------------------------
(* fileclose drops the reference of p; the last one on an end goes on to   *)
(* pipeclose.  close and exit both come here.                              *)
Close(p) ==
  /\ pc[p] = "user"
  /\ p \in open
  /\ open' = open \ {p}
  /\ pc' = Goto(p, IF open' \intersect (IF p \in Writers THEN Writers ELSE Readers) = {}
                   THEN "pipeclose" ELSE "user")
  /\ UNCHANGED <<data, nread, nwrite, readopen, writeopen, freed, got, lock,
                 killed, left>>

(* Variants of PipeClose: the page is freed with the first end; the other  *)
(* end is not woken.                                                       *)
PipeCloseFreesEarly(p) ==
  /\ pc[p] = "pipeclose"
  /\ lock = None
  /\ IF p \in Writers
     THEN writeopen' = FALSE /\ pc' = WakeReaders(Goto(p, "user")) /\ UNCHANGED readopen
     ELSE readopen' = FALSE /\ pc' = WakeWriters(Goto(p, "user")) /\ UNCHANGED writeopen
  /\ freed' = TRUE
  /\ UNCHANGED <<data, nread, nwrite, open, got, lock, killed, left>>
PipeCloseSilent(p) ==
  /\ pc[p] = "pipeclose"
  /\ lock = None
  /\ IF p \in Writers
     THEN writeopen' = FALSE /\ UNCHANGED readopen
     ELSE readopen' = FALSE /\ UNCHANGED writeopen
  /\ pc' = Goto(p, "user")
  /\ freed' = (~readopen' /\ ~writeopen')
  /\ UNCHANGED <<data, nread, nwrite, open, got, lock, killed, left>>

PipeClose(p) ==
  /\ pc[p] = "pipeclose"
  /\ lock = None
  /\ IF p \in Writers
     THEN /\ writeopen' = FALSE
          /\ pc' = WakeReaders(Goto(p, "user"))
          /\ UNCHANGED readopen
     ELSE /\ readopen' = FALSE
          /\ pc' = WakeWriters(Goto(p, "user"))
          /\ UNCHANGED writeopen
  /\ freed' = (~readopen' /\ ~writeopen')
  /\ UNCHANGED <<data, nread, nwrite, open, got, lock, killed, left>>

(* kkill: sets p->killed and makes a sleeping process runnable. *)
Kill(p) ==
  /\ p \in Killable
  /\ ~killed[p]
  /\ killed' = [killed EXCEPT ![p] = TRUE]
  /\ pc' = Goto(p, CASE pc[p] = "read_asleep"  -> "read_lock"
                     [] pc[p] = "write_asleep" -> "write_lock"
                     [] OTHER                  -> pc[p])
  /\ UNCHANGED <<pipeVars, lock, left>>

-------------------------------------------------------------------------------
Step(p) ==
  \/ Acquire(p) \/ FallAsleep(p)
  \/ WriteFails(p) \/ WriteWaits(p) \/ WriteEnds(p) \/ \E v \in Bytes : WriteByte(p, v)
  \/ ReadFails(p) \/ ReadWaits(p) \/ ReadStarts(p) \/ ReadByte(p) \/ ReadEnds(p)
  \/ PipeClose(p)

(* Every file on the pipe is closed; nothing is left to do. *)
Done == freed /\ UNCHANGED vars

Next ==
  \/ \E p \in Procs : Step(p) \/ Close(p) \/ Kill(p) \/ \E n \in 0..MaxN : Call(p, n)
  \/ Done

Spec == Init /\ [][Next]_vars

(* A process that can run does run; a spinlock is granted to every process *)
(* that keeps spinning on it.  Nobody need call or close.                  *)
Fairness ==
  \A p \in Procs : WF_vars(Step(p)) /\ SF_vars(Acquire(p) \/ PipeClose(p))

LiveSpec == Spec /\ Fairness

-------------------------------------------------------------------------------
(* Every variable has its type; no call transfers more than it was asked   *)
(* to, and the counters stay in the range of a uint (pipe.c:76-134).       *)
TypeOK ==
  /\ data \in [0..PIPESIZE-1 -> Bytes]
  /\ nread \in 0..WRAP-1 /\ nwrite \in 0..WRAP-1
  /\ readopen \in BOOLEAN /\ writeopen \in BOOLEAN
  /\ lock \in Procs \union {None}
  /\ freed \in BOOLEAN
  /\ open \subseteq Procs
  /\ killed \in [Procs -> BOOLEAN]
  /\ pc \in [Procs -> {"user", "write_lock", "write", "write_sleep", "write_asleep",
                       "read_lock", "read", "read_sleep", "read_asleep", "copy",
                       "pipeclose"}]
  /\ left \in [Procs -> 0..MaxN]
  /\ got \in Bytes \union {None}

(* The ring buffer is a bounded FIFO queue, also when the counters wrap:   *)
(* each write appends a byte, each read delivers the oldest one            *)
(* (pipe.c:88-97, 120-130).                                                *)
Queue ==
  [k \in 1..(nwrite - nread) % WRAP |-> data[(nread + k - 1) % PIPESIZE]]
Bounded == INSTANCE Fifo WITH
  Capacity <- PIPESIZE, NoByte <- None, queue <- Queue, listens <- readopen
ImplementsFifo == Bounded!FSpec

(* No wakeup is lost: while nobody is inside the pipe, a reader sleeps only*)
(* if there is nothing to read and a writer may come, and a writer only if *)
(* there is no room and a reader may come (pipe.c:88-99, 113-131).         *)
SleepersMustWait ==
  lock = None => \A p \in Procs :
    /\ pc[p] = "read_asleep" => Empty /\ writeopen
    /\ pc[p] = "write_asleep" => Full /\ readopen

(* pipeclose frees the page once, when both ends are closed, and then no   *)
(* process is inside the pipe or will enter it; until then the page stays  *)
(* (pipe.c:58-74, file.c:59-83).                                           *)
FreedWhenUnused ==
  /\ freed => open = {} /\ lock = None /\ \A p \in Procs : pc[p] = "user"
  /\ open = {} /\ (\A p \in Procs : pc[p] = "user") => freed

(* Closing one end ends the calls on the other: readers see the end of     *)
(* file, writers an error, even those asleep in the pipe at that moment    *)
(* (pipe.c:62-68, 84, 113).                                                *)
HangUpEndsCalls ==
  /\ \A p \in Readers :
       open \intersect Writers = {} /\ pc[p] # "user" ~> pc[p] = "user"
  /\ \A p \in Writers :
       open \intersect Readers = {} /\ pc[p] # "user" ~> pc[p] = "user"
===============================================================================
