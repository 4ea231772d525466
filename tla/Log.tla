--------------------------------- MODULE Log ----------------------------------
(***************************************************************************)
(* The write-ahead log of kernel/log.c: begin_op, log_write, end_op, the   *)
(* group commit (write_log, write_head, install_trans, write_head), and    *)
(* recovery from the log after a crash at any point, also during recovery. *)
(*                                                                         *)
(* One action is one critical section under log.lock, or one disk write of *)
(* the committer.  The disk is split into home blocks (disk), the body of  *)
(* the log (dlog) and its header (dhead, the first n entries of block[]).  *)
(* The buffer cache is the function cache; a buffer may be recycled at any *)
(* time while the log has not pinned it.  A call between begin_op and      *)
(* end_op updates at most OpBlocks different blocks, in any order and any  *)
(* number of times each.                                                   *)
(***************************************************************************)
EXTENDS Integers, Sequences, FiniteSets

CONSTANTS Procs, Blocks, Values,
          MAXOPBLOCKS,  \* log space that begin_op reserves for a call
          LOGBLOCKS,    \* size of the log
          OpBlocks,     \* number of different blocks a call may update
          NotCached,    \* the block has no buffer in the cache
          Torn          \* content of a block whose write a crash cut short

ASSUME LogConstants ==
  /\ IsFiniteSet(Procs) /\ IsFiniteSet(Blocks)
  /\ MAXOPBLOCKS \in Nat /\ LOGBLOCKS \in Nat /\ OpBlocks \in Nat
  /\ 1 <= OpBlocks /\ OpBlocks <= MAXOPBLOCKS /\ MAXOPBLOCKS <= LOGBLOCKS
  /\ NotCached \notin Values \union {Torn}
  /\ Torn \notin Values

VARIABLES
  \* on disk, and so kept by a crash
  disk,         \* home location of every block
  dlog,         \* the blocks of the log after its header
  dhead,        \* logheader on disk: block[0..n-1]
  \* in memory
  cache,        \* buffer cache: content of each block, or NotCached
  pins,         \* references on its buffer that bpin has added
  lh,           \* log.lh: block[0..n-1]
  outstanding,  \* log.outstanding
  committing,   \* log.committing
  pc,           \* where each process is in begin_op, end_op or commit
  wrote,        \* blocks the current call of each process has updated
  tail,         \* loop index of write_log and install_trans, from 1
  boot          \* recovery step of this boot, then "up", or "panic"

vars == <<disk, dlog, dhead, cache, pins, lh, outstanding, committing, pc,
          wrote, tail, boot>>

Data == Values \union {Torn}
Slots == 1..LOGBLOCKS
Logged == {lh[i] : i \in DOMAIN lh}
CommitSteps == {"write_log", "write_head", "install", "erase", "done"}

(* The content a bread of block b returns. *)
Bread(b) == IF cache[b] = NotCached THEN disk[b] ELSE cache[b]

Init ==
  /\ \E v \in Values : disk = [b \in Blocks |-> v] /\ dlog = [i \in Slots |-> v]
  /\ dhead = <<>>
  /\ cache = [b \in Blocks |-> NotCached]
  /\ pins = [b \in Blocks |-> 0]
  /\ lh = <<>>
  /\ outstanding = 0
  /\ committing = FALSE
  /\ pc = [p \in Procs |-> "idle"]
  /\ wrote = [p \in Procs |-> {}]
  /\ tail = 1
  /\ boot = "read_head"

-------------------------------------------------------------------------------
(* Variant with a bug: the wakeup is missing. *)
WokenNobody(f) == f

(* wakeup(&log): every process asleep in begin_op will test again. *)
Woken(f) == [p \in Procs |-> IF f[p] = "sleep" THEN "begin" ELSE f[p]]

(* A process enters a file system call and calls begin_op. *)
Call(p) ==
  /\ boot = "up"
  /\ pc[p] = "idle"
  /\ pc' = [pc EXCEPT ![p] = "begin"]
  /\ UNCHANGED <<disk, dlog, dhead, cache, pins, lh, outstanding, committing,
                 wrote, tail, boot>>

(* Variant with a bug: begin_op forgets to count its own reservation.      *)
MustWaitOffByOne == committing \/ Len(lh) + outstanding * MAXOPBLOCKS > LOGBLOCKS

(* The condition under which begin_op sleeps. *)
MustWait == committing \/ Len(lh) + (outstanding + 1) * MAXOPBLOCKS > LOGBLOCKS

(* The two branches of the loop of begin_op. *)
BeginSleep(p) ==
  /\ boot = "up"
  /\ pc[p] = "begin"
  /\ MustWait
  /\ pc' = [pc EXCEPT ![p] = "sleep"]
  /\ UNCHANGED <<disk, dlog, dhead, cache, pins, lh, outstanding, committing,
                 wrote, tail, boot>>

BeginOp(p) ==
  /\ boot = "up"
  /\ pc[p] = "begin"
  /\ ~MustWait
  /\ outstanding' = outstanding + 1
  /\ pc' = [pc EXCEPT ![p] = "op"]
  /\ wrote' = [wrote EXCEPT ![p] = {}]
  /\ UNCHANGED <<disk, dlog, dhead, cache, pins, lh, committing, tail, boot>>

(* bread, a change of the data, log_write, brelse: the buffer is locked    *)
(* throughout.  The panics of log_write come before its search for the     *)
(* block among those already logged.                                       *)
LogWrite(p, b, v) ==
  /\ boot = "up"
  /\ pc[p] = "op"
  /\ Cardinality(wrote[p] \union {b}) <= OpBlocks
  /\ cache' = [cache EXCEPT ![b] = v]
  /\ IF Len(lh) >= LOGBLOCKS \/ outstanding < 1
     THEN /\ boot' = "panic"
          /\ UNCHANGED <<lh, pins, wrote>>
     ELSE /\ wrote' = [wrote EXCEPT ![p] = @ \union {b}]
          /\ IF b \in Logged
             THEN UNCHANGED <<lh, pins>>
             ELSE /\ lh' = Append(lh, b)
                  /\ pins' = [pins EXCEPT ![b] = @ + 1]
          /\ UNCHANGED boot
  /\ UNCHANGED <<disk, dlog, dhead, outstanding, committing, pc, tail>>

(* The first critical section of end_op. *)
EndOp(p) ==
  /\ boot = "up"
  /\ pc[p] = "op"
  /\ outstanding' = outstanding - 1
  /\ IF committing
     THEN boot' = "panic" /\ UNCHANGED <<committing, pc>>
     ELSE /\ committing' = (outstanding' = 0)
          /\ pc' = IF outstanding' # 0 THEN Woken([pc EXCEPT ![p] = "idle"])
                   ELSE [pc EXCEPT ![p] = IF lh = <<>> THEN "done" ELSE "write_log"]
          /\ UNCHANGED boot
  /\ UNCHANGED <<disk, dlog, dhead, cache, pins, lh, wrote, tail>>

-------------------------------------------------------------------------------
(* The committer copies one modified block from the cache to the log. *)
WriteLog(p) ==
  /\ boot = "up"
  /\ pc[p] = "write_log"
  /\ dlog' = [dlog EXCEPT ![tail] = Bread(lh[tail])]
  /\ IF tail = Len(lh)
     THEN pc' = [pc EXCEPT ![p] = "write_head"] /\ tail' = 1
     ELSE tail' = tail + 1 /\ UNCHANGED pc
  /\ UNCHANGED <<disk, dhead, cache, pins, lh, outstanding, committing, wrote,
                 boot>>

(* write_head with log.lh.n > 0: the commit point. *)
WriteHead(p) ==
  /\ boot = "up"
  /\ pc[p] = "write_head"
  /\ dhead' = lh
  /\ pc' = [pc EXCEPT ![p] = "install"]
  /\ UNCHANGED <<disk, dlog, cache, pins, lh, outstanding, committing, wrote,
                 tail, boot>>

(* Variant with a bug: the buffer stays pinned. *)
InstallTransNoUnpin(p) ==
  /\ boot = "up"
  /\ pc[p] = "install"
  /\ cache' = [cache EXCEPT ![lh[tail]] = dlog[tail]]
  /\ disk' = [disk EXCEPT ![lh[tail]] = dlog[tail]]
  /\ IF tail = Len(lh)
     THEN pc' = [pc EXCEPT ![p] = "erase"] /\ lh' = <<>> /\ tail' = 1
     ELSE tail' = tail + 1 /\ UNCHANGED <<pc, lh>>
  /\ UNCHANGED <<dlog, dhead, pins, outstanding, committing, wrote, boot>>

(* install_trans(0) copies one block home and unpins its buffer. *)
InstallTrans(p) ==
  /\ boot = "up"
  /\ pc[p] = "install"
  /\ LET b == lh[tail]
     IN  /\ cache' = [cache EXCEPT ![b] = dlog[tail]]
         /\ disk' = [disk EXCEPT ![b] = dlog[tail]]
         /\ pins' = [pins EXCEPT ![b] = @ - 1]
  /\ IF tail = Len(lh)
     THEN /\ pc' = [pc EXCEPT ![p] = "erase"]
          /\ lh' = <<>>
          /\ tail' = 1
     ELSE tail' = tail + 1 /\ UNCHANGED <<pc, lh>>
  /\ UNCHANGED <<dlog, dhead, outstanding, committing, wrote, boot>>

(* write_head with log.lh.n = 0: the transaction leaves the log. *)
EraseLog(p) ==
  /\ boot = "up"
  /\ pc[p] = "erase"
  /\ dhead' = lh
  /\ pc' = [pc EXCEPT ![p] = "done"]
  /\ UNCHANGED <<disk, dlog, cache, pins, lh, outstanding, committing, wrote,
                 tail, boot>>

(* The second critical section of end_op. *)
EndCommit(p) ==
  /\ boot = "up"
  /\ pc[p] = "done"
  /\ committing' = FALSE
  /\ pc' = Woken([pc EXCEPT ![p] = "idle"])
  /\ UNCHANGED <<disk, dlog, dhead, cache, pins, lh, outstanding, wrote, tail,
                 boot>>

-------------------------------------------------------------------------------
(* A reader outside any transaction brings a block into the cache. *)
CacheFill(b) ==
  /\ boot = "up"
  /\ cache[b] = NotCached
  /\ cache' = [cache EXCEPT ![b] = disk[b]]
  /\ UNCHANGED <<disk, dlog, dhead, pins, lh, outstanding, committing, pc,
                 wrote, tail, boot>>

(* Variant with a bug: the reference count of the buffer is not looked at. *)
CacheRecyclePinned(b) ==
  /\ boot \in {"install", "up"}
  /\ cache[b] # NotCached
  /\ cache' = [cache EXCEPT ![b] = NotCached]
  /\ UNCHANGED <<disk, dlog, dhead, pins, lh, outstanding, committing, pc,
                 wrote, tail, boot>>

(* bget recycles the buffer of a block that nothing references. *)
CacheRecycle(b) ==
  /\ boot \in {"install", "up"}
  /\ cache[b] # NotCached
  /\ pins[b] = 0
  /\ cache' = [cache EXCEPT ![b] = NotCached]
  /\ UNCHANGED <<disk, dlog, dhead, pins, lh, outstanding, committing, pc,
                 wrote, tail, boot>>

-------------------------------------------------------------------------------
(* The disk write in progress at a crash may be cut short after the first  *)
(* of the two sectors of the block.  The header occupies one sector.       *)
TornLog ==
  IF boot = "up" /\ \E p \in Procs : pc[p] = "write_log"
  THEN {dlog, [dlog EXCEPT ![tail] = Torn]} ELSE {dlog}

TornDisk ==
  IF \/ boot = "install"
     \/ boot = "up" /\ \E p \in Procs : pc[p] = "install"
  THEN {disk, [disk EXCEPT ![lh[tail]] = Torn]} ELSE {disk}

(* Power failure or reboot: memory is lost, initlog will run again. *)
Crash ==
  /\ dlog' \in TornLog
  /\ disk' \in TornDisk
  /\ cache' = [b \in Blocks |-> NotCached]
  /\ pins' = [b \in Blocks |-> 0]
  /\ lh' = <<>>
  /\ outstanding' = 0
  /\ committing' = FALSE
  /\ pc' = [p \in Procs |-> "idle"]
  /\ wrote' = [p \in Procs |-> {}]
  /\ tail' = 1
  /\ boot' = "read_head"
  /\ UNCHANGED dhead

(* recover_from_log, step by step. *)
ReadHead ==
  /\ boot = "read_head"
  /\ lh' = dhead
  /\ boot' = IF dhead = <<>> THEN "erase" ELSE "install"
  /\ UNCHANGED <<disk, dlog, dhead, cache, pins, outstanding, committing, pc,
                 wrote, tail>>

(* Variants with a bug: recovery unpins buffers that were never pinned; it *)
(* does not advance to the next block.                                     *)
RecoverInstallUnpin ==
  /\ boot = "install"
  /\ cache' = [cache EXCEPT ![lh[tail]] = dlog[tail]]
  /\ disk' = [disk EXCEPT ![lh[tail]] = dlog[tail]]
  /\ pins' = [pins EXCEPT ![lh[tail]] = @ - 1]
  /\ IF tail = Len(lh)
     THEN boot' = "erase" /\ lh' = <<>> /\ tail' = 1
     ELSE tail' = tail + 1 /\ UNCHANGED <<boot, lh>>
  /\ UNCHANGED <<dlog, dhead, outstanding, committing, pc, wrote>>
RecoverInstallStuck ==
  /\ boot = "install"
  /\ cache' = [cache EXCEPT ![lh[tail]] = dlog[tail]]
  /\ disk' = [disk EXCEPT ![lh[tail]] = dlog[tail]]
  /\ UNCHANGED <<dlog, dhead, pins, lh, outstanding, committing, pc, wrote,
                 tail, boot>>

(* install_trans(1): no buffer was pinned, so none is unpinned. *)
RecoverInstall ==
  /\ boot = "install"
  /\ cache' = [cache EXCEPT ![lh[tail]] = dlog[tail]]
  /\ disk' = [disk EXCEPT ![lh[tail]] = dlog[tail]]
  /\ IF tail = Len(lh)
     THEN boot' = "erase" /\ lh' = <<>> /\ tail' = 1
     ELSE tail' = tail + 1 /\ UNCHANGED <<boot, lh>>
  /\ UNCHANGED <<dlog, dhead, pins, outstanding, committing, pc, wrote>>

RecoverErase ==
  /\ boot = "erase"
  /\ dhead' = lh
  /\ boot' = "up"
  /\ UNCHANGED <<disk, dlog, cache, pins, lh, outstanding, committing, pc,
                 wrote, tail>>

-------------------------------------------------------------------------------
Commit(p) ==
  WriteLog(p) \/ WriteHead(p) \/ InstallTrans(p) \/ EraseLog(p) \/ EndCommit(p)
Recover == ReadHead \/ RecoverInstall \/ RecoverErase

Next ==
  \/ \E p \in Procs : Call(p) \/ BeginSleep(p) \/ BeginOp(p) \/ EndOp(p) \/ Commit(p)
  \/ \E p \in Procs, b \in Blocks, v \in Values : LogWrite(p, b, v)
  \/ \E b \in Blocks : CacheFill(b) \/ CacheRecycle(b)
  \/ Recover
  \/ Crash

Spec == Init /\ [][Next]_vars

(* A process that can run does run, a call that has begun ends, and boot   *)
(* completes.  No fairness for Call: a process need never make a call.     *)
Fairness ==
  /\ \A p \in Procs : /\ WF_vars(BeginSleep(p) \/ BeginOp(p))
                      /\ WF_vars(EndOp(p))
                      /\ WF_vars(Commit(p))
  /\ WF_vars(Recover)

LiveSpec == Spec /\ Fairness

-------------------------------------------------------------------------------
(* Every variable has its type: the reference counts that bpin and bunpin  *)
(* change (log.c:79-80, 232) never go below zero, and the loop index of    *)
(* write_log and install_trans is an index of the log.                     *)
TypeOK ==
  /\ disk \in [Blocks -> Data]
  /\ dlog \in [Slots -> Data]
  /\ dhead \in Seq(Blocks)
  /\ cache \in [Blocks -> Data \union {NotCached}]
  /\ pins \in [Blocks -> Nat]
  /\ lh \in Seq(Blocks)
  /\ outstanding \in Nat
  /\ committing \in BOOLEAN
  /\ pc \in [Procs -> {"idle", "begin", "sleep", "op"} \union CommitSteps]
  /\ wrote \in [Procs -> SUBSET Blocks]
  /\ tail \in Slots
  /\ boot \in {"read_head", "install", "erase", "up", "panic"}

(* None of the panics of log_write and end_op is reached: the transaction  *)
(* never fills the log, and no call ends or logs outside a transaction.    *)
NoPanic == boot # "panic"

(* The log slots that begin_op promised to the calls in progress and that  *)
(* they have not used yet: call p still owns number k of its MAXOPBLOCKS.  *)
Reserved ==
  {c \in Procs \X (1..MAXOPBLOCKS) :
     pc[c[1]] = "op" /\ c[2] > Cardinality(wrote[c[1]])}

(* begin_op never promises more than the log has: what is logged and what  *)
(* the calls in progress may still log fit in the log together.            *)
SpaceReserved == Len(lh) + Cardinality(Reserved) <= LOGBLOCKS

(* No wakeup is lost: a process sleeps in begin_op only while the condition*)
(* it sleeps on holds, and then there is a call or a commit that, when it  *)
(* ends, wakes it.                                                         *)
SleepersMustWait ==
  \A p \in Procs : pc[p] = "sleep" =>
    /\ MustWait
    /\ committing \/ \E q \in Procs : pc[q] = "op"

(* A commit runs alone: it has one committer and, as the head comment of   *)
(* log.c puts it, no system call is active meanwhile.                      *)
CommitRunsAlone ==
  /\ committing <=> \E p \in Procs : pc[p] \in CommitSteps
  /\ committing => outstanding = 0
  /\ \A p, q \in Procs : pc[p] \in CommitSteps /\ pc[q] \in CommitSteps => p = q

(* log.outstanding counts the calls in progress. *)
CallsCounted == outstanding = Cardinality({p \in Procs : pc[p] = "op"})

(* No block is listed twice in a header. *)
Distinct(s) == \A i, j \in DOMAIN s : s[i] = s[j] => i = j

(* A call has logged all it wrote, and no block is logged twice. *)
WritesLogged ==
  /\ \A p \in Procs : pc[p] = "op" =>
       wrote[p] \subseteq Logged /\ Cardinality(wrote[p]) <= OpBlocks
  /\ Distinct(lh) /\ Distinct(dhead)

(* The loops of write_log and install_trans stay inside the transaction. *)
Copying == boot = "install" \/ \E p \in Procs : pc[p] \in {"write_log", "install"}
TailInRange ==
  /\ Len(dhead) <= LOGBLOCKS
  /\ Copying => tail <= Len(lh)
  /\ ~Copying => tail = 1
  /\ (\E p \in Procs : pc[p] = "write_head") => lh # <<>>

(* Between transactions the log is empty. *)
EmptyWhenIdle ==
  /\ boot = "up" /\ outstanding = 0 /\ ~committing => lh = <<>>
  /\ boot \in {"read_head", "erase"} => lh = <<>>
  /\ \A p \in Procs : pc[p] \in {"erase", "done"} => lh = <<>>

(* A logged block is pinned in the cache until install_trans has written   *)
(* it home, so that bget cannot drop the only copy of an update; no other  *)
(* block is pinned.                                                        *)
Installed(i) == i < tail /\ \E p \in Procs : pc[p] = "install"
PinnedUntilInstalled ==
  /\ boot \in {"up", "panic"} =>
       \A i \in DOMAIN lh : pins[lh[i]] = IF Installed(i) THEN 0 ELSE 1
  /\ \A b \in Blocks :
       boot \notin {"up", "panic"} \/ b \notin Logged => pins[b] = 0

(* During recovery no process runs. *)
BootAlone ==
  boot \in {"read_head", "install", "erase"} =>
    outstanding = 0 /\ ~committing /\ \A p \in Procs : pc[p] = "idle"

(* The inductive invariant behind the safety properties above: space in    *)
(* the log is accounted for through every interleaving of calls, commits,  *)
(* crashes and recoveries.                                                 *)
LogInv ==
  /\ TypeOK
  /\ CommitRunsAlone
  /\ CallsCounted
  /\ WritesLogged
  /\ TailInRange
  /\ EmptyWhenIdle
  /\ PinnedUntilInstalled
  /\ BootAlone
  /\ SpaceReserved
  /\ SleepersMustWait

(* What is on disk once the log, if it has a header, has been installed. *)
Recovered ==
  [b \in Blocks |-> IF \E i \in DOMAIN dhead : dhead[i] = b
                    THEN dlog[CHOOSE i \in DOMAIN dhead : dhead[i] = b]
                    ELSE disk[b]]

Current == IF boot \in {"up", "panic"} THEN [b \in Blocks |-> Bread(b)] ELSE Recovered

(* The log makes the disk atomic: with the content of the cache as the     *)
(* current version and the content after recovery as the durable one, every*)
(* step of log.c, crashes included, is a step of AtomicDisk or changes     *)
(* neither version.                                                        *)
Atomic == INSTANCE AtomicDisk WITH
            mem <- Current, stable <- Recovered,
            active <- {p \in Procs : pc[p] = "op"}, busy <- committing
ImplementsAtomicDisk == Atomic!ASpec

(* If calls and crashes cease, every call waiting in begin_op gets out.    *)
CallsStart ==
  <>[][\A p \in Procs : ~Call(p) /\ ~Crash]_vars =>
    \A p \in Procs : pc[p] \in {"begin", "sleep"} ~> pc[p] \notin {"begin", "sleep"}

(* If crashes cease, recovery completes. *)
RecoveryCompletes == <>[][~Crash]_vars => <>[](boot \in {"up", "panic"})
===============================================================================
