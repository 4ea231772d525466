# A TLA+ model of the xv6 kernel

This directory models the concurrent and crash-prone parts of the xv6 kernel in
`src/xv6/kernel`, model-checks them with TLC on small instances, and proves the
central facts about the log with TLAPS for all sizes. `PROJECT.json` lists the
components, the runs, the source lines behind each definition, the hazards and
the theorems.

## The system

| Part | State | Operations that change it | Hard part |
|---|---|---|---|
| log (`log.c`) | header in memory and on disk, log blocks, `outstanding`, `committing` | `begin_op`, `log_write`, `end_op`, `commit`, recovery | group commit, crash at any disk write, space reservation |
| buffer cache (`bio.c`, `sleeplock.c`) | LRU list, `refcnt`, `valid`, sleep locks | `bget`, `bread`, `bwrite`, `brelse`, `bpin`, `bunpin` | recycling against waiting, nested locks |
| processes (`proc.c`, `trap.c`) | process table, per-CPU current process, `p->lock`, `wait_lock`, `tickslock` | fork, exit, wait, kill, sleep, wakeup, yield, scheduler, timer | lost wakeups, stacks in use, orphans |
| pipes (`pipe.c`) | ring buffer, `nread`, `nwrite`, open flags | `pipewrite`, `piperead`, `pipeclose` | counters that wrap, close and kill in the middle of a call |
| inodes and directories (`fs.c`, `sysfile.c`) | inode table, link counts, directory entries, bitmap | create, link, unlink, open, read, write, `iput`, `ireclaim` | reference against link counts, races on names |
| `fsinfo` (`sysproc.c`) | none of its own | scan of inodes and bitmap | totals taken while others change the disk |
| file table (`file.c`) | reference counts, descriptors | open, dup, close, fork, exit | last close, error paths |
| disk driver (`virtio_disk.c`) | descriptors, rings | `virtio_disk_rw`, the interrupt | descriptor exhaustion, completion out of order |
| console, UART (`console.c`, `uart.c`) | input ring, `tx_busy` | read, write, interrupt | three wrapping indices, interrupt handshake |
| memory (`kalloc.c`, `vm.c`, `exec.c`) | free list, page tables | map, copy, free, exec, sbrk | unwinding after a failed allocation |

A file system call brackets its work with `begin_op` and `end_op`; its updates
go through buffers, which `log_write` pins and the commit writes home. Waiting
of any kind is `sleep` and `wakeup` of the process layer.

## Modules

| Module | Models | Role |
|---|---|---|
| `AtomicDisk` | | what the log promises: calls commit in groups, a crash returns to the last commit |
| `Log` | `log.c` | the log, crashes, recovery |
| `LogProofs` | | theorems about `Log` |
| `Proc` | `proc.c`, `sys_pause`, the timer and killed checks of `trap.c` | the process table |
| `BufCache` | `bio.c`, `sleeplock.c` | the buffer cache and its callers' discipline |
| `Fifo` | | what a pipe promises: a bounded queue |
| `Pipe` | `pipe.c`, `fileclose` on a pipe | one pipe |
| `MCLog`, `MCProc`, `MCBufCache`, `MCPipe` | | instances for TLC |

**Granularity.** An action is a critical section, or the part of one between two
points where another process can act: the next lock to acquire, a disk write, a
`killed` test that `kill` can overtake. A spin lock is a variable with a holder
where it is held over several steps, and implicit otherwise. Operators marked
"Variant" in a comment are deliberate bugs, used only to confirm that a property
notices them.

**Log.** `disk`, `dlog`, `dhead` survive a crash; `Crash` resets the rest and may
leave the block being written torn (the header fits in one sector and is
written whole). `cache` and `pins` stand for the buffer cache: a buffer that the
log has not pinned may be recycled at any moment. `WriteLog`, `WriteHead`,
`InstallTrans`, `EraseLog`, `EndCommit` are the committer's steps, one disk write
each; `ReadHead`, `RecoverInstall`, `RecoverErase` the same for recovery.

**Proc.** `sw[p]` follows a process through `sched` and `swtch`, during which its
CPU holds `p->lock`. `fork` is three critical sections, `exit` one that visits
the table slot by slot in `wakeup`, `wait` loops over scan, test and sleep. A
timer interrupt can preempt a process wherever it holds no spin lock. The clock
interrupt is a lock holder of its own, as if on a further CPU. A pid is
represented by its slot, since the pid is non-zero exactly while the slot is in
use; exit codes, memory and the files that fork copies and exit closes are left
out. Every process but init makes any call of `Calls` at any time. init runs the
loop of `user/init.c`: `shell` is its variable `pid`; it forks whenever it has no
shell, also with adopted children around, waits until `wait` returns that pid,
and exits when `fork` or `wait` fails or when it is killed, on which `kexit`
panics with "init exiting" (`InitExits`; the panic spins, and a timer interrupt
may still switch to other processes). `wait` reaps the first zombie in table
order: nobody can become one during the scan, since `exit` holds `wait_lock`.

**BufCache.** `held[p]` lists the buffers a process got from `bget`. Which second
buffer a process may ask for while it holds a first one is translated from the
four callers that do so: `WriteLogNests`, `InstallNests`, `BmapNests`,
`ItruncNests`; every other caller holds one buffer at a time. `latest` records the
last content given to a block. The panic "bget: no buffers" leaves `bcache.lock`
held, so that the others go on only until they need it; the panics of `bwrite`
and `brelse` on an unlocked buffer are in the model too.

**Pipe.** `lock` is `pi->lock`; `kill` needs only `p->lock` and so can come
between any two steps of a call. `copyin` and `copyout` may fail at any byte.

## Runs

| Run | Instance | Shows |
|---|---|---|
| `log` | 2 processes, 2 blocks, 2 values, log of 6, reservation 3, up to 2 blocks per call | the log implements `AtomicDisk`; the inductive invariant; calls start and recovery completes |
| `log_space` | 3 processes, 5 blocks, 1 value, log of 5, reservation 2, 1 block per call | the log never fills, no panic, no lost wakeup |
| `log_full` | log of 2, reservation 1, 3 blocks | the panic "too big a transaction" is reached by a call within its limit |
| `proc` | 3 slots, 2 CPUs, all calls but pause | one CPU per stack, no orphan, no lost wakeup |
| `proc_fork` | 4 slots, 1 CPU, fork, exit, wait | forks at once keep their children apart, orphans reach init, and init is woken for them |
| `proc_pause` | 3 slots, 1 CPU and the clock, all calls | nobody sleeps past its tick |
| `proc_live` | 3 slots, 1 CPU, all calls but pause | zombies that belong to init are reaped, unless init panics or its shell exits first |
| `proc_kill0` | 3 slots, 1 CPU, `kill(0)` allowed | a free slot gets marked killed |
| `bufcache` | 3 processes, 2 buffers, 4 blocks (log, indirect, bitmap, other), 1 pin | one buffer per block, no recycling in use, coherence, exact counts, no lost wakeup, no circular wait |
| `pipe` | 2 writers, 1 killable reader, 2 bytes of room, counters modulo 4 | bounded FIFO, no lost wakeup, freed once, hang-up ends calls |
| `pipe_kill` | the same, a writer may be killed | a reader sleeps on a pipe that holds data |

*Why these bounds.* Log: in `log` two processes join a group or wait for each
other's commit, and a transaction has more than one block. Its two blocks cannot
fill the log, and a call that waits there has nobody left to wake it at the end
of another call; both happen in `log_space`, which has as many blocks as the log
and a third process, and one value, since it is about space and waiting only.
The refinement was also checked with three processes (2.6 million states) and
with three blocks (9.8 million). Proc: two CPUs with three slots make the switch,
sleep, wakeup, wait, exit and kill paths of two processes truly concurrent, but
leave only init beside a process that forks a grandchild. Four slots, on one CPU
with preemption wherever no spin lock is held, add what that misses: two forks at
once, exit and wait during a fork, and orphans whose exiting parent is not itself
a child of init, so that `wakeup(initproc)` in `reparent` matters by itself. Kill
during a fork is covered with three slots only, and kill together with pause on
one CPU only (four slots with kill have more than 2 million states, three slots
and two CPUs with every call 2.1 million; the latter was run once, without
error). BufCache: four blocks for two buffers force recycling, and three
processes holding two buffers each allow circular waits. Pipe: room for two bytes
and counters that wrap at four reach full, empty and both wraps; two writers
compete and keep the pipe open after one has left.

*Deadlock* is checked in all runs. Terminated systems (a freed pipe, a panic)
stutter explicitly.

*Fairness.* Log: a process that can run does, calls that have begun end, boot
proceeds; nobody is obliged to make a call, and `CallsStart` assumes that new
calls and crashes cease, because overlapping calls may postpone a commit for
ever. Proc: only what the reaping of zombies needs. A CPU inside a switch or a
critical section goes on (interrupts are off); the timer interrupts whatever a
CPU keeps running (a pending interrupt is taken when locks are released); the
scan of `scheduler` comes back to init; init goes round its loop and is granted
the spin locks it spins on. The last two are strong fairness: `acquire` and the
scheduler's scan are loops that try again. `AdoptedAreReaped` leaves two ways out,
both real: init panics, or its shell exits first, for a shell that always exits
before init waits, in a slot below the zombie's, starves it. It is checked on one
CPU: with more, strong fairness of a lock step says nothing of a process that is always
preempted just when the lock is free. Pipe: processes run, and a spinning
`acquire` succeeds in the end.

## Disagreements found

* `log_write` tests for a full log before it looks for the block in it
  (`log.c:221`); a call of exactly `MAXOPBLOCKS` blocks that writes one of them
  again can panic (`log_full`). `LogNeverPanics` shows that one block less
  is safe.
* `kkill` matches the pid 0 of free slots (`proc.c:599`), and `allocproc` does
  not clear `killed` (`proc_kill0`).
* `pipewrite` returns early for a killed writer without waking the readers of
  the bytes it has already written (`pipe.c:84`, `pipe_kill`).

## Proofs

`LogProofs` proves, for any finite sets of processes and blocks and any
`OpBlocks <= MAXOPBLOCKS <= LOGBLOCKS` (assumption `LogConstants`):

* `LogInvariant`: `Spec => []LogInv`;
* `TypeCorrect`, `SpaceIsReserved`, `NoLostWakeup`: its conjuncts `TypeOK`,
  `SpaceReserved`, `SleepersMustWait`;
* `LogNeverPanics`: with `OpBlocks < MAXOPBLOCKS`, `Spec => []NoPanic`.

The argument is about space: `Reserved` is the set of log slots that calls in
progress were promised and have not used, and `SpaceReserved` says that these
and the slots in use fit in the log. This is not inductive alone. A `log_write`
uses up one of its own reserved slots only if the blocks of its call are all in
the log (`WritesLogged`) and `outstanding` counts the calls (`CallsCounted`);
`begin_op` re-establishes the sum only if no commit is running
(`CommitRunsAlone`); pin counts stay natural numbers because exactly the logged
and not yet installed blocks are pinned (`PinnedUntilInstalled`, `TailInRange`,
`EmptyWhenIdle`); a crash makes all of it trivial (`BootAlone`). `LogInv` is the
conjunction, checked by the run `log` and shown preserved action by action.

Model-checked only: the refinement of `AtomicDisk`, everything about `Proc`,
`BufCache` and `Pipe`, and all liveness (fairness is outside the prover).

## Not modelled

Assembly, boot, the interrupt controller, formatting, `mkfs` and the user
programs other than init's loop; of `exit`, closing the files and releasing the
directory; of `forkret`, the start of the file system and of `/init` by the first
process; a `pipealloc` that fails. Spin locks are taken as correct.

## Plan

1. `Inode`: inode table, directories, create/link/unlink/open, orphans and
   `ireclaim`, with `fsinfo` as a concurrent scan; invariants relating link
   counts, references and directory entries, and crash at transaction borders.
2. `File`: file table and descriptors over fork, dup, close and exit.
3. `Virtio`: descriptors, rings and completion; refined by the atomic transfer
   that `BufCache` assumes.
4. `Memory`: conservation of pages over fork, exec, sbrk and failures.
5. `Console`: input ring and UART handshake.
6. Proofs: that `Log` implements `AtomicDisk` (with the phase invariant that says
   which of cache, log and home holds each block's content); the invariants of
   `Proc` for any number of slots and CPUs; reference counting of `BufCache`,
   with the number of buffers that rules out "bget: no buffers".
