--------------------------------- MODULE Proc ---------------------------------
(***************************************************************************)
(* The process table of kernel/proc.c: fork, exit, wait, kill, sleep and   *)
(* wakeup, yield and the per-CPU scheduler, with the spinlocks that order  *)
(* them (p->lock, wait_lock, tickslock), and the clock interrupt with      *)
(* sys_pause as a second user of sleep.                                    *)
(*                                                                         *)
(* One action is a critical section, or the part of one up to the next     *)
(* lock it must acquire.  A process acts only while a CPU runs it.  p->lock*)
(* is held across swtch: sw[p] says whether p is entering sched ("out"),   *)
(* off the CPU ("off"), has just been switched to ("in"), or runs ("no").  *)
(* A process has a pid exactly when its slot is not UNUSED, so kill names  *)
(* its victim by slot.  Every process but init makes any system call at    *)
(* any time, out of Calls; init runs the loop of user/init.c.              *)
(***************************************************************************)
EXTENDS Integers, FiniteSets

CONSTANTS NPROC,      \* size of the process table; slot 1 is initproc
          CPUs,
          Calls,      \* the system calls that the user programs make
          KillsUnused, \* kill is also called with pid 0, the pid of no process
          None        \* no process, no lock holder, no channel

Slots == 1..NPROC
initproc == 1
Clock == 0            \* the clock interrupt as a lock holder; also &ticks

ASSUME ProcConstants ==
  /\ NPROC \in Nat /\ NPROC >= 1
  /\ Calls \subseteq {"fork", "exit", "wait", "kill", "pause"}
  /\ KillsUnused \in BOOLEAN
  /\ None \notin CPUs /\ None \notin Nat
  /\ \A c \in CPUs : c \notin Nat

VARIABLES
  state, chan, killed, parent,  \* fields of struct proc
  plock,      \* holder of each p->lock
  waitLock,   \* holder of wait_lock
  ticksLock,  \* holder of tickslock
  cproc,      \* c->proc of each CPU
  sw,         \* progress of a process through sched and swtch
  pc,         \* where each process is in its system call
  child,      \* np in kfork
  visit,      \* loop index of wakeup, of each process and of the clock
  due,        \* ticks - ticks0 >= n, for a process in sys_pause
  shell       \* pid in user/init.c: the shell init waits for, None when
              \* it is about to fork one

vars == <<state, chan, killed, parent, plock, waitLock, ticksLock, cproc, sw,
          pc, child, visit, due, shell>>

Init ==
  /\ state = [p \in Slots |-> IF p = initproc THEN "RUNNABLE" ELSE "UNUSED"]
  /\ chan = [p \in Slots |-> None]
  /\ killed = [p \in Slots |-> FALSE]
  /\ parent = [p \in Slots |-> None]
  /\ plock = [p \in Slots |-> None]
  /\ waitLock = None
  /\ ticksLock = None
  /\ cproc = [c \in CPUs |-> None]
  /\ sw = [p \in Slots |-> "off"]
  /\ pc = [p \in Slots |-> "user"]
  /\ child = [p \in Slots |-> None]
  /\ visit = [w \in Slots \union {Clock} |-> 0]
  /\ due = [p \in Slots |-> FALSE]
  /\ shell = None

-------------------------------------------------------------------------------
(* CPU c is executing process p, which is past the swtch to it. *)
Runs(c, p) == cproc[c] = p /\ sw[p] = "no"
Goto(p, l) == pc' = [pc EXCEPT ![p] = l]
Children(p) == {q \in Slots : parent[q] = p}

(* The pieces of state an action of each group leaves alone. *)
schedVars == <<cproc, sw>>
treeVars == <<killed, parent, child, due, shell>>

(* scheduler: take p->lock, mark the process RUNNING and swtch to it. *)
Schedule(c, p) ==
  /\ cproc[c] = None
  /\ plock[p] = None
  /\ state[p] = "RUNNABLE"
  /\ state' = [state EXCEPT ![p] = "RUNNING"]
  /\ cproc' = [cproc EXCEPT ![c] = p]
  /\ plock' = [plock EXCEPT ![p] = c]
  /\ sw' = [sw EXCEPT ![p] = "in"]
  /\ UNCHANGED <<chan, treeVars, waitLock, ticksLock, pc, visit>>

(* The process returns from sched, or starts in forkret, and releases its  *)
(* lock; sleep clears its channel first.                                   *)
SwitchedIn(c, p) ==
  /\ cproc[c] = p
  /\ sw[p] = "in"
  /\ chan' = [chan EXCEPT ![p] = None]
  /\ plock' = [plock EXCEPT ![p] = None]
  /\ sw' = [sw EXCEPT ![p] = "no"]
  /\ UNCHANGED <<state, treeVars, waitLock, ticksLock, cproc, pc, visit>>

(* sched and the return to scheduler, which releases the lock of p. *)
SwitchedOut(c, p) ==
  /\ cproc[c] = p
  /\ sw[p] = "out"
  /\ cproc' = [cproc EXCEPT ![c] = None]
  /\ plock' = [plock EXCEPT ![p] = None]
  /\ sw' = [sw EXCEPT ![p] = "off"]
  /\ UNCHANGED <<state, chan, treeVars, waitLock, ticksLock, pc, visit>>

(* Labels at which a process holds no lock, so that its CPU takes timer    *)
(* interrupts.                                                             *)
Preemptible == {"user", "fork_parent", "fork_run", "exit", "wait", "pause", "panic"}

Labels == Preemptible \union
  {"exit_init", "exit_parent", "exit_zombie", "wait_scan", "wait_sleep",
   "pause_test", "pause_sleep"}

(* A timer interrupt, from user or kernel mode, makes the process yield. *)
Yield(c, p) ==
  /\ Runs(c, p)
  /\ pc[p] \in Preemptible
  /\ plock[p] = None
  /\ plock' = [plock EXCEPT ![p] = c]
  /\ state' = [state EXCEPT ![p] = "RUNNABLE"]
  /\ sw' = [sw EXCEPT ![p] = "out"]
  /\ UNCHANGED <<chan, treeVars, waitLock, ticksLock, cproc, pc, visit>>

-------------------------------------------------------------------------------
(* A process in user space may enter the kernel; a killed one does not get *)
(* past usertrap and exits instead.                                        *)
EntersKernel(c, p) == Runs(c, p) /\ pc[p] = "user" /\ ~killed[p]
Makes(c, p, call) == EntersKernel(c, p) /\ p # initproc /\ call \in Calls

(* init forks whenever it has no shell, and waits otherwise; it exits when *)
(* a call has failed.                                                      *)
MayFork(c, p) ==
  Makes(c, p, "fork") \/ (p = initproc /\ EntersKernel(c, p) /\ shell = None)
MayWait(c, p) ==
  Makes(c, p, "wait") \/ (p = initproc /\ EntersKernel(c, p) /\ shell # None)
AfterError(p) == IF p = initproc THEN "exit" ELSE "user"

Die(c, p) ==
  /\ Runs(c, p)
  /\ pc[p] = "user"
  /\ plock[p] = None
  /\ killed[p]
  /\ Goto(p, "exit")
  /\ UNCHANGED <<state, chan, treeVars, plock, waitLock, ticksLock, schedVars, visit>>

(* freeproc, on a slot whose lock is held. *)
FreeSlot(q) ==
  /\ state' = [state EXCEPT ![q] = "UNUSED"]
  /\ chan' = [chan EXCEPT ![q] = None]
  /\ killed' = [killed EXCEPT ![q] = FALSE]
  /\ parent' = [parent EXCEPT ![q] = None]

(* Variant of ForkAlloc: the slot stays UNUSED until the child can run. *)
ForkAllocUnused(c, p, np) ==
  /\ MayFork(c, p)
  /\ state[np] = "UNUSED"
  /\ plock[np] = None
  /\ child' = [child EXCEPT ![p] = np]
  /\ pc' = [pc EXCEPT ![p] = "fork_parent", ![np] = "user"]
  /\ sw' = [sw EXCEPT ![np] = "off"]
  /\ UNCHANGED <<state, chan, killed, parent, plock, waitLock, ticksLock, cproc,
                 visit, due, shell>>

(* kfork up to the release of np->lock: allocproc, uvmcopy and the rest    *)
(* succeed.                                                                *)
ForkAlloc(c, p, np) ==
  /\ MayFork(c, p)
  /\ state[np] = "UNUSED"
  /\ plock[np] = None
  /\ state' = [state EXCEPT ![np] = "USED"]
  /\ child' = [child EXCEPT ![p] = np]
  /\ pc' = [pc EXCEPT ![p] = "fork_parent", ![np] = "user"]
  /\ sw' = [sw EXCEPT ![np] = "off"]
  /\ UNCHANGED <<chan, killed, parent, plock, waitLock, ticksLock, cproc, visit,
                 due, shell>>

(* Memory runs out: the slot is freed again before its lock is released. *)
ForkFail(c, p, np) ==
  /\ MayFork(c, p)
  /\ state[np] = "UNUSED"
  /\ plock[np] = None
  /\ FreeSlot(np)
  /\ Goto(p, AfterError(p))
  /\ UNCHANGED <<plock, waitLock, ticksLock, schedVars, child, visit, due, shell>>

(* allocproc finds no free slot. *)
ForkFull(c, p) ==
  /\ MayFork(c, p)
  /\ \A np \in Slots : state[np] # "UNUSED"
  /\ Goto(p, AfterError(p))
  /\ UNCHANGED <<state, chan, treeVars, plock, waitLock, ticksLock, schedVars, visit>>

ForkParent(c, p) ==
  /\ Runs(c, p)
  /\ pc[p] = "fork_parent"
  /\ waitLock = None
  /\ parent' = [parent EXCEPT ![child[p]] = p]
  /\ Goto(p, "fork_run")
  /\ UNCHANGED <<state, chan, killed, plock, waitLock, ticksLock, schedVars, child,
                 visit, due, shell>>

ForkRun(c, p) ==
  /\ Runs(c, p)
  /\ pc[p] = "fork_run"
  /\ plock[child[p]] = None
  /\ state' = [state EXCEPT ![child[p]] = "RUNNABLE"]
  /\ child' = [child EXCEPT ![p] = None]
  /\ shell' = IF p = initproc THEN child[p] ELSE shell
  /\ Goto(p, "user")
  /\ UNCHANGED <<chan, killed, parent, plock, waitLock, ticksLock, schedVars, visit, due>>

-------------------------------------------------------------------------------
(* One step of the loop of wakeup(ch), run by w: a process, or the clock.  *)
(* Slot visit[w] is looked at under its lock; w skips itself.              *)
WakeupVisit(w, ch) ==
  LET q == visit[w]
  IN  /\ q = w \/ plock[q] = None
      /\ state' = IF q # w /\ state[q] = "SLEEPING" /\ chan[q] = ch
                  THEN [state EXCEPT ![q] = "RUNNABLE"] ELSE state

(* sys_exit. *)
Exit(c, p) ==
  /\ Makes(c, p, "exit")
  /\ Goto(p, "exit")
  /\ UNCHANGED <<state, chan, treeVars, plock, waitLock, ticksLock, schedVars, visit>>

(* kexit of init: panic("init exiting"), which spins for ever. *)
InitExits(c, p) ==
  /\ Runs(c, p)
  /\ pc[p] = "exit" /\ p = initproc
  /\ Goto(p, "panic")
  /\ UNCHANGED <<state, chan, treeVars, plock, waitLock, ticksLock, schedVars, visit>>

(* Variants of ExitReparent: the children keep their exiting parent; init  *)
(* is not woken.                                                           *)
ExitReparentForgets(c, p) ==
  /\ Runs(c, p)
  /\ pc[p] = "exit" /\ p # initproc
  /\ waitLock = None
  /\ waitLock' = c
  /\ Goto(p, "exit_parent")
  /\ visit' = [visit EXCEPT ![p] = 1]
  /\ UNCHANGED <<state, chan, killed, parent, plock, ticksLock, schedVars, child, due, shell>>

ExitReparentSilent(c, p) ==
  /\ Runs(c, p)
  /\ pc[p] = "exit" /\ p # initproc
  /\ waitLock = None
  /\ waitLock' = c
  /\ parent' = [q \in Slots |-> IF parent[q] = p THEN initproc ELSE parent[q]]
  /\ Goto(p, "exit_parent")
  /\ visit' = [visit EXCEPT ![p] = 1]
  /\ UNCHANGED <<state, chan, killed, plock, ticksLock, schedVars, child, due, shell>>

(* kexit takes wait_lock and gives its children to init.  The wakeup of    *)
(* init follows if there were any, then that of the parent.                *)
ExitReparent(c, p) ==
  /\ Runs(c, p)
  /\ pc[p] = "exit" /\ p # initproc
  /\ waitLock = None
  /\ waitLock' = c
  /\ parent' = [q \in Slots |-> IF parent[q] = p THEN initproc ELSE parent[q]]
  /\ Goto(p, IF Children(p) = {} THEN "exit_parent" ELSE "exit_init")
  /\ visit' = [visit EXCEPT ![p] = 1]
  /\ UNCHANGED <<state, chan, killed, plock, ticksLock, schedVars, child, due, shell>>

(* Variants of ExitWakeup: the loop runs one slot too far; the parent is   *)
(* not woken.                                                              *)
ExitWakeupOverrun(c, p) ==
  /\ Runs(c, p)
  /\ pc[p] \in {"exit_init", "exit_parent"}
  /\ WakeupVisit(p, IF pc[p] = "exit_init" THEN initproc ELSE parent[p])
  /\ visit' = [visit EXCEPT ![p] = @ + 1]
  /\ UNCHANGED <<chan, treeVars, plock, waitLock, ticksLock, schedVars, pc>>
ExitWakeupNotParent(c, p) ==
  /\ Runs(c, p)
  /\ pc[p] \in {"exit_init", "exit_parent"}
  /\ Goto(p, "exit_zombie")
  /\ UNCHANGED <<state, chan, treeVars, plock, waitLock, ticksLock, schedVars, visit>>

ExitWakeup(c, p) ==
  /\ Runs(c, p)
  /\ pc[p] \in {"exit_init", "exit_parent"}
  /\ WakeupVisit(p, IF pc[p] = "exit_init" THEN initproc ELSE parent[p])
  /\ IF visit[p] < NPROC
     THEN visit' = [visit EXCEPT ![p] = @ + 1] /\ UNCHANGED pc
     ELSE /\ visit' = [visit EXCEPT ![p] = 1]
          /\ Goto(p, IF pc[p] = "exit_init" THEN "exit_parent" ELSE "exit_zombie")
  /\ UNCHANGED <<chan, treeVars, plock, waitLock, ticksLock, schedVars>>

ExitZombie(c, p) ==
  /\ Runs(c, p)
  /\ pc[p] = "exit_zombie"
  /\ plock[p] = None
  /\ plock' = [plock EXCEPT ![p] = c]
  /\ state' = [state EXCEPT ![p] = "ZOMBIE"]
  /\ waitLock' = None
  /\ sw' = [sw EXCEPT ![p] = "out"]
  /\ visit' = [visit EXCEPT ![p] = 0]
  /\ Goto(p, "user")
  /\ UNCHANGED <<chan, treeVars, ticksLock, cproc>>

-------------------------------------------------------------------------------
(* sys_wait. *)
Wait(c, p) ==
  /\ MayWait(c, p)
  /\ Goto(p, "wait")
  /\ UNCHANGED <<state, chan, treeVars, plock, waitLock, ticksLock, schedVars, visit>>

WaitLock(c, p) ==
  /\ Runs(c, p)
  /\ pc[p] = "wait"
  /\ waitLock = None
  /\ waitLock' = c
  /\ Goto(p, "wait_scan")
  /\ UNCHANGED <<state, chan, treeVars, plock, ticksLock, schedVars, visit>>

Zombies(p) == {q \in Children(p) : state[q] = "ZOMBIE"}

FirstZombie(p, q) == q \in Zombies(p) /\ \A r \in Zombies(p) : q <= r

(* The scan finds the first exited child, once that child is off its CPU.  *)
(* init asks whether it was its shell.                                     *)
WaitReap(c, p, q) ==
  /\ Runs(c, p)
  /\ pc[p] = "wait_scan"
  /\ FirstZombie(p, q)
  /\ plock[q] = None
  /\ FreeSlot(q)
  /\ waitLock' = None
  /\ shell' = IF p = initproc /\ q = shell THEN None ELSE shell
  /\ Goto(p, "user")
  /\ UNCHANGED <<plock, ticksLock, schedVars, child, visit, due>>

(* The exit status cannot be copied out; the child stays a zombie.  init   *)
(* passes no address.                                                      *)
WaitFault(c, p, q) ==
  /\ Runs(c, p)
  /\ pc[p] = "wait_scan"
  /\ p # initproc
  /\ FirstZombie(p, q)
  /\ plock[q] = None
  /\ waitLock' = None
  /\ Goto(p, "user")
  /\ UNCHANGED <<state, chan, treeVars, plock, ticksLock, schedVars, visit>>

(* No child has exited: return if there is none or if p is killed. *)
WaitTest(c, p) ==
  /\ Runs(c, p)
  /\ pc[p] = "wait_scan"
  /\ Zombies(p) = {}
  /\ plock[p] = None
  /\ IF Children(p) = {} \/ killed[p]
     THEN waitLock' = None /\ Goto(p, AfterError(p))
     ELSE Goto(p, "wait_sleep") /\ UNCHANGED waitLock
  /\ UNCHANGED <<state, chan, treeVars, plock, ticksLock, schedVars, visit>>

(* Variant of Sleep: p->lock is not held into sched. *)
SleepUnlocked(c, p, ch) ==
  /\ plock[p] = None
  /\ chan' = [chan EXCEPT ![p] = ch]
  /\ state' = [state EXCEPT ![p] = "SLEEPING"]
  /\ sw' = [sw EXCEPT ![p] = "out"]
  /\ UNCHANGED plock

(* sleep(ch, lk) up to sched: p->lock is taken before lk is released. *)
Sleep(c, p, ch) ==
  /\ plock[p] = None
  /\ plock' = [plock EXCEPT ![p] = c]
  /\ chan' = [chan EXCEPT ![p] = ch]
  /\ state' = [state EXCEPT ![p] = "SLEEPING"]
  /\ sw' = [sw EXCEPT ![p] = "out"]

WaitSleep(c, p) ==
  /\ Runs(c, p)
  /\ pc[p] = "wait_sleep"
  /\ Sleep(c, p, p)
  /\ waitLock' = None
  /\ Goto(p, "wait")
  /\ UNCHANGED <<treeVars, ticksLock, cproc, visit>>

-------------------------------------------------------------------------------
(* kkill on the process in slot q, or, for pid 0, on the first free slot.  *)
Kill(c, p, q) ==
  /\ Makes(c, p, "kill")
  /\ plock[q] = None
  /\ state[q] = "UNUSED" =>
       KillsUnused /\ \A r \in Slots : state[r] = "UNUSED" => q <= r
  /\ killed' = [killed EXCEPT ![q] = TRUE]
  /\ state' = IF state[q] = "SLEEPING" THEN [state EXCEPT ![q] = "RUNNABLE"] ELSE state
  /\ UNCHANGED <<chan, parent, plock, waitLock, ticksLock, schedVars, pc, child,
                 visit, due, shell>>

-------------------------------------------------------------------------------
(* sys_pause(1): wait for the next tick.  A longer pause goes round the    *)
(* same loop more often.                                                   *)
Pause(c, p) ==
  /\ Makes(c, p, "pause")
  /\ ticksLock = None
  /\ ticksLock' = c
  /\ due' = [due EXCEPT ![p] = FALSE]
  /\ Goto(p, "pause_test")
  /\ UNCHANGED <<state, chan, killed, parent, child, shell, plock, waitLock, schedVars, visit>>

(* Variant of PauseTest: tickslock is released before the sleep. *)
PauseTestUnlocks(c, p) ==
  /\ Runs(c, p)
  /\ pc[p] = "pause_test"
  /\ plock[p] = None
  /\ ticksLock' = None
  /\ Goto(p, IF due[p] \/ killed[p] THEN "user" ELSE "pause_sleep")
  /\ UNCHANGED <<state, chan, treeVars, plock, waitLock, schedVars, visit>>

PauseTest(c, p) ==
  /\ Runs(c, p)
  /\ pc[p] = "pause_test"
  /\ plock[p] = None
  /\ IF due[p] \/ killed[p]
     THEN ticksLock' = None /\ Goto(p, "user")
     ELSE Goto(p, "pause_sleep") /\ UNCHANGED ticksLock
  /\ UNCHANGED <<state, chan, treeVars, plock, waitLock, schedVars, visit>>

PauseSleep(c, p) ==
  /\ Runs(c, p)
  /\ pc[p] = "pause_sleep"
  /\ Sleep(c, p, Clock)
  /\ ticksLock' = None
  /\ Goto(p, "pause")
  /\ UNCHANGED <<treeVars, waitLock, cproc, visit>>

PauseAgain(c, p) ==
  /\ Runs(c, p)
  /\ pc[p] = "pause"
  /\ ticksLock = None
  /\ ticksLock' = c
  /\ Goto(p, "pause_test")
  /\ UNCHANGED <<state, chan, treeVars, plock, waitLock, schedVars, visit>>

(* clockintr: ticks++, then wakeup(&ticks) slot by slot.  It is left out   *)
(* where nobody waits for a tick.                                          *)
Tick ==
  /\ "pause" \in Calls
  /\ ticksLock = None
  /\ ticksLock' = Clock
  /\ due' = [p \in Slots |-> TRUE]
  /\ visit' = [visit EXCEPT ![Clock] = 1]
  /\ UNCHANGED <<state, chan, killed, parent, child, shell, plock, waitLock, schedVars, pc>>

TickWakeup ==
  /\ ticksLock = Clock
  /\ WakeupVisit(Clock, Clock)
  /\ IF visit[Clock] < NPROC
     THEN visit' = [visit EXCEPT ![Clock] = @ + 1] /\ UNCHANGED ticksLock
     ELSE visit' = [visit EXCEPT ![Clock] = 0] /\ ticksLock' = None
  /\ UNCHANGED <<chan, treeVars, plock, waitLock, schedVars, pc>>

-------------------------------------------------------------------------------
Cpu(c, p) ==
  \/ Schedule(c, p) \/ SwitchedIn(c, p) \/ SwitchedOut(c, p) \/ Yield(c, p)
Step(c, p) ==
  \/ Die(c, p) \/ ForkParent(c, p) \/ ForkRun(c, p)
  \/ InitExits(c, p) \/ ExitReparent(c, p) \/ ExitWakeup(c, p) \/ ExitZombie(c, p)
  \/ WaitLock(c, p) \/ WaitTest(c, p) \/ WaitSleep(c, p)
  \/ PauseTest(c, p) \/ PauseSleep(c, p) \/ PauseAgain(c, p)
  \/ \E q \in Slots : WaitReap(c, p, q) \/ WaitFault(c, p, q)
Syscall(c, p) ==
  \/ Exit(c, p) \/ Wait(c, p) \/ Pause(c, p) \/ ForkFull(c, p)
  \/ \E q \in Slots : ForkAlloc(c, p, q) \/ ForkFail(c, p, q) \/ Kill(c, p, q)

Next ==
  \/ \E c \in CPUs, p \in Slots : Cpu(c, p) \/ Step(c, p) \/ Syscall(c, p)
  \/ Tick
  \/ TickWakeup

Spec == Init /\ [][Next]_vars

(* What the reaping of zombies by init needs: a CPU in the middle of a     *)
(* switch or a critical section goes on, its timer interrupts the process  *)
(* it runs (the interrupt stays pending while a lock is held), the         *)
(* scheduler's scan gets to init again and again, and init goes round its  *)
(* loop and is granted the spinlocks it spins on.                          *)
InitLoops(c) ==
  \/ Step(c, initproc) \/ Wait(c, initproc) \/ ForkFull(c, initproc)
  \/ \E np \in Slots : ForkAlloc(c, initproc, np) \/ ForkFail(c, initproc, np)

Fairness ==
  /\ \A c \in CPUs :
       /\ WF_vars(\E p \in Slots : SwitchedIn(c, p) \/ SwitchedOut(c, p) \/ Step(c, p))
       /\ SF_vars(\E p \in Slots : Yield(c, p))
  /\ SF_vars(\E c \in CPUs : Schedule(c, initproc))
  /\ SF_vars(\E c \in CPUs : InitLoops(c))
  /\ WF_vars(TickWakeup)

LiveSpec == Spec /\ Fairness

-------------------------------------------------------------------------------
(* Every field of the table has its type, locks are held by CPUs or the    *)
(* clock, and the loops of wakeup stay inside the table (proc.c:573-587).  *)
TypeOK ==
  /\ state \in [Slots -> {"UNUSED", "USED", "SLEEPING", "RUNNABLE", "RUNNING", "ZOMBIE"}]
  /\ chan \in [Slots -> Slots \union {Clock, None}]
  /\ killed \in [Slots -> BOOLEAN]
  /\ parent \in [Slots -> Slots \union {None}]
  /\ plock \in [Slots -> CPUs \union {None}]
  /\ waitLock \in CPUs \union {None}
  /\ ticksLock \in CPUs \union {Clock, None}
  /\ cproc \in [CPUs -> Slots \union {None}]
  /\ sw \in [Slots -> {"out", "off", "in", "no"}]
  /\ pc \in [Slots -> Labels]
  /\ child \in [Slots -> Slots \union {None}]
  /\ visit \in [Slots \union {Clock} -> 0..NPROC]
  /\ due \in [Slots -> BOOLEAN]
  /\ shell \in Slots \union {None}

(* A kernel stack is used by one CPU at a time, and a slot that is still   *)
(* on a CPU while no longer RUNNING (it yielded, sleeps or has exited)     *)
(* has its p->lock held by that CPU, so that nobody can schedule, wake,    *)
(* reap or reuse it before the swtch in sched is done (proc.c:472-490).    *)
OneCpuPerStack ==
  \A p \in Slots : LET on == {c \in CPUs : cproc[c] = p} IN
    /\ \A c, d \in on : c = d
    /\ state[p] = "RUNNING" => on # {}
    /\ state[p] # "RUNNING" => \A c \in on : plock[p] = c /\ sw[p] = "out"

(* Every process that can run or has exited, other than init, has a parent *)
(* that is alive and can still reap it: kexit hands its children to init   *)
(* under wait_lock before it becomes a zombie (proc.c:310-321, 349-363).   *)
NoOrphans ==
  \A p \in Slots \ {initproc} :
    state[p] \in {"RUNNABLE", "RUNNING", "SLEEPING", "ZOMBIE"} =>
      parent[p] \in Slots /\ state[parent[p]] \notin {"UNUSED", "USED", "ZOMBIE"}

(* No wakeup is lost: a process asleep in wait has no zombie child, and    *)
(* one asleep in sys_pause has not reached its tick, unless the wakeup     *)
(* loop that will reach it is still running (proc.c:542-587).              *)
NoLostWakeup ==
  \A p \in Slots : state[p] = "SLEEPING" =>
    /\ chan[p] = p /\ Zombies(p) # {} =>
         p = initproc /\ \E q \in Slots : pc[q] = "exit_init" /\ visit[q] <= p
    /\ chan[p] = Clock /\ due[p] => ticksLock = Clock /\ visit[Clock] <= p

(* A child that fork is still making is nobody else's: between the three   *)
(* critical sections of kfork no other fork is given its slot, no CPU runs *)
(* it, and reparent and wait leave its parent alone (proc.c:267-303).      *)
HalfMadeIsPrivate ==
  \A p \in Slots : child[p] # None =>
    /\ parent[child[p]] = IF pc[p] = "fork_run" THEN p ELSE None
    /\ \A q \in Slots \ {p} : child[q] # child[p]
    /\ \A c \in CPUs : cproc[c] # child[p]

(* kill marks processes only: kkill is documented to "Kill the process with *)
(* the given pid" (proc.c:589).  Pid 0 is the pid of no process but is     *)
(* what p->pid holds in a free slot.                                       *)
OnlyProcessesKilled == \A p \in Slots : killed[p] => state[p] # "UNUSED"

(* A zombie that init has adopted, or started, is reaped (proc.c:370-415,  *)
(* with the loop of user/init.c), unless init has panicked or its shell    *)
(* has exited first: wait takes the first zombie of the table, so that a   *)
(* shell that keeps exiting at once keeps the others waiting.              *)
AdoptedAreReaped ==
  \A p \in Slots \ {initproc} :
    state[p] = "ZOMBIE" /\ parent[p] = initproc
      ~> state[p] = "UNUSED" \/ pc[initproc] = "panic" \/ shell = None
===============================================================================
