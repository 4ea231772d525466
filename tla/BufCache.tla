------------------------------- MODULE BufCache -------------------------------
(***************************************************************************)
(* The buffer cache of kernel/bio.c with the sleep locks of sleeplock.c:   *)
(* bget, bread, bwrite, brelse, bpin and bunpin, the recycling of the      *)
(* least recently used buffer, and its callers.  The disk has the blocks   *)
(* of the log, indirect blocks, bitmap blocks and the others.  A process   *)
(* holds one buffer, or two where write_log, install_trans, bmap or itrunc *)
(* gets a second one while it holds the first.  A change of a home block   *)
(* is logged, which pins its buffer until install_trans has written it     *)
(* home; a block of the log is written at once.                            *)
(*                                                                         *)
(* bcache.lock is held for one action at a time, or for ever by a process  *)
(* that panics in bget.  A sleep lock has a holder and sleepers, which     *)
(* releasesleep wakes.                                                     *)
(***************************************************************************)
EXTENDS Integers, Sequences, FiniteSets, SequencesExt

CONSTANTS Procs,
          NBUF,     \* number of buffers
          LogArea, Indirect, Bitmap, Others,  \* the blocks of the disk
          MaxPins,  \* blocks the log keeps pinned at a time
          Values, None

Bufs == 1..NBUF
Home == Indirect \union Bitmap \union Others
Blocks == LogArea \union Home
MaxHeld == 2

ASSUME BufConstants ==
  /\ IsFiniteSet(Procs)
  /\ NBUF \in Nat \ {0} /\ MaxPins \in Nat
  /\ LogArea \intersect Home = {} /\ Indirect \intersect Bitmap = {}
  /\ Others \intersect (Indirect \union Bitmap) = {}
  /\ None \notin Procs \union Values \union Blocks

VARIABLES
  lru,      \* the list of bcache, most recently used first
  blockno, valid, refcnt, content,  \* fields of struct buf; data is content
  holder,   \* holder of b->lock
  disk,     \* the blocks on disk
  pinned,   \* blocks the log has pinned
  held,     \* the buffers each process has got from bget, oldest first
  wanted,   \* the block a process is asking bread for
  pc,       \* where each process is
  latest    \* history: the last content given to each block

vars == <<lru, blockno, valid, refcnt, content, holder, disk, pinned, held,
          wanted, pc, latest>>

Init ==
  /\ lru = [i \in Bufs |-> NBUF + 1 - i]
  /\ blockno = [i \in Bufs |-> None]
  /\ valid = [i \in Bufs |-> FALSE]
  /\ refcnt = [i \in Bufs |-> 0]
  /\ \E v \in Values : /\ content = [i \in Bufs |-> v]
                       /\ disk = [b \in Blocks |-> v]
                       /\ latest = [b \in Blocks |-> v]
  /\ holder = [i \in Bufs |-> None]
  /\ pinned = {}
  /\ held = [p \in Procs |-> <<>>]
  /\ wanted = [p \in Procs |-> None]
  /\ pc = [p \in Procs |-> "run"]

-------------------------------------------------------------------------------
Cached(b) == {i \in Bufs : blockno[i] = b}
(* Variant of Unused: a buffer is taken for unused when nobody locks it. *)
UnusedUnlocked == {i \in Bufs : holder[i] = None}
Unused == {i \in Bufs : refcnt[i] = 0}
(* Position in the list. *)
At(i) == CHOOSE k \in DOMAIN lru : lru[k] = i
LeastRecent(S) == CHOOSE i \in S : \A j \in S : At(j) <= At(i)
(* The buffer a process got last. *)
Top(p) == Last(held[p])

(* Variant of Hit: bget does not look for the block first. *)
HitNever(b) == FALSE
Hit(b) == Cached(b) # {}

(* Who gets a second buffer while it holds a first one.  write_log: a log  *)
(* block, then the home block it will be a copy of; install_trans: the     *)
(* same two, in the same order.                                            *)
WriteLogNests == LogArea \X Home
InstallNests == LogArea \X Home
(* bmap: the indirect block, then in balloc a bitmap block, and when that  *)
(* one is released the new block.  Variant: the bitmap block is still held *)
(* when the indirect block is read.                                        *)
BmapNestsReversed == Bitmap \X Indirect
BmapNests == Indirect \X (Bitmap \union Others)
(* itrunc: the indirect block, then in bfree a bitmap block. *)
ItruncNests == Indirect \X Bitmap

(* Every other caller of bread holds no buffer. *)
MayGet(p, b) ==
  \/ held[p] = <<>>
  \/ /\ Len(held[p]) = 1
     /\ <<blockno[held[p][1]], b>> \in
          WriteLogNests \union InstallNests \union BmapNests \union ItruncNests

(* A process that panics in bget never releases bcache.lock. *)
Panicked == \E p \in Procs : pc[p] = "panic"
LockFree == ~Panicked

(* The first half of bget, under bcache.lock. *)
Bget(p, b) ==
  /\ pc[p] = "run" /\ LockFree
  /\ MayGet(p, b)
  /\ IF Hit(b)
     THEN LET i == CHOOSE i \in Cached(b) : TRUE
          IN  /\ refcnt' = [refcnt EXCEPT ![i] = @ + 1]
              /\ held' = [held EXCEPT ![p] = Append(@, i)]
              /\ pc' = [pc EXCEPT ![p] = "acquire"]
              /\ UNCHANGED <<blockno, valid>>
     ELSE IF Unused # {}
     THEN LET i == LeastRecent(Unused)
          IN  /\ blockno' = [blockno EXCEPT ![i] = b]
              /\ valid' = [valid EXCEPT ![i] = FALSE]
              /\ refcnt' = [refcnt EXCEPT ![i] = 1]
              /\ held' = [held EXCEPT ![p] = Append(@, i)]
              /\ pc' = [pc EXCEPT ![p] = "acquire"]
     ELSE /\ pc' = [pc EXCEPT ![p] = "panic"]
          /\ UNCHANGED <<refcnt, held, blockno, valid>>
  /\ wanted' = [wanted EXCEPT ![p] = b]
  /\ UNCHANGED <<lru, content, holder, disk, pinned, latest>>

(* acquiresleep: sleep while the lock is taken. *)
AcquireSleep(p) ==
  /\ pc[p] = "acquire"
  /\ IF holder[Top(p)] = None
     THEN /\ holder' = [holder EXCEPT ![Top(p)] = p]
          /\ pc' = [pc EXCEPT ![p] = "read"]
     ELSE pc' = [pc EXCEPT ![p] = "asleep"] /\ UNCHANGED holder
  /\ UNCHANGED <<lru, blockno, valid, refcnt, content, disk, pinned, held, wanted, latest>>

(* The rest of bread. *)
Bread(p) ==
  /\ pc[p] = "read"
  /\ content' = IF valid[Top(p)] THEN content
                ELSE [content EXCEPT ![Top(p)] = disk[blockno[Top(p)]]]
  /\ valid' = [valid EXCEPT ![Top(p)] = TRUE]
  /\ wanted' = [wanted EXCEPT ![p] = None]
  /\ pc' = [pc EXCEPT ![p] = "run"]
  /\ UNCHANGED <<lru, blockno, refcnt, holder, disk, pinned, held, latest>>

-------------------------------------------------------------------------------
(* Variants of Pins: log_write never pins the buffer; it pins it at every  *)
(* change of the block.                                                    *)
PinsNever(b) == 0
PinsAlways(b) == 1
(* The references log_write adds: one, when the block was not logged yet. *)
Pins(b) == IF b \in pinned THEN 0 ELSE 1

(* The holder changes the data and calls log_write, which pins the buffer  *)
(* the first time a transaction changes the block.                         *)
LogWrite(p, v) ==
  /\ pc[p] = "run" /\ held[p] # <<>> /\ LockFree
  /\ LET i == Top(p)  b == blockno[Top(p)]
     IN  /\ b \in Home
         /\ Cardinality(pinned \union {b}) <= MaxPins
         /\ content' = [content EXCEPT ![i] = v]
         /\ latest' = [latest EXCEPT ![b] = v]
         /\ pinned' = pinned \union {b}
         /\ refcnt' = [refcnt EXCEPT ![i] = @ + Pins(b)]
  /\ UNCHANGED <<lru, blockno, valid, holder, disk, held, wanted, pc>>

(* Variant of Unpins: recovery, too, unpins what it installs. *)
UnpinsAny(b) == TRUE
Unpins(b) == b \in pinned

(* install_trans holds a log block and the home block: it writes the       *)
(* latter home and unpins it (bwrite, bunpin).  That the copy in the log   *)
(* is what the buffer holds is a property of module Log.                   *)
Install(p) ==
  /\ pc[p] = "run" /\ Len(held[p]) = 2 /\ LockFree
  /\ blockno[held[p][1]] \in LogArea
  /\ LET i == Top(p)  b == blockno[Top(p)]
     IN  /\ Unpins(b)
         /\ disk' = [disk EXCEPT ![b] = content[i]]
         /\ pinned' = pinned \ {b}
         /\ refcnt' = [refcnt EXCEPT ![i] = @ - 1]
  /\ UNCHANGED <<lru, blockno, valid, content, holder, held, wanted, pc, latest>>

(* write_log and write_head change a block of the log, the first of the    *)
(* buffers they hold, and write it at once.                                *)
Bwrite(p, v) ==
  /\ pc[p] = "run" /\ held[p] # <<>>
  /\ LET i == held[p][1]  b == blockno[held[p][1]]
     IN  /\ b \in LogArea
         /\ IF holder[i] = p
            THEN /\ content' = [content EXCEPT ![i] = v]
                 /\ disk' = [disk EXCEPT ![b] = v]
                 /\ latest' = [latest EXCEPT ![b] = v]
                 /\ UNCHANGED pc
            ELSE pc' = [pc EXCEPT ![p] = "panic"] /\ UNCHANGED <<content, disk, latest>>
  /\ UNCHANGED <<lru, blockno, valid, refcnt, holder, pinned, held, wanted>>

-------------------------------------------------------------------------------
(* The processes that releasesleep of buffer i wakes; variant: none. *)
WokenByNone(i) == {}
WokenBy(i) == {q \in Procs : pc[q] = "asleep" /\ Top(q) = i}

(* brelse of one of the buffers held, which becomes the top one: the test  *)
(* that its lock is held, releasesleep, which wakes the sleepers, ...      *)
ReleaseSleep(p, k) ==
  /\ pc[p] = "run" /\ k \in DOMAIN held[p]
  /\ LET i == held[p][k]
     IN  IF holder[i] = p
         THEN /\ holder' = [holder EXCEPT ![i] = None]
              /\ held' = [held EXCEPT ![p] = Append(RemoveAt(@, k), i)]
              /\ pc' = [q \in Procs |-> IF q = p THEN "brelse"
                                        ELSE IF q \in WokenBy(i) THEN "acquire" ELSE pc[q]]
         ELSE pc' = [pc EXCEPT ![p] = "panic"] /\ UNCHANGED <<holder, held>>
  /\ UNCHANGED <<lru, blockno, valid, refcnt, content, disk, pinned, wanted, latest>>

(* ... then the reference goes and an unused buffer becomes the most       *)
(* recently used.                                                          *)
Brelse(p) ==
  /\ pc[p] = "brelse" /\ LockFree
  /\ LET i == Top(p)
     IN  /\ refcnt' = [refcnt EXCEPT ![i] = @ - 1]
         /\ lru' = IF refcnt[i] = 1 THEN <<i>> \o Remove(lru, i) ELSE lru
  /\ held' = [held EXCEPT ![p] = Front(@)]
  /\ pc' = [pc EXCEPT ![p] = "run"]
  /\ UNCHANGED <<blockno, valid, content, holder, disk, pinned, wanted, latest>>

-------------------------------------------------------------------------------
Step(p) ==
  \/ AcquireSleep(p) \/ Bread(p) \/ Install(p) \/ Brelse(p)
  \/ \E k \in 1..MaxHeld : ReleaseSleep(p, k)
  \/ \E b \in Blocks : Bget(p, b)
  \/ \E v \in Values : LogWrite(p, v) \/ Bwrite(p, v)

(* panic spins; the others go on until they need bcache.lock. *)
Halt == Panicked /\ UNCHANGED vars
Next == (\E p \in Procs : Step(p)) \/ Halt

Spec == Init /\ [][Next]_vars

-------------------------------------------------------------------------------
(* Every variable has its type; no reference count goes below zero         *)
(* (bio.c:116-151).                                                        *)
TypeOK ==
  /\ lru \in [Bufs -> Bufs]
  /\ blockno \in [Bufs -> Blocks \union {None}]
  /\ valid \in [Bufs -> BOOLEAN]
  /\ refcnt \in [Bufs -> Nat]
  /\ content \in [Bufs -> Values]
  /\ holder \in [Bufs -> Procs \union {None}]
  /\ disk \in [Blocks -> Values]
  /\ pinned \subseteq Blocks
  /\ held \in [Procs -> Seq(Bufs)]
  /\ wanted \in [Procs -> Blocks \union {None}]
  /\ pc \in [Procs -> {"run", "acquire", "asleep", "read", "brelse", "panic"}]
  /\ latest \in [Blocks -> Values]

(* A block has at most one buffer, so that processes synchronise on it     *)
(* (bget, bio.c:58-89).                                                    *)
OneBufferPerBlock == \A i, j \in Bufs : blockno[i] = blockno[j] /\ blockno[i] # None => i = j

(* The buffer bread returns is the one of the block asked for, and nobody  *)
(* else holds it: it was not recycled between bget's release of            *)
(* bcache.lock and acquiresleep (bio.c:68-85).                             *)
GetsWhatItAsked ==
  \A p \in Procs :
    /\ pc[p] \in {"acquire", "asleep", "read"} => blockno[Top(p)] = wanted[p]
    /\ pc[p] = "run" => \A k \in DOMAIN held[p] : holder[held[p][k]] = p

(* The cache never shows or keeps old data: a block's last content is in   *)
(* its valid buffer, and on disk too unless the block is pinned            *)
(* (bio.c:76-103, 139-151).                                                *)
Coherent ==
  \A b \in Blocks :
    /\ \A i \in Cached(b) : valid[i] => content[i] = latest[b]
    /\ b \notin pinned => disk[b] = latest[b]
    /\ b \in pinned => \E i \in Cached(b) : valid[i] /\ refcnt[i] > 0

(* A reference is counted for every process that has the buffer from bget  *)
(* or waits for it, and one for the log's pin: none leaks, none is dropped *)
(* early (bio.c:68, 82, 125, 139-151).                                     *)
References(i) == {r \in Procs \X (1..MaxHeld) :
                    r[2] \in DOMAIN held[r[1]] /\ held[r[1]][r[2]] = i}
RefsCounted ==
  \A i \in Bufs :
    refcnt[i] = Cardinality(References(i)) + IF blockno[i] \in pinned THEN 1 ELSE 0

(* No wakeup of a sleep lock is lost: a process sleeps in acquiresleep only*)
(* while another process holds the lock (sleeplock.c:21-41).               *)
SleepersHaveHolder ==
  \A p \in Procs : pc[p] = "asleep" => holder[Top(p)] \notin {None, p}

(* Buffer locks do not deadlock, whatever mix of write_log, install_trans, *)
(* bmap and itrunc runs (log.c:75-76, 185-186, fs.c:430-433, 463-467): in  *)
(* no group of processes does each sleep on a buffer that another one of   *)
(* the group holds.                                                        *)
NoCircularWait ==
  \A S \in (SUBSET Procs) \ {{}} :
    \E p \in S : pc[p] # "asleep" \/ holder[Top(p)] \notin S
===============================================================================
