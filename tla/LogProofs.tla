------------------------------ MODULE LogProofs -------------------------------
(***************************************************************************)
(* Proofs about Log for any number of processes and blocks and any size of *)
(* the log.                                                                *)
(***************************************************************************)
EXTENDS Log, FiniteSetTheorems, TLAPS

(* The calls in progress, and the pairs that Reserved is made of. *)
Active == {p \in Procs : pc[p] = "op"}

ReservedBound ==
  /\ IsFiniteSet(Active) /\ Cardinality(Active) \in Nat
  /\ IsFiniteSet(Reserved) /\ Cardinality(Reserved) \in Nat
  /\ Cardinality(Reserved) <= Cardinality(Active) * MAXOPBLOCKS

(* The reserved slots are finitely many, at most MAXOPBLOCKS per call. *)
LEMMA ReservedFinite == ReservedBound
<1>1. IsFiniteSet(Active) /\ Cardinality(Active) \in Nat
  BY LogConstants, FS_Subset, FS_CardinalityType, Active \in SUBSET Procs DEF Active
<1>2. IsFiniteSet(1..MAXOPBLOCKS) /\ Cardinality(1..MAXOPBLOCKS) = MAXOPBLOCKS
  BY LogConstants, FS_Interval
<1>3. /\ IsFiniteSet(Active \X (1..MAXOPBLOCKS))
      /\ Cardinality(Active \X (1..MAXOPBLOCKS)) = Cardinality(Active) * MAXOPBLOCKS
  BY <1>1, <1>2, FS_Product, Zenon
<1>4. Reserved \in SUBSET (Active \X (1..MAXOPBLOCKS))
  BY DEF Reserved, Active
<1>. QED
  BY <1>1, <1>3, <1>4, FS_Subset, FS_CardinalityType DEF ReservedBound

(* The initial state satisfies the invariant. *)
LEMMA InitInv == Init => LogInv
<1>. SUFFICES ASSUME Init PROVE LogInv
  OBVIOUS
<1>1. TypeOK
  <2>1. disk \in [Blocks -> Data] /\ dlog \in [Slots -> Data]
    BY DEF Init, Data
  <2>2. tail \in Slots
    BY LogConstants DEF Init, Slots
  <2>3. committing \in BOOLEAN
    BY Zenon DEF Init
  <2>. QED
    BY <2>1, <2>2, <2>3 DEF Init, TypeOK
<1>2. Active = {} /\ Reserved = {} /\ Len(lh) = 0 /\ outstanding = 0
  BY DEF Init, Active, Reserved
<1>3. CommitRunsAlone /\ WritesLogged /\ TailInRange /\ EmptyWhenIdle /\ BootAlone
      /\ SleepersMustWait
  BY LogConstants DEF Init, CommitRunsAlone, WritesLogged, Distinct, TailInRange, Copying,
     EmptyWhenIdle, BootAlone, SleepersMustWait, CommitSteps
<1>4. CallsCounted
  BY <1>2, FS_EmptySet, Zenon DEF CallsCounted, Active
<1>5. SpaceReserved
  BY <1>2, FS_EmptySet, LogConstants DEF SpaceReserved
<1>6. PinnedUntilInstalled
  BY DEF Init, PinnedUntilInstalled
<1>. QED
  BY <1>1, <1>3, <1>4, <1>5, <1>6 DEF LogInv

(* When begin_op must wait there is a call or a commit to wait for: an     *)
(* empty log has room for one call.                                        *)
LEMMA WaitsForSomething ==
  ASSUME LogInv, boot = "up", MustWait
  PROVE  committing \/ \E q \in Procs : pc[q] = "op"
<1>. SUFFICES ASSUME ~committing, Active = {}
              PROVE  FALSE
  BY DEF Active
<1>1. outstanding = 0
  BY FS_EmptySet DEF LogInv, CallsCounted, Active
<1>2. Len(lh) = 0
  BY <1>1 DEF LogInv, EmptyWhenIdle
<1>. QED
  BY <1>1, <1>2, LogConstants DEF MustWait

(* Steps that touch neither the log nor the pins, outside install_trans. *)
LEMMA PinsKept ==
  ASSUME LogInv, UNCHANGED <<lh, pins, tail>>, {boot, boot'} \subseteq {"up", "panic"},
         \A q \in Procs : pc'[q] = "install" <=> pc[q] = "install"
  PROVE  PinnedUntilInstalled'
<1>1. Logged' = Logged /\ \A i : Installed(i)' = Installed(i)
  BY DEF Logged, Installed
<1>. QED
  BY <1>1 DEF LogInv, PinnedUntilInstalled

(* Entering begin_op, and going to sleep there, preserve the invariant. *)
LEMMA CallInv ==
  ASSUME LogInv, NEW p \in Procs, Call(p) \/ BeginSleep(p)
  PROVE  LogInv'
<1>1. TypeOK'
  BY DEF LogInv, TypeOK, Call, BeginSleep
<1>2. Active' = Active /\ Reserved' = Reserved
  BY DEF LogInv, TypeOK, Call, BeginSleep, Active, Reserved
<1>3. CallsCounted' /\ SpaceReserved'
  BY <1>2 DEF LogInv, CallsCounted, SpaceReserved, Call, BeginSleep, Active
<1>4. CommitRunsAlone' /\ TailInRange' /\ EmptyWhenIdle' /\ BootAlone'
  BY DEF LogInv, TypeOK, Call, BeginSleep, CommitRunsAlone, TailInRange, Copying,
         EmptyWhenIdle, BootAlone, CommitSteps
<1>5. WritesLogged'
  <2>1. Logged' = Logged /\ UNCHANGED <<lh, dhead, wrote>>
    BY DEF Call, BeginSleep, Logged
  <2>. QED
    BY <1>2, <2>1 DEF LogInv, WritesLogged, Distinct, Active
<1>6. SleepersMustWait'
  <2>1. MustWait' = MustWait /\ boot = "up"
    BY DEF MustWait, Call, BeginSleep
  <2>. QED
    BY <2>1, <1>2, WaitsForSomething
    DEF LogInv, TypeOK, Call, BeginSleep, SleepersMustWait, Active
<1>7. PinnedUntilInstalled'
  BY PinsKept DEF LogInv, TypeOK, Call, BeginSleep
<1>. QED
  BY <1>1, <1>3, <1>4, <1>5, <1>6, <1>7 DEF LogInv

(* begin_op admits a call only if the log has room for MAXOPBLOCKS more    *)
(* blocks, on top of what every other call in progress was promised.       *)
LEMMA BeginOpInv ==
  ASSUME LogInv, NEW p \in Procs, BeginOp(p)
  PROVE  LogInv'
<1>1. TypeOK'
  BY DEF LogInv, TypeOK, BeginOp
<1>2. Active' = Active \union {p} /\ p \notin Active
  BY DEF LogInv, TypeOK, BeginOp, Active
<1>3. CallsCounted'
  <2>1. Cardinality(Active') = Cardinality(Active) + 1
    BY <1>2, FS_AddElement, ReservedFinite, Zenon DEF ReservedBound
  <2>. QED
    BY <2>1 DEF LogInv, CallsCounted, BeginOp, Active
<1>4. SpaceReserved'
  <2>1. ReservedBound'
    BY ReservedFinite, PTL
  <2>2. Cardinality(Active') = outstanding + 1
    BY <1>3 DEF CallsCounted, BeginOp, Active
  <2>3. Len(lh) + (outstanding + 1) * MAXOPBLOCKS <= LOGBLOCKS /\ lh' = lh
    BY LogConstants DEF BeginOp, MustWait, LogInv, TypeOK
  <2>. QED
    BY <2>1, <2>2, <2>3, LogConstants DEF SpaceReserved, ReservedBound, LogInv, TypeOK
<1>5. CommitRunsAlone' /\ TailInRange' /\ EmptyWhenIdle' /\ BootAlone'
  BY DEF LogInv, TypeOK, BeginOp, MustWait, CommitRunsAlone, TailInRange, Copying,
         EmptyWhenIdle, BootAlone, CommitSteps
<1>6. WritesLogged'
  BY FS_EmptySet, LogConstants DEF LogInv, TypeOK, BeginOp, WritesLogged, Logged, Distinct
<1>7. SleepersMustWait'
  <2>1. ASSUME NEW q \in Procs, pc'[q] = "sleep" PROVE MustWait'
    <3>1. MustWait /\ ~committing
      BY <2>1 DEF LogInv, TypeOK, BeginOp, SleepersMustWait, MustWait
    <3>. QED
      BY <3>1 DEF BeginOp
  <2>. QED
    BY <2>1 DEF SleepersMustWait, BeginOp, LogInv, TypeOK
<1>8. PinnedUntilInstalled'
  BY PinsKept DEF LogInv, TypeOK, BeginOp
<1>. QED
  BY <1>1, <1>3, <1>4, <1>5, <1>6, <1>7, <1>8 DEF LogInv

(* Appending to a sequence keeps its elements and adds one. *)
LEMMA AppendKeeps ==
  ASSUME NEW S, NEW s \in Seq(S), NEW e \in S
  PROVE  /\ {s[i] : i \in DOMAIN s} \subseteq {Append(s, e)[i] : i \in DOMAIN Append(s, e)}
         /\ e \in {Append(s, e)[i] : i \in DOMAIN Append(s, e)}
<1>1. /\ DOMAIN Append(s, e) = 1..(Len(s) + 1) /\ DOMAIN s = 1..Len(s) /\ Len(s) \in Nat
      /\ \A i \in 1..Len(s) : Append(s, e)[i] = s[i]
      /\ Append(s, e)[Len(s) + 1] = e
  OBVIOUS
<1>. QED
  BY <1>1

(* log_write uses one of the slots its call was promised, or none when the *)
(* block is already in the log.                                            *)
LEMMA LogWriteInv ==
  ASSUME LogInv, NEW p \in Procs, NEW b \in Blocks, NEW v \in Values, LogWrite(p, b, v)
  PROVE  LogInv'
<1>. DEFINE n == Cardinality(wrote[p])
<1>1. IsFiniteSet(wrote[p]) /\ n \in Nat
  BY FS_Subset, FS_CardinalityType, LogConstants DEF LogInv, TypeOK
<1>2. Cardinality(wrote[p] \union {b}) = IF b \in wrote[p] THEN n ELSE n + 1
  BY <1>1, FS_AddElement, Zenon
<1>3. /\ pc' = pc /\ outstanding' = outstanding /\ committing' = committing
      /\ tail' = tail /\ dhead' = dhead
      /\ boot = "up" /\ pc[p] = "op" /\ boot' \in {"up", "panic"}
  BY DEF LogWrite
<1>4. \/ lh' = lh /\ pins' = pins /\ wrote' = wrote
      \/ /\ lh' = lh /\ pins' = pins /\ b \in Logged
         /\ wrote' = [wrote EXCEPT ![p] = @ \union {b}]
      \/ /\ lh' = Append(lh, b) /\ pins' = [pins EXCEPT ![b] = @ + 1] /\ b \notin Logged
         /\ wrote' = [wrote EXCEPT ![p] = @ \union {b}]
  BY DEF LogWrite
<1>5. TypeOK'
  <2>1. cache' \in [Blocks -> Data \union {NotCached}]
    BY DEF LogWrite, LogInv, TypeOK, Data
  <2>2. lh' \in Seq(Blocks)
    <3>1. lh' = lh \/ lh' = Append(lh, b)
      BY <1>4
    <3>2. lh \in Seq(Blocks) /\ Append(lh, b) \in Seq(Blocks)
      BY DEF LogInv, TypeOK
    <3>. QED
      BY <3>1, <3>2
  <2>3. pins' \in [Blocks -> Nat]
    BY <1>4 DEF LogInv, TypeOK
  <2>4. wrote' \in [Procs -> SUBSET Blocks]
    BY <1>4 DEF LogInv, TypeOK
  <2>. QED
    BY <1>3, <2>1, <2>2, <2>3, <2>4 DEF LogWrite, LogInv, TypeOK
<1>6. CallsCounted' /\ CommitRunsAlone' /\ BootAlone'
  BY <1>3 DEF LogInv, CallsCounted, CommitRunsAlone, BootAlone
<1>7. outstanding > 0 /\ ~committing
  <2>1. Active # {} /\ Cardinality(Active) \in Nat /\ IsFiniteSet(Active)
    BY <1>3, ReservedFinite DEF Active, ReservedBound
  <2>. QED
    BY <2>1, FS_EmptySet DEF LogInv, CallsCounted, Active, CommitRunsAlone
<1>8. TailInRange' /\ EmptyWhenIdle'
  BY <1>3, <1>4, <1>7
  DEF LogInv, TypeOK, TailInRange, Copying, EmptyWhenIdle, CommitRunsAlone,
      CommitSteps
<1>9. WritesLogged'
  <2>1. Logged \subseteq Logged' /\ (wrote' # wrote => b \in Logged')
    <3>1. CASE lh' = lh /\ (wrote' = wrote \/ b \in Logged)
      BY <3>1 DEF Logged
    <3>2. CASE lh' = Append(lh, b)
      <4>1. lh \in Seq(Blocks)
        BY DEF LogInv, TypeOK
      <4>. QED
        BY <3>2, <4>1, AppendKeeps DEF Logged
    <3>. QED
      BY <1>4, <3>1, <3>2
  <2>2. ASSUME NEW q \in Procs, pc'[q] = "op"
        PROVE  wrote'[q] \subseteq Logged'
    <3>1. wrote[q] \subseteq Logged
      BY <1>3, <2>2 DEF LogInv, WritesLogged
    <3>2. wrote' = wrote \/ wrote' = [wrote EXCEPT ![p] = @ \union {b}]
      BY <1>4
    <3>. QED
      BY <2>1, <3>1, <3>2, Zenon DEF LogInv, TypeOK
  <2>3. ASSUME NEW q \in Procs, pc'[q] = "op"
        PROVE  Cardinality(wrote'[q]) <= OpBlocks
    <3>1. Cardinality(wrote[p] \union {b}) <= OpBlocks
      BY DEF LogWrite
    <3>. QED
      BY <1>3, <1>4, <2>3, <3>1, Zenon DEF LogInv, TypeOK, WritesLogged
  <2>4. ASSUME NEW i \in DOMAIN lh', NEW j \in DOMAIN lh', lh'[i] = lh'[j]
        PROVE  i = j
    <3>1. CASE lh' = lh
      BY <2>4, <3>1 DEF LogInv, WritesLogged, Distinct
    <3>2. CASE lh' = Append(lh, b) /\ b \notin Logged
      <4>1. lh \in Seq(Blocks) /\ \A k \in 1..Len(lh) : lh[k] # b
        BY <3>2 DEF LogInv, TypeOK, Logged
      <4>. QED
        BY <2>4, <3>2, <4>1 DEF LogInv, WritesLogged, Distinct
    <3>. QED
      BY <1>4, <3>1, <3>2
  <2>. QED
    BY <1>3, <2>2, <2>3, <2>4 DEF LogInv, WritesLogged, Distinct
<1>10. SpaceReserved'
  <2>. DEFINE c == <<p, n + 1>>
  <2>1. /\ IsFiniteSet(Reserved) /\ Cardinality(Reserved) \in Nat
        /\ Len(lh) + Cardinality(Reserved) <= LOGBLOCKS /\ Len(lh) \in Nat
    BY ReservedFinite DEF ReservedBound, LogInv, SpaceReserved, TypeOK
  <2>2. CASE lh' = lh
    <3>1. Reserved' \in SUBSET Reserved
      <4>1. ASSUME NEW q \in Procs
            PROVE  Cardinality(wrote'[q]) >= Cardinality(wrote[q])
        <5>1. IsFiniteSet(wrote[q]) /\ Cardinality(wrote[q]) \in Nat
          BY FS_Subset, FS_CardinalityType, LogConstants DEF LogInv, TypeOK
        <5>2. wrote'[q] = wrote[q] \/ (q = p /\ wrote'[q] = wrote[p] \union {b})
          BY <1>4 DEF LogInv, TypeOK
        <5>. QED
          BY <1>1, <1>2, <5>1, <5>2
      <4>2. ASSUME NEW q \in Procs
            PROVE  Cardinality(wrote[q]) \in Nat /\ Cardinality(wrote'[q]) \in Nat
        BY <1>5, FS_Subset, FS_CardinalityType, LogConstants DEF LogInv, TypeOK
      <4>. QED
        BY <1>3, <4>1, <4>2 DEF Reserved
    <3>. QED
      BY <2>1, <2>2, <3>1, FS_Subset, FS_CardinalityType, LogConstants DEF SpaceReserved
  <2>3. CASE lh' = Append(lh, b) /\ b \notin Logged
             /\ wrote' = [wrote EXCEPT ![p] = @ \union {b}]
    <3>1. b \notin wrote[p] /\ n + 1 <= OpBlocks
      BY <1>2, <1>3, <2>3 DEF LogInv, WritesLogged, LogWrite
    <3>2. c \in Reserved /\ n + 1 \in 1..MAXOPBLOCKS
      BY <1>1, <1>3, <3>1, LogConstants DEF Reserved
    <3>3. Reserved' \in SUBSET (Reserved \ {c})
      BY <1>1, <1>2, <1>3, <2>3, <3>1 DEF Reserved, LogInv, TypeOK
    <3>4. IsFiniteSet(Reserved \ {c}) /\ Cardinality(Reserved \ {c}) = Cardinality(Reserved) - 1
      BY <2>1, <3>2, FS_RemoveElement
    <3>5. Cardinality(Reserved') <= Cardinality(Reserved) - 1 /\ Cardinality(Reserved') \in Nat
      BY <3>3, <3>4, FS_Subset, FS_CardinalityType
    <3>6. Len(lh') = Len(lh) + 1
      BY <2>3 DEF LogInv, TypeOK
    <3>. QED
      BY <2>1, <3>5, <3>6, LogConstants DEF SpaceReserved
  <2>. QED
    BY <1>4, <2>2, <2>3
<1>11. SleepersMustWait'
  <2>1. MustWait => MustWait'
    <3>1. Len(lh') >= Len(lh) /\ Len(lh) \in Nat /\ Len(lh') \in Nat
      BY <1>4 DEF LogInv, TypeOK
    <3>2. (outstanding + 1) * MAXOPBLOCKS \in Nat
      BY LogConstants DEF LogInv, TypeOK
    <3>. QED
      BY <1>3, <3>1, <3>2, LogConstants DEF MustWait
  <2>. QED
    BY <1>3, <2>1 DEF SleepersMustWait, LogInv
<1>12. PinnedUntilInstalled'
  <2>1. CASE lh' = lh /\ pins' = pins
    BY <1>3, <2>1, PinsKept
  <2>2. CASE lh' = Append(lh, b) /\ pins' = [pins EXCEPT ![b] = @ + 1] /\ b \notin Logged
    <3>1. /\ lh \in Seq(Blocks) /\ pins \in [Blocks -> Nat] /\ pins[b] = 0 /\ pins'[b] = 1
          /\ \A c \in Blocks \ {b} : pins'[c] = pins[c]
      BY <2>2 DEF LogInv, TypeOK, PinnedUntilInstalled
    <3>2. \A q \in Procs : pc[q] # "install"
      BY <1>7 DEF LogInv, CommitRunsAlone, CommitSteps
    <3>3. \A i \in 1..Len(lh) : lh[i] \in Blocks /\ lh[i] # b /\ pins[lh[i]] = 1
      BY <1>3, <2>2, <3>1, <3>2 DEF LogInv, PinnedUntilInstalled, Installed, Logged
    <3>4. \A i \in DOMAIN lh' : pins'[lh'[i]] = 1
      BY <2>2, <3>1, <3>3
    <3>5. \A c \in Blocks \ Logged' : pins'[c] = 0
      <4>1. Logged \subseteq Logged' /\ b \in Logged'
        <5>1. lh \in Seq(Blocks)
          BY <3>1
        <5>. QED
          BY <2>2, <5>1, AppendKeeps DEF Logged
      <4>. QED
        BY <3>1, <4>1 DEF LogInv, PinnedUntilInstalled
    <3>. QED
      BY <1>3, <3>2, <3>4, <3>5 DEF PinnedUntilInstalled, Installed
  <2>. QED
    BY <1>4, <2>1, <2>2
<1>. QED
  BY <1>5, <1>6, <1>8, <1>9, <1>10, <1>11, <1>12 DEF LogInv

(* end_op gives back the slots of its call, and the last call to end finds *)
(* no commit in progress and becomes the only committer.                   *)
LEMMA EndOpInv ==
  ASSUME LogInv, NEW p \in Procs, EndOp(p)
  PROVE  LogInv'
<1>1. p \in Active /\ outstanding = Cardinality(Active) /\ boot = "up"
  BY DEF EndOp, Active, LogInv, CallsCounted
<1>2. outstanding > 0 /\ outstanding \in Nat /\ ~committing
  BY <1>1, ReservedFinite, FS_EmptySet DEF ReservedBound, LogInv, CommitRunsAlone
<1>3. /\ outstanding' = outstanding - 1 /\ boot' = "up" /\ committing' = (outstanding' = 0)
      /\ pc' = IF outstanding' # 0 THEN Woken([pc EXCEPT ![p] = "idle"])
               ELSE [pc EXCEPT ![p] = IF lh = <<>> THEN "done" ELSE "write_log"]
      /\ UNCHANGED <<disk, dlog, dhead, cache, pins, lh, wrote, tail>>
  BY <1>2 DEF EndOp
<1>4. /\ pc'[p] \in {"idle", "done", "write_log"}
      /\ pc'[p] = "idle" <=> outstanding' # 0
      /\ pc'[p] = "write_log" => lh # <<>>
      /\ pc'[p] = "done" => lh = <<>>
      /\ \A q \in Procs \ {p} :
            pc'[q] = pc[q] \/ (pc[q] = "sleep" /\ pc'[q] = "begin" /\ outstanding' # 0)
      /\ outstanding' # 0 => \A q \in Procs : pc'[q] # "sleep"
  BY <1>3 DEF LogInv, TypeOK, Woken
<1>5. TypeOK'
  <2>1. pc' \in [Procs -> {"idle", "begin", "sleep", "op"} \union CommitSteps]
    BY <1>3 DEF LogInv, TypeOK, Woken, CommitSteps
  <2>2. committing' \in BOOLEAN
    BY <1>3
  <2>3. outstanding' \in Nat /\ boot' = boot
    BY <1>1, <1>2, <1>3
  <2>. QED
    BY <1>3, <2>1, <2>2, <2>3, Zenon DEF LogInv, TypeOK
<1>6. Active' = Active \ {p}
  BY <1>4 DEF Active
<1>7. CallsCounted'
  BY <1>1, <1>3, <1>6, FS_RemoveElement, ReservedFinite, Zenon DEF CallsCounted, Active, ReservedBound
<1>8. SpaceReserved'
  <2>1. Reserved' \in SUBSET Reserved
    BY <1>3, <1>4, Zenon DEF Reserved
  <2>2. Cardinality(Reserved') \in Nat /\ Cardinality(Reserved') <= Cardinality(Reserved)
    BY <2>1, FS_Subset, FS_CardinalityType, ReservedFinite DEF ReservedBound
  <2>. QED
    BY <1>3, <2>2, ReservedFinite, LogConstants
    DEF SpaceReserved, ReservedBound, LogInv, TypeOK
<1>9. CommitRunsAlone'
  <2>1. \A q \in Procs : pc[q] \notin CommitSteps
    BY <1>2 DEF LogInv, CommitRunsAlone
  <2>2. \A q \in Procs : pc'[q] \in CommitSteps <=> (q = p /\ outstanding' = 0)
    BY <1>4, <2>1 DEF CommitSteps
  <2>. QED
    BY <1>3, <2>2, Zenon DEF CommitRunsAlone
<1>10. WritesLogged' /\ BootAlone'
  <2>1. Logged' = Logged /\ \A q \in Procs : pc'[q] = "op" => pc[q] = "op"
    BY <1>3, <1>4, Zenon DEF Logged
  <2>. QED
    BY <1>3, <2>1, Zenon DEF LogInv, WritesLogged, BootAlone, Distinct
<1>11. TailInRange'
  <2>1. \A q \in Procs \ {p} : pc'[q] \notin {"write_log", "write_head", "install"}
    BY <1>2, <1>4 DEF LogInv, CommitRunsAlone, CommitSteps
  <2>2. tail = 1
    BY <1>1, <1>2 DEF LogInv, TailInRange, Copying, CommitRunsAlone, CommitSteps
  <2>3. lh # <<>> => Len(lh) >= 1
    BY DEF LogInv, TypeOK
  <2>. QED
    BY <1>3, <1>4, <2>1, <2>2, <2>3, Zenon DEF LogInv, TailInRange, Copying
<1>12. EmptyWhenIdle'
  BY <1>2, <1>3, <1>4, Zenon DEF LogInv, EmptyWhenIdle, CommitRunsAlone, CommitSteps
<1>13. SleepersMustWait'
  BY <1>3, <1>4, Zenon DEF SleepersMustWait, MustWait
<1>14. PinnedUntilInstalled'
  <2>1. \A q \in Procs : pc'[q] # "install" /\ pc[q] # "install"
    BY <1>2, <1>4 DEF LogInv, CommitRunsAlone, CommitSteps
  <2>. QED
    BY <1>1, <1>3, <2>1, PinsKept, Zenon
<1>. QED
  BY <1>5, <1>7, <1>8, <1>9, <1>10, <1>11, <1>12, <1>13, <1>14 DEF LogInv

(* Steps that leave the calls in progress alone and do not lengthen the    *)
(* log keep the accounts and, unless a process goes to sleep, the sleepers.*)
LEMMA AccountsKept ==
  ASSUME LogInv, UNCHANGED <<outstanding, wrote>>, lh' \in Seq(Blocks), Len(lh') <= Len(lh),
         \A q \in Procs : pc'[q] = "op" <=> pc[q] = "op"
  PROVE  CallsCounted' /\ SpaceReserved'
<1>1. Active' = Active /\ Reserved' = Reserved
  BY DEF Active, Reserved
<1>2. CallsCounted'
  BY <1>1, Zenon DEF LogInv, CallsCounted, Active
<1>3. SpaceReserved'
  BY <1>1, ReservedFinite, LogConstants
  DEF LogInv, TypeOK, SpaceReserved, ReservedBound
<1>. QED
  BY <1>2, <1>3

(* The steps of the committer up to the last write of the header. *)
LEMMA CopyInv ==
  ASSUME LogInv, NEW p \in Procs,
         WriteLog(p) \/ WriteHead(p) \/ InstallTrans(p) \/ EraseLog(p)
  PROVE  LogInv'
<1>1. /\ boot = "up" /\ boot' = "up"
      /\ pc[p] \in CommitSteps \ {"done"}
      /\ UNCHANGED <<outstanding, committing, wrote>>
      /\ pc' = pc \/ \E s \in CommitSteps : pc' = [pc EXCEPT ![p] = s]
  BY DEF WriteLog, WriteHead, InstallTrans, EraseLog, CommitSteps
<1>1a. /\ pc'[p] \in CommitSteps
       /\ \A q \in Procs \ {p} : pc'[q] = pc[q]
       /\ pc' \in [Procs -> {"idle", "begin", "sleep", "op"} \union CommitSteps]
  BY <1>1, Zenon DEF LogInv, TypeOK
<1>2. /\ committing /\ outstanding = 0
      /\ \A q \in Procs \ {p} : pc[q] \notin CommitSteps
      /\ \A q \in Procs : pc[q] # "op" /\ pc'[q] # "op"
  <2>1. committing /\ outstanding = 0 /\ \A q \in Procs \ {p} : pc[q] \notin CommitSteps
    BY <1>1 DEF LogInv, CommitRunsAlone
  <2>2. Active = {}
    BY <2>1, ReservedFinite, FS_EmptySet, Zenon DEF LogInv, CallsCounted, Active, ReservedBound
  <2>. QED
    BY <1>1a, <2>1, <2>2 DEF Active, CommitSteps
<1>3. /\ Len(lh) \in Nat /\ Len(lh) <= LOGBLOCKS
      /\ pc[p] \in {"write_log", "install"} => tail <= Len(lh)
      /\ pc[p] \in {"write_head", "erase"} => tail = 1
      /\ pc[p] = "write_head" => lh # <<>>
      /\ pc[p] = "erase" => lh = <<>>
      /\ tail \in Nat /\ 1 <= tail
  <2>1. Len(lh) \in Nat /\ tail \in Nat /\ 1 <= tail
    BY DEF LogInv, TypeOK, Slots
  <2>2. Len(lh) <= LOGBLOCKS
    BY <2>1, ReservedFinite, LogConstants DEF LogInv, SpaceReserved, ReservedBound
  <2>3. Copying <=> pc[p] \in {"write_log", "install"}
    BY <1>1, <1>2 DEF Copying, CommitSteps
  <2>. QED
    BY <1>1, <2>1, <2>2, <2>3 DEF LogInv, TailInRange, EmptyWhenIdle
<1>4. /\ lh' = lh \/ lh' = <<>>
      /\ dhead' \in {dhead, lh}
      /\ tail' \in {1, tail + 1, tail}
      /\ pc'[p] \in {"write_log", "install"} => tail' <= Len(lh) /\ lh' = lh
      /\ pc'[p] \notin {"write_log", "install"} => tail' = 1
      /\ pc'[p] = "write_head" => lh' # <<>>
      /\ pc'[p] \in {"erase", "done"} => lh' = <<>>
  BY <1>3 DEF WriteLog, WriteHead, InstallTrans, EraseLog, LogInv, TypeOK
<1>5. lh' \in Seq(Blocks) /\ dhead' \in Seq(Blocks) /\ Len(lh') <= Len(lh)
  <2>1. lh \in Seq(Blocks) /\ dhead \in Seq(Blocks) /\ <<>> \in Seq(Blocks) /\ Len(<<>>) = 0
    BY DEF LogInv, TypeOK
  <2>2. CASE lh' = lh
    BY <1>3, <1>4, <2>1, <2>2
  <2>3. CASE lh' = <<>>
    BY <1>3, <1>4, <2>1, <2>3
  <2>. QED
    BY <1>4, <2>2, <2>3
<1>6. pins' \in [Blocks -> Nat] /\ PinnedUntilInstalled'
  <2>1. CASE WriteLog(p) \/ WriteHead(p) \/ EraseLog(p)
    <3>1. lh' = lh /\ pins' = pins /\ pc[p] # "install" /\ (pc'[p] = "install" => tail' = 1)
      BY <1>3, <2>1 DEF WriteLog, WriteHead, EraseLog, LogInv, TypeOK
    <3>2. \A i \in DOMAIN lh : ~Installed(i) /\ ~Installed(i)'
      BY <1>1a, <1>2, <3>1 DEF Installed, CommitSteps, LogInv, TypeOK
    <3>. QED
      BY <1>1, <3>1, <3>2 DEF LogInv, TypeOK, PinnedUntilInstalled, Logged
  <2>2. CASE InstallTrans(p)
    <3>. DEFINE b == lh[tail]
    <3>1. /\ tail \in DOMAIN lh /\ b \in Blocks /\ pins \in [Blocks -> Nat]
          /\ DOMAIN lh = 1..Len(lh) /\ \A i \in DOMAIN lh : lh[i] \in Blocks
      BY <1>3, <2>2 DEF InstallTrans, LogInv, TypeOK
    <3>2. \A i \in DOMAIN lh : Installed(i) <=> i < tail
      BY <2>2 DEF Installed, InstallTrans
    <3>3. pins[b] = 1 /\ pins' = [pins EXCEPT ![b] = 0]
      <4>1. pins[b] = 1
        BY <1>1, <1>3, <3>1, <3>2 DEF LogInv, PinnedUntilInstalled
      <4>2. pins' = [pins EXCEPT ![b] = pins[b] - 1]
        BY <2>2 DEF InstallTrans
      <4>. QED
        BY <4>1, <4>2
    <3>4. \A i \in DOMAIN lh : pins'[lh[i]] = IF i <= tail THEN 0 ELSE 1
      <4>1. \A i \in DOMAIN lh : pins[lh[i]] = IF i < tail THEN 0 ELSE 1
        BY <1>1, <3>2 DEF LogInv, PinnedUntilInstalled
      <4>2. \A i \in DOMAIN lh : lh[i] = b <=> i = tail
        BY <3>1 DEF LogInv, WritesLogged, Distinct
      <4>. QED
        BY <1>3, <3>1, <3>3, <4>1, <4>2
    <3>5. \A c \in Blocks \ Logged : pins'[c] = 0
      BY <3>1, <3>3 DEF LogInv, PinnedUntilInstalled
    <3>6. CASE tail = Len(lh)
      <4>1. lh' = <<>> /\ \A c \in Blocks : pins'[c] = 0
        BY <2>2, <3>1, <3>4, <3>5, <3>6 DEF InstallTrans, Logged
      <4>. QED
        BY <3>1, <3>3, <4>1 DEF PinnedUntilInstalled
    <3>7. CASE tail # Len(lh)
      <4>1. lh' = lh /\ tail' = tail + 1 /\ pc' = pc
        BY <2>2, <3>7 DEF InstallTrans
      <4>2. \A i \in DOMAIN lh : Installed(i)' <=> i <= tail
        <5>1. pc'[p] = "install"
          BY <2>2, <4>1 DEF InstallTrans
        <5>2. \A i \in DOMAIN lh : i < tail' <=> i <= tail
          BY <1>3, <3>1, <4>1
        <5>. QED
          BY <5>1, <5>2 DEF Installed
      <4>3. Logged' = Logged
        BY <4>1 DEF Logged
      <4>. QED
        BY <1>1, <3>1, <3>3, <3>4, <3>5, <4>1, <4>2, <4>3 DEF PinnedUntilInstalled
    <3>. QED
      BY <3>6, <3>7
  <2>. QED
    BY <2>1, <2>2
<1>7. TypeOK'
  <2>2. tail' \in Slots
    BY <1>3, <1>4, LogConstants DEF Slots
  <2>3. dlog' \in [Slots -> Data]
    BY <1>3 DEF LogInv, TypeOK, WriteLog, WriteHead, InstallTrans, EraseLog, Bread, Data
  <2>4. disk' \in [Blocks -> Data] /\ cache' \in [Blocks -> Data \union {NotCached}]
    BY <1>3, Zenon DEF LogInv, TypeOK, WriteLog, WriteHead, InstallTrans, EraseLog
  <2>. QED
    BY <1>1, <1>1a, <1>5, <1>6, <2>2, <2>3, <2>4 DEF LogInv, TypeOK
<1>8. CallsCounted' /\ SpaceReserved'
  BY <1>1, <1>2, <1>5, AccountsKept
<1>9. CommitRunsAlone'
  BY <1>1, <1>1a, <1>2 DEF CommitRunsAlone
<1>10. WritesLogged'
  BY <1>2, <1>4 DEF LogInv, WritesLogged, Distinct
<1>11. TailInRange' /\ EmptyWhenIdle' /\ BootAlone'
  BY <1>1, <1>1a, <1>2, <1>3, <1>4
  DEF LogInv, TailInRange, Copying, EmptyWhenIdle, BootAlone, CommitSteps
<1>12. SleepersMustWait'
  BY <1>1, <1>1a, <1>2 DEF LogInv, SleepersMustWait, MustWait, CommitSteps
<1>. QED
  BY <1>6, <1>7, <1>8, <1>9, <1>10, <1>11, <1>12 DEF LogInv

(* The end of a commit wakes every process that sleeps in begin_op. *)
LEMMA EndCommitInv ==
  ASSUME LogInv, NEW p \in Procs, EndCommit(p)
  PROVE  LogInv'
<1>1. /\ boot = "up" /\ boot' = "up" /\ pc[p] = "done" /\ committing' = FALSE
      /\ UNCHANGED <<disk, dlog, dhead, cache, pins, lh, outstanding, wrote, tail>>
      /\ pc' = Woken([pc EXCEPT ![p] = "idle"])
  BY DEF EndCommit
<1>2. /\ pc'[p] = "idle"
      /\ \A q \in Procs : pc'[q] # "sleep"
      /\ \A q \in Procs \ {p} : pc'[q] = IF pc[q] = "sleep" THEN "begin" ELSE pc[q]
      /\ pc' \in [Procs -> {"idle", "begin", "sleep", "op"} \union CommitSteps]
  BY <1>1 DEF Woken, LogInv, TypeOK
<1>3. /\ outstanding = 0 /\ lh = <<>> /\ committing
      /\ \A q \in Procs \ {p} : pc[q] \notin CommitSteps
  BY <1>1 DEF LogInv, CommitRunsAlone, EmptyWhenIdle, CommitSteps
<1>4. TypeOK'
  <2>1. committing' \in BOOLEAN
    BY <1>1, Zenon
  <2>. QED
    BY <1>1, <1>2, <2>1, Zenon DEF LogInv, TypeOK
<1>5. CallsCounted' /\ SpaceReserved'
  <2>1. lh' \in Seq(Blocks) /\ Len(lh') <= Len(lh)
    BY <1>1 DEF LogInv, TypeOK
  <2>. QED
    BY <1>1, <1>2, <2>1, AccountsKept, Zenon
<1>6. CommitRunsAlone' /\ EmptyWhenIdle' /\ BootAlone' /\ SleepersMustWait'
  BY <1>1, <1>2, <1>3, Zenon
  DEF CommitRunsAlone, EmptyWhenIdle, BootAlone, SleepersMustWait, CommitSteps
<1>7. TailInRange'
  BY <1>1, <1>2, <1>3, Zenon DEF LogInv, TailInRange, Copying, CommitSteps
<1>8. WritesLogged'
  <2>1. Logged' = Logged
    BY <1>1 DEF Logged
  <2>. QED
    BY <1>1, <1>2, <2>1, Zenon DEF LogInv, WritesLogged, Distinct
<1>9. PinnedUntilInstalled'
  BY <1>1, <1>2, PinsKept, Zenon
<1>. QED
  BY <1>4, <1>5, <1>6, <1>7, <1>8, <1>9 DEF LogInv

(* The cache may fill and recycle buffers without disturbing the log. *)
LEMMA CacheInv ==
  ASSUME LogInv, NEW b \in Blocks, CacheFill(b) \/ CacheRecycle(b)
  PROVE  LogInv'
<1>1. UNCHANGED <<disk, dlog, dhead, pins, lh, outstanding, committing, pc, wrote, tail, boot>>
  BY DEF CacheFill, CacheRecycle
<1>2. cache' \in [Blocks -> Data \union {NotCached}]
  BY DEF CacheFill, CacheRecycle, LogInv, TypeOK
<1>3. TypeOK'
  BY <1>1, <1>2 DEF LogInv, TypeOK
<1>4. Logged' = Logged /\ Reserved' = Reserved /\ MustWait' = MustWait /\ Copying' = Copying
      /\ \A i : Installed(i)' = Installed(i)
  BY <1>1 DEF Logged, Reserved, MustWait, Copying, Installed
<1>. QED
  BY <1>1, <1>3, <1>4
  DEF LogInv, CommitRunsAlone, CallsCounted, WritesLogged, Distinct, TailInRange, EmptyWhenIdle,
      PinnedUntilInstalled, BootAlone, SpaceReserved, SleepersMustWait

(* A crash leaves no call, no commit and an empty in-memory log. *)
LEMMA CrashInv ==
  ASSUME LogInv, Crash
  PROVE  LogInv'
<1>1. TypeOK'
  <2>1. dlog' \in [Slots -> Data]
    BY Zenon DEF Crash, TornLog, LogInv, TypeOK, Data
  <2>2. disk' \in [Blocks -> Data]
    BY Zenon DEF Crash, TornDisk, LogInv, TypeOK, Data
  <2>3. tail' \in Slots
    BY LogConstants DEF Crash, Slots
  <2>4. committing' \in BOOLEAN
    BY Zenon DEF Crash
  <2>. QED
    BY <2>1, <2>2, <2>3, <2>4 DEF Crash, LogInv, TypeOK
<1>2. Active' = {} /\ Reserved' = {} /\ Len(lh') = 0 /\ outstanding' = 0
  BY DEF Crash, Active, Reserved
<1>3. CallsCounted'
  BY <1>2, FS_EmptySet, Zenon DEF CallsCounted, Active
<1>4. SpaceReserved'
  BY <1>2, FS_EmptySet, LogConstants DEF SpaceReserved
<1>5. CommitRunsAlone' /\ WritesLogged' /\ EmptyWhenIdle' /\ BootAlone' /\ SleepersMustWait'
  BY DEF Crash, LogInv, CommitRunsAlone, WritesLogged, Distinct, EmptyWhenIdle, BootAlone,
         SleepersMustWait, CommitSteps
<1>6. TailInRange'
  BY DEF Crash, LogInv, TailInRange, Copying
<1>7. PinnedUntilInstalled'
  BY DEF Crash, PinnedUntilInstalled
<1>. QED
  BY <1>1, <1>3, <1>4, <1>5, <1>6, <1>7 DEF LogInv

(* Recovery reads a header that fits in the log and walks through it. *)
LEMMA RecoverInv ==
  ASSUME LogInv, Recover
  PROVE  LogInv'
<1>1. /\ boot \in {"read_head", "install", "erase"}
      /\ UNCHANGED <<dlog, pins, outstanding, committing, pc, wrote>>
      /\ boot' \in {"install", "erase", "up"}
  BY DEF Recover, ReadHead, RecoverInstall, RecoverErase
<1>2. /\ outstanding = 0 /\ ~committing /\ \A p \in Procs : pc[p] = "idle"
      /\ \A b \in Blocks : pins[b] = 0
  BY <1>1 DEF LogInv, BootAlone, PinnedUntilInstalled
<1>3. /\ Len(lh) \in Nat /\ Len(dhead) \in Nat /\ Len(dhead) <= LOGBLOCKS
      /\ tail \in Nat /\ 1 <= tail /\ Len(lh) <= LOGBLOCKS
      /\ boot = "install" => tail <= Len(lh)
      /\ boot # "install" => tail = 1 /\ lh = <<>>
  <2>1. /\ Len(lh) \in Nat /\ Len(dhead) \in Nat /\ tail \in Nat /\ 1 <= tail
    BY DEF LogInv, TypeOK, Slots
  <2>2. Len(lh) <= LOGBLOCKS
    BY <2>1, ReservedFinite, LogConstants DEF LogInv, SpaceReserved, ReservedBound
  <2>3. Copying <=> boot = "install"
    BY <1>2 DEF Copying
  <2>. QED
    BY <1>1, <2>1, <2>2, <2>3 DEF LogInv, TailInRange, EmptyWhenIdle
<1>4. /\ lh' \in {lh, dhead, <<>>} /\ dhead' \in {dhead, lh}
      /\ boot' = "install" => tail' <= Len(lh') /\ tail' >= 1 /\ tail' \in Nat
      /\ boot' # "install" => lh' = <<>> /\ tail' = 1
  <2>1. CASE ReadHead
    <3>1. dhead # <<>> => Len(dhead) >= 1
      BY DEF LogInv, TypeOK
    <3>. QED
      BY <1>3, <2>1, <3>1 DEF ReadHead
  <2>2. CASE RecoverInstall
    BY <1>3, <2>2 DEF RecoverInstall
  <2>3. CASE RecoverErase
    BY <1>3, <2>3 DEF RecoverErase
  <2>. QED
    BY <2>1, <2>2, <2>3 DEF Recover
<1>5. /\ lh' \in Seq(Blocks) /\ Len(lh') \in Nat /\ Len(lh') <= LOGBLOCKS
      /\ dhead' \in Seq(Blocks) /\ Len(dhead') <= LOGBLOCKS
      /\ Distinct(lh') /\ Distinct(dhead')
  <2>1. /\ lh \in Seq(Blocks) /\ dhead \in Seq(Blocks) /\ <<>> \in Seq(Blocks)
        /\ Len(<<>>) = 0 /\ Distinct(lh) /\ Distinct(dhead) /\ Distinct(<<>>)
    BY DEF LogInv, TypeOK, WritesLogged, Distinct
  <2>2. lh' = lh \/ lh' = dhead \/ lh' = <<>>
    BY <1>4
  <2>3. dhead' = dhead \/ dhead' = lh
    BY <1>4
  <2>4. lh' \in Seq(Blocks) /\ Len(lh') \in Nat /\ Len(lh') <= LOGBLOCKS /\ Distinct(lh')
    <3>1. 0 <= LOGBLOCKS
      BY LogConstants
    <3>2. CASE lh' = <<>>
      BY <2>1, <3>1, <3>2
    <3>3. CASE lh' = lh
      BY <1>3, <2>1, <3>3
    <3>4. CASE lh' = dhead
      BY <1>3, <2>1, <3>4
    <3>. QED
      BY <2>2, <3>2, <3>3, <3>4
  <2>5. dhead' \in Seq(Blocks) /\ Len(dhead') <= LOGBLOCKS /\ Distinct(dhead')
    BY <1>3, <2>1, <2>3
  <2>. QED
    BY <2>4, <2>5
<1>6. TypeOK'
  <2>1. tail' \in Slots
    BY <1>4, <1>5, LogConstants DEF Slots
  <2>2. disk' \in [Blocks -> Data] /\ cache' \in [Blocks -> Data \union {NotCached}]
    BY <1>3, Zenon DEF Recover, ReadHead, RecoverInstall, RecoverErase, LogInv, TypeOK, Slots
  <2>. QED
    BY <1>1, <1>5, <2>1, <2>2 DEF LogInv, TypeOK
<1>7. Active' = {} /\ Reserved' = {}
  BY <1>1, <1>2 DEF Active, Reserved
<1>8. CallsCounted'
  BY <1>1, <1>2, <1>7, FS_EmptySet DEF CallsCounted, Active
<1>9. SpaceReserved'
  BY <1>5, <1>7, FS_EmptySet, LogConstants DEF SpaceReserved
<1>10. CommitRunsAlone' /\ BootAlone' /\ EmptyWhenIdle' /\ SleepersMustWait'
  BY <1>1, <1>2, <1>4
  DEF CommitRunsAlone, BootAlone, EmptyWhenIdle, SleepersMustWait, CommitSteps
<1>11. WritesLogged'
  BY <1>1, <1>2, <1>5 DEF WritesLogged
<1>12. TailInRange'
  BY <1>1, <1>2, <1>4, <1>5 DEF TailInRange, Copying
<1>13. PinnedUntilInstalled'
  BY <1>1, <1>2, <1>4 DEF PinnedUntilInstalled
<1>. QED
  BY <1>6, <1>8, <1>9, <1>10, <1>11, <1>12, <1>13 DEF LogInv

(* The invariant is inductive. *)
LEMMA NextInv == LogInv /\ [Next]_vars => LogInv'
<1>. SUFFICES ASSUME LogInv, [Next]_vars PROVE LogInv'
  OBVIOUS
<1>1. CASE Next
  BY <1>1, CallInv, BeginOpInv, LogWriteInv, EndOpInv, CopyInv, EndCommitInv, CacheInv,
     CrashInv, RecoverInv
  DEF Next, Commit
<1>2. CASE UNCHANGED vars
  <2>1. Logged' = Logged /\ Reserved' = Reserved /\ MustWait' = MustWait /\ Copying' = Copying
        /\ (\A i : Installed(i)' = Installed(i)) /\ TypeOK'
    BY <1>2, Zenon DEF vars, Logged, Reserved, MustWait, Copying, Installed, LogInv, TypeOK
  <2>. QED
    BY <1>2, <2>1
    DEF vars, LogInv, CommitRunsAlone, CallsCounted, WritesLogged, Distinct, TailInRange,
        EmptyWhenIdle, PinnedUntilInstalled, BootAlone, SpaceReserved, SleepersMustWait
<1>. QED
  BY <1>1, <1>2

(* The accounting of log space, the type of every variable and the order   *)
(* of commits survive any interleaving of calls, commits and crashes.      *)
THEOREM LogInvariant == Spec => []LogInv
  BY InitInv, NextInv, PTL DEF Spec

(* Every variable of the log keeps its type. *)
THEOREM TypeCorrect == Spec => []TypeOK
<1>1. LogInv => TypeOK
  BY DEF LogInv
<1>. QED
  BY <1>1, LogInvariant, PTL

(* begin_op never promises more log space than there is. *)
THEOREM SpaceIsReserved == Spec => []SpaceReserved
<1>1. LogInv => SpaceReserved
  BY DEF LogInv
<1>. QED
  BY <1>1, LogInvariant, PTL

(* No process sleeps in begin_op without a reason and a waker. *)
THEOREM NoLostWakeup == Spec => []SleepersMustWait
<1>1. LogInv => SleepersMustWait
  BY DEF LogInv
<1>. QED
  BY <1>1, LogInvariant, PTL

(* If a call updates fewer blocks than begin_op reserves for it, neither   *)
(* log_write nor end_op panics.                                            *)
THEOREM LogNeverPanics ==
  ASSUME OpBlocks < MAXOPBLOCKS
  PROVE  Spec => []NoPanic
<1>1. Init => NoPanic
  BY DEF Init, NoPanic
<1>2. LogInv /\ NoPanic /\ [Next]_vars => NoPanic'
  <2>. SUFFICES ASSUME LogInv, NoPanic, [Next]_vars, boot' = "panic" PROVE FALSE
    BY DEF NoPanic
  <2>1. ASSUME NEW p \in Procs, NEW b \in Blocks, NEW v \in Values, LogWrite(p, b, v)
        PROVE  FALSE
    <3>1. pc[p] = "op" /\ (Len(lh) >= LOGBLOCKS \/ outstanding < 1)
      BY <2>1, Zenon DEF LogWrite, NoPanic
    <3>2. /\ IsFiniteSet(Active) /\ Cardinality(Active) \in Nat /\ Active # {}
          /\ outstanding = Cardinality(Active)
      BY <3>1, ReservedFinite DEF ReservedBound, Active, LogInv, CallsCounted
    <3>3. outstanding >= 1
      BY <3>2, FS_EmptySet
    <3>4. Cardinality(wrote[p]) \in Nat /\ Cardinality(wrote[p]) <= OpBlocks
      BY <3>1, FS_Subset, FS_CardinalityType, LogConstants DEF LogInv, TypeOK, WritesLogged
    <3>5. <<p, MAXOPBLOCKS>> \in Reserved
      BY <3>1, <3>4, LogConstants DEF Reserved
    <3>6. Cardinality(Reserved) \in Nat /\ Cardinality(Reserved) # 0
      BY <3>5, ReservedFinite, FS_EmptySet DEF ReservedBound
    <3>. QED
      BY <3>1, <3>2, <3>3, <3>6, LogConstants DEF LogInv, SpaceReserved, TypeOK
  <2>2. ASSUME NEW p \in Procs, EndOp(p) PROVE FALSE
    <3>1. pc[p] = "op" /\ committing
      BY <2>2 DEF EndOp, NoPanic
    <3>2. Active # {} /\ Cardinality(Active) = 0 /\ IsFiniteSet(Active)
      BY <3>1, ReservedFinite
      DEF ReservedBound, Active, LogInv, CallsCounted, CommitRunsAlone
    <3>. QED
      BY <3>2, FS_EmptySet
  <2>3. CASE UNCHANGED vars
    BY <2>3 DEF vars, NoPanic
  <2>. QED
    BY <2>1, <2>2, <2>3, Zenon
    DEF Next, Commit, Recover, NoPanic, Call, BeginSleep, BeginOp, WriteLog, WriteHead,
        InstallTrans, EraseLog, EndCommit, CacheFill, CacheRecycle, Crash, ReadHead,
        RecoverInstall, RecoverErase
<1>. QED
  BY <1>1, <1>2, LogInvariant, PTL DEF Spec
===============================================================================
