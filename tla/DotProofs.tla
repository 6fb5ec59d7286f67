----------------------------- MODULE DotProofs -----------------------------
(***************************************************************************)
(* Device ownership transfer for every fuse array, every list of handlers, *)
(* every manifest and any number of transports and faults: TypeOK,         *)
(* OverrideBurnsOnce, SealedBeforeLock, UnlockByHolder and                 *)
(* BootsCommittedOwner.                                                    *)
(***************************************************************************)
EXTENDS Dot, TLAPS

-----------------------------------------------------------------------------
(* The inductive invariant.  The transactions are described by what is left *)
(* of them, for a counter n and a blob f on flash.                          *)

(* LOCK, DISABLE and UNLOCK begin at the counter; once the blob is written  *)
(* it is the one on flash                                                   *)
Committing(w, n, f) ==
    /\ w.op \in {"lock", "disable", "unlock"} /\ (w.op = "unlock" <=> Locked(n))
    /\ w.blob.seal = EffectiveKey(n + 1)
    /\ \/ w.todo = <<Write(w.blob), Burn(n)>>
       \/ w.todo = <<Burn(n)>> /\ f = w.blob

(* ROTATE; after its first burn the backup b and the unlock context c are   *)
(* of an earlier epoch                                                      *)
Rotating(w, n, b, c) ==
    /\ w.op = "rotate"
    /\ \/ /\ w.todo = <<Burn(n), Burn(n + 1), Write(w.blob)>>
          /\ w.blob.seal = EffectiveKey(n + 2)
       \/ /\ w.todo = <<Burn(n), Write(w.blob)>> /\ w.blob.seal = EffectiveKey(n + 1)
          /\ b.seal < n /\ c.count < n
       \/ /\ w.todo = <<Write(w.blob)>> /\ w.blob.seal = EffectiveKey(n)
          /\ b.seal < n /\ c.count < n

(* An override of the locked state m: its burn may be a repetition, its     *)
(* write is for the even state that follows                                 *)
Emptying(w, n) ==
    /\ w.op = "override" /\ ~Locked(n)
    /\ w.todo = <<Write(w.blob)>> /\ w.blob.seal = EffectiveKey(n)

Overriding(w, m, n) ==
    \/ /\ w.op = "override" /\ Locked(m) /\ n \in {m, m + 1}
       /\ w.todo = <<Burn(m), Write(w.blob)>> /\ w.blob.seal = EffectiveKey(m + 1)
    \/ Emptying(w, n)

(* The backup b is restored: it was authentic in the locked state m         *)
Restoring(w, m, b) == w = Restore(b) /\ Locked(m) /\ Authentic(b, m)

(* A blob that authenticates in the locked epoch the device is in carries   *)
(* the keys that epoch began with                                           *)
Agrees(b) ==
    Locked(burned) /\ Authentic(b, burned) =>
        committed = [epoch |-> burned, cak |-> b.cak, lak |-> b.lak]

(* The persistent state: no backup is of a later epoch, and a device that   *)
(* is not enabled has burned nothing                                        *)
Ledger ==
    /\ burned \in 0..Total
    /\ flash \in Blobs(Total + 1) /\ backup \in Blobs(Total + 1)
    /\ committed \in [epoch : 0..burned, cak : Keys, lak : Keys]
    /\ Agrees(flash) /\ Agrees(backup) /\ backup.seal <= burned
    /\ enabled \in BOOLEAN /\ (~enabled => burned = 0)

(* What the ROM has under way, by where it is in its boot                   *)
RomWork ==
    /\ work \in Works /\ fuses \in 0..Total
    /\ pc \in {"off", "run", "halt", "warm"} => work = Idle
    /\ pc = "lock" => /\ ~Locked(fuses) /\ work.todo = <<Burn(burned)>>
                      /\ Committing(work, burned, flash)
    /\ pc \in {"handler", "i3c"} =>
         /\ Locked(fuses) /\ burned \in {fuses, fuses + 1}
         /\ \/ work = Idle \/ Overriding(work, fuses, burned)
            \/ Restoring(work, fuses, backup)
    /\ pc = "restore" => /\ Locked(fuses) /\ burned = fuses
                         /\ work = Idle \/ Restoring(work, fuses, backup)
    /\ pc = "manifest" => \/ work = Idle \/ Committing(work, burned, flash)
                          \/ Rotating(work, burned, backup, unlock_ctx)
    /\ work # Idle => enabled

(* The Runtime: the guard lets one transport write, and an unlock is under  *)
(* way only for the LAK of the epoch                                        *)
RtOne(t) ==
    /\ pc = "run" /\ enabled
    /\ \A u \in Transports : rt[u] # Idle => u = t
    /\ \/ Committing(rt[t], burned, flash)
       \/ Rotating(rt[t], burned, backup, unlock_ctx)
       \/ Overriding(rt[t], burned, burned) \/ Restoring(rt[t], burned, backup)

RtWork ==
    /\ rt \in [Transports -> Works]
    /\ busy = (\E t \in Transports : rt[t] # Idle)
    /\ \A t \in Transports : rt[t] # Idle => RtOne(t)
    /\ UnlockByHolder

(* An unlock context of this epoch has its LAK                              *)
Context ==
    /\ unlock_ctx \in [lak : Keys, count : 0..burned]
    /\ unlock_ctx.count = burned /\ Locked(burned) =>
         committed.epoch = burned /\ unlock_ctx.lak = committed.lak
    /\ pc # "run" => unlock_ctx = NoContext

Rest ==
    /\ pc \in {"off", "lock", "handler", "i3c", "restore", "manifest", "run", "halt", "warm"}
    /\ owner \in Keys \cup {Fused} /\ manifest \in Manifests
    /\ handler \in [current : Nat, retries : Nat]
    /\ pc = "handler" => handler.current \in 1..Len(Handlers)
    /\ faults \in 0..MaxFaults

DotInv == Ledger /\ RomWork /\ RtWork /\ Context /\ Rest

-----------------------------------------------------------------------------
(* Counters, keys and transactions *)

(* The key of a counter is the odd number at or after it                    *)
LEMMA KeyFacts ==
    ASSUME NEW n \in Nat
    PROVE  /\ Locked(n + 1) = ~Locked(n) /\ Locked(n) \in BOOLEAN
           /\ EffectiveKey(n) \in Nat /\ Locked(EffectiveKey(n))
           /\ Locked(n) => EffectiveKey(n) = n /\ n > 0
           /\ ~Locked(n) => EffectiveKey(n) = n + 1
  BY DEF EffectiveKey, Locked

LEMMA EvenFacts == ~Locked(0) /\ ~Locked(2) /\ ~Locked(Total) /\ Total \in Nat
  BY TotalAssumption DEF Locked

(* The last key is one beyond the fuse array                                *)
LEMMA KeyBound ==
    ASSUME NEW n \in 0..Total
    PROVE  /\ EffectiveKey(n) \in 0..Total + 1 /\ EffectiveKey(n + 1) \in 0..Total + 1
           /\ EffectiveKey(n + 2) \in 0..Total + 3
  BY TotalAssumption DEF EffectiveKey, Locked

LEMMA NoneIsKey == None \in Keys
  BY DEF Keys

LEMMA RequestKeys == \A r \in Requests : r.cak \in Keys /\ r.lak \in Keys
  BY DEF Keys

LEMMA BlobTypes ==
    /\ Blank \in Blobs(Total + 1) /\ Corrupt \in Blobs(Total + 1)
    /\ Blank.seal = 0 /\ Corrupt.seal = 2
    /\ Blobs(Total + 1) \subseteq Blobs(Total + 3)
  BY NoneIsKey, TotalAssumption DEF Blank, Corrupt, Blobs

LEMMA StepFields ==
    ASSUME NEW b, NEW n
    PROVE  /\ Write(b).kind = "write" /\ Write(b).blob = b
           /\ Burn(n).kind = "burn" /\ Burn(n).at = n
  BY DEF Write, Burn

LEMMA StepTypes ==
    ASSUME NEW b \in Blobs(Total + 3), NEW n \in 0..Total + 1
    PROVE  Write(b) \in Steps /\ Burn(n) \in Steps
  BY BlobTypes, TotalAssumption DEF Write, Burn, Steps

LEMMA OneLeft ==
    ASSUME NEW s, NEW x, s = <<x>>
    PROVE  s # << >> /\ Head(s) = x /\ Len(s) = 1
  OBVIOUS

LEMMA TwoLeft ==
    ASSUME NEW s, NEW x, NEW y, s = <<x, y>>
    PROVE  s # << >> /\ Head(s) = x /\ Len(s) = 2 /\ Tail(s) = <<y>>
  OBVIOUS

LEMMA ThreeLeft ==
    ASSUME NEW s, NEW x, NEW y, NEW z, s = <<x, y, z>>
    PROVE  s # << >> /\ Head(s) = x /\ Len(s) = 3 /\ Tail(s) = <<y, z>>
  OBVIOUS

LEMMA IdleType == Idle \in Works /\ Idle.op = "none" /\ Idle.todo = << >>
  BY NoneIsKey, BlobTypes DEF Idle, Works

(* What is begun is one of the four transactions                            *)
LEMMA CommitBegins ==
    ASSUME NEW op \in {"lock", "disable", "unlock"}, NEW n \in 0..Total,
           NEW cak \in Keys, NEW lak \in Keys, NEW key \in Keys,
           op = "unlock" <=> Locked(n), NEW f
    PROVE  /\ Commit(op, n, cak, lak, key) \in Works
           /\ Committing(Commit(op, n, cak, lak, key), n, f)
           /\ Commit(op, n, cak, lak, key).op = op /\ Commit(op, n, cak, lak, key).key = key
<1> DEFINE b == Sealed(n + 1, cak, lak)
<1>1. b \in Blobs(Total + 3) /\ b.seal = EffectiveKey(n + 1)
  <2>1. EffectiveKey(n + 1) \in 0..Total + 3
    BY KeyBound, TotalAssumption
  <2> QED
    BY <2>1 DEF Sealed, Blobs
<1>2. n \in 0..Total + 1
  BY TotalAssumption
<1>3. <<Write(b), Burn(n)>> \in Seq(Steps)
  BY <1>1, <1>2, StepTypes
<1>4. Commit(op, n, cak, lak, key)
        = [op |-> op, todo |-> <<Write(b), Burn(n)>>, blob |-> b, key |-> key]
  BY DEF Commit
<1> HIDE DEF b
<1>5. Commit(op, n, cak, lak, key) \in Works
  BY <1>1, <1>3, <1>4 DEF Works
<1> QED
  BY <1>1, <1>4, <1>5 DEF Committing

LEMMA RotateBegins ==
    ASSUME NEW n \in 0..Total, NEW cak \in Keys, NEW lak \in Keys, NEW b, NEW c
    PROVE  /\ Rotate(n, cak, lak) \in Works /\ Rotate(n, cak, lak).op = "rotate"
           /\ Rotating(Rotate(n, cak, lak), n, b, c)
<1> DEFINE d == Sealed(n + 2, cak, lak)
<1>1. d \in Blobs(Total + 3) /\ d.seal = EffectiveKey(n + 2)
  BY KeyBound DEF Sealed, Blobs
<1>2. n \in 0..Total + 1 /\ n + 1 \in 0..Total + 1
  BY TotalAssumption
<1>3. <<Burn(n), Burn(n + 1), Write(d)>> \in Seq(Steps)
  BY <1>1, <1>2, StepTypes
<1>4. Rotate(n, cak, lak)
        = [op |-> "rotate", todo |-> <<Burn(n), Burn(n + 1), Write(d)>>, blob |-> d, key |-> None]
  BY DEF Rotate
<1> HIDE DEF d
<1>5. Rotate(n, cak, lak) \in Works
  BY <1>1, <1>3, <1>4, NoneIsKey DEF Works
<1> QED
  BY <1>1, <1>4, <1>5 DEF Rotating

LEMMA OverrideBegins ==
    ASSUME NEW m \in 0..Total, NEW n \in {m, m + 1}, Locked(m)
    PROVE  Override(m) \in Works /\ Override(m).op = "override" /\ Overriding(Override(m), m, n)
<1> DEFINE d == Sealed(m + 1, None, None)
<1>1. d \in Blobs(Total + 3) /\ d.seal = EffectiveKey(m + 1)
  <2>1. EffectiveKey(m + 1) \in 0..Total + 3
    BY KeyBound, TotalAssumption
  <2> QED
    BY <2>1, NoneIsKey DEF Sealed, Blobs
<1>2. m \in 0..Total + 1
  BY TotalAssumption
<1>3. <<Burn(m), Write(d)>> \in Seq(Steps)
  BY <1>1, <1>2, StepTypes
<1>4. Override(m) = [op |-> "override", todo |-> <<Burn(m), Write(d)>>, blob |-> d, key |-> None]
  BY DEF Override
<1> HIDE DEF d
<1>5. Override(m) \in Works
  BY <1>1, <1>3, <1>4, NoneIsKey DEF Works
<1> QED
  BY <1>1, <1>4, <1>5 DEF Overriding

LEMMA RestoreBegins ==
    ASSUME NEW b \in Blobs(Total + 1)
    PROVE  /\ Restore(b) \in Works /\ Restore(b).op = "restore"
           /\ Restore(b).todo = <<Write(b)>> /\ Restore(b).blob = b
<1>1. b \in Blobs(Total + 3) /\ 0 \in 0..Total + 1
  BY BlobTypes, TotalAssumption
<1>2. <<Write(b)>> \in Seq(Steps)
  BY <1>1, StepTypes
<1> QED
  BY <1>1, <1>2, NoneIsKey DEF Restore, Works

LEMMA LockBegins ==
    ASSUME NEW n \in 0..Total, NEW b \in Blobs(Total + 1), ~Locked(n), Authentic(b, n)
    PROVE  /\ LockAtBoot(n, b) \in Works /\ LockAtBoot(n, b).todo = <<Burn(n)>>
           /\ Committing(LockAtBoot(n, b), n, b)
<1>1. b \in Blobs(Total + 3) /\ n \in 0..Total + 1 /\ n \in Nat /\ n + 1 \in Nat
  BY BlobTypes, TotalAssumption
<1>2. <<Burn(n)>> \in Seq(Steps)
  BY <1>1, StepTypes
<1>3. b.seal = EffectiveKey(n + 1)
  BY <1>1, KeyFacts DEF Authentic
<1>4. LockAtBoot(n, b) = [op |-> "lock", todo |-> <<Burn(n)>>, blob |-> b, key |-> None]
  BY DEF LockAtBoot
<1>5. LockAtBoot(n, b) \in Works
  BY <1>1, <1>2, <1>4, NoneIsKey DEF Works
<1> QED
  BY <1>3, <1>4, <1>5 DEF Committing

-----------------------------------------------------------------------------
(* What a transaction does next and what is left of it then *)

Under(w, m, n, f, b, c) ==
    \/ Committing(w, n, f) \/ Rotating(w, n, b, c)
    \/ Overriding(w, m, n) \/ Restoring(w, m, b)

(* The next step of a transaction is the write of its blob, after which     *)
(* only a commit goes on ...                                                *)
WriteNext(w, m, n, f, b, c) ==
    /\ Head(w.todo).kind = "write" /\ Head(w.todo).blob = w.blob
    /\ \/ Committing(w, n, f) /\ Len(w.todo) = 2 /\ Tail(w.todo) = <<Burn(n)>>
       \/ /\ w.op = "rotate" /\ Len(w.todo) = 1 /\ w.blob.seal = EffectiveKey(n)
          /\ b.seal < n /\ c.count < n
       \/ /\ w.op = "override" /\ Len(w.todo) = 1
          /\ w.blob.seal = EffectiveKey(n) /\ ~Locked(n)
       \/ Restoring(w, m, b) /\ w.op = "restore" /\ Len(w.todo) = 1 /\ w.blob = b

(* ... or a burn of the counter, or one that repeats an override's          *)
BurnNext(w, m, n, f, b, c) ==
    /\ Head(w.todo).kind = "burn"
    /\ \/ Committing(w, n, f) /\ Head(w.todo).at = n /\ Len(w.todo) = 1 /\ f = w.blob
       \/ /\ w.op = "rotate" /\ Head(w.todo).at = n /\ Len(w.todo) = 3
          /\ Tail(w.todo) = <<Burn(n + 1), Write(w.blob)>>
          /\ w.blob.seal = EffectiveKey(n + 2)
       \/ /\ w.op = "rotate" /\ Head(w.todo).at = n /\ Len(w.todo) = 2
          /\ Tail(w.todo) = <<Write(w.blob)>> /\ w.blob.seal = EffectiveKey(n + 1)
          /\ b.seal < n /\ c.count < n
       \/ /\ w.op = "override" /\ Head(w.todo).at = m /\ Len(w.todo) = 2
          /\ Tail(w.todo) = <<Write(w.blob)>> /\ w.blob.seal = EffectiveKey(m + 1)
          /\ Locked(m) /\ n \in {m, m + 1}

LEMMA Forms ==
    ASSUME NEW w, NEW m, NEW n, NEW f, NEW b, NEW c, Under(w, m, n, f, b, c)
    PROVE  w.todo # << >> /\ (WriteNext(w, m, n, f, b, c) \/ BurnNext(w, m, n, f, b, c))
<1> USE DEF WriteNext, BurnNext
<1>1. CASE Committing(w, n, f)
  <2>1. CASE w.todo = <<Write(w.blob), Burn(n)>>
    <3>1. Head(w.todo) = Write(w.blob) /\ w.todo # << >> /\ Len(w.todo) = 2 /\ Tail(w.todo) = <<Burn(n)>>
      BY <2>1, TwoLeft
    <3> QED
      BY <1>1, <3>1, StepFields
  <2>2. CASE w.todo = <<Burn(n)>> /\ f = w.blob
    <3>1. Head(w.todo) = Burn(n) /\ w.todo # << >> /\ Len(w.todo) = 1
      BY <2>2, OneLeft
    <3> QED
      BY <1>1, <2>2, <3>1, StepFields
  <2> QED
    BY <1>1, <2>1, <2>2 DEF Committing
<1>2. CASE Rotating(w, n, b, c)
  <2>1. CASE /\ w.todo = <<Burn(n), Burn(n + 1), Write(w.blob)>>
             /\ w.blob.seal = EffectiveKey(n + 2)
    <3>1. /\ Head(w.todo) = Burn(n) /\ w.todo # << >> /\ Len(w.todo) = 3
          /\ Tail(w.todo) = <<Burn(n + 1), Write(w.blob)>>
      BY <2>1, ThreeLeft
    <3> QED
      BY <1>2, <2>1, <3>1, StepFields DEF Rotating
  <2>2. CASE /\ w.todo = <<Burn(n), Write(w.blob)>> /\ w.blob.seal = EffectiveKey(n + 1)
             /\ b.seal < n /\ c.count < n
    <3>1. Head(w.todo) = Burn(n) /\ w.todo # << >> /\ Len(w.todo) = 2 /\ Tail(w.todo) = <<Write(w.blob)>>
      BY <2>2, TwoLeft
    <3> QED
      BY <1>2, <2>2, <3>1, StepFields DEF Rotating
  <2>3. CASE /\ w.todo = <<Write(w.blob)>> /\ w.blob.seal = EffectiveKey(n)
             /\ b.seal < n /\ c.count < n
    <3>1. Head(w.todo) = Write(w.blob) /\ w.todo # << >> /\ Len(w.todo) = 1
      BY <2>3, OneLeft
    <3> QED
      BY <1>2, <2>3, <3>1, StepFields DEF Rotating
  <2> QED
    BY <1>2, <2>1, <2>2, <2>3 DEF Rotating
<1>3. CASE Overriding(w, m, n)
  <2>1. CASE /\ w.op = "override" /\ Locked(m) /\ n \in {m, m + 1}
             /\ w.todo = <<Burn(m), Write(w.blob)>> /\ w.blob.seal = EffectiveKey(m + 1)
    <3>1. /\ Head(w.todo) = Burn(m) /\ w.todo # << >> /\ Len(w.todo) = 2
          /\ Tail(w.todo) = <<Write(w.blob)>>
      BY <2>1, TwoLeft
    <3> QED
      BY <2>1, <3>1, StepFields
  <2>2. CASE Emptying(w, n)
    <3>1. Head(w.todo) = Write(w.blob) /\ w.todo # << >> /\ Len(w.todo) = 1
      BY <2>2, OneLeft DEF Emptying
    <3> QED
      BY <2>2, <3>1, StepFields DEF Emptying
  <2> QED
    BY <1>3, <2>1, <2>2 DEF Overriding
<1>4. CASE Restoring(w, m, b)
  <2>1. w.todo = <<Write(b)>> /\ w.blob = b /\ w.op = "restore"
    BY <1>4 DEF Restoring, Restore
  <2>2. Head(w.todo) = Write(b) /\ w.todo # << >> /\ Len(w.todo) = 1
    BY <2>1, OneLeft
  <2> QED
    BY <1>4, <2>1, <2>2, StepFields
<1> QED
  BY <1>1, <1>2, <1>3, <1>4 DEF Under

LEMMA NotIdle ==
    ASSUME NEW w, NEW m, NEW n, NEW f, NEW b, NEW c, Under(w, m, n, f, b, c)
    PROVE  w # Idle
  BY Forms, IdleType

LEMMA RestOfWork ==
    ASSUME NEW w \in Works, w.todo # << >>,
           NEW v, v = [w EXCEPT !.todo = Tail(@)]
    PROVE  /\ v \in Works /\ v.todo = Tail(w.todo)
           /\ v.op = w.op /\ v.blob = w.blob /\ v.key = w.key
<1>1. Tail(w.todo) \in Seq(Steps)
  BY DEF Works
<1> QED
  BY <1>1 DEF Works

(* After a write with more to do: the commit's burn is left                 *)
LEMMA AfterWrite ==
    ASSUME NEW w \in Works, NEW m, NEW n \in Nat, NEW f, NEW b, NEW c, Under(w, m, n, f, b, c),
           Head(w.todo).kind = "write", Len(w.todo) # 1,
           NEW v, v = [w EXCEPT !.todo = Tail(@)]
    PROVE  v \in Works /\ Committing(w, n, f) /\ Committing(v, n, w.blob)
<1>1. Committing(w, n, f) /\ Tail(w.todo) = <<Burn(n)>> /\ Len(w.todo) = 2
  BY Forms DEF WriteNext, BurnNext
<1>2. w.todo # << >>
  BY Forms
<1> QED
  BY <1>1, <1>2, RestOfWork DEF Committing

(* After a burn with more to do: the blob of a rotation or an override      *)
LEMMA AfterBurn ==
    ASSUME NEW w \in Works, NEW m \in Nat, NEW n \in Nat, NEW f, NEW b, NEW c,
           b.seal \in Nat, c.count \in Nat, b.seal <= n, c.count <= n,
           Under(w, m, n, f, b, c),
           Head(w.todo).kind = "burn", Len(w.todo) # 1,
           NEW v, v = [w EXCEPT !.todo = Tail(@)],
           NEW k, Head(w.todo).at >= n => k = n + 1, ~(Head(w.todo).at >= n) => k = n
    PROVE  /\ v \in Works /\ v.op = w.op
           /\ \/ w.op = "rotate" /\ k = n + 1 /\ Rotating(v, k, b, c)
              \/ w.op = "override" /\ k \in {m, m + 1} /\ Emptying(v, k)
<1>1. w.todo # << >> /\ BurnNext(w, m, n, f, b, c)
  BY Forms DEF WriteNext
<1>2. /\ v \in Works /\ v.todo = Tail(w.todo) /\ v.op = w.op /\ v.blob = w.blob
  BY <1>1, RestOfWork
<1>4. CASE w.op = "rotate"
  <2>1. /\ Head(w.todo).at = n
        /\ \/ /\ Tail(w.todo) = <<Burn(n + 1), Write(w.blob)>>
              /\ w.blob.seal = EffectiveKey(n + 2)
           \/ /\ Tail(w.todo) = <<Write(w.blob)>> /\ w.blob.seal = EffectiveKey(n + 1)
    BY <1>1, <1>4 DEF BurnNext, Committing
  <2>2. k = n + 1 /\ k + 1 = n + 2 /\ b.seal < k /\ c.count < k
    BY <2>1
  <2> QED
    BY <1>2, <1>4, <2>1, <2>2 DEF Rotating
<1>5. CASE w.op # "rotate"
  <2>1. /\ w.op = "override" /\ Head(w.todo).at = m
        /\ Tail(w.todo) = <<Write(w.blob)>> /\ w.blob.seal = EffectiveKey(m + 1)
        /\ Locked(m) /\ n \in {m, m + 1}
    BY <1>1, <1>5 DEF BurnNext
  <2>2. k = m + 1
    BY <2>1
  <2>3. ~Locked(k)
    BY <2>1, <2>2, KeyFacts
  <2> QED
    BY <1>2, <2>1, <2>2, <2>3 DEF Emptying
<1> QED
  BY <1>4, <1>5

-----------------------------------------------------------------------------
(* Every persistent write, complete, failed or torn, keeps the ledger *)

LEMMA NotAuthentic ==
    ASSUME NEW n \in Nat, NEW b, b.seal \in {0, 2}
    PROVE  ~Authentic(b, n)
<1>1. Locked(EffectiveKey(n))
  BY KeyFacts
<1> QED
  BY <1>1, EvenFacts DEF Authentic

(* A blob on flash other than ROTATE's is not authentic in the locked       *)
(* epoch, or is the one that epoch began with                               *)
LEMMA WriteLands ==
    ASSUME Ledger, NEW w \in Works, NEW m,
           WriteNext(w, m, burned, flash, backup, unlock_ctx),
           flash' \in {flash, Corrupt, w.blob}, burned' = burned,
           committed' = Committed(burned, flash', w.op), UNCHANGED <<backup, enabled>>
    PROVE  Ledger' /\ (committed' = committed \/ (w.op = "rotate" /\ unlock_ctx.count < burned))
<1> DEFINE Same(b) == [epoch |-> burned, cak |-> b.cak, lak |-> b.lak]
<1>1. /\ burned \in 0..Total /\ burned \in Nat /\ burned + 1 \in Nat
      /\ flash \in Blobs(Total + 1) /\ backup \in Blobs(Total + 1)
      /\ committed \in [epoch : 0..burned, cak : Keys, lak : Keys]
  BY TotalAssumption DEF Ledger
<1>2. w.blob \in Blobs(Total + 3)
  BY DEF Works
<1>3. flash' \in Blobs(Total + 1)
  <2>1. w.blob.seal \in 0..Total + 1 \/ w.blob = backup
    BY <1>1, KeyBound DEF WriteNext, Committing
  <2>2. w.blob.seal \in 0..Total + 1 => w.blob \in Blobs(Total + 1)
    BY <1>2 DEF Blobs
  <2> QED
    BY <1>1, <2>1, <2>2, BlobTypes
<1>4. CASE Locked(burned) /\ Authentic(flash', burned)
  <2>1. CASE w.op # "rotate"
    <3>1. flash' # Corrupt
      BY <1>1, <1>4, NotAuthentic, BlobTypes
    <3>2. CASE flash' = flash
      <4>1. committed = Same(flash)
        BY <1>4, <3>2 DEF Ledger, Agrees
      <4>2. committed' = committed /\ Agrees(flash)'
        BY <1>1, <3>2, <4>1 DEF Committed, Agrees
      <4> QED
        BY <1>3, <4>2 DEF Ledger, Agrees, Authentic
    <3>3. CASE flash' = w.blob
      <4>1. w.blob.seal = burned
        BY <1>1, <1>4, <3>3, KeyFacts DEF Authentic
      <4>2. w.blob = backup
        <5>1. EffectiveKey(burned + 1) # burned
          BY <1>1, KeyFacts
        <5> QED
          BY <1>4, <2>1, <4>1, <5>1 DEF WriteNext, Committing
      <4>3. committed = Same(backup)
        BY <1>4, <3>3, <4>2 DEF Ledger, Agrees
      <4>4. committed' = committed /\ Agrees(flash)'
        BY <1>1, <3>3, <4>2, <4>3 DEF Committed, Agrees
      <4> QED
        BY <1>3, <4>4 DEF Ledger, Agrees, Authentic
    <3> QED
      BY <3>1, <3>2, <3>3
  <2>2. CASE w.op = "rotate"
    <3>1. backup.seal < burned /\ unlock_ctx.count < burned
      BY <2>2 DEF WriteNext, Committing
    <3>2. committed' = Same(flash')
      BY <1>4, <2>2 DEF Committed
    <3>3. flash'.cak \in Keys /\ flash'.lak \in Keys
      BY <1>3 DEF Blobs
    <3>4. committed' \in [epoch : 0..burned, cak : Keys, lak : Keys]
      BY <1>1, <3>2, <3>3
    <3>5. Agrees(flash)'
      BY <3>2 DEF Agrees
    <3>6. ~Authentic(backup, burned)
      <4>1. EffectiveKey(burned) = burned
        BY <1>1, <1>4, KeyFacts
      <4>2. backup.seal \in Nat
        BY <1>1, TotalAssumption DEF Blobs
      <4> QED
        BY <1>1, <3>1, <4>1, <4>2 DEF Authentic
    <3>7. Agrees(backup)'
      BY <3>6 DEF Agrees, Authentic
    <3> QED
      BY <1>3, <2>2, <3>1, <3>4, <3>5, <3>7 DEF Ledger
  <2> QED
    BY <2>1, <2>2
<1>5. CASE ~(Locked(burned) /\ Authentic(flash', burned))
  <2>1. committed' = committed
    BY <1>5 DEF Committed
  <2>2. Agrees(flash)' /\ Agrees(backup)'
    BY <1>5, <2>1 DEF Agrees, Authentic, Ledger
  <2> QED
    BY <1>3, <2>1, <2>2 DEF Ledger
<1> QED
  BY <1>4, <1>5

(* A burn that advances the counter begins an epoch: with the keys of the   *)
(* blob on flash when it authenticates there, and with no backup            *)
LEMMA BurnLands ==
    ASSUME Ledger, enabled, NEW op, NEW e, e.at < Total, e.at \in {burned, burned - 1},
           burned' \in {burned, BurnedAfter(e)}, flash' = flash,
           committed' = Committed(burned', flash', op), UNCHANGED <<backup, enabled>>
    PROVE  /\ Ledger' /\ burned' \in {burned, burned + 1}
           /\ burned' = burned => committed' = committed
           /\ burned' # burned => e.at = burned
<1>1. /\ burned \in 0..Total /\ burned \in Nat
      /\ flash \in Blobs(Total + 1) /\ backup \in Blobs(Total + 1)
      /\ committed \in [epoch : 0..burned, cak : Keys, lak : Keys]
      /\ backup.seal \in Nat /\ backup.seal <= burned
  BY TotalAssumption DEF Ledger, Blobs
<1>2. /\ burned' \in {burned, burned + 1} /\ burned' \in 0..Total
      /\ burned' # burned => e.at = burned
  BY <1>1, TotalAssumption DEF BurnedAfter
<1>3. CASE burned' = burned
  <2>1. committed' = committed
    BY <1>1, <1>3 DEF Committed, Ledger, Agrees
  <2> QED
    BY <1>2, <1>3, <2>1 DEF Ledger, Agrees, Authentic
<1>4. CASE burned' = burned + 1
  <2>1. ~Authentic(backup, burned')
    <3>1. EffectiveKey(burned + 1) \in {burned + 1, burned + 2}
      BY <1>1, KeyFacts
    <3> QED
      BY <1>1, <1>4, <3>1 DEF Authentic
  <2>2. committed.epoch # burned' /\ committed.epoch \in 0..burned'
    BY <1>1, <1>4
  <2>3. Agrees(flash)'
    BY <2>2 DEF Committed, Agrees
  <2>4. Agrees(backup)'
    BY <2>1 DEF Agrees, Authentic
  <2>5. flash.cak \in Keys /\ flash.lak \in Keys
    BY <1>1 DEF Blobs
  <2>6. committed' \in [epoch : 0..burned', cak : Keys, lak : Keys]
    <3>1. CASE committed' = committed
      BY <1>1, <2>2, <3>1
    <3>2. CASE committed' = [epoch |-> burned', cak |-> flash.cak, lak |-> flash.lak]
      <4>1. burned' \in 0..burned'
        BY <1>2, TotalAssumption
      <4> QED
        BY <2>5, <3>2, <4>1
    <3> QED
      BY <3>1, <3>2 DEF Committed
  <2> QED
    BY <1>1, <1>2, <1>4, <2>3, <2>4, <2>6 DEF Ledger
<1> QED
  BY <1>2, <1>3, <1>4

(* One write of a transaction, whether it succeeds or fails                 *)
LEMMA StoreStep ==
    ASSUME Ledger, enabled, faults \in 0..MaxFaults, NEW w \in Works, NEW m, NEW strict,
           m \in {burned, burned - 1}, Under(w, m, burned, flash, backup, unlock_ctx),
           Done(w, strict) \/ Failed(w, strict), UNCHANGED <<backup, enabled>>
    PROVE  /\ Ledger' /\ faults' \in 0..MaxFaults
           /\ \/ /\ burned' = burned
                 /\ committed' = committed \/ (w.op = "rotate" /\ unlock_ctx.count < burned)
              \/ /\ burned' = burned + 1 /\ UNCHANGED flash /\ Head(w.todo).at = burned
                 /\ BurnNext(w, m, burned, flash, backup, unlock_ctx)
<1>1. /\ w.todo # << >>
      /\ \/ WriteNext(w, m, burned, flash, backup, unlock_ctx)
         \/ BurnNext(w, m, burned, flash, backup, unlock_ctx)
  BY Forms
<1>2. faults' \in 0..MaxFaults
  <2>1. faults' = faults \/ (faults < MaxFaults /\ faults' = faults + 1)
    BY DEF Done, Failed, Fault
  <2> QED
    BY <2>1, FaultsAssumption
<1>3. CASE UNCHANGED <<burned, flash, committed>>
  BY <1>2, <1>3 DEF Ledger, Agrees, Authentic
<1>4. CASE /\ ~UNCHANGED <<burned, flash, committed>>
           /\ WriteNext(w, m, burned, flash, backup, unlock_ctx)
  <2>1. /\ burned' = burned /\ flash' \in {flash, Corrupt, w.blob}
        /\ committed' = Committed(burned, flash', w.op)
    BY <1>4 DEF Done, Failed, WriteNext, store
  <2> QED
    BY <1>2, <1>4, <2>1, WriteLands
<1>5. CASE /\ ~UNCHANGED <<burned, flash, committed>>
           /\ BurnNext(w, m, burned, flash, backup, unlock_ctx)
  <2> DEFINE e == Head(w.todo)
  <2>1. /\ flash' = flash /\ burned' \in {burned, BurnedAfter(e)} /\ ~Refused(e, strict)
        /\ committed' = Committed(burned', flash', w.op)
    BY <1>5 DEF Done, Failed, BurnNext, store
  <2>2. burned \in Nat /\ Total \in Nat /\ e.at \in {burned, burned - 1} /\ e.at \in Int
    BY <1>5, TotalAssumption DEF BurnNext, Ledger
  <2>3. e.at < Total
    BY <1>5, <2>1, <2>2 DEF Refused, BurnNext
  <2> HIDE DEF e
  <2>4. /\ Ledger' /\ burned' \in {burned, burned + 1}
        /\ burned' = burned => committed' = committed
        /\ burned' # burned => e.at = burned
    BY <2>1, <2>2, <2>3, BurnLands
  <2> QED
    BY <1>2, <1>5, <2>1, <2>2, <2>4 DEF e
<1> QED
  BY <1>1, <1>3, <1>4, <1>5

(* What is left of a transaction after a write that succeeded               *)
LEMMA DoneRest ==
    ASSUME Ledger, enabled, NEW w \in Works, NEW m \in Nat, NEW strict,
           m \in {burned, burned - 1}, Under(w, m, burned, flash, backup, unlock_ctx),
           unlock_ctx.count \in Nat, unlock_ctx.count <= burned,
           Done(w, strict), Len(w.todo) # 1, NEW v, v = [w EXCEPT !.todo = Tail(@)]
    PROVE  /\ v \in Works /\ v.op = w.op /\ v.key = w.key
           /\ \/ /\ Committing(w, burned, flash) /\ Committing(v, burned', flash')
                 /\ burned' = burned
              \/ w.op = "rotate" /\ Rotating(v, burned', backup, unlock_ctx)
              \/ w.op = "override" /\ burned' \in {m, m + 1} /\ Emptying(v, burned')
<1>1. /\ w.todo # << >>
      /\ \/ WriteNext(w, m, burned, flash, backup, unlock_ctx)
         \/ BurnNext(w, m, burned, flash, backup, unlock_ctx)
  BY Forms
<1>2. v \in Works /\ v.op = w.op /\ v.key = w.key
  BY <1>1, RestOfWork
<1>3. burned \in Nat /\ backup.seal \in Nat /\ backup.seal <= burned
  BY TotalAssumption DEF Ledger, Blobs
<1>4. CASE WriteNext(w, m, burned, flash, backup, unlock_ctx)
  <2>1. burned' = burned /\ flash' = w.blob
    BY <1>4 DEF Done, WriteNext
  <2>2. Committing(w, burned, flash) /\ Committing(v, burned, w.blob)
    BY <1>3, <1>4, AfterWrite DEF WriteNext
  <2> QED
    BY <1>2, <2>1, <2>2
<1>5. CASE BurnNext(w, m, burned, flash, backup, unlock_ctx)
  <2>1. /\ Head(w.todo).at >= burned => burned' = burned + 1
        /\ ~(Head(w.todo).at >= burned) => burned' = burned
    BY <1>5 DEF Done, BurnNext, BurnedAfter
  <2>2. \/ w.op = "rotate" /\ Rotating(v, burned', backup, unlock_ctx)
        \/ w.op = "override" /\ burned' \in {m, m + 1} /\ Emptying(v, burned')
    <3>1. Head(w.todo).kind = "burn"
      BY <1>5 DEF BurnNext
    <3> QED
      BY <1>3, <2>1, <3>1, AfterBurn
  <2> QED
    BY <1>2, <2>2
<1> QED
  BY <1>1, <1>4, <1>5

-----------------------------------------------------------------------------
(* The initial state, and the steps that write nothing *)

LEMMA InitInv == Init => DotInv
<1> SUFFICES ASSUME Init PROVE DotInv
  OBVIOUS
<1>1. Ledger
  <2>1. Blank \in Blobs(Total + 1) /\ Blank.seal = 0 /\ 0 \in 0..Total
    BY BlobTypes, TotalAssumption
  <2>2. [epoch |-> 0, cak |-> None, lak |-> None] \in [epoch : 0..0, cak : Keys, lak : Keys]
    BY NoneIsKey
  <2> QED
    BY <2>1, <2>2, EvenFacts DEF Init, Ledger, Agrees
<1>2. RomWork
  <2>1. work = Idle /\ pc = "off" /\ fuses \in 0..Total
    BY TotalAssumption DEF Init
  <2> QED
    BY <2>1, IdleType DEF RomWork
<1>3. RtWork
  <2>1. \A t \in Transports : rt[t] = Idle
    BY DEF Init
  <2>2. rt \in [Transports -> Works]
    BY IdleType DEF Init
  <2>3. busy = (\E t \in Transports : rt[t] # Idle)
    BY <2>1 DEF Init
  <2>4. UnlockByHolder
    BY <2>1, IdleType DEF UnlockByHolder
  <2> QED
    BY <2>1, <2>2, <2>3, <2>4 DEF RtWork
<1>4. Context
  BY NoneIsKey, EvenFacts DEF Init, Context, NoContext
<1>5. Rest
  BY NoneIsKey, FaultsAssumption DEF Init, Rest
<1> QED
  BY <1>1, <1>2, <1>3, <1>4, <1>5 DEF DotInv

LEMMA LedgerFrame ==
    ASSUME Ledger, UNCHANGED <<params, store, backup>>
    PROVE  Ledger'
  BY DEF Ledger, Agrees, Authentic, params, store

(* The Runtime writes only while firmware runs                              *)
LEMMA RtIdle ==
    ASSUME RtWork, pc # "run"
    PROVE  (\A t \in Transports : rt[t] = Idle) /\ busy = FALSE
  BY DEF RtWork, RtOne

LEMMA RomFrame ==
    ASSUME DotInv, pc # "run", UNCHANGED runtime, burned' \in Nat
    PROVE  RtWork' /\ Context'
<1>1. /\ rt \in [Transports -> Works] /\ rt' = rt /\ busy' = busy
      /\ unlock_ctx' = NoContext
  BY DEF DotInv, RtWork, Context, runtime
<1>2. \A t \in Transports : rt'[t] = Idle
  BY <1>1, RtIdle DEF DotInv
<1>3. busy' = (\E t \in Transports : rt'[t] # Idle)
  BY <1>1 DEF DotInv, RtWork
<1>4. UnlockByHolder'
  BY <1>2, IdleType DEF UnlockByHolder
<1>5. RtWork'
  BY <1>1, <1>2, <1>3, <1>4 DEF RtWork
<1>6. Context'
  BY <1>1, NoneIsKey, EvenFacts DEF Context, NoContext
<1> QED
  BY <1>5, <1>6

(* The ROM has nothing under way                                            *)
LEMMA RomIdle ==
    ASSUME work' = Idle, fuses' \in 0..Total, pc' # "lock",
           pc' \in {"handler", "i3c"} => Locked(fuses') /\ burned' \in {fuses', fuses' + 1},
           pc' = "restore" => Locked(fuses') /\ burned' = fuses'
    PROVE  RomWork'
  BY IdleType DEF RomWork

LEMMA OwnerType ==
    ASSUME NEW n, NEW b, b.cak \in Keys
    PROVE  dot_determine_owner(n, b) \in Keys \cup {Fused}
  BY DEF dot_determine_owner

LEMMA FaultBound ==
    ASSUME faults \in 0..MaxFaults, NEW f, UNCHANGED faults \/ Fault(f)
    PROVE  faults' \in 0..MaxFaults
  BY FaultsAssumption DEF Fault

(* recover_locked_dot_or_fail runs on a locked device                       *)
LEMMA RecoverStep ==
    ASSUME DotInv, Recover, fuses' = burned, Locked(burned), UNCHANGED burned, UNCHANGED manifest,
           faults' \in 0..MaxFaults
    PROVE  RomWork' /\ Rest'
<1>1. /\ pc' \in {"restore", "halt", "handler"} /\ work' = Idle
      /\ pc' = "handler" => Handlers # << >>
      /\ handler' = [current |-> 1, retries |-> 0] /\ owner' = owner
  BY DEF Recover
<1>2. fuses' \in 0..Total
  BY DEF DotInv, Ledger
<1>3. RomWork'
  BY <1>1, <1>2, RomIdle
<1>4. pc' = "handler" => handler'.current \in 1..Len(Handlers)
  BY <1>1, HandlersAssumption
<1>5. handler' \in [current : Nat, retries : Nat]
  BY <1>1
<1> QED
  BY <1>1, <1>3, <1>4, <1>5 DEF Rest, DotInv

LEMMA BootStep ==
    ASSUME Rest, NEW o \in Keys \cup {Fused}, Boot(o), fuses' \in 0..Total,
           UNCHANGED manifest, faults' \in 0..MaxFaults
    PROVE  RomWork' /\ Rest'
<1>1. RomWork'
  BY RomIdle DEF Boot
<1> QED
  BY <1>1 DEF Rest, Boot

LEMMA HaltStep ==
    ASSUME Rest, Halt, fuses' \in 0..Total, UNCHANGED manifest, faults' \in 0..MaxFaults
    PROVE  RomWork' /\ Rest'
<1>1. RomWork'
  BY RomIdle DEF Halt
<1> QED
  BY <1>1 DEF Rest, Halt

LEMMA ColdBootStep ==
    ASSUME DotInv, ColdBoot
    PROVE  DotInv'
<1>1. /\ UNCHANGED <<params, store, backup, runtime>> /\ pc = "off" /\ fuses' = burned
      /\ burned' = burned /\ burned \in 0..Total /\ burned \in Nat /\ manifest' = manifest
      /\ flash \in Blobs(Total + 1) /\ Rest /\ enabled' = enabled /\ flash' = flash
  BY TotalAssumption DEF ColdBoot, DotInv, Ledger, params, store
<1>2. Ledger' /\ RtWork' /\ Context'
  BY <1>1, LedgerFrame, RomFrame DEF DotInv
<1>3. faults' \in 0..MaxFaults
  <2>1. UNCHANGED faults \/ Fault("mailbox")
    BY DEF ColdBoot
  <2>2. faults \in 0..MaxFaults
    BY <1>1 DEF Rest
  <2> QED
    BY <2>1, <2>2, FaultBound
<1>4. flash.cak \in Keys
  BY <1>1 DEF Blobs
<1>5. CASE Boot(Fused) \/ Boot(dot_determine_owner(burned, flash))
  BY <1>1, <1>2, <1>3, <1>4, <1>5, BootStep, OwnerType DEF DotInv
<1>6. CASE Recover /\ Locked(burned)
  BY <1>1, <1>2, <1>3, <1>6, RecoverStep DEF DotInv
<1>7. CASE Halt
  BY <1>1, <1>2, <1>3, <1>7, HaltStep DEF DotInv
<1>8. CASE /\ Authentic(flash, burned) /\ NeedsLock(burned, flash)
           /\ pc' = "lock" /\ work' = LockAtBoot(burned, flash)
           /\ UNCHANGED <<owner, cmd, handler, challenged>>
  <2>1. ~Locked(burned) /\ enabled
    BY <1>8 DEF NeedsLock
  <2>2. /\ work' \in Works /\ work'.todo = <<Burn(burned)>>
        /\ Committing(work', burned, flash)
    BY <1>1, <1>8, <2>1, LockBegins
  <2>3. RomWork'
    BY <1>1, <1>8, <2>1, <2>2 DEF RomWork
  <2>4. Rest'
    BY <1>1, <1>3, <1>8 DEF Rest
  <2> QED
    BY <1>2, <2>3, <2>4 DEF DotInv
<1> QED
  BY <1>5, <1>6, <1>7, <1>8 DEF ColdBoot, dot_flow, dot_flow_error

(* The manager counts a failed attempt, and halts after the last handler's  *)
LEMMA NextHandlerStep ==
    ASSUME DotInv, NextHandler, pc = "handler", UNCHANGED manifest, faults' \in 0..MaxFaults,
           burned' \in {fuses, fuses + 1}
    PROVE  RomWork' /\ Rest'
<1>1. /\ fuses' = fuses /\ fuses \in 0..Total /\ Locked(fuses) /\ work' = Idle
      /\ pc' \in {"halt", "handler"} /\ owner' = owner
  BY DEF DotInv, RomWork, NextHandler
<1>2. RomWork'
  BY <1>1, RomIdle
<1>3. /\ handler \in [current : Nat, retries : Nat]
      /\ handler.current \in 1..Len(Handlers) /\ Len(Handlers) \in Nat
  BY HandlersAssumption DEF DotInv, Rest
<1>4. handler' \in [current : Nat, retries : Nat]
  BY <1>3 DEF NextHandler
<1>5. pc' = "handler" => handler'.current \in 1..Len(Handlers)
  BY <1>3 DEF NextHandler
<1> QED
  BY <1>1, <1>2, <1>4, <1>5 DEF Rest, DotInv

(* What every attempt of a locked device's recovery leaves alone            *)
LEMMA AttemptFrame ==
    ASSUME DotInv, pc # "run", UNCHANGED <<params, store, backup, runtime>>
    PROVE  Ledger' /\ RtWork' /\ Context'
<1>1. burned' \in Nat
  BY TotalAssumption DEF DotInv, Ledger, store
<1> QED
  BY <1>1, LedgerFrame, RomFrame DEF DotInv

(* An authenticated backup is restored                                      *)
LEMMA RestoreWork ==
    ASSUME DotInv, pc \in {"handler", "i3c", "restore"}, Authentic(backup, fuses),
           work' = Restore(backup), UNCHANGED <<pc, fuses, backup, burned, enabled>>
    PROVE  RomWork'
<1>1. /\ fuses \in 0..Total /\ Locked(fuses) /\ burned \in {fuses, fuses + 1}
      /\ pc = "restore" => burned = fuses
  BY DEF DotInv, RomWork
<1>2. fuses > 0 /\ fuses \in Nat /\ burned > 0
  BY <1>1, KeyFacts, TotalAssumption
<1>3. enabled
  BY <1>2 DEF DotInv, Ledger
<1>4. work' \in Works
  BY RestoreBegins DEF DotInv, Ledger
<1>5. Restoring(work', fuses, backup)
  BY <1>1 DEF Restoring
<1> QED
  BY <1>1, <1>3, <1>4, <1>5 DEF RomWork

LEMMA BackupAttemptStep ==
    ASSUME DotInv, BackupAttempt
    PROVE  DotInv'
<1>1. /\ pc = "handler" /\ UNCHANGED <<params, store, backup, runtime>>
      /\ manifest' = manifest /\ burned' = burned /\ enabled' = enabled
      /\ burned \in {fuses, fuses + 1}
  BY DEF BackupAttempt, Attempting, params, store, DotInv, RomWork
<1>2. Ledger' /\ RtWork' /\ Context'
  BY <1>1, AttemptFrame
<1>3. faults' \in 0..MaxFaults
  <2>1. UNCHANGED faults \/ Fault("mailbox")
    BY DEF BackupAttempt
  <2>2. faults \in 0..MaxFaults
    BY DEF DotInv, Rest
  <2> QED
    BY <2>1, <2>2, FaultBound
<1>4. CASE /\ Authentic(backup, fuses) /\ work' = Restore(backup)
           /\ UNCHANGED <<pc, fuses, owner, handler, challenged, cmd, faults>>
  <2>1. RomWork'
    BY <1>1, <1>4, RestoreWork
  <2>2. Rest'
    BY <1>1, <1>4 DEF DotInv, Rest
  <2> QED
    BY <1>2, <2>1, <2>2 DEF DotInv
<1>5. CASE NextHandler
  BY <1>1, <1>2, <1>3, <1>5, NextHandlerStep DEF DotInv
<1> QED
  BY <1>4, <1>5 DEF BackupAttempt

(* An override of the locked state this boot loaded                         *)
LEMMA OverrideWork ==
    ASSUME DotInv, pc \in {"handler", "i3c"}, work' = Override(fuses),
           UNCHANGED <<pc, fuses, burned, enabled>>
    PROVE  RomWork'
<1>1. /\ fuses \in 0..Total /\ Locked(fuses) /\ burned \in {fuses, fuses + 1}
  BY DEF DotInv, RomWork
<1>2. fuses > 0 /\ fuses \in Nat /\ burned > 0
  BY <1>1, KeyFacts, TotalAssumption
<1>3. enabled
  BY <1>2 DEF DotInv, Ledger
<1>4. work' \in Works /\ Overriding(work', fuses, burned)
  BY <1>1, OverrideBegins
<1> QED
  BY <1>1, <1>3, <1>4 DEF RomWork

LEMMA OverrideAttemptStep ==
    ASSUME DotInv, OverrideAttempt
    PROVE  DotInv'
<1>1. /\ pc = "handler" /\ UNCHANGED <<params, store, backup, runtime>>
      /\ manifest' = manifest /\ burned' = burned /\ enabled' = enabled /\ faults' = faults
      /\ burned \in {fuses, fuses + 1} /\ faults \in 0..MaxFaults
  BY DEF OverrideAttempt, Attempting, params, store, DotInv, RomWork, Rest
<1>2. Ledger' /\ RtWork' /\ Context'
  BY <1>1, AttemptFrame
<1>3. CASE /\ work' = Override(fuses)
           /\ UNCHANGED <<pc, fuses, owner, handler, challenged, cmd>>
  <2>1. RomWork'
    BY <1>1, <1>3, OverrideWork
  <2>2. Rest'
    BY <1>1, <1>3 DEF DotInv, Rest
  <2> QED
    BY <1>2, <2>1, <2>2 DEF DotInv
<1>4. CASE NextHandler
  BY <1>1, <1>2, <1>4, NextHandlerStep DEF DotInv
<1> QED
  BY <1>3, <1>4 DEF OverrideAttempt

LEMMA RestoreAttemptStep ==
    ASSUME DotInv, RestoreAttempt
    PROVE  DotInv'
<1>1. /\ pc = "restore" /\ UNCHANGED <<params, store, backup, runtime>>
      /\ manifest' = manifest /\ burned' = burned /\ enabled' = enabled
      /\ fuses' = fuses /\ fuses \in 0..Total /\ Rest
  BY DEF RestoreAttempt, params, store, DotInv, RomWork
<1>2. Ledger' /\ RtWork' /\ Context'
  BY <1>1, AttemptFrame
<1>3. faults' \in 0..MaxFaults
  <2>1. UNCHANGED faults \/ Fault("mailbox")
    BY DEF RestoreAttempt
  <2>2. faults \in 0..MaxFaults
    BY <1>1 DEF Rest
  <2> QED
    BY <2>1, <2>2, FaultBound
<1>4. CASE /\ Authentic(backup, fuses) /\ work' = Restore(backup)
           /\ UNCHANGED <<pc, owner, handler, challenged, cmd, faults>>
  <2>1. RomWork'
    BY <1>1, <1>4, RestoreWork
  <2>2. Rest'
    BY <1>1, <1>4 DEF DotInv, Rest
  <2> QED
    BY <1>2, <2>1, <2>2 DEF DotInv
<1>5. CASE Halt
  BY <1>1, <1>2, <1>3, <1>5, HaltStep DEF DotInv
<1> QED
  BY <1>4, <1>5 DEF RestoreAttempt

(* The I3C services: entered, answered, left                                *)
LEMMA I3cStep ==
    ASSUME DotInv, I3cAttempt \/ I3cServices
    PROVE  DotInv'
<1>1. /\ pc \in {"handler", "i3c"} /\ UNCHANGED <<params, store, backup, runtime>>
      /\ UNCHANGED <<manifest, burned, enabled, flash, fuses, owner, handler, faults>>
      /\ burned \in {fuses, fuses + 1} /\ Rest /\ fuses \in 0..Total /\ Locked(fuses)
      /\ pc' \in {"i3c", "warm"}
  BY DEF I3cAttempt, Attempting, I3cServices, I3cRecovery, I3cUnlockChallenge, I3cOverride,
         I3cTimeout, WarmBoot, params, store, DotInv, RomWork
<1>2. Ledger' /\ RtWork' /\ Context'
  BY <1>1, AttemptFrame
<1>3. Rest'
  BY <1>1 DEF Rest
<1>4. RomWork'
  <2>1. CASE I3cAttempt \/ I3cTimeout
    <3>1. work' \in {work, Idle} /\ work.todo = << >>
      BY <2>1 DEF I3cAttempt, Attempting, I3cTimeout, WarmBoot
    <3>2. work = Idle
      BY <1>1, <3>1, Forms DEF DotInv, RomWork, Under
    <3> QED
      BY <1>1, <3>1, <3>2, RomIdle
  <2>2. CASE I3cUnlockChallenge
    BY <1>1, <2>2 DEF I3cUnlockChallenge, DotInv, RomWork
  <2>3. CASE I3cRecovery
    BY <1>1, <2>3, RestoreWork DEF I3cRecovery
  <2>4. CASE I3cOverride
    <3>1. pc' = pc /\ pc = "i3c" /\ (work' = Idle \/ work' = Override(fuses))
      BY <2>4 DEF I3cOverride
    <3> QED
      BY <1>1, <3>1, OverrideWork, RomIdle
  <2> QED
    BY <2>1, <2>2, <2>3, <2>4 DEF I3cServices
<1> QED
  BY <1>2, <1>3, <1>4 DEF DotInv

(* A manifest command begins a transaction at the counter it reads          *)
LEMMA ManifestStep ==
    ASSUME DotInv, ManifestCommand
    PROVE  DotInv'
<1>1. /\ pc = "manifest" /\ UNCHANGED <<params, store, backup, runtime>>
      /\ UNCHANGED <<manifest, burned, enabled, flash, fuses, faults, backup, unlock_ctx>>
      /\ Rest /\ fuses \in 0..Total /\ burned \in 0..Total /\ work.todo = << >>
  BY DEF ManifestCommand, params, store, runtime, DotInv, RomWork, Ledger
<1>2. Ledger' /\ RtWork' /\ Context'
  BY <1>1, AttemptFrame
<1>3. work = Idle
  BY <1>1, Forms DEF DotInv, RomWork, Under
<1>4. CASE Halt
  <2>1. faults' \in 0..MaxFaults
    BY <1>1 DEF Rest
  <2> QED
    BY <1>1, <1>2, <1>4, <2>1, HaltStep DEF DotInv
<1>5. CASE pc' = "run" /\ UNCHANGED <<owner, cmd, work, handler, challenged>>
  <2>1. RomWork'
    BY <1>1, <1>3, <1>5, RomIdle
  <2>2. Rest'
    BY <1>1, <1>5 DEF Rest
  <2> QED
    BY <1>2, <2>1, <2>2 DEF DotInv
<1>6. CASE /\ work' = ManifestWork(manifest.commands[cmd]) /\ enabled
           /\ UNCHANGED <<pc, owner, handler, challenged>>
  <2>1. manifest.cak \in Keys /\ manifest.lak \in Keys /\ None \in Keys
    BY <1>1, ManifestsAssumption, NoneIsKey DEF Rest
  <2>2. \/ work' = Idle
        \/ ~Locked(burned) /\ work' = Commit("lock", burned, manifest.cak, manifest.lak, None)
        \/ ~Locked(burned) /\ work' = Commit("disable", burned, None, manifest.lak, None)
        \/ Locked(burned) /\ work' = Commit("unlock", burned, None, manifest.lak, None)
        \/ work' = Rotate(burned, manifest.cak, manifest.lak)
    BY <1>6 DEF ManifestWork
  <2>3. /\ work' \in Works
        /\ \/ work' = Idle \/ Committing(work', burned, flash)
           \/ Rotating(work', burned, backup, unlock_ctx)
    <3>1. CASE work' = Idle
      BY <3>1, IdleType
    <3>2. CASE ~Locked(burned) /\ work' = Commit("lock", burned, manifest.cak, manifest.lak, None)
      BY <1>1, <2>1, <3>2, CommitBegins
    <3>3. CASE ~Locked(burned) /\ work' = Commit("disable", burned, None, manifest.lak, None)
      BY <1>1, <2>1, <3>3, CommitBegins
    <3>4. CASE Locked(burned) /\ work' = Commit("unlock", burned, None, manifest.lak, None)
      BY <1>1, <2>1, <3>4, CommitBegins
    <3>5. CASE work' = Rotate(burned, manifest.cak, manifest.lak)
      BY <1>1, <2>1, <3>5, RotateBegins
    <3> QED
      BY <2>2, <3>1, <3>2, <3>3, <3>4, <3>5
  <2>4. RomWork'
    BY <1>1, <1>6, <2>3 DEF RomWork
  <2>5. Rest'
    BY <1>1, <1>6 DEF Rest
  <2> QED
    BY <1>2, <2>4, <2>5 DEF DotInv
<1> QED
  BY <1>4, <1>5, <1>6 DEF ManifestCommand

-----------------------------------------------------------------------------
(* The Runtime commands *)

(* No transport has anything under way                                      *)
LEMMA RtAllIdle ==
    ASSUME rt' \in [Transports -> Works], \A t \in Transports : rt'[t] = Idle, busy' = FALSE
    PROVE  RtWork'
<1>1. busy' = (\E t \in Transports : rt'[t] # Idle)
  <2>1. ~\E t \in Transports : rt'[t] # Idle
    OBVIOUS
  <2> QED
    BY <2>1, Zenon
<1>2. UnlockByHolder'
  BY IdleType DEF UnlockByHolder
<1> QED
  BY <1>1, <1>2 DEF RtWork

LEMMA RunFrame ==
    ASSUME DotInv, pc = "run", UNCHANGED boot, UNCHANGED params, faults' \in 0..MaxFaults
    PROVE  RomWork' /\ Rest'
<1>1. /\ work' = Idle /\ fuses' \in 0..Total /\ pc' = "run"
      /\ UNCHANGED <<owner, handler, manifest>>
  BY DEF DotInv, RomWork, boot, params
<1>2. RomWork'
  BY <1>1, RomIdle
<1> QED
  BY <1>1, <1>2 DEF DotInv, Rest

(* The guard: whoever acquires it finds every transport idle                *)
LEMMA AcquiredIdle ==
    ASSUME DotInv, NEW t \in Transports, Acquired(t)
    PROVE  /\ pc = "run" /\ enabled /\ busy = FALSE
           /\ \A u \in Transports : rt[u] = Idle
           /\ rt \in [Transports -> Works]
  BY DEF DotInv, RtWork, Acquired

LEMMA BeginStep ==
    ASSUME DotInv, NEW t \in Transports, Acquired(t), NEW w \in Works, Begin(t, w),
           Under(w, burned, burned, flash, backup, unlock_ctx),
           w.op = "unlock" => committed.epoch = burned /\ w.key = committed.lak
    PROVE  DotInv'
<1>1. /\ pc = "run" /\ enabled /\ \A u \in Transports : rt[u] = Idle
      /\ rt \in [Transports -> Works]
  BY AcquiredIdle
<1>2. /\ UNCHANGED <<params, store, backup>> /\ UNCHANGED boot /\ UNCHANGED params
      /\ UNCHANGED <<pc, enabled, burned, flash, committed, backup, unlock_ctx, faults>>
      /\ busy' = TRUE /\ rt' = [rt EXCEPT ![t] = w]
  BY DEF Begin, params, store, boot
<1>3. faults' \in 0..MaxFaults
  BY <1>2 DEF DotInv, Rest
<1>4. Ledger' /\ RomWork' /\ Rest'
  BY <1>1, <1>2, <1>3, LedgerFrame, RunFrame DEF DotInv
<1>5. Context'
  BY <1>2 DEF DotInv, Context
<1>6. /\ rt' \in [Transports -> Works] /\ rt'[t] = w
      /\ \A u \in Transports : u # t => rt'[u] = Idle
  BY <1>1, <1>2
<1>7. w # Idle
  BY NotIdle
<1>8. busy' = (\E u \in Transports : rt'[u] # Idle)
  <2>1. \E u \in Transports : rt'[u] # Idle
    BY <1>6, <1>7
  <2> QED
    BY <1>2, <2>1, Zenon
<1>9. RtOne(t)'
  BY <1>1, <1>2, <1>6 DEF RtOne, Under
<1>10. UnlockByHolder'
  BY <1>2, <1>6, IdleType DEF UnlockByHolder
<1>11. \A u \in Transports : rt'[u] # Idle => RtOne(u)'
  BY <1>6, <1>9
<1>12. RtWork'
  BY <1>6, <1>8, <1>10, <1>11 DEF RtWork
<1> QED
  BY <1>4, <1>5, <1>12 DEF DotInv

LEMMA CommandStep ==
    ASSUME DotInv, NEW t \in Transports,
           dot_lock(t) \/ dot_disable(t) \/ dot_rotate(t) \/ dot_recovery(t)
             \/ dot_unlock(t) \/ dot_override(t)
    PROVE  DotInv'
<1>1. /\ Acquired(t) /\ burned \in 0..Total /\ backup \in Blobs(Total + 1) /\ None \in Keys
  BY NoneIsKey DEF dot_lock, dot_disable, dot_rotate, dot_recovery, dot_unlock, dot_override,
                   DotInv, Ledger
<1>2. CASE dot_lock(t)
  <2>1. PICK r \in Requests : Begin(t, Commit("lock", burned, r.cak, r.lak, None))
    BY <1>2 DEF dot_lock
  <2>2. r.cak \in Keys /\ r.lak \in Keys /\ ~Locked(burned)
    BY <1>2, RequestKeys DEF dot_lock
  <2>3. PICK w : w = Commit("lock", burned, r.cak, r.lak, None)
    OBVIOUS
  <2>4. w \in Works /\ Committing(w, burned, flash) /\ w.op = "lock"
    BY <1>1, <2>2, <2>3, CommitBegins
  <2> QED
    BY <1>1, <2>1, <2>3, <2>4, BeginStep DEF Under
<1>3. CASE dot_disable(t)
  <2>1. PICK r \in Requests : Begin(t, Commit("disable", burned, None, r.lak, None))
    BY <1>3 DEF dot_disable
  <2>2. r.lak \in Keys /\ ~Locked(burned)
    BY <1>3, RequestKeys DEF dot_disable
  <2>3. PICK w : w = Commit("disable", burned, None, r.lak, None)
    OBVIOUS
  <2>4. w \in Works /\ Committing(w, burned, flash) /\ w.op = "disable"
    <3>1. "disable" \in {"lock", "disable", "unlock"} /\ ("disable" = "unlock" <=> Locked(burned))
      BY <2>2
    <3> QED
      BY <1>1, <2>2, <2>3, <3>1, CommitBegins
  <2> QED
    BY <1>1, <2>1, <2>3, <2>4, BeginStep DEF Under
<1>4. CASE dot_rotate(t)
  <2>1. PICK r \in Requests : Begin(t, Rotate(burned, r.cak, r.lak))
    BY <1>4 DEF dot_rotate
  <2>2. r.cak \in Keys /\ r.lak \in Keys
    BY RequestKeys
  <2>3. PICK w : w = Rotate(burned, r.cak, r.lak)
    OBVIOUS
  <2>4. w \in Works /\ Rotating(w, burned, backup, unlock_ctx) /\ w.op = "rotate"
    BY <1>1, <2>2, <2>3, RotateBegins
  <2> QED
    BY <1>1, <2>1, <2>3, <2>4, BeginStep DEF Under
<1>5. CASE dot_recovery(t)
  <2>1. PICK w : w = Restore(backup)
    OBVIOUS
  <2>2. w \in Works /\ w.op = "restore"
    BY <1>1, <2>1, RestoreBegins
  <2>3. Restoring(w, burned, backup)
    BY <1>5, <2>1 DEF dot_recovery, Restoring
  <2>4. Begin(t, w)
    BY <1>5, <2>1 DEF dot_recovery
  <2> QED
    BY <1>1, <2>2, <2>3, <2>4, BeginStep DEF Under
<1>6. CASE dot_unlock(t)
  <2>1. PICK r \in Requests : /\ Accepts(unlock_ctx, r.lak)
                              /\ Begin(t, Commit("unlock", burned, None, unlock_ctx.lak, r.lak))
    BY <1>6 DEF dot_unlock
  <2>2. /\ r.lak \in Keys /\ unlock_ctx.lak \in Keys /\ Locked(burned)
        /\ committed.epoch = burned /\ r.lak = committed.lak
    BY <2>1, RequestKeys DEF Accepts, DotInv, Context
  <2>3. PICK w : w = Commit("unlock", burned, None, unlock_ctx.lak, r.lak)
    OBVIOUS
  <2>4. w \in Works /\ Committing(w, burned, flash) /\ w.key = r.lak
    BY <1>1, <2>2, <2>3, CommitBegins
  <2> QED
    BY <1>1, <2>1, <2>2, <2>3, <2>4, BeginStep DEF Under
<1>7. CASE dot_override(t)
  <2>1. Locked(burned) /\ Begin(t, Override(burned))
    BY <1>7 DEF dot_override, Accepts
  <2>2. PICK w : w = Override(burned)
    OBVIOUS
  <2>3. w \in Works /\ Overriding(w, burned, burned) /\ w.op = "override"
    BY <1>1, <2>1, <2>2, OverrideBegins
  <2> QED
    BY <1>1, <2>1, <2>2, <2>3, BeginStep DEF Under
<1> QED
  BY <1>2, <1>3, <1>4, <1>5, <1>6, <1>7

(* The challenges, and the backup the agent fetches                         *)
LEMMA QueryStep ==
    ASSUME DotInv, NEW t \in Transports,
           dot_unlock_challenge(t) \/ dot_override_challenge(t) \/ dot_get_backup_blob(t)
    PROVE  DotInv'
<1>0. Acquired(t)
  BY DEF dot_unlock_challenge, dot_override_challenge, dot_get_backup_blob
<1>1. /\ pc = "run" /\ \A u \in Transports : rt[u] = Idle
      /\ rt \in [Transports -> Works] /\ busy = FALSE /\ burned \in 0..Total /\ burned \in Nat
  <2>1. burned \in 0..Total /\ burned \in Nat
    BY TotalAssumption DEF DotInv, Ledger
  <2> QED
    BY <1>0, <2>1, AcquiredIdle
<1>2. /\ UNCHANGED <<params, store, boot, faults>> /\ UNCHANGED boot /\ UNCHANGED params
      /\ UNCHANGED store /\ UNCHANGED <<busy, rt, burned, flash, committed, enabled, pc>>
  BY DEF dot_unlock_challenge, dot_override_challenge, dot_get_backup_blob, params, store,
         runtime, boot
<1>3. RtWork'
  BY <1>1, <1>2, RtAllIdle
<1>4. faults' \in 0..MaxFaults
  BY <1>2 DEF DotInv, Rest
<1>5. RomWork' /\ Rest'
  BY <1>1, <1>2, <1>4, RunFrame
<1>6. CASE dot_unlock_challenge(t)
  <2>1. /\ Locked(burned) /\ Authentic(flash, burned) /\ backup' = backup
        /\ unlock_ctx' = [lak |-> flash.lak, count |-> burned]
    BY <1>6 DEF dot_unlock_challenge
  <2>2. committed = [epoch |-> burned, cak |-> flash.cak, lak |-> flash.lak]
    BY <2>1 DEF DotInv, Ledger, Agrees
  <2>3. flash.lak \in Keys
    BY DEF DotInv, Ledger, Blobs
  <2>4. burned \in 0..burned
    BY <1>1
  <2>5. Context'
    BY <1>1, <1>2, <2>1, <2>2, <2>3, <2>4 DEF Context
  <2>6. Ledger'
    BY <1>2, <2>1, LedgerFrame DEF DotInv
  <2> QED
    BY <1>3, <1>5, <2>5, <2>6 DEF DotInv
<1>7. CASE dot_override_challenge(t)
  <2>1. backup' = backup /\ unlock_ctx' = unlock_ctx
    BY <1>7 DEF dot_override_challenge
  <2>2. Context'
    BY <1>2, <2>1 DEF Context, DotInv
  <2>3. Ledger'
    BY <1>2, <2>1, LedgerFrame DEF DotInv
  <2> QED
    BY <1>3, <1>5, <2>2, <2>3 DEF DotInv
<1>8. CASE dot_get_backup_blob(t)
  <2>1. /\ Locked(burned) /\ Authentic(flash, burned) /\ backup' = flash /\ unlock_ctx' = unlock_ctx
    BY <1>8 DEF dot_get_backup_blob, runtime
  <2>2. Context'
    BY <1>2, <2>1 DEF Context, DotInv
  <2>3. flash.seal <= burned
    BY <1>1, <2>1, KeyFacts DEF Authentic
  <2>4. Ledger'
    BY <1>2, <2>1, <2>3 DEF DotInv, Ledger, Agrees, Authentic
  <2> QED
    BY <1>3, <1>5, <2>2, <2>4 DEF DotInv
<1> QED
  BY <1>6, <1>7, <1>8

-----------------------------------------------------------------------------
(* The steps that write *)

(* The transaction of the ROM, and the counter m an override of it began at *)
LEMMA RomUnder ==
    ASSUME DotInv, work.todo # << >>
    PROVE  /\ pc \in {"lock", "handler", "i3c", "restore", "manifest"} /\ enabled
           /\ \E m \in Nat :
                /\ m \in {burned, burned - 1}
                /\ Under(work, m, burned, flash, backup, unlock_ctx)
                /\ pc \in {"handler", "i3c"} =>
                     m = fuses /\ work.op \in {"override", "restore"}
<1>1. work # Idle
  BY IdleType
<1>2. pc \in {"lock", "handler", "i3c", "restore", "manifest"} /\ enabled
  BY <1>1 DEF DotInv, RomWork, Rest
<1>3. burned \in Nat /\ fuses \in Nat
  BY TotalAssumption DEF DotInv, Ledger, RomWork
<1>4. CASE pc \in {"handler", "i3c"}
  <2>1. /\ burned \in {fuses, fuses + 1}
        /\ Overriding(work, fuses, burned) \/ Restoring(work, fuses, backup)
    BY <1>1, <1>4 DEF DotInv, RomWork
  <2>2. work.op \in {"override", "restore"}
    BY <2>1 DEF Overriding, Emptying, Restoring, Restore
  <2>3. fuses \in {burned, burned - 1} /\ Under(work, fuses, burned, flash, backup, unlock_ctx)
    BY <1>3, <2>1 DEF Under
  <2> QED
    BY <1>2, <1>3, <2>2, <2>3
<1>5. CASE pc \notin {"handler", "i3c"}
  <2>1. Under(work, burned, burned, flash, backup, unlock_ctx)
    BY <1>1, <1>2, <1>5 DEF DotInv, RomWork, Under
  <2> QED
    BY <1>2, <1>3, <1>5, <2>1
<1> QED
  BY <1>4, <1>5

(* What a write of the ROM's, complete or failed, does to the persistent    *)
(* state; an override burns at most the fuse that follows this boot's       *)
LEMMA RomStore ==
    ASSUME DotInv, NEW strict, Done(work, strict) \/ Failed(work, strict),
           UNCHANGED <<params, backup, runtime>>
    PROVE  /\ Ledger' /\ RtWork' /\ Context' /\ faults' \in 0..MaxFaults
           /\ pc \in {"handler", "i3c"} => burned' \in {fuses, fuses + 1}
           /\ pc \in {"lock", "handler", "i3c", "restore", "manifest"} /\ enabled
<1>1. work.todo # << >>
  BY DEF Done, Failed
<1>2. PICK m \in Nat : /\ m \in {burned, burned - 1}
                       /\ Under(work, m, burned, flash, backup, unlock_ctx)
                       /\ pc \in {"handler", "i3c"} =>
                            m = fuses /\ work.op \in {"override", "restore"}
  BY <1>1, RomUnder
<1>3. pc \in {"lock", "handler", "i3c", "restore", "manifest"} /\ enabled
  BY <1>1, RomUnder
<1>4. work \in Works /\ Ledger /\ faults \in 0..MaxFaults /\ UNCHANGED <<backup, enabled>>
  BY DEF DotInv, RomWork, Rest, params
<1>5. /\ Ledger' /\ faults' \in 0..MaxFaults
      /\ \/ burned' = burned
         \/ /\ burned' = burned + 1 /\ Head(work.todo).at = burned
            /\ BurnNext(work, m, burned, flash, backup, unlock_ctx)
  BY <1>2, <1>3, <1>4, StoreStep
<1>6. pc \in {"handler", "i3c"} => burned' \in {fuses, fuses + 1}
  <2> SUFFICES ASSUME pc \in {"handler", "i3c"} PROVE burned' \in {fuses, fuses + 1}
    OBVIOUS
  <2>1. burned \in {fuses, fuses + 1} /\ m = fuses /\ work.op \in {"override", "restore"}
    BY <1>2 DEF DotInv, RomWork
  <2>2. burned' = burned + 1 => burned = fuses
    BY <1>5, <2>1 DEF BurnNext, Committing
  <2> QED
    BY <1>5, <2>1, <2>2
<1>7. burned' \in Nat /\ pc # "run"
  BY <1>3, <1>5, TotalAssumption DEF Ledger
<1>8. RtWork' /\ Context'
  BY <1>7, RomFrame
<1> QED
  BY <1>3, <1>5, <1>6, <1>8

LEMMA RomWriteStep ==
    ASSUME DotInv, RomWrite
    PROVE  DotInv'
<1>1. PICK strict : strict = FALSE
  OBVIOUS
<1>2. /\ Done(work, strict) /\ UNCHANGED <<params, backup, runtime>>
      /\ UNCHANGED <<enabled, manifest, backup, fuses, unlock_ctx>>
  BY <1>1 DEF RomWrite, params, runtime
<1>3. /\ Ledger' /\ RtWork' /\ Context' /\ faults' \in 0..MaxFaults
      /\ pc \in {"handler", "i3c"} => burned' \in {fuses, fuses + 1}
      /\ pc \in {"lock", "handler", "i3c", "restore", "manifest"} /\ enabled
  BY <1>2, RomStore
<1>4. Rest /\ work \in Works /\ fuses' \in 0..Total /\ work.todo # << >>
  BY <1>2 DEF DotInv, RomWork, Done
<1>5. CASE Len(work.todo) = 1
  <2>1. Completed
    BY <1>5 DEF RomWrite
  <2>2. CASE pc \in {"lock", "restore"}
    <3>1. flash.cak \in Keys /\ flash'.cak \in Keys
      BY <1>3 DEF DotInv, Ledger, Blobs
    <3>2. PICK o \in Keys \cup {Fused} : Boot(o)
      BY <2>1, <2>2, <3>1, OwnerType DEF Completed, WarmBoot
    <3> QED
      BY <1>2, <1>3, <1>4, <3>2, BootStep DEF DotInv
  <2>3. CASE pc \notin {"lock", "restore"}
    <3>1. /\ work' = Idle /\ UNCHANGED <<owner, handler>>
          /\ pc' \in {"warm", "manifest"}
      BY <2>1, <2>3 DEF Completed, WarmBoot
    <3>2. RomWork'
      BY <1>4, <3>1, RomIdle
    <3>3. Rest'
      BY <1>2, <1>3, <1>4, <3>1 DEF Rest
    <3> QED
      BY <1>3, <3>2, <3>3 DEF DotInv
  <2> QED
    BY <2>2, <2>3
<1>6. CASE Len(work.todo) # 1
  <2>1. PICK v : v = [work EXCEPT !.todo = Tail(@)]
    OBVIOUS
  <2>2. work' = v /\ UNCHANGED <<pc, owner, handler>>
    BY <1>6, <2>1 DEF RomWrite
  <2>3. PICK m \in Nat : /\ m \in {burned, burned - 1}
                         /\ Under(work, m, burned, flash, backup, unlock_ctx)
                         /\ pc \in {"handler", "i3c"} =>
                              m = fuses /\ work.op \in {"override", "restore"}
    BY <1>4, RomUnder
  <2>4. unlock_ctx.count \in Nat /\ unlock_ctx.count <= burned
    BY TotalAssumption DEF DotInv, Context, Ledger
  <2>5. /\ v \in Works /\ v.op = work.op
        /\ \/ /\ Committing(work, burned, flash) /\ Committing(v, burned', flash')
              /\ burned' = burned
           \/ work.op = "rotate" /\ Rotating(v, burned', backup, unlock_ctx)
           \/ work.op = "override" /\ burned' \in {m, m + 1} /\ Emptying(v, burned')
    BY <1>2, <1>3, <1>4, <1>6, <2>1, <2>3, <2>4, DoneRest DEF DotInv
  <2>6. Rest'
    BY <1>2, <1>3, <1>4, <2>2 DEF Rest
  <2>7. CASE pc \in {"handler", "i3c"}
    <3>1. Overriding(v, fuses, burned')
      BY <2>3, <2>5, <2>7 DEF Overriding, Committing
    <3>2. Locked(fuses)
      BY <2>7 DEF DotInv, RomWork
    <3>3. RomWork'
      BY <1>2, <1>3, <1>4, <2>2, <2>5, <2>7, <3>1, <3>2 DEF RomWork
    <3> QED
      BY <1>3, <2>6, <3>3 DEF DotInv
  <2>8. CASE pc = "manifest"
    <3>1. work.op # "override"
      BY <1>4, <2>8, IdleType DEF DotInv, RomWork, Committing, Rotating
    <3>2. RomWork'
      BY <1>2, <1>3, <1>4, <2>2, <2>5, <2>8, <3>1 DEF RomWork
    <3> QED
      BY <1>3, <2>6, <3>2 DEF DotInv
  <2>9. CASE pc \in {"lock", "restore"}
    <3>1. work.todo = <<Burn(burned)>> \/ work.todo = <<Write(backup)>>
      BY <1>4, <2>9, IdleType DEF DotInv, RomWork, Restoring, Restore
    <3> QED
      BY <1>6, <3>1, OneLeft
  <2> QED
    BY <1>3, <2>7, <2>8, <2>9
<1> QED
  BY <1>5, <1>6

(* A failed write ends the transaction: the next handler, the loop again,   *)
(* or the end of the boot                                                   *)
LEMMA RomWriteFailsStep ==
    ASSUME DotInv, RomWriteFails
    PROVE  DotInv'
<1>1. PICK strict : strict = FALSE
  OBVIOUS
<1>2. /\ Failed(work, strict) /\ UNCHANGED <<params, backup, runtime>>
      /\ UNCHANGED manifest
  BY <1>1 DEF RomWriteFails, params
<1>3. /\ Ledger' /\ RtWork' /\ Context' /\ faults' \in 0..MaxFaults
      /\ pc \in {"handler", "i3c"} => burned' \in {fuses, fuses + 1}
  BY <1>2, RomStore
<1>4. Rest /\ fuses \in 0..Total
  BY DEF DotInv, RomWork
<1>5. CASE pc = "handler"
  <2>1. NextHandler
    BY <1>5 DEF RomWriteFails
  <2> QED
    BY <1>2, <1>3, <1>5, <2>1, NextHandlerStep DEF DotInv
<1>6. CASE pc = "i3c"
  <2>1. work' = Idle /\ UNCHANGED <<pc, fuses, owner, handler>>
    BY <1>6 DEF RomWriteFails
  <2>2. Locked(fuses)
    BY <1>6 DEF DotInv, RomWork
  <2>3. RomWork'
    BY <1>3, <1>4, <1>6, <2>1, <2>2, RomIdle
  <2>4. Rest'
    BY <1>2, <1>3, <1>4, <2>1 DEF Rest
  <2> QED
    BY <1>3, <2>3, <2>4 DEF DotInv
<1>7. CASE pc \notin {"handler", "i3c"}
  <2>1. Halt /\ UNCHANGED fuses
    BY <1>7 DEF RomWriteFails
  <2> QED
    BY <1>2, <1>3, <1>4, <2>1, HaltStep DEF DotInv
<1> QED
  BY <1>5, <1>6, <1>7

(* A write of a Runtime command's, complete or failed                       *)
LEMMA RtStore ==
    ASSUME DotInv, NEW t \in Transports, NEW strict,
           Done(rt[t], strict) \/ Failed(rt[t], strict), UNCHANGED <<params, backup>>,
           unlock_ctx' = unlock_ctx \/ unlock_ctx' = NoContext, pc' = "run"
    PROVE  /\ Ledger' /\ Context' /\ faults' \in 0..MaxFaults
           /\ rt[t] \in Works /\ RtOne(t) /\ enabled
           /\ Under(rt[t], burned, burned, flash, backup, unlock_ctx)
           /\ burned' = burned /\ rt[t].op # "rotate" => committed' = committed
<1>1. PICK w : w = rt[t]
  OBVIOUS
<1>2. w.todo # << >> /\ w # Idle
  BY <1>1, IdleType DEF Done, Failed
<1>3. w \in Works /\ RtOne(t)
  BY <1>1, <1>2 DEF DotInv, RtWork
<1>4. enabled /\ Under(w, burned, burned, flash, backup, unlock_ctx)
  BY <1>1, <1>3 DEF RtOne, Under
<1>5. Ledger /\ faults \in 0..MaxFaults /\ UNCHANGED <<backup, enabled>>
  BY DEF DotInv, Rest, params
<1>6. /\ Ledger' /\ faults' \in 0..MaxFaults
      /\ \/ /\ burned' = burned
            /\ committed' = committed \/ (w.op = "rotate" /\ unlock_ctx.count < burned)
         \/ burned' = burned + 1
  <2>1. Done(w, strict) \/ Failed(w, strict)
    BY <1>1
  <2> QED
    BY <1>3, <1>4, <1>5, <2>1, StoreStep
<1>7. Context'
  <2>1. burned \in Nat /\ burned' \in Nat
    BY <1>5, <1>6, TotalAssumption DEF Ledger
  <2>2. CASE unlock_ctx' = NoContext
    BY <2>1, <2>2, NoneIsKey, EvenFacts DEF Context, NoContext
  <2>3. CASE unlock_ctx' = unlock_ctx
    <3>1. /\ unlock_ctx \in [lak : Keys, count : 0..burned]
          /\ unlock_ctx.count = burned /\ Locked(burned) =>
               committed.epoch = burned /\ unlock_ctx.lak = committed.lak
      BY DEF DotInv, Context
    <3>2. unlock_ctx.lak \in Keys /\ unlock_ctx.count \in 0..burned
      BY <3>1
    <3>3. unlock_ctx' \in [lak : Keys, count : 0..burned']
      BY <1>6, <2>1, <2>3, <3>1
    <3>4. unlock_ctx'.count = burned' /\ Locked(burned') =>
               committed'.epoch = burned' /\ unlock_ctx'.lak = committed'.lak
      BY <1>6, <2>1, <2>3, <3>1, <3>2
    <3> QED
      BY <3>3, <3>4 DEF Context
  <2> QED
    BY <2>2, <2>3
<1>8. burned' = burned /\ rt[t].op # "rotate" => committed' = committed
  <2>1. burned \in Nat
    BY <1>5, TotalAssumption DEF Ledger
  <2> QED
    BY <1>1, <1>6, <2>1
<1> QED
  BY <1>1, <1>3, <1>4, <1>6, <1>7, <1>8

LEMMA FinishIdle ==
    ASSUME RtWork, NEW t \in Transports, RtOne(t), Finish(t)
    PROVE  RtWork'
<1>1. /\ rt \in [Transports -> Works] /\ \A u \in Transports : u # t => rt[u] = Idle
  BY DEF RtWork, RtOne
<1>2. rt' \in [Transports -> Works] /\ \A u \in Transports : rt'[u] = Idle
  BY <1>1, IdleType DEF Finish
<1>3. busy' = FALSE
  BY DEF Finish
<1> QED
  BY <1>2, <1>3, RtAllIdle

LEMMA RtWriteFailsStep ==
    ASSUME DotInv, NEW t \in Transports, RtWriteFails(t)
    PROVE  DotInv'
<1>1. PICK strict : strict = TRUE
  OBVIOUS
<1>2. /\ Failed(rt[t], strict) /\ UNCHANGED <<params, backup>> /\ unlock_ctx' = unlock_ctx
      /\ pc = "run" /\ pc' = "run" /\ UNCHANGED boot /\ UNCHANGED params
  BY <1>1 DEF RtWriteFails, boot
<1>3. Ledger' /\ Context' /\ faults' \in 0..MaxFaults /\ RtOne(t)
  BY <1>2, RtStore
<1>4. RtWork'
  BY <1>3, FinishIdle DEF DotInv, RtWriteFails
<1>5. RomWork' /\ Rest'
  BY <1>2, <1>3, RunFrame
<1> QED
  BY <1>3, <1>4, <1>5 DEF DotInv

LEMMA RtWriteStep ==
    ASSUME DotInv, NEW t \in Transports, RtWrite(t)
    PROVE  DotInv'
<1>1. PICK strict : strict = TRUE
  OBVIOUS
<1>2. /\ Done(rt[t], strict) /\ UNCHANGED <<params, backup>>
      /\ unlock_ctx' = unlock_ctx \/ unlock_ctx' = NoContext
      /\ pc = "run" /\ pc' = "run" /\ UNCHANGED boot /\ UNCHANGED params
      /\ backup' = backup /\ enabled' = enabled
  BY <1>1 DEF RtWrite, boot, params
<1>3. /\ Ledger' /\ Context' /\ faults' \in 0..MaxFaults
      /\ rt[t] \in Works /\ RtOne(t) /\ enabled
      /\ Under(rt[t], burned, burned, flash, backup, unlock_ctx)
      /\ burned' = burned /\ rt[t].op # "rotate" => committed' = committed
  BY <1>2, RtStore
<1>4. RomWork' /\ Rest'
  BY <1>2, <1>3, RunFrame
<1>5. CASE ~(Len(rt[t].todo) > 1)
  <2>1. Finish(t)
    BY <1>5 DEF RtWrite
  <2>2. RtWork'
    BY <1>3, <2>1, FinishIdle DEF DotInv
  <2> QED
    BY <1>3, <1>4, <2>2 DEF DotInv
<1>6. CASE Len(rt[t].todo) > 1
  <2>1. PICK w : w = rt[t]
    OBVIOUS
  <2>2. PICK v : v = [w EXCEPT !.todo = Tail(@)]
    OBVIOUS
  <2>3. /\ rt' = [rt EXCEPT ![t].todo = Tail(@)] /\ busy' = busy /\ unlock_ctx' = unlock_ctx
    BY <1>6 DEF RtWrite
  <2>4. /\ rt \in [Transports -> Works] /\ \A u \in Transports : u # t => rt[u] = Idle
        /\ w.op = "unlock" => committed.epoch = burned /\ w.key = committed.lak
    BY <1>3, <2>1 DEF DotInv, RtWork, RtOne, UnlockByHolder
  <2>5. rt'[t] = v /\ \A u \in Transports : u # t => rt'[u] = Idle
    BY <2>1, <2>2, <2>3, <2>4
  <2>6. /\ unlock_ctx.count \in Nat /\ unlock_ctx.count <= burned /\ burned \in Nat
        /\ Ledger /\ Len(w.todo) # 1 /\ w \in Works /\ Done(w, strict)
    <3>1. unlock_ctx.count \in Nat /\ unlock_ctx.count <= burned /\ burned \in Nat /\ Ledger
      BY TotalAssumption DEF DotInv, Context, Ledger
    <3>2. w \in Works /\ Done(w, strict)
      BY <1>2, <1>3, <2>1
    <3>3. Len(w.todo) # 1
      <4>1. PICK k : k = Len(w.todo)
        OBVIOUS
      <4>2. k \in Nat
        BY <3>2, <4>1 DEF Works
      <4>3. k > 1
        BY <1>6, <2>1, <4>1
      <4>4. k # 1
        BY <4>2, <4>3
      <4> QED
        BY <4>1, <4>4
    <3> QED
      BY <3>1, <3>2, <3>3
  <2>7. /\ v \in Works /\ v.op = w.op /\ v.key = w.key
        /\ \/ /\ Committing(w, burned, flash) /\ Committing(v, burned', flash')
              /\ burned' = burned
           \/ w.op = "rotate" /\ Rotating(v, burned', backup, unlock_ctx)
           \/ w.op = "override" /\ burned' \in {burned, burned + 1} /\ Emptying(v, burned')
    <3>1. PICK m \in Nat : m = burned
      BY <2>6
    <3>2. m \in {burned, burned - 1} /\ Under(w, m, burned, flash, backup, unlock_ctx)
      BY <1>3, <2>1, <3>1
    <3> QED
      BY <1>3, <2>2, <2>6, <3>1, <3>2, DoneRest
  <2>8. v # Idle
    <3>1. Under(v, burned', burned', flash', backup, unlock_ctx)
      BY <2>7 DEF Under, Overriding
    <3> QED
      BY <3>1, NotIdle
  <2>9. rt' \in [Transports -> Works]
    <3>1. rt' = [rt EXCEPT ![t] = v]
      BY <2>1, <2>2, <2>3, <2>4
    <3> QED
      BY <2>4, <2>7, <3>1
  <2>10. RtOne(t)'
    BY <1>2, <1>3, <2>3, <2>5, <2>7 DEF RtOne, Overriding
  <2>11. busy' = (\E u \in Transports : rt'[u] # Idle)
    <3>1. \E u \in Transports : rt[u] # Idle
      BY <2>1, <2>6, <1>3, NotIdle
    <3>2. busy
      BY <3>1 DEF DotInv, RtWork
    <3>3. \E u \in Transports : rt'[u] # Idle
      BY <2>5, <2>8
    <3>4. (\E u \in Transports : rt[u] # Idle) <=> (\E u \in Transports : rt'[u] # Idle)
      BY <3>1, <3>3
    <3>5. busy = (\E u \in Transports : rt[u] # Idle)
      BY DEF DotInv, RtWork
    <3> QED
      BY <2>3, <3>4, <3>5, Zenon
  <2>12. UnlockByHolder'
    <3>1. v.op = "unlock" => committed'.epoch = burned' /\ v.key = committed'.lak
      BY <1>3, <2>1, <2>4, <2>7
    <3> QED
      BY <2>5, <3>1, IdleType DEF UnlockByHolder
  <2>13. \A u \in Transports : rt'[u] # Idle => RtOne(u)'
    BY <2>5, <2>10
  <2>14. RtWork'
    BY <2>9, <2>11, <2>12, <2>13 DEF RtWork
  <2> QED
    BY <1>3, <1>4, <2>14 DEF DotInv
<1> QED
  BY <1>5, <1>6

-----------------------------------------------------------------------------
(* The environment *)

(* Every transaction under way is one of the four                           *)
LEMMA WritingUnder ==
    ASSUME DotInv, NEW w \in Writing
    PROVE  w \in Works /\ \E m \in Nat : Under(w, m, burned, flash, backup, unlock_ctx)
<1>1. w.todo # << >> /\ w # Idle
  BY IdleType DEF Writing
<1>2. CASE w = work
  BY <1>1, <1>2, RomUnder DEF DotInv, RomWork
<1>3. CASE \E t \in Transports : w = rt[t]
  <2>1. PICK t \in Transports : w = rt[t]
    BY <1>3
  <2>2. w \in Works /\ RtOne(t) /\ burned \in Nat
    BY <1>1, <2>1, TotalAssumption DEF DotInv, RtWork, Ledger
  <2>3. Under(w, burned, burned, flash, backup, unlock_ctx)
    BY <2>1, <2>2 DEF RtOne, Under
  <2> QED
    BY <2>2, <2>3
<1> QED
  BY <1>2, <1>3 DEF Writing

LEMMA PowerOffStep ==
    ASSUME DotInv, PowerOff, Ledger', UNCHANGED manifest, faults' \in 0..MaxFaults
    PROVE  DotInv'
<1>1. RtWork'
  <2>1. rt' = [t \in Transports |-> Idle] /\ busy' = FALSE
    BY DEF PowerOff
  <2>2. rt' \in [Transports -> Works] /\ \A t \in Transports : rt'[t] = Idle
    BY <2>1, IdleType
  <2> QED
    BY <2>1, <2>2, RtAllIdle
<1>2. RomWork'
  <2>1. work' = Idle /\ pc' = "off" /\ fuses' \in 0..Total
    BY TotalAssumption DEF PowerOff
  <2> QED
    BY <2>1, RomIdle
<1>3. Context'
  <2>1. burned' \in Nat
    BY TotalAssumption DEF Ledger
  <2> QED
    BY <2>1, NoneIsKey, EvenFacts DEF PowerOff, Context, NoContext
<1>4. Rest'
  BY NoneIsKey DEF PowerOff, Rest, DotInv
<1> QED
  BY <1>1, <1>2, <1>3, <1>4 DEF DotInv

LEMMA PowerCycleStep ==
    ASSUME DotInv, PowerCycle
    PROVE  DotInv'
<1>1. UNCHANGED <<params, store, backup>> /\ PowerOff /\ UNCHANGED <<manifest, faults>>
  BY DEF PowerCycle, params
<1>2. Ledger' /\ faults' \in 0..MaxFaults
  BY <1>1, LedgerFrame DEF DotInv, Rest
<1> QED
  BY <1>1, <1>2, PowerOffStep

(* A write torn by the loss of power lands like a failed one                *)
LEMMA PowerLossStep ==
    ASSUME DotInv, PowerLoss
    PROVE  DotInv'
<1>1. PICK w \in Writing :
        /\ flash' \in {flash} \cup IF Head(w.todo).kind = "write"
                                    THEN {Corrupt, Head(w.todo).blob} ELSE {}
        /\ committed' = Committed(burned, flash', w.op)
  BY DEF PowerLoss
<1>2. /\ PowerOff /\ UNCHANGED <<manifest, burned, backup, enabled>> /\ Ledger
      /\ UNCHANGED <<backup, enabled>>
  BY DEF PowerLoss, params, DotInv
<1>3. faults' \in 0..MaxFaults
  <2>1. faults \in 0..MaxFaults /\ Fault("power")
    BY DEF DotInv, Rest, PowerLoss
  <2> QED
    BY <2>1, FaultBound
<1>4. w \in Works
  BY WritingUnder
<1>5. PICK m \in Nat : Under(w, m, burned, flash, backup, unlock_ctx)
  BY WritingUnder
<1>6. CASE WriteNext(w, m, burned, flash, backup, unlock_ctx)
  <2>1. flash' \in {flash, Corrupt, w.blob}
    BY <1>1, <1>6 DEF WriteNext
  <2>2. Ledger'
    BY <1>1, <1>2, <1>4, <1>6, <2>1, WriteLands
  <2> QED
    BY <1>2, <1>3, <2>2, PowerOffStep
<1>7. CASE BurnNext(w, m, burned, flash, backup, unlock_ctx)
  <2>1. flash' = flash
    BY <1>1, <1>7 DEF BurnNext
  <2>2. committed' = committed
    BY <1>1, <1>2, <2>1 DEF Committed, Ledger, Agrees
  <2>3. Ledger'
    BY <1>2, <2>1, <2>2 DEF Ledger, Agrees, Authentic
  <2> QED
    BY <1>2, <1>3, <2>3, PowerOffStep
<1> QED
  BY <1>5, <1>6, <1>7, Forms

LEMMA FlashLostStep ==
    ASSUME DotInv, FlashLost
    PROVE  DotInv'
<1>1. /\ pc \in {"off", "run"} /\ Writing = {} /\ flash' \in {Blank, Corrupt}
      /\ UNCHANGED <<enabled, manifest, burned, committed, backup, pc, fuses, owner, work, handler>>
      /\ UNCHANGED <<busy, rt, unlock_ctx>>
  BY DEF FlashLost, params, boot, runtime
<1>2. faults' \in 0..MaxFaults
  <2>1. faults \in 0..MaxFaults /\ Fault("corrupt")
    BY DEF DotInv, Rest, FlashLost
  <2> QED
    BY <2>1, FaultBound
<1>3. Ledger'
  <2>1. flash' \in Blobs(Total + 1) /\ flash'.seal \in {0, 2} /\ burned' \in Nat
    BY <1>1, BlobTypes, TotalAssumption DEF DotInv, Ledger
  <2>2. ~Authentic(flash', burned')
    BY <2>1, NotAuthentic
  <2> QED
    BY <1>1, <2>1, <2>2 DEF DotInv, Ledger, Agrees, Authentic
<1>4. RomWork'
  <2>1. work' = Idle /\ fuses' \in 0..Total
    BY <1>1 DEF DotInv, RomWork
  <2> QED
    BY <1>1, <2>1, RomIdle
<1>5. RtWork'
  <2>1. ASSUME NEW t \in Transports PROVE rt[t] = Idle
    <3>1. ASSUME rt[t] # Idle PROVE FALSE
      <4>1. Under(rt[t], burned, burned, flash, backup, unlock_ctx)
        BY <3>1 DEF DotInv, RtWork, RtOne, Under
      <4>2. rt[t].todo # << >>
        BY <4>1, Forms
      <4> QED
        BY <1>1, <4>2 DEF Writing
    <3> QED
      BY <3>1
  <2>2. UnlockByHolder'
    BY <1>1, <2>1, IdleType DEF UnlockByHolder
  <2>3. rt \in [Transports -> Works] /\ busy = (\E t \in Transports : rt[t] # Idle)
    BY DEF DotInv, RtWork
  <2> QED
    BY <1>1, <2>1, <2>2, <2>3 DEF RtWork
<1>6. Context' /\ Rest'
  BY <1>1, <1>2 DEF DotInv, Context, Rest
<1> QED
  BY <1>3, <1>4, <1>5, <1>6 DEF DotInv

LEMMA StutterInv ==
    ASSUME DotInv, UNCHANGED vars
    PROVE  DotInv'
<1>1. /\ UNCHANGED <<enabled, manifest, burned, flash, committed, backup>>
      /\ UNCHANGED <<pc, fuses, owner, work, handler, busy, rt, unlock_ctx, faults>>
  BY DEF vars, params, store, boot, runtime
<1>2. Ledger' /\ Context' /\ Rest'
  BY <1>1 DEF DotInv, Ledger, Agrees, Authentic, Context, Rest
<1>3. RomWork'
  BY <1>1 DEF DotInv, RomWork
<1>4. \A t \in Transports : RtOne(t) => RtOne(t)'
  BY <1>1 DEF RtOne
<1>5. UnlockByHolder'
  BY <1>1 DEF DotInv, RtWork, UnlockByHolder
<1>6. RtWork'
  BY <1>1, <1>4, <1>5 DEF DotInv, RtWork
<1> QED
  BY <1>2, <1>3, <1>6 DEF DotInv

LEMMA NextInv ==
    ASSUME DotInv, [Next]_vars
    PROVE  DotInv'
<1>1. CASE Rom
  BY <1>1, ColdBootStep, BackupAttemptStep, OverrideAttemptStep, I3cStep, RestoreAttemptStep,
     ManifestStep, RomWriteStep, RomWriteFailsStep DEF Rom
<1>2. CASE I3cServices
  BY <1>2, I3cStep
<1>3. ASSUME NEW t \in Transports, Command(t) \/ RtWrite(t) \/ RtWriteFails(t)
      PROVE  DotInv'
  BY <1>3, CommandStep, QueryStep, RtWriteStep, RtWriteFailsStep DEF Command
<1>4. CASE PowerCycle \/ PowerLoss \/ FlashLost
  BY <1>4, PowerCycleStep, PowerLossStep, FlashLostStep
<1>5. CASE UNCHANGED vars
  BY <1>5, StutterInv
<1> QED
  BY <1>1, <1>2, <1>3, <1>4, <1>5 DEF Next

-----------------------------------------------------------------------------
(* The theorems *)

(* The inductive invariant holds in every state.                            *)
THEOREM OwnershipInvariant == Spec => []DotInv
<1>1. DotInv /\ [Next]_vars => DotInv'
  BY NextInv
<1> QED
  BY <1>1, InitInv, PTL DEF Spec

(* The counter stays within the fuse array, every seal on flash within its  *)
(* keys, and the Runtime's guard is held exactly while a command writes.    *)
THEOREM TypeCorrect == Spec => []TypeOK
<1>1. DotInv => TypeOK
  <2> SUFFICES ASSUME DotInv PROVE TypeOK
    OBVIOUS
  <2>1. /\ burned \in 0..Total /\ fuses \in 0..Total
        /\ flash \in Blobs(Total + 1) /\ backup \in Blobs(Total + 1)
        /\ work \in Works /\ rt \in [Transports -> Works]
    BY DEF DotInv, Ledger, RomWork, RtWork
  <2>2. /\ pc \in {"off", "lock", "handler", "i3c", "restore", "manifest", "run", "halt", "warm"}
        /\ owner \in Keys \cup {Fused} /\ faults \in 0..MaxFaults
        /\ pc = "handler" => handler.current \in 1..Len(Handlers)
    BY DEF DotInv, Rest
  <2>3. busy = (\E t \in Transports : rt[t] # Idle)
    BY DEF DotInv, RtWork
  <2> QED
    BY <2>1, <2>2, <2>3 DEF TypeOK
<1> QED
  BY <1>1, OwnershipInvariant, PTL

(* However often the recovery handlers retry (DotLockedRecoveryManager::run *)
(* and the I3C services), one boot burns at most one override fuse.         *)
THEOREM OverrideBurnsOnceHolds == Spec => []OverrideBurnsOnce
<1>1. DotInv => OverrideBurnsOnce
  BY DEF DotInv, RomWork, OverrideBurnsOnce
<1> QED
  BY <1>1, OwnershipInvariant, PTL

(* dot_unlock proceeds only for the holder of the LAK the current epoch was *)
(* locked with, whatever ran between the challenge and the command.         *)
THEOREM UnlockByHolderHolds == Spec => []UnlockByHolder
<1>1. DotInv => UnlockByHolder
  BY DEF DotInv, RtWork
<1> QED
  BY <1>1, OwnershipInvariant, PTL

(* A LOCK or DISABLE that burns has its own blob on flash, sealed for the   *)
(* state the burn leads to                                                  *)
LEMMA CommitBurns ==
    ASSUME DotInv, NEW w \in Works, NEW m, NEW strict, enabled,
           m \in {burned, burned - 1}, Under(w, m, burned, flash, backup, unlock_ctx),
           Done(w, strict) \/ Failed(w, strict), UNCHANGED <<backup, enabled>>,
           burned' # burned, w.op \in {"lock", "disable"}
    PROVE  flash = w.blob /\ Authentic(flash, burned')
<1>1. Ledger /\ faults \in 0..MaxFaults
  BY DEF DotInv, Rest
<1>2. burned' = burned + 1 /\ BurnNext(w, m, burned, flash, backup, unlock_ctx)
  BY <1>1, StoreStep
<1>3. flash = w.blob /\ w.blob.seal = EffectiveKey(burned + 1)
  BY <1>2 DEF BurnNext, Committing
<1> QED
  BY <1>2, <1>3 DEF Authentic

(* Over both transports and in the ROM, the burn that locks the device      *)
(* follows the blob the locked state is authenticated with.                 *)
THEOREM SealedBeforeLockHolds == Spec => SealedBeforeLock
<1> DEFINE Sealing == (Locked(burned') /\ burned' # burned) =>
                        \A w \in Writing : w.op \in {"lock", "disable"} =>
                            flash = w.blob /\ Authentic(flash, burned')
<1>1. DotInv /\ [Next]_vars => Sealing
  <2> SUFFICES ASSUME DotInv, [Next]_vars, burned' # burned,
                      NEW w \in Writing, w.op \in {"lock", "disable"}
               PROVE  flash = w.blob /\ Authentic(flash, burned')
    OBVIOUS
  <2>1. \/ RomWrite \/ RomWriteFails
        \/ \E t \in Transports : RtWrite(t) \/ RtWriteFails(t)
    BY DEF Next, Rom, ColdBoot, BackupAttempt, OverrideAttempt, I3cAttempt, RestoreAttempt,
           ManifestCommand, I3cServices, I3cRecovery, I3cUnlockChallenge, I3cOverride,
           I3cTimeout, WarmBoot, Command, dot_lock, dot_disable, dot_rotate, dot_recovery, dot_unlock,
           dot_override, dot_unlock_challenge, dot_override_challenge, dot_get_backup_blob,
           Begin, PowerCycle, PowerLoss, FlashLost, vars, store
  <2>2. w.todo # << >> /\ (w = work \/ \E t \in Transports : w = rt[t])
    BY DEF Writing
  <2>3. CASE RomWrite \/ RomWriteFails
    <3>1. PICK strict : strict = FALSE
      OBVIOUS
    <3>2. /\ Done(work, strict) \/ Failed(work, strict)
          /\ work.todo # << >> /\ UNCHANGED <<backup, enabled>>
      BY <2>3, <3>1 DEF RomWrite, RomWriteFails, Done, Failed, params
    <3>3. pc # "run" /\ enabled /\ work \in Works
      BY <3>2, RomUnder DEF DotInv, RomWork
    <3>4. \A t \in Transports : rt[t] = Idle
      BY <3>3, RtIdle DEF DotInv
    <3>5. w = work
      BY <2>2, <3>4, IdleType
    <3>6. PICK m \in Nat : /\ m \in {burned, burned - 1}
                           /\ Under(work, m, burned, flash, backup, unlock_ctx)
      BY <3>2, RomUnder
    <3> QED
      BY <3>2, <3>3, <3>5, <3>6, CommitBurns
  <2>4. CASE \E t \in Transports : RtWrite(t) \/ RtWriteFails(t)
    <3>1. PICK strict : strict = TRUE
      OBVIOUS
    <3>2. PICK t \in Transports : RtWrite(t) \/ RtWriteFails(t)
      BY <2>4
    <3>3. PICK v : v = rt[t]
      OBVIOUS
    <3>4. /\ Done(v, strict) \/ Failed(v, strict)
          /\ UNCHANGED <<backup, enabled>> /\ pc = "run"
      BY <3>1, <3>2, <3>3 DEF RtWrite, RtWriteFails, params
    <3>5. v.todo # << >> /\ v # Idle
      BY <3>4, IdleType DEF Done, Failed
    <3>6. v \in Works /\ RtOne(t) /\ work = Idle
      BY <3>3, <3>4, <3>5 DEF DotInv, RtWork, RomWork
    <3>7. w = v
      BY <2>2, <3>3, <3>6, IdleType DEF RtOne
    <3>8. enabled /\ Under(v, burned, burned, flash, backup, unlock_ctx)
      BY <3>3, <3>6 DEF RtOne, Under
    <3> QED
      BY <3>4, <3>6, <3>7, <3>8, CommitBurns
  <2> QED
    BY <2>1, <2>3, <2>4
<1>2. DotInv /\ [Next]_vars => [Sealing]_vars
  BY <1>1
<1> QED
  BY <1>2, OwnershipInvariant, PTL DEF Spec, SealedBeforeLock

(* A cold boot of a locked device installs the owner its epoch began with,  *)
(* from the blob on flash or from the backup it has just restored, unless   *)
(* the BMC ordered the reset flow.                                          *)
THEOREM BootsCommittedOwnerHolds == Spec => BootsCommittedOwner
<1> DEFINE Installs == (pc # "manifest" /\ pc' = "manifest" /\ Locked(fuses')) =>
                         \/ /\ committed.epoch = fuses'
                            /\ owner' = IF committed.cak = None THEN Fused ELSE committed.cak
                         \/ pc = "off" /\ reset_flow /\ owner' = Fused
<1>1. DotInv /\ [Next]_vars => Installs
  <2> SUFFICES ASSUME DotInv, [Next]_vars, pc # "manifest", pc' = "manifest", Locked(fuses')
               PROVE  \/ /\ committed.epoch = fuses'
                         /\ owner' = IF committed.cak = None THEN Fused ELSE committed.cak
                      \/ pc = "off" /\ reset_flow /\ owner' = Fused
    OBVIOUS
  <2>1. ColdBoot \/ RomWrite
    BY DEF Next, Rom, BackupAttempt, OverrideAttempt, I3cAttempt, RestoreAttempt,
           ManifestCommand, RomWriteFails, NextHandler, Halt, I3cServices, I3cRecovery,
           I3cUnlockChallenge, I3cOverride, I3cTimeout, WarmBoot, Command, dot_lock, dot_disable,
           dot_rotate, dot_recovery, dot_unlock, dot_override, dot_unlock_challenge,
           dot_override_challenge, dot_get_backup_blob, Begin, RtWrite, RtWriteFails,
           PowerCycle, PowerLoss, PowerOff, FlashLost, vars, boot
  <2>2. burned \in Nat /\ (~enabled => burned = 0) /\ Ledger
    BY TotalAssumption DEF DotInv, Ledger
  <2>3. CASE ColdBoot
    <3>1. fuses' = burned /\ pc = "off" /\ enabled
      BY <2>2, <2>3, EvenFacts DEF ColdBoot
    <3>2. \/ reset_flow /\ Boot(Fused)
          \/ Authentic(flash, burned) /\ Boot(dot_determine_owner(burned, flash))
      BY <2>3, <3>1 DEF ColdBoot, Recover, dot_flow, dot_flow_error, Halt
    <3>3. CASE reset_flow /\ Boot(Fused)
      BY <3>1, <3>3 DEF Boot
    <3>4. CASE Authentic(flash, burned) /\ Boot(dot_determine_owner(burned, flash))
      <4>1. committed = [epoch |-> burned, cak |-> flash.cak, lak |-> flash.lak]
        BY <2>2, <3>1, <3>4 DEF Ledger, Agrees
      <4>2. owner' = IF flash.cak # None THEN flash.cak ELSE Fused
        BY <3>1, <3>4 DEF Boot, dot_determine_owner
      <4> QED
        BY <3>1, <4>1, <4>2
    <3> QED
      BY <3>2, <3>3, <3>4
  <2>4. CASE RomWrite
    <3>1. fuses' = fuses /\ work.todo # << >>
      BY <2>4 DEF RomWrite, Done
    <3>2. pc = "restore" /\ Boot(dot_determine_owner(fuses, flash'))
      <4>1. pc \in {"lock", "restore"}
        BY <2>4 DEF RomWrite, Completed, WarmBoot
      <4>2. pc # "lock"
        BY <3>1 DEF DotInv, RomWork
      <4>3. Completed
        BY <2>4 DEF RomWrite
      <4> QED
        BY <4>1, <4>2, <4>3 DEF Completed, WarmBoot
    <3>3. /\ Locked(burned) /\ burned = fuses /\ Authentic(backup, burned)
          /\ work = Restore(backup)
      BY <3>1, <3>2, IdleType DEF DotInv, RomWork, Restoring
    <3>4. enabled
      BY <2>2, <3>3, EvenFacts
    <3>5. committed = [epoch |-> burned, cak |-> backup.cak, lak |-> backup.lak]
      BY <2>2, <3>3 DEF Ledger, Agrees
    <3>6. flash' = backup
      <4>1. work.todo = <<Write(backup)>>
        BY <3>3 DEF Restore
      <4>2. Head(work.todo) = Write(backup)
        BY <4>1, OneLeft
      <4>3. Head(work.todo).kind = "write" /\ Head(work.todo).blob = backup
        BY <4>2, StepFields
      <4> QED
        BY <2>4, <4>3 DEF RomWrite, Done
    <3>7. owner' = IF backup.cak # None THEN backup.cak ELSE Fused
      BY <3>2, <3>3, <3>4, <3>6 DEF Boot, dot_determine_owner
    <3> QED
      BY <3>1, <3>3, <3>5, <3>7
  <2> QED
    BY <2>1, <2>3, <2>4
<1>2. DotInv /\ [Next]_vars => [Installs]_vars
  BY <1>1
<1> QED
  BY <1>2, OwnershipInvariant, PTL DEF Spec, BootsCommittedOwner
=============================================================================
