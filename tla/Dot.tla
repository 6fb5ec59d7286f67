-------------------------------- MODULE Dot --------------------------------
(***************************************************************************)
(* Device ownership transfer: the ROM's cold boot decision, its recovery   *)
(* handlers and the I3C services, the DOT section of the firmware          *)
(* manifest, and the Runtime DOT commands.  All of them advance the same   *)
(* two pieces of persistent state, the fuse counter and the DOT blob in    *)
(* flash, one write at a time; power may be lost between any two writes    *)
(* and in the middle of a flash write.                                     *)
(*                                                                         *)
(* An odd counter is a locked device.  A blob is [cak, lak, seal], where   *)
(* seal is the value its HMAC key was derived from (always odd).           *)
(***************************************************************************)
EXTENDS Integers, Sequences, FiniteSets

CONSTANTS
    Total,        \* bits of the fuse array
    Requests,     \* [cak, lak] pairs an owner may ask for
    None,         \* an all-zero key hash
    Fused,        \* the owner in the CPTRA_SS_OWNER_PK_HASH fuses
    Handlers,     \* dot_locked_recovery_handlers: [kind, tries] in order
    Manifests,    \* DOT sections the firmware image may carry
    Transports,   \* the transports that carry Runtime commands
    Faults,       \* which faults happen, see FaultKinds
    MaxFaults     \* bound on how many faults happen

ASSUME TotalAssumption == Total \in Nat \ {0} /\ Total % 2 = 0
ASSUME RequestsAssumption ==
    \A r \in Requests : DOMAIN r = {"cak", "lak"} /\ r.cak # None /\ r.lak # None
ASSUME HandlersAssumption ==
    Handlers \in Seq([kind : {"backup", "override", "i3c"}, tries : Nat \ {0}])

Keys == {r.cak : r \in Requests} \cup {r.lak : r \in Requests} \cup {None}

ASSUME ManifestsAssumption == \A m \in Manifests : m.cak \in Keys /\ m.lak \in Keys

FaultKinds == {"power", "flash", "otp", "mailbox", "corrupt"}

ASSUME FaultsAssumption == Faults \subseteq FaultKinds /\ MaxFaults \in Nat

VARIABLES
    enabled,      \* dot_initialized fuse
    reset_flow,   \* dot_recovery_reset_flow parameter
    manifest,     \* DOT section of the firmware image
    burned,       \* fuses burned
    flash,        \* DOT blob in flash
    backup,       \* blob the recovery agent holds
    pc,           \* where the device is
    fuses,        \* the copy of the counter this boot loaded
    owner,        \* owner hash installed by this boot
    work,         \* writes the ROM has under way
    handler,      \* DotLockedRecoveryManager: [current, retries]
    challenged,   \* I3C services: override challenge outstanding
    cmd,          \* next manifest command
    busy,         \* DOT_TRANSACTION_BUSY
    rt,           \* writes each transport's Runtime command has under way
    unlock_ctx,   \* UNLOCK_CONTEXT
    override_ctx, \* OVERRIDE_CONTEXT
    committed,    \* history: keys the last locked epoch began with
    faults        \* history: faults so far

params == <<enabled, reset_flow, manifest>>
store == <<burned, flash, committed>>
boot == <<pc, fuses, owner, work, handler, challenged, cmd>>
runtime == <<busy, rt, unlock_ctx, override_ctx>>
vars == <<params, store, backup, boot, runtime, faults>>

-----------------------------------------------------------------------------
(* Blobs and keys *)

Locked(n) == n % 2 = 1

(* Variant: the key does not depend on the fuses *)
EffectiveKey_static(n) == 1

(* cm_derive_stable_key_impl: an even state already uses the next value *)
EffectiveKey(n) == IF Locked(n) THEN n ELSE n + 1

Blank == [cak |-> None, lak |-> None, seal |-> 0]
Corrupt == [cak |-> None, lak |-> None, seal |-> 2]  \* no key is derived from 2

Sealed(n, cak, lak) == [cak |-> cak, lak |-> lak, seal |-> EffectiveKey(n)]

Authentic(b, n) == b.seal = EffectiveKey(n)

-----------------------------------------------------------------------------
(* A transaction is the sequence of its persistent writes *)

Write(b) == [kind |-> "write", blob |-> b, at |-> 0]
Burn(n) == [kind |-> "burn", blob |-> Blank, at |-> n]

NoContext == [lak |-> None, count |-> 0]
Idle == [op |-> "none", todo |-> <<>>, blob |-> Blank, key |-> None]

(* Variant: the fuse is burned before the blob is published *)
Commit_burn_first(op, n, cak, lak, key) ==
    LET b == Sealed(n + 1, cak, lak)
    IN  [op |-> op, todo |-> <<Burn(n), Write(b)>>, blob |-> b, key |-> key]

(* commit_dot_transition and the manifest's LOCK, DISABLE and UNLOCK: the   *)
(* blob is published for the state after the burn, then the fuse is burned *)
Commit(op, n, cak, lak, key) ==
    LET b == Sealed(n + 1, cak, lak)
    IN  [op |-> op, todo |-> <<Write(b), Burn(n)>>, blob |-> b, key |-> key]

(* ROTATE: both burns first, then the blob for the resulting state *)
Rotate(n, cak, lak) ==
    LET b == Sealed(n + 2, cak, lak)
    IN  [op |-> "rotate", todo |-> <<Burn(n), Burn(n + 1), Write(b)>>,
         blob |-> b, key |-> None]

(* apply_override: burn, then an empty blob for the even state *)
Override(n) ==
    LET b == Sealed(n + 1, None, None)
    IN  [op |-> "override", todo |-> <<Burn(n), Write(b)>>, blob |-> b, key |-> None]

(* verify_and_write_recovery_blob, once the blob is authenticated *)
Restore(b) == [op |-> "restore", todo |-> <<Write(b)>>, blob |-> b, key |-> None]

(* burn_dot_fuses: the pending lock of an even state, its blob on flash *)
LockAtBoot(n, b) == [op |-> "lock", todo |-> <<Burn(n)>>, blob |-> b, key |-> None]

(* Variant: one bit too many *)
Refused_off_by_one(e, strict) ==
    e.kind = "burn" /\ (e.at > Total \/ (strict /\ e.at < burned))

(* Fuse bits are set in order and a set bit stays set.  The Runtime refuses *)
(* a bit that is already set; the ROM's read-modify-write accepts it.       *)
Refused(e, strict) ==
    e.kind = "burn" /\ (e.at >= Total \/ (strict /\ e.at < burned))

(* Variant: a repeated burn advances the counter *)
BurnedAfter_repeated(e) == burned + 1

BurnedAfter(e) == IF e.at >= burned THEN burned + 1 ELSE burned

(* History: the first blob that authenticates in a locked epoch, or the one *)
(* the ROTATE that leads to the epoch then installs                         *)
Committed(n, b, op) ==
    IF Locked(n) /\ Authentic(b, n) /\ (committed.epoch # n \/ op = "rotate")
      THEN [epoch |-> n, cak |-> b.cak, lak |-> b.lak]
      ELSE committed

Done(w, strict) ==
    LET e == Head(w.todo)
    IN  /\ w.todo # <<>>
        /\ ~Refused(e, strict)
        /\ IF e.kind = "write"
             THEN flash' = e.blob /\ burned' = burned
             ELSE burned' = BurnedAfter(e) /\ flash' = flash
        /\ committed' = Committed(burned', flash', w.op)
        /\ UNCHANGED faults

Fault(f) == f \in Faults /\ faults < MaxFaults /\ faults' = faults + 1

(* A failed flash write may leave the old contents, a mixture, or the blob  *)
(* (only its read-back failed), a failed burn the bit set or not; a blob    *)
(* that cannot be sealed fails before it is written                         *)
Failed(w, strict) ==
    LET e == Head(w.todo)
    IN  /\ w.todo # <<>>
        /\ \/ Refused(e, strict) /\ UNCHANGED <<store, faults>>
           \/ /\ e.kind = "write" /\ Fault("flash")
              /\ flash' \in {flash, Corrupt, e.blob}
              /\ committed' = Committed(burned, flash', w.op)
              /\ UNCHANGED burned
           \/ /\ e.kind = "burn" /\ ~Refused(e, strict) /\ Fault("otp")
              /\ burned' \in {burned, BurnedAfter(e)}
              /\ committed' = Committed(burned', flash, w.op)
              /\ UNCHANGED flash

-----------------------------------------------------------------------------
(* ROM: cold boot *)

(* The owner is installed, firmware is loaded and FwBoot starts *)
Boot(o) ==
    /\ owner' = o /\ pc' = "manifest" /\ cmd' = 1 /\ work' = Idle
    /\ UNCHANGED <<handler, challenged>>

Halt == pc' = "halt" /\ work' = Idle /\ UNCHANGED <<owner, cmd, handler, challenged>>

(* recover_locked_dot_or_fail *)
Recover ==
    /\ pc' = CASE reset_flow -> "restore"
               [] Handlers = <<>> -> "halt"
               [] OTHER -> "handler"
    /\ handler' = [current |-> 1, retries |-> 0]
    /\ work' = Idle /\ UNCHANGED <<owner, cmd, challenged>>

(* dot_determine_owner, falling back to the fuses *)
dot_determine_owner(n, b) ==
    IF enabled /\ Locked(n) /\ b.cak # None THEN b.cak ELSE Fused

NeedsLock(n, b) == enabled /\ ~Locked(n) /\ b.cak # None /\ b.lak # None

(* dot_flow, after the key is derived and the blob authenticated *)
dot_flow ==
    IF NeedsLock(burned, flash)
      THEN /\ pc' = "lock" /\ work' = LockAtBoot(burned, flash)
           /\ UNCHANGED <<owner, cmd, handler, challenged>>
      ELSE Boot(dot_determine_owner(burned, flash))

dot_flow_error == IF Locked(burned) THEN Recover ELSE Halt

ColdBoot ==
    /\ pc = "off"
    /\ fuses' = burned
    /\ \/ reset_flow /\ Boot(Fused) /\ UNCHANGED faults   \* RESET_CTRL = 0x10
       \/ /\ flash = Blank
          /\ IF enabled /\ Locked(burned) THEN Recover ELSE Boot(Fused)
          /\ UNCHANGED faults
       \/ /\ flash # Blank
          /\ \/ Authentic(flash, burned) /\ dot_flow /\ UNCHANGED faults
             \/ ~Authentic(flash, burned) /\ dot_flow_error /\ UNCHANGED faults
             \/ Fault("mailbox") /\ dot_flow_error
    /\ UNCHANGED <<params, store, backup, runtime>>

(* DotLockedRecoveryManager::run, the error branch *)
NextHandler ==
    LET spent == handler.retries + 1 >= Handlers[handler.current].tries
        last == spent /\ handler.current = Len(Handlers)
    IN  /\ handler' = IF spent THEN [current |-> handler.current + 1, retries |-> 0]
                      ELSE [handler EXCEPT !.retries = @ + 1]
        /\ pc' = IF last THEN "halt" ELSE "handler"
        /\ work' = Idle /\ UNCHANGED <<fuses, owner, challenged, cmd>>

Attempting(kind) ==
    pc = "handler" /\ work.todo = <<>> /\ Handlers[handler.current].kind = kind

(* BackupBlobRecoveryHandler: the backup is checked against this boot's fuses *)
BackupAttempt ==
    /\ Attempting("backup")
    /\ \/ /\ Authentic(backup, fuses)
          /\ work' = Restore(backup)
          /\ UNCHANGED <<pc, fuses, owner, handler, challenged, cmd, faults>>
       \/ ~Authentic(backup, fuses) /\ NextHandler /\ UNCHANGED faults
       \/ Fault("mailbox") /\ NextHandler
    /\ UNCHANGED <<params, store, backup, runtime>>

(* OverrideChallengeRecoveryHandler: the agent's keys and both signatures    *)
(* over this attempt's challenge verify, or some exchange fails              *)
OverrideAttempt ==
    /\ Attempting("override")
    /\ \/ work' = Override(fuses) /\ UNCHANGED <<pc, fuses, owner, handler, challenged, cmd>>
       \/ NextHandler
    /\ UNCHANGED <<params, store, backup, runtime, faults>>

I3cAttempt ==
    /\ Attempting("i3c")
    /\ pc' = "i3c" /\ challenged' = FALSE
    /\ UNCHANGED <<params, store, backup, runtime, faults, fuses, owner, work, handler, cmd>>

(* The I3C services' mailbox loop *)
I3cRecovery ==
    /\ pc = "i3c" /\ work.todo = <<>>
    /\ Authentic(backup, fuses)
    /\ work' = Restore(backup)
    /\ UNCHANGED <<params, store, backup, runtime, faults, pc, fuses, owner, handler, challenged, cmd>>

I3cUnlockChallenge ==
    /\ pc = "i3c" /\ work.todo = <<>>
    /\ Locked(fuses)
    /\ challenged' = TRUE
    /\ UNCHANGED <<params, store, backup, runtime, faults, pc, fuses, owner, work, handler, cmd>>

I3cOverride ==
    /\ pc = "i3c" /\ work.todo = <<>> /\ challenged
    /\ challenged' = FALSE
    /\ work' \in {Idle, Override(fuses)}    \* rejected, or both signatures hold
    /\ UNCHANGED <<params, store, backup, runtime, faults, pc, fuses, owner, handler, cmd>>

(* trigger_warm_reset in the middle of a cold boot: the reset reason makes    *)
(* the ROM run WarmBoot, which has no DOT, installs no owner and loads no    *)
(* firmware; it waits for firmware that was never loaded, or halts           *)
WarmBoot ==
    /\ pc' = "warm" /\ work' = Idle /\ challenged' = FALSE
    /\ UNCHANGED <<owner, handler, cmd>>

(* The loop ends unanswered; its handler reports success all the same *)
I3cTimeout ==
    /\ pc = "i3c" /\ work.todo = <<>>
    /\ WarmBoot
    /\ UNCHANGED <<params, store, backup, runtime, faults, fuses>>

(* attempt_dot_backup_recovery; when it fails the status is published *)
RestoreAttempt ==
    /\ pc = "restore" /\ work.todo = <<>>
    /\ \/ /\ Authentic(backup, fuses)
          /\ work' = Restore(backup)
          /\ UNCHANGED <<pc, owner, handler, challenged, cmd, faults>>
       \/ ~Authentic(backup, fuses) /\ Halt /\ UNCHANGED faults
       \/ Fault("mailbox") /\ Halt
    /\ UNCHANGED <<params, store, backup, runtime, fuses>>

-----------------------------------------------------------------------------
(* ROM: the DOT section of the firmware manifest *)

Both(m) ==
    LET has(S) == \E i \in DOMAIN m.commands : m.commands[i] \in S
    IN  has({"LOCK", "DISABLE"}) /\ has({"UNLOCK"})

(* The fuses are read again before every command *)
ManifestWork(c) ==
    CASE c = "LOCK" /\ ~Locked(burned) -> Commit("lock", burned, manifest.cak, manifest.lak, None)
      [] c = "DISABLE" /\ ~Locked(burned) -> Commit("disable", burned, None, manifest.lak, None)
      [] c = "UNLOCK" /\ Locked(burned) -> Commit("unlock", burned, None, manifest.lak, None)
      [] c = "ROTATE" /\ burned < manifest.min -> Rotate(burned, manifest.cak, manifest.lak)
      [] OTHER -> Idle

(* process_fw_manifest_dot_commands, one command; then jump to firmware *)
ManifestCommand ==
    /\ pc = "manifest" /\ work.todo = <<>>
    /\ IF Both(manifest) THEN Halt
       ELSE IF ~enabled \/ cmd > Len(manifest.commands)
         THEN pc' = "run" /\ UNCHANGED <<owner, cmd, work, handler, challenged>>
         ELSE /\ work' = ManifestWork(manifest.commands[cmd])
              /\ cmd' = cmd + 1
              /\ UNCHANGED <<pc, owner, handler, challenged>>
    /\ UNCHANGED <<params, store, backup, runtime, faults, fuses>>

-----------------------------------------------------------------------------
(* ROM: one persistent write of the transaction under way *)

(* Variant: a successful recovery does not reset the device *)
Completed_no_reset ==
    CASE pc = "lock" -> Boot(dot_determine_owner(fuses, flash))
      [] pc = "restore" -> Boot(dot_determine_owner(fuses, flash'))
      [] OTHER -> work' = Idle /\ UNCHANGED <<pc, owner, handler, challenged, cmd>>

(* The transaction is complete: what the ROM does next *)
Completed ==
    CASE pc = "lock" -> Boot(dot_determine_owner(fuses, flash))
      [] pc = "restore" -> Boot(dot_determine_owner(fuses, flash'))
      [] pc = "manifest" -> work' = Idle /\ UNCHANGED <<pc, owner, handler, challenged, cmd>>
      [] OTHER -> WarmBoot

RomWrite ==
    /\ Done(work, FALSE)
    /\ IF Len(work.todo) = 1 THEN Completed
       ELSE work' = [work EXCEPT !.todo = Tail(@)] /\ UNCHANGED <<pc, owner, handler, challenged, cmd>>
    /\ UNCHANGED <<params, backup, runtime, fuses>>

RomWriteFails ==
    /\ Failed(work, FALSE)
    /\ CASE pc = "handler" -> NextHandler
         [] pc = "i3c" -> work' = Idle /\ UNCHANGED <<pc, fuses, owner, handler, challenged, cmd>>
         [] OTHER -> Halt /\ UNCHANGED fuses
    /\ UNCHANGED <<params, backup, runtime>>

-----------------------------------------------------------------------------
(* Runtime DOT commands.  DotTransactionGuard is held until the last write; *)
(* a command that is refused changes nothing.                              *)

Acquired(t) == pc = "run" /\ ~busy /\ rt[t] = Idle /\ enabled

Begin(t, w) ==
    /\ busy' = TRUE
    /\ rt' = [rt EXCEPT ![t] = w]
    /\ UNCHANGED <<params, store, backup, boot, faults, unlock_ctx, override_ctx>>

dot_lock(t) ==
    /\ Acquired(t) /\ ~Locked(burned) /\ burned < Total
    /\ \E r \in Requests : Begin(t, Commit("lock", burned, r.cak, r.lak, None))

dot_disable(t) ==
    /\ Acquired(t) /\ ~Locked(burned) /\ burned < Total
    /\ \E r \in Requests : Begin(t, Commit("disable", burned, None, r.lak, None))

dot_rotate(t) ==
    /\ Acquired(t) /\ burned <= Total - 2   \* and below the requested minimum
    /\ \E r \in Requests : Begin(t, Rotate(burned, r.cak, r.lak))

dot_recovery(t) ==
    /\ Acquired(t) /\ Locked(burned) /\ Authentic(backup, burned)
    /\ Begin(t, Restore(backup))

dot_unlock_challenge(t) ==
    /\ Acquired(t) /\ unlock_ctx = NoContext
    /\ Locked(burned) /\ Authentic(flash, burned) /\ flash.lak # None
    /\ unlock_ctx' = [lak |-> flash.lak, count |-> burned]
    /\ UNCHANGED <<params, store, backup, boot, faults, busy, rt, override_ctx>>

(* Variant: the context may be of an earlier epoch *)
Accepts_any_epoch(ctx, k) == Locked(burned) /\ k = ctx.lak

(* The context is of this epoch and the signer holds its LAK *)
Accepts(ctx, k) == ctx.count = burned /\ Locked(burned) /\ k = ctx.lak

dot_unlock(t) ==
    /\ Acquired(t) /\ unlock_ctx # NoContext
    /\ \E r \in Requests :
        /\ Accepts(unlock_ctx, r.lak)
        /\ Begin(t, Commit("unlock", burned, None, unlock_ctx.lak, r.lak))

(* The recovery keys' hash is the fused one, which never changes *)
dot_override_challenge(t) ==
    /\ Acquired(t) /\ override_ctx = NoContext /\ Locked(burned)
    /\ override_ctx' = [lak |-> None, count |-> burned]
    /\ UNCHANGED <<params, store, backup, boot, faults, busy, rt, unlock_ctx>>

dot_override(t) ==
    /\ Acquired(t) /\ override_ctx # NoContext
    /\ Accepts(override_ctx, None)
    /\ Begin(t, Override(burned))

dot_get_backup_blob(t) ==
    /\ Acquired(t) /\ Locked(burned) /\ Authentic(flash, burned)
    /\ backup' = flash
    /\ UNCHANGED <<params, store, boot, runtime, faults>>

Finish(t) == rt' = [rt EXCEPT ![t] = Idle] /\ busy' = FALSE

RtWrite(t) ==
    /\ pc = "run" /\ Done(rt[t], TRUE)
    /\ IF Len(rt[t].todo) > 1
         THEN rt' = [rt EXCEPT ![t].todo = Tail(@)] /\ UNCHANGED <<busy, unlock_ctx, override_ctx>>
         ELSE /\ Finish(t)
              /\ unlock_ctx' = IF rt[t].op = "unlock" THEN NoContext ELSE unlock_ctx
              /\ override_ctx' = IF rt[t].op = "override" THEN NoContext ELSE override_ctx
    /\ UNCHANGED <<params, backup, boot>>

(* An error drops the guard and leaves the contexts as they are *)
RtWriteFails(t) ==
    /\ pc = "run" /\ Failed(rt[t], TRUE)
    /\ Finish(t)
    /\ UNCHANGED <<params, backup, boot, unlock_ctx, override_ctx>>

-----------------------------------------------------------------------------
(* The environment *)

Writing == {w \in {work} \cup {rt[t] : t \in Transports} : w.todo # <<>>}

PowerOff ==
    /\ pc' = "off" /\ work' = Idle /\ challenged' = FALSE /\ owner' = None
    /\ busy' = FALSE /\ rt' = [t \in Transports |-> Idle]
    /\ unlock_ctx' = NoContext /\ override_ctx' = NoContext
    /\ cmd' = 1 /\ handler' = [current |-> 1, retries |-> 0] /\ fuses' = 0

(* The host power cycles a device that is at rest; nothing makes it do so *)
PowerCycle ==
    /\ pc \in {"run", "halt", "warm"} /\ Writing = {}
    /\ PowerOff
    /\ UNCHANGED <<params, store, backup, faults>>

(* Power is lost during a transaction; a flash write may be torn *)
PowerLoss ==
    /\ pc # "off" /\ Writing # {} /\ Fault("power")
    /\ \E w \in Writing :
        /\ flash' \in {flash} \cup IF Head(w.todo).kind = "write"
                                    THEN {Corrupt, Head(w.todo).blob} ELSE {}
        /\ committed' = Committed(burned, flash', w.op)
    /\ PowerOff
    /\ UNCHANGED <<params, backup, burned>>

(* The flash loses the blob while the device is at rest *)
FlashLost ==
    /\ pc \in {"off", "run"} /\ Writing = {} /\ Fault("corrupt")
    /\ flash' \in {Blank, Corrupt}
    /\ UNCHANGED <<params, burned, committed, backup, boot, runtime>>

-----------------------------------------------------------------------------
Init ==
    /\ enabled \in BOOLEAN /\ reset_flow \in BOOLEAN /\ manifest \in Manifests
    /\ burned = 0 /\ flash = Blank /\ backup = Blank
    /\ pc = "off" /\ fuses = 0 /\ owner = None /\ work = Idle
    /\ handler = [current |-> 1, retries |-> 0] /\ challenged = FALSE /\ cmd = 1
    /\ busy = FALSE /\ rt = [t \in Transports |-> Idle]
    /\ unlock_ctx = NoContext /\ override_ctx = NoContext
    /\ committed = [epoch |-> 0, cak |-> None, lak |-> None] /\ faults = 0

Rom ==
    \/ ColdBoot \/ BackupAttempt \/ OverrideAttempt \/ I3cAttempt \/ RestoreAttempt
    \/ ManifestCommand \/ RomWrite \/ RomWriteFails

I3cServices == I3cRecovery \/ I3cUnlockChallenge \/ I3cOverride \/ I3cTimeout

Command(t) ==
    \/ dot_lock(t) \/ dot_disable(t) \/ dot_rotate(t) \/ dot_recovery(t)
    \/ dot_unlock_challenge(t) \/ dot_unlock(t)
    \/ dot_override_challenge(t) \/ dot_override(t) \/ dot_get_backup_blob(t)

Next ==
    \/ Rom \/ I3cServices
    \/ \E t \in Transports : Command(t) \/ RtWrite(t) \/ RtWriteFails(t)
    \/ PowerCycle \/ PowerLoss \/ FlashLost

Spec == Init /\ [][Next]_vars

(* The ROM is a sequential program: while powered it takes its next step.   *)
(* The Runtime finishes a write it has started.                            *)
FairSpec == Spec /\ WF_vars(Rom) /\ WF_vars(\E t \in Transports : RtWrite(t) \/ RtWriteFails(t))

-----------------------------------------------------------------------------
(* Properties *)

Blobs(top) == [cak : Keys, lak : Keys, seal : 0..top]
Steps == [kind : {"write", "burn"}, blob : Blobs(Total + 3), at : 0..Total + 1]
Works == [op : {"none", "lock", "disable", "unlock", "rotate", "override", "restore"},
          todo : Seq(Steps), blob : Blobs(Total + 3), key : Keys]

(* The shape of the state: the counter never exceeds the fuse array, a seal *)
(* on flash never exceeds the last key although a ROTATE near the end of    *)
(* the array prepares one beyond it, and the guard is held exactly while a  *)
(* Runtime command writes.                                                  *)
TypeOK ==
    /\ burned \in 0..Total /\ fuses \in 0..Total
    /\ flash \in Blobs(Total + 1) /\ backup \in Blobs(Total + 1)
    /\ work \in Works /\ rt \in [Transports -> Works]
    /\ pc \in {"off", "lock", "handler", "i3c", "restore", "manifest", "run", "halt", "warm"}
    /\ owner \in Keys \cup {Fused}
    /\ pc = "handler" => handler.current \in 1..Len(Handlers)
    /\ busy = (\E t \in Transports : rt[t] # Idle)
    /\ faults \in 0..MaxFaults

(* A locked device that boots through DOT installs the owner its epoch      *)
(* began with, whatever writes were torn, lost, repeated or restored from a *)
(* backup in between; only the BMC's RESET_CTRL order installs the fused    *)
(* owner instead (cold_boot.rs, dot_determine_owner).                       *)
BootsCommittedOwner ==
    [][(pc # "manifest" /\ pc' = "manifest" /\ Locked(fuses')) =>
         \/ /\ committed.epoch = fuses'
            /\ owner' = IF committed.cak = None THEN Fused ELSE committed.cak
         \/ pc = "off" /\ reset_flow /\ owner' = Fused]_vars

(* LOCK and DISABLE burn the fuse that locks the device only when the blob  *)
(* they were asked to install is on flash and authenticates in the locked   *)
(* state, over both transports and in the ROM ("must not expose a new ODD   *)
(* state before ROM has a complete blob it can authenticate").              *)
SealedBeforeLock ==
    [][(Locked(burned') /\ burned' # burned) =>
         \A w \in Writing : w.op \in {"lock", "disable"} =>
             flash = w.blob /\ Authentic(flash, burned')]_vars

(* The Runtime unlocks only for the holder of the LAK this very epoch was   *)
(* locked with, although the challenge context outlives other commands.     *)
UnlockByHolder ==
    \A t \in Transports :
        rt[t].op = "unlock" =>
            committed.epoch = burned /\ rt[t].key = committed.lak

(* However often the handlers and the I3C services retry a recovery whose   *)
(* flash write failed, one boot burns at most one override fuse.            *)
OverrideBurnsOnce == pc \in {"handler", "i3c"} => burned \in {fuses, fuses + 1}

(* A recovery handler has restored the blob of this epoch and the device    *)
(* waits in WarmBoot; only a power cycle takes it further                   *)
WaitsRestored == pc = "warm" /\ Locked(burned) /\ Authentic(flash, burned)

(* Once faults have ended, the boot of a locked device whose agent holds a  *)
(* backup of the current epoch ends in firmware or, on the way through a    *)
(* recovery handler, in a warm boot with the epoch's blob back on flash;    *)
(* and a boot that finds such a blob runs firmware, so the power cycle out  *)
(* of that warm boot is the last one needed.  Excepted is an image whose    *)
(* ROTATE asks for a minimum the fuse array cannot reach.                   *)
(* (recover_locked_dot_or_fail, attempt_dot_locked_recovery, WarmBoot)      *)
Restored ==
    LET Boots == /\ pc = "off" /\ Locked(burned)
                 /\ faults = MaxFaults /\ manifest.min < Total
    IN  /\ (Boots /\ Authentic(backup, burned)) ~> (pc = "run" \/ WaitsRestored)
        /\ (Boots /\ Authentic(flash, burned)) ~> (pc = "run")

(* An unlocked device is not stopped at boot by its blob: dot.md says of    *)
(* the even states that the "DOT_BLOB is not authoritative for boot".       *)
EvenBoots == [][(pc = "off" /\ pc' = "halt") => Locked(burned)]_vars
=============================================================================
