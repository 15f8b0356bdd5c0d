--------------------------- MODULE DesktopLicense ---------------------------
(***************************************************************************)
(* The desktop's side of licensing, desktop_license_client.py and          *)
(* desktop_license.py: a device key, three files (binding.json, lease.json *)
(* and trusted-time.json) that are replaced one at a time, client          *)
(* operations that talk to the licence service, and evaluations of the     *)
(* entitlement that any request, the worker and the scheduler run without  *)
(* the operations' lock.  The process may die between two writes, and the  *)
(* computer's clock may be set to anything.                                *)
(*                                                                         *)
(* The secret store is one that answers.  MacOSDeviceSecretStore.load      *)
(* takes a Keychain that is unavailable for one without a key, and a new   *)
(* key replaces the old one if the Keychain is back in time: that case is  *)
(* not modelled.                                                           *)
(*                                                                         *)
(* The service is the environment: it signs leases for licences that are   *)
(* not deleted and answers LICENSE_DELETED for the ones that are.  One     *)
(* device row per licence, so that a licence stands for the pair of ids.   *)
(***************************************************************************)
EXTENDS Integers, FiniteSetsExt

CONSTANTS
    Threads,     \* threads that run client operations
    Evaluators,  \* threads that evaluate the entitlement
    Licenses,    \* licence identifiers of the service
    LeaseLife,   \* LEASE_HOURS
    Tolerance,   \* CLOCK_ROLLBACK_TOLERANCE and the freshness of a recovery
    None,
    MaxTime,     \* bound: the last tick of the service's clock
    MaxWork      \* bound: an operation weighs 2, a clock setting or a spoilt file 1

ASSUME LeaseAssumption ==
    /\ LeaseLife \in Nat \ {0} /\ Tolerance \in Nat
    /\ None \notin Licenses \cup Threads \cup Evaluators
    /\ None \notin [server : Int, highest : Int]
    /\ None \notin [license : Licenses, at : Nat, until : Nat, recovery : BOOLEAN, nr : Nat]

VARIABLES
    real,      \* the service's clock
    clock,     \* the computer's clock
    deleted,   \* licences the owner has deleted at the service
    key,       \* the persisted device seed
    binding, lease, trusted,          \* the three files
    idLock, opLock, timeLock,         \* the three process-wide locks
    op,        \* the operation each thread runs
    ev,        \* the evaluation each evaluator runs
    expired,   \* history: leases that an evaluation has found expired
    learned,   \* history: licences whose deletion the desktop has handled
    signed,    \* history: keys that have signed a request
    jumps, ops \* counters for the bound

vars == <<real, clock, deleted, key, binding, lease, trusted, idLock, opLock,
          timeLock, op, ev, expired, learned, signed, jumps, ops>>

files == <<binding, lease, trusted>>
world == <<real, clock, deleted, jumps>>
locks == <<idLock, opLock, timeLock>>
ghosts == <<expired, learned, signed>>

Work == 2 * ops + jumps

\* A trusted-time.json that is not JSON.
Corrupt == [server |-> -1, highest |-> -1]

NoOp == [pc |-> "idle", kind |-> "none", nr |-> 0, key |-> None,
         license |-> None, data |-> None]
NoEv == [pc |-> "idle", binding |-> None, lease |-> None, seen |-> 0, trusted |-> None]

Init ==
    /\ real = 0 /\ clock = 0 /\ deleted = {}
    /\ key = None
    /\ binding = None /\ lease = None /\ trusted = None
    /\ idLock = None /\ opLock = None /\ timeLock = None
    /\ op = [t \in Threads |-> NoOp]
    /\ ev = [e \in Evaluators |-> NoEv]
    /\ expired = {} /\ learned = {} /\ signed = {}
    /\ jumps = 0 /\ ops = 0

--------------------------------------------------------------------------
\* The device key: _load_or_create_device_identity_unlocked under
\* _DEVICE_IDENTITY_LOCK, when a client object is made.  The seed that a
\* thread generates bears its name.

Start(t) ==
    /\ op[t].pc = "idle" /\ Work + 2 <= MaxWork
    /\ ops' = ops + 1
    /\ \E kind \in {"activate", "recover", "refresh", "transfer"} :
         op' = [op EXCEPT ![t] = [NoOp EXCEPT !.pc = "identity", !.kind = kind,
                                                   !.nr = ops']]
    /\ UNCHANGED <<world, key, files, locks, ev, ghosts>>

\* Mutant: the key is looked up and made without the lock.
LoadIdentity_Unlocked(t) ==
    /\ op[t].pc = "identity"
    /\ op' = [op EXCEPT ![t] = IF key # None THEN [@ EXCEPT !.pc = "lock", !.key = key]
                                             ELSE [@ EXCEPT !.pc = "save", !.key = t]]
    /\ UNCHANGED <<world, key, files, locks, ev, ghosts, ops>>

LoadIdentity(t) ==
    /\ op[t].pc = "identity" /\ idLock = None
    /\ IF key # None
       THEN /\ op' = [op EXCEPT ![t] = [@ EXCEPT !.pc = "lock", !.key = key]]
            /\ UNCHANGED idLock
       ELSE /\ op' = [op EXCEPT ![t] = [@ EXCEPT !.pc = "save", !.key = t]]
            /\ idLock' = t
    /\ UNCHANGED <<world, key, files, opLock, timeLock, ev, ghosts, ops>>

SaveIdentity(t) ==
    /\ op[t].pc = "save"
    /\ key' = op[t].key
    /\ op' = [op EXCEPT ![t].pc = "reload"]
    /\ UNCHANGED <<world, files, locks, ev, ghosts, ops>>

\* The seed is read back; LICENSE_DEVICE_KEY_PERSISTENCE_FAILED otherwise.
ReloadIdentity(t) ==
    /\ op[t].pc = "reload"
    /\ idLock' = None
    /\ op' = [op EXCEPT ![t] = IF key = @.key THEN [@ EXCEPT !.pc = "lock"] ELSE NoOp]
    /\ UNCHANGED <<world, key, files, opLock, timeLock, ev, ghosts, ops>>

--------------------------------------------------------------------------
\* Operations, under _LICENSE_OPERATION_LOCK.

\* refresh reads the binding first; the others have nothing to read.
TakeLock(t) ==
    /\ op[t].pc = "lock" /\ opLock = None
    /\ IF op[t].kind = "refresh" /\ binding = None
       THEN op' = [op EXCEPT ![t] = NoOp] /\ UNCHANGED opLock
       ELSE /\ op' = [op EXCEPT ![t] = [@ EXCEPT !.pc = "post", !.license = binding]]
            /\ opLock' = t
    /\ UNCHANGED <<world, key, files, idLock, timeLock, ev, ghosts, ops>>

Leave(t) == op' = [op EXCEPT ![t] = NoOp] /\ opLock' = None

\* nr stands for the signature: no two answers are the same document.
SignedLease(l, recovery, nr) ==
    [license |-> l, at |-> real, until |-> real + LeaseLife,
     recovery |-> recovery, nr |-> nr]

\* _post: the request reaches the service, which answers with a lease, with
\* LICENSE_DELETED, or with nothing the client can use: both attempts failed
\* in transport, another error, or an answer that does not verify.  The
\* answer of a transfer request has no lease and is not stored.
Post(t) ==
    /\ op[t].pc = "post"
    /\ signed' = signed \cup {op[t].key}
    /\ \/ Leave(t)
       \/ /\ op[t].kind = "refresh" /\ op[t].license \in deleted
          /\ op' = [op EXCEPT ![t].pc = "clear_lease"]
          /\ UNCHANGED opLock
       \/ /\ op[t].kind # "transfer"
          /\ \E l \in Licenses \ deleted :
               /\ op[t].kind = "refresh" => l = op[t].license
               /\ op' = [op EXCEPT ![t] = [@ EXCEPT !.pc = "binding",
                           !.data = SignedLease(l, op[t].kind = "recover", op[t].nr)]]
          /\ UNCHANGED opLock
    /\ UNCHANGED <<world, key, files, idLock, timeLock, ev, expired, learned, ops>>

\* _install: a recovery must be recent by the computer's clock; then
\* binding.json is replaced ...
InstallBinding(t) ==
    LET data == op[t].data IN
    /\ op[t].pc = "binding"
    /\ IF data.recovery /\ clock - data.at \notin -Tolerance..Tolerance
       THEN Leave(t) /\ UNCHANGED binding
       ELSE /\ binding' = data.license
            /\ op' = [op EXCEPT ![t].pc = "lease"]
            /\ UNCHANGED opLock
    /\ UNCHANGED <<world, key, lease, trusted, idLock, timeLock, ev, ghosts, ops>>

\* ... then lease.json, and _install goes on to evaluate like anyone else.
InstallLease(t) ==
    /\ op[t].pc = "lease"
    /\ lease' = op[t].data
    /\ IF op[t].data.recovery
       THEN op' = [op EXCEPT ![t].pc = "repair"] /\ UNCHANGED opLock
       ELSE Leave(t)
    /\ UNCHANGED <<world, key, binding, trusted, idLock, timeLock, ev, ghosts, ops>>

\* _recover_corrupt_trusted_time: a readable guard is never reset.
RepairTrustedTime(t) ==
    LET data == op[t].data IN
    /\ op[t].pc = "repair" /\ timeLock = None
    /\ trusted' = IF trusted = Corrupt
                  THEN [server |-> data.at, highest |-> Max({clock, data.at})]
                  ELSE trusted
    /\ Leave(t)
    /\ UNCHANGED <<world, key, binding, lease, idLock, timeLock, ev, ghosts, ops>>

\* _clear_local_license_state: three unlinks, the capability first.
ClearLease(t) ==
    /\ op[t].pc = "clear_lease"
    /\ lease' = None
    /\ learned' = learned \cup {op[t].license}
    /\ op' = [op EXCEPT ![t].pc = "clear_trusted"]
    /\ UNCHANGED <<world, key, binding, trusted, locks, ev, expired, signed, ops>>

ClearTrusted(t) ==
    /\ op[t].pc = "clear_trusted"
    /\ trusted' = None
    /\ op' = [op EXCEPT ![t].pc = "clear_binding"]
    /\ UNCHANGED <<world, key, binding, lease, locks, ev, ghosts, ops>>

ClearBinding(t) ==
    /\ op[t].pc = "clear_binding"
    /\ binding' = None
    /\ Leave(t)
    /\ UNCHANGED <<world, key, lease, trusted, idLock, timeLock, ev, ghosts, ops>>

--------------------------------------------------------------------------
\* evaluate_search_entitlement: binding.json, then lease.json, then the clock
\* guard under _TRUSTED_TIME_LOCK.

EvaluateBinding(e) ==
    /\ ev[e].pc = "idle" /\ binding # None
    /\ ev' = [ev EXCEPT ![e] = [NoEv EXCEPT !.pc = "lease", !.binding = binding]]
    /\ UNCHANGED <<world, key, files, locks, op, ghosts, ops>>

\* Without a lease, or with one for another licence, search is blocked.
EvaluateLease(e) ==
    /\ ev[e].pc = "lease"
    /\ ev' = [ev EXCEPT ![e] =
         IF lease = None \/ lease.license # @.binding THEN NoEv
         ELSE [@ EXCEPT !.pc = "time", !.lease = lease, !.seen = clock]]
    /\ UNCHANGED <<world, key, files, locks, op, ghosts, ops>>

\* _trusted_effective_time: a missing guard starts at the lease's own time;
\* LICENSE_SERVER_TIME_ROLLBACK and LICENSE_CLOCK_ROLLBACK leave it as it is.
Guard(l) == IF trusted = None THEN [server |-> l.at, highest |-> l.at] ELSE trusted

RolledBack(e, guard) ==
    \/ ev[e].lease.at < guard.server
    \/ /\ ev[e].seen + Tolerance < guard.highest
       /\ ev[e].lease.at <= guard.highest

\* Mutant: an unreadable guard is taken for one that is long past.
ReadTrustedTime_Lenient(e) ==
    LET guard == Guard(ev[e].lease) IN
    /\ ev[e].pc = "time" /\ timeLock = None
    /\ IF RolledBack(e, guard)
       THEN ev' = [ev EXCEPT ![e] = NoEv] /\ UNCHANGED timeLock
       ELSE /\ ev' = [ev EXCEPT ![e] = [@ EXCEPT !.pc = "write", !.trusted = guard]]
            /\ timeLock' = e
    /\ UNCHANGED <<world, key, files, idLock, opLock, op, ghosts, ops>>

ReadTrustedTime(e) ==
    LET guard == Guard(ev[e].lease) IN
    /\ ev[e].pc = "time" /\ timeLock = None
    /\ IF guard = Corrupt \/ RolledBack(e, guard)
       THEN ev' = [ev EXCEPT ![e] = NoEv] /\ UNCHANGED timeLock
       ELSE /\ ev' = [ev EXCEPT ![e] = [@ EXCEPT !.pc = "write", !.trusted = guard]]
            /\ timeLock' = e
    /\ UNCHANGED <<world, key, files, idLock, opLock, op, ghosts, ops>>

\* Mutant: the time that was seen before does not count.
EffectiveTime_Forgets(e) == Max({ev[e].seen, ev[e].lease.at})

EffectiveTime(e) == Max({ev[e].seen, ev[e].lease.at, ev[e].trusted.highest})

\* The guard is moved forward, also when the lease turns out to be over.
WriteTrustedTime(e) ==
    LET l == ev[e].lease
        effective == EffectiveTime(e)
    IN
    /\ ev[e].pc = "write"
    /\ trusted' = [server |-> Max({l.at, ev[e].trusted.server}), highest |-> effective]
    /\ timeLock' = None
    /\ expired' = IF effective >= l.until THEN expired \cup {l} ELSE expired
    /\ ev' = [ev EXCEPT ![e] = NoEv]
    /\ UNCHANGED <<world, key, binding, lease, idLock, opLock, op, learned, signed, ops>>

--------------------------------------------------------------------------
\* The environment.

Tick ==
    /\ real < MaxTime
    /\ real' = real + 1 /\ clock' = clock + 1
    /\ UNCHANGED <<deleted, jumps, key, files, locks, op, ev, ghosts, ops>>

SetClock ==
    /\ Work < MaxWork
    /\ jumps' = jumps + 1
    /\ clock' \in 0..(MaxTime + 1)
    /\ UNCHANGED <<real, deleted, key, files, locks, op, ev, ghosts, ops>>

DeleteLicense ==
    /\ \E l \in Licenses \ deleted : deleted' = deleted \cup {l}
    /\ UNCHANGED <<real, clock, jumps, key, files, locks, op, ev, ghosts, ops>>

\* The process ends; the key and the files stay, except that the file that
\* evaluations keep writing may be left unreadable.
Crash ==
    /\ op' = [t \in Threads |-> NoOp]
    /\ ev' = [e \in Evaluators |-> NoEv]
    /\ idLock' = None /\ opLock' = None /\ timeLock' = None
    /\ \/ UNCHANGED <<trusted, jumps>>
       \/ /\ trusted # None /\ Work < MaxWork
          /\ trusted' = Corrupt /\ jumps' = jumps + 1
    /\ UNCHANGED <<real, clock, deleted, key, binding, lease, ghosts, ops>>

Identity(t) == LoadIdentity(t) \/ SaveIdentity(t) \/ ReloadIdentity(t)

Install(t) == InstallBinding(t) \/ InstallLease(t) \/ RepairTrustedTime(t)

\* Mutant: the clock guard is unlinked before the lease.
Clear_GuardFirst(t) ==
    \/ /\ op[t].pc = "clear_lease"
       /\ trusted' = None
       /\ op' = [op EXCEPT ![t].pc = "clear_trusted"]
       /\ UNCHANGED <<world, key, binding, lease, locks, ev, ghosts, ops>>
    \/ /\ op[t].pc = "clear_trusted"
       /\ lease' = None
       /\ op' = [op EXCEPT ![t].pc = "clear_binding"]
       /\ UNCHANGED <<world, key, binding, trusted, locks, ev, ghosts, ops>>
    \/ ClearBinding(t)

\* Mutant: the binding is unlinked first, and nothing else.
Clear_BindingOnly(t) ==
    /\ op[t].pc = "clear_lease"
    /\ binding' = None
    /\ learned' = learned \cup {op[t].license}
    /\ Leave(t)
    /\ UNCHANGED <<world, key, lease, trusted, idLock, timeLock, ev, expired, signed, ops>>

Clear(t) == ClearLease(t) \/ ClearTrusted(t) \/ ClearBinding(t)

Evaluate(e) ==
    EvaluateBinding(e) \/ EvaluateLease(e) \/ ReadTrustedTime(e) \/ WriteTrustedTime(e)

Next ==
    \/ \E t \in Threads : Start(t) \/ Identity(t) \/ TakeLock(t) \/ Post(t)
                            \/ Install(t) \/ Clear(t)
    \/ \E e \in Evaluators : Evaluate(e)
    \/ Tick \/ SetClock \/ DeleteLicense \/ Crash

Spec == Init /\ [][Next]_vars

--------------------------------------------------------------------------
\* Correctness.

Leases == [license : Licenses, at : Nat, until : Nat, recovery : BOOLEAN, nr : Nat]
Guards == [server : Nat, highest : Nat]

Operations ==
    [pc : {"idle", "identity", "save", "reload", "lock", "post", "binding", "lease",
           "repair", "clear_lease", "clear_trusted", "clear_binding"},
     kind : {"none", "activate", "recover", "refresh", "transfer"}, nr : Nat,
     key : Threads \cup {None}, license : Licenses \cup {None}, data : Leases \cup {None}]

Evaluations ==
    [pc : {"idle", "lease", "time", "write"}, binding : Licenses \cup {None},
     lease : Leases \cup {None}, seen : Nat, trusted : Guards \cup {None}]

TypeOK ==
    /\ real \in Nat /\ clock \in Nat /\ deleted \subseteq Licenses
    /\ key \in Threads \cup {None}
    /\ binding \in Licenses \cup {None}
    /\ lease \in Leases \cup {None}
    /\ trusted \in Guards \cup {None, Corrupt}
    /\ idLock \in Threads \cup {None}
    /\ opLock \in Threads \cup {None}
    /\ timeLock \in Evaluators \cup {None}
    /\ op \in [Threads -> Operations]
    /\ ev \in [Evaluators -> Evaluations]
    /\ expired \subseteq Leases /\ learned \subseteq Licenses
    /\ signed \subseteq Threads

\* ExpiredIsRemembered: once an evaluation has found the installed lease to be
\* over, the readable clock guard on disk stays past its end, so that setting
\* the clock back, restarting, or dying halfway through an operation cannot
\* bring the lease back to life.
ExpiredIsRemembered ==
    lease \in expired /\ trusted # Corrupt =>
        trusted # None /\ trusted.highest >= lease.until

\* DeletedStaysOut: when the desktop has begun to forget a deleted licence no
\* crash leaves its lease on disk, and no later operation puts it back.
DeletedStaysOut == lease # None => lease.license \notin learned

\* OneIdentity: however many operations start at once on a fresh computer,
\* every request is signed with the key that is stored.
OneIdentity == signed \subseteq {key}

\* GuardNeverMovesBack: no evaluation overwrites a later clock guard with an
\* earlier one.  Only the removal of a deleted licence starts it anew.
GuardNeverMovesBack ==
    [][(trusted \in Guards /\ trusted' \in Guards) =>
         (trusted'.highest >= trusted.highest /\ trusted'.server >= trusted.server)]_vars
=============================================================================
