------------------------ MODULE DesktopLicenseProofs ------------------------
(***************************************************************************)
(* For any number of operations, evaluators, licences, clock settings and  *)
(* crashes: one device key signs every request, a licence whose deletion   *)
(* the desktop has handled does not come back, and an expired lease stays  *)
(* expired.                                                                *)
(***************************************************************************)
EXTENDS DesktopLicense, TLAPS

----------------------------------------------------------------------------
(* The inductive invariant, in parts *)

\* What a step needs to find in the fields of its record.
TypeInv ==
    /\ TypeOK
    /\ ops \in Nat
    /\ \A t \in Threads :
         /\ op[t].pc \in {"binding", "lease", "repair"} => op[t].data \in Leases
         /\ op[t].pc = "clear_lease" => op[t].license \in Licenses
         /\ op[t].pc \notin {"idle", "identity"} => op[t].key \in Threads
    /\ \A e \in Evaluators :
         /\ ev[e].pc \in {"time", "write"} => ev[e].lease \in Leases
         /\ ev[e].pc = "write" => ev[e].trusted \in Guards

\* The key is made by the thread that holds the identity lock and by no
\* other, and an operation past that point works with the stored key.
KeyInv ==
    /\ OneIdentity
    /\ \A t \in Threads :
         /\ op[t].pc \in {"save", "reload"} => idLock = t
         /\ op[t].pc = "save" => key = None /\ op[t].key = t
         /\ op[t].pc \notin {"idle", "identity", "save"} => key # None /\ op[t].key = key

\* The steps under the operation lock.
Locked == {"post", "binding", "lease", "repair", "clear_lease", "clear_trusted", "clear_binding"}

\* An answer that is about to be installed is not for a deleted licence that
\* the desktop has handled, because handling one takes the same lock.
DeletedInv ==
    /\ DeletedStaysOut
    /\ learned \subseteq deleted
    /\ \A t \in Threads :
         /\ op[t].pc \in Locked => opLock = t
         /\ op[t].pc \in {"binding", "lease", "repair"} =>
               op[t].data.license \notin learned
         /\ op[t].pc = "clear_lease" => op[t].license \in deleted
         /\ op[t].pc \in {"clear_trusted", "clear_binding"} => lease = None
         /\ op[t].pc = "repair" => lease = op[t].data

\* The documents that an operation may still bring: none is known yet.
Pending == {"identity", "save", "reload", "lock", "post", "binding", "lease"}

FreshInv ==
    /\ lease # None => lease.nr <= ops
    /\ \A x \in expired : x.nr <= ops
    /\ \A e \in Evaluators : ev[e].lease # None => ev[e].lease.nr <= ops
    /\ \A t \in Threads : op[t].pc \in Pending =>
         /\ op[t].nr <= ops
         /\ op[t].pc \in {"binding", "lease"} => op[t].data.nr = op[t].nr
         /\ lease # None => lease.nr # op[t].nr
         /\ \A x \in expired : x.nr # op[t].nr
         /\ \A e \in Evaluators : ev[e].lease # None => ev[e].lease.nr # op[t].nr
         /\ \A u \in Threads : u # t /\ op[u].pc \in Pending => op[u].nr # op[t].nr

\* An evaluator that is about to write the clock guard has read the one that
\* is still on disk, unless a deletion has removed it since; a guard that
\* was found unreadable is nobody's to write.
GuardInv ==
    /\ ExpiredIsRemembered
    /\ \A e \in Evaluators : ev[e].pc = "write" =>
         timeLock = e /\ trusted \in {None, ev[e].trusted}
    /\ \A t \in Threads : op[t].pc = "repair" /\ trusted = Corrupt => op[t].data \notin expired

----------------------------------------------------------------------------
(* What the steps that write several fields of a record leave behind *)

\* The greatest of two and of three times.
LEMMA MaxIsGreatest ==
  ASSUME NEW S, \E x \in S : \A y \in S : x >= y
  PROVE  Max(S) \in S /\ \A y \in S : Max(S) >= y
BY Zenon DEF Max

LEMMA MaxOfTwo ==
  ASSUME NEW a \in Nat, NEW b \in Nat
  PROVE  Max({a, b}) \in Nat /\ Max({a, b}) >= a /\ Max({a, b}) >= b
<1>1. \E x \in {a, b} : \A y \in {a, b} : x >= y
  BY SMT
<1> QED BY <1>1, MaxIsGreatest

LEMMA MaxOfThree ==
  ASSUME NEW a \in Nat, NEW b \in Nat, NEW c \in Nat
  PROVE  /\ Max({a, b, c}) \in Nat
         /\ Max({a, b, c}) >= a /\ Max({a, b, c}) >= b /\ Max({a, b, c}) >= c
<1>1. \E x \in {a, b, c} : \A y \in {a, b, c} : x >= y
  BY SMT
<1> QED BY <1>1, MaxIsGreatest

\* The first fields of an operation and of an evaluation.
LEMMA FreshRecords == NoOp \in Operations /\ NoEv \in Evaluations
BY LeaseAssumption, Zenon DEF NoOp, NoEv, Operations, Evaluations

\* Start.
LEMMA Starts ==
  ASSUME TypeInv, NEW t \in Threads, Start(t)
  PROVE  /\ op[t].pc = "idle" /\ ops' = ops + 1
         /\ UNCHANGED <<world, key, files, locks, ev, ghosts>>
         /\ op' \in [Threads -> Operations]
         /\ \A u \in Threads : u # t => op'[u] = op[u]
         /\ op'[t].pc = "identity" /\ op'[t].nr = ops'
<1>0. /\ op[t].pc = "idle" /\ ops' = ops + 1
      /\ UNCHANGED <<world, key, files, locks, ev, ghosts>>
  BY DEF Start
<1>1. PICK kind \in {"activate", "recover", "refresh", "transfer"} :
        op' = [op EXCEPT ![t] = [NoOp EXCEPT !.pc = "identity", !.kind = kind, !.nr = ops']]
  BY DEF Start
<1> DEFINE r == [NoOp EXCEPT !.pc = "identity", !.kind = kind, !.nr = ops']
<1>2. op' = [op EXCEPT ![t] = r]
  BY <1>1
<1>3. ops' \in Nat
  BY SMT DEF Start, TypeInv
<1>4. r \in Operations
  BY <1>3, FreshRecords, Zenon DEF Operations
<1>5. r.pc = "identity" /\ r.nr = ops'
  BY FreshRecords, SMT DEF Operations
<1> HIDE DEF r
<1> QED BY <1>0, <1>2, <1>4, <1>5 DEF TypeInv, TypeOK

\* LoadIdentity takes the stored key, or makes one and keeps the lock.
LEMMA LoadsIdentity ==
  ASSUME TypeInv, NEW t \in Threads, LoadIdentity(t)
  PROVE  /\ op[t].pc = "identity" /\ idLock = None
         /\ UNCHANGED <<world, key, files, opLock, timeLock, ev, ghosts, ops>>
         /\ op' \in [Threads -> Operations]
         /\ \A u \in Threads : u # t => op'[u] = op[u]
         /\ op'[t].nr = op[t].nr
         /\ \/ key # None /\ idLock' = None /\ op'[t].pc = "lock" /\ op'[t].key = key
            \/ key = None /\ idLock' = t /\ op'[t].pc = "save" /\ op'[t].key = t
<1>0. /\ op[t].pc = "identity" /\ idLock = None
      /\ UNCHANGED <<world, key, files, opLock, timeLock, ev, ghosts, ops>>
  BY DEF LoadIdentity
<1>1. op \in [Threads -> Operations] /\ op[t] \in Operations /\ key \in Threads \cup {None}
  BY DEF TypeInv, TypeOK
<1>2. \A pc \in {"lock", "save"}, k \in Threads \cup {None} :
        LET r == [op[t] EXCEPT !.pc = pc, !.key = k] IN
        r \in Operations /\ r.pc = pc /\ r.key = k /\ r.nr = op[t].nr
  <2> SUFFICES ASSUME NEW pc \in {"lock", "save"}, NEW k \in Threads \cup {None}
               PROVE  LET r == [op[t] EXCEPT !.pc = pc, !.key = k] IN
                      r \in Operations /\ r.pc = pc /\ r.key = k /\ r.nr = op[t].nr
    OBVIOUS
  <2>1. [op[t] EXCEPT !.pc = pc, !.key = k] \in Operations
    BY <1>1, Zenon DEF Operations
  <2> QED BY <1>0, <1>1, <2>1 DEF Operations
<1>3. CASE key # None
  <2> DEFINE r == [op[t] EXCEPT !.pc = "lock", !.key = key]
  <2>1. op' = [op EXCEPT ![t] = r] /\ idLock' = None
    BY <1>3 DEF LoadIdentity
  <2>2. r \in Operations /\ r.pc = "lock" /\ r.key = key /\ r.nr = op[t].nr
    BY <1>1, <1>2
  <2> HIDE DEF r
  <2> QED BY <1>0, <1>1, <1>3, <2>1, <2>2
<1>4. CASE key = None
  <2> DEFINE r == [op[t] EXCEPT !.pc = "save", !.key = t]
  <2>1. op' = [op EXCEPT ![t] = r] /\ idLock' = t
    BY <1>4 DEF LoadIdentity
  <2>2. r \in Operations /\ r.pc = "save" /\ r.key = t /\ r.nr = op[t].nr
    BY <1>1, <1>2
  <2> HIDE DEF r
  <2> QED BY <1>0, <1>1, <1>4, <2>1, <2>2
<1> QED BY <1>0, <1>3, <1>4

\* SaveIdentity stores the key the operation holds.
LEMMA SavesIdentity ==
  ASSUME TypeInv, NEW t \in Threads, SaveIdentity(t)
  PROVE  /\ op[t].pc = "save" /\ key' = op[t].key /\ op[t].key \in Threads \cup {None}
         /\ UNCHANGED <<world, files, locks, ev, ghosts, ops>>
         /\ op' \in [Threads -> Operations]
         /\ \A u \in Threads : u # t => op'[u] = op[u]
         /\ op'[t].pc = "reload" /\ op'[t].key = op[t].key /\ op'[t].nr = op[t].nr
<1>0. /\ op[t].pc = "save" /\ key' = op[t].key
      /\ UNCHANGED <<world, files, locks, ev, ghosts, ops>>
  BY DEF SaveIdentity
<1> DEFINE r == [op[t] EXCEPT !.pc = "reload"]
<1>1. op \in [Threads -> Operations] /\ op[t] \in Operations
  BY DEF TypeInv, TypeOK
<1>2. op' = [op EXCEPT ![t] = r]
  BY <1>1 DEF SaveIdentity
<1>3. r \in Operations
  BY <1>1, Zenon DEF Operations
<1>4. r.pc = "reload" /\ r.key = op[t].key /\ r.nr = op[t].nr
  BY <1>1, SMT DEF Operations
<1>5. op[t].key \in Threads \cup {None}
  BY <1>1, SMT DEF Operations
<1> HIDE DEF r
<1> QED BY <1>0, <1>1, <1>2, <1>3, <1>4, <1>5

\* TakeLock goes on to the request, or leaves when there is nothing to refresh.
LEMMA TakesLock ==
  ASSUME TypeInv, NEW t \in Threads, TakeLock(t)
  PROVE  /\ op[t].pc = "lock" /\ opLock = None
         /\ UNCHANGED <<world, key, files, idLock, timeLock, ev, ghosts, ops>>
         /\ op' \in [Threads -> Operations]
         /\ \A u \in Threads : u # t => op'[u] = op[u]
         /\ \/ op'[t].pc = "idle" /\ opLock' = None
            \/ /\ op'[t].pc = "post" /\ opLock' = t
               /\ op'[t].key = op[t].key /\ op'[t].nr = op[t].nr
<1>0. /\ op[t].pc = "lock" /\ opLock = None
      /\ UNCHANGED <<world, key, files, idLock, timeLock, ev, ghosts, ops>>
  BY DEF TakeLock
<1>1. op \in [Threads -> Operations] /\ op[t] \in Operations /\ binding \in Licenses \cup {None}
  BY DEF TypeInv, TypeOK
<1>2. CASE op[t].kind = "refresh" /\ binding = None
  <2>1. op' = [op EXCEPT ![t] = NoOp] /\ opLock' = None
    BY <1>2 DEF TakeLock
  <2>2. NoOp.pc = "idle"
    BY DEF NoOp
  <2> QED BY <1>0, <1>1, <2>1, <2>2, FreshRecords
<1>3. CASE ~(op[t].kind = "refresh" /\ binding = None)
  <2> DEFINE r == [op[t] EXCEPT !.pc = "post", !.license = binding]
  <2>1. op' = [op EXCEPT ![t] = r] /\ opLock' = t
    BY <1>3 DEF TakeLock
  <2>2. r \in Operations /\ r.pc = "post" /\ r.key = op[t].key /\ r.nr = op[t].nr
    <3>1. r \in Operations
      BY <1>1, Zenon DEF Operations
    <3>2. r.pc = "post" /\ r.key = op[t].key /\ r.nr = op[t].nr
      BY <1>1, SMT DEF Operations
    <3> QED BY <3>1, <3>2
  <2> HIDE DEF r
  <2> QED BY <1>0, <1>1, <2>1, <2>2
<1> QED BY <1>0, <1>2, <1>3

\* Post ends the operation, goes on to forget a deleted licence, or brings a
\* lease for a licence that is not deleted.
LEMMA Posts ==
  ASSUME TypeInv, NEW t \in Threads, Post(t)
  PROVE  /\ op[t].pc = "post" /\ signed' = signed \cup {op[t].key}
         /\ UNCHANGED <<world, key, files, idLock, timeLock, ev, expired, learned, ops>>
         /\ op' \in [Threads -> Operations]
         /\ \A u \in Threads : u # t => op'[u] = op[u]
         /\ \/ op'[t].pc = "idle" /\ opLock' = None
            \/ /\ opLock' = opLock
               /\ op'[t].key = op[t].key /\ op'[t].nr = op[t].nr
               /\ \/ /\ op'[t].pc = "clear_lease"
                     /\ op'[t].license = op[t].license /\ op[t].license \in deleted
                  \/ /\ op'[t].pc = "binding" /\ op'[t].data \in Leases
                     /\ op'[t].data.license \notin deleted
                     /\ op'[t].data.nr = op[t].nr
<1>0. /\ op[t].pc = "post" /\ signed' = signed \cup {op[t].key}
      /\ UNCHANGED <<world, key, files, idLock, timeLock, ev, expired, learned, ops>>
  BY DEF Post
<1>1. op \in [Threads -> Operations] /\ op[t] \in Operations
  BY DEF TypeInv, TypeOK
<1>2. CASE Leave(t)
  <2>1. op' = [op EXCEPT ![t] = NoOp] /\ opLock' = None /\ NoOp.pc = "idle"
    BY <1>2 DEF Leave, NoOp
  <2> QED BY <1>0, <1>1, <2>1, FreshRecords
<1>3. CASE op[t].license \in deleted /\ op' = [op EXCEPT ![t].pc = "clear_lease"] /\ opLock' = opLock
  <2> DEFINE r == [op[t] EXCEPT !.pc = "clear_lease"]
  <2>1. op' = [op EXCEPT ![t] = r]
    BY <1>3
  <2>2. /\ r \in Operations /\ r.pc = "clear_lease" /\ r.key = op[t].key /\ r.nr = op[t].nr
        /\ r.license = op[t].license
    BY <1>1, SMT DEF Operations
  <2> HIDE DEF r
  <2> QED BY <1>0, <1>1, <1>3, <2>1, <2>2
<1>4. ASSUME NEW l \in Licenses \ deleted, opLock' = opLock,
             op' = [op EXCEPT ![t] = [@ EXCEPT !.pc = "binding",
                           !.data = SignedLease(l, op[t].kind = "recover", op[t].nr)]]
      PROVE  /\ op' \in [Threads -> Operations]
             /\ \A u \in Threads : u # t => op'[u] = op[u]
             /\ op'[t].key = op[t].key /\ op'[t].nr = op[t].nr
             /\ op'[t].pc = "binding" /\ op'[t].data \in Leases
             /\ op'[t].data.license \notin deleted
             /\ op'[t].data.nr = op[t].nr
  <2> DEFINE x == SignedLease(l, op[t].kind = "recover", op[t].nr)
             r == [op[t] EXCEPT !.pc = "binding", !.data = x]
  <2>1. op' = [op EXCEPT ![t] = r]
    BY <1>4
  <2>2. x.license = l /\ x.nr = op[t].nr
    BY DEF SignedLease
  <2>3. real \in Nat /\ op[t].nr \in Nat /\ real + LeaseLife \in Nat
    BY <1>1, LeaseAssumption, SMT DEF TypeInv, TypeOK, Operations
  <2>4. (op[t].kind = "recover") \in BOOLEAN
    OBVIOUS
  <2>5. x \in Leases
    BY <2>3, <2>4, Zenon DEF SignedLease, Leases
  <2> HIDE DEF x
  <2>6. r \in Operations /\ r.pc = "binding" /\ r.key = op[t].key /\ r.nr = op[t].nr /\ r.data = x
    <3>1. r \in Operations
      BY <1>1, <2>5, Zenon DEF Operations
    <3>2. r.pc = "binding" /\ r.key = op[t].key /\ r.nr = op[t].nr /\ r.data = x
      BY <1>1, <2>5, SMT DEF Operations
    <3> QED BY <3>1, <3>2
  <2> HIDE DEF r
  <2> QED BY <1>1, <2>1, <2>2, <2>5, <2>6
<1>5. \/ Leave(t)
      \/ op[t].license \in deleted /\ op' = [op EXCEPT ![t].pc = "clear_lease"] /\ opLock' = opLock
      \/ \E l \in Licenses \ deleted :
            /\ opLock' = opLock
            /\ op' = [op EXCEPT ![t] = [@ EXCEPT !.pc = "binding",
                          !.data = SignedLease(l, op[t].kind = "recover", op[t].nr)]]
  BY Zenon DEF Post
<1> QED BY <1>0, <1>2, <1>3, <1>4, <1>5

\* The evaluation steps.
LEMMA EvaluatesBinding ==
  ASSUME TypeInv, NEW e \in Evaluators, EvaluateBinding(e)
  PROVE  /\ UNCHANGED <<world, key, files, locks, op, ghosts, ops>>
         /\ ev' \in [Evaluators -> Evaluations]
         /\ \A f \in Evaluators : f # e => ev'[f] = ev[f]
         /\ ev'[e].pc = "lease" /\ ev'[e].lease = None
<1> DEFINE r == [NoEv EXCEPT !.pc = "lease", !.binding = binding]
<1>1. ev' = [ev EXCEPT ![e] = r] /\ UNCHANGED <<world, key, files, locks, op, ghosts, ops>>
  BY DEF EvaluateBinding
<1>2. ev \in [Evaluators -> Evaluations] /\ binding \in Licenses \cup {None}
  BY DEF TypeInv, TypeOK
<1>3. r \in Evaluations
  BY <1>2, FreshRecords, Zenon DEF Evaluations
<1>4. r.pc = "lease" /\ r.lease = None
  BY SMT DEF NoEv
<1> HIDE DEF r
<1> QED BY <1>1, <1>2, <1>3, <1>4

LEMMA EvaluatesLease ==
  ASSUME TypeInv, NEW e \in Evaluators, EvaluateLease(e)
  PROVE  /\ ev[e].pc = "lease"
         /\ UNCHANGED <<world, key, files, locks, op, ghosts, ops>>
         /\ ev' \in [Evaluators -> Evaluations]
         /\ \A f \in Evaluators : f # e => ev'[f] = ev[f]
         /\ \/ ev'[e].pc = "idle" /\ ev'[e].lease = None
            \/ ev'[e].pc = "time" /\ ev'[e].lease = lease /\ lease \in Leases
<1>0. /\ ev[e].pc = "lease"
      /\ UNCHANGED <<world, key, files, locks, op, ghosts, ops>>
  BY DEF EvaluateLease
<1>1. ev \in [Evaluators -> Evaluations] /\ ev[e] \in Evaluations /\ clock \in Nat
  BY DEF TypeInv, TypeOK
<1>2. CASE lease = None \/ lease.license # ev[e].binding
  <2>1. ev' = [ev EXCEPT ![e] = NoEv] /\ NoEv.pc = "idle" /\ NoEv.lease = None
    BY <1>2 DEF EvaluateLease, NoEv
  <2> QED BY <1>0, <1>1, <2>1, FreshRecords
<1>3. CASE ~(lease = None \/ lease.license # ev[e].binding)
  <2> DEFINE r == [ev[e] EXCEPT !.pc = "time", !.lease = lease, !.seen = clock]
  <2>1. ev' = [ev EXCEPT ![e] = r] /\ lease \in Leases
    BY <1>3 DEF EvaluateLease, TypeInv, TypeOK
  <2>2. r \in Evaluations /\ r.pc = "time" /\ r.lease = lease
    <3>1. r \in Evaluations
      BY <1>1, <2>1, Zenon DEF Evaluations
    <3>2. r.pc = "time" /\ r.lease = lease
      BY <1>1, <2>1, SMT DEF Evaluations
    <3> QED BY <3>1, <3>2
  <2> HIDE DEF r
  <2> QED BY <1>0, <1>1, <2>1, <2>2
<1> QED BY <1>0, <1>2, <1>3

LEMMA ReadsTrustedTime ==
  ASSUME TypeInv, NEW e \in Evaluators, ReadTrustedTime(e)
  PROVE  /\ ev[e].pc = "time" /\ timeLock = None
         /\ UNCHANGED <<world, key, files, idLock, opLock, op, ghosts, ops>>
         /\ ev' \in [Evaluators -> Evaluations]
         /\ \A f \in Evaluators : f # e => ev'[f] = ev[f]
         /\ \/ ev'[e].pc = "idle" /\ ev'[e].lease = None /\ timeLock' = timeLock
            \/ /\ ev'[e].pc = "write" /\ ev'[e].lease = ev[e].lease /\ timeLock' = e
               /\ ev'[e].trusted \in Guards /\ trusted \in {None, ev'[e].trusted}
<1>0. /\ ev[e].pc = "time" /\ timeLock = None
      /\ UNCHANGED <<world, key, files, idLock, opLock, op, ghosts, ops>>
  BY DEF ReadTrustedTime
<1> DEFINE guard == Guard(ev[e].lease)
<1>1. ev \in [Evaluators -> Evaluations] /\ ev[e] \in Evaluations /\ ev[e].lease \in Leases
  BY DEF TypeInv, TypeOK, ReadTrustedTime
<1>2. CASE guard = Corrupt \/ RolledBack(e, guard)
  <2>1. ev' = [ev EXCEPT ![e] = NoEv] /\ NoEv.pc = "idle" /\ NoEv.lease = None /\ timeLock' = timeLock
    BY <1>2 DEF ReadTrustedTime, NoEv
  <2> QED BY <1>0, <1>1, <2>1, FreshRecords
<1>3. CASE ~(guard = Corrupt \/ RolledBack(e, guard))
  <2> DEFINE r == [ev[e] EXCEPT !.pc = "write", !.trusted = guard]
  <2>1. ev' = [ev EXCEPT ![e] = r] /\ timeLock' = e
    BY <1>3 DEF ReadTrustedTime
  <2>2. ev[e].lease.at \in Nat
    BY <1>1 DEF Leases
  <2>3. guard \in Guards
    <3>1. CASE trusted = None
      BY <2>2, <3>1, Zenon DEF Guard, Guards
    <3>2. CASE trusted # None
      BY <1>3, <3>2 DEF Guard, TypeInv, TypeOK
    <3> QED BY <3>1, <3>2
  <2>4. trusted \in {None, guard}
    BY DEF Guard
  <2> HIDE DEF guard
  <2>5. r \in Evaluations /\ r.pc = "write" /\ r.lease = ev[e].lease /\ r.trusted = guard
    <3>1. r \in Evaluations
      BY <1>1, <2>3, Zenon DEF Evaluations
    <3>2. r.pc = "write" /\ r.lease = ev[e].lease /\ r.trusted = guard
      BY <1>1, <2>3, SMT DEF Evaluations
    <3> QED BY <3>1, <3>2
  <2> HIDE DEF r
  <2> QED BY <1>0, <1>1, <2>1, <2>3, <2>4, <2>5
<1> QED BY <1>0, <1>2, <1>3

\* What WriteTrustedTime writes.
LEMMA WritesTrustedTime ==
  ASSUME TypeInv, NEW e \in Evaluators, WriteTrustedTime(e)
  PROVE  /\ ev[e].pc = "write" /\ timeLock' = None
         /\ UNCHANGED <<world, key, binding, lease, idLock, opLock, op, learned, signed, ops>>
         /\ ev' \in [Evaluators -> Evaluations]
         /\ \A f \in Evaluators : f # e => ev'[f] = ev[f]
         /\ ev'[e].pc = "idle" /\ ev'[e].lease = None
         /\ trusted' \in Guards
         /\ trusted'.highest >= ev[e].trusted.highest
         /\ trusted'.server >= ev[e].trusted.server
         /\ \/ expired' = expired
            \/ /\ expired' = expired \cup {ev[e].lease}
               /\ trusted'.highest >= ev[e].lease.until
<1>0. /\ ev[e].pc = "write" /\ timeLock' = None
      /\ UNCHANGED <<world, key, binding, lease, idLock, opLock, op, learned, signed, ops>>
  BY DEF WriteTrustedTime
<1> DEFINE l == ev[e].lease
           server == Max({l.at, ev[e].trusted.server})
           effective == Max({ev[e].seen, l.at, ev[e].trusted.highest})
<1>1. /\ ev \in [Evaluators -> Evaluations] /\ ev[e] \in Evaluations
      /\ l \in Leases /\ ev[e].trusted \in Guards
  BY DEF TypeInv, TypeOK, WriteTrustedTime
<1>2. /\ l.at \in Nat /\ l.until \in Nat /\ ev[e].seen \in Nat
      /\ ev[e].trusted.server \in Nat /\ ev[e].trusted.highest \in Nat
  BY <1>1, SMT DEF Leases, Guards, Evaluations
<1>3. /\ server \in Nat /\ server >= ev[e].trusted.server
      /\ effective \in Nat /\ effective >= ev[e].trusted.highest
  BY <1>2, MaxOfTwo, MaxOfThree
<1>4. /\ trusted' = [server |-> server, highest |-> effective]
      /\ ev' = [ev EXCEPT ![e] = NoEv]
      /\ expired' = IF effective >= l.until THEN expired \cup {l} ELSE expired
  BY DEF WriteTrustedTime, EffectiveTime
<1> HIDE DEF server, effective, l
<1>5. trusted' \in Guards /\ trusted'.server = server /\ trusted'.highest = effective
  BY <1>3, <1>4, SMT DEF Guards
<1>6. /\ ev' \in [Evaluators -> Evaluations]
      /\ \A f \in Evaluators : f # e => ev'[f] = ev[f]
      /\ ev'[e] = NoEv
  BY <1>1, <1>4, FreshRecords
<1>7. NoEv.pc = "idle" /\ NoEv.lease = None
  BY DEF NoEv
<1> QED BY <1>0, <1>3, <1>4, <1>5, <1>6, <1>7 DEF l

\* What RepairTrustedTime writes over an unreadable guard.
LEMMA RepairsTrustedTime ==
  ASSUME TypeInv, NEW t \in Threads, RepairTrustedTime(t)
  PROVE  trusted' \in Guards \/ (trusted' = trusted /\ trusted # Corrupt)
<1>1. op[t].data \in Leases /\ clock \in Nat
  BY DEF RepairTrustedTime, TypeInv, TypeOK
<1>2. op[t].data.at \in Nat
  BY <1>1 DEF Leases
<1>3. Max({clock, op[t].data.at}) \in Nat
  BY <1>1, <1>2, MaxOfTwo
<1> DEFINE highest == Max({clock, op[t].data.at})
<1>4. highest \in Nat
  BY <1>3
<1>5. trusted' = IF trusted = Corrupt THEN [server |-> op[t].data.at, highest |-> highest]
                 ELSE trusted
  BY DEF RepairTrustedTime
<1> HIDE DEF highest
<1>6. [server |-> op[t].data.at, highest |-> highest] \in Guards
  BY <1>2, <1>4, Zenon DEF Guards
<1>7. CASE trusted = Corrupt
  BY <1>5, <1>6, <1>7
<1>8. CASE trusted # Corrupt
  BY <1>5, <1>8
<1> QED BY <1>7, <1>8

----------------------------------------------------------------------------
(* Steps *)

\* Every step keeps the types.
LEMMA TypeInvStep ==
  ASSUME TypeInv, Next
  PROVE  TypeInv'
<1>1. ASSUME NEW t \in Threads, Start(t) PROVE TypeInv'
  BY <1>1, Starts, LeaseAssumption, SMT DEF world, files, locks, ghosts, TypeInv, TypeOK
<1>2. ASSUME NEW t \in Threads, LoadIdentity(t) PROVE TypeInv'
  BY <1>2, LoadsIdentity, LeaseAssumption, SMT DEF world, files, locks, ghosts, TypeInv, TypeOK
<1>3. ASSUME NEW t \in Threads, SaveIdentity(t) PROVE TypeInv'
  BY <1>3, SavesIdentity, SMT DEF world, files, locks, ghosts, TypeInv, TypeOK
<1>4. ASSUME NEW t \in Threads, ReloadIdentity(t) PROVE TypeInv'
  BY <1>4, LeaseAssumption, SMT
    DEF ReloadIdentity, NoOp, world, files, locks, ghosts, TypeInv, TypeOK, Operations,
        Evaluations, Leases, Guards, Corrupt
<1>5. ASSUME NEW t \in Threads, TakeLock(t) PROVE TypeInv'
  BY <1>5, TakesLock, LeaseAssumption, SMT DEF world, files, locks, ghosts, TypeInv, TypeOK
<1>6. ASSUME NEW t \in Threads, Post(t) PROVE TypeInv'
  BY <1>6, Posts, LeaseAssumption, SMT DEF world, files, locks, ghosts, TypeInv, TypeOK
<1>7. ASSUME NEW t \in Threads, InstallBinding(t) PROVE TypeInv'
  BY <1>7, LeaseAssumption, SMT
    DEF InstallBinding, Leave, NoOp, world, files, locks, ghosts, TypeInv, TypeOK, Operations,
        Evaluations, Leases, Guards, Corrupt
<1>8. ASSUME NEW t \in Threads, InstallLease(t) PROVE TypeInv'
  BY <1>8, LeaseAssumption, SMT
    DEF InstallLease, Leave, NoOp, world, files, locks, ghosts, TypeInv, TypeOK, Operations,
        Evaluations, Leases, Guards, Corrupt
<1>9. ASSUME NEW t \in Threads, RepairTrustedTime(t) PROVE TypeInv'
  <2>1. op' = [op EXCEPT ![t] = NoOp]
    BY <1>9 DEF RepairTrustedTime, Leave
  <2>2. NoOp.pc = "idle"
    BY DEF NoOp
  <2>3. opLock' = None /\ UNCHANGED <<world, key, binding, lease, idLock, timeLock, ev, ghosts, ops>>
    BY <1>9 DEF RepairTrustedTime, Leave
  <2> QED
    BY <1>9, <2>1, <2>2, <2>3, RepairsTrustedTime, FreshRecords, SMT
      DEF world, ghosts, TypeInv, TypeOK
<1>10. ASSUME NEW t \in Threads, ClearLease(t) PROVE TypeInv'
  BY <1>10, LeaseAssumption, SMT
    DEF ClearLease, world, files, locks, ghosts, TypeInv, TypeOK, Operations, Evaluations,
        Leases, Guards, Corrupt
<1>11. ASSUME NEW t \in Threads, ClearTrusted(t) PROVE TypeInv'
  BY <1>11, LeaseAssumption, SMT
    DEF ClearTrusted, world, files, locks, ghosts, TypeInv, TypeOK, Operations, Evaluations,
        Leases, Guards, Corrupt
<1>12. ASSUME NEW t \in Threads, ClearBinding(t) PROVE TypeInv'
  BY <1>12, LeaseAssumption, SMT
    DEF ClearBinding, Leave, NoOp, world, files, locks, ghosts, TypeInv, TypeOK, Operations,
        Evaluations, Leases, Guards, Corrupt
<1>13. ASSUME NEW e \in Evaluators, EvaluateBinding(e) PROVE TypeInv'
  BY <1>13, EvaluatesBinding, LeaseAssumption, SMT
    DEF world, files, locks, ghosts, TypeInv, TypeOK
<1>14. ASSUME NEW e \in Evaluators, EvaluateLease(e) PROVE TypeInv'
  BY <1>14, EvaluatesLease, LeaseAssumption, SMT DEF world, files, locks, ghosts, TypeInv, TypeOK
<1>15. ASSUME NEW e \in Evaluators, ReadTrustedTime(e) PROVE TypeInv'
  BY <1>15, ReadsTrustedTime, LeaseAssumption, SMT
    DEF world, files, locks, ghosts, TypeInv, TypeOK
<1>16. ASSUME NEW e \in Evaluators, WriteTrustedTime(e) PROVE TypeInv'
  BY <1>16, WritesTrustedTime, LeaseAssumption, SMT
    DEF world, files, locks, ghosts, TypeInv, TypeOK
<1>17. CASE Tick
  BY <1>17, LeaseAssumption, SMT
    DEF Tick, world, files, locks, ghosts, TypeInv, TypeOK, Operations, Evaluations, Leases,
        Guards, Corrupt
<1>18. CASE SetClock
  BY <1>18, LeaseAssumption, SMT
    DEF SetClock, world, files, locks, ghosts, TypeInv, TypeOK, Operations, Evaluations,
        Leases, Guards, Corrupt
<1>19. CASE DeleteLicense
  BY <1>19, LeaseAssumption, SMT
    DEF DeleteLicense, world, files, locks, ghosts, TypeInv, TypeOK, Operations, Evaluations,
        Leases, Guards, Corrupt
<1>20. CASE Crash
  BY <1>20, LeaseAssumption, SMT
    DEF Crash, NoOp, NoEv, Corrupt, world, files, locks, ghosts, TypeInv, TypeOK, Operations,
        Evaluations, Leases, Guards
<1> QED BY <1>1, <1>2, <1>3, <1>4, <1>5, <1>6, <1>7, <1>8, <1>9, <1>10, <1>11, <1>12, <1>13,
   <1>14, <1>15, <1>16, <1>17, <1>18, <1>19, <1>20
  DEF Next, Identity, Install, Clear, Evaluate

\* Every step keeps the key.
LEMMA KeyInvStep ==
  ASSUME TypeInv, KeyInv, Next
  PROVE  KeyInv'
<1>1. ASSUME NEW t \in Threads, Start(t) PROVE KeyInv'
  BY <1>1, Starts, LeaseAssumption, SMT
    DEF world, files, locks, ghosts, TypeInv, TypeOK, Operations, KeyInv, OneIdentity
<1>2. ASSUME NEW t \in Threads, LoadIdentity(t) PROVE KeyInv'
  BY <1>2, LoadsIdentity, LeaseAssumption, SMT
    DEF world, files, locks, ghosts, TypeInv, TypeOK, Operations, KeyInv, OneIdentity
<1>3. ASSUME NEW t \in Threads, SaveIdentity(t) PROVE KeyInv'
  BY <1>3, LeaseAssumption, SMT
    DEF SaveIdentity, world, files, locks, ghosts, TypeInv, TypeOK, Operations, KeyInv,
        OneIdentity
<1>4. ASSUME NEW t \in Threads, ReloadIdentity(t) PROVE KeyInv'
  BY <1>4, LeaseAssumption, SMT
    DEF ReloadIdentity, NoOp, world, files, locks, ghosts, TypeInv, TypeOK, Operations,
        KeyInv, OneIdentity
<1>5. ASSUME NEW t \in Threads, TakeLock(t) PROVE KeyInv'
  BY <1>5, TakesLock, LeaseAssumption, SMT
    DEF world, files, locks, ghosts, TypeInv, TypeOK, Operations, KeyInv, OneIdentity
<1>6. ASSUME NEW t \in Threads, Post(t) PROVE KeyInv'
  BY <1>6, Posts, LeaseAssumption, SMT
    DEF world, files, locks, ghosts, TypeInv, TypeOK, Operations, KeyInv, OneIdentity
<1>7. ASSUME NEW t \in Threads, InstallBinding(t) PROVE KeyInv'
  BY <1>7, LeaseAssumption, SMT
    DEF InstallBinding, Leave, NoOp, world, files, locks, ghosts, TypeInv, TypeOK, Operations,
        KeyInv, OneIdentity
<1>8. ASSUME NEW t \in Threads, InstallLease(t) PROVE KeyInv'
  BY <1>8, LeaseAssumption, SMT
    DEF InstallLease, Leave, NoOp, world, files, locks, ghosts, TypeInv, TypeOK, Operations,
        KeyInv, OneIdentity
<1>9. ASSUME NEW t \in Threads, RepairTrustedTime(t) PROVE KeyInv'
  BY <1>9, RepairsTrustedTime, LeaseAssumption, SMT
    DEF RepairTrustedTime, Leave, NoOp, Corrupt, world, files, locks, ghosts, TypeInv, TypeOK,
        Operations, KeyInv, OneIdentity
<1>10. ASSUME NEW t \in Threads, ClearLease(t) PROVE KeyInv'
  BY <1>10, LeaseAssumption, SMT
    DEF ClearLease, world, files, locks, ghosts, TypeInv, TypeOK, Operations, KeyInv,
        OneIdentity
<1>11. ASSUME NEW t \in Threads, ClearTrusted(t) PROVE KeyInv'
  BY <1>11, LeaseAssumption, SMT
    DEF ClearTrusted, world, files, locks, ghosts, TypeInv, TypeOK, Operations, KeyInv,
        OneIdentity
<1>12. ASSUME NEW t \in Threads, ClearBinding(t) PROVE KeyInv'
  BY <1>12, LeaseAssumption, SMT
    DEF ClearBinding, Leave, NoOp, world, files, locks, ghosts, TypeInv, TypeOK, Operations,
        KeyInv, OneIdentity
<1>13. ASSUME NEW e \in Evaluators, EvaluateBinding(e) PROVE KeyInv'
  BY <1>13, EvaluatesBinding, LeaseAssumption, SMT
    DEF world, files, locks, ghosts, TypeInv, TypeOK, Operations, KeyInv, OneIdentity
<1>14. ASSUME NEW e \in Evaluators, EvaluateLease(e) PROVE KeyInv'
  BY <1>14, EvaluatesLease, LeaseAssumption, SMT
    DEF world, files, locks, ghosts, TypeInv, TypeOK, Operations, KeyInv, OneIdentity
<1>15. ASSUME NEW e \in Evaluators, ReadTrustedTime(e) PROVE KeyInv'
  BY <1>15, ReadsTrustedTime, LeaseAssumption, SMT
    DEF world, files, locks, ghosts, TypeInv, TypeOK, Operations, KeyInv, OneIdentity
<1>16. ASSUME NEW e \in Evaluators, WriteTrustedTime(e) PROVE KeyInv'
  BY <1>16, WritesTrustedTime, LeaseAssumption, SMT
    DEF world, files, locks, ghosts, TypeInv, TypeOK, Operations, KeyInv, OneIdentity
<1>17. CASE Tick
  BY <1>17, LeaseAssumption, SMT
    DEF Tick, world, files, locks, ghosts, TypeInv, TypeOK, Operations, KeyInv, OneIdentity
<1>18. CASE SetClock
  BY <1>18, LeaseAssumption, SMT
    DEF SetClock, world, files, locks, ghosts, TypeInv, TypeOK, Operations, KeyInv,
        OneIdentity
<1>19. CASE DeleteLicense
  BY <1>19, LeaseAssumption, SMT
    DEF DeleteLicense, world, files, locks, ghosts, TypeInv, TypeOK, Operations, KeyInv,
        OneIdentity
<1>20. CASE Crash
  BY <1>20, LeaseAssumption, SMT
    DEF Crash, NoOp, NoEv, Corrupt, world, files, locks, ghosts, TypeInv, TypeOK, Operations,
        KeyInv, OneIdentity
<1> QED BY <1>1, <1>2, <1>3, <1>4, <1>5, <1>6, <1>7, <1>8, <1>9, <1>10, <1>11, <1>12, <1>13,
   <1>14, <1>15, <1>16, <1>17, <1>18, <1>19, <1>20
  DEF Next, Identity, Install, Clear, Evaluate

\* Every step keeps deleted licences out.
LEMMA DeletedInvStep ==
  ASSUME TypeInv, DeletedInv, Next
  PROVE  DeletedInv'
<1>1. ASSUME NEW t \in Threads, Start(t) PROVE DeletedInv'
  BY <1>1, Starts, LeaseAssumption, SMT
    DEF world, files, locks, ghosts, TypeInv, TypeOK, Operations, Leases, DeletedInv,
        DeletedStaysOut, Locked
<1>2. ASSUME NEW t \in Threads, LoadIdentity(t) PROVE DeletedInv'
  BY <1>2, LoadsIdentity, LeaseAssumption, SMT
    DEF world, files, locks, ghosts, TypeInv, TypeOK, Operations, Leases, DeletedInv,
        DeletedStaysOut, Locked
<1>3. ASSUME NEW t \in Threads, SaveIdentity(t) PROVE DeletedInv'
  BY <1>3, LeaseAssumption, SMT
    DEF SaveIdentity, world, files, locks, ghosts, TypeInv, TypeOK, Operations, Leases,
        DeletedInv, DeletedStaysOut, Locked
<1>4. ASSUME NEW t \in Threads, ReloadIdentity(t) PROVE DeletedInv'
  BY <1>4, LeaseAssumption, SMT
    DEF ReloadIdentity, NoOp, world, files, locks, ghosts, TypeInv, TypeOK, Operations,
        Leases, DeletedInv, DeletedStaysOut, Locked
<1>5. ASSUME NEW t \in Threads, TakeLock(t) PROVE DeletedInv'
  BY <1>5, TakesLock, LeaseAssumption, SMT
    DEF world, files, locks, ghosts, TypeInv, TypeOK, Operations, Leases, DeletedInv,
        DeletedStaysOut, Locked
<1>6. ASSUME NEW t \in Threads, Post(t) PROVE DeletedInv'
  BY <1>6, Posts, LeaseAssumption, SMT
    DEF world, files, locks, ghosts, TypeInv, TypeOK, Operations, Leases, DeletedInv,
        DeletedStaysOut, Locked
<1>7. ASSUME NEW t \in Threads, InstallBinding(t) PROVE DeletedInv'
  BY <1>7, LeaseAssumption, SMT
    DEF InstallBinding, Leave, NoOp, world, files, locks, ghosts, TypeInv, TypeOK, Operations,
        Leases, DeletedInv, DeletedStaysOut, Locked
<1>8. ASSUME NEW t \in Threads, InstallLease(t) PROVE DeletedInv'
  BY <1>8, LeaseAssumption, SMT
    DEF InstallLease, Leave, NoOp, world, files, locks, ghosts, TypeInv, TypeOK, Operations,
        Leases, DeletedInv, DeletedStaysOut, Locked
<1>9. ASSUME NEW t \in Threads, RepairTrustedTime(t) PROVE DeletedInv'
  BY <1>9, RepairsTrustedTime, LeaseAssumption, SMT
    DEF RepairTrustedTime, Leave, NoOp, Corrupt, world, files, locks, ghosts, TypeInv, TypeOK,
        Operations, Leases, DeletedInv, DeletedStaysOut, Locked
<1>10. ASSUME NEW t \in Threads, ClearLease(t) PROVE DeletedInv'
  BY <1>10, LeaseAssumption, SMT
    DEF ClearLease, world, files, locks, ghosts, TypeInv, TypeOK, Operations, Leases,
        DeletedInv, DeletedStaysOut, Locked
<1>11. ASSUME NEW t \in Threads, ClearTrusted(t) PROVE DeletedInv'
  BY <1>11, LeaseAssumption, SMT
    DEF ClearTrusted, world, files, locks, ghosts, TypeInv, TypeOK, Operations, Leases,
        DeletedInv, DeletedStaysOut, Locked
<1>12. ASSUME NEW t \in Threads, ClearBinding(t) PROVE DeletedInv'
  BY <1>12, LeaseAssumption, SMT
    DEF ClearBinding, Leave, NoOp, world, files, locks, ghosts, TypeInv, TypeOK, Operations,
        Leases, DeletedInv, DeletedStaysOut, Locked
<1>13. ASSUME NEW e \in Evaluators, EvaluateBinding(e) PROVE DeletedInv'
  BY <1>13, EvaluatesBinding, LeaseAssumption, SMT
    DEF world, files, locks, ghosts, TypeInv, TypeOK, Operations, Leases, DeletedInv,
        DeletedStaysOut, Locked
<1>14. ASSUME NEW e \in Evaluators, EvaluateLease(e) PROVE DeletedInv'
  BY <1>14, EvaluatesLease, LeaseAssumption, SMT
    DEF world, files, locks, ghosts, TypeInv, TypeOK, Operations, Leases, DeletedInv,
        DeletedStaysOut, Locked
<1>15. ASSUME NEW e \in Evaluators, ReadTrustedTime(e) PROVE DeletedInv'
  BY <1>15, ReadsTrustedTime, LeaseAssumption, SMT
    DEF world, files, locks, ghosts, TypeInv, TypeOK, Operations, Leases, DeletedInv,
        DeletedStaysOut, Locked
<1>16. ASSUME NEW e \in Evaluators, WriteTrustedTime(e) PROVE DeletedInv'
  BY <1>16, WritesTrustedTime, LeaseAssumption, SMT
    DEF world, files, locks, ghosts, TypeInv, TypeOK, Operations, Leases, DeletedInv,
        DeletedStaysOut, Locked
<1>17. CASE Tick
  BY <1>17, LeaseAssumption, SMT
    DEF Tick, world, files, locks, ghosts, TypeInv, TypeOK, Operations, Leases, DeletedInv,
        DeletedStaysOut, Locked
<1>18. CASE SetClock
  BY <1>18, LeaseAssumption, SMT
    DEF SetClock, world, files, locks, ghosts, TypeInv, TypeOK, Operations, Leases,
        DeletedInv, DeletedStaysOut, Locked
<1>19. CASE DeleteLicense
  BY <1>19, LeaseAssumption, SMT
    DEF DeleteLicense, world, files, locks, ghosts, TypeInv, TypeOK, Operations, Leases,
        DeletedInv, DeletedStaysOut, Locked
<1>20. CASE Crash
  BY <1>20, LeaseAssumption, SMT
    DEF Crash, NoOp, NoEv, Corrupt, world, files, locks, ghosts, TypeInv, TypeOK, Operations,
        Leases, DeletedInv, DeletedStaysOut, Locked
<1> QED BY <1>1, <1>2, <1>3, <1>4, <1>5, <1>6, <1>7, <1>8, <1>9, <1>10, <1>11, <1>12, <1>13,
   <1>14, <1>15, <1>16, <1>17, <1>18, <1>19, <1>20
  DEF Next, Identity, Install, Clear, Evaluate

\* Every step keeps pending documents new.
LEMMA FreshInvStep ==
  ASSUME TypeInv, FreshInv, Next
  PROVE  FreshInv'
<1>1. ASSUME NEW t \in Threads, Start(t) PROVE FreshInv'
  <2>1. lease # None => lease.nr \in Nat
    BY SMT DEF TypeInv, TypeOK, Leases
  <2>2. \A x \in expired : x.nr \in Nat
    BY SMT DEF TypeInv, TypeOK, Leases
  <2>3. \A f \in Evaluators : ev[f].lease # None => ev[f].lease.nr \in Nat
    BY SMT DEF TypeInv, TypeOK, Leases, Evaluations
  <2>4. ops \in Nat /\ \A u \in Threads : op[u].nr \in Nat
    BY SMT DEF TypeInv, TypeOK, Operations
  <2> QED BY <1>1, <2>1, <2>2, <2>3, <2>4, Starts, SMT DEF files, ghosts, FreshInv, Pending
<1>2. ASSUME NEW t \in Threads, LoadIdentity(t) PROVE FreshInv'
  BY <1>2, LoadsIdentity, LeaseAssumption, SMT
    DEF world, files, locks, ghosts, TypeInv, TypeOK, Operations, Evaluations, Leases,
        FreshInv, Pending
<1>3. ASSUME NEW t \in Threads, SaveIdentity(t) PROVE FreshInv'
  BY <1>3, SavesIdentity, SMT DEF files, ghosts, FreshInv, Pending
<1>4. ASSUME NEW t \in Threads, ReloadIdentity(t) PROVE FreshInv'
  BY <1>4, LeaseAssumption, SMT
    DEF ReloadIdentity, NoOp, world, files, locks, ghosts, TypeInv, TypeOK, Operations,
        Evaluations, Leases, FreshInv, Pending
<1>5. ASSUME NEW t \in Threads, TakeLock(t) PROVE FreshInv'
  BY <1>5, TakesLock, LeaseAssumption, SMT
    DEF world, files, locks, ghosts, TypeInv, TypeOK, Operations, Evaluations, Leases,
        FreshInv, Pending
<1>6. ASSUME NEW t \in Threads, Post(t) PROVE FreshInv'
  BY <1>6, Posts, SMT DEF files, ghosts, FreshInv, Pending
<1>7. ASSUME NEW t \in Threads, InstallBinding(t) PROVE FreshInv'
  BY <1>7, LeaseAssumption, SMT
    DEF InstallBinding, Leave, NoOp, world, files, locks, ghosts, TypeInv, TypeOK, Operations,
        Evaluations, Leases, FreshInv, Pending
<1>8. ASSUME NEW t \in Threads, InstallLease(t) PROVE FreshInv'
  BY <1>8, LeaseAssumption, SMT
    DEF InstallLease, Leave, NoOp, world, files, locks, ghosts, TypeInv, TypeOK, Operations,
        Evaluations, Leases, FreshInv, Pending
<1>9. ASSUME NEW t \in Threads, RepairTrustedTime(t) PROVE FreshInv'
  BY <1>9, RepairsTrustedTime, LeaseAssumption, SMT
    DEF RepairTrustedTime, Leave, NoOp, Corrupt, world, files, locks, ghosts, TypeInv, TypeOK,
        Operations, Evaluations, Leases, FreshInv, Pending
<1>10. ASSUME NEW t \in Threads, ClearLease(t) PROVE FreshInv'
  BY <1>10, LeaseAssumption, SMT
    DEF ClearLease, world, files, locks, ghosts, TypeInv, TypeOK, Operations, Evaluations,
        Leases, FreshInv, Pending
<1>11. ASSUME NEW t \in Threads, ClearTrusted(t) PROVE FreshInv'
  BY <1>11, LeaseAssumption, SMT
    DEF ClearTrusted, world, files, locks, ghosts, TypeInv, TypeOK, Operations, Evaluations,
        Leases, FreshInv, Pending
<1>12. ASSUME NEW t \in Threads, ClearBinding(t) PROVE FreshInv'
  BY <1>12, LeaseAssumption, SMT
    DEF ClearBinding, Leave, NoOp, world, files, locks, ghosts, TypeInv, TypeOK, Operations,
        Evaluations, Leases, FreshInv, Pending
<1>13. ASSUME NEW e \in Evaluators, EvaluateBinding(e) PROVE FreshInv'
  BY <1>13, EvaluatesBinding, SMT DEF files, ghosts, FreshInv, Pending
<1>14. ASSUME NEW e \in Evaluators, EvaluateLease(e) PROVE FreshInv'
  BY <1>14, EvaluatesLease, LeaseAssumption, SMT DEF files, ghosts, FreshInv, Pending
<1>15. ASSUME NEW e \in Evaluators, ReadTrustedTime(e) PROVE FreshInv'
  BY <1>15, ReadsTrustedTime, LeaseAssumption, SMT DEF files, ghosts, FreshInv, Pending
<1>16. ASSUME NEW e \in Evaluators, WriteTrustedTime(e) PROVE FreshInv'
  <2>1. ev[e].lease # None
    BY <1>16, WritesTrustedTime, LeaseAssumption DEF TypeInv, Leases
  <2> QED BY <1>16, <2>1, WritesTrustedTime, SMT DEF FreshInv
<1>17. CASE Tick
  BY <1>17, LeaseAssumption, SMT
    DEF Tick, world, files, locks, ghosts, TypeInv, TypeOK, Operations, Evaluations, Leases,
        FreshInv, Pending
<1>18. CASE SetClock
  BY <1>18, LeaseAssumption, SMT
    DEF SetClock, world, files, locks, ghosts, TypeInv, TypeOK, Operations, Evaluations,
        Leases, FreshInv, Pending
<1>19. CASE DeleteLicense
  BY <1>19, LeaseAssumption, SMT
    DEF DeleteLicense, world, files, locks, ghosts, TypeInv, TypeOK, Operations, Evaluations,
        Leases, FreshInv, Pending
<1>20. CASE Crash
  BY <1>20, LeaseAssumption, SMT
    DEF Crash, NoOp, NoEv, Corrupt, world, files, locks, ghosts, TypeInv, TypeOK, Operations,
        Evaluations, Leases, FreshInv, Pending
<1> QED BY <1>1, <1>2, <1>3, <1>4, <1>5, <1>6, <1>7, <1>8, <1>9, <1>10, <1>11, <1>12, <1>13,
   <1>14, <1>15, <1>16, <1>17, <1>18, <1>19, <1>20
  DEF Next, Identity, Install, Clear, Evaluate

\* Every step keeps the clock guard ahead of what has expired.
LEMMA GuardInvStep ==
  ASSUME TypeInv, DeletedInv, FreshInv, GuardInv, Next
  PROVE  GuardInv'
<1>1. ASSUME NEW t \in Threads, Start(t) PROVE GuardInv'
  BY <1>1, Starts, LeaseAssumption, SMT
    DEF world, files, locks, ghosts, TypeInv, TypeOK, Operations, Evaluations, Leases, Guards,
        Corrupt, GuardInv, ExpiredIsRemembered, FreshInv, Pending, DeletedInv, Locked
<1>2. ASSUME NEW t \in Threads, LoadIdentity(t) PROVE GuardInv'
  BY <1>2, LoadsIdentity, LeaseAssumption, SMT
    DEF world, files, locks, ghosts, TypeInv, TypeOK, Operations, Evaluations, Leases, Guards,
        Corrupt, GuardInv, ExpiredIsRemembered, FreshInv, Pending, DeletedInv, Locked
<1>3. ASSUME NEW t \in Threads, SaveIdentity(t) PROVE GuardInv'
  BY <1>3, LeaseAssumption, SMT
    DEF SaveIdentity, world, files, locks, ghosts, TypeInv, TypeOK, Operations, Evaluations,
        Leases, Guards, Corrupt, GuardInv, ExpiredIsRemembered, FreshInv, Pending, DeletedInv,
        Locked
<1>4. ASSUME NEW t \in Threads, ReloadIdentity(t) PROVE GuardInv'
  BY <1>4, LeaseAssumption, SMT
    DEF ReloadIdentity, NoOp, world, files, locks, ghosts, TypeInv, TypeOK, Operations,
        Evaluations, Leases, Guards, Corrupt, GuardInv, ExpiredIsRemembered, FreshInv,
        Pending, DeletedInv, Locked
<1>5. ASSUME NEW t \in Threads, TakeLock(t) PROVE GuardInv'
  BY <1>5, TakesLock, LeaseAssumption, SMT
    DEF world, files, locks, ghosts, TypeInv, TypeOK, Operations, Evaluations, Leases, Guards,
        Corrupt, GuardInv, ExpiredIsRemembered, FreshInv, Pending, DeletedInv, Locked
<1>6. ASSUME NEW t \in Threads, Post(t) PROVE GuardInv'
  BY <1>6, Posts, LeaseAssumption, SMT
    DEF world, files, locks, ghosts, TypeInv, TypeOK, Operations, Evaluations, Leases, Guards,
        Corrupt, GuardInv, ExpiredIsRemembered, FreshInv, Pending, DeletedInv, Locked
<1>7. ASSUME NEW t \in Threads, InstallBinding(t) PROVE GuardInv'
  BY <1>7, LeaseAssumption, SMT
    DEF InstallBinding, Leave, NoOp, world, files, locks, ghosts, TypeInv, TypeOK, Operations,
        Evaluations, Leases, Guards, Corrupt, GuardInv, ExpiredIsRemembered, FreshInv,
        Pending, DeletedInv, Locked
<1>8. ASSUME NEW t \in Threads, InstallLease(t) PROVE GuardInv'
  BY <1>8, LeaseAssumption, SMT
    DEF InstallLease, Leave, NoOp, world, files, locks, ghosts, TypeInv, TypeOK, Operations,
        Evaluations, Leases, Guards, Corrupt, GuardInv, ExpiredIsRemembered, FreshInv,
        Pending, DeletedInv, Locked
<1>9. ASSUME NEW t \in Threads, RepairTrustedTime(t) PROVE GuardInv'
  BY <1>9, RepairsTrustedTime, LeaseAssumption, SMT
    DEF RepairTrustedTime, Leave, NoOp, Corrupt, world, files, locks, ghosts, TypeInv, TypeOK,
        Operations, Evaluations, Leases, Guards, GuardInv, ExpiredIsRemembered, FreshInv,
        Pending, DeletedInv, Locked
<1>10. ASSUME NEW t \in Threads, ClearLease(t) PROVE GuardInv'
  BY <1>10, LeaseAssumption, SMT
    DEF ClearLease, world, files, locks, ghosts, TypeInv, TypeOK, Operations, Evaluations,
        Leases, Guards, Corrupt, GuardInv, ExpiredIsRemembered, FreshInv, Pending, DeletedInv,
        Locked
<1>11. ASSUME NEW t \in Threads, ClearTrusted(t) PROVE GuardInv'
  BY <1>11, LeaseAssumption, SMT
    DEF ClearTrusted, world, files, locks, ghosts, TypeInv, TypeOK, Operations, Evaluations,
        Leases, Guards, Corrupt, GuardInv, ExpiredIsRemembered, FreshInv, Pending, DeletedInv,
        Locked
<1>12. ASSUME NEW t \in Threads, ClearBinding(t) PROVE GuardInv'
  BY <1>12, LeaseAssumption, SMT
    DEF ClearBinding, Leave, NoOp, world, files, locks, ghosts, TypeInv, TypeOK, Operations,
        Evaluations, Leases, Guards, Corrupt, GuardInv, ExpiredIsRemembered, FreshInv,
        Pending, DeletedInv, Locked
<1>13. ASSUME NEW e \in Evaluators, EvaluateBinding(e) PROVE GuardInv'
  BY <1>13, EvaluatesBinding, LeaseAssumption, SMT
    DEF world, files, locks, ghosts, TypeInv, TypeOK, Operations, Evaluations, Leases, Guards,
        Corrupt, GuardInv, ExpiredIsRemembered, FreshInv, Pending, DeletedInv, Locked
<1>14. ASSUME NEW e \in Evaluators, EvaluateLease(e) PROVE GuardInv'
  BY <1>14, EvaluatesLease, LeaseAssumption, SMT
    DEF world, files, locks, ghosts, TypeInv, TypeOK, Operations, Evaluations, Leases, Guards,
        Corrupt, GuardInv, ExpiredIsRemembered, FreshInv, Pending, DeletedInv, Locked
<1>15. ASSUME NEW e \in Evaluators, ReadTrustedTime(e) PROVE GuardInv'
  BY <1>15, ReadsTrustedTime, LeaseAssumption, SMT
    DEF world, files, locks, ghosts, TypeInv, TypeOK, Operations, Evaluations, Leases, Guards,
        Corrupt, GuardInv, ExpiredIsRemembered, FreshInv, Pending, DeletedInv, Locked
<1>16. ASSUME NEW e \in Evaluators, WriteTrustedTime(e) PROVE GuardInv'
  <2>1. trusted' \in Guards /\ trusted' # Corrupt /\ trusted' # None
    BY <1>16, WritesTrustedTime, LeaseAssumption, SMT DEF Guards, Corrupt
  <2>2. ExpiredIsRemembered'
    <3> SUFFICES ASSUME lease \in expired' PROVE trusted'.highest >= lease.until
      BY <1>16, <2>1, WritesTrustedTime DEF ExpiredIsRemembered
    <3>1. CASE lease = ev[e].lease /\ trusted'.highest >= ev[e].lease.until
      BY <3>1
    <3>2. CASE lease \in expired
      <4>1. trusted = ev[e].trusted /\ ev[e].trusted \in Guards
        BY <1>16, <3>2, WritesTrustedTime, LeaseAssumption, SMT
        DEF GuardInv, ExpiredIsRemembered, TypeInv, Guards, Corrupt
      <4>2. trusted # Corrupt /\ trusted.highest \in Nat /\ trusted'.highest \in Nat
        BY <2>1, <4>1, SMT DEF Guards, Corrupt
      <4>3. lease \in Leases
        BY <3>2 DEF TypeInv, TypeOK
      <4>4. lease.until \in Nat
        BY <4>3 DEF Leases
      <4>5. trusted.highest >= lease.until
        BY <3>2, <4>2 DEF GuardInv, ExpiredIsRemembered
      <4> QED BY <1>16, <4>1, <4>2, <4>4, <4>5, WritesTrustedTime, SMT
    <3> QED BY <1>16, <3>1, <3>2, WritesTrustedTime
  <2>3. \A f \in Evaluators : ev'[f].pc # "write"
    BY <1>16, WritesTrustedTime DEF GuardInv
  <2>4. ASSUME NEW t \in Threads, op'[t].pc = "repair", trusted' = Corrupt
        PROVE  op'[t].data \notin expired'
    BY <2>1, <2>4
  <2> QED BY <2>2, <2>3, <2>4 DEF GuardInv
<1>17. CASE Tick
  BY <1>17, LeaseAssumption, SMT
    DEF Tick, world, files, locks, ghosts, TypeInv, TypeOK, Operations, Evaluations, Leases,
        Guards, Corrupt, GuardInv, ExpiredIsRemembered, FreshInv, Pending, DeletedInv, Locked
<1>18. CASE SetClock
  BY <1>18, LeaseAssumption, SMT
    DEF SetClock, world, files, locks, ghosts, TypeInv, TypeOK, Operations, Evaluations,
        Leases, Guards, Corrupt, GuardInv, ExpiredIsRemembered, FreshInv, Pending, DeletedInv,
        Locked
<1>19. CASE DeleteLicense
  BY <1>19, LeaseAssumption, SMT
    DEF DeleteLicense, world, files, locks, ghosts, TypeInv, TypeOK, Operations, Evaluations,
        Leases, Guards, Corrupt, GuardInv, ExpiredIsRemembered, FreshInv, Pending, DeletedInv,
        Locked
<1>20. CASE Crash
  BY <1>20, LeaseAssumption, SMT
    DEF Crash, NoOp, NoEv, Corrupt, world, files, locks, ghosts, TypeInv, TypeOK, Operations,
        Evaluations, Leases, Guards, GuardInv, ExpiredIsRemembered, FreshInv, Pending,
        DeletedInv, Locked
<1> QED BY <1>1, <1>2, <1>3, <1>4, <1>5, <1>6, <1>7, <1>8, <1>9, <1>10, <1>11, <1>12, <1>13,
   <1>14, <1>15, <1>16, <1>17, <1>18, <1>19, <1>20
  DEF Next, Identity, Install, Clear, Evaluate

----------------------------------------------------------------------------
(* The theorems *)

ClientInv == TypeInv /\ KeyInv /\ DeletedInv /\ FreshInv /\ GuardInv

\* The invariant holds in every reachable state.
LEMMA ClientInvariant == Spec => []ClientInv
<1>1. Init => ClientInv
  <2> SUFFICES ASSUME Init PROVE ClientInv
    OBVIOUS
  <2>1. op \in [Threads -> Operations] /\ ev \in [Evaluators -> Evaluations]
    BY FreshRecords DEF Init
  <2>2. /\ \A t \in Threads : op[t].pc = "idle"
        /\ \A e \in Evaluators : ev[e].pc = "idle" /\ ev[e].lease = None
    BY DEF Init, NoOp, NoEv
  <2>3. TypeInv
    BY <2>1, <2>2, SMT DEF Init, TypeInv, TypeOK
  <2>4. KeyInv /\ DeletedInv
    BY <2>2, SMT DEF Init, KeyInv, OneIdentity, DeletedInv, DeletedStaysOut, Locked
  <2>5. FreshInv /\ GuardInv
    BY <2>2, SMT DEF Init, FreshInv, Pending, GuardInv, ExpiredIsRemembered
  <2> QED BY <2>3, <2>4, <2>5 DEF ClientInv
<1>2. ClientInv /\ [Next]_vars => ClientInv'
  <2> SUFFICES ASSUME ClientInv, [Next]_vars PROVE ClientInv'
    OBVIOUS
  <2>1. CASE Next
    BY <2>1, TypeInvStep, KeyInvStep, DeletedInvStep, FreshInvStep, GuardInvStep DEF ClientInv
  <2>2. CASE UNCHANGED vars
    <3>1. TypeInv'
      BY <2>2 DEF ClientInv, vars, TypeInv, TypeOK
    <3>2. KeyInv' /\ DeletedInv'
      BY <2>2 DEF ClientInv, vars, KeyInv, OneIdentity, DeletedInv, DeletedStaysOut
    <3>3. FreshInv' /\ GuardInv'
      BY <2>2 DEF ClientInv, vars, FreshInv, GuardInv, ExpiredIsRemembered
    <3> QED BY <3>1, <3>2, <3>3 DEF ClientInv
  <2> QED BY <2>1, <2>2
<1> QED BY <1>1, <1>2, PTL DEF Spec

\* Files, locks and the records of threads keep their types.
THEOREM ClientTypeCorrect == Spec => []TypeOK
<1>1. ClientInv => TypeOK
  BY DEF ClientInv, TypeInv
<1> QED BY <1>1, ClientInvariant, PTL

\* However many operations start at once, every request is signed with the
\* key that the computer keeps.
THEOREM OneKeySigns == Spec => []OneIdentity
<1>1. ClientInv => OneIdentity
  BY DEF ClientInv, KeyInv
<1> QED BY <1>1, ClientInvariant, PTL

\* A licence whose deletion the desktop has handled has no lease on disk ever
\* after, whatever other operations were under way.
THEOREM DeletedLicenseStaysOut == Spec => []DeletedStaysOut
<1>1. ClientInv => DeletedStaysOut
  BY DEF ClientInv, DeletedInv
<1> QED BY <1>1, ClientInvariant, PTL

\* A lease that an evaluation found expired stays expired, whatever the clock
\* is set to, as long as the clock guard is readable.
THEOREM ExpiredStaysExpired == Spec => []ExpiredIsRemembered
<1>1. ClientInv => ExpiredIsRemembered
  BY DEF ClientInv, GuardInv
<1> QED BY <1>1, ClientInvariant, PTL

\* A step that keeps the guard keeps or raises both of its times.
LEMMA GuardRises ==
  ASSUME ClientInv, [Next]_vars, trusted \in Guards, trusted' \in Guards
  PROVE  trusted'.highest >= trusted.highest /\ trusted'.server >= trusted.server
<1>1. trusted # Corrupt /\ trusted # None
  BY LeaseAssumption, SMT DEF Guards, Corrupt
<1>2. ASSUME NEW e \in Evaluators, WriteTrustedTime(e)
      PROVE  trusted'.highest >= trusted.highest /\ trusted'.server >= trusted.server
  <2>1. trusted = ev[e].trusted
    BY <1>1, <1>2, WritesTrustedTime DEF ClientInv, GuardInv
  <2> QED BY <1>2, <2>1, WritesTrustedTime DEF ClientInv
<1>3. ASSUME NEW t \in Threads, RepairTrustedTime(t) PROVE trusted' = trusted
  BY <1>1, <1>3 DEF RepairTrustedTime
<1>4. ASSUME NEW t \in Threads, ClearTrusted(t) PROVE FALSE
  <2>1. trusted' = None
    BY <1>4 DEF ClearTrusted
  <2> QED BY <2>1, LeaseAssumption, SMT DEF Guards
<1>5. CASE Crash
  <2>1. trusted' # Corrupt
    BY SMT DEF Guards, Corrupt
  <2>2. trusted' = trusted
    BY <1>5, <2>1 DEF Crash
  <2> QED BY <2>2, SMT DEF Guards
<1>6. CASE trusted' = trusted
  BY <1>6, SMT DEF Guards
<1>7. \/ trusted' = trusted
      \/ \E e \in Evaluators : WriteTrustedTime(e)
      \/ \E t \in Threads : RepairTrustedTime(t) \/ ClearTrusted(t)
      \/ Crash
  BY DEF Next, vars, Identity, Install, Clear, Evaluate, files, Start, LoadIdentity, SaveIdentity,
         ReloadIdentity, TakeLock, Post, InstallBinding, InstallLease, ClearLease, ClearBinding,
         EvaluateBinding, EvaluateLease, ReadTrustedTime, Tick, SetClock, DeleteLicense
<1> QED BY <1>2, <1>3, <1>4, <1>5, <1>6, <1>7

\* No evaluation, repair or crash replaces the clock guard by an earlier one.
THEOREM GuardIsMonotonic == Spec => GuardNeverMovesBack
<1>1. ClientInv /\ [Next]_vars =>
        [(trusted \in Guards /\ trusted' \in Guards) =>
           (trusted'.highest >= trusted.highest /\ trusted'.server >= trusted.server)]_vars
  BY GuardRises
<1> QED BY <1>1, ClientInvariant, PTL DEF Spec, GuardNeverMovesBack

=============================================================================
